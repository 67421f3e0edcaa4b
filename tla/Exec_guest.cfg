\* Any guest program of these instructions: who resumes where, on which stack.
CONSTANTS
    PCs = 2
    EntryP = 0
    SPs = 2
    StackDefault = 1
    Flag = {f0, f1}
    ResetFlag = f1
    StaticFlag = f0
    Device = {5}
    SwiNum = {65}
    IdtTables <- OneTable
    AllFlags = {"VALID", "ENABLE"}
    Insns = {"arith", "branch", "push", "pop", "srspw", "sruspw", "srppcw", "srppsw", "io", "fault", "trap", "ib", "srieiw", "srpsw", "idts"}
    TestsuiteMode = FALSE
    DebugExitB0 = FALSE
    None = None
SPECIFICATION Spec
INVARIANTS TypeOK CycleClean UserResumes StackBanked OneEntry
