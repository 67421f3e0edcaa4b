\* A comparison, a fault and a conditional branch.
CONSTANTS
    PCs = 3
    EntryP = 0
    SPs = 1
    StackDefault = 0
    Flag = {f0, f1}
    ResetFlag = f1
    StaticFlag = f0
    Device = {}
    SwiNum = {65}
    IdtTables <- OneTable
    AllFlags = {"VALID", "ENABLE"}
    Insns = {"arith", "branch", "fault", "ib", "srpsw", "idts"}
    TestsuiteMode = FALSE
    DebugExitB0 = FALSE
    None = None
SPECIFICATION Spec
INVARIANT FlagsCheckSound
