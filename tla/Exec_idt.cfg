\* Incomplete interrupt tables, all devices, SIGINT, SYS_exit.
CONSTANTS
    PCs = 3
    EntryP = 0
    SPs = 1
    StackDefault = 0
    Flag = {f1}
    ResetFlag = f1
    StaticFlag = f1
    Device = {5, 36, 37}
    SwiNum = {64, 65}
    IdtTables <- ManyTables
    AllFlags = {"VALID", "ENABLE"}
    Insns = {"plain", "io", "fault", "trap", "ib", "srieiw", "idts", "abort", "srpflagw"}
    TestsuiteMode = TRUE
    DebugExitB0 = TRUE
    None = None
SPECIFICATION FairSpec
INVARIANT TrapServed
PROPERTIES DeviceKept FinishStops
