\* A channel is enabled while its unit runs, then the unit is stopped.
CONSTANTS
    Unit = {A}
    CCs = 2
SPECIFICATION Spec
INVARIANT StoppedQuiet
