\* One unit of three channels.
CONSTANTS
    Unit = {A}
    CCs = 3
SPECIFICATION FairSpec
INVARIANTS TypeOK ProgrammedTimers ExpiryKept
PROPERTIES ExpiryNoticed TimerLine
