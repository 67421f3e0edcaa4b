\* Two words of memory for one cache line, a card of one word a sector.
CONSTANTS
    Tags = 6
    MemoryMaxTag = 2
    Index = {0}
    Word = {0}
    Ways = 1
    TickMod = 1
    Byte = {0, 1}
    SPs = 2
    MaxImage = 2
    Value <- MCValue
    Zero <- MCZero
    WalkerWord = {}
    NoAnswer = NoAnswer
    NoAddr = NoAddr
    Stack <- MCStack
    GCI_MMCC_INIT_COMMAND <- MCInitCommand
    GCI_MMCC_SECTOR_READ <- MCSectorRead
    GCI_MMCC_SECTOR_WRITE <- MCSectorWrite
    Buffer <- MCBuffer
    Cards <- MCCards
    Program <- MCProgram
SPECIFICATION MmccSpec
INVARIANT MmccTypeOK
PROPERTY ByteSpec
VIEW MmccView
