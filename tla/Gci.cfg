\* A ring of four slots and two keys, a bitmap of one row of two pixels, and two
\* full rows of pixels between two polls.  A pixel's place stands for its color.
CONSTANTS
    SIZE = 4
    Scancode = {s0, s1}
    NoScancode = NoScancode
    DPS_UTIM64_SIZE = 1
    DPS_SCITXD = 1
    DPS_SCIRXD = 2
    DPS_SCICFG = 3
    DPS_LSFLAGS = 4
    DPS_SIZE = 5
    GCI_HUB_SIZE = 1
    GCI_NODE_SIZE = 2
    GCI_NODE_IRF_OFFSET = 1
    GCI_KMC_AREA_SIZE = 1
    GCI_DISPLAY_CHAR_SIZE = 1
    GCI_MMCC_AREA_SIZE = 2
    DISPLAY_WIDTH = 2
    DISPLAY_HEIGHT = 1
    INTERVAL = 3
    Color = {c0}
SPECIFICATION GciSpec
INVARIANTS Announced GciTypeOK Backlog
PROPERTIES KeyboardSpec KeyboardLine Acknowledged Decoded PixelSpec
VIEW GciView
