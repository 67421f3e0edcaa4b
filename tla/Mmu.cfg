CONSTANTS
    Regions = 2
    Slots = 2
    Entries = 1
    Frame = {f0, t, f, g}
    Frame0 = f0
    Pt = {t}
    Dir = {d0, d1}
    Dir0 = d0
    PdWrites <- MCPdWrites
    PtWrites <- MCPtWrites
    Psrs <- MCPsrs
    Mmumods = {"L2", "unsupported"}
    None = None
    Table = t
    PageF = f
    PageG = g
    d0 = d0
    d1 = d1
SPECIFICATION Spec
VIEW View
INVARIANTS TypeOK TlbCurrent
PROPERTIES TlbInvisible FaultsReal
