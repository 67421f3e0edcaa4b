CONSTANTS
    Width = 3
    Half = 4
    Reg = {r1, r2}
    Immediate = {1, 7}
    None = None
SPECIFICATION Spec
SYMMETRY Symmetry
INVARIANTS TypeOK OrderTold SumTold ShiftTold
