\* The guest leaves RIRE zero.
CONSTANTS
    SIZE = 3
    Byte = {b0}
    NoByte = NoByte
    Rire = {0}
    MaxWire = 1
SPECIFICATION Spec
INVARIANT RireDisables
