\* A ring of four slots, hence three bytes, and three more on the wire.
CONSTANTS
    SIZE = 4
    Byte = {b0, b1}
    NoByte = NoByte
    Rire = {1, 2, 3}
    MaxWire = 3
SPECIFICATION Spec
INVARIANT TypeOK
PROPERTIES StreamSpec SciLine Acknowledged Woken
\* What an empty slot of the ring holds is never read.
VIEW LiveView
