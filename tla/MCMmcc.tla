------------------------------- MODULE MCMmcc -------------------------------
EXTENDS Mmcc

\* Two words of memory, which one cache line holds in turn, and the device.
At(t) == [tag |-> t, index |-> 0, word |-> 0]
MCInitCommand == At(2)
MCSectorRead == At(3)
MCSectorWrite == At(4)
MCBuffer == <<At(5)>>
MCStack == [s \in 0 .. 1 |-> At(s)]

\* The words 0, 1 and 1 << 24, which the byte swap exchanges.
Bit(lane) == [k \in Lane |-> IF k = lane THEN 1 ELSE 0]
MCZero == [k \in Lane |-> 0]
MCValue == {MCZero, Bit(0), Bit(3)}

\* An empty card, and one of one sector.
MCCards == {<<>>, <<Bit(3)>>}
MCProgram == [a \in {At(0), At(1)} |-> IF a = At(0) THEN Bit(3) ELSE MCZero]

\* out and insn are only written, the init register too, and dest once a tas
\* has been decided.
MmccView == <<[mem EXCEPT ![GCI_MMCC_INIT_COMMAND] = Zero], dcache, IF tas = NoAddr THEN Zero ELSE dest, control, card>>
=============================================================================
