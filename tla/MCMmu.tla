------------------------------- MODULE MCMmu -------------------------------
(* An instance of Mmu for TLC. *)
EXTENDS Mmu

CONSTANTS Table, PageF, PageG,  \* frames
          d0, d1                \* directories

E(pe, pp, ex, frame) == [valid |-> TRUE, ex |-> ex, pe |-> pe, r |-> FALSE,
                         d |-> FALSE, pp |-> pp, frame |-> frame]

\* both directories can share the table in region 0, which has a page whose
\* rights can be widened; region 1 has a 4 MB page in only one of them
MCPdWrites == ({d0, d1} \X {0} \X {E(FALSE, "RWRW", TRUE, Table)})
                \union {<<d1, 1, E(TRUE, "RWRD", TRUE, PageF)>>}
MCPtWrites == {<<Table, 0, E(FALSE, "RWRW", TRUE, PageF)>>,
               <<Table, 1, E(FALSE, "RDXX", FALSE, PageG)>>,
               <<Table, 1, E(FALSE, "RWRW", FALSE, PageG)>>}

MCPsrs == {PsrReset, [mmumod |-> "L2", cmod |-> "user", ps4k |-> TRUE]}

\* the access of the last step and its answer are checked as they happen
View == <<tables, regs, memory_tlb, memory_is_fault, aborted, stale>>
=============================================================================
