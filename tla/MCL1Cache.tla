----------------------------- MODULE MCL1Cache -----------------------------
(* Instances of L1Cache for TLC. *)
EXTENDS L1Cache

CONSTANT Walked    \* the tag of the page table, or none

MCWalkerWord == {a \in Addr : a.tag = Walked /\ ~Uncached(a)}

WithoutOut == <<mem, icache, dcache, cache_tick>>
=============================================================================
