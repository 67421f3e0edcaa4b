------------------------------- MODULE MCExec -------------------------------
(* Instances of Exec for TLC. *)
EXTENDS Exec

CONSTANT AllFlags   \* the flag values of an entry in use

\* a table whose entries all carry AllFlags and lead to the last address
Uniform == [v \in Vector |-> [flags |-> AllFlags, handler |-> PCs - 1]]

\* only some entries are valid, each with a handler of its own where the
\* addresses last
Only(valid, h(_)) ==
    [v \in Vector |-> [flags   |-> IF v \in valid THEN {"VALID", "ENABLE"} ELSE {},
                       handler |-> h(v)]]
Spread(v) == v % PCs

OneTable   == {Uniform}
ManyTables == {Uniform,
               Only({}, Spread),
               Only({IDT_DOUBLEFAULT_NUM}, Spread),
               Only({IDT_INVALID_IDT_NUM} \union Device, Spread),
               Only(Vector \ {IDT_INVALID_IDT_NUM}, Spread)}
=============================================================================
