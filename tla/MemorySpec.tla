----------------------------- MODULE MemorySpec -----------------------------
(***************************************************************************)
(* What the guest is promised by its memory, whatever stands between the   *)
(* processor and the memory array: a fetch or a load answers with the word *)
(* most recently stored.  "out" is the last answer given, or NoAnswer.     *)
(*                                                                         *)
(* Words in Raw are also changed behind the processor's back (devices, the *)
(* page walker); a read of a raw word may answer any value.                *)
(***************************************************************************)
CONSTANTS Addr, Value, Raw, NoAnswer

VARIABLES mem, out

vars == <<mem, out>>

Answer == [addr : Addr, value : Value]

Init == /\ mem \in [Addr -> Value]
        /\ out = NoAnswer

Read(a) == /\ \E v \in Value : /\ a \notin Raw => v = mem[a]
                               /\ out' = [addr |-> a, value |-> v]
           /\ UNCHANGED mem

Write(a, v) == /\ mem' = [mem EXCEPT ![a] = v]
               /\ out' = NoAnswer

Next == \E a \in Addr : \/ Read(a)
                        \/ \E v \in Value : Write(a, v)

Spec == Init /\ [][Next]_vars
=============================================================================
