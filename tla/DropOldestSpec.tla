--------------------------- MODULE DropOldestSpec ---------------------------
(***************************************************************************)
(* What the keyboard promises its guest: the last Capacity scancodes that  *)
(* were typed and not yet read, in the order of typing, each once.         *)
(***************************************************************************)
EXTENDS Sequences, Integers

CONSTANTS Capacity, Scancode, NoScancode

VARIABLES queue,    \* typed and neither read nor dropped
          answer    \* what the last read got

vars == <<queue, answer>>

Init == queue = <<>> /\ answer = NoScancode

Type(c) == /\ \/ Len(queue) < Capacity /\ queue' = Append(queue, c)
              \/ Len(queue) = Capacity /\ queue' = Append(Tail(queue), c)
           /\ UNCHANGED answer

Read == \/ /\ queue # <<>>
           /\ answer' = Head(queue)
           /\ queue' = Tail(queue)
        \/ /\ queue = <<>>
           /\ answer' = NoScancode
           /\ UNCHANGED queue

Next == (\E c \in Scancode : Type(c)) \/ Read

Spec == Init /\ [][Next]_vars
=============================================================================
