----------------------------- MODULE ByteStream -----------------------------
(***************************************************************************)
(* What the receiver of the serial interface promises its guest: the bytes *)
(* the peer sent are read in the order they were sent, each once, and only *)
(* a receive-clear drops any, the oldest ones first.  A read may find      *)
(* nothing although bytes are under way.                                   *)
(***************************************************************************)
EXTENDS Sequences, Integers

CONSTANTS Byte,     \* what can be sent
          NoByte    \* the event carries no byte

VARIABLES pending,  \* bytes sent and not yet read
          event     \* the last operation and the byte it carried

vars == <<pending, event>>

Quiet == [op |-> "quiet", byte |-> NoByte]

Init == /\ pending = <<>>
        /\ event = Quiet

Send(b) == /\ pending' = Append(pending, b)
           /\ event' = [op |-> "send", byte |-> b]

Read == /\ pending # <<>>
        /\ event' = [op |-> "rxd", byte |-> Head(pending)]
        /\ pending' = Tail(pending)

ReadNothing == /\ event' = [op |-> "rxd", byte |-> NoByte]
               /\ UNCHANGED pending

Drop == \E n \in 0 .. Len(pending) :
            /\ pending' = SubSeq(pending, n + 1, Len(pending))
            /\ event' = [op |-> "clear", byte |-> NoByte]

Other == /\ event'.op \notin {"send", "rxd", "clear"}
         /\ UNCHANGED pending

Next == (\E b \in Byte : Send(b)) \/ Read \/ ReadNothing \/ Drop \/ Other

Spec == Init /\ [][Next]_vars
=============================================================================
