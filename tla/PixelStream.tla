---------------------------- MODULE PixelStream ----------------------------
(***************************************************************************)
(* What the bitmap display promises the monitor client: the pixels the     *)
(* guest stores arrive in batches, in the order of the stores, each once,  *)
(* and each batch is everything that was not yet sent.  While the client   *)
(* watches, pixels are lost only in a send that a signal cuts short, which *)
(* may also break off inside a message: the client then understands none   *)
(* of the rest.                                                            *)
(***************************************************************************)
EXTENDS Sequences

CONSTANT Pixel

VARIABLES pending,  \* stored and not yet sent
          shown,    \* the last batch the client got
          client,   \* "watching", "confused" by half a message, or "closed"
          cut       \* a signal has just cut a send short

vars == <<pending, shown, client, cut>>

Init == pending = <<>> /\ shown = <<>> /\ client = "watching" /\ cut = FALSE

Draw(p) == /\ pending' = Append(pending, p)
           /\ UNCHANGED <<shown, client>>

Deliver == /\ client = "watching" /\ pending # <<>>
           /\ shown' = pending
           /\ pending' = <<>>
           /\ UNCHANGED client

\* A batch meets nobody, or a signal.
Lose == /\ client # "watching" \/ cut'
        /\ pending' = <<>>
        /\ client' = client \/ (cut' /\ client # "closed" /\ client' = "confused")
        /\ UNCHANGED shown

Leave == /\ client' = "closed"
         /\ UNCHANGED <<pending, shown>>

\* Nothing changes but the mark of the last step.
Rest == UNCHANGED <<pending, shown, client>>

Next == /\ (\E p \in Pixel : Draw(p)) \/ Deliver \/ Lose \/ Leave \/ Rest
        /\ cut' \in BOOLEAN

Spec == Init /\ [][Next]_vars
=============================================================================
