----------------------------- MODULE DeviceLine -----------------------------
(***************************************************************************)
(* What interrupt_dispatcher may take a device for.  The dispatcher asks   *)
(* its *_interrupt() function, now and then and not in every cycle; "wants"*)
(* says what the answer would be.  A request may come at any time.  It is  *)
(* taken back by the answer if the device latches it, and by an instruction*)
(* of the guest if it can be withdrawn; by nothing else, neither by what   *)
(* the simulator does between two instructions nor by signals and peers.   *)
(***************************************************************************)
CONSTANTS
    Latched,        \* the answer TRUE takes the request back
    Withdrawable    \* so may an instruction of the guest

VARIABLES
    turn,           \* whose step comes next: "guest" or "simulator"
    wants,          \* *_interrupt() would answer TRUE
    answer          \* the last answer, "none" once the guest has gone on

vars == <<turn, wants, answer>>

Init == turn = "guest" /\ wants = FALSE /\ answer # "interrupt"

Interrupt == /\ wants
             /\ answer' = "interrupt"
             /\ wants' = ~Latched

Quiet == /\ ~wants
         /\ answer' = "quiet"
         /\ UNCHANGED wants

Ask == turn = "simulator" /\ (Interrupt \/ Quiet)

Change == /\ answer' \in {"none", answer}
          /\ wants' \in BOOLEAN
          /\ wants /\ ~wants' => turn = "guest" /\ Withdrawable

Next == (Ask \/ Change) /\ turn' \in {"guest", "simulator"}

Spec == Init /\ [][Next]_vars
=============================================================================
