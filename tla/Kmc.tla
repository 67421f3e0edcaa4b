-------------------------------- MODULE Kmc --------------------------------
(***************************************************************************)
(* The keyboard: monitor_method_recv pushes the scancodes of the monitor   *)
(* client into the ring fifo_scancode, which drops its oldest code when it *)
(* is full, and the guest reads them one by one (gci_kmc_read).  A push    *)
(* asks for an interrupt (int_dispatch); gci_kmc_interrupt issues at most  *)
(* one (int_issued) until the guest reads the interrupt factor of the node *)
(* (GCI_NODE_IRF_OFFSET in io_load).                                       *)
(*                                                                         *)
(* A cycle is one guest instruction, the poll of the monitor, which pushes *)
(* any number of codes, and the interrupt dispatcher.                      *)
(***************************************************************************)
EXTENDS Integers, Sequences

CONSTANTS
    SIZE,           \* KMC_FIFO_SCANCODE_SIZE: one slot always stays free
    Scancode,
    NoScancode      \* a read without KMC_SCANCODE_VALID

ASSUME SizeAssumption == SIZE \in Nat \ {0, 1}
ASSUME ScancodeAssumption == NoScancode \notin Scancode

VARIABLES
    fifo_scancode, fifo_scancode_start, fifo_scancode_end,
    int_dispatch, int_issued,   \* of gci_nodes[GCI_KMC_NUM]
    enabled,                    \* PSR_IM_ENABLE and IDT_ISENABLE(IDT_GCI_KMC_NUM)
    phase,                      \* where exec's loop is
    exec_finish,
    answer,                     \* history: what the last read got
    unread,                     \* history: codes typed since the last interrupt
    owed,                       \* history: an interrupt the guest has not acknowledged
    event                       \* history: what the dispatcher did, if this was its step

fifo == <<fifo_scancode, fifo_scancode_start, fifo_scancode_end>>
history == <<unread, owed>>
vars == <<fifo, int_dispatch, int_issued, enabled, phase, exec_finish, answer,
          history, event>>

Slot == 0 .. SIZE - 1

TypeOK == /\ fifo_scancode \in [Slot -> Scancode \union {NoScancode}]
          /\ fifo_scancode_start \in Slot
          /\ fifo_scancode_end \in Slot
          /\ int_dispatch \in BOOLEAN
          /\ int_issued \in BOOLEAN
          /\ enabled \in BOOLEAN
          /\ phase \in {"execute", "poll", "dispatch", "done"}
          /\ exec_finish \in BOOLEAN
          /\ answer \in Scancode \union {NoScancode}
          /\ unread \in BOOLEAN
          /\ owed \in BOOLEAN
          /\ event \in {"none", "interrupt", "quiet", "passed over"}

-----------------------------------------------------------------------------
(* gci_init *)

Init == /\ fifo_scancode = [s \in Slot |-> NoScancode]
        /\ fifo_scancode_start = 0
        /\ fifo_scancode_end = 0
        /\ int_dispatch = FALSE
        /\ int_issued = FALSE
        /\ enabled = FALSE
        /\ phase = "execute"
        /\ exec_finish = FALSE
        /\ answer = NoScancode
        /\ unread = FALSE
        /\ owed = FALSE
        /\ event = "none"

\* The slot after s, around the end of the ring.
After(s) == IF s + 1 >= SIZE THEN 0 ELSE s + 1

\* How many slots lie between both ends, and the codes in them, oldest first.
Used == IF fifo_scancode_end >= fifo_scancode_start
        THEN fifo_scancode_end - fifo_scancode_start
        ELSE fifo_scancode_end + SIZE - fifo_scancode_start
Place(k) == IF fifo_scancode_start + k - 1 >= SIZE
            THEN fifo_scancode_start + k - 1 - SIZE
            ELSE fifo_scancode_start + k - 1
Buffered == [k \in 1 .. Used |-> fifo_scancode[Place(k)]]

(* The guest's instruction *)

\* gci_kmc_read
KmcRead == /\ \/ /\ fifo_scancode_start = fifo_scancode_end
                 /\ answer' = NoScancode
                 /\ UNCHANGED fifo_scancode_start
              \/ /\ fifo_scancode_start # fifo_scancode_end
                 /\ answer' = fifo_scancode[fifo_scancode_start]
                 /\ fifo_scancode_start' = After(fifo_scancode_start)
           /\ UNCHANGED <<fifo_scancode, fifo_scancode_end, int_issued, owed, enabled>>

\* A load of the node's interrupt factor, in io_load.
IrfRead == /\ int_issued' = FALSE
           /\ owed' = FALSE
           /\ UNCHANGED <<fifo, answer, enabled>>

\* Any other instruction; some enable or disable the interrupt.
Elsewhere == /\ enabled' \in BOOLEAN
             /\ UNCHANGED <<fifo, answer, int_issued, owed>>

Executes == /\ phase = "execute"
            /\ phase' = "poll"
            /\ event' = "none"
            /\ UNCHANGED <<int_dispatch, exec_finish, unread>>

Execute == Executes /\ (KmcRead \/ IrfRead \/ Elsewhere)

(* monitor_method_recv *)

\* mutant of Overfull: a full ring keeps its oldest code
OverfullUntested(start, end) == start

\* Where the ring starts once a push moved its end: past the oldest code when
\* the ring was full.
Overfull(start, end) == IF start = end THEN After(start) ELSE start

\* The push of KEYBOARD_SCANCODE's loop.
Scan(c) == /\ phase = "poll"
           /\ fifo_scancode' = [fifo_scancode EXCEPT ![fifo_scancode_end] = c]
           /\ fifo_scancode_end' = After(fifo_scancode_end)
           /\ fifo_scancode_start' = Overfull(fifo_scancode_start, After(fifo_scancode_end))
           /\ int_dispatch' = TRUE
           /\ unread' = TRUE
           /\ UNCHANGED <<int_issued, enabled, phase, exec_finish, answer, owed, event>>

\* DISCONNECT; the messages after it are still handled.
Disconnect == /\ phase = "poll"
              /\ exec_finish' = TRUE
              /\ UNCHANGED <<fifo, int_dispatch, int_issued, enabled, phase, answer,
                             history, event>>

\* No message is left, or this is none of the cycles that poll.
Polled == /\ phase = "poll"
          /\ phase' = "dispatch"
          /\ UNCHANGED <<fifo, int_dispatch, int_issued, enabled, exec_finish, answer,
                         history, event>>

(* interrupt_dispatcher *)

\* mutant of Issuable: the acknowledgement is not waited for
IssuableUnacknowledged == int_dispatch

\* mutant of Issuable: only the first code into an empty ring interrupts
IssuableWhenEmpty == int_dispatch /\ ~int_issued /\ Used = 1

Issuable == int_dispatch /\ ~int_issued

\* gci_kmc_interrupt returns TRUE and interrupt_entry disables interrupts.
KmcInterrupt == /\ enabled /\ Issuable
                /\ int_dispatch' = FALSE
                /\ int_issued' = TRUE
                /\ enabled' = FALSE
                /\ unread' = FALSE
                /\ owed' = TRUE
                /\ event' = "interrupt"

\* gci_kmc_interrupt returns FALSE; a device of lower priority may interrupt.
KmcQuiet == /\ enabled /\ ~Issuable
            /\ enabled' \in BOOLEAN
            /\ event' = "quiet"
            /\ UNCHANGED <<int_dispatch, int_issued, history>>

\* Interrupts are disabled, or the timer interrupts first.
PassedOver == /\ enabled' = FALSE
              /\ event' = "passed over"
              /\ UNCHANGED <<int_dispatch, int_issued, history>>

Dispatch == /\ phase = "dispatch"
            /\ phase' = IF exec_finish THEN "done" ELSE "execute"
            /\ KmcInterrupt \/ KmcQuiet \/ PassedOver
            /\ UNCHANGED <<fifo, exec_finish, answer>>

\* signal_on_sigint, between any two steps.
Sigint == /\ exec_finish' = TRUE
          /\ event' = "none"
          /\ UNCHANGED <<fifo, int_dispatch, int_issued, enabled, phase, answer,
                         history>>

Terminated == phase = "done" /\ UNCHANGED vars

Next == \/ Execute
        \/ \E c \in Scancode : Scan(c)
        \/ Disconnect
        \/ Polled
        \/ Dispatch
        \/ Sigint
        \/ Terminated

Spec == Init /\ [][Next]_vars

-----------------------------------------------------------------------------
(* Properties *)

\* The ring is the queue of the last SIZE - 1 codes: a push into a full ring
\* drops exactly the oldest one, whichever way both indices have wrapped, and
\* a full ring is never taken for an empty one (monitor_method_recv,
\* gci_kmc_read).
Keyboard == INSTANCE DropOldestSpec WITH Capacity <- SIZE - 1, queue <- Buffered
KeyboardSpec == Keyboard!Spec

\* No keystroke goes unannounced: when the dispatcher asks the keyboard and
\* gets no interrupt, every code typed so far was announced, or the guest has
\* yet to acknowledge one; also for codes that arrive while the guest drains
\* the ring or just before it acknowledges (gci_kmc_interrupt, io_load).
Announced == event = "quiet" => ~unread \/ owed

\* The keyboard interrupts the guest again only after the guest has read the
\* interrupt factor, however many codes arrive (gci_kmc_interrupt).
Acknowledged == [][event' = "interrupt" => ~owed]_vars

\* To the dispatcher the keyboard is a line it latches and no instruction takes
\* back: neither a read of the last code, nor the acknowledgement, nor what the
\* poll drops from a full ring withdraws a request (gci_kmc_interrupt).
Line == INSTANCE DeviceLine WITH
            Latched <- TRUE, Withdrawable <- FALSE,
            wants <- int_dispatch /\ ~int_issued,
            turn <- IF phase = "execute" THEN "guest" ELSE "simulator",
            answer <- IF event \in {"interrupt", "quiet"} THEN event ELSE "none"
KeyboardLine == Line!Spec
=============================================================================
