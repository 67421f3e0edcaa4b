-------------------------------- MODULE Sci --------------------------------
(***************************************************************************)
(* The serial interface of dps.c: the receive ring fifo_sci_rx, filled     *)
(* from a socket without blocking, the RXD, CFG and LSFLAGS registers, and *)
(* the receive interrupt with its flag that the guest acknowledges by      *)
(* reading LSFLAGS; the acknowledgement takes effect when the dispatcher   *)
(* next asks the device.  LSFLAGS is memory as well, that the guest may    *)
(* store to.  An error of recv ends the program.                           *)
(*                                                                         *)
(* A cycle of the simulator is one guest instruction, then the poll of the *)
(* socket (exec, every 0x1000 cycles), then the interrupt dispatcher.  The *)
(* peer sends at any time.  "enabled" is the guest's half of the condition *)
(* of both: PSR_IM_ENABLE and IDT_ISENABLE(IDT_DPS_LS_NUM).                *)
(***************************************************************************)
EXTENDS Integers, Sequences

CONSTANTS
    SIZE,           \* SCI_FIFO_RX_SIZE: one slot always stays free
    Byte,           \* what can be sent
    NoByte,         \* the event carries no byte
    Rire,           \* the values of the RIRE field the guest writes
    MaxWire         \* bound: bytes the peer has sent and nobody received

ASSUME SizeAssumption == SIZE \in Nat \ {0, 1}
ASSUME ByteAssumption == NoByte \notin Byte
ASSUME RireAssumption == Rire \subseteq 0 .. 7

VARIABLES
    fifo_sci_rx, fifo_sci_rx_start, fifo_sci_rx_end,
    wire,               \* sent by the peer, still in the socket
    ren,                \* SCICFG_REN of sci->cfg
    rire,               \* SCICFG_RIRE of sci->cfg
    scirie,             \* DPS_LSFLAGS_SCIRIE of *dps_lsflags
    dps_lsflags_clear,
    enabled,            \* PSR_IM_ENABLE and IDT_ISENABLE(IDT_DPS_LS_NUM)
    phase,              \* where exec's loop is
    owed,               \* history: a flag the guest owes a read of LSFLAGS
    event               \* history: the last operation and its byte

fifo == <<fifo_sci_rx, fifo_sci_rx_start, fifo_sci_rx_end>>
flags == <<scirie, dps_lsflags_clear>>
vars == <<fifo, wire, ren, rire, flags, enabled, phase, owed, event>>

Slot == 0 .. SIZE - 1
Ops == {"send", "rxd", "clear", "lsflags", "interrupt", "quiet", "other"}

TypeOK == /\ fifo_sci_rx \in [Slot -> Byte \union {NoByte}]
          /\ fifo_sci_rx_start \in Slot
          /\ fifo_sci_rx_end \in Slot
          /\ wire \in Seq(Byte)
          /\ ren \in BOOLEAN
          /\ rire \in 0 .. 7
          /\ scirie \in BOOLEAN
          /\ dps_lsflags_clear \in BOOLEAN
          /\ enabled \in BOOLEAN
          /\ phase \in {"execute", "poll", "dispatch", "exit"}
          /\ owed \in BOOLEAN
          /\ event \in [op : Ops, byte : Byte \union {NoByte}]

-----------------------------------------------------------------------------
(* dps_init *)

Event(op, b) == event' = [op |-> op, byte |-> b]

Init == /\ fifo_sci_rx = [s \in Slot |-> NoByte]
        /\ fifo_sci_rx_start = 0
        /\ fifo_sci_rx_end = 0
        /\ wire = <<>>
        /\ ren = FALSE
        /\ rire = 0
        /\ scirie = FALSE
        /\ dps_lsflags_clear = FALSE
        /\ enabled = FALSE
        /\ phase = "execute"
        /\ owed = FALSE
        /\ event = [op |-> "quiet", byte |-> NoByte]

(* The ring *)

\* FIFO_USED
Used == (fifo_sci_rx_end + SIZE - fifo_sci_rx_start) % SIZE

\* The buffered bytes, oldest first.
Buffered == [k \in 1 .. Used |-> fifo_sci_rx[(fifo_sci_rx_start + k - 1) % SIZE]]

\* mutant of Receivable: the slot that must stay free is used too
ReceivableOneMore == {n \in 0 .. Len(wire) : n <= SIZE - Used}

\* How many bytes recv may return: what is there, and never more than asked.
Receivable == {n \in 0 .. Len(wire) : n <= SIZE - Used - 1}

\* fifo_sci_rx once the first n bytes of the socket are pushed.
Pushed(n) == [s \in Slot |->
                 IF (s + SIZE - fifo_sci_rx_end) % SIZE < n
                 THEN wire[((s + SIZE - fifo_sci_rx_end) % SIZE) + 1]
                 ELSE fifo_sci_rx[s]]

\* mutant of Recv: the end of the ring is not wrapped
RecvUnwrapped(n) == /\ fifo_sci_rx' = Pushed(n)
                    /\ fifo_sci_rx_end' = fifo_sci_rx_end + n
                    /\ wire' = SubSeq(wire, n + 1, Len(wire))

\* dps_sci_recv got n bytes; with n = 0 the socket had none.
Recv(n) == /\ fifo_sci_rx' = Pushed(n)
           /\ fifo_sci_rx_end' = (fifo_sci_rx_end + n) % SIZE
           /\ wire' = SubSeq(wire, n + 1, Len(wire))

(* The guest's instruction *)

\* err: recv failed with another errno than EAGAIN.
RecvFails == /\ ren
             /\ phase' = "exit"
             /\ Event("other", NoByte)
             /\ UNCHANGED <<fifo, wire, ren, rire, flags, enabled, owed>>

\* dps_sci_rxd_read, for a load of RXD and for the load a narrow store there
\* begins with.
RxdOff == /\ ~ren
          /\ Event("rxd", NoByte)
          /\ UNCHANGED <<fifo, wire>>

RxdRead ==
    /\ ren
    /\ \E n \in IF Used = 0 /\ ~enabled THEN Receivable ELSE {0} :
          /\ Recv(n)
          /\ \/ /\ Used + n > 0
                /\ fifo_sci_rx_start' = (fifo_sci_rx_start + 1) % SIZE
                /\ Event("rxd", Pushed(n)[fifo_sci_rx_start])
             \/ /\ Used + n = 0
                /\ UNCHANGED fifo_sci_rx_start
                /\ Event("rxd", NoByte)

\* dps_sci_cfg_write: TCLR hides RCLR, and both bits are cleared again.
CfgWrite(newRen, newRire, tclr, rclr) ==
    /\ ren' = newRen
    /\ rire' = newRire
    /\ \/ /\ rclr /\ ~tclr
          /\ fifo_sci_rx_start' = 0
          /\ fifo_sci_rx_end' = 0
          /\ Event("clear", NoByte)
       \/ /\ ~rclr \/ tclr
          /\ UNCHANGED <<fifo_sci_rx_start, fifo_sci_rx_end>>
          /\ Event("other", NoByte)
    /\ UNCHANGED <<fifo_sci_rx, wire>>

\* dps_lsflags_read
LsflagsRead == /\ dps_lsflags_clear' = TRUE
               /\ owed' = FALSE
               /\ Event("lsflags", NoByte)
               /\ UNCHANGED scirie

\* A store to LSFLAGS: io_store knows no such register, so the word is simply
\* there.  A narrow store first loads the word it changes, and so reads it.
LsflagsWrite(b) == /\ scirie' = b
                   /\ \/ /\ owed' = (b /\ ~dps_lsflags_clear)
                         /\ UNCHANGED dps_lsflags_clear
                      \/ dps_lsflags_clear' = TRUE /\ owed' = FALSE
                   /\ Event("lsflags", NoByte)

\* Any instruction that is not about the device; some enable or disable the
\* interrupt (srieiw, srpsw, idts, ib).
Elsewhere == /\ enabled' \in BOOLEAN
             /\ Event("other", NoByte)

Instruction ==
    /\ phase' = "poll"
    /\ \/ RxdOff /\ UNCHANGED <<ren, rire, enabled, flags, owed>>
       \/ RxdRead /\ UNCHANGED <<ren, rire, enabled, flags, owed>>
       \/ /\ \E r \in BOOLEAN, i \in Rire, t \in BOOLEAN, c \in BOOLEAN :
                CfgWrite(r, i, t, c)
          /\ UNCHANGED <<enabled, flags, owed>>
       \/ LsflagsRead /\ UNCHANGED <<fifo, wire, ren, rire, enabled>>
       \/ /\ \E b \in BOOLEAN : LsflagsWrite(b)
          /\ UNCHANGED <<fifo, wire, ren, rire, enabled>>
       \/ Elsewhere /\ UNCHANGED <<fifo, wire, ren, rire, flags, owed>>

\* The receive of dps_sci_rxd_read may fail as well.
Execute == /\ phase = "execute"
           /\ Instruction \/ (Used = 0 /\ ~enabled /\ RecvFails)

(* exec's poll of the socket and the interrupt *)

\* With n = 0 also the cycles in between, in which exec does not poll.
Polled == /\ phase' = "dispatch"
          /\ \E n \in IF enabled /\ ren THEN Receivable ELSE {0} : Recv(n)
          /\ Event("other", NoByte)
          /\ UNCHANGED <<fifo_sci_rx_start, ren, rire, flags, enabled, owed>>

Poll == /\ phase = "poll"
        /\ Polled \/ (enabled /\ RecvFails)

\* What 1 << (rire - 1) may be.  A shift by -1 is undefined: x86 takes the
\* count modulo 32, which gives INT_MIN, and Arm shifts everything out.
Requests(r) == IF r = 0 THEN {0, -2147483647 - 1} ELSE {2 ^ (r - 1)}

\* mutant of Flag: the deferred clear is forgotten
FlagNeverCleared == scirie

\* mutant of Flag: the interrupt is raised whether or not one stands
FlagUntested == FALSE

\* The flag once a deferred clear is applied.
Flag == scirie /\ ~dps_lsflags_clear

\* dps_sci_interrupt; interrupt_entry then disables interrupts.
SciInterrupt ==
    /\ dps_lsflags_clear' = FALSE
    /\ \E request \in Requests(rire) :
          \/ /\ ren /\ Used >= request /\ ~Flag
             /\ scirie' = TRUE
             /\ enabled' = FALSE
             /\ owed' = TRUE
             /\ Event("interrupt", NoByte)
          \/ /\ ~(ren /\ Used >= request /\ ~Flag)
             /\ scirie' = Flag
             /\ Event("quiet", NoByte)
             /\ UNCHANGED <<enabled, owed>>

\* The dispatcher found a device of higher priority, or interrupts disabled.
PassedOver == /\ enabled' = FALSE
              /\ Event("other", NoByte)
              /\ UNCHANGED <<flags, owed>>

Dispatch == /\ phase = "dispatch"
            /\ phase' = "execute"
            /\ (enabled /\ SciInterrupt) \/ PassedOver
            /\ UNCHANGED <<fifo, wire, ren, rire>>

(* The peer *)

Send(b) == /\ phase # "exit"
           /\ Len(wire) < MaxWire
           /\ wire' = Append(wire, b)
           /\ Event("send", b)
           /\ UNCHANGED <<fifo, ren, rire, flags, enabled, phase, owed>>

Cycle == Execute \/ Poll \/ Dispatch

Terminated == phase = "exit" /\ UNCHANGED vars

Next == \/ Cycle
        \/ \E b \in Byte : Send(b)
        \/ Terminated

Spec == Init /\ [][Next]_vars

-----------------------------------------------------------------------------
(* Properties *)

\* No byte is lost, doubled or reordered between the peer and the guest's
\* reads of RXD, whatever the ring wraps over, whether the poll or the read
\* fetched it: only a receive-clear that no TCLR hides drops bytes, the oldest
\* ones (dps_sci_recv, dps_sci_rxd_read, dps_sci_cfg_write).
Stream == INSTANCE ByteStream WITH pending <- Buffered \o wire
StreamSpec == Stream!Spec

\* The receive interrupt does not storm: between two of them the guest has
\* read LSFLAGS or itself rewritten it (the SCIRIE test of dps_sci_interrupt).
Acknowledged == [][event'.op = "interrupt" => ~owed]_vars

\* No wakeup is lost: whenever the dispatcher asks the device, the receiver
\* is on, the ring holds as many bytes as RIRE asks for and the guest owes no
\* LSFLAGS read, the interrupt is raised in that very cycle, however the
\* deferred clear and the refill of the ring were interleaved.
Woken == [][event'.op = "quiet" /\ ren /\ rire \in 1 .. 4 /\ Used >= 2 ^ (rire - 1) => owed]_vars

\* To the dispatcher the receiver is a line it latches and the guest may take
\* back, by RXD, CFG or a clear; not the poll, however the ring wraps, and the
\* answer is TRUE exactly if the ring, RIRE and the flag once cleared say so at
\* that moment (dps_sci_interrupt).
Line == INSTANCE DeviceLine WITH
            Latched <- TRUE, Withdrawable <- TRUE,
            wants <- /\ ren /\ (scirie => dps_lsflags_clear)
                     /\ \E request \in Requests(rire) : Used >= request,
            turn <- IF phase = "execute" THEN "guest" ELSE "simulator",
            answer <- IF event.op \in {"interrupt", "quiet"} THEN event.op ELSE "none"
SciLine == Line!Spec

\* "interrupt disabled or invalid" (dps.c:453): RIRE 0 and RIRE above 4 raise
\* no interrupt.
RireDisables == event.op = "interrupt" => rire \in 1 .. 4
=============================================================================
