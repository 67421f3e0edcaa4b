----------------------------- MODULE SciProofs -----------------------------
(***************************************************************************)
(* Proofs about Sci, for a ring of any size and any bytes.                 *)
(***************************************************************************)
EXTENDS Sci, SequenceTheorems, TLAPS

-----------------------------------------------------------------------------
(* The ring *)

\* An index wraps once; how far index e is behind index i, around the ring.
Wrapped(i) == IF i < SIZE THEN i ELSE i - SIZE
Distance(i, e) == IF e >= i THEN e - i ELSE e - i + SIZE

\* What % does to a sum of two indices.
LEMMA Around ==
    ASSUME NEW x \in Int, 0 <= x, x < 2 * SIZE
    PROVE  x % SIZE \in Slot /\ x % SIZE = Wrapped(x)
BY SizeAssumption DEF Slot, Wrapped

LEMMA AroundSum ==
    ASSUME NEW i \in Int, 0 <= i, i < SIZE, NEW n \in Int, 0 <= n, n <= SIZE
    PROVE  (i + n) % SIZE \in Slot /\ (i + n) % SIZE = Wrapped(i + n)
<1>1. i + n \in Int /\ 0 <= i + n /\ i + n < 2 * SIZE
    BY SizeAssumption
<1> QED BY <1>1, Around

\* Moving the start on by j and the end by n, as far as there is room.
LEMMA DistanceMoved ==
    ASSUME NEW i \in Slot, NEW e \in Slot, NEW n \in Nat, NEW j \in {0, 1},
           Distance(i, e) + n < SIZE, j <= Distance(i, e) + n
    PROVE  Distance(Wrapped(i + j), Wrapped(e + n)) = Distance(i, e) + n - j
BY SizeAssumption DEF Distance, Wrapped, Slot

LEMMA Indices ==
    ASSUME TypeOK
    PROVE  /\ SIZE \in Int /\ SIZE > 1
           /\ fifo_sci_rx_start \in Int
           /\ 0 <= fifo_sci_rx_start /\ fifo_sci_rx_start < SIZE
           /\ fifo_sci_rx_end \in Int
           /\ 0 <= fifo_sci_rx_end /\ fifo_sci_rx_end < SIZE
BY SizeAssumption DEF TypeOK, Slot

\* FIFO_USED counts the slots from the start up to the end; the last slot
\* stays free.
LEMMA UsedFacts ==
    ASSUME TypeOK
    PROVE  /\ Used \in 0 .. SIZE - 1
           /\ Used = Distance(fifo_sci_rx_start, fifo_sci_rx_end)
<1> DEFINE x == fifo_sci_rx_end + SIZE - fifo_sci_rx_start
<1>1. x \in Int /\ 0 <= x /\ x < 2 * SIZE
    BY Indices
<1>2. x % SIZE \in Slot /\ x % SIZE = Wrapped(x)
    BY <1>1, Around
<1>3. Wrapped(x) = Distance(fifo_sci_rx_start, fifo_sci_rx_end)
    BY Indices DEF Wrapped, Distance
<1> QED BY <1>2, <1>3 DEF Used, Slot

\* The slot of the k-th byte after the start.
Place(k) == (fifo_sci_rx_start + k - 1) % SIZE

\* How far slot s is ahead of the end.
Ahead(s) == (s + SIZE - fifo_sci_rx_end) % SIZE

Places == \A k \in 1 .. SIZE :
             Place(k) \in Slot /\ Place(k) = Wrapped(fifo_sci_rx_start + k - 1)

LEMMA PlaceFacts == ASSUME TypeOK PROVE Places
<1> SUFFICES ASSUME NEW k \in 1 .. SIZE
             PROVE  Place(k) \in Slot /\ Place(k) = Wrapped(fifo_sci_rx_start + k - 1)
    BY DEF Places
<1> DEFINE x == fifo_sci_rx_start + k - 1
<1>1. x \in Int /\ 0 <= x /\ x < 2 * SIZE
    BY Indices
<1>2. x % SIZE \in Slot /\ x % SIZE = Wrapped(x)
    BY <1>1, Around
<1> QED BY <1>2 DEF Place

LEMMA AheadFacts ==
    ASSUME TypeOK, NEW s \in Slot
    PROVE  Ahead(s) \in Slot /\ Ahead(s) = Wrapped(s + SIZE - fifo_sci_rx_end)
<1> DEFINE x == s + SIZE - fifo_sci_rx_end
<1>1. x \in Int /\ 0 <= x /\ x < 2 * SIZE
    BY Indices DEF Slot
<1>2. x % SIZE \in Slot /\ x % SIZE = Wrapped(x)
    BY <1>1, Around
<1> QED BY <1>2 DEF Ahead

\* The k-th byte lies k - 1 - Used slots ahead of the end, around the ring.
LEMMA AheadOfPlace ==
    ASSUME TypeOK, NEW k \in 1 .. SIZE
    PROVE  Ahead(Place(k)) = IF k <= Used THEN k - 1 - Used + SIZE ELSE k - 1 - Used
BY PlaceFacts, AheadFacts, UsedFacts, Indices DEF Slot, Wrapped, Distance, Places

-----------------------------------------------------------------------------
(* Type correctness *)

LEMMA InitTypes == Init => TypeOK
<1> SUFFICES ASSUME Init PROVE TypeOK
    OBVIOUS
<1>1. 0 \in Slot
    BY SizeAssumption DEF Slot
<1>2. fifo_sci_rx \in [Slot -> Byte \union {NoByte}]
    BY Zenon DEF Init
<1> QED BY <1>1, <1>2 DEF Init, TypeOK, Ops

LEMMA ReceivableFacts ==
    ASSUME TypeOK
    PROVE  /\ 0 \in Receivable
           /\ \A n \in Receivable : n \in Nat /\ n <= Len(wire) /\ Used + n < SIZE
<1>1. Len(wire) \in Nat
    BY DEF TypeOK
<1> QED BY <1>1, UsedFacts, SizeAssumption DEF Receivable

LEMMA PushedType ==
    ASSUME TypeOK, NEW n \in Receivable
    PROVE  /\ Pushed(n) \in [Slot -> Byte \union {NoByte}]
           /\ \A s \in Slot : Pushed(n)[s] = IF Ahead(s) < n THEN wire[Ahead(s) + 1]
                                             ELSE fifo_sci_rx[s]
<1>1. n \in Nat /\ n <= Len(wire)
    BY ReceivableFacts
<1>2. ASSUME NEW s \in Slot
      PROVE  /\ Ahead(s) < n => wire[Ahead(s) + 1] \in Byte
             /\ fifo_sci_rx[s] \in Byte \union {NoByte}
    <2>1. Ahead(s) \in Int /\ 0 <= Ahead(s)
        BY AheadFacts, SizeAssumption DEF Slot
    <2>2. wire \in Seq(Byte)
        BY DEF TypeOK
    <2>3. Ahead(s) < n => Ahead(s) + 1 \in 1 .. Len(wire)
        BY <1>1, <2>1, <2>2
    <2> QED BY <2>2, <2>3 DEF TypeOK
<1>3. Pushed(n) = [s \in Slot |-> IF Ahead(s) < n THEN wire[Ahead(s) + 1]
                                  ELSE fifo_sci_rx[s]]
    BY DEF Pushed, Ahead
<1> QED BY <1>2, <1>3

LEMMA RecvTypes ==
    ASSUME TypeOK, NEW n \in Receivable, Recv(n)
    PROVE  /\ fifo_sci_rx' \in [Slot -> Byte \union {NoByte}]
           /\ fifo_sci_rx_end' \in Slot
           /\ wire' \in Seq(Byte)
<1>1. n \in Nat /\ n <= Len(wire) /\ Used + n < SIZE
    BY ReceivableFacts
<1>2. fifo_sci_rx_end' \in Slot
    BY <1>1, UsedFacts, Indices, AroundSum DEF Recv
<1>3. wire' \in Seq(Byte)
    <2>1. wire \in Seq(Byte)
        BY DEF TypeOK
    <2> QED BY <1>1, <2>1 DEF Recv
<1> QED BY <1>2, <1>3, PushedType DEF Recv

LEMMA FailTypes == TypeOK /\ RecvFails => TypeOK'
BY DEF RecvFails, Event, fifo, flags, TypeOK, Ops

LEMMA InstructionTypes == TypeOK /\ Instruction => TypeOK'
<1> SUFFICES ASSUME TypeOK, Instruction PROVE TypeOK'
    OBVIOUS
<1>1. phase' = "poll"
    BY DEF Instruction
<1>2. CASE RxdOff /\ UNCHANGED <<ren, rire, enabled, flags, owed>>
    BY <1>1, <1>2 DEF RxdOff, Event, fifo, flags, TypeOK, Ops
<1>3. CASE RxdRead /\ UNCHANGED <<ren, rire, enabled, flags, owed>>
    <2>1. PICK n \in Receivable :
             /\ Recv(n)
             /\ \/ /\ fifo_sci_rx_start' = (fifo_sci_rx_start + 1) % SIZE
                   /\ Event("rxd", Pushed(n)[fifo_sci_rx_start])
                \/ /\ UNCHANGED fifo_sci_rx_start
                   /\ Event("rxd", NoByte)
        BY <1>3, ReceivableFacts DEF RxdRead
    <2>2. (fifo_sci_rx_start + 1) % SIZE \in Slot
        BY Indices, AroundSum
    <2>3. Pushed(n)[fifo_sci_rx_start] \in Byte \union {NoByte}
        BY PushedType DEF TypeOK
    <2>4. fifo_sci_rx_start' \in Slot /\ event' \in [op : Ops, byte : Byte \union {NoByte}]
        BY <2>1, <2>2, <2>3 DEF Event, TypeOK, Ops
    <2> QED BY <1>1, <1>3, <2>1, <2>4, RecvTypes DEF flags, TypeOK
<1>4. CASE /\ \E r \in BOOLEAN, i \in Rire, t \in BOOLEAN, c \in BOOLEAN :
                 CfgWrite(r, i, t, c)
           /\ UNCHANGED <<enabled, flags, owed>>
    <2>1. 0 \in Slot
        BY SizeAssumption DEF Slot
    <2>2. ren' \in BOOLEAN /\ rire' \in 0 .. 7
        BY <1>4, RireAssumption DEF CfgWrite
    <2>3. /\ fifo_sci_rx_start' \in Slot /\ fifo_sci_rx_end' \in Slot
          /\ event' \in [op : Ops, byte : Byte \union {NoByte}]
          /\ UNCHANGED <<fifo_sci_rx, wire>>
        BY <1>4, <2>1 DEF CfgWrite, Event, TypeOK, Ops
    <2> QED BY <1>1, <1>4, <2>2, <2>3 DEF flags, TypeOK
<1>5. CASE LsflagsRead /\ UNCHANGED <<fifo, wire, ren, rire, enabled>>
    BY <1>1, <1>5 DEF LsflagsRead, Event, fifo, TypeOK, Ops
<1>6. CASE Elsewhere /\ UNCHANGED <<fifo, wire, ren, rire, flags, owed>>
    BY <1>1, <1>6 DEF Elsewhere, Event, fifo, flags, TypeOK, Ops
<1>7. CASE /\ \E b \in BOOLEAN : LsflagsWrite(b)
           /\ UNCHANGED <<fifo, wire, ren, rire, enabled>>
    <2>1. PICK b \in BOOLEAN : LsflagsWrite(b)
        BY <1>7
    <2>2. /\ scirie' \in BOOLEAN /\ dps_lsflags_clear' \in BOOLEAN /\ owed' \in BOOLEAN
          /\ event' \in [op : Ops, byte : Byte \union {NoByte}]
        BY <2>1 DEF LsflagsWrite, Event, TypeOK, Ops
    <2> QED BY <1>1, <1>7, <2>2 DEF fifo, TypeOK
<1> QED BY <1>2, <1>3, <1>4, <1>5, <1>6, <1>7 DEF Instruction

LEMMA ExecuteTypes == TypeOK /\ Execute => TypeOK'
BY InstructionTypes, FailTypes DEF Execute

LEMMA PollTypes == TypeOK /\ Poll => TypeOK'
<1>1. ASSUME TypeOK, Polled PROVE TypeOK'
    <2>1. PICK n \in Receivable : Recv(n)
        BY <1>1, ReceivableFacts DEF Polled
    <2> QED BY <1>1, <2>1, RecvTypes DEF Polled, Event, flags, TypeOK, Ops
<1> QED BY <1>1, FailTypes DEF Poll

LEMMA DispatchTypes == TypeOK /\ Dispatch => TypeOK'
<1> SUFFICES ASSUME TypeOK, Dispatch PROVE TypeOK'
    OBVIOUS
<1>1. phase' = "execute" /\ UNCHANGED <<fifo, wire, ren, rire>>
    BY DEF Dispatch
<1>2. /\ scirie' \in BOOLEAN /\ dps_lsflags_clear' \in BOOLEAN
      /\ enabled' \in BOOLEAN /\ owed' \in BOOLEAN
      /\ event' \in [op : Ops, byte : Byte \union {NoByte}]
    <2>1. CASE SciInterrupt
        <3>1. Flag \in BOOLEAN
            BY DEF Flag
        <3>2. scirie' = TRUE \/ scirie' = Flag
            BY <2>1, Zenon DEF SciInterrupt
        <3>3. /\ dps_lsflags_clear' = FALSE
              /\ enabled' = FALSE \/ enabled' = enabled
              /\ owed' = TRUE \/ owed' = owed
              /\ Event("interrupt", NoByte) \/ Event("quiet", NoByte)
            BY <2>1, Zenon DEF SciInterrupt
        <3>4. enabled' \in BOOLEAN /\ owed' \in BOOLEAN
            BY <3>3 DEF TypeOK
        <3>5. event' \in [op : Ops, byte : Byte \union {NoByte}]
            BY <3>3 DEF Event, Ops
        <3> QED BY <3>1, <3>2, <3>3, <3>4, <3>5
    <2>2. CASE PassedOver
        BY <2>2 DEF PassedOver, Event, flags, TypeOK, Ops
    <2> QED BY <2>1, <2>2 DEF Dispatch
<1> QED BY <1>1, <1>2 DEF fifo, TypeOK

LEMMA SendTypes == ASSUME TypeOK, NEW b \in Byte, Send(b) PROVE TypeOK'
<1>1. wire' \in Seq(Byte)
    BY DEF Send, TypeOK
<1> QED BY <1>1 DEF Send, Event, fifo, flags, TypeOK, Ops

LEMMA NextTypes == TypeOK /\ [Next]_vars => TypeOK'
<1> SUFFICES ASSUME TypeOK, [Next]_vars PROVE TypeOK'
    OBVIOUS
<1>1. CASE UNCHANGED vars
    BY <1>1 DEF vars, fifo, flags, TypeOK
<1> QED BY <1>1, ExecuteTypes, PollTypes, DispatchTypes, SendTypes
        DEF Next, Cycle, Terminated

(* For a ring of any size, both indices stay inside the ring, whichever of *)
(* the poll and the read of RXD filled it, and every variable keeps its    *)
(* type.                                                                   *)
THEOREM TypeCorrect == Spec => []TypeOK
BY InitTypes, NextTypes, PTL DEF Spec

-----------------------------------------------------------------------------
(* The interrupt's handshake *)

\* The flag stands exactly while the guest owes a read of LSFLAGS: the
\* deferred clear counts from the read on, not from the dispatcher's next
\* question, and swallows what the guest stores meanwhile.
Owes == owed <=> Flag

IInv == TypeOK /\ Owes

LEMMA InitInv == Init => IInv
BY InitTypes DEF Init, IInv, Owes, Flag

\* What the dispatcher's question does, by its answer.
LEMMA Asked ==
    ASSUME SciInterrupt
    PROVE  \/ /\ event'.op = "interrupt" /\ ~Flag
              /\ scirie' = TRUE /\ dps_lsflags_clear' = FALSE /\ owed' = TRUE
           \/ /\ event'.op = "quiet"
              /\ \E request \in Requests(rire) : ~(ren /\ Used >= request /\ ~Flag)
              /\ scirie' = Flag /\ dps_lsflags_clear' = FALSE /\ owed' = owed
<1>1. PICK request \in Requests(rire) :
         \/ ~Flag /\ scirie' = TRUE /\ owed' = TRUE /\ Event("interrupt", NoByte)
         \/ /\ ~(ren /\ Used >= request /\ ~Flag)
            /\ scirie' = Flag /\ owed' = owed /\ Event("quiet", NoByte)
    BY Zenon DEF SciInterrupt
<1>2. dps_lsflags_clear' = FALSE
    BY DEF SciInterrupt
<1>3. Event("interrupt", NoByte) => event'.op = "interrupt"
    BY DEF Event
<1>4. Event("quiet", NoByte) => event'.op = "quiet"
    BY DEF Event
<1> QED BY <1>1, <1>2, <1>3, <1>4, Zenon

\* The operations of the other steps.
LEMMA OtherOps ==
    ASSUME Next, ~Terminated
    PROVE  \/ Dispatch /\ SciInterrupt
           \/ event'.op \in {"send", "rxd", "clear", "lsflags", "other"}
<1>1. CASE Execute
    BY <1>1 DEF Execute, Instruction, RecvFails, RxdOff, RxdRead, CfgWrite,
                LsflagsRead, LsflagsWrite, Elsewhere, Event
<1>2. CASE Poll
    BY <1>2 DEF Poll, Polled, RecvFails, Event
<1>3. CASE Dispatch /\ PassedOver
    BY <1>3 DEF PassedOver, Event
<1>4. CASE \E b \in Byte : Send(b)
    BY <1>4 DEF Send, Event
<1> QED BY <1>1, <1>2, <1>3, <1>4 DEF Next, Cycle, Dispatch

LEMMA NextOwes == IInv /\ [Next]_vars => Owes'
<1> SUFFICES ASSUME IInv, [Next]_vars PROVE Owes'
    OBVIOUS
<1> USE DEF IInv, Owes
<1>1. CASE UNCHANGED <<flags, owed>>
    BY <1>1 DEF flags, Flag
<1>2. CASE LsflagsRead
    BY <1>2 DEF LsflagsRead, Flag
<1>6. CASE \E b \in BOOLEAN : LsflagsWrite(b)
    <2>1. PICK b \in BOOLEAN : LsflagsWrite(b)
        BY <1>6
    <2>2. scirie' = b
        BY <2>1 DEF LsflagsWrite
    <2>3. CASE owed' = (b /\ ~dps_lsflags_clear) /\ dps_lsflags_clear' = dps_lsflags_clear
        BY <2>2, <2>3, Zenon DEF Flag
    <2>4. CASE dps_lsflags_clear' = TRUE /\ owed' = FALSE
        BY <2>4, Zenon DEF Flag
    <2> QED BY <2>1, <2>3, <2>4 DEF LsflagsWrite
<1>3. CASE SciInterrupt
    <2>1. CASE scirie' = TRUE /\ dps_lsflags_clear' = FALSE /\ owed' = TRUE
        BY <2>1 DEF Flag
    <2>2. CASE scirie' = Flag /\ dps_lsflags_clear' = FALSE /\ owed' = owed
        <3>1. Flag' = scirie'
            BY <2>2 DEF Flag
        <3> QED BY <2>2, <3>1, Zenon
    <2> QED BY <1>3, <2>1, <2>2, Asked
<1>4. Execute => UNCHANGED <<flags, owed>> \/ LsflagsRead \/ \E b \in BOOLEAN : LsflagsWrite(b)
    BY DEF Execute, Instruction, RecvFails
<1>5. Poll \/ PassedOver \/ (\E b \in Byte : Send(b)) \/ Terminated \/ UNCHANGED vars
         => UNCHANGED <<flags, owed>>
    BY DEF Poll, Polled, RecvFails, PassedOver, Send, Terminated, vars
<1> QED BY <1>1, <1>2, <1>3, <1>4, <1>5, <1>6 DEF Next, Cycle, Dispatch

LEMMA NextInv == IInv /\ [Next]_vars => IInv'
BY NextTypes, NextOwes DEF IInv

(* For a ring of any size, the receive interrupt is raised again only      *)
(* after the guest has read LSFLAGS or rewritten it, wherever that fell in *)
(* the cycle.                                                              *)
THEOREM ReceiveAcknowledged == Spec => Acknowledged
<1>1. IInv /\ [Next]_vars => [event'.op = "interrupt" => ~owed]_vars
    <2> SUFFICES ASSUME IInv, Next, event'.op = "interrupt", ~UNCHANGED vars PROVE ~owed
        OBVIOUS
    <2>1. SciInterrupt
        BY OtherOps DEF Terminated
    <2>2. ~Flag
        BY <2>1, Asked
    <2> QED BY <2>2 DEF IInv, Owes
<1> QED BY <1>1, InitInv, NextInv, PTL DEF Spec, Acknowledged

(* For a ring of any size, no wakeup is lost: when the dispatcher asks and *)
(* the ring holds what RIRE asks for, only an owed read of LSFLAGS can     *)
(* keep the interrupt back.                                                *)
THEOREM NoLostWakeup == Spec => Woken
<1> DEFINE Due == event'.op = "quiet" /\ ren /\ rire \in 1 .. 4 /\ Used >= 2 ^ (rire - 1)
<1>1. IInv /\ [Next]_vars => [Due => owed]_vars
    <2> SUFFICES ASSUME IInv, Next, Due, ~UNCHANGED vars PROVE owed
        OBVIOUS
    <2>1. SciInterrupt
        BY OtherOps DEF Terminated
    <2>2. PICK request \in Requests(rire) : ~(ren /\ Used >= request /\ ~Flag)
        BY <2>1, Asked
    <2>3. request = 2 ^ (rire - 1)
        BY <2>2 DEF Requests
    <2>4. Flag
        BY <2>2, <2>3
    <2> QED BY <2>4 DEF IInv, Owes
<1> QED BY <1>1, InitInv, NextInv, PTL DEF Spec, Woken

-----------------------------------------------------------------------------
(* The ring and the wire are one queue *)

Pending == Buffered \o wire

\* The k-th byte under way: in its slot of the ring, or on the wire.
LEMMA PendingFacts ==
    ASSUME TypeOK
    PROVE  /\ Pending \in Seq(Byte \union {NoByte})
           /\ Len(Pending) = Used + Len(wire)
           /\ \A k \in 1 .. Used : Pending[k] = fifo_sci_rx[Place(k)]
           /\ \A k \in Used + 1 .. Used + Len(wire) : Pending[k] = wire[k - Used]
<1>1. Used \in Nat /\ Used < SIZE
    BY UsedFacts, SizeAssumption
<1>2. \A k \in 1 .. Used : fifo_sci_rx[Place(k)] \in Byte \union {NoByte}
    BY <1>1, PlaceFacts, SizeAssumption DEF TypeOK, Places
<1>3. Buffered = [k \in 1 .. Used |-> fifo_sci_rx[Place(k)]]
    BY DEF Buffered, Place
<1>4. /\ Buffered \in Seq(Byte \union {NoByte})
      /\ Len(Buffered) = Used
      /\ \A k \in 1 .. Used : Buffered[k] = fifo_sci_rx[Place(k)]
    BY <1>1, <1>2, <1>3
<1>5. wire \in Seq(Byte) /\ wire \in Seq(Byte \union {NoByte}) /\ Len(wire) \in Nat
    BY DEF TypeOK
<1> QED BY <1>1, <1>4, <1>5 DEF Pending

\* Two queues that agree byte for byte from j on are the same but for the
\* first j.
LEMMA SameQueue ==
    ASSUME NEW S, NEW p \in Seq(S), NEW q \in Seq(S), NEW j \in {0, 1},
           j <= Len(p), Len(q) = Len(p) - j,
           \A k \in 1 .. Len(q) : q[k] = p[k + j]
    PROVE  q = IF j = 0 THEN p ELSE Tail(p)
<1>1. CASE j = 0
    BY <1>1, SeqEqual
<1>2. CASE j = 1
    <2>1. /\ Tail(p) \in Seq(S)
          /\ Len(Tail(p)) = Len(q)
          /\ \A k \in 1 .. Len(q) : q[k] = Tail(p)[k]
        BY <1>2
    <2> QED BY <1>2, <2>1, SeqEqual
<1> QED BY <1>1, <1>2

\* The bytes that recv returned follow the buffered ones in the ring.
LEMMA PushedFacts ==
    ASSUME TypeOK, NEW n \in Receivable, NEW k \in 1 .. Used + n
    PROVE  Pushed(n)[Place(k)] = Pending[k]
<1>1. n \in Nat /\ n <= Len(wire) /\ Used + n < SIZE /\ Used \in Nat /\ Len(wire) \in Nat
    BY ReceivableFacts, UsedFacts, SizeAssumption DEF TypeOK
<1>2. k \in 1 .. SIZE /\ Place(k) \in Slot
    BY <1>1, PlaceFacts, SizeAssumption DEF Places
<1>3. Ahead(Place(k)) = IF k <= Used THEN k - 1 - Used + SIZE ELSE k - 1 - Used
    BY <1>2, AheadOfPlace
<1>4. CASE k <= Used
    <2>1. ~(Ahead(Place(k)) < n)
        BY <1>1, <1>3, <1>4, SizeAssumption
    <2> QED BY <1>1, <1>2, <1>4, <2>1, PushedType, PendingFacts
<1>5. CASE k > Used
    <2>1. Ahead(Place(k)) < n /\ Ahead(Place(k)) + 1 = k - Used
        BY <1>1, <1>3, <1>5
    <2>2. k \in Used + 1 .. Used + Len(wire)
        BY <1>1, <1>5
    <2> QED BY <1>2, <2>1, <2>2, PushedType, PendingFacts
<1> QED BY <1>1, <1>4, <1>5

\* Moving the start on by j moves every place on by j.
LEMMA PlaceMoved ==
    ASSUME TypeOK, TypeOK', NEW j \in {0, 1},
           fifo_sci_rx_start' = Wrapped(fifo_sci_rx_start + j), NEW k \in 1 .. SIZE - 1
    PROVE  Place(k)' = Place(k + j)
<1>1. k \in 1 .. SIZE /\ k + j \in 1 .. SIZE
    BY SizeAssumption
<1>2. Places'
    BY PlaceFacts, PTL
<1>3. Place(k + j) = Wrapped(fifo_sci_rx_start + k + j - 1)
    BY <1>1, PlaceFacts, Indices DEF Places
<1>4. Place(k)' = Wrapped(fifo_sci_rx_start' + k - 1)
    BY <1>1, <1>2 DEF Places, Wrapped
<1> QED BY <1>1, <1>3, <1>4, Indices DEF Wrapped

\* A receive of n bytes, with or without a read of the oldest byte.
LEMMA RecvKeeps ==
    ASSUME TypeOK, TypeOK', NEW n \in Receivable, Recv(n), NEW j \in {0, 1}, j <= Used + n,
           fifo_sci_rx_start' = Wrapped(fifo_sci_rx_start + j)
    PROVE  Pending' = IF j = 0 THEN Pending ELSE Tail(Pending)
<1>1. n \in Nat /\ n <= Len(wire) /\ Used + n < SIZE /\ Used \in Nat /\ Len(wire) \in Nat
    BY ReceivableFacts, UsedFacts, SizeAssumption DEF TypeOK
<1>2. Used' = Used + n - j
    <2>1. fifo_sci_rx_end' = Wrapped(fifo_sci_rx_end + n)
        BY <1>1, Indices, AroundSum DEF Recv
    <2>2. (Used = Distance(fifo_sci_rx_start, fifo_sci_rx_end))'
        BY UsedFacts, PTL
    <2>3. /\ fifo_sci_rx_start \in Slot /\ fifo_sci_rx_end \in Slot
          /\ Used = Distance(fifo_sci_rx_start, fifo_sci_rx_end)
        BY UsedFacts DEF TypeOK
    <2>4. Distance(Wrapped(fifo_sci_rx_start + j), Wrapped(fifo_sci_rx_end + n)) = Used + n - j
        BY <1>1, <2>3, DistanceMoved
    <2> QED BY <2>1, <2>2, <2>4 DEF Distance
<1>3. /\ wire \in Seq(Byte)
      /\ wire' = SubSeq(wire, n + 1, Len(wire))
      /\ fifo_sci_rx' = Pushed(n)
    BY DEF TypeOK, Recv
<1>4. /\ Len(wire') = Len(wire) - n
      /\ \A i \in 1 .. Len(wire) - n : wire'[i] = wire[i + n]
    BY <1>1, <1>3
<1>5. /\ Pending \in Seq(Byte \union {NoByte})
      /\ Len(Pending) = Used + Len(wire)
      /\ \A k \in Used + 1 .. Used + Len(wire) : Pending[k] = wire[k - Used]
    BY PendingFacts
<1>6. (/\ Pending \in Seq(Byte \union {NoByte})
       /\ Len(Pending) = Used + Len(wire)
       /\ \A k \in 1 .. Used : Pending[k] = fifo_sci_rx[Place(k)]
       /\ \A k \in Used + 1 .. Used + Len(wire) : Pending[k] = wire[k - Used])'
    BY PendingFacts, PTL
<1>7. Len(Pending') = Len(Pending) - j /\ j <= Len(Pending)
    BY <1>1, <1>2, <1>4, <1>5, <1>6
<1>8. ASSUME NEW k \in 1 .. Len(Pending') PROVE Pending'[k] = Pending[k + j]
    <2>1. CASE k <= Used'
        <3>1. k \in 1 .. SIZE - 1 /\ k + j \in 1 .. Used + n
            BY <1>1, <1>2, <2>1, SizeAssumption
        <3>2. Place(k)' = Place(k + j)
            BY <3>1, PlaceMoved
        <3> QED BY <1>1, <1>2, <1>3, <1>6, <2>1, <3>1, <3>2, PushedFacts
    <2>2. CASE k > Used'
        <3>1. k \in Used' + 1 .. Used' + Len(wire') /\ k - Used' \in 1 .. Len(wire) - n
            BY <1>1, <1>2, <1>4, <1>6, <2>2
        <3>2. Pending'[k] = wire[k - Used' + n]
            BY <1>4, <1>6, <3>1
        <3>3. PICK i \in Used + 1 .. Used + Len(wire) : i = k + j
            BY <1>1, <1>2, <3>1
        <3>4. Pending[i] = wire[i - Used]
            BY <1>5
        <3>5. k - Used' + n = i - Used
            BY <1>1, <1>2, <3>1, <3>3
        <3> QED BY <3>2, <3>3, <3>4, <3>5
    <2> QED BY <1>1, <1>2, <2>1, <2>2
<1> QED BY <1>5, <1>6, <1>7, <1>8, SameQueue

LEMMA Reads == ASSUME TypeOK, TypeOK', RxdOff \/ RxdRead PROVE Stream!Next
<1>1. CASE RxdOff
    BY <1>1 DEF RxdOff, Event, fifo, Buffered, Used, Stream!Next, Stream!ReadNothing
<1>2. CASE RxdRead
    <2>1. PICK n \in Receivable :
             /\ Recv(n)
             /\ \/ /\ Used + n > 0
                   /\ fifo_sci_rx_start' = (fifo_sci_rx_start + 1) % SIZE
                   /\ Event("rxd", Pushed(n)[fifo_sci_rx_start])
                \/ /\ Used + n = 0
                   /\ UNCHANGED fifo_sci_rx_start
                   /\ Event("rxd", NoByte)
        BY <1>2, ReceivableFacts DEF RxdRead
    <2>2. /\ n \in Nat /\ n <= Len(wire) /\ Used \in Nat /\ Used + n < SIZE
          /\ Len(wire) \in Nat /\ Len(Pending) = Used + Len(wire)
          /\ Pending \in Seq(Byte \union {NoByte})
        BY ReceivableFacts, UsedFacts, PendingFacts, SizeAssumption DEF TypeOK
    <2>3. CASE Used + n > 0 /\ Event("rxd", Pushed(n)[fifo_sci_rx_start])
                 /\ fifo_sci_rx_start' = (fifo_sci_rx_start + 1) % SIZE
        <3>1. fifo_sci_rx_start' = Wrapped(fifo_sci_rx_start + 1)
            BY <2>3, Indices, AroundSum
        <3>2. Pending' = Tail(Pending)
            BY <2>1, <2>2, <2>3, <3>1, RecvKeeps
        <3>3. Place(1) = fifo_sci_rx_start
            BY PlaceFacts, Indices DEF Wrapped, Places
        <3>4. 1 \in 1 .. Used + n
            BY <2>2, <2>3
        <3>5. Pushed(n)[fifo_sci_rx_start] = Pending[1]
            BY <3>3, <3>4, PushedFacts
        <3>6. Pending # <<>> /\ Head(Pending) = Pending[1]
            BY <2>2, <2>3
        <3> QED BY <2>3, <3>2, <3>5, <3>6 DEF Event, Pending, Stream!Next, Stream!Read
    <2>4. CASE Used + n = 0 /\ UNCHANGED fifo_sci_rx_start /\ Event("rxd", NoByte)
        <3>1. fifo_sci_rx_start' = Wrapped(fifo_sci_rx_start + 0)
            BY <2>4, Indices DEF Wrapped
        <3>2. Pending' = Pending
            BY <2>1, <2>2, <3>1, RecvKeeps
        <3> QED BY <2>4, <3>2 DEF Event, Pending, Stream!Next, Stream!ReadNothing
    <2> QED BY <2>1, <2>3, <2>4
<1> QED BY <1>1, <1>2

LEMMA Polls == ASSUME TypeOK, TypeOK', Polled PROVE Stream!Next
<1>1. PICK n \in Receivable : Recv(n)
    BY ReceivableFacts DEF Polled
<1>2. n \in Nat /\ Used \in Nat
    BY ReceivableFacts, UsedFacts, SizeAssumption
<1>3. fifo_sci_rx_start' = Wrapped(fifo_sci_rx_start + 0)
    BY Indices DEF Polled, Wrapped
<1>4. Pending' = Pending
    BY <1>1, <1>2, <1>3, RecvKeeps
<1> QED BY <1>4 DEF Polled, Event, Pending, Stream!Next, Stream!Other

\* A receive-clear drops what the ring holds, and never what the wire does.
LEMMA Configures ==
    ASSUME TypeOK, TypeOK',
           \E r \in BOOLEAN, i \in Rire, t \in BOOLEAN, c \in BOOLEAN : CfgWrite(r, i, t, c)
    PROVE  Stream!Next
<1>1. \/ /\ fifo_sci_rx_start' = 0 /\ fifo_sci_rx_end' = 0
         /\ Event("clear", NoByte)
      \/ UNCHANGED <<fifo_sci_rx_start, fifo_sci_rx_end>> /\ Event("other", NoByte)
    BY DEF CfgWrite
<1>2. UNCHANGED <<fifo_sci_rx, wire>>
    BY DEF CfgWrite
<1>3. CASE fifo_sci_rx_start' = 0 /\ fifo_sci_rx_end' = 0 /\ Event("clear", NoByte)
    <2>1. (Used = Distance(fifo_sci_rx_start, fifo_sci_rx_end))'
        BY UsedFacts, PTL
    <2>2. Used' = 0
        BY <1>3, <2>1 DEF Distance
    <2>3. /\ Pending \in Seq(Byte \union {NoByte})
          /\ Len(Pending) = Used + Len(wire)
          /\ \A k \in Used + 1 .. Used + Len(wire) : Pending[k] = wire[k - Used]
          /\ Used \in Nat /\ Len(wire) \in Nat
        BY PendingFacts, UsedFacts, SizeAssumption DEF TypeOK
    <2>4. (/\ Pending \in Seq(Byte \union {NoByte})
           /\ Len(Pending) = Used + Len(wire)
           /\ \A k \in Used + 1 .. Used + Len(wire) : Pending[k] = wire[k - Used])'
        BY PendingFacts, PTL
    <2> DEFINE rest == SubSeq(Pending, Used + 1, Len(Pending))
    <2>5. /\ rest \in Seq(Byte \union {NoByte})
          /\ Len(rest) = Len(wire)
          /\ \A k \in 1 .. Len(wire) : rest[k] = Pending[Used + k]
        BY <2>3
    <2>6. Len(Pending') = Len(rest)
        BY <1>2, <2>2, <2>3, <2>4, <2>5
    <2>7. \A k \in 1 .. Len(wire) : Pending'[k] = wire[k]
        BY <1>2, <2>2, <2>3, <2>4
    <2>8. \A k \in 1 .. Len(wire) : rest[k] = wire[k]
        BY <2>3, <2>5
    <2>9. Pending' = rest
        BY <2>4, <2>5, <2>6, <2>7, <2>8, SeqEqual
    <2>10. Used \in 0 .. Len(Pending)
        BY <2>3
    <2> QED BY <1>3, <2>9, <2>10 DEF Event, Pending, Stream!Next, Stream!Drop
<1>4. CASE UNCHANGED <<fifo_sci_rx_start, fifo_sci_rx_end>> /\ Event("other", NoByte)
    BY <1>2, <1>4 DEF Event, Buffered, Used, Stream!Next, Stream!Other
<1> QED BY <1>1, <1>3, <1>4

LEMMA Sends == ASSUME TypeOK, NEW b \in Byte, Send(b) PROVE Stream!Next
<1>1. Buffered' = Buffered
    BY DEF Send, fifo, Buffered, Used
<1>2. Buffered \in Seq(Byte \union {NoByte})
    <2>1. Used \in Nat /\ Used < SIZE
        BY UsedFacts, SizeAssumption
    <2>2. \A k \in 1 .. Used : fifo_sci_rx[Place(k)] \in Byte \union {NoByte}
        BY <2>1, PlaceFacts, SizeAssumption DEF TypeOK, Places
    <2> QED BY <2>1, <2>2 DEF Buffered, Place
<1>3. Buffered \o Append(wire, b) = Append(Buffered \o wire, b)
    <2>1. wire \in Seq(Byte \union {NoByte}) /\ b \in Byte \union {NoByte}
        BY DEF TypeOK
    <2> QED BY <1>2, <2>1
<1> QED BY <1>1, <1>3 DEF Send, Event, Stream!Next, Stream!Send

LEMMA Fails == RecvFails => Stream!Next
BY DEF RecvFails, Event, fifo, Buffered, Used, Stream!Next, Stream!Other

LEMMA StepRefines == TypeOK /\ [Next]_vars => [Stream!Next]_(Stream!vars)
<1> SUFFICES ASSUME TypeOK, [Next]_vars
             PROVE  Stream!Next \/ UNCHANGED Stream!vars
    OBVIOUS
<1>1. TypeOK'
    BY NextTypes
<1>2. CASE UNCHANGED vars
    BY <1>2 DEF vars, fifo, Buffered, Used, Stream!vars
<1>3. CASE Execute
    <2>1. CASE LsflagsRead \/ (\E b \in BOOLEAN : LsflagsWrite(b)) \/ Elsewhere
        <3>1. UNCHANGED <<fifo, wire>> => UNCHANGED (Buffered \o wire)
            BY DEF fifo, Buffered, Used
        <3>2. event'.op \notin {"send", "rxd", "clear"}
            BY <2>1 DEF LsflagsRead, LsflagsWrite, Elsewhere, Event
        <3>3. UNCHANGED <<fifo, wire>> => Stream!Other
            BY <3>1, <3>2 DEF Stream!Other
        <3> QED BY <1>1, <1>3, <3>3, Fails, Reads, Configures
                DEF Execute, Instruction, Stream!Next
    <2> QED BY <1>1, <1>3, <2>1, Fails, Reads, Configures DEF Execute, Instruction
<1>4. CASE Poll
    BY <1>1, <1>4, Polls, Fails DEF Poll
<1>5. CASE Dispatch
    <2>1. UNCHANGED (Buffered \o wire)
        BY <1>5 DEF Dispatch, fifo, Buffered, Used
    <2>2. event'.op \in {"interrupt", "quiet", "other"}
        <3>1. PassedOver => event'.op = "other"
            BY DEF PassedOver, Event
        <3>2. SciInterrupt => event'.op \in {"interrupt", "quiet"}
            BY Asked
        <3> QED BY <1>5, <3>1, <3>2 DEF Dispatch
    <2> QED BY <2>1, <2>2 DEF Stream!Next, Stream!Other
<1> QED BY <1>2, <1>3, <1>4, <1>5, Sends DEF Next, Cycle, Terminated

(* For a ring of any size and any bytes, the bytes of the peer reach the   *)
(* guest's reads of RXD in order and once each, whether the poll or the    *)
(* read fetched them and however the indices wrap: only a receive-clear    *)
(* drops any.                                                              *)
THEOREM RingIsStream == Spec => StreamSpec
<1>1. Init => Stream!Init
    <2> SUFFICES ASSUME Init PROVE Stream!Init
        OBVIOUS
    <2>1. TypeOK /\ Used = Distance(0, 0)
        BY InitTypes, UsedFacts DEF Init
    <2>2. Used = 0
        BY <2>1 DEF Distance
    <2>3. wire = <<>> /\ Len(Pending) = 0 /\ Pending \in Seq(Byte \union {NoByte})
        BY <2>1, <2>2, PendingFacts DEF Init
    <2>4. Pending = <<>>
        BY <2>3
    <2> QED BY <2>4 DEF Init, Pending, Stream!Init, Stream!Quiet
<1> QED BY <1>1, InitTypes, NextTypes, StepRefines, PTL
        DEF Spec, StreamSpec, Stream!Spec

-----------------------------------------------------------------------------
(* The receiver as the dispatcher sees it *)

LineWants  == /\ ren /\ (scirie => dps_lsflags_clear)
              /\ \E request \in Requests(rire) : Used >= request
LineTurn   == IF phase = "execute" THEN "guest" ELSE "simulator"
LineAnswer == IF event.op \in {"interrupt", "quiet"} THEN event.op ELSE "none"

\* Whichever value the shift by RIRE - 1 has, the ring is full enough for each
\* or for none: with RIRE zero an empty ring is full enough for both.
LEMMA OneRequest ==
    ASSUME TypeOK, NEW r \in Requests(rire), NEW q \in Requests(rire)
    PROVE  r \in Int /\ (Used >= r <=> Used >= q)
<1>1. Used \in Nat
    BY UsedFacts, SizeAssumption
<1>2. CASE rire = 0
    BY <1>1, <1>2 DEF Requests
<1>3. CASE rire # 0
    <2>1. r = 2 ^ (rire - 1) /\ q = r
        BY <1>3 DEF Requests
    <2>2. rire \in 1 .. 7
        BY <1>3 DEF TypeOK
    <2> QED BY <2>1, <2>2
<1> QED BY <1>2, <1>3

\* A step that asks nothing is a change of the line if it takes no request
\* back, or if it is the guest's.
LEMMA LineChanges ==
    ASSUME event'.op \notin {"interrupt", "quiet"},
           phase = "execute" \/ (LineWants => LineWants')
    PROVE  Line!Next
<1>1. LineAnswer' = "none" /\ LineTurn' \in {"guest", "simulator"}
    BY DEF LineAnswer, LineTurn
<1>2. LineWants' \in BOOLEAN
    BY DEF LineWants
<1>3. LineWants /\ ~LineWants' => LineTurn = "guest"
    BY DEF LineTurn
<1> QED BY <1>1, <1>2, <1>3
        DEF Line!Next, Line!Change, LineWants, LineAnswer, LineTurn

\* The poll only adds to the ring.
LEMMA PollAdds == TypeOK /\ TypeOK' /\ Polled => (LineWants => LineWants')
<1> SUFFICES ASSUME TypeOK, TypeOK', Polled, LineWants PROVE LineWants'
    OBVIOUS
<1>1. PICK n \in Receivable : Recv(n)
    BY ReceivableFacts DEF Polled
<1>2. n \in Nat /\ Used + n < SIZE /\ Used \in Nat
    BY ReceivableFacts, UsedFacts, SizeAssumption
<1>3. Used' = Used + n
    <2>1. fifo_sci_rx_end' = Wrapped(fifo_sci_rx_end + n)
        BY <1>1, <1>2, Indices, AroundSum DEF Recv
    <2>2. fifo_sci_rx_start' = Wrapped(fifo_sci_rx_start + 0)
        BY Indices DEF Polled, Wrapped
    <2>3. (Used = Distance(fifo_sci_rx_start, fifo_sci_rx_end))'
        BY UsedFacts, PTL
    <2>4. /\ fifo_sci_rx_start \in Slot /\ fifo_sci_rx_end \in Slot
          /\ Used = Distance(fifo_sci_rx_start, fifo_sci_rx_end)
        BY UsedFacts DEF TypeOK
    <2>5. Distance(Wrapped(fifo_sci_rx_start + 0), Wrapped(fifo_sci_rx_end + n)) = Used + n - 0
        BY <1>2, <2>4, DistanceMoved
    <2> QED BY <1>2, <2>1, <2>3, <2>5, <2>2 DEF Distance
<1>4. PICK request \in Requests(rire) : Used >= request
    BY DEF LineWants
<1>5. request \in Int
    BY <1>4, OneRequest
<1>6. Used' >= request
    BY <1>2, <1>3, <1>4, <1>5
<1>7. UNCHANGED <<ren, rire, scirie, dps_lsflags_clear>>
    BY DEF Polled, flags
<1> QED BY <1>4, <1>6, <1>7 DEF LineWants, Requests

\* The answer is TRUE exactly if the line wants an interrupt, and then takes
\* the request back.
LEMMA LineAsked ==
    ASSUME TypeOK, Dispatch, SciInterrupt
    PROVE  Line!Next
<1>1. LineTurn = "simulator" /\ LineTurn' \in {"guest", "simulator"}
    BY DEF Dispatch, LineTurn
<1>2. UNCHANGED <<Used, ren, rire>> /\ dps_lsflags_clear' = FALSE
    BY DEF Dispatch, fifo, Used, SciInterrupt
<1>3. PICK request \in Requests(rire) :
         \/ /\ ren /\ Used >= request /\ ~Flag
            /\ scirie' = TRUE /\ Event("interrupt", NoByte)
         \/ /\ ~(ren /\ Used >= request /\ ~Flag)
            /\ scirie' = Flag /\ Event("quiet", NoByte)
    BY Zenon DEF SciInterrupt
<1>4. LineWants <=> ren /\ Used >= request /\ ~Flag
    BY <1>3, OneRequest DEF LineWants, Flag
<1>5. CASE LineWants
    <2>1. scirie' = TRUE /\ event'.op = "interrupt"
        BY <1>3, <1>4, <1>5 DEF Event
    <2>2. LineAnswer' = "interrupt" /\ LineWants' = FALSE
        BY <1>2, <2>1 DEF LineAnswer, LineWants
    <2> QED BY <1>1, <1>5, <2>2
            DEF Line!Next, Line!Ask, Line!Interrupt, LineWants, LineAnswer, LineTurn
<1>6. CASE ~LineWants
    <2>1. scirie' = Flag /\ event'.op = "quiet"
        BY <1>3, <1>4, <1>6 DEF Event
    <2>2. LineAnswer' = "quiet"
        BY <2>1 DEF LineAnswer
    <2>3. LineWants' = LineWants
        <3>1. (scirie' => dps_lsflags_clear') <=> (scirie => dps_lsflags_clear)
            BY <1>2, <2>1 DEF Flag
        <3>2. Requests(rire)' = Requests(rire)
            BY <1>2 DEF Requests
        <3> QED BY <1>2, <3>1, <3>2 DEF LineWants
    <2> QED BY <1>1, <1>6, <2>2, <2>3
            DEF Line!Next, Line!Ask, Line!Quiet, LineWants, LineAnswer, LineTurn
<1> QED BY <1>5, <1>6

LEMMA LineSteps == TypeOK /\ TypeOK' /\ [Next]_vars => [Line!Next]_(Line!vars)
<1> SUFFICES ASSUME TypeOK, TypeOK', [Next]_vars
             PROVE  Line!Next \/ UNCHANGED Line!vars
    OBVIOUS
<1>1. CASE UNCHANGED vars
    BY <1>1 DEF vars, fifo, flags, Requests, Used, Line!vars
<1>2. CASE Execute
    BY <1>2, LineChanges
       DEF Execute, Instruction, RecvFails, RxdOff, RxdRead, CfgWrite, LsflagsRead,
           LsflagsWrite, Elsewhere, Event
<1>3. CASE Poll
    <2>1. CASE Polled
        BY <2>1, PollAdds, LineChanges DEF Polled, Event
    <2>2. CASE RecvFails
        BY <2>2, LineChanges DEF RecvFails, fifo, flags, LineWants, Requests, Used, Event
    <2> QED BY <1>3, <2>1, <2>2 DEF Poll
<1>4. CASE Dispatch /\ SciInterrupt
    BY <1>4, LineAsked
<1>5. CASE Dispatch /\ PassedOver
    <2>1. LineWants' = LineWants
        BY <1>5 DEF Dispatch, PassedOver, fifo, flags, LineWants, Requests, Used
    <2>2. event'.op = "other"
        BY <1>5 DEF PassedOver, Event
    <2> QED BY <2>1, <2>2, LineChanges
<1>6. ASSUME NEW b \in Byte, Send(b) PROVE Line!Next
    <2>1. LineWants' = LineWants
        BY <1>6 DEF Send, fifo, flags, LineWants, Requests, Used
    <2>2. event'.op = "send"
        BY <1>6 DEF Send, Event
    <2> QED BY <2>1, <2>2, LineChanges
<1> QED BY <1>1, <1>2, <1>3, <1>4, <1>5, <1>6
        DEF Next, Cycle, Dispatch, Terminated

(* For a ring of any size the receiver is what the dispatcher takes it     *)
(* for: it answers TRUE exactly if it has cause to at that moment, and     *)
(* only its interrupt and the guest's own instructions take a request      *)
(* back.                                                                   *)
THEOREM ReceiverIsLine == Spec => SciLine
<1>1. Init => Line!Init
    BY DEF Init, Line!Init
<1> QED BY <1>1, LineSteps, TypeCorrect, PTL DEF Spec, SciLine, Line!Spec
=============================================================================
