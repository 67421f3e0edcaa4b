----------------------------- MODULE GciProofs -----------------------------
(***************************************************************************)
(* Proofs about Gci and the keyboard inside it, Kmc: for a ring of any     *)
(* size, any layout of the I/O space, any size of the display and any      *)
(* interval of the poll.                                                   *)
(***************************************************************************)
EXTENDS Gci, SequenceTheorems, TLAPS

-----------------------------------------------------------------------------
(* The keyboard: type correctness *)

LEMMA InitTypes == Init => TypeOK
<1> SUFFICES ASSUME Init PROVE TypeOK
    OBVIOUS
<1>1. 0 \in Slot
    BY SizeAssumption DEF Slot
<1>2. fifo_scancode \in [Slot -> Scancode \union {NoScancode}]
    BY Zenon DEF Init
<1> QED BY <1>1, <1>2 DEF Init, TypeOK

LEMMA AfterSlot == ASSUME NEW s \in Slot PROVE After(s) \in Slot
BY SizeAssumption DEF After, Slot

LEMMA ExecuteTypes == TypeOK /\ Execute => TypeOK'
<1> SUFFICES ASSUME TypeOK, Execute PROVE TypeOK'
    OBVIOUS
<1>1. /\ phase' = "poll" /\ event' = "none"
      /\ UNCHANGED <<int_dispatch, exec_finish, unread>>
    BY DEF Execute, Executes
<1>2. CASE KmcRead
    <2>1. fifo_scancode_start' \in Slot
        BY <1>2, AfterSlot DEF KmcRead, TypeOK
    <2>2. answer' \in Scancode \union {NoScancode}
        BY <1>2 DEF KmcRead, TypeOK
    <2> QED BY <1>1, <1>2, <2>1, <2>2 DEF KmcRead, TypeOK
<1>3. CASE IrfRead
    BY <1>1, <1>3 DEF IrfRead, fifo, TypeOK
<1>4. CASE Elsewhere
    BY <1>1, <1>4 DEF Elsewhere, fifo, TypeOK
<1> QED BY <1>2, <1>3, <1>4 DEF Execute, Executes

LEMMA ScanTypes == ASSUME TypeOK, NEW c \in Scancode, Scan(c) PROVE TypeOK'
<1>1. fifo_scancode_end' \in Slot
    BY AfterSlot DEF Scan, TypeOK
<1>2. fifo_scancode_start' \in Slot
    BY <1>1, AfterSlot DEF Scan, Overfull, TypeOK
<1>3. fifo_scancode' \in [Slot -> Scancode \union {NoScancode}]
    BY DEF Scan, TypeOK
<1> QED BY <1>1, <1>2, <1>3 DEF Scan, TypeOK

LEMMA DispatchTypes == TypeOK /\ Dispatch => TypeOK'
<1> SUFFICES ASSUME TypeOK, Dispatch PROVE TypeOK'
    OBVIOUS
<1>1. /\ phase' \in {"execute", "done"}
      /\ UNCHANGED <<fifo_scancode, fifo_scancode_start, fifo_scancode_end,
                     exec_finish, answer>>
    BY DEF Dispatch, fifo
<1>2. /\ int_dispatch' \in BOOLEAN /\ int_issued' \in BOOLEAN
      /\ enabled' \in BOOLEAN /\ unread' \in BOOLEAN /\ owed' \in BOOLEAN
      /\ event' \in {"interrupt", "quiet", "passed over"}
    BY DEF Dispatch, KmcInterrupt, KmcQuiet, PassedOver, history, TypeOK
<1> QED BY <1>1, <1>2 DEF TypeOK

LEMMA NextTypes == TypeOK /\ [Next]_vars => TypeOK'
<1> SUFFICES ASSUME TypeOK, [Next]_vars PROVE TypeOK'
    OBVIOUS
<1>1. CASE UNCHANGED vars
    BY <1>1 DEF vars, fifo, history, TypeOK
<1>2. CASE Disconnect \/ Sigint
    BY <1>2 DEF Disconnect, Sigint, fifo, history, TypeOK
<1>3. CASE Polled
    BY <1>3 DEF Polled, fifo, history, TypeOK
<1> QED BY <1>1, <1>2, <1>3, ExecuteTypes, ScanTypes, DispatchTypes
        DEF Next, Terminated

(* For a ring of any size, both indices stay inside the ring and every     *)
(* variable keeps its type.                                                *)
THEOREM TypeCorrect == Spec => []TypeOK
BY InitTypes, NextTypes, PTL DEF Spec

-----------------------------------------------------------------------------
(* The keyboard: the interrupt's handshake *)

\* What int_dispatch and int_issued stand for, and where in its cycle exec is
\* when the dispatcher has just asked the keyboard.
Handshake == /\ unread => int_dispatch
             /\ int_issued <=> owed
             /\ event \in {"quiet", "interrupt"} => phase \in {"execute", "done"}
             /\ Announced

IInv == TypeOK /\ Handshake

LEMMA InitInv == Init => IInv
BY InitTypes DEF Init, IInv, Handshake, Announced

LEMMA NextHandshake == IInv /\ [Next]_vars => Handshake'
<1> SUFFICES ASSUME IInv, [Next]_vars PROVE Handshake'
    OBVIOUS
<1> USE DEF IInv, Handshake, Announced
<1>1. CASE UNCHANGED vars
    BY <1>1 DEF vars, history
<1>2. CASE Execute
    <2>1. event' = "none" /\ UNCHANGED <<int_dispatch, unread>>
        BY <1>2 DEF Execute, Executes
    <2>2. int_issued' <=> owed'
        BY <1>2 DEF Execute, Executes, KmcRead, IrfRead, Elsewhere
    <2> QED BY <2>1, <2>2
<1>3. ASSUME NEW c \in Scancode, Scan(c) PROVE Handshake'
    BY <1>3 DEF Scan
<1>4. CASE Disconnect \/ Sigint
    BY <1>4 DEF Disconnect, Sigint, history
<1>5. CASE Polled
    BY <1>5 DEF Polled, history
<1>6. CASE Dispatch
    <2>1. phase' \in {"execute", "done"}
        BY <1>6 DEF Dispatch
    <2>2. CASE KmcInterrupt
        BY <2>1, <2>2 DEF KmcInterrupt
    <2>3. CASE KmcQuiet
        BY <2>1, <2>3 DEF KmcQuiet, Issuable, history
    <2>4. CASE PassedOver
        BY <2>1, <2>4 DEF PassedOver, history
    <2> QED BY <1>6, <2>2, <2>3, <2>4 DEF Dispatch
<1> QED BY <1>1, <1>2, <1>3, <1>4, <1>5, <1>6 DEF Next, Terminated

LEMMA NextInv == IInv /\ [Next]_vars => IInv'
BY NextTypes, NextHandshake DEF IInv

(* For a ring of any size and whatever the guest and the monitor do, no    *)
(* keystroke goes unannounced: a dispatcher that finds no interrupt of the *)
(* keyboard has announced every code, or waits for an acknowledgement.     *)
THEOREM KeysAnnounced == Spec => []Announced
<1>1. IInv => Announced
    BY DEF IInv, Handshake
<1> QED BY <1>1, InitInv, NextInv, PTL DEF Spec

(* For a ring of any size, the keyboard interrupts again only after the    *)
(* guest has read the interrupt factor of the last interrupt.              *)
THEOREM InterruptsAcknowledged == Spec => Acknowledged
<1>1. IInv /\ [Next]_vars => [event' = "interrupt" => ~owed]_vars
    <2> SUFFICES ASSUME IInv, Next, event' = "interrupt", vars' # vars PROVE ~owed
        OBVIOUS
    <2>1. CASE Dispatch
        BY <2>1 DEF Dispatch, KmcInterrupt, KmcQuiet, PassedOver, Issuable,
                    IInv, Handshake
    <2>2. ~ Execute /\ ~ Sigint /\ ~ Terminated
        BY DEF Execute, Executes, Sigint, Terminated
    <2>3. ~ Polled /\ ~ Disconnect /\ ~ \E c \in Scancode : Scan(c)
        BY DEF Polled, Disconnect, Scan, IInv, Handshake
    <2> QED BY <2>1, <2>2, <2>3 DEF Next
<1> QED BY <1>1, InitInv, NextInv, PTL DEF Spec, Acknowledged

-----------------------------------------------------------------------------
(* The keyboard: the ring is a queue *)

LEMMA Indices ==
    ASSUME TypeOK
    PROVE  /\ SIZE \in Int /\ SIZE > 1
           /\ fifo_scancode_start \in Int
           /\ 0 <= fifo_scancode_start /\ fifo_scancode_start < SIZE
           /\ fifo_scancode_end \in Int
           /\ 0 <= fifo_scancode_end /\ fifo_scancode_end < SIZE
<1>1. fifo_scancode_start \in Slot /\ fifo_scancode_end \in Slot
    BY DEF TypeOK
<1> QED BY <1>1, SizeAssumption DEF Slot

\* The slots of the codes are in the ring, apart from its end.
LEMMA PlaceFacts ==
    ASSUME TypeOK
    PROVE  /\ Used \in 0 .. SIZE - 1
           /\ \A k \in 1 .. Used : Place(k) \in Slot \ {fifo_scancode_end}
           /\ Used = 0 <=> fifo_scancode_start = fifo_scancode_end
           /\ Used > 0 => Place(1) = fifo_scancode_start
           /\ Used = SIZE - 1 <=> After(fifo_scancode_end) = fifo_scancode_start
<1>1. Used \in 0 .. SIZE - 1
    BY Indices DEF Used
<1>2. \A k \in 1 .. Used : Place(k) \in Slot \ {fifo_scancode_end}
    BY Indices DEF Used, Place, Slot
<1>3. Used = 0 <=> fifo_scancode_start = fifo_scancode_end
    BY Indices DEF Used
<1>4. Used > 0 => Place(1) = fifo_scancode_start
    BY Indices DEF Used, Place
<1>5. Used = SIZE - 1 <=> After(fifo_scancode_end) = fifo_scancode_start
    BY Indices DEF Used, After
<1> QED BY <1>1, <1>2, <1>3, <1>4, <1>5

LEMMA BufferedFacts ==
    ASSUME TypeOK
    PROVE  /\ Buffered \in Seq(Scancode \union {NoScancode})
           /\ Len(Buffered) = Used
           /\ \A k \in 1 .. Used : Buffered[k] = fifo_scancode[Place(k)]
<1>1. \A k \in 1 .. Used : fifo_scancode[Place(k)] \in Scancode \union {NoScancode}
    BY PlaceFacts DEF TypeOK
<1>2. Used \in Nat
    BY PlaceFacts, SizeAssumption
<1>3. Buffered \in [1 .. Used -> Scancode \union {NoScancode}]
    BY <1>1 DEF Buffered
<1> QED BY <1>2, <1>3 DEF Buffered

\* A step that leaves the ring alone leaves the queue alone.
LEMMA RingKept == UNCHANGED <<fifo, answer>> => UNCHANGED Keyboard!vars
BY DEF fifo, Keyboard!vars, Buffered, Used, Place

LEMMA ReadRefines ==
    ASSUME TypeOK, TypeOK', KmcRead
    PROVE  Keyboard!Read
<1> USE SizeAssumption
<1>1. CASE fifo_scancode_start = fifo_scancode_end
    <2>1. Used = 0 /\ answer' = NoScancode
        BY <1>1, PlaceFacts DEF KmcRead
    <2>2. Buffered = <<>>
        BY <2>1, BufferedFacts
    <2>3. UNCHANGED Buffered
        BY <1>1 DEF KmcRead, Buffered, Used, Place
    <2> QED BY <2>1, <2>2, <2>3 DEF Keyboard!Read
<1>2. CASE fifo_scancode_start # fifo_scancode_end
    <2>1. /\ answer' = fifo_scancode[fifo_scancode_start]
          /\ fifo_scancode_start' = After(fifo_scancode_start)
          /\ UNCHANGED <<fifo_scancode, fifo_scancode_end>>
        BY <1>2 DEF KmcRead
    <2>2. Used \in 1 .. SIZE - 1 /\ Place(1) = fifo_scancode_start
        BY <1>2, PlaceFacts
    <2>3. Used' = Used - 1
        BY <2>1, <1>2, Indices DEF Used, After
    <2>4. \A k \in 1 .. Used - 1 : Place(k)' = Place(k + 1)
        BY <2>1, <1>2, <2>2, Indices DEF Place, After
    <2>5. /\ Len(Buffered) = Used
          /\ Buffered \in Seq(Scancode \union {NoScancode})
          /\ \A k \in 1 .. Used : Buffered[k] = fifo_scancode[Place(k)]
        BY BufferedFacts
    <2>6. (/\ Buffered \in Seq(Scancode \union {NoScancode})
           /\ Len(Buffered) = Used
           /\ \A k \in 1 .. Used : Buffered[k] = fifo_scancode[Place(k)])'
        BY BufferedFacts, PTL
    <2>7. Buffered # <<>> /\ answer' = Head(Buffered)
        BY <2>1, <2>2, <2>5
    <2>8. /\ Tail(Buffered) \in Seq(Scancode \union {NoScancode})
          /\ Len(Tail(Buffered)) = Used - 1
          /\ \A k \in 1 .. Used - 1 : Tail(Buffered)[k] = Buffered[k + 1]
        BY <2>2, <2>5
    <2>9. Buffered' = Tail(Buffered)
        <3>1. Len(Buffered') = Len(Tail(Buffered))
            BY <2>3, <2>6, <2>8
        <3>2. \A k \in 1 .. Len(Buffered') : Buffered'[k] = Tail(Buffered)[k]
            BY <2>1, <2>2, <2>3, <2>4, <2>5, <2>6, <2>8
        <3> QED BY <2>6, <2>8, <3>1, <3>2, SeqEqual
    <2> QED BY <2>7, <2>9 DEF Keyboard!Read
<1> QED BY <1>1, <1>2

LEMMA ScanRefines ==
    ASSUME TypeOK, TypeOK', NEW c \in Scancode, Scan(c)
    PROVE  Keyboard!Type(c)
<1> USE SizeAssumption
<1> DEFINE Code == Scancode \union {NoScancode}
<1>1. /\ fifo_scancode_end' = After(fifo_scancode_end)
      /\ fifo_scancode' = [fifo_scancode EXCEPT ![fifo_scancode_end] = c]
      /\ fifo_scancode_start' = Overfull(fifo_scancode_start, After(fifo_scancode_end))
      /\ UNCHANGED answer
    BY DEF Scan
<1>2. /\ fifo_scancode'[fifo_scancode_end] = c
      /\ \A k \in 1 .. Used : fifo_scancode'[Place(k)] = fifo_scancode[Place(k)]
    BY <1>1, PlaceFacts DEF TypeOK
<1>3. /\ Buffered \in Seq(Code)
      /\ Len(Buffered) = Used
      /\ \A k \in 1 .. Used : Buffered[k] = fifo_scancode[Place(k)]
      /\ Used \in 0 .. SIZE - 1
    BY BufferedFacts, PlaceFacts
<1>4. (/\ Buffered \in Seq(Code)
       /\ Len(Buffered) = Used
       /\ \A k \in 1 .. Used : Buffered[k] = fifo_scancode[Place(k)])'
    BY BufferedFacts, PTL
<1>5. CASE After(fifo_scancode_end) # fifo_scancode_start
    <2>1. Used < SIZE - 1
        BY <1>3, <1>5, PlaceFacts
    <2>2. fifo_scancode_start' = fifo_scancode_start
        BY <1>1, <1>5 DEF Overfull
    <2>3. Used' = Used + 1
        BY <1>1, <1>5, <2>2, Indices DEF Used, After
    <2>4. /\ \A k \in 1 .. Used : Place(k)' = Place(k)
          /\ \A n \in Int : n = Used + 1 => Place(n)' = fifo_scancode_end
        <3>1. \A k \in 1 .. Used : Place(k)' = Place(k)
            BY <2>2 DEF Place
        <3>2. ASSUME NEW n \in Int, n = Used + 1
              PROVE  Place(n)' = fifo_scancode_end
            <4>1. fifo_scancode_start + n - 1
                    = IF fifo_scancode_end >= fifo_scancode_start
                      THEN fifo_scancode_end ELSE fifo_scancode_end + SIZE
                BY <3>2, Indices DEF Used
            <4> QED BY <2>2, <4>1, Indices DEF Place
        <3> QED BY <3>1, <3>2
    <2>5. /\ Append(Buffered, c) \in Seq(Code)
          /\ Len(Append(Buffered, c)) = Used + 1
          /\ \A k \in 1 .. Used : Append(Buffered, c)[k] = Buffered[k]
          /\ Append(Buffered, c)[Used + 1] = c
        BY <1>3
    <2>6. \A k \in 1 .. Used + 1 : Buffered'[k] = Append(Buffered, c)[k]
        <3> SUFFICES ASSUME NEW k \in 1 .. Used + 1
                     PROVE  Buffered'[k] = Append(Buffered, c)[k]
            OBVIOUS
        <3>1. Buffered'[k] = fifo_scancode'[Place(k)']
            BY <1>4, <2>3
        <3>2. CASE k \in 1 .. Used
            <4>1. Place(k)' = Place(k)
                BY <3>2, <2>4
            <4> QED BY <3>1, <3>2, <4>1, <1>2, <1>3, <2>5
        <3>3. CASE k = Used + 1
            BY <3>1, <3>3, <1>2, <2>4, <2>5
        <3> QED BY <1>3, <3>2, <3>3
    <2>7. Buffered' = Append(Buffered, c)
        BY <1>3, <1>4, <2>3, <2>5, <2>6, SeqEqual
    <2> QED BY <1>1, <1>3, <2>1, <2>7 DEF Keyboard!Type
<1>6. CASE After(fifo_scancode_end) = fifo_scancode_start
    <2>1. Used = SIZE - 1
        BY <1>6, PlaceFacts
    <2>2. fifo_scancode_start' = After(fifo_scancode_start)
        BY <1>1, <1>6 DEF Overfull
    <2>3. Used' = SIZE - 1
        BY <1>1, <1>6, <2>2, Indices DEF Used, After
    <2>4. /\ \A k \in 1 .. SIZE - 2 : Place(k)' = Place(k + 1)
          /\ Place(SIZE - 1)' = fifo_scancode_end
        BY <1>1, <1>6, <2>2, Indices DEF Place, After
    <2>5. /\ Tail(Buffered) \in Seq(Code)
          /\ Len(Tail(Buffered)) = SIZE - 2
          /\ \A k \in 1 .. SIZE - 2 : Tail(Buffered)[k] = Buffered[k + 1]
        BY <1>3, <2>1
    <2>6. /\ Append(Tail(Buffered), c) \in Seq(Code)
          /\ Len(Append(Tail(Buffered), c)) = SIZE - 1
          /\ \A k \in 1 .. SIZE - 2 : Append(Tail(Buffered), c)[k] = Buffered[k + 1]
          /\ Append(Tail(Buffered), c)[SIZE - 1] = c
        BY <2>5
    <2>7. \A k \in 1 .. SIZE - 1 : Buffered'[k] = Append(Tail(Buffered), c)[k]
        <3> SUFFICES ASSUME NEW k \in 1 .. SIZE - 1
                     PROVE  Buffered'[k] = Append(Tail(Buffered), c)[k]
            OBVIOUS
        <3>1. Buffered'[k] = fifo_scancode'[Place(k)']
            BY <1>4, <2>3
        <3>2. CASE k \in 1 .. SIZE - 2
            <4>1. Place(k)' = Place(k + 1) /\ k + 1 \in 1 .. Used
                BY <3>2, <2>1, <2>4, SizeAssumption
            <4> QED BY <3>1, <3>2, <4>1, <1>2, <1>3, <2>6
        <3>3. CASE k = SIZE - 1
            BY <3>1, <3>3, <1>2, <2>4, <2>6
        <3>4. k \in 1 .. SIZE - 2 \/ k = SIZE - 1
            BY SizeAssumption
        <3> QED BY <3>2, <3>3, <3>4, Zenon
    <2>8. Buffered' = Append(Tail(Buffered), c)
        BY <1>4, <2>3, <2>6, <2>7, SeqEqual
    <2> QED BY <1>1, <1>3, <2>1, <2>8 DEF Keyboard!Type
<1> QED BY <1>5, <1>6

LEMMA StepRefines == TypeOK /\ [Next]_vars => [Keyboard!Next]_(Keyboard!vars)
<1> SUFFICES ASSUME TypeOK, [Next]_vars
             PROVE  Keyboard!Next \/ UNCHANGED Keyboard!vars
    OBVIOUS
<1>1. TypeOK'
    BY NextTypes
<1>2. CASE Execute
    <2>1. CASE KmcRead
        BY <1>1, <2>1, ReadRefines DEF Keyboard!Next
    <2>2. CASE IrfRead \/ Elsewhere
        BY <2>2, RingKept DEF IrfRead, Elsewhere
    <2> QED BY <1>2, <2>1, <2>2 DEF Execute, Executes
<1>3. ASSUME NEW c \in Scancode, Scan(c) PROVE Keyboard!Next
    BY <1>1, <1>3, ScanRefines DEF Keyboard!Next
<1>4. CASE UNCHANGED vars \/ Disconnect \/ Polled \/ Dispatch \/ Sigint
    BY <1>4, RingKept DEF vars, Disconnect, Polled, Dispatch, Sigint
<1> QED BY <1>2, <1>3, <1>4 DEF Next, Terminated

(* A ring of any size is the queue of the last SIZE - 1 codes: a push into *)
(* a full ring drops the oldest one, whichever way the indices have        *)
(* wrapped, and a full ring is never taken for an empty one.               *)
THEOREM RingIsQueue == Spec => KeyboardSpec
<1>1. Init => Keyboard!Init
    <2> SUFFICES ASSUME Init PROVE Buffered = <<>> /\ answer = NoScancode
        BY DEF Keyboard!Init
    <2>1. TypeOK /\ Used = 0
        BY InitTypes DEF Init, Used
    <2> QED BY <2>1, BufferedFacts DEF Init
<1> QED BY <1>1, InitTypes, NextTypes, StepRefines, PTL
        DEF Spec, KeyboardSpec, Keyboard!Spec

-----------------------------------------------------------------------------
(* The keyboard as the dispatcher sees it *)

LineTurn   == IF phase = "execute" THEN "guest" ELSE "simulator"
LineAnswer == IF event \in {"interrupt", "quiet"} THEN event ELSE "none"

\* A step that asks nothing is a change of the line if it takes no request back.
LEMMA LineChanges ==
    ASSUME TypeOK, TypeOK', event' \notin {"interrupt", "quiet"} \/ UNCHANGED event,
           int_dispatch /\ ~int_issued => int_dispatch' /\ ~int_issued'
    PROVE  Line!Next
<1>1. LineAnswer' \in {"none", LineAnswer}
    BY DEF LineAnswer
<1>2. LineTurn' \in {"guest", "simulator"}
    BY DEF LineTurn
<1>3. (int_dispatch /\ ~int_issued)' \in BOOLEAN
    OBVIOUS
<1> QED BY <1>1, <1>2, <1>3 DEF Line!Next, Line!Change, LineAnswer, LineTurn

LEMMA LineSteps == TypeOK /\ TypeOK' /\ [Next]_vars => [Line!Next]_(Line!vars)
<1> SUFFICES ASSUME TypeOK, TypeOK', [Next]_vars
             PROVE  Line!Next \/ UNCHANGED Line!vars
    OBVIOUS
<1>1. CASE UNCHANGED vars
    BY <1>1 DEF vars, Line!vars
<1>2. CASE Execute
    <2>1. event' = "none" /\ UNCHANGED int_dispatch /\ (int_issued' => int_issued)
        BY <1>2 DEF Execute, Executes, KmcRead, IrfRead, Elsewhere
    <2> QED BY <2>1, LineChanges
<1>3. ASSUME NEW c \in Scancode, Scan(c) PROVE Line!Next
    BY <1>3, LineChanges DEF Scan
<1>4. CASE Disconnect \/ Polled \/ Sigint
    BY <1>4, LineChanges DEF Disconnect, Polled, Sigint
<1>5. CASE Dispatch
    <2>1. LineTurn = "simulator" /\ LineTurn' \in {"guest", "simulator"}
        BY <1>5 DEF Dispatch, LineTurn
    <2>2. CASE KmcInterrupt
        <3>1. LineAnswer' = "interrupt" /\ ~(int_dispatch /\ ~int_issued)'
            BY <2>2 DEF KmcInterrupt, LineAnswer
        <3>2. int_dispatch /\ ~int_issued
            BY <2>2 DEF KmcInterrupt, Issuable
        <3> QED BY <2>1, <3>1, <3>2
                DEF Line!Next, Line!Ask, Line!Interrupt, LineAnswer, LineTurn
    <2>3. CASE KmcQuiet
        <3>1. LineAnswer' = "quiet" /\ ~(int_dispatch /\ ~int_issued)
            BY <2>3 DEF KmcQuiet, Issuable, LineAnswer
        <3>2. UNCHANGED <<int_dispatch, int_issued>>
            BY <2>3 DEF KmcQuiet
        <3> QED BY <2>1, <3>1, <3>2
                DEF Line!Next, Line!Ask, Line!Quiet, LineAnswer, LineTurn
    <2>4. CASE PassedOver
        BY <2>4, LineChanges DEF PassedOver
    <2> QED BY <1>5, <2>2, <2>3, <2>4 DEF Dispatch
<1> QED BY <1>1, <1>2, <1>3, <1>4, <1>5 DEF Next, Terminated

(* For a ring of any size the keyboard is what the dispatcher takes it     *)
(* for: a line whose request only its own interrupt takes back.            *)
THEOREM KeyboardIsLine == Spec => KeyboardLine
<1>1. Init => Line!Init
    BY DEF Init, Line!Init
<1> QED BY <1>1, LineSteps, TypeCorrect, PTL DEF Spec, KeyboardLine, Line!Spec

-----------------------------------------------------------------------------
(* The keyboard is unaffected *)

LEMMA ExecuteStep == GciExecute => Execute
<1> SUFFICES ASSUME GciExecute PROVE KmcRead \/ IrfRead \/ Elsewhere
    BY DEF GciExecute, Execute
<1> QED BY DEF GciExecute, IoLoad, IoStore, Reading, NoIo, Untouched

LEMMA GciStep == [GciNext]_gcivars => [Next]_vars
<1> SUFFICES ASSUME [GciNext]_gcivars PROVE Next \/ UNCHANGED vars
    OBVIOUS
<1>1. CASE UNCHANGED gcivars \/ GciTerminated
    BY <1>1 DEF gcivars, kmcvars, GciTerminated
<1>2. CASE GciExecute
    BY <1>2, ExecuteStep DEF Next
<1>3. CASE (\E c \in Scancode : GciScan(c)) \/ GciDisconnect \/ GciPolled
              \/ GciDispatch \/ GciSigint
    BY <1>3 DEF GciScan, GciDisconnect, GciPolled, GciDispatch, GciSigint, Next
<1>4. CASE SendQueue \/ MethodSend \/ CutShort \/ Goodbye \/ ClientLeaves
    BY <1>4 DEF SendQueue, MethodSend, CutShort, Goodbye, ClientLeaves, kmcvars
<1> QED BY <1>1, <1>2, <1>3, <1>4 DEF GciNext, Uncut

(* With the decoder, the display and the monitor's socket around it, the   *)
(* keyboard behaves as Kmc says: whatever is proved of Kmc holds in the    *)
(* whole.                                                                  *)
THEOREM KeyboardInside == GciSpec => Spec
<1>1. GciInit => Init
    BY DEF GciInit
<1> QED BY <1>1, GciStep, PTL DEF GciSpec, Spec

-----------------------------------------------------------------------------
(* The layout *)

LEMMA Sizes ==
    /\ \A i \in 0 .. 2 : AreaSize(i) \in Nat \ {0} /\ size(i) = GCI_NODE_SIZE + AreaSize(i)
    /\ size(3) = 0
    /\ AreaSize(1) = GCI_DISPLAY_CHAR_SIZE + DISPLAY_WIDTH * DISPLAY_HEIGHT
<1> USE DEF GCI_KMC_NUM, GCI_DISPLAY_NUM, GCI_MMCC_NUM, GCI_NODE_MAX
<1>1. DISPLAY_WIDTH * DISPLAY_HEIGHT \in Nat
    BY DisplayAssumption
<1>2. /\ AreaSize(0) = GCI_KMC_AREA_SIZE /\ AreaSize(2) = GCI_MMCC_AREA_SIZE
      /\ AreaSize(1) = GCI_DISPLAY_CHAR_SIZE + DISPLAY_WIDTH * DISPLAY_HEIGHT
    BY DEF AreaSize
<1>3. AreaSize(0) \in Nat \ {0} /\ AreaSize(1) \in Nat \ {0} /\ AreaSize(2) \in Nat \ {0}
    BY <1>1, <1>2, GciAssumption
<1> QED BY <1>2, <1>3 DEF size

\* The sizes as numbers, which is all the decoder's arithmetic needs.
LEMMA Numbers ==
    /\ DPS_SIZE \in Nat /\ GCI_HUB_SIZE \in Nat \ {0} /\ GCI_NODE_SIZE \in Nat \ {0}
    /\ GCI_NODE_IRF_OFFSET \in 1 .. GCI_NODE_SIZE - 1
    /\ DPS_UTIM64_SIZE \in Nat /\ DPS_UTIM64_SIZE <= DPS_SIZE
BY DpsAssumption, GciAssumption

LEMMA Starts ==
    /\ Start(0) = DPS_SIZE + GCI_HUB_SIZE
    /\ \A i \in 0 .. 2 : Start(i) \in Nat /\ Start(i + 1) = Start(i) + size(i)
    /\ Start(3) \in Nat
BY Sizes, Numbers DEF Start

\* An offset among the words of a node is found at that node.
LEMMA NodeFound ==
    ASSUME NEW i \in 0 .. 2, NEW offset \in Nat,
           Start(i) <= offset, offset < Start(i) + size(i)
    PROVE  NodeAt(offset) = i
<1>1. \A j \in 0 .. 2 : /\ Start(j) \in Nat /\ size(j) \in Nat /\ size(j) > GCI_NODE_SIZE
                        /\ Start(j + 1) = Start(j) + size(j)
    BY Starts, Sizes, Numbers
<1>2. \A j \in 0 .. 2 : Passed(offset, j) <=> offset >= Start(j + 1)
    BY <1>1, Numbers DEF Passed
<1>3. /\ Start(1) <= Start(2) /\ Start(2) <= Start(3)
      /\ Start(1) \in Nat /\ Start(2) \in Nat /\ Start(3) \in Nat
    BY <1>1, Starts, Numbers
<1>4. ~Passed(offset, i) /\ \A j \in 0 .. i - 1 : Passed(offset, j)
    <2>1. CASE i = 0
        BY <2>1, <1>1, <1>2
    <2>2. CASE i = 1
        BY <2>2, <1>1, <1>2, <1>3
    <2>3. CASE i = 2
        BY <2>3, <1>1, <1>2, <1>3
    <2> QED BY <2>1, <2>2, <2>3
<1>5. \A n \in Node : ~Passed(offset, n) /\ (\A j \in 0 .. n - 1 : Passed(offset, j)) => n = i
    BY <1>4 DEF Node, GCI_NODE_MAX
<1>6. i \in Node
    BY DEF Node, GCI_NODE_MAX
<1> QED BY <1>4, <1>5, <1>6 DEF NodeAt

\* For each kind of target: where it is, what the decoder makes of it, and
\* which functions the documentation of the device gives it.
LEMMA DpsDecoded ==
    ASSUME NEW w \in 0 .. DPS_SIZE - 1
    PROVE  /\ Register(OffsetOf(Dps(w))) = Dps(w)
           /\ LoadCall(OffsetOf(Dps(w))) = Reader(Dps(w))
           /\ StoreCall(OffsetOf(Dps(w))) = Writer(Dps(w))
<1>1. OffsetOf(Dps(w)) = w
    BY DEF OffsetOf, Dps
<1>2. w \in Nat /\ w < DPS_SIZE /\ ~InGci(w)
    BY Numbers DEF InGci
<1>3. Register(w) = Dps(w)
    BY <1>2 DEF Register
<1>4. LoadCall(w) = Reader(Dps(w))
    <2>1. CASE w < DPS_UTIM64_SIZE
        BY <2>1, DpsAssumption DEF LoadCall, Reader, Dps
    <2>2. CASE ~(w < DPS_UTIM64_SIZE)
        BY <1>2, <2>2, DpsAssumption DEF LoadCall, Reader, Dps
    <2> QED BY <2>1, <2>2
<1>5. StoreCall(w) = Writer(Dps(w))
    <2>1. CASE w < DPS_UTIM64_SIZE
        BY <2>1, DpsAssumption DEF StoreCall, Writer, Dps
    <2>2. CASE ~(w < DPS_UTIM64_SIZE)
        BY <1>2, <2>2, DpsAssumption DEF StoreCall, Writer, Dps
    <2> QED BY <2>1, <2>2
<1> QED BY <1>1, <1>3, <1>4, <1>5

LEMMA HubDecoded ==
    ASSUME NEW w \in 0 .. GCI_HUB_SIZE - 1
    PROVE  /\ Register(OffsetOf(Hub(w))) = Hub(w)
           /\ LoadCall(OffsetOf(Hub(w))) = Reader(Hub(w))
           /\ StoreCall(OffsetOf(Hub(w))) = Writer(Hub(w))
<1> DEFINE offset == DPS_SIZE + w
<1>1. OffsetOf(Hub(w)) = offset
    BY DEF OffsetOf, Hub
<1>2. /\ offset \in Nat
      /\ offset >= DPS_SIZE /\ offset < DPS_SIZE + GCI_HUB_SIZE /\ offset - DPS_SIZE = w
      /\ ~InGci(offset) /\ ~(offset < DPS_UTIM64_SIZE)
      /\ offset \notin {DPS_SCIRXD, DPS_LSFLAGS, DPS_SCITXD, DPS_SCICFG}
    BY Numbers, DpsAssumption DEF InGci
<1>3. Reader(Hub(w)) = NoCall /\ Writer(Hub(w)) = NoCall
    BY DEF Reader, Writer, Hub, Dps
<1> HIDE DEF offset
<1>4. Register(offset) = Hub(w)
    BY <1>2, Numbers DEF Register
<1>5. LoadCall(offset) = NoCall /\ StoreCall(offset) = NoCall
    BY <1>2 DEF LoadCall, StoreCall
<1> QED BY <1>1, <1>3, <1>4, <1>5

\* Behind the hub only the loop over the nodes decides.
LEMMA BehindHub ==
    ASSUME NEW i \in 0 .. 2, NEW offset \in Nat,
           Start(i) <= offset, offset < Start(i) + size(i)
    PROVE  /\ NodeAt(offset) = i
           /\ offset >= DPS_SIZE + GCI_HUB_SIZE
           /\ offset >= DPS_SIZE
           /\ ~(offset < DPS_UTIM64_SIZE)
           /\ offset \notin {DPS_SCIRXD, DPS_LSFLAGS, DPS_SCITXD, DPS_SCICFG}
           /\ InGci(offset) <=> offset # Start(0)
<1>1. NodeAt(offset) = i
    BY NodeFound
<1>2. /\ Start(0) = DPS_SIZE + GCI_HUB_SIZE
      /\ Start(1) >= Start(0) /\ Start(2) >= Start(0)
      /\ Start(0) \in Nat /\ Start(1) \in Nat /\ Start(2) \in Nat
    BY Starts, Sizes, Numbers
<1>3. offset >= DPS_SIZE + GCI_HUB_SIZE
    BY <1>2
<1> QED BY <1>1, <1>2, <1>3, Numbers, DpsAssumption DEF InGci

LEMMA InfoDecoded ==
    ASSUME NEW i \in 0 .. 2, NEW w \in 0 .. GCI_NODE_SIZE - 1
    PROVE  /\ Register(OffsetOf(Info(i, w))) = Info(i, w)
           /\ LoadCall(OffsetOf(Info(i, w))) = Reader(Info(i, w))
           /\ StoreCall(OffsetOf(Info(i, w))) = Writer(Info(i, w))
<1> DEFINE offset == Start(i) + w
<1>1. OffsetOf(Info(i, w)) = offset
    BY DEF OffsetOf, Info
<1>2. /\ Start(i) \in Nat /\ offset \in Nat
      /\ Start(i) <= offset /\ offset < Start(i) + size(i)
      /\ offset < Start(i) + GCI_NODE_SIZE
      /\ offset - Start(i) = w
      /\ offset = Start(i) + GCI_NODE_IRF_OFFSET <=> w = GCI_NODE_IRF_OFFSET
    BY Starts, Sizes, Numbers
<1>3. offset = Start(0) => w # GCI_NODE_IRF_OFFSET
    BY Starts, Sizes, Numbers
<1> HIDE DEF offset
<1>4. InInfo(offset) /\ NodeAt(offset) = i
    BY <1>2, BehindHub DEF InInfo
<1>5. Register(offset) = Info(i, w)
    BY <1>2, <1>4, BehindHub, Numbers DEF Register
<1>6. LoadCall(offset) = IF w = GCI_NODE_IRF_OFFSET THEN Call("int_issued", i) ELSE NoCall
    BY <1>2, <1>3, <1>4, BehindHub DEF LoadCall
<1>7. StoreCall(offset) = NoCall
    BY <1>2, <1>4, BehindHub DEF StoreCall
<1>8. /\ Reader(Info(i, w)) = IF w = GCI_NODE_IRF_OFFSET THEN Call("int_issued", i) ELSE NoCall
      /\ Writer(Info(i, w)) = NoCall
    BY DEF Reader, Writer, Info, Dps
<1> QED BY <1>1, <1>5, <1>6, <1>7, <1>8

LEMMA AreaDecoded ==
    ASSUME NEW i \in 0 .. 2, NEW w \in 0 .. AreaSize(i) - 1
    PROVE  /\ Register(OffsetOf(Area(i, w))) = Area(i, w)
           /\ LoadCall(OffsetOf(Area(i, w))) = Reader(Area(i, w))
           /\ StoreCall(OffsetOf(Area(i, w))) = Writer(Area(i, w))
<1> DEFINE offset == Start(i) + GCI_NODE_SIZE + w
<1>1. OffsetOf(Area(i, w)) = offset
    BY DEF OffsetOf, Area
<1>2. /\ Start(i) \in Nat /\ offset \in Nat
      /\ Start(i) <= offset /\ offset < Start(i) + size(i)
      /\ ~(offset < Start(i) + GCI_NODE_SIZE)
      /\ offset - (Start(i) + GCI_NODE_SIZE) = w
    BY Starts, Sizes, Numbers
<1>3. offset # Start(0)
    BY Starts, Sizes, Numbers
<1> HIDE DEF offset
<1>4. ~InInfo(offset) /\ NodeAt(offset) = i /\ AreaOffset(offset) = w
    BY <1>2, BehindHub DEF InInfo, AreaOffset
<1>5. Register(offset) = Area(i, w)
    BY <1>2, <1>4, BehindHub, Numbers DEF Register
<1>6. LoadCall(offset) = AreaCall(offset, Readers)
    BY <1>2, <1>3, <1>4, BehindHub DEF LoadCall
<1>7. StoreCall(offset) = AreaCall(offset, Writers)
    BY <1>2, <1>3, <1>4, BehindHub DEF StoreCall
<1>8. AreaCall(offset, Readers) = Reader(Area(i, w))
    BY <1>4 DEF AreaCall, Readers, Reader, Area, Dps, GCI_KMC_NUM, GCI_MMCC_NUM
<1>9. AreaCall(offset, Writers) = Writer(Area(i, w))
    BY <1>4 DEF AreaCall, Writers, Writer, Area, Dps, GCI_DISPLAY_NUM, GCI_MMCC_NUM
<1> QED BY <1>1, <1>5, <1>6, <1>7, <1>8, <1>9

LEMMA TargetDecoded ==
    ASSUME NEW t \in Target
    PROVE  /\ Register(OffsetOf(t)) = t
           /\ LoadCall(OffsetOf(t)) = Reader(t)
           /\ StoreCall(OffsetOf(t)) = Writer(t)
<1>1. \/ \E w \in 0 .. DPS_SIZE - 1 : t = Dps(w)
      \/ \E w \in 0 .. GCI_HUB_SIZE - 1 : t = Hub(w)
      \/ \E i \in 0 .. 2 : \/ \E w \in 0 .. GCI_NODE_SIZE - 1 : t = Info(i, w)
                          \/ \E w \in 0 .. AreaSize(i) - 1 : t = Area(i, w)
    BY DEF Target, GCI_KMC_NUM, GCI_DISPLAY_NUM, GCI_MMCC_NUM
<1> QED BY <1>1, DpsDecoded, HubDecoded, InfoDecoded, AreaDecoded

LEMMA AccessDecoded ==
    ASSUME NEW t \in Target
    PROVE  /\ Right(Loads[t])
           /\ Right(Stores[t]) /\ Stores[t].call = Writer(t)
<1>1. /\ Loads[t] = Access("load", t, LoadCall(OffsetOf(t)))
      /\ Stores[t] = Access("store", t, StoreCall(OffsetOf(t)))
    BY DEF Loads, Stores
<1>2. /\ Register(OffsetOf(t)) = t
      /\ LoadCall(OffsetOf(t)) = Reader(t)
      /\ StoreCall(OffsetOf(t)) = Writer(t)
    BY TargetDecoded
<1>3. Right(Loads[t])
    BY <1>1, <1>2 DEF Access, Right
<1>4. Right(Stores[t]) /\ Stores[t].call = Writer(t)
    BY <1>1, <1>2 DEF Access, Right
<1> QED BY <1>3, <1>4

(* For any sizes of the parts, a guest that aims at a word of a device     *)
(* reaches that word and its function, whichever of the three decoders     *)
(* runs, and no offset leads to the fourth node, which has no memory.      *)
THEOREM DecodersAgree == GciSpec => Decoded
<1>1. ASSUME GciExecute PROVE Right(access')
    <2>1. ASSUME NEW t \in Target, IoLoad(t) PROVE Right(access')
        BY <2>1, AccessDecoded DEF IoLoad
    <2>2. ASSUME NEW t \in Target, NEW c \in Color, IoStore(t, c) PROVE Right(access')
        BY <2>2, AccessDecoded DEF IoStore
    <2>3. CASE NoIo
        BY <2>3 DEF NoIo, Right
    <2> QED BY <1>1, <2>1, <2>2, <2>3 DEF GciExecute
<1>2. [GciNext]_gcivars /\ ~GciExecute => UNCHANGED access
    BY DEF GciNext, Uncut, GciScan, GciDisconnect, SendQueue, MethodSend, CutShort, GciPolled,
           GciDispatch, GciSigint, Goodbye, ClientLeaves, GciTerminated, gcivars
<1>3. Right(access) /\ [GciNext]_gcivars => Right(access)'
    BY <1>1, <1>2
<1>5. Right(access)' => [Right(access')]_gcivars
    OBVIOUS
<1>4. GciInit => Right(access)
    BY DEF GciInit, Right
<1> QED BY <1>3, <1>4, <1>5, PTL DEF GciSpec, Decoded

-----------------------------------------------------------------------------
(* Type correctness *)

\* A word of the bitmap is a pixel of the display.
LEMMA Quotient ==
    ASSUME NEW p \in Nat, NEW q \in Int, NEW r \in 0 .. DISPLAY_WIDTH - 1,
           p = DISPLAY_WIDTH * q + r, p < DISPLAY_WIDTH * DISPLAY_HEIGHT
    PROVE  q \in 0 .. DISPLAY_HEIGHT - 1
<1> USE DisplayAssumption
<1>1. q >= 0
    <2> SUFFICES ASSUME q <= -1 PROVE FALSE
        OBVIOUS
    <2>1. DISPLAY_WIDTH * q <= -DISPLAY_WIDTH
        OBVIOUS
    <2> QED BY <2>1
<1>2. q < DISPLAY_HEIGHT
    <2> SUFFICES ASSUME q >= DISPLAY_HEIGHT PROVE FALSE
        OBVIOUS
    <2>1. DISPLAY_WIDTH * q >= DISPLAY_WIDTH * DISPLAY_HEIGHT
        OBVIOUS
    <2> QED BY <2>1
<1> QED BY <1>1, <1>2

LEMMA PixelTypes ==
    ASSUME NEW p \in Nat, p < DISPLAY_WIDTH * DISPLAY_HEIGHT, NEW c \in Color
    PROVE  PixelAt(p, c) \in Pixel
<1>1. p = DISPLAY_WIDTH * (p \div DISPLAY_WIDTH) + (p % DISPLAY_WIDTH)
    BY DisplayAssumption
<1>2. p \div DISPLAY_WIDTH \in Int /\ p % DISPLAY_WIDTH \in 0 .. DISPLAY_WIDTH - 1
    BY DisplayAssumption
<1>3. p \div DISPLAY_WIDTH \in 0 .. DISPLAY_HEIGHT - 1
    BY <1>1, <1>2, Quotient
<1> QED BY <1>2, <1>3 DEF PixelAt, Pixel

\* Only a store to the bitmap queues a pixel, one of the display.
LEMMA StoreDraws ==
    ASSUME NEW t \in Target, NEW c \in Color, IoStore(t, c)
    PROVE  UNCHANGED draws \/ \E pixel \in Pixel : QueueDraw(pixel)
<1> DEFINE call == Stores[t].call
<1>1. CASE call.function # "gci_display_write"
    BY <1>1 DEF IoStore
<1>2. CASE call.function = "gci_display_write"
    <2>1. call = Writer(t)
        BY AccessDecoded
    <2>2. \/ \E w \in 0 .. DPS_SIZE - 1 : t = Dps(w)
          \/ \E w \in 0 .. GCI_HUB_SIZE - 1 : t = Hub(w)
          \/ \E i \in 0 .. 2 : \/ \E w \in 0 .. GCI_NODE_SIZE - 1 : t = Info(i, w)
                              \/ \E w \in 0 .. AreaSize(i) - 1 : t = Area(i, w)
        BY DEF Target, GCI_KMC_NUM, GCI_DISPLAY_NUM, GCI_MMCC_NUM
    <2>3. t.part = "area" /\ t.node = 1
        BY <1>2, <2>1, <2>2 DEF Writer, Call, NoCall, Dps, Hub, Info, Area,
                                GCI_DISPLAY_NUM, GCI_MMCC_NUM
    <2>4. PICK w \in 0 .. AreaSize(1) - 1 : t = Area(1, w)
        BY <2>2, <2>3 DEF Dps, Hub, Info, Area
    <2>5. call.word = w
        BY <2>1, <2>4 DEF Writer, Call, Dps, Area, GCI_DISPLAY_NUM, GCI_MMCC_NUM
    <2>6. DisplayWrite(w, c)
        BY <1>2, <2>5 DEF IoStore
    <2>7. CASE w < GCI_DISPLAY_CHAR_SIZE
        BY <2>6, <2>7 DEF DisplayWrite
    <2>8. CASE ~(w < GCI_DISPLAY_CHAR_SIZE)
        <3>1. QueueDraw(PixelAt(w - GCI_DISPLAY_CHAR_SIZE, c))
            BY <2>6, <2>8 DEF DisplayWrite
        <3>2. /\ w - GCI_DISPLAY_CHAR_SIZE \in Nat
              /\ w - GCI_DISPLAY_CHAR_SIZE < DISPLAY_WIDTH * DISPLAY_HEIGHT
            BY <2>8, Sizes, GciAssumption, DisplayAssumption
        <3> QED BY <3>1, <3>2, PixelTypes
    <2> QED BY <2>7, <2>8
<1> QED BY <1>1, <1>2

LEMMA ExecuteDraws == GciExecute => UNCHANGED draws \/ \E pixel \in Pixel : QueueDraw(pixel)
<1> SUFFICES ASSUME GciExecute
             PROVE  UNCHANGED draws \/ \E pixel \in Pixel : QueueDraw(pixel)
    OBVIOUS
<1>1. ASSUME NEW t \in Target, IoLoad(t) PROVE UNCHANGED draws
    BY <1>1 DEF IoLoad
<1>2. ASSUME NEW t \in Target, NEW c \in Color, IoStore(t, c)
      PROVE  UNCHANGED draws \/ \E pixel \in Pixel : QueueDraw(pixel)
    BY <1>2, StoreDraws
<1>3. NoIo => UNCHANGED draws
    BY DEF NoIo
<1>4. \/ \E t \in Target : IoLoad(t) \/ \E c \in Color : IoStore(t, c)
      \/ NoIo
    BY DEF GciExecute
<1> QED BY <1>1, <1>2, <1>3, <1>4, Zenon

\* What waits to be sent grows by the pixel.
LEMMA DrawAppends ==
    ASSUME DisplayTypeOK, NEW pixel \in Pixel, QueueDraw(pixel)
    PROVE  /\ draw_queue' \in Seq(Pixel) /\ Len(draw_queue') < DISPLAY_WIDTH
           /\ draw_sbuf' \in Seq(Pixel)
           /\ draw_pk' \in BOOLEAN
           /\ Unsent' = Append(Unsent, pixel)
           /\ (draw_pk => draw_sbuf # <<>>) => (draw_pk' => draw_sbuf' # <<>>)
<1> DEFINE pixels == Append(draw_queue, pixel)
<1> USE DEF DisplayTypeOK
<1>1. pixels \in Seq(Pixel) /\ Len(pixels) = Len(draw_queue) + 1
    OBVIOUS
<1>2. draw_sbuf \o pixels = Append(draw_sbuf \o draw_queue, pixel)
    OBVIOUS
<1>3. <<>> \o pixels = pixels /\ <<>> \o draw_queue = draw_queue
      /\ \A s \in Seq(Pixel) : s \o <<>> = s
    BY <1>1
<1>4. CASE Full(pixels)
    <2>1. draw_sbuf' = Packed(pixels) /\ draw_pk' = TRUE /\ draw_queue' = <<>>
        BY <1>4 DEF QueueDraw
    <2>2. Packed(pixels) \in Seq(Pixel) /\ Packed(pixels) # <<>>
        <3>1. draw_sbuf \o pixels \in Seq(Pixel)
              /\ Len(draw_sbuf \o pixels) = Len(draw_sbuf) + Len(pixels)
            BY <1>1
        <3>2. draw_sbuf \o pixels # <<>> /\ pixels # <<>>
            BY <1>1, <3>1
        <3> HIDE DEF pixels
        <3> QED BY <1>1, <3>1, <3>2 DEF Packed
    <2>3. Unsent' = Packed(pixels)
        BY <2>1, <2>2, <1>3 DEF Unsent
    <2>4. Packed(pixels) = Append(Unsent, pixel)
        BY <1>2, <1>3 DEF Packed, Unsent
    <2>5. <<>> \in Seq(Pixel) /\ Len(<<>>) < DISPLAY_WIDTH
        BY DisplayAssumption
    <2> QED BY <2>1, <2>2, <2>3, <2>4, <2>5
<1>5. CASE ~Full(pixels)
    <2>1. draw_queue' = pixels /\ UNCHANGED <<draw_sbuf, draw_pk>>
        BY <1>5 DEF QueueDraw
    <2>2. Len(pixels) < DISPLAY_WIDTH
        BY <1>1, <1>5, DisplayAssumption DEF Full
    <2>3. Unsent' = Append(Unsent, pixel)
        BY <2>1, <1>2, <1>3 DEF Unsent
    <2> QED BY <2>1, <2>2, <2>3, <1>1
<1> QED BY <1>4, <1>5

LEMMA GciInitTypes == GciInit => DisplayTypeOK
<1> SUFFICES ASSUME GciInit PROVE DisplayTypeOK
    OBVIOUS
<1>1. <<>> \in Seq(Pixel) /\ Len(<<>>) = 0
    OBVIOUS
<1>2. draw_queue = <<>> /\ draw_sbuf = <<>> /\ clk = 0
    BY DEF GciInit
<1>3. /\ draw_queue \in Seq(Pixel) /\ Len(draw_queue) < DISPLAY_WIDTH
      /\ draw_sbuf \in Seq(Pixel) /\ clk \in 0 .. INTERVAL - 1
    BY <1>1, <1>2, DisplayAssumption
<1>4. draw_pk = FALSE /\ stage = "receive" /\ client = "watching" /\ reset = FALSE
      /\ killed = FALSE /\ cut = FALSE
    BY DEF GciInit
<1> QED BY <1>3, <1>4 DEF DisplayTypeOK

LEMMA GciNextTypes == DisplayTypeOK /\ [GciNext]_gcivars => DisplayTypeOK'
<1> SUFFICES ASSUME DisplayTypeOK, [GciNext]_gcivars PROVE DisplayTypeOK'
    OBVIOUS
<1> USE DEF DisplayTypeOK
<1>0. cut' \in BOOLEAN
    BY DEF GciNext, CutShort, GciSigint, GciTerminated, gcivars
<1> USE <1>0
<1>1. CASE UNCHANGED gcivars \/ GciTerminated
    BY <1>1 DEF gcivars, draws, connection, GciTerminated
<1>2. CASE GciExecute
    <2>1. UNCHANGED <<clk, stage, client, reset, killed>>
        BY <1>2 DEF GciExecute, connection
    <2>2. UNCHANGED draws \/ \E pixel \in Pixel : QueueDraw(pixel)
        BY <1>2, ExecuteDraws
    <2>3. CASE UNCHANGED draws
        BY <2>1, <2>3 DEF draws
    <2>4. CASE \E pixel \in Pixel : QueueDraw(pixel)
        BY <2>1, <2>4, DrawAppends
    <2> QED BY <2>2, <2>3, <2>4
<1>3. CASE (\E c \in Scancode : GciScan(c)) \/ GciDisconnect
    BY <1>3 DEF GciScan, GciDisconnect, draws, connection
<1>4. CASE SendQueue
    <2>1. Packed(draw_queue) \in Seq(Pixel)
        BY DEF Packed
    <2>2. UNCHANGED <<draw_pk, clk, client, reset, killed>> /\ stage' \in {"writing", "sent"}
        BY <1>4 DEF SendQueue, connection
    <2>3. /\ draw_queue' \in Seq(Pixel) /\ Len(draw_queue') < DISPLAY_WIDTH
          /\ draw_sbuf' \in Seq(Pixel)
        <3>1. <<>> \in Seq(Pixel) /\ Len(<<>>) < DISPLAY_WIDTH
            BY DisplayAssumption
        <3> QED BY <1>4, <2>1, <3>1 DEF SendQueue
    <2> QED BY <2>2, <2>3
<1>5. CASE MethodSend \/ CutShort
    BY <1>5 DEF MethodSend, CutShort, SendEnds, Unheard
<1>6. CASE GciPolled
    BY <1>6 DEF GciPolled, draws, connection
<1>7. CASE GciDispatch
    BY <1>7, DisplayAssumption DEF GciDispatch, draws, connection
<1>8. CASE GciSigint
    BY <1>8 DEF GciSigint, SendDisconnect, SendEnds, Unheard, draws
<1>9. CASE Goodbye \/ ClientLeaves
    BY <1>9 DEF Goodbye, ClientLeaves, SendDisconnect, Unheard, draws
<1> QED BY <1>1, <1>2, <1>3, <1>4, <1>5, <1>6, <1>7, <1>8, <1>9 DEF GciNext, Uncut

(* For a display and a ring of any size, the array of the draw queue is    *)
(* never written past its end, every pixel lies on the display, and the    *)
(* ring's indices in the ring.                                             *)
THEOREM GciTypes == GciSpec => []GciTypeOK
<1>1. GciSpec => []TypeOK
    BY KeyboardInside, TypeCorrect, PTL
<1> QED BY <1>1, GciInitTypes, GciNextTypes, PTL DEF GciSpec, GciTypeOK

-----------------------------------------------------------------------------
(* The queue between two polls *)

\* How many pixels the guest can have stored since the last poll.
Stored == CASE phase = "poll" -> IF clk # 0 THEN clk
                                 ELSE IF stage = "sent" THEN 0 ELSE INTERVAL
            [] phase = "dispatch" -> clk
            [] OTHER -> IF clk = 0 THEN INTERVAL - 1 ELSE clk - 1

\* Where a send can be, what it sends, and how much waits.
Waiting == /\ draw_pk => draw_sbuf # <<>>
           /\ stage = "writing" => draw_pk /\ draw_queue = <<>>
           /\ stage \in {"writing", "sent"} => phase = "poll" /\ clk = 0
           /\ stage = "gone" => phase = "done"
           /\ Len(Unsent) < DISPLAY_WIDTH + Stored

GciInv == TypeOK /\ DisplayTypeOK /\ Waiting

LEMMA UnsentTypes == DisplayTypeOK => Unsent \in Seq(Pixel)
BY DEF DisplayTypeOK, Unsent

LEMMA UnsentKept == UNCHANGED draws => UNCHANGED Unsent
BY DEF draws, Unsent

LEMMA GciInitInv == GciInit => GciInv
<1> SUFFICES ASSUME GciInit PROVE Waiting
    BY InitTypes, GciInitTypes DEF GciInit, GciInv
<1>1. draw_pk = FALSE /\ draw_queue = <<>> /\ stage = "receive" /\ phase = "execute" /\ clk = 0
    BY DEF GciInit, Init
<1>2. Unsent = <<>>
    BY <1>1 DEF Unsent
<1>3. Stored = INTERVAL - 1
    BY <1>1 DEF Stored
<1> QED BY <1>1, <1>2, <1>3, DisplayAssumption DEF Waiting

\* The message is sent, lost or cut: nothing waits any more.
LEMMA SendEmpties ==
    ASSUME GciInv, SendEnds
    PROVE  /\ Unsent = draw_sbuf /\ draw_sbuf # <<>>
           /\ Unsent' = <<>>
           /\ phase = "poll" /\ clk = 0 /\ stage' = "sent" /\ ~draw_pk'
<1>1. draw_pk /\ draw_queue = <<>> /\ phase = "poll" /\ clk = 0 /\ draw_sbuf # <<>>
    BY DEF SendEnds, GciInv, Waiting
<1>2. draw_pk' = FALSE /\ draw_queue' = <<>> /\ stage' = "sent"
    BY <1>1 DEF SendEnds
<1>3. draw_sbuf \in Seq(Pixel)
    BY DEF GciInv, DisplayTypeOK
<1> QED BY <1>1, <1>2, <1>3 DEF Unsent

LEMMA SendWaits ==
    ASSUME GciInv, SendEnds, UNCHANGED <<phase, clk>>
    PROVE  Waiting'
<1>1. /\ Unsent' = <<>> /\ phase' = "poll" /\ clk' = 0 /\ stage' = "sent" /\ ~draw_pk'
    BY SendEmpties
<1>2. Stored' = 0
    BY <1>1 DEF Stored
<1> QED BY <1>1, <1>2, DisplayAssumption DEF Waiting

LEMMA PackWaits ==
    ASSUME GciInv, SendQueue
    PROVE  Waiting' /\ Unsent' = Unsent
<1> USE DEF GciInv, DisplayTypeOK, Waiting
<1>1. phase = "poll" /\ clk = 0 /\ stage = "receive" /\ UNCHANGED <<phase, clk, draw_pk>>
    BY DEF SendQueue, Receiving, kmcvars, vars
<1>2. CASE Sendable
    <2>1. draw_pk /\ draw_sbuf' = draw_sbuf \o draw_queue /\ draw_queue' = <<>>
          /\ stage' = "writing"
        BY <1>2 DEF SendQueue, Sendable, Packed
    <2>2. /\ draw_sbuf \o draw_queue \in Seq(Pixel)
          /\ Len(draw_sbuf \o draw_queue) = Len(draw_sbuf) + Len(draw_queue)
          /\ Len(draw_sbuf) > 0
        BY <2>1
    <2>3. draw_sbuf \o draw_queue # <<>>
        BY <2>2
    <2>4. Unsent' = Unsent
        BY <1>1, <2>1, <2>2 DEF Unsent
    <2>5. Stored' = Stored
        BY <1>1, <2>1 DEF Stored
    <2> QED BY <1>1, <2>1, <2>3, <2>4, <2>5
<1>3. CASE ~Sendable
    <2>1. ~draw_pk /\ stage' = "sent" /\ UNCHANGED <<draw_queue, draw_sbuf>>
        BY <1>3 DEF SendQueue, Sendable
    <2>2. Unsent' = Unsent /\ Unsent = draw_queue
        BY <1>1, <2>1 DEF Unsent
    <2>3. Stored' = 0
        BY <1>1, <2>1 DEF Stored
    <2> QED BY <1>1, <2>1, <2>2, <2>3, DisplayAssumption
<1> QED BY <1>2, <1>3

LEMMA ExecuteWaits ==
    ASSUME GciInv, GciExecute
    PROVE  Waiting'
<1> USE DEF GciInv, DisplayTypeOK, Waiting
<1>1. phase = "execute" /\ phase' = "poll" /\ UNCHANGED <<clk, stage>>
    BY DEF GciExecute, Executes
<1>2. stage \notin {"writing", "sent", "gone"}
    BY <1>1
<1>3. Stored' = Stored + 1 /\ Stored \in Nat
    BY <1>1, <1>2, DisplayAssumption DEF Stored
<1>4. CASE UNCHANGED draws
    <2>1. Len(Unsent') = Len(Unsent) /\ Len(Unsent) \in Nat
        BY <1>4, UnsentKept, UnsentTypes
    <2>2. Len(Unsent') < DISPLAY_WIDTH + Stored'
        BY <1>3, <2>1, DisplayAssumption
    <2> QED BY <1>1, <1>2, <1>4, <2>2 DEF draws
<1>5. ASSUME NEW pixel \in Pixel, QueueDraw(pixel) PROVE Waiting'
    <2>1. Unsent' = Append(Unsent, pixel) /\ (draw_pk' => draw_sbuf' # <<>>)
        BY <1>5, DrawAppends
    <2>2. Len(Unsent') = Len(Unsent) + 1
        BY <2>1, UnsentTypes
    <2> QED BY <1>1, <1>2, <1>3, <2>1, <2>2, UnsentTypes, DisplayAssumption
<1> QED BY <1>4, <1>5, ExecuteDraws

LEMMA GciNextWaiting ==
    ASSUME GciInv, [GciNext]_gcivars
    PROVE  Waiting'
<1> USE DEF GciInv, DisplayTypeOK, Waiting
<1>0. UNCHANGED <<draws, phase, clk, stage>> => Waiting'
    BY UnsentKept DEF draws, Stored
<1>1. CASE UNCHANGED gcivars \/ GciTerminated
    BY <1>0, <1>1 DEF gcivars, kmcvars, vars, GciTerminated
<1>2. CASE GciExecute
    BY <1>2, ExecuteWaits
<1>3. CASE (\E c \in Scancode : GciScan(c)) \/ GciDisconnect
    BY <1>0, <1>3 DEF GciScan, GciDisconnect, Scan, Disconnect
<1>4. CASE SendQueue
    BY <1>4, PackWaits
<1>5. CASE MethodSend \/ CutShort
    BY <1>5, SendWaits DEF MethodSend, CutShort, kmcvars, vars
<1>6. CASE GciPolled
    <2>1. /\ UNCHANGED <<draws, clk>> /\ stage' = "receive"
          /\ phase = "poll" /\ phase' = "dispatch" /\ (clk = 0 => stage = "sent")
        BY <1>6 DEF GciPolled, Polled
    <2>2. Stored' = Stored
        BY <2>1 DEF Stored
    <2> QED BY <2>1, <2>2, UnsentKept DEF draws
<1>7. CASE GciDispatch
    <2>1. /\ UNCHANGED <<draws, stage>> /\ phase = "dispatch" /\ phase' \in {"execute", "done"}
          /\ clk' = IF clk + 1 = INTERVAL THEN 0 ELSE clk + 1
        BY <1>7 DEF GciDispatch, Dispatch
    <2>2. Stored' = Stored
        BY <2>1, DisplayAssumption DEF Stored
    <2> QED BY <2>1, <2>2, UnsentKept DEF draws
<1>8. CASE GciSigint
    <2>1. UNCHANGED <<phase, clk>>
        BY <1>8 DEF GciSigint, Sigint
    <2> QED BY <1>0, <1>8, <2>1, SendWaits DEF GciSigint
<1>9. CASE Goodbye
    <2>1. UNCHANGED <<draws, phase, clk>> /\ phase = "done" /\ stage' = "gone"
        BY <1>9 DEF Goodbye, kmcvars, vars
    <2>2. Stored' = Stored
        BY <2>1 DEF Stored
    <2> QED BY <2>1, <2>2, UnsentKept DEF draws
<1>10. CASE ClientLeaves
    BY <1>0, <1>10 DEF ClientLeaves, kmcvars, vars
<1> QED BY <1>1, <1>2, <1>3, <1>4, <1>5, <1>6, <1>7, <1>8, <1>9, <1>10 DEF GciNext, Uncut

LEMMA GciNextInv == GciInv /\ [GciNext]_gcivars => GciInv'
BY GciStep, NextTypes, GciNextTypes, GciNextWaiting DEF GciInv

(* For any interval of the poll and any width of the display, less than a  *)
(* row of pixels waits after a poll, and never more than a row and what    *)
(* the guest stored since.                                                 *)
THEOREM BacklogBounded == GciSpec => []Backlog
<1>1. GciInv => Backlog
    <2> SUFFICES ASSUME GciInv PROVE Backlog
        OBVIOUS
    <2>1. Len(Unsent) < DISPLAY_WIDTH + Stored /\ Len(Unsent) \in Nat /\ clk \in 0 .. INTERVAL - 1
        BY UnsentTypes DEF GciInv, Waiting, DisplayTypeOK
    <2>2. Stored \in Nat /\ Stored <= INTERVAL
        BY <2>1, DisplayAssumption DEF Stored
    <2>3. phase = "dispatch" /\ clk = 0 => Stored = 0
        BY DEF Stored
    <2> QED BY <2>1, <2>2, <2>3, DisplayAssumption DEF Backlog
<1> QED BY <1>1, GciInitInv, GciNextInv, PTL DEF GciSpec

-----------------------------------------------------------------------------
(* The client gets the pixels in order *)

LEMMA SendDelivers ==
    ASSUME GciInv, SendEnds
    PROVE  /\ client = "watching" /\ client' = client /\ shown' = draw_sbuf
                 => Pixels!Deliver
           /\ shown' = shown /\ client' = client /\ (client # "watching" \/ cut')
                 => Pixels!Lose
           /\ shown' = shown /\ cut' /\ client # "closed" /\ client' = "confused"
                 => Pixels!Lose
BY SendEmpties DEF Pixels!Deliver, Pixels!Lose

LEMMA DisconnectRests ==
    ASSUME SendDisconnect, UNCHANGED draws
    PROVE  Pixels!Leave \/ Pixels!Rest
BY UnsentKept DEF SendDisconnect, Pixels!Leave, Pixels!Rest

LEMMA PixelStep == GciInv /\ [GciNext]_gcivars => Pixels!Next
<1> SUFFICES ASSUME GciInv, [GciNext]_gcivars
             PROVE  Pixels!Next
    OBVIOUS
<1>0. cut' \in BOOLEAN
    BY GciNextTypes DEF GciInv, DisplayTypeOK
<1> USE <1>0 DEF Pixels!Next
<1>1. UNCHANGED <<draws, client, shown>> => Pixels!Rest
    BY UnsentKept DEF Pixels!Rest
<1>2. CASE UNCHANGED gcivars \/ GciTerminated
    BY <1>1, <1>2 DEF gcivars, connection, GciTerminated
<1>3. CASE GciExecute
    <2>1. UNCHANGED <<client, shown>>
        BY <1>3 DEF GciExecute, connection
    <2>2. ASSUME NEW pixel \in Pixel, QueueDraw(pixel) PROVE Pixels!Draw(pixel)
        BY <2>1, <2>2, DrawAppends DEF Pixels!Draw, GciInv
    <2> QED BY <1>1, <1>3, <2>1, <2>2, ExecuteDraws
<1>4. CASE (\E c \in Scancode : GciScan(c)) \/ GciDisconnect \/ GciPolled \/ GciDispatch
    BY <1>1, <1>4 DEF GciScan, GciDisconnect, GciPolled, GciDispatch, connection
<1>5. CASE SendQueue
    BY <1>5, PackWaits DEF SendQueue, connection, Pixels!Rest
<1>6. CASE MethodSend
    BY <1>6, SendDelivers DEF MethodSend
<1>7. CASE CutShort
    BY <1>7, SendDelivers DEF CutShort
<1>8. CASE GciSigint
    <2>1. CASE SendDisconnect /\ UNCHANGED draws
        BY <2>1, DisconnectRests
    <2>2. CASE SendEnds /\ cut' = TRUE /\ client # "closed" /\ client' = "confused"
               /\ UNCHANGED shown
        BY <2>2, SendDelivers
    <2> QED BY <1>8, <2>1, <2>2 DEF GciSigint
<1>9. CASE Goodbye
    BY <1>9, DisconnectRests DEF Goodbye
<1>10. CASE ClientLeaves
    BY <1>10, UnsentKept DEF ClientLeaves, Pixels!Leave
<1> QED BY <1>2, <1>3, <1>4, <1>5, <1>6, <1>7, <1>8, <1>9, <1>10 DEF GciNext, Uncut

(* For a display of any size and any interval of the poll, what the client *)
(* gets is what the guest stored, in order, each pixel once; while it      *)
(* watches, only a send that a signal cuts short loses its batch.          *)
THEOREM PixelsInOrder == GciSpec => PixelSpec
<1>1. GciInit => Pixels!Init
    BY DEF GciInit, Pixels!Init, Unsent
<1> QED BY <1>1, GciInitInv, GciNextInv, PixelStep, PTL
        DEF GciSpec, PixelSpec, Pixels!Spec
=============================================================================
