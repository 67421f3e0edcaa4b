---------------------------- MODULE Utim64Proofs ----------------------------
(***************************************************************************)
(* Proofs about Utim64 for any number of units and channels.               *)
(***************************************************************************)
EXTENDS Utim64, TLAPS

-----------------------------------------------------------------------------
(* Type correctness *)

LEMMA InitTypes == Init => TypeOK
BY Zenon DEF Init, TypeOK

LEMMA StartedType ==
    ASSUME TypeOK, NEW u \in Unit, NEW ena \in BOOLEAN
    PROVE  Started(u, ena) \in [Timer -> BOOLEAN]
BY Zenon DEF TypeOK, Started

LEMMA ExecuteTypes == TypeOK /\ Execute => TypeOK'
<1> SUFFICES ASSUME TypeOK, Execute PROVE TypeOK'
    OBVIOUS
<1>1. \A t \in Timer : t[1] \in Unit /\ <<t[1], 0>> \in Timer
    BY CCsAssumption DEF Timer, CC
<1>2. /\ phase' = "clear" /\ event' = "none"
      /\ utim64_flags' = utim64_flags
    BY DEF Execute
<1>3. CASE Write
    <2>1. UNCHANGED <<utim64_flags_clear, enabled, unseen>>
        BY <1>3 DEF Write
    <2>2. CASE \E u \in Unit, ena \in BOOLEAN : McfgrWrite(u, ena)
        <3>1. PICK u \in Unit, ena \in BOOLEAN : McfgrWrite(u, ena)
            BY <2>2
        <3>2. armed' \in [Timer -> BOOLEAN]
            BY <3>1, StartedType DEF McfgrWrite
        <3> QED BY <1>2, <2>1, <3>1, <3>2 DEF McfgrWrite, TypeOK
    <2>3. CASE \E t \in Timer, nonzero \in BOOLEAN : CcrWrite(t, nonzero)
        <3>1. PICK t \in Timer, nonzero \in BOOLEAN : CcrWrite(t, nonzero)
            BY <2>3
        <3>2. touched' \subseteq Timer
            BY <3>1 DEF CcrWrite, TypeOK
        <3>3. its' \in [Timer -> BOOLEAN]
            BY <3>1 DEF CcrWrite, TypeOK
        <3> QED BY <1>2, <2>1, <3>1, <3>2, <3>3 DEF CcrWrite, TypeOK
    <2>4. CASE \E t \in Timer, ena \in BOOLEAN : CccfgrWrite(t, ena)
        <3>1. PICK t \in Timer, ena \in BOOLEAN : CccfgrWrite(t, ena)
            BY <2>4
        <3>2. /\ utim64_enable[t[1]] \in BOOLEAN
              /\ its[<<t[1], 0>>] \in BOOLEAN
              /\ <<t[1], 0>> \in Timer
            BY <1>1 DEF TypeOK
        <3>3. touched' \subseteq Timer
            BY <3>1, <3>2 DEF CccfgrWrite, TypeOK
        <3>4. (ena /\ its[<<t[1], 0>>]) \in BOOLEAN
            BY <3>2, Zenon
        <3>5. armed' \in [Timer -> BOOLEAN]
            BY <3>1, <3>2, <3>4 DEF CccfgrWrite, TypeOK
        <3>6. ccena' \in [Timer -> BOOLEAN]
            BY <3>1 DEF CccfgrWrite, TypeOK
        <3> QED BY <1>2, <2>1, <3>1, <3>3, <3>5, <3>6 DEF CccfgrWrite, TypeOK
    <2> QED BY <1>3, <2>2, <2>3, <2>4 DEF Write
<1>4. CASE FlagsRead
    <2>1. utim64_flags_clear' \in BOOLEAN /\ unseen' \subseteq Timer
        BY <1>4, Zenon DEF FlagsRead
    <2> QED BY <1>2, <1>4, <2>1 DEF FlagsRead, TypeOK, registers
<1>5. CASE Elsewhere
    BY <1>2, <1>5 DEF Elsewhere, TypeOK, registers
<1> QED BY <1>3, <1>4, <1>5 DEF Execute

LEMMA DispatchTypes == TypeOK /\ (Clear \/ Test \/ PassedOver) => TypeOK'
<1>1. TypeOK /\ Clear => TypeOK'
    <2> SUFFICES ASSUME TypeOK, Clear PROVE TypeOK'
        OBVIOUS
    <2>1. utim64_flags' \subseteq Timer
        BY DEF Clear, Asked, Cleared, TypeOK
    <2>2. utim64_flags_clear' \in BOOLEAN
        BY Zenon DEF Clear
    <2> QED BY <2>1, <2>2 DEF Clear, TypeOK, registers
<1>2. TypeOK /\ Test => TypeOK'
    <2> SUFFICES ASSUME TypeOK, Test PROVE TypeOK'
        OBVIOUS
    <2>1. enabled' \in BOOLEAN
        BY Zenon DEF Test
    <2>2. event' \in {"none", "interrupt", "quiet"}
        BY DEF Test
    <2> QED BY <2>1, <2>2 DEF Test, TypeOK, registers
<1>3. TypeOK /\ PassedOver => TypeOK'
    BY DEF PassedOver, TypeOK, registers
<1> QED BY <1>1, <1>2, <1>3

LEMMA OtherTypes ==
    ASSUME TypeOK, FlagsWrite \/ (\E t \in Timer : Expire(t)) \/ UNCHANGED vars
    PROVE  TypeOK'
<1>1. CASE FlagsWrite
    BY <1>1 DEF FlagsWrite, TypeOK, registers
<1>2. CASE \E t \in Timer : Expire(t)
    BY <1>2 DEF Expire, Raised, TypeOK, registers
<1>3. CASE UNCHANGED vars
    BY <1>3 DEF vars, TypeOK, registers
<1> QED BY <1>1, <1>2, <1>3

LEMMA NextTypes == TypeOK /\ [Next]_vars => TypeOK'
BY ExecuteTypes, DispatchTypes, OtherTypes DEF Next, Cycle, Terminated

\* Every variable keeps its type, for any number of units and channels
\* (dps_utim64_write, dps_utim64_interrupt, dps_utim64_timer_sigalrm).
THEOREM TypeCorrect == Spec => []TypeOK
BY InitTypes, NextTypes, PTL DEF Spec

-----------------------------------------------------------------------------
(* Expiries *)

\* Only an expiry adds to "unseen", and it adds to the flags; only a clear
\* that was asked for takes flags away, and then nothing is unseen.
ExpiryInv == ExpiryKept /\ (utim64_flags_clear => unseen = {})

LEMMA ExpiryStands == Spec => []ExpiryInv
<1>1. Init => ExpiryInv
    BY DEF Init, ExpiryInv, ExpiryKept
<1>2. TypeOK /\ ExpiryInv /\ [Next]_vars => ExpiryInv'
    <2> SUFFICES ASSUME TypeOK, ExpiryInv, [Next]_vars PROVE ExpiryInv'
        OBVIOUS
    <2> USE DEF ExpiryInv, ExpiryKept
    <2>1. CASE Execute
        <3>1. utim64_flags' = utim64_flags
            BY <2>1 DEF Execute
        <3>2. CASE Write \/ Elsewhere
            BY <3>1, <3>2 DEF Write, Elsewhere
        <3>3. CASE FlagsRead
            BY <3>1, <3>3 DEF FlagsRead
        <3> QED BY <2>1, <3>2, <3>3 DEF Execute
    <2>2. CASE FlagsWrite \/ PassedOver \/ Test \/ UNCHANGED vars
        BY <2>2 DEF FlagsWrite, PassedOver, Test, vars
    <2>3. CASE Clear
        BY <2>3 DEF Clear, Asked, Cleared
    <2>4. CASE \E t \in Timer : Expire(t)
        BY <2>4 DEF Expire, Raised
    <2> QED BY <2>1, <2>2, <2>3, <2>4 DEF Next, Cycle, Terminated
<1> QED BY <1>1, <1>2, TypeCorrect, PTL DEF Spec

\* An expiry stays visible until the guest loads FLAGS, however the SIGALRMs
\* of any number of timers fall between the steps of the simulator
\* (dps_utim64_timer_sigalrm, dps_utim64_interrupt).
THEOREM ExpiriesKept == Spec => []ExpiryKept
<1>1. ExpiryInv => ExpiryKept
    BY DEF ExpiryInv
<1> QED BY <1>1, ExpiryStands, PTL

-----------------------------------------------------------------------------
(* Progress *)

Testing == phase = "test"
Noticed == event = "interrupt" \/ unseen = {}

\* As long as the loop has a next step, weak fairness of the cycle means that
\* it takes one: a SIGALRM only comes in between.
LEMMA CycleGoesOn ==
    FairSpec /\ []CanRun => [](phase # "exit" => <><<Cycle>>_vars)
<1>1. phase # "exit" /\ [Next]_vars => (phase # "exit")' \/ <<Cycle>>_vars
    BY DEF Next, Expire, Terminated, vars
<1> QED BY <1>1, PTL DEF FairSpec, Spec, CanRun

\* With interrupts enabled again and again, an expiry the guest has not seen
\* interrupts it, for any number of timers and whenever they expire: the clear
\* the dispatcher was asked for takes no unseen expiry with it
\* (dps_utim64_interrupt).  That the loop has a next step, CanRun, is assumed: it
\* holds by the shape of Cycle, but no prover here computes ENABLED.
THEOREM ExpiriesNoticed == FairSpec /\ []CanRun => ExpiryNoticed
<1>1. Asked /\ [Next]_vars => (Asked \/ Testing)'
    BY DEF Asked, Testing, Next, Cycle, Execute, FlagsWrite, Clear, Test, PassedOver,
           Expire, Terminated, vars
<1>2. Asked /\ <<Cycle>>_vars => Testing'
    BY DEF Asked, Testing, Cycle, Execute, FlagsWrite, Clear, Test, PassedOver
<1>3. ExpiryInv /\ Testing /\ [Next]_vars => (Testing \/ Noticed)'
    BY DEF ExpiryInv, ExpiryKept, Noticed, Testing, Next, Cycle, Execute, FlagsWrite,
           Asked, Clear, Test, PassedOver, Expire, Terminated, vars
<1>4. ExpiryInv /\ Testing /\ <<Cycle>>_vars => Noticed'
    BY DEF ExpiryInv, ExpiryKept, Noticed, Testing, Cycle, Execute, FlagsWrite, Asked,
           Clear, Test, PassedOver
<1>5. Asked \/ Testing => phase # "exit"
    BY DEF Asked, Testing
<1>6. FairSpec /\ []CanRun => (Asked ~> Testing)
    BY <1>1, <1>2, <1>5, CycleGoesOn, PTL DEF FairSpec, Spec
<1>7. FairSpec /\ []CanRun => (Testing ~> Noticed)
    BY <1>3, <1>4, <1>5, CycleGoesOn, ExpiryStands, PTL DEF FairSpec, Spec
<1>8. FairSpec /\ []CanRun /\ []<>Asked => (unseen # {} ~> Noticed)
    BY <1>6, <1>7, PTL
<1> QED BY <1>8, PTL DEF ExpiryNoticed, Noticed

-----------------------------------------------------------------------------
(* Programming *)

\* What ProgrammedTimers says of one timer.
InStep(t) == armed[t] <=> utim64_enable[t[1]] /\ ccena[t] /\ its[t]

LEMMA McfgrInStep ==
    ASSUME TypeOK, ProgrammedTimers, NEW u \in Unit, NEW ena \in BOOLEAN,
           McfgrWrite(u, ena), NEW t \in Timer \ touched'
    PROVE  InStep(t)'
<1>1. t[1] \in Unit
    BY DEF Timer
<1>2. /\ armed'[t] = IF t \in Switched(u, ena) THEN ena /\ its[t] ELSE armed[t]
      /\ ccena' = ccena /\ its' = its
      /\ touched' = touched \ Switched(u, ena)
    BY DEF McfgrWrite, Started
<1>3. utim64_enable'[t[1]] = IF t[1] = u THEN ena ELSE utim64_enable[t[1]]
    BY <1>1 DEF McfgrWrite, TypeOK
<1>4. /\ utim64_enable[t[1]] \in BOOLEAN /\ ccena[t] \in BOOLEAN
      /\ its[t] \in BOOLEAN /\ armed[t] \in BOOLEAN
    BY <1>1 DEF TypeOK
<1>5. CASE t \in Switched(u, ena)
    <2>1. t[1] = u /\ ccena[t]
        BY <1>5 DEF Switched
    <2> QED BY <1>2, <1>3, <1>4, <1>5, <2>1 DEF InStep
<1>6. CASE t \notin Switched(u, ena)
    <2>1. armed[t] <=> utim64_enable[t[1]] /\ ccena[t] /\ its[t]
        BY <1>2, <1>6 DEF ProgrammedTimers
    <2>2. CASE ccena[t] /\ t[1] = u
        <3>1. ena = utim64_enable[u]
            BY <1>6, <2>2 DEF Switched
        <3> QED BY <1>2, <1>3, <1>6, <2>1, <2>2, <3>1 DEF InStep
    <2>3. CASE t[1] # u
        BY <1>2, <1>3, <1>6, <2>1, <2>3 DEF InStep
    <2>4. CASE ~ccena[t]
        BY <1>2, <1>6, <2>1, <2>4 DEF InStep
    <2> QED BY <2>2, <2>3, <2>4
<1> QED BY <1>5, <1>6

LEMMA CcrInStep ==
    ASSUME TypeOK, ProgrammedTimers, NEW s \in Timer, NEW nonzero \in BOOLEAN,
           CcrWrite(s, nonzero), NEW t \in Timer \ touched'
    PROVE  InStep(t)'
<1>1. t \notin touched /\ (utim64_enable[s[1]] => t # s)
    BY DEF CcrWrite
<1>2. armed[t] <=> utim64_enable[t[1]] /\ ccena[t] /\ its[t]
    BY <1>1 DEF ProgrammedTimers
<1>3. t # s => its'[t] = its[t]
    BY DEF CcrWrite, TypeOK
<1>4. UNCHANGED <<utim64_enable, ccena, armed>>
    BY DEF CcrWrite
<1>5. CASE t = s
    BY <1>1, <1>2, <1>4, <1>5 DEF InStep
<1>6. CASE t # s
    BY <1>2, <1>3, <1>4, <1>6 DEF InStep
<1> QED BY <1>5, <1>6

LEMMA CccfgrInStep ==
    ASSUME TypeOK, ProgrammedTimers, NEW s \in Timer, NEW ena \in BOOLEAN,
           CccfgrWrite(s, ena), NEW t \in Timer \ touched'
    PROVE  InStep(t)'
<1>1. /\ t[1] \in Unit /\ s[1] \in Unit
      /\ <<s[1], 0>> \in Timer /\ s = <<s[1], s[2]>>
    BY CCsAssumption DEF Timer, CC
<1>2. /\ utim64_enable' = utim64_enable /\ its' = its
      /\ ccena'[t] = IF t = s THEN ena ELSE ccena[t]
    BY DEF CccfgrWrite, TypeOK
<1>3. /\ utim64_enable[t[1]] \in BOOLEAN /\ ccena[t] \in BOOLEAN
      /\ its[t] \in BOOLEAN /\ armed[t] \in BOOLEAN
    BY <1>1 DEF TypeOK
<1>4. CASE utim64_enable[s[1]] /\ ccena[s] # ena
    <2>1. armed' = [armed EXCEPT ![<<s[1], 0>>] = ena /\ its[<<s[1], 0>>]]
        BY <1>4 DEF CccfgrWrite
    <2>2. CASE t = s
        <3>1. s = <<s[1], 0>>
            BY <1>1, <1>4, <2>2 DEF CccfgrWrite
        <3>2. armed'[t] = (ena /\ its[t])
            BY <2>1, <2>2, <3>1 DEF TypeOK
        <3> QED BY <1>2, <1>4, <2>2, <3>2 DEF InStep
    <2>3. CASE t # s
        <3>1. t \notin touched /\ t # <<s[1], 0>>
            BY <1>1, <1>4, <2>3 DEF CccfgrWrite
        <3>2. armed'[t] = armed[t]
            BY <2>1, <3>1 DEF TypeOK
        <3>3. armed[t] <=> utim64_enable[t[1]] /\ ccena[t] /\ its[t]
            BY <3>1 DEF ProgrammedTimers
        <3> QED BY <1>2, <2>3, <3>2, <3>3 DEF InStep
    <2> QED BY <2>2, <2>3
<1>5. CASE ~(utim64_enable[s[1]] /\ ccena[s] # ena)
    <2>1. UNCHANGED <<armed, touched>>
        BY <1>5 DEF CccfgrWrite
    <2>2. armed[t] <=> utim64_enable[t[1]] /\ ccena[t] /\ its[t]
        BY <2>1 DEF ProgrammedTimers
    <2>3. CASE t = s /\ ~utim64_enable[s[1]]
        BY <1>2, <2>1, <2>2, <2>3 DEF InStep
    <2>4. CASE t # s \/ ccena[s] = ena
        BY <1>2, <2>1, <2>2, <2>4 DEF InStep
    <2> QED BY <1>5, <2>3, <2>4
<1> QED BY <1>4, <1>5

\* For any number of units and channels and any sequence of register writes, a
\* timer that no write to its running unit has set apart since the unit last
\* started or stopped its channel runs exactly if its registers say so.  Set
\* apart are the channel that was written and, when a channel was enabled or
\* disabled, timer 0, on which the code acts in its place
\* (dps_utim64_write, dps_utim64_cc_change).
THEOREM TimersProgrammed == Spec => []ProgrammedTimers
<1>1. Init => ProgrammedTimers
    <2> SUFFICES ASSUME Init, NEW t \in Timer
                 PROVE  armed[t] <=> utim64_enable[t[1]] /\ ccena[t] /\ its[t]
        BY DEF ProgrammedTimers
    <2>1. ~armed[t] /\ ~its[t]
        BY DEF Init
    <2> QED BY <2>1, Zenon
<1>2. TypeOK /\ ProgrammedTimers /\ [Next]_vars => ProgrammedTimers'
    <2> SUFFICES ASSUME TypeOK, ProgrammedTimers, [Next]_vars,
                        NEW t \in Timer, t \notin touched'
                 PROVE  InStep(t)'
        BY DEF ProgrammedTimers, InStep
    <2>1. CASE UNCHANGED registers
        BY <2>1 DEF ProgrammedTimers, InStep, registers
    <2>2. CASE Write
        BY <2>2, McfgrInStep, CcrInStep, CccfgrInStep DEF Write
    <2>3. CASE FlagsWrite \/ Clear \/ Test \/ PassedOver \/ (\E s \in Timer : Expire(s))
        BY <2>1, <2>3 DEF FlagsWrite, Clear, Test, PassedOver, Expire
    <2>4. CASE Execute
        <3>1. FlagsRead \/ Elsewhere => UNCHANGED registers
            BY DEF FlagsRead, Elsewhere
        <3> QED BY <2>1, <2>2, <2>4, <3>1 DEF Execute
    <2>5. CASE UNCHANGED vars
        BY <2>1, <2>5 DEF vars
    <2> QED BY <2>3, <2>4, <2>5 DEF Next, Cycle, Terminated
<1> QED BY <1>1, <1>2, TypeCorrect, PTL DEF Spec

-----------------------------------------------------------------------------
(* The timers as the dispatcher sees them *)

LineWants == ~utim64_flags_clear /\ utim64_flags # {}
LineTurn  == IF phase = "execute" THEN "guest" ELSE "simulator"

\* Between the two halves of the answer no clear is pending.
ClearDone == phase = "test" => ~utim64_flags_clear

LEMMA NextClearDone == ClearDone /\ [Next]_vars => ClearDone'
<1> SUFFICES ASSUME ClearDone, [Next]_vars PROVE ClearDone'
    OBVIOUS
<1> USE DEF ClearDone
<1>1. CASE Execute \/ FlagsWrite \/ Test \/ PassedOver
    BY <1>1 DEF Execute, FlagsWrite, Test, PassedOver
<1>2. CASE Clear
    BY <1>2 DEF Clear
<1>3. CASE (\E t \in Timer : Expire(t)) \/ UNCHANGED vars
    BY <1>3 DEF Expire, vars
<1> QED BY <1>1, <1>2, <1>3 DEF Next, Cycle, Terminated

\* A step that asks nothing is a change of the line if it takes no request
\* back, or if it is the guest's.
LEMMA LineChanges ==
    ASSUME event' \in {"none", event}, phase = "execute" \/ (LineWants => LineWants')
    PROVE  Line!Next
<1>1. LineTurn' \in {"guest", "simulator"} /\ LineWants' \in BOOLEAN
    BY DEF LineTurn, LineWants
<1>2. LineWants /\ ~LineWants' => LineTurn = "guest"
    BY DEF LineTurn
<1> QED BY <1>1, <1>2 DEF Line!Next, Line!Change, LineWants, LineTurn

LEMMA LineSteps == ClearDone /\ [Next]_vars => [Line!Next]_(Line!vars)
<1> SUFFICES ASSUME ClearDone, [Next]_vars
             PROVE  Line!Next \/ UNCHANGED Line!vars
    OBVIOUS
<1>1. CASE UNCHANGED vars
    BY <1>1 DEF vars, Line!vars
<1>2. CASE Execute
    BY <1>2, LineChanges DEF Execute
<1>3. CASE FlagsWrite \/ PassedOver
    BY <1>3, LineChanges DEF FlagsWrite, PassedOver, LineWants
<1>4. CASE Clear
    BY <1>4, LineChanges DEF Clear, Cleared, LineWants
<1>5. CASE Test
    <2>1. /\ LineTurn = "simulator" /\ LineTurn' \in {"guest", "simulator"}
          /\ LineWants <=> utim64_flags # {}
          /\ UNCHANGED <<utim64_flags, utim64_flags_clear>>
        BY <1>5 DEF Test, ClearDone, LineTurn, LineWants
    <2>2. CASE utim64_flags # {}
        BY <1>5, <2>1, <2>2
           DEF Test, Line!Next, Line!Ask, Line!Interrupt, LineTurn, LineWants
    <2>3. CASE utim64_flags = {}
        BY <1>5, <2>1, <2>3
           DEF Test, Line!Next, Line!Ask, Line!Quiet, LineTurn, LineWants
    <2> QED BY <2>2, <2>3
<1>6. ASSUME NEW t \in Timer, Expire(t) PROVE Line!Next
    BY <1>6, LineChanges DEF Expire, Raised, LineWants
<1> QED BY <1>1, <1>2, <1>3, <1>4, <1>5, <1>6 DEF Next, Cycle, Terminated

\* For any number of timers they are what the dispatcher takes them for: the
\* answer is TRUE exactly if an expiry stands that no load of FLAGS has
\* claimed, though a signal may come in the middle of it, and only the guest
\* takes the request back (dps_utim64_interrupt).
THEOREM TimersAreLine == Spec => TimerLine
<1>1. Init => Line!Init /\ ClearDone
    BY DEF Init, Line!Init, ClearDone
<1> QED BY <1>1, LineSteps, NextClearDone, PTL DEF Spec, TimerLine, Line!Spec
=============================================================================
