------------------------------- MODULE Utim64 -------------------------------
(***************************************************************************)
(* The interval timers of dps.c: units A and B with their compare channels *)
(* (CC), each of which drives one POSIX timer.  An expiry is a SIGALRM     *)
(* that sets a bit of utim64_flags at any moment; the device interrupts as *)
(* long as a bit is set, and a guest's load of FLAGS clears them, but only *)
(* when the dispatcher next asks the device.                               *)
(*                                                                         *)
(* A cycle is one guest instruction and the dispatcher, in which the       *)
(* deferred clear and the test of the flags are two steps: SIGALRM may     *)
(* come between them.                                                      *)
(***************************************************************************)
EXTENDS Integers

CONSTANTS
    Unit,           \* the timers, A and B
    CCs             \* the compare channels of one (4)

CC == 0 .. CCs - 1
Timer == Unit \X CC

ASSUME CCsAssumption == CCs \in Nat \ {0}

VARIABLES
    utim64_enable,      \* UTIM64MCFG_ENA of the units, as last written
    ccena,              \* UTIM64CFG_ENA of the channels, as last written: the bit in
                        \* the register, too, for a store of any width reaches
                        \* dps_utim64_write as the word it is in, or ends in errx
    its,                \* whether the channel's interval is not zero
    armed,              \* the POSIX timers that run
    utim64_flags,       \* the bits set, as the channels they stand for
    utim64_flags_clear,
    enabled,            \* PSR_IM_ENABLE and IDT_ISENABLE(IDT_DPS_UTIM64_NUM)
    phase,              \* where exec's loop is
    event,              \* history: what the dispatcher did last
    unseen,             \* history: expiries no load of FLAGS followed or will wipe
    touched             \* history: timers a write to a running unit set apart

registers == <<utim64_enable, ccena, its, armed, touched>>
vars == <<registers, utim64_flags, utim64_flags_clear, enabled, phase, event, unseen>>

TypeOK == /\ utim64_enable \in [Unit -> BOOLEAN]
          /\ ccena \in [Timer -> BOOLEAN]
          /\ its \in [Timer -> BOOLEAN]
          /\ armed \in [Timer -> BOOLEAN]
          /\ utim64_flags \subseteq Timer
          /\ utim64_flags_clear \in BOOLEAN
          /\ enabled \in BOOLEAN
          /\ phase \in {"execute", "clear", "test", "exit"}
          /\ event \in {"none", "interrupt", "quiet"}
          /\ unseen \subseteq Timer
          /\ touched \subseteq Timer

-----------------------------------------------------------------------------
(* dps_init *)

Init == /\ utim64_enable = [u \in Unit |-> FALSE]
        /\ ccena = [t \in Timer |-> FALSE]
        /\ its = [t \in Timer |-> FALSE]
        /\ armed = [t \in Timer |-> FALSE]
        /\ utim64_flags = {}
        /\ utim64_flags_clear = FALSE
        /\ enabled = FALSE
        /\ phase = "execute"
        /\ event = "none"
        /\ unseen = {}
        /\ touched = {}

\* mutant of Started: the channels' own enable bits are not looked at
StartedAll(u, ena) ==
    [t \in Timer |-> IF t[1] = u THEN ena /\ its[t] ELSE armed[t]]

\* The timers a write to MCFGR starts or stops: a channel that is not enabled
\* is left alone.
Switched(u, ena) == {t \in Timer : t[1] = u /\ ccena[t] /\ ena # utim64_enable[u]}

\* The timers once the unit is started or stopped; timer_settime with a zero
\* interval disarms.
Started(u, ena) ==
    [t \in Timer |-> IF t \in Switched(u, ena) THEN ena /\ its[t] ELSE armed[t]]

(* The guest's instruction: dps_utim64_write and dps_utim64_read *)

\* MCFGR
McfgrWrite(u, ena) ==
    /\ armed' = Started(u, ena)
    /\ utim64_enable' = [utim64_enable EXCEPT ![u] = ena]
    /\ touched' = touched \ Switched(u, ena)
    /\ UNCHANGED <<ccena, its>>

\* CCxR: the next start uses the new interval, a running timer does not.
CcrWrite(t, nonzero) ==
    /\ its' = [its EXCEPT ![t] = nonzero]
    /\ touched' = IF utim64_enable[t[1]] THEN touched \union {t} ELSE touched
    /\ UNCHANGED <<utim64_enable, ccena, armed>>

\* CCxCFGR: the channel's timer is started or stopped with its unit running.
\* Whatever the channel, the code names channel 0.
CccfgrWrite(t, ena) ==
    /\ IF utim64_enable[t[1]] /\ ccena[t] # ena
       THEN /\ armed' = [armed EXCEPT ![<<t[1], 0>>] = ena /\ its[<<t[1], 0>>]]
            /\ touched' = IF t[2] = 0 THEN touched \ {t}
                          ELSE touched \union {t, <<t[1], 0>>}
       ELSE UNCHANGED <<armed, touched>>
    /\ ccena' = [ccena EXCEPT ![t] = ena]
    /\ UNCHANGED <<utim64_enable, its>>

\* A load of FLAGS.
FlagsRead == /\ utim64_flags_clear' = TRUE
             /\ unseen' = {}
             /\ UNCHANGED <<registers, enabled>>

\* Any other instruction; some enable or disable the interrupt.
Elsewhere == /\ enabled' \in BOOLEAN
             /\ UNCHANGED <<registers, utim64_flags_clear, unseen>>

Write == /\ \/ \E u \in Unit, ena \in BOOLEAN : McfgrWrite(u, ena)
            \/ \E t \in Timer, nonzero \in BOOLEAN : CcrWrite(t, nonzero)
            \/ \E t \in Timer, ena \in BOOLEAN : CccfgrWrite(t, ena)
         /\ UNCHANGED <<utim64_flags_clear, enabled, unseen>>

Execute == /\ phase = "execute"
           /\ phase' = "clear"
           /\ event' = "none"
           /\ Write \/ FlagsRead \/ Elsewhere
           /\ UNCHANGED utim64_flags

\* A store to FLAGS ends the simulator (errx).
FlagsWrite == /\ phase = "execute"
              /\ phase' = "exit"
              /\ UNCHANGED <<registers, utim64_flags, utim64_flags_clear, enabled, event,
                             unseen>>

(* dps_utim64_interrupt *)

\* mutant of Cleared: the flags are cleared unasked
ClearedForgetting == {}

\* The flags once a deferred clear is applied.
Cleared == IF utim64_flags_clear THEN {} ELSE utim64_flags

\* The dispatcher asks the device.
Asked == phase = "clear" /\ enabled

Clear == /\ Asked
         /\ phase' = "test"
         /\ utim64_flags' = Cleared
         /\ utim64_flags_clear' = FALSE
         /\ UNCHANGED <<registers, enabled, event, unseen>>

\* interrupt_entry disables interrupts; without one a device of lower
\* priority may still interrupt.
Test == /\ phase = "test"
        /\ phase' = "execute"
        /\ \/ /\ utim64_flags # {}
              /\ enabled' = FALSE
              /\ event' = "interrupt"
           \/ /\ utim64_flags = {}
              /\ enabled' \in BOOLEAN
              /\ event' = "quiet"
        /\ UNCHANGED <<registers, utim64_flags, utim64_flags_clear, unseen>>

PassedOver == /\ phase = "clear" /\ ~enabled
              /\ phase' = "execute"
              /\ UNCHANGED <<registers, utim64_flags, utim64_flags_clear, enabled, event,
                             unseen>>

(* dps_utim64_timer_sigalrm *)

\* mutant of Raised: the bit of the next channel
RaisedNextChannel(t) == utim64_flags \union {<<t[1], t[2] + 1>>}

\* mutant of Raised: the other bits are lost
RaisedOverwriting(t) == {t}

Raised(t) == utim64_flags \union {t}

\* The timers are periodic: they stay armed.
Expire(t) == /\ armed[t] /\ phase # "exit"
             /\ utim64_flags' = Raised(t)
             /\ unseen' = IF utim64_flags_clear THEN unseen ELSE unseen \union {t}
             /\ UNCHANGED <<registers, utim64_flags_clear, enabled, phase, event>>

Terminated == phase = "exit" /\ UNCHANGED vars

Cycle == Execute \/ FlagsWrite \/ Clear \/ Test \/ PassedOver

Next == \/ Cycle
        \/ \E t \in Timer : Expire(t)
        \/ Terminated

Spec == Init /\ [][Next]_vars

\* The simulator goes on; nothing is asked of the timers or of the guest.
FairSpec == Spec /\ WF_vars(Cycle)

-----------------------------------------------------------------------------
(* Properties *)

\* A timer runs exactly if its registers say so: its channel enabled, its unit
\* running, with an interval.  Writes to a running unit set apart the channel
\* they name and, when they enable or disable it, timer 0, which the code acts
\* on instead; nothing else comes out of step, and the next start or stop of
\* the unit brings the enabled channels back (dps_utim64_write,
\* dps_utim64_cc_change).
ProgrammedTimers == \A t \in Timer \ touched :
                        armed[t] <=> utim64_enable[t[1]] /\ ccena[t] /\ its[t]

\* An expiry stays visible until the guest loads FLAGS, whatever expires or is
\* interrupted meanwhile; except for one that comes between such a load and
\* the clear it asked for, which the clear wipes (dps_utim64_timer_sigalrm,
\* dps_utim64_interrupt).
ExpiryKept == unseen \subseteq utim64_flags

\* With interrupts enabled again and again, a kept expiry interrupts the guest
\* unless the guest loads FLAGS itself (dps_utim64_interrupt).
ExpiryNoticed == []<>Asked
                    => (unseen # {} ~> (event = "interrupt" \/ unseen = {}))

\* The loop has a next step until a store to FLAGS ends it (exec).  The actions
\* of each phase cover every case, so that this holds by the shape of Cycle;
\* ExpiriesNoticed takes it as a hypothesis, ENABLED being beyond the provers.
CanRun == phase # "exit" => ENABLED <<Cycle>>_vars

\* "Timer End" (dps.c:243): once a unit is stopped, none of its timers runs.
StoppedQuiet == \A t \in Timer : ~utim64_enable[t[1]] => ~armed[t]

\* To the dispatcher the timers are a line that no answer takes back, only a
\* load of FLAGS: neither a signal in the middle of the answer, nor a clear
\* that comes late, nor a timer that is stopped (dps_utim64_interrupt).
Line == INSTANCE DeviceLine WITH
            Latched <- FALSE, Withdrawable <- TRUE,
            wants <- ~utim64_flags_clear /\ utim64_flags # {},
            turn <- IF phase = "execute" THEN "guest" ELSE "simulator",
            answer <- event
TimerLine == Line!Spec
=============================================================================
