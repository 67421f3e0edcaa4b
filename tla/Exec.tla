-------------------------------- MODULE Exec --------------------------------
(***************************************************************************)
(* The processor cycle of simulator.c (exec, interrupt_dispatcher,         *)
(* signal_on_sigint), the interrupt unit of interrupt.c, and the           *)
(* instructions that touch what they share: program counter, processor     *)
(* status, flags, banked stack pointers, interrupt table.                  *)
(*                                                                         *)
(* One cycle is the phases begin (choose the stack, fetch), execute,       *)
(* retire (faults, write-back, next PC), dispatch (interrupts), test (loop *)
(* condition).  Devices raise their interrupts and SIGINT arrives between  *)
(* any two phases.  The guest program is arbitrary: in "execute" any       *)
(* instruction of Insns may run.                                           *)
(***************************************************************************)
EXTENDS Integers

CONSTANTS
    PCs,            \* instruction addresses are 0 .. PCs-1, PCR + 4 being +1
    EntryP,         \* where the program starts
    SPs,            \* stack pointers are 0 .. SPs-1, counted modulo SPs
    StackDefault,   \* STACK_DEFAULT
    Flag,           \* values of the condition flags
    ResetFlag,      \* the value 0x80000000 gives them
    StaticFlag,     \* the value of a register of static storage
    Device,         \* the devices that interrupt in this instance
    SwiNum,         \* software interrupt numbers the program uses
    IdtTables,      \* the interrupt tables idts may find in guest memory
    Insns,          \* instructions the program is made of
    TestsuiteMode,  \* TESTSUITE_MODE
    DebugExitB0,    \* DEBUG_EXIT_B0
    None            \* no vector, no address

\* interrupt.h
IDT_GCI_KMC_NUM      == 5
IDT_DPS_UTIM64_NUM   == 36
IDT_DPS_LS_NUM       == 37
IDT_PAGEFAULT_NUM    == 40
IDT_DIVERROR_NUM     == 40
IDT_INVALID_PRIV_NUM == 41
IDT_INVALID_IDT_NUM  == 43
IDT_DOUBLEFAULT_NUM  == 63
IDT_SWIRQ_START_NUM  == 64

MemoryFault == {IDT_PAGEFAULT_NUM, IDT_INVALID_PRIV_NUM}
Vector == Device \union MemoryFault \union SwiNum
            \union {IDT_INVALID_IDT_NUM, IDT_DOUBLEFAULT_NUM}

PC == 0 .. PCs - 1
SP == 0 .. SPs - 1
\* the two modes CMOD names; PSR is its interrupt mask bit and its mode
Mode  == {"kernel", "user"}
Psr   == [IM : BOOLEAN, CMOD : Mode]
Flags == [value : Flag, invalid : BOOLEAN]
Entry == [flags : SUBSET {"VALID", "ENABLE"}, handler : PC]
Idt   == [Vector -> Entry]

ASSUME AddressAssumption == /\ PCs \in Nat \ {0} /\ EntryP \in PC
                            /\ SPs \in Nat \ {0} /\ StackDefault \in SP
ASSUME FlagAssumption == {ResetFlag, StaticFlag} \subseteq Flag
ASSUME DeviceAssumption ==
    Device \subseteq {IDT_GCI_KMC_NUM, IDT_DPS_UTIM64_NUM, IDT_DPS_LS_NUM}
ASSUME SwiAssumption == SwiNum \subseteq Nat
                        /\ \A n \in SwiNum : n >= IDT_SWIRQ_START_NUM
ASSUME IdtAssumption == IdtTables \subseteq Idt
ASSUME NoneAssumption == None \notin Nat
ASSUME ModeAssumption == TestsuiteMode \in BOOLEAN /\ DebugExitB0 \in BOOLEAN

VARIABLES
    phase,          \* where in the cycle
    cpu,            \* PCR, PSR, FLAGR and their saved copies PPCR, PPSR, PFLAGR
    next_PCR,       \* where the instruction branches to, or None
    SPR, bank,      \* the stack pointer; KSPR and USPR
    cmod,           \* the mode whose stack SPR is
    prev_invalid,   \* prev_FLAGR._invalid
    idt_cache,
    interrupt_nmi,  \* the trap to take in this cycle, or None
    fault,          \* memory_is_fault, or None
    io_writeback,   \* memory_io_writeback is set
    exec_finish,
    pending,        \* devices whose *_interrupt() would answer true
    \* history
    seen,           \* the stack pointer each mode last gave itself; None: not yet
    user,           \* what the user program must find when it next runs
    raised,         \* the vector asked for in this cycle, or None
    entries,        \* handlers entered in this cycle
    sigint          \* SIGINT has arrived

regs  == <<cpu, SPR, bank, cmod, prev_invalid>>
cycle == <<next_PCR, interrupt_nmi, fault, io_writeback>>
hist  == <<seen, user, raised, entries, sigint>>
vars  == <<phase, regs, cycle, idt_cache, exec_finish, pending, hist>>

Phase == {"start", "begin", "execute", "retire", "dispatch", "test",
          "done", "aborted", "invalid FLAGR"}

TypeOK ==
    /\ phase \in Phase
    /\ cpu \in [PCR : PC, PSR : Psr, FLAGR : Flags,
                PPCR : PC, PPSR : Psr, PFLAGR : Flags]
    /\ next_PCR \in PC \union {None}
    /\ SPR \in SP /\ bank \in [Mode -> SP] /\ cmod \in Mode
    /\ prev_invalid \in BOOLEAN
    /\ idt_cache \in Idt
    /\ interrupt_nmi \in Vector \union {None}
    /\ fault \in MemoryFault \union {None}
    /\ io_writeback \in BOOLEAN /\ exec_finish \in BOOLEAN
    /\ pending \subseteq Device
    /\ seen \in [Mode -> SP \union {None}]
    /\ user \in [known : BOOLEAN, pc : PC, flag : Flag, fresh : BOOLEAN]
    /\ raised \in Vector \union {None}
    /\ entries \in 0 .. 2
    /\ sigint \in BOOLEAN

Init ==
    /\ phase = "start"
    /\ LET psr  == [IM |-> FALSE, CMOD |-> "kernel"]
           flag(f) == [value |-> f, invalid |-> FALSE]
       IN  cpu = [PCR |-> EntryP, PSR |-> psr, FLAGR |-> flag(ResetFlag),
                  PPCR |-> 0, PPSR |-> psr, PFLAGR |-> flag(StaticFlag)]
    /\ next_PCR = None
    /\ SPR = 0
    /\ bank = [kernel |-> StackDefault, user |-> 0]
    /\ cmod = "kernel"
    /\ prev_invalid = FALSE
    /\ idt_cache = [v \in Vector |-> [flags |-> {}, handler |-> 0]]
    /\ interrupt_nmi = None /\ fault = None /\ io_writeback = FALSE
    /\ exec_finish = FALSE
    /\ pending = {}
    /\ seen = [kernel |-> None, user |-> 0]
    /\ user = [known |-> FALSE, pc |-> 0, flag |-> ResetFlag, fresh |-> FALSE]
    /\ raised = None
    /\ entries = 0
    /\ sigint = FALSE

-----------------------------------------------------------------------------
(* interrupt.c *)

Valid(v)   == "VALID" \in idt_cache[v].flags
Enabled(v) == {"VALID", "ENABLE"} \subseteq idt_cache[v].flags

\* mutant of Resolved: the chain ends at the invalid-vector handler
ResolvedUnchained(num) ==
    IF Valid(num) THEN num
    ELSE IF Valid(IDT_INVALID_IDT_NUM) THEN IDT_INVALID_IDT_NUM ELSE None

\* interrupt_entry: the vector whose handler is entered for num, or None when
\* even the double fault has none
Resolved(num) ==
    CASE Valid(num) -> num
      [] ~Valid(num) /\ num = IDT_DOUBLEFAULT_NUM -> None
      [] ~Valid(num) /\ num # IDT_DOUBLEFAULT_NUM ->
           IF num # IDT_INVALID_IDT_NUM /\ Valid(IDT_INVALID_IDT_NUM)
           THEN IDT_INVALID_IDT_NUM
           ELSE IF Valid(IDT_DOUBLEFAULT_NUM) THEN IDT_DOUBLEFAULT_NUM ELSE None

\* mutant of Entered: PCR is saved after it is overwritten
EnteredSavesLate(c, v) ==
    [c EXCEPT !.PFLAGR = c.FLAGR, !.PPCR = idt_cache[v].handler, !.PPSR = c.PSR,
              !.PSR = [IM |-> FALSE, CMOD |-> "kernel"],
              !.PCR = idt_cache[v].handler]

\* mutant of Entered: the interrupt mask is left as it is
EnteredUnmasked(c, v) ==
    [c EXCEPT !.PFLAGR = c.FLAGR, !.PPCR = c.PCR, !.PPSR = c.PSR,
              !.PSR.CMOD = "kernel", !.PCR = idt_cache[v].handler]

\* interrupt_entry with a valid vector
Entered(c, v) ==
    [c EXCEPT !.PFLAGR = c.FLAGR, !.PPCR = c.PCR, !.PPSR = c.PSR,
              !.PSR = [IM |-> FALSE, CMOD |-> "kernel"],
              !.PCR = idt_cache[v].handler]

\* mutant of Nonmask: the vector before IDT_INVALID_IDT_NUM
NonmaskWrongVector(num) ==
    /\ raised' = num
    /\ interrupt_nmi' = IF Valid(num) THEN num ELSE IDT_INVALID_IDT_NUM - 1
    /\ UNCHANGED exec_finish

\* interrupt_dispatch_nonmask
Nonmask(num) ==
    /\ raised' = num
    /\ IF TestsuiteMode /\ num = IDT_SWIRQ_START_NUM
       THEN exec_finish' = TRUE /\ UNCHANGED interrupt_nmi
       ELSE /\ interrupt_nmi' = IF Valid(num) THEN num ELSE IDT_INVALID_IDT_NUM
            /\ UNCHANGED exec_finish

-----------------------------------------------------------------------------
(* exec installs signal_on_sigint before it clears exec_finish. *)
Start == /\ phase = "start"
         /\ phase' = "begin"
         /\ exec_finish' = FALSE
         /\ UNCHANGED <<regs, cycle, idt_cache, pending, hist>>

(* Top of the loop: the stack follows a change of mode, then the fetch,    *)
(* which may fault when the MMU is on.                                     *)
ChosenStack == IF cmod = cpu.PSR.CMOD THEN SPR
               ELSE IF cmod = "kernel" THEN bank["user"] ELSE bank["kernel"]

Begin ==
    /\ phase = "begin"
    /\ SPR' = ChosenStack
    /\ cmod' = cpu.PSR.CMOD
    /\ \/ phase' = "execute" /\ UNCHANGED fault
       \/ phase' = "retire" /\ "fault" \in Insns /\ fault' \in MemoryFault
    /\ UNCHANGED <<cpu, bank, prev_invalid, next_PCR, interrupt_nmi,
                   io_writeback, idt_cache, exec_finish, pending, hist>>

-----------------------------------------------------------------------------
(* insn_dispatch: one action per kind of instruction. *)
Executing(i) == phase = "execute" /\ i \in Insns /\ phase' = "retire"

Quiet == UNCHANGED <<bank, cmod, prev_invalid, interrupt_nmi, idt_cache,
                     exec_finish, pending, raised, entries, sigint>>

\* the instructions that leave all of this alone
Plain == /\ Executing("plain")
         /\ UNCHANGED <<cpu, SPR, next_PCR, fault, io_writeback, seen, user>>
         /\ Quiet

\* arithmetic and comparison: make_flags clears the invalid bit
Arith(f) == /\ Executing("arith")
            /\ cpu' = [cpu EXCEPT !.FLAGR = [value |-> f, invalid |-> FALSE]]
            /\ UNCHANGED <<SPR, next_PCR, fault, io_writeback, seen, user>>
            /\ Quiet

\* b, br, bur: a conditional one demands flags of the instruction before it
Branch(t, conditional) ==
    /\ "branch" \in Insns /\ phase = "execute"
    /\ IF conditional /\ prev_invalid
       THEN phase' = "invalid FLAGR" /\ UNCHANGED next_PCR
       ELSE /\ phase' = "retire"
            /\ next_PCR' = t \/ (conditional /\ UNCHANGED next_PCR)
    /\ UNCHANGED <<cpu, SPR, fault, io_writeback, seen, user>>
    /\ Quiet

\* a load or store that faults leaves before it does anything
Fault(v) == /\ Executing("fault")
            /\ fault' = v
            /\ UNCHANGED <<cpu, SPR, next_PCR, io_writeback, seen, user>>
            /\ Quiet

\* a store to the I/O area
IoStore == /\ Executing("io")
           /\ io_writeback' = TRUE
           /\ UNCHANGED <<cpu, SPR, next_PCR, fault, seen, user>>
           /\ Quiet

\* the guest gives its stack pointer a value
MoveSP(s) == /\ SPR' = s
             /\ seen' = [seen EXCEPT ![cpu.PSR.CMOD] = s]

\* srspw, srspadd
Srspw(s) == /\ Executing("srspw")
            /\ MoveSP(s)
            /\ UNCHANGED <<cpu, next_PCR, fault, io_writeback, user>>
            /\ Quiet

\* push and pushpc move the stack pointer first and may fault after it
Push == /\ Executing("push")
        /\ MoveSP((SPR - 1) % SPs)
        /\ fault' \in {None} \union (IF "fault" \in Insns THEN MemoryFault ELSE {})
        /\ UNCHANGED <<cpu, next_PCR, io_writeback, user>>
        /\ Quiet

\* a pop that faults is Fault
Pop == /\ Executing("pop")
       /\ MoveSP((SPR + 1) % SPs)
       /\ UNCHANGED <<cpu, next_PCR, fault, io_writeback, user>>
       /\ Quiet
\* sruspw; in user mode the write-back of this cycle undoes it
Sruspw(s) ==
    /\ Executing("sruspw")
    /\ bank' = [bank EXCEPT !["user"] = s]
    /\ seen' = IF cpu.PSR.CMOD = "kernel" THEN [seen EXCEPT !["user"] = s] ELSE seen
    /\ UNCHANGED <<cpu, SPR, cmod, prev_invalid, cycle, idt_cache, exec_finish,
                   pending, user, raised, entries, sigint>>

\* the kernel takes the saved context in hand
Forget == user' = [user EXCEPT !.known = FALSE]

WriteSaved(i, c) ==
    /\ Executing(i)
    /\ cpu' = c
    /\ Forget
    /\ UNCHANGED <<SPR, next_PCR, fault, io_writeback, seen>>
    /\ Quiet

Srppcw(pc)  == WriteSaved("srppcw", [cpu EXCEPT !.PPCR = pc])
Srppsw(psr) == WriteSaved("srppsw", [cpu EXCEPT !.PPSR = psr])
Srpflagw(f) == WriteSaved("srpflagw", [cpu EXCEPT !.PFLAGR = f])

Srieiw(b) == /\ Executing("srieiw")
             /\ cpu' = [cpu EXCEPT !.PSR.IM = b]
             /\ UNCHANGED <<SPR, next_PCR, fault, io_writeback, seen, user>>
             /\ Quiet

Srpsw(psr) == /\ Executing("srpsw")
              /\ cpu' = [cpu EXCEPT !.PSR = psr]
              /\ Forget
              /\ UNCHANGED <<SPR, next_PCR, fault, io_writeback, seen>>
              /\ Quiet

\* idts copies the table at IDTR
Idts(table) ==
    /\ Executing("idts")
    /\ idt_cache' = table
    /\ UNCHANGED <<regs, cycle, exec_finish, pending, hist>>

\* swi, and a division by zero
Trap(num) ==
    /\ Executing("trap")
    /\ Nonmask(num)
    /\ UNCHANGED <<regs, next_PCR, fault, io_writeback, idt_cache, pending,
                   seen, user, entries, sigint>>

\* ib: interrupt_exit
Ib == /\ Executing("ib")
      /\ cpu' = [cpu EXCEPT !.FLAGR = cpu.PFLAGR, !.PSR = cpu.PPSR]
      /\ next_PCR' = cpu.PPCR
      /\ UNCHANGED <<SPR, fault, io_writeback, seen, user>>
      /\ Quiet

\* halt, an invalid opcode, a swi below 64, a misaligned branch, srppcw or
\* I/O address, an unsupported page size, a quotient that is no int32_t (on
\* x86): the process ends
Abort == /\ phase = "execute" /\ "abort" \in Insns
         /\ phase' = "aborted"
         /\ UNCHANGED <<regs, cycle, idt_cache, exec_finish, pending, hist>>

Execute ==
    \/ Plain \/ IoStore \/ Push \/ Pop \/ Ib \/ Abort
    \/ \E f \in Flag : Arith(f)
    \/ \E t \in PC, c \in BOOLEAN : Branch(t, c)
    \/ \E v \in MemoryFault : Fault(v)
    \/ \E s \in SP : Srspw(s) \/ Sruspw(s)
    \/ \E pc \in PC : Srppcw(pc)
    \/ \E psr \in Psr : Srppsw(psr)
    \/ \E f \in Flags : Srpflagw(f)
    \/ \E b \in BOOLEAN : Srieiw(b)
    \/ \E psr \in Psr : Srpsw(psr)
    \/ \E table \in IdtTables : Idts(table)
    \/ \E num \in SwiNum \union {IDT_DIVERROR_NUM} : Trap(num)

-----------------------------------------------------------------------------
\* mutant of Written: an I/O write-back stays for the next cycle
WrittenTwice == fault' = None /\ UNCHANGED io_writeback

Written == fault' = None /\ io_writeback' = FALSE

\* mutant of Writeback: to the mode the instruction switched to
WritebackNewMode == bank' = [bank EXCEPT ![cpu.PSR.CMOD] = SPR]

Writeback == bank' = [bank EXCEPT ![cmod] = SPR]

(* From the label fault to the next PC: a faulting instruction asks for    *)
(* its trap and is run again, an I/O store is passed to the device, the    *)
(* stack pointer is written back to the bank of the mode that ran.         *)
Retire ==
    /\ phase = "retire"
    /\ phase' = "dispatch"
    /\ IF fault # None
       THEN Nonmask(fault)
       ELSE UNCHANGED <<interrupt_nmi, exec_finish, raised>>
    /\ Written
    /\ Writeback
    /\ next_PCR' = None
    /\ cpu' = [cpu EXCEPT !.PCR = IF fault # None THEN @
                                  ELSE IF next_PCR # None THEN next_PCR
                                  ELSE (@ + 1) % PCs]
    /\ user' = IF cmod = "kernel" THEN user
               ELSE [known |-> cpu.PSR.CMOD = "user",
                     pc    |-> cpu'.PCR,
                     flag  |-> cpu.FLAGR.value,
                     fresh |-> IF fault = None THEN ~cpu.FLAGR.invalid
                               ELSE user.known /\ user.fresh]
    /\ UNCHANGED <<SPR, cmod, prev_invalid, idt_cache, pending, seen, entries,
                   sigint>>

-----------------------------------------------------------------------------
(* interrupt_dispatcher, then the end of the cycle marks the flags stale.  *)
Trapping  == interrupt_nmi # None
Trapped   == Trapping /\ Resolved(interrupt_nmi) # None
AfterTrap == IF Trapped THEN Entered(cpu, Resolved(interrupt_nmi)) ELSE cpu

\* mutant of Ready: the devices are asked before their vectors are looked at
ReadyUnchecked == pending

Ready == {d \in Device : Enabled(d) /\ d \in pending}
Rank(d) == CASE d = IDT_DPS_UTIM64_NUM  -> 1
             [] d = IDT_GCI_KMC_NUM     -> 2
             [] d = IDT_DPS_LS_NUM      -> 3
Chosen == CHOOSE d \in Ready : \A e \in Ready : Rank(d) <= Rank(e)

\* the keyboard and serial interrupts are taken when answered, the timer's
\* stands until the guest reads its flags
Latched == {IDT_GCI_KMC_NUM, IDT_DPS_LS_NUM}

\* what the guest takes back unanswered: the timer's flags by a load, the serial
\* request by emptying the ring or turning the receiver off; no key
Withdrawable == {IDT_DPS_UTIM64_NUM, IDT_DPS_LS_NUM}

EndCycle(c) == /\ prev_invalid' = c.FLAGR.invalid
               /\ cpu' = [c EXCEPT !.FLAGR.invalid = TRUE]

Dispatch ==
    /\ phase = "dispatch"
    /\ phase' = "test"
    /\ interrupt_nmi' = None
    /\ exec_finish' = (exec_finish \/ (Trapping /\ ~Trapped))
    /\ IF AfterTrap.PSR.IM /\ Ready # {}
       THEN /\ EndCycle(Entered(AfterTrap, Chosen))
            /\ pending' = pending \ ({Chosen} \intersect Latched)
            /\ entries' = IF Trapped THEN 2 ELSE 1
       ELSE /\ EndCycle(AfterTrap)
            /\ UNCHANGED pending
            /\ entries' = IF Trapped THEN 1 ELSE 0
    /\ user' = IF entries' > 0 /\ cpu.PSR.CMOD = "kernel"
               THEN [user EXCEPT !.known = FALSE] ELSE user
    /\ UNCHANGED <<SPR, bank, cmod, next_PCR, fault, io_writeback, idt_cache,
                   seen, raised, sigint>>

\* mutant of Finished: only the debugging exit is looked at
FinishedAtZero == DebugExitB0 /\ cpu.PCR = 0

Finished == exec_finish

(* The loop condition; the debugging exit also wants GR[31] = 0. *)
Test ==
    /\ phase = "test"
    /\ \/ Finished /\ phase' = "done"
       \/ DebugExitB0 /\ cpu.PCR = 0 /\ phase' = "done"
       \/ ~Finished /\ phase' = "begin"
    /\ raised' = None
    /\ entries' = 0
    /\ UNCHANGED <<regs, cycle, idt_cache, exec_finish, pending, seen, user, sigint>>

-----------------------------------------------------------------------------
Stopped == phase \in {"done", "aborted", "invalid FLAGR"}

(* signal_on_sigint runs between any two steps of the program. *)
Sigint == /\ ~Stopped
          /\ exec_finish' = TRUE
          /\ sigint' = TRUE
          /\ UNCHANGED <<phase, regs, cycle, idt_cache, pending, seen, user,
                         raised, entries>>

\* the phases in which an instruction reaches the devices: io_load in the one,
\* io_store in the other
Instructing == phase \in {"execute", "retire"}

(* A device comes to want an interrupt, or the guest's instruction takes   *)
(* the request back.                                                       *)
DeviceChange(d) ==
    /\ ~Stopped
    /\ \/ d \notin pending /\ pending' = pending \union {d}
       \/ /\ d \in pending \intersect Withdrawable
          /\ Instructing
          /\ pending' = pending \ {d}
    /\ UNCHANGED <<phase, regs, cycle, idt_cache, exec_finish, hist>>

Terminated == Stopped /\ UNCHANGED vars

Cycle == Start \/ Begin \/ Execute \/ Retire \/ Dispatch \/ Test

Next == \/ Cycle
        \/ Sigint
        \/ \E d \in Device : DeviceChange(d)
        \/ Terminated

Spec == Init /\ [][Next]_vars
FairSpec == Spec /\ WF_vars(Cycle)
-----------------------------------------------------------------------------
(* Nothing of a cycle is left over for the next one: each trap, fault,     *)
(* I/O write-back and branch target acts once, in its own cycle, whatever  *)
(* mixture of them the cycle had (simulator.c:73-75, 172-185, 218-229).    *)
CycleClean == phase \in {"start", "begin", "done"} =>
    /\ interrupt_nmi = None /\ fault = None /\ next_PCR = None
    /\ ~io_writeback

\* what stands for the stack pointer of a mode that has not got one yet
Given(m) == IF seen[m] = None THEN 0 ELSE seen[m]

(* Whenever an instruction runs, SPR is the stack pointer its mode last    *)
(* gave itself (or the kernel gave the user mode): the banks are swapped   *)
(* and written back so that no switch of mode mixes them up, though the    *)
(* swap follows the switch by a cycle (simulator.c:137-141 and 187-193).   *)
(* A kernel that has not given itself one runs on 0, not on the default:   *)
(* exec puts STACK_DEFAULT into KSPR only, and the first write-back        *)
(* overwrites it with the 0 of SPR (simulator.c:120 and 192).              *)
StackBanked == phase = "execute" => SPR = Given(cpu.PSR.CMOD)

(* The default kernel stack is never in force: until the guest gives the   *)
(* kernel a stack pointer, the kernel runs on 0, whatever STACK_DEFAULT is *)
(* (simulator.c:120, 137-141 and 187-193).                                 *)
DefaultStackLost ==
    phase = "execute" /\ cpu.PSR.CMOD = "kernel" /\ seen["kernel"] = None => SPR = 0

(* A user program that is interrupted goes on at the instruction it had    *)
(* reached, or the one that faulted, with its flags, as long as the kernel *)
(* left the saved registers alone and was not itself interrupted           *)
(* (interrupt.c:42-53 and 67-71, simulator.c:218-236).                     *)
UserResumes == (phase = "execute" /\ cpu.PSR.CMOD = "user" /\ user.known) =>
    cpu.PCR = user.pc /\ cpu.FLAGR.value = user.flag

(* A dispatch enters one handler at most: a second one would overwrite the *)
(* only copy of the interrupted context (interrupt.c:42-49).               *)
OneEntry == entries <= 1

(* A trap asked for in a cycle is served at its end, by its own handler,   *)
(* the invalid-vector handler or the double-fault handler, the first whose *)
(* vector is valid; if none is, the simulation ends (interrupt.c:26-40).   *)
Stands(v) == Valid(v) /\ cpu.PCR = idt_cache[v].handler
TrapServed == (phase = "test" /\ raised # None) =>
    \/ Stands(raised)
    \/ ~Valid(raised) /\ Stands(IDT_INVALID_IDT_NUM)
    \/ /\ ~Valid(raised) /\ ~Valid(IDT_INVALID_IDT_NUM)
       /\ IF Valid(IDT_DOUBLEFAULT_NUM) THEN Stands(IDT_DOUBLEFAULT_NUM)
                                        ELSE exec_finish
    \/ TestsuiteMode /\ raised = IDT_SWIRQ_START_NUM /\ exec_finish

(* What a device asks for is not lost: unless the guest's own instruction  *)
(* takes a request of the timer or the serial interface back, it leaves    *)
(* only by entry into its handler, with interrupts and its vector enabled  *)
(* and the interrupted PC saved: not by a masked dispatch, nor by one that *)
(* serves a trap or another device (simulator.c:68-94).                    *)
DeviceKept == [][\A d \in pending \ pending' :
                    \/ Instructing /\ d \in Withdrawable
                    \/ /\ cpu.PSR.IM /\ Enabled(d)
                       /\ cpu'.PCR = idt_cache[d].handler
                       /\ cpu'.PPCR = cpu.PCR]_vars

(* Once exec_finish is set the loop ends, by SIGINT, by SYS_exit or after  *)
(* an invalid double-fault vector (simulator.c:247).                       *)
FinishStops == (exec_finish /\ phase # "start") ~> Stopped

(* The loop has a next step of its own until it has ended (exec).  The     *)
(* actions of each phase cover every case, so that this holds by the shape *)
(* of Cycle for any program with an instruction; FinishReached takes it as *)
(* a hypothesis, ENABLED being beyond the provers.                         *)
CanRun == ~Stopped => ENABLED <<Cycle>>_vars

(* A conditional branch of a user program whose previous instruction set   *)
(* the flags passes the check for invalid flags (operands.h:119-122).      *)
FlagsCheckSound == phase = "invalid FLAGR" =>
    ~(cpu.PSR.CMOD = "user" /\ user.known /\ user.fresh)
=============================================================================
