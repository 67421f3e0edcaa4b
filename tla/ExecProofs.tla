----------------------------- MODULE ExecProofs -----------------------------
(***************************************************************************)
(* Theorems about Exec, for every program, interrupt table and set of      *)
(* devices.                                                                *)
(***************************************************************************)
EXTENDS Exec, TLAPS

Context == [PCR : PC, PSR : Psr, FLAGR : Flags,
            PPCR : PC, PPSR : Psr, PFLAGR : Flags]

LEMMA NumbersInVector ==
    /\ Device \subseteq Vector /\ MemoryFault \subseteq Vector
    /\ SwiNum \subseteq Vector
    /\ IDT_INVALID_IDT_NUM \in Vector /\ IDT_DOUBLEFAULT_NUM \in Vector
    /\ IDT_DIVERROR_NUM \in Vector
BY DEF Vector, MemoryFault, IDT_DIVERROR_NUM, IDT_PAGEFAULT_NUM

LEMMA NoneApart == None \notin Vector /\ None \notin PC
<1>1. MemoryFault \subseteq Nat
  BY DEF MemoryFault, IDT_PAGEFAULT_NUM, IDT_INVALID_PRIV_NUM
<1>2. Device \subseteq Nat
  BY DeviceAssumption DEF IDT_GCI_KMC_NUM, IDT_DPS_UTIM64_NUM, IDT_DPS_LS_NUM
<1>3. IDT_INVALID_IDT_NUM \in Nat /\ IDT_DOUBLEFAULT_NUM \in Nat
  BY DEF IDT_INVALID_IDT_NUM, IDT_DOUBLEFAULT_NUM
<1>4. Vector \subseteq Nat
  BY <1>1, <1>2, <1>3, SwiAssumption DEF Vector
<1>5. PC \subseteq Nat
  BY AddressAssumption DEF PC
<1>6. QED
  BY <1>4, <1>5, NoneAssumption

LEMMA NextAddress == \A p \in PC : (p + 1) % PCs \in PC
BY AddressAssumption DEF PC

LEMMA NextStack == \A s \in SP : (s + 1) % SPs \in SP /\ (s - 1) % SPs \in SP
BY AddressAssumption DEF SP

LEMMA ResolvedType ==
    ASSUME NEW num \in Vector
    PROVE  Resolved(num) \in Vector \union {None}
BY NumbersInVector DEF Resolved

LEMMA EnteredType ==
    ASSUME idt_cache \in Idt, NEW c \in Context, NEW v \in Vector
    PROVE  Entered(c, v) \in Context
BY DEF Entered, Context, Idt, Entry, Psr, Mode

LEMMA NonmaskType ==
    ASSUME TypeOK, NEW num \in Vector, Nonmask(num)
    PROVE  /\ interrupt_nmi' \in Vector \union {None}
           /\ raised' \in Vector \union {None}
           /\ exec_finish' \in BOOLEAN
BY NumbersInVector DEF Nonmask, TypeOK

\* The device chosen is one that is ready: three ranks have a least one.
LEMMA ChosenReady ==
    ASSUME Ready # {}
    PROVE  Chosen \in Ready
<1>1. Ready \subseteq {IDT_GCI_KMC_NUM, IDT_DPS_UTIM64_NUM, IDT_DPS_LS_NUM}
  BY DeviceAssumption DEF Ready
<1>2. /\ Rank(IDT_DPS_UTIM64_NUM) = 1
      /\ Rank(IDT_GCI_KMC_NUM) = 2
      /\ Rank(IDT_DPS_LS_NUM) = 3
  BY DEF Rank, IDT_GCI_KMC_NUM, IDT_DPS_UTIM64_NUM, IDT_DPS_LS_NUM
<1>3. \E d \in Ready : \A e \in Ready : Rank(d) <= Rank(e)
  <2>1. CASE IDT_DPS_UTIM64_NUM \in Ready
    BY <1>1, <1>2, <2>1
  <2>2. CASE IDT_DPS_UTIM64_NUM \notin Ready /\ IDT_GCI_KMC_NUM \in Ready
    BY <1>1, <1>2, <2>2
  <2>3. CASE Ready \subseteq {IDT_DPS_LS_NUM}
    BY <1>2, <2>3
  <2>4. QED
    BY <1>1, <2>1, <2>2, <2>3
<1>4. QED
  BY <1>3 DEF Chosen

-----------------------------------------------------------------------------
LEMMA InitType == Init => TypeOK
<1> SUFFICES ASSUME Init PROVE TypeOK
  OBVIOUS
<1>1. 0 \in PC /\ 0 \in SP
  BY AddressAssumption DEF PC, SP
<1>2. [IM |-> FALSE, CMOD |-> "kernel"] \in Psr
  BY DEF Psr, Mode
<1>3. cpu \in Context
  BY <1>1, <1>2, AddressAssumption, FlagAssumption DEF Init, Context, Flags
<1>4. idt_cache \in Idt
  BY <1>1 DEF Init, Idt, Entry
<1>5. bank \in [Mode -> SP]
  BY <1>1, AddressAssumption DEF Init, Mode
<1>6. user \in [known : BOOLEAN, pc : PC, flag : Flag, fresh : BOOLEAN]
  BY <1>1, FlagAssumption DEF Init
<1>7. seen \in [Mode -> SP \union {None}] /\ cmod \in Mode /\ SPR \in SP
  <2>1. seen = [kernel |-> None, user |-> 0] /\ cmod = "kernel" /\ SPR = 0
    BY DEF Init
  <2>2. QED
    BY <1>1, <2>1 DEF Mode
<1>8. /\ phase \in Phase /\ entries \in 0 .. 2 /\ pending \subseteq Device
      /\ prev_invalid \in BOOLEAN /\ io_writeback \in BOOLEAN
      /\ exec_finish \in BOOLEAN /\ sigint \in BOOLEAN
  <2>1. phase \in Phase /\ entries \in 0 .. 2 /\ pending \subseteq Device
    <3>1. phase = "start" /\ entries = 0 /\ pending = {}
      BY DEF Init
    <3>2. QED
      BY <3>1 DEF Phase
  <2>2. prev_invalid \in BOOLEAN /\ io_writeback \in BOOLEAN
    BY Zenon DEF Init
  <2>3. exec_finish \in BOOLEAN /\ sigint \in BOOLEAN
    BY Zenon DEF Init
  <2>4. QED
    BY <2>1, <2>2, <2>3
<1>9. /\ next_PCR = None /\ interrupt_nmi = None
      /\ fault = None /\ raised = None
  BY DEF Init
<1>10. QED
  BY <1>3, <1>4, <1>5, <1>6, <1>7, <1>8, <1>9 DEF TypeOK, Context

\* Every instruction keeps the types.
LEMMA ExecuteType == TypeOK /\ Execute => TypeOK'
<1> SUFFICES ASSUME TypeOK, Execute PROVE TypeOK'
  OBVIOUS
<1> USE DEF TypeOK, Executing, Quiet, Phase
<1>1. CASE Plain \/ IoStore \/ Abort
  BY <1>1 DEF Plain, IoStore, Abort, regs, cycle, hist
<1>2. CASE Push
  BY <1>2, NextStack DEF Push, MoveSP
<1>3. CASE Pop
  BY <1>3, NextStack DEF Pop, MoveSP
<1>4. CASE Ib
  BY <1>4 DEF Ib
<1>5. ASSUME NEW f \in Flag, Arith(f) PROVE TypeOK'
  BY <1>5 DEF Arith, Flags
<1>6. ASSUME NEW t \in PC, NEW c \in BOOLEAN, Branch(t, c) PROVE TypeOK'
  BY <1>6 DEF Branch
<1>7. ASSUME NEW v \in MemoryFault, Fault(v) PROVE TypeOK'
  BY <1>7 DEF Fault
<1>8. ASSUME NEW s \in SP, Srspw(s) \/ Sruspw(s) PROVE TypeOK'
  <2>1. CASE Srspw(s)
    BY <2>1 DEF Srspw, MoveSP
  <2>2. CASE Sruspw(s)
    <3>1. bank' = [bank EXCEPT !["user"] = s] /\ bank' \in [Mode -> SP]
      BY <2>2 DEF Sruspw, Mode
    <3>2. seen' \in [Mode -> SP \union {None}]
      BY <2>2 DEF Sruspw, Mode
    <3> QED  BY <2>2, <3>1, <3>2 DEF Sruspw, cycle
  <2> QED  BY <1>8, <2>1, <2>2
<1>9. ASSUME NEW pc \in PC, Srppcw(pc) PROVE TypeOK'
  BY <1>9 DEF Srppcw, WriteSaved, Forget
<1>10. ASSUME NEW psr \in Psr, Srppsw(psr) PROVE TypeOK'
  BY <1>10 DEF Srppsw, WriteSaved, Forget
<1>11. ASSUME NEW f \in Flags, Srpflagw(f) PROVE TypeOK'
  BY <1>11 DEF Srpflagw, WriteSaved, Forget
<1>12. ASSUME NEW b \in BOOLEAN, Srieiw(b) PROVE TypeOK'
  BY <1>12 DEF Srieiw, Psr
<1>13. ASSUME NEW psr \in Psr, Srpsw(psr) PROVE TypeOK'
  BY <1>13 DEF Srpsw, Forget
<1>14. ASSUME NEW table \in IdtTables, Idts(table) PROVE TypeOK'
  BY <1>14, IdtAssumption DEF Idts, regs, cycle, hist
<1>15. ASSUME NEW num \in SwiNum \union {IDT_DIVERROR_NUM}, Trap(num)
       PROVE  TypeOK'
  <2>1. num \in Vector /\ Nonmask(num)
    BY <1>15, NumbersInVector DEF Trap
  <2>2. QED
    BY <1>15, <2>1, NonmaskType DEF Trap, regs
<1>16. QED
  BY <1>1, <1>2, <1>3, <1>4, <1>5, <1>6, <1>7, <1>8, <1>9, <1>10, <1>11,
     <1>12, <1>13, <1>14, <1>15 DEF Execute

LEMMA RetireType == TypeOK /\ Retire => TypeOK'
<1> SUFFICES ASSUME TypeOK, Retire PROVE TypeOK'
  OBVIOUS
<1> USE DEF TypeOK, Phase
<1>1. /\ interrupt_nmi' \in Vector \union {None}
      /\ raised' \in Vector \union {None}
      /\ exec_finish' \in BOOLEAN
  <2>1. CASE fault = None
    BY <2>1 DEF Retire
  <2>2. CASE fault # None
    <3>1. fault \in Vector /\ Nonmask(fault)
      BY <2>2, NumbersInVector DEF Retire
    <3>2. QED
      BY <3>1, NonmaskType
  <2>3. QED
    BY <2>1, <2>2
<1>2. cpu' \in Context
  <2>1. (cpu.PCR + 1) % PCs \in PC
    BY NextAddress
  <2>2. QED
    BY <2>1 DEF Retire, Context
<1>3. bank' \in [Mode -> SP]
  BY DEF Retire, Writeback
<1>4. user' \in [known : BOOLEAN, pc : PC, flag : Flag, fresh : BOOLEAN]
  <2>1. CASE cmod = "kernel"
    BY <2>1 DEF Retire
  <2>2. CASE cmod # "kernel"
    <3>1. cpu'.PCR \in PC /\ cpu.FLAGR.value \in Flag /\ cpu.FLAGR.invalid \in BOOLEAN
      BY <1>2 DEF Context, Flags
    <3>2. user' = [known |-> cpu.PSR.CMOD = "user",
                   pc    |-> cpu'.PCR,
                   flag  |-> cpu.FLAGR.value,
                   fresh |-> IF fault = None THEN ~cpu.FLAGR.invalid
                             ELSE user.known /\ user.fresh]
      BY <2>2 DEF Retire
    <3> DEFINE k == cpu.PSR.CMOD = "user"
               r == IF fault = None THEN ~cpu.FLAGR.invalid
                    ELSE user.known /\ user.fresh
    <3>3. k \in BOOLEAN /\ r \in BOOLEAN
      OBVIOUS
    <3>4. user' = [known |-> k, pc |-> cpu'.PCR, flag |-> cpu.FLAGR.value,
                   fresh |-> r]
      BY <3>2
    <3> HIDE DEF k, r
    <3>5. QED
      BY <3>1, <3>3, <3>4
  <2>3. QED
    BY <2>1, <2>2
<1>5. QED
  BY <1>1, <1>2, <1>3, <1>4 DEF Retire, Written, Context

LEMMA AfterTrapType == TypeOK => AfterTrap \in Context
<1> SUFFICES ASSUME TypeOK PROVE AfterTrap \in Context
  OBVIOUS
<1>1. cpu \in Context /\ idt_cache \in Idt
  BY DEF TypeOK, Context
<1>2. CASE Trapped
  <2>1. interrupt_nmi \in Vector
    BY <1>2 DEF Trapped, Trapping, TypeOK
  <2>2. Resolved(interrupt_nmi) \in Vector
    BY <1>2, <2>1, ResolvedType DEF Trapped
  <2>3. QED
    BY <1>1, <1>2, <2>2, EnteredType DEF AfterTrap
<1>3. CASE ~Trapped
  BY <1>1, <1>3 DEF AfterTrap
<1>4. QED
  BY <1>2, <1>3

LEMMA EndCycleType ==
    ASSUME NEW c \in Context, EndCycle(c)
    PROVE  cpu' \in Context /\ prev_invalid' \in BOOLEAN
BY DEF EndCycle, Context, Flags

LEMMA DispatchType == TypeOK /\ Dispatch => TypeOK'
<1> SUFFICES ASSUME TypeOK, Dispatch PROVE TypeOK'
  OBVIOUS
<1>1. AfterTrap \in Context
  BY AfterTrapType
<1>2. /\ cpu' \in Context /\ prev_invalid' \in BOOLEAN
      /\ entries' \in 0 .. 2 /\ pending' \subseteq Device
  <2>1. CASE AfterTrap.PSR.IM /\ Ready # {}
    <3>1. Chosen \in Vector
      BY <2>1, ChosenReady, NumbersInVector DEF Ready
    <3>2. Entered(AfterTrap, Chosen) \in Context
      BY <1>1, <3>1, EnteredType DEF TypeOK
    <3>3. EndCycle(Entered(AfterTrap, Chosen))
      BY <2>1 DEF Dispatch
    <3>4. entries' \in 0 .. 2 /\ pending' \subseteq Device
      BY <2>1 DEF Dispatch, TypeOK
    <3>5. QED
      BY <3>2, <3>3, <3>4, EndCycleType
  <2>2. CASE ~(AfterTrap.PSR.IM /\ Ready # {})
    <3>1. EndCycle(AfterTrap)
      BY <2>2 DEF Dispatch
    <3>2. entries' \in 0 .. 2 /\ pending' \subseteq Device
      BY <2>2 DEF Dispatch, TypeOK
    <3>3. QED
      BY <1>1, <3>1, <3>2, EndCycleType
  <2>3. QED
    BY <2>1, <2>2
<1>3. user' \in [known : BOOLEAN, pc : PC, flag : Flag, fresh : BOOLEAN]
  BY DEF Dispatch, TypeOK
<1>4. exec_finish' \in BOOLEAN
  BY DEF Dispatch
<1>5. QED
  BY <1>2, <1>3, <1>4 DEF Dispatch, TypeOK, Context, Phase

LEMMA NextType == TypeOK /\ [Next]_vars => TypeOK'
<1> SUFFICES ASSUME TypeOK, [Next]_vars PROVE TypeOK'
  OBVIOUS
<1>1. CASE UNCHANGED vars
  BY <1>1 DEF TypeOK, vars, regs, cycle, hist
<1>2. CASE Start
  BY <1>2 DEF Start, TypeOK, Phase, regs, cycle, hist
<1>3. CASE Begin
  <2>1. ChosenStack \in SP /\ cpu.PSR.CMOD \in Mode
    BY DEF ChosenStack, TypeOK, Psr, Mode
  <2>2. SPR' \in SP /\ cmod' \in Mode
    BY <1>3, <2>1 DEF Begin
  <2>3. phase' \in Phase /\ fault' \in MemoryFault \union {None}
    BY <1>3 DEF Begin, TypeOK, Phase
  <2>4. QED
    BY <1>3, <2>2, <2>3 DEF Begin, TypeOK, hist
<1>4. CASE Test
  <2>1. phase' \in Phase
    BY <1>4 DEF Test, Phase
  <2>2. raised' = None /\ entries' = 0
    BY <1>4 DEF Test
  <2>3. UNCHANGED <<regs, cycle, idt_cache, exec_finish, pending, seen, user,
                    sigint>>
    BY <1>4 DEF Test
  <2>4. QED
    BY <2>1, <2>2, <2>3 DEF TypeOK, regs, cycle
<1>5. CASE Sigint
  BY <1>5 DEF Sigint, TypeOK, Phase, regs, cycle
<1>6. ASSUME NEW d \in Device, DeviceChange(d) PROVE TypeOK'
  <2>1. pending' \subseteq Device
    BY <1>6 DEF DeviceChange, TypeOK
  <2>2. UNCHANGED <<phase, regs, cycle, idt_cache, exec_finish, hist>>
    BY <1>6 DEF DeviceChange
  <2>3. QED
    BY <2>1, <2>2 DEF TypeOK, regs, cycle, hist
<1>7. QED
  BY <1>1, <1>2, <1>3, <1>4, <1>5, <1>6, ExecuteType, RetireType, DispatchType
     DEF Next, Cycle, Terminated

(* Every variable keeps its type, for every program and every interrupt    *)
(* table.                                                                  *)
THEOREM TypeCorrect == Spec => []TypeOK
<1>1. QED
  BY InitType, NextType, PTL DEF Spec

-----------------------------------------------------------------------------
(* The stack pointers.  SPR belongs to the mode that ran last, the other   *)
(* bank is up to date, and after the write-back of a cycle both are.       *)
UpToDate(m) == bank[m] = Given(m)
StackInv ==
    /\ SPR = Given(cmod)
    /\ \A m \in Mode : m # cmod => UpToDate(m)
    /\ phase = "execute" => cmod = cpu.PSR.CMOD
    /\ phase \in {"dispatch", "test"} => \A m \in Mode : UpToDate(m)
    /\ phase \in {"start", "begin"} =>
         (\A m \in Mode : UpToDate(m)) \/ cmod = cpu.PSR.CMOD

LEMMA StackIsNumber == \A s \in SP : s # None
BY NoneAssumption, AddressAssumption DEF SP

LEMMA StackExecute == TypeOK /\ StackInv /\ Execute => StackInv'
<1> SUFFICES ASSUME TypeOK /\ StackInv, Execute PROVE StackInv'
  OBVIOUS
<1> USE StackIsNumber DEF TypeOK, Executing, Quiet, StackInv, Mode, UpToDate, Given
<1>1. CASE Plain
  BY <1>1 DEF Plain
<1>2. CASE IoStore
  BY <1>2 DEF IoStore
<1>3. CASE Push
  BY <1>3, NextStack DEF Push, MoveSP
<1>4. CASE Pop
  BY <1>4, NextStack DEF Pop, MoveSP
<1>5. CASE Ib
  BY <1>5 DEF Ib
<1>6. CASE Abort
  BY <1>6 DEF Abort, regs, cycle, hist
<1>7. ASSUME NEW f \in Flag, Arith(f) PROVE StackInv'
  BY <1>7 DEF Arith
<1>8. ASSUME NEW t \in PC, NEW c \in BOOLEAN, Branch(t, c) PROVE StackInv'
  BY <1>8 DEF Branch
<1>9. ASSUME NEW v \in MemoryFault, Fault(v) PROVE StackInv'
  BY <1>9 DEF Fault
<1>10. ASSUME NEW s \in SP, Srspw(s) PROVE StackInv'
  BY <1>10 DEF Srspw, MoveSP
<1>11. ASSUME NEW s \in SP, Sruspw(s) PROVE StackInv'
  BY <1>11 DEF Sruspw, cycle
<1>12. ASSUME NEW pc \in PC, Srppcw(pc) PROVE StackInv'
  BY <1>12 DEF Srppcw, WriteSaved, Forget
<1>13. ASSUME NEW psr \in Psr, Srppsw(psr) PROVE StackInv'
  BY <1>13 DEF Srppsw, WriteSaved, Forget
<1>14. ASSUME NEW f \in Flags, Srpflagw(f) PROVE StackInv'
  BY <1>14 DEF Srpflagw, WriteSaved, Forget
<1>15. ASSUME NEW b \in BOOLEAN, Srieiw(b) PROVE StackInv'
  BY <1>15 DEF Srieiw
<1>16. ASSUME NEW psr \in Psr, Srpsw(psr) PROVE StackInv'
  BY <1>16 DEF Srpsw, Forget
<1>17. ASSUME NEW table \in IdtTables, Idts(table) PROVE StackInv'
  BY <1>17 DEF Idts, regs, cycle, hist
<1>18. ASSUME NEW num \in SwiNum \union {IDT_DIVERROR_NUM}, Trap(num) PROVE StackInv'
  BY <1>18 DEF Trap, regs
<1>19. QED
  BY <1>1, <1>2, <1>3, <1>4, <1>5, <1>6, <1>7, <1>8, <1>9, <1>10, <1>11, <1>12, <1>13, <1>14, <1>15, <1>16, <1>17, <1>18 DEF Execute


LEMMA StackNext == TypeOK /\ StackInv /\ [Next]_vars => StackInv'
<1> SUFFICES ASSUME TypeOK, StackInv, [Next]_vars PROVE StackInv'
  OBVIOUS
<1> USE DEF TypeOK, StackInv, Mode, UpToDate, Given
<1>1. CASE UNCHANGED vars
  BY <1>1 DEF vars, regs, hist
<1>2. CASE Start
  BY <1>2 DEF Start, regs, hist
<1>3. CASE Begin
  <2>1. cpu.PSR.CMOD \in Mode
    BY DEF Psr
  <2>2. CASE cmod = cpu.PSR.CMOD
    BY <1>3, <2>2 DEF Begin, ChosenStack, hist
  <2>3. CASE cmod # cpu.PSR.CMOD
    BY <1>3, <2>1, <2>3 DEF Begin, ChosenStack, hist
  <2>4. QED
    BY <2>2, <2>3
<1>4. CASE Execute
  BY <1>4, StackExecute
<1>5. CASE Retire
  <2>1. bank' = [bank EXCEPT ![cmod] = SPR] /\ UNCHANGED <<SPR, cmod, seen>>
    BY <1>5 DEF Retire, Writeback
  <2>2. \A m \in Mode : UpToDate(m)'
    BY <2>1
  <2>3. phase' = "dispatch"
    BY <1>5 DEF Retire
  <2>4. QED
    BY <2>1, <2>2, <2>3
<1>6. CASE Dispatch
  <2>1. phase' = "test" /\ phase = "dispatch" /\ UNCHANGED <<SPR, bank, cmod, seen>>
    BY <1>6 DEF Dispatch
  <2>2. QED
    BY <2>1
<1>7. CASE Test
  <2>1. phase = "test" /\ phase' \in {"done", "begin"}
    BY <1>7 DEF Test
  <2>2. UNCHANGED <<SPR, bank, cmod, seen>>
    BY <1>7 DEF Test, regs
  <2>3. QED
    BY <2>1, <2>2
<1>8. CASE Sigint
  BY <1>8 DEF Sigint, regs
<1>9. ASSUME NEW d \in Device, DeviceChange(d) PROVE StackInv'
  <2>1. UNCHANGED <<phase, regs, hist>>
    BY <1>9 DEF DeviceChange
  <2>2. QED
    BY <2>1 DEF regs, hist
<1>10. QED
  BY <1>1, <1>2, <1>3, <1>4, <1>5, <1>6, <1>7, <1>8, <1>9
     DEF Next, Cycle, Terminated

LEMMA InitStack == Init => StackInv
<1> SUFFICES ASSUME Init PROVE StackInv
  OBVIOUS
<1>1. seen = [kernel |-> None, user |-> 0] /\ cmod = "kernel" /\ SPR = 0
  BY DEF Init
<1>2. bank = [kernel |-> StackDefault, user |-> 0] /\ phase = "start"
  BY DEF Init
<1>3. cpu.PSR.CMOD = "kernel"
  BY DEF Init
<1>4. QED
  BY <1>1, <1>2, <1>3 DEF StackInv, UpToDate, Given, Mode

(* For every program, interrupt table and pattern of interrupts, the       *)
(* stack pointer an instruction works with is the one its mode last had.   *)
THEOREM StacksBanked == Spec => []StackBanked
<1>1. StackInv => StackBanked
  BY DEF StackInv, StackBanked
<1>2. QED
  BY <1>1, InitStack, InitType, NextType, StackNext, PTL DEF Spec

(* The stack that exec sets up by default is never used, for every value   *)
(* of STACK_DEFAULT and every program: a kernel that has not given itself  *)
(* a stack pointer runs on 0 from its first instruction (simulator.c:120). *)
THEOREM DefaultStackUnused == Spec => []DefaultStackLost
<1>1. StackInv => DefaultStackLost
  BY DEF StackInv, DefaultStackLost, Given
<1>2. QED
  BY <1>1, InitStack, InitType, NextType, StackNext, PTL DEF Spec

-----------------------------------------------------------------------------
(* What a cycle leaves in the pending-trap, fault, branch and write-back   *)
(* variables, phase by phase.                                              *)
CleanInv ==
    /\ phase \in {"start", "begin", "execute", "test", "done"} =>
         interrupt_nmi = None /\ fault = None /\ next_PCR = None /\ io_writeback = FALSE
    /\ phase = "dispatch" => fault = None /\ next_PCR = None /\ io_writeback = FALSE

LEMMA CleanNext == CleanInv /\ [Next]_vars => CleanInv'
<1> SUFFICES ASSUME CleanInv, [Next]_vars PROVE CleanInv'
  OBVIOUS
<1> USE DEF CleanInv
<1>1. CASE UNCHANGED vars
  BY <1>1 DEF vars, cycle
<1>2. CASE Start
  BY <1>2 DEF Start, cycle
<1>3. CASE Begin
  BY <1>3 DEF Begin
<1>4. CASE Execute
  <2>1. phase' \in {"retire", "aborted", "invalid FLAGR"}
    BY <1>4 DEF Execute, Executing, Plain, IoStore, Push, Pop, Ib, Abort, Arith,
                Branch, Fault, Srspw, Sruspw, Srppcw, Srppsw, Srpflagw,
                WriteSaved, Srieiw, Srpsw, Idts, Trap
  <2>2. QED
    BY <2>1
<1>5. CASE Retire
  <2>1. phase' = "dispatch" /\ fault' = None /\ next_PCR' = None /\ io_writeback' = FALSE
    BY <1>5 DEF Retire, Written
  <2>2. QED
    BY <2>1
<1>6. CASE Dispatch
  <2>1. phase = "dispatch" /\ phase' = "test" /\ interrupt_nmi' = None
    BY <1>6 DEF Dispatch
  <2>2. UNCHANGED <<next_PCR, fault, io_writeback>>
    BY <1>6 DEF Dispatch
  <2>3. QED
    BY <2>1, <2>2
<1>7. CASE Test
  <2>1. phase = "test" /\ phase' \in {"done", "begin"} /\ UNCHANGED cycle
    BY <1>7 DEF Test
  <2>2. QED
    BY <2>1 DEF cycle
<1>8. CASE Sigint
  BY <1>8 DEF Sigint, cycle
<1>9. ASSUME NEW d \in Device, DeviceChange(d) PROVE CleanInv'
  <2>1. UNCHANGED <<phase, cycle>>
    BY <1>9 DEF DeviceChange
  <2>2. QED
    BY <2>1 DEF cycle
<1>10. QED
  BY <1>1, <1>2, <1>3, <1>4, <1>5, <1>6, <1>7, <1>8, <1>9
     DEF Next, Cycle, Terminated

(* For every program: no trap, fault, branch or I/O write-back outlives    *)
(* its cycle.                                                              *)
THEOREM CyclesClean == Spec => []CycleClean
<1>1. Init => CleanInv
  BY DEF Init, CleanInv
<1>2. CleanInv => CycleClean
  BY DEF CleanInv, CycleClean
<1>3. QED
  BY <1>1, <1>2, CleanNext, PTL DEF Spec

-----------------------------------------------------------------------------
(* The user program.  While it is known, its context is in the processor   *)
(* registers in user mode, in the saved registers in kernel mode, and on   *)
(* its way from the ones to the others in the cycle of an ib.              *)
UserHere  == cpu.PCR = user.pc /\ cpu.FLAGR.value = user.flag
UserSaved == cpu.PPCR = user.pc /\ cpu.PFLAGR.value = user.flag

UserInv ==
    /\ user.known =>
         /\ (phase # "retire" /\ cpu.PSR.CMOD = "user") => UserHere
         /\ (phase = "retire" /\ cmod = "kernel" /\ cpu.PSR.CMOD = "user") =>
              /\ next_PCR = user.pc /\ fault = None
              /\ cpu.FLAGR.value = user.flag
         /\ (cpu.PSR.CMOD = "kernel" /\ (phase = "retire" => cmod = "kernel")) =>
              UserSaved /\ cpu.PPSR.CMOD = "user"

\* at the end of the cycle, one handler was entered at most
EntryInv == /\ phase # "test" => entries = 0
            /\ entries <= 1

LEMMA EntryNext == TypeOK /\ EntryInv /\ [Next]_vars => EntryInv'
<1> SUFFICES ASSUME TypeOK, EntryInv, [Next]_vars PROVE EntryInv'
  OBVIOUS
<1> USE DEF EntryInv
<1>1. CASE UNCHANGED vars
  BY <1>1 DEF vars, hist
<1>2. CASE Start \/ Begin \/ Sigint
  BY <1>2 DEF Start, Begin, Sigint, hist
<1>3. CASE Execute
  <2>1. phase # "test" /\ phase' # "test" /\ entries' = entries
    BY <1>3 DEF Execute, Executing, Plain, IoStore, Push, Pop, Ib, Abort, Arith,
                Branch, Fault, Srspw, Sruspw, Srppcw, Srppsw, Srpflagw,
                WriteSaved, Srieiw, Srpsw, Idts, Trap, Quiet, hist
  <2>2. QED
    BY <2>1
<1>4. CASE Retire
  BY <1>4 DEF Retire
<1>5. CASE Dispatch
  <2>1. Trapped => AfterTrap.PSR.IM = FALSE
    BY DEF AfterTrap, Entered, TypeOK
  <2>2. entries' <= 1 /\ phase' = "test"
    BY <1>5, <2>1 DEF Dispatch
  <2>3. QED
    BY <2>2
<1>6. CASE Test
  <2>1. entries' = 0
    BY <1>6 DEF Test
  <2>2. QED
    BY <2>1
<1>7. ASSUME NEW d \in Device, DeviceChange(d) PROVE EntryInv'
  BY <1>7 DEF DeviceChange, hist
<1>8. QED
  BY <1>1, <1>2, <1>3, <1>4, <1>5, <1>6, <1>7 DEF Next, Cycle, Terminated

(* For every program: a dispatch enters one handler at most, so a context  *)
(* being saved is never overwritten in the same cycle.                     *)
THEOREM OneEntryPerCycle == Spec => []OneEntry
<1>1. Init => EntryInv
  BY DEF Init, EntryInv
<1>2. EntryInv => OneEntry
  BY DEF EntryInv, OneEntry
<1>3. QED
  BY <1>1, <1>2, InitType, NextType, EntryNext, PTL DEF Spec

LEMMA UserExecute ==
    TypeOK /\ cmod = cpu.PSR.CMOD /\ CleanInv /\ UserInv /\ Execute => UserInv'
<1> SUFFICES ASSUME TypeOK, cmod = cpu.PSR.CMOD, CleanInv, UserInv, Execute
             PROVE  UserInv'
  OBVIOUS
<1> USE DEF TypeOK, Executing, Quiet, CleanInv, UserInv, UserHere, UserSaved
<1>1. CASE Plain
  BY <1>1 DEF Plain
<1>2. CASE IoStore
  BY <1>2 DEF IoStore
<1>3. CASE Push
  BY <1>3 DEF Push, MoveSP
<1>4. CASE Pop
  BY <1>4 DEF Pop, MoveSP
<1>5. CASE Ib
  BY <1>5 DEF Ib
<1>6. CASE Abort
  BY <1>6 DEF Abort, regs, cycle, hist
<1>7. ASSUME NEW f \in Flag, Arith(f) PROVE UserInv'
  BY <1>7 DEF Arith
<1>8. ASSUME NEW t \in PC, NEW c \in BOOLEAN, Branch(t, c) PROVE UserInv'
  BY <1>8 DEF Branch
<1>9. ASSUME NEW v \in MemoryFault, Fault(v) PROVE UserInv'
  BY <1>9 DEF Fault
<1>10. ASSUME NEW s \in SP, Srspw(s) PROVE UserInv'
  BY <1>10 DEF Srspw, MoveSP
<1>11. ASSUME NEW s \in SP, Sruspw(s) PROVE UserInv'
  BY <1>11 DEF Sruspw, cycle
<1>12. ASSUME NEW pc \in PC, Srppcw(pc) PROVE UserInv'
  BY <1>12 DEF Srppcw, WriteSaved, Forget
<1>13. ASSUME NEW psr \in Psr, Srppsw(psr) PROVE UserInv'
  BY <1>13 DEF Srppsw, WriteSaved, Forget
<1>14. ASSUME NEW f \in Flags, Srpflagw(f) PROVE UserInv'
  BY <1>14 DEF Srpflagw, WriteSaved, Forget
<1>15. ASSUME NEW b \in BOOLEAN, Srieiw(b) PROVE UserInv'
  BY <1>15 DEF Srieiw, Psr
<1>16. ASSUME NEW psr \in Psr, Srpsw(psr) PROVE UserInv'
  BY <1>16 DEF Srpsw, Forget
<1>17. ASSUME NEW table \in IdtTables, Idts(table) PROVE UserInv'
  BY <1>17 DEF Idts, regs, cycle, hist
<1>18. ASSUME NEW num \in SwiNum \union {IDT_DIVERROR_NUM}, Trap(num) PROVE UserInv'
  BY <1>18 DEF Trap, regs
<1>19. QED
  BY <1>1, <1>2, <1>3, <1>4, <1>5, <1>6, <1>7, <1>8, <1>9, <1>10, <1>11, <1>12, <1>13, <1>14, <1>15, <1>16, <1>17, <1>18 DEF Execute

LEMMA UserRetire ==
    TypeOK /\ UserInv /\ Retire => UserInv'
<1> SUFFICES ASSUME TypeOK, UserInv, Retire, user'.known PROVE UserInv'
  BY DEF UserInv
<1>1. /\ phase = "retire" /\ phase' = "dispatch" /\ cmod' = cmod
      /\ cpu' = [cpu EXCEPT !.PCR = IF fault # None THEN @
                                    ELSE IF next_PCR # None THEN next_PCR
                                    ELSE (@ + 1) % PCs]
  BY DEF Retire
<1>2. /\ cpu'.PSR = cpu.PSR /\ cpu'.FLAGR = cpu.FLAGR /\ cpu'.PPCR = cpu.PPCR
      /\ cpu'.PPSR = cpu.PPSR /\ cpu'.PFLAGR = cpu.PFLAGR
      /\ cpu'.PCR = IF fault # None THEN cpu.PCR
                    ELSE IF next_PCR # None THEN next_PCR ELSE (cpu.PCR + 1) % PCs
  BY <1>1 DEF TypeOK
<1>3. cpu.PSR.CMOD \in Mode /\ cmod \in Mode
  BY DEF TypeOK, Psr
<1>4. CASE cmod = "kernel"
  <2>1. user' = user
    BY <1>4 DEF Retire
  <2>2. CASE cpu.PSR.CMOD = "user"
    <3>1. next_PCR = user.pc /\ fault = None /\ cpu.FLAGR.value = user.flag
      BY <1>1, <1>4, <2>1, <2>2 DEF UserInv
    <3>2. next_PCR # None
      BY <3>1, NoneApart DEF TypeOK
    <3>3. QED
      BY <1>1, <1>2, <2>1, <2>2, <3>1, <3>2 DEF UserInv, UserHere
  <2>3. CASE cpu.PSR.CMOD = "kernel"
    BY <1>1, <1>2, <1>4, <2>1, <2>3 DEF UserInv, UserSaved
  <2>4. QED
    BY <1>3, <2>2, <2>3 DEF Mode
<1>5. CASE cmod = "user"
  <2>1. user'.known = (cpu.PSR.CMOD = "user") /\ user'.pc = cpu'.PCR
        /\ user'.flag = cpu.FLAGR.value
    BY <1>5 DEF Retire
  <2>2. cpu'.PSR.CMOD = "user"
    BY <1>2, <2>1
  <2>3. QED
    BY <1>1, <1>2, <2>1, <2>2 DEF UserInv, UserHere
<1>6. QED
  BY <1>3, <1>4, <1>5 DEF Mode

LEMMA UserDispatch ==
    TypeOK /\ UserInv /\ Dispatch => UserInv'
<1> SUFFICES ASSUME TypeOK, UserInv, Dispatch, user'.known PROVE UserInv'
  BY DEF UserInv
<1>1. /\ phase = "dispatch" /\ phase' = "test"
      /\ user.known /\ user'.pc = user.pc /\ user'.flag = user.flag
      /\ entries' > 0 => cpu.PSR.CMOD # "kernel"
  BY DEF Dispatch, TypeOK
<1>2. cpu.PSR.CMOD \in Mode /\ cpu \in Context
  BY DEF TypeOK, Psr, Context
<1>3. PICK c \in Context : EndCycle(c) /\ (c = cpu \/ (entries' > 0 /\
        \E v \in Vector : c = Entered(cpu, v)))
  <2>1. CASE Trapped
    <3>1. AfterTrap.PSR.IM = FALSE
      BY <2>1 DEF AfterTrap, Entered, TypeOK
    <3>2. EndCycle(AfterTrap) /\ entries' = 1
      BY <2>1, <3>1 DEF Dispatch
    <3>3. Resolved(interrupt_nmi) \in Vector
      BY <2>1, ResolvedType DEF Trapped, Trapping, TypeOK
    <3>4. AfterTrap = Entered(cpu, Resolved(interrupt_nmi))
      BY <2>1 DEF AfterTrap
    <3>5. QED
      BY <3>2, <3>3, <3>4, AfterTrapType
  <2>2. CASE ~Trapped /\ cpu.PSR.IM /\ Ready # {}
    <3>1. AfterTrap = cpu
      BY <2>2 DEF AfterTrap
    <3>2. EndCycle(Entered(cpu, Chosen)) /\ entries' = 1
      BY <2>2, <3>1 DEF Dispatch
    <3>3. Chosen \in Vector
      BY <2>2, ChosenReady, NumbersInVector DEF Ready
    <3>4. Entered(cpu, Chosen) \in Context
      BY <1>2, <3>3, EnteredType DEF TypeOK
    <3>5. QED
      BY <3>2, <3>3, <3>4
  <2>3. CASE ~Trapped /\ ~(cpu.PSR.IM /\ Ready # {})
    <3>1. AfterTrap = cpu
      BY <2>3 DEF AfterTrap
    <3>2. EndCycle(cpu)
      BY <2>3, <3>1 DEF Dispatch
    <3>3. QED
      BY <1>2, <3>2
  <2>4. QED
    BY <2>1, <2>2, <2>3
<1>4. /\ cpu'.PCR = c.PCR /\ cpu'.PSR = c.PSR /\ cpu'.FLAGR.value = c.FLAGR.value
      /\ cpu'.PPCR = c.PPCR /\ cpu'.PPSR = c.PPSR /\ cpu'.PFLAGR = c.PFLAGR
  BY <1>3 DEF EndCycle, Context, Flags
<1>5. CASE c = cpu
  BY <1>1, <1>4, <1>5 DEF UserInv, UserHere, UserSaved
<1>6. ASSUME NEW v \in Vector, c = Entered(cpu, v), entries' > 0
      PROVE  UserInv'
  <2>1. cpu.PSR.CMOD = "user"
    BY <1>1, <1>2, <1>6 DEF Mode
  <2>2. UserHere
    BY <1>1, <2>1 DEF UserInv
  <2>3. /\ c.PSR.CMOD = "kernel" /\ c.PPCR = cpu.PCR /\ c.PFLAGR = cpu.FLAGR
        /\ c.PPSR = cpu.PSR
    BY <1>2, <1>6 DEF Entered, Context
  <2>4. QED
    BY <1>1, <1>4, <2>1, <2>2, <2>3 DEF UserInv, UserHere, UserSaved
<1>7. QED
  BY <1>3, <1>5, <1>6

LEMMA UserNext ==
    TypeOK /\ StackInv /\ CleanInv /\ UserInv /\ [Next]_vars => UserInv'
<1> SUFFICES ASSUME TypeOK, StackInv, CleanInv, UserInv, [Next]_vars
             PROVE  UserInv'
  OBVIOUS
<1>1. CASE UNCHANGED vars
  BY <1>1 DEF vars, regs, cycle, hist, UserInv, UserHere, UserSaved
<1>2. CASE Start
  <2>1. phase = "start" /\ phase' = "begin" /\ UNCHANGED <<regs, cycle, hist>>
    BY <1>2 DEF Start
  <2>2. QED
    BY <2>1 DEF regs, cycle, hist, UserInv, UserHere, UserSaved
<1>3. CASE Begin
  <2>1. /\ phase = "begin" /\ phase' \in {"execute", "retire"}
        /\ cmod' = cpu.PSR.CMOD /\ UNCHANGED <<cpu, next_PCR, user>>
    BY <1>3 DEF Begin, hist
  <2>2. QED
    BY <2>1 DEF UserInv, UserHere, UserSaved
<1>4. CASE Execute
  <2>1. phase = "execute"
    BY <1>4 DEF Execute, Executing, Plain, IoStore, Push, Pop, Ib, Abort, Arith,
                Branch, Fault, Srspw, Sruspw, Srppcw, Srppsw, Srpflagw,
                WriteSaved, Srieiw, Srpsw, Idts, Trap
  <2>2. cmod = cpu.PSR.CMOD
    BY <2>1 DEF StackInv
  <2>3. QED
    BY <1>4, <2>2, UserExecute
<1>5. CASE Retire
  BY <1>5, UserRetire
<1>6. CASE Dispatch
  BY <1>6, UserDispatch
<1>7. CASE Test
  <2>1. phase = "test" /\ phase' \in {"done", "begin"} /\ UNCHANGED <<regs, user>>
    BY <1>7 DEF Test
  <2>2. QED
    BY <2>1 DEF regs, UserInv, UserHere, UserSaved
<1>8. CASE Sigint
  <2>1. UNCHANGED <<phase, regs, cycle, user>>
    BY <1>8 DEF Sigint
  <2>2. QED
    BY <2>1 DEF regs, cycle, UserInv, UserHere, UserSaved
<1>9. ASSUME NEW d \in Device, DeviceChange(d) PROVE UserInv'
  <2>1. UNCHANGED <<phase, regs, cycle, hist>>
    BY <1>9 DEF DeviceChange
  <2>2. QED
    BY <2>1 DEF regs, cycle, hist, UserInv, UserHere, UserSaved
<1>10. QED
  BY <1>1, <1>2, <1>3, <1>4, <1>5, <1>6, <1>7, <1>8, <1>9
     DEF Next, Cycle, Terminated

(* For every program, interrupt table and pattern of interrupts: an        *)
(* interrupted user program goes on where it was, with its flags, if the   *)
(* kernel neither touched the saved registers nor was interrupted itself.  *)
THEOREM UsersResume == Spec => []UserResumes
<1> DEFINE I == TypeOK /\ StackInv /\ CleanInv /\ UserInv
<1>1. Init => I
  <2>1. Init => StackInv /\ CleanInv
    BY InitStack DEF Init, CleanInv
  <2>2. Init => UserInv
    BY DEF Init, UserInv
  <2>3. QED
    BY <2>1, <2>2, InitType
<1>2. I /\ [Next]_vars => I'
  BY NextType, StackNext, CleanNext, UserNext
<1>3. I => UserResumes
  BY DEF UserInv, UserHere, UserResumes
<1>4. QED
  BY <1>1, <1>2, <1>3, PTL DEF Spec

-----------------------------------------------------------------------------
(* Traps: from the phase that asks for one to the dispatch that serves it. *)

\* The vector to enter stands ready, or the test suite's exit was asked for.
Asked == raised # None =>
    \/ interrupt_nmi = IF Valid(raised) THEN raised ELSE IDT_INVALID_IDT_NUM
    \/ TestsuiteMode /\ raised = IDT_SWIRQ_START_NUM /\ exec_finish

TrapInv == /\ phase \in {"start", "begin", "execute"} => raised = None
           /\ phase \in {"retire", "dispatch"} => Asked
           /\ TrapServed

LEMMA EnteredHere ==
    ASSUME NEW c \in Context, NEW v
    PROVE  /\ Entered(c, v).PCR = idt_cache[v].handler
           /\ Entered(c, v).PPCR = c.PCR
           /\ Entered(c, v).PSR.IM = FALSE
BY DEF Entered, Context

LEMMA EndCycleKeeps ==
    ASSUME NEW c \in Context, EndCycle(c)
    PROVE  cpu'.PCR = c.PCR /\ cpu'.PPCR = c.PPCR
BY DEF EndCycle, Context

LEMMA TrapDispatch == TypeOK /\ TrapInv /\ Dispatch => TrapInv'
<1> SUFFICES ASSUME TypeOK, TrapInv, Dispatch, raised # None
             PROVE  TrapServed'
  BY DEF Dispatch, TrapInv, TrapServed
<1>1. /\ phase = "dispatch" /\ UNCHANGED <<idt_cache, raised>>
      /\ exec_finish' = (exec_finish \/ (Trapping /\ ~Trapped))
      /\ exec_finish \in BOOLEAN
  BY DEF Dispatch, TypeOK
<1>2. CASE TestsuiteMode /\ raised = IDT_SWIRQ_START_NUM /\ exec_finish
  BY <1>1, <1>2 DEF TrapServed
<1>3. CASE interrupt_nmi = IF Valid(raised) THEN raised ELSE IDT_INVALID_IDT_NUM
  <2>1. raised \in Vector /\ interrupt_nmi \in Vector /\ Trapping
    BY <1>3, NumbersInVector, NoneApart DEF TypeOK, Trapping
  <2>2. AfterTrap \in Context /\ cpu \in Context
    BY AfterTrapType DEF TypeOK, Context
  <2>3. Trapped => cpu'.PCR = idt_cache[Resolved(interrupt_nmi)].handler
    <3> SUFFICES ASSUME Trapped PROVE cpu'.PCR = idt_cache[Resolved(interrupt_nmi)].handler
      OBVIOUS
    <3>1. /\ AfterTrap.PCR = idt_cache[Resolved(interrupt_nmi)].handler
          /\ AfterTrap.PSR.IM = FALSE
      BY <2>2, EnteredHere DEF AfterTrap
    <3>2. EndCycle(AfterTrap)
      BY <3>1 DEF Dispatch
    <3>3. QED
      BY <2>2, <3>1, <3>2, EndCycleKeeps
  <2>4. IDT_INVALID_IDT_NUM # IDT_DOUBLEFAULT_NUM
    BY DEF IDT_INVALID_IDT_NUM, IDT_DOUBLEFAULT_NUM
  <2>5. CASE Valid(raised)
    <3>1. Resolved(interrupt_nmi) = raised
      BY <1>3, <2>5 DEF Resolved
    <3>2. Trapped
      BY <2>1, <3>1, NoneApart DEF Trapped
    <3>3. QED
      BY <1>1, <2>3, <2>5, <3>1, <3>2 DEF TrapServed, Stands, Valid
  <2>6. CASE ~Valid(raised) /\ Valid(IDT_INVALID_IDT_NUM)
    <3>1. Resolved(interrupt_nmi) = IDT_INVALID_IDT_NUM
      BY <1>3, <2>6 DEF Resolved
    <3>2. Trapped
      BY <2>1, <3>1, NoneApart, NumbersInVector DEF Trapped
    <3>3. QED
      BY <1>1, <2>3, <2>6, <3>1, <3>2 DEF TrapServed, Stands, Valid
  <2>7. CASE ~Valid(raised) /\ ~Valid(IDT_INVALID_IDT_NUM)
    <3>1. Resolved(interrupt_nmi) = IF Valid(IDT_DOUBLEFAULT_NUM)
                                    THEN IDT_DOUBLEFAULT_NUM ELSE None
      BY <1>3, <2>4, <2>7 DEF Resolved
    <3>2. CASE Valid(IDT_DOUBLEFAULT_NUM)
      <4>1. Trapped
        BY <2>1, <3>1, <3>2, NoneApart, NumbersInVector DEF Trapped
      <4>2. QED
        BY <1>1, <2>3, <2>7, <3>1, <3>2, <4>1 DEF TrapServed, Stands, Valid
    <3>3. CASE ~Valid(IDT_DOUBLEFAULT_NUM)
      <4>1. ~Trapped
        BY <3>1, <3>3 DEF Trapped
      <4>2. exec_finish'
        BY <1>1, <2>1, <4>1
      <4>3. QED
        BY <1>1, <2>7, <3>3, <4>2 DEF TrapServed, Stands, Valid
    <3>4. QED
      BY <3>2, <3>3
  <2>8. QED
    BY <2>5, <2>6, <2>7
<1>4. QED
  BY <1>1, <1>2, <1>3 DEF TrapInv, Asked

LEMMA TrapExecute == TypeOK /\ TrapInv /\ Execute => TrapInv'
<1> SUFFICES ASSUME TypeOK, TrapInv, Execute PROVE TrapInv'
  OBVIOUS
<1>1. phase = "execute" /\ phase' \in {"retire", "aborted", "invalid FLAGR"}
  BY DEF Execute, Executing, Plain, IoStore, Push, Pop, Ib, Abort, Arith,
         Branch, Fault, Srspw, Sruspw, Srppcw, Srppsw, Srpflagw,
         WriteSaved, Srieiw, Srpsw, Idts, Trap
<1>2. raised = None
  BY <1>1 DEF TrapInv
<1>3. raised' = None \/ \E num \in SwiNum \union {IDT_DIVERROR_NUM} : Trap(num)
  BY <1>2 DEF Execute, Quiet, Plain, IoStore, Push, Pop, Ib, Abort, Arith,
              Branch, Fault, Srspw, Sruspw, Srppcw, Srppsw, Srpflagw,
              WriteSaved, Srieiw, Srpsw, Idts, hist
<1>4. ASSUME NEW num \in SwiNum \union {IDT_DIVERROR_NUM}, Trap(num) PROVE Asked'
  <2>1. UNCHANGED idt_cache /\ Nonmask(num)
    BY <1>4 DEF Trap
  <2>2. QED
    BY <2>1 DEF Nonmask, Asked, Valid
<1>5. Asked'
  BY <1>3, <1>4 DEF Asked
<1>6. QED
  BY <1>1, <1>5 DEF TrapInv, TrapServed

LEMMA TrapNext == TypeOK /\ TrapInv /\ [Next]_vars => TrapInv'
<1> SUFFICES ASSUME TypeOK, TrapInv, [Next]_vars PROVE TrapInv'
  OBVIOUS
<1>1. CASE UNCHANGED vars
  BY <1>1 DEF vars, regs, cycle, hist, TrapInv, Asked, TrapServed, Stands, Valid
<1>2. CASE Start
  <2>1. phase = "start" /\ phase' = "begin" /\ UNCHANGED raised
    BY <1>2 DEF Start, hist
  <2>2. QED
    BY <2>1 DEF TrapInv, TrapServed
<1>3. CASE Begin
  <2>1. phase = "begin" /\ phase' \in {"execute", "retire"} /\ UNCHANGED raised
    BY <1>3 DEF Begin, hist
  <2>2. QED
    BY <2>1 DEF TrapInv, TrapServed, Asked
<1>4. CASE Execute
  BY <1>4, TrapExecute
<1>5. CASE Retire
  <2>1. phase = "retire" /\ phase' = "dispatch" /\ UNCHANGED idt_cache
    BY <1>5 DEF Retire
  <2>2. Asked'
    <3>1. CASE fault = None
      BY <1>5, <2>1, <3>1 DEF Retire, TrapInv, Asked, Valid
    <3>2. CASE fault # None
      BY <1>5, <2>1, <3>2 DEF Retire, Nonmask, Asked, Valid
    <3>3. QED
      BY <3>1, <3>2
  <2>3. QED
    BY <2>1, <2>2 DEF TrapInv, TrapServed
<1>6. CASE Dispatch
  BY <1>6, TrapDispatch
<1>7. CASE Test
  <2>1. raised' = None /\ phase' \in {"done", "begin"}
    BY <1>7 DEF Test
  <2>2. QED
    BY <2>1 DEF TrapInv, TrapServed
<1>8. CASE Sigint
  <2>1. UNCHANGED <<phase, regs, cycle, idt_cache, raised>> /\ exec_finish' = TRUE
    BY <1>8 DEF Sigint
  <2>2. QED
    BY <2>1 DEF regs, cycle, TrapInv, Asked, TrapServed, Stands, Valid
<1>9. ASSUME NEW d \in Device, DeviceChange(d) PROVE TrapInv'
  <2>1. UNCHANGED <<phase, regs, cycle, idt_cache, exec_finish, hist>>
    BY <1>9 DEF DeviceChange
  <2>2. QED
    BY <2>1 DEF regs, cycle, hist, TrapInv, Asked, TrapServed, Stands, Valid
<1>10. QED
  BY <1>1, <1>2, <1>3, <1>4, <1>5, <1>6, <1>7, <1>8, <1>9
     DEF Next, Cycle, Terminated

(* For every program and interrupt table a trap that was asked for is      *)
(* served in its own cycle, by the first valid of its own vector, the      *)
(* invalid-vector one and the double fault, or the simulation ends.        *)
THEOREM TrapsServed == Spec => []TrapServed
<1>1. Init => TrapInv
  BY DEF Init, TrapInv, TrapServed
<1>2. TrapInv => TrapServed
  BY DEF TrapInv
<1>3. QED
  BY <1>1, <1>2, InitType, NextType, TrapNext, PTL DEF Spec

-----------------------------------------------------------------------------
(* Device interrupts *)

TakenRight == \A d \in pending \ pending' :
                  \/ Instructing /\ d \in Withdrawable
                  \/ /\ cpu.PSR.IM /\ Enabled(d)
                     /\ cpu'.PCR = idt_cache[d].handler
                     /\ cpu'.PPCR = cpu.PCR

LEMMA TakenByDispatch == TypeOK /\ Dispatch => TakenRight
<1> SUFFICES ASSUME TypeOK, Dispatch,
                    NEW d \in pending \ pending'
             PROVE  /\ cpu.PSR.IM /\ Enabled(d)
                    /\ cpu'.PCR = idt_cache[d].handler
                    /\ cpu'.PPCR = cpu.PCR
  BY DEF TakenRight
<1>1. /\ AfterTrap.PSR.IM /\ Ready # {} /\ d = Chosen
      /\ EndCycle(Entered(AfterTrap, Chosen))
  BY DEF Dispatch
<1>2. cpu \in Context /\ AfterTrap \in Context
  BY AfterTrapType DEF TypeOK, Context
<1>3. ~Trapped
  BY <1>1, <1>2, EnteredHere DEF AfterTrap
<1>4. AfterTrap = cpu
  BY <1>3 DEF AfterTrap
<1>5. Chosen \in Vector /\ Enabled(Chosen)
  BY <1>1, ChosenReady, NumbersInVector DEF Ready
<1>6. Entered(cpu, d) \in Context
  BY <1>1, <1>2, <1>5, EnteredType DEF TypeOK
<1>7. QED
  BY <1>1, <1>2, <1>4, <1>5, <1>6, EnteredHere, EndCycleKeeps

(* For every program, table and pattern of interrupts: the request of a    *)
(* device leaves only by its own handler, entered from where the program   *)
(* was, or by the guest's hand.                                            *)
THEOREM DevicesKept == Spec => DeviceKept
<1>1. TypeOK /\ [Next]_vars => TakenRight
  <2> SUFFICES ASSUME TypeOK, [Next]_vars, ~Dispatch PROVE TakenRight
    BY TakenByDispatch
  <2>1. CASE UNCHANGED pending
    BY <2>1 DEF TakenRight
  <2>2. ASSUME NEW d \in Device, DeviceChange(d) PROVE TakenRight
    BY <2>2 DEF DeviceChange, TakenRight
  <2>3. CASE Execute
    BY <2>1, <2>3
       DEF Execute, Quiet, Plain, IoStore, Push, Pop, Ib, Abort, Arith,
           Branch, Fault, Srspw, Sruspw, Srppcw, Srppsw, Srpflagw,
           WriteSaved, Srieiw, Srpsw, Idts, Trap
  <2>4. CASE Start \/ Begin \/ Retire \/ Test \/ Sigint \/ UNCHANGED vars
    BY <2>1, <2>4 DEF Start, Begin, Retire, Test, Sigint, vars
  <2>5. QED
    BY <2>2, <2>3, <2>4 DEF Next, Cycle, Terminated
<1>2. QED
  BY <1>1, InitType, NextType, PTL DEF Spec, DeviceKept, TakenRight

-----------------------------------------------------------------------------
(* Exec has of a device only its place in "pending".  Line(d) is what that *)
(* stands for: the contract DeviceLine, which Kmc, Sci and Utim64 are      *)
(* proved to keep with the same two constants.                             *)
Line(d) == INSTANCE DeviceLine WITH
               Latched <- d \in Latched, Withdrawable <- d \in Withdrawable,
               wants <- d \in pending, answer <- "none",
               turn <- IF Instructing THEN "guest" ELSE "simulator"

\* The constants of the lines in Kmc, Utim64 and Sci.
LEMMA LineConstants ==
    /\ IDT_GCI_KMC_NUM \in Latched /\ IDT_GCI_KMC_NUM \notin Withdrawable
    /\ IDT_DPS_UTIM64_NUM \notin Latched /\ IDT_DPS_UTIM64_NUM \in Withdrawable
    /\ IDT_DPS_LS_NUM \in Latched /\ IDT_DPS_LS_NUM \in Withdrawable
BY DEF Latched, Withdrawable, IDT_GCI_KMC_NUM, IDT_DPS_UTIM64_NUM, IDT_DPS_LS_NUM

(* The dispatcher is proved against every behaviour its devices may have,  *)
(* and no other: a change of a device's request between two answers, while *)
(* the loop runs, is a step of Exec if and only if the device's contract   *)
(* has it (simulator.c:77-93).                                             *)
THEOREM DevicesAccepted ==
    ASSUME TypeOK, ~Stopped, NEW d \in Device,
           UNCHANGED <<phase, regs, cycle, idt_cache, exec_finish, hist>>,
           pending' \subseteq Device, pending' \ {d} = pending \ {d},
           pending' # pending
    PROVE  DeviceChange(d) <=> Line(d)!Change
<1>1. pending \subseteq Device
  BY DEF TypeOK
<1>2. (d \in pending') <=> ~(d \in pending)
  BY <1>1
<1>3. CASE d \notin pending
  <2>1. pending' = pending \union {d}
    BY <1>2, <1>3
  <2>2. DeviceChange(d)
    BY <1>3, <2>1 DEF DeviceChange
  <2>3. Line(d)!Change
    BY <1>3 DEF Line!Change
  <2>4. QED
    BY <2>2, <2>3
<1>4. CASE d \in pending
  <2>1. pending' = pending \ {d}
    BY <1>2, <1>4
  <2>2. DeviceChange(d) <=> Instructing /\ d \in Withdrawable
    BY <1>4, <2>1 DEF DeviceChange
  <2>3. Line(d)!Change <=> Instructing /\ d \in Withdrawable
    BY <1>2, <1>4 DEF Line!Change
  <2>4. QED
    BY <2>2, <2>3
<1>5. QED
  BY <1>3, <1>4

-----------------------------------------------------------------------------
(* Progress *)

LEMMA FinishKept ==
    ASSUME exec_finish, phase # "start", [Next]_vars
    PROVE  exec_finish'
<1>1. CASE UNCHANGED vars \/ Terminated \/ Sigint \/ \E d \in Device : DeviceChange(d)
  BY <1>1 DEF vars, Terminated, Sigint, DeviceChange
<1>2. CASE Start
  BY <1>2 DEF Start
<1>3. CASE Begin \/ Retire \/ Dispatch \/ Test
  BY <1>3 DEF Begin, Retire, Nonmask, Dispatch, Test
<1>4. CASE Execute
  BY <1>4
     DEF Execute, Quiet, Plain, IoStore, Push, Pop, Ib, Abort, Arith,
         Branch, Fault, Srspw, Sruspw, Srppcw, Srppsw, Srpflagw,
         WriteSaved, Srieiw, Srpsw, Idts, Trap, Nonmask
<1>5. QED
  BY <1>1, <1>2, <1>3, <1>4 DEF Next, Cycle

LEMMA PhaseKept == [Next]_vars /\ ~Cycle => UNCHANGED phase
BY DEF Next, vars, Sigint, DeviceChange, Terminated

\* Where a step of the cycle leads to once exec_finish is set.
LEMMA PhaseMoves ==
    ASSUME Cycle, exec_finish
    PROVE  /\ phase = "begin" => phase' \in {"execute", "retire"}
           /\ phase = "execute" => phase' = "retire" \/ Stopped'
           /\ phase = "retire" => phase' = "dispatch"
           /\ phase = "dispatch" => phase' = "test"
           /\ phase = "test" => Stopped'
<1>1. CASE Start \/ Begin \/ Retire \/ Dispatch \/ Test
  BY <1>1 DEF Start, Begin, Retire, Dispatch, Test, Finished, Stopped
<1>2. CASE Execute
  BY <1>2
     DEF Execute, Plain, IoStore, Push, Pop, Ib, Abort, Arith, Branch,
         Fault, Srspw, Sruspw, Srppcw, Srppsw, Srpflagw, WriteSaved,
         Srieiw, Srpsw, Idts, Trap, Executing, Stopped
<1>3. QED
  BY <1>1, <1>2 DEF Cycle

\* As long as the loop has a next step, weak fairness of the cycle means that
\* it takes one: a signal or a device only comes in between.
LEMMA CycleGoesOn == FairSpec /\ []CanRun => [](~Stopped => <><<Cycle>>_vars)
<1>1. ~Stopped /\ [Next]_vars => ~Stopped' \/ <<Cycle>>_vars
  BY PhaseKept DEF Stopped, vars
<1>2. QED
  BY <1>1, PTL DEF FairSpec, Spec, CanRun

Finishing(p) == exec_finish /\ phase = p

(* For every program, table and pattern of signals and interrupts: once    *)
(* exec_finish is set, nothing sets it back and the loop ends within its   *)
(* cycle (exec).  That the loop has a next step, CanRun, is assumed: it    *)
(* holds by the shape of Cycle, but no prover here computes ENABLED.       *)
THEOREM FinishReached == FairSpec /\ []CanRun => FinishStops
<1> DEFINE B == Finishing("begin")
           X == Finishing("execute")
           R == Finishing("retire")
           D == Finishing("dispatch")
           T == Finishing("test")
<1>1. /\ B /\ [Next]_vars => (B \/ X \/ R)'
      /\ X /\ [Next]_vars => (X \/ R \/ Stopped)'
      /\ R /\ [Next]_vars => (R \/ D)'
      /\ D /\ [Next]_vars => (D \/ T)'
      /\ T /\ [Next]_vars => (T \/ Stopped)'
  BY FinishKept, PhaseKept, PhaseMoves DEF Finishing
<1>2. /\ B /\ <<Cycle>>_vars => (X \/ R)'
      /\ X /\ <<Cycle>>_vars => (R \/ Stopped)'
      /\ R /\ <<Cycle>>_vars => D'
      /\ D /\ <<Cycle>>_vars => T'
      /\ T /\ <<Cycle>>_vars => Stopped'
  BY FinishKept, PhaseMoves DEF Finishing, Next
<1>3. B \/ X \/ R \/ D \/ T => ~Stopped
  BY DEF Finishing, Stopped
<1>4. TypeOK /\ exec_finish /\ phase # "start" => B \/ X \/ R \/ D \/ T \/ Stopped
  BY DEF TypeOK, Phase, Finishing, Stopped
<1> HIDE DEF B, X, R, D, T
<1>5. FairSpec /\ []CanRun => (T ~> Stopped)
  BY <1>1, <1>2, <1>3, CycleGoesOn, PTL DEF FairSpec, Spec
<1>6. FairSpec /\ []CanRun => (D ~> T)
  BY <1>1, <1>2, <1>3, CycleGoesOn, PTL DEF FairSpec, Spec
<1>7. FairSpec /\ []CanRun => (R ~> D)
  BY <1>1, <1>2, <1>3, CycleGoesOn, PTL DEF FairSpec, Spec
<1>8. FairSpec /\ []CanRun => (X ~> R \/ Stopped)
  BY <1>1, <1>2, <1>3, CycleGoesOn, PTL DEF FairSpec, Spec
<1>9. FairSpec /\ []CanRun => (B ~> X \/ R)
  BY <1>1, <1>2, <1>3, CycleGoesOn, PTL DEF FairSpec, Spec
<1>10. FairSpec => []TypeOK
  BY TypeCorrect, PTL DEF FairSpec
<1>11. QED
  BY <1>4, <1>5, <1>6, <1>7, <1>8, <1>9, <1>10, PTL DEF FinishStops
=============================================================================
