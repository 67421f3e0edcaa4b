------------------------------ MODULE MmuProofs ------------------------------
(***************************************************************************)
(* Proofs about Mmu for any tables, any number of directories and a TLB of *)
(* any size.                                                               *)
(***************************************************************************)
EXTENDS Mmu, TLAPS

-----------------------------------------------------------------------------
(* Type correctness *)

LEMMA NullTypes == NullEntry \in PdEntry
BY TableAssumption, Zenon DEF NullEntry, PdEntry, Entry

LEMMA InitTypes == Init => TypeOK
<1> SUFFICES ASSUME Init PROVE TypeOK
    OBVIOUS
<1>1. NullEntry \in PdEntry /\ NullEntry \in Entry
    BY NullTypes DEF PdEntry
<1>2. [region |-> 0, slot |-> 0] \in Page
    BY SizeAssumption DEF Page, Region, Slot
<1>3. PsrReset \in Psr
    BY DEF PsrReset, Psr, Mmumod, Cmod
<1>4. /\ pd \in [Dir -> [Region -> PdEntry]]
      /\ pt \in [Pt -> [Slot -> Entry]]
      /\ memory_tlb \in [Index -> [page_num : Page, page_entry : Entry]]
    BY <1>1, <1>2 DEF Init
<1> QED BY <1>3, <1>4, TableAssumption DEF Init, TypeOK

LEMMA IndexType == ASSUME NEW page \in Page PROVE TLB_INDEX(page) \in Index
<1>1. page.region \in Int /\ Entries \in Nat \ {0}
    BY SizeAssumption DEF Page, Region
<1> QED BY <1>1 DEF TLB_INDEX, Index

LEMMA FlushedType ==
    TypeOK => Flushed \in [Index -> [page_num : Page, page_entry : Entry]]
<1> SUFFICES ASSUME TypeOK, NEW i \in Index
             PROVE  [memory_tlb[i] EXCEPT !.page_entry = NullEntry]
                        \in [page_num : Page, page_entry : Entry]
    BY DEF Flushed
<1>1. NullEntry \in Entry
    BY NullTypes DEF PdEntry
<1> QED BY <1>1 DEF TypeOK

LEMMA MarkedType ==
    ASSUME NEW e \in Entry, NEW w \in BOOLEAN
    PROVE  /\ Marked(e, w) \in Entry
           /\ Marked(e, w).r
           /\ e.d => Marked(e, w).d
           /\ \A field \in {"valid", "ex", "pe", "pp", "frame"} :
                 Marked(e, w)[field] = e[field]
BY Zenon DEF Marked, Entry

LEMMA FlushTypes ==
    ASSUME TypeOK, Flush \/ NoFlush
    PROVE  /\ memory_tlb' \in [Index -> [page_num : Page, page_entry : Entry]]
           /\ stale' \in BOOLEAN
BY FlushedType DEF Flush, NoFlush, TypeOK

LEMMA AccessTypes ==
    ASSUME TypeOK, NEW a \in Access
    PROVE  /\ a.page \in Page /\ a.page.region \in Region /\ a.page.slot \in Slot
           /\ a.is_write \in BOOLEAN /\ a.is_exec \in BOOLEAN
           /\ Directory \in Dir
           /\ pd[Directory][a.page.region] \in PdEntry
           /\ Cached(a.page) \in [page_num : Page, page_entry : Entry]
<1>1. /\ a.page \in Page /\ a.page.region \in Region /\ a.page.slot \in Slot
      /\ a.is_write \in BOOLEAN /\ a.is_exec \in BOOLEAN
    BY DEF Access, Page
<1>2. Directory \in Dir
    BY DEF TypeOK, Directory
<1> QED BY <1>1, <1>2, IndexType DEF TypeOK, Cached

LEMMA RaiseTypes ==
    ASSUME TypeOK, NEW f \in Fault, Raise(f)
    PROVE  /\ answer' \in Answer /\ memory_is_fault' \in Fault
           /\ pt' = pt /\ memory_tlb' = memory_tlb
BY DEF Raise, Faulted, Answer

LEMMA TranslateTypes ==
    ASSUME TypeOK, NEW page \in Page, NEW e \in Entry, NEW address \in Answer,
           Translate(page, e, address)
    PROVE  /\ answer' \in Answer /\ memory_is_fault' = memory_is_fault
           /\ memory_tlb' \in [Index -> [page_num : Page, page_entry : Entry]]
BY IndexType DEF Translate, TypeOK

LEMMA AddressTypes ==
    ASSUME NEW e \in Entry, NEW page \in Page
    PROVE  Large(e, page) \in Answer /\ Small(e) \in Answer /\ Direct(page) \in Answer
BY DEF Large, Small, Direct, Answer, Entry, Page

\* The four ways a walk can end.
WalkFaults(a) ==
    \E f \in Fault : Raise(f) /\ Reference(a) = Faulted(f)
WalkLarge(a) ==
    LET l1 == pd[Directory][a.page.region]
    IN  /\ l1.valid /\ l1.pe /\ Permitted(l1, PSR.cmod, a.is_write, a.is_exec)
        /\ Translate(a.page, l1, Large(l1, a.page))
        /\ UNCHANGED pt
WalkSmall(a) ==
    LET l1  == pd[Directory][a.page.region]
        l2  == pt[l1.frame][a.page.slot]
        new == Marked(l2, a.is_write)
    IN  /\ l1.valid /\ ~l1.pe /\ Permitted(l1, PSR.cmod, a.is_write, a.is_exec)
        /\ l2.valid /\ Permitted(l2, PSR.cmod, a.is_write, a.is_exec)
        /\ pt' = [pt EXCEPT ![l1.frame][a.page.slot] = new]
        /\ Translate(a.page, new, Small(new))

LEMMA WalkEnds ==
    ASSUME TypeOK, NEW a \in Access, PSR.mmumod = "L2", Walk(a)
    PROVE  WalkFaults(a) \/ WalkLarge(a) \/ WalkSmall(a)
<1> DEFINE l1 == pd[Directory][a.page.region]
           l2 == pt[l1.frame][a.page.slot]
           Denied(e) == ~Permitted(e, PSR.cmod, a.is_write, a.is_exec)
<1>1. /\ l1.valid \in BOOLEAN /\ l1.pe \in BOOLEAN
      /\ l1.valid /\ ~l1.pe => l2 \in Entry /\ l2.valid \in BOOLEAN
    <2>1. l1 \in Entry /\ (l1.valid /\ ~l1.pe => l1.frame \in Pt)
        BY AccessTypes DEF PdEntry
    <2>2. a.page.slot \in Slot
        BY AccessTypes
    <2>3. l1.valid /\ ~l1.pe => l2 \in Entry
        BY <2>1, <2>2 DEF TypeOK
    <2> QED BY <2>1, <2>3 DEF Entry
<1>2. CASE ~l1.valid /\ Raise(IDT_PAGEFAULT_NUM)
    <2>1. Reference(a) = Faulted(IDT_PAGEFAULT_NUM)
        BY <1>2 DEF Reference
    <2> QED BY <1>2, <2>1 DEF WalkFaults, Fault
<1>3. CASE l1.valid /\ Denied(l1) /\ Raise(IDT_INVALID_PRIV_NUM)
    <2>1. Reference(a) = Faulted(IDT_INVALID_PRIV_NUM)
        BY <1>3 DEF Reference
    <2> QED BY <1>3, <2>1 DEF WalkFaults, Fault
<1>4. CASE l1.valid /\ ~Denied(l1) /\ l1.pe /\ Translate(a.page, l1, Large(l1, a.page))
           /\ UNCHANGED pt
    BY <1>4 DEF WalkLarge
<1>5. CASE l1.valid /\ ~Denied(l1) /\ ~l1.pe /\ ~l2.valid /\ Raise(IDT_PAGEFAULT_NUM)
    <2>1. Reference(a) = Faulted(IDT_PAGEFAULT_NUM)
        BY <1>5 DEF Reference
    <2> QED BY <1>5, <2>1 DEF WalkFaults, Fault
<1>6. CASE l1.valid /\ ~Denied(l1) /\ ~l1.pe /\ l2.valid /\ Denied(l2)
           /\ Raise(IDT_INVALID_PRIV_NUM)
    <2>1. Reference(a) = Faulted(IDT_INVALID_PRIV_NUM)
        BY <1>6 DEF Reference
    <2> QED BY <1>6, <2>1 DEF WalkFaults, Fault
<1>7. CASE /\ l1.valid /\ ~Denied(l1) /\ ~l1.pe /\ l2.valid /\ ~Denied(l2)
           /\ pt' = [pt EXCEPT ![l1.frame][a.page.slot] = Marked(l2, a.is_write)]
           /\ Translate(a.page, Marked(l2, a.is_write), Small(Marked(l2, a.is_write)))
    BY <1>7 DEF WalkSmall
<1> QED BY <1>2, <1>3, <1>4, <1>5, <1>6, <1>7 DEF Walk, Level2

LEMMA LeafTypes ==
    ASSUME TypeOK, NEW dir \in Dir, NEW page \in Page,
           pd[dir][page.region].valid, ~ pd[dir][page.region].pe
    PROVE  /\ pd[dir][page.region].frame \in Pt
           /\ page.slot \in Slot
           /\ pt[pd[dir][page.region].frame] \in [Slot -> Entry]
           /\ pt[pd[dir][page.region].frame][page.slot] \in Entry
<1>1. page.region \in Region /\ page.slot \in Slot
    BY DEF Page
<1>2. pd[dir][page.region] \in PdEntry
    BY <1>1 DEF TypeOK
<1>3. pd[dir][page.region].frame \in Pt
    BY <1>2 DEF PdEntry
<1> QED BY <1>1, <1>3 DEF TypeOK

LEMMA WalkTypes ==
    ASSUME TypeOK, NEW a \in Access, WalkFaults(a) \/ WalkLarge(a) \/ WalkSmall(a)
    PROVE  /\ answer' \in Answer /\ memory_is_fault' \in Fault \union {None}
           /\ pt' \in [Pt -> [Slot -> Entry]]
           /\ memory_tlb' \in [Index -> [page_num : Page, page_entry : Entry]]
<1> DEFINE l1 == pd[Directory][a.page.region]
           l2 == pt[l1.frame][a.page.slot]
<1>1. CASE WalkFaults(a)
    <2>1. PICK f \in Fault : Raise(f)
        BY <1>1 DEF WalkFaults
    <2> QED BY <2>1, RaiseTypes DEF TypeOK
<1>2. CASE WalkLarge(a)
    <2>1. l1 \in Entry
        BY AccessTypes DEF PdEntry
    <2>2. Large(l1, a.page) \in Answer
        BY <2>1, AccessTypes, AddressTypes
    <2>3. Translate(a.page, l1, Large(l1, a.page)) /\ pt' = pt
        BY <1>2 DEF WalkLarge
    <2> QED BY <2>1, <2>2, <2>3, AccessTypes, TranslateTypes DEF TypeOK
<1>3. CASE WalkSmall(a)
    <2> DEFINE new == Marked(l2, a.is_write)
    <2>1. /\ l1.valid /\ ~l1.pe
          /\ pt' = [pt EXCEPT ![l1.frame][a.page.slot] = new]
          /\ Translate(a.page, new, Small(new))
        BY <1>3 DEF WalkSmall
    <2>2. l2 \in Entry /\ l1.frame \in Pt
        BY <2>1, AccessTypes, LeafTypes
    <2>3. new \in Entry
        BY <2>2, AccessTypes, MarkedType
    <2>4. Small(new) \in Answer
        BY <2>3, AccessTypes, AddressTypes
    <2>5. pt' \in [Pt -> [Slot -> Entry]]
        BY <2>1, <2>2, <2>3, AccessTypes DEF TypeOK
    <2> HIDE DEF new
    <2>6. /\ answer' \in Answer /\ memory_is_fault' = memory_is_fault
          /\ memory_tlb' \in [Index -> [page_num : Page, page_entry : Entry]]
        BY <2>1, <2>3, <2>4, AccessTypes, TranslateTypes
    <2> QED BY <2>5, <2>6 DEF TypeOK
<1> QED BY <1>1, <1>2, <1>3

LEMMA Virt2phyTypes == ASSUME TypeOK, NEW a \in Access, Virt2phy(a) PROVE TypeOK'
<1>1. /\ access' = a
      /\ UNCHANGED <<pd, PSR, PPSR, PDTR, KPDTR, PPDTR, aborted, stale>>
    BY DEF Virt2phy, regs
<1>2. /\ answer' \in Answer /\ memory_is_fault' \in Fault \union {None}
      /\ pt' \in [Pt -> [Slot -> Entry]]
      /\ memory_tlb' \in [Index -> [page_num : Page, page_entry : Entry]]
    <2>1. CASE PSR.mmumod = "direct"
        <3>1. answer' = Direct(a.page)
              /\ UNCHANGED <<pt, memory_tlb, memory_is_fault>>
            BY <2>1 DEF Virt2phy
        <3>2. a.page \in Page
            BY DEF Access
        <3>3. Direct(a.page) \in Answer
            BY <3>2 DEF Direct, Answer
        <3> QED BY <3>1, <3>3 DEF TypeOK
    <2>2. CASE PSR.mmumod = "L2" /\ Hit(a)
        <3> DEFINE e == Cached(a.page).page_entry
        <3>1. answer' = (IF e.pe THEN Large(e, a.page) ELSE Small(e))
              /\ UNCHANGED <<pt, memory_tlb, memory_is_fault>>
            BY <2>2 DEF Virt2phy
        <3>2. e \in Entry /\ a.page \in Page
            BY AccessTypes
        <3> HIDE DEF e
        <3>3. Large(e, a.page) \in Answer /\ Small(e) \in Answer
            BY <3>2, AddressTypes
        <3> QED BY <3>1, <3>3 DEF TypeOK
    <2>3. CASE PSR.mmumod = "L2" /\ ~Hit(a)
        <3>1. Walk(a)
            BY <2>3 DEF Virt2phy
        <3> QED BY <2>3, <3>1, WalkEnds, WalkTypes
    <2> QED BY <2>1, <2>2, <2>3 DEF Virt2phy
<1> QED BY <1>1, <1>2 DEF TypeOK

LEMMA WriteTypes ==
    ASSUME TypeOK,
           \/ \E w \in PdWrites : WritePd(w[1], w[2], w[3])
           \/ \E w \in PtWrites : WritePt(w[1], w[2], w[3])
    PROVE  TypeOK'
<1>1. /\ UNCHANGED <<PSR, PPSR, PDTR, KPDTR, PPDTR, memory_tlb, memory_is_fault, aborted>>
      /\ access' = None /\ answer' = None /\ stale' = TRUE
    BY DEF WritePd, WritePt, Instruction, regs
<1>2. CASE \E w \in PdWrites : WritePd(w[1], w[2], w[3])
    <2>1. PICK w \in PdWrites : WritePd(w[1], w[2], w[3])
        BY <1>2
    <2>2. w[1] \in Dir /\ w[2] \in Region /\ w[3] \in PdEntry
        BY TableAssumption
    <2>3. pd' = [pd EXCEPT ![w[1]][w[2]] = w[3]] /\ pt' = pt
        BY <2>1 DEF WritePd
    <2>4. pd' \in [Dir -> [Region -> PdEntry]]
        BY <2>2, <2>3 DEF TypeOK
    <2> QED BY <1>1, <2>3, <2>4 DEF TypeOK
<1>3. CASE \E w \in PtWrites : WritePt(w[1], w[2], w[3])
    <2>1. PICK w \in PtWrites : WritePt(w[1], w[2], w[3])
        BY <1>3
    <2>2. w[1] \in Pt /\ w[2] \in Slot /\ w[3] \in Entry
        BY TableAssumption
    <2>3. pt' = [pt EXCEPT ![w[1]][w[2]] = w[3]] /\ pd' = pd
        BY <2>1 DEF WritePt
    <2>4. pt' \in [Pt -> [Slot -> Entry]]
        BY <2>2, <2>3 DEF TypeOK
    <2> QED BY <1>1, <2>3, <2>4 DEF TypeOK
<1> QED BY <1>2, <1>3

\* The instructions that write system registers.
RegisterWrite ==
    \/ \E dir \in Dir : Srpdtw(dir) \/ Srkpdtw(dir) \/ Srppdtw(dir)
    \/ \E psr \in Psrs : Srpsw(psr) \/ Srppsw(psr)
    \/ \E m \in Mmumods : Srmmuw(m)
    \/ Ib

LEMMA RegisterTypes == ASSUME TypeOK, RegisterWrite PROVE TypeOK'
<1>1. /\ access' = None /\ answer' = None
      /\ UNCHANGED <<pd, pt, memory_is_fault>>
    BY DEF RegisterWrite, Instruction, tables, Srpdtw, Srkpdtw, Srppdtw, Srpsw,
           Srppsw, Srmmuw, Ib
<1>2. Flush \/ NoFlush
    BY DEF RegisterWrite, Srpdtw, Srkpdtw, Srppdtw, Srpsw, Srppsw, Srmmuw, Ib
<1>3. PDTR' \in Dir /\ KPDTR' \in Dir /\ PPDTR' \in Dir
    BY DEF RegisterWrite, Srpdtw, Srkpdtw, Srppdtw, Srpsw, Srppsw, Srmmuw, Ib, TypeOK
<1>4. PPSR' \in Psr
    BY PsrAssumption DEF RegisterWrite, Srpdtw, Srkpdtw, Srppdtw, Srpsw, Srppsw,
           Srmmuw, Ib, TypeOK
<1>5. PSR' \in Psr
    <2>1. ASSUME NEW m \in Mmumods, Srmmuw(m) PROVE PSR' \in Psr
        <3>1. m \in Mmumod /\ PSR \in Psr
            BY PsrAssumption DEF TypeOK
        <3> QED BY <2>1, <3>1 DEF Srmmuw, Psr
    <2> QED BY <2>1, PsrAssumption DEF RegisterWrite, Srpdtw, Srkpdtw, Srppdtw,
               Srpsw, Srppsw, Ib, TypeOK
<1>6. \A psr : WrongPageSize(psr) \in BOOLEAN
    BY Zenon DEF WrongPageSize
<1>7. aborted' \in BOOLEAN
    BY <1>6 DEF RegisterWrite, Srpdtw, Srkpdtw, Srppdtw, Srpsw, Srppsw, Srmmuw, Ib,
           TypeOK
<1> QED BY <1>1, <1>2, <1>3, <1>4, <1>5, <1>7, FlushTypes DEF TypeOK

LEMMA NextTypes == TypeOK /\ [Next]_vars => TypeOK'
<1> SUFFICES ASSUME TypeOK, [Next]_vars PROVE TypeOK'
    OBVIOUS
<1>1. CASE UNCHANGED vars
    BY <1>1 DEF vars, tables, regs, TypeOK
<1>2. CASE Unsupported
    BY <1>2 DEF Unsupported, tables, regs, TypeOK
<1>3. CASE Interrupt
    <2>1. PSR' \in Psr
        BY <1>3 DEF Interrupt, TypeOK, Psr, Cmod
    <2> QED BY <1>3, <2>1 DEF Interrupt, NoFlush, tables, TypeOK
<1> QED BY <1>1, <1>2, <1>3, Virt2phyTypes, WriteTypes, RegisterTypes
        DEF Next, Terminated, RegisterWrite

(* For any tables and a TLB of any size, every variable keeps its type:    *)
(* the walker only writes entries, and only into page tables.              *)
THEOREM TypeCorrect == Spec => []TypeOK
BY InitTypes, NextTypes, PTL DEF Spec

-----------------------------------------------------------------------------
(* The TLB follows the tables *)

LEMMA LeafKept ==
    ASSUME TypeOK, NEW a \in Access, WalkSmall(a), pd' = pd,
           NEW dir \in Dir, NEW page \in Page, NEW cached \in Entry,
           LeafOf(dir, page, cached)
    PROVE  LeafOf(dir, page, cached)'
<1> DEFINE l1  == pd[Directory][a.page.region]
           l2  == pt[l1.frame][a.page.slot]
           new == Marked(l2, a.is_write)
           m1  == pd[dir][page.region]
           m2  == pt[m1.frame][page.slot]
<1>1. /\ l1.valid /\ ~l1.pe
      /\ pt' = [pt EXCEPT ![l1.frame][a.page.slot] = new]
    BY DEF WalkSmall
<1>2. /\ l1.frame \in Pt /\ a.page.slot \in Slot /\ l2 \in Entry
    BY <1>1, AccessTypes, LeafTypes
<1>3. m1.valid /\ (m1.pe => cached = m1)
      /\ (~m1.pe => cached.r /\ SameLeaf(cached, m2))
    BY DEF LeafOf
<1>4. CASE m1.pe
    BY <1>3, <1>4 DEF LeafOf
<1>5. CASE ~m1.pe
    <2>1. m1.frame \in Pt /\ page.slot \in Slot /\ m2 \in Entry
        BY <1>3, <1>5, LeafTypes
    <2>2. pt'[m1.frame][page.slot] = m2 \/ /\ pt'[m1.frame][page.slot] = new
                                           /\ m2 = l2
        BY <1>1, <1>2, <2>1 DEF TypeOK
    <2>3. cached.r /\ SameLeaf(cached, m2)
        BY <1>3, <1>5
    <2>4. SameLeaf(cached, l2) => SameLeaf(cached, new)
        <3> SUFFICES ASSUME SameLeaf(cached, l2) PROVE SameLeaf(cached, new)
            OBVIOUS
        <3>1. a.is_write \in BOOLEAN
            BY AccessTypes
        <3>2. cached = [l2 EXCEPT !.d = cached.d] /\ (cached.d => l2.d)
            BY DEF SameLeaf
        <3>3. new.d \in BOOLEAN /\ (l2.d => new.d)
            BY <1>2, <3>1, Zenon DEF Marked, Entry
        <3>4. l2.r = TRUE
            BY <1>2, <2>3, <3>2 DEF Entry
        <3>5. [new EXCEPT !.d = cached.d] = [l2 EXCEPT !.d = cached.d]
            BY <1>2, <3>4 DEF Marked, Entry
        <3> QED BY <3>2, <3>3, <3>5 DEF SameLeaf
    <2>5. SameLeaf(cached, pt'[m1.frame][page.slot])
        BY <2>2, <2>3, <2>4
    <2> QED BY <1>3, <1>5, <2>3, <2>5 DEF LeafOf
<1> QED BY <1>4, <1>5

\* What the walker puts into the TLB.
LEMMA NewEntryCurrent ==
    ASSUME TypeOK, NEW a \in Access, WalkLarge(a) \/ WalkSmall(a), pd' = pd
    PROVE  \E e \in Entry : /\ memory_tlb' = [memory_tlb EXCEPT ![TLB_INDEX(a.page)] =
                                               [page_num |-> a.page, page_entry |-> e]]
                            /\ LET l1 == pd'[Directory][a.page.region]
                               IN  /\ l1.valid
                                   /\ l1.pe => e = l1
                                   /\ ~l1.pe => /\ e.r
                                                /\ SameLeaf(e, pt'[l1.frame][a.page.slot])
<1> DEFINE l1  == pd[Directory][a.page.region]
           l2  == pt[l1.frame][a.page.slot]
           new == Marked(l2, a.is_write)
<1>1. CASE WalkLarge(a)
    <2>1. l1 \in Entry
        BY AccessTypes DEF PdEntry
    <2> QED BY <1>1, <2>1 DEF WalkLarge, Translate
<1>2. CASE WalkSmall(a)
    <2>1. /\ l1.valid /\ ~l1.pe
          /\ pt' = [pt EXCEPT ![l1.frame][a.page.slot] = new]
          /\ memory_tlb' = [memory_tlb EXCEPT ![TLB_INDEX(a.page)] =
                              [page_num |-> a.page, page_entry |-> new]]
        BY <1>2 DEF WalkSmall, Translate
    <2>2. /\ l1.frame \in Pt /\ a.page.slot \in Slot /\ l2 \in Entry
          /\ a.is_write \in BOOLEAN
        BY <2>1, AccessTypes, LeafTypes
    <2>3. new \in Entry /\ new.r
        BY <2>2, MarkedType
    <2> HIDE DEF new
    <2>4. pt'[l1.frame][a.page.slot] = new
        BY <2>1, <2>2 DEF TypeOK
    <2>5. SameLeaf(new, new)
        BY <2>3 DEF SameLeaf, Entry
    <2> QED BY <2>1, <2>3, <2>4, <2>5
<1> QED BY <1>1, <1>2

LEMMA WalkCurrent ==
    ASSUME TypeOK, TlbCurrent, NEW a \in Access, WalkLarge(a) \/ WalkSmall(a),
           UNCHANGED <<pd, PSR, PDTR, KPDTR, stale>>
    PROVE  TlbCurrent'
<1> SUFFICES ASSUME ~stale, NEW i \in Index, memory_tlb'[i].page_entry.valid
             PROVE  (/\ TLB_INDEX(memory_tlb[i].page_num) = i
                     /\ \/ LeafOf(PDTR, memory_tlb[i].page_num, memory_tlb[i].page_entry)
                        \/ LeafOf(KPDTR, memory_tlb[i].page_num, memory_tlb[i].page_entry))'
    BY DEF TlbCurrent
<1>1. PICK e \in Entry :
          /\ memory_tlb' = [memory_tlb EXCEPT ![TLB_INDEX(a.page)] =
                              [page_num |-> a.page, page_entry |-> e]]
          /\ LET l1 == pd'[Directory][a.page.region]
             IN  /\ l1.valid
                 /\ l1.pe => e = l1
                 /\ ~l1.pe => e.r /\ SameLeaf(e, pt'[l1.frame][a.page.slot])
    BY NewEntryCurrent
<1>2. a.page \in Page /\ TLB_INDEX(a.page) \in Index
    BY AccessTypes, IndexType
<1>3. CASE i = TLB_INDEX(a.page)
    <2>1. memory_tlb'[i] = [page_num |-> a.page, page_entry |-> e]
        BY <1>1, <1>2, <1>3 DEF TypeOK
    <2>2. Directory = PDTR' \/ Directory = KPDTR'
        BY DEF Directory
    <2>3. TLB_INDEX(memory_tlb[i].page_num)' = i
        BY <1>3, <2>1 DEF TLB_INDEX
    <2>4. (memory_tlb[i].page_num = a.page /\ memory_tlb[i].page_entry = e)'
        BY <2>1
    <2>5. CASE Directory = PDTR'
        BY <1>1, <2>3, <2>4, <2>5 DEF LeafOf
    <2>6. CASE Directory = KPDTR'
        BY <1>1, <2>3, <2>4, <2>6 DEF LeafOf
    <2> QED BY <2>2, <2>5, <2>6
<1>4. CASE i # TLB_INDEX(a.page)
    <2>1. memory_tlb'[i] = memory_tlb[i]
        BY <1>1, <1>2, <1>4 DEF TypeOK
    <2> DEFINE page   == memory_tlb[i].page_num
               cached == memory_tlb[i].page_entry
    <2>2. page \in Page /\ cached \in Entry /\ PDTR \in Dir /\ KPDTR \in Dir
        BY DEF TypeOK
    <2>3. /\ TLB_INDEX(page) = i
          /\ LeafOf(PDTR, page, cached) \/ LeafOf(KPDTR, page, cached)
        BY <2>1 DEF TlbCurrent
    <2>4. \A dir \in Dir, p \in Page, c \in Entry :
              LeafOf(dir, p, c) => LeafOf(dir, p, c)'
        <3>1. CASE WalkLarge(a)
            <4>1. pt' = pt
                BY <3>1 DEF WalkLarge
            <4> QED BY <4>1 DEF LeafOf
        <3>2. CASE WalkSmall(a)
            BY <3>2, LeafKept
        <3> QED BY <3>1, <3>2
    <2>5. LeafOf(PDTR, page, cached) => LeafOf(PDTR, page, cached)'
        BY <2>1, <2>2, <2>4 DEF LeafOf
    <2>6. LeafOf(KPDTR, page, cached) => LeafOf(KPDTR, page, cached)'
        BY <2>1, <2>2, <2>4 DEF LeafOf
    <2> QED BY <2>1, <2>3, <2>5, <2>6 DEF TLB_INDEX
<1> QED BY <1>3, <1>4

\* A step that leaves the tables, the directories and the TLB alone.
LEMMA CurrentKept ==
    ASSUME TlbCurrent, UNCHANGED <<pd, pt, PDTR, KPDTR, memory_tlb, stale>>
    PROVE  TlbCurrent'
BY DEF TlbCurrent, LeafOf, TLB_INDEX

LEMMA FlushCurrent == TypeOK /\ Flush => TlbCurrent'
<1> SUFFICES ASSUME TypeOK, Flush, NEW i \in Index
             PROVE  ~ memory_tlb'[i].page_entry.valid
    BY DEF TlbCurrent
<1>1. memory_tlb'[i] = [memory_tlb[i] EXCEPT !.page_entry = NullEntry]
    BY DEF Flush, Flushed
<1>2. memory_tlb'[i].page_entry = NullEntry
    BY <1>1 DEF TypeOK
<1> QED BY <1>2 DEF NullEntry

LEMMA Virt2phyCurrent ==
    ASSUME TypeOK, TlbCurrent, NEW a \in Access, Virt2phy(a)
    PROVE  TlbCurrent'
<1>1. UNCHANGED <<pd, PSR, PDTR, KPDTR, stale>>
    BY DEF Virt2phy, regs
<1>2. CASE UNCHANGED <<pt, memory_tlb>>
    BY <1>1, <1>2, CurrentKept
<1>3. CASE PSR.mmumod = "L2" /\ Walk(a)
    <2>1. CASE WalkFaults(a)
        <3>1. UNCHANGED <<pt, memory_tlb>>
            BY <2>1 DEF WalkFaults, Raise
        <3> QED BY <1>2, <3>1
    <2>2. CASE WalkLarge(a) \/ WalkSmall(a)
        BY <1>1, <2>2, WalkCurrent
    <2> QED BY <1>3, <2>1, <2>2, WalkEnds
<1> QED BY <1>2, <1>3 DEF Virt2phy

LEMMA NextCurrent == TypeOK /\ TlbCurrent /\ [Next]_vars => TlbCurrent'
<1> SUFFICES ASSUME TypeOK, TlbCurrent, [Next]_vars PROVE TlbCurrent'
    OBVIOUS
<1>1. CASE UNCHANGED vars
    BY <1>1, CurrentKept DEF vars, tables, regs
<1>2. CASE Unsupported
    BY <1>2, CurrentKept DEF Unsupported, tables, regs
<1>3. CASE Interrupt
    BY <1>3, CurrentKept DEF Interrupt, NoFlush, tables
<1>4. CASE \/ \E w \in PdWrites : WritePd(w[1], w[2], w[3])
           \/ \E w \in PtWrites : WritePt(w[1], w[2], w[3])
    BY <1>4 DEF WritePd, WritePt, TlbCurrent
<1>5. CASE RegisterWrite
    <2>1. Flush \/ UNCHANGED <<pd, pt, PDTR, KPDTR, memory_tlb, stale>>
        BY <1>5 DEF RegisterWrite, Srpdtw, Srkpdtw, Srppdtw, Srpsw, Srppsw,
               Srmmuw, Ib, MustFlush, NoFlush, tables
    <2> QED BY <2>1, CurrentKept, FlushCurrent
<1> QED BY <1>1, <1>2, <1>3, <1>4, <1>5, Virt2phyCurrent
        DEF Next, Terminated, RegisterWrite

(* For any tables and a TLB of any size: since the last flush, each entry  *)
(* of the TLB is the current leaf entry of one of the two directories in   *)
(* force, up to a dirty bit set since, whatever was switched meanwhile.    *)
THEOREM TlbFollowsTables == Spec => []TlbCurrent
<1>1. Init => TlbCurrent
    BY DEF Init, TlbCurrent, NullEntry
<1> QED BY <1>1, InitTypes, NextTypes, NextCurrent, PTL DEF Spec

-----------------------------------------------------------------------------
(* Answers *)

LEMMA ReferenceKept ==
    ASSUME UNCHANGED <<pd, pt, PSR, PDTR, KPDTR>>, NEW a \in Access
    PROVE  Reference(a)' = Reference(a)
BY DEF Reference, Directory, Direct, Large, Small, Permitted, Faulted

\* The answer of a walk is what the tables say, before and after it.
LEMMA WalkAnswers ==
    ASSUME TypeOK, NEW a \in Access, PSR.mmumod = "L2",
           WalkFaults(a) \/ WalkLarge(a) \/ WalkSmall(a),
           UNCHANGED <<pd, PSR, PDTR, KPDTR>>
    PROVE  answer' = Reference(a)'
<1> DEFINE l1 == pd[Directory][a.page.region]
           l2 == pt[l1.frame][a.page.slot]
<1>1. CASE WalkFaults(a)
    <2>1. PICK f \in Fault : Raise(f) /\ Reference(a) = Faulted(f)
        BY <1>1 DEF WalkFaults
    <2>2. answer' = Faulted(f) /\ pt' = pt
        BY <2>1 DEF Raise
    <2> QED BY <2>1, <2>2, ReferenceKept
<1>2. CASE WalkLarge(a)
    <2>1. /\ l1.valid /\ l1.pe /\ Permitted(l1, PSR.cmod, a.is_write, a.is_exec)
          /\ answer' = Large(l1, a.page)
          /\ pt' = pt
        BY <1>2 DEF WalkLarge, Translate
    <2>2. Reference(a) = Large(l1, a.page)
        BY <2>1 DEF Reference
    <2> QED BY <2>1, <2>2, ReferenceKept
<1>3. CASE WalkSmall(a)
    <2> DEFINE new == Marked(l2, a.is_write)
    <2>1. /\ l1.valid /\ ~l1.pe /\ Permitted(l1, PSR.cmod, a.is_write, a.is_exec)
          /\ l2.valid /\ Permitted(l2, PSR.cmod, a.is_write, a.is_exec)
          /\ pt' = [pt EXCEPT ![l1.frame][a.page.slot] = new]
          /\ answer' = Small(new)
        BY <1>3 DEF WalkSmall, Translate
    <2>2. /\ l1.frame \in Pt /\ a.page.slot \in Slot /\ l2 \in Entry
          /\ a.is_write \in BOOLEAN
        BY <2>1, AccessTypes, LeafTypes
    <2>3. /\ new.valid = l2.valid /\ new.ex = l2.ex /\ new.pp = l2.pp
          /\ new.frame = l2.frame
        BY <2>2 DEF Marked, Entry
    <2>4. new.valid /\ Permitted(new, PSR.cmod, a.is_write, a.is_exec)
        BY <2>1, <2>3 DEF Permitted
    <2> HIDE DEF new
    <2>5. pt'[l1.frame][a.page.slot] = new
        BY <2>1, <2>2 DEF TypeOK
    <2>6. pd'[Directory'][a.page.region] = l1
        BY DEF Directory
    <2>7. Reference(a)' = Small(new)
        BY <2>1, <2>4, <2>5, <2>6 DEF Reference, Permitted, Small
    <2> QED BY <2>1, <2>7
<1> QED BY <1>1, <1>2, <1>3

LEMMA HitAnswers ==
    ASSUME TypeOK, TlbCurrent, NEW a \in Access, PSR.mmumod = "L2", Hit(a),
           ~stale, Regular(a.page.region)
    PROVE  LET e == Cached(a.page).page_entry
           IN  (IF e.pe THEN Large(e, a.page) ELSE Small(e)) = Reference(a)
<1> DEFINE e     == Cached(a.page).page_entry
           known == Cached(a.page).page_num
           l1    == pd[Directory][a.page.region]
           l2    == pt[l1.frame][a.page.slot]
<1>1. e \in Entry /\ known \in Page /\ a.page \in Page /\ l1 \in PdEntry
      /\ Directory \in Dir /\ a.is_write \in BOOLEAN /\ a.is_exec \in BOOLEAN
    BY AccessTypes
<1>2. /\ e.valid /\ known.region = a.page.region
      /\ e.pe \/ known.slot = a.page.slot
      /\ Permitted(e, PSR.cmod, a.is_write, a.is_exec)
    BY DEF Hit, Matches
<1>3. /\ pd[PDTR][a.page.region] = l1
      /\ pd[KPDTR][a.page.region] = l1
      /\ l1.valid /\ ~l1.pe =>
           \A s \in Slot : pt[l1.frame][s].valid =>
               ~pt[l1.frame][s].pe /\ Covers(l1, pt[l1.frame][s])
    BY DEF Regular, Directory
<1>4. LeafOf(PDTR, known, e) \/ LeafOf(KPDTR, known, e)
    BY <1>2, IndexType DEF TlbCurrent, Cached, Access
<1>5. /\ l1.valid
      /\ l1.pe => e = l1
      /\ ~l1.pe => SameLeaf(e, pt[l1.frame][known.slot])
    BY <1>2, <1>3, <1>4 DEF LeafOf
<1>6. CASE l1.pe
    BY <1>2, <1>5, <1>6 DEF Reference
<1>7. CASE ~l1.pe
    <2> DEFINE m2 == pt[l1.frame][known.slot]
    <2>1. known.slot \in Slot /\ m2 \in Entry
        BY <1>1, <1>2, <1>5, <1>7, LeafTypes
    <2>2. /\ e.valid = m2.valid /\ e.pe = m2.pe /\ e.ex = m2.ex /\ e.pp = m2.pp
          /\ e.frame = m2.frame
        BY <1>1, <1>5, <1>7, <2>1 DEF SameLeaf, Entry
    <2>3. ~m2.pe /\ Covers(l1, m2)
        BY <1>2, <1>3, <1>5, <1>7, <2>1, <2>2
    <2>4. m2 = l2
        BY <1>2, <2>2, <2>3
    <2>5. Permitted(l2, PSR.cmod, a.is_write, a.is_exec) /\ l2.valid /\ ~e.pe
        BY <1>2, <2>2, <2>3, <2>4 DEF Permitted
    <2>6. PSR.cmod \in Cmod
        BY DEF TypeOK, Psr
    <2>7. Permitted(l1, PSR.cmod, a.is_write, a.is_exec)
        BY <1>1, <2>3, <2>4, <2>5, <2>6 DEF Covers
    <2>8. Reference(a) = Small(l2)
        BY <1>5, <1>7, <2>5, <2>7 DEF Reference
    <2> QED BY <2>2, <2>4, <2>5, <2>8 DEF Small
<1> QED BY <1>6, <1>7

\* A hit is no fault.
LEMMA HitReal ==
    ASSUME NEW e \in Entry, NEW page \in Page, NEW f \in Fault
    PROVE  /\ Large(e, page) # Faulted(f) /\ Small(e) # Faulted(f)
           /\ Direct(page) # Faulted(f)
<1>1. page.slot # None /\ f # None /\ e.frame # f
    BY NoneAssumption DEF Page, Entry
<1> QED BY <1>1 DEF Large, Small, Direct, Faulted

LEMMA Virt2phyAnswers ==
    ASSUME TypeOK, TlbCurrent, NEW a \in Access, Virt2phy(a)
    PROVE  Invisible' /\ Real'
<1>1. access' = a /\ UNCHANGED <<pd, PSR, PDTR, KPDTR, stale>>
    BY DEF Virt2phy, regs
<1>2. CASE PSR.mmumod = "direct"
    <2>1. answer' = Reference(a)'
        BY <1>1, <1>2 DEF Virt2phy, Reference, Direct
    <2> QED BY <1>1, <2>1 DEF Invisible, Real, Reference
<1>3. CASE PSR.mmumod = "L2" /\ Hit(a)
    <2> DEFINE e == Cached(a.page).page_entry
    <2>1. /\ answer' = (IF e.pe THEN Large(e, a.page) ELSE Small(e))
          /\ UNCHANGED <<pt, memory_tlb>>
        BY <1>3 DEF Virt2phy
    <2>2. Reference(a)' = Reference(a)
        BY <1>1, <2>1, ReferenceKept
    <2>3. Regular(a.page.region)' => Regular(a.page.region)
        BY <1>1, <2>1 DEF Regular, Covers, Permitted
    <2>4. Invisible'
        BY <1>1, <1>3, <2>1, <2>2, <2>3, HitAnswers DEF Invisible, Reference, Regular
    <2>5. e \in Entry /\ a.page \in Page
        BY AccessTypes
    <2> HIDE DEF e
    <2>6. \A f \in Fault : answer' # Faulted(f)
        BY <2>1, <2>5, HitReal
    <2>7. Real'
        BY <2>6 DEF Real, Faulted
    <2> QED BY <2>4, <2>7
<1>4. CASE PSR.mmumod = "L2" /\ ~Hit(a)
    <2>1. Walk(a)
        BY <1>4 DEF Virt2phy
    <2>2. answer' = Reference(a)'
        BY <1>1, <1>4, <2>1, WalkEnds, WalkAnswers
    <2> QED BY <1>1, <2>2 DEF Invisible, Real, Reference
<1> QED BY <1>2, <1>3, <1>4 DEF Virt2phy

LEMMA OtherAnswers ==
    ASSUME access' = None, answer' = None
    PROVE  Invisible' /\ Real'
<1>1. \A f \in Fault : Faulted(f) \in Answer
    BY DEF Faulted, Answer
<1>2. \A f \in Fault : None # Faulted(f)
    BY <1>1, NoneAssumption
<1> QED BY <1>2 DEF Invisible, Real, Faulted

LEMMA NextAnswers ==
    TypeOK /\ TlbCurrent /\ Invisible /\ Real /\ [Next]_vars => Invisible' /\ Real'
<1> SUFFICES ASSUME TypeOK, TlbCurrent, Invisible, Real, [Next]_vars
             PROVE  Invisible' /\ Real'
    OBVIOUS
<1>1. CASE UNCHANGED <<tables, regs, access, answer, stale>>
    <2>1. UNCHANGED <<pd, pt, PSR, PDTR, KPDTR, access, answer, stale>>
        BY <1>1 DEF tables, regs
    <2>2. Reference(access)' = Reference(access)
        BY <2>1 DEF Reference, Directory, Direct, Large, Small, Permitted, Faulted
    <2>3. Regular(access.page.region)' => Regular(access.page.region)
        BY <2>1 DEF Regular, Covers, Permitted
    <2>4. Invisible'
        BY <2>1, <2>2, <2>3 DEF Invisible
    <2>5. Real'
        BY <2>1, <2>2 DEF Real, Faulted
    <2> QED BY <2>4, <2>5
<1>2. CASE Interrupt
    BY <1>2, OtherAnswers DEF Interrupt
<1>3. CASE \/ \E w \in PdWrites : WritePd(w[1], w[2], w[3])
           \/ \E w \in PtWrites : WritePt(w[1], w[2], w[3])
           \/ RegisterWrite
    BY <1>3, OtherAnswers DEF WritePd, WritePt, RegisterWrite, Instruction, Srpdtw,
           Srkpdtw, Srppdtw, Srpsw, Srppsw, Srmmuw, Ib
<1> QED BY <1>1, <1>2, <1>3, Virt2phyAnswers
        DEF Next, Terminated, Unsupported, vars, RegisterWrite

LEMMA AlwaysAnswers == Spec => [](Invisible /\ Real)
<1>1. Init => TlbCurrent /\ Invisible /\ Real
    <2>1. Init => TlbCurrent
        BY DEF Init, TlbCurrent, NullEntry
    <2>2. \A f \in Fault : None # Faulted(f)
        <3>1. \A f \in Fault : Faulted(f) \in Answer
            BY DEF Faulted, Answer
        <3> QED BY <3>1, NoneAssumption
    <2> QED BY <2>1, <2>2 DEF Init, Invisible, Real
<1> QED BY <1>1, InitTypes, NextTypes, NextCurrent, NextAnswers, PTL DEF Spec

(* For any tables and a TLB of any size, a guest that flushes the TLB      *)
(* after it changed its tables cannot tell it is there, in the regions     *)
(* where its two directories agree and the upper level does not restrict   *)
(* the lower one.                                                          *)
THEOREM TlbIsInvisible == Spec => TlbInvisible
BY AlwaysAnswers, PTL DEF TlbInvisible

(* For any tables, whatever the TLB holds and whether or not it was        *)
(* flushed, a fault is one the tables themselves give at that moment.      *)
THEOREM FaultsAreReal == Spec => FaultsReal
BY AlwaysAnswers, PTL DEF FaultsReal
=============================================================================
