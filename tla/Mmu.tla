-------------------------------- MODULE Mmu --------------------------------
(***************************************************************************)
(* Address translation: memory_addr_virt2phy (mmu.h), the TLB in front of  *)
(* it (tlb.h), the two-level page walk (memory.c), and everything that     *)
(* changes what a translation means: the instructions that write PDTR,     *)
(* KPDTR, PPDTR and PSR, interrupt_entry, interrupt_exit, and the guest's  *)
(* stores to its page tables.                                              *)
(*                                                                         *)
(* A virtual page is its level-1 index (region) and its level-2 index      *)
(* (slot); the offset in a page passes through unchanged and is left out.  *)
(* A physical address is a frame, and the slot when it is in a 4 MB page.  *)
(***************************************************************************)
EXTENDS Integers

CONSTANTS
    Regions,        \* level-1 indices are 0 .. Regions-1
    Slots,          \* level-2 indices are 0 .. Slots-1
    Entries,        \* TLB_ENTRY_MAX
    Frame, Frame0,  \* what an entry can point to; a zero entry's frame
    Pt,             \* the frames that hold page tables
    Dir, Dir0,      \* the page directories; the one at address 0
    PdWrites,       \* what the guest stores in its directories: where, and what
    PtWrites,       \* what it stores in its page tables
    Psrs, Mmumods,  \* the PSR values and the MMU modes it asks for
    None            \* no fault, no access

Region == 0 .. Regions - 1
Slot   == 0 .. Slots - 1
Index  == 0 .. Entries - 1
Page   == [region : Region, slot : Slot]

\* PSR_MMUMOD, PSR_CMOD_MASK, and whether PSR_MMUPS is PSR_MMUPS_4KB
Cmod == {"kernel", "user", "other"}
Mmumod == {"direct", "L2", "unsupported"}
Psr  == [mmumod : Mmumod, cmod : Cmod, ps4k : BOOLEAN]
PsrReset == [mmumod |-> "direct", cmod |-> "kernel", ps4k |-> FALSE]

\* interrupt.h
IDT_PAGEFAULT_NUM    == 40
IDT_INVALID_PRIV_NUM == 41

\* the bits MMU_PTE_VALID, EX, PE, R, D and PP of an entry, and its address
Entry == [valid : BOOLEAN, ex : BOOLEAN, pe : BOOLEAN, r : BOOLEAN, d : BOOLEAN,
          pp : {"RWXX", "RDXX", "RWRD", "RWRW"}, frame : Frame]
NullEntry == [valid |-> FALSE, ex |-> FALSE, pe |-> FALSE, r |-> FALSE,
              d |-> FALSE, pp |-> "RWXX", frame |-> Frame0]

\* a valid directory entry that is no 4 MB page leads to a page table
PdEntry == {e \in Entry : e.valid /\ ~e.pe => e.frame \in Pt}

Access == [page : Page, is_write : BOOLEAN, is_exec : BOOLEAN]
Fault  == {IDT_PAGEFAULT_NUM, IDT_INVALID_PRIV_NUM}
Answer == (Fault \X {None}) \union ({None} \X Page)
            \union (Frame \X Slot) \union (Frame \X {None})

ASSUME SizeAssumption == /\ Regions \in Nat \ {0} /\ Slots \in Nat \ {0}
                         /\ Entries \in Nat \ {0}
ASSUME TableAssumption == /\ Dir0 \in Dir /\ Frame0 \in Frame /\ Pt \subseteq Frame
                          /\ PdWrites \subseteq Dir \X Region \X PdEntry
                          /\ PtWrites \subseteq Pt \X Slot \X Entry
ASSUME PsrAssumption == Psrs \subseteq Psr /\ Mmumods \subseteq Mmumod
ASSUME NoneAssumption == /\ None \notin Fault /\ None \notin Slot
                         /\ None \notin Access /\ None \notin Answer
                         /\ Fault \intersect Frame = {}

VARIABLES
    pd, pt,         \* guest memory: the directories and the page tables
    PSR, PPSR, PDTR, KPDTR, PPDTR,
    memory_tlb,
    memory_is_fault,
    aborted,        \* errx has ended the process
    access,         \* history: the translation of the last step, or None
    answer,         \* history: what it returned
    stale           \* history: the tables have changed since the last flush

tables == <<pd, pt>>
regs   == <<PSR, PPSR, PDTR, KPDTR, PPDTR>>
vars   == <<tables, regs, memory_tlb, memory_is_fault, aborted, access, answer, stale>>

TypeOK == /\ pd \in [Dir -> [Region -> PdEntry]]
          /\ pt \in [Pt -> [Slot -> Entry]]
          /\ PSR \in Psr /\ PPSR \in Psr
          /\ PDTR \in Dir /\ KPDTR \in Dir /\ PPDTR \in Dir
          /\ memory_tlb \in [Index -> [page_num : Page, page_entry : Entry]]
          /\ memory_is_fault \in Fault \union {None}
          /\ aborted \in BOOLEAN
          /\ access \in Access \union {None}
          /\ answer \in Answer \union {None}
          /\ stale \in BOOLEAN

Init == /\ pd = [dir \in Dir |-> [i \in Region |-> NullEntry]]
        /\ pt = [p \in Pt |-> [s \in Slot |-> NullEntry]]
        /\ PSR = PsrReset /\ PPSR = PsrReset
        /\ PDTR = Dir0 /\ KPDTR = Dir0 /\ PPDTR = Dir0
        /\ memory_tlb = [i \in Index |-> [page_num   |-> [region |-> 0, slot |-> 0],
                                          page_entry |-> NullEntry]]
        /\ memory_is_fault = None
        /\ aborted = FALSE
        /\ access = None /\ answer = None
        /\ stale = FALSE

-----------------------------------------------------------------------------
(* mmu.h, tlb.h *)

\* memory_check_privilege
Permitted(e, cmod, is_write, is_exec) ==
    /\ is_exec => e.ex
    /\ \/ e.pp = "RWRW"
       \/ cmod = "kernel" /\ (e.pp = "RDXX" => ~is_write)
       \/ e.pp = "RWRD" /\ ~is_write

TLB_INDEX(page) == page.region % Entries
Cached(page)    == memory_tlb[TLB_INDEX(page)]

\* mutant of Matches: any page of the region
MatchesRegion(page) == /\ Cached(page).page_entry.valid
                       /\ Cached(page).page_num.region = page.region

\* The TLB has the page; of a 4 MB page only the region counts.
Matches(page) == /\ Cached(page).page_entry.valid
                 /\ Cached(page).page_num.region = page.region
                 /\ \/ Cached(page).page_entry.pe
                    \/ Cached(page).page_num.slot = page.slot

\* What a translation returns: a fault, the address itself, or the address of
\* page in the page of entry e, of 4 MB or of 4 KB.
Faulted(f)     == <<f, None>>
Direct(page)   == <<None, page>>
Large(e, page) == <<e.frame, page.slot>>
Small(e)       == <<e.frame, None>>

\* memory_tlb_flush
Flushed == [i \in Index |-> [memory_tlb[i] EXCEPT !.page_entry = NullEntry]]
Flush   == memory_tlb' = Flushed /\ stale' = FALSE
NoFlush == UNCHANGED <<memory_tlb, stale>>

-----------------------------------------------------------------------------
(* memory.c *)

Directory == IF PSR.cmod = "user" THEN PDTR ELSE KPDTR

\* mutant of Raise: only that there was a fault is kept
RaiseFlag(f) == /\ memory_is_fault' = 1
                /\ answer' = Faulted(f)
                /\ UNCHANGED <<pt, memory_tlb>>

\* memory_page_fault, memory_page_protection_fault; FI0R, the address that
\* faulted, is access.page
Raise(f) == /\ memory_is_fault' = f
            /\ answer' = Faulted(f)
            /\ UNCHANGED <<pt, memory_tlb>>

\* The walk ends at entry e and its address.
Translate(page, e, address) ==
    /\ answer' = address
    /\ memory_tlb' = [memory_tlb EXCEPT ![TLB_INDEX(page)] =
                        [page_num |-> page, page_entry |-> e]]
    /\ UNCHANGED memory_is_fault

\* mutant of Level2: the walk takes the entry from the TLB when it has one
Level2Cached(l1, page) == IF Matches(page) THEN Cached(page).page_entry
                          ELSE pt[l1.frame][page.slot]

Level2(l1, page) == pt[l1.frame][page.slot]

Marked(e, is_write) == [e EXCEPT !.r = TRUE, !.d = @ \/ is_write]

\* memory_page_walk_L2 for access a
Walk(a) ==
    LET l1      == pd[Directory][a.page.region]
        l2      == Level2(l1, a.page)
        new     == Marked(l2, a.is_write)
        Denied(e) == ~Permitted(e, PSR.cmod, a.is_write, a.is_exec)
    IN  \/ ~l1.valid /\ Raise(IDT_PAGEFAULT_NUM)
        \/ l1.valid /\ Denied(l1) /\ Raise(IDT_INVALID_PRIV_NUM)
        \/ /\ l1.valid /\ ~Denied(l1) /\ l1.pe
           /\ Translate(a.page, l1, Large(l1, a.page))
           /\ UNCHANGED pt
        \/ /\ l1.valid /\ ~Denied(l1) /\ ~l1.pe
           /\ \/ ~l2.valid /\ Raise(IDT_PAGEFAULT_NUM)
              \/ l2.valid /\ Denied(l2) /\ Raise(IDT_INVALID_PRIV_NUM)
              \/ /\ l2.valid /\ ~Denied(l2)
                 /\ pt' = [pt EXCEPT ![l1.frame][a.page.slot] = new]
                 /\ Translate(a.page, new, Small(new))

-----------------------------------------------------------------------------
(* An instruction runs until its first fault. *)
Running == ~aborted /\ memory_is_fault = None

\* An entry that denies the access is a miss: the walk decides.
Hit(a) == /\ Matches(a.page)
          /\ Permitted(Cached(a.page).page_entry, PSR.cmod, a.is_write, a.is_exec)

(* memory_addr_virt2phy, for a fetch, a load or a store *)
Virt2phy(a) ==
    /\ Running
    /\ PSR.mmumod # "unsupported"
    /\ access' = a
    /\ \/ /\ PSR.mmumod = "direct"
          /\ answer' = Direct(a.page)
          /\ UNCHANGED <<pt, memory_tlb, memory_is_fault>>
       \/ /\ PSR.mmumod = "L2" /\ Hit(a)
          /\ answer' = LET e == Cached(a.page).page_entry
                       IN  IF e.pe THEN Large(e, a.page) ELSE Small(e)
          /\ UNCHANGED <<pt, memory_tlb, memory_is_fault>>
       \/ PSR.mmumod = "L2" /\ ~Hit(a) /\ Walk(a)
    /\ UNCHANGED <<pd, regs, aborted, stale>>

\* "MMU mode (%d) not supported"
Unsupported == /\ Running
               /\ PSR.mmumod = "unsupported"
               /\ aborted' = TRUE
               /\ UNCHANGED <<tables, regs, memory_tlb, memory_is_fault,
                              access, answer, stale>>

\* Any other instruction.
Instruction == /\ Running
               /\ access' = None /\ answer' = None
               /\ UNCHANGED memory_is_fault

(* The guest writes an entry of a directory or a table. *)
WritePd(dir, i, e) == /\ Instruction
                      /\ pd' = [pd EXCEPT ![dir][i] = e]
                      /\ stale' = TRUE
                      /\ UNCHANGED <<pt, regs, memory_tlb, aborted>>
WritePt(p, s, e)   == /\ Instruction
                      /\ pt' = [pt EXCEPT ![p][s] = e]
                      /\ stale' = TRUE
                      /\ UNCHANGED <<pd, regs, memory_tlb, aborted>>

Srpdtw(dir) == /\ Instruction
               /\ PDTR' = dir
               /\ Flush
               /\ UNCHANGED <<tables, PSR, PPSR, KPDTR, PPDTR, aborted>>

Srkpdtw(dir) == /\ Instruction
                /\ KPDTR' = dir
                /\ Flush
                /\ UNCHANGED <<tables, PSR, PPSR, PDTR, PPDTR, aborted>>

Srmmuw(m) == /\ Instruction
             /\ PSR' = [PSR EXCEPT !.mmumod = m]
             /\ Flush
             /\ UNCHANGED <<tables, PPSR, PDTR, KPDTR, PPDTR, aborted>>

Srppsw(psr)  == /\ Instruction
                /\ PPSR' = psr
                /\ NoFlush
                /\ UNCHANGED <<tables, PSR, PDTR, KPDTR, PPDTR, aborted>>

Srppdtw(dir) == /\ Instruction
                /\ PPDTR' = dir
                /\ NoFlush
                /\ UNCHANGED <<tables, PSR, PPSR, PDTR, KPDTR, aborted>>

\* "MMU page size (%d) not supported"
WrongPageSize(psr) == psr.mmumod # "direct" /\ ~psr.ps4k

Srpsw(psr) ==
    /\ Instruction
    /\ PSR' = psr
    /\ IF psr.mmumod # PSR.mmumod \/ psr.cmod # PSR.cmod THEN Flush ELSE NoFlush
    /\ aborted' = WrongPageSize(psr)
    /\ UNCHANGED <<tables, PPSR, PDTR, KPDTR, PPDTR>>

\* mutant of MustFlush: only a change of the mode counts
MustFlushOnMode == PPSR.mmumod # PSR.mmumod

\* interrupt_exit
MustFlush == PPDTR # PDTR \/ PPSR.mmumod # PSR.mmumod

Ib == /\ Instruction
      /\ PSR' = PPSR
      /\ PDTR' = PPDTR
      /\ IF MustFlush THEN Flush ELSE NoFlush
      /\ aborted' = WrongPageSize(PPSR)
      /\ UNCHANGED <<tables, PPSR, KPDTR, PPDTR>>

(* interrupt_entry, for the fault of the last instruction, a trap or a     *)
(* device; Exec says when.                                                 *)
Interrupt == /\ ~aborted
             /\ memory_is_fault' = None
             /\ PPSR' = PSR
             /\ PPDTR' = PDTR
             /\ PSR' = [PSR EXCEPT !.cmod = "kernel"]
             /\ access' = None /\ answer' = None
             /\ NoFlush
             /\ UNCHANGED <<tables, PDTR, KPDTR, aborted>>

Terminated == aborted /\ UNCHANGED vars

Next == \/ \E a \in Access : Virt2phy(a)
        \/ Unsupported
        \/ \E w \in PdWrites : WritePd(w[1], w[2], w[3])
        \/ \E w \in PtWrites : WritePt(w[1], w[2], w[3])
        \/ \E dir \in Dir : Srpdtw(dir) \/ Srkpdtw(dir) \/ Srppdtw(dir)
        \/ \E psr \in Psrs : Srpsw(psr) \/ Srppsw(psr)
        \/ \E m \in Mmumods : Srmmuw(m)
        \/ Ib
        \/ Interrupt
        \/ Terminated

Spec == Init /\ [][Next]_vars

-----------------------------------------------------------------------------
(* Properties *)

\* What the tables say of access a, now and without the TLB.
Reference(a) ==
    LET l1 == pd[Directory][a.page.region]
        l2 == pt[l1.frame][a.page.slot]
        Denied(e) == ~Permitted(e, PSR.cmod, a.is_write, a.is_exec)
    IN  CASE PSR.mmumod = "direct" -> Direct(a.page)
          [] PSR.mmumod # "direct" /\ ~l1.valid -> Faulted(IDT_PAGEFAULT_NUM)
          [] PSR.mmumod # "direct" /\ l1.valid /\ Denied(l1) -> Faulted(IDT_INVALID_PRIV_NUM)
          [] PSR.mmumod # "direct" /\ l1.valid /\ ~Denied(l1) ->
               IF l1.pe THEN Large(l1, a.page)
               ELSE IF ~l2.valid THEN Faulted(IDT_PAGEFAULT_NUM)
               ELSE IF Denied(l2) THEN Faulted(IDT_INVALID_PRIV_NUM)
               ELSE Small(l2)

\* A region is regular when the user's and the kernel's directory give it the
\* same entry, which allows whatever the entries of its table allow, and the
\* table has no entry marked as a 4 MB page.
Covers(l1, l2) == \A c \in Cmod, w, x \in BOOLEAN :
                     Permitted(l2, c, w, x) => Permitted(l1, c, w, x)
Regular(i) ==
    LET l1 == pd[PDTR][i]
    IN  /\ l1 = pd[KPDTR][i]
        /\ l1.valid /\ ~l1.pe =>
             \A s \in Slot : LET l2 == pt[l1.frame][s]
                             IN  l2.valid => ~l2.pe /\ Covers(l1, l2)

\* The TLB is invisible in a regular region to a guest that flushes it after
\* it changed its tables: whatever it switched meanwhile (directory, mode, in
\* and out of handlers), it gets the address or the fault that its tables
\* give now (memory_addr_virt2phy, memory_tlb_get, interrupt_exit, i_srpsw).
Invisible == access # None /\ ~stale /\ Regular(access.page.region)
                => answer = Reference(access)
TlbInvisible == [][Invisible']_vars

\* No fault is due to the TLB: a guest need not flush it to grant more than
\* before, whatever its tables look like (memory_tlb_get, whose refusals are
\* misses).
Real == answer \in {Faulted(f) : f \in Fault} => answer = Reference(access)
FaultsReal == [][Real']_vars

\* Up to the last flush, each entry of the TLB is the current leaf entry of
\* the user's or the kernel's directory, marked as referenced there, and
\* marked dirty only if it is dirty there.
SameLeaf(cached, e) == /\ cached = [e EXCEPT !.d = cached.d]
                       /\ cached.d => e.d
LeafOf(dir, page, cached) ==
    LET l1 == pd[dir][page.region]
    IN  /\ l1.valid
        /\ l1.pe => cached = l1
        /\ ~l1.pe => cached.r /\ SameLeaf(cached, pt[l1.frame][page.slot])
TlbCurrent == ~stale => \A i \in Index :
    LET t == memory_tlb[i]
    IN  t.page_entry.valid => /\ TLB_INDEX(t.page_num) = i
                              /\ \/ LeafOf(PDTR, t.page_num, t.page_entry)
                                 \/ LeafOf(KPDTR, t.page_num, t.page_entry)
=============================================================================
