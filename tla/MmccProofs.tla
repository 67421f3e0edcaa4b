----------------------------- MODULE MmccProofs -----------------------------
(***************************************************************************)
(* Theorems about LoadStore and Mmcc, for every geometry of the caches,    *)
(* every set of words, every stack and every sector size.                  *)
(***************************************************************************)
EXTENDS Mmcc, L1CacheProofs

-----------------------------------------------------------------------------
(* Bytes of a word *)

LEMMA LowIs ==
    ASSUME NEW n \in {1, 2, 4}, NEW o \in Lane, Aligned(n, o)
    PROVE  Low(n, o) = 4 - n - o /\ o + n <= 4
BY DEF Low, Aligned, Lane

LEMMA BswapTwice ==
    ASSUME NEW S, NEW v \in [Lane -> S]
    PROVE  Bswap(v) \in [Lane -> S] /\ Bswap(Bswap(v)) = v
<1>1. \A k \in Lane : 3 - k \in Lane /\ 3 - (3 - k) = k
  BY DEF Lane
<1>2. QED
  BY <1>1 DEF Bswap

LEMMA FieldBytes ==
    ASSUME NEW v \in [Lane -> Byte], NEW n \in {1, 2, 4}, NEW o \in Lane,
           Aligned(n, o)
    PROVE  /\ Field(v, n, o) = [k \in Lane |-> IF k < n THEN Bswap(v)[o + n - 1 - k] ELSE 0]
           /\ Field(v, n, o) \in [Lane -> Byte]
<1>1. ASSUME NEW k \in Lane, k < n
      PROVE  /\ v[Low(n, o) + k] = Bswap(v)[o + n - 1 - k]
             /\ Low(n, o) + k \in Lane
  <2>1. o + n - 1 - k \in Lane /\ 3 - (o + n - 1 - k) = Low(n, o) + k
    BY <1>1, LowIs DEF Lane
  <2>2. Low(n, o) + k \in Lane
    BY <1>1, LowIs DEF Lane
  <2>3. QED
    BY <2>1, <2>2 DEF Bswap
<1>2. QED
  BY <1>1, ByteAssumption DEF Field

LEMMA MergedBytes ==
    ASSUME NEW v \in [Lane -> Byte], NEW r \in [Lane -> Byte],
           NEW n \in {1, 2, 4}, NEW o \in Lane, Aligned(n, o)
    PROVE  Bswap(Merged(v, n, o, r)) =
             [j \in Lane |-> IF j \in o .. o + n - 1 THEN r[o + n - 1 - j] ELSE Bswap(v)[j]]
<1>1. ASSUME NEW j \in Lane
      PROVE  /\ 3 - j \in Lane
             /\ j \in o .. o + n - 1 <=> 3 - j \in Low(n, o) .. Low(n, o) + n - 1
             /\ (3 - j) - Low(n, o) = o + n - 1 - j
  BY LowIs DEF Lane
<1>2. QED
  BY <1>1 DEF Bswap, Merged

-----------------------------------------------------------------------------
(* The invariant *)

\* Between the halves of a tas its word is still what was loaded, and nothing
\* else is to be done.
TasPending == tas # NoAddr => /\ dest = mem[tas]
                              /\ ~memory_is_fault
                              /\ memory_io_writeback = NoAddr

LInv == IInv /\ MmccTypeOK /\ TasPending

LEMMA WordIsBytes == Value \subseteq [Lane -> Byte] /\ One \in Value /\ Zero \in Value
BY ByteAssumption, ValueAssumption

LEMMA ReadAnswers ==
    ASSUME IInv, NEW a \in Addr, ReadWord(a)
    PROVE  mem' = mem /\ out'.value = mem[a] /\ mem[a] \in Value /\ IInv'
<1> USE DEF IInv
<1>1. mem[a] \in Value
  BY DEF TypeOK
<1>2. Next
  BY DEF ReadWord, Next
<1>3. IInv'
  BY <1>2, NextInv
<1>4. CASE ReadUncached(a)
  BY <1>1, <1>3, <1>4 DEF ReadUncached, Answer
<1>5. CASE Load(a)
  <2>1. PICK w \in Way :
          LET line == Served(mem, dcache[a.index], a, w)
          IN  /\ ServedBy(dcache[a.index], a, w)
              /\ Answer(a, line.data[a.word])
    BY <1>5 DEF Load
  <2> DEFINE line == Served(mem, dcache[a.index], a, w)
  <2>2. dcache[a.index] \in [Way -> Line] /\ a.index \in Index
    BY DEF TypeOK, Cache, Addr
  <2>3. line.valid /\ line.tag = a.tag /\ LineCoherent(mem, a.index, line)
    BY <2>1, <2>2, ServedCoherent DEF Coherence
  <2>4. a.word \in Word /\ a = [tag |-> a.tag, index |-> a.index, word |-> a.word]
    BY DEF Addr
  <2>5. line.data[a.word] = mem[a]
    BY <2>3, <2>4, PagingAssumption DEF LineCoherent
  <2>6. out'.value = mem[a]
    BY <2>1, <2>5 DEF Answer
  <2>7. QED
    BY <1>1, <1>3, <1>5, <2>6 DEF Load
<1>6. QED
  BY <1>4, <1>5 DEF ReadWord

LEMMA WriteWrites ==
    ASSUME IInv, NEW a \in Addr, NEW v \in Value, WriteWord(a, v)
    PROVE  /\ mem' = [mem EXCEPT ![a] = v]
           /\ memory_io_writeback' = IF Uncached(a) THEN a ELSE NoAddr
           /\ IInv'
<1>1. Next
  BY DEF WriteWord, Next
<1>2. QED
  BY <1>1, NextInv DEF WriteWord, Store, StoreUncached

LEMMA StackType == SPR \in 0 .. SPs - 1 => /\ (SPR - 1) % SPs \in 0 .. SPs - 1
                                           /\ (SPR + 1) % SPs \in 0 .. SPs - 1
                                           /\ Stack[SPR] \in Addr
                                           /\ Stack[(SPR - 1) % SPs] \in Addr
<1>1. ASSUME SPR \in 0 .. SPs - 1
      PROVE  (SPR - 1) % SPs \in 0 .. SPs - 1 /\ (SPR + 1) % SPs \in 0 .. SPs - 1
  BY <1>1, StackAssumption
<1>2. QED
  BY <1>1, StackAssumption

LEMMA PlaceType ==
    ASSUME mem \in [Addr -> Value], NEW r \in Addr, NEW i \in Nat
    PROVE  SectorOf(mem[r]) \in Nat /\ Place(r, i) \in Nat
<1>1. mem[r] \in [Lane -> Nat]
  BY WordIsBytes, FileAssumption
<1>2. mem[r][0] \in Nat /\ mem[r][1] \in Nat /\ mem[r][2] \in Nat
  BY <1>1 DEF Lane
<1>3. mem[r][2] % 128 \in Nat
  BY <1>2
<1>4. SectorOf(mem[r]) \in Nat
  BY <1>2, <1>3 DEF SectorOf
<1>5. Len(Buffer) \in Nat
  BY RegisterAssumption
<1>6. SectorOf(mem[r]) * Len(Buffer) \in Nat
  BY <1>4, <1>5
<1>7. QED
  BY <1>4, <1>6 DEF Place

LEMMA InitLInv == MmccInit => LInv
<1> SUFFICES ASSUME MmccInit PROVE LInv
  OBVIOUS
<1>1. mem \in [Addr -> Value]
  <2>1. \A a \in Addr : ~Uncached(a) => Program[a] \in Value
    BY FileAssumption
  <2>2. \A a \in Addr : ~Uncached(a) => Bswap(Program[a]) \in Value
    BY <2>1, FileAssumption
  <2>3. QED
    BY <2>2, ValueAssumption DEF MmccInit
<1>2. IInv
  BY <1>1, InitInv DEF MmccInit, Init
<1>3. image \in Seq(Value)
  <2>1. <<>> \in Seq(Value)
    OBVIOUS
  <2>2. image \in Cards \/ image = <<>>
    BY DEF MmccInit
  <2>3. QED
    BY <2>1, <2>2, FileAssumption
<1>4. SPR \in 0 .. SPs - 1 /\ dest \in [Lane -> Byte]
  BY StackAssumption, WordIsBytes DEF MmccInit
<1>5. QED
  BY <1>2, <1>3, <1>4 DEF LInv, IInv, MmccTypeOK, MmccInit, TasPending

-----------------------------------------------------------------------------
(* Each step of an instruction keeps the invariant and is a step, or no    *)
(* step, of the bytes.                                                     *)

\* What the guest sees of memory after a word has been written.
LEMMA BytesWritten ==
    ASSUME mem \in [Addr -> Value], NEW a \in Addr, NEW v,
           mem' = [mem EXCEPT ![a] = v]
    PROVE  [b \in Addr |-> Bswap(mem'[b])] =
             [[b \in Addr |-> Bswap(mem[b])] EXCEPT ![a] = Bswap(v)]
OBVIOUS

LEMMA LdStep ==
    ASSUME LInv, NEW a \in Addr, NEW n \in {1, 2, 4}, NEW o \in Lane,
           Aligned(n, o), Ld(a, n, o), UNCHANGED card
    PROVE  LInv' /\ Guest!Next
<1> USE DEF LInv
<1>1. mem' = mem /\ out'.value = mem[a] /\ mem[a] \in [Lane -> Byte] /\ IInv'
  BY ReadAnswers, WordIsBytes DEF Ld
<1>2. dest' = Field(mem[a], n, o) /\ dest' \in [Lane -> Byte]
  BY <1>1, FieldBytes DEF Ld
<1>3. LInv'
  BY <1>1, <1>2 DEF Ld, Ready, control, card, MmccTypeOK, TasPending, IInv
<1>4. Guest!Load(a, n, o)
  <2>1. dest' = [k \in Lane |-> IF k < n THEN Bswap(mem[a])[o + n - 1 - k] ELSE 0]
    BY <1>1, <1>2, FieldBytes
  <2>2. QED
    BY <1>1, <2>1 DEF Guest!Load, Guest!Loaded, Guest!Lane, Lane, Ld, control
<1>5. insn' = [op |-> "load", addr |-> a, size |-> n, offset |-> o, reg |-> Zero]
  BY DEF Ld, Insn
<1>6. memory_io_writeback = NoAddr /\ UNCHANGED <<SPR, image>>
  BY DEF Ld, Ready, control, card
<1>7. QED
  BY <1>3, <1>4, <1>5, <1>6 DEF Guest!Next, Guest!Execute, Guest!LoadInsn

\* Storing a word, by whichever instruction: r is the register, n its bytes.
LEMMA WriteStep ==
    ASSUME LInv, NEW a \in Addr, NEW n \in {1, 2, 4}, NEW o \in Lane,
           Aligned(n, o), NEW r \in Value, Merged(mem[a], n, o, r) \in Value,
           WriteWord(a, Merged(mem[a], n, o, r)), UNCHANGED dest
    PROVE  /\ IInv'
           /\ memory_io_writeback' \in {NoAddr} \union {b \in Addr : Uncached(b)}
           /\ Guest!Store(a, n, o, r)
<1> USE DEF LInv, IInv
<1>1. /\ mem' = [mem EXCEPT ![a] = Merged(mem[a], n, o, r)]
      /\ memory_io_writeback' = IF Uncached(a) THEN a ELSE NoAddr
      /\ IInv'
  BY WriteWrites
<1>2. mem \in [Addr -> Value] /\ mem[a] \in [Lane -> Byte] /\ r \in [Lane -> Byte]
  BY WordIsBytes DEF TypeOK
<1>3. Bswap(Merged(mem[a], n, o, r)) =
        [j \in Lane |-> IF j \in o .. o + n - 1 THEN r[o + n - 1 - j] ELSE Bswap(mem[a])[j]]
  BY <1>2, MergedBytes
<1>4. [b \in Addr |-> Bswap(mem'[b])] =
        [[b \in Addr |-> Bswap(mem[b])] EXCEPT ![a] = Bswap(Merged(mem[a], n, o, r))]
  BY <1>1, <1>2, BytesWritten
<1>5. Guest!Store(a, n, o, r)
  BY <1>1, <1>3, <1>4 DEF Guest!Store, Guest!Lane, Lane
<1>6. QED
  BY <1>1, <1>5

\* A whole word: nothing of the old one is left.
LEMMA MergedWord ==
    ASSUME NEW v, NEW r \in [Lane -> Byte]
    PROVE  Merged(v, 4, 0, r) = r
BY DEF Merged, Low, Lane

LEMMA StStep ==
    ASSUME LInv, NEW a \in Addr, NEW n \in {1, 2, 4}, NEW o \in Lane,
           Aligned(n, o), NEW r \in Value, St(a, n, o, r), UNCHANGED card
    PROVE  LInv' /\ Guest!Next
<1> USE DEF LInv
<1>1. /\ IInv' /\ Guest!Store(a, n, o, r)
      /\ memory_io_writeback' \in {NoAddr} \union {b \in Addr : Uncached(b)}
  BY WriteStep DEF St
<1>2. LInv'
  BY <1>1 DEF St, Ready, card, MmccTypeOK, TasPending, IInv
<1>3. insn' = [op |-> "store", addr |-> a, size |-> n, offset |-> o, reg |-> r]
  BY DEF St, Insn
<1>4. memory_io_writeback = NoAddr /\ UNCHANGED <<SPR, image>>
  BY DEF St, Ready, card
<1>5. QED
  BY <1>1, <1>2, <1>3, <1>4 DEF Guest!Next, Guest!Execute, Guest!StoreInsn

LEMMA PushStep ==
    ASSUME LInv, NEW r \in Value, Push(r), UNCHANGED card
    PROVE  LInv' /\ Guest!Next
<1> USE DEF LInv
<1>1. Stack[Pushed] \in Addr /\ Pushed \in 0 .. SPs - 1
  BY StackType DEF Pushed, MmccTypeOK
<1>2. Merged(mem[Stack[Pushed]], 4, 0, r) = r
  BY MergedWord, WordIsBytes
<1>3. Aligned(4, 0) /\ 0 \in Lane
  BY DEF Aligned, Lane
<1>4. /\ IInv' /\ Guest!Store(Stack[Pushed], 4, 0, r)
      /\ memory_io_writeback' \in {NoAddr} \union {b \in Addr : Uncached(b)}
  BY <1>1, <1>2, <1>3, WriteStep DEF Push
<1>5. LInv'
  BY <1>1, <1>4 DEF Push, Ready, card, MmccTypeOK, TasPending, IInv
<1>6. insn'.op = "push" /\ insn'.reg = r
  BY DEF Push, Insn
<1>7. memory_io_writeback = NoAddr /\ UNCHANGED image /\ SPR' = Pushed
  BY DEF Push, Ready, card
<1>8. Guest!Push
  BY <1>4, <1>6, <1>7 DEF Guest!Push, Guest!Down, Pushed
<1>9. QED
  BY <1>5, <1>7, <1>8 DEF Guest!Next, Guest!Execute

LEMMA PopStep ==
    ASSUME LInv, Pop, UNCHANGED card
    PROVE  LInv' /\ Guest!Next
<1> USE DEF LInv
<1> DEFINE a == Stack[SPR]
<1>1. a \in Addr /\ SPR' \in 0 .. SPs - 1 /\ SPR' = (SPR + 1) % SPs
  BY StackType DEF Pop, MmccTypeOK
<1>2. mem' = mem /\ out'.value = mem[a] /\ mem[a] \in [Lane -> Byte] /\ IInv'
  BY <1>1, ReadAnswers, WordIsBytes DEF Pop
<1>3. LInv'
  BY <1>1, <1>2 DEF Pop, Ready, card, MmccTypeOK, TasPending, IInv
<1>4. mem[a] = [k \in Lane |-> IF k < 4 THEN Bswap(mem[a])[0 + 4 - 1 - k] ELSE 0]
  <2>1. \A k \in Lane : k < 4 /\ 0 + 4 - 1 - k \in Lane /\ 3 - (0 + 4 - 1 - k) = k
    BY DEF Lane
  <2>2. QED
    BY <1>2, <2>1 DEF Bswap
<1>5. Guest!Load(Stack[SPR], 4, 0)
  BY <1>1, <1>2, <1>4 DEF Guest!Load, Guest!Loaded, Guest!Lane, Lane, Pop
<1>6. insn'.op = "pop" /\ memory_io_writeback = NoAddr /\ UNCHANGED image
  BY DEF Pop, Insn, Ready, card
<1>7. QED
  BY <1>1, <1>3, <1>5, <1>6 DEF Guest!Next, Guest!Execute, Guest!Pop

LEMMA TasLoadStep ==
    ASSUME LInv, NEW a \in Addr, TasLoad(a), UNCHANGED card
    PROVE  LInv' /\ Guest!Next
<1> USE DEF LInv
<1>1. mem' = mem /\ out'.value = mem[a] /\ mem[a] \in [Lane -> Byte] /\ IInv'
  BY ReadAnswers, WordIsBytes DEF TasLoad
<1>2. LInv'
  BY <1>1 DEF TasLoad, Ready, card, MmccTypeOK, TasPending, IInv
<1>3. mem[a] = [k \in Lane |-> IF k < 4 THEN Bswap(mem[a])[0 + 4 - 1 - k] ELSE 0]
  <2>1. \A k \in Lane : k < 4 /\ 0 + 4 - 1 - k \in Lane /\ 3 - (0 + 4 - 1 - k) = k
    BY DEF Lane
  <2>2. QED
    BY <1>1, <2>1 DEF Bswap
<1>4. Guest!Load(a, 4, 0)
  BY <1>1, <1>3 DEF Guest!Load, Guest!Loaded, Guest!Lane, Lane, TasLoad
<1>5. insn' = [op |-> "load", addr |-> a, size |-> 4, offset |-> 0, reg |-> Zero]
  BY DEF TasLoad, Insn
<1>6. memory_io_writeback = NoAddr /\ UNCHANGED <<SPR, image>>
  BY DEF TasLoad, Ready, card
<1>7. QED
  BY <1>2, <1>4, <1>5, <1>6 DEF Guest!Next, Guest!Execute, Guest!LoadInsn

LEMMA TasStoreStep ==
    ASSUME LInv, TasStore, UNCHANGED card
    PROVE  LInv' /\ Guest!Next
<1> USE DEF LInv
<1>1. tas \in Addr /\ dest = Zero /\ mem[tas] = Zero /\ memory_io_writeback = NoAddr
  BY DEF TasStore, MmccTypeOK, TasPending
<1>2. Merged(mem[tas], 4, 0, One) = One
  BY MergedWord, WordIsBytes
<1>3. Aligned(4, 0) /\ 0 \in Lane
  BY DEF Aligned, Lane
<1>4. /\ IInv' /\ Guest!Store(tas, 4, 0, One)
      /\ memory_io_writeback' \in {NoAddr} \union {b \in Addr : Uncached(b)}
  BY <1>1, <1>2, <1>3, WriteStep, WordIsBytes DEF TasStore
<1>5. LInv'
  BY <1>4 DEF TasStore, card, MmccTypeOK, TasPending, IInv
<1>6. insn'.op = "claim" /\ insn'.addr = tas
  BY DEF TasStore, Insn
<1>7. One = Guest!One
  BY DEF One, Guest!One, Guest!ZeroWord, Guest!Lane, Lane
<1>8. Zero = Guest!ZeroWord /\ Bswap(Zero) = Guest!ZeroWord
  BY ByteAssumption DEF Guest!ZeroWord, Guest!Lane, Lane, Bswap
<1>9. Guest!Claim
  BY <1>1, <1>4, <1>6, <1>7, <1>8 DEF Guest!Claim, TasStore
<1>10. QED
  BY <1>1, <1>5, <1>9 DEF Guest!Next, Guest!Execute, card

\* A fault on the way to a word: the guest sees at most the stack pointer move.
LEMMA FaultStep ==
    ASSUME LInv, PushFault \/ TasFail \/ Fault \/ Faulted, UNCHANGED card
    PROVE  LInv' /\ [Guest!Next]_(Guest!vars)
<1> USE DEF LInv
<1>1. UNCHANGED vars /\ UNCHANGED <<dest, image, fd_mmcc, halted>>
  BY DEF PushFault, TasFail, Fault, Faulted, card
<1>2. IInv'
  BY <1>1, NextInv
<1>3. CASE PushFault
  <2>1. SPR' \in 0 .. SPs - 1 /\ SPR' = (SPR - 1) % SPs
    BY <1>3, StackType DEF PushFault, Pushed, MmccTypeOK
  <2>2. LInv'
    BY <1>1, <1>2, <1>3, <2>1 DEF PushFault, Ready, MmccTypeOK, TasPending, IInv
  <2>3. memory_io_writeback = NoAddr /\ UNCHANGED memory_io_writeback /\ insn'.op = "fault"
    BY <1>3 DEF PushFault, Ready, Other
  <2>4. QED
    BY <1>1, <2>1, <2>2, <2>3
       DEF vars, Guest!Next, Guest!Execute, Guest!Slip, Guest!Down
<1>4. CASE TasFail \/ Fault \/ Faulted
  <2>1. UNCHANGED <<memory_io_writeback, insn, SPR>>
    BY <1>4 DEF TasFail, Fault, Faulted, MmccTypeOK
  <2>2. LInv'
    BY <1>1, <1>2, <1>4, <2>1
       DEF TasFail, Fault, Faulted, Ready, MmccTypeOK, TasPending, IInv
  <2>3. QED
    BY <1>1, <2>1, <2>2 DEF vars, Guest!vars
<1>5. QED
  BY <1>3, <1>4

-----------------------------------------------------------------------------
(* The card *)

LEMMA BufferType == /\ Len(Buffer) \in Nat
                    /\ DOMAIN Buffer = 1 .. Len(Buffer)
                    /\ \A a \in Addr : InBuffer(a) => /\ Uncached(a)
                                                      /\ WordOf(a) \in 1 .. Len(Buffer)
                                                      /\ Buffer[WordOf(a)] = a
                    /\ \A i \in 1 .. Len(Buffer) : /\ Buffer[i] \in Addr
                                                    /\ InBuffer(Buffer[i])
                                                    /\ WordOf(Buffer[i]) = i
<1>1. Len(Buffer) \in Nat /\ DOMAIN Buffer = 1 .. Len(Buffer)
  BY RegisterAssumption
<1>2. \A i \in DOMAIN Buffer : Buffer[i] \in Addr /\ Uncached(Buffer[i])
  BY RegisterAssumption
<1>3. \A a : InBuffer(a) => WordOf(a) \in DOMAIN Buffer /\ Buffer[WordOf(a)] = a
  BY DEF InBuffer, WordOf
<1>4. \A i \in DOMAIN Buffer : InBuffer(Buffer[i])
  BY DEF InBuffer
<1>5. \A i \in DOMAIN Buffer : WordOf(Buffer[i]) = i
  BY <1>3, <1>4, RegisterAssumption
<1>6. QED
  BY <1>1, <1>2, <1>3, <1>4, <1>5

LEMMA RegisterType == /\ GCI_MMCC_SECTOR_READ \in Addr
                      /\ GCI_MMCC_SECTOR_WRITE \in Addr
                      /\ GCI_MMCC_SECTOR_READ # GCI_MMCC_SECTOR_WRITE
                      /\ \A a \in Addr : a # NoAddr
BY RegisterAssumption, NoAddrAssumption

\* The file's i-th word of the sector is in the file, if it is that long.
LEMMA ArrivedType ==
    ASSUME LInv, NEW a \in Addr, InBuffer(a)
    PROVE  Arrived(a) \in Value
<1> DEFINE p == Place(GCI_MMCC_SECTOR_READ, WordOf(a))
<1>1. mem \in [Addr -> Value] /\ image \in Seq(Value)
  BY DEF LInv, MmccTypeOK, TypeOK
<1>2. SectorOf(mem[GCI_MMCC_SECTOR_READ]) * Len(Buffer) \in Nat /\ WordOf(a) \in Nat \ {0}
  <2>1. SectorOf(mem[GCI_MMCC_SECTOR_READ]) \in Nat
    BY <1>1, PlaceType, RegisterType
  <2>2. QED
    BY <2>1, BufferType
<1>3. p \in Nat \ {0}
  BY <1>2 DEF Place
<1>4. p <= Len(image) => image[p] \in Value
  BY <1>1, <1>3
<1>5. QED
  BY <1>1, <1>4, FileAssumption DEF Arrived

LEMMA SectorReadStep ==
    ASSUME LInv, SectorRead
    PROVE  LInv' /\ Guest!Next
<1> USE DEF LInv
<1>1. /\ mem \in [Addr -> Value]
      /\ mem' = [a \in Addr |-> IF InBuffer(a) THEN Arrived(a) ELSE mem[a]]
      /\ UNCHANGED <<icache, dcache, cache_tick, out, dest, SPR, tas, insn>>
      /\ UNCHANGED <<memory_is_fault, image, fd_mmcc, halted>>
      /\ memory_io_writeback = GCI_MMCC_SECTOR_READ
      /\ memory_io_writeback' = NoAddr
  BY DEF SectorRead, Told, Obeyed, MmccTypeOK, TypeOK
<1>2. mem' \in [Addr -> Value]
  BY <1>1, ArrivedType
<1>3. \A a \in Addr : ~Uncached(a) => mem'[a] = mem[a]
  BY <1>1, BufferType
<1>4. ASSUME NEW i \in Index, NEW line \in Line, LineCoherent(mem, i, line),
             line.valid => line.tag < MemoryMaxTag
      PROVE  LineCoherent(mem', i, line)
  <2> SUFFICES ASSUME line.valid, NEW x \in Word
               PROVE  line.data[x] = mem'[[tag |-> line.tag, index |-> i, word |-> x]]
    BY DEF LineCoherent
  <2> DEFINE b == [tag |-> line.tag, index |-> i, word |-> x]
  <2>1. b \in Addr /\ ~Uncached(b)
    BY <1>4, SizeAssumption DEF Line, Addr, Uncached, Tag
  <2>2. line.data[x] = mem[b]
    BY <1>4, PagingAssumption DEF LineCoherent
  <2>3. QED
    BY <1>3, <2>1, <2>2
<1>5. IInv'
  <2>1. icache \in Cache /\ dcache \in Cache
    BY DEF IInv, TypeOK
  <2>2. \A i \in Index, w \in Way : icache[i][w] \in Line /\ dcache[i][w] \in Line
    BY <2>1 DEF Cache
  <2>3. Coherence'
    BY <1>1, <1>4, <2>2 DEF IInv, Coherence, OnlyMemory
  <2>4. TypeOK'
    BY <1>1, <1>2 DEF IInv, TypeOK
  <2>5. TagsDistinct' /\ OnlyMemory'
    BY <1>1 DEF IInv, TagsDistinct, OnlyMemory
  <2>6. QED
    BY <2>3, <2>4, <2>5 DEF IInv
<1>6. tas = NoAddr
  BY <1>1, RegisterType DEF TasPending
<1>7. LInv'
  BY <1>1, <1>5, <1>6 DEF IInv, MmccTypeOK, TasPending
<1>8. \A i \in 1 .. Len(Buffer) :
        Guest!Place(GCI_MMCC_SECTOR_READ, i) = Place(GCI_MMCC_SECTOR_READ, i)
  <2>1. mem[GCI_MMCC_SECTOR_READ] \in [Lane -> Byte]
    BY <1>1, RegisterType, WordIsBytes
  <2>2. Guest!Number(Bswap(mem[GCI_MMCC_SECTOR_READ])) = mem[GCI_MMCC_SECTOR_READ]
    BY <2>1, BswapTwice DEF Guest!Number, Guest!Lane, Lane, Bswap
  <2>3. QED
    BY <2>2, RegisterType DEF Guest!Place, Place
<1>9. \A i \in 1 .. Len(Buffer) :
        Place(GCI_MMCC_SECTOR_READ, i) <= Len(image) =>
          Bswap(mem'[Buffer[i]]) = image[Place(GCI_MMCC_SECTOR_READ, i)]
  <2> SUFFICES ASSUME NEW i \in 1 .. Len(Buffer),
                      Place(GCI_MMCC_SECTOR_READ, i) <= Len(image)
               PROVE  Bswap(mem'[Buffer[i]]) = image[Place(GCI_MMCC_SECTOR_READ, i)]
    OBVIOUS
  <2> DEFINE p == Place(GCI_MMCC_SECTOR_READ, i)
  <2>1. mem'[Buffer[i]] = Bswap(image[p])
    BY <1>1, BufferType DEF Arrived
  <2>2. p \in 1 .. Len(image)
    <3>1. SectorOf(mem[GCI_MMCC_SECTOR_READ]) \in Nat
      BY <1>1, PlaceType, RegisterType
    <3>2. SectorOf(mem[GCI_MMCC_SECTOR_READ]) * Len(Buffer) \in Nat
      BY <3>1, BufferType
    <3>3. Len(image) \in Nat
      BY DEF MmccTypeOK
    <3>4. QED
      BY <3>2, <3>3, BufferType DEF Place
  <2>3. image[p] \in [Lane -> Byte]
    BY <2>2, WordIsBytes DEF MmccTypeOK
  <2>4. QED
    BY <2>1, <2>3, BswapTwice
<1>10. Guest!Read
  <2>1. \A i \in 1 .. Len(Buffer) :
          [a \in Addr |-> Bswap(mem'[a])][Buffer[i]] = Bswap(mem'[Buffer[i]])
    BY BufferType
  <2>2. \A a \in Addr : \/ mem'[a] = mem[a]
                        \/ \E i \in 1 .. Len(Buffer) : a = Buffer[i]
    BY <1>1, BufferType DEF InBuffer
  <2>3. QED
    BY <1>1, <1>8, <1>9, <2>1, <2>2 DEF Guest!Read
<1>11. QED
  BY <1>1, <1>7, <1>10 DEF Guest!Next, Guest!Obey

LEMMA Shift ==
    ASSUME NEW b \in Nat, NEW l \in Nat, NEW p \in Nat
    PROVE  p \in b + 1 .. b + l <=> p - b \in 1 .. l
OBVIOUS

LEMMA SectorWriteStep ==
    ASSUME LInv, SectorWrite
    PROVE  LInv' /\ Guest!Next
<1> USE DEF LInv
<1> DEFINE end == Place(GCI_MMCC_SECTOR_WRITE, Len(Buffer))
           before == Place(GCI_MMCC_SECTOR_WRITE, 0)
           length == IF Len(image) < end THEN end ELSE Len(image)
<1>1. /\ mem \in [Addr -> Value] /\ image \in Seq(Value)
      /\ image' = Stored
      /\ UNCHANGED <<vars, dest, SPR, tas, insn, memory_is_fault, fd_mmcc, halted>>
      /\ memory_io_writeback = GCI_MMCC_SECTOR_WRITE
      /\ memory_io_writeback' = NoAddr
  BY DEF SectorWrite, Told, Obeyed, MmccTypeOK, TypeOK, vars
<1>2. /\ before \in Nat /\ Len(Buffer) \in Nat /\ Len(image) \in Nat
      /\ end = before + Len(Buffer)
      /\ \A i \in Nat : Place(GCI_MMCC_SECTOR_WRITE, i) = before + i
  <2>1. SectorOf(mem[GCI_MMCC_SECTOR_WRITE]) \in Nat
    BY <1>1, PlaceType, RegisterType
  <2>2. SectorOf(mem[GCI_MMCC_SECTOR_WRITE]) * Len(Buffer) \in Nat /\ Len(Buffer) \in Nat
    BY <2>1, BufferType
  <2>3. Len(image) \in Nat
    BY <1>1
  <2>4. QED
    BY <2>2, <2>3 DEF Place
<1>3. length \in Nat
  BY <1>2
<1>4. ASSUME NEW p \in 1 .. length
      PROVE  /\ p \in before + 1 .. end <=> p - before \in 1 .. Len(Buffer)
             /\ Stored[p] = IF p \in before + 1 .. end THEN Bswap(mem[Buffer[p - before]])
                            ELSE IF p <= Len(image) THEN image[p] ELSE Zero
             /\ Stored[p] \in Value
  <2>1. p \in before + 1 .. end <=> p - before \in 1 .. Len(Buffer)
    <3>1. p \in Nat
      BY <1>3
    <3>2. QED
      BY <1>2, <3>1, Shift
  <2>2. Stored[p] = IF p \in before + 1 .. end THEN Bswap(mem[Buffer[p - before]])
                    ELSE IF p <= Len(image) THEN image[p] ELSE Zero
    BY DEF Stored
  <2>3. p \in before + 1 .. end => Bswap(mem[Buffer[p - before]]) \in Value
    BY <1>1, <2>1, BufferType, FileAssumption
  <2>4. p <= Len(image) => image[p] \in Value
    BY <1>1, <1>2, <1>3
  <2>5. QED
    BY <2>1, <2>2, <2>3, <2>4, ValueAssumption
<1>5. Stored \in Seq(Value) /\ Len(Stored) = length
  <2>1. DOMAIN Stored = 1 .. length
    BY DEF Stored
  <2>2. Stored = [p \in 1 .. length |-> Stored[p]]
    BY DEF Stored
  <2>3. Stored \in [1 .. length -> Value]
    BY <1>4, <2>1, <2>2
  <2>4. QED
    BY <1>3, <2>3
<1>6. tas = NoAddr
  BY <1>1, RegisterType DEF TasPending
<1>7. IInv'
  BY <1>1, NextInv
<1>8. LInv'
  BY <1>1, <1>5, <1>6, <1>7 DEF IInv, MmccTypeOK, TasPending, vars
<1>9. \A i \in Nat : Guest!Place(GCI_MMCC_SECTOR_WRITE, i) = before + i
  <2>1. mem[GCI_MMCC_SECTOR_WRITE] \in [Lane -> Byte]
    BY <1>1, RegisterType, WordIsBytes
  <2>2. Guest!Number(Bswap(mem[GCI_MMCC_SECTOR_WRITE])) = mem[GCI_MMCC_SECTOR_WRITE]
    BY <2>1, BswapTwice DEF Guest!Number, Guest!Lane, Lane, Bswap
  <2>3. QED
    BY <1>2, <2>2, RegisterType DEF Guest!Place, Place
<1>10. Guest!Write
  <2>1. Len(image') = length
    BY <1>1, <1>5
  <2>2. Guest!Place(GCI_MMCC_SECTOR_WRITE, 0) = before
        /\ Guest!Place(GCI_MMCC_SECTOR_WRITE, Len(Buffer)) = end
    BY <1>2, <1>9
  <2>3. Zero = Guest!ZeroWord
    BY ByteAssumption DEF Guest!ZeroWord, Guest!Lane, Lane
  <2>4. ASSUME NEW p \in 1 .. length
        PROVE  image'[p] = IF p - before \in 1 .. Len(Buffer)
                           THEN [a \in Addr |-> Bswap(mem[a])][Buffer[p - before]]
                           ELSE IF p <= Len(image) THEN image[p] ELSE Guest!ZeroWord
    BY <1>1, <1>4, <2>3, BufferType
  <2>5. QED
    BY <1>1, <2>1, <2>2, <2>4 DEF Guest!Write, vars
<1>11. QED
  BY <1>1, <1>8, <1>10 DEF Guest!Next, Guest!Obey

LEMMA NoCommandStep ==
    ASSUME LInv, NoCommand
    PROVE  LInv' /\ Guest!Next
<1> USE DEF LInv
<1>1. /\ UNCHANGED <<vars, dest, SPR, tas, insn, memory_is_fault, image, fd_mmcc, halted>>
      /\ memory_io_writeback \in Addr \ {GCI_MMCC_SECTOR_READ, GCI_MMCC_SECTOR_WRITE}
      /\ memory_io_writeback' = NoAddr
  BY DEF NoCommand, Told, Obeyed, vars
<1>2. IInv'
  BY <1>1, NextInv
<1>3. tas = NoAddr
  BY <1>1, RegisterType DEF TasPending
<1>4. LInv'
  BY <1>1, <1>2, <1>3 DEF IInv, MmccTypeOK, TasPending
<1>5. QED
  BY <1>1, <1>4, RegisterType DEF vars, Guest!Next, Guest!Obey, Guest!Ignore

-----------------------------------------------------------------------------
LEMMA MmccStep == LInv /\ [MmccNext]_mmccvars => LInv' /\ [Guest!Next]_(Guest!vars)
<1> SUFFICES ASSUME LInv, [MmccNext]_mmccvars
             PROVE  LInv' /\ [Guest!Next]_(Guest!vars)
  OBVIOUS
\* nothing happens, or errx ends the simulator
<1>1. ASSUME UNCHANGED lsvars, UNCHANGED <<image, fd_mmcc>>, halted' \in BOOLEAN
      PROVE  LInv' /\ UNCHANGED Guest!vars
  <2>1. IInv'
    BY <1>1, NextInv DEF LInv, lsvars
  <2>2. QED
    BY <1>1, <2>1 DEF LInv, IInv, lsvars, vars, control, MmccTypeOK, TasPending, Guest!vars
<1>2. CASE UNCHANGED mmccvars \/ Terminated
  BY <1>1, <1>2 DEF mmccvars, card, Terminated, LInv, MmccTypeOK
<1>3. CASE WriteHalts \/ ReadHalts
  BY <1>1, <1>3 DEF WriteHalts, ReadHalts, Halt
<1>4. CASE Instruction /\ UNCHANGED card
  <2>1. ASSUME NEW a \in Addr, NEW n \in {1, 2, 4}, NEW o \in Lane, Aligned(n, o),
               Ld(a, n, o) \/ \E v \in Value : St(a, n, o, v)
        PROVE  LInv' /\ Guest!Next
    BY <1>4, <2>1, LdStep, StStep
  <2>2. ASSUME NEW a \in Addr, TasLoad(a) PROVE LInv' /\ Guest!Next
    BY <1>4, <2>2, TasLoadStep
  <2>3. CASE TasStore
    BY <1>4, <2>3, TasStoreStep
  <2>4. CASE Pop
    BY <1>4, <2>4, PopStep
  <2>5. ASSUME NEW v \in Value, Push(v) PROVE LInv' /\ Guest!Next
    BY <1>4, <2>5, PushStep
  <2>6. CASE PushFault \/ TasFail \/ Fault \/ Faulted
    BY <1>4, <2>6, FaultStep
  <2>7. QED
    BY <1>4, <2>1, <2>2, <2>3, <2>4, <2>5, <2>6 DEF Instruction
<1>5. CASE SectorRead
  BY <1>5, SectorReadStep
<1>6. CASE SectorWrite
  BY <1>6, SectorWriteStep
<1>7. CASE NoCommand
  BY <1>7, NoCommandStep
<1>8. QED
  BY <1>2, <1>3, <1>4, <1>5, <1>6, <1>7 DEF MmccNext

(* Every word of memory, of the caches and of the image file stays a word, *)
(* whatever instructions, faults and commands there are, and exec never    *)
(* has both a fault to serve and a device to tell: no command is dropped.  *)
THEOREM MmccTypes == MmccSpec => []MmccTypeOK
<1>1. LInv => MmccTypeOK
  BY DEF LInv
<1>2. QED
  BY <1>1, InitLInv, MmccStep, PTL DEF MmccSpec

(* The caches of the whole machine stay coherent, and their tags distinct, *)
(* with a card that writes a sector of registers at once and whatever the  *)
(* merges of st16 and st8, push, pop and tas store (memory_cache_l1_write, *)
(* gci_mmcc_write).                                                        *)
THEOREM CardKeepsCaches == MmccSpec => [](Coherence /\ TagsDistinct)
<1>1. LInv => Coherence /\ TagsDistinct
  BY DEF LInv, IInv
<1>2. QED
  BY <1>1, InitLInv, MmccStep, PTL DEF MmccSpec

(* The host's words behind the caches implement the guest's bytes: every   *)
(* load of every width gets the bytes that were stored there, the program  *)
(* is loaded in its own order, and a sector of any size is copied whole.   *)
THEOREM BytesServed == MmccSpec => ByteSpec
<1>1. MmccInit => Guest!Init
  <2> SUFFICES ASSUME MmccInit PROVE Guest!Init
    OBVIOUS
  <2>1. Zero = Guest!ZeroWord /\ Bswap(Zero) = Guest!ZeroWord
    BY ByteAssumption DEF Guest!ZeroWord, Guest!Lane, Lane, Bswap
  <2>2. \A a \in Addr : ~Uncached(a) => Bswap(Bswap(Program[a])) = Program[a]
    BY BswapTwice, WordIsBytes, FileAssumption
  <2>3. \A a \in Addr : Bswap(mem[a]) = IF Uncached(a) THEN Guest!ZeroWord ELSE Program[a]
    BY <2>1, <2>2 DEF MmccInit
  <2>4. QED
    BY <2>1, <2>3 DEF MmccInit, Guest!Init
<1>2. QED
  BY <1>1, InitLInv, MmccStep, PTL DEF MmccSpec, ByteSpec, Guest!Spec

-----------------------------------------------------------------------------
(* Sectors *)

\* A byte is seven bits and one above them.
LEMMA SevenBits ==
    ASSUME NEW c \in 0 .. 255
    PROVE  \E high, low \in Int : /\ 0 <= low /\ low <= 127
                                  /\ c = 128 * high + low /\ low = c % 128
<1>1. c \div 128 \in Int /\ c % 128 \in 0 .. 127 /\ c = 128 * (c \div 128) + (c % 128)
  BY SMT
<1>2. QED
  BY <1>1, SMT

LEMMA UpperBits ==
    ASSUME NEW a \in Int, NEW b \in Int, NEW c \in Int,
           0 <= a, a <= 255, 0 <= b, b <= 255, 0 <= c, c <= 127
    PROVE  0 <= a + 256 * b + 65536 * c /\ a + 256 * b + 65536 * c < 8388608
BY SMT

LEMMA LowerBits ==
    ASSUME NEW high \in Int, NEW n \in Int, 0 <= n, n < 8388608
    PROVE  (4294967296 * high + 512 * n) % 4294967296 = 512 * n
BY SMT

(* The sector a word of four bytes names is where the 32-bit shift by 9 of *)
(* the code points, whatever the bits that fall out (gci.c:307, 326).      *)
THEOREM SectorShift ==
    ASSUME NEW v \in [Lane -> 0 .. 255]
    PROVE  (512 * (v[0] + 256 * v[1] + 65536 * v[2] + 16777216 * v[3])) % 4294967296
             = 512 * SectorOf(v)
<1> DEFINE EightBits == 0 .. 255
           Shifted(a, b, c, d) ==
               (512 * (a + 256 * b + 65536 * c + 16777216 * d)) % 4294967296
           Offset(a, b, c) == 512 * (a + 256 * b + 65536 * (c % 128))
<1>1. ASSUME NEW a \in EightBits, NEW b \in EightBits, NEW c \in EightBits, NEW d \in EightBits
      PROVE  Shifted(a, b, c, d) = Offset(a, b, c)
  <2>1. PICK high, low \in Int : /\ 0 <= low /\ low <= 127
                                 /\ c = 128 * high + low /\ low = c % 128
    BY SevenBits, SMT
  <2>2. PICK n \in Int : n = a + 256 * b + 65536 * low
    BY SMT
  <2>3. 0 <= n /\ n < 8388608
    BY <2>1, <2>2, UpperBits, SMT
  <2>4. 512 * (a + 256 * b + 65536 * c + 16777216 * d)
          = 4294967296 * (high + 2 * d) + 512 * n
    BY <2>1, <2>2, SMT
  <2>5. (4294967296 * (high + 2 * d) + 512 * n) % 4294967296 = 512 * n
    <3>1. PICK m \in Int : m = high + 2 * d
      BY SMT
    <3>2. QED
      BY <2>3, <3>1, LowerBits, SMT
  <2>6. QED
    BY <2>1, <2>2, <2>4, <2>5, SMT
<1>2. v[0] \in EightBits /\ v[1] \in EightBits /\ v[2] \in EightBits /\ v[3] \in EightBits
  BY DEF Lane
<1> HIDE DEF EightBits, Shifted, Offset
<1>3. Shifted(v[0], v[1], v[2], v[3]) = Offset(v[0], v[1], v[2])
  BY <1>1, <1>2, Zenon
<1>4. QED
  BY <1>3, SMT DEF SectorOf, Shifted, Offset
=============================================================================
