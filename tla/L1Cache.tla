------------------------------ MODULE L1Cache ------------------------------
(***************************************************************************)
(* The two level-1 caches of cache.h: an instruction cache read by         *)
(* instruction_fetch and a data cache read and written by the load/store   *)
(* instructions.  Both are set associative with LRU replacement and share  *)
(* one clock, cache_tick.  A store writes memory through, updates the data *)
(* cache and invalidates the instruction cache.                            *)
(*                                                                         *)
(* A physical address is split by CACHE_L1_TAG, CACHE_L1_INDEX and         *)
(* CACHE_L1_WORD, so here it is the record of the three.  Tags from        *)
(* MemoryMaxTag up are the addresses at or above MEMORY_MAX_ADDR: the I/O  *)
(* area, which is never cached.                                            *)
(***************************************************************************)
EXTENDS Integers

CONSTANTS
    Tags,           \* number of tags; the tags are 0 .. Tags-1
    MemoryMaxTag,   \* first tag of the uncached I/O area
    Index,          \* the sets of a cache (CACHE_L1_LINE_PER_WAY of them)
    Word,           \* the words of a line (CACHE_L1_LINE_SIZE of them)
    Ways,           \* CACHE_L1_WAY
    TickMod,        \* cache_tick is an unsigned int: it counts modulo TickMod
    Value,          \* contents of a word
    Zero,           \* contents of a word of static storage
    WalkerWord,     \* cached addresses of the page-table entries in use
    NoAnswer        \* "out" when the last operation gave no answer

Tag  == 0 .. Tags - 1
Way  == 0 .. Ways - 1
Addr == [tag : Tag, index : Index, word : Word]
Uncached(a) == a.tag >= MemoryMaxTag

ASSUME SizeAssumption == /\ Tags \in Nat \ {0}
                         /\ Ways \in Nat \ {0}
                         /\ TickMod \in Nat \ {0}
                         /\ MemoryMaxTag \in Nat
ASSUME ValueAssumption == Zero \in Value
ASSUME AnswerAssumption == NoAnswer \notin [addr : Addr, value : Value]
ASSUME WalkerAssumption == WalkerWord \subseteq {a \in Addr : ~Uncached(a)}

VARIABLES
    mem,            \* the memory array and the I/O registers
    icache,         \* cache_l1i with cacheline_l1i
    dcache,         \* cache_l1d with cacheline_l1d
    cache_tick,
    out             \* history: what the last operation answered

vars == <<mem, icache, dcache, cache_tick, out>>

Line == [valid : BOOLEAN, tag : Tag, last_access : 0 .. TickMod - 1,
         data : [Word -> Value]]
Cache == [Index -> [Way -> Line]]

TypeOK == /\ mem \in [Addr -> Value]
          /\ icache \in Cache
          /\ dcache \in Cache
          /\ cache_tick \in 0 .. TickMod - 1
          /\ out \in [addr : Addr, value : Value] \union {NoAnswer}

-----------------------------------------------------------------------------
(* Static storage is zero: every line is invalid and carries tag 0. *)
ColdLine == [valid |-> FALSE, tag |-> 0, last_access |-> 0,
             data |-> [x \in Word |-> Zero]]
ColdCache == [i \in Index |-> [w \in Way |-> ColdLine]]

Init == /\ mem \in [Addr -> Value]
        /\ icache = ColdCache
        /\ dcache = ColdCache
        /\ cache_tick = 0
        /\ out = NoAnswer

-----------------------------------------------------------------------------
(* The loops over the ways of one set.  "row" is the set, t a tag.         *)

\* mutant of Hits: the valid bit is not looked at
HitsIgnoringValid(row, t, w) == row[w].tag = t

Hits(row, t, w) == row[w].tag = t /\ row[w].valid
Miss(row, t)    == \A w \in Way : ~Hits(row, t, w)

\* the hit loop stops at the first way that hits
FirstHit(row, t, w) == /\ Hits(row, t, w)
                       /\ \A u \in Way : u < w => ~Hits(row, t, u)

Age(line) == (cache_tick - line.last_access) % TickMod

\* the first of the lines not used for longest
Oldest(row, w) == /\ \A u \in Way : Age(row[u]) <= Age(row[w])
                  /\ \A u \in Way : u < w => Age(row[u]) < Age(row[w])

\* mutant of Victim: the search goes on after an invalid way
VictimLastInvalid(row, w) ==
    \/ ~row[w].valid /\ \A u \in Way : u > w => row[u].valid
    \/ Oldest(row, w) /\ \A u \in Way : row[u].valid

\* the first invalid way if there is one, else the LRU way
Victim(row, w) ==
    \/ ~row[w].valid /\ \A u \in Way : u < w => row[u].valid
    \/ Oldest(row, w) /\ \A u \in Way : row[u].valid

Filled(m, a) == [valid |-> TRUE, tag |-> a.tag, last_access |-> cache_tick,
                 data |-> [x \in Word |->
                             m[[tag |-> a.tag, index |-> a.index, word |-> x]]]]

\* memory_cache_l1_read: the way that serves address a from the set "row",
\* and the line it then holds, memory being m
ServedBy(row, a, w) == \/ FirstHit(row, a.tag, w)
                       \/ Miss(row, a.tag) /\ Victim(row, w)

Served(m, row, a, w) == IF Hits(row, a.tag, w)
                        THEN [row[w] EXCEPT !.last_access = cache_tick]
                        ELSE Filled(m, a)

\* a store drops the first line of the instruction cache that carries its tag
FirstTag(row, t, w) == /\ row[w].tag = t
                       /\ \A u \in Way : u < w => row[u].tag # t

Invalidated(row, t) == [w \in Way |-> IF FirstTag(row, t, w)
                                      THEN [row[w] EXCEPT !.valid = FALSE]
                                      ELSE row[w]]

\* mutant of Tick: the clock is wider than its type
TickWider == cache_tick' = cache_tick + 1

Tick == cache_tick' = (cache_tick + 1) % TickMod

Answer(a, v) == out' = [addr |-> a, value |-> v]

-----------------------------------------------------------------------------
(* memory_cache_l1_read through the instruction cache (instruction_fetch). *)
Fetch(a) ==
    /\ ~Uncached(a)
    /\ \E w \in Way :
         LET row  == icache[a.index]
             line == Served(mem, row, a, w)
         IN  /\ ServedBy(row, a, w)
             /\ icache' = [icache EXCEPT ![a.index][w] = line]
             /\ Answer(a, line.data[a.word])
    /\ Tick
    /\ UNCHANGED <<mem, dcache>>

(* memory_cache_l1_read through the data cache (ld32, tas). *)
Load(a) ==
    /\ ~Uncached(a)
    /\ \E w \in Way :
         LET row  == dcache[a.index]
             line == Served(mem, row, a, w)
         IN  /\ ServedBy(row, a, w)
             /\ dcache' = [dcache EXCEPT ![a.index][w] = line]
             /\ Answer(a, line.data[a.word])
    /\ Tick
    /\ UNCHANGED <<mem, icache>>

(* Either read, in the I/O area: the word itself, and no cache is touched. *)
ReadUncached(a) ==
    /\ Uncached(a)
    /\ Answer(a, mem[a])
    /\ UNCHANGED <<mem, icache, dcache, cache_tick>>

-----------------------------------------------------------------------------
(* memory_cache_l1_write.  A hit rewrites the cached word and leaves the   *)
(* LRU stamp alone; a miss reads the line in, after memory has the word.   *)
StoreHit(a, v) ==
    \E w \in Way :
      /\ FirstHit(dcache[a.index], a.tag, w)
      /\ dcache' = [dcache EXCEPT ![a.index][w].data[a.word] = v]
      /\ UNCHANGED cache_tick

\* mutant of StoreMiss: the line is read in before memory has the word
StoreMissTooEarly(a) ==
    \E w \in Way :
      /\ Miss(dcache[a.index], a.tag)
      /\ ServedBy(dcache[a.index], a, w)
      /\ dcache' = [dcache EXCEPT ![a.index][w] =
                      Served(mem, dcache[a.index], a, w)]
      /\ Tick

StoreMiss(a) ==
    \E w \in Way :
      /\ Miss(dcache[a.index], a.tag)
      /\ ServedBy(dcache[a.index], a, w)
      /\ dcache' = [dcache EXCEPT ![a.index][w] =
                      Served(mem', dcache[a.index], a, w)]
      /\ Tick

Store(a, v) ==
    /\ ~Uncached(a)
    /\ mem' = [mem EXCEPT ![a] = v]
    /\ icache' = [icache EXCEPT ![a.index] = Invalidated(@, a.tag)]
    /\ StoreHit(a, v) \/ StoreMiss(a)
    /\ out' = NoAnswer

StoreUncached(a, v) ==
    /\ Uncached(a)
    /\ mem' = [mem EXCEPT ![a] = v]
    /\ out' = NoAnswer
    /\ UNCHANGED <<icache, dcache, cache_tick>>

-----------------------------------------------------------------------------
(* What changes memory without passing through memory_cache_l1_write: a    *)
(* device its registers, and memory_page_walk_L2 the referenced and dirty  *)
(* bits of a page-table entry.                                             *)
RawWrite(a, v) ==
    /\ Uncached(a) \/ a \in WalkerWord
    /\ mem' = [mem EXCEPT ![a] = v]
    /\ out' = NoAnswer
    /\ UNCHANGED <<icache, dcache, cache_tick>>

Next == \E a \in Addr :
          \/ Fetch(a)
          \/ Load(a)
          \/ ReadUncached(a)
          \/ \E v \in Value : \/ Store(a, v)
                              \/ StoreUncached(a, v)
                              \/ RawWrite(a, v)

Spec == Init /\ [][Next]_vars

-----------------------------------------------------------------------------
(* A valid line holds what memory holds, in every word the page walker     *)
(* does not write: write-through, and invalidation on the instruction      *)
(* side, leave no stale copy behind (cache.h:136-164).                     *)
LineCoherent(m, i, line) ==
    line.valid => \A x \in Word :
        LET a == [tag |-> line.tag, index |-> i, word |-> x]
        IN  a \in WalkerWord \/ line.data[x] = m[a]

Coherence == \A i \in Index, w \in Way : /\ LineCoherent(mem, i, icache[i][w])
                                         /\ LineCoherent(mem, i, dcache[i][w])

(* Of two ways with the same tag only the first can be valid.  The store   *)
(* looks at the tag of an instruction line without its valid bit and stops *)
(* at the first match (cache.h:137-143): this is what makes that enough.   *)
FirstMatch(row) == \A u, w \in Way : /\ u < w
                                     /\ row[u].tag = row[w].tag
                                     => ~row[w].valid

TagsDistinct == \A i \in Index : FirstMatch(icache[i]) /\ FirstMatch(dcache[i])

(* The I/O area never enters a cache (cache.h:46-49 and 128-134), and with  *)
(* the three properties above this makes the inductive invariant.          *)
OnlyMemory == \A i \in Index, w \in Way :
    /\ icache[i][w].valid => icache[i][w].tag < MemoryMaxTag
    /\ dcache[i][w].valid => dcache[i][w].tag < MemoryMaxTag

IInv == TypeOK /\ Coherence /\ TagsDistinct /\ OnlyMemory

(* The caches are invisible: every answer is one the plain memory gives.   *)
Raw == {a \in Addr : Uncached(a) \/ a \in WalkerWord}
Flat == INSTANCE MemorySpec
FlatSpec == Flat!Spec
=============================================================================
