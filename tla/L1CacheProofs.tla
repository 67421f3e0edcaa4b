--------------------------- MODULE L1CacheProofs ---------------------------
(***************************************************************************)
(* Theorems about L1Cache, for every geometry of the caches.               *)
(***************************************************************************)
EXTENDS L1Cache, TLAPS

LEMMA TickType ==
    ASSUME TypeOK, Tick
    PROVE  cache_tick' \in 0 .. TickMod - 1
BY SizeAssumption DEF TypeOK, Tick

\* Reading a line of either cache leaves a line.
LEMMA ServedType ==
    ASSUME TypeOK,
           NEW m \in [Addr -> Value], NEW row \in [Way -> Line],
           NEW a \in Addr, NEW w \in Way
    PROVE  Served(m, row, a, w) \in Line
<1>1. row[w] \in Line
  OBVIOUS
<1>2. [row[w] EXCEPT !.last_access = cache_tick] \in Line
  BY <1>1 DEF TypeOK, Line
<1>3. \A x \in Word : [tag |-> a.tag, index |-> a.index, word |-> x] \in Addr
  BY DEF Addr
<1>4. Filled(m, a) \in Line
  BY <1>3 DEF TypeOK, Line, Filled, Addr
<1>5. QED
  BY <1>2, <1>4 DEF Served

LEMMA InvalidatedType ==
    ASSUME NEW row \in [Way -> Line], NEW t \in Tag
    PROVE  Invalidated(row, t) \in [Way -> Line]
BY DEF Invalidated, Line

LEMMA InitType == Init => TypeOK
<1> SUFFICES ASSUME Init PROVE TypeOK
  OBVIOUS
<1>1. ColdLine \in Line
  BY SizeAssumption, ValueAssumption DEF ColdLine, Line, Tag
<1>2. ColdCache \in Cache
  BY <1>1 DEF ColdCache, Cache
<1>3. QED
  BY <1>2, SizeAssumption DEF Init, TypeOK

LEMMA NextType == TypeOK /\ [Next]_vars => TypeOK'
<1> SUFFICES ASSUME TypeOK, [Next]_vars PROVE TypeOK'
  OBVIOUS
<1> USE DEF TypeOK
<1>1. CASE UNCHANGED vars
  BY <1>1 DEF vars
<1>2. ASSUME NEW a \in Addr, Fetch(a) PROVE TypeOK'
  <2>1. PICK w \in Way :
          LET row  == icache[a.index]
              line == Served(mem, row, a, w)
          IN  /\ ServedBy(row, a, w)
              /\ icache' = [icache EXCEPT ![a.index][w] = line]
              /\ Answer(a, line.data[a.word])
    BY <1>2 DEF Fetch
  <2>2. a.index \in Index /\ a.word \in Word
    BY DEF Addr
  <2>3. icache[a.index] \in [Way -> Line]
    BY <2>2 DEF Cache
  <2>4. Served(mem, icache[a.index], a, w) \in Line
    BY <2>3, ServedType
  <2>5. icache' \in Cache
    BY <2>1, <2>2, <2>3, <2>4 DEF Cache
  <2>6. out' \in [addr : Addr, value : Value]
    BY <2>1, <2>2, <2>4 DEF Answer, Line
  <2>7. QED
    BY <1>2, <2>5, <2>6, TickType DEF Fetch
<1>3. ASSUME NEW a \in Addr, Load(a) PROVE TypeOK'
  <2>1. PICK w \in Way :
          LET row  == dcache[a.index]
              line == Served(mem, row, a, w)
          IN  /\ ServedBy(row, a, w)
              /\ dcache' = [dcache EXCEPT ![a.index][w] = line]
              /\ Answer(a, line.data[a.word])
    BY <1>3 DEF Load
  <2>2. a.index \in Index /\ a.word \in Word
    BY DEF Addr
  <2>3. dcache[a.index] \in [Way -> Line]
    BY <2>2 DEF Cache
  <2>4. Served(mem, dcache[a.index], a, w) \in Line
    BY <2>3, ServedType
  <2>5. dcache' \in Cache
    BY <2>1, <2>2, <2>3, <2>4 DEF Cache
  <2>6. out' \in [addr : Addr, value : Value]
    BY <2>1, <2>2, <2>4 DEF Answer, Line
  <2>7. QED
    BY <1>3, <2>5, <2>6, TickType DEF Load
<1>4. ASSUME NEW a \in Addr, ReadUncached(a) PROVE TypeOK'
  BY <1>4 DEF ReadUncached, Answer
<1>5. ASSUME NEW a \in Addr, NEW v \in Value, Store(a, v) PROVE TypeOK'
  <2>1. mem' \in [Addr -> Value]
    BY <1>5 DEF Store
  <2>2. a.index \in Index /\ a.word \in Word /\ a.tag \in Tag
    BY DEF Addr
  <2>3. icache[a.index] \in [Way -> Line] /\ dcache[a.index] \in [Way -> Line]
    BY <2>2 DEF Cache
  <2>4. icache' \in Cache
    <3>1. Invalidated(icache[a.index], a.tag) \in [Way -> Line]
      BY <2>2, <2>3, InvalidatedType
    <3>2. QED
      BY <1>5, <2>2, <3>1 DEF Store, Cache
  <2>5. CASE StoreHit(a, v)
    <3>1. PICK w \in Way :
            /\ dcache' = [dcache EXCEPT ![a.index][w].data[a.word] = v]
            /\ cache_tick' = cache_tick
      BY <2>5 DEF StoreHit
    <3>2. [dcache[a.index][w] EXCEPT !.data[a.word] = v] \in Line
      BY <2>2, <2>3 DEF Line
    <3>3. dcache' = [dcache EXCEPT ![a.index][w] =
                       [dcache[a.index][w] EXCEPT !.data[a.word] = v]]
      BY <3>1
    <3>4. dcache' \in Cache
      BY <2>2, <2>3, <3>2, <3>3 DEF Cache
    <3>5. QED
      BY <1>5, <2>1, <2>4, <3>1, <3>4 DEF Store
  <2>6. CASE StoreMiss(a)
    <3>1. PICK w \in Way : dcache' = [dcache EXCEPT ![a.index][w] =
                                        Served(mem', dcache[a.index], a, w)]
      BY <2>6 DEF StoreMiss
    <3>2. Served(mem', dcache[a.index], a, w) \in Line
      BY <2>1, <2>3, ServedType
    <3>3. dcache' \in Cache
      BY <2>2, <2>3, <3>1, <3>2 DEF Cache
    <3>4. QED
      BY <1>5, <2>1, <2>4, <2>6, <3>3, TickType DEF Store, StoreMiss
  <2>7. QED
    BY <1>5, <2>5, <2>6 DEF Store
<1>6. ASSUME NEW a \in Addr, NEW v \in Value,
             StoreUncached(a, v) \/ RawWrite(a, v)
      PROVE  TypeOK'
  BY <1>6 DEF StoreUncached, RawWrite
<1>7. QED
  BY <1>1, <1>2, <1>3, <1>4, <1>5, <1>6 DEF Next

(* Every variable keeps its type, for every geometry: in particular the    *)
(* LRU clock stays an unsigned int and no line leaves its set.             *)
THEOREM TypeCorrect == Spec => []TypeOK
<1>1. QED
  BY InitType, NextType, PTL DEF Spec
-----------------------------------------------------------------------------
(* The pieces of the inductive step: what serving a read, invalidating an  *)
(* instruction line and writing a word of memory preserve.                 *)

LEMMA ServedCoherent ==
    ASSUME NEW m, NEW row \in [Way -> Line], NEW a \in Addr, NEW w \in Way,
           LineCoherent(m, a.index, row[w]),
           ServedBy(row, a, w)
    PROVE  LET line == Served(m, row, a, w)
           IN  /\ line.valid
               /\ line.tag = a.tag
               /\ LineCoherent(m, a.index, line)
<1>1. row[w] \in Line
  OBVIOUS
<1>2. CASE Hits(row, a.tag, w)
  BY <1>1, <1>2 DEF Served, Hits, LineCoherent, Line
<1>3. CASE ~Hits(row, a.tag, w)
  BY <1>3 DEF Served, Filled, LineCoherent
<1>4. QED
  BY <1>2, <1>3

LEMMA ServedFirstMatch ==
    ASSUME NEW row \in [Way -> Line], NEW a \in Addr, NEW w \in Way,
           NEW line \in Line,
           FirstMatch(row), ServedBy(row, a, w),
           line.tag = a.tag
    PROVE  FirstMatch([row EXCEPT ![w] = line])
<1> DEFINE after == [row EXCEPT ![w] = line]
<1> SUFFICES ASSUME NEW x \in Way, NEW y \in Way, x < y,
                    after[x].tag = after[y].tag
             PROVE  ~after[y].valid
  BY DEF FirstMatch
<1>1. \A u \in Way : u # w => after[u] = row[u]
  OBVIOUS
<1>2. after[w] = line
  OBVIOUS
<1>3. CASE FirstHit(row, a.tag, w)
  <2>1. row[w].tag = a.tag /\ row[w].valid
    BY <1>3 DEF FirstHit, Hits
  <2>2. row[x].tag = row[y].tag
    BY <1>1, <1>2, <2>1
  <2>3. ~row[y].valid
    BY <2>2 DEF FirstMatch
  <2>4. y # w
    BY <2>1, <2>3
  <2>5. QED
    BY <1>1, <2>3, <2>4
<1>4. CASE Miss(row, a.tag) /\ Victim(row, w)
  <2>1. CASE x = w
    BY <1>1, <1>2, <1>4, <2>1 DEF Miss, Hits, Way
  <2>2. CASE y = w
    <3>1. row[x].valid
      BY <1>4, <2>2 DEF Victim
    <3>2. QED
      BY <1>1, <1>2, <1>4, <2>2, <3>1 DEF Miss, Hits, Way
  <2>3. CASE x # w /\ y # w
    BY <1>1, <2>3 DEF FirstMatch
  <2>4. QED
    BY <2>1, <2>2, <2>3
<1>5. QED
  BY <1>3, <1>4 DEF ServedBy

LEMMA InvalidatedDrops ==
    ASSUME NEW row \in [Way -> Line], NEW t \in Tag, FirstMatch(row)
    PROVE  /\ FirstMatch(Invalidated(row, t))
           /\ Miss(Invalidated(row, t), t)
           /\ \A w \in Way : Invalidated(row, t)[w].valid =>
                               Invalidated(row, t)[w] = row[w]
<1>1. \A w \in Way : /\ Invalidated(row, t)[w].tag = row[w].tag
                     /\ Invalidated(row, t)[w].valid =>
                          /\ Invalidated(row, t)[w] = row[w]
                          /\ ~FirstTag(row, t, w)
  BY DEF Invalidated, Line
<1>2. FirstMatch(Invalidated(row, t))
  BY <1>1 DEF FirstMatch
<1>3. Miss(Invalidated(row, t), t)
  <2> SUFFICES ASSUME NEW w \in Way, Hits(Invalidated(row, t), t, w)
               PROVE  FALSE
    BY DEF Miss
  <2>1. row[w].tag = t /\ row[w].valid /\ ~FirstTag(row, t, w)
    BY <1>1 DEF Hits
  <2>2. PICK u \in Way : u < w /\ row[u].tag = t
    BY <2>1 DEF FirstTag
  <2>3. QED
    BY <2>1, <2>2 DEF FirstMatch
<1>4. QED
  BY <1>1, <1>2, <1>3

\* A word written disturbs no line that does not hold it.
LEMMA WriteElsewhere ==
    ASSUME NEW m \in [Addr -> Value], NEW a \in Addr, NEW v \in Value,
           NEW i \in Index, NEW line \in Line,
           LineCoherent(m, i, line),
           \/ i # a.index
           \/ ~line.valid
           \/ line.tag # a.tag
           \/ a \in WalkerWord
    PROVE  LineCoherent([m EXCEPT ![a] = v], i, line)
<1> SUFFICES ASSUME line.valid, NEW x \in Word,
                    [tag |-> line.tag, index |-> i, word |-> x] \notin WalkerWord
             PROVE  line.data[x] =
                      [m EXCEPT ![a] = v][[tag |-> line.tag, index |-> i, word |-> x]]
  BY DEF LineCoherent
<1> DEFINE b == [tag |-> line.tag, index |-> i, word |-> x]
<1>1. b \in Addr
  BY DEF Addr, Line
<1>2. b # a
  OBVIOUS
<1>3. line.data[x] = m[b]
  BY DEF LineCoherent
<1>4. QED
  BY <1>1, <1>2, <1>3

-----------------------------------------------------------------------------
LEMMA InitInv == Init => IInv
<1> SUFFICES ASSUME Init PROVE IInv
  OBVIOUS
<1>1. \A i \in Index, w \in Way : ~icache[i][w].valid /\ ~dcache[i][w].valid
  BY DEF Init, ColdCache, ColdLine
<1>2. QED
  BY <1>1, InitType
     DEF IInv, Coherence, LineCoherent, TagsDistinct, FirstMatch, OnlyMemory

LEMMA StoreInv ==
    ASSUME IInv, TypeOK', NEW a \in Addr, NEW v \in Value, Store(a, v)
    PROVE  IInv'
<1> USE DEF IInv
<1> DEFINE irow == icache[a.index]
           drow == dcache[a.index]
<1>1. a.index \in Index /\ a.tag \in Tag /\ a.word \in Word
  BY DEF Addr
<1>2. icache \in Cache /\ dcache \in Cache /\ mem \in [Addr -> Value]
  BY DEF TypeOK
<1>3. irow \in [Way -> Line] /\ drow \in [Way -> Line]
  BY <1>1, <1>2 DEF Cache
<1>4. ~Uncached(a) /\ mem' = [mem EXCEPT ![a] = v] /\ mem' \in [Addr -> Value]
  BY <1>2 DEF Store
<1>5. FirstMatch(irow) /\ FirstMatch(drow)
  BY <1>1 DEF TagsDistinct
<1>6. icache' = [icache EXCEPT ![a.index] = Invalidated(irow, a.tag)]
  BY DEF Store
<1>7. /\ icache'[a.index] = Invalidated(irow, a.tag)
      /\ \A i \in Index : i # a.index => icache'[i] = icache[i]
  BY <1>1, <1>2, <1>6 DEF Cache
<1>8. /\ FirstMatch(icache'[a.index])
      /\ Miss(icache'[a.index], a.tag)
      /\ \A w \in Way : icache'[a.index][w].valid =>
                          icache'[a.index][w] = irow[w]
  BY <1>1, <1>3, <1>5, <1>7, InvalidatedDrops
\* the instruction side
<1>9. \A i \in Index, w \in Way : LineCoherent(mem', i, icache'[i][w])
  <2> SUFFICES ASSUME NEW i \in Index, NEW w \in Way, icache'[i][w].valid
               PROVE  LineCoherent(mem', i, icache'[i][w])
    BY DEF LineCoherent
  <2>1. icache'[i][w] = icache[i][w]
    BY <1>7, <1>8
  <2>2. i # a.index \/ icache[i][w].tag # a.tag
    BY <1>8, <2>1 DEF Miss, Hits
  <2>3. icache[i][w] \in Line /\ LineCoherent(mem, i, icache[i][w])
    BY <1>2 DEF Cache, Coherence
  <2>4. QED
    BY <1>2, <1>4, <2>1, <2>2, <2>3, WriteElsewhere
<1>10. \A i \in Index : FirstMatch(icache'[i])
  BY <1>7, <1>8 DEF TagsDistinct
<1>11. \A i \in Index, w \in Way :
          icache'[i][w].valid => icache'[i][w].tag < MemoryMaxTag
  BY <1>7, <1>8 DEF OnlyMemory
\* the data side
<1>12. ASSUME NEW w \in Way, NEW line \in Line,
              dcache' = [dcache EXCEPT ![a.index][w] = line],
              line.valid, line.tag = a.tag,
              LineCoherent(mem', a.index, line),
              FirstMatch([drow EXCEPT ![w] = line]),
              \A u \in Way : u # w => ~Hits(drow, a.tag, u)
       PROVE  IInv'
  <2>1. dcache'[a.index] = [drow EXCEPT ![w] = line]
    BY <1>1, <1>2, <1>12 DEF Cache
  <2>2. \A i \in Index : i # a.index => dcache'[i] = dcache[i]
    BY <1>2, <1>12 DEF Cache
  <2>3. /\ dcache'[a.index][w] = line
        /\ \A u \in Way : u # w => dcache'[a.index][u] = drow[u]
    BY <1>3, <2>1
  <2>4. \A i \in Index, u \in Way : LineCoherent(mem', i, dcache'[i][u])
    <3> SUFFICES ASSUME NEW i \in Index, NEW u \in Way, i # a.index \/ u # w
                 PROVE  LineCoherent(mem', i, dcache'[i][u])
      BY <1>12, <2>3
    <3>1. dcache'[i][u] = dcache[i][u]
      BY <2>2, <2>3
    <3>2. i # a.index \/ ~dcache[i][u].valid \/ dcache[i][u].tag # a.tag
      BY <1>12 DEF Hits
    <3>3. dcache[i][u] \in Line /\ LineCoherent(mem, i, dcache[i][u])
      BY <1>2 DEF Cache, Coherence
    <3>4. QED
      BY <1>2, <1>4, <3>1, <3>2, <3>3, WriteElsewhere
  <2>5. \A i \in Index : FirstMatch(dcache'[i])
    BY <1>12, <2>1, <2>2 DEF TagsDistinct
  <2>6. \A i \in Index, u \in Way :
           dcache'[i][u].valid => dcache'[i][u].tag < MemoryMaxTag
    <3>1. a.tag < MemoryMaxTag
      BY <1>1, <1>4, SizeAssumption DEF Uncached, Tag
    <3>2. QED
      BY <1>12, <2>2, <2>3, <3>1 DEF OnlyMemory
  <2>7. QED
    BY <1>9, <1>10, <1>11, <2>4, <2>5, <2>6
       DEF Coherence, TagsDistinct, OnlyMemory
<1>13. CASE StoreHit(a, v)
  <2>1. PICK w \in Way :
          /\ FirstHit(drow, a.tag, w)
          /\ dcache' = [dcache EXCEPT ![a.index][w].data[a.word] = v]
    BY <1>13 DEF StoreHit
  <2> DEFINE line == [drow[w] EXCEPT !.data[a.word] = v]
  <2>2. drow[w] \in Line /\ drow[w].tag = a.tag /\ drow[w].valid
    BY <1>3, <2>1 DEF FirstHit, Hits
  <2>3. line \in Line /\ line.valid /\ line.tag = a.tag
    BY <1>1, <2>2 DEF Line
  <2>4. dcache' = [dcache EXCEPT ![a.index][w] = line]
    BY <2>1
  <2>5. LineCoherent(mem', a.index, line)
    <3> SUFFICES ASSUME NEW x \in Word,
                        [tag |-> a.tag, index |-> a.index, word |-> x] \notin WalkerWord
                 PROVE  line.data[x] =
                          mem'[[tag |-> a.tag, index |-> a.index, word |-> x]]
      BY <2>3 DEF LineCoherent
    <3> DEFINE b == [tag |-> a.tag, index |-> a.index, word |-> x]
    <3>1. b \in Addr
      BY DEF Addr
    <3>2. drow[w].data[x] = mem[b]
      BY <1>1, <2>2 DEF Coherence, LineCoherent
    <3>3. CASE x = a.word
      <4>1. b = a
        BY <3>3 DEF Addr
      <4>2. line.data[x] = v
        BY <2>2, <3>3 DEF Line
      <4>3. QED
        BY <1>2, <1>4, <4>1, <4>2
    <3>4. CASE x # a.word
      <4>1. b # a
        BY <3>4
      <4>2. line.data[x] = drow[w].data[x]
        BY <2>2, <3>4 DEF Line
      <4>3. QED
        BY <1>2, <1>4, <3>1, <3>2, <4>1, <4>2
    <3>5. QED
      BY <3>3, <3>4
  <2>6. FirstMatch([drow EXCEPT ![w] = line])
    BY <1>3, <1>5, <2>1, <2>3, ServedFirstMatch DEF ServedBy
  <2>7. \A u \in Way : u # w => ~Hits(drow, a.tag, u)
    BY <1>5, <2>1, <2>2 DEF FirstHit, FirstMatch, Hits, Way
  <2>8. QED
    BY <1>12, <2>3, <2>4, <2>5, <2>6, <2>7
<1>14. CASE StoreMiss(a)
  <2>1. PICK w \in Way :
          /\ Miss(drow, a.tag)
          /\ ServedBy(drow, a, w)
          /\ dcache' = [dcache EXCEPT ![a.index][w] = Served(mem', drow, a, w)]
    BY <1>14 DEF StoreMiss
  <2> DEFINE line == Served(mem', drow, a, w)
  <2>2. line \in Line
    BY <1>3, <1>4, ServedType
  <2>3. line = Filled(mem', a)
    BY <2>1 DEF Miss, Served
  <2>4. line.valid /\ line.tag = a.tag /\ LineCoherent(mem', a.index, line)
    BY <2>3 DEF Filled, LineCoherent
  <2>5. FirstMatch([drow EXCEPT ![w] = line])
    BY <1>3, <1>5, <2>1, <2>2, <2>4, ServedFirstMatch
  <2>6. QED
    BY <1>12, <2>1, <2>2, <2>4, <2>5 DEF Miss
<1>15. QED
  BY <1>13, <1>14 DEF Store

\* Writes that pass the caches by touch only words no line must agree on.
LEMMA BypassInv ==
    ASSUME IInv, NEW a \in Addr, NEW v \in Value,
           Uncached(a) \/ a \in WalkerWord,
           mem' = [mem EXCEPT ![a] = v],
           UNCHANGED <<icache, dcache>>
    PROVE  Coherence' /\ TagsDistinct' /\ OnlyMemory'
<1> USE DEF IInv
<1>1. ASSUME NEW i \in Index, NEW line \in Line, LineCoherent(mem, i, line),
             line.valid => line.tag < MemoryMaxTag
      PROVE  LineCoherent(mem', i, line)
  <2>1. ~line.valid \/ line.tag # a.tag \/ a \in WalkerWord
    <3>1. CASE Uncached(a)
      BY <1>1, <3>1, SizeAssumption DEF Uncached, Line, Tag, Addr
    <3>2. QED
      BY <3>1
  <2>2. QED
    BY <1>1, <2>1, WriteElsewhere DEF TypeOK
<1>2. \A i \in Index, w \in Way : icache[i][w] \in Line /\ dcache[i][w] \in Line
  BY DEF TypeOK, Cache
<1>3. Coherence'
  BY <1>1, <1>2 DEF Coherence, OnlyMemory
<1>4. QED
  BY <1>3 DEF TagsDistinct, OnlyMemory

LEMMA NextInv == IInv /\ [Next]_vars => IInv'
<1> SUFFICES ASSUME IInv, [Next]_vars PROVE IInv'
  OBVIOUS
<1> USE DEF IInv
<1>1. TypeOK'
  BY NextType
<1>2. CASE UNCHANGED vars
  BY <1>1, <1>2 DEF vars, Coherence, TagsDistinct, OnlyMemory
<1>3. ASSUME NEW a \in Addr, Fetch(a) PROVE IInv'
  <2>1. PICK w \in Way :
          /\ ServedBy(icache[a.index], a, w)
          /\ icache' = [icache EXCEPT ![a.index][w] = Served(mem, icache[a.index], a, w)]
    BY <1>3 DEF Fetch
  <2> DEFINE row  == icache[a.index]
             line == Served(mem, row, a, w)
  <2>2. a.index \in Index /\ a.tag \in Tag
    BY DEF Addr
  <2>3. row \in [Way -> Line] /\ icache \in Cache
    BY <2>2 DEF TypeOK, Cache
  <2>4. line \in Line
    BY <2>3, ServedType DEF TypeOK
  <2>5. line.valid /\ line.tag = a.tag /\ LineCoherent(mem, a.index, line)
    BY <2>1, <2>2, <2>3, ServedCoherent DEF Coherence
  <2>6. FirstMatch([row EXCEPT ![w] = line])
    BY <2>1, <2>2, <2>3, <2>4, <2>5, ServedFirstMatch DEF TagsDistinct
  <2>7. icache'[a.index] = [row EXCEPT ![w] = line]
    BY <2>1, <2>2, <2>3 DEF Cache
  <2>8. \A i \in Index : i # a.index => icache'[i] = icache[i]
    BY <2>1, <2>3 DEF Cache
  <2>9. icache'[a.index][w] = line
    BY <2>3, <2>7
  <2>10. \A u \in Way : u # w => icache'[a.index][u] = row[u]
    BY <2>3, <2>7
  <2>11. mem' = mem /\ dcache' = dcache /\ ~Uncached(a)
    BY <1>3 DEF Fetch
  <2>12. TagsDistinct'
    BY <2>6, <2>7, <2>8, <2>11 DEF TagsDistinct, FirstMatch
  <2>13. Coherence'
    <3>1. \A i \in Index, u \in Way : LineCoherent(mem, i, icache'[i][u])
      BY <2>5, <2>8, <2>9, <2>10 DEF Coherence
    <3>2. QED
      BY <3>1, <2>11 DEF Coherence
  <2>14. OnlyMemory'
    <3>1. a.tag < MemoryMaxTag
      BY <2>2, <2>11, SizeAssumption DEF Uncached, Tag
    <3>2. \A i \in Index, u \in Way :
             icache'[i][u].valid => icache'[i][u].tag < MemoryMaxTag
      BY <2>5, <2>8, <2>9, <2>10, <3>1 DEF OnlyMemory
    <3>3. QED
      BY <3>2, <2>11 DEF OnlyMemory
  <2>15. QED
    BY <2>12, <2>13, <2>14, NextType
<1>4. ASSUME NEW a \in Addr, Load(a) PROVE IInv'
  <2>1. PICK w \in Way :
          /\ ServedBy(dcache[a.index], a, w)
          /\ dcache' = [dcache EXCEPT ![a.index][w] = Served(mem, dcache[a.index], a, w)]
    BY <1>4 DEF Load
  <2> DEFINE row  == dcache[a.index]
             line == Served(mem, row, a, w)
  <2>2. a.index \in Index /\ a.tag \in Tag
    BY DEF Addr
  <2>3. row \in [Way -> Line] /\ dcache \in Cache
    BY <2>2 DEF TypeOK, Cache
  <2>4. line \in Line
    BY <2>3, ServedType DEF TypeOK
  <2>5. line.valid /\ line.tag = a.tag /\ LineCoherent(mem, a.index, line)
    BY <2>1, <2>2, <2>3, ServedCoherent DEF Coherence
  <2>6. FirstMatch([row EXCEPT ![w] = line])
    BY <2>1, <2>2, <2>3, <2>4, <2>5, ServedFirstMatch DEF TagsDistinct
  <2>7. dcache'[a.index] = [row EXCEPT ![w] = line]
    BY <2>1, <2>2, <2>3 DEF Cache
  <2>8. \A i \in Index : i # a.index => dcache'[i] = dcache[i]
    BY <2>1, <2>3 DEF Cache
  <2>9. dcache'[a.index][w] = line
    BY <2>3, <2>7
  <2>10. \A u \in Way : u # w => dcache'[a.index][u] = row[u]
    BY <2>3, <2>7
  <2>11. mem' = mem /\ icache' = icache /\ ~Uncached(a)
    BY <1>4 DEF Load
  <2>12. TagsDistinct'
    BY <2>6, <2>7, <2>8, <2>11 DEF TagsDistinct, FirstMatch
  <2>13. Coherence'
    <3>1. \A i \in Index, u \in Way : LineCoherent(mem, i, dcache'[i][u])
      BY <2>5, <2>8, <2>9, <2>10 DEF Coherence
    <3>2. QED
      BY <3>1, <2>11 DEF Coherence
  <2>14. OnlyMemory'
    <3>1. a.tag < MemoryMaxTag
      BY <2>2, <2>11, SizeAssumption DEF Uncached, Tag
    <3>2. \A i \in Index, u \in Way :
             dcache'[i][u].valid => dcache'[i][u].tag < MemoryMaxTag
      BY <2>5, <2>8, <2>9, <2>10, <3>1 DEF OnlyMemory
    <3>3. QED
      BY <3>2, <2>11 DEF OnlyMemory
  <2>15. QED
    BY <2>12, <2>13, <2>14, NextType
<1>5. ASSUME NEW a \in Addr, ReadUncached(a) PROVE IInv'
  BY <1>1, <1>5 DEF ReadUncached, Coherence, TagsDistinct, OnlyMemory
<1>6. ASSUME NEW a \in Addr, NEW v \in Value, Store(a, v) PROVE IInv'
  BY <1>1, <1>6, StoreInv
<1>7. ASSUME NEW a \in Addr, NEW v \in Value,
             StoreUncached(a, v) \/ RawWrite(a, v)
      PROVE  IInv'
  BY <1>1, <1>7, BypassInv DEF StoreUncached, RawWrite
<1>8. QED
  BY <1>2, <1>3, <1>4, <1>5, <1>6, <1>7 DEF Next

(* For every geometry, every valid line agrees with memory outside the     *)
(* words the page walker writes.                                           *)
THEOREM CachesCoherent == Spec => []Coherence
<1>1. IInv => Coherence
  BY DEF IInv
<1>2. QED
  BY <1>1, InitInv, NextInv, PTL DEF Spec

(* Of two ways with one tag only the first can be valid, which is why a    *)
(* store may stop at the first tag it meets.                               *)
THEOREM TagsStayDistinct == Spec => []TagsDistinct
<1>1. IInv => TagsDistinct
  BY DEF IInv
<1>2. QED
  BY <1>1, InitInv, NextInv, PTL DEF Spec

-----------------------------------------------------------------------------
LEMMA StepRefines == IInv /\ [Next]_vars => [Flat!Next]_(Flat!vars)
<1> SUFFICES ASSUME IInv, [Next]_vars PROVE [Flat!Next]_(Flat!vars)
  OBVIOUS
<1> USE DEF IInv
<1>1. CASE UNCHANGED vars
  BY <1>1 DEF vars, Flat!vars
<1>2. ASSUME NEW a \in Addr, Fetch(a) PROVE Flat!Read(a)
  <2>1. PICK w \in Way :
          LET line == Served(mem, icache[a.index], a, w)
          IN  /\ ServedBy(icache[a.index], a, w)
              /\ Answer(a, line.data[a.word])
    BY <1>2 DEF Fetch
  <2> DEFINE line == Served(mem, icache[a.index], a, w)
  <2>2. icache[a.index] \in [Way -> Line] /\ a.index \in Index
    BY DEF TypeOK, Cache, Addr
  <2>3. line \in Line
    BY <2>2, ServedType DEF TypeOK
  <2>4. line.valid /\ line.tag = a.tag /\ LineCoherent(mem, a.index, line)
    BY <2>1, <2>2, ServedCoherent DEF Coherence
  <2>5. a.word \in Word /\ a = [tag |-> a.tag, index |-> a.index, word |-> a.word]
    BY DEF Addr
  <2>6. a \notin Raw => line.data[a.word] = mem[a]
    BY <2>4, <2>5 DEF LineCoherent, Raw
  <2>7. line.data[a.word] \in Value
    BY <2>3, <2>5 DEF Line
  <2>8. QED
    BY <1>2, <2>1, <2>6, <2>7 DEF Fetch, Answer, Flat!Read
<1>3. ASSUME NEW a \in Addr, Load(a) PROVE Flat!Read(a)
  <2>1. PICK w \in Way :
          LET line == Served(mem, dcache[a.index], a, w)
          IN  /\ ServedBy(dcache[a.index], a, w)
              /\ Answer(a, line.data[a.word])
    BY <1>3 DEF Load
  <2> DEFINE line == Served(mem, dcache[a.index], a, w)
  <2>2. dcache[a.index] \in [Way -> Line] /\ a.index \in Index
    BY DEF TypeOK, Cache, Addr
  <2>3. line \in Line
    BY <2>2, ServedType DEF TypeOK
  <2>4. line.valid /\ line.tag = a.tag /\ LineCoherent(mem, a.index, line)
    BY <2>1, <2>2, ServedCoherent DEF Coherence
  <2>5. a.word \in Word /\ a = [tag |-> a.tag, index |-> a.index, word |-> a.word]
    BY DEF Addr
  <2>6. a \notin Raw => line.data[a.word] = mem[a]
    BY <2>4, <2>5 DEF LineCoherent, Raw
  <2>7. line.data[a.word] \in Value
    BY <2>3, <2>5 DEF Line
  <2>8. QED
    BY <1>3, <2>1, <2>6, <2>7 DEF Load, Answer, Flat!Read
<1>4. ASSUME NEW a \in Addr, ReadUncached(a) PROVE Flat!Read(a)
  BY <1>4 DEF ReadUncached, Answer, Flat!Read, TypeOK
<1>5. ASSUME NEW a \in Addr, NEW v \in Value,
             Store(a, v) \/ StoreUncached(a, v) \/ RawWrite(a, v)
      PROVE  Flat!Write(a, v)
  BY <1>5 DEF Store, StoreUncached, RawWrite, Flat!Write
<1>6. QED
  BY <1>1, <1>2, <1>3, <1>4, <1>5 DEF Next, Flat!Next

(* For every geometry the cached memory implements the flat one: no        *)
(* sequence of fetches, loads and stores can tell the caches are there,    *)
(* except at the words written behind them.                                *)
THEOREM CachesInvisible == Spec => FlatSpec
<1>1. Init => Flat!Init
  BY DEF Init, Flat!Init
<1>2. QED
  BY <1>1, InitInv, NextInv, StepRefines, PTL DEF Spec, FlatSpec, Flat!Spec

=============================================================================
