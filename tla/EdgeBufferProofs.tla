-------------------------- MODULE EdgeBufferProofs --------------------------
(***************************************************************************)
(* Theorems about EdgeBuffer, for every number of tasks, every entry size, *)
(* buffer size and counter width.                                          *)
(***************************************************************************)
EXTENDS EdgeBuffer, TLAPS, FiniteSetTheorems

(***************************************************************************)
(* Facts about the wrapping counter and about the bytes of a set.          *)
(***************************************************************************)

\* Division with remainder by the counter's width.
LEMMA Division ==
    ASSUME NEW x \in Int
    PROVE  /\ x % U64 \in 0 .. U64 - 1 /\ x \div U64 \in Int
           /\ x = U64 * (x \div U64) + (x % U64)
BY MemoryAssumption

\* A multiple of the width leaves no remainder, and conversely.
LEMMA Multiple ==
    ASSUME NEW x \in Int
    PROVE  x % U64 = 0 <=> \E k \in Int : x = k * U64
<1> DEFINE r == x % U64
           d == x \div U64
<1>1. r \in 0 .. U64 - 1 /\ d \in Int /\ x = U64 * d + r
  BY Division
<1> HIDE DEF r, d
<1>2. ASSUME r = 0 PROVE \E k \in Int : x = k * U64
  <2>1. x = d * U64
    BY <1>1, <1>2, MemoryAssumption
  <2> QED BY <1>1, <2>1
<1>3. ASSUME NEW k \in Int, x = k * U64 PROVE r = 0
  <2>1. r = (k - d) * U64
    BY <1>1, <1>3, MemoryAssumption
  <2>2. CASE k - d >= 1
    <3>1. (k - d) * U64 >= U64
      BY <2>2, <1>1, MemoryAssumption
    <3> QED BY <3>1, <2>1, <1>1, MemoryAssumption
  <2>3. CASE k - d <= -1
    <3>1. (k - d) * U64 <= -U64
      BY <2>3, <1>1, MemoryAssumption
    <3> QED BY <3>1, <2>1, <1>1, MemoryAssumption
  <2>4. CASE k - d = 0
    BY <2>1, <2>4, <1>1, MemoryAssumption
  <2> QED BY <2>2, <2>3, <2>4, <1>1
<1> QED BY <1>2, <1>3 DEF r

\* Replacing a term by its wrapped value does not change the remainder of a
\* sum it is part of.
LEMMA WrapCongruent ==
    ASSUME NEW x \in Int, NEW y \in Int, (x + y) % U64 = 0
    PROVE  ((x % U64) + y) % U64 = 0
<1>1. PICK k \in Int : x + y = k * U64
  BY Multiple
<1>2. PICK j \in Int : x - (x % U64) = j * U64
  <2>1. x - (x % U64) = (x \div U64) * U64
    BY Division, MemoryAssumption
  <2> QED BY <2>1, Division
<1>3. x % U64 \in Int
  BY Division, MemoryAssumption
<1>4. (x % U64) + y = (k - j) * U64
  <2> DEFINE m == x % U64
  <2>1. m \in Int /\ x - m = j * U64
    BY <1>2, <1>3
  <2> HIDE DEF m
  <2>2. m + y = (k - j) * U64
    BY <1>1, <2>1, MemoryAssumption
  <2> QED BY <2>2 DEF m
<1> QED BY <1>3, <1>4, Multiple

\* Two values of the counter that are congruent are equal.
LEMMA CongruentEqual ==
    ASSUME NEW a \in 0 .. U64 - 1, NEW b \in 0 .. U64 - 1, NEW k \in Int,
           a = b + k * U64
    PROVE  a = b
<1>1. CASE k >= 1
  <2>1. k * U64 >= U64
    BY <1>1, MemoryAssumption
  <2> QED BY <2>1, MemoryAssumption
<1>2. CASE k <= -1
  <2>1. k * U64 <= -U64
    BY <1>2, MemoryAssumption
  <2> QED BY <2>1, MemoryAssumption
<1>3. CASE k = 0
  BY <1>3, MemoryAssumption
<1> QED BY <1>1, <1>2, <1>3

\* Taking entries out of a finite buffer takes their bytes off its length.
LEMMA BytesRemove ==
    ASSUME NEW S, NEW T, T \subseteq S, IsFiniteSet(BytesOf(S))
    PROVE  /\ IsFiniteSet(BytesOf(S \ T))
           /\ Bytes(S) \in Nat /\ Bytes(T) \in Nat
           /\ Bytes(S \ T) = Bytes(S) - Bytes(T)
<1>1. BytesOf(S \ T) = BytesOf(S) \ BytesOf(T)
  <2>1. ASSUME NEW p PROVE p \in BytesOf(S \ T) => p \in BytesOf(S) \ BytesOf(T)
    BY DEF BytesOf
  <2>2. ASSUME NEW p PROVE p \in BytesOf(S) \ BytesOf(T) => p \in BytesOf(S \ T)
    BY DEF BytesOf
  <2> QED BY <2>1, <2>2
<1>2. BytesOf(T) \subseteq BytesOf(S)
  BY DEF BytesOf
<1>3. IsFiniteSet(BytesOf(T)) /\ BytesOf(S) \cap BytesOf(T) = BytesOf(T)
  BY <1>2, FS_Subset
<1> QED BY <1>1, <1>3, FS_Difference, FS_CardinalityType DEF Bytes

\* The interval 1 .. n has n elements.
LEMMA IntervalSize ==
    ASSUME NEW n \in Nat
    PROVE  IsFiniteSet(1 .. n) /\ Cardinality(1 .. n) = n
<1>1. /\ IsFiniteSet(1 .. n)
      /\ Cardinality(1 .. n) = IF 1 > n THEN 0 ELSE n - 1 + 1
  BY FS_Interval
<1> QED BY <1>1

\* A new entry adds its size.
LEMMA BytesAdd ==
    ASSUME NEW S, NEW e, e.size \in Nat, e \notin S, IsFiniteSet(BytesOf(S))
    PROVE  /\ IsFiniteSet(BytesOf(S \union {e}))
           /\ Bytes(S) \in Nat
           /\ Bytes(S \union {e}) = Bytes(S) + e.size
<1> DEFINE E == {e} \X (1 .. e.size)
<1>1. BytesOf(S \union {e}) = BytesOf(S) \union E
  BY DEF BytesOf
<1>2. BytesOf(S) \cap E = {}
  BY DEF BytesOf
<1>3. IsFiniteSet(E) /\ Cardinality(E) = e.size
  <2>1. IsFiniteSet({e}) /\ Cardinality({e}) = 1
    BY FS_Singleton
  <2>2. IsFiniteSet(1 .. e.size) /\ Cardinality(1 .. e.size) = e.size
    BY IntervalSize, Zenon
  <2>3. /\ IsFiniteSet({e} \X (1 .. e.size))
        /\ Cardinality({e} \X (1 .. e.size)) = Cardinality({e}) * Cardinality(1 .. e.size)
    BY <2>1, <2>2, FS_Product, Zenon
  <2>4. Cardinality({e} \X (1 .. e.size)) = 1 * e.size
    BY <2>1, <2>2, <2>3
  <2> QED BY <2>3, <2>4 DEF E
<1> HIDE DEF E
<1>4. Cardinality(BytesOf(S)) \in Nat /\ Cardinality(BytesOf(S) \cap E) = 0
  BY <1>2, FS_EmptySet, FS_CardinalityType
<1>5. /\ IsFiniteSet(BytesOf(S) \union E)
      /\ Cardinality(BytesOf(S) \union E) =
           Cardinality(BytesOf(S)) + Cardinality(E) - Cardinality(BytesOf(S) \cap E)
  BY <1>3, FS_Union, Zenon
<1>6. Cardinality(BytesOf(S) \union E) = Cardinality(BytesOf(S)) + e.size
  <2> DEFINE a == Cardinality(BytesOf(S))
             b == Cardinality(BytesOf(S) \union E)
             n == e.size
  <2>1. a \in Nat /\ n \in Nat /\ b = a + n - 0
    BY <1>3, <1>4, <1>5, Zenon
  <2> HIDE DEF a, b, n
  <2>2. b = a + n
    BY <2>1
  <2> QED BY <2>2 DEF a, b, n
<1> QED BY <1>1, <1>4, <1>5, <1>6, Zenon DEF Bytes

(***************************************************************************)
(* Every step keeps the types.                                             *)
(***************************************************************************)

\* The size and the rank of an entry are numbers.
LEMMA EntrySize ==
    ASSUME NEW e \in Entry
    PROVE  e.size \in Nat /\ e.pos \in Nat
<1>1. e.size \in Sizes /\ e.pos \in Nat
  BY DEF Entry
<1> QED BY <1>1, SizesAssumption

\* A wrapping subtraction or addition yields a value of the counter.
LEMMA WrapType ==
    ASSUME NEW u \in Int, NEW n \in Int
    PROVE  WrapAdd(u, n) \in 0 .. U64 - 1 /\ WrapSub(u, n) \in 0 .. U64 - 1
BY Division DEF WrapAdd, WrapSub

\* Reasons given for a set of entries are well typed.
LEMMA MarkType ==
    ASSUME NEW S, S \subseteq Entry, NEW why \in Reasons
    PROVE  Mark(S, why) \subseteq [uid : Nat \X Nat, why : Reasons]
BY DEF Mark, Uid, Entry

\* Taking entries out of the deque keeps the types of what it changes.
LEMMA RemoveType ==
    ASSUME UsageInv, NEW S \in SUBSET mem, NEW why \in Reasons, Remove(S, why)
    PROVE  /\ mem' \subseteq Entry /\ memoryUsage' \in 0 .. U64 - 1 /\ pushed' = pushed
           /\ gone' \subseteq [uid : Nat \X Nat, why : Reasons]
<1>1. Bytes(S) \in Nat
  BY BytesRemove DEF UsageInv
<1>2. memoryUsage' \in 0 .. U64 - 1
  BY <1>1, WrapType, MemoryAssumption DEF UsageInv, TypeOK, Remove
<1>3. Mark(S, why) \subseteq [uid : Nat \X Nat, why : Reasons]
  BY MarkType DEF UsageInv, TypeOK
<1> QED BY <1>2, <1>3 DEF UsageInv, TypeOK, Remove

\* Moving a task to another step keeps the type of pc.
LEMMA GotoType ==
    ASSUME TypeOK, NEW t \in Tasks, NEW step \in Steps, Goto(t, step)
    PROVE  pc' \in [Tasks -> Steps]
BY DEF TypeOK, Goto

\* Every step of the specification keeps TypeOK.
LEMMA TypeStep == UsageInv /\ [Next]_vars => TypeOK'
<1> SUFFICES ASSUME UsageInv, [Next]_vars PROVE TypeOK'
  OBVIOUS
<1> USE DEF memVars, dbVars
<1>0. TypeOK
  BY DEF UsageInv
<1>1. ASSUME NEW t \in Tasks, NEW s \in Sizes, NEW ty \in Types, WriteBegin(t, s, ty)
      PROVE  TypeOK'
  <2>1. pc' \in [Tasks -> Steps]
    BY <1>0, <1>1, GotoType DEF WriteBegin, Steps, Unpushed
  <2>2. ent' \in [Tasks -> Entry \union {NoEntry}]
    BY <1>0, <1>1 DEF WriteBegin, TypeOK, Entry
  <2> QED BY <1>0, <1>1, <2>1, <2>2 DEF WriteBegin, TypeOK
<1>2. ASSUME NEW t \in Tasks, EvictExpired(t) PROVE TypeOK'
  <2>1. pc' \in [Tasks -> Steps]
    BY <1>0, <1>2, GotoType DEF EvictExpired, Steps, Unpushed
  <2>2. Remove(ExpiredFront, "expired") /\ ExpiredFront \in SUBSET mem
    BY <1>2 DEF EvictExpired, ExpiredFront
  <2> QED BY <1>0, <1>2, <2>1, <2>2, RemoveType DEF EvictExpired, TypeOK, Reasons
<1>3. ASSUME NEW t \in Tasks, EvictExpiredSqlite(t) PROVE TypeOK'
  <2>1. pc' \in [Tasks -> Steps]
    BY <1>0, <1>3, GotoType DEF EvictExpiredSqlite, Steps, Unpushed
  <2>2. PICK old \in SUBSET rows :
          rows' = rows \ old /\ gone' = gone \union Mark({r.e : r \in old}, "expired")
    BY <1>3 DEF EvictExpiredSqlite
  <2>3. {r.e : r \in old} \subseteq Entry
    BY <1>0 DEF TypeOK, Row
  <2> QED BY <1>0, <1>3, <2>1, <2>2, <2>3, MarkType DEF EvictExpiredSqlite, TypeOK, Reasons
<1>4. ASSUME NEW t \in Tasks, HasRoom(t) PROVE TypeOK'
  <2>1. pc' \in [Tasks -> Steps]
    BY <1>0, <1>4, GotoType DEF HasRoom, Steps, Unpushed
  <2> QED BY <1>0, <1>4, <2>1 DEF HasRoom, TypeOK
<1>5. ASSUME NEW t \in Tasks, Spill(t) PROVE TypeOK'
  <2>1. pc' \in [Tasks -> Steps]
    BY <1>0, <1>5, GotoType DEF Spill, Steps, Unpushed
  <2>2. ent[t] \in Entry
    BY <1>5 DEF UsageInv, Spill, At, Unpushed
  <2> DEFINE row == [id |-> nextId, e |-> ent[t], born |-> clock, sent |-> FALSE]
  <2>4. row \in Row
    BY <1>0, <2>2 DEF TypeOK, Row
  <2>5. rows' = rows \union {row} /\ nextId' = nextId + 1
    BY <1>5 DEF Spill
  <2> HIDE DEF row
  <2>3. rows' \subseteq Row /\ nextId' \in Nat
    BY <1>0, <2>4, <2>5 DEF TypeOK
  <2> QED BY <1>0, <1>5, <2>1, <2>3 DEF Spill, TypeOK
<1>6. ASSUME NEW t \in Tasks, MustEvict(t) PROVE TypeOK'
  <2>1. pc' \in [Tasks -> Steps]
    BY <1>0, <1>6, GotoType DEF MustEvict, Steps, Unpushed
  <2> QED BY <1>0, <1>6, <2>1 DEF MustEvict, TypeOK
<1>7. ASSUME NEW t \in Tasks, EvictOldest(t) PROVE TypeOK'
  <2>1. pc' \in [Tasks -> Steps]
    BY <1>0, <1>7, GotoType DEF EvictOldest, Steps, Unpushed
  <2>2. Remove(Front(mem, 1), "evicted") /\ Front(mem, 1) \in SUBSET mem
    BY <1>7 DEF EvictOldest, Front
  <2> QED BY <1>0, <1>7, <2>1, <2>2, RemoveType DEF EvictOldest, TypeOK, Reasons
<1>8. ASSUME NEW t \in Tasks, Push(t) PROVE TypeOK'
  <2>1. pc' \in [Tasks -> Steps]
    BY <1>0, <1>8, GotoType DEF Push, Steps, Unpushed
  <2>2. ent[t] \in Entry
    BY <1>8 DEF UsageInv, Push, At, Unpushed
  <2>3. [ent[t] EXCEPT !.pos = pushed + 1] \in Entry
    BY <1>0, <2>2 DEF TypeOK, Entry
  <2> DEFINE e == [ent[t] EXCEPT !.pos = pushed + 1]
  <2>4. mem' = mem \union {e} /\ ent' = [ent EXCEPT ![t] = e] /\ pushed' = pushed + 1
    BY <1>8 DEF Push
  <2> HIDE DEF e
  <2>5. mem' \subseteq Entry /\ ent' \in [Tasks -> Entry \union {NoEntry}] /\ pushed' \in Nat
    BY <1>0, <2>3, <2>4 DEF TypeOK, e
  <2> QED BY <1>0, <1>8, <2>1, <2>5 DEF Push, TypeOK
<1>9. ASSUME NEW t \in Tasks, CountAdded(t) PROVE TypeOK'
  <2>1. pc' \in [Tasks -> Steps]
    BY <1>0, <1>9, GotoType DEF CountAdded, Steps, Unpushed
  <2>2. ent[t] \in Entry
    BY <1>9 DEF UsageInv, CountAdded, At
  <2>4. ent[t].size \in Int /\ memoryUsage \in Int
    BY <1>0, <2>2, EntrySize, MemoryAssumption DEF TypeOK
  <2>3. memoryUsage' \in 0 .. U64 - 1
    BY <1>9, <2>4, WrapType DEF CountAdded
  <2> QED BY <1>0, <1>9, <2>1, <2>3 DEF CountAdded, TypeOK
<1>10. ASSUME NEW t \in Tasks, NEW n \in Nat, Read(t, n) PROVE TypeOK'
  <2>1. Remove(Front(mem, n), "handed") /\ Front(mem, n) \in SUBSET mem
    BY <1>10 DEF Read, Front
  <2> QED BY <1>0, <1>10, <2>1, RemoveType DEF Read, TypeOK, Reasons
<1>11. ASSUME NEW t \in Tasks, NEW ty \in Types, DrainByType(t, ty) PROVE TypeOK'
  <2>1. Remove({e \in mem : e.type = ty}, "handed")
    BY <1>11 DEF DrainByType
  <2> QED BY <1>0, <1>11, <2>1, RemoveType DEF DrainByType, TypeOK, Reasons
<1>12. ASSUME NEW t \in Tasks, DrainMemory(t) PROVE TypeOK'
  <2>1. pc' \in [Tasks -> Steps]
    BY <1>0, <1>12, GotoType DEF DrainMemory, Steps, Unpushed
  <2>2. Remove(mem, "handed")
    BY <1>12 DEF DrainMemory
  <2> QED BY <1>0, <1>12, <2>1, <2>2, RemoveType DEF DrainMemory, TypeOK, Reasons
<1>13. ASSUME NEW t \in Tasks, DrainSqlite(t) PROVE TypeOK'
  <2>1. pc' \in [Tasks -> Steps]
    BY <1>0, <1>13, GotoType DEF DrainSqlite, Steps, Unpushed
  <2>2. {r.id : r \in DrainRows} \subseteq Nat
    BY <1>0 DEF TypeOK, Row, DrainRows, Pending
  <2>3. hand' \in [Tasks -> SUBSET Nat]
    BY <1>0, <1>13, <2>2 DEF DrainSqlite, TypeOK
  <2> QED BY <1>0, <1>13, <2>1, <2>3 DEF DrainSqlite, TypeOK
<1>14. ASSUME NEW t \in Tasks, NEW id \in hand[t], MarkSent(t, id) PROVE TypeOK'
  <2>1. rows' \subseteq Row
    BY <1>0, <1>14 DEF MarkSent, TypeOK, Row
  <2>2. hand' \in [Tasks -> SUBSET Nat]
    BY <1>0, <1>14 DEF MarkSent, TypeOK
  <2> QED BY <1>0, <1>14, <2>1, <2>2 DEF MarkSent, TypeOK
<1>15. ASSUME NEW t \in Tasks, MarkRetry(t) PROVE TypeOK'
  BY <1>0, <1>15 DEF MarkRetry, TypeOK
<1>16. ASSUME NEW t \in Tasks, DeleteMemory(t) PROVE TypeOK'
  <2>1. pc' \in [Tasks -> Steps]
    BY <1>0, <1>16, GotoType DEF DeleteMemory, Steps, Unpushed
  <2>2. Mark(mem, "deleted") \subseteq [uid : Nat \X Nat, why : Reasons]
    BY <1>0, MarkType DEF TypeOK, Reasons
  <2> QED BY <1>0, <1>16, <2>1, <2>2 DEF DeleteMemory, TypeOK
<1>17. ASSUME NEW t \in Tasks, DeleteZero(t) PROVE TypeOK'
  <2>1. pc' \in [Tasks -> Steps]
    BY <1>0, <1>17, GotoType DEF DeleteZero, Steps, Unpushed
  <2> QED BY <1>0, <1>17, <2>1, MemoryAssumption DEF DeleteZero, TypeOK
<1>18. ASSUME NEW t \in Tasks, DeleteSqlite(t) PROVE TypeOK'
  <2>1. pc' \in [Tasks -> Steps]
    BY <1>0, <1>18, GotoType DEF DeleteSqlite, Steps, Unpushed
  <2>2. {r.e : r \in rows} \subseteq Entry
    BY <1>0 DEF TypeOK, Row
  <2>3. Mark({r.e : r \in rows}, "deleted") \subseteq [uid : Nat \X Nat, why : Reasons]
    BY <2>2, MarkType DEF Reasons
  <2> QED BY <1>0, <1>18, <2>1, <2>3 DEF DeleteSqlite, TypeOK
<1>19. CASE Tick
  BY <1>0, <1>19 DEF Tick, TypeOK
<1>20. CASE Restart
  <2> DEFINE lost == mem \union {ent[t] : t \in {u \in Tasks : pc[u] \in Unpushed}}
  <2>1. lost \subseteq Entry
    BY <1>0 DEF UsageInv, TypeOK
  <2>2. Mark(lost, "crashed") \subseteq [uid : Nat \X Nat, why : Reasons]
    BY <2>1, MarkType DEF Reasons
  <2>3. pc' \in [Tasks -> Steps]
    BY <1>20 DEF Restart, Steps
  <2>4. /\ mem' = {} /\ memoryUsage' = 0 /\ seqCounter' = 1 /\ pushed' = 0
        /\ db' \in BOOLEAN
    BY <1>20 DEF Restart, Fresh, Opened
  <2> QED BY <1>0, <1>20, <2>2, <2>3, <2>4, MemoryAssumption DEF Restart, TypeOK
<1>21. CASE UNCHANGED vars
  BY <1>0, <1>21 DEF vars, TypeOK
<1> QED BY <1>1, <1>2, <1>3, <1>4, <1>5, <1>6, <1>7, <1>8, <1>9, <1>10, <1>11,
           <1>12, <1>13, <1>14, <1>15, <1>16, <1>17, <1>18, <1>19, <1>20, <1>21
        DEF Next, WriteStep, ReadStep, DeleteStep

(***************************************************************************)
(* Every step keeps the counter congruent to what it counts.               *)
(***************************************************************************)

\* What a step that takes S out of the deque (or nothing) keeps.
LEMMA RemoveUsage ==
    ASSUME UsageInv, NEW S \in SUBSET mem, NEW why \in Reasons, Remove(S, why)
    PROVE  /\ IsFiniteSet(BytesOf(mem')) /\ \A e \in mem' : e.pos <= pushed'
           /\ Congruent => (memoryUsage' - Bytes(mem') + Bytes(Adding)) % U64 = 0
<1>1. /\ IsFiniteSet(BytesOf(mem \ S)) /\ Bytes(mem) \in Nat /\ Bytes(S) \in Nat
      /\ Bytes(mem \ S) = Bytes(mem) - Bytes(S)
  BY BytesRemove DEF UsageInv
<1>2. Bytes(Adding) \in Nat /\ memoryUsage \in Int
  BY FS_CardinalityType, MemoryAssumption DEF UsageInv, TypeOK, Bytes
<1>3. ASSUME Congruent PROVE (memoryUsage' - Bytes(mem') + Bytes(Adding)) % U64 = 0
  <2> DEFINE x == memoryUsage - Bytes(S)
             y == Bytes(Adding) - Bytes(mem \ S)
  <2>1. x \in Int /\ y \in Int /\ x + y = memoryUsage - Bytes(mem) + Bytes(Adding)
    BY <1>1, <1>2
  <2>2. (x + y) % U64 = 0
    BY <1>3, <2>1 DEF Congruent
  <2>3. memoryUsage' = x % U64 /\ mem' = mem \ S
    BY DEF Remove, WrapSub
  <2>4. ((x % U64) + y) % U64 = 0
    BY <2>1, <2>2, WrapCongruent
  <2>5. x % U64 \in Int
    BY <2>1, Division, MemoryAssumption
  <2>6. (x % U64) + y = memoryUsage' - Bytes(mem') + Bytes(Adding)
    BY <2>3, <2>5, <1>1, <1>2
  <2> QED BY <2>4, <2>6
<1> QED BY <1>1, <1>3 DEF Remove, UsageInv

\* The entries pushed and not yet counted are the same after a step that
\* moves no task to or from that point.
LEMMA AddingSame ==
    ASSUME \A u \in Tasks : /\ pc'[u] = "add" <=> pc[u] = "add"
                            /\ pc[u] = "add" => ent'[u] = ent[u]
    PROVE  Adding' = Adding
BY DEF Adding

\* The conjuncts of UsageInv about what one task is doing.
Holding ==
    /\ \A t \in Tasks : pc[t] \in Unpushed \union {"add"} => ent[t] \in Entry
    /\ \A t \in Tasks : pc[t] = "delZero" => DeleteBacklog

\* Steps that leave the deque, the counter and the pending counts alone.
LEMMA QuietUsage ==
    ASSUME UsageInv, TypeOK', Holding', UNCHANGED memVars,
           \A u \in Tasks : /\ pc'[u] = "add" <=> pc[u] = "add"
                            /\ pc[u] = "add" => ent'[u] = ent[u]
    PROVE  UsageInv'
<1>1. Adding' = Adding
  BY AddingSame
<1>2. Congruent => Congruent'
  BY <1>1 DEF Congruent, memVars, Bytes, BytesOf
<1>3. IsFiniteSet(BytesOf(mem))' /\ IsFiniteSet(BytesOf(Adding))'
  BY <1>1 DEF UsageInv, memVars, BytesOf
<1> QED BY <1>2, <1>3 DEF UsageInv, memVars, Holding

\* Steps that take entries out of the deque.
LEMMA RemovalUsage ==
    ASSUME UsageInv, TypeOK', Holding',
           NEW S \in SUBSET mem, NEW why \in Reasons, Remove(S, why),
           \A u \in Tasks : /\ pc'[u] = "add" <=> pc[u] = "add"
                            /\ pc[u] = "add" => ent'[u] = ent[u]
    PROVE  UsageInv'
<1>1. Adding' = Adding
  BY AddingSame
<1>2. Congruent => Congruent'
  BY <1>1, RemoveUsage DEF Congruent, Bytes, BytesOf
<1>3. IsFiniteSet(BytesOf(mem))' /\ IsFiniteSet(BytesOf(Adding))'
  BY <1>1, RemoveUsage DEF UsageInv, BytesOf
<1>4. pushed' = pushed /\ (\A e \in mem : e.pos <= pushed)'
  BY RemoveUsage DEF Remove
<1> QED BY <1>2, <1>3, <1>4 DEF UsageInv, Holding

\* Push makes an entry both held and pending: the two terms cancel.
LEMMA PushUsage ==
    ASSUME UsageInv, TypeOK', NEW t \in Tasks, Push(t)
    PROVE  UsageInv'
<1> DEFINE e == [ent[t] EXCEPT !.pos = pushed + 1]
<1>1. ent[t] \in Entry /\ pc[t] = "push"
  BY DEF UsageInv, Push, At, Unpushed
<1>2. e \in Entry /\ e.pos = pushed + 1 /\ pushed \in Nat
  BY <1>1 DEF UsageInv, TypeOK, Entry
<1>3. /\ mem' = mem \union {e} /\ ent' = [ent EXCEPT ![t] = e] /\ pushed' = pushed + 1
      /\ pc' = [pc EXCEPT ![t] = "add"] /\ memoryUsage' = memoryUsage
  BY DEF Push, Goto
<1> HIDE DEF e
<1>4. pc \in [Tasks -> Steps] /\ ent \in [Tasks -> Entry \union {NoEntry}] /\ mem \subseteq Entry
  BY DEF UsageInv, TypeOK
<1>5. Adding' = Adding \union {e}
  BY <1>1, <1>3, <1>4 DEF Adding
<1>6. \A f \in mem \union Adding : f \in Entry /\ f.pos <= pushed
  BY <1>4 DEF UsageInv, Adding
<1>7. e \notin mem /\ e \notin Adding
  BY <1>2, <1>6, EntrySize
<1>8. e.size \in Nat
  BY <1>2, EntrySize
<1>9. /\ IsFiniteSet(BytesOf(mem \union {e})) /\ IsFiniteSet(BytesOf(Adding \union {e}))
      /\ Bytes(mem) \in Nat /\ Bytes(Adding) \in Nat
      /\ Bytes(mem \union {e}) = Bytes(mem) + e.size
      /\ Bytes(Adding \union {e}) = Bytes(Adding) + e.size
  BY <1>7, <1>8, BytesAdd DEF UsageInv
<1>10. Congruent => Congruent'
  <2>1. memoryUsage \in Int
    BY MemoryAssumption DEF UsageInv, TypeOK
  <2>2. memoryUsage' - Bytes(mem \union {e}) + Bytes(Adding \union {e})
          = memoryUsage - Bytes(mem) + Bytes(Adding)
    BY <2>1, <1>3, <1>8, <1>9
  <2>3. Bytes(mem)' = Bytes(mem \union {e}) /\ Bytes(Adding)' = Bytes(Adding \union {e})
    BY <1>3, <1>5 DEF Bytes, BytesOf
  <2> QED BY <2>2, <2>3 DEF Congruent
<1>11. IsFiniteSet(BytesOf(mem))' /\ IsFiniteSet(BytesOf(Adding))'
  BY <1>3, <1>5, <1>9 DEF BytesOf
<1>12. (\A f \in mem : f.pos <= pushed)'
  BY <1>2, <1>3, <1>6, <1>4, EntrySize
<1>13. Holding'
  BY <1>2, <1>3, <1>4 DEF UsageInv, Holding
<1>14. (\A u \in Tasks : pc[u] = "add" => ent[u].pos <= pushed)'
  BY <1>2, <1>3, <1>4, EntrySize DEF UsageInv
<1>15. (\A u, v \in Tasks : pc[u] = "add" /\ pc[v] = "add" /\ ent[u].pos = ent[v].pos => u = v)'
  <2> SUFFICES ASSUME NEW u \in Tasks, NEW v \in Tasks, pc'[u] = "add", pc'[v] = "add",
                      ent'[u].pos = ent'[v].pos
               PROVE  u = v
    OBVIOUS
  <2>1. \A w \in Tasks : w # t /\ pc'[w] = "add" => ent'[w] = ent[w] /\ pc[w] = "add"
                                                   /\ ent[w].pos <= pushed /\ ent[w].pos \in Nat
    BY <1>3, <1>4, EntrySize DEF UsageInv
  <2>2. ent'[t].pos = pushed + 1
    BY <1>2, <1>3, <1>4
  <2> QED BY <2>1, <2>2, <1>2 DEF UsageInv
<1> QED BY <1>10, <1>11, <1>12, <1>13, <1>14, <1>15 DEF UsageInv, Holding

\* CountAdded moves an entry's size from the pending counts to the counter.
LEMMA CountUsage ==
    ASSUME UsageInv, TypeOK', NEW t \in Tasks, CountAdded(t)
    PROVE  UsageInv'
<1>1. ent[t] \in Entry /\ pc[t] = "add"
  BY DEF UsageInv, CountAdded, At
<1>2. /\ mem' = mem /\ ent' = [ent EXCEPT ![t] = NoEntry] /\ pushed' = pushed
      /\ pc' = [pc EXCEPT ![t] = "idle"]
      /\ memoryUsage' = (memoryUsage + ent[t].size) % U64
  BY DEF CountAdded, Goto, WrapAdd
<1>3. pc \in [Tasks -> Steps] /\ ent \in [Tasks -> Entry \union {NoEntry}] /\ mem \subseteq Entry
  BY DEF UsageInv, TypeOK
<1>4. Adding' = Adding \ {ent[t]}
  BY <1>1, <1>2, <1>3 DEF Adding, UsageInv
<1>5. ent[t] \in Adding /\ ent[t].size \in Nat
  BY <1>1, EntrySize DEF Adding
<1>6. /\ IsFiniteSet(BytesOf(Adding \ {ent[t]})) /\ Bytes(Adding) \in Nat
      /\ Bytes({ent[t]}) \in Nat
      /\ Bytes(Adding \ {ent[t]}) = Bytes(Adding) - Bytes({ent[t]})
  BY <1>5, BytesRemove DEF UsageInv
<1>7. Bytes({ent[t]}) = ent[t].size
  <2>1. BytesOf({}) = {}
    BY DEF BytesOf
  <2>2. IsFiniteSet(BytesOf({})) /\ Bytes({}) = 0
    BY <2>1, FS_EmptySet DEF Bytes
  <2>3. Bytes({} \union {ent[t]}) = 0 + ent[t].size
    BY <1>5, <2>2, BytesAdd
  <2>4. {} \union {ent[t]} = {ent[t]}
    OBVIOUS
  <2> QED BY <2>3, <2>4, <1>5
<1>8. Congruent => Congruent'
  <2> SUFFICES ASSUME Congruent PROVE Congruent'
    OBVIOUS
  <2> DEFINE x == memoryUsage + ent[t].size
             y == Bytes(Adding \ {ent[t]}) - Bytes(mem)
  <2>1. memoryUsage \in Int /\ Bytes(mem) \in Nat
    BY MemoryAssumption, FS_CardinalityType DEF UsageInv, TypeOK, Bytes
  <2>2. x \in Int /\ y \in Int /\ x + y = memoryUsage - Bytes(mem) + Bytes(Adding)
    BY <2>1, <1>5, <1>6, <1>7
  <2>3. ((x % U64) + y) % U64 = 0
    BY <2>2, WrapCongruent DEF Congruent
  <2>7. x % U64 \in Int
    BY <2>2, Division, MemoryAssumption
  <2>4. x % U64 \in Int /\ Bytes(Adding \ {ent[t]}) \in Int
    BY <2>7, <1>5, <1>6, <1>7
  <2>5. (x % U64) + y = memoryUsage' - Bytes(mem) + Bytes(Adding \ {ent[t]})
    BY <2>1, <2>4, <1>2
  <2>6. Bytes(mem)' = Bytes(mem) /\ Bytes(Adding)' = Bytes(Adding \ {ent[t]})
    BY <1>2, <1>4 DEF Bytes, BytesOf
  <2> QED BY <2>3, <2>5, <2>6 DEF Congruent
<1>9. IsFiniteSet(BytesOf(mem))' /\ IsFiniteSet(BytesOf(Adding))'
  BY <1>2, <1>4, <1>6 DEF BytesOf, UsageInv
<1> QED BY <1>2, <1>3, <1>8, <1>9 DEF UsageInv, Unpushed

\* The initial states satisfy the invariant.
LEMMA UsageInit == Init => UsageInv
<1> SUFFICES ASSUME Init PROVE UsageInv
  OBVIOUS
<1>1. mem = {} /\ memoryUsage = 0 /\ seqCounter = 1 /\ pushed = 0 /\ db \in BOOLEAN
  BY DEF Init, Fresh, Opened
<1>2. Adding = {}
  BY DEF Init, Adding
<1>3. BytesOf({}) = {}
  BY DEF BytesOf
<1>4. IsFiniteSet(BytesOf({})) /\ Bytes({}) = 0
  BY <1>3, FS_EmptySet DEF Bytes
<1>5. TypeOK
  BY <1>1, MemoryAssumption DEF Init, TypeOK, Steps
<1>6. Congruent
  <2>1. memoryUsage - Bytes(mem) + Bytes(Adding) = 0 * U64
    BY <1>1, <1>2, <1>4, MemoryAssumption
  <2>2. (0 * U64) \in Int
    BY MemoryAssumption
  <2> QED BY <2>1, <2>2, Multiple DEF Congruent
<1> QED BY <1>1, <1>2, <1>4, <1>5, <1>6 DEF UsageInv, Init, Unpushed

\* Every step keeps it.
LEMMA UsageStep == UsageInv /\ [Next]_vars => UsageInv'
<1> SUFFICES ASSUME UsageInv, [Next]_vars PROVE UsageInv'
  OBVIOUS
<1> USE DEF memVars
<1>0. TypeOK' /\ pc \in [Tasks -> Steps] /\ ent \in [Tasks -> Entry \union {NoEntry}]
  BY TypeStep DEF UsageInv, TypeOK
<1>1. ASSUME NEW t \in Tasks, NEW s \in Sizes, NEW ty \in Types, WriteBegin(t, s, ty)
      PROVE  UsageInv'
  <2>1. ent'[t] \in Entry
    BY <1>0, <1>1 DEF WriteBegin, UsageInv, TypeOK, Entry
  <2>2. Holding'
    BY <1>0, <1>1, <2>1 DEF WriteBegin, Goto, Holding, UsageInv
  <2> QED BY <1>0, <1>1, <2>2, QuietUsage DEF WriteBegin, Free, At, Goto
<1>2. ASSUME NEW t \in Tasks, EvictExpired(t) PROVE UsageInv'
  <2>1. Holding'
    BY <1>0, <1>2 DEF EvictExpired, Goto, At, Holding, UsageInv, Unpushed
  <2>2. Remove(ExpiredFront, "expired") /\ ExpiredFront \in SUBSET mem /\ "expired" \in Reasons
    BY <1>2 DEF EvictExpired, ExpiredFront, Reasons
  <2>3. \A u \in Tasks : /\ pc'[u] = "add" <=> pc[u] = "add"
                         /\ pc[u] = "add" => ent'[u] = ent[u]
    BY <1>0, <1>2 DEF EvictExpired, Goto, At
  <2> QED BY <1>0, <2>1, <2>2, <2>3, RemovalUsage
<1>3. ASSUME NEW t \in Tasks, EvictExpiredSqlite(t) PROVE UsageInv'
  <2>1. Holding'
    BY <1>0, <1>3 DEF EvictExpiredSqlite, Goto, At, Holding, UsageInv, Unpushed
  <2> QED BY <1>0, <1>3, <2>1, QuietUsage DEF EvictExpiredSqlite, Goto, At
<1>4. ASSUME NEW t \in Tasks, HasRoom(t) PROVE UsageInv'
  <2>1. Holding'
    BY <1>0, <1>4 DEF HasRoom, Goto, At, Holding, UsageInv, Unpushed
  <2> QED BY <1>0, <1>4, <2>1, QuietUsage DEF HasRoom, Goto, At
<1>5. ASSUME NEW t \in Tasks, Spill(t) PROVE UsageInv'
  <2>1. Holding'
    BY <1>0, <1>5 DEF Spill, Goto, At, Holding, UsageInv, Unpushed
  <2> QED BY <1>0, <1>5, <2>1, QuietUsage DEF Spill, Goto, At
<1>6. ASSUME NEW t \in Tasks, MustEvict(t) PROVE UsageInv'
  <2>1. Holding'
    BY <1>0, <1>6 DEF MustEvict, Goto, At, Holding, UsageInv, Unpushed
  <2> QED BY <1>0, <1>6, <2>1, QuietUsage DEF MustEvict, Goto, At
<1>7. ASSUME NEW t \in Tasks, EvictOldest(t) PROVE UsageInv'
  <2>1. Holding'
    BY <1>0, <1>7 DEF EvictOldest, Goto, At, Holding, UsageInv, Unpushed
  <2>2. Remove(Front(mem, 1), "evicted") /\ Front(mem, 1) \in SUBSET mem /\ "evicted" \in Reasons
    BY <1>7 DEF EvictOldest, Front, Reasons
  <2>3. \A u \in Tasks : /\ pc'[u] = "add" <=> pc[u] = "add"
                         /\ pc[u] = "add" => ent'[u] = ent[u]
    BY <1>0, <1>7 DEF EvictOldest, Goto, At
  <2> QED BY <1>0, <2>1, <2>2, <2>3, RemovalUsage
<1>8. ASSUME NEW t \in Tasks, Push(t) PROVE UsageInv'
  BY <1>0, <1>8, PushUsage
<1>9. ASSUME NEW t \in Tasks, CountAdded(t) PROVE UsageInv'
  BY <1>0, <1>9, CountUsage
<1>10. ASSUME NEW t \in Tasks, NEW S \in SUBSET mem, Remove(S, "handed"),
              UNCHANGED <<pc, ent>> \/ (Free(t) /\ UNCHANGED ent /\
                \E step \in {"idle", "drainDb"} : Goto(t, step))
       PROVE  UsageInv'
  <2>1. Holding'
    BY <1>0, <1>10 DEF Goto, Free, At, Holding, UsageInv, Unpushed
  <2>2. \A u \in Tasks : /\ pc'[u] = "add" <=> pc[u] = "add"
                         /\ pc[u] = "add" => ent'[u] = ent[u]
    BY <1>0, <1>10 DEF Goto, Free, At
  <2> QED BY <1>0, <1>10, <2>1, <2>2, RemovalUsage DEF Reasons
<1>11. ASSUME NEW t \in Tasks, ReadStep(t) PROVE UsageInv'
  <2>1. ASSUME NEW n \in Nat, Read(t, n) PROVE UsageInv'
    BY <2>1, <1>10 DEF Read, Front
  <2>2. ASSUME NEW ty \in Types, DrainByType(t, ty) PROVE UsageInv'
    BY <2>2, <1>10 DEF DrainByType
  <2>3. CASE DrainMemory(t)
    BY <2>3, <1>10 DEF DrainMemory
  <2>4. CASE DrainSqlite(t)
    <3>1. Holding'
      BY <1>0, <2>4 DEF DrainSqlite, Goto, At, Holding, UsageInv, Unpushed
    <3> QED BY <1>0, <2>4, <3>1, QuietUsage DEF DrainSqlite, Goto, At
  <2>5. ASSUME NEW id \in hand[t], MarkSent(t, id) PROVE UsageInv'
    <3>1. Holding'
      BY <1>0, <2>5 DEF MarkSent, Holding, UsageInv
    <3> QED BY <1>0, <2>5, <3>1, QuietUsage DEF MarkSent
  <2>6. CASE MarkRetry(t)
    <3>1. Holding'
      BY <1>0, <2>6 DEF MarkRetry, Holding, UsageInv
    <3> QED BY <1>0, <2>6, <3>1, QuietUsage DEF MarkRetry
  <2> QED BY <1>11, <2>1, <2>2, <2>3, <2>4, <2>5, <2>6 DEF ReadStep
<1>12. ASSUME NEW t \in Tasks, DeleteStep(t) PROVE UsageInv'
  <2>1. Holding'
    BY <1>0, <1>12 DEF DeleteStep, DeleteMemory, DeleteZero, DeleteSqlite, Goto, Free, At,
                       Holding, UsageInv, Unpushed
  <2>2. \A u \in Tasks : /\ pc'[u] = "add" <=> pc[u] = "add"
                         /\ pc[u] = "add" => ent'[u] = ent[u]
    BY <1>0, <1>12 DEF DeleteStep, DeleteMemory, DeleteZero, DeleteSqlite, Goto, Free, At
  <2>3. CASE DeleteSqlite(t)
    BY <1>0, <2>1, <2>2, <2>3, QuietUsage DEF DeleteSqlite
  <2>4. CASE DeleteMemory(t) \/ DeleteZero(t)
    <3>1. DeleteBacklog
      BY <2>4, <1>12 DEF DeleteMemory, DeleteZero, UsageInv, At
    <3>2. mem' \subseteq mem /\ pushed' = pushed
      BY <2>4 DEF DeleteMemory, DeleteZero
    <3>3. BytesOf(mem') \subseteq BytesOf(mem)
      BY <3>2 DEF BytesOf
    <3>4. IsFiniteSet(BytesOf(mem')) /\ Adding' = Adding
      BY <3>3, <2>2, AddingSame, FS_Subset DEF UsageInv
    <3>5. IsFiniteSet(BytesOf(mem))' /\ IsFiniteSet(BytesOf(Adding))'
      BY <3>4 DEF UsageInv, BytesOf
    <3> QED BY <1>0, <2>1, <2>2, <3>1, <3>2, <3>5 DEF UsageInv, Holding
  <2> QED BY <1>12, <2>3, <2>4 DEF DeleteStep
<1>13. CASE Tick
  <2>1. Holding'
    BY <1>0, <1>13 DEF Tick, Holding, UsageInv
  <2> QED BY <1>0, <1>13, <2>1, QuietUsage DEF Tick
<1>14. CASE Restart
  <2>1. /\ mem' = {} /\ memoryUsage' = 0 /\ pushed' = 0
        /\ pc' = [t \in Tasks |-> "idle"]
    BY <1>14 DEF Restart, Fresh
  <2>2. Adding' = {}
    BY <2>1 DEF Adding
  <2>3. BytesOf({}) = {}
    BY DEF BytesOf
  <2>4. IsFiniteSet(BytesOf({})) /\ Bytes({}) = 0
    BY <2>3, FS_EmptySet DEF Bytes
  <2>5. Bytes(mem)' = Bytes({}) /\ Bytes(Adding)' = Bytes({})
    BY <2>1, <2>2 DEF Bytes, BytesOf
  <2>6. Congruent'
    <3>1. memoryUsage' - Bytes({}) + Bytes({}) = 0 * U64
      BY <2>1, <2>4, MemoryAssumption
    <3>2. (0 * U64) \in Int
      BY MemoryAssumption
    <3>3. (memoryUsage' - Bytes({}) + Bytes({})) % U64 = 0
      BY <3>1, <3>2, Multiple
    <3> QED BY <3>3, <2>5 DEF Congruent
  <2>7. IsFiniteSet(BytesOf(mem))' /\ IsFiniteSet(BytesOf(Adding))'
    BY <2>1, <2>2, <2>4 DEF BytesOf
  <2> QED BY <1>0, <2>1, <2>6, <2>7 DEF UsageInv, Unpushed
<1>15. CASE UNCHANGED vars
  <2>1. Holding'
    BY <1>0, <1>15 DEF vars, Holding, UsageInv
  <2> QED BY <1>0, <1>15, <2>1, QuietUsage DEF vars
<1> QED BY <1>1, <1>2, <1>3, <1>4, <1>5, <1>6, <1>7, <1>8, <1>9, <1>11, <1>12,
           <1>13, <1>14, <1>15 DEF Next, WriteStep

(***************************************************************************)
(* The theorems.                                                           *)
(***************************************************************************)

\* The inductive invariant holds in every reachable state of the edge buffer.
THEOREM UsageInvariant == Spec => []UsageInv
BY UsageInit, UsageStep, PTL DEF Spec

\* Type correctness, of the wrapping AtomicU64 counter in particular.
THEOREM TypeCorrect == Spec => []TypeOK
<1>1. UsageInv => TypeOK
  BY DEF UsageInv
<1> QED BY <1>1, UsageInvariant, PTL

\* Without DeleteBacklog commands the counter never drifts: whenever no write
\* is between its push_back and its fetch_add, memory_usage is exactly the
\* number of bytes in the deque, whatever the number of tasks and their
\* interleaving.
THEOREM UsageCorrect == ~DeleteBacklog => (Spec => []UsageExact)
<1> SUFFICES ASSUME ~DeleteBacklog PROVE Spec => []UsageExact
  OBVIOUS
<1>1. UsageInv => UsageExact
  <2> SUFFICES ASSUME UsageInv, \A t \in Tasks : pc[t] # "add",
                      Bytes(mem) < U64
               PROVE  memoryUsage = Bytes(mem)
    BY DEF UsageExact
  <2>1. BytesOf(Adding) = {}
    BY DEF Adding, BytesOf
  <2>2. Bytes(Adding) = 0 /\ Bytes(mem) \in Nat
    BY <2>1, FS_EmptySet, FS_CardinalityType DEF UsageInv, Bytes
  <2>3. memoryUsage \in 0 .. U64 - 1 /\ Bytes(mem) \in 0 .. U64 - 1
    BY <2>2, MemoryAssumption DEF UsageInv, TypeOK
  <2>4. (memoryUsage - Bytes(mem)) % U64 = 0 /\ memoryUsage - Bytes(mem) \in Int
    <3>1. memoryUsage - Bytes(mem) + Bytes(Adding) = memoryUsage - Bytes(mem)
      BY <2>2, <2>3, MemoryAssumption
    <3> QED BY <3>1, <2>3, MemoryAssumption DEF UsageInv, Congruent
  <2>5. PICK k \in Int : memoryUsage - Bytes(mem) = k * U64
    BY <2>4, Multiple
  <2>6. memoryUsage = Bytes(mem) + k * U64
    BY <2>3, <2>5, MemoryAssumption
  <2> QED BY <2>3, <2>6, CongruentEqual
<1> QED BY <1>1, UsageInvariant, PTL

(***************************************************************************)
(* Every entry is in one place: each step moves entries from one place to  *)
(* another, or adds a new one.                                             *)
(***************************************************************************)

\* The identities of a set of entries.
Uids(S) == {Uid(e) : e \in S}

\* Every entry write() was called for, wherever it is now.
Known == Writing \union InMemory \union OnDisk \union Gone

\* The identities that a set of reasons is about.
LEMMA MarkUids ==
    ASSUME NEW S, NEW why, gone' = gone \union Mark(S, why)
    PROVE  /\ Gone' = Gone \union Uids(S)
           /\ \A g \in gone' : g \in gone \/ (g.uid \in Uids(S) /\ g = [uid |-> g.uid, why |-> why])
<1>1. \A g \in Mark(S, why) : g.uid \in Uids(S) /\ g = [uid |-> g.uid, why |-> why]
  BY DEF Mark, Uids
<1>2. ASSUME NEW u \in Uids(S) PROVE \E g \in Mark(S, why) : g.uid = u
  <2>1. [uid |-> u, why |-> why] \in Mark(S, why)
    BY DEF Mark, Uids
  <2> QED BY <2>1
<1> QED BY <1>1, <1>2 DEF Gone

\* The part of the invariant about where the entries are.
Apart ==
    /\ Writing \intersect (InMemory \union OnDisk \union Gone) = {}
    /\ InMemory \intersect (OnDisk \union Gone) = {}
    /\ OnDisk \intersect Gone = {}
    /\ \A g, h \in gone : g.uid = h.uid => g = h

\* Numbers are given out in order.
Numbered ==
    /\ \A n \in 1 .. seqCounter - 1 : <<life, n>> \in Known
    /\ \A u \in Known : u[1] < life \/ (u[1] = life /\ u[2] < seqCounter)

\* An identity stands for one entry in each place.
DistinctWriters ==
    \A t, u \in Tasks :
        pc[t] \in Unpushed /\ pc[u] \in Unpushed /\ Uid(ent[t]) = Uid(ent[u]) => t = u
DistinctMemory == \A e, f \in mem : Uid(e) = Uid(f) => e = f
DistinctRows == \A r, s \in rows : Uid(r.e) = Uid(s.e) => r = s

\* The invariant, part by part.
LEMMA ConserveParts ==
    ConserveInv <=> Apart /\ Numbered /\ DistinctWriters /\ DistinctMemory /\ DistinctRows
BY DEF ConserveInv, Conservation, Apart, Numbered, Known, DistinctWriters,
       DistinctMemory, DistinctRows

\* Identities are pairs of numbers.
LEMMA KnownType ==
    ASSUME UsageInv
    PROVE  Known \subseteq Nat \X Nat
<1>1. \A e \in Entry : Uid(e) \in Nat \X Nat
  BY DEF Uid, Entry
<1>2. Writing \subseteq Nat \X Nat
  BY <1>1 DEF Writing, UsageInv
<1>3. InMemory \subseteq Nat \X Nat
  BY <1>1 DEF InMemory, UsageInv, TypeOK
<1>4. OnDisk \subseteq Nat \X Nat
  BY <1>1 DEF OnDisk, UsageInv, TypeOK, Row
<1>5. Gone \subseteq Nat \X Nat
  BY DEF Gone, UsageInv, TypeOK
<1> QED BY <1>2, <1>3, <1>4, <1>5 DEF Known

\* Entries leave from where they are, for one reason.
LEMMA LeaveApart ==
    ASSUME Apart, NEW S, NEW why, gone' = gone \union Mark(S, why),
           Uids(S) \subseteq Writing \union InMemory \union OnDisk,
           Writing' = Writing \ Uids(S), InMemory' = InMemory \ Uids(S),
           OnDisk' = OnDisk \ Uids(S)
    PROVE  Apart' /\ Known' = Known
<1> DEFINE X == Uids(S)
<1>1. /\ Gone' = Gone \union X
      /\ \A g \in gone' : g \in gone \/ (g.uid \in X /\ g = [uid |-> g.uid, why |-> why])
  BY MarkUids
<1> HIDE DEF X
<1>2. X \subseteq Writing \union InMemory \union OnDisk
      /\ Writing' = Writing \ X /\ InMemory' = InMemory \ X /\ OnDisk' = OnDisk \ X
  BY DEF X
<1>3. X \intersect Gone = {}
  BY <1>2 DEF Apart
<1>4. Known' = Known
  BY <1>1, <1>2 DEF Known
<1>5. /\ Writing' \intersect (InMemory' \union OnDisk' \union Gone') = {}
      /\ InMemory' \intersect (OnDisk' \union Gone') = {}
      /\ OnDisk' \intersect Gone' = {}
  BY <1>1, <1>2 DEF Apart
<1>6. ASSUME NEW g \in gone', NEW h \in gone', g.uid = h.uid PROVE g = h
  <2>1. \A k \in gone : k.uid \in Gone
    BY DEF Gone
  <2>2. CASE g \in gone /\ h \in gone
    BY <2>2, <1>6 DEF Apart
  <2>3. CASE g \in gone /\ h \notin gone
    BY <2>1, <2>3, <1>1, <1>3, <1>6
  <2>4. CASE g \notin gone /\ h \in gone
    BY <2>1, <2>4, <1>1, <1>3, <1>6
  <2>5. CASE g \notin gone /\ h \notin gone
    <3>1. g = [uid |-> g.uid, why |-> why] /\ h = [uid |-> h.uid, why |-> why]
      BY <2>5, <1>1
    <3> QED BY <3>1, <1>6
  <2> QED BY <2>2, <2>3, <2>4, <2>5
<1> QED BY <1>4, <1>5, <1>6 DEF Apart

\* The entries being written are the same after a step that leaves every
\* unfinished write with its entry.
LEMMA WritingSame ==
    ASSUME \A u \in Tasks : /\ pc'[u] \in Unpushed <=> pc[u] \in Unpushed
                            /\ pc[u] \in Unpushed => Uid(ent'[u]) = Uid(ent[u])
    PROVE  Writing' = Writing /\ (DistinctWriters => DistinctWriters')
<1>1. Writing' = Writing
  BY DEF Writing, Uid
<1>2. DistinctWriters => DistinctWriters'
  BY DEF DistinctWriters, Uid
<1> QED BY <1>1, <1>2

\* Taking out of a set with distinct identities.
LEMMA UidsRemove ==
    ASSUME NEW S, NEW T \in SUBSET S, \A e, f \in S : Uid(e) = Uid(f) => e = f
    PROVE  Uids(S \ T) = Uids(S) \ Uids(T)
BY DEF Uids

\* The rows that stay.
LEMMA RowsRemove ==
    ASSUME DistinctRows, NEW old \in SUBSET rows
    PROVE  {Uid(r.e) : r \in rows \ old} = OnDisk \ Uids({r.e : r \in old})
<1>1. \A r \in rows, s \in rows : Uid(r.e) = Uid(s.e) => r = s
  BY DEF DistinctRows
<1>2. OnDisk = {Uid(r.e) : r \in rows}
  BY DEF OnDisk
<1>3. Uids({r.e : r \in old}) = {Uid(r.e) : r \in old}
  BY DEF Uids
<1> QED BY <1>1, <1>2, <1>3

\* Steps that take entries out of the deque.
LEMMA RemovalConserve ==
    ASSUME ConserveInv, NEW S \in SUBSET mem, NEW why,
           mem' = mem \ S, gone' = gone \union Mark(S, why),
           UNCHANGED <<rows, seqCounter, life>>,
           \A u \in Tasks : /\ pc'[u] \in Unpushed <=> pc[u] \in Unpushed
                            /\ pc[u] \in Unpushed => Uid(ent'[u]) = Uid(ent[u])
    PROVE  ConserveInv'
<1>1. Apart /\ Numbered /\ DistinctWriters /\ DistinctMemory /\ DistinctRows
  BY ConserveParts
<1>2. Writing' = Writing /\ DistinctWriters'
  BY <1>1, WritingSame
<1>3. InMemory = Uids(mem) /\ InMemory' = Uids(mem \ S)
  BY DEF InMemory, Uids, Uid
<1>4. InMemory' = InMemory \ Uids(S) /\ Uids(S) \subseteq InMemory
  BY <1>1, <1>3, UidsRemove DEF DistinctMemory, Uids
<1>5. OnDisk' = OnDisk
  BY DEF OnDisk, Uid
<1>6. Writing' = Writing \ Uids(S) /\ OnDisk' = OnDisk \ Uids(S)
  BY <1>1, <1>2, <1>4, <1>5 DEF Apart
<1>7. Apart' /\ Known' = Known
  BY <1>1, <1>4, <1>6, LeaveApart
<1>8. Numbered'
  BY <1>1, <1>7 DEF Numbered
<1>9. DistinctMemory' /\ DistinctRows'
  BY <1>1 DEF DistinctMemory, DistinctRows, Uid
<1>10. (Apart /\ Numbered /\ DistinctWriters /\ DistinctMemory /\ DistinctRows)'
  BY <1>2, <1>7, <1>8, <1>9
<1> QED BY <1>10, ConserveParts, PTL

\* Steps that take rows out of the table.
LEMMA RowsConserve ==
    ASSUME ConserveInv, NEW old \in SUBSET rows, NEW why,
           rows' = rows \ old, gone' = gone \union Mark({r.e : r \in old}, why),
           UNCHANGED <<mem, seqCounter, life>>,
           \A u \in Tasks : /\ pc'[u] \in Unpushed <=> pc[u] \in Unpushed
                            /\ pc[u] \in Unpushed => Uid(ent'[u]) = Uid(ent[u])
    PROVE  ConserveInv'
<1> DEFINE S == {r.e : r \in old}
<1>1. Apart /\ Numbered /\ DistinctWriters /\ DistinctMemory /\ DistinctRows
  BY ConserveParts
<1>2. Writing' = Writing /\ DistinctWriters'
  BY <1>1, WritingSame
<1>3. OnDisk' = OnDisk \ Uids(S) /\ Uids(S) \subseteq OnDisk
  <2>1. OnDisk' = {Uid(r.e) : r \in rows \ old}
    BY DEF OnDisk, Uid
  <2>2. Uids(S) \subseteq OnDisk
    BY DEF OnDisk, Uids
  <2> QED BY <1>1, <2>1, <2>2, RowsRemove
<1>4. InMemory' = InMemory
  BY DEF InMemory, Uid
<1> HIDE DEF S
<1>6. Writing' = Writing \ Uids(S) /\ InMemory' = InMemory \ Uids(S)
  BY <1>1, <1>2, <1>3, <1>4 DEF Apart
<1>7. Apart' /\ Known' = Known
  <2>1. gone' = gone \union Mark(S, why)
    BY DEF S
  <2> QED BY <1>1, <1>3, <1>6, <2>1, LeaveApart
<1>8. Numbered'
  BY <1>1, <1>7 DEF Numbered
<1>9. DistinctMemory' /\ DistinctRows'
  BY <1>1 DEF DistinctMemory, DistinctRows, Uid
<1>10. (Apart /\ Numbered /\ DistinctWriters /\ DistinctMemory /\ DistinctRows)'
  BY <1>2, <1>7, <1>8, <1>9
<1> QED BY <1>10, ConserveParts, PTL

\* Steps that move no entry.
LEMMA QuietConserve ==
    ASSUME ConserveInv, UNCHANGED <<mem, rows, gone, seqCounter, life>>,
           \A u \in Tasks : /\ pc'[u] \in Unpushed <=> pc[u] \in Unpushed
                            /\ pc[u] \in Unpushed => Uid(ent'[u]) = Uid(ent[u])
    PROVE  ConserveInv'
<1>1. mem' = mem \ {} /\ gone' = gone \union Mark({}, "handed") /\ {} \in SUBSET mem
  BY DEF Mark
<1> QED BY <1>1, RemovalConserve

\* write() gives its entry the next number: it is new.
LEMMA BeginConserve ==
    ASSUME ConserveInv, UsageInv, NEW t \in Tasks, NEW s \in Sizes, NEW ty \in Types,
           WriteBegin(t, s, ty)
    PROVE  ConserveInv'
<1> DEFINE x == <<life, seqCounter>>
<1>1. Apart /\ Numbered /\ DistinctWriters /\ DistinctMemory /\ DistinctRows
  BY ConserveParts
<1>2. pc \in [Tasks -> Steps] /\ ent \in [Tasks -> Entry \union {NoEntry}]
      /\ seqCounter \in Nat /\ life \in Nat
  BY DEF UsageInv, TypeOK
<1>3. /\ pc[t] = "idle" /\ pc' = [pc EXCEPT ![t] = "expire"] /\ Uid(ent'[t]) = x
      /\ seqCounter' = seqCounter + 1 /\ UNCHANGED <<mem, rows, gone, life>>
      /\ \A u \in Tasks : u # t => ent'[u] = ent[u]
  BY <1>2 DEF WriteBegin, Free, At, Goto, memVars, dbVars, Uid
<1>4. \A u \in Tasks : /\ pc'[u] \in Unpushed <=> (pc[u] \in Unpushed \/ u = t)
                       /\ pc[u] \in Unpushed => u # t
  BY <1>2, <1>3 DEF Unpushed
<1>5. Writing' = Writing \union {x}
  BY <1>3, <1>4 DEF Writing
<1>6. InMemory' = InMemory /\ OnDisk' = OnDisk /\ Gone' = Gone
  BY <1>3 DEF InMemory, OnDisk, Gone, Uid
<1>7. x \notin Known
  BY <1>1, <1>2 DEF Numbered
<1>8. Known' = Known \union {x}
  BY <1>5, <1>6 DEF Known
<1>9. Apart'
  BY <1>1, <1>3, <1>5, <1>6, <1>7 DEF Apart, Known
<1>10. Numbered'
  <2>1. ASSUME NEW n \in 1 .. seqCounter' - 1 PROVE <<life', n>> \in Known'
    <3>1. CASE n = seqCounter
      BY <3>1, <1>3, <1>8
    <3>2. CASE n # seqCounter
      <4>1. n \in 1 .. seqCounter - 1
        BY <3>2, <2>1, <1>2, <1>3
      <4> QED BY <4>1, <1>1, <1>3, <1>8 DEF Numbered
    <3> QED BY <3>1, <3>2
  <2>2. ASSUME NEW u \in Known' PROVE u[1] < life' \/ (u[1] = life' /\ u[2] < seqCounter')
    <3>1. CASE u = x
      BY <3>1, <1>2, <1>3
    <3>2. CASE u \in Known
      <4>1. u \in Nat \X Nat
        BY <3>2, KnownType
      <4> QED BY <3>2, <4>1, <1>1, <1>2, <1>3 DEF Numbered
    <3> QED BY <2>2, <3>1, <3>2, <1>8
  <2> QED BY <2>1, <2>2 DEF Numbered
<1>11. DistinctWriters'
  <2> SUFFICES ASSUME NEW u \in Tasks, NEW v \in Tasks, pc'[u] \in Unpushed,
                      pc'[v] \in Unpushed, Uid(ent'[u]) = Uid(ent'[v])
               PROVE  u = v
    BY DEF DistinctWriters, Uid
  <2>1. \A w \in Tasks : pc[w] \in Unpushed => Uid(ent[w]) \in Known
    BY DEF Known, Writing
  <2>2. \A w \in Tasks : w # t /\ pc'[w] \in Unpushed =>
          ent'[w] = ent[w] /\ pc[w] \in Unpushed
    BY <1>3, <1>4
  <2> QED BY <2>1, <2>2, <1>1, <1>3, <1>7 DEF DistinctWriters
<1>12. DistinctMemory' /\ DistinctRows'
  BY <1>1, <1>3 DEF DistinctMemory, DistinctRows, Uid
<1>13. (Apart /\ Numbered /\ DistinctWriters /\ DistinctMemory /\ DistinctRows)'
  BY <1>9, <1>10, <1>11, <1>12
<1> QED BY <1>13, ConserveParts, PTL

\* The entry of a finished write goes to one other place.
LEMMA SettleConserve ==
    ASSUME ConserveInv, TypeOK, NEW t \in Tasks, pc[t] \in Unpushed,
           NEW step \in {"add", "idle"}, Goto(t, step),
           \A u \in Tasks : u # t => ent'[u] = ent[u],
           UNCHANGED <<gone, seqCounter, life>>
    PROVE  LET x == Uid(ent[t]) IN
           /\ x \notin InMemory \union OnDisk \union Gone /\ Gone' = Gone
           /\ Writing' = Writing \ {x} /\ x \in Writing /\ DistinctWriters'
<1> DEFINE x == Uid(ent[t])
<1>1. Apart /\ Numbered /\ DistinctWriters /\ DistinctMemory /\ DistinctRows
  BY ConserveParts
<1>2. pc \in [Tasks -> Steps]
  BY DEF TypeOK
<1>3. \A u \in Tasks : pc'[u] \in Unpushed <=> (pc[u] \in Unpushed /\ u # t)
  BY <1>2 DEF Unpushed, Goto
<1>4. x \in Writing
  BY DEF Writing
<1>5. Writing' = Writing \ {x}
  <2>1. \A u \in Tasks : pc[u] \in Unpushed /\ Uid(ent[u]) = x => u = t
    BY <1>1 DEF DistinctWriters
  <2>2. \A u \in Tasks : u # t => Uid(ent'[u]) = Uid(ent[u])
    BY DEF Uid
  <2> HIDE DEF x
  <2>3. Writing' = {Uid(ent'[u]) : u \in {v \in Tasks : pc'[v] \in Unpushed}}
    BY DEF Writing, Uid
  <2>4. \A y : y \in Writing' => y \in Writing \ {x}
    BY <2>1, <2>2, <2>3, <1>3 DEF Writing
  <2>5. \A y : y \in Writing \ {x} => y \in Writing'
    BY <2>1, <2>2, <2>3, <1>3 DEF Writing, x
  <2> QED BY <2>4, <2>5
<1>6. DistinctWriters'
  BY <1>1, <1>3 DEF DistinctWriters, Uid
<1>7. Gone' = Gone
  BY DEF Gone
<1> QED BY <1>1, <1>4, <1>5, <1>6, <1>7 DEF Apart

\* push_back: from write() to the deque.
LEMMA PushConserve ==
    ASSUME ConserveInv, UsageInv, NEW t \in Tasks, Push(t)
    PROVE  ConserveInv'
<1> DEFINE x == Uid(ent[t])
           e == [ent[t] EXCEPT !.pos = pushed + 1]
<1>1. Apart /\ Numbered /\ DistinctWriters /\ DistinctMemory /\ DistinctRows /\ TypeOK
  BY ConserveParts DEF UsageInv
<1>2. pc[t] \in Unpushed /\ ent[t] \in Entry
  BY DEF Push, At, Unpushed, UsageInv
<1>3. Uid(e) = x
  BY <1>2 DEF Uid, Entry
<1>4. /\ mem' = mem \union {e} /\ Goto(t, "add") /\ UNCHANGED <<rows, gone, seqCounter, life>>
      /\ \A u \in Tasks : u # t => ent'[u] = ent[u]
  BY <1>1 DEF Push, dbVars, TypeOK
<1>5. /\ x \notin InMemory \union OnDisk \union Gone /\ Gone' = Gone
      /\ Writing' = Writing \ {x} /\ x \in Writing /\ DistinctWriters'
  BY <1>1, <1>2, <1>4, SettleConserve
<1> HIDE DEF x, e
<1>6. InMemory' = InMemory \union {x} /\ OnDisk' = OnDisk
  <2>1. InMemory' = {Uid(f) : f \in mem \union {e}}
    BY <1>4 DEF InMemory, Uid
  <2>2. OnDisk' = OnDisk
    BY <1>4 DEF OnDisk, Uid
  <2> QED BY <1>3, <2>1, <2>2 DEF InMemory
<1>7. Known' = Known
  BY <1>5, <1>6 DEF Known
<1>8. Apart'
  BY <1>1, <1>4, <1>5, <1>6 DEF Apart
<1>9. Numbered'
  BY <1>1, <1>4, <1>7 DEF Numbered
<1>10. DistinctMemory'
  <2>1. \A f \in mem : Uid(f) # Uid(e)
    BY <1>3, <1>5 DEF InMemory
  <2>2. \A f, g \in mem \union {e} : Uid(f) = Uid(g) => f = g
    BY <1>1, <2>1 DEF DistinctMemory
  <2> QED BY <1>4, <2>2 DEF DistinctMemory, Uid
<1>11. DistinctRows'
  BY <1>1, <1>4 DEF DistinctRows, Uid
<1>12. (Apart /\ Numbered /\ DistinctWriters /\ DistinctMemory /\ DistinctRows)'
  BY <1>5, <1>8, <1>9, <1>10, <1>11
<1> QED BY <1>12, ConserveParts, PTL

\* spill_to_sqlite: from write() to the table.
LEMMA SpillConserve ==
    ASSUME ConserveInv, UsageInv, NEW t \in Tasks, Spill(t)
    PROVE  ConserveInv'
<1> DEFINE x == Uid(ent[t])
           row == [id |-> nextId, e |-> ent[t], born |-> clock, sent |-> FALSE]
<1>1. Apart /\ Numbered /\ DistinctWriters /\ DistinctMemory /\ DistinctRows /\ TypeOK
  BY ConserveParts DEF UsageInv
<1>2. pc[t] \in Unpushed /\ ent[t] \in Entry
  BY DEF Spill, At, Unpushed, UsageInv
<1>3. Uid(row.e) = x
  OBVIOUS
<1>4. /\ rows' = rows \union {row} /\ Goto(t, "idle") /\ UNCHANGED <<mem, gone, seqCounter, life>>
      /\ \A u \in Tasks : u # t => ent'[u] = ent[u]
  BY <1>1 DEF Spill, memVars, TypeOK
<1>5. /\ x \notin InMemory \union OnDisk \union Gone /\ Gone' = Gone
      /\ Writing' = Writing \ {x} /\ x \in Writing /\ DistinctWriters'
  BY <1>1, <1>2, <1>4, SettleConserve
<1> HIDE DEF x, row
<1>6. OnDisk' = OnDisk \union {x} /\ InMemory' = InMemory
  <2>1. OnDisk' = {Uid(r.e) : r \in rows \union {row}}
    BY <1>4 DEF OnDisk, Uid
  <2>2. InMemory' = InMemory
    BY <1>4 DEF InMemory, Uid
  <2> QED BY <1>3, <2>1, <2>2 DEF OnDisk
<1>7. Known' = Known
  BY <1>5, <1>6 DEF Known
<1>8. Apart'
  BY <1>1, <1>4, <1>5, <1>6 DEF Apart
<1>9. Numbered'
  BY <1>1, <1>4, <1>7 DEF Numbered
<1>10. DistinctRows'
  <2>1. \A r \in rows : Uid(r.e) # Uid(row.e)
    BY <1>3, <1>5 DEF OnDisk
  <2>2. \A r, s \in rows \union {row} : Uid(r.e) = Uid(s.e) => r = s
    BY <1>1, <2>1 DEF DistinctRows
  <2> QED BY <1>4, <2>2 DEF DistinctRows, Uid
<1>11. DistinctMemory'
  BY <1>1, <1>4 DEF DistinctMemory, Uid
<1>12. (Apart /\ Numbered /\ DistinctWriters /\ DistinctMemory /\ DistinctRows)'
  BY <1>5, <1>8, <1>9, <1>10, <1>11
<1> QED BY <1>12, ConserveParts, PTL

\* mark_sent changes a flag of a row and nothing else.
LEMMA SentConserve ==
    ASSUME ConserveInv, UsageInv, NEW t \in Tasks, NEW id \in hand[t], MarkSent(t, id)
    PROVE  ConserveInv'
<1> DEFINE Sent(r) == IF r.id = id THEN [r EXCEPT !.sent = TRUE] ELSE r
<1>1. Apart /\ Numbered /\ DistinctWriters /\ DistinctMemory /\ DistinctRows /\ rows \subseteq Row
  BY ConserveParts DEF UsageInv, TypeOK
<1>2. rows' = {Sent(r) : r \in rows} /\ UNCHANGED <<mem, gone, seqCounter, life, pc, ent>>
  BY DEF MarkSent, memVars
<1>3. \A r \in rows : Sent(r).e = r.e
  BY <1>1 DEF Row
<1> HIDE DEF Sent
<1>4. OnDisk' = OnDisk
  <2>1. OnDisk' = {Uid(r.e) : r \in {Sent(s) : s \in rows}}
    BY <1>2 DEF OnDisk, Uid
  <2> QED BY <1>3, <2>1 DEF OnDisk
<1>5. Writing' = Writing /\ InMemory' = InMemory /\ Gone' = Gone
  BY <1>2 DEF Writing, InMemory, Gone, Uid
<1>6. DistinctRows'
  <2>1. \A r, s \in rows : Uid(Sent(r).e) = Uid(Sent(s).e) => Sent(r) = Sent(s)
    BY <1>1, <1>3 DEF DistinctRows
  <2>2. \A r, s \in rows' : Uid(r.e) = Uid(s.e) => r = s
    BY <1>2, <2>1
  <2> QED BY <2>2 DEF DistinctRows, Uid
<1>7. DistinctWriters' /\ DistinctMemory'
  BY <1>1, <1>2 DEF DistinctWriters, DistinctMemory, Uid
<1>8. Apart' /\ Numbered'
  BY <1>1, <1>2, <1>4, <1>5 DEF Apart, Numbered, Known
<1>9. (Apart /\ Numbered /\ DistinctWriters /\ DistinctMemory /\ DistinctRows)'
  BY <1>6, <1>7, <1>8
<1> QED BY <1>9, ConserveParts, PTL

\* A crash takes what is in memory and what is being written; the table and
\* the numbers of the earlier lives stay.
LEMMA RestartConserve ==
    ASSUME ConserveInv, UsageInv, Restart
    PROVE  ConserveInv'
<1> DEFINE lost == mem \union {ent[t] : t \in {u \in Tasks : pc[u] \in Unpushed}}
<1>1. Apart /\ Numbered /\ DistinctWriters /\ DistinctMemory /\ DistinctRows
  BY ConserveParts
<1>2. /\ mem' = {} /\ seqCounter' = 1 /\ life' = life + 1 /\ rows' = rows
      /\ pc' = [t \in Tasks |-> "idle"] /\ gone' = gone \union Mark(lost, "crashed")
  BY DEF Restart, Fresh
<1>3. Uids(lost) = InMemory \union Writing
  BY DEF Uids, InMemory, Writing
<1> HIDE DEF lost
<1>4. InMemory' = {} /\ Writing' = {}
  BY <1>2 DEF InMemory, Writing, Unpushed
<1>5. OnDisk' = OnDisk
  BY <1>2 DEF OnDisk, Uid
<1>6. Apart' /\ Known' = Known
  <2>1. Writing' = Writing \ Uids(lost) /\ InMemory' = InMemory \ Uids(lost)
        /\ OnDisk' = OnDisk \ Uids(lost)
    BY <1>1, <1>3, <1>4, <1>5 DEF Apart
  <2> QED BY <1>1, <1>2, <1>3, <2>1, LeaveApart
<1>7. Numbered'
  <2>1. ASSUME NEW u \in Known PROVE u[1] < life'
    BY <2>1, <1>1, <1>2, KnownType DEF Numbered, UsageInv, TypeOK
  <2>2. 1 .. seqCounter' - 1 = {}
    BY <1>2
  <2> QED BY <2>1, <2>2, <1>6 DEF Numbered
<1>8. DistinctWriters' /\ DistinctMemory' /\ DistinctRows'
  BY <1>1, <1>2 DEF DistinctWriters, DistinctMemory, DistinctRows, Unpushed, Uid
<1>9. (Apart /\ Numbered /\ DistinctWriters /\ DistinctMemory /\ DistinctRows)'
  BY <1>6, <1>7, <1>8
<1> QED BY <1>9, ConserveParts, PTL

\* Every step keeps every entry in one place.
LEMMA ConserveStep == UsageInv /\ ConserveInv /\ [Next]_vars => ConserveInv'
<1> SUFFICES ASSUME UsageInv, ConserveInv, [Next]_vars PROVE ConserveInv'
  OBVIOUS
<1> USE DEF memVars, dbVars
<1> DEFINE SameWrites ==
             \A u \in Tasks : /\ pc'[u] \in Unpushed <=> pc[u] \in Unpushed
                              /\ pc[u] \in Unpushed => Uid(ent'[u]) = Uid(ent[u])
<1>0. pc \in [Tasks -> Steps] /\ ent \in [Tasks -> Entry \union {NoEntry}]
  BY DEF UsageInv, TypeOK
<1>1. ASSUME NEW t \in Tasks, NEW s \in Sizes, NEW ty \in Types, WriteBegin(t, s, ty)
      PROVE  ConserveInv'
  BY <1>1, BeginConserve
<1>2. ASSUME NEW t \in Tasks, NEW from \in Steps, NEW to \in Steps,
             At(t, from), Goto(t, to), from \in Unpushed <=> to \in Unpushed,
             ent' = ent
      PROVE  SameWrites
  BY <1>0, <1>2 DEF At, Goto, Uid
<1>3. ASSUME NEW t \in Tasks, WriteStep(t) PROVE ConserveInv'
  <2>1. CASE EvictExpired(t)
    <3>1. SameWrites
      BY <2>1, <1>2 DEF EvictExpired, Steps, Unpushed
    <3>2. ExpiredFront \in SUBSET mem
      BY DEF ExpiredFront
    <3> QED BY <2>1, <3>1, <3>2, RemovalConserve DEF EvictExpired, Remove
  <2>2. CASE EvictExpiredSqlite(t)
    <3>1. SameWrites
      BY <2>2, <1>2 DEF EvictExpiredSqlite, Steps, Unpushed
    <3>2. PICK old \in SUBSET rows :
            rows' = rows \ old /\ gone' = gone \union Mark({r.e : r \in old}, "expired")
      BY <2>2 DEF EvictExpiredSqlite
    <3> QED BY <2>2, <3>1, <3>2, RowsConserve DEF EvictExpiredSqlite
  <2>3. CASE HasRoom(t)
    <3>1. SameWrites
      BY <2>3, <1>2 DEF HasRoom, Steps, Unpushed, At
    <3> QED BY <2>3, <3>1, QuietConserve DEF HasRoom
  <2>4. CASE Spill(t)
    BY <2>4, SpillConserve
  <2>5. CASE MustEvict(t)
    <3>1. SameWrites
      BY <2>5, <1>2 DEF MustEvict, Steps, Unpushed, At
    <3> QED BY <2>5, <3>1, QuietConserve DEF MustEvict
  <2>6. CASE EvictOldest(t)
    <3>1. SameWrites
      BY <2>6, <1>2 DEF EvictOldest, Steps, Unpushed
    <3>2. Front(mem, 1) \in SUBSET mem
      BY DEF Front
    <3> QED BY <2>6, <3>1, <3>2, RemovalConserve DEF EvictOldest, Remove
  <2>7. CASE Push(t)
    BY <2>7, PushConserve
  <2>8. CASE CountAdded(t)
    <3>1. SameWrites
      BY <1>0, <2>8 DEF CountAdded, At, Goto, Unpushed, Uid
    <3> QED BY <2>8, <3>1, QuietConserve DEF CountAdded
  <2> QED BY <1>3, <2>1, <2>2, <2>3, <2>4, <2>5, <2>6, <2>7, <2>8 DEF WriteStep
<1>4. ASSUME NEW t \in Tasks, ReadStep(t) PROVE ConserveInv'
  <2>1. ASSUME NEW n \in Nat, Read(t, n) PROVE ConserveInv'
    <3>1. SameWrites
      BY <2>1 DEF Read, Uid
    <3>2. Front(mem, n) \in SUBSET mem
      BY DEF Front
    <3> QED BY <2>1, <3>1, <3>2, RemovalConserve DEF Read, Remove
  <2>2. ASSUME NEW ty \in Types, DrainByType(t, ty) PROVE ConserveInv'
    <3>1. SameWrites
      BY <2>2 DEF DrainByType, Uid
    <3> QED BY <2>2, <3>1, RemovalConserve DEF DrainByType, Remove
  <2>3. CASE DrainMemory(t)
    <3>1. SameWrites
      BY <2>3, <1>2 DEF DrainMemory, Free, Steps, Unpushed
    <3> QED BY <2>3, <3>1, RemovalConserve DEF DrainMemory, Remove
  <2>4. CASE DrainSqlite(t)
    <3>1. SameWrites
      BY <2>4, <1>2 DEF DrainSqlite, Steps, Unpushed
    <3> QED BY <2>4, <3>1, QuietConserve DEF DrainSqlite
  <2>5. ASSUME NEW id \in hand[t], MarkSent(t, id) PROVE ConserveInv'
    BY <2>5, SentConserve
  <2>6. CASE MarkRetry(t)
    <3>1. SameWrites
      BY <2>6 DEF MarkRetry, Uid
    <3> QED BY <2>6, <3>1, QuietConserve DEF MarkRetry
  <2> QED BY <1>4, <2>1, <2>2, <2>3, <2>4, <2>5, <2>6 DEF ReadStep
<1>5. ASSUME NEW t \in Tasks, DeleteStep(t) PROVE ConserveInv'
  <2>1. CASE DeleteMemory(t)
    <3>1. SameWrites
      BY <2>1, <1>2 DEF DeleteMemory, Free, Steps, Unpushed
    <3>2. \/ mem' = mem \ mem /\ gone' = gone \union Mark(mem, "deleted")
          \/ UNCHANGED <<mem, gone>>
      BY <2>1 DEF DeleteMemory
    <3> QED BY <2>1, <3>1, <3>2, RemovalConserve, QuietConserve DEF DeleteMemory
  <2>2. CASE DeleteZero(t)
    <3>1. SameWrites
      BY <2>2, <1>2 DEF DeleteZero, Steps, Unpushed
    <3> QED BY <2>2, <3>1, QuietConserve DEF DeleteZero
  <2>3. CASE DeleteSqlite(t)
    <3>1. SameWrites
      BY <2>3, <1>2 DEF DeleteSqlite, Steps, Unpushed
    <3>2. \/ rows' = rows \ rows /\ gone' = gone \union Mark({r.e : r \in rows}, "deleted")
          \/ UNCHANGED <<rows, gone>>
      BY <2>3 DEF DeleteSqlite
    <3> QED BY <2>3, <3>1, <3>2, RowsConserve, QuietConserve DEF DeleteSqlite
  <2> QED BY <1>5, <2>1, <2>2, <2>3 DEF DeleteStep
<1>6. CASE Tick
  <2>1. SameWrites
    BY <1>6 DEF Tick, Uid
  <2> QED BY <1>6, <2>1, QuietConserve DEF Tick
<1>7. CASE Restart
  BY <1>7, RestartConserve
<1>8. CASE UNCHANGED vars
  <2>1. SameWrites
    BY <1>8 DEF vars, Uid
  <2> QED BY <1>8, <2>1, QuietConserve DEF vars
<1> QED BY <1>1, <1>3, <1>4, <1>5, <1>6, <1>7, <1>8 DEF Next

\* The inductive invariant of Conservation holds in every reachable state.
THEOREM ConserveInvariant == Spec => []ConserveInv
<1>1. Init => ConserveInv
  <2> SUFFICES ASSUME Init PROVE ConserveInv
    OBVIOUS
  <2>1. /\ mem = {} /\ rows = {} /\ gone = {} /\ seqCounter = 1
        /\ \A t \in Tasks : pc[t] \notin Unpushed
    BY DEF Init, Fresh, Unpushed
  <2>2. Writing = {} /\ InMemory = {} /\ OnDisk = {} /\ Gone = {}
    BY <2>1 DEF Writing, InMemory, OnDisk, Gone
  <2> QED BY <2>1, <2>2 DEF ConserveInv, Conservation
<1> QED BY <1>1, ConserveStep, UsageInvariant, PTL DEF Spec

\* The entries of every life of the process are each in exactly one place, or
\* have left the buffer for exactly one reason: whatever the tasks, the spill
\* and the expiry do, with DeleteBacklog commands and across crashes.
THEOREM EntriesConserved == Spec => []Conservation
<1>1. ConserveInv => Conservation
  BY DEF ConserveInv
<1> QED BY <1>1, ConserveInvariant, PTL

(***************************************************************************)
(* The overshoot over the memory limit.                                    *)
(***************************************************************************)

\* What RoomyCounter gives.
LEMMA LargestType ==
    ASSUME RoomyCounter
    PROVE  /\ Largest \in Nat /\ \A r \in Sizes : r <= Largest
           /\ IsFiniteSet(Tasks) /\ Cardinality(Tasks) \in Nat
           /\ MaxMemory + Cardinality(Tasks) * Largest < U64
<1>1. Largest \in Sizes /\ \A r \in Sizes : r <= Largest
  BY DEF RoomyCounter, Largest
<1> QED BY <1>1, SizesAssumption, FS_CardinalityType DEF RoomyCounter

\* Entries of at most `most` bytes each.
LEMMA BytesBound ==
    ASSUME NEW S, IsFiniteSet(S), NEW most \in Nat,
           \A e \in S : e.size \in Nat /\ e.size <= most
    PROVE  /\ IsFiniteSet(BytesOf(S)) /\ Bytes(S) \in Nat /\ Cardinality(S) \in Nat
           /\ Bytes(S) <= Cardinality(S) * most
<1>1. IsFiniteSet(1 .. most) /\ Cardinality(1 .. most) = most
  BY IntervalSize, Zenon
<1>2. /\ IsFiniteSet(S \X (1 .. most))
      /\ Cardinality(S \X (1 .. most)) = Cardinality(S) * most
  BY <1>1, FS_Product
<1>3. BytesOf(S) \subseteq S \X (1 .. most)
  BY DEF BytesOf
<1>4. /\ IsFiniteSet(BytesOf(S))
      /\ Cardinality(BytesOf(S)) <= Cardinality(S \X (1 .. most))
  BY <1>2, <1>3, FS_Subset
<1>5. Cardinality(BytesOf(S)) \in Nat /\ Cardinality(S) \in Nat
  BY <1>4, FS_CardinalityType
<1> QED BY <1>2, <1>4, <1>5 DEF Bytes

\* One entry.
LEMMA BytesOne ==
    ASSUME NEW e, e.size \in Nat
    PROVE  Bytes({e}) = e.size
<1>1. BytesOf({}) = {}
  BY DEF BytesOf
<1>2. IsFiniteSet(BytesOf({})) /\ Bytes({}) = 0
  BY <1>1, FS_EmptySet DEF Bytes
<1>3. Bytes({} \union {e}) = 0 + e.size
  BY <1>2, BytesAdd
<1>4. {} \union {e} = {e}
  OBVIOUS
<1> QED BY <1>3, <1>4

\* The entries of a set of tasks: at most one each.
LEMMA TasksBound ==
    ASSUME RoomyCounter, NEW P \in SUBSET Tasks, \A t \in P : ent[t] \in Entry
    PROVE  LET S == {ent[t] : t \in P} IN
           /\ IsFiniteSet(S) /\ IsFiniteSet(BytesOf(S)) /\ Bytes(S) \in Nat
           /\ Cardinality(P) \in Nat
           /\ Bytes(S) <= Cardinality(P) * Largest
<1> DEFINE S == {ent[t] : t \in P}
           f == [t \in P |-> ent[t]]
<1>1. IsFiniteSet(P) /\ Cardinality(P) \in Nat
  BY LargestType, FS_Subset, FS_CardinalityType
<1>2. f \in Surjection(P, S)
  BY DEF Surjection
<1>3. IsFiniteSet(S) /\ Cardinality(S) <= Cardinality(P)
  BY <1>1, <1>2, FS_Surjection
<1>4. \A e \in S : e.size \in Nat /\ e.size <= Largest
  BY LargestType, EntrySize DEF Entry
<1> HIDE DEF S, f
<1>5. /\ IsFiniteSet(BytesOf(S)) /\ Bytes(S) \in Nat /\ Cardinality(S) \in Nat
      /\ Bytes(S) <= Cardinality(S) * Largest
  BY <1>3, <1>4, BytesBound, LargestType
<1>6. Cardinality(S) * Largest <= Cardinality(P) * Largest
  BY <1>1, <1>3, <1>5, LargestType
<1>7. Bytes(S) <= Cardinality(P) * Largest
  <2>1. Cardinality(S) * Largest \in Nat /\ Cardinality(P) * Largest \in Nat
    BY <1>1, <1>5, LargestType
  <2> QED BY <1>5, <1>6, <2>1
<1>8. /\ IsFiniteSet(S) /\ IsFiniteSet(BytesOf(S)) /\ Bytes(S) \in Nat
      /\ Cardinality(P) \in Nat
      /\ Bytes(S) <= Cardinality(P) * Largest
  BY <1>1, <1>3, <1>5, <1>7
<1> QED BY <1>8 DEF S

\* What the capacity test says, although the counter it reads is behind the
\* deque: the entry fits if the uncounted ones are left out.
LEMMA RoomMeans ==
    ASSUME NEW u \in 0 .. U64 - 1, NEW m \in Nat, NEW a \in Nat, NEW n \in Nat,
           (u - m + a) % U64 = 0, ~(WrapAdd(u, n) > MaxMemory), m + n < U64
    PROVE  m + n <= MaxMemory + a
<1>1. PICK k \in Int : u - m + a = k * U64
  <2>1. u - m + a \in Int
    BY MemoryAssumption
  <2> QED BY <2>1, Multiple
<1> DEFINE r == (u + n) % U64
           d == (u + n) \div U64
<1>2. r \in 0 .. U64 - 1 /\ d \in Int /\ u + n = U64 * d + r
  <2>1. u + n \in Int
    BY MemoryAssumption
  <2> QED BY <2>1, Division
<1>3. r <= MaxMemory
  BY <1>2, MemoryAssumption DEF WrapAdd
<1> HIDE DEF r, d
<1>4. m + n - a = r + (d - k) * U64
  <2>1. U64 * d = d * U64 /\ (d - k) * U64 = d * U64 - k * U64
    BY <1>1, <1>2, MemoryAssumption
  <2>2. d * U64 \in Int /\ k * U64 \in Int
    BY <1>1, <1>2, MemoryAssumption
  <2> QED BY <1>1, <1>2, <2>1, <2>2, MemoryAssumption
<1>5. CASE d - k >= 1
  <2>1. (d - k) * U64 >= U64 /\ (d - k) * U64 \in Int
    BY <1>5, <1>1, <1>2, MemoryAssumption
  <2> QED BY <2>1, <1>2, <1>4, MemoryAssumption
<1>6. CASE d - k <= 0
  <2>1. (d - k) * U64 <= 0 /\ (d - k) * U64 \in Int
    BY <1>6, <1>1, <1>2, MemoryAssumption
  <2> QED BY <2>1, <1>2, <1>3, <1>4, MemoryAssumption
<1> QED BY <1>5, <1>6, <1>1, <1>2

\* The bound, with the admitted entries counted in.
Within == Bytes(mem) + Bytes(Admitted) <= MaxMemory + (Cardinality(Tasks) - 1) * Largest

\* Entries have a rank once they are pushed.
Ranked ==
    /\ \A t \in Tasks : pc[t] \in Unpushed => ent[t].pos = 0
    /\ \A t \in Tasks : pc[t] = "add" => ent[t].pos > 0
    /\ \A e \in mem : e.pos > 0

\* The invariant, part by part.
LEMMA OvershootParts == OvershootInv <=> Ranked /\ (Largest <= MaxMemory => Within)
BY DEF OvershootInv, Ranked, Within

\* The lengths of the three sets are numbers, and the entries of the admitted
\* tasks, of the counting ones, and of both are bounded by their number.
LEMMA AdmittedType ==
    ASSUME RoomyCounter, UsageInv
    PROVE  /\ IsFiniteSet(BytesOf(Admitted)) /\ Bytes(Admitted) \in Nat
           /\ Bytes(mem) \in Nat /\ Bytes(Adding) \in Nat
           /\ \A t \in Tasks : pc[t] \in {"push", "add"} => ent[t] \in Entry
<1>1. \A t \in Tasks : pc[t] \in {"push", "add"} => ent[t] \in Entry
  BY DEF UsageInv, Unpushed
<1>2. IsFiniteSet(BytesOf(Admitted)) /\ Bytes(Admitted) \in Nat
  BY <1>1, TasksBound DEF Admitted
<1>3. Bytes(mem) \in Nat /\ Bytes(Adding) \in Nat
  BY FS_CardinalityType DEF UsageInv, Bytes
<1> QED BY <1>1, <1>2, <1>3

\* The others that are admitted or have pushed bring one entry each.
LEMMA OthersBound ==
    ASSUME RoomyCounter, UsageInv, Ranked, NEW t \in Tasks, pc[t] \notin {"push", "add"}
    PROVE  Bytes(Admitted) + Bytes(Adding) <= (Cardinality(Tasks) - 1) * Largest
<1> DEFINE P == {u \in Tasks : pc[u] \in {"push", "add"}}
           S == {ent[u] : u \in P}
<1>1. \A u \in P : ent[u] \in Entry
  BY AdmittedType
<1>2. S = Admitted \union Adding
  BY DEF Admitted, Adding
<1>3. Admitted \intersect Adding = {}
  BY <1>1, EntrySize DEF Admitted, Adding, Ranked, Unpushed
<1>4. /\ IsFiniteSet(BytesOf(S)) /\ Bytes(S) \in Nat /\ Cardinality(P) \in Nat
      /\ Bytes(S) <= Cardinality(P) * Largest
  BY <1>1, TasksBound
<1>5. Cardinality(P) <= Cardinality(Tasks) - 1
  <2>1. P \subseteq Tasks \ {t}
    OBVIOUS
  <2>2. IsFiniteSet(Tasks \ {t}) /\ Cardinality(Tasks \ {t}) = Cardinality(Tasks) - 1
    BY FS_RemoveElement, LargestType
  <2> HIDE DEF P
  <2> QED BY <2>1, <2>2, FS_Subset
<1>6. Bytes(S) = Bytes(Admitted) + Bytes(Adding)
  <2>1. S \ Adding = Admitted /\ Adding \subseteq S
    BY <1>2, <1>3
  <2> HIDE DEF S
  <2>2. Bytes(S \ Adding) = Bytes(S) - Bytes(Adding)
    BY <1>4, <2>1, BytesRemove
  <2>3. Bytes(Admitted) = Bytes(S) - Bytes(Adding)
    BY <2>1, <2>2
  <2> QED BY <2>3, <1>4, AdmittedType
<1> HIDE DEF P, S
<1>7. Cardinality(P) * Largest <= (Cardinality(Tasks) - 1) * Largest
  BY <1>4, <1>5, LargestType
<1>8. Cardinality(P) * Largest \in Int /\ (Cardinality(Tasks) - 1) * Largest \in Int
  BY <1>4, LargestType
<1> QED BY <1>4, <1>6, <1>7, <1>8, AdmittedType

\* One more task is admitted.
LEMMA AdmitOne ==
    ASSUME RoomyCounter, UsageInv, NEW t \in Tasks, pc[t] \in Unpushed \ {"push"},
           Goto(t, "push"), ent' = ent
    PROVE  /\ Bytes(Admitted)' \in Nat /\ ent[t].size \in Nat
           /\ Bytes(Admitted)' <= Bytes(Admitted) + ent[t].size
<1>1. pc \in [Tasks -> Steps] /\ ent[t] \in Entry
  BY DEF UsageInv, TypeOK
<1>2. Admitted' = Admitted \union {ent[t]}
  BY <1>1 DEF Admitted, Goto
<1>3. ent[t].size \in Nat
  BY <1>1, EntrySize
<1>4. CASE ent[t] \in Admitted
  <2>1. Admitted' = Admitted
    BY <1>2, <1>4
  <2>2. Bytes(Admitted)' = Bytes(Admitted)
    BY <2>1 DEF Bytes, BytesOf
  <2> QED BY <2>2, <1>3, AdmittedType
<1>5. CASE ent[t] \notin Admitted
  <2>1. Bytes(Admitted)' = Bytes(Admitted \union {ent[t]})
    BY <1>2 DEF Bytes, BytesOf
  <2>2. Bytes(Admitted \union {ent[t]}) = Bytes(Admitted) + ent[t].size
    BY <1>3, <1>5, AdmittedType, BytesAdd
  <2> QED BY <2>1, <2>2, <1>3, AdmittedType
<1> QED BY <1>4, <1>5

\* The capacity test lets a task pass.
LEMMA RoomWithin ==
    ASSUME RoomyCounter, ~DeleteBacklog, UsageInv, Ranked, Within, Largest <= MaxMemory,
           NEW t \in Tasks, HasRoom(t)
    PROVE  Within'
<1> DEFINE n == ent[t].size
           c == Cardinality(Tasks)
           L == Largest
<1>1. pc[t] \in Unpushed \ {"push"} /\ pc[t] \notin {"push", "add"} /\ Goto(t, "push") /\ ent' = ent
      /\ mem' = mem
  BY DEF HasRoom, Unpushed, memVars
<1>2. /\ Bytes(Admitted)' \in Nat /\ n \in Nat /\ Bytes(Admitted)' <= Bytes(Admitted) + n
  BY <1>1, AdmitOne
<1>3. Bytes(Admitted) + Bytes(Adding) <= (c - 1) * L
  BY <1>1, OthersBound
<1>4. n <= L /\ L \in Nat /\ c \in Nat /\ MaxMemory + c * L < U64
  <2>1. ent[t] \in Entry
    BY <1>1 DEF UsageInv
  <2> QED BY <2>1, LargestType DEF Entry
<1>5. c * L = (c - 1) * L + L /\ c * L \in Int /\ (c - 1) * L \in Int
  BY <1>4
<1>6. Bytes(mem) \in Nat /\ Bytes(Adding) \in Nat /\ Bytes(Admitted) \in Nat
  BY AdmittedType
<1>7. Bytes(mem) + n <= MaxMemory + Bytes(Adding)
  <2>1. Bytes(mem) + n < U64
    BY <1>2, <1>4, <1>5, <1>6, MemoryAssumption DEF Within
  <2>2. ~(WrapAdd(memoryUsage, n) > MaxMemory)
    BY DEF HasRoom, MemoryFull
  <2>3. memoryUsage \in 0 .. U64 - 1 /\ (memoryUsage - Bytes(mem) + Bytes(Adding)) % U64 = 0
    BY DEF UsageInv, TypeOK, Congruent
  <2> HIDE DEF n
  <2> QED BY <2>1, <2>2, <2>3, <1>2, <1>6, RoomMeans
<1>8. Bytes(mem)' = Bytes(mem)
  BY <1>1 DEF Bytes, BytesOf
<1> HIDE DEF n, c, L
<1>9. Bytes(mem)' + Bytes(Admitted)' <= MaxMemory + (c - 1) * L
  BY <1>2, <1>3, <1>5, <1>6, <1>7, <1>8, MemoryAssumption
<1> QED BY <1>9 DEF Within, c, L

\* An empty deque: every task may have been admitted.
LEMMA EmptyWithin ==
    ASSUME RoomyCounter, Largest <= MaxMemory, mem' = {}, UsageInv'
    PROVE  Within'
<1>1. \A t \in Tasks : pc'[t] = "push" => ent'[t] \in Entry
  BY DEF UsageInv, Unpushed
<1>2. Bytes(mem)' = 0
  <2>1. BytesOf(mem)' = {}
    BY DEF BytesOf
  <2> QED BY <2>1, FS_EmptySet DEF Bytes
<1>3. Bytes(Admitted)' \in Nat /\ Bytes(Admitted)' <= Cardinality(Tasks) * Largest
  <2> DEFINE P == {u \in Tasks : pc'[u] = "push"}
             S == {ent'[u] : u \in P}
             f == [u \in P |-> ent'[u]]
  <2>1. IsFiniteSet(P) /\ Cardinality(P) \in Nat /\ Cardinality(P) <= Cardinality(Tasks)
    BY LargestType, FS_Subset, FS_CardinalityType
  <2>2. f \in Surjection(P, S)
    BY DEF Surjection
  <2>3. IsFiniteSet(S) /\ Cardinality(S) <= Cardinality(P)
    BY <2>1, <2>2, FS_Surjection
  <2>4. \A e \in S : e.size \in Nat /\ e.size <= Largest
    BY <1>1, LargestType, EntrySize DEF Entry
  <2>5. Admitted' = S
    BY DEF Admitted
  <2> HIDE DEF S, f, P
  <2>6. /\ Bytes(S) \in Nat /\ Cardinality(S) \in Nat
        /\ Bytes(S) <= Cardinality(S) * Largest
    BY <2>3, <2>4, BytesBound, LargestType
  <2>7. Cardinality(S) * Largest <= Cardinality(Tasks) * Largest
    BY <2>1, <2>3, <2>6, LargestType
  <2>8. Cardinality(S) * Largest \in Nat /\ Cardinality(Tasks) * Largest \in Nat
    BY <2>6, LargestType
  <2>9. Bytes(Admitted)' = Bytes(S)
    BY <2>5 DEF Bytes, BytesOf
  <2> QED BY <2>6, <2>7, <2>8, <2>9
<1> DEFINE c == Cardinality(Tasks)
           L == Largest
<1>4. c \in Nat /\ L \in Nat /\ L <= MaxMemory /\ MaxMemory \in Nat
  BY LargestType, MemoryAssumption
<1> HIDE DEF c, L
<1>5. c * L = (c - 1) * L + L /\ c * L \in Int /\ (c - 1) * L \in Int
  BY <1>4
<1>6. Bytes(mem)' + Bytes(Admitted)' <= MaxMemory + (c - 1) * L
  BY <1>2, <1>3, <1>4, <1>5 DEF c, L
<1> QED BY <1>6 DEF Within, c, L

\* The admitted entry moves into the deque.
LEMMA PushWithin ==
    ASSUME RoomyCounter, UsageInv, ConserveInv, Ranked, Within, NEW t \in Tasks, Push(t)
    PROVE  Within'
<1> DEFINE e == [ent[t] EXCEPT !.pos = pushed + 1]
<1>1. ent[t] \in Entry /\ pc[t] = "push" /\ ent[t] \in Admitted
  BY DEF UsageInv, Push, At, Unpushed, Admitted
<1>2. e \in Entry /\ e.pos = pushed + 1 /\ e.size = ent[t].size /\ pushed \in Nat
  BY <1>1 DEF UsageInv, TypeOK, Entry
<1>3. /\ mem' = mem \union {e} /\ ent' = [ent EXCEPT ![t] = e]
      /\ pc' = [pc EXCEPT ![t] = "add"]
  BY DEF Push, Goto
<1> HIDE DEF e
<1>4. pc \in [Tasks -> Steps] /\ ent \in [Tasks -> Entry \union {NoEntry}] /\ mem \subseteq Entry
  BY DEF UsageInv, TypeOK
<1>5. Admitted' = Admitted \ {ent[t]}
  <2>1. \A u \in Tasks : pc[u] = "push" /\ ent[u] = ent[t] => u = t
    BY <1>1 DEF ConserveInv, Unpushed
  <2>2. \A u \in Tasks : pc'[u] = "push" <=> pc[u] = "push" /\ u # t
    BY <1>3, <1>4
  <2>3. \A u \in Tasks : u # t => ent'[u] = ent[u]
    BY <1>3, <1>4
  <2> QED BY <2>1, <2>2, <2>3 DEF Admitted
<1>6. e \notin mem
  BY <1>2, <1>4, EntrySize DEF UsageInv
<1>7. e.size \in Nat
  BY <1>2, EntrySize
<1>8. Bytes(mem)' = Bytes(mem) + e.size
  <2>1. Bytes(mem \union {e}) = Bytes(mem) + e.size
    BY <1>6, <1>7, BytesAdd DEF UsageInv
  <2> QED BY <2>1, <1>3 DEF Bytes, BytesOf
<1>9. Bytes(Admitted)' = Bytes(Admitted) - e.size
  <2>1. Bytes(Admitted \ {ent[t]}) = Bytes(Admitted) - Bytes({ent[t]})
    BY <1>1, AdmittedType, BytesRemove
  <2>2. Bytes({ent[t]}) = ent[t].size
    BY <1>2, <1>7, BytesOne
  <2> QED BY <2>1, <2>2, <1>2, <1>5 DEF Bytes, BytesOf
<1>10. Bytes(mem)' + Bytes(Admitted)' = Bytes(mem) + Bytes(Admitted)
  BY <1>7, <1>8, <1>9, AdmittedType
<1> QED BY <1>10 DEF Within

\* Entries leave the deque, or nothing moves.
LEMMA ShrinkWithin ==
    ASSUME RoomyCounter, UsageInv, Within, mem' \subseteq mem,
           \A u \in Tasks : pc'[u] = "push" => pc[u] = "push" /\ ent'[u] = ent[u]
    PROVE  Within'
<1>1. Admitted' \subseteq Admitted
  BY DEF Admitted
<1>2. ASSUME NEW S, NEW T \in SUBSET S, IsFiniteSet(BytesOf(S))
      PROVE  Bytes(T) \in Nat /\ Bytes(T) <= Bytes(S)
  <2>1. BytesOf(T) \subseteq BytesOf(S)
    BY DEF BytesOf
  <2> QED BY <1>2, <2>1, FS_Subset, FS_CardinalityType DEF Bytes
<1>3. Bytes(mem') \in Nat /\ Bytes(mem') <= Bytes(mem)
  BY <1>2 DEF UsageInv
<1>4. Bytes(Admitted') \in Nat /\ Bytes(Admitted') <= Bytes(Admitted)
  BY <1>1, <1>2, AdmittedType
<1>5. Bytes(mem)' = Bytes(mem') /\ Bytes(Admitted)' = Bytes(Admitted')
  BY DEF Bytes, BytesOf
<1>6. (Cardinality(Tasks) - 1) * Largest \in Int
  BY LargestType
<1> HIDE DEF Bytes
<1> QED BY <1>3, <1>4, <1>5, <1>6, AdmittedType, MemoryAssumption DEF Within

\* Ranks are given by push_back only.
LEMMA RankedStep == UsageInv /\ Ranked /\ [Next]_vars => Ranked'
<1> SUFFICES ASSUME UsageInv, Ranked, [Next]_vars PROVE Ranked'
  OBVIOUS
<1> USE DEF memVars
<1>0. pc \in [Tasks -> Steps] /\ ent \in [Tasks -> Entry \union {NoEntry}] /\ pushed \in Nat
  BY DEF UsageInv, TypeOK
<1>1. ASSUME mem' \subseteq mem,
             \A u \in Tasks : /\ pc'[u] \in Unpushed => pc[u] \in Unpushed /\ ent'[u] = ent[u]
                              /\ pc'[u] = "add" => pc[u] = "add" /\ ent'[u] = ent[u]
      PROVE  Ranked'
  BY <1>1 DEF Ranked
<1>2. ASSUME NEW t \in Tasks, NEW s \in Sizes, NEW ty \in Types, WriteBegin(t, s, ty)
      PROVE  Ranked'
  BY <1>0, <1>2 DEF Ranked, WriteBegin, Goto
<1>3. ASSUME NEW t \in Tasks, Push(t) PROVE Ranked'
  <2>1. ent[t] \in Entry
    BY <1>3 DEF UsageInv, Push, At, Unpushed
  <2> DEFINE e == [ent[t] EXCEPT !.pos = pushed + 1]
  <2>2. e.pos = pushed + 1
    BY <2>1 DEF Entry
  <2>3. /\ mem' = mem \union {e} /\ ent' = [ent EXCEPT ![t] = e]
        /\ pc' = [pc EXCEPT ![t] = "add"]
    BY <1>3 DEF Push, Goto
  <2> HIDE DEF e
  <2> QED BY <1>0, <2>2, <2>3 DEF Ranked, Unpushed
<1>4. ASSUME NEW t \in Tasks, WriteStep(t), ~Push(t) PROVE Ranked'
  BY <1>0, <1>1, <1>4 DEF WriteStep, EvictExpired, EvictExpiredSqlite, HasRoom, Spill,
       MustEvict, EvictOldest, CountAdded, Remove, At, Goto, Unpushed
<1>5. ASSUME NEW t \in Tasks, ReadStep(t) PROVE Ranked'
  BY <1>0, <1>1, <1>5 DEF ReadStep, Read, DrainByType, DrainMemory, DrainSqlite, MarkSent,
       MarkRetry, Remove, Free, At, Goto, Unpushed
<1>6. ASSUME NEW t \in Tasks, DeleteStep(t) PROVE Ranked'
  BY <1>0, <1>1, <1>6 DEF DeleteStep, DeleteMemory, DeleteZero, DeleteSqlite, Free, At, Goto,
       Unpushed
<1>7. CASE Tick
  BY <1>1, <1>7 DEF Tick
<1>8. CASE Restart
  BY <1>8 DEF Restart, Fresh, Ranked, Unpushed
<1>9. CASE UNCHANGED vars
  BY <1>1, <1>9 DEF vars
<1> QED BY <1>2, <1>3, <1>4, <1>5, <1>6, <1>7, <1>8, <1>9 DEF Next

\* Every step keeps the bound.
LEMMA WithinStep ==
    ASSUME RoomyCounter, ~DeleteBacklog, Largest <= MaxMemory,
           UsageInv, UsageInv', ConserveInv, Ranked, Within, [Next]_vars
    PROVE  Within'
<1> USE DEF memVars
<1>0. pc \in [Tasks -> Steps] /\ ent \in [Tasks -> Entry \union {NoEntry}]
  BY DEF UsageInv, TypeOK
<1>1. ASSUME NEW t \in Tasks, NEW s \in Sizes, NEW ty \in Types, WriteBegin(t, s, ty)
      PROVE  Within'
  BY <1>0, <1>1, ShrinkWithin DEF WriteBegin, Goto
<1>2. ASSUME NEW t \in Tasks, HasRoom(t) PROVE Within'
  BY <1>2, RoomWithin
<1>3. ASSUME NEW t \in Tasks, Push(t) PROVE Within'
  BY <1>3, PushWithin
<1>4. ASSUME NEW t \in Tasks, EvictOldest(t) PROVE Within'
  <2>1. CASE mem = {}
    <3>1. mem' = {}
      BY <1>4, <2>1 DEF EvictOldest, Remove
    <3> QED BY <3>1, EmptyWithin
  <2>2. CASE mem # {}
    BY <1>0, <1>4, <2>2, ShrinkWithin DEF EvictOldest, Remove, Goto
  <2> QED BY <2>1, <2>2
<1>5. ASSUME NEW t \in Tasks, WriteStep(t), ~HasRoom(t), ~Push(t), ~EvictOldest(t)
      PROVE  Within'
  BY <1>0, <1>5, ShrinkWithin DEF WriteStep, EvictExpired, EvictExpiredSqlite, Spill,
       MustEvict, CountAdded, Remove, At, Goto
<1>6. ASSUME NEW t \in Tasks, ReadStep(t) PROVE Within'
  BY <1>0, <1>6, ShrinkWithin DEF ReadStep, Read, DrainByType, DrainMemory, DrainSqlite,
       MarkSent, MarkRetry, Remove, Free, At, Goto
<1>7. ASSUME NEW t \in Tasks, DeleteStep(t) PROVE Within'
  BY <1>0, <1>7, ShrinkWithin DEF DeleteStep, DeleteMemory, DeleteZero, DeleteSqlite, Free,
       At, Goto
<1>8. CASE Tick
  BY <1>8, ShrinkWithin DEF Tick
<1>9. CASE Restart
  <2>1. mem' = {}
    BY <1>9 DEF Restart, Fresh
  <2> QED BY <2>1, EmptyWithin
<1>10. CASE UNCHANGED vars
  BY <1>10, ShrinkWithin DEF vars
<1> QED BY <1>1, <1>2, <1>3, <1>4, <1>5, <1>6, <1>7, <1>8, <1>9, <1>10 DEF Next

\* Without DeleteBacklog commands the deque never holds more than one entry
\* per further task over max_memory_bytes, although the capacity test reads a
\* counter that lags behind the deque, wraps below zero, and is not atomic
\* with the push it admits.
THEOREM OvershootCorrect ==
    ~DeleteBacklog /\ RoomyCounter => (Spec => []OvershootBounded)
<1> SUFFICES ASSUME ~DeleteBacklog, RoomyCounter PROVE Spec => []OvershootBounded
  OBVIOUS
<1>1. Init => OvershootInv
  <2> SUFFICES ASSUME Init PROVE OvershootInv
    OBVIOUS
  <2>1. mem = {} /\ \A t \in Tasks : pc[t] = "idle"
    BY DEF Init, Fresh
  <2>2. Ranked
    BY <2>1 DEF Ranked, Unpushed
  <2>3. BytesOf(mem) = {} /\ BytesOf(Admitted) = {}
    BY <2>1 DEF BytesOf, Admitted
  <2>4. Bytes(mem) = 0 /\ Bytes(Admitted) = 0
    BY <2>3, FS_EmptySet DEF Bytes
  <2>5. Largest <= MaxMemory => Within
    <3> DEFINE c == Cardinality(Tasks)
               L == Largest
    <3>1. c \in Nat /\ L \in Nat /\ MaxMemory \in Nat
      BY LargestType, MemoryAssumption
    <3> HIDE DEF c, L
    <3>2. c * L = (c - 1) * L + L /\ c * L \in Nat /\ (c - 1) * L \in Int
      BY <3>1
    <3>3. L <= MaxMemory => 0 <= MaxMemory + (c - 1) * L
      BY <3>1, <3>2
    <3> QED BY <3>3, <2>4 DEF Within, c, L
  <2> QED BY <2>2, <2>5, OvershootParts
<1>2. UsageInv /\ UsageInv' /\ ConserveInv /\ OvershootInv /\ [Next]_vars => OvershootInv'
  <2> SUFFICES ASSUME UsageInv, UsageInv', ConserveInv, OvershootInv, [Next]_vars
               PROVE  OvershootInv'
    OBVIOUS
  <2>1. Ranked /\ (Largest <= MaxMemory => Within)
    BY OvershootParts
  <2>2. Ranked'
    BY <2>1, RankedStep
  <2>3. ASSUME Largest <= MaxMemory PROVE Within'
    BY <2>1, <2>3, WithinStep
  <2>4. (Ranked /\ (Largest <= MaxMemory => Within))'
    BY <2>2, <2>3
  <2> QED BY <2>4, OvershootParts, PTL
<1>3. UsageInv /\ OvershootInv => OvershootBounded
  <2> SUFFICES ASSUME UsageInv, OvershootInv, Largest <= MaxMemory
               PROVE  Bytes(mem) <= MaxMemory + (Cardinality(Tasks) - 1) * Largest
    BY DEF OvershootBounded
  <2>1. (Cardinality(Tasks) - 1) * Largest \in Int
    BY LargestType
  <2> QED BY <2>1, AdmittedType, MemoryAssumption DEF OvershootInv
<1> QED BY <1>1, <1>2, <1>3, UsageInvariant, ConserveInvariant, PTL DEF Spec
=============================================================================
