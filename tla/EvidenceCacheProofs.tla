------------------------- MODULE EvidenceCacheProofs -------------------------
(***************************************************************************)
(* EvidenceCache for any keys, lifetimes, bounds and restarts, with an     *)
(* unbounded clock.                                                        *)
(***************************************************************************)
EXTENDS EvidenceCache, FiniteSetTheorems, FunctionTheorems, TLAPS

(* The table has finitely many rows, so that deletions can be counted.     *)
IInv == TypeOK /\ IsFiniteSet(DOMAIN rows)

IsTable(table) ==
    /\ DOMAIN table \subseteq Key
    /\ table \in [DOMAIN table -> Row]
    /\ IsFiniteSet(DOMAIN table)

(* Deleting rows leaves the others as they are.                            *)
LEMMA KeepTable ==
  ASSUME NEW table, IsTable(table), NEW keys
  PROVE  /\ IsTable(Keep(table, keys))
         /\ DOMAIN Keep(table, keys) = DOMAIN table \cap keys
         /\ \A k \in DOMAIN table \cap keys : Keep(table, keys)[k] = table[k]
<1>1. DOMAIN Keep(table, keys) = DOMAIN table \cap keys
  BY DEF Keep
<1>2. \A k \in DOMAIN table \cap keys : Keep(table, keys)[k] = table[k]
  BY DEF Keep
<1>3. Keep(table, keys) \in [DOMAIN table \cap keys -> Row]
  <2>1. \A k \in DOMAIN table \cap keys : table[k] \in Row
    BY DEF IsTable
  <2> QED
    BY <2>1 DEF Keep
<1>4. IsFiniteSet(DOMAIN table \cap keys)
  BY FS_Subset DEF IsTable
<1> QED
  BY <1>1, <1>2, <1>3, <1>4 DEF IsTable

(* Writing a row replaces at most the one under its key.                   *)
LEMMA UpsertTable ==
  ASSUME NEW table, IsTable(table), NEW k \in Key, NEW row \in Row
  PROVE  /\ IsTable(Upsert(table, k, row))
         /\ DOMAIN Upsert(table, k, row) = DOMAIN table \cup {k}
         /\ Upsert(table, k, row)[k] = row
         /\ \A j \in DOMAIN table \ {k} : Upsert(table, k, row)[j] = table[j]
<1>1. DOMAIN Upsert(table, k, row) = DOMAIN table \cup {k}
  BY DEF Upsert
<1>2. /\ Upsert(table, k, row)[k] = row
      /\ \A j \in DOMAIN table \ {k} : Upsert(table, k, row)[j] = table[j]
  BY DEF Upsert
<1>3. Upsert(table, k, row) \in [DOMAIN table \cup {k} -> Row]
  <2>1. \A j \in DOMAIN table : table[j] \in Row
    BY DEF IsTable
  <2> QED
    BY <2>1 DEF Upsert
<1>4. IsFiniteSet(DOMAIN table \cup {k})
  BY FS_AddElement DEF IsTable
<1> QED
  BY <1>1, <1>2, <1>3, <1>4 DEF IsTable

(* set() completes the timestamps the caller left out.                     *)
LEMMA StampedRow ==
  ASSUME NEW time \in Nat, NEW record \in Input(time)
  PROVE  Stamped(record, time) \in Row
<1>1. Ttl \in Nat /\ Absent \notin Nat
  BY CacheAssumption DEF CacheAssumption
<1> QED
  BY <1>1 DEF Input, Stamped, Row

(* What set() and cleanup() make of the table.                             *)
LEMMA SetTable ==
  ASSUME IInv, NEW k \in Key, NEW record \in Input(now), Set(k, record)
  PROVE  /\ IsTable(rows')
         /\ Stamped(record, now) \in Row
         /\ DOMAIN rows' \subseteq DOMAIN rows \cup {k}
         /\ \A j \in DOMAIN rows' :
              rows'[j] = IF j = k THEN Stamped(record, now) ELSE rows[j]
<1> DEFINE row == Stamped(record, now)
           more == Upsert(rows, k, row)
<1>1. IsTable(rows) /\ row \in Row
  BY StampedRow DEF IInv, TypeOK, IsTable
<1>2. /\ IsTable(more)
      /\ DOMAIN more = DOMAIN rows \cup {k}
      /\ more[k] = row
      /\ \A j \in DOMAIN rows \ {k} : more[j] = rows[j]
  BY <1>1, UpsertTable
<1>3. rows' = Keep(more, Newest(more, maxEntries))
  BY DEF Set, Evict
<1> HIDE DEF more, row
<1>4. /\ IsTable(rows')
      /\ DOMAIN rows' = DOMAIN more \cap Newest(more, maxEntries)
      /\ \A j \in DOMAIN rows' : rows'[j] = more[j]
  BY <1>2, <1>3, KeepTable
<1> QED
  BY <1>1, <1>2, <1>4 DEF row

LEMMA CleanupTable ==
  ASSUME IInv, Cleanup
  PROVE  \E live, kept :
           /\ IsTable(live) /\ IsTable(kept)
           /\ rows' = kept
           /\ DOMAIN live = Live(rows, now)
           /\ DOMAIN kept \subseteq DOMAIN live
           /\ \A k \in DOMAIN kept : kept[k] = rows[k]
           /\ removed' = Cardinality(DOMAIN rows \ DOMAIN live)
                         + Cardinality(DOMAIN live \ DOMAIN kept)
<1> DEFINE live == Keep(rows, Live(rows, now))
           kept == Keep(live, Newest(live, maxEntries))
<1>1. /\ rows' = kept
      /\ removed' = Cardinality(DOMAIN rows \ DOMAIN live)
                    + Cardinality(DOMAIN live \ DOMAIN kept)
  BY DEF Cleanup, Evict
<1>2. /\ IsTable(live)
      /\ DOMAIN live = DOMAIN rows \cap Live(rows, now)
      /\ \A k \in DOMAIN live : live[k] = rows[k]
  <2>1. IsTable(rows)
    BY DEF IInv, TypeOK, IsTable
  <2>2. /\ IsTable(live)
        /\ DOMAIN live = DOMAIN rows \cap Live(rows, now)
        /\ \A k \in DOMAIN rows \cap Live(rows, now) : live[k] = rows[k]
    BY ONLY <2>1, KeepTable
  <2> QED
    BY ONLY <2>2
<1>3. DOMAIN live = Live(rows, now)
  BY <1>2 DEF Live
<1> HIDE DEF live
<1>4. /\ IsTable(kept)
      /\ DOMAIN kept \subseteq DOMAIN live
      /\ \A k \in DOMAIN kept : kept[k] = live[k]
  <2>1. /\ IsTable(kept)
        /\ DOMAIN kept = DOMAIN live \cap Newest(live, maxEntries)
        /\ \A k \in DOMAIN live \cap Newest(live, maxEntries) : kept[k] = live[k]
    BY ONLY <1>2, KeepTable
  <2> QED
    BY ONLY <2>1
<1> HIDE DEF kept
<1> QED
  BY <1>1, <1>2, <1>3, <1>4

-----------------------------------------------------------------------------
(* Eviction.  ORDER BY storedAt DESC, key DESC is a strict total order of  *)
(* the keys, so ranks number the rows from 0 without gaps.                 *)
LEMMA NewerOrder ==
  ASSUME NEW table, IsTable(table)
  PROVE  \A i, j, k \in DOMAIN table :
           /\ ~Newer(table, k, k)
           /\ j # k => Newer(table, j, k) \/ Newer(table, k, j)
           /\ Newer(table, i, j) /\ Newer(table, j, k) => Newer(table, i, k)
<1>1. Key \subseteq Nat
  BY CacheAssumption DEF CacheAssumption
<1>2. \A k \in DOMAIN table : k \in Nat /\ table[k].storedAt \in Nat
  BY <1>1 DEF IsTable, Row
<1> QED
  BY <1>2 DEF Newer

LEMMA RankOrder ==
  ASSUME NEW table, IsTable(table)
  PROVE  /\ \A k \in DOMAIN table : Rank(table, k) \in 0..(Cardinality(DOMAIN table) - 1)
         /\ \A j, k \in DOMAIN table : Newer(table, j, k) => Rank(table, j) < Rank(table, k)
         /\ \A j, k \in DOMAIN table : Rank(table, j) = Rank(table, k) => j = k
<1> DEFINE Above(k) == {j \in DOMAIN table : Newer(table, j, k)}
<1>0. IsFiniteSet(DOMAIN table) /\ Cardinality(DOMAIN table) \in Nat
  BY FS_CardinalityType DEF IsTable
<1>1. \A k \in DOMAIN table : IsFiniteSet(Above(k)) /\ Rank(table, k) = Cardinality(Above(k))
  BY <1>0, FS_Subset DEF Rank
<1>2. \A k \in DOMAIN table : Cardinality(Above(k)) \in Nat
  BY <1>1, FS_CardinalityType
<1>3. ASSUME NEW k \in DOMAIN table
      PROVE  Cardinality(Above(k)) < Cardinality(DOMAIN table)
  <2>1. Above(k) \subseteq DOMAIN table /\ k \notin Above(k)
    BY NewerOrder
  <2> QED
    BY <1>0, <1>2, <2>1, FS_Subset
<1>4. ASSUME NEW j \in DOMAIN table, NEW k \in DOMAIN table, Newer(table, j, k)
      PROVE  Cardinality(Above(j)) < Cardinality(Above(k))
  <2>1. Above(j) \subseteq Above(k) /\ j \in Above(k) /\ j \notin Above(j)
    BY <1>4, NewerOrder
  <2> HIDE DEF Above
  <2>2. IsFiniteSet(Above(k)) /\ Cardinality(Above(k)) \in Nat /\ Cardinality(Above(j)) \in Nat
    BY <1>1, <1>2
  <2>3. /\ Cardinality(Above(j)) <= Cardinality(Above(k))
        /\ Cardinality(Above(k)) = Cardinality(Above(j)) => Above(k) = Above(j)
    BY <2>1, <2>2, FS_Subset
  <2> QED
    BY <2>1, <2>2, <2>3
<1> HIDE DEF Above
<1>5. \A k \in DOMAIN table : Rank(table, k) \in 0..(Cardinality(DOMAIN table) - 1)
  BY <1>0, <1>1, <1>2, <1>3
<1>6. \A j, k \in DOMAIN table : Newer(table, j, k) => Rank(table, j) < Rank(table, k)
  BY <1>1, <1>4
<1>7. ASSUME NEW j \in DOMAIN table, NEW k \in DOMAIN table, j # k
      PROVE  Rank(table, j) # Rank(table, k)
  <2>1. Newer(table, j, k) \/ Newer(table, k, j)
    BY <1>7, NewerOrder
  <2>2. Rank(table, j) \in Nat /\ Rank(table, k) \in Nat
    BY <1>1, <1>2
  <2> QED
    BY <1>6, <2>1, <2>2
<1> QED
  BY <1>5, <1>6, <1>7

(* At most n rows have a rank below n.                                     *)
LEMMA NewestBounded ==
  ASSUME NEW table, IsTable(table), NEW n \in Nat
  PROVE  /\ IsFiniteSet(Newest(table, n))
         /\ Cardinality(Newest(table, n)) <= n
<1> DEFINE f == [k \in Newest(table, n) |-> Rank(table, k)]
<1>1. IsFiniteSet(0..(n - 1)) /\ Cardinality(0..(n - 1)) = n
  BY FS_Interval
<1>2. \A k \in Newest(table, n) : k \in DOMAIN table /\ Rank(table, k) \in 0..(n - 1)
  <2>1. \A k \in Newest(table, n) : k \in DOMAIN table /\ Rank(table, k) < n
    BY DEF Newest
  <2>2. \A k \in DOMAIN table : Rank(table, k) \in Nat
    BY RankOrder
  <2> QED
    BY <2>1, <2>2
<1>3. f \in [Newest(table, n) -> 0..(n - 1)]
  BY <1>2
<1>4. \A j, k \in Newest(table, n) : f[j] = f[k] => j = k
  BY <1>2, RankOrder
<1> HIDE DEF f
<1>5. f \in Injection(Newest(table, n), 0..(n - 1))
  BY <1>3, <1>4, Fun_IsInj
<1> QED
  BY <1>1, <1>5, FS_Injection

(* When a row has a rank of n or more, n others have the ranks below it.   *)
LEMMA NewestFull ==
  ASSUME NEW table, IsTable(table), NEW n \in Nat,
         NEW dropped \in DOMAIN table, dropped \notin Newest(table, n)
  PROVE  Cardinality(Newest(table, n)) >= n
<1> DEFINE size == Cardinality(DOMAIN table)
           f == [k \in DOMAIN table |-> Rank(table, k)]
           g == [k \in Newest(table, n) |-> Rank(table, k)]
<1>1. IsFiniteSet(DOMAIN table) /\ size \in Nat
  BY FS_CardinalityType DEF IsTable
<1>2. \A k \in DOMAIN table : Rank(table, k) \in 0..(size - 1)
  BY RankOrder
<1>3. n <= Rank(table, dropped)
  BY <1>1, <1>2 DEF Newest
<1>4. IsFiniteSet(0..(size - 1)) /\ Cardinality(0..(size - 1)) = size
  <2> HIDE DEF size
  <2> QED
    BY <1>1, FS_Interval
<1>5. f \in Injection(DOMAIN table, 0..(size - 1))
  <2>1. f \in [DOMAIN table -> 0..(size - 1)]
    BY <1>2
  <2>2. \A j, k \in DOMAIN table : f[j] = f[k] => j = k
    BY RankOrder
  <2> HIDE DEF f, size
  <2> QED
    BY <2>1, <2>2, Fun_IsInj
<1>6. \A i \in 0..(size - 1) : \E k \in DOMAIN table : Rank(table, k) = i
  <2>1. f \in Surjection(DOMAIN table, 0..(size - 1))
    BY <1>4, <1>5, FS_Injection
  <2> QED
    BY <2>1 DEF Surjection
<1>7. g \in Surjection(Newest(table, n), 0..(n - 1))
  <2>1. \A k \in Newest(table, n) : Rank(table, k) \in 0..(n - 1)
    BY <1>1, <1>2 DEF Newest
  <2>2. \A i \in 0..(n - 1) : \E k \in Newest(table, n) : Rank(table, k) = i
    BY <1>1, <1>2, <1>3, <1>6 DEF Newest
  <2> QED
    BY <2>1, <2>2 DEF Surjection
<1>8. Cardinality(0..(n - 1)) = n
  BY FS_Interval
<1>9. IsFiniteSet(Newest(table, n)) /\ Cardinality(Newest(table, n)) \in Nat
  BY NewestBounded, FS_CardinalityType
<1> HIDE DEF g
<1> QED
  BY <1>7, <1>8, <1>9, FS_Surjection

-----------------------------------------------------------------------------
LEMMA IInvInit == Init => IInv
<1> SUFFICES ASSUME Init PROVE IInv
  OBVIOUS
<1>1. rows = Empty /\ now = 0 /\ open = TRUE /\ maxEntries \in Bounds
      /\ last = NoCall /\ removed = 0
  BY DEF Init
<1>2. DOMAIN rows = {} /\ rows \in [{} -> Row]
  BY <1>1 DEF Empty
<1>3. IsFiniteSet(DOMAIN rows)
  BY <1>2, FS_EmptySet
<1>4. last \in [op : {"none", "get", "set", "delete", "cleanup"},
                key : Key \cup {Nothing}, row : Row \cup {Nothing}]
  BY <1>1 DEF NoCall
<1> QED
  BY <1>1, <1>2, <1>3, <1>4 DEF IInv, TypeOK

LEMMA IInvStep == IInv /\ [Next]_vars => IInv'
<1> SUFFICES ASSUME IInv, [Next]_vars PROVE IInv'
  OBVIOUS
<1> DEFINE Calls == [op : {"none", "get", "set", "delete", "cleanup"},
                     key : Key \cup {Nothing}, row : Row \cup {Nothing}]
<1>1. /\ IsTable(rows) /\ now \in Nat /\ open \in BOOLEAN
      /\ maxEntries \in Bounds /\ last \in Calls /\ removed \in Nat
  BY DEF IInv, TypeOK, IsTable
<1>2. ASSUME /\ IsTable(rows') /\ now' \in Nat /\ open' \in BOOLEAN
             /\ maxEntries' \in Bounds /\ last' \in Calls /\ removed' \in Nat
      PROVE  IInv'
  BY <1>2 DEF IInv, TypeOK, IsTable
<1> SUFFICES /\ IsTable(rows') /\ now' \in Nat /\ open' \in BOOLEAN
             /\ maxEntries' \in Bounds /\ last' \in Calls /\ removed' \in Nat
  BY <1>2
<1>3. CASE UNCHANGED vars
  BY <1>1, <1>3 DEF vars
<1>4. ASSUME NEW k \in Key, Get(k) PROVE IInv'
  <2>1. {Nothing} \cup {rows[j] : j \in {k} \cap Live(rows, now)} \subseteq Row \cup {Nothing}
    BY <1>1 DEF IsTable, Live
  <2>2. last' \in Calls
    BY <1>4, <2>1 DEF Get
  <2> QED
    BY <1>1, <1>2, <1>4, <2>2 DEF Get
<1>5. ASSUME NEW k \in Key, Delete(k) PROVE IInv'
  <2>1. IsTable(rows')
    BY <1>1, <1>5, KeepTable DEF Delete
  <2>2. last' \in Calls
    BY <1>5 DEF Delete
  <2> QED
    BY <1>1, <1>2, <1>5, <2>1, <2>2 DEF Delete
<1>6. ASSUME NEW k \in Key, NEW record \in Input(now), Set(k, record) PROVE IInv'
  <2>1. IsTable(rows') /\ Stamped(record, now) \in Row
    BY <1>6, SetTable
  <2>2. last' \in Calls
    BY <1>6, <2>1 DEF Set
  <2> QED
    BY <1>1, <1>2, <1>6, <2>1, <2>2 DEF Set
<1>7. CASE Cleanup
  <2>1. PICK live, kept :
           /\ IsTable(live) /\ IsTable(kept)
           /\ rows' = kept
           /\ removed' = Cardinality(DOMAIN rows \ DOMAIN live)
                         + Cardinality(DOMAIN live \ DOMAIN kept)
    BY <1>7, CleanupTable
  <2>2. removed' \in Nat
    <3>1. IsFiniteSet(DOMAIN rows \ DOMAIN live) /\ IsFiniteSet(DOMAIN live \ DOMAIN kept)
      BY <1>1, <2>1, FS_Difference DEF IsTable
    <3> QED
      BY <2>1, <3>1, FS_CardinalityType
  <2>3. last' \in Calls
    BY <1>7 DEF Cleanup
  <2> QED
    BY <1>1, <1>7, <2>1, <2>2, <2>3 DEF Cleanup
<1>8. CASE Close
  BY <1>1, <1>8 DEF Close
<1>9. CASE Open
  <2>1. IsTable(rows')
    <3>1. IsTable(Empty)
      <4>1. DOMAIN Empty = {} /\ Empty \in [{} -> Row]
        BY DEF Empty
      <4> QED
        BY <4>1, FS_EmptySet DEF IsTable
    <3> QED
      BY <1>1, <1>9, <3>1 DEF Open
  <2> QED
    BY <1>1, <1>9, <2>1 DEF Open, NoCall
<1>10. CASE Tick
  BY <1>1, <1>10 DEF Tick
<1> QED
  BY <1>3, <1>4, <1>5, <1>6, <1>7, <1>8, <1>9, <1>10 DEF Next, IInv, TypeOK, IsTable

LEMMA Invariance == Spec => []IInv
BY IInvInit, IInvStep, PTL DEF Spec

(* The table stays a table of complete rows: no row is left without the    *)
(* timestamps that expiry and eviction read, whatever the caller omitted.  *)
THEOREM TypeCorrect == Spec => []TypeOK
<1>1. IInv => TypeOK
  BY DEF IInv
<1> QED
  BY <1>1, Invariance, PTL

(* The two deletions of cleanup() are counted exactly: their sum is what   *)
(* the table lost, and what is left has not expired.                       *)
THEOREM CleanupCounts == Spec => CleanupExact
<1> DEFINE Exact ==
      last'.op = "cleanup" /\ rows' # rows =>
         /\ DOMAIN rows' \subseteq Live(rows, now)
         /\ removed' = Cardinality(DOMAIN rows) - Cardinality(DOMAIN rows')
<1>1. IInv /\ Next => Exact
  <2> SUFFICES ASSUME IInv, Next PROVE Exact
    OBVIOUS
  <2>1. ASSUME NEW k \in Key, Get(k) \/ Delete(k) PROVE Exact
    BY <2>1 DEF Get, Delete
  <2>2. ASSUME NEW k \in Key, NEW record \in Input(now), Set(k, record) PROVE Exact
    BY <2>2 DEF Set
  <2>3. CASE Cleanup
    <3>1. PICK live, kept :
             /\ IsTable(live) /\ IsTable(kept)
             /\ rows' = kept
             /\ DOMAIN live = Live(rows, now)
             /\ DOMAIN kept \subseteq DOMAIN live
             /\ removed' = Cardinality(DOMAIN rows \ DOMAIN live)
                           + Cardinality(DOMAIN live \ DOMAIN kept)
      BY <2>3, CleanupTable
    <3> DEFINE all == DOMAIN rows
               alive == DOMAIN live
               left == DOMAIN kept
    <3>2. /\ IsFiniteSet(all) /\ IsFiniteSet(alive) /\ IsFiniteSet(left)
          /\ alive \subseteq all /\ left \subseteq alive
      BY <3>1 DEF IsTable, IInv, Live
    <3>3. removed' = Cardinality(all \ alive) + Cardinality(alive \ left)
      BY <3>1
    <3> HIDE DEF all, alive, left
    <3>4. /\ Cardinality(all \ alive) = Cardinality(all) - Cardinality(all \cap alive)
          /\ Cardinality(alive \ left) = Cardinality(alive) - Cardinality(alive \cap left)
      BY <3>2, FS_Difference
    <3>5. all \cap alive = alive /\ alive \cap left = left
      BY <3>2
    <3>6. Cardinality(all) \in Nat /\ Cardinality(alive) \in Nat /\ Cardinality(left) \in Nat
      BY <3>2, FS_CardinalityType
    <3>7. /\ Cardinality(all \ alive) = Cardinality(all) - Cardinality(alive)
          /\ Cardinality(alive \ left) = Cardinality(alive) - Cardinality(left)
      BY <3>4, <3>5
    <3>8. removed' = Cardinality(all) - Cardinality(left)
      BY ONLY <3>3, <3>6, <3>7
    <3> QED
      BY <3>1, <3>8 DEF all, left
  <2>4. CASE Open
    BY <2>4 DEF Open, NoCall
  <2>5. CASE Close \/ Tick
    BY <2>5 DEF Close, Tick
  <2> QED
    BY <2>1, <2>2, <2>3, <2>4, <2>5 DEF Next
<1> QED
  BY <1>1, Invariance, PTL DEF Spec, CleanupExact

(* What enforceMaxEntries() leaves is within the bound.                    *)
LEMMA EvictBounded ==
  ASSUME NEW table, IsTable(table), NEW n \in Nat
  PROVE  Cardinality(DOMAIN Evict(table, n)) <= n
<1>1. DOMAIN Evict(table, n) = Newest(table, n)
  BY DEF Evict, Keep, Newest
<1> QED
  BY <1>1, NewestBounded

(* set() and cleanup() leave at most maxEntries rows, also in a process    *)
(* that was opened on a file a larger bound had filled.                    *)
THEOREM BoundRestored == Spec => WritesRestoreBound
<1> DEFINE Bounded == last'.op \in {"set", "cleanup"} /\ rows' # rows
                        => Cardinality(DOMAIN rows') <= maxEntries
<1>1. IInv /\ Next => Bounded
  <2> SUFFICES ASSUME IInv, Next PROVE Bounded
    OBVIOUS
  <2>1. IsTable(rows) /\ maxEntries \in Nat
    BY CacheAssumption DEF CacheAssumption, IInv, TypeOK, IsTable
  <2>2. ASSUME NEW k \in Key, Get(k) \/ Delete(k) PROVE Bounded
    BY <2>2 DEF Get, Delete
  <2>3. ASSUME NEW k \in Key, NEW record \in Input(now), Set(k, record) PROVE Bounded
    <3>1. Stamped(record, now) \in Row
      BY StampedRow DEF IInv, TypeOK
    <3>2. IsTable(Upsert(rows, k, Stamped(record, now)))
      BY <2>1, <3>1, UpsertTable
    <3>3. rows' = Evict(Upsert(rows, k, Stamped(record, now)), maxEntries)
      BY <2>3 DEF Set
    <3> QED
      BY <2>1, <3>2, <3>3, EvictBounded
  <2>4. CASE Cleanup
    <3>1. IsTable(Keep(rows, Live(rows, now)))
      BY <2>1, KeepTable
    <3>2. rows' = Evict(Keep(rows, Live(rows, now)), maxEntries)
      BY <2>4 DEF Cleanup
    <3> QED
      BY <2>1, <3>1, <3>2, EvictBounded
  <2>5. CASE Open
    BY <2>5 DEF Open, NoCall
  <2>6. CASE Close \/ Tick
    BY <2>6 DEF Close, Tick
  <2> QED
    BY <2>2, <2>3, <2>4, <2>5, <2>6 DEF Next
<1> QED
  BY <1>1, Invariance, PTL DEF Spec, WritesRestoreBound

(* set() pushes another row out only when the table is full, and then none *)
(* that is younger than a row it keeps.                                    *)
THEOREM OldestEvicted == Spec => SetEvictsOldestOnly
<1> DEFINE Oldest ==
      last'.op = "set" /\ rows' # rows =>
        \A dropped \in (DOMAIN rows \ DOMAIN rows') \ {last'.key} :
          /\ Cardinality(DOMAIN rows') >= maxEntries
          /\ \A kept \in DOMAIN rows' : rows'[kept].storedAt >= rows[dropped].storedAt
<1>1. IInv /\ Next => Oldest
  <2> SUFFICES ASSUME IInv, Next PROVE Oldest
    OBVIOUS
  <2>1. IsTable(rows) /\ maxEntries \in Nat
    BY CacheAssumption DEF CacheAssumption, IInv, TypeOK, IsTable
  <2>2. ASSUME NEW k \in Key, Get(k) \/ Delete(k) PROVE Oldest
    BY <2>2 DEF Get, Delete
  <2>3. ASSUME NEW k \in Key, NEW record \in Input(now), Set(k, record) PROVE Oldest
    <3> DEFINE row == Stamped(record, now)
               more == Upsert(rows, k, row)
               newest == Newest(more, maxEntries)
    <3>1. row \in Row
      BY StampedRow DEF IInv, TypeOK
    <3>2. /\ IsTable(more)
          /\ DOMAIN more = DOMAIN rows \cup {k}
          /\ \A j \in DOMAIN rows \ {k} : more[j] = rows[j]
      BY <2>1, <3>1, UpsertTable
    <3>3. rows' = Keep(more, newest) /\ last'.key = k
      BY <2>3 DEF Set, Evict
    <3> HIDE DEF more, row
    <3>4. /\ DOMAIN rows' = newest
          /\ \A j \in newest : j \in DOMAIN more /\ rows'[j] = more[j]
      BY <3>3 DEF Keep, Newest
    <3> SUFFICES ASSUME NEW dropped \in (DOMAIN rows \ DOMAIN rows') \ {k}
                 PROVE  /\ Cardinality(DOMAIN rows') >= maxEntries
                        /\ \A kept \in DOMAIN rows' :
                             rows'[kept].storedAt >= rows[dropped].storedAt
      BY <3>3
    <3>5. dropped \in DOMAIN more /\ dropped \notin newest /\ more[dropped] = rows[dropped]
      BY <3>2, <3>4
    <3>6. Cardinality(newest) >= maxEntries
      BY <2>1, <3>2, <3>5, NewestFull
    <3>7. ASSUME NEW kept \in newest
          PROVE  more[kept].storedAt >= more[dropped].storedAt
      <4>1. /\ Rank(more, kept) < maxEntries
            /\ ~(Rank(more, dropped) < maxEntries)
        BY <3>5, <3>7 DEF Newest
      <4>2. /\ kept \in DOMAIN more
            /\ Rank(more, kept) \in Nat /\ Rank(more, dropped) \in Nat
        BY <3>2, <3>4, <3>5, RankOrder
      <4>3. ~Newer(more, dropped, kept)
        <5>1. Newer(more, dropped, kept) => Rank(more, dropped) < Rank(more, kept)
          BY <3>2, <3>5, <4>2, RankOrder
        <5> QED
          BY <2>1, <4>1, <4>2, <5>1
      <4>4. more[kept].storedAt \in Nat /\ more[dropped].storedAt \in Nat
        BY <3>2, <3>5, <4>2 DEF IsTable, Row
      <4> QED
        BY <4>3, <4>4 DEF Newer
    <3> QED
      BY <3>4, <3>5, <3>6, <3>7
  <2>4. CASE Cleanup
    BY <2>4 DEF Cleanup
  <2>5. CASE Open
    BY <2>5 DEF Open, NoCall
  <2>6. CASE Close \/ Tick
    BY <2>6 DEF Close, Tick
  <2> QED
    BY <2>2, <2>3, <2>4, <2>5, <2>6 DEF Next
<1> QED
  BY <1>1, Invariance, PTL DEF Spec, SetEvictsOldestOnly

-----------------------------------------------------------------------------
(* A step that changes rows only by dropping some of them forgets.         *)
LEMMA DroppingForgets ==
  ASSUME IsTable(rows), IsTable(rows'),
         DOMAIN rows' \subseteq DOMAIN rows,
         \A k \in DOMAIN rows' : rows'[k] = rows[k]
  PROVE  Store!Forgets(Held, Held')
BY DEF Store!Forgets, Held, IsTable

(* The SQLite cache is the lossy map its interface promises: every step    *)
(* of it, eviction, clean-up and restart included, is a read, a write or   *)
(* a loss of the abstract map, or changes nothing there.                   *)
THEOREM StoreImplemented == Spec => ImplementsStore
<1>1. Init => Store!Init
  BY DEF Init, Store!Init, Held, Empty, NoCall, Store!NoCall
<1>2. IInv /\ IInv' /\ [Next]_vars => [Store!Next]_<<Held, last>>
  <2> SUFFICES ASSUME IInv, IInv', [Next]_vars PROVE [Store!Next]_<<Held, last>>
    OBVIOUS
  <2>1. IsTable(rows) /\ IsTable(rows')
    BY DEF IInv, TypeOK, IsTable
  <2>2. ASSUME UNCHANGED <<rows, last>> PROVE UNCHANGED <<Held, last>>
    BY <2>2 DEF Held
  <2>3. CASE UNCHANGED vars
    BY <2>2, <2>3 DEF vars
  <2>4. ASSUME NEW k \in Key, Get(k) PROVE Store!Read(k)
    BY <2>4 DEF Get, Store!Read, Held, Live
  <2>5. ASSUME NEW k \in Key, Delete(k) PROVE Store!Forget
    <3>1. /\ DOMAIN rows' \subseteq DOMAIN rows
          /\ \A j \in DOMAIN rows' : rows'[j] = rows[j]
      BY <2>1, <2>5, KeepTable DEF Delete
    <3> QED
      BY <2>1, <2>5, <3>1, DroppingForgets DEF Delete, Store!Forget
  <2>6. ASSUME NEW k \in Key, NEW record \in Input(now), Set(k, record) PROVE Store!Write(k)
    <3> DEFINE row == Stamped(record, now)
    <3>1. /\ row \in Row
          /\ DOMAIN rows' \subseteq DOMAIN rows \cup {k}
          /\ \A j \in DOMAIN rows' : rows'[j] = IF j = k THEN row ELSE rows[j]
      BY <2>6, SetTable
    <3>2. last'.op = "set" /\ last'.key = k /\ last'.row = row
      BY <2>6 DEF Set
    <3> HIDE DEF row
    <3>3. Store!Forgets([Held EXCEPT ![k] = row], Held')
      BY <2>1, <3>1 DEF Store!Forgets, Held, IsTable
    <3> QED
      BY <3>1, <3>2, <3>3 DEF Store!Write
  <2>7. CASE Cleanup
    <3>1. /\ DOMAIN rows' \subseteq DOMAIN rows
          /\ \A j \in DOMAIN rows' : rows'[j] = rows[j]
      BY <2>7, CleanupTable DEF Live
    <3> QED
      BY <2>1, <2>7, <3>1, DroppingForgets DEF Cleanup, Store!Forget, Store!Next
  <2>8. CASE Open
    <3>1. /\ DOMAIN rows' \subseteq DOMAIN rows
          /\ \A j \in DOMAIN rows' : rows'[j] = rows[j]
      BY <2>8 DEF Open, Empty
    <3> QED
      BY <2>1, <2>8, <3>1, DroppingForgets DEF Open, NoCall, Store!Forget, Store!Next
  <2>9. CASE Close \/ Tick
    BY <2>2, <2>9 DEF Close, Tick
  <2> QED
    BY <2>3, <2>4, <2>5, <2>6, <2>7, <2>8, <2>9 DEF Next, Store!Next
<1> QED
  BY <1>1, <1>2, Invariance, PTL DEF Spec, ImplementsStore, Store!Spec
=============================================================================
