--------------------------- MODULE AdmissionProofs ---------------------------
(***************************************************************************)
(* Theorems about the rate limiter under the requests that Admission lets  *)
(* reach it, for any clients, rates, caps and clock.                       *)
(***************************************************************************)
EXTENDS Admission, FiniteSetTheorems, FunctionTheorems, WellFoundedInduction, TLAPS

LimiterTypes ==
    /\ now \in Nat /\ elapsed \in Nat
    /\ place \in [Key -> Nat]
    /\ bucket \in [Key -> Buckets]
    /\ spent \in [Key -> Nat] /\ since \in [Key -> Nat]
    /\ due \in [Key -> Nat \cup {NotDue}]

(* What a bucket is worth when it is looked at.                            *)
Worth(b, at) == Refill(b, at).tokens

(* What a client has got is paid for by the time, and so is what is left   *)
(* in its bucket above the capacity it began with.                         *)
Paid(k) ==
    IF place[k] # 0 THEN spent[k] * TicksPerToken + Worth(bucket[k], now) <= Capacity + elapsed - since[k]
    ELSE spent[k] * TicksPerToken <= elapsed - since[k]

(* A refused client has, when it is due, what a token costs.               *)
Due(k) ==
    due[k] # NotDue /\ place[k] # 0 =>
      LET b == bucket[k] IN
      /\ b.refilledAt <= now
      /\ \/ b.tokens + now - b.refilledAt >= TicksPerToken
         \/ b.tokens + now - b.refilledAt + due[k] - elapsed >= TicksPerToken

Places ==
    /\ \A k \in Key : place[k] <= MaxBuckets
    /\ \A j, k \in Key : place[j] # 0 /\ place[j] = place[k] => j = k

LimiterInv ==
    /\ LimiterTypes
    /\ Places
    /\ \A k \in Key : Paid(k)
    /\ \A k \in Key : Due(k)

-----------------------------------------------------------------------------
LEMMA Least == ASSUME NEW T \in SUBSET Nat, T # {} PROVE \E m \in T : \A n \in T : m <= n
<1> DEFINE Below == OpToRel(<, Nat)
<1>1. IsWellFoundedOn(Below, Nat)
  BY NatLessThanWellFounded
<1>2. \A x, y \in Nat : x < y => <<x, y>> \in Below
  BY DEF OpToRel
<1> HIDE DEF Below
<1>3. PICK m \in T : \A n \in T : ~(<<n, m>> \in Below)
  BY <1>1, WFMin
<1>4. ASSUME NEW n \in T PROVE m <= n
  <2>1. m \in Nat /\ n \in Nat
    OBVIOUS
  <2>2. ~(n < m)
    BY <1>2, <1>3, <2>1
  <2> QED BY <2>1, <2>2
<1> QED BY <1>4

LEMMA RoundedUp ==
    ASSUME NEW a \in Nat, NEW d \in Nat \ {0}
    PROVE  (a + d - 1) \div d \in Nat /\ ((a + d - 1) \div d) * d >= a
OBVIOUS

LEMMA OneMore ==
    ASSUME NEW a \in Nat, NEW d \in Nat PROVE (a + 1) * d = a * d + d /\ a * d \in Nat
OBVIOUS

LEMMA RefillIs ==
    ASSUME NEW b \in Buckets, NEW at \in Nat
    PROVE  /\ Refill(b, at).tokens =
                IF at <= b.refilledAt THEN b.tokens
                ELSE IF b.tokens + at - b.refilledAt <= Capacity
                     THEN b.tokens + at - b.refilledAt ELSE Capacity
           /\ Refill(b, at).refilledAt = IF at <= b.refilledAt THEN b.refilledAt ELSE at
BY DEF Refill, Buckets

(* A refill changes nothing about what a bucket is worth.                  *)
LEMMA RefillFacts ==
    ASSUME NEW b \in Buckets, NEW at \in Nat
    PROVE  /\ Refill(b, at) \in Buckets
           /\ Worth(b, at) \in 0..Capacity
           /\ Worth(Refill(b, at), at) = Worth(b, at)
           /\ Worth(b, at + 1) <= Worth(b, at) + 1
           /\ \A t \in Nat : t <= at => Worth(b, t) <= Worth(b, at)
<1>1. Capacity \in Nat
  BY LimiterAssumption
<1>2. PICK t \in 0..Capacity, r \in Nat, u \in Nat :
        b = [tokens |-> t, refilledAt |-> r, lastUsedAt |-> u]
  BY DEF Buckets
<1>3. \A a \in Nat :
        Refill(b, a) = [tokens |-> IF a <= r THEN t
                                   ELSE IF t + a - r <= Capacity THEN t + a - r ELSE Capacity,
                        refilledAt |-> IF a <= r THEN r ELSE a, lastUsedAt |-> u]
  BY <1>2 DEF Refill
<1>4. \A a \in Nat : Worth(b, a) = IF a <= r THEN t
                                   ELSE IF t + a - r <= Capacity THEN t + a - r ELSE Capacity
  BY <1>3 DEF Worth
<1>5. Refill(b, at) \in Buckets
  BY <1>1, <1>3 DEF Buckets
<1>6. at <= Refill(b, at).refilledAt
  BY <1>3
<1>7. Worth(Refill(b, at), at) = Worth(b, at)
  BY <1>6 DEF Worth, Refill
<1>8. Worth(b, at + 1) <= Worth(b, at) + 1
  BY <1>1, <1>4
<1>9. Worth(b, at) \in 0..Capacity
  BY <1>1, <1>4
<1>10. \A a \in Nat : a <= at => Worth(b, a) <= Worth(b, at)
  BY <1>1, <1>4
<1> QED BY <1>5, <1>7, <1>8, <1>9, <1>10

-----------------------------------------------------------------------------
(* Keys that have places of their own are as few as the places.            *)
LEMMA FewTracked ==
    ASSUME LimiterTypes, Places
    PROVE  IsFiniteSet(Tracked) /\ Cardinality(Tracked) \in Nat /\ Cardinality(Tracked) <= MaxBuckets
<1>1. MaxBuckets \in Nat \ {0}
  BY LimiterAssumption
<1> DEFINE at == [k \in Tracked |-> place[k]]
<1>2. at \in Injection(Tracked, 1..MaxBuckets)
  <2>1. at \in [Tracked -> 1..MaxBuckets]
    BY <1>1 DEF LimiterTypes, Places, Tracked
  <2>2. \A j, k \in Tracked : at[j] = at[k] => j = k
    BY DEF LimiterTypes, Places, Tracked
  <2> QED BY <2>1, <2>2, Fun_IsInj
<1>3. IsFiniteSet(1..MaxBuckets) /\ Cardinality(1..MaxBuckets) = MaxBuckets
  BY <1>1, FS_Interval
<1> HIDE DEF at
<1>4. IsFiniteSet(Tracked) /\ Cardinality(Tracked) <= Cardinality(1..MaxBuckets)
  BY <1>2, <1>3, FS_Injection
<1> QED BY <1>3, <1>4, FS_CardinalityType

LEMMA MovedFacts ==
    ASSUME LimiterTypes, Places, NEW k \in Key,
           NEW set \in SUBSET Tracked, k \notin set,
           IsFiniteSet(set), Cardinality(set) < MaxBuckets
    PROVE  LET p == MovedToEnd(set, k) IN
           /\ p \in [Key -> Nat]
           /\ \A x \in Key : p[x] <= MaxBuckets
           /\ \A x \in Key : p[x] # 0 <=> x \in set \cup {k}
           /\ \A x, y \in Key : p[x] # 0 /\ p[x] = p[y] => x = y
<1> DEFINE p == MovedToEnd(set, k)
           Upto(x) == {y \in set : place[y] <= place[x]}
<1>1. MaxBuckets \in Nat /\ Cardinality(set) \in Nat
  BY LimiterAssumption, FS_CardinalityType
<1>2. \A x \in Key : p[x] = IF x = k THEN Cardinality(set) + 1
                            ELSE IF x \in set THEN Cardinality(Upto(x)) ELSE 0
  BY DEF MovedToEnd
<1>3. \A x \in Key : /\ IsFiniteSet(Upto(x)) /\ Cardinality(Upto(x)) \in Nat
                     /\ Cardinality(Upto(x)) <= Cardinality(set)
  <2> TAKE x \in Key
  <2>1. Upto(x) \in SUBSET set
    OBVIOUS
  <2> HIDE DEF Upto
  <2> QED BY <2>1, FS_Subset, FS_CardinalityType
<1>4. ASSUME NEW x \in set PROVE x \in Key /\ place[x] \in Nat \ {0} /\ x \in Upto(x) /\ Cardinality(Upto(x)) # 0
  <2>0. x \in Key /\ place[x] # 0
    BY DEF Tracked
  <2>3. place[x] \in Nat \ {0}
    BY <2>0 DEF LimiterTypes
  <2>1. x \in Key /\ place[x] \in Nat \ {0} /\ x \in Upto(x)
    BY <2>0, <2>3
  <2>2. IsFiniteSet(Upto(x))
    BY <1>3, <2>1
  <2> HIDE DEF Upto
  <2> QED BY <2>1, <2>2, FS_EmptySet
<1>5. ASSUME NEW x \in set, NEW y \in set, place[x] < place[y]
      PROVE  Cardinality(Upto(x)) < Cardinality(Upto(y))
  <2>0. \A z \in set : place[z] \in Nat
    BY <1>4
  <2>1. Upto(x) \in SUBSET Upto(y) /\ y \in Upto(y) /\ y \notin Upto(x)
    BY <2>0, <1>5
  <2>2. /\ IsFiniteSet(Upto(y)) /\ Cardinality(Upto(y)) \in Nat /\ Cardinality(Upto(x)) \in Nat
    BY <1>3, <1>4
  <2> HIDE DEF Upto
  <2>3. Cardinality(Upto(x)) <= Cardinality(Upto(y)) /\ Cardinality(Upto(x)) # Cardinality(Upto(y))
    BY <2>1, <2>2, FS_Subset
  <2> QED BY <2>2, <2>3
<1> HIDE DEF Upto, p
<1>6. p \in [Key -> Nat]
  <2>1. \A x \in Key : p[x] \in Nat
    BY <1>1, <1>2, <1>3
  <2>2. p = [x \in Key |-> p[x]]
    BY DEF p, MovedToEnd
  <2> QED BY <2>1, <2>2
<1>7. \A x \in Key : p[x] <= MaxBuckets
  BY <1>1, <1>2, <1>3
<1>8. \A x \in Key : p[x] # 0 <=> x \in set \cup {k}
  BY <1>1, <1>2, <1>4
<1>9. ASSUME NEW x \in Key, NEW y \in Key, p[x] # 0, p[x] = p[y] PROVE x = y
  <2>1. x \in set \cup {k} /\ y \in set \cup {k}
    BY <1>8, <1>9
  <2>0. /\ p[k] = Cardinality(set) + 1
        /\ \A z \in set : z # k /\ z \in Key /\ p[z] # Cardinality(set) + 1
    <3>1. \A z \in set : z # k /\ z \in Key
      BY <1>4
    <3>2. \A z \in set : p[z] = Cardinality(Upto(z)) /\ Cardinality(Upto(z)) <= Cardinality(set)
                         /\ Cardinality(Upto(z)) \in Nat
      BY <1>2, <1>3, <3>1
    <3> QED BY <1>1, <1>2, <3>1, <3>2
  <2>2. CASE x = k \/ y = k
    <3>1. ASSUME x = k, y # k PROVE FALSE
      BY <1>9, <2>0, <2>1, <3>1
    <3>2. ASSUME x # k, y = k PROVE FALSE
      BY <1>9, <2>0, <2>1, <3>2
    <3> QED BY <2>2, <3>1, <3>2
  <2>3. CASE x \in set /\ y \in set
    <3>1. p[x] = Cardinality(Upto(x)) /\ p[y] = Cardinality(Upto(y))
      BY <1>2, <2>3
    <3>2. ~(place[x] < place[y]) /\ ~(place[y] < place[x])
      <4>1. Cardinality(Upto(x)) = Cardinality(Upto(y)) /\ Cardinality(Upto(x)) \in Nat
        BY <1>3, <1>9, <3>1
      <4> QED BY <1>5, <2>3, <4>1
    <3>3. place[x] = place[y] /\ place[x] # 0
      BY <1>4, <2>3, <3>2
    <3> QED BY <3>3 DEF Places
  <2> QED BY <2>1, <2>2, <2>3
<1> QED BY <1>6, <1>7, <1>8, <1>9 DEF p

(* A check makes room before it adds its key.                              *)
LEMMA RoomLeft ==
    ASSUME LimiterTypes, Places, NEW k \in Key
    PROVE  LET kept == Remaining \ ({k} \cup Evicted(k)) IN
           /\ kept \in SUBSET Tracked /\ k \notin kept
           /\ IsFiniteSet(kept) /\ Cardinality(kept) < MaxBuckets
<1> DEFINE kept == Remaining \ ({k} \cup Evicted(k))
<1>1. MaxBuckets \in Nat \ {0}
  BY LimiterAssumption
<1>2. IsFiniteSet(Tracked) /\ Cardinality(Tracked) \in Nat /\ Cardinality(Tracked) <= MaxBuckets
  BY FewTracked
<1>3. Remaining \in SUBSET Tracked /\ Remaining \in SUBSET Key
  BY DEF Remaining, Tracked
<1>4. /\ IsFiniteSet(Remaining) /\ Cardinality(Remaining) \in Nat
      /\ Cardinality(Remaining) <= MaxBuckets
  BY <1>1, <1>2, <1>3, FS_Subset, FS_CardinalityType
<1>5. \A S \in SUBSET Remaining : IsFiniteSet(S) /\ Cardinality(S) \in Nat
                                 /\ Cardinality(S) <= Cardinality(Remaining)
  BY <1>4, FS_Subset, FS_CardinalityType
<1>6. kept \in SUBSET Remaining /\ k \notin kept
  OBVIOUS
<1>7. ASSUME NEW m \in Remaining, m \notin kept PROVE Cardinality(kept) < MaxBuckets
  <2>1. kept # Remaining
    BY <1>7
  <2> HIDE DEF kept
  <2>2. Cardinality(kept) # Cardinality(Remaining)
    BY <1>4, <1>6, <2>1, FS_Subset
  <2> QED BY <1>1, <1>4, <1>5, <1>6, <2>2
<1>8. Cardinality(kept) < MaxBuckets
  <2>1. CASE k \in Remaining
    BY <1>6, <1>7, <2>1
  <2>2. CASE Cardinality(Remaining) < MaxBuckets
    <3> HIDE DEF kept
    <3> QED BY <1>1, <1>4, <1>5, <1>6, <2>2
  <2>3. CASE k \notin Remaining /\ ~(Cardinality(Remaining) < MaxBuckets)
    <3>1. Evicted(k) = Oldest(Remaining)
      BY <1>1, <1>4, <2>3 DEF Evicted
    <3>2. Remaining # {}
      BY <1>1, <1>4, <2>3, FS_EmptySet
    <3>3. {place[x] : x \in Remaining} \in SUBSET Nat /\ {place[x] : x \in Remaining} # {}
      BY <1>3, <3>2 DEF LimiterTypes
    <3>4. PICK n \in {place[x] : x \in Remaining} : \A i \in {place[x] : x \in Remaining} : n <= i
      BY <3>3, Least
    <3>5. PICK m \in Remaining : place[m] = n
      BY <3>4
    <3>6. m \in Oldest(Remaining)
      BY <3>4, <3>5 DEF Oldest
    <3> QED BY <1>7, <3>1, <3>5, <3>6
  <2> QED BY <2>1, <2>2, <2>3
<1> QED BY <1>3, <1>5, <1>6, <1>8

(* What is swept away was worth its whole capacity.                        *)
LEMMA SweptIsFull ==
    ASSUME LimiterTypes, NEW k \in Key
    PROVE  /\ k \in Remaining => place[k] # 0
           /\ place[k] # 0 /\ k \notin Remaining => Worth(bucket[k], now) = Capacity
<1>1. Worth(bucket[k], now) \in 0..Capacity /\ Capacity \in Nat
  BY LimiterAssumption, RefillFacts DEF LimiterTypes
<1> QED BY <1>1 DEF Remaining, Tracked, Collectible, Worth

LEMMA CurrentFacts ==
    ASSUME LimiterTypes, NEW k \in Key
    PROVE  LET c == Current(k) IN
           /\ c \in Buckets /\ now <= c.refilledAt
           /\ c.tokens = IF k \in Remaining THEN Worth(bucket[k], now) ELSE Capacity
<1>1. Capacity \in Nat /\ now \in Nat /\ bucket[k] \in Buckets
  BY LimiterAssumption DEF LimiterTypes
<1>2. CASE k \in Remaining
  <2>1. Refill(bucket[k], now) \in Buckets
    BY <1>1, RefillFacts
  <2>2. now <= Refill(bucket[k], now).refilledAt
    BY <1>1 DEF Refill, Buckets
  <2> QED BY <1>2, <2>1, <2>2 DEF Current, Worth
<1>3. CASE k \notin Remaining
  BY <1>1, <1>3 DEF Current, Buckets
<1> QED BY <1>2, <1>3

LEMMA RetryFacts ==
    ASSUME NEW b \in Buckets, b.tokens < TicksPerToken
    PROVE  /\ RetryAfter(b) * TicksPerSecond \in Nat
           /\ RetryAfter(b) * TicksPerSecond >= TicksPerToken - b.tokens
<1> DEFINE a == TicksPerToken - b.tokens
           w == (a + TicksPerSecond - 1) \div TicksPerSecond
<1>1. a \in Nat /\ TicksPerSecond \in Nat \ {0}
  BY LimiterAssumption DEF Buckets
<1>2. RetryAfter(b) = IF w < 1 THEN 1 ELSE w
  BY DEF RetryAfter
<1> HIDE DEF a
<1>3. w \in Nat /\ w * TicksPerSecond >= a
  BY <1>1, RoundedUp
<1> HIDE DEF w
<1>4. CASE w < 1
  <2>1. w = 0 /\ w * TicksPerSecond = 0
    BY <1>1, <1>3, <1>4
  <2>2. 1 * TicksPerSecond = TicksPerSecond
    BY <1>1
  <2>3. RetryAfter(b) = 1
    BY <1>2, <1>4
  <2>4. RetryAfter(b) * TicksPerSecond = TicksPerSecond
    BY <2>2, <2>3
  <2> QED BY <1>1, <1>3, <2>1, <2>4 DEF a
<1>5. CASE ~(w < 1)
  <2>1. RetryAfter(b) = w
    BY <1>2, <1>5
  <2>2. w * TicksPerSecond \in Nat
    BY <1>1, <1>3, OneMore
  <2> QED BY <1>3, <2>1, <2>2 DEF a
<1> QED BY <1>4, <1>5

(* What a sweep does to a bucket leaves its client what is due.            *)
LEMMA SweptDue ==
    ASSUME LimiterTypes, NEW k \in Key, NEW d \in Nat, NEW b \in {bucket[k], Refill(bucket[k], now)},
           bucket[k].refilledAt <= now,
           \/ bucket[k].tokens + now - bucket[k].refilledAt >= TicksPerToken
           \/ bucket[k].tokens + now - bucket[k].refilledAt + d - elapsed >= TicksPerToken
    PROVE  /\ b.refilledAt <= now
           /\ \/ b.tokens + now - b.refilledAt >= TicksPerToken
              \/ b.tokens + now - b.refilledAt + d - elapsed >= TicksPerToken
<1>1. /\ now \in Nat /\ elapsed \in Nat /\ Capacity \in Nat /\ TicksPerToken \in Nat
      /\ TicksPerToken <= Capacity
  BY LimiterAssumption DEF LimiterTypes
<1> DEFINE t == bucket[k].tokens
           r == bucket[k].refilledAt
<1>2. bucket[k] \in Buckets /\ t \in 0..Capacity /\ r \in Nat
  BY DEF LimiterTypes, Buckets
<1>4. CASE b = bucket[k]
  BY <1>4
<1>5. CASE b = Refill(bucket[k], now)
  <2>1. b.refilledAt = (IF now <= r THEN r ELSE now)
        /\ b.tokens = IF now <= r THEN t
                      ELSE IF t + now - r <= Capacity THEN t + now - r ELSE Capacity
    BY <1>1, <1>2, <1>5, RefillIs
  <2>2. /\ r <= now
        /\ \/ t + now - r >= TicksPerToken
           \/ t + now - r + d - elapsed >= TicksPerToken
    OBVIOUS
  <2>6. t \in Nat /\ r \in Nat /\ d \in Nat
    BY <1>1, <1>2
  <2> HIDE DEF t, r
  <2>3. CASE now <= r
    <3>1. b.refilledAt = r /\ b.tokens = t
      BY <2>1, <2>3
    <3> QED BY <2>2, <3>1
  <2>4. CASE ~(now <= r) /\ t + now - r <= Capacity
    BY <1>1, <2>1, <2>2, <2>4, <2>6
  <2>5. CASE ~(now <= r) /\ ~(t + now - r <= Capacity)
    BY <1>1, <2>1, <2>2, <2>5, <2>6
  <2> QED BY <2>3, <2>4, <2>5
<1> QED BY <1>4, <1>5

LEMMA CheckSound ==
    ASSUME LimiterInv, NEW k \in Key, Check(k) PROVE LimiterInv'
<1> DEFINE out == Evicted(k)
           kept == Remaining \ ({k} \cup out)
           c == Current(k)
           n == [c EXCEPT !.lastUsedAt = now,
                          !.tokens = IF Allowed(k) THEN @ - TicksPerToken ELSE @]
           retry == RetryAfter(c) * TicksPerSecond
           T == TicksPerToken
<1>0. /\ LimiterTypes /\ Places /\ now \in Nat /\ elapsed \in Nat
      /\ Capacity \in Nat /\ T \in Nat \ {0} /\ T <= Capacity
  BY LimiterAssumption DEF LimiterInv, LimiterTypes
<1>1. /\ place' = MovedToEnd(kept, k)
      /\ bucket' = [x \in Key |-> IF x = k THEN n
                                  ELSE IF x \notin kept THEN NoBucket
                                  ELSE IF x \in Inspected THEN Refill(bucket[x], now) ELSE bucket[x]]
      /\ spent' = [x \in Key |-> IF x \in out THEN 0
                                 ELSE IF x = k /\ Allowed(k) THEN spent[x] + 1 ELSE spent[x]]
      /\ since' = [x \in Key |-> IF x \in out THEN elapsed ELSE since[x]]
      /\ due' = [due EXCEPT ![k] = IF Allowed(k) \/ now < c.refilledAt THEN NotDue
                                   ELSE elapsed + retry]
      /\ now' = now /\ elapsed' = elapsed
  BY DEF Check
<1>2. /\ kept \in SUBSET Tracked /\ k \notin kept
      /\ IsFiniteSet(kept) /\ Cardinality(kept) < MaxBuckets
  BY <1>0, RoomLeft
<1>3. /\ c \in Buckets /\ now <= c.refilledAt
      /\ c.tokens = IF k \in Remaining THEN Worth(bucket[k], now) ELSE Capacity
  BY <1>0, CurrentFacts
<1>4. Allowed(k) <=> c.tokens >= T
  BY DEF Allowed
<1>5. k \notin out /\ out \subseteq Remaining /\ Remaining \subseteq Key
  BY DEF Evicted, Oldest, Remaining, Tracked
<1> HIDE DEF out, kept
<1>6. /\ place' \in [Key -> Nat] /\ Places'
      /\ \A x \in Key : place'[x] # 0 <=> x \in kept \cup {k}
  BY <1>0, <1>1, <1>2, MovedFacts DEF Places
<1>7. /\ n \in Buckets /\ n.refilledAt = c.refilledAt
      /\ n.tokens = IF Allowed(k) THEN c.tokens - T ELSE c.tokens
  <2> HIDE DEF c
  <2>1. c.tokens \in 0..Capacity
    BY <1>3 DEF Buckets
  <2>2. (IF Allowed(k) THEN c.tokens - T ELSE c.tokens) \in 0..Capacity
    BY <1>0, <1>4, <2>1
  <2> QED BY <1>0, <1>3, <2>2 DEF Buckets
<1>8. ~Allowed(k) => retry \in Nat /\ retry >= T - c.tokens
  <2> HIDE DEF c
  <2>1. c.tokens \in Nat
    BY <1>0, <1>3 DEF Buckets
  <2> QED BY <1>0, <1>3, <1>4, <2>1, RetryFacts
<1> HIDE DEF n, c, retry
<1>9. \A x \in Key : /\ Refill(bucket[x], now) \in Buckets /\ bucket[x] \in Buckets
                     /\ Worth(Refill(bucket[x], now), now) = Worth(bucket[x], now)
                     /\ Worth(bucket[x], now) \in 0..Capacity
  BY <1>0, RefillFacts DEF LimiterTypes
<1>10. LimiterTypes'
  <2>4. NoBucket \in Buckets
    BY <1>0 DEF NoBucket, Buckets
  <2>1. bucket' \in [Key -> Buckets]
    BY <1>1, <1>7, <1>9, <2>4
  <2>2. spent' \in [Key -> Nat] /\ since' \in [Key -> Nat]
    BY <1>0, <1>1 DEF LimiterTypes
  <2>3. due' \in [Key -> Nat \cup {NotDue}]
    BY <1>0, <1>1, <1>8 DEF LimiterTypes
  <2> QED BY <1>0, <1>1, <1>6, <2>1, <2>2, <2>3 DEF LimiterTypes
<1>11. ASSUME NEW x \in Key, x # k, place'[x] # 0
       PROVE  /\ bucket'[x] \in {bucket[x], Refill(bucket[x], now)}
              /\ Worth(bucket'[x], now) = Worth(bucket[x], now)
              /\ due'[x] = due[x]
              /\ place[x] # 0 /\ x \notin out
  <2>0. x \in kept
    BY <1>6, <1>11
  <2>1. bucket'[x] \in {bucket[x], Refill(bucket[x], now)} /\ due'[x] = due[x]
    BY <1>0, <1>1, <1>11, <2>0 DEF LimiterTypes
  <2>2. Worth(bucket'[x], now) = Worth(bucket[x], now)
    BY <1>9, <2>1
  <2> QED BY <1>2, <2>0, <2>1, <2>2 DEF Tracked, kept
<1>12. ASSUME NEW x \in Key PROVE Paid(x)'
  <2>0. /\ spent[x] \in Nat /\ since[x] \in Nat /\ spent[x] * T \in Nat
        /\ (spent[x] + 1) * T = spent[x] * T + T
        /\ Worth(bucket[x], now) \in 0..Capacity
        /\ Paid(x)
    <3>1. spent[x] \in Nat /\ since[x] \in Nat
      BY <1>0 DEF LimiterTypes
    <3> QED BY <1>0, <1>9, <3>1, OneMore DEF LimiterInv
  <2>1. CASE x = k
    <3>1. spent[x] * T + c.tokens <= Capacity + elapsed - since[x]
      <4>1. CASE k \in Remaining
        BY <1>0, <1>3, <2>0, <2>1, <4>1, SweptIsFull DEF Paid
      <4>2. CASE k \notin Remaining
        <5>1. c.tokens = Capacity
          BY <1>3, <4>2
        <5>2. spent[x] * T <= elapsed - since[x]
          BY <1>0, <2>0, <2>1, <4>2, SweptIsFull DEF Paid
        <5> QED BY <1>0, <2>0, <5>1, <5>2
      <4> QED BY <4>1, <4>2
    <3>2. place'[x] # 0 /\ since'[x] = since[x]
          /\ spent'[x] = IF Allowed(k) THEN spent[x] + 1 ELSE spent[x]
      BY <1>1, <1>5, <1>6, <2>1
    <3>3. bucket'[x] = n
      BY <1>1, <2>1
    <3>4. Worth(bucket'[x], now) = n.tokens
      BY <1>0, <1>3, <1>7, <3>3 DEF Worth, Refill
    <3>5. c.tokens \in Nat
      BY <1>0, <1>3 DEF Buckets
    <3>6. spent'[x] * T + n.tokens = spent[x] * T + c.tokens
      <4>1. CASE Allowed(k)
        BY <1>0, <1>7, <2>0, <3>2, <3>5, <4>1
      <4>2. CASE ~Allowed(k)
        BY <1>0, <1>7, <2>0, <3>2, <3>5, <4>2
      <4> QED BY <4>1, <4>2
    <3> QED BY <1>1, <3>1, <3>2, <3>4, <3>6 DEF Paid
  <2>2. CASE x # k /\ x \in out
    <3>1. spent'[x] = 0 /\ since'[x] = elapsed /\ place'[x] = 0
      BY <1>1, <1>6, <1>11, <2>2
    <3>2. 0 * T = 0
      BY <1>0
    <3> QED BY <1>0, <1>1, <3>1, <3>2 DEF Paid
  <2>3. CASE x # k /\ x \notin out
    <3>1. spent'[x] = spent[x] /\ since'[x] = since[x]
      BY <1>1, <2>3
    <3>2. CASE place'[x] # 0
      BY <1>1, <1>11, <2>0, <2>3, <3>1, <3>2 DEF Paid
    <3>3. CASE place'[x] = 0
      <4>1. x \notin Remaining
        BY <1>6, <2>3, <3>3 DEF kept
      <4>2. spent[x] * T <= elapsed - since[x]
        BY <1>0, <2>0, <4>1, SweptIsFull DEF Paid
      <4> QED BY <1>1, <3>1, <3>3, <4>2 DEF Paid
    <3> QED BY <3>2, <3>3
  <2> QED BY <2>1, <2>2, <2>3
<1>13. ASSUME NEW x \in Key PROVE Due(x)'
  <2>1. CASE x = k
    <3>1. bucket'[x] = n /\ now' = now /\ elapsed' = elapsed
      BY <1>1, <2>1
    <3>2. SUFFICES ASSUME due'[x] # NotDue
                   PROVE  /\ n.refilledAt <= now
                          /\ n.tokens + now - n.refilledAt + due'[x] - elapsed >= T
      BY <3>1 DEF Due
    <3>3. ~Allowed(k) /\ ~(now < c.refilledAt) /\ due'[x] = elapsed + retry
      BY <1>0, <1>1, <2>1, <3>2 DEF LimiterTypes
    <3>4. c.refilledAt \in Nat /\ c.tokens \in Nat
      BY <1>0, <1>3 DEF Buckets
    <3>5. n.refilledAt = now /\ n.tokens = c.tokens
      BY <1>0, <1>3, <1>7, <3>3, <3>4
    <3> QED BY <1>0, <1>8, <3>3, <3>4, <3>5
  <2>2. CASE x # k
    <3>1. SUFFICES ASSUME due'[x] # NotDue, place'[x] # 0
                   PROVE  /\ bucket'[x].refilledAt <= now
                          /\ \/ bucket'[x].tokens + now - bucket'[x].refilledAt >= T
                             \/ bucket'[x].tokens + now - bucket'[x].refilledAt + due'[x] - elapsed >= T
      BY <1>1 DEF Due
    <3>2. due'[x] = due[x] /\ due[x] \in Nat /\ place[x] # 0
          /\ bucket'[x] \in {bucket[x], Refill(bucket[x], now)}
      BY <1>0, <1>11, <2>2, <3>1 DEF LimiterTypes
    <3>3. /\ bucket[x].refilledAt <= now
          /\ \/ bucket[x].tokens + now - bucket[x].refilledAt >= T
             \/ bucket[x].tokens + now - bucket[x].refilledAt + due[x] - elapsed >= T
      BY <3>1, <3>2 DEF LimiterInv, Due
    <3> QED BY <1>0, <3>2, <3>3, SweptDue
  <2> QED BY <2>1, <2>2
<1> QED BY <1>6, <1>10, <1>12, <1>13 DEF LimiterInv

LEMMA TickSound ==
    ASSUME LimiterInv, Tick PROVE LimiterInv'
<1>0. /\ LimiterTypes /\ now \in Nat /\ elapsed \in Nat /\ Capacity \in Nat /\ TicksPerToken \in Nat
  BY LimiterAssumption DEF LimiterInv, LimiterTypes
<1>1. /\ now' = now + 1 /\ elapsed' = elapsed + 1
      /\ place' = place /\ bucket' = bucket /\ due' = due
      /\ \/ spent' = spent /\ since' = since
         \/ spent' = [k \in Key |-> 0] /\ since' = [k \in Key |-> elapsed + 1]
  BY DEF Tick
<1>2. LimiterTypes' /\ Places'
  BY <1>0, <1>1 DEF LimiterTypes, Places, LimiterInv
<1>3. ASSUME NEW k \in Key PROVE Paid(k)'
  <2>1. /\ Worth(bucket[k], now) \in Nat /\ Worth(bucket[k], now + 1) \in 0..Capacity
        /\ Worth(bucket[k], now + 1) <= Worth(bucket[k], now) + 1
    <3>1. bucket[k] \in Buckets /\ now + 1 \in Nat
      BY <1>0 DEF LimiterTypes
    <3> QED BY <1>0, <3>1, RefillFacts
  <2>2. spent[k] \in Nat /\ since[k] \in Nat /\ spent[k] * TicksPerToken \in Nat
    <3>1. spent[k] \in Nat /\ since[k] \in Nat
      BY <1>0 DEF LimiterTypes
    <3> QED BY <1>0, <3>1, OneMore
  <2>3. Paid(k)
    BY DEF LimiterInv
  <2>4. CASE spent' = spent /\ since' = since
    BY <1>0, <1>1, <2>1, <2>2, <2>3, <2>4 DEF Paid
  <2>5. CASE spent' = [x \in Key |-> 0] /\ since' = [x \in Key |-> elapsed + 1]
    <3>1. spent'[k] = 0 /\ since'[k] = elapsed + 1 /\ 0 * TicksPerToken = 0
      BY <1>0, <2>5
    <3> QED BY <1>0, <1>1, <2>1, <3>1 DEF Paid
  <2> QED BY <1>1, <2>4, <2>5
<1>4. ASSUME NEW k \in Key PROVE Due(k)'
  <2>1. SUFFICES ASSUME due[k] # NotDue, place[k] # 0
                 PROVE  /\ bucket[k].refilledAt <= now + 1
                        /\ \/ bucket[k].tokens + (now + 1) - bucket[k].refilledAt >= TicksPerToken
                           \/ bucket[k].tokens + (now + 1) - bucket[k].refilledAt + due[k] - (elapsed + 1)
                                >= TicksPerToken
    BY <1>1 DEF Due
  <2>2. due[k] \in Nat /\ bucket[k].tokens \in Nat /\ bucket[k].refilledAt \in Nat
    BY <1>0, <2>1 DEF LimiterTypes, Buckets
  <2>3. /\ bucket[k].refilledAt <= now
        /\ \/ bucket[k].tokens + now - bucket[k].refilledAt >= TicksPerToken
           \/ bucket[k].tokens + now - bucket[k].refilledAt + due[k] - elapsed >= TicksPerToken
    BY <2>1 DEF LimiterInv, Due
  <2> QED BY <1>0, <2>2, <2>3
<1> QED BY <1>2, <1>3, <1>4 DEF LimiterInv

LEMMA SetBackSound ==
    ASSUME LimiterInv, SetBack PROVE LimiterInv'
<1>0. /\ LimiterTypes /\ now \in Nat /\ elapsed \in Nat /\ Capacity \in Nat /\ TicksPerToken \in Nat
  BY LimiterAssumption DEF LimiterInv, LimiterTypes
<1>5. PICK t \in 0..(now - 1) : now' = t
  BY DEF SetBack
<1>1. /\ t \in Nat /\ t <= now
      /\ due' = [k \in Key |-> NotDue]
      /\ elapsed' = elapsed /\ place' = place /\ bucket' = bucket /\ spent' = spent /\ since' = since
  BY <1>0, <1>5 DEF SetBack
<1>2. LimiterTypes' /\ Places'
  BY <1>0, <1>1, <1>5 DEF LimiterTypes, Places, LimiterInv
<1>3. ASSUME NEW k \in Key PROVE Paid(k)'
  <2>1. /\ Worth(bucket[k], now) \in Nat /\ Worth(bucket[k], t) \in Nat
        /\ Worth(bucket[k], t) <= Worth(bucket[k], now)
    <3>1. bucket[k] \in Buckets
      BY <1>0 DEF LimiterTypes
    <3> QED BY <1>0, <1>1, <3>1, RefillFacts
  <2>2. spent[k] \in Nat /\ since[k] \in Nat /\ spent[k] * TicksPerToken \in Nat
    <3>1. spent[k] \in Nat /\ since[k] \in Nat
      BY <1>0 DEF LimiterTypes
    <3> QED BY <1>0, <3>1, OneMore
  <2>3. Paid(k)
    BY DEF LimiterInv
  <2> QED BY <1>0, <1>1, <1>5, <2>1, <2>2, <2>3 DEF Paid
<1>4. ASSUME NEW k \in Key PROVE Due(k)'
  BY <1>1 DEF Due
<1> QED BY <1>2, <1>3, <1>4 DEF LimiterInv

LEMMA StutterSound ==
    ASSUME LimiterInv, UNCHANGED limiterVars PROVE LimiterInv'
BY DEF LimiterInv, LimiterTypes, Places, Paid, Due, limiterVars

LEMMA InitSound ==
    ASSUME InitLimiter PROVE LimiterInv
<1>0. Capacity \in Nat /\ TicksPerToken \in Nat
  BY LimiterAssumption
<1>1. 0 * TicksPerToken = 0
  BY <1>0
<1>2. LimiterTypes
  BY <1>0 DEF InitLimiter, LimiterTypes, Buckets, NoBucket
<1>3. Places
  BY LimiterAssumption DEF InitLimiter, Places
<1>4. ASSUME NEW k \in Key PROVE Paid(k) /\ Due(k)
  <2>1. spent[k] = 0 /\ since[k] = 0 /\ elapsed = 0 /\ place[k] = 0 /\ due[k] = NotDue
    BY DEF InitLimiter
  <2> QED BY <1>1, <2>1 DEF Paid, Due
<1> QED BY <1>2, <1>3, <1>4 DEF LimiterInv

-----------------------------------------------------------------------------
(* Every request that reaches the limiter is counted against some client.  *)
LEMMA Callers == \A path \in Path : \A c \in Caller(path) : c.key \in Key /\ c.ip \in Key
<1>1. ASSUME NEW h \in Sent PROVE ClientKey(h) \in Key /\ PreviewIp(h) \in Key
  <2>1. h.cf \in Key \cup {NoKey} /\ h.forwarded \in Key \cup {NoKey} /\ h.ip \in Key
    <3>1. CASE h \in Stray
      BY <3>1, AdmissionAssumption DEF Headers
    <3>2. CASE h \in {ProxyToBackend(c, e) : c \in Key \cup {NoKey}, e \in Edge}
      <4>1. PICK c \in Key \cup {NoKey}, e \in Edge : h = ProxyToBackend(c, e)
        BY <3>2
      <4>2. e.cf \in Key \cup {NoKey} /\ e.ip \in Key
        BY AdmissionAssumption
      <4> QED BY <4>1, <4>2 DEF ProxyToBackend
    <3> QED BY <3>1, <3>2 DEF Sent
  <2> QED BY <2>1 DEF ClientKey, PreviewIp
<1> QED BY <1>1 DEF Caller, Metered

LEMMA AnyKeys ==
    /\ McpKey \subseteq Key /\ AnyKey \subseteq Key
    /\ \A c \in PreviewCaller : c.key \in Key /\ c.ip \in Key
<1>1. "preview" \in Path /\ {"mcp"} \subseteq Path
  BY DEF Path
<1>2. \A paths \in SUBSET Path : Keys(paths) \subseteq Key
  BY Callers DEF Keys
<1> QED BY <1>1, <1>2, Callers DEF McpKey, AnyKey, PreviewCaller

LEMMA Inductive ==
    ASSUME LimiterInv, [Next]_vars PROVE LimiterInv'
<1>1. CASE UNCHANGED limiterVars
  BY <1>1, StutterSound
<1>2. CASE Request
  <2>1. ASSUME NEW c \in PreviewCaller, PreviewRequest(c) PROVE LimiterInv'
    BY <2>1, AnyKeys, CheckSound DEF PreviewRequest
  <2>2. ASSUME NEW k \in McpKey, McpPreviewRequest(k) PROVE LimiterInv'
    BY <2>2, AnyKeys, CheckSound DEF McpPreviewRequest
  <2>3. ASSUME NEW k \in AnyKey, Limited(k) \/ OtherRequest(k) PROVE LimiterInv'
    BY <2>3, AnyKeys, CheckSound DEF Limited, OtherRequest
  <2> QED BY <1>2, <2>1, <2>2, <2>3 DEF Request
<1>3. CASE Tick
  BY <1>3, TickSound
<1>4. CASE SetBack
  BY <1>4, SetBackSound
<1> QED BY <1>1, <1>2, <1>3, <1>4 DEF Next, Time, Unmetered, vars

(* However requests, sweeps, evictions and clock settings interleave, what *)
(* the limiter granted is paid for and what it promised is kept.           *)
THEOREM Invariant == Spec => []LimiterInv
<1>1. Init => LimiterInv
  BY InitSound DEF Init
<1>2. LimiterInv /\ [Next]_vars => LimiterInv'
  BY Inductive
<1> QED BY <1>1, <1>2, PTL DEF Spec

-----------------------------------------------------------------------------
(* Whatever the order of requests, sweeps, evictions and settings of the   *)
(* clock, no window of time sees more requests of a client than its        *)
(* capacity and what that time has earned.                                 *)
THEOREM GrantsAreBounded == Spec => []GrantsBounded
<1>1. ASSUME LimiterInv PROVE GrantsBounded
  <2>1. SUFFICES ASSUME NEW k \in Key
                 PROVE  spent[k] * TicksPerToken <= Capacity + elapsed - since[k]
    BY DEF GrantsBounded
  <2>2. /\ elapsed \in Nat /\ since[k] \in Nat /\ spent[k] \in Nat /\ now \in Nat
        /\ bucket[k] \in Buckets
    BY <1>1 DEF LimiterInv, LimiterTypes
  <2>3. Capacity \in Nat /\ TicksPerToken \in Nat
    BY LimiterAssumption
  <2>4. Worth(bucket[k], now) \in 0..Capacity /\ spent[k] * TicksPerToken \in Nat
    BY <2>2, <2>3, RefillFacts, OneMore
  <2>5. Paid(k)
    BY <1>1 DEF LimiterInv
  <2> QED BY <2>2, <2>3, <2>4, <2>5 DEF Paid
<1> QED BY <1>1, Invariant, PTL

(* A client that was refused and waits as long as Retry-After said is      *)
(* served, whatever the other clients do meanwhile.                        *)
THEOREM RetryHonoured == Spec => []RetryAfterHonoured
<1>1. ASSUME LimiterInv PROVE RetryAfterHonoured
  <2>1. SUFFICES ASSUME NEW k \in Key, due[k] # NotDue, elapsed >= due[k] PROVE Allowed(k)
    BY DEF RetryAfterHonoured
  <2>2. /\ LimiterTypes /\ elapsed \in Nat /\ now \in Nat /\ due[k] \in Nat /\ bucket[k] \in Buckets
    BY <1>1, <2>1 DEF LimiterInv, LimiterTypes
  <2>3. Capacity \in Nat /\ TicksPerToken \in Nat /\ TicksPerToken <= Capacity
    BY LimiterAssumption
  <2>4. CASE k \notin Remaining
    BY <2>2, <2>3, <2>4, CurrentFacts DEF Allowed
  <2>5. CASE k \in Remaining
    <3>1. Current(k).tokens = Worth(bucket[k], now)
      BY <2>2, <2>5, CurrentFacts
    <3>2. /\ bucket[k].refilledAt <= now
          /\ \/ bucket[k].tokens + now - bucket[k].refilledAt >= TicksPerToken
             \/ bucket[k].tokens + now - bucket[k].refilledAt + due[k] - elapsed >= TicksPerToken
      BY <1>1, <2>1, <2>2, <2>5, SweptIsFull DEF LimiterInv, Due
    <3>3. bucket[k].tokens \in Nat /\ bucket[k].refilledAt \in Nat
      BY <2>2, <2>3 DEF Buckets
    <3>4. bucket[k].tokens + now - bucket[k].refilledAt >= TicksPerToken
      BY <2>1, <2>2, <2>3, <3>2, <3>3
    <3>5. Worth(bucket[k], now) =
             IF now <= bucket[k].refilledAt THEN bucket[k].tokens
             ELSE IF bucket[k].tokens + now - bucket[k].refilledAt <= Capacity
                  THEN bucket[k].tokens + now - bucket[k].refilledAt ELSE Capacity
      BY <2>2, RefillIs DEF Worth
    <3>6. Worth(bucket[k], now) >= TicksPerToken
      BY <2>2, <2>3, <3>2, <3>3, <3>4, <3>5
    <3> QED BY <3>1, <3>6 DEF Allowed
  <2> QED BY <2>4, <2>5
<1> QED BY <1>1, Invariant, PTL

(* The limiter never tracks more than MaxBuckets clients.                  *)
THEOREM BucketsAreBounded == Spec => []BucketsBounded
<1>1. ASSUME LimiterInv PROVE BucketsBounded
  <2>1. LimiterTypes /\ Places
    BY <1>1 DEF LimiterInv
  <2> QED BY <2>1, FewTracked DEF BucketsBounded, Places, Tracked
<1> QED BY <1>1, Invariant, PTL

-----------------------------------------------------------------------------
(* The quotas.  What a counter says of today is what has been granted      *)
(* today; nothing is granted on a day to come.                             *)
CounterOK(c) == c \in [day : Int, count : Nat] /\ c.day <= day

QuotaTypes ==
    /\ day \in Day
    /\ byIp \in [Key -> [day : Int, count : Nat]]
    /\ CounterOK(global) /\ CounterOK(mcp)
    /\ \A k \in Key : byIp[k].day <= global.day
    /\ taken \in [Day -> [Key -> Nat]]
    /\ mcpTaken \in [Day -> Nat]

Counted ==
    /\ Today(global) = TakenOn(day)
    /\ \A k \in Key : Today(byIp[k]) = taken[day][k]
    /\ Today(mcp) = mcpTaken[day]

NothingAhead == \A d \in Day : d > day => mcpTaken[d] = 0 /\ \A k \in Key : taken[d][k] = 0

QuotaInv ==
    /\ QuotaTypes
    /\ Counted
    /\ NothingAhead
    /\ \A d \in Day : IsFiniteSet(Granted(d))
    /\ QuotasHold

LEMMA NoneGranted ==
    ASSUME NEW d \in Day, \A k \in Key : taken[d][k] = 0
    PROVE  IsFiniteSet(Granted(d)) /\ TakenOn(d) = 0
<1>1. 1..0 = {}
  OBVIOUS
<1>2. Granted(d) = {}
  BY <1>1 DEF Granted
<1> QED BY <1>2, FS_EmptySet DEF TakenOn

LEMMA QuotaInit == Init => QuotaInv
<1> SUFFICES ASSUME Init PROVE QuotaInv
  OBVIOUS
<1>1. {PerIpDay, GlobalDay, McpPerDay, MaxDay} \subseteq Nat
  BY AdmissionAssumption
<1>2. /\ day = 0 /\ global = Unset /\ mcp = Unset /\ byIp = [k \in Key |-> Unset]
      /\ taken = [d \in Day |-> [k \in Key |-> 0]] /\ mcpTaken = [d \in Day |-> 0]
  BY DEF Init
<1>3. Unset \in [day : Int, count : Nat] /\ Unset.day = -1
  BY DEF Unset, Counter
<1>4. 0 \in Day
  BY <1>1 DEF Day
<1>5. QuotaTypes
  BY <1>2, <1>3, <1>4 DEF QuotaTypes, CounterOK
<1>6. \A d \in Day : IsFiniteSet(Granted(d)) /\ TakenOn(d) = 0
  BY <1>2, NoneGranted
<1>7. Counted
  BY <1>2, <1>3, <1>4, <1>6 DEF Counted, Today
<1>8. NothingAhead
  BY <1>2 DEF NothingAhead
<1>9. QuotasHold
  BY <1>1, <1>2, <1>6 DEF QuotasHold
<1> QED BY <1>5, <1>6, <1>7, <1>8, <1>9 DEF QuotaInv

(* One more preview for a client is one more granted in all.               *)
LEMMA OneMoreGranted ==
    ASSUME taken \in [Day -> [Key -> Nat]], NEW d \in Day, NEW k \in Key,
           IsFiniteSet(Granted(d)), taken' = [taken EXCEPT ![d][k] = @ + 1]
    PROVE  /\ IsFiniteSet(Granted(d)') /\ TakenOn(d)' = TakenOn(d) + 1
           /\ TakenOn(d) \in Nat
<1>1. taken'[d][k] = taken[d][k] + 1 /\ \A x \in Key \ {k} : taken'[d][x] = taken[d][x]
  OBVIOUS
<1> DEFINE one == <<k, taken[d][k] + 1>>
<1>2. 1..(taken[d][k] + 1) = (1..taken[d][k]) \cup {taken[d][k] + 1}
  <2>1. ASSUME NEW n \in Nat PROVE 1..(n + 1) = (1..n) \cup {n + 1}
    <3>1. \A i \in Int : i \in 1..(n + 1) <=> i \in 1..n \/ i = n + 1
      OBVIOUS
    <3>2. 1..(n + 1) \subseteq Int /\ (1..n) \cup {n + 1} \subseteq Int
      OBVIOUS
    <3> QED BY <3>1, <3>2
  <2>2. taken[d][k] \in Nat
    OBVIOUS
  <2> QED BY <2>1, <2>2
<1>3. Granted(d)' = Granted(d) \cup {one}
  <2>1. \A x \in Key : {x} \X (1..taken'[d][x]) =
          IF x = k THEN ({k} \X (1..taken[d][k])) \cup {one} ELSE {x} \X (1..taken[d][x])
    BY <1>1, <1>2
  <2>2. Granted(d)' = UNION {{x} \X (1..taken'[d][x]) : x \in Key}
    BY DEF Granted
  <2>3. ASSUME NEW e PROVE e \in Granted(d)' <=> e \in Granted(d) \cup {one}
    BY <2>1, <2>2 DEF Granted
  <2> QED BY <2>3
<1>4. one \notin Granted(d)
  <2>1. \A n \in 1..taken[d][k] : n # taken[d][k] + 1
    OBVIOUS
  <2> QED BY <2>1 DEF Granted
<1> HIDE DEF one
<1>5. /\ IsFiniteSet(Granted(d) \cup {one})
      /\ Cardinality(Granted(d) \cup {one}) = Cardinality(Granted(d)) + 1
  BY <1>4, FS_AddElement
<1> QED BY <1>3, <1>5, FS_CardinalityType DEF TakenOn

LEMMA SameGranted ==
    ASSUME NEW d \in Day, taken'[d] = taken[d]
    PROVE  Granted(d)' = Granted(d) /\ TakenOn(d)' = TakenOn(d)
BY DEF Granted, TakenOn

LEMMA CounterIs ==
    ASSUME NEW d, NEW n PROVE Counter(d, n).day = d /\ Counter(d, n).count = n
BY DEF Counter

(* An address has an entry of today only if the Map was cleared today.     *)
LEMMA EntriesOfToday ==
    ASSUME QuotaTypes, NEW k \in Key
    PROVE  byIp[k].day = day => global.day = day
<1>1. byIp[k] \in [day : Int, count : Nat] /\ global \in [day : Int, count : Nat] /\ day \in Nat
  BY DEF QuotaTypes, CounterOK, Day
<1>2. byIp[k].day \in Int /\ global.day \in Int
  BY <1>1
<1>3. byIp[k].day <= global.day /\ global.day <= day
  BY DEF QuotaTypes, CounterOK
<1> QED BY <1>1, <1>2, <1>3

LEMMA TakePreviewSound ==
    ASSUME QuotaInv, NEW k \in Key, TakePreview(k), UNCHANGED day
    PROVE  QuotaInv'
<1>1. /\ QuotaTypes /\ Counted /\ NothingAhead /\ QuotasHold
      /\ \A d \in Day : IsFiniteSet(Granted(d))
  BY DEF QuotaInv
<1>2. /\ day \in Day /\ day \in Int /\ PerIpDay \in Nat /\ GlobalDay \in Nat
      /\ taken \in [Day -> [Key -> Nat]] /\ taken[day] \in [Key -> Nat]
      /\ TakenOn(day) \in Nat
  BY <1>1, AdmissionAssumption, FS_CardinalityType DEF QuotaTypes, Day, TakenOn
<1>3. /\ global' = Counter(day, Today(global) + IF SpentPreviews(k) THEN 0 ELSE 1)
      /\ mcp' = mcp /\ mcpTaken' = mcpTaken /\ day' = day
  BY DEF TakePreview
<1>4. \A x \in Key : byIp'[x] = IF x = k /\ ~SpentPreviews(k) THEN Counter(day, Today(byIp[k]) + 1)
                                ELSE IF global.day = day THEN byIp[x] ELSE Unset
  BY DEF TakePreview
<1>5. Unset = Counter(-1, 0) /\ \A d \in Int, n \in Nat : Counter(d, n) \in [day : Int, count : Nat]
  BY DEF Unset, Counter
<1>6. /\ Today(global) = TakenOn(day) /\ \A x \in Key : Today(byIp[x]) = taken[day][x]
      /\ Today(mcp) = mcpTaken[day]
  BY <1>1 DEF Counted
<1>7. QuotaTypes'
  <2>1. global' \in [day : Int, count : Nat] /\ global'.day = day
    BY <1>2, <1>3, <1>5, <1>6, CounterIs
  <2>2. \A x \in Key : byIp'[x] \in [day : Int, count : Nat] /\ byIp'[x].day <= day
    <3> TAKE x \in Key
    <3>1. /\ byIp[x] \in [day : Int, count : Nat] /\ byIp[x].day <= global.day
          /\ global.day <= day /\ global.day \in Int /\ taken[day][k] \in Nat
      BY <1>1, <1>2 DEF QuotaTypes, CounterOK
    <3>2. -1 <= day
      BY <1>2 DEF Day
    <3>3. byIp[x].day \in Int
      BY <3>1
    <3>4. byIp[x].day <= day
      BY <1>2, <3>1, <3>3
    <3>5. /\ Counter(day, taken[day][k] + 1) \in [day : Int, count : Nat]
          /\ Counter(day, taken[day][k] + 1).day = day
          /\ Unset \in [day : Int, count : Nat] /\ Unset.day = -1
      BY <1>2, <1>5, <3>1, CounterIs
    <3>6. Today(byIp[k]) = taken[day][k]
      BY <1>6
    <3> QED BY <1>2, <1>4, <3>1, <3>2, <3>4, <3>5, <3>6
  <2>3. byIp' \in [Key -> [day : Int, count : Nat]]
    <3>1. byIp' = [x \in Key |-> byIp'[x]]
      BY DEF TakePreview
    <3> QED BY <2>2, <3>1
  <2>4. taken' \in [Day -> [Key -> Nat]]
    <3>1. CASE SpentPreviews(k)
      BY <1>2, <3>1 DEF TakePreview
    <3>2. CASE ~SpentPreviews(k)
      <4>1. taken' = [taken EXCEPT ![day] = [taken[day] EXCEPT ![k] = taken[day][k] + 1]]
        BY <3>2 DEF TakePreview
      <4>2. [taken[day] EXCEPT ![k] = taken[day][k] + 1] \in [Key -> Nat]
        BY <1>2
      <4> QED BY <1>2, <4>1, <4>2
    <3> QED BY <3>1, <3>2
  <2>5. CounterOK(global)' /\ CounterOK(mcp)'
    BY <1>1, <1>2, <1>3, <2>1 DEF QuotaTypes, CounterOK
  <2> QED BY <1>1, <1>3, <2>1, <2>2, <2>3, <2>4, <2>5 DEF QuotaTypes
<1>8. CASE SpentPreviews(k)
  <2>1. taken' = taken
    BY <1>8 DEF TakePreview
  <2>2. \A d \in Day : Granted(d)' = Granted(d) /\ TakenOn(d)' = TakenOn(d)
    BY <2>1, SameGranted
  <2>3. Today(global)' = Today(global)
    BY <1>2, <1>3, <1>6, <1>8, CounterIs DEF Today
  <2>4. \A x \in Key : Today(byIp[x])' = Today(byIp[x])
    <3> TAKE x \in Key
    <3>1. byIp'[x] = IF global.day = day THEN byIp[x] ELSE Unset
      BY <1>4, <1>8
    <3>2. byIp[x].day = day => global.day = day
      BY <1>1, EntriesOfToday
    <3>3. Unset.day # day
      BY <1>2, <1>5, CounterIs DEF Day
    <3> QED BY <1>3, <3>1, <3>2, <3>3 DEF Today
  <2>5. Counted'
    BY <1>2, <1>3, <1>6, <2>1, <2>2, <2>3, <2>4 DEF Counted, Today
  <2>6. NothingAhead'
    BY <1>1, <1>3, <2>1 DEF NothingAhead
  <2>7. QuotasHold'
    BY <1>1, <1>3, <2>1, <2>2 DEF QuotasHold
  <2> QED BY <1>1, <1>7, <2>2, <2>5, <2>6, <2>7 DEF QuotaInv
<1>9. CASE ~SpentPreviews(k)
  <2>1. taken' = [taken EXCEPT ![day][k] = @ + 1]
    BY <1>9 DEF TakePreview
  <2>2. /\ taken'[day][k] = taken[day][k] + 1
        /\ \A x \in Key \ {k} : taken'[day][x] = taken[day][x]
        /\ \A d \in Day \ {day} : taken'[d] = taken[d]
    BY <1>2, <2>1
  <2>3. /\ IsFiniteSet(Granted(day)') /\ TakenOn(day)' = TakenOn(day) + 1
        /\ \A d \in Day \ {day} : Granted(d)' = Granted(d) /\ TakenOn(d)' = TakenOn(d)
    <3>1. \A d \in Day \ {day} : Granted(d)' = Granted(d) /\ TakenOn(d)' = TakenOn(d)
      BY <2>2, SameGranted
    <3>2. PICK now0 \in Day : now0 = day
      BY <1>2
    <3>3. taken' = [taken EXCEPT ![now0][k] = @ + 1]
      BY <2>1, <3>2
    <3>4. IsFiniteSet(Granted(now0)') /\ TakenOn(now0)' = TakenOn(now0) + 1
      BY <1>1, <1>2, <3>3, OneMoreGranted
    <3> QED BY <1>3, <3>1, <3>2, <3>4
  <2>4. Today(byIp[k]) < PerIpDay /\ Today(global) < GlobalDay
    BY <1>2, <1>6, <1>9 DEF SpentPreviews
  <2>5. Today(global)' = Today(global) + 1
    BY <1>2, <1>3, <1>6, <1>9, CounterIs DEF Today
  <2>6. \A x \in Key : Today(byIp[x])' = IF x = k THEN Today(byIp[x]) + 1 ELSE Today(byIp[x])
    <3> TAKE x \in Key
    <3>1. byIp[x].day = day => global.day = day
      BY <1>1, EntriesOfToday
    <3>2. Unset.day # day
      BY <1>2, <1>5, CounterIs DEF Day
    <3>3. CASE x = k
      <4>1. byIp'[x] = Counter(day, Today(byIp[k]) + 1)
        BY <1>4, <1>9, <3>3
      <4> QED BY <1>3, <3>3, <4>1, CounterIs DEF Today
    <3>4. CASE x # k
      <4>1. byIp'[x] = IF global.day = day THEN byIp[x] ELSE Unset
        BY <1>4, <3>4
      <4> QED BY <1>3, <3>1, <3>2, <3>4, <4>1 DEF Today
    <3> QED BY <3>3, <3>4
  <2>7. Counted'
    BY <1>2, <1>3, <1>6, <2>2, <2>3, <2>5, <2>6 DEF Counted, Today
  <2>8. NothingAhead'
    BY <1>1, <1>2, <1>3, <2>2 DEF NothingAhead, Day
  <2>9. QuotasHold'
    <3> SUFFICES ASSUME NEW d \in Day
                 PROVE  /\ \A x \in Key : taken'[d][x] <= PerIpDay
                        /\ TakenOn(d)' <= GlobalDay /\ mcpTaken'[d] <= McpPerDay
      BY DEF QuotasHold
    <3>1. CASE d = day
      <4>1. taken[day][k] < PerIpDay /\ TakenOn(day) < GlobalDay /\ taken[day][k] \in Nat
        BY <1>2, <1>6, <2>4
      <4> QED BY <1>1, <1>2, <1>3, <2>2, <2>3, <3>1, <4>1 DEF QuotasHold
    <3>2. CASE d # day
      BY <1>1, <1>3, <2>2, <2>3, <3>2 DEF QuotasHold
    <3> QED BY <3>1, <3>2
  <2> QED BY <1>1, <1>7, <2>3, <2>7, <2>8, <2>9 DEF QuotaInv
<1> QED BY <1>8, <1>9

LEMMA McpPreviewSound ==
    ASSUME QuotaInv, NEW valid \in BOOLEAN, McpPreview(valid), UNCHANGED day
    PROVE  QuotaInv'
<1> DEFINE granted == valid /\ ~SpentMcpPreviews
<1>1. /\ QuotaTypes /\ Counted /\ NothingAhead /\ QuotasHold
      /\ \A d \in Day : IsFiniteSet(Granted(d))
  BY DEF QuotaInv
<1>2. /\ day \in Day /\ day \in Int /\ McpPerDay \in Nat
      /\ mcpTaken \in [Day -> Nat] /\ mcpTaken[day] \in Nat
  BY <1>1, AdmissionAssumption DEF QuotaTypes, Day
<1>3. /\ mcp' = Counter(day, Today(mcp) + IF granted THEN 1 ELSE 0)
      /\ mcpTaken' = (IF granted THEN [mcpTaken EXCEPT ![day] = @ + 1] ELSE mcpTaken)
      /\ byIp' = byIp /\ global' = global /\ taken' = taken /\ day' = day
  BY DEF McpPreview
<1>4. Today(mcp) = mcpTaken[day] /\ (granted => mcpTaken[day] < McpPerDay)
  BY <1>1, <1>2 DEF Counted, SpentMcpPreviews
<1>5. \A d \in Day : Granted(d)' = Granted(d) /\ TakenOn(d)' = TakenOn(d)
  BY <1>3, SameGranted
<1> HIDE DEF granted
<1>6. /\ mcpTaken' \in [Day -> Nat]
      /\ mcpTaken'[day] = mcpTaken[day] + IF granted THEN 1 ELSE 0
      /\ \A d \in Day \ {day} : mcpTaken'[d] = mcpTaken[d]
  BY <1>2, <1>3
<1>7. mcp' \in [day : Int, count : Nat] /\ mcp'.day = day /\ mcp'.count = mcpTaken'[day]
  BY <1>2, <1>3, <1>4, <1>6 DEF Counter
<1>8. QuotaTypes'
  BY <1>1, <1>2, <1>3, <1>6, <1>7 DEF QuotaTypes, CounterOK
<1>9. Counted'
  BY <1>1, <1>2, <1>3, <1>5, <1>7 DEF Counted, Today
<1>10. NothingAhead'
  BY <1>1, <1>2, <1>3, <1>6 DEF NothingAhead, Day
<1>11. QuotasHold'
  <2>1. \A d \in Day : mcpTaken'[d] <= McpPerDay
    BY <1>1, <1>2, <1>4, <1>6 DEF QuotasHold
  <2> QED BY <1>1, <1>3, <1>5, <2>1 DEF QuotasHold
<1> QED BY <1>1, <1>5, <1>8, <1>9, <1>10, <1>11 DEF QuotaInv

LEMMA UntouchedSound ==
    ASSUME QuotaInv, UNCHANGED <<day, byIp, global, mcp, taken, mcpTaken>>
    PROVE  QuotaInv'
<1>1. \A d \in Day : Granted(d)' = Granted(d) /\ TakenOn(d)' = TakenOn(d)
  BY SameGranted
<1> QED BY <1>1 DEF QuotaInv, QuotaTypes, CounterOK, Counted, Today, NothingAhead, QuotasHold

LEMMA MidnightSound ==
    ASSUME QuotaInv, day < MaxDay, day' = day + 1, UNCHANGED <<byIp, global, mcp, taken, mcpTaken>>
    PROVE  QuotaInv'
<1>1. /\ day \in Day /\ day \in Nat /\ day + 1 \in Day /\ MaxDay \in Nat
  BY AdmissionAssumption DEF QuotaInv, QuotaTypes, Day
<1>2. \A d \in Day : Granted(d)' = Granted(d) /\ TakenOn(d)' = TakenOn(d)
  BY SameGranted
<1>3. QuotaTypes'
  BY <1>1 DEF QuotaInv, QuotaTypes, CounterOK
<1>4. /\ mcpTaken[day + 1] = 0 /\ \A k \in Key : taken[day + 1][k] = 0
  BY <1>1 DEF QuotaInv, NothingAhead
<1>5. TakenOn(day + 1) = 0
  BY <1>1, <1>4, NoneGranted
<1>6. /\ global.day # day + 1 /\ mcp.day # day + 1 /\ \A k \in Key : byIp[k].day # day + 1
  <2>1. /\ global.day \in Int /\ global.day <= day /\ mcp.day \in Int /\ mcp.day <= day
        /\ \A k \in Key : byIp[k].day \in Int /\ byIp[k].day <= global.day
    BY DEF QuotaInv, QuotaTypes, CounterOK
  <2> QED BY <1>1, <2>1
<1>7. Counted'
  <2>1. TakenOn(day)' = TakenOn(day + 1)
    BY <1>1 DEF TakenOn, Granted
  <2> QED BY <1>1, <1>4, <1>5, <1>6, <2>1 DEF Counted, Today
<1>8. NothingAhead'
  BY <1>1 DEF QuotaInv, NothingAhead, Day
<1>9. QuotasHold'
  BY <1>2 DEF QuotaInv, QuotasHold
<1> QED BY <1>2, <1>3, <1>7, <1>8, <1>9 DEF QuotaInv

LEMMA QuotaInductive == QuotaInv /\ [Next]_vars => QuotaInv'
<1> SUFFICES ASSUME QuotaInv, [Next]_vars PROVE QuotaInv'
  OBVIOUS
<1>1. CASE UNCHANGED quotaVars
  BY <1>1, UntouchedSound DEF quotaVars
<1>2. ASSUME NEW c \in PreviewCaller, PreviewRequest(c) PROVE QuotaInv'
  BY <1>2, AnyKeys, TakePreviewSound DEF PreviewRequest
<1>3. ASSUME NEW k \in McpKey, McpPreviewRequest(k) PROVE QuotaInv'
  BY <1>3, McpPreviewSound DEF McpPreviewRequest
<1>4. CASE day < MaxDay /\ day' = day + 1 /\ UNCHANGED <<limiterVars, byIp, global, mcp, taken, mcpTaken>>
  BY <1>4, MidnightSound
<1> QED
  BY <1>1, <1>2, <1>3, <1>4 DEF Next, Request, Time, Unmetered, Limited, OtherRequest, Untouched, vars

LEMMA QuotaInvariant == Spec => []QuotaInv
BY QuotaInit, QuotaInductive, PTL DEF Spec

(* Whatever the order of clients, routes and midnight, no day sees more    *)
(* free previews than its quotas allow, per client, in all, and through    *)
(* the MCP adapter.                                                        *)
THEOREM QuotasAreKept == Spec => []QuotasHold
<1>1. QuotaInv => QuotasHold
  BY DEF QuotaInv
<1> QED BY <1>1, QuotaInvariant, PTL

(* A preview is refused only on a day on which its client, or all of them, *)
(* have had what the quota allows.                                         *)
THEOREM RefusalsAreFounded == Spec => []RefusalsAreEarned
<1>1. ASSUME QuotaInv PROVE RefusalsAreEarned
  <2>1. /\ day \in Day /\ {PerIpDay, GlobalDay, McpPerDay} \subseteq Nat
        /\ taken[day] \in [Key -> Nat] /\ mcpTaken[day] \in Nat /\ TakenOn(day) \in Nat
    BY <1>1, AdmissionAssumption, FS_CardinalityType DEF QuotaInv, QuotaTypes, TakenOn
  <2>2. /\ Today(global) = TakenOn(day) /\ \A k \in Key : Today(byIp[k]) = taken[day][k]
        /\ Today(mcp) = mcpTaken[day]
    BY <1>1 DEF QuotaInv, Counted
  <2>3. /\ \A k \in Key : taken[day][k] <= PerIpDay
        /\ TakenOn(day) <= GlobalDay /\ mcpTaken[day] <= McpPerDay
    BY <1>1, <2>1 DEF QuotaInv, QuotasHold
  <2>4. \A k \in Key : SpentPreviews(k) => taken[day][k] = PerIpDay \/ TakenOn(day) = GlobalDay
    BY <2>1, <2>2, <2>3 DEF SpentPreviews
  <2>5. SpentMcpPreviews => mcpTaken[day] = McpPerDay
    BY <2>1, <2>2, <2>3 DEF SpentMcpPreviews
  <2> QED BY <2>4, <2>5 DEF RefusalsAreEarned
<1> QED BY <1>1, QuotaInvariant, PTL
=============================================================================
