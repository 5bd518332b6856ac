----------------------------- MODULE RateLimiter -----------------------------
(***************************************************************************)
(* createRateLimiter() in apps/backend/src/rate-limit.ts: a token bucket   *)
(* per client, refilled when it is looked at.  Tokens are counted in the   *)
(* clock ticks it takes to earn them: a bucket earns one unit per tick and *)
(* a request costs TicksPerToken, so the rounding of the floats the code   *)
(* keeps is left out.  The limiter is enabled (perMinute > 0; disabled, it *)
(* allows everything), and the clock is never stepped ahead of real time.  *)
(* A Map iterates in insertion order, which check() turns into an order of *)
(* recency.                                                                *)
(***************************************************************************)
EXTENDS Integers, FiniteSets

CONSTANTS
    Key,             \* client addresses
    TicksPerToken,   \* MS_PER_MINUTE / perMinute
    TicksPerSecond,
    Capacity,        \* (perMinute + burst) tokens, in units
    IdleTtl,         \* IDLE_BUCKET_TTL_MS
    MaxBuckets, SweepLimit  \* MAX_BUCKETS, GC_SWEEP_LIMIT

ASSUME LimiterAssumption ==
    /\ {TicksPerToken, TicksPerSecond, MaxBuckets, SweepLimit} \subseteq Nat \ {0}
    /\ {Capacity, IdleTtl} \subseteq Nat /\ Capacity >= TicksPerToken

VARIABLES
    now,       \* Date.now(): may be set back
    elapsed,   \* the time that really passed (read by properties only)
    place,     \* per key: its place in the Map, least recently used first; 0: none
    bucket,    \* per key: its bucket, NoBucket while the key is not in the Map
    spent,     \* per key: requests allowed since the observed window began
    since,     \* per key: real time at which it began: any, or its last eviction
    due        \* per key: real time a refused client was told to come back at

limiterVars == <<now, elapsed, place, bucket, spent, since, due>>

Buckets == [tokens : 0..Capacity, refilledAt : Nat, lastUsedAt : Nat]
NoBucket == [tokens |-> Capacity, refilledAt |-> 0, lastUsedAt |-> 0]
NotDue == -1

InitLimiter ==
    /\ now = 0 /\ elapsed = 0
    /\ place = [k \in Key |-> 0]
    /\ bucket = [k \in Key |-> NoBucket]
    /\ spent = [k \in Key |-> 0]
    /\ since = [k \in Key |-> 0]
    /\ due = [k \in Key |-> NotDue]

Tracked == {k \in Key : place[k] # 0}

(* What a bucket earned since it was last looked at; nothing while the     *)
(* clock is behind.                                                        *)
Refill(b, at) ==
    IF at <= b.refilledAt THEN b
    ELSE [b EXCEPT !.tokens = IF @ + at - b.refilledAt <= Capacity
                              THEN @ + at - b.refilledAt ELSE Capacity,
                   !.refilledAt = at]

(* collectIdle(): of the oldest buckets, the idle and full ones are        *)
(* dropped and the rest refilled.                                          *)
Inspected == {k \in Key : place[k] \in 1..SweepLimit}

CollectibleWhenUnused(k) == k \in Inspected /\ now - bucket[k].lastUsedAt >= IdleTtl

Collectible(k) ==
    /\ k \in Inspected
    /\ Refill(bucket[k], now).tokens >= Capacity
    /\ now - bucket[k].lastUsedAt >= IdleTtl

Remaining == {k \in Tracked : ~Collectible(k)}

Oldest(set) == {k \in set : \A x \in set : place[k] <= place[x]}

EvictedLate(k) ==
    IF k \notin Remaining /\ Cardinality(Remaining) > MaxBuckets THEN Oldest(Remaining) ELSE {}

(* A key that is not known evicts the least recently used at the cap.      *)
Evicted(k) ==
    IF k \notin Remaining /\ Cardinality(Remaining) >= MaxBuckets THEN Oldest(Remaining) ELSE {}

Current(k) ==
    IF k \in Remaining THEN Refill(bucket[k], now)
    ELSE [tokens |-> Capacity, refilledAt |-> now, lastUsedAt |-> now]

RetryAfterRounded(b) ==
    LET wait == (TicksPerToken - b.tokens) \div TicksPerSecond IN IF wait < 1 THEN 1 ELSE wait

(* Seconds until the next token, rounded up, at least one.                 *)
RetryAfter(b) ==
    LET wait == (TicksPerToken - b.tokens + TicksPerSecond - 1) \div TicksPerSecond
    IN  IF wait < 1 THEN 1 ELSE wait

Allowed(k) == Current(k).tokens >= TicksPerToken

(* The keys in set move up, and k comes last.                              *)
MovedToEnd(set, k) ==
    [x \in Key |-> IF x = k THEN Cardinality(set) + 1
                   ELSE IF x \in set THEN Cardinality({y \in set : place[y] <= place[x]}) ELSE 0]

(* check(): the Map is swept, the key becomes the most recent one, and a   *)
(* token is taken if there is one.                                         *)
Check(k) ==
    LET out == Evicted(k)
        kept == Remaining \ ({k} \cup out)
        current == Current(k)
        allowed == Allowed(k)
    IN
    /\ place' = MovedToEnd(kept, k)
    /\ bucket' = [x \in Key |->
         IF x = k THEN [current EXCEPT !.lastUsedAt = now,
                                       !.tokens = IF allowed THEN @ - TicksPerToken ELSE @]
         ELSE IF x \notin kept THEN NoBucket
         ELSE IF x \in Inspected THEN Refill(bucket[x], now) ELSE bucket[x]]
    /\ spent' = [x \in Key |-> IF x \in out THEN 0
                               ELSE IF x = k /\ allowed THEN spent[x] + 1 ELSE spent[x]]
    /\ since' = [x \in Key |-> IF x \in out THEN elapsed ELSE since[x]]
    /\ due' = [due EXCEPT ![k] = IF allowed \/ now < current.refilledAt THEN NotDue
                                 ELSE elapsed + RetryAfter(current) * TicksPerSecond]
    /\ UNCHANGED <<now, elapsed>>

(* Time passes; a new window may be observed from here on.                 *)
Tick ==
    /\ now' = now + 1 /\ elapsed' = elapsed + 1
    /\ \/ UNCHANGED <<spent, since>>
       \/ spent' = [k \in Key |-> 0] /\ since' = [k \in Key |-> elapsed + 1]
    /\ UNCHANGED <<place, bucket, due>>

(* The wall clock is set back: what refused clients were told no longer    *)
(* holds.                                                                  *)
SetBack ==
    /\ \E t \in 0..(now - 1) : now' = t
    /\ due' = [k \in Key |-> NotDue]
    /\ UNCHANGED <<elapsed, place, bucket, spent, since>>

-----------------------------------------------------------------------------
(* In no window of time more requests than the capacity and what that time *)
(* has earned, however the clock is set back and idle buckets come and go, *)
(* unless the client is evicted in between by MaxBuckets others.  (A clock *)
(* stepped forward would earn a bucket what no time did.)                  *)
GrantsBounded ==
    \A k \in Key : spent[k] * TicksPerToken <= Capacity + elapsed - since[k]

(* A client that waits as long as Retry-After told it is served.  A clock  *)
(* that is set back stops the refill, and with it what the client was told *)
(* until the clock has caught up.                                          *)
RetryAfterHonoured ==
    \A k \in Key : due[k] # NotDue /\ elapsed >= due[k] => Allowed(k)

(* At most MaxBuckets keys are tracked, each at a place of its own.        *)
BucketsBounded ==
    /\ Cardinality(Tracked) <= MaxBuckets
    /\ \A j, k \in Tracked : place[j] = place[k] => j = k
=============================================================================
