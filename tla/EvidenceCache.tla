---------------------------- MODULE EvidenceCache ----------------------------
(***************************************************************************)
(* The SQLite cache of extracted sources (packages/cache/src/              *)
(* sqlite-cache.ts).  node:sqlite is synchronous, so every method runs to  *)
(* completion in one step although it returns a promise; a method called   *)
(* on a closed cache throws before it changes anything and is not a step.  *)
(*                                                                         *)
(* A row is reduced to its three timestamps: retrievedAt is what the       *)
(* caller reports as provenance and stands for the content, storedAt       *)
(* decides eviction, expiresAt decides whether the row may be served.      *)
(* Keys are natural numbers because eviction breaks ties by key order.     *)
(***************************************************************************)
EXTENDS Naturals, FiniteSets

CONSTANTS
    Key,         \* normalised URLs, in the order of SQLite's key column
    Ttl,         \* ttlSeconds: validity of a record that has no expiresAt
    Bounds,      \* the values CACHE_MAX_ENTRIES may have at a start
    FileBacked,  \* FALSE for ":memory:"
    MaxTime,     \* bound of the model: the clock stops here
    Absent,      \* a field the caller left out
    Nothing      \* the null of a miss

ASSUME CacheAssumption ==
    /\ Key \subseteq Nat
    /\ Ttl \in Nat
    /\ Bounds # {} /\ Bounds \subseteq Nat
    /\ FileBacked \in BOOLEAN
    /\ MaxTime \in Nat
    /\ Absent \notin Nat
    /\ Nothing \notin Key \cup [retrievedAt : Nat, storedAt : Nat, expiresAt : Nat]

VARIABLES
    rows,        \* the entries table: a function on the keys present
    now,         \* the wall clock
    open,        \* FALSE once close() has run
    maxEntries,  \* the bound this process was started with
    last,        \* the last call: its kind, its key, the row that went out or in
    removed      \* what the last cleanup() returned

vars == <<rows, now, open, maxEntries, last, removed>>

Row == [retrievedAt : Nat, storedAt : Nat, expiresAt : Nat]

NoCall == [op |-> "none", key |-> Nothing, row |-> Nothing]

Empty == [k \in {} |-> Nothing]

Keep(table, keys) == [k \in DOMAIN table \cap keys |-> table[k]]

Live(table, time) == {k \in DOMAIN table : table[k].expiresAt > time}

(* ORDER BY storedAt DESC, key DESC: does row j come before row k?         *)
Newer(table, j, k) ==
    \/ table[j].storedAt > table[k].storedAt
    \/ table[j].storedAt = table[k].storedAt /\ j > k

Rank(table, k) == Cardinality({j \in DOMAIN table : Newer(table, j, k)})

Newest(table, n) == {k \in DOMAIN table : Rank(table, k) < n}

OldestInstead(table, n) ==
    Keep(table, {k \in DOMAIN table : Cardinality({j \in DOMAIN table : Newer(table, k, j)}) < n})

OneTooMany(table, n) == Keep(table, Newest(table, n + 1))

(* enforceMaxEntries(): delete all but the newest n rows, expired or not.  *)
Evict(table, n) == Keep(table, Newest(table, n))

(* What a caller may hand to set().  The service stores what it has just   *)
(* retrieved with storedAt = now and expiresAt = now + TTL; the interface  *)
(* also takes records without the two optional fields, records stored      *)
(* earlier and records that are over already.                              *)
Input(time) ==
    [retrievedAt : 0..time,
     storedAt    : {Absent} \cup 0..time,
     expiresAt   : {Absent, time, time + Ttl}]

Init ==
    /\ rows = Empty
    /\ now = 0
    /\ open = TRUE
    /\ maxEntries \in Bounds
    /\ last = NoCall
    /\ removed = 0

-----------------------------------------------------------------------------
(* The timestamps set() fills in.                                          *)
Stamped(record, time) ==
    LET stored == IF record.storedAt = Absent THEN time ELSE record.storedAt IN
    [retrievedAt |-> record.retrievedAt,
     storedAt    |-> stored,
     expiresAt   |-> IF record.expiresAt = Absent THEN stored + Ttl ELSE record.expiresAt]

UpsertKeepingOld(table, k, row) ==
    [j \in DOMAIN table \cup {k} |-> IF j \in DOMAIN table THEN table[j] ELSE row]

Upsert(table, k, row) ==
    [j \in DOMAIN table \cup {k} |-> IF j = k THEN row ELSE table[j]]

(* get(): the row, unless it is missing, expired, or its payload cannot be *)
(* parsed.                                                                 *)
Get(k) ==
    /\ open
    /\ \E row \in {Nothing} \cup {rows[j] : j \in {k} \cap Live(rows, now)} :
         last' = [op |-> "get", key |-> k, row |-> row]
    /\ UNCHANGED <<rows, now, open, maxEntries, removed>>

(* set(): upsert under the key, then trim the table.                       *)
Set(k, record) ==
    /\ open
    /\ rows' = Evict(Upsert(rows, k, Stamped(record, now)), maxEntries)
    /\ last' = [op |-> "set", key |-> k, row |-> Stamped(record, now)]
    /\ UNCHANGED <<now, open, maxEntries, removed>>

(* delete(): a missing key is not an error.                                *)
Delete(k) ==
    /\ open
    /\ rows' = Keep(rows, DOMAIN rows \ {k})
    /\ last' = [op |-> "delete", key |-> k, row |-> Nothing]
    /\ UNCHANGED <<now, open, maxEntries, removed>>

(* cleanup(): drop the expired rows, trim the rest, return both counts.    *)
Cleanup ==
    /\ open
    /\ LET live == Keep(rows, Live(rows, now))
           kept == Evict(live, maxEntries)
       IN  /\ rows' = kept
           /\ removed' = Cardinality(DOMAIN rows \ DOMAIN live)
                         + Cardinality(DOMAIN live \ DOMAIN kept)
    /\ last' = [op |-> "cleanup", key |-> Nothing, row |-> Nothing]
    /\ UNCHANGED <<now, open, maxEntries>>

(* close(): idempotent.  A process that dies leaves the same file behind.  *)
Close ==
    /\ open' = FALSE
    /\ UNCHANGED <<rows, now, maxEntries, last, removed>>

(* A new process opens the file, perhaps configured with another bound.    *)
(* Opening does not trim: rows beyond the bound stay until a write.        *)
Open ==
    /\ ~open
    /\ open' = TRUE
    /\ maxEntries' \in Bounds
    /\ rows' = IF FileBacked THEN rows ELSE Empty
    /\ last' = NoCall
    /\ removed' = 0
    /\ UNCHANGED now

Tick ==
    /\ now < MaxTime
    /\ now' = now + 1
    /\ UNCHANGED <<rows, open, maxEntries, last, removed>>

Next ==
    \/ \E k \in Key : Get(k) \/ Delete(k)
    \/ \E k \in Key, record \in Input(now) : Set(k, record)
    \/ Cleanup
    \/ Close
    \/ Open
    \/ Tick

Spec == Init /\ [][Next]_vars

-----------------------------------------------------------------------------
TypeOK ==
    /\ DOMAIN rows \subseteq Key
    /\ rows \in [DOMAIN rows -> Row]
    /\ now \in Nat
    /\ open \in BOOLEAN
    /\ maxEntries \in Bounds
    /\ last \in [op : {"none", "get", "set", "delete", "cleanup"},
                key : Key \cup {Nothing}, row : Row \cup {Nothing}]
    /\ removed \in Nat

(* Every write leaves the table within the bound of the running process,   *)
(* even when it was opened on a file that a larger bound had filled.       *)
WritesRestoreBound ==
    [][last'.op \in {"set", "cleanup"} /\ rows' # rows
       => Cardinality(DOMAIN rows') <= maxEntries]_vars

(* A set() drops another row only when the table is full afterwards, and   *)
(* keeps no row older than the one it drops.                               *)
SetEvictsOldestOnly ==
    [][last'.op = "set" /\ rows' # rows =>
         \A dropped \in (DOMAIN rows \ DOMAIN rows') \ {last'.key} :
           /\ Cardinality(DOMAIN rows') >= maxEntries
           /\ \A kept \in DOMAIN rows' : rows'[kept].storedAt >= rows[dropped].storedAt]_vars

(* cleanup() returns exactly the number of rows that disappeared and       *)
(* leaves no expired row behind.                                           *)
CleanupExact ==
    [][last'.op = "cleanup" /\ rows' # rows =>
         /\ DOMAIN rows' \subseteq Live(rows, now)
         /\ removed' = Cardinality(DOMAIN rows) - Cardinality(DOMAIN rows')]_vars

(* Implementation of EvidenceStore: the table is the map, eviction, expiry *)
(* and restarts are forgetting.                                            *)
Held == [k \in Key |-> IF k \in DOMAIN rows THEN rows[k] ELSE Nothing]

Store == INSTANCE EvidenceStore WITH
    Record <- Row, latest <- Held

ImplementsStore == Store!Spec
=============================================================================
