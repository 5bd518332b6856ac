----------------------------- MODULE RobotsCache -----------------------------
(***************************************************************************)
(* checkRobots() of packages/core/src/robots.ts: concurrent checks share a *)
(* bounded cache of parsed files.  Two that miss fetch twice.              *)
(***************************************************************************)
EXTENDS RobotsRules, FiniteSetsExt

CONSTANTS
    Check,      \* concurrent calls
    Origin,
    Sites,      \* what sites serve: per origin, a file and what replaces it
    Ttl,        \* ROBOTS_CACHE_TTL_MS
    FetchTime,  \* the longest a fetch takes
    MaxCached,  \* MAX_CACHED_ORIGINS
    MaxNow      \* bound of the model on the clock

ASSUME CacheAssumption ==
    /\ Origin # {} /\ {Ttl, FetchTime, MaxNow} \subseteq Nat /\ MaxCached \in Nat \ {0}
    /\ \A s \in Sites : \A o \in Origin :
         s[o].before \in Seq(Lines) /\ s[o].after \in Seq(Lines)

VARIABLES
    now,
    site,     \* what the origins serve before and after they change it
    changed,  \* when an origin changed its file; Never if not yet
    failed,   \* per origin: when a fetch last failed (read by properties only)
    order,    \* keys of robotsCache in insertion order
    entry,    \* per origin: its cached rules, meaningful while it is a key
    check     \* per call: see Checks

robotsVars == <<now, site, changed, failed, order, entry, check>>

Never == -1
NoFile == <<>>

Absent == [rules |-> <<>>, at |-> 0]

Checks == [phase : {"idle", "fetching", "fetched"}, origin : Origin, since : Nat,
           file : Seq(Lines)]

Idle == [phase |-> "idle", origin |-> CHOOSE o \in Origin : TRUE, since |-> 0, file |-> NoFile]

RobotsInit ==
    /\ now = 0
    /\ site \in Sites
    /\ changed = [o \in Origin |-> Never]
    /\ failed = [o \in Origin |-> Never]
    /\ order = <<>>
    /\ entry = [o \in Origin |-> Absent]
    /\ check = [c \in Check |-> Idle]

Fresh(o) == o \in ToSet(order) /\ now - entry[o].at < Ttl

(* What the cache does not answer is fetched.  An answer from the cache    *)
(* changes nothing: VerdictIsRecent reads it off the entry.                *)
StartFetch(c, o) ==
    /\ check[c].phase = "idle" /\ ~Fresh(o)
    /\ check' = [check EXCEPT ![c] = [phase |-> "fetching", origin |-> o, since |-> now,
                                     file |-> NoFile]]
    /\ UNCHANGED <<now, site, changed, failed, order, entry>>

Serves(o) == IF changed[o] = Never THEN site[o].before ELSE site[o].after

(* The origin answers.  No answer, an error status and an empty body are   *)
(* all a file without rules.                                               *)
Fetched(c) ==
    /\ check[c].phase = "fetching"
    /\ LET o == check[c].origin IN
       \/ /\ check' = [check EXCEPT ![c].phase = "fetched", ![c].file = Serves(o)]
          /\ UNCHANGED failed
       \/ /\ check' = [check EXCEPT ![c].phase = "fetched"]
          /\ failed' = [failed EXCEPT ![o] = now]
    /\ UNCHANGED <<now, site, changed, order, entry>>

MakeRoomLate(o) == IF Len(order) > MaxCached THEN Tail(order) ELSE order

(* At the cap the first origin goes, even if this one is in the cache.     *)
MakeRoom(o) == IF Len(order) >= MaxCached THEN Tail(order) ELSE order

(* The rules are parsed and cached: a known origin keeps its place.        *)
Store(c) ==
    LET o == check[c].origin
        room == MakeRoom(o)
    IN  /\ check[c].phase = "fetched"
        /\ order' = IF o \in ToSet(room) THEN room ELSE Append(room, o)
        /\ entry' = [p \in Origin |->
              IF p = o THEN [rules |-> Parse(check[c].file), at |-> now]
              ELSE IF p \in ToSet(room) THEN entry[p] ELSE Absent]
        /\ check' = [check EXCEPT ![c] = Idle]
        /\ UNCHANGED <<now, site, changed, failed>>

Change(o) ==
    /\ changed[o] = Never /\ site[o].before # site[o].after
    /\ changed' = [changed EXCEPT ![o] = now]
    /\ UNCHANGED <<now, site, failed, order, entry, check>>

Tick ==
    /\ now < MaxNow
    /\ \A c \in Check : check[c].phase # "idle" => now - check[c].since < FetchTime
    /\ now' = now + 1
    /\ UNCHANGED <<site, changed, failed, order, entry, check>>

RobotsNext ==
    \/ \E c \in Check :
         \/ \E o \in Origin : StartFetch(c, o)
         \/ Fetched(c) \/ Store(c)
    \/ \E o \in Origin : Change(o)
    \/ Tick

RobotsSpec == RobotsInit /\ [][RobotsNext]_robotsVars

-----------------------------------------------------------------------------
(* Files an origin has served lately.                                      *)
Recent(o) ==
    {Serves(o)} \cup (IF changed[o] # Never /\ now - changed[o] <= Ttl + FetchTime
                      THEN {site[o].before} ELSE {})

(* Whatever is answered from the cache, in whatever order fetches return:  *)
(* a path is refused only if a file the origin served within the cache's   *)
(* lifetime and the length of a fetch refuses it, and allowed only if such *)
(* a file allows it or a fetch failed within that time.                    *)
VerdictIsRecent ==
    \A o \in Origin, path \in Path :
      Fresh(o) =>
        LET allowed == PathAllowed(entry[o].rules, path) IN
        \/ \E file \in Recent(o) : Ambiguous(file) \/ Says(file, path) = allowed
        \/ allowed /\ failed[o] # Never /\ now - failed[o] <= Ttl + FetchTime

(* The cache does not outgrow its cap, and knows an origin once.           *)
CacheIsBounded == Len(order) <= MaxCached /\ IsInjective(order)
=============================================================================
