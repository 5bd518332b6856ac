------------------------- MODULE EvidenceServiceProofs -------------------------
(***************************************************************************)
(* EvidenceService for any requests, URLs, redirects and limits: its       *)
(* semaphore, the service around it, and the budget for ranking.           *)
(***************************************************************************)
EXTENDS EvidenceService, FiniteSetTheorems, FunctionTheorems, SequenceTheorems, TLAPS

(* CountIsExact and NoLostWakeup of the semaphore.                         *)
Counted == active = Cardinality(Sem!In("holding"))

Promised == queue # <<>> => active + Cardinality(Sem!In("woken")) >= MaxConcurrentFetches

(* Only finitely many calls are inside the fetch or about to enter it.     *)
FiniteUse == IsFiniteSet(Sem!In("holding")) /\ IsFiniteSet(Sem!In("woken"))

(* The inductive invariant.  CountIsExact needs QueueHoldsTheSuspended: a  *)
(* release moves the head of the queue, and only because the head is a     *)
(* suspended source is it not counted already.                             *)
SemInv ==
    /\ Sem!TypeOK
    /\ Sem!QueueHoldsTheSuspended
    /\ FiniteUse
    /\ Counted
    /\ Promised

(* A request that has not arrived has no task.                             *)
NotStarted == \A r \in Request, u \in Url : answer[r] = "waiting" => task[<<r, u>>].at = "off"

(* A task that has started is one of its request's targets.                *)
Targeted == \A t \in Task : task[t].at # "off" => t[2] \in targets[t[1]]

(* An entry of the cache is found under the URL its content came from.     *)
CachedUnderFinal == \A u \in Url : cached[u] # Nothing => cached[u].final = u

(* What is being ranked or stored was fetched in this request.             *)
RankedIsFetched == \A t \in Task :
    task[t].at \in {"ranking", "ready"} => task[t].source \in SourceRecord /\ ~task[t].source.fromCache

IInv ==
    /\ TypeOK
    /\ SemInv
    /\ SlotsReturned
    /\ NotStarted
    /\ Targeted
    /\ RankedIsFetched
    /\ CachedUnderFinal
    /\ HitIsTheRequestedPage

-----------------------------------------------------------------------------
(* The calls of the semaphore keep its invariant.                          *)
LEMMA SemInitInv == Sem!Init => SemInv
<1> SUFFICES ASSUME Sem!Init PROVE SemInv
  OBVIOUS
<1>1. Sem!TypeOK /\ queue = <<>> /\ Len(queue) = 0
  BY EmptySeq DEF Sem!Init, Sem!TypeOK, Sem!Positions
<1>2. \A s \in Task : slot[s] = "outside"
  BY DEF Sem!Init
<1>3. Sem!In("holding") = {} /\ Sem!In("woken") = {}
  BY <1>2 DEF Sem!In
<1>4. Sem!QueueHoldsTheSuspended
  BY <1>1, <1>2 DEF Sem!QueueHoldsTheSuspended
<1>5. FiniteUse /\ Counted /\ Promised
  BY <1>1, <1>3, FS_EmptySet DEF Sem!Init, FiniteUse, Counted, Promised
<1> QED
  BY <1>1, <1>4, <1>5 DEF SemInv

(* Taking a slot at once or suspending at the end of the queue.            *)
LEMMA SemAcquireInv ==
  ASSUME SemInv, NEW s \in Task, Sem!Acquire(s)
  PROVE  SemInv'
<1> USE ServiceAssumption DEF ServiceAssumption
<1>0. Sem!TypeOK /\ Sem!QueueHoldsTheSuspended /\ FiniteUse /\ Counted /\ Promised
  BY DEF SemInv
<1>a. slot[s] = "outside" /\ slot \in [Task -> Sem!Positions]
  BY <1>0 DEF Sem!Acquire, Sem!TypeOK
<1>b. Cardinality(Sem!In("woken")) \in Nat
  BY <1>0, FS_CardinalityType DEF FiniteUse
<1>1. CASE /\ active < MaxConcurrentFetches
           /\ active' = active + 1
           /\ slot' = [slot EXCEPT ![s] = "holding"]
           /\ UNCHANGED queue
  <2>1. Sem!In("holding")' = Sem!In("holding") \cup {s} /\ s \notin Sem!In("holding")
    BY <1>1, <1>a DEF Sem!In, Sem!Positions
  <2>2. Sem!In("woken")' = Sem!In("woken")
    BY <1>1, <1>a DEF Sem!In, Sem!Positions
  <2>3. Sem!TypeOK'
    BY <1>0, <1>1, <1>a DEF Sem!TypeOK, Sem!Positions
  <2>4. Sem!QueueHoldsTheSuspended'
    BY <1>0, <1>1, <1>a DEF Sem!QueueHoldsTheSuspended, Sem!Positions
  <2>5. FiniteUse' /\ Counted'
    BY <1>0, <1>1, <2>1, <2>2, FS_AddElement DEF FiniteUse, Counted
  <2>6. Promised'
    BY <1>0, <1>1, <1>b, <2>2 DEF Promised, Sem!TypeOK
  <2> QED
    BY <2>3, <2>4, <2>5, <2>6 DEF SemInv
<1>2. CASE /\ active >= MaxConcurrentFetches
           /\ queue' = Append(queue, s)
           /\ slot' = [slot EXCEPT ![s] = "queued"]
           /\ UNCHANGED active
  <2>1. Sem!In("holding")' = Sem!In("holding") /\ Sem!In("woken")' = Sem!In("woken")
    BY <1>2, <1>a DEF Sem!In, Sem!Positions
  <2>2. /\ queue' \in Seq(Task)
        /\ Len(queue') = Len(queue) + 1
        /\ \A i \in 1..Len(queue) : queue'[i] = queue[i]
        /\ queue'[Len(queue) + 1] = s
        /\ Len(queue) \in Nat
    BY <1>0, <1>2 DEF Sem!TypeOK
  <2>3. Sem!TypeOK'
    BY <1>0, <1>2, <1>a, <2>2 DEF Sem!TypeOK, Sem!Positions
  <2>4. \A i \in 1..Len(queue) : queue[i] # s
    BY <1>0, <1>a DEF Sem!QueueHoldsTheSuspended
  <2>5. \A i, j \in 1..Len(queue') : queue'[i] = queue'[j] => i = j
    <3> SUFFICES ASSUME NEW i \in 1..Len(queue'), NEW j \in 1..Len(queue'),
                        queue'[i] = queue'[j]
                 PROVE  i = j
      OBVIOUS
    <3>1. (i \in 1..Len(queue) \/ i = Len(queue) + 1) /\ (j \in 1..Len(queue) \/ j = Len(queue) + 1)
      BY <2>2
    <3> QED
      BY <3>1, <2>2, <2>4, <1>0 DEF Sem!QueueHoldsTheSuspended
  <2>6. ASSUME NEW u \in Task
        PROVE  slot'[u] = "queued" <=> \E i \in 1..Len(queue') : queue'[i] = u
    <3>1. CASE u = s
      BY <3>1, <1>2, <1>a, <2>2
    <3>2. CASE u # s
      <4>1. slot'[u] = slot[u]
        BY <3>2, <1>2, <1>a
      <4>2. (\E i \in 1..Len(queue') : queue'[i] = u) <=> \E i \in 1..Len(queue) : queue[i] = u
        BY <3>2, <2>2
      <4> QED
        BY <4>1, <4>2, <1>0 DEF Sem!QueueHoldsTheSuspended
    <3> QED
      BY <3>1, <3>2
  <2>7. Sem!QueueHoldsTheSuspended'
    BY <2>5, <2>6 DEF Sem!QueueHoldsTheSuspended
  <2>8. FiniteUse' /\ Counted'
    BY <1>0, <1>2, <2>1 DEF FiniteUse, Counted
  <2>9. Promised'
    BY <1>0, <1>2, <1>b, <2>1 DEF Promised, Sem!TypeOK
  <2> QED
    BY <2>3, <2>7, <2>8, <2>9 DEF SemInv
<1> QED
  BY <1>1, <1>2 DEF Sem!Acquire

(* A woken call counts itself: it leaves "woken" as it enters "holding",   *)
(* so the sum NoLostWakeup speaks of is unchanged.                         *)
LEMMA SemResumeInv ==
  ASSUME SemInv, NEW s \in Task, Sem!Resume(s)
  PROVE  SemInv'
<1>0. Sem!TypeOK /\ Sem!QueueHoldsTheSuspended /\ FiniteUse /\ Counted /\ Promised
  BY DEF SemInv
<1>a. slot[s] = "woken" /\ slot \in [Task -> Sem!Positions]
  BY <1>0 DEF Sem!Resume, Sem!TypeOK
<1>1. Sem!In("holding")' = Sem!In("holding") \cup {s} /\ s \notin Sem!In("holding")
  BY <1>a DEF Sem!In, Sem!Resume, Sem!Positions
<1>2. Sem!In("woken")' = Sem!In("woken") \ {s} /\ s \in Sem!In("woken")
  BY <1>a DEF Sem!In, Sem!Resume, Sem!Positions
<1>3. Sem!TypeOK'
  BY <1>0, <1>a DEF Sem!TypeOK, Sem!Resume, Sem!Positions
<1>4. Sem!QueueHoldsTheSuspended'
  BY <1>0, <1>a DEF Sem!QueueHoldsTheSuspended, Sem!Resume, Sem!Positions
<1>5. FiniteUse' /\ Counted'
  BY <1>0, <1>1, <1>2, FS_AddElement, FS_RemoveElement
     DEF FiniteUse, Counted, Sem!Resume
<1>6. Cardinality(Sem!In("woken")') = Cardinality(Sem!In("woken")) - 1 /\ Cardinality(Sem!In("woken")) \in Nat
  BY <1>0, <1>2, FS_RemoveElement, FS_CardinalityType DEF FiniteUse
<1>7. Promised'
  BY <1>0, <1>6, ServiceAssumption DEF ServiceAssumption, Promised, Sem!TypeOK, Sem!Resume
<1> QED
  BY <1>3, <1>4, <1>5, <1>7 DEF SemInv

(* A release with nobody waiting, and one that wakes the oldest waiter.    *)
LEMMA SemReleaseInv ==
  ASSUME SemInv, NEW s \in Task, Sem!Release(s)
  PROVE  SemInv'
<1>0. Sem!TypeOK /\ Sem!QueueHoldsTheSuspended /\ FiniteUse /\ Counted /\ Promised
  BY DEF SemInv
<1>a. slot[s] = "holding" /\ slot \in [Task -> Sem!Positions] /\ active' = active - 1
  BY <1>0 DEF Sem!Release, Sem!TypeOK
<1>b. /\ s \in Sem!In("holding")
      /\ IsFiniteSet(Sem!In("holding") \ {s})
      /\ Cardinality(Sem!In("holding") \ {s}) = active - 1
      /\ Cardinality(Sem!In("holding") \ {s}) \in Nat
  BY <1>0, <1>a, FS_RemoveElement, FS_CardinalityType DEF Sem!In, FiniteUse, Counted
<1>1. CASE /\ queue = <<>>
           /\ slot' = [slot EXCEPT ![s] = "outside"]
           /\ UNCHANGED queue
  <2>1. Sem!In("holding")' = Sem!In("holding") \ {s}
    BY <1>1, <1>a DEF Sem!In, Sem!Positions
  <2>2. Sem!In("woken")' = Sem!In("woken")
    BY <1>1, <1>a DEF Sem!In, Sem!Positions
  <2>3. Sem!TypeOK'
    BY <1>0, <1>1, <1>a, <1>b DEF Sem!TypeOK, Sem!Positions
  <2>4. Sem!QueueHoldsTheSuspended'
    BY <1>0, <1>1, <1>a DEF Sem!QueueHoldsTheSuspended, Sem!Positions
  <2>5. FiniteUse' /\ Counted'
    BY <1>0, <1>a, <1>b, <2>1, <2>2 DEF FiniteUse, Counted
  <2>6. Promised'
    BY <1>1 DEF Promised
  <2> QED
    BY <2>3, <2>4, <2>5, <2>6 DEF SemInv
<1>2. CASE /\ queue # <<>>
           /\ queue' = Tail(queue)
           /\ slot' = [slot EXCEPT ![s] = "outside", ![Head(queue)] = "woken"]
  <2> DEFINE h == Head(queue)
  <2>1. /\ h \in Task
        /\ queue' \in Seq(Task)
        /\ Len(queue) \in Nat \ {0}
        /\ Len(queue') = Len(queue) - 1
        /\ h = queue[1]
        /\ \A i \in 1..Len(queue') : queue'[i] = queue[i + 1]
    BY <1>0, <1>2, HeadTailProperties, EmptySeq DEF Sem!TypeOK
  <2>2. slot[h] = "queued" /\ h # s
    BY <1>0, <1>a, <2>1 DEF Sem!QueueHoldsTheSuspended
  <2>a. \A u \in Task : slot'[u] = IF u = h THEN "woken" ELSE IF u = s THEN "outside" ELSE slot[u]
    BY <1>2, <1>a, <2>1, <2>2
  <2>3. Sem!In("holding")' = Sem!In("holding") \ {s}
    BY <2>a, <2>1, <2>2, <1>a DEF Sem!In
  <2>4. Sem!In("woken")' = Sem!In("woken") \cup {h} /\ h \notin Sem!In("woken")
    BY <2>a, <2>1, <2>2, <1>a DEF Sem!In
  <2>5. Sem!TypeOK'
    BY <1>0, <1>2, <1>a, <1>b, <2>1 DEF Sem!TypeOK, Sem!Positions
  <2>6. \A i, j \in 1..Len(queue') : queue'[i] = queue'[j] => i = j
    <3> SUFFICES ASSUME NEW i \in 1..Len(queue'), NEW j \in 1..Len(queue'),
                        queue'[i] = queue'[j]
                 PROVE  i = j
      OBVIOUS
    <3>1. i + 1 \in 1..Len(queue) /\ j + 1 \in 1..Len(queue) /\ queue[i + 1] = queue[j + 1]
      BY <2>1
    <3>2. i + 1 = j + 1
      BY <3>1, <1>0 DEF Sem!QueueHoldsTheSuspended
    <3> QED
      BY <3>2
  <2>7. ASSUME NEW u \in Task
        PROVE  slot'[u] = "queued" <=> \E i \in 1..Len(queue') : queue'[i] = u
    <3>1. (\E i \in 1..Len(queue') : queue'[i] = u) <=> \E i \in 2..Len(queue) : queue[i] = u
      <4>1. ASSUME NEW i \in 1..Len(queue'), queue'[i] = u
            PROVE  \E k \in 2..Len(queue) : queue[k] = u
        <5>1. i + 1 \in 2..Len(queue) /\ queue[i + 1] = u
          BY <4>1, <2>1
        <5> QED
          BY <5>1
      <4>2. ASSUME NEW i \in 2..Len(queue), queue[i] = u
            PROVE  \E k \in 1..Len(queue') : queue'[k] = u
        <5>1. i - 1 \in 1..Len(queue') /\ queue'[i - 1] = u
          BY <4>2, <2>1
        <5> QED
          BY <5>1
      <4> QED
        BY <4>1, <4>2
    <3>2. slot[u] = "queued" <=> \E i \in 1..Len(queue) : queue[i] = u
      BY <1>0 DEF Sem!QueueHoldsTheSuspended
    <3>3. CASE u = h
      <4>1. \A i \in 2..Len(queue) : queue[i] # h
        BY <2>1, <1>0 DEF Sem!QueueHoldsTheSuspended
      <4> QED
        BY <3>1, <3>3, <4>1, <2>a
    <3>4. CASE u # h
      <4>1. (\E i \in 2..Len(queue) : queue[i] = u) <=> \E i \in 1..Len(queue) : queue[i] = u
        BY <3>4, <2>1
      <4>2. slot'[u] = "queued" <=> slot[u] = "queued"
        BY <3>4, <2>a, <1>a
      <4> QED
        BY <3>1, <3>2, <4>1, <4>2
    <3> QED
      BY <3>3, <3>4
  <2>8. Sem!QueueHoldsTheSuspended'
    BY <2>6, <2>7 DEF Sem!QueueHoldsTheSuspended
  <2>9. FiniteUse' /\ Counted'
    <3>1. IsFiniteSet(Sem!In("holding")') /\ Cardinality(Sem!In("holding")') = active'
      BY <1>a, <1>b, <2>3
    <3>2. IsFiniteSet(Sem!In("woken")')
      BY <1>0, <2>4, FS_AddElement DEF FiniteUse
    <3> QED
      BY <3>1, <3>2 DEF FiniteUse, Counted
  <2>10. Cardinality(Sem!In("woken")') = Cardinality(Sem!In("woken")) + 1 /\ Cardinality(Sem!In("woken")) \in Nat
    BY <1>0, <2>4, FS_AddElement, FS_CardinalityType DEF FiniteUse
  <2>11. Promised'
    BY <1>0, <1>2, <1>a, <2>10, ServiceAssumption DEF ServiceAssumption, Promised, Sem!TypeOK
  <2> QED
    BY <2>5, <2>8, <2>9, <2>11 DEF SemInv
<1> QED
  BY <1>1, <1>2 DEF Sem!Release

(* The instance counts with a Cardinality of its own, defined alike.       *)
LEMMA SemCardinality == ASSUME NEW S PROVE Sem!Cardinality(S) = Cardinality(S)
BY DEF Sem!Cardinality, Cardinality

LEMMA SemCounts == SemInv => CountIsExact /\ NoLostWakeup
BY SemCardinality DEF CountIsExact, NoLostWakeup, SemInv, Counted, Promised, Sem!CountIsExact, Sem!NoLostWakeup

-----------------------------------------------------------------------------
(* The semaphore inside the service.                                       *)
LEMMA SemInit == Init => SemInv
BY SemInitInv DEF Init

LEMMA SemAcquire ==
  ASSUME SemInv, NEW t \in Task, Sem!Acquire(t)
  PROVE  /\ SemInv'
         /\ slot'[t] # "outside"
         /\ \A d \in Task \ {t} : slot'[d] = slot[d]
<1>1. slot \in [Task -> Sem!Positions]
  BY DEF SemInv, Sem!TypeOK
<1>2. SemInv'
  BY SemAcquireInv
<1>3. slot' = [slot EXCEPT ![t] = "holding"] \/ slot' = [slot EXCEPT ![t] = "queued"]
  BY DEF Sem!Acquire
<1> QED
  BY <1>1, <1>2, <1>3

LEMMA SemResume ==
  ASSUME SemInv, NEW t \in Task, Sem!Resume(t)
  PROVE  /\ SemInv'
         /\ \A d \in Task : slot'[d] = "outside" <=> slot[d] = "outside"
<1>1. slot \in [Task -> Sem!Positions]
  BY DEF SemInv, Sem!TypeOK
<1>2. SemInv'
  BY SemResumeInv
<1>3. slot[t] = "woken" /\ slot' = [slot EXCEPT ![t] = "holding"]
  BY DEF Sem!Resume
<1> QED
  BY <1>1, <1>2, <1>3

(* Releasing takes the task out and lets nobody else out.                  *)
LEMMA SemRelease ==
  ASSUME SemInv, NEW t \in Task, Sem!Release(t)
  PROVE  /\ SemInv'
         /\ slot'[t] = "outside"
         /\ \A d \in Task \ {t} : slot'[d] = "outside" <=> slot[d] = "outside"
<1>1. slot \in [Task -> Sem!Positions] /\ queue \in Seq(Task) /\ slot[t] = "holding"
  BY DEF SemInv, Sem!TypeOK, Sem!Release
<1>2. SemInv'
  BY SemReleaseInv
<1>3. CASE slot' = [slot EXCEPT ![t] = "outside"]
  BY <1>1, <1>2, <1>3
<1>4. CASE queue # <<>> /\ slot' = [slot EXCEPT ![t] = "outside", ![Head(queue)] = "woken"]
  <2>1. Head(queue) = queue[1] /\ 1 \in 1..Len(queue) /\ Head(queue) \in Task
    BY <1>1, <1>4
  <2>2. slot[Head(queue)] = "queued"
    BY <2>1 DEF SemInv, Sem!QueueHoldsTheSuspended
  <2> QED
    BY <1>1, <1>2, <1>4, <2>1, <2>2
<1> QED
  BY <1>3, <1>4 DEF Sem!Release

LEMMA SemStutter == SemInv /\ UNCHANGED semVars => SemInv'
BY DEF semVars, SemInv, Sem!TypeOK, Sem!QueueHoldsTheSuspended, FiniteUse, Counted, Promised, Sem!In

-----------------------------------------------------------------------------
(* Types of what the code computes.                                        *)
LEMMA FailedSourceType ==
  ASSUME NEW final \in Url \cup {Nothing}
  PROVE  /\ FailedSource(final) \in SourceRecord
         /\ FailedSource(final).status = 0
         /\ ~FailedSource(final).fromCache
BY DEF FailedSource, SourceRecord

LEMMA FailuresType ==
  ASSUME NEW t \in Task, NEW failed \in Failures(t)
  PROVE  failed \in SourceRecord /\ failed.status = 0 /\ ~failed.fromCache
<1>1. PICK final \in {Nothing} \cup Landing[t[2]] : failed = FailedSource(final)
  BY DEF Failures
<1>2. final \in Url \cup {Nothing}
  BY ServiceAssumption DEF ServiceAssumption, Task
<1> QED
  BY <1>1, <1>2, FailedSourceType

LEMMA PoolType == ASSUME TypeOK PROVE Pool \in Nat
BY ServiceAssumption DEF ServiceAssumption, TypeOK, Pool, Min2, Max2

LEMMA FetchedType ==
  ASSUME TypeOK, NEW final \in Url, NEW status \in {200, 404}, NEW matching \in Matching
  PROVE  /\ Fetched(final, status, matching) \in SourceRecord
         /\ ~Fetched(final, status, matching).fromCache
         /\ Fetched(final, status, matching).passages \in Nat
<1>1. matching \in Nat
  BY ServiceAssumption DEF ServiceAssumption
<1>2. Min2(matching, Pool) \in Nat
  BY <1>1, PoolType DEF Min2
<1> QED
  BY <1>1, <1>2 DEF Fetched, SourceRecord

(* The share of a source is a natural number of candidates.                *)
LEMMA AffordableType == ASSUME NEW n \in Nat PROVE Affordable(n) \in Nat
<1>1. Max2(1, n) \in Nat \ {0} /\ Budget \in Nat
  BY ServiceAssumption DEF ServiceAssumption, Max2
<1>2. ASSUME NEW b \in Nat, NEW k \in Nat \ {0} PROVE b \div k \in Nat
  BY <1>2, SMT
<1> QED
  BY <1>1, <1>2 DEF Affordable

LEMMA ResetType ==
  ASSUME NEW n \in Nat, ResetBudget(n)
  PROVE  perSource' \in Nat /\ budgetLeft' \in Int
BY AffordableType, ServiceAssumption DEF ResetBudget, ServiceAssumption

LEMMA DisturbsType ==
  ASSUME TypeOK, NEW r \in Request, Disturbs(r)
  PROVE  disturbed' \subseteq Request
BY DEF TypeOK, Disturbs, Running

Record == [at : Stages, source : SourceRecord \cup {Nothing}, cost : Nat]

(* What moving one task does to the invariants that speak of all of them.  *)
LEMMA TaskMoves ==
  ASSUME IInv, NEW t \in Task, NEW record \in Record,
         task[t].at \notin {"off", "done"}, record.at # "off",
         record.source # Nothing /\ record.source.fromCache => record.source.final = t[2],
         record.at \in {"ranking", "ready"}
           => record.source \in SourceRecord /\ ~record.source.fromCache,
         task' = [task EXCEPT ![t] = record],
         UNCHANGED <<answer, targets>>
  PROVE  /\ task' \in [Task -> Record]
         /\ task'[t] = record
         /\ \A d \in Task \ {t} : task'[d] = task[d]
         /\ NotStarted' /\ Targeted' /\ RankedIsFetched' /\ HitIsTheRequestedPage'
<1>1. TypeOK /\ NotStarted /\ HitIsTheRequestedPage
  BY DEF IInv
<1>2. task \in [Task -> Record]
  BY <1>1 DEF TypeOK, Record
<1>3. \A d \in Task : task'[d] = IF d = t THEN record ELSE task[d]
  BY <1>2
<1>4. task' \in [Task -> Record]
  BY <1>2
<1>5. \A r \in Request, u \in Url : <<r, u>> \in Task
  BY DEF Task
<1>6. NotStarted'
  BY <1>1, <1>3, <1>5 DEF NotStarted
<1>8. HitIsTheRequestedPage'
  BY <1>1, <1>3 DEF HitIsTheRequestedPage
<1>10. Targeted'
  BY <1>3 DEF IInv, Targeted
<1>13. RankedIsFetched'
  BY <1>3 DEF IInv, RankedIsFetched
<1> QED
  BY <1>3, <1>4, <1>6, <1>8, <1>10, <1>13

(* Ending a task, or moving it on, in terms of its new record.             *)
LEMMA TaskRecords ==
  ASSUME TypeOK, NEW t \in Task
  PROVE  /\ task[t] \in Record
         /\ \A at \in Stages :
              /\ [task[t] EXCEPT !.at = at] \in Record
              /\ [task[t] EXCEPT !.at = at].at = at
              /\ [task[t] EXCEPT !.at = at].source = task[t].source
              /\ [task[t] EXCEPT !.at = at].cost = task[t].cost
         /\ \A source \in SourceRecord :
              LET ended == [task[t] EXCEPT !.at = "done", !.source = source]
              IN  /\ ended \in Record /\ ended.at = "done" /\ ended.source = source
                  /\ ended.cost = task[t].cost
         /\ \A source : Done(t, source) =>
              task' = [task EXCEPT ![t] = [task[t] EXCEPT !.at = "done", !.source = source]]
         /\ \A at : task' = [task EXCEPT ![t].at = at] =>
              task' = [task EXCEPT ![t] = [task[t] EXCEPT !.at = at]]
<1>1. task[t] \in Record
  BY DEF TypeOK, Record
<1>2. \A at \in Stages :
        /\ [task[t] EXCEPT !.at = at] \in Record
        /\ [task[t] EXCEPT !.at = at].at = at
        /\ [task[t] EXCEPT !.at = at].source = task[t].source
        /\ [task[t] EXCEPT !.at = at].cost = task[t].cost
  BY <1>1 DEF Record
<1>3. ASSUME NEW source \in SourceRecord
      PROVE  LET ended == [task[t] EXCEPT !.at = "done", !.source = source]
             IN  /\ ended \in Record /\ ended.at = "done" /\ ended.source = source
                 /\ ended.cost = task[t].cost
  BY <1>1 DEF Record, Stages
<1>4. \A source : Done(t, source) =>
        task' = [task EXCEPT ![t] = [task[t] EXCEPT !.at = "done", !.source = source]]
  BY Zenon DEF Done
<1>5. \A at : task' = [task EXCEPT ![t].at = at] =>
        task' = [task EXCEPT ![t] = [task[t] EXCEPT !.at = at]]
  BY Zenon
<1> QED
  BY <1>1, <1>2, <1>3, <1>4, <1>5

-----------------------------------------------------------------------------
LEMMA InitIInv == Init => IInv
<1> SUFFICES ASSUME Init PROVE IInv
  OBVIOUS
<1>1. SemInv
  BY SemInit
<1>2. Idle \in Record /\ Idle.at = "off" /\ Idle.source = Nothing
  BY DEF Idle, Record, Stages
<1>3. task = [t \in Task |-> Idle]
  BY DEF Init
<1>4. TypeOK
  BY <1>2, <1>3, ServiceAssumption DEF Init, TypeOK, Record, ServiceAssumption
<1>5. \A t \in Task : task[t].at = "off" /\ task[t].source = Nothing
  BY <1>2, <1>3
<1>6. \A r \in Request, u \in Url : <<r, u>> \in Task
  BY DEF Task
<1>7. SlotsReturned
  BY <1>5 DEF Init, Sem!Init, SlotsReturned
<1>8. NotStarted /\ Targeted
  BY <1>5, <1>6 DEF NotStarted, Targeted
<1>9. CachedUnderFinal /\ HitIsTheRequestedPage
  BY <1>5 DEF Init, CachedUnderFinal, HitIsTheRequestedPage
<1>10. RankedIsFetched
  BY <1>5 DEF RankedIsFetched
<1> QED
  BY <1>1, <1>4, <1>7, <1>8, <1>9, <1>10 DEF IInv

LEMMA RejectIInv ==
  ASSUME IInv, NEW r \in Request, Reject(r)
  PROVE  IInv'
<1>1. TypeOK /\ answer[r] = "waiting"
  BY DEF IInv, Reject
<1>2. answer' = [answer EXCEPT ![r] = "INVALID_REQUEST"]
      /\ UNCHANGED <<targets, task, cached>> /\ UNCHANGED semVars
  BY DEF Reject
<1>3. perSource' \in Nat /\ budgetLeft' \in Int /\ disturbed' \subseteq Request
  <2>1. CASE UNCHANGED <<perSource, budgetLeft, disturbed>>
    BY <1>1, <2>1 DEF TypeOK
  <2>2. ASSUME NEW count \in {0} \cup (MaxUrls + 1)..MaxSupplied, ResetBudget(count), Disturbs(r)
        PROVE  perSource' \in Nat /\ budgetLeft' \in Int /\ disturbed' \subseteq Request
    <3>1. count \in Nat
      BY ServiceAssumption DEF ServiceAssumption
    <3> QED
      BY <1>1, <2>2, <3>1, ResetType, DisturbsType
  <2> QED
    BY <2>1, <2>2 DEF Reject
<1>4. TypeOK'
  BY <1>1, <1>2, <1>3 DEF TypeOK, Endings
<1>5. SemInv'
  BY <1>2, SemStutter DEF IInv
<1>6. /\ SlotsReturned' /\ RankedIsFetched' /\ CachedUnderFinal' /\ HitIsTheRequestedPage'
      /\ Targeted'
  BY <1>2 DEF IInv, semVars, SlotsReturned, RankedIsFetched, CachedUnderFinal,
     HitIsTheRequestedPage, Targeted
<1>7. NotStarted'
  <2>1. answer'[r] = "INVALID_REQUEST" /\ \A s \in Request \ {r} : answer'[s] = answer[s]
    BY <1>1, <1>2 DEF TypeOK
  <2> QED
    BY <1>2, <2>1 DEF IInv, NotStarted
<1> QED
  BY <1>4, <1>5, <1>6, <1>7 DEF IInv

LEMMA HitType ==
  ASSUME NEW source \in SourceRecord
  PROVE  /\ [source EXCEPT !.fromCache = TRUE] \in SourceRecord
         /\ [source EXCEPT !.fromCache = TRUE].final = source.final
BY DEF SourceRecord

(* A hit is taken from the cache, where it lies under its own final URL.   *)
LEMMA StartIInv ==
  ASSUME IInv, NEW r \in Request, NEW count \in 1..MaxUrls,
         NEW chosen \in (SUBSET Asked[r]) \ {{}}, Start(r, count, chosen)
  PROVE  IInv'
<1>1. TypeOK /\ answer[r] = "waiting" /\ NotStarted
  BY DEF IInv, Start
<1>2. /\ answer' = [answer EXCEPT ![r] = "running"]
      /\ targets' = [targets EXCEPT ![r] = chosen]
      /\ UNCHANGED cached /\ UNCHANGED semVars
  BY DEF Start
<1>3. perSource' \in Nat /\ budgetLeft' \in Int /\ disturbed' \subseteq Request
  BY <1>1, ResetType, DisturbsType, ServiceAssumption DEF Start, ServiceAssumption
<1>a. chosen \subseteq Url
  BY ServiceAssumption DEF ServiceAssumption
<1>4. PICK throwing \in SUBSET chosen :
        task' = [t \in Task |->
           IF t[1] = r /\ t[2] \in chosen
           THEN [at |-> "lookup", cost |-> 0,
                 source |-> IF t[2] \notin throwing /\ cached[t[2]] # Nothing
                            THEN [cached[t[2]] EXCEPT !.fromCache = TRUE]
                            ELSE Nothing]
           ELSE task[t]]
  BY DEF Start
<1>5. \A u \in Url : cached[u] # Nothing =>
        /\ [cached[u] EXCEPT !.fromCache = TRUE] \in SourceRecord
        /\ [cached[u] EXCEPT !.fromCache = TRUE].final = u
  <2>1. \A u \in Url : cached[u] # Nothing => cached[u] \in SourceRecord /\ cached[u].final = u
    BY <1>1 DEF IInv, TypeOK, CachedUnderFinal
  <2> QED
    BY <2>1, HitType
<1>6. ASSUME NEW t \in Task
      PROVE  /\ task'[t] \in Record
             /\ \/ task'[t] = task[t]
                \/ task[t].at = "off" /\ task'[t].at = "lookup" /\ t[1] = r
             /\ task'[t].source # Nothing /\ task'[t].source.fromCache
                  => task'[t].source.final = t[2]
  <2>1. t[2] \in Url /\ task[t] \in Record
    BY <1>1 DEF Task, TypeOK, Record
  <2>2. CASE t[1] = r /\ t[2] \in chosen
    <3>1. task'[t].at = "lookup" /\ task'[t] \in Record
      BY <1>4, <1>5, <2>1, <2>2 DEF Record, Stages
    <3>2. t = <<r, t[2]>>
      BY <2>2 DEF Task
    <3>3. task[t].at = "off"
      BY <1>1, <2>1, <3>2 DEF NotStarted
    <3>4. task'[t].source # Nothing => task'[t].source.final = t[2]
      BY <1>4, <1>5, <2>1, <2>2
    <3> QED
      BY <2>2, <3>1, <3>3, <3>4
  <2>3. CASE ~(t[1] = r /\ t[2] \in chosen)
    <3>1. task'[t] = task[t]
      BY <1>4, <2>3
    <3> QED
      BY <2>1, <3>1 DEF IInv, HitIsTheRequestedPage
  <2> QED
    BY <2>2, <2>3
<1>7. task' \in [Task -> Record]
  BY <1>4, <1>6
<1>8. TypeOK'
  BY <1>1, <1>2, <1>3, <1>a, <1>7 DEF TypeOK, Record
<1>9. SemInv'
  BY <1>2, SemStutter DEF IInv
<1>10. SlotsReturned' /\ RankedIsFetched' /\ CachedUnderFinal' /\ HitIsTheRequestedPage'
  BY <1>2, <1>6 DEF IInv, semVars, SlotsReturned, RankedIsFetched, CachedUnderFinal, HitIsTheRequestedPage
<1>11. /\ \A s \in Request : s # r => answer'[s] = answer[s] /\ targets'[s] = targets[s]
       /\ answer'[r] = "running"
       /\ \A s \in Request, u \in Url : s # r => task'[<<s, u>>] = task[<<s, u>>]
  BY <1>1, <1>2, <1>4 DEF TypeOK, Task
<1>12. NotStarted'
  BY <1>11 DEF IInv, NotStarted
<1>13. ASSUME NEW t \in Task, task'[t].at # "off"
      PROVE  t[2] \in targets'[t[1]]
  <2>1. CASE t[1] = r /\ t[2] \in chosen
    BY <1>1, <1>2, <2>1 DEF TypeOK
  <2>2. CASE ~(t[1] = r /\ t[2] \in chosen)
    <3>1. t[1] \in Request /\ t[2] \in Url /\ t = <<t[1], t[2]>>
      BY DEF Task
    <3>2. task'[t] = task[t]
      BY <1>4, <2>2
    <3>3. t[1] # r
      BY <1>1, <1>13, <3>1, <3>2 DEF NotStarted
    <3> QED
      BY <1>11, <1>13, <3>1, <3>2, <3>3 DEF IInv, Targeted
  <2> QED
    BY <2>1, <2>2
<1> QED
  BY <1>8, <1>9, <1>10, <1>12, <1>13 DEF IInv, Targeted

(* A step that moves task t and leaves the cache and the budget alone.     *)
LEMMA MoveIInv ==
  ASSUME IInv, NEW t \in Task, NEW record \in Record,
         task[t].at \notin {"off", "done"}, record.at \notin {"off", "ranking", "ready"},
         record.source # Nothing /\ record.source.fromCache => record.source.final = t[2],
         task' = [task EXCEPT ![t] = record],
         UNCHANGED <<answer, targets, cached, budgetLeft, perSource, disturbed>>,
         SemInv', SlotsReturned'
  PROVE  IInv'
<1>1. /\ task' \in [Task -> Record]
      /\ NotStarted' /\ Targeted' /\ RankedIsFetched' /\ HitIsTheRequestedPage'
  BY TaskMoves
<1>2. TypeOK'
  BY <1>1 DEF IInv, TypeOK, Record
<1>3. CachedUnderFinal'
  BY DEF IInv, CachedUnderFinal
<1> QED
  BY <1>1, <1>2, <1>3 DEF IInv

(* The slots of the other tasks are untouched by their neighbour's move.   *)
LEMMA SlotsStay ==
  ASSUME IInv, NEW t \in Task, NEW record \in Record,
         task' = [task EXCEPT ![t] = record],
         record.at = "fetch" <=> slot'[t] # "outside",
         \A d \in Task \ {t} : slot'[d] = "outside" <=> slot[d] = "outside"
  PROVE  SlotsReturned'
<1>1. task \in [Task -> Record]
  BY DEF IInv, TypeOK, Record
<1>2. task'[t] = record /\ \A d \in Task \ {t} : task'[d] = task[d]
  BY <1>1
<1> QED
  BY <1>2 DEF IInv, SlotsReturned

LEMMA LookupEndsIInv ==
  ASSUME IInv, NEW t \in Task, LookupEnds(t)
  PROVE  IInv'
<1>1. TypeOK /\ SemInv /\ SlotsReturned /\ HitIsTheRequestedPage /\ task[t].at = "lookup"
  BY DEF IInv, LookupEnds
<1>2. slot[t] = "outside"
  BY <1>1 DEF SlotsReturned
<1>3. UNCHANGED <<answer, targets, cached, budgetLeft, perSource, disturbed>>
  BY DEF LookupEnds
<1>4. CASE task[t].source # Nothing /\ Done(t, task[t].source) /\ UNCHANGED semVars
  <2> DEFINE record == [task[t] EXCEPT !.at = "done", !.source = task[t].source]
  <2>1. task[t].source \in SourceRecord
    BY <1>1, <1>4, TaskRecords DEF Record
  <2>2. /\ record \in Record /\ record.at = "done" /\ record.source = task[t].source
        /\ task' = [task EXCEPT ![t] = record]
    BY <1>1, <1>4, <2>1, TaskRecords
  <2>3. record.source # Nothing /\ record.source.fromCache => record.source.final = t[2]
    BY <1>1, <2>2 DEF HitIsTheRequestedPage
  <2>4. SemInv' /\ SlotsReturned'
    <3> HIDE DEF record
    <3>1. UNCHANGED slot
      BY <1>4 DEF semVars
    <3> QED
      BY <1>1, <1>2, <1>4, <2>2, <3>1, SemStutter, SlotsStay
  <2> HIDE DEF record
  <2> QED
    BY <1>1, <1>3, <2>2, <2>3, <2>4, MoveIInv
<1>5. CASE /\ task[t].source = Nothing /\ task' = [task EXCEPT ![t].at = "robots"]
           /\ UNCHANGED semVars
  <2> DEFINE record == [task[t] EXCEPT !.at = "robots"]
  <2>1. /\ record \in Record /\ record.at = "robots" /\ record.source = Nothing
        /\ task' = [task EXCEPT ![t] = record]
    BY <1>1, <1>5, TaskRecords DEF Stages
  <2> HIDE DEF record
  <2>2. UNCHANGED slot
    BY <1>5 DEF semVars
  <2>3. SemInv' /\ SlotsReturned'
    BY <1>1, <1>2, <1>5, <2>1, <2>2, SemStutter, SlotsStay
  <2> QED
    BY <1>1, <1>3, <2>1, <2>3, MoveIInv
<1>6. CASE /\ task[t].source = Nothing /\ task' = [task EXCEPT ![t].at = "fetch"]
           /\ Sem!Acquire(t)
  <2> DEFINE record == [task[t] EXCEPT !.at = "fetch"]
  <2>1. /\ record \in Record /\ record.at = "fetch" /\ record.source = Nothing
        /\ task' = [task EXCEPT ![t] = record]
    BY <1>1, <1>6, TaskRecords DEF Stages
  <2> HIDE DEF record
  <2>2. SemInv' /\ slot'[t] # "outside" /\ \A d \in Task \ {t} : slot'[d] = slot[d]
    BY <1>1, <1>6, SemAcquire
  <2>3. SlotsReturned'
    BY <2>1, <2>2, SlotsStay
  <2> QED
    BY <1>1, <1>3, <2>1, <2>2, <2>3, MoveIInv
<1> QED
  BY <1>4, <1>5, <1>6 DEF LookupEnds

(* Done() gives the task a record that is done and holds the source.       *)
LEMMA DoneRecord ==
  ASSUME TypeOK, NEW t \in Task, NEW source \in SourceRecord, Done(t, source)
  PROVE  \E record \in Record :
           /\ record.at = "done" /\ record.source = source /\ record.cost = task[t].cost
           /\ task' = [task EXCEPT ![t] = record]
<1> DEFINE record == [task[t] EXCEPT !.at = "done", !.source = source]
<1>1. /\ record \in Record /\ record.at = "done" /\ record.source = source
      /\ record.cost = task[t].cost
  BY TaskRecords
<1>2. task' = [task EXCEPT ![t] = record]
  BY TaskRecords
<1> HIDE DEF record
<1> QED
  BY <1>1, <1>2

LEMMA RobotsEndsIInv ==
  ASSUME IInv, NEW t \in Task, RobotsEnds(t)
  PROVE  IInv'
<1>1. TypeOK /\ SemInv /\ SlotsReturned /\ task[t].at = "robots"
  BY DEF IInv, RobotsEnds
<1>2. slot[t] = "outside"
  BY <1>1 DEF SlotsReturned
<1>3. UNCHANGED <<answer, targets, cached, budgetLeft, perSource, disturbed>>
  BY DEF RobotsEnds
<1>4. CASE Done(t, FailedSource(Nothing)) /\ UNCHANGED semVars
  <2> DEFINE failed == FailedSource(Nothing)
  <2>1. failed \in SourceRecord /\ ~failed.fromCache
    BY FailedSourceType DEF Task
  <2>2. PICK record \in Record :
         /\ record.at = "done" /\ record.source = failed
         /\ task' = [task EXCEPT ![t] = record]
    BY <1>1, <1>4, <2>1, DoneRecord
  <2> HIDE DEF failed
  <2>3. UNCHANGED slot
    BY <1>4 DEF semVars
  <2>4. SemInv' /\ SlotsReturned'
    BY <1>1, <1>2, <1>4, <2>2, <2>3, SemStutter, SlotsStay
  <2> QED
    BY <1>1, <1>3, <2>1, <2>2, <2>4, MoveIInv
<1>5. CASE task' = [task EXCEPT ![t].at = "fetch"] /\ Sem!Acquire(t)
  <2> DEFINE record == [task[t] EXCEPT !.at = "fetch"]
  <2>1. /\ record \in Record /\ record.at = "fetch" /\ record.source = task[t].source
        /\ task' = [task EXCEPT ![t] = record]
    BY <1>1, <1>5, TaskRecords DEF Stages
  <2> HIDE DEF record
  <2>2. SemInv' /\ slot'[t] # "outside" /\ \A d \in Task \ {t} : slot'[d] = slot[d]
    BY <1>1, <1>5, SemAcquire
  <2>3. SlotsReturned'
    BY <2>1, <2>2, SlotsStay
  <2> QED
    BY <1>1, <1>3, <2>1, <2>2, <2>3, MoveIInv DEF IInv, HitIsTheRequestedPage
<1> QED
  BY <1>4, <1>5 DEF RobotsEnds

LEMMA SlotGrantedIInv ==
  ASSUME IInv, NEW t \in Task, SlotGranted(t)
  PROVE  IInv'
<1>1. UNCHANGED <<answer, targets, task, cached, budgetLeft, perSource, disturbed>> /\ Sem!Resume(t)
  BY DEF SlotGranted
<1>2. SemInv' /\ \A d \in Task : slot'[d] = "outside" <=> slot[d] = "outside"
  BY <1>1, SemResume DEF IInv
<1>3. SlotsReturned'
  BY <1>1, <1>2 DEF IInv, SlotsReturned
<1> QED
  BY <1>1, <1>2, <1>3 DEF IInv, TypeOK, NotStarted, Targeted, RankedIsFetched,
     CachedUnderFinal, HitIsTheRequestedPage

LEMMA FetchFailsIInv ==
  ASSUME IInv, NEW t \in Task, FetchFails(t)
  PROVE  IInv'
<1>1. /\ TypeOK /\ SemInv /\ task[t].at = "fetch" /\ Sem!Release(t)
      /\ UNCHANGED <<answer, targets, cached, budgetLeft, perSource, disturbed>>
  BY DEF IInv, FetchFails
<1>2. PICK failed \in Failures(t) : Done(t, failed)
  BY DEF FetchFails
<1>3. failed \in SourceRecord /\ ~failed.fromCache
  BY FailuresType
<1>4. PICK record \in Record :
       /\ record.at = "done" /\ record.source = failed
       /\ task' = [task EXCEPT ![t] = record]
  BY <1>1, <1>2, <1>3, DoneRecord
<1>5. /\ SemInv' /\ slot'[t] = "outside"
      /\ \A d \in Task \ {t} : slot'[d] = "outside" <=> slot[d] = "outside"
  BY <1>1, SemRelease
<1>6. SlotsReturned'
  BY <1>4, <1>5, SlotsStay
<1> QED
  BY <1>1, <1>3, <1>4, <1>5, <1>6, MoveIInv

LEMMA FetchedIInv ==
  ASSUME IInv, NEW t \in Task, NEW record \in Record,
         task[t].at = "fetch", Sem!Release(t),
         record.at \in {"ranking", "ready"},
         record.source \in SourceRecord, ~record.source.fromCache,
         task' = [task EXCEPT ![t] = record], budgetLeft' \in Int,
         UNCHANGED <<answer, targets, cached, perSource, disturbed>>
  PROVE  IInv'
<1>1. /\ SemInv' /\ slot'[t] = "outside"
      /\ \A d \in Task \ {t} : slot'[d] = "outside" <=> slot[d] = "outside"
  BY SemRelease DEF IInv
<1>2. SlotsReturned'
  BY <1>1, SlotsStay
<1>3. /\ task' \in [Task -> Record]
      /\ NotStarted' /\ Targeted' /\ RankedIsFetched' /\ HitIsTheRequestedPage'
  BY TaskMoves
<1>4. TypeOK' /\ CachedUnderFinal'
  BY <1>3 DEF IInv, TypeOK, Record, CachedUnderFinal
<1> QED
  BY <1>1, <1>2, <1>3, <1>4 DEF IInv

LEMMA FetchReturnsIInv ==
  ASSUME IInv, NEW t \in Task, NEW final \in Url, NEW status \in {200, 404},
         NEW matching \in Matching, FetchReturns(t, final, status, matching)
  PROVE  IInv'
<1> DEFINE source == Fetched(final, status, matching)
<1>1. TypeOK
  BY DEF IInv
<1>2. source \in SourceRecord /\ ~source.fromCache /\ source.passages \in Nat
  BY <1>1, FetchedType
<1>3. /\ task[t].at = "fetch" /\ Sem!Release(t)
      /\ UNCHANGED <<answer, targets, cached, perSource, disturbed>>
      /\ \/ /\ Reserve(source.passages)
            /\ task' = [task EXCEPT ![t] = [at |-> "ranking", source |-> source,
                                           cost |-> source.passages]]
         \/ /\ task' = [task EXCEPT ![t] = [at |-> "ready", source |-> source, cost |-> 0]]
            /\ UNCHANGED budgetLeft
  BY DEF FetchReturns
<1> HIDE DEF source
<1>4. ASSUME NEW at \in {"ranking", "ready"}, NEW cost \in Nat,
             task' = [task EXCEPT ![t] = [at |-> at, source |-> source, cost |-> cost]]
      PROVE  IInv'
  <2> DEFINE record == [at |-> at, source |-> source, cost |-> cost]
  <2>1. record \in Record /\ record.at = at /\ record.source = source
    BY <1>2 DEF Record, Stages
  <2>2. task' = [task EXCEPT ![t] = record] /\ budgetLeft' \in Int
    BY <1>1, <1>2, <1>3, <1>4 DEF Reserve, TypeOK
  <2> HIDE DEF record
  <2> QED
    BY <1>2, <1>3, <2>1, <2>2, FetchedIInv
<1> QED
  BY <1>2, <1>3, <1>4

LEMMA RankedType ==
  ASSUME NEW source \in SourceRecord
  PROVE  LET ranked == [source EXCEPT !.passages = Min2(@, MaxEvidence)]
         IN  ranked \in SourceRecord /\ ranked.fromCache = source.fromCache
<1>1. source.passages \in Nat /\ MaxEvidence \in Nat
  BY ServiceAssumption DEF ServiceAssumption, SourceRecord
<1>2. Min2(source.passages, MaxEvidence) \in Nat
  BY <1>1 DEF Min2
<1> QED
  BY <1>2 DEF SourceRecord

(* A task that is being ranked has a source, fetched in this request.      *)
LEMMA RankingEndsIInv ==
  ASSUME IInv, NEW t \in Task, NEW elapsed \in Elapsed, RankingEnds(t, elapsed)
  PROVE  IInv'
<1> DEFINE lexical == task[t].source
           better == [lexical EXCEPT !.passages = Min2(@, MaxEvidence)]
<1>1. /\ TypeOK /\ SemInv /\ task[t].at = "ranking"
      /\ UNCHANGED <<answer, targets, cached, perSource, disturbed>> /\ UNCHANGED semVars
      /\ budgetLeft' = budgetLeft + task[t].cost - elapsed
  BY DEF IInv, RankingEnds
<1>2. lexical \in SourceRecord /\ ~lexical.fromCache
  BY <1>1 DEF IInv, RankedIsFetched
<1>3. PICK source \in {lexical, better} :
        task' = [task EXCEPT ![t] = [at |-> "ready", source |-> source, cost |-> elapsed]]
  BY DEF RankingEnds
<1>4. source \in SourceRecord /\ ~source.fromCache
  BY <1>2, RankedType
<1>5. elapsed \in Nat /\ task[t].cost \in Nat
  BY <1>1, ServiceAssumption DEF ServiceAssumption, TypeOK
<1> DEFINE record == [at |-> "ready", source |-> source, cost |-> elapsed]
<1>6. record \in Record /\ record.at = "ready" /\ record.source = source
  BY <1>4, <1>5 DEF Record, Stages
<1>7. task' = [task EXCEPT ![t] = record]
  BY <1>3
<1> HIDE DEF record, better
<1>8. /\ task' \in [Task -> Record]
      /\ NotStarted' /\ Targeted' /\ RankedIsFetched' /\ HitIsTheRequestedPage'
  BY <1>1, <1>4, <1>6, <1>7, TaskMoves
<1>9. TypeOK' /\ CachedUnderFinal'
  <2>1. budgetLeft' \in Int
    BY <1>1, <1>5 DEF TypeOK
  <2> QED
    BY <1>1, <1>8, <2>1 DEF IInv, TypeOK, Record, CachedUnderFinal
<1>10. SemInv' /\ SlotsReturned'
  <2>1. UNCHANGED slot
    BY <1>1 DEF semVars
  <2>2. slot[t] = "outside"
    BY <1>1 DEF IInv, SlotsReturned
  <2> QED
    BY <1>1, <1>6, <1>7, <2>1, <2>2, SemStutter, SlotsStay
<1> QED
  BY <1>8, <1>9, <1>10 DEF IInv

(* Storing under the final URL keeps every entry under its own.            *)
LEMMA StoreIInv ==
  ASSUME IInv, NEW t \in Task, Store(t)
  PROVE  IInv'
<1>1. /\ TypeOK /\ SemInv /\ task[t].at = "ready"
      /\ StoreUnderFinal(t) /\ Done(t, task[t].source)
      /\ UNCHANGED <<answer, targets, budgetLeft, perSource, disturbed>> /\ UNCHANGED semVars
  BY DEF IInv, Store
<1>2. PICK source \in SourceRecord : source = task[t].source /\ ~source.fromCache
  BY <1>1 DEF IInv, RankedIsFetched
<1>3. PICK record \in Record :
        /\ record.at = "done" /\ record.source = source
        /\ task' = [task EXCEPT ![t] = record]
  BY <1>1, <1>2, DoneRecord
<1>4. /\ task' \in [Task -> Record]
      /\ NotStarted' /\ Targeted' /\ RankedIsFetched' /\ HitIsTheRequestedPage'
  BY <1>1, <1>2, <1>3, TaskMoves
<1>5. cached' \in [Url -> SourceRecord \cup {Nothing}] /\ CachedUnderFinal'
  BY <1>1, <1>2 DEF IInv, TypeOK, StoreUnderFinal, CachedUnderFinal
<1>6. TypeOK'
  BY <1>1, <1>4, <1>5 DEF TypeOK, Record
<1>7. SemInv' /\ SlotsReturned'
  <2>1. UNCHANGED slot
    BY <1>1 DEF semVars
  <2>2. slot[t] = "outside"
    BY <1>1 DEF IInv, SlotsReturned
  <2> QED
    BY <1>1, <1>3, <2>1, <2>2, SemStutter, SlotsStay
<1> QED
  BY <1>4, <1>5, <1>6, <1>7 DEF IInv

LEMMA ForgetIInv ==
  ASSUME IInv, NEW u \in Url, Forget(u)
  PROVE  IInv'
<1>1. /\ cached' = [cached EXCEPT ![u] = Nothing] /\ UNCHANGED semVars
      /\ UNCHANGED <<answer, targets, task, budgetLeft, perSource, disturbed>>
  BY DEF Forget
<1>2. TypeOK' /\ CachedUnderFinal'
  BY <1>1 DEF IInv, TypeOK, CachedUnderFinal
<1>3. SemInv'
  BY <1>1, SemStutter DEF IInv
<1>4. SlotsReturned' /\ NotStarted' /\ Targeted' /\ RankedIsFetched' /\ HitIsTheRequestedPage'
  BY <1>1 DEF IInv, semVars, SlotsReturned, NotStarted, Targeted, RankedIsFetched,
     HitIsTheRequestedPage
<1> QED
  BY <1>2, <1>3, <1>4 DEF IInv

LEMMA ReplyIInv ==
  ASSUME IInv, NEW r \in Request, Reply(r)
  PROVE  IInv'
<1>1. /\ TypeOK /\ answer[r] = "running"
      /\ answer' = [answer EXCEPT ![r] =
                      IF Retrieved(r) # {} THEN "ok" ELSE "NO_SOURCES_RETRIEVED"]
      /\ UNCHANGED <<targets, task, cached, budgetLeft, perSource, disturbed>>
      /\ UNCHANGED semVars
  BY DEF IInv, Reply
<1>2. /\ answer'[r] \in {"ok", "NO_SOURCES_RETRIEVED"}
      /\ \A s \in Request \ {r} : answer'[s] = answer[s]
  BY <1>1 DEF TypeOK
<1>3. TypeOK'
  BY <1>1 DEF TypeOK, Endings
<1>4. SemInv'
  BY <1>1, SemStutter DEF IInv
<1>5. SlotsReturned' /\ RankedIsFetched' /\ CachedUnderFinal' /\ HitIsTheRequestedPage'
  BY <1>1 DEF IInv, semVars, SlotsReturned, RankedIsFetched, CachedUnderFinal, HitIsTheRequestedPage
<1>6. NotStarted' /\ Targeted'
  BY <1>1, <1>2 DEF IInv, NotStarted, Targeted
<1> QED
  BY <1>3, <1>4, <1>5, <1>6 DEF IInv

LEMMA NextIInv == IInv /\ [Next]_vars => IInv'
<1> SUFFICES ASSUME IInv, [Next]_vars PROVE IInv'
  OBVIOUS
<1>1. ASSUME NEW r \in Request, Execute(r) PROVE IInv'
  BY <1>1, RejectIInv, StartIInv DEF Execute
<1>2. ASSUME NEW r \in Request, Reply(r) PROVE IInv'
  BY <1>2, ReplyIInv
<1>3. ASSUME NEW t \in Task, Progress(t) PROVE IInv'
  <2>1. CASE \/ LookupEnds(t) \/ RobotsEnds(t) \/ SlotGranted(t) \/ FetchFails(t)
    BY <2>1, LookupEndsIInv, RobotsEndsIInv, SlotGrantedIInv, FetchFailsIInv
  <2>2. ASSUME NEW final \in Landing[t[2]], NEW status \in {200, 404}, NEW matching \in Matching,
               FetchReturns(t, final, status, matching)
        PROVE  IInv'
    <3>1. final \in Url
      BY ServiceAssumption DEF ServiceAssumption, Task
    <3> QED
      BY <2>2, <3>1, FetchReturnsIInv
  <2>3. ASSUME NEW elapsed \in Elapsed, RankingEnds(t, elapsed) PROVE IInv'
    BY <2>3, RankingEndsIInv
  <2>4. CASE Store(t)
    BY <2>4, StoreIInv
  <2> QED
    BY <1>3, <2>1, <2>2, <2>3, <2>4 DEF Progress
<1>4. ASSUME NEW u \in Url, Forget(u) PROVE IInv'
  BY <1>4, ForgetIInv
<1>5. CASE UNCHANGED vars
  <2>1. UNCHANGED <<answer, targets, task, cached, budgetLeft, perSource, disturbed, slot>>
        /\ UNCHANGED semVars
    BY <1>5 DEF vars, semVars
  <2>2. SemInv'
    BY <2>1, SemStutter DEF IInv
  <2>3. TypeOK' /\ SlotsReturned' /\ NotStarted' /\ Targeted'
    BY <2>1 DEF IInv, TypeOK, SlotsReturned, NotStarted, Targeted
  <2>4. RankedIsFetched' /\ CachedUnderFinal' /\ HitIsTheRequestedPage'
    BY <2>1 DEF IInv, RankedIsFetched, CachedUnderFinal, HitIsTheRequestedPage
  <2> QED
    BY <2>2, <2>3, <2>4 DEF IInv
<1> QED
  BY <1>1, <1>2, <1>3, <1>4, <1>5 DEF Next

LEMMA InvariantHolds == Spec => []IInv
BY InitIInv, NextIInv, PTL DEF Spec

(* The type invariant of the service.                                      *)
THEOREM TypeCorrect == Spec => []TypeOK
<1>1. IInv => TypeOK
  BY DEF IInv
<1> QED
  BY <1>1, InvariantHolds, PTL

(* processSource is inside the semaphore exactly while it fetches: on no   *)
(* path is a slot kept, or given back twice.                               *)
THEOREM EverySlotReturned == Spec => []SlotsReturned
<1>1. IInv => SlotsReturned
  BY DEF IInv
<1> QED
  BY <1>1, InvariantHolds, PTL

(* However URLs redirect to one another and whatever the cache forgets, a  *)
(* hit is the page that was asked for.                                     *)
THEOREM HitsAreRight == Spec => []HitIsTheRequestedPage
<1>1. IInv => HitIsTheRequestedPage
  BY DEF IInv
<1> QED
  BY <1>1, InvariantHolds, PTL

(* The counter of createSemaphore is the number of fetches in progress,    *)
(* for any number of overlapping requests.                                 *)
THEOREM CountExact == Spec => []CountIsExact
<1>1. IInv => SemInv
  BY DEF IInv
<1> QED
  BY <1>1, SemCounts, InvariantHolds, PTL

(* As long as a source is suspended in acquire(), every slot is in use or  *)
(* promised: no release of createSemaphore is lost.                        *)
THEOREM WakeupKept == Spec => []NoLostWakeup
<1>1. IInv => SemInv
  BY DEF IInv
<1> QED
  BY <1>1, SemCounts, InvariantHolds, PTL

(* The queue of createSemaphore holds every suspended source once: none is *)
(* woken twice and none forgotten.                                         *)
THEOREM QueueIsSound == Spec => []Sem!QueueHoldsTheSuspended
<1>1. IInv => Sem!QueueHoldsTheSuspended
  BY DEF IInv, SemInv
<1> QED
  BY <1>1, InvariantHolds, PTL

-----------------------------------------------------------------------------
(* The budget for ranking.  The units spent by a request are counted as a  *)
(* set of pairs, one per unit.                                             *)
Units(f) == UNION {{u} \X (1..f[u]) : u \in Url}

Cost(r) == [u \in Url |-> task[<<r, u>>].cost]

LEMMA ColumnSize ==
  ASSUME NEW u, NEW n \in Nat
  PROVE  IsFiniteSet({u} \X (1..n)) /\ Cardinality({u} \X (1..n)) = n
<1>1. IsFiniteSet({u}) /\ Cardinality({u}) = 1
  BY FS_Singleton
<1>2. IsFiniteSet(1..n) /\ Cardinality(1..n) = n
  BY FS_Interval
<1>3. /\ IsFiniteSet({u} \X (1..n))
      /\ Cardinality({u} \X (1..n)) = Cardinality({u}) * Cardinality(1..n)
  BY <1>1, <1>2, FS_Product
<1> QED BY <1>1, <1>2, <1>3

LEMMA UnitsFinite ==
  ASSUME NEW f \in [Url -> Nat]
  PROVE  IsFiniteSet(Units(f)) /\ Cardinality(Units(f)) \in Nat
<1> DEFINE Column(u) == {u} \X (1..f[u])
           Columns == {Column(u) : u \in Url}
           column == [u \in Url |-> Column(u)]
<1>1. IsFiniteSet(Url)
  BY ServiceAssumption DEF ServiceAssumption
<1>2. column \in Surjection(Url, Columns)
  BY DEF Surjection
<1>3. IsFiniteSet(Columns)
  <2> HIDE DEF column, Columns
  <2> QED BY <1>1, <1>2, FS_Surjection
<1>4. ASSUME NEW u \in Url PROVE IsFiniteSet(Column(u))
  <2>1. f[u] \in Nat
    OBVIOUS
  <2> QED BY <2>1, ColumnSize
<1>5. IsFiniteSet(UNION Columns)
  <2>1. \A c \in Columns : IsFiniteSet(c)
    BY <1>4
  <2> HIDE DEF Columns
  <2> QED BY <1>3, <2>1, FS_UNION
<1>6. Units(f) = UNION Columns
  BY DEF Units
<1> QED BY <1>5, <1>6, FS_CardinalityType

(* Changing what one URL has cost changes the sum by the difference.       *)
LEMMA UnitsMove ==
  ASSUME NEW f \in [Url -> Nat], NEW u \in Url, NEW n \in Nat
  PROVE  Cardinality(Units([f EXCEPT ![u] = n])) = Cardinality(Units(f)) - f[u] + n
<1> DEFINE g == [f EXCEPT ![u] = n]
           rest == Units(f) \ ({u} \X (1..f[u]))
<1>1. g \in [Url -> Nat] /\ f[u] \in Nat
  OBVIOUS
<1>2. /\ IsFiniteSet(Units(f)) /\ Cardinality(Units(f)) \in Nat
      /\ IsFiniteSet(rest) /\ Cardinality(rest) \in Nat
  BY UnitsFinite, FS_Difference, FS_CardinalityType
<1>3. /\ Units(f) = rest \cup ({u} \X (1..f[u]))
      /\ rest \cap ({u} \X (1..f[u])) = {}
  BY DEF Units
<1>4. /\ Units(g) = rest \cup ({u} \X (1..n))
      /\ rest \cap ({u} \X (1..n)) = {}
  <2>1. rest = (UNION {{v} \X (1..f[v]) : v \in Url \ {u}})
    BY DEF Units
  <2>2. Units(g) = (UNION {{v} \X (1..f[v]) : v \in Url \ {u}}) \cup ({u} \X (1..n))
    BY <1>1 DEF Units
  <2>3. (UNION {{v} \X (1..f[v]) : v \in Url \ {u}}) \cap ({u} \X (1..n)) = {}
    OBVIOUS
  <2> QED BY <2>1, <2>2, <2>3
<1> HIDE DEF rest, g
<1>5. ASSUME NEW m \in Nat, NEW S, S = rest \cup ({u} \X (1..m)), rest \cap ({u} \X (1..m)) = {}
      PROVE  Cardinality(S) = Cardinality(rest) + m
  <2>1. IsFiniteSet({u} \X (1..m)) /\ Cardinality({u} \X (1..m)) = m
    BY ColumnSize
  <2>2. Cardinality(S) = Cardinality(rest) + m - Cardinality({})
    BY <1>2, <1>5, <2>1, FS_Union
  <2> QED BY <1>2, <2>2, FS_EmptySet
<1>6. Cardinality(Units(f)) = Cardinality(rest) + f[u]
  BY <1>1, <1>3, <1>5
<1>7. Cardinality(Units(g)) = Cardinality(rest) + n
  BY <1>4, <1>5
<1> QED BY <1>1, <1>2, <1>6, <1>7 DEF g

LEMMA SpentIs ==
  ASSUME task \in [Task -> Record], NEW r \in Request
  PROVE  /\ Cost(r) \in [Url -> Nat]
         /\ Spent(r) = Cardinality(Units(Cost(r))) /\ Spent(r) \in Nat
         /\ (\A u \in Url : task[<<r, u>>].cost = 0) => Spent(r) = 0
<1>1. \A u \in Url : task[<<r, u>>].cost \in Nat
  BY DEF Task, Record
<1>2. Cost(r) \in [Url -> Nat] /\ \A u \in Url : Cost(r)[u] = task[<<r, u>>].cost
  BY <1>1 DEF Cost
<1>3. UNION {{u} \X (1..task[<<r, u>>].cost) : u \in Url} = Units(Cost(r))
  BY <1>2 DEF Units
<1>4. Spent(r) = Cardinality(Units(Cost(r)))
  BY <1>3 DEF Spent
<1>5. ASSUME \A u \in Url : task[<<r, u>>].cost = 0 PROVE Spent(r) = 0
  <2>1. \A u \in Url : Cost(r)[u] = 0
    BY <1>2, <1>5
  <2>3. 1..0 = {}
    OBVIOUS
  <2>2. Units(Cost(r)) = {}
    BY <2>1, <2>3 DEF Units
  <2> QED BY <1>4, <2>2, FS_EmptySet
<1> QED BY <1>2, <1>4, <1>5, UnitsFinite

LEMMA SpentMoves ==
  ASSUME task \in [Task -> Record], NEW t \in Task, NEW record \in Record,
         task' = [task EXCEPT ![t] = record]
  PROVE  /\ Spent(t[1])' = Spent(t[1]) - task[t].cost + record.cost
         /\ \A r \in Request \ {t[1]} : Spent(r)' = Spent(r)
<1>1. /\ t[1] \in Request /\ t[2] \in Url /\ t = <<t[1], t[2]>> /\ record.cost \in Nat
      /\ \A r \in Request, u \in Url : <<r, u>> \in Task
  BY DEF Task, Record
<1>2. task' \in [Task -> Record]
  OBVIOUS
<1>3. \A r \in Request, u \in Url :
        task'[<<r, u>>] = IF r = t[1] /\ u = t[2] THEN record ELSE task[<<r, u>>]
  <2>1. \A d \in Task : task'[d] = IF d = t THEN record ELSE task[d]
    OBVIOUS
  <2>2. \A r \in Request, u \in Url : <<r, u>> = t <=> r = t[1] /\ u = t[2]
    BY <1>1
  <2> QED BY <1>1, <2>1, <2>2
<1>4. Cost(t[1])' = [Cost(t[1]) EXCEPT ![t[2]] = record.cost]
      /\ Cost(t[1])[t[2]] = task[t].cost
  BY <1>1, <1>3 DEF Cost
<1>5. Spent(t[1])' = Cardinality(Units(Cost(t[1])')) /\ Spent(t[1]) = Cardinality(Units(Cost(t[1])))
  <2>1. UNION {{u} \X (1..task'[<<t[1], u>>].cost) : u \in Url} = Units(Cost(t[1])')
    BY <1>1, <1>3 DEF Cost, Units
  <2> QED BY <1>1, <2>1, SpentIs DEF Spent
<1>6. Cost(t[1]) \in [Url -> Nat]
  BY <1>1, SpentIs
<1>7. Cardinality(Units(Cost(t[1])')) = Cardinality(Units(Cost(t[1]))) - task[t].cost + record.cost
  BY <1>1, <1>4, <1>6, UnitsMove
<1>8. ASSUME NEW r \in Request \ {t[1]} PROVE Spent(r)' = Spent(r)
  <2>1. \A u \in Url : task'[<<r, u>>] = task[<<r, u>>]
    BY <1>3
  <2> QED BY <2>1 DEF Spent
<1> QED BY <1>5, <1>7, <1>8

(* A request that is not disturbed runs alone.                             *)
RunsAlone == \A r, s \in Request :
    answer[r] = "running" /\ r \notin disturbed /\ answer[s] = "running" => r = s

(* Only a request that runs has tasks in progress.                         *)
BusyIsRunning == \A t \in Task :
    task[t].at \notin {"off", "done"} => answer[t[1]] = "running"

(* Nothing has been spent on a source before it is ranked.                 *)
CostOfRanking == \A t \in Task :
    task[t].at \notin {"ranking", "ready", "done"} => task[t].cost = 0

NeverRanked(r) == \A u \in Url : task[<<r, u>>].at # "ranking" /\ task[<<r, u>>].cost = 0

(* While a request runs alone, the two shared fields are its own: either   *)
(* ranking is engaged, every source can afford the whole pool, and what is *)
(* left is what the request has not spent, or it is not and nothing is     *)
(* ranked.                                                                 *)
BudgetIsOwn == \A r \in Request : answer[r] = "running" /\ r \notin disturbed =>
    \/ perSource >= PoolSize /\ budgetLeft = Budget - Spent(r)
    \/ budgetLeft = 0 /\ NeverRanked(r)

(* A page fetched for such a request has the passages it would have        *)
(* unranked.                                                               *)
Kept(t, s) == s # Nothing /\ ~s.fromCache /\ t[1] \notin disturbed => Complete(s)

BudgetInv ==
    /\ RunsAlone
    /\ BusyIsRunning
    /\ CostOfRanking
    /\ BudgetIsOwn
    /\ AloneKeepsEvidence

LEMMA KeptByAll == AloneKeepsEvidence <=> \A t \in Task : Kept(t, task[t].source)
BY DEF AloneKeepsEvidence, Kept

LEMMA BudgetInit == Init => BudgetInv
<1> SUFFICES ASSUME Init PROVE BudgetInv
  OBVIOUS
<1>1. \A t \in Task : task[t] = Idle
  BY DEF Init
<1>2. \A t \in Task : task[t].at = "off" /\ task[t].source = Nothing /\ task[t].cost = 0
  BY <1>1 DEF Idle
<1>3. \A r \in Request : answer[r] = "waiting"
  BY DEF Init
<1>4. RunsAlone /\ BusyIsRunning /\ CostOfRanking /\ BudgetIsOwn
  BY <1>2, <1>3 DEF RunsAlone, BusyIsRunning, CostOfRanking, BudgetIsOwn
<1>5. AloneKeepsEvidence
  BY <1>2 DEF AloneKeepsEvidence
<1> QED BY <1>4, <1>5 DEF BudgetInv

(* What one task moves: its share of the budget with its cost.             *)
LEMMA OneTaskMoves ==
  ASSUME IInv, BudgetInv, NEW t \in Task, NEW record \in Record,
         task[t].at \notin {"off", "done"}, record.at # "off",
         task' = [task EXCEPT ![t] = record],
         UNCHANGED <<answer, targets, perSource, disturbed>>,
         budgetLeft' = budgetLeft + task[t].cost - record.cost,
         record.at \notin {"ranking", "ready", "done"} => record.cost = 0,
         \/ record.at # "ranking" /\ record.cost = 0
         \/ budgetLeft # 0 \/ task[t].at = "ranking" \/ task[t].cost # 0,
         Kept(t, record.source)
  PROVE  BudgetInv'
<1>1. task \in [Task -> Record] /\ budgetLeft \in Int /\ Budget \in Nat
  BY ServiceAssumption DEF IInv, TypeOK, Record, ServiceAssumption
<1>2. \A d \in Task : task'[d] = IF d = t THEN record ELSE task[d]
  BY <1>1
<1>3. /\ t[1] \in Request /\ t[2] \in Url /\ t = <<t[1], t[2]>>
      /\ \A r \in Request, u \in Url : <<r, u>> \in Task
      /\ \A r \in Request, u \in Url : <<r, u>> = t => r = t[1] /\ u = t[2]
      /\ record.cost \in Nat /\ task[t].cost \in Nat
  BY <1>1 DEF Task, Record
<1>4. answer[t[1]] = "running"
  BY DEF BudgetInv, BusyIsRunning
<1>5. RunsAlone' /\ BusyIsRunning' /\ CostOfRanking'
  BY <1>2, <1>4 DEF BudgetInv, RunsAlone, BusyIsRunning, CostOfRanking
<1>6. AloneKeepsEvidence'
  BY <1>2 DEF BudgetInv, AloneKeepsEvidence, Kept
<1>7. ASSUME NEW r \in Request, answer'[r] = "running", r \notin disturbed'
      PROVE  \/ perSource' >= PoolSize /\ budgetLeft' = Budget - Spent(r)'
             \/ budgetLeft' = 0 /\ NeverRanked(r)'
  <2>1. r = t[1]
    BY <1>3, <1>4, <1>7 DEF BudgetInv, RunsAlone
  <2>2. CASE perSource >= PoolSize /\ budgetLeft = Budget - Spent(r)
    <3>1. Spent(r)' = Spent(r) - task[t].cost + record.cost /\ Spent(r) \in Nat
      BY <1>1, <2>1, SpentMoves, SpentIs
    <3> HIDE DEF Spent
    <3> QED BY <1>1, <1>3, <2>2, <3>1
  <2>3. CASE budgetLeft = 0 /\ NeverRanked(r)
    <3>1. task[t].at # "ranking" /\ task[t].cost = 0
      BY <1>3, <2>1, <2>3 DEF NeverRanked
    <3>2. record.at # "ranking" /\ record.cost = 0
      BY <2>3, <3>1
    <3>3. NeverRanked(r)'
      BY <1>2, <1>3, <2>3, <3>2 DEF NeverRanked
    <3> QED BY <2>3, <3>1, <3>2, <3>3
  <2> QED BY <1>4, <1>7, <2>1, <2>2, <2>3 DEF BudgetInv, BudgetIsOwn
<1>8. BudgetIsOwn'
  BY <1>7 DEF BudgetIsOwn
<1> QED BY <1>5, <1>6, <1>8 DEF BudgetInv

(* A task moves on, or ends, with the cost it had.                         *)
LEMMA SameCostMoves ==
  ASSUME IInv, BudgetInv, NEW t \in Task, NEW record \in Record,
         task[t].at \notin {"off", "done"},
         record.at \notin {"off", "ranking"}, record.cost = task[t].cost,
         record.cost = 0 \/ record.at \in {"ready", "done"},
         task' = [task EXCEPT ![t] = record],
         UNCHANGED <<answer, targets, budgetLeft, perSource, disturbed>>,
         Kept(t, record.source)
  PROVE  BudgetInv'
<1>1. budgetLeft \in Int /\ task[t].cost \in Nat
  BY DEF IInv, TypeOK
<1>2. budgetLeft' = budgetLeft + task[t].cost - record.cost
  BY <1>1
<1>3. UNCHANGED <<answer, targets, perSource, disturbed>>
  OBVIOUS
<1>4. \/ record.at # "ranking" /\ record.cost = 0
      \/ budgetLeft # 0 \/ task[t].at = "ranking" \/ task[t].cost # 0
  OBVIOUS
<1>5. record.at \notin {"ranking", "ready", "done"} => record.cost = 0
  OBVIOUS
<1>6. record.at # "off"
  OBVIOUS
<1> QED BY <1>2, <1>3, <1>4, <1>5, <1>6, OneTaskMoves

(* While ranking is engaged for a request alone, the pool is wider than    *)
(* what is reported.                                                       *)
LEMMA PoolIsWideEnough ==
  ASSUME IInv, BudgetInv, NEW t \in Task, task[t].at = "fetch", t[1] \notin disturbed
  PROVE  Pool >= MaxEvidence
<1>1. /\ perSource \in Nat /\ budgetLeft \in Int /\ MaxEvidence \in Nat /\ PoolSize \in Nat
      /\ Reasoning => PoolSize > MaxEvidence
  BY ServiceAssumption DEF ServiceAssumption, IInv, TypeOK
<1>2. answer[t[1]] = "running" /\ t[1] \in Request
  BY DEF BudgetInv, BusyIsRunning, Task
<1>3. budgetLeft # 0 => perSource >= PoolSize
  BY <1>2 DEF BudgetInv, BudgetIsOwn
<1> QED BY <1>1, <1>3 DEF Pool, Min2, Max2

LEMMA FetchedKept ==
  ASSUME IInv, BudgetInv, NEW t \in Task, task[t].at = "fetch",
         NEW final \in Url, NEW status \in {200, 404}, NEW matching \in Matching
  PROVE  Kept(t, Fetched(final, status, matching))
<1> SUFFICES ASSUME t[1] \notin disturbed PROVE Complete(Fetched(final, status, matching))
  BY DEF Kept
<1>1. Pool >= MaxEvidence /\ Pool \in Nat /\ MaxEvidence \in Nat /\ matching \in Nat
  BY PoolIsWideEnough, PoolType, ServiceAssumption DEF IInv, ServiceAssumption
<1>2. Min2(matching, Pool) >= Min2(matching, MaxEvidence)
  BY <1>1 DEF Min2
<1>3. /\ Fetched(final, status, matching).passages = Min2(matching, Pool)
      /\ Fetched(final, status, matching).matching = matching
  BY DEF Fetched
<1> QED BY <1>2, <1>3 DEF Complete

LEMMA BudgetStutter ==
  ASSUME BudgetInv, UNCHANGED <<answer, task, budgetLeft, perSource, disturbed>>
  PROVE  BudgetInv'
<1>1. RunsAlone' /\ BusyIsRunning' /\ CostOfRanking' /\ AloneKeepsEvidence'
  BY DEF BudgetInv, RunsAlone, BusyIsRunning, CostOfRanking, AloneKeepsEvidence
<1>2. BudgetIsOwn'
  BY DEF BudgetInv, BudgetIsOwn, Spent, NeverRanked
<1> QED BY <1>1, <1>2 DEF BudgetInv

LEMMA ProgressBudget ==
  ASSUME IInv, BudgetInv, NEW t \in Task, Progress(t)
  PROVE  BudgetInv'
<1>1. TypeOK /\ task[t] \in Record /\ Kept(t, task[t].source)
  BY TaskRecords, KeptByAll DEF IInv, BudgetInv
<1>2. ASSUME NEW source \in SourceRecord, Done(t, source), Kept(t, source),
             task[t].at \notin {"off", "done"},
             UNCHANGED <<answer, targets, budgetLeft, perSource, disturbed>>
      PROVE  BudgetInv'
  <2>1. PICK record \in Record :
          /\ record.at = "done" /\ record.source = source /\ record.cost = task[t].cost
          /\ task' = [task EXCEPT ![t] = record]
    BY <1>1, <1>2, DoneRecord
  <2> QED BY <1>2, <2>1, SameCostMoves
<1>3. ASSUME NEW at \in {"robots", "fetch"}, task' = [task EXCEPT ![t].at = at],
             task[t].at \in {"lookup", "robots"},
             UNCHANGED <<answer, targets, budgetLeft, perSource, disturbed>>
      PROVE  BudgetInv'
  <2> DEFINE record == [task[t] EXCEPT !.at = at]
  <2>1. /\ record \in Record /\ record.at = at /\ record.source = task[t].source
        /\ record.cost = task[t].cost /\ task' = [task EXCEPT ![t] = record]
    <3>1. at \in Stages
      BY DEF Stages
    <3>2. task' = [task EXCEPT ![t] = record]
      BY <1>1, <1>3, TaskRecords, Zenon
    <3> QED BY <1>1, <3>1, <3>2, TaskRecords
  <2>2. task[t].cost = 0
    BY <1>3 DEF BudgetInv, CostOfRanking
  <2> HIDE DEF record
  <2> QED BY <1>1, <1>3, <2>1, <2>2, SameCostMoves
<1>4. CASE LookupEnds(t)
  <2>1. /\ task[t].at = "lookup"
        /\ UNCHANGED <<answer, targets, budgetLeft, perSource, disturbed>>
    BY <1>4 DEF LookupEnds
  <2>2. task[t].source # Nothing => task[t].source \in SourceRecord
    BY <1>1 DEF Record
  <2> QED BY <1>1, <1>2, <1>3, <1>4, <2>1, <2>2 DEF LookupEnds
<1>5. CASE RobotsEnds(t)
  <2>1. /\ task[t].at = "robots"
        /\ UNCHANGED <<answer, targets, budgetLeft, perSource, disturbed>>
    BY <1>5 DEF RobotsEnds
  <2>2. FailedSource(Nothing) \in SourceRecord /\ Kept(t, FailedSource(Nothing))
    BY FailedSourceType DEF Kept, Complete
  <2> QED BY <1>2, <1>3, <1>5, <2>1, <2>2 DEF RobotsEnds
<1>6. CASE SlotGranted(t)
  <2>1. UNCHANGED <<answer, task, budgetLeft, perSource, disturbed>>
    BY <1>6 DEF SlotGranted
  <2> QED BY <2>1, BudgetStutter
<1>7. CASE FetchFails(t)
  <2>1. /\ task[t].at = "fetch"
        /\ UNCHANGED <<answer, targets, budgetLeft, perSource, disturbed>>
    BY <1>7 DEF FetchFails
  <2>2. PICK failed \in Failures(t) : Done(t, failed)
    BY <1>7 DEF FetchFails
  <2>3. failed \in SourceRecord /\ Kept(t, failed)
    BY FailuresType DEF Kept, Complete
  <2> QED BY <1>2, <2>1, <2>2, <2>3
<1>8. ASSUME NEW final \in Landing[t[2]], NEW status \in {200, 404}, NEW matching \in Matching,
             FetchReturns(t, final, status, matching)
      PROVE  BudgetInv'
  <2> DEFINE source == Fetched(final, status, matching)
  <2>1. final \in Url
    BY ServiceAssumption DEF ServiceAssumption, Task
  <2>2. /\ task[t].at = "fetch" /\ UNCHANGED <<answer, targets, perSource, disturbed>>
        /\ \/ /\ CanRank(source.passages) /\ Reserve(source.passages)
              /\ task' = [task EXCEPT ![t] = [at |-> "ranking", source |-> source,
                                             cost |-> source.passages]]
           \/ /\ task' = [task EXCEPT ![t] = [at |-> "ready", source |-> source, cost |-> 0]]
              /\ UNCHANGED budgetLeft
    BY <1>8 DEF FetchReturns
  <2>3. source \in SourceRecord /\ Kept(t, source) /\ source.passages \in Nat
    BY <1>1, <2>1, <2>2, FetchedType, FetchedKept
  <2>4. task[t].cost = 0 /\ budgetLeft \in Int
    BY <1>1, <2>2 DEF BudgetInv, CostOfRanking, TypeOK
  <2> HIDE DEF source
  <2>5. CASE /\ CanRank(source.passages) /\ Reserve(source.passages)
             /\ task' = [task EXCEPT ![t] = [at |-> "ranking", source |-> source,
                                            cost |-> source.passages]]
    <3> DEFINE record == [at |-> "ranking", source |-> source, cost |-> source.passages]
    <3>1. /\ record \in Record /\ record.at = "ranking" /\ record.source = source
          /\ record.cost = source.passages
      BY <2>3 DEF Record, Stages
    <3>2. budgetLeft' = budgetLeft + task[t].cost - record.cost /\ budgetLeft # 0
      BY <2>3, <2>4, <2>5, <3>1 DEF Reserve, CanRank
    <3>3. task' = [task EXCEPT ![t] = record]
      BY <2>5
    <3> HIDE DEF record
    <3> QED BY <2>2, <2>3, <3>1, <3>2, <3>3, OneTaskMoves
  <2>6. CASE /\ task' = [task EXCEPT ![t] = [at |-> "ready", source |-> source, cost |-> 0]]
             /\ UNCHANGED budgetLeft
    <3> DEFINE record == [at |-> "ready", source |-> source, cost |-> 0]
    <3>1. record \in Record /\ record.at = "ready" /\ record.source = source /\ record.cost = 0
      BY <2>3 DEF Record, Stages
    <3>2. task' = [task EXCEPT ![t] = record]
      BY <2>6
    <3> HIDE DEF record
    <3>3. /\ record.cost = task[t].cost /\ record.at \notin {"off", "ranking"}
          /\ record.cost = 0 \/ record.at \in {"ready", "done"}
          /\ Kept(t, record.source) /\ task[t].at \notin {"off", "done"}
          /\ UNCHANGED <<answer, targets, budgetLeft, perSource, disturbed>>
      BY <2>2, <2>3, <2>4, <2>6, <3>1
    <3> QED BY <3>1, <3>2, <3>3, SameCostMoves
  <2> QED BY <2>2, <2>5, <2>6
<1>9. ASSUME NEW elapsed \in Elapsed, RankingEnds(t, elapsed) PROVE BudgetInv'
  <2> DEFINE lexical == task[t].source
             better == [lexical EXCEPT !.passages = Min2(@, MaxEvidence)]
  <2>1. /\ task[t].at = "ranking" /\ UNCHANGED <<answer, targets, perSource, disturbed>>
        /\ budgetLeft' = budgetLeft + task[t].cost - elapsed
    BY <1>9 DEF RankingEnds
  <2>2. PICK source \in {lexical, better} :
          task' = [task EXCEPT ![t] = [at |-> "ready", source |-> source, cost |-> elapsed]]
    BY <1>9 DEF RankingEnds
  <2>3. lexical \in SourceRecord /\ elapsed \in Nat
    BY <2>1, ServiceAssumption DEF IInv, RankedIsFetched, ServiceAssumption
  <2>4. better \in SourceRecord /\ Kept(t, better)
    <3>1. /\ lexical.passages \in Nat /\ lexical.matching \in Nat /\ MaxEvidence \in Nat
      BY <2>3, ServiceAssumption DEF SourceRecord, ServiceAssumption
    <3>2. /\ better.matching = lexical.matching /\ better.status = lexical.status
          /\ better.passages = Min2(lexical.passages, MaxEvidence)
          /\ better.fromCache = lexical.fromCache
      BY <2>3, Zenon DEF SourceRecord
    <3>3. better \in SourceRecord
      BY <2>3, RankedType
    <3>4. Complete(lexical) /\ lexical # Nothing /\ lexical.status # 0 =>
            Min2(lexical.passages, MaxEvidence) >= Min2(lexical.matching, MaxEvidence)
      BY <3>1 DEF Complete, Min2
    <3> HIDE DEF better
    <3> QED BY <1>1, <2>3, <3>2, <3>3, <3>4, NothingIsNoSource DEF Kept, Complete
  <2>5. source \in SourceRecord /\ Kept(t, source)
    BY <1>1, <2>2, <2>3, <2>4
  <2> DEFINE record == [at |-> "ready", source |-> source, cost |-> elapsed]
  <2>6. /\ record \in Record /\ record.at = "ready" /\ record.source = source
        /\ record.cost = elapsed /\ task' = [task EXCEPT ![t] = record]
    BY <2>2, <2>3, <2>5 DEF Record, Stages
  <2> HIDE DEF record, better
  <2> QED BY <2>1, <2>5, <2>6, OneTaskMoves
<1>10. CASE Store(t)
  <2>1. /\ task[t].at = "ready" /\ Done(t, task[t].source)
        /\ UNCHANGED <<answer, targets, budgetLeft, perSource, disturbed>>
    BY <1>10 DEF Store
  <2>2. task[t].source \in SourceRecord
    BY <2>1 DEF IInv, RankedIsFetched
  <2> QED BY <1>1, <1>2, <2>1, <2>2
<1> QED BY <1>4, <1>5, <1>6, <1>7, <1>8, <1>9, <1>10 DEF Progress

LEMMA ResetIs ==
  ASSUME NEW n \in Nat, ResetBudget(n)
  PROVE  (perSource' >= PoolSize /\ budgetLeft' = Budget) \/ budgetLeft' = 0
BY DEF ResetBudget

(* A request that resets the budget while others run disturbs them.        *)
LEMMA DisturbsRunning ==
  ASSUME NEW r \in Request, Disturbs(r)
  PROVE  /\ disturbed \subseteq disturbed'
         /\ Running # {} => r \in disturbed' /\ \A s \in Request : answer[s] = "running" => s \in disturbed'
         /\ Running = {} => disturbed' = disturbed /\ \A s \in Request : answer[s] # "running"
BY DEF Disturbs, Running

LEMMA RejectBudget ==
  ASSUME IInv, BudgetInv, NEW r \in Request, Reject(r)
  PROVE  BudgetInv'
<1>1. /\ answer[r] = "waiting" /\ answer' = [answer EXCEPT ![r] = "INVALID_REQUEST"]
      /\ UNCHANGED <<targets, task, cached>>
  BY DEF Reject
<1>2. answer'[r] = "INVALID_REQUEST" /\ \A s \in Request \ {r} : answer'[s] = answer[s]
  BY <1>1 DEF IInv, TypeOK
<1>3. \A s \in Request : (answer'[s] = "running" <=> answer[s] = "running")
  BY <1>1, <1>2
<1>4. /\ disturbed \subseteq disturbed'
      /\ \/ UNCHANGED <<perSource, budgetLeft, disturbed>>
         \/ \A s \in Request : answer'[s] = "running" => s \in disturbed'
  BY <1>3, DisturbsRunning DEF Reject
<1>5. RunsAlone'
  BY <1>3, <1>4 DEF BudgetInv, RunsAlone
<1>6. BudgetIsOwn'
  BY <1>1, <1>3, <1>4 DEF BudgetInv, BudgetIsOwn, Spent, NeverRanked
<1>7. BusyIsRunning' /\ CostOfRanking' /\ AloneKeepsEvidence'
  BY <1>1, <1>3, <1>4 DEF BudgetInv, BusyIsRunning, CostOfRanking, AloneKeepsEvidence, Task
<1> QED BY <1>5, <1>6, <1>7 DEF BudgetInv

LEMMA StartBudget ==
  ASSUME IInv, BudgetInv, NEW r \in Request, NEW count \in 1..MaxUrls,
         NEW chosen \in (SUBSET Asked[r]) \ {{}}, Start(r, count, chosen)
  PROVE  BudgetInv'
<1>1. /\ answer[r] = "waiting" /\ answer' = [answer EXCEPT ![r] = "running"]
      /\ ResetBudget(count) /\ Disturbs(r) /\ UNCHANGED cached
  BY DEF Start
<1>2. answer'[r] = "running" /\ \A s \in Request \ {r} : answer'[s] = answer[s]
  BY <1>1 DEF IInv, TypeOK
<1>3. PICK throwing \in SUBSET chosen :
        task' = [t \in Task |->
           IF t[1] = r /\ t[2] \in chosen
           THEN [at |-> "lookup", cost |-> 0,
                 source |-> IF t[2] \notin throwing /\ cached[t[2]] # Nothing
                            THEN [cached[t[2]] EXCEPT !.fromCache = TRUE]
                            ELSE Nothing]
           ELSE task[t]]
  BY DEF Start
<1>4. \A t \in Task : t[1] = r => task[t].at = "off" /\ task[t].cost = 0
  <2> SUFFICES ASSUME NEW t \in Task, t[1] = r PROVE task[t].at = "off" /\ task[t].cost = 0
    OBVIOUS
  <2>1. t = <<r, t[2]>> /\ t[2] \in Url
    BY DEF Task
  <2>2. task[t].at = "off"
    BY <1>1, <2>1 DEF IInv, NotStarted
  <2> QED BY <2>2 DEF BudgetInv, CostOfRanking
<1>5. ASSUME NEW t \in Task, t[1] = r
      PROVE  /\ task'[t].at \in {"off", "lookup"} /\ task'[t].cost = 0
             /\ \/ task'[t].source = task[t].source
                \/ task'[t].source # Nothing => task'[t].source.fromCache
  <2>1. CASE t[2] \in chosen
    <3>1. /\ task'[t].at = "lookup" /\ task'[t].cost = 0
          /\ task'[t].source = IF t[2] \notin throwing /\ cached[t[2]] # Nothing
                               THEN [cached[t[2]] EXCEPT !.fromCache = TRUE] ELSE Nothing
      BY <1>3, <1>5, <2>1
    <3>2. cached[t[2]] # Nothing => [cached[t[2]] EXCEPT !.fromCache = TRUE].fromCache
      <4>1. t[2] \in Url /\ (cached[t[2]] # Nothing => cached[t[2]] \in SourceRecord)
        BY DEF Task, IInv, TypeOK
      <4> QED BY <4>1 DEF SourceRecord
    <3> QED BY <3>1, <3>2
  <2>2. CASE t[2] \notin chosen
    <3>1. task'[t] = task[t]
      BY <1>3, <2>2
    <3> QED BY <1>4, <1>5, <3>1
  <2> QED BY <2>1, <2>2
<1>6. \A t \in Task : t[1] # r => task'[t] = task[t]
  BY <1>3
<1>7. /\ disturbed \subseteq disturbed'
      /\ Running # {} => \A s \in Request : answer'[s] = "running" => s \in disturbed'
      /\ Running = {} => \A s \in Request : answer'[s] = "running" => s = r
  BY <1>1, <1>2, DisturbsRunning
<1>8. RunsAlone'
  BY <1>7 DEF RunsAlone
<1>9. BusyIsRunning' /\ CostOfRanking'
  BY <1>2, <1>5, <1>6 DEF BudgetInv, BusyIsRunning, CostOfRanking, Task
<1>10. AloneKeepsEvidence'
  BY <1>5, <1>6, <1>7 DEF BudgetInv, AloneKeepsEvidence
<1>11. BudgetIsOwn'
  <2>1. NeverRanked(r)'
    <3>1. \A u \in Url : <<r, u>> \in Task /\ <<r, u>>[1] = r
      BY DEF Task
    <3> QED BY <1>5, <3>1 DEF NeverRanked
  <2>2. Spent(r)' = 0
    <3>1. UNION {{u} \X (1..task'[<<r, u>>].cost) : u \in Url} = {}
      <4>1. \A u \in Url : task'[<<r, u>>].cost = 0
        BY <2>1 DEF NeverRanked
      <4>2. 1..0 = {}
        OBVIOUS
      <4> QED BY <4>1, <4>2
    <3> QED BY <3>1, FS_EmptySet DEF Spent
  <2>3. (perSource' >= PoolSize /\ budgetLeft' = Budget) \/ budgetLeft' = 0
    BY <1>1, ResetIs, ServiceAssumption DEF ServiceAssumption
  <2>4. ASSUME NEW s \in Request, answer'[s] = "running", s \notin disturbed'
        PROVE  \/ perSource' >= PoolSize /\ budgetLeft' = Budget - Spent(s)'
               \/ budgetLeft' = 0 /\ NeverRanked(s)'
    <3>1. s = r
      BY <1>7, <2>4
    <3>2. Budget - 0 = Budget
      BY ServiceAssumption DEF ServiceAssumption
    <3> QED BY <2>1, <2>2, <2>3, <3>1, <3>2
  <2> QED BY <2>4 DEF BudgetIsOwn
<1> QED BY <1>8, <1>9, <1>10, <1>11 DEF BudgetInv

LEMMA ReplyBudget ==
  ASSUME IInv, BudgetInv, NEW r \in Request, Reply(r)
  PROVE  BudgetInv'
<1>1. /\ answer[r] = "running" /\ \A u \in targets[r] : task[<<r, u>>].at = "done"
      /\ answer' = [answer EXCEPT ![r] =
                      IF Retrieved(r) # {} THEN "ok" ELSE "NO_SOURCES_RETRIEVED"]
      /\ UNCHANGED <<targets, task, cached, budgetLeft, perSource, disturbed>>
  BY DEF Reply
<1>2. answer'[r] # "running" /\ \A s \in Request \ {r} : answer'[s] = answer[s]
  BY <1>1 DEF IInv, TypeOK
<1>3. \A s \in Request : answer'[s] = "running" => answer[s] = "running" /\ s # r
  BY <1>2
<1>4. RunsAlone' /\ BudgetIsOwn'
  BY <1>1, <1>3 DEF BudgetInv, RunsAlone, BudgetIsOwn, Spent, NeverRanked
<1>5. BusyIsRunning'
  <2> SUFFICES ASSUME NEW t \in Task, task[t].at \notin {"off", "done"} PROVE answer'[t[1]] = "running"
    BY <1>1 DEF BusyIsRunning
  <2>1. t[1] \in Request /\ t[2] \in Url /\ t = <<t[1], t[2]>>
    BY DEF Task
  <2>2. answer[t[1]] = "running" /\ t[2] \in targets[t[1]]
    BY <2>1 DEF BudgetInv, BusyIsRunning, IInv, Targeted
  <2>3. t[1] # r
    BY <1>1, <2>1, <2>2
  <2> QED BY <1>2, <2>1, <2>2, <2>3
<1>6. CostOfRanking' /\ AloneKeepsEvidence'
  BY <1>1 DEF BudgetInv, CostOfRanking, AloneKeepsEvidence
<1> QED BY <1>4, <1>5, <1>6 DEF BudgetInv

LEMMA NextBudget == IInv /\ BudgetInv /\ [Next]_vars => BudgetInv'
<1> SUFFICES ASSUME IInv, BudgetInv, [Next]_vars PROVE BudgetInv'
  OBVIOUS
<1>1. ASSUME NEW r \in Request, Execute(r) PROVE BudgetInv'
  BY <1>1, RejectBudget, StartBudget DEF Execute
<1>2. ASSUME NEW r \in Request, Reply(r) PROVE BudgetInv'
  BY <1>2, ReplyBudget
<1>3. ASSUME NEW t \in Task, Progress(t) PROVE BudgetInv'
  BY <1>3, ProgressBudget
<1>4. ASSUME NEW u \in Url, Forget(u) PROVE BudgetInv'
  BY <1>4, BudgetStutter DEF Forget
<1>5. CASE UNCHANGED vars
  BY <1>5, BudgetStutter DEF vars
<1> QED BY <1>1, <1>2, <1>3, <1>4, <1>5 DEF Next

LEMMA BudgetInvariant == Spec => [](IInv /\ BudgetInv)
<1>1. Init => IInv /\ BudgetInv
  BY InitIInv, BudgetInit
<1>2. IInv /\ BudgetInv /\ [Next]_vars => (IInv /\ BudgetInv)'
  BY NextIInv, NextBudget
<1> QED BY <1>1, <1>2, PTL DEF Spec

(* However the sources of a request overlap, ranking costs none of them a  *)
(* passage, ranked or left unranked, unless another request shared the     *)
(* budget fields of the service with it.                                   *)
THEOREM RankingKeeps == Spec => []AloneKeepsEvidence
<1>1. BudgetInv => AloneKeepsEvidence
  BY DEF BudgetInv
<1> QED BY <1>1, BudgetInvariant, PTL

LEMMA SpentIsPrimed ==
  ASSUME IInv', NEW r \in Request
  PROVE  Spent(r)' \in Nat
<1>1. task' \in [Task -> Record]
  BY DEF IInv, TypeOK, Record
<1>2. \A u \in Url : task'[<<r, u>>].cost \in Nat
  BY <1>1 DEF Task, Record
<1> DEFINE f == [u \in Url |-> task'[<<r, u>>].cost]
<1>3. f \in [Url -> Nat] /\ \A u \in Url : f[u] = task'[<<r, u>>].cost
  BY <1>2
<1> HIDE DEF f
<1>4. UNION {{u} \X (1..task'[<<r, u>>].cost) : u \in Url} = Units(f)
  BY <1>3 DEF Units
<1> QED BY <1>3, <1>4, UnitsFinite DEF Spent

(* A ranking call starts only after its estimate has been taken from what  *)
(* the request has left.                                                   *)
LEMMA RankingIsPaid ==
  IInv /\ BudgetInv /\ [Next]_vars =>
    [\A t \in Task :
       /\ task[t].at # "ranking" /\ task'[t].at = "ranking"
       /\ t[1] \notin disturbed
       => Spent(t[1])' <= Budget]_vars
<1> SUFFICES ASSUME IInv, BudgetInv, Next, NEW t \in Task,
                    task[t].at # "ranking", task'[t].at = "ranking", t[1] \notin disturbed
             PROVE  Spent(t[1])' <= Budget
  OBVIOUS
<1>1. task \in [Task -> Record] /\ budgetLeft \in Int /\ Budget \in Nat
  BY ServiceAssumption DEF IInv, TypeOK, Record, ServiceAssumption
<1>2. BudgetInv' /\ IInv'
  BY NextBudget, NextIInv
<1>3. answer'[t[1]] = "running" /\ t[1] \in Request /\ t[2] \in Url /\ t = <<t[1], t[2]>>
  BY <1>2 DEF BudgetInv, BusyIsRunning, Task
<1>4. ~NeverRanked(t[1])'
  BY <1>3 DEF NeverRanked
<1>5. Spent(t[1])' \in Nat
  BY <1>2, <1>3, SpentIsPrimed
<1>6. PICK d \in Task : Progress(d)
  <2>1. ASSUME NEW r \in Request, Execute(r) PROVE FALSE
    <3>1. CASE Reject(r)
      BY <3>1 DEF Reject
    <3>2. ASSUME NEW count \in 1..MaxUrls, NEW chosen \in (SUBSET Asked[r]) \ {{}},
                 Start(r, count, chosen)
          PROVE  FALSE
      BY <3>2 DEF Start
    <3> QED BY <2>1, <3>1, <3>2 DEF Execute
  <2>2. ASSUME NEW r \in Request, Reply(r) PROVE FALSE
    BY <2>2 DEF Reply
  <2>3. ASSUME NEW u \in Url, Forget(u) PROVE FALSE
    BY <2>3 DEF Forget
  <2> QED BY <2>1, <2>2, <2>3 DEF Next
<1>7. ASSUME NEW record, record.at # "ranking", task' = [task EXCEPT ![d] = record]
      PROVE  FALSE
  BY <1>1, <1>7
<1>8. budgetLeft' >= 0 /\ UNCHANGED disturbed
  <2>1. CASE LookupEnds(d) \/ RobotsEnds(d)
    <3>1. ASSUME NEW at \in {"robots", "fetch"}, task' = [task EXCEPT ![d].at = at] PROVE FALSE
      <4>1. at \in Stages /\ TypeOK /\ at # "ranking"
        BY DEF Stages, IInv
      <4>2. task' = [task EXCEPT ![d] = [task[d] EXCEPT !.at = at]]
        BY <3>1, <4>1, TaskRecords, Zenon
      <4>3. [task[d] EXCEPT !.at = at].at = at
        <5>1. task[d] \in Record
          BY <1>1, <1>6
        <5> QED BY <5>1, <4>1 DEF Record
      <4> QED BY <1>7, <4>1, <4>2, <4>3
    <3>2. ASSUME NEW source, Done(d, source) PROVE FALSE
      BY <1>1, <3>2 DEF Done, Record
    <3> QED BY <2>1, <3>1, <3>2 DEF LookupEnds, RobotsEnds
  <2>2. CASE SlotGranted(d) \/ FetchFails(d) \/ Store(d)
    <3>1. ASSUME NEW source, Done(d, source) PROVE FALSE
      BY <1>1, <3>1 DEF Done, Record
    <3> QED BY <2>2, <3>1 DEF SlotGranted, FetchFails, Store
  <2>3. ASSUME NEW final \in Landing[d[2]], NEW status \in {200, 404}, NEW matching \in Matching,
               FetchReturns(d, final, status, matching)
        PROVE  budgetLeft' >= 0 /\ UNCHANGED disturbed
    <3> DEFINE source == Fetched(final, status, matching)
    <3>1. /\ UNCHANGED disturbed
          /\ \/ CanRank(source.passages) /\ Reserve(source.passages)
             \/ task' = [task EXCEPT ![d] = [at |-> "ready", source |-> source, cost |-> 0]]
      BY <2>3 DEF FetchReturns
    <3>2. final \in Url
      BY ServiceAssumption DEF ServiceAssumption, Task
    <3>3. source.passages \in Nat
      BY <3>2, FetchedType DEF IInv
    <3> HIDE DEF source
    <3> QED BY <1>1, <1>7, <3>1, <3>3 DEF CanRank, Reserve
  <2>4. ASSUME NEW elapsed \in Elapsed, RankingEnds(d, elapsed) PROVE FALSE
    <3>1. PICK source : task' = [task EXCEPT ![d] =
                                   [at |-> "ready", source |-> source, cost |-> elapsed]]
      BY <2>4 DEF RankingEnds
    <3> QED BY <1>7, <3>1
  <2> QED BY <1>6, <2>1, <2>2, <2>3, <2>4 DEF Progress
<1>9. budgetLeft' = Budget - Spent(t[1])'
  BY <1>2, <1>3, <1>4, <1>8 DEF BudgetInv, BudgetIsOwn
<1> HIDE DEF Spent
<1> QED BY <1>1, <1>5, <1>8, <1>9

(* The estimate of every ranking call that starts is within the budget of  *)
(* its request, whatever its earlier calls really took and however its     *)
(* sources overlap, as long as no other request shares the budget fields.  *)
THEOREM RankingStaysWithinBudget == Spec => RankingWithinBudget
BY BudgetInvariant, RankingIsPaid, PTL DEF Spec, RankingWithinBudget
=============================================================================
