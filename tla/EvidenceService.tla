--------------------------- MODULE EvidenceService ---------------------------
(***************************************************************************)
(* EvidenceService.execute and processSource (packages/core/src/           *)
(* service.ts) for concurrent requests of one process.  They share the     *)
(* fetch semaphore (FetchSemaphore), the cache (used through its abstract  *)
(* specification: what EvidenceStore promises) and the two instance fields *)
(* that hold the budget for semantic ranking.                              *)
(*                                                                         *)
(* An action is the code between two awaits.  A task is one target URL of  *)
(* one request: what Promise.all waits for.  A URL stands for its cache    *)
(* key, the unit in which uniqueUrls compares.  Time spent on ranking is   *)
(* counted in candidates: one unit is MS_PER_CANDIDATE milliseconds.       *)
(***************************************************************************)
EXTENDS Integers, Sequences, FiniteSets

CONSTANTS
    Request,               \* one call of execute(), with a question of its own
    Url,                   \* cache keys
    Asked,                 \* Asked[r]: the keys request r may name
    Landing,               \* Landing[u]: the keys a fetch of u may end at
    MaxConcurrentFetches,
    MaxUrls,               \* MAX_URLS_PER_REQUEST
    MaxSupplied,           \* HARD_CAPS.URLS, the schema's bound on urls
    MaxEvidence,           \* MAX_EVIDENCE_ITEMS
    Reasoning,             \* REASONING_PROVIDER # "none"
    PoolSize,              \* REASONING_POOL_SIZE
    Budget,                \* REASONING_BUDGET_MS in units
    RobotsPolicy,          \* "ignore", "warn" or "enforce"
    Matching,              \* how many passages of a page may match a question
    Elapsed,               \* how long a ranking call may take
    Nothing

ASSUME ServiceAssumption ==
    /\ IsFiniteSet(Url)   \* the body of a request is bounded
    /\ Asked \in [Request -> SUBSET Url]
    /\ Landing \in [Url -> SUBSET Url]
    /\ MaxConcurrentFetches \in Nat \ {0}
    /\ MaxUrls \in Nat \ {0} /\ MaxSupplied \in Nat
    /\ MaxEvidence \in Nat \ {0} /\ PoolSize \in Nat /\ Budget \in Nat
    /\ Reasoning \in BOOLEAN
    /\ Reasoning => PoolSize > MaxEvidence   \* .env.example: it must exceed it
    /\ RobotsPolicy \in {"ignore", "warn", "enforce"}
    /\ Matching \subseteq Nat /\ Elapsed \subseteq Nat

Task == Request \X Url

VARIABLES
    answer,      \* per request: not arrived, running, or how execute() ended
    targets,     \* per request: the URLs it processes
    task,        \* per task: where it is, its source, what ranking cost
    cached,      \* the cache: for each key a source, or Nothing
    budgetLeft,  \* this.reasoningBudgetMs, shared by all requests
    perSource,   \* this.reasoningPerSourceMs, shared by all requests
    active, queue, slot,  \* the semaphore
    disturbed    \* history: the requests that shared the two budget fields

semVars == <<active, queue, slot>>
vars == <<answer, targets, task, cached, budgetLeft, perSource, active, queue, slot, disturbed>>

Sem == INSTANCE FetchSemaphore WITH Source <- Task, Limit <- MaxConcurrentFetches

Min2(a, b) == IF a <= b THEN a ELSE b
Max2(a, b) == IF a >= b THEN a ELSE b

Stages == {"off", "lookup", "robots", "fetch", "ranking", "ready", "done"}

Endings == {"ok", "NO_SOURCES_RETRIEVED", "INVALID_REQUEST"}

(* A source as the response reports it.  status 0 is null: not retrieved.  *)
(* matching counts the passages of the page that match the question.       *)
SourceRecord ==
    [final : Url \cup {Nothing}, status : {0, 200, 404},
     passages : Nat, matching : Nat, fromCache : BOOLEAN]

ASSUME NothingIsNoSource == Nothing \notin SourceRecord

Idle == [at |-> "off", source |-> Nothing, cost |-> 0]

FailedSourceAs502(final) ==
    [final |-> final, status |-> 502, passages |-> 0, matching |-> 0, fromCache |-> FALSE]

(* failedSource(): status null and no evidence; the final URL is known     *)
(* when the fetch itself succeeded.                                        *)
FailedSource(final) ==
    [final |-> final, status |-> 0, passages |-> 0, matching |-> 0, fromCache |-> FALSE]

Init ==
    /\ answer = [r \in Request |-> "waiting"]
    /\ targets = [r \in Request |-> {}]
    /\ task = [t \in Task |-> Idle]
    /\ cached = [u \in Url |-> Nothing]
    /\ budgetLeft = Budget
    /\ perSource = Budget
    /\ disturbed = {}
    /\ Sem!Init

-----------------------------------------------------------------------------
(* The candidates each of n URLs could have ranked within the budget.      *)
Affordable(n) == Budget \div Max2(1, n)

(* The reset at the start of execute(): ranking is engaged only when every *)
(* source can afford the full pool.                                        *)
ResetBudget(count) ==
    /\ perSource' = Affordable(count)
    /\ budgetLeft' = IF Affordable(count) >= PoolSize THEN Budget ELSE 0

Running == {r \in Request : answer[r] = "running"}

(* A reset while others run reaches them all, and they reach whoever made  *)
(* it.                                                                     *)
Disturbs(r) == disturbed' = IF Running = {} THEN disturbed ELSE disturbed \cup Running \cup {r}

(* The request is refused: by its schema before the budget is reset, for   *)
(* having no URL or too many after that.                                   *)
Reject(r) ==
    /\ answer[r] = "waiting"
    /\ answer' = [answer EXCEPT ![r] = "INVALID_REQUEST"]
    /\ \/ UNCHANGED <<perSource, budgetLeft, disturbed>>
       \/ /\ \E count \in {0} \cup (MaxUrls + 1)..MaxSupplied : ResetBudget(count)
          /\ Disturbs(r)
    /\ UNCHANGED <<targets, task, cached>> /\ UNCHANGED semVars

(* The request starts a task for each target.  The cache is read at once,  *)
(* the outcome is used when the await continues; a lookup that throws      *)
(* counts as a miss.  max_sources may cut the targets to any prefix.       *)
Start(r, count, chosen) ==
    /\ answer[r] = "waiting"
    /\ answer' = [answer EXCEPT ![r] = "running"]
    /\ targets' = [targets EXCEPT ![r] = chosen]
    /\ ResetBudget(count)
    /\ Disturbs(r)
    /\ \E throwing \in SUBSET chosen :
         task' = [t \in Task |->
           IF t[1] = r /\ t[2] \in chosen
           THEN [at |-> "lookup", cost |-> 0,
                 source |-> IF t[2] \notin throwing /\ cached[t[2]] # Nothing
                            THEN [cached[t[2]] EXCEPT !.fromCache = TRUE]
                            ELSE Nothing]
           ELSE task[t]]
    /\ UNCHANGED cached /\ UNCHANGED semVars

Execute(r) ==
    \/ Reject(r)
    \/ \E count \in 1..MaxUrls, chosen \in (SUBSET Asked[r]) \ {{}} :
         Cardinality(chosen) <= count /\ Start(r, count, chosen)

-----------------------------------------------------------------------------
Done(t, source) == task' = [task EXCEPT ![t].at = "done", ![t].source = source]

(* After the lookup: a hit ends the task, a miss asks robots.txt or goes   *)
(* straight to the semaphore.                                              *)
LookupEnds(t) ==
    /\ task[t].at = "lookup"
    /\ \/ /\ task[t].source # Nothing
          /\ Done(t, task[t].source)
          /\ UNCHANGED semVars
       \/ /\ task[t].source = Nothing
          /\ IF RobotsPolicy = "ignore"
             THEN task' = [task EXCEPT ![t].at = "fetch"] /\ Sem!Acquire(t)
             ELSE task' = [task EXCEPT ![t].at = "robots"] /\ UNCHANGED semVars
    /\ UNCHANGED <<answer, targets, cached, budgetLeft, perSource, disturbed>>

(* robots.txt is consulted outside the semaphore; a prohibition refuses    *)
(* the source only under "enforce".                                        *)
RobotsEnds(t) ==
    /\ task[t].at = "robots"
    /\ \/ /\ RobotsPolicy = "enforce"
          /\ Done(t, FailedSource(Nothing))
          /\ UNCHANGED semVars
       \/ /\ task' = [task EXCEPT ![t].at = "fetch"]
          /\ Sem!Acquire(t)
    /\ UNCHANGED <<answer, targets, cached, budgetLeft, perSource, disturbed>>

(* The suspended acquire() continues.                                      *)
SlotGranted(t) ==
    /\ Sem!Resume(t)
    /\ UNCHANGED <<answer, targets, task, cached, budgetLeft, perSource, disturbed>>

(* How a source fails after it got its slot: the fetch throws (no final    *)
(* URL), or its content type is refused or extraction throws.              *)
Failures(t) == {FailedSource(final) : final \in {Nothing} \cup Landing[t[2]]}

FetchFailsHoldingSlot(t) ==
    /\ task[t].at = "fetch" /\ slot[t] = "holding"
    /\ \E failed \in Failures(t) : Done(t, failed)
    /\ UNCHANGED <<answer, targets, cached, budgetLeft, perSource, disturbed>> /\ UNCHANGED semVars

(* The slot is given back and the source is reported with status null.     *)
FetchFails(t) ==
    /\ task[t].at = "fetch"
    /\ Sem!Release(t)
    /\ \E failed \in Failures(t) : Done(t, failed)
    /\ UNCHANGED <<answer, targets, cached, budgetLeft, perSource, disturbed>>

PoolOfTheRemaining ==
    IF ~Reasoning \/ budgetLeft <= 0 THEN MaxEvidence
    ELSE Min2(Max2(MaxEvidence, PoolSize), budgetLeft)

(* How many candidates findEvidenceCandidates is asked for.                *)
Pool ==
    IF ~Reasoning \/ budgetLeft <= 0 THEN MaxEvidence
    ELSE Min2(Max2(MaxEvidence, PoolSize), perSource)

StoreUnderRequested(t) ==
    \/ cached' = [cached EXCEPT ![t[2]] = task[t].source]
    \/ UNCHANGED cached

(* cache.set() under the key of the final URL; a failure is ignored.       *)
StoreUnderFinal(t) ==
    \/ cached' = [cached EXCEPT ![task[t].source.final] = task[t].source]
    \/ UNCHANGED cached

Fetched(final, status, matching) ==
    [final |-> final, status |-> status, passages |-> Min2(matching, Pool),
     matching |-> matching, fromCache |-> FALSE]

CanRank(n) == Reasoning /\ n >= 2 /\ budgetLeft >= n

ReserveNothing(n) == UNCHANGED budgetLeft

(* The reservation, made before the ranking call is awaited.               *)
Reserve(n) == budgetLeft' = budgetLeft - n

(* The fetch returns a page.  Up to the next await: the slot is released,  *)
(* the candidates are selected, and the budget for ranking them is         *)
(* reserved, if it allows.                                                 *)
FetchReturns(t, final, status, matching) ==
    /\ task[t].at = "fetch"
    /\ Sem!Release(t)
    /\ LET source == Fetched(final, status, matching)
           n == source.passages
       IN  \/ /\ CanRank(n)
              /\ Reserve(n)
              /\ task' = [task EXCEPT ![t] = [at |-> "ranking", source |-> source, cost |-> n]]
           \/ /\ ~CanRank(n)
              /\ task' = [task EXCEPT ![t] = [at |-> "ready", source |-> source, cost |-> 0]]
              /\ UNCHANGED budgetLeft
    /\ UNCHANGED <<answer, targets, cached, perSource, disturbed>>

(* The ranking call ends: the reservation is replaced by the time it took. *)
(* With scores the candidates are reordered and cut to MaxEvidence; with   *)
(* null or an exception they stay as they are.                             *)
RankingEnds(t, elapsed) ==
    /\ task[t].at = "ranking"
    /\ budgetLeft' = budgetLeft + task[t].cost - elapsed
    /\ LET lexical == task[t].source
       IN  \E source \in {lexical, [lexical EXCEPT !.passages = Min2(@, MaxEvidence)]} :
             task' = [task EXCEPT ![t] = [at |-> "ready", source |-> source, cost |-> elapsed]]
    /\ UNCHANGED <<answer, targets, cached, perSource, disturbed>> /\ UNCHANGED semVars

(* The await of refineOrder() continues: the source is stored and ends.    *)
Store(t) ==
    /\ task[t].at = "ready"
    /\ StoreUnderFinal(t)
    /\ Done(t, task[t].source)
    /\ UNCHANGED <<answer, targets, budgetLeft, perSource, disturbed>> /\ UNCHANGED semVars

(* The cache forgets: expiry, eviction, cleanup.                           *)
Forget(u) ==
    /\ cached[u] # Nothing
    /\ cached' = [cached EXCEPT ![u] = Nothing]
    /\ UNCHANGED <<answer, targets, task, budgetLeft, perSource, disturbed>> /\ UNCHANGED semVars

-----------------------------------------------------------------------------
Retrieved(r) == {u \in targets[r] : task[<<r, u>>].source.status = 200}

(* Promise.all has resolved: answer, or refuse to charge for nothing.      *)
Reply(r) ==
    /\ answer[r] = "running"
    /\ \A u \in targets[r] : task[<<r, u>>].at = "done"
    /\ answer' = [answer EXCEPT ![r] =
                    IF Retrieved(r) # {} THEN "ok" ELSE "NO_SOURCES_RETRIEVED"]
    /\ UNCHANGED <<targets, task, cached, budgetLeft, perSource, disturbed>> /\ UNCHANGED semVars

Progress(t) ==
    \/ LookupEnds(t)
    \/ RobotsEnds(t)
    \/ SlotGranted(t)
    \/ FetchFails(t)
    \/ \E final \in Landing[t[2]], status \in {200, 404}, matching \in Matching :
         FetchReturns(t, final, status, matching)
    \/ \E elapsed \in Elapsed : RankingEnds(t, elapsed)
    \/ Store(t)

Next ==
    \/ \E r \in Request : Execute(r) \/ Reply(r)
    \/ \E t \in Task : Progress(t)
    \/ \E u \in Url : Forget(u)

(* Resolved promises are run, fetches and ranking calls end by their       *)
(* timeouts.  Nothing makes a request arrive or the cache forget.          *)
Fairness ==
    /\ \A r \in Request : WF_vars(Reply(r))
    /\ \A t \in Task : WF_vars(Progress(t))

Spec == Init /\ [][Next]_vars /\ Fairness

-----------------------------------------------------------------------------
TypeOK ==
    /\ answer \in [Request -> {"waiting", "running"} \cup Endings]
    /\ targets \in [Request -> SUBSET Url]
    /\ task \in [Task -> [at : Stages, source : SourceRecord \cup {Nothing}, cost : Nat]]
    /\ cached \in [Url -> SourceRecord \cup {Nothing}]
    /\ budgetLeft \in Int
    /\ perSource \in Nat
    /\ disturbed \subseteq Request

(* createSemaphore's counter is the number of fetches in progress: no      *)
(* order of immediate and delayed acquisitions, by the sources of any      *)
(* requests, makes it drift.                                               *)
CountIsExact == Sem!CountIsExact

(* No release is lost: while a source is suspended in acquire(), all slots *)
(* are in use or promised to a source that has been woken.                 *)
NoLostWakeup == Sem!NoLostWakeup

(* Every suspended source is admitted, however many newcomers overtake it, *)
(* since every fetch ends and its release wakes the next in the queue.     *)
EverySuspendedAdmitted == \A t \in Task : slot[t] = "queued" ~> slot[t] = "holding"

(* A task is inside the semaphore exactly while it is in its fetch stage:  *)
(* no path out of the fetch, failing or not, keeps a slot, and none gives  *)
(* back what it does not hold.                                             *)
SlotsReturned == \A t \in Task : task[t].at = "fetch" <=> slot[t] # "outside"

(* A cache entry is found under the URL its content came from, so a hit    *)
(* reports a page whose final URL is the one that was asked for.           *)
HitIsTheRequestedPage ==
    \A t \in Task : LET s == task[t].source IN
      s # Nothing /\ s.fromCache => s.final = t[2]

(* Every request is answered.                                              *)
EveryRequestAnswered == \A r \in Request : answer[r] = "running" ~> answer[r] \in Endings

(* What the ranking of a request has reserved or used, unit by unit.       *)
Spent(r) == Cardinality(UNION {{u} \X (1..task[<<r, u>>].cost) : u \in Url})

(* config.ts: a total budget for semantic scoring across the whole         *)
(* request.  However its sources overlap, and whatever earlier calls took, *)
(* a ranking call starts only if the request can still pay its estimate.   *)
(* Claimed of a request that ran alone: the fields belong to the service.  *)
RankingWithinBudget ==
    [][\A t \in Task :
         /\ task[t].at # "ranking" /\ task'[t].at = "ranking"
         /\ t[1] \notin disturbed
         => Spent(t[1])' <= Budget]_vars

Complete(source) ==
    source # Nothing /\ source.status # 0 => source.passages >= Min2(source.matching, MaxEvidence)

(* What ranking may rely on: in a request that ran alone, a page fetched   *)
(* for it keeps the passages that would be reported without ranking.       *)
AloneKeepsEvidence ==
    \A t \in Task : LET s == task[t].source IN
      s # Nothing /\ ~s.fromCache /\ t[1] \notin disturbed => Complete(s)

(* service.ts on refineOrder: reorders only, never adds or removes         *)
(* evidence.                                                               *)
RankingDropsNothing == \A t \in Task : Complete(task[t].source)
=============================================================================
