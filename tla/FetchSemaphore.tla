--------------------------- MODULE FetchSemaphore ---------------------------
(***************************************************************************)
(* The counting semaphore of EvidenceService (createSemaphore in           *)
(* packages/core/src/service.ts), shared by every source of every request  *)
(* of the process.                                                         *)
(*                                                                         *)
(* JavaScript runs one continuation at a time, so each action below is one *)
(* run-to-completion segment.  A call that finds no slot suspends on a     *)
(* promise; release() resolves the promise of the oldest waiter but does   *)
(* not take the slot for it.  The waiter takes it when its continuation    *)
(* runs, and other continuations may already be ahead of it in the         *)
(* microtask queue: a source whose last await settled earlier in the same  *)
(* drain (a robots check refused without I/O, a cache lookup of another    *)
(* element of a batch) calls acquire() in between.                         *)
(***************************************************************************)
EXTENDS Naturals, Sequences, FiniteSets

CONSTANTS
    Source,  \* the calls of processSource that reach acquire()
    Limit    \* Math.max(1, MAX_CONCURRENT_FETCHES)

VARIABLES
    active,  \* the counter of the closure
    queue,   \* resolve functions of the suspended calls, oldest first
    slot     \* where each source is with respect to the semaphore

Positions == {"outside", "queued", "woken", "holding"}

In(position) == {s \in Source : slot[s] = position}

Init ==
    /\ active = 0
    /\ queue = <<>>
    /\ slot = [s \in Source |-> "outside"]

-----------------------------------------------------------------------------
(* acquire(): take a slot at once, or suspend at the end of the queue.     *)
Acquire(s) ==
    /\ slot[s] = "outside"
    /\ \/ /\ active < Limit
          /\ active' = active + 1
          /\ slot' = [slot EXCEPT ![s] = "holding"]
          /\ UNCHANGED queue
       \/ /\ active >= Limit
          /\ queue' = Append(queue, s)
          /\ slot' = [slot EXCEPT ![s] = "queued"]
          /\ UNCHANGED active

(* The continuation of the suspended acquire(): it counts itself without   *)
(* looking at the limit again.                                             *)
Resume(s) ==
    /\ slot[s] = "woken"
    /\ active' = active + 1
    /\ slot' = [slot EXCEPT ![s] = "holding"]
    /\ UNCHANGED queue

ReleaseWithoutWaking(s) ==
    /\ slot[s] = "holding"
    /\ active' = active - 1
    /\ slot' = [slot EXCEPT ![s] = "outside"]
    /\ UNCHANGED queue

ReleaseForgettingCount(s) ==
    /\ slot[s] = "holding"
    /\ active' = IF queue = <<>> THEN active - 1 ELSE active
    /\ queue' = IF queue = <<>> THEN <<>> ELSE Tail(queue)
    /\ slot' = IF queue = <<>>
               THEN [slot EXCEPT ![s] = "outside"]
               ELSE [slot EXCEPT ![s] = "outside", ![Head(queue)] = "woken"]

(* The release closure, called once per acquisition from the finally block *)
(* around the fetch: give the slot back, then resolve the oldest waiter.   *)
Release(s) ==
    /\ slot[s] = "holding"
    /\ active' = active - 1
    /\ \/ /\ queue = <<>>
          /\ slot' = [slot EXCEPT ![s] = "outside"]
          /\ UNCHANGED queue
       \/ /\ queue # <<>>
          /\ queue' = Tail(queue)
          /\ slot' = [slot EXCEPT ![s] = "outside", ![Head(queue)] = "woken"]

-----------------------------------------------------------------------------
TypeOK ==
    /\ active \in Nat
    /\ queue \in Seq(Source)
    /\ slot \in [Source -> Positions]

(* The queue holds exactly the suspended calls, each of them once: a       *)
(* promise that is in the queue twice, or in no place at all, would wake a *)
(* finished source or never wake a waiting one.                            *)
QueueHoldsTheSuspended ==
    /\ \A i, j \in 1..Len(queue) : queue[i] = queue[j] => i = j
    /\ \A s \in Source : slot[s] = "queued" <=> \E i \in 1..Len(queue) : queue[i] = s

(* The counter is the number of sources inside the fetch: no interleaving  *)
(* of immediate and delayed acquisitions makes it drift.                   *)
CountIsExact == active = Cardinality(In("holding"))

(* No slot is idle while a call waits: the slots taken and those already   *)
(* promised to a woken call are at least Limit as long as the queue is not *)
(* empty, so a release can never be lost.                                  *)
NoLostWakeup == queue # <<>> => active + Cardinality(In("woken")) >= Limit
=============================================================================
