----------------------------- MODULE OriginHealth -----------------------------
(***************************************************************************)
(* The gate of the Worker (apps/worker/src/index.ts): a POST of a paid     *)
(* route is forwarded only when the backend's /health answered lately.     *)
(* Probes of concurrent requests overlap and write one cache.              *)
(***************************************************************************)
EXTENDS Integers

CONSTANTS
    Visit,         \* requests at the edge
    Ttl,           \* ORIGIN_HEALTH_TTL_MS
    ProbeTimeout,  \* the deadline of a probe
    MaxNow         \* bound of the model on the clock

ASSUME HealthAssumption == {Ttl, ProbeTimeout, MaxNow} \subseteq Nat /\ ProbeTimeout < Ttl

VARIABLES
    now,
    health,  \* originHealthCache
    visit,   \* per request: at the gate, probing, forwarded, refused, or sent
             \* directly by a route that has no gate
    lastUp   \* when the backend was last able to answer (read by properties only)

healthVars == <<now, health, visit, lastUp>>

(* saw: what its probe came back with, if it has; entered: its start.      *)
Visits == [at : {"client", "probing", "forwarded", "refused", "direct"},
           saw : {"nothing", "up", "down"}, entered : Nat]

InitHealth ==
    /\ now = 0
    /\ health = [ok |-> FALSE, at |-> -Ttl]  \* null: as good as expired
    /\ visit = [v \in Visit |-> [at |-> "client", saw |-> "nothing", entered |-> 0]]
    /\ lastUp = -Ttl

Decided(v, ok) ==
    visit' = [visit EXCEPT ![v] = [at |-> IF ok THEN "forwarded" ELSE "refused",
                                   saw |-> "nothing", entered |-> 0]]

Fresh == now - health.at < Ttl

(* originHealthy(): the cached answer while it lasts, else a probe.        *)
Gate(v) ==
    /\ visit[v].at = "client"
    /\ \/ Fresh /\ Decided(v, health.ok)
       \/ /\ ~Fresh
          /\ visit' = [visit EXCEPT ![v].at = "probing", ![v].entered = now]
    /\ UNCHANGED <<now, health, lastUp>>

(* The backend answers the probe, or is not there.                         *)
Observe(v, up) ==
    /\ visit[v].at = "probing" /\ visit[v].saw = "nothing"
    /\ visit' = [visit EXCEPT ![v].saw = IF up THEN "up" ELSE "down"]
    /\ UNCHANGED <<now, health, lastUp>>

ProbeEndsLate(v) ==
    /\ visit[v].at = "probing"
    /\ \E ok \in {FALSE, visit[v].saw = "up"} :
         /\ health' = [ok |-> ok, at |-> now]
         /\ Decided(v, ok)
    /\ UNCHANGED <<now, lastUp>>

(* The probe returns or times out.  Its age counts from its start.         *)
ProbeEnds(v) ==
    /\ visit[v].at = "probing"
    /\ \E ok \in {FALSE, visit[v].saw = "up"} :
         /\ health' = [ok |-> ok, at |-> visit[v].entered]
         /\ Decided(v, ok)
    /\ UNCHANGED <<now, lastUp>>

(* No probe outlives its deadline.                                         *)
Tick(up) ==
    /\ now < MaxNow
    /\ \A v \in Visit : visit[v].at = "probing" => now - visit[v].entered < ProbeTimeout
    /\ now' = now + 1
    /\ lastUp' = IF up THEN now + 1 ELSE lastUp
    /\ UNCHANGED <<health, visit>>

-----------------------------------------------------------------------------
(* A request is forwarded only if the backend was able to answer less than *)
(* the cache's lifetime ago, in whatever order concurrent probes return.   *)
ForwardedOnlyToLiving ==
    [][\A v \in Visit : visit[v].at # "forwarded" /\ visit'[v].at = "forwarded"
                          => now - lastUp < Ttl]_healthVars
=============================================================================
