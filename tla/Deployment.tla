------------------------------ MODULE Deployment ------------------------------
(***************************************************************************)
(* The Worker's gate in front of the backend process: a request that is    *)
(* forwarded becomes a call of the backend, if that still runs; other      *)
(* visits only ask for the backend's health (/health?deep=1).              *)
(***************************************************************************)
EXTENDS BackendProcess, OriginHealth

ASSUME CallsAreVisits == Call \subseteq Visit

vars == <<backendVars, healthVars>>

Init == InitBackend /\ InitHealth

(* Whether the backend answers /health: not before it listens, and not     *)
(* once Fastify is closing.                                                *)
Up == stage = "serving" /\ shutdown = "no"

(* The backend does something while the edge stands still.  What was up    *)
(* until this step was up now.                                             *)
Backend(step) == step /\ lastUp' = (IF Up \/ Up' THEN now ELSE lastUp) /\ UNCHANGED <<now, health, visit>>

Edge(step) == step /\ UNCHANGED backendVars

Forward(c) ==
    /\ visit[c].at = "forwarded"
    /\ \/ \E adapter \in {"evidence", "weather"} : HandleNodeRequest(c, adapter, Message(adapter))
       \/ WeatherRoute(c)

(* The routes of the free previews have no gate, nor have a GET or HEAD of *)
(* the paid routes, which the Worker sends on as an unpaid POST, and a GET *)
(* or DELETE of the MCP routes.                                            *)
Direct(c) ==
    /\ visit[c].at = "client"
    /\ \/ PreviewRoute(c)
       \/ \E adapter \in {"evidence", "weather"} : HandleNodeRequest(c, adapter, GetOrDelete)
    /\ visit' = [visit EXCEPT ![c].at = "direct"]
    /\ lastUp' = now /\ UNCHANGED <<now, health>>

EdgeSteps(v) == Gate(v) \/ Observe(v, Up) \/ ProbeEnds(v)

Next ==
    \/ Backend(Boot) \/ Backend(Shutdown)
    \/ \E c \in Call :
         Backend(Forward(c)) \/ Direct(c) \/ Backend(Work(c)) \/ Backend(HangUp(c))
    \/ \E v \in Visit : Edge(EdgeSteps(v))
    \/ Edge(Tick(Up))

(* The work on a call has deadlines: sources and the weather service time  *)
(* out, and an answer is small enough to be taken by the socket.  So the   *)
(* backend goes on as long as there is something left to do, in any order. *)
(* Nobody owes it that he hangs up: a stream may stay open for ever.       *)
Fairness == WF_vars(Backend(Shutdown \/ \E c \in Call : Work(c)))

Spec == Init /\ [][Next]_vars /\ Fairness

-----------------------------------------------------------------------------
TypeOK ==
    /\ stage \in {"starting", "binding", "serving", "exited"} /\ exitCode \in {0, 1}
    /\ shutdown \in {"no", "app", "mcp", "cache", "exit"}
    /\ cache \in {"none", "open", "closed"}
    /\ weatherClosed \in BOOLEAN
    /\ active \subseteq Call
    /\ call \in [Call -> Calls]
    /\ now \in Nat /\ lastUp \in Int
    /\ health \in [ok : BOOLEAN, at : Int]
    /\ visit \in [Visit -> Visits]

(* The protocol server and transport of a call are released exactly once,  *)
(* whichever of the response's end, an error and an adapter's close()      *)
(* comes first, and never outlive the response.                            *)
PairsReleasedOnce ==
    \A c \in Call :
      /\ c \in active <=> call[c].pair = "open"
      /\ call[c].releases = IF call[c].pair = "closed" THEN 1 ELSE 0
      /\ call[c].pair = "open" => call[c].response = "open"

(* A signal costs no evidence call and no HTTP call its answer, and the    *)
(* cache is not closed before the last of them is answered.                *)
ShutdownCutsNobodyOff ==
    /\ \A c \in Call : call[c].client = "cut" => call[c].adapter = "weather"
    /\ cache = "closed" \/ stage = "exited" => \A c \in Call : call[c].response # "open"

(* A call is answered with what the service made of it, and a call of the  *)
(* paid evidence tool that the service answered has been reported, even    *)
(* when the report is lost.                                                *)
AnsweredAsServed ==
    \A c \in Call : call[c].client = "answered" =>
      /\ call[c].result = call[c].served
      /\ call[c].tool = "research_evidence" /\ call[c].served \in {"ok", "service_error"}
           => call[c].report # "none"

(* A stream over the evidence adapter whose client has not hung up.        *)
HeldOpen ==
    \E c \in Call :
      call[c].adapter = "evidence" /\ call[c].work = "stream" /\ call[c].response = "open"

(* A process that got a signal and never ends is held open for ever by a   *)
(* client with a stream of evidence: nothing that fails on the way, no     *)
(* call at work and no weather stream holds it up.                         *)
SignalEndsProcess ==
    <>[](shutdown # "no" /\ stage # "exited") => <>[]HeldOpen
=============================================================================
