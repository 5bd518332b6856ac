------------------------------ MODULE PaidCall ------------------------------
(***************************************************************************)
(* One purchase from end to end: the Worker forwards a call to the         *)
(* backend (proxyToBackend in apps/worker/src/index.ts), the backend has   *)
(* the payment verified, runs the handler, and has the payment settled     *)
(* only when the handler delivered (apps/backend/src/app.ts and            *)
(* mcp-paywall.ts).  Calls are concurrent and share the facilitator        *)
(* handshake of the process.  The facilitator, the x402 middleware and the *)
(* MCP transport are external: they are modelled from how the backend uses *)
(* them.                                                                   *)
(*                                                                         *)
(* A body is the set of kinds of its JSON-RPC messages: "free" (discovery, *)
(* free tools), "paid" (a request that calls a paid tool) and "notice"     *)
(* (not recognised as free and not answered with evidence: an unlisted     *)
(* method, or any message without an id, a call of a paid tool included).  *)
(* A plain HTTP call is a single "paid" one.  What a handler produced is   *)
(* the set of kinds of its answers.                                        *)
(***************************************************************************)
EXTENDS Naturals, FiniteSets

CONSTANTS
    Call,          \* requests that reach the Worker
    Proof,         \* payment authorisations; several calls may carry the same
    NoProof,       \* no payment-signature header
    Bodies,        \* the MCP bodies that are posted
    EdgeTimeouts,  \* whether the Worker's 30 s may run out
    LostReceipts,  \* whether the facilitator's answer to a settlement may be lost
    MaxCrashes     \* bound of the model on backend restarts

Answers == {"evidence", "plain", "error"}

ASSUME PaidCallAssumption ==
    /\ NoProof \notin Proof
    /\ Bodies \subseteq (SUBSET {"free", "paid", "notice"}) \ {{}}
    /\ EdgeTimeouts \in BOOLEAN /\ LostReceipts \in BOOLEAN
    /\ MaxCrashes \in Nat

VARIABLES
    request,   \* per call: route, body, proof
    edge,      \* per call, at the Worker: idle, waiting or answered
    reply,     \* per call: what the buyer was answered
    stage,     \* per call: where the backend is with it
    answers,   \* per call: what the handler produced
    logged,    \* per call: its line in the usage log
    init,      \* initPromise: unset, pending or ready
    attempts,  \* handshakes with the facilitator that are running
    inflight,  \* settlements asked for and not yet executed
    receipt,   \* per call: the facilitator's answer to its settlement
    charged,   \* calls whose payment was taken
    crashes    \* restarts so far

vars == <<request, edge, reply, stage, answers, logged, init, attempts,
          inflight, receipt, charged, crashes>>

HttpRequests == [route : {"http"}, body : {{"paid"}}, proof : Proof \cup {NoProof}]
McpRequests == [route : {"mcp"}, body : Bodies, proof : Proof \cup {NoProof}]
Requests == HttpRequests \cup McpRequests

Result(produced) == [code |-> "RESULT", got |-> produced]
Refusal(code) == [code |-> code, got |-> {}]

Refusals == {"BACKEND_UNREACHABLE", "PAYMENT_REQUIRED", "PAYMENT_INVALID", "UNSETTLED"}
Replies == {Result(produced) : produced \in SUBSET Answers} \cup {Refusal(code) : code \in Refusals}

NoReply == Refusal("none")
NoRequest == [route |-> "none", body |-> {}, proof |-> NoProof]

Init ==
    /\ request = [c \in Call |-> NoRequest]
    /\ edge = [c \in Call |-> "idle"]
    /\ reply = [c \in Call |-> NoReply]
    /\ stage = [c \in Call |-> "none"]
    /\ answers = [c \in Call |-> {}]
    /\ logged = [c \in Call |-> "no"]
    /\ init = "unset"
    /\ attempts = 0
    /\ inflight = {}
    /\ receipt = [c \in Call |-> "none"]
    /\ charged = {}
    /\ crashes = 0

-----------------------------------------------------------------------------
(* needsMcpPayment(): free only if every message of the body is free.  The *)
(* plain route is always paid.                                             *)
NeedsPayment(q) == \E m \in q.body : m # "free"

(* What the handlers may produce for a body: a paid call delivers evidence *)
(* or an error, a free one its result or an error, a notice nothing.  A    *)
(* batch may hold several messages of a kind.                              *)
Produced(q) ==
    {A \in SUBSET Answers :
       /\ "paid" \in q.body => A \cap {"evidence", "error"} # {}
       /\ "free" \in q.body => A \cap {"plain", "error"} # {}
       /\ "evidence" \in A => "paid" \in q.body
       /\ "plain" \in A => "free" \in q.body
       /\ q.route = "http" => Cardinality(A) = 1}

(* The line written for a call of a paid tool, before any settlement; a    *)
(* write that fails is ignored, and refused arguments are not reported.    *)
UsageLine(q, produced) ==
    IF "paid" \in q.body
    THEN {"no", IF "evidence" \in produced THEN "ok" ELSE "error"}
    ELSE {"no"}

FailedByStatusOnly(q, produced) == q.route = "http" /\ "error" \in produced

(* The handler failed: an error status over HTTP, any failed message in an *)
(* MCP body (mcpResponseFailed).  An empty body is not a failure.          *)
Failed(q, produced) == "error" \in produced

(* The backend answers call c; nobody listens once the Worker has given up.*)
Respond(c, answer) ==
    /\ stage' = [stage EXCEPT ![c] = "finished"]
    /\ edge' = [edge EXCEPT ![c] = "answered"]
    /\ reply' = IF edge[c] = "waiting" THEN [reply EXCEPT ![c] = answer] ELSE reply

-----------------------------------------------------------------------------
(* The Worker: refuse when the origin looks unhealthy, else forward.       *)
Submit(c) ==
    /\ edge[c] = "idle"
    /\ \E q \in Requests : request' = [request EXCEPT ![c] = q]
    /\ \/ /\ edge' = [edge EXCEPT ![c] = "answered"]
          /\ reply' = [reply EXCEPT ![c] = Refusal("BACKEND_UNREACHABLE")]
          /\ UNCHANGED stage
       \/ /\ edge' = [edge EXCEPT ![c] = "waiting"]
          /\ stage' = [stage EXCEPT ![c] = "arrived"]
          /\ UNCHANGED reply
    /\ UNCHANGED <<answers, logged, init, attempts, inflight, receipt, charged, crashes>>

ArriveUnlessReady(c) ==
    /\ stage[c] = "arrived"
    /\ stage' = [stage EXCEPT ![c] =
                   IF ~NeedsPayment(request[c]) THEN "handling"
                   ELSE IF init = "ready" THEN "verifying" ELSE "awaiting"]
    /\ IF NeedsPayment(request[c]) /\ init # "ready"
       THEN init' = "pending" /\ attempts' = attempts + 1
       ELSE UNCHANGED <<init, attempts>>
    /\ UNCHANGED <<request, edge, reply, answers, logged, inflight, receipt, charged, crashes>>

(* A free body goes straight to its handler.  A paid one awaits the        *)
(* handshake with the facilitator: the first such call starts it and all   *)
(* share its promise (ensurePaidRoutesReady).                              *)
Arrive(c) ==
    /\ stage[c] = "arrived"
    /\ stage' = [stage EXCEPT ![c] =
                   IF ~NeedsPayment(request[c]) THEN "handling"
                   ELSE IF init = "ready" THEN "verifying" ELSE "awaiting"]
    /\ IF NeedsPayment(request[c]) /\ init = "unset"
       THEN init' = "pending" /\ attempts' = attempts + 1
       ELSE UNCHANGED <<init, attempts>>
    /\ UNCHANGED <<request, edge, reply, answers, logged, inflight, receipt, charged, crashes>>

Awaiting == {c \in Call : stage[c] = "awaiting"}

(* The handshake ends well: the calls that await it go on.                 *)
HandshakeSucceeds ==
    /\ attempts > 0
    /\ attempts' = attempts - 1
    /\ init' = "ready"
    /\ stage' = [c \in Call |-> IF c \in Awaiting THEN "verifying" ELSE stage[c]]
    /\ UNCHANGED <<request, edge, reply, answers, logged, inflight, receipt, charged, crashes>>

HandshakeFailsUnanswered ==
    /\ attempts > 0
    /\ attempts' = attempts - 1
    /\ init' = "unset"
    /\ UNCHANGED <<request, edge, reply, stage, answers, logged, inflight, receipt, charged, crashes>>

(* A failed handshake refuses the calls that await it and is forgotten, so *)
(* that the next paid call tries again.                                    *)
HandshakeFails ==
    /\ attempts > 0
    /\ attempts' = attempts - 1
    /\ init' = "unset"
    /\ stage' = [c \in Call |-> IF c \in Awaiting THEN "finished" ELSE stage[c]]
    /\ edge' = [c \in Call |-> IF c \in Awaiting THEN "answered" ELSE edge[c]]
    /\ reply' = [c \in Call |-> IF c \in Awaiting /\ edge[c] = "waiting"
                                THEN Refusal("BACKEND_UNREACHABLE") ELSE reply[c]]
    /\ UNCHANGED <<request, answers, logged, inflight, receipt, charged, crashes>>

Spent == {request[c].proof : c \in charged}

(* processHTTPRequest(): the challenge without an acceptable payment, an   *)
(* error when the verification itself fails.  A valid payment is not taken *)
(* yet.                                                                    *)
Verify(c) ==
    /\ stage[c] = "verifying"
    /\ \/ \E code \in {"PAYMENT_REQUIRED", "PAYMENT_INVALID"} : Respond(c, Refusal(code))
       \/ /\ request[c].proof \notin Spent \cup {NoProof}
          /\ stage' = [stage EXCEPT ![c] = "handling"]
          /\ UNCHANGED <<edge, reply>>
    /\ UNCHANGED <<request, answers, logged, init, attempts, inflight, receipt, charged, crashes>>

HandlerEndsAnsweringFirst(c) ==
    /\ stage[c] = "handling"
    /\ \E produced \in Produced(request[c]) :
         /\ answers' = [answers EXCEPT ![c] = produced]
         /\ \E line \in UsageLine(request[c], produced) : logged' = [logged EXCEPT ![c] = line]
         /\ inflight' = IF NeedsPayment(request[c]) /\ ~Failed(request[c], produced)
                        THEN inflight \cup {c} ELSE inflight
         /\ Respond(c, Result(produced))
    /\ UNCHANGED <<request, init, attempts, receipt, charged, crashes>>

(* The handler runs and writes the usage line of a paid tool; its response *)
(* is held back.  A failure cancels the payment and is answered as it is;  *)
(* a success is settled first.                                             *)
HandlerEnds(c) ==
    /\ stage[c] = "handling"
    /\ \E produced \in Produced(request[c]) :
         /\ answers' = [answers EXCEPT ![c] = produced]
         /\ \E line \in UsageLine(request[c], produced) : logged' = [logged EXCEPT ![c] = line]
         /\ \/ /\ ~NeedsPayment(request[c]) \/ Failed(request[c], produced)
               /\ Respond(c, Result(produced))
               /\ UNCHANGED inflight
            \/ /\ NeedsPayment(request[c]) /\ ~Failed(request[c], produced)
               /\ stage' = [stage EXCEPT ![c] = "settling"]
               /\ inflight' = inflight \cup {c}
               /\ UNCHANGED <<edge, reply>>
    /\ UNCHANGED <<request, init, attempts, receipt, charged, crashes>>

(* The facilitator executes a settlement.  An authorisation carries a      *)
(* nonce, so it can be taken once; the chain may refuse it at any time.    *)
Settle(c) ==
    /\ c \in inflight
    /\ inflight' = inflight \ {c}
    /\ \/ /\ request[c].proof \notin Spent
          /\ charged' = charged \cup {c}
          /\ receipt' = [receipt EXCEPT ![c] = "taken"]
       \/ /\ receipt' = [receipt EXCEPT ![c] = "refused"]
          /\ UNCHANGED charged
    /\ UNCHANGED <<request, edge, reply, stage, answers, logged, init, attempts, crashes>>

SettlementEndsFlushing(c) ==
    /\ stage[c] = "settling"
    /\ receipt[c] # "none"
    /\ Respond(c, Result(answers[c]))
    /\ UNCHANGED <<request, answers, logged, init, attempts, inflight, receipt, charged, crashes>>

SettlementEndsKeepingBody(c) ==
    /\ stage[c] = "settling"
    /\ receipt[c] # "none"
    /\ Respond(c, [code |-> IF receipt[c] = "taken" THEN "RESULT" ELSE "UNSETTLED",
                   got |-> answers[c]])
    /\ UNCHANGED <<request, answers, logged, init, attempts, inflight, receipt, charged, crashes>>

(* The settlement ends: the held response is released, or replaced by a    *)
(* refusal when the payment was not taken or no receipt came back.         *)
SettlementEnds(c) ==
    /\ stage[c] = "settling"
    /\ \/ receipt[c] = "taken" /\ Respond(c, Result(answers[c]))
       \/ receipt[c] = "refused" /\ Respond(c, Refusal("UNSETTLED"))
       \/ LostReceipts /\ Respond(c, Refusal("UNSETTLED"))
    /\ UNCHANGED <<request, answers, logged, init, attempts, inflight, receipt, charged, crashes>>

(* The Worker's 30 s run out.  The backend goes on with the call, except   *)
(* that closing the socket releases an MCP transport, whose tool call may  *)
(* then never be answered.                                                 *)
EdgeTimesOut(c) ==
    /\ EdgeTimeouts /\ edge[c] = "waiting"
    /\ edge' = [edge EXCEPT ![c] = "answered"]
    /\ reply' = [reply EXCEPT ![c] = Refusal("BACKEND_UNREACHABLE")]
    /\ \/ UNCHANGED stage
       \/ /\ request[c].route = "mcp" /\ stage[c] = "handling"
          /\ stage' = [stage EXCEPT ![c] = "gone"]
    /\ UNCHANGED <<request, answers, logged, init, attempts, inflight, receipt, charged, crashes>>

(* The backend dies: what it was doing is lost, and the Worker's fetches   *)
(* fail.  Settlements already sent are still executed.                     *)
Crash ==
    /\ crashes < MaxCrashes
    /\ crashes' = crashes + 1
    /\ stage' = [c \in Call |-> IF stage[c] \in {"none", "finished"} THEN stage[c] ELSE "gone"]
    /\ edge' = [c \in Call |-> IF edge[c] = "waiting" THEN "answered" ELSE edge[c]]
    /\ reply' = [c \in Call |-> IF edge[c] = "waiting"
                                THEN Refusal("BACKEND_UNREACHABLE") ELSE reply[c]]
    /\ init' = "unset"
    /\ attempts' = 0
    /\ UNCHANGED <<request, answers, logged, inflight, receipt, charged>>

Backend(c) == Arrive(c) \/ Verify(c) \/ HandlerEnds(c) \/ SettlementEnds(c)

Next ==
    \/ \E c \in Call : Submit(c) \/ Backend(c) \/ Settle(c) \/ EdgeTimesOut(c)
    \/ HandshakeSucceeds
    \/ HandshakeFails
    \/ Crash

(* Continuations run, handlers and calls to the facilitator end by their   *)
(* own timeouts.                                                           *)
Fairness ==
    /\ \A c \in Call : WF_vars(Backend(c)) /\ WF_vars(Settle(c))
    /\ WF_vars(HandshakeSucceeds \/ HandshakeFails)

Spec == Init /\ [][Next]_vars /\ Fairness

-----------------------------------------------------------------------------
TypeOK ==
    /\ request \in [Call -> Requests \cup {NoRequest}]
    /\ edge \in [Call -> {"idle", "waiting", "answered"}]
    /\ reply \in [Call -> Replies \cup {NoReply}]
    /\ stage \in [Call -> {"none", "arrived", "awaiting", "verifying", "handling",
                           "settling", "finished", "gone"}]
    /\ answers \in [Call -> SUBSET Answers]
    /\ logged \in [Call -> {"no", "ok", "error"}]
    /\ init \in {"unset", "pending", "ready"}
    /\ attempts \in Nat
    /\ inflight \subseteq Call
    /\ receipt \in [Call -> {"none", "taken", "refused"}]
    /\ charged \subseteq Call
    /\ crashes \in Nat

(* Money is taken only for a call none of whose messages failed, and when  *)
(* its body asks for evidence only if evidence was produced: whatever was  *)
(* lost or restarted in between, no mixture of messages lets a failed call *)
(* pass for a delivered one.                                               *)
ChargedForEvidence ==
    \A c \in charged :
      /\ "error" \notin answers[c]
      /\ "paid" \in request[c].body => "evidence" \in answers[c]

(* app.ts: a buyer is never charged when nothing was retrieved.            *)
NeverChargedForNothing == \A c \in charged : "evidence" \in answers[c]

(* No free evidence: a complete result of a paid call reaches the buyer    *)
(* only after its payment was taken.                                       *)
EvidencePaidFor ==
    \A c \in Call : "evidence" \in reply[c].got /\ "error" \notin reply[c].got => c \in charged

(* Two calls that carry the same authorisation, both verified before       *)
(* either settles, are not both served.                                    *)
OneDeliveryPerProof ==
    \A c, d \in Call :
      /\ c # d /\ request[c].proof = request[d].proof
      /\ \A x \in {c, d} : "evidence" \in reply[x].got /\ "error" \notin reply[x].got
      => FALSE

(* ensurePaidRoutesReady: two handshakes never run at once, for the second *)
(* would clear the facilitator map under the first.                        *)
HandshakesDoNotOverlap == attempts <= 1

(* The discovery surface is answered without the facilitator: a free body  *)
(* never waits for the handshake, is never asked for a payment and never   *)
(* settles.                                                                *)
FreeStaysFree ==
    \A c \in Call : request[c].body = {"free"} =>
      /\ stage[c] \notin {"awaiting", "verifying", "settling"}
      /\ reply[c].code \notin {"PAYMENT_REQUIRED", "PAYMENT_INVALID", "UNSETTLED"}

(* Every call that reached the backend is concluded or lost with the       *)
(* process; none waits for ever on a handshake that failed before.         *)
EveryCallConcluded ==
    \A c \in Call : stage[c] = "arrived" ~> stage[c] \in {"finished", "gone"}

(* apps/worker: you are only charged when evidence is actually delivered.  *)
ChargedIsDelivered ==
    \A c \in charged : edge[c] = "answered" => "evidence" \in reply[c].got
=============================================================================
