---------------------------- MODULE PaidCallProofs ----------------------------
(***************************************************************************)
(* PaidCall for any calls, proofs and bodies, with any timeouts, lost      *)
(* receipts and restarts.  The inductive invariant says what the code      *)
(* knows at each stage of a call and what the facilitator knows of it; the *)
(* properties follow from it.                                              *)
(***************************************************************************)
EXTENDS PaidCall, TLAPS

(* Before its handler has ended a call is unknown to the facilitator.      *)
Fresh == \A c \in Call :
    stage[c] \in {"none", "arrived", "awaiting", "verifying", "handling"}
      => c \notin inflight /\ c \notin charged /\ receipt[c] = "none"

(* A call that the Worker has not seen has no state anywhere.              *)
Unseen == \A c \in Call : edge[c] = "idle" => stage[c] = "none" /\ reply[c] = NoReply

(* A settlement that is under way, asked for or executed belongs to a      *)
(* payable call whose handler ended without an error.                      *)
Earned == \A c \in Call :
    stage[c] = "settling" \/ c \in inflight \/ c \in charged
      => /\ NeedsPayment(request[c])
         /\ answers[c] \in Produced(request[c])
         /\ "error" \notin answers[c]

(* The receipt tells the truth, and nothing is settled twice.              *)
Receipts == \A c \in Call :
    /\ receipt[c] = "taken" <=> c \in charged
    /\ c \in inflight => receipt[c] = "none"

(* An authorisation pays for one call.                                     *)
SpentOnce == \A c, d \in charged : c # d => request[c].proof # request[d].proof

(* initPromise is pending exactly while its one handshake runs.            *)
OneHandshake == attempts = IF init = "pending" THEN 1 ELSE 0

IInv ==
    /\ TypeOK
    /\ Fresh /\ Unseen /\ Earned /\ Receipts /\ SpentOnce /\ OneHandshake
    /\ EvidencePaidFor /\ FreeStaysFree

LEMMA ReplyFacts ==
    /\ \A A \in SUBSET Answers :
         Result(A) \in Replies /\ Result(A).got = A /\ Result(A).code = "RESULT"
    /\ \A code \in Refusals :
         Refusal(code) \in Replies /\ Refusal(code).got = {} /\ Refusal(code).code = code
    /\ NoReply.got = {} /\ NoReply.code = "none"
BY DEF Result, Refusal, Replies, NoReply

LEMMA RequestFacts ==
    /\ \A q \in Requests : q.body = {"paid"} \/ q.body \in Bodies
    /\ NoRequest.body = {}
BY DEF Requests, HttpRequests, McpRequests, NoRequest

LEMMA InitIInv == Init => IInv
<1> SUFFICES ASSUME Init PROVE IInv
  OBVIOUS
<1>1. TypeOK
  BY DEF Init, TypeOK
<1>2. Fresh /\ Unseen /\ Earned /\ Receipts /\ SpentOnce /\ OneHandshake
  BY DEF Init, Fresh, Unseen, Earned, Receipts, SpentOnce, OneHandshake
<1>3. EvidencePaidFor /\ FreeStaysFree
  BY ReplyFacts DEF Init, EvidencePaidFor, FreeStaysFree
<1> QED
  BY <1>1, <1>2, <1>3 DEF IInv

(* The Worker forwards the call or refuses it.                             *)
LEMMA SubmitIInv ==
  ASSUME IInv, NEW c \in Call, Submit(c)
  PROVE  IInv'
<1>1. TypeOK /\ Fresh /\ Unseen /\ Earned /\ Receipts /\ SpentOnce
  BY DEF IInv
<1>2. edge[c] = "idle" /\ stage[c] = "none" /\ reply[c] = NoReply
  BY <1>1 DEF Submit, Unseen
<1>3. c \notin inflight /\ c \notin charged /\ receipt[c] = "none"
  BY <1>1, <1>2 DEF Fresh
<1>4. TypeOK'
  BY <1>1, ReplyFacts DEF Submit, TypeOK, Refusals
<1>5. Fresh' /\ Unseen'
  BY <1>1, <1>2, <1>3 DEF Submit, TypeOK, Fresh, Unseen
<1>6. Earned' /\ Receipts' /\ SpentOnce'
  BY <1>1, <1>2, <1>3 DEF Submit, TypeOK, Earned, Receipts, SpentOnce
<1>7. OneHandshake'
  BY DEF IInv, Submit, OneHandshake
<1>8. EvidencePaidFor' /\ FreeStaysFree'
  BY <1>1, <1>2, ReplyFacts DEF IInv, Submit, TypeOK, EvidencePaidFor, FreeStaysFree, Refusals
<1> QED
  BY <1>4, <1>5, <1>6, <1>7, <1>8 DEF IInv

(* A paid body starts or joins the handshake, a free one does neither.     *)
LEMMA ArriveIInv ==
  ASSUME IInv, NEW c \in Call, Arrive(c)
  PROVE  IInv'
<1>1. TypeOK /\ Fresh /\ Unseen /\ Earned /\ Receipts /\ SpentOnce
  BY DEF IInv
<1>2. stage[c] = "arrived" /\ stage'[c] \in {"handling", "verifying", "awaiting"}
  BY <1>1 DEF Arrive, TypeOK
<1>3. \A d \in Call \ {c} : stage'[d] = stage[d]
  BY <1>1 DEF Arrive, TypeOK
<1>4. request[c].body = {"free"} => stage'[c] = "handling"
  BY <1>1 DEF Arrive, TypeOK, NeedsPayment
<1>5. TypeOK'
  BY <1>1 DEF Arrive, TypeOK
<1>6. Fresh' /\ Unseen' /\ Earned'
  BY <1>1, <1>2, <1>3 DEF Arrive, Fresh, Unseen, Earned
<1>7. Receipts' /\ SpentOnce' /\ EvidencePaidFor'
  BY DEF IInv, Arrive, Receipts, SpentOnce, EvidencePaidFor
<1>8. OneHandshake'
  BY <1>1 DEF IInv, Arrive, TypeOK, OneHandshake
<1>9. FreeStaysFree'
  BY <1>2, <1>3, <1>4 DEF IInv, Arrive, FreeStaysFree
<1> QED
  BY <1>5, <1>6, <1>7, <1>8, <1>9 DEF IInv

(* Only calls that await the handshake move, none of which is settling or  *)
(* free.                                                                   *)
LEMMA HandshakeSucceedsIInv ==
  ASSUME IInv, HandshakeSucceeds
  PROVE  IInv'
<1>1. TypeOK /\ Fresh /\ Unseen /\ Earned
  BY DEF IInv
<1>2. \A c \in Call :
        \/ stage'[c] = stage[c]
        \/ stage[c] = "awaiting" /\ stage'[c] = "verifying"
  BY DEF HandshakeSucceeds, Awaiting
<1>3. TypeOK'
  BY <1>1 DEF HandshakeSucceeds, TypeOK, Awaiting
<1>4. Fresh' /\ Unseen' /\ Earned'
  BY <1>1, <1>2 DEF HandshakeSucceeds, Fresh, Unseen, Earned
<1>5. Receipts' /\ SpentOnce' /\ EvidencePaidFor'
  BY DEF IInv, HandshakeSucceeds, Receipts, SpentOnce, EvidencePaidFor
<1>6. OneHandshake'
  BY <1>1 DEF IInv, HandshakeSucceeds, TypeOK, OneHandshake
<1>7. FreeStaysFree'
  BY <1>2 DEF IInv, HandshakeSucceeds, FreeStaysFree
<1> QED
  BY <1>3, <1>4, <1>5, <1>6, <1>7 DEF IInv

(* A failed handshake refuses those calls.                                 *)
LEMMA HandshakeFailsIInv ==
  ASSUME IInv, HandshakeFails
  PROVE  IInv'
<1>1. TypeOK /\ Fresh /\ Unseen /\ Earned
  BY DEF IInv
<1>2. \A c \in Call :
        \/ stage'[c] = stage[c] /\ edge'[c] = edge[c] /\ reply'[c] = reply[c]
        \/ /\ stage[c] = "awaiting" /\ stage'[c] = "finished" /\ edge'[c] = "answered"
           /\ reply'[c] \in {reply[c], Refusal("BACKEND_UNREACHABLE")}
  BY DEF HandshakeFails, Awaiting
<1>3. TypeOK'
  BY <1>1, ReplyFacts DEF HandshakeFails, TypeOK, Awaiting, Refusals
<1>4. Fresh' /\ Unseen' /\ Earned'
  BY <1>1, <1>2 DEF HandshakeFails, Fresh, Unseen, Earned
<1>5. Receipts' /\ SpentOnce'
  BY DEF IInv, HandshakeFails, Receipts, SpentOnce
<1>6. OneHandshake'
  BY <1>1 DEF IInv, HandshakeFails, TypeOK, OneHandshake
<1>7. EvidencePaidFor' /\ FreeStaysFree'
  BY <1>2, ReplyFacts DEF IInv, HandshakeFails, EvidencePaidFor, FreeStaysFree, Refusals
<1> QED
  BY <1>3, <1>4, <1>5, <1>6, <1>7 DEF IInv

(* What Respond does to the call it answers and to the others.             *)
LEMMA RespondFacts ==
  ASSUME TypeOK, NEW c \in Call, NEW answer \in Replies, Respond(c, answer)
  PROVE  /\ stage' \in [Call -> {"none", "arrived", "awaiting", "verifying", "handling",
                                "settling", "finished", "gone"}]
         /\ edge' \in [Call -> {"idle", "waiting", "answered"}]
         /\ reply' \in [Call -> Replies \cup {NoReply}]
         /\ stage'[c] = "finished" /\ edge'[c] = "answered"
         /\ reply'[c] \in {reply[c], answer}
         /\ \A d \in Call \ {c} :
              stage'[d] = stage[d] /\ edge'[d] = edge[d] /\ reply'[d] = reply[d]
BY DEF TypeOK, Respond

(* Verification admits a call or answers it with a refusal.                *)
LEMMA VerifyIInv ==
  ASSUME IInv, NEW c \in Call, Verify(c)
  PROVE  IInv'
<1>1. TypeOK /\ Fresh /\ Unseen /\ Earned /\ stage[c] = "verifying"
  BY DEF IInv, Verify
<1>2. \/ /\ stage'[c] = "handling" /\ UNCHANGED <<edge, reply>>
         /\ stage' = [stage EXCEPT ![c] = "handling"]
      \/ \E code \in {"PAYMENT_REQUIRED", "PAYMENT_INVALID"} : Respond(c, Refusal(code))
  BY <1>1 DEF Verify, TypeOK
<1>3. CASE stage' = [stage EXCEPT ![c] = "handling"] /\ UNCHANGED <<edge, reply>>
  <2>1. TypeOK'
    BY <1>1, <1>3 DEF Verify, TypeOK
  <2>2. Fresh' /\ Unseen' /\ Earned'
    BY <1>1, <1>3 DEF Verify, TypeOK, Fresh, Unseen, Earned
  <2>3. Receipts' /\ SpentOnce' /\ OneHandshake' /\ EvidencePaidFor'
    BY <1>3 DEF IInv, Verify, Receipts, SpentOnce, OneHandshake, EvidencePaidFor
  <2>4. FreeStaysFree'
    BY <1>1, <1>3 DEF IInv, Verify, TypeOK, FreeStaysFree
  <2> QED
    BY <2>1, <2>2, <2>3, <2>4 DEF IInv
<1>4. CASE \E code \in {"PAYMENT_REQUIRED", "PAYMENT_INVALID"} : Respond(c, Refusal(code))
  <2>1. PICK code \in {"PAYMENT_REQUIRED", "PAYMENT_INVALID"} : Respond(c, Refusal(code))
    BY <1>4
  <2>2. /\ Refusal(code) \in Replies /\ Refusal(code).got = {}
    BY ReplyFacts DEF Refusals
  <2>3. request[c].body # {"free"}
    BY <1>1 DEF IInv, FreeStaysFree
  <2>4. TypeOK'
    BY <1>1, <2>1, <2>2, RespondFacts DEF Verify, TypeOK
  <2>5. Fresh' /\ Unseen' /\ Earned'
    BY <1>1, <2>1, <2>2, RespondFacts DEF Verify, Fresh, Unseen, Earned
  <2>6. Receipts' /\ SpentOnce' /\ OneHandshake'
    BY DEF IInv, Verify, Receipts, SpentOnce, OneHandshake
  <2>7. EvidencePaidFor' /\ FreeStaysFree'
    BY <1>1, <2>1, <2>2, <2>3, RespondFacts DEF IInv, Verify, EvidencePaidFor, FreeStaysFree
  <2> QED
    BY <2>4, <2>5, <2>6, <2>7 DEF IInv
<1> QED
  BY <1>2, <1>3, <1>4

(* The handler ends: a free body and a failed one are answered, any other  *)
(* call is now settling with what it produced.                             *)
LEMMA HandlerEndsIInv ==
  ASSUME IInv, NEW c \in Call, HandlerEnds(c)
  PROVE  IInv'
<1>1. TypeOK /\ Fresh /\ Unseen /\ Earned /\ Receipts /\ SpentOnce /\ stage[c] = "handling"
  BY DEF IInv, HandlerEnds
<1>2. c \notin inflight /\ c \notin charged /\ receipt[c] = "none"
  BY <1>1 DEF Fresh
<1>3. PICK produced \in Produced(request[c]) :
        /\ answers' = [answers EXCEPT ![c] = produced]
        /\ \E line \in UsageLine(request[c], produced) : logged' = [logged EXCEPT ![c] = line]
        /\ \/ /\ ~NeedsPayment(request[c]) \/ Failed(request[c], produced)
              /\ Respond(c, Result(produced))
              /\ UNCHANGED inflight
           \/ /\ NeedsPayment(request[c]) /\ ~Failed(request[c], produced)
              /\ stage' = [stage EXCEPT ![c] = "settling"]
              /\ inflight' = inflight \cup {c}
              /\ UNCHANGED <<edge, reply>>
  BY DEF HandlerEnds
<1>4. UNCHANGED <<request, init, attempts, receipt, charged, crashes>>
  BY DEF HandlerEnds
<1>5. produced \in SUBSET Answers
  BY DEF Produced
<1>6. answers' \in [Call -> SUBSET Answers] /\ logged' \in [Call -> {"no", "ok", "error"}]
  BY <1>1, <1>3, <1>5 DEF TypeOK, UsageLine
<1>7. \A d \in Call : d # c => answers'[d] = answers[d]
  BY <1>1, <1>3 DEF TypeOK
<1>8. Receipts' /\ SpentOnce' /\ OneHandshake'
  <2>1. SpentOnce' /\ OneHandshake'
    BY <1>4 DEF IInv, SpentOnce, OneHandshake
  <2>2. Receipts'
    BY <1>1, <1>2, <1>3, <1>4 DEF Receipts
  <2> QED
    BY <2>1, <2>2
<1>9. CASE /\ ~NeedsPayment(request[c]) \/ Failed(request[c], produced)
           /\ Respond(c, Result(produced))
           /\ UNCHANGED inflight
  <2>1. /\ Result(produced) \in Replies
        /\ Result(produced).got = produced /\ Result(produced).code = "RESULT"
    BY <1>5, ReplyFacts
  <2>2. TypeOK'
    BY <1>1, <1>4, <1>6, <1>9, <2>1, RespondFacts DEF TypeOK
  <2>3. Fresh' /\ Unseen' /\ Earned'
    BY <1>1, <1>2, <1>4, <1>7, <1>9, <2>1, RespondFacts DEF Fresh, Unseen, Earned
  <2>4. "evidence" \in produced => "error" \in produced
    BY <1>9 DEF NeedsPayment, Produced, Failed
  <2>5. EvidencePaidFor' /\ FreeStaysFree'
    BY <1>1, <1>4, <1>9, <2>1, <2>4, RespondFacts DEF IInv, EvidencePaidFor, FreeStaysFree
  <2> QED
    BY <1>8, <2>2, <2>3, <2>5 DEF IInv
<1>10. CASE /\ NeedsPayment(request[c]) /\ ~Failed(request[c], produced)
            /\ stage' = [stage EXCEPT ![c] = "settling"]
            /\ inflight' = inflight \cup {c}
            /\ UNCHANGED <<edge, reply>>
  <2>1. TypeOK'
    BY <1>1, <1>4, <1>6, <1>10 DEF TypeOK
  <2>2. Fresh' /\ Unseen'
    BY <1>1, <1>4, <1>10 DEF TypeOK, Fresh, Unseen
  <2>3. answers'[c] = produced
    BY <1>1, <1>3 DEF TypeOK
  <2>4. Earned'
    BY <1>1, <1>4, <1>7, <1>10, <2>3 DEF TypeOK, Earned, Failed
  <2>5. request[c].body # {"free"}
    BY <1>10 DEF NeedsPayment
  <2>6. EvidencePaidFor' /\ FreeStaysFree'
    BY <1>1, <1>4, <1>10, <2>5 DEF IInv, TypeOK, EvidencePaidFor, FreeStaysFree
  <2> QED
    BY <1>8, <2>1, <2>2, <2>4, <2>6 DEF IInv
<1> QED
  BY <1>3, <1>9, <1>10

(* The facilitator takes a payment that was not taken before, or refuses.  *)
LEMMA SettleIInv ==
  ASSUME IInv, NEW c \in Call, Settle(c)
  PROVE  IInv'
<1>1. TypeOK /\ Fresh /\ Unseen /\ Earned /\ Receipts /\ SpentOnce
  BY DEF IInv
<1>2. c \in inflight /\ receipt[c] = "none" /\ c \notin charged
  BY <1>1 DEF Settle, Receipts
<1>3. stage[c] \notin {"none", "arrived", "awaiting", "verifying", "handling"}
  BY <1>1, <1>2 DEF Fresh
<1>4. TypeOK'
  BY <1>1 DEF Settle, TypeOK
<1>5. Fresh' /\ Unseen' /\ Earned' /\ Receipts'
  BY <1>1, <1>2, <1>3 DEF Settle, TypeOK, Fresh, Unseen, Earned, Receipts
<1>6. SpentOnce'
  BY <1>1 DEF Settle, SpentOnce, Spent
<1>7. OneHandshake' /\ EvidencePaidFor' /\ FreeStaysFree'
  BY DEF IInv, Settle, OneHandshake, EvidencePaidFor, FreeStaysFree
<1> QED
  BY <1>4, <1>5, <1>6, <1>7 DEF IInv

(* The held response goes out only on a receipt for the payment.           *)
LEMMA SettlementEndsIInv ==
  ASSUME IInv, NEW c \in Call, SettlementEnds(c)
  PROVE  IInv'
<1>1. TypeOK /\ Fresh /\ Unseen /\ Earned /\ Receipts /\ stage[c] = "settling"
  BY DEF IInv, SettlementEnds
<1>2. PICK answer \in {Result(answers[c]), Refusal("UNSETTLED")} :
        /\ Respond(c, answer)
        /\ answer = Result(answers[c]) => receipt[c] = "taken"
  <2>1. Result(answers[c]) # Refusal("UNSETTLED")
    BY DEF Result, Refusal
  <2> QED
    BY <2>1 DEF SettlementEnds
<1>3. /\ answer \in Replies
      /\ "evidence" \in answer.got => c \in charged
  <2>1. answers[c] \in SUBSET Answers /\ "UNSETTLED" \in Refusals
    BY <1>1 DEF TypeOK, Refusals
  <2> QED
    BY <1>1, <1>2, <2>1, ReplyFacts DEF Receipts
<1>4. UNCHANGED <<request, answers, logged, init, attempts, inflight, receipt, charged, crashes>>
  BY DEF SettlementEnds
<1>5. TypeOK'
  BY <1>1, <1>2, <1>3, <1>4, RespondFacts DEF TypeOK
<1>6. Fresh' /\ Unseen' /\ Earned'
  BY <1>1, <1>2, <1>3, <1>4, RespondFacts DEF Fresh, Unseen, Earned
<1>7. Receipts' /\ SpentOnce' /\ OneHandshake'
  BY <1>4 DEF IInv, Receipts, SpentOnce, OneHandshake
<1>8. request[c].body # {"free"}
  BY <1>1 DEF Earned, NeedsPayment
<1>9. EvidencePaidFor' /\ FreeStaysFree'
  BY <1>1, <1>2, <1>3, <1>4, <1>8, RespondFacts DEF IInv, EvidencePaidFor, FreeStaysFree
<1> QED
  BY <1>5, <1>6, <1>7, <1>9 DEF IInv

(* The Worker gives up; at most an MCP handler is lost with its socket.    *)
LEMMA EdgeTimesOutIInv ==
  ASSUME IInv, NEW c \in Call, EdgeTimesOut(c)
  PROVE  IInv'
<1>1. TypeOK /\ Fresh /\ Unseen /\ Earned /\ edge[c] = "waiting"
  BY DEF IInv, EdgeTimesOut
<1>2. \A d \in Call :
        stage'[d] = stage[d] \/ (stage[d] = "handling" /\ stage'[d] = "gone")
  <2>1. \/ UNCHANGED stage
        \/ stage[c] = "handling" /\ stage' = [stage EXCEPT ![c] = "gone"]
    BY DEF EdgeTimesOut
  <2> QED
    BY <1>1, <2>1 DEF TypeOK
<1>3. /\ edge'[c] = "answered" /\ reply'[c] = Refusal("BACKEND_UNREACHABLE")
      /\ \A d \in Call \ {c} : edge'[d] = edge[d] /\ reply'[d] = reply[d]
  BY <1>1 DEF EdgeTimesOut, TypeOK
<1>4. UNCHANGED <<request, answers, logged, init, attempts, inflight, receipt, charged, crashes>>
  BY DEF EdgeTimesOut
<1>5. TypeOK'
  BY <1>1, ReplyFacts DEF EdgeTimesOut, TypeOK, Refusals
<1>6. Fresh' /\ Unseen' /\ Earned'
  BY <1>1, <1>2, <1>3, <1>4 DEF Fresh, Unseen, Earned
<1>7. Receipts' /\ SpentOnce' /\ OneHandshake'
  BY <1>4 DEF IInv, Receipts, SpentOnce, OneHandshake
<1>8. EvidencePaidFor' /\ FreeStaysFree'
  BY <1>2, <1>3, <1>4, ReplyFacts DEF IInv, EvidencePaidFor, FreeStaysFree, Refusals
<1> QED
  BY <1>5, <1>6, <1>7, <1>8 DEF IInv

(* A crash loses what the process knew and nothing the facilitator knows.  *)
LEMMA CrashIInv ==
  ASSUME IInv, Crash
  PROVE  IInv'
<1>1. TypeOK /\ Fresh /\ Unseen /\ Earned
  BY DEF IInv
<1>2. \A c \in Call :
        /\ stage'[c] = stage[c] \/ stage'[c] = "gone"
        /\ stage[c] = "none" => stage'[c] = "none"
        /\ edge'[c] = "idle" => edge[c] = "idle"
        /\ \/ reply'[c] = reply[c]
           \/ edge[c] = "waiting" /\ reply'[c] = Refusal("BACKEND_UNREACHABLE")
  BY <1>1 DEF Crash
<1>3. UNCHANGED <<request, answers, logged, inflight, receipt, charged>>
  BY DEF Crash
<1>4. TypeOK'
  BY <1>1, ReplyFacts, PaidCallAssumption DEF Crash, TypeOK, Refusals, PaidCallAssumption
<1>5. Fresh' /\ Unseen' /\ Earned'
  BY <1>1, <1>2, <1>3 DEF Fresh, Unseen, Earned
<1>6. Receipts' /\ SpentOnce' /\ OneHandshake'
  BY <1>3 DEF IInv, Crash, Receipts, SpentOnce, OneHandshake
<1>7. EvidencePaidFor' /\ FreeStaysFree'
  BY <1>2, <1>3, ReplyFacts DEF IInv, EvidencePaidFor, FreeStaysFree, Refusals
<1> QED
  BY <1>4, <1>5, <1>6, <1>7 DEF IInv

LEMMA NextIInv == IInv /\ [Next]_vars => IInv'
<1> SUFFICES ASSUME IInv, [Next]_vars PROVE IInv'
  OBVIOUS
<1>1. ASSUME NEW c \in Call,
             \/ Submit(c) \/ Backend(c) \/ Settle(c) \/ EdgeTimesOut(c)
      PROVE  IInv'
  BY <1>1, SubmitIInv, ArriveIInv, VerifyIInv, HandlerEndsIInv, SettlementEndsIInv,
     SettleIInv, EdgeTimesOutIInv DEF Backend
<1>2. CASE HandshakeSucceeds
  BY <1>2, HandshakeSucceedsIInv
<1>3. CASE HandshakeFails
  BY <1>3, HandshakeFailsIInv
<1>4. CASE Crash
  BY <1>4, CrashIInv
<1>5. CASE UNCHANGED vars
  BY <1>5 DEF vars, IInv, TypeOK, Fresh, Unseen, Earned, Receipts, SpentOnce, OneHandshake,
     EvidencePaidFor, FreeStaysFree
<1> QED
  BY <1>1, <1>2, <1>3, <1>4, <1>5 DEF Next

LEMMA InvariantHolds == Spec => []IInv
BY InitIInv, NextIInv, PTL DEF Spec

(* The type invariant.                                                     *)
THEOREM TypeCorrect == Spec => []TypeOK
<1>1. IInv => TypeOK
  BY DEF IInv
<1> QED
  BY <1>1, InvariantHolds, PTL

(* Money is taken only for a call without a failed message, and only with  *)
(* evidence if the body asks for any, whatever else it holds: Failed looks *)
(* at every answer of a batch before the payment is settled.               *)
THEOREM ChargesAreEarned == Spec => []ChargedForEvidence
<1>1. IInv => ChargedForEvidence
  <2> SUFFICES ASSUME IInv, NEW c \in charged
              PROVE  /\ "error" \notin answers[c]
                     /\ "paid" \in request[c].body => "evidence" \in answers[c]
    BY DEF ChargedForEvidence
  <2>1. c \in Call
    BY DEF IInv, TypeOK
  <2>2. answers[c] \in Produced(request[c]) /\ "error" \notin answers[c]
    BY <2>1 DEF IInv, Earned
  <2> QED
    BY <2>2 DEF Produced
<1> QED
  BY <1>1, InvariantHolds, PTL

(* A complete result reaches the buyer only for money.                     *)
THEOREM EvidenceIsPaidFor == Spec => []EvidencePaidFor
<1>1. IInv => EvidencePaidFor
  BY DEF IInv
<1> QED
  BY <1>1, InvariantHolds, PTL

(* An authorisation buys at most one delivery, however many calls carry it *)
(* and however they overlap.                                               *)
THEOREM ProofBuysOneDelivery == Spec => []OneDeliveryPerProof
<1>1. IInv => OneDeliveryPerProof
  <2> SUFFICES ASSUME IInv, NEW c \in Call, NEW d \in Call,
                      c # d, request[c].proof = request[d].proof,
                      \A x \in {c, d} : "evidence" \in reply[x].got /\ "error" \notin reply[x].got
              PROVE  FALSE
    BY DEF OneDeliveryPerProof
  <2>1. c \in charged /\ d \in charged
    BY DEF IInv, EvidencePaidFor
  <2> QED
    BY <2>1 DEF IInv, SpentOnce
<1> QED
  BY <1>1, InvariantHolds, PTL

(* At most one handshake runs in a process.                                *)
THEOREM HandshakesSerial == Spec => []HandshakesDoNotOverlap
<1>1. IInv => HandshakesDoNotOverlap
  BY DEF IInv, OneHandshake, HandshakesDoNotOverlap
<1> QED
  BY <1>1, InvariantHolds, PTL

(* The free surface never touches the payment path.                        *)
THEOREM FreeIsFree == Spec => []FreeStaysFree
<1>1. IInv => FreeStaysFree
  BY DEF IInv
<1> QED
  BY <1>1, InvariantHolds, PTL
=============================================================================
