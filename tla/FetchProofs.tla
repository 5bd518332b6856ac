----------------------------- MODULE FetchProofs -----------------------------
(***************************************************************************)
(* Theorems about SourceFetch and about RobotsCache, which fetches the     *)
(* files of rules.  Whatever the resolver answers and wherever a site      *)
(* redirects to, only allowed addresses are contacted, a result is what    *)
(* the chain of redirects led to, and nothing is left open; the cache of   *)
(* rules keeps its size, and the age of what it answers is bounded.        *)
(***************************************************************************)
EXTENDS SourceFetch, RobotsCache, FiniteSetTheorems, FunctionTheorems, WellFoundedInduction, TLAPS

(* A verdict is "ok" or an error.                                          *)
LEMMA Verdicts ==
    ASSUME NEW u, NEW e, NEW answer
    PROVE  /\ StaticVerdict(u, e) \in {"ok", "INVALID_URL", "BLOCKED_URL"}
           /\ ValidateUrl(u, e, answer) \in {"ok", "INVALID_URL", "BLOCKED_URL"}
           /\ ValidateUrl(u, e, answer) = "ok" => StaticVerdict(u, e) = "ok"
  <1>1. StaticVerdict(u, e) \in {"ok", "INVALID_URL", "BLOCKED_URL"}
    BY DEF StaticVerdict
  <1>2. QED
    BY <1>1 DEF ValidateUrl

(* What is not disallowed lies in no listed block.                         *)
Unlisted(a, e) ==
    a.block \in DisallowedV4 \cup DisallowedV6 => e /\ a.block = "loopback"

LEMMA GoodAddress ==
    ASSUME NEW a \in Address, NEW e \in BOOLEAN, ~BadAddress(a, e)
    PROVE  Unlisted(a, e)
  <1>1. CASE a.block \in Passed
    BY <1>1 DEF Passed, Unlisted, DisallowedV4, DisallowedV6
  <1>2. CASE a.block \notin Passed
    <2> SUFFICES ClassifyIp(a)
      BY DEF BadAddress, IsLoopback, Unlisted
    <2>1. CASE a \in [family : {4}, mapped : {FALSE}, block : DisallowedV4 \cup Passed]
      <3>1. a.family = 4 /\ a.block \in DisallowedV4
        BY <1>2, <2>1
      <3>2. QED
        BY <3>1 DEF ClassifyIp, ClassifyIpv4
    <2>2. CASE a \in [family : {6}, mapped : {TRUE}, block : DisallowedV4 \cup Passed]
      <3>1. a.family = 6 /\ a.mapped = TRUE /\ a.block \in DisallowedV4
        BY <1>2, <2>2
      <3>2. QED
        BY <3>1 DEF ClassifyIp, ClassifyIpv6, ClassifyIpv4
    <2>3. CASE a \in [family : {6}, mapped : {FALSE}, block : DisallowedV6 \cup Passed]
      <3>1. a.family = 6 /\ a.mapped = FALSE /\ a.block \in DisallowedV6
        BY <1>2, <2>3
      <3>2. QED
        BY <3>1 DEF ClassifyIp, ClassifyIpv6
    <2>4. QED
      BY <2>1, <2>2, <2>3 DEF Address
  <1>3. QED
    BY <1>1, <1>2

(* What a URL is that passes the static checks.                            *)
LEMMA StaticOk ==
    ASSUME NEW u \in UrlRecord, NEW e \in BOOLEAN, StaticVerdict(u, e) = "ok"
    PROVE  /\ u.scheme \in {"http", "https"} /\ ~u.credentials
           /\ u.port \in ALLOWED_PORTS \/ (e /\ u.host.literal)
           /\ u.host.literal =>
                /\ u.host.address \in Address
                /\ Unlisted(u.host.address, e)
  <1>1. /\ u.scheme \in {"http", "https"} /\ ~u.credentials
        /\ ~ClassifyPort(u.port) \/ (e /\ LiteralLoopback(u.host))
        /\ ~(/\ u.host.literal /\ ClassifyIp(u.host.address)
             /\ ~(e /\ LiteralLoopback(u.host)))
    BY DEF StaticVerdict, UrlRecord
  <1>2. u.port \in ALLOWED_PORTS \/ (e /\ u.host.literal)
    BY <1>1 DEF ClassifyPort, LiteralLoopback
  <1>3. ASSUME u.host.literal
        PROVE  /\ u.host.address \in Address
               /\ Unlisted(u.host.address, e)
    <2>1. u.host.address \in Address
      BY <1>3 DEF UrlRecord, Host
    <2>2. ~BadAddress(u.host.address, e)
      BY <1>1, <1>3 DEF BadAddress, LiteralLoopback
    <2>3. QED
      BY <2>1, <2>2, GoodAddress
  <1>4. QED
    BY <1>1, <1>2, <1>3

-----------------------------------------------------------------------------
(* A request is closed or ended exactly if it is decided, its timer is     *)
(* armed only while it is not, it ended only with an answer, it is within  *)
(* the limits unless it failed, and the redirect limit is none of its      *)
(* failures.                                                               *)
RequestSound(r) ==
    /\ r.stage \in {"ended", "closed"} <=> r.fate # "pending"
    /\ r.stage = "ended" => r.fate = "response"
    /\ r.timer => r.stage \notin {"none", "ended", "closed"}
    /\ r.fate \in {"pending", "response"} => ~TooLarge(r)
    /\ r.fate # "REDIRECT_LIMIT"

(* Every URL of the chain is one, and each but the first is where its      *)
(* predecessor, answered in full, pointed.                                 *)
Chained ==
    /\ \A h \in 0..hop : url[h] \in Url
    /\ \A h \in 1..hop : req[h - 1].fate = "response" /\ req[h - 1].location = url[h]

(* Requests were sent for validated URLs, and all but the one of the       *)
(* current hop are decided.                                                *)
Sent ==
    \A h \in Hop : req[h].stage # "none" =>
      /\ h <= hop
      /\ StaticVerdict(url[h], escape) = "ok"
      /\ h < hop => req[h].fate = "response"
      /\ h = hop => phase # "validating"
      /\ h = hop /\ phase = "done" => req[h].fate # "pending"

Reached == \A a \in contacts : Unlisted(a, escape)

(* The result is set once, when everything is done.                        *)
Concluded ==
    /\ result.code = "pending" <=> phase # "done"
    /\ result.code = "ok" =>
         req[hop].fate = "response" /\ result.final = url[hop] /\ result.bytes = req[hop].bytes
    /\ result.code = "REDIRECT_LIMIT" => hop = MaxRedirects

IInv ==
    /\ TypeOK
    /\ \A h \in Hop : RequestSound(req[h])
    /\ Chained
    /\ Sent
    /\ Reached
    /\ Concluded

LEMMA Bounds == /\ MaxRedirects \in Nat /\ MaxBytes \in Nat /\ RatioFloor \in Nat
                /\ MaxRatio \in Nat /\ Url \subseteq UrlRecord
                /\ NoUrl \notin Url /\ BadUrl \notin Url /\ NoUrl # BadUrl
                /\ Expansion \subseteq Nat
  BY FetchAssumption DEF FetchAssumption

LEMMA Answers == ASSUME NEW answer \in DnsAnswers, NEW a \in answer PROVE a \in Address
  BY FetchAssumption DEF FetchAssumption

LEMMA InitSound == Init => IInv
  <1> SUFFICES ASSUME Init PROVE IInv
    OBVIOUS
  <1> USE Bounds
  <1>1. NoRequest \in Requests
    BY DEF NoRequest, Requests, Stages
  <1>2. 0 \in Hop
    BY DEF Hop
  <1>3. TypeOK
    BY <1>1, <1>2 DEF Init, TypeOK, Pending, Threw, Outcome
  <1>4. RequestSound(NoRequest)
    BY DEF RequestSound, NoRequest, TooLarge
  <1>5. QED
    BY <1>2, <1>3, <1>4
       DEF Init, IInv, Chained, Sent, Reached, Concluded, NoRequest, Pending, Threw, Outcome, Hop

-----------------------------------------------------------------------------
(* However an open request fails, it is closed and its timer disarmed.     *)
LEMMA FailSound ==
    ASSUME NEW r \in Requests, r.fate = "pending",
           NEW code \in Errors, code # "REDIRECT_LIMIT"
    PROVE  Fail(r, code) \in Requests /\ RequestSound(Fail(r, code))
           /\ Fail(r, code).stage # "none"
  <1> DEFINE d == Destroyed(r)
  <1>1. d \in Requests /\ d.stage = "closed" /\ d.fate = "pending"
    BY DEF Destroyed, Requests, Stages
  <1>2. Fail(r, code) = [d EXCEPT !.fate = code, !.timer = FALSE]
    BY <1>1 DEF Fail, Finish
  <1>3. code # "pending" /\ code # "response"
    BY DEF Errors
  <1>4. QED
    BY <1>1, <1>2, <1>3 DEF Requests, RequestSound

(* A unit more changes the counts alone.                                   *)
LEMMA CountsGrow ==
    ASSUME NEW r0 \in Requests, NEW n \in Nat
    PROVE  LET r == [r0 EXCEPT !.wire = @ + 1, !.bytes = @ + n] IN
           /\ r \in Requests
           /\ r.stage = r0.stage /\ r.fate = r0.fate /\ r.timer = r0.timer
  <1> DEFINE w == r0.wire + 1
             b == r0.bytes + n
             r == [r0 EXCEPT !.wire = w, !.bytes = b]
  <1>1. w \in Nat /\ b \in Nat
    BY DEF Requests
  <1> HIDE DEF w, b
  <1>2. r \in Requests /\ r.stage = r0.stage /\ r.fate = r0.fate /\ r.timer = r0.timer
    BY <1>1 DEF Requests
  <1>3. QED
    BY <1>2 DEF w, b

(* An event or a timer moves one request, from sound to sound.             *)
Moved(h, r) ==
    /\ r \in Requests /\ RequestSound(r) /\ r.stage # "none"
    /\ req' = [req EXCEPT ![h] = r]

LEMMA EventMoves ==
    ASSUME IInv, NEW h \in Hop, Event(h) \/ TotalTimeout(h), req[h].stage # "ended"
    PROVE  /\ req[h].stage \notin {"none", "ended", "closed"}
           /\ \E r \in Requests : Moved(h, r)
           /\ UNCHANGED <<escape, hop, url, phase, result>>
  <1> DEFINE r0 == req[h]
  <1>0. r0 \in Requests /\ RequestSound(r0)
    BY DEF IInv, TypeOK
  <1>1. r0.stage \notin {"none", "ended", "closed"}
    BY <1>0 DEF Event, Connect, Headers, Data, End, Breaks, IdleTimeout, TotalTimeout,
                RequestSound
  <1>11. UNCHANGED <<escape, hop, url, phase, result>>
    BY DEF Event, Connect, Headers, Data, End, Breaks, IdleTimeout, TotalTimeout
  <1> SUFFICES \E r \in Requests : Moved(h, r)
    BY <1>1, <1>11
  <1>2. r0.fate = "pending" /\ ~TooLarge(r0)
    BY <1>0, <1>1 DEF RequestSound
  <1>3. ASSUME NEW code \in {"TIMEOUT", "RESPONSE_TOO_LARGE", "UPSTREAM_HTTP_FAILURE",
                             "SSRF_ATTEMPT"},
               req' = [req EXCEPT ![h] = Fail(@, code)]
        PROVE  \E r \in Requests : Moved(h, r)
    <2>1. Moved(h, Fail(r0, code))
      BY <1>0, <1>2, <1>3, FailSound DEF Moved, Errors
    <2>2. QED
      BY <2>1 DEF Moved
  <1>4. ASSUME NEW s \in {"waiting", "stalled"}, req' = [req EXCEPT ![h].stage = s]
        PROVE  \E r \in Requests : Moved(h, r)
    <2> DEFINE r == [r0 EXCEPT !.stage = s]
    <2>1. r \in Requests
      BY <1>0 DEF Requests, Stages
    <2>2. RequestSound(r)
      BY <1>0, <1>2 DEF RequestSound, TooLarge, Requests
    <2>3. req' = [req EXCEPT ![h] = r]
      BY <1>4
    <2>4. QED
      BY <1>0, <2>1, <2>2, <2>3 DEF Moved, Requests
  <1>5. CASE Connect(h)
    BY <1>5, <1>3, <1>4 DEF Connect, GuardedLookup
  <1>6. CASE Headers(h)
    <2>1. CASE req' = [req EXCEPT ![h] = Fail(@, "RESPONSE_TOO_LARGE")]
      BY <2>1, <1>3
    <2>2. ASSUME NEW l \in Url \cup {NoUrl, BadUrl}, NEW e \in Encodings,
                 req' = [req EXCEPT ![h].stage = "body", ![h].location = l,
                                    ![h].encoded = Decoded(e)]
          PROVE  \E r \in Requests : Moved(h, r)
      <3> DEFINE r == [r0 EXCEPT !.stage = "body", !.location = l, !.encoded = Decoded(e)]
      <3>1. Decoded(e) \in BOOLEAN
        BY DEF Decoded
      <3>2. r \in Requests
        BY <1>0, <2>2, <3>1 DEF Requests, Stages
      <3>3. RequestSound(r)
        BY <1>0, <1>2 DEF RequestSound, TooLarge, Requests
      <3>4. req' = [req EXCEPT ![h] = r]
        BY <2>2
      <3>5. QED
        BY <1>0, <3>2, <3>3, <3>4 DEF Moved, Requests
    <2>3. QED
      BY <1>6, <2>1, <2>2 DEF Headers
  <1>7. CASE Data(h)
    <2>1. PICK n \in (IF req[h].encoded THEN Expansion ELSE {1}) :
            LET r == [req[h] EXCEPT !.wire = @ + 1, !.bytes = @ + n] IN
            req' = [req EXCEPT ![h] = IF TooLarge(r) THEN Fail(r, "RESPONSE_TOO_LARGE") ELSE r]
      BY <1>7 DEF Data
    <2>6. n \in Nat
      BY Bounds
    <2> DEFINE r == [r0 EXCEPT !.wire = @ + 1, !.bytes = @ + n]
    <2>2. r \in Requests /\ r.stage = r0.stage /\ r.fate = "pending" /\ r.timer = r0.timer
      BY <1>0, <1>2, <2>6, CountsGrow
    <2>3. CASE ~TooLarge(r)
      BY <1>0, <1>1, <2>1, <2>2, <2>3 DEF Moved, RequestSound
    <2>4. CASE TooLarge(r)
      <3> HIDE DEF r
      <3>1. /\ Fail(r, "RESPONSE_TOO_LARGE") \in Requests
            /\ RequestSound(Fail(r, "RESPONSE_TOO_LARGE"))
            /\ Fail(r, "RESPONSE_TOO_LARGE").stage # "none"
        BY <2>2, FailSound DEF Errors
      <3>2. req' = [req EXCEPT ![h] = Fail(r, "RESPONSE_TOO_LARGE")]
        BY <2>1, <2>4 DEF r
      <3>3. QED
        BY <3>1, <3>2 DEF Moved
    <2>5. QED
      BY <2>3, <2>4
  <1>8. CASE End(h)
    <2> DEFINE r == [r0 EXCEPT !.stage = "ended", !.fate = "response", !.timer = FALSE]
    <2>1. Finish([r0 EXCEPT !.stage = "ended"], "response") = r
      BY <1>0, <1>2 DEF Finish, Requests
    <2>2. r \in Requests /\ RequestSound(r) /\ r.stage # "none"
      BY <1>0, <1>2 DEF Requests, Stages, RequestSound, TooLarge
    <2>3. QED
      BY <1>8, <2>1, <2>2 DEF Moved, End
  <1>9. CASE Breaks(h)
    BY <1>9, <1>3, <1>4 DEF Breaks
  <1>10. CASE IdleTimeout(h) \/ TotalTimeout(h)
    BY <1>10, <1>3 DEF IdleTimeout, TotalTimeout
  <1>12. QED
    BY <1>5, <1>6, <1>7, <1>8, <1>9, <1>10 DEF Event

(* The connection of a complete answer can only close.                     *)
LEMMA ClosingMoves ==
    ASSUME IInv, NEW h \in Hop, Event(h) \/ TotalTimeout(h), req[h].stage = "ended"
    PROVE  /\ \E r \in Requests :
                /\ RequestSound(r) /\ r.stage = "closed" /\ r.fate = req[h].fate
                /\ r.location = req[h].location /\ r.bytes = req[h].bytes
                /\ req' = [req EXCEPT ![h] = r]
           /\ UNCHANGED <<escape, hop, url, phase, contacts, result>>
  <1> DEFINE r0 == req[h]
             r == [r0 EXCEPT !.stage = "closed"]
  <1>1. r0 \in Requests /\ RequestSound(r0) /\ r0.stage = "ended"
    BY DEF IInv, TypeOK
  <1>2. r0.fate = "response" /\ ~r0.timer
    BY <1>1 DEF RequestSound, Requests
  <1>3. Breaks(h) \/ IdleTimeout(h)
    BY <1>1, <1>2 DEF Event, Connect, Headers, Data, End, TotalTimeout
  <1>4. \A code : Fail(r0, code) = r
    BY <1>1, <1>2 DEF Fail, Finish, Destroyed, Requests
  <1>5. req' = [req EXCEPT ![h] = r] /\ UNCHANGED <<escape, hop, url, phase, contacts, result>>
    BY <1>1, <1>3, <1>4 DEF Breaks, IdleTimeout
  <1>6. /\ r \in Requests /\ r.stage = "closed" /\ r.fate = r0.fate
        /\ r.location = r0.location /\ r.bytes = r0.bytes
        /\ r.wire = r0.wire /\ r.timer = r0.timer
    BY <1>1 DEF Requests, Stages
  <1> HIDE DEF r
  <1>7. RequestSound(r)
    BY <1>1, <1>2, <1>6 DEF RequestSound, TooLarge
  <1>8. QED
    BY <1>5, <1>6, <1>7

LEMMA NextSound == IInv /\ [Next]_vars => IInv'
  <1> SUFFICES ASSUME IInv, [Next]_vars PROVE IInv'
    OBVIOUS
  <1> USE Bounds
  <1>0. /\ TypeOK /\ Chained /\ Sent /\ Reached /\ Concluded
        /\ \A h \in Hop : RequestSound(req[h])
        /\ hop \in Nat /\ hop <= MaxRedirects /\ 0..hop \subseteq Hop
    BY DEF IInv, TypeOK, Hop
  <1>1. CASE Validate
    <2>1. PICK answer \in DnsAnswers :
            LET verdict == ValidateUrl(url[hop], escape, answer) IN
            IF verdict # "ok" THEN Throw(verdict) /\ UNCHANGED req
            ELSE /\ phase' = "requesting"
                 /\ req' = [req EXCEPT ![hop].stage = "connecting", ![hop].timer = TRUE]
                 /\ UNCHANGED result
      BY <1>1 DEF Validate
    <2> DEFINE verdict == ValidateUrl(url[hop], escape, answer)
    <2>2. /\ verdict \in {"ok", "INVALID_URL", "BLOCKED_URL"}
          /\ verdict = "ok" => StaticVerdict(url[hop], escape) = "ok"
      BY Verdicts
    <2>3. phase = "validating" /\ UNCHANGED <<escape, hop, url, contacts>>
      BY <1>1 DEF Validate
    <2> HIDE DEF verdict
    <2>4. req[hop] \in Requests /\ req[hop].stage = "none" /\ hop \in Hop
      BY <1>0, <2>3 DEF TypeOK, Sent
    <2>5. CASE verdict # "ok"
      <3>1. phase' = "done" /\ result' = Threw(verdict) /\ UNCHANGED req
        BY <2>1, <2>5 DEF Throw, verdict
      <3>2. TypeOK'
        BY <1>0, <2>2, <2>3, <2>5, <3>1 DEF TypeOK, Threw, Outcome, Errors
      <3>3. Chained' /\ Sent' /\ Reached'
        BY <1>0, <2>3, <2>4, <3>1 DEF Chained, Sent, Reached
      <3>4. Concluded' /\ \A h \in Hop : RequestSound(req[h])'
        BY <1>0, <2>2, <2>5, <3>1 DEF Concluded, Threw, Outcome, RequestSound, TooLarge
      <3>5. QED
        BY <3>2, <3>3, <3>4 DEF IInv
    <2>6. CASE verdict = "ok"
      <3> DEFINE r == [req[hop] EXCEPT !.stage = "connecting", !.timer = TRUE]
      <3>1. phase' = "requesting" /\ UNCHANGED result /\ req' = [req EXCEPT ![hop] = r]
        BY <2>1, <2>6 DEF verdict
      <3>2. /\ r \in Requests /\ r.stage = "connecting" /\ r.fate = req[hop].fate
            /\ r.bytes = req[hop].bytes /\ r.wire = req[hop].wire
            /\ r.location = req[hop].location
        BY <2>4 DEF Requests, Stages
      <3>3. RequestSound(r)
        BY <1>0, <2>4, <3>2 DEF RequestSound, TooLarge
      <3> HIDE DEF r
      <3>4. /\ \A h \in Hop : req'[h] = IF h = hop THEN r ELSE req[h]
            /\ req' \in [Hop -> Requests]
        BY <1>0, <2>4, <3>1, <3>2 DEF TypeOK
      <3>5. TypeOK'
        BY <1>0, <2>3, <3>1, <3>4 DEF TypeOK
      <3>6. \A h \in Hop : RequestSound(req'[h])
        BY <1>0, <3>3, <3>4
      <3>7. Chained'
        <4>1. \A h \in 1..hop : h - 1 \in Hop /\ h - 1 # hop
          BY <1>0 DEF Hop
        <4>2. QED
          BY <1>0, <2>3, <3>4, <4>1 DEF Chained
      <3>8. Sent'
        BY <1>0, <2>2, <2>3, <2>6, <3>1, <3>4 DEF Sent
      <3>9. Reached' /\ Concluded'
        BY <1>0, <2>3, <3>1 DEF Reached, Concluded
      <3>10. (\A h \in Hop : RequestSound(req[h]))'
        BY <3>6 DEF RequestSound, TooLarge
      <3>11. QED
        BY <3>5, <3>7, <3>8, <3>9, <3>10 DEF IInv
    <2>7. QED
      BY <2>5, <2>6
  <1>2. ASSUME NEW h \in Hop, Event(h) \/ TotalTimeout(h), req[h].stage # "ended"
        PROVE  IInv'
    <2>1. /\ req[h].stage \notin {"none", "ended", "closed"}
          /\ UNCHANGED <<escape, hop, url, phase, result>>
      BY <1>2, EventMoves
    <2>2. PICK r \in Requests : Moved(h, r)
      BY <1>2, EventMoves
    <2>3. req[h].fate = "pending"
      BY <1>0, <2>1 DEF RequestSound
    <2>4. h = hop /\ phase = "requesting" /\ StaticVerdict(url[h], escape) = "ok"
          /\ url[h] \in Url
      BY <1>0, <2>1, <2>3 DEF Sent, TypeOK, Chained, Hop
    <2>5. /\ \A g \in Hop : req'[g] = IF g = h THEN r ELSE req[g]
          /\ req' \in [Hop -> Requests]
      BY <1>0, <2>2 DEF Moved, TypeOK
    <2>6. contacts' \subseteq Address /\ Reached'
      <3>1. CASE Connect(h)
        <4>1. CASE url[h].host.literal
          BY <1>0, <2>1, <2>4, <3>1, <4>1, StaticOk DEF Connect, TypeOK, Reached
        <4>2. CASE ~url[h].host.literal /\ contacts' # contacts
          <5>1. PICK answer \in DnsAnswers :
                  /\ GuardedLookup(answer) = "ok"
                  /\ \E a \in answer : contacts' = contacts \cup {a}
            BY <3>1, <4>2 DEF Connect
          <5>2. PICK a \in answer : contacts' = contacts \cup {a}
            BY <5>1
          <5>3. a \in Address /\ ~BadAddress(a, escape)
            BY <5>1, <5>2, Answers DEF GuardedLookup
          <5>4. Unlisted(a, escape)
            BY <1>0, <5>3, GoodAddress DEF TypeOK
          <5>5. QED
            BY <1>0, <2>1, <5>2, <5>3, <5>4 DEF TypeOK, Reached
        <4>3. CASE contacts' = contacts
          BY <1>0, <2>1, <4>3 DEF TypeOK, Reached
        <4>4. QED
          BY <4>1, <4>2, <4>3
      <3>2. CASE ~Connect(h)
        <4>1. contacts' = contacts
          BY <1>2, <3>2 DEF Event, Headers, Data, End, Breaks, IdleTimeout, TotalTimeout
        <4>2. QED
          BY <1>0, <2>1, <4>1 DEF TypeOK, Reached
      <3>3. QED
        BY <3>1, <3>2
    <2>7. TypeOK'
      BY <1>0, <2>1, <2>5, <2>6 DEF TypeOK
    <2>8. (\A g \in Hop : RequestSound(req[g]))'
      <3>1. \A g \in Hop : RequestSound(req'[g])
        BY <1>0, <2>2, <2>5 DEF Moved
      <3>2. QED
        BY <3>1 DEF RequestSound, TooLarge
    <2>9. Chained'
      <3>1. \A g \in 1..hop : g - 1 \in Hop /\ g - 1 # hop
        BY <1>0 DEF Hop
      <3>2. QED
        BY <1>0, <2>1, <2>4, <2>5, <3>1 DEF Chained
    <2>10. Sent'
      BY <1>0, <2>1, <2>2, <2>4, <2>5 DEF Sent, Moved
    <2>11. Concluded'
      BY <1>0, <2>1, <2>4 DEF Concluded
    <2>12. QED
      BY <2>6, <2>7, <2>8, <2>9, <2>10, <2>11 DEF IInv
  <1>6. ASSUME NEW h \in Hop, Event(h) \/ TotalTimeout(h), req[h].stage = "ended"
        PROVE  IInv'
    <2>1. UNCHANGED <<escape, hop, url, phase, contacts, result>>
      BY <1>6, ClosingMoves
    <2>2. PICK r \in Requests :
            /\ RequestSound(r) /\ r.stage = "closed" /\ r.fate = req[h].fate
            /\ r.location = req[h].location /\ r.bytes = req[h].bytes
            /\ req' = [req EXCEPT ![h] = r]
      BY <1>6, ClosingMoves
    <2>3. /\ \A g \in Hop : req'[g] = IF g = h THEN r ELSE req[g]
          /\ req' \in [Hop -> Requests]
      BY <1>0, <2>2 DEF TypeOK
    <2>4. \A g \in Hop :
            /\ req'[g].fate = req[g].fate /\ req'[g].location = req[g].location
            /\ req'[g].bytes = req[g].bytes
            /\ req'[g].stage # "none" => req[g].stage # "none"
      BY <1>6, <2>2, <2>3
    <2>5. TypeOK' /\ Reached'
      BY <1>0, <2>1, <2>3 DEF TypeOK, Reached
    <2>6. (\A g \in Hop : RequestSound(req[g]))'
      <3>1. \A g \in Hop : RequestSound(req'[g])
        BY <1>0, <2>2, <2>3
      <3>2. QED
        BY <3>1 DEF RequestSound, TooLarge
    <2>7. Chained'
      <3>1. \A g \in 1..hop : g - 1 \in Hop
        BY <1>0 DEF Hop
      <3>2. QED
        BY <1>0, <2>1, <2>4, <3>1 DEF Chained
    <2>8. Sent'
      BY <1>0, <2>1, <2>4 DEF Sent
    <2>9. Concluded'
      <3>1. hop \in Hop
        BY <1>0 DEF TypeOK
      <3>2. QED
        BY <1>0, <2>1, <2>4, <3>1 DEF Concluded
    <2>10. QED
      BY <2>5, <2>6, <2>7, <2>8, <2>9 DEF IInv
  <1>3. CASE Continue
    <2>1. /\ phase = "requesting" /\ req[hop].fate # "pending" /\ hop \in Hop
          /\ UNCHANGED <<escape, req, contacts>> /\ req[hop] \in Requests
      BY <1>0, <1>3 DEF Continue, TypeOK
    <2>2. (\A h \in Hop : RequestSound(req[h]))' /\ Reached'
      BY <1>0, <2>1 DEF RequestSound, TooLarge, Reached
    <2>3. ASSUME NEW code \in Errors, Throw(code), UNCHANGED <<hop, url>>,
                 code = "REDIRECT_LIMIT" => hop = MaxRedirects
          PROVE  IInv'
      <3>1. TypeOK'
        BY <1>0, <2>1, <2>3 DEF TypeOK, Throw, Threw, Outcome
      <3>2. Chained' /\ Sent'
        BY <1>0, <2>1, <2>3 DEF Chained, Sent, Throw
      <3>3. Concluded'
        BY <1>0, <2>1, <2>3 DEF Concluded, Throw, Threw, Outcome, Errors
      <3>4. QED
        BY <2>2, <3>1, <3>2, <3>3 DEF IInv
    <2>4. CASE req[hop].fate # "response"
      <3>1. Throw(req[hop].fate) /\ UNCHANGED <<hop, url>>
        BY <1>3, <2>4 DEF Continue
      <3>2. req[hop].fate \in Errors /\ req[hop].fate # "REDIRECT_LIMIT"
        BY <1>0, <2>1, <2>4 DEF Requests, RequestSound
      <3>3. QED
        BY <2>3, <3>1, <3>2
    <2>5. CASE req[hop].fate = "response" /\ req[hop].location = NoUrl
      <3>1. /\ phase' = "done" /\ UNCHANGED <<hop, url>>
            /\ result' = Outcome("ok", url[hop], req[hop].bytes)
        BY <1>3, <2>5 DEF Continue
      <3>2. TypeOK'
        BY <1>0, <2>1, <3>1 DEF TypeOK, Outcome, Requests
      <3>3. Chained' /\ Sent'
        BY <1>0, <2>1, <3>1 DEF Chained, Sent
      <3>4. Concluded'
        BY <2>1, <2>5, <3>1 DEF Concluded, Outcome
      <3>5. QED
        BY <2>2, <3>2, <3>3, <3>4 DEF IInv
    <2>6. CASE req[hop].fate = "response" /\ req[hop].location # NoUrl
      <3> DEFINE next == req[hop].location
      <3>1. Redirect(next) /\ next \in Url \cup {NoUrl, BadUrl}
        BY <1>3, <2>1, <2>6 DEF Continue, Requests
      <3> HIDE DEF next
      <3>2. CASE hop = MaxRedirects
        BY <2>3, <3>1, <3>2 DEF Redirect, Errors
      <3>3. CASE hop # MaxRedirects /\ next = BadUrl
        BY <2>3, <3>1, <3>3 DEF Redirect, Errors
      <3>4. CASE hop # MaxRedirects /\ next # BadUrl
        <4>1. PICK answer \in DnsAnswers :
                LET verdict == ValidateUrl(next, escape, answer) IN
                IF verdict # "ok" THEN Throw(verdict) /\ UNCHANGED <<hop, url>>
                ELSE /\ hop' = hop + 1
                     /\ url' = [url EXCEPT ![hop + 1] = next]
                     /\ phase' = "validating"
                     /\ UNCHANGED result
          BY <3>1, <3>4 DEF Redirect
        <4> DEFINE verdict == ValidateUrl(next, escape, answer)
        <4>2. verdict \in {"ok", "INVALID_URL", "BLOCKED_URL"}
          BY Verdicts
        <4> HIDE DEF verdict
        <4>3. CASE verdict # "ok"
          <5>1. Throw(verdict) /\ UNCHANGED <<hop, url>>
            BY <4>1, <4>3 DEF verdict
          <5>2. QED
            BY <2>3, <4>2, <4>3, <5>1 DEF Errors
        <4>4. CASE verdict = "ok"
          <5>1. /\ hop' = hop + 1 /\ phase' = "validating" /\ UNCHANGED result
                /\ url' = [url EXCEPT ![hop + 1] = next]
            BY <4>1, <4>4 DEF verdict
          <5>2. hop + 1 \in Hop /\ hop + 1 \in Nat
            BY <1>0, <3>4 DEF Hop
          <5>3. next \in Url
            BY <2>6, <3>1, <3>4 DEF next
          <5>4. /\ \A h \in Hop : url'[h] = IF h = hop + 1 THEN next ELSE url[h]
                /\ url' \in [Hop -> Url \cup {NoUrl}]
            BY <1>0, <5>1, <5>2, <5>3 DEF TypeOK
          <5>5. TypeOK'
            BY <1>0, <2>1, <5>1, <5>2, <5>4 DEF TypeOK
          <5>6. Chained'
            <6>1. ASSUME NEW h \in 0..(hop + 1) PROVE url'[h] \in Url
              BY <1>0, <5>2, <5>3, <5>4, <6>1 DEF Chained, Hop
            <6>2. ASSUME NEW h \in 1..(hop + 1)
                  PROVE  req[h - 1].fate = "response" /\ req[h - 1].location = url'[h]
              <7>1. CASE h = hop + 1
                <8>1. h - 1 = hop /\ h \in Hop
                  BY <1>0, <5>2, <7>1
                <8>2. QED
                  BY <2>6, <5>4, <7>1, <8>1 DEF next
              <7>2. CASE h # hop + 1
                <8>1. h \in 1..hop /\ h \in Hop
                  BY <1>0, <6>2, <7>2 DEF Hop
                <8>2. QED
                  BY <1>0, <5>4, <7>2, <8>1 DEF Chained
              <7>3. QED
                BY <7>1, <7>2
            <6>3. QED
              BY <2>1, <5>1, <6>1, <6>2 DEF Chained
          <5>7. Sent'
            <6>1. ASSUME NEW h \in Hop, req[h].stage # "none"
                  PROVE  /\ h < hop + 1 /\ req[h].fate = "response"
                         /\ StaticVerdict(url'[h], escape) = "ok"
              <7>1. h <= hop /\ h \in Nat /\ StaticVerdict(url[h], escape) = "ok"
                BY <1>0, <6>1 DEF Sent, Hop
              <7>2. h < hop + 1 /\ url'[h] = url[h]
                BY <1>0, <5>4, <7>1
              <7>3. req[h].fate = "response"
                BY <1>0, <2>6, <6>1, <7>1 DEF Sent
              <7>4. QED
                BY <7>1, <7>2, <7>3
            <6>2. \A h \in Hop : h < hop + 1 => h <= hop + 1 /\ h # hop + 1
              BY <1>0 DEF Hop
            <6>3. QED
              BY <2>1, <5>1, <6>1, <6>2 DEF Sent
          <5>8. Concluded'
            BY <1>0, <2>1, <5>1 DEF Concluded
          <5>9. QED
            BY <2>2, <5>5, <5>6, <5>7, <5>8 DEF IInv
        <4>5. QED
          BY <4>3, <4>4
      <3>5. QED
        BY <3>2, <3>3, <3>4
    <2>7. QED
      BY <2>4, <2>5, <2>6
  <1>4. CASE UNCHANGED vars
    BY <1>0, <1>4 DEF vars, IInv, TypeOK, Chained, Sent, Reached, Concluded, RequestSound, TooLarge
  <1>5. QED
    BY <1>1, <1>2, <1>3, <1>4, <1>6 DEF Next

LEMMA InvHolds == Spec => []IInv
  BY InitSound, NextSound, PTL DEF Spec

-----------------------------------------------------------------------------
(* Types are preserved by every step of fetchSource() and requestOnce().   *)
THEOREM FetchTypes == Spec => []TypeOK
  <1>1. IInv => TypeOK
    BY DEF IInv
  <1>2. QED
    BY <1>1, InvHolds, PTL

(* Of validateUrl(), the guarded lookup and the loop over redirects: no    *)
(* address of a listed block is contacted, and no request sent to a URL    *)
(* that is not allowed.                                                    *)
THEOREM ContactsAllowed == Spec => []ContactsAreAllowed
  <1>1. IInv => ContactsAreAllowed
    <2> SUFFICES ASSUME IInv PROVE ContactsAreAllowed
      OBVIOUS
    <2>1. ASSUME NEW h \in Hop, req[h].stage # "none"
          PROVE  /\ url[h].scheme \in {"http", "https"} /\ ~url[h].credentials
                 /\ url[h].port \in ALLOWED_PORTS \/ (escape /\ url[h].host.literal)
      <3>1. url[h] \in Url /\ StaticVerdict(url[h], escape) = "ok" /\ escape \in BOOLEAN
        BY <2>1 DEF IInv, Sent, Chained, TypeOK, Hop
      <3>2. url[h] \in UrlRecord
        BY <3>1, Bounds
      <3>3. QED
        BY <3>1, <3>2, StaticOk
    <2>2. QED
      BY <2>1 DEF IInv, Reached, Unlisted, ContactsAreAllowed
  <1>2. QED
    BY <1>1, InvHolds, PTL

(* Of the loop of fetchSource(): what it returns is the answer of the end  *)
(* of an unbroken chain of redirects, within the limits.                   *)
THEOREM ResultFaithful == Spec => []ResultIsFaithful
  <1>1. IInv => ResultIsFaithful
    <2> SUFFICES ASSUME IInv PROVE ResultIsFaithful
      OBVIOUS
    <2>1. ASSUME result.code = "ok"
          PROVE  /\ result.final = url[hop] /\ result.bytes = req[hop].bytes
                 /\ result.bytes <= MaxBytes
                 /\ result.bytes <= RatioFloor \/ result.bytes <= req[hop].wire * MaxRatio
      <3>1. /\ req[hop].fate = "response" /\ result.final = url[hop]
            /\ result.bytes = req[hop].bytes /\ hop \in Hop
        BY <2>1 DEF IInv, Concluded, TypeOK
      <3>2. ~TooLarge(req[hop]) /\ req[hop] \in Requests
        BY <3>1 DEF IInv, RequestSound, TypeOK
      <3>3. req[hop].bytes \in Nat /\ req[hop].wire * MaxRatio \in Nat
        BY <3>2, Bounds DEF Requests
      <3>4. QED
        BY <3>1, <3>2, <3>3, Bounds DEF TooLarge
    <2>2. QED
      BY <2>1 DEF IInv, Chained, Concluded, ResultIsFaithful
  <1>2. QED
    BY <1>1, InvHolds, PTL

(* Of finish() and the abort(), timeout and error handlers: the socket of  *)
(* a request that failed is destroyed, and no decided one has a timer.    *)
THEOREM SocketsClosed == Spec => []NothingLeftOpen
  <1>1. IInv => NothingLeftOpen
    <2> SUFFICES ASSUME IInv, NEW h \in Hop, req[h].stage # "none",
                        h # hop \/ phase = "done" \/ req[h].fate # "pending"
                 PROVE  /\ ~req[h].timer
                        /\ \/ req[h].stage = "closed"
                           \/ req[h].stage = "ended" /\ req[h].fate = "response"
      BY DEF NothingLeftOpen
    <2>1. h <= hop /\ h \in Nat /\ hop \in Nat
      BY DEF IInv, Sent, TypeOK, Hop
    <2>2. req[h].fate # "pending"
      BY <2>1 DEF IInv, Sent
    <2>3. QED
      BY <2>2 DEF IInv, RequestSound
  <1>2. QED
    BY <1>1, InvHolds, PTL

-----------------------------------------------------------------------------
(* The parser.  Reading a file line by line gives groups of rules.         *)
Rules == [allow : BOOLEAN, path : Pattern]
Group == [agents : SUBSET Agent, rules : Seq(Rules)]
Seen == [groups : Seq(Group), agents : BOOLEAN]

LEMMA StepType == ASSUME NEW seen \in Seen, NEW line \in Lines PROVE Step(seen, line) \in Seen
<1> DEFINE at == Len(seen.groups)
           groups == seen.groups
<1>1. groups \in Seq(Group) /\ at \in Nat /\ seen.agents \in BOOLEAN
  BY DEF Seen
<1>2. CASE line.field = "user-agent" /\ (at = 0 \/ ~seen.agents)
  <2> DEFINE g == [agents |-> {line.value}, rules |-> <<>>]
  <2>1. g \in Group
    BY <1>2 DEF Lines, Group
  <2>2. Step(seen, line) = [groups |-> Append(groups, g), agents |-> TRUE]
    BY <1>2 DEF Step
  <2> HIDE DEF g
  <2>3. Append(groups, g) \in Seq(Group)
    BY <1>1, <2>1
  <2> QED BY <2>2, <2>3 DEF Seen
<1>3. CASE line.field = "user-agent" /\ at > 0 /\ seen.agents
  <2> DEFINE g == [groups[at] EXCEPT !.agents = @ \cup {line.value}]
  <2>1. groups[at] \in Group
    BY <1>1, <1>3
  <2>2. g \in Group
    BY <1>3, <2>1 DEF Lines, Group
  <2>3. Step(seen, line) = [seen EXCEPT !.groups = [groups EXCEPT ![at] = g]]
    BY <1>1, <1>3 DEF Step
  <2> HIDE DEF g
  <2>4. [groups EXCEPT ![at] = g] \in Seq(Group)
    BY <1>1, <1>3, <2>2
  <2> QED BY <1>1, <2>3, <2>4 DEF Seen
<1>4. CASE line.field \in {"allow", "disallow"} /\ at > 0
  <2> DEFINE g == [groups[at] EXCEPT !.rules = Append(@, Rule(line))]
  <2>1. groups[at] \in Group
    BY <1>1, <1>4
  <2>2. Rule(line) \in Rules
    BY <1>4 DEF Lines, Rule, Rules
  <2>3. Append(groups[at].rules, Rule(line)) \in Seq(Rules)
    BY <2>1, <2>2 DEF Group
  <2>4. g \in Group
    BY <2>1, <2>3 DEF Group
  <2>5. Step(seen, line) = [groups |-> [groups EXCEPT ![at] = g], agents |-> FALSE]
    BY <1>1, <1>4 DEF Step
  <2> HIDE DEF g
  <2>6. [groups EXCEPT ![at] = g] \in Seq(Group)
    BY <1>1, <1>4, <2>4
  <2> QED BY <2>5, <2>6 DEF Seen
<1>5. CASE /\ ~(line.field = "user-agent" /\ (at = 0 \/ ~seen.agents))
           /\ ~(line.field = "user-agent" /\ at > 0 /\ seen.agents)
           /\ ~(line.field \in {"allow", "disallow"} /\ at > 0)
  <2>1. Step(seen, line) = [seen EXCEPT !.agents = FALSE]
    BY <1>5 DEF Step
  <2> QED BY <2>1 DEF Seen
<1> QED BY <1>2, <1>3, <1>4, <1>5

LEMMA Least == ASSUME NEW T \in SUBSET Nat, T # {} PROVE \E m \in T : \A n \in T : m <= n
<1> DEFINE Below == OpToRel(<, Nat)
<1>1. IsWellFoundedOn(Below, Nat)
  BY NatLessThanWellFounded
<1>2. \A x, y \in Nat : x < y => <<x, y>> \in Below
  BY DEF OpToRel
<1> HIDE DEF Below
<1>3. PICK m \in T : \A n \in T : ~(<<n, m>> \in Below)
  BY <1>1, WFMin
<1>4. ASSUME NEW n \in T PROVE m <= n
  <2>1. m \in Nat /\ n \in Nat
    OBVIOUS
  <2>2. ~(n < m)
    BY <1>2, <1>3, <2>1
  <2> QED BY <2>1, <2>2
<1> QED BY <1>4

Reads(file, seen, n) ==
    /\ seen \in [0..n -> Seen] /\ seen[0] = Unread
    /\ \A i \in 1..n : seen[i] = Step(seen[i - 1], file[i])

(* There is a reading of every file: the first line without one would have *)
(* one.                                                                    *)
LEMMA EveryFileIsRead ==
  ASSUME NEW file \in Seq(Lines) PROVE \E seen : Reads(file, seen, Len(file))
<1> DEFINE Bad == {n \in 0..Len(file) : ~\E seen : Reads(file, seen, n)}
<1>0. Len(file) \in 0..Len(file)
  OBVIOUS
<1>1. SUFFICES ASSUME Bad # {} PROVE FALSE
  BY <1>0
<1>2. PICK m \in Bad : \A n \in Bad : m <= n
  <2>1. Bad \in SUBSET Nat
    OBVIOUS
  <2> HIDE DEF Bad
  <2> QED BY <1>1, <2>1, Least
<1>3. m \in 0..Len(file) /\ m \in Nat /\ ~\E seen : Reads(file, seen, m)
  OBVIOUS
<1>4. Unread \in Seen
  BY DEF Unread, Seen
<1>5. CASE m = 0
  <2> DEFINE g == [n \in 0..0 |-> Unread]
  <2>1. Reads(file, g, 0)
    BY <1>4 DEF Reads
  <2> QED BY <1>3, <1>5, <2>1
<1>6. CASE m # 0
  <2>1. m - 1 \in 0..Len(file) /\ m - 1 \in Nat /\ ~(m <= m - 1) /\ m \in 1..Len(file)
    BY <1>3, <1>6
  <2>2. m - 1 \notin Bad
    BY <1>2, <2>1
  <2>3. PICK g : Reads(file, g, m - 1)
    BY <2>1, <2>2
  <2> DEFINE h == [n \in 0..m |-> IF n = m THEN Step(g[m - 1], file[m]) ELSE g[n]]
  <2>4. file[m] \in Lines
    BY <2>1
  <2>5. g[m - 1] \in Seen
    BY <2>1, <2>3 DEF Reads
  <2>6. Step(g[m - 1], file[m]) \in Seen
    BY <2>4, <2>5, StepType
  <2>7. \A n \in 0..m : n # m => n \in 0..(m - 1)
    BY <1>3
  <2>8. h \in [0..m -> Seen]
    BY <2>3, <2>6, <2>7 DEF Reads
  <2>9. 0 \in 0..m /\ h[0] = Unread
    BY <1>3, <1>6, <2>3 DEF Reads
  <2>10. ASSUME NEW i \in 1..m PROVE h[i] = Step(h[i - 1], file[i])
    <3>1. i \in 0..m /\ i - 1 \in 0..m /\ i - 1 # m
      BY <1>3
    <3>2. h[i - 1] = g[i - 1]
      BY <3>1
    <3>3. CASE i = m
      BY <3>1, <3>2, <3>3
    <3>4. CASE i # m
      <4>1. i \in 1..(m - 1)
        BY <1>3, <3>4
      <4>2. h[i] = g[i]
        BY <3>1, <3>4
      <4> QED BY <2>3, <3>2, <4>1, <4>2 DEF Reads
    <3> QED BY <3>3, <3>4
  <2> HIDE DEF h
  <2>11. Reads(file, h, m)
    BY <2>8, <2>9, <2>10 DEF Reads
  <2> QED BY <1>3, <2>11
<1> QED BY <1>5, <1>6

LEMMA GroupsAre ==
  ASSUME NEW file \in Seq(Lines)
  PROVE  \E groups \in Seq(Group) : Groups(file) = ToSet(groups)
<1>1. PICK g : Reads(file, g, Len(file))
  BY EveryFileIsRead
<1>2. Len(file) \in Nat
  OBVIOUS
<1>3. g = [n \in 0..Len(file) |-> IF n = 0 THEN Unread ELSE Step(g[n - 1], file[n])]
  <2>1. \A n \in 0..Len(file) : g[n] = IF n = 0 THEN Unread ELSE Step(g[n - 1], file[n])
    BY <1>1, <1>2 DEF Reads
  <2> QED BY <1>1, <2>1 DEF Reads
<1>4. PICK h : /\ h = [n \in 0..Len(file) |-> IF n = 0 THEN Unread ELSE Step(h[n - 1], file[n])]
               /\ Groups(file) = ToSet(h[Len(file)].groups)
  BY <1>3, Zenon DEF Groups
<1>5. h[0] = Unread /\ \A n \in 1..Len(file) : h[n] = Step(h[n - 1], file[n])
  <2>1. \A n \in 0..Len(file) : h[n] = IF n = 0 THEN Unread ELSE Step(h[n - 1], file[n])
    BY <1>4
  <2> QED BY <1>2, <2>1
<1>6. h[Len(file)] \in Seen
  <2> DEFINE Bad == {n \in 0..Len(file) : h[n] \notin Seen}
  <2>1. SUFFICES ASSUME Bad # {} PROVE FALSE
    BY <1>2
  <2>2. PICK m \in Bad : \A n \in Bad : m <= n
    <3>1. Bad \in SUBSET Nat
      OBVIOUS
    <3> HIDE DEF Bad
    <3> QED BY <2>1, <3>1, Least
  <2>3. m # 0
    <3>1. Unread \in Seen
      BY DEF Unread, Seen
    <3> QED BY <1>5, <3>1
  <2>4. m \in 1..Len(file) /\ m - 1 \in 0..Len(file) /\ ~(m <= m - 1)
    BY <1>2, <2>3
  <2>5. h[m - 1] \in Seen
    BY <2>2, <2>4
  <2>6. file[m] \in Lines
    BY <2>4
  <2> QED BY <1>5, <2>4, <2>5, <2>6, StepType
<1> QED BY <1>4, <1>6 DEF Seen

LEMMA ToSetFinite == ASSUME NEW T, NEW s \in Seq(T) PROVE IsFiniteSet(ToSet(s)) /\ ToSet(s) \subseteq T
<1>1. s \in Surjection(1..Len(s), ToSet(s))
  BY Fun_IsSurj DEF ToSet
<1>2. IsFiniteSet(1..Len(s))
  BY FS_Interval
<1>3. IsFiniteSet(ToSet(s))
  BY <1>1, <1>2, FS_Surjection
<1> QED BY <1>3 DEF ToSet

LEMMA RulesFinite ==
  ASSUME NEW groups \in Seq(Group), NEW G \in SUBSET ToSet(groups)
  PROVE  IsFiniteSet(RulesOf(G)) /\ RulesOf(G) \subseteq Rules
<1>1. IsFiniteSet(ToSet(groups)) /\ ToSet(groups) \subseteq Group
  BY ToSetFinite
<1>2. IsFiniteSet(G) /\ G \subseteq Group
  BY <1>1, FS_Subset
<1>3. \A g \in G : IsFiniteSet(ToSet(g.rules)) /\ ToSet(g.rules) \subseteq Rules
  BY <1>2, ToSetFinite DEF Group
<1> DEFINE Sets == {ToSet(g.rules) : g \in G}
           f == [g \in G |-> ToSet(g.rules)]
<1>4. f \in Surjection(G, Sets)
  <2>1. f \in [G -> Sets] /\ \A t \in Sets : \E g \in G : f[g] = t
    OBVIOUS
  <2> HIDE DEF f, Sets
  <2> QED BY <2>1, Fun_IsSurj
<1>5. \A x \in Sets : IsFiniteSet(x)
  BY <1>3
<1>6. RulesOf(G) = UNION Sets
  BY DEF RulesOf
<1> HIDE DEF Sets, f
<1>7. IsFiniteSet(UNION Sets)
  BY <1>2, <1>4, <1>5, FS_Surjection, FS_UNION
<1>8. RulesOf(G) \subseteq Rules
  BY <1>3 DEF RulesOf
<1> QED BY <1>6, <1>7, <1>8

(* The order of rules is that of a number.                                 *)
Weight(r) == 2 * Length[r.path] + IF r.allow THEN 1 ELSE 0

LEMMA WeightOrders ==
  ASSUME NEW r \in Rules, NEW s \in Rules
  PROVE  Weight(r) \in Nat /\ (Precedes(r, s) <=> Weight(r) > Weight(s))
<1>1. Length[r.path] \in Nat /\ Length[s.path] \in Nat /\ r.allow \in BOOLEAN /\ s.allow \in BOOLEAN
  BY RulesAssumption DEF Rules
<1> QED BY <1>1 DEF Weight, Precedes

(* A finite set of rules can be sorted: take out a lightest one, sort the  *)
(* rest, and put it at the end.                                            *)
LEMMA SortedExists ==
  ASSUME NEW S \in SUBSET Rules, IsFiniteSet(S)
  PROVE  \E sorted \in SetToSeqs(S) : Sorted(sorted)
<1> DEFINE Unsorted(T) == T \in SUBSET Rules /\ IsFiniteSet(T)
                          /\ ~\E sorted \in SetToSeqs(T) : Sorted(sorted)
           Bad == {n \in Nat : \E T \in SUBSET Rules : Unsorted(T) /\ Cardinality(T) = n}
<1>1. SUFFICES ASSUME Unsorted(S) PROVE FALSE
  OBVIOUS
<1>2. Cardinality(S) \in Bad
  BY <1>1, FS_CardinalityType
<1>3. PICK m \in Bad : \A n \in Bad : m <= n
  <2>1. Bad \in SUBSET Nat /\ Bad # {}
    BY <1>2
  <2> HIDE DEF Bad
  <2> QED BY <2>1, Least
<1>4. PICK T \in SUBSET Rules : Unsorted(T) /\ Cardinality(T) = m
  BY <1>3
<1>5. m \in Nat
  BY <1>3
<1>6. CASE T = {}
  <2>1. Cardinality(T) = 0 /\ 1..0 = {}
    BY <1>6, FS_EmptySet
  <2>2. <<>> \in SetToSeqs(T) /\ Sorted(<<>>)
    BY <2>1 DEF SetToSeqs, Sorted
  <2> QED BY <1>4, <2>2
<1>7. CASE T # {}
  <2>1. PICK w \in {Weight(r) : r \in T} : \A v \in {Weight(r) : r \in T} : w <= v
    <3>1. {Weight(r) : r \in T} \in SUBSET Nat /\ {Weight(r) : r \in T} # {}
      BY <1>7, WeightOrders
    <3> QED BY <3>1, Least
  <2>2. PICK x \in T : Weight(x) = w
    BY <2>1
  <2>3. \A r \in T : ~Precedes(x, r)
    <3> TAKE r \in T
    <3>1. Weight(x) <= Weight(r) /\ Weight(r) \in Nat /\ Weight(x) \in Nat
      BY <2>1, <2>2, WeightOrders
    <3> QED BY <3>1, WeightOrders
  <2> DEFINE rest == T \ {x}
  <2>4. /\ IsFiniteSet(rest) /\ Cardinality(rest) = m - 1 /\ m - 1 \in Nat
        /\ rest \in SUBSET Rules
    <3>1. IsFiniteSet(rest) /\ Cardinality(rest) = m - 1
      BY <1>4, <2>2, FS_RemoveElement
    <3>2. rest \in SUBSET Rules
      BY <1>4
    <3> HIDE DEF rest
    <3>3. Cardinality(rest) \in Nat
      BY <3>1, FS_CardinalityType
    <3> QED BY <3>1, <3>2, <3>3
  <2>5. PICK sorted \in SetToSeqs(rest) : Sorted(sorted)
    <3>1. m - 1 \notin Bad
      BY <1>3, <1>5
    <3> HIDE DEF rest
    <3> QED BY <2>4, <3>1
  <2>6. /\ sorted \in [1..(m - 1) -> rest]
        /\ \A i, j \in 1..(m - 1) : i # j => sorted[i] # sorted[j]
    BY <2>4, <2>5 DEF SetToSeqs
  <2> DEFINE all == [i \in 1..m |-> IF i = m THEN x ELSE sorted[i]]
  <2>7. m \in 1..m /\ \A i \in 1..m : i # m => i \in 1..(m - 1)
    BY <1>5, <2>4
  <2>8. all \in [1..m -> T] /\ all[m] = x /\ \A i \in 1..m : i # m => all[i] = sorted[i] /\ all[i] # x
    BY <2>2, <2>6, <2>7
  <2>9. \A i, j \in 1..m : i # j => all[i] # all[j]
    BY <2>6, <2>7, <2>8
  <2>10. all \in SetToSeqs(T)
    BY <1>4, <2>8, <2>9 DEF SetToSeqs
  <2>11. Sorted(all)
    <3> SUFFICES ASSUME NEW i \in 1..m, NEW j \in 1..m, i < j PROVE ~Precedes(all[j], all[i])
      BY <2>8 DEF Sorted
    <3>1. CASE j = m
      BY <2>3, <2>8, <3>1
    <3>2. CASE j # m
      <4>1. i # m /\ i \in 1..(m - 1) /\ j \in 1..(m - 1)
        BY <1>5, <2>7, <3>2
      <4>2. DOMAIN sorted = 1..(m - 1)
        BY <2>6
      <4> QED BY <2>5, <2>8, <3>2, <4>1, <4>2 DEF Sorted
    <3> QED BY <3>1, <3>2
  <2> QED BY <1>4, <2>10, <2>11
<1> QED BY <1>6, <1>7

(* What parseRobots() returns: the rules of the chosen groups, each once,  *)
(* in order.                                                               *)
LEMMA ParsedRules ==
  ASSUME NEW file \in Seq(Lines)
  PROVE  LET rules == {r \in RulesOf(Chosen(Groups(file))) : r.path # EmptyPattern \/ r.allow}
             parsed == Parse(file)
         IN  \E n \in Nat :
             /\ parsed \in [1..n -> rules] /\ Sorted(parsed)
             /\ \A r \in rules : \E i \in 1..n : parsed[i] = r
             /\ rules \subseteq Rules
<1> DEFINE rules == {r \in RulesOf(Chosen(Groups(file))) : r.path # EmptyPattern \/ r.allow}
           parsed == Parse(file)
<1>1. PICK groups \in Seq(Group) : Groups(file) = ToSet(groups)
  BY GroupsAre
<1>2. Chosen(Groups(file)) \in SUBSET ToSet(groups)
  BY <1>1 DEF Chosen
<1>3. IsFiniteSet(RulesOf(Chosen(Groups(file)))) /\ RulesOf(Chosen(Groups(file))) \subseteq Rules
  BY <1>1, <1>2, RulesFinite
<1>4. rules \in SUBSET RulesOf(Chosen(Groups(file))) /\ rules \in SUBSET Rules
  BY <1>3
<1>5. parsed = CHOOSE sorted \in SetToSeqs(rules) : Sorted(sorted)
  BY DEF Parse
<1> HIDE DEF rules, parsed
<1>6. IsFiniteSet(rules)
  BY <1>3, <1>4, FS_Subset
<1>7. \E sorted \in SetToSeqs(rules) : Sorted(sorted)
  BY <1>4, <1>6, SortedExists
<1>8. parsed \in SetToSeqs(rules) /\ Sorted(parsed)
  BY <1>5, <1>7
<1> DEFINE n == Cardinality(rules)
<1>9. n \in Nat
  BY <1>6, FS_CardinalityType
<1>10. parsed \in [1..n -> rules] /\ \A i, j \in 1..n : i # j => parsed[i] # parsed[j]
  BY <1>8 DEF SetToSeqs
<1>11. parsed \in Injection(1..n, rules)
  BY <1>10, Fun_IsInj
<1>12. Cardinality(1..n) = n
  BY <1>9, FS_Interval
<1> HIDE DEF n
<1>13. parsed \in Surjection(1..n, rules)
  BY <1>6, <1>11, <1>12, FS_Injection DEF n
<1>14. \A r \in rules : \E i \in 1..n : parsed[i] = r
  BY <1>13 DEF Surjection
<1> QED BY <1>4, <1>8, <1>9, <1>10, <1>14 DEF rules, parsed

(* The groups chosen for an unambiguous file are those that govern us.     *)
Governing(file) ==
    LET ours == {g \in Groups(file) : g.agents \cap OurNames # {}}
    IN  IF ours # {} THEN ours ELSE {g \in Groups(file) : "*" \in g.agents}

LEMMA ChosenGovern ==
  ASSUME NEW file \in Seq(Lines), ~Ambiguous(file)
  PROVE  Chosen(Groups(file)) = Governing(file)
<1> DEFINE ours == {g \in Groups(file) : g.agents \cap OurNames # {}}
           applicable == {g \in Groups(file) : Applies(g)}
           specific == {g \in applicable : \E a \in g.agents : a # "*"}
<1>1. "*" \notin OurNames
  BY RulesAssumption
<1>2. \A g \in Groups(file) :
        "*" \in g.agents => g.agents = {"*"} \/ g.agents \cap OurNames # {}
  BY DEF Ambiguous
<1>3. specific = ours
  BY <1>1, <1>2 DEF Applies
<1>4. ours = {} => applicable = {g \in Groups(file) : "*" \in g.agents}
  BY DEF Applies
<1>5. /\ Chosen(Groups(file)) = (IF specific # {} THEN specific ELSE applicable)
      /\ Governing(file) = (IF ours # {} THEN ours ELSE {g \in Groups(file) : "*" \in g.agents})
  BY DEF Chosen, Governing
<1> QED BY <1>3, <1>4, <1>5

(* parseRobots() and isPathAllowed() judge a file as it says: the longest  *)
(* rule of the groups that govern us decides, Allow where two disagree.    *)
THEOREM ParserObeys ==
  ASSUME NEW file \in Seq(Lines), NEW path \in Path, ~Ambiguous(file)
  PROVE  PathAllowed(Parse(file), path) = Says(file, path)
<1> DEFINE rules == {r \in RulesOf(Chosen(Groups(file))) : r.path # EmptyPattern \/ r.allow}
           parsed == Parse(file)
           found == {r \in RulesOf(Governing(file)) : path \in Matching[r.path]}
           longest == {r \in found : \A s \in found : Length[s.path] <= Length[r.path]}
<1>1. PICK n \in Nat :
        /\ parsed \in [1..n -> rules] /\ Sorted(parsed)
        /\ \A r \in rules : \E i \in 1..n : parsed[i] = r
        /\ rules \subseteq Rules
  BY ParsedRules
<1>2. found = {r \in rules : path \in Matching[r.path]}
  <2>1. path \notin Matching[EmptyPattern]
    BY RulesAssumption
  <2> QED BY <2>1, ChosenGovern
<1>3. Says(file, path) = (longest = {} \/ \E r \in longest : r.allow)
  BY DEF Says, Governing
<1> HIDE DEF rules, found
<1> DEFINE hits == {i \in DOMAIN parsed : path \in Matching[parsed[i].path]}
<1>4. PathAllowed(parsed, path) = \A i \in hits : (\A j \in hits : i <= j) => parsed[i].allow
  BY DEF PathAllowed
<1>5. DOMAIN parsed = 1..n /\ hits \in SUBSET Nat /\ hits \subseteq 1..n
  BY <1>1
<1>6. \A i \in hits : parsed[i] \in found
  BY <1>1, <1>2
<1>7. \A r \in found : \E i \in hits : parsed[i] = r
  BY <1>1, <1>2
<1>8. \A r \in found : Length[r.path] \in Nat /\ r.allow \in BOOLEAN /\ r \in Rules
  BY <1>1, <1>2, RulesAssumption DEF Rules
<1>9. CASE found = {}
  <2>1. hits = {} /\ longest = {}
    BY <1>6, <1>9
  <2> QED BY <1>3, <1>4, <2>1
<1>10. CASE found # {}
  <2>1. hits # {}
    BY <1>7, <1>10
  <2> HIDE DEF hits, parsed
  <2>2. PICK i \in hits : \A j \in hits : i <= j
    BY <1>5, <2>1, Least
  <2>3. PathAllowed(parsed, path) = parsed[i].allow
    <3>1. \A k \in hits : (\A j \in hits : k <= j) => k = i
      BY <1>5, <2>2
    <3>2. parsed[i].allow \in BOOLEAN
      BY <1>6, <1>8, <2>2
    <3> QED BY <1>4, <2>2, <3>1, <3>2
  <2>4. \A r \in found : r = parsed[i] \/ ~Precedes(r, parsed[i])
    <3> TAKE r \in found
    <3>1. PICK j \in hits : parsed[j] = r
      BY <1>7
    <3>2. j = i \/ i < j
      BY <1>5, <2>2
    <3>3. i \in DOMAIN parsed /\ j \in DOMAIN parsed
      BY <1>5, <2>2
    <3> QED BY <1>1, <3>1, <3>2, <3>3 DEF Sorted
  <2>5. parsed[i] \in found
    BY <1>6, <2>2
  <2>6. parsed[i] \in longest
    <3>1. \A r \in found : Length[r.path] <= Length[parsed[i].path]
      BY <1>8, <2>4, <2>5 DEF Precedes
    <3> QED BY <2>5, <3>1
  <2>7. (\E r \in longest : r.allow) = parsed[i].allow
    <3>1. ASSUME NEW r \in longest, r.allow PROVE parsed[i].allow
      <4>1. r \in found /\ Length[r.path] = Length[parsed[i].path]
        BY <1>8, <2>5, <2>6
      <4> QED BY <2>4, <3>1, <4>1 DEF Precedes
    <3>2. parsed[i].allow \in BOOLEAN
      BY <1>8, <2>5
    <3> QED BY <2>6, <3>1, <3>2
  <2>8. longest # {}
    BY <2>6
  <2> QED BY <1>3, <2>3, <2>7, <2>8 DEF parsed
<1> QED BY <1>9, <1>10

(* A file that is not there forbids nothing.                               *)
LEMMA NoFileAllows == ASSUME NEW path \in Path PROVE PathAllowed(Parse(NoFile), path)
<1>1. NoFile \in Seq(Lines) /\ Len(NoFile) = 0
  BY DEF NoFile
<1>2. PICK g : Reads(NoFile, g, 0)
  BY <1>1, EveryFileIsRead
<1>3. g = [n \in 0..Len(NoFile) |-> IF n = 0 THEN Unread ELSE Step(g[n - 1], NoFile[n])]
  <2>1. \A n \in 0..Len(NoFile) : g[n] = IF n = 0 THEN Unread ELSE Step(g[n - 1], NoFile[n])
    BY <1>1, <1>2 DEF Reads
  <2> QED BY <1>1, <1>2, <2>1 DEF Reads
<1>4. PICK h : /\ h = [n \in 0..Len(NoFile) |-> IF n = 0 THEN Unread ELSE Step(h[n - 1], NoFile[n])]
               /\ Groups(NoFile) = ToSet(h[Len(NoFile)].groups)
  BY <1>3, Zenon DEF Groups
<1>5. h[Len(NoFile)] = Unread
  <2>1. \A n \in 0..Len(NoFile) : h[n] = IF n = 0 THEN Unread ELSE Step(h[n - 1], NoFile[n])
    BY <1>4
  <2> QED BY <1>1, <2>1
<1>6. Groups(NoFile) = {}
  BY <1>4, <1>5 DEF Unread, ToSet
<1>7. ~Ambiguous(NoFile)
  BY <1>6 DEF Ambiguous
<1>8. Says(NoFile, path)
  <2>1. RulesOf({}) = {}
    BY DEF RulesOf
  <2> QED BY <1>6, <2>1 DEF Says
<1>9. PathAllowed(Parse(NoFile), path) = Says(NoFile, path)
  BY <1>1, <1>7, ParserObeys
<1> QED BY <1>8, <1>9

-----------------------------------------------------------------------------
Moments == Nat \cup {Never}

Types ==
    /\ now \in Nat /\ site \in Sites
    /\ changed \in [Origin -> Moments] /\ failed \in [Origin -> Moments]
    /\ order \in Seq(Origin)
    /\ \A o \in Origin : entry[o].at \in Nat
    /\ check \in [Check -> Checks]

(* What a check that has fetched since t may have got from an origin.      *)
Known(o, file, t) ==
    \/ file = Serves(o)
    \/ file = site[o].before /\ changed[o] \in Nat /\ changed[o] >= t
    \/ file = NoFile /\ failed[o] \in Nat /\ failed[o] >= t

CheckSound(k) ==
    /\ k.phase # "idle" => k.since <= now /\ now <= k.since + FetchTime
    /\ k.phase = "fetching" => k.file = NoFile
    /\ k.phase = "fetched" => Known(k.origin, k.file, k.since)

EntrySound(o) ==
    \E file \in Seq(Lines), t \in Nat :
      /\ entry[o].rules = Parse(file) /\ Known(o, file, t)
      /\ t <= now /\ entry[o].at <= t + FetchTime

CacheInv ==
    /\ Types
    /\ CacheIsBounded
    /\ \A c \in Check : CheckSound(check[c])
    /\ \A o \in ToSet(order) : EntrySound(o)

(* The cache after a file has been stored holds what was left of it and    *)
(* the origin of the file.                                                 *)
LEMMA RoomFacts ==
    ASSUME Types, CacheIsBounded, NEW o \in Origin
    PROVE  /\ MakeRoom(o) \in Seq(Origin)
           /\ Len(MakeRoom(o)) < MaxCached
           /\ IsInjective(MakeRoom(o))
           /\ ToSet(MakeRoom(o)) \subseteq ToSet(order)
<1>1. order \in Seq(Origin) /\ Len(order) \in Nat /\ MaxCached \in Nat \ {0}
  BY CacheAssumption DEF Types
<1>2. CASE Len(order) >= MaxCached
  <2>1. order # <<>> /\ Len(order) = MaxCached /\ MakeRoom(o) = Tail(order)
    BY <1>1, <1>2 DEF CacheIsBounded, MakeRoom
  <2>2. /\ Tail(order) \in Seq(Origin) /\ Len(Tail(order)) = Len(order) - 1
        /\ \A i \in 1..Len(Tail(order)) : Tail(order)[i] = order[i + 1]
    BY <1>1, <2>1
  <2>3. ToSet(Tail(order)) \subseteq ToSet(order)
    BY <1>1, <2>1, <2>2 DEF ToSet
  <2>4. IsInjective(Tail(order))
    BY <1>1, <2>1, <2>2 DEF CacheIsBounded, IsInjective
  <2> QED BY <1>1, <2>1, <2>2, <2>3, <2>4
<1>3. CASE ~(Len(order) >= MaxCached)
  BY <1>1, <1>3 DEF CacheIsBounded, MakeRoom
<1> QED BY <1>2, <1>3

LEMMA StoredFacts ==
    ASSUME NEW room \in Seq(Origin), NEW o \in Origin,
           Len(room) < MaxCached, IsInjective(room)
    PROVE  LET next == IF o \in ToSet(room) THEN room ELSE Append(room, o) IN
           /\ next \in Seq(Origin) /\ Len(next) <= MaxCached /\ IsInjective(next)
           /\ ToSet(next) \subseteq ToSet(room) \cup {o}
<1>1. Len(room) \in Nat /\ MaxCached \in Nat
  BY CacheAssumption
<1>2. CASE o \in ToSet(room)
  BY <1>1, <1>2
<1>3. CASE o \notin ToSet(room)
  <2>1. /\ Append(room, o) \in Seq(Origin) /\ Len(Append(room, o)) = Len(room) + 1
        /\ \A i \in 1..Len(room) : Append(room, o)[i] = room[i]
        /\ Append(room, o)[Len(room) + 1] = o
    BY <1>1
  <2>2. \A i \in 1..Len(room) : room[i] # o
    BY <1>3 DEF ToSet
  <2>3. IsInjective(Append(room, o))
    BY <1>1, <2>1, <2>2 DEF IsInjective
  <2>4. ToSet(Append(room, o)) \subseteq ToSet(room) \cup {o}
    BY <1>1, <2>1 DEF ToSet
  <2> QED BY <1>1, <1>3, <2>1, <2>3, <2>4
<1> QED BY <1>2, <1>3

-----------------------------------------------------------------------------
LEMMA CacheInitially == RobotsInit => CacheInv
<1> SUFFICES ASSUME RobotsInit PROVE CacheInv
  OBVIOUS
<1>1. Idle \in Checks /\ Idle.phase = "idle"
  BY CacheAssumption DEF Idle, Checks, NoFile
<1>2. Types
  BY <1>1, CacheAssumption DEF RobotsInit, Types, Moments, Absent
<1>3. CacheIsBounded
  BY CacheAssumption DEF RobotsInit, CacheIsBounded, IsInjective
<1>4. \A c \in Check : CheckSound(check[c])
  BY <1>1 DEF RobotsInit, CheckSound
<1>5. ToSet(order) = {}
  BY DEF RobotsInit, ToSet
<1> QED BY <1>2, <1>3, <1>4, <1>5 DEF CacheInv

(* What was known stays known when only the time advances, a failure is    *)
(* noted or a file is replaced.                                            *)
LEMMA KnownKept ==
    ASSUME Types, NEW o \in Origin, NEW file, NEW t \in Nat, t <= now, Known(o, file, t),
           site' = site,
           \/ changed' = changed
           \/ changed[o] = Never /\ changed'[o] = now
           \/ changed'[o] = changed[o],
           failed'[o] = failed[o] \/ failed'[o] = now
    PROVE  Known(o, file, t)'
<1>1. changed[o] \in Moments /\ failed[o] \in Moments /\ now \in Nat
  BY DEF Types
<1>2. changed'[o] = changed[o] \/ (changed[o] = Never /\ changed'[o] = now)
  OBVIOUS
<1>3. CASE changed'[o] = changed[o]
  <2>1. Serves(o)' = Serves(o)
    BY <1>3 DEF Serves
  <2> QED BY <1>1, <1>3, <2>1 DEF Known
<1>4. CASE changed[o] = Never /\ changed'[o] = now
  <2>1. Serves(o) = site[o].before
    BY <1>4 DEF Serves
  <2>2. now # Never
    BY <1>1 DEF Never
  <2> QED BY <1>1, <1>4, <2>1, <2>2 DEF Known, Never
<1> QED BY <1>2, <1>3, <1>4

LEMMA ServesLines == ASSUME Types, NEW o \in Origin PROVE Serves(o) \in Seq(Lines)
BY CacheAssumption DEF Types, Serves

LEMMA OthersKept ==
    ASSUME CacheInv, site' = site, now' \in Nat, now' >= now,
           \A o \in Origin : \/ changed'[o] = changed[o]
                             \/ changed[o] = Never /\ changed'[o] = now,
           \A o \in Origin : failed'[o] = failed[o] \/ failed'[o] = now
    PROVE  /\ \A o \in ToSet(order) : entry'[o] = entry[o] => EntrySound(o)'
           /\ \A c \in Check : check'[c] = check[c] /\ now' = now => CheckSound(check[c])'
<1>0. Types
  BY DEF CacheInv
<1>1. ASSUME NEW o \in Origin, NEW file, NEW t \in Nat, t <= now, Known(o, file, t)
      PROVE  Known(o, file, t)'
  <2>1. changed'[o] = changed[o] \/ (changed[o] = Never /\ changed'[o] = now)
    OBVIOUS
  <2>2. failed'[o] = failed[o] \/ failed'[o] = now
    OBVIOUS
  <2> QED BY <1>0, <1>1, <2>1, <2>2, KnownKept
<1>2. ASSUME NEW o \in ToSet(order), entry'[o] = entry[o] PROVE EntrySound(o)'
  <2>1. o \in Origin /\ EntrySound(o)
    BY <1>0 DEF CacheInv, Types, ToSet
  <2>2. PICK file \in Seq(Lines), t \in Nat :
          /\ entry[o].rules = Parse(file) /\ Known(o, file, t)
          /\ t <= now /\ entry[o].at <= t + FetchTime
    BY <2>1 DEF EntrySound
  <2>3. Known(o, file, t)'
    BY <1>1, <2>1, <2>2
  <2>4. t <= now'
    BY <1>0, <2>2 DEF Types
  <2> QED BY <1>2, <2>2, <2>3, <2>4 DEF EntrySound
<1>3. ASSUME NEW c \in Check, check'[c] = check[c], now' = now PROVE CheckSound(check[c])'
  <2>1. /\ check[c].origin \in Origin /\ check[c].since \in Nat
        /\ check[c].phase \in {"idle", "fetching", "fetched"}
    BY <1>0 DEF Types, Checks
  <2>2. CheckSound(check[c])
    BY DEF CacheInv
  <2>3. CASE check[c].phase = "fetched"
    <3>1. Known(check[c].origin, check[c].file, check[c].since)
          /\ check[c].since <= now /\ now <= check[c].since + FetchTime
      BY <2>2, <2>3 DEF CheckSound
    <3>2. Known(check[c].origin, check[c].file, check[c].since)'
      BY <1>1, <1>3, <2>1, <3>1
    <3> QED BY <1>3, <2>3, <3>1, <3>2 DEF CheckSound
  <2>4. CASE check[c].phase # "fetched"
    BY <1>3, <2>2, <2>4 DEF CheckSound
  <2> QED BY <2>3, <2>4
<1> QED BY <1>2, <1>3

(* A step of one check that leaves the cache alone.                        *)
LEMMA StartSound ==
    ASSUME CacheInv, NEW c \in Check, NEW o \in Origin, StartFetch(c, o) PROVE CacheInv'
<1>0. Types /\ CacheIsBounded
  BY DEF CacheInv
<1>k. DEFINE k == [phase |-> "fetching", origin |-> o, since |-> now, file |-> NoFile]
<1>1. /\ k \in Checks /\ k.phase = "fetching" /\ k.since = now /\ k.file = NoFile
  BY <1>0 DEF Checks, Types, NoFile
<1> HIDE DEF k
<1>2. /\ check' = [check EXCEPT ![c] = k]
      /\ UNCHANGED <<now, site, changed, failed, order, entry>>
  BY DEF StartFetch, k
<1>3. Types'
  BY <1>0, <1>1, <1>2 DEF Types
<1>4. CacheIsBounded'
  BY <1>0, <1>2 DEF CacheIsBounded
<1>5. \A p \in ToSet(order)' : EntrySound(p)'
  BY <1>0, <1>2, OthersKept DEF Types
<1>6. ASSUME NEW d \in Check PROVE CheckSound(check[d])'
  <2>1. CASE d = c
    <3>1. check'[d] = k
      BY <1>0, <1>2, <2>1 DEF Types
    <3>2. now \in Nat /\ now' = now /\ FetchTime \in Nat
      BY <1>0, <1>2, CacheAssumption DEF Types
    <3> QED BY <1>1, <3>1, <3>2 DEF CheckSound
  <2>2. CASE d # c
    <3>1. check'[d] = check[d]
      BY <1>0, <1>2, <2>2 DEF Types
    <3> QED BY <1>0, <1>2, <3>1, OthersKept DEF Types
  <2> QED BY <2>1, <2>2
<1> QED BY <1>3, <1>4, <1>5, <1>6 DEF CacheInv

LEMMA FetchedSound ==
    ASSUME CacheInv, NEW c \in Check, Fetched(c),
           NEW o \in Origin, NEW since \in Nat,
           check[c].origin = o, check[c].since = since
    PROVE  CacheInv'
<1>0. Types /\ CacheIsBounded
  BY DEF CacheInv
<1>1. /\ check[c] \in Checks /\ check[c].phase = "fetching"
      /\ now \in Nat /\ since <= now /\ now <= since + FetchTime /\ check[c].file = NoFile
  BY <1>0 DEF CacheInv, Fetched, CheckSound, Types, Checks
<1>2. UNCHANGED <<now, site, changed, order, entry>>
  BY DEF Fetched
<1>3. PICK file \in {Serves(o), NoFile} :
        /\ check' = [check EXCEPT ![c].phase = "fetched", ![c].file = file]
        /\ \/ file = Serves(o) /\ failed' = failed
           \/ file = NoFile /\ failed' = [failed EXCEPT ![o] = now]
  <2>1. CASE check' = [check EXCEPT ![c].phase = "fetched", ![c].file = Serves(o)] /\ failed' = failed
    BY <2>1
  <2>2. CASE check' = [check EXCEPT ![c].phase = "fetched"] /\ failed' = [failed EXCEPT ![o] = now]
    <3>1. [check EXCEPT ![c].phase = "fetched"]
            = [check EXCEPT ![c].phase = "fetched", ![c].file = NoFile]
      BY <1>0, <1>1 DEF Types, Checks
    <3> QED BY <2>2, <3>1
  <2> QED BY <2>1, <2>2 DEF Fetched
<1>4. file \in Seq(Lines)
  <2>1. Serves(o) \in Seq(Lines)
    BY <1>0, ServesLines
  <2>2. NoFile \in Seq(Lines)
    BY DEF NoFile
  <2> QED BY <1>3, <2>1, <2>2
<1>5. /\ check'[c] \in Checks /\ check'[c].phase = "fetched" /\ check'[c].origin = o
      /\ check'[c].since = since /\ check'[c].file = file
      /\ \A d \in Check : d # c => check'[d] = check[d]
      /\ check' \in [Check -> Checks]
  BY <1>0, <1>1, <1>3, <1>4 DEF Types, Checks
<1>6. /\ failed' \in [Origin -> Moments]
      /\ \A p \in Origin : failed'[p] = failed[p] \/ failed'[p] = now
      /\ file = NoFile /\ failed' # failed => failed'[o] = now
      /\ file = Serves(o) \/ failed'[o] = now
  BY <1>0, <1>1, <1>3 DEF Types, Moments
<1>7. Types'
  BY <1>0, <1>2, <1>5, <1>6 DEF Types
<1>8. CacheIsBounded'
  BY <1>0, <1>2 DEF CacheIsBounded
<1>9. /\ \A p \in ToSet(order) : EntrySound(p)'
      /\ \A d \in Check : check'[d] = check[d] => CheckSound(check[d])'
  <2>1. now' \in Nat /\ now' >= now /\ now' = now
    BY <1>1, <1>2
  <2> QED BY <1>2, <1>6, <2>1, OthersKept
<1>10. CheckSound(check[c])'
  <2>1. Known(o, file, since)'
    <3>1. CASE file = Serves(o)
      <4>1. Serves(o)' = Serves(o)
        BY <1>2 DEF Serves
      <4> QED BY <3>1, <4>1 DEF Known
    <3>2. CASE failed'[o] = now /\ file # Serves(o)
      BY <1>1, <1>3, <3>2 DEF Known
    <3> QED BY <1>6, <3>1, <3>2
  <2>2. since <= now' /\ now' <= since + FetchTime
    BY <1>1, <1>2
  <2> QED BY <1>5, <2>1, <2>2 DEF CheckSound
<1> QED BY <1>2, <1>5, <1>7, <1>8, <1>9, <1>10 DEF CacheInv

LEMMA StoreSound ==
    ASSUME CacheInv, NEW c \in Check, Store(c),
           NEW o \in Origin, NEW since \in Nat, NEW file \in Seq(Lines),
           check[c].origin = o, check[c].since = since, check[c].file = file
    PROVE  CacheInv'
<1>0. Types /\ CacheIsBounded /\ now \in Nat /\ FetchTime \in Nat
  BY CacheAssumption DEF CacheInv, Types
<1>1. since <= now /\ now <= since + FetchTime /\ Known(o, file, since)
  BY <1>0 DEF CacheInv, Store, CheckSound
<1> DEFINE room == MakeRoom(o)
<1>2. /\ order' = IF o \in ToSet(room) THEN room ELSE Append(room, o)
      /\ \A p \in Origin : entry'[p] = IF p = o THEN [rules |-> Parse(file), at |-> now]
                                     ELSE IF p \in ToSet(room) THEN entry[p] ELSE Absent
      /\ check' = [check EXCEPT ![c] = Idle]
      /\ UNCHANGED <<now, site, changed, failed>>
  BY DEF Store
<1>3. /\ room \in Seq(Origin) /\ Len(room) < MaxCached /\ IsInjective(room)
      /\ ToSet(room) \subseteq ToSet(order)
  BY <1>0, RoomFacts
<1> HIDE DEF room
<1>4. /\ order' \in Seq(Origin) /\ Len(order') <= MaxCached /\ IsInjective(order')
      /\ ToSet(order') \subseteq ToSet(room) \cup {o}
  BY <1>2, <1>3, StoredFacts
<1>5. Idle \in Checks /\ Idle.phase = "idle"
  BY CacheAssumption DEF Idle, Checks, NoFile
<1>6. \A p \in Origin : entry'[p].at \in Nat
  <2> TAKE p \in Origin
  <2>1. CASE p = o
    BY <1>0, <1>2, <2>1
  <2>2. CASE p # o
    BY <1>0, <1>2, <2>2 DEF Types, Absent
  <2> QED BY <2>1, <2>2
<1>7. Types'
  BY <1>0, <1>2, <1>4, <1>5, <1>6 DEF Types
<1>8. CacheIsBounded'
  BY <1>4 DEF CacheIsBounded
<1>9. /\ \A p \in ToSet(order) : entry'[p] = entry[p] => EntrySound(p)'
      /\ \A d \in Check : check'[d] = check[d] => CheckSound(check[d])'
  <2>1. now' \in Nat /\ now' >= now /\ now' = now
    BY <1>0, <1>2
  <2> QED BY <1>2, <2>1, OthersKept
<1>10. ASSUME NEW p \in ToSet(order)' PROVE EntrySound(p)'
  <2>0. ToSet(order)' = ToSet(order')
    OBVIOUS
  <2>1. p \in ToSet(order') /\ p \in Origin /\ p \in ToSet(room) \cup {o}
    <3>1. p \in ToSet(order') /\ p \in ToSet(room) \cup {o}
      BY <1>4, <2>0
    <3>2. p \in Origin
      BY <1>4, <3>1 DEF ToSet
    <3> QED BY <3>1, <3>2
  <2>2. CASE p = o
    <3>1. Known(o, file, since)'
      BY <1>1, <1>2 DEF Known, Serves
    <3>2. entry'[o].rules = Parse(file) /\ entry'[o].at = now
      BY <1>2
    <3>3. since <= now' /\ entry'[o].at <= since + FetchTime
      BY <1>1, <1>2, <3>2
    <3> QED BY <2>2, <3>1, <3>2, <3>3 DEF EntrySound
  <2>3. CASE p # o
    BY <1>2, <1>3, <1>9, <2>1, <2>3
  <2> QED BY <2>2, <2>3
<1>11. ASSUME NEW d \in Check PROVE CheckSound(check[d])'
  <2>1. CASE d = c
    <3>1. check'[d] = Idle
      BY <1>0, <1>2, <2>1 DEF Types
    <3> QED BY <1>5, <3>1 DEF CheckSound
  <2>2. CASE d # c
    BY <1>0, <1>2, <1>9, <2>2 DEF Types
  <2> QED BY <2>1, <2>2
<1> QED BY <1>7, <1>8, <1>10, <1>11 DEF CacheInv

LEMMA ChangeSound ==
    ASSUME CacheInv, NEW o \in Origin, Change(o) PROVE CacheInv'
<1>0. Types /\ CacheIsBounded /\ now \in Nat
  BY DEF CacheInv, Types
<1>1. /\ changed' \in [Origin -> Moments]
      /\ \A p \in Origin : \/ changed'[p] = changed[p]
                           \/ changed[p] = Never /\ changed'[p] = now
      /\ UNCHANGED <<now, site, failed, order, entry, check>>
  BY <1>0 DEF Change, Types, Moments
<1>2. Types' /\ CacheIsBounded'
  BY <1>0, <1>1 DEF Types, CacheIsBounded
<1>3. /\ \A p \in ToSet(order) : EntrySound(p)'
      /\ \A d \in Check : CheckSound(check[d])'
  <2>1. now' \in Nat /\ now' >= now /\ now' = now
    BY <1>0, <1>1
  <2> QED BY <1>1, <2>1, OthersKept
<1> QED BY <1>1, <1>2, <1>3 DEF CacheInv

LEMMA TickSound ==
    ASSUME CacheInv, Tick PROVE CacheInv'
<1>0. Types /\ CacheIsBounded /\ now \in Nat /\ FetchTime \in Nat
  BY CacheAssumption DEF CacheInv, Types
<1>1. now' = now + 1 /\ UNCHANGED <<site, changed, failed, order, entry, check>>
  BY DEF Tick
<1>2. Types' /\ CacheIsBounded'
  BY <1>0, <1>1 DEF Types, CacheIsBounded
<1>3. \A p \in ToSet(order) : EntrySound(p)'
  <2>1. now' \in Nat /\ now' >= now
    BY <1>0, <1>1
  <2> QED BY <1>1, <2>1, OthersKept
<1>4. ASSUME NEW d \in Check PROVE CheckSound(check[d])'
  <2>1. check[d].since \in Nat /\ CheckSound(check[d])
    BY <1>0 DEF CacheInv, Types, Checks
  <2>2. check[d].phase # "idle" => now' <= check[d].since + FetchTime /\ check[d].since <= now'
    BY <1>0, <1>1, <2>1 DEF Tick, CheckSound
  <2>3. check[d].phase = "fetched" => Known(check[d].origin, check[d].file, check[d].since)'
    BY <1>1, <2>1 DEF CheckSound, Known, Serves
  <2> QED BY <1>1, <2>1, <2>2, <2>3 DEF CheckSound
<1> QED BY <1>1, <1>2, <1>3, <1>4 DEF CacheInv

LEMMA StutterSound == ASSUME CacheInv, UNCHANGED robotsVars PROVE CacheInv'
BY DEF CacheInv, Types, CacheIsBounded, CheckSound, EntrySound, Known, Serves, robotsVars

LEMMA CacheInductive == CacheInv /\ [RobotsNext]_robotsVars => CacheInv'
<1> SUFFICES ASSUME CacheInv, [RobotsNext]_robotsVars PROVE CacheInv'
  OBVIOUS
<1>1. ASSUME NEW c \in Check, NEW o \in Origin, StartFetch(c, o) PROVE CacheInv'
  BY <1>1, StartSound
<1>2. ASSUME NEW c \in Check PROVE check[c].origin \in Origin /\ check[c].since \in Nat
                                  /\ check[c].file \in Seq(Lines)
  BY DEF CacheInv, Types, Checks
<1>3. ASSUME NEW c \in Check, Fetched(c) PROVE CacheInv'
  BY <1>2, <1>3, FetchedSound
<1>4. ASSUME NEW c \in Check, Store(c) PROVE CacheInv'
  BY <1>2, <1>4, StoreSound
<1>5. ASSUME NEW o \in Origin, Change(o) PROVE CacheInv'
  BY <1>5, ChangeSound
<1>6. CASE Tick
  BY <1>6, TickSound
<1>7. CASE UNCHANGED robotsVars
  BY <1>7, StutterSound
<1> QED BY <1>1, <1>3, <1>4, <1>5, <1>6, <1>7 DEF RobotsNext

LEMMA CacheInvariant == RobotsSpec => []CacheInv
BY CacheInitially, CacheInductive, PTL DEF RobotsSpec

-----------------------------------------------------------------------------
(* The cache of parsed files holds at most MaxCached origins, each once,   *)
(* however checks overlap and files change.                                *)
THEOREM CacheBounded == RobotsSpec => []CacheIsBounded
<1>1. CacheInv => CacheIsBounded
  BY DEF CacheInv
<1> QED BY <1>1, CacheInvariant, PTL

(* What the cache answers is recent, for every file an origin may serve,   *)
(* every lifetime and length of fetches, however checks overlap.           *)
THEOREM VerdictRecent == RobotsSpec => []VerdictIsRecent
<1>1. CacheInv => VerdictIsRecent
  <2> SUFFICES ASSUME CacheInv, NEW o \in Origin, NEW path \in Path, Fresh(o)
               PROVE  LET allowed == PathAllowed(entry[o].rules, path) IN
                      \/ \E file \in Recent(o) : Ambiguous(file) \/ Says(file, path) = allowed
                      \/ allowed /\ failed[o] # Never /\ now - failed[o] <= Ttl + FetchTime
    BY DEF VerdictIsRecent
  <2>1. o \in ToSet(order) /\ now - entry[o].at < Ttl
    BY DEF Fresh
  <2>2. PICK file \in Seq(Lines), t \in Nat :
          /\ entry[o].rules = Parse(file) /\ Known(o, file, t)
          /\ t <= now /\ entry[o].at <= t + FetchTime
    BY <2>1 DEF CacheInv, EntrySound
  <2>3. /\ {now, entry[o].at, Ttl, FetchTime} \subseteq Nat
        /\ changed[o] \in Moments /\ failed[o] \in Moments
    BY CacheAssumption DEF CacheInv, Types
  <2>4. now - t < Ttl + FetchTime
    BY <2>1, <2>2, <2>3
  <2>5. CASE failed[o] \in Nat /\ failed[o] >= t /\ file = NoFile
    <3>1. failed[o] # Never /\ now - failed[o] <= Ttl + FetchTime
      BY <2>3, <2>4, <2>5 DEF Never
    <3>2. PathAllowed(entry[o].rules, path)
      BY <2>2, <2>5, NoFileAllows
    <3> QED BY <3>1, <3>2
  <2>8. Ambiguous(file) \/ Says(file, path) = PathAllowed(entry[o].rules, path)
    BY <2>2, ParserObeys
  <2>6. CASE file = Serves(o)
    BY <2>6, <2>8 DEF Recent
  <2>7. CASE file = site[o].before /\ changed[o] \in Nat /\ changed[o] >= t
    <3>1. changed[o] # Never /\ now - changed[o] <= Ttl + FetchTime
      BY <2>3, <2>4, <2>7 DEF Never
    <3>2. file \in Recent(o)
      BY <2>7, <3>1 DEF Recent
    <3> QED BY <2>8, <3>2
  <2> QED BY <2>2, <2>5, <2>6, <2>7 DEF Known
<1> QED BY <1>1, CacheInvariant, PTL
=============================================================================
