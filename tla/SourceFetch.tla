----------------------------- MODULE SourceFetch -----------------------------
(***************************************************************************)
(* One call of fetchSource() in packages/fetcher/src/fetch.ts: validate,   *)
(* request, follow redirects by hand.  Each hop is one requestOnce() whose *)
(* socket events and timers race.  DNS may answer differently each time it *)
(* is asked.  No caller in the repository passes an abort signal.          *)
(***************************************************************************)
EXTENDS UrlRules

CONSTANTS
    Url,           \* URLs that are requested or redirected to
    DnsAnswers,    \* what a lookup may return: sets of addresses
    MaxRedirects, MaxBytes,  \* limits.maxRedirects, limits.maxResponseBytes
    RatioFloor, MaxRatio,    \* DECOMPRESSION_RATIO_FLOOR_BYTES, MAX_DECOMPRESSION_RATIO
    Expansion,     \* what a unit of the wire may be decoded to
    Encodings,     \* bound of the model: values of Content-Encoding
    MaxWire,       \* bound of the model on the length of a body on the wire
    NoUrl, BadUrl  \* no redirect; a Location that is no URL

ASSUME FetchAssumption ==
    /\ Url \subseteq UrlRecord /\ NoUrl \notin Url /\ BadUrl \notin Url /\ NoUrl # BadUrl
    /\ DnsAnswers \subseteq SUBSET Address
    /\ {MaxRedirects, MaxBytes, RatioFloor, MaxRatio, MaxWire} \subseteq Nat
    /\ Expansion \subseteq Nat

Hop == 0..MaxRedirects

VARIABLES
    escape,    \* allowLoopback: the test suite's flag in a test environment
    hop,       \* the loop counter
    url,       \* per hop: its URL; redirectChain is url[1], ..., url[hop]
    phase,     \* where fetchSource() is: validating, requesting or done
    req,       \* per hop: its request
    contacts,  \* addresses a connection was opened to (read by properties only)
    result     \* what fetchSource() returned or threw

vars == <<escape, hop, url, phase, req, contacts, result>>

Errors == {"INVALID_URL", "BLOCKED_URL", "SSRF_ATTEMPT", "TIMEOUT", "RESPONSE_TOO_LARGE",
           "UPSTREAM_HTTP_FAILURE", "REDIRECT_LIMIT"}
Stages == {"none", "connecting", "waiting", "body", "stalled", "ended", "closed"}

(* fate is the promise of requestOnce(); timer the armed totalTimer.       *)
Requests == [stage : Stages, fate : {"pending", "response"} \cup Errors, timer : BOOLEAN,
             location : Url \cup {NoUrl, BadUrl}, encoded : BOOLEAN, wire : Nat, bytes : Nat]
NoRequest == [stage |-> "none", fate |-> "pending", timer |-> FALSE,
              location |-> NoUrl, encoded |-> FALSE, wire |-> 0, bytes |-> 0]

Outcome(code, final, size) == [code |-> code, final |-> final, bytes |-> size]
Threw(code) == Outcome(code, NoUrl, 0)
Pending == Threw("pending")

Init ==
    /\ escape \in BOOLEAN
    /\ hop = 0
    /\ \E u \in Url : url = [h \in Hop |-> IF h = 0 THEN u ELSE NoUrl]
    /\ phase = "validating"
    /\ req = [h \in Hop |-> NoRequest]
    /\ contacts = {}
    /\ result = Pending

Throw(code) == phase' = "done" /\ result' = Threw(code)

(* The head of the loop: validateUrl(current), then requestOnce() arms the *)
(* total timer and starts to connect.                                      *)
Validate ==
    /\ phase = "validating"
    /\ \E answer \in DnsAnswers :
         LET verdict == ValidateUrl(url[hop], escape, answer) IN
         IF verdict # "ok" THEN Throw(verdict) /\ UNCHANGED req
         ELSE /\ phase' = "requesting"
              /\ req' = [req EXCEPT ![hop].stage = "connecting", ![hop].timer = TRUE]
              /\ UNCHANGED result
    /\ UNCHANGED <<escape, hop, url, contacts>>

-----------------------------------------------------------------------------
(* requestOnce().  Its promise is decided by the first call of finish(),   *)
(* which disarms the timer.                                                *)
Finish(r, fate) == IF r.fate = "pending" THEN [r EXCEPT !.fate = fate, !.timer = FALSE] ELSE r

Destroyed(r) == [r EXCEPT !.stage = "closed"]

FailOpen(r, code) == Finish(r, code)

(* req.destroy() and then finish(reject): how every limit, timer and       *)
(* stream error ends a request.                                            *)
Fail(r, code) == Finish(Destroyed(r), code)

LookupFirst(answer) ==
    IF answer = {} THEN "UPSTREAM_HTTP_FAILURE"
    ELSE IF \A a \in answer : BadAddress(a, escape) THEN "SSRF_ATTEMPT"
    ELSE "ok"

(* The lookup of the agent validates again what the name resolves to now.  *)
GuardedLookup(answer) ==
    IF answer = {} THEN "UPSTREAM_HTTP_FAILURE"
    ELSE IF \E a \in answer : BadAddress(a, escape) THEN "SSRF_ATTEMPT"
    ELSE "ok"

(* A literal address is connected to as it is; of a name's addresses Node  *)
(* may try any.  An error of the lookup is an error of the request.        *)
Connect(h) ==
    /\ req[h].stage = "connecting"
    /\ IF url[h].host.literal
       THEN /\ contacts' = contacts \cup {url[h].host.address}
            /\ req' = [req EXCEPT ![h].stage = "waiting"]
       ELSE \E answer \in DnsAnswers :
              IF GuardedLookup(answer) = "ok"
              THEN /\ \E a \in answer : contacts' = contacts \cup {a}
                   /\ req' = [req EXCEPT ![h].stage = "waiting"]
              ELSE /\ req' = [req EXCEPT ![h] = Fail(@, GuardedLookup(answer))]
                   /\ UNCHANGED contacts
    /\ UNCHANGED <<escape, hop, url, phase, result>>

Decoders == {"gzip", "x-gzip", "deflate", "br"}

(* "identity" says nothing; a body is decoded only if all other encodings  *)
(* are known, and else left as it is.                                      *)
Decoded(encoding) ==
    LET chain == {encoding[i] : i \in DOMAIN encoding} \ {"identity"}
    IN  chain # {} /\ chain \subseteq Decoders

(* The headers: a declared length over the limit ends the request.         *)
Headers(h) ==
    /\ req[h].stage = "waiting"
    /\ \/ req' = [req EXCEPT ![h] = Fail(@, "RESPONSE_TOO_LARGE")]
       \/ \E l \in Url \cup {NoUrl, BadUrl}, e \in Encodings :
            req' = [req EXCEPT ![h].stage = "body", ![h].location = l, ![h].encoded = Decoded(e)]
    /\ UNCHANGED <<escape, hop, url, phase, contacts, result>>

TooLargeInclusive(r) ==
    \/ r.bytes > MaxBytes + 1
    \/ r.bytes > RatioFloor /\ r.bytes > r.wire * MaxRatio

TooLarge(r) ==
    \/ r.bytes > MaxBytes
    \/ r.bytes > RatioFloor /\ r.bytes > r.wire * MaxRatio

(* A unit arrives and is counted, decoded, and counted again.              *)
Data(h) ==
    /\ req[h].stage = "body" /\ req[h].wire < MaxWire
    /\ \E n \in IF req[h].encoded THEN Expansion ELSE {1} :
         LET r == [req[h] EXCEPT !.wire = @ + 1, !.bytes = @ + n] IN
         req' = [req EXCEPT ![h] = IF TooLarge(r) THEN Fail(r, "RESPONSE_TOO_LARGE") ELSE r]
    /\ UNCHANGED <<escape, hop, url, phase, contacts, result>>

(* The answer is complete.  The code leaves the connection, announced with *)
(* "connection: close", to the site and to the timer of idle sockets.      *)
End(h) ==
    /\ req[h].stage = "body"
    /\ req' = [req EXCEPT ![h] = Finish([@ EXCEPT !.stage = "ended"], "response")]
    /\ UNCHANGED <<escape, hop, url, phase, contacts, result>>

(* The connection is refused, reset or closed, or a decoder fails.  pipe() *)
(* does not forward the error of a response that is cut off, so a decoder  *)
(* then waits for an end that never comes.                                 *)
Breaks(h) ==
    /\ req[h].stage \in {"connecting", "waiting", "body", "ended"}
    /\ \/ req' = [req EXCEPT ![h] = Fail(@, "UPSTREAM_HTTP_FAILURE")]
       \/ /\ req[h].stage = "body" /\ req[h].encoded
          /\ req' = [req EXCEPT ![h].stage = "stalled"]
    /\ UNCHANGED <<escape, hop, url, phase, contacts, result>>

(* The socket is silent for connectTimeoutMs.                              *)
IdleTimeout(h) ==
    /\ req[h].stage \in {"connecting", "waiting", "body", "ended"}
    /\ req' = [req EXCEPT ![h] = Fail(@, "TIMEOUT")]
    /\ UNCHANGED <<escape, hop, url, phase, contacts, result>>

TotalTimeoutLeaving(h) ==
    /\ req[h].timer
    /\ req' = [req EXCEPT ![h] = FailOpen(@, "TIMEOUT")]
    /\ UNCHANGED <<escape, hop, url, phase, contacts, result>>

TotalTimeoutOfSocket(h) ==
    /\ req[h].timer /\ req[h].stage # "stalled"
    /\ req' = [req EXCEPT ![h] = Fail(@, "TIMEOUT")]
    /\ UNCHANGED <<escape, hop, url, phase, contacts, result>>

TotalTimeout(h) ==
    /\ req[h].timer
    /\ req' = [req EXCEPT ![h] = Fail(@, "TIMEOUT")]
    /\ UNCHANGED <<escape, hop, url, phase, contacts, result>>

Event(h) == Connect(h) \/ Headers(h) \/ Data(h) \/ End(h) \/ Breaks(h) \/ IdleTimeout(h)

-----------------------------------------------------------------------------
(* A redirect: the limit, the target, and its validation before it becomes *)
(* the current URL.                                                        *)
Redirect(next) ==
    IF hop = MaxRedirects THEN Throw("REDIRECT_LIMIT") /\ UNCHANGED <<hop, url>>
    ELSE IF next = BadUrl THEN Throw("UPSTREAM_HTTP_FAILURE") /\ UNCHANGED <<hop, url>>
    ELSE \E answer \in DnsAnswers :
           LET verdict == ValidateUrl(next, escape, answer) IN
           IF verdict # "ok" THEN Throw(verdict) /\ UNCHANGED <<hop, url>>
           ELSE /\ hop' = hop + 1
                /\ url' = [url EXCEPT ![hop + 1] = next]
                /\ phase' = "validating"
                /\ UNCHANGED result

(* fetchSource() goes on when the promise of the request is decided.       *)
Continue ==
    /\ phase = "requesting" /\ req[hop].fate # "pending"
    /\ IF req[hop].fate # "response" THEN Throw(req[hop].fate) /\ UNCHANGED <<hop, url>>
       ELSE IF req[hop].location # NoUrl THEN Redirect(req[hop].location)
       ELSE /\ phase' = "done"
            /\ result' = Outcome("ok", url[hop], req[hop].bytes)
            /\ UNCHANGED <<hop, url>>
    /\ UNCHANGED <<escape, req, contacts>>

Next == Validate \/ Continue \/ \E h \in Hop : Event(h) \/ TotalTimeout(h)

(* Continuations run and an armed timer goes off; the network owes nothing.*)
Spec ==
    /\ Init /\ [][Next]_vars
    /\ WF_vars(Validate \/ Continue)
    /\ \A h \in Hop : WF_vars(TotalTimeout(h))

-----------------------------------------------------------------------------
TypeOK ==
    /\ escape \in BOOLEAN
    /\ hop \in Hop
    /\ url \in [Hop -> Url \cup {NoUrl}]
    /\ phase \in {"validating", "requesting", "done"}
    /\ req \in [Hop -> Requests]
    /\ contacts \subseteq Address
    /\ result \in [code : {"pending", "ok"} \cup Errors, final : Url \cup {NoUrl}, bytes : Nat]

(* Whatever a name resolves to at each look-up and wherever a site         *)
(* redirects to, no connection is opened to an address of a block that     *)
(* ip.ts lists, mapped into IPv6 or not (to loopback only under the escape *)
(* of the tests), and a request is sent only over http(s), without         *)
(* credentials, to a web port.  Addresses of unlisted blocks are           *)
(* contacted: that only public ones are (ip.ts:10) is not claimed.         *)
ContactsAreAllowed ==
    /\ \A a \in contacts :
         a.block \in DisallowedV4 \cup DisallowedV6 => escape /\ a.block = "loopback"
    /\ \A h \in Hop : req[h].stage # "none" =>
         /\ url[h].scheme \in {"http", "https"} /\ ~url[h].credentials
         /\ url[h].port \in ALLOWED_PORTS \/ (escape /\ url[h].host.literal)

(* A result is the answer of the last URL of an unbroken chain of at most  *)
(* MaxRedirects redirects and within both size limits; the chain is given  *)
(* up only when it is longer.                                              *)
ResultIsFaithful ==
    /\ \A h \in 1..hop : req[h - 1].fate = "response" /\ req[h - 1].location = url[h]
    /\ result.code = "ok" =>
         /\ result.final = url[hop] /\ result.bytes = req[hop].bytes
         /\ result.bytes <= MaxBytes
         /\ result.bytes <= RatioFloor \/ result.bytes <= req[hop].wire * MaxRatio
    /\ result.code = "REDIRECT_LIMIT" => hop = MaxRedirects

(* "The socket is destroyed so no upstream connection is left dangling":   *)
(* the socket of a request that failed is destroyed, only one whose answer *)
(* came in full may still be closing, no timer of either is armed, and one *)
(* request at a time is undecided.                                         *)
NothingLeftOpen ==
    \A h \in Hop :
      /\ req[h].stage # "none"
      /\ h # hop \/ phase = "done" \/ req[h].fate # "pending"
      => /\ ~req[h].timer
         /\ req[h].stage = "closed" \/ (req[h].stage = "ended" /\ req[h].fate = "response")

(* Every fetch ends, whatever the site does or fails to do: the total      *)
(* timer ends what no event does.                                          *)
FetchEnds == <>(phase = "done")
=============================================================================
