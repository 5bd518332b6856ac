------------------------------ MODULE Admission ------------------------------
(***************************************************************************)
(* What the backend asks of a request before its handler runs: the shared  *)
(* secret, the rate limit of its client, and the daily quotas of the free  *)
(* previews (apps/backend/src/app.ts, auth.ts, packages/mcp/src/index.ts). *)
(* The hooks and the quotas run without an await in between.               *)
(***************************************************************************)
EXTENDS RateLimiter

CONSTANTS
    PerIpDay, GlobalDay,  \* PREVIEW_PER_IP_DAY, PREVIEW_GLOBAL_DAY
    McpPerDay,            \* PREVIEW_PER_DAY of the MCP tool
    NoKey,                \* a header that is absent
    Edge,                 \* what is put on a request between Worker and backend
    Stray,                \* headers of requests that bypass the Worker
    MaxTime, MaxDay       \* bounds of the model on the clock

Credential == {"none", "secret", "wrong"}

(* cf: cf-connecting-ip; forwarded: the first of x-forwarded-for; ip: the  *)
(* peer of the socket.                                                     *)
Headers == [backendAuth : Credential, bearer : Credential,
            cf : Key \cup {NoKey}, forwarded : Key \cup {NoKey}, ip : Key]

ASSUME AdmissionAssumption ==
    /\ {PerIpDay, GlobalDay, McpPerDay, MaxTime, MaxDay} \subseteq Nat
    /\ NoKey \notin Key
    /\ Edge \subseteq [cf : Key \cup {NoKey}, ip : Key]
    /\ Stray \subseteq {h \in Headers : "secret" \notin {h.backendAuth, h.bearer}}

VARIABLES
    day,      \* the UTC date; the clock is not set back across midnight
    byIp,     \* previewByIp: day and count per address; day -1 is no entry
    global,   \* previewGlobal
    mcp,      \* previewDay and previewCount of the MCP adapter
    taken,    \* per day and client: HTTP previews granted (read by properties only)
    mcpTaken  \* per day: MCP previews granted (read by properties only)

quotaVars == <<day, byIp, global, mcp, taken, mcpTaken>>
vars == <<limiterVars, quotaVars>>

Day == 0..MaxDay
Counter(d, n) == [day |-> d, count |-> n]
Unset == Counter(-1, 0)

Init ==
    /\ InitLimiter
    /\ day = 0
    /\ byIp = [k \in Key |-> Unset]
    /\ global = Unset /\ mcp = Unset
    /\ taken = [d \in Day |-> [k \in Key |-> 0]]
    /\ mcpTaken = [d \in Day |-> 0]

Untouched == UNCHANGED quotaVars

(* A counter starts at zero on the first use of a day.                     *)
TodayForgetful(c) == c.count

Today(c) == IF c.day = day THEN c.count ELSE 0

SpentPreviewsLoose(k) == Today(byIp[k]) > PerIpDay \/ Today(global) >= GlobalDay

SpentPreviews(k) == Today(byIp[k]) >= PerIpDay \/ Today(global) >= GlobalDay

(* takePreview(): counted before the arguments are looked at.              *)
TakePreview(k) ==
    /\ global' = Counter(day, Today(global) + IF SpentPreviews(k) THEN 0 ELSE 1)
    /\ byIp' = [x \in Key |->
         IF x = k /\ ~SpentPreviews(k) THEN Counter(day, Today(byIp[k]) + 1)
         ELSE IF global.day = day THEN byIp[x] ELSE Unset]
    /\ taken' = IF SpentPreviews(k) THEN taken ELSE [taken EXCEPT ![day][k] = @ + 1]
    /\ UNCHANGED <<mcp, mcpTaken>>

SpentMcpPreviews == Today(mcp) >= McpPerDay

(* The MCP tool counts only calls with valid arguments.                    *)
McpPreview(valid) ==
    LET granted == valid /\ ~SpentMcpPreviews IN
    /\ mcp' = Counter(day, Today(mcp) + IF granted THEN 1 ELSE 0)
    /\ mcpTaken' = IF granted THEN [mcpTaken EXCEPT ![day] = @ + 1] ELSE mcpTaken
    /\ UNCHANGED <<byIp, global, taken>>

-----------------------------------------------------------------------------
(* The Worker sends the secret, and the address of its client if it knows  *)
(* one; no credential of the client's is passed on.                        *)
ProxyToBackend(client, edge) ==
    [backendAuth |-> "secret", bearer |-> "none", cf |-> edge.cf, forwarded |-> client, ip |-> edge.ip]

Sent == Stray \cup {ProxyToBackend(c, e) : c \in Key \cup {NoKey}, e \in Edge}

ExtractCredential(h) == IF h.backendAuth # "none" THEN h.backendAuth ELSE h.bearer

SecretMatches(h) == ExtractCredential(h) = "secret"

(* "public" stands for the files anybody may read, "other" for the paid    *)
(* routes and the rest.                                                    *)
PublicPath == {"/health", "public"}
Path == PublicPath \cup {"preview", "mcp", "other"}

(* The rate limit and the quota do not read the same headers.              *)
ClientKey(h) ==
    IF h.cf # NoKey THEN h.cf ELSE IF h.forwarded # NoKey THEN h.forwarded ELSE h.ip

PreviewIp(h) == IF h.forwarded # NoKey THEN h.forwarded ELSE h.ip

(* The authentication hook, and the probe that skips the limit.            *)
Authenticated(h, path) == path \in PublicPath \/ SecretMatches(h)

Metered(path) == {h \in Sent : path # "/health" /\ Authenticated(h, path)}

Caller(path) == {[key |-> ClientKey(h), ip |-> PreviewIp(h)] : h \in Metered(path)}

Keys(paths) == {c.key : c \in UNION {Caller(path) : path \in paths}}

PreviewCaller == Caller("preview")
McpKey == Keys({"mcp"})
AnyKey == Keys(Path)

(* Refused before it costs a token, or a liveness probe.                   *)
Unmetered ==
    /\ \E path \in Path : Sent \ Metered(path) # {}
    /\ Untouched /\ UNCHANGED limiterVars

(* Over the limit: 429 with Retry-After, before any handler.               *)
Limited(k) == ~Allowed(k) /\ Check(k) /\ Untouched

PreviewRequest(c) == Allowed(c.key) /\ Check(c.key) /\ TakePreview(c.ip) /\ UNCHANGED day

McpPreviewRequest(k) ==
    /\ Allowed(k) /\ Check(k)
    /\ \E valid \in BOOLEAN : McpPreview(valid)
    /\ UNCHANGED day

(* Any other route, and the other messages of the MCP route.               *)
OtherRequest(k) == Allowed(k) /\ Check(k) /\ Untouched

Request ==
    \/ \E c \in PreviewCaller : PreviewRequest(c)
    \/ \E k \in McpKey : McpPreviewRequest(k)
    \/ \E k \in AnyKey : Limited(k) \/ OtherRequest(k)

Time ==
    \/ now < MaxTime /\ elapsed < MaxTime /\ Tick /\ Untouched
    \/ SetBack /\ Untouched
    \/ /\ day < MaxDay /\ day' = day + 1
       /\ UNCHANGED <<limiterVars, byIp, global, mcp, taken, mcpTaken>>

Next ==
    \/ Unmetered \/ Request
    \/ Time

Spec == Init /\ [][Next]_vars

-----------------------------------------------------------------------------
(* The previews granted to all clients on day d, one by one.               *)
Granted(d) == UNION {{k} \X (1..taken[d][k]) : k \in Key}

TakenOn(d) == Cardinality(Granted(d))

(* On no day more previews are granted than either quota allows, whatever  *)
(* the order of clients, routes and midnight.                              *)
QuotasHold ==
    \A d \in Day :
      /\ \A k \in Key : taken[d][k] <= PerIpDay
      /\ TakenOn(d) <= GlobalDay
      /\ mcpTaken[d] <= McpPerDay

(* A preview is refused only when today's quota is really used up: what    *)
(* was used yesterday, or by the other counter, is not held against it.    *)
RefusalsAreEarned ==
    /\ \A k \in Key : SpentPreviews(k) => taken[day][k] = PerIpDay \/ TakenOn(day) = GlobalDay
    /\ SpentMcpPreviews => mcpTaken[day] = McpPerDay
=============================================================================
