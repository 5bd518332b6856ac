--------------------------- MODULE DeploymentProofs ---------------------------
(***************************************************************************)
(* Theorems about Deployment: for any calls, visits, lifetimes and clock,  *)
(* transports are released once, a shutdown cuts off nobody it need not,   *)
(* calls are answered as served and forwarded only to a living backend.    *)
(***************************************************************************)
EXTENDS Deployment, TLAPS

(* What a call is by itself: nothing before it arrives, released once,     *)
(* answered when its work is done, reported if it was a paid one.          *)
CallSound(j) ==
    /\ j.work = "idle" => j.pair = "none" /\ j.response = "none"
    /\ j.releases = IF j.pair = "closed" THEN 1 ELSE 0
    /\ j.pair = "open" => j.response = "open"
    /\ j.result = j.served
    /\ j.client = "answered" => j.work = "done"
    /\ j.work \in {"alerts", "points", "forecast"} => j.tool # "research_evidence"
    /\ /\ j.work \in {"answer", "done"} /\ j.tool = "research_evidence"
       /\ j.served \in {"ok", "service_error"}
       => j.report # "none"
    /\ j.client = "cut" => j.adapter = "weather"
    /\ j.pair = "open" => j.adapter # "plain"

Quiet == \A c \in Call : call[c].response # "open"

(* When there can be no calls and when none is open any more.              *)
Lifecycle ==
    /\ stage \in {"starting", "binding"} => \A c \in Call : call[c].work = "idle"
    /\ shutdown \in {"mcp", "cache", "exit"} => Quiet
    /\ stage = "exited" => Quiet
    /\ cache = "closed" => shutdown = "exit"

BackendTypes ==
    /\ stage \in {"starting", "binding", "serving", "exited"} /\ exitCode \in {0, 1}
    /\ shutdown \in {"no", "app", "mcp", "cache", "exit"}
    /\ cache \in {"none", "open", "closed"}
    /\ weatherClosed \in BOOLEAN
    /\ active \subseteq Call
    /\ call \in [Call -> Calls]

BackendInv ==
    /\ BackendTypes
    /\ \A c \in Call : CallSound(call[c])
    /\ \A c \in Call : c \in active <=> call[c].pair = "open"
    /\ Lifecycle

EdgeTypes ==
    /\ now \in Nat /\ lastUp \in Int
    /\ health \in [ok : BOOLEAN, at : Int]
    /\ visit \in [Visit -> Visits]

(* What the edge has seen of the backend was true at the time it keeps.    *)
EdgeInv ==
    /\ EdgeTypes
    /\ lastUp <= now
    /\ health.ok => health.at <= lastUp
    /\ \A v \in Visit : visit[v].at = "client" => visit[v].saw = "nothing"
    /\ \A v \in Visit : visit[v].at = "probing" =>
         /\ visit[v].entered <= now /\ now - visit[v].entered <= ProbeTimeout
         /\ visit[v].saw = "up" => visit[v].entered <= lastUp

IInv == BackendInv /\ EdgeInv /\ (Up => lastUp = now)

-----------------------------------------------------------------------------
Tool == UNION {Tools[a] : a \in Adapters}

LEMMA ToolFacts ==
    /\ Adapters = {"evidence", "weather", "plain"}
    /\ \A a \in Adapters : Tools[a] \subseteq Tool
    /\ \A t \in Tool : t \in {"research_evidence", "preview", "at once", "stream", "get-alerts",
                               "get-forecast"}
    /\ {"get-alerts"} \subseteq Tool
  <1>1. Adapters = {"evidence", "weather", "plain"}
    BY DEF Adapters, Tools
  <1>2. /\ Tools["evidence"] = {"research_evidence", "preview", "at once", "stream"}
        /\ Tools["weather"] = {"get-alerts", "get-forecast", "at once", "stream"}
        /\ Tools["plain"] = {"preview", "get-alerts", "get-forecast", "at once"}
    BY DEF Tools
  <1>3. \A a \in Adapters : Tools[a] \subseteq Tool
    BY DEF Tool
  <1>4. ASSUME NEW t \in Tool
        PROVE  t \in {"research_evidence", "preview", "at once", "stream", "get-alerts",
                      "get-forecast"}
    <2>1. PICK a \in Adapters : t \in Tools[a]
      BY DEF Tool
    <2>2. QED
      BY <1>1, <1>2, <2>1
  <1>5. "get-alerts" \in Tool
    BY <1>1, <1>2, <1>3
  <1>6. QED
    BY <1>1, <1>3, <1>4, <1>5

LEMMA CallsAre ==
    Calls = [adapter : {"evidence", "weather", "plain"}, tool : Tool,
             work : {"idle", "connect", "execute", "alerts", "points", "forecast", "report",
                     "answer", "stream", "done"},
             served : Results, result : Results, report : {"none", "written", "lost"},
             pair : {"none", "open", "closed"}, releases : Nat,
             response : {"none", "open", "closed"},
             client : {"waiting", "answered", "cut", "gone"}]
  BY ToolFacts DEF Calls, Tool

LEMMA NoCallSound == NoCall \in Calls /\ CallSound(NoCall)
  <1>1. "get-alerts" \in Tool
    BY ToolFacts
  <1>2. NoCall \in Calls
    BY <1>1, CallsAre DEF NoCall, Results
  <1>3. QED
    BY <1>2 DEF NoCall, CallSound

LEMMA InitBackendSound == InitBackend => BackendInv
  <1> SUFFICES ASSUME InitBackend PROVE BackendInv
    OBVIOUS
  <1>1. /\ stage = "starting" /\ exitCode = 0 /\ shutdown = "no" /\ cache = "none"
        /\ weatherClosed = FALSE /\ active = {} /\ call \in [Call -> Calls]
        /\ \A c \in Call : call[c] = NoCall
    BY NoCallSound DEF InitBackend
  <1>2. NoCall.work = "idle" /\ NoCall.pair = "none"
    BY DEF NoCall
  <1>3. QED
    BY <1>1, <1>2, NoCallSound DEF BackendInv, BackendTypes, Lifecycle

-----------------------------------------------------------------------------
(* One call moves, the process stands still.                               *)
Moves(c, j) ==
    /\ j \in Calls /\ CallSound(j)
    /\ call' = [call EXCEPT ![c] = j]
    /\ \A d \in Call : d # c => (d \in active' <=> d \in active)
    /\ c \in active' <=> j.pair = "open"
    /\ active' \subseteq Call
    /\ UNCHANGED processVars
    /\ stage \notin {"starting", "binding"}
    /\ j.response = "open" => call[c].response = "open" \/ (stage = "serving" /\ shutdown = "no")

LEMMA MoveSound ==
    ASSUME BackendInv, NEW c \in Call, NEW j, Moves(c, j)
    PROVE  BackendInv'
  <1>1. /\ j \in Calls /\ CallSound(j) /\ call' \in [Call -> Calls]
        /\ \A d \in Call : call'[d] = IF d = c THEN j ELSE call[d]
    BY DEF BackendInv, BackendTypes, Moves
  <1>2. BackendTypes'
    BY <1>1 DEF BackendInv, BackendTypes, Moves, processVars
  <1>3. (\A d \in Call : CallSound(call[d]))'
    <2>1. \A d \in Call : CallSound(call'[d])
      BY <1>1 DEF BackendInv
    <2>2. QED
      BY <2>1 DEF CallSound
  <1>4. (\A d \in Call : d \in active <=> call[d].pair = "open")'
    BY <1>1 DEF BackendInv, Moves
  <1>5. Lifecycle'
    BY <1>1 DEF BackendInv, BackendTypes, Lifecycle, Quiet, Moves, processVars
  <1>6. QED
    BY <1>2, <1>3, <1>4, <1>5 DEF BackendInv

(* What does not touch the calls.                                          *)
LEMMA ProcessSound ==
    ASSUME BackendInv, UNCHANGED <<active, call>>,
           /\ stage' \in {"starting", "binding", "serving", "exited"} /\ exitCode' \in {0, 1}
           /\ shutdown' \in {"no", "app", "mcp", "cache", "exit"}
           /\ cache' \in {"none", "open", "closed"} /\ weatherClosed' \in BOOLEAN,
           Lifecycle'
    PROVE  BackendInv'
  BY DEF BackendInv, BackendTypes, CallSound

LEMMA IdleIsQuiet ==
    ASSUME BackendInv, stage \in {"starting", "binding"}
    PROVE  Quiet
  BY DEF BackendInv, Lifecycle, CallSound, Quiet

LEMMA BootSound == BackendInv /\ Boot => BackendInv'
  <1> SUFFICES ASSUME BackendInv, Boot PROVE BackendInv'
    OBVIOUS
  <1>0. BackendTypes /\ Lifecycle
    BY DEF BackendInv
  <1>1. CASE Load
    <2>1. Quiet
      BY <1>1, IdleIsQuiet DEF Load
    <2>2. Lifecycle' /\ UNCHANGED <<active, call>>
      BY <1>0, <1>1, <2>1 DEF Load, Die, Lifecycle, Quiet, BackendTypes
    <2>3. /\ stage' \in {"starting", "binding", "serving", "exited"} /\ exitCode' \in {0, 1}
          /\ shutdown' \in {"no", "app", "mcp", "cache", "exit"}
          /\ cache' \in {"none", "open", "closed"} /\ weatherClosed' \in BOOLEAN
      BY <1>0, <1>1 DEF Load, Die, BackendTypes
    <2>4. QED
      BY <2>2, <2>3, ProcessSound
  <1>2. CASE Bind
    <2>1. Quiet
      BY <1>2, IdleIsQuiet DEF Bind
    <2>2. Lifecycle' /\ UNCHANGED <<active, call>>
      BY <1>0, <1>2, <2>1 DEF Bind, Die, Lifecycle, Quiet, BackendTypes
    <2>3. /\ stage' \in {"starting", "binding", "serving", "exited"} /\ exitCode' \in {0, 1}
          /\ shutdown' \in {"no", "app", "mcp", "cache", "exit"}
          /\ cache' \in {"none", "open", "closed"} /\ weatherClosed' \in BOOLEAN
      BY <1>0, <1>2 DEF Bind, Die, BackendTypes
    <2>4. QED
      BY <2>2, <2>3, ProcessSound
  <1>3. CASE Signal
    <2>1. Lifecycle' /\ UNCHANGED <<active, call>>
      BY <1>0, <1>3 DEF Signal, Lifecycle, Quiet, BackendTypes
    <2>2. /\ stage' \in {"starting", "binding", "serving", "exited"} /\ exitCode' \in {0, 1}
          /\ shutdown' \in {"no", "app", "mcp", "cache", "exit"}
          /\ cache' \in {"none", "open", "closed"} /\ weatherClosed' \in BOOLEAN
      BY <1>0, <1>3 DEF Signal, BackendTypes
    <2>3. QED
      BY <2>1, <2>2, ProcessSound
  <1>4. QED
    BY <1>1, <1>2, <1>3 DEF Boot
-----------------------------------------------------------------------------
LEMMA OpenedSound ==
    ASSUME NEW adapter \in Adapters, NEW tool \in Tools[adapter]
    PROVE  LET j == Opened(adapter, tool)
           IN  /\ j \in Calls /\ CallSound(j) /\ j.work = "connect"
               /\ j.pair = IF adapter = "plain" THEN "none" ELSE "open"
  <1> DEFINE j == Opened(adapter, tool)
             p == IF adapter = "plain" THEN "none" ELSE "open"
  <1>1. tool \in Tool /\ adapter \in {"evidence", "weather", "plain"}
    BY ToolFacts
  <1>2. j = [NoCall EXCEPT !.adapter = adapter, !.tool = tool, !.work = "connect",
                           !.response = "open", !.pair = p]
    BY DEF Opened
  <1>3. p \in {"none", "open"} /\ (p = "open" => adapter # "plain")
    OBVIOUS
  <1> HIDE DEF p, j
  <1>4. NoCall \in Calls
    BY NoCallSound
  <1>5. /\ j \in Calls /\ j.pair = p /\ j.adapter = adapter /\ j.response = "open"
        /\ j.work = "connect"
    BY <1>1, <1>2, <1>3, <1>4, CallsAre
  <1>6. /\ j.releases = NoCall.releases /\ j.served = NoCall.served
        /\ j.result = NoCall.result /\ j.client = NoCall.client
    BY <1>2, <1>4, CallsAre
  <1>7. CallSound(j)
    BY <1>3, <1>5, <1>6 DEF CallSound, NoCall
  <1>8. QED
    BY <1>5, <1>7 DEF p, j

(* A transport takes on what was asked; its pair and response stay.        *)
LEMMA DispatchedSound ==
    ASSUME NEW j \in Calls, CallSound(j), j.work = "connect"
    PROVE  LET d == Dispatched(j)
           IN  d \in Calls /\ CallSound(d) /\ d.pair = j.pair /\ d.response = j.response
  <1> DEFINE d == Dispatched(j)
  <1>1. j.tool \in {"research_evidence", "preview", "at once", "stream", "get-alerts",
                    "get-forecast"}
    BY CallsAre, ToolFacts
  <1>2. CASE j.tool = "at once"
    <2>1. d = [j EXCEPT !.work = "answer", !.served = "ok", !.result = "ok"]
      BY <1>2 DEF Dispatched
    <2>2. QED
      BY <1>2, <2>1, CallsAre DEF CallSound, Results
  <1>3. CASE j.tool # "at once"
    <2>1. PICK w \in {"execute", "alerts", "points", "stream"} :
            /\ d = [j EXCEPT !.work = w]
            /\ w \in {"alerts", "points"} => j.tool # "research_evidence"
      <3>1. CASE j.tool = "get-alerts"
        BY <3>1 DEF Dispatched
      <3>2. CASE j.tool = "get-forecast"
        BY <3>2 DEF Dispatched
      <3>3. CASE j.tool \in {"research_evidence", "preview"}
        BY <3>3 DEF Dispatched
      <3>4. CASE j.tool = "stream"
        BY <3>4 DEF Dispatched
      <3>5. QED
        BY <1>1, <1>3, <3>1, <3>2, <3>3, <3>4
    <2>2. QED
      BY <2>1, CallsAre DEF CallSound
  <1>4. QED
    BY <1>2, <1>3

LEMMA Newcomer ==
    ASSUME BackendInv, NEW c \in Call, NEW adapter, Arriving(c, adapter)
    PROVE  /\ c \notin active /\ UNCHANGED processVars
           /\ stage = "serving" /\ shutdown = "no" /\ active \subseteq Call
  BY DEF BackendInv, BackendTypes, CallSound, Arriving

LEMMA NodeRequestSound ==
    ASSUME BackendInv, NEW c \in Call, NEW adapter \in {"evidence", "weather"},
           NEW tools, tools \subseteq Tools[adapter],
           HandleNodeRequest(c, adapter, tools)
    PROVE  BackendInv'
  <1>1. /\ c \notin active /\ UNCHANGED processVars
        /\ stage = "serving" /\ shutdown = "no" /\ active \subseteq Call
    BY Newcomer DEF HandleNodeRequest
  <1>2. PICK tool \in Tools[adapter] : call' = [call EXCEPT ![c] = Opened(adapter, tool)]
    BY DEF HandleNodeRequest
  <1>3. active' = active \cup {c} /\ adapter \in Adapters
    BY ToolFacts DEF HandleNodeRequest
  <1> DEFINE j == Opened(adapter, tool)
  <1>4. j \in Calls /\ CallSound(j) /\ j.pair = "open"
    BY <1>3, OpenedSound
  <1> HIDE DEF j
  <1>5. Moves(c, j)
    BY <1>1, <1>2, <1>3, <1>4 DEF Moves, j
  <1>6. QED
    BY <1>5, MoveSound

LEMMA RouteSound ==
    ASSUME BackendInv, NEW c \in Call, WeatherRoute(c) \/ PreviewRoute(c)
    PROVE  BackendInv'
  <1>1. /\ c \notin active /\ UNCHANGED processVars /\ UNCHANGED active
        /\ stage = "serving" /\ shutdown = "no" /\ active \subseteq Call
    BY Newcomer DEF WeatherRoute, PreviewRoute, Route
  <1>2. Tools.plain = Tools["plain"]
    OBVIOUS
  <1>3. PICK tool \in Tools["plain"] :
          call' = [call EXCEPT ![c] = Dispatched(Opened("plain", tool))]
    BY <1>2 DEF WeatherRoute, PreviewRoute, Route
  <1> DEFINE d == Dispatched(Opened("plain", tool))
  <1>4. d \in Calls /\ CallSound(d) /\ d.pair = "none"
    <2>1. "plain" \in Adapters
      BY ToolFacts
    <2>2. QED
      BY <2>1, OpenedSound, DispatchedSound
  <1> HIDE DEF d
  <1>5. Moves(c, d)
    BY <1>1, <1>3, <1>4 DEF Moves, d
  <1>6. QED
    BY <1>5, MoveSound

LEMMA ForwardSound ==
    ASSUME BackendInv, NEW c \in Call,
           \/ Forward(c) \/ PreviewRoute(c)
           \/ \E adapter \in {"evidence", "weather"} : HandleNodeRequest(c, adapter, GetOrDelete)
    PROVE  BackendInv'
  <1>1. \A adapter \in {"evidence", "weather"} :
          Message(adapter) \subseteq Tools[adapter] /\ GetOrDelete \subseteq Tools[adapter]
    <2>1. GetOrDelete \subseteq Tools["evidence"] /\ GetOrDelete \subseteq Tools["weather"]
      BY DEF GetOrDelete, Tools
    <2>2. QED
      BY <2>1 DEF Message
  <1>2. QED
    BY <1>1, NodeRequestSound, RouteSound DEF Forward

-----------------------------------------------------------------------------
(* A change of a call at work that keeps its pair and its response.        *)
LEMMA WorkMoves ==
    ASSUME BackendInv, NEW c \in Call, call[c].work # "idle",
           NEW j \in Calls, CallSound(j),
           j.pair = call[c].pair, j.response = call[c].response,
           call' = [call EXCEPT ![c] = j], UNCHANGED <<processVars, active>>
    PROVE  BackendInv'
  <1>1. Moves(c, j)
    BY DEF Moves, BackendInv, BackendTypes, Lifecycle
  <1>2. QED
    BY <1>1, MoveSound

(* served() is recorded as it is.                                          *)
LEMMA ServedSound ==
    ASSUME BackendInv, NEW c \in Call, NEW outcome \in {"ok", "service_error", "internal_error"},
           NEW next \in {"report", "answer"}, call[c].work \notin {"idle", "done", "answer"},
           next = "answer" /\ outcome # "internal_error" => call[c].tool # "research_evidence",
           Served(c, outcome, next), UNCHANGED <<processVars, active>>
    PROVE  BackendInv'
  <1> DEFINE k == call[c]
             j == [k EXCEPT !.served = outcome, !.result = outcome, !.work = next]
  <1>1. k \in Calls /\ CallSound(k)
    BY DEF BackendInv, BackendTypes
  <1>2. call' = [call EXCEPT ![c] = j]
    BY DEF Served
  <1>3. k.work \notin {"idle", "done", "answer"}
        /\ (next = "answer" /\ outcome # "internal_error" => k.tool # "research_evidence")
    OBVIOUS
  <1>4. j \in Calls /\ CallSound(j) /\ j.pair = k.pair /\ j.response = k.response
    <2> HIDE DEF k
    <2>1. QED
      BY <1>1, <1>3, CallsAre DEF CallSound, Results
  <1> HIDE DEF j
  <1>5. QED
    BY <1>2, <1>3, <1>4, WorkMoves

(* A transport that throws is released if nobody did it before.            *)
LEMMA ThrowSound ==
    ASSUME BackendInv, NEW c \in Call, NEW k \in Calls, k = call[c], k.work = "connect"
    PROVE  LET j == Thrown(c, k)
           IN  /\ j \in Calls /\ CallSound(j) /\ j.pair # "open" /\ j.response = k.response
  <1> DEFINE r == Released(c, k)
             client == IF k.client = "waiting" THEN "answered" ELSE k.client
             j == Thrown(c, k)
  <1>1. CallSound(k) /\ (c \in active <=> k.pair = "open")
    BY DEF BackendInv, BackendTypes
  <1>2. client \in {"answered", "cut", "gone"} /\ (client = "cut" => k.adapter = "weather")
    BY <1>1, CallsAre DEF CallSound
  <1>3. /\ r \in Calls /\ r.pair # "open" /\ r.releases = IF r.pair = "closed" THEN 1 ELSE 0
        /\ r.response = k.response /\ r.adapter = k.adapter /\ r.client = k.client
    <2>1. CASE c \in active
      <3>1. k.pair = "open" /\ k.releases = 0
        BY <1>1, <2>1 DEF CallSound
      <3>2. k.releases + 1 = 1
        BY <3>1
      <3>3. r = [k EXCEPT !.pair = "closed", !.releases = 1]
        BY <2>1, <3>2 DEF Released
      <3> HIDE DEF r
      <3>4. /\ r \in Calls /\ r.pair = "closed" /\ r.releases = 1
            /\ r.response = k.response /\ r.adapter = k.adapter /\ r.client = k.client
        BY <3>3, CallsAre
      <3>5. QED
        BY <3>4
    <2>2. CASE c \notin active
      BY <1>1, <2>2 DEF Released, CallSound
    <2>3. QED
      BY <2>1, <2>2
  <1>4. j = [r EXCEPT !.work = "done", !.served = "internal_error",
                      !.result = "internal_error", !.client = client]
    BY DEF Thrown
  <1> HIDE DEF r, client, j
  <1>5. /\ j \in Calls /\ j.pair = r.pair /\ j.releases = r.releases /\ j.response = r.response
        /\ j.adapter = r.adapter /\ j.work = "done" /\ j.served = "internal_error"
        /\ j.result = "internal_error" /\ j.client = client
    BY <1>2, <1>3, <1>4, CallsAre DEF Results
  <1>6. CallSound(j)
    BY <1>2, <1>3, <1>5 DEF CallSound
  <1>7. QED
    BY <1>3, <1>5, <1>6 DEF j

LEMMA HandleRequestSound ==
    ASSUME BackendInv, NEW c \in Call, HandleRequest(c)
    PROVE  BackendInv'
  <1> DEFINE k == call[c]
             j == Thrown(c, k)
  <1>1. /\ k \in Calls /\ CallSound(k) /\ active \subseteq Call /\ (c \in active <=> k.pair = "open")
        /\ k.work = "connect" /\ UNCHANGED processVars /\ stage \notin {"starting", "binding"}
    BY DEF BackendInv, BackendTypes, HandleRequest, Lifecycle
  <1>2. CASE call' = [call EXCEPT ![c] = Dispatched(k)] /\ UNCHANGED active
    BY <1>1, <1>2, DispatchedSound, WorkMoves
  <1>3. CASE call' = [call EXCEPT ![c] = j] /\ active' = active \ {c}
    <2>1. j \in Calls /\ CallSound(j) /\ j.pair # "open" /\ j.response = k.response
      BY <1>1, ThrowSound
    <2> HIDE DEF j
    <2>2. Moves(c, j)
      BY <1>1, <1>3, <2>1 DEF Moves
    <2>3. QED
      BY <2>2, MoveSound
  <1>4. QED
    BY <1>2, <1>3 DEF HandleRequest

LEMMA WorkSound ==
    ASSUME BackendInv, NEW c \in Call, Work(c) \/ HangUp(c)
    PROVE  BackendInv'
  <1> DEFINE k == call[c]
  <1>0. k \in Calls /\ CallSound(k) /\ active \subseteq Call /\ (c \in active <=> k.pair = "open")
    BY DEF BackendInv, BackendTypes
  <1>1. CASE Execute(c)
    <2>1. k.work = "execute" /\ UNCHANGED <<processVars, active>>
      BY <1>1 DEF Execute, Working
    <2>2. CASE Served(c, "ok", "report")
      BY <2>1, <2>2, ServedSound
    <2>3. CASE Served(c, "service_error", IF call[c].tool = "preview" /\ call[c].adapter = "evidence"
                                          THEN "answer" ELSE "report")
      <3>1. CASE call[c].tool = "preview" /\ call[c].adapter = "evidence"
        BY <2>1, <2>3, <3>1, ServedSound
      <3>2. CASE ~(call[c].tool = "preview" /\ call[c].adapter = "evidence")
        BY <2>1, <2>3, <3>2, ServedSound
      <3>3. QED
        BY <3>1, <3>2
    <2>4. CASE Served(c, "internal_error", "answer")
      BY <2>1, <2>4, ServedSound
    <2>5. QED
      BY <1>1, <2>2, <2>3, <2>4 DEF Execute
  <1>2. CASE Alerts(c) \/ Forecast(c)
    <2>1. k.work \in {"alerts", "forecast"} /\ UNCHANGED <<processVars, active>>
          /\ (Served(c, "ok", "answer") \/ Served(c, "service_error", "answer"))
      BY <1>2 DEF Alerts, Forecast, Working, NwsRequest
    <2>2. k.tool # "research_evidence"
      BY <1>0, <2>1 DEF CallSound
    <2>3. QED
      BY <2>1, <2>2, ServedSound
  <1>3. CASE GridPoint(c)
    <2>1. k.work = "points" /\ UNCHANGED <<processVars, active>>
          /\ (call' = [call EXCEPT ![c].work = "forecast"] \/ Served(c, "service_error", "answer"))
      BY <1>3 DEF GridPoint, Working, NwsRequest
    <2>2. k.tool # "research_evidence"
      BY <1>0, <2>1 DEF CallSound
    <2>3. CASE Served(c, "service_error", "answer")
      BY <2>1, <2>2, <2>3, ServedSound
    <2>4. CASE call' = [call EXCEPT ![c].work = "forecast"]
      <3> DEFINE j == [k EXCEPT !.work = "forecast"]
      <3>1. j \in Calls /\ CallSound(j) /\ j.pair = k.pair /\ j.response = k.response
        <4> HIDE DEF k
        <4>1. QED
          BY <1>0, <2>1, <2>2, CallsAre DEF CallSound
      <3>2. call' = [call EXCEPT ![c] = j]
        BY <2>4
      <3> HIDE DEF j
      <3>3. QED
        BY <2>1, <3>1, <3>2, WorkMoves
    <2>5. QED
      BY <2>1, <2>3, <2>4
  <1>4. CASE Report(c)
    <2>0. PICK written \in {"written", "lost"} :
            call' = [call EXCEPT ![c].report = written, ![c].work = "answer"]
      BY <1>4 DEF Report, Record
    <2> DEFINE j == [k EXCEPT !.report = written, !.work = "answer"]
    <2>1. k.work = "report" /\ UNCHANGED <<processVars, active>>
          /\ call' = [call EXCEPT ![c] = j]
      BY <1>4, <2>0 DEF Report, Working
    <2>2. j \in Calls /\ CallSound(j) /\ j.pair = k.pair /\ j.response = k.response
      <3> HIDE DEF k
      <3>1. QED
        BY <1>0, <2>1, CallsAre DEF CallSound
    <2> HIDE DEF j
    <2>3. QED
      BY <2>1, <2>2, WorkMoves
  <1>5. CASE Answer(c)
    <2> DEFINE j == [k EXCEPT !.work = "done",
                              !.client = IF @ = "waiting" THEN "answered" ELSE @]
    <2>1. k.work = "answer" /\ UNCHANGED <<processVars, active>>
          /\ call' = [call EXCEPT ![c] = j]
      BY <1>5 DEF Answer, Working
    <2>2. j \in Calls /\ CallSound(j) /\ j.pair = k.pair /\ j.response = k.response
      <3> HIDE DEF k
      <3>1. QED
        BY <1>0, <2>1, CallsAre DEF CallSound
    <2> HIDE DEF j
    <2>3. QED
      BY <2>1, <2>2, WorkMoves
  <1>6. ASSUME NEW client \in {"answered", "cut", "gone"}, Closes(c, client),
               client # "gone" => client = k.client
        PROVE  BackendInv'
    <2> DEFINE r == Released(c, k)
               j == [r EXCEPT !.response = "closed", !.client = client]
    <2>0. client \in {"answered", "cut", "gone"} /\ (client # "gone" => client = k.client)
      BY <1>6
    <2>1. /\ k.response = "open" /\ stage # "exited" /\ UNCHANGED processVars
          /\ call' = [call EXCEPT ![c] = j] /\ active' = active \ {c}
      BY <1>6 DEF Closes
    <2>2. j \in Calls /\ CallSound(j) /\ j.pair # "open" /\ j.response = "closed"
      <3>1. CASE c \in active
        <4>2. k.pair = "open" /\ k.releases = 0 /\ k.work # "idle"
          BY <1>0, <2>1, <3>1 DEF CallSound
        <4>6. k.releases + 1 = 1
          BY <4>2
        <4>1. r = [k EXCEPT !.pair = "closed", !.releases = 1]
          BY <3>1, <4>6 DEF Released
        <4> HIDE DEF k, r
        <4>3. /\ r \in Calls /\ r.pair = "closed" /\ r.releases = 1 /\ r.work = k.work
              /\ r.result = k.result /\ r.served = k.served /\ r.tool = k.tool
              /\ r.report = k.report /\ r.adapter = k.adapter
          BY <1>0, <4>1, <4>2, CallsAre
        <4>4. /\ j \in Calls /\ j.pair = "closed" /\ j.releases = 1 /\ j.work = k.work
              /\ j.result = k.result /\ j.served = k.served /\ j.tool = k.tool
              /\ j.report = k.report /\ j.adapter = k.adapter
              /\ j.client = client /\ j.response = "closed"
          BY <2>0, <4>3, CallsAre
        <4> HIDE DEF j
        <4>5. QED
          BY <1>0, <2>0, <4>2, <4>4 DEF CallSound
      <3>2. CASE c \notin active
        <4>1. r = k
          BY <3>2 DEF Released
        <4> HIDE DEF k
        <4>2. QED
          BY <1>0, <2>0, <2>1, <3>2, <4>1, CallsAre DEF CallSound
      <3>3. QED
        BY <3>1, <3>2
    <2> HIDE DEF j
    <2>3. k.work # "idle"
      BY <1>0, <2>1 DEF CallSound
    <2>4. Moves(c, j)
      BY <1>0, <2>1, <2>2, <2>3 DEF Moves, BackendInv, Lifecycle
    <2>5. QED
      BY <2>4, MoveSound
  <1>7. CASE ResponseEnds(c)
    <2>1. Closes(c, k.client) /\ k.client \in {"answered", "cut"}
      BY <1>7 DEF ResponseEnds
    <2>2. QED
      BY <1>6, <2>1
  <1>8. CASE HangUp(c)
    <2>1. Closes(c, "gone")
      BY <1>8 DEF HangUp
    <2>2. QED
      BY <1>6, <2>1
  <1>10. CASE HandleRequest(c)
    BY <1>10, HandleRequestSound
  <1>9. QED
    BY <1>1, <1>2, <1>3, <1>4, <1>5, <1>7, <1>8, <1>10 DEF Work
-----------------------------------------------------------------------------
(* Closing an adapter closes the open pairs of that adapter, and cuts off  *)
(* who still waits for an answer over it.                                  *)
LEMMA CloseAdapterCalls ==
    ASSUME BackendInv, NEW adapter, CloseAdapter(adapter),
           adapter = "evidence" => Quiet
    PROVE  /\ call' \in [Call -> Calls] /\ active' \subseteq Call
           /\ \A c \in Call : CallSound(call'[c])
           /\ \A c \in Call : c \in active' <=> call'[c].pair = "open"
           /\ \A c \in Call : call'[c].response = call[c].response /\ call'[c].work = call[c].work
  <1> DEFINE entries == {c \in active : call[c].adapter = adapter}
  <1>1. /\ active' = active \ entries
        /\ call' = [c \in Call |->
             IF c \notin entries THEN call[c]
             ELSE [Released(c, call[c]) EXCEPT !.client = IF @ = "waiting" THEN "cut" ELSE @]]
    BY DEF CloseAdapter
  <1>2. ASSUME NEW c \in Call
        PROVE  /\ call'[c] \in Calls /\ CallSound(call'[c])
               /\ c \in active' <=> call'[c].pair = "open"
               /\ call'[c].response = call[c].response /\ call'[c].work = call[c].work
    <2> DEFINE k == call[c]
    <2>1. k \in Calls /\ CallSound(k) /\ (c \in active <=> k.pair = "open")
      BY DEF BackendInv, BackendTypes
    <2>2. CASE c \notin entries
      <3>1. call'[c] = k /\ (c \in active' <=> c \in active)
        BY <1>1, <2>2
      <3>2. QED
        BY <2>1, <3>1
    <2>3. CASE c \in entries
      <3>1. c \in active /\ k.adapter = adapter /\ k.pair = "open" /\ k.response = "open"
        BY <2>1, <2>3 DEF CallSound
      <3>2. adapter # "evidence" /\ k.releases = 0
        BY <2>1, <3>1 DEF CallSound, Quiet
      <3>3. k.releases + 1 = 1
        BY <3>2
      <3> DEFINE client == IF k.client = "waiting" THEN "cut" ELSE k.client
                 j == [k EXCEPT !.pair = "closed", !.releases = 1, !.client = client]
      <3>4. call'[c] = j /\ c \notin active'
        BY <1>1, <2>3, <3>1, <3>3 DEF Released
      <3>5. client \in {"answered", "cut", "gone"} /\ (client = "answered" => k.client = "answered")
        BY <2>1, CallsAre
      <3>6. client = "cut" => k.adapter = "weather"
        <4>1. k.adapter # "plain"
          BY <2>1, <3>1 DEF CallSound
        <4>2. QED
          BY <2>1, <3>1, <3>2, <4>1, CallsAre
      <3> HIDE DEF k, client
      <3>7. /\ j \in Calls /\ j.pair = "closed" /\ j.releases = 1 /\ j.work = k.work
            /\ j.result = k.result /\ j.served = k.served /\ j.tool = k.tool
            /\ j.report = k.report /\ j.adapter = k.adapter /\ j.response = k.response
            /\ j.client = client
        BY <2>1, <3>5, CallsAre
      <3> HIDE DEF j
      <3>8. CallSound(j)
        BY <2>1, <3>1, <3>5, <3>6, <3>7 DEF CallSound
      <3>9. QED
        BY <3>4, <3>7, <3>8 DEF k
    <2>4. QED
      BY <2>2, <2>3
  <1>3. call' \in [Call -> Calls]
    BY <1>1, <1>2
  <1>4. active' \subseteq Call
    BY <1>1 DEF BackendInv, BackendTypes
  <1>5. QED
    BY <1>2, <1>3, <1>4
LEMMA ShutdownSound == BackendInv /\ Shutdown => BackendInv'
  <1> SUFFICES ASSUME BackendInv, Shutdown PROVE BackendInv'
    OBVIOUS
  <1>0. BackendTypes /\ Lifecycle /\ stage # "exited" /\ shutdown # "no"
    BY DEF BackendInv, Shutdown, CloseWeather, AppClosed, CloseMcp, CloseCache, Exit, Awaiting
  <1>1. ASSUME NEW adapter, CloseAdapter(adapter), adapter = "evidence" => Quiet,
               UNCHANGED <<stage, exitCode, cache>>,
               shutdown' \in {"app", "cache"}, weatherClosed' \in BOOLEAN,
               shutdown' = "cache" => Quiet, cache # "closed"
        PROVE  BackendInv'
    <2>1. /\ call' \in [Call -> Calls] /\ active' \subseteq Call
          /\ \A c \in Call : CallSound(call'[c])
          /\ \A c \in Call : c \in active' <=> call'[c].pair = "open"
          /\ \A c \in Call : call'[c].response = call[c].response /\ call'[c].work = call[c].work
      BY <1>1, CloseAdapterCalls
    <2>2. BackendTypes'
      BY <1>0, <1>1, <2>1 DEF BackendTypes
    <2>3. Lifecycle'
      BY <1>0, <1>1, <2>1 DEF Lifecycle, Quiet
    <2>4. (\A c \in Call : CallSound(call[c]))'
      BY <2>1 DEF CallSound
    <2>5. (\A c \in Call : c \in active <=> call[c].pair = "open")'
      BY <2>1
    <2>6. QED
      BY <2>2, <2>3, <2>4, <2>5 DEF BackendInv
  <1>2. CASE CloseWeather
    <2>1. /\ CloseAdapter("weather") /\ UNCHANGED <<stage, exitCode, cache>>
          /\ shutdown' = "app" /\ weatherClosed' = TRUE /\ cache # "closed"
      BY <1>0, <1>2 DEF CloseWeather, Awaiting, Lifecycle
    <2>2. QED
      BY <1>1, <2>1
  <1>3. CASE CloseMcp
    <2>1. /\ CloseAdapter("evidence") /\ UNCHANGED <<stage, exitCode, cache>>
          /\ shutdown' = "cache" /\ weatherClosed' \in BOOLEAN /\ cache # "closed" /\ Quiet
      BY <1>0, <1>3 DEF CloseMcp, Awaiting, Lifecycle, BackendTypes
    <2>2. QED
      BY <1>1, <2>1
  <1>4. CASE AppClosed
    <2>1. /\ UNCHANGED <<stage, exitCode, cache, weatherClosed, active, call>>
          /\ shutdown' \in {"mcp", "exit"}
          /\ Quiet \/ stage = "binding"
      BY <1>4 DEF AppClosed, Quiet
    <2>2. Quiet
      BY <2>1, IdleIsQuiet
    <2>3. Lifecycle'
      BY <1>0, <1>4, <2>1, <2>2 DEF Lifecycle, Quiet, AppClosed, Awaiting
    <2>4. QED
      BY <1>0, <2>1, <2>3, ProcessSound DEF BackendTypes
  <1>5. CASE CloseCache
    <2>1. /\ UNCHANGED <<stage, exitCode, weatherClosed, active, call>>
          /\ shutdown = "cache" /\ shutdown' = "exit" /\ cache' \in {cache, "closed"}
      BY <1>5 DEF CloseCache, Awaiting
    <2>2. Lifecycle'
      BY <1>0, <2>1 DEF Lifecycle, Quiet
    <2>3. QED
      BY <1>0, <2>1, <2>2, ProcessSound DEF BackendTypes
  <1>6. CASE Exit
    <2>1. /\ UNCHANGED <<exitCode, shutdown, cache, weatherClosed, active, call>>
          /\ shutdown = "exit" /\ stage' = "exited"
      BY <1>6 DEF Exit, Awaiting
    <2>2. Lifecycle'
      BY <1>0, <2>1 DEF Lifecycle, Quiet
    <2>3. QED
      BY <1>0, <2>1, <2>2, ProcessSound DEF BackendTypes
  <1>7. QED
    BY <1>2, <1>3, <1>4, <1>5, <1>6 DEF Shutdown

-----------------------------------------------------------------------------
LEMMA HealthBounds ==
    Ttl \in Nat /\ ProbeTimeout \in Nat /\ ProbeTimeout < Ttl
  BY HealthAssumption DEF HealthAssumption

LEMMA InitSound == Init => IInv
  <1> SUFFICES ASSUME Init PROVE IInv
    OBVIOUS
  <1> USE HealthBounds
  <1>1. BackendInv /\ ~Up
    BY InitBackendSound DEF Init, InitBackend, Up
  <1>2. EdgeInv
    BY DEF Init, InitHealth, EdgeInv, EdgeTypes, Visits
  <1>3. QED
    BY <1>1, <1>2 DEF IInv

(* A step of the backend: the edge only learns nothing.                    *)
LEMMA BackendKeeps ==
    ASSUME IInv, BackendInv', lastUp' = (IF Up \/ Up' THEN now ELSE lastUp),
           UNCHANGED <<now, health, visit>>
    PROVE  IInv'
  <1>1. EdgeTypes /\ lastUp <= now /\ lastUp' \in Int /\ lastUp <= lastUp' /\ lastUp' <= now
    BY DEF IInv, EdgeInv, EdgeTypes
  <1>2. EdgeTypes'
    BY <1>1 DEF EdgeTypes
  <1>3. EdgeInv'
    <2>1. health.ok => health.at \in Int /\ health.at <= lastUp'
      BY <1>1 DEF IInv, EdgeInv, EdgeTypes
    <2>2. ASSUME NEW v \in Visit, visit[v].at = "probing", visit[v].saw = "up"
          PROVE  visit[v].entered <= lastUp'
      BY <1>1, <2>2 DEF IInv, EdgeInv, EdgeTypes, Visits
    <2>3. QED
      BY <1>1, <1>2, <2>1, <2>2 DEF IInv, EdgeInv
  <1>4. (Up => lastUp = now)'
    OBVIOUS
  <1>5. QED
    BY <1>3, <1>4 DEF IInv

(* A step of the edge leaves the backend alone.                            *)
LEMMA EdgeKeeps ==
    ASSUME IInv, UNCHANGED backendVars
    PROVE  BackendInv' /\ Up' = Up
  BY DEF IInv, BackendInv, BackendTypes, Lifecycle, Quiet, CallSound, Up, backendVars, processVars

(* The decision on one visit, which is no probe afterwards.                *)
LEMMA DecidedKeeps ==
    ASSUME EdgeInv, NEW v \in Visit, NEW ok \in BOOLEAN, Decided(v, ok)
    PROVE  /\ visit' \in [Visit -> Visits]
           /\ \A w \in Visit : visit'[w].at = "probing" => w # v /\ visit'[w] = visit[w]
           /\ visit'[v].at = "forwarded" => ok
           /\ visit'[v].at # "client"
           /\ \A w \in Visit : w # v => visit'[w] = visit[w]
  <1> DEFINE d == [at |-> IF ok THEN "forwarded" ELSE "refused", saw |-> "nothing", entered |-> 0]
  <1>1. visit' = [visit EXCEPT ![v] = d] /\ visit \in [Visit -> Visits]
    BY DEF Decided, EdgeInv, EdgeTypes
  <1>2. d \in Visits /\ d.at \notin {"probing", "client"} /\ (d.at = "forwarded" => ok)
    BY DEF Visits
  <1> HIDE DEF d
  <1>3. QED
    BY <1>1, <1>2

LEMMA GateSound ==
    ASSUME EdgeInv, NEW v \in Visit, Gate(v)
    PROVE  EdgeInv' /\ (visit'[v].at = "forwarded" => now - lastUp < Ttl)
  <1>0. /\ now \in Nat /\ lastUp \in Int /\ lastUp <= now /\ EdgeTypes
        /\ health.ok \in BOOLEAN /\ health.at \in Int /\ UNCHANGED <<now, health, lastUp>>
    BY DEF EdgeInv, EdgeTypes, Gate
  <1>1. CASE Fresh /\ Decided(v, health.ok)
    <2>1. /\ visit' \in [Visit -> Visits]
          /\ \A w \in Visit : visit'[w].at = "probing" => visit'[w] = visit[w]
          /\ visit'[v].at = "forwarded" => health.ok
          /\ visit'[v].at # "client" /\ \A w \in Visit : w # v => visit'[w] = visit[w]
      BY <1>0, <1>1, DecidedKeeps
    <2>2. EdgeInv'
      BY <1>0, <2>1 DEF EdgeInv, EdgeTypes
    <2>3. health.ok => now - lastUp < Ttl
      BY <1>0, <1>1, HealthBounds DEF EdgeInv, Fresh
    <2>4. QED
      BY <2>1, <2>2, <2>3
  <1>2. CASE visit' = [visit EXCEPT ![v].at = "probing", ![v].entered = now]
             /\ visit[v].at = "client"
    <2>1. visit[v] \in Visits /\ visit \in [Visit -> Visits]
      BY <1>0 DEF EdgeTypes
    <2> DEFINE p == [visit[v] EXCEPT !.at = "probing", !.entered = now]
    <2>2. p \in Visits /\ p.at = "probing" /\ p.entered = now /\ p.saw = visit[v].saw
      BY <1>0, <2>1 DEF Visits
    <2>3. visit' = [visit EXCEPT ![v] = p]
      BY <1>2
    <2>4. visit[v].saw # "up"
      BY <1>2 DEF EdgeInv
    <2> HIDE DEF p
    <2>5. /\ visit' \in [Visit -> Visits] /\ visit'[v] = p
          /\ \A w \in Visit : w # v => visit'[w] = visit[w]
      BY <2>1, <2>2, <2>3
    <2>6. EdgeTypes'
      BY <1>0, <2>5 DEF EdgeTypes
    <2>7. p.entered <= now /\ now - p.entered <= ProbeTimeout
      BY <1>0, <2>2, HealthBounds
    <2>8. ASSUME NEW w \in Visit, visit'[w].at = "probing"
          PROVE  /\ visit'[w].entered <= now /\ now - visit'[w].entered <= ProbeTimeout
                 /\ visit'[w].saw = "up" => visit'[w].entered <= lastUp
      <3>1. CASE w = v
        BY <2>2, <2>4, <2>5, <2>7, <3>1
      <3>2. CASE w # v
        BY <2>5, <2>8, <3>2 DEF EdgeInv
      <3>3. QED
        BY <3>1, <3>2
    <2>9. \A w \in Visit : visit'[w].at = "client" => visit'[w].saw = "nothing"
      BY <2>2, <2>5 DEF EdgeInv
    <2>10. EdgeInv'
      BY <1>0, <2>6, <2>8, <2>9 DEF EdgeInv
    <2>11. QED
      BY <2>2, <2>5, <2>10
  <1>3. QED
    BY <1>1, <1>2 DEF Gate
LEMMA ObserveSound ==
    ASSUME EdgeInv, Up => lastUp = now, NEW v \in Visit, Observe(v, Up)
    PROVE  EdgeInv' /\ visit'[v].at # "forwarded"
  <1> DEFINE s == IF Up THEN "up" ELSE "down"
             p == [visit[v] EXCEPT !.saw = s]
  <1>1. /\ visit[v].at = "probing" /\ UNCHANGED <<now, health, lastUp>>
        /\ visit' = [visit EXCEPT ![v] = p]
    BY DEF Observe
  <1>2. /\ EdgeTypes /\ visit[v] \in Visits /\ visit \in [Visit -> Visits]
        /\ visit[v].entered <= now /\ s \in {"up", "down"}
        /\ s = "up" => lastUp = now
    BY <1>1 DEF EdgeInv, EdgeTypes
  <1> HIDE DEF s
  <1>3. p \in Visits /\ p.at = "probing" /\ p.saw = s /\ p.entered = visit[v].entered
    BY <1>1, <1>2 DEF Visits
  <1> HIDE DEF p
  <1>4. /\ visit' \in [Visit -> Visits] /\ visit'[v] = p
        /\ \A w \in Visit : w # v => visit'[w] = visit[w]
    BY <1>1, <1>2, <1>3
  <1>5. EdgeTypes'
    BY <1>1, <1>2, <1>4 DEF EdgeTypes
  <1>6. ASSUME NEW w \in Visit, visit'[w].at = "probing"
        PROVE  /\ visit'[w].entered <= now /\ now - visit'[w].entered <= ProbeTimeout
               /\ visit'[w].saw = "up" => visit'[w].entered <= lastUp
    <2>1. CASE w = v
      <3>1. visit[v].entered <= now /\ now - visit[v].entered <= ProbeTimeout
        BY <1>1 DEF EdgeInv
      <3>2. QED
        BY <1>2, <1>3, <1>4, <2>1, <3>1
    <2>2. CASE w # v
      BY <1>4, <1>6, <2>2 DEF EdgeInv
    <2>3. QED
      BY <2>1, <2>2
  <1>7. \A w \in Visit : visit'[w].at = "client" => visit'[w].saw = "nothing"
    BY <1>3, <1>4 DEF EdgeInv
  <1>8. EdgeInv'
    BY <1>1, <1>5, <1>6, <1>7 DEF EdgeInv
  <1>9. QED
    BY <1>3, <1>4, <1>8

LEMMA ProbeEndsSound ==
    ASSUME EdgeInv, NEW v \in Visit, ProbeEnds(v)
    PROVE  EdgeInv' /\ (visit'[v].at = "forwarded" => now - lastUp < Ttl)
  <1>1. PICK ok \in {FALSE, visit[v].saw = "up"} :
          health' = [ok |-> ok, at |-> visit[v].entered] /\ Decided(v, ok)
    BY DEF ProbeEnds
  <1>2. /\ visit[v].at = "probing" /\ UNCHANGED <<now, lastUp>> /\ ok \in BOOLEAN
        /\ ok => visit[v].saw = "up"
    BY <1>1 DEF ProbeEnds
  <1>3. /\ EdgeTypes /\ now \in Nat /\ lastUp \in Int /\ visit[v].entered \in Nat
        /\ now - visit[v].entered <= ProbeTimeout
        /\ ok => visit[v].entered <= lastUp
    BY <1>2 DEF EdgeInv, EdgeTypes, Visits
  <1>4. /\ visit' \in [Visit -> Visits]
        /\ \A w \in Visit : visit'[w].at = "probing" => w # v /\ visit'[w] = visit[w]
        /\ visit'[v].at = "forwarded" => ok
        /\ \A w \in Visit : w # v => visit'[w] = visit[w]
    BY <1>1, <1>2, DecidedKeeps
  <1>5. visit'[v].at # "client"
    BY <1>1, <1>2, DecidedKeeps
  <1>6. EdgeTypes' /\ (health'.ok => health'.at <= lastUp')
    BY <1>1, <1>2, <1>3, <1>4 DEF EdgeTypes
  <1>7. EdgeInv'
    BY <1>2, <1>4, <1>5, <1>6 DEF EdgeInv
  <1>8. ok => now - lastUp < Ttl
    BY <1>3, HealthBounds
  <1>9. QED
    BY <1>4, <1>7, <1>8

LEMMA TickSound ==
    ASSUME IInv, Tick(Up), UNCHANGED backendVars
    PROVE  IInv' /\ UNCHANGED visit
  <1>1. /\ now' = now + 1 /\ lastUp' = (IF Up THEN now + 1 ELSE lastUp)
        /\ UNCHANGED <<health, visit>>
        /\ \A v \in Visit : visit[v].at = "probing" => now - visit[v].entered < ProbeTimeout
    BY DEF Tick
  <1>2. EdgeInv /\ EdgeTypes /\ now \in Nat /\ lastUp \in Int /\ lastUp <= now
    BY DEF IInv, EdgeInv, EdgeTypes
  <1>3. BackendInv' /\ Up' = Up
    BY EdgeKeeps
  <1>4. EdgeTypes' /\ lastUp <= lastUp' /\ lastUp' <= now' /\ lastUp' \in Int
    BY <1>1, <1>2 DEF EdgeTypes
  <1>5. health'.ok => health'.at <= lastUp'
    <2>1. health.ok => health.at <= lastUp /\ health.at \in Int
      BY <1>2 DEF EdgeInv, EdgeTypes
    <2>2. QED
      BY <1>1, <1>2, <1>4, <2>1
  <1>6. ASSUME NEW v \in Visit, visit'[v].at = "probing"
        PROVE  /\ visit'[v].entered <= now' /\ now' - visit'[v].entered <= ProbeTimeout
               /\ visit'[v].saw = "up" => visit'[v].entered <= lastUp'
    <2>1. /\ visit[v].at = "probing" /\ visit[v].entered \in Nat /\ visit[v].entered <= now
          /\ now - visit[v].entered < ProbeTimeout
          /\ visit[v].saw = "up" => visit[v].entered <= lastUp
      BY <1>1, <1>2, <1>6 DEF EdgeInv, EdgeTypes, Visits
    <2>2. QED
      BY <1>1, <1>2, <1>4, <2>1, HealthBounds
  <1>7. EdgeInv'
    BY <1>1, <1>2, <1>4, <1>5, <1>6 DEF EdgeInv
  <1>8. (Up => lastUp = now)'
    BY <1>1, <1>3
  <1>9. QED
    BY <1>1, <1>3, <1>7, <1>8 DEF IInv

(* A preview goes straight to the backend.                                 *)
LEMMA DirectSound ==
    ASSUME IInv, NEW c \in Call, Direct(c)
    PROVE  IInv' /\ \A v \in Visit : visit'[v].at # "forwarded" \/ visit'[v] = visit[v]
  <1>1. /\ BackendInv' /\ visit[c].at = "client" /\ visit' = [visit EXCEPT ![c].at = "direct"]
        /\ lastUp' = now /\ UNCHANGED <<now, health>> /\ c \in Visit
    BY ForwardSound, CallsAreVisits DEF Direct, IInv, CallsAreVisits
  <1>2. /\ EdgeInv /\ EdgeTypes /\ now \in Nat /\ lastUp \in Int /\ lastUp <= now
        /\ visit \in [Visit -> Visits] /\ visit[c] \in Visits
    BY <1>1 DEF IInv, EdgeInv, EdgeTypes
  <1> DEFINE p == [visit[c] EXCEPT !.at = "direct"]
  <1>3. p \in Visits /\ p.at = "direct"
    BY <1>2 DEF Visits
  <1>4. visit' = [visit EXCEPT ![c] = p]
    BY <1>1
  <1> HIDE DEF p
  <1>5. /\ visit' \in [Visit -> Visits] /\ visit'[c] = p
        /\ \A v \in Visit : v # c => visit'[v] = visit[v]
    BY <1>1, <1>2, <1>3, <1>4
  <1>6. EdgeTypes'
    BY <1>1, <1>2, <1>5 DEF EdgeTypes
  <1>7. health'.ok => health'.at <= lastUp'
    BY <1>1, <1>2 DEF EdgeInv, EdgeTypes
  <1>8. ASSUME NEW v \in Visit, visit'[v].at = "probing"
        PROVE  /\ visit'[v].entered <= now' /\ now' - visit'[v].entered <= ProbeTimeout
               /\ visit'[v].saw = "up" => visit'[v].entered <= lastUp'
    BY <1>1, <1>2, <1>3, <1>5, <1>8 DEF EdgeInv
  <1>9. \A v \in Visit : visit'[v].at = "client" => visit'[v].saw = "nothing"
    BY <1>2, <1>3, <1>5 DEF EdgeInv
  <1>10. EdgeInv'
    BY <1>1, <1>2, <1>6, <1>7, <1>8, <1>9 DEF EdgeInv
  <1>11. QED
    BY <1>1, <1>3, <1>5, <1>10 DEF IInv

-----------------------------------------------------------------------------
(* What a step of the edge forwards is forwarded to a living backend.      *)
Living == \A v \in Visit : visit[v].at # "forwarded" /\ visit'[v].at = "forwarded"
                              => now - lastUp < Ttl

LEMMA EdgeStepSound ==
    ASSUME IInv, NEW v \in Visit, Edge(EdgeSteps(v))
    PROVE  IInv' /\ Living
  <1>1. BackendInv' /\ Up' = Up /\ EdgeInv /\ (Up => lastUp = now) /\ EdgeSteps(v)
    BY EdgeKeeps DEF Edge, IInv
  <1>2. EdgeInv' /\ (visit'[v].at = "forwarded" => now - lastUp < Ttl)
    <2>1. CASE Gate(v)
      BY <1>1, <2>1, GateSound
    <2>2. CASE Observe(v, Up)
      BY <1>1, <2>2, ObserveSound
    <2>3. CASE ProbeEnds(v)
      BY <1>1, <2>3, ProbeEndsSound
    <2>4. QED
      BY <1>1, <2>1, <2>2, <2>3 DEF EdgeSteps
  <1>3. /\ UNCHANGED <<now, lastUp>>
        /\ \A w \in Visit : w # v => visit'[w] = visit[w]
    BY <1>1 DEF EdgeSteps, Gate, Observe, ProbeEnds, Decided, EdgeInv, EdgeTypes
  <1>4. QED
    BY <1>1, <1>2, <1>3 DEF IInv, Living

LEMMA NextSound == IInv /\ [Next]_vars => IInv' /\ Living
  <1> SUFFICES ASSUME IInv, [Next]_vars PROVE IInv' /\ Living
    OBVIOUS
  <1>0. BackendInv
    BY DEF IInv
  <1>1. ASSUME BackendInv', lastUp' = (IF Up \/ Up' THEN now ELSE lastUp),
               UNCHANGED <<now, health, visit>>
        PROVE  IInv' /\ Living
    BY <1>1, BackendKeeps DEF Living
  <1>2. CASE Backend(Boot)
    BY <1>0, <1>1, <1>2, BootSound DEF Backend
  <1>3. CASE Backend(Shutdown)
    BY <1>0, <1>1, <1>3, ShutdownSound DEF Backend
  <1>4. ASSUME NEW c \in Call, Backend(Forward(c)) \/ Backend(Work(c)) \/ Backend(HangUp(c))
        PROVE  IInv' /\ Living
    BY <1>0, <1>1, <1>4, ForwardSound, WorkSound DEF Backend
  <1>5. ASSUME NEW c \in Call, Direct(c) PROVE IInv' /\ Living
    BY <1>5, DirectSound DEF Living
  <1>6. ASSUME NEW v \in Visit, Edge(EdgeSteps(v)) PROVE IInv' /\ Living
    BY <1>6, EdgeStepSound
  <1>7. CASE Edge(Tick(Up))
    BY <1>7, TickSound DEF Edge, Living
  <1>8. CASE UNCHANGED vars
    <2>1. UNCHANGED <<backendVars, now, health, visit, lastUp>>
      BY <1>8 DEF vars, healthVars
    <2>2. BackendInv' /\ Up' = Up
      BY <2>1, EdgeKeeps
    <2>3. EdgeInv'
      BY <2>1 DEF IInv, EdgeInv, EdgeTypes
    <2>4. QED
      BY <2>1, <2>2, <2>3 DEF IInv, Living
  <1>9. QED
    BY <1>2, <1>3, <1>4, <1>5, <1>6, <1>7, <1>8 DEF Next

LEMMA InvHolds == Spec => []IInv
  BY InitSound, NextSound, PTL DEF Spec

-----------------------------------------------------------------------------
(* Types are preserved by every step of the process and of the edge.       *)
THEOREM DeploymentTypes == Spec => []TypeOK
  <1>1. IInv => TypeOK
    BY DEF IInv, BackendInv, BackendTypes, EdgeInv, EdgeTypes, TypeOK
  <1>2. QED
    BY <1>1, InvHolds, PTL

(* Of release() and close() in both MCP adapters: whichever comes first,   *)
(* a transport is closed once and does not outlive its response.           *)
THEOREM ReleasedOnce == Spec => []PairsReleasedOnce
  <1>1. IInv => PairsReleasedOnce
    BY DEF IInv, BackendInv, CallSound, PairsReleasedOnce
  <1>2. QED
    BY <1>1, InvHolds, PTL

(* Of shutdown() in server.ts: its order lets evidence and HTTP calls be   *)
(* answered, before the cache is closed.                                   *)
THEOREM NobodyCutOff == Spec => []ShutdownCutsNobodyOff
  <1>1. IInv => ShutdownCutsNobodyOff
    BY DEF IInv, BackendInv, CallSound, Lifecycle, Quiet, ShutdownCutsNobodyOff
  <1>2. QED
    BY <1>1, InvHolds, PTL

(* Of the tool handlers and reportToolCall(): the report never changes the *)
(* answer, and paid calls that were served are reported.                   *)
THEOREM AnswersAsServed == Spec => []AnsweredAsServed
  <1>1. IInv => AnsweredAsServed
    BY DEF IInv, BackendInv, CallSound, AnsweredAsServed
  <1>2. QED
    BY <1>1, InvHolds, PTL

(* Of originHealthy() in the Worker: however probes overlap and return,    *)
(* nothing is forwarded on an answer older than the cache's lifetime.      *)
THEOREM ForwardedToLiving == Spec => ForwardedOnlyToLiving
  <1>1. IInv /\ [Next]_vars => [\A v \in Visit : visit[v].at # "forwarded" /\ visit'[v].at = "forwarded"
                                                => now - lastUp < Ttl]_healthVars
    BY NextSound DEF Living
  <1>2. QED
    BY <1>1, InvHolds, PTL DEF Spec, ForwardedOnlyToLiving
=============================================================================
