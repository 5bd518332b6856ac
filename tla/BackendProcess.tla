---------------------------- MODULE BackendProcess ----------------------------
(***************************************************************************)
(* The backend process from start to exit (apps/backend/src/server.ts) and *)
(* the calls it is working on: tool calls and streams over the two MCP     *)
(* adapters (packages/mcp/src/index.ts, weather.ts) and the weather routes *)
(* over plain HTTP.  A call's work goes on when its client hangs up.       *)
(***************************************************************************)
EXTENDS Naturals

CONSTANTS
    Call,
    Via   \* bound of the model: the ways a call may come in by

VARIABLES
    stage,          \* of main(): starting, binding, serving, exited
    exitCode,
    shutdown,       \* what shutdown() is waiting for; "no" before a signal
    cache,          \* none (disabled or unavailable), open, closed
    weatherClosed,  \* the onClose hook of the weather adapter has run
    active,         \* the `active` sets of both adapters
    call            \* per call: see Calls

processVars == <<stage, exitCode, shutdown, cache, weatherClosed>>
backendVars == <<processVars, active, call>>

(* "at once": a free tool, another MCP message, the DELETE of a session,   *)
(* or a call that is refused: for its name, its arguments, a spent quota   *)
(* or an unpaid price.  "stream": a GET, which the transport answers with  *)
(* an event stream that it never ends by itself.                           *)
Tools == [evidence |-> {"research_evidence", "preview", "at once", "stream"},
          weather  |-> {"get-alerts", "get-forecast", "at once", "stream"},
          plain    |-> {"preview", "get-alerts", "get-forecast", "at once"}]
Adapters == DOMAIN Tools

ASSUME ViaAssumption == Via \in [Call -> SUBSET Adapters]

Results == {"pending", "ok", "service_error", "internal_error"}

(* pair: the call's protocol server and transport; releases: how often     *)
(* they were closed; served: what the service itself made of the call;     *)
(* report: its line in the usage log; client: what its client has got.     *)
Calls == [adapter : Adapters, tool : UNION {Tools[a] : a \in Adapters},
          work : {"idle", "connect", "execute", "alerts", "points", "forecast", "report",
                  "answer", "stream", "done"},
          served : Results, result : Results, report : {"none", "written", "lost"},
          pair : {"none", "open", "closed"}, releases : Nat,
          response : {"none", "open", "closed"}, client : {"waiting", "answered", "cut", "gone"}]

NoCall == [adapter |-> "plain", tool |-> "get-alerts", work |-> "idle",
           served |-> "pending", result |-> "pending", report |-> "none",
           pair |-> "none", releases |-> 0, response |-> "none", client |-> "waiting"]

InitBackend ==
    /\ stage = "starting" /\ exitCode = 0
    /\ shutdown = "no"
    /\ cache = "none"
    /\ weatherClosed = FALSE
    /\ active = {}
    /\ call = [c \in Call |-> NoCall]

-----------------------------------------------------------------------------
(* The environment: whether its numbers are numbers, and the two settings  *)
(* that may be refused.                                                    *)
Environment == [numbers : BOOLEAN, robots : {"ignore", "warn", "enforce", "unknown"},
                secret : {"usable", "short"}]

LoadConfig(env) == env.numbers /\ env.robots # "unknown"

IsSecretUsable(env) == env.secret = "usable"

(* main().  A bad configuration or an unusable secret ends the process; a  *)
(* cache that cannot be opened does not.                                   *)
Die == stage' = "exited" /\ exitCode' = 1 /\ UNCHANGED <<shutdown, cache, weatherClosed, active, call>>

Load ==
    /\ stage = "starting"
    /\ \E env \in Environment :
         IF ~LoadConfig(env) \/ ~IsSecretUsable(env) THEN Die
         ELSE /\ stage' = "binding" /\ cache' \in {"none", "open"}
              /\ UNCHANGED <<exitCode, shutdown, weatherClosed, active, call>>

Bind ==
    /\ stage = "binding"
    /\ \/ Die
       \/ stage' = "serving" /\ UNCHANGED <<exitCode, shutdown, cache, weatherClosed, active, call>>

(* The first SIGTERM or SIGINT; another one finds shuttingDown set.        *)
Signal ==
    /\ stage \in {"binding", "serving"} /\ shutdown = "no"
    /\ shutdown' = "app"
    /\ UNCHANGED <<stage, exitCode, cache, weatherClosed, active, call>>

-----------------------------------------------------------------------------
ReleasedUnguarded(c, j) == IF j.pair = "none" THEN j ELSE [j EXCEPT !.pair = "closed", !.releases = @ + 1]

(* release() of handleNodeRequest(): only the one that deletes the entry   *)
(* closes the pair.                                                        *)
Released(c, j) ==
    IF c \in active THEN [j EXCEPT !.pair = "closed", !.releases = @ + 1] ELSE j

(* close() of an adapter: a transport that is closed ends its response.    *)
CloseAdapter(adapter) ==
    LET entries == {c \in active : call[c].adapter = adapter} IN
    /\ active' = active \ entries
    /\ call' = [c \in Call |->
         IF c \notin entries THEN call[c]
         ELSE [Released(c, call[c]) EXCEPT
                 !.client = IF @ = "waiting" THEN "cut" ELSE @]]

(* What a handler does up to its first wait.                               *)
Dispatched(j) ==
    CASE j.tool = "at once" -> [j EXCEPT !.work = "answer", !.served = "ok", !.result = "ok"]
      [] j.tool = "get-alerts" -> [j EXCEPT !.work = "alerts"]
      [] j.tool = "get-forecast" -> [j EXCEPT !.work = "points"]
      [] j.tool \in {"research_evidence", "preview"} -> [j EXCEPT !.work = "execute"]
      [] j.tool = "stream" -> [j EXCEPT !.work = "stream"]

Opened(adapter, tool) ==
    [NoCall EXCEPT !.adapter = adapter, !.tool = tool, !.work = "connect", !.response = "open",
                   !.pair = IF adapter = "plain" THEN "none" ELSE "open"]

Arriving(c, adapter) ==
    /\ stage = "serving" /\ shutdown = "no"
    /\ call[c].work = "idle" /\ adapter \in Via[c]
    /\ UNCHANGED processVars

(* The evidence adapter; the weather adapter is the same code over its own *)
(* set and tools.                                                          *)
HandleNodeRequest(c, adapter, tools) ==
    /\ Arriving(c, adapter)
    /\ \E tool \in tools : call' = [call EXCEPT ![c] = Opened(adapter, tool)]
    /\ active' = active \cup {c}

(* A transport that throws is released, and the call answered with a 500   *)
(* if its client still waits.                                              *)
Thrown(c, j) ==
    [Released(c, j) EXCEPT
       !.work = "done", !.served = "internal_error", !.result = "internal_error",
       !.client = IF j.client = "waiting" THEN "answered" ELSE j.client]

(* connect() and handleRequest() of the transport.                         *)
HandleRequest(c) ==
    /\ stage # "exited" /\ call[c].work = "connect"
    /\ \/ call' = [call EXCEPT ![c] = Dispatched(@)] /\ UNCHANGED active
       \/ call' = [call EXCEPT ![c] = Thrown(c, @)] /\ active' = active \ {c}
    /\ UNCHANGED processVars

(* What the MCP routes take besides the POST of a message.                 *)
GetOrDelete == {"stream", "at once"}

Message(adapter) == Tools[adapter] \ {"stream"}

Route(c, tools) ==
    /\ Arriving(c, "plain")
    /\ \E tool \in tools :
         call' = [call EXCEPT ![c] = Dispatched(Opened("plain", tool))]
    /\ UNCHANGED active

(* The HTTP routes of the weather service, and the three previews.         *)
WeatherRoute(c) == Route(c, Tools.plain \ {"preview"})

PreviewRoute(c) == Route(c, Tools.plain)

-----------------------------------------------------------------------------
(* The work of a call.                                                     *)
Working(c, w) == stage # "exited" /\ call[c].work = w /\ UNCHANGED <<processVars, active>>

Served(c, outcome, next) ==
    call' = [call EXCEPT ![c].served = outcome, ![c].result = outcome, ![c].work = next]

(* service.execute().  A preview turns every failure into one answer; over *)
(* MCP it reports none.  An unexpected failure of the paid tool is not     *)
(* reported either.                                                        *)
Execute(c) ==
    /\ Working(c, "execute")
    /\ \/ Served(c, "ok", "report")
       \/ Served(c, "service_error", IF call[c].tool = "preview" /\ call[c].adapter = "evidence"
                                     THEN "answer" ELSE "report")
       \/ call[c].tool # "preview" /\ Served(c, "internal_error", "answer")

(* makeNWSRequest(): data, or nothing by its deadline, which is an error.  *)
NwsRequest(c, withData) == withData \/ Served(c, "service_error", "answer")

Alerts(c) == Working(c, "alerts") /\ NwsRequest(c, Served(c, "ok", "answer"))

(* A forecast takes two requests: the grid point names the second.         *)
GridPoint(c) ==
    Working(c, "points") /\ NwsRequest(c, call' = [call EXCEPT ![c].work = "forecast"])

Forecast(c) == Working(c, "forecast") /\ NwsRequest(c, Served(c, "ok", "answer"))

ReportUncaught(c) ==
    /\ Working(c, "report")
    /\ \E lost \in BOOLEAN :
         call' = [call EXCEPT ![c].report = IF lost THEN "lost" ELSE "written",
                              ![c].work = "answer",
                              ![c].result = IF lost THEN "internal_error" ELSE @]

(* usage.record(): a line, or none if logging is off, the directory is     *)
(* missing or the write fails; it never throws.                            *)
Record(c) ==
    \E written \in {"written", "lost"} :
      call' = [call EXCEPT ![c].report = written, ![c].work = "answer"]

(* reportToolCall(): a failure would be swallowed here too.                *)
Report(c) == Working(c, "report") /\ Record(c)

(* The result goes out if there is still somewhere to write it.            *)
Answer(c) ==
    /\ Working(c, "answer")
    /\ call' = [call EXCEPT ![c].work = "done",
                            ![c].client = IF @ = "waiting" THEN "answered" ELSE @]

(* The response's close event: it was sent or cut off, or the client (or   *)
(* the Worker, which waits 30 seconds) hangs up first.                     *)
Closes(c, client) ==
    /\ stage # "exited" /\ call[c].response = "open"
    /\ call' = [call EXCEPT ![c] = [Released(c, @) EXCEPT !.response = "closed", !.client = client]]
    /\ active' = active \ {c}
    /\ UNCHANGED processVars

ResponseEnds(c) == call[c].client \in {"answered", "cut"} /\ Closes(c, call[c].client)

HangUp(c) == call[c].client = "waiting" /\ Closes(c, "gone")

-----------------------------------------------------------------------------
(* shutdown(): app.close(), mcp.close(), cache.close(), exit.              *)
Awaiting(step) == stage # "exited" /\ shutdown = step

(* The onClose hook of the adapter, which Fastify runs while its server    *)
(* drains.                                                                 *)
CloseWeather ==
    /\ Awaiting("app") /\ ~weatherClosed
    /\ weatherClosed' = TRUE
    /\ CloseAdapter("weather")
    /\ UNCHANGED <<stage, exitCode, shutdown, cache>>

AppClosedAtOnce ==
    /\ Awaiting("app") /\ weatherClosed
    /\ shutdown' = "mcp"
    /\ UNCHANGED <<stage, exitCode, cache, weatherClosed, active, call>>

(* The server is closed when no connection is left.  Closing a server that *)
(* is not listening yet may fail, and the rest is skipped.                 *)
AppClosed ==
    /\ Awaiting("app")
    /\ \/ /\ weatherClosed /\ \A c \in Call : call[c].response # "open"
          /\ shutdown' = "mcp"
       \/ stage = "binding" /\ shutdown' = "exit"
    /\ UNCHANGED <<stage, exitCode, cache, weatherClosed, active, call>>

(* mcp.close() would end the streams of the evidence adapter, but is       *)
(* awaited after app.close(), which waits for them.                        *)
CloseMcp ==
    /\ Awaiting("mcp")
    /\ shutdown' = "cache"
    /\ CloseAdapter("evidence")
    /\ UNCHANGED <<stage, exitCode, cache, weatherClosed>>

CloseCacheUncaught ==
    /\ Awaiting("cache")
    /\ \/ cache # "open" /\ shutdown' = "exit" /\ UNCHANGED cache
       \/ cache = "open" /\ shutdown' = "exit" /\ cache' = "closed"
       \/ cache = "open" /\ shutdown' = "failed" /\ UNCHANGED cache
    /\ UNCHANGED <<stage, exitCode, weatherClosed, active, call>>

(* A cache that fails to close is logged.                                  *)
CloseCache ==
    /\ Awaiting("cache")
    /\ shutdown' = "exit"
    /\ cache' \in {cache} \cup (IF cache = "open" THEN {"closed"} ELSE {})
    /\ UNCHANGED <<stage, exitCode, weatherClosed, active, call>>

Exit ==
    /\ Awaiting("exit")
    /\ stage' = "exited"
    /\ UNCHANGED <<exitCode, shutdown, cache, weatherClosed, active, call>>

Work(c) ==
    \/ HandleRequest(c) \/ Execute(c) \/ Alerts(c) \/ GridPoint(c) \/ Forecast(c)
    \/ Report(c) \/ Answer(c) \/ ResponseEnds(c)

Boot == Load \/ Bind \/ Signal
Shutdown == CloseWeather \/ AppClosed \/ CloseMcp \/ CloseCache \/ Exit
=============================================================================
