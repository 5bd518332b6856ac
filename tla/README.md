# Agent Evidence API: formal models

TLA+ models of the Agent Evidence API (TypeScript monorepo under `src/`),
model-checked with TLC and, where said so, proved with TLAPS.

## The system

A buyer posts a question and a few URLs to a Cloudflare **Worker**. The Worker
forwards the call to the **backend**, which demands an x402 payment, has an
external **facilitator** verify it, runs the **EvidenceService**, and has the
payment settled only if the service delivered. The service looks each URL up in
a bounded SQLite **cache**, may ask **robots.txt**, fetches the page through the
**fetcher** behind a process-wide counting semaphore, selects the passages that
match the question, may have them ranked by a **sidecar** within a time budget,
and **assesses** them. The same service is offered over **MCP**.

| Component | State it keeps | Operations | What is hard | What makes it correct |
|---|---|---|---|---|
| EvidenceService (`packages/core/src/service.ts`) | semaphore; ranking budget shared by all requests | `execute`, `processSource`, `refineOrder` | sources of several requests interleave at every await; every kind of failure per source | slots are returned; every request answered; ranking within budget and without loss for a request that has the budget to itself |
| Semaphore (`createSemaphore`) | counter, queue of waiters | acquire, release | a waiter resumes later than it is woken | exact count, no lost wake-up, no starvation |
| Cache (`packages/cache`) | table of rows in a file | get, set, delete, cleanup, close | expired rows stay, ties, restarts with another bound | a lossy map: never a foreign or replaced row; writes restore the bound and evict the oldest |
| Payment path (`app.ts`, `mcp-paywall.ts`, Worker) | handshake promise, verified payments, usage log | forward, verify, handle, settle or cancel | timeouts at the edge, lost receipts, restarts, batches, a payment presented twice | no charge for a call that failed, no complete result without charge, one delivery per payment |
| Fetcher (`packages/fetcher`) | per request: timers, redirect chain | `fetchSource`, `requestOnce` | racing timers and socket events; validation of each hop | decided once; no unvalidated hop requested |
| Robots (`packages/core/src/robots.ts`) | map origin → rules | `checkRobots` | concurrent misses, expiry, failures cached as permission | a cached verdict is at most an hour old; bounded map |
| Assessment (`assessment.ts`, `abstainOnMultiPartQuestion`) | none | `assess` | thresholds; labels the ranking model replaces | a page speaks against a claim only with a sentence that covers the question and denies it |
| Rate limiter (`rate-limit.ts`) | token buckets | `check` | lazy refill, collection, eviction at the cap | never more than rate × time + capacity while a bucket lives |
| Preview quotas (`app.ts`, `packages/mcp`) | per-address and global counters | `takePreview` | day change, two counters | never over either quota in a day |
| MCP adapter (`packages/mcp`) | set of active transports | `handleNodeRequest`, `close` | closing while calls run; event streams without an end | released exactly once |
| Worker edge (`apps/worker`) | health answer, ten seconds old at most | gate, proxy | stale answer; abort after 30 s | nothing forwarded to an origin known to be down |
| Server lifecycle (`server.ts`) | shutdown flag | start, shutdown | signals while requests run | closed once, in order; ends unless a client holds an event stream |
| Watchdog (`scripts/watchdog.sh`) | origin file, back-off, strikes | one cycle | file written before the deploy; crash in between | a failed deploy is retried |
| Extraction (`packages/extraction`) | none | `extractDocument`, `findEvidenceCandidates` | nesting, fallbacks, thresholds over weights of the whole page | no text twice; a page with visible text does not come out empty (text beside a block is lost, by design); a stance rests on a passage that covers the question |
| Sidecar client, buyer CLI, stdio bridge | memoised client | call | first-call race | see "Not modelled" |

Components interact by awaited calls inside the backend process, by HTTP between
Worker, backend, facilitator and sites, and by the shared fields of the one
`EvidenceService` instance. Node runs one continuation at a time, so the atomic
step of the models of backend code is **the code between two awaits**.

## Modules

| Module | Models | State and actions |
|---|---|---|
| `FetchSemaphore` | `createSemaphore` | `active` and `queue` are the closure's variables; `slot` says where each source is. `Acquire` and `Resume` are the two halves of `acquire()`, `Release` the closure it returns. |
| `EvidenceStore` | what `CacheProvider` promises | a lossy map: the abstract specification |
| `EvidenceCache` | `sqlite-cache.ts` | `rows` is the table; one action per method, `Close`/`Open` for restarts, `Tick` for the clock. Implements `EvidenceStore`. |
| `EvidenceService` | `execute`, `processSource`, `refineOrder` for concurrent requests | per task (request × URL) the await it is at and the source it is building; every action is the code between two awaits, those of `refineOrder()` and `cache.set()` included; `active`, `queue` and `slot` are those of the instance of `FetchSemaphore` all tasks share; the cache is the lossy map of `EvidenceStore`; `disturbed` is a history: the requests that shared the budget fields with another |
| `PaidCall` | Worker proxy, paywall, settlement | per call: `edge` (Worker), `stage` (backend), `inflight`/`receipt`/`charged` (facilitator), `init`/`attempts` (`ensurePaidRoutesReady`), `logged` (usage log) |
| `UrlRules` | `ip.ts`, `validateUrl` | operators. An address is its family, whether it is mapped into IPv6, and the block it lies in, which may be one that `ip.ts` does not list; a URL its scheme, credentials, host and port. |
| `SourceFetch` | `fetchSource`, `requestOnce`, the guarded lookup | `hop`, `url` and `phase` are the redirect loop; per hop `req` is one request: its socket, its promise (`fate`), the armed total timer, the bytes before and after decoding. `Validate` and `Continue` are what the loop does between two awaits; `Connect`, `Headers`, `Data`, `End`, `Breaks`, `IdleTimeout` and `TotalTimeout` are the callbacks of the socket and the timers. |
| `RateLimiter` | `rate-limit.ts` | `place` is the position of a key in the `Map`'s iteration order, `bucket` its values; `Check` is `check()` with its sweep and eviction; `Tick` and `SetBack` move the clock |
| `Admission` | the hooks in front of the handlers: secret, client key, rate limit, preview quotas | extends `RateLimiter`; `day`, `byIp`, `global`, `mcp` are the quota counters. One action per kind of request, each with its `Check`. |
| `BackendProcess` | `server.ts`; the calls and event streams of both MCP adapters, the calls of the plain weather and preview routes | `stage`, `shutdown`, `cache`, `weatherClosed`: `main()` and `shutdown()` up to the await they are at; `active`: the adapters' sets; per call its work, transport and response |
| `OriginHealth` | the Worker's gate | `health` is `originHealthCache`, `visit` each request at the edge; `Gate`, `Observe`, `ProbeEnds` are `originHealthy()` around its await |
| `Deployment` | the gate in front of the process | composes the two: the backend answers a probe only while it serves and is not shutting down; a forwarded visit becomes a call; previews, GET and HEAD of the paid routes and GET and DELETE of the MCP routes pass beside the gate (`Direct`) |
| `Extraction` | `extract.ts`: container, blocks, headings, main text | operators over a page: the parents, tags and texts of its elements |
| `PassageRanking` | `evidence.ts`: terms, segments, weights, coverage, labels | operators; a word is given by its variants, the logarithm by a table of weights |
| `Assessment` | from pages to a verdict: `classify`, `assess`, `refineOrder`'s relabelling, the abstention | one action per page and one for the verdict, over the operators of the two |
| `RobotsRules` | `parseRobots`, `isPathAllowed` | operators over the lines of a file; a pattern is given by the paths it matches |
| `RobotsCache` | `checkRobots` | `order`/`entry` are the `Map`; `StartFetch`, `Fetched` and `Store` are the parts of a check around its awaits |
| `*Proofs` | – | theorems about the module of that name; those about `SourceFetch` and `RobotsCache` are in `FetchProofs`, those about `Extraction` and `PassageRanking` in `AssessmentProofs` |
| `MC*` | – | small constants for TLC |

External code is modelled from how the repository uses it: the facilitator takes
an authorisation at most once and may refuse it at any time; verification takes
nothing; the MCP transport answers requests and acknowledges notifications with
an empty body, may leave a tool call unanswered once its socket is closed, and
ends its response when it is closed itself; Fastify closes once no connection is
left and runs its `onClose` hooks before or after that; DNS may answer
differently every time; a connection may pick any of the addresses of a name.

Operators such as `OneTooMany`, `StoreUnderRequested` or `GuardedLookup`'s
`LookupFirst` are wrong variants of the definition that follows them. Each stands
for a plausible bug and shows which property would notice it; no specification
uses them.

## Runs

Runs that pass:

| Run | Question | Bounds and why they are enough |
|---|---|---|
| `cache` | do writes restore the bound and evict the oldest only, does the cache implement the lossy map? | 3 keys against bounds 1 and 2: overfull files, ties, a smaller bound after a restart; two clock values separate live from expired |
| `service` | slots, the semaphore's count and wake-ups, cache hits, ranking of a request that has the budget to itself; is every source admitted, every request answered? | 2 requests that may overlap, of 2 and 1 URLs, on 1 slot, so that a newcomer may overtake a source that was just woken; one URL redirects to the other; `robots.txt` enforced; up to 2 of at most 3 supplied URLs, so that the share per source is at the pool and a refused request resets it below; budget 6 for two pools of 3; pages with more passages than the pool; ranking calls longer than reserved. 171,351 states |
| `paid_call` | who is charged and what is released under timeouts, lost receipts, one restart; is every call concluded? | 2 calls that may carry the same payment, both routes, batches, messages without an id alone and in a batch, handshakes that fail any number of times |
| `fetch` | where connections go, what a result is, what is left open, does a fetch end? | 1 redirect (a first, a last and a refused hop), 9 URLs, one for each rule and one for an address of an unlisted block; a name that rebinds between five answers; bodies of 2 units that expand not at all, within and beyond the ratio; with and without the escape of the test suite |
| `admission` | tokens, `Retry-After`, quotas | 2 clients, room for 1 bucket (each arrival evicts), a sweep that reaches only the first, a refill that takes several ticks, a clock that may be set back any distance, a per-client quota of 2 and a global one of 3, so that each of them is the one that refuses, 2 days |
| `deployment` | transports, answers and probes while the process is asked to stop | 2 calls that are also the visits at the gate, one over the evidence adapter, one over the weather adapter or plain HTTP, each a call or an event stream; a probe of 1 tick and an answer kept for 2, so that two probes overlap and one ends after the other's answer has aged |
| `assessment` | what of a page becomes evidence, a stance, a word against the claim | every page of 3 elements in every nesting a parser produces, and a second page shown to the ranking model, whose order may be any; texts that cover, deny and half-cover the question, two questions |
| `robots` | whose rules decide, how old, how many | 2 checks, 2 origins, room for 1, thirty files of two groups, one replacement during a fetch |

Runs that end in a violation show that the program does not do what a document,
a comment or a message of the repository says. Each quotes its line in
`PROJECT.json` under `findings`:

| Run | Statement | What happens |
|---|---|---|
| `paid_call_timeout` | charged only when delivered | the Worker gives up, the backend settles |
| `paid_notice` | never charged when nothing was retrieved | a body of nothing but a message without an id is paid for, acknowledged with an empty body and settled |
| `service_overlap` | ranking never removes evidence | one request resets the budget and the share that another is ranking with, and a page is left with fewer passages than without ranking |
| `assessment_refined` | a passage needs half the question's weight for a stance | the ranking model relabels it `direct` |

Other disagreements between text and code that were met while modelling, not
kept as runs:

- Concurrency and ranking. `src/docs/api.md:853` bounds the fetches of the process by
  `MAX_CONCURRENT_FETCHES`; a newcomer may take the slot a waiter was just woken
  for (`service.ts:78`, `:84`), and the waiter takes it too. `CountIsExact` therefore
  says that the counter is right, not that it is below the bound.
- `packages/core/src/config.ts:130` calls the ranking budget that of the whole
  request; budget and share are fields of the service (`service.ts:253`) which
  another request, even a rejected one, resets. `service_overlap` shows what this
  does to the evidence; `RankingWithinBudget` and `AloneKeepsEvidence` are therefore
  claimed of requests during which no other reset the fields (`disturbed`), in a
  system where others may. `src/docs/api.md:254` bounds `evidence[]` by
  `MAX_EVIDENCE_ITEMS`; a failed ranking call leaves the wide pool (`service.ts:628`).
- Cache. `src/README.md:304` says excerpts match the question; a cache hit returns those
  of an earlier one (`service.ts:384`). `src/docs/api.md:240` says `requested_url` is the
  URL supplied; a hit after a redirect has that of the earlier request.
- Money. "You were not charged for
  a result" (`app.ts:697`) is also said when the payment was taken and the
  facilitator's answer lost. `config.ts:100` and `usage-log.ts:9` say every usage line
  is a settled payment; lines are written before settlement and for failed calls.
  `buyer/cli.mjs:308` prints "You have NOT been charged" for an answer behind
  which the payment may have been settled.
- Addresses. `ip.ts:10` says anything not provably public is rejected, and
  `src/docs/security.md:213` and `:516` that only public unicast addresses pass and
  IPv4-compatible IPv6 is covered. `classifyIpv6` knows five blocks and the mapped
  form (`ip.ts:151-180`); an address of IPv6 that carries one of IPv4 in another form
  (`::a.b.c.d`, `64:ff9b::/96`, `2002::/16`) and a special block that is not listed pass.
  The comment at `ip.ts:171` relies on the check at connection time, which judges by
  the same list, and a literal address skips the lookup (`fetch.ts:245-254`). These
  addresses are the block `"unlisted"` of `UrlRules`: they are connected to in the
  model, and `ContactsAreAllowed` speaks of listed blocks only.
- Shutdown. `src/docs/deployment.md:298` says the stop grace period lets Fastify, the MCP
  server and SQLite close cleanly. `app.close()` waits for every open connection
  (`server.ts:118`); the event stream of a GET /mcp has no end (`app.ts:1720-1738`), and
  only `mcp.close()`, awaited next, would end it. `SignalEndsProcess` therefore says that
  such a stream, held by its client for ever, is the only thing that keeps the
  process. A client that never finishes sending its request would do the same; the
  model has whole requests only.
- Fetcher. `src/docs/api.md:859` speaks of a total timeout per source; the timer is
  armed anew for each hop. The comment at `fetch.ts:481` wants no failure to stall a
  request until the total timeout; a truncated encoded body does, because `pipe()`
  does not forward the error of the response itself (`Breaks`).
- Robots. `src/docs/api.md:886` says `ROBOTS_POLICY` is not enforced; it is. "Specific
  agent groups win over `*`" (`robots.ts`): a group that names `*` and strangers, but not
  us, counts as specific (`robots.ts:86`). `ParserObeys` and `VerdictIsRecent` leave files with
  such a group out (`Ambiguous`). At the cap an origin is dropped even when the one that is
  stored is already present.
- Evidence. `evidence.ts` says half the question's weight; the gate is three
  quarters. `assessment.ts:8` says conflicting signals give `inconclusive`; the code
  gives `mixed`. No property is about either.
- `src/docs/api.md:296` says an upstream 4xx is not a request failure; a request whose
  sources all answered 4xx is refused with `NO_SOURCES_RETRIEVED`.

A batch of which one paid message succeeds and another fails is answered and not
charged: the code decides so, and `EvidencePaidFor` is about complete results. A
weather call over MCP may be cut off by the `onClose` hook of its adapter;
`ShutdownCutsNobodyOff` is about all other calls. Deadlock is not checked where
the system may stop: when all requests, calls or fetches are over.

Named bounds: `MaxTime`, `MaxNow` and `MaxDay` (clocks), `MaxCrashes` (restarts of the
backend), `MaxSupplied` (the schema's cap on URLs), `MaxWire` (length of a body),
`Encodings` (values of a header), `Via` (how a call may come in), `Edge` and `Stray`
(headers), `Elements`, `Shapes` and `MaxSources` (pages), `Sites` (files).

## Fairness

Node runs every resolved promise; fetches, ranking calls, handlers and calls to
the facilitator end by their own timeouts. So continuations and ends of calls
are weakly fair. `EverySuspendedAdmitted` needs `Resume` and `Release`;
`EveryRequestAnswered` the progress of each task and the reply of each request;
`EveryCallConcluded` the steps of the backend for each call, the facilitator's
execution and the end of the handshake, not its success. `FetchEnds` needs the
continuations of the redirect loop and that an armed total timer goes off; the
network owes nothing. `SignalEndsProcess` needs that the backend goes on as long as there is
work or a step of the shutdown left, in any order: one condition for the whole
process, since each of its waits has a deadline of its own, except the wait for
open connections. That one has none: no client owes it that he hangs up, so the
property says of a process that got a signal and does not end that a client holds
an event stream of the evidence adapter open for ever. Nothing
makes a request arrive, a page be forgotten, a timeout strike, a client hang up
or a process crash.

## Proofs

Safety holds for every value of the constants; the module assumptions are the
only ones, except where said so.

**`EvidenceCacheProofs`**: all properties of the run, for any keys, lifetimes,
bounds, restarts and an unbounded clock. The invariant adds to the types only
that the table is finite. `BoundRestored` and `OldestEvicted` rest on the order
of eviction being a strict total order: `RankOrder` shows that ranks are distinct
and below the number of rows, so they are an injection (`NewestBounded`: at most
n rows below rank n) and, by cardinality, a surjection (`NewestFull`: n of them
if a row is dropped). `StoreImplemented` maps every step to a read, a write, a
loss or a stutter of `EvidenceStore`.

**`EvidenceServiceProofs`**: for the semaphore as the service uses it, that the queue
holds exactly the suspended sources, that the counter is the number of sources
inside a fetch, and that no wake-up is lost. `SemInv` is the conjunction of the three
and the types plus `FiniteUse` (finitely many sources hold or are promised a slot,
whatever the set of requests): the counter cannot be shown exact without knowing
that a woken source is no longer queued, and no-lost-wakeup needs the exact count
at a release. On top of it slots are returned on every path and hits are the page
asked for. The invariant adds that a request that has not arrived has no task
(`NotStarted`), that a ranked source was fetched in this request (`RankedIsFetched`) and that the cache holds
each source under its final URL (`CachedUnderFinal`), which is what a hit relies on.
Two theorems are about ranking, in the specification in which requests overlap as
they like: `RankingStaysWithinBudget` and `RankingKeeps`, for a request during which
no other reset the shared fields. `BudgetInv` says why: a request that runs and is not
`disturbed` is the only one that runs (`RunsAlone`), so either every source of it can afford the whole pool and what is left of the budget
is what it has not spent, or ranking is off and nothing is spent (`BudgetIsOwn`);
nothing is spent on a source before it is ranked (`CostOfRanking`). Without the
condition both claims are false, as `service_overlap` shows of the second. The
theorems assume that URLs are finitely many and, as `.env.example` demands, that the
pool exceeds `MAX_EVIDENCE_ITEMS`.

**`PaidCallProofs`**: evidence only for money, no money for a call that failed
or for a paid request that got no result, one delivery per authorisation,
one handshake at a time, free bodies stay free. The invariant says what each party knows: `Fresh` (before its handler ended, the
facilitator has not heard of a call), `Unseen`, `Earned` (whatever is being
settled or is settled had its handler end without an error), `Receipts` (a
receipt tells the truth), `SpentOnce` (an authorisation pays for one call),
`OneHandshake`. There is no assumption on the bodies of calls: `ChargesAreEarned`
speaks of calls that failed and of bodies that ask for a paid result, and is true of
a body of messages without an id, which asks for none; that this one is charged all
the same is `paid_notice`.

**`FetchProofs`**, on `SourceFetch`: where connections go, what a result is and what
is left open, for any URLs, answers of the resolver, limits and encodings. The
invariant says that a request that was started passed `validateUrl` and that its
stage, promise and timer fit together (`RequestSound`), that each hop is where the one
before redirected to (`Chained`), which hops have been requested at all (`Sent`), that
every contact was allowed when it was made (`Reached`), and that the result is the
fate of the last request (`Concluded`). `ContactsAreAllowed` needs no assumption on
the resolver: the guarded lookup judges the addresses it hands out. It is about the
blocks `ip.ts` lists; a request whose answer has ended without an error may keep its
socket (`End`), which is why `NothingLeftOpen` asks only of failed ones that it is closed.

**`DeploymentProofs`**: transports are released once, a signal cuts no evidence or
HTTP call off, answers are as served, nothing is forwarded on an answer older than
the lifetime of the cache. For the process the invariant says that a call in the
adapters' sets is one whose pair is open, how far a call's work, report and answer
can be (`CallSound`), and what each step of the shutdown has behind it
(`Lifecycle`: the application closes only when no response is open, which is why
the next steps find nothing to cut). For the gate it bounds each answer, cached or
on its way, by the time the backend was last up; the age of an answer counts from
the start of its probe, without which the bound would not hold.

**`AdmissionProofs`**: the limiter as the hooks use it, for any clients, rates, caps
and clock. The invariant keeps accounts: what a client was granted, in units of
time, and what its bucket is worth when looked at never exceed the capacity and
the time that passed; while it has no bucket, the grants alone are within that
time, because a sweep drops only full buckets (`Paid`). A refused client has at its
due time what a token costs (`Due`), and no two keys have one place (`Places`), from
which the bound on their number follows by an injection into the places. For the
quotas the invariant says that a counter that counts today is the number of previews
granted today (`Counted`) and that nothing was granted on a day to come
(`NothingAhead`), which is what makes the change of day a reset; from it follow both
that no quota is exceeded and that no preview is refused before one is. The number
granted is the cardinality of a set with one element per preview (`Granted`), so
that a grant adds one element and no sum over the clients is needed.

**`FetchProofs`**, on `RobotsCache`: the parser, the bound of the cache, and that a
verdict is recent. `ParserObeys` is about any file in which no group names `*` and
others but not us: the first matching rule of the sorted rules decides as the longest
rule of the groups that govern us does, Allow first. That the lines make groups at all
(`EveryFileIsRead`), and that finitely many rules can be put in order
(`SortedExists`), are shown by least counterexamples, since induction theorems take an
operator as a parameter. The invariant of the cache ties every check in flight and
every entry to a file its origin served, or to a failed fetch, at a known time
(`Known`, `EntrySound`); with `ParserObeys`, `VerdictRecent` needs no assumption on
the parser.

**`AssessmentProofs`**: what of a page becomes evidence, what a stance rests on, and what
it takes to speak against a claim, for any pages, questions, weights, numbers of
sources and any length of the list that is kept. The state is simple (`AssessmentInv`); the work is
about the operators. `OrderedIs`: sorting a finite set by a strict order gives each
member one place, after those before it (by cardinality: the numbers of members
ahead are an injection into the places). `SumType`: a finite sum of natural numbers
is one. `TreeIs`: of two elements above a third one is above the other. From the last,
elements that are not nested share no text (`TextsApart`); blocks are not
(`BlocksApart`), so each of the three ways to make the main text takes every text at
most once (`LinesOnce`), and the last of them takes all (`BareText`). For a stance,
every segment is of visible text (`SegmentsAre`), hence scores are natural numbers
(`ScoreType`) and the ranking puts a better sentence first (`RankingIs`); with a
sentence that leads, the first label is its own (`BestAreFoundation`). A page's stance
is against the claim only if one of its candidates is labelled contradictory
(`StanceNeedsDenier`), which only a sentence that covers and denies is
(`BestThatDeny`), and the ranking model's order adds no such label
(`RefinedDeny`). Sums and ancestors are recursive functions; that they exist and what they are is shown by
least counterexamples. The theorems do not say that the covered share is computed
exactly: weights are those of the table `Idf`, rounded, as the module assumes.

Only model-checked: liveness (five properties; the proof system does not treat
fairness and ENABLED). Every invariant and every other action property that a passing
run checks is a theorem. The four violations are counterexamples, not theorems.

## Not modelled

- Address notation (octal, hexadecimal, zone identifiers), the public suffixes of
  internal names, the splitting of text into words, metadata, dates, links and
  hashes: conversions of data without state, given to the models as constants.
- Of the rate limiter: a clock that is set forward (an elapsed time no different from a
  long pause), tokens as fractions (the model counts in ticks), and a limiter that is
  switched off.
- A row of the cache file that cannot be parsed is served as a miss; it is the loss
  that `EvidenceStore` allows at any time. A connection that is kept alive after its
  response, and a client that is slow to send its request.
- The pages, manifests and discovery documents the Worker and the backend render,
  schemas, the wording of errors, logging: static text.
- The model behind the sidecar; the client's side is in `EvidenceService` and
  `Assessment`.
- The Watchdog and the deployment scripts: shell run from outside. A crash between
  the Watchdog's write of the origin file and its deploy leaves a file that claims
  what is not deployed; it is listed as a hazard.
- The buyer client, a sequential script, and the stdio bridge, whose two first
  calls may each create a client; the second replaces the first.

## Plan

Done: all modules above and the theorems about their safety properties. Left:

1. `Watchdog`: a crash between file and deploy; `StdioBridge`: the race of first calls.
2. What the ranking model does to the evidence of a page, as theorems about `Refined`.
