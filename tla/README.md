# Tokligence gateway: verification project

TLA+ modules, TLC configurations and TLAPS proofs for the gateway in this
repository. The gateway takes OpenAI and Anthropic requests, plans a list of
candidate routes for each, and relays the first one that answers. Part of its
traffic shares a pool of OpenCode accounts, whose sessions come from a local
server; part runs through Go plugins of a proxy host, which keep provider
sessions in a durable registry.

All paths below are relative to `src/`.

## 1. Inventory

| Component | Code | State | Operations | Talks to |
|---|---|---|---|---|
| Account pool | `opencode-account-pool.mjs` | per account: quarantine, failures, generation, diagnostic; affinity of sessions | select, markSuccess, markFailure, markSessionFailure, diagnostic, authorizationFor | executor and SystemOne call it; it calls the credentials |
| Request executor | `request-executor.mjs`, `provider-adapters.mjs` (`zenAttempt`) | locals of each request; route cooldowns; affinity of profiles; model-family history | executeRoutePlan | planner, pool, upstreams, client |
| SystemOne pool | `systemone.mjs` | locals of each call | request | the same account pool, upstream |
| Session registry | `plugins/opencode/registry.go` | entries, LRU order, failure, state file, lock file | Create, Acquire, Reference, Release, Terminate, Close, load | plugin handler, file system |
| Route planner | `routing-planner.mjs` | reads and writes cooldowns, affinity, history, quotas | buildRoutePlan and what the executor records for it | executor |
| Front end | `tgw-proxy.mjs`, `specialist-routes.mjs` | exchanges under way: body, head, end, upstream socket, timers | the request handler of every surface, handleProfileRequest, handleSpecialistHttp, handleSpecialistUpgrade | everything |
| Model catalog | `tgw-proxy.mjs`, `opencode-free-models.mjs` | registry of models, flight of a refresh, snapshot of free Zen models | refreshModelRegistry, discovery, its timer, getAvailableModels | providers, planner |
| Cline OAuth | `cline-oauth.mjs` | credentials (memory and file), login state, generation, refresh in flight | startOAuth, poll, logout, refresh | WorkOS, Cline |
| CLIProxyAPI | `cliproxyapi.mjs` | model cache, login | as above | management API |
| Zen sessions | `opencode-zen-session.mjs` | sticky sessions, flights, child process | sessionId, ensureServer, mint | local server |
| Zen credential | `opencode-zen-credential.mjs` | credential file, refresh in flight | resolve, refreshNow | token endpoint |
| Copilot Auto | `copilot-auto.mjs` | sessions, pending tool calls with timers | complete | SDK sessions |
| Quota cache | `quota-cache.mjs` | entries with values and flights | get, invalidate | probes in `quota.mjs` |
| Preferences | `preferences.mjs` | overrides, sidecar and routes file | set, clear, reset, bakeToRoutes, resolve | dashboard, planner |
| Messages codec | `anthropic-openai-codec.mjs`, `anthropic-passthrough.mjs` | open block, numbers of tool calls | push, end, fold, conversions | executor, front end |
| Cloudflare Access | `cloudflare-access.mjs` | key cache, flight | configure, resolveKeys | JWKS endpoint |
| Plugin handler | `plugins/opencode/handler.go` | configuration, leases in use | Execute, Configure, Shutdown | registry, host |
| Plugin login | `plugins/opencode/device_login.go` | pending logins | start, poll, cancel | provider |
| Cline plugin | `plugins/cline/` | commitment of a stream | executor and host streams | host |
| Catalog fallback | `staging/cli-proxy-api/catalog-fallback/` | live cache, sessions | | host program |
| Native worker | `native/opencode/` | state store | | OpenCode |

What is hard here, and what makes each part correct:

- **Pool.** Several requests select, await and report on the same accounts. An
  answer that was under way when the account failed must not lift the
  quarantine nor bind a session; the longest of several quarantines wins.
- **Executor.** A deadline, a departing client and the upstream race at every
  await. After output nothing is spliced; every request ends and its client is
  answered; only accounts that failed are blamed.
- **SystemOne.** No call exceeds its total budget, and a hung account cannot
  use it up. A cancellation is not a failure.
- **Registry.** Every change is saved, a save may fail half-way, the process may
  die. An id given to a caller must survive; no lease holder loses its session;
  terminations are remembered.
- **Planner.** Requests of one session overlap. A session keeps its route while
  that is open, roles rotate through families without losing a turn, and
  delegated turns leave the session's own choice alone.
- **Zen sessions and credential.** Requests that come together share one
  session and one refresh; starts of the local server by several pools
  interfere; whoever waits is answered; a valid token survives an outage.
- **Copilot Auto.** A tool call outlives the turn that showed it, its session
  may end meanwhile by a timer, a result or an error.
- **Catalog.** A refresh clears the registry while requests are planned from it;
  a timer's discovery meets it at any point.
- **Quota cache, preferences.** Stale or partly failed probes; a crash between
  two files.
- **Codec.** Pieces of text, reasoning and several tool calls come interleaved
  and must say the same as the whole.
- **Front end.** A timer, an aborted body, an upstream that fails or vanishes and a
  client that leaves come in any order before and after the head was written. A
  second head throws where nothing catches it and ends the process; the specialist
  routes must settle although neither side says another word.

## 2. Modules

| Module | Models | Proofs |
|---|---|---|
| `AccountPool` | the pool and what one caller may do with it: the abstract specification of the components that use it | `AccountPoolProofs` |
| `RequestExecutor` | `executeRoutePlan` with the pool, extends `AccountPool` | `RequestExecutorProofs` |
| `SystemOne` | the native call loop, extends `AccountPool`; chat requests appear as other callers of the pool | `SystemOneProofs` |
| `SessionLedger` | what the registry promises its callers: an abstract specification without files, clocks and failures | |
| `SessionRegistry` | the durable registry; `Ledger` maps it to `SessionLedger` | `SessionRegistryProofs` |
| `ClineOAuth` | credentials, refresh, device logins and logout of the Cline adapter | `ClineOAuthProofs` |
| `ZenSessions`, `ZenCredential`, `CopilotAuto` | the adapters below the account pool and beside it | `AdapterProofs` |
| `FrontEnd` | the life of a request on every branch of the HTTP server and on the specialist routes | `AdapterProofs` |
| `ModelCatalog`, `QuotaCache`, `Preferences` | what the console shows and changes | `ConsoleProofs` |
| `RoutePlanner` | `buildRoutePlan` and the state it reads | `PlanStreamProofs` |
| `StreamCodec` | the Messages codec: stream, fold, conversions | `PlanStreamProofs` |
| `SeqFolds` | the filter and the join of sequences that planner and codec share | `PlanStreamProofs` |

`MC*` modules give the constants of the runs. `MCAdapters` and `MCConsole` put
several components side by side that share no state: a behaviour is one of the
component that `part` names. The other modules are checked on their own.

**AccountPool.** `state`, `affinity`, `credentialed` and `now` are the pool;
`attempt[c]` is what one caller remembers: the account, the generation it noted
at selection (`zenAttempt`) and two history fields (`fresh`, `tried`). `Begin`,
`Succeed`, `Fail`, `Exhausted`, `Finish` are the operations; the environment
moves the clock and makes credentials come and go. `Fail` covers in one step all
that the code does without an await in between.

**RequestExecutor.** `req[r]` holds the locals that outlive an await: program
counter, candidate, excluded accounts, tries, `attemptResult` (`result`), the
abort, the state of the client's response (`out`) and `upstreamFailures`
(`notes`). One action per await that resolves and per way it may resolve.
Streams are kept only as far as visibility is concerned. `limited` is a history
variable: the accounts whose last report was a 429. The model makes the report
of a failure and the next selection two steps, where the code runs them in one
turn of the event loop: more interleavings, never fewer. Left out: the native
bridges and specialists beyond their terminal error, 502 against 503 in the last
status, the `responses` protocol (it follows the chat path), and a Messages
document over the size limit. What a success writes to affinity and to the
history of families is part of `RoutePlanner`.

**SystemOne.** `call[c]` is the program counter, the exclusions, the attempts
and the two instants of the timers. An answer, a failure, a timeout or an abort
ends each await. `Punctual` says that timers fire in time and that what awaits
nothing takes no time. The delays of 30 s and 60 s are one constant.

**SessionRegistry.** One action per method, which the mutex makes atomic. A save
is described by two booleans: whether the new file was renamed into place and
whether the call succeeded. `Stop` is an orderly close or a crash; `Open` is the
load by the next owner of the lock file. Leases that callers hold, ids they were
told, and confirmed terminations are history variables; the first two are also
the refinement mapping to `SessionLedger`.

**ClineOAuth.** `file` and `memory` are the credentials on disk and
`#credentials`; a credential is the login it came from and how often it was rotated,
since what matters is whose it is and which is newer. `caller[k]` is one call
(request, status, start of a login, logout) between two awaits, `login[l]` the
`#completeOAuth` of generation `l`, `flight` the caller whose refresh the others
await. File operations take effect in one step and return in another, so that a
login, a refresh, a logout and the first read of the file meet in every order. The
identity provider answers anything at any time. `revoked`, `loggedOut` and `quiet`
are history variables. Left out: the cache of free models, the requests after their
credentials, a microtask's delay between a promise and its continuation.
`cliproxyapi.mjs` holds a second copy of the class.

**ZenSessions.** `ask[a]` is one call of `sessionId` between its awaits, over all
pools of one origin. `stickyPending` holds the promises requests share; `starting`
(of a pool) and `serverStarts` (of the origin, shared by the pools) the starts
under way; `child` and `serving` the processes and whichever holds the port. A
promise is the request that will settle it. The queue `ready` is never filled, since
`fill` runs only after an entry was taken from it, so it is not a variable.
Probes, starts and POSTs end in either way at any time.

**ZenCredential.** A credential is a number, `age` says whether each has expired;
`hold[h]` is one call of `resolve`. A refresh may rotate the refresh token or not,
its result may fail to be written, and the file may be replaced by a sign-in from
outside.

**CopilotAuto.** `turn[t]` is one call of `complete`, `sess[s]` the session that
turn `s` opened, `copyLeft` the timers of the copies that pending calls carry:
`touch` of a resumed turn arms the copy's timer and not the session's.
The SDK asks for tools and ends a run by a result, an error or its time limit.
A resumed turn has a promise of its outcome that it awaits only after its RPC: what
is rejected before (an invalid answer, a failed run, a failed disconnect) is handled
by nobody and ends the process (`Die`), as does a failed disconnect in the clean-up
of a timer (`DisconnectFails`).

**FrontEnd.** `req[r]` is one exchange: its body, `headersSent` (`head`), how the
reply ended (`over`), what it waits for (`up`) and its timers. Its lane is the branch
that answers it, as `ChatLanes`, `ResponsesLanes`, `MessagesLanes` and the receiving
actions choose it: relays, Codex, the raw proxy, collecting and translating branches,
one that answers before it has read the document (`eager`, MiniMax behind OpenCode),
plans, Copilot Auto, SystemOne, routes that await and then answer (`late`) or answer
and then await (`early`), specialists and their upgrade. Lanes differ in the events
they listen to, in their timers, and in whether an error handler looks at
`headersSent`; a collecting branch has all its `call*` functions in one lane, because
they do the same with the events. `WriteHead` of an exchange that has a head throws;
`Dies` is what nothing catches: the process ends and every exchange under way with
it. Besides a second head, these end it: a document without fields where
`parsed.model` is read (1694, 1957, 2139), a Modal message without its list (2163), a
failed write in the reset of the preferences (1556), a document without fields in the
eager branch, and a rejection of Copilot Auto that nobody awaits
(`copilot-auto.mjs:195-199`; `CopilotAuto` has its reasons). All of this follows Node's
rules for sockets and promises, which the module states as external.

**ModelCatalog.** `registry` is the map the requests are planned from, `asked` the
progress of a refresh with each provider, `zenFlight` the discovery of free Zen
models, which the timer and the refresh share. Ages of the cached discovery are
two booleans.

**QuotaCache.** One provider's entry: ages of the cached result, of its percentage
and of the last failure, and whether the percentage's window has been reset. A
probe settles in one of the ways `quota.mjs` has.

**Preferences.** Overrides in memory, the sidecar and the routes file, and the
configuration the process runs. A bake writes two files in two steps; any write
may fail and a restart may come between. `promised` is what the operator was told.

**RoutePlanner.** `Plan` is `buildRoutePlan` as an operator: eligibility, circuits,
order by quota, affinity, class routing, rotation. Its branches ask different things
of a route: profiles, roles and the catalog for protocol, features, window and an
open circuit; a translated direct model for features and window; direct models of
Zen and Cline for the protocol alone, and no other direct model is planned; a
specialist for the Responses protocol of its service. `plans` are requests that work
through the plan made when they came, while others change cooldowns, affinity,
families and quotas. `CandidateFails` cools its route, `PoolFails` (the pool is
exhausted, or one of its accounts answers with an error) goes on without. `Serves`
is a success that is remembered; `Ends` covers what leaves no trace: an abort, a
failure after the head or where no fallback is allowed, a specialist, the streamed
chat of the pool (`request-executor.mjs:872`). That only the last of the pool's
successes leaves nothing is not distinguished: any request may do either, which
allows more than the code does.

**StreamCodec.** Chunks go through the encoder; `Collected` is the fold,
`Completion` the answer the same upstream would have given without streaming and
`Direct` its conversion, `Synthesised`, `Normalized` and `Replayed` the other
conversions. A piece of text is the number of the chunk that brought it, so that
order and loss are visible and wording is not. A piece of a call counts as output only
if it has a name or arguments, so that a strict stream may end with pieces and nothing
said, unless its finish is `length` or `content_filter`. The folds are recursive functions
(`Only`, `Flat` of `SeqFolds`, `Blocks`), because proofs are about them.

## 3. Runs

All runs disable TLC's deadlock check: each model is bounded in time or in
requests, and a state in which all of them are used up has no successor.

| Run | Instance | Shows |
|---|---|---|
| `executor_pool` | 2 accounts, a streamed chat and a plain Messages request | the executor implements the pool; failures are counted by live requests; a quota is noted on evidence |
| `executor_routes` | 1 pooled account, a direct and a native route, a streamed chat and a streamed Messages request | no fallback after output; every request ends; only one kind of response stays open |
| `native_and_chat` | 2 accounts, a native call beside a chat request | the native call implements the pool, whose own properties hold; cancellation counts no failure |
| `native_calls` | 4 accounts, 3 attempts, budget 3, attempt budget 2 | backups get a turn, every call ends |
| `logins` | 2 calls, 2 generations of logins, 1 rotation each | shared refreshes, replaced logins, logout, end of every login |
| `adapters` | 3 requests of 2 session pools; 2 holders of a token with 3 versions; 3 turns of Copilot with 2 tool calls; 2 requests over every lane of the server, body and handshake timers of 1 tick, socket timer of 2, 1 chunk | one session per key and one refresh; a token survives an outage; no call to a dead session; one head per reply; every request for a session, turn, session and specialist exchange ends |
| `console` | registry: 2 conversations, 2 leases, 1 idle, clock 1 to 3; catalog: 6 models of 5 providers; 1 quota entry; 2 aliases; planner: 4 routes, 5 names, 2 shapes of request, 1 request at a time in 1 session; codec: streams of up to 3 of 10 chunks | the registry keeps its ledger through failed saves and restarts; the catalog, the percentages and confirmed preferences hold; planning; the codec's events and folds |

Five runs end in a violation on purpose. Each states what a document, comment or
test says and shows a behaviour of the code that does otherwise:

| Run | Statement | What happens |
|---|---|---|
| `hung_chat_stream` | the deadline of a visible stream emits an error | the pooled chat stream returns without ending the response |
| `stale_blame` | the failing account is quarantined | the account of the attempt before is counted a second time |
| `registry_reload` | the registry survives restarts | after the clock was set back the file is refused at the next start |
| `class_routing` | routing of delegated turns leaves the others unchanged | a delegated turn served by the cheap route moves the session's affinity there |
| `bake` | after a bake the configuration carries the baked values | the process resolves baked aliases to their old targets until a restart |

**Other divergences and remarks.** Met while modelling, not run.

- *Executor.* The reply of a 429 says "on all eligible accounts" although only
  noted failures count (`request-executor.mjs:1026`, `:1033`), and an exhaustion by
  quota is a 502 or 503 when an old diagnostic was replaced
  (`provider-adapters.mjs:144`, against `docs/systemone.md:97`). A short route
  cooldown overwrites a longer one of another request (`:795`, `:999`, `:1007`). The
  deadline that cuts a hung chat stream counts no failure (`:859`).
- *SystemOne.* A retry-after is cut to one hour (`systemone.mjs:89`), where
  `docs/systemone.md:83` says up to 30 days.
- *Registry.* After a restart `order` is not "LRU order, oldest first"
  (`registry.go:81`): recovered entries get a new time of use but keep their place
  (`:234`).
- *Cline.* `test/cline-oauth.test.mjs:311` says "logout clears stored credentials and
  prevents a pending device login from persisting", which fails when the logout
  meets a file operation: a login past the comparison of generations
  (`cline-oauth.mjs:536`), a refresh in flight (`:439`) or the first read of the
  file (`:403`) puts the credentials back. `LogoutIsFinal` speaks of the other
  logouts. The slow first read may also replace newer credentials.
- *Zen.* `ready` is never filled. `refreshNow`, `invalidate` of the quota cache,
  `configureCloudflareAccess` and `close` of the session pool have no callers in
  production code.
- *Copilot Auto.* The text of a resumed stream goes to the turn that opened the
  session. A turn whose waiter another has displaced, or that resumes a session whose
  run has ended, is never answered. The outcome of a resumed turn that is rejected
  while its RPC is under way, or after the RPC was refused, is an unhandled rejection
  (`copilot-auto.mjs:195-203`), as is a failed disconnect in a timer's clean-up
  (179-183): both end the process.
- *Planner.* The affinity of a session has neither class nor agent in its key. In the
  instance of `class_routing` the cheap route is no candidate of the profile, so that
  the run shows the map changed; with the candidates of `gateway.routes.yaml` it
  is one of some profiles, whose session then goes to it first on its own next turn.
- *Quota cache.* A Mistral percentage kept beside fresh figures takes their age: it
  may be twice as old as the limit (`test/quota-cache.test.mjs:15`).
- *Preferences.* Both files are written in place; a failed write is reported as a
  400 although memory has changed.
- *Catalog.* The last prune uses what providers listed when they settled, and may
  remove Zen models that the timer has registered since. `fetchJson` has no timeout,
  so that one hung endpoint holds up `GET /models`. Requests that come during a
  refresh see a half-filled registry, and a provider that fails loses its models.
- *Front end.* The relay and Codex lanes end a broken reply as if it were complete.
  The relays write a second head when the socket fails mid-body (`tgw-proxy.mjs:1931`,
  `:2273`, `:2326`, `:2346`), the raw proxy too (2369), the status and logout routes on an
  error (1430), the eager branch on a document without fields (2206-2211): each ends
  the process, as do the other cases named under `FrontEnd` in section 2.
  `OneHead` is stated for the other lanes. Raw, collecting and translating lanes leave the
  client waiting when the upstream's response vanishes, and they, the relays, Codex
  and the routes that await have no timer for a silent one. A specialist whose
  client stays is settled by its timers, an upgraded tunnel has none.
- *Codec.* A tool call that returns after another block was opened sends its delta
  to a block that was stopped; `StreamShape` allows exactly that. An answer without
  finish reason has `stop_reason` null as a document and `end_turn` as a stream.

**Bounds.** `Horizon` ends the clock, `MaxFailures` the counters, `MaxIds` and
`MaxLeases` the registry, `MaxVersion` the rotations, `ZenHorizon` the time of
sessions, `Openers` and `MaxCalls` the Copilot sessions, `OldAge` the ages of quota
results, `MaxChunks` the streams (of the codec and, as `MaxChunks` of its own, of a
specialist's response); `BodyLimit`, `IdleLimit` and `HandshakeLimit` are the timers of
the specialist routes in ticks, and a second tick lets a chunk come before the socket
timer starts again. Delays are one or two ticks, so within a horizon of
two or three every order of a failure, an expiry and a late answer occurs. Two
accounts are enough for a backup and for blame to hit the wrong one; four let a
native call use all its attempts and keep one spare. Two callers give every race
over one account. Two generations are a login and its successor, or a login and a
logout; two calls are a refresh and whatever meets it. Three requests give a
leader, a follower and one of another pool whose start interferes. Three turns are the
one that opens, one that resumes and one that displaces it. One planned request at a
time is enough because a plan depends on the shared state alone, and what overlapping
requests write there, one after another writes too. Three chunks reach every
change of block and a call that returns after another. `Doubling` beyond the second
failure is cut by `MaxCooldown`. The proofs below do without these bounds, but for
`Horizon`, which they leave arbitrary.

**Fairness.** `RequestExecutor!Fairness`: what the process can run by itself it
runs (planning, selection, reporting, returning), and the deadline timer fires;
upstreams and clients owe nothing. `SystemOne!Fairness`: the loop runs, time
passes, timers fire. `OAuthFairness`: the polling loop runs and
its device code expires, since every fetch has a timeout and the clock advances; users and
requests owe nothing. `ZenFairness`: every probe, start and POST ends, since each has a
timeout. `CopilotFairness`: settled promises continue, timers fire, `sendAndWait` ends
by its limit, the runtime answers an RPC. `FrontFairness`: time passes, the timers of the
specialist routes fire, an aborted body rejects its read, and a socket the code has
destroyed says so; upstreams and clients owe nothing. Node's event loop runs every ready callback, which is what weak fairness
of these actions says.

## 4. Proofs

The theorems hold for every number of accounts, callers, sessions, routes, requests and
models that the assumptions of the modules allow: types, distinct marks for "none", and
that delays lie within their bounds.

- `AccountPoolProofs`. `PoolInv` strengthens `TypeOK` with what each caller's note
  says: the noted generation is at most the account's, equal exactly when `fresh`,
  and quarantine, count and diagnostic agree. It is inductive; `QuarantineAccounted`,
  `QuarantineBounded`, `GenerationDetectsFailure` follow, and with it each step
  satisfies `QuarantineRespected` and `AffinityEarned`. `AffinityBounded` needs a
  count of its own over the eviction.
- `RequestExecutorProofs`. Each step of the executor is a step of the pool or
  leaves it alone, so `ExecSpec => Spec` and the pool's theorems hold of it.
  `RetryInv` ties exclusions, tries and program counter and gives `AccountsTriedOnce`.
  `ShownInv` ties what a client has been shown to the program
  counter and to the way its request was aborted: nothing before the relay, and after
  it an ended reply or the stream that the deadline cut. Every step moves one request
  in one of five ways (nothing is shown, the reply ends, begins, stays or is aborted),
  each of which keeps `ShownInv`; `NoFallbackAfterOutput` and
  `OnlyCutChatStreamsStayOpen` follow. `CountedByLiveRequest` goes through the actions
  that call `markFailure`. `QuotaNotedOnEvidence` needs to know that the pool remembers
  a 429 only of accounts in `limited` (`LimitInv`); an account that recovers leaves
  both at once, because a fresh attempt has the account's generation.
- `SystemOneProofs`. Native calls use the pool as it allows, shown as for the executor.
  The invariant behind the budget is an account of time: what is left of it after `n`
  attempts is at least the total less `n` attempt budgets.
- `ClineOAuthProofs`. `OAuthInv` has five parts, each inductive with those before it:
  types; until a logout, whoever refreshes is the one in `flight`; a revoked login is
  behind the current generation and never writes; every copy of credentials, the one
  a call has read included, descends from a login that wrote and was not revoked;
  after a quiet logout nobody reads, writes or can still register. The invariants of
  the run `logins` follow.
- `SessionRegistryProofs`. `RegistryInv` says what a failed save may leave different
  between memory and disk, that ids are apart, and that the callers' leases are those
  counted. Each method is first reduced to what it may do to one mapping, then the
  invariant and the step of the ledger follow: `RegistrySpec => KeepsLedger` is the
  refinement of `SessionLedger`. Terminations and loading need a second invariant for
  the times of entries, relative to a clock that is not set back.
- `AdapterProofs`. Zen credential: at most one call refreshes, it is the one in flight,
  and a call fails only when the token it has read expired. Zen sessions: an active
  request for a key is the one its key's promise names, and while it is active
  every earlier session of the key has outlived its ttl; the request that mints
  is therefore the first since. Copilot: pending calls belong to live sessions, through
  every clean-up and resumption. Front end: `OneHead` needs `Sound`, which ties head,
  wait, body and timers of an exchange: nothing that is asked has a head yet but the
  streams of Copilot and the routes that answer early, a response that is open has
  none where it is collected or translated, and while a body is read or its timer
  runs there is no upstream, while it is read no head. Each operation on an exchange keeps it
  (`PutSound` and the lemmas behind it), and so does the end of the process, which
  changes all of them (`SeveredSound`, `DiesSound`).
- `ConsoleProofs`. The two files together hold what was confirmed, with one case
  for the instant between them; the age of a percentage is at most that of its result
  plus the limit; configured models outlive clearing, listing and pruning, on the
  assumption `ApartFromZen` (Zen lists no key of a configured model or profile: one
  that it takes over is pruned with the Zen models); the registry's Zen
  models are those of the snapshot while no discovery is under way.
- `PlanStreamProofs`, planner. `Only` (a filter) and `ByQuota` (an insertion sort) are
  recursive functions, so that `CHOOSE` must be shown to find one: `FoldExists` builds
  a solution of any recursion over `0..N`, and `Climb`, from the library's
  well-founded minimum, is the induction that what holds of every prefix rests on.
  Then filtering keeps what belongs to the set, sorting and `ByAffinity` keep the set of
  candidates, and `First` keeps the head. `PlannerInv` is the types and `PlansFit`:
  each route a request has left passes what its branch of the plan asks of it
  (`Qualifies`), which for specialists and for direct models taken as they come is no
  more than the protocol; `SessionKeepsItsRoute` follows for every plan that
  `Ask` makes, `RolesRotateFamilies` for every state. `BestRoutesFirst` says that the
  plan of a profile is the stable sort that `reorderByQuota` promises: by score, equals
  as configured, and `max_attempts` cuts off the end of this order; only the session's
  route and, on a delegated turn, that of class routing are exempt. It rests on
  `RankedFalls` (the positions that score as much are an interval from 1, so that an
  insertion behind them keeps the order) and on `Falls` being kept by a filter, a cut
  and a route put in front. TLC agrees on three candidates of which two are tried, and
  refutes it for a sort that is not stable and for a cut before the sort; no run lists
  it, for `console` states the head of the plan by `SessionKeepsItsRoute`.
- `PlanStreamProofs`, encoder. `Going` is the state between two pieces of a chunk: as
  many blocks were started as `next` says, as many stopped as are not open, the open
  one is the last, each call that came has a block that was started, and every event
  is well placed among those before it. Each operation appends events that `Fits`
  allows and keeps it; the calls of one chunk go through `FoldExists` and `Climb`
  again. `StreamShape` follows with `CodecInv`, which lets go of `Going` only at the end.
  `EveryPieceArrives` says of the same states which chunks each voice (text,
  reasoning, the block of a call) has spoken for: exactly those that carried such a piece,
  in their order, text and reasoning once a chunk. Its invariant `Carries` also says
  that every call has a block of its own and that blocks to come are empty. TLC agrees
  on streams of four chunks; no run lists it, for `FoldKeepsAnswer`, which says more,
  is checked there.
- `PlanStreamProofs`, fold and conversions. `FoldKeepsAnswer` speaks of whole
  sequences, so the proof first states what the folds do to a sequence with one more
  element (`OnlyAppend`, `FlatAppend`, `BlocksAppend`). From there everything is by
  `AppendInduction`: a set of sequences that holds the empty one and is closed under
  appending holds all. `MessageTellsChunks` is the invariant: the message folded from
  the events sent so far, whichever block is open, has the text and the kept reasoning
  of the chunks so far, and for every call that came exactly one tool block, with the
  arguments of that call. Each operation of the encoder keeps it; the case that
  makes it delicate is a call that returns after another block was opened, whose delta
  must find its own block although that is not the last. `ToldIsKept` then follows the
  message through the conversions. The tool blocks of the stream and those of
  `Direct` may come in different orders: both list, once each, the arguments of the
  same calls, and `BagOfLists` says that two such lists have the same bag. Filtering
  twice is filtering by both sets (`OnlyTwice`), hence the repair of a nested document
  keeps what the fold kept; the frames of a message fold to it again
  (`SynthesisedFolds`). `StreamedIsUnstreamed` puts these together, for streams of
  every length over every set of chunks.

Every invariant and every action property of the passing runs is stated by a
theorem. Only model-checked is liveness, which TLAPS does not do: `EveryRequestEnds`,
`EveryCallEnds`, `LoginsSettle`, `EveryAskEnds`, `TurnsEnd`, `SessionsClose`,
`SpecialistsSettle`. No reply is promised on lanes without a timer, nor to a turn of
Copilot that was displaced. The five disagreements are counterexamples, found by TLC.

## 5. Where the project could go

In this order: a third caller for the races after a logout of Cline; the plugin's
device login and handler; the session pool and credential below the account pool in
one composition.

## 6. Not modelled

- *Pure conversions and I/O without shared state:* route configuration (parsed once at
  start), metadata and prices of catalogs, observers, the dashboard, the Zen gate,
  the plugin's wire code, the probes of `quota.mjs` beyond their outcomes.
- *No second actor:* Cloudflare Access; its configuration changes in tests alone.
- *Programs whose source is not in the repository:* the staging and hub patches, the
  catalog fallback, the host of the Cline plugin and of the OpenCode plugin's handler.
- *Not reached:* the device login of the plugin, whose protocol is that of `ClineOAuth`;
  the model caches of Cline and CLIProxyAPI; the native worker, an experimental
  bridge that is off by default; `close` of the adapters at shutdown; operator scripts.

`PROJECT.json` gives the reason for each.
