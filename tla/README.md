# A TLA+ model of rust-mcp-core

rust-mcp-core is a configuration-driven MCP server core: a `Runtime` builds an
`Engine` from a configuration and a plugin registry and hands it to a stdio or
HTTP transport; clients list and call tools, prompts and resources, and may run
tools as tasks. This directory holds TLA+ modules for the parts in which
several things happen at once, the configurations that TLC checks, and proofs
that TLAPS checks. Line numbers below are those of the repository's `src/`.

## 1. Inventory

| Part | State it keeps | Operations | What makes it correct |
|---|---|---|---|
| task store (`engine/tasks.rs`, `handler/task_requests.rs`) | one map of entries under a mutex: status, result, ttl, owner, cancellation token, join handle, `Notify` | create, attach_handle, finish, get, list, wait_for_result, cancel, cleanup before each of them, `Drop` | a working task has a worker; a settled one never changes; whoever speaks of a task's end says the same; no worker outlives its task; a blocked `tasks/result` is answered |
| runtime core (`runtime/core.rs`, `list_cache.rs`) | current engine and auth state, list cache, one refresh lock per feature, pending set | new, run, reload_config, refresh_list, event worker, debounced flush | cache and engine agree; refreshes do not go back; each registry event is announced; locks are given back |
| notification hub (`engine/client_notifications.rs`) | vector of known clients under a mutex | observe_peer, notify | every known client is told, none is forgotten |
| HTTP tool calls (`tool_dispatch.rs`, `http/outbound_pipeline.rs`) | local to a call | rounds, attempts, retries, cancellation | bounded requests; no use of a refused token; a cancelled call ends |
| outbound tokens (`auth/outbound/`) | cache entry and refresh lock per key | access_token, forced or not | exchanges shared and ordered; rotation followed |
| HTTP sessions (`http/hardening.rs`) | creation times, rmcp's session map, a global token bucket and one per key | create, close, expire, prune, extract_key, allow_with_key | limit, lifetime and rate hold; a session that is served has its record, and no record outlives its session |
| HTTP router and server (`http/router.rs`, `policy.rs`, `server.rs`) | the router built once, at the start of the transport | plugins' routes and wraps, the layers around the endpoint, arrival and answer of a request | layers are where they are declared; only what every layer admits gets through; a status says why |
| configuration and its checks (`config/loader.rs`, the three `feature_validation`s, `runtime_checks.rs`, `construction.rs`, `factory.rs`) | the configuration of the reload state | load, substitute, validate, build | what passes the checks leads to no missing plugin or source; what is advertised is served |
| engine requests (`engine/handler.rs`, `engine/handler/`, `server_info.rs`) | the engine's maps | initialize, dispatch of every request | the same |
| inbound auth (`auth/inbound/`) | discovery and JWKS caches with a refresh lock each, per provider | authorize, the four kinds of provider, metadata route | fetches shared, keys recent, the issuer's owner decides, every request ends |
| catalogs of prompts, resources, completions (`engine/resources.rs`, `prompts.rs`, `completion.rs`, their dispatch and handlers) | a catalog of prompts and one of resources, each under a `RwLock`; subscriptions are the plugins' | list by pages, get/read, complete, refresh, subscribe, unsubscribe | lists and reads agree; pages cover a list; a refresh does not go back |
| plugin context, progress, client logging | progress tracker per call, log level shared by all clients | notify_progress, log_event, client requests, send_with | progress increases; one refresh after a 401 |
| plugin registry | name tables, broadcast channel of 64 events | register, unregister, replace, subscribe | every change is published; a name has one owner |
| pure code: templates, response limits, value helpers, tool responses, compiled schemas | none, but for a cache of compiled schemas | functions | not modelled, see section 6 |

How they interact. `Runtime::run` gives the transport an engine; the engine owns
a task store, a token manager and the catalogs, and shares the hub of the
runtime. Handlers call the hub's `observe_peer` on every request; reloads,
refreshes and registry events call its `notify`. Plugins call back into the
runtime through `ListRefreshHandle`. An HTTP tool asks the token manager for a
token on each round, and so does a plugin's `send_with`. A task runs a tool in a spawned worker whose join handle
and cancellation token the store keeps. On the HTTP transport a request passes
the layers of the router, among them the creation limiter, the auth middleware
and the session policy, before rmcp asks the session manager and calls the engine.

What is hard. Almost every future may be dropped at any `await` (a client
disconnects, a task is aborted, a timeout fires), with its locks; state is read
under one lock and used after it is given up; several maps describe one thing
and are written one after the other; time passes between a check and its use.
`PROJECT.json` lists the hazards by line.

## 2. Modules

Every acquisition of a lock and every `await` ends an action; what the code does
between two of them is one action. Names are the code's where possible. A
definition with the comment `Mutant of X` is a plausible slip in `X`, with which
the property that guards `X` must fail; nothing else uses it.

| Module | Models | Notes |
|---|---|---|
| `TaskLifecycle` | what the store promises | a task is created, settles once, goes; what is told about it names one outcome |
| `TaskStore` | `tasks.rs`, `task_requests.rs` | `entries`, `tokens`, `aborts` (tokens and handles fired), `req` (the enqueue handler), `worker`, `outcome`, `waiting`/`answer` (tasks/result), `cancelling`, `notices`; `Cleaned` is the cleanup that begins each operation |
| `TaskStoreProperties` | properties, refinement mapping | |
| `TaskStoreProofs` | proofs | section 5 |
| `NotificationHub` | `client_notifications.rs` | `peers` is the vector; `Take`, `Send`, `Merge` are the steps of `notify`, `DropCall` its future being dropped |
| `RuntimeLists` | `core.rs`, `list_cache.rs`, the registry's channel | extends the hub. A list is the pair of what the configuration and the plugin's data contribute; `engine`, `cache`, `serving` are the current, the cached and the served one |
| `RuntimeListsProperties` | properties | |
| `RuntimeListsProofs` | proofs about the runtime and the hub | section 5 |
| `TokenService` | what the token manager promises the callers of one key | a call waits, shares the cached token or exchanges for a newer one, is given it or nothing, leaves |
| `OutboundTokens` | `token_manager.rs`, `token_cache.rs` | one cache key. A token is the number of the answer that carried it; the endpoint refuses a refresh token it replaced. `since` is the `now` that a caller reads before it looks at the cache. The refinement mapping is at its end |
| `HttpToolCalls` | `execute_http_tool`, `execute_with_retry`, `send_with` and `upstream_access_token` of `context.rs` | extends `OutboundTokens`; one record per call: round, attempt, requests, tokens refused; `made` says who calls and whose `Authorization` wins among the header layers |
| `HttpToolCallsProofs` | proofs about both | section 5 |
| `HttpSessions` | `hardening.rs` | rmcp's session map is external. Requests that create, use or delete a session may be dropped at any `await` (`DropCreator`, `DropRequest`); the task that rmcp spawns to serve a session, and that closes it in the end, is not. Buckets keep tokens, last refill and remainder; `Second` ticks make a second; `rate` is the configuration of the limiter, `ExtractKey` its key for a request |
| `HttpSessionsProofs` | proofs | section 5 |
| `ServerConfig` | `loader.rs`, the feature checks, `validate_transport`, `build_tool_map` and the engine's other checks, `factory.rs` | no state: a configuration is a record of what the checks tell apart, and the checks are operators, composed by `Server` in the code's order |
| `ServerRequests` | `server_info.rs`, `engine/handler.rs`, `engine/handler/`, the dispatch below them | no state: the capabilities of an engine and the answer to each request, as far as the server decides it |
| `HttpRouter` | `router.rs`, `policy.rs`, `server.rs`, `plugins/http_router.rs` | `Assemble` builds the table of routes from the targets of the plugins, `McpLayers` the layers of the endpoint; a request passes `Chain` inwards and outwards one layer per step |
| `Server` | `Runtime::new`, `run`, `reload_config`, `registry.rs` | extends both: the host fills the registry, loads, reloads; `run` reads mode, auth state and engine in three steps and starts the router |
| `ServerProofs` | proofs | section 5 |
| `ProviderCaches` | `provider.rs` | `cached_fetch` as a stack of lookups per request: the lookup of keys may hold its lock across one of the document |
| `PluginCalls` | `execute_plugin_tool`, `progress.rs`, requests of `context.rs` to the client | a call and the tasks that hold its context, inside the plugin's future or spawned by it; `tracker` is the state of `should_send`, `sent` what reached the transport |
| `PluginCallsProofs` | proofs | section 5 |
| `Catalogs` | `resources.rs`, `prompts.rs`, `pagination.rs`, `resource_dispatch.rs`, `prompt_dispatch.rs`, the handlers of both, completion of prompts | a catalog is the version of each provider's data it was built from, `Items` the list that follows; `refresh` is `refresh_list` down to the store; `client` is one listing and the request made with it; `clean` says that the catalog has been the same since the first page |
| `CatalogsProofs` | proofs | section 5 |
| `InboundAuth` | `authorization.rs`, `middleware.rs` | extends the caches; a request goes through the providers in their order |
| `InboundAuthProofs` | proofs about the caches and the requests | section 5 |
| `MC*` | finite instances | |

What the models abstract. Names, payloads, schemas and messages are model values
or versions; formats, logs and error texts are left out. An upstream, a token
endpoint, an identity provider, rmcp, axum and plugins are external: they answer
anything the code tells apart, or fail. The candidate URLs of one discovery are
one request. `Server` joins configuration, registry, runtime and router; sessions,
authorization, tasks and lists are modules of their own, of which the router sees
only whether they let a request pass.

## 3. Runs

| Run | Instance | Shows |
|---|---|---|
| `tasks` | 1 task, 2 clients, 2 waiters, ttl none/0/1/2 ticks, 3 ticks, tools that may never return and may not be cancellable (145k states) | all safety properties of the store, `ImplementsLifecycle`, and that cancelled tools stop; that tasks settle and registered waiters are answered when tools return |
| `tasks_lost_wakeup` | no ttl, tools return | violated: `wait_for_result` unlocks the store before it registers on the `Notify` |
| `lists_refresh` | prompts, 1 reload, 2 refreshes, 1 client, 2 changes of plugin data; the reload may be dropped between its two swaps (640k) | `ClientKept`, `CacheMovesForward`, `RefreshReturnsInTheEnd` |
| `lists_events` | 2 features, 2 events, channel of 1, 2 flushes, 1 reload that switches one notification off (29k) | debounce: `EventOnItsWay`, `EventAnnounced` |
| `lists_stale` | prompts, 1 reload, 1 refresh | violated: a whole reload between the refresh's check of the engine and its write |
| `sessions` | 3 creators, 3 sessions, 1 other request, limit 1, lifetime 2 ticks, 2 ticks to a second, 3 ticks, 2 addresses; a global bucket of 1 (refill 1) or of 2 (refill 3), buckets per key, both sources of the key; the other request uses or deletes its session, and each may be dropped (2.2M) | rate of every bucket; that no request passes the check of the lifetime once it is over; that a session a client knows has its record, and that a record without session has somebody who will remove it |
| `sessions_limit` | 2 creators, a bucket of capacity 2 that never limits | violated: `max_sessions` |
| `calls` | a repeatable cancellable call and one that is neither, of a tool, a plugin's send or its token helper, with the manager's or another `Authorization`; every configuration of the upstream, 4 tokens, 2 attempts (470k) | sharing and order of exchanges, `ImplementsService`, rotation, bounds, the retry after a 401; that a cancelled call of a tool ends although the upstream is silent, and every call when it answers |
| `plugins` | a cancellable call with two reporters, one of them outliving it, and a call that is not; interval of 2 ticks, 3 ticks, 2 values (327k) | spacing and order of admitted progress, cancellation answered and only where it was asked for |
| `catalogs` | an inline provider, a plugin that lists a duplicate and changes its list, a prompt plugin whose second list is refused, 2 templates that overlap, pages of one entry, 2 refreshes, 1 client (85k) | refreshes in order, pages that cover the list, every request at the provider the list promises |
| `auth` | 2 requests, 3 provider lists, discovery documents with and without an issuer, tokens that differ in issuer, keys, claims, audiences and scopes, 1 rotation, lifetime and timeout 1 tick, 2 ticks (670k) | shared fetches, recent keys, the owner's decision, termination |
| `server` | a plain configuration and each way to differ from it that some check looks at, reloads that open, guard, move to stdio or are refused, 3 builds, 7 plugins, router plugins with every kind of target, requests with and without token, session, body and version (290k) | what the checks accept serves what it advertises from what is registered; layers are as declared and only let the admitted through; the endpoint is guarded as checked |

The violated properties quote the line they come from; `PROJECT.json` gives the
quotation and the line of the code that contradicts it.

Bounds, and why they suffice. Tasks, cache keys and features do not share state
beyond the maps that hold them, so one task, one key and one or two features show
what their operations can do to each other; two actors of a kind meet in every
lock, and a third appears where two leave a resource and one comes (sessions).
The clock passes each deadline (ttl, lifetime, expiry, timeout) by at least one
tick and the exact moment is among the ticks. `MaxVersion`, `MaxEvents`,
`MaxIssued`, `MaxRotations` and `MaxNow` bound histories, and `Server` reloads
no more once the router has its configuration, which it keeps; the steps they stop
are those of the environment. No run checks for deadlock: all of them end by
design, when requests are done and the bounds are reached; that requests end
is checked as liveness. In `catalogs` two versions of a list are enough for one to
replace the other under a client that is between two pages, and two refreshes for
one to overtake the other; `Catalogs` and `Server` state no fairness and no liveness. `sessions` uses symmetry (of creators, of sessions and of addresses), and has no
liveness property. In `server` the files, plugins and requests are chosen so that each
check has a file it refuses and one it accepts; combinations of two deviations are there
where one check reads both.

## 4. Fairness

Fairness is weak and per actor, for what tokio polls: a ready future runs. In
detail: the enqueue handler, workers after their tool has returned, waiters and
the cancelling handler (`TaskStore`); refreshes, calls of `notify`, the event worker
and flushes (`RuntimeLists`); calls, which see that they are cancelled, and the token
endpoint, which is asked without a timeout (`HttpToolCalls`; that the upstream answers
or times out is the premise `UpstreamReplies` of `CallEnds` alone, and
`CancelledToolEnds` needs no answer); requests, endpoints and plugins (`InboundAuth`); the select of a cancelled call, if its plugin does not block its
thread, and sends (`PluginCalls`). Nobody owes
a request, a cancellation, an abort, a disconnection, a registry event or a tick.
A tool may run for ever unless a property says `ToolsReturn`. tokio's mutexes
are fair; the models need less, because each actor takes a lock a bounded number
of times.

Assumed, and not bounded by the code: a client's transport takes or refuses
a frame, and outbound timeouts are configured (`timeout_ms` is unset by default).
`KeysRecent` depends on the latter: a fetch lasts at most `Timeout`.

## 5. Proofs

`TaskStoreProofs` proves for all sets of tasks, clients, requests and ttls, under
`ConstantsAssumption` of `TaskStore`:

- `TypeCorrect`: `Spec => []TypeOK`, by one step per action;
- `WorkingHasWorker`, `NoOrphans`, `OneOutcomeTold`, `OneNotice`: the safety
  invariants;
- `TerminalStaysFinal`: the action property `TerminalIsFinal`;
- `StoreImplementsLifecycle`: `TaskStore` implements `TaskLifecycle`.

None of the invariants is inductive alone. `IInv` adds: the enqueue handler and
the worker move together (`Enqueued`); an entry is working without a result
or has the status of its result (`EntryCoherent`); once the handler has returned,
an entry holds its handle unless the worker has stopped or been aborted
(`HandleHeld`), which is what lets `Drop` stop the worker; an unanswered request
has no answer; and everything that speaks, or is about to speak, of the end of a
task agrees on one status, the entry's own while it is there (`Agreement`).
`Agreement` is needed because a notification is sent after the unlock, when the
entry may be gone: what it will say must be tied to what others have said. There
is a lemma per conjunct with a step per action, `Inductive` puts them together,
and the two results about steps (`FinalStep`, `RefinementStep`) use `IInv`.

`HttpSessionsProofs`, for all sets of creators, sessions and addresses, every
configuration of the limiter and every limit, under `SessionsAssumption`:

- `RateHolds` (`RateBounded`). The level of a bucket is counted in parts, of which
  a token has `Second`: its tokens, its remainder and what the time since its last
  take has refilled. The level after a take is the level before it, less one token
  if the take was allowed, and never above the capacity; so what has passed in any
  window is at most what the bucket held at its start and what was refilled since.
  The multiplications are split off into lemmas on natural numbers.
- `EverySessionRecorded`, `NoStrayRecord`: one invariant (`SessionsInv`) says for each
  session who is responsible for the difference between rmcp's map and `created_at`.
  A session without record has its creator between `create` and `record`, or a creator
  that was dropped there; the latter is excepted, for the code never mends it (section
  6), and no other request meets such a session, since nobody was told its id
  (`OthersTold`). A record without session belongs to one of those that close it, before
  they forget it; if that one is dropped in between, the task that serves the session has
  yet to close it, and removes the record: when it is done there is none (`DoneForgotten`).
- `LifetimeHolds` (`LifetimeEnforced`): a request that goes on from the check of the
  lifetime finds a session that is younger, or that is closed by then. What it asks of
  rmcp comes after the check, so that time may pass before it is served.
- `SessionsInvariant` is the inductive invariant these share, and `TypeCorrect`
  its first part.

`HttpToolCallsProofs`, for every set of calls, every configuration of the upstream
and every answer, under `TokensAssumption` and `CallsAssumption`. A step of a call is
at most one operation of the token manager (`TokenOp`, `CallStep`), so that the
invariants of the manager are proved per operation and those of the calls per step:

- `ExchangesShared`: whoever looks again or exchanges holds the lock, and until its
  own answer is stored only the clock changes what is fresh, to stale.
- `RotationsFollowed`: the token that the next exchange would use is valid while no
  answer is under way, and the one an answer will store is valid while it is
  (`RotationHeld`); it needs the first, for between answer and cache only the holder moves.
- `CostBounded`: what was sent is paid for by the attempt a call is at, and by the
  attempts of the first round once it is in the second (`CostOf`).
- `RefusedNeverReused`: all tokens around were issued, and a forced request never
  takes one from the cache, so what it is given is newer than what was refused
  (`TokensIssued`, `GetsNew`, `CarriesNew`).
- `ManagerImplementsService`: `OutboundTokens` implements `TokenService`, whatever the
  calls do. A caller waits for the service while it looks at the cache or for the
  lock, and exchanges from its last look to the store of its answer. Each operation is one
  of the service or a stutter (`ServiceStep`). It rests on the lock (`HolderAlone`),
  on the answer on its way being newer than the entry (`AnswersNewer`, from
  `TokensIssued`), and on what was stale when a caller read the clock being stale
  when it exchanges (`LooksBehind`, `StaleStays`).

`PluginCallsProofs`, for every set of calls, every set of tasks that share their
contexts and every interval, under `PluginAssumption`:

- `ProgressIsSpaced`: what the client has been sent and what tasks have been admitted
  to send but have not sent yet are pairwise an interval apart in admission and
  ordered alike in value, and the tracker is at or past the newest of them in both
  (`AdmittedApart`), so that what it admits next is apart from all of them. The tasks
  in flight must be in the invariant: the tracker is unlocked before the send.
- `TypeCorrect`, on which it rests.

`RuntimeListsProofs`, for any number of reloads, refreshes, flush tasks, clients and
configurations and every channel, under `RuntimeAssumption`:

- `ClientsKept`: a call holds clients only while it sends (`CallsHold`), so that
  beginning, ending and dropping a call account for all it held; each step of the hub
  moves a client between the vector, its one call, the closed and the lost
  (`KeptByOne`).
- `EventsOnTheirWay`: a feature is pending exactly while one flush task sleeps for it,
  and no other does (`PendingSleeps`); without that the worker's early return on a
  pending feature, or a flush that finds nothing pending, could lose an event.
- `CacheNeverGoesBack`: a refresh past its fetch whose engine is the current one has
  data at least as new as the cache and as the lists of every reload that has swapped
  its engine but not its cache (`FetchedLast`). It needs that engines in use were
  swapped in (`EngineSwapped`: a reload that swaps later makes the refresh stale),
  that refreshes of one feature exclude each other (`LocksHeld`), and that no list is
  newer than the data of its plugin (`DataKnown`).
- `TypeCorrect`.

`InboundAuthProofs`, for any number of requests, every list of providers, every
lifetime and timeout, under `CachesAssumption` (a list of providers is not empty:
`auth/inbound/factory.rs:241`) and `AuthAssumption`. `Inductive` is the invariant all
share; a step of a lookup replaces the top of a request's stack (`TopMoves`) or pops it
(`CallReturns`), a step of a request starts or drops the stack (`RequestMoves`), and each
of the three is proved once:

- `FetchesShared`: a lookup past the lock holds it, and one past its second look has a
  stale entry before it (`FrameOK`): only the holder stores, and what is stale stays so.
- `KeysAreRecent`: keys under way or in the cache were replaced, if at all, no earlier
  than their request was sent, and a request lasts at most `Timeout` (`Recent`); a look at
  the cache is no older than the question (`KeysKnown`).
- `OwnersDecide`: what a request was told about an issuer is about the provider it asks
  (`IssuerKnown`), since what a document's lookup stores or returns is of that provider.
  So the owner of a token's issuer is passed over only when its discovery failed or its
  document names no issuer, which `DiscoveryDocument` allows (`provider.rs:42`).
- `TypeCorrect`.

`CatalogsProofs`, for any number of refreshes, any providers of any features and every
list they may answer, under `CatalogsAssumption`:

- `CatalogNeverGoesBack`: a feature's refresh lock is held by the one refresh past it
  (`LocksHeld`), no catalog is newer than its providers' data and one of a provider that
  is not configured is empty (`CatalogKnown`), and what a refresh has built is at least as
  new as the catalog for every provider it has visited (`BuildKnown`): it asks a provider
  after the refresh before it has stored.
- `PagesAlwaysCover` (`PagesCoverList`): while its listing is the same, a client that is
  paging has the listing up to its cursor, and one that has listed has all of it (`Fits`);
  a store that changes the listing marks whoever has seen it. `FlattenSeq` is recursive:
  that it yields a sequence of what the providers list (`FlattenType`, `ItemsListed`) is
  shown by the least number of sequences for which it would not, by `WFMin`.
- `OwnersAlwaysReached` (`RequestsReachOwners`): what a client is told about a key agrees
  with its listing from the step in which it asks (`Answers`); that no completion names an
  undefined source needs that whatever is built or stored has passed validation
  (`DataFits`), and that plugins watch only what they have listed needs `CatalogKnown`.

`ServerProofs`, for every set of configurations, of plugins the host may register and of
features compiled in, under `FileAssumption` and `ServerAssumption`. `Inv` says that an
engine that is there is of a configuration `Checked` with these features and plugins
(`RuntimeKnown`; plugins change only before the first build, when there is none), and
that the router is built from what `run` has read, of one configuration unless
`overtaken` (`ServingKnown`):

- `EveryReferenceResolves`: one lemma per request, from the check at startup that covers
  it; that of two tools with one name the last is found needs the least element of a set
  of numbers, which is `WFMin`.
- `EveryCapabilityIsServed`: needs no invariant; `Capabilities` and `Answer` agree on
  every configuration.
- `RouterServesAsChecked`: `AuthAgrees` (the layer asks the configuration, the auth
  state enforces; they agree because a section that is on must have providers) and
  `StatelessAgrees`.
- `RouterWrapsAsDeclared`, `RouterAdmits`, `RouterStatusTells`: the three invariants of
  `HttpRouter`, from `RouterInductive`. While the router is built, the segments carry
  exactly the wraps whose turn has come, in order, and `plugin_route_order` is the routes
  whose turn has come (`Segments`, `Applied`); a segment that is made late has missed the
  wraps before it, which is what `Covers` declares. While it serves, a request on its way
  in was let through by each layer before the one it is at (`Underway`), so that whatever
  a limiter or the service sees has passed what admits (`LayersInOrder`, `Admitted`): the
  plugins' wraps, how many there may be, only come before. What an answer says on its way
  out is tied to what the service said (`AnswerMeans`), and the guard, which lies on the
  way out of every answer of the service, has the last word on a session's error.

So every safety invariant and action property of a passing run, and both refinements,
are also proved. The type invariants are proved and in no run. Only model-checked: the liveness properties (`CancelledToolStops`,
`TaskSettles`, `RegisteredWaiterAnswered`, `RefreshReturnsInTheEnd`, `EventAnnounced`,
`CallEnds`, `CancelledToolEnds`, `RequestDecided`, `CancellationObeyed`: fairness and ENABLED are outside the
prover's reach) and the runs that end in a violation. No module has a RECURSIVE operator,
so that proofs can be added.

## 6. Not modelled

What providers answer (contents, rendered prompts), the list of templates and the
completion of their arguments; templates, value helpers and tool responses, pure
functions over JSON in which nothing happens at once; how the sizes of responses are
counted; the cache of compiled schemas, whose entries are functions of their key;
log events of plugins; URLs, header names and timeouts of the outbound pipeline; the
requests the OAuth library builds; error texts and log safety. `PROJECT.json` says
it per component.

Met while modelling and not checked by a run of its own:

- `notify()` takes the vector of clients out of its mutex while it sends
  (`engine/client_notifications.rs:62`): a second call in the meantime finds it
  empty and announces to nobody. `ClientKept` is about the vector, not about this.
- A subscription is routed by the catalog of the moment
  (`engine/handler/resource_requests.rs:158`): after a refresh the unsubscribe may
  reach another plugin than the subscribe.
- `cleanup_expired` drops an entry without waking its `Notify`
  (`engine/tasks.rs:209`, `Drop` at 237): a `tasks/result` request blocked on
  a task that expires stays blocked. `RegisteredWaiterAnswered` excepts it.
- `should_send` records under the tracker's lock and `notify_progress` sends after
  it (`plugins/context.rs:350-375`): two tasks of one call may put larger progress
  on the wire before smaller. `ProgressSpaced` is about the order of admission.
- A configuration that `reload_config` refuses has already set the log level
  (`runtime/core.rs:200`), although line 134 and `docs/CONFIG_RELOAD.md:26` say that
  the previous state stays active. `Reload` has it (`level`).
- A capacity of the inbound limiter above 32 bits (`http/hardening.rs:463`), a router
  plugin's missing registration, its targets (`http/router.rs:88-139`) and an endpoint
  `/` or at the path of the metadata, on which axum panics, are met only by `run()`, after `new()` accepted them.
- With a `bearer` provider in the list, `authorize` compares the bearer token
  before any other provider is asked (`auth/inbound/authorization.rs:163-168`),
  while `docs/CONFIG_SCHEMA.md:796` says that core evaluates providers in list
  order and stops at the first definitive outcome.
- A running transport keeps the engine of its start (`runtime/core.rs:117`), while a
  reload announces the lists of the new one: `served` and `current` differ.
- `tasks/cancel` aborts the worker whatever its tool's `cancellable` setting is
  (`engine/tasks.rs:191-193`), while `docs/PLUGINS.md:199` says that with
  `cancellable = false` the plugin runs to completion. `CancelledToolStops` excepts
  such tools.
- Of two tools with one name both are listed and the last is called
  (`engine/orchestration/construction.rs:329-374`).
- `notify_list_changed` and the subscription of resources count although their section
  says `enabled: false` (`runtime/list_cache.rs:99-111`,
  `engine/handler/resource_requests.rs:235-241`): only whether the section is there is read.
- An `authorization` header of a call, spelt in another case than the manager's, is
  sent beside it and not over it: header maps are keyed by the name as written
  (`http/outbound_pipeline.rs:170-284`). A call whose own `Authorization` wins still
  asks for a new token after a 401 and repeats its request with the same header.
- A plugin's send whose `on_statuses` names 401 repeats it with the refused token
  before it asks for another (`plugins/context.rs:515-552`); `RefusedTokenNotReused`
  is about its attempt after the refresh.
- A JWT needs one of the configured audiences, an introspected token all of them
  (`auth/inbound/claims.rs:57`).
- `setLevel` sets one level for all clients (`engine/handler.rs:79-95`).
- `request_peer_key` never finds an address (`http/hardening.rs:419`): without
  `x-forwarded-for` all clients draw on one bucket, which `docs/CONFIG_SCHEMA.md:133`
  calls the "Per-IP token bucket". `RateBounded` bounds it like any other.
- A `create_session` whose request is dropped after rmcp has created the session
  (`http/hardening.rs:160`) and before the record is written (161-164) leaves a session
  without record, of which no client knows the id. It counts against `max_sessions`
  and reaches no lifetime, although `docs/CONFIG_SCHEMA.md:124` has an "absolute max
  session lifetime". `SessionRecorded` excepts it.
- A `reload_config` that is dropped between its two swaps (`runtime/core.rs:147-154`)
  leaves the new engine with the cached lists of the old one, until the next reload or
  refresh.
- The owner of an issuer whose discovery document names none lets a later provider
  decide about its tokens (`auth/inbound/provider.rs:216-217`), and the document is
  cached as a success. `OwnerDecides` excepts it.

## 7. Plan

Done: the modules above. What is left, in order:

1. The promise of `ProviderCaches` as a module of its own, which its lookups implement
   as `OutboundTokens` implements `TokenService`.
2. Pure operators against reference definitions in one module for TLC: URI templates
   and completion ranking, template rendering, the counting of response limits.
3. A run of `RuntimeLists` with two reloads: nothing orders their swaps of the engine and
   of the cache (`runtime/core.rs:147-154`). The proofs are for any number of reloads;
   no run has more than one.
