# A TLA+ model of codex-turn-state-cache

The plugin keeps *turn-states* (an opaque header value the upstream hands out)
for account/model pairs and injects them into later requests. It does so in two
ways: a **passive cache** re-uses what ordinary answers contained, and a
**prewarm engine** acquires a state through a harvest proxy, verifies it on the
account's own route and injects only such verified *tickets*. The modules here
model both, the callbacks that join them, the client that probes, the observer
that judges answers and the runtime that replaces plugins. TLC checks them on
small instances, and TLAPS proves the main safety properties for every value of
the constants.

File references are relative to the repository. `engine.go`, `discovery.go`,
`budget.go`, `completion.go`, `config.go` are in `internal/prewarm/`; `cache.go`
and `interceptor.go` in `internal/turnstate/`; `client.go` in `internal/probe/`;
`main.go` in `cmd/plugin/`.

## 1. Inventory

| Component | State | Operations | Interacts with |
|---|---|---|---|
| Passive cache (`cache.go`) | `entries` (key → state, capture time), `pending` (request ID → key, plan, time); one mutex | `BindRequest`, `BindPlan`, `ForgetRequest`, `Lookup`, `StoreResponseForRequest`, purging, eviction | called by the interceptor |
| Interceptor (`interceptor.go`) | none of its own | after-auth request callback, response, stream-chunk, WebSocket-event and completion callbacks | passive cache or engine, by `Manages` |
| Prewarm engine (`engine.go`) | `plans`, `records` (ticket, epoch, running, cool-down), `queue`, `requests` (observations and tombstones), proxy pool, `epoch`, `version`, `closed` | `schedule`, `enqueueLocked`, `worker`/`collect`, `Bind`, `Headers`, `Chunk`, `JSON`, `Complete`, `Close` | probe client (describe, probe), budget, interceptor |
| Account discovery (`discovery.go`) | `nextDiscovery`, `discoveryCount`, `owned`, `ownsAllModels`, and the engine's `plans`/`records` | `refreshAccounts`, `applyAccounts` | host directory, scheduler goroutine |
| Probe budget (`budget.go`) | times of the probes of the last hour | `allow` | every probe of every engine of the process |
| Completion watcher (`completion.go`) | line and event buffers, verdict | `Feed`, `Finish`, `JSON` | engine callbacks, probe client |
| Configuration (`config.go`, `config_yaml.go`) | constants after validation | `Defaults`, `Validate`, plan and state families | everything |
| Probe client (`client.go`, `probe/discovery.go`) | index cache | `resolve`, `Describe`, `Probe`, `DiscoverAccounts` | host callbacks, upstream |
| Transport, host-config path | none | dialling, path checks | probe client |
| Plugin runtime (`main.go`, `prewarm_host.go`) | current plugin, `runtimeStopped`, callback gate | register, reconfigure, quiesce, shutdown, dispatch | host |
| C ABI glue, smoke test | none | buffer passing | host |

### How they interact, and what is hard

* **Goroutines.** Each engine runs `Workers` workers and one scheduler; the host
  calls the request, response and completion callbacks from goroutines of its
  own. `Engine.mu` protects every field, but a round of a worker is some fifteen
  critical sections with calls to the host between them, `Bind` is three, and a
  WebSocket event is two for the passive cache.
* **Stale reads.** The account's identity is read several times in one round and
  may change between any two. A round ends seconds to minutes after it started;
  its key may have been revoked or withdrawn, or may have another plan by then.
  The code fences such rounds off with an *epoch* per record.
* **Attribution.** Host callbacks name the request, not the attempt. A retry
  binds the same request ID again, maybe for another account; answers may be
  late, repeated or reordered, and may come after completion.
* **Jobs.** A record's `running` flag, the queued job and the worker's job must
  agree, also when discovery withdraws a key that has a job, when it comes back,
  and when stale jobs of withdrawn keys fill the queue.
* **Limits.** Two bounded maps in the passive cache, the observation table, the
  queue, the retained ownership, the proxy back-off and the probe budget.
* **Two stores.** The interceptor calls the passive cache and the engine one after
  the other, under no common lock; discovery, completion and other callbacks come
  between the calls.
* **Replacement.** A reconfiguration publishes a new plugin, closes the old one and
  starts the new one, while callbacks are still running on the old one, other
  lifecycle calls wait, and everyone calls back into the host through one gate.
* **Close.** It must stop everything in flight, and must come back.

Nothing is persisted, so that there is no crash recovery: a restart begins empty.

### What makes each component correct

* Passive cache: an answer is stored under the key of its own attempt or not at
  all; nothing of a completed request is stored; lifetimes are fixed; both maps
  are bounded and evict the oldest.
* Engine: only qualified tickets are published; a revocation overtakes every
  round in flight; a late answer never revokes a newer ticket; the shared pool,
  queue and tables stay consistent; due keys are eventually served; Close is
  final and terminates.
* Discovery: withdrawn keys lose their tickets at once; a key is never handed
  back to passive captures.
* Interceptor: a verified-only attempt is never mixed with passive captures; what an
  answer shows reaches the engine; completion leaves nothing in either store.
* Budget: at most `max_probes_per_hour` probes in any hour, over successive engines.
* Completion: the verdict does not depend on how the stream is cut into chunks.
* Probe client: the credentials, identity and route of a probe are those expected,
  although each is read at another time.
* Runtime: one active plugin; no callback reaches the host after shutdown.

`PROJECT.json` lists the hazards line by line, each with the properties that
cover it or the reason why none does yet.

## 2. The modules

| Module | What it is |
|---|---|
| `PlanFamilies` | plan names and state length classes (`config.go`) |
| `ProxyPool` | operators of the proxy pool: choice, success, failure with back-off (`chooseProxyLocked`, `markProxy`) |
| `ProbeBudget` | operators of the sliding window (`Budget.allow`) |
| `PrewarmEngine` | the state machine of engine, discovery and managed request path; composes the three above |
| `PrewarmRequirements` | what the engine promises: type invariant, safety, action and liveness properties |
| `MCPrewarm`, `prewarm_*.cfg` | instances of the engine for TLC |
| `PrewarmProofs`, `PrewarmJobProofs` | theorems about the engine: types, tickets and the pool in the first; jobs, requests and ownership in the second |
| `VerifiedTickets` | abstract specification: what the engine promises its requests, without workers, queues, epochs, proxies or a scheduler |
| `PrewarmRefinement` | the refinement mapping from `PrewarmEngine` to `VerifiedTickets` |
| `PrewarmRefinementProofs` | the engine implements the abstract specification |
| `TurnStateCache` | the passive cache driven by the interceptor's callbacks, with its properties |
| `MCCache`, `cache.cfg` | an instance of the cache for TLC |
| `CacheProofs` | theorems about the cache |
| `Interceptor` | the callbacks over both stores, call by call, with their properties |
| `MCInterceptor`, `interceptor*.cfg` | instances of the callbacks for TLC |
| `InterceptorProofs` | theorems about the callbacks |
| `Completion`, `MCCompletion`, `completion.cfg` | the observer of completed responses, against a reference over whole texts |
| `CompletionProofs` | theorems about the observer, by induction over texts |
| `ProbeClient`, `MCClient`, `client.cfg` | resolution of identities, the index cache and the two resolutions around a probe |
| `ClientProofs` | theorems about the probe client |
| `PluginRuntime`, `MCRuntime`, `runtime.cfg` | lifecycle calls, dispatch, the callback gate, successive engines and their budget |
| `RuntimeProofs` | theorems about the runtime |

`PrewarmEngine` composes `PlanFamilies`, `ProxyPool` and `ProbeBudget`;
`PluginRuntime` composes the budget with successive engines, of which it keeps the
goroutines only. `Interceptor` composes the two stores at the level of what they
promise: its engine does to tickets what `VerifiedTickets` allows, its cache keeps
one captured state per key.

Each module also holds the variants of a few of its definitions, commented
*Mutant*, that bring a plausible bug back in; every property is violated under
one of them.

### Correspondence with the code: `PrewarmEngine`

An action is one critical section of `Engine.mu`, one answer of the host about an
identity, or one end of a probe. What a goroutine does between two of these is
local to it.

| Variable | Code |
|---|---|
| `plans`, `recorded`/`records`, `epoch`, `version`, `queue`, `requests` | the fields of `Engine` with these names; `recorded` is the domain of the map `records` |
| `pool` | `proxies` (failures, cooldown), `nextProxy`, `goodProxy` |
| `stamps` | `Budget.timestamps` |
| `wk[w]` | one worker: program counter and the locals of `worker`/`collect` (job, plan, attempt, `id.Scope`, proxy, `captured`, candidate state) |
| `sched`, `nextDiscovery`, `discovered`, `owned`, `ownsAllModels` | the scheduler goroutine and discovery; `discovered` is `discoveryCount >= 0` |
| `binds` | a `Bind` call between its critical sections |
| `ident` | the identity the host would describe now (external) |
| `now`, `closed` | the clock; `closed` together with `ctx.Done()` |
| `carried`, `blamed`, `doubted`, ticket fields `harvestedAs`, `verifiedAs` | history: no guard reads them except to name an answering attempt |

The worker's program counter walks through `collect` in its order: `plan`,
`attempt`, `describe`, `choose`, `reserve`, `harvest`, `redescribe`, `reverify`,
`verify`, `recheck`, `publish`, and `finish` for the epilogue in `worker`. Errors
that the code treats alike are one action (`ProbeRejected` for 401/403/429,
`ProbeFailed` for the rest), with their different effects on the pool kept.

Abstractions:

* A state is its length class, an identity a model value with a raw plan, a raw
  plan one of four classes (empty, pro, team, other).
* `lastProxy`, `lastFailure`, `successes` and logging are left out: nothing
  reads them but log lines.
* `applyAccounts` draws one epoch per snapshot where the code draws one per
  changed record. Epochs are only compared with an earlier epoch of the same
  record, and both choices lie above all earlier ones.
* The start-up delay and the pause between attempts are no actions: any process
  may step between two actions of another anyway.
* What the watcher of completed responses concludes (`Chunk`, `JSON`, `Finish`) is a
  choice here; `Completion` models how it comes to its verdict.

### Correspondence with the code: `TurnStateCache`

`entries` and `pending` are the two maps, with one action per critical section of
`Cache.mu`. `TryUncached`, `BindRequest` and `Lookup` are the after-auth callback,
`Capture` is `InterceptResponse` or the stream's first chunk, `ObserveEvent` and
`CaptureEvent` are the two sections of a WebSocket event, and `Complete` is
`HandleRequestComplete`. `tries`, `current`, `done` belong to the host.

### Correspondence with the code: `VerifiedTickets` and its refinement

Per key the abstract specification has a plan, a round (`none`, `sound` or
`doubted`) and a ticket. Withdrawing a ticket or changing a plan casts doubt on the
round in progress; only a sound round issues, a version is issued once, a request is
given what is its key's ticket at that moment, and nothing begins, is issued or
given after `Close`. `PrewarmRefinement` maps a record's value to the ticket, the time
its `running` flag is on to the round (queued or in a worker's hands alike), the
history variable `doubted` to the doubt, `version` to `issued` and `carried` to
`given`. Epochs do not appear in it: that they are a correct way to carry the doubt
is what the refinement shows. A retry of one round, a full queue, a withdrawn key
that comes back with its old job still queued are all stutters or one step.

### Correspondence with the code: `Interceptor`

One action is one call of a callback into one store; for `Bind` two, its eligibility
check and its decision. `tries[q]` are the attempts of a request with what
each was sent with, `asking[q]` is where the after-auth callback stands, `answer[q]`
the response callback in flight. `Respond` begins `InterceptResponse` (`http`),
`InterceptStreamChunk` for headers (`init`) or for data (`chunk`), or
`ObserveWebSocketResponseEvent` (`event`); `Headers`, `Body` and `Capture` are its calls
in the code's order, each kind making those that the code makes; `CompleteCache` and
`CompleteEngine` are `HandleRequestComplete`. An answer names the attempt it belongs to,
which no store is told.

Abstractions: `Discover`, `Publish` and `Expire` stand for what the stores do on their
own; a lookup that misses and a capture that is refused are choices wherever ages,
plans or bounds decide; requests are younger than two hours; attempts in a format
other than `codex` touch neither store and are left out.

### Correspondence with the code: `Completion`

`c` is the `Completion` object; `Feed`, `consumeLine`, `consumeEvent`, `JSON` and `Finish`
are translated operation by operation, with the byte limits; `Feed` runs over the pieces
between line ends (`LinesOf`), each turn of its loop being `FeedPiece`. A text is a sequence of
symbols of one byte each: line ends, a carriage return, a space, `data:`, and one
symbol for what a JSON document says, or two halves, so that a document may span data
lines. `Chunk` delivers any number of symbols, so that every cut of a body occurs;
`Document` delivers a document whole (`JSON`, as for a WebSocket event). The reference
reads the whole text line by line, without state.

### Correspondence with the code: `ProbeClient`

An action is one host callback, one file read, or one critical section of
`Client.mu`. `op[w]` is what a worker or the scheduler is doing: `cached`, `list`, `store`
and `lookup` are `authIndex`, `runtime`, `file` and `config` the three reads of `resolve`,
`send`/`sent` the probe between its two resolutions, `guard`, `listAll` and `storeAll` the
beginning of `DiscoverAccounts`. A saved identity (`content`) is a record of a workspace,
which stands for `account_id` and plan, an optional route and an optional header; the
configuration (`config`) has a route, a header and whether the client cloaks. `RouteOf` and
`AgentOf` merge them as `resolve` does. A scope is what the code hashes (line 233) and nothing
else: the account asked for, workspace, route and header. It does not tell whose
token was read, so that two members of one workspace may agree in all but their name,
and contents that return give the scope they gave before. `owner` stands for the token.
The host moves indices between accounts, disables accounts and changes identities
and configuration, also back again, between any two actions. Two history fields
record what the properties are about: `moved`, that the index changed hands between the
two callbacks of one resolution, and `actual`, what the host has had since this
resolution of a probe began. Left out: parsing of JWTs and headers, and how an answer is
classified.

### Correspondence with the code: `PluginRuntime`

`owner` is the holder of `lifecycleMu`, `api`/`open` are `stored_host` and
`hostCallbacksOpen`, `stopped` is `runtimeStopped`, `published` is `runtime.plugin`. A plugin is
named by the number of the call that built it; `config`, `closed` and `threads` are
indexed by it. A lifecycle call waits for the mutex (`lock`), then goes through
`publish`, `close`, `join`, `start` and `drain`, as far as its kind makes these steps;
`join` is the wait in `Engine.Close`, `drain` the wait for the gate's writer lock in `init` and
`shutdown`. A goroutine of an engine or of a foreground callback runs, waits at the
gate (`await`) or is inside the host (`host`); no reader passes the gate while a writer
waits. `Reserve` is a probe's draw from `sharedProbeBudget`. What the callbacks do in the
plugin is left to the modules above.

### What the host is assumed to do

* The attempts of one request run one after another, and `Complete` does not run
  concurrently with a bind of the same request. Responses may come at any time.
* Request IDs are unique between completed executions (the comment in `Bind`).
* For liveness only: a callback into the host returns. The code cannot enforce it: a
  context is checked around the synchronous native call but does not preempt it
  (`cmd/plugin/prewarm_host.go:27-32`, `docs/proxy-pool-design.md:105-115`), and a host
  callback that never returns blocks shutdown.

## 3. Runs

All runs are exhaustive. The state counts are TLC's distinct states.

| Run | Instance | States | Shows |
|---|---|---|---|
| `watchdog` | 1 key with two identities of its plan and 1 key the engine does not serve, 1 request with any number of attempts, 1 worker, clock to 1 | 1.0 M | late, repeated and reordered responses never revoke a newer ticket (`NoLateBlame`); a round overtaken by a revocation never publishes (`PublishesFresh`); the engine implements the abstract specification (`ImplementsVerifiedTickets`) |
| `tables` | 1 key, 2 requests, table of 1, observations expire after 1, clock to 2 | 1.8 M | the table keeps its bound, tombstones included (`RequestsBounded`); a revoked version is never injected again (`RevokedStaysOut`) |
| `rounds` | 2 keys of one account, 2 workers, 2 proxies, 2 attempts, budget of 3 | 2.7 M | tickets are qualified under one identity (`TicketsQualified`), the preferred proxy is usable (`GoodProxyUsable`), Close is final (`ClosedIsFinal`), types |
| `liveness` | 2 accounts that come and go, room for 1, queue of 1, one identity | 76 k | the flags account for the jobs (`JobsAccounted`), no key goes back to passive captures (`ManagedForGood`), rounds end (`RoundsEnd`), due keys are served although stale jobs fill the queue (`DueKeysServed`), Close completes (`CloseCompletes`) |
| `rebind` | as `watchdog` | - | a disagreement of comment and code, see below |
| `passive_cache` | 2 requests, one of them retried, 3 passive keys and 1 verified-only, room for 2 states and 1 binding, clock past the lifetimes | 1.6 M | attribution (`LatestAttemptOwnKey`), completion (`CompletedStaysOut`), bounds (`CacheBounded`), lifetimes (`FixedLifetime`) and eviction (`OldestEvicted`) of the passive cache |
| `runtime` | 2 host goroutines, 3 lifecycle calls, 1 foreground callback with 1 host call, engines of 1 goroutine, a configuration with and one without an engine, clock past the window | 0.4 M | one engine at a time (`OneEngineLives`), no engine left behind (`LifecycleSettled`), no closed plugin is handed out (`NeverServesClosed`), nothing after shutdown (`ShutdownFinal`), the host's API outlives every call into it (`HostStable`), one budget (`BudgetShared`), every call returns (`CallsReturn`) |
| `completion` | 12 kinds of lines, up to three of them and a remainder, every cut into chunks; sequences of up to 4 documents; events of 4 and probe bodies of 12 bytes | 0.1 M | verdicts do not depend on the cuts and follow the whole text (`VerdictOfWhole`, `ProbeAgrees`); documents are judged one by one (`EventsJudged`) |
| `client` | 2 accounts of one workspace, 1 index, 2 saved identities and 2 configurations, 3 changes of the host, 1 caller beside the scheduler | 1.3 M | whose token a probe can carry (`OwnCredentials`), what the two resolutions around a probe establish (`AcceptedUnderScope`), the index cache recovers (`IndexRecovers`) |
| `interceptor` | 2 keys, 1 request with 2 attempts, 2 ticket versions | 4.0 M | the paths do not mix (`VerifiedOnly`), visible refutations revoke (`RefutationsRevoke`), completion leaves nothing (`CompletedLeavesNothing`) |
| `interceptor_event`, `interceptor_retry` | as `interceptor` | - | two disagreements of documents and code, see below |

**Why the bounds are enough.** Every property speaks of one key or of two
neighbours in a table, and the interesting cases need: one round that is overtaken
(one worker), two rounds that share a pool (two workers, two proxies), a stale job
beside a due key (two accounts, queue of one), two attempts with different tickets
(one request, two versions), an entry that expires while another competes (table
of one), two states of different age and a third that needs room (two entries, three
keys), a lifecycle call that waits for another one and a third that follows (three
calls), and a change of identity or configuration that is taken back, beside a move of
an index (three changes). The instance of `client` has accounts with equal files, and files
that come to the same route under another configuration. In it a probe does go out with
another account's token, is accepted after a change and its reversal, and is
sent under an identity whose parts were never there at the same time. Each mutant is a plausible bug that the
same instance catches, which shows that the instance reaches the case. The bounds
that only limit the search are `MaxTime`, `MaxTries`, `Answers`, `MaxVersions`,
`MaxCalls`, `MaxHostCalls`, `MaxChanges`, `MaxDocuments`, `Streams` and
`Documents`; the others are configuration limits at their smallest useful value. The
budget is as small as the run allows: exhausted budgets are part of every run. Workers
(`rounds`), requests (`tables`) and keys (`interceptor`) are interchangeable, so that
these runs, which have no liveness property, use symmetry.

Two bounds are part of what is claimed:

* `watchdog` keeps the clock below `PendingTTL`: after two hours `schedule` purges
  the entry of a request that is still active, and its next bind observes again.
  `NoLateBlame` is therefore claimed for younger requests only. Section 4 proves that
  this purge is the only way to break it.
* `client` checks `IndexRecovers` in automatic mode only. With explicit accounts
  nobody reads the directory again as long as every cached index still names
  something, so that a stale one stays until the plugin is replaced.

What the two resolutions around a probe do not establish is stated by the properties
of `client`, not hidden by its bounds:

* The credentials callback answers for an index, and the scope does not tell whose
  file it was. If the index passes to another account between the two callbacks of a
  resolution, and that account has the same workspace, plan, route and headers, its
  token is sent under the expected scope. `OwnCredentials` says that nothing but
  such a move does it; a cached index, however old, does not.
* The second resolution reads what is there after the answer. A route or a plan that
  changed and changed back before then hashes as it did, and the result is accepted.
  `AcceptedUnderScope` therefore speaks of two periods, from the beginning of the probe to
  its sending and from its answer to its acceptance, and not of the time between.
* A resolution reads the saved identity before the configuration. The parts of the
  expected identity may be of different instants of one period.

The documents ask for the same account's "unchanged formal exit"
(`docs/proxy-pool-design.md:116`) and for a match of identity and scope (`README.md:123`).
The code compares scopes, and keeps these promises in the sense of the two properties.

**Fairness.** `FairSpec` of the engine (`liveness`): weak fairness of each worker and of
the scheduler, since a goroutine that can run does, a probe ends at the latest by its
timeout, and the ticker keeps ticking; strong fairness of the scheduler's exit,
because a `select` with the ticker and the closed context both ready does not pick
the ticker for ever. Nothing is assumed of requests, of discovery results, of probe
outcomes, of the clock or of Close. `FairSpec` of the runtime (`runtime`): weak fairness of
the steps of lifecycle calls that have arrived, of the engine's goroutines and of
callbacks, which includes that Go hands the locks over in turn; no call has to
arrive. `FairSpec` of the client (`client`): the scheduler goes on and discovers again, and
is answered infinitely often where it asks again and again; callers need not make
progress. All of them assume that a callback into the host returns.

**Deadlock** is checked. It cannot occur in the engine and the client, as
identities may always change and answers may always come; that goroutines do not
wait on each other for ever is what `RoundsEnd`, `CloseCompletes` and `CallsReturn`
show. In `runtime` a deadlock would be a lifecycle call and goroutines waiting on each
other. `completion` stops at the end of its text, so that it is not checked there.

### Disagreements of documents and code

**`rebind`.** `Bind` promises in its comment (`engine.go:516-520`), as does
`docs/proxy-pool-design.md:138-139`, to suppress the watchdog once an active request
ID is bound again. The code suppresses it if the earlier bind left an entry in
`requests`. A first attempt that found *no* ticket leaves none: TLC shows a request
whose first attempt misses, whose second attempt is given a ticket and an observer,
and a late response of the first attempt that revokes this ticket although it never
carried it. The ticket that is lost is replaced by a new round, so that the effect
is a needless renewal. What the code does guarantee is `NoLateBlame`: an attempt
that carried an *older* ticket never revokes a newer one.

**`interceptor_retry`.** The other way round: a first attempt carries a ticket, and the
retry never reaches `Bind`, since it takes the passive path (`interceptor.go:64`) or has
no usable key (`interceptor.go:49`). The first attempt's observer stays on, and the
answer of the retry, which carried no ticket, revokes the ticket.

**`interceptor_event`.** `README.md:124-126` and `docs/proxy-pool-design.md:134-135` say that
visible plan mismatches revoke the ticket. `ObserveWebSocketResponseEvent` parses the
event's plan but gives the engine the state alone (`interceptor.go:111`), so that an
event with another plan leaves the ticket in use. For the headers of HTTP
responses and streams the promise holds (`RefutationsRevoke`).

### Answers of earlier attempts in the passive cache

`StoreResponseForRequest` stores under the latest binding of the request, and a
test demands it (`TestCacheUsesLatestBindingAndRejectsUnboundResponses`). A late
answer of an earlier attempt thus goes to the key of the later one.
`LatestAttemptOwnKey` is about answers of the latest attempt; entries of late ones
are marked in the model.

## 4. Proofs

All of these are proved by TLAPS for any finite sets of accounts, models and
keys, any sets of requests, workers, callers and goroutines, and any values of the
limits that satisfy the named assumptions (`EngineAssumption`, `PoolAssumption`,
`BudgetAssumption`, `CacheAssumption`, `RuntimeAssumption`, `InterceptorAssumption`,
`ClientAssumption`, `CompletionAssumption`), which only state types, positive bounds and
that the values for "nothing" are not members.

| Theorem | Module | Argument |
|---|---|---|
| `TypeCorrect` | `PrewarmProofs` | one lemma per action; the queue's length bound uses that `Scan` picks no more keys than there is room for |
| `TicketsQualifiedHolds` | `PrewarmProofs` | invariant `TicketInv`: beside the property, what each worker holds is qualified as far as its round has come (`WorkersQualified`): after `describe` the scope agrees with the plan, after the harvest the state has the plan's family and was harvested under that scope, after the verification also verified under it. `Publish` then compares the plan with the current one |
| `GoodProxyUsableHolds` | `PrewarmProofs` | on the pool alone: success clears the back-off before it prefers a proxy, failure of the preferred one un-prefers it |
| `JobsAccountedHolds` | `PrewarmJobProofs` | invariant `JobsInv`: the property is inductive with the types. Counting is done by one lemma per way a job moves: enqueued, taken, finished, or not at all |
| `PublishesFreshHolds` | `PrewarmJobProofs` | invariant `FenceInv`: every job in the queue or in a worker's hands has an epoch not above its record's, and strictly below it if its key lost a ticket or its plan during this round; no record is ahead of the engine's epoch, and only running rounds are in doubt. It needs `JobsInv`, since a record is reset to epoch 0 only when no job of its key is left |
| `ClosedIsFinalHolds` | `PrewarmJobProofs` | from the types; each effect tests `closed` in its own critical section |
| `RequestsBoundedHolds` | `PrewarmJobProofs` | cardinality of the tracked requests: only `Bind`'s decision adds one, and only below the bound |
| `RevokedStaysOutHolds` | `PrewarmJobProofs` | `VersionInv`: a revoked version is neither a record's ticket nor above the engine's version, two keys never hold one version, and `Bind` reads the ticket in the section that hands it out |
| `ManagedForGoodHolds` | `PrewarmJobProofs` | `OwnershipInv`: a record's key is owned, and ownership only grows or is replaced by that of all models |
| `NoLateBlameHolds` | `PrewarmJobProofs` | under `[][KeepsActive]_vars`: no step takes the observation of a request away while one of its attempts is under way. By `RequestsKeepActive` only the purge of `Scan` can do so, of an observation older than `PendingTTL`. Invariant `BlameInv`: a request without an entry has been given no ticket, and one that is observed none but the version it is observed for (`Watched`) |
| `NoLateBlameEarly` | `PrewarmJobProofs` | without the condition, as long as `now <= PendingTTL`: no observation is old enough to be purged. This is the case that `watchdog` checks |
| `Implements` | `PrewarmRefinementProofs` | invariant `RefinementInv`, the conjunction of `FenceInv`, `TicketInv`, that versions never run ahead (`Versioned`) and that a busy worker's job is accounted for (`BusyHasJob`); one step per action, each of which is a step of `VerifiedTickets` or a stutter. A publication is `Issue` because by `FenceInv` a doubted round's epoch is behind |
| `TypeCorrect` | `CacheProofs` | part of `Inv` |
| `LatestAttemptOwnKeyHolds` | `CacheProofs` | `Inv` adds that a binding names the key of the request's latest attempt (`BindingsCurrent`) and that callbacks belong to attempts that were made (`CallbacksOfTries`) |
| `CompletedStaysOutHolds` | `CacheProofs` | `BindingsCurrent` also says that a completed request has no binding |
| `FixedLifetimeHolds` | `CacheProofs` | purging and lookup are one critical section |
| `CacheBoundedHolds` | `CacheProofs` | the entries that survive eviction each have fewer than `max - 1` newer ones; a finite set totally ordered by age has at most that many such elements, shown by picking the oldest survivor |
| `OldestEvictedHolds` | `CacheProofs` | eviction by the number of newer entries agrees with eviction by age (`EvictionByAge`): what is newer than a younger entry is newer than an older one too |
| `BudgetSharedHolds` | `RuntimeProofs` | `BudgetHistory`: the list that the budget keeps is the end of the history of admissions, and what it has dropped is older than the window. The admissions of the last hour are then among the kept ones, whatever limit the previous engine had |
| `TypeCorrect`, `AcceptedUnderScopeHolds` | `ClientProofs` | invariant `Inv`: while a probe is resolving, its history holds what the host has now, and the file it has read is that of its owner in one of the noted states (`Seen`). At the end of the resolution that state and the present one are the two the property asks for (`Justified`); a change in between only adds to the history |
| `OwnCredentialsHolds` | `ClientProofs` | part of the same invariant: between the two callbacks the index is the account's or has moved (`Own`). It holds of any cache, since the runtime callback's answer is compared with the account |
| `TypeCorrect`, `VerdictOfWholeHolds`, `EventsJudgedHolds`, `ProbeAgreesHolds` | `CompletionProofs` | see below |
| `TypeCorrect`, `OneEngineLivesHolds`, `LifecycleSettledHolds`, `NeverServesClosedHolds`, `ShutdownFinalHolds`, `HostStableHolds` | `RuntimeProofs` | one invariant `Inv`: the mutex (`OwnerInv`), numbers of calls that have not published are fresh (`SerialsInv`), what has been published, closed and joined at each stage of a call (`StageInv`), which engines may have goroutines (`EnginesInv`), and when the gate is open (`GateInv`). The properties are read off from it, the last from the gate's drained readers |
| `TypeCorrect`, `VerifiedOnlyHolds`, `RefutationsRevokeHolds`, `CompletedLeavesNothingHolds` | `InterceptorProofs` | invariant `IInv`: what the after-auth callback has done at each of its stages (`CallsOrdered`), bindings are those of passive attempts (`BindingsPassive`), each kind of response makes its calls in order (`AnswersShaped`), two keys never hold one version (`VersionsUnique`), a watched request is the one that is observed (`WatchedObserved`), and what an answer has already told the engine has revoked (`HeardRevokes`). The last property says nothing until the answer is through; `HeardRevokes` is what it is on the way |

**The observer of responses.** The functions of `Completion` recurse over a text, along
its symbols (`LinesOf`), its pieces (`Feed`) or its lines (`EventAt`). They are written as
recursive functions, whose results are described by three lemmas: a recursion has a
result (`RecursionExists`), two recursions by one rule agree (`RecursionUnique`), and a
set of texts that contains the empty one and is closed under one more symbol contains
all (`TextInduction`). These rest on `Induction`, a first-order form of induction over
the numbers that follows from the well-foundedness of the finite subsets of a set. Then

1. `FeedAppend`: reading a chunk with one symbol more is reading the chunk and then
   `Byte`. It needs that the limit is tested on the whole line (`LongerPiece`) and that a
   line end after a piece is a byte of its own (`EndedPiece`).
2. `FeedConcat`, by induction over the second chunk: two chunks read like one, wherever
   the cut is. The inductive invariant `IInv` thus says of a body, besides types, only
   `c = Feed(NewCompletion, Delivered)`; documents are judged by `EventsJudged` itself.
3. `FeedAgrees`, by induction over the text: the observer agrees with the lines
   (`Agrees`). It is malformed if and only if they break, else it holds the unfinished
   line and the open event, and its two flags are what the lines said. The step for a
   symbol (`CharacterAgrees`) and for a line end (`LineEndAgrees`) rest on `EventAtSame`: an
   event depends on the lines up to its own.
4. `FinishFeed`: the end of the body is two more line ends; it needs that nothing is
   kept of an unreadable text (`FeedTidy`).

**Model-checked only.** The liveness properties (`RoundsEnd`, `DueKeysServed`,
`CloseCompletes`, `CallsReturn`, `IndexRecovers`) are out of the prover's reach. The three
properties that documents claim and the code does not keep are refuted by TLC. Every
other invariant and action property of the passing runs is a theorem; for `NoLateBlame`
the theorems name the condition under which it holds.

## 5. Not modelled

* Probe transport, SOCKS dialling, host-config path checks, C ABI glue: input and
  output without protocol state.
* Configuration defaults, validation and YAML decoding: sequential, covered by unit
  tests; their results are the assumptions on the constants.
* In the probe client the parsing of JWTs and headers, the request that is sent and
  the classification of its answer: the engine sees one of four outcomes, each of
  which is an action there.
* Crash and restart: nothing is persisted.

## 6. What is left

1. `Implements` covers safety. An abstract liveness promise (a served key without a
   ticket is given one if probes succeed often enough) would need fairness of
   probe outcomes that the code does not have.
2. Observations that are purged while their request is active (`engine.go:224`), and
   the index cache with explicit accounts: both are behaviours of the code that no
   document promises otherwise.
3. Larger instances of `runtime` (several goroutines per engine, configurations of
   different limits together with a clock) take longer than a run should; the
   theorems of `RuntimeProofs` cover them, except for `CallsReturn`.
