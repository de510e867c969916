# A TLA+ verification of Eidolon V4

Eidolon V4 (`package.json`: a monorepo of Rust crates, TypeScript packages and
Solidity contracts) is the runtime around an LLM agent: an HTTP gateway and an
MCP server in front of model providers, an agent "soul" that guards actions, a
storage layer, sensors and DeFi wrappers, a trading vertical and contracts. This
directory models the parts whose correctness depends on the order of steps of
several actors: requests, tasks, timers, sockets, transactions and providers.

Contents: [components](#components), [modules](#modules), [runs](#runs),
[proofs](#proofs), [what is not modelled](#what-is-not-modelled),
[plan](#plan).

## Components

| component | state | operations | interacts with | module |
|---|---|---|---|---|
| Gateway runtime (`eidolon-gateway/src/lib.rs`, `HttpInferenceRuntime`) | `consecutive_failures`, `open_until` behind one mutex | `generate`, `generate_stream`, `mark_external_*` | providers over HTTP, output guard | GatewayRuntime |
| Output guard (`eidolon-shared/src/output_critic.rs`) | none | `evaluate` | gateway runtime | OutputCritic |
| Gateway admission (`auth.rs`, `quota.rs`, `rate_limit.rs`) | counters per tenant and day, one bucket per tenant, a mutex each | `authenticate_bearer`, `consume`, `check_and_consume` | `chat_completions` | GatewayAdmission |
| Gateway streaming (`lib.rs`) | two tasks, two bounded channels, a deadline | `invoke_stream`, `stream_completion_response` | provider, SSE client | GatewayStream |
| MCP routing (`mcp-server/src/routing.rs`, `reasoning.rs`) | `ProviderHealth` of three providers, a mutex each | `decide`, `record_success`, `record_failure`, `routed_generate` | three providers, output critic | McpRouting |
| MCP server (`dispatch`, handlers, `memory_persist`) | some ten tokio locks, memory and user files | JSON-RPC over stdio, `save`, `load`, dream task | every tool | McpServer |
| Tool governance (`tools_orchestration`, `telemetry`, `db`) | metrics, SQLite rows, accepted tools | record, accept, reject, promote | MCP server | ToolGovernance |
| ExternalAPIGateway (`toolkit/src/utils/ApiGateway.ts`) | circuit and bucket per domain | `get`, `post` | HTTP servers, timers | ApiGateway |
| PriceService (toolkit) | cache, last known and configured prices | `getBNBPrice`, `getTokenPrice`, `getPrices` | oracle, HTTP | PriceService |
| AsyncLock (`core/src/utils/AsyncLock.ts`) | `locked`, `queue` | `run` | storage adapters, the soul | AsyncLock |
| Agent storage (`AppendOnlyAdapter`, `GreenfieldAdapter`) | files, a remote object store | `save`, `load`, `append`, `readLog` | AsyncLock, file system, S3 | AppendOnlyAdapter, GreenfieldAdapter |
| ToolPerformanceTracker on SQLiteLearningStore | counts in memory, a table or a log | `record`, hydration | SQLite, AppendOnlyAdapter | ToolTracker |
| ActiveLearning (`soul/src/eidolon`) | Q-table, marks, a save timer, a snapshot file, a delta log | `learnFromOutcome`, `saveToDisk`, `flush`, `init` | storage | ActiveLearning |
| Soul memory (`TraumaRegistry`, `EmotionalCore`) | records, mood, debounce timers | `recordTrauma`, `isInhibited`, `stimulate`, persistence | storage, event bus | TraumaRegistry, EmotionalCore |
| EidolonGuard | snapshot, security cache, blacklist, the mind's last decision | `validateAction`, `updateSnapshot`, `addToBlacklist` | soul memory, oracles, simulator | EidolonGuard |
| Event bus, ring buffer | queue, ring, counters | `emitEvent`, `subscribe` | all packages | EidolonBus |
| Resilience helpers | window of verdicts, state, reset timer | `CircuitBreaker.fire` | their callers | Resilience |
| Sensors | sockets, reconnect timers, price caches | `start`, `stop`, `getPrice`, `sense` | WebSockets, HTTP, DEX | MarketStream, PriceSensors |
| Swarm (`EidolonSwarm`) | peers with last contact, rate limits | join, announce, warn, prune, close | BroadcastChannel | EidolonSwarm |
| DeFi package | allowances, token scans | `swap`, `stake`, `lend`, `repay`, `dumpAllPositions`, `scanContract` | the chain, HTTP services | DefiTx, SecurityScan |
| Trading domain | order book, token scores | `place_order`, `cancel_order`, `compute_score` | none | OrderBook, AntiRug |
| Contracts | balances, refunds, roles, badges | external calls, mints | contracts that revert or call back | BatchExecutor, DynamicBadge |
| Numeric engines, UI, scripts, wrappers | little shared state | | | none |

Behaviour that is hard here, and what makes each component correct:

* **Circuit breakers.** The repository has four of them, all with the same
  shape: state that is read and written at one moment, and the guarded call
  awaited between. Verdicts of calls that began before a trip arrive after it.
  Correct means: no call begins while open, an outage is not prolonged for ever,
  failures are counted as documented, somebody decides a half-open breaker.
* **Limiters** that read the clock before their lock, or sleep and then write
  over what others did. Correct means: what is admitted was paid for, one tenant
  never pays for another, and what a refusal promises is kept.
* **Streaming** through two bounded channels, a deadline, and a client that may
  stall or leave. Correct means: chunks in order and complete, one end marker,
  nothing left running.
* **Routing** by three circuits asked one after the other. Correct means: gated
  requests stay local, whatever changes between two questions.
* **Locks.** The lock of the TypeScript packages is handed over without being
  opened; the MCP server has some ten, taken in different orders by handlers that
  call each other. Correct means: exclusion, first come first served, no hand-off
  to a waiter that timed out, nobody waiting in a circle.
* **Persistence.** Saves race new records and each other, a load replaces what
  was changed while it read, an append is torn, a database refuses. Correct
  means: what is unsaved stays marked or scheduled, a tear costs no more than the
  line it tears, what had to inhibit inhibits, an older state does not win over
  an acknowledged newer one.
* **What was read before an await and used after it**: the guard's mode and
  security score, a cached price, a token scan, a count of tools. Correct means:
  the answer is at most as stale as the code intends, and stale only for the
  reasons it has.
* **Re-entrancy**: listeners that emit, contracts that call back in the middle of
  a mint or a batch. Correct means: books and counts agree at those moments too.

`PROJECT.json` lists each hazard at its line.

## Modules

    Breaker                 abstract: what every lock-around-state breaker promises
      ^        ^ implemented by
      |        +-- McpRouting (twice: ollama, external)
      +-- GatewayRuntime --EXTENDS--> OutputCritic
    MC_GatewayServing   = GatewayAdmission + GatewayStream     door and answer
    MC_McpServer        = McpServer + ToolGovernance           handlers and database
    MC_AgentMemory      = ApiGateway + AsyncLock + TraumaRegistry + EmotionalCore
                          + ActiveLearning --EXTENDS--> AppendOnlyAdapter
    MC_AgentWorld       = EidolonGuard + EidolonBus + MarketStream + PriceSensors
                          + GreenfieldAdapter + AntiRug + PriceService + DefiTx
                          + SecurityScan + BatchExecutor + DynamicBadge + OrderBook
                          + ToolTracker + Resilience
    MC_GatewayRuntime, MC_McpRouting, MC_ApiGateway, MC_EidolonSwarm   one module each
    *_proofs                theorems

**Sums.** Components that share no state are checked side by side in one run: a
variable `active`, chosen in the initial state and never changed, names the one
that runs, and the others stay in their first state. The state space is the sum
of theirs and not the product. Every property of such a run is a property of one
component under its name. Where components do interact, one module holds both
(the breaker and its critic, the guard with the simulator and the mind, the
delta log under ActiveLearning, the price feed under its aggregator), or the
interaction is an input of the module that receives it: the guard is told what
oracles and the soul say, a swap what the chain does.

**Shared conventions.** An action is what runs between two awaits (TypeScript), under
one lock (Rust), or in one call of a transaction (Solidity). A clock is a bounded
counter, or what is left of an interval. History variables, named where a
module declares them, are read by properties only and never by a guard.

### Gateway
*OutputCritic*: `evaluate` as a function of the *traits* of a text (empty, too
short, not JSON, contains NaN, contains Infinity); scores are in ten-thousandths,
so `severity * 0.35` is an integer.
*Breaker*: an abstract breaker with neither clock nor lock: `closed`, `open`,
`expired`, the count `run` of failures towards the next trip, the calls in
flight. A call is admitted only when the breaker is not open; `Threshold`
failures without a success trip it; a success closes it; a call may vanish
without a verdict.
*GatewayRuntime*: per request a `stage` ("idle", or the provider it awaits), the
shared circuit, and the last `reply`. `external_circuit_block_reason` and
`mark_external_*` are critical sections and the provider calls lie between them.
`ClientGone` is a dropped handler future: what it had still to do to the circuit
is not done. `ExternalErrorPanics` is the panic of `compact_reason` on a
character boundary. `late` and `predates` are history.
*GatewayAdmission*: `chat_completions` up to the call of the runtime, as four
steps: arrive (authenticate, compare tenants, take the day key), take the quota,
read the clock, take the token. `rewound` records how far late clock readings
moved `last_refill` back: that span is credited twice, which `BucketConserves`
makes precise.
*GatewayStream*: the producer (a live local answer or a buffered external one),
the pump, the client. Content is named by its position. A send waits for room and
fails once the receiver is gone. The deadline is a flag that may be set at any
moment: its order relative to the chunks matters, not the milliseconds.

### MCP server
*McpRouting*: a request asks three circuits in three steps, each under that
provider's lock, then chooses, calls and records. `seen` is what it found;
`Admitted(p)` the requests that can still call `p` or are calling it. `fallback`
is the tensor call after a rejected external answer, which asks no circuit.
*McpServer*: a handler is the set of its possible programs, a program a sequence
of steps (`use` a lock within a step, hold and release one across awaits, save,
call another handler inline). A chain of tools unfolds one tool at a time
(`chain`): its next tool is chosen when the one before it is done, so a chain has
any length, and `MaxTools` bounds it in the run only. Each request is a task; answers go through a bounded
writer; end of input drops running tasks; a kill may come between any two steps,
and a write torn by it leaves a file `load` discards. The files hold numbered
versions, so a save that lands behind a newer one is visible. The dream task is
one more task.
*ToolGovernance*: a call updates the metrics of its tool under a lock and writes
their row without it; a decision counts accepted tools, reads the row, activates,
and files its audit row. Any of the database's calls may fail, and does what the
code does then: a count is 0, a row is not written. `behind` is history.

### Calls to the outside
*ApiGateway*: `Start` is the circuit check and the bucket together; a call with
no token sleeps and `Wake`s later; retries ask nobody again. Tokens are integers.
*PriceService*: each entry point asks its sources in order over the shared cache
entry; a price is the moment at which a source gave it, so staleness is a
difference of clocks.
*PriceSensors*: the Pyth feed with its reconnect timer, its cache without an age,
the consensus of three sources and the probe of depth, whose confirmation
averages the price with itself.
*MarketStream*: sockets are numbered, their events arrive late, and a handler acts
on `this.ws` whichever socket the event is of.
*Resilience*: the sliding window of verdicts, the trip, the reset timer, and
half-open, which lets any number of calls in.

### Storage and memory
*AsyncLock*: `granted` is the moment between `resolve(release)` and the microtask
that starts the task: the lock already belongs to somebody who does not run yet.
*AppendOnlyAdapter*: a log as a value, its lines and whether the last one lacks
its newline. `save` is a rename and is in its clients.
*GreenfieldAdapter*: one key with a remote and a local copy. A save is directory,
lock, upload and local write in the order of the code; uploads are refused, or
arrive after their save was given up; `load` prefers the remote copy. `concurrent`
and `abandoned` are history: the saves that ran beside others, the uploads given
up.
*ToolTracker*: counts are absolute values kept in memory, read back once, and
written through by each `record()` to a row or a log line, whichever the process
could open; `acked` is what a returned `record()` promised, `forgotten` the
reasons the module names for losing it.
*ActiveLearning*: the Q-table between its awaits; a value is the number of the
update that wrote it. `job` is the save in flight. `crash` is a restart:
`loadFromDisk` puts every delta on top of the snapshot. `raced`, `last` are history.
*TraumaRegistry*: a hit inhibits while it is in `recent`, which it leaves at some
moment after its first hour. `initPersistence` and `loaded` are the halves of the
load. `due` is the hit that has to inhibit, `missed` says that something is unsaved
for which nothing was started.
*EmotionalCore*: every event changes one object in place, and `saves` is the queue
of saves at the storage's lock. A save names the object: its content is read by
`stringify` once the lock is held. `merge` ends `loadState`, after which a queued
save still holds the `former` object.

### Agent
*EidolonGuard*: `validateAction` from its entry to its decision, a step between
each two awaits, with all its early returns, beside the refresh of the snapshot,
the security cache with its time to live, the blacklist, and the mind, whose answer
arrives in the background and replaces the last decision. `cortisolHigh`,
`glucoseLow`, oracle answers and simulations are inputs that change at any moment.
`since` remembers since when an emergency holds.
*EidolonBus*: `emit` within a listener queues; the outermost one drains; a listener
that throws ends the draining and leaves the queue.
*EidolonSwarm*: a network of agents over one channel with a message order; joining
announces, an announcement of a newcomer is answered, silence is pruned.

### Trading, DeFi, contracts
*OrderBook*: the slab, its free list and two sorted sides; `place_order` inserts the
taker, the matching loop is a step per fill, and it ends in the book or in the
free list. *AntiRug*: `compute_score` of a report and its TypeScript stand-in; a step
makes one field worse (or unknown). *SecurityScan*: six services asked in turn, any
may fail, the bounded cache with its insertion order. *DefiTx*: transactions of one
account wait in `mempool` and are mined in order; an operation is check, approve,
wait, act, and revoke on failure; waiting may fail although the transaction is mined.
*BatchExecutor*: a batch is a step per call; each keeps the ether, returns some, or
fails; a revert restores the state before the transaction. *DynamicBadge*: `frames`
is the stack of nested mints, `undo` what a revert restores.

## Runs

Twelve runs. Components that share no state are parts of one run, so a property
of such a run is often the conjunction of what its parts promise.

| run | instance | shows |
|---|---|---|
| `gateway_runtime` | 3 requests, threshold 2, window of 2 ticks, strict guard, one passing and one rejected text | `OpenAdmitsNothing`, `ProlongationBounded`, `WindowEnds`, `IsBreaker` |
| `gateway_critic` | 2 requests, all texts, the default guard | violates `MarkersBlocked` |
| `gateway_serving` | door: 2 requests, 2 tenants, key, JWT, anonymous and forged credentials, 2 a day, 2 days of 2 ticks, a price that is no multiple of the refill; stream: 4 chunks, channels of 2 | `LimitersSound`, `QuotaRefusalIsOwn`, `RetryAfterIsHonest`; `AnswerIsWhole`, `DeadlineCutsOff`, `NoTaskLeaks` |
| `mcp_routing` | 2 requests, three kinds of context, threshold 2, cooldown of 2 ticks | `LocalOnlyStaysLocal`, `OpenAdmitsOnlyFallback`, `ProvidersAreBreakers` (two refinements), `CooldownEnds` |
| `mcp_half_open` | the same, cooldown of 1 tick | violates `HalfOpenSingleProbe` |
| `mcp_server` | handlers: all 20 tools, chains of up to 2 tools, 2 requests and the dream task, one kill, end of input or failed write, an answer channel of 1; governance: 4 tools, 2 deciders, 2 recorders, limit 1, one restart, one database fault | `NoCircularWait`, `SavedUnlessRaced`; `GovernanceSound` |
| `api_gateway_circuit` | 2 calls, threshold 2 | violates `OpensAfterThreshold` |
| `agent_memory` | gateway: 3 calls, threshold 3, burst of two; lock: 4 tasks, 2 with a timeout; learning: 2 states, 3 updates, 2 mishaps, rotation above 1 line; registry: 2 contexts, 3 traumas, 1 fault; core: 2 events, 1 fault | `GatewayBooks`; `LockSound`, `FirstComeFirstServed`, `WaitersServed`; `FilesKeepUp`, `MarksLostOnlyByRace`, `InhibitionHolds`, `CoreIsSaved` |
| `learning_restart` | learning alone, without mishaps | violates `RestartKeepsSnapshot` |
| `agent_world` | fourteen parts, see below | one property each |
| `defi_dump` | swaps alone | violates `EmergencyIgnoresSlippage` |
| `swarm` | 3 agents (symmetric), 2 emissions or departures, 2 ticks | `SwarmSound` |

The parts of `agent_world`:

| part | instance | property |
|---|---|---|
| EidolonGuard | one validation at a time, a purchase or an exit, good and bad market, 2 requests or outside events, score valid for 2 of 4 ticks | `GuardSound` |
| EidolonBus | 2 listeners, 4 events, ring of 2 | `LateOnlyByThrow` |
| MarketStream | 4 sockets | `NeverDead` |
| PriceSensors | prices that differ by 7, 18 and 26 % | `SensorsSound` |
| GreenfieldAdapter | 2 savers, 3 saves, 2 faults | `CopyNeverGoesBack` |
| AntiRug | every set of flags, taxes below, above and beyond the limits | `WorseNeverPasses` |
| PriceService | 2 callers, 2 ticks to live, every configuration | `OldMeansOutage` |
| DefiTx | 2 operations of each kind, losses of 1 and 11 % | `LeftoverIsExplained` |
| SecurityScan | 2 scans, a cache of one entry, 3 ticks | `CleanIsFresh` |
| BatchExecutor | 2 senders, up to 2 calls and 2 wei, a balance of at most 4 | `BooksBalance` |
| DynamicBadge | a plain holder and one that calls back, 2 types, 3 tokens, mints nested twice | `CountsAreOwnership` |
| OrderBook | slab of 3, 3 orders, prices and quantities of at most 2, a clock that goes back | `BookSound` |
| ToolTracker | 2 recorders, 2 kinds, 2 entries read back, rotation at 3, 2 missteps | `NothingForgotten` |
| Resilience | 3 callers, window of 4, at least 3 calls, 60 % | `BreakerSound` |

**Why the bounds suffice.** Two actors are the least with which one's late step
falls between two steps of another. Three are needed where a trip (two failures)
must be followed by a late one, where ApiGateway's circuit can open at all, where
a half-open breaker has a probe, a late success and a late failure, and in the
swarm, where a peer is pruned when a third one's message arrives. Channels,
caches, rings, slabs and free lists are shorter than what is put in them, so each
is full at some point and wraps or evicts. Windows of two ticks distinguish "open",
"about to expire" and "expired". One fault (kill, failed write, lost receipt)
may come between any two steps; two are given where a second one meets what the
first one left, such as a torn line. In `mcp_server` two requests meet with every
pair of tools, and with the dream task. Prices, taxes and losses are one value on
each side of each threshold the code compares with. Bounded counters (`Max...`)
let the model go quiet, which is what the saving properties are about; runs whose
models end there do not check for deadlock (`mcp_server` states the absence of
circular waits as its property instead).

### Fairness
* Time passes (`WF(Tick)`): clocks do not stop.
* Timers and microtasks run (`WF(Wake)`, `WF(enter)`), and a task guarded by
  AsyncLock ends (`WF(release)`): `finally { release() }`.
* The tokio runtime schedules both streaming tasks; the stream's deadline comes;
  the provider's request has a timeout of its own, so its body ends or fails.
* In EmotionalCore blocks keep arriving (`WF(quietTick)`: the chain), 60 s pass
  (`WF(ages)`), its timer fires and file operations end.
* Nothing is assumed of clients, of requests that may arrive, of events that
  change a state, or of providers elsewhere; `NoTaskLeaks` needs no cooperation
  of the client.

In a sum the fairness of a part is that of its actions while it is the active one.

### What the violations show
* `MarkersBlocked`: README.md:46 says the guard blocks NaN, Infinity and invalid
  JSON. In the default mode one or two such defects still score at least 0.3.
* `HalfOpenSingleProbe`: routing.rs:183 speaks of one probe; `half_open_probe_sent`
  is never read, so a recovering provider gets every waiting request.
* `OpensAfterThreshold`: ApiGateway.ts:6 and :37 promise to open after N
  consecutive failures; every admitted call resets the count.
* `RestartKeepsSnapshot`: ActiveLearning.ts:737 replays the log "on top of
  snapshot", but a snapshot does not empty the log: older deltas win.
* `EmergencyIgnoresSlippage`: defi.ts:534 says that the emergency sale ignores
  slippage checks; it runs into the one on price impact and is refused.

Other findings need no run: the model contains the behaviour, and a property
names it as its exception. Each exception is a disjunct or a history variable,
which makes the property say that there is no *other* way: `raced` (marks cleared
behind a write), `missed` (a registry's flush that trusts the save in flight),
`unsure` (a core disposed before its load), `abandoned` (uploads given up),
`excuse` (saves of the server that overlap, allowances whose receipt was lost),
`forgotten` (counts beyond what the log keeps), `overspent` and `drained` (batches
that spend what is owed to others, the owner's withdrawal), `stranded` (events
behind a listener that threw), `behind`, `pruned`. PROJECT.json lists the findings
at their lines.

Two observations are about what is not promised. The tensor circuit of
McpRouting can stay open for ever: the guard's fallback calls the tensor model
without asking its circuit, and each failure restarts the cooldown;
`CooldownEnds` speaks of the other two providers. And a client that stops reading
without closing blocks the pump in a send the deadline does not bound;
`NoTaskLeaks` speaks of clients that leave.

## Proofs

TLAPS proves every invariant and every action property the passing runs check,
and the three refinements, for every value of the constants that satisfies the
named assumptions (below). For a component of a sum the theorem is about the
specification of the whole run: each step of the sum is a step of the component
or leaves it alone (`LearningSteps`, `StreamSteps`, ...), so the component's
inductive invariant is one of the sum.

**GatewayRuntime_proofs**: `Typing`, `NothingAdmitted`, `Prolongation`,
`Refinement`. `OpenAdmitsNothing` is inductive given the types: a trip sets
`predates` to the calls then in flight, and `Start` admits none while open.
`ProlongationBounded` counts: `late + |InFlight|` cannot grow while open, because a
failure moves one call from the second term to the first. For `Refinement` every
action is mapped to one abstract action or a stutter.

**GatewayServing_proofs**
* `WholeAnswers`: what was sent, what the two channels hold and what the client has
  seen are, end to end, one prefix of the answer; the end marker is the pump's last
  act. So a client that reads on sees the whole answer and one marker
  (`AnswerIsWhole`).
* `Deadline`: `DeadlineCutsOff` alone is not inductive. `CutOff` adds where the pump
  may be once it has sent a chunk late (at its top or out of its loop, never waiting
  for another one).
* `Limits`, `TenantsAreIsolated`, `RefusalsAreHonest`: `DoorInv` relates each counter
  to the requests under way. `QuotaOK` bounds a tenant's calls of a day by the quota
  and the requests that still hold a reading of an earlier day, the step that resets
  the count being paid by the request that leaves that set; `BucketOK` says that
  what a refusal left in the bucket has grown to the price at the time it named.
  `RefusalsAreHonest` assumes `Price <= Capacity`: rate_limit.rs:32-47 accepts any
  capacity above 0.

**McpRouting_proofs**: `Typing`, `Gates`, `OpenAdmits`, `Refinement`. `Gates` needs
only that `decide` never returns "external" for a gated context, whatever set of open
circuits it is given: hence no interleaving matters. For `OpenAdmits` the argument is
over `Admitted(p)`: a request enters it only at its question, when the circuit was
found closed. `Refinement` maps each step to a move of each breaker (`Moves`): what
it does to `Admitted(p)` follows from where it puts the request (`AdmittedAfter`),
and only a question can close an expired circuit (`AskMoves`).

**McpServer_proofs**
* `Governs`: whoever was allowed to add a tool and has not yet done so is counted with
  the tools in use; together they exceed the limit by at most the number of deciders less
  one, and the faults of the database (`Capacity`). A row that is not `behind` is
  that of the metric in memory, or will be once the one write under way is done
  (`Rows`).
* `HandlersNeverDeadlock` and `MemoryIsSaved`, both from one invariant, `ServerInv`.
  What a task has left to do is a *sound* program (`Sound`): a lock held across an
  await is given back after *calm* operations, which wait for nothing but the locks
  nobody holds across an await; a change of the memory is followed by its snapshot
  and a snapshot by its write. That every program of every handler is sound is a
  lemma per shape of handler (`ProgramsWhole`, `RequestsWhole`, `ChildEndsWhole`,
  `ChainEndsWhole`), and a suffix of a sound program is sound, so each step leaves one.
  The rest relates tasks to locks: whoever owns a lock is a task that will close it
  (`Owned`); a lock's queue holds running tasks that want it, each once (`Queued`).
  Then nobody who holds a lock waits for another that is held, and a circle is
  impossible. `Saved` says who is answerable for what is not on disk: whoever is in
  `owing` has its snapshot or its write still ahead of it, and without one of the named
  excuses there is one writer, whose copy is current or behind somebody who still
  owes.

**AgentMemory_proofs**
* `Books`, `Overlap` and `NeverOpensBelowThreshold` (ApiGateway): with fewer
  concurrent callers than the threshold the circuit never opens. `CircuitInv` says
  that a failure is recorded by a call in flight, which thereby leaves; `BInv` that
  what was spent is what was refilled and what the sleepers still owe.
* `LockSafe`, `Fifo` (AsyncLock): the three invariants of `LockSound` are inductive
  only together. A hand-off keeps exclusion because the queue's head is waiting (so
  holds nothing), and the queue holds waiters once.
* `Marks` and `Inhibits`, with no assumption at all. `MarksLostOnlyByRace` needs to
  know what a write on its way contains (`JobCovers`): a snapshot holds the current
  value of every state outside `raced`, a delta that of every marked one; hence
  clearing all marks is right for the others. `InhibitionHolds` rests on `DueIsKept`:
  what has to inhibit is in the Rust registry, which no load touches, or it was loaded,
  and then it is in the map, which nothing wipes a second time.
* `FilesStayUp`: the spoilt lines of the delta log are at most the mishaps, and one
  less while the last line is torn but legible, since the next entry will spoil
  it (`Legible`, `Owed`); a registry that is quiet has its records on disk
  (`RegistrySaved`).

**AgentWorld_proofs**
* `StreamLives`: `close()` on a socket leaves it closing, so its close event is still
  to come and arms the timer.
* `BreakerStaysSound`: a call that makes the breaker half open carries that state, and a
  verdict recorded in the window is its last.
* `PricesStayYoung`: a cached price is not older than its time to live and the time its
  source took (`CacheYoung`), and a caller that waits holds nothing older.
* `BusDelivers`: events are delivered or wait, never both, and wait in the order of
  emission (`BusInv`).
* `SensorsSense`: what Binance answered is a price the market showed while the
  aggregator was asked (`seen`), and nothing is pending once it answers. Of up to three
  prices one is in the middle (`MiddleExists`), and a source is kept only if it is within
  a fifth of it.
* `CopiesGoForward`: a save that still runs when a later one is called ran beside it, so
  what a copy takes is as new as what it acknowledged, or `concurrent` with it.
* `BookIsSound`: every index is in one place of slab, free list, sides and taker
  (`Places`); each side is sorted, its best order last (`Good`); no bid reaches an ask
  (`Crossed`), also while a taker is being matched, which is on neither side and rests
  only once it crosses nothing.

**AgentMoney_proofs**
* `GuardHolds`: `Sane` says what is known of a request at each of its awaits: the mode
  it read is not older than its start, the score it holds was taken before the
  entry that contradicts it. An await changes the clock, the mode and the lists, never in
  a way that makes this false (`RequestsStay`); `RefreshTimes` ties the refresh timer to
  the last snapshot.
* `CleanStaysFresh`: a clean verdict, under way (`Judged`) or cached (`Kept`), comes of
  a scan begun before its token turned, and a scan takes `MaxScan` at most.
* `WorseNeverPassesHolds`: a report gets worse by steps, each of which adds a flag,
  raises a tax, loosens the liquidity or lists the token; no step raises any term of the
  points.
* `LeftoversAreExplained`: what the router will be allowed once everything is mined is
  what the last approval under way says (`Leaves`); while that is more than nothing, an
  operation is about to use or revoke it (`Owing`) or has its excuse (`Excusing`).
* `CountsAreRight`: the counts are those of the owners (`Consistent`) at every depth of
  nested mints, on the chain and in what a revert would restore (`undo`).
* `BooksAreRight`, `CountsAreKept`: two ledgers over data of any size. What is owed is a
  fold over the senders, what a log holds a loop over its lines, and both are recursive
  functions. The library's induction theorems take the formula to be proved as a
  parameter, which the provers cannot instantiate; `LeastNumber` (a set of numbers that is
  not empty has a least one) follows from the well-foundedness theorems, which do not, and
  is enough: the least number at which an equation fails is shown not to exist. So the
  recursive functions exist and are what their equations say (`SumExists`,
  `ReadExists`), one entry counts once in the sum (`SumChanges`), and one more line adds
  its entry or nothing to what is read (`ReadMore`). The invariants: in a batch, what the
  contract holds is what it held before, what the batch brought and has not used, and what
  was given since (`InBatch`); of each tool that is not in `forgotten`, the store of
  the process and its memory hold at least what was acknowledged, the log also
  without a torn last line, and what waits to be appended is more (`TrackerInv`).

**EidolonSwarm_proofs**: `SwarmIsSound`. Of two open agents the one knows the other,
has pruned it, or is about to be told of it (`Meeting`); that an agent not yet started is
known to nobody (`Strangers`) makes this so for one that starts. What an agent has
forgotten of a peer that hurt it was over a cooldown ago (`Wary`), because a peer is
pruned later than its cooldown ends (`DangerCooldown <= StalePeerTtl`: 30 s and 5 min,
EidolonSwarm.ts:75-77).

**Assumptions.** Bounds, prices and capacities are natural numbers, and positive where
the code divides by them, indexes with them or waits for them: `RuntimeAssumption`,
`CriticAssumption`, `RoutingAssumption`, `AdmissionAssumption`, `StreamAssumption`,
`ApiAssumption`, `ServerAssumption`, `GovernanceAssumption`, `SwarmAssumption`, and in
MC_AgentWorld one per part. Where a property counts callers they are finitely many, but
however many: requests (`RuntimeAssumption`, `RoutingAssumption`, `AdmissionAssumption`,
`ApiAssumption`), deciders (`GovernanceAssumption`), senders (`SendersAssumption`).
`ApiAssumption` wants a bucket that can hold one price, or nobody is ever served;
`GovernanceAssumption` no more samples than calls; `BadgeAssumption` that the zero
address is no holder. `RefusalsAreHonest` states its own. TLC evaluates each in its run.

**Only model-checked**: the liveness properties (`WindowEnds`, `NoTaskLeaks`,
`CooldownEnds`, `WaitersServed`, `CoreIsSaved`), since TLAPS has no ENABLED and so no
fairness; and what the five violating runs show.

## What is not modelled

Text: prompts, JSON, SSE framing, log lines and wording of errors. HTTP and model
inference are nondeterministic answers, errors and timeouts. Configuration parsing
is reduced to the values that result; a threshold of 0, which the gateway rejects
and routing.rs does not, is excluded by assumption. A bucket with a capacity below
the price admits nobody, ever; `RetryAfterIsHonest` is checked
and proved where it does not.

* **Numerics**: causal graphs, LiquidBrain, vector and hyperdimensional search,
  thermodynamics, tensor inference, fixed-point token math and risk formulas are
  floating-point or 128-bit arithmetic in pure functions: outside what these tools
  decide. Where a component takes their result, it is an input.
* **SwarmOrchestrator, ApprovalRevoker, the other DeFi wrappers**: one call to an
  oracle or the chain each, with a table that has one writer; no order of steps to
  get wrong.
* **MCP server**: batch arrays of JSON-RPC (a loop over the same handler), the
  scores and texts of the reasoning tools (their locks are modelled), how a
  generated tool is proposed and compiled; the other tables of the SQLite stores,
  one statement each.
* **Memory**: `pruneMemory` (random eviction above 5000 states), the trade history
  and the other files of ActiveLearning, `manualSave` and `setAutoSave` (called by
  nobody in the repository); windows after the first hour, and a TraumaRegistry
  whose Rust twin is switched off; backups, which are never read; the legacy log of
  EmotionalCore; the log of GreenfieldAdapter, which is that of AppendOnlyAdapter.
* **Agent**: the modes other than emergency, which only bound position sizes;
  positions and leverage; the learning from outcomes, which is in ActiveLearning.
* **DeFi**: native-coin operations, borrow and harvest, which need no allowance;
  route quoting; gas.
* **User interface, examples, scripts, generated code**: no core logic.

## Plan

Done: the modules above, twelve runs, eight proof modules; every safety property a
passing run checks has its theorem. What would come next:

1. An abstract register with overlapping writes, of which GreenfieldAdapter, the
   memory file of the MCP server and ActiveLearning's files would be refinements: their
   invariants name the same exceptions (`concurrent`, `excuse`, `raced`).
2. Liveness of the MCP server: that every request is answered under fairness of its
   tasks, of which `NoCircularWait` is the safety half.
3. Bounds on what the findings cost: how far a batch can overspend, how often a
   half-open provider is asked.
