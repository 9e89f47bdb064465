# A TLA+ verification project for beam-agents

beam-agents runs AI agents as keyed, stateful steps of an Apache Beam pipeline.
An agent that needs a side effect does not perform it: it stages an *intent*,
suspends, and is resumed when the result or the human decision comes back. A
separate process, the *effector*, consumes the intents and runs the tools. Around
the two there are memory tiers, model calls with a replay cache, framework
adapters, a replay tool, and a console fed with telemetry. The hard part is what
happens between them under retries, timers on two clocks, rebalances, crashes,
partial failures, and answers that come late or twice. This project models that,
checks it with TLC and proves part of it with TLAPS.

Paths below are relative to the repository; the Python package is
`src/beam_agents`.

## 1. Inventory

| Component (source) | State it keeps | Operations | Talks to | What is hard | What makes it correct |
|---|---|---|---|---|---|
| Activation engine (`core/dofn.py`, `core/batching.py`, `hitl.py`) | per key: MEMORY, CONTINUATION, LLM_CACHE, PENDING, SEQ, BATCH; TTL, HITL and FLUSH timers | `process` (start, buffer, flush, resume), `on_hitl`, `on_flush`, `on_ttl` | driver, outbox and `.errors`, long-term store | timer deliveries that outlive their mark, two clocks, late and repeated answers | identities never repeat, answers reach their own suspension, every suspension ends, no event is lost or handled twice |
| Activation driver (`core/loop.py`, `core/context.py`, `core/agent.py`) | step cursor, staged intents, traces, upserts | `run_activation`, `act`, `request_approval`, `run_tool`, `call_model`, `build_continuation` | agent code, facade, memory | an attempt fails or is retried after it had effects outside the bundle | ids and spans are functions of (key, seq, step); a failed attempt leaves nothing staged |
| Framework adapters (`adapters/*`) | snapshot, conversation, checkpoint and writes, all in working memory | `__call__`, `_stage_and_suspend`, `_record_incoming`, `append_event`, `put`, `put_writes` | driver; ADK, LangGraph, Pydantic AI | two records of one wait; concurrent tool calls; background saves | a result reaches the framework once, in the place that asked |
| Effector service (`effector/service.py`, `runner.py`, `sources.py`, `sinks.py`, `__main__.py`) | `_claims`, a worker and a queue per partition or key, a semaphore | `process`, `run`, `_worker`, `_on_revoked`, `_drain`, `_abort`, `aclose`, `_with_retry` | Kafka or Pub/Sub, dedup store, tools | crash between phases, cancel at an await, rebalance, stalled worker, full queue | effectively-once invocation, complete before publish, publish before commit, per-key order |
| Dedup store (`effector/dedup.py`) | one record per intent: claim with lease, or terminal result with retention | `claim`, `complete`, `release` (memory, Redis, Bigtable) | effector members | one operation is several server calls; leases run out under a live owner | a claim is exclusive while it lives; only its owner ends it |
| Working and long-term memory (`memory/facade.py`, `compaction.py`, `stores/*`) | entries and their total size; staged records; rows with a seq | `set`, `append`, `delete`, compaction; `save`, `load`, `search` | agent, driver, `on_ttl`, six databases | caps inside a write; flush outside the bundle; zombies | totals are exact, rows never go back in seq, what is saved is found |
| Model facade, replay cache, providers (`model/*`) | breaker, budget, LRU entries, tally | `complete`, `get`, `put`, provider calls | model services | retries, half-open trials, two eviction limits, undecodable bodies | a retried bundle hears the same answers; spend is accounted once |
| vLLM sidecar (`model/vllm.py`) | weakly held handle, engine, loop thread | acquire, build, probe, generate, finalize | DoFn instances of a worker | construction racing acquisition and finalization | one engine, up while anyone holds it |
| Async bridge (`core/bridge.py`) | loop thread, current task | `run`, `stop` | engine and driver | a timeout racing completion | a timed-out activation commits nothing |
| Tools (`tools/*`) | a registry per deployment | `register`, `run_tool`, argument validation | activation, effector | two deployments that disagree; overlapping calls; timeouts | effects only through intents; the status tells whether the body ran |
| Intent outbox and signing (`actions/write_intents.py`, `intent_signing.py`) | futures of a bundle; keys | `process`, `finish_bundle`; `sign_intent`, `verify_intent` | broker | partial publish, paused ordering keys, bundle retry | all out before commit, an attempt's order kept, signatures verify |
| State migration, key sharding (`core/migration.py`, `core/snapshot.py`, `keys.py`) | version of each blob | `migrate_to_current`; `shard_key`, `unshard_key` | engine, snapshots | rollback to older code; retry on another worker | a stamp tells the layout; a shard depends on the key alone |
| Replay (`replay/*`) | — | `build_bundle`, `run_replay`, `compare` | traces, snapshot | several attempts share a (key, seq) | a replay of a recorded attempt reproduces it |
| Console (`console/*`), observability (`observability/*`) | bounded queue, sender thread, SQLite store, SSE mailboxes, pull cursors | enqueue, send, drop, upsert, prune, list, aggregate, publish, poll | pipeline, browser, BigQuery, Kafka | queue full, sender dead at teardown, routes in any order, pages under writes, lost wake-ups | telemetry is delivered or counted; every view agrees with the records |
| Pipeline transform, YAML front end, testing helpers | — | construction, parsing | | | not modelled |

`PROJECT.json` lists every component with its status and the main hazards at
their lines, each with the properties that guard it.

## 2. Modules

| Module | Models |
|---|---|
| `AgentDoFn` | one key of the engine: `core/dofn.py` with `run_activation`, `batching.py`, `hitl.py` |
| `Activation` | what an attempt stages: `core/context.py`, `core/loop.py`, `observability/traces.py` |
| `Replay` | `replay/*`, as a function of every state of `Activation` |
| `ToolCalls` | `tools/*`, the `run_tool`, `act` and `request_approval` of `core/context.py`, `effector/runner.py` |
| `ModelCall` | cache-first calls, replay cache, budget and breaker: `model/facade.py`, `replay_cache.py`, `call_model` |
| `ProviderCalls` | the providers, failure classes, retry delays, and the accounts of a call: tally, traces, metrics |
| `WorkingMemory` | `memory/facade.py` (`Memory`), `memory/compaction.py` |
| `LongtermMemory` | `memory/facade.py` (`LongtermMemory`), the flush of `core/loop.py`, the seq guard, `FlushToLongterm` |
| `StoreLayouts` | rows and prefix searches of the `memory/stores/*`, SQL on a server and SQLite apart |
| `StateMigration`, `KeySharding` | `core/migration.py`, `core/snapshot.py`; `keys.py`; `KeyedState` puts the two side by side |
| `AdapterAgent` | the suspension protocol shared by the three `adapters/*/agent.py` |
| `AdapterHistory` | ADK sessions and Pydantic AI histories, concurrent tools, staging order |
| `GraphCheckpoint` | the LangGraph adapter and `BeamCheckpointSaver` |
| `DedupStore`, `Effector` | the phases of an intent over one partition, several members, a shared store |
| `ClaimProtocol`, `DedupBackends` | the abstract claim protocol, and the three backends call by call |
| `EffectorDispatch`, `PubSubSource`, `ResultSink` | the effector process: dispatcher and Kafka source, Pub/Sub source, result sinks |
| `IntentOutbox` | `actions/write_intents.py`, `intent_signing.py` |
| `VllmSidecar`, `AsyncBridge` | `model/vllm.py` (`_EngineHandle` and its sharing); `core/bridge.py` with the setup and teardown of `core/dofn.py` |
| `TelemetrySink` | `console/_sink.py`, `observability/otlp.py` |
| `ConsoleStore`, `ConsoleQueries` | `console/_ingest.py`, `_store.py`, `_records.py`; `_queries.py` |
| `ConsoleFeed`, `ConsoleSources` | `_app.py` and `_sse.py` up to the browser's hook; `_sources/*` |
| `Collections` | what is left of an ordered collection when entries are taken out; used by the cache, the memories and the write set |
| `Foundations` | lemmas about sums, folds and such collections, for the proofs of several components |
| `AgentDoFnProofs`, `ActivationProofs`, `EffectorProofs`, `ServicesProofs`, `StateProofs`, `RuntimeProofs`, `ConsoleProofs` | TLAPS proofs |
| `MCAgentDoFn`, `MCEffector`, `MCServices`, `MCActivation`, `MCConsole`, `MCRuntime` | small instances for TLC |

Definitions that stand immediately before a definition and have its parameters
(`stale_hitl_off_by_one`) are faulty variants of it. They are used only to show
that a property fails when the code is wrong in that way.

The last four MC modules put several components side by side: a variable `part`
chosen in the initial state says which of them runs, the others stand still. The
parts share no state and their state graphs add up, so one TLC run answers the
questions of all of them at the price of their sum.

### AgentDoFn

One key. Beam serialises the callbacks of a key and commits a callback's state,
timers and outputs together, so one `process` or `on_*` call is one action. A
cell or timer that may be absent is a set of at most one value. Blob contents are
abstracted to the number of the commit that wrote them; an intent is its id
(`<<seq, step>>`), its expiry and two history fields (which emission made it, in
which life of the key). `reports` is what the last step said on `.errors` or
did to a suspension; `handled`, `emissions`, `outbox` and `epoch` are history.

- `Start`, `Buffer`, `BufferOverflow`, `Resume`, `Orphan` are `process`; the
  agent's behaviour inside an activation (`Succeeds`) is any number of steps up
  to a bound, intents staged at any of them with any of the allowed TTLs, and
  `Complete` or `Suspend`. A failure (`Fails`, `FailedFlush`) is a timeout, a
  budget trip or any other raise.
- `OnHitl`, `OnFlush`, `OnTtl`, `OnTtlRetry` are the timer callbacks. A real-time
  mark first becomes a *delivery under way* (`DispatchHitl`, `DispatchFlush`):
  from then on `clear()` and `set()` no longer stop it, which is the race the
  stale-handle guard exists for.
- `Tick` and `AdvanceWatermark` are the two clocks, independent of each other.
  `WatermarkFollowsWall` restricts the watermark to not run ahead.
- An event time may be anything up to the current wall time.

### Activation, Replay

`Activation` looks inside the step that `AgentDoFn` takes as one: the agent is a
deterministic program, a script for its start and one for each resume, whose
operations (`llm`, `tool`, `act`, `approve`, `note`, `raise`) may depend on the
model's last response or on memory. A step of the module is one attempt of the
program, which commits, suspends, fails, times out, or is lost and retried; it leaves
intents, spans and trace events with the ids the code derives. `Replay` adds no
state: `verdict` is what the tool says of an attempt in the current state,
and the invariant asks it of every attempt so far in every state.

### ToolCalls

Two registries, the pipeline's and the effector's, filled with declarations
independently. `run_tool` calls overlap and return in any order; an intent goes
to the effector, is validated against *its* registry and runs, is rejected or
times out. `bodies` records every run of a body and is read by no code: the
published status is compared with it.

### ModelCall, ProviderCalls

An activation attempt has its frozen clock, its working copy of the replay cache
and its token budget; the circuit breaker is shared by the attempts of all keys
on the worker. `Hit` and `Miss` are a call up to its first await; `Respond` and
`AttemptFails` are what follows the provider's answer. An attempt runs on the
facade (breaker, retry) or on `call_model` (neither). `Commit` either completes
(the next attempt has a new seq, so other cache keys) or suspends (the resume
walks the same seq again); `Abandon` is a failure, a timeout or a lost bundle,
after which the same seq is walked over the committed blob. A response is the
number of the provider call that gave it; its size in the blob and its tokens are
one number. `streak` and the `heard`, `delivered` and `evicted` fields are
history.

`ProviderCalls` opens the provider: what each of the four accepts, rejects and
classes as retryable, the delay before the next attempt with `Retry-After`, and
the books an activation keeps of its calls on every exit path (cache, budget,
tally, `LLM_CALL` events, counters).

### Memory

`WorkingMemory`: entries are kept least recently used first, as in the code's
dict; a ring is the sequence of its items' sizes. What an eviction loop leaves is
written as the entries at the positions it keeps (`Picked`), the positions as the
longest run the loop's condition allows: the loop in one formula, without a
recursion the prover could not expand. The replay cache of `ModelCall` and the
upserts of `LongtermMemory` are written alike. A write checks, compacts and
looks again, commits and runs the soft-cap pass, all in one action, because the
code has no await in between; the summarizer awaits a model and is two steps.

`LongtermMemory`: the flush is outside the Beam transaction. An attempt stores
its records one by one and may fail after any of them, its bundle may be retried,
and a worker taken for dead goes on flushing beside the retry (a zombie). The
demotion of an expiring key is an attempt like any other (`Expire`, `CommitWipe`).
There are three kinds of store. Four backends check the seq and write at once; SQL
reads first and holds the row's lock until it writes (`SqlSelect`, `SqlWrite`);
SQLite drops `FOR UPDATE` (sql.py:8), so there another attempt may read or write in
between. `RowsNeverRegress` says what that costs: on SQLite a row goes back under a
save that compared its seq with a row since rewritten, and in no other way.
`CommittedIsStored` is claimed for the other stores only.

`StoreLayouts`: entities are byte sequences and keys sequences of code points,
because the question is whether joining, escaping and encoding them loses
anything; the key set holds each layout's delimiters, escapes and wildcards. The
`LIKE` of SQLite ignores the case of ASCII letters (`cased`), so there `SearchIsTheScan`
claims the keys that start with the prefix in some case.

### StateMigration, KeySharding

A blob has a *layout* (the version its fields really have) and a *stamp* (the
version it claims). Binaries are rolled forward and back at any time; a binary
migrates a blob only when it reads it. Physical keys are sequences of symbols, so
that a logical key may contain the delimiter.

### Adapters

`AdapterAgent`: `continuation` holds what the engine keeps (`ids`) beside what the
adapter's snapshot says (`pending`, `results`); a framework run is the set of calls
it leaves pending. `AdapterHistory` opens the run: the model's calls execute
concurrently and finish in any order, those with an effect are staged, the
conversation is trimmed and filtered, an activation may fail. `GraphCheckpoint`
runs a graph in supersteps of tasks; the framework (external) saves checkpoints
and task writes in the background, in either order.

### DedupStore, Effector, ClaimProtocol, DedupBackends

One partition of the intents topic, a group of members and the store they
share. A step goes from one `await` to the next. The grant of a claim
(`ClaimGranted`) and the worker's reading of the reply (`Begin`) are separate
steps; between the reply and the tool's invocation the code has no further await,
so `Begin` does both. Failed calls may have taken effect (`PublishFails`,
`StoreFails`). A release that fails during revocation has the effect of `Crash` on
the state kept here. `Evict` is the broker giving up on a member that does not
know it and goes on. `Timely` is the configuration rule
`lease_ms > tool_timeout_ms` (`effector/config.py:354`) read as an assumption: the
clock does not run a lease out under a worker that has not reached its
`complete`. Without it workers stall at will. `OwnerOnly` selects Bigtable's owner
predicate, which does not look at the lease. `lapses` counts the claims granted
over a record that had run out.

`Effector` takes a store operation as one step. That this is a fair picture is the
refinement: `ClaimProtocol` says what a store promises (at most one owner; changes
hands only after release or lapse; only the owner ends it), `DedupBackends` has
the real calls (Redis' `SET NX PX` then `GET`, Bigtable's versioned cells,
conditional mutations with a time read earlier and re-read after a predicate hit),
overlapping, late, failing, with callers that die, and `KeepsTheProtocol` is
`ClaimProtocol!Spec` under the mapping of rows to owners. Clocks of different
Bigtable callers are assumed to agree, which the code relies on too.

### EffectorDispatch, PubSubSource, ResultSink

The process around the phases: one dispatcher, a queue of one per partition, a
task per worker with its permit, a rebalance listener, `SIGTERM` with drain and
abort. What a worker does with an intent is abstracted to its three outcomes:
success and a commit (`Processed`), a raise that ends the worker (`Raised`), and a
return without a commit when `complete` no longer finds the claim (`ClaimLost`,
service.py:443-452), after which the worker goes on and the next commit passes that
offset. `handled` holds what was brought to its end and what was passed over in this
way, and `NothingSkipped` is about it; whether such an intent is lost is the
question of `Effector`, whose `NoIntentLost` needs `Timely`. On Pub/Sub a worker is
per ordering key, delivery is repeated when the ack deadline passes, an ack releases
the key's next message, and a lost claim (`ClaimGone`) acks nothing, so there the key
waits. `ResultSink` is several workers over one lazily started producer, whose
`start` may fail and spends an attempt (`StartFails`), or over an ordered publisher
that pauses a key on failure, with the retry budget of `_with_retry`.

### IntentOutbox, VllmSidecar, AsyncBridge

A bundle signs, serialises and publishes under ordering keys and awaits every future
in `finish_bundle`. The runner splits and orders the uncommitted intents as it likes
(`TakeBundle`), and anew when a bundle failed, so a key's intents may come in several
bundles and in another order on a retry, as write_intents.py:22-28 says; a message
remembers only which messages of its own attempt it was published after (`after`).
One worker at a time has the bundle, with a client of its own; clients torn down may
still send (`orphaned`). The client (external) sends a key's messages in order and
pauses the key on a failure. `VllmSidecar` has the DoFn instances, the weak registry,
the coroutines on the engine loop and the finalizer; the shutdown it starts takes its
time (`ShutDown`), and meanwhile another instance may acquire a new handle and build
its engine. `AsyncBridge` has the Beam thread, step by step through `run`, against
the loop's queue of handles in the order asyncio runs them, because whether a
coroutine is cancelled before it starts depends on that order.

### Console

`TelemetrySink` is the Beam thread and the sender thread around a bounded queue (console
sink and OTLP exporter, which differ in teardown). `ConsoleStore` receives the records
of a given trace by routes that lose different fields, in any order, again and again,
while retention deletes. `ConsoleQueries` has a reader that during that walks a list
page by page, or opens a page made of several statements, the overview or an
activation's detail: `reader()` opens no transaction, so each statement reads the store
as it is when it runs (`NextStatement`, `ReadEvents`), and the page is `torn` when a
write or a sweep came between two. `ConsoleFeed` goes from whoever stores a batch over
the mailbox to the browser's refetch. The ingest handlers announce what they store; the
Kafka and BigQuery sources the app starts have neither broadcaster nor `on_batch`
(_app.py:412, 424) and do not (`announces`); a caller of `create_app` may, from any
thread. `ConsoleSources` has the BigQuery window, the Kafka consumer and the import of a
captured stream.

## 3. Runs

All runs end in states in which the bounded inputs are used up, so deadlock is
not checked: the real system goes idle there. The properties that one run checks
of one component are grouped; the parts of a group are definitions of their own,
each with its comment, in the component's module, and `mutants` in `PROJECT.json`
has for (nearly) every part a fault in the code that breaks it.

| Run | Question | Bounds |
|---|---|---|
| `agent_none` | identity, admission, escalation, wipe and demotion under `BatchPolicy.NONE` | 2 events, 2 answers or fewer, clocks to 3 or 4: enough for suspend, wipe, and a second life; two escalation levels compare against `max_escalations = 1` |
| `agent_adaptive` | buffering, deferral, overflow, and the three timers under `ADAPTIVE` | 4 events over a buffer of 2: one to suspend, two to fill the buffer, one to overflow it |
| `agent_live` | every suspension ends; no buffered event starves | 2 events, one answer; time stops at `MaxTime`, past every deadline that can be set before `Horizon` |
| `effector_timely` | nothing lost, reordered or executed unauthenticated | 2 members, 4 deliveries of 3 intents (a repeat, an approval, a forged one), a bounded number of faults of any kind |
| `effector_stalls` | invocations, stored and published results agree, with stalls | 2 members, 2 intents, Bigtable owner rule |
| `effector_live` | the whole partition is processed unless the owner's worker has died | as above, fair |
| `services` | what an activation and the effector call | calls of 2 keys, 2 requests, sizes on both sides of a cap of 3, threshold 2 with 3 failures, in two parts: `cache` has 3 responses over 2 activations of a key while the clock stands still (suspend, retry, abandon, both eviction limits), `breaker` has 2 responses in one activation of each key while the clock goes to 2, which is past the TTL of 0 and the cooldown of 1 (expired entries; open, half-open, a cancelled trial, re-opened); providers: all 4, 3 sends; dedup: all 3 stores, 2 callers, 3 grants, clock to 5 with leases of 2; tools: 2 names, 5 callables (3 of them not registrable), 2 intents |
| `activation` | what a key keeps from activation to activation | working memory: 3 names, 2 activations of 3 writes, items of 1 and 3 against caps of 9 and 12; long-term: the three kinds of store, 4 events that share keys, one expiry, a zombie beside the retry; attempts: 3, of two programs; schema: 3 versions; shards: 4 events of 3 logical keys, one with a delimiter; adapters: 2 runs, batches of 2, 2 supersteps; layouts: 6 stores, 2 entities, 10 keys, seqs 255 and 256 (where byte order could differ from number order) |
| `console` | from the Beam worker to the browser | export: 5 records over a queue of one batch of two; store: 5 traces with 1 or 2 routes, pages of 1 row, two retention cut-offs, overviews and details with one write or sweep between two of their statements (the OTLP copies of the run keep parent and attributes, so of `KnownStaysKnown` it exercises the entity and the provenance; the theorem has the other columns too); feed: 4 batches (two by handlers, one by a source, one by a caller) over a mailbox of 1, 2 connections; sources: late rows on both sides of the overlap |
| `runtime` | the processes around the agent, safety and progress | dispatch: 2 partitions with 3 and 1 records, one permit, one rebalance, one worker that raises or one lapsed claim; outbox: streams of up to 2 intents in bundles of up to 2, on one key or two, 2 refused publishes, one client torn down or one key too long (two torn-down clients at a time are left to the theorem); sidecar: 2 instances, 3 setups; bridge: up to 2 coroutines and the closing of the store, each with one await and one more after a swallowed cancellation; sink: 2 publishers, 3 attempts, 4 refusals or failed starts; Pub/Sub: 2 keys with 2 and 1 messages, 2 copies |

| Group | Parts |
|---|---|
| `KeyLifeInv` (agent_none) | `IdsInv`, `FreshKeyIsEmpty`, `EscalationsBounded` |
| `BufferInv` (agent_adaptive) | `TimerInv`, `BufferBounded`, `EventsHandledOnce` |
| `NothingStarves` (agent_live) | `EverySuspensionEnds`, `EveryEventLeavesBuffer` |
| `SettledInOrder`, `OneResultIsHeard` (effector) | `TypeOK`, `InvokedInOrder`; `PublishedIsStored`, `AgreedResult` |
| `CallsReplay` (services) | `TypeOK`, `CacheAccountsExactly`, `ReplayAgrees`, `BudgetHolds` |
| `AccountsAgree` | `RetriesAreCivil`, `CachedAreDecodable`, `SpendIsTraced`, `CountersMatchStreams` |
| `EffectsAreToldTruly` | `EffectsOnlyByIntent`, `StatusTellsTheEffect`, `RetriesMintTheSameIds`, `TallyCountsReturns` |
| `WritesFit`, `CompactionIsSafe` (activation) | `SizesAreExact`, `OverflowIsLastResort`, `WrittenIsEvictedLast`; `ProtectedStay`, `SummaryKeepsRecent` |
| `SavedIsFound` | `CommittedIsStored`, `SearchReadsOwnWrites`, `NewestIsLoaded`, `SearchIsTheScan` |
| `EffectsAreIdentified` | `StagedIdsUnique`, `SpansDistinct`, `TraceIsRooted`, `ReplayReproduces` |
| `KeyedStateCarriesOver` | `StampMatchesLayout`, `RetriesKeepTheShard`, `RegroupsToOwner` |
| `AdaptersKeepTheWait` | `ResultsFedOnce`, `IntentsFollowTheModel`, `ConversationMatchesWait`, `ServedWritesAreExact`, `NodesFindTheirAnswers` |
| `TelemetryArrives` (console) | `RecordsAccounted`, `InFlightExact`, `ExportedWereStored`, `LateRowsAreRead`, `TruncatedImportKeepsPrefix`, `NoLostWakeup`, `ListsCatchUp` |
| `ConsoleTellsTheRecords` | `RollupsAreDerived`, `OutcomeIsReported`, `StableRowsListedOnce`, `TreeIsComplete`, `AttemptsAgree`, `NoErrorLost`, `TimeoutsExpireApprovals`, `ViewsAgree` |
| `EffectorKeepsOrder` (runtime) | `NothingSkipped`, `PermitsBalance`, `OneWorkerPerPartition`, `KeyOrderKept`, `SendsFollowStart`, `BudgetIsSpent` |
| `OutboxSafe` | `AttemptsKeepOrder`, `CommittedAreOut`, `SignedIntentsVerify` |
| `LoopThreadsServe` | `BuiltOnce`, `OneLiveHandle`, `HeldEngineIsUp` (`OneEngineServes`); `LeftoversAreCancelled`, `OneAtATime`, `UnstartedNeverRuns` (`BridgeIsSafe`) |
| `ProcessesProgress` | `RunGetsOn` (a drain ends, a put gets through), `OutboxDrains` |

### Where the code and the repository's words disagree

Two runs expect a violation; each is quoted under `findings`:

- `claim_accumulate`: after the first of two answers the adapters re-suspend
  with nothing staged, the new continuation waits for no id, and the remaining
  answers are orphaned.
- `claim_failed_replays`: a failed resume emits no `ACTIVATION_START`, so its
  error joins the trace group of the suspended start, and the failed attempt does
  not replay to its failure.

Further disagreements met while modelling. They are visible in the definitions
named, or are the reason why a property is stated with a premise; they are not
kept as runs.

Engine and driver. An event buffered behind a suspension re-arms TTL_TIMER in
front of the suspension's deadline, and the wipe takes the suspension early
(`Buffer`; human-in-the-loop/spec.md:163), which is why `GcBehindDeadline` is
stated for `NONE`. `on_ttl` clears SEQ, so ids recur in the key's next life and an
answer to a wiped suspension can resume a new one (`Wipe`; docs/hitl.md:112), which
is why `IntentIdsUnique` and `AnswersResumeTheirSuspension` are stated for one life
of a key; for the same reason later saves with a lower seq are refused by the seq
guard (`flush_expiring`; docs/memory.md:288). A budget trip in a flushed batch is
recorded as `activation_error` (`failed_flush`; docs/errors.md:28). The buffer cap
also sheds between a suspension's end and the re-armed flush (`BufferOverflow`;
comment at dofn.py:589). After a rollback, `on_ttl` wipes MEMORY and LLM_CACHE
written by a newer binary unread, and `_start` under `NONE` overwrites a newer
CONTINUATION unread (`StateMigration`; dofn.py:1123, state-migration/spec.md:52).
"Runs one activation at a time" (bridge.py:42) does not hold beside a coroutine that
ignores its cancellation, nor for one that the loop starts between `run`'s look into
`holder` and its `future.cancel()`, which waits for nothing (`OneAtATime` names both
cases). A `TimeoutError` raised by the expiry hook or by the store's `close` is
reported as `ActivationTimeout` (`FutureTimesOut`; bridge.py:73 says that any other
exception propagates unchanged); a `setup` or `teardown` whose run raises leaves the
loop thread running, and `stop` raises when the thread does not end in time.

Traces and replay. TOOL_CALL span ids collide across attempts, ERROR spans at step
0 collide, and a SUSPENDED span collides on a re-suspension without a step
(`SpansDistinct` states what is left); the INTENT_EMITTED of an escalation names a
parent span that is never emitted, and joins the suspended start's group, so that
start never replays. `run_replay` passes neither batch, summarizer nor compactor. A
replay reports "reproduced" although output or intent arguments differ when the
agent reads memory it has overwritten (docs/replay.md §4), and when a timed-out
event's envelope is replayed against another start at the same seq.

Model calls. A half-open breaker admits every call, not one trial (`before_call`;
facade.py:255), and a non-retryable error there records neither success nor
failure (facade.py:251-283). `complete`'s docstring puts `step_index` in the cache
key, the code does not (facade.py:373). `httpx.ConnectError` escapes the HTTP
providers unclassified (client.py:76). Calls through `LlmFacade` never count
`llm_calls` (metrics.py:44-47). The comment of `accumulate_usage` says `call_model`
never decodes; with a decoder it does.

Memory. A single value at or over the soft cap is evicted by its own soft-cap pass
although `set` returned. "A failed or timed-out activation flushes nothing" is false
after a partial flush; the equal-seq guard accepts the zombie flush of a
dead-lettered event (base.py:108-118). A Firestore search ends at `"\uffff"` and
misses keys with code points beyond the basic plane; ORDER BY follows the database's
collation. On SQLite, which docs/memory.md:38 offers, two promises fail. It drops
`FOR UPDATE` (sql.py:8), so a zombie and a retry may both read a row before either
writes, and the older write may land last, over a committed newer one, against
memory-stores/spec.md:41 and base.py:137-139 (`SqlSelect`; `RowsNeverRegress` names the
case, `CommittedIsStored` leaves SQLite out). And its `LIKE` ignores ASCII case, so
`search` returns keys that do not start with the prefix, against
memory-stores/spec.md:62 (`cased`; `SearchIsTheScan`).

Adapters. The engine admits the answer to an escalation; the adapter does not know
the id and raises (`RecordFails`; adk/agent.py:270, human-in-the-loop/spec.md:94-95).
ADK's `_TraceTee` numbers tools in completion order; leftover calls are sorted by
function-call id, unstable for random ids. `max_events` trimming can orphan replies,
and `max_events=1` loses the pending call (excluded by `HistoryAssumption`).
`BeamCheckpointSaver` ignores `checkpoint_ns`.

Effector. A worker that lost its claim goes on without commit, and the next commit
passes the unsettled delivery (docs/effector.md:110-111, service.py:441): `NoIntentLost`
holds with `Timely` and fails without, and `NothingSkipped` counts such an offset as
handled. A stored result not yet published is
followed by an `EXPIRED` one when its redelivery comes after the expiry (`Fetch`;
docs/effector.md:109); an intent that expires while its worker waits for a claim is
invoked all the same (`ClaimGranted`, `Begin`; service.py:14); a claim granted but
not registered when the worker is cancelled is not released (`ReleaseClaim`;
effector-service/spec.md:114); dedup calls are not retried and one error ends the
partition's worker (`StoreFails`; service.py:511). The dispatcher waits for ever on
the queue of a partition whose worker has died (service.py:170-176 against
effector-service/spec.md:106-110), also when the worker was revoked with a full
queue, so `RunGetsOn` leaves these two cases out.
`_on_revoked` re-raises a dead worker's exception before it stops the other
partitions; a malformed payload ends the dispatcher; `aclose` does not close the
dead-letter sink; on Pub/Sub a worker per ordering key is never reaped. A Pub/Sub
publish that failed transiently is retried on a paused key that no sink resumes, so
the retries are spent in vain (effector-service/spec.md:122-126). After a redeploy an
intent may be REJECTED although a cancelled attempt invoked its callable
(docs/effector.md:182), and a body that itself raises `ToolArgumentError` is
published as REJECTED although it ran (runner.py:207). An ordering key the client
refuses poisons its bundle (write_intents.py:183); `OutboxDrains` leaves it out. What
the ordering key buys is an attempt's order and no more: between bundles, and between
two attempts at one, a key's intents may reach the topic in either order, as
write_intents.py:22-28 says, so `AttemptsKeepOrder` compares what one attempt published.

Sidecar. "Exactly one engine (one copy of model weights) per worker process"
(openspec/changes/archive/2026-08-04-add-vllm-provider/design.md:11) is not kept while
an engine closes, or after its loop was stopped with the engine abandoned: another
instance may have built its own by then (`finalized`, `ShutDown`). `OneLiveHandle`
counts the handles that are alive, not the engines in memory.

Console. An error is counted twice, against _queries.py:27, when a dead letter that
names no activation fits several spans and takes another's (`NoErrorLost` excludes it
for a letter that fits one span only); the overview's and the detail page's SELECTs are
not one snapshot, although _queries.py:1534 says that the numbers add up, so `ViewsAgree`
relates the series to the headline, and `AttemptsAgree` the attempts to the summary's
count, only when nothing was written in between; OTLP and native
routes mixed leave stale rollups (_store.py:19); the keyset of the error page is not
unique; `approvals` and `entities` omit errors without a seq; a `lagged` marker does
not refetch error pages (_sse.py:65-67), and `onopen` after a reconnect refetches
nothing (live.ts:16); the Kafka and BigQuery sources are built without a broadcaster,
against _sse.py:23-24, so `ListsCatchUp` is about batches whose writer announces them.

### Fairness

`AgentDoFn!Fairness`: real time goes on, and the runner delivers due real-time
timers and runs their callbacks. Nothing is assumed of events, answers, agents or
the watermark. `Effector!Fairness`: a worker that can take a step eventually does,
an evicted member rejoins (aiokafka's heartbeat finds out), the broker assigns a
free partition, time goes on. `MCRuntime!Fairness`: the event loop runs a coroutine
whose await is over, the group coordinator finishes a rebalance, the runner goes on
with a bundle, and Pub/Sub answers an ordered publish, with an acknowledgement or a
failure. No fault is fair.

## 4. What is proved

Seven modules hold theorems, and `Foundations` the lemmas they share. They say for every
value of the constants what a run shows on a small instance: any number of keys, events,
members, partitions or calls, any policy, lease, budget and bound. Each rests on an
inductive invariant that TLC was made to check on the run first; the assumptions are the
named `ASSUME`s of the component's module, which only give the constants their types and
say what the configuration validates (`config.py`, `policy.py`). `MaxTime`, `MaxFaults`
and their like are any naturals, so no bound limits a theorem.

### AgentDoFnProofs: the engine

| Theorem | Statement |
|---|---|
| `TypeCorrect` | `[]TypeOK` |
| `IdsNeverReused` | `[]IntentIdsUnique` |
| `AnswersNotMisrouted` | `[]AnswersResumeTheirSuspension` |
| `SuspensionsAreTimed` | `[]SuspensionHasTimer` |
| `PendingInStep` | `[]PendingMatchesContinuation` |
| `DeferredBuffersFlush` | `[]DeferredBufferHasTimer` |
| `GcWaitsForDeadline` | `[]GcBehindDeadline` |
| `KeyLivesAreSeparate` | `[]KeyLifeInv` |
| `BufferedOnce` | `[]BufferInv` |
| `TimeoutsNotEarly` | `TimeoutNotEarly`, an action property |
| `LongtermOnlyForward` | `LongtermNeverRegresses`, an action property |
| `SuspensionsEndVisibly` | `SuspensionEndsVisibly`, an action property |

`IntentIdsUnique` is not inductive: it has to be known that every id of the
current life lies below SEQ (so that `_start` mints new ones), that those of the
suspended activation lie below its step cursor (so that `_resume` and
`_escalate` do), and that an id a suspension waits for was minted by it. That is
`IdsInv`. The timer properties need `TimerInv`: only due marks are under way, and
nothing is buffered under `NONE`; `TimeoutNotEarly` follows from it together with
the stale-handle guard. `BufferInv` counts, and what makes the counting inductive
is `EventsInv` (the buffer is finite and holds an event once; an event in it was
not consumed, a delivered one outside it was consumed exactly once) with
`FullBufferIsDue` (a buffer at `max_batch_size` has its flush under way or waits
for a suspension, so only the overflow path can meet a full buffer). Each proof
has one step per action; `Commit`, `Succeeds` and `Flush` have lemmas of their
own, because four actions use them.

### ActivationProofs: what an attempt stages

| Theorem | Statement |
|---|---|
| `EffectsAlwaysDistinct` | `ActivationSpec => [](StagedIdsUnique /\ SpansDistinct /\ TraceIsRooted)` |

The theorem is about any program, that is any script for the start and for each
resume, any provider and any number of attempts, escalations and evictions. Its first half
is about one attempt. `Reached(c)` is where an attempt that began with context `c`
may have come: its trace opens with its own span, everything since hangs under it,
and its intents and model calls have the steps from its entry on, in order, all
behind the step it stands at. Each operation keeps that (`CallStays`, `ToolStays`,
`IntentStays`), because it stages at most one of them at its step and then moves on;
`RunExists` turns the fold over the script into a run with a state before each
operation, and `AttemptEnds` adds the summarizer's call and the closing events. The
second half is `IdentityInv`, about the key: every id and span belongs to a seq
below SEQ, and what was staged of a suspended seq lies behind the continuation's
step. So a start, whose seq is new, and a resume, whose first step is the
continuation's, mint nothing that is there. Two things make it inductive: a
suspension that waits for something has minted an intent since its attempt opened,
so its step is beyond the opening's (`OpenedBefore`), and therefore a resume's own span
is not its parent's; and the attempt at step 0 is in the trace (`Opened`). An
escalation needs the continuation's step to count the summarizer's calls, which
is what `continuation_cursor` is for.

### EffectorProofs: the phases of an intent

| Theorem | Statement |
|---|---|
| `EffectorTypeCorrect` | `[](TypeOK /\ DeliveryInv)` |
| `EffectivelyOnce` | `[]InvokedOncePerLease` |
| `OneResultHeard` | `[]OneResultIsHeard` |
| `VerificationGates` | `[]UnverifiedLeavesNoTrace` |
| `NothingIsLost` | `Timely => []NoIntentLost` |
| `DeliveriesSettleInOrder` | `Timely => []SettledInOrder` |

`DeliveryInv`: a worker past verification has in hand a delivery of the log that
verified. `MeterInv` is the account behind effectively-once: every grant of the
store is paid for by a record that ran out or by the one that stands, and pays
for one invocation; the claims granted but not yet spent on a call are counted on
the invoked side. `ResultInv`: an intent has one record, a terminal record one
result, and whatever a worker carries to `publish`, or has published, is stored,
was stored, or is an `EXPIRED` that needs no record. The two last theorems need
that a worker between claim and `complete` still owns the record (`HoldInv`),
which follows from tokens that are never reissued (`TokenInv`) and from `Timely`;
then everything before the delivery in hand is settled (`ProgressInv`). `Timely`
is a hypothesis, not a convenience: `config.py:354` requires a lease longer than
the tool's timeout, and with a worker that stalls all the same both statements
are false, as section 3 says. The first four theorems do not need it. `Members` is
assumed finite.

### ServicesProofs: a refinement, what is told of a tool, model calls

| Theorem | Statement |
|---|---|
| `NothingStaleServed` | `[]ServedResultIsCurrent` |
| `BackendsKeepTheProtocol` | `KeepsTheProtocol`, that is `Protocol!ProtocolSpec` |
| `OwnershipEndsOnce` | a token is honoured at most once, by one `complete` or one `release` |
| `ToolsAreToldTruly` | `[]EffectsAreToldTruly` |
| `AccountsAlwaysAgree` | `ProviderSpec => []AccountsAgree` |
| `BreakerCountsExactly` | `[]BreakerCounts` |
| `CallsAlwaysReplay` | `[]CallsReplay` |
| `AnswersAreKept` | `PutKeepsNewest`, an action property |

The refinement is proved step by step for the three stores: every server call of
`DedupBackends` maps to a `Grant`, a `Lapse`, an end, or a stutter of
`ClaimProtocol` under the mapping of rows to owners (`Entry`). What it needs of
the stores is `BackendInv`: a caller's time is not ahead of the clock, and a claim
in a Bigtable row was granted over a terminal record that had run out, although
the grant only rewrites the claim columns. `OwnershipEndsOnce` is then proved of
the protocol alone and carried over, which is what the refinement is for.

`ToolsAreToldTruly` proves `[]EffectsAreToldTruly` for any two registries, and
calls, intents and executions without bound. The inductive invariant relates each
run of a body to its caller: an inline body belongs to the running attempt, is
read-only and has no intent; an effector's belongs to one try of one intent that
left, a try calls the tool at most once, a try that is waited for has called it,
and a result speaks of the try whose call it is. That a registered read-only tool
never asks for an intent's identity (`WellDeclared`) is kept by the decorator's
checks. Numbering is kept by place: the k-th staged intent has step k - 1, whatever
reads happened between; the tally is the number of bodies that returned, and the
trace numbers are exactly those below it, in whichever order the calls end.

`CallsAlwaysReplay` rests on `CallsInv`. Of each working copy it says that a request is
in it once, that `total` is the sum of its sizes, that both limits hold, and that an
attempt which evicted nothing of its own life still has every committed entry within its
TTL, with the committed response (`Told`); the committed blob has the same limits. That
is kept by `get`, which drops an expired entry and moves a hit to the end, and by `put`,
whose purge and evictions are taken out of the sequence in one `Picked` each: the sum of
what stays is the sum less what went, by the lemmas of `Foundations`. Each of the two
eviction loops ends because an entry alone fits (`cache.py` stores one that does not as
a digest); the same fact gives `AnswersAreKept`: the newest entry is at the end, and the
loops stop before it. The budget's part (`BudgetInv`) is that what was consumed passes
the limit by at most one response, and that as long as it has not, all of it was
delivered.

`AccountsAlwaysAgree` proves `[]AccountsAgree` for any bodies a provider may
return, any budget and any retry delays. Its invariant says when the books of an
attempt balance: what was paid for and is not on a staged event yet is exactly
what the call under way owes, and this at every exit path. The assumption says
that the kinds are the four that exist and that counts in a body are naturals.

`BreakerCountsExactly` proves `[]BreakerCounts` for every threshold. It is
strengthened by the equality of the breaker's count and the run of failures while
it is closed; when it is open or half-open the two differ, because a failed trial
is not counted, and only the length of the run is kept.

### RuntimeProofs: the processes

| Theorem | Statement |
|---|---|
| `OneEngineIsUp` | `SidecarInit /\ [][SidecarNext]_sidecarVars => []OneEngineServes` |
| `LeftoversAreStopped` | `BridgeInit /\ [][BridgeNext]_bridgeVars => []BridgeIsSafe` |
| `EffectorProcessKeepsOrder` | `[]EffectorKeepsOrder` |
| `EventLoopsServe` | `[]LoopThreadsServe` |
| `OutboxKeepsOrder` | `[]OutboxSafe` |

*Sidecar* (`SidecarInv`): a handle that is alive is the one the registry remembers,
whoever is ready holds it with its engine up, and a build is under way or done at most
once per handle. A shutdown is about dead handles only, which nobody holds, so it leaves
those facts alone (`HandlesStand`, `ShutDownShape`). *Bridge* (`BridgeInv`): the loop's
queue drives a run by at most one handle, and which handle that is says how far the run
has come (no task yet, parked, cancelled, done); a cancellation is never queued ahead of
the wrapper that makes the task, so the one sent to a run without a task comes before
the coroutine's first step. That is the argument why a leftover never starts. The lemmas
are about what a step takes from the queue's head and adds at its end.

*Dispatcher* (`DispatchInv`): what a living worker has in hand, in its queue and
on its way comes, in that order, after everything that is handled, and what was
fetched of an owned partition is handled or with its living worker; so an offset
committed passes only what was brought to its end or found with its claim lapsed,
through any rebalance, raise or drain. The theorem does not say that a lapsed claim's
intent is safe: that is `NothingIsLost`, under `Timely`. *Pub/Sub source*
(`SourceInv`): what was acked is finished, and so is everything before what has
started. *Sinks* (`SinkInv`): over Kafka the attempts spent are the refusals and the
failed starts counted.

*Outbox* (`OutboxInv`): per key, what is in the topic, what the client will still
send and what a torn down client may still send are each in order: whatever its
attempt published before one of them has arrived or is in front of it (`InOrder`).
That alone is not kept by a publish; it also needs that whatever this attempt
published is in the topic or with the client unless the key is paused (`Gathered`),
so that the next message has all before it in front of it. A message answers a
pending future of its own (`Answers`), so an acknowledged one is in the topic, and a
bundle whose futures are all acknowledged has left everything it went through there
or in the dead letters (`GoneThrough`). Nothing is assumed of how the runner splits
and orders the intents, nor of how many torn down clients still send; only that
intents have ids of their own, which the pipeline derives from key, event and step.

`RuntimeInv` is the conjunction of these invariants, and the last three theorems are
about the composition the `runtime` run checks.

### StateProofs: memory, long-term rows, blobs and shards

| Theorem | Statement |
|---|---|
| `RowsOnlyForward` | `LongtermSpec => RowsNeverRegress`, an action property |
| `CommittedSavesStay` | `LongtermSpec => []CommittedIsStored` |
| `WritesAlwaysFit` | `WorkingSpec => []WritesFit` |
| `CompactionAlwaysSafe` | `WorkingSpec => CompactionIsSafe`, an action property |
| `KeyedStateKeepsItsMeaning` | `KeyedSpec => []KeyedStateCarriesOver` |

A store that decides and writes at once needs no invariant: the guard is about the
row it replaces. The SQL store reads first, and the theorems rest on what the row
read still is at the write. On SQLite it may be another by then: there
`RowsOnlyForward` says that this is the only way a row goes back, and
`CommittedSavesStay` says nothing. `AttemptInv` says that a row an attempt has read and
found is the row, and `LocksExclude` that no other attempt, live or zombie, has it;
a row not found is covered by the primary key, which lets the `INSERT` beside a row
that came meanwhile fail. `CommittedIsStored` needs that every key saved is among
the upserts (`StagedUpserts`) and that what lies behind the flush's position is
stored at that seq.

`WorkingInv` is that every memory is `Sound`: its entries have names of their own,
its books (`total`) are the sum of their framed sizes, which is within the hard cap;
a write was refused only when the target was reached or the protected entries alone
were left; and what the last write wrote is there unless the protected entries and it
are beyond the target together. A compaction is a `Picked` of the entries at
the positions the loop leaves, so what it frees is a sum over the positions it takes
(`Weights`, `WeightPicked`), and the least position at which the target is reached is
the loop's exit.

`CompactionIsSafe` is harder at one place. `summarize` rewrites the ring item by
item and then writes the summary, each through the same `set` that may run the
soft-cap pass: if it ran there, it could evict the ring just rewritten. It does not,
and `SummaryInv` says why. A commit leaves a blob that is below the trigger or has
nothing to fold (`Folded`), so a summary becomes due only after a write; and after
a write the soft-cap pass is over or not due (`Settled`). The rewriting itself never
takes more than the old ring did (`Along`, an invariant over the items rewritten),
because the summary is smaller than what it replaces; so the pass stays where it was
(`SummaryStays`). TLC checked `SummaryInv` on an instance of its own before the proof.

A blob is migrated by a chain of steps as long as the versions lie apart, which
`migrate_to_current` walks recursively. `ChainExists` gives the recursion a
solution and `ChainArrives` shows that each version on the way has the layout its
stamp claims; the induction goes over the least version at which it would not
(`LeastNumber`, from the well-foundedness of finite sets in `FiniteSetTheorems`).
`UnshardsToOwner` is the fact about sequences that the last delimiter of a physical
key is the one `shard_key` put there.

### ConsoleProofs: telemetry on its way and in the store

| Theorem | Statement |
|---|---|
| `TelemetryAlwaysArrives` | `Spec => []TelemetryArrives` |
| `KnownAlwaysStays` | `Spec => KnownStaysKnown`, an action property |

`TelemetryInv` has a part for each link. *Sink* (`SinkInv`): the two threads share
numbers only, so that they add up at every step (`RecordsAccounted`,
`InFlightExact`) is one conjunct among others. That what is counted as exported was
stored is not: a batch whose answer is lost may be stored and posted again, and
`received` then has it before it counts. So `Backed` says that some set of received
records is as large as the count and meets nothing that may still be exported
(`Pending`), and `RecordsApart` that every record is in one place only. The lemmas
are about a queue of batches as a sum of their lengths (`QueueGrows`, `QueueShrinks`).

*Live feed* (`FeedInv`): while something is unread, the wakeup flag is set or its
setting is scheduled on the loop (`NoLostWakeup`), and what was announced is either
in the browser's lists, or makes it reload (queued, lagged or pending); a quiet
browser that has not missed an announcement has therefore seen what was written by
those who announce it: the ingest handlers, and a caller that shares the broadcaster.

*Sources* (`SourceInv`): the window's claim needs that there is at most one
watermark and no first poll without one. A row older than the overlap at the last
watermark is stored already, a younger one is in the next window (`PullKeeps`).
`_complete_prefix` searches a cut capture for the last boundary, a recursion on two
bounds and the answer so far. `answer` solves it in closed form: every record if the
boundary is still between the bounds, what was found otherwise. `SearchAnswers` shows
that it is a solution, `SearchesAgree` that there is no other (by the least width at
which two would differ), and `CountReaches` the monotonicity that the docstring of
`_complete_prefix` rests the search on. The assumption says that a frame has a
byte, which its length prefix is, and that a row lands no earlier than its time.

*Store* (`StoreInv`): an identity is in the table once. A write upserts its batch record
by record, a fold of `write_events` over the set. The fold is a solution of its
recursion (`UpsertsExist`, by adding to a partial solution one record more), and
`Grown` is what each upsert keeps: whatever the table knew when the transaction began
is still known of the record with that identity, which `UpsertGrows` shows for one
and `UpsertsGrow` for all of a batch, in whatever order they are taken. The
assumption says that a feed is finite and its events have the columns of the table.

### Foundations: what the proofs share

The prover has no induction over data, so what a fold of the community modules
computes over any finite set is shown once, by the least counterexample: a recursion
over a finite set has a solution (`FoldExists`), only one (`FoldsAgree`), and a sum
does not depend on the order it is taken in (`SumIsTallied`, `SumMoves`). From there
follow the rules the sizes need (`SumSplits`, `SumSame`, `SumGrows`), and how
`Picked` keeps the order and the sum of what it picks (`PickedKeeps`, `PickedSum`,
`WeightPicked`).

### Only model-checked

- Liveness (`NothingStarves`, `EveryIntentProcessed`, `ProcessesProgress`): fairness
  and `ENABLED` are beyond the prover.
- `SavedIsFound`, except its part `CommittedIsStored`: the layouts join and escape
  strings of code points, and what they compute is an induction over their length.
- `AdaptersKeepTheWait`: conversations and checkpoints, for the same reason.
- `EffectsAreIdentified`: its parts `StagedIdsUnique`, `SpansDistinct` and
  `TraceIsRooted` are proved; `ReplayReproduces`, the verdict of a replay, compares two
  folds over a script and is only checked.
- `ConsoleTellsTheRecords`: the derived tables, lists, trees and aggregates, each a
  fold or a summary over sets of records.

## 5. Not modelled

- Pipeline construction (`core/transform.py`), the YAML front end, deprecation and
  testing helpers: they build or configure and keep no state at run time.
- Configuration and secret parsing, the command line front ends.
- The JSON of provider requests and the encodings of OTLP and console records; the
  demo data, HTTP routing, text search and response types of the console; the
  browser beyond its live hook; generated protobuf code.
- Adapters: session deletion and listing, the saver's `list`, subgraph namespaces,
  model transports.
- External systems appear only as their clients use them: Kafka, Pub/Sub, Redis,
  Bigtable, Firestore, SQL databases, BigQuery, the agent frameworks and vLLM.

## 6. Plan

Modelling is complete as far as section 5 says. What is left is to prove, in this
order:

1. `ConsoleStore`: that the rollups are derived (`RollupsAreDerived`), with the folds of
   `Recompute` treated as the upserts are.
2. `AdapterAgent`: that no answer is applied twice or to another suspension.
