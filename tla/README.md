# Verification of active-skill-system

TLA+ models of the control logic of `src/src/active_skill_system`, checked with TLC, and
theorems about them proved with TLAPS. Paths below are relative to that directory
unless they start with `tests/` or `src/`.

The program is a "reactive graph runtime" around LLM calls: behaviors react to events,
propose patches to a graph, policies review them; a router picks an LLM provider and
falls back; a reasoning pipeline turns a goal into a task graph, repairs it until a
validator is content and only then asks for an answer; a sandbox runs generated code and
keeps its provenance on disk; engines evolve candidate transformations. Almost all of it
runs on one thread. What makes it hard is therefore not threads but **re-entrancy**
(handlers publish and check again, `apply_fn` applies), **exceptions and swallowed errors**,
**state read once and used later** (an ordered list of models, a view of the graph, an id
made of a counter), **processes that end between two writes** over persistent stores, and
loops whose termination rests on a counter or a fingerprint. Threads appear in one place,
`AsyncForkEngine`.

## 1. Inventory

| Component | State | Operations | Talks to | Must hold |
|---|---|---|---|---|
| Patch applier (`adapters/inmemory_patch_applier.py`, audited: `event_emitting_patch_applier.py`) | dict of proposals, event counter | propose, approve, reject, apply(apply_fn), list_pending | apply_fn (callback), event store | nothing unapproved is executed; one review; the audit log tells the status |
| Policy gate (`application/use_cases/policy_gate.py`, `domain/policy.py`) | sorted list of policies | register, evaluate, evaluate_all_pending | applier | priority decides; the sweep skips nothing |
| Event log (`inmemory_event_log.py`, `sqlite_event_log.py`, `event_store_impl.py`) | rows, known ids | append (idempotent), iterate by timestamp | everybody who audits | no event lost without a reason |
| Behavior runtime (`inmemory_behavior_runtime.py`, audited: `event_emitting_behavior_runtime.py`) | registrations with counts, event counter, depth | register, publish, context.emit | handlers (callbacks), trace collector, event store | delivered exactly once, balanced, bounded, counted |
| Trace collector (`inmemory_trace_collector.py`, `domain/trace.py`) | open and ended spans | start_span, end_span | wall clock | every span is ended |
| Pattern / relation triggers (`pattern_behavior_runtime.py`, `relation_behavior_runtime.py`), presets, diligence pack | last_matched, fired_edges | register_…, check_patterns, check_relations | handlers, applier, gate | latches follow the view; once per edge |
| Reactive frame and runner (`domain/reactive_frame.py`, `reactive_sandbox_agent_runner.py`) | budgets, run counter | run | sandbox runner, runtime, event store | calls beyond the budget only where a run raised (it is not kept strictly, section 5); the store tells how runs ended |
| Sandbox runner, Loop, LLM cache (`sandbox_agent_runner.py`, `plain_llm_strategy.py`, `domain/loop.py`) | counter, span, cache, Loop | run | provider, executor, verifier | every call ends |
| Fork and replay (`native_fork_engine.py`, `async_fork_engine.py`, `native_replay_engine.py`) | event log | fork, fork_async, replay | event log, threads | a fork is a prefix its parent had |
| LLM router (`application/llm_router.py`, `domain/provider_health.py`, `model_registry.py`) | registry, failures per provider | route_with_fallback, register | providers | cheapest healthy; retries before fallback; health exact; ends |
| Task graph, validator, repair loop (`domain/runtime/graph.py`, `patch.py`, `validate_task_graph.py`, `repair_loop.py`) | current graph, fingerprints, counts | run, validate, GraphPatch.apply | execute_action (callback) | gains only, exact status, terminates |
| Reasoning verticals and answer verifier (`parse_task_spec.py`, `extract_facts.py`, `run_reasoning_vertical.py`, `run_reasoning_with_repair.py`, `synthesize_answer.py`, `output_verifier.py`) | the request's spec, graph and verdict | parse, extract, build, repair, synthesize, verify | model, search tool, repair loop | no answer over claims that stand on nothing; gates agree |
| Evolution engines and the compiler, SQL, IaC loops (`evolution_engine.py`, `multi_evolution_engine.py`, `evolvable_adapters.py`, tool stubs, `*_optimization_loop.py`) | best genome, current metrics | evolve, run | tools | accept only improvements; report what was measured; converge |
| Sandbox commands and provenance (`composition/sandbox/runs.py`, `domain/loop_graph.py`, `ladybug_graph_store.py`, `emit_trajectory_events.py`, `src/harness/__init__.py`) | graph store, session log, event store, ratchet ledger, all on disk | run, store, log, emit, append to the ledger | disk | each trace follows the one before it; nothing of an earlier run is lost silently |
| Readers: report, recommender, diff (`sandbox_insight_report.py`, `sandbox_recommender.py`, `sandbox_run_diff.py`) | – | report, recommend, diff | graph store, log | they judge every run as it went, and by its own model |
| Run state machine, claims, cancellation, idempotency, budgets | immutable records | transition, cancel, promote | – | histories follow the legal table |
| MiniMax provider, verifiers, executors, bridges, CLI parsing | none between calls | – | HTTP, files, processes | – |

`PROJECT.json` lists every component with its status, and the hazards of this code, each at
its line with the properties that would catch it going wrong.

The audited classes (`EventEmitting...`) are wired in
`tests/composition/test_reactive_e2e_wave_d.py`; `build_reactive_stack` uses the in-memory
ones. The models are of the audited classes, which extend the others; leaving out the
audit variables gives the in-memory ones.

## 2. Modules

| Module | Models | Extends / instances |
|---|---|---|
| `EventLog` | append and ordered read of both log backends | – |
| `PatchLifecycle` | abstract: what the `PatchApplier` port promises | – |
| `PatchGate` | appliers, gate, person, restart | EventLog, INSTANCE PatchLifecycle |
| `BehaviorRuntime` | audited behavior runtime with trace spans | EventLog |
| `Triggers` | pattern and relation runtimes, the presets' handlers, the sweep after them | – |
| `LLMRouter` | router, registry, health | – |
| `TaskGraph` | task graphs, validator, patches (values) | – |
| `RepairLoop` | the repair loop | TaskGraph |
| `Reasoning` | from the goal to the verified answer | INSTANCE TaskGraph, INSTANCE RepairLoop |
| `ReactiveRun` | reactive runner, inner runner, cached model, store | EventLog |
| `ForkPort` | abstract: what the `ForkEngine` port promises | – |
| `ForkReplay` | forks over both logs, strict replay | EventLog, INSTANCE ForkPort |
| `Evolvables` | the eight domains: tools, ranks, mutations, fitness (values) | – |
| `Evolution` | both engines, three optimization loops | Evolvables |
| `LoopGraph` | Loop, projection, graph store statements, readers (values) | – |
| `Provenance` | what the sandbox commands write to disk, processes that end | LoopGraph, EventLog |
| `DataLemmas` | lemmas on stacks, least numbers, sets grown until nothing changes, and reading an event log in order | EventLog, SequencesExt and the library's theorem modules |
| `PatchGate_proofs`, `BehaviorRuntime_proofs`, `ReactiveRun_proofs`, `Reasoning_proofs` | theorems | each its module, DataLemmas |
| `RepairLoop_proofs` | theorems about the repair loop and the router | RepairLoop, LLMRouter, DataLemmas |
| `RunHistory_proofs` | theorems about what is read back: forks and replay, a run's traces on disk | ForkReplay, Provenance, DataLemmas |
| `Triggers_proofs` | theorems about the triggers, and about evolution | Triggers, Evolution, DataLemmas |
| `MC...` | finite instances for TLC | each its module |

**PatchGate.** `status`, `reviewer`, `executions` are the applier's proposals; `order` the
order of its dict; `policies` the gate's list. `apply` is two steps, `ApplyBegin` (the
status check, up to the call of `apply_fn`) and `ApplyReturn` or `ApplyRaise`, with the
stack `calls` of patches whose `apply_fn` is running: in between `apply_fn` may do anything
the API offers. `evaluate_all_pending` calls nothing back, so it is a loop (`SweepBegin`,
`SweepStep`) that excludes everything else. A refused operation (KeyError, ValueError)
changes nothing and is a step that is not enabled. `Restart` forgets all but the log. `history`
and `lost` are ghosts: what was to be audited, and what a failing store swallowed.

**BehaviorRuntime.** `stack` holds the dispatch loops in progress (event, position in the
live registration list, whether the handler at that position is running). `Trigger(i)` goes
to the next registration that fires under the *current* counter and list; `HandlerEmit` is
`context.emit`, i.e. publish; `HandlerReturn`, `HandlerRaise` are the two ends of a handler;
`HandlerReturnSpanRaises`, `HandlerRaiseSpanRaises` are the same when the wall clock stepped
back under the handler, so that `end_span` raises; `LoopEnd` is the way out of `publish`.

**Triggers.** The two trigger runtimes over a graph of vertices with a status and possible
edges. A check takes a *view* (the graph at its begin) and walks the live list of
registrations; `stack` holds the checks in progress, so a handler may change the graph,
publish, register, check a newer view, or raise while its caller is still on an old one.
`PatternStep` sets the latch before the handler runs; `EdgeStep` marks the edge; handlers
propose a patch and the gate approves it. `HandlerRaises`, `SpanEndRaises` are the exits by
exception.

**LLMRouter.** A route is `RouteBegins` (the order is computed once), then `CallServes`,
`CallFails` (retries left) or `ModelFails` (last retry) until it ends; `RouteRaises` is the
KeyError of a model whose provider was not injected; models are registered between routes.
`before`, `request`, `calls` are ghosts.

**TaskGraph, RepairLoop.** One action per exit and per kind of cycle of `run`. Graphs are
sets of node objects and edges over ids; the validator's two searches are recursive
functions, compared with a reference definition by closed sets. What `execute_action`
returns is any patch of a constant set, or nothing.

**Reasoning.** One request: `Parse` (any facts, any citations, any images), the vision
retries, `Build` with `_build_graph` as a recursive function over the claims, `Repair` (a step
of RepairLoop, instantiated over the request's graph with the search tool's patch),
`Partial` or `Synthesize`, and `Verify`, the gates after the answer. `repairs` tells which of
the two pipelines the caller chose.

**ReactiveRun.** One call of `run` is a program counter with the events it still has to
publish; each event is `Deliver` (behaviors first) and then `Persist` (idempotent, may fail),
as in `_publish`. The inner runner has one action per exit, with its span; the model is the
cached strategy, whose cache outlives the process. `Restart` ends the process anywhere.
`ended`, `lost`, `spent` are ghosts.

**ForkPort, ForkReplay.** A call of `fork` reads its parent's rows as a list and appends one
copy per step; other forks, the parent and finished forks append in between, with
timestamps of their own. `backend` and `pooled` decide whether a thread may use the
connection at all. The refinement maps a fork that has read its prefix to a branch that
holds it, and a failed one to a failed one, rows left behind or not.

**Evolvables, Evolution.** Metrics, candidates and mutations of the eight domains are
records of integers in the units of their domain; binary rounding is left out. Metrics are
naturals and knobs integers, as the `__post_init__` of each domain's types enforce; the
assumption on `Candidates` and `Baselines` says so and no more. `Optimize`
and `TryCandidate` are an optimization loop, `Iterate`, `Retain`, `Pick` and `Adopt` the engine
of one and of several domains and the caller that evolves what was promoted.

**LoopGraph, Provenance.** Each process is a session: `SessionStarts` logs its line, and any
number of sessions wait for their models at once (`sessions`, by the positions of their
lines). A run in memory (`RunSingleModel`, `RunProgramBench`) leaves a Loop and a trajectory,
which are projected to vertices and edges and then written one statement at a time
(`StoreStep`), followed by the log line, the events, and, for a failed run, the ledger,
rewritten as a whole (`OpenLedger`, `WriteLedger`). Only from the first statement on do sessions
exclude each other: the graph store is opened lazily by it, and its file stays locked until
the process ends (`Idle` is "nobody has the store open"); a session that finds it locked
raises and leaves no trace but its line (`SessionEnds`). Session logs are named by the second
a session starts in and opened for appending, so sessions that start together share a file;
`runLog` has the lines of all files in the order of writing, each with its file. `app.log` has
lines of all processes, but it is in another directory (`LOG_DIR`, not `SANDBOX_LOG_DIR`), which
the recommender does not read. `EndsEarly` ends the process that has the store open at any of
its steps. The readers are operators over what is on disk.

## 3. Runs

| Run | Question | Bounds, and why they are enough |
|---|---|---|
| `patch_gate` | lifecycle (refinement), priorities, sweep, audit trail | 2 patches of different kind, 3 policies (one that passes, one that may approve, one that rejects), 2 nested applies and 2 executions each (an apply inside its own apply_fn, a retry), 1 failing append, 1 restart: each mechanism occurs once together with each other one |
| `behavior_runtime` | balance, delivery, counts, first reactions on record | max_depth 2 (an event is dropped inside a handler inside a handler), 2 registrations (at any time, also while a loop runs), 1 emission per call, behaviors that re-emit their own trigger and each other's, 1 raise, 1 clock step, 1 failing append; no event from outside after the second |
| `llm_router` | health, order, retries, fallback, end | 3 usable models of 2 providers (two models share one: the stale order matters), 1 model of a provider that is missing, max_failures 2, 1 retry, every request, registration at any time; failures are bounded by the code itself |
| `repair_loop` | validator, gate, fingerprint, status, end | 4 graphs, 8 patches (useful, useless, harmful, repeating an id, dangling, self-loop), 5 cycles: more than the acceptances any of the graphs allows, so every exit occurs |
| `fork_replay` | a fork is a prefix (refinement), replay, end | 2 forks of a run of 2 events (a vertex, an edge) and continuations that write the vertex again; 2 timestamps, so that ties and steps back occur; 1 failing append; both backends, with and without the pool |
| `reactive_run` | spending beyond the budget, what the store tells, end | 1 model, texts that pass and fail, a budget of 1, 3 calls (admitted, refused, after a restart), 1 reaction, 1 lost append, 1 restart |
| `triggers` | latches, one proposal per edge | 1 claim and 2 pieces of evidence, two patterns and a relation, 1 registration of each kind, 3 checks of which 2 nest, 2 changes, 1 publish, 1 raise: a nested check on a newer view, an edge removed and added again, a handler that raises |
| `reasoning` | what the answer covers, agreement of the gates, end | 1 fact, 3 claims that cite any id (circles of two and of three, citations of later claims), 1 image, 2 attempts, 2 cycles |
| `evolution` | loops against fitness, promotions, convergence | genomes of up to 2 candidates of every kind with knobs refused, at and above their caps, legal or not, valid and invalid baselines, slices -1 and 3; sessions of two domains for sql, security and log |
| `provenance` | graph, reports, recommendations, events, ledger | 2 sessions of up to 2 (symmetric) models over 1 or 2 (symmetric) log files, which overlap or not; runs that pass or fail in each way or are a bench; 1 process that ends at any point with the store open, and any number without it |
| `behavior_runtime_dispatch`, `llm_router_skipped` | a sentence of the code's own documentation each | the same instances; each is violated (section 5) |

What the properties say, beyond their names:

- *patch_gate*: `UnapprovedNeverExecuted`, `ImplementsLifecycle` (refinement of
  PatchLifecycle), `HighestPriorityDecides`, `SweepDecidesAll`; `AuditTellsStatus` and
  `AuditGapsExplained`: the log tells the status of a patch, except where an append failed or
  an id was used twice.
- *behavior_runtime*: `Balanced` (depth and open spans against the loops in progress),
  `DeliveredOnce`, `CountsAddUp`, `FirstReactionRecorded` (whatever nests, the first call of a
  handler for an event is on record unless its append failed; later ones may not be, section 5).
- *llm_router*: `HealthMatchesTries`, `FailuresBounded` (how far calls of a provider go that
  became unhealthy in the route; the documentation allows none, section 5), `RetriesBeforeFallback`,
  `CheapestServes`, `RouteEnds`.
- *repair_loop*: `ValidatorFindsPaths` (the two searches against their meaning),
  `AcceptancesSupportGoals`, `NoNewViolations`, `LoopBreaksAfterRejection`
  (only on a graph on which some patch was rejected), `StatusTellsOutcome`, `Terminates`.
- *fork_replay*: `ImplementsPort` (refinement of ForkPort), `ReplayKeepsPrefix`, `ForksEnd`.
- *reactive_run*: `OverspendOnlyByRaising` (the calls beyond the limit are one for each run that
  raised, which is not charged; the limit itself is not kept, section 5), `StoreTellsRuns`
  (verdicts, starts, causes), `CallsEnd`.
- *triggers*: `LatchTellsView`, `OneProposalPerEdge`.
- *reasoning*: `AnswerCoversCitedClaims` (the model is asked exactly when no claims stand on
  nothing but the goal and each other), `GatesAgree`, `RequestEnds`.
- *evolution*: `LoopAgreesWithFitness`, `ReportIsMeasured`, `EvolutionConverges`.
- *provenance*: `GraphIsProjection`, `ReportTellsOutcome`, `RecommendationsHold` (that a model is
  the only one tested: unless sessions of two models shared a log file, section 5),
  `EventsFollowGraph`, `LedgerTellsFailures`.

`CHECK_DEADLOCK FALSE` is set where the system may stop: bounded resources are used up, or
the run, request or session ended. The router never stops, and deadlock is checked. Type
invariants are proved (section 4) rather than run; those of ForkReplay, Evolution and
Provenance are parts of their inductive invariants.

**Fairness.** LLMRouter: weak fairness of `CallReturns` - the router waits for
`provider.complete` without a timeout of its own (`per_call_timeout` is stored and not
used), so "calls return" is an assumption on the providers, and `RouteEnds` is what follows
from it; strong fairness of `RouteBegins` per request says that every kind of request keeps
coming, which makes the refutation of `SkippedOnlyTemporarily` meaningful: the provider is
not merely left alone for want of requests. ForkReplay: weak fairness of each fork's own
steps (a thread or a process each), none of the parent or of continuations. ReactiveRun:
weak fairness of the run's own steps, none of calls or restarts. RepairLoop, Reasoning,
Evolution: weak fairness of their next-state relation, one thread whose callbacks come back. PatchGate,
BehaviorRuntime, Triggers and Provenance state no liveness: nothing obliges a caller to
review, a handler to return or a process to survive.

**Mutants.** Next to the definitions they change stand mutated ones, the bugs the
properties are for: a missing guard, a snapshot replaced by the live list, a missing sort,
a retry too many, an id without the counter. `PROJECT.json` names one for each property of
each passing run; none of them is used by a specification.

## 4. What is proved

All theorems are for every value of the constants, under the named assumptions on them
only. Where a property is not inductive, the section says what the invariant `IInv` adds.

`PatchGate_proofs` (no finiteness of the set of patches is assumed):

- `TypeCorrect`.
- `UnapprovedNeverExecutedAlways`. `ApplyReturn` writes "applied" whatever the status has
  become while `apply_fn` ran, and a nested apply, a retry or a restart may lie between the
  check and that write. The invariant adds that every patch on the call stack has been
  executed and is still approved or already applied; reviews cannot touch it, since they
  need "pending", and a restart empties the stack.
- `PipelineImplementsLifecycle`: Spec => Lifecycle!Spec, by the same invariant: each action
  maps to one action of the lifecycle or to a stutter; `ApplyReturn` to `MarkApplied`, or to
  a stutter when a nested apply was first.
- `HighestPriorityAlwaysDecides`, from the invariant that the list is sorted by descending
  priority, which `Register` keeps because it inserts after all policies of at least the
  same priority.
- `AuditGapsAlwaysExplained`. An id is the event's type and the applier's counter, which a
  restart sets back. The invariant (`AuditInv`) adds that what this process emitted has a
  number the counter has reached: so a row the store ignores has an id of an earlier epoch.
- `AuditAlwaysTellsStatus`. What is read back is the log in timestamp order, ties by
  position. `TrailInv` says that while nothing was lost, repeated or set back the rows are
  in the order they were emitted, so a new row is read last; `LastRowTells` that the last row
  of a patch then tells its status. `DataLemmas` has the lemmas on a stable read of a log
  that grows by a row.
- `SweepAlwaysDecidesAll`, an action property. A sweep calls nothing back and runs on one
  thread, so it is about the loop alone: it changes the list it was begun on with every
  evaluation. `SweepInv`: what is pending is in the order list_pending reads, and during a sweep
  it is ahead in the snapshot or one nobody decides.

`BehaviorRuntime_proofs` (any `max_depth`):

- `RuntimeTypeCorrect`; part of TypeOK is that the nesting never exceeds `max_depth`.
- `RuntimeBalanced`. A span is named by its publish and registration; if two loops in
  progress served the same publish, the end of one handler would close the span of the
  other. The depth is at most `max_depth`. The invariant adds `Nested`: each loop in progress serves a later publish than the
  loops around it (the counter grows with every publish, dropped ones too), and a running
  handler is one of a registration in the list, which only grows.
- `RuntimeRecordsFirstReaction`. An id is the event's type, the counter and the run, and the
  counter may have moved since the publish the handler serves, so that a row might find its
  id used. `FirstInv`: no row has a count the counter has not reached, and a loop that has called
  nobody yet serves the latest publish, under whose count no handler's start is on record
  (`Untouched`): a nested publish happens only in a handler of a loop that has called it.
- `RuntimeDeliversOnce`. `DeliveryInv` says of every loop in progress that it has called all
  it had to call up to the registration it is at, and none behind it (`LoopsRight`), of every
  call that it was due (`CallsRight`), and of a loop that is gone that what it had seen is
  served (`SeenServed`). What was due stays due because registrations and publishes are only
  added.
- `RuntimeCountsAddUp`. The sum holds only if the end of a span goes bad once for a call:
  `CountInv` adds that a running handler has been called and its span has not gone bad, and
  that a span that has belongs to a call. A new call has no such span by `DeliveryInv`.

`RepairLoop_proofs`: `RepairTypeCorrect`, `ViolationsNeverAdded`,
`LoopAlwaysBreaksAfterRejection`, `StatusAlwaysTrue`, and about the validator

- `ValidatorAlwaysFindsPaths`: the recursive searches return the least sets their meaning
  asks for. `DataLemmas!GrowsToClosure` shows it once for any monotone growth on a finite
  set: take, among the sets on which the search and the closure differ, one with the fewest
  elements missing; one more step leaves fewer missing and the same closure. Only the least
  element of a set of naturals is needed (`WFMin`), no theorem with an operator parameter.
- `AcceptancesAlwaysSupportGoals`: grounding and support are monotone in nodes and edges,
  patches only add, so the gate's comparison of *numbers* of supported goals is one of sets.
- The loop breaks only on a graph on which some patch was rejected: nodes and edges are never
  removed, so a graph with the same two counts as an earlier one is that graph, and an
  accepted patch has left it behind. It need not be the same patch (section 5).

In the same module, about the router: `RouterTypeCorrect`, `HealthAlwaysMatchesTries`, `FailuresAlwaysBounded`,
`RetriesAlwaysBeforeFallback`, `CheapestAlwaysServes`. The invariant adds `Distinct` (a model
is queued once), `Underway` and `TriedOnce` (what the counters of the route in progress say of
the models before the current one) and `StartedBounded` (a provider was below the threshold
when the route began); the cheapest serves because the queue is sorted and what was skipped
has failed.

`RunHistory_proofs`, about forks and replay. Of the constants: timestamps are naturals, a
fork's id is not its parent's, neither is the token that tells a copied id from a new one
(`IdAssumption`; the code takes ids from uuid4), and every payload sets something
(`PayloadAssumption`).

- `ForksImplementPort`: ForkReplay's specification implements ForkPort's. The mapping reads
  a fork's copies back from the log all forks, the parent and the continuations append to.
  `LogInv` says whose each row is, `JobInv` where a fork is in its list, and `CopiesInv` that
  its copies in the log are the first so many of that list, in order; a step of one fork
  leaves the others' copies where they are because ids are its own.
- `ReplayAlwaysKeepsPrefix`: what a strict replay leaves at a vertex is its last writer's
  (`LastWriter`), so a vertex the continuation does not write keeps what the prefix says,
  wherever the continuation's rows sort.

About a run's traces, for any number of runs and of processes that end anywhere:

- `RunsInv`: what a run is in each phase, and that all but the last are over or cut off.
- `GraphAlwaysProjection`. `GraphInv` says which vertices and edges a projection has: those
  of one run are its own or shared (skills, verifiers), and runs agree on the shared ones,
  so a MERGE never resets one; and that of the run at work exactly the statements behind
  `cursor` are in the store. `DiskAlwaysAccountedFor` puts it together with the other traces.
- `EventsAlwaysFollowGraph` (`EventsInv`: ids carry the run, and while a run emits, `cursor`
  counts its events) and `LedgerAlwaysTellsFailures` (`LedgerInv`: while the file is written
  anew, its entries are in memory).
- `ReportAlwaysTellsOutcome` (`LegibleRuns`: a projection has one loop, an edge to each of
  its steps, and its verdict at the end of them; failed runs are counted against failed
  loops by a bijection) and `RecommendationsAlwaysHold`: `SessionsInv` says which lines the
  sessions at work have, `LinesInv` that each run's own session_start stands in its file and its
  run_complete, if any, after it. The last session_start before a run_complete may be another
  session's; if the files of two models are apart, it is one of the same model.

`ReactiveRun_proofs`: `ReactiveTypeCorrect`, `OverspendAlwaysByRaising`, `StoreAlwaysTellsRuns`.
The invariant says of every event that must be told that it is on record, waiting or lost
(`VerdictIdsTold`, `StartsTold`, `EffectsHaveCauses`), that rows of a run carry nothing but
its verdict (`EventsTrue`), that runs end in order (`EndingsInOrder`) and that the run in
progress has told its start (`CurrentStartTold`).

`Triggers_proofs` (checks nested to any depth): `TriggersTypeCorrect`, `OneProposalAlways`,
`LatchAlwaysTellsView`. `EachOnce`: an edge that fired is with its one running handler, or has
one patch, or its handler raised - never two of these. `LatchKnown`: a pattern check in which
no other ran has set the latches it walked to what its view said, and no pattern check lies
above it. One assumption on relations is used, `activateAfter \in Nat`, which
`domain/behavior.py:103` enforces.

In the same module, about Evolution (genomes of any length, any slice of them, any knobs):

- The ground: a tool yields at most one measure (`...Yields`), a genome gains what its
  candidates gain one by one (`...OneByOne`, `GainsAre`), its quality is the greatest of
  those fractions or zero (`FitnessIs`; a finite set of fractions has a greatest element: one
  that the fewest are above), and a mutation changes one knob or nothing (`OneKnob`).
- `LoopAlwaysAgreesWithFitness`. The loops and the engine ask different questions: the gap
  detectors compare with what was accepted so far, the compiler's baseline is told without
  its misses. The invariant `WorkingLoop` says that a loop at work still holds its baseline
  and that no candidate so far gains; `TriedIs` takes one candidate of each domain through
  detector, policy and gate: a replan that the default policy never asks for, no gain, or
  completion with the candidate's one gain.
- `ReportAlwaysMeasured`. `ReportsInv`: a report is of the mutation of its entry's genome and
  fitter, or of that genome; and an iteration after the first has seen the mutation fail,
  which fails again (`NotFitter`), so promotions come first time. The two genomes differ in
  one candidate, so the better quality is that candidate's (`PromotionMeasured`). The winner:
  being outdone by quality, then cost, is a strict order (`OutdoesOrder`), and the fold over
  the results keeps the best of those it has seen (`BestStep`).

`Reasoning_proofs`: `ReasoningTypeCorrect`, `GatesAlwaysAgree`,
`AnswerAlwaysCoversCitedClaims`. `BuildIs` says what the loop of `_build_graph` returns without
the loop (by the least claim at which they differ); `BuildStands` and `PatchStands` that the
graph keeps what matters of it under repair (`Stands`: claims are the spec's, each has just
the source it cites, evidence is what was cited before there was such a node, the images
and what was found); `UngroundedMeans` that for such a graph the validator's fixpoint misses
a claim iff some claims stand on nothing but the goal and each other: their complement is a
closed set in one direction, and the missed claims are such a set in the other. The
invariant then carries `Standing` and `VerdictCurrent` to the answer.

**Only model-checked.** Liveness, everywhere: the prover does not do it under fairness. Every
safety invariant, action property and refinement that a passing run checks has its theorem.
What the recursive searches, folds and powers compute is proved from the least counterexample
(`SmallestNumber` in `DataLemmas`, from `WFMin`), as the theorems on induction take an operator.
The properties of section 5 that runs refute are not theorems.

## 5. Where the code and its documentation part

`PROJECT.json` "findings" quotes the sentences and gives the lines. Two are runs that end in
a counterexample:

1. "The runtime continues dispatching to other behaviors": not when `end_span` raises in
   the except block because the clock stepped back (`DispatchGoesOn`). What holds is that
   even then depth, spans and counts are as they should be (`Balanced`, `CountsAddUp`).
2. "Degraded providers are temporarily skipped": they never come back
   (`SkippedOnlyTemporarily`).

The others were read off the source while modelling, and the properties state what holds
instead. Those a reader of the models should know:

- "Emit GraphEvents for every reactive operation": the second reaction to an event has the id
  of the first and is dropped. What holds is `FirstReactionRecorded`.
- "The provider is marked unhealthy and the next healthy model is tried": the order is
  computed once per route, so a model is tried whose provider became unhealthy in it. What
  holds is `FailuresBounded`.
- "max LLM calls allowed": a run that raised after its call is not charged. What holds is
  `OverspendOnlyByRaising`, which bounds nothing if runs keep raising.
- "Inclusive - prefix includes it": a fork at an id the run does not have is a copy of the
  whole run. ForkPort takes the code's view of such an id.
- "When a graph mutation causes a Pattern to transition from not-matching to matching, the
  registered behavior fires": a check around another moves a latch back, and the pattern
  fires twice on one graph. What holds, for checks with no other inside, is `LatchTellsView`.
- "Map run_id -> model name": by the order of the lines in a file that two sessions may
  share. What holds is `RecommendationsHold`.
- `evaluate` "returns the first matching policy's decision": a matching MANUAL_REVIEW policy
  is passed over and a later one decides (`HighestPriorityDecides` is about those that decide).
- Audit ids of patches start over with the process (`AuditGapsExplained`).
- "Loop-detection (... repeats skipped)": a repeat ends the loop, even if the patch is another
  one.
- "All providers exhausted": the stage preference hides healthy ones.
- "A patch that does not improve is rejected": a second node with the id of a supported goal
  raises the count and is accepted.
- "The LLM never covers ungrounded claims": a claim whose id an earlier claim cites counts as
  evidence (`Bare` leaves such claims out).
- "Each trajectory step becomes a reactive event": the loop reads an attribute the step does
  not have and raises (`TrajectoryRaises`).
- "asyncio.to_thread gives true concurrency": over SQLite a pool thread may not use the
  connection, so `fork_async` always raises (`ReadRaises`).
- "Append-only ledger": it is rewritten as a whole (`EndsEarly` while saving).
- Recommendations: "all runs failed" is said of passed benches, which have no score, and a
  model may be named for runs of another; `RecommendationsHold` claims only what is left.

## 6. Not modelled

Abstracted in the modelled parts: matchers, filters and capabilities are constants;
payloads, prompts, texts, reasons and log lines are left out; uuid ids are fresh by
assumption; the order in which a sweep or a sort visits equals is the code's stable one.
Numbers of the evolution domains are integers in the units of the domain, so effects of
binary rounding are not seen. Replacing a registered model by one of the same id is left
out. Two things of the graph store are assumed of external code: that the process which opened
a graph file keeps it locked until it ends, and that each statement is committed by itself.
All sessions are taken to use one graph file, as by default, and one ratchet file; sessions on
different graph files that write one ratchet file at the same time are not modelled.

Left out altogether:

- Run state machine, claims, cancellation, idempotency, budget controller, evidence ledger:
  immutable records with a table of legal transitions each, which nothing but their tests
  calls. There is no behaviour beyond the tables. (Two disagreements were found in reading.)
- Permissive replay, `diff`, and the cache analysis of forks: what they look for does not
  occur in what the program emits (see the findings), so nothing reaches their interesting
  parts.
- Model and prompt genomes and the weighted aggregator: averages and formatting.
- MiniMax provider, verifiers, governance checks, executors, bridges, the parsing and
  printing of the command line: I/O, or pure functions of their input.
- `src/.agents/skills` and the other trees outside `src/src` but for the ratchet ledger:
  vendored skill scripts that are no part of the program. They are a third of the
  repository's lines; of the program itself much is dataclasses, parsing, prompts and
  printing, so that a model of all its control still covers a small share of its lines.
