# A verification development for forme-agent

forme-agent is a personal-agent runtime written in Rust (`src/crates`): an
append-only event store in SQLite, a harness that drives conversations and
actions under policy and approval, execution backends, coordination of
subagents, and, on top of those, device sync, federation with remote
executors, controlled evolution, a capability ecosystem, governed cognition and
a local gateway. The modules here model its stateful core; TLC checks them on
small instances and TLAPS proves most of the safety properties for every value of the
constants.

Files: `X.tla` models a component, `MCX.tla` gives it small inputs, `*.cfg` is
one run each, `XProofs.tla` holds theorems. `PROJECT.json` maps every definition
to the source lines it stands for and lists the runs, the mutants that each
property must catch, the hazards and the theorems. Definitions with a comment
"Fault:" are those mutants; nothing else uses them. Paths below are under
`src/crates` unless they start with `docs`.

## Inventory

| Component | State | Operations | What makes it correct | Hard parts |
|---|---|---|---|---|
| Event store (`store/sqlite.rs`, `schema.rs`, `cursor.rs`, `projection.rs`) | tables `events`, `idempotency_keys`, `session_state`, `transcript`, `events_fts`, `fts_coverage`, `schema_migrations`; a per-handle upcaster graph | append, append_expected, read, search, register_upcaster, rebuild | gapless streams, exactly-once domain keys, durable answers, no lost update, caches and index follow the stream | several handles on one file, rebuild outside the lock, registration between commit and memory, lost caches |
| Reactive harness (`harness/lib.rs`) | run registry, idempotency map, session locks, per-run record and mutex, cancel flag | submit, drive, resume, cancel, startup scan | one driver per session, authorised starts, no repeated or forgotten effect, one end per run, progress | threads of clients, driver and canceller; crash between effect and log; approvals answered late |
| Loop and context (`loop`, `context`) | turn counters, history, compaction boundary | step, build, compact | limits; what must survive a compaction does; untrusted text is never an instruction | repeated compaction, budget at its limit |
| Policy and approval (`policy`, `approval`) | rule sets and version, envelope; requests, grants, nonces | decide, request, resolve, authorize | a grant carries exactly what was asked, under the policy it was asked under | expiry, change of policy, reuse |
| Backends (`execution`) | - | execute, resume | started and outcome events around one effect | cancellation before and after the effect |
| Coordination routes (`coordination/lib.rs`) | node states, attempts, budget ledger, status | start, complete, fail, retry, cancel_parent | budget conserved, bounded retries, stopped routes are quiet | parallel nodes and retries in any order |
| Route driver (`execute_route`, `spawn_subagent`) | current round | start, wait, report | dependencies respected, returns | failures within a round |
| Federation dispatch (M4: `harness/m4.rs`, `store/sqlite.rs`, `execution/remote*.rs`) | authority epoch, grants, leases, claims, recovery records; pending approvals in memory; the executor's replay ledger | register, revoke, prepare, approve, recover, cancel; admit, execute, probe | a remote effect at most once, only under a live lease, completed only when proven | lost requests and answers, crashes on both sides, recovery against approval and cancellation |
| Federation ledgers (M4) | checkpoint artifacts, handoffs, retention, device signals | record, plan, accept | a handoff rests on a verified checkpoint, nothing is answered twice | check-then-act, crash between ledger and event |
| Replica (`store/replica.rs`) | the replica's stream and cursor, the authority's checkpoint | export, apply, acknowledge, rebind, discard | a prefix of the authority that can always catch up | lost, repeated, late acknowledgements, registry changes |
| Sync (M2-C) | streams of two stores, cursors, ledger | export, apply | each event once and in its place, sensitive ones stay | own appends of the target, duplicate and conflicting batches |
| Evolution (M3: `harness/m3_*.rs`, `store`, `memory/m3_c.rs`, `models/m3_b.rs` ...) | candidates, evaluations, promotions, active versions and history, pinned runs, projects, evidence | evaluate, promote, activate, roll back, bind, advance, rank | only proven versions are active, the log reproduces the projection, evidence only counts as it may | interleaved controllers, crash, failing steps |
| Ecosystem (M5: `harness/m5.rs`, `store`, `capabilities/ecosystem.rs`) | grants, admissions, plans, approvals, packages, registry, executor ledger | admit, prepare, approve, commit, distribute, boot | what is visible is what is enabled, revocation is final, every change approved | revocation against installation, crash between store and registry, torn files |
| Scheduler and intentions (`memory`, `cognition/temporal.rs`, `harness/lib.rs`) | the intention log, each handle's fold, leases, runs | create, claim, fire, drive, settle, cancel, recover | one winner per generation, one notification | several handles, stale folds, crashes in a claim |
| Cognition (`cognition`) | map, candidates, lineage, retracted and invalidated objects, interrupt ledger | propose, govern, retract, audit, tick, defer, reject | nothing derived from a retracted object is used; interruptions are rationed | restart between two appends, long derivations |
| Memory views (`memory`, `coordination/m2_c.rs`) | none (folds of the log) | rebuild, decide, recall | a stopped goal never continues, a forgotten memory stays forgotten | order of events of several runs |
| Extensions (`capabilities`, `protocol/provider.rs`, `execution/mcp.rs`, `app_api.rs`) | provider states, staged and active snapshots, policy version, discovered tools, bindings, index | configure, enable, reload, disable, discover, prepare, execute, revoke | an executed call is current; what is switched off is silent | change between preparation and execution |
| Gateway (`gateway`) | channels, claimed nonces, rate window, requests in flight, command stores | bind, control, signal, submit, admit | one execution per nonce and grant; trust follows authentication | restart, renewal during a request, delayed operations |
| Communication (`communication`) | sessions, used disclosure requests, the event queue, device grants | open, disclose, deliver, terminate, observe, revoke | what leaves stays within grant and decision; one end | callers that drain one another's events |
| Models, configuration, protocol types, evaluation, command line | none, or files | - | functions | - |

How the parts interact: clients (CLI, gateway, channels, scheduler) call the
harness; the harness appends events through `EventStore::append` and reacts to
nothing but calls, the store being its only durable state; the loop engine asks
the model and returns one proposal per turn; a proposal goes through policy,
approval broker, capability and competence rechecks to a backend, which writes
the started and outcome events through the harness's sink; coordination spawns
further runs through the same entry points; sync, replication, evolution and
ecosystem keep their own tables in the store's file and change them in the
transaction that appends their event.

## Modules

### EventStore, EventStoreProofs, MCEventStore

Several store handles on one SQLite file. The connection mutex and IMMEDIATE
transactions make every transaction one step; what the code does outside one is
a step of its own: an upcaster registration commits (`RegisterPersist`) before
it enters the handle's memory (`RegisterBind`); a rebuild takes the graph
(`RebuildStart`), captures and folds (`RebuildCapture`) and commits
(`RebuildFinish`); a cursor loads pages (`CursorNext`); a writer reads a version
(`ReadVersion`) and appends under it later (`AppendExpected`). `AppendEvent` is
the whole of `append_prepared` with its duplicate checks, domain key, derived
caches, index and coverage row. A handle restarts (`Restart`), a derived row is
lost (`LoseCache`). A call that fails rolls back and is a stuttering step.
Abstract data: kind, payload and provenance are one "body"; checksums and
semantic encodings are injective, so they are records; session_state and
transcript are one cache, the sequence of decoded events folded so far.

### Harness, HarnessProofs, MCHarness

The life of a run: submission in the three steps between which the code holds no
lock (`SubmitLookup`, `SubmitAccept`, `SubmitRegister`), the session queue
(`Bind`), a turn's outcomes (`LoopCancelled`, `LoopStops`, `LoopFinal`,
`LoopTool`, `LoopHandoff`), the policy decision with the external and
untrusted-ingress floors (`ToolPolicy`, `Floor`), the immutable plan and budget
(`PlanAction`), the backend's started event, effect and outcome (`StartAction`,
`StartRefused`, `PerformEffect`, `RecordOutcome`), verification (`AfterAction`),
the owner (`ResumeApproval`, `ResumeUnknown`, `ResumeHandoff`, `ApprovalExpires`),
cancel in its two parts (`CancelSignal`, `CancelTry`), `Crash`, and the startup
scan (`RecoverUnknown`, `BootDone`). `run[r]` is the RunHandle and its record;
`pc` is where the driving thread is; `RecordLocked` is the record's mutex. The
store is what EventStore promises: an append whose domain key is claimed with
equal semantics succeeds and writes nothing (`accepted`, `planned`).
`FreshIntents` says that the model proposes an intent id once in a run; with
FALSE, TLC finds the repetition that Observations describes.
Left out: failing store appends, simulation mode, the second PolicyEvaluated
event of the recheck, the passes inside one verification, prompts and contexts.

### Route, RouteProofs, MCRoute, RouteDriver, MCRouteDriver

`Route` is the public interface of RouteRuntime with its BudgetLedger, called in
any order; `RouteDriver` extends it with the control of `execute_route`, where a
subagent is a choice between success and failure. Results and instructions are
data. Retry of a node whose effect is unknown marks it OutcomeUnknown
(`RetryUnknown`); other retries are once per intent id (`Retry`). The nodes still
to be started in a round are a set (`batch`), taken in the order of
`ExecutionRoute.nodes` (`Order`). A unit of budget held by a node is a pair
(`Units`), so that a sum of reservations is the size of a set.

### Federation, FederationProofs, OneShotDispatch, MCFederation

Remote dispatch from both ends. `pending`, `control` and `at` are the
authority's memory: the map of submissions, the control lock and where each
thread is; `epoch`, `granted`, `lease`, `attempted`, `recovery` and `log` are
the store; `up`, `busy`, `ledger` and `report` the executor; `effect` is what
really happened, `sent` and `calls` count dispatches and driver calls. A lease
and its dispatch are named after the intent, so they are indexed by it, and
several runs may carry one intent.

`resolve_remote_approval` is `Grant` or `Deny`, then `Acquire`, `Save`,
`Claim`, `Send`, `Accepted` and `SaveReceipt`, each a transaction or a call of
the transport, all with the lock held; the lock is dropped and `Observe`,
`Finish`, `Release` and `WrapUp` settle the action, taking the lock again.
`DispatchFails`, `ResolveFails`, `ObserveFails`, `FinishRefused` and
`ReleaseFails` are its error paths; `Mark` and `MarkAppend` record the outcome
as unknown. `recover_remote_action` is `Recover`, `Recheck` and either the same
settlement or `FailNotDispatched`; `cancel_remote` is `Cancel` and `Fence`.
`ChangePeers` is a registration or revocation with the fencing of all live
leases in its transaction, `AckReplication` the one federation event that takes
no lock. The executor serves one connection at a time (`TakeDispatch`, `Drive`,
`CompleteDispatch`), returns with the first error (`RefuseDispatch`, `Stop`) and
reads its ledger back (`Restart`).

Abstracted: digests and bindings (they match), clocks (an expired lease or
approval is an error that the step may meet), policy and competence. A run's log
keeps the facts the properties speak of. Assumed: a run id is submitted once,
and the ground truth is what happened. Left out: placement and the wire replay
log of the executor; replication and the companion ledgers are in `Peers`.

`OneShotDispatch` is the abstract specification: the lease transition rules of
`docs/architecture/07-m4-federated-runtime-architecture.md` (5.1) for an action,
which is leased, claimed and sent once, in that order and under a live lease, takes
effect at most once, and is concluded under a live lease (`Complete`) or before any
claim (`NotDispatched`). `Promised` maps it to the store: an intent's stage is read
off its claim and its lease, its verdicts are the terminal facts of all runs that
carry it. `DispatchIsOneShot == Promised!Spec` is checked as a property of the run.

### Ecosystem, EcosystemProofs, PackageLifecycle, MCEcosystem

`Ecosystem` is the owner's control plane with the store's ecosystem tables, the
in-memory registry and the executor's package ledger. A control operation holds
`control_lock` (`doing`), but commits to the store (`Commit`) before it rebuilds
the registry (`Show`), and a distribution goes through the executor between its
authorisation and its record (`AuthorizeDistribution`, `Receive`, `Attempt`,
`Record`); a crash may come between any two, and `Boot` rebuilds the registry
with whatever publisher keys are configured again. `Receive` may stop in the
middle of either file of the executor's ledger (`TornBundle`, `TornRecord`).

`PackageLifecycle` is the abstract specification: what
`docs/architecture/m5-b-protocol-compatibility.md` promises of one package.
`Governed` instantiates it with the installed state, release and generation of
the store's rows, and `FollowsLifecycle == Governed!Spec` is checked as a
property of `Ecosystem`.

### Peers: Replica, Sync, Custody, Gateway, Communication, PeersProofs

The services of the authority to its peers. No step of one reads what another
writes, so `Peers` chooses one of them in its initial state and lets the others
rest: one run covers all their behaviours, none of which a shuffle would change.
- `Replica`: export in two steps with the lock dropped between
  (`PrepareExport`, `RecordExport` or `ExportRefused`), apply at the cursor,
  acknowledgement, registry changes that start a new epoch, rebinding and
  discarding the replica's database. Batches and acknowledgements stay in sets
  from which any is delivered, late, again, or never.
- `Sync`: two stores that both append to an aggregate, batches asked for from
  any version, withheld (sensitive) events, the cursor, the ledger of batches.
- `Custody`: checkpoint artifacts, handoffs by several planners, retention
  receipts and device signals; ledger and events are separate writes, and the
  process crashes in between.
- `Gateway`: a peer's channel bound to the grant of its time, control nonces and
  signals claimed by workers whose steps interleave with renewal and revocation;
  provenance of a submitted message; the HTTP server's rate window, and the
  authorised operations that run after it.
- `Communication`: callers that share one fabric: each takes the whole event
  queue when it records or submits; sessions, disclosures, deliveries,
  terminations; a device whose observation is held while it is revoked.

### Growth: Evolution, LongHorizon, StrategyMemory, Fitness, Selection, GrowthProofs

Controlled evolution, composed the same way.
- `Evolution`: every read a controller makes before its append is a step
  (`BeginActivation`, `ActivationReadsActive`, `ReadVersion`, `AppendControl`),
  so two controllers, a pause, runs that bind and a crash come between them.
- `LongHorizon`: a project that defers, stops, advances checkpoint by checkpoint,
  goes outward, fails at each step and is lost with its process.
- `StrategyMemory`: the projector folded over every log of the bound, compared
  with what the log says when read as a whole.
- `Fitness`: immutable registrations, assessments of outcomes, generations that
  replace one another, the proactive tick. `Selection`: ranking by evidence,
  narrowing of routes, budgets and scaffolds.

### Assistant: Schedule, Cognition, Judgement, Proactivity, Projections, Extensions, Approvals, Context, AssistantProofs

What the assistant keeps for its owner, composed the same way.
- `Schedule`: one reminder, several live handles that fold the log once and then
  see their own appends only; claim (`ClaimLease`, `ClaimFires`), drive,
  settlement and cancellation are separate steps, with crashes of each handle.
- `Cognition`: proposals in two appends, governed transitions, lineage, retraction
  with the re-evaluation of everything derived, the audit of what was not
  reproduced, and a restart that folds the log (`FoldCognition`).
- `Judgement`: the governor and the competence ceiling as evidence accumulates.
- `Proactivity`: ticks, the ledger of interruptions, deferral, rejection, restart.
- `Projections`: goal lineage, hot and cold memory with its recall, and the
  resource graph, each rebuilt from every log of the bound.
- `Extensions`: the life cycle shared by plugins, MCP servers and connectors;
  staging and commit of plugin snapshots, managed policies; discovery, schema
  binding, and calls that are prepared, overtaken and rechecked.
- `Approvals`: policy, envelopes, floors, requests, grants, expiry, policy changes.
- `Context`: compaction, the layered builder and the loop's turns and limits;
  texts are their costs.

## Runs

Bounds are small sets named in the cfg; what is bounded is named here.

| Run | Instance | Shows |
|---|---|---|
| `event_log` | 2 handles (with and without FTS), 2 runs, 6 submitted events that share ids and a key in all combinations that the duplicate checks tell apart, a writer that may use a version it read before, a cursor with page size 2 | `LogIsSound` (gapless streams, keys match events), `AnswersHold` (answers are durable, no lost update), cursor order and termination |
| `derived_caches` | 3 handles with schema 1 and 2, with and without FTS, two implementations of one upcasting step, a rebuild, restarts, one lost cache row | `DerivedFollowsLog` (caches, search coverage), one implementation per step |
| `run_sessions` | a conversation and a direct high-impact action in one session, one crash, one turn, two runs | `RunsEndWell` (one driver per session, one end, verified completion); every accepted run comes to rest |
| `run_actions` | one run, trusted or untrusted, five kinds of action (allowed, asking, denied, high-impact, autonomous external), three turns, two crashes, action budget 2 | `ActionsAreSound` (authorisation, at-most-once effects, budget), nothing forgotten |
| `route_api` | all graphs on three nodes with one edge per pair and a self loop, three policies, two retry intents, budget below the total cost | `RouteIsSound` (acyclic, conservation), `RuntimeIsSound` (quiet stops, bounded retries) |
| `route_driver` | the same graphs under the driver, one node unaffordable | `DriverIsSound` (no stuck route, dependencies, refusals), return with all units |
| `federation` | one intent submitted in two runs, two threads, two epochs, and one fault: a crash of the authority, a stop of the executor or a lost compare-and-swap | `DispatchIsSound` (one dispatch and driver call; not-dispatched is true), `AuthorityIsLive` (requests leave, `DispatchUnderLiveGrant`, and completions are recorded, `CompletionIsEarned`, only under a live lease), the refinement `DispatchIsOneShot`, the lock is given back |
| `ecosystem` | one publisher with two grants, two releases of one package (the second depends on the first), three approval nonces, one plan at a time, one fault (crash, torn file, fenced lease) | `EcosystemIsSound`, `NothingIsUndone` (revocation is final, the ledger immutable), the refinement `FollowsLifecycle` |
| `peers` | stream of 5, 2 peer epochs, 3 exports; aggregates of 4 and 5 events; 2 planners, 2 receipts; 2 workers, 1 nonce, 2 grants, clock 2; 2 callers, 3 messages, limits of 2 | `ReplicaIsSound`, `SyncIsSound`, `CustodyIsSound`, `GatewayIsSound`, `CommunicationIsSound`, `PeersOnlyAdvance` |
| `growth` | 2 controllers, one aggregate, 3 evolution events, one bound run; 2 checkpoints, 3 keys; logs of 4; 4 outcomes; 3 resources with 4 pieces of evidence | `EvolutionIsSound`, `ProjectIsSound`, `MemoryIsSound`, `SelectionIsSound`, `GrowthIsEarned` |
| `assistant` | 2 handles, clock 3, 6 intention events; 5 cognition events over 3 objects; clock 2 and 3 proposals; logs of 4 facts; 2 plugins, 1 server, 1 connector; 2 approvals and nonces, 2 policy versions; 5 turns with a context of 20 tokens | `ScheduleIsSound`, `CognitionIsSound`, `ProactivityIsSound`, `StoppedGoalNeverContinues`, `ExtensionsSound`, `ApprovalsSound`, `ContextSound`, `DerivedFollowsEvidence` |
| `one_run_per_key` | the smallest instance that shows the case | a disagreement with a document, below |

The named properties are conjunctions; each part has its comment and its name in
the module, and the mutants of a property aim at different parts of it.

Two clients, two runs and one crash suffice for the races of the harness,
because each lock and map entry is contended by two threads at most; three turns
and two crashes let an action be planned, cut off, recovered and followed by
others. Three nodes give chains, diamonds' halves, cycles and parallel
branches. In the federation two runs of one intent and two threads give every
race on one lease, dispatch and lock (intents share nothing but the lock and
the epoch), one revocation in flight needs two epochs, and one fault between any
two steps is what recovery is for; the theorems hold for any number of each.
In the ecosystem two releases give update, rollback and a dependency, two grants
a renewal, and one fault each place where the store and another copy of its state
can part. A replica needs two epochs and three exports for a late
acknowledgement to meet a newer binding. Two controllers suffice for a lost
compare-and-swap, three events for an activation, a second one and a rollback.
Four facts (a memory log of four, five events of cognition) are enough for a
chain of two derivations that is retracted and folded again; the context's costs are
chosen so that one, two and three entries fall on both sides of the threshold.
Bounds on counters: `MaxEpoch`, `MaxFaults`, `MaxRuns`, `MaxTurns`,
`MaxActions`, `MaxCrashes`, `CacheLosses`, and in the newer modules every
constant whose declaration says "bound". Deadlock is not checked where the
modelled system simply finishes. `growth` and `peers` use the symmetry of model
values that no definition compares with another by order.

### Fairness

Weak fairness of the threads the operating system schedules: submission,
driving, cancellation and the startup scan (`Fairness`), the next page of a
cursor that its caller keeps reading, the driver of a route, a thread inside a
call of the federation runtime (`FairSpec`: every wait on the transport ends in
an answer or in its timeout; the executor need not run). Model calls and
backends have timeouts, so they return. Nothing is assumed of the owner (an
approval may never be answered), of crashes, or of fairness between threads that
compete for a session: `SubmittedRunsRest` holds because a suspended or ended
run gives its session back. `Peers`, `Growth` and `Assistant` state no fairness:
their properties are about what may never happen, and their callers may stop.

## Proofs

`EventStoreProofs` proves `LogStaysSound`, `AnswersStayTrue`,
`OneUpcasterPerStep`, `CursorsStayInOrder` and `DerivedStateFollowsLog` for all
constants allowed by `StoreAssumption`. The argument: `GaplessStreams` is not inductive alone, since
`Version` is a maximum and the next row goes above it; with the type of the log it
gives that the rows of a run are numbered by `1..Version(r)` (`VersionOfNumbered`,
`InsertKeepsTables`), so an insertion extends exactly one interval. The key
table is inductive together with unique event ids. Answers and
compare-and-append results only need that rows are never removed or changed.
Upcaster uniqueness needs the strengthening that graphs and pending
registrations are subsets of the persisted migrations, on which steps are
unique. For cursors, rows numbered without gap are read in the order of their
numbers (`StreamOfStretch`), so a page starts where the cursor stands
(`PageOfRun`), and what is handed out, what is buffered and where the next page
starts follow one another (`CursorOK`). For what is derived (`DerivedInv`), the
coverage row need only be right where it names all the events that are there
(`Covered`): an append by a handle without an index leaves it behind for good, since
events are never removed. A captured rebuild is known to decode (`RebuildsOK`),
and its commit compares events and graph, so that it folds what is there
(`FoldFollows`). A row appended at the handle's own version is decoded as it is
because its plan is the empty one (`PlanSelf`, from the recursive plan by its
minimal counterexample, `StepsExist`).

`RouteProofs` proves `RuntimeStaysSound` and `RouteStaysSound` for all graphs,
costs and budgets, and `DriverStaysSound` for all orders of the nodes besides.
`RouteInv` adds to the properties the attempt a pending node still has
(`RetriesLeft`), because `attempts` is bounded only if the attempt that a retry
opened is counted when it is granted. `LedgerOK` is conservation with the type of
the ledger. That validation accepts exactly the acyclic graphs is shown for every
graph: Kahn's rounds remove more nodes until they repeat (`RemovedGrows`), they
never remove a node of a circle (`CirclesStay`), and the nodes they leave are one
(`ValidIsAcyclic`). `DriverOK` says what `execute_route` relies on: between rounds
nothing runs, the nodes of a round stay runnable while earlier ones of it finish,
and a running route without a failed node has a runnable one (`RunnableExists`).

`HarnessProofs` proves `RunsAlwaysEndWell`, `ActionsAreNeverForgotten` and
`BudgetIsKept` for any clients, requests, policies, budgets and number of
crashes, and `ActionsStaySound` for fresh intent ids. What the log and the
record of a run know of each other is the invariant `Inv`: a record that is
driven, queued or suspended belongs to a log without an end (`Open`); an action
that started and has no outcome is the one the record is busy with or suspended
on (`InHands`), which is why the startup scan finds it; the record's turns and
the starts in the log add up to the budget (`BudgetOK`); two runs of a session
never hold its lock at once (`LocksHeld`). Most steps of the driving thread
finish the run, suspend it, leave it to its caller or go on elsewhere; each of
these four shapes is shown once to preserve the invariant.
`Authority` says what a start rests on: a record about to start an action has
the plan, the decision and the approval it asked for in its log, and so has
every start. It needs `IntentsAreFresh`: the model and the owner's direct
actions never use an intent id twice. The code does not enforce that. The two
ways to break it are recorded: a repeated intent id is performed again
(Observations), and a direct action retried under one key opens a second run
(`one_run_per_key`). Without the hypothesis `BudgetIsKept` still bounds what a
run may start.

`EcosystemProofs` proves `StoreAndRegistryAgree`, `NothingIsEverUndone` and
`LifecycleIsFollowed` for any publishers, packages, dependencies, scopes and
numbers of grants, plans and faults. `DoingOK` is what the operation that holds
`control_lock` has established: its plan was asked for in the state it is applied
to, by a publisher in good standing. `RegistryOK` compares registry and store
package by package while the process is up: a package that is not being changed
is shown as it is enabled (`Shown`), one that is committed and not yet shown is
one step behind (`Pending`), and a revoked one still shown is outside what the
revocation lists, or about to be taken away (`Tolerated`).
`NoncesOK` bounds a package's generation by the nonces spent on it, with the one
that is claimed and not yet used (`Unspent`); `VersionOK` writes the registry's
version as the size of a set of pairs, so that it grows with each of its parts.
`LifecycleIsFollowed` is the refinement: every step of `Ecosystem` is a step of
`PackageLifecycle` or a stutter under `Governed`'s mapping.

`PeersProofs` proves `SyncStaysInPlace`, `CustodyStaysSound`,
`ReplicaStaysSound`, `PeersAlwaysAdvance`, `GatewayStaysSound` and
`CommunicationStaysSound`, each from the invariant of its own service, since a
step moves one service and leaves the others alone (`ServicesStep`).
- A replica is a prefix because every batch ever exported is an interval of the
  stream read from a checkpoint of its time (`ExportsOK`), batches that were
  applied follow each other, and the checkpoint does not pass a replica that kept
  its database (`ReplicaOK`).
- A handoff is told once because at most one planner has the new plan, and how far
  it has come is what the run's events say (`PlannersOK`); what was verified
  before a checkpoint stays so while it is recorded (`RecordingOK`).
- What the gateway executes it claimed before (`ClaimsOK`), on a channel that was
  live when the request began (`WorkersOK`). The rate window resets when it has
  passed, so a burst at the end of one window and one at the start of the next
  both fit in a stretch as long as a window: the bound is twice the limit. The
  inductive form (`CountsIn`, `AdmittedApart`) says that the request admitted
  twice the limit later comes a whole window later; that no stretch holds more
  follows by taking the first request of a stretch (`LeastOf`, `StretchSize`).
- What a session authorised is what it was charged (`ChargesOK`). Tokens are
  counted as the pairs of a decision and one of its message's tokens
  (`TokensOf`), so that a sum is the size of a set.

`FederationProofs` proves `DispatchStaysSound`, `DispatchIsAuthorised`,
`CompletionStaysEarned` (together `AuthorityStaysLive`) and the refinement
`OneShotIsImplemented` for any runs, intents, threads, epochs and faults. The
inductive invariant `IInv` rests on the control lock: whoever is between the
approval and the stored receipt, in a fence or in a failure, holds it
(`LockedStepsHoldControl`). Around it: a live lease is current
(`AcquiredLeasesAreCurrent`); a stored record or a claim has a lease that was
once taken (`LeaseTaken`); a thread about to send has a live lease, a claim and
nothing sent yet (`ReadyToSend`); what was sent was claimed and what was driven
was sent (`SentWasAttempted`, `DrivenWasSent`); the intent of a run that failed
as not dispatched is unclaimed, has had its lease, and nobody is on the way to
its claim (`NeverClaimed`). A claim after the failure would need a second lease
of the same intent, which the store refuses; and a change of the registry needs
the lock, so it cannot come between claim and dispatch. There is one lemma per
action that touches leases, claims or dispatches, and one (`QuietStep`) for all
others. `CompletionStaysEarned` shows, step by step, that no other path of
either side than `Finish` can add the completion to a run's record, and that
`Finish` reads lease and ground truth in the step that records.
In `OneShotIsImplemented` seven steps of a caller, a change of the registry and the
driver's effect are steps of `OneShotDispatch`, for the intent of the run
(`CallersImplement`, `ChangePeersImplements`, `ExecutorImplements`); all others, a
crash among them, are stutters (`StutterOf`). It needs of the invariant that a claim
has had a lease and that a fence has one to end (`LeaseTaken`), or the stages would
not follow each other, and `NeverClaimed` for a claim after a failure.

`GrowthProofs` proves `EvolutionStaysSound`, `RunsAreNeverRebound`,
`ProjectStaysSound`, `MemoryStaysSound`, `SelectionStaysSound` and
`GrowthStaysEarned`, again each from the invariant of its own subject.
- Control events are appended in the version that was read, so the history of an
  aggregate is a chain: `HistoryOK` ties the history, the active strategy, the
  version and the control events in the log to one another, and `CallsOK` says what
  a call between its reads and its append has read, and that a call without the
  owner holds the evidence.
- What a project has recorded, what it is about to record and its checkpoints in the
  log are one numbering (`AdvanceOK`, `RecordsOK`). It is stopped only between its
  advances (`StoppedInv`).
- The strategy memory's projection of a log is the fold of its facts, given by the
  trace of its passes (`Foldings`, `FoldingsExist`, `PassesAgree`), so a longer log is
  one pass more (`ProjectedAppend`). `SaidOf` is the projection read from the log as a
  whole; `ProjectSays` shows, for each kind of fact, that both move alike.
- The order of a ranking is total (`ScoresAreNumbers`, `EligibleInOrder`), so the
  positions of the eligible are exactly 1 to their number: they ascend along the
  order (`RanksAscend`), and a set of n different numbers below n is all of them
  (`RanksAreAll`). `NarrowKeepsHeaviest` cites the same two lemmas for the nodes of a
  route. Evidence moves the score of one resource (`ScoreMoves`); who moves up has
  nobody ahead of it that was not (`UpIsUp`), who moves down keeps ahead of it whoever
  was (`DownIsDown`).
- Of the evidence for a strategy each new outcome leaves the counts of all kinds but
  its own (`EvidenceGrows`), which is all the assessments look at (`GatheredCounts`).

`AssistantProofs` proves `ApprovalsStaySound`, `ExtensionsStaySound`,
`ScheduleStaysSound`, `StoppedGoalsStayStopped`, `ProactivityStaysSound`,
`CognitionStaysSound`, `ContextStaysSound` and `DerivedStateFollowsEvidence`; a
step moves one faculty (`FacultiesStep`).
- What was performed stays covered (`PerformedOK`) because requests never change
  and a grant only becomes used (`Settled1`); a one-shot grant that has been used is
  consumed, hence never used again.
- What the index and the hooks hold of plugins is what the active ones contribute
  (`Contributed`). A plugin that is retired leaves nothing behind because its
  entries are removed by source, and no server or connector shares that source
  (`ExtensionsAssumption`). A tool has a schema only if it was discovered since its
  server was last switched off (`CallsOK`), so a call that finds the digest it was
  prepared with is current.
- What a handle believes is a fold of the events it has seen, over a log that others
  append to. A fold is given by the trace of its intermediate results (`Trace`),
  which exists (`TraceExists`) and is unique (`TracesAgree`), both by the least
  index at which they would fail (`LeastOf`): that takes the place of an induction
  over the log. An event a handle has not seen leaves its trace as it is
  (`AppendAny`), one that it appends itself is the next step (`FoldSeenAppend`).
  A generation is claimed once because a lease is appended only where no lease in
  the log has its generation (`LeaseWins`, the store's domain key), and the owner is
  notified once because the reminder's record leaves "acting" with the delivery
  (`ReminderInv`).
- A lineage is the same kind of fold. `LineageOK(log, k, s)` says what it has made
  of the first `k` facts: a revocation among them is remembered, and a cancelled
  or ended intention is not one that continues. `LineageStepOK` goes through the
  kinds of facts once.
- Within one window the proposals that interrupted, with the impulse that waits to
  become the next one (`Positions`), are no more than the ledger's entries of that
  window (`LedgerCovers`): popping from the front only takes entries that have left
  it (`ExpiredKeeps`), and a delivery that interrupts adds one. Proposals and
  waiting impulses are one row (`OriginAt`) in which the key of a commitment or of a
  deferral occurs once, and only after it was settled in the log (`RaisedInv`).
- A recorded re-evaluation names all that was derived from the object in the graph
  its last retraction recorded (`LastRetraction`, `Reevaluates`), and the cognition
  holds as retracted and invalidated what the log says so far (`Heard`); after a
  restart it is the fold of the whole log, which has heard all of it (`LogHeard`).
  The derived objects are reached in rounds (`RoundsExist`, `DerivedByRounds`); a
  chain of n derivations is covered after n rounds and no chain needs more rounds
  than there are objects (`ChainsReach`). The candidates move with every append
  (`CandidatesAppend`), so they are those of the log in every state.
- Caution asks for no more than autonomy because its thresholds are lower
  (`CautionAsksLess`), which needs the counts of a case to be numbers (`CaseInv`).
- Building a context is a fold over its layers: each item is placed, left out by
  name, or fails the build (`PushPlaces`), so a build without failure has placed
  every rule (`BuildPlaces`, `BuildShows`), at a total that is never above what is
  usable (`TotalGrows`). The governed events of a stream depend on its front only
  (`GovernedAgrees`), so a stream that grew has the same ones up to the last
  compaction (`LineageContinues`).
- A ceiling is the least of four levels less the failures (`CeilingIs`). `NoBetter`
  orders cases by what a ceiling is taken from, ceilings follow that order
  (`CeilingsInOrder`), and every item moves the case along it by its kind
  (`ItemsWeigh`).
- The graph of resources is folded run by run, so a new event is put into the
  middle of the order (`FiledIs`, `Inserted`), and the graph is not the old one
  moved by one step. It is above it (`Above`): every node is still there, and what
  was unavailable is. The two traces agree up to the new event, which leaves the new
  one above; every later event keeps it above (`AboveKept`, `InsertedAbove`). That
  rests on what one event does to one node (`Learns`), and so does the count of
  outcomes along the trace (`TraceCounts`), to which the event put in adds at most
  itself (`TestsInserted`).

Assumptions on constants, besides types: identifiers differ from the model's
"none"; limits and lifetimes are naturals, page sizes and attempt numbers positive;
`Order` numbers the nodes of a route differently (`OrderAssumption`;
`validate_route` lets no id occur twice); and, for `ActionsStaySound` alone, fresh
intent ids (`IntentsAreFresh`, above). Actions with one plan digest agree on what
the floors look at (`ApprovalsAssumption`: the digest is taken over the whole
intent and backend, `execution/planner.rs`); providers of different kinds are
different, and each plugin has a manifest it was first found with
(`ExtensionsAssumption`: index and registries are keyed by kind and id). Keys of
observations, commitments and deferrals differ, and commitments are finitely many
(`ProactivityAssumption`: `Impulse::origin_key` gives them different prefixes).
The ends a strategy candidate comes to include promotion (`MemoryAssumption`).
Attention, costs and the weights of a selection policy are naturals and references
are finitely many and ordered (`FitnessAssumption`, `SelectionAssumption`: the code's
fields are unsigned, and a reference is its text). The objects of the map and of the
models are finitely many (`CognitionAssumption`: they are those of one log).
Thresholds, confidences, windows and budgets are naturals (`AsymmetryAssumption`,
`ProjectionAssumption`, `ContextAssumption`: unsigned fields, and confidences in
tenths), and the reserve of a context is below its tokens (`ContextAssumption`;
`context/lib.rs:503` rejects any other).

Only model-checked: the liveness properties (`CursorsTerminate`, `SubmittedRunsRest`,
`RouteReturns`, `ControlIsReleased`), since fairness is out of the prover's reach.
Every other property of the runs is the conclusion of a theorem. What a recursive
definition or a built-in operator computes (`SelectSeq`) cannot be expanded in a
proof; the models use folds there, and a fold is reasoned about by its trace.

## Disagreements with the documents

One is a run that TLC refutes, with the quoted sentence in `PROJECT.json`:
two concurrent submissions of one key open two runs (`one_run_per_key`).

### Observations

Met while modelling, with no run of their own. The models keep to what the code
does; a property is stated so that it holds of that.

Harness and routes:
- a repeated intent id is swallowed as a retry of its plan and performed again
  (`harness/lib.rs:3437`; `docs/architecture/canonical-contract.md:136`);
- `cancel` only tries the record's lock; a driver that then suspends for approval
  does not look at the flag again (`harness/lib.rs:4296`; docs/prd/03:123);
- a run whose RunAccepted was swallowed makes every later startup scan fail once a
  crash cuts its action off (`harness/lib.rs:2114`; docs/prd/03:122);
- an expired approval request cannot be resolved by anyone, `pending()` hides it
  and the run goes on waiting (`approval/lib.rs:280`; docs/prd/03:133);
- an error in a drive continued by `resume` leaves the run Running without a
  driver (`harness/lib.rs:4332`); an approved direct action whose backend fails is
  driven on into the model loop (`harness/lib.rs:4340`);
- `execute_route` starts further subagents for a cancelled parent
  (`harness/lib.rs:2756`; docs/prd/12:70); a node that fails last with edges to
  nothing fails the route, one that fails before another completes is tolerated.

Policy, approval and context:
- an envelope whose approval rule is Ask is answered before the rules are
  consulted, so an approval can override a Deny rule (`policy/lib.rs:276`);
- a grant by parameter pattern can only ever authorise one plan digest;
- the conversation is not part of the estimate that triggers compaction, and the
  history is only ever set by compaction; a compaction that cannot reduce ends the
  drive with an error and the run without an end (`harness/lib.rs:3071`);
- only rules beyond the limit are listed as excluded; the whole assembled context
  is sent as one System message.

Federation and its ledgers:
- `finish_remote` refuses a verified outcome other than completed, so a remote
  action that verifiably failed never ends its run (`harness/m4.rs:1761`); a lost
  lease, record or claim after the approval is used up leaves the run without an
  end or a recovery (`harness/m4.rs:1555`), and so does a crash between the
  release of the lease and RunComplete (`harness/m4.rs:1805`);
- two recoveries of one reserved run both append ActionFailed (`harness/m4.rs:1017`);
- any registry event, of any device, makes every open remote approval
  unapprovable and fences every lease in flight (`store/sqlite.rs:4566`); the
  executor's server returns with the first error (`execution/remote_tls.rs:366`);
- a crash between `record_federated_handoff` and its two events loses the events,
  one after a retention request its audit run; a request recorded again after
  Verified fails; a checkpoint is validated and recorded without a lock.

Replication and sync:
- the acknowledgement is an event of the replicated stream and is exported back
  (`docs/architecture/canonical-contract.md:480`); a replica that holds a cursor
  cannot apply again after any peer is registered or revoked, nor after its
  database was discarded; after a discard a late acknowledgement can leave the
  checkpoint behind the replica;
- sync compares version numbers only; a run's stream starts with RunAccepted,
  which is always redacted, so runs cannot be synced authoritatively.

Evolution:
- a first activation does not compare its evaluation's baseline; the first
  strategy cannot be promoted through the harness; a rollback may go to any stable
  strategy and its evidence is not tied to the version that failed;
- event ids restart with the process; the pause is in memory only; two aggregates
  active for one domain and scope make `bind` ambiguous; recovered runs have no
  binding; a CandidatePromoted before its candidate is ignored live and processed
  on rebuild;
- `compare_coordination_fitness` is not antisymmetric; failures can raise a rank
  through the count of evidence; a truncated node loses its dependencies; a
  failing step leaves a long-horizon project unadvanced, and the project's
  structure is not persisted.

Ecosystem:
- the local runtime boots with an empty keyring and expects the registry to
  rebuild (`harness/m5.rs:605`, `harness/lib.rs:676`), so it cannot start after any
  package was enabled; a renewed or expired publisher grant has the same effect
  and blocks every change of that publisher's packages;
- revoking a grant under another scope does not fence what it made visible
  (`harness/m5.rs:1002`); a rollback may go to any admitted release, while
  docs/requirements/13-m5-scope-decisions.md:44 speaks of known-good ones;
- after a lost compare-and-swap in `record_verified_distribution` the executor
  holds a package that can never be recorded; a torn record file makes every later
  install of that executor fail (`harness/m5.rs:164`).

Scheduler:
- a claim is not atomic across handles (`memory/lib.rs:991`; docs/prd/18:322); a
  handle never refreshes its fold, so a stale one can create a cancelled intention again;
- a crash after SessionBound and before ActionStarted makes every reclaim deferred
  for good; failing commitment events leave the run accepted and undriven until a
  restart; recovery of a cancelled or expired job whose run has ended is an error
  that stops the gateway's start (`gateway/server.rs:166`);
- a cancel between claim and drive does not stop the run; a crash in
  `run_failure_followups` repeats the follow-up, and follow-ups have follow-ups.

Cognition and memory:
- a downgrade is not folded, so the object is active again after a restart
  (`cognition/lib.rs:2060`; docs/requirements/02:306); so is a promotion repeated
  in memory without an event lost; a crash between RetractionEvent and
  ReevaluationTaskCreated leaves what was derived usable; one between the two
  events of a proposal leaves it unoffered; what is not in the map is absent after
  a restart and counts as usable; `last_reproduced_at` is 0 then, hence stale;
- `demote_user_candidate` removes the attribute another candidate set under the
  same key; the fold resets the evidence priority;
- a commitment is resolved Done before it is raised, so a crash loses it
  (docs/prd/13:69); suppressed origins use up attention; suppression and the
  ledger are lost with the process, and proposal numbers restart, so a deferral may
  be refused for an id of the process before;
- of several checkpoints the lineage takes the one with the greatest reference;
  resolutions before their creation (in the order of run names) are ignored; a
  revoked resource reappears under another kind.

Extensions: nothing calls the registries from two threads, which the models rely
on; a disabled server or revoked connector keeps its capability in the index until
it is indexed again; a grant renewed narrower leaves an active snapshot's
capabilities beyond it; a policy of the same version with other content is taken.

Gateway and communication:
- a call that takes events persists those of all sessions under its own run, so
  another's valid delivery fails for want of its decision, and an append failure
  loses them; a delivery under a known key loses its prelude; a disclosure
  request is used up and the budget charged even if the submission fails; sessions are
  lost with the process and numbers start at 1 again;
- an observation authorised before its device is revoked is submitted after it; a
  revocation is in memory before its event, so a failed append revives it;
- the rate window is fixed (twice the limit may pass around its boundary) and
  counts before the bearer is checked; a timeout does not cancel the operation; a
  control nonce whose command then fails cannot be retried; a message id used
  again by another participant of one adapter is answered with the first's run.

## Not modelled

Model providers (network calls; an answer is a choice), configuration and doctor
(parsing and reports), protocol types (data and the validation of its fields,
modelled where a module uses it), evaluation suites (fixtures and thresholds
over finished runs), the command line. Of modelled components the notes in
`PROJECT.json` say what is left out: mainly transports (TLS, HTTP, PTY, browser),
placement, exact replay and canary sampling of strategies, evaluation schedules
and follow-up runs, search and graph scoring, the console's pages, skills'
search, simulation mode, and failures of the store itself under the harness.

## Plan

The modules, runs and theorems planned are done. What could still be added are
parts of the components marked partly: placement and the wire replay log of the
executor, exact replay and canary sampling of strategies, evaluation schedules and
follow-up runs.
