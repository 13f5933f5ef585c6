------------------------------ MODULE Federation ------------------------------
(***************************************************************************)
(* Remote dispatch (M4): one authority (FederationRuntime of               *)
(* crates/harness/src/m4.rs over the SQLite store) that approves a remote  *)
(* action, takes a lease for it, dispatches it to one executor             *)
(* (RemoteExecutorServer and GuardedRemoteExecutor of crates/execution),   *)
(* and settles it from the executor's receipt and an independent ground    *)
(* truth.  Any of it may crash or stop, and the request, the answer or     *)
(* both may be lost.                                                       *)
(*                                                                         *)
(* A lease and its dispatch are named after the action intent, so their    *)
(* state is indexed by the action; several runs may carry the same intent. *)
(* Callers are the threads inside the runtime.  Every step of a caller is  *)
(* one store transaction or one call of the transport; what it does under  *)
(* control_lock is fenced by the variable control.                         *)
(*                                                                         *)
(* Abstracted: digests, approvals' nonces and clocks (an expired lease or  *)
(* approval is an error the step may meet), policy and competence (they    *)
(* refuse a submission before it is pending), and the observer's events.   *)
(* Assumed: each submission brings a new run id, and the ground truth is   *)
(* what happened.                                                          *)
(***************************************************************************)
EXTENDS Naturals, Sequences

CONSTANTS
  Runs, Actions, Callers,
  ActionOf,          \* the intent each run carries
  NoOne, NoRun, NoAction,
  MaxEpoch,          \* bound: peer registrations and revocations
  MaxFaults          \* bound: crashes of the authority, stops of the executor
                     \* and lease transitions that lose their CAS, together

ASSUME FederationAssumption ==
  /\ ActionOf \in [Runs -> Actions]
  /\ NoOne \notin Callers /\ NoRun \notin Runs /\ NoAction \notin Actions
  /\ MaxEpoch \in Nat /\ MaxFaults \in Nat

VARIABLES
  epoch,             \* federation_state.authority_epoch
  granted,           \* the executor's row of federated_peers is not revoked
  lease, leaseEpoch, \* remote_leases: state and authority_epoch
  attempted,         \* remote_dispatches.attempted
  recovery,          \* a remote recovery record of the run is stored
  log,               \* the run's facts in the event log, in order
  pending,           \* FederationRuntime.pending, in memory
  control,           \* holder of control_lock
  at,                \* where each caller is
  wire,              \* the dispatch request is on its way to the executor
  sent,              \* transport.dispatch calls
  up, busy,          \* the executor's server runs, and the dispatch it works on
  ledger, report,    \* its replay ledger and the outcome in the receipt
  effect, calls,     \* what the driver really did, and how often it was called
  faults

durable == <<epoch, granted, lease, leaseEpoch, attempted, recovery, log>>
memory == <<pending, control, at>>
network == <<wire, sent>>
executor == <<up, busy, ledger, report, effect, calls>>
vars == <<durable, memory, network, executor, faults>>

LeaseStates == {"none", "acquired", "released", "fenced"}
Facts == {"waiting", "granted", "denied", "started", "unknown", "completed", "complete", "failed", "runfailed"}
Phases == {"absent", "waiting", "granted", "done"}
Operations == {"none", "resolve", "recover", "cancel"}

\* Steps taken with control_lock held.
ResolveSteps == {"acquire", "save", "claim", "send", "wait", "receipt"}
FailSteps == {"fail", "failRelease", "failWrap"}
LockedSteps == ResolveSteps \cup FailSteps \cup {"release", "wrap", "fence"}
Steps == LockedSteps \cup {"idle", "truth", "finish", "recheck", "mark", "markAppend"}

Idle == [op |-> "none", step |-> "idle", run |-> NoRun]
Absent == [phase |-> "absent", fresh |-> FALSE, epoch |-> 0, lease |-> FALSE]

Has(r, fact) == \E i \in DOMAIN log[r] : log[r][i] = fact
Records(r, fact) == log' = [log EXCEPT ![r] = Append(@, fact)]

Goes(c, step) == at' = [at EXCEPT ![c].step = step]
Enters(c, op, step, r) == at' = [at EXCEPT ![c] = [op |-> op, step |-> step, run |-> r]]
Fault == faults < MaxFaults /\ faults' = faults + 1

\* The caller's function returns and drops the lock guard it may hold.
Returns(c) ==
  /\ at' = [at EXCEPT ![c] = Idle]
  /\ control' = IF control = c THEN NoOne ELSE control

\* Every federation event advances registry_version, which the digest of a
\* submission's snapshot covers: approvals still open no longer match.
Outdated == [r \in Runs |-> [pending[r] EXCEPT !.fresh = FALSE]]

-------------------------------------------------------------------------------
(* Submission and approval.                                                  *)

\* prepare_remote_action: the run waits for the owner.
Prepare(r) ==
  /\ granted /\ pending[r].phase = "absent" /\ log[r] = <<>>
  /\ pending' = [pending EXCEPT ![r] = [phase |-> "waiting", fresh |-> TRUE, epoch |-> epoch, lease |-> FALSE]]
  /\ Records(r, "waiting")
  /\ UNCHANGED <<epoch, granted, lease, leaseEpoch, attempted, recovery, control, at, network, executor, faults>>

\* The preflight of resolve_remote_approval, before the approval is used up.
Approvable(r) ==
  /\ pending[r].phase = "waiting" /\ granted
  /\ pending[r].fresh /\ pending[r].epoch = epoch

Grant(c, r) ==
  /\ at[c] = Idle /\ control = NoOne /\ Approvable(r)
  /\ control' = c
  /\ Enters(c, "resolve", "acquire", r)
  /\ pending' = [pending EXCEPT ![r].phase = "granted"]
  /\ Records(r, "granted")
  /\ UNCHANGED <<epoch, granted, lease, leaseEpoch, attempted, recovery, network, executor, faults>>

\* The lock is taken and dropped within the call: ActionDenied, RunAborted.
Deny(c, r) ==
  /\ at[c] = Idle /\ control = NoOne /\ Approvable(r)
  /\ pending' = [pending EXCEPT ![r].phase = "done"]
  /\ Records(r, "denied")
  /\ UNCHANGED <<epoch, granted, lease, leaseEpoch, attempted, recovery, control, at, network, executor, faults>>

\* Fault: a lease that has ended is no obstacle to the next.
LeasedAgain(r) ==
  /\ lease[ActionOf[r]] # "acquired"
  /\ granted /\ pending[r].fresh /\ pending[r].epoch = epoch

\* The final recheck and validate_federation_transition: a lease is one-shot.
AcquireAllowed(r) ==
  /\ lease[ActionOf[r]] = "none"
  /\ granted /\ pending[r].fresh /\ pending[r].epoch = epoch

\* acquire_for_run; the dispatch row is inserted with the lease, not attempted.
Acquire(c) ==
  LET r == at[c].run  a == ActionOf[at[c].run] IN
  /\ at[c].step = "acquire" /\ AcquireAllowed(r)
  /\ lease' = [lease EXCEPT ![a] = "acquired"]
  /\ leaseEpoch' = [leaseEpoch EXCEPT ![a] = epoch]
  /\ pending' = Outdated
  /\ Goes(c, "save")
  /\ UNCHANGED <<epoch, granted, attempted, recovery, log, control, network, executor, faults>>

\* save_remote_recovery
Save(c) ==
  /\ at[c].step = "save"
  /\ recovery' = [recovery EXCEPT ![at[c].run] = TRUE]
  /\ Goes(c, "claim")
  /\ UNCHANGED <<epoch, granted, lease, leaseEpoch, attempted, log, pending, control, network, executor, faults>>

ClaimAllowed(a) == lease[a] = "acquired" /\ leaseEpoch[a] = epoch /\ granted /\ ~attempted[a]

\* Fault: the claim does not mark the dispatch as attempted.
MarkNothing(a) == attempted
MarkAttempted(a) == [attempted EXCEPT ![a] = TRUE]

\* claim_remote_dispatch, then the lease binding and pending.lease.
Claim(c) ==
  LET r == at[c].run  a == ActionOf[at[c].run] IN
  /\ at[c].step = "claim" /\ ClaimAllowed(a)
  /\ attempted' = MarkAttempted(a)
  /\ pending' = [pending EXCEPT ![r].lease = TRUE]
  /\ Goes(c, "send")
  /\ UNCHANGED <<epoch, granted, lease, leaseEpoch, recovery, log, control, network, executor, faults>>

\* RemoteExecutorBackend::execute up to transport.dispatch.
Send(c) ==
  LET a == ActionOf[at[c].run] IN
  /\ at[c].step = "send"
  /\ wire' = [wire EXCEPT ![a] = TRUE]
  /\ sent' = [sent EXCEPT ![a] = @ + 1]
  /\ Goes(c, "wait")
  /\ UNCHANGED <<durable, pending, control, executor, faults>>

\* The executor answers with the reference of its receipt; ActionStarted.
Accepted(c) ==
  /\ at[c].step = "wait" /\ up /\ ledger[ActionOf[at[c].run]] = "done"
  /\ Records(at[c].run, "started")
  /\ Goes(c, "receipt")
  /\ UNCHANGED <<epoch, granted, lease, leaseEpoch, attempted, recovery, pending, control, network, executor, faults>>

\* backend.execute fails: expired lease, no connection, timeout, lost answer.
DispatchFails(c) ==
  /\ at[c].step \in {"send", "wait"}
  /\ Goes(c, "mark")
  /\ UNCHANGED <<durable, pending, control, network, executor, faults>>

\* Fault: the lock is kept for the terminal phase, which takes it again.
KeepControl == control
DropControl == NoOne

\* The receipt reference is stored and the approval phase's lock dropped.
SaveReceipt(c) ==
  /\ at[c].step = "receipt"
  /\ control' = DropControl
  /\ Goes(c, "truth")
  /\ UNCHANGED <<durable, pending, network, executor, faults>>

\* An error between the approval and the dispatch, or in storing the receipt:
\* the approval is used up and the call returns.
ResolveFails(c) ==
  /\ at[c].step \in {"acquire", "save", "claim", "receipt"}
  /\ Returns(c)
  /\ UNCHANGED <<durable, pending, network, executor, faults>>

-------------------------------------------------------------------------------
(* Settling an action.                                                       *)

\* The receipt source answers with the executor's receipt and the ground
\* truth can be observed.
Observe(c) ==
  /\ at[c].step = "truth" /\ up /\ ledger[ActionOf[at[c].run]] = "done"
  /\ Goes(c, "finish")
  /\ UNCHANGED <<durable, pending, control, network, executor, faults>>

\* Fault: the error path loses the run.
GivesUpBlindly(c) ==
  /\ at' = [at EXCEPT ![c] = [Idle EXCEPT !.step = "mark"]]
  /\ control' = IF control = c THEN NoOne ELSE control

\* Where a failed or empty verification leads: the approving call records the
\* outcome as unknown, a recovery returns the error and records nothing.
GivesUp(c) ==
  IF at[c].op = "recover" THEN Returns(c)
  ELSE Goes(c, "mark") /\ control' = IF control = c THEN NoOne ELSE control

ObserveFails(c) ==
  /\ at[c].step = "truth"
  /\ GivesUp(c)
  /\ UNCHANGED <<durable, pending, network, executor, faults>>

\* RemoteAuthorityVerifier: the report is the truth, and both say completed.
\* Fault: the executor's word is taken.
SelfReported(a) == report[a] = "ok"
Verified(a) == report[a] = "ok" /\ effect[a] = report[a]

\* Fault: the lease is not read again.
NotReread(a) == lease[a] # "none"
StillOwned(a) == lease[a] = "acquired"

\* finish_remote up to ActionCompleted.
Finish(c) ==
  LET a == ActionOf[at[c].run] IN
  /\ at[c].step = "finish" /\ control = NoOne
  /\ StillOwned(a) /\ Verified(a)
  /\ control' = c
  /\ Records(at[c].run, "completed")
  /\ Goes(c, "release")
  /\ UNCHANGED <<epoch, granted, lease, leaseEpoch, attempted, recovery, pending, network, executor, faults>>

FinishRefused(c) ==
  LET a == ActionOf[at[c].run] IN
  /\ at[c].step = "finish" /\ control = NoOne
  /\ ~(StillOwned(a) /\ Verified(a))
  /\ GivesUp(c)
  /\ UNCHANGED <<durable, pending, network, executor, faults>>

\* transition_for_run: to a terminal state, once.
Release(c) ==
  LET a == ActionOf[at[c].run] IN
  /\ at[c].step \in {"release", "failRelease"} /\ lease[a] = "acquired"
  /\ lease' = [lease EXCEPT ![a] = "released"]
  /\ pending' = Outdated
  /\ Goes(c, IF at[c].step = "release" THEN "wrap" ELSE "failWrap")
  /\ UNCHANGED <<epoch, granted, leaseEpoch, attempted, recovery, log, control, network, executor, faults>>

\* The lease is settled already, or a replication acknowledgement, which takes
\* no control lock, advances the aggregate between the read and the append.
ReleaseFails(c) ==
  LET a == ActionOf[at[c].run] IN
  /\ at[c].step \in {"release", "failRelease"}
  /\ \/ lease[a] # "acquired" /\ UNCHANGED faults
     \/ lease[a] = "acquired" /\ Fault
  /\ GivesUp(c)
  /\ UNCHANGED <<durable, pending, network, executor>>

\* A run that is not in memory is left alone.
Terminal(r) == IF pending[r].phase = "absent" THEN pending ELSE [pending EXCEPT ![r].phase = "done"]

\* The verification passes or fails, and the run ends.
WrapUp(c) ==
  /\ at[c].step \in {"wrap", "failWrap"}
  /\ Records(at[c].run, IF at[c].step = "wrap" THEN "complete" ELSE "runfailed")
  /\ pending' = Terminal(at[c].run)
  /\ Returns(c)
  /\ UNCHANGED <<epoch, granted, lease, leaseEpoch, attempted, recovery, network, executor, faults>>

\* mark_remote_unknown reads the run's events, then appends.
Mark(c) ==
  /\ at[c].step = "mark"
  /\ IF Has(at[c].run, "unknown") THEN Returns(c) ELSE Goes(c, "markAppend") /\ UNCHANGED control
  /\ UNCHANGED <<durable, pending, network, executor, faults>>

MarkAppend(c) ==
  /\ at[c].step = "markAppend"
  /\ Records(at[c].run, "unknown")
  /\ Returns(c)
  /\ UNCHANGED <<epoch, granted, lease, leaseEpoch, attempted, recovery, pending, network, executor, faults>>

-------------------------------------------------------------------------------
(* Recovery and cancellation.                                                *)

\* recover_remote_action: a pending run with its lease, or after a crash the
\* stored record with a lease that is not settled.
Recoverable(r) ==
  \/ pending[r].phase = "granted" /\ pending[r].lease
  \/ pending[r].phase = "absent" /\ recovery[r] /\ lease[ActionOf[r]] = "acquired"

\* Fault: a recovery sends an attempted dispatch again instead of probing.
SendAgain == "send"
AfterAttempt == "truth"

Recover(c, r) ==
  /\ at[c] = Idle /\ Recoverable(r)
  /\ \/ attempted[ActionOf[r]] /\ Enters(c, "recover", AfterAttempt, r)
     \/ ~attempted[ActionOf[r]] /\ Enters(c, "recover", "recheck", r)
  /\ UNCHANGED <<durable, pending, control, network, executor, faults>>

\* The claim is read again with the lock held; the lease is not.
Recheck(c) ==
  /\ at[c].step = "recheck" /\ control = NoOne
  /\ \/ attempted[ActionOf[at[c].run]] /\ Goes(c, AfterAttempt) /\ UNCHANGED control
     \/ ~attempted[ActionOf[at[c].run]] /\ Goes(c, "fail") /\ control' = c
  /\ UNCHANGED <<durable, pending, network, executor, faults>>

\* finish_remote_not_dispatched up to ActionFailed.
FailNotDispatched(c) ==
  /\ at[c].step = "fail"
  /\ Records(at[c].run, "failed")
  /\ Goes(c, "failRelease")
  /\ UNCHANGED <<epoch, granted, lease, leaseEpoch, attempted, recovery, pending, control, network, executor, faults>>

\* cancel_remote of the lease of r, up to the choice of the run.
Cancel(c, r) ==
  /\ at[c] = Idle /\ control = NoOne /\ lease[ActionOf[r]] = "acquired"
  /\ pending[r].lease \/ recovery[r]
  /\ control' = c
  /\ Enters(c, "cancel", "fence", r)
  /\ UNCHANGED <<durable, pending, network, executor, faults>>

\* The executor is told, but never answers Cancelled: what it did is unknown.
Fence(c) ==
  /\ at[c].step = "fence"
  /\ lease' = [lease EXCEPT ![ActionOf[at[c].run]] = "fenced"]
  /\ pending' = Outdated
  /\ Goes(c, "mark")
  /\ UNCHANGED <<epoch, granted, leaseEpoch, attempted, recovery, log, control, network, executor, faults>>

FenceFails(c) ==
  /\ at[c].step = "fence" /\ Fault
  /\ Returns(c)
  /\ UNCHANGED <<durable, pending, network, executor>>

-------------------------------------------------------------------------------
(* The owner's device registry, replication, and a crash.                    *)

\* Fault: a revocation leaves the leases of the old epoch alone.
NotFenced == lease
FencedByEpoch == [a \in Actions |-> IF lease[a] = "acquired" THEN "fenced" ELSE lease[a]]

\* Fault: the registry changes without the control lock.
NoControl == TRUE
ControlFree == control = NoOne

\* register_peer of any device, revoke_peer of the executor.
ChangePeers(revoke) ==
  /\ ControlFree /\ epoch < MaxEpoch
  /\ revoke => granted
  /\ epoch' = epoch + 1
  /\ granted' = (granted /\ ~revoke)
  /\ lease' = FencedByEpoch
  /\ pending' = Outdated
  /\ UNCHANGED <<leaseEpoch, attempted, recovery, log, control, at, network, executor, faults>>

\* acknowledge_replication
AckReplication ==
  /\ pending # Outdated
  /\ pending' = Outdated
  /\ UNCHANGED <<durable, control, at, network, executor, faults>>

Crash ==
  /\ Fault
  /\ pending' = [r \in Runs |-> Absent]
  /\ control' = NoOne
  /\ at' = [c \in Callers |-> Idle]
  /\ UNCHANGED <<durable, network, executor>>

-------------------------------------------------------------------------------
(* The executor: one connection at a time.                                   *)

Replayed(a) == ledger[a] # "none"

\* admit, ledger.begin: a new dispatch is recorded before the driver is called,
\* a finished one is answered from the ledger, and one that was begun and never
\* finished is an error, with which the server returns.
TakeDispatch(a) ==
  /\ up /\ busy = NoAction /\ wire[a]
  /\ wire' = [wire EXCEPT ![a] = FALSE]
  /\ IF Replayed(a)
     THEN UNCHANGED <<busy, ledger>>
     ELSE busy' = a /\ ledger' = [ledger EXCEPT ![a] = "pending"]
  /\ up' = (ledger[a] # "pending")
  /\ UNCHANGED <<durable, memory, sent, report, effect, calls, faults>>

\* RemoteInnerDriver::execute: what it does to the world.
Drive(a, e) ==
  /\ busy = a /\ effect[a] = "none"
  /\ effect' = [effect EXCEPT ![a] = e]
  /\ calls' = [calls EXCEPT ![a] = @ + 1]
  /\ UNCHANGED <<durable, memory, network, up, busy, ledger, report, faults>>

\* ... and what it says it did, where failed stands for every outcome other
\* than completed: ledger.complete.
CompleteDispatch(a, o) ==
  /\ busy = a /\ effect[a] # "none"
  /\ report' = [report EXCEPT ![a] = o]
  /\ ledger' = [ledger EXCEPT ![a] = "done"]
  /\ busy' = NoAction
  /\ UNCHANGED <<durable, memory, network, up, effect, calls, faults>>

\* serve_until returns with the first error a request meets, here in admission.
RefuseDispatch(a) ==
  /\ up /\ busy = NoAction /\ wire[a]
  /\ wire' = [wire EXCEPT ![a] = FALSE]
  /\ up' = FALSE
  /\ UNCHANGED <<durable, memory, sent, busy, ledger, report, effect, calls, faults>>

\* A driver error, any other error of a request, or a crash; the request lost
\* with it is a wire that nobody takes.
Stop ==
  /\ up /\ Fault
  /\ up' = FALSE /\ busy' = NoAction
  /\ UNCHANGED <<durable, memory, network, ledger, report, effect, calls>>

\* FileExecutorLedger::open reads the ledger back.
Restart ==
  /\ ~up /\ up' = TRUE
  /\ UNCHANGED <<durable, memory, network, busy, ledger, report, effect, calls, faults>>

-------------------------------------------------------------------------------
Init ==
  /\ epoch = 1 /\ granted = TRUE
  /\ lease = [a \in Actions |-> "none"] /\ leaseEpoch = [a \in Actions |-> 0]
  /\ attempted = [a \in Actions |-> FALSE]
  /\ recovery = [r \in Runs |-> FALSE] /\ log = [r \in Runs |-> <<>>]
  /\ pending = [r \in Runs |-> Absent] /\ control = NoOne /\ at = [c \in Callers |-> Idle]
  /\ wire = [a \in Actions |-> FALSE] /\ sent = [a \in Actions |-> 0]
  /\ up = TRUE /\ busy = NoAction
  /\ ledger = [a \in Actions |-> "none"] /\ report = [a \in Actions |-> "none"]
  /\ effect = [a \in Actions |-> "none"] /\ calls = [a \in Actions |-> 0]
  /\ faults = 0

\* A call of the owner or of a client.
Call(c, r) == Grant(c, r) \/ Deny(c, r) \/ Recover(c, r) \/ Cancel(c, r)

\* A thread inside a call goes on.
Resolving(c) ==
  \/ Acquire(c) \/ Save(c) \/ Claim(c) \/ Send(c) \/ Accepted(c) \/ DispatchFails(c)
  \/ SaveReceipt(c) \/ ResolveFails(c)
Settling(c) ==
  \/ Observe(c) \/ ObserveFails(c) \/ Finish(c) \/ FinishRefused(c)
  \/ Release(c) \/ ReleaseFails(c) \/ WrapUp(c) \/ Mark(c) \/ MarkAppend(c)
Recovering(c) == Recheck(c) \/ FailNotDispatched(c) \/ Fence(c) \/ FenceFails(c)
Step(c) == Resolving(c) \/ Settling(c) \/ Recovering(c)

Executor ==
  \/ \E a \in Actions :
       \/ TakeDispatch(a) \/ RefuseDispatch(a)
       \/ \E e \in {"ok", "failed"} : Drive(a, e)
       \/ \E o \in {"ok", "failed"} : CompleteDispatch(a, o)
  \/ Stop \/ Restart

Next ==
  \/ \E r \in Runs : Prepare(r)
  \/ \E c \in Callers : Step(c) \/ \E r \in Runs : Call(c, r)
  \/ ChangePeers(TRUE) \/ ChangePeers(FALSE) \/ AckReplication \/ Crash
  \/ Executor

Spec == Init /\ [][Next]_vars

\* A thread inside a call is scheduled; every wait on the transport ends in an
\* answer or in its timeout.  Nobody has to call, and the executor need not run.
FairSpec == Spec /\ \A c \in Callers : WF_vars(Step(c))

-------------------------------------------------------------------------------
(* Properties.                                                               *)

\* Type correctness of the state.
TypeOK ==
  /\ epoch \in Nat /\ granted \in BOOLEAN
  /\ lease \in [Actions -> LeaseStates] /\ leaseEpoch \in [Actions -> Nat]
  /\ attempted \in [Actions -> BOOLEAN]
  /\ recovery \in [Runs -> BOOLEAN] /\ log \in [Runs -> Seq(Facts)]
  /\ pending \in [Runs -> [phase : Phases, fresh : BOOLEAN, epoch : Nat, lease : BOOLEAN]]
  /\ control \in Callers \cup {NoOne}
  /\ at \in [Callers -> [op : Operations, step : Steps, run : Runs \cup {NoRun}]]
  /\ \A c \in Callers : at[c].step # "idle" => at[c].run \in Runs
  /\ wire \in [Actions -> BOOLEAN] /\ sent \in [Actions -> Nat]
  /\ up \in BOOLEAN /\ busy \in Actions \cup {NoAction}
  /\ ledger \in [Actions -> {"none", "pending", "done"}]
  /\ report \in [Actions -> {"none", "ok", "failed"}]
  /\ effect \in [Actions -> {"none", "ok", "failed"}]
  /\ calls \in [Actions -> Nat]
  /\ faults \in Nat

\* Whatever crashes, is retried, recovered or submitted again for the same
\* intent, the transport is asked to dispatch it at most once and the driver
\* is called at most once (claim_remote_dispatch, ExecutorReplayLedger).
DispatchedOnce == \A a \in Actions : sent[a] <= 1 /\ calls[a] <= 1

\* A run that recovery ends as "remote dispatch was not attempted before
\* restart" was indeed never dispatched, and never will be.
NotDispatchedIsTrue ==
  \A r \in Runs : Has(r, "failed") => sent[ActionOf[r]] = 0 /\ calls[ActionOf[r]] = 0

\* ActionCompleted says the effect took place: the executor's own report does
\* not suffice (RemoteAuthorityVerifier).  And once its lease is fenced or
\* released no run is recorded as completed, however late the proof arrives.
CompletionIsEarned ==
  [][\A r \in Runs : Len(log'[r]) > Len(log[r]) /\ log'[r][Len(log'[r])] = "completed"
       => lease[ActionOf[r]] = "acquired" /\ effect[ActionOf[r]] = "ok"]_vars

\* A live lease was taken in the current epoch under a grant that still
\* stands: a change of the registry fences all leases in the same transaction.
AcquiredLeasesAreCurrent ==
  \A a \in Actions : lease[a] = "acquired" => leaseEpoch[a] = epoch /\ granted

\* The request leaves under a lease that is live at that very moment, though
\* the lease was checked in an earlier transaction.
DispatchUnderLiveGrant ==
  [][\A a \in Actions : sent'[a] > sent[a] => lease[a] = "acquired" /\ granted /\ leaseEpoch[a] = epoch]_vars

\* What leaves the authority and what it records as done rests, at that very
\* step, on a lease that is live (claim_remote_dispatch, finish_remote).
AuthorityIsLive == CompletionIsEarned /\ DispatchUnderLiveGrant

\* No call keeps the control lock: the terminal phase takes it again after the
\* approval phase has dropped it.
ControlIsReleased == \A c \in Callers : control = c ~> control # c

\* The promise for each intent that threads, runs, crashes and lost messages
\* implement: its stage is what the store knows of it, its verdicts are the
\* facts of whichever runs carry it.
Stage(a) == IF attempted[a] THEN "claimed" ELSE IF lease[a] # "none" THEN "leased" ELSE "open"
Verdict(a) == {fact \in {"completed", "failed"} : \E r \in Runs : ActionOf[r] = a /\ Has(r, fact)}

Promised == INSTANCE OneShotDispatch WITH
  stage <- [a \in Actions |-> Stage(a)],
  live <- [a \in Actions |-> lease[a] = "acquired"],
  verdict <- [a \in Actions |-> Verdict(a)]

\* Every intent is leased, claimed and sent once and in that order, under a live
\* lease; completed only while the lease lives and the effect took place, and
\* failed only without a claim, which then never comes (resolve_remote_approval
\* with the recoveries, cancellations, registry changes and crashes in between).
DispatchIsOneShot == Promised!Spec

\* What remote dispatch promises of leases, requests and refusals.
DispatchIsSound == TypeOK /\ DispatchedOnce /\ NotDispatchedIsTrue /\ AcquiredLeasesAreCurrent
=============================================================================
