--------------------------- MODULE FederationProofs ---------------------------
(***************************************************************************)
(* Proofs about Federation, for any number of runs, intents, callers and   *)
(* faults.  The argument: an intent is dispatched by the caller that took  *)
(* its one-shot lease, between two transactions under the control lock;    *)
(* the claim in between is what a recovery, which reads it with the lock   *)
(* held, tells the two sides of the dispatch apart by.  At the end, that   *)
(* Federation implements OneShotDispatch.                                  *)
(***************************************************************************)
EXTENDS Federation, TLAPS

\* A recovery has recorded that the action of r was not dispatched.
Failed(r) == Has(r, "failed")
ActionAt(c) == ActionOf[at[c].run]

\* Whoever is at a step of the critical section holds the lock.
LockedStepsHoldControl == \A c \in Callers : at[c].step \in LockedSteps => control = c

\* What left the authority was claimed; what reached the driver was sent.
SentWasAttempted == \A a \in Actions : sent[a] > 0 => attempted[a]
DrivenWasSent ==
  \A a \in Actions :
    /\ wire[a] \/ busy = a \/ effect[a] # "none" => sent[a] > 0
    /\ effect[a] = "none" => calls[a] = 0

\* A claim, a stored recovery record, a lease bound to a run in memory, and a
\* caller past Acquire stand for a lease in the store.
LeaseTaken ==
  /\ \A a \in Actions : attempted[a] => lease[a] # "none"
  /\ \A r \in Runs : pending[r].lease => lease[ActionOf[r]] # "none"
  /\ \A r \in Runs : recovery[r] => lease[ActionOf[r]] # "none"
  /\ \A c \in Callers : at[c].step \in {"save", "claim", "recheck", "fail", "fence"} => lease[ActionAt(c)] # "none"

\* Between the claim and the dispatch.
ReadyToSend ==
  \A c \in Callers : at[c].step = "send" =>
    attempted[ActionAt(c)] /\ sent[ActionAt(c)] = 0 /\ lease[ActionAt(c)] = "acquired"

\* An action recorded as not dispatched can no longer be claimed.
NeverClaimed ==
  /\ \A c \in Callers : at[c].step = "fail" => ~attempted[ActionAt(c)]
  /\ \A r \in Runs : Failed(r) =>
       /\ ~attempted[ActionOf[r]] /\ lease[ActionOf[r]] # "none"
       /\ \A c \in Callers : at[c].step \in {"save", "claim"} => ActionAt(c) # ActionOf[r]

IInv ==
  /\ TypeOK /\ LockedStepsHoldControl /\ AcquiredLeasesAreCurrent /\ DispatchedOnce
  /\ SentWasAttempted /\ DrivenWasSent /\ LeaseTaken /\ ReadyToSend /\ NeverClaimed

-------------------------------------------------------------------------------
(* TypeOK by parts, and what each way to move a caller does.                 *)

AtOK ==
  /\ at \in [Callers -> [op : Operations, step : Steps, run : Runs \cup {NoRun}]]
  /\ \A c \in Callers : at[c].step # "idle" => at[c].run \in Runs
LogOK == log \in [Runs -> Seq(Facts)]
PendingOK == pending \in [Runs -> [phase : Phases, fresh : BOOLEAN, epoch : Nat, lease : BOOLEAN]]
LeaseOK ==
  /\ epoch \in Nat /\ granted \in BOOLEAN
  /\ lease \in [Actions -> LeaseStates] /\ leaseEpoch \in [Actions -> Nat]
  /\ attempted \in [Actions -> BOOLEAN] /\ recovery \in [Runs -> BOOLEAN]
ExecutorOK ==
  /\ control \in Callers \cup {NoOne}
  /\ wire \in [Actions -> BOOLEAN] /\ sent \in [Actions -> Nat]
  /\ up \in BOOLEAN /\ busy \in Actions \cup {NoAction}
  /\ ledger \in [Actions -> {"none", "pending", "done"}]
  /\ report \in [Actions -> {"none", "ok", "failed"}]
  /\ effect \in [Actions -> {"none", "ok", "failed"}]
  /\ calls \in [Actions -> Nat]
  /\ faults \in Nat

\* TypeOK by the parts that a step disturbs; stated primed as well.
LEMMA TypeParts ==
  /\ TypeOK <=> AtOK /\ LogOK /\ PendingOK /\ LeaseOK /\ ExecutorOK
  /\ TypeOK' <=> AtOK' /\ LogOK' /\ PendingOK' /\ LeaseOK' /\ ExecutorOK'
  BY DEF TypeOK, AtOK, LogOK, PendingOK, LeaseOK, ExecutorOK

\* The sets of step names, spelled out for the provers.
LEMMA StepNames ==
  /\ LockedSteps \cup {"idle", "truth", "finish", "recheck", "mark", "markAppend"} = Steps
  /\ {"acquire", "save", "claim", "send", "wait", "receipt", "fail", "failRelease", "failWrap",
      "release", "wrap", "fence"} = LockedSteps
  BY DEF Steps, LockedSteps, ResolveSteps, FailSteps

\* No caller but c moves.
OnlyMoves(c) == \A d \in Callers : d # c => at'[d] = at[d]

\* How the helpers Goes, Enters, Returns and GivesUp move one caller.
LEMMA GoesAt ==
  ASSUME AtOK, NEW c \in Callers, at[c].step # "idle", NEW s \in Steps, Goes(c, s)
  PROVE  AtOK' /\ OnlyMoves(c) /\ at'[c].step = s /\ at'[c].run = at[c].run
  BY DEF AtOK, Goes, OnlyMoves

\* See GoesAt.
LEMMA EntersAt ==
  ASSUME AtOK, NEW c \in Callers, NEW o \in Operations, NEW s \in Steps, NEW r \in Runs, Enters(c, o, s, r)
  PROVE  AtOK' /\ OnlyMoves(c) /\ at'[c].step = s /\ at'[c].run = r
  BY DEF AtOK, Enters, OnlyMoves

\* See GoesAt.
LEMMA ReturnsAt ==
  ASSUME AtOK, NEW c \in Callers, Returns(c)
  PROVE  AtOK' /\ OnlyMoves(c) /\ at'[c].step = "idle"
  BY StepNames DEF AtOK, Returns, OnlyMoves, Idle, Operations

\* See GoesAt.
LEMMA GivesUpAt ==
  ASSUME AtOK, NEW c \in Callers, at[c].step # "idle", GivesUp(c)
  PROVE  /\ AtOK' /\ OnlyMoves(c) /\ at'[c].step \in {"idle", "mark"}
         /\ control' = IF control = c THEN NoOne ELSE control
<1>1. CASE at[c].op = "recover"
  BY <1>1, ReturnsAt DEF GivesUp, Returns
<1>2. CASE at[c].op # "recover"
  BY <1>2, GoesAt, StepNames DEF GivesUp
<1> QED BY <1>1, <1>2

\* Recording a fact keeps the log typed and fails no other run.
LEMMA RecordsLog ==
  ASSUME LogOK, NEW r \in Runs, NEW f \in Facts, Records(r, f)
  PROVE  LogOK' /\ \A q \in Runs : Failed(q)' <=> Failed(q) \/ (q = r /\ f = "failed")
<1>1. log' \in [Runs -> Seq(Facts)]
  BY DEF LogOK, Records
<1>2. ASSUME NEW q \in Runs, q # r PROVE log'[q] = log[q]
  BY <1>2 DEF LogOK, Records
<1>3. /\ log[r] \in Seq(Facts) /\ log'[r] = Append(log[r], f)
  BY DEF LogOK, Records
<1>4. (\E i \in DOMAIN log'[r] : log'[r][i] = "failed") <=> (\E i \in DOMAIN log[r] : log[r][i] = "failed") \/ f = "failed"
  BY <1>3
<1> QED BY <1>1, <1>2, <1>4 DEF LogOK, Failed, Has

\* Outdating the snapshots keeps pending typed and its leases.
LEMMA OutdatedPending ==
  ASSUME PendingOK, pending' = Outdated
  PROVE  PendingOK' /\ \A q \in Runs : pending'[q].lease = pending[q].lease
  BY DEF PendingOK, Outdated

\* The part of the invariant that is not typing is kept by a step of c that
\* touches neither leases nor dispatches, whatever it records but a failure.
Quiet(c) ==
  /\ UNCHANGED <<epoch, granted, lease, leaseEpoch, attempted, recovery, network, up, busy, ledger, report, effect, calls>>
  /\ OnlyMoves(c)
  /\ \/ control' = control
     \/ control = NoOne /\ control' = c
     \/ control = c /\ control' = NoOne
  /\ at'[c].step \in LockedSteps => control' = c
  /\ at'[c].step \notin {"save", "claim", "send"}
  /\ at'[c].step \in {"recheck", "fail", "fence"} => lease[ActionAt(c)'] # "none"
  /\ at'[c].step = "fail" => ~attempted[ActionAt(c)']
  /\ \A q \in Runs : Failed(q)' <=> Failed(q)
  /\ \A q \in Runs : pending'[q].lease => pending[q].lease

\* A step that leaves leases, claims and dispatches alone keeps IInv.
LEMMA QuietStep ==
  ASSUME IInv, NEW c \in Callers, Quiet(c), TypeOK'
  PROVE  IInv'
<1> USE DEF IInv, Quiet, OnlyMoves, network
<1>1. LockedStepsHoldControl'
  BY FederationAssumption DEF LockedStepsHoldControl
<1>2. AcquiredLeasesAreCurrent' /\ DispatchedOnce' /\ SentWasAttempted' /\ DrivenWasSent'
  BY DEF AcquiredLeasesAreCurrent, DispatchedOnce, SentWasAttempted, DrivenWasSent
<1>3. LeaseTaken' /\ ReadyToSend'
  BY DEF LeaseTaken, ReadyToSend, ActionAt
<1>4. NeverClaimed'
  BY DEF NeverClaimed, ActionAt
<1> QED BY <1>1, <1>2, <1>3, <1>4

\* The caller steps that do: each ends up in QuietStep.
LEMMA QuietSteps ==
  ASSUME IInv, NEW c \in Callers,
         \/ \E r \in Runs : Grant(c, r) \/ Recover(c, r) \/ Cancel(c, r)
         \/ Accepted(c) \/ DispatchFails(c) \/ SaveReceipt(c) \/ ResolveFails(c)
         \/ Observe(c) \/ ObserveFails(c) \/ Finish(c) \/ FinishRefused(c) \/ ReleaseFails(c)
         \/ WrapUp(c) \/ Mark(c) \/ MarkAppend(c) \/ Recheck(c) \/ FenceFails(c)
  PROVE  IInv'
<1> SUFFICES TypeOK' /\ Quiet(c)
  BY QuietStep
<1> USE TypeParts, StepNames DEF IInv
<1>1. ASSUME NEW r \in Runs, Grant(c, r) PROVE TypeOK' /\ Quiet(c)
  <2>1. AtOK' /\ OnlyMoves(c) /\ at'[c].step = "acquire" /\ at'[c].run = r
    BY <1>1, EntersAt DEF Grant, Operations
  <2>2. r \in Runs /\ Records(r, "granted")
    BY <1>1 DEF Grant, AtOK
  <2>3. LogOK' /\ \A q \in Runs : Failed(q)' <=> Failed(q)
    BY <2>2, RecordsLog DEF Facts
  <2>4. PendingOK' /\ LeaseOK' /\ ExecutorOK'
    BY <1>1 DEF Grant, Approvable, durable, network, executor, PendingOK, LeaseOK, ExecutorOK, Phases
  <2>5. \A q \in Runs : pending'[q].lease => pending[q].lease
    BY <1>1 DEF Grant, PendingOK
  <2> QED BY <1>1, <2>1, <2>3, <2>4, <2>5 DEF Grant, Approvable, Quiet, LockedStepsHoldControl, LeaseTaken, ActionAt,
     durable, network, executor
<1>2. ASSUME NEW r \in Runs, Recover(c, r) PROVE TypeOK' /\ Quiet(c)
  <2>1. AtOK' /\ OnlyMoves(c) /\ (at'[c].step = "truth" \/ (~attempted[ActionOf[r]] /\ at'[c].step = "recheck")) /\ at'[c].run = r
    <3>1. CASE attempted[ActionOf[r]]
      BY <1>2, <3>1, EntersAt DEF Recover, Operations, AfterAttempt, ActionAt
    <3>2. CASE ~attempted[ActionOf[r]]
      BY <1>2, <3>2, EntersAt DEF Recover, Operations, AfterAttempt, ActionAt
    <3> QED BY <3>1, <3>2
  <2>3. LogOK' /\ \A q \in Runs : Failed(q)' <=> Failed(q)
    BY <1>2 DEF Recover, durable, LogOK, Failed, Has
  <2>4. PendingOK' /\ LeaseOK' /\ ExecutorOK'
    BY <1>2 DEF Recover, Recoverable, AfterAttempt, durable, network, executor, PendingOK, LeaseOK, ExecutorOK
  <2>5. \A q \in Runs : pending'[q].lease => pending[q].lease
    BY <1>2 DEF Recover, PendingOK
  <2> QED BY <1>2, <2>1, <2>3, <2>4, <2>5 DEF Recover, Recoverable, AfterAttempt, Quiet, LockedStepsHoldControl,
     LeaseTaken, ActionAt, durable, network, executor
<1>3. ASSUME NEW r \in Runs, Cancel(c, r) PROVE TypeOK' /\ Quiet(c)
  <2>1. AtOK' /\ OnlyMoves(c) /\ at'[c].step = "fence" /\ at'[c].run = r
    BY <1>3, EntersAt DEF Cancel, Operations
  <2>3. LogOK' /\ \A q \in Runs : Failed(q)' <=> Failed(q)
    BY <1>3 DEF Cancel, durable, LogOK, Failed, Has
  <2>4. PendingOK' /\ LeaseOK' /\ ExecutorOK'
    BY <1>3 DEF Cancel, durable, network, executor, PendingOK, LeaseOK, ExecutorOK
  <2>5. \A q \in Runs : pending'[q].lease => pending[q].lease
    BY <1>3 DEF Cancel, PendingOK
  <2> QED BY <1>3, <2>1, <2>3, <2>4, <2>5 DEF Cancel, Quiet, LockedStepsHoldControl, LeaseTaken, ActionAt, durable,
     network, executor
<1>4. ASSUME Accepted(c) PROVE TypeOK' /\ Quiet(c)
  <2>1. AtOK' /\ OnlyMoves(c) /\ at'[c].step = "receipt" /\ at'[c].run = at[c].run
    BY <1>4, GoesAt DEF Accepted
  <2>2. at[c].run \in Runs /\ Records(at[c].run, "started")
    BY <1>4 DEF Accepted, AtOK
  <2>3. LogOK' /\ \A q \in Runs : Failed(q)' <=> Failed(q)
    BY <2>2, RecordsLog DEF Facts
  <2>4. PendingOK' /\ LeaseOK' /\ ExecutorOK'
    BY <1>4 DEF Accepted, durable, network, executor, PendingOK, LeaseOK, ExecutorOK
  <2>5. \A q \in Runs : pending'[q].lease => pending[q].lease
    BY <1>4 DEF Accepted, PendingOK
  <2> QED BY <1>4, <2>1, <2>3, <2>4, <2>5 DEF Accepted, Quiet, LockedStepsHoldControl, LeaseTaken, ActionAt, durable,
     network, executor
<1>5. ASSUME DispatchFails(c) PROVE TypeOK' /\ Quiet(c)
  <2>1. AtOK' /\ OnlyMoves(c) /\ at'[c].step = "mark" /\ at'[c].run = at[c].run
    BY <1>5, GoesAt DEF DispatchFails
  <2>3. LogOK' /\ \A q \in Runs : Failed(q)' <=> Failed(q)
    BY <1>5 DEF DispatchFails, durable, LogOK, Failed, Has
  <2>4. PendingOK' /\ LeaseOK' /\ ExecutorOK'
    BY <1>5 DEF DispatchFails, durable, network, executor, PendingOK, LeaseOK, ExecutorOK
  <2>5. \A q \in Runs : pending'[q].lease => pending[q].lease
    BY <1>5 DEF DispatchFails, PendingOK
  <2> QED BY <1>5, <2>1, <2>3, <2>4, <2>5 DEF DispatchFails, Quiet, LockedStepsHoldControl, LeaseTaken, ActionAt,
     durable, network, executor
<1>6. ASSUME SaveReceipt(c) PROVE TypeOK' /\ Quiet(c)
  <2>1. AtOK' /\ OnlyMoves(c) /\ at'[c].step = "truth" /\ at'[c].run = at[c].run
    BY <1>6, GoesAt DEF SaveReceipt
  <2>3. LogOK' /\ \A q \in Runs : Failed(q)' <=> Failed(q)
    BY <1>6 DEF SaveReceipt, durable, LogOK, Failed, Has
  <2>4. PendingOK' /\ LeaseOK' /\ ExecutorOK'
    BY <1>6 DEF SaveReceipt, DropControl, durable, network, executor, PendingOK, LeaseOK, ExecutorOK
  <2>5. \A q \in Runs : pending'[q].lease => pending[q].lease
    BY <1>6 DEF SaveReceipt, PendingOK
  <2> QED BY <1>6, <2>1, <2>3, <2>4, <2>5 DEF SaveReceipt, DropControl, Quiet, LockedStepsHoldControl, LeaseTaken,
     ActionAt, durable, network, executor
<1>7. ASSUME ResolveFails(c) PROVE TypeOK' /\ Quiet(c)
  <2>1. AtOK' /\ OnlyMoves(c) /\ at'[c].step = "idle"
    BY <1>7, ReturnsAt DEF ResolveFails
  <2>3. LogOK' /\ \A q \in Runs : Failed(q)' <=> Failed(q)
    BY <1>7 DEF ResolveFails, durable, LogOK, Failed, Has
  <2>4. PendingOK' /\ LeaseOK' /\ ExecutorOK'
    BY <1>7 DEF ResolveFails, Returns, durable, network, executor, PendingOK, LeaseOK, ExecutorOK
  <2>5. \A q \in Runs : pending'[q].lease => pending[q].lease
    BY <1>7 DEF ResolveFails, PendingOK
  <2> QED BY <1>7, <2>1, <2>3, <2>4, <2>5 DEF ResolveFails, Returns, Quiet, LockedStepsHoldControl, LeaseTaken,
     ActionAt, durable, network, executor
<1>8. ASSUME Observe(c) PROVE TypeOK' /\ Quiet(c)
  <2>1. AtOK' /\ OnlyMoves(c) /\ at'[c].step = "finish" /\ at'[c].run = at[c].run
    BY <1>8, GoesAt DEF Observe
  <2>3. LogOK' /\ \A q \in Runs : Failed(q)' <=> Failed(q)
    BY <1>8 DEF Observe, durable, LogOK, Failed, Has
  <2>4. PendingOK' /\ LeaseOK' /\ ExecutorOK'
    BY <1>8 DEF Observe, durable, network, executor, PendingOK, LeaseOK, ExecutorOK
  <2>5. \A q \in Runs : pending'[q].lease => pending[q].lease
    BY <1>8 DEF Observe, PendingOK
  <2> QED BY <1>8, <2>1, <2>3, <2>4, <2>5 DEF Observe, Quiet, LockedStepsHoldControl, LeaseTaken, ActionAt, durable,
     network, executor
<1>9. ASSUME ObserveFails(c) PROVE TypeOK' /\ Quiet(c)
  <2>1. AtOK' /\ OnlyMoves(c) /\ at'[c].step \in {"idle", "mark"} /\ control' = IF control = c THEN NoOne ELSE control
    BY <1>9, GivesUpAt DEF ObserveFails
  <2>3. LogOK' /\ \A q \in Runs : Failed(q)' <=> Failed(q)
    BY <1>9 DEF ObserveFails, durable, LogOK, Failed, Has
  <2>4. PendingOK' /\ LeaseOK' /\ ExecutorOK'
    BY <1>9, <2>1 DEF ObserveFails, durable, network, executor, PendingOK, LeaseOK, ExecutorOK
  <2>5. \A q \in Runs : pending'[q].lease => pending[q].lease
    BY <1>9 DEF ObserveFails, PendingOK
  <2> QED BY <1>9, <2>1, <2>3, <2>4, <2>5 DEF ObserveFails, Quiet, LockedStepsHoldControl, LeaseTaken, ActionAt,
     durable, network, executor
<1>10. ASSUME Finish(c) PROVE TypeOK' /\ Quiet(c)
  <2>1. AtOK' /\ OnlyMoves(c) /\ at'[c].step = "release" /\ at'[c].run = at[c].run
    BY <1>10, GoesAt DEF Finish
  <2>2. at[c].run \in Runs /\ Records(at[c].run, "completed")
    BY <1>10 DEF Finish, AtOK
  <2>3. LogOK' /\ \A q \in Runs : Failed(q)' <=> Failed(q)
    BY <2>2, RecordsLog DEF Facts
  <2>4. PendingOK' /\ LeaseOK' /\ ExecutorOK'
    BY <1>10 DEF Finish, durable, network, executor, PendingOK, LeaseOK, ExecutorOK
  <2>5. \A q \in Runs : pending'[q].lease => pending[q].lease
    BY <1>10 DEF Finish, PendingOK
  <2> QED BY <1>10, <2>1, <2>3, <2>4, <2>5 DEF Finish, Quiet, LockedStepsHoldControl, LeaseTaken, ActionAt, durable,
     network, executor
<1>11. ASSUME FinishRefused(c) PROVE TypeOK' /\ Quiet(c)
  <2>1. AtOK' /\ OnlyMoves(c) /\ at'[c].step \in {"idle", "mark"} /\ control' = IF control = c THEN NoOne ELSE control
    BY <1>11, GivesUpAt DEF FinishRefused
  <2>3. LogOK' /\ \A q \in Runs : Failed(q)' <=> Failed(q)
    BY <1>11 DEF FinishRefused, durable, LogOK, Failed, Has
  <2>4. PendingOK' /\ LeaseOK' /\ ExecutorOK'
    BY <1>11, <2>1 DEF FinishRefused, durable, network, executor, PendingOK, LeaseOK, ExecutorOK
  <2>5. \A q \in Runs : pending'[q].lease => pending[q].lease
    BY <1>11 DEF FinishRefused, PendingOK
  <2> QED BY <1>11, <2>1, <2>3, <2>4, <2>5 DEF FinishRefused, Quiet, LockedStepsHoldControl, LeaseTaken, ActionAt,
     durable, network, executor
<1>12. ASSUME ReleaseFails(c) PROVE TypeOK' /\ Quiet(c)
  <2>1. AtOK' /\ OnlyMoves(c) /\ at'[c].step \in {"idle", "mark"} /\ control' = IF control = c THEN NoOne ELSE control
    BY <1>12, GivesUpAt DEF ReleaseFails
  <2>3. LogOK' /\ \A q \in Runs : Failed(q)' <=> Failed(q)
    BY <1>12 DEF ReleaseFails, durable, LogOK, Failed, Has
  <2>4. PendingOK' /\ LeaseOK' /\ ExecutorOK'
    BY <1>12, <2>1 DEF ReleaseFails, Fault, durable, network, executor, PendingOK, LeaseOK, ExecutorOK
  <2>5. \A q \in Runs : pending'[q].lease => pending[q].lease
    BY <1>12 DEF ReleaseFails, PendingOK
  <2> QED BY <1>12, <2>1, <2>3, <2>4, <2>5 DEF ReleaseFails, Fault, Quiet, LockedStepsHoldControl, LeaseTaken,
     ActionAt, durable, network, executor
<1>13. ASSUME WrapUp(c) PROVE TypeOK' /\ Quiet(c)
  <2>1. AtOK' /\ OnlyMoves(c) /\ at'[c].step = "idle"
    BY <1>13, ReturnsAt DEF WrapUp
  <2>2. at[c].run \in Runs /\ \E f \in {"complete", "runfailed"} : Records(at[c].run, f)
    BY <1>13 DEF WrapUp, AtOK
  <2>3. LogOK' /\ \A q \in Runs : Failed(q)' <=> Failed(q)
    BY <2>2, RecordsLog DEF Facts
  <2>4. PendingOK' /\ LeaseOK' /\ ExecutorOK'
    <3>1. PendingOK'
      BY <1>13, <2>2 DEF WrapUp, Terminal, PendingOK, Phases
    <3>2. LeaseOK' /\ ExecutorOK'
      BY <1>13 DEF WrapUp, Returns, network, executor, LeaseOK, ExecutorOK
    <3> QED BY <3>1, <3>2
  <2>5. \A q \in Runs : pending'[q].lease => pending[q].lease
    BY <1>13 DEF WrapUp, Terminal, PendingOK
  <2> QED BY <1>13, <2>1, <2>3, <2>4, <2>5 DEF WrapUp, Returns, Quiet, LockedStepsHoldControl, LeaseTaken, ActionAt,
     durable, network, executor
<1>14. ASSUME Mark(c) PROVE TypeOK' /\ Quiet(c)
  <2>1. AtOK' /\ OnlyMoves(c) /\ at'[c].step \in {"idle", "markAppend"}
    BY <1>14, GoesAt, ReturnsAt DEF Mark
  <2>3. LogOK' /\ \A q \in Runs : Failed(q)' <=> Failed(q)
    BY <1>14 DEF Mark, durable, LogOK, Failed, Has
  <2>4. PendingOK' /\ LeaseOK' /\ ExecutorOK'
    BY <1>14 DEF Mark, Returns, durable, network, executor, PendingOK, LeaseOK, ExecutorOK
  <2>5. \A q \in Runs : pending'[q].lease => pending[q].lease
    BY <1>14 DEF Mark, PendingOK
  <2> QED BY <1>14, <2>1, <2>3, <2>4, <2>5 DEF Mark, Returns, Quiet, LockedStepsHoldControl, LeaseTaken, ActionAt,
     durable, network, executor
<1>15. ASSUME MarkAppend(c) PROVE TypeOK' /\ Quiet(c)
  <2>1. AtOK' /\ OnlyMoves(c) /\ at'[c].step = "idle"
    BY <1>15, ReturnsAt DEF MarkAppend
  <2>2. at[c].run \in Runs /\ Records(at[c].run, "unknown")
    BY <1>15 DEF MarkAppend, AtOK
  <2>3. LogOK' /\ \A q \in Runs : Failed(q)' <=> Failed(q)
    BY <2>2, RecordsLog DEF Facts
  <2>4. PendingOK' /\ LeaseOK' /\ ExecutorOK'
    BY <1>15 DEF MarkAppend, Returns, durable, network, executor, PendingOK, LeaseOK, ExecutorOK
  <2>5. \A q \in Runs : pending'[q].lease => pending[q].lease
    BY <1>15 DEF MarkAppend, PendingOK
  <2> QED BY <1>15, <2>1, <2>3, <2>4, <2>5 DEF MarkAppend, Returns, Quiet, LockedStepsHoldControl, LeaseTaken,
     ActionAt, durable, network, executor
<1>16. ASSUME Recheck(c) PROVE TypeOK' /\ Quiet(c)
  <2>1. AtOK' /\ OnlyMoves(c) /\ (at'[c].step = "truth" \/ (~attempted[ActionAt(c)] /\ at'[c].step = "fail" /\ control' = c)) /\ at'[c].run = at[c].run
    <3>1. CASE attempted[ActionAt(c)]
      BY <1>16, <3>1, GoesAt DEF Recheck, AfterAttempt, ActionAt
    <3>2. CASE ~attempted[ActionAt(c)]
      BY <1>16, <3>2, GoesAt DEF Recheck, AfterAttempt, ActionAt
    <3> QED BY <3>1, <3>2
  <2>3. LogOK' /\ \A q \in Runs : Failed(q)' <=> Failed(q)
    BY <1>16 DEF Recheck, durable, LogOK, Failed, Has
  <2>4. PendingOK' /\ LeaseOK' /\ ExecutorOK'
    BY <1>16 DEF Recheck, AfterAttempt, durable, network, executor, PendingOK, LeaseOK, ExecutorOK
  <2>5. \A q \in Runs : pending'[q].lease => pending[q].lease
    BY <1>16 DEF Recheck, PendingOK
  <2> QED BY <1>16, <2>1, <2>3, <2>4, <2>5 DEF Recheck, AfterAttempt, Quiet, LockedStepsHoldControl, LeaseTaken,
     ActionAt, durable, network, executor
<1>17. ASSUME FenceFails(c) PROVE TypeOK' /\ Quiet(c)
  <2>1. AtOK' /\ OnlyMoves(c) /\ at'[c].step = "idle"
    BY <1>17, ReturnsAt DEF FenceFails
  <2>3. LogOK' /\ \A q \in Runs : Failed(q)' <=> Failed(q)
    BY <1>17 DEF FenceFails, durable, LogOK, Failed, Has
  <2>4. PendingOK' /\ LeaseOK' /\ ExecutorOK'
    BY <1>17 DEF FenceFails, Returns, Fault, durable, network, executor, PendingOK, LeaseOK, ExecutorOK
  <2>5. \A q \in Runs : pending'[q].lease => pending[q].lease
    BY <1>17 DEF FenceFails, PendingOK
  <2> QED BY <1>17, <2>1, <2>3, <2>4, <2>5 DEF FenceFails, Returns, Fault, Quiet, LockedStepsHoldControl, LeaseTaken,
     ActionAt, durable, network, executor
<1> QED BY <1>1, <1>2, <1>3, <1>4, <1>5, <1>6, <1>7, <1>8, <1>9, <1>10, <1>11, <1>12, <1>13, <1>14, <1>15, <1>16, <1>17

\* Acquire makes the only live lease of its intent, in the current epoch.
LEMMA AcquireStep ==
  ASSUME IInv, NEW c \in Callers, Acquire(c)
  PROVE  IInv'
<1> USE FederationAssumption, TypeParts, StepNames DEF IInv
<1>1. control = c /\ at[c].run \in Runs /\ ActionAt(c) \in Actions
  BY DEF Acquire, LockedStepsHoldControl, AtOK, ActionAt
<1>2. AtOK' /\ OnlyMoves(c) /\ at'[c].step = "save" /\ at'[c].run = at[c].run
  BY GoesAt DEF Acquire
<1>3. LogOK' /\ \A q \in Runs : Failed(q)' <=> Failed(q)
  BY DEF Acquire, durable, LogOK, Failed, Has
<1>4. PendingOK' /\ \A q \in Runs : pending'[q].lease = pending[q].lease
  BY OutdatedPending DEF Acquire
<1>5. lease'[ActionAt(c)] = "acquired" /\ \A b \in Actions : b # ActionAt(c) => lease'[b] = lease[b]
  BY <1>1 DEF Acquire, ActionAt, LeaseOK
<1>6. LeaseOK' /\ ExecutorOK'
  BY <1>1 DEF Acquire, AcquireAllowed, LeaseStates, ActionAt, durable, network, executor, LeaseOK, ExecutorOK
<1>7. LockedStepsHoldControl'
  BY <1>1, <1>2 DEF Acquire, LockedStepsHoldControl, OnlyMoves
<1>8. AcquiredLeasesAreCurrent' /\ SentWasAttempted' /\ DrivenWasSent'
  BY <1>1 DEF Acquire, AcquireAllowed, Outdated, AcquiredLeasesAreCurrent, SentWasAttempted, DrivenWasSent,
     ReadyToSend, ActionAt, LeaseOK, ExecutorOK, durable, network, executor
<1>9. DispatchedOnce'
  BY <1>1 DEF Acquire, DispatchedOnce, ReadyToSend, ActionAt, ExecutorOK, network, executor
<1>10. recovery' = recovery
  BY DEF Acquire
<1>11. LeaseTaken'
  BY <1>1, <1>2, <1>4, <1>5, <1>10 DEF Acquire, LeaseTaken, OnlyMoves, ActionAt, AtOK
<1>12. ReadyToSend'
  BY <1>1, <1>2 DEF Acquire, AcquireAllowed, Outdated, ReadyToSend, LockedStepsHoldControl, SentWasAttempted,
     OnlyMoves, ActionAt, AtOK, LeaseOK, ExecutorOK, durable, network
<1>13. attempted' = attempted /\ at[c].step = "acquire" /\ lease[ActionAt(c)] = "none"
  BY DEF Acquire, AcquireAllowed, ActionAt
<1>14. NeverClaimed'
  <2>1. \A d \in Callers : at'[d].step = "fail" => ~attempted'[ActionAt(d)']
    BY <1>1, <1>2, <1>13 DEF NeverClaimed, OnlyMoves, ActionAt
  <2>2. ASSUME NEW r \in Runs, Failed(r)'
        PROVE  /\ ~attempted'[ActionOf[r]] /\ lease'[ActionOf[r]] # "none"
               /\ \A d \in Callers : at'[d].step \in {"save", "claim"} => ActionAt(d)' # ActionOf[r]
    <3>1. ~attempted[ActionOf[r]] /\ lease[ActionOf[r]] # "none" /\ ActionOf[r] \in Actions
      BY <2>2, <1>3 DEF NeverClaimed
    <3>2. \A d \in Callers : at[d].step \in {"save", "claim"} => ActionAt(d) # ActionOf[r]
      BY <2>2, <1>3 DEF NeverClaimed
    <3> QED BY <3>1, <3>2, <1>2, <1>5, <1>13 DEF OnlyMoves, ActionAt
  <2> QED BY <2>1, <2>2 DEF NeverClaimed
<1> QED BY <1>2, <1>3, <1>4, <1>7, <1>8, <1>9, <1>11, <1>12, <1>14, <1>6

\* NeverClaimed survives a caller that neither claims nor comes nearer to a
\* claim, with no run failing.
LEMMA NeverClaimedStep ==
  ASSUME NeverClaimed, NEW c \in Callers, OnlyMoves(c), at'[c].run = at[c].run,
         \A q \in Runs : Failed(q)' <=> Failed(q),
         attempted' = attempted, \A a \in Actions : lease[a] # "none" => lease'[a] # "none",
         at'[c].step # "fail", at'[c].step \in {"save", "claim"} => at[c].step \in {"save", "claim"}
  PROVE  NeverClaimed'
<1>1. \A d \in Callers : at'[d].step = "fail" => ~attempted'[ActionAt(d)']
  BY DEF NeverClaimed, OnlyMoves, ActionAt
<1>2. ASSUME NEW r \in Runs, Failed(r)'
      PROVE  /\ ~attempted'[ActionOf[r]] /\ lease'[ActionOf[r]] # "none"
             /\ \A d \in Callers : at'[d].step \in {"save", "claim"} => ActionAt(d)' # ActionOf[r]
  <2>1. ~attempted[ActionOf[r]] /\ lease[ActionOf[r]] # "none" /\ ActionOf[r] \in Actions
    BY <1>2, FederationAssumption DEF NeverClaimed
  <2>2. \A d \in Callers : at[d].step \in {"save", "claim"} => ActionAt(d) # ActionOf[r]
    BY <1>2 DEF NeverClaimed
  <2> QED BY <2>1, <2>2 DEF OnlyMoves, ActionAt
<1> QED BY <1>1, <1>2 DEF NeverClaimed

\* LeaseTaken survives a step that forgets no lease and adds no record, with
\* the caller on no step that needs a lease, or holding one.
LEMMA LeaseTakenStep ==
  ASSUME LeaseTaken, NEW c \in Callers, OnlyMoves(c), at'[c].run = at[c].run, AtOK, ActionAt(c) \in Actions,
         \A q \in Runs : pending'[q].lease => pending[q].lease \/ lease[ActionOf[q]] # "none",
         \A a \in Actions : attempted'[a] => attempted[a] \/ lease[a] # "none",
         \A q \in Runs : recovery'[q] => recovery[q], \A a \in Actions : lease[a] # "none" => lease'[a] # "none",
         at'[c].step \in {"save", "claim", "recheck", "fail", "fence"} => lease[ActionAt(c)] # "none"
  PROVE  LeaseTaken'
<1>1. \A q \in Runs : ActionOf[q] \in Actions
  BY FederationAssumption
<1>2. \A q \in Runs : pending'[q].lease => lease'[ActionOf[q]] # "none"
  BY <1>1 DEF LeaseTaken
<1>3. \A q \in Runs : recovery'[q] => lease'[ActionOf[q]] # "none"
  BY <1>1 DEF LeaseTaken
<1>4. ASSUME NEW d \in Callers, at'[d].step \in {"save", "claim", "recheck", "fail", "fence"}
      PROVE  lease'[ActionAt(d)'] # "none"
  <2>1. lease[ActionAt(d)] # "none" /\ ActionAt(d)' = ActionAt(d)
    BY <1>4 DEF LeaseTaken, OnlyMoves, ActionAt
  <2>2. ActionAt(d) \in Actions
    <3>1. CASE d = c
      BY <3>1
    <3>2. CASE d # c
      BY <1>1, <1>4, <3>2 DEF AtOK, OnlyMoves, ActionAt
    <3> QED BY <3>1, <3>2
  <2> QED BY <2>1, <2>2
<1>5. \A a \in Actions : attempted'[a] => lease'[a] # "none"
  BY DEF LeaseTaken
<1> QED BY <1>2, <1>3, <1>4, <1>5 DEF LeaseTaken, ActionAt

\* The recovery record is stored after the lease is taken.
LEMMA SaveStep ==
  ASSUME IInv, NEW c \in Callers, Save(c)
  PROVE  IInv'
<1> USE FederationAssumption, TypeParts, StepNames DEF IInv
<1>1. control = c /\ at[c].run \in Runs /\ ActionAt(c) \in Actions
  BY DEF Save, LockedStepsHoldControl, AtOK, ActionAt
<1>2. AtOK' /\ OnlyMoves(c) /\ at'[c].step = "claim" /\ at'[c].run = at[c].run
  BY GoesAt DEF Save
<1>3. LogOK' /\ \A q \in Runs : Failed(q)' <=> Failed(q)
  BY DEF Save, durable, LogOK, Failed, Has
<1>4. PendingOK' /\ \A q \in Runs : pending'[q].lease = pending[q].lease
  BY DEF Save, durable, PendingOK
<1>5. lease' = lease
  BY DEF Save, durable
<1>6. LeaseOK' /\ ExecutorOK'
  BY <1>1 DEF Save, ActionAt, durable, network, executor, LeaseOK, ExecutorOK
<1>7. LockedStepsHoldControl'
  BY <1>1, <1>2 DEF Save, LockedStepsHoldControl, OnlyMoves
<1>8. AcquiredLeasesAreCurrent' /\ SentWasAttempted' /\ DrivenWasSent'
  BY <1>1 DEF Save, AcquiredLeasesAreCurrent, SentWasAttempted, DrivenWasSent, ReadyToSend, ActionAt, LeaseOK,
     ExecutorOK, durable, network, executor
<1>9. DispatchedOnce'
  BY <1>1 DEF Save, DispatchedOnce, ReadyToSend, ActionAt, ExecutorOK, network, executor
<1>10. LeaseTaken'
  BY <1>1, <1>2, <1>4, <1>5 DEF Save, LeaseTaken, OnlyMoves, ActionAt, AtOK
<1>11. ReadyToSend'
  BY <1>1, <1>2 DEF Save, ReadyToSend, LockedStepsHoldControl, SentWasAttempted, OnlyMoves, ActionAt, AtOK, LeaseOK,
     ExecutorOK, durable, network
<1>12. attempted' = attempted /\ at[c].step = "save"
  BY DEF Save, durable
<1>13. NeverClaimed'
  BY <1>2, <1>3, <1>5, <1>12, NeverClaimedStep
<1> QED BY <1>2, <1>3, <1>4, <1>7, <1>8, <1>9, <1>10, <1>11, <1>13, <1>6

\* A claim turns a live lease without an attempt into one ready to send.
LEMMA ClaimStep ==
  ASSUME IInv, NEW c \in Callers, Claim(c)
  PROVE  IInv'
<1> USE FederationAssumption, TypeParts, StepNames DEF IInv
<1>1. control = c /\ at[c].run \in Runs /\ ActionAt(c) \in Actions
  BY DEF Claim, LockedStepsHoldControl, AtOK, ActionAt
<1>2. AtOK' /\ OnlyMoves(c) /\ at'[c].step = "send" /\ at'[c].run = at[c].run
  BY GoesAt DEF Claim
<1>3. LogOK' /\ \A q \in Runs : Failed(q)' <=> Failed(q)
  BY DEF Claim, durable, LogOK, Failed, Has
<1>4. PendingOK' /\ \A q \in Runs : q # at[c].run => pending'[q].lease = pending[q].lease
  BY <1>1 DEF Claim, PendingOK
<1>5. lease' = lease
  BY DEF Claim, durable
<1>6. LeaseOK' /\ ExecutorOK'
  BY <1>1 DEF Claim, ClaimAllowed, MarkAttempted, ActionAt, durable, network, executor, LeaseOK, ExecutorOK
<1>7. LockedStepsHoldControl'
  BY <1>1, <1>2 DEF Claim, LockedStepsHoldControl, OnlyMoves
<1>8. AcquiredLeasesAreCurrent' /\ SentWasAttempted' /\ DrivenWasSent'
  BY <1>1 DEF Claim, ClaimAllowed, MarkAttempted, AcquiredLeasesAreCurrent, SentWasAttempted, DrivenWasSent,
     ReadyToSend, ActionAt, LeaseOK, ExecutorOK, durable, network, executor
<1>9. DispatchedOnce'
  BY <1>1 DEF Claim, DispatchedOnce, ReadyToSend, ActionAt, ExecutorOK, network, executor
<1>10. LeaseTaken'
  <2>1. lease[ActionAt(c)] = "acquired" /\ recovery' = recovery
    BY DEF Claim, ClaimAllowed, ActionAt
  <2>2. \A q \in Runs : pending'[q].lease => pending[q].lease \/ lease[ActionOf[q]] # "none"
    BY <1>4, <2>1 DEF ActionAt
  <2>3. \A a \in Actions : attempted'[a] => attempted[a] \/ lease[a] # "none"
    BY <1>1, <2>1 DEF Claim, MarkAttempted, ActionAt, LeaseOK
  <2> QED BY <1>1, <1>2, <1>5, <2>1, <2>2, <2>3, LeaseTakenStep
<1>11. ReadyToSend'
  <2>1. \A d \in Callers : at'[d].step = "send" => d = c
    BY <1>1, <1>2 DEF LockedStepsHoldControl, OnlyMoves
  <2>2. attempted'[ActionAt(c)] /\ lease'[ActionAt(c)] = "acquired"
    BY <1>1 DEF Claim, ClaimAllowed, MarkAttempted, ActionAt, LeaseOK
  <2>3. sent'[ActionAt(c)] = 0
    BY <1>1 DEF Claim, ClaimAllowed, SentWasAttempted, ActionAt, ExecutorOK, network
  <2> QED BY <1>2, <2>1, <2>2, <2>3 DEF ReadyToSend, ActionAt
<1>12. NeverClaimed'
  BY <1>1, <1>2, <1>3, <1>5 DEF Claim, ClaimAllowed, MarkAttempted, NeverClaimed, LeaseTaken, LockedStepsHoldControl,
     OnlyMoves, ActionAt, AtOK, LeaseOK, durable
<1> QED BY <1>2, <1>3, <1>4, <1>7, <1>8, <1>9, <1>10, <1>11, <1>12, <1>6

\* Only the caller that claimed sends, so nothing was sent before.
LEMMA SendStep ==
  ASSUME IInv, NEW c \in Callers, Send(c)
  PROVE  IInv'
<1> USE FederationAssumption, TypeParts, StepNames DEF IInv
<1>1. control = c /\ at[c].run \in Runs /\ ActionAt(c) \in Actions
  BY DEF Send, LockedStepsHoldControl, AtOK, ActionAt
<1>2. AtOK' /\ OnlyMoves(c) /\ at'[c].step = "wait" /\ at'[c].run = at[c].run
  BY GoesAt DEF Send
<1>3. LogOK' /\ \A q \in Runs : Failed(q)' <=> Failed(q)
  BY DEF Send, durable, LogOK, Failed, Has
<1>4. PendingOK' /\ \A q \in Runs : pending'[q].lease = pending[q].lease
  BY DEF Send, durable, PendingOK
<1>5. lease' = lease
  BY DEF Send, durable
<1>6. LeaseOK' /\ ExecutorOK'
  BY <1>1 DEF Send, ActionAt, durable, network, executor, LeaseOK, ExecutorOK
<1>7. LockedStepsHoldControl'
  BY <1>1, <1>2 DEF Send, LockedStepsHoldControl, OnlyMoves
<1>8. AcquiredLeasesAreCurrent' /\ SentWasAttempted' /\ DrivenWasSent'
  BY <1>1 DEF Send, AcquiredLeasesAreCurrent, SentWasAttempted, DrivenWasSent, ReadyToSend, ActionAt, LeaseOK,
     ExecutorOK, durable, network, executor
<1>9. DispatchedOnce'
  BY <1>1 DEF Send, DispatchedOnce, ReadyToSend, ActionAt, ExecutorOK, network, executor
<1>10. LeaseTaken'
  BY <1>1, <1>2, <1>4, <1>5 DEF Send, LeaseTaken, OnlyMoves, ActionAt, AtOK, durable
<1>11. ReadyToSend'
  BY <1>1, <1>2 DEF Send, ReadyToSend, LockedStepsHoldControl, SentWasAttempted, OnlyMoves, ActionAt, AtOK, LeaseOK,
     ExecutorOK, durable, network
<1>12. NeverClaimed'
  <2>1. attempted' = attempted
    BY DEF Send, durable
  <2> QED BY <1>2, <1>3, <1>5, <2>1, NeverClaimedStep
<1> QED BY <1>2, <1>3, <1>4, <1>7, <1>8, <1>9, <1>10, <1>11, <1>12, <1>6

\* A released lease is never live again.
LEMMA ReleaseStep ==
  ASSUME IInv, NEW c \in Callers, Release(c)
  PROVE  IInv'
<1> USE FederationAssumption, TypeParts, StepNames DEF IInv
<1>1. control = c /\ at[c].run \in Runs /\ ActionAt(c) \in Actions
  BY DEF Release, LockedStepsHoldControl, AtOK, ActionAt
<1>2. AtOK' /\ OnlyMoves(c) /\ at'[c].step \in {"wrap", "failWrap"} /\ at'[c].run = at[c].run
  <2>1. Goes(c, "wrap") \/ Goes(c, "failWrap")
    BY DEF Release
  <2> QED BY <2>1, GoesAt DEF Release
<1>3. LogOK' /\ \A q \in Runs : Failed(q)' <=> Failed(q)
  BY DEF Release, durable, LogOK, Failed, Has
<1>4. PendingOK' /\ \A q \in Runs : pending'[q].lease = pending[q].lease
  BY OutdatedPending DEF Release
<1>5. lease'[ActionAt(c)] = "released" /\ \A b \in Actions : b # ActionAt(c) => lease'[b] = lease[b]
  BY <1>1 DEF Release, ActionAt, LeaseOK
<1>6. LeaseOK' /\ ExecutorOK'
  BY <1>1 DEF Release, LeaseStates, ActionAt, durable, network, executor, LeaseOK, ExecutorOK
<1>7. LockedStepsHoldControl'
  BY <1>1, <1>2 DEF Release, LockedStepsHoldControl, OnlyMoves
<1>8. AcquiredLeasesAreCurrent' /\ SentWasAttempted' /\ DrivenWasSent'
  BY <1>1 DEF Release, Outdated, AcquiredLeasesAreCurrent, SentWasAttempted, DrivenWasSent, ReadyToSend, ActionAt,
     LeaseOK, ExecutorOK, durable, network, executor
<1>9. DispatchedOnce'
  BY <1>1 DEF Release, DispatchedOnce, ReadyToSend, ActionAt, ExecutorOK, network, executor
<1>10. recovery' = recovery /\ attempted' = attempted
  BY DEF Release
<1>11. LeaseTaken'
  BY <1>1, <1>2, <1>4, <1>5, <1>10, LeaseTakenStep
<1>12. ReadyToSend'
  BY <1>1, <1>2 DEF Release, Outdated, ReadyToSend, LockedStepsHoldControl, SentWasAttempted, OnlyMoves, ActionAt,
     AtOK, LeaseOK, ExecutorOK, durable, network
<1>13. NeverClaimed'
  <2>1. attempted' = attempted
    BY DEF Release
  <2> QED BY <1>1, <1>2, <1>3, <1>5, <2>1, NeverClaimedStep
<1> QED BY <1>2, <1>3, <1>4, <1>7, <1>8, <1>9, <1>11, <1>12, <1>13, <1>6

\* The lock excludes a claim between the recheck and the failure.
LEMMA FailNotDispatchedStep ==
  ASSUME IInv, NEW c \in Callers, FailNotDispatched(c)
  PROVE  IInv'
<1> USE FederationAssumption, TypeParts, StepNames DEF IInv
<1>1. control = c /\ at[c].run \in Runs /\ ActionAt(c) \in Actions
  BY DEF FailNotDispatched, LockedStepsHoldControl, AtOK, ActionAt
<1>2. AtOK' /\ OnlyMoves(c) /\ at'[c].step = "failRelease" /\ at'[c].run = at[c].run
  BY GoesAt DEF FailNotDispatched
<1>3. LogOK' /\ \A q \in Runs : Failed(q)' <=> Failed(q) \/ q = at[c].run
  BY <1>1, RecordsLog DEF FailNotDispatched, Facts
<1>4. PendingOK' /\ \A q \in Runs : pending'[q].lease = pending[q].lease
  BY DEF FailNotDispatched, durable, PendingOK
<1>5. lease' = lease
  BY DEF FailNotDispatched, durable
<1>6. LeaseOK' /\ ExecutorOK'
  BY <1>1 DEF FailNotDispatched, ActionAt, durable, network, executor, LeaseOK, ExecutorOK
<1>7. LockedStepsHoldControl'
  BY <1>1, <1>2 DEF FailNotDispatched, LockedStepsHoldControl, OnlyMoves
<1>8. AcquiredLeasesAreCurrent' /\ SentWasAttempted' /\ DrivenWasSent'
  BY <1>1 DEF FailNotDispatched, AcquiredLeasesAreCurrent, SentWasAttempted, DrivenWasSent, ReadyToSend, ActionAt,
     LeaseOK, ExecutorOK, durable, network, executor
<1>9. DispatchedOnce'
  BY <1>1 DEF FailNotDispatched, DispatchedOnce, ReadyToSend, ActionAt, ExecutorOK, network, executor
<1>10. LeaseTaken'
  BY <1>1, <1>2, <1>4, <1>5 DEF FailNotDispatched, LeaseTaken, OnlyMoves, ActionAt, AtOK, durable
<1>11. ReadyToSend'
  BY <1>1, <1>2 DEF FailNotDispatched, ReadyToSend, LockedStepsHoldControl, SentWasAttempted, OnlyMoves, ActionAt,
     AtOK, LeaseOK, ExecutorOK, durable, network
<1>12. NeverClaimed'
  <2>1. attempted' = attempted /\ at[c].step = "fail"
    BY DEF FailNotDispatched, durable
  <2>2. \A d \in Callers : d # c => at[d].step \notin {"save", "claim", "fail"}
    BY <1>1 DEF LockedStepsHoldControl
  <2>3. \A d \in Callers : at'[d].step \notin {"save", "claim", "fail"}
    BY <1>2, <2>2 DEF OnlyMoves
  <2>4. ~attempted[ActionAt(c)] /\ lease[ActionAt(c)] # "none"
    BY <2>1 DEF NeverClaimed, LeaseTaken
  <2>5. \A r \in Runs : Failed(r)' => ~attempted[ActionOf[r]] /\ lease[ActionOf[r]] # "none"
    BY <1>3, <2>4 DEF NeverClaimed, ActionAt
  <2> QED BY <1>5, <2>1, <2>3, <2>5 DEF NeverClaimed
<1> QED BY <1>2, <1>3, <1>4, <1>7, <1>8, <1>9, <1>10, <1>11, <1>12, <1>6

\* A fenced lease is never live again.
LEMMA FenceStep ==
  ASSUME IInv, NEW c \in Callers, Fence(c)
  PROVE  IInv'
<1> USE FederationAssumption, TypeParts, StepNames DEF IInv
<1>1. control = c /\ at[c].run \in Runs /\ ActionAt(c) \in Actions
  BY DEF Fence, LockedStepsHoldControl, AtOK, ActionAt
<1>2. AtOK' /\ OnlyMoves(c) /\ at'[c].step = "mark" /\ at'[c].run = at[c].run
  BY GoesAt DEF Fence
<1>3. LogOK' /\ \A q \in Runs : Failed(q)' <=> Failed(q)
  BY DEF Fence, durable, LogOK, Failed, Has
<1>4. PendingOK' /\ \A q \in Runs : pending'[q].lease = pending[q].lease
  BY OutdatedPending DEF Fence
<1>5. lease'[ActionAt(c)] = "fenced" /\ \A b \in Actions : b # ActionAt(c) => lease'[b] = lease[b]
  BY <1>1 DEF Fence, ActionAt, LeaseOK
<1>6. LeaseOK' /\ ExecutorOK'
  BY <1>1 DEF Fence, LeaseStates, ActionAt, durable, network, executor, LeaseOK, ExecutorOK
<1>7. LockedStepsHoldControl'
  BY <1>1, <1>2 DEF Fence, LockedStepsHoldControl, OnlyMoves
<1>8. AcquiredLeasesAreCurrent' /\ SentWasAttempted' /\ DrivenWasSent'
  BY <1>1 DEF Fence, Outdated, AcquiredLeasesAreCurrent, SentWasAttempted, DrivenWasSent, ReadyToSend, ActionAt,
     LeaseOK, ExecutorOK, durable, network, executor
<1>9. DispatchedOnce'
  BY <1>1 DEF Fence, DispatchedOnce, ReadyToSend, ActionAt, ExecutorOK, network, executor
<1>10. recovery' = recovery /\ attempted' = attempted
  BY DEF Fence
<1>11. LeaseTaken'
  BY <1>1, <1>2, <1>4, <1>5, <1>10, LeaseTakenStep
<1>12. ReadyToSend'
  BY <1>1, <1>2 DEF Fence, Outdated, ReadyToSend, LockedStepsHoldControl, SentWasAttempted, OnlyMoves, ActionAt,
     AtOK, LeaseOK, ExecutorOK, durable, network
<1>13. attempted' = attempted /\ at[c].step = "fence"
  BY DEF Fence
<1>14. NeverClaimed'
  <2>1. \A d \in Callers : at'[d].step = "fail" => ~attempted'[ActionAt(d)']
    BY <1>1, <1>2, <1>13 DEF NeverClaimed, OnlyMoves, ActionAt
  <2>2. ASSUME NEW r \in Runs, Failed(r)'
        PROVE  /\ ~attempted'[ActionOf[r]] /\ lease'[ActionOf[r]] # "none"
               /\ \A d \in Callers : at'[d].step \in {"save", "claim"} => ActionAt(d)' # ActionOf[r]
    <3>1. ~attempted[ActionOf[r]] /\ lease[ActionOf[r]] # "none" /\ ActionOf[r] \in Actions
      BY <2>2, <1>3 DEF NeverClaimed
    <3>2. \A d \in Callers : at[d].step \in {"save", "claim"} => ActionAt(d) # ActionOf[r]
      BY <2>2, <1>3 DEF NeverClaimed
    <3> QED BY <3>1, <3>2, <1>2, <1>5, <1>13 DEF OnlyMoves, ActionAt
  <2> QED BY <2>1, <2>2 DEF NeverClaimed
<1> QED BY <1>2, <1>3, <1>4, <1>7, <1>8, <1>9, <1>11, <1>12, <1>14, <1>6

\* Submissions, refusals and acknowledgements move no caller.
LEMMA StillSteps ==
  ASSUME IInv, AckReplication \/ (\E r \in Runs : Prepare(r) \/ \E c \in Callers : Deny(c, r))
  PROVE  IInv'
<1> USE TypeParts DEF IInv
<1>1. UNCHANGED <<epoch, granted, lease, leaseEpoch, attempted, recovery, control, at, network, executor, faults>>
  BY DEF AckReplication, Prepare, Deny, durable
<1>2. LogOK' /\ PendingOK' /\ \A q \in Runs : (Failed(q)' <=> Failed(q)) /\ (pending'[q].lease => pending[q].lease)
  <2>1. CASE AckReplication
    BY <2>1, OutdatedPending DEF AckReplication, durable, LogOK, Failed, Has
  <2>2. ASSUME NEW r \in Runs, Prepare(r) \/ \E c \in Callers : Deny(c, r)
        PROVE  /\ LogOK' /\ PendingOK'
               /\ \A q \in Runs : (Failed(q)' <=> Failed(q)) /\ (pending'[q].lease => pending[q].lease)
    <3>1. \E f \in {"waiting", "denied"} : Records(r, f)
      BY <2>2 DEF Prepare, Deny
    <3>2. LogOK' /\ \A q \in Runs : Failed(q)' <=> Failed(q)
      BY <3>1, RecordsLog DEF Facts
    <3>3. CASE Prepare(r)
      BY <3>2, <3>3 DEF Prepare, PendingOK, LeaseOK, Phases
    <3>4. CASE \E c \in Callers : Deny(c, r)
      BY <3>2, <3>4 DEF Deny, PendingOK, Phases
    <3> QED BY <2>2, <3>3, <3>4
  <2> QED BY <2>1, <2>2
<1>3. AtOK' /\ LeaseOK' /\ ExecutorOK'
  BY <1>1 DEF AtOK, LeaseOK, ExecutorOK, network, executor
<1>4. LockedStepsHoldControl' /\ AcquiredLeasesAreCurrent' /\ DispatchedOnce' /\ SentWasAttempted' /\ DrivenWasSent'
  BY <1>1 DEF LockedStepsHoldControl, AcquiredLeasesAreCurrent, DispatchedOnce, SentWasAttempted, DrivenWasSent,
     network, executor
<1>5. LeaseTaken' /\ ReadyToSend' /\ NeverClaimed'
  BY <1>1, <1>2 DEF LeaseTaken, ReadyToSend, NeverClaimed, ActionAt, network
<1> QED BY <1>2, <1>3, <1>4, <1>5

\* A change of the registry holds the lock, so nobody is between claim and
\* dispatch, and leaves no lease alive.
LEMMA ChangePeersStep ==
  ASSUME IInv, NEW revoke \in BOOLEAN, ChangePeers(revoke)
  PROVE  IInv'
<1> USE FederationAssumption, TypeParts, StepNames DEF IInv
<1>1. \A c \in Callers : at[c].step \notin LockedSteps
  BY DEF ChangePeers, ControlFree, LockedStepsHoldControl
<1>2. UNCHANGED <<leaseEpoch, attempted, recovery, log, control, at, network, executor, faults>>
  BY DEF ChangePeers
<1>3. PendingOK' /\ \A q \in Runs : pending'[q].lease = pending[q].lease
  BY OutdatedPending DEF ChangePeers
<1>4. /\ lease' \in [Actions -> LeaseStates]
      /\ \A a \in Actions : lease'[a] # "acquired" /\ (lease[a] # "none" => lease'[a] # "none")
  BY DEF ChangePeers, FencedByEpoch, LeaseOK, LeaseStates
<1>5. LeaseOK'
  BY <1>2, <1>4 DEF ChangePeers, LeaseOK
<1>6. AtOK' /\ LogOK' /\ ExecutorOK' /\ \A q \in Runs : Failed(q)' <=> Failed(q)
  BY <1>2 DEF AtOK, LogOK, ExecutorOK, network, executor, Failed, Has
<1>7. LockedStepsHoldControl' /\ AcquiredLeasesAreCurrent' /\ DispatchedOnce' /\ SentWasAttempted' /\ DrivenWasSent'
  BY <1>2, <1>4 DEF LockedStepsHoldControl, AcquiredLeasesAreCurrent, DispatchedOnce, SentWasAttempted,
     DrivenWasSent, network, executor
<1>8. LeaseTaken' /\ ReadyToSend' /\ NeverClaimed'
  BY <1>1, <1>2, <1>3, <1>4, <1>6 DEF LeaseTaken, ReadyToSend, NeverClaimed, ActionAt, AtOK
<1> QED BY <1>3, <1>5, <1>6, <1>7, <1>8

\* A crash forgets the callers and what was in memory.
LEMMA CrashStep ==
  ASSUME IInv, Crash
  PROVE  IInv'
<1> USE FederationAssumption, TypeParts, StepNames DEF IInv
<1>1. UNCHANGED <<epoch, granted, lease, leaseEpoch, attempted, recovery, log, network, executor>> /\ control' = NoOne
  BY DEF Crash, durable
<1>2. AtOK' /\ \A c \in Callers : at'[c].step = "idle"
  BY DEF Crash, AtOK, Idle, Operations
<1>3. PendingOK' /\ \A q \in Runs : ~pending'[q].lease
  BY DEF Crash, PendingOK, Absent, Phases
<1>4. LogOK' /\ LeaseOK' /\ ExecutorOK' /\ \A q \in Runs : Failed(q)' <=> Failed(q)
  BY <1>1 DEF Crash, Fault, LogOK, LeaseOK, ExecutorOK, network, executor, Failed, Has
<1>5. LockedStepsHoldControl' /\ AcquiredLeasesAreCurrent' /\ DispatchedOnce' /\ SentWasAttempted' /\ DrivenWasSent'
  BY <1>1, <1>2 DEF LockedStepsHoldControl, AcquiredLeasesAreCurrent, DispatchedOnce, SentWasAttempted,
     DrivenWasSent, network, executor
<1>6. LeaseTaken' /\ ReadyToSend' /\ NeverClaimed'
  BY <1>1, <1>2, <1>3, <1>4 DEF LeaseTaken, ReadyToSend, NeverClaimed, ActionAt
<1> QED BY <1>2, <1>3, <1>4, <1>5, <1>6

\* The executor changes nothing at the authority.
LEMMA ExecutorSteps ==
  ASSUME IInv, Executor
  PROVE  IInv'
<1> USE FederationAssumption, TypeParts DEF IInv
<1>1. UNCHANGED <<durable, memory, sent>>
  BY DEF Executor, TakeDispatch, RefuseDispatch, Drive, CompleteDispatch, Stop, Restart, network
<1>2. AtOK' /\ LogOK' /\ PendingOK' /\ LeaseOK' /\ \A q \in Runs : Failed(q)' <=> Failed(q)
  BY <1>1 DEF durable, memory, AtOK, LogOK, PendingOK, LeaseOK, Failed, Has
<1>3. LockedStepsHoldControl' /\ AcquiredLeasesAreCurrent' /\ SentWasAttempted' /\ LeaseTaken' /\ ReadyToSend' /\ NeverClaimed'
  BY <1>1, <1>2 DEF durable, memory, LockedStepsHoldControl, AcquiredLeasesAreCurrent, SentWasAttempted, LeaseTaken,
     ReadyToSend, NeverClaimed, ActionAt
<1>4. ExecutorOK' /\ DispatchedOnce' /\ DrivenWasSent'
  <2> USE DEF ExecutorOK, DispatchedOnce, DrivenWasSent, memory, network
  <2>1. ASSUME NEW a \in Actions, TakeDispatch(a) PROVE ExecutorOK' /\ DispatchedOnce' /\ DrivenWasSent'
    BY <2>1 DEF TakeDispatch, Replayed
  <2>2. ASSUME NEW a \in Actions, RefuseDispatch(a) PROVE ExecutorOK' /\ DispatchedOnce' /\ DrivenWasSent'
    BY <2>2 DEF RefuseDispatch
  <2>3. ASSUME NEW a \in Actions, NEW e \in {"ok", "failed"}, Drive(a, e) PROVE ExecutorOK' /\ DispatchedOnce' /\ DrivenWasSent'
    BY <2>3 DEF Drive
  <2>4. ASSUME NEW a \in Actions, NEW o \in {"ok", "failed"}, CompleteDispatch(a, o) PROVE ExecutorOK' /\ DispatchedOnce' /\ DrivenWasSent'
    BY <2>4 DEF CompleteDispatch
  <2>5. CASE Stop
    <3>1. UNCHANGED <<control, wire, sent, ledger, report, effect, calls>> /\ up' = FALSE /\ busy' = NoAction /\ faults' = faults + 1
      BY <2>5 DEF Stop, Fault
    <3>2. faults \in Nat /\ faults' \in Nat
      BY <3>1
    <3> QED BY <3>1, <3>2
  <2>6. CASE Restart
    BY <2>6 DEF Restart
  <2> QED BY <2>1, <2>2, <2>3, <2>4, <2>5, <2>6 DEF Executor
<1> QED BY <1>2, <1>3, <1>4

-------------------------------------------------------------------------------
(* The theorems.                                                             *)

\* The initial states satisfy IInv.
LEMMA InitIInv == Init => IInv
<1> SUFFICES ASSUME Init PROVE IInv
  OBVIOUS
<1> USE FederationAssumption, TypeParts, StepNames DEF Init
<1>1. AtOK /\ LogOK /\ PendingOK
  BY DEF AtOK, LogOK, PendingOK, Idle, Absent, Operations, Phases
<1>2. LeaseOK /\ ExecutorOK
  BY DEF LeaseOK, ExecutorOK, LeaseStates
<1>3. \A c \in Callers : at[c].step = "idle"
  BY DEF Idle
<1>4. \A r \in Runs : ~pending[r].lease /\ ~Failed(r)
  BY DEF Absent, Failed, Has
<1>5. LockedStepsHoldControl /\ AcquiredLeasesAreCurrent /\ DispatchedOnce /\ SentWasAttempted /\ DrivenWasSent
  BY <1>3 DEF LockedStepsHoldControl, AcquiredLeasesAreCurrent, DispatchedOnce, SentWasAttempted, DrivenWasSent
<1>6. LeaseTaken /\ ReadyToSend /\ NeverClaimed
  BY <1>3, <1>4 DEF LeaseTaken, ReadyToSend, NeverClaimed
<1> QED BY <1>1, <1>2, <1>5, <1>6 DEF IInv

\* Every step keeps IInv.
LEMMA NextIInv == IInv /\ [Next]_vars => IInv'
<1> SUFFICES ASSUME IInv, [Next]_vars PROVE IInv'
  OBVIOUS
<1>1. ASSUME NEW c \in Callers, Step(c) PROVE IInv'
  BY <1>1, QuietSteps, AcquireStep, SaveStep, ClaimStep, SendStep, ReleaseStep, FailNotDispatchedStep, FenceStep
     DEF Step, Resolving, Settling, Recovering
<1>2. ASSUME NEW c \in Callers, NEW r \in Runs, Call(c, r) PROVE IInv'
  BY <1>2, QuietSteps, StillSteps DEF Call
<1>3. CASE AckReplication \/ \E r \in Runs : Prepare(r)
  BY <1>3, StillSteps
<1>4. CASE ChangePeers(TRUE) \/ ChangePeers(FALSE)
  BY <1>4, ChangePeersStep
<1>5. CASE Crash
  BY <1>5, CrashStep
<1>6. CASE Executor
  BY <1>6, ExecutorSteps
<1>7. CASE UNCHANGED vars
  BY <1>7 DEF vars, durable, memory, network, executor, IInv, TypeOK, LockedStepsHoldControl, AcquiredLeasesAreCurrent,
     DispatchedOnce, SentWasAttempted, DrivenWasSent, LeaseTaken, ReadyToSend, NeverClaimed, Failed, Has, ActionAt
<1> QED BY <1>1, <1>2, <1>3, <1>4, <1>5, <1>6, <1>7 DEF Next

\* IInv holds of every reachable state: InitIInv and NextIInv make it inductive.
THEOREM Invariance == Spec => []IInv
  BY InitIInv, NextIInv, PTL DEF Spec

\* Type correctness.
THEOREM TypeCorrect == Spec => []TypeOK
  BY Invariance, PTL DEF IInv

\* At most one dispatch and one driver call per intent, whatever the crashes,
\* lost answers, recoveries, cancellations and repeated submissions.
THEOREM AtMostOneDispatch == Spec => []DispatchedOnce
  BY Invariance, PTL DEF IInv

\* Leases of an old epoch or a revoked grant are never alive.
THEOREM LiveLeasesAreCurrent == Spec => []AcquiredLeasesAreCurrent
  BY Invariance, PTL DEF IInv

\* A run failed as not dispatched was not, and never is.
THEOREM NotDispatchedIsFinal == Spec => []NotDispatchedIsTrue
<1>1. IInv => NotDispatchedIsTrue
  <2> SUFFICES ASSUME IInv, NEW r \in Runs, Has(r, "failed")
               PROVE  sent[ActionOf[r]] = 0 /\ calls[ActionOf[r]] = 0
    BY DEF NotDispatchedIsTrue
  <2>1. ActionOf[r] \in Actions /\ ~attempted[ActionOf[r]]
    BY FederationAssumption DEF IInv, NeverClaimed, Failed
  <2> QED BY <2>1, TypeParts DEF IInv, SentWasAttempted, DrivenWasSent, ExecutorOK
<1> QED BY <1>1, Invariance, PTL

\* The dispatch leaves under a live lease and grant.
THEOREM DispatchIsAuthorised == Spec => DispatchUnderLiveGrant
<1>1. ASSUME IInv, [Next]_vars
      PROVE  [\A a \in Actions : sent'[a] > sent[a] => lease[a] = "acquired" /\ granted /\ leaseEpoch[a] = epoch]_vars
  <2>1. ASSUME NEW c \in Callers, Send(c), NEW a \in Actions, sent'[a] > sent[a]
        PROVE  lease[a] = "acquired" /\ granted /\ leaseEpoch[a] = epoch
    <3>1. a = ActionAt(c)
      BY <1>1, <2>1, TypeParts DEF Send, IInv, ExecutorOK, ActionAt
    <3>2. lease[a] = "acquired"
      BY <1>1, <2>1, <3>1 DEF Send, IInv, ReadyToSend
    <3> QED BY <1>1, <3>2 DEF IInv, AcquiredLeasesAreCurrent
  <2>2. CASE \E c \in Callers : Send(c)
    BY <2>1, <2>2
  <2>3. CASE ~(\E c \in Callers : Send(c))
    <3>1. sent' = sent
      <4>1. \A c \in Callers : Step(c) => sent' = sent
        BY <2>3 DEF Step, Resolving, Settling, Recovering, Acquire, Save, Claim, Accepted, DispatchFails, SaveReceipt,
           ResolveFails, Observe, ObserveFails, Finish, FinishRefused, Release, ReleaseFails, WrapUp, Mark, MarkAppend,
           Recheck, FailNotDispatched, Fence, FenceFails, network
      <4>2. \A c \in Callers, r \in Runs : Call(c, r) => sent' = sent
        BY DEF Call, Grant, Deny, Recover, Cancel, network
      <4>3. \A r \in Runs : Prepare(r) => sent' = sent
        BY DEF Prepare, network
      <4>4. Executor => sent' = sent
        BY DEF Executor, TakeDispatch, RefuseDispatch, Drive, CompleteDispatch, Stop, Restart, network
      <4>5. AckReplication \/ Crash \/ ChangePeers(TRUE) \/ ChangePeers(FALSE) => sent' = sent
        BY DEF ChangePeers, AckReplication, Crash, network
      <4> QED BY <1>1, <4>1, <4>2, <4>3, <4>4, <4>5 DEF Next, vars, network
    <3> QED BY <1>1, <3>1, TypeParts DEF IInv, ExecutorOK
  <2> QED BY <2>2, <2>3
<1> QED BY <1>1, Invariance, PTL DEF Spec, DispatchUnderLiveGrant

\* Leases, requests and refusals together, for any runs, threads, epochs and
\* faults.
THEOREM DispatchStaysSound == Spec => []DispatchIsSound
BY TypeCorrect, AtMostOneDispatch, NotDispatchedIsFinal, LiveLeasesAreCurrent, PTL DEF DispatchIsSound

\* A run's record grows by "completed".
Completes(r) == Len(log'[r]) > Len(log[r]) /\ log'[r][Len(log'[r])] = "completed"

\* What a step appends is the last thing in the record of its run.
LEMMA RecordsOnlyItsFact ==
  ASSUME LogOK, NEW q \in Runs, NEW fact \in Facts, Records(q, fact), NEW r \in Runs, Completes(r)
  PROVE  r = q /\ fact = "completed"
<1>1. log[r] \in Seq(Facts) /\ log[q] \in Seq(Facts)
  BY DEF LogOK
<1>2. CASE r # q
  <2>1. log'[r] = log[r]
    BY <1>2 DEF LogOK, Records
  <2> QED BY <1>1, <2>1 DEF Completes
<1>3. CASE r = q
  <2>1. log'[r] = Append(log[r], fact)
    BY <1>3 DEF LogOK, Records
  <2> QED BY <1>1, <1>3, <2>1 DEF Completes
<1> QED BY <1>2, <1>3

\* Only Finish completes a run, on a lease it has just read and with the
\* ground truth of the effect.
THEOREM CompletionStaysEarned == Spec => CompletionIsEarned
<1>1. ASSUME IInv, [Next]_vars, NEW r \in Runs, Completes(r)
      PROVE  lease[ActionOf[r]] = "acquired" /\ effect[ActionOf[r]] = "ok"
  <2>1. LogOK /\ AtOK
    BY <1>1, TypeParts DEF IInv
  <2>2. log' # log
    BY <1>1, <2>1 DEF LogOK, Completes
  <2>3. ASSUME NEW c \in Callers, Step(c)
        PROVE  lease[ActionOf[r]] = "acquired" /\ effect[ActionOf[r]] = "ok"
    <3>1. CASE Finish(c)
      <4>1. at[c].run \in Runs
        BY <2>1, <3>1 DEF AtOK, Finish
      <4>2. r = at[c].run
        BY <1>1, <2>1, <3>1, <4>1, RecordsOnlyItsFact DEF Finish, Facts
      <4> QED BY <3>1, <4>2 DEF Finish, StillOwned, Verified
    <3>2. CASE \E fact \in Facts \ {"completed"} : at[c].step # "idle" /\ Records(at[c].run, fact)
      <4>1. at[c].run \in Runs
        BY <2>1, <3>2 DEF AtOK
      <4> QED BY <1>1, <2>1, <3>2, <4>1, RecordsOnlyItsFact
    <3> QED
      BY <2>2, <2>3, <3>1, <3>2 DEF Step, Resolving, Settling, Recovering, Acquire, Save, Claim, Send, Accepted, DispatchFails,
         SaveReceipt, ResolveFails, Observe, ObserveFails, FinishRefused, Release, ReleaseFails, WrapUp, Mark, MarkAppend,
         Recheck, FailNotDispatched, Fence, FenceFails, durable, Facts
  <2>4. ASSUME NEW c \in Callers, NEW q \in Runs, Call(c, q)
        PROVE  FALSE
    <3>1. CASE \E fact \in Facts \ {"completed"} : Records(q, fact)
      BY <1>1, <2>1, <3>1, RecordsOnlyItsFact
    <3> QED BY <2>2, <2>4, <3>1 DEF Call, Grant, Deny, Recover, Cancel, durable, Facts
  <2>5. ASSUME NEW q \in Runs, Prepare(q)
        PROVE  FALSE
    BY <1>1, <2>1, <2>5, RecordsOnlyItsFact DEF Prepare, Facts
  <2>6. ~(Executor \/ AckReplication \/ Crash \/ ChangePeers(TRUE) \/ ChangePeers(FALSE))
    BY <2>2 DEF Executor, TakeDispatch, RefuseDispatch, Drive, CompleteDispatch, Stop, Restart,
       ChangePeers, AckReplication, Crash, durable
  <2> QED BY <1>1, <2>2, <2>3, <2>4, <2>5, <2>6 DEF Next, vars, durable
<1>2. ASSUME IInv, [Next]_vars
      PROVE  [\A r \in Runs : Len(log'[r]) > Len(log[r]) /\ log'[r][Len(log'[r])] = "completed"
                => lease[ActionOf[r]] = "acquired" /\ effect[ActionOf[r]] = "ok"]_vars
  BY <1>1, <1>2 DEF Completes
<1> QED BY <1>2, Invariance, PTL DEF Spec, CompletionIsEarned

\* claim_remote_dispatch, finish_remote: requests leave and completions are
\* recorded only under a live lease.
THEOREM AuthorityStaysLive == Spec => AuthorityIsLive
  BY DispatchIsAuthorised, CompletionStaysEarned DEF AuthorityIsLive

-------------------------------------------------------------------------------
(* The refinement: Federation implements OneShotDispatch.                    *)

\* A step that leaves lease, claim, request, effect and the terminal facts
\* alone is a stutter of the promise.
LEMMA StutterOf ==
  ASSUME UNCHANGED <<granted, lease, attempted, sent, effect>>,
         \A r \in Runs, fact \in {"completed", "failed"} : Has(r, fact)' <=> Has(r, fact)
  PROVE  UNCHANGED Promised!vars
<1>1. \A a \in Actions : Stage(a)' = Stage(a) /\ Verdict(a)' = Verdict(a)
  BY DEF Stage, Verdict
<1> QED BY <1>1 DEF Promised!vars

\* What Records adds to the facts of a run, for any fact.
LEMMA RecordsHas ==
  ASSUME LogOK, NEW q \in Runs, NEW f \in Facts, Records(q, f)
  PROVE  \A r \in Runs : \A g : Has(r, g)' <=> Has(r, g) \/ (r = q /\ g = f)
<1>1. ASSUME NEW r \in Runs, r # q PROVE log'[r] = log[r]
  BY <1>1 DEF LogOK, Records
<1>2. log[q] \in Seq(Facts) /\ log'[q] = Append(log[q], f)
  BY DEF LogOK, Records
<1>3. ASSUME NEW g
      PROVE  (\E i \in DOMAIN log'[q] : log'[q][i] = g) <=> (\E i \in DOMAIN log[q] : log[q][i] = g) \/ g = f
  BY <1>2
<1> QED BY <1>1, <1>3 DEF Has

\* Facts that are not terminal conclude nothing.
LEMMA RecordsNoVerdict ==
  ASSUME LogOK, NEW q \in Runs, NEW f \in Facts \ {"completed", "failed"}, Records(q, f)
  PROVE  \A r \in Runs, fact \in {"completed", "failed"} : Has(r, fact)' <=> Has(r, fact)
  BY RecordsHas

\* A terminal fact of a run is a verdict on its intent, and on no other.
LEMMA RecordsVerdict ==
  ASSUME LogOK, NEW q \in Runs, NEW f \in {"completed", "failed"}, Records(q, f)
  PROVE  Promised!Concludes(ActionOf[q], f)
<1>1. ActionOf[q] \in Actions /\ f \in Facts
  BY FederationAssumption DEF Facts
<1>2. \A r \in Runs : \A g : Has(r, g)' <=> Has(r, g) \/ (r = q /\ g = f)
  BY <1>1, RecordsHas
<1>3. Verdict(ActionOf[q])' = Verdict(ActionOf[q]) \cup {f}
  BY <1>2 DEF Verdict
<1>4. \A a \in Actions : a # ActionOf[q] => Verdict(a)' = Verdict(a)
  BY <1>2 DEF Verdict
<1> QED BY <1>1, <1>3, <1>4 DEF Promised!Concludes

\* Before the lease, after a fence or a failed CAS and on the way out of a call
\* nothing of the promise changes.
LEMMA CallersStutter ==
  ASSUME IInv, NEW c \in Callers,
         \/ \E r \in Runs : Call(c, r)
         \/ Save(c) \/ Accepted(c) \/ DispatchFails(c) \/ SaveReceipt(c) \/ ResolveFails(c)
         \/ Observe(c) \/ ObserveFails(c) \/ FinishRefused(c) \/ ReleaseFails(c) \/ WrapUp(c) \/ Mark(c) \/ MarkAppend(c)
         \/ Recheck(c) \/ FenceFails(c)
  PROVE  UNCHANGED Promised!vars
<1>1. LogOK /\ AtOK
  BY TypeParts DEF IInv
<1>2. UNCHANGED <<granted, lease, attempted, sent, effect>>
  BY DEF Call, Grant, Deny, Recover, Cancel, Save, Accepted, DispatchFails, SaveReceipt, ResolveFails, Observe, ObserveFails,
     FinishRefused, ReleaseFails, WrapUp, Mark, MarkAppend, Recheck, FenceFails, durable, network, executor
<1>3. \/ UNCHANGED log
      \/ \E q \in Runs, f \in Facts \ {"completed", "failed"} : Records(q, f)
  <2>1. CASE \E r \in Runs : Call(c, r)
    BY <2>1 DEF Call, Grant, Deny, Recover, Cancel, durable, Facts
  <2>2. CASE Accepted(c) \/ WrapUp(c) \/ MarkAppend(c)
    <3>1. at[c].run \in Runs
      BY <1>1, <2>2 DEF AtOK, Accepted, WrapUp, MarkAppend
    <3> QED BY <2>2, <3>1 DEF Accepted, WrapUp, MarkAppend, Facts
  <2>3. CASE \/ Save(c) \/ DispatchFails(c) \/ SaveReceipt(c) \/ ResolveFails(c) \/ Observe(c) \/ ObserveFails(c)
             \/ FinishRefused(c) \/ ReleaseFails(c) \/ Mark(c) \/ Recheck(c) \/ FenceFails(c)
    BY <2>3 DEF Save, DispatchFails, SaveReceipt, ResolveFails, Observe, ObserveFails, FinishRefused, ReleaseFails, Mark,
       Recheck, FenceFails, durable
  <2> QED BY <2>1, <2>2, <2>3
<1>4. \A r \in Runs, fact \in {"completed", "failed"} : Has(r, fact)' <=> Has(r, fact)
  BY <1>1, <1>3, RecordsNoVerdict DEF Has
<1> QED BY <1>2, <1>4, StutterOf

\* The caller steps that are steps of the promise, for the intent of the run.
LEMMA CallersImplement ==
  ASSUME IInv, NEW c \in Callers,
         Acquire(c) \/ Claim(c) \/ Send(c) \/ Finish(c) \/ Release(c) \/ FailNotDispatched(c) \/ Fence(c)
  PROVE  [Promised!Next]_(Promised!vars)
<1> DEFINE stage == [b \in Actions |-> Stage(b)]
           live == [b \in Actions |-> lease[b] = "acquired"]
           verdict == [b \in Actions |-> Verdict(b)]
<1>0. /\ LogOK /\ LeaseOK /\ ExecutorOK /\ at[c].run \in Runs /\ ActionOf[at[c].run] \in Actions
  BY TypeParts, FederationAssumption DEF IInv, AtOK, Acquire, Claim, Send, Finish, Release, FailNotDispatched, Fence
<1>1. PICK a \in Actions : a = ActionOf[at[c].run]
  BY <1>0
<1>2. ASSUME UNCHANGED log PROVE verdict' = verdict
  BY <1>2 DEF Verdict, Has
<1>3. /\ stage[a] = Stage(a) /\ live[a] = (lease[a] = "acquired") /\ verdict[a] = Verdict(a)
  OBVIOUS
<1>4. CASE Acquire(c)
  <2>1. /\ granted /\ lease[a] = "none" /\ lease' = [lease EXCEPT ![a] = "acquired"]
        /\ UNCHANGED <<granted, attempted, log, sent, effect>>
    BY <1>1, <1>4 DEF Acquire, AcquireAllowed, network, executor
  <2>2. ~attempted[a]
    BY <1>1, <2>1 DEF IInv, LeaseTaken
  <2>3. Stage(a) = "open" /\ stage' = [stage EXCEPT ![a] = "leased"] /\ live' = [live EXCEPT ![a] = TRUE]
    BY <1>0, <1>1, <2>1, <2>2 DEF Stage, LeaseOK
  <2>4. Promised!Lease(a)
    BY <1>2, <1>3, <2>1, <2>3 DEF Promised!Lease
  <2> QED BY <2>4 DEF Promised!Next
<1>5. CASE Claim(c)
  <2>1. /\ granted /\ lease[a] = "acquired" /\ ~attempted[a] /\ attempted' = [attempted EXCEPT ![a] = TRUE]
        /\ UNCHANGED <<granted, lease, log, sent, effect>> /\ at[c].step = "claim"
    BY <1>1, <1>5 DEF Claim, ClaimAllowed, MarkAttempted, network, executor
  <2>2. "failed" \notin Verdict(a)
    BY <1>1, <2>1 DEF IInv, NeverClaimed, Failed, ActionAt, Verdict
  <2>3. Stage(a) = "leased" /\ stage' = [stage EXCEPT ![a] = "claimed"] /\ live' = live
    BY <1>0, <1>1, <2>1 DEF Stage, LeaseOK
  <2>4. Promised!Claim(a)
    BY <1>2, <1>3, <2>1, <2>2, <2>3 DEF Promised!Claim
  <2> QED BY <2>4 DEF Promised!Next
<1>6. CASE Send(c)
  <2>1. /\ attempted[a] /\ sent[a] = 0 /\ lease[a] = "acquired" /\ granted
        /\ sent' = [sent EXCEPT ![a] = @ + 1] /\ UNCHANGED <<granted, lease, attempted, log, effect>>
    BY <1>1, <1>6 DEF Send, IInv, ReadyToSend, AcquiredLeasesAreCurrent, ActionAt, durable, executor
  <2>2. Stage(a) = "claimed" /\ UNCHANGED <<stage, live>> /\ sent' = [sent EXCEPT ![a] = 1]
    BY <1>0, <1>1, <2>1 DEF Stage, ExecutorOK
  <2>3. Promised!Dispatch(a)
    BY <1>2, <1>3, <2>1, <2>2 DEF Promised!Dispatch
  <2> QED BY <2>3 DEF Promised!Next
<1>7. CASE Finish(c)
  <2>1. /\ lease[a] = "acquired" /\ effect[a] = "ok" /\ Records(at[c].run, "completed")
        /\ UNCHANGED <<granted, lease, attempted, sent, effect>>
    BY <1>1, <1>7 DEF Finish, StillOwned, Verified, network, executor
  <2>2. Promised!Concludes(a, "completed") /\ UNCHANGED <<stage, live>>
    BY <1>0, <1>1, <2>1, RecordsVerdict DEF Stage
  <2>3. Promised!Complete(a)
    BY <1>3, <2>1, <2>2 DEF Promised!Complete
  <2> QED BY <2>3 DEF Promised!Next
<1>8. CASE FailNotDispatched(c)
  <2>1. /\ Records(at[c].run, "failed") /\ UNCHANGED <<granted, lease, attempted, sent, effect>>
        /\ ~attempted[a] /\ lease[a] # "none"
    BY <1>1, <1>8 DEF FailNotDispatched, IInv, NeverClaimed, LeaseTaken, ActionAt, network, executor
  <2>2. Promised!Concludes(a, "failed") /\ UNCHANGED <<stage, live>> /\ Stage(a) = "leased"
    BY <1>0, <1>1, <2>1, RecordsVerdict DEF Stage
  <2>3. Promised!NotDispatched(a)
    BY <1>3, <2>1, <2>2 DEF Promised!NotDispatched
  <2> QED BY <2>3 DEF Promised!Next
<1>9. CASE Release(c) \/ Fence(c)
  <2>1. /\ lease[a] # "none" /\ \E s \in {"released", "fenced"} : lease' = [lease EXCEPT ![a] = s]
        /\ UNCHANGED <<granted, attempted, log, sent, effect>>
    BY <1>1, <1>9 DEF Release, Fence, IInv, LeaseTaken, ActionAt, network, executor
  <2>2. UNCHANGED stage /\ live' = [live EXCEPT ![a] = FALSE]
    BY <1>0, <1>1, <2>1 DEF Stage, LeaseOK
  <2>3. CASE lease[a] = "acquired"
    <3>1. Promised!EndLease(a)
      BY <1>2, <1>3, <2>1, <2>2, <2>3 DEF Promised!EndLease
    <3> QED BY <3>1 DEF Promised!Next
  <2>4. CASE lease[a] # "acquired"
    <3>1. live' = live
      BY <1>1, <2>2, <2>4
    <3> QED BY <1>2, <2>1, <2>2, <3>1 DEF Promised!vars
  <2> QED BY <2>3, <2>4
<1> QED BY <1>4, <1>5, <1>6, <1>7, <1>8, <1>9

\* A change of the registry is one step for all intents.
LEMMA ChangePeersImplements ==
  ASSUME IInv, NEW revoke \in BOOLEAN, ChangePeers(revoke)
  PROVE  Promised!Next
<1>1. LeaseOK
  BY TypeParts DEF IInv
<1>2. /\ granted' = (granted /\ ~revoke) /\ granted' \in BOOLEAN /\ (granted' => granted)
      /\ UNCHANGED <<attempted, log, sent, effect>>
  BY <1>1 DEF ChangePeers, network, executor, LeaseOK
<1>3. \A a \in Actions : lease'[a] # "acquired" /\ (lease'[a] # "none" <=> lease[a] # "none")
  BY <1>1 DEF ChangePeers, FencedByEpoch, LeaseOK
<1>4. [a \in Actions |-> Stage(a)]' = [a \in Actions |-> Stage(a)]
  BY <1>2, <1>3 DEF Stage
<1>5. [a \in Actions |-> Verdict(a)]' = [a \in Actions |-> Verdict(a)]
  BY <1>2 DEF Verdict, Has
<1>6. [a \in Actions |-> lease[a] = "acquired"]' = [a \in Actions |-> FALSE]
  BY <1>3
<1>7. PICK allowed \in BOOLEAN : allowed = granted'
  BY <1>2
<1>8. Promised!AdvanceEpoch(allowed)
  BY <1>2, <1>4, <1>5, <1>6, <1>7 DEF Promised!AdvanceEpoch
<1> QED BY <1>8 DEF Promised!Next

\* The driver acts on what was sent; the rest of the executor is not promised.
LEMMA ExecutorImplements ==
  ASSUME IInv, Executor
  PROVE  [Promised!Next]_(Promised!vars)
<1>1. CASE UNCHANGED effect
  <2>1. UNCHANGED <<granted, lease, attempted, sent, effect, log>>
    BY <1>1 DEF Executor, TakeDispatch, RefuseDispatch, Drive, CompleteDispatch, Stop, Restart, durable, network
  <2> QED BY <2>1, StutterOf DEF Has
<1>2. ASSUME NEW a \in Actions, NEW e \in {"ok", "failed"}, Drive(a, e)
      PROVE  Promised!Next
  <2>1. /\ effect[a] = "none" /\ effect' = [effect EXCEPT ![a] = e] /\ sent[a] = 1
        /\ UNCHANGED <<granted, lease, attempted, log, sent>>
    BY <1>2, TypeParts DEF Drive, IInv, DrivenWasSent, DispatchedOnce, ExecutorOK, durable, network
  <2>2. UNCHANGED <<[b \in Actions |-> Stage(b)], [b \in Actions |-> lease[b] = "acquired"], [b \in Actions |-> Verdict(b)]>>
    BY <2>1 DEF Stage, Verdict, Has
  <2>3. Promised!TakeEffect(a, e)
    BY <2>1, <2>2 DEF Promised!TakeEffect
  <2> QED BY <2>3 DEF Promised!Next
<1> QED BY <1>1, <1>2 DEF Executor, TakeDispatch, RefuseDispatch, CompleteDispatch, Stop, Restart

\* resolve_remote_approval and whatever runs beside it implement the lease
\* rules: threads, the lock, memory, crashes and lost messages are invisible.
THEOREM OneShotIsImplemented == Spec => DispatchIsOneShot
<1>1. Init => Promised!Init
  <2> SUFFICES ASSUME Init PROVE Promised!Init
    OBVIOUS
  <2>1. \A a \in Actions : Stage(a) = "open" /\ lease[a] = "none"
    BY DEF Init, Stage
  <2>2. \A a \in Actions : Verdict(a) = {}
    BY DEF Init, Verdict, Has
  <2> QED BY <2>1, <2>2 DEF Init, Promised!Init
<1>2. ASSUME IInv, [Next]_vars PROVE [Promised!Next]_(Promised!vars)
  <2>1. ASSUME NEW c \in Callers, Step(c) PROVE [Promised!Next]_(Promised!vars)
    BY <1>2, <2>1, CallersStutter, CallersImplement DEF Step, Resolving, Settling, Recovering
  <2>2. ASSUME NEW c \in Callers, NEW r \in Runs, Call(c, r) PROVE UNCHANGED Promised!vars
    BY <1>2, <2>2, CallersStutter
  <2>3. ASSUME NEW r \in Runs, Prepare(r) PROVE UNCHANGED Promised!vars
    <3>1. Records(r, "waiting") /\ UNCHANGED <<granted, lease, attempted, sent, effect>>
      BY <2>3 DEF Prepare, network, executor
    <3>2. LogOK /\ "waiting" \in Facts \ {"completed", "failed"}
      BY <1>2, TypeParts DEF IInv, Facts
    <3> QED BY <3>1, <3>2, RecordsNoVerdict, StutterOf
  <2>4. CASE AckReplication \/ Crash \/ UNCHANGED vars
    <3>1. UNCHANGED <<granted, lease, attempted, sent, effect, log>>
      BY <2>4 DEF AckReplication, Crash, vars, durable, network, executor
    <3> QED BY <3>1, StutterOf DEF Has
  <2>5. CASE ChangePeers(TRUE) \/ ChangePeers(FALSE)
    BY <1>2, <2>5, ChangePeersImplements
  <2>6. CASE Executor
    BY <1>2, <2>6, ExecutorImplements
  <2> QED BY <1>2, <2>1, <2>2, <2>3, <2>4, <2>5, <2>6 DEF Next
<1> QED BY <1>1, <1>2, Invariance, PTL DEF Spec, DispatchIsOneShot, Promised!Spec
=============================================================================
