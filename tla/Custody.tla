------------------------------- MODULE Custody -------------------------------
(***************************************************************************)
(* The companion ledgers of the federation authority (M4) that are not     *)
(* part of remote dispatch: checkpoint artifacts and handoffs of a long    *)
(* run, retention requests and their receipts, and device signals.  Each   *)
(* is checked against events or other tables first and then written in a   *)
(* transaction of its own, without control_lock; the run goes on meanwhile *)
(* and the process may crash between the two.  What a ledger holds under a *)
(* key never changes (persist_immutable_runtime_record).                   *)
(*                                                                         *)
(* One source run with one checkpoint artifact, whose memory event and     *)
(* verification event are those of the log; Callers plan the handoff to    *)
(* the same next run, as a client does that retries.  Abstracted: scopes,  *)
(* snapshots and grants of the segment (they refuse a plan before it is    *)
(* validated), digests, clocks (a receipt may come too late).              *)
(***************************************************************************)
EXTENDS Naturals, Sequences

CONSTANTS
  Planners,          \* threads that plan a handoff or accept what peers send
  Receipts,          \* retention receipts for the request, from its peer
  Signals,           \* device signals, by identity
  MaxRunEvents       \* bound: events of the source run

ASSUME CustodyAssumption == MaxRunEvents \in Nat /\ Receipts \cap {"none", "requested"} = {}

VARIABLES
  runLog,            \* the source run's events that matter here
  artifact,          \* federated_checkpoint_artifacts has the checkpoint
  recording,         \* record_checkpoint has validated the artifact
  handoff,           \* federated_handoffs has the plan for the next run
  planner,           \* how far each planner is
  retention,         \* federated_retention: "none", "requested" or the receipt
  signals,           \* federation_device_replay
  heard              \* how often each signal was accepted as new

custodyVars == <<runLog, artifact, recording, handoff, planner, retention, signals, heard>>

RunFacts == {"action", "verified", "checkpoint", "requested", "resolved"}
PlannerSteps == {"idle", "validated", "recorded", "requested"}

Positions(fact) == {i \in DOMAIN runLog : runLog[i] = fact}

\* Fault: the events are all there, in whatever order.
SourceHasEvents == Positions("verified") # {} /\ Positions("checkpoint") # {}

\* validate_checkpoint_source: the last checkpoint event is later than the
\* verification the artifact names (it may name any), and no action started
\* after it.
SourceIsCheckpointed ==
  \E v \in Positions("verified"), m \in Positions("checkpoint") :
    /\ \A n \in Positions("checkpoint") : n <= m
    /\ v < m
    /\ \A a \in Positions("action") : a < m

\* The harness drives the source run.
RunGoesOn(fact) ==
  /\ Len(runLog) < MaxRunEvents
  /\ runLog' = Append(runLog, fact)
  /\ UNCHANGED <<artifact, recording, handoff, planner, retention, signals, heard>>

\* record_checkpoint
ValidateCheckpoint ==
  /\ SourceIsCheckpointed /\ ~recording
  /\ recording' = TRUE
  /\ UNCHANGED <<runLog, artifact, handoff, planner, retention, signals, heard>>

RecordCheckpoint ==
  /\ recording
  /\ artifact' = TRUE /\ recording' = FALSE
  /\ UNCHANGED <<runLog, handoff, planner, retention, signals, heard>>

\* Fault: the checkpoint need not have been recorded.
AnyArtifact == TRUE
ArtifactIsDurable == artifact

\* plan_handoff up to its write
ValidateHandoff(c) ==
  /\ planner[c] = "idle" /\ ArtifactIsDurable /\ SourceIsCheckpointed
  /\ planner' = [planner EXCEPT ![c] = "validated"]
  /\ UNCHANGED <<runLog, artifact, recording, handoff, retention, signals, heard>>

\* Fault: the events are appended although the plan was known.
EveryPlanIsNew == TRUE
PlanIsNew == ~handoff

\* record_federated_handoff
RecordHandoff(c) ==
  /\ planner[c] = "validated"
  /\ handoff' = TRUE
  /\ planner' = [planner EXCEPT ![c] = IF PlanIsNew THEN "recorded" ELSE "idle"]
  /\ UNCHANGED <<runLog, artifact, recording, retention, signals, heard>>

\* The two events of a new plan.
AppendRequested(c) ==
  /\ planner[c] = "recorded"
  /\ runLog' = Append(runLog, "requested")
  /\ planner' = [planner EXCEPT ![c] = "requested"]
  /\ UNCHANGED <<artifact, recording, handoff, retention, signals, heard>>

AppendResolved(c) ==
  /\ planner[c] = "requested"
  /\ runLog' = Append(runLog, "resolved")
  /\ planner' = [planner EXCEPT ![c] = "idle"]
  /\ UNCHANGED <<artifact, recording, handoff, retention, signals, heard>>

\* RequestRetention: a request that was recorded before is refused.
RequestRetention ==
  /\ retention = "none"
  /\ retention' = "requested"
  /\ UNCHANGED <<runLog, artifact, recording, handoff, planner, signals, heard>>

\* Fault: a later receipt replaces the first.
TakesLatest(receipt) == retention # "none"
TakesReceipt(receipt) == retention \in {"requested", receipt}

\* accept_retention_receipt; the same receipt again changes nothing.
AcceptReceipt(receipt) ==
  /\ TakesReceipt(receipt)
  /\ retention' = receipt
  /\ UNCHANGED <<runLog, artifact, recording, handoff, planner, signals, heard>>

\* Fault: the claim is not stored.
ForgetSignal(s) == signals
StoreSignal(s) == signals \cup {s}

\* accept_device_signal and claim_device_signal
AcceptSignal(s) ==
  /\ heard[s] < 2
  /\ heard' = [heard EXCEPT ![s] = IF s \in signals THEN @ ELSE @ + 1]
  /\ signals' = StoreSignal(s)
  /\ UNCHANGED <<runLog, artifact, recording, handoff, planner, retention>>

\* The tables survive.
CustodyCrash ==
  /\ recording' = FALSE
  /\ planner' = [c \in Planners |-> "idle"]
  /\ UNCHANGED <<runLog, artifact, handoff, retention, signals, heard>>

CustodyInit ==
  /\ runLog = <<>> /\ artifact = FALSE /\ recording = FALSE /\ handoff = FALSE
  /\ planner = [c \in Planners |-> "idle"]
  /\ retention = "none" /\ signals = {} /\ heard = [s \in Signals |-> 0]

CustodyNext ==
  \/ \E fact \in {"action", "verified", "checkpoint"} : RunGoesOn(fact)
  \/ ValidateCheckpoint \/ RecordCheckpoint
  \/ \E c \in Planners :
       ValidateHandoff(c) \/ RecordHandoff(c) \/ AppendRequested(c) \/ AppendResolved(c)
  \/ RequestRetention
  \/ \E receipt \in Receipts : AcceptReceipt(receipt)
  \/ \E s \in Signals : AcceptSignal(s)
  \/ CustodyCrash

-------------------------------------------------------------------------------
CustodyTypeOK ==
  /\ runLog \in Seq(RunFacts) /\ artifact \in BOOLEAN /\ recording \in BOOLEAN /\ handoff \in BOOLEAN
  /\ handoff => artifact
  /\ planner \in [Planners -> PlannerSteps]
  /\ retention \in {"none", "requested"} \cup Receipts
  /\ signals \subseteq Signals /\ heard \in [Signals -> 0 .. 2]

\* However often a handoff is planned again, by whom, and after which crash,
\* the source run says so at most once, and answers only what was asked
\* (plan_handoff appends its events only for a plan that was new).
HandoffIsToldOnce ==
  /\ \A i, j \in Positions("requested") : i = j
  /\ \A i, j \in Positions("resolved") : i = j
  /\ \A i \in Positions("resolved") : \E j \in Positions("requested") : j < i

\* A handoff, and the artifact it starts from, rest on a checkpoint written
\* after a verification that passed, and no action was under way when it was
\* written (validate_checkpoint_source).
HandoffRestsOnVerified ==
  artifact \/ handoff => \E v \in Positions("verified"), m \in Positions("checkpoint") : v < m

\* The first receipt verifies a retention request for good; a different one is
\* refused, after a restart too (accept_retention_receipt).
RetentionIsFinal == retention \in Receipts => retention' = retention

\* A device signal wakes the authority at most once, whatever the device
\* repeats and however often the authority restarts (claim_device_signal).
SignalsHeardOnce == \A s \in Signals : heard[s] <= 1

\* What the ledgers promise (plan_handoff, record_checkpoint, accept_device_signal).
CustodyIsSound == CustodyTypeOK /\ HandoffIsToldOnce /\ HandoffRestsOnVerified /\ SignalsHeardOnce
===============================================================================
