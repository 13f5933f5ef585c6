------------------------------ MODULE Evolution ------------------------------
(***************************************************************************)
(* Controlled evolution of strategies (M3-A): the catalog of candidates,   *)
(* evaluations and promotions, the activation and rollback of a strategy   *)
(* under an expected aggregate version, the projection of what is active   *)
(* with its history, its rebuild from the log, and the runs that are       *)
(* pinned to what was active when they started.                            *)
(*                                                                         *)
(* One domain and one scope are modelled: the rows of another domain or    *)
(* scope are read by nothing here.  A controller is a caller of            *)
(* M3EvolutionHarness with a control run of its own.  Every read a         *)
(* controller makes before its append is a step of its own, because the    *)
(* store releases its lock between them.                                   *)
(***************************************************************************)
EXTENDS Naturals, Sequences, FiniteSets

CONSTANTS Proposals,       \* records [version, baseline, spec, impact, knownGood]
          Seeded,          \* the proposals the owner puts in place through the store
          Aggregates,      \* names of evolution aggregates
          Controllers,     \* callers of the evolution harness
          PinnedRuns,      \* runs that bind a snapshot
          Verdicts,        \* the verdicts an evaluation may reach
          Registered,      \* [version -> spec]: the content of the runtime's registries
          None,            \* no active strategy, no binding
          MaxEvolution     \* BOUND on the version of an aggregate

ASSUME EvolutionAssumption ==
  None \notin Proposals /\ Seeded \subseteq Proposals /\ MaxEvolution \in Nat

Versions == {q.version : q \in Proposals} \cup {q.baseline : q \in Proposals}
Idle == [stage |-> "idle"]

VARIABLES recorded,     \* strategy_candidates
          evaluations,  \* evolution_evaluations
          stable,       \* stable_strategies
          versions,     \* evolution_versions
          active,       \* active_strategies: the proposal active for each aggregate
          history,      \* evolution_history: [proposal, kind] for each aggregate
          control,      \* activation and rollback events of the log
          regression,   \* controllers whose control run holds a failed evaluation
          paused,       \* auto_activation_paused, in memory only
          call,         \* what each controller has read so far
          bound         \* the strategy each run is pinned to

evolutionVars == <<recorded, evaluations, stable, versions, active, history, control,
                   regression, paused, call, bound>>
catalog == <<recorded, evaluations, stable>>
projection == <<versions, active, history, control>>

NeedsOwner(q) == q.impact \in {"bounded", "expansive"}
Passed(baseline, version) == [baseline |-> baseline, candidate |-> version, verdict |-> "pass"] \in evaluations
ActiveNow == {active[a] : a \in Aggregates} \ {None}

------------------------------------------------------------------------------
(* The catalog: each fact is one append, projected in its transaction.     *)

(* validate_strategy_candidate_identity: a version names one content and   *)
(* has one candidate in a scope.                                           *)
\* Fault: the identity of a version is not looked up.
AlwaysFree(q) == TRUE
VersionIsFree(q) == \A r \in recorded : r.version # q.version

RecordCandidate(q) ==
  /\ q \notin recorded /\ VersionIsFree(q)
  /\ recorded' = recorded \cup {q}
  /\ UNCHANGED <<evaluations, stable, projection, regression, paused, call, bound>>

(* The summary is appended to the control run before the snapshot is read  *)
(* for the governor; a verdict other than pass is regression evidence.     *)
Evaluate(k, q, verdict) ==
  /\ q \in recorded /\ call[k] = Idle
  /\ LET summary == [baseline |-> q.baseline, candidate |-> q.version, verdict |-> verdict] IN
       /\ summary \notin evaluations
       /\ evaluations' = evaluations \cup {summary}
  /\ regression' = IF verdict = "pass" THEN regression ELSE regression \cup {k}
  /\ UNCHANGED <<recorded, stable, projection, paused, call, bound>>

(* ConservativeStrategyEvolutionGovernor on a passing evaluation.          *)
GovernorPermits(q, current) ==
  /\ q.impact # "constitutional"
  /\ current.version = q.baseline
  /\ q.knownGood = current.version

(* has_passing_evolution_evaluation, checked again by the store.           *)
\* Fault: a candidate is promoted before its evaluation.
PromotableUnproven(q) == q \in recorded /\ q \notin stable
Promotable(q) == q \in recorded /\ q \notin stable /\ Passed(q.baseline, q.version)

(* The governor looks at the first strategy active in the scope.           *)
Promote(q) ==
  /\ Promotable(q)
  /\ \E current \in ActiveNow : GovernorPermits(q, current)
  /\ stable' = stable \cup {q}
  /\ UNCHANGED <<recorded, evaluations, projection, regression, paused, call, bound>>

(* The first strategy of a scope cannot come through the governor, which   *)
(* wants a predecessor: its promotion is appended to the store directly,   *)
(* by the owner.                                                           *)
PromoteSeed(q) ==
  /\ q \in Seeded /\ Promotable(q)
  /\ stable' = stable \cup {q}
  /\ UNCHANGED <<recorded, evaluations, projection, regression, paused, call, bound>>

------------------------------------------------------------------------------
(* Activation.                                                             *)

(* Without the owner only a cautious strategy, and only while automatic    *)
(* activation is not paused.                                               *)
\* Fault: an unpaused activation needs no owner.
AnyMayActivate(q, owner) == q.impact # "constitutional" /\ (owner \/ ~paused)
MayActivate(q, owner) ==
  /\ q.impact # "constitutional"
  /\ owner \/ (~NeedsOwner(q) /\ ~paused)

BeginActivation(k, a, q, owner) ==
  /\ call[k] = Idle
  /\ MayActivate(q, owner) /\ q \in stable
  /\ call' = [call EXCEPT ![k] = [stage |-> "reads active", kind |-> "activated", aggregate |-> a,
                                  to |-> q, owner |-> owner]]
  /\ UNCHANGED <<catalog, projection, regression, paused, bound>>

(* A predecessor must be the candidate's baseline; with none active the    *)
(* baseline is not looked at.                                              *)
ActivationReadsActive(k) ==
  /\ call[k].stage = "reads active" /\ call[k].kind = "activated"
  /\ LET current == active[call[k].aggregate] IN
     call' = [call EXCEPT ![k] =
                IF current # None /\ current.version # call[k].to.baseline THEN Idle
                ELSE [stage |-> "reads version", kind |-> "activated", aggregate |-> @.aggregate,
                      to |-> @.to, owner |-> @.owner, from |-> current]]
  /\ UNCHANGED <<catalog, projection, regression, paused, bound>>

(* Rollback.  Without the owner its control run must hold the evidence;    *)
(* any stable strategy of the scope may be restored.                       *)
MayRollBack(k, owner) == owner \/ k \in regression

BeginRollback(k, a, q, owner) ==
  /\ call[k] = Idle /\ MayRollBack(k, owner)
  /\ active[a] # None /\ active[a].version # q.version /\ q \in stable
  /\ call' = [call EXCEPT ![k] = [stage |-> "reads version", kind |-> "rolled back", aggregate |-> a,
                                  to |-> q, owner |-> owner, from |-> active[a]]]
  /\ UNCHANGED <<catalog, projection, regression, paused, bound>>

ReadVersion(k) ==
  /\ call[k].stage = "reads version" /\ versions[call[k].aggregate] < MaxEvolution
  /\ call' = [call EXCEPT ![k] = [stage |-> "appends", kind |-> @.kind, aggregate |-> @.aggregate,
                to |-> @.to, owner |-> @.owner, from |-> @.from, expected |-> versions[@.aggregate]]]
  /\ UNCHANGED <<catalog, projection, regression, paused, bound>>

(* append_evolution_expected.  The preview made just before the append     *)
(* passes the same transition checks, and its snapshot is compared inside  *)
(* the transaction.                                                        *)
AtExpectedVersion(c) == versions[c.aggregate] = c.expected
FromIsActive(c) == active[c.aggregate] = c.from
TransitionIsProven(c) ==
  c.kind = "activated" =>
    IF c.from = None THEN \E b \in Versions : Passed(b, c.to.version) ELSE Passed(c.from.version, c.to.version)

(* apply_evolution_control_event: version, active row and history at once. *)
\* Fault: a rollback does not write the history.
OnlyActivations(c) == IF c.kind = "activated" THEN Append(history[c.aggregate], [kind |-> c.kind, to |-> c.to]) ELSE history[c.aggregate]
InHistory(c) == Append(history[c.aggregate], [kind |-> c.kind, to |-> c.to])
\* Fault: the event carries the version before the change.
ControlEventBefore(k, c) ==
  [kind |-> c.kind, aggregate |-> c.aggregate, by |-> k, owner |-> c.owner, from |-> c.from, to |-> c.to,
   committed |-> c.expected]
ControlEvent(k, c) ==
  [kind |-> c.kind, aggregate |-> c.aggregate, by |-> k, owner |-> c.owner, from |-> c.from, to |-> c.to,
   committed |-> c.expected + 1]

AppendControl(k) ==
  /\ call[k].stage = "appends"
  /\ LET c == call[k] IN
     /\ AtExpectedVersion(c) /\ FromIsActive(c) /\ TransitionIsProven(c) /\ c.to \in stable
     /\ versions' = [versions EXCEPT ![c.aggregate] = c.expected + 1]
     /\ active' = [active EXCEPT ![c.aggregate] = c.to]
     /\ history' = [history EXCEPT ![c.aggregate] = InHistory(c)]
     /\ control' = control \cup {ControlEvent(k, c)}
  /\ call' = [call EXCEPT ![k] = Idle]
  /\ UNCHANGED <<catalog, regression, paused, bound>>

(* A conflict, or a transition the store refuses, ends the call.           *)
RefuseControl(k) ==
  /\ call[k].stage = "appends"
  /\ LET c == call[k] IN ~(AtExpectedVersion(c) /\ FromIsActive(c) /\ TransitionIsProven(c))
  /\ call' = [call EXCEPT ![k] = Idle]
  /\ UNCHANGED <<catalog, projection, regression, paused, bound>>

SetPaused(b) ==
  /\ paused # b /\ paused' = b
  /\ UNCHANGED <<catalog, projection, regression, call, bound>>

------------------------------------------------------------------------------
(* Runs, the rebuild of the projection, and a crash.                       *)

(* bind_and_drive_inner and M3DomainRuntime::bind: a scope with two active *)
(* strategies is ambiguous and the run fails; content that differs from    *)
(* what the registry holds is refused.                                     *)
MatchesRegistry(q) == Registered[q.version] = q.spec

\* Fault: a run that resumes binds what is active now.
Rebinds(r) ==
  /\ Cardinality({a \in Aggregates : active[a] # None}) = 1
  /\ \E q \in ActiveNow : MatchesRegistry(q) /\ bound' = [bound EXCEPT ![r] = q]
  /\ UNCHANGED <<catalog, projection, regression, paused, call>>
BindRun(r) ==
  /\ bound[r] = None
  /\ Cardinality({a \in Aggregates : active[a] # None}) = 1
  /\ \E q \in ActiveNow : MatchesRegistry(q) /\ bound' = [bound EXCEPT ![r] = q]
  /\ UNCHANGED <<catalog, projection, regression, paused, call>>

(* rebuild_evolution_projection: the control events of an aggregate by     *)
(* committed version, each revalidated against what the earlier ones left. *)
EventAt(a, n) == CHOOSE e \in control : e.aggregate = a /\ e.committed = n
ControlOf(a) == {e \in control : e.aggregate = a}
RebuiltHistory(a) ==
  [n \in 1..Cardinality(ControlOf(a)) |-> [kind |-> EventAt(a, n).kind, to |-> EventAt(a, n).to]]
RebuiltActive(a) == IF ControlOf(a) = {} THEN None ELSE EventAt(a, Cardinality(ControlOf(a))).to
Rebuildable ==
  \A a \in Aggregates :
    /\ {e.committed : e \in ControlOf(a)} = 1..Cardinality(ControlOf(a))
    /\ \A e \in ControlOf(a) :
         /\ e.to \in stable /\ TransitionIsProven(e)
         /\ e.from = IF e.committed = 1 THEN None ELSE EventAt(a, e.committed - 1).to

(* Handles, the pause and the calls under way are in memory; a recovered   *)
(* run keeps the reference of its snapshot but no binding.                 *)
EvolutionCrash ==
  /\ call' = [k \in Controllers |-> Idle] /\ paused' = FALSE
  /\ bound' = [r \in PinnedRuns |-> None]
  /\ UNCHANGED <<catalog, projection, regression>>

EvolutionInit ==
  /\ recorded = {} /\ evaluations = {} /\ stable = {}
  /\ versions = [a \in Aggregates |-> 0] /\ active = [a \in Aggregates |-> None]
  /\ history = [a \in Aggregates |-> <<>>] /\ control = {}
  /\ regression = {} /\ paused = FALSE /\ call = [k \in Controllers |-> Idle]
  /\ bound = [r \in PinnedRuns |-> None]

EvolutionNext ==
  \/ \E q \in Proposals : RecordCandidate(q) \/ Promote(q) \/ PromoteSeed(q)
  \/ \E k \in Controllers, q \in Proposals, v \in Verdicts : Evaluate(k, q, v)
  \/ \E k \in Controllers, a \in Aggregates, q \in Proposals, owner \in BOOLEAN :
       BeginActivation(k, a, q, owner) \/ BeginRollback(k, a, q, owner)
  \/ \E k \in Controllers : ActivationReadsActive(k) \/ ReadVersion(k) \/ AppendControl(k) \/ RefuseControl(k)
  \/ \E b \in BOOLEAN : SetPaused(b)
  \/ \E r \in PinnedRuns : BindRun(r)
  \/ EvolutionCrash

------------------------------------------------------------------------------
(* Properties.                                                             *)

(* Every table holds what its columns may hold, and the version of an      *)
(* aggregate counts its history (evolution_versions, evolution_history).   *)
EvolutionTypeOK ==
  /\ recorded \subseteq Proposals /\ stable \subseteq recorded
  /\ evaluations \subseteq [baseline : Versions, candidate : Versions, verdict : Verdicts]
  /\ active \in [Aggregates -> Proposals \cup {None}] /\ bound \in [PinnedRuns -> Proposals \cup {None}]
  /\ \A a \in Aggregates : versions[a] = Len(history[a])

(* What is active was promoted and has passed an evaluation, and where it  *)
(* replaced another strategy by activation it passed against that one,     *)
(* whatever calls overlapped (validate_evolution_transition).              *)
ActiveIsProven ==
  \A a \in Aggregates : \A n \in 1..Len(history[a]) :
    LET entry == history[a][n] IN
      /\ entry.to \in stable
      /\ \E b \in Versions : Passed(b, entry.to.version)
      /\ (entry.kind = "activated" /\ n > 1) => Passed(history[a][n-1].to.version, entry.to.version)

(* No activation or rollback is lost or overwrites one it did not see:     *)
(* each control event replaced exactly what the one before it had put in   *)
(* place, and a rebuild from the log, which revalidates every event, gives *)
(* the projection the store has (rebuild_evolution_projection).            *)
RebuildReproduces ==
  /\ Rebuildable
  /\ \A a \in Aggregates : RebuiltHistory(a) = history[a] /\ RebuiltActive(a) = active[a]

(* A strategy of bounded or expansive impact is only ever activated with   *)
(* the owner's confirmation, and an automatic rollback only by a control   *)
(* run that holds a failed evaluation (activate, rollback).                *)
OwnerOrEvidence ==
  \A e \in control :
    ~e.owner => IF e.kind = "activated" THEN ~NeedsOwner(e.to) ELSE e.by \in regression

(* A version names one content for good: whatever two runs are pinned to   *)
(* under one version is the same content, the one the registry holds       *)
(* (validate_strategy_candidate_identity, validate_identity).              *)
VersionsAreImmutable ==
  /\ \A x, y \in stable : x.version = y.version => x = y
  /\ \A r \in PinnedRuns : bound[r] # None => bound[r] \in stable /\ Registered[bound[r].version] = bound[r].spec

(* A run stays on the strategy it was bound to until it ends, also when    *)
(* that strategy is replaced or rolled back meanwhile: only a crash takes  *)
(* the binding away (bind_and_drive_inner).                                *)
RunsStayPinned ==
  \A r \in PinnedRuns : bound[r] # None => bound'[r] \in {bound[r], None}

(* What the evolution of strategies promises (append_evolution_event,      *)
(* activate, rollback, rebuild_evolution_projection).                      *)
EvolutionIsSound ==
  EvolutionTypeOK /\ ActiveIsProven /\ RebuildReproduces /\ OwnerOrEvidence /\ VersionsAreImmutable
===============================================================================
