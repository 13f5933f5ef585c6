------------------------------- MODULE Fitness -------------------------------
(***************************************************************************)
(* What strategies are judged by and applied with (M3-B and M3-C): the     *)
(* registries that hold their content, the assessments of outcome          *)
(* evidence, the comparison of a candidate with its baseline, the          *)
(* adaptation of a model's scaffold, the narrowing of a loop budget and of *)
(* a route, the ranking of prefiltered candidates, and a tick of proactive *)
(* messages.  Each is a function of its inputs; the variables are what     *)
(* those inputs are accumulated in.                                        *)
(***************************************************************************)
EXTENDS Integers, Sequences, FiniteSets, SequencesExt, FiniteSetsExt

CONSTANTS MaxOutcomes,       \* BOUND on the evidence gathered
          Attention,         \* capacity of a tick
          InterruptCost, DigestCost, MaxInterrupts, MinimumValue

ASSUME FitnessAssumption == {Attention, InterruptCost, DigestCost, MaxInterrupts} \subseteq Nat

VARIABLES registries,   \* <<registry, version>> -> content
          outcomes,     \* evidence in the order it was gathered
          generation,   \* metrics of the first strategy and of the one now stable
          tick          \* attention left, interruptions used, commitments seen and emitted

fitnessVars == <<registries, outcomes, generation, tick>>

------------------------------------------------------------------------------
(* Registries.  A version registered again must have the same content; a   *)
(* run resolves a version to what is registered.                           *)
\* Fault: a version may be registered with other content.
RegisterAny(key, content) == TRUE
MayRegister(key, content) == key \in DOMAIN registries => registries[key] = content

Register(key, content) ==
  /\ MayRegister(key, content)
  /\ registries' = [k \in DOMAIN registries \cup {key} |-> IF k = key THEN content ELSE registries[k]]
  /\ UNCHANGED <<outcomes, generation, tick>>

RegisterLoop(v, c) == Register(<<"loop", v>>, c)
RegisterCoordination(v, c) == Register(<<"coordination", v>>, c)
RegisterSelection(v, c) == Register(<<"selection", v>>, c)
RegisterModel(v, c) == Register(<<"model", v>>, c)
RegisterCognitive(v, c) == Register(<<"cognitive", v>>, c)

------------------------------------------------------------------------------
(* Outcome evidence.  Each kind needs the provenance that goes with it, or *)
(* the whole assessment is an error; `sealed` says whether it has it.      *)
Kinds == {"pass", "failure", "correction", "self", "profile", "exception", "revocation", "external"}
Outcome(kind, at, here, confidence, sealed) ==
  [kind |-> kind, at |-> at, here |-> here, confidence |-> confidence, sealed |-> sealed]
Outcomes == {Outcome(k, 1, TRUE, 100, TRUE) : k \in Kinds}
            \cup {Outcome(k, 2, TRUE, 100, TRUE) : k \in {"pass", "failure", "correction"}}
            \cup {Outcome("self", 1, TRUE, 40, TRUE), Outcome("pass", 1, FALSE, 100, TRUE), Outcome("pass", 1, TRUE, 100, FALSE)}

(* validate_and_scope: this scope only, and never what came from outside,  *)
(* from an exception or from the initial profile.                          *)
Counts(o) == o.here /\ o.kind \notin {"external", "exception", "profile"}
Valid(os) == \A i \in DOMAIN os : os[i].sealed
Of(os, kinds) == {i \in DOMAIN os : Counts(os[i]) /\ os[i].kind \in kinds}
Times(os, is) == Cardinality({os[i].at : i \in is})
N(os, kinds) == Cardinality(Of(os, kinds))

(* AgentSelfEvolutionEngine::assess, with equal weights.                   *)
\* Fault: what the agent says of itself counts as a pass.
SelfAsPass(os) ==
  LET n == N(os, {"pass", "failure", "self"}) IN IF n = 0 THEN 0 ELSE (100 * N(os, {"pass", "self"})) \div n
ResultCeiling(os) == LET n == N(os, {"pass", "failure"}) IN IF n = 0 THEN 0 ELSE (100 * N(os, {"pass"})) \div n
SelfCeiling(os) == Min({100} \cup {os[i].confidence : i \in Of(os, {"self"})})
Ceiling(os) == Min({ResultCeiling(os), SelfCeiling(os)})
AssessSelf(os) ==
  LET results == Of(os, {"pass", "failure"}) IN
  IF ~Valid(os) THEN "error"
  ELSE IF Cardinality(results) < 2 \/ Times(os, results) < 2 THEN "need more"
  ELSE IF N(os, {"failure"}) > N(os, {"pass"}) THEN "downgrade" ELSE "promote"

(* PartnershipEvolutionEngine::assess.                                     *)
AssessPartnership(os) ==
  LET shared == Of(os, {"pass", "correction"}) IN
  IF ~Valid(os) THEN "error"
  ELSE IF Times(os, shared) >= 2 /\ Cardinality(shared) >= 2 /\ Of(os, {"correction"}) # {}
       THEN "promote" ELSE "need more"

(* TrustDelegationEvolutionEngine::assess and owner_review.                *)
\* Fault: successes are looked at before failures.
SuccessFirst(os) ==
  IF ~Valid(os) THEN "error"
  ELSE IF N(os, {"pass"}) >= 2 THEN "owner review"
  ELSE IF N(os, {"failure", "revocation"}) >= 2 THEN "downgrade" ELSE "need more"
AssessTrust(os) ==
  IF ~Valid(os) THEN "error"
  ELSE IF N(os, {"failure", "revocation"}) >= 2 THEN "downgrade"
  ELSE IF N(os, {"pass"}) >= 2 THEN "owner review" ELSE "need more"
OwnerMayReview(os) == AssessTrust(os) = "owner review"

Gather(o) ==
  /\ Len(outcomes) < MaxOutcomes
  /\ outcomes' = Append(outcomes, o)
  /\ UNCHANGED <<registries, generation, tick>>

------------------------------------------------------------------------------
(* Comparison with a baseline (CoordinationOutcomeMetrics).                *)
Metrics == [complete : BOOLEAN, correct : 1..2, cost : 1..2, latency : 1..2, extra : 0..1, handoffs : 0..1]

\* Fault: a loss of correctness is no hard failure.
HardFailureOnHandoffs(b, c) == ~c.complete \/ c.handoffs > b.handoffs \/ c.extra > b.extra
HardFailure(b, c) ==
  \/ ~c.complete \/ c.correct < b.correct \/ c.handoffs > b.handoffs \/ c.extra > b.extra
Improves(b, c) == c.correct > b.correct \/ c.cost < b.cost \/ c.latency < b.latency \/ c.extra < b.extra
Compare(b, c) ==
  IF HardFailure(b, c) THEN "fail"
  ELSE IF ~b.complete \/ ~Improves(b, c) THEN "unverifiable" ELSE "pass"

Succeed(c) ==
  /\ Compare(generation.now, c) = "pass"
  /\ generation' = [generation EXCEPT !.now = c]
  /\ UNCHANGED <<registries, outcomes, tick>>

------------------------------------------------------------------------------
(* A tick of proactive messages (apply_proactivity_strategy): the caller   *)
(* takes what an emitted message costs off the attention that is left.     *)
Deliveries == {"interrupt", "digest", "internal"}
Opportunities == [value : {MinimumValue - 1, MinimumValue}, commitment : BOOLEAN, delivery : Deliveries, gates : BOOLEAN]

Cost(d) == IF d = "interrupt" THEN InterruptCost ELSE IF d = "digest" THEN DigestCost ELSE 0
\* Fault: an interruption beyond the limit stays one.
SoftenedNever(o) == o.delivery
Softened(o) == IF o.delivery = "interrupt" /\ tick.interrupts >= MaxInterrupts THEN "digest" ELSE o.delivery

Proactive(o) ==
  IF ~o.gates THEN "blocked"
  ELSE IF ~o.commitment /\ o.value < MinimumValue THEN "below value"
  ELSE IF Cost(Softened(o)) <= tick.left THEN Softened(o)
  ELSE IF o.commitment THEN "internal" ELSE "no attention"

Consider(o) ==
  /\ tick.seen < 4
  /\ LET d == Proactive(o) IN
     tick' = [left |-> tick.left - (IF d \in Deliveries THEN Cost(d) ELSE 0),
              interrupts |-> tick.interrupts + (IF d = "interrupt" THEN 1 ELSE 0),
              seen |-> tick.seen + 1,
              dropped |-> tick.dropped \/ (o.commitment /\ o.gates /\ d \notin Deliveries)]
  /\ UNCHANGED <<registries, outcomes, generation>>

FitnessInit ==
  /\ registries = <<>> /\ outcomes = <<>>
  /\ generation \in {[first |-> m, now |-> m] : m \in Metrics}
  /\ tick = [left |-> Attention, interrupts |-> 0, seen |-> 0, dropped |-> FALSE]

RegistriesNext ==
  \E v \in {"v1", "v2"}, c \in {"x", "y"} :
    RegisterLoop(v, c) \/ RegisterCoordination(v, c) \/ RegisterSelection(v, c)
      \/ RegisterModel(v, c) \/ RegisterCognitive(v, c)
OutcomesNext == \E o \in Outcomes : Gather(o)
GenerationNext == \E m \in Metrics : Succeed(m)
TickNext == \E o \in Opportunities : Consider(o)

------------------------------------------------------------------------------
(* What the agent says of itself, what comes from outside and what was an  *)
(* exception never makes a strategy look better: they leave every decision *)
(* as it was and can only lower the ceiling (validate_and_scope, assess).  *)
OnlyResultsPromote ==
  (outcomes' # outcomes /\ Last(outcomes').kind \in {"self", "profile", "exception", "external"}) =>
    /\ AssessSelf(outcomes') = AssessSelf(outcomes)
    /\ AssessTrust(outcomes') = AssessTrust(outcomes)
    /\ AssessPartnership(outcomes') = AssessPartnership(outcomes)
    /\ Ceiling(outcomes') <= Ceiling(outcomes)

(* Trust that was lost is not won back by more successes, and more failures*)
(* never bring an expansion before the owner (TrustDelegation assess).     *)
LostTrustStays ==
  (outcomes' # outcomes) =>
    /\ AssessTrust(outcomes) = "downgrade" => AssessTrust(outcomes') # "owner review"
    /\ (Last(outcomes').kind \in {"failure", "revocation"} /\ ~OwnerMayReview(outcomes))
         => ~OwnerMayReview(outcomes')

(* However long a chain of strategies that each passed against the one     *)
(* before it, the last is not less correct than the first, hands off no    *)
(* worse and delegates no more (compare_coordination_fitness).             *)
ChainsDoNotRegress ==
  LET f == generation.first  l == generation.now IN
    l.correct >= f.correct /\ l.handoffs <= f.handoffs /\ l.extra <= f.extra

(* A tick never spends more attention than it has nor interrupts more      *)
(* often than it may, and a commitment the gates let through is always     *)
(* delivered, at least internally (apply_proactivity_strategy).            *)
TickIsBounded ==
  tick.left >= 0 /\ tick.interrupts <= MaxInterrupts /\ ~tick.dropped

(* A version means one content for as long as the process lives (register).*)
ContentIsFixed ==
  \A k \in DOMAIN registries : k \in DOMAIN registries' /\ registries'[k] = registries[k]
===============================================================================
