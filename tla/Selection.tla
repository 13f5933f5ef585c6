------------------------------ MODULE Selection ------------------------------
(***************************************************************************)
(* Selection among what is already allowed (M3-B): the prefilter, the      *)
(* score and the ranking of capabilities, models and backends by measured  *)
(* outcomes, the narrowing of an execution route to the nodes the active   *)
(* coordination strategy weighs heaviest, and the adaptation of a loop     *)
(* budget and of a model's scaffold.  Evidence accumulates in the ledger;  *)
(* a ranking is a function of it.                                          *)
(***************************************************************************)
EXTENDS Integers, Sequences, FiniteSets, SequencesExt, FiniteSetsExt

CONSTANTS Resources,     \* references, as numbers in their order
          Policies,      \* weights [success, penalty, fit, reliability, cost], tie, fallback, limit
          CostOf,        \* resource -> cost
          MaxEvidence    \* BOUND on the evidence recorded

ASSUME SelectionAssumption ==
  /\ IsFiniteSet(Resources) /\ Resources \subseteq Int
  /\ CostOf \in [Resources -> Nat]
  /\ Policies \subseteq [success : Nat, penalty : Nat, fit : Nat, reliability : Nat, cost : Nat, limit : Nat,
                         tie : {"identity", "lower_cost", "recent_success"}, fallback : {"none", "seed_order"}]

VARIABLES policy, allowed, ledger, noted

selectionVars == <<policy, allowed, ledger, noted>>

(* PrefilteredSelectionSet: what lifecycle, managed policy, permission and *)
(* scope leave of the authorised resources, each once.                     *)
EvidenceKinds == {"success", "failure", "failure_record", "unverified"}
\* Fault: the filter is not applied.
PrefilteredByName == Resources
Prefiltered == Resources \cap allowed

(* rank_prefiltered: every verified item counts towards reliability, also  *)
(* a failure; a failure record counts towards the penalty only.            *)
Successes(r) == ledger[r]["success"]
Failures(r) == ledger[r]["failure"] + ledger[r]["failure_record"]
\* Fault: unverified outcomes count, verified failures do not.
CountsUnverified(r) == ledger[r]["success"] + ledger[r]["unverified"]
Verified(r) == ledger[r]["success"] + ledger[r]["failure"]
Score(r) ==
  policy.success * Successes(r) - policy.penalty * Failures(r) + policy.fit
    + policy.reliability * Verified(r) - policy.cost * CostOf[r]
Eligible == {r \in Prefiltered : Successes(r) > 0 \/ policy.fallback = "seed_order"}

(* The order of the ranking: score, then the tie breaker, then identity.   *)
TieBreak(r) == IF policy.tie = "lower_cost" THEN CostOf[r]
               ELSE IF policy.tie = "recent_success" THEN - Successes(r) ELSE 0
Ahead(r, s) ==
  \/ Score(r) > Score(s)
  \/ Score(r) = Score(s) /\ TieBreak(r) < TieBreak(s)
  \/ Score(r) = Score(s) /\ TieBreak(r) = TieBreak(s) /\ r < s
Position(r) == 1 + Cardinality({s \in Eligible : Ahead(s, r)})
Ranked == [i \in 1..Min({Cardinality(Eligible), policy.limit}) |-> CHOOSE r \in Eligible : Position(r) = i]
Place(r) == IF r \in Eligible /\ Position(r) <= policy.limit THEN Position(r) ELSE 1 + Cardinality(Resources)

RecordOutcome(r, kind) ==
  /\ noted < MaxEvidence /\ noted' = noted + 1
  /\ ledger' = [ledger EXCEPT ![r][kind] = @ + 1]
  /\ UNCHANGED <<policy, allowed>>

(* apply_coordination_strategy: the heaviest nodes, one or max_subagents   *)
(* of them, and the edges among those; a dependency on a node that is left *)
(* out is dropped with it.                                                 *)
Narrow(nodes, edges, weight, take) ==
  LET heavier(x, y) == weight[x] > weight[y] \/ (weight[x] = weight[y] /\ x < y)
      kept == {x \in nodes : Cardinality({y \in nodes : heavier(y, x)}) < take}
  IN [nodes |-> kept, edges |-> {e \in edges : e[1] \in kept /\ e[2] \in kept}]

(* apply_loop_strategy: a limit the runtime does not set (0) is no limit.  *)
Unbounded == 0
Within(strategy, hard) == hard = Unbounded \/ strategy <= hard
LoopBudget(strategy, hard) ==
  IF \A d \in DOMAIN strategy : Within(strategy[d], hard[d]) THEN strategy ELSE <<>>

(* adapt_model_scaffold: the measured strength caps the declared one.      *)
\* Fault: what the model declares of itself is believed.
ScaffoldAsDeclared(declared, measured, minimum, verified) ==
  IF verified = 0 \/ declared < minimum THEN 0 ELSE declared
Scaffold(declared, measured, minimum, verified) ==
  LET effective == Min({declared, measured}) IN
  IF verified = 0 \/ effective < minimum THEN 0 ELSE effective

SelectionInit ==
  /\ policy \in Policies /\ allowed \in SUBSET Resources /\ noted = 0
  /\ ledger = [r \in Resources |-> [k \in EvidenceKinds |-> 0]]

SelectionNext == \E r \in Resources, kind \in EvidenceKinds : RecordOutcome(r, kind)

------------------------------------------------------------------------------
(* Whatever the evidence, only what was allowed is ranked, each once, in   *)
(* an order that any two of its members agree on, and nothing that was     *)
(* left out by the limit beats what was kept (rank_prefiltered).           *)
RankingIsSound ==
  /\ ToSet(Ranked) \subseteq allowed
  /\ \A i, j \in DOMAIN Ranked : i < j => Ranked[i] # Ranked[j] /\ Score(Ranked[i]) >= Score(Ranked[j])
  /\ \A r \in Eligible \ ToSet(Ranked), i \in DOMAIN Ranked : Score(Ranked[i]) >= Score(r)

(* A success moves nothing down, unverified outcomes and those of others   *)
(* move nothing up, and a failure does not help unless the policy weighs   *)
(* reliability, which counts failures too, above its penalty.              *)
EvidenceCountsItsWay ==
  \A r \in Resources :
    LET gained(k) == ledger'[r][k] > ledger[r][k] IN
    /\ gained("success") => Place(r)' <= Place(r)
    /\ gained("unverified") => Ranked' = Ranked
    /\ gained("failure_record") => Place(r)' >= Place(r)
    /\ (gained("failure") /\ policy.reliability <= policy.penalty) => Place(r)' >= Place(r)

(* A strategy only narrows: of a route it keeps the heaviest nodes with    *)
(* every dependency among them, of the runtime's limits none is exceeded,  *)
(* and a model that declares itself strong gets no more than what was      *)
(* measured of it (apply_coordination_strategy, apply_loop_strategy,       *)
(* adapt_model_scaffold).                                                  *)
StrategiesOnlyNarrow ==
  (noted = 0 /\ allowed # {}) =>
    /\ \A edges \in SUBSET {e \in allowed \X allowed : e[1] < e[2]}, weight \in [Resources -> 1..2], take \in 1..2 :
         LET r == Narrow(allowed, edges, weight, take) IN
         /\ r.nodes \subseteq allowed /\ Cardinality(r.nodes) = Min({take, Cardinality(allowed)})
         /\ \A x \in r.nodes, y \in allowed \ r.nodes : weight[x] >= weight[y]
         /\ r.edges = edges \cap (r.nodes \X r.nodes)
    /\ \A s, h \in [{"turns", "tokens"} -> 0..2] : LET b == LoopBudget(s, h) IN
         b # <<>> => \A d \in {"turns", "tokens"} : h[d] # Unbounded => b[d] <= h[d]
    /\ \A d, m, l \in 1..3, v \in 0..1 : Scaffold(d, m, l, v) <= m /\ (m < l => Scaffold(d, m, l, v) = 0)
===============================================================================
