-------------------------------- MODULE Growth --------------------------------
(***************************************************************************)
(* How the assistant's strategies grow: their controlled evolution         *)
(* (Evolution), long-horizon projects (LongHorizon), the strategy memory   *)
(* (StrategyMemory), what strategies are judged by (Fitness) and how one   *)
(* selects (Selection).  No step of one reads what another writes, so a    *)
(* behaviour exercises one of them, chosen in its initial state, while the *)
(* others rest; the values of their constants are below.                   *)
(***************************************************************************)
EXTENDS Evolution, LongHorizon, StrategyMemory, Fitness, Selection

VARIABLE subject

Subjects == {"evolution", "project", "memory", "registries", "outcomes", "generation", "tick", "selection"}
growthVars == <<subject, evolutionVars, longHorizonVars, memoryLog, fitnessVars, selectionVars>>

(* A seed, its successor, and a rival of bounded impact that claims the    *)
(* successor's version for other content.                                  *)
Proposal(v, b, s, i) == [version |-> v, baseline |-> b, spec |-> s, impact |-> i, knownGood |-> b]
GrowthSeeded == {Proposal("v1", "v0", "s1", "cautious")}
GrowthProposals == GrowthSeeded \cup {Proposal("v2", "v1", "s2", "cautious"), Proposal("v2", "v1", "s3", "bounded")}
GrowthRegistered == [v \in {"v1", "v2"} |-> IF v = "v1" THEN "s1" ELSE "s2"]

GrowthEvidence == [c \in {"v1", "v2"} |-> IF c = "v1" THEN {"e1"} ELSE {"e1", "e2"}]

Policy(p, f, t, fb, l) ==
  [success |-> 4, penalty |-> p, fit |-> 1, reliability |-> f, cost |-> 1, tie |-> t, fallback |-> fb, limit |-> l]
GrowthPolicies == {Policy(2, 1, "identity", "seed_order", 2), Policy(1, 2, "lower_cost", "seed_order", 3),
                   Policy(2, 1, "recent_success", "none", 2)}
GrowthCost == <<2, 1, 1>>

ControllersAlike == Permutations(Controllers)

AtRestSelection == policy = Policy(2, 1, "identity", "seed_order", 2) /\ allowed = {}
AtRestGeneration == generation.now = CHOOSE m \in Metrics : TRUE

GrowthInit ==
  /\ subject \in Subjects
  /\ EvolutionInit /\ LongHorizonInit /\ MemoryInit /\ FitnessInit /\ SelectionInit
  /\ subject # "selection" => AtRestSelection
  /\ subject # "generation" => AtRestGeneration

GrowthNext ==
  /\ UNCHANGED subject
  /\ \/ /\ subject = "evolution" /\ EvolutionNext
        /\ UNCHANGED <<longHorizonVars, memoryLog, fitnessVars, selectionVars>>
     \/ /\ subject = "project" /\ LongHorizonNext
        /\ UNCHANGED <<evolutionVars, memoryLog, fitnessVars, selectionVars>>
     \/ /\ subject = "memory" /\ MemoryNext
        /\ UNCHANGED <<evolutionVars, longHorizonVars, fitnessVars, selectionVars>>
     \/ /\ \/ subject = "registries" /\ RegistriesNext
           \/ subject = "outcomes" /\ OutcomesNext
           \/ subject = "generation" /\ GenerationNext
           \/ subject = "tick" /\ TickNext
        /\ UNCHANGED <<evolutionVars, longHorizonVars, memoryLog, selectionVars>>
     \/ /\ subject = "selection" /\ SelectionNext
        /\ UNCHANGED <<evolutionVars, longHorizonVars, memoryLog, fitnessVars>>

GrowthSpec == GrowthInit /\ [][GrowthNext]_growthVars

(* What strategies are judged by and selected with                         *)
(* (compare_coordination_fitness, apply_proactivity_strategy,              *)
(* rank_prefiltered).                                                      *)
SelectionIsSound == ChainsDoNotRegress /\ TickIsBounded /\ RankingIsSound /\ StrategiesOnlyNarrow

(* What no step may do: take a run off its strategy, go on with a project  *)
(* that was stopped, promote on a claim, win lost trust back, change the   *)
(* content of a version, or let evidence count against its own sense.      *)
GrowthIsEarned ==
  [][/\ RunsStayPinned /\ StoppedProjectRests /\ ContentIsFixed
     /\ OnlyResultsPromote /\ LostTrustStays /\ EvidenceCountsItsWay]_growthVars
===============================================================================
