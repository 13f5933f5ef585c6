------------------------------- MODULE Judgement -------------------------------
(* What evidence may move: the governor's decision on a candidate and the       *)
(* competence gate's ceiling on an intervention, as the evidence behind them    *)
(* accumulates in any order.                                                    *)
EXTENDS Integers, FiniteSets, FiniteSetsExt

CONSTANTS CautionEvidence, TrustEvidence, TrustTimepoints, \* PromotionAsymmetry; confidence in tenths
          CautionConfidence, TrustConfidence,
          MaxItems                                         \* bound on the items of each kind

ASSUME AsymmetryAssumption ==
  /\ {CautionEvidence, TrustEvidence, TrustTimepoints, CautionConfidence, TrustConfidence} \subseteq Nat
  /\ 0 < CautionEvidence /\ CautionEvidence < TrustEvidence /\ 0 < TrustTimepoints
  /\ CautionConfidence < TrustConfidence

VARIABLES case,       \* the evidence so far
          lastAdded   \* what the last step added (history)

judgementVars == <<case, lastAdded>>

NoCase == [verified |-> 0, times |-> 0, confidence |-> 0, confirmed |-> FALSE, trusted |-> TRUE,
           conflict |-> FALSE, protected |-> FALSE, high |-> FALSE,
           successes |-> 0, strong |-> FALSE, map |-> -1, self |-> -1, trust |-> -1, minor |-> 0, major |-> 0]

Directions == {"caution", "autonomy", "correction"}

\* Fault: a caution needs no less than a gain of autonomy does.
MeetsStrict(k, direction) ==
  \/ direction = "caution" /\ k.confidence >= TrustConfidence /\ k.verified >= TrustEvidence /\ k.times >= TrustTimepoints + 1
  \/ direction = "autonomy" /\ k.confidence >= TrustConfidence /\ k.verified >= TrustEvidence /\ k.times >= TrustTimepoints
Meets(k, direction) ==
  \/ direction = "caution" /\ k.confidence >= CautionConfidence /\ k.verified >= CautionEvidence
  \/ direction = "autonomy" /\ k.confidence >= TrustConfidence /\ k.verified >= TrustEvidence /\ k.times >= TrustTimepoints

\* govern, on a well-formed candidate; only the owner corrects.
Govern(k, direction, byOwner) ==
  IF direction = "correction" THEN IF byOwner THEN "downgrade" ELSE "confirm"
  ELSE IF ~k.trusted \/ k.conflict \/ k.protected \/ (k.high /\ ~k.confirmed) THEN "confirm"
  ELSE IF Meets(k, direction) /\ k.confirmed THEN "promote" ELSE "confirm"

\* The levels L0 .. L5; risk 0 is low, 2 is high.
FromEvidence(k, risk) ==
  CASE k.successes = 0 -> IF risk = 2 THEN 0 ELSE 1
    [] k.successes = 1 -> IF risk = 2 THEN 2 ELSE 3
    [] OTHER           -> IF k.strong /\ risk = 0 THEN 4 ELSE 3
\* A confidence in tenths caps the level; an absent one caps it at a suggestion.
Cap(confidence) == IF confidence >= 6 THEN 5 ELSE IF confidence = -1 \/ confidence >= 3 THEN 1 ELSE 0

\* Fault: failures are only counted when there is no success to set against them.
ForgivingCeiling(k, risk) ==
  LET level == Min({FromEvidence(k, risk), Cap(k.map), Cap(k.self), IF k.trust = -1 THEN 1 ELSE k.trust})
  IN IF k.successes > 0 THEN level ELSE Max({0, level - k.minor - 2 * k.major})
Ceiling(k, risk) ==
  LET level == Min({FromEvidence(k, risk), Cap(k.map), Cap(k.self), IF k.trust = -1 THEN 1 ELSE k.trust})
  IN Max({0, level - k.minor - 2 * k.major})

--------------------------------------------------------------------------------
Adds(what, k) == lastAdded' = what /\ case' = k

AddVerified == /\ case.verified < MaxItems
               /\ \E fresh \in {0, 1} : Adds("support", [case EXCEPT !.verified = @ + 1, !.times = @ + fresh])
RaiseConfidence == \E c \in {CautionConfidence, TrustConfidence} :
                     case.confidence < c /\ Adds("support", [case EXCEPT !.confidence = c])
OwnerConfirms == ~case.confirmed /\ Adds("support", [case EXCEPT !.confirmed = TRUE])
Objection == \E f \in {"conflict", "protected", "high"} : ~case[f] /\ Adds("doubt", [case EXCEPT ![f] = TRUE])
LoseTrustTier == case.trusted /\ Adds("doubt", [case EXCEPT !.trusted = FALSE])

AddSuccess == /\ case.successes < MaxItems
              /\ \E s \in BOOLEAN : Adds("support", [case EXCEPT !.successes = @ + 1, !.strong = @ \/ s])
AddFailure == \/ case.minor < MaxItems /\ Adds("doubt", [case EXCEPT !.minor = @ + 1])
              \/ case.major < MaxItems /\ Adds("doubt", [case EXCEPT !.major = @ + 1])
Assess == \E f \in {"map", "self"} : \E c \in {0, 3, 6} :
            c > case[f] /\ Adds(IF c = 0 THEN "doubt" ELSE "support", [case EXCEPT ![f] = c])
GrantTrust == \E t \in 0..4 : case.trust = -1 /\ Adds("other", [case EXCEPT !.trust = t])

JudgementInit == case = NoCase /\ lastAdded = "none"
\* A case is a candidate's or an intervention's, never both.
JudgementNext ==
  \/ /\ [case EXCEPT !.verified = 0, !.times = 0, !.confidence = 0, !.confirmed = FALSE, !.trusted = TRUE,
                     !.conflict = FALSE, !.protected = FALSE, !.high = FALSE] = NoCase
     /\ (AddVerified \/ RaiseConfidence \/ OwnerConfirms \/ Objection \/ LoseTrustTier)
  \/ /\ [case EXCEPT !.successes = 0, !.strong = FALSE, !.map = -1, !.self = -1, !.trust = -1, !.minor = 0, !.major = 0] = NoCase
     /\ (AddSuccess \/ AddFailure \/ Assess \/ GrantTrust)

--------------------------------------------------------------------------------
\* A change that lowers what the agent may do never needs more than one that raises it, and no
\* amount of evidence changes a stable object while the owner has not confirmed.
CautionIsCheaper ==
  /\ Govern(case, "autonomy", FALSE) = "promote" => Govern(case, "caution", FALSE) = "promote"
  /\ \A direction \in Directions : Govern(case, direction, FALSE) # "confirm" => case.confirmed

\* The ceiling follows the evidence: doubt never raises it, support never lowers it, for any
\* risk; and one serious failure always takes a level that was above the floor away.
CeilingFollowsEvidence ==
  case' # case =>
    \A risk \in 0..2 :
      /\ (lastAdded' = "doubt") => Ceiling(case', risk) <= Ceiling(case, risk)
      /\ (lastAdded' = "support") => Ceiling(case', risk) >= Ceiling(case, risk)
      /\ (case'.major > case.major /\ Ceiling(case, risk) > 0) => Ceiling(case', risk) < Ceiling(case, risk)
================================================================================
