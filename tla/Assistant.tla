------------------------------ MODULE Assistant ------------------------------
(* What the assistant keeps for its owner: prospective intentions and their  *)
(* scheduler (Schedule), governed cognition (Cognition, Judgement), what it  *)
(* raises by itself (Proactivity), the views rebuilt from the event log      *)
(* (Projections), extensions and their registries (Extensions), policy and   *)
(* approvals (Approvals), and the context its model is shown (Context).  No  *)
(* step of one reads what another writes, so a behaviour exercises one of    *)
(* them, chosen in its initial state, while the others rest.                 *)
EXTENDS Schedule, Cognition, Judgement, Proactivity, Projections, Extensions,
        Approvals, Context, TLC

VARIABLE faculty

assistantVars == <<faculty, scheduleVars, cognitionVars, judgementVars, proactivityVars,
                   projectionVars, extensionVars, approvalVars, contextVars>>

Faculties == {"schedule", "cognition", "judgement", "proactivity", "projections",
              "plugins", "calls", "approvals", "context"}

Manifest(p, caps, hs, first) == [plugin |-> p, caps |-> caps, hooks |-> hs, first |-> first]
ModelManifests == {Manifest("p1", {"c"}, {"h"}, TRUE), Manifest("p1", {"c", "d"}, {}, FALSE),
                   Manifest("p2", {"d"}, {"h"}, TRUE)}

Action(p, e, h, i, c) == [plan |-> p, external |-> e, high |-> h, irreversible |-> i,
                          communicated |-> c, recheck |-> TRUE]
ModelActions == {Action("write", FALSE, FALSE, FALSE, FALSE), Action("send", TRUE, FALSE, FALSE, TRUE),
                 Action("pay", TRUE, TRUE, TRUE, FALSE)}
Rule(on, effect) == [on |-> on, effect |-> effect]
ModelRuleSets == {{Rule(TRUE, "allow"), Rule(FALSE, "allow")},
                  {Rule(TRUE, "ask"), Rule(TRUE, "deny"), Rule(FALSE, "ask")}}

Source(ref, cost, owner) == [ref |-> ref, cost |-> cost, owner |-> owner]
ModelRules == <<Source("r1", 1, TRUE), Source("r2", 1, FALSE)>>
ModelSkills == <<Source("s1", 2, FALSE), Source("s2", 3, FALSE)>>
ModelSlices == <<Source("x", 2, FALSE)>>

ModelCandidates == ("c1" :> "m") @@ ("c3" :> "t")
ModelDerivations == {<<"m", "t">>, <<"t", "d">>}

AssistantInit ==
  /\ faculty \in Faculties
  /\ ScheduleInit /\ CognitionInit /\ JudgementInit /\ ProactivityInit /\ ProjectionInit
  /\ ExtensionsInit /\ ApprovalsInit /\ ContextInit
  /\ faculty # "projections" => about = "lineage"
  /\ faculty # "calls" => offered = [s \in Servers |-> CHOOSE x \in Schemas : TRUE]
  /\ faculty # "approvals" => /\ rules = CHOOSE r \in RuleSets : TRUE
                              /\ envelope = "none"

AtRest(f) ==
  /\ f # "schedule" => UNCHANGED scheduleVars
  /\ f # "cognition" => UNCHANGED cognitionVars
  /\ f # "judgement" => UNCHANGED judgementVars
  /\ f # "proactivity" => UNCHANGED proactivityVars
  /\ f # "projections" => UNCHANGED projectionVars
  /\ f \notin {"plugins", "calls"} => UNCHANGED extensionVars
  /\ f # "approvals" => UNCHANGED approvalVars
  /\ f # "context" => UNCHANGED contextVars

AssistantNext ==
  /\ UNCHANGED faculty
  /\ AtRest(faculty)
  /\ \/ faculty = "schedule" /\ ScheduleNext
     \/ faculty = "cognition" /\ CognitionNext
     \/ faculty = "judgement" /\ JudgementNext
     \/ faculty = "proactivity" /\ ProactivityNext
     \/ faculty = "projections" /\ ProjectionNext
     \/ faculty = "plugins" /\ PluginNext
     \/ faculty = "calls" /\ CallNext
     \/ faculty = "approvals" /\ ApprovalsNext
     \/ faculty = "context" /\ ContextNext

AssistantSpec == AssistantInit /\ [][AssistantNext]_assistantVars

\* What the cognition shows and uses follows the recorded decisions, and those decisions ask
\* less of caution than of autonomy (propose_update, govern, on_retraction, fold_event).
CognitionIsSound ==
  RetractionReachesDerived /\ MapShowsPromoted /\ CandidatesFollowLog /\ CautionIsCheaper

\* What is derived from evidence moves with it: a ceiling rises by support only, recall and
\* availability only lose what was retracted or revoked (CompetenceGate, HotColdProjection,
\* CapabilityResourceGraph).
DerivedFollowsEvidence ==
  [][CeilingFollowsEvidence /\ RecallForgets /\ RevokedStaysUnavailable]_assistantVars
=============================================================================
