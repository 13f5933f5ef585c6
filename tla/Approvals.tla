------------------------------ MODULE Approvals ------------------------------
(* What an action needs before it may run: the policy decision               *)
(* (policy/src/lib.rs), the floors the harness puts under it, and the        *)
(* approval broker with its standing grants (approval/src/lib.rs).           *)
(*                                                                           *)
(* An action is a record [plan, external, high, irreversible, communicated,  *)
(* recheck]: plan stands for the digest of its execution plan, recheck for   *)
(* the outcome of the mechanical checks against the context.                 *)
EXTENDS Naturals, Sequences, FiniteSets

CONSTANTS Actions,        \* the actions a run may propose
          RuleSets,       \* the rule sets in force, each a set of [on, effect]
          Envelopes,      \* "none" or the approval rule of a delegated envelope
          ApprovalIds, ApprovalNonces,
          RequestTtl,     \* an approval request expires this long after it is made
          MaxApprovalNow, \* bound on the clock
          MaxVersion,     \* bound on policy versions
          MaxPerformed    \* bound on what is performed

NoApproval == "no approval"

(* A plan's digest covers the whole intent, so actions of one plan do not     *)
(* differ in what the floors and the rules look at.                           *)
ASSUME ApprovalsAssumption ==
    /\ NoApproval \notin ApprovalIds /\ MaxApprovalNow \in Nat
    /\ \A a, b \in Actions : a.plan = b.plan =>
          /\ a.external = b.external
          /\ a.high = b.high /\ a.irreversible = b.irreversible

VARIABLES clock, rules, envelope, policyVersion,
          requests,      \* approval id -> [action, expires, version]
          pending,       \* ids still waiting to be resolved
          grants,        \* approval id -> [oneShot, useBy, nonce, consumed]
          nonces,        \* nonces of resolved grants, granted or not
          performed      \* history: [action, id, at, version, denied] in order

approvalVars == <<clock, rules, envelope, policyVersion, requests, pending,
                  grants, nonces, performed>>

ApprovalsInit ==
    /\ clock = 0 /\ policyVersion = 1
    /\ rules \in RuleSets /\ envelope \in Envelopes
    /\ requests = [i \in {} |-> 0] /\ pending = {}
    /\ grants = [i \in {} |-> 0] /\ nonces = {}
    /\ performed = <<>>

-----------------------------------------------------------------------------
(* The decision: mechanical recheck, then the delegated envelope, then the   *)
(* most restrictive rule of any layer; nothing matching is a refusal.        *)

Matching(a) == {r.effect : r \in {x \in rules : x.on = a.external}}

(* Fault: the most permissive of the matching rules decides. *)
PermissiveRule(a) ==
    IF "allow" \in Matching(a) THEN "allow"
    ELSE IF "ask" \in Matching(a) THEN "ask" ELSE "deny"

StrictestRule(a) ==
    IF "deny" \in Matching(a) \/ Matching(a) = {} THEN "deny"
    ELSE IF "ask" \in Matching(a) THEN "ask" ELSE "allow"

Evaluate(a) ==
    IF ~a.recheck \/ envelope = "deny" THEN "deny"
    ELSE IF envelope = "ask" THEN "ask" ELSE StrictestRule(a)

NeedsOneShot(a) == a.external /\ (a.high \/ a.irreversible)

(* The floors: a high-impact or irreversible external action is asked for,   *)
(* any external action without an allowing envelope too, and so is whatever  *)
(* an external party asked for.                                              *)
Floored(a) ==
    LET d == Evaluate(a) IN
    IF d = "allow" /\ \/ NeedsOneShot(a)
                      \/ a.external /\ envelope # "allow"
                      \/ a.communicated
    THEN "ask" ELSE d

Perform(a, id) ==
    /\ Len(performed) < MaxPerformed
    /\ performed' = Append(performed, [action |-> a, id |-> id, at |-> clock,
                                       version |-> policyVersion, denied |-> "deny" \in Matching(a)])

PerformAllowed(a) ==
    /\ Floored(a) = "allow"
    /\ Perform(a, NoApproval)
    /\ UNCHANGED <<clock, rules, envelope, policyVersion, requests, pending, grants, nonces>>

-----------------------------------------------------------------------------
(* The broker.  An id is used once, whatever became of its request.          *)

RequestApproval(a, id) ==
    /\ Floored(a) = "ask" /\ id \notin DOMAIN requests
    /\ requests' = [i \in DOMAIN requests \cup {id} |->
                      IF i = id THEN [action |-> a, expires |-> clock + RequestTtl,
                                      version |-> policyVersion]
                      ELSE requests[i]]
    /\ pending' = pending \cup {id}
    /\ UNCHANGED <<clock, rules, envelope, policyVersion, grants, nonces, performed>>

(* Fault: a grant may outlive the request it answers. *)
AcceptableAnyUse(id, g) ==
    /\ requests[id].expires > clock
    /\ g.nonce \notin nonces
    /\ g.useBy > clock

(* validate_grant *)
Acceptable(id, g) ==
    /\ requests[id].expires > clock
    /\ g.nonce \notin nonces
    /\ g.useBy > clock /\ g.useBy <= requests[id].expires

(* Resolving: the owner grants or refuses; a refusal uses its nonce too.  A  *)
(* standing grant for what needs a one-shot approval refuses the action.     *)
ResolveRequest(id, g, granted) ==
    /\ id \in pending
    /\ \/ /\ NeedsOneShot(requests[id].action) /\ ~g.oneShot
          /\ pending' = pending \ {id}
          /\ UNCHANGED <<grants, nonces>>
       \/ /\ NeedsOneShot(requests[id].action) => g.oneShot
          /\ Acceptable(id, g)
          /\ pending' = pending \ {id}
          /\ nonces' = nonces \cup {g.nonce}
          /\ grants' = IF granted
                       THEN [i \in DOMAIN grants \cup {id} |->
                               IF i = id THEN [oneShot |-> g.oneShot, useBy |-> g.useBy,
                                               nonce |-> g.nonce, consumed |-> FALSE]
                               ELSE grants[i]]
                       ELSE grants
    /\ UNCHANGED <<clock, rules, envelope, policyVersion, requests, performed>>

(* Fault: what a one-shot grant was used for is not noted. *)
ConsumeNothing(id) == grants' = grants

Consume(id) == grants' = [grants EXCEPT ![id].consumed = @ \/ grants[id].oneShot]

Authorises(id, a) ==
    /\ clock < grants[id].useBy /\ clock < requests[id].expires
    /\ a.plan = requests[id].action.plan
    /\ policyVersion = requests[id].version
    /\ grants[id].oneShot => ~grants[id].consumed

AuthorizeAction(id, a) ==
    /\ id \in DOMAIN grants /\ Authorises(id, a)
    /\ Consume(id)
    /\ Perform(a, id)
    /\ UNCHANGED <<clock, rules, envelope, policyVersion, requests, pending, nonces>>

(* A new policy, with a new version. *)
ChangePolicy ==
    /\ policyVersion < MaxVersion
    /\ policyVersion' = policyVersion + 1
    /\ rules' \in RuleSets
    /\ UNCHANGED <<clock, envelope, requests, pending, grants, nonces, performed>>

ApprovalClock ==
    /\ clock < MaxApprovalNow /\ clock' = clock + 1
    /\ UNCHANGED <<rules, envelope, policyVersion, requests, pending, grants, nonces, performed>>

ApprovalsNext ==
    \/ \E a \in Actions : PerformAllowed(a)
    \/ \E a \in Actions, id \in ApprovalIds : RequestApproval(a, id) \/ AuthorizeAction(id, a)
    \/ \E id \in pending, once \in BOOLEAN, t \in 1..MaxApprovalNow, n \in ApprovalNonces,
          granted \in BOOLEAN :
          ResolveRequest(id, [oneShot |-> once, useBy |-> t, nonce |-> n], granted)
    \/ ChangePolicy
    \/ ApprovalClock

-----------------------------------------------------------------------------
Uses(id) == {k \in DOMAIN performed : performed[k].id = id}

(* An approval carries exactly what was approved: the same plan, under the   *)
(* policy version it was asked under, before the request has expired, and a  *)
(* one-shot approval carries one action however long the run waits.          *)
ApprovalsCarryWhatWasAsked ==
    \A id \in DOMAIN grants :
        /\ grants[id].oneShot => Cardinality(Uses(id)) <= 1
        /\ \A k \in Uses(id) : /\ performed[k].action.plan = requests[id].action.plan
                               /\ performed[k].version = requests[id].version
                               /\ performed[k].at < requests[id].expires

(* No approval is answered twice: two grants never share a nonce, and a      *)
(* grant ends no later than the request it answers.                          *)
GrantsAreBound ==
    /\ \A i, j \in DOMAIN grants : i # j => grants[i].nonce # grants[j].nonce
    /\ \A i \in DOMAIN grants : grants[i].useBy <= requests[i].expires

(* High-impact and irreversible external actions, and all a communication    *)
(* asked for, run only under an approval; the former under a one-shot one.   *)
ImpactIsApproved ==
    \A k \in DOMAIN performed :
        LET a == performed[k].action
            id == performed[k].id IN
        /\ a.communicated => id # NoApproval
        /\ NeedsOneShot(a) => id # NoApproval /\ grants[id].oneShot

(* What a rule in force denies is not performed, also after a change of the  *)
(* policy, unless an envelope that asks comes before the rules.              *)
DenialsHold == envelope # "ask" => \A k \in DOMAIN performed : ~performed[k].denied

(* What policy and approvals promise of the actions that run.                *)
ApprovalsSound == ApprovalsCarryWhatWasAsked /\ GrantsAreBound /\ ImpactIsApproved /\ DenialsHold
=============================================================================
