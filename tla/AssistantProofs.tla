--------------------------- MODULE AssistantProofs ---------------------------
(***************************************************************************)
(* Theorems about what the assistant keeps for its owner, for any rules,   *)
(* providers, intentions and number of handles.                            *)
(*                                                                         *)
(* A step of Assistant belongs to one faculty and leaves the others alone, *)
(* so each theorem has the invariant of its own module.                    *)
(***************************************************************************)
EXTENDS Assistant, FiniteSetTheorems, FunctionTheorems, SequenceTheorems,
        NaturalsInduction, WellFoundedInduction, TLAPS

\* A step of the composition is a step of each faculty or leaves it alone.
LEMMA FacultiesStep ==
  ASSUME [AssistantNext]_assistantVars
  PROVE  /\ [ScheduleNext]_scheduleVars
         /\ [ProjectionNext]_projectionVars
         /\ [PluginNext \/ CallNext]_extensionVars
         /\ [ApprovalsNext]_approvalVars
         /\ [ProactivityNext]_proactivityVars
         /\ [CognitionNext]_cognitionVars
         /\ [JudgementNext]_judgementVars
         /\ [ContextNext]_contextVars
BY DEF AssistantNext, AtRest, assistantVars

-----------------------------------------------------------------------------
(* Policy and approvals                                                    *)

\* What a request is: an action, asked for under a version of the policy that
\* did not deny it.
RequestOK(r) ==
  /\ r.action \in Actions
  /\ r.version \in Nat /\ r.version <= policyVersion
  /\ envelope # "ask" /\ r.version = policyVersion => "deny" \notin Matching(r.action)

Grants == [oneShot : BOOLEAN, useBy : Nat, nonce : ApprovalNonces, consumed : BOOLEAN]

GrantOK(id) ==
  /\ id \in DOMAIN requests /\ id \notin pending
  /\ grants[id] \in Grants
  /\ grants[id].nonce \in nonces
  /\ grants[id].useBy <= requests[id].expires
  /\ NeedsOneShot(requests[id].action) => grants[id].oneShot

\* What was performed under an approval is what was asked for.
CarriedOK(e) ==
  /\ e.id \in DOMAIN grants
  /\ e.action.plan = requests[e.id].action.plan
  /\ e.version = requests[e.id].version
  /\ e.at < requests[e.id].expires
  /\ NeedsOneShot(e.action) => grants[e.id].oneShot
  /\ grants[e.id].oneShot => grants[e.id].consumed

PerformedOK(e) ==
  /\ e.id = NoApproval => ~e.action.communicated /\ ~NeedsOneShot(e.action)
  /\ e.id # NoApproval => CarriedOK(e)
  /\ envelope # "ask" => ~e.denied

Performances == [action : Actions, id : ApprovalIds \cup {NoApproval}, at : Nat, version : Nat, denied : BOOLEAN]

ApprovalInv ==
  /\ policyVersion \in Nat /\ clock \in Nat
  /\ requests = [id \in DOMAIN requests |-> requests[id]]
  /\ DOMAIN requests \subseteq ApprovalIds /\ pending \subseteq DOMAIN requests
  /\ grants = [id \in DOMAIN grants |-> grants[id]]
  /\ \A id \in DOMAIN requests : \E r : r = requests[id] /\ RequestOK(r)
  /\ \A id \in DOMAIN grants : GrantOK(id)
  /\ \A i, j \in DOMAIN grants : i # j => grants[i].nonce # grants[j].nonce
  /\ performed \in Seq(Performances)
  /\ \A k \in 1..Len(performed) : \E e : e = performed[k] /\ PerformedOK(e)
  /\ \A j, k \in 1..Len(performed) :
       performed[j].id = performed[k].id /\ performed[j].id \in DOMAIN grants /\ grants[performed[j].id].oneShot => j = k

\* Requests stay, and grants stay apart from their use.
Settled1 ==
  /\ envelope' = envelope
  /\ \A id \in DOMAIN grants :
       /\ id \in DOMAIN grants' /\ requests'[id] = requests[id]
       /\ grants'[id].oneShot = grants[id].oneShot
       /\ grants[id].consumed => grants'[id].consumed

\* What was performed stays covered.
LEMMA PerformedKept ==
  ASSUME NEW e, PerformedOK(e), Settled1
  PROVE  PerformedOK(e)'
<1>1. CarriedOK(e) => CarriedOK(e)'
  BY DEF CarriedOK, Settled1, NeedsOneShot
<1> QED BY <1>1 DEF PerformedOK, Settled1, NeedsOneShot

\* A step that performs nothing keeps what was performed covered.
LEMMA NothingPerformed ==
  ASSUME ApprovalInv, Settled1, UNCHANGED performed, \A id \in DOMAIN grants' \ DOMAIN grants : id \in pending
  PROVE  /\ \A k \in 1..Len(performed') : \E e : e = performed'[k] /\ PerformedOK(e)'
         /\ \A j, k \in 1..Len(performed') :
              performed'[j].id = performed'[k].id /\ performed'[j].id \in DOMAIN grants' /\ grants'[performed'[j].id].oneShot
              => j = k
<1>1. ASSUME NEW k \in 1..Len(performed') PROVE \E e : e = performed'[k] /\ PerformedOK(e)'
  <2>1. PICK e : e = performed[k] /\ PerformedOK(e)
    BY DEF ApprovalInv
  <2> QED BY <2>1, PerformedKept
<1>2. ASSUME NEW j \in 1..Len(performed), performed[j].id \in DOMAIN grants' PROVE performed[j].id \in DOMAIN grants
  <2>1. PICK e : e = performed[j] /\ PerformedOK(e)
    BY DEF ApprovalInv
  <2>2. e.id # NoApproval
    BY <1>2, <2>1, ApprovalsAssumption DEF ApprovalInv, GrantOK, ApprovalsAssumption
  <2> QED BY <2>1, <2>2 DEF PerformedOK, CarriedOK
<1> QED BY <1>1, <1>2 DEF ApprovalInv, Settled1

\* The approvals start with nothing asked for.
LEMMA ApprovalInvInit == ApprovalsInit => ApprovalInv
BY ApprovalsAssumption DEF ApprovalsInit, ApprovalInv, ApprovalsAssumption

\* What decides an action, when its envelope does not: no rule in force denies it.
LEMMA NotDenied ==
  ASSUME NEW a, Floored(a) \in {"allow", "ask"}, envelope # "ask"
  PROVE  "deny" \notin Matching(a)
BY DEF Floored, Evaluate, StrictestRule

\* An action performed without an approval keeps the invariant.
LEMMA PerformAllowedKeeps ==
  ASSUME ApprovalInv, NEW a \in Actions, PerformAllowed(a)
  PROVE  ApprovalInv'
<1>a. PICK e : e = [action |-> a, id |-> NoApproval, at |-> clock, version |-> policyVersion, denied |-> "deny" \in Matching(a)]
  OBVIOUS
<1>1. performed' = Append(performed, e) /\ UNCHANGED <<clock, rules, envelope, policyVersion, requests, pending, grants, nonces>>
  BY <1>a DEF PerformAllowed, Perform
<1>2. /\ e \in Performances /\ e.id = NoApproval /\ e.action = a /\ e.denied = ("deny" \in Matching(a))
  BY <1>a DEF ApprovalInv, Performances
<1>3. ~a.communicated /\ ~NeedsOneShot(a)
  BY DEF PerformAllowed, Floored
<1>4. envelope # "ask" => "deny" \notin Matching(a)
  BY NotDenied DEF PerformAllowed
<1>5. PerformedOK(e)
  BY <1>2, <1>3, <1>4 DEF PerformedOK
<1>6. Settled1
  BY <1>1 DEF Settled1
<1>7. PerformedOK(e)'
  BY <1>1, <1>5, PerformedKept, <1>6
<1>8. PICK n \in Nat : n = Len(performed)
  BY DEF ApprovalInv
<1>9. /\ performed' \in Seq(Performances) /\ Len(performed') = n + 1 /\ performed'[n + 1] = e
      /\ \A k \in 1..n : performed'[k] = performed[k]
  BY <1>1, <1>2, <1>8, AppendProperties DEF ApprovalInv
<1>10. NoApproval \notin DOMAIN grants
  BY ApprovalsAssumption DEF ApprovalInv, GrantOK, ApprovalsAssumption
<1>11. ASSUME NEW k \in 1..Len(performed') PROVE \E x : x = performed'[k] /\ PerformedOK(x)'
  <2>1. CASE k = n + 1
    BY <2>1, <1>7, <1>9
  <2>2. CASE k \in 1..n
    <3>1. PICK x : x = performed[k] /\ PerformedOK(x)
      BY <2>2, <1>8 DEF ApprovalInv
    <3> QED BY <2>2, <3>1, <1>6, <1>9, PerformedKept
  <2> QED BY <2>1, <2>2, <1>9
<1>12. ASSUME NEW j \in 1..Len(performed'), NEW k \in 1..Len(performed'),
              performed'[j].id = performed'[k].id, performed'[j].id \in DOMAIN grants', grants'[performed'[j].id].oneShot
       PROVE  j = k
  <2>1. j # n + 1 /\ k # n + 1
    BY <1>1, <1>2, <1>9, <1>10, <1>12
  <2>2. j \in 1..n /\ k \in 1..n
    BY <2>1, <1>9
  <2> QED BY <2>2, <1>1, <1>8, <1>9, <1>12 DEF ApprovalInv
<1>13. \A id \in DOMAIN requests' : \E r : r = requests'[id] /\ RequestOK(r)'
  BY <1>1 DEF ApprovalInv, RequestOK, Matching
<1>14. \A id \in DOMAIN grants' : GrantOK(id)'
  BY <1>1 DEF ApprovalInv, GrantOK, NeedsOneShot
<1> QED BY <1>1, <1>9, <1>11, <1>12, <1>13, <1>14 DEF ApprovalInv

\* A request made keeps the invariant.
LEMMA RequestApprovalKeeps ==
  ASSUME ApprovalInv, NEW a \in Actions, NEW id \in ApprovalIds, RequestApproval(a, id)
  PROVE  ApprovalInv'
<1> DEFINE q == [action |-> a, expires |-> clock + RequestTtl, version |-> policyVersion]
<1>1. /\ id \notin DOMAIN requests /\ pending' = pending \cup {id}
      /\ requests' = [i \in DOMAIN requests \cup {id} |-> IF i = id THEN q ELSE requests[i]]
      /\ UNCHANGED <<clock, rules, envelope, policyVersion, grants, nonces, performed>>
  BY DEF RequestApproval
<1>2. q.action = a /\ q.version = policyVersion
  OBVIOUS
<1>3. RequestOK(q)
  BY <1>2, NotDenied DEF RequestApproval, RequestOK, ApprovalInv
<1> HIDE DEF q
<1>4. /\ DOMAIN requests' = DOMAIN requests \cup {id} /\ requests'[id] = q
      /\ \A i \in DOMAIN requests : requests'[i] = requests[i]
  BY <1>1
<1>5. DOMAIN grants \subseteq DOMAIN requests
  BY DEF ApprovalInv, GrantOK
<1>6. Settled1 /\ \A i \in DOMAIN grants' \ DOMAIN grants : i \in pending
  BY <1>1, <1>4, <1>5 DEF Settled1
<1>7. /\ \A k \in 1..Len(performed') : \E e : e = performed'[k] /\ PerformedOK(e)'
      /\ \A j, k \in 1..Len(performed') :
           performed'[j].id = performed'[k].id /\ performed'[j].id \in DOMAIN grants' /\ grants'[performed'[j].id].oneShot
           => j = k
  BY <1>1, <1>6, NothingPerformed
<1>8. ASSUME NEW i \in DOMAIN requests' PROVE \E r : r = requests'[i] /\ RequestOK(r)'
  <2>1. PICK r : r = requests'[i] /\ RequestOK(r)
    BY <1>3, <1>4 DEF ApprovalInv
  <2> QED BY <2>1, <1>1 DEF RequestOK, Matching
<1>9. \A i \in DOMAIN grants' : GrantOK(i)'
  BY <1>1, <1>4, <1>5 DEF ApprovalInv, GrantOK, NeedsOneShot
<1>10. requests' = [i \in DOMAIN requests' |-> requests'[i]]
  BY <1>1
<1>11. DOMAIN requests' \subseteq ApprovalIds /\ pending' \subseteq DOMAIN requests'
  BY <1>1, <1>4 DEF ApprovalInv
<1>12. grants' = [i \in DOMAIN grants' |-> grants'[i]] /\ performed' \in Seq(Performances)
  BY <1>1 DEF ApprovalInv
<1>13. \A i, j \in DOMAIN grants' : i # j => grants'[i].nonce # grants'[j].nonce
  BY <1>1 DEF ApprovalInv
<1>14. policyVersion' \in Nat /\ clock' \in Nat
  BY <1>1 DEF ApprovalInv
<1> QED BY <1>7, <1>8, <1>9, <1>10, <1>11, <1>12, <1>13, <1>14 DEF ApprovalInv

\* A request answered keeps the invariant, whether it is granted or not.
LEMMA ResolveRequestKeeps ==
  ASSUME ApprovalInv, NEW id \in pending, NEW once \in BOOLEAN, NEW t \in Nat, NEW n \in ApprovalNonces, NEW granted \in BOOLEAN,
         ResolveRequest(id, [oneShot |-> once, useBy |-> t, nonce |-> n], granted)
  PROVE  ApprovalInv'
<1> DEFINE g == [oneShot |-> once, useBy |-> t, nonce |-> n]
           new == [oneShot |-> once, useBy |-> t, nonce |-> n, consumed |-> FALSE]
<1>1. /\ UNCHANGED <<clock, rules, envelope, policyVersion, requests, performed>>
      /\ pending' = pending \ {id} /\ id \in DOMAIN requests /\ id \notin DOMAIN grants
  BY DEF ResolveRequest, ApprovalInv, GrantOK
<1>2. \A i \in DOMAIN requests' : \E r : r = requests'[i] /\ RequestOK(r)'
  BY <1>1 DEF ApprovalInv, RequestOK, Matching
<1>3. CASE UNCHANGED grants /\ nonces \subseteq nonces'
  <2>1. Settled1 /\ \A i \in DOMAIN grants' \ DOMAIN grants : i \in pending
    BY <1>1, <1>3 DEF Settled1
  <2>2. /\ \A k \in 1..Len(performed') : \E e : e = performed'[k] /\ PerformedOK(e)'
        /\ \A j, k \in 1..Len(performed') :
             performed'[j].id = performed'[k].id /\ performed'[j].id \in DOMAIN grants' /\ grants'[performed'[j].id].oneShot
             => j = k
    BY <1>1, <2>1, NothingPerformed
  <2>3. \A i \in DOMAIN grants' : GrantOK(i)'
    BY <1>1, <1>3 DEF ApprovalInv, GrantOK, NeedsOneShot
  <2> QED BY <1>1, <1>2, <1>3, <2>2, <2>3 DEF ApprovalInv
<1>4. CASE /\ NeedsOneShot(requests[id].action) => once
           /\ t <= requests[id].expires /\ n \notin nonces /\ nonces' = nonces \cup {n}
           /\ grants' = [i \in DOMAIN grants \cup {id} |-> IF i = id THEN new ELSE grants[i]]
  <2>1. new \in Grants /\ new.oneShot = once /\ new.useBy = t /\ new.nonce = n
    BY DEF Grants
  <2>2. /\ DOMAIN grants' = DOMAIN grants \cup {id}
        /\ grants'[id] = new /\ \A i \in DOMAIN grants : grants'[i] = grants[i]
    BY <1>1, <1>4
  <2>3. grants' = [i \in DOMAIN grants' |-> grants'[i]]
    BY <1>4
  <2> HIDE DEF new
  <2>4. Settled1 /\ \A i \in DOMAIN grants' \ DOMAIN grants : i \in pending
    BY <1>1, <2>2 DEF Settled1
  <2>5. /\ \A k \in 1..Len(performed') : \E e : e = performed'[k] /\ PerformedOK(e)'
        /\ \A j, k \in 1..Len(performed') :
             performed'[j].id = performed'[k].id /\ performed'[j].id \in DOMAIN grants' /\ grants'[performed'[j].id].oneShot
             => j = k
    BY <1>1, <2>4, NothingPerformed
  <2>6. ASSUME NEW i \in DOMAIN grants PROVE GrantOK(i)'
    BY <1>1, <1>4, <2>2 DEF ApprovalInv, GrantOK, NeedsOneShot
  <2>7. GrantOK(id)'
    BY <1>1, <1>4, <2>1, <2>2 DEF GrantOK, NeedsOneShot
  <2>8. \A i \in DOMAIN grants' : GrantOK(i)'
    BY <2>2, <2>6, <2>7
  <2>9. \A i \in DOMAIN grants : grants[i].nonce \in nonces
    BY DEF ApprovalInv, GrantOK
  <2>10. \A i, j \in DOMAIN grants' : i # j => grants'[i].nonce # grants'[j].nonce
    BY <1>4, <2>1, <2>2, <2>9 DEF ApprovalInv
  <2> QED BY <1>1, <1>2, <2>3, <2>5, <2>8, <2>10 DEF ApprovalInv
<1>5. g.oneShot = once /\ g.useBy = t /\ g.nonce = n
  OBVIOUS
<1> QED BY <1>3, <1>4, <1>5 DEF ResolveRequest, Acceptable

\* What an approval authorises keeps the invariant; it is its one use if it has only one.
LEMMA AuthorizeActionKeeps ==
  ASSUME ApprovalInv, NEW a \in Actions, NEW id \in ApprovalIds, AuthorizeAction(id, a)
  PROVE  ApprovalInv'
<1>1. PICK e : e = [action |-> a, id |-> id, at |-> clock, version |-> policyVersion, denied |-> "deny" \in Matching(a)]
  OBVIOUS
<1>2. /\ performed' = Append(performed, e) /\ grants' = [grants EXCEPT ![id].consumed = @ \/ grants[id].oneShot]
      /\ UNCHANGED <<clock, rules, envelope, policyVersion, requests, pending, nonces>>
  BY <1>1 DEF AuthorizeAction, Perform, Consume
<1>3. /\ id \in DOMAIN grants /\ Authorises(id, a) /\ id # NoApproval
      /\ id \in DOMAIN requests /\ GrantOK(id)
  BY ApprovalsAssumption DEF AuthorizeAction, ApprovalInv, GrantOK, ApprovalsAssumption
<1>4. PICK g : g = grants[id] /\ g \in Grants
  BY <1>3 DEF GrantOK
<1>5. PICK h : h = [g EXCEPT !.consumed = @ \/ g.oneShot]
  OBVIOUS
<1>6. /\ h.oneShot = g.oneShot /\ h.useBy = g.useBy /\ h.nonce = g.nonce /\ h \in Grants
      /\ (g.consumed \/ g.oneShot) => h.consumed
  BY <1>4, <1>5 DEF Grants
<1>7. /\ grants = [i \in DOMAIN grants |-> grants[i]]
      /\ DOMAIN grants' = DOMAIN grants /\ grants'[id] = h /\ \A i \in DOMAIN grants \ {id} : grants'[i] = grants[i]
      /\ grants' = [i \in DOMAIN grants' |-> grants'[i]]
  BY <1>2, <1>3, <1>4, <1>5 DEF ApprovalInv
<1>8. Settled1
  BY <1>2, <1>4, <1>6, <1>7 DEF Settled1
<1>9. PICK r : r = requests[id] /\ RequestOK(r)
  BY <1>3 DEF ApprovalInv
<1>10. /\ NeedsOneShot(a) = NeedsOneShot(r.action) /\ Matching(a) = Matching(r.action)
       /\ r.version = policyVersion
  BY <1>3, <1>9, ApprovalsAssumption DEF Authorises, RequestOK, ApprovalsAssumption, NeedsOneShot, Matching
<1>11. /\ e \in Performances /\ e.id = id /\ e.action = a /\ e.at = clock /\ e.version = policyVersion
       /\ e.denied = ("deny" \in Matching(a))
  BY <1>1 DEF ApprovalInv, Performances
<1>12. PerformedOK(e)'
  <2>1. CarriedOK(e)'
    BY <1>2, <1>3, <1>4, <1>6, <1>7, <1>9, <1>10, <1>11 DEF CarriedOK, Authorises, GrantOK, NeedsOneShot
  <2>2. envelope # "ask" => ~e.denied
    BY <1>9, <1>10, <1>11 DEF RequestOK
  <2> QED BY <1>2, <1>3, <1>11, <2>1, <2>2 DEF PerformedOK
<1>13. PICK n \in Nat : n = Len(performed)
  BY DEF ApprovalInv
<1>14. /\ performed' \in Seq(Performances) /\ Len(performed') = n + 1 /\ performed'[n + 1] = e
       /\ \A k \in 1..n : performed'[k] = performed[k]
  BY <1>2, <1>11, <1>13, AppendProperties DEF ApprovalInv
<1>15. ASSUME NEW k \in 1..Len(performed') PROVE \E x : x = performed'[k] /\ PerformedOK(x)'
  <2>1. CASE k = n + 1
    BY <2>1, <1>12, <1>14
  <2>2. CASE k \in 1..n
    <3>1. PICK x : x = performed[k] /\ PerformedOK(x)
      BY <2>2, <1>13 DEF ApprovalInv
    <3> QED BY <2>2, <3>1, <1>8, <1>14, PerformedKept
  <2> QED BY <2>1, <2>2, <1>14
<1>16. ASSUME g.oneShot, NEW k \in 1..n PROVE performed[k].id # id
  <2>1. PICK x : x = performed[k] /\ PerformedOK(x)
    BY <1>13 DEF ApprovalInv
  <2>2. ~g.consumed
    BY <1>3, <1>4, <1>16 DEF Authorises
  <2> QED BY <1>3, <1>4, <1>16, <2>1, <2>2 DEF PerformedOK, CarriedOK
<1>17. \A i \in DOMAIN grants : grants'[i].oneShot = grants[i].oneShot /\ grants'[i].nonce = grants[i].nonce
  BY <1>4, <1>6, <1>7
<1>18. ASSUME NEW j \in 1..Len(performed'), NEW k \in 1..Len(performed'),
              performed'[j].id = performed'[k].id, performed'[j].id \in DOMAIN grants', grants'[performed'[j].id].oneShot
       PROVE  j = k
  <2>1. CASE j \in 1..n /\ k \in 1..n
    BY <1>7, <1>13, <1>14, <1>17, <1>18, <2>1 DEF ApprovalInv
  <2>2. CASE j = n + 1 /\ k \in 1..n
    BY <1>4, <1>7, <1>11, <1>14, <1>16, <1>17, <1>18, <2>2
  <2>3. CASE k = n + 1 /\ j \in 1..n
    BY <1>4, <1>7, <1>11, <1>14, <1>16, <1>17, <1>18, <2>3
  <2> QED BY <2>1, <2>2, <2>3, <1>14
<1>19. ASSUME NEW i \in DOMAIN requests' PROVE \E x : x = requests'[i] /\ RequestOK(x)'
  <2>1. PICK x : x = requests[i] /\ RequestOK(x)
    BY <1>2, <1>19 DEF ApprovalInv
  <2> QED BY <1>2, <2>1 DEF RequestOK, Matching
<1>20. ASSUME NEW i \in DOMAIN grants' PROVE GrantOK(i)'
  <2>1. GrantOK(i)
    BY <1>7 DEF ApprovalInv
  <2>2. /\ grants'[i] \in Grants /\ grants'[i].nonce = grants[i].nonce /\ grants'[i].useBy = grants[i].useBy
        /\ grants'[i].oneShot = grants[i].oneShot
    <3>1. CASE i = id
      BY <1>4, <1>6, <1>7, <3>1
    <3>2. CASE i # id
      BY <1>7, <1>20, <2>1, <3>2 DEF GrantOK
    <3> QED BY <3>1, <3>2
  <2>3. requests' = requests /\ pending' = pending /\ nonces' = nonces
    BY <1>2
  <2> QED BY <2>1, <2>2, <2>3 DEF GrantOK, NeedsOneShot
<1>21. \A i, j \in DOMAIN grants' : i # j => grants'[i].nonce # grants'[j].nonce
  BY <1>7, <1>17 DEF ApprovalInv
<1> QED BY <1>2, <1>7, <1>14, <1>15, <1>18, <1>19, <1>20, <1>21 DEF ApprovalInv

\* A new policy has a new version, and the requests made before it keep theirs.
LEMMA ChangePolicyKeeps ==
  ASSUME ApprovalInv, ChangePolicy
  PROVE  ApprovalInv'
<1>1. /\ UNCHANGED <<clock, envelope, requests, pending, grants, nonces, performed>>
      /\ policyVersion' = policyVersion + 1
  BY DEF ChangePolicy
<1>2. Settled1 /\ \A i \in DOMAIN grants' \ DOMAIN grants : i \in pending
  BY <1>1 DEF Settled1
<1>3. /\ \A k \in 1..Len(performed') : \E e : e = performed'[k] /\ PerformedOK(e)'
      /\ \A j, k \in 1..Len(performed') :
           performed'[j].id = performed'[k].id /\ performed'[j].id \in DOMAIN grants' /\ grants'[performed'[j].id].oneShot
           => j = k
  BY <1>1, <1>2, NothingPerformed
<1>4. ASSUME NEW i \in DOMAIN requests' PROVE \E r : r = requests'[i] /\ RequestOK(r)'
  <2>1. PICK r : r = requests[i] /\ RequestOK(r)
    BY <1>1 DEF ApprovalInv
  <2> QED BY <1>1, <2>1 DEF RequestOK, ApprovalInv
<1>5. \A i \in DOMAIN grants' : GrantOK(i)'
  BY <1>1 DEF ApprovalInv, GrantOK, NeedsOneShot
<1> QED BY <1>1, <1>3, <1>4, <1>5 DEF ApprovalInv

\* Time passing keeps the invariant.
LEMMA ApprovalClockKeeps ==
  ASSUME ApprovalInv, ApprovalClock
  PROVE  ApprovalInv'
BY DEF ApprovalInv, ApprovalClock, RequestOK, Matching, GrantOK, NeedsOneShot, PerformedOK, CarriedOK

\* Every step keeps what is known of requests, grants and what they carried.
LEMMA ApprovalInvStep == ApprovalInv /\ [ApprovalsNext]_approvalVars => ApprovalInv'
<1> SUFFICES ASSUME ApprovalInv, [ApprovalsNext]_approvalVars PROVE ApprovalInv'
  OBVIOUS
<1>1. CASE UNCHANGED approvalVars
  BY <1>1 DEF approvalVars, ApprovalInv, RequestOK, Matching, GrantOK, NeedsOneShot, PerformedOK, CarriedOK
<1>2. ASSUME NEW a \in Actions, PerformAllowed(a) PROVE ApprovalInv'
  BY <1>2, PerformAllowedKeeps
<1>3. ASSUME NEW a \in Actions, NEW id \in ApprovalIds, RequestApproval(a, id) PROVE ApprovalInv'
  BY <1>3, RequestApprovalKeeps
<1>4. ASSUME NEW a \in Actions, NEW id \in ApprovalIds, AuthorizeAction(id, a) PROVE ApprovalInv'
  BY <1>4, AuthorizeActionKeeps
<1>5. ASSUME NEW id \in pending, NEW once \in BOOLEAN, NEW t \in 1..MaxApprovalNow, NEW n \in ApprovalNonces,
             NEW granted \in BOOLEAN, ResolveRequest(id, [oneShot |-> once, useBy |-> t, nonce |-> n], granted)
      PROVE  ApprovalInv'
  <2>1. t \in Nat
    BY ApprovalsAssumption DEF ApprovalsAssumption
  <2> QED BY <1>5, <2>1, ResolveRequestKeeps
<1>6. CASE ChangePolicy
  BY <1>6, ChangePolicyKeeps
<1>7. CASE ApprovalClock
  BY <1>7, ApprovalClockKeeps
<1> QED BY <1>1, <1>2, <1>3, <1>4, <1>5, <1>6, <1>7 DEF ApprovalsNext

\* The invariant holds what the approvals promise.
LEMMA ApprovalInvIsSound == ApprovalInv => ApprovalsSound
<1> SUFFICES ASSUME ApprovalInv PROVE ApprovalsSound
  OBVIOUS
<1>1. DOMAIN performed = 1..Len(performed)
  BY DEF ApprovalInv
<1>2. ASSUME NEW k \in DOMAIN performed
      PROVE  /\ PerformedOK(performed[k])
             /\ performed[k].id = NoApproval \/ CarriedOK(performed[k])
  <2>1. PICK e : e = performed[k] /\ PerformedOK(e)
    BY <1>1 DEF ApprovalInv
  <2> QED BY <2>1 DEF PerformedOK
<1>3. ASSUME NEW id \in DOMAIN grants PROVE id # NoApproval
  BY ApprovalsAssumption DEF ApprovalInv, GrantOK, ApprovalsAssumption
<1>4. ASSUME NEW id \in DOMAIN grants, grants[id].oneShot PROVE Cardinality(Uses(id)) <= 1
  <2>1. CASE Uses(id) = {}
    BY <2>1, FS_EmptySet
  <2>2. ASSUME NEW k \in Uses(id) PROVE Cardinality(Uses(id)) <= 1
    <3>1. \A j \in Uses(id) : j \in 1..Len(performed) /\ performed[j].id = id
      BY <1>1 DEF Uses
    <3>2. \A j \in Uses(id) : j = k
      BY <1>4, <2>2, <3>1 DEF ApprovalInv
    <3>3. Uses(id) = {k}
      BY <2>2, <3>2
    <3>4. Cardinality({k}) = 1
      BY FS_Singleton
    <3> QED BY <3>3, <3>4
  <2> QED BY <2>1, <2>2
<1>5. ApprovalsCarryWhatWasAsked
  BY <1>2, <1>3, <1>4 DEF ApprovalsCarryWhatWasAsked, Uses, CarriedOK
<1>6. GrantsAreBound
  BY DEF GrantsAreBound, ApprovalInv, GrantOK
<1>7. ImpactIsApproved
  BY <1>2 DEF ImpactIsApproved, PerformedOK, CarriedOK
<1>8. DenialsHold
  BY <1>2 DEF DenialsHold, PerformedOK
<1> QED BY <1>5, <1>6, <1>7, <1>8 DEF ApprovalsSound

\* A one-shot approval carries one action, however long the run waits and whatever is retried; an
\* approval carries the plan and the policy version it was asked under, and no action of high impact
\* or a stranger's request runs without one (PolicyEngine, ApprovalBroker::{validate_grant, consume}).
THEOREM ApprovalsStaySound == AssistantSpec => []ApprovalsSound
<1>1. AssistantInit => ApprovalInv
  BY ApprovalInvInit DEF AssistantInit
<1>2. ApprovalInv /\ [AssistantNext]_assistantVars => ApprovalInv'
  BY ApprovalInvStep, FacultiesStep
<1> QED BY <1>1, <1>2, ApprovalInvIsSound, PTL DEF AssistantSpec

-----------------------------------------------------------------------------
(* Extensions                                                              *)

States == {"discovered", "configured", "enabled", "trusted", "disabled", "active", "failed"}
Records == [state : States, grant : SUBSET Caps, granted : BOOLEAN]
Installations == [manifest : Manifests, status : States, failed : BOOLEAN]
Entry(p, c) == [source |-> p, cap |-> c]
HookOf(p, h) == [source |-> p, hook |-> h]

\* The active plugins are those whose status says so; they are usable, and in force under the policy.
ActiveOK ==
  /\ DOMAIN active \subseteq Plugins
  /\ \A p \in Plugins : p \in DOMAIN active <=> plugin[p].status = "active"
  /\ \A p \in DOMAIN active : Usable(p)
  /\ policy # NoPolicy => \A p \in DOMAIN active : active[p] /\ p \in policy.allowed

\* What the index and the hooks hold of plugins is what the active ones contribute.
Contributed ==
  /\ \A e \in indexed : e.source \in Plugins =>
       e.source \in DOMAIN active /\ \E c \in plugin[e.source].manifest.caps : e = Entry(e.source, c)
  /\ \A p \in DOMAIN active : \A c \in plugin[p].manifest.caps : Entry(p, c) \in indexed
  /\ \A x \in hooks : x.source \in DOMAIN active /\ \E h \in plugin[x.source].manifest.hooks : x = HookOf(x.source, h)
  /\ \A p \in DOMAIN active : \A h \in plugin[p].manifest.hooks : HookOf(p, h) \in hooks

ProvidersOK ==
  /\ provider = [p \in Providers |-> provider[p]] /\ \A p \in Providers : provider[p] \in Records
  /\ plugin = [p \in Plugins |-> plugin[p]] /\ \A p \in Plugins : plugin[p] \in Installations

\* A tool that has a schema was discovered since its server was last switched off.
CallsOK ==
  /\ tools = [s \in Servers |-> tools[s]]
  /\ \A s \in Servers : \E t : /\ t = tools[s] /\ t = [schema |-> t.schema, digest |-> t.digest, fresh |-> t.fresh]
                               /\ t.schema # "none" => t.fresh
                               /\ t.digest # "none" => t.schema # "none"
  /\ \A c \in calls : c.target \in Servers => c.digest # "none"
  /\ CallsAreCurrent

ExtensionInv == ProvidersOK /\ ActiveOK /\ Contributed /\ CallsOK

\* The extensions start discovered, with nothing active.
LEMMA ExtensionInvInit == ExtensionsInit => ExtensionInv
<1> SUFFICES ASSUME ExtensionsInit PROVE ExtensionInv
  OBVIOUS
<1>1. ASSUME NEW p \in Plugins PROVE (CHOOSE m \in Manifests : m.plugin = p /\ m.first) \in Manifests
  BY ExtensionsAssumption DEF ExtensionsAssumption
<1>2. ProvidersOK
  BY <1>1 DEF ExtensionsInit, ProvidersOK, Records, Installations, States
<1>3. ActiveOK /\ Contributed
  BY DEF ExtensionsInit, ActiveOK, Contributed
<1>4. CallsOK
  BY DEF ExtensionsInit, CallsOK, CallsAreCurrent, NoTool
<1> QED BY <1>2, <1>3, <1>4 DEF ExtensionInv

\* A step that leaves the active plugins and what they contribute, and only touches
\* providers and installations that are not active, keeps both.
LEMMA ActiveKept ==
  ASSUME ActiveOK, Contributed, UNCHANGED <<active, policy, hooks>>,
         \A e \in indexed' \cup indexed : e.source \in Plugins => (e \in indexed' <=> e \in indexed),
         \A p \in Plugins : /\ plugin'[p].status = "active" <=> plugin[p].status = "active"
                            /\ p \in DOMAIN active => plugin'[p].manifest = plugin[p].manifest
                            /\ Usable(p) => Usable(p)' \/ p \notin DOMAIN active
  PROVE  ActiveOK' /\ Contributed'
<1>1. ActiveOK'
  BY DEF ActiveOK
<1>2. \A p, c : Entry(p, c).source = p
  BY DEF Entry
<1>3. \A e \in indexed' : e.source \in Plugins =>
        e.source \in DOMAIN active' /\ \E c \in plugin'[e.source].manifest.caps : e = Entry(e.source, c)
  BY DEF ActiveOK, Contributed
<1>4. \A p \in DOMAIN active' : \A c \in plugin'[p].manifest.caps : Entry(p, c) \in indexed'
  BY <1>2 DEF ActiveOK, Contributed
<1>5. /\ \A x \in hooks' : x.source \in DOMAIN active' /\ \E h \in plugin'[x.source].manifest.hooks : x = HookOf(x.source, h)
      /\ \A p \in DOMAIN active' : \A h \in plugin'[p].manifest.hooks : HookOf(p, h) \in hooks'
  BY DEF ActiveOK, Contributed
<1> QED BY <1>1, <1>3, <1>4, <1>5 DEF Contributed

\* The life cycle of a provider that is not usable yet.
LEMMA LifeCycleKeeps ==
  ASSUME ExtensionInv, NEW p \in Providers, Configure(p) \/ Enable(p) \/ BindTrust(p)
  PROVE  ExtensionInv'
<1>1. PICK s \in {"configured", "enabled", "trusted"} :
        /\ provider[p].state # "trusted" /\ provider' = [provider EXCEPT ![p].state = s]
        /\ Status(p, s) /\ UNCHANGED <<indexed, hooks, active, policy, callVars>>
  BY DEF Configure, Enable, BindTrust
<1>2. /\ provider' = [q \in Providers |-> provider'[q]]
      /\ \A q \in Providers \ {p} : provider'[q] = provider[q]
  BY <1>1 DEF ExtensionInv, ProvidersOK
<1>3. provider'[p] \in Records
  <2>1. PICK r : r = provider[p] /\ r \in Records
    BY DEF ExtensionInv, ProvidersOK
  <2>2. provider'[p] = [r EXCEPT !.state = s]
    BY <1>1, <2>1 DEF ExtensionInv, ProvidersOK
  <2> QED BY <2>1, <2>2 DEF Records, States
<1>4. ~Usable(p)
  BY <1>1 DEF Usable
<1>5. /\ plugin' = [q \in Plugins |-> plugin'[q]] /\ \A q \in Plugins : plugin'[q] \in Installations
      /\ \A q \in Plugins : /\ q # p => plugin'[q] = plugin[q]
                            /\ q = p => plugin'[q].status # "active"
  <2>1. CASE p \in Plugins
    <3>1. PICK i : i = plugin[p] /\ i \in Installations
      BY <2>1 DEF ExtensionInv, ProvidersOK
    <3>2. PICK j : j = [i EXCEPT !.status = s, !.failed = FALSE]
      OBVIOUS
    <3>3. j \in Installations /\ j.status = s
      BY <3>1, <3>2 DEF Installations, States
    <3>4. plugin' = [plugin EXCEPT ![p] = j]
      BY <1>1, <2>1, <3>1, <3>2 DEF Status, ExtensionInv, ProvidersOK
    <3> QED BY <2>1, <3>3, <3>4 DEF ExtensionInv, ProvidersOK
  <2>2. CASE p \notin Plugins
    BY <1>1, <2>2 DEF Status, ExtensionInv, ProvidersOK
  <2> QED BY <2>1, <2>2
<1>6. \A q \in Plugins : q # p => Usable(q)' = Usable(q)
  BY <1>2 DEF Usable, Providers
<1>7. p \in Plugins => p \notin DOMAIN active /\ plugin[p].status # "active"
  BY <1>4 DEF ExtensionInv, ActiveOK
<1>8. ActiveOK' /\ Contributed'
  BY <1>1, <1>5, <1>6, <1>7, ActiveKept DEF ExtensionInv
<1>9. ProvidersOK'
  BY <1>2, <1>3, <1>5 DEF ExtensionInv, ProvidersOK
<1>10. CallsOK'
  BY <1>1 DEF callVars, ExtensionInv, CallsOK, CallsAreCurrent
<1> QED BY <1>8, <1>9, <1>10 DEF ExtensionInv

\* A renewed grant keeps what is usable usable.
LEMMA GrantProviderKeeps ==
  ASSUME ExtensionInv, NEW p \in Providers, GrantProvider(p)
  PROVE  ExtensionInv'
<1>1. PICK g \in SUBSET Caps : provider' = [provider EXCEPT ![p].grant = g, ![p].granted = TRUE]
  BY DEF GrantProvider
<1>2. UNCHANGED <<indexed, pluginVars, callVars>> /\ provider[p].state = "trusted"
  BY DEF GrantProvider
<1>3. PICK r : r = provider[p] /\ r \in Records
  BY DEF ExtensionInv, ProvidersOK
<1>4. PICK n : n = [r EXCEPT !.grant = g, !.granted = TRUE]
  OBVIOUS
<1>5. n \in Records /\ n.state = r.state /\ n.granted
  BY <1>3, <1>4 DEF Records
<1>6. provider' = [provider EXCEPT ![p] = n]
  BY <1>1, <1>3, <1>4 DEF ExtensionInv, ProvidersOK
<1>7. ProvidersOK'
  BY <1>2, <1>5, <1>6 DEF ExtensionInv, ProvidersOK, pluginVars
<1>8. \A q \in Plugins : Usable(q) => Usable(q)'
  BY <1>2, <1>3, <1>5, <1>6 DEF Usable, Providers, ExtensionInv, ProvidersOK
<1>9. ActiveOK' /\ Contributed'
  BY <1>2, <1>8, ActiveKept DEF ExtensionInv, pluginVars
<1>10. CallsOK'
  BY <1>2 DEF callVars, ExtensionInv, CallsOK, CallsAreCurrent
<1> QED BY <1>7, <1>9, <1>10 DEF ExtensionInv

\* A plugin switched off takes what it contributed with it.
LEMMA TurnedOffKeeps ==
  ASSUME ExtensionInv, NEW p \in Plugins, DisablePlugin(p) \/ MarkFailed(p)
  PROVE  ExtensionInv'
<1>1. /\ provider' = TurnedOff(p) /\ Retire(p) /\ UNCHANGED <<policy, callVars>>
      /\ \E s \in {"disabled", "failed"}, b \in BOOLEAN : plugin' = [plugin EXCEPT ![p].status = s, ![p].failed = b]
  BY DEF DisablePlugin, MarkFailed, Status
<1>2. PICK s \in {"disabled", "failed"}, b \in BOOLEAN : plugin' = [plugin EXCEPT ![p].status = s, ![p].failed = b]
  BY <1>1
<1>3. PICK i : i = plugin[p] /\ i \in Installations
  BY DEF ExtensionInv, ProvidersOK
<1>4. PICK j : j = [i EXCEPT !.status = s, !.failed = b]
  OBVIOUS
<1>5. j \in Installations /\ j.status # "active"
  BY <1>3, <1>4 DEF Installations, States
<1>6. plugin' = [plugin EXCEPT ![p] = j]
  BY <1>2, <1>3, <1>4 DEF ExtensionInv, ProvidersOK
<1>7. /\ plugin' = [q \in Plugins |-> plugin'[q]] /\ \A q \in Plugins : plugin'[q] \in Installations
      /\ \A q \in Plugins \ {p} : plugin'[q] = plugin[q]
      /\ plugin'[p].status # "active"
  BY <1>5, <1>6 DEF ExtensionInv, ProvidersOK
<1>8. /\ provider' = [q \in Providers |-> provider'[q]] /\ \A q \in Providers : provider'[q] \in Records
      /\ \A q \in Providers \ {p} : provider'[q] = provider[q]
  BY <1>1 DEF TurnedOff, ExtensionInv, ProvidersOK, Records, States, Providers
<1>9. /\ DOMAIN active' = DOMAIN active \ {p} /\ \A q \in DOMAIN active' : active'[q] = active[q]
      /\ indexed' = Without(indexed, p) /\ hooks' = Without(hooks, p)
  BY <1>1 DEF Retire
<1>10. \A q \in Plugins \ {p} : Usable(q)' = Usable(q)
  BY <1>8 DEF Usable, Providers
<1>11. ActiveOK'
  BY <1>1, <1>7, <1>9, <1>10 DEF ExtensionInv, ActiveOK
<1>12. \A e \in indexed' : e.source \in Plugins =>
         e.source \in DOMAIN active' /\ \E c \in plugin'[e.source].manifest.caps : e = Entry(e.source, c)
  BY <1>7, <1>9 DEF ExtensionInv, Contributed, Without
<1>13. \A q \in DOMAIN active' : \A c \in plugin'[q].manifest.caps : Entry(q, c) \in indexed'
  <2>1. \A q, c : Entry(q, c).source = q
    BY DEF Entry
  <2> QED BY <1>7, <1>9, <2>1 DEF ExtensionInv, ActiveOK, Contributed, Without
<1>14. \A x \in hooks' : x.source \in DOMAIN active' /\ \E h \in plugin'[x.source].manifest.hooks : x = HookOf(x.source, h)
  BY <1>7, <1>9 DEF ExtensionInv, ActiveOK, Contributed, Without
<1>15. \A q \in DOMAIN active' : \A h \in plugin'[q].manifest.hooks : HookOf(q, h) \in hooks'
  <2>1. \A q, h : HookOf(q, h).source = q
    BY DEF HookOf
  <2> QED BY <1>7, <1>9, <2>1 DEF ExtensionInv, ActiveOK, Contributed, Without
<1>16. CallsOK'
  BY <1>1 DEF callVars, ExtensionInv, CallsOK, CallsAreCurrent
<1> QED BY <1>7, <1>8, <1>11, <1>12, <1>13, <1>14, <1>15, <1>16 DEF ExtensionInv, ProvidersOK, Contributed

\* The manifest a plugin is staged from is one of those known.
LEMMA ManifestKnown ==
  ASSUME ProvidersOK, NEW p \in Plugins, NEW replacement \in SUBSET Manifests
  PROVE  ManifestOf(p, replacement) \in Manifests
BY DEF ManifestOf, ProvidersOK, Installations

\* Activating a set of usable plugins that the policy allows replaces what all plugins contributed.
LEMMA CommitKeeps ==
  ASSUME ExtensionInv, NEW ps \in SUBSET Plugins, \A p \in ps : Usable(p), NEW replacement \in SUBSET Manifests,
         NEW managed, Commit(ps, replacement, managed), UNCHANGED <<provider, callVars>>,
         policy' # NoPolicy => managed = TRUE /\ \A p \in ps : p \in policy'.allowed
  PROVE  ExtensionInv'
<1>1. PICK M : M = [p \in Plugins |-> ManifestOf(p, replacement)]
  OBVIOUS
<1>2. \A p \in Plugins : M[p] = ManifestOf(p, replacement) /\ M[p] \in Manifests
  BY <1>1, ManifestKnown DEF ExtensionInv
<1>3. /\ active' = [p \in ps |-> managed]
      /\ plugin' = [p \in Plugins |->
                      IF p \in ps THEN [manifest |-> M[p], status |-> "active", failed |-> FALSE]
                      ELSE IF plugin[p].status = "active" THEN [plugin[p] EXCEPT !.status = "trusted"]
                      ELSE plugin[p]]
  BY <1>2 DEF Commit
<1>4. \A e : e \in indexed' <=> \/ e \in indexed /\ e.source \in Servers \cup Connectors
                                \/ \E p \in ps : \E c \in M[p].caps : e = Entry(p, c)
  BY <1>2 DEF Commit, Entry
<1>5. \A x : x \in hooks' <=> \E p \in ps : \E h \in M[p].hooks : x = HookOf(p, h)
  BY <1>2 DEF Commit, HookOf
<1>6. plugin' = [p \in Plugins |-> plugin'[p]]
  BY <1>3
<1>7. ASSUME NEW p \in Plugins
      PROVE  /\ plugin'[p] \in Installations /\ (p \in ps <=> plugin'[p].status = "active")
             /\ p \in ps => plugin'[p].manifest = M[p]
  <2>1. CASE p \in ps
    BY <1>2, <1>3, <2>1 DEF Installations, States
  <2>2. CASE p \notin ps
    <3>1. PICK i : i = plugin[p] /\ i \in Installations
      BY DEF ExtensionInv, ProvidersOK
    <3>2. PICK j : j = [i EXCEPT !.status = "trusted"]
      OBVIOUS
    <3>3. j \in Installations /\ j.status = "trusted"
      BY <3>1, <3>2 DEF Installations, States
    <3>4. plugin'[p] = IF i.status = "active" THEN j ELSE i
      BY <1>3, <2>2, <3>1, <3>2
    <3> QED BY <2>2, <3>1, <3>3, <3>4
  <2> QED BY <2>1, <2>2
<1>8. ProvidersOK'
  BY <1>6, <1>7 DEF ExtensionInv, ProvidersOK
<1>9. \A p \in ps : Usable(p)'
  BY DEF Usable
<1>10. ActiveOK'
  BY <1>3, <1>7, <1>9 DEF ActiveOK
<1>11. \A p, c : Entry(p, c).source = p
  BY DEF Entry
<1>12. \A p, h : HookOf(p, h).source = p
  BY DEF HookOf
<1>13. DOMAIN active' = ps
  BY <1>3
<1>14. ASSUME NEW e \in indexed', e.source \in Plugins
       PROVE  e.source \in DOMAIN active' /\ \E c \in plugin'[e.source].manifest.caps : e = Entry(e.source, c)
  <2>1. e.source \notin Servers \cup Connectors
    BY <1>14, ExtensionsAssumption DEF ExtensionsAssumption
  <2>2. PICK p \in ps : \E c \in M[p].caps : e = Entry(p, c)
    BY <1>4, <1>14, <2>1
  <2>3. e.source = p
    BY <1>11, <2>2
  <2> QED BY <1>7, <1>13, <2>2, <2>3
<1>15. \A p \in DOMAIN active' : \A c \in plugin'[p].manifest.caps : Entry(p, c) \in indexed'
  BY <1>4, <1>7, <1>13
<1>16. ASSUME NEW x \in hooks'
       PROVE  x.source \in DOMAIN active' /\ \E h \in plugin'[x.source].manifest.hooks : x = HookOf(x.source, h)
  <2>1. PICK p \in ps : \E h \in M[p].hooks : x = HookOf(p, h)
    BY <1>5, <1>16
  <2>2. x.source = p
    BY <1>12, <2>1
  <2> QED BY <1>7, <1>13, <2>1, <2>2
<1>17. \A p \in DOMAIN active' : \A h \in plugin'[p].manifest.hooks : HookOf(p, h) \in hooks'
  BY <1>5, <1>7, <1>13
<1>18. CallsOK'
  BY DEF callVars, ExtensionInv, CallsOK, CallsAreCurrent
<1> QED BY <1>8, <1>10, <1>14, <1>15, <1>16, <1>17, <1>18 DEF ExtensionInv, Contributed

\* An activation or a reload that is refused changes no more than the note of its failure.
LEMMA RefusedKeeps ==
  ASSUME ExtensionInv, UNCHANGED <<provider, indexed, hooks, active, policy, callVars>>,
         plugin' = [p \in Plugins |-> plugin'[p]],
         \A p \in Plugins : \E i, b : i = plugin[p] /\ b \in BOOLEAN /\ plugin'[p] = [i EXCEPT !.failed = b]
  PROVE  ExtensionInv'
<1>1. ASSUME NEW p \in Plugins
      PROVE  plugin'[p] \in Installations /\ plugin'[p].status = plugin[p].status /\ plugin'[p].manifest = plugin[p].manifest
  <2>1. PICK i, b : i = plugin[p] /\ b \in BOOLEAN /\ plugin'[p] = [i EXCEPT !.failed = b]
    OBVIOUS
  <2>2. i \in Installations
    BY <2>1 DEF ExtensionInv, ProvidersOK
  <2> QED BY <2>1, <2>2 DEF Installations
<1>2. ProvidersOK'
  BY <1>1 DEF ExtensionInv, ProvidersOK
<1>3. \A p \in Plugins : Usable(p)' = Usable(p)
  BY DEF Usable
<1>4. ActiveOK' /\ Contributed'
  BY <1>1, <1>3, ActiveKept DEF ExtensionInv
<1>5. CallsOK'
  BY DEF callVars, ExtensionInv, CallsOK, CallsAreCurrent
<1> QED BY <1>2, <1>4, <1>5 DEF ExtensionInv

\* Plugins activated without a policy.
LEMMA ActivateKeeps ==
  ASSUME ExtensionInv, NEW allowed \in SUBSET Plugins, Activate(allowed)
  PROVE  ExtensionInv'
<1>1. /\ Resolved(allowed) \in SUBSET Plugins /\ \A p \in Resolved(allowed) : Usable(p)
  BY DEF Resolved
<1>2. Commit(Resolved(allowed), {}, FALSE) /\ UNCHANGED <<provider, callVars>> /\ policy' = NoPolicy
  BY DEF Activate
<1> QED BY <1>1, <1>2, CommitKeeps

\* A reload, staged or refused, is no way around the policy: under it no active plugin is unmanaged.
LEMMA ReloadKeeps ==
  ASSUME ExtensionInv, NEW m \in Manifests, NEW allowed \in SUBSET Plugins, Reload(m, allowed)
  PROVE  ExtensionInv'
<1>1. m.plugin \in Plugins
  BY ExtensionsAssumption DEF ExtensionsAssumption
<1>2. CASE Reloadable(m.plugin) /\ Stageable(Resolved(allowed), {m})
  <2>1. Commit(Resolved(allowed), {m}, FALSE) /\ UNCHANGED <<provider, policy, callVars>>
    BY <1>2 DEF Reload
  <2>2. policy' = NoPolicy
    BY <1>1, <1>2, <2>1 DEF Reloadable, ExtensionInv, ActiveOK
  <2>3. Resolved(allowed) \in SUBSET Plugins /\ \A p \in Resolved(allowed) : Usable(p)
    BY DEF Resolved
  <2> QED BY <2>1, <2>2, <2>3, CommitKeeps
<1>3. CASE ~(Reloadable(m.plugin) /\ Stageable(Resolved(allowed), {m}))
  <2>1. plugin' = [plugin EXCEPT ![m.plugin].failed = TRUE] /\ UNCHANGED <<provider, indexed, hooks, active, policy, callVars>>
    BY <1>3 DEF Reload
  <2>2. plugin' = [p \in Plugins |-> plugin'[p]]
    BY <2>1 DEF ExtensionInv, ProvidersOK
  <2>3. ASSUME NEW p \in Plugins
        PROVE \E i, b : i = plugin[p] /\ b \in BOOLEAN /\ plugin'[p] = [i EXCEPT !.failed = b]
    <3>1. PICK i : i = plugin[p] /\ i \in Installations
      BY DEF ExtensionInv, ProvidersOK
    <3>2. CASE p = m.plugin
      BY <2>1, <3>1, <3>2 DEF ExtensionInv, ProvidersOK
    <3>3. CASE p # m.plugin
      <4>1. plugin'[p] = i
        BY <2>1, <3>1, <3>3 DEF ExtensionInv, ProvidersOK
      <4>2. i = [i EXCEPT !.failed = i.failed] /\ i.failed \in BOOLEAN
        BY <3>1 DEF Installations
      <4> QED BY <3>1, <4>1, <4>2
    <3> QED BY <3>2, <3>3
  <2> QED BY <2>1, <2>2, <2>3, RefusedKeeps
<1> QED BY <1>2, <1>3

\* A managed activation or reload, accepted or refused.
LEMMA ActivateManagedKeeps ==
  ASSUME ExtensionInv, NEW next, NEW replacement \in SUBSET Manifests, NEW bound,
         ActivateManaged(next, Plugins, replacement, bound)
  PROVE  ExtensionInv'
<1> DEFINE ps == Resolved(Plugins) \cap next.allowed
<1>1. ps \in SUBSET Plugins /\ \A p \in ps : Usable(p)
  BY DEF Resolved
<1>2. UNCHANGED <<provider, callVars>>
  BY DEF ActivateManaged
<1>3. \A p \in ps : p \in next.allowed
  OBVIOUS
<1>4. \/ Commit(ps, replacement, TRUE) /\ policy' = next
      \/ /\ plugin' = [p \in Plugins |-> [plugin[p] EXCEPT !.failed = @ \/ \E m \in replacement : m.plugin = p]]
         /\ UNCHANGED <<indexed, hooks, active, policy>>
  BY DEF ActivateManaged
<1> HIDE DEF ps
<1>5. CASE Commit(ps, replacement, TRUE) /\ policy' = next
  BY <1>1, <1>2, <1>3, <1>5, CommitKeeps
<1>6. CASE /\ plugin' = [p \in Plugins |-> [plugin[p] EXCEPT !.failed = @ \/ \E m \in replacement : m.plugin = p]]
           /\ UNCHANGED <<indexed, hooks, active, policy>>
  <2>1. plugin' = [p \in Plugins |-> plugin'[p]]
    BY <1>6
  <2>2. ASSUME NEW p \in Plugins
        PROVE \E i, b : i = plugin[p] /\ b \in BOOLEAN /\ plugin'[p] = [i EXCEPT !.failed = b]
    <3>1. PICK i : i = plugin[p] /\ i \in Installations
      BY DEF ExtensionInv, ProvidersOK
    <3>2. PICK b \in BOOLEAN : b <=> (i.failed \/ \E m \in replacement : m.plugin = p)
      OBVIOUS
    <3>3. plugin'[p] = [i EXCEPT !.failed = i.failed \/ \E m \in replacement : m.plugin = p]
      BY <1>6, <3>1
    <3>4. (i.failed \/ \E m \in replacement : m.plugin = p) = b
      BY <3>1, <3>2 DEF Installations
    <3> QED BY <3>1, <3>3, <3>4
  <2> QED BY <1>2, <1>6, <2>1, <2>2, RefusedKeeps
<1> QED BY <1>4, <1>5, <1>6

\* A step of calls that leaves providers of plugins, and what plugins contribute, alone.
LEMMA PluginsUntouched ==
  ASSUME ProvidersOK, ActiveOK, Contributed, UNCHANGED pluginVars,
         \A e \in indexed' \cup indexed : e.source \in Plugins => (e \in indexed' <=> e \in indexed),
         \A p \in Plugins : provider'[p] = provider[p]
  PROVE  ActiveOK' /\ Contributed'
<1>1. \A p \in Plugins : Usable(p)' = Usable(p)
  BY DEF Usable
<1> QED BY <1>1, ActiveKept DEF pluginVars

\* What a provider's record may become when it is switched off.
LEMMA ProviderOff ==
  ASSUME ProvidersOK, NEW p \in Servers \cup Connectors, provider' = TurnedOff(p) \/ provider' = provider, UNCHANGED pluginVars
  PROVE  ProvidersOK' /\ \A q \in Plugins : provider'[q] = provider[q]
<1>1. p \notin Plugins
  BY ExtensionsAssumption DEF ExtensionsAssumption
<1>2. provider' = [q \in Providers |-> provider'[q]] /\ \A q \in Providers : provider'[q] \in Records
  <2>1. CASE provider' = provider
    BY <2>1 DEF ProvidersOK
  <2>2. CASE provider' = TurnedOff(p)
    BY <2>2 DEF TurnedOff, ProvidersOK, Records, States, Providers
  <2> QED BY <2>1, <2>2
<1>3. \A q \in Plugins : provider'[q] = provider[q]
  BY <1>1 DEF TurnedOff, ProvidersOK, Providers
<1> QED BY <1>2, <1>3 DEF ProvidersOK, pluginVars

\* A discovery, and the schema bound when a tool is selected.
LEMMA ToolsKeep ==
  ASSUME ExtensionInv, NEW s \in Servers, Discover(s) \/ ResolveSchema(s)
  PROVE  ExtensionInv'
<1>1. UNCHANGED <<provider, indexed, pluginVars, revoked, calls, executed>>
  BY DEF Discover, ResolveSchema
<1>2. PICK t : /\ t = tools[s] /\ t = [schema |-> t.schema, digest |-> t.digest, fresh |-> t.fresh]
               /\ t.schema # "none" => t.fresh
               /\ t.digest # "none" => t.schema # "none"
  BY DEF ExtensionInv, CallsOK
<1>3. \E u : /\ tools' = [tools EXCEPT ![s] = u] /\ u = [schema |-> u.schema, digest |-> u.digest, fresh |-> u.fresh]
             /\ u.schema # "none" => u.fresh
             /\ u.digest # "none" => u.schema # "none"
  <2>1. CASE tools' = [tools EXCEPT ![s] = NoTool]
    <3>1. PICK u : u = NoTool
      OBVIOUS
    <3>2. u = [schema |-> u.schema, digest |-> u.digest, fresh |-> u.fresh] /\ u.schema = "none" /\ u.digest = "none"
      BY <3>1 DEF NoTool
    <3> QED BY <2>1, <3>1, <3>2
  <2>2. CASE tools' = [tools EXCEPT ![s] = [schema |-> offered[s], digest |-> "none", fresh |-> TRUE]]
    <3>1. PICK u : u = [schema |-> offered[s], digest |-> "none", fresh |-> TRUE]
      OBVIOUS
    <3>2. u = [schema |-> u.schema, digest |-> u.digest, fresh |-> u.fresh] /\ u.fresh /\ u.digest = "none"
      BY <3>1
    <3> QED BY <2>2, <3>1, <3>2
  <2>3. CASE ResolveSchema(s)
    <3>1. PICK u : u = [schema |-> t.schema, digest |-> t.schema, fresh |-> t.fresh]
      OBVIOUS
    <3>2. tools' = [tools EXCEPT ![s] = u]
      <4>1. tools' = [tools EXCEPT ![s].digest = tools[s].schema] /\ s \in DOMAIN tools
        BY <2>3 DEF ResolveSchema, ExtensionInv, CallsOK
      <4>2. u = [t EXCEPT !.digest = t.schema]
        BY <1>2, <3>1
      <4>3. tools' = [tools EXCEPT ![s] = [t EXCEPT !.digest = t.schema]]
        BY <1>2, <4>1
      <4> QED BY <4>2, <4>3
    <3>3. u = [schema |-> u.schema, digest |-> u.digest, fresh |-> u.fresh] /\ u.schema = t.schema /\ u.fresh = t.fresh
      BY <3>1
    <3>4. t.schema # "none"
      BY <1>2, <2>3 DEF ResolveSchema
    <3> QED BY <1>2, <3>2, <3>3, <3>4
  <2> QED BY <2>1, <2>2, <2>3 DEF Discover
<1>4. CallsOK'
  <2>1. PICK u : /\ tools' = [tools EXCEPT ![s] = u] /\ u = [schema |-> u.schema, digest |-> u.digest, fresh |-> u.fresh]
                 /\ u.schema # "none" => u.fresh
                 /\ u.digest # "none" => u.schema # "none"
    BY <1>3
  <2>2. /\ tools' = [q \in Servers |-> tools'[q]] /\ tools'[s] = u
        /\ \A q \in Servers \ {s} : tools'[q] = tools[q]
    BY <2>1 DEF ExtensionInv, CallsOK
  <2>3. ASSUME NEW q \in Servers
        PROVE \E v : /\ v = tools'[q] /\ v = [schema |-> v.schema, digest |-> v.digest, fresh |-> v.fresh]
                     /\ v.schema # "none" => v.fresh
                     /\ v.digest # "none" => v.schema # "none"
    <3>1. CASE q = s
      BY <2>1, <2>2, <3>1
    <3>2. CASE q # s
      BY <2>2, <3>2 DEF ExtensionInv, CallsOK
    <3> QED BY <3>1, <3>2
  <2> QED BY <1>1, <2>2, <2>3 DEF ExtensionInv, CallsOK, CallsAreCurrent
<1>5. ActiveOK' /\ Contributed'
  BY <1>1, PluginsUntouched DEF ExtensionInv
<1>6. ProvidersOK'
  BY <1>1 DEF ExtensionInv, ProvidersOK, pluginVars
<1> QED BY <1>4, <1>5, <1>6 DEF ExtensionInv

\* A server switched off loses what was discovered of it.
LEMMA DisableServerKeeps ==
  ASSUME ExtensionInv, NEW s \in Servers, DisableServer(s)
  PROVE  ExtensionInv'
<1>1. /\ provider' = TurnedOff(s) /\ tools' = [tools EXCEPT ![s] = NoTool]
      /\ UNCHANGED <<indexed, pluginVars, offered, revoked, calls, executed>>
  BY DEF DisableServer, Forget
<1>2. ProvidersOK' /\ \A q \in Plugins : provider'[q] = provider[q]
  BY <1>1, ProviderOff DEF ExtensionInv
<1>3. ActiveOK' /\ Contributed'
  BY <1>1, <1>2, PluginsUntouched DEF ExtensionInv
<1>4. /\ tools' = [q \in Servers |-> tools'[q]] /\ tools'[s] = NoTool
      /\ \A q \in Servers \ {s} : tools'[q] = tools[q]
  BY <1>1 DEF ExtensionInv, CallsOK
<1>5. ASSUME NEW q \in Servers
      PROVE \E v : /\ v = tools'[q] /\ v = [schema |-> v.schema, digest |-> v.digest, fresh |-> v.fresh]
                   /\ v.schema # "none" => v.fresh
                   /\ v.digest # "none" => v.schema # "none"
  <2>1. CASE q = s
    BY <1>4, <2>1 DEF NoTool
  <2>2. CASE q # s
    BY <1>4, <2>2 DEF ExtensionInv, CallsOK
  <2> QED BY <2>1, <2>2
<1>6. CallsOK'
  BY <1>1, <1>4, <1>5 DEF ExtensionInv, CallsOK, CallsAreCurrent
<1> QED BY <1>2, <1>3, <1>6 DEF ExtensionInv

\* A connector revoked, and a schema that its server changes.
LEMMA OutsideKeeps ==
  ASSUME ExtensionInv, (\E a \in Connectors : RevokeConnector(a)) \/ (\E s \in Servers : ChangeSchema(s))
  PROVE  ExtensionInv'
<1>1. UNCHANGED <<indexed, pluginVars, tools, calls, executed>>
  BY DEF RevokeConnector, ChangeSchema
<1>2. ProvidersOK' /\ \A q \in Plugins : provider'[q] = provider[q]
  <2>1. ASSUME NEW a \in Connectors, RevokeConnector(a) PROVE ProvidersOK' /\ \A q \in Plugins : provider'[q] = provider[q]
    <3>1. provider' = TurnedOff(a) \/ provider' = provider
      BY <2>1 DEF RevokeConnector
    <3> QED BY <1>1, <3>1, ProviderOff DEF ExtensionInv
  <2>2. ASSUME NEW s \in Servers, ChangeSchema(s) PROVE ProvidersOK' /\ \A q \in Plugins : provider'[q] = provider[q]
    BY <2>2, <1>1 DEF ChangeSchema, ExtensionInv, ProvidersOK, pluginVars
  <2> QED BY <2>1, <2>2
<1>3. ActiveOK' /\ Contributed'
  BY <1>1, <1>2, PluginsUntouched DEF ExtensionInv
<1>4. CallsOK'
  BY <1>1 DEF ExtensionInv, CallsOK, CallsAreCurrent
<1> QED BY <1>2, <1>3, <1>4 DEF ExtensionInv

\* A call prepared for what is usable, and executed after the recheck.
LEMMA CallKeeps ==
  ASSUME ExtensionInv, (\E t \in Servers \cup Connectors : PrepareCall(t)) \/ (\E c \in calls : ExecuteCall(c))
  PROVE  ExtensionInv'
<1>1. UNCHANGED <<provider, indexed, pluginVars, offered, tools, revoked>>
  BY DEF PrepareCall, ExecuteCall
<1>2. ProvidersOK'
  BY <1>1 DEF ExtensionInv, ProvidersOK, pluginVars
<1>3. ActiveOK' /\ Contributed'
  BY <1>1, PluginsUntouched DEF ExtensionInv
<1>4. ASSUME NEW t \in Servers \cup Connectors, PrepareCall(t) PROVE CallsOK'
  <2>1. PICK c : /\ c = [target |-> t, digest |-> IF t \in Servers THEN tools[t].digest ELSE "fixed"]
                 /\ calls' = calls \cup {c} /\ UNCHANGED executed
    BY <1>4 DEF PrepareCall
  <2>2. PICK d : d = IF t \in Servers THEN tools[t].digest ELSE "fixed"
    OBVIOUS
  <2>3. c.target = t /\ c.digest = d /\ d # "none"
    <3>1. t \in Servers => tools[t].digest # "none"
      BY <1>4, ExtensionsAssumption DEF PrepareCall, ExtensionsAssumption
    <3> QED BY <2>1, <2>2, <3>1
  <2> QED BY <1>1, <2>1, <2>3 DEF ExtensionInv, CallsOK, CallsAreCurrent
<1>5. ASSUME NEW c \in calls, ExecuteCall(c) PROVE CallsOK'
  <2>1. PICK e : /\ e = [target |-> c.target, revoked |-> c.target \in revoked, fresh |-> c.target \in Servers => tools[c.target].fresh]
                 /\ executed' = executed \cup {e} /\ calls' = calls \ {c}
    BY <1>5 DEF ExecuteCall
  <2>2. c.target \in Servers => tools[c.target].fresh
    BY <1>5 DEF ExecuteCall, Rechecked, ExtensionInv, CallsOK
  <2>3. c.target \notin revoked
    BY <1>5 DEF ExecuteCall, Rechecked
  <2>4. e.fresh /\ ~e.revoked
    BY <2>1, <2>2, <2>3
  <2> QED BY <1>1, <2>1, <2>4 DEF ExtensionInv, CallsOK, CallsAreCurrent
<1> QED BY <1>2, <1>3, <1>4, <1>5 DEF ExtensionInv

\* Indexing servers and connectors leaves what plugins contribute.
LEMMA IndexKeeps ==
  ASSUME ExtensionInv, NEW ps \in {Servers, Connectors}, NEW allowed, IndexProviders(ps, allowed)
  PROVE  ExtensionInv'
<1>1. UNCHANGED <<provider, pluginVars, callVars>>
  BY DEF IndexProviders
<1>2. \A e \in indexed' \cup indexed : e.source \in Plugins => (e \in indexed' <=> e \in indexed)
  BY ExtensionsAssumption DEF IndexProviders, ExtensionsAssumption
<1>3. ActiveOK' /\ Contributed'
  BY <1>1, <1>2, PluginsUntouched DEF ExtensionInv
<1>4. ProvidersOK' /\ CallsOK'
  BY <1>1 DEF ExtensionInv, ProvidersOK, pluginVars, callVars, CallsOK, CallsAreCurrent
<1> QED BY <1>3, <1>4 DEF ExtensionInv

\* Every step keeps the surface, the policy and the calls right.
LEMMA ExtensionInvStep == ExtensionInv /\ [PluginNext \/ CallNext]_extensionVars => ExtensionInv'
<1> SUFFICES ASSUME ExtensionInv, [PluginNext \/ CallNext]_extensionVars PROVE ExtensionInv'
  OBVIOUS
<1>1. CASE UNCHANGED extensionVars
  BY <1>1 DEF extensionVars, ExtensionInv, ProvidersOK, ActiveOK, Usable, Contributed, CallsOK, CallsAreCurrent
<1>2. CASE PluginNext
  <2>1. ASSUME NEW p \in Plugins, \/ Configure(p) \/ Enable(p) \/ BindTrust(p) \/ GrantProvider(p)
                                  \/ DisablePlugin(p) \/ MarkFailed(p)
        PROVE  ExtensionInv'
    BY <2>1, LifeCycleKeeps, GrantProviderKeeps, TurnedOffKeeps DEF Providers
  <2>2. ASSUME NEW allowed \in SUBSET Plugins, Activate(allowed) PROVE ExtensionInv'
    BY <2>2, ActivateKeeps
  <2>3. ASSUME NEW m \in Manifests, NEW allowed \in SUBSET Plugins, Reload(m, allowed) PROVE ExtensionInv'
    BY <2>3, ReloadKeeps
  <2>4. ASSUME NEW v \in 1..MaxPolicyVersion, NEW ok \in SUBSET Plugins, NEW replacement \in {{}} \cup {{m} : m \in Manifests},
               NEW bound, ActivateManaged([version |-> v, allowed |-> ok], Plugins, replacement, bound)
        PROVE  ExtensionInv'
    <3>1. replacement \in SUBSET Manifests
      OBVIOUS
    <3> QED BY <2>4, <3>1, ActivateManagedKeeps
  <2> QED BY <1>2, <2>1, <2>2, <2>3, <2>4 DEF PluginNext
<1>3. CASE CallNext
  <2>1. ASSUME NEW p \in Servers \cup Connectors, Configure(p) \/ Enable(p) \/ BindTrust(p) \/ GrantProvider(p)
        PROVE  ExtensionInv'
    BY <2>1, LifeCycleKeeps, GrantProviderKeeps DEF Providers
  <2>2. ASSUME NEW s \in Servers, Discover(s) \/ ResolveSchema(s) \/ DisableServer(s) PROVE ExtensionInv'
    BY <2>2, ToolsKeep, DisableServerKeeps
  <2>3. ASSUME NEW ps \in {Servers, Connectors}, NEW allowed \in SUBSET (Servers \cup Connectors), IndexProviders(ps, allowed)
        PROVE  ExtensionInv'
    BY <2>3, IndexKeeps
  <2> QED BY <1>3, <2>1, <2>2, <2>3, OutsideKeeps, CallKeeps DEF CallNext
<1> QED BY <1>1, <1>2, <1>3

\* The invariant holds what the extensions promise.
LEMMA ExtensionInvIsSound == ExtensionInv => ExtensionsSound
<1> SUFFICES ASSUME ExtensionInv PROVE ExtensionsSound
  OBVIOUS
<1>1. \A p, c : Entry(p, c).source = p /\ Entry(p, c).cap = c
  BY DEF Entry
<1>2. ASSUME NEW p \in Plugins
      PROVE  {e.cap : e \in {x \in indexed : x.source = p}} = IF p \in DOMAIN active THEN plugin[p].manifest.caps ELSE {}
  <2>1. CASE p \in DOMAIN active
    <3>1. \A c \in plugin[p].manifest.caps : c \in {e.cap : e \in {x \in indexed : x.source = p}}
      BY <1>1, <2>1 DEF ExtensionInv, Contributed
    <3>2. \A e \in indexed : e.source = p => e.cap \in plugin[p].manifest.caps
      BY <1>1, <1>2 DEF ExtensionInv, Contributed
    <3> QED BY <2>1, <3>1, <3>2
  <2>2. CASE p \notin DOMAIN active
    BY <1>2, <2>2 DEF ExtensionInv, Contributed
  <2> QED BY <2>1, <2>2
<1>3. hooks = UNION {{[source |-> p, hook |-> h] : h \in plugin[p].manifest.hooks} : p \in DOMAIN active}
  <2>1. \A x : x \in UNION {{[source |-> p, hook |-> h] : h \in plugin[p].manifest.hooks} : p \in DOMAIN active}
               <=> \E p \in DOMAIN active : \E h \in plugin[p].manifest.hooks : x = HookOf(p, h)
    BY DEF HookOf
  <2>2. \A x : x \in hooks <=> \E p \in DOMAIN active : \E h \in plugin[p].manifest.hooks : x = HookOf(p, h)
    BY DEF ExtensionInv, Contributed
  <2> HIDE DEF HookOf
  <2> QED BY <2>1, <2>2
<1>4. SurfaceIsActive
  BY <1>2, <1>3 DEF SurfaceIsActive, ExtensionInv, ActiveOK
<1>5. PluginsFollowPolicy /\ CallsAreCurrent
  BY DEF PluginsFollowPolicy, ExtensionInv, ActiveOK, CallsOK
<1> QED BY <1>4, <1>5 DEF ExtensionsSound

\* What a model sees of plugins is what the active ones contribute, a managed policy has no way
\* around it, and no call runs on a tool forgotten or a connector revoked since it was prepared
\* (SnapshotRegistry, ManagedPluginPolicy, McpRegistry::recheck, AppApiRegistry::revoke).
THEOREM ExtensionsStaySound == AssistantSpec => []ExtensionsSound
<1>1. AssistantInit => ExtensionInv
  BY ExtensionInvInit DEF AssistantInit
<1>2. ExtensionInv /\ [AssistantNext]_assistantVars => ExtensionInv'
  BY ExtensionInvStep, FacultiesStep
<1> QED BY <1>1, <1>2, ExtensionInvIsSound, PTL DEF AssistantSpec

-----------------------------------------------------------------------------
(* What folding a log gives                                                *)

\* A set of numbers has a least one.
LEMMA LeastOf ==
  ASSUME NEW S, S \subseteq Nat, S # {}
  PROVE  \E m \in S : \A n \in S : m <= n
<1>1. PICK m \in S : \A n \in S : ~ (<<n, m>> \in OpToRel(<, Nat))
  BY NatLessThanWellFounded, WFMin
<1>2. \A n \in S : ~ (n < m)
  BY <1>1 DEF OpToRel
<1> QED BY <1>2

\* The folds of the assistant: the lineage, the candidates, the cognition, the governed events, the cost
\* of items, the building of a context, the filing of events by their runs, the resource graph, and the intention of
\* a handle that knows some events.
FoldStep(view, known, s, e) ==
  IF view = "lineage" THEN LineageStep(s, e)
  ELSE IF view = "candidates" THEN FoldCandidate(s, e)
  ELSE IF view = "cognition" THEN FoldCognition(s, e)
  ELSE IF view = "governed" THEN (IF known[e] THEN Append(s, e) ELSE s)
  ELSE IF view = "cost" THEN WithCost(s, e)
  ELSE IF view = "built" THEN PushSection(s, e)
  ELSE IF view = "filed" THEN Filed(s, e)
  ELSE IF view = "graph" THEN GraphStep(s, e)
  ELSE IF e.id \in known THEN FoldEvent(s, e) ELSE s
FoldBase(view) ==
  IF view = "lineage" THEN NoLineage
  ELSE IF view = "candidates" THEN [c \in Candidates |-> "none"]
  ELSE IF view = "cognition" THEN Blank
  ELSE IF view = "governed" THEN <<>>
  ELSE IF view = "cost" THEN 0
  ELSE IF view = "built" THEN Nothing
  ELSE IF view = "filed" THEN <<>>
  ELSE IF view = "graph" THEN NoGraph ELSE Unregistered

\* The greatest of a set of numbers.
LEMMA MaxIs ==
  ASSUME NEW S \in SUBSET Int, NEW m \in S, \A y \in S : y <= m
  PROVE  Max(S) = m
<1>1. \A y \in S : m >= y
  OBVIOUS
<1>2. Max(S) \in S /\ \A y \in S : Max(S) >= y
  BY <1>1 DEF Max
<1>3. Max(S) \in Int /\ m \in Int /\ Max(S) >= m /\ Max(S) <= m
  BY <1>2
<1> QED BY <1>3

\* One function holds the fold of every set of positions up to n.
Folds(view, known, log, n, h) ==
  h = [s \in SUBSET (1..n) |-> IF s = {} THEN FoldBase(view)
                               ELSE FoldStep(view, known, h[s \ {Max(s)}], log[Max(s)])]

\* There is one for every n.
LEMMA FoldExists ==
  ASSUME NEW view, NEW known, NEW log, NEW n \in Nat
  PROVE  \E h : Folds(view, known, log, n, h)
<1> DEFINE none == {k \in Nat : ~ \E h : Folds(view, known, log, k, h)}
<1>1. 0 \notin none
  <2>1. PICK h : h = [s \in SUBSET (1..0) |-> FoldBase(view)]
    OBVIOUS
  <2>2. \A s \in SUBSET (1..0) : s = {}
    OBVIOUS
  <2>3. Folds(view, known, log, 0, h)
    BY <2>1, <2>2 DEF Folds
  <2> QED BY <2>3
<1>2. ASSUME NEW k \in Nat, k \notin none PROVE k + 1 \notin none
  <2>1. PICK h : Folds(view, known, log, k, h)
    BY <1>2
  <2>2. PICK g : g = [s \in SUBSET (1..(k + 1)) |->
                        IF k + 1 \in s THEN FoldStep(view, known, h[s \ {k + 1}], log[k + 1]) ELSE h[s]]
    OBVIOUS
  <2>3. ASSUME NEW s \in SUBSET (1..(k + 1))
        PROVE  g[s] = IF s = {} THEN FoldBase(view) ELSE FoldStep(view, known, g[s \ {Max(s)}], log[Max(s)])
    <3>1. CASE k + 1 \in s
      <4>1. Max(s) = k + 1
        <5>1. s \in SUBSET Int /\ \A y \in s : y <= k + 1
          OBVIOUS
        <5> QED BY <3>1, <5>1, MaxIs
      <4>2. s \ {k + 1} \in SUBSET (1..k) /\ s \ {k + 1} \in SUBSET (1..(k + 1)) /\ k + 1 \notin s \ {k + 1}
        OBVIOUS
      <4>3. g[s \ {k + 1}] = h[s \ {k + 1}]
        BY <2>2, <4>2
      <4>4. g[s] = FoldStep(view, known, h[s \ {k + 1}], log[k + 1])
        BY <2>2, <3>1
      <4> QED BY <3>1, <4>1, <4>3, <4>4
    <3>2. CASE k + 1 \notin s
      <4>0. \A x \in s : x \in 1..(k + 1) /\ x # k + 1
        BY <3>2
      <4>a. \A x \in s : x \in 1..k
        BY <4>0
      <4>1. s \in SUBSET (1..k) /\ s \ {Max(s)} \in SUBSET (1..k) /\ s \ {Max(s)} \in SUBSET (1..(k + 1))
            /\ k + 1 \notin s \ {Max(s)}
        BY <3>2, <4>a
      <4>2. g[s] = h[s] /\ g[s \ {Max(s)}] = h[s \ {Max(s)}]
        BY <2>2, <3>2, <4>1
      <4>3. h[s] = IF s = {} THEN FoldBase(view) ELSE FoldStep(view, known, h[s \ {Max(s)}], log[Max(s)])
        BY <2>1, <4>1 DEF Folds
      <4> QED BY <4>2, <4>3
    <3> QED BY <3>1, <3>2
  <2>4. Folds(view, known, log, k + 1, g)
    BY <2>2, <2>3 DEF Folds
  <2> QED BY <2>4
<1>3. none \subseteq Nat
  OBVIOUS
<1>4. n \notin none => \E h : Folds(view, known, log, n, h)
  OBVIOUS
<1> HIDE DEF none
<1>5. none = {}
  <2>1. SUFFICES ASSUME none # {} PROVE FALSE
    OBVIOUS
  <2>2. PICK m \in none : \A k \in none : m <= k
    BY <1>3, <2>1, LeastOf
  <2>3. m \in Nat /\ m # 0
    BY <1>1, <1>3
  <2>4. m - 1 \in Nat /\ ~(m <= m - 1) /\ (m - 1) + 1 = m
    BY <2>3
  <2>5. m - 1 \notin none
    BY <2>2, <2>4
  <2> QED BY <1>2, <2>4, <2>5
<1> QED BY <1>4, <1>5

\* The fold of a log, one event after the other.
Trace(view, known, log, n, t) ==
  t[0] = FoldBase(view) /\ \A k \in 1..n : t[k] = FoldStep(view, known, t[k - 1], log[k])

\* It passes through the folds of the first positions.
LEMMA TraceExists ==
  ASSUME NEW view, NEW known, NEW log, NEW n \in Nat, NEW h, Folds(view, known, log, n, h)
  PROVE  \E t : Trace(view, known, log, n, t) /\ t[n] = h[1..n]
<1>1. PICK t : t = [k \in 0..n |-> h[1..k]]
  OBVIOUS
<1>2. \A k \in 0..n : t[k] = h[1..k]
  BY <1>1
<1>3. t[0] = FoldBase(view)
  <2>1. 1..0 = {} /\ 1..0 \in SUBSET (1..n) /\ 0 \in 0..n
    OBVIOUS
  <2>2. h[1..0] = FoldBase(view)
    BY <2>1 DEF Folds
  <2> QED BY <1>2, <2>1, <2>2
<1>4. ASSUME NEW k \in 1..n PROVE t[k] = FoldStep(view, known, t[k - 1], log[k])
  <2>0. k \in 0..n /\ k - 1 \in 0..n
    OBVIOUS
  <2>1. (1..k) \ {k} = 1..(k - 1) /\ 1..k # {} /\ 1..k \in SUBSET (1..n)
    OBVIOUS
  <2>a. Max(1..k) = k
    <3>1. 1..k \in SUBSET Int /\ k \in 1..k /\ \A y \in 1..k : y <= k
      OBVIOUS
    <3> QED BY <3>1, MaxIs
  <2>2. h[1..k] = FoldStep(view, known, h[(1..k) \ {Max(1..k)}], log[Max(1..k)])
    BY <2>1 DEF Folds
  <2>3. t[k] = h[1..k]
    BY <1>2, <2>0
  <2>4. t[k - 1] = h[1..(k - 1)]
    BY <1>2, <2>0
  <2> QED BY <2>1, <2>a, <2>2, <2>3, <2>4
<1>5. t[n] = h[1..n]
  <2>1. n \in 0..n
    OBVIOUS
  <2> QED BY <1>2, <2>1
<1> QED BY <1>3, <1>4, <1>5 DEF Trace

\* What a handle folds is the end of such a trace.
LEMMA FoldSeenTrace ==
  ASSUME NEW log, NEW n \in Nat, DOMAIN log = 1..n, NEW known
  PROVE  \E t : Trace("intention", known, log, n, t) /\ t[n] = FoldSeen(log, known)
<1> DEFINE iter == CHOOSE h : h = [s \in SUBSET (DOMAIN log) |->
                                     IF s = {} THEN Unregistered
                                     ELSE IF log[Max(s)].id \in known THEN FoldEvent(h[s \ {Max(s)}], log[Max(s)])
                                          ELSE h[s \ {Max(s)}]]
<1>1. FoldSeen(log, known) = iter[DOMAIN log]
  BY DEF FoldSeen, FoldLeft, MapThenFoldSet
<1>2. \A s, e : FoldStep("intention", known, s, e) = IF e.id \in known THEN FoldEvent(s, e) ELSE s
  BY DEF FoldStep
<1>3. FoldBase("intention") = Unregistered
  BY DEF FoldBase
<1>4. PICK h : Folds("intention", known, log, n, h)
  BY FoldExists
<1>5. h = [s \in SUBSET (DOMAIN log) |-> IF s = {} THEN Unregistered
                                        ELSE IF log[Max(s)].id \in known THEN FoldEvent(h[s \ {Max(s)}], log[Max(s)])
                                             ELSE h[s \ {Max(s)}]]
  BY <1>2, <1>3, <1>4 DEF Folds
<1>6. iter = [s \in SUBSET (DOMAIN log) |-> IF s = {} THEN Unregistered
                                           ELSE IF log[Max(s)].id \in known THEN FoldEvent(iter[s \ {Max(s)}], log[Max(s)])
                                                ELSE iter[s \ {Max(s)}]]
  BY <1>5
<1> HIDE DEF iter
<1>7. Folds("intention", known, log, n, iter)
  BY <1>2, <1>3, <1>6 DEF Folds
<1> QED BY <1>1, <1>7, TraceExists

\* Two traces agree as far as the logs, and what is known of them, do.
LEMMA TracesAgree ==
  ASSUME NEW view, NEW known1, NEW known2, NEW log1, NEW log2, NEW n \in Nat, NEW t1, NEW t2,
         Trace(view, known1, log1, n, t1), Trace(view, known2, log2, n, t2),
         \A k \in 1..n : log1[k] = log2[k],
         view # "governed",
         \A k \in 1..n : \/ view \in {"lineage", "candidates", "cognition", "cost", "built", "filed", "graph"}
                         \/ log1[k].id \in known1 <=> log1[k].id \in known2
  PROVE  t1[n] = t2[n]
<1> DEFINE apart == {k \in 0..n : t1[k] # t2[k]}
<1>1. 0 \notin apart /\ apart \subseteq 0..n /\ (n \notin apart => t1[n] = t2[n])
  BY DEF Trace
<1>2. ASSUME NEW k \in 1..n, k - 1 \notin apart PROVE k \notin apart
  <2>1. t1[k - 1] = t2[k - 1]
    BY <1>2
  <2>2. t1[k] = FoldStep(view, known1, t1[k - 1], log1[k]) /\ t2[k] = FoldStep(view, known2, t2[k - 1], log2[k])
    BY DEF Trace
  <2>3. PICK u, e : u = t1[k - 1] /\ e = log1[k]
    OBVIOUS
  <2>4. FoldStep(view, known1, u, e) = FoldStep(view, known2, u, e)
    BY <2>3 DEF FoldStep
  <2> QED BY <2>1, <2>2, <2>3, <2>4
<1> HIDE DEF apart
<1>3. apart = {}
  <2>1. SUFFICES ASSUME apart # {} PROVE FALSE
    OBVIOUS
  <2>2. apart \subseteq Nat
    BY <1>1
  <2>3. PICK m \in apart : \A k \in apart : m <= k
    BY <2>1, <2>2, LeastOf
  <2>4. m \in 1..n /\ ~(m <= m - 1)
    BY <1>1, <2>3
  <2>5. m - 1 \notin apart
    BY <2>3, <2>4
  <2> QED BY <1>2, <2>3, <2>4, <2>5
<1> QED BY <1>1, <1>3

-----------------------------------------------------------------------------
(* Scheduled reminders                                                     *)

\* Appending to a sequence, whatever it holds.
LEMMA AppendAny ==
  ASSUME NEW S, NEW log \in Seq(S), NEW e, NEW n \in Nat, n = Len(log)
  PROVE  /\ Append(log, e) \in Seq(S \cup {e}) /\ Len(Append(log, e)) = n + 1
         /\ DOMAIN Append(log, e) = 1..(n + 1) /\ DOMAIN log = 1..n
         /\ Append(log, e)[n + 1] = e /\ \A k \in 1..n : Append(log, e)[k] = log[k]
<1>1. log \in Seq(S \cup {e})
  OBVIOUS
<1> QED BY <1>1, AppendProperties

Numbered(log, n) == \A k \in 1..n : log[k].id = k
NextOf(S, log, n, e, known) ==
  log \in Seq(S) /\ n \in Nat /\ n = Len(log) /\ Numbered(log, n) /\ e.id = n + 1 /\ known \subseteq 1..n

\* A handle that has appended an event has folded it; one that has not has not.
LEMMA FoldSeenAppend ==
  ASSUME NEW S, NEW log, NEW n, NEW e, NEW known, NextOf(S, log, n, e, known)
  PROVE  /\ FoldSeen(Append(log, e), known \cup {n + 1}) = FoldEvent(FoldSeen(log, known), e)
         /\ FoldSeen(Append(log, e), known) = FoldSeen(log, known)
<1>1. PICK log2 : log2 = Append(log, e)
  OBVIOUS
<1>a. /\ log \in Seq(S) /\ n \in Nat /\ n = Len(log) /\ Numbered(log, n)
      /\ e.id = n + 1 /\ known \subseteq 1..n
  BY DEF NextOf
<1>2. /\ DOMAIN log = 1..n /\ DOMAIN log2 = 1..(n + 1)
      /\ log2[n + 1] = e /\ \A k \in 1..n : log2[k] = log[k]
  BY <1>1, <1>a, AppendAny
<1>3. n + 1 \in Nat /\ n + 1 \in 1..(n + 1) /\ (n + 1) - 1 = n
  BY <1>a
<1>4. ASSUME NEW known2, \A k \in 1..n : k \in known2 <=> k \in known
      PROVE  FoldSeen(log2, known2) = FoldStep("intention", known2, FoldSeen(log, known), e)
  <2>1. PICK t : Trace("intention", known, log, n, t) /\ t[n] = FoldSeen(log, known)
    BY <1>2, <1>a, FoldSeenTrace
  <2>2. PICK u : Trace("intention", known2, log2, n + 1, u) /\ u[n + 1] = FoldSeen(log2, known2)
    BY <1>2, <1>3, FoldSeenTrace
  <2>3. Trace("intention", known2, log2, n, u)
    BY <1>a, <2>2 DEF Trace
  <2>4. u[n] = t[n]
    <3>1. \A k \in 1..n : log2[k] = log[k] /\ (log2[k].id \in known2 <=> log[k].id \in known)
      BY <1>2, <1>4, <1>a DEF Numbered
    <3> QED BY <1>a, <2>1, <2>3, <3>1, TracesAgree
  <2>5. u[n + 1] = FoldStep("intention", known2, u[(n + 1) - 1], log2[n + 1])
    BY <1>3, <2>2 DEF Trace
  <2> QED BY <1>2, <1>3, <2>1, <2>2, <2>4, <2>5
<1>5. FoldSeen(log2, known \cup {n + 1}) = FoldStep("intention", known \cup {n + 1}, FoldSeen(log, known), e)
  <2>1. \A k \in 1..n : k \in known \cup {n + 1} <=> k \in known
    BY <1>a
  <2> QED BY <1>4, <2>1
<1>6. FoldSeen(log2, known) = FoldStep("intention", known, FoldSeen(log, known), e)
  BY <1>4
<1>7. e.id \in known \cup {n + 1} /\ e.id \notin known
  BY <1>a
<1> QED BY <1>1, <1>5, <1>6, <1>7 DEF FoldStep

\* The log numbers its events, and a handle believes what the ones it has seen say.
LogInv ==
  /\ \E S : jobLog \in Seq(S)
  /\ \A k \in 1..Len(jobLog) : jobLog[k].id = k
  /\ memory = [h \in Handles |-> memory[h]]
  /\ seen = [h \in Handles |-> seen[h]] /\ \A h \in Handles : seen[h] \subseteq 1..Len(jobLog)
  /\ tick = [h \in Handles |-> tick[h]]
  /\ \A h \in Handles : memory[h] = Closed => tick[h] = Rest
  /\ HandlesFoldTheLog

ReminderInv ==
  /\ reminder \in {"none", "accepted", "begun", "acting", "delivered", "ended", "waiting", "unknown"}
  /\ delivered \in {0, 1}
  /\ reminder \in {"none", "accepted", "begun", "acting"} => delivered = 0

ScheduleInv == LogInv /\ ReminderInv /\ GenerationClaimedOnce /\ DoneIsConcluded

\* An event that a handle appends, and takes up as the fold does.
LEMMA EventTakenUp ==
  ASSUME LogInv, NEW h \in Handles, NEW e, e.id = Len(jobLog) + 1,
         jobLog' = Append(jobLog, e), seen' = [seen EXCEPT ![h] = @ \cup {Len(jobLog) + 1}],
         NEW m, m = FoldEvent(memory[h], e), m # Closed, memory[h] # Closed,
         memory' = [memory EXCEPT ![h] = m], tick' = [q \in Handles |-> tick'[q]], \A q \in Handles \ {h} : tick'[q] = tick[q]
  PROVE  LogInv'
<1>1. PICK S : jobLog \in Seq(S)
  BY DEF LogInv
<1>2. PICK n \in Nat : n = Len(jobLog)
  BY <1>1
<1>3. PICK log : log = jobLog
  OBVIOUS
<1>4. /\ log \in Seq(S) /\ n = Len(log) /\ e.id = n + 1 /\ jobLog' = Append(log, e)
      /\ Numbered(log, n)
  BY <1>1, <1>2, <1>3 DEF LogInv, Numbered
<1>5. /\ jobLog' \in Seq(S \cup {e}) /\ Len(jobLog') = n + 1
      /\ jobLog'[n + 1] = e /\ \A k \in 1..n : jobLog'[k] = log[k]
  BY <1>4, AppendAny
<1>6. /\ seen' = [q \in Handles |-> seen'[q]] /\ seen'[h] = seen[h] \cup {n + 1}
      /\ \A q \in Handles \ {h} : seen'[q] = seen[q]
      /\ memory' = [q \in Handles |-> memory'[q]] /\ memory'[h] = m
      /\ \A q \in Handles \ {h} : memory'[q] = memory[q]
  BY <1>2 DEF LogInv
<1>7. \A q \in Handles : seen[q] \subseteq 1..n
  BY <1>2 DEF LogInv
<1>8. \A q \in Handles : seen'[q] \subseteq 1..(n + 1)
  BY <1>6, <1>7
<1>9. ASSUME NEW q \in Handles, memory'[q] # Closed PROVE memory'[q] = FoldSeen(jobLog', seen'[q])
  <2>1. PICK known : known = seen[q] /\ known \subseteq 1..n
    BY <1>7
  <2>2. /\ FoldSeen(Append(log, e), known \cup {n + 1}) = FoldEvent(FoldSeen(log, known), e)
        /\ FoldSeen(Append(log, e), known) = FoldSeen(log, known)
    <3>1. NextOf(S, log, n, e, known)
      BY <1>4, <2>1 DEF NextOf
    <3> QED BY <3>1, FoldSeenAppend
  <2>3. CASE q = h
    <3>1. memory[h] = FoldSeen(log, known)
      BY <1>3, <2>1, <2>3 DEF LogInv, HandlesFoldTheLog
    <3> QED BY <1>4, <1>6, <2>1, <2>2, <2>3, <3>1
  <2>4. CASE q # h
    <3>1. memory[q] = FoldSeen(log, known)
      BY <1>3, <1>6, <1>9, <2>1, <2>4 DEF LogInv, HandlesFoldTheLog
    <3> QED BY <1>4, <1>6, <2>1, <2>2, <2>4, <3>1
  <2> QED BY <2>3, <2>4
<1>10. HandlesFoldTheLog'
  BY <1>9 DEF HandlesFoldTheLog
<1>11. \A k \in 1..Len(jobLog') : jobLog'[k].id = k
  BY <1>4, <1>5 DEF Numbered
<1>12. \A q \in Handles : memory'[q] = Closed => tick'[q] = Rest
  BY <1>6 DEF LogInv
<1>13. \E X : jobLog' \in Seq(X)
  BY <1>5
<1>14. \A q \in Handles : seen'[q] \subseteq 1..Len(jobLog')
  BY <1>5, <1>8
<1> QED BY <1>6, <1>10, <1>11, <1>12, <1>13, <1>14 DEF LogInv

\* An event of the intention appended with a kind that the fold knows, and what follows from it.
Logged(h, e, m) ==
  /\ jobLog' = Append(jobLog, e) /\ e.id = Len(jobLog) + 1
  /\ seen' = [seen EXCEPT ![h] = @ \cup {Len(jobLog) + 1}]
  /\ memory' = [memory EXCEPT ![h] = m]
  /\ m = FoldEvent(memory[h], e) /\ m # Closed /\ memory[h] # Closed

\* It is no second lease of a generation, and does not end the intention before its run.
LEMMA LoggedKeeps ==
  ASSUME ScheduleInv, NEW h \in Handles, NEW e, NEW m, Logged(h, e, m),
         tick' = [q \in Handles |-> tick'[q]], \A q \in Handles \ {h} : tick'[q] = tick[q],
         e.kind = "lease" => LeaseWins(e.gen),
         e.kind = "done" => reminder \in Concluded,
         reminder \in Concluded => reminder' \in Concluded
  PROVE  LogInv' /\ GenerationClaimedOnce' /\ DoneIsConcluded'
<1>1. LogInv'
  BY EventTakenUp DEF Logged, ScheduleInv
<1>2. PICK S : jobLog \in Seq(S)
  BY DEF ScheduleInv, LogInv
<1>3. PICK n \in Nat : n = Len(jobLog)
  BY <1>2
<1>4. /\ DOMAIN jobLog' = 1..(n + 1) /\ DOMAIN jobLog = 1..n
      /\ jobLog'[n + 1] = e /\ \A k \in 1..n : jobLog'[k] = jobLog[k]
  <2>1. PICK log : log = jobLog /\ log \in Seq(S) /\ n = Len(log) /\ jobLog' = Append(log, e)
    BY <1>2, <1>3 DEF Logged
  <2> QED BY <2>1, AppendAny
<1>5. GenerationClaimedOnce'
  <2>1. \A i \in 1..n : e.kind = "lease" /\ jobLog[i].kind = "lease" => jobLog[i].gen # e.gen
    BY <1>4 DEF LeaseWins
  <2>2. SUFFICES ASSUME NEW i \in 1..(n + 1), NEW j \in 1..(n + 1), i # j, jobLog'[i].kind = "lease", jobLog'[j].kind = "lease"
                 PROVE  jobLog'[i].gen # jobLog'[j].gen
    BY <1>4 DEF GenerationClaimedOnce
  <2>3. CASE i = n + 1 /\ j \in 1..n
    BY <1>4, <2>1, <2>2, <2>3
  <2>4. CASE j = n + 1 /\ i \in 1..n
    BY <1>4, <2>1, <2>2, <2>4
  <2>5. CASE i \in 1..n /\ j \in 1..n
    BY <1>4, <2>2, <2>5 DEF ScheduleInv, GenerationClaimedOnce
  <2> QED BY <2>2, <2>3, <2>4, <2>5
<1>6. DoneIsConcluded'
  <2>1. SUFFICES ASSUME NEW i \in 1..(n + 1), jobLog'[i].kind = "done" PROVE reminder' \in Concluded
    BY <1>4 DEF DoneIsConcluded
  <2>2. CASE i = n + 1
    BY <1>4, <2>1, <2>2
  <2>3. CASE i \in 1..n
    BY <1>4, <2>1, <2>3 DEF ScheduleInv, DoneIsConcluded
  <2> QED BY <2>2, <2>3
<1> QED BY <1>1, <1>5, <1>6

\* A step that appends nothing, of a handle whose memory stays.
LEMMA NotLogged ==
  ASSUME ScheduleInv, UNCHANGED <<jobLog, memory, seen>>,
         tick' = [q \in Handles |-> tick'[q]], \A q \in Handles : memory[q] = Closed => tick'[q] = tick[q],
         reminder \in Concluded => reminder' \in Concluded
  PROVE  LogInv' /\ GenerationClaimedOnce' /\ DoneIsConcluded'
<1>1. LogInv'
  BY DEF ScheduleInv, LogInv, HandlesFoldTheLog
<1>2. GenerationClaimedOnce' /\ DoneIsConcluded'
  BY DEF ScheduleInv, GenerationClaimedOnce, DoneIsConcluded
<1> QED BY <1>1, <1>2

\* What a handle with a claim under way believes is not closed, and it can rest.
LEMMA Ticks ==
  ASSUME LogInv, NEW h \in Handles, tick[h].stage # "none"
  PROVE  memory[h] # Closed
BY DEF LogInv, Rest

\* An outcome, resolved by a handle or refused by its state.
LEMMA ResolveLogs ==
  ASSUME ScheduleInv, NEW h \in Handles, NEW outcome \in {"expired", "cancelled", "done"}, Resolve(h, outcome),
         outcome = "done" => reminder \in Concluded, reminder \in Concluded => reminder' \in Concluded,
         tick' = [q \in Handles |-> tick'[q]], \A q \in Handles \ {h} : tick'[q] = tick[q],
         memory[h] = Closed => tick'[h] = tick[h]
  PROVE  LogInv' /\ GenerationClaimedOnce' /\ DoneIsConcluded'
<1>1. CASE ~(memory[h].state # outcome /\ ValidTransition(memory[h].state, outcome))
  <2>1. UNCHANGED <<jobLog, memory, seen>>
    BY <1>1 DEF Resolve
  <2> QED BY <2>1, NotLogged
<1>2. CASE memory[h].state # outcome /\ ValidTransition(memory[h].state, outcome)
  <2>1. PICK e, m : /\ e = [id |-> Len(jobLog) + 1, kind |-> outcome, gen |-> 0, until |-> 0, by |-> h]
                    /\ m = [state |-> outcome, lease |-> 0, gen |-> NextId]
    OBVIOUS
  <2>2. /\ jobLog' = Append(jobLog, e) /\ seen' = [seen EXCEPT ![h] = @ \cup {Len(jobLog) + 1}]
        /\ memory' = [memory EXCEPT ![h] = m]
    BY <1>2, <2>1 DEF Resolve, Append1
  <2>3. e.id = Len(jobLog) + 1 /\ e.kind = outcome /\ m.state = outcome
    BY <2>1
  <2>4. m = FoldEvent(memory[h], e)
    BY <2>1 DEF FoldEvent, NextId
  <2>5. m # Closed /\ memory[h] # Closed
    BY <1>2, <2>3 DEF Closed, ValidTransition
  <2>6. Logged(h, e, m)
    BY <2>2, <2>3, <2>4, <2>5 DEF Logged
  <2> QED BY <2>3, <2>6, LoggedKeeps
<1> QED BY <1>1, <1>2

\* The reminders start with nothing created.
LEMMA ScheduleInvInit == ScheduleInit => ScheduleInv
<1> SUFFICES ASSUME ScheduleInit PROVE ScheduleInv
  OBVIOUS
<1>1. PICK log : log = jobLog /\ log = << >>
  BY DEF ScheduleInit
<1>2. log \in Seq({}) /\ Len(log) = 0 /\ DOMAIN log = 1..0
  BY <1>1
<1>3. FoldSeen(log, {}) = Unregistered
  <2>1. PICK t : Trace("intention", {}, log, 0, t) /\ t[0] = FoldSeen(log, {})
    BY <1>2, FoldSeenTrace
  <2> QED BY <2>1 DEF Trace, FoldBase
<1>4. HandlesFoldTheLog
  BY <1>1, <1>3 DEF HandlesFoldTheLog, ScheduleInit
<1>5. \A h \in Handles : seen[h] = {} /\ tick[h] = Rest
  BY DEF ScheduleInit
<1>6. LogInv
  BY <1>1, <1>2, <1>4, <1>5 DEF LogInv, ScheduleInit
<1>7. ReminderInv
  BY DEF ReminderInv, ScheduleInit
<1>8. GenerationClaimedOnce /\ DoneIsConcluded
  BY <1>1 DEF GenerationClaimedOnce, DoneIsConcluded
<1> QED BY <1>6, <1>7, <1>8 DEF ScheduleInv

\* The events a handle appends by itself: an intention created, expired, leased or fired.
LEMMA HandleLogs ==
  ASSUME ScheduleInv, NEW h \in Handles, CreateSchedule(h) \/ ClaimExpires(h) \/ ClaimLease(h) \/ ClaimFires(h)
  PROVE  LogInv' /\ GenerationClaimedOnce' /\ DoneIsConcluded'
<1>1. UNCHANGED reminder
  BY DEF CreateSchedule, ClaimExpires, ClaimLease, ClaimFires
<1>2. tick' = [q \in Handles |-> tick'[q]] /\ \A q \in Handles \ {h} : tick'[q] = tick[q]
  BY DEF CreateSchedule, ClaimExpires, ClaimLease, ClaimFires, ScheduleInv, LogInv
<1>3. \E e, m : Logged(h, e, m) /\ e.kind # "done" /\ (e.kind = "lease" => LeaseWins(e.gen))
  <2>1. CASE CreateSchedule(h)
    <3>1. PICK e, m : /\ e = [id |-> Len(jobLog) + 1, kind |-> "created", gen |-> 0, until |-> 0, by |-> h]
                      /\ m = [state |-> "pending", lease |-> 0, gen |-> NextId]
      OBVIOUS
    <3>2. e.id = Len(jobLog) + 1 /\ e.kind = "created" /\ m.state = "pending"
      BY <3>1
    <3>3. m = FoldEvent(memory[h], e) /\ m # Closed /\ memory[h] # Closed
      BY <2>1, <3>1, <3>2 DEF FoldEvent, NextId, Closed, CreateSchedule, Unregistered
    <3>4. Logged(h, e, m)
      BY <2>1, <3>1, <3>2, <3>3 DEF Logged, CreateSchedule, Append1
    <3> QED BY <3>2, <3>4
  <2>2. CASE ClaimExpires(h)
    <3>1. PICK e, m : /\ e = [id |-> Len(jobLog) + 1, kind |-> "expired", gen |-> 0, until |-> 0, by |-> h]
                      /\ m = [state |-> "expired", lease |-> 0, gen |-> NextId]
      OBVIOUS
    <3>2. e.id = Len(jobLog) + 1 /\ e.kind = "expired" /\ m.state = "expired"
      BY <3>1
    <3>3. m = FoldEvent(memory[h], e) /\ m # Closed /\ memory[h] # Closed
      BY <2>2, <3>1, <3>2 DEF FoldEvent, NextId, Closed, ClaimExpires, Live
    <3>4. Logged(h, e, m)
      BY <2>2, <3>1, <3>2, <3>3 DEF Logged, ClaimExpires, Append1
    <3> QED BY <3>2, <3>4
  <2>3. CASE ClaimLease(h)
    <3>1. PICK b : b = memory[h]
      OBVIOUS
    <3>2. PICK e, m : /\ e = [id |-> Len(jobLog) + 1, kind |-> "lease", gen |-> b.gen, until |-> now + LeaseTime, by |-> h]
                      /\ m = [b EXCEPT !.lease = now + LeaseTime, !.gen = NextId]
      OBVIOUS
    <3>3. e.id = Len(jobLog) + 1 /\ e.kind = "lease" /\ e.gen = b.gen /\ e.until = now + LeaseTime
      BY <3>2
    <3>4. m = FoldEvent(b, e)
      BY <3>2, <3>3 DEF FoldEvent, NextId
    <3>5. b # Closed /\ m.state = b.state /\ b.state \in {"pending", "fired"}
      BY <2>3, <3>1, <3>2 DEF ClaimLease, Due, Live, Closed
    <3>6. m # Closed
      BY <3>5 DEF Closed
    <3>7. memory' = [memory EXCEPT ![h] = m]
      <4>1. memory' = [memory EXCEPT ![h].lease = now + LeaseTime, ![h].gen = NextId]
        BY <2>3 DEF ClaimLease
      <4> QED BY <3>1, <3>2, <4>1 DEF ScheduleInv, LogInv
    <3>8. Append1(h, "lease", memory[h].gen, now + LeaseTime) /\ LeaseWins(e.gen)
      BY <2>3, <3>1, <3>3 DEF ClaimLease
    <3>9. Logged(h, e, m)
      BY <3>1, <3>2, <3>3, <3>4, <3>5, <3>6, <3>7, <3>8 DEF Logged, Append1
    <3> QED BY <3>3, <3>8, <3>9
  <2>4. CASE ClaimFires(h)
    <3>1. PICK b : b = memory[h]
      OBVIOUS
    <3>2. PICK e, m : /\ e = [id |-> Len(jobLog) + 1, kind |-> "fired", gen |-> 0, until |-> b.lease, by |-> h]
                      /\ m = [b EXCEPT !.state = "fired", !.gen = NextId]
      OBVIOUS
    <3>3. e.id = Len(jobLog) + 1 /\ e.kind = "fired"
      BY <3>2
    <3>4. m = FoldEvent(b, e)
      BY <3>2, <3>3 DEF FoldEvent, NextId
    <3>5. b # Closed
      BY <2>4, <3>1, Ticks DEF ClaimFires, ScheduleInv
    <3>6. m # Closed
      BY <3>2 DEF Closed
    <3>7. memory' = [memory EXCEPT ![h] = m]
      <4>1. memory' = [memory EXCEPT ![h].state = "fired", ![h].gen = NextId]
        BY <2>4 DEF ClaimFires
      <4> QED BY <3>1, <3>2, <4>1 DEF ScheduleInv, LogInv
    <3>8. Append1(h, "fired", 0, memory[h].lease)
      BY <2>4 DEF ClaimFires
    <3>9. Logged(h, e, m)
      BY <3>1, <3>2, <3>3, <3>4, <3>5, <3>6, <3>7, <3>8 DEF Logged, Append1
    <3> QED BY <3>3, <3>9
  <2> QED BY <2>1, <2>2, <2>3, <2>4
<1>4. PICK e, m : Logged(h, e, m) /\ e.kind # "done" /\ (e.kind = "lease" => LeaseWins(e.gen))
  BY <1>3
<1> QED BY <1>1, <1>2, <1>4, LoggedKeeps

\* The scheduler's claim, refused, driven, settled or recovered.
LEMMA DriverLogs ==
  ASSUME ScheduleInv, Refuse \/ SettleClaim \/ RecoverSchedule
  PROVE  LogInv' /\ GenerationClaimedOnce' /\ DoneIsConcluded'
<1>1. UNCHANGED reminder /\ Driver \in Handles
  BY ScheduleAssumption DEF Refuse, SettleClaim, RecoverSchedule, ScheduleAssumption
<1>2. tick' = [q \in Handles |-> tick'[q]] /\ \A q \in Handles \ {Driver} : tick'[q] = tick[q]
  BY DEF Refuse, SettleClaim, RecoverSchedule, ScheduleInv, LogInv
<1>3. memory[Driver] = Closed => tick'[Driver] = tick[Driver]
  BY <1>1 DEF Refuse, SettleClaim, RecoverSchedule, ScheduleInv, LogInv, Rest
<1>4. CASE UNCHANGED <<jobLog, memory, seen>>
  <2>1. \A q \in Handles : memory[q] = Closed => tick'[q] = tick[q]
    BY <1>2, <1>3
  <2> QED BY <1>1, <1>2, <1>4, <2>1, NotLogged
<1>5. ASSUME NEW outcome \in {"expired", "cancelled", "done"}, Resolve(Driver, outcome), outcome = "done" => reminder \in Concluded
      PROVE  LogInv' /\ GenerationClaimedOnce' /\ DoneIsConcluded'
  BY <1>1, <1>2, <1>3, <1>5, ResolveLogs
<1>6. CASE Refuse
  BY <1>5, <1>6 DEF Refuse
<1>7. CASE SettleClaim
  BY <1>4, <1>5, <1>7 DEF SettleClaim
<1>8. CASE RecoverSchedule
  BY <1>5, <1>8 DEF RecoverSchedule
<1> QED BY <1>6, <1>7, <1>8

\* The owner's cancellation.
LEMMA CancelLogs ==
  ASSUME ScheduleInv, NEW h \in Handles, CancelByOwner(h)
  PROVE  LogInv' /\ GenerationClaimedOnce' /\ DoneIsConcluded'
<1>1. reminder \in Concluded => reminder' \in Concluded
  BY DEF CancelByOwner, Concluded
<1>2. Resolve(h, "cancelled") /\ UNCHANGED tick
  BY DEF CancelByOwner
<1>3. tick' = [q \in Handles |-> tick'[q]] /\ \A q \in Handles : tick'[q] = tick[q]
  BY <1>2 DEF ScheduleInv, LogInv
<1> QED BY <1>1, <1>2, <1>3, ResolveLogs

\* A handle that stops forgets, and one that opens folds the whole log.
LEMMA CrashOpenLogs ==
  ASSUME ScheduleInv, NEW h \in Handles, ScheduleCrash(h) \/ OpenSchedule(h)
  PROVE  LogInv' /\ GenerationClaimedOnce' /\ DoneIsConcluded'
<1>1. UNCHANGED jobLog /\ (reminder \in Concluded => reminder' \in Concluded)
  BY DEF ScheduleCrash, OpenSchedule, Concluded
<1>2. DoneIsConcluded' /\ GenerationClaimedOnce'
  BY <1>1 DEF ScheduleInv, DoneIsConcluded, GenerationClaimedOnce
<1>3. PICK m, known : /\ memory' = [memory EXCEPT ![h] = m] /\ seen' = [seen EXCEPT ![h] = known]
                      /\ known \subseteq DOMAIN jobLog /\ (m = Closed \/ m = FoldSeen(jobLog, known))
  BY DEF ScheduleCrash, OpenSchedule
<1>4. DOMAIN jobLog = 1..Len(jobLog)
  BY DEF ScheduleInv, LogInv
<1>5. /\ memory' = [q \in Handles |-> memory'[q]] /\ memory'[h] = m /\ \A q \in Handles \ {h} : memory'[q] = memory[q]
      /\ seen' = [q \in Handles |-> seen'[q]] /\ seen'[h] = known /\ \A q \in Handles \ {h} : seen'[q] = seen[q]
  BY <1>3 DEF ScheduleInv, LogInv
<1>6. tick' = [q \in Handles |-> tick'[q]] /\ tick'[h] = Rest /\ \A q \in Handles \ {h} : tick'[q] = tick[q]
  BY DEF ScheduleCrash, OpenSchedule, ScheduleInv, LogInv
<1>7. HandlesFoldTheLog'
  BY <1>1, <1>3, <1>5 DEF ScheduleInv, LogInv, HandlesFoldTheLog
<1>8. \A q \in Handles : seen'[q] \subseteq 1..Len(jobLog')
  BY <1>1, <1>3, <1>4, <1>5 DEF ScheduleInv, LogInv
<1>9. (\E S : jobLog' \in Seq(S)) /\ \A k \in 1..Len(jobLog') : jobLog'[k].id = k
  BY <1>1 DEF ScheduleInv, LogInv
<1>10. \A q \in Handles : memory'[q] = Closed => tick'[q] = Rest
  BY <1>5, <1>6 DEF ScheduleInv, LogInv
<1>11. memory' = [q \in Handles |-> memory'[q]] /\ seen' = [q \in Handles |-> seen'[q]] /\ tick' = [q \in Handles |-> tick'[q]]
  BY <1>5, <1>6
<1> HIDE DEF HandlesFoldTheLog
<1>12. LogInv'
  BY <1>7, <1>8, <1>9, <1>10, <1>11 DEF LogInv
<1> QED BY <1>2, <1>12

\* The steps that append nothing.
LEMMA QuietLogs ==
  ASSUME ScheduleInv, \/ \E h \in Handles : ClaimDropped(h)
                      \/ Defer \/ DriveClaim \/ CommitmentFails \/ DriveRun \/ TimePasses \/ UNCHANGED scheduleVars
  PROVE  LogInv' /\ GenerationClaimedOnce' /\ DoneIsConcluded'
<1>1. UNCHANGED <<jobLog, memory, seen>>
  BY DEF ClaimDropped, Defer, DriveClaim, CommitmentFails, DriveRun, TimePasses, scheduleVars
<1>2. reminder \in Concluded => reminder' \in Concluded
  BY DEF ClaimDropped, Defer, DriveClaim, CommitmentFails, DriveRun, TimePasses, scheduleVars, Concluded
<1>3. tick' = [q \in Handles |-> tick'[q]] /\ \A q \in Handles : tick'[q] = tick[q] \/ (tick[q].stage # "none")
  <2>1. ASSUME NEW h \in Handles, ClaimDropped(h)
        PROVE  tick' = [q \in Handles |-> tick'[q]] /\ \A q \in Handles : tick'[q] = tick[q] \/ (tick[q].stage # "none")
    BY <2>1 DEF ClaimDropped, ScheduleInv, LogInv
  <2>2. CASE Defer \/ CommitmentFails
    BY <2>2 DEF Defer, CommitmentFails, ScheduleInv, LogInv
  <2>3. CASE DriveClaim
    BY <2>3 DEF DriveClaim, ScheduleInv, LogInv
  <2>4. CASE DriveRun
    BY <2>4 DEF DriveRun, ScheduleInv, LogInv
  <2>5. CASE TimePasses \/ UNCHANGED scheduleVars
    BY <2>5 DEF TimePasses, scheduleVars, ScheduleInv, LogInv
  <2> QED BY <2>1, <2>2, <2>3, <2>4, <2>5
<1>4. \A q \in Handles : memory[q] = Closed => tick'[q] = tick[q]
  BY <1>3, Ticks DEF ScheduleInv
<1> QED BY <1>1, <1>2, <1>3, <1>4, NotLogged

\* The run of a reminder delivers once.
LEMMA ReminderStep == ReminderInv /\ [ScheduleNext]_scheduleVars => ReminderInv'
<1> SUFFICES ASSUME ReminderInv, [ScheduleNext]_scheduleVars PROVE ReminderInv'
  OBVIOUS
<1>1. CASE UNCHANGED <<reminder, delivered>>
  BY <1>1 DEF ReminderInv
<1>2. CASE DriveClaim
  BY <1>2 DEF DriveClaim, ReminderInv, Concluded
<1>3. CASE DriveRun
  BY <1>3 DEF DriveRun, ReminderInv, Concluded
<1>4. ASSUME NEW h \in Handles, CancelByOwner(h) \/ OpenSchedule(h) PROVE ReminderInv'
  BY <1>4 DEF CancelByOwner, OpenSchedule, ReminderInv
<1>5. CASE \/ \E h \in Handles : \/ CreateSchedule(h) \/ ClaimExpires(h) \/ ClaimLease(h) \/ ClaimFires(h)
                                 \/ ClaimDropped(h) \/ ScheduleCrash(h)
           \/ Defer \/ Refuse \/ CommitmentFails \/ SettleClaim \/ RecoverSchedule \/ TimePasses \/ UNCHANGED scheduleVars
  <2>1. UNCHANGED <<reminder, delivered>>
    BY <1>5 DEF CreateSchedule, ClaimExpires, ClaimLease, ClaimFires, ClaimDropped, ScheduleCrash, Defer, Refuse,
                CommitmentFails, SettleClaim, RecoverSchedule, TimePasses, scheduleVars
  <2> QED BY <1>1, <2>1
<1> QED BY <1>2, <1>3, <1>4, <1>5 DEF ScheduleNext

\* Every step keeps the handles' folds, the leases and the reminder right.
LEMMA ScheduleInvStep == ScheduleInv /\ [ScheduleNext]_scheduleVars => ScheduleInv'
<1> SUFFICES ASSUME ScheduleInv, [ScheduleNext]_scheduleVars PROVE ScheduleInv'
  OBVIOUS
<1>1. ReminderInv'
  BY ReminderStep DEF ScheduleInv
<1>2. LogInv' /\ GenerationClaimedOnce' /\ DoneIsConcluded'
  BY HandleLogs, DriverLogs, CancelLogs, CrashOpenLogs, QuietLogs DEF ScheduleNext
<1> QED BY <1>1, <1>2 DEF ScheduleInv

\* However many processes scan, one claims a generation of an intention and believes what the log
\* says; its owner is notified once, and it is done only when its run is (claim_due, resolve,
\* drive_schedule_claim).
THEOREM ScheduleStaysSound == AssistantSpec => []ScheduleIsSound
<1>1. AssistantInit => ScheduleInv
  BY ScheduleInvInit DEF AssistantInit
<1>2. ScheduleInv /\ [AssistantNext]_assistantVars => ScheduleInv'
  BY ScheduleInvStep, FacultiesStep
<1>3. ScheduleInv => ScheduleIsSound
  BY DEF ScheduleInv, LogInv, ReminderInv, ScheduleIsSound, NotifiedOnce
<1> QED BY <1>1, <1>2, <1>3, PTL DEF AssistantSpec

-----------------------------------------------------------------------------
(* The lineage of a goal                                                   *)

\* The lineage of a log is the end of a trace.
LEMMA LineageTrace ==
  ASSUME NEW log, NEW n \in Nat, DOMAIN log = 1..n
  PROVE  \E t : Trace("lineage", {}, log, n, t) /\ t[n] = Lineage(log)
<1> DEFINE iter == CHOOSE h : h = [s \in SUBSET (DOMAIN log) |->
                                     IF s = {} THEN NoLineage ELSE LineageStep(h[s \ {Max(s)}], log[Max(s)])]
<1>1. Lineage(log) = iter[DOMAIN log]
  BY DEF Lineage, FoldLeft, MapThenFoldSet
<1>2. \A s, e : FoldStep("lineage", {}, s, e) = LineageStep(s, e)
  BY DEF FoldStep
<1>3. FoldBase("lineage") = NoLineage
  BY DEF FoldBase
<1>4. PICK h : Folds("lineage", {}, log, n, h)
  BY FoldExists
<1>5. h = [s \in SUBSET (DOMAIN log) |-> IF s = {} THEN NoLineage ELSE LineageStep(h[s \ {Max(s)}], log[Max(s)])]
  BY <1>2, <1>3, <1>4 DEF Folds
<1>6. iter = [s \in SUBSET (DOMAIN log) |-> IF s = {} THEN NoLineage ELSE LineageStep(iter[s \ {Max(s)}], log[Max(s)])]
  BY <1>5
<1> HIDE DEF iter
<1>7. Folds("lineage", {}, log, n, iter)
  BY <1>2, <1>3, <1>6 DEF Folds
<1> QED BY <1>1, <1>7, TraceExists

\* One fact more is one step more.
LEMMA LineageAppend ==
  ASSUME NEW log, NEW log2, NEW n \in Nat, DOMAIN log = 1..n, DOMAIN log2 = 1..(n + 1), \A k \in 1..n : log2[k] = log[k]
  PROVE  Lineage(log2) = LineageStep(Lineage(log), log2[n + 1])
<1>1. PICK t : Trace("lineage", {}, log, n, t) /\ t[n] = Lineage(log)
  BY LineageTrace
<1>2. n + 1 \in Nat /\ n + 1 \in 1..(n + 1) /\ (n + 1) - 1 = n
  OBVIOUS
<1>3. PICK u : Trace("lineage", {}, log2, n + 1, u) /\ u[n + 1] = Lineage(log2)
  BY <1>2, LineageTrace
<1>4. Trace("lineage", {}, log2, n, u)
  BY <1>3 DEF Trace
<1>5. u[n] = t[n]
  BY <1>1, <1>4, TracesAgree
<1>6. u[n + 1] = FoldStep("lineage", {}, u[(n + 1) - 1], log2[n + 1])
  BY <1>2, <1>3 DEF Trace
<1> QED BY <1>1, <1>2, <1>3, <1>5, <1>6 DEF FoldStep

\* What a lineage holds of the facts it was folded from.
LineageOK(log, n, s) ==
  /\ s = [goal |-> s.goal, conflict |-> s.conflict, intentions |-> s.intentions, terminal |-> s.terminal,
          checkpoints |-> s.checkpoints, cancelled |-> s.cancelled, revoked |-> s.revoked]
  /\ s.cancelled \in BOOLEAN /\ s.revoked \in BOOLEAN
  /\ \A k \in 1..n : log[k].k = "revoked" => s.revoked
  /\ \A k \in 1..n : log[k].k = "intention" => log[k].i \in s.intentions
  /\ \A i \in s.intentions : \E k \in 1..n : log[k].k = "intention" /\ log[k].i = i
  /\ \A j, k \in 1..n : j < k /\ log[j].k = "intention" /\ log[k].k = "resolved" /\ log[j].i = log[k].i =>
       /\ log[k].outcome = "cancelled" => s.cancelled
       /\ log[k].outcome = "fired" \/ log[k].i \in s.terminal

\* Each fact keeps it so.
LEMMA LineageStepOK ==
  ASSUME NEW log, NEW log2, NEW n \in Nat, NEW s, NEW s2, NEW e, LineageOK(log, n, s),
         \A k \in 1..n : log2[k] = log[k], log2[n + 1] = e, s2 = LineageStep(s, e)
  PROVE  LineageOK(log2, n + 1, s2)
<1>1. s = [goal |-> s.goal, conflict |-> s.conflict, intentions |-> s.intentions, terminal |-> s.terminal,
           checkpoints |-> s.checkpoints, cancelled |-> s.cancelled, revoked |-> s.revoked]
      /\ s.cancelled \in BOOLEAN /\ s.revoked \in BOOLEAN
  BY DEF LineageOK
<1>2. /\ s2 = [goal |-> s2.goal, conflict |-> s2.conflict, intentions |-> s2.intentions, terminal |-> s2.terminal,
               checkpoints |-> s2.checkpoints, cancelled |-> s2.cancelled, revoked |-> s2.revoked]
      /\ s2.cancelled \in BOOLEAN /\ s2.revoked \in BOOLEAN
      /\ s.cancelled => s2.cancelled
      /\ s.revoked \/ e.k = "revoked" => s2.revoked
      /\ s2.intentions = s.intentions \cup (IF e.k = "intention" THEN {e.i} ELSE {})
      /\ s.terminal \subseteq s2.terminal
      /\ e.k = "resolved" /\ e.i \in s.intentions => /\ e.outcome = "cancelled" => s2.cancelled
                                                     /\ e.outcome = "fired" \/ e.i \in s2.terminal
  <2>1. CASE e.k = "goal"
    <3>1. s2 = [s EXCEPT !.conflict = @ \/ s.goal \notin {"none", e.def}, !.goal = e.def]
      BY <2>1 DEF LineageStep
    <3> QED BY <1>1, <2>1, <3>1
  <2>2. CASE e.k = "intention"
    <3>1. s2 = [s EXCEPT !.intentions = @ \cup {e.i}]
      BY <2>2 DEF LineageStep
    <3> QED BY <1>1, <2>2, <3>1
  <2>3. CASE e.k = "resolved" /\ e.i \in s.intentions
    <3>1. PICK b \in BOOLEAN : b <=> (s.cancelled \/ e.outcome = "cancelled")
      OBVIOUS
    <3>2. s2 = [s EXCEPT !.terminal = IF e.outcome = "fired" THEN @ ELSE @ \cup {e.i}, !.cancelled = @ \/ e.outcome = "cancelled"]
      BY <2>3 DEF LineageStep
    <3>3. b = (s.cancelled \/ e.outcome = "cancelled")
      BY <1>1, <3>1
    <3>4. s2 = [s EXCEPT !.terminal = IF e.outcome = "fired" THEN s.terminal ELSE s.terminal \cup {e.i}, !.cancelled = b]
      BY <1>1, <3>2, <3>3
    <3> QED BY <1>1, <2>3, <3>1, <3>4
  <2>4. CASE e.k = "checkpoint"
    <3>1. s2 = [s EXCEPT !.checkpoints = (e.ref :> e.situation) @@ @]
      BY <2>4 DEF LineageStep
    <3>2. PICK c : s2 = [s EXCEPT !.checkpoints = c]
      BY <3>1
    <3> QED BY <1>1, <2>4, <3>2
  <2>5. CASE e.k = "revoked"
    <3>1. s2 = [s EXCEPT !.revoked = TRUE]
      BY <2>5 DEF LineageStep
    <3> QED BY <1>1, <2>5, <3>1
  <2>6. CASE e.k \notin {"goal", "intention", "checkpoint", "revoked"} /\ ~(e.k = "resolved" /\ e.i \in s.intentions)
    <3>1. s2 = s
      BY <2>6 DEF LineageStep
    <3> QED BY <1>1, <2>6, <3>1
  <2> QED BY <2>1, <2>2, <2>3, <2>4, <2>5, <2>6
<1>3. \A k \in 1..(n + 1) : log2[k].k = "revoked" => s2.revoked
  BY <1>2 DEF LineageOK
<1>4. \A k \in 1..(n + 1) : log2[k].k = "intention" => log2[k].i \in s2.intentions
  BY <1>2 DEF LineageOK
<1>5. ASSUME NEW i \in s2.intentions PROVE \E k \in 1..(n + 1) : log2[k].k = "intention" /\ log2[k].i = i
  <2>1. CASE i \in s.intentions
    <3>1. PICK k \in 1..n : log[k].k = "intention" /\ log[k].i = i
      BY <2>1 DEF LineageOK
    <3>2. k \in 1..(n + 1) /\ log2[k] = log[k]
      OBVIOUS
    <3> QED BY <3>1, <3>2
  <2>2. CASE e.k = "intention" /\ e.i = i
    <3>1. n + 1 \in 1..(n + 1)
      OBVIOUS
    <3> QED BY <2>2, <3>1
  <2> QED BY <1>2, <1>5, <2>1, <2>2
<1>6. ASSUME NEW j \in 1..(n + 1), NEW k \in 1..(n + 1), j < k, log2[j].k = "intention", log2[k].k = "resolved", log2[j].i = log2[k].i
      PROVE  /\ log2[k].outcome = "cancelled" => s2.cancelled
             /\ log2[k].outcome = "fired" \/ log2[k].i \in s2.terminal
  <2>1. j \in 1..n /\ log2[j] = log[j]
    BY <1>6
  <2>2. CASE k \in 1..n
    <3>1. log2[k] = log[k]
      BY <2>2
    <3>2. /\ log[k].outcome = "cancelled" => s.cancelled
          /\ log[k].outcome = "fired" \/ log[k].i \in s.terminal
      BY <1>6, <2>1, <2>2, <3>1 DEF LineageOK
    <3> QED BY <1>2, <3>1, <3>2
  <2>3. CASE k = n + 1
    <3>1. e.k = "resolved" /\ e.i \in s.intentions
      BY <1>6, <2>1, <2>3 DEF LineageOK
    <3> QED BY <1>2, <2>3, <3>1
  <2> QED BY <2>2, <2>3
<1> QED BY <1>2, <1>3, <1>4, <1>5, <1>6 DEF LineageOK

LineageInv ==
  about = "lineage" =>
    /\ \E S : facts \in Seq(S)
    /\ \E log, s : log = facts /\ s = Lineage(log) /\ LineageOK(log, Len(log), s)

\* A lineage starts with no facts.
LEMMA LineageInvInit == ProjectionInit => LineageInv
<1> SUFFICES ASSUME ProjectionInit PROVE LineageInv
  OBVIOUS
<1>1. PICK log : log = facts /\ log = << >>
  BY DEF ProjectionInit
<1>2. log \in Seq({}) /\ Len(log) = 0 /\ DOMAIN log = 1..0
  BY <1>1
<1>3. Lineage(log) = NoLineage
  <2>1. PICK t : Trace("lineage", {}, log, 0, t) /\ t[0] = Lineage(log)
    BY <1>2, LineageTrace
  <2> QED BY <2>1 DEF Trace, FoldBase
<1>4. PICK s : s = NoLineage
  OBVIOUS
<1>5. LineageOK(log, 0, s)
  BY <1>4 DEF LineageOK, NoLineage
<1> QED BY <1>1, <1>2, <1>3, <1>4, <1>5 DEF LineageInv

\* Each fact recorded keeps it.
LEMMA LineageInvStep == LineageInv /\ [ProjectionNext]_projectionVars => LineageInv'
<1> SUFFICES ASSUME LineageInv, [ProjectionNext]_projectionVars PROVE LineageInv'
  OBVIOUS
<1>1. CASE UNCHANGED projectionVars
  <2>1. facts' = facts /\ about' = about
    BY <1>1 DEF projectionVars
  <2> QED BY <2>1 DEF LineageInv
<1>2. CASE about' # "lineage"
  BY <1>2 DEF LineageInv
<1>3. ASSUME NEW e, facts' = Append(facts, e), about = "lineage" PROVE LineageInv'
  <2>1. PICK S : facts \in Seq(S)
    BY <1>3 DEF LineageInv
  <2>2. PICK log, s : log = facts /\ s = Lineage(log) /\ LineageOK(log, Len(log), s)
    BY <1>3 DEF LineageInv
  <2>3. PICK n \in Nat : n = Len(log)
    BY <2>1, <2>2
  <2>4. PICK log2 : log2 = Append(log, e)
    OBVIOUS
  <2>5. /\ log2 \in Seq(S \cup {e}) /\ Len(log2) = n + 1 /\ DOMAIN log2 = 1..(n + 1) /\ DOMAIN log = 1..n
        /\ log2[n + 1] = e /\ \A k \in 1..n : log2[k] = log[k]
    <3>1. log \in Seq(S)
      BY <2>1, <2>2
    <3> QED BY <2>3, <2>4, <3>1, AppendAny
  <2>6. PICK s2 : s2 = Lineage(log2)
    OBVIOUS
  <2>7. s2 = LineageStep(s, e)
    BY <2>2, <2>5, <2>6, LineageAppend
  <2>8. LineageOK(log2, n + 1, s2)
    BY <2>2, <2>3, <2>5, <2>7, LineageStepOK
  <2>9. facts' = log2
    BY <1>3, <2>2, <2>4
  <2> QED BY <2>5, <2>6, <2>8, <2>9 DEF LineageInv
<1> QED BY <1>1, <1>2, <1>3 DEF ProjectionNext, Record1

\* The lineage holds what stops the goal.
LEMMA LineageInvStops == LineageInv => StoppedGoalNeverContinues
<1> SUFFICES ASSUME LineageInv, about = "lineage", NEW situation \in Situations, Decide(facts, situation, FALSE, FALSE) = "continue"
             PROVE  /\ \A n \in DOMAIN facts : facts[n].k # "revoked"
                    /\ \A m, n \in DOMAIN facts :
                         (m < n /\ facts[m].k = "intention" /\ facts[n].k = "resolved" /\ facts[m].i = facts[n].i)
                         => facts[n].outcome # "cancelled"
                    /\ \E m \in DOMAIN facts : /\ facts[m].k = "intention"
                                               /\ \A n \in m..Len(facts) :
                                                    facts[n].k = "resolved" /\ facts[n].i = facts[m].i => facts[n].outcome = "fired"
  BY DEF StoppedGoalNeverContinues
<1>1. PICK log, s : log = facts /\ s = Lineage(log) /\ LineageOK(log, Len(log), s)
  BY DEF LineageInv
<1>2. PICK S : log \in Seq(S)
  BY <1>1 DEF LineageInv
<1>3. PICK n \in Nat : n = Len(log) /\ DOMAIN log = 1..n
  BY <1>2
<1>4. ~s.cancelled /\ ~s.revoked /\ s.intentions \ s.terminal # {}
  <2>1. Decide(log, situation, FALSE, FALSE) = "continue"
    BY <1>1
  <2>2. PICK x : x = ExpectedSituation(s)
    OBVIOUS
  <2> QED BY <1>1, <2>1, <2>2 DEF Decide
<1>5. LineageOK(log, n, s)
  BY <1>1, <1>3
<1>6. \A k \in 1..n : log[k].k # "revoked"
  BY <1>4, <1>5 DEF LineageOK
<1>7. \A j, k \in 1..n : (j < k /\ log[j].k = "intention" /\ log[k].k = "resolved" /\ log[j].i = log[k].i) => log[k].outcome # "cancelled"
  BY <1>4, <1>5 DEF LineageOK
<1>8. PICK i \in s.intentions : i \notin s.terminal
  BY <1>4
<1>9. PICK j \in 1..n : log[j].k = "intention" /\ log[j].i = i
  BY <1>5, <1>8 DEF LineageOK
<1>10. ASSUME NEW k \in j..n, log[k].k = "resolved", log[k].i = i PROVE log[k].outcome = "fired"
  <2>1. k # j /\ k \in 1..n /\ j < k
    BY <1>9, <1>10
  <2> QED BY <1>5, <1>8, <1>9, <1>10, <2>1 DEF LineageOK
<1> QED BY <1>1, <1>3, <1>6, <1>7, <1>9, <1>10

\* A goal revoked, or with an intention cancelled, never continues, whatever is recorded afterwards
\* (LongTermGoalLineage::fold, decide).
THEOREM StoppedGoalsStayStopped == AssistantSpec => []StoppedGoalNeverContinues
<1>1. AssistantInit => LineageInv
  BY LineageInvInit DEF AssistantInit
<1>2. LineageInv /\ [AssistantNext]_assistantVars => LineageInv'
  BY LineageInvStep, FacultiesStep
<1> QED BY <1>1, <1>2, LineageInvStops, PTL DEF AssistantSpec

-----------------------------------------------------------------------------
(* Proactivity                                                             *)

Impulses == [origin : Origins \cup Commitments \cup (1..MaxEmitted), shown : Nat \cup {-1}]

ProactivityTypes ==
  /\ pNow \in Nat /\ interruptions \in Seq(Nat) /\ impulses \in Seq(Impulses)
  /\ emitted \in Seq([impulse : Impulses, ref : 1..MaxEmitted]) /\ Len(emitted) <= MaxEmitted
  /\ sequence \in 1..(Len(emitted) + 1)
  /\ commitment = [c \in Commitments |-> commitment[c]]
  /\ deferred = [id \in 1..MaxEmitted |-> deferred[id]]
  /\ \A a \in accepted : a.id \in 1..MaxEmitted

\* When a proposal interrupted; the impulse at the head is the next one.
ShownTime(i) == IF i <= Len(emitted) THEN emitted[i].impulse.shown
                ELSE IF impulses # <<>> THEN Head(impulses).shown ELSE -1
Positions(lo, hi) == {i \in 1..(Len(emitted) + 1) : lo <= ShownTime(i) /\ ShownTime(i) <= hi}
Since(ledger, lo) == {k \in 1..Len(ledger) : lo <= ledger[k]}

\* What was shown within the window is in the ledger.
LedgerCovers ==
  \A lo \in Nat, hi \in Int :
    lo > pNow - Window => Cardinality(Positions(lo, hi)) <= Cardinality(Since(interruptions, lo))
Rationed == \A lo \in Nat : Cardinality(Positions(lo, lo + Window - 1)) <= MaxInterrupts
AloneShown == \A k \in 1..Len(impulses) : Len(impulses) > 1 => impulses[k].shown = -1
RationInv == LedgerCovers /\ Rationed /\ AloneShown

\* What is raised, in its order: the proposals, then the impulses that wait.
OriginAt(i) == IF i <= Len(emitted) THEN emitted[i].impulse.origin ELSE impulses[i - Len(emitted)].origin
Raisings == 1..(Len(emitted) + Len(impulses))
IsSettled(c) == (c \in Commitments /\ commitment[c] # "pending") \/ (c \in 1..MaxEmitted /\ deferred[c].state = "done")
RaisedInv ==
  \A i \in Raisings : OriginAt(i) \in Commitments \cup (1..MaxEmitted) =>
    IsSettled(OriginAt(i)) /\ \A j \in Raisings : OriginAt(j) = OriginAt(i) => j = i

ProactivityInv == ProactivityTypes /\ RationInv /\ RaisedInv /\ DeferralIsKept

\* Positions and ledger entries are finitely many.
LEMMA PositionsFinite ==
  ASSUME Len(emitted) \in Nat, NEW lo, NEW hi
  PROVE  IsFiniteSet(Positions(lo, hi)) /\ Cardinality(Positions(lo, hi)) \in Nat
<1>1. IsFiniteSet(1..(Len(emitted) + 1))
  BY FS_Interval
<1>2. Positions(lo, hi) \in SUBSET (1..(Len(emitted) + 1))
  BY DEF Positions
<1> QED BY <1>1, <1>2, FS_Subset, FS_CardinalityType

\* The entries of a ledger from a time on are finitely many.
LEMMA SinceFinite ==
  ASSUME NEW ledger \in Seq(Nat), NEW lo
  PROVE  /\ IsFiniteSet(Since(ledger, lo)) /\ Cardinality(Since(ledger, lo)) \in Nat
         /\ Cardinality(Since(ledger, lo)) <= Len(ledger)
<1>1. IsFiniteSet(1..Len(ledger)) /\ Cardinality(1..Len(ledger)) = Len(ledger)
  <2>1. PICK n \in Nat : n = Len(ledger)
    BY LenProperties
  <2>2. IsFiniteSet(1..n) /\ Cardinality(1..n) = IF 1 > n THEN 0 ELSE n - 1 + 1
    BY FS_Interval
  <2>3. Cardinality(1..n) = n
    BY <2>2
  <2> QED BY <2>1, <2>2, <2>3
<1>2. Since(ledger, lo) \in SUBSET (1..Len(ledger))
  BY DEF Since
<1> QED BY <1>1, <1>2, FS_Subset, FS_CardinalityType

\* The entries that have left the window at the front are an initial stretch.
LEMMA BehindIs ==
  ASSUME NEW ledger \in Seq(Nat), NEW time \in Nat
  PROVE  \E m \in 0..Len(ledger) : Behind(ledger, time) = 1..m /\ Cardinality(Behind(ledger, time)) = m
<1> DEFINE D == Behind(ledger, time)
           over == {k \in 1..(Len(ledger) + 1) : k \notin D}
<1>1. D \subseteq 1..Len(ledger) /\ over \subseteq Nat /\ Len(ledger) + 1 \in over
  BY DEF Behind
<1>2. PICK m \in over : \A k \in over : m <= k
  BY <1>1, LeastOf
<1>3. m - 1 \in 0..Len(ledger)
  BY <1>2
<1>4. ASSUME NEW k \in 1..(m - 1) PROVE k \in D
  <2>1. k \in 1..(Len(ledger) + 1) /\ ~(m <= k)
    BY <1>2
  <2> QED BY <1>2, <2>1
<1>5. ASSUME NEW k \in D PROVE k \in 1..(m - 1)
  <2>1. k \in 1..Len(ledger) /\ m \in 1..(Len(ledger) + 1)
    BY <1>1, <1>2
  <2>2. CASE k < m
    BY <2>1, <2>2
  <2>3. CASE m <= k
    <3>1. m \in D
      <4>1. m \in DOMAIN ledger
        BY <2>1, <2>3
      <4>2. \A j \in 1..m : j \in 1..k
        BY <2>1, <2>3
      <4>3. \A j \in 1..k : ledger[j] + Window <= time
        BY <1>5 DEF Behind
      <4> QED BY <4>1, <4>2, <4>3 DEF Behind
    <3> QED BY <1>2, <3>1
  <2> QED BY <2>1, <2>2, <2>3
<1>6. D = 1..(m - 1)
  BY <1>4, <1>5
<1>7. Cardinality(1..(m - 1)) = m - 1
  BY <1>3, FS_Interval
<1> QED BY <1>3, <1>6, <1>7

\* Popping them loses no entry of the window.
LEMMA ExpiredKeeps ==
  ASSUME ProactivityAssumption, NEW ledger \in Seq(Nat), NEW time \in Nat, NEW lo \in Nat, lo > time - Window
  PROVE  Expired(ledger, time) \in Seq(Nat)
         /\ Cardinality(Since(ledger, lo)) <= Cardinality(Since(Expired(ledger, time), lo))
<1>1. PICK m \in 0..Len(ledger) : Behind(ledger, time) = 1..m /\ Cardinality(Behind(ledger, time)) = m
  BY BehindIs
<1>2. PICK left : left = SubSeq(ledger, m + 1, Len(ledger))
  OBVIOUS
<1>3. left \in Seq(Nat) /\ Len(left) = Len(ledger) - m /\ \A k \in 1..(Len(ledger) - m) : left[k] = ledger[k + m]
  <2>1. PICK n \in Nat : n = Len(ledger) /\ m \in 0..n
    BY LenProperties
  <2>2. /\ left \in Seq(Nat) /\ Len(left) = (IF m + 1 <= n THEN n - (m + 1) + 1 ELSE 0)
        /\ \A k \in 1..(n - (m + 1) + 1) : left[k] = ledger[m + 1 + k - 1]
    <3>1. m + 1 \in 1..(n + 1) /\ n \in m..n
      BY <2>1
    <3> QED BY <1>2, <2>1, <3>1, SubSeqProperties
  <2>3. \A k \in 1..(n - m) : k \in 1..(n - (m + 1) + 1) /\ m + 1 + k - 1 = k + m
    BY <2>1
  <2>4. Len(left) = n - m
    BY <2>1, <2>2
  <2> QED BY <2>1, <2>2, <2>3, <2>4
<1>4. PICK f : f = [k \in Since(ledger, lo) |-> k - m]
  OBVIOUS
<1>5. ASSUME NEW k \in Since(ledger, lo) PROVE f[k] = k - m /\ k - m \in Since(left, lo)
  <2>1. k \in 1..Len(ledger) /\ lo <= ledger[k] /\ ledger[k] \in Nat
    BY DEF Since
  <2>2. k \notin 1..m
    <3>1. SUFFICES ASSUME k \in Behind(ledger, time) PROVE FALSE
      BY <1>1
    <3>2. k \in 1..k /\ ledger[k] + Window <= time
      BY <2>1, <3>1 DEF Behind
    <3> QED BY <2>1, <3>2 DEF ProactivityAssumption
  <2>3. k - m \in 1..(Len(ledger) - m) /\ (k - m) + m = k
    BY <2>1, <2>2
  <2> QED BY <1>3, <1>4, <2>1, <2>3 DEF Since
<1>6. f \in Injection(Since(ledger, lo), Since(left, lo))
  <2>1. \A a, b \in Since(ledger, lo) : f[a] = f[b] => a = b
    <3> SUFFICES ASSUME NEW a \in Since(ledger, lo), NEW b \in Since(ledger, lo), f[a] = f[b] PROVE a = b
      OBVIOUS
    <3>1. a \in Nat /\ b \in Nat
      BY DEF Since
    <3> QED BY <1>5, <3>1
  <2>2. f \in [Since(ledger, lo) -> Since(left, lo)]
    BY <1>4, <1>5
  <2> QED BY <2>1, <2>2 DEF Injection, IsInjective
<1>7. Cardinality(Since(ledger, lo)) <= Cardinality(Since(left, lo))
  BY <1>3, <1>6, SinceFinite, FS_Injection
<1> QED BY <1>1, <1>2, <1>3, <1>7 DEF Expired, Popped

\* An entry appended at a time of the window adds one.
LEMMA EntryAdded ==
  ASSUME NEW ledger \in Seq(Nat), NEW time \in Nat, NEW lo \in Nat
  PROVE  Cardinality(Since(Append(ledger, time), lo))
           = IF lo <= time THEN Cardinality(Since(ledger, lo)) + 1 ELSE Cardinality(Since(ledger, lo))
<1>1. PICK more : more = Append(ledger, time)
  OBVIOUS
<1>2. /\ Len(more) = Len(ledger) + 1 /\ more[Len(ledger) + 1] = time
      /\ \A k \in 1..Len(ledger) : more[k] = ledger[k]
  BY <1>1, AppendProperties
<1>3. Since(more, lo) = IF lo <= time THEN Since(ledger, lo) \cup {Len(ledger) + 1} ELSE Since(ledger, lo)
  BY <1>2 DEF Since
<1>4. Len(ledger) + 1 \notin Since(ledger, lo)
  BY DEF Since
<1> QED BY <1>1, <1>3, <1>4, SinceFinite, FS_AddElement

\* What is in the window later is in it now.
LEMMA WindowMoves ==
  ASSUME NEW t1 \in Nat, NEW t2 \in Nat, t2 >= t1, NEW w \in Int, NEW lo \in Nat, lo > t2 - w
  PROVE  lo > t1 - w
OBVIOUS

\* A step that shows nothing new and loses no entry of the window keeps the ration.
LEMMA RationKept ==
  ASSUME ProactivityAssumption, ProactivityTypes, ProactivityTypes', RationInv, pNow' >= pNow,
         \A lo \in Nat, hi \in Int : Positions(lo, hi)' \subseteq Positions(lo, hi),
         \A lo \in Nat : lo > pNow - Window => Cardinality(Since(interruptions, lo)) <= Cardinality(Since(interruptions, lo)')
  PROVE  LedgerCovers' /\ Rationed'
<1>1. ASSUME NEW lo \in Nat, NEW hi \in Int
      PROVE  /\ Cardinality(Positions(lo, hi)') <= Cardinality(Positions(lo, hi))
             /\ Cardinality(Positions(lo, hi)') \in Nat /\ Cardinality(Positions(lo, hi)) \in Nat
             /\ Cardinality(Since(interruptions, lo)) \in Nat /\ Cardinality(Since(interruptions, lo)') \in Nat
  <2>1. IsFiniteSet(Positions(lo, hi)) /\ Cardinality(Positions(lo, hi)) \in Nat
    <3>1. Len(emitted) \in Nat
      BY LenProperties DEF ProactivityTypes
    <3> QED BY <3>1, PositionsFinite
  <2>2. Positions(lo, hi)' \in SUBSET Positions(lo, hi)
    OBVIOUS
  <2>3. IsFiniteSet(Positions(lo, hi)') /\ Cardinality(Positions(lo, hi)') <= Cardinality(Positions(lo, hi))
    BY <2>1, <2>2, FS_Subset
  <2>4. Cardinality(Positions(lo, hi)') \in Nat
    BY <2>3, FS_CardinalityType
  <2>5. PICK l1 \in Seq(Nat), l2 \in Seq(Nat) : l1 = interruptions /\ l2 = interruptions'
    BY DEF ProactivityTypes
  <2>6. Cardinality(Since(l1, lo)) \in Nat /\ Cardinality(Since(l2, lo)) \in Nat
    BY SinceFinite
  <2>7. Since(interruptions, lo) = Since(l1, lo) /\ Since(interruptions, lo)' = Since(l2, lo)
    BY <2>5 DEF Since
  <2> QED BY <2>1, <2>3, <2>4, <2>6, <2>7
<1>2. LedgerCovers'
  <2> SUFFICES ASSUME NEW lo \in Nat, NEW hi \in Int, lo > pNow' - Window
               PROVE  Cardinality(Positions(lo, hi)') <= Cardinality(Since(interruptions, lo)')
    BY DEF LedgerCovers, Since
  <2>1. lo > pNow - Window
    <3>1. pNow \in Nat /\ pNow' \in Nat
      BY DEF ProactivityTypes
    <3>2. Window \in Int
      BY DEF ProactivityAssumption
    <3> QED BY <3>1, <3>2, WindowMoves
  <2>2. Cardinality(Positions(lo, hi)) <= Cardinality(Since(interruptions, lo))
    BY <2>1 DEF RationInv, LedgerCovers
  <2> QED BY <1>1, <2>1, <2>2
<1>3. Rationed'
  <2> SUFFICES ASSUME NEW lo \in Nat PROVE Cardinality(Positions(lo, lo + Window - 1)') <= MaxInterrupts
    BY DEF Rationed, Positions, ShownTime
  <2>1. lo + Window - 1 \in Int
    BY DEF ProactivityAssumption
  <2>2. Cardinality(Positions(lo, lo + Window - 1)) <= MaxInterrupts
    BY DEF RationInv, Rationed
  <2>3. PICK hi \in Int : hi = lo + Window - 1
    BY <2>1
  <2> QED BY <1>1, <2>2, <2>3 DEF ProactivityAssumption
<1> QED BY <1>2, <1>3

\* What an observation's delivery leaves of the ledger.
LEMMA DeliveryIs ==
  ASSUME ProactivityAssumption, ProactivityTypes, NEW urgent \in BOOLEAN
  PROVE  /\ Delivery(urgent, pNow).ledger \in Seq(Nat)
         /\ \A lo \in Nat : lo > pNow - Window =>
              Cardinality(Since(interruptions, lo)) <= Cardinality(Since(Delivery(urgent, pNow).ledger, lo))
         /\ Delivery(urgent, pNow).mode = "interrupt" =>
              \A lo \in Nat : lo > pNow - Window =>
                /\ Cardinality(Since(interruptions, lo)) < MaxInterrupts
                /\ lo <= pNow => Cardinality(Since(interruptions, lo)) < Cardinality(Since(Delivery(urgent, pNow).ledger, lo))
<1>1. PICK ledger \in Seq(Nat), time \in Nat : ledger = interruptions /\ time = pNow
  BY DEF ProactivityTypes
<1>2. PICK left : left = Expired(ledger, time)
  OBVIOUS
<1>3. PICK d : d = Delivery(urgent, pNow)
  OBVIOUS
<1>a. ASSUME NEW lo \in Nat, lo > time - Window
      PROVE  left \in Seq(Nat) /\ Cardinality(Since(ledger, lo)) <= Cardinality(Since(left, lo))
  BY <1>2, <1>a, ExpiredKeeps
<1>5. left \in Seq(Nat)
  <2>1. \E lo \in Nat : lo > time - Window
    <3>1. CASE Window \in Nat
      <4>1. time + 1 \in Nat /\ (time + 1 > time - Window)
        BY <3>1
      <4> QED BY <4>1
    <3>2. CASE -Window \in Nat
      <4>1. time + 1 - Window \in Nat /\ (time + 1 - Window > time - Window)
        BY <3>2 DEF ProactivityAssumption
      <4> QED BY <4>1
    <3> QED BY <3>1, <3>2 DEF ProactivityAssumption
  <2> QED BY <1>a, <2>1
<1>4. \/ d.mode = "hitchhike" /\ d.ledger = ledger
      \/ d.mode = "digest" /\ d.ledger = left
      \/ d.mode = "interrupt" /\ Len(left) < MaxInterrupts /\ d.ledger = Append(left, time)
  <2>1. left \in Seq(Nat) => Len(left) \in Nat
    OBVIOUS
  <2> QED BY <1>1, <1>2, <1>3, <1>5, <2>1 DEF Delivery, ProactivityAssumption
<1>6. ASSUME NEW lo \in Nat
      PROVE  /\ Cardinality(Since(ledger, lo)) \in Nat /\ Cardinality(Since(left, lo)) \in Nat
             /\ Cardinality(Since(left, lo)) <= Len(left)
             /\ Cardinality(Since(Append(left, time), lo))
                  = IF lo <= time THEN Cardinality(Since(left, lo)) + 1 ELSE Cardinality(Since(left, lo))
  <2>1. PICK l \in Seq(Nat) : l = left
    BY <1>5
  <2>2. Cardinality(Since(ledger, lo)) \in Nat /\ Cardinality(Since(l, lo)) \in Nat /\ Cardinality(Since(l, lo)) <= Len(l)
    BY SinceFinite
  <2>3. Cardinality(Since(Append(l, time), lo))
          = IF lo <= time THEN Cardinality(Since(l, lo)) + 1 ELSE Cardinality(Since(l, lo))
    BY EntryAdded
  <2> QED BY <2>1, <2>2, <2>3
<1>7. d.ledger \in Seq(Nat)
  <2>1. Append(left, time) \in Seq(Nat)
    BY <1>5, AppendProperties
  <2> QED BY <1>4, <1>5, <2>1
<1>8. ASSUME NEW lo \in Nat, lo > time - Window
      PROVE  Cardinality(Since(ledger, lo)) <= Cardinality(Since(d.ledger, lo))
  <2>1. PICK c \in Nat : c = Cardinality(Since(ledger, lo))
    BY <1>6
  <2>2. PICK e \in Nat : e = Cardinality(Since(left, lo))
    BY <1>6
  <2>3. c <= e
    BY <1>8, <1>a, <2>1, <2>2
  <2>4. CASE d.ledger = ledger
    BY <2>1, <2>4
  <2>5. CASE d.ledger = left
    BY <2>1, <2>2, <2>3, <2>5
  <2>6. CASE d.ledger = Append(left, time)
    <3>1. Cardinality(Since(d.ledger, lo)) \in {e, e + 1}
      BY <1>6, <2>2, <2>6
    <3> QED BY <2>1, <2>3, <3>1
  <2> QED BY <1>4, <2>4, <2>5, <2>6
<1>9. ASSUME NEW lo \in Nat, lo > time - Window, d.mode = "interrupt"
      PROVE  /\ Cardinality(Since(ledger, lo)) < MaxInterrupts
             /\ lo <= time => Cardinality(Since(ledger, lo)) < Cardinality(Since(d.ledger, lo))
  <2>1. Len(left) < MaxInterrupts /\ d.ledger = Append(left, time)
    BY <1>4, <1>9
  <2>2. PICK n \in Nat : n = Len(left)
    BY <1>5, LenProperties
  <2>3. PICK c \in Nat : c = Cardinality(Since(ledger, lo))
    BY <1>6
  <2>4. PICK e \in Nat : e = Cardinality(Since(left, lo))
    BY <1>6
  <2>5. c <= e /\ e <= n /\ n < MaxInterrupts /\ MaxInterrupts \in Nat
    BY <1>a, <1>6, <1>9, <2>1, <2>2, <2>3, <2>4 DEF ProactivityAssumption
  <2>6. lo <= time => Cardinality(Since(d.ledger, lo)) = e + 1
    BY <1>6, <2>1, <2>4
  <2> QED BY <2>3, <2>5, <2>6
<1> QED BY <1>1, <1>3, <1>7, <1>8, <1>9

\* What a tick raises of what is due: each once, none as an interruption.
LEMMA RaiseIs ==
  ASSUME ProactivityAssumption, NEW due \in SUBSET (Commitments \cup (1..MaxEmitted)), NEW all \in Raise(due),
         NEW raised, raised = Truncated(all)
  PROVE  /\ raised \in Seq(Impulses)
         /\ \A k \in 1..Len(raised) : /\ raised[k].shown = -1 /\ raised[k].origin \in due
                                      /\ \A j \in 1..Len(raised) : raised[j].origin = raised[k].origin => j = k
<1>1. PICK T : T = {Impulse(c, "hitchhike") : c \in due}
  OBVIOUS
<1>2. \A c : Impulse(c, "hitchhike") = [origin |-> c, shown |-> -1]
  BY DEF Impulse
<1>3. \A x \in T : x \in Impulses /\ x = [origin |-> x.origin, shown |-> -1] /\ x.origin \in due
  BY <1>1, <1>2 DEF Impulses
<1>4. IsFiniteSet(T)
  <2>1. IsFiniteSet(due)
    <3>1. IsFiniteSet(1..MaxEmitted) /\ IsFiniteSet(Commitments)
      BY FS_Interval DEF ProactivityAssumption
    <3> QED BY <3>1, FS_Union, FS_Subset
  <2>2. PICK f : f = [c \in due |-> Impulse(c, "hitchhike")]
    OBVIOUS
  <2>3. f \in Surjection(due, T)
    BY <1>1, <2>2 DEF Surjection
  <2> QED BY <2>1, <2>3, FS_Surjection
<1>5. PICK n \in Nat : n = Cardinality(T)
  BY <1>4, FS_CardinalityType
<1>6. all \in [1..n -> T] /\ \A i, j \in 1..n : i # j => all[i] # all[j]
  BY <1>1, <1>5 DEF Raise, SetToSeqs
<1>7. all \in Seq(T) /\ Len(all) = n
  BY <1>6
<1>8. PICK m \in 0..n : raised = SubSeq(all, 1, m)
  <2>1. (IF n < Capacity THEN n ELSE Capacity) \in 0..n
    BY DEF ProactivityAssumption
  <2>2. raised = SubSeq(all, 1, IF n < Capacity THEN n ELSE Capacity)
    BY <1>7 DEF Truncated
  <2> QED BY <2>1, <2>2
<1>9. /\ raised \in Seq(T) /\ Len(raised) = m
      /\ \A k \in 1..m : raised[k] = all[k]
  <2>1. 1 \in 1..(n + 1) /\ m \in 0..n
    OBVIOUS
  <2>2. CASE m = 0
    BY <1>7, <1>8, <2>2
  <2>3. CASE m # 0
    BY <1>7, <1>8, <2>3, SubSeqProperties
  <2> QED BY <2>2, <2>3
<1>10. raised \in Seq(Impulses)
  BY <1>3, <1>9
<1>11. ASSUME NEW k \in 1..m, NEW j \in 1..m
       PROVE  /\ raised[k].shown = -1 /\ raised[k].origin \in due
              /\ raised[j].origin = raised[k].origin => j = k
  <2>1. raised[k] = all[k] /\ raised[j] = all[j] /\ all[k] \in T /\ all[j] \in T
    BY <1>6, <1>9
  <2>2. raised[j].origin = raised[k].origin => all[k] = all[j]
    BY <1>3, <2>1
  <2> QED BY <1>3, <1>6, <2>1, <2>2
<1> QED BY <1>9, <1>10, <1>11

\* Where proposals and waiting impulses stand after a step that keeps their order.
LEMMA RaisedKept ==
  ASSUME RaisedInv, NEW g, \A c \in Commitments \cup (1..MaxEmitted) : IsSettled(c) => IsSettled(c)',
         \A i \in Raisings' : g[i] \in Raisings /\ OriginAt(i)' = OriginAt(g[i]),
         \A i, j \in Raisings' : g[i] = g[j] => i = j
  PROVE  RaisedInv'
<1> SUFFICES ASSUME NEW i \in Raisings', OriginAt(i)' \in Commitments \cup (1..MaxEmitted)
             PROVE  IsSettled(OriginAt(i))' /\ \A j \in Raisings' : OriginAt(j)' = OriginAt(i)' => j = i
  BY DEF RaisedInv
<1>1. PICK c : c = OriginAt(g[i])
  OBVIOUS
<1>2. OriginAt(i)' = c /\ c \in Commitments \cup (1..MaxEmitted) /\ g[i] \in Raisings
  BY <1>1
<1>3. IsSettled(c) /\ \A k \in Raisings : OriginAt(k) = c => k = g[i]
  BY <1>1, <1>2 DEF RaisedInv
<1>4. IsSettled(c)'
  BY <1>2, <1>3
<1>5. ASSUME NEW j \in Raisings', OriginAt(j)' = OriginAt(i)' PROVE j = i
  BY <1>1, <1>2, <1>3, <1>5
<1>6. IsSettled(OriginAt(i))'
  BY <1>2, <1>4 DEF IsSettled
<1> QED BY <1>5, <1>6

\* An observation is shown when the ledger has room.
LEMMA ObserveTickKeeps ==
  ASSUME ProactivityAssumption, ProactivityInv, NEW o \in Origins, NEW urgent \in BOOLEAN, ObserveTick(o, urgent)
  PROVE  ProactivityInv'
<1>1. PICK d : d = Delivery(urgent, pNow)
  OBVIOUS
<1>2. /\ impulses = <<>> /\ interruptions' = d.ledger
      /\ impulses' = <<>> \/ (impulses' = <<Impulse(o, d.mode)>> /\ o \notin suppressed)
      /\ UNCHANGED <<pNow, commitment, suppressed, sequence, deferred, accepted, emitted>>
  BY <1>1 DEF ObserveTick
<1>3. Impulse(o, d.mode) \in Impulses /\ Impulse(o, d.mode) = [origin |-> o, shown |-> IF d.mode = "interrupt" THEN pNow ELSE -1]
  BY DEF Impulse, Impulses, ProactivityInv, ProactivityTypes
<1>4. impulses' \in Seq(Impulses) /\ Len(impulses') <= 1 /\ Len(impulses') \in Nat
  <2>1. CASE impulses' = <<>>
    BY <2>1
  <2>2. CASE impulses' = <<Impulse(o, d.mode)>>
    BY <1>3, <2>2
  <2> QED BY <1>2, <2>1, <2>2
<1>5. ProactivityTypes'
  BY <1>1, <1>2, <1>4, DeliveryIs DEF ProactivityInv, ProactivityTypes
<1>6. AloneShown'
  BY <1>4 DEF AloneShown
<1>7. PICK n \in Nat : n = Len(emitted)
  BY LenProperties DEF ProactivityInv, ProactivityTypes
<1>8. \A i \in 1..n : ShownTime(i)' = ShownTime(i) /\ OriginAt(i)' = OriginAt(i)
  BY <1>2, <1>7 DEF ShownTime, OriginAt
<1>9. ShownTime(n + 1) = -1
  BY <1>2, <1>7 DEF ShownTime
<1>10. ASSUME impulses' = <<>> \/ d.mode # "interrupt" PROVE LedgerCovers' /\ Rationed'
  <2>1. ShownTime(n + 1)' = -1
    BY <1>2, <1>3, <1>7, <1>10 DEF ShownTime
  <2>2. \A lo \in Nat, hi \in Int : Positions(lo, hi)' \subseteq Positions(lo, hi)
    BY <1>2, <1>7, <1>8, <1>9, <2>1 DEF Positions
  <2>3. \A lo \in Nat : lo > pNow - Window => Cardinality(Since(interruptions, lo)) <= Cardinality(Since(interruptions, lo)')
    BY <1>1, <1>2, DeliveryIs DEF ProactivityInv, Since
  <2>4. pNow' >= pNow
    BY <1>2 DEF ProactivityInv, ProactivityTypes
  <2> QED BY <1>5, <2>2, <2>3, <2>4, RationKept DEF ProactivityInv
<1>11. ASSUME impulses' # <<>>, d.mode = "interrupt" PROVE LedgerCovers' /\ Rationed'
  <2>1. ShownTime(n + 1)' = pNow
    BY <1>2, <1>3, <1>7, <1>11 DEF ShownTime
  <2>2. PICK time \in Nat : time = pNow
    BY DEF ProactivityInv, ProactivityTypes
  <2>3. ASSUME NEW lo \in Nat, NEW hi \in Int
        PROVE  /\ Cardinality(Positions(lo, hi)) \in Nat
               /\ Cardinality(Positions(lo, hi)') = IF lo <= time /\ time <= hi THEN Cardinality(Positions(lo, hi)) + 1
                                                    ELSE Cardinality(Positions(lo, hi))
    <3>1. IsFiniteSet(Positions(lo, hi)) /\ Cardinality(Positions(lo, hi)) \in Nat
      BY <1>7, PositionsFinite
    <3>2. n + 1 \notin Positions(lo, hi)
      BY <1>9 DEF Positions
    <3>3. Positions(lo, hi)' = IF lo <= time /\ time <= hi THEN Positions(lo, hi) \cup {n + 1} ELSE Positions(lo, hi)
      BY <1>2, <1>7, <1>8, <1>9, <2>1, <2>2 DEF Positions
    <3> QED BY <3>1, <3>2, <3>3, FS_AddElement
  <2>4. ASSUME NEW lo \in Nat, lo > time - Window
        PROVE  /\ Cardinality(Since(interruptions, lo)) \in Nat /\ Cardinality(Since(interruptions, lo)') \in Nat
               /\ Cardinality(Since(interruptions, lo)) <= Cardinality(Since(interruptions, lo)')
               /\ Cardinality(Since(interruptions, lo)) < MaxInterrupts
               /\ lo <= time => Cardinality(Since(interruptions, lo)) < Cardinality(Since(interruptions, lo)')
    <3>1. PICK l1 \in Seq(Nat), l2 \in Seq(Nat) : l1 = interruptions /\ l2 = interruptions'
      BY <1>5 DEF ProactivityInv, ProactivityTypes
    <3>2. Cardinality(Since(l1, lo)) \in Nat /\ Cardinality(Since(l2, lo)) \in Nat
      BY SinceFinite
    <3>3. Since(interruptions, lo) = Since(l1, lo) /\ Since(interruptions, lo)' = Since(l2, lo)
      BY <3>1 DEF Since
    <3>4. l2 = Delivery(urgent, pNow).ledger /\ Delivery(urgent, pNow).mode = "interrupt"
      BY <1>1, <1>2, <1>11, <3>1
    <3>5. /\ Cardinality(Since(interruptions, lo)) <= Cardinality(Since(l2, lo))
          /\ Cardinality(Since(interruptions, lo)) < MaxInterrupts
          /\ lo <= time => Cardinality(Since(interruptions, lo)) < Cardinality(Since(l2, lo))
      BY <2>2, <2>4, <3>4, DeliveryIs DEF ProactivityInv
    <3> QED BY <3>2, <3>3, <3>5
  <2>5. LedgerCovers'
    <3> SUFFICES ASSUME NEW lo \in Nat, NEW hi \in Int, lo > time - Window
                 PROVE  Cardinality(Positions(lo, hi)') <= Cardinality(Since(interruptions, lo)')
      BY <1>2, <2>2 DEF LedgerCovers, Since
    <3>1. Cardinality(Positions(lo, hi)) <= Cardinality(Since(interruptions, lo))
      BY <2>2 DEF ProactivityInv, RationInv, LedgerCovers
    <3>2. CASE lo <= time /\ time <= hi
      BY <2>3, <2>4, <3>1, <3>2
    <3>3. CASE ~(lo <= time /\ time <= hi)
      <4>1. Cardinality(Positions(lo, hi)') = Cardinality(Positions(lo, hi)) /\ Cardinality(Positions(lo, hi)) \in Nat
        BY <2>3, <3>3
      <4> QED BY <2>4, <3>1, <4>1
    <3> QED BY <3>2, <3>3
  <2>6. Rationed'
    <3> SUFFICES ASSUME NEW lo \in Nat PROVE Cardinality(Positions(lo, lo + Window - 1)') <= MaxInterrupts
      BY DEF Rationed, Positions, ShownTime
    <3>1. PICK hi \in Int : hi = lo + Window - 1
      BY DEF ProactivityAssumption
    <3>2. Cardinality(Positions(lo, hi)) <= MaxInterrupts
      BY <3>1 DEF ProactivityInv, RationInv, Rationed
    <3>3. CASE lo <= time /\ time <= hi
      <4>1. lo > time - Window
        BY <3>1, <3>3 DEF ProactivityAssumption
      <4>2. Cardinality(Positions(lo, hi)) <= Cardinality(Since(interruptions, lo))
        BY <2>2, <4>1 DEF ProactivityInv, RationInv, LedgerCovers
      <4>3. Cardinality(Positions(lo, hi)) < MaxInterrupts
        BY <2>3, <2>4, <4>1, <4>2 DEF ProactivityAssumption
      <4>4. Cardinality(Positions(lo, hi)') = Cardinality(Positions(lo, hi)) + 1 /\ Cardinality(Positions(lo, hi)) \in Nat
        BY <2>3, <3>3
      <4> QED BY <3>1, <4>3, <4>4 DEF ProactivityAssumption
    <3>4. CASE ~(lo <= time /\ time <= hi)
      BY <2>3, <3>1, <3>2, <3>4
    <3> QED BY <3>3, <3>4
  <2> QED BY <2>5, <2>6
<1>12. RaisedInv'
  <2>1. Raisings = 1..n /\ Raisings' \subseteq 1..(n + 1)
    BY <1>2, <1>4, <1>7 DEF Raisings
  <2>2. n + 1 \in Raisings' => OriginAt(n + 1)' = o
    BY <1>2, <1>3, <1>7 DEF Raisings, OriginAt
  <2>3. o \notin Commitments \cup (1..MaxEmitted)
    BY DEF ProactivityAssumption
  <2>4. \A c : IsSettled(c)' <=> IsSettled(c)
    BY <1>2 DEF IsSettled
  <2>5. ASSUME NEW i \in Raisings', OriginAt(i)' \in Commitments \cup (1..MaxEmitted)
        PROVE  IsSettled(OriginAt(i))' /\ \A j \in Raisings' : OriginAt(j)' = OriginAt(i)' => j = i
    <3>1. i \in 1..n /\ i \in Raisings
      BY <2>1, <2>2, <2>3, <2>5
    <3>2. PICK c : c = OriginAt(i)
      OBVIOUS
    <3>3. OriginAt(i)' = c /\ IsSettled(c) /\ \A j \in Raisings : OriginAt(j) = c => j = i
      BY <1>8, <2>5, <3>1, <3>2 DEF ProactivityInv, RaisedInv
    <3>4. IsSettled(OriginAt(i))'
      BY <1>2, <3>3 DEF IsSettled
    <3>5. ASSUME NEW j \in Raisings', OriginAt(j)' = c PROVE j = i
      <4>1. j \in 1..n
        BY <2>1, <2>2, <2>3, <2>5, <3>3, <3>5
      <4> QED BY <1>8, <2>1, <3>3, <3>5, <4>1
    <3> QED BY <3>3, <3>4, <3>5
  <2> QED BY <2>5 DEF RaisedInv
<1>13. DeferralIsKept'
  BY <1>2 DEF ProactivityInv, DeferralIsKept
<1> QED BY <1>5, <1>6, <1>10, <1>11, <1>12, <1>13 DEF ProactivityInv, RationInv

\* The ration of steps that leave the ledger alone.
LEMMA LedgerLeftAlone ==
  ASSUME ProactivityAssumption, ProactivityInv, ProactivityTypes', interruptions' = interruptions, pNow' >= pNow,
         \A lo \in Nat, hi \in Int : Positions(lo, hi)' \subseteq Positions(lo, hi)
  PROVE  LedgerCovers' /\ Rationed'
<1>1. \A lo \in Nat : Since(interruptions, lo)' = Since(interruptions, lo)
  BY DEF Since
<1>2. ASSUME NEW lo \in Nat PROVE Cardinality(Since(interruptions, lo)) <= Cardinality(Since(interruptions, lo)')
  <2>1. PICK l1 \in Seq(Nat) : l1 = interruptions
    BY DEF ProactivityInv, ProactivityTypes
  <2>2. Cardinality(Since(l1, lo)) \in Nat
    BY SinceFinite
  <2> QED BY <1>1, <2>1, <2>2
<1> QED BY <1>2, RationKept DEF ProactivityInv

\* What a tick raises was not settled before, and is now.
LEMMA TickCommitmentsKeeps ==
  ASSUME ProactivityAssumption, ProactivityInv, TickCommitments
  PROVE  ProactivityInv'
<1>1. PICK due : due = DueIntentions
  OBVIOUS
<1>2. due \in SUBSET (Commitments \cup (1..MaxEmitted)) /\ \A c \in due : ~IsSettled(c)
  <2>1. DOMAIN deferred = 1..MaxEmitted
    BY DEF ProactivityInv, ProactivityTypes
  <2>2. Commitments \cap (1..MaxEmitted) = {}
    BY DEF ProactivityAssumption
  <2> QED BY <1>1, <2>1, <2>2 DEF DueIntentions, IsSettled
<1>3. PICK all \in Raise(due) : impulses' = Truncated(all)
  BY <1>1 DEF TickCommitments
<1>4. PICK raised : raised = impulses'
  OBVIOUS
<1>5. /\ raised \in Seq(Impulses)
      /\ \A k \in 1..Len(raised) : /\ raised[k].shown = -1 /\ raised[k].origin \in due
                                   /\ \A j \in 1..Len(raised) : raised[j].origin = raised[k].origin => j = k
  BY <1>2, <1>3, <1>4, RaiseIs
<1>6. /\ impulses = <<>> /\ UNCHANGED <<pNow, interruptions, suppressed, sequence, emitted>>
      /\ commitment' = [c \in Commitments |-> IF c \in due THEN "done" ELSE commitment[c]]
      /\ deferred' = [id \in DOMAIN deferred |-> [deferred[id] EXCEPT !.state = IF id \in due THEN "done" ELSE @]]
      /\ accepted' = {a \in accepted : a.id \notin due}
  BY <1>1 DEF TickCommitments
<1>7. DOMAIN deferred = 1..MaxEmitted
  BY DEF ProactivityInv, ProactivityTypes
<1>8. ProactivityTypes'
  BY <1>4, <1>5, <1>6, <1>7 DEF ProactivityInv, ProactivityTypes
<1>9. PICK n \in Nat : n = Len(emitted)
  BY LenProperties DEF ProactivityInv, ProactivityTypes
<1>10. ShownTime(n + 1)' = -1
  <2>1. CASE raised = <<>>
    BY <1>4, <1>6, <1>9, <2>1 DEF ShownTime
  <2>2. CASE raised # <<>>
    <3>1. 1 \in 1..Len(raised) /\ Head(raised) = raised[1]
      BY <1>5, <2>2
    <3> QED BY <1>4, <1>5, <1>6, <1>9, <2>2, <3>1 DEF ShownTime
  <2> QED BY <2>1, <2>2
<1>11. \A i \in 1..n : ShownTime(i)' = ShownTime(i) /\ OriginAt(i)' = OriginAt(i)
  BY <1>6, <1>9 DEF ShownTime, OriginAt
<1>12. LedgerCovers' /\ Rationed'
  <2>1. \A lo \in Nat, hi \in Int : Positions(lo, hi)' \subseteq Positions(lo, hi)
    BY <1>6, <1>9, <1>10, <1>11 DEF Positions
  <2>2. pNow' >= pNow
    BY <1>6 DEF ProactivityInv, ProactivityTypes
  <2> QED BY <1>6, <1>8, <2>1, <2>2, LedgerLeftAlone
<1>13. AloneShown'
  BY <1>4, <1>5 DEF AloneShown
<1>14. \A c \in Commitments \cup (1..MaxEmitted) : (c \in due \/ IsSettled(c)) => IsSettled(c)'
  <2>1. ASSUME NEW c \in Commitments, c \in due \/ IsSettled(c) PROVE IsSettled(c)'
    <3>1. c \notin 1..MaxEmitted
      BY DEF ProactivityAssumption
    <3> QED BY <1>6, <2>1, <3>1 DEF IsSettled
  <2>2. ASSUME NEW c \in 1..MaxEmitted, c \in due \/ IsSettled(c) PROVE IsSettled(c)'
    <3>1. c \notin Commitments
      BY DEF ProactivityAssumption
    <3>2. deferred'[c].state = "done"
      <4>1. deferred'[c] = [deferred[c] EXCEPT !.state = IF c \in due THEN "done" ELSE @]
        BY <1>6, <1>7
      <4> QED BY <2>2, <3>1, <4>1 DEF IsSettled
    <3> QED BY <3>2 DEF IsSettled
  <2> QED BY <2>1, <2>2
<1>15. RaisedInv'
  <2>1. Raisings = 1..n /\ Raisings' = 1..(n + Len(raised)) /\ Len(raised) \in Nat
    BY <1>4, <1>5, <1>6, <1>9 DEF Raisings
  <2>2. ASSUME NEW i \in Raisings', i \notin 1..n
        PROVE  /\ i - n \in 1..Len(raised) /\ OriginAt(i)' = raised[i - n].origin
    BY <1>4, <1>6, <1>9, <2>1, <2>2 DEF OriginAt
  <2>3. SUFFICES ASSUME NEW i \in Raisings', OriginAt(i)' \in Commitments \cup (1..MaxEmitted)
                 PROVE  IsSettled(OriginAt(i))' /\ \A j \in Raisings' : OriginAt(j)' = OriginAt(i)' => j = i
    BY DEF RaisedInv
  <2>4. PICK c : c = OriginAt(i)'
    OBVIOUS
  <2>5. CASE i \in 1..n
    <3>1. OriginAt(i) = c /\ IsSettled(c) /\ \A j \in Raisings : OriginAt(j) = c => j = i
      BY <1>11, <2>1, <2>3, <2>4, <2>5 DEF ProactivityInv, RaisedInv
    <3>2. c \notin due
      BY <1>2, <3>1
    <3>3. IsSettled(c)'
      BY <1>14, <2>3, <2>4, <3>1
    <3>4. ASSUME NEW j \in Raisings', OriginAt(j)' = c PROVE j = i
      <4>1. j \in 1..n
        BY <1>5, <2>2, <3>2, <3>4
      <4> QED BY <1>11, <2>1, <3>1, <3>4, <4>1
    <3> QED BY <2>4, <3>3, <3>4 DEF IsSettled
  <2>6. CASE i \notin 1..n
    <3>1. i - n \in 1..Len(raised) /\ c = raised[i - n].origin /\ c \in due
      BY <1>5, <2>2, <2>4, <2>6
    <3>2. IsSettled(c)'
      BY <1>2, <1>14, <3>1
    <3>3. ASSUME NEW j \in Raisings', OriginAt(j)' = c PROVE j = i
      <4>1. j \notin 1..n
        <5>1. SUFFICES ASSUME j \in 1..n PROVE FALSE
          OBVIOUS
        <5>2. OriginAt(j) = c /\ j \in Raisings
          BY <1>11, <2>1, <3>3, <5>1
        <5> QED BY <1>2, <3>1, <5>2 DEF ProactivityInv, RaisedInv
      <4>2. j - n \in 1..Len(raised) /\ raised[j - n].origin = raised[i - n].origin
        BY <2>2, <3>1, <3>3, <4>1
      <4>3. j - n = i - n
        BY <1>5, <3>1, <4>2
      <4> QED BY <2>1, <4>3
    <3> QED BY <2>4, <3>2, <3>3 DEF IsSettled
  <2> QED BY <2>5, <2>6
<1>16. DeferralIsKept'
  <2> SUFFICES ASSUME NEW a \in accepted'
               PROVE  deferred'[a.id] = [origin |-> a.origin, at |-> a.at, state |-> "pending"]
    BY DEF DeferralIsKept
  <2>1. a \in accepted /\ a.id \notin due /\ a.id \in 1..MaxEmitted
    BY <1>6 DEF ProactivityInv, ProactivityTypes
  <2>2. deferred[a.id] = [origin |-> a.origin, at |-> a.at, state |-> "pending"]
    BY <2>1 DEF ProactivityInv, DeferralIsKept
  <2>3. deferred'[a.id] = [deferred[a.id] EXCEPT !.state = @]
    BY <1>6, <1>7, <2>1
  <2> QED BY <2>2, <2>3
<1> QED BY <1>8, <1>12, <1>13, <1>15, <1>16 DEF ProactivityInv, RationInv

\* Steps that raise nothing: a waiting impulse becomes a proposal or is dropped, and the process restarts.
LEMMA EmitKeeps ==
  ASSUME ProactivityAssumption, ProactivityInv, Emit
  PROVE  ProactivityInv'
<1>1. /\ impulses # <<>> /\ Len(emitted) < MaxEmitted
      /\ emitted' = Append(emitted, [impulse |-> Head(impulses), ref |-> sequence])
      /\ impulses' = Tail(impulses) /\ sequence' = sequence + 1
      /\ UNCHANGED <<pNow, interruptions, commitment, suppressed, deferred, accepted>>
  BY DEF Emit
<1>2. PICK n \in Nat, m \in Nat : n = Len(emitted) /\ m = Len(impulses)
  BY LenProperties DEF ProactivityInv, ProactivityTypes
<1>3. /\ Head(impulses) = impulses[1] /\ m >= 1 /\ impulses' \in Seq(Impulses) /\ Len(impulses') = m - 1
      /\ \A k \in 1..(m - 1) : impulses'[k] = impulses[k + 1]
  BY <1>1, <1>2, HeadTailProperties DEF ProactivityInv, ProactivityTypes
<1>4. [impulse |-> Head(impulses), ref |-> sequence] \in [impulse : Impulses, ref : 1..MaxEmitted]
  <2>1. Head(impulses) \in Impulses
    BY <1>2, <1>3 DEF ProactivityInv, ProactivityTypes
  <2>2. sequence \in 1..MaxEmitted
    BY <1>1, <1>2 DEF ProactivityInv, ProactivityTypes, ProactivityAssumption
  <2> QED BY <2>1, <2>2
<1>5. /\ emitted' \in Seq([impulse : Impulses, ref : 1..MaxEmitted]) /\ Len(emitted') = n + 1
      /\ \A k \in 1..n : emitted'[k] = emitted[k]
      /\ emitted'[n + 1] = [impulse |-> Head(impulses), ref |-> sequence]
  BY <1>1, <1>2, <1>4, AppendProperties DEF ProactivityInv, ProactivityTypes
<1>6. ProactivityTypes'
  BY <1>1, <1>2, <1>3, <1>5 DEF ProactivityInv, ProactivityTypes, ProactivityAssumption
<1>7. AloneShown'
  BY <1>2, <1>3 DEF ProactivityInv, RationInv, AloneShown
<1>8. \A i \in 1..(n + 1) : ShownTime(i)' = ShownTime(i)
  BY <1>1, <1>2, <1>3, <1>5 DEF ShownTime
<1>9. ShownTime(n + 2)' = -1
  <2>1. CASE m = 1
    <3>1. impulses' = <<>>
      BY <1>3, <2>1
    <3> QED BY <1>5, <3>1 DEF ShownTime
  <2>2. CASE m > 1
    <3>1. impulses' # <<>> /\ Head(impulses') = impulses[2] /\ impulses[2].shown = -1
      BY <1>2, <1>3, <2>2 DEF ProactivityInv, RationInv, AloneShown
    <3> QED BY <1>5, <3>1 DEF ShownTime
  <2> QED BY <1>3, <2>1, <2>2
<1>10. LedgerCovers' /\ Rationed'
  <2>1. \A lo \in Nat, hi \in Int : Positions(lo, hi)' \subseteq Positions(lo, hi)
    BY <1>2, <1>5, <1>8, <1>9 DEF Positions
  <2>2. pNow' >= pNow
    BY <1>1 DEF ProactivityInv, ProactivityTypes
  <2> QED BY <1>1, <1>6, <2>1, <2>2, LedgerLeftAlone
<1>11. RaisedInv'
  <2>1. PICK g : g = [i \in Raisings' |-> i]
    OBVIOUS
  <2>2. Raisings' = Raisings
    BY <1>2, <1>3, <1>5 DEF Raisings
  <2>3. ASSUME NEW i \in Raisings' PROVE g[i] \in Raisings /\ OriginAt(i)' = OriginAt(g[i])
    <3>1. i \in 1..(n + m)
      BY <1>2, <2>2 DEF Raisings
    <3>2. CASE i \in 1..n
      BY <1>2, <1>5, <2>1, <2>2, <3>2 DEF OriginAt
    <3>3. CASE i = n + 1
      BY <1>2, <1>3, <1>5, <2>1, <2>2, <3>3 DEF OriginAt
    <3>4. CASE i \in (n + 2)..(n + m)
      <4>1. i - (n + 1) \in 1..(m - 1) /\ (i - (n + 1)) + 1 = i - n
        BY <3>4
      <4>2. OriginAt(i)' = impulses'[i - (n + 1)].origin /\ OriginAt(i) = impulses[i - n].origin
        BY <1>2, <1>5, <3>4 DEF OriginAt
      <4> QED BY <1>3, <2>1, <2>2, <4>1, <4>2
    <3> QED BY <3>1, <3>2, <3>3, <3>4
  <2>4. \A c : IsSettled(c)' <=> IsSettled(c)
    BY <1>1 DEF IsSettled
  <2> QED BY <2>1, <2>3, <2>4, RaisedKept DEF ProactivityInv
<1>12. DeferralIsKept'
  BY <1>1 DEF ProactivityInv, DeferralIsKept
<1> QED BY <1>6, <1>7, <1>10, <1>11, <1>12 DEF ProactivityInv, RationInv

\* An impulse that is not worth it is dropped.
LEMMA NotWorthKeeps ==
  ASSUME ProactivityAssumption, ProactivityInv, NotWorth
  PROVE  ProactivityInv'
<1>1. /\ impulses # <<>> /\ impulses' = Tail(impulses)
      /\ UNCHANGED <<pNow, interruptions, commitment, suppressed, sequence, deferred, accepted, emitted>>
  BY DEF NotWorth
<1>2. PICK n \in Nat, m \in Nat : n = Len(emitted) /\ m = Len(impulses)
  BY LenProperties DEF ProactivityInv, ProactivityTypes
<1>3. /\ Head(impulses) = impulses[1] /\ m >= 1 /\ impulses' \in Seq(Impulses) /\ Len(impulses') = m - 1
      /\ \A k \in 1..(m - 1) : impulses'[k] = impulses[k + 1]
  BY <1>1, <1>2, HeadTailProperties DEF ProactivityInv, ProactivityTypes
<1>4. ProactivityTypes'
  BY <1>1, <1>3 DEF ProactivityInv, ProactivityTypes
<1>5. AloneShown'
  BY <1>2, <1>3 DEF ProactivityInv, RationInv, AloneShown
<1>6. \A i \in 1..n : ShownTime(i)' = ShownTime(i)
  BY <1>1, <1>2 DEF ShownTime
<1>7. ShownTime(n + 1)' = -1
  <2>1. CASE m = 1
    <3>1. impulses' = <<>>
      BY <1>3, <2>1
    <3> QED BY <1>1, <1>2, <3>1 DEF ShownTime
  <2>2. CASE m > 1
    <3>1. impulses' # <<>> /\ Head(impulses') = impulses[2] /\ impulses[2].shown = -1
      BY <1>2, <1>3, <2>2 DEF ProactivityInv, RationInv, AloneShown
    <3> QED BY <1>1, <1>2, <3>1 DEF ShownTime
  <2> QED BY <1>3, <2>1, <2>2
<1>8. LedgerCovers' /\ Rationed'
  <2>1. \A lo \in Nat, hi \in Int : Positions(lo, hi)' \subseteq Positions(lo, hi)
    BY <1>1, <1>2, <1>6, <1>7 DEF Positions
  <2>2. pNow' >= pNow
    BY <1>1 DEF ProactivityInv, ProactivityTypes
  <2> QED BY <1>1, <1>4, <2>1, <2>2, LedgerLeftAlone
<1>9. RaisedInv'
  <2>1. PICK g : g = [i \in Raisings' |-> IF i <= n THEN i ELSE i + 1]
    OBVIOUS
  <2>2. Raisings = 1..(n + m) /\ Raisings' = 1..(n + m - 1)
    BY <1>1, <1>2, <1>3 DEF Raisings
  <2>3. ASSUME NEW i \in Raisings' PROVE g[i] \in Raisings /\ OriginAt(i)' = OriginAt(g[i])
    <3>1. CASE i \in 1..n
      BY <1>1, <1>2, <2>1, <2>2, <3>1 DEF OriginAt
    <3>2. CASE i \in (n + 1)..(n + m - 1)
      <4>1. i - n \in 1..(m - 1) /\ (i - n) + 1 = (i + 1) - n /\ g[i] = i + 1 /\ i + 1 \in Raisings
        BY <2>1, <2>2, <3>2
      <4>2. OriginAt(i)' = impulses'[i - n].origin /\ OriginAt(i + 1) = impulses[(i + 1) - n].origin
        BY <1>1, <1>2, <3>2 DEF OriginAt
      <4> QED BY <1>3, <4>1, <4>2
    <3> QED BY <2>2, <3>1, <3>2
  <2>4. \A i, j \in Raisings' : g[i] = g[j] => i = j
    BY <2>1, <2>2
  <2>5. \A c : IsSettled(c)' <=> IsSettled(c)
    BY <1>1 DEF IsSettled
  <2> QED BY <2>3, <2>4, <2>5, RaisedKept DEF ProactivityInv
<1>10. DeferralIsKept'
  BY <1>1 DEF ProactivityInv, DeferralIsKept
<1> QED BY <1>4, <1>5, <1>8, <1>9, <1>10 DEF ProactivityInv, RationInv

\* What a proposal is.
LEMMA EmittedIs ==
  ASSUME ProactivityTypes, NEW n \in Nat, n = Len(emitted)
  PROVE  DOMAIN emitted = 1..n /\ \A i \in 1..n : emitted[i] \in [impulse : Impulses, ref : 1..MaxEmitted]
<1>1. PICK S, s : S = [impulse : Impulses, ref : 1..MaxEmitted] /\ s = emitted
  OBVIOUS
<1>2. s \in Seq(S) /\ n = Len(s)
  BY <1>1 DEF ProactivityTypes
<1>3. DOMAIN s = 1..n /\ \A i \in 1..n : s[i] \in S
  BY <1>2
<1> QED BY <1>1, <1>3

\* A restart forgets what was shown; what was raised stays raised.
LEMMA EngineRestartsKeeps ==
  ASSUME ProactivityAssumption, ProactivityInv, EngineRestarts
  PROVE  ProactivityInv'
<1>1. /\ interruptions' = <<>> /\ impulses' = <<>> /\ suppressed' = {} /\ sequence' = 1
      /\ emitted' = [i \in DOMAIN emitted |-> [emitted[i] EXCEPT !.impulse.shown = -1]]
      /\ UNCHANGED <<pNow, commitment, deferred, accepted>>
  BY DEF EngineRestarts
<1>2. PICK n \in Nat, m \in Nat : n = Len(emitted) /\ m = Len(impulses)
  BY LenProperties DEF ProactivityInv, ProactivityTypes
<1>3. DOMAIN emitted = 1..n /\ \A i \in 1..n : emitted[i] \in [impulse : Impulses, ref : 1..MaxEmitted]
  BY <1>2, EmittedIs DEF ProactivityInv
<1>4. ASSUME NEW i \in 1..n
      PROVE  /\ emitted'[i] \in [impulse : Impulses, ref : 1..MaxEmitted]
             /\ emitted'[i].impulse.shown = -1 /\ emitted'[i].impulse.origin = emitted[i].impulse.origin
  <2>1. PICK e : e = emitted[i] /\ e \in [impulse : Impulses, ref : 1..MaxEmitted]
    BY <1>3
  <2>2. emitted'[i] = [e EXCEPT !.impulse.shown = -1]
    BY <1>1, <1>3, <2>1
  <2>3. PICK v : v = e.impulse /\ v \in Impulses
    BY <2>1
  <2>4. emitted'[i] = [impulse |-> [origin |-> v.origin, shown |-> -1], ref |-> e.ref]
    BY <2>1, <2>2, <2>3 DEF Impulses
  <2>5. [origin |-> v.origin, shown |-> -1] \in Impulses
    BY <2>3 DEF Impulses
  <2> QED BY <2>1, <2>3, <2>4, <2>5
<1>5. emitted' \in Seq([impulse : Impulses, ref : 1..MaxEmitted]) /\ Len(emitted') = n
  <2>1. PICK s : s = emitted' /\ s = [i \in 1..n |-> s[i]]
    BY <1>1, <1>3
  <2>2. \A i \in 1..n : s[i] \in [impulse : Impulses, ref : 1..MaxEmitted]
    BY <1>4, <2>1
  <2>3. s \in [1..n -> [impulse : Impulses, ref : 1..MaxEmitted]]
    BY <2>1, <2>2
  <2>4. PICK S : S = [impulse : Impulses, ref : 1..MaxEmitted]
    OBVIOUS
  <2>5. s \in [1..n -> S]
    BY <2>3, <2>4
  <2>6. s \in Seq(S) /\ Len(s) = n
    BY <1>2, <2>5
  <2> QED BY <2>1, <2>4, <2>6
<1>6. ProactivityTypes'
  BY <1>1, <1>2, <1>5 DEF ProactivityInv, ProactivityTypes
<1>7. AloneShown'
  BY <1>1 DEF AloneShown
<1>8. \A i \in 1..(n + 1) : ShownTime(i)' = -1
  BY <1>1, <1>2, <1>4, <1>5 DEF ShownTime
<1>9. \A lo \in Nat, hi \in Int : Positions(lo, hi)' = {}
  BY <1>5, <1>8 DEF Positions
<1>10. LedgerCovers'
  <2> SUFFICES ASSUME NEW lo \in Nat, NEW hi \in Int
               PROVE  Cardinality(Positions(lo, hi)') <= Cardinality(Since(interruptions, lo)')
    BY DEF LedgerCovers, Since
  <2>1. Since(interruptions, lo)' = {}
    BY <1>1 DEF Since
  <2>2. Positions(lo, hi)' = {}
    BY <1>9
  <2> QED BY <2>1, <2>2, FS_EmptySet
<1>11. Rationed'
  <2> SUFFICES ASSUME NEW lo \in Nat PROVE Cardinality(Positions(lo, lo + Window - 1)') <= MaxInterrupts
    BY DEF Rationed, Positions, ShownTime
  <2>1. PICK hi \in Int : hi = lo + Window - 1
    BY DEF ProactivityAssumption
  <2>2. Positions(lo, hi)' = {}
    BY <1>9
  <2> QED BY <2>1, <2>2, FS_EmptySet DEF ProactivityAssumption
<1>12. RaisedInv'
  <2>1. PICK g : g = [i \in Raisings' |-> i]
    OBVIOUS
  <2>2. Raisings = 1..(n + m) /\ Raisings' = 1..n
    BY <1>1, <1>2, <1>5 DEF Raisings
  <2>3. ASSUME NEW i \in Raisings' PROVE g[i] \in Raisings /\ OriginAt(i)' = OriginAt(g[i])
    BY <1>2, <1>4, <1>5, <2>1, <2>2 DEF OriginAt
  <2>4. \A c : IsSettled(c)' <=> IsSettled(c)
    BY <1>1 DEF IsSettled
  <2> QED BY <2>1, <2>3, <2>4, RaisedKept DEF ProactivityInv
<1>13. DeferralIsKept'
  BY <1>1 DEF ProactivityInv, DeferralIsKept
<1> QED BY <1>6, <1>7, <1>10, <1>11, <1>12, <1>13 DEF ProactivityInv, RationInv

\* The owner's answers and the clock raise and show nothing.
LEMMA AnswersKeep ==
  ASSUME ProactivityAssumption, ProactivityInv,
         \/ \E i \in DOMAIN emitted : Reject(i) \/ \E at \in DeferTimes : DeferProposal(i, at)
         \/ Later \/ UNCHANGED proactivityVars
  PROVE  ProactivityInv'
<1>1. UNCHANGED <<interruptions, impulses, emitted, commitment, sequence>>
  BY DEF Reject, DeferProposal, Later, proactivityVars
<1>2. pNow' \in Nat /\ pNow' >= pNow
  <2>1. pNow \in Nat
    BY DEF ProactivityInv, ProactivityTypes
  <2>2. pNow' = pNow \/ pNow' = pNow + 1
    BY DEF Reject, DeferProposal, Later, proactivityVars
  <2> QED BY <2>1, <2>2
<1>3. ASSUME NEW i \in DOMAIN emitted, NEW at, DeferProposal(i, at)
      PROVE  /\ deferred' = [x \in 1..MaxEmitted |-> deferred'[x]]
             /\ \A a \in accepted' : a.id \in 1..MaxEmitted
             /\ DeferralIsKept'
             /\ \A c \in 1..MaxEmitted : deferred[c].state = "done" => deferred'[c].state = "done"
  <2>1. PICK id, origin : id = emitted[i].ref /\ origin = emitted[i].impulse.origin
    OBVIOUS
  <2>2. id \in 1..MaxEmitted
    <3>1. PICK n \in Nat : n = Len(emitted)
      BY LenProperties DEF ProactivityInv, ProactivityTypes
    <3>2. i \in 1..n /\ emitted[i] \in [impulse : Impulses, ref : 1..MaxEmitted]
      BY <1>3, <3>1, EmittedIs DEF ProactivityInv
    <3> QED BY <2>1, <3>2
  <2>3. PICK wanted : wanted = [origin |-> origin, at |-> at, state |-> "pending"]
    OBVIOUS
  <2>4. /\ deferred[id] = wanted \/ deferred[id].state = "none"
        /\ deferred' = [deferred EXCEPT ![id] = wanted]
        /\ accepted' = {a \in accepted : a.id # id} \cup {[id |-> id, origin |-> origin, at |-> at]}
    BY <1>3, <2>1, <2>3 DEF DeferProposal
  <2>5. /\ deferred' = [x \in 1..MaxEmitted |-> deferred'[x]]
        /\ deferred'[id] = wanted /\ \A x \in 1..MaxEmitted : x # id => deferred'[x] = deferred[x]
    BY <2>2, <2>4 DEF ProactivityInv, ProactivityTypes
  <2>6. ASSUME NEW a \in accepted'
        PROVE  a.id \in 1..MaxEmitted /\ deferred'[a.id] = [origin |-> a.origin, at |-> a.at, state |-> "pending"]
    <3>1. CASE a = [id |-> id, origin |-> origin, at |-> at]
      BY <2>2, <2>3, <2>5, <3>1
    <3>2. CASE a \in accepted /\ a.id # id
      BY <2>5, <3>2 DEF ProactivityInv, ProactivityTypes, DeferralIsKept
    <3> QED BY <2>4, <3>1, <3>2
  <2>7. deferred[id].state # "done"
    BY <2>3, <2>4
  <2> QED BY <2>5, <2>6, <2>7 DEF DeferralIsKept
<1>4. /\ deferred' = [x \in 1..MaxEmitted |-> deferred'[x]]
      /\ \A a \in accepted' : a.id \in 1..MaxEmitted
      /\ DeferralIsKept'
      /\ \A c \in 1..MaxEmitted : deferred[c].state = "done" => deferred'[c].state = "done"
  <2>1. CASE UNCHANGED <<deferred, accepted>>
    BY <2>1 DEF ProactivityInv, ProactivityTypes, DeferralIsKept
  <2>2. CASE \E i \in DOMAIN emitted : \E at \in DeferTimes : DeferProposal(i, at)
    BY <1>3, <2>2
  <2>3. ASSUME NEW i, Reject(i) PROVE UNCHANGED <<deferred, accepted>>
    BY <2>3 DEF Reject
  <2>4. Later \/ UNCHANGED proactivityVars => UNCHANGED <<deferred, accepted>>
    BY DEF Later, proactivityVars
  <2> QED BY <2>1, <2>2, <2>3, <2>4
<1>5. ProactivityTypes'
  BY <1>1, <1>2, <1>4 DEF ProactivityInv, ProactivityTypes
<1>6. AloneShown'
  BY <1>1 DEF ProactivityInv, RationInv, AloneShown
<1>7. LedgerCovers' /\ Rationed'
  <2>1. \A i : ShownTime(i)' = ShownTime(i)
    BY <1>1 DEF ShownTime
  <2>2. \A lo \in Nat, hi \in Int : Positions(lo, hi)' \subseteq Positions(lo, hi)
    BY <1>1, <2>1 DEF Positions
  <2> QED BY <1>1, <1>2, <1>5, <2>2, LedgerLeftAlone
<1>8. RaisedInv'
  <2>1. PICK g : g = [i \in Raisings' |-> i]
    OBVIOUS
  <2>2. Raisings' = Raisings /\ \A i \in Raisings : OriginAt(i)' = OriginAt(i)
    BY <1>1 DEF Raisings, OriginAt
  <2>3. \A c \in Commitments \cup (1..MaxEmitted) : IsSettled(c) => IsSettled(c)'
    BY <1>1, <1>4 DEF IsSettled
  <2>4. \A i \in Raisings' : g[i] \in Raisings /\ OriginAt(i)' = OriginAt(g[i])
    BY <2>1, <2>2
  <2>5. \A i, j \in Raisings' : g[i] = g[j] => i = j
    BY <2>1
  <2> QED BY <2>3, <2>4, <2>5, RaisedKept DEF ProactivityInv
<1> QED BY <1>4, <1>5, <1>6, <1>7, <1>8 DEF ProactivityInv, RationInv

\* Nothing was shown or raised at the start.
LEMMA ProactivityInvInit == ProactivityAssumption /\ ProactivityInit => ProactivityInv
<1> SUFFICES ASSUME ProactivityAssumption, ProactivityInit PROVE ProactivityInv
  OBVIOUS
<1>1. /\ pNow = 0 /\ interruptions = <<>> /\ impulses = <<>> /\ sequence = 1 /\ emitted = <<>> /\ accepted = {}
      /\ commitment = [c \in Commitments |-> "pending"]
      /\ deferred = [id \in 1..MaxEmitted |-> [origin |-> 0, at |-> 0, state |-> "none"]]
  BY DEF ProactivityInit
<1>2. ProactivityTypes
  BY <1>1 DEF ProactivityTypes, ProactivityAssumption
<1>3. RaisedInv /\ DeferralIsKept /\ AloneShown
  BY <1>1 DEF RaisedInv, Raisings, DeferralIsKept, AloneShown
<1>4. \A lo \in Nat, hi \in Int : Positions(lo, hi) = {}
  BY <1>1 DEF Positions, ShownTime
<1>5. LedgerCovers
  <2> SUFFICES ASSUME NEW lo \in Nat, NEW hi \in Int
               PROVE  Cardinality(Positions(lo, hi)) <= Cardinality(Since(interruptions, lo))
    BY DEF LedgerCovers
  <2>1. Since(interruptions, lo) = {}
    BY <1>1 DEF Since
  <2> QED BY <1>4, <2>1, FS_EmptySet
<1>6. Rationed
  <2> SUFFICES ASSUME NEW lo \in Nat PROVE Cardinality(Positions(lo, lo + Window - 1)) <= MaxInterrupts
    BY DEF Rationed
  <2>1. PICK hi \in Int : hi = lo + Window - 1
    BY DEF ProactivityAssumption
  <2> QED BY <1>4, <2>1, FS_EmptySet DEF ProactivityAssumption
<1> QED BY <1>2, <1>3, <1>5, <1>6 DEF ProactivityInv, RationInv

\* Every step keeps the ration, the raisings and the deferrals right.
LEMMA ProactivityInvStep ==
  ProactivityAssumption /\ ProactivityInv /\ [ProactivityNext]_proactivityVars => ProactivityInv'
BY ObserveTickKeeps, TickCommitmentsKeeps, EmitKeeps, NotWorthKeeps, EngineRestartsKeeps, AnswersKeep DEF ProactivityNext

\* The invariant says what proactivity promises.
LEMMA ProactivityInvIsSound == ProactivityAssumption /\ ProactivityInv => ProactivityIsSound
<1> SUFFICES ASSUME ProactivityAssumption, ProactivityInv PROVE ProactivityIsSound
  OBVIOUS
<1>1. PICK n \in Nat, m \in Nat : n = Len(emitted) /\ m = Len(impulses)
  BY LenProperties DEF ProactivityInv, ProactivityTypes
<1>2. DOMAIN emitted = 1..n /\ DOMAIN deferred = 1..MaxEmitted
      /\ \A i \in 1..n : emitted[i] \in [impulse : Impulses, ref : 1..MaxEmitted]
  <2>1. DOMAIN deferred = 1..MaxEmitted
    BY DEF ProactivityInv, ProactivityTypes
  <2> QED BY <1>1, <2>1, EmittedIs DEF ProactivityInv
<1>3. InterruptionsRationed
  <2> DEFINE shownOnes == {i \in DOMAIN emitted : emitted[i].impulse.shown >= 0}
             near(i) == {j \in shownOnes : emitted[j].impulse.shown \in
                           emitted[i].impulse.shown .. emitted[i].impulse.shown + Window - 1}
  <2>1. SUFFICES ASSUME NEW i \in shownOnes PROVE Cardinality(near(i)) <= MaxInterrupts
    BY DEF InterruptionsRationed
  <2>2. PICK lo \in Nat : lo = emitted[i].impulse.shown
    BY <1>2 DEF Impulses
  <2>3. PICK hi \in Int : hi = lo + Window - 1
    BY DEF ProactivityAssumption
  <2>4. near(i) \in SUBSET Positions(lo, hi)
    BY <1>1, <1>2, <2>2, <2>3 DEF Positions, ShownTime
  <2>5. IsFiniteSet(Positions(lo, hi)) /\ Cardinality(Positions(lo, hi)) \in Nat
    BY <1>1, PositionsFinite
  <2> HIDE DEF near
  <2>6. Cardinality(near(i)) <= Cardinality(Positions(lo, hi)) /\ Cardinality(near(i)) \in Nat
    BY <2>4, <2>5, FS_Subset, FS_CardinalityType
  <2>7. Cardinality(Positions(lo, hi)) <= MaxInterrupts
    BY <2>3 DEF ProactivityInv, RationInv, Rationed
  <2> QED BY <2>5, <2>6, <2>7 DEF ProactivityAssumption
<1>4. RaisedOnce
  <2> SUFFICES ASSUME NEW c \in Commitments \cup (1..MaxEmitted)
               PROVE  Cardinality({i \in DOMAIN emitted : emitted[i].impulse.origin = c}) <= 1
    BY <1>2 DEF RaisedOnce
  <2>1. PICK S : S = {i \in DOMAIN emitted : emitted[i].impulse.origin = c}
    OBVIOUS
  <2>2. \A i, j \in S : i = j
    <3>1. \A i \in S : i \in Raisings /\ OriginAt(i) = c
      BY <1>1, <1>2, <2>1 DEF Raisings, OriginAt
    <3> QED BY <3>1 DEF ProactivityInv, RaisedInv
  <2>3. S = {} \/ \E x : S = {x}
    <3>1. ASSUME NEW x \in S PROVE S = {x}
      BY <2>2
    <3> QED BY <3>1
  <2>4. Cardinality(S) \in {0, 1}
    BY <2>3, FS_EmptySet, FS_Singleton
  <2> QED BY <2>1, <2>4
<1> QED BY <1>3, <1>4 DEF ProactivityInv, ProactivityIsSound

\* While one process runs the owner is interrupted at most MaxInterrupts times in any window; a
\* commitment and a deferred proposal are raised once at most; what was deferred waits in the log
\* (AttentionLedger::delivery, tick, emit, resolve).
THEOREM ProactivityStaysSound == AssistantSpec => []ProactivityIsSound
<1>1. AssistantInit => ProactivityInv
  BY ProactivityInvInit, ProactivityAssumption DEF AssistantInit
<1>2. ProactivityInv /\ [AssistantNext]_assistantVars => ProactivityInv'
  BY FacultiesStep, ProactivityInvStep, ProactivityAssumption
<1>3. ProactivityInv => ProactivityIsSound
  BY ProactivityInvIsSound, ProactivityAssumption
<1> QED BY <1>1, <1>2, <1>3, PTL DEF AssistantSpec

-----------------------------------------------------------------------------
(* Governed cognition                                                      *)

\* The candidates of a log.
FoldedCandidates(log) == FoldLeft(FoldCandidate, [c \in Candidates |-> "none"], log)

\* They are the end of a trace.
LEMMA CandidatesTrace ==
  ASSUME NEW log, NEW n \in Nat, DOMAIN log = 1..n
  PROVE  \E t : Trace("candidates", {}, log, n, t) /\ t[n] = FoldedCandidates(log)
<1> DEFINE none == [c \in Candidates |-> "none"]
           iter == CHOOSE h : h = [s \in SUBSET (DOMAIN log) |->
                                     IF s = {} THEN none ELSE FoldCandidate(h[s \ {Max(s)}], log[Max(s)])]
<1>1. FoldedCandidates(log) = iter[DOMAIN log]
  BY DEF FoldedCandidates, FoldLeft, MapThenFoldSet
<1>2. \A s, e : FoldStep("candidates", {}, s, e) = FoldCandidate(s, e)
  BY DEF FoldStep
<1>3. FoldBase("candidates") = none
  BY DEF FoldBase
<1>4. PICK h : Folds("candidates", {}, log, n, h)
  BY FoldExists
<1> HIDE DEF none
<1>5. h = [s \in SUBSET (DOMAIN log) |-> IF s = {} THEN none ELSE FoldCandidate(h[s \ {Max(s)}], log[Max(s)])]
  BY <1>2, <1>3, <1>4 DEF Folds
<1>6. iter = [s \in SUBSET (DOMAIN log) |-> IF s = {} THEN none ELSE FoldCandidate(iter[s \ {Max(s)}], log[Max(s)])]
  BY <1>5
<1> HIDE DEF iter
<1>7. Folds("candidates", {}, log, n, iter)
  BY <1>2, <1>3, <1>6 DEF Folds
<1>8. PICK t : Trace("candidates", {}, log, n, t) /\ t[n] = iter[1..n]
  BY <1>7, TraceExists
<1> QED BY <1>1, <1>8

\* And so is the cognition of a log.
LEMMA CognitionTrace ==
  ASSUME NEW log, NEW n \in Nat, DOMAIN log = 1..n
  PROVE  \E t : Trace("cognition", {}, log, n, t) /\ t[n] = FoldLeft(FoldCognition, Blank, log)
<1> DEFINE iter == CHOOSE h : h = [s \in SUBSET (DOMAIN log) |->
                                     IF s = {} THEN Blank ELSE FoldCognition(h[s \ {Max(s)}], log[Max(s)])]
<1>1. FoldLeft(FoldCognition, Blank, log) = iter[DOMAIN log]
  BY DEF FoldLeft, MapThenFoldSet
<1>2. \A s, e : FoldStep("cognition", {}, s, e) = FoldCognition(s, e)
  BY DEF FoldStep
<1>3. FoldBase("cognition") = Blank
  BY DEF FoldBase
<1>4. PICK h : Folds("cognition", {}, log, n, h)
  BY FoldExists
<1>5. h = [s \in SUBSET (DOMAIN log) |-> IF s = {} THEN Blank ELSE FoldCognition(h[s \ {Max(s)}], log[Max(s)])]
  BY <1>2, <1>3, <1>4 DEF Folds
<1>6. iter = [s \in SUBSET (DOMAIN log) |-> IF s = {} THEN Blank ELSE FoldCognition(iter[s \ {Max(s)}], log[Max(s)])]
  BY <1>5
<1> HIDE DEF iter
<1>7. Folds("cognition", {}, log, n, iter)
  BY <1>2, <1>3, <1>6 DEF Folds
<1> QED BY <1>1, <1>7, TraceExists

\* One event more is one step of the candidates more.
LEMMA CandidatesAppend ==
  ASSUME NEW log, NEW log2, NEW n \in Nat, DOMAIN log = 1..n, DOMAIN log2 = 1..(n + 1), \A k \in 1..n : log2[k] = log[k]
  PROVE  FoldedCandidates(log2) = FoldCandidate(FoldedCandidates(log), log2[n + 1])
<1>1. PICK t : Trace("candidates", {}, log, n, t) /\ t[n] = FoldedCandidates(log)
  BY CandidatesTrace
<1>2. n + 1 \in Nat /\ n + 1 \in 1..(n + 1) /\ (n + 1) - 1 = n
  OBVIOUS
<1>3. PICK u : Trace("candidates", {}, log2, n + 1, u) /\ u[n + 1] = FoldedCandidates(log2)
  BY <1>2, CandidatesTrace
<1>4. Trace("candidates", {}, log2, n, u)
  BY <1>3 DEF Trace
<1>5. u[n] = t[n]
  BY <1>1, <1>4, TracesAgree
<1>6. u[n + 1] = FoldStep("candidates", {}, u[(n + 1) - 1], log2[n + 1])
  BY <1>2, <1>3 DEF Trace
<1>7. u[n + 1] = FoldCandidate(t[n], log2[n + 1])
  BY <1>2, <1>5, <1>6 DEF FoldStep
<1> QED BY <1>1, <1>3, <1>7

\* What the aggregate records, and what the runtime is doing.
CandidateEvents == [kind : {"proposed", "created", "promoted", "rejected", "downgraded"}, cand : Candidates]
LineageEvents == [kind : {"lineage"}, edge : Derivations]
Retractions == [kind : {"retracted"}, obj : Objects, edges : SUBSET Derivations]
Reevaluations == [kind : {"reevaluate"}, trigger : {"retraction", "stale"}, obj : Objects, derived : SUBSET Objects]
CognitionEvents == CandidateEvents \cup LineageEvents \cup Retractions \cup Reevaluations

Stabilities == {"none", "active", "inactive"}
CognitionShape(s) ==
  s \in [proposals : SUBSET Candidates, stable : [Objects -> Stabilities],
         retracted : SUBSET Objects, invalidated : SUBSET Objects, lineage : SUBSET Derivations]

Tasks == [task : {"propose"}, cand : Candidates] \cup [task : {"lineage"}, edge : Derivations]
         \cup [task : {"retract"}, obj : Objects, derived : SUBSET Objects] \cup [task : {"audit"}, obj : Objects]

\* What the first n events say that the state s holds.
Heard(log, n, s) ==
  /\ CognitionShape(s)
  /\ \A o \in Objects : s.stable[o] = "active" =>
       \E i \in 1..n : log[i].kind = "promoted" /\ CandidateOf[log[i].cand] = o
  /\ \A i \in 1..n : log[i].kind = "retracted" => log[i].obj \in s.retracted
  /\ \A i \in 1..n : log[i].kind = "reevaluate" /\ log[i].trigger = "retraction" => log[i].derived \subseteq s.invalidated

\* The state the fold has when it begins.
LEMMA BlankHeard == ASSUME NEW log PROVE Heard(log, 0, Blank)
<1>1. CognitionShape(Blank)
  BY DEF CognitionShape, Blank, Stabilities
<1>2. \A o \in Objects : Blank.stable[o] = "none"
  BY DEF Blank
<1> QED BY <1>1, <1>2 DEF Heard

\* What is deactivated is active in nothing new.
LEMMA DeactivateIs ==
  ASSUME NEW s \in [Objects -> Stabilities], NEW os
  PROVE  /\ Deactivate(s, os) \in [Objects -> Stabilities]
         /\ \A o \in Objects : Deactivate(s, os)[o] = "active" => s[o] = "active"
BY DEF Deactivate, Stabilities

\* One more event is heard.
LEMMA FoldHears ==
  ASSUME NEW log \in Seq(CognitionEvents), NEW n \in Nat, n + 1 <= Len(log), NEW s, Heard(log, n, s)
  PROVE  Heard(log, n + 1, FoldCognition(s, log[n + 1]))
<1>0. PICK m \in Nat : m = Len(log) /\ DOMAIN log = 1..m
  BY LenProperties
<1>1. PICK e \in CognitionEvents : e = log[n + 1]
  <2>1. n + 1 \in 1..m
    BY <1>0
  <2> QED BY <1>0, <2>1
<1>2. PICK t : t = FoldCognition(s, e)
  OBVIOUS
<1>3. \A i \in 1..(n + 1) : i \in 1..n \/ i = n + 1
  OBVIOUS
<1>4. \A i \in 1..n : i \in 1..(n + 1)
  OBVIOUS
<1>5. n + 1 \in 1..(n + 1)
  OBVIOUS
<1>6. PICK P, S, R, I, L : /\ s = [proposals |-> P, stable |-> S, retracted |-> R, invalidated |-> I, lineage |-> L]
                           /\ P \in SUBSET Candidates /\ S \in [Objects -> Stabilities] /\ R \in SUBSET Objects
                           /\ I \in SUBSET Objects /\ L \in SUBSET Derivations
  <2>1. /\ s = [proposals |-> s.proposals, stable |-> s.stable, retracted |-> s.retracted,
                invalidated |-> s.invalidated, lineage |-> s.lineage]
        /\ s.proposals \in SUBSET Candidates /\ s.stable \in [Objects -> Stabilities] /\ s.retracted \in SUBSET Objects
        /\ s.invalidated \in SUBSET Objects /\ s.lineage \in SUBSET Derivations
    BY DEF Heard, CognitionShape
  <2> QED BY <2>1
<1>7. ASSUME NEW P2 \in SUBSET Candidates, NEW S2 \in [Objects -> Stabilities], NEW R2 \in SUBSET Objects,
             NEW I2 \in SUBSET Objects, NEW L2 \in SUBSET Derivations,
             t = [proposals |-> P2, stable |-> S2, retracted |-> R2, invalidated |-> I2, lineage |-> L2],
             \A o \in Objects : S2[o] = "active" => S[o] = "active" \/ (e.kind = "promoted" /\ CandidateOf[e.cand] = o),
             R \subseteq R2, I \subseteq I2, e.kind = "retracted" => e.obj \in R2,
             e.kind = "reevaluate" => e.derived \subseteq I2
      PROVE  Heard(log, n + 1, t)
  <2>1. CognitionShape(t)
    BY <1>7 DEF CognitionShape
  <2>2. t.stable = S2 /\ t.retracted = R2 /\ t.invalidated = I2 /\ s.stable = S /\ s.retracted = R /\ s.invalidated = I
    BY <1>6, <1>7
  <2>3. ASSUME NEW o \in Objects, S2[o] = "active"
        PROVE  \E i \in 1..(n + 1) : log[i].kind = "promoted" /\ CandidateOf[log[i].cand] = o
    BY <1>1, <1>4, <1>5, <1>7, <2>2, <2>3 DEF Heard
  <2>4. \A i \in 1..(n + 1) : log[i].kind = "retracted" => log[i].obj \in R2
    BY <1>1, <1>3, <1>7, <2>2 DEF Heard
  <2>5. \A i \in 1..(n + 1) : log[i].kind = "reevaluate" /\ log[i].trigger = "retraction" => log[i].derived \subseteq I2
    BY <1>1, <1>3, <1>7, <2>2 DEF Heard
  <2> QED BY <2>1, <2>2, <2>3, <2>4, <2>5 DEF Heard
<1>8. CASE e \in CandidateEvents /\ e.kind = "proposed"
  <2>1. e.cand \in Candidates
    BY <1>8 DEF CandidateEvents
  <2>2. t = [proposals |-> P \cup {e.cand}, stable |-> S, retracted |-> R, invalidated |-> I, lineage |-> L]
    BY <1>2, <1>6, <1>8 DEF FoldCognition
  <2> QED BY <1>1, <1>2, <1>6, <1>7, <1>8, <2>1, <2>2
<1>9. CASE e \in CandidateEvents /\ e.kind = "promoted" /\ e.cand \in P
  <2>1. e.cand \in Candidates
    BY <1>9 DEF CandidateEvents
  <2>2. PICK S2 : S2 = [S EXCEPT ![CandidateOf[e.cand]] = "active"]
    OBVIOUS
  <2>3. t = [proposals |-> P, stable |-> S2, retracted |-> R, invalidated |-> I, lineage |-> L]
    BY <1>2, <1>6, <1>9, <2>2 DEF FoldCognition
  <2>4. S2 \in [Objects -> Stabilities]
    BY <1>6, <2>2 DEF Stabilities
  <2>5. \A o \in Objects : S2[o] = "active" => S[o] = "active" \/ CandidateOf[e.cand] = o
    BY <1>6, <2>2
  <2> QED BY <1>1, <1>2, <1>6, <1>7, <1>9, <2>3, <2>4, <2>5
<1>10. CASE e \in Retractions
  <2>1. e.obj \in Objects /\ e.kind = "retracted"
    BY <1>10 DEF Retractions
  <2>2. PICK S2 : S2 = Deactivate(S, {e.obj})
    OBVIOUS
  <2>3. t = [proposals |-> P, stable |-> S2, retracted |-> R \cup {e.obj}, invalidated |-> I, lineage |-> L]
    BY <1>2, <1>6, <2>1, <2>2 DEF FoldCognition
  <2>4. S2 \in [Objects -> Stabilities] /\ \A o \in Objects : S2[o] = "active" => S[o] = "active"
    BY <1>6, <2>2, DeactivateIs
  <2> QED BY <1>1, <1>2, <1>6, <1>7, <2>1, <2>3, <2>4
<1>11. CASE e \in Reevaluations
  <2>1. e.derived \in SUBSET Objects /\ e.kind = "reevaluate"
    BY <1>11 DEF Reevaluations
  <2>2. PICK S2 : S2 = Deactivate(S, e.derived)
    OBVIOUS
  <2>3. t = [proposals |-> P, stable |-> S2, retracted |-> R, invalidated |-> I \cup e.derived, lineage |-> L]
    BY <1>2, <1>6, <2>1, <2>2 DEF FoldCognition
  <2>4. S2 \in [Objects -> Stabilities] /\ \A o \in Objects : S2[o] = "active" => S[o] = "active"
    BY <1>6, <2>2, DeactivateIs
  <2> QED BY <1>1, <1>2, <1>6, <1>7, <2>1, <2>3, <2>4
<1>12. CASE e \in LineageEvents
  <2>1. e.edge \in Derivations /\ e.kind = "lineage"
    BY <1>12 DEF LineageEvents
  <2>2. t = [proposals |-> P, stable |-> S, retracted |-> R, invalidated |-> I, lineage |-> L \cup {e.edge}]
    BY <1>2, <1>6, <2>1 DEF FoldCognition
  <2> QED BY <1>1, <1>2, <1>6, <1>7, <2>1, <2>2
<1>13. CASE e \in CandidateEvents /\ e.kind # "proposed" /\ ~(e.kind = "promoted" /\ e.cand \in P)
  <2>1. e.kind \notin {"retracted", "reevaluate", "lineage"}
    BY <1>13 DEF CandidateEvents
  <2>2. t = s
    BY <1>2, <1>6, <1>13, <2>1 DEF FoldCognition
  <2> QED BY <1>1, <1>2, <1>6, <1>7, <1>13, <2>1, <2>2
<1> QED BY <1>8, <1>9, <1>10, <1>11, <1>12, <1>13 DEF CognitionEvents, CandidateEvents

\* The whole log is heard by its fold.
LEMMA LogHeard ==
  ASSUME NEW log \in Seq(CognitionEvents)
  PROVE  Heard(log, Len(log), FoldLeft(FoldCognition, Blank, log))
<1>1. PICK n \in Nat : n = Len(log) /\ DOMAIN log = 1..n
  BY LenProperties
<1>2. PICK t : Trace("cognition", {}, log, n, t) /\ t[n] = FoldLeft(FoldCognition, Blank, log)
  BY <1>1, CognitionTrace
<1> DEFINE deaf == {k \in 0..n : ~Heard(log, k, t[k])}
<1>3. t[0] = Blank /\ \A k \in 1..n : t[k] = FoldCognition(t[k - 1], log[k])
  BY <1>2 DEF Trace, FoldBase, FoldStep
<1>4. 0 \notin deaf /\ deaf \subseteq 0..n /\ (n \notin deaf => Heard(log, n, t[n]))
  BY <1>3, BlankHeard
<1>5. ASSUME NEW k \in 1..n, k - 1 \notin deaf PROVE k \notin deaf
  <2>1. PICK j \in Nat : j = k - 1 /\ j + 1 = k /\ j + 1 <= Len(log) /\ j \in 0..n
    BY <1>1
  <2>2. Heard(log, j, t[j])
    BY <1>5, <2>1
  <2>3. Heard(log, j + 1, FoldCognition(t[j], log[j + 1]))
    BY <2>1, <2>2, FoldHears
  <2> QED BY <1>3, <2>1, <2>3
<1> HIDE DEF deaf
<1>6. deaf = {}
  <2>1. SUFFICES ASSUME deaf # {} PROVE FALSE
    OBVIOUS
  <2>2. deaf \subseteq Nat
    BY <1>4
  <2>3. PICK m \in deaf : \A k \in deaf : m <= k
    BY <2>1, <2>2, LeastOf
  <2>4. m \in 1..n /\ ~(m <= m - 1)
    BY <1>4, <2>3
  <2>5. m - 1 \notin deaf
    BY <2>3, <2>4
  <2> QED BY <1>5, <2>3, <2>4, <2>5
<1> QED BY <1>1, <1>2, <1>4, <1>6

\* What is reached from a source in rounds along the lineage.
Successors(lineage, found) == {o \in Objects : \E x \in found : <<x, o>> \in lineage}
Rounds(lineage, source, n, g) ==
  g = [k \in 0..n |-> IF k = 0 THEN {source} ELSE g[k - 1] \cup Successors(lineage, g[k - 1])]

\* There are that many rounds.
LEMMA RoundsExist ==
  ASSUME NEW lineage, NEW source, NEW n \in Nat
  PROVE  \E g : Rounds(lineage, source, n, g)
<1> DEFINE none == {k \in Nat : ~ \E g : Rounds(lineage, source, k, g)}
<1>1. 0 \notin none
  <2>1. PICK g : g = [k \in 0..0 |-> {source}]
    OBVIOUS
  <2>2. \A k \in 0..0 : k = 0
    OBVIOUS
  <2>3. Rounds(lineage, source, 0, g)
    BY <2>1, <2>2 DEF Rounds
  <2> QED BY <2>3
<1>2. ASSUME NEW k \in Nat, k \notin none PROVE k + 1 \notin none
  <2>1. PICK h : Rounds(lineage, source, k, h)
    BY <1>2
  <2>2. PICK g : g = [i \in 0..(k + 1) |-> IF i = k + 1 THEN h[k] \cup Successors(lineage, h[k]) ELSE h[i]]
    OBVIOUS
  <2>3. ASSUME NEW i \in 0..(k + 1)
        PROVE  g[i] = IF i = 0 THEN {source} ELSE g[i - 1] \cup Successors(lineage, g[i - 1])
    <3>1. CASE i = k + 1
      <4>1. i - 1 = k /\ k \in 0..(k + 1) /\ k # k + 1 /\ i # 0
        BY <3>1
      <4>2. g[i - 1] = h[k] /\ g[i] = h[k] \cup Successors(lineage, h[k])
        BY <2>2, <3>1, <4>1
      <4> QED BY <4>1, <4>2
    <3>2. CASE i \in 1..k
      <4>1. i - 1 \in 0..(k + 1) /\ i - 1 # k + 1 /\ i # k + 1 /\ i \in 0..k
        BY <3>2
      <4>2. g[i - 1] = h[i - 1] /\ g[i] = h[i]
        BY <2>2, <4>1
      <4>3. h[i] = h[i - 1] \cup Successors(lineage, h[i - 1])
        <5>1. \A j \in 0..k : h[j] = IF j = 0 THEN {source} ELSE h[j - 1] \cup Successors(lineage, h[j - 1])
          BY <2>1 DEF Rounds
        <5>2. i \in 0..k /\ i # 0
          BY <3>2
        <5> QED BY <5>1, <5>2
      <4> QED BY <3>2, <4>2, <4>3
    <3>3. CASE i = 0
      <4>1. 0 \in 0..k /\ 0 # k + 1
        OBVIOUS
      <4>2. h[0] = {source}
        BY <2>1, <4>1 DEF Rounds
      <4> QED BY <2>2, <3>3, <4>1, <4>2
    <3> QED BY <3>1, <3>2, <3>3
  <2>4. Rounds(lineage, source, k + 1, g)
    <3>1. PICK f : f = [i \in 0..(k + 1) |-> IF i = 0 THEN {source} ELSE g[i - 1] \cup Successors(lineage, g[i - 1])]
      OBVIOUS
    <3>2. \A i \in 0..(k + 1) : f[i] = IF i = 0 THEN {source} ELSE g[i - 1] \cup Successors(lineage, g[i - 1])
      BY <3>1
    <3>3. \A i \in 0..(k + 1) : f[i] = g[i]
      BY <2>3, <3>2
    <3>4. DOMAIN f = 0..(k + 1) /\ DOMAIN g = 0..(k + 1)
          /\ f = [i \in 0..(k + 1) |-> f[i]] /\ g = [i \in 0..(k + 1) |-> g[i]]
      BY <2>2, <3>1
    <3>5. f = g
      BY <3>3, <3>4
    <3> QED BY <3>1, <3>5 DEF Rounds
  <2> QED BY <2>4
<1>3. none \subseteq Nat
  OBVIOUS
<1>4. n \notin none => \E g : Rounds(lineage, source, n, g)
  OBVIOUS
<1> HIDE DEF none
<1>5. none = {}
  <2>1. SUFFICES ASSUME none # {} PROVE FALSE
    OBVIOUS
  <2>2. PICK m \in none : \A k \in none : m <= k
    BY <1>3, <2>1, LeastOf
  <2>3. m \in Nat /\ m # 0
    BY <1>1, <1>3
  <2>4. m - 1 \in Nat /\ ~(m <= m - 1) /\ (m - 1) + 1 = m
    BY <2>3
  <2>5. m - 1 \notin none
    BY <2>2, <2>4
  <2> QED BY <1>2, <2>4, <2>5
<1> QED BY <1>4, <1>5

\* There are so and so many objects.
LEMMA ObjectsCounted == IsFiniteSet(Objects) /\ Cardinality(Objects) \in Nat
<1>1. IsFiniteSet(Objects)
  BY CognitionAssumption, FS_Union DEF CognitionAssumption, Objects
<1> QED BY <1>1, FS_CardinalityType

\* What is derived is what the rounds reach.
LEMMA DerivedByRounds ==
  ASSUME NEW lineage, NEW source
  PROVE  \E g : /\ Rounds(lineage, source, Cardinality(Objects), g)
                /\ TransitiveDerived(lineage, source) = g[Cardinality(Objects)] \ {source}
<1> DEFINE N == Cardinality(Objects)
           reach == CHOOSE g : g = [k \in 0..N |-> IF k = 0 THEN {source}
                                                   ELSE g[k - 1] \cup {o \in Objects : \E x \in g[k - 1] : <<x, o>> \in lineage}]
<1>1. TransitiveDerived(lineage, source) = reach[N] \ {source}
  BY DEF TransitiveDerived
<1>2. PICK g : Rounds(lineage, source, N, g)
  BY ObjectsCounted, RoundsExist
<1>3. g = [k \in 0..N |-> IF k = 0 THEN {source}
                          ELSE g[k - 1] \cup {o \in Objects : \E x \in g[k - 1] : <<x, o>> \in lineage}]
  BY <1>2 DEF Rounds, Successors
<1>4. reach = [k \in 0..N |-> IF k = 0 THEN {source}
                              ELSE reach[k - 1] \cup {o \in Objects : \E x \in reach[k - 1] : <<x, o>> \in lineage}]
  BY <1>3
<1> HIDE DEF reach
<1>5. Rounds(lineage, source, N, reach)
  BY <1>4 DEF Rounds, Successors
<1> QED BY <1>1, <1>5

\* A chain of the lineage, from its source, stays within what is derived.
LEMMA ChainsReach ==
  ASSUME NEW lineage, NEW source \in Objects, NEW m \in 1..Cardinality(Objects), NEW path \in [1..m -> Objects],
         path[1] = source, \A k \in 1..(m - 1) : <<path[k], path[k + 1]>> \in lineage
  PROVE  path[m] = source \/ path[m] \in TransitiveDerived(lineage, source)
<1>0. PICK N \in Nat : N = Cardinality(Objects)
  BY ObjectsCounted
<1>1. PICK g : Rounds(lineage, source, N, g) /\ TransitiveDerived(lineage, source) = g[N] \ {source}
  BY <1>0, DerivedByRounds
<1>2. g[0] = {source}
  <2>1. 0 \in 0..N
    OBVIOUS
  <2> QED BY <1>1, <2>1 DEF Rounds
<1>3. ASSUME NEW j \in 1..N PROVE g[j] = g[j - 1] \cup Successors(lineage, g[j - 1])
  <2>1. j \in 0..N /\ j # 0
    OBVIOUS
  <2> QED BY <1>1, <2>1 DEF Rounds
<1> DEFINE missed == {j \in 0..N : \E k \in 1..m : k - 1 <= j /\ path[k] \notin g[j]}
<1>4. 0 \notin missed
  BY <1>2
<1>5. ASSUME NEW j \in 1..N, j - 1 \notin missed PROVE j \notin missed
  <2> SUFFICES ASSUME NEW k \in 1..m, k - 1 <= j PROVE path[k] \in g[j]
    OBVIOUS
  <2>1. \A i \in 1..m : i - 1 <= j - 1 => path[i] \in g[j - 1]
    BY <1>5
  <2>2. CASE k - 1 <= j - 1
    BY <1>3, <2>1, <2>2
  <2>3. CASE k - 1 = j
    <3>1. PICK i : i = k - 1 /\ i \in 1..m /\ i \in 1..(m - 1) /\ i + 1 = k /\ i - 1 <= j - 1
      BY <2>3
    <3>2. path[i] \in g[j - 1] /\ <<path[i], path[k]>> \in lineage
      BY <2>1, <3>1
    <3>3. path[k] \in Successors(lineage, g[j - 1])
      BY <3>2 DEF Successors
    <3> QED BY <1>3, <3>3
  <2> QED BY <2>2, <2>3
<1>6. missed \subseteq 0..N /\ (N \notin missed => \A k \in 1..m : k - 1 <= N => path[k] \in g[N])
  OBVIOUS
<1> HIDE DEF missed
<1>7. missed = {}
  <2>1. SUFFICES ASSUME missed # {} PROVE FALSE
    OBVIOUS
  <2>2. missed \subseteq Nat
    BY <1>6
  <2>3. PICK j \in missed : \A k \in missed : j <= k
    BY <2>1, <2>2, LeastOf
  <2>4. j \in 1..N /\ ~(j <= j - 1)
    BY <1>4, <1>6, <2>3
  <2>5. j - 1 \notin missed
    BY <2>3, <2>4
  <2> QED BY <1>5, <2>3, <2>4, <2>5
<1>8. path[m] \in g[N]
  <2>1. m \in 1..m /\ m - 1 <= N
    BY <1>0
  <2> QED BY <1>6, <1>7, <2>1
<1> QED BY <1>1, <1>8

\* And what is derived are objects.
LEMMA DerivedAreObjects ==
  ASSUME NEW lineage, NEW source PROVE TransitiveDerived(lineage, source) \in SUBSET Objects
<1>0. PICK N \in Nat : N = Cardinality(Objects)
  BY ObjectsCounted
<1>1. PICK g : Rounds(lineage, source, N, g) /\ TransitiveDerived(lineage, source) = g[N] \ {source}
  BY <1>0, DerivedByRounds
<1> DEFINE astray == {j \in 0..N : \E x \in g[j] : x # source /\ x \notin Objects}
<1>2. 0 \notin astray
  <2>1. 0 \in 0..N
    OBVIOUS
  <2> QED BY <1>1, <2>1 DEF Rounds
<1>3. ASSUME NEW j \in 1..N, j - 1 \notin astray PROVE j \notin astray
  <2>1. j \in 0..N /\ j # 0 /\ j - 1 \in 0..N
    OBVIOUS
  <2>2. g[j] = g[j - 1] \cup Successors(lineage, g[j - 1])
    BY <1>1, <2>1 DEF Rounds
  <2> QED BY <1>3, <2>1, <2>2 DEF Successors
<1>4. astray \subseteq 0..N /\ (N \notin astray => \A x \in g[N] : x = source \/ x \in Objects)
  OBVIOUS
<1> HIDE DEF astray
<1>5. astray = {}
  <2>1. SUFFICES ASSUME astray # {} PROVE FALSE
    OBVIOUS
  <2>2. astray \subseteq Nat
    BY <1>4
  <2>3. PICK j \in astray : \A k \in astray : j <= k
    BY <2>1, <2>2, LeastOf
  <2>4. j \in 1..N /\ ~(j <= j - 1)
    BY <1>2, <1>4, <2>3
  <2>5. j - 1 \notin astray
    BY <2>3, <2>4
  <2> QED BY <1>3, <2>3, <2>4, <2>5
<1> QED BY <1>1, <1>4, <1>5

\* r is the last retraction among the first n events, of the object o, from which ds was derived.
LastRetraction(log, n, r, o, ds) ==
  /\ r \in 1..n /\ log[r].kind = "retracted" /\ log[r].obj = o /\ ds = TransitiveDerived(log[r].edges, o)
  /\ \A k \in (r + 1)..n : log[k].kind # "retracted"

\* A re-evaluation on a retraction names all that was derived from what was retracted last.
Reevaluates(log, i) ==
  log[i].kind = "reevaluate" /\ log[i].trigger = "retraction"
    => \E r \in 1..i : LastRetraction(log, i, r, log[i].obj, log[i].derived)

CandidateStates == {"none", "candidate", "promoted", "rejected", "downgraded"}
CognitionInv ==
  /\ cogLog \in Seq(CognitionEvents)
  /\ \A i \in 1..Len(cogLog) : Reevaluates(cogLog, i)
  /\ Heard(cogLog, Len(cogLog), cognition)
  /\ candidates \in [Candidates -> CandidateStates] /\ CandidatesFollowLog
  /\ \A c \in Candidates : candidates[c] = "promoted" =>
       \E i \in 1..Len(cogLog) : cogLog[i].kind = "promoted" /\ cogLog[i].cand = c
  /\ underway \in {NoWork} \cup Tasks
  /\ underway.task = "retract" =>
       /\ \E r \in 1..Len(cogLog) : LastRetraction(cogLog, Len(cogLog), r, underway.obj, underway.derived)
       /\ underway.derived \subseteq cognition.invalidated

\* Nothing has happened to begin with.
LEMMA CognitionStart == CognitionInit => CognitionInv
<1> SUFFICES ASSUME CognitionInit PROVE CognitionInv
  OBVIOUS
<1>1. cogLog = <<>> /\ cognition = Blank /\ underway = NoWork /\ candidates = [c \in Candidates |-> "none"]
  BY DEF CognitionInit
<1>2. cogLog \in Seq(CognitionEvents) /\ Len(cogLog) = 0 /\ DOMAIN cogLog = 1..0
  BY <1>1
<1>3. 1..0 = {}
  OBVIOUS
<1>4. Heard(cogLog, 0, cognition)
  BY <1>1, BlankHeard
<1>5. CandidatesFollowLog
  <2>1. PICK t : Trace("candidates", {}, cogLog, 0, t) /\ t[0] = FoldedCandidates(cogLog)
    BY <1>2, CandidatesTrace
  <2>2. t[0] = [c \in Candidates |-> "none"]
    BY <2>1 DEF Trace, FoldBase
  <2> QED BY <1>1, <2>1, <2>2 DEF CandidatesFollowLog, FoldedCandidates
<1>6. candidates \in [Candidates -> CandidateStates] /\ \A c \in Candidates : candidates[c] # "promoted"
  BY <1>1 DEF CandidateStates
<1>7. underway \in {NoWork} /\ underway.task # "retract"
  BY <1>1 DEF NoWork
<1> QED BY <1>2, <1>3, <1>4, <1>5, <1>6, <1>7 DEF CognitionInv

\* The state s2 keeps what s holds, and takes the event e up.
TakesUp(e, s, s2) ==
  /\ CognitionShape(s2) /\ s.retracted \subseteq s2.retracted /\ s.invalidated \subseteq s2.invalidated
  /\ \A o \in Objects : s2.stable[o] = "active" =>
       s.stable[o] = "active" \/ (e.kind = "promoted" /\ CandidateOf[e.cand] = o)
  /\ e.kind = "retracted" => e.obj \in s2.retracted
  /\ e.kind = "reevaluate" /\ e.trigger = "retraction" => e.derived \subseteq s2.invalidated

\* What has been heard of a log stays heard, and of one event more if the state takes it up.
LEMMA HearsMore ==
  ASSUME NEW log, NEW n \in Nat, NEW s, NEW log2, NEW s2, Heard(log, n, s),
         TakesUp(log2[n + 1], s, s2), \A k \in 1..n : log2[k] = log[k]
  PROVE  Heard(log2, n + 1, s2)
<1>0. PICK e : e = log2[n + 1] /\ TakesUp(e, s, s2)
  OBVIOUS
<1>1. \A i \in 1..(n + 1) : i \in 1..n \/ i = n + 1
  OBVIOUS
<1>2. (\A i \in 1..n : i \in 1..(n + 1)) /\ n + 1 \in 1..(n + 1)
  OBVIOUS
<1>3. ASSUME NEW o \in Objects, s2.stable[o] = "active"
      PROVE  \E i \in 1..(n + 1) : log2[i].kind = "promoted" /\ CandidateOf[log2[i].cand] = o
  BY <1>0, <1>2, <1>3 DEF Heard, TakesUp
<1>4. \A i \in 1..(n + 1) : log2[i].kind = "retracted" => log2[i].obj \in s2.retracted
  BY <1>0, <1>1 DEF Heard, TakesUp
<1>5. \A i \in 1..(n + 1) : log2[i].kind = "reevaluate" /\ log2[i].trigger = "retraction" => log2[i].derived \subseteq s2.invalidated
  BY <1>0, <1>1 DEF Heard, TakesUp
<1> QED BY <1>0, <1>3, <1>4, <1>5 DEF Heard, TakesUp

\* What a log with one event more says.
Extended(log, n, e, log2) ==
  /\ log2 \in Seq(CognitionEvents) /\ Len(log2) = n + 1 /\ DOMAIN log2 = 1..(n + 1) /\ DOMAIN log = 1..n
  /\ log2[n + 1] = e /\ \A k \in 1..n : log2[k] = log[k]
  /\ \A i \in 1..(n + 1) : Reevaluates(log2, i)
  /\ e.kind # "retracted" => \A o, ds : (\E r \in 1..n : LastRetraction(log, n, r, o, ds))
                                     => \E r \in 1..(n + 1) : LastRetraction(log2, n + 1, r, o, ds)
  /\ e.kind = "retracted" => \E r \in 1..(n + 1) :
       LastRetraction(log2, n + 1, r, e.obj, TransitiveDerived(e.edges, e.obj))

\* An event more, of which a retraction is answered by all that was derived.
LEMMA LogKept ==
  ASSUME NEW log \in Seq(CognitionEvents), NEW n \in Nat, n = Len(log), NEW e \in CognitionEvents, NEW log2,
         log2 = Append(log, e), \A i \in 1..n : Reevaluates(log, i),
         e.kind = "reevaluate" /\ e.trigger = "retraction" => \E r \in 1..n : LastRetraction(log, n, r, e.obj, e.derived)
  PROVE  Extended(log, n, e, log2)
<1>1. /\ log2 \in Seq(CognitionEvents) /\ Len(log2) = n + 1 /\ DOMAIN log2 = 1..(n + 1) /\ DOMAIN log = 1..n
      /\ log2[n + 1] = e /\ \A k \in 1..n : log2[k] = log[k]
  BY AppendProperties, LenProperties
<1>2. ASSUME NEW m \in 1..n, NEW r \in 1..m, NEW o, NEW ds, LastRetraction(log, m, r, o, ds)
      PROVE  LastRetraction(log2, m, r, o, ds)
  <2>1. r \in 1..n /\ \A k \in (r + 1)..m : k \in 1..n
    OBVIOUS
  <2> QED BY <1>1, <1>2, <2>1 DEF LastRetraction
<1>3. ASSUME NEW r \in 1..n, NEW o, NEW ds, LastRetraction(log, n, r, o, ds), e.kind # "retracted"
      PROVE  LastRetraction(log2, n + 1, r, o, ds)
  <2>1. LastRetraction(log2, n, r, o, ds)
    <3>1. n \in 1..n
      OBVIOUS
    <3> QED BY <1>2, <1>3, <3>1
  <2>2. r \in 1..(n + 1) /\ \A k \in (r + 1)..(n + 1) : k = n + 1 \/ k \in (r + 1)..n
    OBVIOUS
  <2> QED BY <1>1, <1>3, <2>1, <2>2 DEF LastRetraction
<1>4. ASSUME NEW i \in 1..(n + 1) PROVE Reevaluates(log2, i)
  <2>1. CASE i \in 1..n
    <3>1. log2[i] = log[i] /\ Reevaluates(log, i)
      BY <1>1, <2>1
    <3>2. ASSUME log[i].kind = "reevaluate", log[i].trigger = "retraction"
          PROVE  \E r \in 1..i : LastRetraction(log2, i, r, log[i].obj, log[i].derived)
      <4>1. PICK r \in 1..i : LastRetraction(log, i, r, log[i].obj, log[i].derived)
        BY <3>1, <3>2 DEF Reevaluates
      <4> QED BY <1>2, <2>1, <4>1
    <3> QED BY <3>1, <3>2 DEF Reevaluates
  <2>2. CASE i = n + 1
    <3>1. log2[i] = e
      BY <1>1, <2>2
    <3>2. ASSUME e.kind = "reevaluate", e.trigger = "retraction"
          PROVE  \E r \in 1..i : LastRetraction(log2, i, r, e.obj, e.derived)
      <4>1. PICK r \in 1..n : LastRetraction(log, n, r, e.obj, e.derived)
        BY <3>2
      <4>2. LastRetraction(log2, n + 1, r, e.obj, e.derived)
        BY <1>3, <3>2, <4>1
      <4>3. r \in 1..i
        BY <2>2
      <4> QED BY <2>2, <4>2, <4>3
    <3> QED BY <3>1, <3>2 DEF Reevaluates
  <2> QED BY <2>1, <2>2
<1>5. ASSUME e.kind = "retracted"
      PROVE  \E r \in 1..(n + 1) : LastRetraction(log2, n + 1, r, e.obj, TransitiveDerived(e.edges, e.obj))
  <2>1. n + 1 \in 1..(n + 1) /\ \A k \in ((n + 1) + 1)..(n + 1) : FALSE
    OBVIOUS
  <2>2. LastRetraction(log2, n + 1, n + 1, e.obj, TransitiveDerived(e.edges, e.obj))
    BY <1>1, <1>5, <2>1 DEF LastRetraction
  <2> QED BY <2>1, <2>2
<1>6. ASSUME e.kind # "retracted", NEW o, NEW ds, \E r \in 1..n : LastRetraction(log, n, r, o, ds)
      PROVE  \E r \in 1..(n + 1) : LastRetraction(log2, n + 1, r, o, ds)
  <2>1. PICK r \in 1..n : LastRetraction(log, n, r, o, ds)
    BY <1>6
  <2>2. r \in 1..(n + 1)
    OBVIOUS
  <2> QED BY <1>3, <1>6, <2>1, <2>2
<1> QED BY <1>1, <1>4, <1>5, <1>6 DEF Extended

\* A step that appends an event keeps everything, if memory and candidates take the event up.
LEMMA AppendKeepsCognition ==
  ASSUME CognitionInv, NEW e \in CognitionEvents, cogLog' = Append(cogLog, e),
         CognitionShape(cognition'), candidates' = FoldCandidate(candidates, e),
         \A o \in Objects : cognition'.stable[o] = "active" =>
           cognition.stable[o] = "active" \/ (e.kind = "promoted" /\ CandidateOf[e.cand] = o),
         cognition.retracted \subseteq cognition'.retracted, cognition.invalidated \subseteq cognition'.invalidated,
         e.kind = "retracted" => e.obj \in cognition'.retracted,
         e.kind = "reevaluate" /\ e.trigger = "retraction" =>
           /\ e.derived \subseteq cognition'.invalidated
           /\ \E r \in 1..Len(cogLog) : LastRetraction(cogLog, Len(cogLog), r, e.obj, e.derived),
         underway' \in {NoWork} \cup Tasks,
         underway'.task = "retract" =>
           /\ underway'.derived \subseteq cognition'.invalidated
           /\ \/ /\ e.kind = "retracted" /\ underway'.obj = e.obj
                 /\ underway'.derived = TransitiveDerived(e.edges, e.obj)
              \/ e.kind # "retracted" /\ underway' = underway
  PROVE  CognitionInv'
<1>1. PICK n \in Nat : n = Len(cogLog)
  BY LenProperties DEF CognitionInv
<1>2. PICK log2 : log2 = Append(cogLog, e) /\ cogLog' = log2
  OBVIOUS
<1>a. PICK log \in Seq(CognitionEvents) : log = cogLog
  BY DEF CognitionInv
<1>b. Extended(log, n, e, log2)
  <2>1. \A i \in 1..n : Reevaluates(log, i)
    BY <1>1, <1>a DEF CognitionInv
  <2>2. e.kind = "reevaluate" /\ e.trigger = "retraction" => \E r \in 1..n : LastRetraction(log, n, r, e.obj, e.derived)
    BY <1>1, <1>a
  <2> QED BY <1>1, <1>2, <1>a, <2>1, <2>2, LogKept
<1>3. /\ log2 \in Seq(CognitionEvents) /\ Len(log2) = n + 1 /\ DOMAIN log2 = 1..(n + 1) /\ DOMAIN cogLog = 1..n
      /\ log2[n + 1] = e /\ \A k \in 1..n : log2[k] = cogLog[k]
      /\ \A i \in 1..(n + 1) : Reevaluates(log2, i)
  BY <1>a, <1>b DEF Extended
<1>4. Heard(log2, n + 1, cognition')
  <2>1. PICK s, s2 : s = cognition /\ s2 = cognition'
    OBVIOUS
  <2>2. Heard(log, n, s)
    BY <1>1, <1>a, <2>1 DEF CognitionInv
  <2>3. log2[n + 1] = e /\ \A k \in 1..n : log2[k] = log[k]
    BY <1>3, <1>a
  <2>4. TakesUp(e, s, s2)
    BY <2>1 DEF TakesUp, CognitionShape
  <2>5. Heard(log2, n + 1, s2)
    BY <1>1, <2>2, <2>3, <2>4, HearsMore
  <2> QED BY <2>1, <2>5
<1>5. candidates' \in [Candidates -> CandidateStates]
  <2>1. candidates \in [Candidates -> CandidateStates]
    BY DEF CognitionInv
  <2>3. CASE e.kind = "created"
    BY <2>1, <2>3 DEF FoldCandidate, CandidateStates
  <2>4. CASE e.kind \in {"promoted", "rejected", "downgraded"} /\ candidates[e.cand] # "none"
    BY <2>1, <2>4 DEF FoldCandidate, CandidateStates
  <2>5. CASE e.kind # "created" /\ ~(e.kind \in {"promoted", "rejected", "downgraded"} /\ candidates[e.cand] # "none")
    BY <2>1, <2>5 DEF FoldCandidate
  <2> QED BY <2>3, <2>4, <2>5
<1>6. candidates' = FoldedCandidates(log2)
  <2>1. candidates = FoldedCandidates(cogLog)
    BY DEF CognitionInv, CandidatesFollowLog, FoldedCandidates
  <2> QED BY <1>3, <2>1, CandidatesAppend
<1>7. ASSUME NEW c \in Candidates, candidates'[c] = "promoted"
      PROVE  \E i \in 1..(n + 1) : log2[i].kind = "promoted" /\ log2[i].cand = c
  <2>1. candidates \in [Candidates -> CandidateStates]
    BY DEF CognitionInv
  <2>2. candidates[c] = "promoted" \/ (e.kind = "promoted" /\ e.cand = c)
    BY <1>7, <2>1 DEF FoldCandidate
  <2>3. CASE candidates[c] = "promoted"
    <3>1. PICK i \in 1..n : cogLog[i].kind = "promoted" /\ cogLog[i].cand = c
      BY <1>1, <2>3 DEF CognitionInv
    <3>2. i \in 1..(n + 1)
      OBVIOUS
    <3> QED BY <1>3, <3>1, <3>2
  <2>4. CASE e.kind = "promoted" /\ e.cand = c
    <3>1. n + 1 \in 1..(n + 1)
      OBVIOUS
    <3> QED BY <1>3, <2>4, <3>1
  <2> QED BY <2>2, <2>3, <2>4
<1>8. ASSUME underway'.task = "retract"
      PROVE  /\ \E r \in 1..(n + 1) : LastRetraction(log2, n + 1, r, underway'.obj, underway'.derived)
             /\ underway'.derived \subseteq cognition'.invalidated
  <2>1. CASE e.kind = "retracted"
    <3>1. \E r \in 1..(n + 1) : LastRetraction(log2, n + 1, r, e.obj, TransitiveDerived(e.edges, e.obj))
      BY <1>b, <2>1 DEF Extended
    <3> QED BY <1>8, <2>1, <3>1
  <2>2. CASE e.kind # "retracted"
    <3>1. underway' = underway /\ underway.task = "retract"
      BY <1>8, <2>2
    <3>2. \E r \in 1..n : LastRetraction(log, n, r, underway.obj, underway.derived)
      BY <1>1, <1>a, <3>1 DEF CognitionInv
    <3>3. \E r \in 1..(n + 1) : LastRetraction(log2, n + 1, r, underway.obj, underway.derived)
      BY <1>b, <2>2, <3>2 DEF Extended
    <3> QED BY <1>8, <3>1, <3>3
  <2> QED BY <2>1, <2>2
<1>9. CandidatesFollowLog'
  BY <1>2, <1>6 DEF CandidatesFollowLog, FoldedCandidates
<1> QED BY <1>2, <1>3, <1>4, <1>5, <1>7, <1>8, <1>9 DEF CognitionInv

\* The parts of the state in memory.
LEMMA PartsOf ==
  ASSUME NEW s, CognitionShape(s)
  PROVE  \E P \in SUBSET Candidates, S \in [Objects -> Stabilities], R \in SUBSET Objects, I \in SUBSET Objects,
            L \in SUBSET Derivations :
           s = [proposals |-> P, stable |-> S, retracted |-> R, invalidated |-> I, lineage |-> L]
<1>1. /\ s = [proposals |-> s.proposals, stable |-> s.stable, retracted |-> s.retracted,
              invalidated |-> s.invalidated, lineage |-> s.lineage]
      /\ s.proposals \in SUBSET Candidates /\ s.stable \in [Objects -> Stabilities] /\ s.retracted \in SUBSET Objects
      /\ s.invalidated \in SUBSET Objects /\ s.lineage \in SUBSET Derivations
  BY DEF CognitionShape
<1> QED BY <1>1

\* What a step that appends nothing leaves, if memory still holds what the log says.
LEMMA QuietKeepsCognition ==
  ASSUME CognitionInv, cogLog' = cogLog, candidates' = candidates, Heard(cogLog, Len(cogLog), cognition'),
         underway' = NoWork \/ (underway' = underway /\ cognition.invalidated \subseteq cognition'.invalidated)
  PROVE  CognitionInv'
<1>1. PICK log : log = cogLog /\ cogLog' = log
  OBVIOUS
<1>2. /\ log \in Seq(CognitionEvents) /\ \A i \in 1..Len(log) : Reevaluates(log, i)
      /\ candidates' \in [Candidates -> CandidateStates]
      /\ \A c \in Candidates : candidates'[c] = "promoted" =>
           \E i \in 1..Len(log) : log[i].kind = "promoted" /\ log[i].cand = c
      /\ candidates' = FoldLeft(FoldCandidate, [c \in Candidates |-> "none"], cogLog)
  BY <1>1 DEF CognitionInv, CandidatesFollowLog
<1>3. Heard(log, Len(log), cognition')
  BY <1>1 DEF Heard, CognitionShape
<1>4. underway' \in {NoWork} \cup Tasks
  BY DEF CognitionInv
<1>5. ASSUME underway'.task = "retract"
      PROVE  /\ \E r \in 1..Len(log) : LastRetraction(log, Len(log), r, underway'.obj, underway'.derived)
             /\ underway'.derived \subseteq cognition'.invalidated
  <2>1. underway' = underway /\ cognition.invalidated \subseteq cognition'.invalidated
    BY <1>5 DEF NoWork
  <2>2. \E r \in 1..Len(log) : LastRetraction(log, Len(log), r, underway.obj, underway.derived)
    BY <1>1, <1>5, <2>1 DEF CognitionInv
  <2> QED BY <1>5, <2>1, <2>2 DEF CognitionInv
<1>6. CandidatesFollowLog'
  BY <1>1, <1>2 DEF CandidatesFollowLog
<1> QED BY <1>1, <1>2, <1>3, <1>4, <1>5, <1>6 DEF CognitionInv

\* A proposal is recorded, and then its candidate.
LEMMA ProposalsKeepCognition ==
  ASSUME CognitionInv, CreateProposed \/ \E c \in Candidates : ProposeMap(c) \/ Observe(c)
  PROVE  CognitionInv'
<1>1. CognitionShape(cognition) /\ candidates \in [Candidates -> CandidateStates]
  BY DEF CognitionInv, Heard
<1>2. ASSUME NEW c \in Candidates, ProposeMap(c) PROVE CognitionInv'
  <2>1. PICK e \in CognitionEvents : e = [kind |-> "proposed", cand |-> c]
    BY DEF CognitionEvents, CandidateEvents
  <2>2. cogLog' = Append(cogLog, e) /\ cognition' = cognition /\ candidates' = candidates
        /\ underway' = [task |-> "propose", cand |-> c]
    BY <1>2, <2>1 DEF ProposeMap, AppendCognition
  <2>3. CognitionShape(cognition')
    BY <1>1, <2>2 DEF CognitionShape
  <2>4. candidates' = FoldCandidate(candidates, e)
    BY <2>1, <2>2 DEF FoldCandidate
  <2>5. underway' \in Tasks /\ underway'.task # "retract"
    BY <2>2 DEF Tasks
  <2> QED BY <2>1, <2>2, <2>3, <2>4, <2>5, AppendKeepsCognition
<1>3. ASSUME NEW c \in Candidates, Observe(c) PROVE CognitionInv'
  <2>1. PICK e \in CognitionEvents : e = [kind |-> "created", cand |-> c]
    BY DEF CognitionEvents, CandidateEvents
  <2>2. cogLog' = Append(cogLog, e) /\ cognition' = cognition /\ underway' = underway
        /\ candidates' = [candidates EXCEPT ![c] = "candidate"]
    BY <1>3, <2>1 DEF Observe, AppendCognition
  <2>3. CognitionShape(cognition')
    BY <1>1, <2>2 DEF CognitionShape
  <2>4. candidates' = FoldCandidate(candidates, e)
    BY <2>1, <2>2 DEF FoldCandidate
  <2>5. underway' \in {NoWork} \cup Tasks /\ (underway'.task = "retract" => underway'.derived \subseteq cognition'.invalidated)
    BY <2>2 DEF CognitionInv
  <2> QED BY <2>1, <2>2, <2>3, <2>4, <2>5, AppendKeepsCognition
<1>4. ASSUME CreateProposed PROVE CognitionInv'
  <2>0. PICK c \in Candidates : c = underway.cand
    BY <1>4 DEF CognitionInv, CreateProposed, Tasks, NoWork
  <2>1. PICK e \in CognitionEvents : e = [kind |-> "created", cand |-> c]
    BY DEF CognitionEvents, CandidateEvents
  <2>2. cogLog' = Append(cogLog, e) /\ underway' = NoWork /\ candidates' = [candidates EXCEPT ![c] = "candidate"]
        /\ cognition' = [cognition EXCEPT !.proposals = @ \cup {c}]
    BY <1>4, <2>0, <2>1 DEF CreateProposed, AppendCognition
  <2>3. PICK P \in SUBSET Candidates, S \in [Objects -> Stabilities], R \in SUBSET Objects, I \in SUBSET Objects,
             L \in SUBSET Derivations :
          cognition = [proposals |-> P, stable |-> S, retracted |-> R, invalidated |-> I, lineage |-> L]
    BY <1>1, PartsOf
  <2>4. cognition' = [proposals |-> P \cup {c}, stable |-> S, retracted |-> R, invalidated |-> I, lineage |-> L]
    BY <2>2, <2>3
  <2>5. CognitionShape(cognition')
    BY <2>4 DEF CognitionShape
  <2>6. candidates' = FoldCandidate(candidates, e)
    BY <2>1, <2>2 DEF FoldCandidate
  <2>7. underway' \in {NoWork} \cup Tasks /\ underway'.task # "retract"
    BY <2>2 DEF NoWork
  <2>8. cognition'.stable = cognition.stable /\ cognition'.retracted = cognition.retracted
        /\ cognition'.invalidated = cognition.invalidated
    BY <2>3, <2>4
  <2>9. e.kind # "retracted" /\ e.kind # "reevaluate"
    BY <2>1
  <2> QED BY <2>2, <2>5, <2>6, <2>7, <2>8, <2>9, AppendKeepsCognition
<1> QED BY <1>2, <1>3, <1>4

\* A decision of the owner is recorded and taken up.
LEMMA DecisionKeepsCognition ==
  ASSUME CognitionInv, NEW c \in Candidates, NEW to \in {"promoted", "rejected", "downgraded"}, GovernApply(c, to)
  PROVE  CognitionInv'
<1>1. CognitionShape(cognition) /\ candidates \in [Candidates -> CandidateStates]
  BY DEF CognitionInv, Heard
<1>2. PICK e \in CognitionEvents : e = [kind |-> to, cand |-> c]
  BY DEF CognitionEvents, CandidateEvents
<1>3. cogLog' = Append(cogLog, e) /\ underway' = underway /\ candidates' = [candidates EXCEPT ![c] = to]
  BY <1>2 DEF GovernApply, AppendCognition
<1>4. candidates' = FoldCandidate(candidates, e)
  <2>1. candidates[c] # "none"
    BY DEF GovernApply, ValidCandidateTransition
  <2> QED BY <1>2, <1>3, <2>1 DEF FoldCandidate
<1>5. PICK P \in SUBSET Candidates, S \in [Objects -> Stabilities], R \in SUBSET Objects, I \in SUBSET Objects,
           L \in SUBSET Derivations :
        cognition = [proposals |-> P, stable |-> S, retracted |-> R, invalidated |-> I, lineage |-> L]
  BY <1>1, PartsOf
<1>6. \E S2 \in [Objects -> Stabilities] :
        /\ cognition' = [proposals |-> P, stable |-> S2, retracted |-> R, invalidated |-> I, lineage |-> L]
        /\ \A o \in Objects : S2[o] = "active" => S[o] = "active" \/ (to = "promoted" /\ CandidateOf[c] = o)
  <2>1. CASE to = "promoted"
    <3>1. PICK S2 : S2 = [S EXCEPT ![CandidateOf[c]] = "active"]
      OBVIOUS
    <3>2. cognition' = [proposals |-> P, stable |-> S2, retracted |-> R, invalidated |-> I, lineage |-> L]
      BY <1>5, <2>1, <3>1 DEF GovernApply
    <3>3. S2 \in [Objects -> Stabilities]
      BY <3>1 DEF Stabilities
    <3>4. \A o \in Objects : S2[o] = "active" => S[o] = "active" \/ CandidateOf[c] = o
      BY <3>1
    <3> QED BY <2>1, <3>2, <3>3, <3>4
  <2>2. CASE to = "downgraded"
    <3>1. PICK S2 : S2 = Deactivate(S, {CandidateOf[c]})
      OBVIOUS
    <3>2. cognition' = [proposals |-> P, stable |-> S2, retracted |-> R, invalidated |-> I, lineage |-> L]
      BY <1>5, <2>2, <3>1 DEF GovernApply
    <3>3. S2 \in [Objects -> Stabilities] /\ \A o \in Objects : S2[o] = "active" => S[o] = "active"
      BY <3>1, DeactivateIs
    <3> QED BY <3>2, <3>3
  <2>3. CASE to = "rejected"
    <3>1. cognition' = cognition
      BY <2>3 DEF GovernApply
    <3> QED BY <1>5, <3>1
  <2> QED BY <2>1, <2>2, <2>3
<1>7. PICK S2 \in [Objects -> Stabilities] :
        /\ cognition' = [proposals |-> P, stable |-> S2, retracted |-> R, invalidated |-> I, lineage |-> L]
        /\ \A o \in Objects : S2[o] = "active" => S[o] = "active" \/ (to = "promoted" /\ CandidateOf[c] = o)
  BY <1>6
<1>8. CognitionShape(cognition')
  BY <1>7 DEF CognitionShape
<1>9. /\ cognition'.retracted = cognition.retracted /\ cognition'.invalidated = cognition.invalidated
      /\ \A o \in Objects : cognition'.stable[o] = "active" =>
           cognition.stable[o] = "active" \/ (e.kind = "promoted" /\ CandidateOf[e.cand] = o)
  BY <1>2, <1>5, <1>7
<1>10. e.kind # "retracted" /\ e.kind # "reevaluate"
  BY <1>2
<1>11. underway' \in {NoWork} \cup Tasks /\ (underway'.task = "retract" => underway'.derived \subseteq cognition'.invalidated)
  BY <1>3, <1>9 DEF CognitionInv
<1> QED BY <1>3, <1>4, <1>8, <1>9, <1>10, <1>11, AppendKeepsCognition

\* A retraction is recorded with what was derived, and then the re-evaluation of it.
LEMMA RetractionKeepsCognition ==
  ASSUME CognitionInv, Reevaluate1 \/ \E o \in Objects : Retract(o)
  PROVE  CognitionInv'
<1>1. CognitionShape(cognition) /\ candidates \in [Candidates -> CandidateStates]
  BY DEF CognitionInv, Heard
<1>2. ASSUME NEW o \in Objects, Retract(o) PROVE CognitionInv'
  <2>1. PICK P \in SUBSET Candidates, S \in [Objects -> Stabilities], R \in SUBSET Objects, I \in SUBSET Objects,
             L \in SUBSET Derivations :
          cognition = [proposals |-> P, stable |-> S, retracted |-> R, invalidated |-> I, lineage |-> L]
    BY <1>1, PartsOf
  <2>2. PICK e \in CognitionEvents : e = [kind |-> "retracted", obj |-> o, edges |-> L]
    BY DEF CognitionEvents, Retractions
  <2>3. PICK ds \in SUBSET Objects : ds = TransitiveDerived(L, o)
    BY DerivedAreObjects
  <2>4. PICK S2 : S2 = Deactivate(S, ds \cup {o})
    OBVIOUS
  <2>5. S2 \in [Objects -> Stabilities] /\ \A x \in Objects : S2[x] = "active" => S[x] = "active"
    BY <2>4, DeactivateIs
  <2>a. cognition.lineage = L
    BY <2>1
  <2>b. cogLog' = Append(cogLog, e)
    BY <1>2, <2>2, <2>a DEF Retract, AppendCognition
  <2>c. underway' = [task |-> "retract", obj |-> o, derived |-> ds] /\ candidates' = candidates
        /\ cognition' = [cognition EXCEPT !.retracted = @ \cup {o}, !.invalidated = @ \cup ds,
                                          !.stable = Deactivate(@, ds \cup {o})]
    BY <1>2, <2>3, <2>a DEF Retract
  <2>6. cognition' = [proposals |-> P, stable |-> S2, retracted |-> R \cup {o}, invalidated |-> I \cup ds, lineage |-> L]
    BY <2>1, <2>4, <2>c
  <2>7. CognitionShape(cognition')
    BY <2>5, <2>6 DEF CognitionShape
  <2>8. candidates' = FoldCandidate(candidates, e)
    BY <2>2, <2>c DEF FoldCandidate
  <2>9. /\ cognition.retracted \subseteq cognition'.retracted /\ cognition.invalidated \subseteq cognition'.invalidated
        /\ o \in cognition'.retracted /\ ds \subseteq cognition'.invalidated
        /\ \A x \in Objects : cognition'.stable[x] = "active" => cognition.stable[x] = "active"
    BY <2>1, <2>5, <2>6
  <2>10. underway' \in Tasks /\ underway'.obj = o /\ underway'.derived = ds
    BY <2>c DEF Tasks
  <2>11. e.kind = "retracted" /\ e.kind # "reevaluate" /\ e.obj = o /\ e.edges = L
    BY <2>2
  <2> QED BY <2>3, <2>b, <2>7, <2>8, <2>9, <2>10, <2>11, AppendKeepsCognition
<1>3. ASSUME Reevaluate1 PROVE CognitionInv'
  <2>1. underway \in [task : {"retract"}, obj : Objects, derived : SUBSET Objects]
    BY <1>3 DEF Reevaluate1, CognitionInv, Tasks, NoWork
  <2>2. PICK e \in CognitionEvents :
          e = [kind |-> "reevaluate", trigger |-> "retraction", obj |-> underway.obj, derived |-> underway.derived]
    BY <2>1 DEF CognitionEvents, Reevaluations
  <2>3. cogLog' = Append(cogLog, e) /\ cognition' = cognition /\ candidates' = candidates /\ underway' = NoWork
    BY <1>3, <2>2 DEF Reevaluate1, AppendCognition
  <2>4. CognitionShape(cognition')
    BY <1>1, <2>3 DEF CognitionShape
  <2>5. candidates' = FoldCandidate(candidates, e)
    BY <2>2, <2>3 DEF FoldCandidate
  <2>6. /\ e.derived \subseteq cognition'.invalidated
        /\ \E r \in 1..Len(cogLog) : LastRetraction(cogLog, Len(cogLog), r, e.obj, e.derived)
    BY <2>1, <2>2, <2>3 DEF CognitionInv
  <2>7. underway' \in {NoWork} \cup Tasks /\ underway'.task # "retract"
    BY <2>3 DEF NoWork
  <2>8. e.kind # "retracted"
    BY <2>2
  <2> QED BY <2>3, <2>4, <2>5, <2>6, <2>7, <2>8, AppendKeepsCognition
<1> QED BY <1>2, <1>3

\* A derivation and a stale object are recorded; memory follows later.
LEMMA RecordsKeepCognition ==
  ASSUME CognitionInv, (\E edge \in Derivations : RecordLineage(edge)) \/ \E o \in Objects : AuditStale(o)
  PROVE  CognitionInv'
<1>1. CognitionShape(cognition)
  BY DEF CognitionInv, Heard
<1>2. ASSUME NEW edge \in Derivations, RecordLineage(edge) PROVE CognitionInv'
  <2>1. PICK e \in CognitionEvents : e = [kind |-> "lineage", edge |-> edge]
    BY DEF CognitionEvents, LineageEvents
  <2>2. cogLog' = Append(cogLog, e) /\ cognition' = cognition /\ candidates' = candidates
        /\ underway' = [task |-> "lineage", edge |-> edge]
    BY <1>2, <2>1 DEF RecordLineage, AppendCognition
  <2>3. CognitionShape(cognition')
    BY <1>1, <2>2 DEF CognitionShape
  <2>4. candidates' = FoldCandidate(candidates, e)
    BY <2>1, <2>2 DEF FoldCandidate
  <2>5. underway' \in Tasks /\ underway'.task # "retract"
    BY <2>2 DEF Tasks
  <2> QED BY <2>1, <2>2, <2>3, <2>4, <2>5, AppendKeepsCognition
<1>3. ASSUME NEW o \in Objects, AuditStale(o) PROVE CognitionInv'
  <2>1. PICK e \in CognitionEvents : e = [kind |-> "reevaluate", trigger |-> "stale", obj |-> o, derived |-> {o}]
    BY DEF CognitionEvents, Reevaluations
  <2>2. cogLog' = Append(cogLog, e) /\ cognition' = cognition /\ candidates' = candidates
        /\ underway' = [task |-> "audit", obj |-> o]
    BY <1>3, <2>1 DEF AuditStale, AppendCognition
  <2>3. CognitionShape(cognition')
    BY <1>1, <2>2 DEF CognitionShape
  <2>4. candidates' = FoldCandidate(candidates, e)
    BY <2>1, <2>2 DEF FoldCandidate
  <2>5. underway' \in Tasks /\ underway'.task # "retract"
    BY <2>2 DEF Tasks
  <2> QED BY <2>1, <2>2, <2>3, <2>4, <2>5, AppendKeepsCognition
<1> QED BY <1>2, <1>3

Promoted(log, n, o) == \E i \in 1..n : log[i].kind = "promoted" /\ CandidateOf[log[i].cand] = o

\* A state in memory that holds no more than another, and forgets nothing of it, holds what the log says.
LEMMA StaysHeard ==
  ASSUME NEW log, NEW n, NEW s, NEW s2, Heard(log, n, s), CognitionShape(s2),
         s.retracted \subseteq s2.retracted, s.invalidated \subseteq s2.invalidated,
         \A o \in Objects : s2.stable[o] = "active" => s.stable[o] = "active" \/ Promoted(log, n, o)
  PROVE  Heard(log, n, s2)
<1>1. \A o \in Objects : s2.stable[o] = "active" =>
        \E i \in 1..n : log[i].kind = "promoted" /\ CandidateOf[log[i].cand] = o
  BY DEF Heard, Promoted
<1>2. \A i \in 1..n : log[i].kind = "retracted" => log[i].obj \in s2.retracted
  BY DEF Heard
<1>3. \A i \in 1..n : log[i].kind = "reevaluate" /\ log[i].trigger = "retraction" => log[i].derived \subseteq s2.invalidated
  BY DEF Heard
<1> QED BY <1>1, <1>2, <1>3 DEF Heard

\* Memory takes up what was recorded before, a task is given up, or all of it is restored from the log.
LEMMA QuietStepsKeepCognition ==
  ASSUME CognitionInv,
         TakeUpLineage \/ AuditDone \/ GiveUp \/ RestartCognition \/ \E c \in Candidates : PromoteAgain(c)
  PROVE  CognitionInv'
<1>0. CognitionShape(cognition) /\ Heard(cogLog, Len(cogLog), cognition)
  BY DEF CognitionInv, Heard
<1>1. PICK P \in SUBSET Candidates, S \in [Objects -> Stabilities], R \in SUBSET Objects, I \in SUBSET Objects,
           L \in SUBSET Derivations :
        cognition = [proposals |-> P, stable |-> S, retracted |-> R, invalidated |-> I, lineage |-> L]
  BY <1>0, PartsOf
<1>2. ASSUME NEW c \in Candidates, PromoteAgain(c) PROVE CognitionInv'
  <2>1. PICK S2 : S2 = [S EXCEPT ![CandidateOf[c]] = "active"]
    OBVIOUS
  <2>2. S2 \in [Objects -> Stabilities] /\ \A o \in Objects : S2[o] = "active" => S[o] = "active" \/ CandidateOf[c] = o
    BY <2>1 DEF Stabilities
  <2>3. PICK s2 : s2 = [proposals |-> P, stable |-> S2, retracted |-> R, invalidated |-> I, lineage |-> L]
    OBVIOUS
  <2>4. cognition' = s2 /\ cogLog' = cogLog /\ candidates' = candidates /\ underway' = underway
    BY <1>1, <1>2, <2>1, <2>3 DEF PromoteAgain
  <2>5. PICK i \in 1..Len(cogLog) : cogLog[i].kind = "promoted" /\ cogLog[i].cand = c
    BY <1>2 DEF PromoteAgain, CognitionInv
  <2>6. CognitionShape(s2)
    BY <2>2, <2>3 DEF CognitionShape
  <2>7. /\ cognition.retracted \subseteq s2.retracted /\ cognition.invalidated \subseteq s2.invalidated
        /\ \A o \in Objects : s2.stable[o] = "active" => cognition.stable[o] = "active" \/ CandidateOf[c] = o
    BY <1>1, <2>2, <2>3
  <2>8. \A o \in Objects : s2.stable[o] = "active" =>
          cognition.stable[o] = "active" \/ Promoted(cogLog, Len(cogLog), o)
    BY <2>5, <2>7 DEF Promoted
  <2>9. Heard(cogLog, Len(cogLog), s2)
    BY <1>0, <2>6, <2>7, <2>8, StaysHeard
  <2>10. Heard(cogLog, Len(cogLog), cognition') /\ cognition.invalidated \subseteq cognition'.invalidated
    BY <2>4, <2>7, <2>9
  <2> QED BY <2>4, <2>10, QuietKeepsCognition
<1>3. ASSUME TakeUpLineage PROVE CognitionInv'
  <2>1. PICK edge \in Derivations : edge = underway.edge
    BY <1>3 DEF TakeUpLineage, CognitionInv, Tasks, NoWork
  <2>2. PICK s2 : s2 = [proposals |-> P, stable |-> S, retracted |-> R, invalidated |-> I, lineage |-> L \cup {edge}]
    OBVIOUS
  <2>3. cognition' = s2 /\ cogLog' = cogLog /\ candidates' = candidates /\ underway' = NoWork
    BY <1>1, <1>3, <2>1, <2>2 DEF TakeUpLineage
  <2>4. CognitionShape(s2)
    BY <2>2 DEF CognitionShape
  <2>5. /\ cognition.retracted \subseteq s2.retracted /\ cognition.invalidated \subseteq s2.invalidated
        /\ \A o \in Objects : s2.stable[o] = "active" => cognition.stable[o] = "active"
    BY <1>1, <2>2
  <2>6. Heard(cogLog, Len(cogLog), s2)
    BY <1>0, <2>4, <2>5, StaysHeard
  <2>7. Heard(cogLog, Len(cogLog), cognition')
    BY <2>3, <2>6
  <2> QED BY <2>3, <2>7, QuietKeepsCognition
<1>4. ASSUME AuditDone PROVE CognitionInv'
  <2>1. PICK o \in Objects : o = underway.obj
    BY <1>4 DEF AuditDone, CognitionInv, Tasks, NoWork
  <2>2. PICK S2 : S2 = Deactivate(S, {o})
    OBVIOUS
  <2>3. S2 \in [Objects -> Stabilities] /\ \A x \in Objects : S2[x] = "active" => S[x] = "active"
    BY <2>2, DeactivateIs
  <2>4. PICK s2 : s2 = [proposals |-> P, stable |-> S2, retracted |-> R, invalidated |-> I \cup {o}, lineage |-> L]
    OBVIOUS
  <2>a. PICK s1 : s1 = [cognition EXCEPT !.stable = Deactivate(@, {o}), !.invalidated = @ \cup {o}]
    OBVIOUS
  <2>b. s1 = [proposals |-> P, stable |-> Deactivate(S, {o}), retracted |-> R, invalidated |-> I \cup {o}, lineage |-> L]
    BY <1>1, <2>a
  <2>c. cognition' = s1 /\ cogLog' = cogLog /\ candidates' = candidates /\ underway' = NoWork
    BY <1>4, <2>1, <2>a DEF AuditDone
  <2>5. cognition' = s2 /\ cogLog' = cogLog /\ candidates' = candidates /\ underway' = NoWork
    BY <2>2, <2>4, <2>b, <2>c
  <2>6. CognitionShape(s2)
    BY <2>3, <2>4 DEF CognitionShape
  <2>7. /\ cognition.retracted \subseteq s2.retracted /\ cognition.invalidated \subseteq s2.invalidated
        /\ \A x \in Objects : s2.stable[x] = "active" => cognition.stable[x] = "active"
    BY <1>1, <2>3, <2>4
  <2>8. Heard(cogLog, Len(cogLog), s2)
    BY <1>0, <2>6, <2>7, StaysHeard
  <2>9. Heard(cogLog, Len(cogLog), cognition')
    BY <2>5, <2>8
  <2> QED BY <2>5, <2>9, QuietKeepsCognition
<1>5. ASSUME GiveUp PROVE CognitionInv'
  <2>1. cogLog' = cogLog /\ candidates' = candidates /\ cognition' = cognition /\ underway' = NoWork
    BY <1>5 DEF GiveUp
  <2>2. Heard(cogLog, Len(cogLog), cognition')
    BY <1>0, <2>1
  <2> QED BY <2>1, <2>2, QuietKeepsCognition
<1>6. ASSUME RestartCognition PROVE CognitionInv'
  <2>1. PICK s2 : s2 = FoldLeft(FoldCognition, Blank, cogLog)
    OBVIOUS
  <2>2. cogLog' = cogLog /\ cognition' = s2 /\ underway' = NoWork
    BY <1>6, <2>1 DEF RestartCognition
  <2>3. candidates' = candidates
    BY <1>6 DEF RestartCognition, CognitionInv, CandidatesFollowLog
  <2>4. Heard(cogLog, Len(cogLog), s2)
    <3>1. cogLog \in Seq(CognitionEvents)
      BY DEF CognitionInv
    <3> QED BY <2>1, <3>1, LogHeard
  <2>5. Heard(cogLog, Len(cogLog), cognition')
    BY <2>2, <2>4
  <2> QED BY <2>2, <2>3, <2>5, QuietKeepsCognition
<1> QED BY <1>2, <1>3, <1>4, <1>5, <1>6

\* No step of the cognition breaks it.
LEMMA CognitionKept == CognitionInv /\ [CognitionNext]_cognitionVars => CognitionInv'
<1> SUFFICES ASSUME CognitionInv, [CognitionNext]_cognitionVars PROVE CognitionInv'
  OBVIOUS
<1>1. CASE CognitionNext
  <2>1. CASE CreateProposed \/ \E c \in Candidates : ProposeMap(c) \/ Observe(c)
    BY <2>1, ProposalsKeepCognition
  <2>2. CASE \E c \in Candidates : \E to \in {"promoted", "rejected", "downgraded"} : GovernApply(c, to)
    BY <2>2, DecisionKeepsCognition
  <2>3. CASE Reevaluate1 \/ \E o \in Objects : Retract(o)
    BY <2>3, RetractionKeepsCognition
  <2>4. CASE (\E edge \in Derivations : RecordLineage(edge)) \/ \E o \in Objects : AuditStale(o)
    BY <2>4, RecordsKeepCognition
  <2>5. CASE TakeUpLineage \/ AuditDone \/ GiveUp \/ RestartCognition \/ \E c \in Candidates : PromoteAgain(c)
    BY <2>5, QuietStepsKeepCognition
  <2> QED BY <1>1, <2>1, <2>2, <2>3, <2>4, <2>5 DEF CognitionNext
<1>2. CASE UNCHANGED cognitionVars
  <2>1. cogLog' = cogLog /\ candidates' = candidates /\ cognition' = cognition /\ underway' = underway
    BY <1>2 DEF cognitionVars
  <2>2. Heard(cogLog, Len(cogLog), cognition') /\ cognition.invalidated \subseteq cognition'.invalidated
    BY <2>1 DEF CognitionInv
  <2> QED BY <2>1, <2>2, QuietKeepsCognition
<1> QED BY <1>1, <1>2

\* The last retraction is the one that the log is searched for.
LEMMA LastRetractionIs ==
  ASSUME NEW log, NEW i \in Nat, NEW r, NEW o, NEW ds, LastRetraction(log, i, r, o, ds)
  PROVE  SelectLastInSubSeq(log, 1, i, LAMBDA e : e.kind = "retracted") = r
<1> DEFINE found == {k \in 1..i : log[k].kind = "retracted"}
<1>1. r \in found /\ found \in SUBSET Int
  BY DEF LastRetraction
<1>2. ASSUME NEW k \in found PROVE k <= r
  <2>1. k \in 1..i /\ r \in 1..i /\ ~(k \in (r + 1)..i)
    BY <1>2 DEF LastRetraction
  <2> QED BY <2>1
<1>3. SelectLastInSubSeq(log, 1, i, LAMBDA e : e.kind = "retracted") = IF found # {} THEN Max(found) ELSE 0
  BY DEF SelectLastInSubSeq
<1> HIDE DEF found
<1>4. Max(found) = r
  BY <1>1, <1>2, MaxIs
<1> QED BY <1>1, <1>3, <1>4

\* What was retracted, and all that was derived from it, is not usable.
LEMMA RetractionsReach == CognitionInv => RetractionReachesDerived
<1> SUFFICES ASSUME CognitionInv, NEW i \in 2..Len(cogLog),
                    cogLog[i].kind = "reevaluate", cogLog[i].trigger = "retraction",
                    NEW path \in SeqOf(Objects, Cardinality(Objects)), Len(path) > 1, path[1] = cogLog[i].obj,
                    \A k \in 1..(Len(path)-1) : <<path[k], path[k+1]>> \in
                      cogLog[SelectLastInSubSeq(cogLog, 1, i, LAMBDA e : e.kind = "retracted")].edges
             PROVE  ~IsUsable(path[1]) /\ ~IsUsable(path[Len(path)])
  BY DEF RetractionReachesDerived
<1>1. PICK n \in Nat : n = Len(cogLog)
  BY LenProperties DEF CognitionInv
<1>2. i \in 1..n /\ i \in Nat /\ (\A r \in 1..i : r \in 1..n)
  BY <1>1
<1>3. PICK r \in 1..i : LastRetraction(cogLog, i, r, cogLog[i].obj, cogLog[i].derived)
  <2>1. Reevaluates(cogLog, i)
    BY <1>1, <1>2 DEF CognitionInv
  <2> QED BY <2>1 DEF Reevaluates
<1>4. PICK o, ds, L : o = cogLog[i].obj /\ ds = cogLog[i].derived /\ L = cogLog[r].edges
  OBVIOUS
<1>5. cogLog[r].kind = "retracted" /\ cogLog[r].obj = o /\ ds = TransitiveDerived(L, o)
  BY <1>3, <1>4 DEF LastRetraction
<1>6. SelectLastInSubSeq(cogLog, 1, i, LAMBDA e : e.kind = "retracted") = r
  BY <1>2, <1>3, LastRetractionIs
<1>7. o \in cognition.retracted /\ ds \subseteq cognition.invalidated
  <2>1. Heard(cogLog, n, cognition)
    BY <1>1 DEF CognitionInv
  <2>2. \A k \in 1..n : cogLog[k].kind = "retracted" => cogLog[k].obj \in cognition.retracted
    BY <2>1 DEF Heard
  <2>3. cogLog[i].derived \subseteq cognition.invalidated
    BY <1>2, <2>1 DEF Heard
  <2> QED BY <1>2, <1>4, <1>5, <2>2, <2>3
<1>8. PICK m \in 0..Cardinality(Objects) : path \in [1..m -> Objects]
  BY DEF SeqOf
<1>9. m \in Nat /\ Len(path) = m
  <2>1. m \in Nat
    BY ObjectsCounted
  <2> QED BY <1>8, <2>1
<1>10. m \in 1..Cardinality(Objects) /\ m \in 1..m /\ 1 \in 1..m
  BY <1>8, <1>9, ObjectsCounted
<1>11. path[1] = o /\ path[1] \in Objects /\ \A k \in 1..(m - 1) : <<path[k], path[k + 1]>> \in L
  BY <1>4, <1>6, <1>8, <1>9, <1>10
<1>12. path[m] = o \/ path[m] \in TransitiveDerived(L, o)
  BY <1>8, <1>10, <1>11, ChainsReach
<1> QED BY <1>5, <1>7, <1>9, <1>11, <1>12 DEF IsUsable

\* The evidence of a case is counted.
CaseInv == {"verified", "confidence"} \subseteq DOMAIN case /\ case.verified \in Nat /\ case.confidence \in Nat

\* No step of the judgement breaks it.
LEMMA CaseCounted == (JudgementInit => CaseInv) /\ (CaseInv /\ [JudgementNext]_judgementVars => CaseInv')
<1>1. JudgementInit => CaseInv
  BY DEF JudgementInit, NoCase, CaseInv
<1>2. ASSUME CaseInv, [JudgementNext]_judgementVars PROVE CaseInv'
  <2>0. CautionConfidence \in Nat /\ TrustConfidence \in Nat
    BY AsymmetryAssumption DEF AsymmetryAssumption
  <2>1. CASE AddVerified
    BY <1>2, <2>1 DEF AddVerified, Adds, CaseInv
  <2>2. CASE RaiseConfidence
    BY <1>2, <2>0, <2>2 DEF RaiseConfidence, Adds, CaseInv
  <2>3. CASE OwnerConfirms
    BY <1>2, <2>3 DEF OwnerConfirms, Adds, CaseInv
  <2>4. CASE Objection
    BY <1>2, <2>4 DEF Objection, Adds, CaseInv
  <2>5. CASE LoseTrustTier
    BY <1>2, <2>5 DEF LoseTrustTier, Adds, CaseInv
  <2>6. CASE AddSuccess
    BY <1>2, <2>6 DEF AddSuccess, Adds, CaseInv
  <2>7. CASE AddFailure
    BY <1>2, <2>7 DEF AddFailure, Adds, CaseInv
  <2>8. CASE Assess
    BY <1>2, <2>8 DEF Assess, Adds, CaseInv
  <2>9. CASE GrantTrust
    BY <1>2, <2>9 DEF GrantTrust, Adds, CaseInv
  <2>10. CASE UNCHANGED judgementVars
    BY <1>2, <2>10 DEF judgementVars, CaseInv
  <2> QED BY <1>2, <2>1, <2>2, <2>3, <2>4, <2>5, <2>6, <2>7, <2>8, <2>9, <2>10 DEF JudgementNext
<1> QED BY <1>1, <1>2

\* Caution asks no more than autonomy does.
LEMMA CautionAsksLess == CaseInv => CautionIsCheaper
<1> SUFFICES ASSUME CaseInv PROVE CautionIsCheaper
  OBVIOUS
<1>0. /\ CautionEvidence \in Nat /\ TrustEvidence \in Nat /\ CautionConfidence \in Nat /\ TrustConfidence \in Nat
      /\ CautionEvidence < TrustEvidence /\ CautionConfidence < TrustConfidence
  BY AsymmetryAssumption DEF AsymmetryAssumption
<1>1. Meets(case, "autonomy") => Meets(case, "caution")
  BY <1>0 DEF Meets, CaseInv
<1>2. Govern(case, "autonomy", FALSE) = "promote" => Govern(case, "caution", FALSE) = "promote"
  BY <1>1 DEF Govern
<1>3. \A direction \in Directions : Govern(case, direction, FALSE) # "confirm" => case.confirmed
  BY DEF Govern, Directions
<1> QED BY <1>2, <1>3 DEF CautionIsCheaper

\* CognitionIsSound, of propose_update, govern_and_apply, on_retraction and recovery: what was retracted, and all
\* that was derived from it at any distance, is not used; the map shows what the owner's decisions made stable;
\* the candidates are those of the log, over restarts too; and less is asked of caution than of autonomy.
THEOREM CognitionStaysSound == AssistantSpec => []CognitionIsSound
<1>1. AssistantInit => CognitionInv /\ CaseInv
  BY CognitionStart, CaseCounted DEF AssistantInit
<1>2. (CognitionInv /\ CaseInv) /\ [AssistantNext]_assistantVars => (CognitionInv /\ CaseInv)'
  BY FacultiesStep, CognitionKept, CaseCounted
<1>3. CognitionInv /\ CaseInv => CognitionIsSound
  <2> SUFFICES ASSUME CognitionInv, CaseInv PROVE CognitionIsSound
    OBVIOUS
  <2>1. MapShowsPromoted
    <3>1. DOMAIN cogLog = 1..Len(cogLog)
      BY LenProperties DEF CognitionInv
    <3> QED BY <3>1 DEF MapShowsPromoted, CognitionInv, Heard
  <2> QED BY <2>1, RetractionsReach, CautionAsksLess DEF CognitionIsSound, CognitionInv
<1> QED BY <1>1, <1>2, <1>3, PTL DEF AssistantSpec

-----------------------------------------------------------------------------
(* What a model is shown                                                   *)

\* What holds at the start and from each index to the next holds throughout.
LEMMA NoneFails ==
  ASSUME NEW n \in Nat, NEW bad \in SUBSET (0..n), 0 \notin bad, \A k \in 1..n : k - 1 \notin bad => k \notin bad
  PROVE  bad = {}
<1>1. SUFFICES ASSUME bad # {} PROVE FALSE
  OBVIOUS
<1>2. bad \subseteq Nat
  OBVIOUS
<1>3. PICK m \in bad : \A k \in bad : m <= k
  BY <1>1, <1>2, LeastOf
<1>4. m \in 1..n /\ ~(m <= m - 1)
  BY <1>3
<1> QED BY <1>3, <1>4

\* The positions of a log's first n events.
Positions1(n) == [i \in 1..n |-> i]

\* The governed events are the end of a trace.
LEMMA GovernedTrace ==
  ASSUME NEW log, NEW n \in Nat
  PROVE  \E t : Trace("governed", log, Positions1(n), n, t) /\ t[n] = GovernedOf(log, n)
<1> DEFINE items == [i \in 1..n |-> i]
           iter == CHOOSE h : h = [s \in SUBSET (DOMAIN items) |->
                                     IF s = {} THEN <<>>
                                     ELSE IF log[items[Max(s)]] THEN Append(h[s \ {Max(s)}], items[Max(s)])
                                          ELSE h[s \ {Max(s)}]]
<1>1. GovernedOf(log, n) = iter[DOMAIN items]
  BY DEF GovernedOf, FoldLeft, MapThenFoldSet
<1>2. \A s, e : FoldStep("governed", log, s, e) = IF log[e] THEN Append(s, e) ELSE s
  BY DEF FoldStep
<1>3. FoldBase("governed") = <<>>
  BY DEF FoldBase
<1>0. DOMAIN items = 1..n
  OBVIOUS
<1> HIDE DEF items
<1>4. PICK h : Folds("governed", log, items, n, h)
  BY FoldExists
<1>5. h = [s \in SUBSET (DOMAIN items) |-> IF s = {} THEN <<>>
                                           ELSE IF log[items[Max(s)]] THEN Append(h[s \ {Max(s)}], items[Max(s)])
                                                ELSE h[s \ {Max(s)}]]
  BY <1>0, <1>2, <1>3, <1>4 DEF Folds
<1>6. iter = [s \in SUBSET (DOMAIN items) |-> IF s = {} THEN <<>>
                                              ELSE IF log[items[Max(s)]] THEN Append(iter[s \ {Max(s)}], items[Max(s)])
                                                   ELSE iter[s \ {Max(s)}]]
  BY <1>5
<1> HIDE DEF iter
<1>7. Folds("governed", log, items, n, iter)
  BY <1>0, <1>2, <1>3, <1>6 DEF Folds
<1>8. PICK t : Trace("governed", log, items, n, t) /\ t[n] = iter[1..n]
  BY <1>7, TraceExists
<1>9. items = Positions1(n)
  BY DEF Positions1, items
<1> QED BY <1>0, <1>1, <1>8, <1>9

\* The governed events of the first n depend on these alone.
LEMMA GovernedAgrees ==
  ASSUME NEW log1, NEW log2, NEW n \in Nat, \A i \in 1..n : log1[i] = log2[i]
  PROVE  GovernedOf(log1, n) = GovernedOf(log2, n)
<1>1. PICK t1 : Trace("governed", log1, Positions1(n), n, t1) /\ t1[n] = GovernedOf(log1, n)
  BY GovernedTrace
<1>2. PICK t2 : Trace("governed", log2, Positions1(n), n, t2) /\ t2[n] = GovernedOf(log2, n)
  BY GovernedTrace
<1> DEFINE apart == {k \in 0..n : t1[k] # t2[k]}
<1>3. 0 \notin apart
  BY <1>1, <1>2 DEF Trace
<1>4. ASSUME NEW k \in 1..n, k - 1 \notin apart PROVE k \notin apart
  <2>1. t1[k - 1] = t2[k - 1]
    BY <1>4
  <2>2. Positions1(n)[k] = k
    BY DEF Positions1
  <2>3. t1[k] = FoldStep("governed", log1, t1[k - 1], k) /\ t2[k] = FoldStep("governed", log2, t2[k - 1], k)
    BY <1>1, <1>2, <2>2 DEF Trace
  <2> QED BY <2>1, <2>3 DEF FoldStep
<1>5. n \notin apart => t1[n] = t2[n]
  OBVIOUS
<1>6. apart \in SUBSET (0..n)
  OBVIOUS
<1> HIDE DEF apart
<1>7. apart = {}
  BY <1>3, <1>4, <1>6, NoneFails
<1> QED BY <1>1, <1>2, <1>5, <1>7

\* They are a sequence of positions.
LEMMA GovernedIsSeq == ASSUME NEW log, NEW n \in Nat PROVE GovernedOf(log, n) \in Seq(Nat)
<1>1. PICK t : Trace("governed", log, Positions1(n), n, t) /\ t[n] = GovernedOf(log, n)
  BY GovernedTrace
<1> DEFINE bad == {k \in 0..n : t[k] \notin Seq(Nat)}
<1>3. 0 \notin bad
  <2>1. t[0] = <<>>
    BY <1>1 DEF Trace, FoldBase
  <2>2. <<>> \in Seq(Nat)
    OBVIOUS
  <2> QED BY <2>1, <2>2
<1>4. ASSUME NEW k \in 1..n, k - 1 \notin bad PROVE k \notin bad
  <2>1. t[k - 1] \in Seq(Nat)
    BY <1>4
  <2>2. Positions1(n)[k] = k /\ k \in Nat
    BY DEF Positions1
  <2>3. t[k] = FoldStep("governed", log, t[k - 1], k)
    BY <1>1, <2>2 DEF Trace
  <2>4. t[k] = t[k - 1] \/ t[k] = Append(t[k - 1], k)
    BY <2>3 DEF FoldStep
  <2>5. Append(t[k - 1], k) \in Seq(Nat)
    BY <2>1, <2>2, AppendProperties
  <2> QED BY <2>1, <2>4, <2>5
<1>5. (n \notin bad => t[n] \in Seq(Nat)) /\ bad \in SUBSET (0..n)
  OBVIOUS
<1> HIDE DEF bad
<1>7. bad = {}
  BY <1>3, <1>4, <1>5, NoneFails
<1> QED BY <1>1, <1>5, <1>7

\* What items cost together is the end of a trace.
LEMMA TotalTrace ==
  ASSUME NEW items, NEW n \in Nat, DOMAIN items = 1..n
  PROVE  \E t : Trace("cost", {}, items, n, t) /\ t[n] = Total(items)
<1> DEFINE iter == CHOOSE h : h = [s \in SUBSET (DOMAIN items) |->
                                     IF s = {} THEN 0 ELSE WithCost(h[s \ {Max(s)}], items[Max(s)])]
<1>1. Total(items) = iter[DOMAIN items]
  BY DEF Total, FoldLeft, MapThenFoldSet
<1>2. \A s, e : FoldStep("cost", {}, s, e) = WithCost(s, e)
  BY DEF FoldStep
<1>3. FoldBase("cost") = 0
  BY DEF FoldBase
<1>4. PICK h : Folds("cost", {}, items, n, h)
  BY FoldExists
<1>5. h = [s \in SUBSET (DOMAIN items) |-> IF s = {} THEN 0 ELSE WithCost(h[s \ {Max(s)}], items[Max(s)])]
  BY <1>2, <1>3, <1>4 DEF Folds
<1>6. iter = [s \in SUBSET (DOMAIN items) |-> IF s = {} THEN 0 ELSE WithCost(iter[s \ {Max(s)}], items[Max(s)])]
  BY <1>5
<1> HIDE DEF iter
<1>7. Folds("cost", {}, items, n, iter)
  BY <1>2, <1>3, <1>6 DEF Folds
<1> QED BY <1>1, <1>7, TraceExists

\* Nothing costs nothing, and an item more costs what it costs.
LEMMA TotalGrows ==
  /\ Total(<<>>) = 0
  /\ \A S : \A s \in Seq(S) : \A x \in S : Total(Append(s, x)) = Total(s) + x.cost
<1>1. Total(<<>>) = 0
  <2>1. DOMAIN <<>> = 1..0
    OBVIOUS
  <2>2. PICK t : Trace("cost", {}, <<>>, 0, t) /\ t[0] = Total(<<>>)
    BY <2>1, TotalTrace
  <2> QED BY <2>2 DEF Trace, FoldBase
<1>2. ASSUME NEW S, NEW s \in Seq(S), NEW x \in S PROVE Total(Append(s, x)) = Total(s) + x.cost
  <2>1. PICK n \in Nat : n = Len(s) /\ DOMAIN s = 1..n
    BY LenProperties
  <2>2. PICK s2 : s2 = Append(s, x)
    OBVIOUS
  <2>3. DOMAIN s2 = 1..(n + 1) /\ s2[n + 1] = x /\ \A k \in 1..n : s2[k] = s[k]
    <3>1. s2 \in Seq(S) /\ Len(s2) = n + 1
      BY <2>1, <2>2, AppendProperties
    <3>2. DOMAIN s2 = 1..(n + 1)
      BY <2>1, <3>1, LenProperties
    <3> QED BY <2>1, <2>2, <3>2, AppendProperties
  <2>4. PICK t : Trace("cost", {}, s, n, t) /\ t[n] = Total(s)
    BY <2>1, TotalTrace
  <2>5. n + 1 \in Nat
    OBVIOUS
  <2>6. PICK t2 : Trace("cost", {}, s2, n + 1, t2) /\ t2[n + 1] = Total(s2)
    BY <2>3, <2>5, TotalTrace
  <2>a. Trace("cost", {}, s2, n, t2)
    BY <2>6 DEF Trace
  <2>7. t2[n] = t[n]
    BY <2>3, <2>4, <2>a, TracesAgree
  <2>8. n + 1 \in 1..(n + 1) /\ (n + 1) - 1 = n
    OBVIOUS
  <2>9. t2[n + 1] = FoldStep("cost", {}, t2[n], x)
    BY <2>3, <2>6, <2>8 DEF Trace
  <2>10. t2[n + 1] = t2[n] + x.cost
    BY <2>9 DEF FoldStep, WithCost
  <2> QED BY <2>2, <2>4, <2>6, <2>7, <2>10
<1> QED BY <1>1, <1>2

\* A sequence, of whatever it may be.
IsSeq(s) == \E S : s \in Seq(S)

\* The positions of a sequence.
LEMMA SeqPositions ==
  ASSUME NEW s, IsSeq(s) PROVE Len(s) \in Nat /\ DOMAIN s = 1..Len(s)
BY LenProperties DEF IsSeq

\* A sequence of one set is one of a larger set.
LEMMA SeqWider == ASSUME NEW S, NEW T, S \subseteq T, NEW s \in Seq(S) PROVE s \in Seq(T)
<1>1. PICK n \in Nat : s \in [1..n -> S]
  BY LenProperties
<1>2. s \in [1..n -> T]
  BY <1>1
<1> QED BY <1>2

\* A sequence with an element more.
Longer(s, x, s2) ==
  /\ IsSeq(s2) /\ DOMAIN s2 = 1..(Len(s) + 1) /\ s2[Len(s) + 1] = x /\ \A i \in 1..Len(s) : s2[i] = s[i]
  /\ Total(s2) = Total(s) + x.cost
\* Appending gives such a sequence, and adds the element's cost to the total.
LEMMA AppendIs == ASSUME NEW s, IsSeq(s), NEW x PROVE Longer(s, x, Append(s, x))
<1>0. PICK s2, n : s2 = Append(s, x) /\ n = Len(s)
  OBVIOUS
<1>1. PICK S : s \in Seq(S)
  BY DEF IsSeq
<1>2. PICK T : T = S \cup {x}
  OBVIOUS
<1>3. s \in Seq(T) /\ x \in T /\ n \in Nat
  BY <1>0, <1>1, <1>2, SeqWider, LenProperties
<1>4. s2 \in Seq(T) /\ Len(s2) = n + 1 /\ s2[n + 1] = x /\ \A i \in 1..n : s2[i] = s[i]
  BY <1>0, <1>3, AppendProperties
<1>5. DOMAIN s2 = 1..(n + 1)
  BY <1>4, LenProperties
<1>6. Total(s2) = Total(s) + x.cost
  BY <1>0, <1>3, TotalGrows
<1> QED BY <1>0, <1>4, <1>5, <1>6 DEF IsSeq, Longer

\* One sequence after another.
After(s, t, u) ==
  /\ IsSeq(u) /\ Len(s) \in Nat /\ Len(t) \in Nat /\ Len(u) = Len(s) + Len(t)
  /\ DOMAIN s = 1..Len(s) /\ DOMAIN t = 1..Len(t) /\ DOMAIN u = 1..(Len(s) + Len(t))
  /\ \A i \in 1..Len(s) : u[i] = s[i]
  /\ \A j \in 1..Len(t) : u[Len(s) + j] = t[j]
\* Concatenating two sequences puts one after the other.
LEMMA ConcatIs == ASSUME NEW s, NEW t, IsSeq(s), IsSeq(t) PROVE After(s, t, s \o t)
<1>0. PICK u, n, m : u = s \o t /\ n = Len(s) /\ m = Len(t)
  OBVIOUS
<1>1. PICK S, T : s \in Seq(S) /\ t \in Seq(T)
  BY DEF IsSeq
<1>2. PICK Q : Q = S \cup T
  OBVIOUS
<1>3. n \in Nat /\ m \in Nat /\ DOMAIN s = 1..n /\ DOMAIN t = 1..m
  BY <1>0, <1>1, LenProperties
<1>4. s \in Seq(Q) /\ t \in Seq(Q)
  BY <1>1, <1>2, SeqWider
<1>5. u \in Seq(Q) /\ Len(u) = n + m
  BY <1>0, <1>4, ConcatProperties
<1>6. DOMAIN u = 1..(n + m)
  BY <1>5, LenProperties
<1>7. \A i \in 1..(n + m) : u[i] = IF i <= n THEN s[i] ELSE t[i - n]
  BY <1>0, <1>4, ConcatProperties
<1>8. ASSUME NEW i \in 1..n PROVE u[i] = s[i]
  <2>1. i \in 1..(n + m) /\ i <= n
    BY <1>3
  <2> QED BY <1>7, <2>1
<1>9. ASSUME NEW j \in 1..m PROVE u[n + j] = t[j]
  <2>1. n + j \in 1..(n + m) /\ ~(n + j <= n) /\ (n + j) - n = j
    BY <1>3
  <2> QED BY <1>7, <2>1
<1> QED BY <1>0, <1>3, <1>5, <1>6, <1>8, <1>9 DEF IsSeq, After

\* What has been placed of an item.
In(seq, item) == \E j \in DOMAIN seq : seq[j] = item
Placed(b, item) == In(b.sections, item) \/ (item.kind # "rule" /\ In(b.excluded, item))
BuiltShape(b) ==
  /\ b = [sections |-> b.sections, excluded |-> b.excluded, spent |-> b.spent, failed |-> b.failed]
  /\ IsSeq(b.sections) /\ IsSeq(b.excluded) /\ b.failed \in BOOLEAN
  /\ b.spent = Total(b.sections) /\ b.spent <= UsableTokens

\* An item more is placed, unless it is a rule and the build fails.
LEMMA PushPlaces ==
  ASSUME NEW b, BuiltShape(b), NEW item, NEW b2, b2 = PushSection(b, item)
  PROVE  /\ BuiltShape(b2)
         /\ ~b2.failed => ~b.failed /\ Placed(b2, item) /\ \A x : Placed(b, x) => Placed(b2, x)
<1>1. PICK S, X, n, f : /\ b = [sections |-> S, excluded |-> X, spent |-> n, failed |-> f]
                        /\ IsSeq(S) /\ IsSeq(X) /\ f \in BOOLEAN /\ n = Total(S) /\ n <= UsableTokens
  BY DEF BuiltShape
<1>2. CASE b.failed
  <2>1. b2 = b
    BY <1>2 DEF PushSection
  <2> QED BY <1>2, <2>1
<1>3. CASE ~b.failed /\ b.spent + item.cost <= Available
  <2>1. PICK S2, k : S2 = Append(S, item) /\ k = Len(S)
    OBVIOUS
  <2>a. Longer(S, item, S2)
    BY <1>1, <2>1, AppendIs
  <2>2. b2 = [sections |-> S2, excluded |-> X, spent |-> n + item.cost, failed |-> f]
    BY <1>1, <1>3, <2>1 DEF PushSection
  <2>3. /\ IsSeq(S2) /\ Total(S2) = n + item.cost /\ DOMAIN S2 = 1..(k + 1) /\ S2[k + 1] = item
        /\ \A i \in 1..k : S2[i] = S[i]
    BY <1>1, <2>1, <2>a DEF Longer
  <2>4. k \in Nat /\ DOMAIN S = 1..k
    BY <1>1, <2>1, SeqPositions
  <2>5. k + 1 \in 1..(k + 1) /\ \A i \in 1..k : i \in 1..(k + 1)
    BY <2>4
  <2>6. n + item.cost <= UsableTokens
    BY <1>1, <1>3 DEF Available
  <2>7. BuiltShape(b2)
    BY <1>1, <2>2, <2>3, <2>6 DEF BuiltShape
  <2>8. In(S2, item) /\ \A x : In(S, x) => In(S2, x)
    BY <2>3, <2>4, <2>5 DEF In
  <2> QED BY <1>1, <1>3, <2>2, <2>7, <2>8 DEF Placed
<1>4. CASE ~b.failed /\ ~(b.spent + item.cost <= Available) /\ item.kind = "rule"
  <2>1. b2 = [sections |-> S, excluded |-> X, spent |-> n, failed |-> TRUE]
    BY <1>1, <1>4 DEF PushSection
  <2>2. b2.sections = S /\ b2.excluded = X /\ b2.spent = n /\ b2.failed = TRUE
    BY <2>1
  <2>3. b2 = [sections |-> b2.sections, excluded |-> b2.excluded, spent |-> b2.spent, failed |-> b2.failed]
    BY <2>1
  <2>4. BuiltShape(b2)
    BY <1>1, <2>2, <2>3 DEF BuiltShape
  <2> QED BY <2>2, <2>4
<1>5. CASE ~b.failed /\ ~(b.spent + item.cost <= Available) /\ item.kind # "rule"
  <2>1. PICK X2, k : X2 = Append(X, item) /\ k = Len(X)
    OBVIOUS
  <2>a. Longer(X, item, X2)
    BY <1>1, <2>1, AppendIs
  <2>2. b2 = [sections |-> S, excluded |-> X2, spent |-> n, failed |-> f]
    BY <1>1, <1>5, <2>1 DEF PushSection
  <2>3. /\ IsSeq(X2) /\ DOMAIN X2 = 1..(k + 1) /\ X2[k + 1] = item
        /\ \A i \in 1..k : X2[i] = X[i]
    BY <1>1, <2>1, <2>a DEF Longer
  <2>4. k \in Nat /\ DOMAIN X = 1..k
    BY <1>1, <2>1, SeqPositions
  <2>5. k + 1 \in 1..(k + 1) /\ \A i \in 1..k : i \in 1..(k + 1)
    BY <2>4
  <2>6. BuiltShape(b2)
    BY <1>1, <2>2, <2>3 DEF BuiltShape
  <2>7. In(X2, item) /\ \A x : In(X, x) => In(X2, x)
    BY <2>3, <2>4, <2>5 DEF In
  <2> QED BY <1>1, <1>5, <2>2, <2>6, <2>7 DEF Placed
<1> QED BY <1>2, <1>3, <1>4, <1>5

\* What is built of items is the end of a trace.
Building(items) == FoldLeft(PushSection, Nothing, items)
\* Building section by section has a trace, whose end is what is built.
LEMMA BuildTrace ==
  ASSUME NEW items, NEW n \in Nat, DOMAIN items = 1..n
  PROVE  \E t : Trace("built", {}, items, n, t) /\ t[n] = Building(items)
<1> DEFINE iter == CHOOSE h : h = [s \in SUBSET (DOMAIN items) |->
                                     IF s = {} THEN Nothing ELSE PushSection(h[s \ {Max(s)}], items[Max(s)])]
<1>1. Building(items) = iter[DOMAIN items]
  BY DEF Building, FoldLeft, MapThenFoldSet
<1>2. \A s, e : FoldStep("built", {}, s, e) = PushSection(s, e)
  BY DEF FoldStep
<1>3. FoldBase("built") = Nothing
  BY DEF FoldBase
<1>4. PICK h : Folds("built", {}, items, n, h)
  BY FoldExists
<1>5. h = [s \in SUBSET (DOMAIN items) |-> IF s = {} THEN Nothing ELSE PushSection(h[s \ {Max(s)}], items[Max(s)])]
  BY <1>2, <1>3, <1>4 DEF Folds
<1>6. iter = [s \in SUBSET (DOMAIN items) |-> IF s = {} THEN Nothing ELSE PushSection(iter[s \ {Max(s)}], items[Max(s)])]
  BY <1>5
<1> HIDE DEF iter
<1>7. Folds("built", {}, items, n, iter)
  BY <1>2, <1>3, <1>6 DEF Folds
<1> QED BY <1>1, <1>7, TraceExists

\* A build keeps to its tokens, and unless it fails places every item.
LEMMA BuildPlaces ==
  ASSUME NEW items, NEW n \in Nat, DOMAIN items = 1..n
  PROVE  /\ BuiltShape(Building(items))
         /\ ~Building(items).failed => \A i \in 1..n : Placed(Building(items), items[i])
<1>1. PICK t : Trace("built", {}, items, n, t) /\ t[n] = Building(items)
  BY BuildTrace
<1>2. t[0] = Nothing /\ \A k \in 1..n : t[k] = PushSection(t[k - 1], items[k])
  BY <1>1 DEF Trace, FoldBase, FoldStep
<1> DEFINE Well(k) == BuiltShape(t[k]) /\ (~t[k].failed => \A i \in 1..k : Placed(t[k], items[i]))
           bad == {k \in 0..n : ~Well(k)}
<1>3. 0 \notin bad
  <2>1. IsSeq(<<>>)
    <3>1. <<>> \in Seq({})
      OBVIOUS
    <3> QED BY <3>1 DEF IsSeq
  <2>2. 0 <= UsableTokens
    BY ContextAssumption DEF ContextAssumption, UsableTokens
  <2>3. BuiltShape(Nothing)
    BY <2>1, <2>2, TotalGrows DEF BuiltShape, Nothing
  <2> QED BY <1>2, <2>3
<1>4. ASSUME NEW k \in 1..n, k - 1 \notin bad PROVE k \notin bad
  <2>1. PICK b, b2, item : b = t[k - 1] /\ b2 = t[k] /\ item = items[k] /\ b2 = PushSection(b, item)
    BY <1>2
  <2>2. BuiltShape(b) /\ (~b.failed => \A i \in 1..(k - 1) : Placed(b, items[i]))
    BY <1>4, <2>1
  <2>3. BuiltShape(b2) /\ (~b2.failed => ~b.failed /\ Placed(b2, item) /\ \A x : Placed(b, x) => Placed(b2, x))
    BY <2>1, <2>2, PushPlaces
  <2>4. \A i \in 1..k : i = k \/ i \in 1..(k - 1)
    OBVIOUS
  <2> QED BY <2>1, <2>2, <2>3, <2>4
<1>5. (n \notin bad => Well(n)) /\ bad \in SUBSET (0..n)
  OBVIOUS
<1> HIDE DEF bad
<1>6. bad = {}
  BY <1>3, <1>4, <1>5, NoneFails
<1> QED BY <1>1, <1>5, <1>6

\* What a function on the first k numbers is.
LEMMA NumberedIsSeq ==
  ASSUME NEW k \in Nat, NEW f, DOMAIN f = 1..k, f = [i \in 1..k |-> f[i]]
  PROVE  IsSeq(f)
<1>1. PICK S : S = {f[i] : i \in 1..k}
  OBVIOUS
<1>2. f \in [1..k -> S]
  BY <1>1
<1>3. f \in Seq(S)
  BY <1>2
<1> QED BY <1>3 DEF IsSeq

\* The sequence u holds all that s holds.
Holds(u, s) == \A x : In(s, x) => In(u, x)
\* A concatenation holds what either part holds.
LEMMA ConcatHolds ==
  ASSUME NEW s, NEW t, IsSeq(s), IsSeq(t)
  PROVE  IsSeq(s \o t) /\ Holds(s \o t, s) /\ Holds(s \o t, t)
<1>1. PICK u, n, m : u = s \o t /\ n = Len(s) /\ m = Len(t)
  OBVIOUS
<1>2. /\ IsSeq(u) /\ n \in Nat /\ m \in Nat
      /\ DOMAIN s = 1..n /\ DOMAIN t = 1..m /\ DOMAIN u = 1..(n + m)
      /\ \A i \in 1..n : u[i] = s[i]
      /\ \A j \in 1..m : u[n + j] = t[j]
  BY <1>1, ConcatIs DEF After
<1>3. (\A i \in 1..n : i \in 1..(n + m)) /\ (\A j \in 1..m : n + j \in 1..(n + m))
  BY <1>2
<1>4. Holds(u, s)
  BY <1>2, <1>3 DEF Holds, In
<1>5. Holds(u, t)
  BY <1>2, <1>3 DEF Holds, In
<1> QED BY <1>1, <1>2, <1>4, <1>5

\* A layer has a section for each of its items.
LEMMA LayerIs ==
  ASSUME NEW kind, NEW items, IsSeq(items)
  PROVE  /\ IsSeq(Layer(kind, items))
         /\ \A i \in DOMAIN items : In(Layer(kind, items), [kind |-> kind, ref |-> items[i].ref,
                                                            cost |-> items[i].cost, owner |-> items[i].owner])
<1>1. PICK n \in Nat : DOMAIN items = 1..n
  BY SeqPositions
<1>2. PICK f : f = Layer(kind, items)
  OBVIOUS
<1>a. f = [i \in 1..n |-> [kind |-> kind, ref |-> items[i].ref, cost |-> items[i].cost, owner |-> items[i].owner]]
  BY <1>1, <1>2 DEF Layer
<1>b. DOMAIN f = 1..n /\ f = [i \in 1..n |-> f[i]]
  BY <1>a
<1>c. \A i \in 1..n : f[i] = [kind |-> kind, ref |-> items[i].ref, cost |-> items[i].cost, owner |-> items[i].owner]
  BY <1>a
<1>3. IsSeq(f)
  BY <1>b, NumberedIsSeq
<1> QED BY <1>1, <1>2, <1>b, <1>c, <1>3 DEF In

\* The rules, and the skills selected, are among the layers.
LEMMA LayersHold ==
  ASSUME NEW h, NEW m, NEW s, IsSeq(h), IsSeq(s), IsSeq(skills), workspace \in Nat
  PROVE  IsSeq(Layers(h, m, s)) /\ Holds(Layers(h, m, s), Layer("rule", Rules)) /\ Holds(Layers(h, m, s), Layer("skill", skills))
<1> DEFINE w == IF BrainCall THEN workspace ELSE 0
           entries == LastEntries(h)
<1>1. PICK A, B, C, D, E, F :
        /\ A = Layer("rule", Rules)
        /\ B = [i \in 1..w |-> [kind |-> "workspace", ref |-> i, cost |-> EntryCost, owner |-> FALSE]]
        /\ C = [i \in DOMAIN entries |-> [kind |-> "history", ref |-> entries[i], cost |-> EntryCost, owner |-> FALSE]]
        /\ D = <<[kind |-> "memory", ref |-> "memory", cost |-> m, owner |-> FALSE]>>
        /\ E = Layer("skill", skills) /\ F = Layer("slice", s)
  OBVIOUS
<1>2. Layers(h, m, s) = A \o B \o C \o D \o E \o F
  BY <1>1 DEF Layers
<1>3. IsSeq(A)
  <2>1. IsSeq(Rules)
    BY ContextAssumption DEF ContextAssumption, IsSeq
  <2> QED BY <1>1, <2>1, LayerIs
<1>4. IsSeq(B)
  <2>1. w \in Nat
    OBVIOUS
  <2>2. DOMAIN B = 1..w /\ B = [i \in 1..w |-> B[i]]
    BY <1>1
  <2> QED BY <2>1, <2>2, NumberedIsSeq
<1>5. IsSeq(C)
  <2>1. IsSeq(entries)
    <3>0. PICK S : h \in Seq(S)
      BY DEF IsSeq
    <3>1. PICK n \in Nat : n = Len(h) /\ \A i \in 1..n : h[i] \in S
      BY <3>0, LenProperties
    <3>2. PICK a : a = IF n > MaxHistoryEntries THEN n - MaxHistoryEntries + 1 ELSE 1
      OBVIOUS
    <3>3. a \in Int /\ \A i \in a..n : i \in 1..n
      BY <3>2, ContextAssumption DEF ContextAssumption
    <3>4. \A i \in a..n : h[i] \in S
      BY <3>1, <3>3
    <3>5. SubSeq(h, a, n) \in Seq(S)
      BY <3>3, <3>4, SubSeqProperties
    <3>6. entries = SubSeq(h, a, n)
      BY <3>1, <3>2 DEF LastEntries
    <3> QED BY <3>5, <3>6 DEF IsSeq
  <2>2. PICK n \in Nat : DOMAIN entries = 1..n
    BY <2>1, SeqPositions
  <2>3. DOMAIN C = 1..n /\ C = [i \in 1..n |-> C[i]]
    BY <1>1, <2>2
  <2> QED BY <2>2, <2>3, NumberedIsSeq
<1>6. IsSeq(D)
  <2>1. PICK item : D = <<item>>
    BY <1>1
  <2>2. D \in Seq({item})
    BY <2>1
  <2> QED BY <2>2 DEF IsSeq
<1>7. IsSeq(E) /\ IsSeq(F)
  BY <1>1, LayerIs
<1>8. PICK P : P = A \o B /\ IsSeq(P) /\ Holds(P, A)
  BY <1>3, <1>4, ConcatHolds
<1>9. PICK Q : Q = P \o C /\ IsSeq(Q) /\ Holds(Q, P)
  BY <1>5, <1>8, ConcatHolds
<1>10. PICK R : R = Q \o D /\ IsSeq(R) /\ Holds(R, Q)
  BY <1>6, <1>9, ConcatHolds
<1>11. PICK T : T = R \o E /\ IsSeq(T) /\ Holds(T, R) /\ Holds(T, E)
  BY <1>7, <1>10, ConcatHolds
<1>12. PICK U : U = T \o F /\ IsSeq(U) /\ Holds(U, T)
  BY <1>7, <1>11, ConcatHolds
<1>13. Holds(U, A) /\ Holds(U, E)
  BY <1>8, <1>9, <1>10, <1>11, <1>12 DEF Holds
<1>14. Layers(h, m, s) = U
  BY <1>2, <1>8, <1>9, <1>10, <1>11, <1>12
<1> QED BY <1>1, <1>12, <1>13, <1>14

\* What a context shows that was built without a failure, with the skills ks.
Shows(b, ks) ==
  /\ Total(b.sections) <= UsableTokens
  /\ \A i \in DOMAIN Rules : Held(b.sections, "rule", Rules[i].ref)
  /\ \A i \in DOMAIN ks : Held(b.sections, "skill", ks[i].ref) \/ Held(b.excluded, "skill", ks[i].ref)

\* A build that fails nowhere shows every rule, and places or excludes every skill, within the usable tokens.
LEMMA BuildShows ==
  ASSUME NEW h, NEW m, NEW s, IsSeq(h), IsSeq(s), IsSeq(skills), workspace \in Nat, ~Build(h, m, s).failed
  PROVE  Shows(Build(h, m, s), skills)
<1>1. PICK items, b : items = Layers(h, m, s) /\ b = Build(h, m, s) /\ b = Building(items)
  BY DEF Build, Building
<1>2. IsSeq(items) /\ Holds(items, Layer("rule", Rules)) /\ Holds(items, Layer("skill", skills))
  BY <1>1, LayersHold
<1>3. PICK n \in Nat : DOMAIN items = 1..n
  BY <1>2, SeqPositions
<1>4. BuiltShape(b) /\ \A i \in 1..n : Placed(b, items[i])
  BY <1>1, <1>3, BuildPlaces
<1>5. \A x : In(items, x) => Placed(b, x)
  BY <1>3, <1>4 DEF In
<1>6. ASSUME NEW i \in DOMAIN Rules PROVE Held(b.sections, "rule", Rules[i].ref)
  <2>1. IsSeq(Rules)
    BY ContextAssumption DEF ContextAssumption, IsSeq
  <2>2. PICK x : x = [kind |-> "rule", ref |-> Rules[i].ref, cost |-> Rules[i].cost, owner |-> Rules[i].owner]
    OBVIOUS
  <2>3. In(Layer("rule", Rules), x)
    BY <2>1, <2>2, LayerIs
  <2>4. Placed(b, x) /\ x.kind = "rule" /\ x.ref = Rules[i].ref
    BY <1>2, <1>5, <2>2, <2>3 DEF Holds
  <2> QED BY <2>4 DEF Placed, In, Held
<1>7. ASSUME NEW i \in DOMAIN skills
      PROVE  Held(b.sections, "skill", skills[i].ref) \/ Held(b.excluded, "skill", skills[i].ref)
  <2>2. PICK x : x = [kind |-> "skill", ref |-> skills[i].ref, cost |-> skills[i].cost, owner |-> skills[i].owner]
    OBVIOUS
  <2>3. In(Layer("skill", skills), x)
    BY <2>2, LayerIs
  <2>4. Placed(b, x) /\ x.kind = "skill" /\ x.ref = skills[i].ref
    BY <1>2, <1>5, <2>2, <2>3 DEF Holds
  <2> QED BY <2>4 DEF Placed, In, Held
<1>8. Total(b.sections) <= UsableTokens
  BY <1>4 DEF BuiltShape
<1> QED BY <1>1, <1>6, <1>7, <1>8 DEF Shows

\* The stream begins with what the compactions covered, and the history is its governed part.
ContextInv ==
  /\ IsSeq(stream) /\ boundary \in 0..Len(stream)
  /\ IsSeq(history) /\ IsSeq(slices) /\ IsSeq(skills) /\ workspace \in Nat
  /\ boundary > 0 => history = GovernedOf(stream, boundary)
  /\ turn \in 0..MaxTurns /\ toolCalls \in 0..MaxToolCalls
  /\ tokens \in Nat /\ (tokens > TokenLimit => run = "limited")
  /\ run = "bound" => shown = Nothing /\ boundary = 0
  /\ shown # Nothing /\ run = "running" => ~UnderPressure(Estimate(history, remembered, slices))
  /\ shown = Nothing \/ Shows(shown, skills)

\* The empty sequence.
LEMMA EmptyIsSeq == IsSeq(<<>>) /\ Len(<<>>) = 0
<1>1. <<>> \in Seq({}) /\ Len(<<>>) = 0
  OBVIOUS
<1> QED BY <1>1 DEF IsSeq

\* A run begins with nothing shown.
LEMMA ContextStart == ContextInit => ContextInv
<1> SUFFICES ASSUME ContextInit PROVE ContextInv
  OBVIOUS
<1>1. /\ stream = <<>> /\ history = <<>> /\ skills = <<>> /\ slices = Slices /\ boundary = 0 /\ workspace = 0
      /\ turn = 0 /\ toolCalls = 0 /\ tokens = 0 /\ run = "bound" /\ shown = Nothing
  BY DEF ContextInit
<1>2. IsSeq(slices)
  BY <1>1, ContextAssumption DEF ContextAssumption, IsSeq
<1>3. MaxTurns \in Nat /\ MaxToolCalls \in Nat /\ TokenLimit \in Nat
  BY ContextAssumption DEF ContextAssumption
<1>4. 0 \in 0..0 /\ 0 \in 0..MaxTurns /\ 0 \in 0..MaxToolCalls /\ ~(0 > TokenLimit) /\ ~(0 > 0)
  BY <1>3
<1> QED BY <1>1, <1>2, <1>4, EmptyIsSeq DEF ContextInv

\* The stream s2 continues s.
Continues(s, s2) ==
  /\ IsSeq(s2) /\ Len(s) \in Nat /\ Len(s2) \in Nat /\ Len(s) <= Len(s2)
  /\ \A i \in 1..Len(s) : s2[i] = s[i]

\* With the events of a turn it does.
LEMMA StreamContinues ==
  ASSUME NEW s, NEW t, IsSeq(s), IsSeq(t)
  PROVE  Continues(s, s \o t)
<1>1. PICK n, m, u : n = Len(s) /\ m = Len(t) /\ u = s \o t
  OBVIOUS
<1>2. IsSeq(u) /\ n \in Nat /\ m \in Nat /\ Len(u) = n + m /\ \A i \in 1..n : u[i] = s[i]
  BY <1>1, ConcatIs DEF After
<1>3. n + m \in Nat /\ n <= n + m
  BY <1>2
<1> QED BY <1>1, <1>2, <1>3 DEF Continues

\* And so does a stream that continues a stream that continues it.
LEMMA ContinuesOn ==
  ASSUME NEW s, NEW t, NEW u, Continues(s, t), Continues(t, u)
  PROVE  Continues(s, u)
<1>1. Len(s) \in Nat /\ Len(t) \in Nat /\ Len(u) \in Nat /\ Len(s) <= Len(t) /\ Len(t) <= Len(u)
  BY DEF Continues
<1>2. Len(s) <= Len(u) /\ \A i \in 1..Len(s) : i \in 1..Len(t)
  BY <1>1
<1> QED BY <1>1, <1>2 DEF Continues

\* The lineage up to a boundary that the old stream has stays what it is.
LEMMA LineageContinues ==
  ASSUME NEW s, NEW s2, Continues(s, s2), NEW n \in 0..Len(s)
  PROVE  GovernedOf(s2, n) = GovernedOf(s, n) /\ n \in 0..Len(s2)
<1>1. PICK l, l2 : l = Len(s) /\ l2 = Len(s2) /\ l \in Nat /\ l2 \in Nat /\ l <= l2
  BY DEF Continues
<1>2. n \in Nat /\ (\A i \in 1..n : i \in 1..l) /\ n \in 0..l2
  BY <1>1
<1>3. \A i \in 1..n : s2[i] = s[i]
  BY <1>1, <1>2 DEF Continues
<1> QED BY <1>1, <1>2, <1>3, GovernedAgrees

\* A sequence of events to preserve.
LEMMA EventsAreSeq == ASSUME NEW k \in Nat PROVE IsSeq([i \in 1..k |-> TRUE])
<1>1. PICK f : f = [i \in 1..k |-> TRUE]
  OBVIOUS
<1>2. DOMAIN f = 1..k /\ f = [i \in 1..k |-> f[i]]
  BY <1>1
<1> QED BY <1>1, <1>2, NumberedIsSeq

\* What a turn does first: nothing, or a compaction that helps; then the run is at rest, or a model was called.
Turned(h, m, s, extra) ==
  /\ history' = h /\ remembered' = m /\ slices' = s /\ skills' = skills /\ workspace' = workspace
  /\ ~UnderPressure(Estimate(h, m, s))
  /\ \/ h = history /\ s = slices /\ extra = <<>> /\ boundary' = boundary
     \/ h = Governed(Len(stream)) /\ s = <<>> /\ extra = CompactionEvents /\ boundary' = Len(stream)
Rests(extra) ==
  run' \in {"limited", "failed"} /\ stream' = stream \o extra /\ UNCHANGED <<turn, toolCalls, tokens, shown>>
Calls(built, extra) ==
  ~(turn >= MaxTurns) /\ ~(toolCalls >= MaxToolCalls) /\ ~built.failed /\ Answered(built, extra)
Stranded ==
  run' = "stranded" /\ UNCHANGED <<stream, history, boundary, remembered, slices, turn, toolCalls, tokens, shown, skills, workspace>>

\* A turn is one of these.
LEMMA TurnIs ==
  ASSUME DriveTurn
  PROVE  Stranded \/ \E h, m, s, extra : Turned(h, m, s, extra) /\ (Rests(extra) \/ Calls(Build(h, m, s), extra))
<1> DEFINE c == Compacted
           kept == Governed(Len(stream))
<1>1. c.needed <=> UnderPressure(Estimate(history, remembered, slices))
  BY DEF Compacted
<1>2. c.works => ~UnderPressure(Estimate(kept, SummaryCost, <<>>))
  BY DEF Compacted, Preserved
<1>3. c.history = kept
  BY DEF Compacted, Preserved
<1>4. PICK wants, helps \in BOOLEAN : (wants <=> c.needed) /\ (helps <=> c.works)
  OBVIOUS
<1> HIDE DEF c
<1>5. CASE wants /\ ~helps
  BY <1>4, <1>5 DEF DriveTurn, Stranded, c
<1>6. CASE wants /\ helps
  <2>1. PICK h, m, s, extra : h = kept /\ m = SummaryCost /\ s = <<>> /\ extra = CompactionEvents
    OBVIOUS
  <2>2. Turned(h, m, s, extra)
    BY <1>2, <1>3, <1>4, <1>6, <2>1 DEF DriveTurn, Turned, c
  <2>3. Rests(extra) \/ Calls(Build(h, m, s), extra)
    BY <1>3, <1>4, <1>6, <2>1 DEF DriveTurn, Rests, Calls, c
  <2> QED BY <2>2, <2>3
<1>7. CASE ~wants
  <2>1. PICK h, m, s, extra : h = history /\ m = remembered /\ s = slices /\ extra = <<>>
    OBVIOUS
  <2>2. Turned(h, m, s, extra)
    BY <1>1, <1>4, <1>7, <2>1 DEF DriveTurn, Turned, c
  <2>3. Rests(extra) \/ Calls(Build(h, m, s), extra)
    BY <1>4, <1>7, <2>1 DEF DriveTurn, Rests, Calls, c
  <2> QED BY <2>2, <2>3
<1> QED BY <1>5, <1>6, <1>7

\* A turn keeps the invariant.
LEMMA TurnKeepsContext == ContextInv /\ DriveTurn => ContextInv'
<1> SUFFICES ASSUME ContextInv, DriveTurn PROVE ContextInv'
  OBVIOUS
<1>1. run = "running"
  BY DEF DriveTurn
<1>2. CASE Stranded
  <2>1. ~(tokens > TokenLimit)
    BY <1>1 DEF ContextInv
  <2> QED BY <1>2, <2>1 DEF Stranded, ContextInv
<1>3. ASSUME NEW h, NEW m, NEW s, NEW extra, Turned(h, m, s, extra), Rests(extra) \/ Calls(Build(h, m, s), extra)
      PROVE  ContextInv'
  <2>1. IsSeq(extra)
    <3>1. CompactionEvents \in Seq(BOOLEAN)
      BY DEF CompactionEvents
    <3> QED BY <1>3, <3>1, EmptyIsSeq DEF Turned, IsSeq
  <2>2. PICK s1 : s1 = stream \o extra /\ Continues(stream, s1)
    BY <2>1, StreamContinues DEF ContextInv
  <2>3. Continues(stream, stream')
    <3>1. CASE stream' = stream \o extra
      BY <2>2, <3>1
    <3>2. ASSUME NEW k \in GovernedPerTool, stream' = stream \o extra \o [i \in 1..k |-> TRUE]
          PROVE  Continues(stream, stream')
      <4>1. k \in Nat
        BY ContextAssumption DEF ContextAssumption
      <4>2. PICK f : f = [i \in 1..k |-> TRUE] /\ IsSeq(f)
        BY <4>1, EventsAreSeq
      <4>3. Continues(s1, s1 \o f)
        <5>1. IsSeq(s1)
          BY <2>2 DEF Continues
        <5> QED BY <4>2, <5>1, StreamContinues
      <4>4. Continues(stream, s1 \o f)
        BY <2>2, <4>3, ContinuesOn
      <4>5. stream' = s1 \o f
        BY <2>2, <3>2, <4>2
      <4> QED BY <4>4, <4>5
    <3> QED BY <1>3, <3>1, <3>2 DEF Rests, Calls, Answered
  <2>4. boundary' \in 0..Len(stream) /\ IsSeq(h) /\ IsSeq(s) /\ (boundary' > 0 => h = GovernedOf(stream, boundary'))
    <3>1. Len(stream) \in Nat
      BY SeqPositions DEF ContextInv
    <3>2. GovernedOf(stream, Len(stream)) \in Seq(Nat)
      BY <3>1, GovernedIsSeq
    <3>3. IsSeq(GovernedOf(stream, Len(stream))) /\ Len(stream) \in 0..Len(stream)
      BY <3>1, <3>2 DEF IsSeq
    <3> QED BY <1>3, <3>3, EmptyIsSeq DEF Turned, ContextInv, Governed
  <2>5. IsSeq(stream') /\ boundary' \in 0..Len(stream') /\ (boundary' > 0 => history' = GovernedOf(stream', boundary'))
    <3>1. PICK s2, b : s2 = stream' /\ b = boundary' /\ b \in 0..Len(stream) /\ Continues(stream, s2)
      BY <2>3, <2>4
    <3>2. GovernedOf(s2, b) = GovernedOf(stream, b) /\ b \in 0..Len(s2) /\ IsSeq(s2)
      BY <3>1, LineageContinues DEF Continues
    <3> QED BY <1>3, <2>4, <3>1, <3>2 DEF Turned
  <2>6. IsSeq(history') /\ IsSeq(slices') /\ IsSeq(skills') /\ workspace' \in Nat
    BY <1>3, <2>4 DEF Turned, ContextInv
  <2>7. ~UnderPressure(Estimate(history, remembered, slices))'
    BY <1>3 DEF Turned, Estimate
  <2>8. CASE Rests(extra)
    <3>1. ~(tokens > TokenLimit)
      BY <1>1 DEF ContextInv
    <3>2. /\ turn' = turn /\ toolCalls' = toolCalls /\ tokens' = tokens /\ shown' = shown /\ skills' = skills
          /\ run' # "running" /\ run' # "bound"
      BY <1>3, <2>8 DEF Rests, Turned
    <3> QED BY <2>5, <2>6, <3>1, <3>2 DEF ContextInv
  <2>9. CASE Calls(Build(h, m, s), extra)
    <3>1. PICK b : b = Build(h, m, s) /\ ~b.failed
      BY <2>9 DEF Calls
    <3>2. Shows(b, skills)
      BY <2>4, <3>1, BuildShows DEF ContextInv
    <3>3. PICK used \in Nat : tokens' = tokens + used /\ shown' = b
                              /\ (tokens + used > TokenLimit => run' = "limited") /\ run' # "bound"
      BY <1>1, <2>9, <3>1, ContextAssumption DEF ContextAssumption, Calls, Answered
    <3>4. (turn' = turn /\ toolCalls' = toolCalls) \/ (turn' = turn + 1 /\ toolCalls' = toolCalls + 1)
      BY <2>9 DEF Calls, Answered
    <3>5. turn' \in 0..MaxTurns /\ toolCalls' \in 0..MaxToolCalls
      <4>1. MaxTurns \in Nat /\ MaxToolCalls \in Nat
        BY ContextAssumption DEF ContextAssumption
      <4>2. turn \in 0..MaxTurns /\ toolCalls \in 0..MaxToolCalls /\ ~(turn >= MaxTurns) /\ ~(toolCalls >= MaxToolCalls)
        BY <2>9 DEF Calls, ContextInv
      <4> QED BY <3>4, <4>1, <4>2
    <3>6. tokens' \in Nat
      BY <3>3 DEF ContextInv
    <3>7. Shows(shown', skills')
      BY <1>3, <3>2, <3>3 DEF Turned
    <3> QED BY <2>5, <2>6, <2>7, <3>3, <3>5, <3>6, <3>7 DEF ContextInv
  <2> QED BY <1>3, <2>8, <2>9
<1> QED BY <1>2, <1>3, TurnIs

\* Framing a run keeps the invariant.
LEMMA FrameKeepsContext == ContextInv /\ BindSession => ContextInv'
<1> SUFFICES ASSUME ContextInv, BindSession PROVE ContextInv'
  OBVIOUS
<1>1. /\ run = "bound" /\ run' = "running" /\ shown = Nothing /\ shown' = Nothing
      /\ history' = history /\ boundary' = boundary /\ slices' = slices
      /\ turn' = turn /\ toolCalls' = toolCalls /\ tokens' = tokens
  BY DEF BindSession, ContextInv
<1>2. IsSeq(skills')
  <2>1. PICK k \in 0..Len(Skills) : skills' = SubSeq(Skills, 1, k)
    BY DEF BindSession
  <2>2. PICK S : Skills \in Seq(S)
    BY ContextAssumption DEF ContextAssumption
  <2>3. k \in Int /\ \A i \in 1..k : Skills[i] \in S
    BY <2>2, LenProperties
  <2>4. SubSeq(Skills, 1, k) \in Seq(S)
    BY <2>3, SubSeqProperties
  <2> QED BY <2>1, <2>4 DEF IsSeq
<1>3. workspace' \in Nat
  BY ContextAssumption DEF ContextAssumption, BindSession
<1>4. IsSeq(stream') /\ 0 \in 0..Len(stream')
  <2>1. PICK k \in 0..MaxFramed : stream' = <<FALSE>> \o [i \in 1..k |-> TRUE]
    BY DEF BindSession
  <2>2. k \in Nat
    BY ContextAssumption DEF ContextAssumption
  <2>a. IsSeq([i \in 1..k |-> TRUE])
    BY <2>2, EventsAreSeq
  <2>b. <<FALSE>> \in Seq(BOOLEAN)
    OBVIOUS
  <2>3. PICK f, e : f = [i \in 1..k |-> TRUE] /\ e = <<FALSE>> /\ IsSeq(f) /\ e \in Seq(BOOLEAN)
    BY <2>a, <2>b, Zenon
  <2>4. IsSeq(e)
    BY <2>3 DEF IsSeq
  <2>5. Continues(e, e \o f)
    BY <2>3, <2>4, StreamContinues
  <2>6. PICK u : u = e \o f /\ IsSeq(u) /\ Len(u) \in Nat
    BY <2>5 DEF Continues
  <2>7. stream' = u /\ 0 \in 0..Len(u)
    BY <2>1, <2>3, <2>6
  <2> QED BY <2>6, <2>7
<1>5. boundary = 0 /\ ~(0 > 0)
  BY <1>1 DEF ContextInv
<1> QED BY <1>1, <1>2, <1>3, <1>4, <1>5 DEF ContextInv

\* No step breaks the invariant.
LEMMA ContextKept == ContextInv /\ [ContextNext]_contextVars => ContextInv'
<1> SUFFICES ASSUME ContextInv, [ContextNext]_contextVars PROVE ContextInv'
  OBVIOUS
<1>1. CASE UNCHANGED contextVars
  <2>1. /\ stream' = stream /\ history' = history /\ boundary' = boundary /\ remembered' = remembered
        /\ slices' = slices /\ skills' = skills /\ workspace' = workspace /\ turn' = turn
        /\ toolCalls' = toolCalls /\ tokens' = tokens /\ run' = run /\ shown' = shown
    BY <1>1 DEF contextVars
  <2>2. Estimate(history, remembered, slices)' = Estimate(history, remembered, slices)
    BY <2>1 DEF Estimate
  <2>3. (~UnderPressure(Estimate(history, remembered, slices)))' <=> ~UnderPressure(Estimate(history, remembered, slices))
    BY <2>2 DEF UnderPressure
  <2> QED BY <2>1, <2>3 DEF ContextInv
<1> QED BY <1>1, FrameKeepsContext, TurnKeepsContext DEF ContextNext

\* What the invariant says of every turn.
LEMMA ContextInvIsSound == ContextInv => ContextSound
<1> SUFFICES ASSUME ContextInv PROVE ContextSound
  OBVIOUS
<1>1. LineageIsKept
  BY DEF ContextInv, LineageIsKept, Governed
<1>2. ShownWithinBudget
  <2>1. \A item : Treatment(item) = "instruction" => item.owner
    BY DEF Treatment
  <2>2. CASE shown = Nothing
    <3>1. shown.sections = <<>> /\ Total(<<>>) = 0
      BY <2>2, TotalGrows DEF Nothing
    <3>2. 0 <= UsableTokens
      BY ContextAssumption DEF ContextAssumption, UsableTokens
    <3> QED BY <2>1, <2>2, <3>1, <3>2 DEF ShownWithinBudget
  <2>3. CASE Shows(shown, skills)
    BY <2>1, <2>3 DEF Shows, ShownWithinBudget
  <2> QED BY <2>2, <2>3 DEF ContextInv
<1>3. DrivenWithinBudget
  BY ContextAssumption DEF ContextAssumption, ContextInv, DrivenWithinBudget
<1> QED BY <1>1, <1>2, <1>3 DEF ContextSound

\* ContextSound, of compact_if_needed, LayeredContextBuilder::build and the loop's limits: after any number of
\* compactions the history is the governed part of the run up to the last one, no model is called under pressure,
\* what it is shown leaves the reserve free and holds every rule, and the run keeps to its limits.
THEOREM ContextStaysSound == AssistantSpec => []ContextSound
<1>1. AssistantInit => ContextInv
  BY ContextStart DEF AssistantInit
<1>2. ContextInv /\ [AssistantNext]_assistantVars => ContextInv'
  BY FacultiesStep, ContextKept
<1> QED BY <1>1, <1>2, ContextInvIsSound, PTL DEF AssistantSpec

-----------------------------------------------------------------------------
(* What follows evidence                                                   *)

Cases ==
  [verified : Nat, times : Nat, confidence : Nat, confirmed : BOOLEAN, trusted : BOOLEAN,
   conflict : BOOLEAN, protected : BOOLEAN, high : BOOLEAN,
   successes : Nat, strong : BOOLEAN, map : Int, self : Int, trust : Int, minor : Nat, major : Nat]

\* What the ceiling of one case is lower or equal to that of another by.
NoBetter(k1, k2) ==
  /\ \A risk \in 0..2 : FromEvidence(k1, risk) <= FromEvidence(k2, risk)
  /\ Cap(k1.map) <= Cap(k2.map) /\ Cap(k1.self) <= Cap(k2.self)
  /\ (IF k1.trust = -1 THEN 1 ELSE k1.trust) <= (IF k2.trust = -1 THEN 1 ELSE k2.trust)
  /\ k1.minor >= k2.minor /\ k1.major >= k2.major

\* The least of four numbers.
LEMMA MinOfFour ==
  ASSUME NEW a \in Int, NEW b \in Int, NEW c \in Int, NEW d \in Int
  PROVE  /\ Min({a, b, c, d}) \in {a, b, c, d}
         /\ Min({a, b, c, d}) <= a /\ Min({a, b, c, d}) <= b /\ Min({a, b, c, d}) <= c /\ Min({a, b, c, d}) <= d
<1>1. \E x \in {a, b, c, d} : \A y \in {a, b, c, d} : x <= y
  <2>1. a <= b \/ b <= a
    OBVIOUS
  <2>2. PICK e \in {a, b} : e <= a /\ e <= b
    BY <2>1
  <2>3. PICK f \in {c, d} : f <= c /\ f <= d
    OBVIOUS
  <2>4. PICK g \in {e, f} : g <= e /\ g <= f
    BY <2>2, <2>3
  <2>5. g \in {a, b, c, d} /\ g <= a /\ g <= b /\ g <= c /\ g <= d
    BY <2>2, <2>3, <2>4
  <2> QED BY <2>5
<1>2. PICK m : m = Min({a, b, c, d})
  OBVIOUS
<1>3. m \in {a, b, c, d} /\ \A y \in {a, b, c, d} : m <= y
  BY <1>1, <1>2 DEF Min
<1> QED BY <1>2, <1>3

\* A number, or zero when it is less.
LEMMA AtLeastZero == ASSUME NEW n \in Int PROVE Max({0, n}) = IF n > 0 THEN n ELSE 0
<1>1. CASE n > 0
  <2>1. {0, n} \in SUBSET Int /\ n \in {0, n} /\ \A y \in {0, n} : y <= n
    BY <1>1
  <2> QED BY <1>1, <2>1, MaxIs
<1>2. CASE ~(n > 0)
  <2>1. {0, n} \in SUBSET Int /\ 0 \in {0, n} /\ \A y \in {0, n} : y <= 0
    BY <1>2
  <2> QED BY <1>2, <2>1, MaxIs
<1> QED BY <1>1, <1>2

LevelOf(k, risk) == Min({FromEvidence(k, risk), Cap(k.map), Cap(k.self), IF k.trust = -1 THEN 1 ELSE k.trust})

\* The ceiling is the level less the failures, a serious one counting twice, and never below zero.
LEMMA CeilingIs ==
  ASSUME NEW k \in Cases, NEW risk \in 0..2
  PROVE  /\ LevelOf(k, risk) \in Int
         /\ LevelOf(k, risk) \in {FromEvidence(k, risk), Cap(k.map), Cap(k.self), IF k.trust = -1 THEN 1 ELSE k.trust}
         /\ LevelOf(k, risk) <= FromEvidence(k, risk) /\ LevelOf(k, risk) <= Cap(k.map) /\ LevelOf(k, risk) <= Cap(k.self)
         /\ LevelOf(k, risk) <= (IF k.trust = -1 THEN 1 ELSE k.trust)
         /\ Ceiling(k, risk) = LET n == LevelOf(k, risk) - k.minor - 2 * k.major IN IF n > 0 THEN n ELSE 0
<1>1. FromEvidence(k, risk) \in Int /\ Cap(k.map) \in Int /\ Cap(k.self) \in Int
  BY DEF FromEvidence, Cap
<1>2. (IF k.trust = -1 THEN 1 ELSE k.trust) \in Int /\ k.minor \in Nat /\ k.major \in Nat
  BY DEF Cases
<1>3. PICK a, b, c, d : /\ a = FromEvidence(k, risk) /\ b = Cap(k.map) /\ c = Cap(k.self)
                        /\ d = IF k.trust = -1 THEN 1 ELSE k.trust
  OBVIOUS
<1>4. PICK m : m = Min({a, b, c, d})
  OBVIOUS
<1>b. a \in Int /\ b \in Int /\ c \in Int /\ d \in Int
  BY <1>1, <1>2, <1>3
<1>c. m \in {a, b, c, d} /\ m <= a /\ m <= b /\ m <= c /\ m <= d
  BY <1>4, <1>b, MinOfFour
<1>5. m \in {a, b, c, d} /\ m <= a /\ m <= b /\ m <= c /\ m <= d /\ m \in Int
  BY <1>b, <1>c
<1>6. m = LevelOf(k, risk)
  BY <1>3, <1>4 DEF LevelOf
<1>7. PICK n \in Int : n = m - k.minor - 2 * k.major
  BY <1>2, <1>5
<1>8. Ceiling(k, risk) = Max({0, n})
  BY <1>6, <1>7 DEF Ceiling, LevelOf
<1>9. Ceiling(k, risk) = IF n > 0 THEN n ELSE 0
  BY <1>8, AtLeastZero
<1> QED BY <1>3, <1>5, <1>6, <1>7, <1>9

\* A case no better has no higher ceiling.
LEMMA CeilingsInOrder ==
  ASSUME NEW k1 \in Cases, NEW k2 \in Cases, NoBetter(k1, k2), NEW risk \in 0..2
  PROVE  /\ Ceiling(k1, risk) <= Ceiling(k2, risk)
         /\ k1.major > k2.major /\ Ceiling(k2, risk) > 0 => Ceiling(k1, risk) < Ceiling(k2, risk)
<1>1. PICK l1, l2 : l1 = LevelOf(k1, risk) /\ l2 = LevelOf(k2, risk)
  OBVIOUS
<1>2. PICK a1, b1, c1, d1 : /\ a1 = FromEvidence(k1, risk) /\ b1 = Cap(k1.map) /\ c1 = Cap(k1.self)
                            /\ d1 = IF k1.trust = -1 THEN 1 ELSE k1.trust
  OBVIOUS
<1>3. PICK a2, b2, c2, d2 : /\ a2 = FromEvidence(k2, risk) /\ b2 = Cap(k2.map) /\ c2 = Cap(k2.self)
                            /\ d2 = IF k2.trust = -1 THEN 1 ELSE k2.trust
  OBVIOUS
<1>4. a1 \in Int /\ b1 \in Int /\ c1 \in Int /\ d1 \in Int /\ a2 \in Int /\ b2 \in Int /\ c2 \in Int /\ d2 \in Int
  BY <1>2, <1>3 DEF FromEvidence, Cap, Cases
<1>5. a1 <= a2 /\ b1 <= b2 /\ c1 <= c2 /\ d1 <= d2
  BY <1>2, <1>3 DEF NoBetter
<1>6. l1 \in Int /\ l1 <= a1 /\ l1 <= b1 /\ l1 <= c1 /\ l1 <= d1
  BY <1>1, <1>2, CeilingIs
<1>7. l2 \in {a2, b2, c2, d2}
  BY <1>1, <1>3, CeilingIs
<1>8. l1 <= l2 /\ l2 \in Int
  BY <1>4, <1>5, <1>6, <1>7
<1>9. PICK m1, j1, m2, j2 : m1 = k1.minor /\ j1 = k1.major /\ m2 = k2.minor /\ j2 = k2.major
  OBVIOUS
<1>10. m1 \in Nat /\ j1 \in Nat /\ m2 \in Nat /\ j2 \in Nat
  BY <1>9 DEF Cases
<1>11. m1 >= m2 /\ j1 >= j2
  BY <1>9 DEF NoBetter
<1>12. /\ Ceiling(k1, risk) = LET n == l1 - m1 - 2 * j1 IN IF n > 0 THEN n ELSE 0
       /\ Ceiling(k2, risk) = LET n == l2 - m2 - 2 * j2 IN IF n > 0 THEN n ELSE 0
  BY <1>1, <1>9, CeilingIs
<1>13. /\ l1 - m1 - 2 * j1 <= l2 - m2 - 2 * j2
       /\ j1 > j2 => l1 - m1 - 2 * j1 < l2 - m2 - 2 * j2
  BY <1>6, <1>8, <1>10, <1>11
<1>14. PICK n1 \in Int, n2 \in Int : n1 = l1 - m1 - 2 * j1 /\ n2 = l2 - m2 - 2 * j2
  BY <1>6, <1>8, <1>10
<1> QED BY <1>9, <1>12, <1>13, <1>14

CaseKept == case' \in Cases
\* What the step adds, and what it does to the standing of the case.
Weighed ==
  /\ lastAdded' \in {"doubt", "support", "other"}
  /\ lastAdded' = "doubt" => NoBetter(case', case)
  /\ lastAdded' = "support" => NoBetter(case, case')
  /\ case'.major > case.major => NoBetter(case', case)

\* Every item moves the case by its kind.
LEMMA ItemsWeigh ==
  ASSUME case \in Cases, JudgementNext
  PROVE  CaseKept /\ Weighed
<1>0. CautionConfidence \in Nat /\ TrustConfidence \in Nat
  BY AsymmetryAssumption DEF AsymmetryAssumption
<1>a. \A k1, k2 \in Cases : (k1.successes = k2.successes /\ k1.strong = k2.strong /\ k1.map = k2.map /\ k1.self = k2.self
                               /\ k1.trust = k2.trust /\ k1.minor >= k2.minor /\ k1.major >= k2.major) => NoBetter(k1, k2)
  BY DEF NoBetter, Cases, FromEvidence, Cap
<1>b. \A k1, k2 \in Cases : (k1.successes = k2.successes /\ k1.strong = k2.strong /\ k1.map = k2.map /\ k1.self = k2.self
                               /\ k1.trust = k2.trust /\ k1.minor = k2.minor /\ k1.major = k2.major)
                             => NoBetter(k1, k2) /\ NoBetter(k2, k1) /\ ~(k1.major > k2.major)
  BY <1>a DEF Cases
<1>1. CASE AddVerified
  <2>1. PICK fresh \in {0, 1} : Adds("support", [case EXCEPT !.verified = @ + 1, !.times = @ + fresh])
    BY <1>1 DEF AddVerified
  <2>a. /\ case.verified \in Nat /\ case.times \in Nat /\ case.verified + 1 \in Nat /\ case.times + fresh \in Nat
    BY DEF Cases
  <2>b. PICK n \in Nat, m \in Nat : n = case.verified + 1 /\ m = case.times + fresh
    BY <2>a
  <2>c. [case EXCEPT !.verified = n, !.times = m] \in Cases
    BY DEF Cases
  <2>d. case' = [case EXCEPT !.verified = n, !.times = m]
    BY <2>1, <2>b DEF Adds
  <2>2. case' \in Cases
    BY <2>c, <2>d
  <2>3. /\ case'.successes = case.successes /\ case'.strong = case.strong /\ case'.map = case.map /\ case'.self = case.self
        /\ case'.trust = case.trust /\ case'.minor = case.minor /\ case'.major = case.major /\ lastAdded' = "support"
    BY <2>1 DEF Adds, Cases
  <2> QED BY <1>b, <2>2, <2>3 DEF CaseKept, Weighed
<1>2. CASE RaiseConfidence
  <2>1. PICK c \in {CautionConfidence, TrustConfidence} : Adds("support", [case EXCEPT !.confidence = c])
    BY <1>2 DEF RaiseConfidence
  <2>2. case' \in Cases
    BY <1>0, <2>1 DEF Adds, Cases
  <2>3. /\ case'.successes = case.successes /\ case'.strong = case.strong /\ case'.map = case.map /\ case'.self = case.self
        /\ case'.trust = case.trust /\ case'.minor = case.minor /\ case'.major = case.major /\ lastAdded' = "support"
    BY <2>1 DEF Adds, Cases
  <2> QED BY <1>b, <2>2, <2>3 DEF CaseKept, Weighed
<1>3. CASE OwnerConfirms
  <2>2. case' \in Cases
    BY <1>3 DEF OwnerConfirms, Adds, Cases
  <2>3. /\ case'.successes = case.successes /\ case'.strong = case.strong /\ case'.map = case.map /\ case'.self = case.self
        /\ case'.trust = case.trust /\ case'.minor = case.minor /\ case'.major = case.major /\ lastAdded' = "support"
    BY <1>3 DEF OwnerConfirms, Adds, Cases
  <2> QED BY <1>b, <2>2, <2>3 DEF CaseKept, Weighed
<1>4. CASE Objection
  <2>1. PICK f \in {"conflict", "protected", "high"} : Adds("doubt", [case EXCEPT ![f] = TRUE])
    BY <1>4 DEF Objection
  <2>2. case' \in Cases
    BY <2>1 DEF Adds, Cases
  <2>3. /\ case'.successes = case.successes /\ case'.strong = case.strong /\ case'.map = case.map /\ case'.self = case.self
        /\ case'.trust = case.trust /\ case'.minor = case.minor /\ case'.major = case.major /\ lastAdded' = "doubt"
    BY <2>1 DEF Adds, Cases
  <2> QED BY <1>b, <2>2, <2>3 DEF CaseKept, Weighed
<1>5. CASE LoseTrustTier
  <2>2. case' \in Cases
    BY <1>5 DEF LoseTrustTier, Adds, Cases
  <2>3. /\ case'.successes = case.successes /\ case'.strong = case.strong /\ case'.map = case.map /\ case'.self = case.self
        /\ case'.trust = case.trust /\ case'.minor = case.minor /\ case'.major = case.major /\ lastAdded' = "doubt"
    BY <1>5 DEF LoseTrustTier, Adds, Cases
  <2> QED BY <1>b, <2>2, <2>3 DEF CaseKept, Weighed
<1>6. CASE AddSuccess
  <2>1. PICK s \in BOOLEAN : Adds("support", [case EXCEPT !.successes = @ + 1, !.strong = @ \/ s])
    BY <1>6 DEF AddSuccess
  <2>a. PICK b \in BOOLEAN : b = (case.strong \/ s)
    OBVIOUS
  <2>b. case' = [case EXCEPT !.successes = @ + 1, !.strong = b]
    BY <2>1, <2>a DEF Adds
  <2>c. /\ case.successes \in Nat /\ case.successes + 1 \in Nat
    BY DEF Cases
  <2>d. PICK n \in Nat : n = case.successes + 1
    BY <2>c
  <2>e. [case EXCEPT !.successes = n, !.strong = b] \in Cases
    BY DEF Cases
  <2>f. case' = [case EXCEPT !.successes = n, !.strong = b]
    BY <2>b, <2>d
  <2>2. case' \in Cases
    BY <2>e, <2>f
  <2>3. /\ case'.successes = case.successes + 1 /\ case'.map = case.map /\ case'.self = case.self
        /\ case'.trust = case.trust /\ case'.minor = case.minor /\ case'.major = case.major /\ lastAdded' = "support"
        /\ case'.strong = b
    BY <2>1, <2>b DEF Adds, Cases
  <2>4. PICK x \in Nat : x = case.successes
    BY DEF Cases
  <2>5. case.strong => case'.strong
    BY <2>3, <2>a
  <2>6. \A risk \in 0..2 : FromEvidence(case, risk) <= FromEvidence(case', risk)
    <3> SUFFICES ASSUME NEW risk \in 0..2 PROVE FromEvidence(case, risk) <= FromEvidence(case', risk)
      OBVIOUS
    <3>1. CASE x = 0
      BY <2>3, <2>4, <3>1 DEF FromEvidence
    <3>2. CASE x = 1
      <4>1. case'.successes # 0 /\ case'.successes # 1
        BY <2>3, <2>4, <3>2
      <4>2. FromEvidence(case', risk) \in {3, 4}
        BY <4>1 DEF FromEvidence
      <4>3. FromEvidence(case, risk) \in {2, 3}
        BY <2>4, <3>2 DEF FromEvidence
      <4> QED BY <4>2, <4>3
    <3>3. CASE x > 1
      <4>1. case'.successes # 0 /\ case'.successes # 1 /\ case.successes # 0 /\ case.successes # 1
        BY <2>3, <2>4, <3>3
      <4>2. FromEvidence(case', risk) = IF case'.strong /\ risk = 0 THEN 4 ELSE 3
        BY <4>1 DEF FromEvidence
      <4>3. FromEvidence(case, risk) = IF case.strong /\ risk = 0 THEN 4 ELSE 3
        BY <4>1 DEF FromEvidence
      <4> QED BY <2>5, <4>2, <4>3
    <3> QED BY <2>4, <3>1, <3>2, <3>3
  <2>7. NoBetter(case, case') /\ ~(case'.major > case.major)
    BY <2>2, <2>3, <2>6 DEF NoBetter, Cap, Cases
  <2> QED BY <2>2, <2>3, <2>7 DEF CaseKept, Weighed
<1>7. CASE AddFailure
  <2>2. case' \in Cases
    BY <1>7 DEF AddFailure, Adds, Cases
  <2>3. /\ case'.successes = case.successes /\ case'.strong = case.strong /\ case'.map = case.map /\ case'.self = case.self
        /\ case'.trust = case.trust /\ case'.minor >= case.minor /\ case'.major >= case.major /\ lastAdded' = "doubt"
    BY <1>7 DEF AddFailure, Adds, Cases
  <2> QED BY <1>a, <2>2, <2>3 DEF CaseKept, Weighed
<1>8. CASE Assess
  <2>1. PICK f \in {"map", "self"}, c \in {0, 3, 6} :
          c > case[f] /\ Adds(IF c = 0 THEN "doubt" ELSE "support", [case EXCEPT ![f] = c])
    BY <1>8 DEF Assess
  <2>2. case' \in Cases
    BY <2>1 DEF Adds, Cases
  <2>3. /\ case'.successes = case.successes /\ case'.strong = case.strong
        /\ case'.trust = case.trust /\ case'.minor = case.minor /\ case'.major = case.major
        /\ lastAdded' = IF c = 0 THEN "doubt" ELSE "support"
        /\ case'.map = (IF f = "map" THEN c ELSE case.map) /\ case'.self = (IF f = "self" THEN c ELSE case.self)
    BY <2>1 DEF Adds, Cases
  <2>4. /\ \A risk \in 0..2 : FromEvidence(case, risk) = FromEvidence(case', risk) /\ FromEvidence(case, risk) \in Int
        /\ case.minor \in Nat /\ case.major \in Nat /\ case.trust \in Int /\ case.map \in Int /\ case.self \in Int
    BY <2>3 DEF FromEvidence, Cases
  <2>5. \A x \in Int : /\ c = 0 => Cap(c) <= Cap(x)
                       /\ (c # 0 /\ c > x) => Cap(x) <= Cap(c)
                       /\ Cap(x) <= Cap(x)
    BY DEF Cap
  <2>6. IF c = 0 THEN NoBetter(case', case) ELSE NoBetter(case, case')
    BY <2>1, <2>3, <2>4, <2>5 DEF NoBetter
  <2> QED BY <2>2, <2>3, <2>4, <2>6 DEF CaseKept, Weighed
<1>9. CASE GrantTrust
  <2>1. PICK t \in 0..4 : Adds("other", [case EXCEPT !.trust = t])
    BY <1>9 DEF GrantTrust
  <2>2. case' \in Cases /\ case'.major = case.major /\ case.major \in Nat /\ lastAdded' = "other"
    BY <2>1 DEF Adds, Cases
  <2> QED BY <2>2 DEF CaseKept, Weighed
<1> QED BY <1>1, <1>2, <1>3, <1>4, <1>5, <1>6, <1>7, <1>8, <1>9 DEF JudgementNext

\* A case stays one.
LEMMA CaseStays == (JudgementInit => case \in Cases) /\ (case \in Cases /\ [JudgementNext]_judgementVars => case' \in Cases)
<1>1. JudgementInit => case \in Cases
  BY DEF JudgementInit, NoCase, Cases
<1>2. case \in Cases /\ UNCHANGED judgementVars => case' \in Cases
  BY DEF judgementVars
<1> QED BY <1>1, <1>2, ItemsWeigh DEF CaseKept

\* The ceiling moves with the evidence.
LEMMA CeilingFollows == case \in Cases /\ [JudgementNext]_judgementVars => CeilingFollowsEvidence
<1> SUFFICES ASSUME case \in Cases, [JudgementNext]_judgementVars, case' # case, NEW risk \in 0..2
             PROVE  /\ (lastAdded' = "doubt") => Ceiling(case', risk) <= Ceiling(case, risk)
                    /\ (lastAdded' = "support") => Ceiling(case', risk) >= Ceiling(case, risk)
                    /\ (case'.major > case.major /\ Ceiling(case, risk) > 0) => Ceiling(case', risk) < Ceiling(case, risk)
  BY DEF CeilingFollowsEvidence
<1>1. JudgementNext
  BY DEF judgementVars
<1>2. case' \in Cases /\ Weighed
  BY <1>1, ItemsWeigh DEF CaseKept
<1>3. PICK k1, k2 : k1 = case /\ k2 = case' /\ k1 \in Cases /\ k2 \in Cases
  BY <1>2
<1>4. Ceiling(k1, risk) \in Int /\ Ceiling(k2, risk) \in Int
  <2>1. \A k \in Cases : k.minor \in Nat /\ k.major \in Nat
    BY DEF Cases
  <2> QED BY <1>3, <2>1, CeilingIs
<1>5. CASE NoBetter(k2, k1)
  <2>1. /\ Ceiling(k2, risk) <= Ceiling(k1, risk)
        /\ k2.major > k1.major /\ Ceiling(k1, risk) > 0 => Ceiling(k2, risk) < Ceiling(k1, risk)
    BY <1>3, <1>5, CeilingsInOrder
  <2>2. lastAdded' = "support" => Ceiling(k1, risk) <= Ceiling(k2, risk)
    <3>1. lastAdded' = "support" => NoBetter(k1, k2)
      BY <1>2, <1>3 DEF Weighed
    <3> QED BY <1>3, <3>1, CeilingsInOrder
  <2> QED BY <1>3, <1>4, <2>1, <2>2
<1>6. CASE ~NoBetter(k2, k1)
  <2>1. lastAdded' # "doubt" /\ ~(k2.major > k1.major) /\ (lastAdded' = "support" => NoBetter(k1, k2))
    BY <1>2, <1>3, <1>6 DEF Weighed
  <2>2. lastAdded' = "support" => Ceiling(k1, risk) <= Ceiling(k2, risk)
    BY <1>3, <2>1, CeilingsInOrder
  <2> QED BY <1>3, <1>4, <2>1, <2>2
<1> QED BY <1>5, <1>6

\* What recall no longer returned it does not return again.
LEMMA RecallOnlyForgets == (\E S : facts \in Seq(S)) /\ [ProjectionNext]_projectionVars => RecallForgets
<1> SUFFICES ASSUME \E S : facts \in Seq(S), [ProjectionNext]_projectionVars, facts' # facts, NEW redact \in BOOLEAN, NEW cold \in BOOLEAN
             PROVE  /\ Recall(facts', Len(facts'), redact, cold) \cap DOMAIN facts \subseteq Recall(facts, Len(facts), redact, cold)
                    /\ \A n \in Recall(facts', Len(facts'), redact, cold), m \in DOMAIN facts' :
                         facts'[m].k = "retracted" => facts'[m].id # facts'[n].id
  BY DEF RecallForgets
<1>1. PICK e : facts' = Append(facts, e)
  BY DEF ProjectionNext, Record1, projectionVars
<1>2. PICK S : facts \in Seq(S)
  OBVIOUS
<1>b. PICK log : log = facts /\ log \in Seq(S)
  BY <1>2
<1>3. PICK n \in Nat : log = facts /\ log \in Seq(S) /\ n = Len(log)
  BY <1>b, LenProperties
<1>4. PICK log2 : log2 = Append(log, e)
  OBVIOUS
<1>5. /\ Len(log2) = n + 1 /\ DOMAIN log2 = 1..(n + 1) /\ DOMAIN log = 1..n
      /\ \A k \in 1..n : log2[k] = log[k]
  BY <1>3, <1>4, AppendAny
<1>6. HotFor \in Nat /\ KeptFor \in Nat
  BY ProjectionAssumption DEF ProjectionAssumption
<1>7. ASSUME NEW x \in Recall(log2, n + 1, redact, cold)
      PROVE  /\ x \in 1..(n + 1) /\ log2[x].k \in {"node", "output"}
             /\ log2[x].id \notin Tombstones(log2, x)
             /\ (n + 1) - x < KeptFor /\ ~Sensitive(log2[x], redact) /\ (cold \/ (n + 1) - x < HotFor)
  <2>1. x \in 1..(n + 1) /\ log2[x].k \in {"node", "output"} /\ Retention(log2, x, n + 1, redact) = "active"
        /\ (cold \/ (n + 1) - x < HotFor)
    BY <1>5, <1>7 DEF Recall
  <2>2. log2[x].id \notin Tombstones(log2, x) /\ ~((n + 1) - x >= KeptFor) /\ ~Sensitive(log2[x], redact)
    BY <2>1 DEF Retention
  <2>3. (n + 1) - x \in Int
    BY <2>1
  <2> QED BY <1>6, <2>1, <2>2, <2>3
<1>8. ASSUME NEW x \in Recall(log2, n + 1, redact, cold), x \in 1..n PROVE x \in Recall(log, n, redact, cold)
  <2>1. log2[x] = log[x]
    BY <1>5, <1>8
  <2>2. Tombstones(log, x) \subseteq Tombstones(log2, x)
    <3>1. \A m \in 1..n : m \in 1..(n + 1)
      OBVIOUS
    <3> QED BY <1>5, <3>1 DEF Tombstones
  <2>3. log[x].k \in {"node", "output"} /\ log[x].id \notin Tombstones(log, x) /\ ~Sensitive(log[x], redact)
    BY <1>7, <1>8, <2>1, <2>2
  <2>4. ~(n - x >= KeptFor) /\ (cold \/ n - x < HotFor)
    <3>1. (n + 1) - x < KeptFor /\ (cold \/ (n + 1) - x < HotFor)
      BY <1>7, <1>8
    <3> QED BY <1>6, <1>8, <3>1
  <2>5. Retention(log, x, n, redact) = "active"
    BY <2>3, <2>4 DEF Retention
  <2> QED BY <1>5, <1>8, <2>3, <2>4, <2>5 DEF Recall
<1>9. ASSUME NEW x \in Recall(log2, n + 1, redact, cold), NEW m \in 1..(n + 1), log2[m].k = "retracted"
      PROVE  log2[m].id # log2[x].id
  <2>1. log2[m].id \in Tombstones(log2, x)
    BY <1>5, <1>9 DEF Tombstones
  <2> QED BY <1>7, <2>1
<1>10. facts' = log2 /\ facts = log
  BY <1>1, <1>3, <1>4
<1> QED BY <1>3, <1>5, <1>8, <1>9, <1>10

\* The sequence u is s with e put in at p.
Inserted(s, p, e, u) ==
  /\ IsSeq(u) /\ Len(u) = Len(s) + 1 /\ DOMAIN u = 1..(Len(s) + 1)
  /\ \A i \in 1..(p - 1) : u[i] = s[i]
  /\ u[p] = e
  /\ \A i \in p..Len(s) : u[i + 1] = s[i]
\* That is what InsertAt does.
LEMMA InsertIs ==
  ASSUME NEW s, IsSeq(s), NEW p \in 1..(Len(s) + 1), NEW e
  PROVE  Inserted(s, p, e, InsertAt(s, p, e))
<1>1. PICK S : s \in Seq(S)
  BY DEF IsSeq
<1>2. PICK n \in Nat : n = Len(s) /\ DOMAIN s = 1..n
  BY <1>1, LenProperties
<1>3. p \in 1..(n + 1) /\ \A i \in 1..(p - 1) : i \in 1..n /\ s[i] \in S
  BY <1>1, <1>2
<1>4. PICK a, b, c : a = SubSeq(s, 1, p - 1) /\ b = <<e>> /\ c = SubSeq(s, p, n)
  OBVIOUS
<1>5. a \in Seq(S) /\ Len(a) = p - 1 /\ \A i \in 1..(p - 1) : a[i] = s[i]
  <2>1. PICK q \in Int : q = p - 1 /\ 1 \in Int
    BY <1>3
  <2>2. \A i \in 1..q : s[i] \in S
    BY <1>3, <2>1
  <2>3. /\ SubSeq(s, 1, q) \in Seq(S) /\ Len(SubSeq(s, 1, q)) = IF 1 <= q THEN q - 1 + 1 ELSE 0
        /\ \A i \in 1..(q - 1 + 1) : SubSeq(s, 1, q)[i] = s[1 + i - 1]
    BY <2>1, <2>2, SubSeqProperties
  <2> QED BY <1>3, <1>4, <2>1, <2>3
<1>6. c \in Seq(S) /\ Len(c) = n - p + 1 /\ \A i \in 1..(n - p + 1) : c[i] = s[p + i - 1]
  <2>1. \A i \in p..n : s[i] \in S
    BY <1>1, <1>2, <1>3
  <2>2. /\ SubSeq(s, p, n) \in Seq(S) /\ Len(SubSeq(s, p, n)) = IF p <= n THEN n - p + 1 ELSE 0
        /\ \A i \in 1..(n - p + 1) : SubSeq(s, p, n)[i] = s[p + i - 1]
    BY <1>3, <2>1, SubSeqProperties
  <2> QED BY <1>3, <1>4, <2>2
<1>7. b \in Seq({e}) /\ Len(b) = 1 /\ b[1] = e
  BY <1>4
<1>8. IsSeq(a) /\ IsSeq(b) /\ IsSeq(c)
  BY <1>5, <1>6, <1>7 DEF IsSeq
<1>9. PICK d : d = a \o b
  OBVIOUS
<1>10. IsSeq(d) /\ Len(d) = p /\ d[p] = e /\ \A i \in 1..(p - 1) : d[i] = s[i]
  <2>1. After(a, b, d)
    BY <1>8, <1>9, ConcatIs
  <2>2. IsSeq(d) /\ Len(d) = (p - 1) + 1 /\ (\A i \in 1..(p - 1) : d[i] = a[i]) /\ d[(p - 1) + 1] = b[1]
    <3>1. 1 \in 1..1
      OBVIOUS
    <3> QED BY <1>5, <1>7, <2>1, <3>1 DEF After
  <2> QED BY <1>3, <1>5, <1>7, <2>2
<1>11. PICK u : u = d \o c
  OBVIOUS
<1>12. After(d, c, u)
  BY <1>8, <1>10, <1>11, ConcatIs
<1>13. IsSeq(u) /\ Len(u) = p + (n - p + 1) /\ DOMAIN u = 1..(p + (n - p + 1))
  BY <1>6, <1>10, <1>12 DEF After
<1>14. (\A i \in 1..p : u[i] = d[i]) /\ \A j \in 1..(n - p + 1) : u[p + j] = c[j]
  BY <1>6, <1>10, <1>12 DEF After
<1>15. p + (n - p + 1) = n + 1 /\ p \in 1..p /\ \A i \in 1..(p - 1) : i \in 1..p
  BY <1>3
<1>16. ASSUME NEW i \in p..n PROVE u[i + 1] = s[i]
  <2>1. PICK j \in 1..(n - p + 1) : j = i - p + 1 /\ p + j = i + 1 /\ p + j - 1 = i
    BY <1>3
  <2>2. c[j] = s[p + j - 1] /\ u[p + j] = c[j]
    BY <1>6, <1>14
  <2> QED BY <2>1, <2>2
<1>17. InsertAt(s, p, e) = u
  BY <1>2, <1>4, <1>9, <1>11 DEF InsertAt
<1>18. u[p] = e /\ \A i \in 1..(p - 1) : u[i] = s[i]
  BY <1>10, <1>14, <1>15
<1>19. Inserted(s, p, e, u)
  BY <1>2, <1>13, <1>15, <1>16, <1>18 DEF Inserted
<1> QED BY <1>17, <1>19

\* An event is filed somewhere among those of the other runs.
LEMMA FiledIs ==
  ASSUME NEW s, IsSeq(s), NEW e
  PROVE  \E p \in 1..(Len(s) + 1) : Inserted(s, p, e, Filed(s, e))
<1>1. PICK S : s \in Seq(S)
  BY DEF IsSeq
<1>2. PICK n \in Nat : n = Len(s) /\ DOMAIN s = 1..n
  BY <1>1, LenProperties
<1>3. PICK before : before = {i \in DOMAIN s : s[i].run <= e.run}
  OBVIOUS
<1>a. before \in SUBSET (1..n)
  BY <1>2, <1>3
<1>b. IsFiniteSet(1..n) /\ Cardinality(1..n) = IF 1 > n THEN 0 ELSE n - 1 + 1
  BY FS_Interval
<1>4. before \in SUBSET (1..n) /\ IsFiniteSet(1..n) /\ Cardinality(1..n) = n
  BY <1>a, <1>b
<1>5. Cardinality(before) <= n /\ Cardinality(before) \in Nat
  BY <1>4, FS_Subset, FS_CardinalityType
<1>6. PICK p \in 1..(Len(s) + 1) : p = Cardinality(before) + 1
  BY <1>2, <1>5
<1>7. Filed(s, e) = InsertAt(s, p, e)
  BY <1>3, <1>6 DEF Filed
<1>8. Inserted(s, p, e, InsertAt(s, p, e))
  BY <1>6, InsertIs
<1> QED BY <1>7, <1>8

\* The run-by-run order of a log is the end of a trace.
LEMMA RunsTrace ==
  ASSUME NEW log, NEW n \in Nat, DOMAIN log = 1..n
  PROVE  \E t : Trace("filed", {}, log, n, t) /\ t[n] = RunByRun(log)
<1> DEFINE iter == CHOOSE h : h = [s \in SUBSET (DOMAIN log) |->
                                     IF s = {} THEN <<>> ELSE Filed(h[s \ {Max(s)}], log[Max(s)])]
<1>1. RunByRun(log) = iter[DOMAIN log]
  BY DEF RunByRun, FoldLeft, MapThenFoldSet
<1>2. \A s, e : FoldStep("filed", {}, s, e) = Filed(s, e)
  BY DEF FoldStep
<1>3. FoldBase("filed") = <<>>
  BY DEF FoldBase
<1>4. PICK h : Folds("filed", {}, log, n, h)
  BY FoldExists
<1>5. h = [s \in SUBSET (DOMAIN log) |-> IF s = {} THEN <<>> ELSE Filed(h[s \ {Max(s)}], log[Max(s)])]
  BY <1>2, <1>3, <1>4 DEF Folds
<1>6. iter = [s \in SUBSET (DOMAIN log) |-> IF s = {} THEN <<>> ELSE Filed(iter[s \ {Max(s)}], log[Max(s)])]
  BY <1>5
<1> HIDE DEF iter
<1>7. Folds("filed", {}, log, n, iter)
  BY <1>2, <1>3, <1>6 DEF Folds
<1> QED BY <1>1, <1>7, TraceExists

\* The graph of a sequence of events, and the trace that ends in it.
GraphOf(s) == FoldLeft(GraphStep, NoGraph, s)
\* It is the end of a trace.
LEMMA GraphTrace ==
  ASSUME NEW log, NEW n \in Nat, DOMAIN log = 1..n
  PROVE  \E t : Trace("graph", {}, log, n, t) /\ t[n] = GraphOf(log)
<1> DEFINE iter == CHOOSE h : h = [s \in SUBSET (DOMAIN log) |->
                                     IF s = {} THEN NoGraph ELSE GraphStep(h[s \ {Max(s)}], log[Max(s)])]
<1>1. GraphOf(log) = iter[DOMAIN log]
  BY DEF GraphOf, FoldLeft, MapThenFoldSet
<1>2. \A s, e : FoldStep("graph", {}, s, e) = GraphStep(s, e)
  BY DEF FoldStep
<1>3. FoldBase("graph") = NoGraph
  BY DEF FoldBase
<1>4. PICK h : Folds("graph", {}, log, n, h)
  BY FoldExists
<1>5. h = [s \in SUBSET (DOMAIN log) |-> IF s = {} THEN NoGraph ELSE GraphStep(h[s \ {Max(s)}], log[Max(s)])]
  BY <1>2, <1>3, <1>4 DEF Folds
<1>6. iter = [s \in SUBSET (DOMAIN log) |-> IF s = {} THEN NoGraph ELSE GraphStep(iter[s \ {Max(s)}], log[Max(s)])]
  BY <1>5
<1> HIDE DEF iter
<1>7. Folds("graph", {}, log, n, iter)
  BY <1>2, <1>3, <1>6 DEF Folds
<1> QED BY <1>1, <1>7, TraceExists

\* One event more is filed into the order of those before it.
LEMMA RunsAppend ==
  ASSUME NEW log, NEW log2, NEW n \in Nat, DOMAIN log = 1..n, DOMAIN log2 = 1..(n + 1), \A k \in 1..n : log2[k] = log[k]
  PROVE  RunByRun(log2) = Filed(RunByRun(log), log2[n + 1])
<1>1. PICK t : Trace("filed", {}, log, n, t) /\ t[n] = RunByRun(log)
  BY RunsTrace
<1>2. n + 1 \in Nat /\ n + 1 \in 1..(n + 1) /\ (n + 1) - 1 = n
  OBVIOUS
<1>3. PICK u : Trace("filed", {}, log2, n + 1, u) /\ u[n + 1] = RunByRun(log2)
  BY <1>2, RunsTrace
<1>4. Trace("filed", {}, log2, n, u)
  BY <1>3 DEF Trace
<1>5. u[n] = t[n]
  BY <1>1, <1>4, TracesAgree
<1>6. u[n + 1] = FoldStep("filed", {}, u[(n + 1) - 1], log2[n + 1])
  BY <1>2, <1>3 DEF Trace
<1> QED BY <1>1, <1>2, <1>3, <1>5, <1>6 DEF FoldStep

Nodes == [available : BOOLEAN, passed : Nat, failed : Nat]
GraphOK(g) ==
  /\ g = [nodes |-> g.nodes, last |-> g.last]
  /\ g.nodes \in [DOMAIN g.nodes -> Nodes]

IsTest(e) == e.k \in {"verified", "failed"}
Revokes(e, key) == e.k = "revoked" /\ key[2] = e.r
\* What one event makes of the graph g.
Learns(g, e, h) ==
  /\ GraphOK(h)
  /\ DOMAIN h.nodes = IF e.k = "used" THEN DOMAIN g.nodes \cup {<<e.kind, e.r>>} ELSE DOMAIN g.nodes
  /\ \A key \in DOMAIN g.nodes :
       /\ Revokes(e, key) => ~h.nodes[key].available
       /\ ~Revokes(e, key) => h.nodes[key].available = g.nodes[key].available
       /\ h.nodes[key].passed + h.nodes[key].failed <= g.nodes[key].passed + g.nodes[key].failed + (IF IsTest(e) THEN 1 ELSE 0)
  /\ \A key \in DOMAIN h.nodes \ DOMAIN g.nodes : h.nodes[key] = NewNode

\* A node stays one, whatever happens to it.
LEMMA NodeMoves ==
  ASSUME NEW x \in Nodes
  PROVE  /\ [x EXCEPT !.failed = @ + 1] \in Nodes /\ [x EXCEPT !.passed = @ + 1] \in Nodes /\ [x EXCEPT !.available = FALSE] \in Nodes
         /\ [x EXCEPT !.failed = @ + 1].available = x.available /\ [x EXCEPT !.passed = @ + 1].available = x.available
         /\ ~[x EXCEPT !.available = FALSE].available
         /\ [x EXCEPT !.failed = @ + 1].passed + [x EXCEPT !.failed = @ + 1].failed = x.passed + x.failed + 1
         /\ [x EXCEPT !.passed = @ + 1].passed + [x EXCEPT !.passed = @ + 1].failed = x.passed + x.failed + 1
         /\ [x EXCEPT !.available = FALSE].passed + [x EXCEPT !.available = FALSE].failed = x.passed + x.failed
         /\ x.passed + x.failed \in Nat
<1>0. x.available \in BOOLEAN /\ x.passed \in Nat /\ x.failed \in Nat
  BY DEF Nodes
<1>1. PICK y1, y2, y3 : y1 = [x EXCEPT !.failed = @ + 1] /\ y2 = [x EXCEPT !.passed = @ + 1] /\ y3 = [x EXCEPT !.available = FALSE]
  OBVIOUS
<1>2. y1 \in Nodes /\ y1.available = x.available /\ y1.passed = x.passed /\ y1.failed = x.failed + 1
  BY <1>1 DEF Nodes
<1>3. y2 \in Nodes /\ y2.available = x.available /\ y2.passed = x.passed + 1 /\ y2.failed = x.failed
  BY <1>1 DEF Nodes
<1>4. y3 \in Nodes /\ ~y3.available /\ y3.passed = x.passed /\ y3.failed = x.failed
  BY <1>1 DEF Nodes
<1>5. y1.passed + y1.failed = x.passed + x.failed + 1 /\ y2.passed + y2.failed = x.passed + x.failed + 1
      /\ y3.passed + y3.failed = x.passed + x.failed /\ x.passed + x.failed \in Nat
  BY <1>0, <1>2, <1>3, <1>4
<1> QED BY <1>1, <1>2, <1>3, <1>4, <1>5

\* A verification or a failure counts once at most for a node.
LEMMA TestsCount ==
  ASSUME NEW g, GraphOK(g), NEW keys, NEW N \in {Fails(g, keys), Passes(g, keys)}
  PROVE  /\ DOMAIN N = DOMAIN g.nodes /\ N = [key \in DOMAIN g.nodes |-> N[key]]
         /\ \A key \in DOMAIN g.nodes :
              /\ N[key] \in Nodes /\ N[key].available = g.nodes[key].available
              /\ N[key].passed + N[key].failed <= g.nodes[key].passed + g.nodes[key].failed + 1
<1>1. DOMAIN N = DOMAIN g.nodes /\ N = [key \in DOMAIN g.nodes |-> N[key]]
  <2>1. CASE N = Fails(g, keys)
    BY <2>1 DEF Fails
  <2>2. CASE N = Passes(g, keys)
    BY <2>2 DEF Passes
  <2> QED BY <2>1, <2>2
<1>2. ASSUME NEW key \in DOMAIN g.nodes
      PROVE  /\ N[key] \in Nodes /\ N[key].available = g.nodes[key].available
             /\ N[key].passed + N[key].failed <= g.nodes[key].passed + g.nodes[key].failed + 1
  <2>1. PICK x \in Nodes : x = g.nodes[key]
    BY DEF GraphOK
  <2>2. PICK y, z : y = [x EXCEPT !.failed = @ + 1] /\ z = [x EXCEPT !.passed = @ + 1]
    OBVIOUS
  <2>3. /\ y \in Nodes /\ y.available = x.available /\ y.passed + y.failed = x.passed + x.failed + 1
        /\ z \in Nodes /\ z.available = x.available /\ z.passed + z.failed = x.passed + x.failed + 1
        /\ x.passed + x.failed \in Nat
    BY <2>2, NodeMoves
  <2>4. N[key] \in {x, y, z}
    <3>1. Fails(g, keys)[key] = (IF key \in keys THEN [g.nodes[key] EXCEPT !.failed = @ + 1] ELSE g.nodes[key])
      BY DEF Fails
    <3>2. Passes(g, keys)[key] = (IF key \in keys THEN [g.nodes[key] EXCEPT !.passed = @ + 1] ELSE g.nodes[key])
      BY DEF Passes
    <3>3. Fails(g, keys)[key] \in {x, y} /\ Passes(g, keys)[key] \in {x, z}
      BY <2>1, <2>2, <3>1, <3>2
    <3> QED BY <3>3
  <2>5. CASE N[key] = x
    BY <2>1, <2>3, <2>5
  <2>6. CASE N[key] = y
    BY <2>1, <2>3, <2>6
  <2>7. CASE N[key] = z
    BY <2>1, <2>3, <2>7
  <2> QED BY <2>4, <2>5, <2>6, <2>7
<1> QED BY <1>1, <1>2

\* So does the graph it is put into.
LEMMA TestLearns ==
  ASSUME NEW g, GraphOK(g), NEW keys, NEW e, IsTest(e), NEW N \in {Fails(g, keys), Passes(g, keys)}
  PROVE  Learns(g, e, [g EXCEPT !.nodes = N])
<1>1. PICK h : h = [g EXCEPT !.nodes = N]
  OBVIOUS
<1>2. h.nodes = N /\ h = [nodes |-> h.nodes, last |-> h.last]
  BY <1>1 DEF GraphOK
<1>3. /\ DOMAIN N = DOMAIN g.nodes /\ N = [key \in DOMAIN g.nodes |-> N[key]]
      /\ \A key \in DOMAIN g.nodes :
           /\ N[key] \in Nodes /\ N[key].available = g.nodes[key].available
           /\ N[key].passed + N[key].failed <= g.nodes[key].passed + g.nodes[key].failed + 1
  BY TestsCount
<1>4. N \in [DOMAIN N -> Nodes]
  BY <1>3
<1>5. (\A key : ~Revokes(e, key)) /\ e.k # "used"
  BY DEF IsTest, Revokes
<1>6. GraphOK(h)
  BY <1>2, <1>4 DEF GraphOK
<1> QED BY <1>1, <1>2, <1>3, <1>5, <1>6 DEF Learns

\* Every kind of event is learned so.
LEMMA GraphLearns == ASSUME NEW g, GraphOK(g), NEW e PROVE Learns(g, e, GraphStep(g, e))
<1>0. PICK h : h = GraphStep(g, e)
  OBVIOUS
<1>1. CASE e.k = "used"
  <2>1. h = [nodes |-> EnsureNode(g, e), last |-> (e.run :> <<e.kind, e.r>>) @@ g.last]
    BY <1>0, <1>1 DEF GraphStep
  <2>2. PICK N, new : N = h.nodes /\ new = <<e.kind, e.r>>
    OBVIOUS
  <2>4. N = [key \in DOMAIN g.nodes \cup {new} |-> IF key \in DOMAIN g.nodes THEN g.nodes[key] ELSE NewNode]
    BY <2>1, <2>2 DEF EnsureNode
  <2>5. DOMAIN N = DOMAIN g.nodes \cup {new} /\ (\A key \in DOMAIN g.nodes : N[key] = g.nodes[key])
        /\ \A key \in DOMAIN N \ DOMAIN g.nodes : N[key] = NewNode
    BY <2>4
  <2>6. NewNode \in Nodes
    BY DEF NewNode, Nodes
  <2>7. N \in [DOMAIN N -> Nodes]
    <3>1. \A key \in DOMAIN g.nodes : g.nodes[key] \in Nodes
      BY DEF GraphOK
    <3>2. \A key \in DOMAIN N : N[key] \in Nodes
      BY <2>5, <2>6, <3>1
    <3>3. N = [key \in DOMAIN N |-> N[key]]
      BY <2>4
    <3> QED BY <3>2, <3>3
  <2>8. GraphOK(h)
    BY <2>1, <2>2, <2>7 DEF GraphOK
  <2>9. \A key : ~Revokes(e, key)
    BY <1>1 DEF Revokes
  <2>10. \A key \in DOMAIN g.nodes : N[key].passed + N[key].failed <= g.nodes[key].passed + g.nodes[key].failed + (IF IsTest(e) THEN 1 ELSE 0)
    <3>1. ~IsTest(e)
      BY <1>1 DEF IsTest
    <3>2. \A key \in DOMAIN g.nodes : g.nodes[key].passed + g.nodes[key].failed \in Nat
      BY NodeMoves DEF GraphOK
    <3> QED BY <2>5, <3>1, <3>2
  <2> QED BY <1>0, <1>1, <2>2, <2>5, <2>8, <2>9, <2>10 DEF Learns
<1>2. CASE e.k = "verified" /\ e.process
  <2>1. PICK N, keys : N = (IF e.ok THEN Passes(g, keys) ELSE Fails(g, keys)) /\ keys = LastOf(g, e.run)
    OBVIOUS
  <2>2. h = [g EXCEPT !.nodes = N]
    BY <1>0, <1>2, <2>1 DEF GraphStep
  <2>3. IsTest(e) /\ N \in {Fails(g, keys), Passes(g, keys)}
    BY <1>2, <2>1 DEF IsTest
  <2>4. Learns(g, e, [g EXCEPT !.nodes = N])
    BY <2>3, TestLearns
  <2> QED BY <1>0, <2>2, <2>4
<1>3. CASE e.k = "failed"
  <2>1. h = [g EXCEPT !.nodes = Fails(g, IF NamesOf(g, e.r) # {} THEN NamesOf(g, e.r) ELSE LastOf(g, e.run))]
    BY <1>0, <1>3 DEF GraphStep
  <2>2. IsTest(e)
    BY <1>3 DEF IsTest
  <2>3. PICK keys, N : keys = (IF NamesOf(g, e.r) # {} THEN NamesOf(g, e.r) ELSE LastOf(g, e.run)) /\ N = Fails(g, keys)
    OBVIOUS
  <2>4. h = [g EXCEPT !.nodes = N]
    BY <2>1, <2>3
  <2>5. N \in {Fails(g, keys), Passes(g, keys)}
    BY <2>3
  <2>6. Learns(g, e, [g EXCEPT !.nodes = N])
    BY <2>2, <2>5, TestLearns
  <2> QED BY <1>0, <2>4, <2>6
<1>4. CASE e.k = "revoked"
  <2>1. h = [g EXCEPT !.nodes = [key \in DOMAIN @ |-> IF key \in NamesOf(g, e.r)
                                                      THEN [@[key] EXCEPT !.available = FALSE] ELSE @[key]]]
    BY <1>0, <1>4 DEF GraphStep
  <2>2. PICK N : N = h.nodes
    OBVIOUS
  <2>3. /\ N = [key \in DOMAIN g.nodes |-> IF key \in NamesOf(g, e.r) THEN [g.nodes[key] EXCEPT !.available = FALSE] ELSE g.nodes[key]]
        /\ h = [nodes |-> h.nodes, last |-> h.last]
    BY <2>1, <2>2 DEF GraphOK
  <2>4. ASSUME NEW key \in DOMAIN g.nodes
        PROVE  /\ N[key] \in Nodes
               /\ Revokes(e, key) => ~N[key].available
               /\ ~Revokes(e, key) => N[key].available = g.nodes[key].available
               /\ N[key].passed + N[key].failed <= g.nodes[key].passed + g.nodes[key].failed + 0
    <3>1. PICK x \in Nodes : x = g.nodes[key]
      BY DEF GraphOK
    <3>2. PICK y : y = [x EXCEPT !.available = FALSE]
      OBVIOUS
    <3>3. y \in Nodes /\ ~y.available /\ y.passed + y.failed = x.passed + x.failed /\ x.passed + x.failed \in Nat
      BY <3>2, NodeMoves
    <3>4. N[key] = (IF key \in NamesOf(g, e.r) THEN y ELSE x)
      BY <2>3, <3>1, <3>2
    <3>5. key \in NamesOf(g, e.r) <=> Revokes(e, key)
      BY <1>4 DEF NamesOf, Revokes
    <3>6. CASE Revokes(e, key)
      BY <3>1, <3>3, <3>4, <3>5, <3>6
    <3>7. CASE ~Revokes(e, key)
      BY <3>1, <3>3, <3>4, <3>5, <3>7
    <3> QED BY <3>6, <3>7
  <2>5. DOMAIN N = DOMAIN g.nodes /\ N \in [DOMAIN N -> Nodes]
    BY <2>3, <2>4
  <2>6. ~IsTest(e) /\ e.k # "used"
    BY <1>4 DEF IsTest
  <2>7. GraphOK(h)
    BY <2>2, <2>3, <2>5 DEF GraphOK
  <2> QED BY <1>0, <2>2, <2>4, <2>5, <2>6, <2>7 DEF Learns
<1>5. CASE e.k \notin {"used", "failed", "revoked"} /\ ~(e.k = "verified" /\ e.process)
  <2>1. h = g
    BY <1>0, <1>5 DEF GraphStep
  <2>2. \A key : ~Revokes(e, key)
    BY <1>5 DEF Revokes
  <2>3. \A key \in DOMAIN g.nodes : g.nodes[key].passed + g.nodes[key].failed \in Nat
    BY NodeMoves DEF GraphOK
  <2>4. \A key \in DOMAIN g.nodes :
          g.nodes[key].passed + g.nodes[key].failed <= g.nodes[key].passed + g.nodes[key].failed + (IF IsTest(e) THEN 1 ELSE 0)
    BY <2>3
  <2> QED BY <1>0, <1>5, <2>1, <2>2, <2>4 DEF Learns
<1> QED BY <1>1, <1>2, <1>3, <1>4, <1>5

\* The graph h knows every node of g, and every unavailable one as unavailable.
Above(g, h) ==
  /\ DOMAIN g.nodes \subseteq DOMAIN h.nodes
  /\ \A key \in DOMAIN g.nodes : ~g.nodes[key].available => ~h.nodes[key].available

\* An event keeps one graph above another, and above what it was.
LEMMA AboveKept ==
  ASSUME NEW g, NEW h, GraphOK(g), GraphOK(h), NEW e
  PROVE  /\ Above(g, h) => Above(GraphStep(g, e), GraphStep(h, e))
         /\ Above(g, GraphStep(g, e))
<1>1. PICK g2, h2 : g2 = GraphStep(g, e) /\ h2 = GraphStep(h, e)
  OBVIOUS
<1>2. Learns(g, e, g2) /\ Learns(h, e, h2)
  BY <1>1, GraphLearns
<1>3. Above(g, g2)
  BY <1>2 DEF Learns, Above
<1>4. ASSUME Above(g, h) PROVE Above(g2, h2)
  <2>1. DOMAIN g2.nodes \subseteq DOMAIN h2.nodes
    BY <1>2, <1>4 DEF Learns, Above
  <2>2. ASSUME NEW key \in DOMAIN g2.nodes, ~g2.nodes[key].available PROVE ~h2.nodes[key].available
    <3>1. NewNode.available
      BY DEF NewNode
    <3>2. key \in DOMAIN g.nodes
      BY <1>2, <2>2, <3>1 DEF Learns
    <3>3. key \in DOMAIN h.nodes
      BY <1>4, <3>2 DEF Above
    <3>4. CASE Revokes(e, key)
      BY <1>2, <3>3, <3>4 DEF Learns
    <3>5. CASE ~Revokes(e, key)
      <4>1. ~g.nodes[key].available
        BY <1>2, <2>2, <3>2, <3>5 DEF Learns
      <4>2. ~h.nodes[key].available
        BY <1>4, <3>2, <4>1 DEF Above
      <4> QED BY <1>2, <3>3, <3>5, <4>2 DEF Learns
    <3> QED BY <3>4, <3>5
  <2> QED BY <2>1, <2>2 DEF Above
<1> QED BY <1>1, <1>3, <1>4

Tests(s, n) == {i \in 1..n : IsTest(s[i])}
Counted(s, n, g) == \A key \in DOMAIN g.nodes : g.nodes[key].passed + g.nodes[key].failed <= Cardinality(Tests(s, n))

\* The outcomes up to a position are finitely many, and one more adds at most one.
LEMMA TestsFinite ==
  ASSUME NEW s, NEW n \in Nat
  PROVE  /\ IsFiniteSet(Tests(s, n)) /\ Cardinality(Tests(s, n)) \in Nat
         /\ Cardinality(Tests(s, n + 1)) = Cardinality(Tests(s, n)) + (IF IsTest(s[n + 1]) THEN 1 ELSE 0)
<1>1. PICK T, T2 : T = Tests(s, n) /\ T2 = Tests(s, n + 1)
  OBVIOUS
<1>2. T \in SUBSET (1..n) /\ IsFiniteSet(1..n)
  BY <1>1, FS_Interval DEF Tests
<1>3. IsFiniteSet(T) /\ Cardinality(T) \in Nat
  BY <1>2, FS_Subset, FS_CardinalityType
<1>4. n + 1 \notin T /\ \A i : i \in 1..(n + 1) <=> i \in 1..n \/ i = n + 1
  BY <1>2
<1>5. CASE IsTest(s[n + 1])
  <2>1. T2 = T \cup {n + 1}
    BY <1>1, <1>4, <1>5 DEF Tests
  <2>2. Cardinality(T \cup {n + 1}) = Cardinality(T) + 1
    BY <1>3, <1>4, FS_AddElement
  <2> QED BY <1>1, <1>3, <1>5, <2>1, <2>2
<1>6. CASE ~IsTest(s[n + 1])
  <2>1. T2 = T
    BY <1>1, <1>4, <1>6 DEF Tests
  <2> QED BY <1>1, <1>3, <1>6, <2>1
<1> QED BY <1>5, <1>6

\* What a graph counts of its events, all along its trace.
LEMMA TraceCounts ==
  ASSUME NEW s, NEW n \in Nat, NEW t, Trace("graph", {}, s, n, t)
  PROVE  \A i \in 0..n : GraphOK(t[i]) /\ Counted(s, i, t[i])
<1> DEFINE wrong == {i \in 0..n : ~(GraphOK(t[i]) /\ Counted(s, i, t[i]))}
<1>1. 0 \notin wrong
  <2>1. t[0] = NoGraph
    BY DEF Trace, FoldBase
  <2>2. GraphOK(NoGraph) /\ DOMAIN NoGraph.nodes = {}
    BY DEF NoGraph, GraphOK
  <2> QED BY <2>1, <2>2 DEF Counted
<1>2. ASSUME NEW i \in 1..n, i - 1 \notin wrong PROVE i \notin wrong
  <2>1. PICK j, g, h, e : j = i - 1 /\ g = t[j] /\ h = t[i] /\ e = s[i]
    OBVIOUS
  <2>2. j \in Nat /\ i = j + 1 /\ j \in 0..n
    BY <2>1
  <2>3. GraphOK(g) /\ Counted(s, j, g)
    BY <1>2, <2>1, <2>2
  <2>4. h = GraphStep(g, e)
    BY <2>1 DEF Trace, FoldStep
  <2>5. Learns(g, e, h)
    BY <2>3, <2>4, GraphLearns
  <2>6. PICK c, c2 : c = Cardinality(Tests(s, j)) /\ c2 = Cardinality(Tests(s, i))
    OBVIOUS
  <2>7. c \in Nat /\ c2 = c + (IF IsTest(e) THEN 1 ELSE 0)
    BY <2>1, <2>2, <2>6, TestsFinite
  <2>8. ASSUME NEW key \in DOMAIN h.nodes PROVE h.nodes[key].passed + h.nodes[key].failed <= c2
    <3>1. CASE key \in DOMAIN g.nodes
      <4>1. h.nodes[key].passed + h.nodes[key].failed <= g.nodes[key].passed + g.nodes[key].failed + (IF IsTest(e) THEN 1 ELSE 0)
        BY <2>5, <3>1 DEF Learns
      <4>2. g.nodes[key].passed + g.nodes[key].failed <= c
        BY <2>3, <2>6, <3>1 DEF Counted
      <4>3. g.nodes[key].passed + g.nodes[key].failed \in Nat
        BY <2>3, <3>1, NodeMoves DEF GraphOK
      <4>4. h.nodes[key].passed + h.nodes[key].failed \in Nat
        BY <2>5, <2>8, NodeMoves DEF Learns, GraphOK
      <4> QED BY <2>7, <4>1, <4>2, <4>3, <4>4
    <3>2. CASE key \notin DOMAIN g.nodes
      <4>1. h.nodes[key] = NewNode
        BY <2>5, <2>8, <3>2 DEF Learns
      <4> QED BY <2>7, <4>1 DEF NewNode
    <3> QED BY <3>1, <3>2
  <2>9. GraphOK(h) /\ Counted(s, i, h)
    BY <2>5, <2>6, <2>8 DEF Learns, Counted
  <2> QED BY <2>1, <2>9
<1>3. wrong \subseteq 0..n /\ (wrong = {} => \A i \in 0..n : GraphOK(t[i]) /\ Counted(s, i, t[i]))
  OBVIOUS
<1> HIDE DEF wrong
<1>4. wrong = {}
  <2>1. SUFFICES ASSUME wrong # {} PROVE FALSE
    OBVIOUS
  <2>2. wrong \subseteq Nat
    BY <1>3
  <2>3. PICK m \in wrong : \A i \in wrong : m <= i
    BY <2>1, <2>2, LeastOf
  <2>4. m \in 1..n /\ ~(m <= m - 1)
    BY <1>1, <1>3, <2>3
  <2>5. m - 1 \notin wrong
    BY <2>3, <2>4
  <2> QED BY <1>2, <2>3, <2>4, <2>5
<1> QED BY <1>3, <1>4

\* An event put in anywhere only adds nodes and takes availability away.
LEMMA InsertedAbove ==
  ASSUME NEW s, IsSeq(s), NEW p \in 1..(Len(s) + 1), NEW e, NEW u, Inserted(s, p, e, u)
  PROVE  Above(GraphOf(s), GraphOf(u))
<1>1. PICK n \in Nat : n = Len(s) /\ DOMAIN s = 1..n
  <2>1. PICK S : s \in Seq(S)
    BY DEF IsSeq
  <2> QED BY <2>1, LenProperties
<1>2. /\ n + 1 \in Nat /\ DOMAIN u = 1..(n + 1) /\ p \in 1..(n + 1) /\ u[p] = e
      /\ (\A i \in 1..(p - 1) : u[i] = s[i]) /\ \A i \in p..n : u[i + 1] = s[i]
  BY <1>1 DEF Inserted
<1>3. PICK t : Trace("graph", {}, s, n, t) /\ t[n] = GraphOf(s)
  BY <1>1, GraphTrace
<1>4. PICK v : Trace("graph", {}, u, n + 1, v) /\ v[n + 1] = GraphOf(u)
  BY <1>2, GraphTrace
<1>5. \A i \in 0..n : GraphOK(t[i])
  BY <1>3, TraceCounts
<1>6. \A i \in 0..(n + 1) : GraphOK(v[i])
  BY <1>2, <1>4, TraceCounts
<1>7. PICK q \in Nat : q = p - 1 /\ q \in 0..n /\ q + 1 = p
  BY <1>2
<1>8. t[q] = v[q]
  <2>1. Trace("graph", {}, s, q, t) /\ Trace("graph", {}, u, q, v)
    BY <1>3, <1>4, <1>7 DEF Trace
  <2>2. \A i \in 1..q : s[i] = u[i]
    BY <1>2, <1>7
  <2> QED BY <2>1, <2>2, TracesAgree
<1> DEFINE wrong == {i \in p..(n + 1) : ~Above(t[i - 1], v[i])}
<1>9. p \notin wrong
  <2>1. v[p] = GraphStep(v[q], e)
    BY <1>2, <1>4, <1>7 DEF Trace, FoldStep
  <2>2. Above(t[q], v[p])
    BY <1>5, <1>7, <1>8, <2>1, AboveKept
  <2> QED BY <1>7, <2>2
<1>10. ASSUME NEW i \in (p + 1)..(n + 1), i - 1 \notin wrong PROVE i \notin wrong
  <2>1. PICK j \in Nat : j = i - 1 /\ j \in p..n /\ j + 1 = i /\ j \in p..(n + 1) /\ j \in 1..n /\ i \in 1..(n + 1)
    BY <1>2
  <2>2. Above(t[j - 1], v[j])
    BY <1>10, <2>1
  <2>3. t[j] = GraphStep(t[j - 1], s[j])
    BY <1>3, <2>1 DEF Trace, FoldStep
  <2>4. v[i] = GraphStep(v[j], s[j])
    <3>1. v[i] = FoldStep("graph", {}, v[i - 1], u[i])
      BY <1>4, <2>1 DEF Trace
    <3>2. u[i] = s[j]
      BY <1>2, <2>1
    <3> QED BY <2>1, <3>1, <3>2 DEF FoldStep
  <2>5. GraphOK(t[j - 1]) /\ GraphOK(v[j])
    BY <1>5, <1>6, <2>1
  <2>6. Above(t[j], v[i])
    BY <2>2, <2>3, <2>4, <2>5, AboveKept
  <2> QED BY <2>1, <2>6
<1>11. wrong \subseteq p..(n + 1) /\ (wrong = {} => Above(t[n], v[n + 1]))
  <2>1. n + 1 \in p..(n + 1) /\ (n + 1) - 1 = n
    BY <1>2
  <2> QED BY <2>1
<1> HIDE DEF wrong
<1>12. wrong = {}
  <2>1. SUFFICES ASSUME wrong # {} PROVE FALSE
    OBVIOUS
  <2>2. wrong \subseteq Nat
    BY <1>2, <1>11
  <2>3. PICK m \in wrong : \A i \in wrong : m <= i
    BY <2>1, <2>2, LeastOf
  <2>4. m \in (p + 1)..(n + 1) /\ ~(m <= m - 1)
    BY <1>2, <1>9, <1>11, <2>3
  <2>5. m - 1 \notin wrong
    BY <1>2, <1>11, <2>3, <2>4
  <2> QED BY <1>10, <2>3, <2>4, <2>5
<1> QED BY <1>3, <1>4, <1>11, <1>12

\* An event put in adds at most itself to the outcomes.
LEMMA TestsInserted ==
  ASSUME NEW s, NEW n \in Nat, n = Len(s), NEW p \in 1..(n + 1), NEW e, NEW u, Inserted(s, p, e, u)
  PROVE  Cardinality(Tests(u, n + 1)) <= Cardinality(Tests(s, n)) + (IF IsTest(e) THEN 1 ELSE 0)
<1>1. PICK T, U : T = Tests(s, n) /\ U = Tests(u, n + 1) \ {p}
  OBVIOUS
<1>2. IsFiniteSet(T) /\ Cardinality(T) \in Nat
  BY <1>1, TestsFinite
<1>3. u[p] = e /\ (\A i \in 1..(p - 1) : u[i] = s[i]) /\ \A i \in p..n : u[i + 1] = s[i]
  BY DEF Inserted
<1>4. PICK f : f = [i \in T |-> IF i < p THEN i ELSE i + 1]
  OBVIOUS
<1>5. f \in [T -> U]
  <2>1. ASSUME NEW i \in T PROVE f[i] \in U
    <3>1. i \in 1..n /\ IsTest(s[i])
      BY <1>1 DEF Tests
    <3>2. CASE i < p
      <4>1. i \in 1..(p - 1) /\ i \in 1..(n + 1) /\ i # p /\ f[i] = i
        BY <1>4, <3>1, <3>2
      <4> QED BY <1>1, <1>3, <3>1, <4>1 DEF Tests
    <3>3. CASE ~(i < p)
      <4>1. i \in p..n /\ i + 1 \in 1..(n + 1) /\ i + 1 # p /\ f[i] = i + 1
        BY <1>4, <3>1, <3>3
      <4> QED BY <1>1, <1>3, <3>1, <4>1 DEF Tests
    <3> QED BY <3>2, <3>3
  <2> QED BY <1>4, <2>1
<1>6. ASSUME NEW j \in U PROVE \E i \in T : f[i] = j
  <2>1. j \in 1..(n + 1) /\ j # p /\ IsTest(u[j])
    BY <1>1 DEF Tests
  <2>2. CASE j < p
    <3>1. j \in 1..(p - 1) /\ j \in 1..n
      BY <2>1, <2>2
    <3>2. j \in T
      BY <1>1, <1>3, <2>1, <3>1 DEF Tests
    <3> QED BY <1>4, <2>2, <3>2
  <2>3. CASE j > p
    <3>1. PICK i \in Nat : i = j - 1 /\ i \in p..n /\ i \in 1..n /\ i + 1 = j /\ ~(i < p)
      BY <2>1, <2>3
    <3>2. i \in T
      BY <1>1, <1>3, <2>1, <3>1 DEF Tests
    <3> QED BY <1>4, <3>1, <3>2
  <2> QED BY <2>1, <2>2, <2>3
<1>7. f \in Surjection(T, U)
  BY <1>5, <1>6 DEF Surjection
<1>8. IsFiniteSet(U) /\ Cardinality(U) <= Cardinality(T)
  BY <1>2, <1>7, FS_Surjection
<1>9. Cardinality(U) \in Nat
  BY <1>8, FS_CardinalityType
<1>10. CASE IsTest(e)
  <2>1. Tests(u, n + 1) = U \cup {p} /\ p \notin U
    BY <1>1, <1>3, <1>10 DEF Tests
  <2>2. Cardinality(U \cup {p}) = Cardinality(U) + 1
    BY <1>8, <2>1, FS_AddElement
  <2>3. (IF IsTest(e) THEN 1 ELSE 0) = 1
    BY <1>10
  <2>4. Cardinality(Tests(u, n + 1)) = Cardinality(U) + 1 /\ Cardinality(Tests(s, n)) = Cardinality(T)
    BY <1>1, <2>1, <2>2
  <2>5. Cardinality(U) + 1 <= Cardinality(T) + 1
    BY <1>2, <1>8, <1>9
  <2> QED BY <2>3, <2>4, <2>5
<1>11. CASE ~IsTest(e)
  <2>1. Tests(u, n + 1) = U
    BY <1>1, <1>3, <1>11 DEF Tests
  <2>2. (IF IsTest(e) THEN 1 ELSE 0) = 0
    BY <1>11
  <2>3. Cardinality(Tests(u, n + 1)) = Cardinality(U) /\ Cardinality(Tests(s, n)) = Cardinality(T)
    BY <1>1, <2>1
  <2>4. Cardinality(U) <= Cardinality(T) + 0
    BY <1>2, <1>8, <1>9
  <2> QED BY <2>2, <2>3, <2>4
<1> QED BY <1>10, <1>11

\* The run-by-run order holds as many facts as the log, and no more outcomes.
FactsOK(log, s) ==
  /\ IsSeq(log) /\ IsSeq(s) /\ Len(s) = Len(log)
  /\ Cardinality(Tests(s, Len(s))) <= Cardinality(Tests(log, Len(log)))
FactsInv == \E log, s : log = facts /\ s = RunByRun(log) /\ FactsOK(log, s)

\* One fact more: it is filed, and the graph it makes is above the one there was.
LEMMA FactRecorded ==
  ASSUME NEW log, NEW s, s = RunByRun(log), FactsOK(log, s), NEW e
  PROVE  \E log2, s2 : /\ log2 = Append(log, e) /\ s2 = RunByRun(log2) /\ FactsOK(log2, s2)
                       /\ Above(GraphOf(s), GraphOf(s2))
<1>1. PICK S : log \in Seq(S)
  BY DEF FactsOK, IsSeq
<1>2. PICK n \in Nat : n = Len(log)
  BY <1>1, LenProperties
<1>3. PICK log2 : log2 = Append(log, e)
  OBVIOUS
<1>4. /\ log2 \in Seq(S \cup {e}) /\ Len(log2) = n + 1 /\ DOMAIN log2 = 1..(n + 1) /\ DOMAIN log = 1..n
      /\ log2[n + 1] = e /\ \A k \in 1..n : log2[k] = log[k]
  BY <1>1, <1>2, <1>3, AppendAny
<1>5. PICK s2 : s2 = RunByRun(log2)
  OBVIOUS
<1>6. s2 = Filed(s, e)
  BY <1>4, <1>5, RunsAppend
<1>7. IsSeq(s) /\ Len(s) = n
  BY <1>2 DEF FactsOK
<1>8. PICK p \in 1..(Len(s) + 1) : Inserted(s, p, e, Filed(s, e))
  BY <1>7, FiledIs
<1>9. Inserted(s, p, e, s2) /\ p \in 1..(n + 1)
  BY <1>6, <1>7, <1>8
<1>10. Above(GraphOf(s), GraphOf(s2))
  BY <1>7, <1>8, <1>9, InsertedAbove
<1>11. Cardinality(Tests(s2, n + 1)) <= Cardinality(Tests(s, n)) + (IF IsTest(e) THEN 1 ELSE 0)
  BY <1>7, <1>9, TestsInserted
<1>12. Cardinality(Tests(log2, n + 1)) = Cardinality(Tests(log2, n)) + (IF IsTest(e) THEN 1 ELSE 0)
  BY <1>4, TestsFinite
<1>13. Tests(log2, n) = Tests(log, n)
  BY <1>4 DEF Tests
<1>14. Cardinality(Tests(s, n)) <= Cardinality(Tests(log, n))
  BY <1>2, <1>7 DEF FactsOK
<1>15. Cardinality(Tests(s2, n + 1)) <= Cardinality(Tests(log2, n + 1))
  <2>1. Cardinality(Tests(s, n)) \in Nat /\ Cardinality(Tests(log, n)) \in Nat /\ Cardinality(Tests(s2, n + 1)) \in Nat
    BY TestsFinite
  <2> QED BY <1>11, <1>12, <1>13, <1>14, <2>1
<1>16. IsSeq(log2) /\ IsSeq(s2) /\ Len(s2) = n + 1
  BY <1>4, <1>7, <1>9 DEF Inserted, IsSeq
<1>17. FactsOK(log2, s2)
  BY <1>4, <1>15, <1>16 DEF FactsOK
<1> QED BY <1>3, <1>5, <1>10, <1>17

\* An empty log has no outcomes.
LEMMA NoFacts == ProjectionInit => FactsInv
<1> SUFFICES ASSUME ProjectionInit PROVE FactsInv
  OBVIOUS
<1>1. PICK log : log = facts /\ log = <<>>
  BY DEF ProjectionInit
<1>2. IsSeq(log) /\ Len(log) = 0 /\ DOMAIN log = 1..0
  BY <1>1, EmptyIsSeq
<1>3. PICK t : Trace("filed", {}, log, 0, t) /\ t[0] = RunByRun(log)
  BY <1>2, RunsTrace
<1>4. RunByRun(log) = log
  BY <1>1, <1>3 DEF Trace, FoldBase
<1>5. Cardinality(Tests(log, 0)) <= Cardinality(Tests(log, 0))
  BY TestsFinite
<1>6. FactsOK(log, log)
  BY <1>2, <1>5 DEF FactsOK
<1> QED BY <1>1, <1>4, <1>6 DEF FactsInv

\* What is unavailable stays so, and no score counts more outcomes than there are.
LEMMA UnavailableStays == FactsInv /\ [ProjectionNext]_projectionVars => FactsInv' /\ RevokedStaysUnavailable /\ RecallForgets
<1> SUFFICES ASSUME FactsInv, [ProjectionNext]_projectionVars PROVE FactsInv' /\ RevokedStaysUnavailable /\ RecallForgets
  OBVIOUS
<1>1. PICK log, s : log = facts /\ s = RunByRun(log) /\ FactsOK(log, s)
  BY DEF FactsInv
<1>2. RecallForgets
  <2>1. \E S : facts \in Seq(S)
    BY <1>1 DEF FactsOK, IsSeq
  <2> QED BY <2>1, RecallOnlyForgets
<1>3. CASE facts' = facts
  <2>1. FactsInv'
    BY <1>1, <1>3 DEF FactsInv
  <2> QED BY <1>2, <1>3, <2>1 DEF RevokedStaysUnavailable
<1>4. CASE facts' # facts
  <2>1. PICK e : facts' = Append(facts, e)
    BY <1>4 DEF ProjectionNext, Record1, projectionVars
  <2>2. PICK log2, s2 : /\ log2 = Append(log, e) /\ s2 = RunByRun(log2) /\ FactsOK(log2, s2)
                        /\ Above(GraphOf(s), GraphOf(s2))
    BY <1>1, FactRecorded
  <2>3. facts' = log2
    BY <1>1, <2>1, <2>2
  <2>4. FactsInv'
    BY <2>2, <2>3 DEF FactsInv
  <2>5. PICK n \in Nat : n = Len(s2) /\ DOMAIN s2 = 1..n /\ DOMAIN log2 = 1..n /\ n = Len(log2)
    <3>1. PICK S, S2 : s2 \in Seq(S) /\ log2 \in Seq(S2)
      BY <2>2 DEF FactsOK, IsSeq
    <3> QED BY <2>2, <3>1, LenProperties DEF FactsOK
  <2>6. PICK t : Trace("graph", {}, s2, n, t) /\ t[n] = GraphOf(s2)
    BY <2>5, GraphTrace
  <2>7. GraphOK(GraphOf(s2)) /\ Counted(s2, n, GraphOf(s2))
    <3>1. n \in 0..n
      OBVIOUS
    <3> QED BY <2>6, <3>1, TraceCounts
  <2>8. PICK before, after, total : before = GraphOf(s).nodes /\ after = GraphOf(s2).nodes /\ total = Cardinality(Tests(log2, n))
    OBVIOUS
  <2>9. \A key \in DOMAIN before \cap DOMAIN after : ~before[key].available => ~after[key].available
    BY <2>2, <2>8 DEF Above
  <2>10. ASSUME NEW key \in DOMAIN after PROVE after[key].passed + after[key].failed <= total
    <3>1. after[key].passed + after[key].failed <= Cardinality(Tests(s2, n))
      BY <2>7, <2>8, <2>10 DEF Counted
    <3>2. Cardinality(Tests(s2, n)) <= total
      BY <2>2, <2>5, <2>8 DEF FactsOK
    <3>3. after[key].passed + after[key].failed \in Nat
      BY <2>7, <2>8, <2>10, NodeMoves DEF GraphOK
    <3>4. Cardinality(Tests(s2, n)) \in Nat /\ total \in Nat
      BY <2>8, TestsFinite
    <3> QED BY <3>1, <3>2, <3>3, <3>4
  <2>11. Graph(facts) = before /\ Graph(log2) = after
    BY <1>1, <2>2, <2>8 DEF Graph, GraphOf
  <2>12. total = Cardinality({k \in DOMAIN log2 : log2[k].k \in {"verified", "failed"}})
    <3>1. Tests(log2, n) = {k \in DOMAIN log2 : log2[k].k \in {"verified", "failed"}}
      BY <2>5 DEF Tests, IsTest
    <3> QED BY <2>8, <3>1
  <2>13. RevokedStaysUnavailable
    BY <2>3, <2>9, <2>10, <2>11, <2>12 DEF RevokedStaysUnavailable
  <2> QED BY <1>2, <2>4, <2>13
<1> QED BY <1>3, <1>4

\* DerivedFollowsEvidence, of CompetenceGate, HotColdProjection and CapabilityResourceGraph: a ceiling falls with doubt and
\* rises with support, recall only forgets, and a revoked resource is not available again, in whatever order the facts come.
THEOREM DerivedStateFollowsEvidence == AssistantSpec => DerivedFollowsEvidence
<1>1. AssistantInit => FactsInv /\ case \in Cases
  BY NoFacts, CaseStays DEF AssistantInit
<1>2. (FactsInv /\ case \in Cases) /\ [AssistantNext]_assistantVars => (FactsInv /\ case \in Cases)'
  BY FacultiesStep, UnavailableStays, CaseStays
<1>3. (FactsInv /\ case \in Cases) /\ [AssistantNext]_assistantVars
        => [CeilingFollowsEvidence /\ RecallForgets /\ RevokedStaysUnavailable]_assistantVars
  BY FacultiesStep, UnavailableStays, CeilingFollows
<1> QED BY <1>1, <1>2, <1>3, PTL DEF AssistantSpec, DerivedFollowsEvidence

=============================================================================
