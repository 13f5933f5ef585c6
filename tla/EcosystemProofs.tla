-------------------------- MODULE EcosystemProofs --------------------------
(***************************************************************************)
(* Proofs about Ecosystem, for any publishers, packages, releases,         *)
(* dependencies and scopes, and any number of grants, plans and faults.    *)
(***************************************************************************)
EXTENDS Ecosystem, FiniteSetTheorems, TLAPS

Grants == [version : 0..MaxGrants, status : {"none", "active", "revoked"}, expired : BOOLEAN, scope : Scopes]
Admissions == [grant : 0..MaxGrants, scope : Scopes]
States == [state : Lifecycle, release : Releases \cup {NoRelease}, generation : Nat]

TypeInv ==
  /\ TypeOK
  /\ grant \in [Publishers -> Grants] /\ admission \in [Releases -> Admissions]
  /\ package \in [Packages -> States] /\ nonces \in [Nonces -> Plans \cup {NoPlan}]

\* A plan that is carried out was asked for in the state it is applied to, by
\* a publisher in good standing.
Sound(plan) ==
  /\ plan \in Plans /\ plan.op # "Distribute"
  /\ plan.release \in bundles /\ admission[plan.release].grant # 0
  /\ grant[PublisherOf[plan.release]].status = "active"

Claimed(plan) == \E n \in Nonces : nonces[n] = plan

\* What the operation under control_lock has established.
DoingOK ==
  /\ doing = [op |-> doing.op, plan |-> doing.plan]
  /\ process # "up" => doing = Idle
  /\ doing.op = "fence" => doing.plan \in Publishers /\ grant[doing.plan].status = "revoked"
  /\ doing.op = "admit" => doing.plan \in Releases
  /\ doing.op \in {"change", "show"} => Sound(doing.plan)
  /\ doing.op = "change" => Requested(doing.plan.op, doing.plan.release)
  /\ doing.op = "record" =>
       /\ doing.plan.plan \in Plans
       /\ ledger[doing.plan.plan.release] = doing.plan.plan /\ Claimed(doing.plan.plan)

\* An enabled package has its body and its admission, and no generation has
\* passed one that was never changed.
PackagesOK ==
  /\ EnabledIsRebuildable
  /\ \A k \in Enabled : package[k].release \in Releases
  /\ \A k \in Packages : package[k].state = "Admitted" => package[k].generation = 0

\* Distributions, and the dispatches they come by, have their nonces.
DistributionsOK == DistributionIsProven /\ \A d \in dispatches : Claimed(d.plan)

\* One release has the last generation that the executor recorded.
InstalledOK == Releases = {} \/ \E x \in Releases : \A y \in Releases : installed[y] <= installed[x]

Inv == TypeInv /\ DoingOK /\ PackagesOK /\ DistributionsOK /\ InstalledOK

-----------------------------------------------------------------------------
(* Types                                                                   *)

\* What the constants are.
LEMMA Facts ==
  /\ \A r \in Releases : PackageOf[r] \in Packages /\ PublisherOf[r] \in Publishers /\ DependsOn[r] \subseteq Releases
  /\ AnyScope \in Scopes /\ NoRelease \notin Releases /\ NoPlan \notin Plans
  /\ MaxGrants \in Nat /\ MaxPlans \in Nat /\ MaxFaults \in Nat
BY EcosystemAssumption, FilesAssumption DEF EcosystemAssumption, FilesAssumption

\* Nothing has happened.
LEMMA InitInv == Init => Inv
<1> SUFFICES ASSUME Init PROVE Inv
  OBVIOUS
<1> USE Facts DEF Init
<1>1. TypeInv
  <2>1. grant \in [Publishers -> Grants]
    BY DEF Grants
  <2>2. admission \in [Releases -> Admissions]
    BY DEF Admissions
  <2>3. package \in [Packages -> States]
    BY DEF States, Lifecycle
  <2>4. nonces \in [Nonces -> Plans \cup {NoPlan}]
    OBVIOUS
  <2>5. TypeOK
    BY <2>1, <2>2, <2>3, <2>4 DEF TypeOK, Grants, Admissions, States, Files, Idle
  <2> QED BY <2>1, <2>2, <2>3, <2>4, <2>5 DEF TypeInv
<1>2. DoingOK
  BY DEF DoingOK, Idle
<1>3. PackagesOK
  BY DEF PackagesOK, EnabledIsRebuildable, Enabled
<1>4. DistributionsOK
  BY DEF DistributionsOK, DistributionIsProven
<1>5. InstalledOK
  BY DEF InstalledOK
<1> QED BY <1>1, <1>2, <1>3, <1>4, <1>5 DEF Inv

\* FileCapabilityPackageLedger::install: the generation after the last one.
LEMMA NextGeneration ==
  ASSUME installed \in [Releases -> Nat], InstalledOK, NEW r \in Releases
  PROVE  /\ MaxOf({installed[x] : x \in Releases}) \in Nat
         /\ \A y \in Releases : installed[y] <= MaxOf({installed[x] : x \in Releases})
<1> DEFINE S == {installed[x] : x \in Releases}
<1>1. PICK n \in S : \A y \in S : y <= n
  BY DEF InstalledOK
<1>2. MaxOf(S) \in S /\ \A y \in S : y <= MaxOf(S)
  BY <1>1 DEF MaxOf
<1> QED BY <1>2

\* Every step keeps the types.
LEMMA TypeStep ==
  ASSUME Inv, [Next]_vars
  PROVE  TypeInv'
<1> USE Facts
<1>0. /\ TypeInv /\ DoingOK
      /\ grant \in [Publishers -> Grants] /\ admission \in [Releases -> Admissions]
      /\ package \in [Packages -> States] /\ nonces \in [Nonces -> Plans \cup {NoPlan}]
  BY DEF Inv, TypeInv
<1>1. ASSUME NEW p \in Publishers, ConfigureKey(p) PROVE TypeInv'
  BY <1>0, <1>1 DEF TypeInv, TypeOK, ConfigureKey, store, outside
<1>2. ASSUME NEW p \in Publishers, Expire(p) PROVE TypeInv'
  <2>1. grant' \in [Publishers -> Grants]
    BY <1>0, <1>2 DEF Expire, Grants
  <2> QED BY <1>0, <1>2, <2>1 DEF TypeInv, TypeOK, Expire, memory, outside, Grants
<1>3. ASSUME NEW p \in Publishers, NEW status \in {"active", "revoked"}, NEW scope \in Scopes, Provision(p, status, scope)
      PROVE  TypeInv'
  <2>1. grant' \in [Publishers -> Grants]
    BY <1>0, <1>3 DEF Provision, ProjectGrant, Grants
  <2>2. doing'.op \in {"none", "fence"}
    BY <1>3 DEF Provision, Idle
  <2>3. version' \in Nat
    BY <1>0, <1>3 DEF Provision, Committed, TypeInv, TypeOK
  <2> QED BY <1>0, <1>3, <2>1, <2>2, <2>3 DEF TypeInv, TypeOK, Provision, outside, Grants
<1>4. CASE FencePackages
  <2>1. active' \in [Packages -> Releases \cup {NoRelease}]
    BY <1>0, <1>4 DEF FencePackages, TypeInv, TypeOK
  <2> QED BY <1>0, <1>4, <2>1 DEF TypeInv, TypeOK, FencePackages, store, outside, Idle
<1>5. ASSUME NEW r \in Releases, Archive(r) PROVE TypeInv'
  BY <1>0, <1>5 DEF TypeInv, TypeOK, Archive, Keep, outside
<1>6. ASSUME NEW r \in Releases, NEW op \in Operations, Prepare(op, r) PROVE TypeInv'
  <2>1. plans' \subseteq Plans
    BY <1>0, <1>6 DEF Prepare, TypeInv, TypeOK, Plans
  <2> QED BY <1>0, <1>6, <2>1 DEF TypeInv, TypeOK, Prepare, store, memory
<1>7. CASE Admit
  <2>1. admission' \in [Releases -> Admissions]
    BY <1>0, <1>7 DEF Admit, ProjectAdmission, DoingOK, Admissions, Grants
  <2>2. version' \in Nat
    BY <1>0, <1>7 DEF Admit, Committed, TypeInv, TypeOK
  <2> QED BY <1>0, <1>7, <2>1, <2>2 DEF TypeInv, TypeOK, Admit, outside, Admissions, Idle
<1>8. ASSUME NEW plan \in plans, Approve(plan) PROVE TypeInv'
  <2>1. nonces' \in [Nonces -> Plans \cup {NoPlan}]
    BY <1>0, <1>8 DEF Approve, Claims, TypeInv, TypeOK
  <2> QED BY <1>0, <1>8, <2>1 DEF TypeInv, TypeOK, Approve, outside
<1>9. ASSUME NEW plan \in plans, AuthorizeDistribution(plan) PROVE TypeInv'
  <2>1. nonces' \in [Nonces -> Plans \cup {NoPlan}]
    BY <1>0, <1>9 DEF AuthorizeDistribution, Claims, TypeInv, TypeOK
  <2>2. dispatches' \subseteq [plan : Plans, live : BOOLEAN]
    <3>1. plan \in Plans /\ dispatches \subseteq [plan : Plans, live : BOOLEAN]
      BY <1>0, <1>9 DEF TypeInv, TypeOK
    <3>2. [plan |-> plan, live |-> TRUE] \in [plan : Plans, live : BOOLEAN]
      BY <3>1
    <3> QED BY <1>9, <3>1, <3>2 DEF AuthorizeDistribution
  <2> QED BY <1>0, <1>9, <2>1, <2>2 DEF TypeInv, TypeOK, AuthorizeDistribution, memory
<1>10. CASE Commit
  <2>1. package' \in [Packages -> States] /\ version' \in Nat /\ doing'.op \in {"none", "show"}
    <3>1. CASE Committable(doing.plan)
      <4>1. doing.plan.op \in Operations \ {"Distribute"} /\ doing.plan.release \in Releases
        BY <1>0, <1>10 DEF Commit, DoingOK, Sound, Plans
      <4>2. Target(doing.plan.op) \in Lifecycle
        BY <4>1 DEF Target, Operations, Lifecycle
      <4>3. package' \in [Packages -> States]
        BY <1>0, <1>10, <3>1, <4>1, <4>2 DEF Commit, ProjectState, States
      <4>4. doing' = [doing EXCEPT !.op = "show"]
        BY <1>10, <3>1 DEF Commit
      <4>5. doing'.op = "show"
        BY <1>0, <1>10, <4>4 DEF Commit, DoingOK
      <4> QED BY <1>0, <1>10, <3>1, <4>3, <4>5 DEF Commit, Committed, TypeInv, TypeOK
    <3>2. CASE ~Committable(doing.plan)
      BY <1>0, <1>10, <3>2 DEF Commit, TypeInv, TypeOK, Idle
    <3> QED BY <3>1, <3>2
  <2> QED BY <1>0, <1>10, <2>1 DEF TypeInv, TypeOK, Commit, outside, States
<1>11. CASE Show
  <2>1. doing.plan.release \in Releases
    BY <1>0, <1>11 DEF Show, DoingOK, Sound, Plans
  <2>2. active' \in [Packages -> Releases \cup {NoRelease}] /\ generations' \in [Packages -> Nat]
    BY <1>0, <1>11, <2>1 DEF Show, Put, TypeInv, TypeOK, States
  <2> QED BY <1>0, <1>11, <2>2 DEF TypeInv, TypeOK, Show, store, outside, Idle
<1>12. ASSUME NEW d \in dispatches, FenceLease(d) PROVE TypeInv'
  <2>1. dispatches' \subseteq [plan : Plans, live : BOOLEAN] /\ faults' \in 0..MaxFaults
    <3>1. d \in [plan : Plans, live : BOOLEAN] /\ dispatches \subseteq [plan : Plans, live : BOOLEAN]
      BY <1>0, <1>12 DEF TypeInv, TypeOK
    <3>2. [d EXCEPT !.live = FALSE] \in [plan : Plans, live : BOOLEAN]
      BY <3>1
    <3>3. dispatches' = (dispatches \ {d}) \cup {[d EXCEPT !.live = FALSE]}
      BY <1>12 DEF FenceLease
    <3>4. faults' \in 0..MaxFaults
      BY <1>0, <1>12 DEF FenceLease, Fault, TypeInv, TypeOK
    <3> QED BY <3>1, <3>2, <3>3, <3>4
  <2> QED BY <1>0, <1>12, <2>1 DEF TypeInv, TypeOK, FenceLease, store, memory
<1>13. ASSUME NEW d \in dispatches, Receive(d) PROVE TypeInv'
  <2>1. d.plan \in Plans /\ d.plan.release \in Releases
    BY <1>0, <1>13 DEF TypeInv, TypeOK, Plans
  <2>2. MaxOf({installed[x] : x \in Releases}) \in Nat
    BY <2>1, NextGeneration DEF Inv, TypeInv, TypeOK
  <2>3. ledger' \in [Releases -> Files] /\ installed' \in [Releases -> Nat] /\ faults' \in 0..MaxFaults
    <3>1. /\ ledger \in [Releases -> Files] /\ installed \in [Releases -> Nat] /\ faults \in 0..MaxFaults
          /\ d.plan \in Files /\ TornBundle \in Files /\ TornRecord \in Files
      BY <1>0, <2>1 DEF TypeInv, TypeOK, Files
    <3>2. faults' \in 0..MaxFaults
      BY <1>13, <3>1 DEF Receive, Installs, Fault
    <3>3. \E f \in Files : ledger' = [ledger EXCEPT ![d.plan.release] = f]
      BY <1>13, <3>1 DEF Receive, Installs
    <3>4. installed' \in [Releases -> Nat]
      BY <1>13, <2>1, <2>2, <3>1 DEF Receive, Installs
    <3> QED BY <3>1, <3>2, <3>3, <3>4
  <2> QED BY <1>0, <1>13, <2>3 DEF TypeInv, TypeOK, Receive, store, memory
<1>14. ASSUME NEW d \in dispatches, Attempt(d) PROVE TypeInv'
  BY <1>0, <1>14 DEF TypeInv, TypeOK, Attempt, Attempted, outside
<1>15. CASE Record
  BY <1>0, <1>15 DEF TypeInv, TypeOK, Record, Recordable, ProjectDistribution, Committed, outside, Idle
<1>16. CASE Crash
  BY <1>0, <1>16 DEF TypeInv, TypeOK, Crash, Fault, store, outside, Idle
<1>17. ASSUME NEW keys \in SUBSET Publishers, Boot(keys) PROVE TypeInv'
  <2>1. active' \in [Packages -> Releases \cup {NoRelease}] /\ generations' \in [Packages -> Nat]
    BY <1>0, <1>17 DEF Boot, TypeInv, TypeOK, States
  <2> QED BY <1>0, <1>17, <2>1 DEF TypeInv, TypeOK, Boot, store, outside
<1>18. CASE UNCHANGED vars
  BY <1>0, <1>18 DEF TypeInv, TypeOK, vars, store, memory, outside
<1> QED BY <1>1, <1>2, <1>3, <1>4, <1>5, <1>6, <1>7, <1>8, <1>9, <1>10, <1>11, <1>12, <1>13, <1>14, <1>15,
           <1>16, <1>17, <1>18 DEF Next

-----------------------------------------------------------------------------
(* The operation under control_lock                                        *)

\* A step that ends the operation, or starts none.
LEMMA NothingDone ==
  ASSUME doing' = Idle
  PROVE  DoingOK'
BY DEF DoingOK, Idle

\* Attempt, Commit: an operation moves on to its next step.
LEMMA NextDoing ==
  ASSUME NEW op, NEW plan, doing' = [op |-> op, plan |-> plan]
  PROVE  doing'.op = op /\ doing'.plan = plan
OBVIOUS

\* What an approved plan was checked against at apply_change.
LEMMA ApplicableIsSound ==
  ASSUME Inv, NEW plan \in plans, plan.op # "Distribute", Applicable(plan)
  PROVE  Sound(plan) /\ Requested(plan.op, plan.release)
BY DEF Applicable, Sound, CurrentGrant, Verifiable, Active, Inv, TypeInv, TypeOK

\* What the owner, the clock and the executor do beside an operation leaves
\* it as it is.
LEMMA DoingBeside ==
  ASSUME Inv, UNCHANGED <<doing, process, admission, package, bundles, nonces>>,
         grant' = grant \/ \E p \in Publishers : grant' = [grant EXCEPT ![p].expired = TRUE],
         \A r \in Releases : ledger[r] \in Plans => ledger'[r] = ledger[r]
  PROVE  DoingOK'
<1>1. TypeInv /\ DoingOK /\ grant \in [Publishers -> Grants]
  BY DEF Inv, TypeInv
<1>2. \A p \in Publishers : grant'[p].status = grant[p].status
  BY <1>1 DEF Grants
<1>3. doing.op \in {"change", "show"} => Sound(doing.plan)'
  <2>1. ASSUME doing.op \in {"change", "show"} PROVE Sound(doing.plan)'
    <3>1. Sound(doing.plan) /\ doing.plan.release \in Releases
      BY <1>1, <2>1 DEF DoingOK, Sound, Plans
    <3>2. PublisherOf[doing.plan.release] \in Publishers
      BY <3>1, Facts
    <3> QED BY <1>2, <3>1, <3>2 DEF Sound
  <2> QED BY <2>1
<1>4. doing.op = "change" => Requested(doing.plan.op, doing.plan.release)'
  BY <1>1 DEF DoingOK, Requested
<1>5. ASSUME doing.op = "record"
      PROVE  /\ doing.plan.plan \in Plans
             /\ ledger'[doing.plan.plan.release] = doing.plan.plan /\ Claimed(doing.plan.plan)'
  <2>1. doing.plan.plan \in Plans /\ ledger[doing.plan.plan.release] = doing.plan.plan /\ Claimed(doing.plan.plan)
    BY <1>1, <1>5 DEF DoingOK
  <2>2. doing.plan.plan.release \in Releases
    BY <2>1 DEF Plans
  <2> QED BY <2>1, <2>2 DEF Claimed
<1>6. doing.op = "fence" => doing.plan \in Publishers /\ grant'[doing.plan].status = "revoked"
  BY <1>1, <1>2 DEF DoingOK
<1> QED BY <1>1, <1>3, <1>4, <1>5, <1>6 DEF DoingOK, Sound, Requested, Claimed

\* Every operation keeps what it has established until it ends.
LEMMA DoingStep ==
  ASSUME Inv, [Next]_vars
  PROVE  DoingOK'
<1>0. TypeInv /\ DoingOK /\ DistributionsOK
  BY DEF Inv
<1>1. ASSUME doing' = Idle PROVE DoingOK'
  BY <1>1, NothingDone
<1>2. ASSUME NEW p \in Publishers, Expire(p) PROVE DoingOK'
  BY <1>2, DoingBeside DEF Expire, memory, outside
<1>3. ASSUME NEW d \in dispatches, FenceLease(d) PROVE DoingOK'
  BY <1>3, DoingBeside DEF FenceLease, store, memory
<1>4. ASSUME NEW d \in dispatches, Receive(d) PROVE DoingOK'
  <2>1. ledger[d.plan.release] = NoPlan
    BY <1>4 DEF Receive, Installs
  <2>2. ledger \in [Releases -> Files] /\ d.plan.release \in Releases
    BY <1>0, <1>4 DEF TypeInv, TypeOK, Plans
  <2>3. \A r \in Releases : r # d.plan.release => ledger'[r] = ledger[r]
    BY <1>4, <2>2 DEF Receive, Installs
  <2>4. \A r \in Releases : ledger[r] \in Plans => ledger'[r] = ledger[r]
    BY <2>1, <2>3, Facts
  <2> QED BY <1>4, <2>4, DoingBeside DEF Receive, store, memory
<1>5. CASE UNCHANGED vars
  BY <1>5, DoingBeside DEF vars, store, memory, outside
<1>6. ASSUME NEW p \in Publishers, NEW status \in {"active", "revoked"}, NEW scope \in Scopes, Provision(p, status, scope)
      PROVE  DoingOK'
  <2>1. CASE status = "active"
    BY <1>1, <1>6, <2>1 DEF Provision
  <2>2. CASE status = "revoked"
    <3>1. doing' = [op |-> "fence", plan |-> p] /\ process' = "up"
      BY <1>6, <2>2 DEF Provision, Free
    <3>2. grant'[p].status = "revoked"
      BY <1>0, <1>6, <2>2 DEF Provision, ProjectGrant, TypeInv
    <3> QED BY <3>1, <3>2 DEF DoingOK
  <2> QED BY <2>1, <2>2
<1>7. ASSUME NEW r \in Releases, Archive(r) PROVE DoingOK'
  BY <1>7 DEF Archive, Free, DoingOK
<1>8. ASSUME NEW plan \in plans, Approve(plan) PROVE DoingOK'
  <2>1. doing' = [op |-> "change", plan |-> plan] /\ process' = "up" /\ UNCHANGED <<admission, bundles, grant, package>>
    BY <1>8 DEF Approve, Free
  <2>2. Sound(plan) /\ Requested(plan.op, plan.release)
    BY <1>8, ApplicableIsSound DEF Approve
  <2>3. Sound(plan)' /\ Requested(plan.op, plan.release)'
    BY <2>1, <2>2 DEF Sound, Requested
  <2> QED BY <2>1, <2>3 DEF DoingOK, Sound, Requested
<1>9. CASE Commit
  <2>1. CASE Committable(doing.plan)
    <3>1. doing' = [doing EXCEPT !.op = "show"] /\ process' = "up" /\ UNCHANGED <<admission, bundles, grant>>
      BY <1>9, <2>1 DEF Commit
    <3>2. Sound(doing.plan)
      BY <1>0, <1>9 DEF Commit, DoingOK
    <3>3. doing'.op = "show" /\ doing'.plan = doing.plan
      BY <1>0, <1>9, <3>1 DEF Commit, TypeInv, TypeOK
    <3>4. doing' = [op |-> "show", plan |-> doing.plan]
      BY <1>0, <3>1, <3>3 DEF DoingOK
    <3>5. Sound(doing.plan)'
      BY <3>1, <3>2, <3>3 DEF Sound
    <3> QED BY <3>1, <3>3, <3>4, <3>5 DEF DoingOK
  <2>2. CASE ~Committable(doing.plan)
    BY <1>1, <1>9, <2>2 DEF Commit
  <2> QED BY <2>1, <2>2
<1>10. ASSUME NEW d \in dispatches, Attempt(d) PROVE DoingOK'
  <2>1. d.plan \in Plans /\ ledger[d.plan.release] = d.plan /\ Claimed(d.plan)
    BY <1>0, <1>10 DEF Attempt, Proven, DistributionsOK, TypeInv, TypeOK
  <2>2. doing' = [op |-> "record", plan |-> d] /\ process' = "up" /\ UNCHANGED <<ledger, nonces>>
    BY <1>10 DEF Attempt, Free, outside
  <2> QED BY <2>1, <2>2 DEF DoingOK, Claimed
<1>11. ASSUME \/ \E p \in Publishers : ConfigureKey(p)
              \/ FencePackages \/ Admit \/ Show \/ Record \/ Crash
              \/ \E r \in Releases, op \in Operations : Prepare(op, r)
              \/ \E plan \in plans : AuthorizeDistribution(plan)
              \/ \E keys \in SUBSET Publishers : Boot(keys)
       PROVE  doing' = Idle
  BY <1>0, <1>11 DEF ConfigureKey, FencePackages, Admit, Show, Record, Crash, Prepare, AuthorizeDistribution,
     Boot, Free, memory, DoingOK
<1> QED BY <1>1, <1>2, <1>3, <1>4, <1>5, <1>6, <1>7, <1>8, <1>9, <1>10, <1>11 DEF Next

-----------------------------------------------------------------------------
(* Packages, distributions, installations                                  *)

\* What a committed change does to its package.
LEMMA CommitChanges ==
  ASSUME Inv, Commit, Committable(doing.plan)
  PROVE  LET plan == doing.plan
             k == PackageOf[plan.release]
         IN /\ plan \in Plans /\ plan.op \in Operations \ {"Distribute"} /\ plan.release \in Releases /\ k \in Packages
            /\ Sound(plan) /\ Requested(plan.op, plan.release)
            /\ package'[k].state = Target(plan.op) /\ package'[k].release = plan.release
            /\ package'[k].generation = package[k].generation + 1
            /\ \A j \in Packages : j # k => package'[j] = package[j]
            /\ package[k].state # "Revoked" /\ version' = version + 1
            /\ doing'.op = "show" /\ doing'.plan = plan
            /\ UNCHANGED <<grant, admission, bundles, nonces, attempts, distributions,
                           process, keyring, active, generations, outside, faults>>
<1> DEFINE plan == doing.plan
           k == PackageOf[plan.release]
<1>1. /\ Sound(plan) /\ Requested(plan.op, plan.release) /\ plan \in Plans /\ plan.op # "Distribute"
      /\ package \in [Packages -> States]
  BY DEF Inv, TypeInv, DoingOK, Commit, Sound
<1>2. plan.op \in Operations /\ plan.release \in Releases
  BY <1>1 DEF Plans
<1>3. k \in Packages
  BY <1>2, Facts
<1>4. package' = [package EXCEPT ![k] = [state |-> Target(plan.op), release |-> plan.release, generation |-> @.generation + 1]]
  BY DEF Commit, ProjectState
<1>5. /\ package'[k].state = Target(plan.op) /\ package'[k].release = plan.release
      /\ package'[k].generation = package[k].generation + 1
      /\ \A j \in Packages : j # k => package'[j] = package[j]
  BY <1>1, <1>3, <1>4
<1>6. package[k].state # "Revoked" /\ version' = version + 1
  BY DEF Commit, Committable, Committed
<1>7. doing'.op = "show" /\ doing'.plan = plan
  <2>1. doing' = [doing EXCEPT !.op = "show"]
    BY DEF Commit
  <2>2. doing = [op |-> doing.op, plan |-> doing.plan]
    BY DEF Inv, DoingOK
  <2> QED BY <2>1, <2>2
<1> QED BY <1>1, <1>2, <1>3, <1>5, <1>6, <1>7 DEF Commit

\* What the other steps may do to packages, bundles and admissions.
LEMMA PackagesKept ==
  ASSUME Inv, [Next]_vars, ~Commit
  PROVE  /\ package' = package /\ bundles \subseteq bundles'
         /\ \A r \in Releases : admission[r].grant # 0 => admission'[r] = admission[r]
<1>1. CASE \E r \in Releases : Archive(r)
  BY <1>1 DEF Archive, Keep
<1>2. CASE Admit
  <2>1. admission \in [Releases -> Admissions] /\ doing.plan \in Releases
    BY <1>2 DEF Inv, TypeInv, DoingOK, Admit
  <2> QED BY <1>2, <2>1 DEF Admit, Admissible, ProjectAdmission
<1> QED BY <1>1, <1>2 DEF Next, vars, store, memory, outside, ConfigureKey, Expire, Provision, FencePackages, Prepare,
           Approve, AuthorizeDistribution, Show, FenceLease, Receive, Attempt, Record, Crash, Boot

\* An enabled package can always be rebuilt.
LEMMA PackagesStep ==
  ASSUME Inv, [Next]_vars
  PROVE  PackagesOK'
<1>0. TypeInv /\ PackagesOK /\ package \in [Packages -> States]
  BY DEF Inv, TypeInv
<1>1. CASE ~Commit
  BY <1>0, <1>1, PackagesKept DEF PackagesOK, EnabledIsRebuildable, Enabled
<1>2. CASE Commit /\ Committable(doing.plan)
  <2> DEFINE k == PackageOf[doing.plan.release]
  <2>1. /\ doing.plan.op \in Operations \ {"Distribute"} /\ doing.plan.release \in Releases /\ k \in Packages
        /\ doing.plan.release \in bundles /\ admission[doing.plan.release].grant # 0
        /\ package'[k].state = Target(doing.plan.op) /\ package'[k].release = doing.plan.release
        /\ \A j \in Packages : j # k => package'[j] = package[j]
        /\ UNCHANGED <<admission, bundles>>
    BY <1>2, CommitChanges DEF Sound
  <2>2. Target(doing.plan.op) # "Admitted"
    BY <2>1 DEF Target, Operations
  <2> HIDE DEF k
  <2> QED BY <1>0, <2>1, <2>2 DEF PackagesOK, EnabledIsRebuildable, Enabled
<1>3. CASE Commit /\ ~Committable(doing.plan)
  BY <1>0, <1>3 DEF PackagesOK, EnabledIsRebuildable, Enabled, Commit
<1> QED BY <1>1, <1>2, <1>3

\* A claimed nonce stays with its plan.
LEMMA NoncesKept ==
  ASSUME Inv, [Next]_vars
  PROVE  \A n \in Nonces : nonces[n] # NoPlan => nonces'[n] = nonces[n]
<1>1. ASSUME NEW plan, Claims(plan) PROVE \A n \in Nonces : nonces[n] # NoPlan => nonces'[n] = nonces[n]
  <2>1. (CHOOSE n \in Fresh : TRUE) \in Fresh
    BY <1>1 DEF Claims
  <2> QED BY <1>1, <2>1 DEF Claims, Fresh, Inv, TypeInv
<1>2. CASE \E plan \in plans : Approve(plan) \/ AuthorizeDistribution(plan)
  BY <1>1, <1>2 DEF Approve, AuthorizeDistribution
<1> QED BY <1>2 DEF Next, vars, store, memory, outside, ConfigureKey, Expire, Provision, FencePackages, Prepare, Archive, Admit,
           Commit, Show, FenceLease, Receive, Attempt, Record, Crash, Boot

\* FileCapabilityPackageLedger::install: what was recorded once is never
\* recorded again, and the next record has the next generation.
LEMMA LedgerStep ==
  ASSUME Inv, [Next]_vars
  PROVE  LedgerIsImmutable /\ InstalledOK'
<1>1. /\ ledger \in [Releases -> Files] /\ installed \in [Releases -> Nat] /\ InstalledOK
      /\ dispatches \subseteq [plan : Plans, live : BOOLEAN]
  BY DEF Inv, TypeInv, TypeOK
<1>2. CASE UNCHANGED <<ledger, installed>>
  BY <1>1, <1>2 DEF LedgerIsImmutable, InstalledOK
<1>3. ASSUME NEW d \in dispatches, Receive(d) PROVE LedgerIsImmutable /\ InstalledOK'
  <2> DEFINE r == d.plan.release
             last == MaxOf({installed[x] : x \in Releases})
  <2>1. r \in Releases
    BY <1>1 DEF Plans
  <2>2. last \in Nat /\ \A x \in Releases : installed[x] <= last
    BY <1>1, <2>1, NextGeneration
  <2> HIDE DEF last
  <2>3. ledger[r] \notin Plans /\ \A x \in Releases : x # r => ledger'[x] = ledger[x]
    BY <1>1, <1>3, <2>1, Facts DEF Receive, Installs
  <2>4. \/ installed' = installed
        \/ installed'[r] = last + 1 /\ \A x \in Releases : x # r => installed'[x] = installed[x]
    BY <1>1, <1>3, <2>1 DEF Receive, Installs, last
  <2>5. LedgerIsImmutable
    BY <1>1, <2>1, <2>2, <2>3, <2>4 DEF LedgerIsImmutable
  <2>6. InstalledOK'
    BY <1>1, <2>1, <2>2, <2>4 DEF InstalledOK
  <2> QED BY <2>5, <2>6
<1> QED BY <1>2, <1>3 DEF Next, vars, store, memory, outside, ConfigureKey, Expire, Provision, FencePackages, Prepare, Archive,
           Admit, Approve, AuthorizeDistribution, Commit, Show, FenceLease, Attempt, Record, Crash, Boot

\* A recorded distribution keeps its proof: its nonce and its record.
LEMMA DistributionsStep ==
  ASSUME Inv, [Next]_vars
  PROVE  DistributionsOK'
<1>0. /\ TypeInv /\ DoingOK /\ DistributionsOK /\ nonces \in [Nonces -> Plans \cup {NoPlan}]
      /\ dispatches \subseteq [plan : Plans, live : BOOLEAN] /\ distributions \subseteq Plans
  BY DEF Inv, TypeInv, TypeOK
<1>1. \A plan \in Plans : Claimed(plan) => Claimed(plan)'
  BY NoncesKept, Facts DEF Claimed
<1>2. \A plan \in Plans : ledger[plan.release] = plan => ledger'[plan.release] = plan
  <2>1. \A plan \in Plans : plan.release \in Releases
    BY DEF Plans
  <2> QED BY <2>1, LedgerStep DEF LedgerIsImmutable
<1>3. \A plan \in distributions' : plan \in Plans /\ ledger[plan.release] = plan /\ Claimed(plan)
  <2>1. \A plan \in distributions : plan \in Plans /\ ledger[plan.release] = plan /\ Claimed(plan)
    BY <1>0 DEF DistributionsOK, DistributionIsProven, Claimed
  <2>2. CASE Record
    BY <1>0, <2>1, <2>2 DEF Record, ProjectDistribution, DoingOK
  <2> QED BY <2>1, <2>2 DEF Next, vars, store, memory, outside, ConfigureKey, Expire, Provision, FencePackages, Prepare,
             Archive, Admit, Approve, AuthorizeDistribution, Commit, Show, FenceLease, Receive, Attempt, Crash, Boot
<1>4. \A d \in dispatches' : d.plan \in Plans /\ Claimed(d.plan)'
  <2>1. \A d \in dispatches : d.plan \in Plans /\ Claimed(d.plan)'
    BY <1>0, <1>1 DEF DistributionsOK
  <2>2. ASSUME NEW plan \in plans, AuthorizeDistribution(plan) PROVE \A d \in dispatches' : d.plan \in Plans /\ Claimed(d.plan)'
    <3>1. plan \in Plans /\ Claims(plan) /\ dispatches' = dispatches \cup {[plan |-> plan, live |-> TRUE]}
      BY <1>0, <2>2 DEF AuthorizeDistribution, TypeInv, TypeOK
    <3>2. \E n \in Nonces : nonces'[n] = plan
      <4>1. (CHOOSE n \in Fresh : TRUE) \in Fresh
        BY <3>1 DEF Claims
      <4> QED BY <1>0, <3>1, <4>1 DEF Claims, Fresh
    <3>3. Claimed(plan)'
      BY <3>2 DEF Claimed
    <3>4. \A d \in dispatches' : d \in dispatches \/ d.plan = plan
      BY <3>1
    <3> QED BY <2>1, <3>1, <3>3, <3>4 DEF Claimed
  <2>3. ASSUME NEW d \in dispatches, FenceLease(d) PROVE \A e \in dispatches' : e.plan \in Plans /\ Claimed(e.plan)'
    <3>1. dispatches' = (dispatches \ {d}) \cup {[d EXCEPT !.live = FALSE]} /\ d \in [plan : Plans, live : BOOLEAN]
      BY <1>0, <2>3 DEF FenceLease
    <3>2. [d EXCEPT !.live = FALSE].plan = d.plan
      BY <3>1
    <3>3. \A e \in dispatches' : e \in dispatches \/ e.plan = d.plan
      BY <3>1, <3>2
    <3> QED BY <2>1, <3>3 DEF Claimed
  <2> QED BY <2>1, <2>2, <2>3 DEF Next, vars, store, memory, outside, ConfigureKey, Expire, Provision, FencePackages, Prepare,
             Archive, Admit, Approve, Commit, Show, Receive, Attempt, Record, Crash, Boot
<1>5. DistributionIsProven'
  BY <1>1, <1>2, <1>3 DEF DistributionIsProven, Claimed
<1> QED BY <1>4, <1>5 DEF DistributionsOK

\* Every step preserves the invariant.
LEMMA NextInv == Inv /\ [Next]_vars => Inv'
BY TypeStep, DoingStep, PackagesStep, DistributionsStep, LedgerStep DEF Inv

\* The invariant of the ecosystem: what the operation in progress has
\* established is still so, what is enabled can be rebuilt, and what was
\* distributed is proven.
THEOREM InvHolds == Spec => []Inv
BY InitInv, NextInv, PTL DEF Spec

-----------------------------------------------------------------------------
(* Nothing is undone                                                       *)

\* append_ecosystem_event: after its revocation nothing of a publisher
\* moves, and a revoked package stays revoked.
LEMMA RevocationStep ==
  ASSUME Inv, [Next]_vars
  PROVE  RevocationIsFinal
<1>0. /\ TypeInv /\ DoingOK /\ admission \in [Releases -> Admissions] /\ package \in [Packages -> States]
      /\ dispatches \subseteq [plan : Plans, live : BOOLEAN]
  BY DEF Inv, TypeInv, TypeOK
<1>1. CASE UNCHANGED <<admission, package, distributions>>
  BY <1>1 DEF RevocationIsFinal
<1>2. CASE Admit
  <2>1. \A r \in Releases : grant[PublisherOf[r]].status = "revoked" => admission'[r] = admission[r]
    BY <1>0, <1>2 DEF Admit, Admissible, Active, ProjectAdmission
  <2> QED BY <1>2, <2>1 DEF RevocationIsFinal, Admit
<1>3. CASE Record
  <2>1. \A plan \in distributions' \ distributions : grant[PublisherOf[plan.release]].status = "active"
    BY <1>3 DEF Record, Recordable, ProjectDistribution
  <2> QED BY <1>3, <2>1 DEF RevocationIsFinal, Record
<1>4. CASE Commit
  <2>1. CASE ~Committable(doing.plan)
    BY <1>1, <1>4, <2>1 DEF Commit
  <2>2. CASE Committable(doing.plan)
    <3> DEFINE plan == doing.plan
               k == PackageOf[plan.release]
    <3>1. /\ plan.release \in Releases /\ grant[PublisherOf[plan.release]].status = "active"
          /\ package'[k].release = plan.release /\ package[k].state # "Revoked"
          /\ \A j \in Packages : j # k => package'[j] = package[j]
          /\ UNCHANGED <<admission, distributions>>
      BY <1>4, <2>2, CommitChanges DEF Sound
    <3> HIDE DEF plan, k
    <3>2. ASSUME NEW r \in Releases, grant[PublisherOf[r]].status = "revoked", package'[PackageOf[r]] # package[PackageOf[r]]
          PROVE  package'[PackageOf[r]].release # r
      <4>1. PackageOf[r] \in Packages
        BY Facts
      <4> QED BY <3>1, <3>2, <4>1
    <3> QED BY <3>1, <3>2 DEF RevocationIsFinal
  <2> QED BY <2>1, <2>2
<1> QED BY <1>1, <1>2, <1>3, <1>4 DEF Next, vars, store, memory, outside, ConfigureKey, Expire, Provision, FencePackages,
           Prepare, Archive, Approve, AuthorizeDistribution, Show, FenceLease, Receive, Attempt, Crash, Boot

\* append_ecosystem_event, EcosystemExecutor::install: neither a revocation
\* nor a ledger entry is ever undone.
THEOREM NothingIsEverUndone == Spec => NothingIsUndone
<1>1. Inv /\ [Next]_vars => RevocationIsFinal /\ LedgerIsImmutable
  BY RevocationStep, LedgerStep
<1> QED BY <1>1, InvHolds, PTL DEF Spec, NothingIsUndone

-----------------------------------------------------------------------------
(* The lifecycle of packages                                               *)

\* prepare_change and the committing transaction together allow exactly the
\* changes of the documented lifecycle.
THEOREM LifecycleIsFollowed == Spec => FollowsLifecycle
<1>1. Init => Governed!Init
  BY DEF Init, Governed!Init
<1>2. ASSUME Inv, [Next]_vars PROVE [Governed!Next]_Governed!vars
  <2>1. CASE UNCHANGED package
    BY <2>1 DEF Governed!vars
  <2>2. CASE Commit /\ Committable(doing.plan)
    <3>1. PICK k \in Packages, r \in Releases, op \in Operations \ {"Distribute"} :
            /\ Requested(op, r) /\ PackageOf[r] = k
            /\ package'[k].state = Target(op) /\ package'[k].release = r
            /\ package'[k].generation = package[k].generation + 1
            /\ \A j \in Packages : j # k => package'[j] = package[j]
            /\ package[k].state # "Revoked" /\ op = doing.plan.op /\ r = doing.plan.release
      BY <1>2, <2>2, CommitChanges
    <3>2. op = "Revoke" => package[k].release \in {r, NoRelease}
      BY <2>2, <3>1 DEF Committable, Target
    <3>3. /\ [j \in Packages |-> package'[j].state] = [[j \in Packages |-> package[j].state] EXCEPT ![k] = Target(op)]
          /\ [j \in Packages |-> package'[j].release] = [[j \in Packages |-> package[j].release] EXCEPT ![k] = r]
          /\ [j \in Packages |-> package'[j].generation] = [[j \in Packages |-> package[j].generation] EXCEPT ![k] = @ + 1]
          /\ PackageOf[r] = k
      BY <3>1
    <3>4. /\ [j \in Packages |-> package[j].state][k] = package[k].state
          /\ [j \in Packages |-> package[j].release][k] = package[k].release
      OBVIOUS
    <3>5. ASSUME op = "Install" PROVE Governed!Next
      <4>1. Target(op) = "Installed" /\ package[k].state = "Admitted"
        BY <3>1, <3>5 DEF Requested, Target
      <4>2. Governed!Install(k, r)
        BY <3>3, <3>4, <4>1 DEF Governed!Install, Governed!Changes
      <4> QED BY <4>2 DEF Governed!Next
    <3>6. ASSUME op = "Enable" PROVE Governed!Next
      <4>1. Target(op) = "Enabled" /\ package[k].state \in {"Installed", "Disabled"} /\ package[k].release = r
        BY <3>1, <3>6 DEF Requested, Target
      <4>2. Governed!Enable(k)
        BY <3>3, <3>4, <4>1 DEF Governed!Enable, Governed!Changes
      <4> QED BY <4>2 DEF Governed!Next
    <3>7. ASSUME op = "Disable" PROVE Governed!Next
      <4>1. Target(op) = "Disabled" /\ package[k].state = "Enabled" /\ package[k].release = r
        BY <3>1, <3>7 DEF Requested, Target
      <4>2. Governed!Disable(k)
        BY <3>3, <3>4, <4>1 DEF Governed!Disable, Governed!Changes
      <4> QED BY <4>2 DEF Governed!Next
    <3>8. ASSUME op = "Update" PROVE Governed!Next
      <4>1. Target(op) = "Enabled" /\ package[k].state = "Enabled" /\ package[k].release # r
        BY <3>1, <3>8 DEF Requested, Target
      <4>2. Governed!Switch(k, r)
        BY <3>3, <3>4, <4>1 DEF Governed!Switch, Governed!Changes
      <4> QED BY <4>2 DEF Governed!Next
    <3>9. ASSUME op = "Revoke" PROVE Governed!Next
      <4>1. Target(op) = "Revoked" /\ package[k].state # "Revoked" /\ package[k].release \in {r, NoRelease}
        BY <3>1, <3>2, <3>9 DEF Requested, Target
      <4>2. Governed!Revoke(k, r)
        BY <3>3, <3>4, <4>1 DEF Governed!Revoke, Governed!Changes
      <4> QED BY <4>2 DEF Governed!Next
    <3> QED BY <3>5, <3>6, <3>7, <3>8, <3>9 DEF Operations
  <2>3. CASE Commit /\ ~Committable(doing.plan)
    BY <2>1, <2>3 DEF Commit
  <2> QED BY <1>2, <2>1, <2>2, <2>3, PackagesKept
<1> QED BY <1>1, <1>2, InvHolds, PTL DEF Spec, FollowsLifecycle, Governed!Spec

-----------------------------------------------------------------------------
(* The registry                                                            *)

\* What the registry knows of a package that is not being changed.
Shown(k) ==
  /\ k \in Enabled /\ ~Revoked(k) => active[k] = package[k].release
  /\ active[k] # NoRelease =>
       k \in Enabled /\ active[k] = package[k].release /\ generations[k] = package[k].generation
  /\ generations[k] # 0 /\ package[k].state # "Revoked" => generations[k] = package[k].generation

\* Commit, Show: the change is stored, and the registry is one behind.
Pending(k) ==
  /\ Follows(k) /\ package[k].release = doing.plan.release /\ package[k].state # "Admitted"
  /\ package[k].state = "Disabled" => active[k] # NoRelease
  /\ package[k].state = "Installed" => active[k] = NoRelease /\ generations[k] = 0

\* A shown package of a revoked publisher is one that the revocation does not
\* list, or has still to take away.
Tolerated(k) ==
  LET p == PublisherOf[package[k].release]
  IN ~Listed(k, grant[p].scope) \/ (doing.op = "fence" /\ doing.plan = p)

Changing(k) == doing.op = "show" /\ k = PackageOf[doing.plan.release]

RegistryOK ==
  process = "up" =>
    \A k \in Packages :
      /\ ~Changing(k) => Shown(k)
      /\ Changing(k) => Pending(k)
      /\ active[k] # NoRelease /\ Revoked(k) => Tolerated(k)

\* Every operation that changes neither packages nor what is shown of them.
LEMMA RegistryKept ==
  ASSUME Inv, RegistryOK, UNCHANGED <<package, active, generations>>, process' = "up" => process = "up",
         \A p \in Publishers : grant'[p].status = grant[p].status /\ grant'[p].scope = grant[p].scope,
         \A r \in Releases : admission[r].grant # 0 => admission'[r] = admission[r],
         doing' = doing \/ (doing.op \notin {"show", "fence"} /\ doing'.op \notin {"show", "fence"})
  PROVE  RegistryOK'
<1> SUFFICES ASSUME process' = "up", NEW k \in Packages
             PROVE  /\ ~Changing(k)' => Shown(k)'
                    /\ Changing(k)' => Pending(k)'
                    /\ active'[k] # NoRelease /\ Revoked(k)' => Tolerated(k)'
  BY DEF RegistryOK
<1>1. /\ ~Changing(k) => Shown(k)
      /\ Changing(k) => Pending(k)
      /\ active[k] # NoRelease /\ Revoked(k) => Tolerated(k)
  BY DEF RegistryOK
<1>2. Changing(k)' <=> Changing(k)
  BY DEF Changing
<1>3. k \in Enabled => /\ package[k].release \in Releases /\ PublisherOf[package[k].release] \in Publishers
                       /\ admission[package[k].release].grant # 0
  BY Facts DEF Inv, PackagesOK, EnabledIsRebuildable
<1>4. k \in Enabled => (Revoked(k)' <=> Revoked(k))
  BY <1>3 DEF Revoked
<1>5. Shown(k) => Shown(k)'
  BY <1>4 DEF Shown, Enabled
<1>6. Pending(k) /\ doing' = doing => Pending(k)'
  BY DEF Pending, Follows
<1>7. active[k] # NoRelease /\ Revoked(k)' /\ k \in Enabled => Tolerated(k)'
  BY <1>1, <1>3, <1>4 DEF Tolerated, Listed
<1>8. Changing(k) => ~Revoked(k)'
  <2>1. ASSUME Changing(k) PROVE ~Revoked(k)'
    <3>1. package[k].release = doing.plan.release /\ Sound(doing.plan)
      BY <1>1, <2>1 DEF Changing, Pending, Inv, DoingOK
    <3>2. doing.plan.release \in Releases /\ PublisherOf[doing.plan.release] \in Publishers
      BY <3>1, Facts DEF Sound, Plans
    <3> QED BY <3>1, <3>2 DEF Sound, Revoked
  <2> QED BY <2>1
<1>9. active[k] # NoRelease /\ ~Changing(k) => k \in Enabled
  BY <1>1 DEF Shown
<1>10. Changing(k) => doing' = doing
  BY DEF Changing
<1> QED BY <1>1, <1>2, <1>5, <1>6, <1>7, <1>8, <1>9, <1>10

\* provision_publisher: only a revocation changes what the registry may show,
\* and it fences the publisher's packages next.
LEMMA RegistryProvisions ==
  ASSUME Inv, RegistryOK, NEW p \in Publishers, NEW status \in {"active", "revoked"}, NEW scope \in Scopes,
         Provision(p, status, scope)
  PROVE  RegistryOK'
<1> SUFFICES ASSUME NEW k \in Packages
             PROVE  /\ ~Changing(k)' => Shown(k)'
                    /\ Changing(k)' => Pending(k)'
                    /\ active'[k] # NoRelease /\ Revoked(k)' => Tolerated(k)'
  BY DEF RegistryOK
<1>1. /\ process = "up" /\ doing = Idle /\ UNCHANGED <<package, active, generations, admission>>
      /\ grant' = [grant EXCEPT ![p] = [version |-> @.version + 1, status |-> status, expired |-> FALSE, scope |-> scope]]
      /\ grant[p].status # "revoked"
      /\ doing' = IF status = "revoked" THEN [op |-> "fence", plan |-> p] ELSE Idle
      /\ grant \in [Publishers -> Grants]
  BY DEF Provision, Free, ProjectGrant, GrantFollows, Inv, TypeInv
<1>2. Shown(k) /\ (active[k] # NoRelease /\ Revoked(k) => Tolerated(k))
  BY <1>1 DEF RegistryOK, Changing, Idle
<1>3. ~Changing(k)'
  BY <1>1 DEF Changing, Idle
<1>4. k \in Enabled => package[k].release \in Releases /\ PublisherOf[package[k].release] \in Publishers
  BY Facts DEF Inv, PackagesOK
<1>5. \A q \in Publishers : q # p => grant'[q] = grant[q]
  BY <1>1
<1>6. grant'[p].status = status
  BY <1>1
<1>7. k \in Enabled /\ ~Revoked(k)' => ~Revoked(k)
  BY <1>1, <1>4, <1>5 DEF Revoked
<1>8. Shown(k)'
  BY <1>1, <1>2, <1>7 DEF Shown, Enabled
<1>9. ASSUME active'[k] # NoRelease, Revoked(k)' PROVE Tolerated(k)'
  <2> DEFINE q == PublisherOf[package[k].release]
  <2>1. q \in Publishers
    BY <1>1, <1>2, <1>4, <1>9 DEF Shown
  <2>2. CASE q = p
    BY <1>1, <1>6, <1>9, <2>2 DEF Tolerated, Revoked
  <2>3. CASE q # p
    <3>1. grant'[q] = grant[q] /\ Revoked(k)
      BY <1>1, <1>5, <1>9, <2>1, <2>3 DEF Revoked
    <3>2. ~Listed(k, grant[q].scope)
      BY <1>1, <1>2, <1>9, <3>1 DEF Tolerated, Idle
    <3> QED BY <1>1, <3>1, <3>2 DEF Tolerated, Listed
  <2> QED BY <2>2, <2>3
<1> QED BY <1>3, <1>8, <1>9

\* fence_publisher_packages: it takes away exactly what the revocation lists.
LEMMA RegistryFences ==
  ASSUME Inv, RegistryOK, FencePackages
  PROVE  RegistryOK'
<1> SUFFICES ASSUME NEW k \in Packages
             PROVE  /\ ~Changing(k)' => Shown(k)'
                    /\ Changing(k)' => Pending(k)'
                    /\ active'[k] # NoRelease /\ Revoked(k)' => Tolerated(k)'
  BY DEF RegistryOK
<1> DEFINE p == doing.plan
           Taken == Listed(k, grant[p].scope) /\ PublisherOf[package[k].release] = p
<1>1. /\ process = "up" /\ doing.op = "fence" /\ doing' = Idle /\ UNCHANGED <<package, generations, admission, grant>>
      /\ active'[k] = IF Taken THEN NoRelease ELSE active[k]
      /\ grant[p].status = "revoked"
  BY DEF FencePackages, store, Inv, DoingOK
<1>2. Shown(k) /\ (active[k] # NoRelease /\ Revoked(k) => Tolerated(k))
  BY <1>1 DEF RegistryOK, Changing
<1>3. ~Changing(k)'
  BY <1>1 DEF Changing, Idle
<1>4. Taken => Revoked(k)
  BY <1>1 DEF Revoked
<1>5. Shown(k)'
  BY <1>1, <1>2, <1>4 DEF Shown, Enabled, Revoked
<1>6. ASSUME active'[k] # NoRelease, Revoked(k)' PROVE Tolerated(k)'
  <2>1. ~Taken /\ active[k] # NoRelease /\ Revoked(k)
    BY <1>1, <1>6 DEF Revoked
  <2>2. ~Listed(k, grant[PublisherOf[package[k].release]].scope)
    BY <1>2, <2>1 DEF Tolerated
  <2> QED BY <1>1, <2>2 DEF Tolerated, Listed
<1> QED BY <1>3, <1>5, <1>6

\* Commit: the stored package moves one generation ahead of the registry.
LEMMA RegistryCommits ==
  ASSUME Inv, RegistryOK, Commit, Committable(doing.plan)
  PROVE  RegistryOK'
<1>1. PICK c \in Packages, plan \in Plans :
      /\ plan = doing.plan /\ c = PackageOf[plan.release]
      /\ plan.op \in Operations \ {"Distribute"} /\ plan.release \in Releases
      /\ Sound(plan) /\ Requested(plan.op, plan.release)
      /\ package'[c].state = Target(plan.op) /\ package'[c].release = plan.release
      /\ package'[c].generation = package[c].generation + 1
      /\ \A j \in Packages : j # c => package'[j] = package[j]
      /\ package[c].state # "Revoked" /\ doing'.op = "show" /\ doing'.plan = plan
      /\ UNCHANGED <<grant, admission, active, generations>>
  BY CommitChanges
<1>2. process = "up" /\ doing.op = "change"
  BY DEF Commit
<1>3. \A k \in Packages : Shown(k) /\ (active[k] # NoRelease /\ Revoked(k) => Tolerated(k))
  BY <1>2 DEF RegistryOK, Changing
<1>4. \A k \in Packages : Changing(k)' <=> k = c
  BY <1>1 DEF Changing
<1>5. /\ package[c].generation \in Nat /\ generations[c] \in Nat
      /\ (package[c].state = "Admitted" => package[c].generation = 0)
  BY <1>1 DEF Inv, TypeInv, TypeOK, PackagesOK, States
<1>6. grant[PublisherOf[plan.release]].status = "active"
  BY <1>1 DEF Sound
<1>7. package'[c].release = doing'.plan.release
  BY <1>1
<1>8. Pending(c)'
  <2>1. generations[c] = 0 \/ generations[c] = package[c].generation
    BY <1>1, <1>3 DEF Shown
  <2>2. Follows(c)'
    BY <1>1, <1>5, <2>1 DEF Follows
  <2>3. Target(plan.op) # "Admitted"
    BY <1>1 DEF Target, Operations
  <2>4. Target(plan.op) = "Disabled" => plan.op = "Disable"
    BY <1>1 DEF Target, Operations
  <2>5. Target(plan.op) = "Installed" => plan.op = "Install"
    BY <1>1 DEF Target, Operations
  <2>6. ASSUME plan.op = "Disable" PROVE active[c] # NoRelease
    <3>1. package[c].state = "Enabled" /\ package[c].release = plan.release
      BY <1>1, <2>6 DEF Requested
    <3>2. c \in Enabled /\ ~Revoked(c)
      BY <1>1, <1>6, <3>1 DEF Enabled, Revoked
    <3> QED BY <1>1, <1>3, <3>1, <3>2, Facts DEF Shown
  <2>7. ASSUME plan.op = "Install" PROVE active[c] = NoRelease /\ generations[c] = 0
    <3>1. package[c].state = "Admitted"
      BY <1>1, <2>7 DEF Requested
    <3> QED BY <1>1, <1>3, <1>5, <3>1 DEF Shown, Enabled
  <2> QED BY <1>1, <1>7, <2>2, <2>3, <2>4, <2>5, <2>6, <2>7 DEF Pending
<1>9. ~Revoked(c)'
  BY <1>1, <1>6 DEF Revoked
<1>10. ASSUME NEW k \in Packages, k # c PROVE Shown(k)' /\ (active'[k] # NoRelease /\ Revoked(k)' => Tolerated(k)')
  <2>1. package'[k] = package[k]
    BY <1>1, <1>10
  <2>2. Shown(k)'
    BY <1>1, <1>3, <2>1 DEF Shown, Enabled, Revoked
  <2> QED BY <1>1, <1>2, <1>3, <2>1, <2>2 DEF Tolerated, Listed, Revoked
<1> QED BY <1>4, <1>8, <1>9, <1>10 DEF RegistryOK

\* apply_registry_visibility: the registry has caught up.
LEMMA RegistryShows ==
  ASSUME Inv, RegistryOK, Show
  PROVE  RegistryOK'
<1>1. PICK r \in Releases, c \in Packages :
      /\ r = doing.plan.release /\ c = PackageOf[r]
      /\ process = "up" /\ doing.op = "show" /\ doing' = Idle /\ UNCHANGED <<package, admission, grant>>
      /\ Sound(doing.plan)
  BY Facts DEF Show, store, Inv, DoingOK, Sound, Plans
<1>2. Pending(c) /\ \A k \in Packages : k # c => Shown(k) /\ (active[k] # NoRelease /\ Revoked(k) => Tolerated(k))
  BY <1>1 DEF RegistryOK, Changing
<1>3. /\ active \in [Packages -> Releases \cup {NoRelease}] /\ generations \in [Packages -> Nat]
      /\ package[c].state \in Lifecycle
  BY <1>1 DEF Inv, TypeInv, TypeOK, States
<1>4. \A k \in Packages : k # c => active'[k] = active[k] /\ generations'[k] = generations[k]
  BY <1>1, <1>3 DEF Show, Put
<1>5. ~Revoked(c) /\ package[c].release = r
  BY <1>1, <1>2 DEF Revoked, Sound, Pending
<1>6. Shown(c)'
  <2>1. CASE package[c].state = "Enabled"
    <3>1. active'[c] = r /\ generations'[c] = package[c].generation
      BY <1>1, <1>2, <1>3, <2>1 DEF Show, Put, Pending
    <3> QED BY <1>1, <1>5, <2>1, <3>1 DEF Shown, Enabled
  <2>2. CASE package[c].state # "Enabled" /\ active[c] # NoRelease
    <3>1. package[c].state \in {"Disabled", "Revoked"}
      BY <1>2, <1>3, <2>2 DEF Pending, Lifecycle
    <3>2. active'[c] = NoRelease /\ generations'[c] = package[c].generation
      BY <1>1, <1>2, <1>3, <2>2, <3>1 DEF Show, Put, Disables, Pending
    <3> QED BY <1>1, <2>2, <3>2 DEF Shown, Enabled
  <2>3. CASE package[c].state # "Enabled" /\ active[c] = NoRelease
    <3>1. package[c].state \in {"Installed", "Revoked"}
      BY <1>2, <1>3, <2>3 DEF Pending, Lifecycle
    <3>2. UNCHANGED <<active, generations>>
      BY <1>1, <2>3 DEF Show, Disables
    <3> QED BY <1>1, <1>2, <2>3, <3>1, <3>2 DEF Shown, Enabled, Pending
  <2> QED BY <2>1, <2>2, <2>3
<1>7. \A k \in Packages : ~Changing(k)'
  BY <1>1 DEF Changing, Idle
<1>8. ~Revoked(c)'
  BY <1>1, <1>5 DEF Revoked
<1>9. ASSUME NEW k \in Packages, k # c PROVE Shown(k)' /\ (active'[k] # NoRelease /\ Revoked(k)' => Tolerated(k)')
  <2>1. Shown(k)'
    BY <1>1, <1>2, <1>4, <1>9 DEF Shown, Enabled, Revoked
  <2> QED BY <1>1, <1>2, <1>4, <1>9, <2>1 DEF Tolerated, Listed, Revoked
<1> QED BY <1>6, <1>7, <1>8, <1>9 DEF RegistryOK

\* new_with_keyring: the registry is rebuilt from the store.
LEMMA RegistryBoots ==
  ASSUME Inv, NEW keys \in SUBSET Publishers, Boot(keys)
  PROVE  RegistryOK'
<1> SUFFICES ASSUME process' = "up", NEW k \in Packages
             PROVE  /\ ~Changing(k)' => Shown(k)'
                    /\ Changing(k)' => Pending(k)'
                    /\ active'[k] # NoRelease /\ Revoked(k)' => Tolerated(k)'
  BY DEF RegistryOK
<1> DEFINE standing == {j \in Enabled : ~Revoked(j)}
<1>1. /\ UNCHANGED <<package, grant, doing>> /\ doing = Idle
      /\ active'[k] = IF k \in standing THEN package[k].release ELSE NoRelease
      /\ generations'[k] = IF k \in standing THEN package[k].generation ELSE 0
  BY DEF Boot, store, Inv, DoingOK
<1>2. ~Changing(k)'
  BY <1>1 DEF Changing, Idle
<1>3. k \in standing <=> k \in Enabled' /\ ~Revoked(k)'
  BY <1>1 DEF Enabled, Revoked
<1>4. Shown(k)' /\ ~(active'[k] # NoRelease /\ Revoked(k)')
  BY <1>1, <1>3 DEF Shown, Enabled
<1> QED BY <1>2, <1>4

\* The registry and the store agree after every step.
LEMMA RegistryStep ==
  ASSUME Inv, RegistryOK, [Next]_vars
  PROVE  RegistryOK'
<1>1. CASE process' # "up"
  BY <1>1 DEF RegistryOK
<1>2. CASE \E p \in Publishers : ConfigureKey(p)
  BY <1>2, RegistryKept DEF ConfigureKey, store
<1>3. ASSUME NEW p \in Publishers, Expire(p) PROVE RegistryOK'
  <2>1. \A q \in Publishers : grant'[q].status = grant[q].status /\ grant'[q].scope = grant[q].scope
    BY <1>3 DEF Expire, Inv, TypeInv, Grants
  <2> QED BY <1>3, <2>1, RegistryKept DEF Expire, memory
<1>4. CASE Admit
  <2>1. \A r \in Releases : admission[r].grant # 0 => admission'[r] = admission[r]
    BY <1>4, PackagesKept DEF Admit, Commit
  <2> QED BY <1>4, <2>1, RegistryKept DEF Admit, Idle
<1>5. CASE Commit /\ ~Committable(doing.plan)
  BY <1>5, RegistryKept DEF Commit, Idle
<1>6. CASE \E r \in Releases : Archive(r) \/ \E op \in Operations : Prepare(op, r)
  BY <1>6, RegistryKept DEF Archive, Prepare, store, memory, Free, Idle
<1>7. CASE \E plan \in plans : Approve(plan) \/ AuthorizeDistribution(plan)
  BY <1>7, RegistryKept DEF Approve, AuthorizeDistribution, memory, Free, Idle
<1>8. CASE \E d \in dispatches : FenceLease(d) \/ Receive(d) \/ Attempt(d)
  BY <1>8, RegistryKept DEF FenceLease, Receive, Attempt, store, memory, Free, Idle
<1>9. CASE Record
  BY <1>9, RegistryKept DEF Record, Idle
<1>10. CASE UNCHANGED vars
  BY <1>10, RegistryKept DEF vars, store, memory
<1>11. CASE Crash
  BY <1>11 DEF RegistryOK, Crash
<1> QED BY <1>1, <1>2, <1>3, <1>4, <1>5, <1>6, <1>7, <1>8, <1>9, <1>10, <1>11, RegistryProvisions, RegistryFences, RegistryCommits,
           RegistryShows, RegistryBoots DEF Next

-----------------------------------------------------------------------------
(* Approvals                                                               *)

\* The nonces that were claimed to change package k.
Spent(k) == {n \in Nonces : nonces[n] # NoPlan /\ PackageOf[nonces[n].release] = k /\ nonces[n].op # "Distribute"}

\* apply_change: the nonce is claimed before the change is committed.
Unspent(k) == IF doing.op = "change" /\ PackageOf[doing.plan.release] = k THEN 1 ELSE 0

NoncesOK == \A k \in Packages : package[k].generation + Unspent(k) <= Cardinality(Spent(k))

\* claim_ecosystem_nonce: one nonce more.
LEMMA ClaimSpends ==
  ASSUME Inv, NEW plan \in Plans, Claims(plan)
  PROVE  \A k \in Packages :
           /\ IsFiniteSet(Spent(k)) /\ IsFiniteSet(Spent(k)')
           /\ Cardinality(Spent(k)') =
                Cardinality(Spent(k)) + (IF plan.op # "Distribute" /\ PackageOf[plan.release] = k THEN 1 ELSE 0)
<1> DEFINE m == CHOOSE n \in Fresh : TRUE
<1>1. m \in Fresh /\ nonces' = [nonces EXCEPT ![m] = plan]
  BY DEF Claims
<1> HIDE DEF m
<1>2. /\ m \in Nonces /\ nonces[m] = NoPlan /\ nonces'[m] = plan /\ plan # NoPlan
      /\ \A n \in Nonces : n # m => nonces'[n] = nonces[n]
  BY <1>1, Facts DEF Fresh, Inv, TypeInv
<1> TAKE k \in Packages
<1>3. IsFiniteSet(Nonces)
  BY EcosystemAssumption DEF EcosystemAssumption
<1>4. IsFiniteSet(Spent(k)) /\ IsFiniteSet(Spent(k)')
  <2>1. Spent(k) \subseteq Nonces /\ Spent(k)' \subseteq Nonces
    BY DEF Spent
  <2> QED BY <1>3, <2>1, FS_Subset
<1>5. m \notin Spent(k)
  BY <1>2 DEF Spent
<1>6. CASE plan.op # "Distribute" /\ PackageOf[plan.release] = k
  <2>1. Spent(k)' = Spent(k) \cup {m}
    BY <1>2, <1>6 DEF Spent
  <2>2. Cardinality(Spent(k) \cup {m}) = Cardinality(Spent(k)) + 1
    BY <1>4, <1>5, FS_AddElement
  <2> QED BY <1>4, <1>6, <2>1, <2>2
<1>7. CASE ~(plan.op # "Distribute" /\ PackageOf[plan.release] = k)
  <2>1. Spent(k)' = Spent(k)
    BY <1>2, <1>7 DEF Spent
  <2>2. Cardinality(Spent(k)) \in Nat
    BY <1>4, FS_CardinalityType
  <2> QED BY <1>4, <1>7, <2>1, <2>2
<1> QED BY <1>6, <1>7

\* Every change is paid for before it is made.
LEMMA NoncesStep ==
  ASSUME Inv, NoncesOK, [Next]_vars
  PROVE  NoncesOK'
<1>0. /\ \A k \in Packages : package[k].generation \in Nat
      /\ \A k \in Packages : IsFiniteSet(Spent(k)) /\ Cardinality(Spent(k)) \in Nat
  <2>1. \A k \in Packages : package[k].generation \in Nat
    BY DEF Inv, TypeInv, TypeOK, States
  <2>2. ASSUME NEW k \in Packages PROVE IsFiniteSet(Spent(k)) /\ Cardinality(Spent(k)) \in Nat
    <3>1. IsFiniteSet(Nonces) /\ Spent(k) \subseteq Nonces
      BY EcosystemAssumption DEF EcosystemAssumption, Spent
    <3> QED BY <3>1, FS_Subset, FS_CardinalityType
  <2> QED BY <2>1, <2>2
<1>1. ASSUME UNCHANGED <<nonces, package>>, doing' = doing \/ doing'.op # "change"
      PROVE  NoncesOK'
  <2>1. \A k \in Packages : Spent(k)' = Spent(k)
    BY <1>1 DEF Spent
  <2>2. \A k \in Packages : Unspent(k) \in {0, 1} /\ (Unspent(k)' = Unspent(k) \/ Unspent(k)' = 0)
    BY <1>1 DEF Unspent
  <2>3. ASSUME NEW k \in Packages PROVE package'[k].generation + Unspent(k)' <= Cardinality(Spent(k)')
    <3>1. package[k].generation + Unspent(k) <= Cardinality(Spent(k))
      BY DEF NoncesOK
    <3>2. package'[k].generation = package[k].generation
      BY <1>1
    <3>3. Cardinality(Spent(k)') = Cardinality(Spent(k))
      BY <2>1
    <3> QED BY <1>0, <2>2, <3>1, <3>2, <3>3
  <2> QED BY <2>3 DEF NoncesOK
<1>2. ASSUME NEW plan \in plans, Approve(plan) \/ AuthorizeDistribution(plan) PROVE NoncesOK'
  <2>1. /\ plan \in Plans /\ Claims(plan) /\ doing = Idle /\ package' = package
        /\ \/ plan.op # "Distribute" /\ doing' = [op |-> "change", plan |-> plan]
           \/ plan.op = "Distribute" /\ doing' = doing
    BY <1>2 DEF Approve, AuthorizeDistribution, Inv, TypeInv, TypeOK, Free, memory
  <2>2. ASSUME NEW k \in Packages PROVE package'[k].generation + Unspent(k)' <= Cardinality(Spent(k)')
    <3>1. package[k].generation <= Cardinality(Spent(k)) /\ package'[k].generation = package[k].generation
      BY <1>0, <2>1 DEF NoncesOK, Unspent, Idle
    <3>2. Cardinality(Spent(k)') =
            Cardinality(Spent(k)) + (IF plan.op # "Distribute" /\ PackageOf[plan.release] = k THEN 1 ELSE 0)
      BY <2>1, ClaimSpends
    <3>3. Unspent(k)' = IF plan.op # "Distribute" /\ PackageOf[plan.release] = k THEN 1 ELSE 0
      BY <2>1 DEF Unspent, Idle
    <3> QED BY <1>0, <3>1, <3>2, <3>3
  <2> QED BY <2>2 DEF NoncesOK
<1>3. CASE Commit
  <2>1. CASE Committable(doing.plan)
    <3> DEFINE c == PackageOf[doing.plan.release]
    <3>1. /\ c \in Packages /\ package'[c].generation = package[c].generation + 1
          /\ \A j \in Packages : j # c => package'[j] = package[j]
          /\ doing'.op = "show" /\ nonces' = nonces
      BY <1>3, <2>1, CommitChanges
    <3>2. \A k \in Packages : Spent(k)' = Spent(k) /\ Unspent(k)' = 0
      BY <3>1 DEF Spent, Unspent
    <3>3. \A k \in Packages : Unspent(k) = IF k = c THEN 1 ELSE 0
      BY <1>3 DEF Commit, Unspent
    <3> HIDE DEF c
    <3>4. ASSUME NEW k \in Packages PROVE package'[k].generation + Unspent(k)' <= Cardinality(Spent(k)')
      <4>1. package[k].generation + Unspent(k) <= Cardinality(Spent(k))
        BY DEF NoncesOK
      <4>2. package'[k].generation = package[k].generation + Unspent(k)
        BY <1>0, <3>1, <3>3
      <4>3. Cardinality(Spent(k)') = Cardinality(Spent(k)) /\ Unspent(k)' = 0
        BY <3>2
      <4> QED BY <1>0, <3>3, <4>1, <4>2, <4>3
    <3> QED BY <3>4 DEF NoncesOK
  <2>2. CASE ~Committable(doing.plan)
    BY <1>1, <1>3, <2>2 DEF Commit, Idle
  <2> QED BY <2>1, <2>2
<1>4. ASSUME NEW p \in Publishers, NEW status \in {"active", "revoked"}, NEW scope \in Scopes, Provision(p, status, scope)
      PROVE  NoncesOK'
  BY <1>1, <1>4 DEF Provision, Idle
<1>5. CASE \E p \in Publishers : ConfigureKey(p) \/ Expire(p)
  BY <1>1, <1>5 DEF ConfigureKey, Expire, store, memory
<1>6. CASE \E r \in Releases : Archive(r) \/ \E op \in Operations : Prepare(op, r)
  BY <1>1, <1>6 DEF Archive, Prepare, store, memory
<1>7. CASE FencePackages \/ Admit \/ Show \/ Record \/ Crash
  BY <1>1, <1>7 DEF FencePackages, Admit, Show, Record, Crash, store, Idle
<1>8. CASE \E d \in dispatches : FenceLease(d) \/ Receive(d) \/ Attempt(d)
  BY <1>1, <1>8 DEF FenceLease, Receive, Attempt, store, memory
<1>9. CASE \E keys \in SUBSET Publishers : Boot(keys)
  BY <1>1, <1>9 DEF Boot, store
<1>10. CASE UNCHANGED vars
  BY <1>1, <1>10 DEF vars, store, memory
<1> QED BY <1>2, <1>3, <1>4, <1>5, <1>6, <1>7, <1>8, <1>9, <1>10 DEF Next

-----------------------------------------------------------------------------
(* The version                                                             *)

\* One pair for each step that f has taken at each member of S.
Steps(f, S, v) == {y \in S \X (1..v) : y[2] <= f[y[1]]}

Versions == [p \in Publishers |-> grant[p].version]
Generations == [k \in Packages |-> package[k].generation]
Admitted == {r \in Releases : admission[r].grant # 0}

\* append_ecosystem_expected: each of the four kinds of record grows with the
\* version only.
VersionOK ==
  /\ \A p \in Publishers : grant[p].version <= version /\ (grant[p].status = "active" => grant[p].version # 0)
  /\ \A k \in Packages : package[k].generation <= version
  /\ IsFiniteSet(distributions)
  /\ version = Cardinality(Steps(Versions, Publishers, version)) + Cardinality(Admitted)
             + Cardinality(Steps(Generations, Packages, version)) + Cardinality(distributions)

\* A count does not change when only the version grows.
LEMMA StepsKept ==
  ASSUME NEW S, IsFiniteSet(S), NEW f \in [S -> Nat], NEW v \in Nat, \A x \in S : f[x] <= v
  PROVE  /\ Steps(f, S, v + 1) = Steps(f, S, v)
         /\ IsFiniteSet(Steps(f, S, v)) /\ Cardinality(Steps(f, S, v)) \in Nat
<1>1. \A y \in S \X (1..(v + 1)) : y[2] <= f[y[1]] => y \in S \X (1..v)
  OBVIOUS
<1>2. S \X (1..v) \subseteq S \X (1..(v + 1))
  OBVIOUS
<1>3. Steps(f, S, v + 1) = Steps(f, S, v)
  BY <1>1, <1>2 DEF Steps
<1>4. IsFiniteSet(S \X (1..v))
  <2>1. IsFiniteSet(1..v)
    BY FS_Interval
  <2> QED BY <2>1, FS_Product
<1>5. Steps(f, S, v) \subseteq S \X (1..v)
  BY DEF Steps
<1> QED BY <1>3, <1>4, <1>5, FS_Subset, FS_CardinalityType

\* A count grows by one when f takes a step at x.
LEMMA StepsGrow ==
  ASSUME NEW S, IsFiniteSet(S), NEW f \in [S -> Nat], NEW v \in Nat, \A x \in S : f[x] <= v,
         NEW x \in S, NEW g \in [S -> Nat], g[x] = f[x] + 1, \A y \in S : y # x => g[y] = f[y]
  PROVE  Cardinality(Steps(g, S, v + 1)) = Cardinality(Steps(f, S, v)) + 1
<1> DEFINE top == <<x, f[x] + 1>>
<1>1. top \in S \X (1..(v + 1)) /\ top \notin Steps(f, S, v)
  BY DEF Steps
<1>2. \A y \in S \X (1..(v + 1)) : y[2] <= g[y[1]] <=> y \in Steps(f, S, v) \/ y = top
  <2> TAKE y \in S \X (1..(v + 1))
  <2>1. PICK a \in S, b \in 1..(v + 1) : y = <<a, b>>
    OBVIOUS
  <2>2. y \in Steps(f, S, v) <=> b <= f[a]
    BY <2>1 DEF Steps
  <2>3. y = top <=> a = x /\ b = f[x] + 1
    BY <2>1
  <2>4. f[a] \in Nat /\ f[x] \in Nat /\ b \in Nat
    OBVIOUS
  <2>5. g[a] = IF a = x THEN f[x] + 1 ELSE f[a]
    OBVIOUS
  <2>6. b <= g[a] <=> b <= f[a] \/ (a = x /\ b = f[x] + 1)
    BY <2>4, <2>5
  <2> QED BY <2>1, <2>2, <2>3, <2>6
<1>3. Steps(f, S, v) \subseteq S \X (1..(v + 1))
  BY DEF Steps
<1>4. Steps(g, S, v + 1) = Steps(f, S, v) \cup {top}
  BY <1>1, <1>2, <1>3 DEF Steps
<1>5. IsFiniteSet(Steps(f, S, v))
  BY StepsKept
<1> QED BY <1>1, <1>4, <1>5, FS_AddElement

\* The four counts, and what they are when the version has grown.
LEMMA Counts ==
  ASSUME Inv, VersionOK
  PROVE  /\ version \in Nat
         /\ Versions \in [Publishers -> Nat] /\ Generations \in [Packages -> Nat]
         /\ \A p \in Publishers : Versions[p] <= version
         /\ \A k \in Packages : Generations[k] <= version
         /\ Cardinality(Steps(Versions, Publishers, version)) \in Nat
         /\ Cardinality(Steps(Generations, Packages, version)) \in Nat
         /\ Steps(Versions, Publishers, version + 1) = Steps(Versions, Publishers, version)
         /\ Steps(Generations, Packages, version + 1) = Steps(Generations, Packages, version)
         /\ IsFiniteSet(Admitted) /\ Cardinality(Admitted) \in Nat
         /\ Cardinality(distributions) \in Nat
<1>1. /\ version \in Nat /\ grant \in [Publishers -> Grants] /\ package \in [Packages -> States]
      /\ IsFiniteSet(Publishers) /\ IsFiniteSet(Packages) /\ IsFiniteSet(Releases) /\ MaxGrants \in Nat
  BY EcosystemAssumption DEF EcosystemAssumption, Inv, TypeInv, TypeOK
<1>2. Versions \in [Publishers -> Nat] /\ Generations \in [Packages -> Nat]
  BY <1>1 DEF Versions, Generations, Grants, States
<1>3. /\ \A p \in Publishers : Versions[p] <= version
      /\ \A k \in Packages : Generations[k] <= version
  BY DEF VersionOK, Versions, Generations
<1>4. /\ Cardinality(Steps(Versions, Publishers, version)) \in Nat
      /\ Steps(Versions, Publishers, version + 1) = Steps(Versions, Publishers, version)
  BY <1>1, <1>2, <1>3, StepsKept
<1>5. /\ Cardinality(Steps(Generations, Packages, version)) \in Nat
      /\ Steps(Generations, Packages, version + 1) = Steps(Generations, Packages, version)
  BY <1>1, <1>2, <1>3, StepsKept
<1>6. Admitted \subseteq Releases
  BY DEF Admitted
<1>7. IsFiniteSet(Admitted) /\ Cardinality(Admitted) \in Nat
  BY <1>1, <1>6, FS_Subset, FS_CardinalityType
<1>8. Cardinality(distributions) \in Nat
  BY FS_CardinalityType DEF VersionOK
<1> QED BY <1>1, <1>2, <1>3, <1>4, <1>5, <1>7, <1>8

\* provision_publisher: the grant's version grows with the ecosystem's.
LEMMA VersionProvisions ==
  ASSUME Inv, VersionOK, NEW p \in Publishers, NEW status \in {"active", "revoked"}, NEW scope \in Scopes,
         Provision(p, status, scope)
  PROVE  VersionOK'
<1>1. /\ grant \in [Publishers -> Grants] /\ IsFiniteSet(Publishers) /\ MaxGrants \in Nat
      /\ version' = version + 1 /\ UNCHANGED <<admission, package, distributions>>
      /\ grant' = [grant EXCEPT ![p] = [version |-> @.version + 1, status |-> status, expired |-> FALSE, scope |-> scope]]
  BY EcosystemAssumption DEF EcosystemAssumption, Inv, TypeInv, TypeOK, Provision, ProjectGrant, Committed
<1>2. /\ grant'[p].version = grant[p].version + 1 /\ grant'[p].status = status
      /\ \A q \in Publishers : q # p => grant'[q] = grant[q]
  BY <1>1
<1>3. \A q \in Publishers : grant[q].version \in Nat
  BY <1>1 DEF Grants
<1>4. Versions' \in [Publishers -> Nat] /\ Versions'[p] = Versions[p] + 1 /\ \A q \in Publishers : q # p => Versions'[q] = Versions[q]
  BY <1>2, <1>3 DEF Versions
<1>5. Cardinality(Steps(Versions', Publishers, version + 1)) = Cardinality(Steps(Versions, Publishers, version)) + 1
  <2>1. version \in Nat /\ Versions \in [Publishers -> Nat] /\ \A q \in Publishers : Versions[q] <= version
    BY Counts
  <2> QED BY <1>1, <1>4, <2>1, StepsGrow
<1>6. Generations' = Generations /\ Admitted' = Admitted
  BY <1>1 DEF Generations, Admitted
<1>7. \A q \in Publishers : grant'[q].version <= version' /\ (grant'[q].status = "active" => grant'[q].version # 0)
  BY <1>1, <1>2, <1>3, Counts DEF VersionOK
<1>8. \A k \in Packages : package'[k].generation <= version'
  BY <1>1, Counts DEF Generations
<1>9. /\ Steps(Versions, Publishers, version)' = Steps(Versions', Publishers, version + 1)
      /\ Steps(Generations, Packages, version)' = Steps(Generations, Packages, version)
  BY <1>1, <1>6, Counts DEF Steps
<1>10. version' = Cardinality(Steps(Versions, Publishers, version)') + Cardinality(Admitted')
                + Cardinality(Steps(Generations, Packages, version)') + Cardinality(distributions')
  BY <1>1, <1>5, <1>6, <1>9, Counts DEF VersionOK
<1> QED BY <1>1, <1>7, <1>8, <1>10 DEF VersionOK

\* admit_package: a release is admitted with the version that admits it.
LEMMA VersionAdmits ==
  ASSUME Inv, VersionOK, Admit, Admissible(doing.plan)
  PROVE  VersionOK'
<1> DEFINE r == doing.plan
<1>1. /\ r \in Releases /\ PublisherOf[r] \in Publishers /\ admission \in [Releases -> Admissions]
      /\ version' = version + 1 /\ UNCHANGED <<grant, package, distributions>>
      /\ admission[r].grant = 0 /\ grant[PublisherOf[r]].status = "active"
      /\ admission' = [admission EXCEPT ![r] = [grant |-> grant[PublisherOf[r]].version, scope |-> grant[PublisherOf[r]].scope]]
  BY Facts DEF Inv, TypeInv, DoingOK, Admit, Admissible, Active, ProjectAdmission, Committed
<1> HIDE DEF r
<1>2. admission'[r].grant # 0 /\ \A x \in Releases : x # r => admission'[x] = admission[x]
  BY <1>1 DEF VersionOK
<1>3. Admitted' = Admitted \cup {r} /\ r \notin Admitted
  BY <1>1, <1>2 DEF Admitted
<1>4. Cardinality(Admitted') = Cardinality(Admitted) + 1
  BY <1>3, Counts, FS_AddElement
<1>5. Versions' = Versions /\ Generations' = Generations
  BY <1>1 DEF Versions, Generations
<1>6. /\ Steps(Versions, Publishers, version)' = Steps(Versions, Publishers, version)
      /\ Steps(Generations, Packages, version)' = Steps(Generations, Packages, version)
  BY <1>1, <1>5, Counts DEF Steps
<1>7. \A q \in Publishers : grant'[q].version <= version' /\ (grant'[q].status = "active" => grant'[q].version # 0)
  BY <1>1, Counts DEF VersionOK, Versions
<1>8. \A k \in Packages : package'[k].generation <= version'
  BY <1>1, Counts DEF Generations
<1>9. version' = Cardinality(Steps(Versions, Publishers, version)') + Cardinality(Admitted')
               + Cardinality(Steps(Generations, Packages, version)') + Cardinality(distributions')
  BY <1>1, <1>4, <1>6, Counts DEF VersionOK
<1> QED BY <1>1, <1>7, <1>8, <1>9 DEF VersionOK

\* apply_change: a package's generation grows with the version.
LEMMA VersionCommits ==
  ASSUME Inv, VersionOK, Commit, Committable(doing.plan)
  PROVE  VersionOK'
<1> DEFINE c == PackageOf[doing.plan.release]
<1>1. /\ c \in Packages /\ package'[c].generation = package[c].generation + 1
      /\ \A j \in Packages : j # c => package'[j] = package[j]
      /\ version' = version + 1 /\ UNCHANGED <<grant, admission, distributions>>
  BY CommitChanges
<1> HIDE DEF c
<1>2. IsFiniteSet(Packages) /\ \A k \in Packages : package[k].generation \in Nat
  BY EcosystemAssumption DEF EcosystemAssumption, Inv, TypeInv, TypeOK, States
<1>3. /\ Generations' \in [Packages -> Nat] /\ Generations'[c] = Generations[c] + 1
      /\ \A k \in Packages : k # c => Generations'[k] = Generations[k]
  BY <1>1, <1>2 DEF Generations
<1>4. Cardinality(Steps(Generations', Packages, version + 1)) = Cardinality(Steps(Generations, Packages, version)) + 1
  <2>1. version \in Nat /\ Generations \in [Packages -> Nat] /\ \A k \in Packages : Generations[k] <= version
    BY Counts
  <2> QED BY <1>1, <1>2, <1>3, <2>1, StepsGrow
<1>5. Versions' = Versions /\ Admitted' = Admitted
  BY <1>1 DEF Versions, Admitted
<1>6. /\ Steps(Generations, Packages, version)' = Steps(Generations', Packages, version + 1)
      /\ Steps(Versions, Publishers, version)' = Steps(Versions, Publishers, version)
  BY <1>1, <1>5, Counts DEF Steps
<1>7. \A q \in Publishers : grant'[q].version <= version' /\ (grant'[q].status = "active" => grant'[q].version # 0)
  BY <1>1, Counts DEF VersionOK, Versions
<1>8. \A k \in Packages : package'[k].generation <= version'
  BY <1>1, <1>2, Counts DEF VersionOK
<1>9. version' = Cardinality(Steps(Versions, Publishers, version)') + Cardinality(Admitted')
               + Cardinality(Steps(Generations, Packages, version)') + Cardinality(distributions')
  BY <1>1, <1>4, <1>5, <1>6, Counts DEF VersionOK
<1> QED BY <1>1, <1>7, <1>8, <1>9 DEF VersionOK

\* record_verified_distribution: a receipt is recorded with its version.
LEMMA VersionRecords ==
  ASSUME Inv, VersionOK, Record, Recordable(doing.plan)
  PROVE  VersionOK'
<1>1. /\ version' = version + 1 /\ UNCHANGED <<grant, admission, package>>
      /\ distributions' = distributions \cup {doing.plan.plan} /\ doing.plan.plan \notin distributions
      /\ IsFiniteSet(distributions)
  BY DEF Record, Recordable, ProjectDistribution, Committed, VersionOK
<1>2. IsFiniteSet(distributions') /\ Cardinality(distributions') = Cardinality(distributions) + 1
  BY <1>1, FS_AddElement
<1>3. Versions' = Versions /\ Generations' = Generations /\ Admitted' = Admitted
  BY <1>1 DEF Versions, Generations, Admitted
<1>4. /\ Steps(Versions, Publishers, version)' = Steps(Versions, Publishers, version)
      /\ Steps(Generations, Packages, version)' = Steps(Generations, Packages, version)
  BY <1>1, <1>3, Counts DEF Steps
<1>5. \A q \in Publishers : grant'[q].version <= version' /\ (grant'[q].status = "active" => grant'[q].version # 0)
  BY <1>1, Counts DEF VersionOK, Versions
<1>6. \A k \in Packages : package'[k].generation <= version'
  BY <1>1, Counts DEF Generations
<1>7. version' = Cardinality(Steps(Versions, Publishers, version)') + Cardinality(Admitted')
               + Cardinality(Steps(Generations, Packages, version)') + Cardinality(distributions')
  BY <1>1, <1>2, <1>3, <1>4, Counts DEF VersionOK
<1> QED BY <1>2, <1>5, <1>6, <1>7 DEF VersionOK

\* The version counts what was committed, and nothing else moves with it.
LEMMA VersionStep ==
  ASSUME Inv, VersionOK, [Next]_vars
  PROVE  VersionOK'
<1>1. ASSUME UNCHANGED <<version, admission, package, distributions>>,
             \A p \in Publishers : grant'[p].version = grant[p].version /\ grant'[p].status = grant[p].status
      PROVE  VersionOK'
  <2>1. Versions' = Versions /\ Generations' = Generations /\ Admitted' = Admitted
    BY <1>1 DEF Versions, Generations, Admitted
  <2>2. /\ Steps(Versions, Publishers, version)' = Steps(Versions, Publishers, version)
        /\ Steps(Generations, Packages, version)' = Steps(Generations, Packages, version)
    BY <1>1, <2>1 DEF Steps
  <2> QED BY <1>1, <2>1, <2>2 DEF VersionOK
<1>2. ASSUME NEW p \in Publishers, Expire(p) PROVE VersionOK'
  <2>1. \A q \in Publishers : grant'[q].version = grant[q].version /\ grant'[q].status = grant[q].status
    BY <1>2 DEF Expire, Inv, TypeInv, Grants
  <2> QED BY <1>1, <1>2, <2>1 DEF Expire
<1>3. CASE Admit /\ ~Admissible(doing.plan)
  BY <1>1, <1>3 DEF Admit
<1>4. CASE Commit /\ ~Committable(doing.plan)
  BY <1>1, <1>4 DEF Commit
<1>5. CASE Record /\ ~Recordable(doing.plan)
  BY <1>1, <1>5 DEF Record
<1>6. CASE \/ \E p \in Publishers : ConfigureKey(p)
           \/ FencePackages \/ Show \/ Crash
           \/ \E keys \in SUBSET Publishers : Boot(keys)
  BY <1>1, <1>6 DEF ConfigureKey, FencePackages, Show, Crash, Boot, store
<1>7. CASE \/ \E r \in Releases : Archive(r) \/ \E op \in Operations : Prepare(op, r)
           \/ \E plan \in plans : Approve(plan) \/ AuthorizeDistribution(plan)
  BY <1>1, <1>7 DEF Archive, Prepare, Approve, AuthorizeDistribution, store
<1>8. CASE \E d \in dispatches : FenceLease(d) \/ Receive(d) \/ Attempt(d)
  BY <1>1, <1>8 DEF FenceLease, Receive, Attempt, store
<1>9. CASE UNCHANGED vars
  BY <1>1, <1>9 DEF vars, store
<1> QED BY <1>2, <1>3, <1>4, <1>5, <1>6, <1>7, <1>8, <1>9, VersionProvisions, VersionAdmits, VersionCommits, VersionRecords
        DEF Next

-----------------------------------------------------------------------------
(* Everything together                                                     *)

Books == RegistryOK /\ NoncesOK /\ VersionOK

\* Nothing has been shown, paid for or counted.
LEMMA InitBooks == Init => Books
<1> SUFFICES ASSUME Init PROVE Books
  OBVIOUS
<1>1. RegistryOK
  BY DEF Init, RegistryOK
<1>2. NoncesOK
  <2>1. \A k \in Packages : Spent(k) = {} /\ Unspent(k) = 0 /\ package[k].generation = 0
    BY DEF Init, Spent, Unspent, Idle
  <2> QED BY <2>1, FS_EmptySet DEF NoncesOK
<1>3. VersionOK
  <2>1. Steps(Versions, Publishers, version) = {} /\ Steps(Generations, Packages, version) = {} /\ Admitted = {}
    BY DEF Init, Steps, Admitted
  <2>2. \A p \in Publishers : grant[p].version = 0 /\ grant[p].status = "none"
    BY DEF Init
  <2>3. \A k \in Packages : package[k].generation = 0
    BY DEF Init
  <2>4. version = 0 /\ distributions = {}
    BY DEF Init
  <2> QED BY <2>1, <2>2, <2>3, <2>4, FS_EmptySet DEF VersionOK
<1> QED BY <1>1, <1>2, <1>3 DEF Books

\* What the invariants say of the store, the registry and the approvals.
LEMMA InvSound == Inv /\ Books => EcosystemIsSound
<1> SUFFICES ASSUME Inv, Books PROVE EcosystemIsSound
  OBVIOUS
<1>1. RegistryFollowsStore
  <2> SUFFICES ASSUME process = "up", doing.op \notin {"fence", "show"}, NEW k \in Packages
               PROVE  /\ k \in Enabled /\ ~Revoked(k) => active[k] = package[k].release
                      /\ active[k] # NoRelease =>
                           /\ k \in Enabled /\ active[k] = package[k].release
                           /\ generations[k] = package[k].generation
                           /\ Revoked(k) => ~Listed(k, grant[PublisherOf[active[k]]].scope)
    BY DEF RegistryFollowsStore
  <2>1. Shown(k) /\ (active[k] # NoRelease /\ Revoked(k) => Tolerated(k))
    BY DEF Books, RegistryOK, Changing
  <2> QED BY <2>1 DEF Shown, Tolerated
<1>2. VersionCountsMutations
  BY DEF Books, VersionOK, VersionCountsMutations, Steps, Versions, Generations, Admitted
<1>3. ChangesAreApproved
  <2>1. ASSUME NEW k \in Packages PROVE package[k].generation <= Cardinality(Spent(k))
    <3>1. IsFiniteSet(Nonces) /\ Spent(k) \subseteq Nonces
      BY EcosystemAssumption DEF EcosystemAssumption, Spent
    <3>2. Cardinality(Spent(k)) \in Nat
      BY <3>1, FS_Subset, FS_CardinalityType
    <3>3. package[k].generation + Unspent(k) <= Cardinality(Spent(k)) /\ Unspent(k) \in {0, 1}
      BY DEF Books, NoncesOK, Unspent
    <3>4. package[k].generation \in Nat
      BY DEF Inv, TypeInv, TypeOK, States
    <3> QED BY <3>2, <3>3, <3>4
  <2> QED BY <2>1 DEF ChangesAreApproved, Spent
<1> QED BY <1>1, <1>2, <1>3 DEF EcosystemIsSound, Inv, TypeInv, PackagesOK, DistributionsOK

\* EcosystemHarnessRuntime: after any operation, crash or restart the registry
\* shows what the store enables, the version counts what was committed, every
\* change was paid for, and what is enabled or distributed can be proven.
THEOREM StoreAndRegistryAgree == Spec => []EcosystemIsSound
<1>1. Inv /\ Books /\ [Next]_vars => Books'
  BY RegistryStep, NoncesStep, VersionStep DEF Books
<1> QED BY <1>1, InitBooks, InvHolds, InvSound, PTL DEF Spec
=============================================================================
