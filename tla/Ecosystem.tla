------------------------------ MODULE Ecosystem ------------------------------
(***************************************************************************)
(* The capability ecosystem (M5): the owner's control plane                *)
(* (EcosystemHarnessRuntime of crates/harness/src/m5.rs), the ecosystem    *)
(* tables of the SQLite store, the package registry that shows enabled     *)
(* packages to the resolver (crates/capabilities/src/ecosystem.rs), and    *)
(* the executor's package ledger.                                          *)
(*                                                                         *)
(* Every control operation holds control_lock, so operations never         *)
(* overlap; what can come between the steps of one is a crash, and between *)
(* preparing a plan and applying it anything else.  The variable doing is  *)
(* the operation that holds the lock.                                      *)
(*                                                                         *)
(* Abstracted: a release stands for its package body and digest; the       *)
(* static checks of a body (size, license, secrets, risk, policy) and the  *)
(* catalog run it was fetched by are assumed passed; grant and plan        *)
(* references are their versions; an approval is its nonce.                *)
(***************************************************************************)
EXTENDS Naturals, FiniteSets

CONSTANTS
  Publishers, Packages, Releases, Nonces, Scopes,
  PackageOf, PublisherOf,   \* of a release: manifest.package, manifest.publisher
  DependsOn,                \* of a release: manifest.dependencies
  AnyScope,                 \* the scope "*"
  NoRelease, NoPlan,
  TornBundle, TornRecord,   \* files of the executor's ledger a stop left unreadable
  MaxGrants,                \* bound: versions of one publisher's grant
  MaxPlans,                 \* bound: plans the owner holds at a time
  MaxFaults                 \* bound: crashes and fenced leases, together

ASSUME EcosystemAssumption ==
  /\ PackageOf \in [Releases -> Packages]
  /\ PublisherOf \in [Releases -> Publishers]
  /\ DependsOn \in [Releases -> SUBSET Releases]
  /\ AnyScope \in Scopes /\ NoRelease \notin Releases
  /\ IsFiniteSet(Publishers) /\ IsFiniteSet(Packages) /\ IsFiniteSet(Releases) /\ IsFiniteSet(Nonces)
  /\ MaxGrants \in Nat /\ MaxPlans \in Nat /\ MaxFaults \in Nat

VARIABLES
  \* the store
  version,        \* ecosystem_versions
  grant,          \* ecosystem_publishers: [version, status, expired, scope]
  admission,      \* ecosystem_admissions: [grant, scope]; grant 0 if none
  package,        \* ecosystem_package_states: [state, release, generation]
  bundles,        \* ecosystem_package_bundles
  nonces,         \* ecosystem_nonces: the plan each nonce was claimed for
  attempts,       \* ecosystem_distribution_attempts
  distributions,  \* ecosystem_distributions
  \* the process
  process,        \* "up", "down", or "failed": new() returned an error
  keyring,        \* publishers whose key is provisioned
  active,         \* PackageRegistryState.active: the release shown
  generations,    \* PackageRegistryState.generations, 0 if none
  doing,          \* the operation under control_lock and its next step
  \* the owner, the authority's remote runtime and the executor
  plans,          \* prepared plans in the owner's hands
  dispatches,     \* authorised distributions: [plan, live]
  ledger,         \* the executor's record of each release: the plan it came by
  installed,      \* the generation in that record
  faults

store == <<version, grant, admission, package, bundles, nonces, attempts, distributions>>
memory == <<process, keyring, active, generations, doing>>
outside == <<plans, dispatches, ledger, installed>>
vars == <<store, memory, outside, faults>>

\* Update stands for Rollback too: the code tells them apart only by name.
Operations == {"Install", "Enable", "Disable", "Update", "Revoke", "Distribute"}
Lifecycle == {"Admitted", "Installed", "Enabled", "Disabled", "Revoked"}
Plans == [op : Operations, release : Releases, at : Nat]
Files == {NoPlan, TornBundle, TornRecord} \cup Plans

\* Neither an unclaimed nonce nor an unreadable file is mistaken for a plan.
ASSUME FilesAssumption == \A f \in {NoPlan, TornBundle, TornRecord} : f \notin Plans

Idle == [op |-> "none", plan |-> NoPlan]
Free == process = "up" /\ doing = Idle
Fault == faults < MaxFaults /\ faults' = faults + 1
MaxOf(S) == IF S = {} THEN 0 ELSE CHOOSE x \in S : \A y \in S : y <= x

-------------------------------------------------------------------------------
(* Publishers.                                                               *)

\* Fault: only the date of a grant is looked at.
ActiveByDate(p) == ~grant[p].expired /\ grant[p].version # 0

Active(p) == grant[p].status = "active" /\ ~grant[p].expired

\* verify_publisher and verify_signature: an active grant, and the owner's key.
Verifiable(r) == Active(PublisherOf[r]) /\ PublisherOf[r] \in keyring

\* verify_dependencies: exactly the declared dependencies are admitted, and
\* what they depend on is declared as well.
DependenciesAdmitted(r) ==
  /\ \A d \in DependsOn[r] : admission[d].grant # 0 /\ DependsOn[d] \subseteq DependsOn[r]
  /\ r \notin DependsOn[r]

\* Fault: any admission will do.
NoGrant(r) == TRUE

\* The admission still names the publisher's current grant.
CurrentGrant(r) ==
  admission[r].grant # 0 /\ admission[r].grant = grant[PublisherOf[r]].version

ConfigureKey(p) ==
  /\ Free /\ p \notin keyring
  /\ keyring' = keyring \cup {p}
  /\ UNCHANGED <<store, process, active, generations, doing, outside, faults>>

\* append_ecosystem_expected: an event, its projection and the version it
\* commits are one transaction, under the version the caller read.
Committed == version' = version + 1

\* A first grant is active; a later one renews or revokes; nothing follows a
\* revocation.
GrantFollows(p, status) ==
  grant[p].status # "revoked" /\ (grant[p].version = 0 => status = "active")

ProjectGrant(p, status, scope) ==
  grant' = [grant EXCEPT ![p] =
    [version |-> @.version + 1, status |-> status, expired |-> FALSE, scope |-> scope]]

\* provision_publisher up to the committed event.
Provision(p, status, scope) ==
  /\ Free /\ p \in keyring /\ grant[p].version < MaxGrants
  /\ GrantFollows(p, status) /\ ProjectGrant(p, status, scope) /\ Committed
  /\ doing' = IF status = "revoked" THEN [op |-> "fence", plan |-> p] ELSE Idle
  /\ UNCHANGED <<admission, package, bundles, nonces, attempts, distributions,
                 process, keyring, active, generations, outside, faults>>

\* snapshot(grant.scope) lists the packages projected under that scope or "*".
Listed(k, scope) ==
  /\ package[k].release # NoRelease
  /\ admission[package[k].release].scope \in {scope, AnyScope}

\* fence_publisher_packages, after the revocation is committed.
FencePackages ==
  /\ process = "up" /\ doing.op = "fence"
  /\ active' = [k \in Packages |->
       IF Listed(k, grant[doing.plan].scope) /\ PublisherOf[package[k].release] = doing.plan
       THEN NoRelease ELSE active[k]]
  /\ doing' = Idle
  /\ UNCHANGED <<store, process, keyring, generations, outside, faults>>

Expire(p) ==
  /\ grant[p].version # 0 /\ ~grant[p].expired
  /\ grant' = [grant EXCEPT ![p].expired = TRUE]
  /\ UNCHANGED <<version, admission, package, bundles, nonces, attempts, distributions,
                 memory, outside, faults>>

-------------------------------------------------------------------------------
(* Admission.                                                                *)

\* archive_package
Keep(r) == bundles' = bundles \cup {r}

\* admit_package verifies the body and archives it ...
Archive(r) ==
  /\ Free /\ Verifiable(r) /\ DependenciesAdmitted(r)
  /\ Keep(r)
  /\ doing' = [op |-> "admit", plan |-> r]
  /\ UNCHANGED <<version, grant, admission, package, nonces, attempts, distributions,
                 process, keyring, active, generations, outside, faults>>

\* Fault: a release that has an admission is admitted again.
AdmissibleAgain(r) == Active(PublisherOf[r])

\* A release is admitted once, under an active grant, after its dependencies.
Admissible(r) ==
  /\ admission[r].grant = 0 /\ Active(PublisherOf[r])
  /\ \A d \in DependsOn[r] : admission[d].grant # 0

ProjectAdmission(r) ==
  admission' = [admission EXCEPT ![r] =
    [grant |-> grant[PublisherOf[r]].version, scope |-> grant[PublisherOf[r]].scope]]

\* ... and commits the admission.
Admit ==
  /\ process = "up" /\ doing.op = "admit"
  /\ IF Admissible(doing.plan)
     THEN ProjectAdmission(doing.plan) /\ Committed
     ELSE UNCHANGED <<admission, version>>
  /\ doing' = Idle
  /\ UNCHANGED <<grant, package, bundles, nonces, attempts, distributions,
                 process, keyring, active, generations, outside, faults>>

-------------------------------------------------------------------------------
(* Lifecycle changes.                                                        *)

\* Fault: a package can be enabled that was never installed.
RequestedLoosely(op, r) ==
  LET now == package[PackageOf[r]]
  IN \/ op = "Install" /\ now.state = "Admitted"
     \/ op = "Enable" /\ now.state \in {"Admitted", "Installed", "Disabled"}
     \/ op = "Disable" /\ now.release = r /\ now.state = "Enabled"
     \/ op = "Update" /\ now.release # r /\ now.state = "Enabled"
     \/ op = "Revoke" /\ now.state # "Revoked" /\ (now.state = "Admitted" \/ now.release = r)
     \/ op = "Distribute" /\ now.state # "Revoked"

\* validate_requested_operation: an absent state counts as Admitted.
Requested(op, r) ==
  LET now == package[PackageOf[r]]
  IN \/ op = "Install" /\ now.state = "Admitted"
     \/ op = "Enable" /\ now.release = r /\ now.state \in {"Installed", "Disabled"}
     \/ op = "Disable" /\ now.release = r /\ now.state = "Enabled"
     \/ op = "Update" /\ now.release # r /\ now.state = "Enabled"
     \/ op = "Revoke" /\ now.state # "Revoked" /\ (now.state = "Admitted" \/ now.release = r)
     \/ op = "Distribute" /\ now.state # "Revoked"

\* Fault: a revoked package is called fenced.
TargetMissing(op) ==
  CASE op = "Install" -> "Installed"
    [] op \in {"Enable", "Update"} -> "Enabled"
    [] op = "Disable" -> "Disabled"
    [] op = "Revoke" -> "Fenced"

\* lifecycle_change
Target(op) ==
  CASE op = "Install" -> "Installed"
    [] op \in {"Enable", "Update"} -> "Enabled"
    [] op = "Disable" -> "Disabled"
    [] op = "Revoke" -> "Revoked"

\* prepare_change: a plan for the ecosystem as it is now.
Prepare(op, r) ==
  /\ Free /\ r \in bundles /\ CurrentGrant(r) /\ Verifiable(r) /\ Requested(op, r)
  /\ \E kept \in SUBSET plans :
       /\ Cardinality(kept) < MaxPlans
       /\ Cardinality(kept) + 1 >= Cardinality(plans)
       /\ plans' = kept \cup {[op |-> op, release |-> r, at |-> version]}
  /\ UNCHANGED <<store, memory, dispatches, ledger, installed, faults>>

\* The checks of apply_change: the plan's version, then everything it binds.
Applicable(plan) ==
  /\ plan.at = version
  /\ plan.release \in bundles /\ CurrentGrant(plan.release)
  /\ Requested(plan.op, plan.release) /\ Verifiable(plan.release)

\* Fault: the nonce is looked up but not stored.
LooksUp(plan) == {n \in Nonces : nonces[n] = NoPlan} # {} /\ UNCHANGED nonces

\* claim_ecosystem_nonce refuses a nonce that was claimed before, for whatever
\* plan; which fresh one an approval carries makes no difference.
Fresh == {n \in Nonces : nonces[n] = NoPlan}
Claims(plan) ==
  /\ Fresh # {}
  /\ nonces' = [nonces EXCEPT ![CHOOSE n \in Fresh : TRUE] = plan]

\* apply_change up to the nonce it claims.
Approve(plan) ==
  /\ Free /\ plan \in plans /\ plan.op # "Distribute"
  /\ Applicable(plan) /\ Claims(plan)
  /\ doing' = [op |-> "change", plan |-> plan]
  /\ UNCHANGED <<version, grant, admission, package, bundles, attempts, distributions,
                 process, keyring, active, generations, outside, faults>>

\* The transaction looks at the version, the admission's grant, the publisher
\* and the lifecycle once more.
Committable(plan) ==
  LET now == package[PackageOf[plan.release]]
  IN /\ plan.at = version /\ CurrentGrant(plan.release)
     /\ grant[PublisherOf[plan.release]].status = "active" \/ Target(plan.op) = "Revoked"
     /\ now.state # "Revoked"
     /\ \/ now.release \in {NoRelease, plan.release}
        \/ now.state = "Enabled" /\ Target(plan.op) = "Enabled"

ProjectState(plan) ==
  package' = [package EXCEPT ![PackageOf[plan.release]] =
    [state |-> Target(plan.op), release |-> plan.release, generation |-> @.generation + 1]]

\* apply_change from there on.
Commit ==
  /\ process = "up" /\ doing.op = "change"
  /\ IF Committable(doing.plan)
     THEN ProjectState(doing.plan) /\ Committed /\ doing' = [doing EXCEPT !.op = "show"]
     ELSE UNCHANGED <<package, version>> /\ doing' = Idle
  /\ UNCHANGED <<grant, admission, bundles, nonces, attempts, distributions,
                 process, keyring, active, generations, outside, faults>>

\* CapabilityPackageRegistry::enable and disable refuse a generation that
\* does not follow the last one they know.
Follows(k) == generations[k] = 0 \/ package[k].generation = generations[k] + 1

Put(k, r) ==
  /\ active' = [active EXCEPT ![k] = r]
  /\ generations' = [generations EXCEPT ![k] = package[k].generation]

\* Fault: disabling leaves the package in the registry.
NotDisabled(k) == FALSE

Disables(k) == package[k].state \in {"Disabled", "Revoked"} /\ active[k] # NoRelease

\* apply_registry_visibility
Show ==
  /\ process = "up" /\ doing.op = "show"
  /\ LET r == doing.plan.release
         k == PackageOf[r]
         shown == IF package[k].state = "Enabled" THEN r ELSE NoRelease
     IN IF Follows(k) /\ (package[k].state = "Enabled" \/ Disables(k))
        THEN Put(k, shown)
        ELSE UNCHANGED <<active, generations>>
  /\ doing' = Idle
  /\ UNCHANGED <<store, process, keyring, outside, faults>>

-------------------------------------------------------------------------------
(* Distribution to an executor, by way of a remote action (Federation).      *)

\* verified_distribution_inputs
Distributable(plan) ==
  /\ plan.at = version
  /\ plan.release \in bundles /\ CurrentGrant(plan.release) /\ Verifiable(plan.release)
  /\ package[PackageOf[plan.release]].state # "Revoked"

\* CapabilityDistributionGuard::recheck, before the dispatch leaves.
AuthorizeDistribution(plan) ==
  /\ Free /\ plan \in plans /\ plan.op = "Distribute"
  /\ Distributable(plan) /\ Claims(plan)
  /\ dispatches' = dispatches \cup {[plan |-> plan, live |-> TRUE]}
  /\ UNCHANGED <<version, grant, admission, package, bundles, attempts, distributions,
                 memory, plans, ledger, installed, faults>>

\* The lease is released, or the peer or the epoch replaced.
FenceLease(d) ==
  /\ d.live /\ Fault
  /\ dispatches' = (dispatches \ {d}) \cup {[d EXCEPT !.live = FALSE]}
  /\ UNCHANGED <<store, memory, plans, ledger, installed>>

\* read_records_locked fails on a record it cannot decode.
Readable == \A r \in Releases : ledger[r] # TornRecord

\* Fault: a second dispatch overwrites the record of the first.
InstallsOver(r, plan) ==
  /\ ledger' = [ledger EXCEPT ![r] = plan]
  /\ installed' = [installed EXCEPT ![r] = MaxOf({installed[x] : x \in Releases}) + 1]
  /\ UNCHANGED faults

\* FileCapabilityPackageLedger::install: the bundle, then its record; what a
\* release was installed by never changes.  The executor may stop between
\* creating either file and writing it.
Installs(r, plan) ==
  /\ ledger[r] = NoPlan
  /\ \/ /\ Readable
        /\ ledger' = [ledger EXCEPT ![r] = plan]
        /\ installed' = [installed EXCEPT ![r] = MaxOf({installed[x] : x \in Releases}) + 1]
        /\ UNCHANGED faults
     \/ /\ Readable /\ Fault
        /\ ledger' = [ledger EXCEPT ![r] = TornRecord] /\ UNCHANGED installed
     \/ Fault /\ ledger' = [ledger EXCEPT ![r] = TornBundle] /\ UNCHANGED installed

\* CapabilityPackageReceiver::receive: first the dependencies' records.
Receive(d) ==
  /\ \A x \in DependsOn[d.plan.release] : ledger[x] \in Plans
  /\ Installs(d.plan.release, d.plan)
  /\ UNCHANGED <<store, memory, plans, dispatches>>

\* Fault: any record of the release is taken for a proof.
Reported(plan) == ledger[plan.release] # NoPlan

\* CapabilityPackageLedgerGroundTruth::observe: the record must name the very
\* envelope, and with it the plan, that was dispatched.
Proven(plan) == ledger[plan.release] = plan

\* record_distribution_attempt
Attempted(plan) == attempts' = attempts \cup {plan}

\* record_verified_distribution writes the attempt ...
Attempt(d) ==
  /\ Free /\ Proven(d.plan) /\ Distributable(d.plan) /\ d.plan \notin distributions
  /\ Attempted(d.plan)
  /\ doing' = [op |-> "record", plan |-> d]
  /\ UNCHANGED <<version, grant, admission, package, bundles, nonces, distributions,
                 process, keyring, active, generations, outside, faults>>

\* ... and commits the event if the lease still binds it.
Recordable(d) ==
  /\ d \in dispatches /\ d.live
  /\ d.plan.at = version /\ d.plan \in attempts /\ d.plan \notin distributions
  /\ CurrentGrant(d.plan.release) /\ grant[PublisherOf[d.plan.release]].status = "active"
  /\ package[PackageOf[d.plan.release]].state # "Revoked"

ProjectDistribution(d) == distributions' = distributions \cup {d.plan}

Record ==
  /\ process = "up" /\ doing.op = "record"
  /\ IF Recordable(doing.plan)
     THEN ProjectDistribution(doing.plan) /\ Committed
     ELSE UNCHANGED <<distributions, version>>
  /\ doing' = Idle
  /\ UNCHANGED <<grant, admission, package, bundles, nonces, attempts,
                 process, keyring, active, generations, outside, faults>>

-------------------------------------------------------------------------------
(* Crash and restart.                                                        *)

Crash ==
  /\ process = "up" /\ Fault
  /\ process' = "down"
  /\ keyring' = {} /\ doing' = Idle
  /\ active' = [k \in Packages |-> NoRelease]
  /\ generations' = [k \in Packages |-> 0]
  /\ UNCHANGED <<store, outside>>

Enabled == {k \in Packages : package[k].state = "Enabled"}
Revoked(k) == grant[PublisherOf[package[k].release]].status = "revoked"

\* rebuild_registry: every enabled package must verify again, under the grant
\* it was admitted with; a revoked publisher's packages are passed over.
Rebuildable(k, keys) ==
  /\ package[k].release \in bundles /\ CurrentGrant(package[k].release)
  /\ Active(PublisherOf[package[k].release]) /\ PublisherOf[package[k].release] \in keys

\* new_with_keyring; local() starts from an empty keyring.
Boot(keys) ==
  /\ process # "up"
  /\ LET standing == {k \in Enabled : ~Revoked(k)}
     IN IF \A k \in standing : Rebuildable(k, keys)
        THEN /\ process' = "up" /\ keyring' = keys
             /\ active' = [k \in Packages |-> IF k \in standing THEN package[k].release ELSE NoRelease]
             /\ generations' = [k \in Packages |-> IF k \in standing THEN package[k].generation ELSE 0]
        ELSE process' = "failed" /\ UNCHANGED <<keyring, active, generations>>
  /\ UNCHANGED <<store, doing, outside, faults>>

-------------------------------------------------------------------------------
Init ==
  /\ version = 0
  /\ grant = [p \in Publishers |->
       [version |-> 0, status |-> "none", expired |-> FALSE, scope |-> AnyScope]]
  /\ admission = [r \in Releases |-> [grant |-> 0, scope |-> AnyScope]]
  /\ package = [k \in Packages |-> [state |-> "Admitted", release |-> NoRelease, generation |-> 0]]
  /\ bundles = {} /\ nonces = [n \in Nonces |-> NoPlan]
  /\ attempts = {} /\ distributions = {}
  /\ process = "down" /\ keyring = {} /\ doing = Idle
  /\ active = [k \in Packages |-> NoRelease]
  /\ generations = [k \in Packages |-> 0]
  /\ plans = {} /\ dispatches = {}
  /\ ledger = [r \in Releases |-> NoPlan] /\ installed = [r \in Releases |-> 0]
  /\ faults = 0

Next ==
  \/ \E p \in Publishers :
       \/ ConfigureKey(p) \/ Expire(p)
       \/ \E status \in {"active", "revoked"}, scope \in Scopes : Provision(p, status, scope)
  \/ FencePackages
  \/ \E r \in Releases : Archive(r) \/ \E op \in Operations : Prepare(op, r)
  \/ Admit
  \/ \E plan \in plans : Approve(plan) \/ AuthorizeDistribution(plan)
  \/ Commit \/ Show
  \/ \E d \in dispatches : FenceLease(d) \/ Receive(d) \/ Attempt(d)
  \/ Record \/ Crash
  \/ \E keys \in SUBSET Publishers : Boot(keys)

Spec == Init /\ [][Next]_vars

-------------------------------------------------------------------------------
(* Properties.                                                               *)

\* The variables have their types.
TypeOK ==
  /\ version \in Nat /\ faults \in 0..MaxFaults
  /\ \A p \in Publishers : grant[p] \in [version : 0..MaxGrants, status : {"none", "active", "revoked"},
                                        expired : BOOLEAN, scope : Scopes]
  /\ \A r \in Releases : admission[r] \in [grant : 0..MaxGrants, scope : Scopes]
  /\ \A k \in Packages : package[k] \in [state : Lifecycle, release : Releases \cup {NoRelease}, generation : Nat]
  /\ bundles \subseteq Releases /\ attempts \subseteq Plans /\ distributions \subseteq Plans
  /\ \A n \in Nonces : nonces[n] \in Plans \cup {NoPlan}
  /\ process \in {"up", "down", "failed"} /\ keyring \subseteq Publishers
  /\ active \in [Packages -> Releases \cup {NoRelease}] /\ generations \in [Packages -> Nat]
  /\ doing.op \in {"none", "fence", "admit", "change", "show", "record"}
  /\ plans \subseteq Plans /\ dispatches \subseteq [plan : Plans, live : BOOLEAN]
  /\ ledger \in [Releases -> Files] /\ installed \in [Releases -> Nat]

\* Between operations the registry shows exactly the enabled packages, each
\* at its stored release and generation, except those of a revoked publisher;
\* of these it may still show one that the revocation did not list, because
\* it was projected under another scope than the revoking grant's.
RegistryFollowsStore ==
  process = "up" /\ doing.op \notin {"fence", "show"} =>
    \A k \in Packages :
      /\ k \in Enabled /\ ~Revoked(k) => active[k] = package[k].release
      /\ active[k] # NoRelease =>
           /\ k \in Enabled /\ active[k] = package[k].release
           /\ generations[k] = package[k].generation
           /\ Revoked(k) => ~Listed(k, grant[PublisherOf[active[k]]].scope)

\* The ecosystem version counts the committed mutations: no plan, grant or
\* receipt is applied twice, and none is committed without its version.
VersionCountsMutations ==
  LET Count(f, S) == Cardinality({y \in S \X (1..version) : y[2] <= f[y[1]]})
  IN version = Count([p \in Publishers |-> grant[p].version], Publishers)
             + Cardinality({r \in Releases : admission[r].grant # 0})
             + Count([k \in Packages |-> package[k].generation], Packages)
             + Cardinality(distributions)

\* Every change of a package was paid for with an approval of its own.
ChangesAreApproved ==
  \A k \in Packages :
    package[k].generation <= Cardinality({n \in Nonces :
      nonces[n] # NoPlan /\ PackageOf[nonces[n].release] = k /\ nonces[n].op # "Distribute"})

\* A distribution is recorded only if the owner approved that very plan and
\* the executor's ledger shows that it was installed by it.
DistributionIsProven ==
  \A plan \in distributions : ledger[plan.release] = plan /\ \E n \in Nonces : nonces[n] = plan

\* What an enabled package is rebuilt from after a restart, its body and its
\* admission, is durable before the package is enabled.
EnabledIsRebuildable ==
  \A k \in Enabled : package[k].release \in bundles /\ admission[package[k].release].grant # 0

\* Once a publisher is revoked nothing of it is admitted, changed or recorded
\* as distributed; and a revoked package never leaves that state.
RevocationIsFinal ==
  /\ \A r \in Releases : grant[PublisherOf[r]].status = "revoked" =>
       /\ admission'[r] = admission[r]
       /\ \A plan \in distributions' \ distributions : plan.release # r
       /\ package'[PackageOf[r]] # package[PackageOf[r]] => package'[PackageOf[r]].release # r
  /\ \A k \in Packages : package[k].state = "Revoked" => package'[k] = package[k]

\* What the executor recorded once it never records again, and its generations
\* number the installations.
LedgerIsImmutable ==
  \A r \in Releases :
      /\ ledger[r] \in Plans => ledger'[r] = ledger[r] /\ installed'[r] = installed[r]
      /\ installed'[r] # installed[r] => \A x \in Releases : installed[x] < installed'[r]

\* What the store, the registry and the executor's ledger agree on.
EcosystemIsSound ==
  /\ TypeOK /\ RegistryFollowsStore /\ VersionCountsMutations
  /\ ChangesAreApproved /\ DistributionIsProven /\ EnabledIsRebuildable

\* Neither a revocation nor a ledger entry is ever undone (append_ecosystem_event,
\* EcosystemExecutor::install).
NothingIsUndone == [][RevocationIsFinal /\ LedgerIsImmutable]_vars

\* The lifecycle that the package states implement.
Governed == INSTANCE PackageLifecycle WITH
  state <- [k \in Packages |-> package[k].state],
  release <- [k \in Packages |-> package[k].release],
  generation <- [k \in Packages |-> package[k].generation]

FollowsLifecycle == Governed!Spec
=============================================================================
