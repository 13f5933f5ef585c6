-------------------------- MODULE PackageLifecycle --------------------------
(***************************************************************************)
(* What the ecosystem promises of a capability package, as                 *)
(* docs/architecture/m5-b-protocol-compatibility.md states it: a package   *)
(* is installed once, then enabled and disabled; its release only changes  *)
(* while it is enabled; it may be revoked from any state and stays so;     *)
(* every change has the next generation.                                   *)
(***************************************************************************)
EXTENDS Naturals

CONSTANTS Packages, Releases, PackageOf, NoRelease
VARIABLES state, release, generation

vars == <<state, release, generation>>

Changes(k, to, r) ==
  /\ PackageOf[r] = k
  /\ state' = [state EXCEPT ![k] = to]
  /\ release' = [release EXCEPT ![k] = r]
  /\ generation' = [generation EXCEPT ![k] = @ + 1]

Install(k, r) == state[k] = "Admitted" /\ Changes(k, "Installed", r)
Enable(k) == state[k] \in {"Installed", "Disabled"} /\ Changes(k, "Enabled", release[k])
Disable(k) == state[k] = "Enabled" /\ Changes(k, "Disabled", release[k])
Switch(k, r) == state[k] = "Enabled" /\ r # release[k] /\ Changes(k, "Enabled", r)
Revoke(k, r) ==
  /\ state[k] # "Revoked" /\ release[k] \in {r, NoRelease}
  /\ Changes(k, "Revoked", r)

Init ==
  /\ state = [k \in Packages |-> "Admitted"]
  /\ release = [k \in Packages |-> NoRelease]
  /\ generation = [k \in Packages |-> 0]

Next ==
  \E k \in Packages :
    \/ Enable(k) \/ Disable(k)
    \/ \E r \in Releases : Install(k, r) \/ Switch(k, r) \/ Revoke(k, r)

Spec == Init /\ [][Next]_vars
=============================================================================
