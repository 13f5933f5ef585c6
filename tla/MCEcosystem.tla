---------------------------- MODULE MCEcosystem ----------------------------
(***************************************************************************)
(* An instance of Ecosystem for TLC: one publisher and one package in two  *)
(* releases, the second of which declares the first as a dependency.       *)
(***************************************************************************)
EXTENDS Ecosystem

MCPackageOf == [r \in Releases |-> "app"]
MCPublisherOf == [r \in Releases |-> "p1"]
MCDependsOn == [r \in Releases |-> IF r = "app2" THEN {"app1"} ELSE {}]
=============================================================================
