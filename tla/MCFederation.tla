---------------------------- MODULE MCFederation ----------------------------
(***************************************************************************)
(* Instances of Federation for TLC: a client submits the same intent in    *)
(* two runs.                                                               *)
(***************************************************************************)
EXTENDS Federation

MCActionOf == [r \in Runs |-> "act"]
=============================================================================
