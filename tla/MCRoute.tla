------------------------------- MODULE MCRoute -------------------------------
(***************************************************************************)
(* Instances of Route for TLC: every graph with at most one edge from each *)
(* node to each other node, with or without a self loop on one node.       *)
(***************************************************************************)
EXTENDS Route, TLC

Pairs == {p \in Nodes \X Nodes : p[1] # p[2] \/ p[1] = "a"}

\* At most one edge, of any policy, from each node to each node.
AllGraphs ==
  {{[from |-> p[1], to |-> p[2], on_failure |-> f[p]] : p \in {q \in Pairs : f[q] # "none"}} :
     f \in [Pairs -> Policies \cup {"none"}]}

MCCost == [n \in Nodes |-> IF n = "a" THEN 2 ELSE 1]

=============================================================================
