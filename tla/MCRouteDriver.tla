--------------------------- MODULE MCRouteDriver ---------------------------
(***************************************************************************)
(* Instances of RouteDriver for TLC: every graph over the nodes with at    *)
(* most one edge from each node to each other node.                        *)
(***************************************************************************)
EXTENDS RouteDriver, TLC

Pairs == {p \in Nodes \X Nodes : p[1] # p[2]}

AllGraphs ==
  {{[from |-> p[1], to |-> p[2], on_failure |-> f[p]] : p \in {q \in Pairs : f[q] # "none"}} :
     f \in [Pairs -> Policies \cup {"none"}]}

MCOrder == [n \in Nodes |-> CASE n = "a" -> 1 [] n = "b" -> 2 [] n = "c" -> 3]

\* Node "c" costs more than the parent has.
MCCost == [n \in Nodes |-> IF n = "c" THEN 3 ELSE 1]
=============================================================================
