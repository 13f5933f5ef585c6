---------------------------- MODULE MCEventStore ----------------------------
(***************************************************************************)
(* Instances of EventStore for TLC.  Handle "a" indexes text at schema 1,  *)
(* "b" does not index and writes schema 2, "c" indexes at schema 2.        *)
(***************************************************************************)
EXTENDS EventStore, TLC

MCSchema == [h \in Handles |-> IF h = "a" THEN 1 ELSE 2]
LogSchema == [h \in Handles |-> 1]

Ev(i, r, k, b, s) == [id |-> i, run |-> r, key |-> k, body |-> b, schema |-> s]

\* Retries, colliding ids, a domain key reused with equal and with different
\* semantics, and in another run.
LogInputs ==
  {Ev("e1", "r1", "k", "p", 1), Ev("e2", "r1", "k", "p", 1), Ev("e2", "r2", "k", "p", 1),
   Ev("e2", "r2", "k", "q", 1), Ev("e3", "r1", None, "p", 1), Ev("e4", "r1", None, "p", 1)}

\* One event per schema and one without text.
TextInputs == {Ev("e1", "r1", None, "p", 1), Ev("e2", "r1", None, "p", 2),
               Ev("e3", "r2", None, "q", 2)}

\* Two implementations compete for the step from schema 1 to schema 2.
MCEdges == {[from |-> 1, to |-> 2, impl |-> i] : i \in {"x", "y"}}
=============================================================================
