------------------------------- MODULE Route -------------------------------
(***************************************************************************)
(* RouteRuntime and BudgetLedger of crates/coordination: the state machine *)
(* of an execution route, a graph of subtasks that share their parent's    *)
(* budget.  One action per public operation; a call that returns an error  *)
(* changes nothing.  The route's contents (instructions, roles, done       *)
(* contracts) are left out; its results are the nodes in state Done.       *)
(***************************************************************************)
EXTENDS Naturals, FiniteSets

CONSTANTS
  Nodes,         \* subtask ids
  Graphs,        \* the edge sets that callers submit as a route
  Cost,          \* Cost[n]: budget units of node n's role
  Total,         \* the parent's budget
  MaxAttempts,   \* RetryPolicy.max_attempts of every node
  RetryIntents   \* intent ids that retries are made with

Policies == {"AbortRoute", "Continue", "Replan"}
Edge == [from: Nodes, to: Nodes, on_failure: Policies]
NodeStates == {"Pending", "Running", "Done", "Failed", "Cancelled", "OutcomeUnknown"}
Statuses == {"Running", "Completed", "Failed", "Cancelled", "ReplanRequested", "Rejected"}

ASSUME RouteAssumption ==
  /\ IsFiniteSet(Nodes)
  /\ Graphs \subseteq SUBSET Edge
  /\ Cost \in [Nodes -> Nat]
  /\ Total \in Nat
  /\ MaxAttempts \in Nat

VARIABLES
  edges,       \* the route
  state,       \* state[n]
  attempts,    \* attempts[n]
  retried,     \* intent_attempts: pairs <<node, intent>>
  remaining,   \* the ledger's remaining units
  reserved,    \* reserved[n]: the ledger's reservation of node n, 0 if none
  status

vars == <<edges, state, attempts, retried, remaining, reserved, status>>

-----------------------------------------------------------------------------
\* Fault: only self loops are looked for.
NoSelfLoop(g) == \A e \in g : e.from # e.to

\* Nodes of indegree 0 are removed round by round.
Removed(g) ==
  LET removed[k \in 0..Cardinality(Nodes)] ==
        IF k = 0 THEN {}
        ELSE {n \in Nodes : \A e \in g : e.to = n => e.from \in removed[k - 1]}
  IN  removed

\* validate_route: no self loop, and every node is removed.
ValidRoute(g) == NoSelfLoop(g) /\ Removed(g)[Cardinality(Nodes)] = Nodes

\* Faults: one dependency is enough; a failure is never tolerated.
AnyDependencySatisfied(st, n) ==
  \/ \A e \in edges : e.to # n
  \/ \E e \in edges : e.to = n /\ st[e.from] = "Done"

DependenciesDone(st, n) == \A e \in edges : e.to = n => st[e.from] = "Done"

\* dependencies_satisfied and runnable, for the states st.
DependenciesSatisfied(st, n) ==
  \A e \in edges : e.to = n =>
    \/ st[e.from] = "Done"
    \/ st[e.from] = "Failed" /\ e.on_failure = "Continue"

Runnable(st) ==
  {n \in Nodes : status = "Running" /\ st[n] = "Pending" /\ DependenciesSatisfied(st, n)}

\* Fault: a route is over when nothing runs.
NoneRunning(st) == \A n \in Nodes : st[n] # "Running"

\* all_terminal_with_tolerated_failures, for the states st.
AllTolerated(st) ==
  \A n \in Nodes :
    \/ st[n] = "Done"
    \/ st[n] = "Failed" /\ \A e \in edges : e.from = n => e.on_failure = "Continue"

\* Fault: the reservation is forgotten instead of given back.
ReleaseLost(ns) ==
  /\ remaining' = remaining
  /\ reserved' = [n \in Nodes |-> IF n \in ns THEN 0 ELSE reserved[n]]

\* The units that the nodes ns hold, each by its node and number.
Units(ns) == UNION {{n} \X (1..reserved[n]) : n \in ns}

\* BudgetLedger::release for a set of nodes.
Release(ns) ==
  /\ remaining' = remaining + Cardinality(Units(ns))
  /\ reserved' = [n \in Nodes |-> IF n \in ns THEN 0 ELSE reserved[n]]

Unfinished == {n \in Nodes : state[n] \in {"Pending", "Running"}}

\* Fault: only the nodes that have not started are cancelled.
CancelPending(st) ==
  [n \in Nodes |-> IF st[n] = "Pending" THEN "Cancelled" ELSE st[n]]

\* cancel_unfinished, on the states st.
CancelUnfinished(st) ==
  [n \in Nodes |-> IF st[n] \in {"Pending", "Running"} THEN "Cancelled" ELSE st[n]]

-----------------------------------------------------------------------------
\* Fault: a reservation is not checked against what is left.
AffordableOnce(n) == Cost[n] > 0 /\ reserved[n] = 0 /\ Cost[n] <= Total

\* BudgetLedger::reserve succeeds.
Affordable(n) == Cost[n] > 0 /\ reserved[n] = 0 /\ Cost[n] <= remaining

Start(n) ==
  /\ n \in Runnable(state)
  /\ Affordable(n)
  /\ remaining' = remaining - Cost[n]
  /\ reserved' = [reserved EXCEPT ![n] = Cost[n]]
  /\ state' = [state EXCEPT ![n] = "Running"]
  /\ attempts' = [attempts EXCEPT ![n] = @ + 1]
  /\ UNCHANGED <<edges, retried, status>>

Complete(n) ==
  /\ state[n] = "Running"
  /\ Release({n})
  /\ state' = [state EXCEPT ![n] = "Done"]
  /\ status' = IF AllTolerated(state') THEN "Completed" ELSE status
  /\ UNCHANGED <<edges, attempts, retried>>

FailurePolicies(n) == {e.on_failure : e \in {x \in edges : x.from = n}}

\* The failed node's outgoing edges decide: abort the route, ask for a new
\* plan, or go on if another node can run.
Fail(n) ==
  LET failed == [state EXCEPT ![n] = "Failed"]
  IN  /\ state[n] = "Running"
      /\ \/ /\ "AbortRoute" \in FailurePolicies(n)
            /\ status' = "Failed"
            /\ state' = CancelUnfinished(failed)
            /\ Release(Unfinished)
         \/ /\ "AbortRoute" \notin FailurePolicies(n) /\ "Replan" \in FailurePolicies(n)
            /\ status' = "ReplanRequested"
            /\ state' = CancelUnfinished(failed)
            /\ Release(Unfinished)
         \/ /\ FailurePolicies(n) \subseteq {"Continue"}
            /\ state' = failed
            /\ status' = IF Runnable(failed) = {} THEN "Failed" ELSE status
            /\ Release({n})
      /\ UNCHANGED <<edges, attempts, retried>>

\* Fault: a retry with a used intent id counts as a new one.
NewIntentAlways(n, i) == TRUE
NewIntent(n, i) == <<n, i>> \notin retried

\* retry of a failed node whose side effect may have happened.
RetryUnknown(n) ==
  /\ state[n] = "Failed"
  /\ state' = [state EXCEPT ![n] = "OutcomeUnknown"]
  /\ status' = "Failed"
  /\ UNCHANGED <<edges, attempts, retried, remaining, reserved>>

\* retry of a failed node known to have had no effect: once per intent id
\* and up to max_attempts.  The intent id is used up in every case.
Retry(n, i) ==
  /\ state[n] = "Failed"
  /\ retried' = retried \cup {<<n, i>>}
  /\ IF NewIntent(n, i) /\ attempts[n] < MaxAttempts
     THEN /\ state' = [state EXCEPT ![n] = "Pending"]
          /\ status' = "Running"
     ELSE UNCHANGED <<state, status>>
  /\ UNCHANGED <<edges, attempts, remaining, reserved>>

CancelParent ==
  /\ status # "Rejected"
  /\ status' = "Cancelled"
  /\ state' = CancelUnfinished(state)
  /\ Release(Unfinished)
  /\ UNCHANGED <<edges, attempts, retried>>

\* RouteRuntime::new; a rejected route has no runtime.
Init ==
  /\ edges \in Graphs
  /\ state = [n \in Nodes |-> "Pending"]
  /\ attempts = [n \in Nodes |-> 0]
  /\ retried = {}
  /\ remaining = Total
  /\ reserved = [n \in Nodes |-> 0]
  /\ status = IF ~ValidRoute(edges) THEN "Rejected"
              ELSE IF Nodes = {} THEN "Completed" ELSE "Running"

Next ==
  \/ \E n \in Nodes : Start(n)
  \/ \E n \in Nodes : Complete(n)
  \/ \E n \in Nodes : Fail(n)
  \/ \E n \in Nodes : RetryUnknown(n)
  \/ \E n \in Nodes, i \in RetryIntents : Retry(n, i)
  \/ CancelParent

Spec == Init /\ [][Next]_vars

-----------------------------------------------------------------------------
(* Properties                                                              *)

\* The runtime's maps and the ledger have the types of the Rust structures;
\* the ledger's units are unsigned.
TypeOK ==
  /\ edges \subseteq Edge
  /\ state \in [Nodes -> NodeStates]
  /\ attempts \in [Nodes -> Nat]
  /\ retried \subseteq Nodes \X RetryIntents
  /\ remaining \in Nat
  /\ reserved \in [Nodes -> Nat]
  /\ status \in Statuses

\* validate_route accepts exactly the acyclic graphs: those without a set of
\* nodes in which each has a predecessor.
AcceptsAcyclic ==
  status = "Rejected" <=>
    \E S \in (SUBSET Nodes) \ {{}} :
      \A n \in S : \E e \in edges : e.to = n /\ e.from \in S

\* BudgetLedger: a node holds units exactly while it runs, through
\* completion, failure, abort, replan, cancel and retry.
ReservedIffRunning ==
  \A n \in Nodes : reserved[n] = IF state[n] = "Running" THEN Cost[n] ELSE 0

\* BudgetLedger (prd/12: the children's units are reserved atomically from
\* the parent's and given back): no unit is lost or made up.
BudgetConserved == remaining + Cardinality(Units(Nodes)) = Total

\* A route that asked for a new plan, was cancelled or completed has no
\* node left that runs or could still be started.
StoppedMeansQuiet ==
  status \in {"Completed", "Cancelled", "ReplanRequested"} => Unfinished = {}

\* retry: however retries, cancels and failures interleave, a node runs at
\* most once more per distinct retry intent, and never more often than its
\* policy allows.
RetriesAreBounded ==
  \A n \in Nodes :
    /\ attempts[n] <= 1 + Cardinality({p \in retried : p[1] = n})
    /\ attempts[n] <= IF MaxAttempts = 0 THEN 1 ELSE MaxAttempts

\* What a route's graph and ledger promise.
RouteIsSound == TypeOK /\ AcceptsAcyclic /\ BudgetConserved

\* What RouteRuntime promises of the nodes that run.
RuntimeIsSound == ReservedIffRunning /\ StoppedMeansQuiet /\ RetriesAreBounded
=============================================================================
