----------------------------- MODULE RouteDriver -----------------------------
(***************************************************************************)
(* ReactiveHarness::execute_route (crates/harness/src/lib.rs): the loop    *)
(* that drives a RouteRuntime by spawning one subagent after another.  It  *)
(* never calls retry and cancel_parent of the runtime, and does not look   *)
(* at the parent run's cancellation.                                       *)
(***************************************************************************)
EXTENDS Route

CONSTANT Order   \* Order[n]: node n's place in ExecutionRoute.nodes

\* validate_route lets no id occur twice.
ASSUME OrderAssumption == Order \in [Nodes -> Nat] /\ \A m, n \in Nodes : Order[m] = Order[n] => m = n

VARIABLES
  pc,               \* where execute_route is
  batch             \* the nodes still to be started in this round

driverVars == <<vars, pc, batch>>

\* The one of the nodes ns that the round comes to first.
First(ns) == CHOOSE n \in ns : \A m \in ns : Order[n] <= Order[m]

\* The top of the while loop.
Round ==
  /\ pc = "round"
  /\ batch' = Runnable(state)
  /\ pc' = CASE status # "Running" -> "returned"
             [] status = "Running" /\ batch' = {} -> "no runnable node"
             [] status = "Running" /\ batch' # {} -> "start"
  /\ UNCHANGED vars

\* start of the next node of the round; an error leaves the loop.
StartNode ==
  /\ pc = "start"
  /\ IF First(batch) \in Runnable(state) /\ Affordable(First(batch))
     THEN Start(First(batch)) /\ pc' = "spawned"
     ELSE pc' = "start refused" /\ UNCHANGED vars
  /\ UNCHANGED batch

\* Fault: the round goes on after the route has stopped.
RoundGoesOn == batch' # {}
RoundContinues == status' = "Running" /\ batch' # {}

\* spawn_subagent returns: a child that completed, or anything else.
ChildReturns ==
  /\ pc = "spawned"
  /\ Complete(First(batch)) \/ Fail(First(batch))
  /\ batch' = batch \ {First(batch)}
  /\ pc' = IF RoundContinues THEN "start" ELSE "round"

DriverInit ==
  /\ Init
  /\ pc = IF status = "Rejected" THEN "returned" ELSE "round"
  /\ batch = {}

DriverNext == Round \/ StartNode \/ ChildReturns

\* The driving thread is scheduled and a child's wait returns: a child run
\* that was submitted is suspended or ends.
DriverSpec == DriverInit /\ [][DriverNext]_driverVars /\ WF_driverVars(DriverNext)

Halted == pc \in {"returned", "no runnable node", "start refused"}

-----------------------------------------------------------------------------
(* Properties                                                              *)

\* execute_route: the error "execution route has no runnable node" is never
\* returned: a route that is still running always has a node to start.
AlwaysRunnable == pc # "no runnable node"

\* execute_route: no subagent is started before the nodes it depends on are
\* done, or have failed with an edge that tolerates it, and its dependencies
\* are never reopened afterwards.
StartedAfterDependencies ==
  \A e \in edges : attempts[e.to] > 0 =>
    \/ state[e.from] = "Done"
    \/ state[e.from] = "Failed" /\ e.on_failure = "Continue"

\* A start is refused only for want of budget: the nodes collected for a
\* round stay runnable while others of the round fail.
RefusedOnlyForBudget ==
  pc = "start refused" => Cost[First(batch)] = 0 \/ Cost[First(batch)] > Total

\* execute_route returns, and then every unit is back with the parent.
RouteReturns == <>[](Halted /\ remaining = Total)

\* What execute_route promises of the children it starts.
DriverIsSound == AlwaysRunnable /\ RefusedOnlyForBudget /\ StartedAfterDependencies
=============================================================================
