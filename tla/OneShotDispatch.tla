--------------------------- MODULE OneShotDispatch ---------------------------
(***************************************************************************)
(* What remote dispatch promises for an action, as the lease transition    *)
(* rules of docs/architecture/07-m4-federated-runtime-architecture.md      *)
(* (5.1) state it: its lease is live once, it is claimed and sent once     *)
(* while the lease is live, and what becomes an authority fact does so     *)
(* under a live lease or before any claim.  The rules know of no threads,  *)
(* lock, memory, crashes, messages or runs.                                *)
(***************************************************************************)
EXTENDS Naturals

CONSTANT Actions

VARIABLES
  granted,   \* the executor may be given new leases
  stage,     \* how far the action has come: open, leased, claimed
  live,      \* its lease is acquired and not yet terminal
  sent,      \* requests that left for the executor
  effect,    \* what the executor's driver did to the world
  verdict    \* the terminal facts recorded about the action

vars == <<granted, stage, live, sent, effect, verdict>>

Concludes(a, fact) == verdict' = [verdict EXCEPT ![a] = @ \cup {fact}]

Lease(a) ==
  /\ granted /\ stage[a] = "open"
  /\ stage' = [stage EXCEPT ![a] = "leased"]
  /\ live' = [live EXCEPT ![a] = TRUE]
  /\ UNCHANGED <<granted, sent, effect, verdict>>

\* The dispatch ledger changes before the network attempt.
Claim(a) ==
  /\ granted /\ live[a] /\ stage[a] = "leased" /\ "failed" \notin verdict[a]
  /\ stage' = [stage EXCEPT ![a] = "claimed"]
  /\ UNCHANGED <<granted, live, sent, effect, verdict>>

Dispatch(a) ==
  /\ granted /\ live[a] /\ stage[a] = "claimed" /\ sent[a] = 0
  /\ sent' = [sent EXCEPT ![a] = 1]
  /\ UNCHANGED <<granted, stage, live, effect, verdict>>

\* A terminal lease does not stop the executor.
TakeEffect(a, e) ==
  /\ sent[a] = 1 /\ effect[a] = "none"
  /\ effect' = [effect EXCEPT ![a] = e]
  /\ UNCHANGED <<granted, stage, live, sent, verdict>>

Complete(a) ==
  /\ live[a] /\ effect[a] = "ok"
  /\ Concludes(a, "completed")
  /\ UNCHANGED <<granted, stage, live, sent, effect>>

\* Recovery finds a lease whose dispatch was never claimed.
NotDispatched(a) ==
  /\ stage[a] = "leased"
  /\ Concludes(a, "failed")
  /\ UNCHANGED <<granted, stage, live, sent, effect>>

\* Released or fenced.
EndLease(a) ==
  /\ live[a] /\ live' = [live EXCEPT ![a] = FALSE]
  /\ UNCHANGED <<granted, stage, sent, effect, verdict>>

\* A change of the registry fences every live lease; a revoked grant does
\* not come back.
AdvanceEpoch(allowed) ==
  /\ allowed => granted
  /\ granted' = allowed
  /\ live' = [a \in Actions |-> FALSE]
  /\ UNCHANGED <<stage, sent, effect, verdict>>

Init ==
  /\ granted = TRUE
  /\ stage = [a \in Actions |-> "open"] /\ live = [a \in Actions |-> FALSE]
  /\ sent = [a \in Actions |-> 0] /\ effect = [a \in Actions |-> "none"]
  /\ verdict = [a \in Actions |-> {}]

Next ==
  \/ \E a \in Actions :
       \/ Lease(a) \/ Claim(a) \/ Dispatch(a) \/ \E e \in {"ok", "failed"} : TakeEffect(a, e)
       \/ Complete(a) \/ NotDispatched(a) \/ EndLease(a)
  \/ \E allowed \in BOOLEAN : AdvanceEpoch(allowed)

Spec == Init /\ [][Next]_vars
=============================================================================
