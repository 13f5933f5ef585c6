------------------------------- MODULE Harness -------------------------------
(***************************************************************************)
(* Runs of the reactive harness (crates/harness/src/lib.rs) with the       *)
(* approval broker (crates/approval) and the reactive loop (crates/loop).  *)
(*                                                                         *)
(* A run is accepted by a client's call, driven by one thread at a time    *)
(* under its session's lock, suspended on an approval, a handoff or an     *)
(* action of unknown outcome, resumed by the owner, cancelled from any     *)
(* thread, and abandoned when the process crashes; the next process scans  *)
(* the event log for actions whose outcome nobody wrote down.              *)
(*                                                                         *)
(* A step ends where the code releases a lock, commits the event that the  *)
(* recovery scan or the owner reacts to, or leaves the process (the        *)
(* action's effect).  Events committed in between belong to one step: a    *)
(* crash among them leaves a prefix that the recovery scan, which only     *)
(* looks at accepted, started, ended and outcome events, treats alike.     *)
(*                                                                         *)
(* The store is used as EventStore specifies it: an append whose domain    *)
(* key (run request, action intent) is already claimed with the same       *)
(* semantics succeeds and writes nothing.                                  *)
(***************************************************************************)
EXTENDS Naturals, Sequences, FiniteSets

CONSTANTS
  Clients,       \* callers of submit_run, start_run and submit_action
  Request,       \* Request[c]: what client c submits
  MaxRuns,       \* bound on run ids
  Intents,       \* action intent ids
  Policy,        \* Policy[i]: the policy engine's decision on intent i
  External,      \* intents for which is_external_action holds
  OneShotOnly,   \* ... for which requires_one_shot_approval holds
  Autonomous,    \* ... that meet the explicit L4 conditions
  FreshIntents,  \* TRUE: the model gives every proposal its own intent id
  MaxTurns,      \* Budget.max_turns
  MaxActions,    \* remaining_action_budget of a new run
  MaxCrashes,    \* bound on process crashes
  None

Runs == 1..MaxRuns
Decisions == {"Deny", "Ask", "Allow"}
Modes == {"Loop", "DirectAction"}
Terminals == {"RunComplete", "RunAborted", "RunFailed", "RunLimited"}
Outcomes == {"ActionCompleted", "ActionFailed", "ActionCancelled"}

\* The approval reference of a plan: none, or the run and turn that asked.
Approvals == {None} \cup (Runs \X (0..MaxTurns))

ASSUME HarnessAssumption ==
  /\ MaxRuns \in Nat \ {0} /\ MaxTurns \in Nat \ {0}
  /\ MaxActions \in Nat /\ MaxCrashes \in Nat
  /\ None \notin Runs /\ None \notin Intents /\ None \notin Clients
  /\ Policy \in [Intents -> Decisions]
  /\ OneShotOnly \subseteq External /\ External \subseteq Intents
  /\ Autonomous \subseteq External \ OneShotOnly
  /\ FreshIntents \in BOOLEAN
  /\ \A c \in Clients :
       /\ Request[c] # None
       /\ Request[c].mode \in Modes
       /\ Request[c].intent \in IF Request[c].mode = "DirectAction" THEN Intents ELSE {None}
       /\ Request[c].untrusted \in BOOLEAN

Keys == {Request[c].key : c \in Clients}
Sessions == {Request[c].session : c \in Clients}

VARIABLES
  log,        \* log[r]: the events of run r in the store
  accepted,   \* accepted[k]: the request whose RunAccepted claimed key k
  planned,    \* claimed action intents: [intent, approval]
  effects,    \* effects[i]: how often the outside world saw action i
  run,        \* run[r]: the RunHandle in the runs map, or Unregistered
  idem,       \* idem[k]: the in-memory idempotency map
  lock,       \* lock[s]: the run that holds the lock of session s
  call,       \* call[c]: progress of client c's submission
  nextRun,    \* run_sequence
  answers,    \* history: which run a submission was answered with
  booting,    \* TRUE while recover_unknown_outcomes runs
  crashes

storeVars == <<log, accepted, planned>>
vars == <<log, accepted, planned, effects, run, idem, lock, call, nextRun, answers, booting, crashes>>

E(kind, intent, info) == [kind |-> kind, intent |-> intent, info |-> info]
Ev(kind) == E(kind, None, None)

NoPending == [kind |-> "none", intent |-> None]

\* A RunRecord that nobody has registered.
Unregistered ==
  [state |-> "None", session |-> None, untrusted |-> FALSE, mode |-> "Loop", pending |-> NoPending,
   ticket |-> "none", result |-> None, cancelled |-> FALSE, cancelling |-> FALSE, turn |-> 0,
   budget |-> 0, driver |-> None, pc |-> "idle", intent |-> None, approval |-> None,
   outcome |-> None]

Registered(r) == run[r].state # "None"
Resting(r) == run[r].state \in {"Suspended", "Terminal"}

\* The record's mutex is held by the thread that drives the run, from the
\* moment it has the session lock.
RecordLocked(r) == run[r].pc \notin {"idle", "queued"}

-----------------------------------------------------------------------------
(* What the steps are made of                                              *)

Write(r, evs) == log' = [log EXCEPT ![r] = @ \o evs]

Idle(rec) == [rec EXCEPT !.pc = "idle", !.driver = None, !.intent = None,
                         !.approval = None, !.outcome = None]

\* finish_terminal, on the record.
Ended(rec, status) ==
  [rec EXCEPT !.state = "Terminal", !.result = status, !.pending = NoPending]

\* The driving thread finishes the run and returns.
Finish(r, evs, status) ==
  /\ Write(r, Append(evs, Ev(status)))
  /\ run' = [run EXCEPT ![r] = Idle(Ended(@, status))]
  /\ lock' = [lock EXCEPT ![run[r].session] = None]

\* deny_action
Deny(r, evs, i) == Finish(r, Append(evs, E("ActionDenied", i, None)), "RunAborted")

\* The driving thread suspends the run and returns.
Suspend(r, evs, kind, i, ticket) ==
  /\ Write(r, Append(evs, E("RunWaiting", i, kind)))
  /\ run' = [run EXCEPT ![r] = [Idle(@) EXCEPT !.state = "Suspended", !.ticket = ticket,
                                  !.pending = [kind |-> kind, intent |-> i]]]
  /\ lock' = [lock EXCEPT ![run[r].session] = None]

\* An error leaves resume() as it is: the run is neither suspended nor ended.
Abandon(r, evs) ==
  /\ Write(r, evs)
  /\ run' = [run EXCEPT ![r] = Idle(@)]
  /\ lock' = [lock EXCEPT ![run[r].session] = None]

\* Fault: no caller turns an error into a failed run.
RaiseUnhandled(r, evs) == Abandon(r, evs)

\* An error that leaves handle_tool or execute_action: a submission fails
\* the run (fail_prepared_run), resume_approval denies the approved action,
\* and a resume that has gone on driving hands the error to its caller.
Raise(r, evs) ==
  \/ run[r].driver = "submit"  /\ Finish(r, evs, "RunFailed")
  \/ run[r].driver = "approve" /\ Deny(r, evs, run[r].intent)
  \/ run[r].driver = "resume"  /\ Abandon(r, evs)

\* The driving thread goes on at another place.
Goto(r, evs, rec) ==
  /\ Write(r, evs)
  /\ run' = [run EXCEPT ![r] = rec]
  /\ UNCHANGED lock

\* continue_after_tool: the next turn.
NextTurn(rec) ==
  [rec EXCEPT !.pc = "loop", !.turn = @ + 1, !.intent = None, !.approval = None,
              !.outcome = None, !.driver = IF @ = "submit" THEN "submit" ELSE "resume"]

AtRun(r, pc) == ~booting /\ run[r].pc = pc
Other == <<accepted, planned, effects, idem, call, nextRun, answers, booting, crashes>>

-----------------------------------------------------------------------------
(* Submission: prepare_ingress_internal_as                                 *)

\* The in-memory idempotency map is consulted ...
SubmitLookup(c) ==
  /\ ~booting /\ call[c].pc = "start"
  /\ IF idem[Request[c].key] # None
     THEN /\ call' = [call EXCEPT ![c].pc = "done"]
          /\ answers' = answers \cup {[key |-> Request[c].key, run |-> idem[Request[c].key]]}
     ELSE /\ call' = [call EXCEPT ![c].pc = "miss"]
          /\ UNCHANGED answers
  /\ UNCHANGED <<storeVars, effects, run, idem, lock, nextRun, booting, crashes>>

\* A fresh run id; one that nothing is written under is not counted.
DrawRun == nextRun <= MaxRuns /\ nextRun' = nextRun + 1

\* ... a run id is drawn and RunAccepted appended: it is written when the
\* key is new, swallowed as a retry when the same request claimed it, and
\* refused when another one did ...
SubmitAccept(c) ==
  LET k == Request[c].key
  IN  /\ ~booting /\ call[c].pc = "miss"
      /\ \/ /\ accepted[k] = None
            /\ DrawRun
            /\ accepted' = [accepted EXCEPT ![k] = Request[c]]
            /\ Write(nextRun, <<E("RunAccepted", None, k)>>)
            /\ call' = [call EXCEPT ![c] = [pc |-> "accepted", run |-> nextRun]]
         \/ /\ accepted[k] = Request[c]
            /\ DrawRun
            /\ call' = [call EXCEPT ![c] = [pc |-> "accepted", run |-> nextRun]]
            /\ UNCHANGED <<log, accepted>>
         \/ /\ accepted[k] \notin {None, Request[c]}
            /\ call' = [call EXCEPT ![c].pc = "done"]
            /\ UNCHANGED <<log, accepted, nextRun>>
      /\ UNCHANGED <<planned, effects, run, idem, lock, answers, booting, crashes>>

\* ... and the run enters the two maps and its session's queue.
SubmitRegister(c) ==
  LET k == Request[c].key
      r == call[c].run
  IN  /\ ~booting /\ call[c].pc = "accepted"
      /\ run' = [run EXCEPT ![r] =
           [Unregistered EXCEPT !.state = "Accepted", !.session = Request[c].session,
              !.untrusted = Request[c].untrusted, !.mode = Request[c].mode, !.intent = Request[c].intent,
              !.budget = MaxActions, !.driver = "submit", !.pc = "queued"]]
      /\ idem' = [idem EXCEPT ![k] = r]
      /\ answers' = answers \cup {[key |-> k, run |-> r]}
      /\ call' = [call EXCEPT ![c].pc = "done"]
      /\ UNCHANGED <<storeVars, effects, lock, nextRun, booting, crashes>>

-----------------------------------------------------------------------------
(* Driving: bind_and_drive, drive, handle_tool                             *)

\* Fault: the session queue is not a lock.
AnySession(r) == TRUE
SessionFree(r) == lock[run[r].session] = None

\* drive_prepared_run takes the session lock and binds; binding can fail
\* before SessionBound, and coordination after it.
Bind(r) ==
  /\ AtRun(r, "queued")
  /\ SessionFree(r)
  /\ \/ /\ Write(r, <<Ev("SessionBound")>>)
        /\ lock' = [lock EXCEPT ![run[r].session] = r]
        /\ run' = [run EXCEPT ![r] =
             [@ EXCEPT !.state = "Running", !.pc = IF run[r].mode = "Loop" THEN "loop" ELSE "tool"]]
     \/ \E evs \in {<<>>, <<Ev("SessionBound")>>} : Finish(r, evs, "RunFailed")
     \/ run[r].mode = "Loop" /\ Finish(r, <<Ev("SessionBound")>>, "RunAborted")
  /\ UNCHANGED Other

\* drive: the cancellation flag is read at the top of every turn.
LoopCancelled(r) ==
  /\ AtRun(r, "loop")
  /\ run[r].cancelled
  /\ Finish(r, <<>>, "RunAborted")
  /\ UNCHANGED Other

Verified(ok) == E("VerificationFinished", None, IF ok THEN "Pass" ELSE "Fail")

\* The loop engine hits a limit, or the context or model call fails.
LoopStops(r) ==
  /\ AtRun(r, "loop") /\ ~run[r].cancelled
  /\ \E status \in {"RunLimited", "RunFailed"} :
       /\ run[r].turn < MaxTurns \/ status = "RunLimited"
       /\ Finish(r, <<>>, status)
  /\ UNCHANGED Other

\* The model answers with a final output, which is verified.
LoopFinal(r) ==
  /\ AtRun(r, "loop") /\ ~run[r].cancelled /\ run[r].turn < MaxTurns
  /\ \E ok \in BOOLEAN :
       Finish(r, <<Verified(ok)>>, IF ok THEN "RunComplete" ELSE "RunFailed")
  /\ UNCHANGED Other

\* Intent ids already in use.
Proposed ==
  {Request[c].intent : c \in Clients} \cup {run[r].intent : r \in Runs} \cup
  UNION {{log[r][n].intent : n \in 1..Len(log[r])} : r \in Runs}

\* The model proposes a tool call, with or without a resolvable intent.
LoopTool(r) ==
  /\ AtRun(r, "loop") /\ ~run[r].cancelled /\ run[r].turn < MaxTurns
  /\ \/ \E i \in Intents :
          /\ FreshIntents => i \notin Proposed
          /\ Goto(r, <<>>, [run[r] EXCEPT !.pc = "tool", !.intent = i])
     \/ Deny(r, <<E("ToolCallProposed", None, None)>>, None)
  /\ UNCHANGED Other

\* The model hands the run off.
LoopHandoff(r) ==
  /\ AtRun(r, "loop") /\ ~run[r].cancelled /\ run[r].turn < MaxTurns
  /\ Suspend(r, <<Ev("HandoffRequested")>>, "handoff", None, "none")
  /\ UNCHANGED Other

\* Fault: untrusted_ingress_policy_floor is left out.
FloorExternalOnly(r, i) ==
  IF Policy[i] = "Allow" /\ i \in External \ Autonomous THEN "Ask" ELSE Policy[i]

\* external_policy_floor, then untrusted_ingress_policy_floor.
Floor(r, i) ==
  IF Policy[i] = "Allow" /\ (i \in External \ Autonomous \/ run[r].untrusted)
  THEN "Ask" ELSE Policy[i]

\* handle_tool up to the decision: deny, suspend on an approval, or execute;
\* a plan the backend cannot make is an error.
ToolPolicy(r) ==
  LET i == run[r].intent
      proposed == <<E("ToolCallProposed", i, None)>>
      decided == Append(proposed, E("PolicyEvaluated", i, Floor(r, i)))
  IN  /\ AtRun(r, "tool")
      /\ \/ Floor(r, i) = "Deny" /\ Deny(r, decided, i)
         \/ Floor(r, i) # "Deny" /\ Raise(r, proposed)
         \/ /\ Floor(r, i) = "Ask"
            /\ Suspend(r, Append(decided, E("ApprovalRequested", i, None)), "approval", i, "pending")
         \/ /\ Floor(r, i) = "Allow"
            /\ Goto(r, decided, [run[r] EXCEPT !.pc = "execute"])
      /\ UNCHANGED Other

-----------------------------------------------------------------------------
(* execute_action and the backends                                         *)

\* Fault: the action budget is not looked at.
BudgetIgnored(r) == FALSE
BudgetSpent(r) == run[r].budget = 0

\* Fault: the budget is checked but never charged.
SpendNothing(rec) == [rec EXCEPT !.pc = "planned"]
Spend(rec) == [rec EXCEPT !.budget = @ - 1, !.pc = "planned"]

Claims(i) == {p \in planned : p.intent = i}

\* The rechecks (policy, capability, competence) may deny, the envelope may
\* refuse with an error, the budget may be spent; otherwise the immutable
\* plan is recorded under its intent id.  An intent planned before with
\* another approval collides; with the same one it is a swallowed retry.
PlanAction(r) ==
  LET i == run[r].intent
      p == [intent |-> i, approval |-> run[r].approval]
      spent == Spend(run[r])
  IN  /\ AtRun(r, "execute")
      /\ \/ Deny(r, <<>>, i) /\ UNCHANGED planned
         \/ Raise(r, <<>>) /\ UNCHANGED planned
         \/ BudgetSpent(r) /\ Finish(r, <<>>, "RunLimited") /\ UNCHANGED planned
         \/ /\ ~BudgetSpent(r) /\ Claims(i) = {}
            /\ Goto(r, <<E("ActionPlanned", i, None)>>, spent)
            /\ planned' = planned \cup {p}
         \/ /\ ~BudgetSpent(r) /\ p \in planned
            /\ Goto(r, <<>>, spent)
            /\ UNCHANGED planned
         \/ /\ ~BudgetSpent(r) /\ Claims(i) # {} /\ p \notin planned
            /\ Raise(r, <<>>) /\ UNCHANGED planned
      /\ UNCHANGED <<accepted, effects, idem, call, nextRun, answers, booting, crashes>>

Done(r, outcome) == [run[r] EXCEPT !.pc = "after", !.outcome = outcome]

\* A backend that sees the cancelled token, or refuses the plan, before it
\* starts.
StartRefused(r) ==
  /\ AtRun(r, "planned")
  /\ \/ run[r].cancelled
        /\ Goto(r, <<E("ActionCancelled", run[r].intent, None)>>, Done(r, "ActionCancelled"))
     \/ Goto(r, <<>>, Done(r, "error"))
  /\ UNCHANGED Other

\* emit_started: the start is durable before the effect.
StartAction(r) ==
  /\ AtRun(r, "planned")
  /\ Goto(r, <<E("ActionStarted", run[r].intent, None)>>, [run[r] EXCEPT !.pc = "started"])
  /\ UNCHANGED Other

\* The effect on the outside world.
PerformEffect(r) ==
  /\ AtRun(r, "started")
  /\ effects' = [effects EXCEPT ![run[r].intent] = @ + 1]
  /\ run' = [run EXCEPT ![r].pc = "performed"]
  /\ UNCHANGED <<storeVars, idem, lock, call, nextRun, answers, booting, crashes>>

\* The backend writes the outcome: completed once the effect is seen,
\* otherwise failed, cancelled or unknown, with or without an effect.
RecordOutcome(r) ==
  /\ ~booting /\ run[r].pc \in {"started", "performed"}
  /\ \E o \in Outcomes \cup {"ActionOutcomeUnknown"} :
       /\ o = "ActionCompleted" => run[r].pc = "performed"
       /\ o = "ActionCancelled" => run[r].cancelled
       /\ Goto(r, <<E(o, run[r].intent, None)>>, Done(r, o))
  /\ UNCHANGED Other

\* Fault: a direct action is complete whatever its verification says.
VerdictIgnored(r, ok) == IF run[r].mode = "DirectAction" THEN TRUE ELSE ok
Verdict(r, ok) == ok

\* after_action_result, and the error branch of execute_action.
AfterAction(r) ==
  LET i == run[r].intent
      o == run[r].outcome
      direct == run[r].mode = "DirectAction"
      submitting == run[r].driver = "submit"
  IN  /\ AtRun(r, "after")
      /\ \/ /\ o = "ActionCompleted"
            /\ \E ok \in BOOLEAN :
                 \/ ~Verdict(r, ok) /\ Finish(r, <<Verified(ok)>>, "RunFailed")
                 \/ Verdict(r, ok) /\ direct /\ Finish(r, <<Verified(ok)>>, "RunComplete")
                 \/ Verdict(r, ok) /\ ~direct /\ Goto(r, <<Verified(ok)>>, NextTurn(run[r]))
         \/ o = "ActionCancelled" /\ Finish(r, <<>>, "RunAborted")
         \/ o = "ActionOutcomeUnknown" /\ Suspend(r, <<>>, "tool", i, "none")
         \/ /\ o \in {"ActionFailed", "error"}
            /\ \/ run[r].cancelled /\ Finish(r, <<>>, "RunAborted")
               \/ ~run[r].cancelled /\ direct /\ submitting /\ Finish(r, <<>>, "RunFailed")
               \/ /\ ~run[r].cancelled /\ ~(direct /\ submitting)
                  /\ Goto(r, <<>>, NextTurn(run[r]))
      /\ UNCHANGED Other

-----------------------------------------------------------------------------
(* The owner: resume and cancel                                            *)

\* resume takes the session lock, then the record.
CanResume(r, kind) ==
  /\ ~booting /\ ~RecordLocked(r)
  /\ run[r].state = "Suspended" /\ run[r].pending.kind = kind
  /\ SessionFree(r)

\* resume_approval.  A grant of the wrong scope for a high-impact external
\* action is a denial.  An expired request can no longer be resolved: the
\* call fails and changes nothing.  A granted one may still expire before
\* authorize reads the clock.
ResumeApproval(r) ==
  LET i == run[r].pending.intent
      resolved(outcome) == <<E("ApprovalResolved", i, outcome), E("RunResumed", i, "approval")>>
  IN  /\ CanResume(r, "approval")
      /\ \/ i \in OneShotOnly /\ Deny(r, <<>>, i)
         \/ /\ run[r].ticket = "pending"
            /\ \/ Deny(r, resolved("Denied"), i)
               \/ Deny(r, resolved("Granted"), i)
               \/ /\ Write(r, resolved("Granted"))
                  /\ run' = [run EXCEPT ![r] =
                       [@ EXCEPT !.state = "Running", !.pending = NoPending, !.ticket = "none",
                          !.driver = "approve", !.pc = "execute", !.intent = i,
                          !.approval = <<r, run[r].turn>>]]
                  /\ lock' = [lock EXCEPT ![run[r].session] = r]
      /\ UNCHANGED Other

\* The request's expires_at passes.
ApprovalExpires(r) ==
  /\ ~booting /\ run[r].ticket = "pending"
  /\ run' = [run EXCEPT ![r].ticket = "expired"]
  /\ UNCHANGED <<log, lock, Other>>

\* resume_unknown: the owner decides what the action's outcome was.
ResumeUnknown(r) ==
  /\ CanResume(r, "tool")
  /\ \E d \in {<<"ActionCompleted", "RunComplete">>, <<"ActionFailed", "RunFailed">>,
               <<"ActionCancelled", "RunAborted">>} :
       LET i == run[r].pending.intent
       IN  Finish(r, <<E("RunResumed", i, "tool"), E(d[1], i, "owner")>>, d[2])
  /\ UNCHANGED Other

\* A handoff is rejected, or accepted and the run driven on.
ResumeHandoff(r) ==
  /\ CanResume(r, "handoff")
  /\ \/ Finish(r, <<Ev("HandoffResolved")>>, "RunAborted")
     \/ /\ Write(r, <<Ev("HandoffResolved")>>)
        /\ run' = [run EXCEPT ![r] =
             [NextTurn(@) EXCEPT !.state = "Running", !.pending = NoPending, !.driver = "resume"]]
        /\ lock' = [lock EXCEPT ![run[r].session] = r]
  /\ UNCHANGED Other

\* cancel: the flag and the token first, from any thread ...
CancelSignal(r) ==
  /\ ~booting /\ Registered(r) /\ ~run[r].cancelled
  /\ run' = [run EXCEPT ![r] = [@ EXCEPT !.cancelled = TRUE, !.cancelling = TRUE]]
  /\ UNCHANGED <<log, lock, Other>>

\* Fault: any run without a result is ended on the spot.
CancellableAnyState(r) == ~RecordLocked(r) /\ run[r].result = None
Cancellable(r) ==
  /\ ~RecordLocked(r)
  /\ run[r].state = "Suspended" /\ run[r].result = None

\* ... then the record, if its mutex happens to be free, is ended when it is
\* suspended.
CancelTry(r) ==
  /\ ~booting /\ run[r].cancelling
  /\ IF Cancellable(r)
     THEN /\ Write(r, <<Ev("RunAborted")>>)
          /\ run' = [run EXCEPT ![r] = [Ended(@, "RunAborted") EXCEPT !.cancelling = FALSE]]
     ELSE /\ run' = [run EXCEPT ![r].cancelling = FALSE]
          /\ UNCHANGED log
  /\ UNCHANGED <<lock, Other>>

-----------------------------------------------------------------------------
(* Crash and recover_unknown_outcomes                                      *)

\* Everything in memory is gone; a client whose call was cut off may retry.
Crash ==
  /\ crashes < MaxCrashes
  /\ crashes' = crashes + 1
  /\ booting' = TRUE
  /\ run' = [r \in Runs |-> Unregistered]
  /\ idem' = [k \in Keys |-> None]
  /\ lock' = [s \in Sessions |-> None]
  /\ call' = [c \in Clients |-> IF call[c].pc = "done" THEN call[c]
                                ELSE [pc |-> "start", run |-> None]]
  /\ UNCHANGED <<storeVars, effects, nextRun, answers>>

Logged(r, kinds, i) == \E n \in 1..Len(log[r]) : log[r][n].kind \in kinds /\ log[r][n].intent = i
EndLogged(r) == \E n \in 1..Len(log[r]) : log[r][n].kind \in Terminals

\* Fault: an unknown outcome counts as an outcome.
DanglingUnlessUnknown(r) ==
  {i \in Intents : /\ Logged(r, {"ActionStarted"}, i)
                   /\ ~Logged(r, Outcomes \cup {"ActionDenied", "ActionOutcomeUnknown"}, i)}

\* The started actions of a run without a terminal action event.
Dangling(r) ==
  {i \in Intents : /\ Logged(r, {"ActionStarted"}, i)
                   /\ ~Logged(r, Outcomes \cup {"ActionDenied"}, i)}

\* The scan has something to do for run r.
Recoverable(r) == ~EndLogged(r) /\ Dangling(r) # {} /\ ~Registered(r)

\* The request in a run's RunAccepted event.
AcceptedRequest(r) ==
  accepted[log[r][CHOOSE n \in 1..Len(log[r]) : log[r][n].kind = "RunAccepted"].info]

\* Fault: the action is executed again.
RecoveredRetries(r, i) ==
  [Unregistered EXCEPT !.state = "Running", !.session = AcceptedRequest(r).session, !.driver = "resume",
     !.pc = "planned", !.intent = i]

\* The record of a recovered run: suspended on the action, whatever the run
\* was doing.
Recovered(r, i) ==
  [Unregistered EXCEPT !.state = "Suspended", !.session = AcceptedRequest(r).session,
     !.untrusted = AcceptedRequest(r).untrusted, !.pending = [kind |-> "tool", intent |-> i]]

\* One run of the scan.  A run without its RunAccepted event fails the scan,
\* and with it the construction of the harness.
RecoverUnknown(r) ==
  /\ booting /\ Recoverable(r)
  /\ Logged(r, {"RunAccepted"}, None)
  /\ \E i \in Dangling(r) :
       /\ IF Logged(r, {"ActionOutcomeUnknown"}, i)
          THEN UNCHANGED log
          ELSE Write(r, <<E("ActionOutcomeUnknown", i, None), E("RunWaiting", i, "tool")>>)
       /\ run' = [run EXCEPT ![r] = Recovered(r, i)]
  /\ UNCHANGED <<lock, Other>>

BootDone ==
  /\ booting /\ \A r \in Runs : ~Recoverable(r)
  /\ booting' = FALSE
  /\ UNCHANGED <<storeVars, effects, run, idem, lock, call, nextRun, answers, crashes>>

-----------------------------------------------------------------------------
Init ==
  /\ log = [r \in Runs |-> <<>>]
  /\ accepted = [k \in Keys |-> None]
  /\ planned = {}
  /\ effects = [i \in Intents |-> 0]
  /\ run = [r \in Runs |-> Unregistered]
  /\ idem = [k \in Keys |-> None]
  /\ lock = [s \in Sessions |-> None]
  /\ call = [c \in Clients |-> [pc |-> "start", run |-> None]]
  /\ nextRun = 1
  /\ answers = {}
  /\ booting = FALSE
  /\ crashes = 0

\* A step of the thread that drives run r.
Drive(r) ==
  \/ Bind(r) \/ LoopCancelled(r) \/ LoopStops(r) \/ LoopFinal(r) \/ LoopTool(r) \/ LoopHandoff(r)
  \/ ToolPolicy(r) \/ PlanAction(r) \/ StartRefused(r) \/ StartAction(r) \/ PerformEffect(r)
  \/ RecordOutcome(r) \/ AfterAction(r)

Submit(c) == SubmitLookup(c) \/ SubmitAccept(c) \/ SubmitRegister(c)

Recovery == BootDone \/ \E r \in Runs : RecoverUnknown(r)

Next ==
  \/ \E c \in Clients : Submit(c)
  \/ \E r \in Runs : Drive(r)
  \/ \E r \in Runs : ResumeApproval(r)
  \/ \E r \in Runs : ApprovalExpires(r)
  \/ \E r \in Runs : ResumeUnknown(r)
  \/ \E r \in Runs : ResumeHandoff(r)
  \/ \E r \in Runs : CancelSignal(r)
  \/ \E r \in Runs : CancelTry(r)
  \/ Crash
  \/ Recovery

Spec == Init /\ [][Next]_vars

\* Submitting, driving and cancelling threads and the startup scan are
\* scheduled, model calls and backends return (both have timeouts).  Nothing
\* is assumed of the owner, who need not answer, nor of crashes.
Fairness ==
  /\ \A c \in Clients : WF_vars(Submit(c))
  /\ \A r \in Runs : WF_vars(Drive(r)) /\ WF_vars(CancelTry(r))
  /\ WF_vars(Recovery)

FairSpec == Spec /\ Fairness

-----------------------------------------------------------------------------
(* Properties                                                              *)

Pending == [kind: {"none", "approval", "tool", "handoff"}, intent: Intents \cup {None}]

RunRecord ==
  [state: {"None", "Accepted", "Running", "Suspended", "Terminal"},
   session: Sessions \cup {None}, untrusted: BOOLEAN, mode: Modes, pending: Pending,
   ticket: {"none", "pending", "expired"}, result: Terminals \cup {None},
   cancelled: BOOLEAN, cancelling: BOOLEAN, turn: 0..MaxTurns, budget: Nat,
   driver: {"submit", "approve", "resume", None},
   pc: {"idle", "queued", "loop", "tool", "execute", "planned", "started", "performed", "after"},
   intent: Intents \cup {None}, approval: Approvals,
   outcome: Outcomes \cup {"ActionOutcomeUnknown", "error", None}]

\* The run registry, the maps and the budgets have the types the Rust
\* structures declare; the action budget is unsigned.
TypeOK ==
  /\ effects \in [Intents -> Nat]
  /\ planned \subseteq [intent: Intents, approval: Approvals]
  /\ idem \in [Keys -> Runs \cup {None}]
  /\ lock \in [Sessions -> Runs \cup {None}]
  /\ run \in [Runs -> RunRecord]

\* handle_tool, execute_action (prd/03 5.1): whatever was resumed, cancelled
\* or recovered in between, an action starts only after its policy decision,
\* its recorded plan, and a granted approval unless the decision was to
\* allow it; an external action without the explicit L4 conditions always
\* has the approval, and so has every action of a run that an untrusted
\* communication asked for.
StartsAreAuthorised ==
  \A r \in Runs : \A n \in 1..Len(log[r]) :
    LET i == log[r][n].intent
        Earlier(kind, infos) == \E m \in 1..(n - 1) :
          log[r][m].kind = kind /\ log[r][m].intent = i /\ log[r][m].info \in infos
        approved == Earlier("ApprovalResolved", {"Granted"})
    IN  log[r][n].kind = "ActionStarted" =>
          /\ Earlier("ActionPlanned", {None})
          /\ Earlier("PolicyEvaluated", {"Allow"}) \/ approved
          /\ i \in External \ Autonomous => approved
          /\ Logged(r, {"RunAccepted"}, None) /\ AcceptedRequest(r).untrusted => approved
          /\ ~Earlier("ActionDenied", {None})

\* canonical contract 7: repeated actions are deduplicated by their intent id
\* and a crash never leads to a blind retry.
EffectAtMostOnce == \A i \in Intents : effects[i] <= 1

\* finish_terminal: a run ends once.  The driver, a canceller, a resumer and
\* the recovery scan never end it again and nothing follows the end.
EndsOnce ==
  \A r \in Runs : \A n \in 1..Len(log[r]) : log[r][n].kind \in Terminals => n = Len(log[r])

\* remaining_action_budget: over all its turns, resumes and approvals a run
\* starts no more actions than its budget allows.
ActionsWithinBudget ==
  \A r \in Runs :
    Cardinality({n \in 1..Len(log[r]) : log[r][n].kind = "ActionStarted"}) <= MaxActions

\* recover_unknown_outcomes: once a process is up, an action that started
\* and has no outcome in the log is in somebody's hands: its driver's, or
\* its run is suspended on it until the owner decides.
NoActionForgotten ==
  \A r \in Runs : ~booting /\ ~EndLogged(r) =>
    \A i \in Intents :
      Logged(r, {"ActionStarted"}, i) /\ ~Logged(r, Outcomes, i) =>
        \/ RecordLocked(r) /\ run[r].intent = i
        \/ run[r].state = "Suspended" /\ run[r].pending = [kind |-> "tool", intent |-> i]

\* verify, resume_unknown: a run that completes has passed its last
\* verification, or its unknown action was declared completed by the owner.
CompleteIsVerified ==
  \A r \in Runs : \A n \in 1..Len(log[r]) :
    log[r][n].kind = "RunComplete" =>
      log[r][n - 1] = Verified(TRUE) \/ log[r][n - 1].info = "owner"

\* session_lock (prd/03 S19): two runs of one session are never driven at
\* the same time.
SessionsAreSerial ==
  \A r, s \in Runs : r # s /\ RecordLocked(r) /\ RecordLocked(s) => run[r].session # run[s].session

\* submit_run, start_run: an accepted run comes to rest, suspended or ended,
\* unless the process crashes, however its calls fail and whatever queues in
\* front of it.
SubmittedRunsRest ==
  \A r \in Runs : run[r].state = "Accepted" ~> (Resting(r) \/ ~Registered(r))

\* prd/02: resubmitting a key returns the original run and opens no new one.
OneRunPerKey == \A a, b \in answers : a.key = b.key => a.run = b.run

\* How runs end, alone and beside each other in one session.
RunsEndWell == EndsOnce /\ CompleteIsVerified /\ SessionsAreSerial

\* What becomes of the actions of a run (execute_action, recover_unknown_outcomes).
ActionsAreSound ==
  TypeOK /\ StartsAreAuthorised /\ EffectAtMostOnce /\ ActionsWithinBudget
=============================================================================
