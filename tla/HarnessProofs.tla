--------------------------- MODULE HarnessProofs ---------------------------
(***************************************************************************)
(* Proofs about Harness, for any clients, requests, runs, intents, policy, *)
(* budgets and number of crashes.                                          *)
(*                                                                         *)
(* Most steps of the driving thread have one of four shapes: it finishes   *)
(* the run, suspends it, abandons it to its caller, or goes on elsewhere.  *)
(* Each shape is shown once to preserve the invariant, under conditions on *)
(* the events it writes, and the actions are instances of the shapes.      *)
(*                                                                         *)
(* The invariant says of every run what its log and its record know of     *)
(* each other: a record that is driven or suspended belongs to a log       *)
(* without an end, an action that started and has no outcome is the one    *)
(* the record is busy with or suspended on, and the record's budget and    *)
(* the starts in the log add up.                                           *)
(*                                                                         *)
(* Authority, the second invariant, says what an action rests on: an       *)
(* intent is used by one run, a record that is about to start an action    *)
(* has the decision and the plan in its log, and so has every start.  It   *)
(* needs intent ids to be fresh, which the code leaves to its callers.     *)
(***************************************************************************)
EXTENDS Harness, SequenceTheorems, FiniteSetTheorems, TLAPS

Requests == {Request[c] : c \in Clients}
Kinds ==
  Terminals \cup Outcomes \cup
  {"RunAccepted", "SessionBound", "ToolCallProposed", "PolicyEvaluated", "ApprovalRequested",
   "ApprovalResolved", "RunWaiting", "RunResumed", "ActionPlanned", "ActionStarted",
   "ActionOutcomeUnknown", "ActionDenied", "VerificationFinished", "HandoffRequested",
   "HandoffResolved"}
Infos ==
  Keys \cup {None} \cup
  {"Deny", "Ask", "Allow", "Granted", "Denied", "Pass", "Fail", "owner", "approval", "tool", "handoff"}
Event == [kind: Kinds, intent: Intents \cup {None}, info: Infos]

TypeInv ==
  /\ TypeOK
  /\ log \in [Runs -> Seq(Event)]
  /\ accepted \in [Keys -> Requests \cup {None}]
  /\ call \in [Clients -> [pc: {"start", "miss", "accepted", "done"}, run: Runs \cup {None}]]
  /\ nextRun \in Nat \ {0}
  /\ booting \in BOOLEAN

\* What a record says of itself.
RecordOK(rec) ==
  /\ rec.state = "None" => rec = Unregistered
  /\ rec.state # "None" => rec.session \in Sessions
  /\ rec.state = "Suspended" => rec.pc = "idle"
  /\ rec.pc = "queued" => rec.turn = 0 /\ (rec.mode = "Loop" \/ rec.intent \in Intents)
  /\ rec.pc \notin {"idle", "queued", "loop"} => rec.turn < MaxTurns /\ rec.intent \in Intents
  /\ rec.state = "Suspended" /\ rec.pending.kind = "approval" =>
       rec.turn < MaxTurns /\ rec.pending.intent \in Intents
  /\ rec.state = "Suspended" /\ rec.pending.kind = "handoff" => rec.turn < MaxTurns
  /\ rec.state = "Suspended" /\ rec.pending.kind = "tool" => rec.pending.intent \in Intents

\* A log ends at most once, with its last event; a completed run was
\* verified; the acceptance is the first event and its key is claimed; a
\* denial is followed by the end.
LogOK(r) ==
  \A n \in 1..Len(log[r]) :
    LET e == log[r][n]
    IN  /\ e.kind \in Terminals => n = Len(log[r])
        /\ e.kind = "RunComplete" =>
             n > 1 /\ (log[r][n - 1] = Verified(TRUE) \/ log[r][n - 1].info = "owner")
        /\ e.kind = "RunAccepted" => /\ n = 1 /\ e.intent = None /\ e.info \in Keys
                                     /\ accepted[e.info] \in Requests
        /\ e.kind = "ActionDenied" => EndLogged(r)

\* A run that is driven, queued or suspended has not ended.
Open(r) == run[r].pc # "idle" \/ run[r].state = "Suspended" => ~EndLogged(r)

\* The run that RunAccepted opened was asked for by an untrusted sender.
UntrustedRun(r) ==
  Len(log[r]) > 0 /\ log[r][1].kind = "RunAccepted" /\ accepted[log[r][1].info].untrusted

Provenance(r) ==
  Registered(r) /\ Len(log[r]) > 0 /\ log[r][1].kind = "RunAccepted"
    => accepted[log[r][1].info].untrusted = run[r].untrusted

\* Actions that started and have no outcome in the log.
Unsettled(r) == {i \in Intents : Logged(r, {"ActionStarted"}, i) /\ ~Logged(r, Outcomes, i)}

Holds(r, i) ==
  \/ run[r].pc \in {"started", "performed"} /\ run[r].intent = i
  \/ run[r].pc = "after" /\ run[r].outcome = "ActionOutcomeUnknown" /\ run[r].intent = i
  \/ run[r].state = "Suspended" /\ run[r].pending = [kind |-> "tool", intent |-> i]

InHands(r) ==
  ~EndLogged(r) =>
    /\ \A i \in Unsettled(r) : Registered(r) \/ ~booting => Holds(r, i)
    /\ \A i, j \in Unsettled(r) : i = j

\* The starts in the log.
Starts(r) == {n \in 1..Len(log[r]) : log[r][n].kind = "ActionStarted"}
BudgetOK(r) ==
  /\ Cardinality(Starts(r)) + run[r].budget <= MaxActions
  /\ run[r].pc = "planned" => Cardinality(Starts(r)) + run[r].budget < MaxActions

RunInv(r) ==
  RecordOK(run[r]) /\ LogOK(r) /\ Open(r) /\ Provenance(r) /\ InHands(r) /\ BudgetOK(r)

\* A driven run holds its session's lock.
LocksHeld == \A r \in Runs : RecordLocked(r) => lock[run[r].session] = r

\* An accepted submission has a run of its own, with nothing in its log but
\* the acceptance that this submission wrote.
CallOK(c) ==
  /\ ~booting
  /\ call[c].run \in Runs /\ call[c].run < nextRun /\ ~Registered(call[c].run)
  /\ \/ log[call[c].run] = <<>>
     \/ /\ log[call[c].run] = <<E("RunAccepted", None, Request[c].key)>>
        /\ accepted[Request[c].key] = Request[c]

CallsOK ==
  /\ \A c \in Clients : call[c].pc = "accepted" => CallOK(c)
  /\ \A c, d \in Clients :
       call[c].pc = "accepted" /\ call[d].pc = "accepted" /\ call[c].run = call[d].run => c = d
  /\ \A r \in Runs : r >= nextRun => log[r] = <<>> /\ ~Registered(r)

\* While the recovery scan runs nobody drives.
BootOK == booting => \A r \in Runs : run[r].pc = "idle"

Inv ==
  /\ TypeInv
  /\ \A r \in Runs : RunInv(r)
  /\ LocksHeld
  /\ CallsOK
  /\ BootOK

-----------------------------------------------------------------------------
(* What an action rests on, when intent ids are fresh.                     *)

\* Every proposal has an intent id of its own, and so has every direct
\* action.
IntentsAreFresh ==
  /\ FreshIntents = TRUE
  /\ \A c, d \in Clients : c # d /\ Request[c].intent # None => Request[c].intent # Request[d].intent

Mentioned(r, i) == \E n \in 1..Len(log[r]) : log[r][n].intent = i
Uses(r, i) == run[r].intent = i \/ Mentioned(r, i)
LoggedWith(r, kind, i, infos) ==
  \E n \in 1..Len(log[r]) : log[r][n].kind = kind /\ log[r][n].intent = i /\ log[r][n].info \in infos

\* An intent belongs to one run, or to a client that has not submitted it.
OneUser ==
  /\ \A r, s \in Runs : \A i \in Intents : Uses(r, i) /\ Uses(s, i) => r = s
  /\ \A c \in Clients : call[c].pc # "done" => \A r \in Runs : Request[c].intent # None => ~Uses(r, Request[c].intent)
  /\ \A r \in Runs : run[r].state = "Suspended" /\ run[r].pending.intent # None => Mentioned(r, run[r].pending.intent)
  /\ \A p \in planned : \E r \in Runs : LoggedWith(r, "ActionPlanned", p.intent, {None})

\* The decision on intent i is in the log.
Decided(r, i) ==
  /\ LoggedWith(r, "PolicyEvaluated", i, {"Allow"}) \/ LoggedWith(r, "ApprovalResolved", i, {"Granted"})
  /\ i \in External \ Autonomous \/ UntrustedRun(r) => LoggedWith(r, "ApprovalResolved", i, {"Granted"})

NotStarted(r, i) == ~Logged(r, {"ActionStarted"}, i)

\* What the record's place in the program owes to the log.
AuthorisedRun(r) ==
  /\ run[r].pc \in {"queued", "tool", "execute", "planned"} /\ run[r].intent # None => NotStarted(r, run[r].intent)
  /\ run[r].pc \in {"execute", "planned"} => Decided(r, run[r].intent)
  /\ run[r].pc = "planned" => LoggedWith(r, "ActionPlanned", run[r].intent, {None})
  /\ run[r].state = "Suspended" /\ run[r].pending.kind = "approval" => NotStarted(r, run[r].pending.intent)
  /\ run[r].pc = "started" => Logged(r, {"ActionStarted"}, run[r].intent) /\ effects[run[r].intent] = 0

\* The decision on the start at place n comes before it.
LoggedBefore(r, n, kind, infos) ==
  \E m \in 1..(n - 1) : log[r][m].kind = kind /\ log[r][m].intent = log[r][n].intent /\ log[r][m].info \in infos
StartOK(r, n) ==
  /\ LoggedBefore(r, n, "ActionPlanned", {None})
  /\ LoggedBefore(r, n, "PolicyEvaluated", {"Allow"}) \/ LoggedBefore(r, n, "ApprovalResolved", {"Granted"})
  /\ log[r][n].intent \in External \ Autonomous \/ UntrustedRun(r) => LoggedBefore(r, n, "ApprovalResolved", {"Granted"})
  /\ ~LoggedBefore(r, n, "ActionDenied", {None})
AuthorisedStarts(r) == \A n \in Starts(r) : StartOK(r, n)

Effects ==
  \A i \in Intents : /\ effects[i] <= 1
                     /\ effects[i] # 0 => \E r \in Runs : Logged(r, {"ActionStarted"}, i)

Authority ==
  /\ OneUser
  /\ Effects
  /\ \A r \in Runs : AuthorisedStarts(r) /\ AuthorisedRun(r)

-----------------------------------------------------------------------------
(* What an append does to a log                                            *)

\* One log has grown by evs, nothing else has moved.
Extended(r, evs) ==
  /\ log' \in [Runs -> Seq(Event)]
  /\ \A s \in Runs : s # r => log'[s] = log[s]
  /\ Len(log[r]) \in Nat /\ Len(evs) \in Nat
  /\ Len(log'[r]) = Len(log[r]) + Len(evs)
  /\ \A n \in 1..Len(log[r]) : log'[r][n] = log[r][n]
  /\ \A n \in 1..Len(evs) : log'[r][Len(log[r]) + n] = evs[n]
  /\ \A n \in 1..Len(log'[r]) : n \notin 1..Len(log[r]) =>
       n - Len(log[r]) \in 1..Len(evs) /\ log'[r][n] = evs[n - Len(log[r])]

\* append_event extends one log.
LEMMA WriteExtends ==
  ASSUME log \in [Runs -> Seq(Event)], NEW r \in Runs, NEW evs \in Seq(Event), Write(r, evs)
  PROVE  Extended(r, evs)
<1>1. log[r] \in Seq(Event)
  OBVIOUS
<1>2. log'[r] = log[r] \o evs /\ \A s \in Runs : s # r => log'[s] = log[s]
  BY DEF Write
<1>3. log[r] \o evs \in Seq(Event)
  BY <1>1
<1>4. log' \in [Runs -> Seq(Event)]
  BY <1>3 DEF Write
<1>5. Len(log[r]) \in Nat /\ Len(evs) \in Nat
  BY <1>1, LenProperties
<1>6. /\ Len(log'[r]) = Len(log[r]) + Len(evs)
      /\ \A n \in 1..(Len(log[r]) + Len(evs)) :
           log'[r][n] = IF n <= Len(log[r]) THEN log[r][n] ELSE evs[n - Len(log[r])]
  BY <1>1, <1>2, ConcatProperties
<1> QED BY <1>2, <1>4, <1>5, <1>6 DEF Extended

Brings(evs, kinds, i) == \E n \in 1..Len(evs) : evs[n].kind \in kinds /\ evs[n].intent = i

\* Logged: what is logged after an append was logged or is appended.
LEMMA LoggedAfterWrite ==
  ASSUME log \in [Runs -> Seq(Event)], NEW r \in Runs, NEW evs \in Seq(Event), Write(r, evs),
         NEW kinds, NEW i
  PROVE  Logged(r, kinds, i)' <=> Logged(r, kinds, i) \/ Brings(evs, kinds, i)
<1> Extended(r, evs)
  BY WriteExtends
<1>1. ASSUME Logged(r, kinds, i)' PROVE Logged(r, kinds, i) \/ Brings(evs, kinds, i)
  BY <1>1 DEF Extended, Logged, Brings
<1>2. ASSUME Logged(r, kinds, i) PROVE Logged(r, kinds, i)'
  BY <1>2 DEF Extended, Logged
<1>3. ASSUME Brings(evs, kinds, i) PROVE Logged(r, kinds, i)'
  <2>1. PICK n \in 1..Len(evs) : evs[n].kind \in kinds /\ evs[n].intent = i
    BY <1>3 DEF Brings
  <2>2. Len(log[r]) + n \in 1..Len(log'[r])
    BY DEF Extended
  <2> QED BY <2>1, <2>2 DEF Extended, Logged
<1> QED BY <1>1, <1>2, <1>3

\* The events of one step: at most one end, at the end; a denial comes with
\* it; a completion follows its verification; no acceptance.
WellFormed(evs) ==
  \A n \in 1..Len(evs) :
    /\ evs[n].kind \in Terminals => n = Len(evs)
    /\ evs[n].kind = "RunComplete" => n > 1 /\ (evs[n - 1] = Verified(TRUE) \/ evs[n - 1].info = "owner")
    /\ evs[n].kind # "RunAccepted"
    /\ evs[n].kind = "ActionDenied" => evs[Len(evs)].kind \in Terminals

Ends(evs) == \E n \in 1..Len(evs) : evs[n].kind \in Terminals

\* EndLogged: a log has ended when it had or when the append ends it.
LEMMA EndLoggedAfterWrite ==
  ASSUME log \in [Runs -> Seq(Event)], NEW r \in Runs, NEW evs \in Seq(Event), Write(r, evs)
  PROVE  EndLogged(r)' <=> EndLogged(r) \/ Ends(evs)
<1> Extended(r, evs)
  BY WriteExtends
<1>1. ASSUME EndLogged(r)' PROVE EndLogged(r) \/ Ends(evs)
  BY <1>1 DEF Extended, EndLogged, Ends
<1>2. ASSUME EndLogged(r) PROVE EndLogged(r)'
  BY <1>2 DEF Extended, EndLogged
<1>3. ASSUME Ends(evs) PROVE EndLogged(r)'
  <2>1. PICK n \in 1..Len(evs) : evs[n].kind \in Terminals
    BY <1>3 DEF Ends
  <2>2. Len(log[r]) + n \in 1..Len(log'[r])
    BY DEF Extended
  <2> QED BY <2>1, <2>2 DEF Extended, EndLogged
<1> QED BY <1>1, <1>2, <1>3

\* An append to a log without an end leaves a log that ends well.
LEMMA LogOKAfterWrite ==
  ASSUME log \in [Runs -> Seq(Event)], NEW r \in Runs, NEW evs \in Seq(Event), Write(r, evs),
         WellFormed(evs), LogOK(r), ~EndLogged(r), accepted' = accepted
  PROVE  LogOK(r)'
<1> Extended(r, evs)
  BY WriteExtends
<1> SUFFICES ASSUME NEW n \in 1..Len(log'[r])
             PROVE  /\ log'[r][n].kind \in Terminals => n = Len(log'[r])
                    /\ log'[r][n].kind = "RunComplete" =>
                         n > 1 /\ (log'[r][n - 1] = Verified(TRUE) \/ log'[r][n - 1].info = "owner")
                    /\ log'[r][n].kind = "RunAccepted" =>
                         /\ n = 1 /\ log'[r][n].intent = None /\ log'[r][n].info \in Keys
                         /\ accepted[log'[r][n].info] \in Requests
                    /\ log'[r][n].kind = "ActionDenied" => EndLogged(r)'
  BY DEF LogOK, Verified, E
<1>1. CASE n \in 1..Len(log[r])
  <2>1. log'[r][n] = log[r][n]
    BY <1>1 DEF Extended
  <2>2. log[r][n].kind \notin Terminals
    BY <1>1 DEF EndLogged
  <2>3. log[r][n].kind # "RunComplete"
    BY <2>2 DEF Terminals
  <2>4. log[r][n].kind = "ActionDenied" => EndLogged(r)
    BY <1>1 DEF LogOK
  <2>5. log[r][n].kind = "RunAccepted" =>
          /\ n = 1 /\ log[r][n].intent = None /\ log[r][n].info \in Keys
          /\ accepted[log[r][n].info] \in Requests
    BY <1>1 DEF LogOK
  <2> QED BY <2>1, <2>2, <2>3, <2>4, <2>5
<1>2. CASE n \notin 1..Len(log[r])
  <2> DEFINE m == n - Len(log[r])
  <2>1. m \in 1..Len(evs) /\ log'[r][n] = evs[m] /\ n = Len(log[r]) + m
    BY <1>2 DEF Extended
  <2>2. evs[m].kind \in Terminals => n = Len(log'[r])
    BY <2>1 DEF Extended, WellFormed
  <2>3. ASSUME evs[m].kind = "RunComplete"
        PROVE  n > 1 /\ (log'[r][n - 1] = Verified(TRUE) \/ log'[r][n - 1].info = "owner")
    <3>1. m > 1 /\ (evs[m - 1] = Verified(TRUE) \/ evs[m - 1].info = "owner")
      BY <2>1, <2>3 DEF WellFormed
    <3>2. m - 1 \in 1..Len(evs) /\ n - 1 = Len(log[r]) + (m - 1)
      BY <2>1, <3>1 DEF Extended
    <3>3. log'[r][n - 1] = evs[m - 1]
      BY <3>2 DEF Extended
    <3>4. n > 1
      BY <3>1, <2>1 DEF Extended
    <3> QED BY <3>1, <3>3, <3>4
  <2>4. evs[m].kind # "RunAccepted"
    BY <2>1 DEF WellFormed
  <2>5. ASSUME evs[m].kind = "ActionDenied" PROVE EndLogged(r)'
    <3>1. evs[Len(evs)].kind \in Terminals
      BY <2>1, <2>5 DEF WellFormed
    <3>2. Len(evs) \in 1..Len(evs)
      BY <2>1 DEF Extended
    <3>3. Ends(evs)
      BY <3>1, <3>2 DEF Ends
    <3> QED BY <3>3, EndLoggedAfterWrite
  <2> QED BY <2>1, <2>2, <2>3, <2>4, <2>5
<1> QED BY <1>1, <1>2

\* remaining_action_budget: an append without a start leaves the starts.
LEMMA StartsAfterWrite ==
  ASSUME log \in [Runs -> Seq(Event)], NEW r \in Runs, NEW evs \in Seq(Event), Write(r, evs),
         \A n \in 1..Len(evs) : evs[n].kind # "ActionStarted"
  PROVE  Starts(r)' = Starts(r)
<1> Extended(r, evs)
  BY WriteExtends
<1>1. ASSUME NEW n \in Starts(r)' PROVE n \in Starts(r)
  BY <1>1 DEF Extended, Starts
<1>2. ASSUME NEW n \in Starts(r) PROVE n \in Starts(r)'
  BY <1>2 DEF Extended, Starts
<1> QED BY <1>1, <1>2

\* The acceptance of a run is its first event or never comes.
LEMMA UntrustedAfterWrite ==
  ASSUME log \in [Runs -> Seq(Event)], NEW r \in Runs, NEW evs \in Seq(Event), Write(r, evs),
         WellFormed(evs), accepted' = accepted
  PROVE  /\ UntrustedRun(r)' <=> UntrustedRun(r)
         /\ Provenance(r) /\ Registered(r) /\ run'[r].untrusted = run[r].untrusted => Provenance(r)'
<1> Extended(r, evs)
  BY WriteExtends
<1>1. CASE Len(log[r]) > 0
  <2>1. Len(log'[r]) > 0 /\ log'[r][1] = log[r][1]
    BY <1>1 DEF Extended
  <2> QED BY <2>1, <1>1 DEF UntrustedRun, Provenance
<1>2. CASE ~(Len(log[r]) > 0)
  <2>1. ASSUME Len(log'[r]) > 0 PROVE log'[r][1].kind # "RunAccepted"
    <3>1. 1 \in 1..Len(evs) /\ log'[r][1] = evs[1]
      BY <1>2, <2>1 DEF Extended
    <3> QED BY <3>1 DEF WellFormed
  <2> QED BY <2>1, <1>2 DEF UntrustedRun, Provenance
<1> QED BY <1>1, <1>2 DEF Extended

\* A run that a step does not touch keeps its invariant, unless the scan is
\* over for it.
LEMMA OtherRun ==
  ASSUME log \in [Runs -> Seq(Event)], NEW s \in Runs, RunInv(s), run'[s] = run[s], log'[s] = log[s],
         \A k \in Keys : accepted[k] \in Requests => accepted'[k] = accepted[k],
         booting' = booting
  PROVE  RunInv(s)'
<1>1. RecordOK(run[s])' /\ Open(s)' /\ BudgetOK(s)'
  BY DEF RunInv, RecordOK, Unregistered, NoPending, Open, BudgetOK, Starts, EndLogged
<1>2. LogOK(s)'
  BY DEF RunInv, LogOK, EndLogged, Verified, E
<1>3. Provenance(s)'
  <2>1. ASSUME Len(log[s]) > 0, log[s][1].kind = "RunAccepted"
        PROVE  accepted'[log[s][1].info] = accepted[log[s][1].info]
    <3>1. 1 \in 1..Len(log[s])
      BY <2>1
    <3> QED BY <3>1, <2>1 DEF RunInv, LogOK
  <2> QED BY <2>1 DEF RunInv, Provenance, Registered
<1>4. InHands(s)'
  BY DEF RunInv, InHands, Unsettled, Logged, Holds, EndLogged, Registered
<1> QED BY <1>1, <1>2, <1>3, <1>4 DEF RunInv

-----------------------------------------------------------------------------
(* What the steps do to a record                                           *)

\* Idle: the driver leaves, the rest of the record stays.
LEMMA IdleRecord ==
  ASSUME NEW rec \in RunRecord
  PROVE  /\ Idle(rec) \in RunRecord
         /\ Idle(rec).pc = "idle" /\ Idle(rec).intent = None
         /\ Idle(rec).state = rec.state /\ Idle(rec).session = rec.session
         /\ Idle(rec).untrusted = rec.untrusted /\ Idle(rec).pending = rec.pending
         /\ Idle(rec).turn = rec.turn /\ Idle(rec).budget = rec.budget
BY DEF Idle, RunRecord, Approvals

\* finish_terminal: the record is terminal with nothing pending.
LEMMA EndedRecord ==
  ASSUME NEW rec \in RunRecord, NEW status \in Terminals
  PROVE  /\ Ended(rec, status) \in RunRecord
         /\ Ended(rec, status).state = "Terminal"
         /\ Ended(rec, status).session = rec.session /\ Ended(rec, status).pc = rec.pc
         /\ Ended(rec, status).intent = rec.intent
         /\ Ended(rec, status).untrusted = rec.untrusted /\ Ended(rec, status).budget = rec.budget
BY DEF Ended, RunRecord, Pending, NoPending

\* continue_after_tool: a driven record goes on with its next turn.
LEMMA NextTurnRecord ==
  ASSUME HarnessAssumption, NEW rec \in RunRecord, rec.turn < MaxTurns
  PROVE  /\ NextTurn(rec) \in RunRecord
         /\ NextTurn(rec).pc = "loop" /\ NextTurn(rec).intent = None
         /\ NextTurn(rec).state = rec.state /\ NextTurn(rec).session = rec.session
         /\ NextTurn(rec).untrusted = rec.untrusted /\ NextTurn(rec).pending = rec.pending
         /\ NextTurn(rec).budget = rec.budget
<1> DEFINE driver == IF rec.driver = "submit" THEN "submit" ELSE "resume"
           turn == rec.turn + 1
           next == [rec EXCEPT !.pc = "loop", !.turn = turn, !.intent = None, !.approval = None,
                               !.outcome = None, !.driver = driver]
<1>1. driver \in {"submit", "approve", "resume", None}
  OBVIOUS
<1>2. turn \in 0..MaxTurns
  BY DEF HarnessAssumption, RunRecord
<1>3. NextTurn(rec) = next
  BY DEF NextTurn
<1> HIDE DEF driver, turn
<1>4. next \in RunRecord
  BY <1>1, <1>2 DEF RunRecord, Approvals
<1>5. /\ next.pc = "loop" /\ next.intent = None
      /\ next.state = rec.state /\ next.session = rec.session
      /\ next.untrusted = rec.untrusted /\ next.pending = rec.pending
      /\ next.budget = rec.budget
  BY DEF RunRecord
<1> QED BY <1>3, <1>4, <1>5

-----------------------------------------------------------------------------
(* Putting a step of one run together                                      *)

\* What a step on run r that is not a submission, a crash or the scan has to
\* establish.
OneRunStep(r) ==
  /\ TypeInv'
  /\ \A s \in Runs : s # r => run'[s] = run[s] /\ log'[s] = log[s]
  /\ \A s \in Runs : s # r /\ RecordLocked(s) => lock'[run[s].session] = s
  /\ RecordLocked(r)' => lock'[run'[r].session] = r
  /\ Registered(r)'
  /\ RunInv(r)'
  /\ ~booting
  /\ UNCHANGED <<accepted, call, nextRun, booting>>

\* A step of one registered run that respects its session's lock preserves
\* the invariant.
LEMMA OneRun ==
  ASSUME Inv, NEW r \in Runs, Registered(r), OneRunStep(r)
  PROVE  Inv'
<1>1. \A s \in Runs : RunInv(s)'
  <2> SUFFICES ASSUME NEW s \in Runs, s # r PROVE RunInv(s)'
    BY DEF OneRunStep
  <2> QED BY OtherRun DEF OneRunStep, Inv, TypeInv
<1>2. LocksHeld'
  BY DEF OneRunStep, LocksHeld, RecordLocked
<1>3. CallsOK'
  BY DEF OneRunStep, Inv, CallsOK, CallOK, Registered
<1>4. BootOK'
  BY DEF OneRunStep, BootOK
<1> QED BY <1>1, <1>2, <1>3, <1>4 DEF OneRunStep, Inv

\* The lock of run r's session is r's or free, and only it changes hands.
LEMMA LockStep ==
  ASSUME TypeInv, LocksHeld, NEW r \in Runs, run[r].session \in Sessions,
         RecordLocked(r) \/ SessionFree(r),
         NEW holder \in {r, None}, lock' = [lock EXCEPT ![run[r].session] = holder]
  PROVE  /\ lock' \in [Sessions -> Runs \cup {None}]
         /\ lock'[run[r].session] = holder
         /\ \A s \in Runs : s # r /\ RecordLocked(s) => lock'[run[s].session] = s
<1> lock \in [Sessions -> Runs \cup {None}]
  BY DEF TypeInv, TypeOK
<1> None \notin Runs
  BY HarnessAssumption DEF HarnessAssumption
<1>1. lock[run[r].session] \in {r, None}
  BY DEF LocksHeld, SessionFree
<1>2. ASSUME NEW s \in Runs, s # r, RecordLocked(s) PROVE lock'[run[s].session] = s
  <2>1. lock[run[s].session] = s
    BY <1>2 DEF LocksHeld
  <2>2. run[s].session # run[r].session
    BY <2>1, <1>1, <1>2
  <2> QED BY <2>1, <2>2
<1> QED BY <1>2

-----------------------------------------------------------------------------
(* The events of a step                                                    *)

\* Events that neither open nor end a run nor start an action.
Calm(evs) == \A n \in 1..Len(evs) : evs[n].kind \notin Terminals \cup {"RunAccepted", "ActionStarted"}

\* Every event the harness writes is an Event.
LEMMA EventType ==
  ASSUME NEW kind \in Kinds, NEW i \in Intents \cup {None}, NEW info \in Infos
  PROVE  /\ E(kind, i, info) \in Event
         /\ E(kind, i, info).kind = kind /\ E(kind, i, info).intent = i /\ E(kind, i, info).info = info
BY DEF E, Event

\* A step that writes nothing is calm.
LEMMA NoEvents == <<>> \in Seq(Event) /\ Len(<<>>) = 0 /\ Calm(<<>>)
BY DEF Calm

\* A step that writes one event.
LEMMA OneEvent ==
  ASSUME NEW e \in Event
  PROVE  /\ <<e>> \in Seq(Event) /\ Len(<<e>>) = 1 /\ <<e>>[1] = e
         /\ e.kind \notin Terminals \cup {"RunAccepted", "ActionStarted"} => Calm(<<e>>)
BY DEF Calm

\* One more event after those of evs.
LEMMA OneMoreEvent ==
  ASSUME NEW evs \in Seq(Event), NEW e \in Event
  PROVE  /\ Append(evs, e) \in Seq(Event)
         /\ Len(evs) \in Nat /\ Len(Append(evs, e)) = Len(evs) + 1
         /\ \A n \in 1..Len(evs) : Append(evs, e)[n] = evs[n]
         /\ Append(evs, e)[Len(evs) + 1] = e
         /\ Calm(evs) /\ e.kind \notin Terminals \cup {"RunAccepted", "ActionStarted"} => Calm(Append(evs, e))
<1>1. /\ Append(evs, e) \in Seq(Event)
      /\ Len(evs) \in Nat /\ Len(Append(evs, e)) = Len(evs) + 1
      /\ \A n \in 1..Len(evs) : Append(evs, e)[n] = evs[n]
      /\ Append(evs, e)[Len(evs) + 1] = e
  BY AppendProperties, LenProperties
<1>2. ASSUME Calm(evs), e.kind \notin Terminals \cup {"RunAccepted", "ActionStarted"},
             NEW n \in 1..Len(Append(evs, e))
      PROVE  Append(evs, e)[n].kind \notin Terminals \cup {"RunAccepted", "ActionStarted"}
  <2>1. n \in 1..Len(evs) \/ n = Len(evs) + 1
    BY <1>1
  <2> QED BY <1>1, <1>2, <2>1 DEF Calm
<1> QED BY <1>1, <1>2 DEF Calm

\* finish_terminal: calm events followed by the end are well formed.
LEMMA EndingEvents ==
  ASSUME NEW evs \in Seq(Event), Calm(evs), NEW status \in Terminals,
         status = "RunComplete" =>
           Len(evs) > 0 /\ (evs[Len(evs)] = Verified(TRUE) \/ evs[Len(evs)].info = "owner")
  PROVE  /\ Append(evs, Ev(status)) \in Seq(Event)
         /\ WellFormed(Append(evs, Ev(status)))
         /\ Ends(Append(evs, Ev(status)))
         /\ \A n \in 1..Len(Append(evs, Ev(status))) : Append(evs, Ev(status))[n].kind # "ActionStarted"
<1> DEFINE all == Append(evs, Ev(status))
<1>1. Ev(status) \in Event /\ Ev(status).kind = status
  BY DEF Ev, E, Event, Kinds, Infos
<1>2. /\ all \in Seq(Event)
      /\ Len(evs) \in Nat /\ Len(all) = Len(evs) + 1
      /\ \A n \in 1..Len(evs) : all[n] = evs[n]
      /\ all[Len(evs) + 1] = Ev(status)
  BY <1>1, OneMoreEvent
<1> HIDE DEF all
<1>3. ASSUME NEW n \in 1..Len(all)
      PROVE  /\ all[n].kind \in Terminals => n = Len(all)
             /\ all[n].kind = "RunComplete" => n > 1 /\ (all[n - 1] = Verified(TRUE) \/ all[n - 1].info = "owner")
             /\ all[n].kind # "RunAccepted" /\ all[n].kind # "ActionStarted"
             /\ all[n].kind = "ActionDenied" => all[Len(all)].kind \in Terminals
  <2>1. CASE n \in 1..Len(evs)
    BY <1>1, <1>2, <2>1 DEF Calm, Terminals
  <2>2. CASE n = Len(evs) + 1
    <3>1. all[n].kind = status
      BY <1>1, <1>2, <2>2
    <3>2. ASSUME status = "RunComplete"
          PROVE  n > 1 /\ (all[n - 1] = Verified(TRUE) \/ all[n - 1].info = "owner")
      <4>1. Len(evs) > 0 /\ n - 1 = Len(evs) /\ n > 1
        BY <1>2, <2>2, <3>2
      <4>2. all[n - 1] = evs[Len(evs)]
        BY <4>1, <1>2
      <4> QED BY <4>1, <4>2, <3>2
    <3>3. n = Len(all)
      BY <1>2, <2>2
    <3>4. all[n].kind \notin {"RunAccepted", "ActionStarted", "ActionDenied"}
      BY <3>1 DEF Terminals
    <3>5. all[n].kind = "RunComplete" =>
            n > 1 /\ (all[n - 1] = Verified(TRUE) \/ all[n - 1].info = "owner")
      BY <3>1, <3>2
    <3> QED BY <3>3, <3>4, <3>5
  <2>3. n \in 1..Len(evs) \/ n = Len(evs) + 1
    BY <1>2
  <2> QED BY <2>1, <2>2, <2>3
<1>4. Ends(all)
  BY <1>1, <1>2 DEF Ends
<1> QED BY <1>2, <1>3, <1>4 DEF WellFormed, all

-----------------------------------------------------------------------------
(* The four shapes of a step                                               *)

\* What the driver's and the owner's steps leave alone, apart from planned.
Quiet ==
  /\ UNCHANGED <<accepted, effects, idem, call, nextRun, booting>>
  /\ planned' \subseteq [intent: Intents, approval: Approvals]

\* Where such a step is taken: by a thread that holds the lock of the run's
\* session or takes it, on a run without an end.
Acts(r) ==
  /\ ~booting /\ Registered(r) /\ ~EndLogged(r)
  /\ RecordLocked(r) \/ SessionFree(r)

\* The acting thread's run has a session.
LEMMA ActsOnSession ==
  ASSUME Inv, NEW r \in Runs, Acts(r)
  PROVE  run[r] \in RunRecord /\ run[r].session \in Sessions
BY DEF Inv, TypeInv, TypeOK, RunInv, RecordOK, Acts, Registered

\* A step that ends run r preserves the invariant, whatever the record was
\* doing: little is asked of a run that is over.
LEMMA EndStep ==
  ASSUME Inv, NEW r \in Runs, ~booting, Registered(r), ~EndLogged(r), Quiet,
         NEW evs \in Seq(Event), WellFormed(evs), Ends(evs),
         \A n \in 1..Len(evs) : evs[n].kind # "ActionStarted",
         Write(r, evs),
         NEW rec \in RunRecord, run' = [run EXCEPT ![r] = rec],
         rec.state = "Terminal", rec.pc = "idle", rec.session = run[r].session,
         rec.untrusted = run[r].untrusted, rec.budget = run[r].budget,
         lock' \in [Sessions -> Runs \cup {None}],
         \A s \in Runs : s # r /\ RecordLocked(s) => lock'[run[s].session] = s
  PROVE  Inv'
<1>1. run[r] \in RunRecord /\ run[r].session \in Sessions
  BY DEF Inv, TypeInv, TypeOK, RunInv, RecordOK, Registered
<1>2. run' \in [Runs -> RunRecord] /\ run'[r] = rec /\ \A s \in Runs : s # r => run'[s] = run[s]
  BY DEF Inv, TypeInv, TypeOK
<1>3. log \in [Runs -> Seq(Event)] /\ RunInv(r)
  BY DEF Inv, TypeInv
<1>4. Extended(r, evs) /\ EndLogged(r)'
  BY <1>3, WriteExtends, EndLoggedAfterWrite
<1>5. TypeInv'
  BY <1>2, <1>4 DEF Inv, TypeInv, TypeOK, Quiet, Extended
<1>6. LogOK(r)'
  BY <1>3, LogOKAfterWrite DEF Quiet, RunInv
<1>7. Provenance(r)'
  BY <1>2, <1>3, UntrustedAfterWrite DEF Quiet, RunInv
<1>8. Starts(r)' = Starts(r)
  BY <1>3, StartsAfterWrite
<1>9. BudgetOK(r)'
  BY <1>2, <1>3, <1>8 DEF BudgetOK, RunInv
<1>10. RecordOK(run[r])' /\ Open(r)' /\ InHands(r)' /\ Registered(r)' /\ ~RecordLocked(r)'
  BY <1>1, <1>2, <1>4 DEF RecordOK, Open, InHands, Registered, RecordLocked
<1>11. RunInv(r)'
  BY <1>6, <1>7, <1>9, <1>10 DEF RunInv
<1> QED BY <1>2, <1>4, <1>5, <1>10, <1>11, OneRun DEF OneRunStep, Quiet, Extended

\* finish_terminal by the driving thread.
LEMMA FinishStep ==
  ASSUME Inv, NEW r \in Runs, Acts(r), Quiet,
         NEW evs \in Seq(Event), Calm(evs), NEW status \in Terminals,
         status = "RunComplete" =>
           Len(evs) > 0 /\ (evs[Len(evs)] = Verified(TRUE) \/ evs[Len(evs)].info = "owner"),
         Finish(r, evs, status)
  PROVE  Inv'
<1> DEFINE rec == Idle(Ended(run[r], status))
<1>1. run[r] \in RunRecord /\ run[r].session \in Sessions
  BY ActsOnSession
<1>2. /\ rec \in RunRecord
      /\ rec.state = "Terminal" /\ rec.pc = "idle" /\ rec.session = run[r].session
      /\ rec.untrusted = run[r].untrusted /\ rec.budget = run[r].budget
  BY <1>1, EndedRecord, IdleRecord
<1>3. run' = [run EXCEPT ![r] = rec] /\ Write(r, Append(evs, Ev(status)))
  BY DEF Finish
<1> HIDE DEF rec
<1>4. /\ lock' \in [Sessions -> Runs \cup {None}]
      /\ \A s \in Runs : s # r /\ RecordLocked(s) => lock'[run[s].session] = s
  BY <1>1, LockStep DEF Finish, Acts, Inv
<1>5. /\ Append(evs, Ev(status)) \in Seq(Event)
      /\ WellFormed(Append(evs, Ev(status))) /\ Ends(Append(evs, Ev(status)))
      /\ \A n \in 1..Len(Append(evs, Ev(status))) : Append(evs, Ev(status))[n].kind # "ActionStarted"
  BY EndingEvents
<1> QED BY <1>2, <1>3, <1>4, <1>5, EndStep DEF Acts

\* Events after which the run goes on.
Mild(evs) == \A n \in 1..Len(evs) : evs[n].kind \notin Terminals \cup {"RunAccepted", "ActionDenied"}

\* One more mild event after those of evs.
LEMMA OneMoreMild ==
  ASSUME NEW evs \in Seq(Event), Calm(evs), Mild(evs), NEW e \in Event,
         e.kind \notin Terminals \cup {"RunAccepted", "ActionStarted", "ActionDenied"}
  PROVE  Append(evs, e) \in Seq(Event) /\ Calm(Append(evs, e)) /\ Mild(Append(evs, e))
<1>1. /\ Append(evs, e) \in Seq(Event) /\ Calm(Append(evs, e))
      /\ Len(evs) \in Nat /\ Len(Append(evs, e)) = Len(evs) + 1
      /\ \A n \in 1..Len(evs) : Append(evs, e)[n] = evs[n]
      /\ Append(evs, e)[Len(evs) + 1] = e
  BY OneMoreEvent
<1>2. ASSUME NEW n \in 1..Len(Append(evs, e))
      PROVE  Append(evs, e)[n].kind \notin Terminals \cup {"RunAccepted", "ActionDenied"}
  <2>1. n \in 1..Len(evs) \/ n = Len(evs) + 1
    BY <1>1
  <2> QED BY <2>1, <1>1 DEF Mild
<1> QED BY <1>1, <1>2 DEF Mild

\* What is left without an outcome when nothing is started.
LEMMA UnsettledAfterWrite ==
  ASSUME log \in [Runs -> Seq(Event)], NEW r \in Runs, NEW evs \in Seq(Event), Write(r, evs),
         \A n \in 1..Len(evs) : evs[n].kind # "ActionStarted"
  PROVE  /\ Unsettled(r)' \subseteq Unsettled(r)
         /\ \A i \in Unsettled(r)' : ~Brings(evs, Outcomes, i)
<1> SUFFICES ASSUME NEW i \in Unsettled(r)' PROVE i \in Unsettled(r) /\ ~Brings(evs, Outcomes, i)
  OBVIOUS
<1>1. Logged(r, {"ActionStarted"}, i)' <=> Logged(r, {"ActionStarted"}, i) \/ Brings(evs, {"ActionStarted"}, i)
  BY LoggedAfterWrite
<1>2. Logged(r, Outcomes, i)' <=> Logged(r, Outcomes, i) \/ Brings(evs, Outcomes, i)
  BY LoggedAfterWrite
<1>3. ~Brings(evs, {"ActionStarted"}, i)
  BY DEF Brings
<1> QED BY <1>1, <1>2, <1>3 DEF Unsettled

\* A step after which run r goes on, rests or is left to its caller.
LEMMA ContinueStep ==
  ASSUME Inv, NEW r \in Runs, Acts(r), Quiet,
         NEW evs \in Seq(Event), Mild(evs), Write(r, evs),
         NEW rec \in RunRecord, run' = [run EXCEPT ![r] = rec],
         RecordOK(rec), rec.state # "None", rec.session = run[r].session,
         rec.untrusted = run[r].untrusted,
         InHands(r)', BudgetOK(r)',
         lock' \in [Sessions -> Runs \cup {None}],
         rec.pc \notin {"idle", "queued"} => lock'[rec.session] = r,
         \A s \in Runs : s # r /\ RecordLocked(s) => lock'[run[s].session] = s
  PROVE  Inv'
<1>1. run[r] \in RunRecord /\ run[r].session \in Sessions
  BY ActsOnSession
<1>2. run' \in [Runs -> RunRecord] /\ run'[r] = rec /\ \A s \in Runs : s # r => run'[s] = run[s]
  BY DEF Inv, TypeInv, TypeOK
<1>3. log \in [Runs -> Seq(Event)] /\ RunInv(r)
  BY DEF Inv, TypeInv
<1>4. WellFormed(evs) /\ ~Ends(evs)
  BY DEF Mild, WellFormed, Ends, Terminals
<1>5. Extended(r, evs) /\ ~EndLogged(r)'
  BY <1>3, <1>4, WriteExtends, EndLoggedAfterWrite DEF Acts
<1>6. TypeInv'
  BY <1>2, <1>5 DEF Inv, TypeInv, TypeOK, Quiet, Extended
<1>7. LogOK(r)'
  BY <1>3, <1>4, LogOKAfterWrite DEF Acts, Quiet, RunInv
<1>8. Provenance(r)'
  BY <1>2, <1>3, <1>4, UntrustedAfterWrite DEF Acts, Quiet, RunInv
<1>9. RecordOK(run[r])'
  BY <1>2 DEF RecordOK, Unregistered, NoPending
<1>10. Open(r)' /\ Registered(r)' /\ (RecordLocked(r)' => lock'[run'[r].session] = r)
  BY <1>2, <1>5 DEF Open, Registered, RecordLocked
<1>11. RunInv(r)'
  BY <1>7, <1>8, <1>9, <1>10 DEF RunInv
<1> QED BY <1>2, <1>5, <1>6, <1>10, <1>11, OneRun DEF OneRunStep, Acts, Quiet, Extended

\* The same when no action is started: the budget only shrinks, and what
\* has no outcome yet must be in the new record's hands.
LEMMA CalmStep ==
  ASSUME Inv, NEW r \in Runs, Acts(r), Quiet,
         NEW evs \in Seq(Event), Mild(evs), Calm(evs), Write(r, evs),
         NEW rec \in RunRecord, run' = [run EXCEPT ![r] = rec],
         RecordOK(rec), rec.state # "None", rec.session = run[r].session,
         rec.untrusted = run[r].untrusted,
         \A i \in Unsettled(r) : ~Brings(evs, Outcomes, i) => Holds(r, i)',
         rec.budget <= run[r].budget, rec.pc = "planned" => rec.budget < run[r].budget,
         lock' \in [Sessions -> Runs \cup {None}],
         rec.pc \notin {"idle", "queued"} => lock'[rec.session] = r,
         \A s \in Runs : s # r /\ RecordLocked(s) => lock'[run[s].session] = s
  PROVE  Inv'
<1>1. log \in [Runs -> Seq(Event)] /\ run[r] \in RunRecord /\ run'[r] = rec /\ RunInv(r)
  BY DEF Inv, TypeInv, TypeOK
<1>2. \A n \in 1..Len(evs) : evs[n].kind # "ActionStarted"
  BY DEF Calm
<1>3. InHands(r)'
  <2>1. /\ Unsettled(r)' \subseteq Unsettled(r)
        /\ \A i \in Unsettled(r)' : ~Brings(evs, Outcomes, i)
    BY <1>1, <1>2, UnsettledAfterWrite
  <2>2. \A i, j \in Unsettled(r) : i = j
    BY <1>1 DEF RunInv, InHands, Acts
  <2>3. \A i \in Unsettled(r)' : Holds(r, i)'
    BY <2>1
  <2> QED BY <2>1, <2>2, <2>3 DEF InHands
<1>4. BudgetOK(r)'
  <2>1. Starts(r)' = Starts(r)
    BY <1>1, <1>2, StartsAfterWrite
  <2>2. Cardinality(Starts(r)) \in Nat
    <3>1. IsFiniteSet(1..Len(log[r]))
      BY <1>1, FS_Interval
    <3> QED BY <3>1, FS_Subset, FS_CardinalityType DEF Starts
  <2>3. run[r].budget \in Nat /\ rec.budget \in Nat /\ MaxActions \in Nat
    BY <1>1, HarnessAssumption DEF RunRecord, HarnessAssumption
  <2> QED BY <1>1, <2>1, <2>2, <2>3 DEF BudgetOK, RunInv
<1> QED BY <1>3, <1>4, ContinueStep

\* suspend: the run waits for its owner, on the one action that may be
\* without an outcome or on something that has not started.
LEMMA SuspendStep ==
  ASSUME Inv, NEW r \in Runs, Acts(r), Quiet,
         NEW evs \in Seq(Event), Mild(evs), Calm(evs),
         NEW kind \in {"approval", "tool", "handoff"}, NEW i \in Intents \cup {None},
         NEW ticket \in {"none", "pending", "expired"},
         kind \in {"approval", "tool"} => i \in Intents,
         kind \in {"approval", "handoff"} => run[r].turn < MaxTurns,
         \A j \in Unsettled(r) : kind = "tool" /\ i = j,
         Suspend(r, evs, kind, i, ticket)
  PROVE  Inv'
<1> DEFINE idle == Idle(run[r])
           pending == [kind |-> kind, intent |-> i]
           rec == [idle EXCEPT !.state = "Suspended", !.ticket = ticket, !.pending = pending]
           last == E("RunWaiting", i, kind)
           all == Append(evs, last)
<1>1. run[r] \in RunRecord /\ run[r].session \in Sessions
  BY ActsOnSession
<1>2. /\ idle \in RunRecord /\ idle.pc = "idle"
      /\ idle.session = run[r].session /\ idle.untrusted = run[r].untrusted
      /\ idle.turn = run[r].turn /\ idle.budget = run[r].budget
  BY <1>1, IdleRecord
<1>3. Write(r, all) /\ run' = [run EXCEPT ![r] = rec] /\ lock' = [lock EXCEPT ![run[r].session] = None]
  BY DEF Suspend
<1>4. pending \in Pending /\ pending.kind = kind /\ pending.intent = i
  BY DEF Pending
<1> HIDE DEF idle, pending
<1>5. /\ rec \in RunRecord /\ rec.pc = "idle" /\ rec.state = "Suspended" /\ rec.pending = pending
      /\ rec.session = run[r].session /\ rec.untrusted = run[r].untrusted
      /\ rec.turn = run[r].turn /\ rec.budget = run[r].budget
  BY <1>2, <1>4 DEF RunRecord
<1> HIDE DEF rec
<1>6. RecordOK(rec)
  BY <1>1, <1>4, <1>5 DEF RecordOK
<1>7. last \in Event /\ last.kind = "RunWaiting"
  BY DEF E, Event, Kinds, Infos
<1> HIDE DEF last
<1>8. all \in Seq(Event) /\ Calm(all) /\ Mild(all)
  BY <1>7, OneMoreMild DEF Terminals
<1> HIDE DEF all
<1>9. \A j \in Unsettled(r) : Holds(r, j)'
  <2>1. run'[r] = rec
    BY <1>3 DEF Inv, TypeInv, TypeOK
  <2> QED BY <2>1, <1>5 DEF Holds, pending
<1>10. /\ lock' \in [Sessions -> Runs \cup {None}]
       /\ \A s \in Runs : s # r /\ RecordLocked(s) => lock'[run[s].session] = s
  BY <1>1, <1>3, LockStep DEF Acts, Inv
<1>11. /\ rec.state # "None" /\ rec.budget <= run[r].budget
       /\ rec.pc = "planned" => rec.budget < run[r].budget
       /\ rec.pc \notin {"idle", "queued"} => lock'[rec.session] = r
       /\ \A j \in Unsettled(r) : ~Brings(all, Outcomes, j) => Holds(r, j)'
  BY <1>1, <1>5, <1>9 DEF RunRecord
<1> QED BY <1>3, <1>5, <1>6, <1>8, <1>10, <1>11, CalmStep

\* An error is handed to the caller: nothing may be without an outcome.
LEMMA AbandonStep ==
  ASSUME Inv, NEW r \in Runs, Acts(r), Quiet,
         NEW evs \in Seq(Event), Mild(evs), Calm(evs), Unsettled(r) = {},
         Abandon(r, evs)
  PROVE  Inv'
<1> DEFINE rec == Idle(run[r])
<1>1. run[r] \in RunRecord /\ run[r].session \in Sessions /\ run[r].budget \in Nat
  BY ActsOnSession DEF RunRecord
<1>2. /\ rec \in RunRecord /\ rec.pc = "idle" /\ rec.state = run[r].state
      /\ rec.session = run[r].session /\ rec.untrusted = run[r].untrusted
      /\ rec.turn = run[r].turn /\ rec.budget = run[r].budget /\ rec.pending = run[r].pending
  BY <1>1, IdleRecord
<1>3. Write(r, evs) /\ run' = [run EXCEPT ![r] = rec] /\ lock' = [lock EXCEPT ![run[r].session] = None]
  BY DEF Abandon
<1> HIDE DEF rec
<1>4. rec.state # "None"
  BY <1>2 DEF Acts, Registered
<1>5. RecordOK(rec)
  BY <1>1, <1>2, <1>4 DEF RecordOK, Inv, RunInv
<1>6. /\ lock' \in [Sessions -> Runs \cup {None}]
      /\ \A s \in Runs : s # r /\ RecordLocked(s) => lock'[run[s].session] = s
  BY <1>1, <1>3, LockStep DEF Acts, Inv
<1>7. /\ rec.budget <= run[r].budget
      /\ rec.pc = "planned" => rec.budget < run[r].budget
      /\ rec.pc \notin {"idle", "queued"} => lock'[rec.session] = r
      /\ \A j \in Unsettled(r) : ~Brings(evs, Outcomes, j) => Holds(r, j)'
  BY <1>1, <1>2
<1> QED BY <1>2, <1>3, <1>4, <1>5, <1>6, <1>7, CalmStep

\* The driving thread goes on under the lock it holds.
LEMMA GotoStep ==
  ASSUME Inv, NEW r \in Runs, Acts(r), RecordLocked(r), Quiet,
         NEW evs \in Seq(Event), Mild(evs), Calm(evs),
         NEW rec \in RunRecord, RecordOK(rec), rec.state # "None",
         rec.session = run[r].session, rec.untrusted = run[r].untrusted,
         rec.budget <= run[r].budget, rec.pc = "planned" => rec.budget < run[r].budget,
         \A i \in Unsettled(r) : ~Brings(evs, Outcomes, i) => Holds(r, i)',
         Goto(r, evs, rec)
  PROVE  Inv'
<1>1. Write(r, evs) /\ run' = [run EXCEPT ![r] = rec] /\ lock' = lock
  BY DEF Goto
<1>2. /\ lock' \in [Sessions -> Runs \cup {None}]
      /\ rec.pc \notin {"idle", "queued"} => lock'[rec.session] = r
      /\ \A s \in Runs : s # r /\ RecordLocked(s) => lock'[run[s].session] = s
  BY <1>1 DEF Inv, TypeInv, TypeOK, LocksHeld
<1> QED BY <1>1, <1>2, CalmStep

-----------------------------------------------------------------------------
(* The steps of the driving thread                                         *)

\* deny_action ends the run.
LEMMA DenyStep ==
  ASSUME Inv, NEW r \in Runs, Acts(r), Quiet,
         NEW evs \in Seq(Event), Calm(evs), NEW i \in Intents \cup {None}, Deny(r, evs, i)
  PROVE  Inv'
<1> DEFINE e == E("ActionDenied", i, None)
           all == Append(evs, e)
<1>1. e \in Event /\ e.kind \notin Terminals \cup {"RunAccepted", "ActionStarted"}
  BY DEF E, Event, Kinds, Infos, Terminals
<1>2. Finish(r, all, "RunAborted")
  BY DEF Deny
<1> HIDE DEF e
<1>3. all \in Seq(Event) /\ Calm(all)
  BY <1>1, OneMoreEvent
<1> HIDE DEF all
<1> QED BY <1>2, <1>3, FinishStep DEF Terminals

\* An error of handle_tool or execute_action ends the run or abandons it.
LEMMA RaiseStep ==
  ASSUME Inv, NEW r \in Runs, Acts(r), Quiet,
         NEW evs \in Seq(Event), Calm(evs), Mild(evs), Unsettled(r) = {}, Raise(r, evs)
  PROVE  Inv'
<1>1. CASE Finish(r, evs, "RunFailed")
  BY <1>1, FinishStep DEF Terminals
<1>2. CASE Deny(r, evs, run[r].intent)
  BY <1>2, ActsOnSession, DenyStep DEF RunRecord
<1>3. CASE Abandon(r, evs)
  BY <1>3, AbandonStep
<1> QED BY <1>1, <1>2, <1>3 DEF Raise

\* A driven run is registered, under way and in hand.
LEMMA Driven ==
  ASSUME Inv, NEW r \in Runs, ~booting, RecordLocked(r)
  PROVE  /\ Acts(r) /\ run[r] \in RunRecord /\ RecordOK(run[r])
         /\ run[r].state # "Suspended"
         /\ \A i \in Unsettled(r) : Holds(r, i)
<1>1. run[r] \in RunRecord /\ RunInv(r)
  BY DEF Inv, TypeInv, TypeOK
<1>2. run[r].state # "None" /\ run[r].state # "Suspended" /\ RecordOK(run[r])
  BY <1>1 DEF RunInv, RecordOK, Unregistered, RecordLocked
<1>3. Acts(r)
  BY <1>1, <1>2 DEF Acts, Registered, RunInv, Open, RecordLocked
<1> QED BY <1>1, <1>2, <1>3 DEF RunInv, InHands, Acts

\* Nothing is without an outcome before the start.
LEMMA NothingStarted ==
  ASSUME Inv, NEW r \in Runs, ~booting, run[r].pc \in {"loop", "tool", "execute", "planned"}
  PROVE  Unsettled(r) = {}
<1>1. RecordLocked(r)
  BY DEF RecordLocked
<1> QED BY <1>1, Driven DEF Holds

\* Frame of the steps that change neither plans nor effects.
LEMMA OtherIsQuiet ==
  ASSUME Inv, UNCHANGED Other
  PROVE  Quiet
BY DEF Other, Quiet, Inv, TypeInv, TypeOK

\* A step that writes one mild event.
LEMMA OneMildEvent ==
  ASSUME NEW kind \in Kinds, NEW i \in Intents \cup {None}, NEW info \in Infos,
         kind \notin Terminals \cup {"RunAccepted", "ActionStarted", "ActionDenied"}
  PROVE  /\ <<E(kind, i, info)>> \in Seq(Event)
         /\ Calm(<<E(kind, i, info)>>) /\ Mild(<<E(kind, i, info)>>)
         /\ Len(<<E(kind, i, info)>>) = 1 /\ <<E(kind, i, info)>>[1] = E(kind, i, info)
<1> DEFINE e == E(kind, i, info)
<1>1. e \in Event /\ e.kind = kind
  BY EventType
<1> HIDE DEF e
<1>2. <<e>> \in Seq(Event) /\ Len(<<e>>) = 1 /\ <<e>>[1] = e
  BY <1>1, OneEvent
<1>3. Calm(<<e>>) /\ Mild(<<e>>)
  BY <1>1, <1>2 DEF Calm, Mild
<1> QED BY <1>2, <1>3 DEF e

\* bind_and_drive takes the lock, or fails before or after.
LEMMA BindStep ==
  ASSUME Inv, NEW r \in Runs, Bind(r)
  PROVE  Inv'
<1> DEFINE bound == <<Ev("SessionBound")>>
<1>1. run[r] \in RunRecord /\ RunInv(r) /\ ~booting /\ run[r].pc = "queued" /\ SessionFree(r)
  BY DEF Inv, TypeInv, TypeOK, Bind, AtRun
<1>2. run[r].state # "None" /\ run[r].state # "Suspended" /\ RecordOK(run[r])
  BY <1>1 DEF RunInv, RecordOK, Unregistered
<1>3. Acts(r)
  BY <1>1, <1>2 DEF Acts, Registered, RunInv, Open
<1>4. Quiet
  BY OtherIsQuiet DEF Bind
<1>5. bound \in Seq(Event) /\ Calm(bound) /\ Mild(bound)
  BY OneMildEvent DEF Ev, Kinds, Infos, Terminals, Outcomes
<1>6. <<>> \in Seq(Event) /\ Calm(<<>>)
  BY NoEvents
<1> HIDE DEF bound
<1>7. ASSUME Write(r, bound), lock' = [lock EXCEPT ![run[r].session] = r],
             run' = [run EXCEPT ![r] =
               [@ EXCEPT !.state = "Running", !.pc = IF run[r].mode = "Loop" THEN "loop" ELSE "tool"]]
      PROVE  Inv'
  <2> DEFINE pc == IF run[r].mode = "Loop" THEN "loop" ELSE "tool"
             rec == [run[r] EXCEPT !.state = "Running", !.pc = pc]
  <2>1. pc \in {"loop", "tool"} /\ (pc = "tool" => run[r].mode # "Loop")
    OBVIOUS
  <2>2. run' = [run EXCEPT ![r] = rec]
    BY <1>7
  <2> HIDE DEF pc
  <2>3. /\ rec \in RunRecord /\ rec.pc = pc /\ rec.state = "Running" /\ rec.turn = run[r].turn
        /\ rec.intent = run[r].intent /\ rec.session = run[r].session /\ rec.budget = run[r].budget
        /\ rec.untrusted = run[r].untrusted
    BY <1>1, <2>1 DEF RunRecord
  <2> HIDE DEF rec
  <2>4. RecordOK(rec)
    BY <1>1, <1>2, <2>1, <2>3, HarnessAssumption DEF RecordOK, HarnessAssumption
  <2>5. /\ lock' \in [Sessions -> Runs \cup {None}] /\ lock'[run[r].session] = r
        /\ \A s \in Runs : s # r /\ RecordLocked(s) => lock'[run[s].session] = s
    BY <1>1, <1>3, <1>7, ActsOnSession, LockStep DEF Inv
  <2>6. Unsettled(r) = {}
    BY <1>1, <1>2, <1>3 DEF RunInv, InHands, Acts, Holds
  <2>7. /\ rec.state # "None" /\ rec.budget <= run[r].budget
        /\ rec.pc = "planned" => rec.budget < run[r].budget
        /\ rec.pc \notin {"idle", "queued"} => lock'[rec.session] = r
        /\ \A i \in Unsettled(r) : ~Brings(bound, Outcomes, i) => Holds(r, i)'
    BY <1>1, <2>1, <2>3, <2>5, <2>6 DEF RunRecord
  <2> QED BY <1>3, <1>4, <1>5, <1>7, <2>2, <2>3, <2>4, <2>5, <2>7, CalmStep
<1>8. ASSUME NEW evs \in {<<>>, bound}, Finish(r, evs, "RunFailed") PROVE Inv'
  BY <1>3, <1>4, <1>5, <1>6, <1>8, FinishStep DEF Terminals
<1>9. ASSUME Finish(r, bound, "RunAborted") PROVE Inv'
  BY <1>3, <1>4, <1>5, <1>9, FinishStep DEF Terminals
<1> QED BY <1>7, <1>8, <1>9 DEF Bind, bound

\* What a verification writes.
LEMMA VerifiedEvent ==
  ASSUME NEW ok \in BOOLEAN
  PROVE  /\ <<Verified(ok)>> \in Seq(Event) /\ Calm(<<Verified(ok)>>) /\ Mild(<<Verified(ok)>>)
         /\ Len(<<Verified(ok)>>) = 1 /\ <<Verified(ok)>>[1] = Verified(ok)
<1> DEFINE info == IF ok THEN "Pass" ELSE "Fail"
<1>1. info \in Infos
  BY DEF Infos
<1>2. Verified(ok) = E("VerificationFinished", None, info)
  BY DEF Verified
<1> HIDE DEF info
<1> QED BY <1>1, <1>2, OneMildEvent DEF Kinds, Terminals, Outcomes

\* verify: a run ends with the verdict that it completes on, or fails.
LEMMA VerifiedStep ==
  ASSUME Inv, NEW r \in Runs, Acts(r), Quiet,
         \/ Finish(r, <<Verified(TRUE)>>, "RunComplete")
         \/ \E ok \in BOOLEAN : Finish(r, <<Verified(ok)>>, "RunFailed")
  PROVE  Inv'
<1>1. ASSUME Finish(r, <<Verified(TRUE)>>, "RunComplete") PROVE Inv'
  <2> DEFINE evs == <<Verified(TRUE)>>
  <2>1. evs \in Seq(Event) /\ Calm(evs) /\ Len(evs) = 1 /\ evs[1] = Verified(TRUE)
    BY VerifiedEvent
  <2>2. Finish(r, evs, "RunComplete")
    BY <1>1
  <2> HIDE DEF evs
  <2>3. Len(evs) > 0 /\ evs[Len(evs)] = Verified(TRUE)
    BY <2>1
  <2> QED BY <2>1, <2>2, <2>3, FinishStep DEF Terminals
<1>2. ASSUME NEW ok \in BOOLEAN, Finish(r, <<Verified(ok)>>, "RunFailed") PROVE Inv'
  BY <1>2, VerifiedEvent, FinishStep DEF Terminals
<1> QED BY <1>1, <1>2

\* drive: the steps that end the run at the top of a turn, or after the
\* model's final output.
LEMMA LoopEndStep ==
  ASSUME Inv, NEW r \in Runs, LoopCancelled(r) \/ LoopStops(r) \/ LoopFinal(r)
  PROVE  Inv'
<1>1. ~booting /\ RecordLocked(r) /\ UNCHANGED Other
  BY DEF LoopCancelled, LoopStops, LoopFinal, AtRun, RecordLocked
<1>2. Acts(r) /\ Quiet
  BY <1>1, Driven, OtherIsQuiet
<1>3. <<>> \in Seq(Event) /\ Calm(<<>>)
  BY NoEvents
<1>4. CASE LoopCancelled(r)
  BY <1>2, <1>3, <1>4, FinishStep DEF LoopCancelled, Terminals
<1>5. CASE LoopStops(r)
  BY <1>2, <1>3, <1>5, FinishStep DEF LoopStops, Terminals
<1>6. CASE LoopFinal(r)
  <2>1. \/ Finish(r, <<Verified(TRUE)>>, "RunComplete")
        \/ Finish(r, <<Verified(FALSE)>>, "RunFailed")
    BY <1>6 DEF LoopFinal
  <2> QED BY <1>2, <2>1, VerifiedStep
<1> QED BY <1>4, <1>5, <1>6

\* drive: the model proposes a tool call.
LEMMA LoopToolStep ==
  ASSUME Inv, NEW r \in Runs, LoopTool(r)
  PROVE  Inv'
<1>1. ~booting /\ RecordLocked(r) /\ run[r].pc = "loop" /\ UNCHANGED Other /\ run[r].turn < MaxTurns
  BY DEF LoopTool, AtRun, RecordLocked
<1>2. Acts(r) /\ Quiet /\ run[r] \in RunRecord /\ RecordOK(run[r]) /\ run[r].state # "Suspended"
  BY <1>1, Driven, OtherIsQuiet
<1>3. Unsettled(r) = {}
  BY <1>1, NothingStarted
<1>4. ASSUME NEW i \in Intents, Goto(r, <<>>, [run[r] EXCEPT !.pc = "tool", !.intent = i]) PROVE Inv'
  <2> DEFINE rec == [run[r] EXCEPT !.pc = "tool", !.intent = i]
  <2>1. /\ rec \in RunRecord /\ rec.pc = "tool" /\ rec.state = run[r].state /\ rec.turn = run[r].turn
        /\ rec.intent = i /\ rec.session = run[r].session /\ rec.budget = run[r].budget
        /\ rec.untrusted = run[r].untrusted
    BY <1>2 DEF RunRecord
  <2>2. Goto(r, <<>>, rec)
    BY <1>4
  <2> HIDE DEF rec
  <2>3. RecordOK(rec) /\ rec.state # "None"
    BY <1>1, <1>2, <2>1 DEF RecordOK, Acts, Registered
  <2>4. /\ rec.budget <= run[r].budget
        /\ rec.pc = "planned" => rec.budget < run[r].budget
        /\ \A j \in Unsettled(r) : ~Brings(<<>>, Outcomes, j) => Holds(r, j)'
    BY <1>2, <1>3, <2>1 DEF RunRecord
  <2>5. <<>> \in Seq(Event) /\ Calm(<<>>) /\ Mild(<<>>)
    BY NoEvents DEF Mild
  <2> QED BY <1>1, <1>2, <2>1, <2>2, <2>3, <2>4, <2>5, GotoStep
<1>5. ASSUME Deny(r, <<E("ToolCallProposed", None, None)>>, None) PROVE Inv'
  <2>1. <<E("ToolCallProposed", None, None)>> \in Seq(Event) /\ Calm(<<E("ToolCallProposed", None, None)>>)
    BY OneMildEvent DEF Kinds, Infos, Terminals, Outcomes
  <2> QED BY <1>2, <1>5, <2>1, DenyStep
<1> QED BY <1>4, <1>5 DEF LoopTool

\* drive: the model hands the run off.
LEMMA LoopHandoffStep ==
  ASSUME Inv, NEW r \in Runs, LoopHandoff(r)
  PROVE  Inv'
<1> DEFINE evs == <<Ev("HandoffRequested")>>
<1>1. ~booting /\ RecordLocked(r) /\ run[r].pc = "loop" /\ UNCHANGED Other /\ run[r].turn < MaxTurns
  BY DEF LoopHandoff, AtRun, RecordLocked
<1>2. Acts(r) /\ Quiet
  BY <1>1, Driven, OtherIsQuiet
<1>3. Unsettled(r) = {}
  BY <1>1, NothingStarted
<1>4. evs \in Seq(Event) /\ Calm(evs) /\ Mild(evs)
  BY OneMildEvent DEF Ev, Kinds, Infos, Terminals, Outcomes
<1>5. Suspend(r, evs, "handoff", None, "none")
  BY DEF LoopHandoff
<1> HIDE DEF evs
<1> QED BY <1>1, <1>2, <1>3, <1>4, <1>5, SuspendStep

\* handle_tool: the policy decides.
LEMMA ToolPolicyStep ==
  ASSUME Inv, NEW r \in Runs, ToolPolicy(r)
  PROVE  Inv'
<1> DEFINE i == run[r].intent
           proposed == <<E("ToolCallProposed", i, None)>>
           decided == Append(proposed, E("PolicyEvaluated", i, Floor(r, i)))
           asked == Append(decided, E("ApprovalRequested", i, None))
<1>1. ~booting /\ RecordLocked(r) /\ run[r].pc = "tool" /\ UNCHANGED Other
  BY DEF ToolPolicy, AtRun, RecordLocked
<1>2. Acts(r) /\ Quiet /\ run[r] \in RunRecord /\ RecordOK(run[r]) /\ run[r].state # "Suspended"
  BY <1>1, Driven, OtherIsQuiet
<1>3. Unsettled(r) = {}
  BY <1>1, NothingStarted
<1>4. i \in Intents /\ run[r].turn < MaxTurns
  BY <1>1, <1>2 DEF RecordOK
<1>5. Floor(r, i) \in {"Deny", "Ask", "Allow"}
  BY <1>4, HarnessAssumption DEF Floor, HarnessAssumption, Decisions
<1>6. proposed \in Seq(Event) /\ Calm(proposed) /\ Mild(proposed)
  BY <1>4, OneMildEvent DEF Kinds, Infos, Terminals, Outcomes
<1>7. E("PolicyEvaluated", i, Floor(r, i)) \in Event /\ E("PolicyEvaluated", i, Floor(r, i)).kind = "PolicyEvaluated"
  BY <1>4, <1>5 DEF E, Event, Kinds, Infos
<1>8. E("ApprovalRequested", i, None) \in Event /\ E("ApprovalRequested", i, None).kind = "ApprovalRequested"
  BY <1>4 DEF E, Event, Kinds, Infos
<1>9. decided \in Seq(Event) /\ Calm(decided) /\ Mild(decided)
  BY <1>6, <1>7, OneMoreMild DEF Terminals
<1>10. asked \in Seq(Event) /\ Calm(asked) /\ Mild(asked)
  BY <1>8, <1>9, OneMoreMild DEF Terminals
<1>11. \/ Deny(r, decided, i)
       \/ Raise(r, proposed)
       \/ Suspend(r, asked, "approval", i, "pending")
       \/ Goto(r, decided, [run[r] EXCEPT !.pc = "execute"])
  BY DEF ToolPolicy
<1> HIDE DEF proposed, decided, asked, i
<1>12. ASSUME Goto(r, decided, [run[r] EXCEPT !.pc = "execute"]) PROVE Inv'
  <2> DEFINE rec == [run[r] EXCEPT !.pc = "execute"]
  <2>1. /\ rec \in RunRecord /\ rec.pc = "execute" /\ rec.state = run[r].state /\ rec.turn = run[r].turn
        /\ rec.intent = i /\ rec.session = run[r].session /\ rec.budget = run[r].budget
        /\ rec.untrusted = run[r].untrusted
    BY <1>2 DEF RunRecord, i
  <2>2. Goto(r, decided, rec)
    BY <1>12
  <2> HIDE DEF rec
  <2>3. RecordOK(rec) /\ rec.state # "None"
    BY <1>2, <1>4, <2>1 DEF RecordOK, Acts, Registered
  <2>4. /\ rec.budget <= run[r].budget
        /\ rec.pc = "planned" => rec.budget < run[r].budget
        /\ \A j \in Unsettled(r) : ~Brings(decided, Outcomes, j) => Holds(r, j)'
    BY <1>2, <1>3, <2>1 DEF RunRecord
  <2> QED BY <1>1, <1>2, <1>9, <2>1, <2>2, <2>3, <2>4, GotoStep
<1>13. ASSUME Suspend(r, asked, "approval", i, "pending") PROVE Inv'
  BY <1>2, <1>3, <1>4, <1>10, <1>13, SuspendStep
<1>14. ASSUME Deny(r, decided, i) PROVE Inv'
  BY <1>2, <1>4, <1>9, <1>14, DenyStep
<1>15. ASSUME Raise(r, proposed) PROVE Inv'
  BY <1>2, <1>3, <1>6, <1>15, RaiseStep
<1> QED BY <1>11, <1>12, <1>13, <1>14, <1>15

\* execute_action up to the recorded plan: the budget pays for the start.
LEMMA PlanActionStep ==
  ASSUME Inv, NEW r \in Runs, PlanAction(r)
  PROVE  Inv'
<1> DEFINE i == run[r].intent
           spent == Spend(run[r])
           plan == <<E("ActionPlanned", i, None)>>
<1>1. ~booting /\ RecordLocked(r) /\ run[r].pc = "execute"
  BY DEF PlanAction, AtRun, RecordLocked
<1>2. Acts(r) /\ run[r] \in RunRecord /\ RecordOK(run[r]) /\ run[r].state # "Suspended"
  BY <1>1, Driven
<1>3. Unsettled(r) = {}
  BY <1>1, NothingStarted
<1>4. i \in Intents /\ run[r].turn < MaxTurns /\ run[r].approval \in Approvals
  BY <1>1, <1>2 DEF RecordOK, RunRecord
<1>5. Quiet
  <2>1. planned \subseteq [intent: Intents, approval: Approvals]
    BY DEF Inv, TypeInv, TypeOK
  <2>2. [intent |-> i, approval |-> run[r].approval] \in [intent: Intents, approval: Approvals]
    BY <1>4
  <2>3. planned' = planned \/ planned' = planned \cup {[intent |-> i, approval |-> run[r].approval]}
    BY DEF PlanAction
  <2> QED BY <2>1, <2>2, <2>3 DEF PlanAction, Quiet
<1>6. <<>> \in Seq(Event) /\ Calm(<<>>) /\ Mild(<<>>)
  BY NoEvents DEF Mild
<1>7. plan \in Seq(Event) /\ Calm(plan) /\ Mild(plan)
  BY <1>4, OneMildEvent DEF Kinds, Infos, Terminals, Outcomes
<1>8. \/ Deny(r, <<>>, i) \/ Raise(r, <<>>) \/ Finish(r, <<>>, "RunLimited")
      \/ ~BudgetSpent(r) /\ \E evs \in {<<>>, plan} : Goto(r, evs, spent)
  BY DEF PlanAction
<1> HIDE DEF plan
<1>9. ASSUME ~BudgetSpent(r), NEW evs \in {<<>>, plan}, Goto(r, evs, spent) PROVE Inv'
  <2>1. run[r].budget \in Nat /\ run[r].budget - 1 \in Nat
    BY <1>2, <1>9 DEF BudgetSpent, RunRecord
  <2>2. /\ spent \in RunRecord /\ spent.pc = "planned" /\ spent.state = run[r].state
        /\ spent.turn = run[r].turn /\ spent.intent = i /\ spent.session = run[r].session
        /\ spent.budget = run[r].budget - 1 /\ spent.untrusted = run[r].untrusted
    BY <1>2, <2>1 DEF RunRecord, Spend
  <2> HIDE DEF spent
  <2>3. RecordOK(spent) /\ spent.state # "None"
    BY <1>2, <1>4, <2>2 DEF RecordOK, Acts, Registered
  <2>4. /\ spent.budget <= run[r].budget
        /\ spent.pc = "planned" => spent.budget < run[r].budget
        /\ \A j \in Unsettled(r) : ~Brings(evs, Outcomes, j) => Holds(r, j)'
    BY <1>3, <2>1, <2>2
  <2> QED BY <1>1, <1>2, <1>5, <1>6, <1>7, <1>9, <2>2, <2>3, <2>4, GotoStep
<1>10. ASSUME Deny(r, <<>>, i) PROVE Inv'
  BY <1>2, <1>4, <1>5, <1>6, <1>10, DenyStep
<1>11. ASSUME Raise(r, <<>>) PROVE Inv'
  BY <1>2, <1>3, <1>5, <1>6, <1>11, RaiseStep
<1>12. ASSUME Finish(r, <<>>, "RunLimited") PROVE Inv'
  BY <1>2, <1>5, <1>6, <1>12, FinishStep DEF Terminals
<1> QED BY <1>8, <1>9, <1>10, <1>11, <1>12

\* Done: the record after an execution.
LEMMA DoneRecord ==
  ASSUME NEW r \in Runs, run[r] \in RunRecord,
         NEW o \in Outcomes \cup {"ActionOutcomeUnknown", "error"}
  PROVE  /\ Done(r, o) \in RunRecord /\ Done(r, o).pc = "after" /\ Done(r, o).outcome = o
         /\ Done(r, o).state = run[r].state /\ Done(r, o).turn = run[r].turn
         /\ Done(r, o).intent = run[r].intent /\ Done(r, o).session = run[r].session
         /\ Done(r, o).budget = run[r].budget /\ Done(r, o).untrusted = run[r].untrusted
         /\ Done(r, o).pending = run[r].pending
BY DEF Done, RunRecord

\* An execution comes back to execute_action with outcome o.
LEMMA DoneStep ==
  ASSUME Inv, NEW r \in Runs, ~booting, run[r].pc \in {"planned", "started", "performed"}, Quiet,
         NEW evs \in Seq(Event), Calm(evs), Mild(evs),
         NEW o \in Outcomes \cup {"ActionOutcomeUnknown", "error"},
         Unsettled(r) # {} => o = "ActionOutcomeUnknown" \/ Brings(evs, Outcomes, run[r].intent),
         Goto(r, evs, Done(r, o))
  PROVE  Inv'
<1> DEFINE rec == Done(r, o)
<1>1. RecordLocked(r)
  BY DEF RecordLocked
<1>2. Acts(r) /\ run[r] \in RunRecord /\ RecordOK(run[r]) /\ run[r].state # "Suspended"
  BY <1>1, Driven
<1>3. /\ rec \in RunRecord /\ rec.pc = "after" /\ rec.outcome = o /\ rec.state = run[r].state
      /\ rec.turn = run[r].turn /\ rec.intent = run[r].intent /\ rec.session = run[r].session
      /\ rec.budget = run[r].budget /\ rec.untrusted = run[r].untrusted
  BY <1>2, DoneRecord
<1>4. Goto(r, evs, rec)
  OBVIOUS
<1> HIDE DEF rec
<1>5. RecordOK(rec) /\ rec.state # "None"
  BY <1>2, <1>3 DEF RecordOK, Acts, Registered
<1>6. rec.budget <= run[r].budget /\ (rec.pc = "planned" => rec.budget < run[r].budget)
  BY <1>2, <1>3 DEF RunRecord
<1>7. ASSUME NEW i \in Unsettled(r), ~Brings(evs, Outcomes, i) PROVE Holds(r, i)'
  <2>1. run[r].intent = i
    BY <1>1, <1>2, Driven DEF Holds
  <2>2. run'[r] = rec
    BY <1>4 DEF Goto, Inv, TypeInv, TypeOK
  <2> QED BY <1>3, <1>7, <2>1, <2>2 DEF Holds
<1> QED BY <1>1, <1>2, <1>3, <1>4, <1>5, <1>6, <1>7, GotoStep

\* A backend refuses, or sees the cancelled token, before it starts.
LEMMA StartRefusedStep ==
  ASSUME Inv, NEW r \in Runs, StartRefused(r)
  PROVE  Inv'
<1> DEFINE evs == <<E("ActionCancelled", run[r].intent, None)>>
<1>1. ~booting /\ RecordLocked(r) /\ run[r].pc = "planned" /\ UNCHANGED Other
  BY DEF StartRefused, AtRun, RecordLocked
<1>2. Quiet /\ run[r] \in RunRecord /\ RecordOK(run[r])
  BY <1>1, Driven, OtherIsQuiet
<1>3. Unsettled(r) = {}
  BY <1>1, NothingStarted
<1>4. <<>> \in Seq(Event) /\ Calm(<<>>) /\ Mild(<<>>)
  BY NoEvents DEF Mild
<1>5. evs \in Seq(Event) /\ Calm(evs) /\ Mild(evs)
  BY <1>2, OneMildEvent DEF RunRecord, Kinds, Infos, Terminals, Outcomes
<1>6. Goto(r, evs, Done(r, "ActionCancelled")) \/ Goto(r, <<>>, Done(r, "error"))
  BY DEF StartRefused
<1> HIDE DEF evs
<1>7. CASE Goto(r, evs, Done(r, "ActionCancelled"))
  BY <1>1, <1>2, <1>3, <1>5, <1>7, DoneStep DEF Outcomes
<1>8. CASE Goto(r, <<>>, Done(r, "error"))
  BY <1>1, <1>2, <1>3, <1>4, <1>8, DoneStep
<1> QED BY <1>6, <1>7, <1>8

\* A backend writes the outcome.
LEMMA RecordOutcomeStep ==
  ASSUME Inv, NEW r \in Runs, RecordOutcome(r)
  PROVE  Inv'
<1>1. ~booting /\ RecordLocked(r) /\ run[r].pc \in {"planned", "started", "performed"} /\ UNCHANGED Other
  BY DEF RecordOutcome, RecordLocked
<1>2. Quiet /\ run[r] \in RunRecord
  BY <1>1, Driven, OtherIsQuiet
<1>3. PICK o \in Outcomes \cup {"ActionOutcomeUnknown"} :
        Goto(r, <<E(o, run[r].intent, None)>>, Done(r, o))
  BY DEF RecordOutcome
<1> DEFINE e == E(o, run[r].intent, None)
           evs == <<e>>
<1>4. /\ evs \in Seq(Event) /\ Calm(evs) /\ Mild(evs) /\ Len(evs) = 1 /\ evs[1] = e
      /\ e.kind = o /\ e.intent = run[r].intent
  <2>1. /\ o \in Kinds /\ None \in Infos /\ run[r].intent \in Intents \cup {None}
        /\ o \notin Terminals \cup {"RunAccepted", "ActionStarted", "ActionDenied"}
    BY <1>2 DEF RunRecord, Kinds, Infos, Terminals, Outcomes
  <2>2. e.kind = o /\ e.intent = run[r].intent
    BY <2>1, EventType
  <2> QED BY <2>1, <2>2, OneMildEvent
<1>5. Goto(r, evs, Done(r, o))
  BY <1>3
<1> HIDE DEF e, evs
<1>6. o = "ActionOutcomeUnknown" \/ Brings(evs, Outcomes, run[r].intent)
  BY <1>4 DEF Brings
<1> QED BY <1>1, <1>2, <1>4, <1>5, <1>6, DoneStep

\* RecordOK and the hands of a record that goes on with its next turn.
LEMMA NextTurnStep ==
  ASSUME Inv, NEW r \in Runs, ~booting, run[r].pc = "after", Unsettled(r) = {}, Quiet,
         NEW evs \in Seq(Event), Calm(evs), Mild(evs),
         Goto(r, evs, NextTurn(run[r]))
  PROVE  Inv'
<1> DEFINE rec == NextTurn(run[r])
<1>1. RecordLocked(r)
  BY DEF RecordLocked
<1>2. Acts(r) /\ run[r] \in RunRecord /\ RecordOK(run[r]) /\ run[r].state # "Suspended"
  BY <1>1, Driven
<1>3. run[r].turn < MaxTurns
  BY <1>2 DEF RecordOK
<1>4. /\ rec \in RunRecord /\ rec.pc = "loop" /\ rec.state = run[r].state /\ rec.session = run[r].session
      /\ rec.untrusted = run[r].untrusted /\ rec.budget = run[r].budget
  BY <1>2, <1>3, NextTurnRecord, HarnessAssumption
<1>5. Goto(r, evs, rec)
  OBVIOUS
<1> HIDE DEF rec
<1>6. RecordOK(rec) /\ rec.state # "None"
  BY <1>2, <1>4 DEF RecordOK, Acts, Registered
<1>7. /\ rec.budget <= run[r].budget
      /\ rec.pc = "planned" => rec.budget < run[r].budget
      /\ \A i \in Unsettled(r) : ~Brings(evs, Outcomes, i) => Holds(r, i)'
  BY <1>2, <1>4 DEF RunRecord
<1> QED BY <1>1, <1>2, <1>4, <1>5, <1>6, <1>7, GotoStep

\* after_action_result: an action of unknown outcome suspends the run, all
\* others have settled.
LEMMA AfterActionStep ==
  ASSUME Inv, NEW r \in Runs, AfterAction(r)
  PROVE  Inv'
<1> DEFINE i == run[r].intent
           o == run[r].outcome
<1>1. ~booting /\ RecordLocked(r) /\ run[r].pc = "after" /\ UNCHANGED Other
  BY DEF AfterAction, AtRun, RecordLocked
<1>2. Acts(r) /\ Quiet /\ run[r] \in RunRecord /\ RecordOK(run[r])
  BY <1>1, Driven, OtherIsQuiet
<1>3. i \in Intents /\ run[r].turn < MaxTurns
  BY <1>1, <1>2 DEF RecordOK
<1>4. \A j \in Unsettled(r) : o = "ActionOutcomeUnknown" /\ i = j
  BY <1>1, Driven DEF Holds
<1>5. <<>> \in Seq(Event) /\ Calm(<<>>) /\ Mild(<<>>)
  BY NoEvents DEF Mild
<1>6. \/ /\ o = "ActionCompleted"
         /\ \/ \E ok \in BOOLEAN : Finish(r, <<Verified(ok)>>, "RunFailed")
            \/ Finish(r, <<Verified(TRUE)>>, "RunComplete")
            \/ \E ok \in BOOLEAN : Goto(r, <<Verified(ok)>>, NextTurn(run[r]))
      \/ Finish(r, <<>>, "RunAborted")
      \/ o = "ActionOutcomeUnknown" /\ Suspend(r, <<>>, "tool", i, "none")
      \/ Finish(r, <<>>, "RunFailed")
      \/ o \in {"ActionFailed", "error"} /\ Goto(r, <<>>, NextTurn(run[r]))
  <2>1. ASSUME o = "ActionCompleted", NEW ok \in BOOLEAN,
               \/ Finish(r, <<Verified(ok)>>, "RunFailed")
               \/ ok /\ Finish(r, <<Verified(ok)>>, "RunComplete")
               \/ Goto(r, <<Verified(ok)>>, NextTurn(run[r]))
        PROVE  \/ \E v \in BOOLEAN : Finish(r, <<Verified(v)>>, "RunFailed")
               \/ Finish(r, <<Verified(TRUE)>>, "RunComplete")
               \/ \E v \in BOOLEAN : Goto(r, <<Verified(v)>>, NextTurn(run[r]))
    <3>1. CASE ok = TRUE
      BY <2>1, <3>1
    <3>2. CASE ok = FALSE
      BY <2>1, <3>2
    <3> QED BY <3>1, <3>2
  <2>2. \/ /\ o = "ActionCompleted"
           /\ \E ok \in BOOLEAN :
                \/ Finish(r, <<Verified(ok)>>, "RunFailed")
                \/ ok /\ Finish(r, <<Verified(ok)>>, "RunComplete")
                \/ Goto(r, <<Verified(ok)>>, NextTurn(run[r]))
        \/ Finish(r, <<>>, "RunAborted")
        \/ o = "ActionOutcomeUnknown" /\ Suspend(r, <<>>, "tool", i, "none")
        \/ Finish(r, <<>>, "RunFailed")
        \/ o \in {"ActionFailed", "error"} /\ Goto(r, <<>>, NextTurn(run[r]))
    BY Zenon DEF AfterAction, Verdict
  <2>3. ASSUME o = "ActionCompleted",
               \E ok \in BOOLEAN :
                 \/ Finish(r, <<Verified(ok)>>, "RunFailed")
                 \/ ok /\ Finish(r, <<Verified(ok)>>, "RunComplete")
                 \/ Goto(r, <<Verified(ok)>>, NextTurn(run[r]))
        PROVE  \/ \E v \in BOOLEAN : Finish(r, <<Verified(v)>>, "RunFailed")
               \/ Finish(r, <<Verified(TRUE)>>, "RunComplete")
               \/ \E v \in BOOLEAN : Goto(r, <<Verified(v)>>, NextTurn(run[r]))
    BY <2>1, <2>3, Zenon
  <2>4. CASE o # "ActionCompleted"
    BY <2>2, <2>4, Zenon
  <2>5. CASE o = "ActionCompleted"
    <3>1. CASE \E ok \in BOOLEAN :
                 \/ Finish(r, <<Verified(ok)>>, "RunFailed")
                 \/ ok /\ Finish(r, <<Verified(ok)>>, "RunComplete")
                 \/ Goto(r, <<Verified(ok)>>, NextTurn(run[r]))
      BY <2>3, <2>5, <3>1, Zenon
    <3> QED BY <2>2, <2>5, <3>1, Zenon
  <2> QED BY <2>4, <2>5
<1>7. CASE \/ Finish(r, <<Verified(TRUE)>>, "RunComplete")
           \/ \E ok \in BOOLEAN : Finish(r, <<Verified(ok)>>, "RunFailed")
  BY <1>2, <1>7, VerifiedStep
<1>8. CASE Finish(r, <<>>, "RunAborted") \/ Finish(r, <<>>, "RunFailed")
  BY <1>2, <1>5, <1>8, FinishStep DEF Terminals
<1>9. CASE o = "ActionOutcomeUnknown" /\ Suspend(r, <<>>, "tool", i, "none")
  <2>1. /\ \A j \in Unsettled(r) : "tool" = "tool" /\ i = j
        /\ Suspend(r, <<>>, "tool", i, "none") /\ i \in Intents \cup {None}
    BY <1>3, <1>4, <1>9
  <2> HIDE DEF i
  <2> QED BY <1>2, <1>3, <1>5, <2>1, SuspendStep
<1>10. ASSUME o = "ActionCompleted", NEW ok \in BOOLEAN, Goto(r, <<Verified(ok)>>, NextTurn(run[r]))
       PROVE  Inv'
  BY <1>1, <1>2, <1>4, <1>10, VerifiedEvent, NextTurnStep
<1>11. CASE o \in {"ActionFailed", "error"} /\ Goto(r, <<>>, NextTurn(run[r]))
  BY <1>1, <1>2, <1>4, <1>5, <1>11, NextTurnStep
<1> QED BY <1>6, <1>7, <1>8, <1>9, <1>10, <1>11

\* emit_started: the start is paid for, and it is the only action without
\* an outcome.
LEMMA StartActionStep ==
  ASSUME Inv, NEW r \in Runs, StartAction(r)
  PROVE  Inv'
<1> DEFINE i == run[r].intent
           e == E("ActionStarted", i, None)
           evs == <<e>>
           rec == [run[r] EXCEPT !.pc = "started"]
<1>1. ~booting /\ RecordLocked(r) /\ run[r].pc = "planned" /\ UNCHANGED Other
  BY DEF StartAction, AtRun, RecordLocked
<1>2. Acts(r) /\ Quiet /\ run[r] \in RunRecord /\ RecordOK(run[r]) /\ run[r].state # "Suspended"
  BY <1>1, Driven, OtherIsQuiet
<1>3. Unsettled(r) = {}
  BY <1>1, NothingStarted
<1>4. i \in Intents
  BY <1>1, <1>2 DEF RecordOK
<1>5. e \in Event /\ e.kind = "ActionStarted" /\ e.intent = i
  BY <1>4 DEF E, Event, Kinds, Infos
<1>6. Write(r, evs) /\ run' = [run EXCEPT ![r] = rec] /\ lock' = lock
  BY DEF StartAction, Goto
<1>7. /\ rec \in RunRecord /\ rec.pc = "started" /\ rec.state = run[r].state /\ rec.turn = run[r].turn
      /\ rec.intent = i /\ rec.session = run[r].session /\ rec.budget = run[r].budget
      /\ rec.untrusted = run[r].untrusted
  BY <1>2 DEF RunRecord
<1> HIDE DEF e, rec, i
<1>8. evs \in Seq(Event) /\ Len(evs) = 1 /\ evs[1] = e
  BY <1>5, OneEvent
<1> HIDE DEF evs
<1>9. Mild(evs)
  BY <1>5, <1>8 DEF Mild, Terminals
<1>10. RecordOK(rec) /\ rec.state # "None"
  BY <1>1, <1>2, <1>4, <1>7 DEF RecordOK, Acts, Registered
<1>11. log \in [Runs -> Seq(Event)] /\ RunInv(r) /\ run'[r] = rec
  BY <1>6 DEF Inv, TypeInv, TypeOK
<1>12. InHands(r)'
  <2>1. ASSUME NEW j \in Unsettled(r)' PROVE j = i
    <3>1. Logged(r, {"ActionStarted"}, j)' <=> Logged(r, {"ActionStarted"}, j) \/ Brings(evs, {"ActionStarted"}, j)
      BY <1>8, <1>6, <1>11, LoggedAfterWrite
    <3>2. Logged(r, Outcomes, j)' <=> Logged(r, Outcomes, j) \/ Brings(evs, Outcomes, j)
      BY <1>8, <1>6, <1>11, LoggedAfterWrite
    <3>3. Brings(evs, {"ActionStarted"}, j) => j = i
      BY <1>5, <1>8 DEF Brings
    <3> QED BY <2>1, <3>1, <3>2, <3>3, <1>3 DEF Unsettled
  <2>2. \A j \in Unsettled(r)' : Holds(r, j)'
    BY <2>1, <1>7, <1>11 DEF Holds
  <2> QED BY <2>1, <2>2 DEF InHands
<1>13. BudgetOK(r)'
  <2> Extended(r, evs)
    BY <1>6, <1>8, <1>11, WriteExtends
  <2> DEFINE last == Len(log[r]) + 1
  <2>1. Starts(r)' = Starts(r) \cup {last} /\ last \notin Starts(r)
    <3>1. \A n : n \in 1..Len(log'[r]) <=> n \in 1..Len(log[r]) \/ n = last
      BY <1>8 DEF Extended
    <3>2. log'[r][last].kind = "ActionStarted"
      BY <1>5, <1>8 DEF Extended
    <3>3. \A n \in 1..Len(log[r]) : log'[r][n] = log[r][n]
      BY DEF Extended
    <3>4. last \notin 1..Len(log[r])
      BY DEF Extended
    <3> QED BY <3>1, <3>2, <3>3, <3>4 DEF Starts
  <2>2. IsFiniteSet(Starts(r))
    <3>1. IsFiniteSet(1..Len(log[r]))
      BY <1>11, FS_Interval
    <3> QED BY <3>1, FS_Subset DEF Starts
  <2>3. Cardinality(Starts(r)') = Cardinality(Starts(r)) + 1 /\ Cardinality(Starts(r)) \in Nat
    BY <2>1, <2>2, FS_AddElement, FS_CardinalityType
  <2>4. run[r].budget \in Nat /\ MaxActions \in Nat
    BY <1>2, HarnessAssumption DEF RunRecord, HarnessAssumption
  <2>5. Cardinality(Starts(r)) + run[r].budget < MaxActions
    BY <1>1, <1>11 DEF RunInv, BudgetOK
  <2>6. Cardinality(Starts(r)') + rec.budget <= MaxActions
    BY <1>7, <2>3, <2>4, <2>5
  <2> QED BY <1>7, <1>11, <2>6 DEF BudgetOK
<1>14. /\ lock' \in [Sessions -> Runs \cup {None}]
       /\ rec.pc \notin {"idle", "queued"} => lock'[rec.session] = r
       /\ \A s \in Runs : s # r /\ RecordLocked(s) => lock'[run[s].session] = s
  BY <1>1, <1>6, <1>7 DEF Inv, TypeInv, TypeOK, LocksHeld
<1> QED BY <1>2, <1>6, <1>7, <1>8, <1>9, <1>10, <1>12, <1>13, <1>14, ContinueStep

-----------------------------------------------------------------------------
(* Steps that write nothing, and the owner                                 *)

\* A step that changes run r's record and nothing in the log.
LEMMA RecordStep ==
  ASSUME Inv, NEW r \in Runs, Registered(r), ~booting,
         UNCHANGED <<log, accepted, planned, idem, lock, call, nextRun, booting>>,
         effects' \in [Intents -> Nat],
         NEW rec \in RunRecord, run' = [run EXCEPT ![r] = rec], RecordOK(rec),
         rec.state = run[r].state, rec.session = run[r].session, rec.untrusted = run[r].untrusted,
         rec.budget = run[r].budget, rec.pending = run[r].pending, rec.intent = run[r].intent,
         rec.outcome = run[r].outcome,
         rec.pc = run[r].pc \/ (run[r].pc = "started" /\ rec.pc = "performed")
  PROVE  Inv'
<1>1. run' \in [Runs -> RunRecord] /\ run'[r] = rec /\ \A s \in Runs : s # r => run'[s] = run[s]
  BY DEF Inv, TypeInv, TypeOK
<1>2. RunInv(r)
  BY DEF Inv
<1>3. TypeInv'
  BY <1>1 DEF Inv, TypeInv, TypeOK
<1>4. RecordOK(run[r])'
  BY <1>1 DEF RecordOK, Unregistered, NoPending
<1>5. LogOK(r)'
  BY <1>2 DEF RunInv, LogOK, EndLogged, Verified, E
<1>6. Open(r)' /\ Provenance(r)' /\ BudgetOK(r)' /\ Registered(r)'
  BY <1>1, <1>2 DEF RunInv, Open, EndLogged, Provenance, Registered, BudgetOK, Starts
<1>7. \A i \in Intents : Holds(r, i) => Holds(r, i)'
  BY <1>1 DEF Holds
<1>8. InHands(r)'
  BY <1>1, <1>2, <1>7 DEF RunInv, InHands, EndLogged, Unsettled, Logged, Registered
<1>9. /\ \A s \in Runs : s # r /\ RecordLocked(s) => lock'[run[s].session] = s
      /\ RecordLocked(r)' => lock'[run'[r].session] = r
  BY <1>1 DEF Inv, LocksHeld, RecordLocked
<1>10. RunInv(r)'
  BY <1>4, <1>5, <1>6, <1>8 DEF RunInv
<1> QED BY <1>1, <1>3, <1>6, <1>9, <1>10, OneRun DEF OneRunStep

\* The effect on the outside world.
LEMMA PerformEffectStep ==
  ASSUME Inv, NEW r \in Runs, PerformEffect(r)
  PROVE  Inv'
<1> DEFINE rec == [run[r] EXCEPT !.pc = "performed"]
<1>1. ~booting /\ RecordLocked(r) /\ run[r].pc = "started"
  BY DEF PerformEffect, AtRun, RecordLocked
<1>2. Registered(r) /\ run[r] \in RunRecord /\ RecordOK(run[r])
  BY <1>1, Driven DEF Acts
<1>3. /\ rec \in RunRecord /\ rec.pc = "performed" /\ rec.state = run[r].state /\ rec.turn = run[r].turn
      /\ rec.intent = run[r].intent /\ rec.session = run[r].session /\ rec.budget = run[r].budget
      /\ rec.untrusted = run[r].untrusted /\ rec.pending = run[r].pending /\ rec.outcome = run[r].outcome
  BY <1>2 DEF RunRecord
<1>4. run' = [run EXCEPT ![r] = rec]
  BY DEF PerformEffect
<1> HIDE DEF rec
<1>5. RecordOK(rec)
  BY <1>1, <1>2, <1>3 DEF RecordOK, Registered
<1>6. effects' \in [Intents -> Nat]
  <2>1. effects \in [Intents -> Nat] /\ effects' = [effects EXCEPT ![run[r].intent] = @ + 1]
    BY DEF PerformEffect, Inv, TypeInv, TypeOK
  <2>2. run[r].intent \in Intents
    BY <1>1, <1>2 DEF RecordOK
  <2>3. effects[run[r].intent] + 1 \in Nat
    BY <2>1, <2>2
  <2> QED BY <2>1, <2>3
<1> QED BY <1>1, <1>2, <1>3, <1>4, <1>5, <1>6, RecordStep DEF PerformEffect, storeVars

\* An approval request expires; a canceller raises its flag.
LEMMA FlagStep ==
  ASSUME Inv, NEW r \in Runs, ApprovalExpires(r) \/ CancelSignal(r)
  PROVE  Inv'
<1>1. ~booting /\ UNCHANGED <<log, lock, Other>> /\ run[r] \in RunRecord /\ RecordOK(run[r])
  BY DEF ApprovalExpires, CancelSignal, Inv, TypeInv, TypeOK, RunInv
<1>2. Registered(r)
  BY <1>1 DEF ApprovalExpires, CancelSignal, RecordOK, Registered, Unregistered
<1>3. effects' \in [Intents -> Nat]
  BY <1>1 DEF Other, Inv, TypeInv, TypeOK
<1>4. PICK rec \in {[run[r] EXCEPT !.ticket = "expired"], [run[r] EXCEPT !.cancelled = TRUE, !.cancelling = TRUE]} :
        run' = [run EXCEPT ![r] = rec]
  BY DEF ApprovalExpires, CancelSignal
<1>5. /\ rec \in RunRecord /\ rec.pc = run[r].pc /\ rec.state = run[r].state /\ rec.turn = run[r].turn
      /\ rec.intent = run[r].intent /\ rec.session = run[r].session /\ rec.budget = run[r].budget
      /\ rec.untrusted = run[r].untrusted /\ rec.pending = run[r].pending /\ rec.outcome = run[r].outcome
      /\ rec.mode = run[r].mode
  BY <1>1 DEF RunRecord
<1>6. RecordOK(rec)
  BY <1>1, <1>2, <1>5 DEF RecordOK, Registered
<1>7. UNCHANGED <<log, accepted, planned, idem, lock, call, nextRun, booting>>
  BY <1>1 DEF Other
<1> QED BY <1>1, <1>2, <1>3, <1>4, <1>5, <1>6, <1>7, RecordStep

\* cancel: a suspended run is ended, or the canceller gives up.
LEMMA CancelTryStep ==
  ASSUME Inv, NEW r \in Runs, CancelTry(r)
  PROVE  Inv'
<1>1. /\ ~booting /\ UNCHANGED Other /\ lock' = lock /\ run[r].cancelling
      /\ run[r] \in RunRecord /\ RunInv(r) /\ RecordOK(run[r])
  BY DEF CancelTry, Inv, TypeInv, TypeOK, RunInv
<1>2. Registered(r)
  BY <1>1 DEF RecordOK, Registered, Unregistered
<1>3. CASE Cancellable(r)
  <2> DEFINE ended == Ended(run[r], "RunAborted")
             rec == [ended EXCEPT !.cancelling = FALSE]
             evs == <<Ev("RunAborted")>>
  <2>1. run[r].state = "Suspended" /\ run[r].pc = "idle" /\ ~EndLogged(r)
    BY <1>1, <1>3 DEF Cancellable, RecordOK, RunInv, Open
  <2>2. Write(r, evs) /\ run' = [run EXCEPT ![r] = rec]
    BY <1>3 DEF CancelTry
  <2>3. /\ ended \in RunRecord /\ ended.state = "Terminal" /\ ended.pc = "idle"
        /\ ended.session = run[r].session /\ ended.untrusted = run[r].untrusted
        /\ ended.budget = run[r].budget
    BY <1>1, <2>1, EndedRecord DEF Terminals
  <2> HIDE DEF ended
  <2>4. /\ rec \in RunRecord /\ rec.state = "Terminal" /\ rec.pc = "idle"
        /\ rec.session = run[r].session /\ rec.untrusted = run[r].untrusted
        /\ rec.budget = run[r].budget
    BY <2>3 DEF RunRecord
  <2> HIDE DEF rec
  <2>5. evs \in Seq(Event) /\ Len(evs) = 1 /\ evs[1].kind = "RunAborted"
    <3>1. Ev("RunAborted") \in Event /\ Ev("RunAborted").kind = "RunAborted"
      BY DEF Ev, E, Event, Kinds, Terminals, Infos
    <3> QED BY <3>1, OneEvent
  <2> HIDE DEF evs
  <2>6. /\ WellFormed(evs) /\ Ends(evs)
        /\ \A n \in 1..Len(evs) : evs[n].kind # "ActionStarted"
    BY <2>5 DEF WellFormed, Ends, Terminals
  <2>7. /\ lock' \in [Sessions -> Runs \cup {None}]
        /\ \A s \in Runs : s # r /\ RecordLocked(s) => lock'[run[s].session] = s
    BY <1>1 DEF Inv, TypeInv, TypeOK, LocksHeld
  <2>8. Quiet
    BY <1>1, OtherIsQuiet
  <2> QED BY <1>1, <1>2, <2>1, <2>2, <2>4, <2>5, <2>6, <2>7, <2>8, EndStep
<1>4. CASE ~Cancellable(r)
  <2> DEFINE rec == [run[r] EXCEPT !.cancelling = FALSE]
  <2>1. run' = [run EXCEPT ![r] = rec] /\ log' = log
    BY <1>4 DEF CancelTry
  <2>2. /\ rec \in RunRecord /\ rec.pc = run[r].pc /\ rec.state = run[r].state /\ rec.turn = run[r].turn
        /\ rec.intent = run[r].intent /\ rec.session = run[r].session /\ rec.budget = run[r].budget
        /\ rec.untrusted = run[r].untrusted /\ rec.pending = run[r].pending /\ rec.outcome = run[r].outcome
        /\ rec.mode = run[r].mode
    BY <1>1 DEF RunRecord
  <2> HIDE DEF rec
  <2>3. RecordOK(rec)
    BY <1>1, <1>2, <2>2 DEF RecordOK, Registered
  <2>4. /\ UNCHANGED <<log, accepted, planned, idem, lock, call, nextRun, booting>>
        /\ effects' \in [Intents -> Nat]
    BY <1>1, <2>1 DEF Other, Inv, TypeInv, TypeOK
  <2> QED BY <1>1, <1>2, <2>1, <2>2, <2>3, <2>4, RecordStep
<1> QED BY <1>3, <1>4

\* A step that writes two mild events.
LEMMA TwoMildEvents ==
  ASSUME NEW e \in Event, NEW f \in Event,
         e.kind \notin Terminals \cup {"RunAccepted", "ActionStarted", "ActionDenied"},
         f.kind \notin Terminals \cup {"RunAccepted", "ActionStarted", "ActionDenied"}
  PROVE  /\ <<e, f>> \in Seq(Event) /\ Calm(<<e, f>>) /\ Mild(<<e, f>>)
         /\ Len(<<e, f>>) = 2 /\ <<e, f>>[1] = e /\ <<e, f>>[2] = f
<1>1. <<e, f>> \in Seq(Event) /\ Len(<<e, f>>) = 2 /\ <<e, f>>[1] = e /\ <<e, f>>[2] = f
  OBVIOUS
<1>2. \A n \in 1..2 : n = 1 \/ n = 2
  OBVIOUS
<1> QED BY <1>1, <1>2 DEF Calm, Mild

\* A suspended run waits unlocked; only an action that the owner must judge
\* is without an outcome.
LEMMA Owned ==
  ASSUME Inv, NEW r \in Runs, NEW kind, CanResume(r, kind)
  PROVE  /\ Acts(r) /\ run[r] \in RunRecord /\ RecordOK(run[r])
         /\ run[r].state = "Suspended" /\ run[r].pc = "idle" /\ run[r].pending.kind = kind
         /\ \A i \in Unsettled(r) : kind = "tool" /\ run[r].pending.intent = i
<1>1. run[r] \in RunRecord /\ RunInv(r) /\ ~booting /\ run[r].state = "Suspended"
      /\ run[r].pending.kind = kind /\ SessionFree(r)
  BY DEF Inv, TypeInv, TypeOK, CanResume
<1>2. RecordOK(run[r]) /\ run[r].pc = "idle"
  BY <1>1 DEF RunInv, RecordOK
<1>3. Acts(r)
  BY <1>1, <1>2 DEF Acts, Registered, RunInv, Open
<1>4. \A i \in Unsettled(r) : Holds(r, i)
  BY <1>1, <1>3 DEF RunInv, InHands, Acts
<1>5. \A i : run[r].pending = [kind |-> "tool", intent |-> i] => kind = "tool" /\ run[r].pending.intent = i
  BY <1>1
<1> QED BY <1>1, <1>2, <1>3, <1>4, <1>5 DEF Holds

\* resume_approval: a granted approval goes on to the execution.
LEMMA ResumeApprovalStep ==
  ASSUME Inv, NEW r \in Runs, ResumeApproval(r)
  PROVE  Inv'
<1> DEFINE i == run[r].pending.intent
           evs(outcome) == <<E("ApprovalResolved", i, outcome), E("RunResumed", i, "approval")>>
<1>1. CanResume(r, "approval") /\ UNCHANGED Other
  BY DEF ResumeApproval
<1>2. /\ Acts(r) /\ run[r] \in RunRecord /\ RecordOK(run[r]) /\ Quiet
      /\ run[r].state = "Suspended" /\ run[r].pc = "idle" /\ run[r].pending.kind = "approval"
      /\ Unsettled(r) = {}
  BY <1>1, Owned, OtherIsQuiet
<1>3. i \in Intents /\ run[r].turn < MaxTurns
  BY <1>2 DEF RecordOK
<1>4. <<>> \in Seq(Event) /\ Calm(<<>>)
  BY NoEvents
<1>5. ASSUME NEW outcome \in {"Granted", "Denied"}
      PROVE  evs(outcome) \in Seq(Event) /\ Calm(evs(outcome)) /\ Mild(evs(outcome))
  <2>1. E("ApprovalResolved", i, outcome) \in Event /\ E("ApprovalResolved", i, outcome).kind = "ApprovalResolved"
    BY <1>3 DEF E, Event, Kinds, Infos
  <2>2. E("RunResumed", i, "approval") \in Event /\ E("RunResumed", i, "approval").kind = "RunResumed"
    BY <1>3 DEF E, Event, Kinds, Infos
  <2> QED BY <2>1, <2>2, TwoMildEvents DEF Terminals
<1>6. \/ Deny(r, <<>>, i) \/ Deny(r, evs("Denied"), i) \/ Deny(r, evs("Granted"), i)
      \/ /\ Write(r, evs("Granted"))
         /\ run' = [run EXCEPT ![r] =
              [@ EXCEPT !.state = "Running", !.pending = NoPending, !.ticket = "none",
                 !.driver = "approve", !.pc = "execute", !.intent = i,
                 !.approval = <<r, run[r].turn>>]]
         /\ lock' = [lock EXCEPT ![run[r].session] = r]
  BY DEF ResumeApproval
<1> HIDE DEF i, evs
<1>7. CASE Deny(r, <<>>, i) \/ Deny(r, evs("Denied"), i) \/ Deny(r, evs("Granted"), i)
  BY <1>2, <1>3, <1>4, <1>5, <1>7, DenyStep
<1>8. ASSUME Write(r, evs("Granted")),
             run' = [run EXCEPT ![r] =
               [@ EXCEPT !.state = "Running", !.pending = NoPending, !.ticket = "none",
                  !.driver = "approve", !.pc = "execute", !.intent = i,
                  !.approval = <<r, run[r].turn>>]],
             lock' = [lock EXCEPT ![run[r].session] = r]
      PROVE  Inv'
  <2> DEFINE ref == <<r, run[r].turn>>
             rec == [run[r] EXCEPT !.state = "Running", !.pending = NoPending, !.ticket = "none",
                       !.driver = "approve", !.pc = "execute", !.intent = i, !.approval = ref]
  <2>1. run' = [run EXCEPT ![r] = rec]
    BY <1>8
  <2>2. ref \in Approvals
    BY <1>2 DEF Approvals, RunRecord
  <2>3. NoPending \in Pending
    BY DEF NoPending, Pending
  <2> HIDE DEF ref
  <2>4. rec \in RunRecord
    BY <1>2, <1>3, <2>2, <2>3 DEF RunRecord
  <2>5. /\ rec.pc = "execute" /\ rec.state = "Running" /\ rec.turn = run[r].turn
        /\ rec.intent = i /\ rec.session = run[r].session /\ rec.budget = run[r].budget
        /\ rec.untrusted = run[r].untrusted
    BY <1>2 DEF RunRecord
  <2> HIDE DEF rec
  <2>6. RecordOK(rec)
    BY <1>2, <1>3, <2>5 DEF RecordOK, Acts, Registered
  <2>7. /\ lock' \in [Sessions -> Runs \cup {None}] /\ lock'[run[r].session] = r
        /\ \A s \in Runs : s # r /\ RecordLocked(s) => lock'[run[s].session] = s
    BY <1>2, <1>8, ActsOnSession, LockStep DEF Inv, Acts
  <2>8. /\ rec.state # "None" /\ rec.budget <= run[r].budget
        /\ rec.pc = "planned" => rec.budget < run[r].budget
        /\ rec.pc \notin {"idle", "queued"} => lock'[rec.session] = r
        /\ \A j \in Unsettled(r) : ~Brings(evs("Granted"), Outcomes, j) => Holds(r, j)'
    BY <1>2, <2>5, <2>7 DEF RunRecord
  <2> QED BY <1>2, <1>5, <1>8, <2>1, <2>4, <2>5, <2>6, <2>7, <2>8, CalmStep
<1> QED BY <1>6, <1>7, <1>8

\* resume_unknown: the owner settles the action and the run ends.
LEMMA ResumeUnknownStep ==
  ASSUME Inv, NEW r \in Runs, ResumeUnknown(r)
  PROVE  Inv'
<1> DEFINE i == run[r].pending.intent
           evs(o) == <<E("RunResumed", i, "tool"), E(o, i, "owner")>>
<1>1. CanResume(r, "tool") /\ UNCHANGED Other
  BY DEF ResumeUnknown
<1>2. Acts(r) /\ Quiet /\ run[r] \in RunRecord /\ run[r].pending.kind = "tool" /\ i \in Intents
  BY <1>1, Owned, OtherIsQuiet DEF RecordOK
<1>3. ASSUME NEW o \in Outcomes
      PROVE  evs(o) \in Seq(Event) /\ Calm(evs(o)) /\ Len(evs(o)) = 2 /\ evs(o)[2].info = "owner"
  <2>1. E("RunResumed", i, "tool") \in Event /\ E("RunResumed", i, "tool").kind = "RunResumed"
    BY <1>2 DEF E, Event, Kinds, Infos
  <2>2. E(o, i, "owner") \in Event /\ E(o, i, "owner").kind = o /\ E(o, i, "owner").info = "owner"
    BY <1>2 DEF E, Event, Kinds, Infos
  <2>3. o \notin Terminals \cup {"RunAccepted", "ActionStarted", "ActionDenied"}
    BY DEF Outcomes, Terminals
  <2> QED BY <2>1, <2>2, <2>3, TwoMildEvents DEF Terminals
<1>4. \/ Finish(r, evs("ActionCompleted"), "RunComplete")
      \/ Finish(r, evs("ActionFailed"), "RunFailed")
      \/ Finish(r, evs("ActionCancelled"), "RunAborted")
  BY DEF ResumeUnknown
<1> HIDE DEF evs, i
<1>5. ASSUME NEW o \in Outcomes, NEW status \in Terminals, Finish(r, evs(o), status) PROVE Inv'
  <2>1. Len(evs(o)) > 0 /\ evs(o)[Len(evs(o))].info = "owner"
    BY <1>3
  <2> QED BY <1>2, <1>3, <1>5, <2>1, FinishStep
<1> QED BY <1>4, <1>5 DEF Outcomes, Terminals

\* resume of a handoff: rejected, or driven on.
LEMMA ResumeHandoffStep ==
  ASSUME Inv, NEW r \in Runs, ResumeHandoff(r)
  PROVE  Inv'
<1> DEFINE evs == <<Ev("HandoffResolved")>>
<1>1. CanResume(r, "handoff") /\ UNCHANGED Other
  BY DEF ResumeHandoff
<1>2. /\ Acts(r) /\ run[r] \in RunRecord /\ RecordOK(run[r]) /\ Quiet
      /\ run[r].state = "Suspended" /\ run[r].pending.kind = "handoff" /\ Unsettled(r) = {}
  BY <1>1, Owned, OtherIsQuiet
<1>3. evs \in Seq(Event) /\ Calm(evs) /\ Mild(evs)
  BY OneMildEvent DEF Ev, Kinds, Infos, Terminals, Outcomes
<1>4. \/ Finish(r, evs, "RunAborted")
      \/ /\ Write(r, evs)
         /\ run' = [run EXCEPT ![r] =
              [NextTurn(@) EXCEPT !.state = "Running", !.pending = NoPending, !.driver = "resume"]]
         /\ lock' = [lock EXCEPT ![run[r].session] = r]
  BY DEF ResumeHandoff
<1> HIDE DEF evs
<1>5. CASE Finish(r, evs, "RunAborted")
  BY <1>2, <1>3, <1>5, FinishStep DEF Terminals
<1>6. ASSUME Write(r, evs),
             run' = [run EXCEPT ![r] =
               [NextTurn(@) EXCEPT !.state = "Running", !.pending = NoPending, !.driver = "resume"]],
             lock' = [lock EXCEPT ![run[r].session] = r]
      PROVE  Inv'
  <2> DEFINE next == NextTurn(run[r])
             rec == [next EXCEPT !.state = "Running", !.pending = NoPending, !.driver = "resume"]
  <2>1. run' = [run EXCEPT ![r] = rec]
    BY <1>6
  <2>2. /\ next \in RunRecord /\ next.pc = "loop" /\ next.session = run[r].session
        /\ next.untrusted = run[r].untrusted /\ next.budget = run[r].budget
    BY <1>2, NextTurnRecord, HarnessAssumption DEF RecordOK
  <2>3. NoPending \in Pending
    BY DEF NoPending, Pending
  <2> HIDE DEF next
  <2>4. /\ rec \in RunRecord /\ rec.pc = "loop" /\ rec.state = "Running" /\ rec.session = run[r].session
        /\ rec.untrusted = run[r].untrusted /\ rec.budget = run[r].budget
    BY <2>2, <2>3 DEF RunRecord
  <2> HIDE DEF rec
  <2>5. RecordOK(rec)
    BY <1>2, <2>4 DEF RecordOK, Acts, Registered
  <2>6. /\ lock' \in [Sessions -> Runs \cup {None}] /\ lock'[run[r].session] = r
        /\ \A s \in Runs : s # r /\ RecordLocked(s) => lock'[run[s].session] = s
    BY <1>2, <1>6, ActsOnSession, LockStep DEF Inv, Acts
  <2>7. /\ rec.state # "None" /\ rec.budget <= run[r].budget
        /\ rec.pc = "planned" => rec.budget < run[r].budget
        /\ rec.pc \notin {"idle", "queued"} => lock'[rec.session] = r
        /\ \A j \in Unsettled(r) : ~Brings(evs, Outcomes, j) => Holds(r, j)'
    BY <1>2, <2>4, <2>6 DEF RunRecord
  <2> QED BY <1>2, <1>3, <1>6, <2>1, <2>4, <2>5, <2>6, <2>7, CalmStep
<1> QED BY <1>4, <1>5, <1>6

-----------------------------------------------------------------------------
(* Submissions                                                             *)

\* A key is not None, neither is a request, and a session belongs to one.
LEMMA RequestFacts ==
  ASSUME NEW c \in Clients
  PROVE  /\ Request[c] \in Requests /\ Request[c] # None
         /\ Request[c].key \in Keys /\ Request[c].session \in Sessions
         /\ Request[c].untrusted \in BOOLEAN /\ Request[c].mode \in Modes
         /\ Request[c].intent \in Intents \cup {None}
         /\ Request[c].mode # "Loop" => Request[c].intent \in Intents
BY HarnessAssumption DEF HarnessAssumption, Requests, Keys, Sessions, Modes

\* A call that is answered leaves the other accepted calls as they are.
LEMMA CallsShrink ==
  ASSUME CallsOK, UNCHANGED <<log, run, accepted, nextRun, booting>>,
         \A d \in Clients : call'[d].pc = "accepted" => call'[d] = call[d]
  PROVE  CallsOK'
<1>1. \A d \in Clients : call'[d].pc = "accepted" => CallOK(d)'
  BY DEF CallsOK, CallOK, Registered
<1>2. \A c, d \in Clients :
        call'[c].pc = "accepted" /\ call'[d].pc = "accepted" /\ call'[c].run = call'[d].run => c = d
  BY DEF CallsOK
<1> QED BY <1>1, <1>2 DEF CallsOK, Registered

\* prepare_ingress_internal_as consults the in-memory map.
LEMMA SubmitLookupStep ==
  ASSUME Inv, NEW c \in Clients, SubmitLookup(c)
  PROVE  Inv'
<1>1. UNCHANGED <<log, accepted, planned, effects, run, idem, lock, nextRun, booting>>
  BY DEF SubmitLookup, storeVars
<1> PICK pc \in {"done", "miss"} : call' = [call EXCEPT ![c].pc = pc]
  BY DEF SubmitLookup
<1>2. TypeInv'
  BY <1>1 DEF Inv, TypeInv, TypeOK
<1>3. \A s \in Runs : RunInv(s)'
  BY <1>1, OtherRun DEF Inv, TypeInv
<1>4. LocksHeld' /\ BootOK'
  BY <1>1 DEF Inv, LocksHeld, BootOK, RecordLocked
<1>5. \A d \in Clients : call'[d].pc = "accepted" => call'[d] = call[d]
  BY DEF Inv, TypeInv
<1>6. CallsOK'
  BY <1>1, <1>5, CallsShrink DEF Inv
<1> QED BY <1>2, <1>3, <1>4, <1>6 DEF Inv

\* The acceptance is written, swallowed or refused.
LEMMA SubmitAcceptStep ==
  ASSUME Inv, NEW c \in Clients, SubmitAccept(c)
  PROVE  Inv'
<1> DEFINE k == Request[c].key
           e == E("RunAccepted", None, k)
<1>1. /\ ~booting /\ UNCHANGED <<planned, effects, run, idem, lock, booting>>
      /\ call[c].pc = "miss"
  BY DEF SubmitAccept
<1>2. /\ TypeInv /\ CallsOK /\ \A s \in Runs : RunInv(s)
      /\ log \in [Runs -> Seq(Event)] /\ accepted \in [Keys -> Requests \cup {None}]
      /\ nextRun \in Nat \ {0}
  BY DEF Inv, TypeInv
<1>3. k \in Keys /\ Request[c] \in Requests /\ Request[c] # None
  BY RequestFacts
<1>4. LocksHeld' /\ BootOK'
  BY <1>1 DEF Inv, LocksHeld, BootOK, RecordLocked
<1>5. ASSUME UNCHANGED <<log, accepted, nextRun>>, call' = [call EXCEPT ![c].pc = "done"] PROVE Inv'
  <2>1. TypeInv'
    BY <1>1, <1>5 DEF Inv, TypeInv, TypeOK
  <2>2. \A s \in Runs : RunInv(s)'
    BY <1>1, <1>2, <1>5, OtherRun
  <2>3. \A d \in Clients : call'[d].pc = "accepted" => call'[d] = call[d]
    BY <1>5 DEF Inv, TypeInv
  <2>4. CallsOK'
    BY <1>1, <1>2, <1>5, <2>3, CallsShrink
  <2> QED BY <1>4, <2>1, <2>2, <2>4 DEF Inv
<1>6. ASSUME DrawRun, call' = [call EXCEPT ![c] = [pc |-> "accepted", run |-> nextRun]],
             \/ accepted[k] = Request[c] /\ UNCHANGED <<log, accepted>>
             \/ /\ accepted[k] = None /\ accepted' = [accepted EXCEPT ![k] = Request[c]]
                /\ Write(nextRun, <<e>>)
      PROVE  Inv'
  <2> PICK r \in Runs : r = nextRun
    BY <1>2, <1>6, HarnessAssumption DEF DrawRun, Runs, HarnessAssumption
  <2>1. nextRun' = r + 1
    BY <1>6 DEF DrawRun
  <2>2. log[r] = <<>> /\ ~Registered(r) /\ RunInv(r)
    BY <1>2, <2>1 DEF CallsOK
  <2>3. e \in Event /\ e.kind = "RunAccepted" /\ e.intent = None /\ e.info = k
    BY <1>3 DEF E, Event, Kinds, Infos
  <2> DEFINE evs == <<e>>
  <2>4. evs \in Seq(Event) /\ Len(evs) = 1 /\ evs[1] = e
    BY <2>3, OneEvent
  <2>5. /\ log' \in [Runs -> Seq(Event)] /\ \A s \in Runs : s # r => log'[s] = log[s]
        /\ log'[r] = <<>> \/ (log'[r] = evs /\ accepted'[k] = Request[c])
    <3>1. CASE UNCHANGED <<log, accepted>>
      BY <3>1, <1>2, <2>2
    <3>2. CASE Write(r, evs) /\ accepted' = [accepted EXCEPT ![k] = Request[c]]
      <4>1. log'[r] = <<>> \o evs
        BY <1>2, <2>1, <2>2, <3>2 DEF Write
      <4>2. log'[r] = evs
        BY <4>1, <2>4
      <4> QED BY <4>2, <1>2, <1>3, <2>1, <2>4, <3>2, WriteExtends DEF Extended
    <3> QED BY <1>6, <3>1, <3>2
  <2>6. /\ accepted' \in [Keys -> Requests \cup {None}] /\ accepted'[k] = Request[c]
        /\ \A j \in Keys : accepted[j] \in Requests => accepted'[j] = accepted[j]
    <3>1. None \notin Requests
      BY RequestFacts DEF Requests
    <3> QED BY <1>2, <1>3, <1>6, <3>1
  <2>7. TypeInv'
    BY <1>1, <1>2, <1>6, <2>1, <2>5, <2>6 DEF TypeInv, TypeOK
  <2> HIDE DEF e, evs
  <2>8. RunInv(r)'
    <3>1. Len(log'[r]) \in {0, 1} /\ \A n \in 1..Len(log'[r]) : n = 1 /\ log'[r][n] = e
      <4>1. CASE log'[r] = <<>>
        BY <4>1
      <4>2. CASE log'[r] = evs
        BY <2>4, <4>2, \A n \in 1..1 : n = 1
      <4> QED BY <2>5, <4>1, <4>2
    <3>2. LogOK(r)'
      BY <3>1, <2>3, <2>6, <1>3 DEF LogOK, Terminals
    <3>3. Unsettled(r)' = {}
      BY <3>1, <2>3 DEF Unsettled, Logged
    <3>4. Starts(r)' = {} /\ Starts(r) = {}
      BY <3>1, <2>2, <2>3 DEF Starts
    <3>5. BudgetOK(r)'
      BY <1>1, <2>2, <3>4 DEF RunInv, BudgetOK
    <3>6. RecordOK(run[r])' /\ Open(r)' /\ Provenance(r)'
      BY <1>1, <2>2 DEF RunInv, RecordOK, Open, Provenance, Registered, Unregistered, NoPending
    <3>7. InHands(r)'
      BY <3>3 DEF InHands
    <3> QED BY <3>2, <3>5, <3>6, <3>7 DEF RunInv
  <2>9. ASSUME NEW s \in Runs, s # r PROVE RunInv(s)'
    BY <1>1, <1>2, <2>5, <2>6, <2>9, OtherRun
  <2>10. CallsOK'
    <3>1. /\ call'[c] = [pc |-> "accepted", run |-> r]
          /\ \A d \in Clients : d # c => call'[d] = call[d]
      BY <1>2, <1>6 DEF TypeInv
    <3>2. ASSUME NEW d \in Clients, d # c, call'[d].pc = "accepted"
          PROVE  CallOK(d)' /\ call'[d].run # r
      <4>1. CallOK(d) /\ call'[d] = call[d]
        BY <1>2, <3>1, <3>2 DEF CallsOK
      <4> PICK s \in Runs : s = call[d].run
        BY <4>1 DEF CallOK
      <4>2. s # r /\ s < nextRun' /\ log'[s] = log[s] /\ ~Registered(s)'
        BY <4>1, <1>1, <2>1, <2>5 DEF Runs, CallOK, Registered
      <4>3. accepted[Request[d].key] = Request[d] => accepted'[Request[d].key] = Request[d]
        BY <2>6, RequestFacts
      <4> QED BY <4>1, <4>2, <4>3, <1>1 DEF CallOK
    <3>3. CallOK(c)'
      BY <1>1, <1>2, <2>1, <2>2, <2>5, <3>1 DEF Registered, e, evs, CallOK, Runs
    <3>4. \A s \in Runs : s >= nextRun' => log'[s] = <<>> /\ ~Registered(s)'
      BY <1>1, <1>2, <2>1, <2>5 DEF CallsOK, Registered, Runs
    <3>5. \A d \in Clients : call'[d].pc = "accepted" => CallOK(d)'
      BY <3>2, <3>3
    <3>6. \A d, f \in Clients :
            call'[d].pc = "accepted" /\ call'[f].pc = "accepted" /\ call'[d].run = call'[f].run => d = f
      BY <1>2, <3>1, <3>2 DEF CallsOK
    <3> QED BY <3>4, <3>5, <3>6 DEF CallsOK
  <2> QED BY <1>4, <2>7, <2>8, <2>9, <2>10 DEF Inv
<1> QED BY <1>5, <1>6 DEF SubmitAccept

\* The run enters the maps: its record agrees with its acceptance.
LEMMA SubmitRegisterStep ==
  ASSUME Inv, NEW c \in Clients, SubmitRegister(c)
  PROVE  Inv'
<1> DEFINE req == Request[c]
           rec == [Unregistered EXCEPT !.state = "Accepted", !.session = req.session,
                     !.untrusted = req.untrusted, !.mode = req.mode, !.intent = req.intent,
                     !.budget = MaxActions, !.driver = "submit", !.pc = "queued"]
<1>1. /\ TypeInv /\ CallsOK /\ \A s \in Runs : RunInv(s)
      /\ log \in [Runs -> Seq(Event)]
  BY DEF Inv, TypeInv
<1>2. CallOK(c) /\ ~booting /\ call[c].pc = "accepted"
  BY <1>1 DEF SubmitRegister, CallsOK
<1> PICK r \in Runs : r = call[c].run
  BY <1>2 DEF CallOK
<1>3. /\ UNCHANGED <<log, accepted, planned, effects, lock, nextRun, booting>>
      /\ run' = [run EXCEPT ![r] = rec]
      /\ idem' = [idem EXCEPT ![req.key] = r]
      /\ call' = [call EXCEPT ![c].pc = "done"]
  BY DEF SubmitRegister, storeVars
<1>4. /\ rec \in RunRecord /\ rec.state = "Accepted" /\ rec.session = req.session /\ rec.pc = "queued"
      /\ rec.untrusted = req.untrusted /\ rec.mode = req.mode /\ rec.intent = req.intent
      /\ rec.budget = MaxActions /\ rec.turn = 0
  <2> DEFINE session == req.session
             untrusted == req.untrusted
             mode == req.mode
             intent == req.intent
  <2>1. /\ session \in Sessions /\ untrusted \in BOOLEAN /\ mode \in Modes /\ intent \in Intents \cup {None}
        /\ MaxActions \in Nat /\ MaxTurns \in Nat
    BY RequestFacts, HarnessAssumption DEF HarnessAssumption
  <2>2. /\ Unregistered \in RunRecord /\ Unregistered.turn = 0
    BY <2>1 DEF Unregistered, RunRecord, Pending, NoPending, Approvals, Modes
  <2> HIDE DEF session, untrusted, mode, intent
  <2>3. rec \in RunRecord
    BY <2>1, <2>2 DEF RunRecord, session, untrusted, mode, intent
  <2>4. /\ rec.state = "Accepted" /\ rec.session = req.session /\ rec.pc = "queued"
        /\ rec.untrusted = req.untrusted /\ rec.mode = req.mode /\ rec.intent = req.intent
        /\ rec.budget = MaxActions /\ rec.turn = 0
    BY <2>2 DEF RunRecord
  <2> QED BY <2>3, <2>4
<1> HIDE DEF rec
<1>5. run' \in [Runs -> RunRecord] /\ run'[r] = rec /\ \A s \in Runs : s # r => run'[s] = run[s]
  BY <1>1, <1>3, <1>4 DEF TypeInv, TypeOK
<1>6. TypeInv'
  <2>1. idem' \in [Keys -> Runs \cup {None}]
    BY <1>1, <1>3, RequestFacts DEF TypeInv, TypeOK
  <2>2. call' \in [Clients -> [pc: {"start", "miss", "accepted", "done"}, run: Runs \cup {None}]]
    BY <1>1, <1>3 DEF TypeInv
  <2> QED BY <1>1, <1>3, <1>5, <2>1, <2>2 DEF TypeInv, TypeOK
<1>7. /\ ~EndLogged(r) /\ Unsettled(r) = {} /\ Starts(r) = {}
      /\ Len(log[r]) > 0 => /\ log[r][1].info = req.key /\ accepted[req.key] = req
  <2>1. CASE log[r] = <<>>
    BY <2>1 DEF EndLogged, Unsettled, Starts, Logged
  <2>2. CASE log[r] = <<E("RunAccepted", None, req.key)>> /\ accepted[req.key] = req
    <3> DEFINE e == E("RunAccepted", None, req.key)
    <3>1. e.kind = "RunAccepted" /\ e.intent = None /\ e.info = req.key
      BY DEF E
    <3> HIDE DEF e
    <3>2. Len(log[r]) = 1 /\ log[r][1] = e
      BY <2>2 DEF e
    <3>3. \A n \in 1..Len(log[r]) : log[r][n] = e
      BY <3>2, \A n \in 1..1 : n = 1
    <3> QED BY <2>2, <3>1, <3>2, <3>3 DEF EndLogged, Unsettled, Starts, Logged, Terminals
  <2> QED BY <1>2, <2>1, <2>2 DEF CallOK
<1>8. RunInv(r)'
  <2>1. RecordOK(rec)
    BY <1>4, RequestFacts DEF RecordOK
  <2>2. RecordOK(run[r])'
    BY <1>5, <2>1 DEF RecordOK, Unregistered, NoPending
  <2>3. LogOK(r)'
    BY <1>1, <1>3 DEF RunInv, LogOK, EndLogged, Verified, E
  <2>4. Open(r)' /\ InHands(r)'
    BY <1>3, <1>7 DEF Open, InHands, EndLogged, Unsettled, Logged
  <2>5. Provenance(r)'
    BY <1>3, <1>4, <1>5, <1>7 DEF Provenance
  <2>6. BudgetOK(r)'
    <3>1. Cardinality(Starts(r)) = 0 /\ MaxActions \in Nat
      BY <1>7, FS_EmptySet, HarnessAssumption DEF HarnessAssumption
    <3>2. Starts(r)' = Starts(r)
      BY <1>3 DEF Starts
    <3> QED BY <1>4, <1>5, <3>1, <3>2 DEF BudgetOK
  <2> QED BY <2>2, <2>3, <2>4, <2>5, <2>6 DEF RunInv
<1>9. ASSUME NEW s \in Runs, s # r PROVE RunInv(s)'
  BY <1>1, <1>3, <1>5, <1>9, OtherRun
<1>10. LocksHeld'
  BY <1>3, <1>4, <1>5 DEF Inv, LocksHeld, RecordLocked
<1>11. CallsOK'
  <2>1. \A d \in Clients : call'[d].pc = "accepted" => d # c /\ call'[d] = call[d]
    BY <1>1, <1>3 DEF TypeInv
  <2>2. ASSUME NEW d \in Clients, call'[d].pc = "accepted" PROVE CallOK(d)'
    <3>1. CallOK(d) /\ call'[d] = call[d] /\ call[d].run # r
      BY <1>1, <1>2, <2>1, <2>2 DEF CallsOK
    <3> QED BY <1>3, <1>5, <3>1 DEF CallOK, Registered
  <2>3. \A d, f \in Clients :
          call'[d].pc = "accepted" /\ call'[f].pc = "accepted" /\ call'[d].run = call'[f].run => d = f
    BY <1>1, <2>1 DEF CallsOK
  <2>4. \A s \in Runs : s >= nextRun' => log'[s] = <<>> /\ ~Registered(s)'
    BY <1>1, <1>2, <1>3, <1>5 DEF CallsOK, CallOK, Registered, Runs, TypeInv
  <2> QED BY <2>2, <2>3, <2>4 DEF CallsOK
<1>12. BootOK'
  BY <1>2, <1>3 DEF BootOK
<1> QED BY <1>6, <1>8, <1>9, <1>10, <1>11, <1>12 DEF Inv

-----------------------------------------------------------------------------
(* Crash and recovery                                                      *)

\* The record that nobody has registered.
LEMMA UnregisteredRecord ==
  /\ Unregistered \in RunRecord /\ RecordOK(Unregistered)
  /\ Unregistered.state = "None" /\ Unregistered.pc = "idle" /\ Unregistered.budget = 0
  /\ Unregistered.intent = None
<1>1. MaxTurns \in Nat
  BY HarnessAssumption DEF HarnessAssumption
<1>2. Unregistered \in RunRecord
  BY <1>1 DEF Unregistered, RunRecord, Pending, NoPending, Approvals, Modes
<1>3. RecordOK(Unregistered)
  BY DEF Unregistered, RecordOK, NoPending
<1> QED BY <1>2, <1>3 DEF Unregistered

\* The starts in a log can be counted.
LEMMA StartsCount ==
  ASSUME log \in [Runs -> Seq(Event)], NEW r \in Runs
  PROVE  IsFiniteSet(Starts(r)) /\ Cardinality(Starts(r)) \in Nat
<1>1. IsFiniteSet(1..Len(log[r]))
  BY FS_Interval
<1> QED BY <1>1, FS_Subset, FS_CardinalityType DEF Starts

\* Everything in memory is gone.
LEMMA CrashStep ==
  ASSUME Inv, Crash
  PROVE  Inv'
<1>1. /\ TypeInv /\ CallsOK /\ \A s \in Runs : RunInv(s)
      /\ log \in [Runs -> Seq(Event)] /\ run \in [Runs -> RunRecord]
  BY DEF Inv, TypeInv, TypeOK
<1>2. /\ UNCHANGED <<log, accepted, planned, effects, nextRun>> /\ booting' = TRUE
      /\ run' = [r \in Runs |-> Unregistered]
      /\ idem' = [k \in Keys |-> None] /\ lock' = [s \in Sessions |-> None]
      /\ call' = [c \in Clients |-> IF call[c].pc = "done" THEN call[c] ELSE [pc |-> "start", run |-> None]]
  BY DEF Crash, storeVars
<1>3. \A s \in Runs : run'[s] = Unregistered
  BY <1>2
<1>4. TypeInv'
  <2>1. run' \in [Runs -> RunRecord]
    BY <1>2, UnregisteredRecord
  <2>2. call' \in [Clients -> [pc: {"start", "miss", "accepted", "done"}, run: Runs \cup {None}]]
    BY <1>1, <1>2 DEF TypeInv
  <2> QED BY <1>1, <1>2, <2>1, <2>2 DEF TypeInv, TypeOK
<1>5. ASSUME NEW s \in Runs PROVE RunInv(s)'
  <2>1. RecordOK(run[s])'
    BY <1>3, UnregisteredRecord DEF RecordOK, Unregistered, NoPending
  <2>2. LogOK(s)'
    BY <1>1, <1>2 DEF RunInv, LogOK, EndLogged, Verified, E
  <2>3. Open(s)' /\ Provenance(s)'
    BY <1>3, UnregisteredRecord DEF Open, Provenance, Registered
  <2>4. InHands(s)'
    <3>1. Unsettled(s)' = Unsettled(s) /\ (EndLogged(s)' <=> EndLogged(s))
      BY <1>2 DEF Unsettled, Logged, EndLogged
    <3>2. ~Registered(s)'
      BY <1>3, UnregisteredRecord DEF Registered
    <3> QED BY <1>1, <1>2, <3>1, <3>2 DEF RunInv, InHands
  <2>5. BudgetOK(s)'
    <3>1. Starts(s)' = Starts(s)
      BY <1>2 DEF Starts
    <3>2. Cardinality(Starts(s)) \in Nat /\ run[s].budget \in Nat /\ MaxActions \in Nat
      BY <1>1, StartsCount, HarnessAssumption DEF RunRecord, HarnessAssumption
    <3>3. Cardinality(Starts(s)) + run[s].budget <= MaxActions
      BY <1>1 DEF RunInv, BudgetOK
    <3> QED BY <1>3, <3>1, <3>2, <3>3, UnregisteredRecord DEF BudgetOK
  <2> QED BY <2>1, <2>2, <2>3, <2>4, <2>5 DEF RunInv
<1>6. LocksHeld' /\ BootOK'
  BY <1>3, UnregisteredRecord DEF LocksHeld, BootOK, RecordLocked
<1>7. CallsOK'
  <2>1. \A c \in Clients : call'[c].pc # "accepted"
    BY <1>2
  <2>2. \A s \in Runs : ~Registered(s)'
    BY <1>3, UnregisteredRecord DEF Registered
  <2> QED BY <1>1, <1>2, <2>1, <2>2 DEF CallsOK
<1> QED BY <1>4, <1>5, <1>6, <1>7 DEF Inv

\* AcceptedRequest: the acceptance that the scan finds is the first event.
LEMMA AcceptedIsFirst ==
  ASSUME Inv, NEW r \in Runs, Logged(r, {"RunAccepted"}, None)
  PROVE  /\ Len(log[r]) > 0 /\ log[r][1].kind = "RunAccepted"
         /\ AcceptedRequest(r) = accepted[log[r][1].info] /\ AcceptedRequest(r) \in Requests
<1>1. log[r] \in Seq(Event) /\ LogOK(r)
  BY DEF Inv, TypeInv, RunInv
<1>2. PICK n \in 1..Len(log[r]) : log[r][n].kind = "RunAccepted"
  BY DEF Logged
<1>3. \A m \in 1..Len(log[r]) : log[r][m].kind = "RunAccepted" => m = 1 /\ accepted[log[r][m].info] \in Requests
  BY <1>1 DEF LogOK
<1>4. n = 1 /\ Len(log[r]) > 0
  BY <1>1, <1>2, <1>3
<1>5. (CHOOSE m \in 1..Len(log[r]) : log[r][m].kind = "RunAccepted") = 1
  BY <1>2, <1>3
<1> QED BY <1>2, <1>3, <1>4, <1>5 DEF AcceptedRequest

\* One run of the recovery scan: its only unsettled action gets an owner.
LEMMA RecoverUnknownStep ==
  ASSUME Inv, NEW r \in Runs, RecoverUnknown(r)
  PROVE  Inv'
<1>1. /\ booting /\ Recoverable(r) /\ Logged(r, {"RunAccepted"}, None)
      /\ UNCHANGED <<accepted, planned, effects, idem, call, nextRun, booting, lock>>
      /\ TypeInv /\ CallsOK /\ \A s \in Runs : RunInv(s)
      /\ log \in [Runs -> Seq(Event)] /\ run \in [Runs -> RunRecord]
  BY DEF RecoverUnknown, Other, Inv, TypeInv, TypeOK
<1>2. PICK i \in Dangling(r) :
        /\ \/ log' = log
           \/ Write(r, <<E("ActionOutcomeUnknown", i, None), E("RunWaiting", i, "tool")>>)
        /\ run' = [run EXCEPT ![r] = Recovered(r, i)]
  BY DEF RecoverUnknown
<1> DEFINE rec == Recovered(r, i)
           evs == <<E("ActionOutcomeUnknown", i, None), E("RunWaiting", i, "tool")>>
<1>3. /\ i \in Unsettled(r) /\ i \in Intents /\ ~EndLogged(r) /\ run[r].state = "None"
      /\ \A j \in Unsettled(r) : j = i
  <2>1. i \in Unsettled(r)
    BY DEF Dangling, Unsettled, Logged
  <2>2. i \in Intents
    BY <2>1 DEF Unsettled
  <2>3. ~EndLogged(r) /\ run[r].state = "None"
    BY <1>1 DEF Recoverable, Registered
  <2>4. \A j \in Unsettled(r) : j = i
    BY <1>1, <2>1, <2>3 DEF RunInv, InHands
  <2> QED BY <2>1, <2>2, <2>3, <2>4
<1>4. /\ Len(log[r]) > 0 /\ log[r][1].kind = "RunAccepted"
      /\ AcceptedRequest(r) = accepted[log[r][1].info] /\ AcceptedRequest(r) \in Requests
  BY <1>1, AcceptedIsFirst
<1>5. /\ rec \in RunRecord /\ rec.state = "Suspended" /\ rec.pc = "idle" /\ rec.budget = 0
      /\ rec.session \in Sessions /\ rec.untrusted = AcceptedRequest(r).untrusted
      /\ rec.pending = [kind |-> "tool", intent |-> i]
  <2> DEFINE session == AcceptedRequest(r).session
             untrusted == AcceptedRequest(r).untrusted
             pending == [kind |-> "tool", intent |-> i]
  <2>1. session \in Sessions /\ untrusted \in BOOLEAN
    BY <1>4, RequestFacts DEF Requests
  <2>2. pending \in Pending
    BY <1>3 DEF Pending
  <2> HIDE DEF session, untrusted, pending
  <2>3. rec = [Unregistered EXCEPT !.state = "Suspended", !.session = session, !.untrusted = untrusted,
                                   !.pending = pending]
    BY DEF Recovered, session, untrusted, pending
  <2> HIDE DEF rec
  <2>4. /\ rec \in RunRecord /\ rec.state = "Suspended" /\ rec.pc = "idle" /\ rec.budget = 0
        /\ rec.session = session /\ rec.untrusted = untrusted /\ rec.pending = pending
    <3>1. Unregistered \in RunRecord /\ Unregistered.pc = "idle" /\ Unregistered.budget = 0
      BY UnregisteredRecord
    <3> HIDE DEF Unregistered
    <3> QED BY <2>1, <2>2, <2>3, <3>1 DEF RunRecord
  <2>5. session = AcceptedRequest(r).session /\ untrusted = AcceptedRequest(r).untrusted
        /\ pending = [kind |-> "tool", intent |-> i]
    BY DEF session, untrusted, pending
  <2> QED BY <2>1, <2>4, <2>5
<1> HIDE DEF rec
<1>6. RecordOK(rec)
  <2>1. rec.pending.kind = "tool" /\ rec.pending.intent \in Intents
    BY <1>3, <1>5
  <2> QED BY <1>5, <2>1 DEF RecordOK
<1>7. run' \in [Runs -> RunRecord] /\ run'[r] = rec /\ \A s \in Runs : s # r => run'[s] = run[s]
  BY <1>1, <1>2, <1>5 DEF rec
<1>8. evs \in Seq(Event) /\ Calm(evs) /\ Mild(evs)
  <2>1. E("ActionOutcomeUnknown", i, None) \in Event /\ E("ActionOutcomeUnknown", i, None).kind = "ActionOutcomeUnknown"
    BY <1>3 DEF E, Event, Kinds, Infos
  <2>2. E("RunWaiting", i, "tool") \in Event /\ E("RunWaiting", i, "tool").kind = "RunWaiting"
    BY <1>3 DEF E, Event, Kinds, Infos
  <2> QED BY <2>1, <2>2, TwoMildEvents DEF Terminals
<1> PICK new \in {<<>>, evs} : Write(r, new)
  <2>1. log' = log => Write(r, <<>>)
    <3>1. log[r] \o <<>> = log[r]
      BY <1>1, ConcatEmptySeq
    <3> QED BY <1>1, <3>1 DEF Write
  <2> QED BY <1>2, <2>1
<1> HIDE DEF evs
<1>9. new \in Seq(Event) /\ Calm(new) /\ Mild(new)
  <2>1. <<>> \in Seq(Event) /\ Calm(<<>>) /\ Mild(<<>>)
    <3>1. \A n \in 1..0 : FALSE
      OBVIOUS
    <3> QED BY <3>1, NoEvents DEF Mild
  <2>2. new = <<>> \/ new = evs
    OBVIOUS
  <2> QED BY <1>8, <2>1, <2>2
<1>10. WellFormed(new) /\ ~Ends(new) /\ \A n \in 1..Len(new) : new[n].kind # "ActionStarted"
  BY <1>9 DEF Mild, Calm, WellFormed, Ends, Terminals
<1>11. Extended(r, new) /\ ~EndLogged(r)'
  BY <1>1, <1>3, <1>9, <1>10, WriteExtends, EndLoggedAfterWrite
<1>12. TypeInv'
  BY <1>1, <1>7, <1>11 DEF TypeInv, TypeOK, Extended
<1>13. RunInv(r)'
  <2>1. LogOK(r)'
    BY <1>1, <1>3, <1>9, <1>10, LogOKAfterWrite DEF RunInv
  <2>2. RecordOK(run[r])'
    BY <1>6, <1>7 DEF RecordOK, Unregistered, NoPending
  <2>3. Open(r)'
    BY <1>11 DEF Open
  <2>4. Provenance(r)'
    <3>1. log'[r][1] = log[r][1]
      BY <1>4, <1>11 DEF Extended
    <3> QED BY <1>1, <1>4, <1>5, <1>7, <3>1 DEF Provenance
  <2>5. InHands(r)'
    <3>1. \A j \in Unsettled(r)' : j = i
      BY <1>1, <1>3, <1>9, <1>10, UnsettledAfterWrite
    <3>2. Holds(r, i)'
      BY <1>5, <1>7 DEF Holds
    <3> QED BY <3>1, <3>2 DEF InHands
  <2>6. BudgetOK(r)'
    <3>1. Starts(r)' = Starts(r)
      BY <1>1, <1>9, <1>10, StartsAfterWrite
    <3>2. Cardinality(Starts(r)) \in Nat /\ run[r].budget \in Nat /\ MaxActions \in Nat
      BY <1>1, StartsCount, HarnessAssumption DEF RunRecord, HarnessAssumption
    <3>3. Cardinality(Starts(r)) + run[r].budget <= MaxActions
      BY <1>1 DEF RunInv, BudgetOK
    <3> QED BY <1>5, <1>7, <3>1, <3>2, <3>3 DEF BudgetOK
  <2> QED BY <2>1, <2>2, <2>3, <2>4, <2>5, <2>6 DEF RunInv
<1>14. ASSUME NEW s \in Runs, s # r PROVE RunInv(s)'
  BY <1>1, <1>7, <1>11, <1>14, OtherRun DEF Extended
<1>15. LocksHeld' /\ BootOK'
  BY <1>1, <1>5, <1>7 DEF Inv, LocksHeld, BootOK, RecordLocked
<1>16. CallsOK'
  <2>1. \A c \in Clients : call[c].pc # "accepted"
    BY <1>1 DEF CallsOK, CallOK
  <2>2. r < nextRun
    <3>1. log[r] # <<>>
      BY <1>4
    <3> QED BY <1>1, <3>1 DEF CallsOK, TypeInv, Runs
  <2>3. \A s \in Runs : s >= nextRun' => log'[s] = <<>> /\ ~Registered(s)'
    BY <1>1, <1>7, <1>11, <2>2 DEF CallsOK, Registered, Extended, TypeInv, Runs
  <2> QED BY <1>1, <2>1, <2>3 DEF CallsOK
<1> QED BY <1>12, <1>13, <1>14, <1>15, <1>16 DEF Inv

\* The scan is over when every unsettled action of a run without an end has
\* an owner.
LEMMA BootDoneStep ==
  ASSUME Inv, BootDone
  PROVE  Inv'
<1>1. /\ TypeInv /\ CallsOK /\ \A s \in Runs : RunInv(s) /\ ~Recoverable(s)
      /\ UNCHANGED <<log, accepted, planned, effects, run, idem, lock, call, nextRun>>
      /\ booting /\ booting' = FALSE /\ log \in [Runs -> Seq(Event)]
  BY DEF Inv, BootDone, storeVars, TypeInv
<1>2. TypeInv'
  BY <1>1 DEF TypeInv, TypeOK
<1>3. ASSUME NEW s \in Runs PROVE RunInv(s)'
  <2>1. RecordOK(run[s])' /\ LogOK(s)' /\ Open(s)' /\ Provenance(s)' /\ BudgetOK(s)'
    BY <1>1 DEF RunInv, RecordOK, Unregistered, NoPending, LogOK, EndLogged, Verified, E, Open,
                Provenance, Registered, BudgetOK, Starts
  <2>2. InHands(s)'
    <3>1. ASSUME ~EndLogged(s), NEW i \in Unsettled(s) PROVE Holds(s, i)
      <4>1. ~Logged(s, {"ActionDenied"}, i)
        BY <1>1, <3>1 DEF Logged, RunInv, LogOK
      <4>2. i \in Dangling(s)
        BY <4>1 DEF Unsettled, Dangling, Logged
      <4>3. Registered(s)
        BY <1>1, <3>1, <4>2 DEF Recoverable
      <4> QED BY <1>1, <3>1, <4>3 DEF RunInv, InHands
    <3>2. Unsettled(s)' = Unsettled(s) /\ (EndLogged(s)' <=> EndLogged(s))
      BY <1>1 DEF Unsettled, Logged, EndLogged
    <3>3. \A i : Holds(s, i)' <=> Holds(s, i)
      BY <1>1 DEF Holds
    <3> QED BY <1>1, <3>1, <3>2, <3>3 DEF InHands, RunInv
  <2> QED BY <2>1, <2>2 DEF RunInv
<1>4. LocksHeld' /\ BootOK'
  BY <1>1 DEF Inv, LocksHeld, BootOK, RecordLocked
<1>5. CallsOK'
  <2>1. \A c \in Clients : call[c].pc # "accepted"
    BY <1>1 DEF CallsOK, CallOK
  <2>2. \A c \in Clients : call'[c].pc # "accepted"
    BY <1>1, <2>1
  <2>3. \A s \in Runs : s >= nextRun' => log'[s] = <<>> /\ ~Registered(s)'
    BY <1>1 DEF CallsOK, Registered
  <2> QED BY <2>2, <2>3 DEF CallsOK
<1> QED BY <1>2, <1>3, <1>4, <1>5 DEF Inv

-----------------------------------------------------------------------------
(* The invariant holds                                                     *)

\* A stuttering step.
LEMMA StutterStep ==
  ASSUME Inv, UNCHANGED vars
  PROVE  Inv'
<1>1. /\ UNCHANGED <<log, accepted, planned, effects, run, idem, lock, call, nextRun, booting>>
      /\ TypeInv /\ CallsOK /\ \A s \in Runs : RunInv(s)
  BY DEF Inv, vars
<1>2. TypeInv'
  BY <1>1 DEF TypeInv, TypeOK
<1>3. ASSUME NEW s \in Runs PROVE RunInv(s)'
  <2>1. RecordOK(run[s])' /\ LogOK(s)' /\ Open(s)' /\ Provenance(s)' /\ BudgetOK(s)'
    BY <1>1 DEF RunInv, RecordOK, Unregistered, NoPending, LogOK, EndLogged, Verified, E, Open,
                Provenance, Registered, BudgetOK, Starts
  <2>2. InHands(s)'
    <3>1. Unsettled(s)' = Unsettled(s) /\ (EndLogged(s)' <=> EndLogged(s))
      BY <1>1 DEF Unsettled, Logged, EndLogged
    <3>2. (\A i : Holds(s, i)' <=> Holds(s, i)) /\ (Registered(s)' <=> Registered(s))
      BY <1>1 DEF Holds, Registered
    <3> QED BY <1>1, <3>1, <3>2 DEF InHands, RunInv
  <2> QED BY <2>1, <2>2 DEF RunInv
<1>4. LocksHeld' /\ BootOK'
  BY <1>1 DEF Inv, LocksHeld, BootOK, RecordLocked
<1>5. CallsOK'
  <2>1. \A c \in Clients : CallOK(c)' <=> CallOK(c)
    BY <1>1 DEF CallOK, Registered, E
  <2>2. \A s \in Runs : s >= nextRun' => log'[s] = <<>> /\ ~Registered(s)'
    BY <1>1 DEF CallsOK, Registered
  <2> QED BY <1>1, <2>1, <2>2 DEF CallsOK
<1> QED BY <1>2, <1>3, <1>4, <1>5 DEF Inv

\* Nothing has been submitted.
LEMMA InitInv == Init => Inv
<1> SUFFICES ASSUME Init PROVE Inv
  OBVIOUS
<1>1. /\ MaxActions \in Nat /\ MaxRuns \in Nat \ {0}
      /\ None \notin Runs
  BY HarnessAssumption DEF HarnessAssumption
<1>2. Unregistered \in RunRecord /\ RecordOK(Unregistered) /\ Unregistered.state = "None"
      /\ Unregistered.pc = "idle" /\ Unregistered.budget = 0
  BY UnregisteredRecord
<1>3. /\ \A r \in Runs : log[r] = <<>> /\ run[r] = Unregistered /\ Len(log[r]) = 0
      /\ log = [r \in Runs |-> <<>>] /\ run = [r \in Runs |-> Unregistered] /\ ~booting
      /\ nextRun = 1 /\ \A c \in Clients : call[c] = [pc |-> "start", run |-> None]
  BY DEF Init
<1> HIDE DEF Unregistered
<1>4. TypeInv
  <2>1. TypeOK
    BY <1>2 DEF Init, TypeOK
  <2>2. log \in [Runs -> Seq(Event)]
    BY <1>3, EmptySeq
  <2>3. accepted \in [Keys -> Requests \cup {None}]
    BY DEF Init
  <2>4. call \in [Clients -> [pc: {"start", "miss", "accepted", "done"}, run: Runs \cup {None}]]
    BY DEF Init
  <2>5. nextRun \in Nat \ {0}
    BY <1>3
  <2>6. booting \in BOOLEAN
    <3>1. booting = FALSE
      BY DEF Init
    <3> QED BY <3>1
  <2> QED BY <2>1, <2>2, <2>3, <2>4, <2>5, <2>6 DEF TypeInv
<1>5. ASSUME NEW r \in Runs PROVE RunInv(r)
  <2>1. 1..Len(log[r]) = {}
    BY <1>3
  <2>2. LogOK(r) /\ Open(r) /\ Provenance(r)
    BY <1>2, <1>3, <2>1 DEF LogOK, Open, Provenance, EndLogged
  <2>3. InHands(r)
    <3>1. Unsettled(r) = {}
      BY <2>1 DEF Unsettled, Logged
    <3> QED BY <3>1 DEF InHands
  <2>4. BudgetOK(r)
    <3>1. Starts(r) = {}
      BY <2>1 DEF Starts
    <3>2. Cardinality(Starts(r)) = 0
      BY <3>1, FS_EmptySet
    <3> QED BY <1>1, <1>2, <1>3, <3>2 DEF BudgetOK
  <2> QED BY <1>2, <1>3, <2>2, <2>3, <2>4 DEF RunInv
<1>6. LocksHeld /\ BootOK
  BY <1>2, <1>3 DEF LocksHeld, RecordLocked, BootOK
<1>7. CallsOK
  BY <1>2, <1>3 DEF CallsOK, Registered
<1> QED BY <1>4, <1>5, <1>6, <1>7 DEF Inv

\* Every step preserves the invariant.
LEMMA NextInv == Inv /\ [Next]_vars => Inv'
<1> SUFFICES ASSUME Inv, [Next]_vars PROVE Inv'
  OBVIOUS
<1>1. ASSUME NEW c \in Clients, Submit(c) PROVE Inv'
  BY <1>1, SubmitLookupStep, SubmitAcceptStep, SubmitRegisterStep DEF Submit
<1>2. ASSUME NEW r \in Runs, Drive(r) PROVE Inv'
  BY <1>2, BindStep, LoopEndStep, LoopToolStep, LoopHandoffStep, ToolPolicyStep, PlanActionStep,
     StartRefusedStep, StartActionStep, PerformEffectStep, RecordOutcomeStep, AfterActionStep DEF Drive
<1>3. ASSUME NEW r \in Runs, ResumeApproval(r) \/ ResumeUnknown(r) \/ ResumeHandoff(r) PROVE Inv'
  BY <1>3, ResumeApprovalStep, ResumeUnknownStep, ResumeHandoffStep
<1>4. ASSUME NEW r \in Runs, ApprovalExpires(r) \/ CancelSignal(r) \/ CancelTry(r) PROVE Inv'
  BY <1>4, FlagStep, CancelTryStep
<1>5. CASE Crash
  BY <1>5, CrashStep
<1>6. CASE Recovery
  BY <1>6, BootDoneStep, RecoverUnknownStep DEF Recovery
<1>7. CASE UNCHANGED vars
  BY <1>7, StutterStep
<1> QED BY <1>1, <1>2, <1>3, <1>4, <1>5, <1>6, <1>7 DEF Next

\* The invariant of the harness: logs that end once, records that agree with
\* their log, locks that are held by whoever drives, and one owner for every
\* action without an outcome, through crashes and recoveries.
THEOREM InvHolds == Spec => []Inv
BY InitInv, NextInv, PTL DEF Spec

\* finish_terminal, verify, session_lock: whatever is resumed, cancelled,
\* crashed and recovered, a run ends once and nothing follows its end, a
\* completed run was verified or declared complete by the owner, and two runs
\* of a session are never driven together.
THEOREM RunsAlwaysEndWell == Spec => []RunsEndWell
<1>1. Inv => RunsEndWell
  <2> SUFFICES ASSUME Inv PROVE RunsEndWell
    OBVIOUS
  <2>1. \A r \in Runs : LogOK(r)
    BY DEF Inv, RunInv
  <2>2. EndsOnce /\ CompleteIsVerified
    BY <2>1 DEF LogOK, EndsOnce, CompleteIsVerified
  <2>3. SessionsAreSerial
    BY DEF Inv, LocksHeld, SessionsAreSerial
  <2> QED BY <2>2, <2>3 DEF RunsEndWell
<1> QED BY <1>1, InvHolds, PTL

\* recover_unknown_outcomes: once a process is up, an action that started and
\* has no outcome is its driver's, or its run is suspended on it until the
\* owner decides; no crash leaves one behind.
THEOREM ActionsAreNeverForgotten == Spec => []NoActionForgotten
<1>1. Inv => NoActionForgotten
  <2> SUFFICES ASSUME Inv, NEW r \in Runs, ~booting, ~EndLogged(r), NEW i \in Intents,
                      Logged(r, {"ActionStarted"}, i), ~Logged(r, Outcomes, i)
               PROVE  \/ RecordLocked(r) /\ run[r].intent = i
                      \/ run[r].state = "Suspended" /\ run[r].pending = [kind |-> "tool", intent |-> i]
    BY DEF NoActionForgotten
  <2>1. i \in Unsettled(r)
    BY DEF Unsettled
  <2>2. Holds(r, i)
    BY <2>1 DEF Inv, RunInv, InHands
  <2> QED BY <2>2 DEF Holds, RecordLocked
<1> QED BY <1>1, InvHolds, PTL

\* remaining_action_budget: the starts in a run's log never exceed the action
\* budget, however often it is suspended, approved, resumed or recovered.
THEOREM BudgetIsKept == Spec => [](TypeOK /\ ActionsWithinBudget)
<1>1. Inv => TypeOK /\ ActionsWithinBudget
  <2> SUFFICES ASSUME Inv PROVE TypeOK /\ ActionsWithinBudget
    OBVIOUS
  <2>1. log \in [Runs -> Seq(Event)] /\ run \in [Runs -> RunRecord] /\ MaxActions \in Nat
    BY HarnessAssumption DEF Inv, TypeInv, TypeOK, HarnessAssumption
  <2>2. ASSUME NEW r \in Runs PROVE Cardinality(Starts(r)) <= MaxActions
    <3>1. Cardinality(Starts(r)) \in Nat /\ run[r].budget \in Nat
      BY <2>1, StartsCount DEF RunRecord
    <3>2. Cardinality(Starts(r)) + run[r].budget <= MaxActions
      BY DEF Inv, RunInv, BudgetOK
    <3> QED BY <2>1, <3>1, <3>2
  <2> QED BY <2>2 DEF Inv, TypeInv, Starts, ActionsWithinBudget
<1> QED BY <1>1, InvHolds, PTL

-----------------------------------------------------------------------------
(* Every start is authorised, when intent ids are fresh                    *)

\* Events about the run's own intents that neither open it nor start an action.
Own(r, evs) ==
  \A n \in 1..Len(evs) :
    /\ evs[n].kind \notin {"RunAccepted", "ActionStarted"}
    /\ evs[n].intent \in Intents => Uses(r, evs[n].intent)

\* What an append of a run's own events keeps.
LEMMA KeptAfterWrite ==
  ASSUME log \in [Runs -> Seq(Event)], NEW r \in Runs, NEW evs \in Seq(Event), Write(r, evs), Own(r, evs),
         accepted' = accepted
  PROVE  /\ \A i : Mentioned(r, i) => Mentioned(r, i)'
         /\ \A kinds, i : Logged(r, kinds, i) => Logged(r, kinds, i)'
         /\ \A kind, i, infos : LoggedWith(r, kind, i, infos) => LoggedWith(r, kind, i, infos)'
         /\ \A i : NotStarted(r, i) => NotStarted(r, i)'
         /\ \A i \in Intents : Mentioned(r, i)' => Uses(r, i)
         /\ UntrustedRun(r)' <=> UntrustedRun(r)
         /\ \A i : Decided(r, i) => Decided(r, i)'
<1> Extended(r, evs)
  BY WriteExtends
<1>1. /\ \A i : Mentioned(r, i) => Mentioned(r, i)'
      /\ \A kinds, i : Logged(r, kinds, i) => Logged(r, kinds, i)'
      /\ \A kind, i, infos : LoggedWith(r, kind, i, infos) => LoggedWith(r, kind, i, infos)'
  <2>1. \A n \in 1..Len(log[r]) : n \in 1..Len(log'[r]) /\ log'[r][n] = log[r][n]
    BY DEF Extended
  <2>2. \A i : Mentioned(r, i) => Mentioned(r, i)'
    BY <2>1 DEF Mentioned
  <2>3. \A kinds, i : Logged(r, kinds, i) => Logged(r, kinds, i)'
    BY <2>1 DEF Logged
  <2>4. \A kind, i, infos : LoggedWith(r, kind, i, infos) => LoggedWith(r, kind, i, infos)'
    BY <2>1 DEF LoggedWith
  <2> QED BY <2>2, <2>3, <2>4
<1>2. \A i : NotStarted(r, i) => NotStarted(r, i)'
  <2>1. ASSUME NEW i, Logged(r, {"ActionStarted"}, i)' PROVE Logged(r, {"ActionStarted"}, i)
    <3>1. PICK n \in 1..Len(log'[r]) : log'[r][n].kind = "ActionStarted" /\ log'[r][n].intent = i
      BY <2>1 DEF Logged
    <3>2. n \in 1..Len(log[r])
      BY <3>1 DEF Extended, Own
    <3> QED BY <3>1, <3>2 DEF Extended, Logged
  <2> QED BY <2>1 DEF NotStarted
<1>3. \A i \in Intents : Mentioned(r, i)' => Uses(r, i)
  <2>1. ASSUME NEW i \in Intents, Mentioned(r, i)' PROVE Uses(r, i)
    <3>1. PICK n \in 1..Len(log'[r]) : log'[r][n].intent = i
      BY <2>1 DEF Mentioned
    <3>2. CASE n \in 1..Len(log[r])
      BY <3>1, <3>2 DEF Extended, Mentioned, Uses
    <3>3. CASE n \notin 1..Len(log[r])
      <4>1. n - Len(log[r]) \in 1..Len(evs) /\ evs[n - Len(log[r])].intent = i
        BY <3>1, <3>3 DEF Extended
      <4> QED BY <4>1 DEF Own
    <3> QED BY <3>2, <3>3
  <2> QED BY <2>1
<1>4. UntrustedRun(r)' <=> UntrustedRun(r)
  <2>1. CASE Len(log[r]) > 0
    <3>1. Len(log'[r]) > 0 /\ log'[r][1] = log[r][1]
      BY <2>1 DEF Extended
    <3> QED BY <3>1, <2>1 DEF UntrustedRun
  <2>2. CASE ~(Len(log[r]) > 0)
    <3>1. ASSUME Len(log'[r]) > 0 PROVE log'[r][1].kind # "RunAccepted"
      <4>1. 1 \in 1..Len(evs) /\ log'[r][1] = evs[1]
        BY <2>2, <3>1 DEF Extended
      <4> QED BY <4>1 DEF Own
    <3> QED BY <3>1, <2>2 DEF UntrustedRun
  <2> QED BY <2>1, <2>2
<1>5. \A i : Decided(r, i) => Decided(r, i)'
  BY <1>1, <1>4 DEF Decided
<1> QED BY <1>1, <1>2, <1>3, <1>4, <1>5

\* The starts in a log stay authorised when it grows.
LEMMA StartsStayAuthorised ==
  ASSUME log \in [Runs -> Seq(Event)], NEW r \in Runs, NEW evs \in Seq(Event), Write(r, evs), Own(r, evs),
         accepted' = accepted, AuthorisedStarts(r)
  PROVE  AuthorisedStarts(r)'
<1> Extended(r, evs)
  BY WriteExtends
<1>1. UntrustedRun(r)' <=> UntrustedRun(r)
  BY KeptAfterWrite
<1>2. Starts(r)' = Starts(r)
  BY StartsAfterWrite DEF Own
<1>3. ASSUME NEW n \in Starts(r) PROVE StartOK(r, n)'
  <2>1. n \in 1..Len(log[r]) /\ StartOK(r, n)
    BY DEF Starts, AuthorisedStarts
  <2>2. log'[r][n] = log[r][n] /\ \A m \in 1..(n - 1) : log'[r][m] = log[r][m]
    BY <2>1 DEF Extended
  <2>3. \A kind, infos : LoggedBefore(r, n, kind, infos)' <=> LoggedBefore(r, n, kind, infos)
    BY <2>2 DEF LoggedBefore
  <2> QED BY <1>1, <2>1, <2>2, <2>3 DEF StartOK
<1> QED BY <1>2, <1>3 DEF AuthorisedStarts

\* Another run's authority is not touched.
LEMMA OtherAuthority ==
  ASSUME NEW s \in Runs, run'[s] = run[s], log'[s] = log[s], UntrustedRun(s)' <=> UntrustedRun(s),
         run[s].pc = "started" => effects'[run[s].intent] = effects[run[s].intent],
         AuthorisedStarts(s), AuthorisedRun(s)
  PROVE  AuthorisedStarts(s)' /\ AuthorisedRun(s)'
<1>1. /\ \A kinds, i : Logged(s, kinds, i)' <=> Logged(s, kinds, i)
      /\ \A kind, i, infos : LoggedWith(s, kind, i, infos)' <=> LoggedWith(s, kind, i, infos)
      /\ \A n, kind, infos : LoggedBefore(s, n, kind, infos)' <=> LoggedBefore(s, n, kind, infos)
      /\ Starts(s)' = Starts(s)
  BY DEF Logged, LoggedWith, LoggedBefore, Starts
<1>2. AuthorisedStarts(s)'
  <2>1. \A n \in Starts(s) : StartOK(s, n)'
    BY <1>1 DEF StartOK, AuthorisedStarts
  <2> QED BY <1>1, <2>1 DEF AuthorisedStarts
<1>3. \A i : (NotStarted(s, i)' <=> NotStarted(s, i)) /\ (Decided(s, i)' <=> Decided(s, i))
  BY <1>1 DEF NotStarted, Decided
<1>4. AuthorisedRun(s)'
  BY <1>1, <1>3 DEF AuthorisedRun
<1> QED BY <1>2, <1>4

\* Nobody has intent i, and no client is about to submit it.
Unused(i) ==
  /\ \A s \in Runs : ~Uses(s, i)
  /\ \A c \in Clients : call'[c].pc # "done" => Request[c].intent # i

\* The user of an intent stays the only one when one run takes up no more
\* than its own intents and an unused one.
LEMMA OneUserStep ==
  ASSUME OneUser, NEW r \in Runs,
         \A s \in Runs : s # r => run'[s] = run[s] /\ log'[s] = log[s],
         \A i \in Intents : Uses(r, i)' => Uses(r, i) \/ Unused(i),
         run'[r].state = "Suspended" /\ run'[r].pending.intent # None => Mentioned(r, run[r].pending.intent)',
         \A i : LoggedWith(r, "ActionPlanned", i, {None}) => LoggedWith(r, "ActionPlanned", i, {None})',
         \A p \in planned' : p \in planned \/ LoggedWith(r, "ActionPlanned", p.intent, {None})',
         \A c \in Clients : call'[c].pc # "done" => call[c].pc # "done"
  PROVE  OneUser'
<1>1. \A s \in Runs : \A i \in Intents : Uses(s, i)' => Uses(s, i) \/ (s = r /\ Unused(i))
  BY DEF Uses, Mentioned
<1>2. \A s, t \in Runs : \A i \in Intents : Uses(s, i)' /\ Uses(t, i)' => s = t
  BY <1>1 DEF OneUser, Unused
<1>3. ASSUME NEW c \in Clients, call'[c].pc # "done", NEW s \in Runs, Request[c].intent # None
      PROVE  ~Uses(s, Request[c].intent)'
  <2>1. Request[c].intent \in Intents /\ call[c].pc # "done"
    BY <1>3, HarnessAssumption DEF HarnessAssumption
  <2>2. ~Uses(s, Request[c].intent)
    BY <1>3, <2>1 DEF OneUser
  <2>3. ~Unused(Request[c].intent)
    BY <1>3 DEF Unused
  <2> QED BY <1>1, <2>1, <2>2, <2>3
<1>4. ASSUME NEW s \in Runs, run'[s].state = "Suspended", run'[s].pending.intent # None
      PROVE  Mentioned(s, run[s].pending.intent)'
  <2>1. CASE s = r
    BY <1>4, <2>1
  <2>2. CASE s # r
    BY <1>4, <2>2 DEF OneUser, Mentioned
  <2> QED BY <2>1, <2>2
<1>5. ASSUME NEW p \in planned' PROVE \E s \in Runs : LoggedWith(s, "ActionPlanned", p.intent, {None})'
  <2>1. CASE p \in planned
    <3>1. PICK s \in Runs : LoggedWith(s, "ActionPlanned", p.intent, {None})
      BY <2>1 DEF OneUser
    <3>2. LoggedWith(s, "ActionPlanned", p.intent, {None})'
      <4>1. CASE s = r
        BY <3>1, <4>1
      <4>2. CASE s # r
        BY <3>1, <4>2 DEF LoggedWith
      <4> QED BY <4>1, <4>2
    <3> QED BY <3>2
  <2>2. CASE LoggedWith(r, "ActionPlanned", p.intent, {None})'
    BY <2>2
  <2> QED BY <1>5, <2>1, <2>2
<1> QED BY <1>2, <1>3, <1>4, <1>5 DEF OneUser

\* A step of one run that writes its own events and starts nothing.
LEMMA AuthorityStep ==
  ASSUME Inv, Authority, NEW r \in Runs, NEW evs \in Seq(Event), Own(r, evs), Write(r, evs),
         NEW rec, run' = [run EXCEPT ![r] = rec], UNCHANGED <<accepted, effects>>,
         \A c \in Clients : call'[c].pc # "done" => call[c].pc # "done",
         rec.intent \in Intents => Uses(r, rec.intent) \/ Unused(rec.intent),
         rec.state = "Suspended" /\ rec.pending.intent # None => Mentioned(r, run[r].pending.intent)',
         \A p \in planned' : p \in planned \/ LoggedWith(r, "ActionPlanned", p.intent, {None})',
         AuthorisedRun(r)'
  PROVE  Authority'
<1>1. log \in [Runs -> Seq(Event)] /\ run \in [Runs -> RunRecord]
  BY DEF Inv, TypeInv, TypeOK
<1>2. run'[r] = rec /\ \A s \in Runs : s # r => run'[s] = run[s] /\ log'[s] = log[s]
  BY <1>1, WriteExtends DEF Extended
<1>3. /\ \A kinds, i : Logged(r, kinds, i) => Logged(r, kinds, i)'
      /\ \A kind, i, infos : LoggedWith(r, kind, i, infos) => LoggedWith(r, kind, i, infos)'
      /\ \A i \in Intents : Mentioned(r, i)' => Uses(r, i)
  BY <1>1, KeptAfterWrite
<1>4. OneUser'
  <2>1. \A i \in Intents : Uses(r, i)' => Uses(r, i) \/ Unused(i)
    BY <1>2, <1>3 DEF Uses
  <2>2. run'[r].state = "Suspended" /\ run'[r].pending.intent # None => Mentioned(r, run[r].pending.intent)'
    BY <1>2 DEF Mentioned
  <2> QED BY <1>2, <1>3, <2>1, <2>2, OneUserStep DEF Authority
<1>5. Effects'
  <2>1. ASSUME NEW i \in Intents, effects'[i] # 0 PROVE \E s \in Runs : Logged(s, {"ActionStarted"}, i)'
    <3>1. PICK s \in Runs : Logged(s, {"ActionStarted"}, i)
      BY <2>1 DEF Authority, Effects
    <3>2. Logged(s, {"ActionStarted"}, i)'
      <4>1. CASE s = r
        BY <1>3, <3>1, <4>1
      <4>2. CASE s # r
        BY <1>2, <3>1, <4>2 DEF Logged
      <4> QED BY <4>1, <4>2
    <3> QED BY <3>2
  <2> QED BY <2>1 DEF Authority, Effects
<1>6. ASSUME NEW s \in Runs PROVE AuthorisedStarts(s)' /\ AuthorisedRun(s)'
  <2>1. CASE s = r
    BY <1>1, <2>1, StartsStayAuthorised DEF Authority
  <2>2. CASE s # r
    <3>1. UntrustedRun(s)' <=> UntrustedRun(s)
      BY <1>2, <2>2 DEF UntrustedRun
    <3> QED BY <1>2, <2>2, <3>1, OtherAuthority DEF Authority
  <2> QED BY <2>1, <2>2
<1> QED BY <1>4, <1>5, <1>6 DEF Authority

\* A step that writes nothing writes no more than its own events.
LEMMA OwnNothing ==
  ASSUME NEW r
  PROVE  <<>> \in Seq(Event) /\ Own(r, <<>>)
BY DEF Own

\* One more event of the run's own.
LEMMA OwnMore ==
  ASSUME NEW r \in Runs, NEW evs \in Seq(Event), Own(r, evs),
         NEW kind \in Kinds \ {"RunAccepted", "ActionStarted"}, NEW i \in Intents \cup {None},
         NEW info \in Infos, i \in Intents => Uses(r, i)
  PROVE  Append(evs, E(kind, i, info)) \in Seq(Event) /\ Own(r, Append(evs, E(kind, i, info)))
<1> DEFINE e == E(kind, i, info)
           all == Append(evs, e)
<1>1. e \in Event /\ e.kind = kind /\ e.intent = i
  BY EventType
<1> HIDE DEF e
<1>2. /\ all \in Seq(Event)
      /\ Len(evs) \in Nat /\ Len(all) = Len(evs) + 1
      /\ \A n \in 1..Len(evs) : all[n] = evs[n]
      /\ all[Len(evs) + 1] = e
  BY <1>1, OneMoreEvent
<1> HIDE DEF all
<1>3. ASSUME NEW n \in 1..Len(all)
      PROVE  all[n].kind \notin {"RunAccepted", "ActionStarted"} /\ (all[n].intent \in Intents => Uses(r, all[n].intent))
  <2>1. CASE n \in 1..Len(evs)
    BY <1>2, <2>1 DEF Own
  <2>2. CASE n = Len(evs) + 1
    BY <1>1, <1>2, <2>2
  <2> QED BY <1>2, <2>1, <2>2
<1>4. Own(r, all)
  BY <1>3 DEF Own
<1> QED BY <1>2, <1>4 DEF all, e

\* A single event of the run's own.
LEMMA OwnOne ==
  ASSUME NEW r \in Runs, NEW kind \in Kinds \ {"RunAccepted", "ActionStarted"}, NEW i \in Intents \cup {None},
         NEW info \in Infos, i \in Intents => Uses(r, i)
  PROVE  <<E(kind, i, info)>> \in Seq(Event) /\ Own(r, <<E(kind, i, info)>>)
<1> DEFINE e == E(kind, i, info)
<1>1. e \in Event /\ e.kind = kind /\ e.intent = i
  BY EventType
<1> HIDE DEF e
<1>2. <<e>> \in Seq(Event) /\ Len(<<e>>) = 1 /\ <<e>>[1] = e
  BY <1>1, OneEvent
<1>3. Own(r, <<e>>)
  BY <1>1, <1>2 DEF Own
<1> QED BY <1>2, <1>3 DEF e

Still == UNCHANGED <<accepted, planned, effects, call>>

\* A step after which the record owes the log nothing.
LEMMA RestAuthority ==
  ASSUME Inv, Authority, NEW r \in Runs, NEW evs \in Seq(Event), Own(r, evs), Write(r, evs),
         NEW rec, run' = [run EXCEPT ![r] = rec], Still,
         rec.intent \in {None, run[r].intent}, rec.pc \in {"idle", "loop", "performed", "after"},
         rec.state = "Suspended" =>
           /\ rec.pending.kind = "approval" => NotStarted(r, rec.pending.intent)
           /\ rec.pending.intent # None => Mentioned(r, run[r].pending.intent)'
  PROVE  Authority'
<1>1. log \in [Runs -> Seq(Event)] /\ run'[r] = rec /\ UNCHANGED <<accepted, effects, call>>
  BY DEF Inv, TypeInv, TypeOK, Still
<1>2. \A i : NotStarted(r, i) => NotStarted(r, i)'
  BY <1>1, KeptAfterWrite
<1>3. AuthorisedRun(r)'
  <2>1. rec.state = "Suspended" /\ rec.pending.kind = "approval" => NotStarted(r, rec.pending.intent)'
    BY <1>2
  <2> QED BY <1>1, <2>1 DEF AuthorisedRun, NotStarted
<1>4. rec.intent \in Intents => Uses(r, rec.intent) \/ Unused(rec.intent)
  BY HarnessAssumption DEF HarnessAssumption, Uses
<1>5. \A p \in planned' : p \in planned \/ LoggedWith(r, "ActionPlanned", p.intent, {None})'
  BY DEF Still
<1>6. rec.state = "Suspended" /\ rec.pending.intent # None => Mentioned(r, run[r].pending.intent)'
  OBVIOUS
<1> QED BY <1>1, <1>3, <1>4, <1>5, <1>6, AuthorityStep

\* finish_terminal
LEMMA FinishAuthority ==
  ASSUME Inv, Authority, NEW r \in Runs, NEW evs \in Seq(Event), Own(r, evs), Still,
         NEW status \in Terminals, Finish(r, evs, status)
  PROVE  Authority'
<1> DEFINE rec == Idle(Ended(run[r], status))
           all == Append(evs, E(status, None, None))
<1>1. run[r] \in RunRecord
  BY DEF Inv, TypeInv, TypeOK
<1>2. rec.intent = None /\ rec.pc = "idle" /\ rec.state = "Terminal"
  BY <1>1, EndedRecord, IdleRecord
<1>3. all \in Seq(Event) /\ Own(r, all)
  BY OwnMore, HarnessAssumption DEF HarnessAssumption, Kinds, Infos, Terminals
<1>4. run' = [run EXCEPT ![r] = rec] /\ Write(r, all)
  BY DEF Finish, Ev
<1> HIDE DEF rec, all
<1> QED BY <1>2, <1>3, <1>4, RestAuthority

\* deny_action
LEMMA DenyAuthority ==
  ASSUME Inv, Authority, NEW r \in Runs, NEW evs \in Seq(Event), Own(r, evs), Still,
         NEW i \in Intents \cup {None}, i \in Intents => Uses(r, i), Deny(r, evs, i)
  PROVE  Authority'
<1>1. Append(evs, E("ActionDenied", i, None)) \in Seq(Event) /\ Own(r, Append(evs, E("ActionDenied", i, None)))
  BY OwnMore DEF Kinds, Infos
<1> QED BY <1>1, FinishAuthority DEF Deny, Terminals

\* suspend
LEMMA SuspendAuthority ==
  ASSUME Inv, Authority, NEW r \in Runs, NEW evs \in Seq(Event), Own(r, evs), Still,
         NEW kind \in {"approval", "tool", "handoff"}, NEW i \in Intents \cup {None},
         NEW ticket, i \in Intents => Uses(r, i), kind = "approval" => NotStarted(r, i),
         Suspend(r, evs, kind, i, ticket)
  PROVE  Authority'
<1> DEFINE idle == Idle(run[r])
           pending == [kind |-> kind, intent |-> i]
           rec == [idle EXCEPT !.state = "Suspended", !.ticket = ticket, !.pending = pending]
           last == E("RunWaiting", i, kind)
           all == Append(evs, last)
<1>1. run[r] \in RunRecord /\ log \in [Runs -> Seq(Event)]
  BY DEF Inv, TypeInv, TypeOK
<1>2. idle \in RunRecord /\ idle.pc = "idle" /\ idle.intent = None
  BY <1>1, IdleRecord
<1>3. pending.kind = kind /\ pending.intent = i
  OBVIOUS
<1>4. all \in Seq(Event) /\ Own(r, all)
  BY OwnMore DEF Kinds, Infos
<1>5. Write(r, all) /\ run' = [run EXCEPT ![r] = rec]
  BY DEF Suspend
<1> HIDE DEF last
<1>6. i # None => Mentioned(r, i)'
  <2>1. last \in Event /\ last.intent = i
    BY DEF last, E, Event, Kinds, Infos
  <2>2. Len(evs) \in Nat /\ Len(all) = Len(evs) + 1 /\ all[Len(evs) + 1].intent = i
    BY <2>1, OneMoreEvent
  <2>3. Len(log[r]) + Len(all) \in 1..Len(log'[r]) /\ log'[r][Len(log[r]) + Len(all)] = all[Len(all)]
    <3>1. Extended(r, all)
      BY <1>1, <1>4, <1>5, WriteExtends
    <3>2. Len(all) \in 1..Len(all)
      BY <2>2
    <3> HIDE DEF all
    <3> QED BY <3>1, <3>2 DEF Extended
  <2> QED BY <2>2, <2>3 DEF Mentioned
<1> HIDE DEF idle, pending, all
<1>7. rec.pc = "idle" /\ rec.intent = None /\ rec.state = "Suspended" /\ rec.pending = pending
  BY <1>2 DEF RunRecord
<1> HIDE DEF rec
<1>8. rec.state = "Suspended" =>
        /\ rec.pending.kind = "approval" => NotStarted(r, rec.pending.intent)
        /\ rec.pending.intent # None => Mentioned(r, run[r].pending.intent)'
  <2>1. run'[r].pending.intent = i
    BY <1>3, <1>5, <1>7 DEF Inv, TypeInv, TypeOK
  <2> QED BY <1>3, <1>6, <1>7, <2>1 DEF Mentioned
<1> QED BY <1>4, <1>5, <1>7, <1>8, RestAuthority

\* An error is handed to the caller of a run that is not suspended.
LEMMA AbandonAuthority ==
  ASSUME Inv, Authority, NEW r \in Runs, NEW evs \in Seq(Event), Own(r, evs), Still,
         run[r].state # "Suspended", Abandon(r, evs)
  PROVE  Authority'
<1> DEFINE rec == Idle(run[r])
<1>1. rec.intent = None /\ rec.pc = "idle" /\ rec.state # "Suspended"
  BY IdleRecord DEF Inv, TypeInv, TypeOK
<1>2. Write(r, evs) /\ run' = [run EXCEPT ![r] = rec]
  BY DEF Abandon
<1> HIDE DEF rec
<1> QED BY <1>1, <1>2, RestAuthority

\* Fault of a planned or driven action.
LEMMA RaiseAuthority ==
  ASSUME Inv, Authority, NEW r \in Runs, NEW evs \in Seq(Event), Own(r, evs), Still,
         run[r].state # "Suspended", Raise(r, evs)
  PROVE  Authority'
<1>1. run[r].intent \in Intents \cup {None} /\ (run[r].intent \in Intents => Uses(r, run[r].intent))
  BY DEF Inv, TypeInv, TypeOK, RunRecord, Uses
<1> QED BY <1>1, FinishAuthority, DenyAuthority, AbandonAuthority DEF Raise, Terminals

\* Nothing of a step on a known run surprises: its intent is used, the
\* records and logs have their types.
LEMMA Standing ==
  ASSUME Inv, NEW r \in Runs, UNCHANGED Other
  PROVE  /\ run[r] \in RunRecord /\ RecordOK(run[r]) /\ Still
         /\ log \in [Runs -> Seq(Event)] /\ run \in [Runs -> RunRecord]
         /\ run[r].intent \in Intents \cup {None} /\ Uses(r, run[r].intent)
BY DEF Inv, TypeInv, TypeOK, RunInv, RunRecord, Other, Still, Uses

\* bind_and_drive
LEMMA BindAuthority ==
  ASSUME Inv, Authority, NEW r \in Runs, Bind(r)
  PROVE  Authority'
<1> DEFINE bound == <<E("SessionBound", None, None)>>
<1>1. /\ run[r] \in RunRecord /\ Still /\ run[r].pc = "queued" /\ run[r].state # "Suspended"
      /\ run[r].intent \in Intents \cup {None} /\ log \in [Runs -> Seq(Event)]
  BY Standing DEF Bind, AtRun, RecordOK
<1>2. bound \in Seq(Event) /\ Own(r, bound)
  BY OwnOne, HarnessAssumption DEF HarnessAssumption, Kinds, Infos
<1>3. <<>> \in Seq(Event) /\ Own(r, <<>>)
  BY OwnNothing
<1>4. \/ /\ Write(r, bound)
         /\ run' = [run EXCEPT ![r] =
              [@ EXCEPT !.state = "Running", !.pc = IF run[r].mode = "Loop" THEN "loop" ELSE "tool"]]
      \/ \E evs \in {<<>>, bound} : Finish(r, evs, "RunFailed")
      \/ Finish(r, bound, "RunAborted")
  BY DEF Bind, Ev
<1> HIDE DEF bound
<1>5. ASSUME Write(r, bound),
             run' = [run EXCEPT ![r] =
               [@ EXCEPT !.state = "Running", !.pc = IF run[r].mode = "Loop" THEN "loop" ELSE "tool"]]
      PROVE  Authority'
  <2> DEFINE pc == IF run[r].mode = "Loop" THEN "loop" ELSE "tool"
             rec == [run[r] EXCEPT !.state = "Running", !.pc = pc]
  <2>1. pc \in {"loop", "tool"} /\ run' = [run EXCEPT ![r] = rec]
    BY <1>5
  <2> HIDE DEF pc
  <2>2. rec.pc = pc /\ rec.state = "Running" /\ rec.intent = run[r].intent
    BY <1>1 DEF RunRecord
  <2> HIDE DEF rec
  <2>3. run'[r] = rec
    BY <2>1 DEF Inv, TypeInv, TypeOK
  <2>4. run[r].intent # None => NotStarted(r, run[r].intent)
    BY <1>1 DEF Authority, AuthorisedRun
  <2>5. \A i : NotStarted(r, i) => NotStarted(r, i)'
    BY <1>1, <1>2, <1>5, KeptAfterWrite DEF Still
  <2>6. rec.intent # None => NotStarted(r, run[r].intent)'
    BY <2>2, <2>3, <2>4, <2>5 DEF NotStarted
  <2>7. AuthorisedRun(r)'
    BY <2>1, <2>2, <2>3, <2>6 DEF AuthorisedRun
  <2>8. /\ rec.intent \in Intents => Uses(r, rec.intent) \/ Unused(rec.intent)
        /\ \A p \in planned' : p \in planned \/ LoggedWith(r, "ActionPlanned", p.intent, {None})'
        /\ UNCHANGED <<accepted, effects, call>>
    BY <1>1, <2>2 DEF Uses, Still
  <2> QED BY <1>2, <1>5, <2>1, <2>2, <2>7, <2>8, AuthorityStep
<1>6. ASSUME NEW evs \in {<<>>, bound}, NEW status \in {"RunFailed", "RunAborted"}, Finish(r, evs, status)
      PROVE  Authority'
  BY <1>1, <1>2, <1>3, <1>6, FinishAuthority DEF Terminals
<1> QED BY <1>4, <1>5, <1>6

\* drive: the steps that end the run.
LEMMA LoopEndAuthority ==
  ASSUME Inv, Authority, NEW r \in Runs, LoopCancelled(r) \/ LoopStops(r) \/ LoopFinal(r)
  PROVE  Authority'
<1>1. Still
  BY Standing DEF LoopCancelled, LoopStops, LoopFinal
<1>2. <<>> \in Seq(Event) /\ Own(r, <<>>)
  BY OwnNothing
<1>3. ASSUME NEW ok \in BOOLEAN PROVE <<Verified(ok)>> \in Seq(Event) /\ Own(r, <<Verified(ok)>>)
  <2> DEFINE info == IF ok THEN "Pass" ELSE "Fail"
  <2>1. info \in Infos /\ Verified(ok) = E("VerificationFinished", None, info)
    BY DEF Infos, Verified
  <2> HIDE DEF info
  <2> QED BY <2>1, OwnOne, HarnessAssumption DEF HarnessAssumption, Kinds
<1>4. \/ \E status \in Terminals : Finish(r, <<>>, status)
      \/ Finish(r, <<Verified(TRUE)>>, "RunComplete")
      \/ Finish(r, <<Verified(FALSE)>>, "RunFailed")
  BY DEF LoopCancelled, LoopStops, LoopFinal, Terminals
<1>5. CASE \E status \in Terminals : Finish(r, <<>>, status)
  BY <1>1, <1>2, <1>5, FinishAuthority
<1>6. ASSUME NEW ok \in BOOLEAN, NEW status \in Terminals, Finish(r, <<Verified(ok)>>, status)
      PROVE  Authority'
  BY <1>1, <1>3, <1>6, FinishAuthority
<1> QED BY <1>4, <1>5, <1>6 DEF Terminals

\* drive: the model proposes a tool call under a fresh intent id.
LEMMA LoopToolAuthority ==
  ASSUME Inv, Authority, IntentsAreFresh, NEW r \in Runs, LoopTool(r)
  PROVE  Authority'
<1>1. /\ run[r] \in RunRecord /\ Still /\ log \in [Runs -> Seq(Event)] /\ run[r].state # "Suspended"
  BY Standing DEF LoopTool, AtRun, RecordOK
<1>2. <<>> \in Seq(Event) /\ Own(r, <<>>)
  BY OwnNothing
<1>3. ASSUME NEW i \in Intents, i \notin Proposed, Goto(r, <<>>, [run[r] EXCEPT !.pc = "tool", !.intent = i])
      PROVE  Authority'
  <2> DEFINE rec == [run[r] EXCEPT !.pc = "tool", !.intent = i]
  <2>1. Write(r, <<>>) /\ run' = [run EXCEPT ![r] = rec]
    BY <1>3 DEF Goto
  <2>2. rec.pc = "tool" /\ rec.intent = i /\ rec.state = run[r].state
    BY <1>1 DEF RunRecord
  <2> HIDE DEF rec
  <2>3. Unused(i)
    <3>1. ASSUME NEW s \in Runs PROVE ~Uses(s, i)
      <4>1. run[s].intent # i
        BY <1>3 DEF Proposed
      <4>2. ASSUME NEW n \in 1..Len(log[s]) PROVE log[s][n].intent # i
        BY <1>3 DEF Proposed
      <4> QED BY <4>1, <4>2 DEF Uses, Mentioned
    <3>2. \A c \in Clients : Request[c].intent # i
      BY <1>3 DEF Proposed
    <3> QED BY <3>1, <3>2 DEF Unused
  <2>4. run'[r] = rec
    BY <2>1 DEF Inv, TypeInv, TypeOK
  <2>5. NotStarted(r, i)
    BY <2>3 DEF Unused, Uses, Mentioned, NotStarted, Logged
  <2>6. NotStarted(r, i)'
    BY <1>1, <1>2, <2>1, <2>5, KeptAfterWrite DEF Still
  <2>7. NotStarted(r, run[r].intent)'
    BY <2>2, <2>4, <2>6 DEF NotStarted
  <2>8. AuthorisedRun(r)'
    BY <1>1, <2>2, <2>4, <2>7 DEF AuthorisedRun
  <2>9. /\ rec.intent \in Intents => Uses(r, rec.intent) \/ Unused(rec.intent)
        /\ \A p \in planned' : p \in planned \/ LoggedWith(r, "ActionPlanned", p.intent, {None})'
        /\ UNCHANGED <<accepted, effects, call>>
    BY <1>1, <2>2, <2>3 DEF Still
  <2> QED BY <1>1, <1>2, <2>1, <2>2, <2>8, <2>9, AuthorityStep
<1>4. ASSUME Deny(r, <<E("ToolCallProposed", None, None)>>, None) PROVE Authority'
  <2>1. <<E("ToolCallProposed", None, None)>> \in Seq(Event) /\ Own(r, <<E("ToolCallProposed", None, None)>>)
    BY OwnOne, HarnessAssumption DEF HarnessAssumption, Kinds, Infos
  <2> QED BY <1>1, <1>4, <2>1, DenyAuthority, HarnessAssumption DEF HarnessAssumption
<1> QED BY <1>3, <1>4 DEF LoopTool, IntentsAreFresh

\* drive: the model hands the run off.
LEMMA LoopHandoffAuthority ==
  ASSUME Inv, Authority, NEW r \in Runs, LoopHandoff(r)
  PROVE  Authority'
<1> DEFINE evs == <<E("HandoffRequested", None, None)>>
<1>1. Still
  BY Standing DEF LoopHandoff
<1>2. evs \in Seq(Event) /\ Own(r, evs)
  BY OwnOne, HarnessAssumption DEF HarnessAssumption, Kinds, Infos
<1>3. Suspend(r, evs, "handoff", None, "none")
  BY DEF LoopHandoff, Ev
<1> HIDE DEF evs
<1> QED BY <1>1, <1>2, <1>3, SuspendAuthority, HarnessAssumption DEF HarnessAssumption

\* handle_tool: what is allowed to go on without asking is neither external
\* nor asked for by an untrusted sender.
LEMMA ToolPolicyAuthority ==
  ASSUME Inv, Authority, NEW r \in Runs, ToolPolicy(r)
  PROVE  Authority'
<1> DEFINE i == run[r].intent
           proposed == <<E("ToolCallProposed", i, None)>>
           decided == Append(proposed, E("PolicyEvaluated", i, Floor(r, i)))
           asked == Append(decided, E("ApprovalRequested", i, None))
<1>1. /\ run[r] \in RunRecord /\ RecordOK(run[r]) /\ Still /\ log \in [Runs -> Seq(Event)]
      /\ run[r].pc = "tool" /\ run[r].state # "Suspended" /\ Uses(r, i)
  BY Standing DEF ToolPolicy, AtRun, RecordOK
<1>2. i \in Intents
  BY <1>1 DEF RecordOK
<1>3. Floor(r, i) \in {"Deny", "Ask", "Allow"}
  BY <1>2, HarnessAssumption DEF Floor, HarnessAssumption, Decisions
<1>4. NotStarted(r, i)
  BY <1>1, <1>2, HarnessAssumption DEF Authority, AuthorisedRun, HarnessAssumption
<1>5. \/ Deny(r, decided, i)
      \/ Raise(r, proposed)
      \/ Suspend(r, asked, "approval", i, "pending")
      \/ Floor(r, i) = "Allow" /\ Goto(r, decided, [run[r] EXCEPT !.pc = "execute"])
  BY DEF ToolPolicy
<1>6. Floor(r, i) = "Allow" => i \notin External \ Autonomous /\ ~run[r].untrusted
  BY <1>3 DEF Floor
<1> DEFINE floor == Floor(r, i)
<1> HIDE DEF i, floor
<1>7. proposed \in Seq(Event) /\ Own(r, proposed)
  BY <1>1, <1>2, OwnOne DEF Kinds, Infos
<1>8. /\ E("PolicyEvaluated", i, floor) \in Event /\ E("PolicyEvaluated", i, floor).kind = "PolicyEvaluated"
      /\ E("PolicyEvaluated", i, floor).intent = i /\ E("PolicyEvaluated", i, floor).info = floor
  BY <1>2, <1>3 DEF E, Event, Kinds, Infos, floor
<1>9. decided \in Seq(Event) /\ Own(r, decided)
  BY <1>1, <1>2, <1>3, <1>7, OwnMore DEF Kinds, Infos
<1>10. asked \in Seq(Event) /\ Own(r, asked)
  BY <1>1, <1>2, <1>9, OwnMore DEF Kinds, Infos
<1>11. Len(decided) \in 1..Len(decided) /\ decided[Len(decided)] = E("PolicyEvaluated", i, floor)
  <2>1. Len(proposed) \in Nat /\ Len(decided) = Len(proposed) + 1
        /\ decided[Len(proposed) + 1] = E("PolicyEvaluated", i, floor)
    BY <1>7, <1>8, OneMoreEvent DEF floor
  <2> HIDE DEF decided, proposed
  <2> QED BY <2>1
<1> HIDE DEF proposed, decided, asked
<1>12. ASSUME floor = "Allow", Goto(r, decided, [run[r] EXCEPT !.pc = "execute"]) PROVE Authority'
  <2> DEFINE rec == [run[r] EXCEPT !.pc = "execute"]
  <2>1. Write(r, decided) /\ run' = [run EXCEPT ![r] = rec]
    BY <1>12 DEF Goto
  <2>2. rec.pc = "execute" /\ rec.state = run[r].state /\ rec.intent = i
    BY <1>1 DEF RunRecord, i
  <2> HIDE DEF rec
  <2>3. run'[r] = rec
    BY <2>1 DEF Inv, TypeInv, TypeOK
  <2>4. /\ \A j : NotStarted(r, j) => NotStarted(r, j)'
        /\ UntrustedRun(r)' <=> UntrustedRun(r)
    BY <1>1, <1>9, <2>1, KeptAfterWrite DEF Still
  <2>5. LoggedWith(r, "PolicyEvaluated", i, {"Allow"})' 
    <3>1. Extended(r, decided)
      BY <1>1, <1>9, <2>1, WriteExtends
    <3> DEFINE n == Len(log[r]) + Len(decided)
    <3>2. n \in 1..Len(log'[r]) /\ log'[r][n] = E("PolicyEvaluated", i, floor)
      BY <1>11, <3>1 DEF Extended
    <3> HIDE DEF n
    <3>3. \E m \in 1..Len(log'[r]) : log'[r][m].kind = "PolicyEvaluated" /\ log'[r][m].intent = i /\ log'[r][m].info \in {"Allow"}
      BY <1>8, <1>12, <3>2
    <3> QED BY <2>2, <2>3, <3>3 DEF LoggedWith, i
  <2>6. ~UntrustedRun(r)
    BY <1>1, <1>6, <1>12 DEF floor, Inv, RunInv, Provenance, UntrustedRun, Registered, RecordOK, Unregistered
  <2>7. Decided(r, run[r].intent)' /\ NotStarted(r, run[r].intent)'
    BY <1>4, <1>6, <1>12, <2>2, <2>3, <2>4, <2>5, <2>6 DEF Decided, NotStarted, floor, i
  <2>8. AuthorisedRun(r)'
    BY <1>1, <2>2, <2>3, <2>7 DEF AuthorisedRun
  <2>9. /\ rec.intent \in Intents => Uses(r, rec.intent) \/ Unused(rec.intent)
        /\ \A p \in planned' : p \in planned \/ LoggedWith(r, "ActionPlanned", p.intent, {None})'
        /\ UNCHANGED <<accepted, effects, call>>
    BY <1>1, <2>2 DEF Still
  <2> QED BY <1>1, <1>9, <2>1, <2>2, <2>8, <2>9, AuthorityStep
<1>13. ASSUME Suspend(r, asked, "approval", i, "pending") PROVE Authority'
  BY <1>1, <1>2, <1>4, <1>10, <1>13, SuspendAuthority
<1>14. ASSUME Deny(r, decided, i) PROVE Authority'
  BY <1>1, <1>2, <1>9, <1>14, DenyAuthority
<1>15. ASSUME Raise(r, proposed) PROVE Authority'
  BY <1>1, <1>7, <1>15, RaiseAuthority
<1> QED BY <1>5, <1>12, <1>13, <1>14, <1>15 DEF floor

\* execute_action up to the plan: an intent that was planned before was
\* planned by this run.
LEMMA PlanActionAuthority ==
  ASSUME Inv, Authority, NEW r \in Runs, PlanAction(r)
  PROVE  Authority'
<1> DEFINE i == run[r].intent
           p == [intent |-> i, approval |-> run[r].approval]
           spent == Spend(run[r])
           plan == <<E("ActionPlanned", i, None)>>
<1>1. /\ run[r] \in RunRecord /\ RecordOK(run[r]) /\ log \in [Runs -> Seq(Event)]
      /\ run[r].pc = "execute" /\ run[r].state # "Suspended" /\ UNCHANGED <<accepted, effects, call>>
  BY DEF PlanAction, AtRun, RecordOK, Inv, TypeInv, TypeOK, RunInv
<1>2. i \in Intents /\ Uses(r, i)
  BY <1>1 DEF RecordOK, Uses
<1>3. NotStarted(r, i) /\ Decided(r, i)
  BY <1>1, <1>2, HarnessAssumption DEF Authority, AuthorisedRun, HarnessAssumption
<1>4. <<>> \in Seq(Event) /\ Own(r, <<>>)
  BY OwnNothing
<1>5. /\ plan \in Seq(Event) /\ Own(r, plan)
      /\ Len(plan) = 1 /\ plan[1].kind = "ActionPlanned" /\ plan[1].intent = i /\ plan[1].info = None
  <2> DEFINE e == E("ActionPlanned", i, None)
  <2>1. e \in Event /\ e.kind = "ActionPlanned" /\ e.intent = i /\ e.info = None
    BY <1>2 DEF E, Event, Kinds, Infos
  <2>2. plan \in Seq(Event) /\ Own(r, plan)
    BY <1>2, OwnOne DEF Kinds, Infos
  <2>3. plan = <<e>>
    OBVIOUS
  <2> HIDE DEF e, plan
  <2> QED BY <2>1, <2>2, <2>3, OneEvent
<1>6. \/ /\ Deny(r, <<>>, i) \/ Raise(r, <<>>) \/ Finish(r, <<>>, "RunLimited")
         /\ planned' = planned
      \/ Goto(r, plan, spent) /\ planned' = planned \cup {p}
      \/ Goto(r, <<>>, spent) /\ planned' = planned /\ p \in planned
  BY DEF PlanAction
<1>7. spent.pc = "planned" /\ spent.state = run[r].state /\ spent.intent = i
  BY <1>1 DEF RunRecord, Spend
<1>8. p.intent = i
  OBVIOUS
<1> HIDE DEF plan, spent, p
<1>9. ASSUME NEW evs \in {<<>>, plan}, Goto(r, evs, spent), planned' = planned \/ planned' = planned \cup {p},
             LoggedWith(r, "ActionPlanned", i, {None})'
      PROVE  Authority'
  <2>1. Write(r, evs) /\ run' = [run EXCEPT ![r] = spent] /\ run'[r] = spent
    BY <1>9 DEF Goto, Inv, TypeInv, TypeOK
  <2>2. run'[r].intent = i
    BY <1>7, <2>1
  <2>3. /\ \A j : NotStarted(r, j) => NotStarted(r, j)'
        /\ \A j : Decided(r, j) => Decided(r, j)'
    BY <1>1, <1>4, <1>5, <2>1, KeptAfterWrite
  <2>4. NotStarted(r, run[r].intent)' /\ Decided(r, run[r].intent)' /\ LoggedWith(r, "ActionPlanned", run[r].intent, {None})'
    BY <1>3, <1>9, <2>2, <2>3 DEF NotStarted, Decided, LoggedWith
  <2>5. AuthorisedRun(r)'
    BY <1>1, <1>7, <2>1, <2>4 DEF AuthorisedRun
  <2>6. /\ spent.intent \in Intents => Uses(r, spent.intent) \/ Unused(spent.intent)
        /\ \A q \in planned' : q \in planned \/ LoggedWith(r, "ActionPlanned", q.intent, {None})'
    BY <1>2, <1>7, <1>8, <1>9, <2>2 DEF LoggedWith
  <2> QED BY <1>1, <1>4, <1>5, <1>7, <2>1, <2>5, <2>6, AuthorityStep
<1>10. CASE Goto(r, plan, spent) /\ planned' = planned \cup {p}
  <2>1. Extended(r, plan)
    BY <1>1, <1>5, <1>10, WriteExtends DEF Goto
  <2>2. Len(log[r]) + 1 \in 1..Len(log'[r]) /\ log'[r][Len(log[r]) + 1] = plan[1]
    BY <1>5, <2>1 DEF Extended
  <2>3. \E n \in 1..Len(log'[r]) : log'[r][n].kind = "ActionPlanned" /\ log'[r][n].intent = i /\ log'[r][n].info \in {None}
    BY <1>5, <2>2
  <2>4. run'[r] = spent
    BY <1>10 DEF Goto, Inv, TypeInv, TypeOK
  <2>5. LoggedWith(r, "ActionPlanned", i, {None})'
    BY <1>7, <2>3, <2>4 DEF LoggedWith
  <2> QED BY <1>9, <1>10, <2>5
<1>11. CASE Goto(r, <<>>, spent) /\ planned' = planned /\ p \in planned
  <2>1. PICK s \in Runs : LoggedWith(s, "ActionPlanned", i, {None})
    BY <1>8, <1>11 DEF Authority, OneUser
  <2>2. s = r
    BY <1>2, <2>1 DEF Authority, OneUser, Uses, Mentioned, LoggedWith
  <2>3. LoggedWith(r, "ActionPlanned", i, {None})
    BY <2>1, <2>2
  <2>4. \A j : LoggedWith(r, "ActionPlanned", j, {None}) => LoggedWith(r, "ActionPlanned", j, {None})'
    BY <1>1, <1>4, <1>11, KeptAfterWrite DEF Goto
  <2>5. run'[r] = spent
    BY <1>11 DEF Goto, Inv, TypeInv, TypeOK
  <2>6. LoggedWith(r, "ActionPlanned", i, {None})'
    BY <1>7, <2>3, <2>4, <2>5 DEF LoggedWith
  <2> QED BY <1>9, <1>11, <2>6
<1>12. CASE /\ Deny(r, <<>>, i) \/ Raise(r, <<>>) \/ Finish(r, <<>>, "RunLimited")
            /\ planned' = planned
  <2>1. Still
    BY <1>1, <1>12 DEF Still
  <2> QED BY <1>1, <1>2, <1>4, <1>12, <2>1, DenyAuthority, RaiseAuthority, FinishAuthority DEF Terminals
<1> QED BY <1>6, <1>10, <1>11, <1>12

\* An execution comes back to execute_action.
LEMMA DoneAuthority ==
  ASSUME Inv, Authority, NEW r \in Runs, Still, run[r].state # "Suspended",
         NEW evs \in Seq(Event), Own(r, evs), NEW o \in Outcomes \cup {"ActionOutcomeUnknown", "error"},
         Goto(r, evs, Done(r, o))
  PROVE  Authority'
<1> DEFINE rec == Done(r, o)
<1>1. rec.pc = "after" /\ rec.intent = run[r].intent /\ rec.state # "Suspended"
  BY DoneRecord DEF Inv, TypeInv, TypeOK
<1>2. Write(r, evs) /\ run' = [run EXCEPT ![r] = rec]
  BY DEF Goto
<1> HIDE DEF rec
<1> QED BY <1>1, <1>2, RestAuthority

\* A backend refuses to start, or writes the outcome.
LEMMA OutcomeAuthority ==
  ASSUME Inv, Authority, NEW r \in Runs, StartRefused(r) \/ RecordOutcome(r)
  PROVE  Authority'
<1>1. UNCHANGED Other /\ run[r].pc # "idle"
  BY DEF StartRefused, RecordOutcome, AtRun
<1>2. /\ run[r] \in RunRecord /\ Still /\ run[r].state # "Suspended"
      /\ run[r].intent \in Intents \cup {None} /\ Uses(r, run[r].intent)
  BY <1>1, Standing DEF RecordOK
<1>3. <<>> \in Seq(Event) /\ Own(r, <<>>)
  BY OwnNothing
<1>4. ASSUME NEW o \in Outcomes \cup {"ActionOutcomeUnknown"}
      PROVE  <<E(o, run[r].intent, None)>> \in Seq(Event) /\ Own(r, <<E(o, run[r].intent, None)>>)
  BY <1>2, OwnOne DEF Kinds, Infos, Outcomes
<1>5. \/ \E o \in Outcomes \cup {"ActionOutcomeUnknown"} : Goto(r, <<E(o, run[r].intent, None)>>, Done(r, o))
      \/ Goto(r, <<>>, Done(r, "error"))
  BY DEF StartRefused, RecordOutcome, Outcomes
<1>6. ASSUME NEW o \in Outcomes \cup {"ActionOutcomeUnknown"}, Goto(r, <<E(o, run[r].intent, None)>>, Done(r, o))
      PROVE  Authority'
  BY <1>2, <1>4, <1>6, DoneAuthority
<1>7. CASE Goto(r, <<>>, Done(r, "error"))
  BY <1>2, <1>3, <1>7, DoneAuthority
<1> QED BY <1>5, <1>6, <1>7

\* after_action_result
LEMMA AfterActionAuthority ==
  ASSUME Inv, Authority, NEW r \in Runs, AfterAction(r)
  PROVE  Authority'
<1>1. UNCHANGED Other /\ run[r].pc = "after"
  BY DEF AfterAction, AtRun
<1>2. /\ run[r] \in RunRecord /\ Still /\ run[r].state # "Suspended" /\ RecordOK(run[r])
      /\ run[r].intent \in Intents /\ Uses(r, run[r].intent) /\ run[r].turn < MaxTurns
  BY <1>1, Standing DEF RecordOK
<1>3. <<>> \in Seq(Event) /\ Own(r, <<>>)
  BY OwnNothing
<1>4. ASSUME NEW ok \in BOOLEAN PROVE <<Verified(ok)>> \in Seq(Event) /\ Own(r, <<Verified(ok)>>)
  <2> DEFINE info == IF ok THEN "Pass" ELSE "Fail"
  <2>1. info \in Infos /\ Verified(ok) = E("VerificationFinished", None, info)
    BY DEF Infos, Verified
  <2> HIDE DEF info
  <2> QED BY <2>1, OwnOne, HarnessAssumption DEF HarnessAssumption, Kinds
<1>5. /\ "RunFailed" \in Terminals /\ "RunComplete" \in Terminals /\ "RunAborted" \in Terminals
  BY DEF Terminals
<1>6. \/ \E ok \in BOOLEAN : \E status \in Terminals : Finish(r, <<Verified(ok)>>, status)
      \/ \E ok \in BOOLEAN : Goto(r, <<Verified(ok)>>, NextTurn(run[r]))
      \/ \E status \in Terminals : Finish(r, <<>>, status)
      \/ Suspend(r, <<>>, "tool", run[r].intent, "none")
      \/ Goto(r, <<>>, NextTurn(run[r]))
  BY <1>5, Zenon DEF AfterAction
<1>7. ASSUME NEW evs \in Seq(Event), Own(r, evs), NEW status \in Terminals, Finish(r, evs, status)
      PROVE  Authority'
  BY <1>2, <1>7, FinishAuthority
<1>8. ASSUME NEW evs \in Seq(Event), Own(r, evs), Goto(r, evs, NextTurn(run[r]))
      PROVE  Authority'
  <2> DEFINE rec == NextTurn(run[r])
  <2>1. rec.pc = "loop" /\ rec.intent = None /\ rec.state # "Suspended"
    BY <1>2, NextTurnRecord, HarnessAssumption
  <2>2. Write(r, evs) /\ run' = [run EXCEPT ![r] = rec]
    BY <1>8 DEF Goto
  <2> HIDE DEF rec
  <2> QED BY <1>2, <1>8, <2>1, <2>2, RestAuthority
<1>9. CASE Suspend(r, <<>>, "tool", run[r].intent, "none")
  BY <1>2, <1>3, <1>9, SuspendAuthority
<1> QED BY <1>3, <1>4, <1>6, <1>7, <1>8, <1>9

\* emit_started: everything the start rests on is in the log before it.
LEMMA StartActionAuthority ==
  ASSUME Inv, Authority, NEW r \in Runs, StartAction(r)
  PROVE  Authority'
<1> DEFINE i == run[r].intent
           e == E("ActionStarted", i, None)
           evs == <<e>>
           rec == [run[r] EXCEPT !.pc = "started"]
           last == Len(log[r]) + 1
<1>1. /\ run[r] \in RunRecord /\ RecordOK(run[r]) /\ Still /\ log \in [Runs -> Seq(Event)]
      /\ run[r].pc = "planned" /\ run[r].state # "Suspended" /\ Uses(r, i)
  BY Standing DEF StartAction, AtRun, RecordOK
<1>2. i \in Intents
  BY <1>1 DEF RecordOK
<1>3. NotStarted(r, i) /\ Decided(r, i) /\ LoggedWith(r, "ActionPlanned", i, {None})
  BY <1>1, <1>2, HarnessAssumption DEF Authority, AuthorisedRun, HarnessAssumption
<1>4. e \in Event /\ e.kind = "ActionStarted" /\ e.intent = i
  BY <1>2 DEF E, Event, Kinds, Infos
<1>5. Write(r, evs) /\ run' = [run EXCEPT ![r] = rec]
  BY DEF StartAction, Goto
<1>6. rec.pc = "started" /\ rec.state = run[r].state /\ rec.intent = i
  BY <1>1 DEF RunRecord
<1> HIDE DEF e, rec, i
<1>7. evs \in Seq(Event) /\ Len(evs) = 1 /\ evs[1] = e
  BY <1>4, OneEvent
<1> HIDE DEF evs
<1>8. /\ run'[r] = rec /\ \A s \in Runs : s # r => run'[s] = run[s]
      /\ Extended(r, evs)
  BY <1>1, <1>5, <1>7, WriteExtends DEF Inv, TypeInv, TypeOK
<1>9. /\ last \in 1..Len(log'[r]) /\ log'[r][last] = e /\ last \notin 1..Len(log[r]) /\ last - 1 = Len(log[r])
      /\ \A n \in 1..Len(log[r]) : n \in 1..Len(log'[r]) /\ log'[r][n] = log[r][n]
      /\ \A n \in 1..Len(log'[r]) : n = last \/ n \in 1..Len(log[r])
      /\ last > 1 => log'[r][1] = log[r][1]
  BY <1>7, <1>8 DEF Extended
<1>10. /\ \A kinds, j : Logged(r, kinds, j) => Logged(r, kinds, j)'
       /\ \A kind, j, infos : LoggedWith(r, kind, j, infos) => LoggedWith(r, kind, j, infos)'
       /\ Logged(r, {"ActionStarted"}, i)'
  <2>1. \A kinds, j : Logged(r, kinds, j) => Logged(r, kinds, j)'
    BY <1>9 DEF Logged
  <2>2. \A kind, j, infos : LoggedWith(r, kind, j, infos) => LoggedWith(r, kind, j, infos)'
    BY <1>9 DEF LoggedWith
  <2>3. \E n \in 1..Len(log'[r]) : log'[r][n].kind \in {"ActionStarted"} /\ log'[r][n].intent = i
    BY <1>4, <1>9
  <2>4. run'[r].intent = i
    BY <1>6, <1>8
  <2> QED BY <2>1, <2>2, <2>3, <2>4 DEF Logged, i
<1>11. UntrustedRun(r)' => UntrustedRun(r)
  <2>1. CASE last > 1
    BY <1>8, <1>9, <2>1, <1>1 DEF UntrustedRun, Extended, Still
  <2>2. CASE ~(last > 1)
    <3>1. log'[r][1].kind = "ActionStarted"
      BY <1>4, <1>8, <1>9, <2>2 DEF Extended
    <3> QED BY <3>1 DEF UntrustedRun
  <2> QED BY <2>1, <2>2
<1>12. OneUser'
  <2>1. \A j \in Intents : Uses(r, j)' => Uses(r, j) \/ Unused(j)
    BY <1>1, <1>4, <1>6, <1>8, <1>9 DEF Uses, Mentioned
  <2>2. run'[r].state = "Suspended" /\ run'[r].pending.intent # None => Mentioned(r, run[r].pending.intent)'
    BY <1>1, <1>6, <1>8
  <2>3. /\ \A s \in Runs : s # r => run'[s] = run[s] /\ log'[s] = log[s]
        /\ \A c \in Clients : call'[c].pc # "done" => call[c].pc # "done"
        /\ \A p \in planned' : p \in planned \/ LoggedWith(r, "ActionPlanned", p.intent, {None})'
    BY <1>1, <1>8 DEF Extended, Still
  <2> QED BY <1>10, <2>1, <2>2, <2>3, OneUserStep DEF Authority
<1>13. Effects'
  <2>1. ASSUME NEW j \in Intents, effects'[j] # 0 PROVE \E s \in Runs : Logged(s, {"ActionStarted"}, j)'
    <3>1. PICK s \in Runs : Logged(s, {"ActionStarted"}, j)
      BY <1>1, <2>1 DEF Authority, Effects, Still
    <3>2. Logged(s, {"ActionStarted"}, j)'
      <4>1. CASE s = r
        BY <1>10, <3>1, <4>1
      <4>2. CASE s # r
        BY <1>8, <3>1, <4>2 DEF Logged, Extended
      <4> QED BY <4>1, <4>2
    <3> QED BY <3>2
  <2> QED BY <1>1, <2>1 DEF Authority, Effects, Still
<1>14. effects[i] = 0
  <2>1. ASSUME effects[i] # 0 PROVE FALSE
    <3>1. PICK s \in Runs : Logged(s, {"ActionStarted"}, i)
      BY <1>2, <2>1 DEF Authority, Effects
    <3>2. s = r
      BY <1>1, <1>2, <3>1 DEF Authority, OneUser, Uses, Mentioned, Logged
    <3> QED BY <1>3, <3>1, <3>2 DEF NotStarted
  <2> QED BY <2>1
<1>15. AuthorisedRun(r)'
  <2>1. run'[r].intent = i /\ effects'[run'[r].intent] = 0
    BY <1>1, <1>6, <1>8, <1>14 DEF Still
  <2>2. Logged(r, {"ActionStarted"}, run[r].intent)'
    BY <1>10 DEF i
  <2> QED BY <1>1, <1>6, <1>8, <2>1, <2>2 DEF AuthorisedRun
<1>16. AuthorisedStarts(r)'
  <2>1. ASSUME NEW n \in Starts(r) PROVE StartOK(r, n)'
    <3>1. n \in 1..Len(log[r]) /\ StartOK(r, n)
      BY DEF Authority, AuthorisedStarts, Starts
    <3>2. log'[r][n] = log[r][n] /\ \A m \in 1..(n - 1) : log'[r][m] = log[r][m]
      <4>1. \A m \in 1..Len(log[r]) : log'[r][m] = log[r][m]
        BY <1>9
      <4>2. Len(log[r]) \in Nat /\ 1..(n - 1) \subseteq 1..Len(log[r])
        BY <1>8, <3>1 DEF Extended
      <4> QED BY <3>1, <4>1, <4>2
    <3>3. \A kind, infos : LoggedBefore(r, n, kind, infos)' <=> LoggedBefore(r, n, kind, infos)
      BY <3>2 DEF LoggedBefore
    <3>4. log[r][n].intent \in External \ Autonomous \/ UntrustedRun(r)' =>
            LoggedBefore(r, n, "ApprovalResolved", {"Granted"})
      BY <1>11, <3>1 DEF StartOK
    <3>5. /\ LoggedBefore(r, n, "ActionPlanned", {None})
          /\ LoggedBefore(r, n, "PolicyEvaluated", {"Allow"}) \/ LoggedBefore(r, n, "ApprovalResolved", {"Granted"})
          /\ ~LoggedBefore(r, n, "ActionDenied", {None})
      BY <3>1 DEF StartOK
    <3> QED BY <3>2, <3>3, <3>4, <3>5 DEF StartOK
  <2>2. ASSUME NEW k, k = last PROVE StartOK(r, k)'
    <3>1. ASSUME NEW kind, NEW infos, LoggedWith(r, kind, i, infos) PROVE LoggedBefore(r, k, kind, infos)'
      <4>1. \E m \in 1..(last - 1) : log'[r][m].kind = kind /\ log'[r][m].intent = log'[r][last].intent /\ log'[r][m].info \in infos
        BY <1>4, <1>9, <3>1 DEF LoggedWith
      <4> QED BY <2>2, <4>1 DEF LoggedBefore
    <3>2. log'[r][k].intent = i
      BY <1>4, <1>9, <2>2
    <3>3. /\ LoggedBefore(r, k, "ActionPlanned", {None})'
          /\ LoggedBefore(r, k, "PolicyEvaluated", {"Allow"})' \/ LoggedBefore(r, k, "ApprovalResolved", {"Granted"})'
          /\ i \in External \ Autonomous \/ UntrustedRun(r)' => LoggedBefore(r, k, "ApprovalResolved", {"Granted"})'
      BY <1>3, <1>11, <3>1 DEF Decided
    <3>4. ~LoggedBefore(r, k, "ActionDenied", {None})'
      <4>1. \A m \in 1..Len(log[r]) : log[r][m].kind # "ActionDenied"
        BY DEF Inv, RunInv, LogOK, Open, StartAction, AtRun
      <4> QED BY <1>9, <2>2, <4>1 DEF LoggedBefore
    <3> QED BY <3>2, <3>3, <3>4 DEF StartOK
  <2>3. \A n \in Starts(r)' : n \in Starts(r) \/ n = last
    BY <1>9 DEF Starts
  <2>4. ASSUME NEW n \in Starts(r)' PROVE StartOK(r, n)'
    BY <2>1, <2>2, <2>3
  <2> QED BY <2>4 DEF AuthorisedStarts
<1>17. ASSUME NEW s \in Runs, s # r PROVE AuthorisedStarts(s)' /\ AuthorisedRun(s)'
  <2>1. UntrustedRun(s)' <=> UntrustedRun(s)
    BY <1>1, <1>8, <1>17 DEF UntrustedRun, Extended, Still
  <2> QED BY <1>1, <1>8, <1>17, <2>1, OtherAuthority DEF Authority, Extended, Still
<1> QED BY <1>12, <1>13, <1>15, <1>16, <1>17 DEF Authority

\* The effect: the action had none before, in this run or another.
LEMMA PerformEffectAuthority ==
  ASSUME Inv, Authority, NEW r \in Runs, PerformEffect(r)
  PROVE  Authority'
<1> DEFINE i == run[r].intent
           rec == [run[r] EXCEPT !.pc = "performed"]
<1>1. /\ run[r] \in RunRecord /\ RecordOK(run[r]) /\ run \in [Runs -> RunRecord]
      /\ run[r].pc = "started" /\ run[r].state # "Suspended" /\ UNCHANGED <<log, accepted, planned, call>>
      /\ effects \in [Intents -> Nat]
  BY DEF PerformEffect, AtRun, RecordOK, Inv, TypeInv, TypeOK, RunInv, storeVars
<1>2. i \in Intents
  BY <1>1 DEF RecordOK
<1>3. Logged(r, {"ActionStarted"}, i) /\ effects[i] = 0
  BY <1>1 DEF Authority, AuthorisedRun
<1>4. effects' = [effects EXCEPT ![i] = @ + 1] /\ run' = [run EXCEPT ![r] = rec]
  BY DEF PerformEffect
<1>5. rec.pc = "performed" /\ rec.state = run[r].state /\ rec.intent = i
  BY <1>1 DEF RunRecord
<1> HIDE DEF rec
<1>6. run'[r] = rec /\ \A s \in Runs : s # r => run'[s] = run[s]
  BY <1>1, <1>4
<1>7. effects'[i] = 1 /\ \A j \in Intents : j # i => effects'[j] = effects[j]
  BY <1>1, <1>2, <1>3, <1>4
<1>8. OneUser'
  <2>1. \A j \in Intents : Uses(r, j)' => Uses(r, j) \/ Unused(j)
    BY <1>1, <1>5, <1>6 DEF Uses, Mentioned
  <2>2. run'[r].state = "Suspended" /\ run'[r].pending.intent # None => Mentioned(r, run[r].pending.intent)'
    BY <1>1, <1>5, <1>6
  <2>3. /\ \A s \in Runs : s # r => run'[s] = run[s] /\ log'[s] = log[s]
        /\ \A c \in Clients : call'[c].pc # "done" => call[c].pc # "done"
        /\ \A p \in planned' : p \in planned \/ LoggedWith(r, "ActionPlanned", p.intent, {None})'
        /\ \A j : LoggedWith(r, "ActionPlanned", j, {None}) => LoggedWith(r, "ActionPlanned", j, {None})'
    BY <1>1, <1>6 DEF LoggedWith
  <2> QED BY <2>1, <2>2, <2>3, OneUserStep DEF Authority
<1>9. Effects'
  <2>1. \A s \in Runs : \A j : Logged(s, {"ActionStarted"}, j)' <=> Logged(s, {"ActionStarted"}, j)
    BY <1>1 DEF Logged
  <2>2. ASSUME NEW j \in Intents PROVE effects'[j] <= 1 /\ (effects'[j] # 0 => \E s \in Runs : Logged(s, {"ActionStarted"}, j)')
    <3>1. CASE j = i
      BY <1>3, <1>7, <2>1, <3>1
    <3>2. CASE j # i
      BY <1>7, <2>1, <3>2 DEF Authority, Effects
    <3> QED BY <3>1, <3>2
  <2> QED BY <2>2 DEF Effects
<1>10. ASSUME NEW s \in Runs, s # r PROVE AuthorisedStarts(s)' /\ AuthorisedRun(s)'
  <2>1. UntrustedRun(s)' <=> UntrustedRun(s)
    BY <1>1 DEF UntrustedRun
  <2>2. ASSUME run[s].pc = "started" PROVE effects'[run[s].intent] = effects[run[s].intent]
    <3>1. run[s].intent \in Intents
      BY <2>2 DEF Inv, RunInv, RecordOK
    <3>2. run[s].intent # i
      BY <1>2, <1>10 DEF Authority, OneUser, Uses
    <3> QED BY <1>7, <3>1, <3>2
  <2>3. log'[s] = log[s]
    BY <1>1
  <2> QED BY <1>6, <1>10, <2>1, <2>2, <2>3, OtherAuthority DEF Authority
<1>11. AuthorisedRun(r)'
  BY <1>1, <1>5, <1>6 DEF AuthorisedRun
<1>12. AuthorisedStarts(r)'
  <2>1. AuthorisedStarts(r)
    BY DEF Authority
  <2> QED BY <1>1, <2>1 DEF AuthorisedStarts, Starts, StartOK, LoggedBefore, UntrustedRun
<1> QED BY <1>8, <1>9, <1>10, <1>11, <1>12 DEF Authority

\* Appending nothing.
LEMMA WriteNothing ==
  ASSUME Inv, NEW r \in Runs, log' = log
  PROVE  Write(r, <<>>)
<1>1. log[r] \o <<>> = log[r] /\ log \in [Runs -> Seq(Event)]
  BY ConcatEmptySeq DEF Inv, TypeInv
<1> QED BY <1>1 DEF Write

\* A step that changes a record where nobody looks.
LEMMA SameAuthority ==
  ASSUME Inv, Authority, NEW r \in Runs, UNCHANGED <<log, Other>>,
         NEW rec, run' = [run EXCEPT ![r] = rec],
         rec.pc = run[r].pc, rec.state = run[r].state, rec.intent = run[r].intent,
         rec.pending = run[r].pending
  PROVE  Authority'
<1>1. <<>> \in Seq(Event) /\ Own(r, <<>>) /\ Write(r, <<>>)
  BY OwnNothing, WriteNothing
<1>2. Still /\ run'[r] = rec
  BY Standing DEF Inv, TypeInv, TypeOK
<1>3. AuthorisedRun(r)'
  <2>1. /\ \A kinds, i : Logged(r, kinds, i)' <=> Logged(r, kinds, i)
        /\ \A kind, i, infos : LoggedWith(r, kind, i, infos)' <=> LoggedWith(r, kind, i, infos)
        /\ UntrustedRun(r)' <=> UntrustedRun(r)
    BY <1>2 DEF Logged, LoggedWith, UntrustedRun, Still
  <2>2. \A i : (NotStarted(r, i)' <=> NotStarted(r, i)) /\ (Decided(r, i)' <=> Decided(r, i))
    BY <2>1 DEF NotStarted, Decided
  <2> QED BY <1>2, <2>1, <2>2 DEF AuthorisedRun, Authority, Still
<1>4. rec.state = "Suspended" /\ rec.pending.intent # None => Mentioned(r, run[r].pending.intent)'
  BY <1>2 DEF Authority, OneUser, Mentioned
<1>5. /\ rec.intent \in Intents => Uses(r, rec.intent) \/ Unused(rec.intent)
      /\ \A p \in planned' : p \in planned \/ LoggedWith(r, "ActionPlanned", p.intent, {None})'
      /\ UNCHANGED <<accepted, effects, call>>
  BY <1>2 DEF Still, Uses
<1> QED BY <1>1, <1>3, <1>4, <1>5, AuthorityStep

\* The approval request expires; a canceller raises its flag.
LEMMA FlagAuthority ==
  ASSUME Inv, Authority, NEW r \in Runs, ApprovalExpires(r) \/ CancelSignal(r)
  PROVE  Authority'
<1>1. UNCHANGED <<log, Other>> /\ run[r] \in RunRecord
  BY DEF ApprovalExpires, CancelSignal, Inv, TypeInv, TypeOK
<1>2. PICK rec \in {[run[r] EXCEPT !.ticket = "expired"], [run[r] EXCEPT !.cancelled = TRUE, !.cancelling = TRUE]} :
        run' = [run EXCEPT ![r] = rec]
  BY DEF ApprovalExpires, CancelSignal
<1>3. rec.pc = run[r].pc /\ rec.state = run[r].state /\ rec.intent = run[r].intent /\ rec.pending = run[r].pending
  BY <1>1 DEF RunRecord
<1> QED BY <1>1, <1>2, <1>3, SameAuthority

\* cancel
LEMMA CancelTryAuthority ==
  ASSUME Inv, Authority, NEW r \in Runs, CancelTry(r)
  PROVE  Authority'
<1>1. UNCHANGED Other
  BY DEF CancelTry
<1>2. run[r] \in RunRecord /\ RecordOK(run[r]) /\ Still
  BY <1>1, Standing
<1>3. CASE Cancellable(r)
  <2> DEFINE ended == Ended(run[r], "RunAborted")
             rec == [ended EXCEPT !.cancelling = FALSE]
             evs == <<E("RunAborted", None, None)>>
  <2>1. Write(r, evs) /\ run' = [run EXCEPT ![r] = rec]
    BY <1>3 DEF CancelTry, Ev
  <2>2. ended \in RunRecord /\ ended.state = "Terminal" /\ ended.pc = run[r].pc /\ ended.intent = run[r].intent
    BY <1>2, EndedRecord DEF Terminals
  <2>3. run[r].pc = "idle"
    BY <1>2, <1>3 DEF Cancellable, RecordOK
  <2> HIDE DEF ended
  <2>4. rec.state = "Terminal" /\ rec.pc = "idle" /\ rec.intent = run[r].intent
    BY <2>2, <2>3 DEF RunRecord
  <2>5. evs \in Seq(Event) /\ Own(r, evs)
    BY OwnOne, HarnessAssumption DEF HarnessAssumption, Kinds, Infos, Terminals
  <2> HIDE DEF rec, evs
  <2> QED BY <1>2, <2>1, <2>4, <2>5, RestAuthority
<1>4. CASE ~Cancellable(r)
  <2> DEFINE rec == [run[r] EXCEPT !.cancelling = FALSE]
  <2>1. run' = [run EXCEPT ![r] = rec] /\ log' = log
    BY <1>4 DEF CancelTry
  <2>2. rec.pc = run[r].pc /\ rec.state = run[r].state /\ rec.intent = run[r].intent /\ rec.pending = run[r].pending
    BY <1>2 DEF RunRecord
  <2> HIDE DEF rec
  <2> QED BY <1>1, <2>1, <2>2, SameAuthority
<1> QED BY <1>3, <1>4

\* resume_approval: the grant is in the log before the run goes on.
LEMMA ResumeApprovalAuthority ==
  ASSUME Inv, Authority, NEW r \in Runs, ResumeApproval(r)
  PROVE  Authority'
<1> DEFINE i == run[r].pending.intent
           resolved(outcome) == E("ApprovalResolved", i, outcome)
           resumed == E("RunResumed", i, "approval")
           evs(outcome) == <<resolved(outcome), resumed>>
<1>1. CanResume(r, "approval") /\ UNCHANGED Other
  BY DEF ResumeApproval
<1>2. /\ run[r] \in RunRecord /\ RecordOK(run[r]) /\ Still /\ log \in [Runs -> Seq(Event)]
      /\ run[r].state = "Suspended" /\ run[r].pending.kind = "approval"
  BY <1>1, Standing DEF CanResume
<1>3. i \in Intents
  BY <1>2 DEF RecordOK
<1>4. Uses(r, i) /\ NotStarted(r, i)
  BY <1>2, <1>3, HarnessAssumption DEF Authority, OneUser, AuthorisedRun, Uses, HarnessAssumption
<1>5. <<>> \in Seq(Event) /\ Own(r, <<>>)
  BY OwnNothing
<1>6. \/ Deny(r, <<>>, i) \/ Deny(r, evs("Denied"), i) \/ Deny(r, evs("Granted"), i)
      \/ /\ Write(r, evs("Granted"))
         /\ run' = [run EXCEPT ![r] =
              [@ EXCEPT !.state = "Running", !.pending = NoPending, !.ticket = "none",
                 !.driver = "approve", !.pc = "execute", !.intent = i,
                 !.approval = <<r, run[r].turn>>]]
  BY DEF ResumeApproval
<1> HIDE DEF i
<1>7. ASSUME NEW outcome \in {"Granted", "Denied"}
      PROVE  /\ evs(outcome) \in Seq(Event) /\ Own(r, evs(outcome))
             /\ Len(evs(outcome)) = 2 /\ evs(outcome)[1].kind = "ApprovalResolved"
             /\ evs(outcome)[1].intent = i /\ evs(outcome)[1].info = outcome
  <2>1. /\ resolved(outcome) \in Event /\ resolved(outcome).kind = "ApprovalResolved"
        /\ resolved(outcome).intent = i /\ resolved(outcome).info = outcome
    BY <1>3 DEF E, Event, Kinds, Infos
  <2>2. resumed \in Event /\ resumed.kind = "RunResumed" /\ resumed.intent = i
    BY <1>3 DEF E, Event, Kinds, Infos
  <2> HIDE DEF resolved, resumed
  <2>3. /\ evs(outcome) \in Seq(Event) /\ Len(evs(outcome)) = 2
        /\ evs(outcome)[1] = resolved(outcome) /\ evs(outcome)[2] = resumed
    BY <2>1, <2>2
  <2>4. \A n \in 1..2 : n = 1 \/ n = 2
    OBVIOUS
  <2> HIDE DEF evs
  <2>5. Own(r, evs(outcome))
    BY <1>4, <2>1, <2>2, <2>3, <2>4 DEF Own
  <2> QED BY <2>1, <2>3, <2>5
<1> HIDE DEF evs
<1>8. CASE Deny(r, <<>>, i) \/ Deny(r, evs("Denied"), i) \/ Deny(r, evs("Granted"), i)
  BY <1>2, <1>3, <1>4, <1>5, <1>7, <1>8, DenyAuthority
<1>9. ASSUME Write(r, evs("Granted")),
             run' = [run EXCEPT ![r] =
               [@ EXCEPT !.state = "Running", !.pending = NoPending, !.ticket = "none",
                  !.driver = "approve", !.pc = "execute", !.intent = i,
                  !.approval = <<r, run[r].turn>>]]
      PROVE  Authority'
  <2> DEFINE ref == <<r, run[r].turn>>
             rec == [run[r] EXCEPT !.state = "Running", !.pending = NoPending, !.ticket = "none",
                       !.driver = "approve", !.pc = "execute", !.intent = i, !.approval = ref]
  <2>1. run' = [run EXCEPT ![r] = rec]
    BY <1>9
  <2> HIDE DEF ref
  <2>2. rec.pc = "execute" /\ rec.state = "Running" /\ rec.intent = i
    BY <1>2 DEF RunRecord
  <2> HIDE DEF rec
  <2>3. run'[r] = rec
    BY <2>1 DEF Inv, TypeInv, TypeOK
  <2>4. NotStarted(r, run[r].intent)'
    <3>1. \A j : NotStarted(r, j) => NotStarted(r, j)'
      BY <1>2, <1>7, <1>9, KeptAfterWrite DEF Still
    <3> QED BY <1>4, <2>2, <2>3, <3>1 DEF NotStarted
  <2>5. Decided(r, run[r].intent)'
    <3>1. Extended(r, evs("Granted"))
      BY <1>2, <1>7, <1>9, WriteExtends
    <3>2. Len(log[r]) + 1 \in 1..Len(log'[r]) /\ log'[r][Len(log[r]) + 1] = evs("Granted")[1]
      BY <1>7, <3>1 DEF Extended
    <3>3. \E n \in 1..Len(log'[r]) : log'[r][n].kind = "ApprovalResolved" /\ log'[r][n].intent = i /\ log'[r][n].info \in {"Granted"}
      BY <1>7, <3>2
    <3>4. LoggedWith(r, "ApprovalResolved", run[r].intent, {"Granted"})'
      BY <2>2, <2>3, <3>3 DEF LoggedWith
    <3> QED BY <3>4 DEF Decided
  <2>6. AuthorisedRun(r)'
    BY <2>2, <2>3, <2>4, <2>5 DEF AuthorisedRun
  <2>7. /\ rec.intent \in Intents => Uses(r, rec.intent) \/ Unused(rec.intent)
        /\ \A p \in planned' : p \in planned \/ LoggedWith(r, "ActionPlanned", p.intent, {None})'
        /\ UNCHANGED <<accepted, effects, call>>
    BY <1>2, <1>4, <2>2 DEF Still
  <2> QED BY <1>7, <1>9, <2>1, <2>2, <2>6, <2>7, AuthorityStep
<1> QED BY <1>6, <1>8, <1>9

\* resume_unknown
LEMMA ResumeUnknownAuthority ==
  ASSUME Inv, Authority, NEW r \in Runs, ResumeUnknown(r)
  PROVE  Authority'
<1> DEFINE i == run[r].pending.intent
           evs(o) == <<E("RunResumed", i, "tool"), E(o, i, "owner")>>
<1>1. CanResume(r, "tool") /\ UNCHANGED Other
  BY DEF ResumeUnknown
<1>2. run[r] \in RunRecord /\ RecordOK(run[r]) /\ Still /\ run[r].state = "Suspended" /\ run[r].pending.kind = "tool"
  BY <1>1, Standing DEF CanResume
<1>3. i \in Intents /\ Uses(r, i)
  BY <1>2, HarnessAssumption DEF RecordOK, Authority, OneUser, Uses, HarnessAssumption
<1>4. \E o \in Outcomes : \E status \in Terminals : Finish(r, evs(o), status)
  BY DEF ResumeUnknown, Outcomes, Terminals
<1> HIDE DEF i
<1>5. ASSUME NEW o \in Outcomes PROVE evs(o) \in Seq(Event) /\ Own(r, evs(o))
  <2> DEFINE e == E("RunResumed", i, "tool")
             f == E(o, i, "owner")
  <2>1. e \in Event /\ e.kind = "RunResumed" /\ e.intent = i
    BY <1>3 DEF E, Event, Kinds, Infos
  <2>2. f \in Event /\ f.kind \in Outcomes /\ f.intent = i
    BY <1>3 DEF E, Event, Kinds, Infos
  <2> HIDE DEF e, f
  <2>3. <<e, f>> \in Seq(Event) /\ Len(<<e, f>>) = 2 /\ <<e, f>>[1] = e /\ <<e, f>>[2] = f
    BY <2>1, <2>2
  <2>4. \A n \in 1..2 : n = 1 \/ n = 2
    OBVIOUS
  <2>5. Own(r, <<e, f>>)
    BY <1>3, <2>1, <2>2, <2>3, <2>4 DEF Own, Outcomes
  <2> QED BY <2>3, <2>5 DEF e, f
<1> HIDE DEF evs
<1> QED BY <1>2, <1>4, <1>5, FinishAuthority

\* resume of a handoff
LEMMA ResumeHandoffAuthority ==
  ASSUME Inv, Authority, NEW r \in Runs, ResumeHandoff(r)
  PROVE  Authority'
<1> DEFINE evs == <<E("HandoffResolved", None, None)>>
<1>1. CanResume(r, "handoff") /\ UNCHANGED Other
  BY DEF ResumeHandoff
<1>2. /\ run[r] \in RunRecord /\ RecordOK(run[r]) /\ Still
      /\ run[r].state = "Suspended" /\ run[r].pending.kind = "handoff"
  BY <1>1, Standing DEF CanResume
<1>3. evs \in Seq(Event) /\ Own(r, evs)
  BY OwnOne, HarnessAssumption DEF HarnessAssumption, Kinds, Infos
<1>4. \/ Finish(r, evs, "RunAborted")
      \/ /\ Write(r, evs)
         /\ run' = [run EXCEPT ![r] =
              [NextTurn(@) EXCEPT !.state = "Running", !.pending = NoPending, !.driver = "resume"]]
  BY DEF ResumeHandoff, Ev
<1> HIDE DEF evs
<1>5. CASE Finish(r, evs, "RunAborted")
  BY <1>2, <1>3, <1>5, FinishAuthority DEF Terminals
<1>6. ASSUME Write(r, evs),
             run' = [run EXCEPT ![r] =
               [NextTurn(@) EXCEPT !.state = "Running", !.pending = NoPending, !.driver = "resume"]]
      PROVE  Authority'
  <2> DEFINE next == NextTurn(run[r])
             rec == [next EXCEPT !.state = "Running", !.pending = NoPending, !.driver = "resume"]
  <2>1. run' = [run EXCEPT ![r] = rec]
    BY <1>6
  <2>2. next \in RunRecord /\ next.pc = "loop" /\ next.intent = None
    BY <1>2, NextTurnRecord, HarnessAssumption DEF RecordOK
  <2> HIDE DEF next
  <2>3. rec.pc = "loop" /\ rec.state = "Running" /\ rec.intent = None
    BY <2>2 DEF RunRecord
  <2> HIDE DEF rec
  <2> QED BY <1>2, <1>3, <1>6, <2>1, <2>3, RestAuthority
<1> QED BY <1>4, <1>5, <1>6

\* A step of a client that touches neither logs nor records, and crash-free
\* steps of the scan.
LEMMA CallAuthority ==
  ASSUME Authority, UNCHANGED <<log, run, accepted, planned, effects>>,
         \A c \in Clients : call'[c].pc # "done" => call[c].pc # "done"
  PROVE  Authority'
<1>1. /\ \A s \in Runs : \A i : Uses(s, i)' <=> Uses(s, i)
      /\ \A s \in Runs : \A i : Mentioned(s, i)' <=> Mentioned(s, i)
      /\ \A s \in Runs : \A kinds, i : Logged(s, kinds, i)' <=> Logged(s, kinds, i)
      /\ \A s \in Runs : \A kind, i, infos : LoggedWith(s, kind, i, infos)' <=> LoggedWith(s, kind, i, infos)
  BY DEF Uses, Mentioned, Logged, LoggedWith
<1>2. OneUser'
  <2>1. \A s, t \in Runs : \A i \in Intents : Uses(s, i)' /\ Uses(t, i)' => s = t
    BY <1>1 DEF Authority, OneUser
  <2>2. \A c \in Clients : call'[c].pc # "done" =>
          \A s \in Runs : Request[c].intent # None => ~Uses(s, Request[c].intent)'
    BY <1>1 DEF Authority, OneUser
  <2>3. \A s \in Runs : run'[s].state = "Suspended" /\ run'[s].pending.intent # None => Mentioned(s, run[s].pending.intent)'
    BY <1>1 DEF Authority, OneUser, Mentioned
  <2>4. \A p \in planned' : \E s \in Runs : LoggedWith(s, "ActionPlanned", p.intent, {None})'
    BY <1>1 DEF Authority, OneUser
  <2> QED BY <2>1, <2>2, <2>3, <2>4 DEF OneUser
<1>3. Effects'
  BY <1>1 DEF Authority, Effects
<1>4. ASSUME NEW s \in Runs PROVE AuthorisedStarts(s)' /\ AuthorisedRun(s)'
  <2>1. UntrustedRun(s)' <=> UntrustedRun(s)
    BY DEF UntrustedRun
  <2> QED BY <2>1, OtherAuthority DEF Authority
<1> QED BY <1>2, <1>3, <1>4 DEF Authority

\* prepare_ingress_internal_as consults the in-memory map.
LEMMA SubmitLookupAuthority ==
  ASSUME Inv, Authority, NEW c \in Clients, SubmitLookup(c)
  PROVE  Authority'
<1>1. UNCHANGED <<log, run, accepted, planned, effects>>
  BY DEF SubmitLookup, storeVars
<1>2. \A d \in Clients : call'[d].pc # "done" => call[d].pc # "done"
  BY DEF SubmitLookup, Inv, TypeInv
<1> QED BY <1>1, <1>2, CallAuthority

\* The acceptance is the first event of a run that nobody knows.
LEMMA SubmitAcceptAuthority ==
  ASSUME Inv, Authority, NEW c \in Clients, SubmitAccept(c)
  PROVE  Authority'
<1> DEFINE k == Request[c].key
           e == E("RunAccepted", None, k)
           evs == <<e>>
<1>1. /\ UNCHANGED <<planned, effects, run>> /\ call[c].pc = "miss"
      /\ \A d \in Clients : call'[d].pc # "done" => call[d].pc # "done"
  BY DEF SubmitAccept, Inv, TypeInv
<1>2. /\ CallsOK /\ \A s \in Runs : RunInv(s)
      /\ log \in [Runs -> Seq(Event)] /\ accepted \in [Keys -> Requests \cup {None}]
      /\ nextRun \in Nat \ {0}
  BY DEF Inv, TypeInv
<1>3. k \in Keys /\ Request[c] \in Requests /\ Request[c] # None /\ None \notin Requests
  BY RequestFacts DEF Requests
<1>4. CASE UNCHANGED <<log, accepted>>
  BY <1>1, <1>4, CallAuthority
<1>5. ASSUME DrawRun, accepted[k] = None, accepted' = [accepted EXCEPT ![k] = Request[c]], Write(nextRun, evs)
      PROVE  Authority'
  <2> PICK r \in Runs : r = nextRun
    BY <1>2, <1>5, HarnessAssumption DEF DrawRun, Runs, HarnessAssumption
  <2>1. log[r] = <<>> /\ ~Registered(r) /\ run[r] = Unregistered
    BY <1>2 DEF CallsOK, RunInv, RecordOK, Registered
  <2>2. e \in Event /\ e.kind = "RunAccepted" /\ e.intent = None /\ e.info = k
    BY <1>3 DEF E, Event, Kinds, Infos
  <2> HIDE DEF e
  <2>3. evs \in Seq(Event) /\ Len(evs) = 1 /\ evs[1] = e
    BY <2>2, OneEvent
  <2>4. Extended(r, evs)
    BY <1>2, <1>5, <2>3, WriteExtends
  <2> HIDE DEF evs
  <2>5. /\ Len(log'[r]) = 1 /\ log'[r][1] = e /\ Len(log[r]) = 0
        /\ \A n \in 1..Len(log'[r]) : log'[r][n] = e
        /\ \A s \in Runs : s # r => log'[s] = log[s]
    <3>1. Len(log[r]) = 0
      BY <2>1
    <3>2. Len(log'[r]) = 1 /\ log'[r][1] = e
      BY <2>3, <2>4, <3>1 DEF Extended
    <3> QED BY <2>4, <3>1, <3>2, \A n \in 1..1 : n = 1 DEF Extended
  <2>6. \A j \in Keys : accepted[j] \in Requests => accepted'[j] = accepted[j]
    BY <1>2, <1>3, <1>5
  <2>7. /\ \A i \in Intents : ~Mentioned(r, i) /\ ~Mentioned(r, i)'
        /\ \A kind, i, infos : ~LoggedWith(r, kind, i, infos)
        /\ \A i : ~Logged(r, {"ActionStarted"}, i) /\ ~Logged(r, {"ActionStarted"}, i)'
        /\ Starts(r)' = {}
    <3>1. None \notin Intents
      BY HarnessAssumption DEF HarnessAssumption
    <3> QED BY <2>2, <2>5, <3>1 DEF Mentioned, LoggedWith, Logged, Starts
  <2>8. OneUser'
    <3>1. \A i \in Intents : Uses(r, i)' => Uses(r, i) \/ Unused(i)
      BY <1>1, <2>7 DEF Uses
    <3>2. run'[r].state = "Suspended" /\ run'[r].pending.intent # None => Mentioned(r, run[r].pending.intent)'
      BY <1>1, <2>1, UnregisteredRecord
    <3>3. \A p \in planned' : p \in planned \/ LoggedWith(r, "ActionPlanned", p.intent, {None})'
      BY <1>1
    <3>4. \A i : LoggedWith(r, "ActionPlanned", i, {None}) => LoggedWith(r, "ActionPlanned", i, {None})'
      BY <2>7
    <3>5. OneUser /\ \A s \in Runs : s # r => run'[s] = run[s] /\ log'[s] = log[s]
      BY <1>1, <2>5 DEF Authority
    <3> QED BY <1>1, <3>1, <3>2, <3>3, <3>4, <3>5, OneUserStep
  <2>9. Effects'
    <3>1. ASSUME NEW i \in Intents, effects[i] # 0 PROVE \E s \in Runs : Logged(s, {"ActionStarted"}, i)'
      <4>1. PICK s \in Runs : Logged(s, {"ActionStarted"}, i)
        BY <3>1 DEF Authority, Effects
      <4>2. s # r
        BY <2>7, <4>1
      <4> QED BY <2>5, <4>1, <4>2 DEF Logged
    <3> QED BY <1>1, <3>1 DEF Authority, Effects
  <2>10. ASSUME NEW s \in Runs, s # r PROVE AuthorisedStarts(s)' /\ AuthorisedRun(s)'
    <3>1. ASSUME Len(log[s]) > 0, log[s][1].kind = "RunAccepted"
          PROVE  accepted'[log[s][1].info] = accepted[log[s][1].info]
      <4>1. 1 \in 1..Len(log[s])
        BY <3>1
      <4> QED BY <1>2, <2>6, <4>1, <3>1 DEF RunInv, LogOK
    <3>2. UntrustedRun(s)' <=> UntrustedRun(s)
      BY <2>5, <2>10, <3>1 DEF UntrustedRun
    <3> QED BY <1>1, <2>5, <2>10, <3>2, OtherAuthority DEF Authority
  <2>11. AuthorisedStarts(r)' /\ AuthorisedRun(r)'
    <3>1. run'[r].pc = "idle" /\ run'[r].state = "None"
      BY <1>1, <2>1, UnregisteredRecord
    <3> QED BY <2>7, <3>1 DEF AuthorisedStarts, AuthorisedRun
  <2> QED BY <2>8, <2>9, <2>10, <2>11 DEF Authority
<1> QED BY <1>4, <1>5 DEF SubmitAccept

\* The run enters the maps: nobody else has the intent of a direct action.
LEMMA SubmitRegisterAuthority ==
  ASSUME Inv, Authority, IntentsAreFresh, NEW c \in Clients, SubmitRegister(c)
  PROVE  Authority'
<1> DEFINE req == Request[c]
           rec == [Unregistered EXCEPT !.state = "Accepted", !.session = req.session,
                     !.untrusted = req.untrusted, !.mode = req.mode, !.intent = req.intent,
                     !.budget = MaxActions, !.driver = "submit", !.pc = "queued"]
<1>1. CallOK(c) /\ call[c].pc = "accepted" /\ call \in [Clients -> [pc: {"start", "miss", "accepted", "done"}, run: Runs \cup {None}]]
  BY DEF SubmitRegister, Inv, CallsOK, TypeInv
<1> PICK r \in Runs : r = call[c].run
  BY <1>1 DEF CallOK
<1>2. /\ UNCHANGED <<log, accepted, planned, effects>>
      /\ run' = [run EXCEPT ![r] = rec]
      /\ call' = [call EXCEPT ![c].pc = "done"]
  BY DEF SubmitRegister, storeVars
<1>3. rec.state = "Accepted" /\ rec.pc = "queued" /\ rec.intent = req.intent
  BY DEF Unregistered
<1> HIDE DEF rec
<1>4. <<>> \in Seq(Event) /\ Own(r, <<>>) /\ Write(r, <<>>)
  BY <1>2, OwnNothing, WriteNothing
<1>5. \A d \in Clients : call'[d].pc # "done" => d # c /\ call[d].pc # "done"
  BY <1>1, <1>2
<1>6. ASSUME rec.intent \in Intents PROVE Unused(rec.intent)
  <2>1. rec.intent # None
    BY <1>6, HarnessAssumption DEF HarnessAssumption
  <2>2. \A s \in Runs : ~Uses(s, rec.intent)
    BY <1>1, <1>3, <2>1 DEF Authority, OneUser
  <2>3. \A d \in Clients : call'[d].pc # "done" => Request[d].intent # rec.intent
    BY <1>3, <1>5, <2>1 DEF IntentsAreFresh
  <2> QED BY <2>2, <2>3 DEF Unused
<1>7. AuthorisedRun(r)'
  <2>1. run'[r] = rec
    BY <1>2 DEF Inv, TypeInv, TypeOK
  <2>2. ASSUME rec.intent # None PROVE NotStarted(r, rec.intent)
    <3>1. ~Uses(r, rec.intent)
      BY <1>1, <1>3, <2>2 DEF Authority, OneUser
    <3> QED BY <3>1 DEF Uses, Mentioned, NotStarted, Logged
  <2>3. \A i : NotStarted(r, i)' <=> NotStarted(r, i)
    BY <1>2 DEF NotStarted, Logged
  <2>4. run'[r].intent # None => NotStarted(r, run[r].intent)'
    BY <2>1, <2>2, <2>3 DEF NotStarted
  <2> QED BY <1>3, <2>1, <2>4 DEF AuthorisedRun
<1>8. /\ UNCHANGED <<accepted, effects>>
      /\ \A p \in planned' : p \in planned \/ LoggedWith(r, "ActionPlanned", p.intent, {None})'
  BY <1>2
<1>9. rec.state # "Suspended" /\ \A d \in Clients : call'[d].pc # "done" => call[d].pc # "done"
  BY <1>3, <1>5
<1> QED BY <1>2, <1>4, <1>6, <1>7, <1>8, <1>9, AuthorityStep

\* Everything in memory is gone: what the log knows stays.
LEMMA CrashAuthority ==
  ASSUME Authority, Crash
  PROVE  Authority'
<1>1. /\ UNCHANGED <<log, accepted, planned, effects>>
      /\ \A s \in Runs : run'[s] = Unregistered
      /\ \A c \in Clients : call'[c].pc # "done" => call[c].pc # "done"
  BY DEF Crash, storeVars
<1>2. \A s \in Runs : run'[s].state = "None" /\ run'[s].pc = "idle" /\ run'[s].intent = None
  BY <1>1, UnregisteredRecord
<1>3. None \notin Intents /\ \A c \in Clients : Request[c].intent # None => Request[c].intent \in Intents
  BY HarnessAssumption DEF HarnessAssumption
<1>4. /\ \A s \in Runs : \A i \in Intents : Uses(s, i)' => Uses(s, i)
      /\ \A s \in Runs : \A kinds, i : Logged(s, kinds, i)' <=> Logged(s, kinds, i)
      /\ \A s \in Runs : \A kind, i, infos : LoggedWith(s, kind, i, infos)' <=> LoggedWith(s, kind, i, infos)
      /\ \A s \in Runs : \A n, kind, infos : LoggedBefore(s, n, kind, infos)' <=> LoggedBefore(s, n, kind, infos)
      /\ \A s \in Runs : Starts(s)' = Starts(s) /\ (UntrustedRun(s)' <=> UntrustedRun(s))
  BY <1>1, <1>2, <1>3 DEF Uses, Mentioned, Logged, LoggedWith, LoggedBefore, Starts, UntrustedRun
<1>5. OneUser'
  <2>1. \A s, t \in Runs : \A i \in Intents : Uses(s, i)' /\ Uses(t, i)' => s = t
    BY <1>4 DEF Authority, OneUser
  <2>2. \A c \in Clients : call'[c].pc # "done" =>
          \A s \in Runs : Request[c].intent # None => ~Uses(s, Request[c].intent)'
    BY <1>1, <1>3, <1>4 DEF Authority, OneUser
  <2>3. \A p \in planned' : \E s \in Runs : LoggedWith(s, "ActionPlanned", p.intent, {None})'
    BY <1>1, <1>4 DEF Authority, OneUser
  <2> QED BY <1>2, <2>1, <2>2, <2>3 DEF OneUser
<1>6. Effects'
  BY <1>1, <1>4 DEF Authority, Effects
<1>7. ASSUME NEW s \in Runs PROVE AuthorisedStarts(s)' /\ AuthorisedRun(s)'
  <2>1. ASSUME NEW n \in Starts(s) PROVE StartOK(s, n)'
    BY <1>1, <1>4 DEF Authority, AuthorisedStarts, StartOK
  <2>2. AuthorisedStarts(s)'
    BY <1>4, <2>1 DEF AuthorisedStarts
  <2> QED BY <1>2, <2>2 DEF AuthorisedRun
<1> QED BY <1>5, <1>6, <1>7 DEF Authority

\* The recovery scan suspends a run on an action that its log knows.
LEMMA RecoverUnknownAuthority ==
  ASSUME Inv, Authority, NEW r \in Runs, RecoverUnknown(r)
  PROVE  Authority'
<1>1. Still /\ log \in [Runs -> Seq(Event)]
  BY Standing DEF RecoverUnknown
<1>2. PICK i \in Dangling(r) :
        /\ \/ log' = log
           \/ Write(r, <<E("ActionOutcomeUnknown", i, None), E("RunWaiting", i, "tool")>>)
        /\ run' = [run EXCEPT ![r] = Recovered(r, i)]
  BY DEF RecoverUnknown
<1> DEFINE rec == Recovered(r, i)
           evs == <<E("ActionOutcomeUnknown", i, None), E("RunWaiting", i, "tool")>>
<1>3. i \in Intents /\ Mentioned(r, i) /\ Uses(r, i)
  BY DEF Dangling, Logged, Mentioned, Uses
<1>4. /\ rec.state = "Suspended" /\ rec.pc = "idle" /\ rec.intent = None
      /\ rec.pending.kind = "tool" /\ rec.pending.intent = i
  BY DEF Recovered, Unregistered
<1> HIDE DEF rec
<1>5. evs \in Seq(Event) /\ Own(r, evs)
  <2> DEFINE e == E("ActionOutcomeUnknown", i, None)
             f == E("RunWaiting", i, "tool")
  <2>1. e \in Event /\ e.kind = "ActionOutcomeUnknown" /\ e.intent = i
    BY <1>3 DEF E, Event, Kinds, Infos
  <2>2. f \in Event /\ f.kind = "RunWaiting" /\ f.intent = i
    BY <1>3 DEF E, Event, Kinds, Infos
  <2> HIDE DEF e, f
  <2>3. <<e, f>> \in Seq(Event) /\ Len(<<e, f>>) = 2 /\ <<e, f>>[1] = e /\ <<e, f>>[2] = f
    BY <2>1, <2>2
  <2>4. \A n \in 1..2 : n = 1 \/ n = 2
    OBVIOUS
  <2>5. Own(r, <<e, f>>)
    BY <1>3, <2>1, <2>2, <2>3, <2>4 DEF Own
  <2> QED BY <2>3, <2>5 DEF e, f
<1> PICK new \in {<<>>, evs} : Write(r, new)
  BY <1>2, WriteNothing
<1> HIDE DEF evs
<1>6. new \in Seq(Event) /\ Own(r, new)
  BY <1>5, OwnNothing
<1>7. Mentioned(r, run[r].pending.intent)'
  <2>1. Mentioned(r, i)'
    BY <1>1, <1>3, <1>6, KeptAfterWrite DEF Still
  <2>2. run'[r].pending.intent = i
    BY <1>2, <1>4 DEF rec, Inv, TypeInv, TypeOK
  <2> QED BY <2>1, <2>2 DEF Mentioned
<1>8. run' = [run EXCEPT ![r] = rec]
  BY <1>2 DEF rec
<1> QED BY <1>1, <1>4, <1>6, <1>7, <1>8, RestAuthority

\* Nothing has been asked for.
LEMMA InitAuthority == Init => Authority
<1> SUFFICES ASSUME Init PROVE Authority
  OBVIOUS
<1>1. \A s \in Runs : log[s] = <<>> /\ Len(log[s]) = 0 /\ run[s] = Unregistered
  BY DEF Init
<1>2. \A s \in Runs : run[s].state = "None" /\ run[s].pc = "idle" /\ run[s].intent = None
  BY <1>1, UnregisteredRecord
<1>3. planned = {} /\ \A i \in Intents : effects[i] = 0
  BY DEF Init
<1>4. \A s \in Runs : \A i : ~Mentioned(s, i)
  BY <1>1 DEF Mentioned
<1>5. \A s \in Runs : Starts(s) = {}
  BY <1>1 DEF Starts
<1>6. None \notin Intents
  BY HarnessAssumption DEF HarnessAssumption
<1>7. OneUser
  BY <1>2, <1>3, <1>4, <1>6 DEF OneUser, Uses
<1> QED BY <1>2, <1>3, <1>5, <1>7 DEF Authority, Effects, AuthorisedStarts, AuthorisedRun

\* Every step preserves it.
LEMMA NextAuthority ==
  ASSUME Inv, Authority, IntentsAreFresh, [Next]_vars
  PROVE  Authority'
<1>1. ASSUME NEW c \in Clients, Submit(c) PROVE Authority'
  BY <1>1, SubmitLookupAuthority, SubmitAcceptAuthority, SubmitRegisterAuthority DEF Submit
<1>2. ASSUME NEW r \in Runs, Drive(r) PROVE Authority'
  BY <1>2, BindAuthority, LoopEndAuthority, LoopToolAuthority, LoopHandoffAuthority, ToolPolicyAuthority,
     PlanActionAuthority, OutcomeAuthority, StartActionAuthority, PerformEffectAuthority,
     AfterActionAuthority DEF Drive
<1>3. ASSUME NEW r \in Runs, ResumeApproval(r) \/ ResumeUnknown(r) \/ ResumeHandoff(r) PROVE Authority'
  BY <1>3, ResumeApprovalAuthority, ResumeUnknownAuthority, ResumeHandoffAuthority
<1>4. ASSUME NEW r \in Runs, ApprovalExpires(r) \/ CancelSignal(r) \/ CancelTry(r) PROVE Authority'
  BY <1>4, FlagAuthority, CancelTryAuthority
<1>5. CASE Crash
  BY <1>5, CrashAuthority
<1>6. CASE Recovery
  <2>1. CASE BootDone
    BY <2>1, CallAuthority DEF BootDone, storeVars
  <2> QED BY <1>6, <2>1, RecoverUnknownAuthority DEF Recovery
<1>7. CASE UNCHANGED vars
  BY <1>7, CallAuthority DEF vars
<1> QED BY <1>1, <1>2, <1>3, <1>4, <1>5, <1>6, <1>7 DEF Next

\* The authority of starts is what StartsAreAuthorised says, of the request
\* that the first event names.
LEMMA AuthorityIsSound ==
  ASSUME Inv, Authority
  PROVE  StartsAreAuthorised /\ EffectAtMostOnce
<1>1. ASSUME NEW r \in Runs, Logged(r, {"RunAccepted"}, None), AcceptedRequest(r).untrusted
      PROVE  UntrustedRun(r)
  BY <1>1, AcceptedIsFirst DEF UntrustedRun
<1>2. ASSUME NEW r \in Runs, NEW n \in 1..Len(log[r]), log[r][n].kind = "ActionStarted"
      PROVE  StartOK(r, n)
  BY <1>2 DEF Authority, AuthorisedStarts, Starts
<1>3. StartsAreAuthorised
  BY <1>1, <1>2 DEF StartsAreAuthorised, StartOK, LoggedBefore
<1>4. EffectAtMostOnce
  BY DEF Authority, Effects, EffectAtMostOnce
<1> QED BY <1>3, <1>4

\* execute_action, canonical contract 7: when intent ids are fresh, every
\* start is preceded by its plan, its decision and the approval that decision
\* asks for, no action has a second effect, and no run outspends its budget,
\* whatever is resumed, expires, is cancelled, crashes or is recovered.
THEOREM ActionsStaySound == IntentsAreFresh => (Spec => []ActionsAreSound)
<1> SUFFICES ASSUME IntentsAreFresh PROVE Spec => []ActionsAreSound
  OBVIOUS
<1>1. Inv /\ Authority /\ [Next]_vars => Authority'
  BY NextAuthority
<1>2. Inv /\ Authority => StartsAreAuthorised /\ EffectAtMostOnce
  BY AuthorityIsSound
<1>3. TypeOK /\ ActionsWithinBudget /\ StartsAreAuthorised /\ EffectAtMostOnce => ActionsAreSound
  BY DEF ActionsAreSound
<1> QED BY <1>1, <1>2, <1>3, InitAuthority, InvHolds, BudgetIsKept, PTL DEF Spec
=============================================================================
