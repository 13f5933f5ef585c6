------------------------------- MODULE Schedule -------------------------------
(* One scheduled reminder: the intention that several live handles of the      *)
(* event-sourced memory fold, lease and settle, and the run that the           *)
(* scheduler of one process drives for it.  A handle folds the log when it is  *)
(* opened and afterwards sees only its own appends; the store refuses a second *)
(* lease of one generation.                                                    *)
EXTENDS Integers, Sequences, SequencesExt

CONSTANTS Handles,    \* live handles on the intention log
          Driver,     \* the handle whose process runs the scheduler
          TriggerAt, TimeboxEnd, ExpiresAt, LeaseTime,
          MaxNow,     \* bound on the clock
          MaxJobLog   \* bound on the intention's events

ASSUME ScheduleAssumption == /\ Driver \in Handles /\ LeaseTime > 0
                             /\ TriggerAt <= TimeboxEnd /\ TimeboxEnd < ExpiresAt

VARIABLES now, jobLog,
          memory,      \* handle -> what it believes of the intention
          seen,        \* handle -> the events it folded or appended (history)
          tick,        \* handle -> the stage of its claim, and its time
          reminder,    \* the run of the intention, as its events tell it
          registered,  \* the driver's process holds the run in memory
          delivered    \* notifications shown (history)

scheduleVars == <<now, jobLog, memory, seen, tick, reminder, registered, delivered>>

Settled == {"done", "expired", "cancelled"}
Unregistered == [state |-> "none", lease |-> 0, gen |-> 0]
Closed == [state |-> "closed", lease |-> 0, gen |-> 0]
Rest == [stage |-> "none", at |-> 0]
Concluded == {"ended", "waiting"}

FoldEvent(m, e) ==
  CASE e.kind = "created" -> [state |-> "pending", lease |-> 0, gen |-> e.id]
    [] e.kind = "lease"   -> [m EXCEPT !.lease = e.until, !.gen = e.id]
    [] e.kind = "fired"   -> [m EXCEPT !.state = "fired", !.gen = e.id]
    [] OTHER              -> [state |-> e.kind, lease |-> 0, gen |-> e.id]

\* What the events that a handle knows make of the intention, in their order.
FoldSeen(log, known) ==
  FoldLeft(LAMBDA m, e : IF e.id \in known THEN FoldEvent(m, e) ELSE m, Unregistered, log)

\* Appends the intention's next event; the handle has seen it.
Append1(h, kind, gen, until) ==
  /\ Len(jobLog) < MaxJobLog
  /\ jobLog' = Append(jobLog, [id |-> Len(jobLog) + 1, kind |-> kind, gen |-> gen, until |-> until, by |-> h])
  /\ seen' = [seen EXCEPT ![h] = @ \cup {Len(jobLog) + 1}]
NextId == Len(jobLog) + 1

CreateSchedule(h) ==
  /\ memory[h] = Unregistered /\ tick[h] = Rest
  /\ Append1(h, "created", 0, 0)
  /\ memory' = [memory EXCEPT ![h] = [state |-> "pending", lease |-> 0, gen |-> NextId]]
  /\ UNCHANGED <<now, tick, reminder, registered, delivered>>

Live(h) == memory[h].state \in {"pending", "fired"}

\* A due scan finds the intention past its expiry.
ClaimExpires(h) ==
  /\ tick[h] = Rest /\ Live(h) /\ ExpiresAt <= now
  /\ Append1(h, "expired", 0, 0)
  /\ memory' = [memory EXCEPT ![h] = [state |-> "expired", lease |-> 0, gen |-> NextId]]
  /\ UNCHANGED <<now, tick, reminder, registered, delivered>>

\* Fault: an append of a lease wins although its generation is leased.
AlwaysWins(gen) == TRUE
\* The store's domain key: one lease per generation of the intention.
LeaseWins(gen) == \A i \in DOMAIN jobLog : jobLog[i].kind = "lease" => jobLog[i].gen # gen

Due(h) == /\ Live(h) /\ now < ExpiresAt
          /\ memory[h].lease <= now
          /\ memory[h].state = "pending" => TriggerAt <= now

ClaimLease(h) ==
  /\ tick[h] = Rest /\ Due(h) /\ LeaseWins(memory[h].gen)
  /\ Append1(h, "lease", memory[h].gen, now + LeaseTime)
  /\ memory' = [memory EXCEPT ![h].lease = now + LeaseTime, ![h].gen = NextId]
  /\ tick' = [tick EXCEPT ![h] = [stage |-> "leased", at |-> now]]
  /\ UNCHANGED <<now, reminder, registered, delivered>>

\* Fault: the live record keeps the lease event as its generation.
FiresWithOldGeneration(h) ==
  /\ tick[h].stage = "leased" /\ Append1(h, "fired", 0, memory[h].lease)
  /\ memory' = [memory EXCEPT ![h].state = "fired"]
  /\ tick' = [tick EXCEPT ![h].stage = "claimed"]
  /\ UNCHANGED <<now, reminder, registered, delivered>>
ClaimFires(h) ==
  /\ tick[h].stage = "leased" /\ Append1(h, "fired", 0, memory[h].lease)
  /\ memory' = [memory EXCEPT ![h].state = "fired", ![h].gen = NextId]
  /\ tick' = [tick EXCEPT ![h].stage = "claimed"]
  /\ UNCHANGED <<now, reminder, registered, delivered>>

\* The second append fails, or a handle that is not the driver's drops its claim.
ClaimDropped(h) ==
  /\ tick[h].stage = "leased" \/ (tick[h].stage = "claimed" /\ h # Driver)
  /\ tick' = [tick EXCEPT ![h] = Rest]
  /\ UNCHANGED <<now, jobLog, memory, seen, reminder, registered, delivered>>

ValidTransition(from, to) ==
  \/ from = "pending" /\ to \in {"fired", "expired", "cancelled"}
  \/ from = "fired"   /\ to \in {"fired"} \cup Settled

\* resolve, under the handle's lock; an invalid transition is an error and changes nothing.
Resolve(h, outcome) ==
  IF memory[h].state # outcome /\ ValidTransition(memory[h].state, outcome)
  THEN /\ Append1(h, outcome, 0, 0)
       /\ memory' = [memory EXCEPT ![h] = [state |-> outcome, lease |-> 0, gen |-> NextId]]
  ELSE UNCHANGED <<jobLog, seen, memory>>

\* A claim is deferred while its session is in the foreground.
Defer ==
  /\ tick[Driver].stage = "claimed"
  /\ tick' = [tick EXCEPT ![Driver] = Rest]
  /\ UNCHANGED <<now, jobLog, memory, seen, reminder, registered, delivered>>

\* validate_schedule_runtime refuses: outside the timebox, or by the governance in force.
Refuse ==
  /\ tick[Driver].stage = "claimed"
  /\ Resolve(Driver, IF tick[Driver].at > TimeboxEnd THEN "expired" ELSE "cancelled")
  /\ tick' = [tick EXCEPT ![Driver] = Rest]
  /\ UNCHANGED <<now, reminder, registered, delivered>>

\* Fault: a run whose delivery is unknown is driven again.
DriveUnknown ==
  /\ tick[Driver].stage = "claimed" /\ tick[Driver].at <= TimeboxEnd
  /\ IF reminder \in {"none", "accepted", "unknown"} /\ ~registered
     THEN reminder' = "accepted" /\ registered' = TRUE /\ tick' = [tick EXCEPT ![Driver].stage = "driving"]
     ELSE tick' = [tick EXCEPT ![Driver].stage = "driven"] /\ UNCHANGED <<reminder, registered>>
  /\ UNCHANGED <<now, jobLog, memory, seen, delivered>>
\* drive_schedule_claim, up to the drive of the run itself.
DriveClaim ==
  /\ tick[Driver].stage = "claimed" /\ tick[Driver].at <= TimeboxEnd
  /\ \/ /\ reminder \in Concluded \cup {"unknown"} \/ (reminder = "accepted" /\ registered)
        /\ tick' = [tick EXCEPT ![Driver].stage = "driven"]
        /\ UNCHANGED <<reminder, registered>>
     \/ /\ reminder \in {"begun", "acting"}      \* requires recovery review
        /\ tick' = [tick EXCEPT ![Driver] = Rest]
        /\ UNCHANGED <<reminder, registered>>
     \/ /\ reminder \in {"none", "accepted"} /\ ~registered
        /\ reminder' = "accepted" /\ registered' = TRUE
        /\ tick' = [tick EXCEPT ![Driver].stage = "driving"]
  /\ UNCHANGED <<now, jobLog, memory, seen, delivered>>

\* An append of the commitment's events fails: accepted, in memory, and not driven.
CommitmentFails ==
  /\ tick[Driver].stage = "driving" /\ reminder = "accepted"
  /\ tick' = [tick EXCEPT ![Driver] = Rest]
  /\ UNCHANGED <<now, jobLog, memory, seen, reminder, registered, delivered>>

\* The drive of the run: it begins its turn, starts the delivery, delivers, and ends or waits.
DriveRun ==
  /\ tick[Driver].stage = "driving"
  /\ \/ reminder = "accepted" /\ reminder' = "begun" /\ UNCHANGED <<tick, delivered>>
     \/ reminder = "begun" /\ reminder' = "acting" /\ UNCHANGED <<tick, delivered>>
     \/ /\ reminder \in {"accepted", "begun"} /\ reminder' \in Concluded
        /\ tick' = [tick EXCEPT ![Driver].stage = "driven"] /\ UNCHANGED delivered
     \/ /\ reminder = "acting" /\ delivered' = delivered + 1 /\ reminder' = "delivered" /\ UNCHANGED tick
     \/ /\ reminder \in {"acting", "delivered"} /\ reminder' = "ended"
        /\ tick' = [tick EXCEPT ![Driver].stage = "driven"] /\ UNCHANGED delivered
  /\ UNCHANGED <<now, jobLog, memory, seen, registered>>

\* Fault: a reminder under manual review counts as handled.
SettleAnyway ==
  /\ tick[Driver].stage = "driven" /\ tick' = [tick EXCEPT ![Driver] = Rest]
  /\ Resolve(Driver, "done")
  /\ UNCHANGED <<now, reminder, registered, delivered>>
\* After the drive: an unknown outcome goes to manual review, an end settles the intention.
SettleClaim ==
  /\ tick[Driver].stage = "driven" /\ tick' = [tick EXCEPT ![Driver] = Rest]
  /\ IF reminder \in Concluded THEN Resolve(Driver, "done") ELSE UNCHANGED <<jobLog, seen, memory>>
  /\ UNCHANGED <<now, reminder, registered, delivered>>

\* The owner cancels, by any handle; a run in memory is cancelled with it.
CancelByOwner(h) ==
  /\ tick[h].stage # "leased" /\ Live(h)
  /\ Resolve(h, "cancelled")
  /\ \/ UNCHANGED reminder
     \/ h = Driver /\ registered /\ tick[h].stage # "driving"
        /\ reminder = "accepted" /\ reminder' = "ended"
  /\ UNCHANGED <<now, tick, registered, delivered>>

\* recover: what ended is settled, without waiting for a claim.
RecoverSchedule ==
  /\ tick[Driver] = Rest /\ reminder \in Concluded /\ memory[Driver].state = "fired"
  /\ Resolve(Driver, "done")
  /\ UNCHANGED <<now, tick, reminder, registered, delivered>>

ScheduleCrash(h) ==
  /\ memory[h] # Closed
  /\ memory' = [memory EXCEPT ![h] = Closed] /\ tick' = [tick EXCEPT ![h] = Rest]
  /\ seen' = [seen EXCEPT ![h] = {}]
  /\ registered' = (registered /\ h # Driver)
  /\ UNCHANGED <<now, jobLog, reminder, delivered>>

\* Opening folds the whole log; the driver's boot finds the delivery that was started.
OpenSchedule(h) ==
  /\ memory[h] = Closed
  /\ memory' = [memory EXCEPT ![h] = FoldSeen(jobLog, DOMAIN jobLog)]
  /\ seen' = [seen EXCEPT ![h] = DOMAIN jobLog]
  /\ reminder' = IF h = Driver /\ reminder \in {"acting", "delivered"} THEN "unknown" ELSE reminder
  /\ UNCHANGED <<now, jobLog, tick, registered, delivered>>

TimePasses ==
  /\ now < MaxNow /\ now' = now + 1
  /\ UNCHANGED <<jobLog, memory, seen, tick, reminder, registered, delivered>>

ScheduleInit ==
  /\ now = 0 /\ jobLog = <<>> /\ reminder = "none" /\ registered = FALSE /\ delivered = 0
  /\ memory = [h \in Handles |-> IF h = Driver THEN Unregistered ELSE Closed]
  /\ seen = [h \in Handles |-> {}] /\ tick = [h \in Handles |-> Rest]

ScheduleNext ==
  \/ \E h \in Handles : \/ CreateSchedule(h) \/ ClaimExpires(h) \/ ClaimLease(h) \/ ClaimFires(h)
                        \/ ClaimDropped(h) \/ CancelByOwner(h) \/ ScheduleCrash(h) \/ OpenSchedule(h)
  \/ Defer \/ Refuse \/ DriveClaim \/ CommitmentFails \/ DriveRun \/ SettleClaim \/ RecoverSchedule
  \/ TimePasses

-------------------------------------------------------------------------------
\* What a handle believes is what opening it again on the events it has seen would give: the
\* live updates of claim and resolve never part from the fold.
HandlesFoldTheLog ==
  \A h \in Handles : memory[h] # Closed => memory[h] = FoldSeen(jobLog, seen[h])

\* However many handles scan at once, one generation of an intention has one winner.
GenerationClaimedOnce ==
  \A i, j \in DOMAIN jobLog :
    (i # j /\ jobLog[i].kind = "lease" /\ jobLog[j].kind = "lease") => jobLog[i].gen # jobLog[j].gen

\* The owner is notified at most once, whatever claims, reclaims, crashes and repeated
\* commands the intention goes through.
NotifiedOnce == delivered <= 1

\* An intention is recorded as done only when its run has ended or waits for the owner, never
\* while a delivery may have happened that nobody has looked at.
DoneIsConcluded == (\E i \in DOMAIN jobLog : jobLog[i].kind = "done") => reminder \in Concluded

\* What the prospective memory and its scheduler promise together (claim_due, resolve,
\* drive_schedule_claim, recover).
ScheduleIsSound == HandlesFoldTheLog /\ GenerationClaimedOnce /\ NotifiedOnce /\ DoneIsConcluded
===============================================================================
