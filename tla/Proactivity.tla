------------------------------ MODULE Proactivity ------------------------------
(* The proactivity engine: ticks that turn due commitments and observations     *)
(* into impulses, the ledger that rations interruptions, and the owner's answer *)
(* to a proposal (reject, defer), with the process restarting anywhere.         *)
EXTENDS Integers, Sequences, FiniteSets, SequencesExt

CONSTANTS Origins,        \* origins of observations
          Commitments,    \* intentions that are due
          Window, MaxInterrupts, QuietUntil, \* the interrupt budget; quiet hours are 0 .. QuietUntil - 1
          Capacity,       \* impulses one tick returns
          DeferTimes,     \* times a proposal may be deferred to
          MaxProactiveNow, MaxEmitted        \* bounds on the clock and on the emissions

\* Proposal numbers name deferrals; the keys of observations, of commitments and of deferrals
\* have prefixes of their own (Impulse::origin_key).
ASSUME ProactivityAssumption ==
  /\ IsFiniteSet(Commitments)
  /\ Window \in Int /\ MaxInterrupts \in Nat /\ Capacity \in Nat /\ MaxEmitted \in Nat
  /\ Origins \cap Commitments = {} /\ (Origins \cup Commitments) \cap (0..MaxEmitted) = {}

VARIABLES pNow, interruptions,  \* the ledger, oldest first
          commitment,           \* commitment -> its state in the log
          impulses,             \* what the tick under way still has to emit
          suppressed, sequence, \* rejected origins, next proposal number: both in memory
          deferred,             \* deferral id -> the intention in the log
          accepted,             \* deferrals that were answered with success (history)
          emitted               \* proposals (history)

proactivityVars == <<pNow, interruptions, commitment, impulses, suppressed, sequence, deferred, accepted, emitted>>

\* Entries at the front of the ledger that have left the window are popped.
Behind(ledger, now) == {k \in DOMAIN ledger : \A j \in 1..k : ledger[j] + Window <= now}
Popped(ledger, n) == SubSeq(ledger, n + 1, Len(ledger))
\* Fault: the window closes one tick early.
ExpiredEarly(ledger, now) == Popped(ledger, Cardinality(Behind(ledger, now + 1)))
Expired(ledger, now) == Popped(ledger, Cardinality(Behind(ledger, now)))

\* delivery, of an observation that asks to interrupt.
Delivery(urgent, now) ==
  IF now < QuietUntil /\ ~urgent THEN [mode |-> "hitchhike", ledger |-> interruptions]
  ELSE LET left == Expired(interruptions, now) IN
       IF Len(left) >= MaxInterrupts THEN [mode |-> "digest", ledger |-> left]
       ELSE [mode |-> "interrupt", ledger |-> Append(left, now)]

\* Of an impulse that does not interrupt, the time is of no interest.
Impulse(o, mode) == [origin |-> o, shown |-> IF mode = "interrupt" THEN pNow ELSE -1]

\* A tick starts on one observation: its delivery is settled before its suppression is looked at.
ObserveTick(o, urgent) ==
  /\ impulses = <<>>
  /\ LET d == Delivery(urgent, pNow) IN
     /\ interruptions' = d.ledger
     /\ impulses' = IF o \in suppressed THEN <<>> ELSE <<Impulse(o, d.mode)>>
  /\ UNCHANGED <<pNow, commitment, suppressed, sequence, deferred, accepted, emitted>>

\* What claim_due finds: commitments, and deferred proposals whose time has come.
DueIntentions == {c \in Commitments : commitment[c] = "pending"}
                 \cup {id \in DOMAIN deferred : deferred[id].state = "pending" /\ deferred[id].at <= pNow}
\* Their impulses, in the order of their keys; what exceeds the capacity is dropped.
Raise(due) == SetToSeqs({Impulse(c, "hitchhike") : c \in due})
Truncated(all) == SubSeq(all, 1, IF Len(all) < Capacity THEN Len(all) ELSE Capacity)

\* Fault: a commitment is settled when it is emitted.
TickCommitmentsLate ==
  /\ impulses = <<>> /\ DueIntentions # {}
  /\ \E all \in Raise(DueIntentions) : impulses' = Truncated(all)
  /\ UNCHANGED <<pNow, interruptions, commitment, suppressed, sequence, deferred, accepted, emitted>>
\* A tick claims what is due and settles it before it is raised; a deferral returns under its own name.
TickCommitments ==
  LET due == DueIntentions IN
  /\ impulses = <<>> /\ due # {}
  /\ commitment' = [c \in Commitments |-> IF c \in due THEN "done" ELSE commitment[c]]
  /\ deferred' = [id \in DOMAIN deferred |-> [deferred[id] EXCEPT !.state = IF id \in due THEN "done" ELSE @]]
  /\ accepted' = {a \in accepted : a.id \notin due}
  /\ \E all \in Raise(due) : impulses' = Truncated(all)
  /\ UNCHANGED <<pNow, interruptions, suppressed, sequence, emitted>>

\* emit: past the value gate, a proposal under the next number of this process.
Emit ==
  /\ impulses # <<>> /\ Len(emitted) < MaxEmitted
  /\ emitted' = Append(emitted, [impulse |-> Head(impulses), ref |-> sequence])
  /\ impulses' = Tail(impulses) /\ sequence' = sequence + 1
  /\ UNCHANGED <<pNow, interruptions, commitment, suppressed, deferred, accepted>>
NotWorth ==
  /\ impulses # <<>> /\ Head(impulses).origin \in Origins /\ impulses' = Tail(impulses)
  /\ UNCHANGED <<pNow, interruptions, commitment, suppressed, sequence, deferred, accepted, emitted>>

Reject(i) ==
  /\ suppressed' = suppressed \cup {emitted[i].impulse.origin}
  /\ UNCHANGED <<pNow, interruptions, commitment, impulses, sequence, deferred, accepted, emitted>>

\* Fault: an intention under the deferral's id is taken for the deferral, whatever became of it.
DeferToExisting(i, at) ==
  LET id == emitted[i].ref
      wanted == [origin |-> emitted[i].impulse.origin, at |-> at, state |-> "pending"] IN
  /\ at > pNow
  /\ IF deferred[id].state = "none" THEN deferred' = [deferred EXCEPT ![id] = wanted] ELSE UNCHANGED deferred
  /\ accepted' = {a \in accepted : a.id # id} \cup {[id |-> id, origin |-> wanted.origin, at |-> at]}
  /\ UNCHANGED <<pNow, interruptions, commitment, impulses, suppressed, sequence, emitted>>
\* Deferring records an intention named after the proposal; the names of an earlier process
\* return after a restart, and create accepts only an intention equal to the one recorded.
DeferProposal(i, at) ==
  LET id == emitted[i].ref
      wanted == [origin |-> emitted[i].impulse.origin, at |-> at, state |-> "pending"] IN
  /\ at > pNow
  /\ deferred[id] = wanted \/ deferred[id].state = "none"
  /\ deferred' = [deferred EXCEPT ![id] = wanted]
  /\ accepted' = {a \in accepted : a.id # id} \cup {[id |-> id, origin |-> wanted.origin, at |-> at]}
  /\ UNCHANGED <<pNow, interruptions, commitment, impulses, suppressed, sequence, emitted>>

EngineRestarts ==
  /\ interruptions' = <<>> /\ impulses' = <<>> /\ suppressed' = {} /\ sequence' = 1
  /\ emitted' = [i \in DOMAIN emitted |-> [emitted[i] EXCEPT !.impulse.shown = -1]]
  /\ UNCHANGED <<pNow, commitment, deferred, accepted>>

Later ==
  /\ pNow < MaxProactiveNow /\ pNow' = pNow + 1
  /\ UNCHANGED <<interruptions, commitment, impulses, suppressed, sequence, deferred, accepted, emitted>>

ProactivityInit ==
  /\ pNow = 0 /\ interruptions = <<>> /\ impulses = <<>> /\ suppressed = {} /\ sequence = 1
  /\ commitment = [c \in Commitments |-> "pending"] /\ accepted = {} /\ emitted = <<>>
  /\ deferred = [id \in 1..MaxEmitted |-> [origin |-> 0, at |-> 0, state |-> "none"]]

ProactivityNext ==
  \/ \E o \in Origins, urgent \in BOOLEAN : ObserveTick(o, urgent)
  \/ TickCommitments \/ Emit \/ NotWorth \/ EngineRestarts \/ Later
  \/ \E i \in DOMAIN emitted : Reject(i) \/ \E at \in DeferTimes : DeferProposal(i, at)

--------------------------------------------------------------------------------
\* While one process runs, the owner is interrupted at most MaxInterrupts times in any window,
\* however ticks, delays and rejections fall.
InterruptionsRationed ==
  LET shown == {i \in DOMAIN emitted : emitted[i].impulse.shown >= 0} IN
  \A i \in shown : Cardinality({j \in shown : emitted[j].impulse.shown \in
                        emitted[i].impulse.shown .. emitted[i].impulse.shown + Window - 1}) <= MaxInterrupts

\* A commitment is raised at most once, and a deferred proposal returns at most once, whatever
\* ticks and restarts do.
RaisedOnce ==
  \A c \in Commitments \cup DOMAIN deferred :
    Cardinality({i \in DOMAIN emitted : emitted[i].impulse.origin = c}) <= 1

\* A deferral the owner was told is accepted is waiting in the log, for its origin and its time,
\* until it returns, although its name may be that of an earlier process's proposal.
DeferralIsKept ==
  \A a \in accepted : deferred[a.id] = [origin |-> a.origin, at |-> a.at, state |-> "pending"]

\* What proactivity promises its owner (AttentionLedger, M0ProactivityEngine).
ProactivityIsSound == InterruptionsRationed /\ RaisedOnce /\ DeferralIsKept
================================================================================
