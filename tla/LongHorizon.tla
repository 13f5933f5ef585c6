----------------------------- MODULE LongHorizon -----------------------------
(***************************************************************************)
(* Long-horizon projects (M3-B): a project is a structure in its caller's  *)
(* memory, advanced one checkpoint at a time.  Each advance submits a      *)
(* scheduled run under an idempotency key, lets it frame the goal, execute *)
(* the project's route and record the checkpoint, and may then submit one  *)
(* outward action.  The run, the outward run and the structure are updated *)
(* in turn, and any of these steps may fail.                               *)
(***************************************************************************)
EXTENDS Naturals, Sequences, FiniteSets, SequencesExt

CONSTANTS ScheduleKeys,        \* idempotency keys of checkpoint requests
          MaximumCheckpoints

ASSUME LongHorizonAssumption == MaximumCheckpoints \in Nat

VARIABLES project,   \* the caller's LongHorizonProject
          step,      \* how far an advance under way has come
          keyRuns,   \* key -> status of the run it was accepted for
          marks,     \* checkpoint events of the log: [key, index]
          outward,   \* keys whose checkpoint was followed by an outward run
          lost       \* BOUND: projects lost with their caller, at most one

longHorizonVars == <<project, step, keyRuns, marks, outward, lost>>

NewProject == [remaining |-> MaximumCheckpoints, next |-> 0, deferred |-> FALSE,
               cancelled |-> FALSE, revoked |-> FALSE, records |-> <<>>]
AtRest == [at |-> "rest"]

\* Fault: the revocation is not looked at.
MayAdvanceUnrevoked == ~project.cancelled /\ project.remaining > 0 /\ project.next < MaximumCheckpoints
MayAdvance ==
  /\ ~project.cancelled /\ ~project.revoked
  /\ project.remaining > 0 /\ project.next < MaximumCheckpoints

(* The foreground comes first: the advance is deferred, nothing is spent.  *)
Defer ==
  /\ step = AtRest /\ ~project.cancelled /\ ~project.revoked
  /\ project' = [project EXCEPT !.deferred = TRUE]
  /\ UNCHANGED <<step, keyRuns, marks, outward, lost>>

Stop(how) ==
  /\ step = AtRest
  /\ project' = [project EXCEPT ![how] = TRUE]
  /\ UNCHANGED <<step, keyRuns, marks, outward, lost>>

(* prepare_ingress_internal_as: a key that already has a run is an error.  *)
BeginAdvance(key) ==
  /\ step = AtRest /\ MayAdvance
  /\ key \notin DOMAIN keyRuns
  /\ keyRuns' = [k \in DOMAIN keyRuns \cup {key} |-> IF k = key THEN "accepted" ELSE keyRuns[k]]
  /\ step' = [at |-> "accepted", key |-> key]
  /\ UNCHANGED <<project, marks, outward, lost>>

(* The pending checkpoint is attached to the handle of the accepted run,   *)
(* which frames the goal, executes the route and appends the checkpoint.   *)
DriveCheckpoint ==
  /\ step.at = "accepted"
  /\ keyRuns' = [keyRuns EXCEPT ![step.key] = "complete"]
  /\ marks' = marks \cup {[key |-> step.key, index |-> project.next]}
  /\ step' = [at |-> "complete", key |-> step.key]
  /\ UNCHANGED <<project, outward, lost>>

(* A route that does not satisfy its contract is an error of the advance;  *)
(* a run that ends otherwise is a failed checkpoint.                       *)
RouteFails ==
  /\ step.at = "accepted"
  /\ keyRuns' = [keyRuns EXCEPT ![step.key] = "failed"]
  /\ step' = AtRest
  /\ UNCHANGED <<project, marks, outward, lost>>

CheckpointFails(checkpointed) ==
  /\ step.at = "accepted"
  /\ keyRuns' = [keyRuns EXCEPT ![step.key] = "failed"]
  /\ marks' = IF checkpointed THEN marks \cup {[key |-> step.key, index |-> project.next]} ELSE marks
  /\ step' = [at |-> "failed", key |-> step.key]
  /\ UNCHANGED <<project, outward, lost>>

\* Fault: a failed checkpoint may go outward too.
OutwardAnyway == step.at \in {"complete", "failed"}
MayGoOutward == step.at = "complete"

GoOutward ==
  /\ MayGoOutward
  /\ outward' = outward \cup {step.key}
  /\ step' = [at |-> "outward", key |-> step.key]
  /\ UNCHANGED <<project, keyRuns, marks, lost>>

(* The outward submission fails: the error leaves the project as it was,   *)
(* although its checkpoint is complete.                                    *)
OutwardFails ==
  /\ MayGoOutward
  /\ step' = AtRest
  /\ UNCHANGED <<project, keyRuns, marks, outward, lost>>

(* The structure is updated for a completed and for a failed checkpoint.   *)
Record == [index |-> project.next, key |-> step.key, status |-> keyRuns[step.key], outward |-> step.at = "outward"]

\* Fault: the advance is not ended.
FinishTwice ==
  /\ step.at \in {"complete", "failed", "outward"}
  /\ project' = [project EXCEPT !.remaining = @ - 1, !.next = @ + 1, !.deferred = FALSE,
                                !.records = Append(@, Record)]
  /\ UNCHANGED <<step, keyRuns, marks, outward, lost>>
FinishAdvance ==
  /\ step.at \in {"complete", "failed", "outward"}
  /\ project' = [project EXCEPT !.remaining = @ - 1, !.next = @ + 1, !.deferred = FALSE,
                                !.records = Append(@, Record)]
  /\ step' = AtRest
  /\ UNCHANGED <<keyRuns, marks, outward, lost>>

(* The process ends: the structure is not persisted, and a run that was    *)
(* accepted is recovered without its pending checkpoint.                   *)
LoseProject ==
  /\ ~lost /\ lost' = TRUE
  /\ project' = NewProject /\ step' = AtRest
  /\ UNCHANGED <<keyRuns, marks, outward>>

ResumeAccepted(key) ==
  /\ step = AtRest /\ lost
  /\ key \in DOMAIN keyRuns /\ keyRuns[key] = "accepted"
  /\ keyRuns' = [keyRuns EXCEPT ![key] = "complete"]
  /\ UNCHANGED <<project, step, marks, outward, lost>>

LongHorizonInit ==
  /\ project = NewProject /\ step = AtRest /\ keyRuns = <<>>
  /\ marks = {} /\ outward = {} /\ lost = FALSE

LongHorizonNext ==
  \/ Defer \/ Stop("cancelled") \/ Stop("revoked")
  \/ \E key \in ScheduleKeys : BeginAdvance(key) \/ ResumeAccepted(key)
  \/ DriveCheckpoint \/ RouteFails \/ \E c \in BOOLEAN : CheckpointFails(c)
  \/ GoOutward \/ OutwardFails \/ FinishAdvance \/ LoseProject

------------------------------------------------------------------------------
(* The structure counts what it has done: its records are its checkpoints  *)
(* in order, each run by a run of its own, and what remains is what is     *)
(* left of the maximum (LongHorizonProject, advance_long_horizon).         *)
ProjectIsCounted ==
  /\ project.next = Len(project.records)
  /\ project.remaining + project.next = MaximumCheckpoints
  /\ \A i \in 1..Len(project.records) : project.records[i].index = i - 1
  /\ \A i, j \in 1..Len(project.records) :
       project.records[i].key = project.records[j].key => i = j

(* Nothing goes outward on the strength of a checkpoint that is not in the *)
(* log, and what a record claims of its run is so: also when an outward    *)
(* submission failed and its index was run again (advance_long_horizon).   *)
OutwardRestsOnCheckpoint ==
  /\ \A k \in outward : keyRuns[k] = "complete" /\ \E m \in marks : m.key = k
  /\ \A i \in 1..Len(project.records) : LET r == project.records[i] IN
       /\ r.outward => r.key \in outward
       /\ r.status = "complete" => [key |-> r.key, index |-> r.index] \in marks

(* A project that was cancelled or revoked starts no checkpoint run again  *)
(* (advance_long_horizon's first checks).                                  *)
StoppedProjectRests ==
  project.cancelled \/ project.revoked =>
    DOMAIN keyRuns' = DOMAIN keyRuns /\ (lost' = lost => project'.next = project.next)

(* What a long-horizon project promises (advance_long_horizon).            *)
ProjectIsSound == ProjectIsCounted /\ OutwardRestsOnCheckpoint
===============================================================================
