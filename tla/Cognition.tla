------------------------------- MODULE Cognition -------------------------------
(* The governed cognition of the agent: candidates that the owner promotes,     *)
(* rejects and downgrades, the stable objects they become, the lineage between  *)
(* objects, retraction with its re-evaluation of everything derived, the audit  *)
(* of what was not reproduced, and the fold that restores all of it.            *)
EXTENDS Naturals, Sequences, FiniteSets, SequencesExt

CONSTANTS MapObjects,      \* objects of the cognitive map
          ModelObjects,    \* objects of the temporal models (user, self, trust)
          CandidateOf,     \* candidate -> the object it would make stable
          Derivations,     \* the lineage edges that may be recorded
          MaxCognitionLog  \* bound on the aggregate's events

ASSUME CognitionAssumption == /\ MapObjects \cap ModelObjects = {}
                              /\ IsFiniteSet(MapObjects) /\ IsFiniteSet(ModelObjects)
                              /\ \A c \in DOMAIN CandidateOf : CandidateOf[c] \in MapObjects \cup ModelObjects

VARIABLES cogLog,     \* the events of the aggregate run
          cognition,  \* the runtime's state in memory
          candidates, \* the memory's candidate states
          underway    \* a retraction or audit between two of its appends

cognitionVars == <<cogLog, cognition, candidates, underway>>

Objects == MapObjects \cup ModelObjects
Candidates == DOMAIN CandidateOf
NoWork == [task |-> "none"]
Blank == [proposals |-> {}, stable |-> [o \in Objects |-> "none"],
          retracted |-> {}, invalidated |-> {}, lineage |-> {}]

Deactivate(s, os) == [o \in Objects |-> IF o \in os /\ s[o] = "active" THEN "inactive" ELSE s[o]]

\* Fault: recovery does not invalidate what a re-evaluation names.
FoldKeepsDerived(s, e) ==
  CASE e.kind = "proposed"  -> [s EXCEPT !.proposals = @ \cup {e.cand}]
    [] e.kind = "promoted" /\ e.cand \in s.proposals -> [s EXCEPT !.stable[CandidateOf[e.cand]] = "active"]
    [] e.kind = "retracted" -> [s EXCEPT !.retracted = @ \cup {e.obj}, !.stable = Deactivate(@, {e.obj})]
    [] e.kind = "lineage"   -> [s EXCEPT !.lineage = @ \cup {e.edge}]
    [] OTHER                -> s
FoldCognition(s, e) ==
  CASE e.kind = "proposed"  -> [s EXCEPT !.proposals = @ \cup {e.cand}]
    [] e.kind = "promoted" /\ e.cand \in s.proposals -> [s EXCEPT !.stable[CandidateOf[e.cand]] = "active"]
    [] e.kind = "retracted" -> [s EXCEPT !.retracted = @ \cup {e.obj}, !.stable = Deactivate(@, {e.obj})]
    [] e.kind = "reevaluate" -> [s EXCEPT !.invalidated = @ \cup e.derived, !.stable = Deactivate(@, e.derived)]
    [] e.kind = "lineage"   -> [s EXCEPT !.lineage = @ \cup {e.edge}]
    [] OTHER                -> s

\* The memory's fold of the same stream.
FoldCandidate(cs, e) ==
  CASE e.kind = "created" -> [cs EXCEPT ![e.cand] = "candidate"]
    [] e.kind \in {"promoted", "rejected", "downgraded"} /\ cs[e.cand] # "none" -> [cs EXCEPT ![e.cand] = e.kind]
    [] OTHER -> cs

AppendCognition(e) == Len(cogLog) < MaxCognitionLog /\ cogLog' = Append(cogLog, e)

\* Fault: only the objects directly derived are re-evaluated.
DirectlyDerived(lineage, source) == {o \in Objects : <<source, o>> \in lineage}
\* Everything reachable from the source along the lineage.
TransitiveDerived(lineage, source) ==
  LET reach[n \in 0..Cardinality(Objects)] == IF n = 0 THEN {source}
                                              ELSE reach[n-1] \cup {o \in Objects : \E x \in reach[n-1] : <<x, o>> \in lineage}
  IN reach[Cardinality(Objects)] \ {source}

--------------------------------------------------------------------------------
\* propose_update: the proposal's event, then the candidate's; a stop between them leaves a
\* proposal that is never offered again.
ProposeMap(c) ==
  /\ CandidateOf[c] \in MapObjects /\ c \notin cognition.proposals /\ underway = NoWork
  /\ AppendCognition([kind |-> "proposed", cand |-> c])
  /\ underway' = [task |-> "propose", cand |-> c]
  /\ UNCHANGED <<cognition, candidates>>
CreateProposed ==
  /\ underway.task = "propose"
  /\ AppendCognition([kind |-> "created", cand |-> underway.cand])
  /\ candidates' = [candidates EXCEPT ![underway.cand] = "candidate"]
  /\ cognition' = [cognition EXCEPT !.proposals = @ \cup {underway.cand}]
  /\ underway' = NoWork

\* Fault: the candidate is taken up although its event was not appended.
ObserveUnlogged(c) ==
  /\ CandidateOf[c] \in ModelObjects /\ candidates[c] = "none"
  /\ \/ AppendCognition([kind |-> "created", cand |-> c])
     \/ UNCHANGED cogLog
  /\ candidates' = [candidates EXCEPT ![c] = "candidate"]
  /\ UNCHANGED <<cognition, underway>>
\* An observation of a temporal model becomes a candidate.
Observe(c) ==
  /\ CandidateOf[c] \in ModelObjects /\ candidates[c] = "none"
  /\ AppendCognition([kind |-> "created", cand |-> c])
  /\ candidates' = [candidates EXCEPT ![c] = "candidate"]
  /\ UNCHANGED <<cognition, underway>>

ValidCandidateTransition(from, to) ==
  \/ from = "candidate"  /\ to \in {"promoted", "rejected", "downgraded"}
  \/ from = "promoted"   /\ to = "downgraded"
  \/ from = "downgraded" /\ to = "promoted"

\* Fault: the runtime takes the target up before the memory accepts the transition.
GovernFirst(c, to) ==
  /\ candidates[c] # to
  /\ cognition' = [cognition EXCEPT !.stable[CandidateOf[c]] = IF to = "promoted" THEN "active" ELSE @]
  /\ IF ValidCandidateTransition(candidates[c], to)
     THEN /\ AppendCognition([kind |-> to, cand |-> c]) /\ candidates' = [candidates EXCEPT ![c] = to]
     ELSE UNCHANGED <<cogLog, candidates>>
  /\ UNCHANGED underway
\* govern_and_apply: the transition first; only when it stands does the stable set follow.
GovernApply(c, to) ==
  /\ ValidCandidateTransition(candidates[c], to)
  /\ AppendCognition([kind |-> to, cand |-> c])
  /\ candidates' = [candidates EXCEPT ![c] = to]
  /\ cognition' = CASE to = "promoted"   -> [cognition EXCEPT !.stable[CandidateOf[c]] = "active"]
                    [] to = "downgraded" -> [cognition EXCEPT !.stable = Deactivate(@, {CandidateOf[c]})]
                    [] OTHER             -> cognition
  /\ UNCHANGED underway

\* Promoting what is promoted appends nothing, and makes the object active again in memory.
PromoteAgain(c) ==
  /\ candidates[c] = "promoted" /\ cognition.stable[CandidateOf[c]] # "active"
  /\ cognition' = [cognition EXCEPT !.stable[CandidateOf[c]] = "active"]
  /\ UNCHANGED <<cogLog, candidates, underway>>

\* record_lineage appends the edge, and takes it up under the lock afterwards.
RecordLineage(edge) ==
  /\ edge \in Derivations \ cognition.lineage /\ underway = NoWork
  /\ AppendCognition([kind |-> "lineage", edge |-> edge])
  /\ underway' = [task |-> "lineage", edge |-> edge]
  /\ UNCHANGED <<cognition, candidates>>
TakeUpLineage ==
  /\ underway.task = "lineage" /\ underway' = NoWork
  /\ cognition' = [cognition EXCEPT !.lineage = @ \cup {underway.edge}]
  /\ UNCHANGED <<cogLog, candidates>>

\* on_retraction, to its first append and the change in memory that follows it ...
Retract(o) ==
  /\ underway = NoWork
  /\ AppendCognition([kind |-> "retracted", obj |-> o, edges |-> cognition.lineage])  \* edges: history
  /\ LET derived == TransitiveDerived(cognition.lineage, o) IN
     /\ cognition' = [cognition EXCEPT !.retracted = @ \cup {o}, !.invalidated = @ \cup derived,
                                       !.stable = Deactivate(@, derived \cup {o})]
     /\ underway' = [task |-> "retract", obj |-> o, derived |-> derived]
  /\ UNCHANGED candidates
\* ... and its second, with the re-evaluation of all that was derived.
Reevaluate1 ==
  /\ underway.task = "retract"
  /\ AppendCognition([kind |-> "reevaluate", trigger |-> "retraction", obj |-> underway.obj, derived |-> underway.derived])
  /\ underway' = NoWork
  /\ UNCHANGED <<cognition, candidates>>

\* decay: a stable object that was not reproduced in time; its memory change comes last.
AuditStale(o) ==
  /\ underway = NoWork /\ cognition.stable[o] = "active"
  /\ AppendCognition([kind |-> "reevaluate", trigger |-> "stale", obj |-> o, derived |-> {o}])
  /\ underway' = [task |-> "audit", obj |-> o]
  /\ UNCHANGED <<cognition, candidates>>
AuditDone ==
  /\ underway.task = "audit" /\ underway' = NoWork
  /\ cognition' = [cognition EXCEPT !.stable = Deactivate(@, {underway.obj}), !.invalidated = @ \cup {underway.obj}]
  /\ UNCHANGED <<cogLog, candidates>>

\* An append of the task underway fails: it ends where it is.
GiveUp == underway # NoWork /\ underway' = NoWork /\ UNCHANGED <<cogLog, cognition, candidates>>

RestartCognition ==
  /\ cogLog # <<>>
  /\ cognition' = FoldLeft(FoldCognition, Blank, cogLog)
  /\ candidates' = FoldLeft(FoldCandidate, [c \in Candidates |-> "none"], cogLog)
  /\ underway' = NoWork /\ UNCHANGED cogLog

CognitionInit ==
  /\ cogLog = <<>> /\ cognition = Blank /\ underway = NoWork
  /\ candidates = [c \in Candidates |-> "none"]

CognitionNext ==
  \/ \E c \in Candidates : \/ ProposeMap(c) \/ Observe(c) \/ PromoteAgain(c)
                           \/ \E to \in {"promoted", "rejected", "downgraded"} : GovernApply(c, to)
  \/ \E edge \in Derivations : RecordLineage(edge)
  \/ \E o \in Objects : Retract(o) \/ AuditStale(o)
  \/ CreateProposed \/ TakeUpLineage \/ Reevaluate1 \/ AuditDone \/ GiveUp \/ RestartCognition

--------------------------------------------------------------------------------
IsUsable(o) == /\ o \notin cognition.retracted \cup cognition.invalidated
               /\ cognition.stable[o] \in {"none", "active"}
\* What a temporal model answers from: a promoted candidate of a usable object.
Answers(o) == IsUsable(o) /\ \E c \in Candidates : CandidateOf[c] = o /\ candidates[c] = "promoted"

\* Every re-evaluation that was recorded holds for good, over restarts too: neither the retracted
\* object nor anything that was derived from it, at any distance, when it was retracted is usable.
RetractionReachesDerived ==
  \A i \in 2..Len(cogLog) :
    (cogLog[i].kind = "reevaluate" /\ cogLog[i].trigger = "retraction") =>
      LET retraction == SelectLastInSubSeq(cogLog, 1, i, LAMBDA e : e.kind = "retracted") IN
      \A path \in SeqOf(Objects, Cardinality(Objects)) :
        (Len(path) > 1 /\ path[1] = cogLog[i].obj
          /\ \A k \in 1..(Len(path)-1) : <<path[k], path[k+1]>> \in cogLog[retraction].edges)
        => ~IsUsable(path[1]) /\ ~IsUsable(path[Len(path)])

\* The map shows an object only when the owner's promotion of one of its candidates is recorded.
MapShowsPromoted ==
  \A o \in Objects : cognition.stable[o] = "active" =>
    \E i \in DOMAIN cogLog : cogLog[i].kind = "promoted" /\ CandidateOf[cogLog[i].cand] = o

\* The candidates a process works with are those of the log, whatever was cut short between two
\* appends: a decision is never lost and never taken twice.
CandidatesFollowLog == candidates = FoldLeft(FoldCandidate, [c \in Candidates |-> "none"], cogLog)
================================================================================
