---------------------------- MODULE StrategyMemory ----------------------------
(***************************************************************************)
(* The strategy memory (M3-C): StrategyMemoryProjector folds the sequenced *)
(* events of strategies of its own domain and scope into candidates with   *)
(* their state, conflicts and lineage, and recommends a re-evaluation, a   *)
(* downgrade or a rollback for those whose evidence was lost.  The only    *)
(* variable is the log the projector is given; the fold is compared with   *)
(* what the log says when read as a whole.                                 *)
(***************************************************************************)
EXTENDS Naturals, Sequences, FiniteSets, SequencesExt

CONSTANTS MemoryCandidates,  \* candidate ids; a candidate proposes the version of its name
          EvidenceOf,        \* candidate -> its evidence
          Ends,              \* the ends a log may give a candidate: promoted, rejected, downgraded, decayed
          KnownGood,         \* the version the policy rolls back to
          MaximumEdges,      \* spec.maximum_derived_edges
          RollbackOnLoss,    \* spec.rollback_on_active_evidence_loss
          MaxMemoryLog       \* BOUND on the log

VARIABLE memoryLog

ASSUME MemoryAssumption ==
  "promoted" \in Ends /\ Ends \subseteq {"promoted", "rejected", "downgraded", "decayed"}

Evidence == UNION {EvidenceOf[c] : c \in MemoryCandidates}

(* Events of the log; trusted tells owner input and verified processes     *)
(* from everything else (authoritative).                                   *)
MemoryEvents ==
       [kind : {"created", "promoted"}, c : MemoryCandidates, trusted : BOOLEAN]
  \cup [kind : Ends, c : MemoryCandidates, trusted : {TRUE}]
  \cup [kind : {"conflict"}, c : MemoryCandidates, with : MemoryCandidates, trusted : {TRUE}]
  \cup [kind : {"retracted"}, evidence : Evidence, trusted : BOOLEAN]
  \cup [kind : {"reevaluated"}, c : MemoryCandidates, trusted : {TRUE}]
  \cup [kind : {"activated"}, version : MemoryCandidates, trusted : {TRUE}]
  \cup [kind : {"rolled back"}, version : {KnownGood}, trusted : {TRUE}]

Fresh(e) == [state |-> "candidate", conflicts |-> {}, trusted |-> e.trusted]
NothingKnown == [known |-> <<>>, lineage |-> {}, retracted |-> {}, reevaluated |-> {},
                 active |-> KnownGood, error |-> FALSE]

(* A candidate created again must still be as it was projected, and one    *)
(* with too much evidence is an error.                                     *)
Create(p, e) ==
  IF Cardinality(EvidenceOf[e.c]) > MaximumEdges THEN [p EXCEPT !.error = TRUE]
  ELSE IF e.c \in DOMAIN p.known THEN [p EXCEPT !.error = p.known[e.c] # Fresh(e)]
  ELSE [p EXCEPT !.known = [c \in DOMAIN p.known \cup {e.c} |-> IF c = e.c THEN Fresh(e) ELSE p.known[c]],
                 !.lineage = IF e.trusted THEN @ \cup ({e.c} \X EvidenceOf[e.c]) ELSE @]

AddConflict(p, c, with) ==
  IF c \notin DOMAIN p.known \/ with \in p.known[c].conflicts THEN p
  ELSE IF Cardinality(p.known[c].conflicts) >= MaximumEdges THEN [p EXCEPT !.error = TRUE]
  ELSE [p EXCEPT !.known[c].conflicts = @ \cup {with}]

\* Fault: the first end of a candidate stays.
TransitionFirst(p, c, state) ==
  IF c \in DOMAIN p.known /\ p.known[c].state = "candidate" THEN [p EXCEPT !.known[c].state = state] ELSE p
Transition(p, c, state) == IF c \in DOMAIN p.known THEN [p EXCEPT !.known[c].state = state] ELSE p

(* One pass of the loop of StrategyMemoryProjector::rebuild.  A candidate  *)
(* is projected whoever wrote it; everything else must be authoritative.   *)
Project(p, e) ==
  IF p.error THEN p
  ELSE IF e.kind = "created" THEN Create(p, e)
  ELSE IF ~e.trusted THEN p
  ELSE IF e.kind \in Ends THEN Transition(p, e.c, e.kind)
  ELSE IF e.kind = "conflict" THEN AddConflict(AddConflict(p, e.c, e.with), e.with, e.c)
  ELSE IF e.kind = "retracted" THEN [p EXCEPT !.retracted = @ \cup {e.evidence}]
  ELSE IF e.kind = "reevaluated" THEN [p EXCEPT !.reevaluated = @ \cup {e.c}]
  ELSE [p EXCEPT !.active = e.version]

Projected(log) == FoldLeft(Project, NothingKnown, log)

(* What is recommended of a projection, with the candidates that are stale *)
(* at the time of the call.                                                *)
\* Fault: only candidates are judged, not what is stable.
JudgedCandidates(p, c) == p.known[c].trusted /\ p.known[c].state = "candidate"
Judged(p, c) == p.known[c].trusted /\ p.known[c].state \in {"candidate", "promoted"}
Troubled(p, c, stale) ==
  EvidenceOf[c] \cap p.retracted # {} \/ c \in stale \/ p.known[c].conflicts # {}
InTrouble(p, stale) == {c \in DOMAIN p.known : Judged(p, c) /\ Troubled(p, c, stale)}

Reevaluate(p, stale) == InTrouble(p, stale) \ p.reevaluated
Downgrade(p, stale) == {c \in InTrouble(p, stale) : p.known[c].state = "promoted" \/ p.active = c}
Rollback(p, stale) == {c \in InTrouble(p, stale) : RollbackOnLoss /\ p.active = c}

MemoryInit == memoryLog = <<>>

(* Another event is recorded.  The log of one scope names a candidate once *)
(* (validate_strategy_candidate_identity).                                 *)
MemoryNext ==
  /\ Len(memoryLog) < MaxMemoryLog
  /\ \E e \in MemoryEvents :
       /\ e.kind = "created" => \A i \in DOMAIN memoryLog : memoryLog[i].kind = "created" => memoryLog[i].c # e.c
       /\ e.kind = "conflict" => e.c # e.with
       /\ memoryLog' = Append(memoryLog, e)

------------------------------------------------------------------------------
(* The log read as a whole.                                                *)
Happened(kind, i) == memoryLog[i].kind = kind /\ memoryLog[i].trusted
CreatedAt(c) == {i \in DOMAIN memoryLog : memoryLog[i].kind = "created" /\ memoryLog[i].c = c}
EndsOf(c) == {i \in DOMAIN memoryLog : memoryLog[i].kind \in Ends /\ memoryLog[i].trusted /\ memoryLog[i].c = c
                                       /\ \E j \in CreatedAt(c) : j < i}
LastEnd(c) == IF EndsOf(c) = {} THEN "candidate" ELSE memoryLog[CHOOSE i \in EndsOf(c) : \A j \in EndsOf(c) : j <= i].kind
Withdrawn == {memoryLog[i].evidence : i \in {j \in DOMAIN memoryLog : Happened("retracted", j)}}

(* What the projector keeps of a candidate is what its last authoritative  *)
(* fact says, its conflicts are symmetric between candidates it knows when *)
(* they conflict, and its lineage holds the evidence of trusted candidates *)
(* only (StrategyMemoryProjector::rebuild).                                *)
ProjectionReadsLog ==
  LET p == Projected(memoryLog) IN ~p.error =>
    /\ DOMAIN p.known = {c \in MemoryCandidates : CreatedAt(c) # {}}
    /\ \A c \in DOMAIN p.known : p.known[c].state = LastEnd(c)
    /\ p.retracted = Withdrawn
    /\ \A l \in p.lineage : p.known[l[1]].trusted
    /\ \A c \in DOMAIN p.known : p.known[c].trusted => \A x \in EvidenceOf[c] : <<c, x>> \in p.lineage

(* A strategy that is active or stable and whose evidence was retracted    *)
(* does not go unnoticed: it is put up for a downgrade, and the active one *)
(* for a rollback to the known good, however the retraction, promotion and *)
(* activation were ordered; and what was rejected, downgraded or decayed,  *)
(* or came from an untrusted source, is not recommended about at all.      *)
LossIsNoticed ==
  LET p == Projected(memoryLog) IN ~p.error =>
    \A stale \in SUBSET MemoryCandidates : \A c \in DOMAIN p.known :
      LET judged == (\E i \in CreatedAt(c) : memoryLog[i].trusted) /\ LastEnd(c) \in {"candidate", "promoted"}
          lost == EvidenceOf[c] \cap Withdrawn # {} IN
        /\ (judged /\ lost /\ LastEnd(c) = "promoted") => c \in Downgrade(p, stale)
        /\ (judged /\ lost /\ p.active = c /\ RollbackOnLoss) => c \in Rollback(p, stale)
        /\ c \in Reevaluate(p, stale) \cup Downgrade(p, stale) \cup Rollback(p, stale) => judged

(* What the strategy memory promises (StrategyMemoryProjection).           *)
MemoryIsSound == ProjectionReadsLog /\ LossIsNoticed
===============================================================================
