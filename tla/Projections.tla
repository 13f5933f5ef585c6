------------------------------ MODULE Projections ------------------------------
(* Three projections rebuilt from a log that grows: the lineage of a long-term  *)
(* goal and the guard that lets it continue, the hot and cold memory with its   *)
(* recall, and the resource graph.  Events of several runs are folded run by    *)
(* run, in the order of the runs' names.                                        *)
EXTENDS Integers, Sequences, FiniteSets, SequencesExt

CONSTANTS Intentions, Situations, CheckpointRefs, \* of the lineage; references are ordered
          NodeIds, HotFor, KeptFor,               \* of the memory
          Resources, ResourceKinds, GraphRuns,    \* of the graph; runs are ordered
          MaxFacts                                \* bound on the log

ASSUME ProjectionAssumption ==
  CheckpointRefs \subseteq Nat /\ GraphRuns \subseteq Nat /\ {HotFor, KeptFor} \subseteq Nat /\ HotFor < KeptFor

VARIABLES facts,   \* the log: fact n is recorded at time n
          about    \* the projection this behaviour exercises

projectionVars == <<facts, about>>

--------------------------------------------------------------------------------
(* The lineage of one goal.                                                     *)
LineageFacts ==
  [k : {"goal"}, def : Situations] \cup [k : {"intention"}, i : Intentions]
  \cup [k : {"resolved"}, i : Intentions, outcome : {"fired", "done", "cancelled"}]
  \cup [k : {"checkpoint"}, ref : CheckpointRefs, situation : Situations] \cup [k : {"revoked"}]

NoLineage == [goal |-> "none", conflict |-> FALSE, intentions |-> {}, terminal |-> {},
              checkpoints |-> [r \in {} |-> "none"], cancelled |-> FALSE, revoked |-> FALSE]

\* Fault: a resolution stops nothing but its own intention.
LineageUncancelled(s, e) ==
  CASE e.k = "goal" -> [s EXCEPT !.conflict = @ \/ s.goal \notin {"none", e.def}, !.goal = e.def]
    [] e.k = "intention" -> [s EXCEPT !.intentions = @ \cup {e.i}]
    [] e.k = "resolved" /\ e.i \in s.intentions -> [s EXCEPT !.terminal = IF e.outcome = "fired" THEN @ ELSE @ \cup {e.i}]
    [] e.k = "checkpoint" -> [s EXCEPT !.checkpoints = (e.ref :> e.situation) @@ @]
    [] e.k = "revoked" -> [s EXCEPT !.revoked = TRUE]
    [] OTHER -> s
LineageStep(s, e) ==
  CASE e.k = "goal" -> [s EXCEPT !.conflict = @ \/ s.goal \notin {"none", e.def}, !.goal = e.def]
    [] e.k = "intention" -> [s EXCEPT !.intentions = @ \cup {e.i}]
    [] e.k = "resolved" /\ e.i \in s.intentions ->
         [s EXCEPT !.terminal = IF e.outcome = "fired" THEN @ ELSE @ \cup {e.i},
                   !.cancelled = @ \/ e.outcome = "cancelled"]
    [] e.k = "checkpoint" -> [s EXCEPT !.checkpoints = (e.ref :> e.situation) @@ @]
    [] e.k = "revoked" -> [s EXCEPT !.revoked = TRUE]
    [] OTHER -> s
Lineage(log) == FoldLeft(LineageStep, NoLineage, log)

\* The situation the route was planned for: that of the checkpoint with the greatest reference.
ExpectedSituation(s) ==
  IF DOMAIN s.checkpoints = {} THEN s.goal
  ELSE s.checkpoints[CHOOSE r \in DOMAIN s.checkpoints : \A q \in DOMAIN s.checkpoints : q <= r]

Decide(log, situation, foreground, spent) ==
  LET s == Lineage(log) IN
  IF s.goal = "none" \/ s.conflict THEN "error"
  ELSE IF foreground THEN "yield"
  ELSE IF s.cancelled \/ s.revoked \/ spent THEN "stop"
  ELSE IF ExpectedSituation(s) # situation THEN "replan"
  ELSE IF s.intentions \ s.terminal = {} THEN "stop" ELSE "continue"

--------------------------------------------------------------------------------
(* Hot and cold memory.                                                         *)
MemoryFacts == [k : {"node"}, id : NodeIds, untrusted : BOOLEAN] \cup [k : {"output"}, id : NodeIds]
               \cup [k : {"retracted"}, id : NodeIds] \cup [k : {"other"}]

\* Fault: a retraction only covers what was recorded before it.
RetractedSince(log, n) == {log[m].id : m \in {x \in n..Len(log) : log[x].k = "retracted"}}
Tombstones(log, n) == {log[m].id : m \in {x \in DOMAIN log : log[x].k = "retracted"}}

Sensitive(e, redactUntrusted) == e.k = "output" \/ (e.k = "node" /\ e.untrusted /\ redactUntrusted)
Retention(log, n, now, redactUntrusted) ==
  IF log[n].k \in {"node", "output"} /\ log[n].id \in Tombstones(log, n) THEN "tombstoned"
  ELSE IF now - n >= KeptFor THEN "expired"
  ELSE IF Sensitive(log[n], redactUntrusted) THEN "redacted"
  ELSE "active"
Recall(log, now, redactUntrusted, cold) ==
  {n \in DOMAIN log : /\ log[n].k \in {"node", "output"}
                      /\ Retention(log, n, now, redactUntrusted) = "active"
                      /\ cold \/ now - n < HotFor}

--------------------------------------------------------------------------------
(* The resource graph.                                                          *)
GraphFacts == [k : {"used"}, run : GraphRuns, kind : ResourceKinds, r : Resources]
              \cup [k : {"verified"}, run : GraphRuns, ok : BOOLEAN, process : BOOLEAN]
              \cup [k : {"failed"}, run : GraphRuns, r : Resources]
              \cup [k : {"revoked"}, run : GraphRuns, r : Resources]

NoGraph == [nodes |-> [key \in {} |-> 0], last |-> [run \in {} |-> <<>>]]
NewNode == [available |-> TRUE, passed |-> 0, failed |-> 0]
Passes(g, keys) == [key \in DOMAIN g.nodes |-> IF key \in keys THEN [g.nodes[key] EXCEPT !.passed = @ + 1] ELSE g.nodes[key]]
Fails(g, keys) == [key \in DOMAIN g.nodes |-> IF key \in keys THEN [g.nodes[key] EXCEPT !.failed = @ + 1] ELSE g.nodes[key]]
LastOf(g, run) == IF run \in DOMAIN g.last THEN {g.last[run]} ELSE {}
NamesOf(g, r) == {key \in DOMAIN g.nodes : key[2] = r}

\* Fault: using a resource again makes it available.
UsedAnew(g, e) == (<<e.kind, e.r>> :> NewNode) @@ g.nodes
EnsureNode(g, e) == [key \in DOMAIN g.nodes \cup {<<e.kind, e.r>>} |-> IF key \in DOMAIN g.nodes THEN g.nodes[key] ELSE NewNode]

GraphStep(g, e) ==
  CASE e.k = "used" -> [nodes |-> EnsureNode(g, e), last |-> (e.run :> <<e.kind, e.r>>) @@ g.last]
    [] e.k = "verified" /\ e.process ->
         [g EXCEPT !.nodes = IF e.ok THEN Passes(g, LastOf(g, e.run)) ELSE Fails(g, LastOf(g, e.run))]
    [] e.k = "failed" -> [g EXCEPT !.nodes = Fails(g, IF NamesOf(g, e.r) # {} THEN NamesOf(g, e.r) ELSE LastOf(g, e.run))]
    [] e.k = "revoked" -> [g EXCEPT !.nodes = [key \in DOMAIN @ |-> IF key \in NamesOf(g, e.r)
                                                                    THEN [@[key] EXCEPT !.available = FALSE] ELSE @[key]]]
    [] OTHER -> g
\* Run by run, in the order of their names: an event goes behind those of its own run and of the runs before it.
Filed(s, e) == InsertAt(s, Cardinality({i \in DOMAIN s : s[i].run <= e.run}) + 1, e)
RunByRun(log) == FoldLeft(Filed, <<>>, log)
Graph(log) == FoldLeft(GraphStep, NoGraph, RunByRun(log)).nodes

--------------------------------------------------------------------------------
Record1(e) == Len(facts) < MaxFacts /\ facts' = Append(facts, e) /\ UNCHANGED about

ProjectionInit == facts = <<>> /\ about \in {"lineage", "memory", "graph"}
ProjectionNext == \/ about = "lineage" /\ \E e \in LineageFacts : Record1(e)
                  \/ about = "memory" /\ \E e \in MemoryFacts : Record1(e)
                  \/ about = "graph" /\ \E e \in GraphFacts : Record1(e)

--------------------------------------------------------------------------------
\* A goal that was revoked, or one of whose intentions was cancelled, never continues, whatever
\* is recorded afterwards; and what continues is an intention that no resolution has ended.
StoppedGoalNeverContinues ==
  about = "lineage" =>
    \A situation \in Situations : Decide(facts, situation, FALSE, FALSE) = "continue" =>
      /\ \A n \in DOMAIN facts : facts[n].k # "revoked"
      /\ \A m, n \in DOMAIN facts :
           (m < n /\ facts[m].k = "intention" /\ facts[n].k = "resolved" /\ facts[m].i = facts[n].i)
           => facts[n].outcome # "cancelled"
      /\ \E m \in DOMAIN facts : /\ facts[m].k = "intention"
                                 /\ \A n \in m..Len(facts) :
                                      facts[n].k = "resolved" /\ facts[n].i = facts[m].i => facts[n].outcome = "fired"

\* A retraction reaches the content wherever it stands in the log, and what recall no longer
\* returned it never returns again: later facts and later times only take away.
RecallForgets ==
  about = "memory" /\ facts' # facts =>
       \A redact, cold \in BOOLEAN :
         /\ Recall(facts', Len(facts'), redact, cold) \cap DOMAIN facts \subseteq Recall(facts, Len(facts), redact, cold)
         /\ \A n \in Recall(facts', Len(facts'), redact, cold), m \in DOMAIN facts' :
              facts'[m].k = "retracted" => facts'[m].id # facts'[n].id

\* A revoked resource is not available again under the kind it was revoked as, and no score
\* counts more outcomes than the log holds.
RevokedStaysUnavailable ==
  about = "graph" /\ facts' # facts =>
       LET before == Graph(facts) after == Graph(facts') IN
       /\ \A key \in DOMAIN before \cap DOMAIN after : ~before[key].available => ~after[key].available
       /\ \A key \in DOMAIN after :
            after[key].passed + after[key].failed <=
              Cardinality({n \in DOMAIN facts' : facts'[n].k \in {"verified", "failed"}})
================================================================================
