------------------------------- MODULE Context -------------------------------
(* What a model is shown in each turn of a run: automatic compaction, the    *)
(* layered context builder and the loop that calls the model                 *)
(* (context/src/lib.rs, loop/src/lib.rs, drive in harness/src/lib.rs).       *)
(*                                                                           *)
(* Contents are their costs in tokens.  The run's stream matters only by     *)
(* which of its events compaction must preserve.                             *)
EXTENDS Naturals, Sequences, SequencesExt, FiniteSets

CONSTANTS Rules,          \* sequence of [ref, cost, owner]
          Skills,         \* sequence of [ref, cost, owner], the bodies selected
          Slices,         \* sequence of [ref, cost, owner]
          MemoryCost, SummaryCost, EntryCost,
          MaxTokens, Reserve, ThresholdPercent,
          MaxHistoryEntries, MaxTurns, MaxToolCalls, TokenLimit,
          ReplyCosts,     \* tokens a model call may use
          BrainCall,      \* is a coordination runtime there to be consulted?
          MaxWorkspace, MaxFramed,      \* governed events before the first turn
          GovernedPerTool \* how many governed events a tool turn may append

ASSUME ContextAssumption ==
    /\ \A items \in {Rules, Skills, Slices} : items \in Seq(Range(items))
    /\ {MaxTokens, Reserve, MaxHistoryEntries, MaxTurns, MaxToolCalls, TokenLimit, MaxWorkspace, MaxFramed}
          \subseteq Nat
    /\ Reserve < MaxTokens
    /\ ReplyCosts \subseteq Nat /\ GovernedPerTool \subseteq Nat

VARIABLES stream,       \* sequence of BOOLEAN: is the event one to preserve?
          history,      \* the governed events shown as history, by position
          boundary,     \* how much of the stream the last compaction covers
          remembered, slices, skills,
          workspace,    \* items of the agent workspace, from the run's own events
          turn, toolCalls, tokens,
          run,          \* "bound", "running", "complete", "failed", "limited", "stranded"
          shown         \* the context of the last model call

contextVars == <<stream, history, boundary, remembered, slices, skills, workspace, turn,
                 toolCalls, tokens, run, shown>>

Nothing == [sections |-> <<>>, excluded |-> <<>>, spent |-> 0, failed |-> FALSE]

ContextInit ==
    /\ stream = <<>> /\ history = <<>> /\ boundary = 0
    /\ remembered = MemoryCost /\ slices = Slices /\ skills = <<>> /\ workspace = 0
    /\ turn = 0 /\ toolCalls = 0 /\ tokens = 0
    /\ run = "bound" /\ shown = Nothing

-----------------------------------------------------------------------------
UsableTokens == MaxTokens - Reserve
WithCost(n, x) == n + x.cost
Total(items) == FoldLeft(WithCost, 0, items)

(* estimate_context_tokens: everything the context holds, shown or not. *)
Estimate(h, m, s) == Total(Rules) + Len(h) * EntryCost + m + Total(skills) + Total(s)
                     + workspace * EntryCost
UnderPressure(n) == n * 100 >= UsableTokens * ThresholdPercent

GovernedOf(log, n) == FoldLeft(LAMBDA kept, i : IF log[i] THEN Append(kept, i) ELSE kept, <<>>,
                               [i \in 1..n |-> i])
Governed(n) == GovernedOf(stream, n)

(* Fault: the last event of the run is overlooked. *)
GovernedBefore(n) == Governed(n - 1)

Preserved(n) == Governed(n)

(* Before a run is driven its frame is recorded (goal, resources, contract,  *)
(* envelope) and prepare_skill_context selects its skill bodies, once.       *)
BindSession ==
    /\ run = "bound"
    /\ \E k \in 0..Len(Skills) : skills' = SubSeq(Skills, 1, k)
    /\ \E k \in 0..MaxFramed : stream' = <<FALSE>> \o [i \in 1..k |-> TRUE]
    /\ workspace' \in 0..MaxWorkspace
    /\ run' = "running"
    /\ UNCHANGED <<history, boundary, remembered, slices, turn, toolCalls, tokens, shown>>

(* The builder takes the layers in order; what does not fit is excluded,     *)
(* and a rule that does not fit fails the build.                             *)
Layer(kind, items) == [i \in DOMAIN items |-> [kind |-> kind, ref |-> items[i].ref,
                          cost |-> items[i].cost, owner |-> items[i].owner]]
LastEntries(h) == SubSeq(h, IF Len(h) > MaxHistoryEntries THEN Len(h) - MaxHistoryEntries + 1 ELSE 1,
                         Len(h))
Layers(h, m, s) ==
    Layer("rule", Rules)
    \o [i \in 1..(IF BrainCall THEN workspace ELSE 0) |->
           [kind |-> "workspace", ref |-> i, cost |-> EntryCost, owner |-> FALSE]]
    \o [i \in DOMAIN LastEntries(h) |-> [kind |-> "history", ref |-> LastEntries(h)[i],
                                         cost |-> EntryCost, owner |-> FALSE]]
    \o <<[kind |-> "memory", ref |-> "memory", cost |-> m, owner |-> FALSE]>>
    \o Layer("skill", skills)
    \o Layer("slice", s)

Available == UsableTokens

PushSection(built, item) ==
    IF built.failed THEN built
    ELSE IF built.spent + item.cost <= Available
    THEN [built EXCEPT !.sections = Append(@, item), !.spent = @ + item.cost]
    ELSE IF item.kind = "rule" THEN [built EXCEPT !.failed = TRUE]
    ELSE [built EXCEPT !.excluded = Append(@, item)]

Build(h, m, s) == FoldLeft(PushSection, Nothing, Layers(h, m, s))

(* Only an owner's rule is an instruction, whatever else is shown. *)
Treatment(item) == IF item.kind = "rule" /\ item.owner THEN "instruction" ELSE "data"

(* compact_if_needed: the history becomes the governed events of the run, the *)
(* summary replaces the memory, slices go. Not getting below the threshold is *)
(* an error, and nothing is compacted.                                        *)
Compacted ==
    LET before == Estimate(history, remembered, slices)
        kept == Preserved(Len(stream))
        after == Estimate(kept, SummaryCost, <<>>) IN
    [needed |-> UnderPressure(before),
     works |-> after < before /\ after <= UsableTokens /\ ~UnderPressure(after),
     history |-> kept]

(* One iteration of drive ends as the model answers: with a tool call, which *)
(* appends the action's events, or with the final output.                    *)
Answered(built, extra) ==
    \E used \in ReplyCosts, answer \in {"tool", "final"} :
       /\ tokens' = tokens + used
       /\ shown' = built
       /\ IF tokens + used > TokenLimit
          THEN run' = "limited" /\ stream' = stream \o extra /\ UNCHANGED <<turn, toolCalls>>
          ELSE IF answer = "final"
          THEN /\ run' \in {"complete", "failed"}     \* as verification finds
               /\ stream' = stream \o extra /\ UNCHANGED <<turn, toolCalls>>
          ELSE /\ toolCalls' = toolCalls + 1 /\ turn' = turn + 1 /\ run' = run
               /\ \E k \in GovernedPerTool :
                     stream' = stream \o extra \o [i \in 1..k |-> TRUE]

CompactionEvents == <<TRUE, TRUE>>

(* Turn limits come first, then the compacted context is built. A rule layer *)
(* that does not fit fails the run; a compaction that does not help ends the *)
(* drive and leaves the run as it was.                                       *)
DriveTurn ==
    /\ run = "running"
    /\ LET c == Compacted
           compacts == c.needed /\ c.works
           h == IF compacts THEN c.history ELSE history
           m == IF compacts THEN SummaryCost ELSE remembered
           s == IF compacts THEN <<>> ELSE slices
           extra == IF compacts THEN CompactionEvents ELSE <<>>
           built == Build(h, m, s) IN
       IF c.needed /\ ~c.works
       THEN /\ run' = "stranded"
            /\ UNCHANGED <<stream, history, boundary, remembered, slices, turn, toolCalls, tokens, shown>>
       ELSE /\ history' = h /\ remembered' = m /\ slices' = s
            /\ boundary' = IF compacts THEN Len(stream) ELSE boundary
            /\ IF turn >= MaxTurns \/ toolCalls >= MaxToolCalls
               THEN /\ run' = "limited" /\ stream' = stream \o extra
                    /\ UNCHANGED <<turn, toolCalls, tokens, shown>>
               ELSE IF built.failed
               THEN /\ run' = "failed" /\ stream' = stream \o extra
                    /\ UNCHANGED <<turn, toolCalls, tokens, shown>>
               ELSE Answered(built, extra)
    /\ UNCHANGED <<skills, workspace>>

ContextNext == BindSession \/ DriveTurn

-----------------------------------------------------------------------------
(* What must survive survives: once compacted, the history is exactly the    *)
(* governed events of the whole run up to the last compaction, however often *)
(* it was compacted, and no model call was made under pressure.              *)
LineageIsKept ==
    /\ boundary > 0 => history = Governed(boundary)
    /\ shown # Nothing /\ run = "running" =>
          ~UnderPressure(Estimate(history, remembered, slices))

(* What is shown leaves the reserve free, contains every rule, and has no    *)
(* instruction but an owner's rule; what was left out is accounted for.      *)
Held(seq, kind, ref) == \E j \in DOMAIN seq : seq[j].kind = kind /\ seq[j].ref = ref
ShownWithinBudget ==
    /\ Total(shown.sections) <= UsableTokens
    /\ shown # Nothing =>
          /\ \A i \in DOMAIN Rules : Held(shown.sections, "rule", Rules[i].ref)
          /\ \A i \in DOMAIN skills :
                \/ Held(shown.sections, "skill", skills[i].ref)
                \/ Held(shown.excluded, "skill", skills[i].ref)
    /\ \A j \in DOMAIN shown.sections :
          Treatment(shown.sections[j]) = "instruction" => shown.sections[j].owner

(* A run is driven no further than its budget. *)
DrivenWithinBudget ==
    /\ turn <= MaxTurns /\ toolCalls <= MaxToolCalls
    /\ tokens > TokenLimit => run = "limited"

(* What context assembly and the loop promise of every turn.                 *)
ContextSound == LineageIsKept /\ ShownWithinBudget /\ DrivenWithinBudget
=============================================================================
