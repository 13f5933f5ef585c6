---------------------------- MODULE GrowthProofs ----------------------------
(***************************************************************************)
(* Theorems about Growth for any proposals, aggregates, controllers and    *)
(* runs, and for projects of any length.                                   *)
(*                                                                         *)
(* A step of Growth belongs to one subject and leaves the others alone, so *)
(* each theorem has the invariant of its own module.                       *)
(***************************************************************************)
EXTENDS Growth, FiniteSetTheorems, FunctionTheorems, SequenceTheorems,
        NaturalsInduction, WellFoundedInduction, TLAPS

\* A step of the composition is a step of each subject or leaves it alone.
LEMMA SubjectsStep ==
  ASSUME [GrowthNext]_growthVars
  PROVE  [EvolutionNext]_evolutionVars /\ [LongHorizonNext]_longHorizonVars
BY DEF GrowthNext, growthVars

-----------------------------------------------------------------------------
(* The evolution of strategies                                             *)

ControlKinds == {"activated", "rolled back"}
Entries == [kind : ControlKinds, to : Proposals]
Starting == [stage : {"reads active"}, kind : {"activated"}, aggregate : Aggregates, to : Proposals, owner : BOOLEAN]
Reading == [stage : {"reads version"}, kind : ControlKinds, aggregate : Aggregates, to : Proposals, owner : BOOLEAN,
            from : Proposals \cup {None}]
Appending == [stage : {"appends"}, kind : ControlKinds, aggregate : Aggregates, to : Proposals, owner : BOOLEAN,
              from : Proposals \cup {None}, expected : Nat]
Calls == {Idle} \cup Starting \cup Reading \cup Appending
ControlEvents ==
  [kind : ControlKinds, aggregate : Aggregates, by : Controllers, owner : BOOLEAN,
   from : Proposals \cup {None}, to : Proposals, committed : Nat]

ShapeOK ==
  /\ recorded \subseteq Proposals /\ stable \subseteq recorded
  /\ evaluations \subseteq [baseline : Versions, candidate : Versions, verdict : Verdicts]
  /\ active \in [Aggregates -> Proposals \cup {None}]
  /\ bound \in [PinnedRuns -> Proposals \cup {None}]
  /\ versions \in [Aggregates -> Nat]
  /\ history \in [Aggregates -> Seq(Entries)]
  /\ call \in [Controllers -> Calls]
  /\ control \subseteq ControlEvents

\* A recorded version has one content, and what is stable has passed.
CatalogOK ==
  /\ \A x, y \in recorded : x.version = y.version => x = y
  /\ \A q \in stable : q.baseline \in Versions /\ Passed(q.baseline, q.version)

\* What was active before entry n of a history.
Before(h, n) == IF n = 1 THEN None ELSE h[n - 1].to

\* The history h of aggregate a, and what its control events say of it.
HistoryOK(a, h) ==
  /\ versions[a] = Len(h)
  /\ active[a] = Before(h, Len(h) + 1)
  /\ \A n \in 1..Len(h) :
       /\ h[n].to \in stable
       /\ (h[n].kind = "activated" /\ n > 1) => Passed(h[n - 1].to.version, h[n].to.version)
  /\ \A e \in ControlOf(a) :
       /\ e.committed \in 1..Len(h)
       /\ e.kind = h[e.committed].kind /\ e.to = h[e.committed].to /\ e.from = Before(h, e.committed)
       /\ TransitionIsProven(e)
  /\ \A n \in 1..Len(h) : \E e \in ControlOf(a) : e.committed = n
  /\ \A e, f \in ControlOf(a) : e.committed = f.committed => e = f

HistoriesOK == \A a \in Aggregates : \E h : h = history[a] /\ HistoryOK(a, h)

\* A call that goes on without the owner needs none, or holds the evidence.
CallsOK ==
  \A k \in Controllers :
    (call[k] # Idle /\ ~call[k].owner) =>
      IF call[k].kind = "activated" THEN ~NeedsOwner(call[k].to) ELSE k \in regression

BoundOK == \A r \in PinnedRuns : bound[r] # None => bound[r] \in stable /\ Registered[bound[r].version] = bound[r].spec

EvolutionInv == ShapeOK /\ CatalogOK /\ HistoriesOK /\ CallsOK /\ OwnerOrEvidence /\ BoundOK

\* Before anything is recorded.
LEMMA InitEvolution == EvolutionInit => EvolutionInv
<1> SUFFICES ASSUME EvolutionInit PROVE EvolutionInv
  OBVIOUS
<1>1. ShapeOK
  BY DEF EvolutionInit, ShapeOK, Calls
<1>2. \A a \in Aggregates : HistoryOK(a, <<>>)
  BY DEF EvolutionInit, HistoryOK, ControlOf, Before
<1>3. HistoriesOK
  BY <1>2 DEF HistoriesOK, EvolutionInit
<1> QED BY <1>1, <1>3 DEF EvolutionInit, EvolutionInv, CatalogOK, CallsOK, OwnerOrEvidence, BoundOK

\* More is promoted and more has passed, but no aggregate changes.
LEMMA HistoriesKept ==
  ASSUME HistoriesOK, UNCHANGED projection, stable \subseteq stable', evaluations \subseteq evaluations'
  PROVE  HistoriesOK'
<1> SUFFICES ASSUME NEW a \in Aggregates, NEW h, h = history[a], HistoryOK(a, h)
             PROVE  HistoryOK(a, h)'
  BY DEF HistoriesOK, projection
<1>1. \A b, v : Passed(b, v) => Passed(b, v)'
  BY DEF Passed
<1>2. ControlOf(a)' = ControlOf(a)
  BY DEF ControlOf, projection
<1>3. \A e : TransitionIsProven(e) => TransitionIsProven(e)'
  BY <1>1 DEF TransitionIsProven
<1> QED BY <1>1, <1>2, <1>3 DEF HistoryOK, projection

\* A control event appended as the next of its aggregate.
LEMMA ControlExtends ==
  ASSUME EvolutionInv, NEW k \in Controllers, AppendControl(k)
  PROVE  HistoriesOK' /\ ShapeOK' /\ OwnerOrEvidence'
<1>1. PICK c : c = call[k]
  OBVIOUS
<1>2. /\ c.kind \in ControlKinds /\ c.aggregate \in Aggregates /\ c.to \in Proposals /\ c.owner \in BOOLEAN
      /\ c.from \in Proposals \cup {None} /\ c.expected \in Nat
  <2>1. c \in Calls
    BY <1>1 DEF EvolutionInv, ShapeOK
  <2>2. c.stage = "appends"
    BY <1>1 DEF AppendControl
  <2>3. c # Idle /\ c \notin Starting /\ c \notin Reading
    <3>1. Idle.stage = "idle"
      BY DEF Idle
    <3>2. \A x \in Starting : x.stage = "reads active"
      BY DEF Starting
    <3>3. \A x \in Reading : x.stage = "reads version"
      BY DEF Reading
    <3> QED BY <2>2, <3>1, <3>2, <3>3
  <2>4. c \in Appending
    BY <2>1, <2>3 DEF Calls
  <2> QED BY <2>4 DEF Appending
<1>3. PICK a \in Aggregates, h \in Seq(Entries), n \in Nat :
        a = c.aggregate /\ h = history[a] /\ n = Len(h) /\ HistoryOK(a, h)
  <2>1. PICK h : h = history[c.aggregate] /\ HistoryOK(c.aggregate, h)
    BY <1>2 DEF EvolutionInv, HistoriesOK
  <2>2. h \in Seq(Entries) /\ Len(h) \in Nat
    BY <1>2, <2>1, LenProperties DEF EvolutionInv, ShapeOK
  <2> QED BY <1>2, <2>1, <2>2
<1>4. c.expected = n /\ c.from = active[a] /\ TransitionIsProven(c) /\ c.to \in stable
  BY <1>1, <1>3 DEF AppendControl, AtExpectedVersion, FromIsActive, HistoryOK
<1>5. PICK entry, event, more :
        /\ entry = [kind |-> c.kind, to |-> c.to]
        /\ event = [kind |-> c.kind, aggregate |-> c.aggregate, by |-> k, owner |-> c.owner, from |-> c.from,
                    to |-> c.to, committed |-> n + 1]
        /\ more = Append(h, entry)
  OBVIOUS
<1>6. /\ entry \in Entries /\ entry.kind = c.kind /\ entry.to = c.to
      /\ event \in ControlEvents
      /\ event.kind = c.kind /\ event.aggregate = a /\ event.by = k /\ event.owner = c.owner
      /\ event.from = c.from /\ event.to = c.to /\ event.committed = n + 1
  BY <1>2, <1>3, <1>5 DEF Entries, ControlEvents
<1>7. /\ more \in Seq(Entries) /\ Len(more) = n + 1
      /\ \A i \in 1..n : more[i] = h[i]
      /\ more[n + 1] = entry
  BY <1>3, <1>5, <1>6, AppendProperties
<1>8. /\ versions' = [versions EXCEPT ![a] = n + 1] /\ active' = [active EXCEPT ![a] = c.to]
      /\ history' = [history EXCEPT ![a] = more] /\ control' = control \cup {event}
      /\ call' = [call EXCEPT ![k] = Idle] /\ UNCHANGED <<catalog, regression, paused, bound>>
  BY <1>1, <1>3, <1>4, <1>5 DEF AppendControl, InHistory, ControlEvent
<1>9. ShapeOK'
  <2>1. /\ active' \in [Aggregates -> Proposals \cup {None}] /\ versions' \in [Aggregates -> Nat]
        /\ history' \in [Aggregates -> Seq(Entries)]
    BY <1>2, <1>7, <1>8 DEF EvolutionInv, ShapeOK
  <2>2. call' \in [Controllers -> Calls] /\ control' \subseteq ControlEvents
    BY <1>6, <1>8 DEF EvolutionInv, ShapeOK, Calls
  <2> QED BY <1>8, <2>1, <2>2 DEF EvolutionInv, ShapeOK, catalog
<1>10. OwnerOrEvidence'
  <2>1. ~c.owner => IF c.kind = "activated" THEN ~NeedsOwner(c.to) ELSE k \in regression
    <3>1. c # Idle
      BY <1>1 DEF AppendControl, Idle
    <3> QED BY <1>1, <3>1 DEF EvolutionInv, CallsOK
  <2> QED BY <1>6, <1>8, <2>1 DEF EvolutionInv, OwnerOrEvidence
<1>11. \A b, v : Passed(b, v)' <=> Passed(b, v)
  BY <1>8 DEF Passed, catalog
<1>12. \A e : TransitionIsProven(e)' <=> TransitionIsProven(e)
  BY <1>11 DEF TransitionIsProven
<1>13. ASSUME NEW b \in Aggregates, b # a PROVE \E g : g = history'[b] /\ HistoryOK(b, g)'
  <2>1. PICK g : g = history[b] /\ HistoryOK(b, g)
    BY DEF EvolutionInv, HistoriesOK
  <2>2. ControlOf(b)' = ControlOf(b)
    BY <1>6, <1>8, <1>13 DEF ControlOf
  <2>3. history'[b] = g /\ versions'[b] = versions[b] /\ active'[b] = active[b]
    BY <1>8, <1>13, <2>1 DEF EvolutionInv, ShapeOK
  <2>4. HistoryOK(b, g)'
    BY <1>8, <1>11, <1>12, <2>1, <2>2, <2>3 DEF HistoryOK, catalog
  <2> QED BY <2>3, <2>4
<1>14. ControlOf(a)' = ControlOf(a) \cup {event}
  BY <1>6, <1>8 DEF ControlOf
<1>15. /\ \A e \in ControlOf(a) : e.committed \in 1..n
       /\ \A e, f \in ControlOf(a) : e.committed = f.committed => e = f
  BY <1>3 DEF HistoryOK
<1>16. \A i \in 1..(n + 1) : Before(more, i) = Before(h, i)
  <2> SUFFICES ASSUME NEW i \in 1..(n + 1) PROVE Before(more, i) = Before(h, i)
    OBVIOUS
  <2>1. CASE i = 1
    BY <2>1 DEF Before
  <2>2. CASE i # 1
    <3>1. i - 1 \in 1..n
      BY <2>2
    <3> QED BY <1>7, <2>2, <3>1 DEF Before
  <2> QED BY <2>1, <2>2
<1>17. HistoryOK(a, more)'
  <2>1. versions'[a] = Len(more) /\ active'[a] = Before(more, Len(more) + 1)
    <3>1. (n + 1) + 1 # 1 /\ (n + 1) + 1 - 1 = n + 1
      BY <1>3
    <3>2. Before(more, (n + 1) + 1) = c.to
      BY <1>6, <1>7, <3>1 DEF Before
    <3> QED BY <1>7, <1>8, <3>2 DEF EvolutionInv, ShapeOK
  <2>2. ASSUME NEW i \in 1..Len(more)
        PROVE  /\ more[i].to \in stable'
               /\ (more[i].kind = "activated" /\ i > 1) => Passed(more[i - 1].to.version, more[i].to.version)'
    <3>1. CASE i = n + 1
      <4>1. ASSUME more[i].kind = "activated", i > 1 PROVE Passed(more[i - 1].to.version, more[i].to.version)
        <5>1. n \in 1..n /\ i - 1 = n /\ n + 1 # 1 /\ n + 1 - 1 = n
          BY <3>1, <4>1
        <5>2. c.from = h[n].to
          BY <1>3, <1>4, <5>1 DEF HistoryOK, Before
        <5>3. h[n].to # None
          <6>1. h[n] \in Entries
            BY <1>3, <5>1
          <6> QED BY <6>1, EvolutionAssumption DEF Entries, EvolutionAssumption
        <5>4. Passed(h[n].to.version, c.to.version)
          BY <1>4, <1>6, <1>7, <3>1, <4>1, <5>2, <5>3 DEF TransitionIsProven
        <5> QED BY <1>6, <1>7, <3>1, <5>1, <5>4
      <4> QED BY <1>4, <1>6, <1>7, <1>8, <1>11, <3>1, <4>1 DEF catalog
    <3>2. CASE i # n + 1
      <4>1. i \in 1..n /\ (i > 1 => i - 1 \in 1..n)
        BY <1>7, <3>2
      <4>2. h[i].to \in stable /\ ((h[i].kind = "activated" /\ i > 1) => Passed(h[i - 1].to.version, h[i].to.version))
        BY <1>3, <4>1 DEF HistoryOK
      <4>3. more[i] = h[i] /\ (i > 1 => more[i - 1] = h[i - 1])
        BY <1>7, <4>1
      <4> QED BY <1>8, <1>11, <4>2, <4>3 DEF catalog
    <3> QED BY <3>1, <3>2
  <2>3. ASSUME NEW e \in ControlOf(a)'
        PROVE  /\ e.committed \in 1..Len(more)
               /\ e.kind = more[e.committed].kind /\ e.to = more[e.committed].to /\ e.from = Before(more, e.committed)
               /\ TransitionIsProven(e)'
    <3>1. CASE e = event
      <4>1. n + 1 \in 1..(n + 1) /\ c.from = Before(h, n + 1)
        BY <1>3, <1>4 DEF HistoryOK
      <4>2. TransitionIsProven(event)
        BY <1>4, <1>6 DEF TransitionIsProven
      <4> QED BY <1>6, <1>7, <1>12, <1>16, <3>1, <4>1, <4>2
    <3>2. CASE e # event
      <4>1. e \in ControlOf(a) /\ e.committed \in 1..n /\ e.committed \in 1..(n + 1)
        BY <1>14, <1>15, <3>2
      <4> QED BY <1>3, <1>7, <1>12, <1>16, <4>1 DEF HistoryOK
    <3> QED BY <3>1, <3>2
  <2>4. ASSUME NEW i \in 1..Len(more) PROVE \E e \in ControlOf(a)' : e.committed = i
    <3>1. CASE i = n + 1
      BY <1>6, <1>14, <3>1
    <3>2. CASE i # n + 1
      <4>1. i \in 1..n
        BY <1>7, <3>2
      <4> QED BY <1>3, <1>14, <4>1 DEF HistoryOK
    <3> QED BY <3>1, <3>2
  <2>5. \A e, f \in ControlOf(a)' : e.committed = f.committed => e = f
    <3>1. \A e \in ControlOf(a) : e.committed # n + 1
      BY <1>15
    <3> QED BY <1>6, <1>14, <1>15, <3>1
  <2> QED BY <2>1, <2>2, <2>3, <2>4, <2>5 DEF HistoryOK
<1>18. history'[a] = more
  BY <1>8 DEF EvolutionInv, ShapeOK
<1>19. HistoriesOK'
  BY <1>13, <1>17, <1>18 DEF HistoriesOK
<1> QED BY <1>9, <1>10, <1>19

\* What distinguishes the stages of a call.
LEMMA CallStages ==
  /\ Idle.stage = "idle"
  /\ \A c \in Calls : c.stage = "reads active" => c \in Starting
  /\ \A c \in Calls : c.stage = "reads version" => c \in Reading
  /\ \A c \in Calls : c.stage = "appends" => c \in Appending
<1>1. Idle.stage = "idle"
  BY DEF Idle
<1>2. \A x \in Starting : x.stage = "reads active"
  BY DEF Starting
<1>3. \A x \in Reading : x.stage = "reads version"
  BY DEF Reading
<1>4. \A x \in Appending : x.stage = "appends"
  BY DEF Appending
<1> QED BY <1>1, <1>2, <1>3, <1>4 DEF Calls

\* A controller makes its call, or goes on with it.
LEMMA CallMoves ==
  ASSUME EvolutionInv, NEW k \in Controllers, NEW c \in Calls, call' = [call EXCEPT ![k] = c],
         c # Idle /\ ~c.owner => IF c.kind = "activated" THEN ~NeedsOwner(c.to) ELSE k \in regression,
         UNCHANGED <<catalog, projection, regression, paused, bound>>
  PROVE  EvolutionInv'
<1>1. ShapeOK'
  BY DEF EvolutionInv, ShapeOK, catalog, projection
<1>2. CatalogOK' /\ OwnerOrEvidence' /\ BoundOK'
  BY DEF EvolutionInv, CatalogOK, Passed, OwnerOrEvidence, BoundOK, catalog, projection
<1>3. HistoriesOK'
  BY HistoriesKept DEF EvolutionInv, catalog
<1>4. CallsOK'
  BY DEF EvolutionInv, ShapeOK, CallsOK
<1> QED BY <1>1, <1>2, <1>3, <1>4 DEF EvolutionInv

\* The steps of a call before its append, and the refused one.
LEMMA CallSteps ==
  ASSUME EvolutionInv, NEW k \in Controllers,
         \/ \E a \in Aggregates, q \in Proposals, owner \in BOOLEAN :
              BeginActivation(k, a, q, owner) \/ BeginRollback(k, a, q, owner)
         \/ ActivationReadsActive(k) \/ ReadVersion(k) \/ RefuseControl(k)
  PROVE  EvolutionInv'
<1>0. PICK c : c = call[k]
  OBVIOUS
<1>1. c \in Calls /\ (c # Idle /\ ~c.owner => IF c.kind = "activated" THEN ~NeedsOwner(c.to) ELSE k \in regression)
  BY <1>0 DEF EvolutionInv, ShapeOK, CallsOK
<1>2. Idle \in Calls
  BY DEF Calls
<1>3. ASSUME NEW a \in Aggregates, NEW q \in Proposals, NEW owner \in BOOLEAN, BeginActivation(k, a, q, owner)
      PROVE  EvolutionInv'
  <2>1. PICK d : d = [stage |-> "reads active", kind |-> "activated", aggregate |-> a, to |-> q, owner |-> owner]
    OBVIOUS
  <2>2. d \in Calls /\ d.kind = "activated" /\ d.owner = owner /\ d.to = q
    BY <2>1 DEF Calls, Starting
  <2>3. ~owner => ~NeedsOwner(q)
    BY <1>3 DEF BeginActivation, MayActivate
  <2>4. call' = [call EXCEPT ![k] = d] /\ UNCHANGED <<catalog, projection, regression, paused, bound>>
    BY <1>3, <2>1 DEF BeginActivation
  <2> QED BY <2>2, <2>3, <2>4, CallMoves
<1>4. ASSUME NEW a \in Aggregates, NEW q \in Proposals, NEW owner \in BOOLEAN, BeginRollback(k, a, q, owner)
      PROVE  EvolutionInv'
  <2>0. PICK from \in Proposals \cup {None} : from = active[a]
    BY DEF EvolutionInv, ShapeOK
  <2>1. PICK d : d = [stage |-> "reads version", kind |-> "rolled back", aggregate |-> a, to |-> q,
                      owner |-> owner, from |-> from]
    OBVIOUS
  <2>2. d \in Calls /\ d.kind # "activated" /\ d.owner = owner
    BY <2>1 DEF Calls, Reading, ControlKinds
  <2>3. ~owner => k \in regression
    BY <1>4 DEF BeginRollback, MayRollBack
  <2>4. call' = [call EXCEPT ![k] = d] /\ UNCHANGED <<catalog, projection, regression, paused, bound>>
    BY <1>4, <2>0, <2>1 DEF BeginRollback
  <2> QED BY <2>2, <2>3, <2>4, CallMoves
<1>5. ASSUME ActivationReadsActive(k) PROVE EvolutionInv'
  <2>1. c \in Starting /\ c # Idle
    BY <1>0, <1>1, <1>5, CallStages DEF ActivationReadsActive
  <2>0. PICK from \in Proposals \cup {None} : from = active[c.aggregate]
    BY <2>1 DEF Starting, EvolutionInv, ShapeOK
  <2>2. PICK d : d = [stage |-> "reads version", kind |-> "activated", aggregate |-> c.aggregate,
                      to |-> c.to, owner |-> c.owner, from |-> from]
    OBVIOUS
  <2>3. d \in Calls /\ d.kind = "activated" /\ d.owner = c.owner /\ d.to = c.to
    BY <2>1, <2>2 DEF Calls, Reading, Starting, ControlKinds
  <2>4. c.kind = "activated"
    BY <2>1 DEF Starting
  <2>5. UNCHANGED <<catalog, projection, regression, paused, bound>>
    BY <1>5 DEF ActivationReadsActive
  <2>6. call' = [call EXCEPT ![k] = d] \/ call' = [call EXCEPT ![k] = Idle]
    BY <1>0, <1>5, <2>0, <2>2 DEF ActivationReadsActive
  <2>7. CASE call' = [call EXCEPT ![k] = d]
    BY <1>1, <2>1, <2>3, <2>4, <2>5, <2>7, CallMoves
  <2>8. CASE call' = [call EXCEPT ![k] = Idle]
    BY <1>2, <2>5, <2>8, CallMoves
  <2> QED BY <2>6, <2>7, <2>8
<1>6. ASSUME ReadVersion(k) PROVE EvolutionInv'
  <2>1. c \in Reading /\ c # Idle
    BY <1>0, <1>1, <1>6, CallStages DEF ReadVersion
  <2>0. PICK n \in Nat : n = versions[c.aggregate]
    BY <2>1 DEF Reading, EvolutionInv, ShapeOK
  <2>2. PICK d : d = [stage |-> "appends", kind |-> c.kind, aggregate |-> c.aggregate, to |-> c.to,
                      owner |-> c.owner, from |-> c.from, expected |-> n]
    OBVIOUS
  <2>3. d \in Appending
    BY <2>1, <2>2 DEF Appending, Reading
  <2>4. d \in Calls /\ d.kind = c.kind /\ d.owner = c.owner /\ d.to = c.to
    BY <2>2, <2>3 DEF Calls
  <2>5. call' = [call EXCEPT ![k] = d] /\ UNCHANGED <<catalog, projection, regression, paused, bound>>
    BY <1>0, <1>6, <2>0, <2>2 DEF ReadVersion
  <2> QED BY <1>1, <2>1, <2>4, <2>5, CallMoves
<1>7. ASSUME RefuseControl(k) PROVE EvolutionInv'
  <2>1. call' = [call EXCEPT ![k] = Idle] /\ UNCHANGED <<catalog, projection, regression, paused, bound>>
    BY <1>7 DEF RefuseControl
  <2> QED BY <1>2, <2>1, CallMoves
<1> QED BY <1>3, <1>4, <1>5, <1>6, <1>7

\* The catalog grows: a candidate, an evaluation or a promotion.
LEMMA CatalogSteps ==
  ASSUME EvolutionInv, NEW q \in Proposals,
         \/ RecordCandidate(q) \/ Promote(q) \/ PromoteSeed(q)
         \/ \E k \in Controllers, v \in Verdicts : Evaluate(k, q, v)
  PROVE  EvolutionInv'
<1>1. /\ stable \subseteq stable' /\ evaluations \subseteq evaluations' /\ regression \subseteq regression'
      /\ UNCHANGED <<projection, paused, call, bound>>
  BY DEF RecordCandidate, Promote, PromoteSeed, Evaluate
<1>2. HistoriesOK'
  BY <1>1, HistoriesKept DEF EvolutionInv
<1>3. CallsOK' /\ OwnerOrEvidence' /\ BoundOK'
  BY <1>1 DEF EvolutionInv, CallsOK, OwnerOrEvidence, BoundOK, projection
<1>4. recorded' \subseteq Proposals /\ stable' \subseteq recorded'
  <2>1. recorded \subseteq Proposals /\ stable \subseteq recorded
    BY DEF EvolutionInv, ShapeOK
  <2>2. recorded' \in {recorded, recorded \cup {q}} /\ recorded \subseteq recorded'
    BY DEF RecordCandidate, Promote, PromoteSeed, Evaluate
  <2>3. stable' = stable \/ (q \in recorded /\ stable' = stable \cup {q})
    BY DEF RecordCandidate, Promote, PromoteSeed, Evaluate, Promotable
  <2> QED BY <2>1, <2>2, <2>3
<1>5. evaluations' \subseteq [baseline : Versions, candidate : Versions, verdict : Verdicts]
  <2>1. q.baseline \in Versions /\ q.version \in Versions
    BY DEF Versions
  <2>2. \/ evaluations' = evaluations
        \/ \E v \in Verdicts :
             evaluations' = evaluations \cup {[baseline |-> q.baseline, candidate |-> q.version, verdict |-> v]}
    BY DEF RecordCandidate, Promote, PromoteSeed, Evaluate
  <2> QED BY <2>1, <2>2 DEF EvolutionInv, ShapeOK
<1>6. ShapeOK'
  BY <1>1, <1>4, <1>5 DEF EvolutionInv, ShapeOK, projection
<1>7. \A x, y \in recorded' : x.version = y.version => x = y
  BY DEF RecordCandidate, Promote, PromoteSeed, Evaluate, VersionIsFree, EvolutionInv, CatalogOK
<1>8. \A b, v : Passed(b, v) => Passed(b, v)'
  BY <1>1 DEF Passed
<1>9. \A x \in stable' : x \in stable \/ (x \in Proposals /\ Passed(x.baseline, x.version))
  BY DEF RecordCandidate, Promote, PromoteSeed, Evaluate, Promotable
<1>10. CatalogOK'
  BY <1>7, <1>8, <1>9 DEF EvolutionInv, CatalogOK, Versions
<1> QED BY <1>2, <1>3, <1>6, <1>10 DEF EvolutionInv

\* Every step of the evolution keeps the invariant.
LEMMA StepKeepsEvolution ==
  ASSUME EvolutionInv, [EvolutionNext]_evolutionVars
  PROVE  EvolutionInv'
<1>1. CASE UNCHANGED evolutionVars
  <2>1. UNCHANGED <<recorded, evaluations, stable, versions, active, history, control, regression, paused, call, bound>>
    BY <1>1 DEF evolutionVars
  <2>2. HistoriesOK'
    BY <2>1, HistoriesKept DEF EvolutionInv, projection
  <2> QED BY <2>1, <2>2 DEF EvolutionInv, ShapeOK, CatalogOK, Passed, CallsOK, OwnerOrEvidence, BoundOK
<1>2. ASSUME NEW k \in Controllers, AppendControl(k) PROVE EvolutionInv'
  <2>1. HistoriesOK' /\ ShapeOK' /\ OwnerOrEvidence'
    BY <1>2, ControlExtends
  <2>2. call' = [call EXCEPT ![k] = Idle] /\ UNCHANGED <<catalog, regression, paused, bound>>
    BY <1>2 DEF AppendControl
  <2>3. CatalogOK' /\ BoundOK'
    BY <2>2 DEF EvolutionInv, CatalogOK, Passed, BoundOK, catalog
  <2>4. CallsOK'
    BY <2>2 DEF EvolutionInv, ShapeOK, CallsOK
  <2> QED BY <2>1, <2>3, <2>4 DEF EvolutionInv
<1>3. ASSUME NEW k \in Controllers,
             \/ \E a \in Aggregates, q \in Proposals, owner \in BOOLEAN :
                  BeginActivation(k, a, q, owner) \/ BeginRollback(k, a, q, owner)
             \/ ActivationReadsActive(k) \/ ReadVersion(k) \/ RefuseControl(k)
      PROVE  EvolutionInv'
  BY <1>3, CallSteps
<1>4. ASSUME NEW q \in Proposals,
             \/ RecordCandidate(q) \/ Promote(q) \/ PromoteSeed(q)
             \/ \E k \in Controllers, v \in Verdicts : Evaluate(k, q, v)
      PROVE  EvolutionInv'
  BY <1>4, CatalogSteps
<1>5. ASSUME NEW b \in BOOLEAN, SetPaused(b) PROVE EvolutionInv'
  <2>1. UNCHANGED <<recorded, evaluations, stable, versions, active, history, control, regression, call, bound>>
    BY <1>5 DEF SetPaused, catalog, projection
  <2>2. HistoriesOK'
    BY <2>1, HistoriesKept DEF EvolutionInv, projection
  <2> QED BY <2>1, <2>2 DEF EvolutionInv, ShapeOK, CatalogOK, Passed, CallsOK, OwnerOrEvidence, BoundOK
<1>6. ASSUME NEW r \in PinnedRuns, BindRun(r) PROVE EvolutionInv'
  <2>1. PICK q \in ActiveNow : MatchesRegistry(q) /\ bound' = [bound EXCEPT ![r] = q]
    BY <1>6 DEF BindRun
  <2>2. UNCHANGED <<recorded, evaluations, stable, versions, active, history, control, regression, paused, call>>
    BY <1>6 DEF BindRun, catalog, projection
  <2>3. q \in stable
    <3>1. PICK a \in Aggregates : q = active[a] /\ q # None
      BY <2>1 DEF ActiveNow
    <3>2. PICK h \in Seq(Entries) : h = history[a] /\ HistoryOK(a, h)
      BY DEF EvolutionInv, HistoriesOK, ShapeOK
    <3>3. PICK n \in Nat : n = Len(h)
      BY <3>2, LenProperties
    <3>4. q = Before(h, n + 1)
      BY <3>1, <3>2, <3>3 DEF HistoryOK
    <3>5. n # 0 /\ q = h[n].to
      BY <3>1, <3>3, <3>4 DEF Before
    <3>6. n \in 1..n
      BY <3>5
    <3> QED BY <3>2, <3>3, <3>5, <3>6 DEF HistoryOK
  <2>4. ShapeOK'
    BY <2>1, <2>2, <2>3 DEF EvolutionInv, ShapeOK
  <2>5. BoundOK'
    BY <2>1, <2>2, <2>3 DEF EvolutionInv, ShapeOK, BoundOK, MatchesRegistry
  <2>6. HistoriesOK'
    BY <2>2, HistoriesKept DEF EvolutionInv, projection
  <2> QED BY <2>2, <2>4, <2>5, <2>6 DEF EvolutionInv, CatalogOK, Passed, CallsOK, OwnerOrEvidence
<1>7. CASE EvolutionCrash
  <2>1. /\ UNCHANGED <<recorded, evaluations, stable, versions, active, history, control, regression>>
        /\ call' = [k \in Controllers |-> Idle] /\ bound' = [r \in PinnedRuns |-> None]
    BY <1>7 DEF EvolutionCrash, catalog, projection
  <2>2. HistoriesOK'
    BY <2>1, HistoriesKept DEF EvolutionInv, projection
  <2>3. ShapeOK'
    BY <2>1 DEF EvolutionInv, ShapeOK, Calls
  <2> QED BY <2>1, <2>2, <2>3 DEF EvolutionInv, CatalogOK, Passed, CallsOK, OwnerOrEvidence, BoundOK
<1> QED BY <1>1, <1>2, <1>3, <1>4, <1>5, <1>6, <1>7 DEF EvolutionNext

\* A control event for each entry of a history, and no other.
LEMMA AsManyControls ==
  ASSUME NEW a, NEW h, NEW n \in Nat, n = Len(h), HistoryOK(a, h)
  PROVE  Cardinality(ControlOf(a)) = n
<1> DEFINE seqs == 1..n
           controls == ControlOf(a)
           event == [i \in seqs |-> CHOOSE e \in controls : e.committed = i]
<1>1. event \in [seqs -> controls] /\ \A i \in seqs : event[i].committed = i
  BY DEF HistoryOK
<1>2. \A i, j \in seqs : event[i] = event[j] => i = j
  BY <1>1
<1>3. \A e \in controls : \E i \in seqs : event[i] = e
  BY <1>1 DEF HistoryOK
<1>4. IsFiniteSet(seqs) /\ Cardinality(seqs) = n
  <2>1. 1 \in Int /\ n \in Int
    OBVIOUS
  <2>2. IsFiniteSet(seqs) /\ Cardinality(seqs) = IF 1 > n THEN 0 ELSE n - 1 + 1
    BY <2>1, FS_Interval
  <2> QED BY <2>2
<1> HIDE DEF event, seqs, controls
<1>5. event \in Bijection(seqs, controls)
  BY <1>1, <1>2, <1>3, Fun_IsBij
<1>6. ExistsBijection(seqs, controls)
  BY <1>5 DEF ExistsBijection
<1>7. Cardinality(controls) = n
  BY <1>4, <1>6, FS_Bijection
<1> QED BY <1>7 DEF controls

\* The n-th control event is the one committed as n.
LEMMA EventsByNumber ==
  ASSUME NEW a, NEW h, HistoryOK(a, h), NEW e \in ControlOf(a)
  PROVE  EventAt(a, e.committed) = e
<1>1. e \in control /\ e.aggregate = a
  BY DEF ControlOf
<1>2. \A f \in control : (f.aggregate = a /\ f.committed = e.committed) => f = e
  BY DEF HistoryOK, ControlOf
<1> QED BY <1>1, <1>2 DEF EventAt

\* What the log says of an aggregate is what the projection holds.
LEMMA HistoryIsRebuilt ==
  ASSUME NEW a, NEW h \in Seq(Entries), HistoryOK(a, h)
  PROVE  /\ {e.committed : e \in ControlOf(a)} = 1..Cardinality(ControlOf(a))
         /\ \A e \in ControlOf(a) :
              /\ e.to \in stable /\ TransitionIsProven(e)
              /\ e.from = IF e.committed = 1 THEN None ELSE EventAt(a, e.committed - 1).to
         /\ RebuiltHistory(a) = h /\ RebuiltActive(a) = active[a]
<1>1. PICK n \in Nat : n = Len(h)
  BY LenProperties
<1>2. Cardinality(ControlOf(a)) = n
  BY <1>1, AsManyControls
<1>3. \A i \in 1..n : \E e \in ControlOf(a) : e.committed = i
  BY <1>1 DEF HistoryOK
<1>4. \A e \in ControlOf(a) : /\ e.committed \in 1..n
                              /\ e.kind = h[e.committed].kind /\ e.to = h[e.committed].to
                              /\ e.from = Before(h, e.committed) /\ TransitionIsProven(e)
  BY <1>1 DEF HistoryOK
<1>5. \A i \in 1..n : EventAt(a, i).kind = h[i].kind /\ EventAt(a, i).to = h[i].to
  <2> SUFFICES ASSUME NEW i \in 1..n PROVE EventAt(a, i).kind = h[i].kind /\ EventAt(a, i).to = h[i].to
    OBVIOUS
  <2>1. PICK e \in ControlOf(a) : e.committed = i
    BY <1>3
  <2>2. EventAt(a, i) = e
    BY <2>1, EventsByNumber
  <2> QED BY <1>4, <2>1, <2>2
<1>6. {e.committed : e \in ControlOf(a)} = 1..n
  BY <1>3, <1>4
<1>7. ASSUME NEW e \in ControlOf(a)
      PROVE  /\ e.to \in stable /\ TransitionIsProven(e)
             /\ e.from = IF e.committed = 1 THEN None ELSE EventAt(a, e.committed - 1).to
  <2>1. PICK i \in 1..n : i = e.committed
    BY <1>4
  <2>2. e.to \in stable /\ TransitionIsProven(e)
    <3>1. h[i].to \in stable
      BY <1>1 DEF HistoryOK
    <3> QED BY <1>4, <2>1, <3>1
  <2>3. CASE i = 1
    BY <1>4, <2>1, <2>2, <2>3 DEF Before
  <2>4. CASE i # 1
    <3>1. i - 1 \in 1..n
      BY <2>4
    <3>2. EventAt(a, i - 1).to = h[i - 1].to
      BY <1>5, <3>1
    <3>3. e.from = h[i - 1].to
      BY <1>4, <2>1, <2>4 DEF Before
    <3> QED BY <2>1, <2>2, <2>4, <3>2, <3>3
  <2> QED BY <2>3, <2>4
<1>8. RebuiltHistory(a) = h
  <2>1. \A i \in 1..n : h[i] = [kind |-> h[i].kind, to |-> h[i].to]
    <3> SUFFICES ASSUME NEW i \in 1..n PROVE h[i] = [kind |-> h[i].kind, to |-> h[i].to]
      OBVIOUS
    <3>1. h[i] \in Entries
      BY <1>1
    <3> QED BY <3>1 DEF Entries
  <2>2. h = [i \in 1..n |-> h[i]]
    BY <1>1
  <2>3. h = [i \in 1..n |-> [kind |-> EventAt(a, i).kind, to |-> EventAt(a, i).to]]
    BY <1>5, <2>1, <2>2
  <2> QED BY <1>2, <2>3 DEF RebuiltHistory
<1>9. RebuiltActive(a) = active[a]
  <2>1. active[a] = Before(h, n + 1)
    BY <1>1 DEF HistoryOK
  <2>2. CASE n = 0
    <3>1. ControlOf(a) = {}
      BY <1>4, <2>2
    <3> QED BY <2>1, <2>2, <3>1 DEF RebuiltActive, Before
  <2>3. CASE n # 0
    <3>1. n \in 1..n /\ n + 1 # 1 /\ n + 1 - 1 = n
      BY <2>3
    <3>2. ControlOf(a) # {}
      BY <1>3, <3>1
    <3>3. EventAt(a, n).to = h[n].to
      BY <1>5, <3>1
    <3> QED BY <1>2, <2>1, <3>1, <3>2, <3>3 DEF RebuiltActive, Before
  <2> QED BY <2>2, <2>3
<1> QED BY <1>2, <1>6, <1>7, <1>8, <1>9

\* The invariant says what the run checks.
LEMMA EvolutionFollows == EvolutionInv => EvolutionIsSound
<1> SUFFICES ASSUME EvolutionInv PROVE EvolutionIsSound
  OBVIOUS
<1>1. ASSUME NEW a \in Aggregates
      PROVE  \E h \in Seq(Entries) : h = history[a] /\ HistoryOK(a, h)
  BY DEF EvolutionInv, HistoriesOK, ShapeOK
<1>2. EvolutionTypeOK
  <2>1. \A a \in Aggregates : versions[a] = Len(history[a])
    BY <1>1 DEF HistoryOK
  <2> QED BY <2>1 DEF EvolutionInv, ShapeOK, EvolutionTypeOK
<1>3. ActiveIsProven
  <2> SUFFICES ASSUME NEW a \in Aggregates, NEW n \in 1..Len(history[a])
               PROVE  /\ history[a][n].to \in stable
                      /\ \E b \in Versions : Passed(b, history[a][n].to.version)
                      /\ (history[a][n].kind = "activated" /\ n > 1)
                           => Passed(history[a][n-1].to.version, history[a][n].to.version)
    BY DEF ActiveIsProven
  <2>1. PICK h \in Seq(Entries) : h = history[a] /\ HistoryOK(a, h)
    BY <1>1
  <2>2. /\ h[n].to \in stable
        /\ (h[n].kind = "activated" /\ n > 1) => Passed(h[n-1].to.version, h[n].to.version)
    BY <2>1 DEF HistoryOK
  <2>3. \E b \in Versions : Passed(b, h[n].to.version)
    BY <2>2 DEF EvolutionInv, CatalogOK
  <2> QED BY <2>1, <2>2, <2>3
<1>4. RebuildReproduces
  <2>1. ASSUME NEW a \in Aggregates
        PROVE  /\ {e.committed : e \in ControlOf(a)} = 1..Cardinality(ControlOf(a))
               /\ \A e \in ControlOf(a) :
                    /\ e.to \in stable /\ TransitionIsProven(e)
                    /\ e.from = IF e.committed = 1 THEN None ELSE EventAt(a, e.committed - 1).to
               /\ RebuiltHistory(a) = history[a] /\ RebuiltActive(a) = active[a]
    <3>1. PICK h \in Seq(Entries) : h = history[a] /\ HistoryOK(a, h)
      BY <1>1
    <3> QED BY <3>1, HistoryIsRebuilt
  <2> QED BY <2>1 DEF RebuildReproduces, Rebuildable
<1>5. OwnerOrEvidence
  BY DEF EvolutionInv
<1>6. VersionsAreImmutable
  BY DEF EvolutionInv, ShapeOK, CatalogOK, BoundOK, VersionsAreImmutable
<1> QED BY <1>2, <1>3, <1>4, <1>5, <1>6 DEF EvolutionIsSound

\* Whatever calls, runs and crashes come between the reads of a controller
\* and its append: what is active was promoted and has passed, each control
\* event replaced what the one before it had put in place, a rebuild gives
\* the projection, owner or evidence stood behind every change, and a
\* version names one content (activate, rollback, append_evolution_expected,
\* rebuild_evolution_projection).
THEOREM EvolutionStaysSound == GrowthSpec => []EvolutionIsSound
<1>1. GrowthInit => EvolutionInv
  BY InitEvolution DEF GrowthInit
<1>2. EvolutionInv /\ [GrowthNext]_growthVars => EvolutionInv'
  BY SubjectsStep, StepKeepsEvolution
<1> QED BY <1>1, <1>2, EvolutionFollows, PTL DEF GrowthSpec

\* A run is never moved to another strategy: what is activated or rolled
\* back meanwhile is for later runs, and only a crash takes the binding away
\* (bind_and_drive_inner).
THEOREM RunsAreNeverRebound == GrowthSpec => [][RunsStayPinned]_growthVars
<1>1. EvolutionInv /\ [GrowthNext]_growthVars => [RunsStayPinned]_growthVars
  <2> SUFFICES ASSUME EvolutionInv, GrowthNext PROVE RunsStayPinned
    BY DEF growthVars
  <2>0. bound \in [PinnedRuns -> Proposals \cup {None}]
    BY DEF EvolutionInv, ShapeOK
  <2>1. CASE UNCHANGED bound
    BY <2>1 DEF RunsStayPinned
  <2>2. ASSUME NEW r \in PinnedRuns, BindRun(r) PROVE RunsStayPinned
    BY <2>0, <2>2 DEF BindRun, RunsStayPinned
  <2>3. CASE EvolutionCrash
    BY <2>3 DEF EvolutionCrash, RunsStayPinned
  <2>4. CASE EvolutionNext
    <3>1. CASE ~ \E r \in PinnedRuns : BindRun(r)
      BY <2>1, <2>3, <2>4, <3>1 DEF EvolutionNext, RecordCandidate, Promote, PromoteSeed, Evaluate, BeginActivation,
         BeginRollback, ActivationReadsActive, ReadVersion, AppendControl, RefuseControl, SetPaused
    <3> QED BY <2>2, <3>1
  <2> QED BY <2>1, <2>4 DEF GrowthNext, evolutionVars
<1>2. GrowthInit => EvolutionInv
  BY InitEvolution DEF GrowthInit
<1>3. EvolutionInv /\ [GrowthNext]_growthVars => EvolutionInv'
  BY SubjectsStep, StepKeepsEvolution
<1> QED BY <1>1, <1>2, <1>3, PTL DEF GrowthSpec

-----------------------------------------------------------------------------
(* Long-horizon projects                                                   *)

RunStatuses == {"accepted", "complete", "failed"}
Records == [index : Nat, key : ScheduleKeys, status : RunStatuses, outward : BOOLEAN]
Projects == [remaining : Nat, next : Nat, deferred : BOOLEAN, cancelled : BOOLEAN, revoked : BOOLEAN,
             records : Seq(Records)]
Underway == [at : {"accepted", "complete", "failed", "outward"}, key : ScheduleKeys]

ProjectShapeOK ==
  /\ project \in Projects /\ step \in {AtRest} \cup Underway
  /\ DOMAIN keyRuns \subseteq ScheduleKeys /\ keyRuns = [k \in DOMAIN keyRuns |-> keyRuns[k]]
  /\ \A k \in DOMAIN keyRuns : keyRuns[k] \in RunStatuses

\* The records of a project, and the runs they claim.
RecordsOK(records) ==
  /\ project.next = Len(records) /\ project.remaining + project.next = MaximumCheckpoints
  /\ \A i \in 1..Len(records) :
       /\ records[i].index = i - 1 /\ records[i].key \in DOMAIN keyRuns
       /\ records[i].outward => records[i].key \in outward
       /\ records[i].status = "complete" => [key |-> records[i].key, index |-> records[i].index] \in marks
  /\ \A i, j \in 1..Len(records) : records[i].key = records[j].key => i = j

\* An advance under way has a run that no record counts yet.
AdvanceOK(at, key) ==
  /\ key \in DOMAIN keyRuns /\ project.remaining > 0
  /\ \A i \in 1..Len(project.records) : project.records[i].key # key
  /\ keyRuns[key] = CASE at = "accepted" -> "accepted"
                      [] at = "failed" -> "failed"
                      [] at \in {"complete", "outward"} -> "complete"
  /\ at \in {"complete", "outward"} => [key |-> key, index |-> project.next] \in marks
  /\ at = "outward" => key \in outward

OutwardOK == \A k \in outward : k \in DOMAIN keyRuns /\ keyRuns[k] = "complete" /\ \E m \in marks : m.key = k

ProjectInv ==
  /\ ProjectShapeOK /\ OutwardOK
  /\ \E records : records = project.records /\ RecordsOK(records)
  /\ step # AtRest => AdvanceOK(step.at, step.key)

\* A new project has done nothing.
LEMMA FreshProject ==
  /\ NewProject \in Projects /\ NewProject.records = <<>> /\ NewProject.next = 0
  /\ NewProject.remaining = MaximumCheckpoints
BY LongHorizonAssumption DEF LongHorizonAssumption, NewProject, Projects

\* Where an advance is.
LEMMA AdvanceAt ==
  ASSUME ProjectInv, step.at # "rest"
  PROVE  /\ step # AtRest /\ step \in Underway /\ step.key \in ScheduleKeys
         /\ AdvanceOK(step.at, step.key)
<1>1. AtRest.at = "rest"
  BY DEF AtRest
<1>2. step # AtRest
  BY <1>1
<1>3. step \in Underway
  BY <1>2 DEF ProjectInv, ProjectShapeOK
<1> QED BY <1>2, <1>3 DEF ProjectInv, Underway

\* The initial project.
LEMMA InitProject == LongHorizonInit => ProjectInv
<1> SUFFICES ASSUME LongHorizonInit PROVE ProjectInv
  OBVIOUS
<1>1. ProjectShapeOK /\ OutwardOK
  BY FreshProject DEF LongHorizonInit, ProjectShapeOK, OutwardOK
<1>2. RecordsOK(<<>>)
  BY FreshProject, LongHorizonAssumption DEF LongHorizonInit, RecordsOK, LongHorizonAssumption
<1> QED BY <1>1, <1>2, FreshProject DEF LongHorizonInit, ProjectInv

\* The runs of keys that were counted or went outward stay as they are.
LEMMA ProjectKept ==
  ASSUME ProjectInv, UNCHANGED project, marks \subseteq marks', outward' = outward,
         DOMAIN keyRuns \subseteq DOMAIN keyRuns',
         \A k \in DOMAIN keyRuns : keyRuns[k] = "complete" => keyRuns'[k] = "complete"
  PROVE  OutwardOK' /\ (\E records : records = project.records /\ RecordsOK(records))'
<1>1. OutwardOK'
  BY DEF ProjectInv, OutwardOK
<1>2. PICK records : records = project.records /\ RecordsOK(records)
  BY DEF ProjectInv
<1>3. RecordsOK(records)'
  BY <1>2 DEF RecordsOK
<1> QED BY <1>1, <1>2, <1>3

\* Every step of a project keeps the invariant.
LEMMA StepKeepsProject ==
  ASSUME ProjectInv, [LongHorizonNext]_longHorizonVars
  PROVE  ProjectInv'
<1>0. CASE UNCHANGED longHorizonVars
  <2>1. project' = project /\ step' = step /\ keyRuns' = keyRuns /\ marks' = marks /\ outward' = outward
    BY <1>0 DEF longHorizonVars
  <2>2. ProjectShapeOK' /\ OutwardOK'
    BY <2>1 DEF ProjectInv, ProjectShapeOK, OutwardOK
  <2>3. (\E records : records = project.records /\ RecordsOK(records))'
    BY <2>1 DEF ProjectInv, RecordsOK
  <2>4. (step # AtRest => AdvanceOK(step.at, step.key))'
    BY <2>1 DEF ProjectInv, AdvanceOK
  <2> QED BY <2>2, <2>3, <2>4 DEF ProjectInv
<1>1. ASSUME NEW p \in Projects, project' = p, p.records = project.records, p.next = project.next,
             p.remaining = project.remaining, step = AtRest, UNCHANGED <<step, keyRuns, marks, outward>>
      PROVE  ProjectInv'
  BY <1>1 DEF ProjectInv, ProjectShapeOK, OutwardOK, RecordsOK
<1>2. CASE Defer
  <2>1. PICK p : p = [project EXCEPT !.deferred = TRUE]
    OBVIOUS
  <2>2. p \in Projects /\ p.records = project.records /\ p.next = project.next /\ p.remaining = project.remaining
    BY <2>1 DEF ProjectInv, ProjectShapeOK, Projects
  <2> QED BY <1>1, <1>2, <2>1, <2>2 DEF Defer
<1>3. ASSUME NEW how \in {"cancelled", "revoked"}, Stop(how) PROVE ProjectInv'
  <2>1. PICK p : p = [project EXCEPT ![how] = TRUE]
    OBVIOUS
  <2>2. p \in Projects /\ p.records = project.records /\ p.next = project.next /\ p.remaining = project.remaining
    BY <2>1 DEF ProjectInv, ProjectShapeOK, Projects
  <2> QED BY <1>1, <1>3, <2>1, <2>2 DEF Stop
<1>4. ASSUME NEW key \in ScheduleKeys, BeginAdvance(key) PROVE ProjectInv'
  <2>1. /\ keyRuns' = [k \in DOMAIN keyRuns \cup {key} |-> IF k = key THEN "accepted" ELSE keyRuns[k]]
        /\ key \notin DOMAIN keyRuns /\ UNCHANGED <<project, marks, outward>>
    BY <1>4 DEF BeginAdvance
  <2>2. /\ DOMAIN keyRuns' = DOMAIN keyRuns \cup {key} /\ keyRuns'[key] = "accepted"
        /\ \A k \in DOMAIN keyRuns : keyRuns'[k] = keyRuns[k]
    BY <2>1
  <2>3. step' = [at |-> "accepted", key |-> key] /\ step' \in Underway /\ step'.at = "accepted" /\ step'.key = key
    BY <1>4 DEF BeginAdvance, Underway
  <2>4. ProjectShapeOK'
    BY <2>1, <2>2, <2>3 DEF ProjectInv, ProjectShapeOK, RunStatuses
  <2>5. OutwardOK' /\ (\E records : records = project.records /\ RecordsOK(records))'
    BY <2>1, <2>2, ProjectKept
  <2>6. AdvanceOK("accepted", key)'
    <3>1. PICK records : records = project.records /\ RecordsOK(records)
      BY DEF ProjectInv
    <3>2. \A i \in 1..Len(records) : records[i].key # key
      BY <2>1, <3>1 DEF RecordsOK
    <3>3. project.remaining > 0
      BY <1>4 DEF BeginAdvance, MayAdvance
    <3> QED BY <2>1, <2>2, <3>1, <3>2, <3>3 DEF AdvanceOK
  <2> QED BY <2>3, <2>4, <2>5, <2>6 DEF ProjectInv
<1>5. ASSUME NEW key \in ScheduleKeys, ResumeAccepted(key) PROVE ProjectInv'
  <2>1. /\ keyRuns' = [keyRuns EXCEPT ![key] = "complete"] /\ key \in DOMAIN keyRuns
        /\ step = AtRest /\ UNCHANGED <<project, step, marks, outward>>
    BY <1>5 DEF ResumeAccepted
  <2>2. ProjectShapeOK'
    BY <2>1 DEF ProjectInv, ProjectShapeOK, RunStatuses
  <2>3. OutwardOK' /\ (\E records : records = project.records /\ RecordsOK(records))'
    BY <2>1, ProjectKept
  <2> QED BY <2>1, <2>2, <2>3 DEF ProjectInv
<1>6. ASSUME NEW status \in {"complete", "failed"}, NEW at \in {"complete", "failed", "rest"}, step.at = "accepted",
             keyRuns' = [keyRuns EXCEPT ![step.key] = status],
             marks \subseteq marks', UNCHANGED <<project, outward>>,
             at = "complete" => status = "complete" /\ [key |-> step.key, index |-> project.next] \in marks',
             at = "failed" => status = "failed",
             step' = IF at = "rest" THEN AtRest ELSE [at |-> at, key |-> step.key]
      PROVE  ProjectInv'
  <2>1. PICK key \in ScheduleKeys : key = step.key /\ AdvanceOK("accepted", key)
    BY <1>6, AdvanceAt
  <2>2. key \in DOMAIN keyRuns /\ keyRuns[key] = "accepted"
    BY <2>1 DEF AdvanceOK
  <2>3. /\ DOMAIN keyRuns' = DOMAIN keyRuns /\ keyRuns'[key] = status
        /\ \A k \in DOMAIN keyRuns : k # key => keyRuns'[k] = keyRuns[k]
    BY <1>6, <2>1, <2>2
  <2>4. ProjectShapeOK'
    <3>1. step' \in {AtRest} \cup Underway
      BY <1>6, <2>1 DEF Underway
    <3>2. keyRuns' = [k \in DOMAIN keyRuns' |-> keyRuns'[k]]
      BY <1>6
    <3> QED BY <1>6, <2>3, <3>1, <3>2 DEF ProjectInv, ProjectShapeOK, RunStatuses
  <2>5. OutwardOK' /\ (\E records : records = project.records /\ RecordsOK(records))'
    BY <1>6, <2>2, <2>3, ProjectKept
  <2>6. CASE at = "rest"
    BY <1>6, <2>4, <2>5, <2>6 DEF ProjectInv
  <2>7. CASE at # "rest"
    <3>1. AdvanceOK(at, key)'
      BY <1>6, <2>1, <2>3, <2>7 DEF AdvanceOK
    <3>2. step' = [at |-> at, key |-> key]
      BY <1>6, <2>1, <2>7
    <3>3. step'.at = at /\ step'.key = key
      BY <3>2
    <3> QED BY <2>4, <2>5, <3>1, <3>3 DEF ProjectInv
  <2> QED BY <2>6, <2>7
<1>7. CASE DriveCheckpoint
  BY <1>6, <1>7 DEF DriveCheckpoint
<1>8. CASE RouteFails
  BY <1>6, <1>8 DEF RouteFails
<1>9. ASSUME NEW c \in BOOLEAN, CheckpointFails(c) PROVE ProjectInv'
  BY <1>6, <1>9 DEF CheckpointFails
<1>10. CASE GoOutward
  <2>1. PICK key \in ScheduleKeys : key = step.key /\ AdvanceOK("complete", key)
    BY <1>10, AdvanceAt DEF GoOutward, MayGoOutward
  <2>2. outward' = outward \cup {key} /\ step' = [at |-> "outward", key |-> key] /\ UNCHANGED <<project, keyRuns, marks>>
    BY <1>10, <2>1 DEF GoOutward
  <2>3. step' \in Underway /\ step'.at = "outward" /\ step'.key = key
    BY <2>2 DEF Underway
  <2>4. ProjectShapeOK'
    BY <2>2, <2>3 DEF ProjectInv, ProjectShapeOK
  <2>5. key \in DOMAIN keyRuns /\ keyRuns[key] = "complete" /\ [key |-> key, index |-> project.next] \in marks
    BY <2>1 DEF AdvanceOK
  <2>6. OutwardOK'
    BY <2>2, <2>5 DEF ProjectInv, OutwardOK
  <2>7. (\E records : records = project.records /\ RecordsOK(records))'
    BY <2>2 DEF ProjectInv, RecordsOK
  <2>8. AdvanceOK("outward", key)'
    BY <2>1, <2>2 DEF AdvanceOK
  <2> QED BY <2>3, <2>4, <2>6, <2>7, <2>8 DEF ProjectInv
<1>11. CASE OutwardFails
  BY <1>11 DEF OutwardFails, ProjectInv, ProjectShapeOK, OutwardOK, RecordsOK
<1>12. CASE FinishAdvance
  <2>1. PICK key \in ScheduleKeys, at \in {"complete", "failed", "outward"} :
          key = step.key /\ at = step.at /\ AdvanceOK(at, key)
    BY <1>12, AdvanceAt DEF FinishAdvance
  <2>2. PICK records \in Seq(Records), n \in Nat, left \in Nat :
          records = project.records /\ n = Len(records) /\ n = project.next /\ left = project.remaining /\ RecordsOK(records)
    <3>1. PICK records : records = project.records /\ RecordsOK(records)
      BY DEF ProjectInv
    <3>2. records \in Seq(Records) /\ project.remaining \in Nat /\ project.next \in Nat /\ project.next = Len(records)
      BY <3>1 DEF ProjectInv, ProjectShapeOK, Projects, RecordsOK
    <3> QED BY <3>1, <3>2
  <2>3. PICK record : record = [index |-> n, key |-> key, status |-> keyRuns[key], outward |-> at = "outward"]
    OBVIOUS
  <2>4. record \in Records /\ record.index = n /\ record.key = key /\ record.status = keyRuns[key]
    BY <2>1, <2>3 DEF AdvanceOK, ProjectInv, ProjectShapeOK, Records
  <2>5. PICK more : more = Append(records, record)
    OBVIOUS
  <2>6. /\ more \in Seq(Records) /\ Len(more) = n + 1
        /\ \A i \in 1..n : more[i] = records[i]
        /\ more[n + 1] = record
    <3>1. records \in Seq(Records) /\ n = Len(records) /\ record \in Records
      BY <2>2, <2>4
    <3> QED BY <2>5, <3>1, AppendProperties
  <2>7. left > 0 /\ key \in DOMAIN keyRuns /\ \A i \in 1..n : records[i].key # key
    BY <2>1, <2>2 DEF AdvanceOK
  <2>8. /\ project' = [project EXCEPT !.remaining = @ - 1, !.next = @ + 1, !.deferred = FALSE,
                                      !.records = Append(@, Record)]
        /\ Record = record /\ step' = AtRest /\ UNCHANGED <<keyRuns, marks, outward>>
    BY <1>12, <2>1, <2>2, <2>3 DEF FinishAdvance, Record
  <2>9. project' \in Projects /\ project'.records = more /\ project'.next = n + 1 /\ project'.remaining = left - 1
    <3>1. project \in Projects /\ records = project.records /\ n = project.next /\ left = project.remaining
      BY <2>2 DEF ProjectInv, ProjectShapeOK
    <3>2. PICK cancelled, revoked \in BOOLEAN : cancelled = project.cancelled /\ revoked = project.revoked
      BY <3>1 DEF Projects
    <3>3. project' = [remaining |-> left - 1, next |-> n + 1, deferred |-> FALSE, cancelled |-> cancelled,
                      revoked |-> revoked, records |-> more]
      BY <2>5, <2>8, <3>1, <3>2 DEF Projects
    <3>4. left - 1 \in Nat /\ n + 1 \in Nat
      BY <2>7
    <3> QED BY <2>6, <3>3, <3>4 DEF Projects
  <2>10. RecordsOK(more)'
    <3>1. project'.next = Len(more) /\ project'.remaining + project'.next = MaximumCheckpoints
      <4>1. left + n = MaximumCheckpoints
        BY <2>2 DEF RecordsOK
      <4> QED BY <2>6, <2>7, <2>9, <4>1, LongHorizonAssumption DEF LongHorizonAssumption
    <3>2. ASSUME NEW i \in 1..(n + 1)
          PROVE  /\ more[i].index = i - 1 /\ more[i].key \in DOMAIN keyRuns
                 /\ more[i].outward => more[i].key \in outward
                 /\ more[i].status = "complete" => [key |-> more[i].key, index |-> more[i].index] \in marks
      <4>1. CASE i = n + 1
        <5>1. record.outward => key \in outward
          BY <2>1, <2>3 DEF AdvanceOK
        <5>2. record.status = "complete" => [key |-> key, index |-> n] \in marks
          BY <2>1, <2>2, <2>4 DEF AdvanceOK
        <5> QED BY <2>4, <2>6, <2>7, <4>1, <5>1, <5>2
      <4>2. CASE i # n + 1
        <5>1. i \in 1..n
          BY <4>2
        <5> QED BY <2>2, <2>6, <5>1 DEF RecordsOK
      <4> QED BY <4>1, <4>2
    <3>3. ASSUME NEW i \in 1..(n + 1), NEW j \in 1..(n + 1), more[i].key = more[j].key PROVE i = j
      <4>1. CASE i = n + 1
        BY <2>4, <2>6, <2>7, <3>3, <4>1
      <4>2. CASE j = n + 1
        BY <2>4, <2>6, <2>7, <3>3, <4>2
      <4>3. CASE i # n + 1 /\ j # n + 1
        <5>1. i \in 1..n /\ j \in 1..n
          BY <4>3
        <5> QED BY <2>2, <2>6, <3>3, <5>1 DEF RecordsOK
      <4> QED BY <4>1, <4>2, <4>3
    <3> QED BY <2>6, <2>8, <3>1, <3>2, <3>3 DEF RecordsOK
  <2>11. ProjectShapeOK' /\ OutwardOK'
    BY <2>8, <2>9 DEF ProjectInv, ProjectShapeOK, OutwardOK
  <2> QED BY <2>8, <2>9, <2>10, <2>11 DEF ProjectInv
<1>13. CASE LoseProject
  <2>1. project' = NewProject /\ step' = AtRest /\ UNCHANGED <<keyRuns, marks, outward>>
    BY <1>13 DEF LoseProject
  <2>2. ProjectShapeOK' /\ OutwardOK'
    BY <2>1, FreshProject DEF ProjectInv, ProjectShapeOK, OutwardOK
  <2>3. RecordsOK(<<>>)'
    BY <2>1, FreshProject, LongHorizonAssumption DEF RecordsOK, LongHorizonAssumption
  <2> QED BY <2>1, <2>2, <2>3, FreshProject DEF ProjectInv
<1> QED
  BY <1>0, <1>2, <1>3, <1>4, <1>5, <1>7, <1>8, <1>9, <1>10, <1>11, <1>12, <1>13 DEF LongHorizonNext

\* A project counts what it has done: its records are its checkpoints in
\* order, each by a run of its own, and what remains is what is left of the
\* maximum; nothing goes outward without a checkpoint in the log, and what a
\* record claims of its run is so, through failures of every step and the
\* loss of the project (advance_long_horizon).
THEOREM ProjectStaysSound == GrowthSpec => []ProjectIsSound
<1>1. GrowthInit => ProjectInv
  BY InitProject DEF GrowthInit
<1>2. ProjectInv /\ [GrowthNext]_growthVars => ProjectInv'
  BY SubjectsStep, StepKeepsProject
<1>3. ProjectInv => ProjectIsSound
  BY DEF ProjectInv, OutwardOK, RecordsOK, ProjectIsSound, ProjectIsCounted, OutwardRestsOnCheckpoint
<1> QED BY <1>1, <1>2, <1>3, PTL DEF GrowthSpec

-----------------------------------------------------------------------------
(* The strategy memory                                                       *)

\* A set of numbers has a least one.
LEMMA LeastOf ==
  ASSUME NEW S, S \subseteq Nat, S # {}
  PROVE  \E m \in S : \A n \in S : m <= n
<1>1. PICK m \in S : \A n \in S : ~ (<<n, m>> \in OpToRel(<, Nat))
  BY NatLessThanWellFounded, WFMin
<1>2. \A n \in S : ~ (n < m)
  BY <1>1 DEF OpToRel
<1> QED BY <1>2

\* The greatest of a set of numbers.
LEMMA MaxIs ==
  ASSUME NEW S \in SUBSET Int, NEW m \in S, \A y \in S : y <= m
  PROVE  Max(S) = m
<1>1. \A y \in S : m >= y
  OBVIOUS
<1>2. Max(S) \in S /\ \A y \in S : Max(S) >= y
  BY <1>1 DEF Max
<1>3. Max(S) \in Int /\ m \in Int /\ Max(S) >= m /\ Max(S) <= m
  BY <1>2
<1> QED BY <1>3

\* A set of positions up to n has a last one.
LEMMA LastOf ==
  ASSUME NEW n \in Nat, NEW S \in SUBSET (1..n), S # {}
  PROVE  \E m \in S : \A k \in S : k <= m
<1> DEFINE above == {b \in 0..n : \A k \in S : k <= b}
<1>1. n \in above /\ above \subseteq Nat
  OBVIOUS
<1>2. PICK m \in above : \A b \in above : m <= b
  BY <1>1, LeastOf
<1>3. m \in S
  <2>1. SUFFICES ASSUME m \notin S PROVE FALSE
    OBVIOUS
  <2>2. m \in 0..n /\ \A k \in S : k <= m /\ k # m /\ k \in 1..n
    BY <2>1
  <2>3. PICK x \in S : TRUE
    OBVIOUS
  <2>a. m \in 1..n
    BY <2>2, <2>3
  <2>b. \A k \in S : k <= m - 1
    BY <2>2
  <2>4. m - 1 \in above
    BY <2>a, <2>b
  <2> QED BY <1>2, <2>2, <2>4
<1> QED BY <1>3

\* The projections of the sets of positions up to n, and of the first positions one after the other.
Foldings(log, n, h) ==
  h = [s \in SUBSET (1..n) |-> IF s = {} THEN NothingKnown ELSE Project(h[s \ {Max(s)}], log[Max(s)])]
Passes(log, n, t) == t[0] = NothingKnown /\ \A k \in 1..n : t[k] = Project(t[k - 1], log[k])

\* There are projections of all sets of positions.
LEMMA FoldingsExist ==
  ASSUME NEW log, NEW n \in Nat
  PROVE  \E h : Foldings(log, n, h)
<1> DEFINE none == {k \in Nat : ~ \E h : Foldings(log, k, h)}
<1>1. 0 \notin none
  <2>1. PICK h : h = [s \in SUBSET (1..0) |-> NothingKnown]
    OBVIOUS
  <2>2. \A s \in SUBSET (1..0) : s = {}
    OBVIOUS
  <2>3. Foldings(log, 0, h)
    BY <2>1, <2>2 DEF Foldings
  <2> QED BY <2>3
<1>2. ASSUME NEW k \in Nat, k \notin none PROVE k + 1 \notin none
  <2>1. PICK h : Foldings(log, k, h)
    BY <1>2
  <2>2. PICK g : g = [s \in SUBSET (1..(k + 1)) |->
                        IF k + 1 \in s THEN Project(h[s \ {k + 1}], log[k + 1]) ELSE h[s]]
    OBVIOUS
  <2>3. ASSUME NEW s \in SUBSET (1..(k + 1))
        PROVE  g[s] = IF s = {} THEN NothingKnown ELSE Project(g[s \ {Max(s)}], log[Max(s)])
    <3>1. CASE k + 1 \in s
      <4>1. Max(s) = k + 1
        <5>1. s \in SUBSET Int /\ \A y \in s : y <= k + 1
          OBVIOUS
        <5> QED BY <3>1, <5>1, MaxIs
      <4>2. s \ {k + 1} \in SUBSET (1..k) /\ s \ {k + 1} \in SUBSET (1..(k + 1)) /\ k + 1 \notin s \ {k + 1}
        OBVIOUS
      <4>3. g[s \ {k + 1}] = h[s \ {k + 1}]
        BY <2>2, <4>2
      <4>4. g[s] = Project(h[s \ {k + 1}], log[k + 1])
        BY <2>2, <3>1
      <4> QED BY <3>1, <4>1, <4>3, <4>4
    <3>2. CASE k + 1 \notin s
      <4>0. \A x \in s : x \in 1..(k + 1) /\ x # k + 1
        BY <3>2
      <4>a. \A x \in s : x \in 1..k
        BY <4>0
      <4>1. s \in SUBSET (1..k) /\ s \ {Max(s)} \in SUBSET (1..k) /\ s \ {Max(s)} \in SUBSET (1..(k + 1))
            /\ k + 1 \notin s \ {Max(s)}
        BY <3>2, <4>a
      <4>2. g[s] = h[s] /\ g[s \ {Max(s)}] = h[s \ {Max(s)}]
        BY <2>2, <3>2, <4>1
      <4>3. h[s] = IF s = {} THEN NothingKnown ELSE Project(h[s \ {Max(s)}], log[Max(s)])
        BY <2>1, <4>1 DEF Foldings
      <4> QED BY <4>2, <4>3
    <3> QED BY <3>1, <3>2
  <2>4. Foldings(log, k + 1, g)
    BY <2>2, <2>3 DEF Foldings
  <2> QED BY <2>4
<1>3. none \subseteq Nat
  OBVIOUS
<1>4. n \notin none => \E h : Foldings(log, n, h)
  OBVIOUS
<1> HIDE DEF none
<1>5. none = {}
  <2>1. SUFFICES ASSUME none # {} PROVE FALSE
    OBVIOUS
  <2>2. PICK m \in none : \A k \in none : m <= k
    BY <1>3, <2>1, LeastOf
  <2>3. m \in Nat /\ m # 0
    BY <1>1, <1>3
  <2>4. m - 1 \in Nat /\ ~(m <= m - 1) /\ (m - 1) + 1 = m
    BY <2>3
  <2>5. m - 1 \notin none
    BY <2>2, <2>4
  <2> QED BY <1>2, <2>4, <2>5
<1> QED BY <1>4, <1>5

\* The projection of a log is where the passes of its events end.
LEMMA ProjectedPasses ==
  ASSUME NEW log, NEW n \in Nat, DOMAIN log = 1..n
  PROVE  \E t : Passes(log, n, t) /\ t[n] = Projected(log)
<1> DEFINE iter == CHOOSE h : h = [s \in SUBSET (DOMAIN log) |->
                                     IF s = {} THEN NothingKnown ELSE Project(h[s \ {Max(s)}], log[Max(s)])]
<1>1. Projected(log) = iter[DOMAIN log]
  BY DEF Projected, FoldLeft, MapThenFoldSet
<1>2. PICK h : Foldings(log, n, h)
  BY FoldingsExist
<1>3. h = [s \in SUBSET (DOMAIN log) |-> IF s = {} THEN NothingKnown ELSE Project(h[s \ {Max(s)}], log[Max(s)])]
  BY <1>2 DEF Foldings
<1>4. iter = [s \in SUBSET (DOMAIN log) |-> IF s = {} THEN NothingKnown ELSE Project(iter[s \ {Max(s)}], log[Max(s)])]
  BY <1>3
<1> HIDE DEF iter
<1>5. \A s \in SUBSET (1..n) : iter[s] = IF s = {} THEN NothingKnown ELSE Project(iter[s \ {Max(s)}], log[Max(s)])
  BY <1>4
<1>6. PICK t : t = [k \in 0..n |-> iter[1..k]]
  OBVIOUS
<1>7. \A k \in 0..n : t[k] = iter[1..k]
  BY <1>6
<1>8. t[0] = NothingKnown
  <2>1. 1..0 = {} /\ 1..0 \in SUBSET (1..n) /\ 0 \in 0..n
    OBVIOUS
  <2> QED BY <1>5, <1>7, <2>1
<1>9. ASSUME NEW k \in 1..n PROVE t[k] = Project(t[k - 1], log[k])
  <2>1. (1..k) \ {k} = 1..(k - 1) /\ 1..k # {} /\ 1..k \in SUBSET (1..n) /\ k \in 0..n /\ k - 1 \in 0..n
    OBVIOUS
  <2>2. Max(1..k) = k
    <3>1. 1..k \in SUBSET Int /\ k \in 1..k /\ \A y \in 1..k : y <= k
      OBVIOUS
    <3> QED BY <3>1, MaxIs
  <2>3. iter[1..k] = Project(iter[(1..k) \ {Max(1..k)}], log[Max(1..k)])
    BY <1>5, <2>1
  <2> QED BY <1>7, <2>1, <2>2, <2>3
<1>10. n \in 0..n
  OBVIOUS
<1> QED BY <1>1, <1>7, <1>8, <1>9, <1>10 DEF Passes

\* Logs that begin alike pass alike.
LEMMA PassesAgree ==
  ASSUME NEW log1, NEW log2, NEW n \in Nat, NEW t1, NEW t2,
         Passes(log1, n, t1), Passes(log2, n, t2), \A k \in 1..n : log1[k] = log2[k]
  PROVE  t1[n] = t2[n]
<1> DEFINE apart == {k \in 0..n : t1[k] # t2[k]}
<1>1. 0 \notin apart /\ apart \subseteq 0..n /\ (n \notin apart => t1[n] = t2[n])
  BY DEF Passes
<1>2. ASSUME NEW k \in 1..n, k - 1 \notin apart PROVE k \notin apart
  <2>1. t1[k - 1] = t2[k - 1]
    BY <1>2
  <2>2. t1[k] = Project(t1[k - 1], log1[k]) /\ t2[k] = Project(t2[k - 1], log2[k])
    BY DEF Passes
  <2> QED BY <2>1, <2>2
<1> HIDE DEF apart
<1>3. apart = {}
  <2>1. SUFFICES ASSUME apart # {} PROVE FALSE
    OBVIOUS
  <2>2. apart \subseteq Nat
    BY <1>1
  <2>3. PICK m \in apart : \A k \in apart : m <= k
    BY <2>1, <2>2, LeastOf
  <2>4. m \in 1..n /\ ~(m <= m - 1)
    BY <1>1, <2>3
  <2>5. m - 1 \notin apart
    BY <2>3, <2>4
  <2> QED BY <1>2, <2>3, <2>4, <2>5
<1> QED BY <1>1, <1>3

\* One event more is one pass more.
LEMMA ProjectedAppend ==
  ASSUME NEW log, NEW log2, NEW n \in Nat, DOMAIN log = 1..n, DOMAIN log2 = 1..(n + 1),
         \A k \in 1..n : log2[k] = log[k]
  PROVE  Projected(log2) = Project(Projected(log), log2[n + 1])
<1>1. PICK t : Passes(log, n, t) /\ t[n] = Projected(log)
  BY ProjectedPasses
<1>2. n + 1 \in Nat /\ n + 1 \in 1..(n + 1) /\ (n + 1) - 1 = n
  OBVIOUS
<1>3. PICK u : Passes(log2, n + 1, u) /\ u[n + 1] = Projected(log2)
  BY <1>2, ProjectedPasses
<1>4. Passes(log2, n, u)
  BY <1>3 DEF Passes
<1>5. u[n] = t[n]
  BY <1>1, <1>4, PassesAgree
<1>6. u[n + 1] = Project(u[(n + 1) - 1], log2[n + 1])
  BY <1>2, <1>3 DEF Passes
<1> QED BY <1>1, <1>2, <1>3, <1>5, <1>6

\* The shape of a projection.
KnownOK(k) ==
  /\ DOMAIN k \subseteq MemoryCandidates
  /\ k \in [DOMAIN k -> [state : Ends \cup {"candidate"}, conflicts : SUBSET MemoryCandidates, trusted : BOOLEAN]]
ProjectionShape(p) ==
  /\ p = [known |-> p.known, lineage |-> p.lineage, retracted |-> p.retracted, reevaluated |-> p.reevaluated,
          active |-> p.active, error |-> p.error]
  /\ p.error \in BOOLEAN
  /\ KnownOK(p.known)

\* What the projection p of the log says of it, unless it is an error.
SaidOf(p) ==
  /\ DOMAIN p.known = {c \in MemoryCandidates : CreatedAt(c) # {}}
  /\ \A c \in DOMAIN p.known : p.known[c].state = LastEnd(c)
  /\ \A c \in DOMAIN p.known : p.known[c].trusted <=> \E i \in CreatedAt(c) : memoryLog[i].trusted
  /\ p.retracted = Withdrawn
  /\ \A l \in p.lineage : \E c \in DOMAIN p.known : p.known[c].trusted /\ l[1] = c
  /\ \A c \in DOMAIN p.known : p.known[c].trusted => \A x \in EvidenceOf[c] : <<c, x>> \in p.lineage

CreatedOnce ==
  \A i, j \in DOMAIN memoryLog :
    memoryLog[i].kind = "created" /\ memoryLog[j].kind = "created" /\ memoryLog[i].c = memoryLog[j].c => i = j

MemoryInv ==
  /\ memoryLog \in Seq(MemoryEvents)
  /\ CreatedOnce
  /\ ProjectionShape(Projected(memoryLog))
  /\ ~Projected(memoryLog).error => SaidOf(Projected(memoryLog))

\* An empty log projects to nothing.
LEMMA MemoryStart == MemoryInit => MemoryInv
<1> SUFFICES ASSUME MemoryInit PROVE MemoryInv
  OBVIOUS
<1>1. memoryLog = <<>> /\ DOMAIN memoryLog = {} /\ 1..0 = {}
  BY DEF MemoryInit
<1>2. Projected(memoryLog) = NothingKnown
  <2>1. PICK t : Passes(memoryLog, 0, t) /\ t[0] = Projected(memoryLog)
    BY <1>1, ProjectedPasses
  <2> QED BY <2>1 DEF Passes
<1>3. ProjectionShape(NothingKnown)
  BY DEF ProjectionShape, NothingKnown, KnownOK
<1>4. SaidOf(NothingKnown)
  <2>1. \A c : CreatedAt(c) = {}
    BY <1>1 DEF CreatedAt
  <2>2. Withdrawn = {}
    BY <1>1 DEF Withdrawn
  <2> QED BY <2>1, <2>2 DEF SaidOf, NothingKnown
<1> QED BY <1>1, <1>2, <1>3, <1>4 DEF MemoryInv, CreatedOnce

\* Adding a conflict changes the conflicts of a known candidate only, or is an error.
LEMMA AddConflictKeeps ==
  ASSUME NEW p, ProjectionShape(p), NEW c \in MemoryCandidates, NEW with \in MemoryCandidates
  PROVE  LET q == AddConflict(p, c, with) IN
         /\ ProjectionShape(q)
         /\ DOMAIN q.known = DOMAIN p.known /\ q.retracted = p.retracted /\ q.lineage = p.lineage
         /\ \A d \in DOMAIN p.known : q.known[d].state = p.known[d].state /\ q.known[d].trusted = p.known[d].trusted
         /\ p.error => q.error
<1>1. CASE c \notin DOMAIN p.known \/ with \in p.known[c].conflicts
  BY <1>1 DEF AddConflict
<1>2. CASE /\ ~(c \notin DOMAIN p.known \/ with \in p.known[c].conflicts)
           /\ Cardinality(p.known[c].conflicts) >= MaximumEdges
  <2>1. AddConflict(p, c, with) = [p EXCEPT !.error = TRUE]
    BY <1>2 DEF AddConflict
  <2> QED BY <2>1 DEF ProjectionShape
<1>3. CASE /\ ~(c \notin DOMAIN p.known \/ with \in p.known[c].conflicts)
           /\ ~(Cardinality(p.known[c].conflicts) >= MaximumEdges)
  <2>1. AddConflict(p, c, with) = [p EXCEPT !.known[c].conflicts = @ \cup {with}]
    BY <1>3 DEF AddConflict
  <2>2. PICK k : k = [p.known EXCEPT ![c].conflicts = @ \cup {with}]
    OBVIOUS
  <2>3. AddConflict(p, c, with) = [p EXCEPT !.known = k]
    BY <2>1, <2>2 DEF ProjectionShape
  <2>4. KnownOK(k) /\ DOMAIN k = DOMAIN p.known
        /\ \A d \in DOMAIN p.known : k[d].state = p.known[d].state /\ k[d].trusted = p.known[d].trusted
    BY <1>3, <2>2 DEF ProjectionShape, KnownOK
  <2> HIDE DEF AddConflict
  <2> QED BY <2>3, <2>4 DEF ProjectionShape
<1> QED BY <1>1, <1>2, <1>3

\* A candidate whose last fact is another is otherwise the same.
LEMMA TransitionKeeps ==
  ASSUME NEW p, ProjectionShape(p), NEW c \in MemoryCandidates, NEW state \in Ends
  PROVE  LET q == Transition(p, c, state) IN
         /\ ProjectionShape(q)
         /\ DOMAIN q.known = DOMAIN p.known /\ q.retracted = p.retracted /\ q.lineage = p.lineage /\ q.error = p.error
         /\ \A d \in DOMAIN p.known : /\ q.known[d].state = (IF d = c THEN state ELSE p.known[d].state)
                                      /\ q.known[d].trusted = p.known[d].trusted
<1>1. CASE c \notin DOMAIN p.known
  BY <1>1 DEF Transition
<1>2. CASE c \in DOMAIN p.known
  <2>1. PICK k : k = [p.known EXCEPT ![c].state = state]
    OBVIOUS
  <2>2. Transition(p, c, state) = [p EXCEPT !.known = k]
    BY <1>2, <2>1 DEF ProjectionShape, Transition
  <2>3. KnownOK(k) /\ DOMAIN k = DOMAIN p.known
        /\ \A d \in DOMAIN p.known : /\ k[d].state = (IF d = c THEN state ELSE p.known[d].state)
                                     /\ k[d].trusted = p.known[d].trusted
    BY <1>2, <2>1 DEF ProjectionShape, KnownOK
  <2> QED BY <2>2, <2>3 DEF ProjectionShape
<1> QED BY <1>1, <1>2

\* A candidate is created, once, or is an error.
LEMMA CreateKeeps ==
  ASSUME NEW p, ProjectionShape(p), NEW e, e.c \in MemoryCandidates, e.trusted \in BOOLEAN
  PROVE  LET q == Create(p, e) IN
         /\ ProjectionShape(q)
         /\ ~q.error /\ e.c \notin DOMAIN p.known =>
              /\ DOMAIN q.known = DOMAIN p.known \cup {e.c} /\ q.retracted = p.retracted
              /\ q.known[e.c].state = "candidate" /\ q.known[e.c].trusted = e.trusted
              /\ \A d \in DOMAIN p.known : q.known[d] = p.known[d]
              /\ \A l : l \in q.lineage <=> l \in p.lineage \/ (e.trusted /\ l \in {e.c} \X EvidenceOf[e.c])
<1>1. CASE Cardinality(EvidenceOf[e.c]) > MaximumEdges
  BY <1>1 DEF Create, ProjectionShape
<1>2. CASE ~(Cardinality(EvidenceOf[e.c]) > MaximumEdges) /\ e.c \in DOMAIN p.known
  BY <1>2 DEF Create, ProjectionShape
<1>3. CASE ~(Cardinality(EvidenceOf[e.c]) > MaximumEdges) /\ e.c \notin DOMAIN p.known
  <2>1. PICK k : k = [d \in DOMAIN p.known \cup {e.c} |-> IF d = e.c THEN Fresh(e) ELSE p.known[d]]
    OBVIOUS
  <2>2. PICK r : r = IF e.trusted THEN p.lineage \cup ({e.c} \X EvidenceOf[e.c]) ELSE p.lineage
    OBVIOUS
  <2>3. Create(p, e) = [p EXCEPT !.known = k, !.lineage = r]
    BY <1>3, <2>1, <2>2 DEF Create, ProjectionShape
  <2>4. /\ DOMAIN k = DOMAIN p.known \cup {e.c} /\ k[e.c] = Fresh(e)
        /\ \A d \in DOMAIN p.known : k[d] = p.known[d]
    BY <1>3, <2>1
  <2>5. Fresh(e).state = "candidate" /\ Fresh(e).trusted = e.trusted
        /\ Fresh(e) \in [state : Ends \cup {"candidate"}, conflicts : SUBSET MemoryCandidates, trusted : BOOLEAN]
    BY DEF Fresh
  <2>6. KnownOK(k)
    BY <2>1, <2>4, <2>5 DEF KnownOK, ProjectionShape
  <2>7. PICK q : q = [known |-> k, lineage |-> r, retracted |-> p.retracted, reevaluated |-> p.reevaluated,
                      active |-> p.active, error |-> p.error]
    OBVIOUS
  <2>8. Create(p, e) = q
    BY <2>3, <2>7 DEF ProjectionShape
  <2>9. ProjectionShape(q)
    BY <2>6, <2>7 DEF ProjectionShape
  <2> QED BY <2>2, <2>4, <2>5, <2>7, <2>8, <2>9
<1> QED BY <1>1, <1>2, <1>3

\* What one event more changes of the log read as a whole.
LEMMA LogGrows ==
  ASSUME memoryLog \in Seq(MemoryEvents), NEW e \in MemoryEvents, memoryLog' = Append(memoryLog, e)
  PROVE  \E n \in Nat :
         /\ memoryLog' \in Seq(MemoryEvents) /\ DOMAIN memoryLog = 1..n /\ DOMAIN memoryLog' = 1..(n + 1)
         /\ memoryLog'[n + 1] = e /\ \A k \in 1..n : memoryLog'[k] = memoryLog[k]
         /\ \A c : CreatedAt(c)' = CreatedAt(c) \cup {i \in {n + 1} : e.kind = "created" /\ e.c = c}
         /\ \A c : EndsOf(c)' = EndsOf(c) \cup {i \in {n + 1} : e.kind \in Ends /\ e.trusted /\ e.c = c /\ CreatedAt(c) # {}}
         /\ Withdrawn' = Withdrawn \cup {x \in {e.evidence} : e.kind = "retracted" /\ e.trusted}
<1>1. PICK n \in Nat : n = Len(memoryLog)
  BY LenProperties
<1>2. /\ memoryLog' \in Seq(MemoryEvents) /\ DOMAIN memoryLog = 1..n /\ DOMAIN memoryLog' = 1..(n + 1)
      /\ memoryLog'[n + 1] = e /\ \A k \in 1..n : memoryLog'[k] = memoryLog[k]
  BY <1>1, AppendProperties, LenProperties
<1>a. 1..(n + 1) = 1..n \cup {n + 1} /\ n + 1 \notin 1..n
  OBVIOUS
<1>3. ASSUME NEW c PROVE CreatedAt(c)' = CreatedAt(c) \cup {i \in {n + 1} : e.kind = "created" /\ e.c = c}
  <2>1. ASSUME NEW i PROVE i \in CreatedAt(c)' <=> i \in CreatedAt(c) \/ (i = n + 1 /\ e.kind = "created" /\ e.c = c)
    BY <1>2, <1>a DEF CreatedAt
  <2> QED BY <2>1
<1>4. ASSUME NEW c
      PROVE  EndsOf(c)' = EndsOf(c) \cup {i \in {n + 1} : e.kind \in Ends /\ e.trusted /\ e.c = c /\ CreatedAt(c) # {}}
  <2>1. ASSUME NEW i \in 1..(n + 1) PROVE (\E j \in CreatedAt(c)' : j < i) <=> (\E j \in CreatedAt(c) : j < i)
    <3>1. ~(n + 1 < i)
      OBVIOUS
    <3> QED BY <1>3, <3>1
  <2>2. (\E j \in CreatedAt(c) : j < n + 1) <=> CreatedAt(c) # {}
    <3>1. CreatedAt(c) \subseteq 1..n
      BY <1>2 DEF CreatedAt
    <3> QED BY <3>1
  <2>3. ASSUME NEW i \in 1..n PROVE i \in EndsOf(c)' <=> i \in EndsOf(c)
    <3>1. i \in 1..(n + 1)
      OBVIOUS
    <3> QED BY <1>2, <2>1, <3>1 DEF EndsOf
  <2>4. n + 1 \in EndsOf(c)' <=> e.kind \in Ends /\ e.trusted /\ e.c = c /\ CreatedAt(c) # {}
    <3>1. n + 1 \in 1..(n + 1)
      OBVIOUS
    <3> QED BY <1>2, <2>1, <2>2, <3>1 DEF EndsOf
  <2>5. EndsOf(c)' \subseteq 1..(n + 1) /\ EndsOf(c) \subseteq 1..n
    BY <1>2 DEF EndsOf
  <2> QED BY <1>a, <2>3, <2>4, <2>5
<1>5. Withdrawn' = Withdrawn \cup {x \in {e.evidence} : e.kind = "retracted" /\ e.trusted}
  <2>1. ASSUME NEW i PROVE i \in {j \in DOMAIN memoryLog' : Happened("retracted", j)'}
          <=> i \in {j \in DOMAIN memoryLog : Happened("retracted", j)} \/ (i = n + 1 /\ e.kind = "retracted" /\ e.trusted)
    BY <1>2, <1>a DEF Happened
  <2>2. ASSUME NEW x PROVE x \in Withdrawn' <=> x \in Withdrawn \/ (x = e.evidence /\ e.kind = "retracted" /\ e.trusted)
    <3>1. x \in Withdrawn' <=> \E i \in {j \in DOMAIN memoryLog' : Happened("retracted", j)'} : x = memoryLog'[i].evidence
      BY DEF Withdrawn
    <3>2. x \in Withdrawn <=> \E i \in {j \in DOMAIN memoryLog : Happened("retracted", j)} : x = memoryLog[i].evidence
      BY DEF Withdrawn
    <3>3. \A i \in {j \in DOMAIN memoryLog : Happened("retracted", j)} : i \in 1..n
      BY <1>2
    <3> HIDE DEF Withdrawn, Happened
    <3> QED BY <1>2, <2>1, <3>1, <3>2, <3>3
  <2> QED BY <2>2
<1> QED BY <1>2, <1>3, <1>4, <1>5

\* The last fact of a candidate is the new one, or is what it was.
LEMMA LastEndGrows ==
  ASSUME memoryLog \in Seq(MemoryEvents), NEW e \in MemoryEvents, memoryLog' = Append(memoryLog, e), NEW c
  PROVE  LastEnd(c)' = IF e.kind \in Ends /\ e.trusted /\ e.c = c /\ CreatedAt(c) # {} THEN e.kind ELSE LastEnd(c)
<1>1. PICK n \in Nat :
         /\ memoryLog' \in Seq(MemoryEvents) /\ DOMAIN memoryLog = 1..n /\ DOMAIN memoryLog' = 1..(n + 1)
         /\ memoryLog'[n + 1] = e /\ \A k \in 1..n : memoryLog'[k] = memoryLog[k]
         /\ \A d : EndsOf(d)' = EndsOf(d) \cup {i \in {n + 1} : e.kind \in Ends /\ e.trusted /\ e.c = d /\ CreatedAt(d) # {}}
  BY LogGrows
<1>2. EndsOf(c) \subseteq 1..n
  BY <1>1 DEF EndsOf
<1>3. CASE e.kind \in Ends /\ e.trusted /\ e.c = c /\ CreatedAt(c) # {}
  <2>1. EndsOf(c)' = EndsOf(c) \cup {n + 1}
    BY <1>1, <1>3
  <2>2. \A j \in EndsOf(c)' : j \in Nat /\ j <= n + 1
    BY <1>2, <2>1
  <2>3. PICK i : i = CHOOSE k \in EndsOf(c)' : \A j \in EndsOf(c)' : j <= k
    OBVIOUS
  <2>4. i \in EndsOf(c)' /\ \A j \in EndsOf(c)' : j <= i
    BY <2>1, <2>2, <2>3
  <2>5. i = n + 1
    <3>1. n + 1 \in EndsOf(c)'
      BY <2>1
    <3>2. i \in Nat /\ i <= n + 1 /\ n + 1 <= i
      BY <2>2, <2>4, <3>1
    <3> QED BY <3>2
  <2>6. LastEnd(c)' = memoryLog'[i].kind
    BY <2>1, <2>3 DEF LastEnd
  <2> QED BY <1>1, <1>3, <2>5, <2>6
<1>4. CASE ~(e.kind \in Ends /\ e.trusted /\ e.c = c /\ CreatedAt(c) # {})
  <2>1. EndsOf(c)' = EndsOf(c)
    BY <1>1, <1>4
  <2>2. CASE EndsOf(c) = {}
    BY <1>4, <2>1, <2>2 DEF LastEnd
  <2>3. CASE EndsOf(c) # {}
    <3>1. PICK m \in EndsOf(c) : \A k \in EndsOf(c) : k <= m
      BY <1>2, <2>3, LastOf
    <3>2. PICK i : i = CHOOSE k \in EndsOf(c) : \A j \in EndsOf(c) : j <= k
      OBVIOUS
    <3>3. i \in EndsOf(c)
      BY <3>1, <3>2
    <3>4. LastEnd(c) = memoryLog[i].kind
      BY <2>3, <3>2 DEF LastEnd
    <3>5. LastEnd(c)' = memoryLog'[i].kind
      BY <2>1, <2>3, <3>2 DEF LastEnd
    <3> QED BY <1>1, <1>2, <1>4, <3>3, <3>4, <3>5
  <2> QED BY <2>2, <2>3
<1> QED BY <1>3, <1>4

\* The projection of one event more has its shape, and no error of it goes away.
LEMMA ProjectKeepsShape ==
  ASSUME NEW p, ProjectionShape(p), NEW e \in MemoryEvents
  PROVE  ProjectionShape(Project(p, e)) /\ (p.error => Project(p, e) = p)
<1>1. CASE p.error
  BY <1>1 DEF Project
<1>2. CASE ~p.error /\ e.kind = "created"
  <2>1. e.c \in MemoryCandidates /\ e.trusted \in BOOLEAN
    BY <1>2, MemoryAssumption DEF MemoryEvents
  <2> QED BY <1>2, <2>1, CreateKeeps DEF Project
<1>3. CASE ~p.error /\ e.kind # "created" /\ ~e.trusted
  BY <1>3 DEF Project
<1>4. CASE ~p.error /\ e.kind # "created" /\ e.trusted /\ e.kind \in Ends
  <2>1. e.c \in MemoryCandidates
    BY <1>4, MemoryAssumption DEF MemoryEvents
  <2> QED BY <1>4, <2>1, TransitionKeeps DEF Project
<1>5. CASE ~p.error /\ e.kind = "conflict" /\ e.trusted /\ e.kind \notin Ends
  <2>1. e.c \in MemoryCandidates /\ e.with \in MemoryCandidates
    BY <1>5, MemoryAssumption DEF MemoryEvents
  <2>2. PICK q : q = AddConflict(p, e.c, e.with)
    OBVIOUS
  <2>3. ProjectionShape(q)
    BY <2>1, <2>2, AddConflictKeeps
  <2>4. ProjectionShape(AddConflict(q, e.with, e.c))
    BY <2>1, <2>3, AddConflictKeeps
  <2> QED BY <1>5, <2>2, <2>4 DEF Project
<1>6. CASE ~p.error /\ e.kind \notin {"created", "conflict"} /\ e.trusted /\ e.kind \notin Ends
  BY <1>6 DEF Project, ProjectionShape
<1> QED BY <1>1, <1>2, <1>3, <1>4, <1>5, <1>6

\* It says of the log what one event more says.
LEMMA ProjectSays ==
  ASSUME MemoryInv, NEW e \in MemoryEvents, memoryLog' = Append(memoryLog, e),
         e.kind = "created" => CreatedAt(e.c) = {},
         NEW p, p = Projected(memoryLog), NEW q, q = Project(p, e), ~q.error
  PROVE  SaidOf(q)'
<1>1. PICK n \in Nat :
         /\ memoryLog' \in Seq(MemoryEvents) /\ DOMAIN memoryLog = 1..n /\ DOMAIN memoryLog' = 1..(n + 1)
         /\ memoryLog'[n + 1] = e /\ \A k \in 1..n : memoryLog'[k] = memoryLog[k]
         /\ \A c : CreatedAt(c)' = CreatedAt(c) \cup {i \in {n + 1} : e.kind = "created" /\ e.c = c}
         /\ Withdrawn' = Withdrawn \cup {x \in {e.evidence} : e.kind = "retracted" /\ e.trusted}
  BY LogGrows DEF MemoryInv
<1>2. \A c : LastEnd(c)' = IF e.kind \in Ends /\ e.trusted /\ e.c = c /\ CreatedAt(c) # {} THEN e.kind ELSE LastEnd(c)
  BY LastEndGrows DEF MemoryInv
<1>3. ProjectionShape(p) /\ ProjectionShape(q) /\ ~p.error /\ ~q.error
  BY ProjectKeepsShape DEF MemoryInv
<1>4. /\ DOMAIN p.known = {c \in MemoryCandidates : CreatedAt(c) # {}}
      /\ \A c \in DOMAIN p.known : p.known[c].state = LastEnd(c)
      /\ \A c \in DOMAIN p.known : p.known[c].trusted <=> \E i \in CreatedAt(c) : memoryLog[i].trusted
      /\ p.retracted = Withdrawn
      /\ \A l \in p.lineage : \E c \in DOMAIN p.known : p.known[c].trusted /\ l[1] = c
      /\ \A c \in DOMAIN p.known : p.known[c].trusted => \A x \in EvidenceOf[c] : <<c, x>> \in p.lineage
  BY <1>3 DEF MemoryInv, SaidOf
<1>5. ASSUME
        /\ DOMAIN q.known = {c \in MemoryCandidates : CreatedAt(c)' # {}}
        /\ \A c \in DOMAIN q.known : q.known[c].state = LastEnd(c)'
        /\ \A c \in DOMAIN q.known : q.known[c].trusted <=> \E i \in CreatedAt(c)' : memoryLog'[i].trusted
        /\ q.retracted = Withdrawn'
        /\ \A l \in q.lineage : \E c \in DOMAIN q.known : q.known[c].trusted /\ l[1] = c
        /\ \A c \in DOMAIN q.known : q.known[c].trusted => \A x \in EvidenceOf[c] : <<c, x>> \in q.lineage
      PROVE SaidOf(q)'
  BY <1>5 DEF SaidOf
<1>6. \A c : CreatedAt(c) \subseteq 1..n
  BY <1>1 DEF CreatedAt
\* Unless a candidate is created, those known and what they were created from are as before.
<1>7. ASSUME e.kind # "created"
      PROVE  \A c : /\ CreatedAt(c)' = CreatedAt(c)
                    /\ (\E i \in CreatedAt(c)' : memoryLog'[i].trusted) <=> \E i \in CreatedAt(c) : memoryLog[i].trusted
  <2>1. \A c : CreatedAt(c)' = CreatedAt(c)
    BY <1>1, <1>7
  <2> QED BY <1>1, <1>6, <2>1
<1>a. ASSUME e.kind # "created", DOMAIN q.known = DOMAIN p.known, q.lineage = p.lineage,
             \A d \in DOMAIN p.known : q.known[d].trusted = p.known[d].trusted
      PROVE  /\ DOMAIN q.known = {c \in MemoryCandidates : CreatedAt(c)' # {}}
             /\ \A c \in DOMAIN q.known : q.known[c].trusted <=> \E i \in CreatedAt(c)' : memoryLog'[i].trusted
             /\ \A l \in q.lineage : \E c \in DOMAIN q.known : q.known[c].trusted /\ l[1] = c
             /\ \A c \in DOMAIN q.known : q.known[c].trusted => \A x \in EvidenceOf[c] : <<c, x>> \in q.lineage
  <2>1. DOMAIN q.known = {c \in MemoryCandidates : CreatedAt(c)' # {}}
    BY <1>4, <1>7, <1>a
  <2>2. ASSUME NEW c \in DOMAIN q.known
        PROVE  q.known[c].trusted <=> \E i \in CreatedAt(c)' : memoryLog'[i].trusted
    <3>1. q.known[c].trusted = p.known[c].trusted
      BY <1>a
    <3>2. p.known[c].trusted <=> \E i \in CreatedAt(c) : memoryLog[i].trusted
      BY <1>4, <1>a
    <3>3. (\E i \in CreatedAt(c)' : memoryLog'[i].trusted) <=> \E i \in CreatedAt(c) : memoryLog[i].trusted
      BY <1>7, <1>a
    <3> QED BY <3>1, <3>2, <3>3
  <2>3. /\ \A l \in q.lineage : \E c \in DOMAIN q.known : q.known[c].trusted /\ l[1] = c
        /\ \A c \in DOMAIN q.known : q.known[c].trusted => \A x \in EvidenceOf[c] : <<c, x>> \in q.lineage
    BY <1>4, <1>a
  <2> QED BY <2>1, <2>2, <2>3
<1>8. CASE e.kind = "created"
  <2>1. e.c \in MemoryCandidates /\ e.trusted \in BOOLEAN /\ e.kind \notin Ends /\ e.kind # "retracted"
    BY <1>8, MemoryAssumption DEF MemoryEvents
  <2>2. CreatedAt(e.c) = {} /\ e.c \notin DOMAIN p.known
    BY <1>4, <1>8
  <2>3. q = Create(p, e)
    BY <1>3, <1>8 DEF Project
  <2>4. /\ DOMAIN q.known = DOMAIN p.known \cup {e.c} /\ q.retracted = p.retracted
        /\ q.known[e.c].state = "candidate" /\ q.known[e.c].trusted = e.trusted
        /\ \A d \in DOMAIN p.known : q.known[d] = p.known[d]
        /\ \A l : l \in q.lineage <=> l \in p.lineage \/ (e.trusted /\ l \in {e.c} \X EvidenceOf[e.c])
    BY <1>3, <2>1, <2>2, <2>3, CreateKeeps
  <2>5. \A c : c # e.c => CreatedAt(c)' = CreatedAt(c)
    BY <1>1
  <2>6. CreatedAt(e.c)' = {n + 1}
    BY <1>1, <1>8, <2>2
  <2>7. DOMAIN q.known = {c \in MemoryCandidates : CreatedAt(c)' # {}}
    BY <1>4, <2>1, <2>4, <2>5, <2>6
  <2>8. \A c : LastEnd(c)' = LastEnd(c)
    BY <1>2, <2>1
  <2>9. LastEnd(e.c) = "candidate"
    <3>1. EndsOf(e.c) = {}
      BY <2>2 DEF EndsOf
    <3> QED BY <3>1 DEF LastEnd
  <2>10. \A c \in DOMAIN q.known : q.known[c].state = LastEnd(c)'
    BY <1>4, <2>4, <2>8, <2>9
  <2>11. \A c \in DOMAIN q.known : q.known[c].trusted <=> \E i \in CreatedAt(c)' : memoryLog'[i].trusted
    <3>1. ASSUME NEW c \in DOMAIN q.known, c # e.c
          PROVE  q.known[c].trusted <=> \E i \in CreatedAt(c)' : memoryLog'[i].trusted
      BY <1>1, <1>4, <1>6, <2>4, <2>5, <3>1
    <3>2. q.known[e.c].trusted <=> \E i \in CreatedAt(e.c)' : memoryLog'[i].trusted
      BY <1>1, <2>4, <2>6
    <3> QED BY <3>1, <3>2
  <2>12. q.retracted = Withdrawn'
    BY <1>1, <1>4, <2>1, <2>4
  <2>13. \A l \in q.lineage : \E c \in DOMAIN q.known : q.known[c].trusted /\ l[1] = c
    <3>1. TAKE l \in q.lineage
    <3>2. CASE l \in p.lineage
      BY <1>4, <2>4, <3>2
    <3>3. CASE e.trusted /\ l \in {e.c} \X EvidenceOf[e.c]
      BY <2>4, <3>3
    <3> QED BY <2>4, <3>2, <3>3
  <2>14. \A c \in DOMAIN q.known : q.known[c].trusted => \A x \in EvidenceOf[c] : <<c, x>> \in q.lineage
    BY <1>4, <2>4
  <2> QED BY <1>5, <2>7, <2>10, <2>11, <2>12, <2>13, <2>14
<1>9. CASE e.kind # "created" /\ e.trusted /\ e.kind \in Ends
  <2>1. e.c \in MemoryCandidates /\ e.kind # "retracted"
    BY <1>9, MemoryAssumption DEF MemoryEvents
  <2>2. q = Transition(p, e.c, e.kind)
    BY <1>3, <1>9 DEF Project
  <2>3. /\ DOMAIN q.known = DOMAIN p.known /\ q.retracted = p.retracted /\ q.lineage = p.lineage
        /\ \A d \in DOMAIN p.known : /\ q.known[d].state = (IF d = e.c THEN e.kind ELSE p.known[d].state)
                                     /\ q.known[d].trusted = p.known[d].trusted
    BY <1>3, <1>9, <2>1, <2>2, TransitionKeeps
  <2>4. \A c \in DOMAIN q.known : q.known[c].state = LastEnd(c)'
    BY <1>2, <1>4, <1>9, <2>3
  <2>5. q.retracted = Withdrawn'
    BY <1>1, <1>4, <2>1, <2>3
  <2> QED BY <1>5, <1>9, <1>a, <2>3, <2>4, <2>5
<1>10. CASE e.kind # "created" /\ ~(e.trusted /\ e.kind \in Ends)
  <2>1. \A c : LastEnd(c)' = LastEnd(c)
    BY <1>2, <1>10
  <2>2. ASSUME /\ DOMAIN q.known = DOMAIN p.known /\ q.lineage = p.lineage /\ q.retracted = Withdrawn'
               /\ \A d \in DOMAIN p.known : /\ q.known[d].state = p.known[d].state
                                            /\ q.known[d].trusted = p.known[d].trusted
        PROVE  SaidOf(q)'
    <3>1. \A c \in DOMAIN q.known : q.known[c].state = LastEnd(c)'
      BY <1>4, <2>1, <2>2
    <3> QED BY <1>5, <1>10, <1>a, <2>2, <3>1
  <2>3. CASE ~e.trusted
    BY <1>1, <1>3, <1>4, <1>10, <2>2, <2>3 DEF Project
  <2>4. CASE e.trusted /\ e.kind = "conflict"
    <3>1. e.c \in MemoryCandidates /\ e.with \in MemoryCandidates
      BY <2>4, MemoryAssumption DEF MemoryEvents
    <3>2. PICK r : r = AddConflict(p, e.c, e.with)
      OBVIOUS
    <3>3. /\ ProjectionShape(r)
          /\ DOMAIN r.known = DOMAIN p.known /\ r.retracted = p.retracted /\ r.lineage = p.lineage
          /\ \A d \in DOMAIN p.known : r.known[d].state = p.known[d].state /\ r.known[d].trusted = p.known[d].trusted
      BY <1>3, <3>1, <3>2, AddConflictKeeps
    <3>4. q = AddConflict(r, e.with, e.c)
      BY <1>3, <1>10, <2>4, <3>2 DEF Project
    <3>5. /\ DOMAIN q.known = DOMAIN r.known /\ q.retracted = r.retracted /\ q.lineage = r.lineage
          /\ \A d \in DOMAIN r.known : q.known[d].state = r.known[d].state /\ q.known[d].trusted = r.known[d].trusted
      BY <3>1, <3>3, <3>4, AddConflictKeeps
    <3> QED BY <1>1, <1>4, <2>2, <2>4, <3>3, <3>5
  <2>5. CASE e.trusted /\ e.kind = "retracted"
    <3>1. q = [p EXCEPT !.retracted = @ \cup {e.evidence}]
      BY <1>3, <1>10, <2>5 DEF Project
    <3> QED BY <1>1, <1>3, <1>4, <2>2, <2>5, <3>1 DEF ProjectionShape
  <2>6. CASE e.trusted /\ e.kind \notin {"conflict", "retracted"}
    <3>1. q = [p EXCEPT !.reevaluated = @ \cup {e.c}] \/ q = [p EXCEPT !.active = e.version]
      BY <1>3, <1>10, <2>6 DEF Project
    <3> QED BY <1>1, <1>3, <1>4, <2>2, <2>6, <3>1 DEF ProjectionShape
  <2> QED BY <2>3, <2>4, <2>5, <2>6
<1> QED BY <1>8, <1>9, <1>10

\* Every event keeps it.
LEMMA MemoryKept ==
  ASSUME MemoryInv, [MemoryNext]_memoryLog
  PROVE  MemoryInv'
<1>1. CASE UNCHANGED memoryLog
  <2>1. \A c : CreatedAt(c)' = CreatedAt(c)
    BY <1>1 DEF CreatedAt
  <2>2. \A c : EndsOf(c)' = EndsOf(c)
    BY <1>1, <2>1 DEF EndsOf
  <2>3. ASSUME NEW c PROVE LastEnd(c)' = LastEnd(c)
    <3>1. PICK r : r = EndsOf(c) /\ r = EndsOf(c)'
      BY <2>2
    <3>2. LastEnd(c) = IF r = {} THEN "candidate" ELSE memoryLog[CHOOSE i \in r : \A j \in r : j <= i].kind
      BY <3>1 DEF LastEnd
    <3>3. LastEnd(c)' = IF r = {} THEN "candidate" ELSE memoryLog'[CHOOSE i \in r : \A j \in r : j <= i].kind
      BY <3>1 DEF LastEnd
    <3> QED BY <1>1, <3>2, <3>3
  <2>4. Withdrawn' = Withdrawn
    BY <1>1 DEF Withdrawn, Happened
  <2>5. Projected(memoryLog') = Projected(memoryLog)
    BY <1>1
  <2>6. PICK p : p = Projected(memoryLog)
    OBVIOUS
  <2>7. SaidOf(p) => SaidOf(p)'
    BY <1>1, <2>1, <2>3, <2>4 DEF SaidOf
  <2>8. CreatedOnce => CreatedOnce'
    BY <1>1 DEF CreatedOnce
  <2> QED BY <1>1, <2>5, <2>6, <2>7, <2>8 DEF MemoryInv
<1>2. CASE MemoryNext
  <2>1. PICK e \in MemoryEvents :
          /\ e.kind = "created" => \A i \in DOMAIN memoryLog : memoryLog[i].kind = "created" => memoryLog[i].c # e.c
          /\ memoryLog' = Append(memoryLog, e)
    BY <1>2 DEF MemoryNext
  <2>2. PICK n \in Nat :
          /\ memoryLog' \in Seq(MemoryEvents) /\ DOMAIN memoryLog = 1..n /\ DOMAIN memoryLog' = 1..(n + 1)
          /\ memoryLog'[n + 1] = e /\ \A k \in 1..n : memoryLog'[k] = memoryLog[k]
    BY <2>1, LogGrows DEF MemoryInv
  <2>3. e.kind = "created" => CreatedAt(e.c) = {}
    BY <2>1 DEF CreatedAt
  <2>4. Projected(memoryLog') = Project(Projected(memoryLog), e)
    BY <2>2, ProjectedAppend
  <2>5. PICK p : p = Projected(memoryLog)
    OBVIOUS
  <2>6. PICK q : q = Project(p, e)
    OBVIOUS
  <2>7. ProjectionShape(q)
    BY <2>5, <2>6, ProjectKeepsShape DEF MemoryInv
  <2>8. ~q.error => SaidOf(q)'
    BY <2>1, <2>3, <2>5, <2>6, ProjectSays
  <2>9. CreatedOnce'
    <3>1. ASSUME NEW i \in 1..(n + 1) PROVE i \in 1..n \/ i = n + 1
      OBVIOUS
    <3>2. ASSUME NEW i \in 1..n PROVE i \in 1..(n + 1) /\ i # n + 1
      OBVIOUS
    <3> QED BY <2>1, <2>2, <3>1, <3>2 DEF MemoryInv, CreatedOnce
  <2>10. ProjectionShape(Projected(memoryLog))'
    BY <2>4, <2>5, <2>6, <2>7
  <2>11. (~Projected(memoryLog).error => SaidOf(Projected(memoryLog)))'
    BY <2>4, <2>5, <2>6, <2>8
  <2> QED BY <2>2, <2>9, <2>10, <2>11 DEF MemoryInv
<1> QED BY <1>1, <1>2

\* What is said of the log is what the strategy memory promises.
LEMMA MemoryFollows == MemoryInv => MemoryIsSound
<1> SUFFICES ASSUME MemoryInv PROVE MemoryIsSound
  OBVIOUS
<1>1. PICK p : p = Projected(memoryLog)
  OBVIOUS
<1>2. SUFFICES ASSUME ~p.error PROVE ProjectionReadsLog /\ LossIsNoticed
  BY <1>1 DEF MemoryIsSound, ProjectionReadsLog, LossIsNoticed
<1>3. ProjectionShape(p) /\ SaidOf(p)
  BY <1>1, <1>2 DEF MemoryInv
<1>4. ProjectionReadsLog
  <2>1. \A l \in p.lineage : p.known[l[1]].trusted
    BY <1>3 DEF SaidOf
  <2> QED BY <1>1, <1>3, <2>1 DEF SaidOf, ProjectionReadsLog
<1>5. ASSUME NEW stale \in SUBSET MemoryCandidates, NEW c \in DOMAIN p.known
      PROVE  LET judged == (\E i \in CreatedAt(c) : memoryLog[i].trusted) /\ LastEnd(c) \in {"candidate", "promoted"}
                 withdrawn == EvidenceOf[c] \cap Withdrawn # {} IN
               /\ (judged /\ withdrawn /\ LastEnd(c) = "promoted") => c \in Downgrade(p, stale)
               /\ (judged /\ withdrawn /\ p.active = c /\ RollbackOnLoss) => c \in Rollback(p, stale)
               /\ c \in Reevaluate(p, stale) \cup Downgrade(p, stale) \cup Rollback(p, stale) => judged
  <2>1. /\ p.known[c].state = LastEnd(c) /\ p.retracted = Withdrawn
        /\ p.known[c].trusted <=> \E i \in CreatedAt(c) : memoryLog[i].trusted
    BY <1>3 DEF SaidOf
  <2> QED BY <2>1 DEF Downgrade, Rollback, Reevaluate, InTrouble, Judged, Troubled
<1>6. LossIsNoticed
  BY <1>1, <1>5 DEF LossIsNoticed
<1> QED BY <1>4, <1>6

\* The strategy memory says what its log says: of every candidate its last authoritative fact, with the
\* evidence of trusted ones only; and a strategy whose evidence was retracted is put up for a downgrade,
\* the active one for a rollback, in whatever order the facts came (StrategyMemoryProjector::rebuild).
THEOREM MemoryStaysSound == GrowthSpec => []MemoryIsSound
<1>1. GrowthInit => MemoryInv
  BY MemoryStart DEF GrowthInit
<1>2. MemoryInv /\ [GrowthNext]_growthVars => MemoryInv'
  <2>1. [GrowthNext]_growthVars => [MemoryNext]_memoryLog
    BY DEF GrowthNext, growthVars
  <2> QED BY <2>1, MemoryKept
<1> QED BY <1>1, <1>2, MemoryFollows, PTL DEF GrowthSpec

-----------------------------------------------------------------------------
(* Selection                                                                 *)

\* R orders the set S, and AheadIn holds what it puts ahead of x.
Orders(R, S) ==
  /\ \A x, y \in S : x # y => <<x, y>> \in R \/ <<y, x>> \in R
  /\ \A x, y \in S : ~(<<x, y>> \in R /\ <<y, x>> \in R)
  /\ \A x, y, z \in S : <<x, y>> \in R /\ <<y, z>> \in R => <<x, z>> \in R
AheadIn(R, S, x) == {y \in S : <<y, x>> \in R}

\* Who is ahead has fewer ahead of it.
LEMMA RanksAscend ==
  ASSUME NEW S, IsFiniteSet(S), NEW R, Orders(R, S), NEW x \in S, NEW y \in S
  PROVE  /\ Cardinality(AheadIn(R, S, x)) \in Nat /\ Cardinality(AheadIn(R, S, x)) < Cardinality(S)
         /\ <<x, y>> \in R <=> Cardinality(AheadIn(R, S, x)) < Cardinality(AheadIn(R, S, y))
         /\ x # y <=> Cardinality(AheadIn(R, S, x)) # Cardinality(AheadIn(R, S, y))
<1>1. ASSUME NEW z \in S PROVE IsFiniteSet(AheadIn(R, S, z)) /\ Cardinality(AheadIn(R, S, z)) \in Nat
  <2>1. AheadIn(R, S, z) \in SUBSET S
    BY DEF AheadIn
  <2> QED BY <2>1, FS_Subset, FS_CardinalityType
<1>2. ASSUME NEW u \in S, NEW v \in S, <<u, v>> \in R
      PROVE  Cardinality(AheadIn(R, S, u)) < Cardinality(AheadIn(R, S, v))
  <2>1. AheadIn(R, S, u) \in SUBSET AheadIn(R, S, v)
    BY <1>2 DEF AheadIn, Orders
  <2>2. u \in AheadIn(R, S, v) /\ u \notin AheadIn(R, S, u)
    BY <1>2 DEF AheadIn, Orders
  <2>3. /\ Cardinality(AheadIn(R, S, u)) <= Cardinality(AheadIn(R, S, v))
        /\ Cardinality(AheadIn(R, S, u)) # Cardinality(AheadIn(R, S, v))
    BY <1>1, <2>1, <2>2, FS_Subset
  <2> QED BY <1>1, <2>3
<1>3. Cardinality(AheadIn(R, S, x)) < Cardinality(S)
  <2>1. AheadIn(R, S, x) \in SUBSET S
    BY DEF AheadIn
  <2>2. x \notin AheadIn(R, S, x)
    BY DEF AheadIn, Orders
  <2>3. Cardinality(AheadIn(R, S, x)) <= Cardinality(S) /\ Cardinality(AheadIn(R, S, x)) # Cardinality(S)
    BY <2>1, <2>2, FS_Subset
  <2> QED BY <1>1, <2>3, FS_CardinalityType
<1>4. x # y => <<x, y>> \in R \/ <<y, x>> \in R
  BY DEF Orders
<1>5. ~(<<x, x>> \in R) /\ ~(<<x, y>> \in R /\ <<y, x>> \in R)
  BY DEF Orders
<1>6. /\ <<x, y>> \in R => Cardinality(AheadIn(R, S, x)) < Cardinality(AheadIn(R, S, y))
      /\ <<y, x>> \in R => Cardinality(AheadIn(R, S, y)) < Cardinality(AheadIn(R, S, x))
  BY <1>2
<1>7. Cardinality(AheadIn(R, S, x)) \in Nat /\ Cardinality(AheadIn(R, S, y)) \in Nat
  BY <1>1
<1> QED BY <1>3, <1>4, <1>5, <1>6, <1>7

\* Each number below the size of the set is how many are ahead of somebody.
LEMMA RanksAreAll ==
  ASSUME NEW S, IsFiniteSet(S), NEW R, Orders(R, S), NEW k \in Nat, k < Cardinality(S)
  PROVE  \E x \in S : Cardinality(AheadIn(R, S, x)) = k
<1>1. PICK n \in Nat : n = Cardinality(S)
  BY FS_CardinalityType
<1>2. PICK f : f = [x \in S |-> Cardinality(AheadIn(R, S, x))]
  OBVIOUS
<1>3. \A x \in S : f[x] \in 0..(n - 1)
  <2>1. \A x \in S : Cardinality(AheadIn(R, S, x)) \in Nat /\ Cardinality(AheadIn(R, S, x)) < n
    BY <1>1, RanksAscend
  <2> QED BY <1>1, <1>2, <2>1
<1>4. ASSUME NEW x \in S, NEW y \in S, f[x] = f[y] PROVE x = y
  <2>1. x # y <=> Cardinality(AheadIn(R, S, x)) # Cardinality(AheadIn(R, S, y))
    BY RanksAscend
  <2> QED BY <1>2, <1>4, <2>1
<1>5. f \in Injection(S, 0..(n - 1))
  <2>1. f \in [S -> 0..(n - 1)]
    BY <1>2, <1>3
  <2> QED BY <1>4, <2>1 DEF Injection, IsInjective
<1>6. IsFiniteSet(0..(n - 1)) /\ Cardinality(0..(n - 1)) = n
  BY FS_Interval
<1>7. f \in Surjection(S, 0..(n - 1))
  BY <1>1, <1>5, <1>6, FS_Injection
<1>8. \E x \in S : f[x] = k
  <2>1. k \in 0..(n - 1)
    BY <1>1
  <2> QED BY <1>7, <2>1 DEF Surjection
<1> QED BY <1>2, <1>8

\* The first of an ordered set are as many as there may be, and ahead of the others.
LEMMA FirstOfOrder ==
  ASSUME NEW S, IsFiniteSet(S), NEW R, Orders(R, S), NEW take \in Nat
  PROVE  LET kept == {x \in S : Cardinality(AheadIn(R, S, x)) < take} IN
         /\ Cardinality(kept) = IF take <= Cardinality(S) THEN take ELSE Cardinality(S)
         /\ \A x \in kept, y \in S \ kept : <<x, y>> \in R
<1> DEFINE kept == {x \in S : Cardinality(AheadIn(R, S, x)) < take}
<1>1. PICK n \in Nat : n = Cardinality(S)
  BY FS_CardinalityType
<1>2. PICK m \in Nat : m = IF take <= n THEN take ELSE n
  OBVIOUS
<1>3. PICK f : f = [x \in kept |-> Cardinality(AheadIn(R, S, x))]
  OBVIOUS
<1>4. \A x \in S : Cardinality(AheadIn(R, S, x)) \in Nat /\ Cardinality(AheadIn(R, S, x)) < n
  BY <1>1, RanksAscend
<1>5. f \in [kept -> 0..(m - 1)]
  <2>1. \A x \in kept : f[x] \in 0..(m - 1)
    BY <1>2, <1>3, <1>4
  <2> HIDE DEF kept
  <2> QED BY <1>3, <2>1
<1>6. ASSUME NEW x \in kept, NEW y \in kept, f[x] = f[y] PROVE x = y
  <2>1. x # y <=> Cardinality(AheadIn(R, S, x)) # Cardinality(AheadIn(R, S, y))
    BY RanksAscend
  <2> HIDE DEF kept
  <2> QED BY <1>3, <1>6, <2>1
<1>7. \A k \in 0..(m - 1) : \E x \in kept : f[x] = k
  <2>1. TAKE k \in 0..(m - 1)
  <2>2. k \in Nat /\ k < Cardinality(S) /\ k < take
    BY <1>1, <1>2
  <2>3. PICK x \in S : Cardinality(AheadIn(R, S, x)) = k
    BY <2>2, RanksAreAll
  <2> QED BY <1>3, <2>2, <2>3
<1>8. IsFiniteSet(0..(m - 1)) /\ Cardinality(0..(m - 1)) = m
  BY FS_Interval
<1>9. Cardinality(kept) = m
  <2> HIDE DEF kept
  <2>1. f \in Injection(kept, 0..(m - 1)) /\ f \in Surjection(kept, 0..(m - 1))
    BY <1>5, <1>6, <1>7 DEF Injection, IsInjective, Surjection
  <2> QED BY <1>8, <2>1, FS_Injection
<1>10. ASSUME NEW x \in kept, NEW y \in S \ kept PROVE <<x, y>> \in R
  <2>1. Cardinality(AheadIn(R, S, x)) < take /\ ~(Cardinality(AheadIn(R, S, y)) < take)
    OBVIOUS
  <2>2. Cardinality(AheadIn(R, S, x)) < Cardinality(AheadIn(R, S, y))
    BY <1>4, <2>1
  <2> QED BY <2>2, RanksAscend
<1> QED BY <1>1, <1>2, <1>9, <1>10

\* What is weighed.
SelectionInv ==
  /\ policy \in Policies /\ allowed \subseteq Resources
  /\ ledger \in [Resources -> [EvidenceKinds -> Nat]]

AheadOrder == {e \in Eligible \X Eligible : Ahead(e[1], e[2])}

\* Scores are numbers, and the ranking is a total order.
LEMMA ScoresAreNumbers ==
  ASSUME SelectionInv, NEW r \in Resources
  PROVE  Score(r) \in Int /\ TieBreak(r) \in Int /\ Successes(r) \in Nat /\ r \in Int
<1>1. ledger[r] \in [EvidenceKinds -> Nat]
  BY DEF SelectionInv
<1>2. \A k \in EvidenceKinds : ledger[r][k] \in Nat
  BY <1>1
<1>3. Successes(r) \in Nat /\ Failures(r) \in Nat /\ Verified(r) \in Nat
  <2>1. PICK a \in Nat : a = ledger[r]["success"]
    BY <1>2 DEF EvidenceKinds
  <2>2. PICK b \in Nat : b = ledger[r]["failure"]
    BY <1>2 DEF EvidenceKinds
  <2>3. PICK c \in Nat : c = ledger[r]["failure_record"]
    BY <1>2 DEF EvidenceKinds
  <2>4. Successes(r) = a /\ Failures(r) = b + c /\ Verified(r) = a + b
    BY <2>1, <2>2, <2>3 DEF Successes, Failures, Verified
  <2> QED BY <2>4
<1>4. /\ policy.success \in Nat /\ policy.penalty \in Nat /\ policy.fit \in Nat
      /\ policy.reliability \in Nat /\ policy.cost \in Nat
  BY SelectionAssumption DEF SelectionInv, SelectionAssumption
<1>5. CostOf[r] \in Nat /\ r \in Int
  BY SelectionAssumption DEF SelectionAssumption
<1>6. policy.success * Successes(r) \in Int /\ policy.penalty * Failures(r) \in Int
      /\ policy.reliability * Verified(r) \in Int /\ policy.cost * CostOf[r] \in Int
  BY <1>3, <1>4, <1>5
<1>7. Score(r) \in Int
  BY <1>4, <1>6 DEF Score
<1>8. TieBreak(r) \in Int
  <2>1. PICK n \in Int : n = - Successes(r)
    BY <1>3
  <2>2. TieBreak(r) = IF policy.tie = "lower_cost" THEN CostOf[r] ELSE IF policy.tie = "recent_success" THEN n ELSE 0
    BY <2>1, Zenon DEF TieBreak
  <2>3. CASE policy.tie = "lower_cost"
    <3>1. TieBreak(r) = CostOf[r]
      BY <2>2, <2>3
    <3> QED BY <1>5, <3>1
  <2>4. CASE policy.tie # "lower_cost" /\ policy.tie = "recent_success"
    <3>1. TieBreak(r) = n
      BY <2>2, <2>4
    <3> QED BY <3>1
  <2>5. CASE policy.tie # "lower_cost" /\ policy.tie # "recent_success"
    <3>1. TieBreak(r) = 0
      BY <2>2, <2>5
    <3> QED BY <3>1
  <2> QED BY <2>3, <2>4, <2>5
<1> QED BY <1>3, <1>5, <1>7, <1>8

\* What is eligible can be counted, and is in order.
LEMMA EligibleInOrder ==
  ASSUME SelectionInv
  PROVE  /\ Eligible \subseteq Resources \cap allowed /\ IsFiniteSet(Eligible) /\ Orders(AheadOrder, Eligible)
         /\ \A r \in Eligible : Position(r) = 1 + Cardinality(AheadIn(AheadOrder, Eligible, r))
<1>1. Eligible \subseteq Resources \cap allowed
  BY DEF Eligible, Prefiltered
<1>2. IsFiniteSet(Eligible)
  <2>1. Eligible \in SUBSET Resources
    BY <1>1
  <2> QED BY <2>1, FS_Subset, SelectionAssumption DEF SelectionAssumption
<1>3. \A r \in Eligible : Score(r) \in Int /\ TieBreak(r) \in Int /\ r \in Int
  BY <1>1, ScoresAreNumbers
<1>4. \A x, y \in Eligible : <<x, y>> \in AheadOrder <=> Ahead(x, y)
  BY DEF AheadOrder
<1>5. \A x, y \in Eligible : x # y => Ahead(x, y) \/ Ahead(y, x)
  BY <1>3 DEF Ahead
<1>6. \A x, y \in Eligible : ~(Ahead(x, y) /\ Ahead(y, x))
  BY <1>3 DEF Ahead
<1>7. \A x, y, z \in Eligible : Ahead(x, y) /\ Ahead(y, z) => Ahead(x, z)
  BY <1>3 DEF Ahead
<1>8. Orders(AheadOrder, Eligible)
  BY <1>4, <1>5, <1>6, <1>7 DEF Orders
<1>9. ASSUME NEW r \in Eligible PROVE Position(r) = 1 + Cardinality(AheadIn(AheadOrder, Eligible, r))
  <2>1. {s \in Eligible : Ahead(s, r)} = AheadIn(AheadOrder, Eligible, r)
    BY <1>4 DEF AheadIn
  <2> QED BY <2>1 DEF Position
<1> QED BY <1>1, <1>2, <1>8, <1>9

\* The smaller of two numbers.
LEMMA MinOfTwo ==
  ASSUME NEW m \in Nat, NEW n \in Nat
  PROVE  Min({m, n}) = IF m <= n THEN m ELSE n
<1>1. \E x \in {m, n} : \A y \in {m, n} : x <= y
  OBVIOUS
<1>2. Min({m, n}) \in {m, n} /\ \A y \in {m, n} : Min({m, n}) <= y
  BY <1>1 DEF Min
<1> QED BY <1>2

\* At each place is the one who has that many ahead of it.
LEMMA RankedByPosition ==
  ASSUME SelectionInv
  PROVE  \E size \in Nat :
         /\ size = (IF Cardinality(Eligible) <= policy.limit THEN Cardinality(Eligible) ELSE policy.limit)
         /\ DOMAIN Ranked = 1..size
         /\ \A i \in 1..size : Ranked[i] \in Eligible /\ Position(Ranked[i]) = i
<1>1. PICK n \in Nat : n = Cardinality(Eligible)
  BY EligibleInOrder, FS_CardinalityType
<1>2. policy.limit \in Nat
  BY SelectionAssumption DEF SelectionInv, SelectionAssumption
<1>3. PICK size \in Nat : size = IF n <= policy.limit THEN n ELSE policy.limit
  BY <1>2
<1>4. Min({Cardinality(Eligible), policy.limit}) = size
  BY <1>1, <1>2, <1>3, MinOfTwo
<1>5. Ranked = [i \in 1..size |-> CHOOSE r \in Eligible : Position(r) = i]
  BY <1>4 DEF Ranked
<1>6. ASSUME NEW i \in 1..size PROVE Ranked[i] \in Eligible /\ Position(Ranked[i]) = i
  <2>1. i - 1 \in Nat /\ i - 1 < Cardinality(Eligible)
    BY <1>1, <1>2, <1>3
  <2>2. PICK r \in Eligible : Cardinality(AheadIn(AheadOrder, Eligible, r)) = i - 1
    BY <2>1, EligibleInOrder, RanksAreAll
  <2>3. Position(r) = i
    BY <2>2, EligibleInOrder
  <2>4. Ranked[i] = CHOOSE s \in Eligible : Position(s) = i
    BY <1>5
  <2> QED BY <2>3, <2>4
<1> QED BY <1>1, <1>3, <1>5, <1>6

\* The ranking keeps to the order.
LEMMA RankingFollows == SelectionInv => RankingIsSound
<1> SUFFICES ASSUME SelectionInv PROVE RankingIsSound
  OBVIOUS
<1>1. PICK size \in Nat :
         /\ size = (IF Cardinality(Eligible) <= policy.limit THEN Cardinality(Eligible) ELSE policy.limit)
         /\ DOMAIN Ranked = 1..size
         /\ \A i \in 1..size : Ranked[i] \in Eligible /\ Position(Ranked[i]) = i
  BY RankedByPosition
<1>2. /\ Eligible \subseteq Resources \cap allowed /\ IsFiniteSet(Eligible) /\ Orders(AheadOrder, Eligible)
      /\ \A r \in Eligible : Position(r) = 1 + Cardinality(AheadIn(AheadOrder, Eligible, r))
  BY EligibleInOrder
<1>3. \A r \in Eligible : Position(r) \in Nat /\ Position(r) >= 1 /\ Position(r) <= Cardinality(Eligible)
  <2>1. \A r \in Eligible : /\ Cardinality(AheadIn(AheadOrder, Eligible, r)) \in Nat
                            /\ Cardinality(AheadIn(AheadOrder, Eligible, r)) < Cardinality(Eligible)
    BY <1>2, RanksAscend
  <2> QED BY <1>2, <2>1, FS_CardinalityType
<1>4. ASSUME NEW r \in Eligible, NEW s \in Eligible, Position(r) < Position(s) PROVE Score(r) >= Score(s) /\ r # s
  <2>1. Cardinality(AheadIn(AheadOrder, Eligible, r)) < Cardinality(AheadIn(AheadOrder, Eligible, s))
    <3>1. /\ Cardinality(AheadIn(AheadOrder, Eligible, r)) \in Nat
          /\ Cardinality(AheadIn(AheadOrder, Eligible, s)) \in Nat
      BY <1>2, RanksAscend
    <3> QED BY <1>2, <1>4, <3>1
  <2>2. <<r, s>> \in AheadOrder
    BY <1>2, <2>1, RanksAscend
  <2>3. Ahead(r, s)
    BY <2>2 DEF AheadOrder
  <2>4. Score(r) \in Int /\ Score(s) \in Int /\ Position(r) \in Nat
    BY <1>2, <1>3, ScoresAreNumbers
  <2> QED BY <1>4, <2>3, <2>4 DEF Ahead
<1>5. ToSet(Ranked) \subseteq allowed
  BY <1>1, <1>2 DEF ToSet
<1>6. ASSUME NEW i \in DOMAIN Ranked, NEW j \in DOMAIN Ranked, i < j
      PROVE  Ranked[i] # Ranked[j] /\ Score(Ranked[i]) >= Score(Ranked[j])
  BY <1>1, <1>4, <1>6
<1>7. ASSUME NEW r \in Eligible \ ToSet(Ranked), NEW i \in DOMAIN Ranked
      PROVE  Score(Ranked[i]) >= Score(r)
  <2>1. Position(r) \notin 1..size
    <3>1. SUFFICES ASSUME Position(r) \in 1..size PROVE FALSE
      OBVIOUS
    <3>2. PICK p \in 1..size : p = Position(r)
      BY <3>1
    <3>3. PICK s \in Eligible : s = Ranked[p] /\ Position(s) = p
      BY <1>1
    <3>4. s \in ToSet(Ranked)
      BY <1>1, <3>3 DEF ToSet
    <3>5. Cardinality(AheadIn(AheadOrder, Eligible, r)) = Cardinality(AheadIn(AheadOrder, Eligible, s))
      <4>1. /\ Cardinality(AheadIn(AheadOrder, Eligible, r)) \in Nat
            /\ Cardinality(AheadIn(AheadOrder, Eligible, s)) \in Nat
        BY <1>2, RanksAscend
      <4> QED BY <1>2, <3>2, <3>3, <4>1
    <3>6. r = s
      BY <1>2, <3>5, RanksAscend
    <3> QED BY <3>4, <3>6
  <2>2. Position(Ranked[i]) < Position(r)
    BY <1>1, <1>3, <2>1
  <2> QED BY <1>1, <1>4, <2>2
<1> QED BY <1>5, <1>6, <1>7 DEF RankingIsSound

\* A route r that was narrowed keeps its heaviest nodes and what connects them.
Narrowed(r, edges, weight, take) ==
  /\ r.nodes \subseteq allowed /\ Cardinality(r.nodes) = Min({take, Cardinality(allowed)})
  /\ \A x \in r.nodes, y \in allowed \ r.nodes : weight[x] >= weight[y]
  /\ r.edges = edges \cap (r.nodes \X r.nodes)

\* The nodes a strategy keeps are the heaviest.
LEMMA NarrowKeepsHeaviest ==
  ASSUME SelectionInv, NEW edges, edges \subseteq allowed \X allowed, NEW weight \in [Resources -> 1..2], NEW take \in 1..2
  PROVE  Narrowed(Narrow(allowed, edges, weight, take), edges, weight, take)
<1>1. allowed \subseteq Resources /\ Resources \subseteq Int /\ IsFiniteSet(allowed) /\ take \in Nat
  <2>1. allowed \in SUBSET Resources
    BY DEF SelectionInv
  <2>2. IsFiniteSet(Resources) /\ Resources \subseteq Int
    BY SelectionAssumption DEF SelectionAssumption
  <2>3. IsFiniteSet(allowed)
    BY <2>1, <2>2, FS_Subset
  <2> QED BY <2>1, <2>2, <2>3
<1>2. PICK n \in Nat : n = Cardinality(allowed)
  BY <1>1, FS_CardinalityType
<1>3. PICK R : R = {e \in allowed \X allowed : weight[e[1]] > weight[e[2]] \/ (weight[e[1]] = weight[e[2]] /\ e[1] < e[2])}
  OBVIOUS
<1>4. \A x, y \in allowed : <<x, y>> \in R <=> weight[x] > weight[y] \/ (weight[x] = weight[y] /\ x < y)
  BY <1>3
<1>5. \A x \in allowed : weight[x] \in Int /\ x \in Int
  BY <1>1
<1>6. Orders(R, allowed)
  <2>1. ASSUME NEW x \in allowed, NEW y \in allowed, x # y PROVE <<x, y>> \in R \/ <<y, x>> \in R
    <3>1. PICK a, b \in Int : a = weight[x] /\ b = weight[y]
      BY <1>5
    <3> QED BY <1>4, <1>5, <2>1, <3>1
  <2>2. ASSUME NEW x \in allowed, NEW y \in allowed PROVE ~(<<x, y>> \in R /\ <<y, x>> \in R)
    <3>1. PICK a, b \in Int : a = weight[x] /\ b = weight[y]
      BY <1>5
    <3> QED BY <1>4, <1>5, <3>1
  <2>3. ASSUME NEW x \in allowed, NEW y \in allowed, NEW z \in allowed, <<x, y>> \in R, <<y, z>> \in R
        PROVE  <<x, z>> \in R
    <3>1. PICK a, b, c \in Int : a = weight[x] /\ b = weight[y] /\ c = weight[z]
      BY <1>5
    <3> QED BY <1>4, <1>5, <2>3, <3>1
  <2> QED BY <2>1, <2>2, <2>3 DEF Orders
<1>7. PICK kept : kept = {x \in allowed : Cardinality(AheadIn(R, allowed, x)) < take}
  OBVIOUS
<1>8. Narrow(allowed, edges, weight, take) = [nodes |-> kept, edges |-> {e \in edges : e[1] \in kept /\ e[2] \in kept}]
  <2>1. ASSUME NEW x \in allowed
        PROVE  {y \in allowed : weight[y] > weight[x] \/ (weight[y] = weight[x] /\ y < x)} = AheadIn(R, allowed, x)
    BY <1>4 DEF AheadIn
  <2>2. kept = {x \in allowed : Cardinality({y \in allowed : weight[y] > weight[x] \/ (weight[y] = weight[x] /\ y < x)}) < take}
    BY <1>7, <2>1
  <2> QED BY <2>2, Zenon DEF Narrow
<1>9. /\ Cardinality(kept) = IF take <= n THEN take ELSE n
      /\ \A x \in kept, y \in allowed \ kept : <<x, y>> \in R
  BY <1>1, <1>2, <1>6, <1>7, FirstOfOrder
<1>10. Cardinality(kept) = Min({take, Cardinality(allowed)})
  BY <1>1, <1>2, <1>9, MinOfTwo
<1>11. kept \subseteq allowed
  BY <1>7
<1>12. ASSUME NEW x \in kept, NEW y \in allowed \ kept PROVE weight[x] >= weight[y]
  <2>1. <<x, y>> \in R /\ x \in allowed /\ y \in allowed
    BY <1>9, <1>11
  <2>2. PICK a, b \in Int : a = weight[x] /\ b = weight[y]
    BY <1>5, <2>1
  <2>3. a > b \/ a = b
    BY <1>4, <2>1, <2>2
  <2> QED BY <2>2, <2>3
<1>13. {e \in edges : e[1] \in kept /\ e[2] \in kept} = edges \cap (kept \X kept)
  OBVIOUS
<1> QED BY <1>8, <1>10, <1>11, <1>12, <1>13 DEF Narrowed

\* A strategy takes no more than it is given.
LEMMA NarrowingFollows == SelectionInv => StrategiesOnlyNarrow
<1> SUFFICES ASSUME SelectionInv PROVE StrategiesOnlyNarrow
  OBVIOUS
<1>1. ASSUME NEW edges \in SUBSET {e \in allowed \X allowed : e[1] < e[2]},
             NEW weight \in [Resources -> 1..2], NEW take \in 1..2
      PROVE  Narrowed(Narrow(allowed, edges, weight, take), edges, weight, take)
  <2>1. edges \subseteq allowed \X allowed
    OBVIOUS
  <2> QED BY <2>1, NarrowKeepsHeaviest
<1>2. ASSUME NEW s \in [{"turns", "tokens"} -> 0..2], NEW h \in [{"turns", "tokens"} -> 0..2], LoopBudget(s, h) # <<>>,
             NEW d \in {"turns", "tokens"}, h[d] # Unbounded
      PROVE  LoopBudget(s, h)[d] <= h[d]
  <2>1. (\A c \in DOMAIN s : Within(s[c], h[c])) /\ LoopBudget(s, h) = s
    BY <1>2 DEF LoopBudget
  <2> QED BY <1>2, <2>1 DEF Within
<1>3. ASSUME NEW d \in 1..3, NEW m \in 1..3, NEW l \in 1..3, NEW v \in 0..1
      PROVE  Scaffold(d, m, l, v) <= m /\ (m < l => Scaffold(d, m, l, v) = 0)
  <2>1. Min({d, m}) = IF d <= m THEN d ELSE m
    BY MinOfTwo
  <2>2. PICK e \in 1..3 : e = Min({d, m}) /\ e <= m
    BY <2>1
  <2>3. Scaffold(d, m, l, v) = IF v = 0 \/ e < l THEN 0 ELSE e
    BY <2>2 DEF Scaffold
  <2> QED BY <2>2, <2>3
<1> QED BY <1>1, <1>2, <1>3 DEF StrategiesOnlyNarrow, Narrowed

\* A generation has not lost what its chain must keep, and a tick keeps to its attention.
FitnessInv ==
  /\ generation \in [first : Metrics, now : Metrics] /\ ChainsDoNotRegress
  /\ tick \in [left : Nat, interrupts : Nat, seen : Nat, dropped : BOOLEAN] /\ TickIsBounded

\* The first strategy is its own chain, and the first tick has all its attention.
LEMMA FitnessStart == FitnessInit => FitnessInv
<1> SUFFICES ASSUME FitnessInit PROVE FitnessInv
  OBVIOUS
<1>1. Attention \in Nat /\ MaxInterrupts \in Nat
  BY FitnessAssumption DEF FitnessAssumption
<1>2. PICK m \in Metrics : generation = [first |-> m, now |-> m]
  BY DEF FitnessInit
<1>3. ChainsDoNotRegress
  <2>1. m.correct \in Int /\ m.handoffs \in Int /\ m.extra \in Int
    BY DEF Metrics
  <2> QED BY <1>2, <2>1 DEF ChainsDoNotRegress
<1>4. tick = [left |-> Attention, interrupts |-> 0, seen |-> 0, dropped |-> FALSE]
  BY DEF FitnessInit
<1> QED BY <1>1, <1>2, <1>3, <1>4 DEF FitnessInv, TickIsBounded

\* What succeeds passed against what it succeeds, and a message takes what is left.
LEMMA FitnessKept ==
  ASSUME FitnessInv, [RegistriesNext \/ OutcomesNext \/ GenerationNext \/ TickNext]_fitnessVars
  PROVE  FitnessInv'
<1>0. /\ generation \in [first : Metrics, now : Metrics]
      /\ tick \in [left : Nat, interrupts : Nat, seen : Nat, dropped : BOOLEAN]
  BY DEF FitnessInv
<1>1. CASE UNCHANGED <<generation, tick>>
  BY <1>1 DEF FitnessInv, ChainsDoNotRegress, TickIsBounded
<1>2. ASSUME NEW c \in Metrics, Succeed(c) PROVE FitnessInv'
  <2>1. generation' = [generation EXCEPT !.now = c] /\ tick' = tick /\ ~HardFailure(generation.now, c)
    BY <1>2 DEF Succeed, Compare
  <2>2. PICK f, b \in Metrics : f = generation.first /\ b = generation.now
    BY <1>0
  <2>3. generation'.first = f /\ generation'.now = c /\ generation' \in [first : Metrics, now : Metrics]
    BY <1>0, <2>1, <2>2
  <2>4. b.correct >= f.correct /\ b.handoffs <= f.handoffs /\ b.extra <= f.extra
    BY <2>2 DEF FitnessInv, ChainsDoNotRegress
  <2>5. ~(c.correct < b.correct) /\ ~(c.handoffs > b.handoffs) /\ ~(c.extra > b.extra)
    BY <2>1, <2>2 DEF HardFailure
  <2>6. \A m \in {f, b, c} : m.correct \in Int /\ m.handoffs \in Int /\ m.extra \in Int
    BY DEF Metrics
  <2>7. c.correct >= f.correct /\ c.handoffs <= f.handoffs /\ c.extra <= f.extra
    BY <2>4, <2>5, <2>6
  <2>8. ChainsDoNotRegress'
    BY <2>3, <2>7 DEF ChainsDoNotRegress
  <2>9. TickIsBounded'
    BY <2>1 DEF FitnessInv, TickIsBounded
  <2> QED BY <1>0, <2>1, <2>3, <2>8, <2>9 DEF FitnessInv
<1>3. ASSUME NEW o \in Opportunities, Consider(o) PROVE FitnessInv'
  <2>1. PICK d : d = Proactive(o)
    OBVIOUS
  <2>2. /\ tick' = [left |-> tick.left - (IF d \in Deliveries THEN Cost(d) ELSE 0),
                    interrupts |-> tick.interrupts + (IF d = "interrupt" THEN 1 ELSE 0),
                    seen |-> tick.seen + 1,
                    dropped |-> tick.dropped \/ (o.commitment /\ o.gates /\ d \notin Deliveries)]
        /\ generation' = generation
    BY <1>3, <2>1 DEF Consider
  <2>3. PICK a, i, s \in Nat : a = tick.left /\ i = tick.interrupts /\ s = tick.seen /\ ~tick.dropped /\ i <= MaxInterrupts
    BY <1>0 DEF FitnessInv, TickIsBounded
  <2>4. MaxInterrupts \in Nat /\ \A e \in Deliveries : Cost(e) \in Nat
    BY FitnessAssumption DEF FitnessAssumption, Cost
  <2>5. Softened(o) \in Deliveries /\ (Softened(o) = "interrupt" => i < MaxInterrupts)
    BY <2>3, <2>4 DEF Softened, Opportunities, Deliveries
  <2>6. Cost("internal") = 0
    BY DEF Cost
  <2>7. /\ d \in Deliveries => Cost(d) <= a
        /\ d = "interrupt" => i < MaxInterrupts
        /\ ~(o.commitment /\ o.gates /\ d \notin Deliveries)
    <3>1. PICK f \in Deliveries : f = Softened(o) /\ (f = "interrupt" => i < MaxInterrupts)
      BY <2>5
    <3>2. PICK n \in Nat : n = Cost(f)
      BY <2>4
    <3>3. d = IF ~o.gates THEN "blocked"
              ELSE IF ~o.commitment /\ o.value < MinimumValue THEN "below value"
              ELSE IF n <= a THEN f
              ELSE IF o.commitment THEN "internal" ELSE "no attention"
      BY <2>1, <2>3, <3>1, <3>2, Zenon DEF Proactive
    <3>4. \/ d = "blocked" /\ ~o.gates
          \/ d = "below value" /\ ~o.commitment
          \/ d = f /\ n <= a
          \/ d = "internal"
          \/ d = "no attention" /\ ~o.commitment
      BY <3>3
    <3>5. "blocked" \notin Deliveries /\ "below value" \notin Deliveries /\ "no attention" \notin Deliveries
          /\ "internal" \in Deliveries
      BY DEF Deliveries
    <3>6. ~(o.commitment /\ o.gates /\ d \notin Deliveries)
      BY <3>1, <3>4, <3>5
    <3>7. d = "interrupt" => i < MaxInterrupts
      BY <3>1, <3>4
    <3>8. d \in Deliveries => Cost(d) <= a
      <4>1. SUFFICES ASSUME d \in Deliveries PROVE Cost(d) <= a
        OBVIOUS
      <4>2. (d = f /\ n <= a) \/ d = "internal"
        BY <3>4, <3>5, <4>1
      <4>3. CASE d = f /\ n <= a
        BY <3>2, <4>3
      <4>4. CASE d = "internal"
        BY <2>6, <4>4
      <4> QED BY <4>2, <4>3, <4>4
    <3> QED BY <3>6, <3>7, <3>8
  <2>8. PICK left \in Nat : left = a - (IF d \in Deliveries THEN Cost(d) ELSE 0)
    <3>1. CASE d \in Deliveries
      BY <2>4, <2>7, <3>1
    <3>2. CASE d \notin Deliveries
      BY <3>2
    <3> QED BY <3>1, <3>2
  <2>9. PICK interrupts \in Nat : interrupts = i + (IF d = "interrupt" THEN 1 ELSE 0) /\ interrupts <= MaxInterrupts
    BY <2>3, <2>4, <2>7
  <2>10. tick' = [left |-> left, interrupts |-> interrupts, seen |-> s + 1, dropped |-> FALSE]
    BY <2>2, <2>3, <2>7, <2>8, <2>9
  <2>11. TickIsBounded' /\ tick' \in [left : Nat, interrupts : Nat, seen : Nat, dropped : BOOLEAN]
    BY <2>8, <2>9, <2>10 DEF TickIsBounded
  <2>12. ChainsDoNotRegress'
    BY <2>2 DEF FitnessInv, ChainsDoNotRegress
  <2> QED BY <1>0, <2>2, <2>11, <2>12 DEF FitnessInv
<1>4. CASE RegistriesNext \/ OutcomesNext
  BY <1>1, <1>4 DEF RegistriesNext, OutcomesNext, RegisterLoop, RegisterCoordination, RegisterSelection, RegisterModel,
     RegisterCognitive, Register, Gather
<1>5. CASE UNCHANGED fitnessVars
  BY <1>1, <1>5 DEF fitnessVars
<1> QED BY <1>2, <1>3, <1>4, <1>5 DEF GenerationNext, TickNext

\* The policy is one of the policies, and evidence is counted.
LEMMA SelectionKept ==
  ASSUME SelectionInv, [SelectionNext]_selectionVars
  PROVE  SelectionInv'
<1>1. CASE UNCHANGED selectionVars
  BY <1>1 DEF SelectionInv, selectionVars
<1>2. ASSUME NEW r \in Resources, NEW kind \in EvidenceKinds, RecordOutcome(r, kind) PROVE SelectionInv'
  <2>1. ledger' = [ledger EXCEPT ![r][kind] = @ + 1] /\ policy' = policy /\ allowed' = allowed
    BY <1>2 DEF RecordOutcome
  <2>2. PICK m : m = [ledger[r] EXCEPT ![kind] = @ + 1]
    OBVIOUS
  <2>3. ledger[r] \in [EvidenceKinds -> Nat]
    BY DEF SelectionInv
  <2>4. m \in [EvidenceKinds -> Nat]
    BY <2>2, <2>3
  <2>5. ledger' = [ledger EXCEPT ![r] = m]
    BY <2>1, <2>2
  <2> QED BY <2>1, <2>4, <2>5 DEF SelectionInv
<1> QED BY <1>1, <1>2 DEF SelectionNext

\* Nothing has been recorded to begin with.
LEMMA SelectionStart == SelectionInit => SelectionInv
BY DEF SelectionInit, SelectionInv

\* What strategies are judged by and selected with, for any resources, weights and evidence: no chain of
\* successors loses correctness, hands off worse or delegates more, a tick keeps to its attention and
\* delivers what it committed to, a ranking holds only what is allowed and nothing left out beats what was
\* kept, and a strategy only narrows what it is given (compare_coordination_fitness,
\* apply_proactivity_strategy, rank_prefiltered, apply_coordination_strategy, adapt_model_scaffold).
THEOREM SelectionStaysSound == GrowthSpec => []SelectionIsSound
<1>1. GrowthInit => FitnessInv /\ SelectionInv
  BY FitnessStart, SelectionStart DEF GrowthInit
<1>2. FitnessInv /\ SelectionInv /\ [GrowthNext]_growthVars => FitnessInv' /\ SelectionInv'
  <2>1. [GrowthNext]_growthVars =>
           /\ [RegistriesNext \/ OutcomesNext \/ GenerationNext \/ TickNext]_fitnessVars
           /\ [SelectionNext]_selectionVars
    BY DEF GrowthNext, growthVars
  <2> QED BY <2>1, FitnessKept, SelectionKept
<1>3. FitnessInv /\ SelectionInv => SelectionIsSound
  BY RankingFollows, NarrowingFollows DEF FitnessInv, SelectionIsSound
<1> QED BY <1>1, <1>2, <1>3, PTL DEF GrowthSpec

-----------------------------------------------------------------------------
(* What growth never does                                                    *)

\* A project is stopped between its advances.
StoppedInv == project.cancelled \/ project.revoked => step = AtRest

\* What is stopped stays at rest, and starts nothing.
LEMMA StoppedKept ==
  ASSUME ProjectInv, StoppedInv, [LongHorizonNext]_longHorizonVars
  PROVE  StoppedInv' /\ StoppedProjectRests
<1>0. project \in Projects /\ AtRest.at = "rest"
  BY DEF ProjectInv, ProjectShapeOK, AtRest
<1>1. CASE UNCHANGED longHorizonVars
  BY <1>1 DEF StoppedInv, StoppedProjectRests, longHorizonVars
<1>2. CASE step = AtRest /\ step' = AtRest /\ keyRuns' = keyRuns /\ project'.next = project.next
  BY <1>2 DEF StoppedInv, StoppedProjectRests
<1>3. CASE ~project.cancelled /\ ~project.revoked /\ (step' = AtRest \/ (~project'.cancelled /\ ~project'.revoked))
  BY <1>3 DEF StoppedInv, StoppedProjectRests
<1>4. step.at \in {"accepted", "complete", "failed", "outward"} => ~project.cancelled /\ ~project.revoked
  BY <1>0 DEF StoppedInv
<1>5. CASE Defer \/ \E how \in {"cancelled", "revoked"} : Stop(how)
  <2>1. step = AtRest /\ step' = step /\ keyRuns' = keyRuns
    BY <1>5 DEF Defer, Stop
  <2>2. project'.next = project.next
    BY <1>0, <1>5 DEF Defer, Stop, Projects
  <2> QED BY <1>2, <2>1, <2>2
<1>6. CASE \E key \in ScheduleKeys : BeginAdvance(key)
  BY <1>3, <1>6 DEF BeginAdvance, MayAdvance
<1>7. ASSUME NEW key \in ScheduleKeys, ResumeAccepted(key) PROVE StoppedInv' /\ StoppedProjectRests
  <2>1. step' = step /\ project' = project /\ DOMAIN keyRuns' = DOMAIN keyRuns
    BY <1>7 DEF ResumeAccepted
  <2> QED BY <2>1 DEF StoppedInv, StoppedProjectRests
<1>8. CASE DriveCheckpoint \/ RouteFails \/ (\E c \in BOOLEAN : CheckpointFails(c)) \/ GoOutward \/ OutwardFails
  BY <1>3, <1>4, <1>8 DEF DriveCheckpoint, RouteFails, CheckpointFails, GoOutward, OutwardFails, MayGoOutward
<1>9. CASE FinishAdvance
  BY <1>3, <1>4, <1>9 DEF FinishAdvance
<1>10. CASE LoseProject
  BY <1>10 DEF LoseProject, StoppedInv, StoppedProjectRests
<1> QED BY <1>1, <1>5, <1>6, <1>7, <1>8, <1>9, <1>10 DEF LongHorizonNext

\* No version is given another content.
LEMMA ContentKept ==
  ASSUME [RegistriesNext \/ OutcomesNext \/ GenerationNext \/ TickNext]_fitnessVars
  PROVE  ContentIsFixed
<1>1. CASE UNCHANGED registries
  BY <1>1 DEF ContentIsFixed
<1>2. ASSUME NEW key, NEW content, Register(key, content) PROVE ContentIsFixed
  BY <1>2 DEF Register, MayRegister, ContentIsFixed
<1>3. CASE RegistriesNext
  BY <1>2, <1>3 DEF RegistriesNext, RegisterLoop, RegisterCoordination, RegisterSelection, RegisterModel, RegisterCognitive
<1>4. CASE OutcomesNext \/ GenerationNext \/ TickNext
  BY <1>1, <1>4 DEF OutcomesNext, GenerationNext, TickNext, Gather, Succeed, Consider
<1>5. CASE UNCHANGED fitnessVars
  BY <1>1, <1>5 DEF fitnessVars
<1> QED BY <1>3, <1>4, <1>5

\* What another outcome adds to the evidence of some kinds.
LEMMA EvidenceGrows ==
  ASSUME NEW os \in Seq(Outcomes), NEW o \in Outcomes, NEW kinds
  PROVE  LET os2 == Append(os, o) IN
         /\ os2 \in Seq(Outcomes) /\ Last(os2) = o
         /\ Valid(os2) <=> Valid(os) /\ o.sealed
         /\ Of(os, kinds) \subseteq Of(os2, kinds) /\ IsFiniteSet(Of(os2, kinds)) /\ IsFiniteSet(Of(os, kinds))
         /\ \A i \in Of(os, kinds) : os2[i] = os[i]
         /\ ~(Counts(o) /\ o.kind \in kinds) =>
              Of(os2, kinds) = Of(os, kinds) /\ Times(os2, Of(os2, kinds)) = Times(os, Of(os, kinds))
<1>1. PICK n \in Nat : n = Len(os)
  BY LenProperties
<1>2. PICK os2 : os2 = Append(os, o)
  OBVIOUS
<1>3. /\ os2 \in Seq(Outcomes) /\ Len(os2) = n + 1 /\ DOMAIN os = 1..n /\ DOMAIN os2 = 1..(n + 1)
      /\ os2[n + 1] = o /\ \A k \in 1..n : os2[k] = os[k]
  BY <1>1, <1>2, AppendProperties, LenProperties
<1>4. 1..(n + 1) = 1..n \cup {n + 1} /\ n + 1 \notin 1..n
  OBVIOUS
<1>5. Last(os2) = o
  BY <1>3 DEF Last
<1>6. Valid(os2) <=> Valid(os) /\ o.sealed
  BY <1>3, <1>4 DEF Valid
<1>7. \A i : i \in Of(os2, kinds) <=> i \in Of(os, kinds) \/ (i = n + 1 /\ Counts(o) /\ o.kind \in kinds)
  BY <1>3, <1>4 DEF Of
<1>8. Of(os, kinds) \in SUBSET (1..n) /\ Of(os2, kinds) \in SUBSET (1..(n + 1))
  BY <1>3 DEF Of
<1>9. IsFiniteSet(Of(os, kinds)) /\ IsFiniteSet(Of(os2, kinds))
  <2>1. IsFiniteSet(1..n) /\ IsFiniteSet(1..(n + 1))
    BY FS_Interval
  <2> QED BY <1>8, <2>1, FS_Subset
<1>10. \A i \in Of(os, kinds) : os2[i] = os[i]
  BY <1>3, <1>8
<1>11. ASSUME ~(Counts(o) /\ o.kind \in kinds)
       PROVE  Of(os2, kinds) = Of(os, kinds) /\ Times(os2, Of(os2, kinds)) = Times(os, Of(os, kinds))
  <2>1. Of(os2, kinds) = Of(os, kinds)
    BY <1>7, <1>11
  <2>2. {os2[i].at : i \in Of(os, kinds)} = {os[i].at : i \in Of(os, kinds)}
    BY <1>10
  <2> QED BY <2>1, <2>2 DEF Times
<1>12. Of(os, kinds) \subseteq Of(os2, kinds)
  BY <1>7
<1> QED BY <1>2, <1>3, <1>5, <1>6, <1>9, <1>10, <1>11, <1>12

\* The ceilings are numbers, and more evidence of oneself only lowers them.
LEMMA CeilingFalls ==
  ASSUME NEW os \in Seq(Outcomes), NEW o \in Outcomes, o.kind \in {"self", "profile", "exception", "external"}
  PROVE  Ceiling(Append(os, o)) <= Ceiling(os)
<1>1. PICK os2 : os2 = Append(os, o)
  OBVIOUS
<1>2. os2 \in Seq(Outcomes)
  BY <1>1, EvidenceGrows
<1>3. N(os2, {"pass", "failure"}) = N(os, {"pass", "failure"}) /\ N(os2, {"pass"}) = N(os, {"pass"})
  <2>1. o.kind \notin {"pass", "failure"} /\ o.kind \notin {"pass"}
    OBVIOUS
  <2> QED BY <1>1, <2>1, EvidenceGrows DEF N
<1>4. ResultCeiling(os2) = ResultCeiling(os)
  BY <1>3 DEF ResultCeiling
<1>5. ResultCeiling(os) \in Nat
  <2>1. PICK m, n \in Nat : n = N(os, {"pass", "failure"}) /\ m = N(os, {"pass"})
    BY EvidenceGrows, FS_CardinalityType DEF N
  <2>2. ResultCeiling(os) = IF n = 0 THEN 0 ELSE (100 * m) \div n
    BY <2>1 DEF ResultCeiling
  <2>3. n # 0 => (100 * m) \div n \in Nat
    OBVIOUS
  <2> QED BY <2>2, <2>3
<1>6. ASSUME NEW e \in Seq(Outcomes)
      PROVE  /\ SelfCeiling(e) \in {100} \cup {e[i].confidence : i \in Of(e, {"self"})} /\ SelfCeiling(e) \in Nat
             /\ SelfCeiling(e) <= 100 /\ \A i \in Of(e, {"self"}) : SelfCeiling(e) <= e[i].confidence
  <2>1. PICK C : C = {100} \cup {e[i].confidence : i \in Of(e, {"self"})}
    OBVIOUS
  <2>2. \A i \in Of(e, {"self"}) : e[i] \in Outcomes
    BY DEF Of
  <2>3. \A x \in Outcomes : x.confidence \in Nat
    BY DEF Outcomes, Outcome
  <2>4. C \subseteq Nat /\ 100 \in C
    BY <2>1, <2>2, <2>3
  <2>5. PICK m \in C : \A c \in C : m <= c
    BY <2>4, LeastOf
  <2>6. Min(C) \in C /\ \A c \in C : Min(C) <= c
    BY <2>5 DEF Min
  <2>7. SelfCeiling(e) = Min(C)
    BY <2>1 DEF SelfCeiling
  <2>8. SelfCeiling(e) \in Nat /\ SelfCeiling(e) <= 100
    BY <2>4, <2>6, <2>7
  <2>9. ASSUME NEW i \in Of(e, {"self"}) PROVE SelfCeiling(e) <= e[i].confidence
    <3>1. e[i].confidence \in C
      BY <2>1
    <3> QED BY <2>6, <2>7, <3>1
  <2>10. SelfCeiling(e) \in {100} \cup {e[i].confidence : i \in Of(e, {"self"})}
    BY <2>1, <2>6, <2>7
  <2> QED BY <2>8, <2>9, <2>10
<1>7. SelfCeiling(os2) <= SelfCeiling(os)
  <2>1. \A i \in Of(os, {"self"}) : i \in Of(os2, {"self"}) /\ os2[i] = os[i]
    BY <1>1, EvidenceGrows
  <2>2. SelfCeiling(os) = 100 \/ \E i \in Of(os, {"self"}) : SelfCeiling(os) = os[i].confidence
    BY <1>6
  <2>3. SelfCeiling(os2) <= 100 /\ \A i \in Of(os2, {"self"}) : SelfCeiling(os2) <= os2[i].confidence
    BY <1>2, <1>6
  <2> QED BY <2>1, <2>2, <2>3
<1>8. PICK a, b, c \in Nat : a = ResultCeiling(os) /\ b = SelfCeiling(os) /\ c = SelfCeiling(os2) /\ c <= b
  BY <1>2, <1>5, <1>6, <1>7
<1>9. Min({a, b}) = (IF a <= b THEN a ELSE b) /\ Min({a, c}) = (IF a <= c THEN a ELSE c)
  BY MinOfTwo
<1>10. Ceiling(os) = Min({a, b}) /\ Ceiling(os2) = Min({a, c})
  BY <1>4, <1>8 DEF Ceiling
<1>11. Min({a, c}) <= Min({a, b})
  BY <1>8, <1>9
<1> QED BY <1>1, <1>10, <1>11

\* What is gathered decides nothing but by results, and trust that was lost stays lost.
LEMMA GatheredCounts ==
  ASSUME outcomes \in Seq(Outcomes), [RegistriesNext \/ OutcomesNext \/ GenerationNext \/ TickNext]_fitnessVars
  PROVE  outcomes' \in Seq(Outcomes) /\ OnlyResultsPromote /\ LostTrustStays
<1>1. CASE UNCHANGED outcomes
  BY <1>1 DEF OnlyResultsPromote, LostTrustStays
<1>2. ASSUME NEW o \in Outcomes, Gather(o)
      PROVE  outcomes' \in Seq(Outcomes) /\ OnlyResultsPromote /\ LostTrustStays
  <2>0. PICK os2 : os2 = Append(outcomes, o)
    OBVIOUS
  <2>1. PICK os \in Seq(Outcomes) : os = outcomes /\ os2 = Append(os, o) /\ outcomes' = os2
    BY <1>2, <2>0 DEF Gather
  <2>2. os2 \in Seq(Outcomes) /\ Last(os2) = o /\ (Valid(os2) <=> Valid(os) /\ o.sealed)
    BY <2>1, EvidenceGrows
  <2>3. ASSUME NEW kinds, ~(Counts(o) /\ o.kind \in kinds)
        PROVE  /\ Of(os2, kinds) = Of(os, kinds) /\ N(os2, kinds) = N(os, kinds)
               /\ Times(os2, Of(os2, kinds)) = Times(os, Of(os, kinds))
    BY <2>1, <2>3, EvidenceGrows DEF N
  <2>4. ASSUME NEW kinds PROVE N(os, kinds) \in Nat /\ N(os2, kinds) \in Nat /\ N(os, kinds) <= N(os2, kinds)
    <3>1. /\ Of(os, kinds) \in SUBSET Of(os2, kinds)
          /\ IsFiniteSet(Of(os, kinds)) /\ IsFiniteSet(Of(os2, kinds))
      BY <2>1, EvidenceGrows
    <3> QED BY <3>1, FS_Subset, FS_CardinalityType DEF N
  <2>5. ASSUME o.kind \in {"self", "profile", "exception", "external"}
        PROVE  /\ AssessSelf(os2) = AssessSelf(os) /\ AssessTrust(os2) = AssessTrust(os)
               /\ AssessPartnership(os2) = AssessPartnership(os) /\ Ceiling(os2) <= Ceiling(os)
    <3>1. o.sealed
      BY <2>5 DEF Outcomes, Outcome, Kinds
    <3>2. Valid(os2) <=> Valid(os)
      BY <2>2, <3>1
    <3>3. \A kinds \in {{"pass", "failure"}, {"failure"}, {"pass"}, {"failure", "revocation"}, {"pass", "correction"}, {"correction"}} :
             /\ Of(os2, kinds) = Of(os, kinds) /\ N(os2, kinds) = N(os, kinds)
             /\ Times(os2, Of(os2, kinds)) = Times(os, Of(os, kinds))
      BY <2>3, <2>5
    <3>4. AssessSelf(os2) = AssessSelf(os)
      BY <3>2, <3>3 DEF AssessSelf
    <3>5. AssessTrust(os2) = AssessTrust(os)
      BY <3>2, <3>3 DEF AssessTrust
    <3>6. AssessPartnership(os2) = AssessPartnership(os)
      BY <3>2, <3>3 DEF AssessPartnership
    <3> QED BY <2>1, <2>5, <3>4, <3>5, <3>6, CeilingFalls
  <2>6. AssessTrust(os) = "downgrade" => AssessTrust(os2) # "owner review"
    BY <2>4 DEF AssessTrust
  <2>7. ASSUME o.kind \in {"failure", "revocation"}, ~OwnerMayReview(os) PROVE ~OwnerMayReview(os2)
    <3>1. N(os2, {"pass"}) = N(os, {"pass"})
      BY <2>3, <2>7
    <3> QED BY <2>2, <2>4, <2>7, <3>1 DEF OwnerMayReview, AssessTrust
  <2> QED BY <2>1, <2>2, <2>5, <2>6, <2>7 DEF OnlyResultsPromote, LostTrustStays
<1>3. CASE OutcomesNext
  BY <1>2, <1>3 DEF OutcomesNext
<1>4. CASE RegistriesNext \/ GenerationNext \/ TickNext
  BY <1>1, <1>4 DEF RegistriesNext, GenerationNext, TickNext, Succeed, Consider, RegisterLoop, RegisterCoordination,
     RegisterSelection, RegisterModel, RegisterCognitive, Register
<1>5. CASE UNCHANGED fitnessVars
  BY <1>1, <1>5 DEF fitnessVars
<1> QED BY <1>3, <1>4, <1>5

\* Scores and positions are numbers, positions are counted from one, each is of one resource and none is
\* beyond the last.
Placing ==
  /\ \A r \in Resources : Score(r) \in Int /\ TieBreak(r) \in Int /\ r \in Int
  /\ Eligible \subseteq Resources /\ IsFiniteSet(Eligible)
  /\ \A r \in Eligible : Position(r) \in Nat /\ Position(r) <= Cardinality(Resources)
  /\ \A r, s \in Eligible : Position(r) = Position(s) => r = s
  /\ Cardinality(Resources) \in Nat /\ policy.limit \in Nat
  /\ \E size \in Nat : \E f \in [1..size -> Eligible] :
       /\ size = (IF Cardinality(Eligible) <= policy.limit THEN Cardinality(Eligible) ELSE policy.limit)
       /\ Ranked = f /\ \A i \in 1..size : Position(f[i]) = i

\* What is weighed is placed so.
LEMMA PlacingNow == SelectionInv => Placing
<1> SUFFICES ASSUME SelectionInv PROVE Placing
  OBVIOUS
<1>1. IsFiniteSet(Resources) /\ Cardinality(Resources) \in Nat
  BY SelectionAssumption, FS_CardinalityType DEF SelectionAssumption
<1>2. /\ Eligible \subseteq Resources /\ IsFiniteSet(Eligible) /\ Orders(AheadOrder, Eligible)
      /\ \A r \in Eligible : Position(r) = 1 + Cardinality(AheadIn(AheadOrder, Eligible, r))
  BY EligibleInOrder
<1>3. Cardinality(Eligible) <= Cardinality(Resources) /\ Cardinality(Eligible) \in Nat
  <2>1. Eligible \in SUBSET Resources
    BY <1>2
  <2> QED BY <1>1, <1>2, <2>1, FS_Subset, FS_CardinalityType
<1>4. \A r \in Eligible : /\ Cardinality(AheadIn(AheadOrder, Eligible, r)) \in Nat
                          /\ Cardinality(AheadIn(AheadOrder, Eligible, r)) < Cardinality(Eligible)
  BY <1>2, RanksAscend
<1>5. \A r \in Eligible : Position(r) \in Nat /\ Position(r) <= Cardinality(Resources)
  BY <1>1, <1>2, <1>3, <1>4
<1>6. ASSUME NEW r \in Eligible, NEW s \in Eligible, Position(r) = Position(s) PROVE r = s
  <2>1. r # s <=> Cardinality(AheadIn(AheadOrder, Eligible, r)) # Cardinality(AheadIn(AheadOrder, Eligible, s))
    BY <1>2, RanksAscend
  <2>2. PICK a, b \in Nat : /\ a = Cardinality(AheadIn(AheadOrder, Eligible, r))
                            /\ b = Cardinality(AheadIn(AheadOrder, Eligible, s))
    BY <1>4
  <2>3. 1 + a = 1 + b
    BY <1>2, <1>6, <2>2
  <2> QED BY <2>1, <2>2, <2>3
<1>7. policy.limit \in Nat
  BY SelectionAssumption DEF SelectionInv, SelectionAssumption
<1>8. PICK size \in Nat :
         /\ size = (IF Cardinality(Eligible) <= policy.limit THEN Cardinality(Eligible) ELSE policy.limit)
         /\ DOMAIN Ranked = 1..size
         /\ \A i \in 1..size : Ranked[i] \in Eligible /\ Position(Ranked[i]) = i
  BY RankedByPosition
<1>9. Ranked = [i \in 1..size |-> Ranked[i]]
  <2>1. PICK m : m = Min({Cardinality(Eligible), policy.limit})
    OBVIOUS
  <2>2. Ranked = [i \in 1..m |-> CHOOSE r \in Eligible : Position(r) = i]
    BY <2>1 DEF Ranked
  <2> HIDE DEF Ranked
  <2> QED BY <1>8, <2>2
<1>10. \A r \in Resources : Score(r) \in Int /\ TieBreak(r) \in Int /\ r \in Int
  BY ScoresAreNumbers
<1>11. PICK f \in [1..size -> Eligible] : Ranked = f
  <2>1. [i \in 1..size |-> Ranked[i]] \in [1..size -> Eligible]
    BY <1>8
  <2> QED BY <1>9, <2>1
<1>12. \A i \in 1..size : Position(f[i]) = i
  BY <1>8, <1>11
<1> QED BY <1>1, <1>2, <1>5, <1>6, <1>7, <1>8, <1>10, <1>11, <1>12 DEF Placing

\* And after a step.
LEMMA PlacingThen == SelectionInv' => Placing'
BY PlacingNow, PTL

\* The evidence of one resource moves only that one, up or down.
Others(r) == \A s \in Resources : s # r =>
  Score(s)' = Score(s) /\ TieBreak(s)' = TieBreak(s) /\ (s \in Eligible' <=> s \in Eligible)
MovesUp(r) == (r \in Eligible => r \in Eligible') /\ Score(r)' >= Score(r) /\ TieBreak(r)' <= TieBreak(r)
MovesDown(r) == (r \in Eligible' => r \in Eligible) /\ Score(r)' <= Score(r) /\ TieBreak(r)' >= TieBreak(r)

\* Who moves up has nobody ahead of it that was not.
LEMMA UpIsUp ==
  ASSUME Placing, Placing', policy' = policy, NEW r \in Resources, Others(r), MovesUp(r)
  PROVE  Place(r)' <= Place(r)
<1>1. CASE r \in Eligible /\ Position(r) <= policy.limit
  <2>1. r \in Eligible'
    BY <1>1 DEF MovesUp
  <2>2. ASSUME NEW s \in Eligible', Ahead(s, r)' PROVE s \in Eligible /\ Ahead(s, r)
    <3>1. s \in Resources
      BY <2>2 DEF Placing
    <3>2. /\ Score(r) \in Int /\ TieBreak(r) \in Int /\ r \in Int
          /\ Score(r)' \in Int /\ TieBreak(r)' \in Int
          /\ Score(s) \in Int /\ TieBreak(s) \in Int /\ s \in Int
      BY <3>1 DEF Placing
    <3>3. s # r
      BY <2>2, <3>2 DEF Ahead
    <3>4. Score(s)' = Score(s) /\ TieBreak(s)' = TieBreak(s) /\ s \in Eligible
      BY <2>2, <3>1, <3>3 DEF Others
    <3>5. \/ Score(s) > Score(r)'
          \/ Score(s) = Score(r)' /\ TieBreak(s) < TieBreak(r)'
          \/ Score(s) = Score(r)' /\ TieBreak(s) = TieBreak(r)' /\ s < r
      BY <2>2, <3>4 DEF Ahead
    <3>6. Score(r)' >= Score(r) /\ TieBreak(r)' <= TieBreak(r)
      BY DEF MovesUp
    <3>7. Ahead(s, r)
      BY <3>2, <3>5, <3>6 DEF Ahead
    <3> QED BY <3>4, <3>7
  <2>3. Position(r)' <= Position(r)
    <3>1. PICK A : A = {s \in Eligible : Ahead(s, r)}
      OBVIOUS
    <3>2. PICK B : B = {s \in Eligible' : Ahead(s, r)'}
      OBVIOUS
    <3>3. B \in SUBSET A /\ A \in SUBSET Eligible
      BY <2>2, <3>1, <3>2
    <3>4. IsFiniteSet(A) /\ IsFiniteSet(B)
      <4>1. IsFiniteSet(Eligible)
        BY DEF Placing
      <4> QED BY <3>3, <4>1, FS_Subset
    <3>5. Position(r) = 1 + Cardinality(A) /\ Position(r)' = 1 + Cardinality(B)
      BY <3>1, <3>2 DEF Position
    <3>6. Cardinality(B) <= Cardinality(A) /\ Cardinality(A) \in Nat /\ Cardinality(B) \in Nat
      BY <3>3, <3>4, FS_Subset, FS_CardinalityType
    <3> QED BY <3>5, <3>6
  <2>4. Position(r) \in Nat /\ policy.limit \in Nat /\ Place(r) = Position(r)
    BY <1>1 DEF Placing, Place
  <2>5. Position(r)' \in Nat
    BY <2>1 DEF Placing
  <2>6. Place(r)' = Position(r)'
    <3>1. Position(r)' <= policy.limit
      BY <1>1, <2>3, <2>4, <2>5
    <3> QED BY <2>1, <3>1 DEF Place
  <2> QED BY <2>3, <2>4, <2>6
<1>2. CASE ~(r \in Eligible /\ Position(r) <= policy.limit)
  <2>1. Place(r) = 1 + Cardinality(Resources) /\ Cardinality(Resources) \in Nat
    BY <1>2 DEF Place, Placing
  <2>2. CASE r \in Eligible' /\ Position(r)' <= policy.limit
    <3>1. Place(r)' = Position(r)' /\ Position(r)' \in Nat /\ Position(r)' <= Cardinality(Resources)
      BY <2>2 DEF Place, Placing
    <3> QED BY <2>1, <3>1
  <2>3. CASE ~(r \in Eligible' /\ Position(r)' <= policy.limit)
    <3>1. Place(r)' = 1 + Cardinality(Resources)
      BY <2>3 DEF Place
    <3> QED BY <2>1, <3>1
  <2> QED BY <2>2, <2>3
<1> QED BY <1>1, <1>2

\* Who moves down keeps ahead of it whoever was.
LEMMA DownIsDown ==
  ASSUME Placing, Placing', policy' = policy, NEW r \in Resources, Others(r), MovesDown(r)
  PROVE  Place(r)' >= Place(r)
<1>1. CASE r \in Eligible' /\ Position(r)' <= policy.limit
  <2>1. r \in Eligible
    BY <1>1 DEF MovesDown
  <2>2. ASSUME NEW s \in Eligible, Ahead(s, r) PROVE s \in Eligible' /\ Ahead(s, r)'
    <3>1. s \in Resources
      BY <2>2 DEF Placing
    <3>2. /\ Score(r) \in Int /\ TieBreak(r) \in Int /\ r \in Int
          /\ Score(r)' \in Int /\ TieBreak(r)' \in Int
          /\ Score(s) \in Int /\ TieBreak(s) \in Int /\ s \in Int
      BY <3>1 DEF Placing
    <3>3. s # r
      BY <2>2, <3>2 DEF Ahead
    <3>4. Score(s)' = Score(s) /\ TieBreak(s)' = TieBreak(s) /\ s \in Eligible'
      BY <2>2, <3>1, <3>3 DEF Others
    <3>5. \/ Score(s) > Score(r)
          \/ Score(s) = Score(r) /\ TieBreak(s) < TieBreak(r)
          \/ Score(s) = Score(r) /\ TieBreak(s) = TieBreak(r) /\ s < r
      BY <2>2 DEF Ahead
    <3>6. Score(r)' <= Score(r) /\ TieBreak(r)' >= TieBreak(r)
      BY DEF MovesDown
    <3>7. \/ Score(s) > Score(r)'
          \/ Score(s) = Score(r)' /\ TieBreak(s) < TieBreak(r)'
          \/ Score(s) = Score(r)' /\ TieBreak(s) = TieBreak(r)' /\ s < r
      BY <3>2, <3>5, <3>6
    <3>8. Ahead(s, r)'
      BY <3>4, <3>7 DEF Ahead
    <3> QED BY <3>4, <3>8
  <2>3. Position(r) <= Position(r)'
    <3>1. PICK A : A = {s \in Eligible : Ahead(s, r)}
      OBVIOUS
    <3>2. PICK B : B = {s \in Eligible' : Ahead(s, r)'}
      OBVIOUS
    <3>3. A \in SUBSET B /\ B \in SUBSET Eligible'
      BY <2>2, <3>1, <3>2
    <3>4. IsFiniteSet(A) /\ IsFiniteSet(B)
      <4>1. IsFiniteSet(Eligible')
        BY DEF Placing
      <4> QED BY <3>3, <4>1, FS_Subset
    <3>5. Position(r) = 1 + Cardinality(A) /\ Position(r)' = 1 + Cardinality(B)
      BY <3>1, <3>2 DEF Position
    <3>6. Cardinality(A) <= Cardinality(B) /\ Cardinality(A) \in Nat /\ Cardinality(B) \in Nat
      BY <3>3, <3>4, FS_Subset, FS_CardinalityType
    <3> QED BY <3>5, <3>6
  <2>4. Position(r)' \in Nat /\ policy.limit \in Nat /\ Place(r)' = Position(r)'
    BY <1>1 DEF Placing, Place
  <2>5. Position(r) \in Nat
    BY <2>1 DEF Placing
  <2>6. Place(r) = Position(r)
    <3>1. Position(r) <= policy.limit
      BY <1>1, <2>3, <2>4, <2>5
    <3> QED BY <2>1, <3>1 DEF Place
  <2> QED BY <2>3, <2>4, <2>5, <2>6
<1>2. CASE ~(r \in Eligible' /\ Position(r)' <= policy.limit)
  <2>1. Place(r)' = 1 + Cardinality(Resources) /\ Cardinality(Resources) \in Nat
    BY <1>2 DEF Place, Placing
  <2>2. CASE r \in Eligible /\ Position(r) <= policy.limit
    <3>1. Place(r) = Position(r) /\ Position(r) \in Nat /\ Position(r) <= Cardinality(Resources)
      BY <2>2 DEF Place, Placing
    <3> QED BY <2>1, <3>1
  <2>3. CASE ~(r \in Eligible /\ Position(r) <= policy.limit)
    <3>1. Place(r) = 1 + Cardinality(Resources)
      BY <2>3 DEF Place
    <3> QED BY <2>1, <3>1
  <2> QED BY <2>2, <2>3
<1> QED BY <1>1, <1>2

\* Where nothing that is weighed changes the ranking does not.
LEMMA SameRanking ==
  ASSUME Placing, Placing', policy' = policy,
         \A s \in Resources : Score(s)' = Score(s) /\ TieBreak(s)' = TieBreak(s) /\ (s \in Eligible' <=> s \in Eligible)
  PROVE  Ranked' = Ranked
<1>1. Eligible' = Eligible
  BY DEF Placing
<1>2. ASSUME NEW s \in Eligible, NEW r \in Eligible PROVE Ahead(s, r)' <=> Ahead(s, r)
  <2>1. s \in Resources /\ r \in Resources
    BY DEF Placing
  <2> QED BY <2>1 DEF Ahead
<1>3. ASSUME NEW r \in Eligible PROVE Position(r)' = Position(r)
  <2>1. {s \in Eligible' : Ahead(s, r)'} = {s \in Eligible : Ahead(s, r)}
    BY <1>1, <1>2
  <2> QED BY <2>1 DEF Position
<1>4. PICK size \in Nat : \E h \in [1..size -> Eligible] :
         /\ size = (IF Cardinality(Eligible) <= policy.limit THEN Cardinality(Eligible) ELSE policy.limit)
         /\ Ranked = h /\ \A i \in 1..size : Position(h[i]) = i
  BY DEF Placing
<1>5. PICK size2 \in Nat : \E h \in [1..size2 -> Eligible'] :
         /\ size2 = (IF Cardinality(Eligible') <= policy'.limit THEN Cardinality(Eligible') ELSE policy'.limit)
         /\ Ranked' = h /\ \A i \in 1..size2 : Position(h[i])' = i
  BY DEF Placing
<1>4a. PICK f \in [1..size -> Eligible] :
         /\ size = (IF Cardinality(Eligible) <= policy.limit THEN Cardinality(Eligible) ELSE policy.limit)
         /\ Ranked = f /\ \A i \in 1..size : Position(f[i]) = i
  BY <1>4
<1>5a. PICK g \in [1..size2 -> Eligible'] :
         /\ size2 = (IF Cardinality(Eligible') <= policy'.limit THEN Cardinality(Eligible') ELSE policy'.limit)
         /\ Ranked' = g /\ \A i \in 1..size2 : Position(g[i])' = i
  BY <1>5
<1>6. size2 = size
  BY <1>1, <1>4a, <1>5a
<1>7. ASSUME NEW i \in 1..size PROVE g[i] = f[i]
  <2>1. f[i] \in Eligible /\ g[i] \in Eligible
    BY <1>1, <1>4a, <1>5a, <1>6
  <2>2. Position(f[i]) = i /\ Position(g[i])' = i
    BY <1>4a, <1>5a, <1>6
  <2>3. Position(f[i]) = Position(g[i])
    BY <1>3, <2>1, <2>2
  <2> QED BY <2>1, <2>3 DEF Placing
<1> QED BY <1>1, <1>4a, <1>5a, <1>6, <1>7

\* A multiple of one more is more by one.
LEMMA OneMore == ASSUME NEW w \in Nat, NEW n \in Nat PROVE w * (n + 1) = w * n + w /\ w * n \in Nat
OBVIOUS

\* What evidence of each kind does to the score of the resource it is about.
LEMMA ScoreMoves ==
  ASSUME SelectionInv, SelectionInv', NEW x \in Resources, NEW kind \in EvidenceKinds, RecordOutcome(x, kind)
  PROVE  /\ \A k \in EvidenceKinds : ledger'[x][k] = ledger[x][k] + (IF k = kind THEN 1 ELSE 0)
         /\ \A s \in Resources : s # x => ledger'[s] = ledger[s]
         /\ Score(x)' = Score(x) + (IF kind = "success" THEN policy.success + policy.reliability
                                    ELSE IF kind = "failure" THEN policy.reliability - policy.penalty
                                    ELSE IF kind = "failure_record" THEN 0 - policy.penalty ELSE 0)
         /\ Successes(x)' = Successes(x) + (IF kind = "success" THEN 1 ELSE 0)
<1>1. ledger' = [ledger EXCEPT ![x][kind] = @ + 1] /\ policy' = policy
  BY DEF RecordOutcome
<1>2. ledger \in [Resources -> [EvidenceKinds -> Nat]]
  BY DEF SelectionInv
<1>3. PICK m : m = [ledger[x] EXCEPT ![kind] = @ + 1]
  OBVIOUS
<1>4. ledger' = [ledger EXCEPT ![x] = m]
  BY <1>1, <1>3
<1>5. ledger'[x] = m /\ \A s \in Resources : s # x => ledger'[s] = ledger[s]
  BY <1>2, <1>4
<1>6. ledger[x] \in [EvidenceKinds -> Nat]
  BY <1>2
<1>7. \A k \in EvidenceKinds : ledger[x][k] \in Nat /\ m[k] = (IF k = kind THEN ledger[x][k] + 1 ELSE ledger[x][k])
  BY <1>3, <1>6
<1>8. PICK a \in Nat : a = ledger[x]["success"]
  BY <1>7 DEF EvidenceKinds
<1>9. PICK b \in Nat : b = ledger[x]["failure"]
  BY <1>7 DEF EvidenceKinds
<1>10. PICK c \in Nat : c = ledger[x]["failure_record"]
  BY <1>7 DEF EvidenceKinds
<1>11. /\ policy.success \in Nat /\ policy.penalty \in Nat /\ policy.fit \in Nat
       /\ policy.reliability \in Nat /\ policy.cost \in Nat /\ CostOf[x] \in Nat
  BY SelectionAssumption DEF SelectionInv, SelectionAssumption
<1>12. PICK ws \in Nat : ws = policy.success
  BY <1>11
<1>13. PICK wp \in Nat : wp = policy.penalty
  BY <1>11
<1>14. PICK wr \in Nat : wr = policy.reliability
  BY <1>11
<1>15. PICK fixed \in Int : fixed = policy.fit
  BY <1>11
<1>16. PICK paid \in Int : paid = policy.cost * CostOf[x]
  BY <1>11
<1>17. Score(x) = ws * a - wp * (b + c) + fixed + wr * (a + b) - paid
  BY <1>8, <1>9, <1>10, <1>12, <1>13, <1>14, <1>15, <1>16 DEF Score, Successes, Failures, Verified
<1>18. \A k \in EvidenceKinds : ledger'[x][k] = ledger[x][k] + (IF k = kind THEN 1 ELSE 0)
  BY <1>5, <1>7
<1>19. PICK d \in Nat : d = (IF kind = "success" THEN a + 1 ELSE a)
  OBVIOUS
<1>20. PICK e \in Nat : e = (IF kind = "failure" THEN b + 1 ELSE b)
  OBVIOUS
<1>21. PICK f \in Nat : f = (IF kind = "failure_record" THEN c + 1 ELSE c)
  OBVIOUS
<1>22. ledger'[x]["success"] = d /\ ledger'[x]["failure"] = e /\ ledger'[x]["failure_record"] = f
  BY <1>5, <1>7, <1>8, <1>9, <1>10, <1>19, <1>20, <1>21 DEF EvidenceKinds
<1>23. Score(x)' = ws * d - wp * (e + f) + fixed + wr * (d + e) - paid
  BY <1>1, <1>12, <1>13, <1>14, <1>15, <1>16, <1>22 DEF Score, Successes, Failures, Verified
<1>24. Successes(x)' = Successes(x) + (IF kind = "success" THEN 1 ELSE 0)
  BY <1>8, <1>19, <1>22 DEF Successes
<1>25. ws * (a + 1) = ws * a + ws /\ ws * a \in Nat
  BY OneMore
<1>26. wp * ((b + c) + 1) = wp * (b + c) + wp /\ wp * (b + c) \in Nat
  BY OneMore
<1>27. wr * ((a + b) + 1) = wr * (a + b) + wr /\ wr * (a + b) \in Nat
  BY OneMore
<1>28a. PICK p \in Nat : p = ws * a
  BY <1>25
<1>28b. PICK q \in Nat : q = wp * (b + c)
  BY <1>26
<1>28c. PICK z \in Nat : z = wr * (a + b)
  BY <1>27
<1>28. p = ws * a /\ q = wp * (b + c) /\ z = wr * (a + b)
  BY <1>28a, <1>28b, <1>28c
<1>29. Score(x) = p - q + fixed + z - paid
  BY <1>17, <1>28
<1>30. CASE kind = "success"
  <2>1. d = a + 1 /\ e = b /\ f = c /\ d + e = (a + b) + 1
    BY <1>19, <1>20, <1>21, <1>30
  <2>2. ws * d = p + ws /\ wp * (e + f) = q /\ wr * (d + e) = z + wr
    BY <2>1, <1>25, <1>27, <1>28
  <2>3. Score(x)' = (p + ws) - q + fixed + (z + wr) - paid
    BY <1>23, <2>2
  <2>4. Score(x)' = Score(x) + (ws + wr)
    BY <1>29, <2>3
  <2> QED BY <1>5, <1>12, <1>14, <1>18, <1>24, <1>30, <2>4
<1>31. CASE kind = "failure"
  <2>1. d = a /\ e = b + 1 /\ f = c /\ d + e = (a + b) + 1 /\ e + f = (b + c) + 1
    BY <1>19, <1>20, <1>21, <1>31
  <2>2. ws * d = p /\ wp * (e + f) = q + wp /\ wr * (d + e) = z + wr
    BY <2>1, <1>26, <1>27, <1>28
  <2>3. Score(x)' = p - (q + wp) + fixed + (z + wr) - paid
    BY <1>23, <2>2
  <2>4. Score(x)' = Score(x) + (wr - wp)
    BY <1>29, <2>3
  <2> QED BY <1>5, <1>13, <1>14, <1>18, <1>24, <1>31, <2>4
<1>32. CASE kind = "failure_record"
  <2>1. d = a /\ e = b /\ f = c + 1 /\ d + e = a + b /\ e + f = (b + c) + 1
    BY <1>19, <1>20, <1>21, <1>32
  <2>2. ws * d = p /\ wp * (e + f) = q + wp /\ wr * (d + e) = z
    BY <2>1, <1>26, <1>28
  <2>3. Score(x)' = p - (q + wp) + fixed + z - paid
    BY <1>23, <2>2
  <2>4. Score(x)' = Score(x) + (0 - wp)
    BY <1>29, <2>3
  <2> QED BY <1>5, <1>13, <1>18, <1>24, <1>32, <2>4
<1>33. CASE kind = "unverified"
  <2>1. d = a /\ e = b /\ f = c
    BY <1>19, <1>20, <1>21, <1>33
  <2>2. Score(x)' = p - q + fixed + z - paid
    BY <1>23, <1>28, <2>1
  <2>3. Score(x)' = Score(x) + 0
    BY <1>29, <2>2
  <2> QED BY <1>5, <1>18, <1>24, <1>33, <2>3
<1> QED BY <1>30, <1>31, <1>32, <1>33 DEF EvidenceKinds

\* One outcome moves the resource it is about in its own sense, and no other.
LEMMA OutcomeMoves ==
  ASSUME SelectionInv, SelectionInv', NEW x \in Resources, NEW kind \in EvidenceKinds, RecordOutcome(x, kind)
  PROVE  /\ kind = "success" => Place(x)' <= Place(x)
         /\ kind = "unverified" => Ranked' = Ranked
         /\ (kind = "failure_record" \/ (kind = "failure" /\ policy.reliability <= policy.penalty))
              => Place(x)' >= Place(x)
         /\ \A r \in Resources, k \in EvidenceKinds : ledger'[r][k] > ledger[r][k] => r = x /\ k = kind
<1>0. Placing /\ Placing'
  BY PlacingNow, PlacingThen
<1>1. policy' = policy /\ allowed' = allowed
  BY DEF RecordOutcome
<1>2. /\ \A k \in EvidenceKinds : ledger'[x][k] = ledger[x][k] + (IF k = kind THEN 1 ELSE 0)
      /\ \A s \in Resources : s # x => ledger'[s] = ledger[s]
      /\ Score(x)' = Score(x) + (IF kind = "success" THEN policy.success + policy.reliability
                                 ELSE IF kind = "failure" THEN policy.reliability - policy.penalty
                                 ELSE IF kind = "failure_record" THEN 0 - policy.penalty ELSE 0)
      /\ Successes(x)' = Successes(x) + (IF kind = "success" THEN 1 ELSE 0)
  BY ScoreMoves
<1>3. /\ policy.success \in Nat /\ policy.penalty \in Nat /\ policy.reliability \in Nat
      /\ Score(x) \in Int /\ Successes(x) \in Nat /\ CostOf[x] \in Nat
  BY ScoresAreNumbers, SelectionAssumption DEF SelectionInv, SelectionAssumption
<1>4. \A r \in Resources, k \in EvidenceKinds : ledger'[r][k] > ledger[r][k] => r = x /\ k = kind
  <2>1. \A r \in Resources, k \in EvidenceKinds : ledger[r][k] \in Nat
    BY DEF SelectionInv
  <2> QED BY <1>2, <2>1
<1>5. Others(x)
  <2> SUFFICES ASSUME NEW s \in Resources, s # x
               PROVE  Score(s)' = Score(s) /\ TieBreak(s)' = TieBreak(s) /\ (s \in Eligible' <=> s \in Eligible)
    BY DEF Others
  <2>1. ledger'[s] = ledger[s]
    BY <1>2
  <2>2. Score(s)' = Score(s)
    BY <1>1, <2>1 DEF Score, Successes, Failures, Verified
  <2>3. TieBreak(s)' = TieBreak(s)
    BY <1>1, <2>1 DEF TieBreak, Successes
  <2>4. s \in Eligible' <=> s \in Eligible
    BY <1>1, <2>1 DEF Eligible, Prefiltered, Successes
  <2> QED BY <2>2, <2>3, <2>4
<1>6. kind # "success" => TieBreak(x)' = TieBreak(x) /\ (x \in Eligible' <=> x \in Eligible)
  <2>1. ASSUME kind # "success" PROVE Successes(x)' = Successes(x)
    BY <1>2, <1>3, <2>1
  <2> QED BY <1>1, <2>1 DEF TieBreak, Eligible, Prefiltered
<1>7. ASSUME kind = "success" PROVE Place(x)' <= Place(x)
  <2>1. Score(x)' >= Score(x) /\ Successes(x)' = Successes(x) + 1
    BY <1>2, <1>3, <1>7
  <2>2. TieBreak(x)' <= TieBreak(x)
    BY <1>1, <1>3, <2>1 DEF TieBreak
  <2>3. x \in Eligible => x \in Eligible'
    BY <1>1, <1>3, <2>1 DEF Eligible, Prefiltered
  <2>4. Place(x)' <= Place(x)
    BY <1>0, <1>1, <1>5, <2>1, <2>2, <2>3, UpIsUp DEF MovesUp
  <2> QED BY <2>4
<1>8. ASSUME kind = "failure_record" \/ (kind = "failure" /\ policy.reliability <= policy.penalty)
      PROVE  Place(x)' >= Place(x)
  <2>1. Score(x)' <= Score(x)
    BY <1>2, <1>3, <1>8
  <2>2. TieBreak(x)' >= TieBreak(x) /\ (x \in Eligible' => x \in Eligible)
    <3>1. TieBreak(x) \in Int
      BY ScoresAreNumbers
    <3> QED BY <1>6, <1>8, <3>1
  <2> QED BY <1>0, <1>1, <1>5, <2>1, <2>2, DownIsDown DEF MovesDown
<1>9. ASSUME kind = "unverified" PROVE Ranked' = Ranked
  <2>1. Score(x)' = Score(x)
    BY <1>2, <1>3, <1>9
  <2>2. TieBreak(x)' = TieBreak(x) /\ (x \in Eligible' <=> x \in Eligible)
    BY <1>6, <1>9
  <2>3. \A s \in Resources : Score(s)' = Score(s) /\ TieBreak(s)' = TieBreak(s) /\ (s \in Eligible' <=> s \in Eligible)
    <3> SUFFICES ASSUME NEW s \in Resources
                 PROVE  Score(s)' = Score(s) /\ TieBreak(s)' = TieBreak(s) /\ (s \in Eligible' <=> s \in Eligible)
      OBVIOUS
    <3>1. CASE s = x
      BY <2>1, <2>2, <3>1 DEF Score, TieBreak, Eligible, Prefiltered, Successes, Failures, Verified
    <3>2. CASE s # x
      BY <1>5, <3>2 DEF Others
    <3> QED BY <3>1, <3>2
  <2> QED BY <1>0, <1>1, <2>3, SameRanking
<1> QED BY <1>4, <1>7, <1>8, <1>9

\* Evidence counts in its own sense.
LEMMA EvidenceMoves ==
  ASSUME SelectionInv, SelectionInv', [SelectionNext]_selectionVars
  PROVE  EvidenceCountsItsWay
<1>1. CASE UNCHANGED selectionVars
  <2>1. ledger' = ledger
    BY <1>1 DEF selectionVars
  <2>2. \A r \in Resources : \A k \in EvidenceKinds : ledger[r][k] \in Nat
    BY DEF SelectionInv
  <2>3. \A r \in Resources : \A k \in EvidenceKinds : ~(ledger'[r][k] > ledger[r][k])
    BY <2>1, <2>2
  <2> QED BY <2>3 DEF EvidenceCountsItsWay, EvidenceKinds
<1>2. ASSUME NEW x \in Resources, NEW kind \in EvidenceKinds, RecordOutcome(x, kind) PROVE EvidenceCountsItsWay
  <2> SUFFICES ASSUME NEW r \in Resources
               PROVE  /\ ledger'[r]["success"] > ledger[r]["success"] => Place(r)' <= Place(r)
                      /\ ledger'[r]["unverified"] > ledger[r]["unverified"] => Ranked' = Ranked
                      /\ ledger'[r]["failure_record"] > ledger[r]["failure_record"] => Place(r)' >= Place(r)
                      /\ (ledger'[r]["failure"] > ledger[r]["failure"] /\ policy.reliability <= policy.penalty)
                           => Place(r)' >= Place(r)
    BY DEF EvidenceCountsItsWay
  <2>1. ASSUME NEW k \in EvidenceKinds, ledger'[r][k] > ledger[r][k] PROVE RecordOutcome(r, k)
    <3>1. r = x /\ k = kind
      BY <1>2, <2>1, OutcomeMoves
    <3> QED BY <1>2, <3>1
  <2>2. \A k \in EvidenceKinds : ledger'[r][k] > ledger[r][k] =>
           /\ k = "success" => Place(r)' <= Place(r)
           /\ k = "unverified" => Ranked' = Ranked
           /\ (k = "failure_record" \/ (k = "failure" /\ policy.reliability <= policy.penalty)) => Place(r)' >= Place(r)
    BY <2>1, OutcomeMoves
  <2> QED BY <2>2 DEF EvidenceKinds
<1> QED BY <1>1, <1>2 DEF SelectionNext

\* Growth is earned, for any strategies, projects, evidence, policies and resources: no run is taken off its
\* strategy, no stopped project goes on, no version gets other content, no claim promotes, trust that was lost
\* is not won back by successes, and evidence moves a ranking in its own sense only (resolve_or_bind_run,
\* advance, register, the assess engines, rank_prefiltered).
THEOREM GrowthStaysEarned == GrowthSpec => GrowthIsEarned
<1> DEFINE Inv == EvolutionInv /\ ProjectInv /\ StoppedInv /\ SelectionInv /\ outcomes \in Seq(Outcomes)
<1>1. GrowthInit => Inv
  <2>1. LongHorizonInit => StoppedInv
    BY DEF LongHorizonInit, StoppedInv
  <2>2. FitnessInit => outcomes \in Seq(Outcomes)
    BY DEF FitnessInit
  <2> QED BY <2>1, <2>2, InitEvolution, InitProject, SelectionStart DEF GrowthInit
<1>2. [GrowthNext]_growthVars =>
         /\ [EvolutionNext]_evolutionVars /\ [LongHorizonNext]_longHorizonVars
         /\ [RegistriesNext \/ OutcomesNext \/ GenerationNext \/ TickNext]_fitnessVars
         /\ [SelectionNext]_selectionVars
  BY DEF GrowthNext, growthVars
<1>3. Inv /\ [GrowthNext]_growthVars => Inv'
  <2> SUFFICES ASSUME Inv, [GrowthNext]_growthVars PROVE Inv'
    OBVIOUS
  <2>1. EvolutionInv' /\ ProjectInv'
    BY <1>2, StepKeepsEvolution, StepKeepsProject
  <2>2. StoppedInv' /\ SelectionInv' /\ outcomes' \in Seq(Outcomes)
    BY <1>2, StoppedKept, SelectionKept, GatheredCounts
  <2> QED BY <2>1, <2>2
<1>4. Inv /\ Inv' /\ [GrowthNext]_growthVars =>
        [/\ StoppedProjectRests /\ ContentIsFixed /\ OnlyResultsPromote /\ LostTrustStays
         /\ EvidenceCountsItsWay]_growthVars
  BY <1>2, StoppedKept, ContentKept, GatheredCounts, EvidenceMoves
<1>5. GrowthSpec => [][RunsStayPinned]_growthVars
  BY RunsAreNeverRebound
<1> QED BY <1>1, <1>3, <1>4, <1>5, PTL DEF GrowthSpec, GrowthIsEarned
=============================================================================
