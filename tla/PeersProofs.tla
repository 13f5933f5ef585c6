----------------------------- MODULE PeersProofs -----------------------------
(***************************************************************************)
(* Proofs about the services of the authority to its peers, for any        *)
(* bounds, participants, workers, peers, messages and signals.             *)
(***************************************************************************)
EXTENDS Peers, FiniteSetTheorems, SequenceTheorems, WellFoundedInduction, TLAPS

\* A step of the authority is a step of one service, and the others rest.
LEMMA ServicesStep ==
  ASSUME [PeersNext]_peersVars
  PROVE  /\ [ReplicaNext]_replicaVars
         /\ [SyncNext]_syncVars
         /\ [CustodyNext]_custodyVars
         /\ [ChannelNext \/ MessageNext \/ RateNext]_gatewayVars
         /\ [FabricNext \/ DeviceNext]_communicationVars
BY DEF PeersNext, AtRest, peersVars

-----------------------------------------------------------------------------
(* Cross-device sync                                                       *)

SyncInv ==
  /\ SyncIsSound
  /\ target \in Seq(Nat \cup {Local}) /\ synced \subseteq [from : Nat, to : Nat]

\* The ids of a stream that was extended.
LEMMA IdsOfAppend ==
  ASSUME NEW s \in Seq(Nat \cup {Local}), NEW t \in Seq(Nat \cup {Local})
  PROVE  Ids(s \o t) = Ids(s) \cup Ids(t)
<1>1. \A i \in DOMAIN (s \o t) : (s \o t)[i] = IF i <= Len(s) THEN s[i] ELSE t[i - Len(s)]
  OBVIOUS
<1>2. DOMAIN s = 1..Len(s) /\ DOMAIN t = 1..Len(t) /\ DOMAIN (s \o t) = 1..(Len(s) + Len(t))
  OBVIOUS
<1>3. ASSUME NEW x \in Ids(s \o t) PROVE x \in Ids(s) \cup Ids(t)
  <2>1. PICK i \in DOMAIN (s \o t) : x = (s \o t)[i] /\ x # Local
    BY <1>3 DEF Ids
  <2>2. CASE i <= Len(s)
    BY <1>1, <1>2, <2>1, <2>2 DEF Ids
  <2>3. CASE ~(i <= Len(s))
    <3>1. i - Len(s) \in DOMAIN t /\ x = t[i - Len(s)]
      BY <1>1, <1>2, <2>1, <2>3
    <3> QED BY <2>1, <3>1 DEF Ids
  <2> QED BY <2>2, <2>3
<1>4. ASSUME NEW x \in Ids(s) PROVE x \in Ids(s \o t)
  <2>1. PICK i \in DOMAIN s : x = s[i] /\ x # Local
    BY <1>4 DEF Ids
  <2>2. i \in DOMAIN (s \o t) /\ (s \o t)[i] = x
    BY <1>1, <1>2, <2>1
  <2> QED BY <2>1, <2>2 DEF Ids
<1>5. ASSUME NEW x \in Ids(t) PROVE x \in Ids(s \o t)
  <2>1. PICK i \in DOMAIN t : x = t[i] /\ x # Local
    BY <1>5 DEF Ids
  <2>2. Len(s) + i \in DOMAIN (s \o t) /\ (s \o t)[Len(s) + i] = x
    BY <1>1, <1>2, <2>1
  <2> QED BY <2>1, <2>2 DEF Ids
<1> QED BY <1>3, <1>4, <1>5

\* apply_sync_batch keeps the order and the places of what it brings.
LEMMA ApplySyncStep ==
  ASSUME SyncInv, NEW b \in SyncBatches, ApplySync(b)
  PROVE  SyncInv'
<1> DEFINE piece == [i \in 1..b.to - b.from |-> b.from + i]
<1>1. /\ target \in Seq(Nat \cup {Local}) /\ synced \subseteq [from : Nat, to : Nat]
      /\ source \in Seq(BOOLEAN) /\ exported \in 0..Len(source) /\ appliedTo \in 0..Len(target)
      /\ Len(source) <= MaxSource /\ Ids(target) \subseteq DOMAIN source
      /\ \A c \in synced : c.from < c.to
      /\ MaxTarget \in Nat /\ Local \notin Nat
  BY SyncAssumption DEF SyncAssumption, SyncInv, SyncIsSound, SyncTypeOK
<1>2. /\ b.from \in Nat /\ b.to \in Nat /\ b.from < b.to /\ b.to <= Len(source)
      /\ b \in [from : Nat, to : Nat] /\ Len(target) = b.from
      /\ \A i \in b.from + 1 .. b.to : ~source[i]
  <2>1. b \in [from : 0 .. exported, to : 0 .. exported]
    BY DEF SyncBatches
  <2>2. b.from \in Nat /\ b.to \in Nat /\ b.to <= Len(source)
    BY <1>1, <2>1
  <2>3. b \in [from : Nat, to : Nat]
    BY <2>1, <2>2
  <2> QED BY <2>2, <2>3 DEF ApplySync, IntoWrite, AtExpected
<1>3. /\ target' = target \o piece /\ synced' = synced \cup {b} /\ appliedTo' = Larger(appliedTo, b.to)
      /\ UNCHANGED <<source, exported>> /\ Len(target) + b.to - b.from <= MaxTarget
  BY DEF ApplySync, RecordBatch
<1>4. piece \in Seq(Nat \cup {Local}) /\ Len(piece) = b.to - b.from /\ \A i \in 1..b.to - b.from : piece[i] = b.from + i
  <2>1. b.to - b.from \in Nat /\ \A i \in 1..b.to - b.from : b.from + i \in Nat \cup {Local}
    BY <1>2
  <2>2. piece \in Seq(Nat \cup {Local})
    BY <2>1
  <2>3. Len(piece) = b.to - b.from
    BY <2>1
  <2> QED BY <2>2, <2>3
<1>5. Ids(piece) = b.from + 1 .. b.to
  <2>1. ASSUME NEW i \in 1..b.to - b.from PROVE piece[i] \in b.from + 1 .. b.to /\ piece[i] # Local
    BY <1>1, <1>2, <1>4
  <2>2. ASSUME NEW x \in b.from + 1 .. b.to PROVE x - b.from \in 1..b.to - b.from /\ x = piece[x - b.from] /\ x # Local
    <3>1. x - b.from \in 1..b.to - b.from /\ x \in Nat /\ b.from + (x - b.from) = x
      BY <1>2
    <3> QED BY <1>1, <1>4, <3>1
  <2>3. DOMAIN piece = 1..b.to - b.from
    OBVIOUS
  <2> HIDE DEF piece
  <2>4. \A x \in Ids(piece) : x \in b.from + 1 .. b.to
    BY <2>1, <2>3 DEF Ids
  <2>5. \A x \in b.from + 1 .. b.to : x \in Ids(piece)
    BY <2>2, <2>3 DEF Ids
  <2> QED BY <2>4, <2>5 DEF Ids
<1> HIDE DEF piece
<1>6. target' \in Seq(Nat \cup {Local}) /\ Len(target') = b.to
  <2>1. target' = target \o piece /\ target \in Seq(Nat \cup {Local}) /\ piece \in Seq(Nat \cup {Local})
    BY <1>1, <1>3, <1>4
  <2>2. target \o piece \in Seq(Nat \cup {Local}) /\ Len(target \o piece) = Len(target) + Len(piece)
    BY <2>1, ConcatProperties
  <2> QED BY <1>2, <1>4, <2>1, <2>2
<1>7. Ids(target') = Ids(target) \cup (b.from + 1 .. b.to)
  BY <1>1, <1>3, <1>4, <1>5, IdsOfAppend
<1>8. b.from + 1 .. b.to \subseteq DOMAIN source
  BY <1>1, <1>2
<1>9. SyncTypeOK'
  <2>1. Len(target') <= MaxTarget
    BY <1>1, <1>2, <1>3, <1>6
  <2>2. appliedTo' \in 0..Len(target')
    BY <1>1, <1>2, <1>3, <1>6 DEF Larger
  <2>3. Ids(target')  \subseteq DOMAIN source
    BY <1>1, <1>7, <1>8
  <2>4. Ids(target)' = Ids(target')
    BY DEF Ids
  <2> QED BY <1>1, <1>2, <1>3, <2>1, <2>2, <2>3, <2>4 DEF SyncTypeOK
<1>10. SyncedInPlace'
  <2>1. ASSUME NEW i \in DOMAIN target', target'[i] # Local PROVE target'[i] = i
    <3>1. i \in 1..b.to
      BY <1>6
    <3>2. CASE i <= b.from
      <4>1. i \in DOMAIN target /\ target'[i] = target[i]
        BY <1>1, <1>2, <1>3, <1>4, <3>1, <3>2
      <4> QED BY <2>1, <4>1 DEF SyncInv, SyncIsSound, SyncedInPlace
    <3>3. CASE i > b.from
      <4>1. target'[i] = piece[i - b.from] /\ i - b.from \in 1..b.to - b.from
        BY <1>1, <1>2, <1>3, <1>4, <3>1, <3>3
      <4> QED BY <1>2, <1>4, <3>1, <4>1
    <3> QED BY <1>2, <3>1, <3>2, <3>3
  <2> QED BY <2>1 DEF SyncedInPlace
<1>11. SyncLedgerMatches'
  <2>1. ASSUME NEW x
        PROVE  x \in Ids(target') <=> \E c \in synced' : x \in c.from + 1 .. c.to
    <3>1. x \in Ids(target) <=> \E c \in synced : x \in c.from + 1 .. c.to
      BY DEF SyncInv, SyncIsSound, SyncLedgerMatches
    <3>2. x \in Ids(target') <=> x \in Ids(target) \/ x \in b.from + 1 .. b.to
      BY <1>7
    <3>3. synced' = synced \cup {b}
      BY <1>3
    <3> QED BY <3>1, <3>2, <3>3
  <2>2. Ids(target') = UNION {c.from + 1 .. c.to : c \in synced'}
    BY <2>1
  <2>3. Ids(target)' = Ids(target')
    BY DEF Ids
  <2> QED BY <2>2, <2>3 DEF SyncLedgerMatches
<1>12. WithheldStaysAtSource'
  <2>1. \A i \in Ids(target) : ~source[i]
    BY DEF SyncInv, SyncIsSound, WithheldStaysAtSource
  <2>2. Ids(target)' = Ids(target')
    BY DEF Ids
  <2> QED BY <1>2, <1>3, <1>7, <2>1, <2>2 DEF WithheldStaysAtSource
<1> QED BY <1>1, <1>2, <1>3, <1>6, <1>9, <1>10, <1>11, <1>12 DEF SyncInv, SyncIsSound

\* Every step of the two stores keeps the invariant.
LEMMA SyncStep ==
  ASSUME SyncInv, [SyncNext]_syncVars
  PROVE  SyncInv'
<1>1. /\ target \in Seq(Nat \cup {Local}) /\ synced \subseteq [from : Nat, to : Nat]
      /\ source \in Seq(BOOLEAN) /\ exported \in 0..Len(source) /\ appliedTo \in 0..Len(target)
      /\ Len(source) <= MaxSource /\ Len(target) <= MaxTarget /\ Ids(target) \subseteq DOMAIN source
      /\ MaxSource \in Nat /\ MaxTarget \in Nat /\ Local \notin Nat
      /\ \A c \in synced : c.from < c.to
  BY SyncAssumption DEF SyncAssumption, SyncInv, SyncIsSound, SyncTypeOK
<1>2. SyncedInPlace /\ SyncLedgerMatches /\ WithheldStaysAtSource
  BY DEF SyncInv, SyncIsSound
<1>3. ASSUME NEW sensitive \in BOOLEAN, SourceAppends(sensitive) PROVE SyncInv'
  <2>1. /\ source' = Append(source, sensitive) /\ UNCHANGED <<target, synced, exported, appliedTo>>
        /\ source' \in Seq(BOOLEAN) /\ Len(source') = Len(source) + 1 /\ Len(source') <= MaxSource
    BY <1>1, <1>3 DEF SourceAppends
  <2>2. \A i \in DOMAIN source : i \in DOMAIN source' /\ source'[i] = source[i]
    BY <1>1, <2>1
  <2>3. Ids(target)' = Ids(target)
    BY <2>1 DEF Ids
  <2>4. SyncTypeOK'
    BY <1>1, <2>1, <2>2, <2>3 DEF SyncTypeOK
  <2>5. WithheldStaysAtSource'
    BY <1>1, <1>2, <2>2, <2>3 DEF WithheldStaysAtSource
  <2>6. SyncedInPlace' /\ SyncLedgerMatches'
    BY <1>2, <2>1, <2>3 DEF SyncedInPlace, SyncLedgerMatches
  <2> QED BY <1>1, <2>1, <2>4, <2>5, <2>6 DEF SyncInv, SyncIsSound
<1>4. CASE TargetAppends
  <2>1. /\ target' = Append(target, Local) /\ UNCHANGED <<source, synced, exported, appliedTo>>
        /\ target' \in Seq(Nat \cup {Local}) /\ Len(target') = Len(target) + 1 /\ Len(target') <= MaxTarget
    BY <1>1, <1>4 DEF TargetAppends
  <2>2. /\ DOMAIN target' = DOMAIN target \cup {Len(target) + 1}
        /\ \A i \in DOMAIN target : target'[i] = target[i]
        /\ target'[Len(target) + 1] = Local
    BY <1>1, <2>1
  <2>3. Ids(target)' = Ids(target)
    BY <2>2 DEF Ids
  <2>4. SyncTypeOK'
    BY <1>1, <2>1, <2>3 DEF SyncTypeOK
  <2>5. SyncedInPlace'
    BY <1>2, <2>2 DEF SyncedInPlace
  <2>6. SyncLedgerMatches' /\ WithheldStaysAtSource'
    BY <1>2, <2>1, <2>3 DEF SyncLedgerMatches, WithheldStaysAtSource
  <2> QED BY <1>1, <2>1, <2>4, <2>5, <2>6 DEF SyncInv, SyncIsSound
<1>5. ASSUME NEW after \in 0..MaxSource, NEW limit \in 1..MaxSource, ExportSync(after, limit) PROVE SyncInv'
  <2>1. UNCHANGED <<source, target, synced, appliedTo>> /\ exported' \in 0..Len(source)
    BY <1>1, <1>5 DEF ExportSync, Larger
  <2>2. Ids(target)' = Ids(target)
    BY <2>1 DEF Ids
  <2>3. SyncTypeOK'
    BY <1>1, <2>1, <2>2 DEF SyncTypeOK
  <2> QED BY <1>1, <1>2, <2>1, <2>2, <2>3 DEF SyncInv, SyncIsSound, SyncedInPlace, SyncLedgerMatches, WithheldStaysAtSource
<1>6. CASE UNCHANGED syncVars
  BY <1>6 DEF SyncInv, SyncIsSound, SyncTypeOK, SyncedInPlace, SyncLedgerMatches, WithheldStaysAtSource, Ids, syncVars
<1>7. CASE \E b \in SyncBatches : ApplySyncAgain(b) \/ SyncConflicts(b)
  BY <1>6, <1>7 DEF ApplySyncAgain, SyncConflicts
<1> QED BY <1>3, <1>4, <1>5, <1>6, <1>7, ApplySyncStep DEF SyncNext

\* export_sync_batch, apply_sync_batch: whatever batches overlap, are lost,
\* repeated or late, and whatever both stores append themselves, an event that
\* was synced stands once, where it stood, and a withheld one nowhere.
THEOREM SyncStaysInPlace == PeersSpec => []SyncIsSound
<1>1. SyncInit => SyncInv
  <2> SUFFICES ASSUME SyncInit PROVE SyncInv
    OBVIOUS
  <2>1. source = <<>> /\ target = <<>> /\ synced = {} /\ exported = 0 /\ appliedTo = 0 /\ Ids(target) = {}
    BY DEF SyncInit, Ids
  <2>2. SyncTypeOK
    BY <2>1, SyncAssumption DEF SyncAssumption, SyncTypeOK
  <2> QED BY <2>1, <2>2 DEF SyncInv, SyncIsSound, SyncedInPlace, SyncLedgerMatches, WithheldStaysAtSource
<1>2. PeersInit => SyncInv
  BY <1>1 DEF PeersInit
<1>3. SyncInv /\ [PeersNext]_peersVars => SyncInv'
  BY ServicesStep, SyncStep
<1>4. SyncInv => SyncIsSound
  BY DEF SyncInv
<1> QED BY <1>2, <1>3, <1>4, PTL DEF PeersSpec

-----------------------------------------------------------------------------
(* The companion ledgers                                                   *)

\* plan_handoff: one planner has a new plan, and how far it is is what the
\* run's events say; a validated plan rests on the recorded artifact.
PlannersOK ==
  /\ ~handoff => /\ Positions("requested") = {} /\ Positions("resolved") = {}
                 /\ \A c \in Planners : planner[c] \notin {"recorded", "requested"}
  /\ \A c, d \in Planners :
       planner[c] \in {"recorded", "requested"} /\ planner[d] \in {"recorded", "requested"} => c = d
  /\ \A c \in Planners :
       /\ planner[c] = "validated" => artifact
       /\ planner[c] = "recorded" => Positions("requested") = {} /\ Positions("resolved") = {}
       /\ planner[c] = "requested" => Positions("requested") # {} /\ Positions("resolved") = {}

VerifiedBefore == \E v \in Positions("verified"), m \in Positions("checkpoint") : v < m

\* record_checkpoint: what was validated stays so while it is recorded.
RecordingOK == recording => VerifiedBefore

SignalsOK == \A s \in Signals : heard[s] <= 1 /\ (s \notin signals => heard[s] = 0)

CustodyInv == CustodyIsSound /\ PlannersOK /\ RecordingOK /\ SignalsOK

\* The run's events are only ever added to.
LEMMA PositionsGrow ==
  ASSUME runLog \in Seq(RunFacts), NEW fact \in RunFacts, runLog' = Append(runLog, fact)
  PROVE  /\ \A f : f # fact => Positions(f)' = Positions(f)
         /\ Positions(fact)' = Positions(fact) \cup {Len(runLog) + 1}
         /\ \A f : Positions(f) \subseteq 1..Len(runLog)
         /\ runLog' \in Seq(RunFacts)
<1>1. /\ DOMAIN runLog' = DOMAIN runLog \cup {Len(runLog) + 1} /\ runLog' \in Seq(RunFacts)
      /\ \A i \in DOMAIN runLog : runLog'[i] = runLog[i]
      /\ runLog'[Len(runLog) + 1] = fact
      /\ DOMAIN runLog = 1..Len(runLog) /\ Len(runLog) + 1 \notin DOMAIN runLog
  OBVIOUS
<1>2. ASSUME NEW f, f # fact PROVE Positions(f)' = Positions(f)
  BY <1>1, <1>2 DEF Positions
<1>3. Positions(fact)' = Positions(fact) \cup {Len(runLog) + 1}
  BY <1>1 DEF Positions
<1>4. \A f : Positions(f) \subseteq 1..Len(runLog)
  BY <1>1 DEF Positions
<1> QED BY <1>1, <1>2, <1>3, <1>4

\* Every step of the ledgers keeps the invariant.
LEMMA CustodyStep ==
  ASSUME CustodyInv, [CustodyNext]_custodyVars
  PROVE  CustodyInv'
<1>1. /\ runLog \in Seq(RunFacts) /\ artifact \in BOOLEAN /\ recording \in BOOLEAN /\ handoff \in BOOLEAN
      /\ (handoff => artifact) /\ planner \in [Planners -> PlannerSteps]
      /\ retention \in {"none", "requested"} \cup Receipts
      /\ signals \subseteq Signals /\ heard \in [Signals -> 0 .. 2]
      /\ HandoffIsToldOnce /\ (artifact \/ handoff => VerifiedBefore) /\ PlannersOK /\ RecordingOK /\ SignalsOK
  BY DEF CustodyInv, CustodyIsSound, CustodyTypeOK, HandoffRestsOnVerified, VerifiedBefore
<1>2. \A f : runLog' = runLog => Positions(f)' = Positions(f)
  BY DEF Positions
<1>3. ASSUME CustodyTypeOK', HandoffIsToldOnce', (artifact \/ handoff => VerifiedBefore)', PlannersOK', RecordingOK', SignalsOK'
      PROVE  CustodyInv'
  BY <1>3 DEF CustodyInv, CustodyIsSound, HandoffRestsOnVerified, VerifiedBefore, SignalsHeardOnce, SignalsOK
<1>4. ASSUME UNCHANGED <<signals, heard>> PROVE SignalsOK'
  BY <1>1, <1>4 DEF SignalsOK
<1>5. ASSUME UNCHANGED runLog PROVE HandoffIsToldOnce' /\ (VerifiedBefore' <=> VerifiedBefore)
  BY <1>1, <1>2, <1>5 DEF HandoffIsToldOnce, VerifiedBefore
<1>6. ASSUME NEW fact \in RunFacts, runLog' = Append(runLog, fact) PROVE VerifiedBefore => VerifiedBefore'
  BY <1>1, <1>6, PositionsGrow DEF VerifiedBefore
<1>7. ASSUME NEW fact \in {"action", "verified", "checkpoint"}, RunGoesOn(fact) PROVE CustodyInv'
  <2>1. /\ fact \in RunFacts /\ runLog' = Append(runLog, fact) /\ fact # "requested" /\ fact # "resolved"
        /\ UNCHANGED <<artifact, recording, handoff, planner, retention, signals, heard>>
    BY <1>7 DEF RunGoesOn, RunFacts
  <2>2. /\ Positions("requested")' = Positions("requested") /\ Positions("resolved")' = Positions("resolved")
        /\ runLog' \in Seq(RunFacts)
    BY <1>1, <2>1, PositionsGrow
  <2>3. CustodyTypeOK'
    BY <1>1, <2>1, <2>2 DEF CustodyTypeOK
  <2>4. HandoffIsToldOnce' /\ PlannersOK'
    BY <1>1, <2>1, <2>2 DEF HandoffIsToldOnce, PlannersOK
  <2> QED BY <1>1, <1>3, <1>4, <1>6, <2>1, <2>3, <2>4 DEF RecordingOK
<1>8. CASE ValidateCheckpoint
  <2>1. /\ recording' = TRUE /\ VerifiedBefore
        /\ UNCHANGED <<runLog, artifact, handoff, planner, retention, signals, heard>>
    BY <1>8 DEF ValidateCheckpoint, SourceIsCheckpointed, VerifiedBefore
  <2>2. CustodyTypeOK'
    BY <1>1, <2>1 DEF CustodyTypeOK
  <2>3. PlannersOK'
    BY <1>1, <1>2, <2>1 DEF PlannersOK
  <2> QED BY <1>1, <1>3, <1>4, <1>5, <2>1, <2>2, <2>3 DEF RecordingOK
<1>9. CASE RecordCheckpoint
  <2>1. /\ recording' = FALSE /\ artifact' = TRUE /\ VerifiedBefore
        /\ UNCHANGED <<runLog, handoff, planner, retention, signals, heard>>
    BY <1>1, <1>9 DEF RecordCheckpoint, RecordingOK
  <2>2. CustodyTypeOK'
    BY <1>1, <2>1 DEF CustodyTypeOK
  <2>3. PlannersOK'
    BY <1>1, <1>2, <2>1 DEF PlannersOK
  <2> QED BY <1>1, <1>3, <1>4, <1>5, <2>1, <2>2, <2>3 DEF RecordingOK
<1>10. ASSUME NEW c \in Planners, ValidateHandoff(c) PROVE CustodyInv'
  <2>1. /\ planner' = [planner EXCEPT ![c] = "validated"] /\ planner[c] = "idle" /\ artifact
        /\ UNCHANGED <<runLog, artifact, recording, handoff, retention, signals, heard>>
    BY <1>10 DEF ValidateHandoff, ArtifactIsDurable
  <2>2. planner'[c] = "validated" /\ \A d \in Planners : d # c => planner'[d] = planner[d]
    BY <1>1, <2>1
  <2>3. CustodyTypeOK'
    BY <1>1, <2>1 DEF CustodyTypeOK, PlannerSteps
  <2>4. PlannersOK'
    BY <1>1, <1>2, <2>1, <2>2 DEF PlannersOK
  <2> QED BY <1>1, <1>3, <1>4, <1>5, <2>1, <2>3, <2>4 DEF RecordingOK
<1>11. ASSUME NEW c \in Planners, RecordHandoff(c) PROVE CustodyInv'
  <2>1. /\ planner' = [planner EXCEPT ![c] = IF ~handoff THEN "recorded" ELSE "idle"] /\ planner[c] = "validated"
        /\ handoff' = TRUE /\ artifact
        /\ UNCHANGED <<runLog, artifact, recording, retention, signals, heard>>
    BY <1>1, <1>11 DEF RecordHandoff, PlanIsNew, PlannersOK
  <2>2. /\ planner'[c] = IF ~handoff THEN "recorded" ELSE "idle"
        /\ \A d \in Planners : d # c => planner'[d] = planner[d]
    BY <1>1, <2>1
  <2>3. CustodyTypeOK'
    BY <1>1, <2>1 DEF CustodyTypeOK, PlannerSteps
  <2>4. PlannersOK'
    BY <1>1, <1>2, <2>1, <2>2 DEF PlannersOK
  <2> QED BY <1>1, <1>3, <1>4, <1>5, <2>1, <2>3, <2>4 DEF RecordingOK
<1>12. ASSUME NEW c \in Planners, AppendRequested(c) PROVE CustodyInv'
  <2>1. /\ planner' = [planner EXCEPT ![c] = "requested"] /\ planner[c] = "recorded"
        /\ runLog' = Append(runLog, "requested") /\ "requested" \in RunFacts
        /\ UNCHANGED <<artifact, recording, handoff, retention, signals, heard>>
    BY <1>12 DEF AppendRequested, RunFacts
  <2>2. planner'[c] = "requested" /\ \A d \in Planners : d # c => planner'[d] = planner[d]
    BY <1>1, <2>1
  <2>3. /\ Positions("requested")' = Positions("requested") \cup {Len(runLog) + 1}
        /\ Positions("resolved")' = Positions("resolved")
        /\ runLog' \in Seq(RunFacts)
    BY <1>1, <2>1, PositionsGrow
  <2>4. Positions("requested") = {} /\ Positions("resolved") = {} /\ handoff
    BY <1>1, <2>1 DEF PlannersOK
  <2>5. CustodyTypeOK'
    BY <1>1, <2>1, <2>3 DEF CustodyTypeOK, PlannerSteps
  <2>6. HandoffIsToldOnce'
    BY <2>3, <2>4 DEF HandoffIsToldOnce
  <2>7. PlannersOK'
    BY <1>1, <2>1, <2>2, <2>3, <2>4 DEF PlannersOK
  <2> QED BY <1>1, <1>3, <1>4, <1>6, <2>1, <2>5, <2>6, <2>7 DEF RecordingOK
<1>13. ASSUME NEW c \in Planners, AppendResolved(c) PROVE CustodyInv'
  <2>1. /\ planner' = [planner EXCEPT ![c] = "idle"] /\ planner[c] = "requested"
        /\ runLog' = Append(runLog, "resolved") /\ "resolved" \in RunFacts
        /\ UNCHANGED <<artifact, recording, handoff, retention, signals, heard>>
    BY <1>13 DEF AppendResolved, RunFacts
  <2>2. planner'[c] = "idle" /\ \A d \in Planners : d # c => planner'[d] = planner[d]
    BY <1>1, <2>1
  <2>3. /\ Positions("resolved")' = Positions("resolved") \cup {Len(runLog) + 1}
        /\ Positions("requested")' = Positions("requested") /\ Positions("requested") \subseteq 1..Len(runLog)
        /\ runLog' \in Seq(RunFacts)
    BY <1>1, <2>1, PositionsGrow
  <2>4. Positions("requested") # {} /\ Positions("resolved") = {} /\ handoff
    BY <1>1, <2>1 DEF PlannersOK
  <2>5. CustodyTypeOK'
    BY <1>1, <2>1, <2>3 DEF CustodyTypeOK, PlannerSteps
  <2>6. HandoffIsToldOnce'
    BY <1>1, <2>3, <2>4 DEF HandoffIsToldOnce
  <2>7. PlannersOK'
    BY <1>1, <2>1, <2>2, <2>3, <2>4 DEF PlannersOK
  <2> QED BY <1>1, <1>3, <1>4, <1>6, <2>1, <2>5, <2>6, <2>7 DEF RecordingOK
<1>14. CASE RequestRetention \/ \E receipt \in Receipts : AcceptReceipt(receipt)
  <2>1. UNCHANGED <<runLog, artifact, recording, handoff, planner, signals, heard>>
    BY <1>14 DEF RequestRetention, AcceptReceipt
  <2>2. CustodyTypeOK'
    BY <1>1, <1>14, <2>1 DEF CustodyTypeOK, RequestRetention, AcceptReceipt
  <2>3. PlannersOK'
    BY <1>1, <1>2, <2>1 DEF PlannersOK
  <2> QED BY <1>1, <1>3, <1>4, <1>5, <2>1, <2>2, <2>3 DEF RecordingOK
<1>15. ASSUME NEW s \in Signals, AcceptSignal(s) PROVE CustodyInv'
  <2>1. /\ heard' = [heard EXCEPT ![s] = IF s \in signals THEN @ ELSE @ + 1] /\ signals' = signals \cup {s}
        /\ UNCHANGED <<runLog, artifact, recording, handoff, planner, retention>> /\ heard[s] \in 0..2 /\ heard[s] < 2
    BY <1>1, <1>15 DEF AcceptSignal, StoreSignal
  <2>2. CustodyTypeOK'
    BY <1>1, <2>1 DEF CustodyTypeOK
  <2>3. PlannersOK'
    BY <1>1, <1>2, <2>1 DEF PlannersOK
  <2>4. SignalsOK'
    BY <1>1, <2>1 DEF SignalsOK
  <2> QED BY <1>1, <1>3, <1>5, <2>1, <2>2, <2>3, <2>4 DEF RecordingOK
<1>16. CASE CustodyCrash
  <2>1. /\ recording' = FALSE /\ planner' = [c \in Planners |-> "idle"]
        /\ UNCHANGED <<runLog, artifact, handoff, retention, signals, heard>>
    BY <1>16 DEF CustodyCrash
  <2>2. CustodyTypeOK'
    BY <1>1, <2>1 DEF CustodyTypeOK, PlannerSteps
  <2>3. PlannersOK'
    BY <1>1, <1>2, <2>1 DEF PlannersOK
  <2> QED BY <1>1, <1>3, <1>4, <1>5, <2>1, <2>2, <2>3 DEF RecordingOK
<1>17. CASE UNCHANGED custodyVars
  <2>1. UNCHANGED <<runLog, artifact, recording, handoff, planner, retention, signals, heard>>
    BY <1>17 DEF custodyVars
  <2>2. CustodyTypeOK'
    BY <1>1, <2>1 DEF CustodyTypeOK
  <2>3. PlannersOK'
    BY <1>1, <1>2, <2>1 DEF PlannersOK
  <2> QED BY <1>1, <1>3, <1>4, <1>5, <2>1, <2>2, <2>3 DEF RecordingOK
<1> QED BY <1>7, <1>8, <1>9, <1>10, <1>11, <1>12, <1>13, <1>14, <1>15, <1>16, <1>17 DEF CustodyNext

\* The ledgers start empty.
LEMMA CustodyInitInv == CustodyInit => CustodyInv
<1> SUFFICES ASSUME CustodyInit PROVE CustodyInv
  OBVIOUS
<1>1. \A f : Positions(f) = {}
  BY DEF CustodyInit, Positions
<1>2. CustodyTypeOK
  <2>1. planner \in [Planners -> PlannerSteps] /\ heard \in [Signals -> 0..2]
    BY DEF CustodyInit, PlannerSteps
  <2>2. runLog \in Seq(RunFacts)
    BY DEF CustodyInit
  <2> QED BY <2>1, <2>2 DEF CustodyInit, CustodyTypeOK
<1>3. HandoffIsToldOnce /\ HandoffRestsOnVerified
  BY <1>1 DEF CustodyInit, HandoffIsToldOnce, HandoffRestsOnVerified
<1>4. \A c \in Planners : planner[c] = "idle"
  BY DEF CustodyInit
<1>5. PlannersOK /\ RecordingOK
  BY <1>1, <1>4 DEF CustodyInit, PlannersOK, RecordingOK
<1>6. SignalsHeardOnce /\ SignalsOK
  BY DEF CustodyInit, SignalsHeardOnce, SignalsOK
<1> QED BY <1>2, <1>3, <1>5, <1>6 DEF CustodyInv, CustodyIsSound

\* plan_handoff, record_checkpoint, accept_device_signal: however often a
\* handoff is planned, by whom and after which crash, it is told once and
\* rests on a verified checkpoint, and a signal is heard once.
THEOREM CustodyStaysSound == PeersSpec => []CustodyIsSound
<1>1. PeersInit => CustodyInv
  BY CustodyInitInv DEF PeersInit
<1>2. CustodyInv /\ [PeersNext]_peersVars => CustodyInv'
  BY ServicesStep, CustodyStep
<1>3. CustodyInv => CustodyIsSound
  BY DEF CustodyInv
<1> QED BY <1>1, <1>2, <1>3, PTL DEF PeersSpec

-----------------------------------------------------------------------------
(* Replication                                                             *)

Batches == [from : Nat, to : Nat, epoch : Nat, events : Seq(Transferred)]

\* Every batch was read from the checkpoint of its time.
ExportsOK ==
  /\ exports \subseteq Batches /\ \A b \in exports : b.from <= checkpoint
  /\ preparing # NoBatch => preparing \in Batches /\ preparing.from <= checkpoint

\* ReplicaSqliteStore::apply: batches follow each other, and the cursor's
\* epoch is one the replica was bound to.
ReplicaOK ==
  /\ \A b \in batches : b.to <= Len(copy)
  /\ \A b, c \in batches : b.from = c.from => b = c
  /\ cursor <= binding
  /\ kept => checkpoint <= Len(copy) /\ \A ack \in acks : ack.batch \in batches

ReplicaInv == ReplicaIsSound /\ ExportsOK /\ ReplicaOK

\* What is transferred of a stream of events.
LEMMA TransferType ==
  ASSUME stream \in Seq(Kinds), NEW from \in Nat, NEW to \in Nat, from <= to, to <= Len(stream)
  PROVE  TransferOf(from, to) \in Seq(Transferred) /\ Len(TransferOf(from, to)) = to - from
<1>1. \A kind \in Kinds : Transfer(kind) \in Transferred
  <2> TAKE kind \in Kinds
  <2>1. (kind \notin Raw \cup Control) \in BOOLEAN
    OBVIOUS
  <2> QED BY <2>1 DEF Transfer, Transferred
<1>2. to - from \in Nat /\ \A i \in 1..to - from : from + i \in 1..Len(stream)
  OBVIOUS
<1>3. \A i \in 1..to - from : stream[from + i] \in Kinds
  BY <1>2
<1>4. \A i \in 1..to - from : Transfer(stream[from + i]) \in Transferred
  BY <1>1, <1>3
<1> HIDE DEF Transfer
<1> QED BY <1>2, <1>4 DEF TransferOf

\* What was transferred stays what it was as the stream grows.
LEMMA TransferStays ==
  ASSUME stream \in Seq(Kinds), NEW kind \in Kinds, stream' = Append(stream, kind),
         NEW from \in Nat, NEW to \in Nat, to <= Len(stream)
  PROVE  TransferOf(from, to)' = TransferOf(from, to)
<1>1. ASSUME NEW i \in 1..to - from PROVE stream'[from + i] = stream[from + i]
  <2>1. from + i \in 1..Len(stream)
    OBVIOUS
  <2> QED BY <2>1
<1> QED BY <1>1 DEF TransferOf

\* A piece of the stream follows the one before it.
LEMMA TransferFollows ==
  ASSUME stream \in Seq(Kinds), NEW from \in Nat, NEW to \in Nat, from <= to, to <= Len(stream)
  PROVE  TransferOf(0, from) \o TransferOf(from, to) = TransferOf(0, to)
<1> DEFINE a == TransferOf(0, from)
           b == TransferOf(from, to)
           c == TransferOf(0, to)
<1>1. /\ a \in Seq(Transferred) /\ Len(a) = from
      /\ b \in Seq(Transferred) /\ Len(b) = to - from
      /\ c \in Seq(Transferred) /\ Len(c) = to
  <2>1. a \in Seq(Transferred) /\ Len(a) = from - 0
    <3>1. 0 \in Nat /\ 0 <= from /\ from <= Len(stream) /\ Len(stream) \in Nat
      OBVIOUS
    <3> QED BY <3>1, TransferType
  <2>2. b \in Seq(Transferred) /\ Len(b) = to - from
    BY TransferType
  <2>3. c \in Seq(Transferred) /\ Len(c) = to - 0
    <3>1. 0 \in Nat /\ 0 <= to
      OBVIOUS
    <3> QED BY <3>1, TransferType
  <2> HIDE DEF a, b, c
  <2> QED BY <2>1, <2>2, <2>3
<1>2. /\ \A i \in 1..from : a[i] = c[i]
      /\ \A i \in 1..to - from : b[i] = c[from + i]
  <2>1. ASSUME NEW i \in 1..from PROVE a[i] = c[i]
    BY DEF TransferOf
  <2>2. ASSUME NEW i \in 1..to - from PROVE b[i] = c[from + i]
    <3>1. from + i \in 1..to
      OBVIOUS
    <3> QED BY <3>1 DEF TransferOf
  <2> QED BY <2>1, <2>2
<1> HIDE DEF a, b, c
<1>3. /\ a \o b \in Seq(Transferred) /\ Len(a \o b) = to
      /\ \A i \in 1..to : (a \o b)[i] = IF i <= from THEN a[i] ELSE b[i - from]
  <2>1. /\ a \o b \in Seq(Transferred) /\ Len(a \o b) = Len(a) + Len(b)
        /\ \A i \in 1..Len(a) + Len(b) : (a \o b)[i] = IF i <= Len(a) THEN a[i] ELSE b[i - Len(a)]
    BY <1>1, ConcatProperties
  <2>2. Len(a) + Len(b) = to
    BY <1>1
  <2> QED BY <1>1, <2>1, <2>2
<1>4. ASSUME NEW i \in 1..to PROVE (a \o b)[i] = c[i]
  <2>1. CASE i <= from
    BY <1>2, <1>3, <2>1
  <2>2. CASE ~(i <= from)
    <3>1. i - from \in 1..to - from /\ from + (i - from) = i
      BY <2>2
    <3> QED BY <1>2, <1>3, <2>2, <3>1
  <2> QED BY <2>1, <2>2
<1>5. a \o b = c
  BY <1>1, <1>3, <1>4, SeqEqual
<1> QED BY <1>5 DEF a, b, c

\* What the invariant says of each table.
LEMMA ReplicaFacts ==
  ASSUME ReplicaInv
  PROVE  /\ stream \in Seq(Kinds) /\ Len(stream) <= MaxStream /\ Len(stream) \in Nat
         /\ peerEpoch \in 1 .. MaxPeerEpoch /\ peerActive \in BOOLEAN
         /\ checkpoint \in 0 .. Len(stream) /\ kept \in BOOLEAN
         /\ \A b \in exports : BatchOf(b) /\ b \in Batches /\ b.from <= checkpoint
         /\ preparing # NoBatch => BatchOf(preparing) /\ preparing \in Batches /\ preparing.from <= checkpoint
         /\ binding \in 1 .. peerEpoch /\ cursor \in 0 .. peerEpoch /\ cursor <= binding
         /\ (cursor = 0) = (copy = <<>>)
         /\ copy \in Seq(Transferred) /\ batches \subseteq exports /\ Len(copy) \in Nat
         /\ \A ack \in acks : ack.batch \in exports /\ ack.applied \in ack.batch.to .. Len(stream)
         /\ Len(copy) <= Len(stream) /\ copy = TransferOf(0, Len(copy))
         /\ MaxStream \in Nat /\ MaxPeerEpoch \in Nat
         /\ \A b \in batches : b.to <= Len(copy)
         /\ \A b, c \in batches : b.from = c.from => b = c
         /\ kept => checkpoint <= Len(copy) /\ \A ack \in acks : ack.batch \in batches
<1>1. ReplicaTypeOK /\ ReplicaIsPrefix /\ ExportsOK /\ ReplicaOK
  BY DEF ReplicaInv, ReplicaIsSound
<1>2. /\ stream \in Seq(Kinds) /\ Len(stream) <= MaxStream /\ Len(stream) \in Nat
      /\ copy \in Seq(Transferred) /\ Len(copy) \in Nat
  BY <1>1 DEF ReplicaTypeOK
<1>3. MaxStream \in Nat /\ MaxPeerEpoch \in Nat
  BY ReplicaAssumption DEF ReplicaAssumption
<1>4. \A b \in exports : BatchOf(b) /\ b \in Batches /\ b.from <= checkpoint
  BY <1>1 DEF ReplicaTypeOK, ExportsOK
<1>5. preparing # NoBatch => BatchOf(preparing) /\ preparing \in Batches /\ preparing.from <= checkpoint
  BY <1>1 DEF ReplicaTypeOK, ExportsOK
<1>6. Len(copy) <= Len(stream) /\ copy = TransferOf(0, Len(copy))
  BY <1>1 DEF ReplicaIsPrefix
<1>7. /\ \A b \in batches : b.to <= Len(copy)
      /\ \A b, c \in batches : b.from = c.from => b = c
      /\ cursor <= binding
      /\ kept => checkpoint <= Len(copy) /\ \A ack \in acks : ack.batch \in batches
  BY <1>1 DEF ReplicaOK
<1> QED BY <1>1, <1>2, <1>3, <1>4, <1>5, <1>6, <1>7 DEF ReplicaTypeOK

\* replication_transfer_event: what a batch carries is redacted as its kind
\* asks.
LEMMA BatchesAreRedacted == (\A b \in exports : BatchOf(b)) => RawStaysHome
<1> SUFFICES ASSUME \A b \in exports : BatchOf(b) PROVE RawStaysHome
  OBVIOUS
<1>1. \A kind : kind \in Raw \cup Control => ~Transfer(kind).full
  BY DEF Transfer
<1>2. ASSUME NEW b \in exports, NEW i \in DOMAIN b.events, stream[b.from + i] \in Raw \cup Control
      PROVE  ~b.events[i].full
  <2>1. b.events = TransferOf(b.from, b.to)
    BY DEF BatchOf
  <2>2. b.events[i] = Transfer(stream[b.from + i])
    BY <2>1 DEF TransferOf
  <2> QED BY <1>1, <1>2, <2>2
<1> QED BY <1>2 DEF RawStaysHome

\* The run's events are added to, and every batch stays a piece of them.
LEMMA StreamGrows ==
  ASSUME ReplicaInv, NEW kind \in Kinds, Len(stream) < MaxStream, stream' = Append(stream, kind),
         UNCHANGED <<peerEpoch, exports, preparing, copy, acks>>
  PROVE  /\ stream' \in Seq(Kinds) /\ Len(stream') = Len(stream) + 1 /\ Len(stream') <= MaxStream
         /\ \A b \in exports' : BatchOf(b)'
         /\ preparing # NoBatch => BatchOf(preparing)'
         /\ \A ack \in acks' : ack.batch \in exports' /\ ack.applied \in ack.batch.to .. Len(stream')
         /\ ReplicaIsPrefix'
<1>1. stream' \in Seq(Kinds) /\ Len(stream') = Len(stream) + 1 /\ Len(stream') <= MaxStream
  BY ReplicaFacts
<1>2. ASSUME NEW b \in Batches, BatchOf(b) PROVE BatchOf(b)'
  <2>1. TransferOf(b.from, b.to)' = TransferOf(b.from, b.to)
    BY <1>2, ReplicaFacts, TransferStays DEF BatchOf, Batches
  <2> QED BY <1>1, <1>2, <2>1, ReplicaFacts DEF BatchOf, Batches
<1>3. ReplicaIsPrefix'
  <2>1. TransferOf(0, Len(copy))' = TransferOf(0, Len(copy))
    <3>1. PICK n \in Nat : n = Len(copy) /\ n <= Len(stream)
      BY ReplicaFacts
    <3>2. TransferOf(0, n)' = TransferOf(0, n)
      BY <3>1, ReplicaFacts, TransferStays
    <3> QED BY <3>1, <3>2 DEF TransferOf
  <2> QED BY <1>1, <2>1, ReplicaFacts DEF ReplicaIsPrefix
<1>4. \A ack \in acks' : ack.batch \in exports' /\ ack.applied \in ack.batch.to .. Len(stream')
  <2> TAKE ack \in acks'
  <2>1. ack.batch \in exports /\ ack.applied \in ack.batch.to .. Len(stream) /\ ack.batch.to \in Nat
    BY ReplicaFacts DEF Batches
  <2> QED BY <1>1, <2>1, ReplicaFacts
<1>5. preparing # NoBatch => BatchOf(preparing)'
  <2>1. ASSUME NEW b, b = preparing, b # NoBatch PROVE BatchOf(b)'
    BY <1>2, <2>1, ReplicaFacts
  <2> QED BY <2>1 DEF BatchOf, TransferOf
<1> QED BY <1>1, <1>2, <1>3, <1>4, <1>5, ReplicaFacts

\* The conjuncts of the invariant, one fact each.
LEMMA ReplicaAgain ==
  ASSUME stream' \in Seq(Kinds), Len(stream') <= MaxStream, peerEpoch' \in 1 .. MaxPeerEpoch, peerActive' \in BOOLEAN,
         checkpoint' \in 0 .. Len(stream'), kept' \in BOOLEAN,
         \A b \in exports' : BatchOf(b)' /\ b \in Batches /\ b.from <= checkpoint',
         preparing' # NoBatch => BatchOf(preparing)' /\ preparing' \in Batches /\ preparing'.from <= checkpoint',
         binding' \in 1 .. peerEpoch', cursor' \in 0 .. peerEpoch', (cursor' = 0) = (copy' = <<>>),
         copy' \in Seq(Transferred), batches' \subseteq exports',
         \A ack \in acks' : ack.batch \in exports' /\ ack.applied \in ack.batch.to .. Len(stream'),
         ReplicaIsPrefix', CheckpointCanCatchUp', ReplicaOK'
  PROVE  ReplicaInv'
<1>1. ReplicaTypeOK'
  BY DEF ReplicaTypeOK
<1>2. RawStaysHome'
  <2>1. ((\A b \in exports : BatchOf(b)) => RawStaysHome)'
    BY BatchesAreRedacted, PTL
  <2> QED BY <2>1
<1>3. ExportsOK'
  BY DEF ExportsOK
<1> QED BY <1>1, <1>2, <1>3 DEF ReplicaInv, ReplicaIsSound

\* append_event: the run goes on.
LEMMA Append1Step ==
  ASSUME ReplicaInv, NEW kind \in {"raw", "note"}, Append1(kind)
  PROVE  ReplicaInv'
<1>1. /\ kind \in Kinds /\ Len(stream) < MaxStream /\ stream' = Append(stream, kind)
      /\ UNCHANGED <<peerEpoch, peerActive, checkpoint, exports, preparing, binding, copy, cursor, batches, acks, kept>>
  BY DEF Append1, replica, Kinds, Raw
<1>2. ReplicaOK' /\ CheckpointCanCatchUp'
  BY <1>1 DEF ReplicaInv, ReplicaIsSound, ReplicaOK, CheckpointCanCatchUp
<1>3. checkpoint' \in 0..Len(stream')
  BY <1>1, ReplicaFacts, StreamGrows
<1>4. preparing' # NoBatch => BatchOf(preparing)' /\ preparing' \in Batches /\ preparing'.from <= checkpoint'
  BY <1>1, ReplicaFacts, StreamGrows
<1> QED BY <1>1, <1>2, <1>3, <1>4, ReplicaFacts, StreamGrows, ReplicaAgain

\* acknowledge_replication: the checkpoint moves to where an applied batch
\* ended, by an event of the stream.
LEMMA AcknowledgeStep ==
  ASSUME ReplicaInv, NEW ack \in acks, Acknowledge(ack)
  PROVE  ReplicaInv' /\ checkpoint' >= checkpoint
<1>1. /\ Len(stream) < MaxStream /\ stream' = Append(stream, "checkpoint") /\ "checkpoint" \in Kinds
      /\ ack.batch \in exports /\ peerActive /\ ack.batch.epoch = peerEpoch /\ ack.applied = ack.batch.to
      /\ checkpoint = ack.batch.from /\ checkpoint' = ack.applied
      /\ UNCHANGED <<peerEpoch, peerActive, exports, preparing, binding, copy, cursor, batches, acks, kept>>
  BY DEF Acknowledge, AckBinds, AdvancesCheckpoint, replica, Kinds, Control
<1>2. ack.batch.from \in Nat /\ ack.batch.to \in Nat /\ ack.batch.from < ack.batch.to /\ ack.batch.to <= Len(stream)
  BY <1>1, ReplicaFacts DEF BatchOf, Batches
<1>3. checkpoint' \in Nat /\ checkpoint \in Nat /\ checkpoint < checkpoint' /\ checkpoint' \in 0..Len(stream')
  BY <1>1, <1>2, ReplicaFacts, StreamGrows
<1>4. kept => ack.batch \in batches /\ checkpoint' <= Len(copy)
  BY <1>1, ReplicaFacts
<1>5. ReplicaOK'
  BY <1>1, <1>4, ReplicaFacts DEF ReplicaOK
<1>6. CheckpointCanCatchUp'
  <2> SUFFICES ASSUME peerActive, binding = peerEpoch, cursor \in {0, peerEpoch}, kept
               PROVE  checkpoint' = Len(copy)
    BY <1>1 DEF CheckpointCanCatchUp
  <2>1. checkpoint = Len(copy) \/ \E b \in exports \cap batches : b.from = checkpoint /\ b.to = Len(copy)
    BY DEF ReplicaInv, ReplicaIsSound, CheckpointCanCatchUp
  <2>2. checkpoint # Len(copy)
    BY <1>3, <1>4, ReplicaFacts
  <2>3. PICK b \in batches : b.from = checkpoint /\ b.to = Len(copy)
    BY <2>1, <2>2
  <2>4. b = ack.batch
    BY <1>1, <1>4, <2>3, ReplicaFacts
  <2> QED BY <1>1, <2>3, <2>4
<1>7. \A b \in exports' : BatchOf(b)' /\ b \in Batches /\ b.from <= checkpoint'
  <2>1. \A b \in exports : b.from \in Nat /\ b.from <= checkpoint /\ b \in Batches
    BY ReplicaFacts DEF Batches
  <2> QED BY <1>1, <1>3, <2>1, StreamGrows
<1>8. preparing' # NoBatch => BatchOf(preparing)' /\ preparing' \in Batches /\ preparing'.from <= checkpoint'
  <2>1. preparing # NoBatch => preparing.from \in Nat /\ preparing.from <= checkpoint /\ preparing \in Batches
    BY ReplicaFacts DEF Batches
  <2> QED BY <1>1, <1>3, <2>1, StreamGrows
<1>9. ReplicaInv'
  BY <1>1, <1>3, <1>5, <1>6, <1>7, <1>8, ReplicaFacts, StreamGrows, ReplicaAgain
<1> QED BY <1>3, <1>9

\* export_replication: a batch is read from the checkpoint, and recorded as it
\* was read.
LEMMA ExportStep ==
  ASSUME ReplicaInv, (\E limit \in 1 .. MaxStream : PrepareExport(limit)) \/ RecordExport \/ ExportRefused
  PROVE  ReplicaInv' /\ ExportsAreCurrent
<1>1. UNCHANGED <<stream, peerEpoch, peerActive, checkpoint, binding, copy, cursor, batches, acks, kept>>
  BY DEF PrepareExport, RecordExport, ExportRefused, replica
<1>2. \A from, to : TransferOf(from, to)' = TransferOf(from, to)
  BY <1>1 DEF TransferOf
<1>3. \A b : BatchOf(b) => BatchOf(b)'
  BY <1>1, <1>2 DEF BatchOf
<1>4. exports' = exports \/ (RecordExport /\ exports' = exports \cup {preparing} /\ preparing # NoBatch)
  BY DEF PrepareExport, RecordExport, ExportRefused
<1>5. \A b \in exports' : BatchOf(b)' /\ b \in Batches /\ b.from <= checkpoint'
  BY <1>1, <1>3, <1>4, ReplicaFacts
<1>6. preparing' # NoBatch => BatchOf(preparing)' /\ preparing' \in Batches /\ preparing'.from <= checkpoint'
  <2>1. ASSUME NEW limit \in 1 .. MaxStream, PrepareExport(limit)
        PROVE  BatchOf(preparing)' /\ preparing' \in Batches /\ preparing'.from <= checkpoint'
    <3> DEFINE end == IF checkpoint + limit < Len(stream) THEN checkpoint + limit ELSE Len(stream)
    <3>1. PICK from \in Nat, to \in Nat, epoch \in Nat :
            /\ from = checkpoint /\ to = end /\ epoch = peerEpoch /\ from < to /\ to <= Len(stream) /\ epoch \in 1..peerEpoch
            /\ preparing' = [from |-> from, to |-> to, epoch |-> epoch, events |-> TransferOf(from, to)]
      <4>1. checkpoint \in Nat /\ peerEpoch \in Nat /\ peerEpoch \in 1..peerEpoch /\ Len(stream) \in Nat /\ limit \in Nat
        BY ReplicaFacts
      <4>2. end \in Nat /\ end <= Len(stream)
        BY <4>1
      <4>3. checkpoint < end /\ preparing' = [from |-> checkpoint, to |-> end, epoch |-> peerEpoch, events |-> TransferOf(checkpoint, end)]
        BY <2>1, <4>1 DEF PrepareExport, HasNewEvents
      <4> QED BY <4>1, <4>2, <4>3
    <3>2. TransferOf(from, to) \in Seq(Transferred)
      <4>1. stream \in Seq(Kinds)
        BY ReplicaFacts
      <4>2. from \in Nat /\ to \in Nat /\ from <= to /\ to <= Len(stream)
        BY <3>1
      <4> QED BY <4>1, <4>2, TransferType
    <3>3. preparing' \in Batches
      BY <3>1, <3>2 DEF Batches
    <3>4. /\ preparing'.from = from /\ preparing'.to = to /\ preparing'.epoch = epoch
          /\ preparing'.events = TransferOf(from, to)
      BY <3>1
    <3>8. BatchOf(preparing)'
      BY <1>1, <1>2, <3>1, <3>4 DEF BatchOf
    <3>9. preparing'.from <= checkpoint'
      BY <1>1, <3>1, <3>4
    <3> QED BY <3>3, <3>8, <3>9
  <2>2. CASE RecordExport \/ ExportRefused
    BY <2>2 DEF RecordExport, ExportRefused
  <2> QED BY <2>1, <2>2
<1>7. CheckpointCanCatchUp'
  BY <1>1, <1>4 DEF ReplicaInv, ReplicaIsSound, CheckpointCanCatchUp
<1>8. ReplicaOK' /\ ReplicaIsPrefix'
  BY <1>1, <1>2, ReplicaFacts DEF ReplicaOK, ReplicaIsPrefix
<1>9. batches' \subseteq exports' /\ \A ack \in acks' : ack.batch \in exports' /\ ack.applied \in ack.batch.to .. Len(stream')
  BY <1>1, <1>4, ReplicaFacts
<1>10. ExportsAreCurrent
  BY <1>4 DEF ExportsAreCurrent, RecordExport, StillExportable
<1>11. ReplicaInv'
  BY <1>1, <1>5, <1>6, <1>7, <1>8, <1>9, ReplicaFacts, ReplicaAgain
<1> QED BY <1>10, <1>11

\* ReplicaSqliteStore::apply: a batch is applied where the copy ends.
LEMMA ApplyStep ==
  ASSUME ReplicaInv, NEW b \in exports, Apply(b)
  PROVE  ReplicaInv'
<1>1. /\ b.epoch = binding /\ b \notin batches /\ b.from = Len(copy) /\ cursor \in {0, b.epoch}
      /\ copy' = copy \o b.events /\ cursor' = binding /\ batches' = batches \cup {b}
      /\ acks' = acks \cup {[batch |-> b, applied |-> b.to]}
      /\ UNCHANGED <<stream, peerEpoch, peerActive, checkpoint, exports, preparing, binding, kept>>
  BY DEF Apply, AtCursor, StoresCursor, Recorded, authority
<1>2. /\ b.from \in Nat /\ b.to \in Nat /\ b.from < b.to /\ b.to <= Len(stream) /\ b.from <= checkpoint
      /\ b.events = TransferOf(b.from, b.to)
  BY ReplicaFacts DEF BatchOf, Batches
<1>3. /\ \A from, to : TransferOf(from, to)' = TransferOf(from, to)
      /\ \A c : BatchOf(c) => BatchOf(c)'
  <2>1. \A from, to : TransferOf(from, to)' = TransferOf(from, to)
    BY <1>1 DEF TransferOf
  <2> QED BY <1>1, <2>1 DEF BatchOf
<1>4. copy' = TransferOf(0, b.to)
  <2>1. copy = TransferOf(0, b.from)
    BY <1>1, ReplicaFacts
  <2>2. TransferOf(0, b.from) \o TransferOf(b.from, b.to) = TransferOf(0, b.to)
    <3>1. stream \in Seq(Kinds)
      BY ReplicaFacts
    <3>2. b.from \in Nat /\ b.to \in Nat /\ b.from <= b.to /\ b.to <= Len(stream)
      BY <1>2
    <3> QED BY <3>1, <3>2, TransferFollows
  <2> QED BY <1>1, <1>2, <2>1, <2>2
<1>5. copy' \in Seq(Transferred) /\ Len(copy') = b.to
  <2>1. 0 \in Nat /\ 0 <= b.to
    BY <1>2
  <2>2. TransferOf(0, b.to) \in Seq(Transferred) /\ Len(TransferOf(0, b.to)) = b.to - 0
    <3>1. stream \in Seq(Kinds)
      BY ReplicaFacts
    <3>2. b.to \in Nat /\ b.to <= Len(stream)
      BY <1>2
    <3> QED BY <2>1, <3>1, <3>2, TransferType
  <2> QED BY <1>2, <1>4, <2>2
<1>6. copy' # <<>> /\ cursor' \in 1..peerEpoch
  <2>1. Len(copy') # 0
    BY <1>2, <1>5
  <2> QED BY <1>1, <2>1, ReplicaFacts
<1>7. ReplicaIsPrefix'
  <2>1. TransferOf(0, Len(copy))' = TransferOf(0, b.to)
    BY <1>1, <1>5 DEF TransferOf
  <2> QED BY <1>1, <1>2, <1>4, <1>5, <2>1 DEF ReplicaIsPrefix
<1>8. \A ack \in acks' : ack.batch \in exports' /\ ack.applied \in ack.batch.to .. Len(stream')
  <2>1. [batch |-> b, applied |-> b.to].batch = b /\ [batch |-> b, applied |-> b.to].applied = b.to
    OBVIOUS
  <2>2. b.to \in b.to .. Len(stream)
    BY <1>2, ReplicaFacts
  <2> QED BY <1>1, <2>1, <2>2, ReplicaFacts
<1>9. \A c \in batches : c.from \in Nat /\ c.from < c.to /\ c.to <= Len(copy) /\ c.to \in Nat
  BY ReplicaFacts DEF BatchOf, Batches
<1>10. ReplicaOK'
  <2>1. \A c \in batches' : c.to <= Len(copy')
    BY <1>1, <1>2, <1>5, <1>9
  <2>2. \A c, d \in batches' : c.from = d.from => c = d
    <3>1. \A c \in batches : c.from # b.from
      BY <1>1, <1>2, <1>9
    <3> QED BY <1>1, <3>1, ReplicaFacts
  <2>3. cursor' <= binding'
    BY <1>1, ReplicaFacts
  <2>4. kept' => checkpoint' <= Len(copy') /\ \A ack \in acks' : ack.batch \in batches'
    <3>1. kept => checkpoint <= Len(copy) /\ \A ack \in acks : ack.batch \in batches
      BY ReplicaFacts
    <3>2. kept => checkpoint <= b.to
      BY <1>1, <1>2, <3>1, ReplicaFacts
    <3> QED BY <1>1, <1>5, <3>1, <3>2
  <2> QED BY <2>1, <2>2, <2>3, <2>4 DEF ReplicaOK
<1>11. CheckpointCanCatchUp'
  <2> SUFFICES ASSUME peerActive, binding = peerEpoch, kept
               PROVE  \E c \in exports' \cap batches' : c.from = checkpoint' /\ c.to = Len(copy')
    BY <1>1 DEF CheckpointCanCatchUp
  <2>1. cursor \in {0, peerEpoch}
    BY <1>1
  <2>2. checkpoint = Len(copy) \/ \E c \in exports \cap batches : c.from = checkpoint /\ c.to = Len(copy)
    BY <2>1 DEF ReplicaInv, ReplicaIsSound, CheckpointCanCatchUp
  <2>3. b.from = checkpoint
    BY <1>1, <1>2, <1>9, <2>2, ReplicaFacts
  <2> QED BY <1>1, <1>5, <2>3
<1>12. \A c \in exports' : BatchOf(c)' /\ c \in Batches /\ c.from <= checkpoint'
  BY <1>1, <1>3, ReplicaFacts
<1>13. preparing' # NoBatch => BatchOf(preparing)' /\ preparing' \in Batches /\ preparing'.from <= checkpoint'
  BY <1>1, <1>3, ReplicaFacts DEF BatchOf
<1>14. cursor' \in 0 .. peerEpoch' /\ (cursor' = 0) = (copy' = <<>>) /\ batches' \subseteq exports'
  BY <1>1, <1>6, ReplicaFacts
<1> QED BY <1>1, <1>5, <1>7, <1>8, <1>10, <1>11, <1>12, <1>13, <1>14, ReplicaFacts, ReplicaAgain

\* register_peer, revoke_peer, forme-replicad and its database: what the owner
\* does to the peer and to the replica.
LEMMA OwnerStep ==
  ASSUME ReplicaInv, RegistryMoves \/ RevokeReplica \/ Rebind \/ Discard \/ \E b \in exports : ApplyAgain(b)
  PROVE  ReplicaInv'
<1>1. UNCHANGED <<stream, checkpoint, exports, preparing>>
  BY DEF RegistryMoves, RevokeReplica, Rebind, Discard, ApplyAgain, authority
<1>2. \A from, to : TransferOf(from, to)' = TransferOf(from, to)
  BY <1>1 DEF TransferOf
<1>3. peerEpoch' \in peerEpoch..MaxPeerEpoch /\ peerEpoch \in Nat /\ peerEpoch' \in Nat /\ 1 <= peerEpoch
  BY ReplicaFacts DEF RegistryMoves, RevokeReplica, Rebind, Discard, ApplyAgain, authority
<1>4. ASSUME NEW b \in Batches, BatchOf(b) PROVE BatchOf(b)'
  <2>1. b.epoch \in 1..peerEpoch'
    BY <1>3, <1>4 DEF BatchOf, Batches
  <2> QED BY <1>1, <1>2, <1>4, <2>1 DEF BatchOf
<1>5. \A c \in exports' : BatchOf(c)' /\ c \in Batches /\ c.from <= checkpoint'
  BY <1>1, <1>4, ReplicaFacts
<1>6. preparing' # NoBatch => BatchOf(preparing)' /\ preparing' \in Batches /\ preparing'.from <= checkpoint'
  <2>1. ASSUME NEW b, b = preparing, b # NoBatch PROVE BatchOf(b)' /\ b \in Batches /\ b.from <= checkpoint
    BY <1>4, <2>1, ReplicaFacts
  <2> QED BY <1>1, <2>1 DEF BatchOf
<1>7. CASE RegistryMoves \/ RevokeReplica
  <2>1. UNCHANGED <<binding, copy, cursor, batches, acks, kept>> /\ peerEpoch' = peerEpoch + 1 /\ peerEpoch < MaxPeerEpoch
        /\ peerActive' \in BOOLEAN
    BY <1>7, ReplicaFacts DEF RegistryMoves, RevokeReplica, replica
  <2>2. ReplicaIsPrefix' /\ ReplicaOK'
    BY <1>1, <1>2, <2>1, ReplicaFacts DEF ReplicaIsPrefix, ReplicaOK
  <2>3. binding' # peerEpoch'
    BY <2>1, ReplicaFacts
  <2>4. CheckpointCanCatchUp'
    BY <2>3 DEF CheckpointCanCatchUp
  <2>5. binding' \in 1 .. peerEpoch' /\ cursor' \in 0 .. peerEpoch' /\ peerEpoch' \in 1 .. MaxPeerEpoch
    BY <1>3, <2>1, ReplicaFacts
  <2> QED BY <1>1, <1>5, <1>6, <2>1, <2>2, <2>4, <2>5, ReplicaFacts, ReplicaAgain
<1>8. CASE Rebind
  <2>1. /\ binding # peerEpoch /\ binding' = peerEpoch
        /\ UNCHANGED <<peerEpoch, peerActive, copy, cursor, batches, acks, kept>>
    BY <1>8 DEF Rebind, authority
  <2>2. ReplicaIsPrefix' /\ cursor < peerEpoch
    BY <1>1, <1>2, <2>1, ReplicaFacts DEF ReplicaIsPrefix
  <2>3. ReplicaOK'
    BY <1>1, <2>1, <2>2, ReplicaFacts DEF ReplicaOK
  <2>4. CheckpointCanCatchUp'
    <3>1. kept /\ cursor = 0 => checkpoint = Len(copy)
      BY ReplicaFacts
    <3> QED BY <1>1, <2>1, <2>2, <3>1, ReplicaFacts DEF CheckpointCanCatchUp
  <2>5. binding' \in 1 .. peerEpoch' /\ cursor' \in 0 .. peerEpoch' /\ peerEpoch' \in 1 .. MaxPeerEpoch
    BY <1>3, <2>1, ReplicaFacts
  <2> QED BY <1>1, <1>5, <1>6, <2>1, <2>2, <2>3, <2>4, <2>5, ReplicaFacts, ReplicaAgain
<1>9. CASE Discard
  <2>1. /\ copy' = <<>> /\ cursor' = 0 /\ batches' = {} /\ kept' = FALSE
        /\ UNCHANGED <<peerEpoch, peerActive, binding, acks>>
    BY <1>9 DEF Discard, authority
  <2>2. copy' \in Seq(Transferred) /\ Len(copy') = 0
    BY <2>1
  <2>3. ReplicaIsPrefix'
    <3>1. TransferOf(0, 0) \in Seq(Transferred) /\ Len(TransferOf(0, 0)) = 0 - 0
      BY ReplicaFacts, TransferType
    <3>2. TransferOf(0, 0) = <<>>
      BY <3>1
    <3>3. TransferOf(0, Len(copy))' = TransferOf(0, 0)
      BY <1>1, <2>2 DEF TransferOf
    <3> QED BY <1>1, <2>1, <2>2, <3>2, <3>3, ReplicaFacts DEF ReplicaIsPrefix
  <2>4. ReplicaOK' /\ CheckpointCanCatchUp'
    BY <2>1, ReplicaFacts DEF ReplicaOK, CheckpointCanCatchUp
  <2>5. cursor' \in 0 .. peerEpoch' /\ batches' \subseteq exports'
    BY <1>3, <2>1
  <2> QED BY <1>1, <1>5, <1>6, <2>1, <2>2, <2>3, <2>4, <2>5, ReplicaFacts, ReplicaAgain
<1>10. ASSUME NEW b \in exports, ApplyAgain(b) PROVE ReplicaInv'
  <2>1. /\ b \in batches /\ acks' = acks \cup {[batch |-> b, applied |-> Len(copy)]}
        /\ UNCHANGED <<peerEpoch, peerActive, binding, copy, cursor, batches, kept>>
    BY <1>10 DEF ApplyAgain, authority, replica
  <2>2. ReplicaIsPrefix'
    BY <1>1, <1>2, <2>1, ReplicaFacts DEF ReplicaIsPrefix
  <2>3. [batch |-> b, applied |-> Len(copy)].batch = b /\ [batch |-> b, applied |-> Len(copy)].applied = Len(copy)
    OBVIOUS
  <2>4. Len(copy) \in b.to .. Len(stream)
    BY <2>1, ReplicaFacts DEF Batches
  <2>5. \A ack \in acks' : ack.batch \in exports' /\ ack.applied \in ack.batch.to .. Len(stream')
    BY <1>1, <2>1, <2>3, <2>4, ReplicaFacts
  <2>6. ReplicaOK'
    BY <1>1, <2>1, <2>3, ReplicaFacts DEF ReplicaOK
  <2>7. CheckpointCanCatchUp'
    BY <1>1, <2>1 DEF ReplicaInv, ReplicaIsSound, CheckpointCanCatchUp
  <2> QED BY <1>1, <1>5, <1>6, <2>1, <2>2, <2>5, <2>6, <2>7, ReplicaFacts, ReplicaAgain
<1> QED BY <1>7, <1>8, <1>9, <1>10

\* Every step of the authority and the replica keeps the invariant.
LEMMA ReplicaStep ==
  ASSUME ReplicaInv, [ReplicaNext]_replicaVars
  PROVE  ReplicaInv' /\ CheckpointAdvances /\ ExportsAreCurrent
<1>1. ReplicaInv'
  <2>1. CASE UNCHANGED replicaVars
    <3>1. UNCHANGED <<stream, peerEpoch, peerActive, checkpoint, exports, preparing, binding, copy, cursor, batches, acks, kept>>
      BY <2>1 DEF replicaVars, authority, replica
    <3>2. \A from, to : TransferOf(from, to)' = TransferOf(from, to)
      BY <3>1 DEF TransferOf
    <3>3. \A b : BatchOf(b)' <=> BatchOf(b)
      BY <3>1, <3>2 DEF BatchOf
    <3>4. ReplicaIsPrefix' /\ ReplicaOK' /\ CheckpointCanCatchUp'
      BY <3>1, <3>2, ReplicaFacts DEF ReplicaInv, ReplicaIsSound, ReplicaIsPrefix, ReplicaOK, CheckpointCanCatchUp
    <3>5. preparing' # NoBatch => BatchOf(preparing)' /\ preparing' \in Batches /\ preparing'.from <= checkpoint'
      BY <3>1, <3>3, ReplicaFacts DEF BatchOf
    <3> QED BY <3>1, <3>3, <3>4, <3>5, ReplicaFacts, ReplicaAgain
  <2> QED BY <2>1, Append1Step, AcknowledgeStep, ExportStep, ApplyStep, OwnerStep DEF ReplicaNext
<1>2. CheckpointAdvances
  <2>1. checkpoint' = checkpoint \/ \E ack \in acks : Acknowledge(ack)
    BY DEF ReplicaNext, Append1, RegistryMoves, RevokeReplica, PrepareExport, RecordExport, ExportRefused, Apply, ApplyAgain,
       Rebind, Discard, authority, replicaVars
  <2> QED BY <2>1, AcknowledgeStep, ReplicaFacts DEF CheckpointAdvances
<1>3. ExportsAreCurrent
  <2>1. exports' = exports \/ RecordExport
    BY DEF ReplicaNext, Append1, RegistryMoves, RevokeReplica, PrepareExport, ExportRefused, Acknowledge, Apply, ApplyAgain,
       Rebind, Discard, authority, replicaVars
  <2> QED BY <2>1, ExportStep DEF ExportsAreCurrent
<1> QED BY <1>1, <1>2, <1>3

\* Before the first export.
LEMMA ReplicaInitInv == ReplicaInit => ReplicaInv
<1> SUFFICES ASSUME ReplicaInit PROVE ReplicaInv
  OBVIOUS
<1>1. /\ stream = <<"raw", "bound">> /\ peerEpoch = 1 /\ peerActive = TRUE
      /\ checkpoint = 0 /\ exports = {} /\ preparing = NoBatch
      /\ binding = 1 /\ copy = <<>> /\ cursor = 0 /\ batches = {} /\ acks = {} /\ kept = TRUE
  BY DEF ReplicaInit
<1>2. stream \in Seq(Kinds) /\ Len(stream) = 2
  BY <1>1 DEF Kinds, Raw
<1>3. MaxStream \in Nat /\ 2 <= MaxStream /\ MaxPeerEpoch \in Nat /\ 1 <= MaxPeerEpoch
  BY ReplicaAssumption DEF ReplicaAssumption
<1>4. copy \in Seq(Transferred) /\ Len(copy) = 0
  BY <1>1
<1>5. ReplicaTypeOK
  BY <1>1, <1>2, <1>3, <1>4 DEF ReplicaTypeOK
<1>6. ReplicaIsPrefix
  <2>1. TransferOf(0, 0) = <<>>
    <3>1. 0 \in Nat /\ 0 <= 0 /\ 0 <= Len(stream) /\ stream \in Seq(Kinds)
      BY <1>2
    <3>2. TransferOf(0, 0) \in Seq(Transferred) /\ Len(TransferOf(0, 0)) = 0 - 0
      BY <3>1, TransferType
    <3> QED BY <3>2
  <2> QED BY <1>1, <1>2, <1>4, <2>1 DEF ReplicaIsPrefix
<1> QED BY <1>1, <1>4, <1>5, <1>6 DEF ReplicaInv, ReplicaIsSound, RawStaysHome, CheckpointCanCatchUp, ExportsOK, ReplicaOK

\* export_replication, ReplicaSqliteStore::apply, acknowledge_replication:
\* whatever is lost, repeated, late or thrown away, the replica holds a prefix
\* of the stream, redacted, and the checkpoint can catch up with it.
THEOREM ReplicaStaysSound == PeersSpec => []ReplicaIsSound
<1>1. PeersInit => ReplicaInv
  BY ReplicaInitInv DEF PeersInit
<1>2. ReplicaInv /\ [PeersNext]_peersVars => ReplicaInv'
  BY ServicesStep, ReplicaStep
<1>3. ReplicaInv => ReplicaIsSound
  BY DEF ReplicaInv
<1> QED BY <1>1, <1>2, <1>3, PTL DEF PeersSpec

\* accept_retention_receipt: the first receipt is the answer.
LEMMA RetentionStep ==
  ASSUME [CustodyNext]_custodyVars
  PROVE  RetentionIsFinal
<1>1. Receipts \cap {"none", "requested"} = {}
  BY CustodyAssumption DEF CustodyAssumption
<1> QED BY <1>1 DEF CustodyNext, custodyVars, RunGoesOn, ValidateCheckpoint, RecordCheckpoint, ValidateHandoff, RecordHandoff,
           AppendRequested, AppendResolved, RequestRetention, AcceptReceipt, TakesReceipt, AcceptSignal, CustodyCrash, RetentionIsFinal

\* validate_federation_transition, export_replication, accept_retention_receipt:
\* the checkpoint only advances, every export is current when it is recorded,
\* and a retention receipt is final.
THEOREM PeersAlwaysAdvance == PeersSpec => PeersOnlyAdvance
<1>1. PeersInit => ReplicaInv
  BY ReplicaInitInv DEF PeersInit
<1>2. ReplicaInv /\ [PeersNext]_peersVars => ReplicaInv' /\ CheckpointAdvances /\ ExportsAreCurrent
  BY ServicesStep, ReplicaStep
<1>3. [PeersNext]_peersVars => RetentionIsFinal
  BY ServicesStep, RetentionStep
<1> QED BY <1>1, <1>2, <1>3, PTL DEF PeersSpec, PeersOnlyAdvance
-----------------------------------------------------------------------------
(* The gateway                                                             *)

\* A nonce and a signal are in the store before what they let through is done.
ClaimsOK ==
  \A x \in executed : /\ x.purpose = "control" => x.ref \in nonces
                      /\ x.purpose = "signal" => x.ref \in claimedSignals

\* A worker goes on only with a request that began on a live channel.
WorkersOK ==
  /\ ops = [w \in Workers |-> ops[w]]
  /\ \A w \in Workers : ops[w].stage \in {"checked", "authorised"} =>
       "stage" \in DOMAIN ops[w] /\ "live" \in DOMAIN ops[w] /\ ops[w].live = TRUE

\* What waits for a thread was authorised when it came.
RequestsOK ==
  \A r \in inFlight : /\ r.bearer /\ (r.command \in Reads \/ r.origin)
                      /\ r.until \in Nat

\* The window counts the last requests admitted.  The ones before it came before
\* it started, and all but RateLimit of these a whole window before.
CountsIn(current) ==
  /\ current \in [started : Nat, count : Nat]
  /\ current.started <= gNow /\ current.count <= RateLimit /\ current.count <= Len(admitted)
  /\ \A i \in 1..Len(admitted) :
       /\ admitted[i] <= gNow /\ admitted[i] < current.started + RateWindow
       /\ i + current.count <= Len(admitted) => admitted[i] < current.started
       /\ i + current.count + RateLimit <= Len(admitted) => admitted[i] + RateWindow <= current.started

WindowOK == admitted \in Seq(Nat) /\ gNow \in Nat /\ CountsIn(window)

\* Requests are admitted in the order of time, and the one that comes 2 * RateLimit
\* later comes a whole window later.
AdmittedApart ==
  \A i, j \in 1..Len(admitted) :
    /\ i <= j => admitted[i] <= admitted[j]
    /\ i + 2 * RateLimit <= j => admitted[i] + RateWindow <= admitted[j]

ClaimsInv == ClaimedOnce /\ ChannelsDieWithTheirGrant /\ ClaimsOK /\ WorkersOK
TrustInv == TrustIsAuthenticated /\ messages = [k \in MessageKeys |-> messages[k]]
ControlInv == ControlIsOwners /\ RequestsOK
RateInv == WindowOK /\ AdmittedApart

GatewayInv == ClaimsInv /\ TrustInv /\ ControlInv /\ RateInv
GatewayNext == ChannelNext \/ MessageNext \/ RateNext

\* A worker's operation with another stage.
LEMMA StageMoves ==
  ASSUME NEW op, NEW stage, "stage" \in DOMAIN op, "live" \in DOMAIN op
  PROVE  /\ [op EXCEPT !.stage = stage].stage = stage
         /\ [op EXCEPT !.stage = stage].live = op.live
         /\ DOMAIN [op EXCEPT !.stage = stage] = DOMAIN op
OBVIOUS

\* validate_channel, claim_control_nonce, claim_device_signal: a request goes on
\* from a live channel, and only the first of a nonce or a signal is executed.
LEMMA ClaimsStep ==
  ASSUME ClaimsInv, [GatewayNext]_gatewayVars
  PROVE  ClaimsInv'
<1>1. /\ ClaimedOnce /\ ChannelsDieWithTheirGrant /\ ClaimsOK
      /\ ops = [w \in Workers |-> ops[w]]
      /\ \A w \in Workers : ops[w].stage \in {"checked", "authorised"} =>
           "stage" \in DOMAIN ops[w] /\ "live" \in DOMAIN ops[w] /\ ops[w].live = TRUE
  BY DEF ClaimsInv, WorkersOK
<1>2. CASE UNCHANGED <<ops, nonces, claimedSignals, executed>>
  BY <1>1, <1>2 DEF ClaimsInv, ClaimedOnce, ChannelsDieWithTheirGrant, ClaimsOK, WorkersOK
<1>3. CASE /\ UNCHANGED <<nonces, claimedSignals, executed>>
           /\ \E w \in Workers : \E op :
                                     /\ ops' = [ops EXCEPT ![w] = op]
                                     /\ op.stage \in {"checked", "authorised"} =>
                                          "stage" \in DOMAIN op /\ "live" \in DOMAIN op /\ op.live = TRUE
  <2>1. PICK w, op :
        /\ w \in Workers /\ ops' = [ops EXCEPT ![w] = op]
        /\ op.stage \in {"checked", "authorised"} =>
             "stage" \in DOMAIN op /\ "live" \in DOMAIN op /\ op.live = TRUE
    BY <1>3
  <2>2. ops' = [v \in Workers |-> ops'[v]] /\ \A v \in Workers : ops'[v] = IF v = w THEN op ELSE ops[v]
    BY <1>1, <2>1
  <2>3. WorkersOK'
    BY <1>1, <2>1, <2>2 DEF WorkersOK
  <2> QED BY <1>1, <1>3, <2>3 DEF ClaimsInv, ClaimedOnce, ChannelsDieWithTheirGrant, ClaimsOK
<1>4. ASSUME NEW w \in Workers, NEW ch, NEW purpose, NEW ref, BeginOp(w, ch, purpose, ref)
      PROVE  ClaimsInv'
  <2>1. Live(ch)
    BY <1>4 DEF BeginOp, ValidChannel, Active, Live
  <2>2. Live(ch) = TRUE
    BY <2>1 DEF Live
  <2>3. PICK op : op = [stage |-> "checked", purpose |-> purpose, peer |-> ch.peer, ref |-> ref, at |-> gNow, live |-> TRUE]
    OBVIOUS
  <2>4. UNCHANGED <<nonces, claimedSignals, executed>>
    BY <1>4 DEF BeginOp
  <2>5. "stage" \in DOMAIN op /\ "live" \in DOMAIN op /\ op.live = TRUE
    BY <2>3
  <2>6. ops' = [ops EXCEPT ![w] = op]
    BY <1>4, <2>2, <2>3 DEF BeginOp
  <2> QED BY <1>3, <2>4, <2>5, <2>6
<1>5. ASSUME NEW w \in Workers, AuthoriseOp(w)
      PROVE  ClaimsInv'
  <2>1. UNCHANGED <<nonces, claimedSignals, executed>> /\ ops[w].stage = "checked"
    BY <1>5 DEF AuthoriseOp
  <2>2. CASE ops' = [ops EXCEPT ![w] = IdleWorker]
    <3>1. IdleWorker.stage = "idle"
      BY DEF IdleWorker
    <3> QED BY <1>3, <2>1, <2>2, <3>1
  <2>3. CASE ops' = [ops EXCEPT ![w] = [@ EXCEPT !.stage = "authorised"]]
    <3>1. "stage" \in DOMAIN ops[w] /\ "live" \in DOMAIN ops[w] /\ ops[w].live = TRUE
      BY <1>1, <2>1
    <3>2. PICK op : op = [ops[w] EXCEPT !.stage = "authorised"]
      OBVIOUS
    <3>3. op.live = TRUE /\ DOMAIN op = DOMAIN ops[w]
      BY <3>1, <3>2, StageMoves
    <3>4. ops' = [ops EXCEPT ![w] = op]
      BY <2>3, <3>2
    <3> QED BY <1>3, <2>1, <3>1, <3>3, <3>4
  <2> QED BY <1>5, <2>2, <2>3 DEF AuthoriseOp
<1>6. ASSUME NEW w \in Workers, ClaimNonce(w) \/ ClaimSignal(w), executed' # executed
      PROVE  ClaimsInv'
  <2>1. PICK purpose, ref, n : /\ executed' = executed \cup {[n |-> n, purpose |-> purpose, ref |-> ref, live |-> TRUE]}
                               /\ \/ purpose = "control" /\ ref \notin nonces /\ nonces' = nonces \cup {ref} /\ claimedSignals' = claimedSignals
                                  \/ purpose = "signal" /\ ref \notin claimedSignals /\ claimedSignals' = claimedSignals \cup {ref} /\ nonces' = nonces
    <3>1. /\ ops[w].stage = "authorised"
          /\ executed' = executed \cup {[n |-> Cardinality(executed), purpose |-> ops[w].purpose, ref |-> ops[w].ref, live |-> ops[w].live]}
          /\ \/ ops[w].purpose = "control" /\ ops[w].ref \notin nonces /\ nonces' = nonces \cup {ops[w].ref} /\ claimedSignals' = claimedSignals
             \/ /\ ops[w].purpose = "signal" /\ ops[w].ref \notin claimedSignals
                /\ claimedSignals' = claimedSignals \cup {ops[w].ref} /\ nonces' = nonces
      BY <1>6 DEF ClaimNonce, ClaimSignal, Executed
    <3>2. ops[w].live = TRUE
      BY <1>1, <3>1
    <3> QED BY <3>1, <3>2
  <2>2. ClaimedOnce' /\ ChannelsDieWithTheirGrant' /\ ClaimsOK'
    <3>1. PICK new : new = [n |-> n, purpose |-> purpose, ref |-> ref, live |-> TRUE]
      OBVIOUS
    <3>2. /\ executed' = executed \cup {new} /\ new.purpose = purpose /\ new.ref = ref /\ new.live = TRUE
      BY <2>1, <3>1
    <3>3. ASSUME NEW x \in executed PROVE ~(x.purpose = new.purpose /\ x.ref = new.ref)
      BY <1>1, <2>1, <3>2 DEF ClaimsOK
    <3>4. ClaimedOnce'
      BY <1>1, <3>2, <3>3 DEF ClaimedOnce
    <3>5. ChannelsDieWithTheirGrant'
      BY <1>1, <3>2 DEF ChannelsDieWithTheirGrant
    <3>6. ClaimsOK'
      BY <1>1, <2>1, <3>2 DEF ClaimsOK
    <3> QED BY <3>4, <3>5, <3>6
  <2>3. WorkersOK'
    <3>1. PICK op : ops' = [ops EXCEPT ![w] = op] /\ op.stage \notin {"checked", "authorised"}
      <4>1. [ops[w] EXCEPT !.stage = "executes"].stage = "executes"
        <5>1. ops[w].stage \in {"checked", "authorised"}
          BY <1>6 DEF ClaimNonce, ClaimSignal
        <5> QED BY <1>1, <5>1
      <4>2. IdleWorker.stage = "idle"
        BY DEF IdleWorker
      <4> QED BY <1>6, <4>1, <4>2 DEF ClaimNonce, ClaimSignal
    <3>2. ops' = [v \in Workers |-> ops'[v]] /\ \A v \in Workers : ops'[v] = IF v = w THEN op ELSE ops[v]
      BY <1>1, <3>1
    <3> QED BY <1>1, <3>1, <3>2 DEF WorkersOK
  <2> QED BY <2>2, <2>3 DEF ClaimsInv
<1>7. ASSUME NEW w \in Workers, ClaimNonce(w) \/ ClaimSignal(w), executed' = executed
      PROVE  ClaimsInv'
  <2>1. IdleWorker.stage = "idle" /\ [ops[w] EXCEPT !.stage = "executes"].stage = "executes"
    <3>1. ops[w].stage \in {"checked", "authorised"}
      BY <1>7 DEF ClaimNonce, ClaimSignal
    <3> QED BY <1>1, <3>1 DEF IdleWorker
  <2>2. PICK op : ops' = [ops EXCEPT ![w] = op] /\ op.stage \notin {"checked", "authorised"}
    BY <1>7, <2>1 DEF ClaimNonce, ClaimSignal
  <2>3. ops' = [v \in Workers |-> ops'[v]] /\ \A v \in Workers : ops'[v] = IF v = w THEN op ELSE ops[v]
    BY <1>1, <2>2
  <2>4. WorkersOK'
    BY <1>1, <2>2, <2>3 DEF WorkersOK
  <2>5. nonces \subseteq nonces' /\ claimedSignals \subseteq claimedSignals'
    BY <1>7 DEF ClaimNonce, ClaimSignal
  <2> QED BY <1>1, <1>7, <2>4, <2>5 DEF ClaimsInv, ClaimedOnce, ChannelsDieWithTheirGrant, ClaimsOK
<1>8. ASSUME NEW w \in Workers, NEW p, ReadsVersion(w, p)
      PROVE  ClaimsInv'
  <2>1. PICK op : op = [stage |-> "appends", target |-> p, expected |-> peerVersion]
    OBVIOUS
  <2>2. op.stage = "appends"
    BY <2>1
  <2>3. ops' = [ops EXCEPT ![w] = op] /\ UNCHANGED <<nonces, claimedSignals, executed>>
    BY <1>8, <2>1 DEF ReadsVersion
  <2> QED BY <1>3, <2>2, <2>3
<1>9. ASSUME NEW w \in Workers, AppendsRevocation(w)
      PROVE  ClaimsInv'
  <2>1. ops' = [ops EXCEPT ![w] = IdleWorker] /\ UNCHANGED <<nonces, claimedSignals, executed>>
    BY <1>9 DEF AppendsRevocation
  <2>2. IdleWorker.stage = "idle"
    BY DEF IdleWorker
  <2> QED BY <1>3, <2>1, <2>2
<1>10. CASE GatewayRestart
  <2>1. ops' = [w \in Workers |-> IdleWorker] /\ UNCHANGED <<nonces, claimedSignals, executed>>
    BY <1>10 DEF GatewayRestart
  <2>2. IdleWorker.stage = "idle"
    BY DEF IdleWorker
  <2>3. WorkersOK'
    BY <2>1, <2>2 DEF WorkersOK
  <2> QED BY <1>1, <2>1, <2>3 DEF ClaimsInv, ClaimedOnce, ChannelsDieWithTheirGrant, ClaimsOK
<1>11. \/ UNCHANGED <<ops, nonces, claimedSignals, executed>>
       \/ \E w \in Workers : \/ \E ch, purpose, ref : BeginOp(w, ch, purpose, ref)
                             \/ AuthoriseOp(w) \/ ClaimNonce(w) \/ ClaimSignal(w) \/ AppendsRevocation(w)
                             \/ \E p : ReadsVersion(w, p)
       \/ GatewayRestart
  BY DEF GatewayNext, ChannelNext, MessageNext, RateNext, gatewayVars, peerVars, RegisterPeer, RevokePeer, BindChannel, GatewayTick,
         SubmitMessage, Admit, Counted, ControlRuns, SubmitRun, ControlPackages, ControlStrategies, ControlEvaluations, ControlJobs, Controlled
<1> QED BY <1>2, <1>4, <1>5, <1>6, <1>7, <1>8, <1>9, <1>10, <1>11
\* submit_event_with_auth: a message's provenance is given once, from who was
\* authenticated.
LEMMA TrustStep ==
  ASSUME TrustInv, [GatewayNext]_gatewayVars
  PROVE  TrustInv'
<1>1. CASE UNCHANGED messages
  BY <1>1 DEF TrustInv, TrustIsAuthenticated
<1>2. ASSUME NEW key \in MessageKeys, NEW m, NEW a, SubmitMessage(key, m, a)
      PROVE  TrustInv'
  <2>1. PICK r : r = GatewayProvenance(m, a)
    OBVIOUS
  <2>2. messages' = [messages EXCEPT ![key] = r]
    BY <1>2, <2>1 DEF SubmitMessage
  <2>3. messages' = [k \in MessageKeys |-> messages'[k]] /\ \A k \in MessageKeys : messages'[k] = IF k = key THEN r ELSE messages[k]
    BY <2>2 DEF TrustInv
  <2>4. /\ r.tier = "owner input" => r.by.kind = "owner" /\ r.by.id = "owner"
        /\ r.tier = "verified" => r.by.id = "owner"
        /\ r.tier = "untrusted" => r.by.kind = "external" /\ r.actor = r.by.id
    <3>1. CASE m.kind = "owner"
      <4>1. r = [by |-> a, actor |-> "owner", tier |-> "owner input"]
        BY <2>1, <3>1 DEF GatewayProvenance
      <4>2. a.kind = "owner" /\ a.id = "owner"
        BY <1>2, <3>1 DEF SubmitMessage, MatchesPrincipal
      <4> QED BY <4>1, <4>2
    <3>2. CASE m.kind = "agent for owner"
      <4>1. r = [by |-> a, actor |-> "system", tier |-> "verified"]
        BY <2>1, <3>2 DEF GatewayProvenance
      <4>2. a.id = "owner"
        BY <1>2, <3>2 DEF SubmitMessage, MatchesPrincipal
      <4> QED BY <4>1, <4>2
    <3>3. CASE m.kind \notin {"owner", "agent for owner"}
      <4>1. r = [by |-> a, actor |-> m.id, tier |-> "untrusted"]
        BY <2>1, <3>3 DEF GatewayProvenance
      <4>2. a.kind = "external" /\ a.id = m.id
        BY <1>2, <3>3 DEF SubmitMessage, MatchesPrincipal
      <4> QED BY <4>1, <4>2
    <3> QED BY <3>1, <3>2, <3>3
  <2>5. TrustIsAuthenticated'
    BY <2>3, <2>4 DEF TrustInv, TrustIsAuthenticated
  <2> QED BY <2>3, <2>5 DEF TrustInv
<1>3. UNCHANGED messages \/ \E key \in MessageKeys : \E m, a : SubmitMessage(key, m, a)
  BY DEF GatewayNext, ChannelNext, MessageNext, RateNext, gatewayVars, peerVars, RegisterPeer, RevokePeer, BindChannel, BeginOp,
         AuthoriseOp, ClaimNonce, ClaimSignal, ReadsVersion, AppendsRevocation, GatewayTick, GatewayRestart, Admit, Counted,
         ControlRuns, SubmitRun, ControlPackages, ControlStrategies, ControlEvaluations, ControlJobs, Controlled
<1> QED BY <1>1, <1>2, <1>3

\* HttpState::authorize, validate_owner_control: authorised when it comes, and
\* not expired when it is performed.
LEMMA ControlStep ==
  ASSUME ControlInv, gNow \in Nat, [GatewayNext]_gatewayVars
  PROVE  ControlInv'
<1>1. AuthTtl \in Nat
  BY GatewayAssumption DEF GatewayAssumption
<1>2. CASE UNCHANGED <<inFlight, controlled>>
  BY <1>2 DEF ControlInv, ControlIsOwners, RequestsOK
<1>3. ASSUME NEW current, NEW c, NEW bearer \in BOOLEAN, NEW origin \in BOOLEAN, Counted(current, c, bearer, origin)
      PROVE  ControlInv'
  <2>1. controlled' = controlled
    BY <1>3 DEF Counted
  <2>2. PICK r : r = [command |-> c, bearer |-> bearer, origin |-> origin, until |-> gNow + AuthTtl]
    OBVIOUS
  <2>3. inFlight' = inFlight \/ (AuthorizeRequest(c, bearer, origin) /\ inFlight' = inFlight \cup {r})
    BY <1>3, <2>2 DEF Counted
  <2>4. AuthorizeRequest(c, bearer, origin) => r.bearer /\ (r.command \in Reads \/ r.origin) /\ r.until \in Nat
    <3>1. r.command = c /\ r.bearer = bearer /\ r.origin = origin /\ r.until = gNow + AuthTtl
      BY <2>2
    <3>2. gNow + AuthTtl \in Nat
      BY <1>1
    <3>3. AuthorizeRequest(c, bearer, origin) => bearer = TRUE /\ (c \in Reads \/ origin = TRUE)
      BY DEF AuthorizeRequest
    <3> QED BY <3>1, <3>2, <3>3
  <2>5. RequestsOK'
    BY <2>3, <2>4 DEF ControlInv, RequestsOK
  <2> QED BY <2>1, <2>5 DEF ControlInv, ControlIsOwners
<1>4. ASSUME NEW r \in inFlight, NEW commands, Controlled(r, commands)
      PROVE  ControlInv'
  <2>1. inFlight' \subseteq inFlight
    BY <1>4 DEF Controlled
  <2>2. r.bearer /\ (r.command \in Reads \/ r.origin) /\ r.until \in Nat
    BY DEF ControlInv, RequestsOK
  <2>3. CASE ValidateOwnerControl(r)
    <3>1. PICK proven, expired :
            /\ proven = (r.bearer /\ (r.command \in Reads \/ r.origin)) /\ expired = (r.until <= gNow)
            /\ controlled' = [command |-> r.command, proven |-> proven, expired |-> expired]
      BY <1>4, <2>3 DEF Controlled
    <3>2. proven /\ ~expired
      <4>1. ~(r.until <= gNow)
        BY <2>2, <2>3 DEF ValidateOwnerControl
      <4> QED BY <2>2, <3>1, <4>1
    <3>3. controlled'.proven = proven /\ controlled'.expired = expired
      BY <3>1
    <3>4. ControlIsOwners'
      BY <3>2, <3>3 DEF ControlIsOwners
    <3> QED BY <2>1, <3>4 DEF ControlInv, RequestsOK
  <2>4. CASE ~ValidateOwnerControl(r)
    <3>1. controlled' = controlled
      BY <1>4, <2>4 DEF Controlled
    <3> QED BY <2>1, <3>1 DEF ControlInv, ControlIsOwners, RequestsOK
  <2> QED BY <2>3, <2>4
<1>5. CASE inFlight' \subseteq inFlight /\ UNCHANGED controlled
  BY <1>5 DEF ControlInv, ControlIsOwners, RequestsOK
<1>6. \/ inFlight' \subseteq inFlight /\ UNCHANGED controlled
      \/ \E c \in Commands, bearer, origin \in BOOLEAN : Admit(c, bearer, origin)
      \/ \E r \in inFlight : \E commands : Controlled(r, commands)
  BY DEF GatewayNext, ChannelNext, MessageNext, RateNext, gatewayVars, serverVars, RegisterPeer, RevokePeer, BindChannel, BeginOp,
         AuthoriseOp, ClaimNonce, ClaimSignal, ReadsVersion, AppendsRevocation, GatewayTick, GatewayRestart, SubmitMessage,
         ControlRuns, SubmitRun, ControlPackages, ControlStrategies, ControlEvaluations, ControlJobs
<1>7. ASSUME NEW c \in Commands, NEW bearer \in BOOLEAN, NEW origin \in BOOLEAN, Admit(c, bearer, origin)
      PROVE  ControlInv'
  BY <1>3, <1>7 DEF Admit
<1> QED BY <1>4, <1>5, <1>6, <1>7

\* Counting one more moves both ends of the window.
LEMMA CountsShift ==
  ASSUME NEW i \in Nat, NEW n \in Nat, NEW c \in Nat, NEW l \in Nat
  PROVE  /\ i + (c + 1) <= n + 1 <=> i + c <= n
         /\ i + (c + 1) + l <= n + 1 <=> i + c + l <= n
OBVIOUS

\* What lies twice the limit back is before the last two windows.
LEMMA BeforeTwoWindows ==
  ASSUME NEW i \in Nat \ {0}, NEW n \in Nat, NEW c \in Nat, NEW l \in Nat \ {0}, i + 2 * l <= n + 1, c + 1 <= l
  PROVE  i \in 1..n /\ i + c + l <= n
OBVIOUS

\* A window with one request more.
LEMMA CountOneMore ==
  ASSUME NEW current \in [started : Nat, count : Nat], NEW count \in Nat
  PROVE  [current EXCEPT !.count = count] = [started |-> current.started, count |-> count]
OBVIOUS

\* A request counted in a window that holds for the time being.
LEMMA CountedStep ==
  ASSUME NEW current, CountsIn(current), current.count < RateLimit, gNow < current.started + RateWindow,
         admitted \in Seq(Nat), gNow \in Nat, AdmittedApart,
         window' = [started |-> current.started, count |-> current.count + 1],
         admitted' = Append(admitted, gNow), gNow' = gNow
  PROVE  RateInv'
<1>1. RateLimit \in Nat /\ RateWindow \in Nat
  BY GatewayAssumption DEF GatewayAssumption
<1>2. PICK started \in Nat, count \in Nat :
        /\ started = current.started /\ count = current.count /\ current = [started |-> started, count |-> count]
        /\ started <= gNow /\ gNow < started + RateWindow /\ count + 1 <= RateLimit /\ count <= Len(admitted)
        /\ \A i \in 1..Len(admitted) :
             /\ admitted[i] <= gNow /\ admitted[i] < started + RateWindow
             /\ i + count <= Len(admitted) => admitted[i] < started
             /\ i + count + RateLimit <= Len(admitted) => admitted[i] + RateWindow <= started
  <2>1. current.count \in Nat /\ current.started \in Nat /\ current = [started |-> current.started, count |-> current.count]
    BY DEF CountsIn
  <2>2. current.count + 1 <= RateLimit
    BY <1>1, <2>1
  <2> QED BY <2>1, <2>2 DEF CountsIn
<1>3. window' = [started |-> started, count |-> count + 1]
  BY <1>2
<1>4. /\ admitted' \in Seq(Nat) /\ Len(admitted') = Len(admitted) + 1 /\ Len(admitted) \in Nat
      /\ \A i \in 1..Len(admitted) : admitted'[i] = admitted[i]
      /\ admitted'[Len(admitted) + 1] = gNow
  OBVIOUS
<1>5. \A i \in 1..Len(admitted) : admitted[i] \in Nat
  OBVIOUS
<1>6. ASSUME NEW i \in 1..Len(admitted')
      PROVE  /\ admitted'[i] <= gNow /\ admitted'[i] < started + RateWindow
             /\ i + (count + 1) <= Len(admitted') => admitted'[i] < started
             /\ i + (count + 1) + RateLimit <= Len(admitted') => admitted'[i] + RateWindow <= started
  <2>1. CASE i = Len(admitted) + 1
    BY <1>1, <1>2, <1>4, <2>1
  <2>2. CASE i # Len(admitted) + 1
    <3>1. i \in 1..Len(admitted) /\ admitted'[i] = admitted[i]
      BY <1>4, <2>2
    <3>2. PICK a \in Nat, n \in Nat :
            /\ a = admitted[i] /\ n = Len(admitted) /\ a <= gNow /\ a < started + RateWindow
            /\ i + count <= n => a < started
            /\ i + count + RateLimit <= n => a + RateWindow <= started
      BY <1>2, <1>4, <1>5, <3>1
    <3>3. Len(admitted') = n + 1 /\ admitted'[i] = a /\ i \in Nat
      BY <1>4, <3>1, <3>2
    <3>4. (i + (count + 1) <= n + 1 <=> i + count <= n) /\ (i + (count + 1) + RateLimit <= n + 1 <=> i + count + RateLimit <= n)
      BY <1>1, <3>3, CountsShift
    <3> QED BY <3>2, <3>3, <3>4
  <2> QED BY <2>1, <2>2
<1>7. WindowOK'
  <2>1. window'.started = started /\ window'.count = count + 1 /\ window' \in [started : Nat, count : Nat]
    BY <1>3
  <2>2. started <= gNow /\ count + 1 <= RateLimit /\ count + 1 <= Len(admitted')
    BY <1>1, <1>2, <1>4
  <2>3. gNow' \in Nat
    OBVIOUS
  <2>4. \A i \in 1..Len(admitted') :
          /\ admitted'[i] <= gNow' /\ admitted'[i] < window'.started + RateWindow
          /\ i + window'.count <= Len(admitted') => admitted'[i] < window'.started
          /\ i + window'.count + RateLimit <= Len(admitted') => admitted'[i] + RateWindow <= window'.started
    BY <1>6, <2>1
  <2> QED BY <1>4, <2>1, <2>2, <2>3, <2>4 DEF WindowOK, CountsIn
<1>8. ASSUME NEW i \in 1..Len(admitted'), NEW j \in 1..Len(admitted')
      PROVE  /\ i <= j => admitted'[i] <= admitted'[j]
             /\ i + 2 * RateLimit <= j => admitted'[i] + RateWindow <= admitted'[j]
  <2>1. CASE j = Len(admitted) + 1
    <3>1. admitted'[j] = gNow
      BY <1>4, <2>1
    <3>2. admitted'[i] <= gNow
      BY <1>6
    <3>3. ASSUME i + 2 * RateLimit <= j PROVE admitted'[i] + RateWindow <= gNow
      <4>1. i \in 1..Len(admitted) /\ i + count + RateLimit <= Len(admitted)
        <5>1. PICK n \in Nat : n = Len(admitted) /\ i \in 1..n + 1 /\ i + 2 * RateLimit <= n + 1
          BY <1>4, <2>1, <3>3
        <5>2. RateLimit \in Nat \ {0} /\ count + 1 <= RateLimit
          BY <1>2, GatewayAssumption DEF GatewayAssumption
        <5>3. i \in Nat \ {0} /\ RateLimit \in Nat \ {0}
          BY <5>1, <5>2
        <5>4. i \in 1..n /\ i + count + RateLimit <= n
          BY <5>1, <5>2, <5>3, BeforeTwoWindows
        <5> QED BY <5>1, <5>4
      <4>2. admitted[i] + RateWindow <= started /\ admitted'[i] = admitted[i]
        BY <1>2, <1>4, <4>1
      <4>3. PICK a \in Nat : a = admitted[i]
        BY <1>5, <4>1
      <4>4. a + RateWindow <= started /\ started <= gNow /\ admitted'[i] = a
        BY <1>2, <4>2, <4>3
      <4>5. a + RateWindow <= gNow
        BY <1>1, <4>4
      <4> QED BY <4>4, <4>5
    <3> QED BY <3>1, <3>2, <3>3
  <2>2. CASE j # Len(admitted) + 1 /\ i = Len(admitted) + 1
    <3>1. i > j /\ 2 * RateLimit \in Nat /\ i \in Nat /\ j \in Nat
      BY <1>1, <1>4, <2>2
    <3> QED BY <3>1
  <2>3. CASE j # Len(admitted) + 1 /\ i # Len(admitted) + 1
    <3>1. i \in 1..Len(admitted) /\ j \in 1..Len(admitted) /\ admitted'[i] = admitted[i] /\ admitted'[j] = admitted[j]
      BY <1>4, <2>3
    <3> QED BY <3>1 DEF AdmittedApart
  <2> QED BY <2>1, <2>2, <2>3
<1>9. AdmittedApart'
  BY <1>8 DEF AdmittedApart
<1> QED BY <1>7, <1>9 DEF RateInv

\* RateWindow::admit: the window is counted up to its limit and moved when it
\* has passed.
LEMMA RateStep ==
  ASSUME RateInv, [GatewayNext]_gatewayVars
  PROVE  RateInv'
<1>1. RateLimit \in Nat \ {0} /\ RateWindow \in Nat \ {0}
  BY GatewayAssumption DEF GatewayAssumption
<1>2. WindowOK /\ AdmittedApart
  BY DEF RateInv
<1>3. CASE UNCHANGED <<window, admitted>> /\ gNow' \in Nat /\ gNow' >= gNow
  <2>1. \A i \in 1..Len(admitted) : admitted[i] \in Nat
    BY <1>2 DEF WindowOK, CountsIn
  <2>2. \A i \in 1..Len(admitted) : admitted[i] <= gNow => admitted[i] <= gNow'
    BY <1>2, <1>3, <2>1 DEF WindowOK, CountsIn
  <2>3. window.started <= gNow'
    BY <1>2, <1>3 DEF WindowOK, CountsIn
  <2>4. WindowOK'
    BY <1>2, <1>3, <2>2, <2>3 DEF WindowOK, CountsIn
  <2>5. AdmittedApart'
    BY <1>2, <1>3 DEF AdmittedApart
  <2> QED BY <2>4, <2>5 DEF RateInv
<1>4. ASSUME NEW c, NEW bearer, NEW origin, Admit(c, bearer, origin)
      PROVE  RateInv'
  <2>1. CASE gNow >= window.started + RateWindow
    <3>1. PICK current : current = [started |-> gNow, count |-> 0]
      OBVIOUS
    <3>2. current.started = gNow /\ current.count = 0 /\ current \in [started : Nat, count : Nat]
      BY <1>2, <3>1 DEF WindowOK, CountsIn
    <3>3. window' = [started |-> current.started, count |-> current.count + 1] /\ admitted' = Append(admitted, gNow) /\ gNow' = gNow
      <4>1. window' = [current EXCEPT !.count = current.count + 1] /\ admitted' = Append(admitted, gNow) /\ gNow' = gNow
        BY <1>4, <2>1, <3>1 DEF Admit, Counted
      <4>2. [current EXCEPT !.count = current.count + 1] = [started |-> current.started, count |-> current.count + 1]
        BY <3>2, CountOneMore
      <4> QED BY <4>1, <4>2
    <3>4. admitted \in Seq(Nat) /\ gNow \in Nat /\ Len(admitted) \in Nat /\ window.started \in Nat /\ window.count \in Nat
      BY <1>2 DEF WindowOK, CountsIn
    <3>5. ASSUME NEW i \in 1..Len(admitted)
          PROVE  /\ admitted[i] <= gNow /\ admitted[i] < current.started + RateWindow
                 /\ i + current.count <= Len(admitted) => admitted[i] < current.started
                 /\ i + current.count + RateLimit <= Len(admitted) => admitted[i] + RateWindow <= current.started
      <4>1. /\ admitted[i] \in Nat /\ admitted[i] <= gNow /\ admitted[i] < window.started + RateWindow
            /\ i + window.count <= Len(admitted) => admitted[i] < window.started
            /\ window.count <= RateLimit
        BY <1>2 DEF WindowOK, CountsIn
      <4>2. admitted[i] < gNow
        BY <1>1, <2>1, <3>4, <4>1
      <4>3. i + RateLimit <= Len(admitted) => admitted[i] + RateWindow <= gNow
        <5>1. i + RateLimit <= Len(admitted) => i + window.count <= Len(admitted)
          BY <1>1, <3>4, <4>1
        <5>2. PICK a \in Nat, started \in Nat, now \in Nat :
                a = admitted[i] /\ started = window.started /\ now = gNow /\ started + RateWindow <= now
          BY <1>1, <2>1, <3>4, <4>1
        <5>3. i + RateLimit <= Len(admitted) => a < started
          BY <4>1, <5>1, <5>2
        <5>4. a < started => a + RateWindow <= now
          BY <1>1, <5>2
        <5> QED BY <5>2, <5>3, <5>4
      <4> QED BY <1>1, <3>2, <3>4, <4>1, <4>2, <4>3
    <3>6. current.started <= gNow /\ gNow < current.started + RateWindow /\ current.count < RateLimit /\ current.count <= Len(admitted)
      BY <1>1, <3>2, <3>4
    <3>7. CountsIn(current)
      <4>1. current.count <= RateLimit
        BY <1>1, <3>2
      <4> QED BY <3>2, <3>5, <3>6, <4>1 DEF CountsIn
    <3> QED BY <1>2, <3>3, <3>4, <3>6, <3>7, CountedStep
  <2>2. CASE ~(gNow >= window.started + RateWindow)
    <3>1. PICK current : current = window
      OBVIOUS
    <3>2. /\ window' = [started |-> current.started, count |-> current.count + 1]
          /\ admitted' = Append(admitted, gNow) /\ gNow' = gNow /\ current.count < RateLimit
      <4>1. /\ window' = [current EXCEPT !.count = current.count + 1] /\ admitted' = Append(admitted, gNow) /\ gNow' = gNow
            /\ current.count < RateLimit
        BY <1>4, <2>2, <3>1 DEF Admit, Counted
      <4>2. current \in [started : Nat, count : Nat]
        BY <1>2, <3>1 DEF WindowOK, CountsIn
      <4>3. [current EXCEPT !.count = current.count + 1] = [started |-> current.started, count |-> current.count + 1]
        BY <4>2, CountOneMore
      <4> QED BY <4>1, <4>3
    <3>3. admitted \in Seq(Nat) /\ gNow \in Nat /\ CountsIn(current) /\ current.started \in Nat
      BY <1>2, <3>1 DEF WindowOK, CountsIn
    <3>4. gNow < current.started + RateWindow
      BY <1>1, <2>2, <3>1, <3>3
    <3> QED BY <1>2, <3>2, <3>3, <3>4, CountedStep
  <2> QED BY <2>1, <2>2
<1>5. CASE GatewayRestart
  <2>1. window' = [started |-> gNow, count |-> 0] /\ admitted' = <<>> /\ gNow' = gNow /\ gNow \in Nat
    BY <1>2, <1>5 DEF GatewayRestart, WindowOK, CountsIn
  <2>2. admitted' \in Seq(Nat) /\ Len(admitted') = 0 /\ window' \in [started : Nat, count : Nat]
        /\ window'.started = gNow /\ window'.count = 0
    BY <2>1
  <2> QED BY <1>1, <2>1, <2>2 DEF RateInv, WindowOK, CountsIn, AdmittedApart
<1>6. \/ UNCHANGED <<window, admitted>> /\ (gNow' = gNow \/ gNow' = gNow + 1)
      \/ \E c, bearer, origin : Admit(c, bearer, origin)
      \/ GatewayRestart
  BY DEF GatewayNext, ChannelNext, MessageNext, RateNext, gatewayVars, serverVars, RegisterPeer, RevokePeer, BindChannel, BeginOp,
         AuthoriseOp, ClaimNonce, ClaimSignal, ReadsVersion, AppendsRevocation, GatewayTick, SubmitMessage,
         ControlRuns, SubmitRun, ControlPackages, ControlStrategies, ControlEvaluations, ControlJobs, Controlled
<1>7. gNow' = gNow \/ gNow' = gNow + 1 => gNow' \in Nat /\ gNow' >= gNow
  BY <1>2 DEF WindowOK, CountsIn
<1> QED BY <1>3, <1>4, <1>5, <1>6, <1>7

\* A set of naturals has a least member.
LEMMA LeastOf ==
  ASSUME NEW S, S \subseteq Nat, S # {}
  PROVE  \E m \in S : \A n \in S : m <= n
<1>1. PICK m \in S : \A n \in S : ~ (<<n, m>> \in OpToRel(<, Nat))
  BY NatLessThanWellFounded, WFMin
<1>2. \A n \in S : ~ (n < m)
  BY <1>1 DEF OpToRel
<1> QED BY <1>2

\* How many numbers there are from one on.
LEMMA StretchSize ==
  ASSUME NEW a \in Int, NEW n \in Nat \ {0}
  PROVE  IsFiniteSet(a .. a + n - 1) /\ Cardinality(a .. a + n - 1) = n
<1>1. a + n - 1 \in Int /\ ~(a > a + n - 1) /\ a + n - 1 - a + 1 = n
  OBVIOUS
<1> QED BY <1>1, FS_Interval

\* Requests so far apart are few in any stretch as long as the window: those in
\* it begin at the first of them, and end before the one 2 * RateLimit later.
LEMMA RateFollows == RateInv => RateIsBounded
<1> SUFFICES ASSUME RateInv, NEW i \in DOMAIN admitted
             PROVE  Cardinality({j \in DOMAIN admitted : admitted[j] \in admitted[i] .. admitted[i] + RateWindow - 1}) <= 2 * RateLimit
  BY DEF RateIsBounded
<1> DEFINE stretch == {j \in DOMAIN admitted : admitted[j] \in admitted[i] .. admitted[i] + RateWindow - 1}
<1>1. RateLimit \in Nat \ {0} /\ RateWindow \in Nat \ {0}
  BY GatewayAssumption DEF GatewayAssumption
<1>2. admitted \in Seq(Nat) /\ DOMAIN admitted = 1..Len(admitted) /\ Len(admitted) \in Nat
  BY DEF RateInv, WindowOK
<1>3. \A j \in DOMAIN admitted : admitted[j] \in Nat
  BY <1>2
<1>4. i \in stretch /\ stretch \subseteq Nat
  BY <1>1, <1>2, <1>3
<1>5. PICK first \in stretch : \A j \in stretch : first <= j
  <2> HIDE DEF stretch
  <2> QED BY <1>4, LeastOf
<1>6. ASSUME NEW j \in stretch PROVE j \in first .. first + 2 * RateLimit - 1
  <2>1. first \in 1..Len(admitted) /\ j \in 1..Len(admitted) /\ first <= j
    BY <1>2, <1>5
  <2>2. admitted[first] >= admitted[i] /\ admitted[j] <= admitted[i] + RateWindow - 1
    BY <1>1, <1>3
  <2>3. ~(first + 2 * RateLimit <= j)
    <3>1. first + 2 * RateLimit <= j => admitted[first] + RateWindow <= admitted[j]
      BY <2>1 DEF RateInv, AdmittedApart
    <3>2. admitted[first] \in Nat /\ admitted[j] \in Nat /\ admitted[i] \in Nat
      BY <1>2, <1>3, <2>1
    <3> QED BY <1>1, <2>2, <3>1, <3>2
  <2> QED BY <1>1, <2>1, <2>3
<1>7. /\ IsFiniteSet(first .. first + 2 * RateLimit - 1)
      /\ Cardinality(first .. first + 2 * RateLimit - 1) = 2 * RateLimit
  <2>1. first \in Int /\ 2 * RateLimit \in Nat \ {0}
    BY <1>1, <1>2, <1>5
  <2> HIDE DEF stretch
  <2> QED BY <2>1, StretchSize
<1>8. stretch \in SUBSET (first .. first + 2 * RateLimit - 1)
  BY <1>6
<1>9. Cardinality(stretch) <= Cardinality(first .. first + 2 * RateLimit - 1)
  <2> HIDE DEF stretch
  <2> QED BY <1>7, <1>8, FS_Subset
<1> QED BY <1>7, <1>9
\* Before the first grant, message and request.
LEMMA GatewayInitInv == GatewayInit => GatewayInv
<1> SUFFICES ASSUME GatewayInit PROVE GatewayInv
  OBVIOUS
<1>1. /\ gNow = 0 /\ ops = [w \in Workers |-> IdleWorker] /\ executed = {}
      /\ messages = [k \in MessageKeys |-> [tier |-> "none"]]
      /\ window = [started |-> 0, count |-> 0] /\ admitted = <<>> /\ inFlight = {}
      /\ controlled = [command |-> "none", proven |-> TRUE, expired |-> FALSE]
  BY DEF GatewayInit
<1>2. ClaimsInv
  <2>1. IdleWorker.stage = "idle"
    BY DEF IdleWorker
  <2>2. WorkersOK
    BY <1>1, <2>1 DEF WorkersOK
  <2> QED BY <1>1, <2>2 DEF ClaimsInv, ClaimedOnce, ChannelsDieWithTheirGrant, ClaimsOK
<1>3. TrustInv
  <2>1. \A k \in MessageKeys : messages[k].tier = "none"
    BY <1>1
  <2> QED BY <1>1, <2>1 DEF TrustInv, TrustIsAuthenticated
<1>4. ControlInv
  <2>1. controlled.proven = TRUE /\ controlled.expired = FALSE
    BY <1>1
  <2> QED BY <1>1, <2>1 DEF ControlInv, ControlIsOwners, RequestsOK
<1>5. RateInv
  <2>1. RateLimit \in Nat /\ RateWindow \in Nat
    BY GatewayAssumption DEF GatewayAssumption
  <2>2. /\ admitted \in Seq(Nat) /\ Len(admitted) = 0 /\ gNow = 0
        /\ window \in [started : Nat, count : Nat] /\ window.started = 0 /\ window.count = 0
    BY <1>1
  <2>3. CountsIn(window)
    BY <2>1, <2>2 DEF CountsIn
  <2> QED BY <2>2, <2>3 DEF RateInv, WindowOK, AdmittedApart
<1> QED BY <1>2, <1>3, <1>4, <1>5 DEF GatewayInv

\* validate_channel, claim_control_nonce, claim_device_signal, validate_principal,
\* RateWindow::admit, validate_owner_control: for any workers, peers and clocks a
\* nonce and a signal let one request through, of a channel that was live; trust
\* is authenticated; no stretch as long as the window has more than twice its
\* limit; and what is performed was the owner's, in time.
THEOREM GatewayStaysSound == PeersSpec => []GatewayIsSound
<1>1. PeersInit => GatewayInv
  BY GatewayInitInv DEF PeersInit
<1>2. GatewayInv /\ [PeersNext]_peersVars => GatewayInv'
  <2> SUFFICES ASSUME GatewayInv, [PeersNext]_peersVars PROVE GatewayInv'
    OBVIOUS
  <2>1. [GatewayNext]_gatewayVars
    BY ServicesStep DEF GatewayNext
  <2>2. gNow \in Nat
    BY DEF GatewayInv, RateInv, WindowOK
  <2> QED BY <2>1, <2>2, ClaimsStep, TrustStep, ControlStep, RateStep DEF GatewayInv
<1>3. GatewayInv => GatewayIsSound
  BY RateFollows DEF GatewayInv, ClaimsInv, TrustInv, ControlInv, GatewayIsSound
<1> QED BY <1>1, <1>2, <1>3, PTL DEF PeersSpec
-----------------------------------------------------------------------------
(* External communication                                                  *)

SessionRecords == [status : {"open", "terminated"}, rounds : Nat, messages : Nat, tokens : Nat, expires : Nat]

\* Sessions are numbered, and every one not yet opened has no end.
SessionsOK ==
  /\ sessions \in Seq(SessionRecords)
  /\ Len(sessions) <= MaxSessions
  /\ endings \in [1..MaxSessions -> Nat]
  /\ \A s \in 1..MaxSessions : s > Len(sessions) => endings[s] = 0

\* What a session authorised is charged to it, and while it is open it is within
\* its grant.
ChargesOK ==
  /\ IsFiniteSet(decided)
  /\ \A s : IsFiniteSet(TokensOf(Authorised(s)))
  /\ \A a \in decided : a.s \in DOMAIN sessions /\ <<a.s, a.q>> \in used /\ (a.allowed => a.m \in Messages)
  /\ \A s \in DOMAIN sessions :
       /\ Cardinality(Authorised(s)) <= sessions[s].rounds /\ Cardinality(Authorised(s)) <= sessions[s].messages
       /\ Cardinality(TokensOf(Authorised(s))) <= sessions[s].tokens

\* An event of the queue tells a decision, and a caller that submits has the
\* decision of its own message.
DecisionsOK ==
  /\ \A e \in queue : e.k = "disclosed" =>
       \E a \in decided : /\ a.s = e.s /\ a.q = e.q
                          /\ \/ e.outcome = "unbound"
                             \/ a.m \in Messages /\ e.outcome = Decision(MessageData[a.m])
  /\ \A c \in Callers : calls[c].do = "submit" =>
       \E a \in decided : a.s = calls[c].s /\ a.m = calls[c].m /\ a.q = MessageData[a.m].request /\ a.m \in Messages

DeviceOK ==
  /\ device.revoked \in BOOLEAN /\ device.logged \in BOOLEAN /\ (device.logged => device.revoked)
  /\ device = [revoked |-> device.revoked, logged |-> device.logged, held |-> device.held, submitted |-> device.submitted]

SessionsInv == SessionsOK /\ EndedOnce /\ clock \in Nat
GrantInv == AuthorisedWithinGrant /\ RequestDecidedOnce /\ ChargesOK
DeliveryInv == /\ DeliveredAsDecided /\ DecisionsOK
               /\ calls = [c \in Callers |-> calls[c]] /\ deliveries = [m \in Messages |-> deliveries[m]]
DeviceInv == RevocationStops /\ DeviceOK

CommunicationInv == SessionsInv /\ GrantInv /\ DeliveryInv /\ DeviceInv
CommunicationNext == FabricNext \/ DeviceNext
\* What authorize_delivery does to a session that is open: it decides nothing,
\* refuses, or allows the message and charges it.
DecisionEvent(s, m) == Event("disclosed", s, MessageData[m].request, Decision(MessageData[m]))
EndsSession(s) ==
  sessions' = [sessions EXCEPT ![s].status = "terminated"] /\ endings' = [endings EXCEPT ![s] = @ + 1]
Decides(s, m, allowed) ==
  /\ <<s, MessageData[m].request>> \notin used
  /\ used' = used \cup {<<s, MessageData[m].request>>}
  /\ decided' = decided \cup {[s |-> s, q |-> MessageData[m].request, m |-> m, allowed |-> allowed]}

DecidesNothing(c, s, m) ==
  /\ UNCHANGED <<used, decided>>
  /\ calls' = [calls EXCEPT ![c] = [do |-> "record", s |-> s, m |-> m]]
  /\ \/ EndsSession(s) /\ queue' = queue \cup {Ending(s)}
     \/ UNCHANGED <<sessions, endings, queue>>
RefusesMessage(c, s, m) ==
  /\ Decides(s, m, FALSE)
  /\ calls' = [calls EXCEPT ![c] = [do |-> "record", s |-> s, m |-> m]]
  /\ \/ EndsSession(s) /\ queue' = queue \cup {DecisionEvent(s, m), Ending(s)}
     \/ UNCHANGED <<sessions, endings>> /\ queue' = queue \cup {DecisionEvent(s, m)}
AllowsMessage(c, s, m) ==
  /\ Decides(s, m, TRUE)
  /\ calls' = [calls EXCEPT ![c] = [do |-> "submit", s |-> s, m |-> m]]
  /\ ~Exceeds(sessions[s], MessageData[m])
  /\ sessions' = [sessions EXCEPT ![s] = Charge(sessions[s], MessageData[m])]
  /\ UNCHANGED endings /\ queue' = queue \cup {DecisionEvent(s, m)}

\* authorize_delivery on an open session takes one of those three ways.
LEMMA PrepareCases ==
  ASSUME NEW c \in Callers, NEW s \in DOMAIN sessions, NEW m \in Messages, PrepareDelivery(c, s, m)
  PROVE  /\ sessions[s].status = "open" /\ UNCHANGED <<clock, deliveries, device>>
         /\ DecidesNothing(c, s, m) \/ RefusesMessage(c, s, m) \/ AllowsMessage(c, s, m)
<1> DEFINE allowed == Allows(Decision(MessageData[m]))
           exceeds == Exceeds(sessions[s], MessageData[m])
<1> USE DEF DecidesNothing, RefusesMessage, AllowsMessage, Decides, EndsSession, DecisionEvent
<1>1. (allowed /\ ~exceeds) \in BOOLEAN
  OBVIOUS
<1>2. CASE allowed /\ ~exceeds
  <2>1. (allowed /\ ~exceeds) = TRUE
    BY <1>2
  <2> HIDE DEF allowed, exceeds
  <2> QED BY <1>2, <2>1 DEF PrepareDelivery, fabricVars, allowed, exceeds
<1>3. CASE ~(allowed /\ ~exceeds)
  <2>1. (allowed /\ ~exceeds) = FALSE
    BY <1>3
  <2> QED BY <1>3, <2>1 DEF PrepareDelivery, fabricVars
<1> QED BY <1>2, <1>3

\* A session's record with another status.
LEMMA StatusRecord ==
  ASSUME NEW t \in SessionRecords, NEW status \in {"open", "terminated"},
         NEW record, record = [t EXCEPT !.status = status]
  PROVE  /\ record \in SessionRecords /\ record.status = status
         /\ record.rounds = t.rounds /\ record.messages = t.messages /\ record.tokens = t.tokens
<1>1. [t EXCEPT !.status = status] \in SessionRecords
  BY DEF SessionRecords
<1> QED BY <1>1 DEF SessionRecords

WithMore(t, n, tokens) == [t EXCEPT !.rounds = @ + 1, !.messages = @ + n, !.tokens = @ + tokens]

\* A session's record after n more messages with their tokens.
LEMMA CountsRecord ==
  ASSUME NEW t \in SessionRecords, NEW n \in Nat, NEW tokens \in Nat
  PROVE  LET record == WithMore(t, n, tokens) IN
         /\ record \in SessionRecords /\ record.status = t.status
         /\ record.rounds = t.rounds + 1 /\ record.messages = t.messages + n /\ record.tokens = t.tokens + tokens
<1>1. PICK a \in Nat, b \in Nat, c \in Nat : a = t.rounds + 1 /\ b = t.messages + n /\ c = t.tokens + tokens
  BY DEF SessionRecords
<1>2. PICK record : record = WithMore(t, n, tokens)
  OBVIOUS
<1>3. record = [t EXCEPT !.rounds = a, !.messages = b, !.tokens = c]
  BY <1>1, <1>2 DEF SessionRecords, WithMore
<1>4. [t EXCEPT !.rounds = a, !.messages = b, !.tokens = c] \in SessionRecords
  BY DEF SessionRecords
<1>5. record.status = t.status /\ record.rounds = a /\ record.messages = b /\ record.tokens = c
  BY <1>3 DEF SessionRecords
<1> QED BY <1>1, <1>2, <1>3, <1>4, <1>5

\* A step that ends a session, or keeps it as it was, keeps what is announced.
LEMMA SessionMoves ==
  ASSUME SessionsInv, NEW s \in DOMAIN sessions, NEW record \in SessionRecords, sessions[s].status = "open",
         sessions' = [sessions EXCEPT ![s] = record], clock' \in Nat,
         \/ record.status = "terminated" /\ endings' = [endings EXCEPT ![s] = @ + 1]
         \/ record.status = "open" /\ endings' = endings
  PROVE  SessionsInv'
<1>1. /\ sessions \in Seq(SessionRecords) /\ Len(sessions) <= MaxSessions /\ Len(sessions) \in Nat
      /\ endings \in [1..MaxSessions -> Nat]
      /\ \A r \in 1..MaxSessions : r > Len(sessions) => endings[r] = 0
      /\ \A r \in DOMAIN sessions : endings[r] = IF sessions[r].status = "open" THEN 0 ELSE 1
      /\ MaxSessions \in Nat
  BY CommunicationAssumption DEF SessionsInv, SessionsOK, EndedOnce, CommunicationAssumption
<1>2. /\ sessions' \in Seq(SessionRecords) /\ Len(sessions') = Len(sessions) /\ DOMAIN sessions' = DOMAIN sessions
      /\ \A r \in DOMAIN sessions : sessions'[r] = IF r = s THEN record ELSE sessions[r]
      /\ DOMAIN sessions = 1..Len(sessions)
  BY <1>1
<1>3. s \in 1..MaxSessions /\ endings[s] = 0
  BY <1>1, <1>2
<1>4. /\ endings' \in [1..MaxSessions -> Nat]
      /\ \A r \in 1..MaxSessions : r # s => endings'[r] = endings[r]
      /\ endings'[s] = IF record.status = "open" THEN 0 ELSE 1
  BY <1>1, <1>3
<1>5. \A r \in 1..MaxSessions : r > Len(sessions') => endings'[r] = 0
  BY <1>1, <1>2, <1>4
<1>6. \A r \in DOMAIN sessions' : endings'[r] = IF sessions'[r].status = "open" THEN 0 ELSE 1
  BY <1>1, <1>2, <1>4
<1> QED BY <1>1, <1>2, <1>4, <1>5, <1>6 DEF SessionsInv, SessionsOK, EndedOnce

\* The tokens of a session's messages are charged.
LEMMA ChargedRecord ==
  ASSUME SessionsInv, NEW s \in DOMAIN sessions, NEW m \in Messages,
         NEW record, record = Charge(sessions[s], MessageData[m])
  PROVE  /\ record \in SessionRecords /\ record.status = sessions[s].status
         /\ record.rounds = sessions[s].rounds + 1 /\ record.messages = sessions[s].messages + 1
         /\ record.tokens = sessions[s].tokens + MessageData[m].tokens
<1>1. sessions[s] \in SessionRecords
  BY DEF SessionsInv, SessionsOK
<1>2. MessageData[m].tokens \in Nat
  BY CommunicationAssumption DEF CommunicationAssumption
<1>3. PICK t \in SessionRecords, one \in Nat, tokens \in Nat : t = sessions[s] /\ one = 1 /\ tokens = MessageData[m].tokens
  BY <1>1, <1>2
<1>4. record = WithMore(t, one, tokens)
  BY <1>3 DEF Charge, WithMore
<1>5. /\ WithMore(t, one, tokens) \in SessionRecords /\ WithMore(t, one, tokens).status = t.status
      /\ WithMore(t, one, tokens).rounds = t.rounds + 1 /\ WithMore(t, one, tokens).messages = t.messages + one
      /\ WithMore(t, one, tokens).tokens = t.tokens + tokens
  BY CountsRecord
<1> QED BY <1>3, <1>4, <1>5

\* terminate, authorize_delivery, record_exchange: a session is ended where it is
\* open, and announced there.
LEMMA SessionsStep ==
  ASSUME SessionsInv, [CommunicationNext]_communicationVars
  PROVE  SessionsInv'
<1>1. /\ sessions \in Seq(SessionRecords) /\ Len(sessions) <= MaxSessions /\ Len(sessions) \in Nat
      /\ endings \in [1..MaxSessions -> Nat]
      /\ \A r \in 1..MaxSessions : r > Len(sessions) => endings[r] = 0
      /\ \A r \in DOMAIN sessions : endings[r] = IF sessions[r].status = "open" THEN 0 ELSE 1
      /\ MaxSessions \in Nat /\ clock \in Nat /\ SessionTtl \in Nat
  BY CommunicationAssumption DEF SessionsInv, SessionsOK, EndedOnce, CommunicationAssumption
<1>2. CASE UNCHANGED <<sessions, endings>> /\ clock' \in Nat
  BY <1>2 DEF SessionsInv, SessionsOK, EndedOnce
<1>3. ASSUME NEW c, OpenSession(c) PROVE SessionsInv'
  <2>1. PICK record : record = [status |-> "open", rounds |-> 0, messages |-> 0, tokens |-> 0, expires |-> clock + SessionTtl]
    OBVIOUS
  <2>2. record \in SessionRecords /\ record.status = "open"
    BY <1>1, <2>1 DEF SessionRecords
  <2>3. sessions' = Append(sessions, record) /\ endings' = endings /\ clock' = clock /\ Len(sessions) < MaxSessions
    BY <1>3, <2>1 DEF OpenSession
  <2>4. /\ sessions' \in Seq(SessionRecords) /\ Len(sessions') = Len(sessions) + 1
        /\ \A r \in DOMAIN sessions : sessions'[r] = sessions[r]
        /\ sessions'[Len(sessions) + 1] = record
        /\ \A r \in DOMAIN sessions' : r \in DOMAIN sessions \/ r = Len(sessions) + 1
    BY <1>1, <2>2, <2>3
  <2>5. Len(sessions) + 1 \in 1..MaxSessions /\ Len(sessions) + 1 > Len(sessions) /\ Len(sessions') <= MaxSessions
    BY <1>1, <2>3, <2>4
  <2>6. EndedOnce'
    BY <1>1, <2>2, <2>3, <2>4, <2>5 DEF EndedOnce
  <2>7. \A r \in 1..MaxSessions : r > Len(sessions') => endings'[r] = 0
    BY <1>1, <2>3, <2>4
  <2> QED BY <1>1, <2>3, <2>4, <2>5, <2>6, <2>7 DEF SessionsInv, SessionsOK
<1>4. ASSUME NEW s \in DOMAIN sessions, sessions[s].status = "open", clock' = clock,
             sessions' = [sessions EXCEPT ![s].status = "terminated"], endings' = [endings EXCEPT ![s] = @ + 1]
      PROVE  SessionsInv'
  <2>1. sessions[s] \in SessionRecords
    BY <1>1
  <2>2. PICK record : record = [sessions[s] EXCEPT !.status = "terminated"]
    OBVIOUS
  <2>3. record \in SessionRecords /\ record.status = "terminated"
    BY <2>1, <2>2, StatusRecord
  <2>4. sessions' = [sessions EXCEPT ![s] = record]
    BY <1>4, <2>2
  <2> QED BY <1>1, <1>4, <2>3, <2>4, SessionMoves
<1>5. ASSUME NEW c, NEW s \in DOMAIN sessions, Terminate(c, s) PROVE SessionsInv'
  <2>1. CASE sessions[s].status = "open"
    BY <1>4, <1>5, <2>1 DEF Terminate
  <2>2. CASE sessions[s].status # "open"
    BY <1>1, <1>2, <1>5, <2>2 DEF Terminate
  <2> QED BY <2>1, <2>2
<1>6. ASSUME NEW c \in Callers, NEW s \in DOMAIN sessions, NEW m \in Messages, PrepareDelivery(c, s, m) PROVE SessionsInv'
  <2>1. sessions[s].status = "open" /\ clock' = clock
    BY <1>6, PrepareCases
  <2>2. \/ UNCHANGED <<sessions, endings>>
        \/ EndsSession(s)
        \/ sessions' = [sessions EXCEPT ![s] = Charge(sessions[s], MessageData[m])] /\ endings' = endings
    <3>1. DecidesNothing(c, s, m) \/ RefusesMessage(c, s, m) \/ AllowsMessage(c, s, m)
      BY <1>6, PrepareCases
    <3> QED BY <3>1 DEF DecidesNothing, RefusesMessage, AllowsMessage
  <2>3. CASE sessions' = [sessions EXCEPT ![s] = Charge(sessions[s], MessageData[m])] /\ endings' = endings
    <3>1. PICK record : record = Charge(sessions[s], MessageData[m])
      OBVIOUS
    <3>2. record \in SessionRecords /\ record.status = "open"
      BY <2>1, <3>1, ChargedRecord
    <3>3. sessions' = [sessions EXCEPT ![s] = record]
      BY <2>3, <3>1
    <3> QED BY <1>1, <2>1, <2>3, <3>2, <3>3, SessionMoves
  <2>4. CASE EndsSession(s)
    BY <1>4, <2>1, <2>4 DEF EndsSession
  <2> QED BY <1>1, <1>2, <2>1, <2>2, <2>3, <2>4
<1>7. ASSUME NEW s \in DOMAIN sessions, NEW aligned \in BOOLEAN, RecordExchange(s, 1, aligned) PROVE SessionsInv'
  <2>0. PICK status \in {"open", "terminated"} :
          \E after, record :
            /\ after = [sessions[s] EXCEPT !.rounds = @ + 1, !.messages = @ + 2, !.tokens = @ + 1]
            /\ record = [after EXCEPT !.status = status]
            /\ sessions' = [sessions EXCEPT ![s] = record]
            /\ endings' = IF status = "terminated" THEN [endings EXCEPT ![s] = @ + 1] ELSE endings
    BY <1>7 DEF RecordExchange
  <2>1. PICK after, record :
          /\ after = [sessions[s] EXCEPT !.rounds = @ + 1, !.messages = @ + 2, !.tokens = @ + 1]
          /\ record = [after EXCEPT !.status = status]
          /\ sessions' = [sessions EXCEPT ![s] = record]
          /\ endings' = IF status = "terminated" THEN [endings EXCEPT ![s] = @ + 1] ELSE endings
    BY <2>0
  <2>2. sessions[s] \in SessionRecords /\ sessions[s].status = "open" /\ clock' = clock
    BY <1>1, <1>7 DEF RecordExchange
  <2>3. record \in SessionRecords /\ record.status = status
    <3>1. PICK t \in SessionRecords, one \in Nat, two \in Nat : t = sessions[s] /\ one = 1 /\ two = 2
      BY <2>2
    <3>2. after = WithMore(t, two, one)
      BY <2>1, <3>1 DEF WithMore
    <3>3. after \in SessionRecords
      BY <3>2, CountsRecord
    <3> QED BY <2>1, <3>3, StatusRecord
  <2>4. \/ record.status = "terminated" /\ endings' = [endings EXCEPT ![s] = @ + 1]
        \/ record.status = "open" /\ endings' = endings
    BY <2>1, <2>3
  <2> QED BY <1>1, <2>1, <2>2, <2>3, <2>4, SessionMoves
<1>8. CASE CommunicationRestart
  <2>1. sessions' = <<>> /\ endings' = [s \in 1..MaxSessions |-> 0] /\ clock' = clock
    BY <1>8 DEF CommunicationRestart
  <2>2. sessions' \in Seq(SessionRecords) /\ Len(sessions') = 0 /\ DOMAIN sessions' = {}
    BY <2>1
  <2> QED BY <1>1, <2>1, <2>2 DEF SessionsInv, SessionsOK, EndedOnce
<1>9. \/ UNCHANGED <<sessions, endings>> /\ (clock' = clock \/ clock' = clock + 1)
      \/ \E c \in Callers : OpenSession(c)
      \/ \E c \in Callers, s \in DOMAIN sessions : Terminate(c, s) \/ \E m \in Messages : PrepareDelivery(c, s, m)
      \/ \E s \in DOMAIN sessions, aligned \in BOOLEAN : RecordExchange(s, 1, aligned)
      \/ CommunicationRestart
  BY DEF CommunicationNext, FabricNext, DeviceNext, communicationVars, fabricVars, RecordEvents, SubmitDelivery, Disclose, Elapse,
         Authorise, SubmitObservation, RevokeDevice
<1> QED BY <1>1, <1>2, <1>3, <1>5, <1>6, <1>7, <1>8, <1>9
\* One delivery more brings its own tokens.
LEMMA TokensGrow ==
  ASSUME NEW S, NEW a, IsFiniteSet(TokensOf(S)), MessageData[a.m].tokens \in Nat
  PROVE  /\ IsFiniteSet(TokensOf(S \cup {a}))
         /\ Cardinality(TokensOf(S \cup {a})) <= Cardinality(TokensOf(S)) + MessageData[a.m].tokens
<1>1. PICK n \in Nat : n = MessageData[a.m].tokens
  OBVIOUS
<1>2. TokensOf(S \cup {a}) = TokensOf(S) \cup ({a} \X (1..n))
  <2>1. ASSUME NEW x PROVE x \in TokensOf(S \cup {a}) <=> x \in TokensOf(S) \cup ({a} \X (1..n))
    BY <1>1 DEF TokensOf
  <2> QED BY <2>1
<1>3. IsFiniteSet({a}) /\ Cardinality({a}) = 1
  BY FS_Singleton
<1>4. IsFiniteSet(1..n) /\ Cardinality(1..n) = n
  <2>1. 1 \in Int /\ n \in Int
    OBVIOUS
  <2>2. IsFiniteSet(1..n) /\ Cardinality(1..n) = IF 1 > n THEN 0 ELSE n - 1 + 1
    BY <2>1, FS_Interval
  <2> QED BY <2>2
<1>5. IsFiniteSet({a} \X (1..n)) /\ Cardinality({a} \X (1..n)) = n
  <2>1. IsFiniteSet({a} \X (1..n)) /\ Cardinality({a} \X (1..n)) = Cardinality({a}) * Cardinality(1..n)
    BY <1>3, <1>4, FS_Product
  <2> QED BY <1>3, <1>4, <2>1
<1>6. PICK old, new : old = TokensOf(S) /\ new = {a} \X (1..n)
  OBVIOUS
<1>7. IsFiniteSet(old) /\ IsFiniteSet(new) /\ Cardinality(new) = n
  BY <1>5, <1>6
<1>8. /\ IsFiniteSet(old \cup new)
      /\ Cardinality(old \cup new) = Cardinality(old) + Cardinality(new) - Cardinality(old \cap new)
  BY <1>7, FS_Union
<1>9. Cardinality(old) \in Nat /\ Cardinality(old \cap new) \in Nat
  <2>1. IsFiniteSet(old \cap new)
    <3>1. old \cap new \in SUBSET old
      OBVIOUS
    <3> QED BY <1>7, <3>1, FS_Subset
  <2> QED BY <1>7, <2>1, FS_CardinalityType
<1>10. TokensOf(S \cup {a}) = old \cup new
  BY <1>2, <1>6
<1>11. Cardinality(old \cup new) <= Cardinality(old) + n
  <2>1. PICK x \in Nat, y \in Nat : x = Cardinality(old) /\ y = Cardinality(old \cap new)
    BY <1>9
  <2>2. Cardinality(old \cup new) = x + n - y
    BY <1>7, <1>8, <2>1
  <2> QED BY <2>1, <2>2
<1> QED BY <1>1, <1>6, <1>8, <1>10, <1>11

\* What a session authorised stays charged to it while nothing is decided.
LEMMA ChargesKept ==
  ASSUME GrantInv, SessionsInv, UNCHANGED decided, used \subseteq used',
         sessions' \in Seq(SessionRecords), DOMAIN sessions \subseteq DOMAIN sessions',
         \A s \in DOMAIN sessions : /\ sessions'[s].rounds >= sessions[s].rounds
                                    /\ sessions'[s].messages >= sessions[s].messages
                                    /\ sessions'[s].tokens >= sessions[s].tokens
  PROVE  GrantInv'
<1>1. ChargesOK /\ AuthorisedWithinGrant /\ RequestDecidedOnce
  BY DEF GrantInv
<1>2. \A s : Authorised(s)' = Authorised(s) /\ TokensOf(Authorised(s))' = TokensOf(Authorised(s))
  BY DEF Authorised, TokensOf
<1>3. ASSUME NEW s \in DOMAIN sessions'
      PROVE  /\ Cardinality(Authorised(s)) <= sessions'[s].rounds /\ Cardinality(Authorised(s)) <= sessions'[s].messages
             /\ Cardinality(TokensOf(Authorised(s))) <= sessions'[s].tokens
             /\ Cardinality(Authorised(s)) <= MaxRounds /\ Cardinality(Authorised(s)) <= MaxMessages
             /\ Cardinality(TokensOf(Authorised(s))) <= MaxTokens
  <2>1. sessions'[s] \in SessionRecords
    OBVIOUS
  <2>2. sessions'[s].rounds \in Nat /\ sessions'[s].messages \in Nat /\ sessions'[s].tokens \in Nat
    BY <2>1 DEF SessionRecords
  <2>3. CASE s \in DOMAIN sessions
    <3>1. sessions[s] \in SessionRecords
      BY <2>3 DEF SessionsInv, SessionsOK
    <3>2. sessions[s].rounds \in Nat /\ sessions[s].messages \in Nat /\ sessions[s].tokens \in Nat
      BY <3>1 DEF SessionRecords
    <3>3. IsFiniteSet(Authorised(s)) /\ IsFiniteSet(TokensOf(Authorised(s)))
      <4>1. Authorised(s) \in SUBSET decided
        BY DEF Authorised
      <4> QED BY <1>1, <4>1, FS_Subset DEF ChargesOK
    <3>4. PICK n \in Nat, k \in Nat : n = Cardinality(Authorised(s)) /\ k = Cardinality(TokensOf(Authorised(s)))
      BY <3>3, FS_CardinalityType
    <3>5. n <= sessions[s].rounds /\ n <= sessions[s].messages /\ k <= sessions[s].tokens
      BY <1>1, <2>3, <3>4 DEF ChargesOK
    <3>6. n <= MaxRounds /\ n <= MaxMessages /\ k <= MaxTokens
      BY <1>1, <2>3, <3>4 DEF AuthorisedWithinGrant
    <3>7. n <= sessions'[s].rounds /\ n <= sessions'[s].messages /\ k <= sessions'[s].tokens
      BY <2>2, <2>3, <3>2, <3>5
    <3> QED BY <3>4, <3>6, <3>7
  <2>4. CASE s \notin DOMAIN sessions
    <3>1. Authorised(s) = {}
      BY <1>1, <2>4 DEF ChargesOK, Authorised
    <3>2. TokensOf(Authorised(s)) = {}
      BY <3>1 DEF TokensOf
    <3>3. Cardinality(Authorised(s)) = 0 /\ Cardinality(TokensOf(Authorised(s))) = 0
      BY <3>1, <3>2, FS_EmptySet
    <3> QED BY <2>2, <3>3, CommunicationAssumption DEF CommunicationAssumption
  <2> QED BY <2>3, <2>4
<1>4. ChargesOK'
  BY <1>1, <1>2, <1>3 DEF ChargesOK
<1>5. AuthorisedWithinGrant'
  BY <1>2, <1>3 DEF AuthorisedWithinGrant
<1>6. RequestDecidedOnce'
  BY <1>1 DEF RequestDecidedOnce
<1> QED BY <1>4, <1>5, <1>6 DEF GrantInv

\* A decision uses its request up, and a refusal costs a session nothing.
LEMMA RefusalKept ==
  ASSUME GrantInv, SessionsInv, NEW s \in DOMAIN sessions, NEW q, NEW m, <<s, q>> \notin used,
         used' = used \cup {<<s, q>>}, decided' = decided \cup {[s |-> s, q |-> q, m |-> m, allowed |-> FALSE]},
         sessions' = sessions \/ EndsSession(s)
  PROVE  GrantInv'
<1>1. ChargesOK /\ AuthorisedWithinGrant /\ RequestDecidedOnce
  BY DEF GrantInv
<1>2. PICK a : a = [s |-> s, q |-> q, m |-> m, allowed |-> FALSE]
  OBVIOUS
<1>3. decided' = decided \cup {a} /\ a.s = s /\ a.q = q /\ a.allowed = FALSE
  BY <1>2
<1>4. \A r : Authorised(r)' = Authorised(r) /\ TokensOf(Authorised(r))' = TokensOf(Authorised(r))
  <2>1. ASSUME NEW r PROVE Authorised(r)' = Authorised(r)
    BY <1>3 DEF Authorised
  <2> QED BY <2>1 DEF TokensOf
<1>5. /\ DOMAIN sessions' = DOMAIN sessions
      /\ \A r \in DOMAIN sessions : /\ sessions'[r].rounds = sessions[r].rounds
                                    /\ sessions'[r].messages = sessions[r].messages
                                    /\ sessions'[r].tokens = sessions[r].tokens
  <2>1. CASE EndsSession(s)
    <3>1. sessions \in Seq(SessionRecords) /\ sessions[s] \in SessionRecords
      BY DEF SessionsInv, SessionsOK
    <3>2. PICK record : record = [sessions[s] EXCEPT !.status = "terminated"]
      OBVIOUS
    <3>3. record.rounds = sessions[s].rounds /\ record.messages = sessions[s].messages /\ record.tokens = sessions[s].tokens
      BY <3>1, <3>2, StatusRecord
    <3>4. sessions' = [sessions EXCEPT ![s] = record]
      BY <2>1, <3>2 DEF EndsSession
    <3> QED BY <3>1, <3>3, <3>4
  <2> QED BY <2>1
<1>6. IsFiniteSet(decided')
  BY <1>1, <1>3, FS_AddElement DEF ChargesOK
<1>7. \A b \in decided' : b.s \in DOMAIN sessions' /\ <<b.s, b.q>> \in used' /\ (b.allowed => b.m \in Messages)
  BY <1>1, <1>3, <1>5 DEF ChargesOK
<1>8. ChargesOK'
  BY <1>1, <1>4, <1>5, <1>6, <1>7 DEF ChargesOK
<1>9. AuthorisedWithinGrant'
  BY <1>1, <1>4, <1>5 DEF AuthorisedWithinGrant
<1>10. RequestDecidedOnce'
  <2>1. \A b \in decided : ~(b.s = a.s /\ b.q = a.q)
    BY <1>1, <1>3 DEF ChargesOK
  <2> QED BY <1>1, <1>3, <2>1 DEF RequestDecidedOnce
<1> QED BY <1>8, <1>9, <1>10 DEF GrantInv
\* authorize_delivery: what it allows is within the grant and charged.
LEMMA AllowanceKept ==
  ASSUME GrantInv, SessionsInv, NEW s \in DOMAIN sessions, NEW m \in Messages, Decides(s, m, TRUE),
         ~Exceeds(sessions[s], MessageData[m]), sessions' = [sessions EXCEPT ![s] = Charge(sessions[s], MessageData[m])]
  PROVE  GrantInv'
<1>1. ChargesOK /\ AuthorisedWithinGrant /\ RequestDecidedOnce
  BY DEF GrantInv
<1>2. PICK a, q, record : /\ q = MessageData[m].request /\ a = [s |-> s, q |-> q, m |-> m, allowed |-> TRUE]
                          /\ record = Charge(sessions[s], MessageData[m])
  OBVIOUS
<1>3. /\ decided' = decided \cup {a} /\ a.s = s /\ a.q = q /\ a.allowed = TRUE /\ a.m = m
      /\ <<s, q>> \notin used /\ used' = used \cup {<<s, q>>} /\ sessions' = [sessions EXCEPT ![s] = record]
  BY <1>2 DEF Decides
<1>4. /\ record \in SessionRecords /\ record.rounds = sessions[s].rounds + 1 /\ record.messages = sessions[s].messages + 1
      /\ record.tokens = sessions[s].tokens + MessageData[m].tokens
  BY <1>2, ChargedRecord
<1>5. /\ DOMAIN sessions' = DOMAIN sessions
      /\ \A r \in DOMAIN sessions : sessions'[r] = IF r = s THEN record ELSE sessions[r]
  BY <1>3 DEF SessionsInv, SessionsOK
<1>6. /\ Authorised(s)' = Authorised(s) \cup {a}
      /\ \A r : r # s => Authorised(r)' = Authorised(r)
  <2>1. ASSUME NEW x PROVE x \in Authorised(s)' <=> x \in Authorised(s) \cup {a}
    BY <1>3 DEF Authorised
  <2>2. ASSUME NEW r, r # s, NEW x PROVE x \in Authorised(r)' <=> x \in Authorised(r)
    BY <1>3, <2>2 DEF Authorised
  <2>3. ASSUME NEW r, r # s PROVE Authorised(r)' = Authorised(r)
    <3>1. Authorised(r)' \subseteq Authorised(r) /\ Authorised(r) \subseteq Authorised(r)'
      BY <2>2, <2>3
    <3> QED BY <3>1
  <2> QED BY <2>1, <2>3
<1>7. /\ TokensOf(Authorised(s))' = TokensOf(Authorised(s) \cup {a})
      /\ \A r : r # s => TokensOf(Authorised(r))' = TokensOf(Authorised(r))
  BY <1>6 DEF TokensOf
<1>8. MessageData[a.m].tokens \in Nat /\ a.m = m
  BY <1>3, CommunicationAssumption DEF CommunicationAssumption
<1>9. IsFiniteSet(decided) /\ IsFiniteSet(Authorised(s)) /\ IsFiniteSet(TokensOf(Authorised(s)))
  <2>1. Authorised(s) \in SUBSET decided
    BY DEF Authorised
  <2> QED BY <1>1, <2>1, FS_Subset DEF ChargesOK
<1>10. /\ IsFiniteSet(TokensOf(Authorised(s) \cup {a}))
       /\ Cardinality(TokensOf(Authorised(s) \cup {a})) <= Cardinality(TokensOf(Authorised(s))) + MessageData[m].tokens
  BY <1>8, <1>9, TokensGrow
<1>11. Cardinality(Authorised(s) \cup {a}) <= Cardinality(Authorised(s)) + 1 /\ Cardinality(Authorised(s) \cup {a}) \in Nat
  <2>1. IsFiniteSet(Authorised(s) \cup {a})
        /\ Cardinality(Authorised(s) \cup {a}) = IF a \in Authorised(s) THEN Cardinality(Authorised(s)) ELSE Cardinality(Authorised(s)) + 1
    BY <1>9, FS_AddElement
  <2>2. Cardinality(Authorised(s)) \in Nat
    BY <1>9, FS_CardinalityType
  <2> QED BY <2>1, <2>2
<1>12. /\ Cardinality(Authorised(s))' <= record.rounds /\ Cardinality(Authorised(s))' <= record.messages
       /\ Cardinality(TokensOf(Authorised(s)))' <= record.tokens
       /\ Cardinality(Authorised(s))' <= MaxRounds /\ Cardinality(Authorised(s))' <= MaxMessages
       /\ Cardinality(TokensOf(Authorised(s)))' <= MaxTokens
  <2>1. PICK n \in Nat, k \in Nat, n2 \in Nat, k2 \in Nat :
          /\ n = Cardinality(Authorised(s)) /\ k = Cardinality(TokensOf(Authorised(s)))
          /\ n2 = Cardinality(Authorised(s) \cup {a}) /\ k2 = Cardinality(TokensOf(Authorised(s) \cup {a}))
    BY <1>9, <1>10, <1>11, FS_CardinalityType
  <2>2. PICK rounds \in Nat, sent \in Nat, tokens \in Nat, more \in Nat :
          /\ rounds = sessions[s].rounds /\ sent = sessions[s].messages /\ tokens = sessions[s].tokens
          /\ more = MessageData[m].tokens
    <3>1. sessions[s] \in SessionRecords
      BY DEF SessionsInv, SessionsOK
    <3> QED BY <1>8, <3>1 DEF SessionRecords
  <2>3. n <= rounds /\ n <= sent /\ k <= tokens
    BY <1>1, <2>1, <2>2 DEF ChargesOK
  <2>4. n2 <= n + 1 /\ k2 <= k + more
    BY <1>10, <1>11, <2>1, <2>2
  <2>5. rounds + 1 <= MaxRounds /\ sent + 1 <= MaxMessages /\ tokens + more <= MaxTokens
    <3>1. ~(rounds + 1 > MaxRounds) /\ ~(sent + 1 > MaxMessages) /\ ~(tokens + more > MaxTokens)
      BY <2>2 DEF Exceeds
    <3>2. MaxRounds \in Nat /\ MaxMessages \in Nat /\ MaxTokens \in Nat
      BY CommunicationAssumption DEF CommunicationAssumption
    <3> QED BY <3>1, <3>2
  <2>6. MaxRounds \in Nat /\ MaxMessages \in Nat /\ MaxTokens \in Nat
    BY CommunicationAssumption DEF CommunicationAssumption
  <2>7. n2 <= rounds + 1 /\ n2 <= sent + 1 /\ k2 <= tokens + more /\ n2 <= MaxRounds /\ n2 <= MaxMessages /\ k2 <= MaxTokens
    BY <2>3, <2>4, <2>5, <2>6
  <2>8. record.rounds = rounds + 1 /\ record.messages = sent + 1 /\ record.tokens = tokens + more
    BY <1>4, <2>2
  <2>9. Cardinality(Authorised(s))' = n2 /\ Cardinality(TokensOf(Authorised(s)))' = k2
    BY <1>6, <1>7, <2>1
  <2> QED BY <2>7, <2>8, <2>9
<1>13. ASSUME NEW r \in DOMAIN sessions'
       PROVE  /\ Cardinality(Authorised(r))' <= sessions'[r].rounds /\ Cardinality(Authorised(r))' <= sessions'[r].messages
              /\ Cardinality(TokensOf(Authorised(r)))' <= sessions'[r].tokens
              /\ Cardinality(Authorised(r))' <= MaxRounds /\ Cardinality(Authorised(r))' <= MaxMessages
              /\ Cardinality(TokensOf(Authorised(r)))' <= MaxTokens
  <2>1. CASE r = s
    BY <1>5, <1>12, <2>1
  <2>2. CASE r # s
    <3>1. sessions'[r] = sessions[r] /\ r \in DOMAIN sessions
      BY <1>5, <2>2
    <3>2. Authorised(r)' = Authorised(r) /\ TokensOf(Authorised(r))' = TokensOf(Authorised(r))
      BY <1>6, <1>7, <2>2
    <3> QED BY <1>1, <3>1, <3>2 DEF ChargesOK, AuthorisedWithinGrant
  <2> QED BY <2>1, <2>2
<1>14. \A r : IsFiniteSet(TokensOf(Authorised(r)))'
  <2>1. ASSUME NEW r PROVE IsFiniteSet(TokensOf(Authorised(r)))'
    <3>1. CASE r = s
      BY <1>7, <1>10, <3>1
    <3>2. CASE r # s
      BY <1>1, <1>7, <3>2 DEF ChargesOK
    <3> QED BY <3>1, <3>2
  <2> QED BY <2>1
<1>15. IsFiniteSet(decided')
  BY <1>3, <1>9, FS_AddElement
<1>16. \A b \in decided' : b.s \in DOMAIN sessions' /\ <<b.s, b.q>> \in used' /\ (b.allowed => b.m \in Messages)
  BY <1>1, <1>3, <1>5 DEF ChargesOK
<1>17. ChargesOK'
  BY <1>13, <1>14, <1>15, <1>16 DEF ChargesOK
<1>18. AuthorisedWithinGrant'
  BY <1>13 DEF AuthorisedWithinGrant
<1>19. RequestDecidedOnce'
  <2>1. \A b \in decided : ~(b.s = a.s /\ b.q = a.q)
    BY <1>1, <1>3 DEF ChargesOK
  <2> QED BY <1>1, <1>3, <2>1 DEF RequestDecidedOnce
<1> QED BY <1>17, <1>18, <1>19 DEF GrantInv
\* apply_disclosure, authorize_delivery, record_exchange: a request is decided
\* once, and what is allowed stays within the grant.
LEMMA GrantStep ==
  ASSUME GrantInv, SessionsInv, [CommunicationNext]_communicationVars
  PROVE  GrantInv'
<1>1. SessionsInv'
  BY SessionsStep
<1>2. sessions \in Seq(SessionRecords) /\ sessions' \in Seq(SessionRecords)
  BY <1>1 DEF SessionsInv, SessionsOK
<1>3. \A s \in DOMAIN sessions : /\ sessions[s] \in SessionRecords
                                 /\ sessions[s].rounds \in Nat /\ sessions[s].messages \in Nat /\ sessions[s].tokens \in Nat
  <2> TAKE s \in DOMAIN sessions
  <2>1. sessions[s] \in SessionRecords
    BY <1>2
  <2> QED BY <2>1 DEF SessionRecords
<1>4. CASE UNCHANGED <<sessions, used, decided>>
  BY <1>2, <1>3, <1>4, ChargesKept
<1>5. ASSUME NEW s \in DOMAIN sessions, NEW record, sessions' = [sessions EXCEPT ![s] = record], UNCHANGED <<used, decided>>,
             record.rounds >= sessions[s].rounds, record.messages >= sessions[s].messages, record.tokens >= sessions[s].tokens
      PROVE  GrantInv'
  <2>1. /\ DOMAIN sessions' = DOMAIN sessions
        /\ \A r \in DOMAIN sessions : sessions'[r] = IF r = s THEN record ELSE sessions[r]
    BY <1>2, <1>5
  <2>2. \A r \in DOMAIN sessions : /\ sessions'[r].rounds >= sessions[r].rounds
                                   /\ sessions'[r].messages >= sessions[r].messages
                                   /\ sessions'[r].tokens >= sessions[r].tokens
    BY <1>3, <1>5, <2>1
  <2> QED BY <1>2, <1>5, <2>1, <2>2, ChargesKept
<1>6. ASSUME NEW s \in DOMAIN sessions, EndsSession(s), UNCHANGED <<used, decided>>
      PROVE  GrantInv'
  <2>1. PICK record : record = [sessions[s] EXCEPT !.status = "terminated"]
    OBVIOUS
  <2>2. record.rounds = sessions[s].rounds /\ record.messages = sessions[s].messages /\ record.tokens = sessions[s].tokens
    BY <1>3, <2>1, StatusRecord
  <2>3. sessions' = [sessions EXCEPT ![s] = record]
    BY <1>6, <2>1 DEF EndsSession
  <2>4. record.rounds >= sessions[s].rounds /\ record.messages >= sessions[s].messages /\ record.tokens >= sessions[s].tokens
    BY <1>3, <2>2
  <2> QED BY <1>5, <1>6, <2>3, <2>4
<1>7. ASSUME NEW c, OpenSession(c) PROVE GrantInv'
  <2>1. PICK record : sessions' = Append(sessions, record)
    BY <1>7 DEF OpenSession
  <2>2. /\ DOMAIN sessions \subseteq DOMAIN sessions'
        /\ \A r \in DOMAIN sessions : sessions'[r] = sessions[r]
    BY <1>2, <2>1
  <2>3. UNCHANGED <<used, decided>>
    BY <1>7 DEF OpenSession
  <2>4. \A r \in DOMAIN sessions : /\ sessions'[r].rounds >= sessions[r].rounds
                                   /\ sessions'[r].messages >= sessions[r].messages
                                   /\ sessions'[r].tokens >= sessions[r].tokens
    BY <1>3, <2>2
  <2> QED BY <1>2, <2>2, <2>3, <2>4, ChargesKept
<1>8. ASSUME NEW c, NEW s \in DOMAIN sessions, NEW m \in Messages, Disclose(c, s, m) PROVE GrantInv'
  <2>1. sessions' = sessions
    BY <1>8 DEF Disclose
  <2>2. PICK q : q = MessageData[m].request
    OBVIOUS
  <2>3. \/ UNCHANGED <<used, decided>>
        \/ /\ <<s, q>> \notin used /\ used' = used \cup {<<s, q>>}
           /\ decided' = decided \cup {[s |-> s, q |-> q, m |-> "alone", allowed |-> FALSE]}
    BY <1>8, <2>2 DEF Disclose
  <2> QED BY <1>4, <2>1, <2>3, RefusalKept
<1>9. ASSUME NEW c \in Callers, NEW s \in DOMAIN sessions, NEW m \in Messages, PrepareDelivery(c, s, m) PROVE GrantInv'
  <2>1. CASE DecidesNothing(c, s, m)
    BY <1>4, <1>6, <2>1 DEF DecidesNothing
  <2>2. CASE RefusesMessage(c, s, m)
    <3>1. sessions' = sessions \/ EndsSession(s)
      BY <2>2 DEF RefusesMessage
    <3>2. PICK q : q = MessageData[m].request
      OBVIOUS
    <3>3. /\ <<s, q>> \notin used /\ used' = used \cup {<<s, q>>}
          /\ decided' = decided \cup {[s |-> s, q |-> q, m |-> m, allowed |-> FALSE]}
      BY <2>2, <3>2 DEF RefusesMessage, Decides
    <3> QED BY <3>1, <3>3, RefusalKept
  <2>3. CASE AllowsMessage(c, s, m)
    BY <2>3, AllowanceKept DEF AllowsMessage
  <2> QED BY <1>9, <2>1, <2>2, <2>3, PrepareCases
<1>10. ASSUME NEW s \in DOMAIN sessions, NEW aligned \in BOOLEAN, RecordExchange(s, 1, aligned) PROVE GrantInv'
  <2>0. PICK status \in {"open", "terminated"} :
          \E after, record :
            /\ after = [sessions[s] EXCEPT !.rounds = @ + 1, !.messages = @ + 2, !.tokens = @ + 1]
            /\ record = [after EXCEPT !.status = status]
            /\ sessions' = [sessions EXCEPT ![s] = record]
            /\ UNCHANGED <<used, decided>>
    BY <1>10 DEF RecordExchange
  <2>1. PICK after, record :
          /\ after = [sessions[s] EXCEPT !.rounds = @ + 1, !.messages = @ + 2, !.tokens = @ + 1]
          /\ record = [after EXCEPT !.status = status]
          /\ sessions' = [sessions EXCEPT ![s] = record]
          /\ UNCHANGED <<used, decided>>
    BY <2>0
  <2>2. record.rounds >= sessions[s].rounds /\ record.messages >= sessions[s].messages /\ record.tokens >= sessions[s].tokens
    <3>1. PICK t \in SessionRecords, one \in Nat, two \in Nat : t = sessions[s] /\ one = 1 /\ two = 2
      BY <1>3
    <3>2. after = WithMore(t, two, one)
      BY <2>1, <3>1 DEF WithMore
    <3>4. /\ after \in SessionRecords /\ after.rounds = t.rounds + 1
          /\ after.messages = t.messages + two /\ after.tokens = t.tokens + one
      BY <3>2, CountsRecord
    <3>3. record.rounds = after.rounds /\ record.messages = after.messages /\ record.tokens = after.tokens
      BY <2>1, <3>4, StatusRecord
    <3> QED BY <1>3, <3>1, <3>3, <3>4
  <2> QED BY <1>5, <2>1, <2>2
<1>11. ASSUME NEW c, NEW s \in DOMAIN sessions, Terminate(c, s) PROVE GrantInv'
  <2>1. CASE sessions[s].status = "open"
    BY <1>6, <1>11, <2>1 DEF Terminate, EndsSession
  <2>2. CASE sessions[s].status # "open"
    BY <1>4, <1>11, <2>2 DEF Terminate
  <2> QED BY <2>1, <2>2
<1>12. CASE CommunicationRestart
  <2>1. sessions' = <<>> /\ decided' = {} /\ DOMAIN sessions' = {}
    BY <1>12 DEF CommunicationRestart
  <2>2. \A s : Authorised(s)' = {} /\ TokensOf(Authorised(s))' = {}
    BY <2>1 DEF Authorised, TokensOf
  <2>3. ChargesOK'
    BY <2>1, <2>2, FS_EmptySet DEF ChargesOK
  <2> QED BY <2>1, <2>3 DEF GrantInv, AuthorisedWithinGrant, RequestDecidedOnce
<1>13. \/ UNCHANGED <<sessions, used, decided>>
       \/ \E c \in Callers : OpenSession(c)
       \/ \E c \in Callers, s \in DOMAIN sessions : Terminate(c, s) \/ \E m \in Messages : Disclose(c, s, m) \/ PrepareDelivery(c, s, m)
       \/ \E s \in DOMAIN sessions, aligned \in BOOLEAN : RecordExchange(s, 1, aligned)
       \/ CommunicationRestart
  BY DEF CommunicationNext, FabricNext, DeviceNext, communicationVars, fabricVars, RecordEvents, SubmitDelivery, Elapse,
         Authorise, SubmitObservation, RevokeDevice
<1> QED BY <1>4, <1>7, <1>8, <1>9, <1>10, <1>11, <1>12, <1>13

\* The parts of the state a delivery is bound by.
LEMMA DeliveryFacts ==
  ASSUME DeliveryInv
  PROVE  /\ calls = [c \in Callers |-> calls[c]] /\ deliveries = [m \in Messages |-> deliveries[m]]
         /\ \A e \in queue : e.k = "disclosed" =>
              \E a \in decided : /\ a.s = e.s /\ a.q = e.q
                                 /\ \/ e.outcome = "unbound"
                                    \/ a.m \in Messages /\ e.outcome = Decision(MessageData[a.m])
         /\ \A c \in Callers : calls[c].do = "submit" =>
              \E a \in decided : a.s = calls[c].s /\ a.m = calls[c].m /\ a.q = MessageData[a.m].request /\ a.m \in Messages
BY DEF DeliveryInv, DecisionsOK

\* A call that is not a submission, beside events that tell no decision or one
\* that was made, keeps every delivery bound.
LEMMA CallKept ==
  ASSUME DeliveryInv, UNCHANGED deliveries, decided \subseteq decided',
         \/ UNCHANGED calls
         \/ \E c \in Callers : \E call : calls' = [calls EXCEPT ![c] = call] /\ call.do # "submit",
         \A e \in queue' : e.k = "disclosed" =>
           \/ e \in queue
           \/ \E a \in decided' : /\ a.s = e.s /\ a.q = e.q
                                  /\ \/ e.outcome = "unbound"
                                     \/ a.m \in Messages /\ e.outcome = Decision(MessageData[a.m])
  PROVE  DeliveryInv'
<1>1. \A e \in queue' : e.k = "disclosed" =>
        \E a \in decided' : /\ a.s = e.s /\ a.q = e.q
                            /\ \/ e.outcome = "unbound"
                               \/ a.m \in Messages /\ e.outcome = Decision(MessageData[a.m])
  BY DeliveryFacts
<1>2. calls' = [c \in Callers |-> calls'[c]]
  BY DeliveryFacts
<1>3. \A c \in Callers : calls'[c].do = "submit" => calls'[c] = calls[c]
  BY DeliveryFacts
<1>4. \A c \in Callers : calls'[c].do = "submit" =>
        \E a \in decided' : a.s = calls'[c].s /\ a.m = calls'[c].m /\ a.q = MessageData[a.m].request /\ a.m \in Messages
  BY <1>3, DeliveryFacts
<1>5. DecisionsOK'
  BY <1>1, <1>4 DEF DecisionsOK
<1>6. DeliveredAsDecided'
  BY DEF DeliveryInv, DeliveredAsDecided
<1> QED BY <1>2, <1>5, <1>6, DeliveryFacts DEF DeliveryInv
\* delivery_disclosure_is_bound: the decision in a submission's prelude is the
\* one of its own message, whoever emptied the queue.
LEMMA SubmitStep ==
  ASSUME DeliveryInv, GrantInv, NEW c \in Callers, SubmitDelivery(c)
  PROVE  DeliveryInv'
<1>1. /\ calls[c].do = "submit" /\ calls' = [calls EXCEPT ![c] = NoCall] /\ queue' = {} /\ decided' = decided
      /\ \/ /\ DisclosureBound(queue, calls[c])
            /\ deliveries' = [deliveries EXCEPT ![calls[c].m] = {e \in queue : e.k = "disclosed"}]
         \/ deliveries' = deliveries
  BY DEF SubmitDelivery
<1>2. /\ calls' = [d \in Callers |-> calls'[d]]
      /\ \A d \in Callers : calls'[d].do = "submit" => calls'[d] = calls[d]
  <2>1. NoCall.do = "nothing"
    BY DEF NoCall
  <2> QED BY <1>1, <2>1, DeliveryFacts
<1>3. DecisionsOK'
  <2>1. \A d \in Callers : calls'[d].do = "submit" =>
          \E a \in decided' : a.s = calls'[d].s /\ a.m = calls'[d].m /\ a.q = MessageData[a.m].request /\ a.m \in Messages
    BY <1>1, <1>2, DeliveryFacts
  <2> QED BY <1>1, <2>1 DEF DecisionsOK
<1>4. CASE deliveries' = deliveries
  BY <1>2, <1>3, <1>4, DeliveryFacts DEF DeliveryInv, DeliveredAsDecided
<1>5. CASE /\ DisclosureBound(queue, calls[c])
           /\ deliveries' = [deliveries EXCEPT ![calls[c].m] = {e \in queue : e.k = "disclosed"}]
  <2>1. PICK mine \in decided : /\ mine.s = calls[c].s /\ mine.m = calls[c].m
                                /\ mine.q = MessageData[mine.m].request /\ mine.m \in Messages
    BY <1>1, DeliveryFacts
  <2>2. PICK e \in queue : /\ e.k = "disclosed" /\ e.s = calls[c].s
                           /\ e.q = MessageData[mine.m].request /\ Allows(e.outcome)
    BY <1>5, <2>1 DEF DisclosureBound
  <2>3. PICK a \in decided : /\ a.s = e.s /\ a.q = e.q
                             /\ e.outcome = "unbound" \/ (a.m \in Messages /\ e.outcome = Decision(MessageData[a.m]))
    BY <2>2, DeliveryFacts
  <2>4. a = mine
    BY <2>1, <2>2, <2>3 DEF GrantInv, RequestDecidedOnce
  <2>5. e.outcome # "unbound"
    BY <2>2 DEF Allows
  <2>6. e.outcome = Decision(MessageData[mine.m])
    BY <2>3, <2>4, <2>5
  <2>7. PICK m \in Messages : m = mine.m
    BY <2>1
  <2>8. /\ deliveries' = [n \in Messages |-> deliveries'[n]]
        /\ \A n \in Messages : deliveries'[n] = IF n = m THEN {f \in queue : f.k = "disclosed"} ELSE deliveries[n]
    <3>1. PICK prelude : prelude = {f \in queue : f.k = "disclosed"}
      OBVIOUS
    <3>2. deliveries' = [deliveries EXCEPT ![m] = prelude]
      BY <1>5, <2>1, <2>7, <3>1
    <3> QED BY <3>1, <3>2, DeliveryFacts
  <2>9. e \in deliveries'[m] /\ e.q = MessageData[m].request /\ e.outcome = Decision(MessageData[m])
    BY <2>2, <2>6, <2>7, <2>8
  <2>10. DeliveredAsDecided'
    <3>1. ASSUME NEW n \in Messages, deliveries'[n] # {}
          PROVE  \E f \in deliveries'[n] : /\ f.q = MessageData[n].request
                                           /\ f.outcome = Decision(MessageData[n]) /\ Allows(f.outcome)
      <4>1. CASE n = m
        BY <2>2, <2>9, <4>1
      <4>2. CASE n # m
        <5>1. deliveries'[n] = deliveries[n]
          BY <2>8, <4>2
        <5> QED BY <3>1, <5>1 DEF DeliveryInv, DeliveredAsDecided
      <4> QED BY <4>1, <4>2
    <3> QED BY <3>1 DEF DeliveredAsDecided
  <2> QED BY <1>2, <1>3, <2>8, <2>10 DEF DeliveryInv
<1> QED BY <1>1, <1>4, <1>5

\* persist_fabric_events, deliver_external_message: every step keeps deliveries
\* bound to the decisions they were made under.
LEMMA DeliveryStep ==
  ASSUME DeliveryInv, GrantInv, [CommunicationNext]_communicationVars
  PROVE  DeliveryInv'
<1>1. CASE UNCHANGED <<queue, calls, deliveries, decided>>
  BY <1>1, CallKept
<1>2. ASSUME NEW c \in Callers, OpenSession(c) PROVE DeliveryInv'
  <2>1. PICK call, e : /\ call = [do |-> "record", s |-> Len(sessions) + 1] /\ e = Event("opened", Len(sessions) + 1, "none", "none")
    OBVIOUS
  <2>2. call.do = "record" /\ e.k = "opened"
    BY <2>1 DEF Event
  <2>3. calls' = [calls EXCEPT ![c] = call] /\ queue' = queue \cup {e} /\ UNCHANGED <<deliveries, decided>>
    BY <1>2, <2>1 DEF OpenSession
  <2> QED BY <2>2, <2>3, CallKept
<1>3. ASSUME NEW c \in Callers, NEW s \in DOMAIN sessions, Terminate(c, s) PROVE DeliveryInv'
  <2>1. PICK call, e : call = [do |-> "record", s |-> s] /\ e = Ending(s)
    OBVIOUS
  <2>2. call.do = "record" /\ e.k = "terminated"
    BY <2>1 DEF Ending, Event
  <2>3. calls' = [calls EXCEPT ![c] = call] /\ queue' \subseteq queue \cup {e} /\ UNCHANGED <<deliveries, decided>>
    BY <1>3, <2>1 DEF Terminate
  <2> QED BY <2>2, <2>3, CallKept
<1>4. ASSUME NEW c \in Callers, NEW s \in DOMAIN sessions, NEW m \in Messages, Disclose(c, s, m) PROVE DeliveryInv'
  <2>1. PICK call, e, a, q : /\ q = MessageData[m].request /\ call = [do |-> "record", s |-> s]
                             /\ e = Event("disclosed", s, q, "unbound")
                             /\ a = [s |-> s, q |-> q, m |-> "alone", allowed |-> FALSE]
    OBVIOUS
  <2>2. call.do = "record" /\ e.s = s /\ e.q = q /\ e.outcome = "unbound" /\ a.s = s /\ a.q = q
    BY <2>1 DEF Event
  <2>3. /\ calls' = [calls EXCEPT ![c] = call] /\ deliveries' = deliveries
        /\ \/ queue' = queue /\ decided' = decided
           \/ queue' = queue \cup {e} /\ decided' = decided \cup {a}
    BY <1>4, <2>1 DEF Disclose
  <2> QED BY <2>2, <2>3, CallKept
<1>5. ASSUME NEW c \in Callers, NEW s \in DOMAIN sessions, NEW m \in Messages, PrepareDelivery(c, s, m) PROVE DeliveryInv'
  <2>1. PICK e, end, q : e = DecisionEvent(s, m) /\ end = Ending(s) /\ q = MessageData[m].request
    OBVIOUS
  <2>2. /\ e.k = "disclosed" /\ e.s = s /\ e.q = q /\ e.outcome = Decision(MessageData[m])
        /\ end.k = "terminated"
    BY <2>1 DEF DecisionEvent, Ending, Event
  <2>3. deliveries' = deliveries
    BY <1>5, PrepareCases
  <2>4. CASE DecidesNothing(c, s, m)
    <3>1. PICK call : call = [do |-> "record", s |-> s, m |-> m]
      OBVIOUS
    <3>2. call.do = "record"
      BY <3>1
    <3>3. calls' = [calls EXCEPT ![c] = call] /\ queue' \subseteq queue \cup {end} /\ decided' = decided
      BY <2>1, <2>4, <3>1 DEF DecidesNothing
    <3> QED BY <2>2, <2>3, <3>2, <3>3, CallKept
  <2>5. CASE RefusesMessage(c, s, m)
    <3>1. PICK call, a : call = [do |-> "record", s |-> s, m |-> m] /\ a = [s |-> s, q |-> q, m |-> m, allowed |-> FALSE]
      OBVIOUS
    <3>2. call.do = "record" /\ a.s = s /\ a.q = q /\ a.m = m
      BY <3>1
    <3>3. calls' = [calls EXCEPT ![c] = call] /\ queue' \subseteq queue \cup {e, end} /\ decided' = decided \cup {a}
      BY <2>1, <2>5, <3>1 DEF RefusesMessage, Decides
    <3> QED BY <2>2, <2>3, <3>2, <3>3, CallKept
  <2>6. CASE AllowsMessage(c, s, m)
    <3>1. PICK call, a : call = [do |-> "submit", s |-> s, m |-> m] /\ a = [s |-> s, q |-> q, m |-> m, allowed |-> TRUE]
      OBVIOUS
    <3>2. call.do = "submit" /\ call.s = s /\ call.m = m /\ a.s = s /\ a.q = q /\ a.m = m
      BY <3>1
    <3>3. calls' = [calls EXCEPT ![c] = call] /\ queue' = queue \cup {e} /\ decided' = decided \cup {a}
      BY <2>1, <2>6, <3>1 DEF AllowsMessage, Decides
    <3>4. \A f \in queue' : f.k = "disclosed" =>
            \E b \in decided' : /\ b.s = f.s /\ b.q = f.q
                                /\ \/ f.outcome = "unbound"
                                   \/ b.m \in Messages /\ f.outcome = Decision(MessageData[b.m])
      BY <2>2, <3>2, <3>3, DeliveryFacts
    <3>5. /\ calls' = [d \in Callers |-> calls'[d]]
          /\ \A d \in Callers : calls'[d] = IF d = c THEN call ELSE calls[d]
      BY <3>3, DeliveryFacts
    <3>6. \A d \in Callers : calls'[d].do = "submit" =>
            \E b \in decided' : b.s = calls'[d].s /\ b.m = calls'[d].m /\ b.q = MessageData[b.m].request /\ b.m \in Messages
      BY <2>1, <3>2, <3>3, <3>5, DeliveryFacts
    <3>7. DecisionsOK'
      BY <3>4, <3>6 DEF DecisionsOK
    <3> QED BY <2>3, <3>5, <3>7, DeliveryFacts DEF DeliveryInv, DeliveredAsDecided
  <2> QED BY <1>5, <2>4, <2>5, <2>6, PrepareCases
<1>6. ASSUME NEW s \in DOMAIN sessions, NEW aligned \in BOOLEAN, RecordExchange(s, 1, aligned) PROVE DeliveryInv'
  <2>1. PICK e : e = Ending(s)
    OBVIOUS
  <2>2. e.k = "terminated"
    BY <2>1 DEF Ending, Event
  <2>3. queue' \subseteq queue \cup {e} /\ UNCHANGED <<calls, deliveries, decided>>
    BY <1>6, <2>1 DEF RecordExchange
  <2> QED BY <2>2, <2>3, CallKept
<1>7. ASSUME NEW c \in Callers, RecordEvents(c) PROVE DeliveryInv'
  <2>1. NoCall.do = "nothing"
    BY DEF NoCall
  <2>2. calls' = [calls EXCEPT ![c] = NoCall] /\ queue' = {} /\ UNCHANGED <<deliveries, decided>>
    BY <1>7 DEF RecordEvents
  <2> QED BY <2>1, <2>2, CallKept
<1>8. CASE CommunicationRestart
  <2>1. queue' = {} /\ decided' = {} /\ calls' = [c \in Callers |-> NoCall] /\ deliveries' = deliveries
    BY <1>8 DEF CommunicationRestart
  <2>2. NoCall.do = "nothing"
    BY DEF NoCall
  <2>3. calls' = [c \in Callers |-> calls'[c]] /\ \A c \in Callers : calls'[c].do = "nothing"
    BY <2>1, <2>2
  <2>4. DecisionsOK'
    BY <2>1, <2>3 DEF DecisionsOK
  <2> QED BY <2>1, <2>3, <2>4, DeliveryFacts DEF DeliveryInv, DeliveredAsDecided
<1>9. \/ UNCHANGED <<queue, calls, deliveries, decided>>
      \/ \E c \in Callers : OpenSession(c) \/ RecordEvents(c) \/ SubmitDelivery(c)
      \/ \E c \in Callers, s \in DOMAIN sessions : Terminate(c, s) \/ \E m \in Messages : Disclose(c, s, m) \/ PrepareDelivery(c, s, m)
      \/ \E s \in DOMAIN sessions, aligned \in BOOLEAN : RecordExchange(s, 1, aligned)
      \/ CommunicationRestart
  BY DEF CommunicationNext, FabricNext, DeviceNext, communicationVars, fabricVars, Elapse, Authorise, SubmitObservation, RevokeDevice
<1> QED BY <1>1, <1>2, <1>3, <1>4, <1>5, <1>6, <1>7, <1>8, <1>9, SubmitStep

\* normalize_observation, revoke_with_event: the memory is revoked before the
\* log says so.
LEMMA DeviceStep ==
  ASSUME DeviceInv, [CommunicationNext]_communicationVars
  PROVE  DeviceInv'
<1>1. /\ device.revoked \in BOOLEAN /\ device.logged \in BOOLEAN /\ (device.logged => device.revoked)
      /\ device = [revoked |-> device.revoked, logged |-> device.logged, held |-> device.held, submitted |-> device.submitted]
      /\ \A h \in device.held \cup device.submitted : ~h.late
  BY DEF DeviceInv, DeviceOK, RevocationStops
<1>2. ASSUME NEW revoked \in BOOLEAN, NEW logged \in BOOLEAN, NEW held, NEW submitted,
             device' = [revoked |-> revoked, logged |-> logged, held |-> held, submitted |-> submitted],
             logged => revoked, \A h \in held \cup submitted : ~h.late
      PROVE  DeviceInv'
  <2>1. device'.revoked = revoked /\ device'.logged = logged /\ device'.held = held /\ device'.submitted = submitted
    BY <1>2
  <2> QED BY <1>2, <2>1 DEF DeviceInv, DeviceOK, RevocationStops
<1>3. PICK revoked, logged, held, submitted :
        /\ revoked \in BOOLEAN /\ logged \in BOOLEAN
        /\ device = [revoked |-> revoked, logged |-> logged, held |-> held, submitted |-> submitted]
        /\ revoked = device.revoked /\ logged = device.logged /\ held = device.held /\ submitted = device.submitted
        /\ logged => revoked
        /\ \A h \in held \cup submitted : ~h.late
  <2>1. PICK revoked, logged, held, submitted :
          revoked \in BOOLEAN /\ logged \in BOOLEAN /\ revoked = device.revoked /\ logged = device.logged /\ held = device.held /\ submitted = device.submitted
    BY <1>1
  <2>2. device = [revoked |-> revoked, logged |-> logged, held |-> held, submitted |-> submitted]
    BY <1>1, <2>1
  <2>3. (logged => revoked) /\ \A h \in held \cup submitted : ~h.late
    BY <1>1, <2>1
  <2> QED BY <2>1, <2>2, <2>3
<1>4. CASE device' = device
  BY <1>2, <1>3, <1>4
<1>5. ASSUME NEW o, Authorise(o) PROVE DeviceInv'
  <2>1. PICK h : h = [o |-> o, until |-> clock + RetentionTtl, late |-> logged]
    OBVIOUS
  <2>2. h.late = FALSE
    BY <1>3, <1>5, <2>1 DEF Authorise
  <2>3. device' = [device EXCEPT !.held = @ \cup {h}]
    BY <1>3, <1>5, <2>1 DEF Authorise
  <2>4. device' = [revoked |-> revoked, logged |-> logged, held |-> held \cup {h}, submitted |-> submitted]
    BY <1>3, <2>3
  <2> QED BY <1>2, <1>3, <2>2, <2>4
<1>6. ASSUME NEW h \in device.held, SubmitObservation(h) PROVE DeviceInv'
  <2>1. device' = [device EXCEPT !.submitted = @ \cup {h}]
    BY <1>6 DEF SubmitObservation
  <2>2. device' = [revoked |-> revoked, logged |-> logged, held |-> held, submitted |-> submitted \cup {h}]
    BY <1>3, <2>1
  <2> QED BY <1>2, <1>3, <2>2
<1>7. CASE RevokeDevice
  <2>1. PICK appended \in BOOLEAN : device' = [device EXCEPT !.revoked = TRUE, !.logged = @ \/ appended]
    BY <1>7 DEF RevokeDevice
  <2>2. PICK now \in BOOLEAN : now = (logged \/ appended)
    OBVIOUS
  <2>3. device' = [revoked |-> TRUE, logged |-> now, held |-> held, submitted |-> submitted]
    BY <1>3, <2>1, <2>2
  <2> QED BY <1>2, <1>3, <2>3
<1>8. CASE CommunicationRestart
  <2>1. device' = [device EXCEPT !.revoked = FALSE, !.logged = FALSE, !.held = {}]
    BY <1>8 DEF CommunicationRestart
  <2>2. PICK no, none : no \in BOOLEAN /\ no = FALSE /\ none = {}
    OBVIOUS
  <2>3. device' = [device EXCEPT !.revoked = no, !.logged = no, !.held = none]
    BY <2>1, <2>2
  <2>4. device' = [revoked |-> no, logged |-> no, held |-> none, submitted |-> submitted]
    BY <1>3, <2>3
  <2> QED BY <1>2, <1>3, <2>2, <2>4
<1>9. \/ device' = device
      \/ \E o \in Observations : Authorise(o)
      \/ \E h \in device.held : SubmitObservation(h)
      \/ RevokeDevice \/ CommunicationRestart
  BY PrepareCases DEF CommunicationNext, FabricNext, DeviceNext, communicationVars, fabricVars, OpenSession, RecordEvents, SubmitDelivery,
         Terminate, Disclose, RecordExchange, Elapse
<1> QED BY <1>4, <1>5, <1>6, <1>7, <1>8, <1>9

\* Before the first session.
LEMMA CommunicationInitInv == CommunicationInit => CommunicationInv
<1> SUFFICES ASSUME CommunicationInit PROVE CommunicationInv
  OBVIOUS
<1>1. /\ clock = 0 /\ sessions = <<>> /\ queue = {} /\ decided = {}
      /\ calls = [c \in Callers |-> NoCall] /\ endings = [s \in 1..MaxSessions |-> 0]
      /\ deliveries = [m \in Messages |-> {}]
      /\ device = [revoked |-> FALSE, logged |-> FALSE, held |-> {}, submitted |-> {}]
  BY DEF CommunicationInit
<1>2. MaxSessions \in Nat
  BY CommunicationAssumption DEF CommunicationAssumption
<1>3. SessionsInv
  <2>1. sessions \in Seq(SessionRecords) /\ Len(sessions) = 0 /\ DOMAIN sessions = {}
    BY <1>1
  <2> QED BY <1>1, <1>2, <2>1 DEF SessionsInv, SessionsOK, EndedOnce
<1>4. GrantInv
  <2>1. \A s : TokensOf(Authorised(s)) = {}
    BY <1>1 DEF Authorised, TokensOf
  <2>2. DOMAIN sessions = {}
    BY <1>1
  <2>4. IsFiniteSet({})
    BY FS_EmptySet
  <2>5. IsFiniteSet(decided) /\ \A s : IsFiniteSet(TokensOf(Authorised(s)))
    BY <1>1, <2>1, <2>4
  <2>3. ChargesOK
    BY <1>1, <2>2, <2>5 DEF ChargesOK
  <2> QED BY <1>1, <2>2, <2>3 DEF GrantInv, AuthorisedWithinGrant, RequestDecidedOnce
<1>5. DeliveryInv
  <2>1. \A c \in Callers : calls[c].do = "nothing"
    BY <1>1 DEF NoCall
  <2> QED BY <1>1, <2>1 DEF DeliveryInv, DeliveredAsDecided, DecisionsOK
<1>6. DeviceInv
  <2>1. device.revoked = FALSE /\ device.logged = FALSE /\ device.held = {} /\ device.submitted = {}
    BY <1>1
  <2> QED BY <1>1, <2>1 DEF DeviceInv, DeviceOK, RevocationStops
<1> QED BY <1>3, <1>4, <1>5, <1>6 DEF CommunicationInv

\* ExternalSessionFabric, DeviceChannelAdapter: for any callers, messages, rules
\* and limits what a session authorises stays within its grant, every request is
\* decided once, a delivery carries the decision of its own message, a session's
\* end is announced once, and a device is not listened to once its revocation is
\* in the log.
THEOREM CommunicationStaysSound == PeersSpec => []CommunicationIsSound
<1>1. PeersInit => CommunicationInv
  BY CommunicationInitInv DEF PeersInit
<1>2. CommunicationInv /\ [PeersNext]_peersVars => CommunicationInv'
  <2> SUFFICES ASSUME CommunicationInv, [PeersNext]_peersVars PROVE CommunicationInv'
    OBVIOUS
  <2>1. [CommunicationNext]_communicationVars
    BY ServicesStep DEF CommunicationNext
  <2> QED BY <2>1, SessionsStep, GrantStep, DeliveryStep, DeviceStep DEF CommunicationInv
<1>3. CommunicationInv => CommunicationIsSound
  BY DEF CommunicationInv, SessionsInv, GrantInv, DeliveryInv, DeviceInv, CommunicationIsSound
<1> QED BY <1>1, <1>2, <1>3, PTL DEF PeersSpec
=============================================================================
