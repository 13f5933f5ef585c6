-------------------------------- MODULE Sync --------------------------------
(***************************************************************************)
(* Cross-device sync of one aggregate (M2-C): export_sync_batch of the     *)
(* source's store, SyncTransferBatch::into_authoritative_write on the way, *)
(* and apply_sync_batch of the target's store, which is a full event store *)
(* of its own: its harness may write to the aggregate too.  Both stores    *)
(* are configured with the one owner-bound peer.  A batch is asked for     *)
(* from any version, and may be lost, repeated and reordered: as the       *)
(* source's stream only grows, any batch ever exported can be exported     *)
(* again, so the network is the set of them.                               *)
(*                                                                         *)
(* An event is known by its id; the target's own events are all Local.     *)
(* Abstracted: scopes, forbidden keys and markers, which make an event     *)
(* sensitive; identities with a marker, which refuse the whole export.     *)
(***************************************************************************)
EXTENDS Naturals, Sequences

CONSTANTS
  Local,             \* an event the target's own harness appended
  MaxSource,         \* bound: events of the aggregate at the source
  MaxTarget          \* bound: events of the aggregate at the target

ASSUME SyncAssumption == MaxSource \in Nat /\ MaxTarget \in Nat /\ Local \notin Nat

VARIABLES
  source,            \* the aggregate at the source: is the event sensitive
  target,            \* the aggregate at the target: ids of the source's events
                     \* (their position there) and Local
  synced,            \* sync_batches at the target
  exported,          \* sync_cursors.exported_version at the source
  appliedTo          \* sync_cursors.applied_version at the target

syncVars == <<source, target, synced, exported, appliedTo>>

Larger(a, b) == IF a > b THEN a ELSE b
Ids(stream) == {stream[i] : i \in DOMAIN stream} \ {Local}

\* Appends in the two stores, outside sync.
SourceAppends(sensitive) ==
  /\ Len(source) < MaxSource
  /\ source' = Append(source, sensitive)
  /\ UNCHANGED <<target, synced, exported, appliedTo>>

TargetAppends ==
  /\ Len(target) < MaxTarget
  /\ target' = Append(target, Local)
  /\ UNCHANGED <<source, synced, exported, appliedTo>>

\* export_sync_batch; the cursor tells what was exported, the request says
\* from where.
ExportSync(after, limit) ==
  LET to == IF after + limit < Len(source) THEN after + limit ELSE Len(source) IN
  /\ after <= Len(source)
  /\ exported' = Larger(exported, to)
  /\ UNCHANGED <<source, target, synced, appliedTo>>

\* Fault: a redacted event is written as if it were the event.
IntoWriteRedacted(b) == b.from < b.to
\* Fault: an empty batch is entered too.
IntoWriteEmpty(b) == \A i \in b.from + 1 .. b.to : ~source[i]
\* into_authoritative_write and SyncWriteBatch::validate
IntoWrite(b) == b.from < b.to /\ \A i \in b.from + 1 .. b.to : ~source[i]

\* Fault: the target may be ahead of the version the batch expects.
AtLeastExpected(b) == Len(target) >= b.from
AtExpected(b) == Len(target) = b.from

\* Fault: the batch is not entered in the ledger.
RecordNothing(b) == synced
RecordBatch(b) == synced \cup {b}

\* apply_sync_batch: an event that is there already fails the whole batch.
ApplySync(b) ==
  /\ IntoWrite(b) /\ b \notin synced /\ AtExpected(b)
  /\ b.from + 1 .. b.to \cap Ids(target) = {}
  /\ Len(target) + b.to - b.from <= MaxTarget
  /\ target' = target \o [i \in 1 .. b.to - b.from |-> b.from + i]
  /\ synced' = RecordBatch(b)
  /\ appliedTo' = Larger(appliedTo, b.to)
  /\ UNCHANGED <<source, exported>>

\* Repeated: reported as a duplicate, with the versions of the first time.
ApplySyncAgain(b) == b \in synced /\ UNCHANGED syncVars

\* The aggregate is at another version: a conflict, nothing is written.
SyncConflicts(b) == IntoWrite(b) /\ b \notin synced /\ ~AtExpected(b) /\ UNCHANGED syncVars

SyncInit ==
  /\ source = <<>> /\ target = <<>> /\ synced = {}
  /\ exported = 0 /\ appliedTo = 0

SyncBatches == {b \in [from : 0 .. exported, to : 0 .. exported] : b.from <= b.to}

SyncNext ==
  \/ \E sensitive \in BOOLEAN : SourceAppends(sensitive)
  \/ TargetAppends
  \/ \E after \in 0 .. MaxSource, limit \in 1 .. MaxSource : ExportSync(after, limit)
  \/ \E b \in SyncBatches : ApplySync(b)
  \/ \E b \in SyncBatches : ApplySyncAgain(b)
  \/ \E b \in SyncBatches : SyncConflicts(b)

-------------------------------------------------------------------------------
SyncTypeOK ==
  /\ source \in Seq(BOOLEAN) /\ Len(source) <= MaxSource
  /\ Len(target) <= MaxTarget /\ Ids(target) \subseteq DOMAIN source
  /\ \A b \in synced : b.from < b.to
  /\ exported \in 0 .. Len(source) /\ appliedTo \in 0 .. Len(target)

\* Whatever batches overlap, are repeated or overtake each other, and whatever
\* the target writes itself, an event that was synced stands where it stood at
\* the source, so it is there once and in order (apply_sync_batch: the
\* expected version, and the events' own numbers).
SyncedInPlace ==
  \A i \in DOMAIN target : target[i] # Local => target[i] = i

\* The ledger and the stream are committed together: a batch is answered as a
\* duplicate exactly if all of its events are there, and every event that is
\* there is some batch's (sync_batches, append_prepared).
SyncLedgerMatches ==
  Ids(target) = UNION {b.from + 1 .. b.to : b \in synced}

\* What the source withheld from a batch never becomes an event of the target
\* (into_authoritative_write).
WithheldStaysAtSource == \A i \in Ids(target) : ~source[i]

\* What cross-device sync promises (export_sync_batch, apply_sync_batch).
SyncIsSound == SyncTypeOK /\ SyncedInPlace /\ SyncLedgerMatches /\ WithheldStaysAtSource
===============================================================================
