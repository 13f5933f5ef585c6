------------------------------- MODULE Replica -------------------------------
(***************************************************************************)
(* Replication of one run's event stream to one read-only peer (M4):       *)
(* export and acknowledgement in the authority (export_replication and     *)
(* acknowledge_replication of the SQLite store, called through             *)
(* FederationRuntime) and the replica's own database                       *)
(* (ReplicaSqliteStore).  The authority exports from its checkpoint, the   *)
(* replica applies a batch at its cursor, and an acknowledgement that      *)
(* comes back moves the checkpoint, by an event of the same stream.        *)
(* Batches and acknowledgements are lost, repeated and reordered: both are *)
(* kept in sets from which any may be delivered, or never.                 *)
(*                                                                         *)
(* Abstracted: a peer's grant version (a new grant starts a new epoch),    *)
(* clocks, digests (they stand for what they cover) and the CAS of the     *)
(* registry version (a caller that loses it changes nothing).              *)
(***************************************************************************)
EXTENDS Naturals, Sequences, FiniteSets

CONSTANTS
  NoBatch,
  MaxStream,         \* bound: events of the run
  MaxPeerEpoch,      \* bound: registrations and revocations of peers
  MaxExports         \* bound: different batches exported

ASSUME ReplicaAssumption ==
  MaxStream \in Nat \ {0, 1} /\ MaxPeerEpoch \in Nat \ {0} /\ MaxExports \in Nat

VARIABLES
  stream,            \* the run's events in the authority, their kinds
  peerEpoch,         \* federation_state.authority_epoch
  peerActive,        \* the replica's grant is not revoked
  checkpoint,        \* replication_checkpoints.stream_seq
  exports,           \* replication_exports: the batches ever handed out
  preparing,         \* the batch an export has read, not yet recorded
  binding,           \* the epoch the replica process was started with
  copy,              \* replica_events: what the replica holds, in order
  cursor,            \* replica_cursors: the epoch stored, 0 when no row is
  batches,           \* replica_batches
  acks,              \* acknowledgements made of the replica's reports
  kept               \* the replica's database was never thrown away

authority == <<stream, peerEpoch, peerActive, checkpoint, exports, preparing>>
replica == <<binding, copy, cursor, batches>>
replicaVars == <<authority, replica, acks, kept>>

\* What replication_transfer_event and validate_replica_events tell apart.
Raw == {"raw"}                          \* RunAccepted, deltas, proposed calls
Control == {"checkpoint"}               \* federation control events
Kinds == {"bound", "note"} \cup Raw \cup Control

Transferred == [kind : Kinds, full : BOOLEAN]

\* Fault: only federation control events are redacted.
TransferRaw(kind) == [kind |-> kind, full |-> kind \notin Control]
Transfer(kind) == [kind |-> kind, full |-> kind \notin Raw \cup Control]

TransferOf(from, to) == [i \in 1 .. to - from |-> Transfer(stream[from + i])]

-------------------------------------------------------------------------------
(* The authority.                                                            *)

\* The run goes on.
Append1(kind) ==
  /\ Len(stream) < MaxStream
  /\ stream' = Append(stream, kind)
  /\ UNCHANGED <<peerEpoch, peerActive, checkpoint, exports, preparing, replica, acks, kept>>

\* register_peer of any peer and revoke_peer of another one.
RegistryMoves ==
  /\ peerEpoch < MaxPeerEpoch
  /\ peerEpoch' = peerEpoch + 1
  /\ UNCHANGED <<stream, peerActive, checkpoint, exports, preparing, replica, acks, kept>>

\* A revoked peer is never registered again (validate_federation_transition).
RevokeReplica ==
  /\ peerActive /\ peerEpoch < MaxPeerEpoch
  /\ peerActive' = FALSE
  /\ peerEpoch' = peerEpoch + 1
  /\ UNCHANGED <<stream, checkpoint, exports, preparing, replica, acks, kept>>

HasNewEvents(to) == to > checkpoint

\* export_replication up to its transaction; the request is made for the
\* current epoch, after the checkpoint.
PrepareExport(limit) ==
  LET to == IF checkpoint + limit < Len(stream) THEN checkpoint + limit ELSE Len(stream) IN
  /\ preparing = NoBatch /\ peerActive
  /\ \E i \in DOMAIN stream : stream[i] = "bound"
  /\ HasNewEvents(to)
  /\ preparing' = [from |-> checkpoint, to |-> to, epoch |-> peerEpoch, events |-> TransferOf(checkpoint, to)]
  /\ UNCHANGED <<stream, peerEpoch, peerActive, checkpoint, exports, replica, acks, kept>>

\* Fault: the transaction trusts what the export read before it.
TrustsFirstRead(b) == TRUE
StillExportable(b) == peerActive /\ b.epoch = peerEpoch

\* Its transaction: the peer and the epoch are read again, the checkpoint is
\* not; a batch recorded before is returned as it is.
RecordExport ==
  /\ preparing # NoBatch /\ StillExportable(preparing)
  /\ preparing \in exports \/ Cardinality(exports) < MaxExports
  /\ exports' = exports \cup {preparing}
  /\ preparing' = NoBatch
  /\ UNCHANGED <<stream, peerEpoch, peerActive, checkpoint, replica, acks, kept>>

ExportRefused ==
  /\ preparing # NoBatch /\ ~StillExportable(preparing)
  /\ preparing' = NoBatch
  /\ UNCHANGED <<stream, peerEpoch, peerActive, checkpoint, exports, replica, acks, kept>>

\* Fault: the checkpoint is not compared with the start of the batch.
AdvancesAnywhere(ack) == TRUE
AdvancesCheckpoint(ack) == checkpoint = ack.batch.from

AckBinds(ack) == peerActive /\ ack.batch.epoch = peerEpoch /\ ack.applied = ack.batch.to

\* acknowledge_replication and update_federation_projection: the event that
\* records the checkpoint joins the replicated stream.
Acknowledge(ack) ==
  /\ Len(stream) < MaxStream
  /\ ack.batch \in exports /\ AckBinds(ack) /\ AdvancesCheckpoint(ack)
  /\ checkpoint' = ack.applied
  /\ stream' = Append(stream, "checkpoint")
  /\ UNCHANGED <<peerEpoch, peerActive, exports, preparing, replica, acks, kept>>

-------------------------------------------------------------------------------
(* The replica.                                                              *)

\* Fault: a batch that starts beyond the cursor is applied too.
BeyondCursor(b) == b.from >= Len(copy) /\ cursor \in {0, b.epoch}
AtCursor(b) == b.from = Len(copy) /\ cursor \in {0, b.epoch}

\* validate_replica_events: what the replica refuses even from its authority.
SafeForReplica(event) == event.full => event.kind \notin Raw \cup Control

\* Fault: replica_batches is not written.
NotRecorded(b) == batches
Recorded(b) == batches \cup {b}

\* Fault: the cursor's row is not written.
KeepsCursor == cursor
StoresCursor == binding

\* ReplicaSqliteStore::apply, called with the replica's own cursor.
Apply(b) ==
  /\ b.epoch = binding /\ \A i \in DOMAIN b.events : SafeForReplica(b.events[i])
  /\ b \notin batches /\ AtCursor(b)
  /\ copy' = copy \o b.events
  /\ cursor' = StoresCursor
  /\ batches' = Recorded(b)
  /\ acks' = acks \cup {[batch |-> b, applied |-> b.to]}
  /\ UNCHANGED <<authority, binding, kept>>

\* A batch met again: the report carries the cursor the replica has now.
ApplyAgain(b) ==
  /\ b.epoch = binding /\ b \in batches
  /\ acks' = acks \cup {[batch |-> b, applied |-> Len(copy)]}
  /\ UNCHANGED <<authority, replica, kept>>

\* forme-replicad is started again with the epoch its owner configures.
Rebind ==
  /\ binding # peerEpoch
  /\ binding' = peerEpoch
  /\ UNCHANGED <<authority, copy, cursor, batches, acks, kept>>

\* The replica's database is thrown away: it is a projection.
Discard ==
  /\ copy # <<>>
  /\ copy' = <<>> /\ cursor' = 0 /\ batches' = {} /\ kept' = FALSE
  /\ UNCHANGED <<authority, binding, acks>>

-------------------------------------------------------------------------------
ReplicaInit ==
  /\ stream = <<"raw", "bound">>
  /\ peerEpoch = 1 /\ peerActive = TRUE
  /\ checkpoint = 0 /\ exports = {} /\ preparing = NoBatch
  /\ binding = 1 /\ copy = <<>> /\ cursor = 0 /\ batches = {}
  /\ acks = {} /\ kept = TRUE

ReplicaNext ==
  \/ \E kind \in {"raw", "note"} : Append1(kind)
  \/ RegistryMoves
  \/ RevokeReplica
  \/ \E limit \in 1 .. MaxStream : PrepareExport(limit)
  \/ RecordExport
  \/ ExportRefused
  \/ \E ack \in acks : Acknowledge(ack)
  \/ \E b \in exports : Apply(b)
  \/ \E b \in exports : ApplyAgain(b)
  \/ Rebind
  \/ Discard

-------------------------------------------------------------------------------
BatchOf(b) ==
  /\ b.from < b.to /\ b.to <= Len(stream) /\ b.epoch \in 1 .. peerEpoch
  /\ b.events = TransferOf(b.from, b.to)

\* The tables hold what their columns allow, and every batch ever handed out
\* is a piece of the stream.
ReplicaTypeOK ==
  /\ stream \in Seq(Kinds) /\ Len(stream) <= MaxStream
  /\ peerEpoch \in 1 .. MaxPeerEpoch /\ peerActive \in BOOLEAN
  /\ checkpoint \in 0 .. Len(stream) /\ kept \in BOOLEAN
  /\ \A b \in exports : BatchOf(b)
  /\ preparing # NoBatch => BatchOf(preparing)
  /\ binding \in 1 .. peerEpoch /\ cursor \in 0 .. peerEpoch
  /\ (cursor = 0) = (copy = <<>>)
  /\ copy \in Seq(Transferred) /\ batches \subseteq exports
  /\ \A ack \in acks : ack.batch \in exports /\ ack.applied \in ack.batch.to .. Len(stream)

\* Whatever batches are lost, repeated or late, and however often the replica
\* is thrown away or bound to a new epoch, it holds a prefix of the stream, in
\* order and without holes (ReplicaSqliteStore::apply).
ReplicaIsPrefix ==
  /\ Len(copy) <= Len(stream)
  /\ copy = TransferOf(0, Len(copy))

\* Raw input, proposed calls and federation control never leave the authority
\* in clear, by whatever batch they leave (replication_transfer_event).
RawStaysHome ==
  \A b \in exports : \A i \in DOMAIN b.events :
    stream[b.from + i] \in Raw \cup Control => ~b.events[i].full

\* As long as the epoch its cursor was stored in lasts and its database is
\* kept, a replica that got ahead of the checkpoint, because acknowledgements
\* were lost, applied a batch that the authority still knows and whose
\* acknowledgement takes the checkpoint to where the replica is.
CheckpointCanCatchUp ==
  peerActive /\ binding = peerEpoch /\ cursor \in {0, peerEpoch} /\ kept
    => \/ checkpoint = Len(copy)
       \/ \E b \in exports \cap batches : b.from = checkpoint /\ b.to = Len(copy)

\* A late or repeated acknowledgement never takes the checkpoint back, so no
\* event is handed out for acknowledgement twice (validate_federation_transition).
CheckpointAdvances == checkpoint' >= checkpoint

\* Nothing is handed out to a peer that was revoked, or under a grant that was
\* replaced, while the export was being prepared (export_replication reads the
\* peer twice).
ExportsAreCurrent == \A b \in exports' \ exports : peerActive /\ b.epoch = peerEpoch

\* What replication promises of the states it reaches (export_replication,
\* ReplicaSqliteStore::apply, acknowledge_replication).
ReplicaIsSound == ReplicaTypeOK /\ ReplicaIsPrefix /\ RawStaysHome /\ CheckpointCanCatchUp
===============================================================================
