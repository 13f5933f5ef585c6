----------------------------- MODULE EventStore -----------------------------
(***************************************************************************)
(* The append-only event store of crates/store (sqlite.rs, schema.rs,      *)
(* cursor.rs, projection.rs): one SQLite file shared by several store      *)
(* handles.  A handle is one SqliteEventStore value: its connection mutex  *)
(* and SQLite's IMMEDIATE transactions make every transaction of the code  *)
(* one step here, and everything the code does outside a transaction (the  *)
(* rebuild's capture and fold, an upcaster registration between its commit *)
(* and its insertion in the graph, a cursor between two pages) is a step   *)
(* of its own that other handles interleave with.                          *)
(*                                                                         *)
(* Abstractions.  An event's kind, payload and provenance are one "body";  *)
(* all bodies share one payload type, so one schema version per handle.    *)
(* The checksum and the two semantic encodings are injective encodings of  *)
(* the row.  The session_state and transcript rows of a run are updated    *)
(* and checked together, so they are one cache: the sequence of decoded    *)
(* events folded so far, whose length is the row's last_stream_seq and     *)
(* which is empty when there is no row.  A call that returns an error      *)
(* rolls its transaction back and is a stuttering step.                    *)
(***************************************************************************)
EXTENDS Naturals, Sequences, FiniteSets

CONSTANTS
  Handles,       \* open store handles
  Runs,          \* run ids (the aggregates)
  Ids,           \* event ids
  Keys,          \* domain idempotency keys
  Bodies,        \* kind, payload and provenance of an event
  TextBodies,    \* the bodies with searchable text
  Inputs,        \* the events clients submit (a subset of Event)
  MaxSchema,     \* highest schema version of the payload type
  Schema,        \* Schema[h]: the current schema version of handle h
  FtsHandles,    \* handles opened with fts_enabled
  Edges,         \* upcaster registrations clients make
  None,          \* no key, no edge, no run
  Maintainers,   \* handles on which a cache rebuild is called
  Writers,       \* clients that write with an expected version
  Cursors,       \* event cursors
  PageSize,      \* StoreOptions.cursor_page_size
  CacheLosses    \* bound on losses of derived cache rows

SchemaVersion == 1..MaxSchema

Event == [id: Ids, run: Runs, key: Keys \cup {None}, body: Bodies,
          schema: SchemaVersion]

UpcasterEdge == [from: SchemaVersion, to: SchemaVersion, impl: STRING]

ASSUME StoreAssumption ==
  /\ MaxSchema \in Nat \ {0}
  /\ None \notin Keys /\ None \notin Edges /\ None \notin Runs
  /\ TextBodies \subseteq Bodies
  /\ Inputs \subseteq Event
  /\ Schema \in [Handles -> SchemaVersion]
  /\ FtsHandles \subseteq Handles
  /\ Maintainers \subseteq Handles
  /\ Edges \subseteq UpcasterEdge
  /\ PageSize \in Nat \ {0}
  /\ CacheLosses \in Nat

VARIABLES
  events,      \* table events: rows [event, seq]
  keys,        \* table idempotency_keys: rows [key, id, sem]
  caches,      \* tables session_state and transcript
  fts,         \* table events_fts: rows [id, text]
  coverage,    \* table fts_coverage: {} or one row
  migrations,  \* table schema_migrations
  graph,       \* graph[h]: the in-memory UpcasterGraph of handle h
  reg,         \* reg[h]: the edge whose registration holds h's lock
  rebuild,     \* rebuild[h]: progress of rebuild_builtin_projections
  cursor,      \* cursor[c]: an EventCursor
  seen,        \* seen[w]: the aggregate version writer w has read
  acks,        \* history: what successful appends returned
  casWins,     \* history: expected appends answered Applied
  losses       \* number of cache losses so far

dbVars == <<events, keys, caches, fts, coverage, migrations>>
clientVars == <<cursor, seen, acks, casWins>>
vars == <<dbVars, graph, reg, rebuild, clientVars, losses>>

-----------------------------------------------------------------------------
(* Upcaster graphs and decoding                                            *)

\* UpcasterGraph::plan: the upcasting steps from a stored schema version to
\* the target; the empty set when the chain is missing, overshoots the
\* target, or would be a downgrade.
Plan(g, from, target) ==
  LET steps[v \in 1..target] ==
        IF v = target
        THEN {<<>>}
        ELSE UNION {{<<e.impl>> \o rest : rest \in steps[e.to]} :
                      e \in {x \in g : x.from = v /\ x.to > v /\ x.to <= target}}
  IN  IF from > target THEN {} ELSE steps[from]

\* StoredEvent::decode: a row read through a graph at a target schema; the
\* empty set is the decode error.
Decode(row, g, target) ==
  {[id |-> row.event.id, body |-> row.event.body, via |-> p] :
     p \in Plan(g, row.event.schema, target)}

\* UpcasterGraph::validate_registration; its cycle check never fires because
\* every edge goes up.
ValidRegistration(g, e) ==
  /\ e.to > e.from
  /\ \A x \in g : x.from = e.from => x = e

-----------------------------------------------------------------------------
(* The tables                                                              *)

RunRows(r) == {row \in events : row.event.run = r}

\* aggregate_version_in_transaction: COALESCE(MAX(stream_seq), 0).
Version(r) ==
  IF RunRows(r) = {} THEN 0
  ELSE CHOOSE n \in {row.seq : row \in RunRows(r)} :
         \A row \in RunRows(r) : row.seq <= n

\* event_semantic_bytes is the whole envelope without stream_seq;
\* domain_semantic_bytes leaves out the envelope ids.
DomainSem(e) == [key |-> e.key, body |-> e.body, schema |-> e.schema]

\* The rows of run r, ordered by stream_seq, from a captured event set.
Stream(rows, r) ==
  LET mine == {row \in rows : row.event.run = r}
  IN  CHOOSE s \in [1..Cardinality(mine) -> mine] :
        \A i, j \in DOMAIN s : i < j => s[i].seq < s[j].seq

Searchable(rows) == {row \in rows : row.event.body \in TextBodies}

Coverage(rows, h) == [events |-> rows, schema |-> Schema[h], graph |-> graph[h]]

\* Whether the full-text index is current for handle h, as append_prepared
\* and search both decide it.
FtsCurrent(h) ==
  \/ coverage = {Coverage(events, h)}
  \/ coverage = {} /\ events = {}

Locked(h) == reg[h] # None

-----------------------------------------------------------------------------
(* append_prepared                                                         *)

SameId(e) == {row \in events : row.event.id = e.id}
SameKey(e) == {k \in keys : e.key # None /\ k.key = e.key}

\* Fault: a claimed key answers its event whatever the new request says.
DuplicateByKey(e, id) ==
  \/ id = e.id /\ \E row \in SameId(e) : row.event = e
  \/ SameId(e) = {} /\ \E k \in SameKey(e) : k.id = id

\* An exact retry: the same event id, or a new envelope for a claimed
\* domain key with the same semantics.  It answers the original id and
\* writes nothing.  Different semantics are an error.
DuplicateOf(e, id) ==
  \/ id = e.id /\ \E row \in SameId(e) : row.event = e
  \/ SameId(e) = {} /\ \E k \in SameKey(e) : k.id = id /\ k.sem = DomainSem(e)

\* Faults: one of the three checks is missing.
FreshAnyId(e) == SameKey(e) = {} /\ Len(caches[e.run]) = Version(e.run)
FreshAnyKey(e) == SameId(e) = {} /\ Len(caches[e.run]) = Version(e.run)

\* A new event whose run's caches are at the expected watermark
\* (update_builtin_projections refuses a discontinuity).
Fresh(e) ==
  /\ SameId(e) = {}
  /\ SameKey(e) = {}
  /\ Len(caches[e.run]) = Version(e.run)

IndexText(h, e) ==
  fts' = IF h \in FtsHandles /\ e.body \in TextBodies
         THEN fts \cup {[id |-> e.id, text |-> [body |-> e.body, via |-> <<>>]]}
         ELSE fts

\* Fault: the coverage row is advanced without asking whether it was current.
AdvanceCoverageBlindly(h) ==
  coverage' = IF h \in FtsHandles THEN {Coverage(events', h)} ELSE coverage

\* The coverage row follows the event set only if it was current before;
\* otherwise it is deleted.  A handle without FTS leaves it alone.
AdvanceCoverage(h) ==
  coverage' = CASE h \notin FtsHandles -> coverage
                [] h \in FtsHandles /\ FtsCurrent(h)    -> {Coverage(events', h)}
                [] h \in FtsHandles /\ ~FtsCurrent(h)   -> {}

Insert(h, e) ==
  /\ events' = events \cup {[event |-> e, seq |-> Version(e.run) + 1]}
  /\ keys' = IF e.key = None THEN keys
             ELSE keys \cup {[key |-> e.key, id |-> e.id, sem |-> DomainSem(e)]}
  /\ caches' = [caches EXCEPT ![e.run] =
                  Append(@, [id |-> e.id, body |-> e.body, via |-> <<>>])]
  /\ IndexText(h, e)
  /\ AdvanceCoverage(h)
  /\ UNCHANGED migrations

\* prepare_event and the registration lock an FTS handle takes first.
Admissible(h, e) ==
  /\ e.schema = Schema[h]
  /\ h \in FtsHandles => ~Locked(h)

\* EventStore::append
AppendEvent(h, e) ==
  /\ Admissible(h, e)
  /\ \/ /\ Fresh(e)
        /\ Insert(h, e)
        /\ acks' = acks \cup {[event |-> e, id |-> e.id]}
     \/ \E id \in Ids :
          /\ DuplicateOf(e, id)
          /\ acks' = acks \cup {[event |-> e, id |-> id]}
          /\ UNCHANGED dbVars
  /\ UNCHANGED <<graph, reg, rebuild, cursor, seen, casWins, losses>>

\* VersionedEventStore::aggregate_version
ReadVersion(w, r) ==
  /\ seen' = [seen EXCEPT ![w] = [run |-> r, version |-> Version(r)]]
  /\ UNCHANGED <<dbVars, graph, reg, rebuild, cursor, acks, casWins, losses>>

\* Fault, then the comparison of the expected with the actual version.
ExpectedNotAhead(w, r) == seen[w].version <= Version(r)
ExpectedHolds(w, r) == seen[w].version = Version(r)

\* VersionedEventStore::append_expected.  The version is compared before the
\* idempotency checks: a mismatch is a Conflict that writes nothing.
AppendExpected(w, h, e) ==
  /\ seen[w].run = e.run
  /\ Admissible(h, e)
  /\ ExpectedHolds(w, e.run)
  /\ \/ /\ Fresh(e)
        /\ Insert(h, e)
        /\ acks' = acks \cup {[event |-> e, id |-> e.id]}
        /\ casWins' = casWins \cup
             {[run |-> e.run, expected |-> seen[w].version, id |-> e.id]}
     \/ \E id \in Ids :
          /\ DuplicateOf(e, id)
          /\ acks' = acks \cup {[event |-> e, id |-> id]}
          /\ UNCHANGED <<dbVars, casWins>>
  /\ UNCHANGED <<graph, reg, rebuild, cursor, seen, losses>>

-----------------------------------------------------------------------------
(* Upcaster registration                                                   *)

\* A persisted step of schema_migrations may only be registered again with
\* the same target, note and implementation identity.
\* Fault first: only the target version is compared.
PersistedSameTarget(e) == \A x \in migrations : x.from = e.from => x.to = e.to
PersistedAgrees(e) == \A x \in migrations : x.from = e.from => x = e

\* register_upcaster up to its commit: validated against the handle's graph
\* and against the persisted migrations of every handle.
RegisterPersist(h, e) ==
  /\ ~Locked(h)
  /\ ValidRegistration(graph[h], e)
  /\ PersistedAgrees(e)
  /\ migrations' = migrations \cup {e}
  /\ reg' = [reg EXCEPT ![h] = e]
  /\ UNCHANGED <<events, keys, caches, fts, coverage, graph, rebuild, clientVars, losses>>

\* ... and the insertion in the in-memory graph that follows it.
RegisterBind(h) ==
  /\ Locked(h)
  /\ ValidRegistration(graph[h], reg[h])
  /\ graph' = [graph EXCEPT ![h] = @ \cup {reg[h]}]
  /\ reg' = [reg EXCEPT ![h] = None]
  /\ UNCHANGED <<dbVars, rebuild, clientVars, losses>>

-----------------------------------------------------------------------------
(* rebuild_builtin_projections                                             *)

Idle == [phase |-> "idle"]

\* upcaster_snapshot, under the registration lock.
RebuildStart(h) ==
  /\ rebuild[h] = Idle
  /\ ~Locked(h)
  /\ rebuild' = [rebuild EXCEPT ![h] = [phase |-> "graph", graph |-> graph[h]]]
  /\ UNCHANGED <<dbVars, graph, reg, clientVars, losses>>

\* capture_rebuild_events, then the fold outside every lock.  A row that
\* does not decode fails the rebuild.
RebuildCapture(h) ==
  /\ rebuild[h].phase = "graph"
  /\ rebuild' = [rebuild EXCEPT ![h] =
       IF \A row \in events : Decode(row, rebuild[h].graph, Schema[h]) # {}
       THEN [phase |-> "folded", graph |-> rebuild[h].graph, events |-> events]
       ELSE Idle]
  /\ UNCHANGED <<dbVars, graph, reg, clientVars, losses>>

DecodedRow(row, g, h) == CHOOSE d \in Decode(row, g, Schema[h]) : TRUE

FoldStream(rows, r, g, h) ==
  LET s == Stream(rows, r)
  IN  [i \in DOMAIN s |-> DecodedRow(s[i], g, h)]

FoldIndex(rows, g, h) ==
  {LET d == DecodedRow(row, g, h)
   IN  [id |-> d.id, text |-> [body |-> d.body, via |-> d.via]] :
     row \in Searchable(rows)}

\* Fault: only the upcaster graph is compared.
CaptureSameGraph(h) == graph[h] = rebuild[h].graph

\* The commit refuses when the graph or the event set moved on.
CaptureCurrent(h) ==
  /\ graph[h] = rebuild[h].graph
  /\ events = rebuild[h].events

RebuildFinish(h) ==
  /\ rebuild[h].phase = "folded"
  /\ ~Locked(h)
  /\ IF CaptureCurrent(h)
     THEN /\ caches' = [r \in Runs |->
                          FoldStream(rebuild[h].events, r, rebuild[h].graph, h)]
          /\ IF h \in FtsHandles
             THEN /\ fts' = FoldIndex(rebuild[h].events, rebuild[h].graph, h)
                  /\ coverage' = {[events |-> rebuild[h].events,
                                   schema |-> Schema[h],
                                   graph  |-> rebuild[h].graph]}
             ELSE UNCHANGED <<fts, coverage>>
     ELSE UNCHANGED <<caches, fts, coverage>>
  /\ rebuild' = [rebuild EXCEPT ![h] = Idle]
  /\ UNCHANGED <<events, keys, migrations, graph, reg, clientVars, losses>>

-----------------------------------------------------------------------------
(* Cursors, restarts and cache losses                                      *)

NoCursor == [run |-> None, next |-> 1, buffered |-> <<>>, exhausted |-> TRUE, out |-> <<>>]

\* read_run
CursorOpen(c, r) ==
  /\ cursor[c] = NoCursor
  /\ cursor' = [cursor EXCEPT ![c] = [run |-> r, next |-> 1, buffered |-> <<>>,
                                      exhausted |-> FALSE, out |-> <<>>]]
  /\ UNCHANGED <<dbVars, graph, reg, rebuild, seen, acks, casWins, losses>>

\* Fault: the keyset page starts after `next` instead of at it.
PageAfter(r, next) ==
  LET s == Stream({row \in events : row.seq > next}, r)
  IN  SubSeq(s, 1, IF Len(s) < PageSize THEN Len(s) ELSE PageSize)

\* load_page: the rows from `next` on, in order, at most PageSize of them.
Page(r, next) ==
  LET s == Stream({row \in events : row.seq >= next}, r)
  IN  SubSeq(s, 1, IF Len(s) < PageSize THEN Len(s) ELSE PageSize)

\* Fault: an empty page is not remembered.
EmptyPageIgnored(cur) == cur
Exhaust(cur) == [cur EXCEPT !.exhausted = TRUE]

\* Iterator::next of EventCursor.  What is handed out is the stream position
\* and event id of the row; a row that does not decode is an error item in
\* the same place.
CursorNext(c) ==
  LET cur == cursor[c]
      page == Page(cur.run, cur.next)
      Give(buf, nxt) ==
        [cur EXCEPT !.out = Append(@, [seq |-> Head(buf).seq, id |-> Head(buf).event.id]),
                    !.buffered = Tail(buf), !.next = nxt]
  IN  /\ ~cur.exhausted
      /\ cursor' = [cursor EXCEPT ![c] =
           CASE cur.buffered # <<>> -> Give(cur.buffered, cur.next)
             [] cur.buffered = <<>> /\ page # <<>> -> Give(page, page[Len(page)].seq + 1)
             [] cur.buffered = <<>> /\ page = <<>> -> Exhaust(cur)]
      /\ UNCHANGED <<dbVars, graph, reg, rebuild, seen, acks, casWins, losses>>

\* A process restart: the file survives, the handle's upcasters, its pending
\* registration and its rebuild do not.
Restart(h) ==
  /\ graph' = [graph EXCEPT ![h] = {}]
  /\ reg' = [reg EXCEPT ![h] = None]
  /\ rebuild' = [rebuild EXCEPT ![h] = Idle]
  /\ UNCHANGED <<dbVars, clientVars, losses>>

\* A derived row is lost or an older one restored outside the code.
LoseCache(r) ==
  /\ losses < CacheLosses
  /\ \E n \in 0..(Len(caches[r]) - 1) :
       caches' = [caches EXCEPT ![r] = SubSeq(@, 1, n)]
  /\ losses' = losses + 1
  /\ UNCHANGED <<events, keys, fts, coverage, migrations, graph, reg, rebuild, clientVars>>

-----------------------------------------------------------------------------
Init ==
  /\ events = {}
  /\ keys = {}
  /\ caches = [r \in Runs |-> <<>>]
  /\ fts = {}
  /\ coverage = {}
  /\ migrations = {}
  /\ graph = [h \in Handles |-> {}]
  /\ reg = [h \in Handles |-> None]
  /\ rebuild = [h \in Handles |-> Idle]
  /\ cursor = [c \in Cursors |-> NoCursor]
  /\ seen = [w \in Writers |-> [run |-> None, version |-> 0]]
  /\ acks = {}
  /\ casWins = {}
  /\ losses = 0

Next ==
  \/ \E h \in Handles, e \in Inputs : AppendEvent(h, e)
  \/ \E w \in Writers, r \in Runs : ReadVersion(w, r)
  \/ \E w \in Writers, h \in Handles, e \in Inputs : AppendExpected(w, h, e)
  \/ \E h \in Handles, e \in Edges : RegisterPersist(h, e)
  \/ \E h \in Handles : RegisterBind(h)
  \/ \E h \in Maintainers : RebuildStart(h)
  \/ \E h \in Maintainers : RebuildCapture(h)
  \/ \E h \in Maintainers : RebuildFinish(h)
  \/ \E c \in Cursors, r \in Runs : CursorOpen(c, r)
  \/ \E c \in Cursors : CursorNext(c)
  \/ \E h \in Handles : Restart(h)
  \/ \E r \in Runs : LoseCache(r)

Spec == Init /\ [][Next]_vars

-----------------------------------------------------------------------------
(* Properties                                                              *)

Row == [event: Event, seq: Nat]
Decoded == [id: Ids, body: Bodies, via: Seq(STRING)]

\* The authoritative tables, the handles and the answers given.
LogTypeOK ==
  /\ events \subseteq Row
  /\ keys \subseteq [key: Keys, id: Ids,
                     sem: [key: Keys \cup {None}, body: Bodies, schema: SchemaVersion]]
  /\ migrations \subseteq Edges
  /\ graph \in [Handles -> SUBSET Edges]
  /\ reg \in [Handles -> Edges \cup {None}]
  /\ seen \in [Writers -> [run: Runs \cup {None}, version: Nat]]
  /\ acks \subseteq [event: Event, id: Ids]
  /\ casWins \subseteq [run: Runs, expected: Nat, id: Ids]
  /\ losses \in Nat

\* The tables and the handles' state have the shape the SQL schema and the
\* Rust types declare.
TypeOK ==
  /\ LogTypeOK
  /\ caches \in [Runs -> Seq(Decoded)]
  /\ fts \subseteq [id: Ids, text: [body: Bodies, via: Seq(STRING)]]
  /\ losses <= CacheLosses

\* append_prepared: whichever handle appends, and however retries and writers
\* interleave, an event id names one row and the stream of a run is numbered
\* 1, 2, ... without a gap and without two rows in one place.
GaplessStreams ==
  /\ \A x, y \in events : x.event.id = y.event.id => x = y
  /\ \A r \in Runs :
       /\ {row.seq : row \in RunRows(r)} = 1..Version(r)
       /\ \A x, y \in RunRows(r) : x.seq = y.seq => x = y

\* idempotency_keys: a claimed domain key and the event that claimed it are
\* both there or both absent, so a run request or an action intent has at
\* most one event in the whole store, across runs and handles.
KeysMatchEvents ==
  /\ \A k \in keys : \E row \in events :
       row.event.id = k.id /\ row.event.key = k.key /\ DomainSem(row.event) = k.sem
  /\ \A row \in events : row.event.key # None =>
       \E k \in keys : k.key = row.event.key /\ k.id = row.event.id
  /\ \A k, l \in keys : k.key = l.key => k = l

\* append, append_expected: an id returned to a caller, first time or on a
\* retry, names a stored event that says what the caller asked for.
AcksAreDurable ==
  \A a \in acks : \E row \in events :
    /\ row.event.id = a.id
    /\ \/ row.event = a.event
       \/ a.event.key # None /\ DomainSem(row.event) = DomainSem(a.event)

\* append_expected: an Applied answer means the event directly follows the
\* version its writer had read: nothing slipped in between, and no two
\* writers won with the same expectation.
CasNoLostUpdate ==
  \A a \in casWins :
    /\ \E row \in events :
         row.event.run = a.run /\ row.event.id = a.id /\ row.seq = a.expected + 1
    /\ \A b \in casWins : (a.run = b.run /\ a.expected = b.expected) => a = b

\* update_builtin_projections and the rebuild: a cache is always the fold of
\* a prefix of its run's stream, and of the whole stream unless a derived
\* row was lost; a rebuild racing an append never installs an older fold.
CachesFollowStream ==
  \A r \in Runs :
    LET s == Stream(events, r)
    IN  /\ Len(caches[r]) <= Len(s)
        /\ \A i \in DOMAIN caches[r] : caches[r][i].id = s[i].event.id
        /\ losses = 0 => Len(caches[r]) = Len(s)

\* search: whenever the coverage check lets a handle search, the index holds
\* exactly the text of every stored event as that handle decodes it, whatever
\* other handles (without FTS, with another schema, with other upcasters)
\* appended, registered or rebuilt before.
SearchSound ==
  \A h \in FtsHandles :
    FtsCurrent(h) => /\ \A row \in events : Decode(row, graph[h], Schema[h]) # {}
                     /\ fts = FoldIndex(events, graph[h], h)

\* register_upcaster: no two handles ever decode through different
\* implementations of the same schema step, restarts included.
OneImplementationPerStep ==
  \A h, k \in Handles : \A x \in graph[h], y \in graph[k] : x.from = y.from => x = y

\* EventCursor: what a cursor hands out is the run's stream from its first
\* event on, in order, no event skipped or repeated at a page boundary while
\* appends go on.
CursorsReadStream ==
  \A c \in Cursors : \A i \in DOMAIN cursor[c].out :
    /\ cursor[c].out[i].seq = i
    /\ \E row \in RunRows(cursor[c].run) : row.seq = i /\ row.event.id = cursor[c].out[i].id

\* A caller that keeps calling next() on a cursor (every loop over read_run
\* does) comes to the end of the stream once appends stop.
FairSpec == Spec /\ \A c \in Cursors : WF_vars(CursorNext(c))
CursorsTerminate == \A c \in Cursors : []<>(cursor[c].exhausted)

\* The log itself: streams without gaps, and one event per domain key (append_prepared).
LogIsSound == GaplessStreams /\ KeysMatchEvents

\* What a caller was told holds (append, append_expected).
AnswersHold == AcksAreDurable /\ CasNoLostUpdate

\* What handles keep beside the log follows it (rebuild_builtin_projections, search).
DerivedFollowsLog == TypeOK /\ CachesFollowStream /\ SearchSound
=============================================================================
