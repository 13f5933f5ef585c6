-------------------------- MODULE EventStoreProofs --------------------------
(***************************************************************************)
(* Proofs about EventStore, for any number of handles, runs, ids, keys,    *)
(* writers, cursors and upcaster registrations.                            *)
(*                                                                         *)
(* The invariants are not inductive one by one: that a retry answers a     *)
(* durable id rests on the key table matching the event table, and that    *)
(* the next number is free rests on the numbering so far, which Version    *)
(* reads back as a maximum.  LogInv is their conjunction, with the         *)
(* numbering stated with an explicit length.  A cursor's pages are in      *)
(* order because the rows of a stream are numbered without a gap, which is *)
(* why sorting them by number puts row n in place n.  DerivedInv is about  *)
(* the caches and the index: what a rebuild captured decodes, and the      *)
(* coverage row is right wherever it names all the events there are.       *)
(***************************************************************************)
EXTENDS EventStore, FiniteSetTheorems, FunctionTheorems, SequenceTheorems, WellFoundedInduction, TLAPS

\* The stream of run r is numbered 1..n, one row per number.
Numbered(r, n) ==
  /\ {row.seq : row \in RunRows(r)} = 1..n
  /\ \A x, y \in RunRows(r) : x.seq = y.seq => x = y

UniqueIds == \A x, y \in events : x.event.id = y.event.id => x = y

LogInv ==
  /\ LogTypeOK
  /\ UniqueIds
  /\ \A r \in Runs : \E n \in Nat : Numbered(r, n)
  /\ KeysMatchEvents
  /\ AcksAreDurable
  /\ CasNoLostUpdate

\* COALESCE(MAX(stream_seq), 0) of a numbered stream is its length.
LEMMA VersionOfNumbered ==
  ASSUME NEW r \in Runs, NEW n \in Nat, Numbered(r, n)
  PROVE  Version(r) = n
<1> DEFINE S == {row.seq : row \in RunRows(r)}
<1>1. CASE n = 0
  <2>1. S = {}
    BY <1>1 DEF Numbered
  <2>2. RunRows(r) = {}
    BY <2>1
  <2> QED BY <2>2, <1>1 DEF Version
<1>2. CASE n # 0
  <2>1. S = 1..n /\ n \in S
    BY <1>2 DEF Numbered
  <2>2. RunRows(r) # {}
    BY <2>1
  <2>3. \A row \in RunRows(r) : row.seq \in S
    OBVIOUS
  <2>4. \A m \in S : (\A row \in RunRows(r) : row.seq <= m) <=> m = n
    <3> TAKE m \in S
    <3>1. ASSUME m = n PROVE \A row \in RunRows(r) : row.seq <= m
      BY <3>1, <2>1, <2>3
    <3>2. ASSUME \A row \in RunRows(r) : row.seq <= m PROVE m = n
      <4>1. PICK row \in RunRows(r) : row.seq = n
        BY <2>1
      <4> QED BY <4>1, <3>2, <2>1
    <3> QED BY <3>1, <3>2
  <2>5. (CHOOSE m \in S : \A row \in RunRows(r) : row.seq <= m) = n
    BY <2>1, <2>4
  <2> QED BY <2>2, <2>5 DEF Version
<1> QED BY <1>1, <1>2

\* The version of a run is a number of events.
LEMMA VersionNat ==
  ASSUME LogInv, NEW r \in Runs
  PROVE  Version(r) \in Nat /\ Numbered(r, Version(r))
BY VersionOfNumbered DEF LogInv

\* What Insert does to the authoritative tables.
LEMMA InsertKeepsTables ==
  ASSUME LogInv, NEW h \in Handles, NEW e \in Inputs, Fresh(e), Insert(h, e)
  PROVE  /\ events' \subseteq Row
         /\ events \subseteq events'
         /\ [event |-> e, seq |-> Version(e.run) + 1] \in events'
         /\ UniqueIds'
         /\ \A r \in Runs : \E n \in Nat : Numbered(r, n)'
<1> DEFINE new == [event |-> e, seq |-> Version(e.run) + 1]
<1>1. e \in Event /\ e.run \in Runs
  BY StoreAssumption DEF Event
<1>2. Version(e.run) \in Nat /\ Numbered(e.run, Version(e.run))
  BY <1>1, VersionNat
<1>3. events' = events \cup {new}
  BY DEF Insert
<1>4. events' \subseteq Row
  BY <1>1, <1>2, <1>3 DEF LogInv, LogTypeOK, Row
<1>5. UniqueIds'
  BY <1>3 DEF LogInv, UniqueIds, Fresh, SameId
<1>6. ASSUME NEW r \in Runs PROVE \E n \in Nat : Numbered(r, n)'
  <2>1. CASE r = e.run
    <3>0. PICK n \in Nat : Numbered(r, n)
      BY DEF LogInv
    <3>n. new.seq = n + 1
      BY <3>0, <2>1, VersionOfNumbered
    <3>1. RunRows(r)' = RunRows(r) \cup {new}
      BY <1>3, <2>1 DEF RunRows
    <3>2. {row.seq : row \in RunRows(r)'} = {row.seq : row \in RunRows(r)} \cup {n + 1}
      BY <3>1, <3>n
    <3>3. {row.seq : row \in RunRows(r)'} = 1..(n + 1)
      BY <3>2, <3>0 DEF Numbered
    <3>4. \A x \in RunRows(r) : x.seq \in 1..n
      BY <3>0 DEF Numbered
    <3>5. \A x \in RunRows(r) : x.seq # new.seq
      BY <3>4, <3>n
    <3>6. \A x, y \in RunRows(r)' : x.seq = y.seq => x = y
      BY <3>1, <3>5, <3>0 DEF Numbered
    <3>7. Numbered(r, n + 1)'
      BY <3>3, <3>6 DEF Numbered
    <3> QED BY <3>7
  <2>2. CASE r # e.run
    <3>1. RunRows(r)' = RunRows(r)
      BY <1>3, <2>2 DEF RunRows
    <3> QED BY <3>1 DEF LogInv, Numbered
  <2> QED BY <2>1, <2>2
<1> QED BY <1>3, <1>4, <1>5, <1>6

\* A step that leaves the event and key tables and the answers alone.
LEMMA TablesUnchanged ==
  ASSUME LogInv, UNCHANGED <<events, keys, acks, casWins>>, LogTypeOK'
  PROVE  LogInv'
BY DEF LogInv, UniqueIds, Numbered, RunRows, KeysMatchEvents, AcksAreDurable, CasNoLostUpdate,
       DomainSem

\* A fresh event with a key claims that key; nothing else moves in the table.
LEMMA InsertKeepsKeys ==
  ASSUME LogInv, NEW h \in Handles, NEW e \in Inputs, Fresh(e), Insert(h, e)
  PROVE  /\ KeysMatchEvents'
         /\ keys' \subseteq [key: Keys, id: Ids,
                     sem: [key: Keys \cup {None}, body: Bodies, schema: SchemaVersion]]
<1> DEFINE new == [event |-> e, seq |-> Version(e.run) + 1]
           claim == [key |-> e.key, id |-> e.id, sem |-> DomainSem(e)]
<1>1. e \in Event /\ events' = events \cup {new}
  BY StoreAssumption DEF Insert
<1>0. KeysMatchEvents /\ keys \subseteq [key: Keys, id: Ids,
                     sem: [key: Keys \cup {None}, body: Bodies, schema: SchemaVersion]]
  BY DEF LogInv, LogTypeOK
<1>a. \A k \in keys : \E row \in events' :
        row.event.id = k.id /\ row.event.key = k.key /\ DomainSem(row.event) = k.sem
  BY <1>0, <1>1 DEF KeysMatchEvents
<1>b. \A row \in events : row.event.key # None =>
        \E k \in keys : k.key = row.event.key /\ k.id = row.event.id
  BY <1>0 DEF KeysMatchEvents
<1>c. \A k, l \in keys : k.key = l.key => k = l
  BY <1>0 DEF KeysMatchEvents
<1>d. new.event = e
  OBVIOUS
<1> HIDE DEF new
<1>2. CASE e.key = None
  <2>1. keys' = keys
    BY <1>2 DEF Insert
  <2>2. \A row \in events' : row.event.key # None =>
          \E k \in keys' : k.key = row.event.key /\ k.id = row.event.id
    BY <1>1, <1>b, <1>d, <1>2, <2>1
  <2> QED BY <1>0, <1>a, <1>c, <2>1, <2>2 DEF KeysMatchEvents, DomainSem
<1>3. CASE e.key # None
  <2>1. keys' = keys \cup {claim}
    BY <1>3 DEF Insert
  <2>2. \A k \in keys : k.key # e.key
    BY <1>3 DEF Fresh, SameKey
  <2>3. claim \in [key: Keys, id: Ids,
                   sem: [key: Keys \cup {None}, body: Bodies, schema: SchemaVersion]]
    BY <1>1, <1>3 DEF Event, DomainSem
  <2>4. claim.key = e.key /\ claim.id = e.id /\ claim.sem = DomainSem(e)
    OBVIOUS
  <2> HIDE DEF claim
  <2>5. \A k \in keys' : \E row \in events' :
          row.event.id = k.id /\ row.event.key = k.key /\ DomainSem(row.event) = k.sem
    BY <1>1, <1>a, <1>d, <2>1, <2>4
  <2>6. \A row \in events' : row.event.key # None =>
          \E k \in keys' : k.key = row.event.key /\ k.id = row.event.id
    BY <1>1, <1>b, <1>d, <2>1, <2>4
  <2>7. \A k, l \in keys' : k.key = l.key => k = l
    BY <1>c, <2>1, <2>2, <2>4
  <2> QED BY <1>0, <2>1, <2>3, <2>5, <2>6, <2>7 DEF KeysMatchEvents, DomainSem
<1> QED BY <1>2, <1>3

\* append and append_expected with a fresh event.
LEMMA InsertKeepsLog ==
  ASSUME LogInv, NEW h \in Handles, NEW e \in Inputs, Fresh(e), Insert(h, e),
         acks' = acks \cup {[event |-> e, id |-> e.id]},
         \/ casWins' = casWins
         \/ casWins' = casWins \cup
              {[run |-> e.run, expected |-> Version(e.run), id |-> e.id]},
         UNCHANGED <<graph, reg, seen, losses>>
  PROVE  LogInv'
<1> DEFINE new == [event |-> e, seq |-> Version(e.run) + 1]
           win == [run |-> e.run, expected |-> Version(e.run), id |-> e.id]
<1>1. e \in Event /\ e.run \in Runs /\ e.id \in Ids
  BY StoreAssumption DEF Event
<1>2. Version(e.run) \in Nat /\ Numbered(e.run, Version(e.run))
  BY <1>1, VersionNat
<1>3. new \in events' /\ events \subseteq events' /\ migrations' = migrations
  BY InsertKeepsTables DEF Insert
<1>4. casWins' \subseteq casWins \cup {win}
  OBVIOUS
<1>5. LogTypeOK'
  <2>1. win \in [run: Runs, expected: Nat, id: Ids]
    BY <1>1, <1>2
  <2>2. casWins' \subseteq [run: Runs, expected: Nat, id: Ids]
    BY <1>4, <2>1 DEF LogInv, LogTypeOK
  <2> QED
    BY <1>1, <1>3, <2>2, InsertKeepsTables, InsertKeepsKeys DEF LogInv, LogTypeOK
<1>6. AcksAreDurable'
  <2> SUFFICES ASSUME NEW a \in acks'
               PROVE  \E row \in events' :
                        /\ row.event.id = a.id
                        /\ \/ row.event = a.event
                           \/ a.event.key # None /\ DomainSem(row.event) = DomainSem(a.event)
    BY DEF AcksAreDurable, DomainSem
  <2>1. CASE a \in acks
    BY <2>1, <1>3 DEF LogInv, AcksAreDurable
  <2>2. CASE a = [event |-> e, id |-> e.id]
    BY <2>2, <1>3
  <2> QED BY <2>1, <2>2
<1>7. CasNoLostUpdate'
  <2>1. \A a \in casWins : a.run = e.run => a.expected # Version(e.run)
    <3> SUFFICES ASSUME NEW a \in casWins, a.run = e.run PROVE a.expected # Version(e.run)
      OBVIOUS
    <3>1. PICK row \in events : row.event.run = e.run /\ row.seq = a.expected + 1
      BY DEF LogInv, CasNoLostUpdate
    <3>2. row.seq \in 1..Version(e.run)
      BY <3>1, <1>2 DEF Numbered, RunRows
    <3>3. a.expected \in Nat
      BY DEF LogInv, LogTypeOK
    <3> QED BY <3>1, <3>2, <3>3, <1>2
  <2> SUFFICES ASSUME NEW a \in casWins'
               PROVE  /\ \E row \in events' :
                           row.event.run = a.run /\ row.event.id = a.id /\ row.seq = a.expected + 1
                      /\ \A b \in casWins' : (a.run = b.run /\ a.expected = b.expected) => a = b
    BY DEF CasNoLostUpdate
  <2>2. CASE a \in casWins
    <3>1. \E row \in events' :
            row.event.run = a.run /\ row.event.id = a.id /\ row.seq = a.expected + 1
      BY <2>2, <1>3 DEF LogInv, CasNoLostUpdate
    <3>2. \A b \in casWins' : (a.run = b.run /\ a.expected = b.expected) => a = b
      BY <2>1, <2>2, <1>4 DEF LogInv, CasNoLostUpdate
    <3> QED BY <3>1, <3>2
  <2>3. CASE a = win
    <3>1. \E row \in events' :
            row.event.run = a.run /\ row.event.id = a.id /\ row.seq = a.expected + 1
      BY <2>3, <1>3
    <3>2. \A b \in casWins' : (a.run = b.run /\ a.expected = b.expected) => a = b
      BY <2>1, <2>3, <1>4
    <3> QED BY <3>1, <3>2
  <2> QED BY <2>2, <2>3, <1>4
<1> QED BY <1>5, <1>6, <1>7, InsertKeepsTables, InsertKeepsKeys DEF LogInv

\* append and append_expected answering a retry.
LEMMA DuplicateKeepsLog ==
  ASSUME LogInv, NEW e \in Inputs, NEW id \in Ids, DuplicateOf(e, id),
         acks' = acks \cup {[event |-> e, id |-> id]},
         UNCHANGED <<dbVars, casWins, graph, reg, seen, losses>>
  PROVE  LogInv'
<1>1. e \in Event /\ UNCHANGED <<events, keys, migrations>>
  BY StoreAssumption DEF dbVars
<1>2. \E row \in events :
        /\ row.event.id = id
        /\ row.event = e \/ (e.key # None /\ DomainSem(row.event) = DomainSem(e))
  <2>1. CASE id = e.id /\ \E row \in SameId(e) : row.event = e
    BY <2>1 DEF SameId
  <2>2. CASE \E k \in SameKey(e) : k.id = id /\ k.sem = DomainSem(e)
    <3>1. PICK k \in SameKey(e) : k.id = id /\ k.sem = DomainSem(e)
      BY <2>2
    <3>2. k \in keys /\ e.key # None
      BY DEF SameKey
    <3> QED BY <3>1, <3>2 DEF LogInv, KeysMatchEvents
  <2> QED BY <2>1, <2>2 DEF DuplicateOf
<1>3. AcksAreDurable'
  <2> SUFFICES ASSUME NEW a \in acks'
               PROVE  \E row \in events :
                        /\ row.event.id = a.id
                        /\ \/ row.event = a.event
                           \/ a.event.key # None /\ DomainSem(row.event) = DomainSem(a.event)
    BY <1>1 DEF AcksAreDurable, DomainSem
  <2>1. CASE a \in acks
    BY <2>1 DEF LogInv, AcksAreDurable
  <2>2. CASE a = [event |-> e, id |-> id]
    BY <2>2, <1>2
  <2> QED BY <2>1, <2>2
<1>4. LogTypeOK'
  BY <1>1 DEF LogInv, LogTypeOK
<1> QED
  BY <1>1, <1>3, <1>4 DEF LogInv, UniqueIds, Numbered, RunRows, KeysMatchEvents,
                          CasNoLostUpdate, DomainSem

\* Every transaction and every step between transactions keeps the log sound.
LEMMA StepKeepsLog ==
  ASSUME LogInv, [Next]_vars
  PROVE  LogInv'
<1>0. CASE UNCHANGED vars
  <2>1. LogTypeOK'
    BY <1>0 DEF LogInv, LogTypeOK, vars, dbVars, clientVars
  <2> QED BY <1>0, <2>1, TablesUnchanged DEF vars, dbVars, clientVars
<1>1. ASSUME NEW h \in Handles, NEW e \in Inputs, AppendEvent(h, e) PROVE LogInv'
  <2>1. CASE Fresh(e) /\ Insert(h, e) /\ acks' = acks \cup {[event |-> e, id |-> e.id]}
    BY <1>1, <2>1, InsertKeepsLog DEF AppendEvent
  <2>2. CASE \E id \in Ids : /\ DuplicateOf(e, id)
                             /\ acks' = acks \cup {[event |-> e, id |-> id]}
                             /\ UNCHANGED dbVars
    BY <1>1, <2>2, DuplicateKeepsLog DEF AppendEvent
  <2> QED BY <1>1, <2>1, <2>2 DEF AppendEvent
<1>2. ASSUME NEW w \in Writers, NEW r \in Runs, ReadVersion(w, r) PROVE LogInv'
  <2>1. Version(r) \in Nat
    BY VersionNat
  <2>2. LogTypeOK'
    BY <1>2, <2>1 DEF ReadVersion, LogInv, LogTypeOK, dbVars
  <2> QED BY <1>2, <2>2, TablesUnchanged DEF ReadVersion, dbVars
<1>3. ASSUME NEW w \in Writers, NEW h \in Handles, NEW e \in Inputs, AppendExpected(w, h, e)
      PROVE LogInv'
  <2>1. CASE /\ Fresh(e) /\ Insert(h, e) /\ acks' = acks \cup {[event |-> e, id |-> e.id]}
             /\ casWins' = casWins \cup
                  {[run |-> e.run, expected |-> seen[w].version, id |-> e.id]}
    <3>1. seen[w].version = Version(e.run)
      BY <1>3 DEF AppendExpected, ExpectedHolds
    <3> QED BY <1>3, <2>1, <3>1, InsertKeepsLog DEF AppendExpected
  <2>2. CASE \E id \in Ids : /\ DuplicateOf(e, id)
                             /\ acks' = acks \cup {[event |-> e, id |-> id]}
                             /\ UNCHANGED <<dbVars, casWins>>
    BY <1>3, <2>2, DuplicateKeepsLog DEF AppendExpected
  <2> QED BY <1>3, <2>1, <2>2 DEF AppendExpected
<1>4. ASSUME NEW h \in Handles, NEW e \in Edges, RegisterPersist(h, e) PROVE LogInv'
  <2>1. LogTypeOK'
    BY <1>4 DEF RegisterPersist, LogInv, LogTypeOK, clientVars
  <2> QED BY <1>4, <2>1, TablesUnchanged DEF RegisterPersist, clientVars
<1>5. ASSUME NEW h \in Handles, RegisterBind(h) PROVE LogInv'
  <2>1. LogTypeOK'
    BY <1>5 DEF RegisterBind, Locked, LogInv, LogTypeOK, dbVars, clientVars
  <2> QED BY <1>5, <2>1, TablesUnchanged DEF RegisterBind, dbVars, clientVars
<1>6. ASSUME NEW h \in Handles, Restart(h) PROVE LogInv'
  <2>1. LogTypeOK'
    BY <1>6 DEF Restart, LogInv, LogTypeOK, dbVars, clientVars
  <2> QED BY <1>6, <2>1, TablesUnchanged DEF Restart, dbVars, clientVars
<1>7. ASSUME NEW r \in Runs, LoseCache(r) PROVE LogInv'
  <2>1. LogTypeOK'
    BY <1>7 DEF LoseCache, LogInv, LogTypeOK, clientVars
  <2> QED BY <1>7, <2>1, TablesUnchanged DEF LoseCache, clientVars
<1>8. ASSUME NEW h \in Maintainers, RebuildStart(h) \/ RebuildCapture(h) \/ RebuildFinish(h)
      PROVE LogInv'
  <2>1. UNCHANGED <<events, keys, migrations, graph, reg, cursor, seen, acks, casWins, losses>>
    BY <1>8 DEF RebuildStart, RebuildCapture, RebuildFinish, dbVars, clientVars
  <2>2. LogTypeOK'
    BY <2>1 DEF LogInv, LogTypeOK
  <2> QED BY <2>1, <2>2, TablesUnchanged
<1>9. ASSUME NEW c \in Cursors, CursorNext(c) \/ \E r \in Runs : CursorOpen(c, r)
      PROVE LogInv'
  <2>1. UNCHANGED <<events, keys, migrations, graph, reg, seen, acks, casWins, losses>>
    BY <1>9 DEF CursorNext, CursorOpen, dbVars
  <2>2. LogTypeOK'
    BY <2>1 DEF LogInv, LogTypeOK
  <2> QED BY <2>1, <2>2, TablesUnchanged
<1> QED
  BY <1>0, <1>1, <1>2, <1>3, <1>4, <1>5, <1>6, <1>7, <1>8, <1>9 DEF Next

\* The empty database satisfies the invariant.
LEMMA InitLog == Init => LogInv
<1> SUFFICES ASSUME Init PROVE LogInv
  OBVIOUS
<1>1. LogTypeOK
  BY DEF Init, LogTypeOK
<1>2. \A r \in Runs : Numbered(r, 0)
  BY DEF Init, Numbered, RunRows
<1> QED
  BY <1>1, <1>2 DEF Init, LogInv, UniqueIds, KeysMatchEvents, AcksAreDurable, CasNoLostUpdate

\* The records, ids and numbers of the log, at every time.
LEMMA LogInvariant == Spec => []LogInv
BY InitLog, StepKeepsLog, PTL DEF Spec

\* Streams numbered by length have no gap and no duplicate.
LEMMA LogInvGapless == LogInv => GaplessStreams
<1> SUFFICES ASSUME LogInv PROVE GaplessStreams
  OBVIOUS
<1>1. \A r \in Runs : Numbered(r, Version(r))
  BY VersionNat
<1> QED BY <1>1 DEF LogInv, UniqueIds, Numbered, GaplessStreams

\* Whatever the handles, retries and writers do, an event id names one row
\* and every run's stream is numbered 1, 2, ... without a gap
\* (append_prepared).
THEOREM StreamsAreGapless == Spec => []GaplessStreams
BY LogInvariant, LogInvGapless, PTL

\* The key table and the event table never disagree (append_prepared,
\* idempotency_keys): at most one event per domain key in the whole store.
THEOREM KeysAreSound == Spec => []KeysMatchEvents
<1>1. LogInv => KeysMatchEvents
  BY DEF LogInv
<1> QED BY <1>1, LogInvariant, PTL

\* Every id answered by append or append_expected names a stored event that
\* says what was asked for.
THEOREM AnswersAreDurable == Spec => []AcksAreDurable
<1>1. LogInv => AcksAreDurable
  BY DEF LogInv
<1> QED BY <1>1, LogInvariant, PTL

\* append_expected never loses an update.
THEOREM NoLostUpdates == Spec => []CasNoLostUpdate
<1>1. LogInv => CasNoLostUpdate
  BY DEF LogInv
<1> QED BY <1>1, LogInvariant, PTL

\* The log itself (append_prepared).
THEOREM LogStaysSound == Spec => []LogIsSound
BY StreamsAreGapless, KeysAreSound, PTL DEF LogIsSound

\* What callers of append and append_expected were told.
THEOREM AnswersStayTrue == Spec => []AnswersHold
BY AnswersAreDurable, NoLostUpdates, PTL DEF AnswersHold

-----------------------------------------------------------------------------
(* Upcaster bindings                                                       *)

\* What a handle decodes with, or is about to, is persisted; and a persisted
\* schema step has one implementation.
BindingInv ==
  /\ LogTypeOK
  /\ \A h \in Handles : graph[h] \subseteq migrations
  /\ \A h \in Handles : reg[h] # None => reg[h] \in migrations
  /\ \A x, y \in migrations : x.from = y.from => x = y

\* Registering, opening and restarting keep every decoder persisted and unique.
LEMMA StepKeepsBindings ==
  ASSUME BindingInv, LogTypeOK', [Next]_vars
  PROVE  BindingInv'
<1>1. ASSUME NEW h \in Handles, NEW e \in Edges, RegisterPersist(h, e) PROVE BindingInv'
  <2>1. /\ migrations' = migrations \cup {e}
        /\ graph' = graph
        /\ reg' = [reg EXCEPT ![h] = e]
        /\ \A x \in migrations : x.from = e.from => x = e
    BY <1>1 DEF RegisterPersist, PersistedAgrees
  <2>2. \A x, y \in migrations' : x.from = y.from => x = y
    BY <2>1 DEF BindingInv
  <2>3. \A k \in Handles : reg'[k] # None => reg'[k] \in migrations'
    BY <2>1 DEF BindingInv, LogTypeOK
  <2> QED BY <2>1, <2>2, <2>3 DEF BindingInv
<1>2. ASSUME NEW h \in Handles, RegisterBind(h) PROVE BindingInv'
  <2>1. /\ migrations' = migrations
        /\ reg[h] \in migrations
        /\ graph' = [graph EXCEPT ![h] = graph[h] \cup {reg[h]}]
        /\ reg' = [reg EXCEPT ![h] = None]
    BY <1>2 DEF RegisterBind, Locked, BindingInv, dbVars
  <2>2. \A k \in Handles : graph'[k] \subseteq migrations'
    BY <2>1 DEF BindingInv, LogTypeOK
  <2>3. \A k \in Handles : reg'[k] # None => reg'[k] \in migrations'
    BY <2>1 DEF BindingInv, LogTypeOK
  <2> QED BY <2>1, <2>2, <2>3 DEF BindingInv
<1>3. ASSUME NEW h \in Handles, Restart(h) PROVE BindingInv'
  <2>1. /\ migrations' = migrations
        /\ graph' = [graph EXCEPT ![h] = {}]
        /\ reg' = [reg EXCEPT ![h] = None]
    BY <1>3 DEF Restart, dbVars
  <2>2. \A k \in Handles : graph'[k] \subseteq migrations'
    BY <2>1 DEF BindingInv, LogTypeOK
  <2>3. \A k \in Handles : reg'[k] # None => reg'[k] \in migrations'
    BY <2>1 DEF BindingInv, LogTypeOK
  <2> QED BY <2>1, <2>2, <2>3 DEF BindingInv
<1>4. CASE UNCHANGED <<migrations, graph, reg>>
  BY <1>4 DEF BindingInv
<1>5. ASSUME NEW h \in Handles, NEW e \in Inputs, AppendEvent(h, e)
      PROVE UNCHANGED <<migrations, graph, reg>>
  BY <1>5 DEF AppendEvent, Insert, dbVars
<1>6. ASSUME NEW w \in Writers, NEW h \in Handles, NEW e \in Inputs, AppendExpected(w, h, e)
      PROVE UNCHANGED <<migrations, graph, reg>>
  BY <1>6 DEF AppendExpected, Insert, dbVars
<1>7. ASSUME \/ UNCHANGED vars
             \/ \E w \in Writers, r \in Runs : ReadVersion(w, r)
             \/ \E h \in Maintainers : RebuildStart(h) \/ RebuildCapture(h) \/ RebuildFinish(h)
             \/ \E c \in Cursors : CursorNext(c) \/ \E r \in Runs : CursorOpen(c, r)
             \/ \E r \in Runs : LoseCache(r)
      PROVE UNCHANGED <<migrations, graph, reg>>
  BY <1>7 DEF vars, dbVars, clientVars, ReadVersion, RebuildStart, RebuildCapture, RebuildFinish,
              CursorNext, CursorOpen, LoseCache
<1> QED
  BY <1>1, <1>2, <1>3, <1>4, <1>5, <1>6, <1>7 DEF Next

\* No two handles ever decode one schema step with different upcasters
\* (register_upcaster), whatever is registered concurrently or after a
\* restart.
THEOREM OneUpcasterPerStep == Spec => []OneImplementationPerStep
<1>1. Init => BindingInv
  BY InitLog DEF Init, BindingInv, LogInv
<1>2. BindingInv /\ LogTypeOK' /\ [Next]_vars => BindingInv'
  BY StepKeepsBindings
<1>3. LogInv => LogTypeOK
  BY DEF LogInv
<1>4. BindingInv => OneImplementationPerStep
  BY DEF BindingInv, OneImplementationPerStep
<1> QED BY <1>1, <1>2, <1>3, <1>4, LogInvariant, PTL DEF Spec

-----------------------------------------------------------------------------
(* Streams read in the order of their numbers                              *)

\* A set of naturals has a least member.
LEMMA LeastOf ==
  ASSUME NEW S, S \subseteq Nat, S # {}
  PROVE  \E m \in S : \A n \in S : m <= n
<1>1. PICK m \in S : \A n \in S : ~ (<<n, m>> \in OpToRel(<, Nat))
  BY NatLessThanWellFounded, WFMin
<1>2. \A n \in S : ~ (n < m)
  BY <1>1 DEF OpToRel
<1> QED BY <1>2

Mine(rows, r) == {row \in rows : row.event.run = r}

\* Rows numbered from lo + 1 to lo + k.
Stretch(rows, lo, k) ==
  /\ \A x \in rows : x.seq \in (lo + 1)..(lo + k)
  /\ \A n \in (lo + 1)..(lo + k) : \E x \in rows : x.seq = n
  /\ \A x, y \in rows : x.seq = y.seq => x = y

\* There are k of them.
LEMMA StretchCount ==
  ASSUME NEW rows, NEW lo \in Nat, NEW k \in Nat, Stretch(rows, lo, k)
  PROVE  IsFiniteSet(rows) /\ Cardinality(rows) = k
<1> DEFINE seqs == (lo + 1)..(lo + k)
           row == [n \in seqs |-> CHOOSE x \in rows : x.seq = n]
<1>1. row \in [seqs -> rows] /\ \A n \in seqs : row[n].seq = n
  BY DEF Stretch
<1>2. row \in Bijection(seqs, rows)
  <2>1. \A m, n \in seqs : row[m] = row[n] => m = n
    BY <1>1
  <2>2. \A x \in rows : \E n \in seqs : row[n] = x
    BY <1>1 DEF Stretch
  <2> HIDE DEF row
  <2> QED BY <1>1, <2>1, <2>2, Fun_IsBij
<1>3. IsFiniteSet(seqs) /\ Cardinality(seqs) = k
  <2>1. lo + 1 \in Int /\ lo + k \in Int
    OBVIOUS
  <2>2. IsFiniteSet(seqs) /\ Cardinality(seqs) = IF lo + 1 > lo + k THEN 0 ELSE lo + k - (lo + 1) + 1
    BY <2>1, FS_Interval
  <2> QED BY <2>2
<1> HIDE DEF seqs, row
<1>4. ExistsBijection(seqs, rows)
  BY <1>2 DEF ExistsBijection
<1> QED BY <1>3, <1>4, FS_Bijection

\* Their order is their numbers'.
LEMMA StreamOfStretch ==
  ASSUME NEW rows, NEW r, NEW lo \in Nat, NEW k \in Nat, Stretch(Mine(rows, r), lo, k)
  PROVE  /\ Stream(rows, r) \in [1..k -> Mine(rows, r)]
         /\ \A i \in 1..k : Stream(rows, r)[i].seq = lo + i
<1> DEFINE mine == Mine(rows, r)
           Ordered(s) == \A i, j \in DOMAIN s : i < j => s[i].seq < s[j].seq
<1>1. Cardinality(mine) = k
  BY StretchCount
<1>2. \E s \in [1..k -> mine] : Ordered(s)
  <2> DEFINE s == [i \in 1..k |-> CHOOSE x \in mine : x.seq = lo + i]
  <2>1. s \in [1..k -> mine] /\ \A i \in 1..k : s[i].seq = lo + i
    BY DEF Stretch
  <2> HIDE DEF s
  <2>2. Ordered(s)
    BY <2>1
  <2> QED BY <2>1, <2>2
<1>3. Stream(rows, r) = CHOOSE s \in [1..k -> mine] : Ordered(s)
  BY <1>1 DEF Stream, Mine
<1>4. PICK s : s = Stream(rows, r)
  OBVIOUS
<1> HIDE DEF Ordered
<1>5. s \in [1..k -> mine] /\ Ordered(s)
  BY <1>2, <1>3, <1>4
<1>6. \A i, j \in 1..k : i < j => s[i].seq < s[j].seq
  BY <1>5 DEF Ordered
<1>7. \A i \in 1..k : s[i].seq \in Nat /\ s[i].seq >= lo + 1 /\ s[i].seq <= lo + k
  BY <1>5 DEF Stretch
<1>8. \A i \in 1..k : s[i].seq >= lo + i
  <2> DEFINE bad == {i \in 1..k : ~(s[i].seq >= lo + i)}
  <2>1. ASSUME bad # {} PROVE FALSE
    <3>1. bad \subseteq Nat
      OBVIOUS
    <3>2. PICK m \in bad : \A i \in bad : m <= i
      BY <2>1, <3>1, LeastOf
    <3>3. m # 1
      BY <1>7
    <3>4. m - 1 \in 1..k /\ ~(m <= m - 1) /\ m - 1 < m
      BY <3>3
    <3>5. s[m - 1].seq >= lo + (m - 1)
      BY <3>2, <3>4
    <3>6. s[m - 1].seq < s[m].seq
      BY <1>6, <3>4
    <3> QED BY <1>7, <3>4, <3>5, <3>6
  <2> QED BY <2>1
<1>9. \A i \in 1..k : s[i].seq <= lo + i
  <2> DEFINE bad == {d \in 0..(k - 1) : ~(s[k - d].seq <= lo + (k - d))}
  <2>1. ASSUME bad # {} PROVE FALSE
    <3>1. bad \subseteq Nat
      OBVIOUS
    <3>2. PICK m \in bad : \A i \in bad : m <= i
      BY <2>1, <3>1, LeastOf
    <3>3. m # 0
      BY <1>7
    <3>4. m - 1 \in 0..(k - 1) /\ ~(m <= m - 1) /\ k - (m - 1) \in 1..k /\ k - m \in 1..k /\ k - m < k - (m - 1)
      BY <3>3
    <3>5. s[k - (m - 1)].seq <= lo + (k - (m - 1))
      BY <3>2, <3>4
    <3>6. s[k - m].seq < s[k - (m - 1)].seq
      BY <1>6, <3>4
    <3> QED BY <1>7, <3>4, <3>5, <3>6
  <2>2. ASSUME NEW i \in 1..k PROVE s[i].seq <= lo + i
    <3>1. k - i \in 0..(k - 1) /\ k - (k - i) = i
      OBVIOUS
    <3> QED BY <2>1, <3>1
  <2> QED BY <2>2
<1>10. \A i \in 1..k : s[i].seq = lo + i
  BY <1>7, <1>8, <1>9
<1> QED BY <1>4, <1>5, <1>10

-----------------------------------------------------------------------------
(* Cursors                                                                 *)

\* load_page: the next rows of the stream, as many as fit.
LEMMA PageOfRun ==
  ASSUME LogInv, NEW r \in Runs, NEW next \in Nat \ {0}, next <= Version(r) + 1
  PROVE  /\ Page(r, next) \in Seq(Row)
         /\ \A i \in 1..Len(Page(r, next)) :
              Page(r, next)[i] \in RunRows(r) /\ Page(r, next)[i].seq = next - 1 + i
<1> DEFINE rows == {row \in events : row.seq >= next}
<1>1. PICK lo \in Nat, n \in Nat, k \in Nat : lo = next - 1 /\ n = Version(r) /\ k = n - lo
  BY VersionNat
<1>2. Numbered(r, n)
  BY <1>1, VersionNat
<1>3. \A x \in Mine(rows, r) : x \in RunRows(r) /\ x \in Row
  BY DEF Mine, RunRows, LogInv, LogTypeOK
<1>4. Stretch(Mine(rows, r), lo, k)
  <2>1. ASSUME NEW x \in Mine(rows, r) PROVE x.seq \in (lo + 1)..(lo + k)
    <3>1. x.seq \in 1..n /\ x.seq >= next
      BY <1>2, <1>3 DEF Numbered, Mine
    <3> QED BY <1>1, <3>1
  <2>2. ASSUME NEW m \in (lo + 1)..(lo + k) PROVE \E x \in Mine(rows, r) : x.seq = m
    <3>1. m \in 1..n /\ m >= next
      BY <1>1
    <3>2. PICK x \in RunRows(r) : x.seq = m
      BY <1>2, <3>1 DEF Numbered
    <3> QED BY <3>1, <3>2 DEF RunRows, Mine
  <2>3. \A x, y \in Mine(rows, r) : x.seq = y.seq => x = y
    BY <1>2, <1>3 DEF Numbered
  <2> QED BY <2>1, <2>2, <2>3 DEF Stretch
<1> HIDE DEF rows
<1>5. PICK s : s = Stream(rows, r)
  OBVIOUS
<1>6. s \in [1..k -> Mine(rows, r)] /\ \A i \in 1..k : s[i].seq = lo + i
  <2>1. /\ Stream(rows, r) \in [1..k -> Mine(rows, r)]
        /\ \A i \in 1..k : Stream(rows, r)[i].seq = lo + i
    BY <1>4, StreamOfStretch
  <2> QED BY <1>5, <2>1
<1>7. Len(s) = k
  <2>1. s \in Seq(Mine(rows, r))
    BY <1>6, IsASeq
  <2> QED BY <1>6, <2>1, LenProperties
<1>8. PICK size \in Nat : size = IF k < PageSize THEN k ELSE PageSize
  BY StoreAssumption DEF StoreAssumption
<1>9. Page(r, next) = SubSeq(s, 1, size)
  BY <1>5, <1>7, <1>8 DEF Page, rows
<1>10. size <= k /\ \A i \in 1..size : s[i] \in Row
  BY <1>3, <1>6, <1>8, StoreAssumption DEF StoreAssumption
<1>11. /\ SubSeq(s, 1, size) \in Seq(Row)
       /\ Len(SubSeq(s, 1, size)) = (IF 1 <= size THEN size - 1 + 1 ELSE 0)
       /\ \A i \in 1 .. size - 1 + 1 : SubSeq(s, 1, size)[i] = s[1 + i - 1]
  <2>1. 1 \in Int /\ size \in Int
    OBVIOUS
  <2> QED BY <1>10, <2>1, SubSeqProperties
<1>12. Len(SubSeq(s, 1, size)) = size /\ \A i \in 1..size : SubSeq(s, 1, size)[i] = s[i]
  BY <1>11
<1>13. \A i \in 1..size : s[i] \in RunRows(r) /\ s[i].seq = next - 1 + i
  <2> SUFFICES ASSUME NEW i \in 1..size PROVE s[i] \in RunRows(r) /\ s[i].seq = next - 1 + i
    OBVIOUS
  <2>1. i \in 1..k
    BY <1>10
  <2>2. s[i] \in Mine(rows, r) /\ s[i].seq = lo + i
    BY <1>6, <2>1
  <2>3. s[i] \in RunRows(r)
    BY <1>3, <2>2
  <2> QED BY <1>1, <2>2, <2>3
<1>14. PICK page : page = SubSeq(s, 1, size)
  OBVIOUS
<1>15. page \in Seq(Row) /\ Len(page) = size /\ \A i \in 1..size : page[i] = s[i]
  BY <1>11, <1>12, <1>14
<1>16. page = Page(r, next)
  BY <1>9, <1>14
<1>17. \A i \in 1..Len(page) : page[i] \in RunRows(r) /\ page[i].seq = next - 1 + i
  BY <1>13, <1>15
<1> QED BY <1>15, <1>16, <1>17

Given == [seq: Nat, id: Ids]
Positions == [run: Runs \cup {None}, next: Nat \ {0}, buffered: Seq(Row), exhausted: BOOLEAN, out: Seq(Given)]

\* A cursor of run r has handed out the first rows of the stream, the ones it
\* buffers follow, and the next page follows these.
Handed(r, out) ==
  \A i \in 1..Len(out) : out[i].seq = i /\ \E row \in RunRows(r) : row.seq = i /\ row.event.id = out[i].id

Buffers(r, out, buffered) ==
  \A i \in 1..Len(buffered) : buffered[i] \in RunRows(r) /\ buffered[i].seq = Len(out) + i

CursorOK(cur) ==
  /\ cur \in Positions
  /\ cur.run = None => cur.exhausted
  /\ Handed(cur.run, cur.out) /\ Buffers(cur.run, cur.out, cur.buffered)
  /\ cur.next = Len(cur.out) + Len(cur.buffered) + 1

CursorInv == cursor = [c \in Cursors |-> cursor[c]] /\ \A c \in Cursors : CursorOK(cursor[c])

\* The rows handed out and buffered are rows of the stream, so it is as long.
LEMMA NextInReach ==
  ASSUME LogInv, NEW cur, CursorOK(cur), cur.run \in Runs
  PROVE  cur.next <= Version(cur.run) + 1
<1>0. PICK r \in Runs, out \in Seq(Given), buffered \in Seq(Row) :
        r = cur.run /\ out = cur.out /\ buffered = cur.buffered
  BY DEF CursorOK, Positions
<1>1. PICK n \in Nat, m \in Nat, k \in Nat : n = Version(r) /\ m = Len(out) /\ k = Len(buffered)
  <2>1. Version(r) \in Nat /\ Len(out) \in Nat /\ Len(buffered) \in Nat
    BY VersionNat, LenProperties
  <2> QED BY <2>1
<1>2. Numbered(r, n) /\ cur.next = m + k + 1
  BY <1>0, <1>1, VersionNat DEF CursorOK
<1>3. Handed(r, out) /\ Buffers(r, out, buffered)
  BY <1>0 DEF CursorOK
<1>4. \A row \in RunRows(r) : row.seq \in 1..n
  BY <1>2 DEF Numbered
<1>5. CASE k # 0
  <2>1. k \in 1..k
    BY <1>5
  <2>2. buffered[k] \in RunRows(r) /\ buffered[k].seq = m + k
    BY <1>1, <1>3, <2>1 DEF Buffers
  <2>3. m + k \in 1..n
    BY <1>4, <2>2
  <2>4. cur.next <= n + 1
    BY <1>2, <2>3
  <2> QED BY <1>0, <1>1, <2>4
<1>6. CASE k = 0 /\ m # 0
  <2>1. m \in 1..m
    BY <1>6
  <2>2. \E row \in RunRows(r) : row.seq = m
    BY <1>1, <1>3, <2>1 DEF Handed
  <2>3. m \in 1..n
    BY <1>4, <2>2
  <2>4. cur.next <= n + 1
    BY <1>2, <1>6, <2>3
  <2> QED BY <1>0, <1>1, <2>4
<1>7. CASE k = 0 /\ m = 0
  <2>1. cur.next <= n + 1
    BY <1>2, <1>7
  <2> QED BY <1>0, <1>1, <2>1
<1> QED BY <1>5, <1>6, <1>7

\* Iterator::next hands out the first row it buffers.
LEMMA GiveFirst ==
  ASSUME LogInv, NEW r \in Runs, NEW out \in Seq(Given), NEW buffered \in Seq(Row), buffered # <<>>,
         Handed(r, out), Buffers(r, out, buffered)
  PROVE  CursorOK([run |-> r, next |-> Len(out) + Len(buffered) + 1, buffered |-> Tail(buffered), exhausted |-> FALSE,
                   out |-> Append(out, [seq |-> Head(buffered).seq, id |-> Head(buffered).event.id])])
<1>0. PICK n \in Nat, k \in Nat : n = Len(out) /\ k = Len(buffered)
  BY LenProperties
<1>1. PICK given : /\ given = [seq |-> Head(buffered).seq, id |-> Head(buffered).event.id]
                   /\ n = Len(out) /\ k = Len(buffered)
  BY <1>0
<1>2. k # 0
  BY <1>1, EmptySeq
<1>3. Head(buffered) = buffered[1] /\ buffered[1] \in RunRows(r) /\ buffered[1].seq = n + 1
  <2>1. Head(buffered) = buffered[1]
    OBVIOUS
  <2> QED BY <1>1, <1>2, <2>1 DEF Buffers
<1>4. given \in Given /\ given.seq = n + 1 /\ given.id = buffered[1].event.id
  BY <1>1, <1>3 DEF Given, LogInv, LogTypeOK, RunRows, Row, Event
<1>5. PICK more, rest : more = Append(out, given) /\ rest = Tail(buffered)
  OBVIOUS
<1>6. /\ more \in Seq(Given) /\ Len(more) = n + 1
      /\ \A i \in 1..n : more[i] = out[i]
      /\ more[n + 1] = given
  BY <1>1, <1>4, <1>5, AppendProperties
<1>7. rest \in Seq(Row) /\ Len(rest) = k - 1 /\ \A i \in 1..(k - 1) : rest[i] = buffered[i + 1]
  BY <1>1, <1>5, HeadTailProperties
<1>8. Handed(r, more)
  <2> SUFFICES ASSUME NEW i \in 1..(n + 1)
               PROVE  more[i].seq = i /\ \E row \in RunRows(r) : row.seq = i /\ row.event.id = more[i].id
    BY <1>6 DEF Handed
  <2>1. CASE i = n + 1
    BY <1>3, <1>4, <1>6, <2>1
  <2>2. CASE i # n + 1
    <3>1. i \in 1..n
      BY <2>2
    <3> QED BY <1>1, <1>6, <3>1 DEF Handed
  <2> QED BY <2>1, <2>2
<1>9. Buffers(r, more, rest)
  <2> SUFFICES ASSUME NEW i \in 1..(k - 1)
               PROVE  rest[i] \in RunRows(r) /\ rest[i].seq = (n + 1) + i
    BY <1>6, <1>7 DEF Buffers
  <2>1. i + 1 \in 1..k /\ n + (i + 1) = (n + 1) + i
    OBVIOUS
  <2> QED BY <1>1, <1>7, <2>1 DEF Buffers
<1>10. PICK next \in Nat \ {0} : next = n + k + 1
  OBVIOUS
<1>11. next = (n + 1) + (k - 1) + 1
  BY <1>10
<1>12. PICK cur : cur = [run |-> r, next |-> next, buffered |-> rest, exhausted |-> FALSE, out |-> more]
  OBVIOUS
<1>13. cur \in Positions /\ cur.run = r /\ cur.next = next /\ cur.buffered = rest /\ cur.out = more
  BY <1>6, <1>7, <1>12 DEF Positions
<1>14. CursorOK(cur)
  BY <1>6, <1>7, <1>8, <1>9, <1>11, <1>13, StoreAssumption DEF CursorOK, StoreAssumption
<1> QED BY <1>1, <1>5, <1>10, <1>12, <1>14

\* Appends only add rows.
LEMMA EventsGrow ==
  ASSUME [Next]_vars
  PROVE  events \subseteq events'
<1>1. CASE UNCHANGED vars
  BY <1>1 DEF vars, dbVars
<1>2. CASE Next
  BY <1>2 DEF Next, AppendEvent, ReadVersion, AppendExpected, Insert, RegisterPersist, RegisterBind, RebuildStart,
       RebuildCapture, RebuildFinish, CursorOpen, CursorNext, Restart, LoseCache, dbVars, clientVars
<1> QED BY <1>1, <1>2

\* A cursor that stays as it is stays in order, whatever is appended.
LEMMA CursorKept ==
  ASSUME NEW cur, CursorOK(cur), events \subseteq events'
  PROVE  CursorOK(cur)'
<1>1. \A r : RunRows(r) \subseteq RunRows(r)'
  BY DEF RunRows
<1>2. Handed(cur.run, cur.out)' /\ Buffers(cur.run, cur.out, cur.buffered)'
  BY <1>1 DEF CursorOK, Handed, Buffers
<1> QED BY <1>2 DEF CursorOK

\* Opening a cursor, and every outcome of Iterator::next, keeps it in order.
LEMMA NextKeepsOrder ==
  ASSUME LogInv, NEW cur, CursorOK(cur), ~cur.exhausted
  PROVE  LET page == Page(cur.run, cur.next)
             Give(buf, nxt) ==
               [cur EXCEPT !.out = Append(@, [seq |-> Head(buf).seq, id |-> Head(buf).event.id]),
                           !.buffered = Tail(buf), !.next = nxt]
         IN  CursorOK(CASE cur.buffered # <<>> -> Give(cur.buffered, cur.next)
                        [] cur.buffered = <<>> /\ page # <<>> -> Give(page, page[Len(page)].seq + 1)
                        [] cur.buffered = <<>> /\ page = <<>> -> Exhaust(cur))
<1> DEFINE Given1(r, out, buf, nxt) ==
             [run |-> r, next |-> nxt, buffered |-> Tail(buf), exhausted |-> FALSE,
              out |-> Append(out, [seq |-> Head(buf).seq, id |-> Head(buf).event.id])]
<1>1. PICK r \in Runs, out \in Seq(Given), buffered \in Seq(Row), next \in Nat \ {0} :
        cur = [run |-> r, next |-> next, buffered |-> buffered, exhausted |-> FALSE, out |-> out]
  BY DEF CursorOK, Positions
<1>2. Handed(r, out) /\ Buffers(r, out, buffered) /\ next = Len(out) + Len(buffered) + 1
  BY <1>1 DEF CursorOK
<1>3. PICK page : page = Page(r, next)
  OBVIOUS
<1>4. next <= Version(r) + 1
  BY <1>1, NextInReach
<1>5. /\ page \in Seq(Row)
      /\ \A i \in 1..Len(page) : page[i] \in RunRows(r) /\ page[i].seq = next - 1 + i
  BY <1>3, <1>4, PageOfRun
<1>6. CASE buffered # <<>>
  <2>1. CursorOK(Given1(r, out, buffered, next))
    BY <1>2, <1>6, GiveFirst
  <2> QED BY <1>1, <1>6, <2>1
<1>7. CASE buffered = <<>> /\ page # <<>>
  <2>1. Len(buffered) = 0 /\ Len(out) \in Nat /\ Len(page) \in Nat /\ Len(page) # 0
    BY <1>5, <1>7, LenProperties, EmptySeq
  <2>2. next = Len(out) + 1
    BY <1>2, <2>1
  <2>3. Buffers(r, out, page)
    BY <1>5, <2>1, <2>2 DEF Buffers
  <2>4. Len(page) \in 1..Len(page)
    BY <2>1
  <2>5. page[Len(page)].seq = next - 1 + Len(page)
    BY <1>5, <2>4
  <2>6. page[Len(page)].seq + 1 = Len(out) + Len(page) + 1
    BY <2>1, <2>2, <2>5
  <2>7. CursorOK(Given1(r, out, page, Len(out) + Len(page) + 1))
    BY <1>2, <1>5, <1>7, <2>3, GiveFirst
  <2> QED BY <1>1, <1>3, <1>7, <2>6, <2>7
<1>8. CASE buffered = <<>> /\ page = <<>>
  <2>1. CursorOK([run |-> r, next |-> next, buffered |-> buffered, exhausted |-> TRUE, out |-> out])
    BY <1>1, <1>2 DEF CursorOK, Positions
  <2> QED BY <1>1, <1>3, <1>8, <2>1 DEF Exhaust
<1> QED BY <1>6, <1>7, <1>8

\* Every step keeps every cursor in order.
LEMMA StepKeepsCursors ==
  ASSUME LogInv, CursorInv, [Next]_vars
  PROVE  CursorInv'
<1>1. events \subseteq events'
  BY EventsGrow
<1>2. \A cur : CursorOK(cur) => CursorOK(cur)'
  BY <1>1, CursorKept
<1>3. CASE UNCHANGED cursor
  BY <1>2, <1>3 DEF CursorInv
<1>4. ASSUME NEW c \in Cursors, NEW new, CursorOK(new), cursor' = [cursor EXCEPT ![c] = new] PROVE CursorInv'
  BY <1>2, <1>4 DEF CursorInv
<1>5. ASSUME NEW c \in Cursors, NEW r \in Runs, CursorOpen(c, r) PROVE CursorInv'
  <2>1. PICK new : new = [run |-> r, next |-> 1, buffered |-> <<>>, exhausted |-> FALSE, out |-> <<>>]
    OBVIOUS
  <2>2. new \in Positions
    BY <2>1 DEF Positions
  <2>3. CursorOK(new)
    BY <2>1, <2>2, StoreAssumption DEF CursorOK, Handed, Buffers, StoreAssumption
  <2>4. cursor' = [cursor EXCEPT ![c] = new]
    BY <1>5, <2>1 DEF CursorOpen
  <2> QED BY <1>4, <2>3, <2>4
<1>6. ASSUME NEW c \in Cursors, CursorNext(c) PROVE CursorInv'
  <2>1. PICK cur : cur = cursor[c]
    OBVIOUS
  <2>2. CursorOK(cur) /\ ~cur.exhausted
    BY <1>6, <2>1 DEF CursorInv, CursorNext
  <2>3. PICK new : new = LET page == Page(cur.run, cur.next)
                            Give(buf, nxt) ==
                              [cur EXCEPT !.out = Append(@, [seq |-> Head(buf).seq, id |-> Head(buf).event.id]),
                                          !.buffered = Tail(buf), !.next = nxt]
                        IN  CASE cur.buffered # <<>> -> Give(cur.buffered, cur.next)
                              [] cur.buffered = <<>> /\ page # <<>> -> Give(page, page[Len(page)].seq + 1)
                              [] cur.buffered = <<>> /\ page = <<>> -> Exhaust(cur)
    OBVIOUS
  <2>4. CursorOK(new)
    BY <2>2, <2>3, NextKeepsOrder
  <2>5. cursor' = [cursor EXCEPT ![c] = new]
    BY <1>6, <2>1, <2>3 DEF CursorNext
  <2> QED BY <1>4, <2>4, <2>5
<1>7. CASE ~ \E c \in Cursors : CursorNext(c) \/ \E r \in Runs : CursorOpen(c, r)
  <2>1. UNCHANGED cursor
    BY <1>7 DEF Next, vars, AppendEvent, ReadVersion, AppendExpected, RegisterPersist, RegisterBind, RebuildStart,
         RebuildCapture, RebuildFinish, Restart, LoseCache, clientVars
  <2> QED BY <1>3, <2>1
<1> QED BY <1>5, <1>6, <1>7

\* What a cursor hands out is the run's stream from its first event on, in
\* order, no event skipped or repeated at a page boundary, whatever is
\* appended, lost or rebuilt between two calls (Iterator::next, load_page).
THEOREM CursorsStayInOrder == Spec => []CursorsReadStream
<1>1. Init => CursorInv
  <2> SUFFICES ASSUME Init PROVE CursorInv
    OBVIOUS
  <2>1. CursorOK(NoCursor)
    BY DEF CursorOK, NoCursor, Positions, Handed, Buffers
  <2> QED BY <2>1 DEF Init, CursorInv
<1>2. LogInv /\ CursorInv /\ [Next]_vars => CursorInv'
  BY StepKeepsCursors
<1>3. CursorInv => CursorsReadStream
  <2> SUFFICES ASSUME CursorInv, NEW c \in Cursors, NEW i \in DOMAIN cursor[c].out
               PROVE  /\ cursor[c].out[i].seq = i
                      /\ \E row \in RunRows(cursor[c].run) : row.seq = i /\ row.event.id = cursor[c].out[i].id
    BY DEF CursorsReadStream
  <2>1. CursorOK(cursor[c])
    BY DEF CursorInv
  <2>2. i \in 1..Len(cursor[c].out)
    BY <2>1 DEF CursorOK, Positions
  <2> QED BY <2>1, <2>2 DEF CursorOK, Handed
<1> QED BY <1>1, <1>2, <1>3, LogInvariant, PTL DEF Spec

-----------------------------------------------------------------------------
(* Decoding                                                                *)

\* The upcasting steps from version v on, if f has those of higher versions.
Ways(g, f, v, target) ==
  IF v = target THEN {<<>>}
  ELSE UNION {{<<e.impl>> \o rest : rest \in f[e.to]} : e \in {x \in g : x.from = v /\ x.to > v /\ x.to <= target}}

\* The steps from the versions that are at most k below the target.
Steps(g, f, k, target) == f = [v \in (target - k)..target |-> Ways(g, f, v, target)]

\* Registrations only go up, so the steps can be found from the target down.
LEMMA StepsExist ==
  ASSUME NEW g, g \subseteq Edges, NEW target \in Nat, NEW k \in Nat
  PROVE  \E f : Steps(g, f, k, target)
<1> DEFINE bad == {j \in Nat : ~\E f : Steps(g, f, j, target)}
<1>0. \A e \in g : e.to \in Nat
  BY StoreAssumption DEF StoreAssumption, UpcasterEdge, SchemaVersion
<1>1. ASSUME bad # {} PROVE FALSE
  <2>1. PICK m \in bad : \A j \in bad : m <= j
    BY <1>1, LeastOf
  <2>2. m \in Nat /\ ~\E f : Steps(g, f, m, target)
    OBVIOUS
  <2>3. m # 0
    <3> DEFINE f == [v \in (target - 0)..target |-> {<<>>}]
    <3>1. Steps(g, f, 0, target)
      BY DEF Steps, Ways
    <3> QED BY <2>2, <3>1
  <2>4. m - 1 \in Nat /\ m - 1 \notin bad
    BY <2>1, <2>2, <2>3
  <2>5. PICK f : Steps(g, f, m - 1, target)
    BY <2>4
  <2> DEFINE h == [v \in (target - m)..target |-> IF v = target - m THEN Ways(g, f, v, target) ELSE f[v]]
  <2>6. \A v \in (target - m)..target : h[v] = Ways(g, h, v, target)
    <3> SUFFICES ASSUME NEW v \in (target - m)..target PROVE h[v] = Ways(g, h, v, target)
      OBVIOUS
    <3>1. \A e \in g : (e.to > v /\ e.to <= target) => h[e.to] = f[e.to]
      <4> SUFFICES ASSUME NEW e \in g, e.to > v, e.to <= target PROVE h[e.to] = f[e.to]
        OBVIOUS
      <4>1. e.to \in (target - m)..target /\ e.to # target - m
        BY <1>0, <2>2
      <4> QED BY <4>1
    <3>2. Ways(g, h, v, target) = Ways(g, f, v, target)
      <4> DEFINE up == {x \in g : x.from = v /\ x.to > v /\ x.to <= target}
                 On(q, e) == {<<e.impl>> \o rest : rest \in q[e.to]}
      <4> HIDE DEF h
      <4>1. \A e \in up : h[e.to] = f[e.to]
        BY <3>1
      <4>2. \A e \in up : On(h, e) = On(f, e)
        BY <4>1
      <4> HIDE DEF On, up
      <4>3. {On(h, e) : e \in up} = {On(f, e) : e \in up}
        BY <4>2
      <4>4. /\ Ways(g, h, v, target) = IF v = target THEN {<<>>} ELSE UNION {On(h, e) : e \in up}
            /\ Ways(g, f, v, target) = IF v = target THEN {<<>>} ELSE UNION {On(f, e) : e \in up}
        BY DEF Ways, On, up
      <4> QED BY <4>3, <4>4
    <3>3. CASE v = target - m
      BY <3>2, <3>3
    <3>4. CASE v # target - m
      <4>1. v \in (target - (m - 1))..target /\ h[v] = f[v]
        BY <2>2, <3>4
      <4>2. f[v] = Ways(g, f, v, target)
        BY <2>5, <4>1 DEF Steps
      <4> QED BY <3>2, <4>1, <4>2
    <3> QED BY <3>3, <3>4
  <2> HIDE DEF h
  <2>7. h = [v \in (target - m)..target |-> h[v]]
    BY DEF h
  <2>8. Steps(g, h, m, target)
    BY <2>6, <2>7 DEF Steps
  <2> QED BY <2>2, <2>8
<1> QED BY <1>1

\* UpcasterGraph::plan: a version no lower than the row's has its steps.
LEMMA PlanUnfolds ==
  ASSUME NEW g, g \subseteq Edges, NEW from \in SchemaVersion, NEW target \in SchemaVersion, from <= target
  PROVE  \E f : /\ Plan(g, from, target) = f[from]
                /\ \A v \in 1..target : f[v] = Ways(g, f, v, target)
<1> DEFINE Fits(f) == f = [v \in 1..target |->
                             IF v = target THEN {<<>>}
                             ELSE UNION {{<<e.impl>> \o rest : rest \in f[e.to]} :
                                           e \in {x \in g : x.from = v /\ x.to > v /\ x.to <= target}}]
           steps == CHOOSE f : Fits(f)
<1>1. target \in Nat /\ from \in Nat /\ target - 1 \in Nat /\ target - (target - 1) = 1 /\ ~(from > target)
  BY StoreAssumption DEF SchemaVersion, StoreAssumption
<1>2. Plan(g, from, target) = steps[from]
  BY <1>1 DEF Plan
<1>3. PICK f : Steps(g, f, target - 1, target)
  BY <1>1, StepsExist
<1>4. Fits(f)
  BY <1>1, <1>3 DEF Steps, Ways
<1> HIDE DEF Fits
<1>5. Fits(steps)
  BY <1>4
<1> HIDE DEF steps
<1>6. steps = [v \in 1..target |-> Ways(g, steps, v, target)]
  BY <1>5 DEF Fits, Ways
<1> QED BY <1>2, <1>6

\* A row of the target's version needs no step.
LEMMA PlanSelf ==
  ASSUME NEW g, g \subseteq Edges, NEW v \in SchemaVersion
  PROVE  Plan(g, v, v) = {<<>>}
<1>1. v \in 1..v /\ v <= v
  BY StoreAssumption DEF SchemaVersion, StoreAssumption
<1>2. PICK f : Plan(g, v, v) = f[v] /\ \A u \in 1..v : f[u] = Ways(g, f, u, v)
  BY <1>1, PlanUnfolds
<1>3. f[v] = Ways(g, f, v, v)
  BY <1>1, <1>2
<1> QED BY <1>2, <1>3 DEF Ways

\* What a row is read through is a sequence of implementations.
LEMMA PlanShape ==
  ASSUME NEW g, g \subseteq Edges, NEW from \in SchemaVersion, NEW target \in SchemaVersion
  PROVE  Plan(g, from, target) \subseteq Seq(STRING)
<1>1. target \in Nat /\ from \in Nat /\ from >= 1
  BY StoreAssumption DEF SchemaVersion, StoreAssumption
<1>2. CASE from > target
  BY <1>2 DEF Plan
<1>3. CASE ~(from > target)
  <2>1. from <= target /\ from \in 1..target
    BY <1>1, <1>3
  <2>2. PICK f : Plan(g, from, target) = f[from] /\ \A v \in 1..target : f[v] = Ways(g, f, v, target)
    BY <2>1, PlanUnfolds
  <2> DEFINE bad == {d \in 0..(target - 1) : ~(f[target - d] \subseteq Seq(STRING))}
  <2>3. ASSUME bad # {} PROVE FALSE
    <3>1. bad \subseteq Nat
      BY <1>1
    <3>2. PICK m \in bad : \A d \in bad : m <= d
      BY <2>3, <3>1, LeastOf
    <3>3. PICK v \in 1..target : v = target - m
      BY <1>1
    <3>4. f[v] = Ways(g, f, v, target) /\ ~(f[v] \subseteq Seq(STRING))
      BY <2>2, <3>3
    <3>5. ASSUME NEW e \in g, e.to > v, e.to <= target PROVE e.impl \in STRING /\ f[e.to] \subseteq Seq(STRING)
      <4>1. e.to \in Nat /\ e.impl \in STRING
        BY StoreAssumption DEF StoreAssumption, UpcasterEdge, SchemaVersion
      <4>2. PICK d \in 0..(target - 1) : d = target - e.to /\ target - d = e.to /\ ~(m <= d)
        BY <1>1, <3>3, <3>5, <4>1
      <4>3. d \notin bad
        BY <3>2, <4>2
      <4> QED BY <4>1, <4>2, <4>3
    <3>6. \A s \in Ways(g, f, v, target) : s \in Seq(STRING)
      <4> SUFFICES ASSUME NEW s \in Ways(g, f, v, target) PROVE s \in Seq(STRING)
        OBVIOUS
      <4>1. CASE v = target
        BY <4>1 DEF Ways
      <4>2. CASE v # target
        <5>1. PICK e \in g : e.to > v /\ e.to <= target /\ \E rest \in f[e.to] : s = <<e.impl>> \o rest
          BY <4>2 DEF Ways
        <5>2. PICK rest \in f[e.to] : s = <<e.impl>> \o rest
          BY <5>1
        <5>3. e.impl \in STRING /\ rest \in Seq(STRING)
          BY <3>5, <5>1, <5>2
        <5>4. <<e.impl>> \in Seq(STRING)
          BY <5>3
        <5> QED BY <5>2, <5>3, <5>4, ConcatProperties
      <4> QED BY <4>1, <4>2
    <3> QED BY <3>4, <3>6
  <2>4. PICK d \in 0..(target - 1) : d = target - from /\ target - d = from
    BY <1>1, <2>1
  <2>5. d \notin bad
    BY <2>3
  <2> QED BY <2>2, <2>4, <2>5
<1> QED BY <1>2, <1>3

\* A decoded row keeps its id and body and is read through a sequence.
LEMMA DecodeShape ==
  ASSUME NEW row \in Row, NEW g, g \subseteq Edges, NEW h \in Handles, NEW d \in Decode(row, g, Schema[h])
  PROVE  d \in Decoded /\ d.id = row.event.id /\ d.body = row.event.body
<1>1. row.event \in Event /\ row.event.schema \in SchemaVersion /\ row.event.id \in Ids /\ row.event.body \in Bodies
  BY DEF Row, Event
<1>2. Schema[h] \in SchemaVersion
  BY StoreAssumption DEF StoreAssumption
<1>3. Plan(g, row.event.schema, Schema[h]) \subseteq Seq(STRING)
  BY <1>1, <1>2, PlanShape
<1>4. PICK p \in Plan(g, row.event.schema, Schema[h]) : d = [id |-> row.event.id, body |-> row.event.body, via |-> p]
  BY DEF Decode
<1> QED BY <1>1, <1>3, <1>4 DEF Decoded

\* The same of the row that a fold picks.
LEMMA DecodedShape ==
  ASSUME NEW row \in Row, NEW g, g \subseteq Edges, NEW h \in Handles, Decode(row, g, Schema[h]) # {}
  PROVE  /\ DecodedRow(row, g, h) \in Decoded
         /\ DecodedRow(row, g, h).id = row.event.id /\ DecodedRow(row, g, h).body = row.event.body
<1>1. PICK d : d = DecodedRow(row, g, h)
  OBVIOUS
<1>2. d \in Decode(row, g, Schema[h])
  BY <1>1 DEF DecodedRow
<1> QED BY <1>1, <1>2, DecodeShape

\* A row that was appended at the handle's own version is read as it is.
LEMMA DecodedSelf ==
  ASSUME NEW row \in Row, NEW g, g \subseteq Edges, NEW h \in Handles, row.event.schema = Schema[h]
  PROVE  /\ Decode(row, g, Schema[h]) # {}
         /\ DecodedRow(row, g, h) = [id |-> row.event.id, body |-> row.event.body, via |-> <<>>]
<1>1. Schema[h] \in SchemaVersion
  BY StoreAssumption DEF StoreAssumption
<1>2. Plan(g, row.event.schema, Schema[h]) = {<<>>}
  BY <1>1, PlanSelf
<1>3. Decode(row, g, Schema[h]) = {[id |-> row.event.id, body |-> row.event.body, via |-> <<>>]}
  BY <1>2 DEF Decode
<1> QED BY <1>3 DEF DecodedRow

-----------------------------------------------------------------------------
(* Caches and search                                                       *)

\* The entries of a cache are the first rows of the stream.
Follows(r, cache) ==
  /\ cache \in Seq(Decoded) /\ Len(cache) <= Version(r)
  /\ \A i \in 1..Len(cache) : \E row \in RunRows(r) : row.seq = i /\ row.event.id = cache[i].id
  /\ losses = 0 => Len(cache) = Version(r)

CachesOK ==
  /\ caches = [r \in Runs |-> caches[r]]
  /\ \A r \in Runs : \E cache : cache = caches[r] /\ Follows(r, cache)

\* The rows all decode with graph g as handle h reads them.
AllDecode(rows, g, h) == \A row \in rows : Decode(row, g, Schema[h]) # {}

RebuildsOK ==
  /\ rebuild = [h \in Handles |-> rebuild[h]]
  /\ \A h \in Handles : rebuild[h].phase = "folded" => AllDecode(rebuild[h].events, rebuild[h].graph, h)

\* What the coverage row says of the index, where it is about the events that
\* are there.  Handles of one schema version read alike.
Covered(c) ==
  /\ c.events \subseteq events
  /\ c.events = events =>
       \A h \in Handles : Schema[h] = c.schema =>
         AllDecode(events, c.graph, h) /\ fts = FoldIndex(events, c.graph, h)

IndexOK ==
  /\ fts \subseteq [id : Ids, text : [body : Bodies, via : Seq(STRING)]]
  /\ coverage = {} \/ \E c : coverage = {c} /\ Covered(c)
  /\ coverage = {} /\ events = {} => fts = {}

DerivedInv == CachesOK /\ RebuildsOK /\ IndexOK /\ losses <= CacheLosses

\* A step that leaves the events and what is derived from them alone.
LEMMA TablesKept ==
  ASSUME DerivedInv, RebuildsOK', UNCHANGED <<events, caches, fts, coverage, losses>>
  PROVE  DerivedInv'
<1>1. CachesOK'
  <2>1. \A r \in Runs : RunRows(r)' = RunRows(r)
    BY DEF RunRows
  <2>2. ASSUME NEW r \in Runs PROVE Version(r)' = Version(r)
    <3>1. RunRows(r)' = RunRows(r)
      BY <2>1
    <3> QED BY <3>1 DEF Version
  <2>3. ASSUME NEW r \in Runs PROVE \E cache : cache = caches'[r] /\ Follows(r, cache)'
    <3>1. PICK cache : cache = caches[r] /\ Follows(r, cache)
      BY DEF DerivedInv, CachesOK
    <3>2. Follows(r, cache)'
      BY <2>1, <2>2, <3>1 DEF Follows
    <3> QED BY <3>1, <3>2
  <2> QED BY <2>3 DEF DerivedInv, CachesOK
<1>2. IndexOK'
  <2>1. \A c : Covered(c) => Covered(c)'
    BY DEF Covered
  <2> QED BY <2>1 DEF DerivedInv, IndexOK
<1> QED BY <1>1, <1>2 DEF DerivedInv

\* The same of one that leaves the rebuilds alone too.
LEMMA DerivedKept ==
  ASSUME DerivedInv, UNCHANGED <<events, caches, fts, coverage, rebuild, losses>>
  PROVE  DerivedInv'
<1>1. RebuildsOK'
  BY DEF DerivedInv, RebuildsOK
<1> QED BY <1>1, TablesKept

\* A new event takes the next place in its run, and no place in another.
LEMMA VersionAfterInsert ==
  ASSUME LogInv, NEW h \in Handles, NEW e \in Inputs, Fresh(e), Insert(h, e), NEW r \in Runs
  PROVE  Version(r)' = IF r = e.run THEN Version(r) + 1 ELSE Version(r)
<1>1. events' = events \cup {[event |-> e, seq |-> Version(e.run) + 1]}
  BY DEF Insert
<1>2. CASE r # e.run
  <2>1. RunRows(r)' = RunRows(r)
    BY <1>1, <1>2 DEF RunRows
  <2> QED BY <1>2, <2>1 DEF Version
<1>3. CASE r = e.run
  <2>1. PICK n \in Nat : n = Version(r) /\ Numbered(r, n)
    BY VersionNat
  <2>2. PICK new : new = [event |-> e, seq |-> n + 1]
    OBVIOUS
  <2>3. RunRows(r)' = RunRows(r) \cup {new} /\ new.seq = n + 1
    BY <1>1, <1>3, <2>1, <2>2 DEF RunRows
  <2>4. \A row \in RunRows(r) : row.seq \in 1..n
    BY <2>1 DEF Numbered
  <2>5. \A m \in {row.seq : row \in RunRows(r)'} : (\A row \in RunRows(r)' : row.seq <= m) <=> m = n + 1
    <3> SUFFICES ASSUME NEW x \in RunRows(r)'
                 PROVE  (\A row \in RunRows(r)' : row.seq <= x.seq) <=> x.seq = n + 1
      OBVIOUS
    <3>1. x.seq \in 1..(n + 1) /\ \A row \in RunRows(r)' : row.seq \in 1..(n + 1)
      BY <2>3, <2>4
    <3>2. (\A row \in RunRows(r)' : row.seq <= x.seq) => n + 1 <= x.seq
      BY <2>3
    <3> QED BY <3>1, <3>2
  <2>6. n + 1 \in {row.seq : row \in RunRows(r)'} /\ RunRows(r)' # {}
    BY <2>3
  <2>7. (CHOOSE m \in {row.seq : row \in RunRows(r)'} : \A row \in RunRows(r)' : row.seq <= m) = n + 1
    BY <2>5, <2>6
  <2>8. Version(r)' = n + 1
    BY <2>6, <2>7 DEF Version
  <2> QED BY <1>3, <2>1, <2>8
<1> QED BY <1>2, <1>3

\* append_prepared extends the cache of its run by the row it inserts.
LEMMA InsertKeepsCaches ==
  ASSUME LogInv, CachesOK, NEW h \in Handles, NEW e \in Inputs, Fresh(e), Insert(h, e), UNCHANGED losses
  PROVE  CachesOK'
<1>1. e.run \in Runs /\ e.id \in Ids /\ e.body \in Bodies
  BY StoreAssumption DEF Event, StoreAssumption
<1>2. PICK entry : entry = [id |-> e.id, body |-> e.body, via |-> <<>>]
  OBVIOUS
<1>3. entry \in Decoded /\ entry.id = e.id
  BY <1>1, <1>2 DEF Decoded
<1>4. caches' = [caches EXCEPT ![e.run] = Append(@, entry)]
  BY <1>2 DEF Insert
<1>5. \A r \in Runs : RunRows(r) \subseteq RunRows(r)'
  BY DEF Insert, RunRows
<1>6. ASSUME NEW r \in Runs PROVE \E cache : cache = caches'[r] /\ Follows(r, cache)'
  <2>1. PICK cache : cache = caches[r] /\ Follows(r, cache)
    BY DEF CachesOK
  <2>2. PICK n \in Nat, v \in Nat : n = Len(cache) /\ v = Version(r) /\ n <= v
    BY <2>1, VersionNat, LenProperties DEF Follows
  <2>3. CASE r # e.run
    <3>1. Version(r)' = v
      BY <2>2, <2>3, VersionAfterInsert
    <3>2. caches'[r] = cache
      BY <1>1, <1>4, <2>1, <2>3 DEF CachesOK
    <3>3. Follows(r, cache)'
      BY <1>5, <2>1, <2>2, <3>1 DEF Follows
    <3> QED BY <3>2, <3>3
  <2>4. CASE r = e.run
    <3>1. Version(r)' = v + 1
      BY <2>2, <2>4, VersionAfterInsert
    <3>2. n = v
      BY <2>1, <2>2, <2>4 DEF Fresh
    <3>3. PICK more : more = Append(cache, entry)
      OBVIOUS
    <3>4. /\ more \in Seq(Decoded) /\ Len(more) = n + 1
          /\ \A i \in 1..n : more[i] = cache[i]
          /\ more[n + 1] = entry
      <4>1. cache \in Seq(Decoded)
        BY <2>1 DEF Follows
      <4> QED BY <1>3, <2>2, <3>3, <4>1, AppendProperties
    <3>5. caches'[r] = more
      BY <1>1, <1>4, <2>1, <2>4, <3>3 DEF CachesOK
    <3>6. PICK row : row = [event |-> e, seq |-> v + 1]
      OBVIOUS
    <3>7. row \in RunRows(r)' /\ row.seq = v + 1 /\ row.event.id = e.id
      BY <2>2, <2>4, <3>6 DEF Insert, RunRows
    <3>8. ASSUME NEW i \in 1..(n + 1) PROVE \E x \in RunRows(r)' : x.seq = i /\ x.event.id = more[i].id
      <4>1. CASE i = n + 1
        BY <1>3, <3>2, <3>4, <3>7, <4>1
      <4>2. CASE i # n + 1
        <5>1. i \in 1..n
          BY <4>2
        <5>2. PICK x \in RunRows(r) : x.seq = i /\ x.event.id = cache[i].id
          BY <2>1, <2>2, <5>1 DEF Follows
        <5> QED BY <1>5, <3>4, <5>1, <5>2
      <4> QED BY <4>1, <4>2
    <3>9. Follows(r, more)'
      BY <3>1, <3>2, <3>4, <3>8 DEF Follows
    <3> QED BY <3>5, <3>9
  <2> QED BY <2>3, <2>4
<1>7. caches' = [r \in Runs |-> caches'[r]]
  BY <1>4 DEF CachesOK
<1> QED BY <1>6, <1>7 DEF CachesOK

\* The index entry of a row.
Entry(row, g, h) ==
  LET d == DecodedRow(row, g, h) IN [id |-> d.id, text |-> [body |-> d.body, via |-> d.via]]

\* One more row is one more entry, if it has text.
LEMMA FoldGrows ==
  ASSUME NEW rows, NEW new, NEW g, NEW h
  PROVE  FoldIndex(rows \cup {new}, g, h) =
           FoldIndex(rows, g, h) \cup (IF new.event.body \in TextBodies THEN {Entry(new, g, h)} ELSE {})
<1>1. \A q : FoldIndex(q, g, h) = {Entry(row, g, h) : row \in Searchable(q)}
  BY DEF FoldIndex, Entry
<1>2. Searchable(rows \cup {new}) = Searchable(rows) \cup (IF new.event.body \in TextBodies THEN {new} ELSE {})
  BY DEF Searchable
<1> QED BY <1>1, <1>2

\* AdvanceCoverage: an index that covered the events covers the new one too;
\* one that did not is not said to.
LEMMA InsertKeepsIndex ==
  ASSUME LogInv, IndexOK, NEW h \in Handles, NEW e \in Inputs, Admissible(h, e), Fresh(e), Insert(h, e)
  PROVE  IndexOK'
<1>1. e \in Event /\ e.id \in Ids /\ e.body \in Bodies /\ e.run \in Runs /\ e.schema = Schema[h]
  BY StoreAssumption DEF Event, StoreAssumption, Admissible
<1>2. PICK n \in Nat : n = Version(e.run)
  BY <1>1, VersionNat
<1>3. PICK new : new = [event |-> e, seq |-> n + 1]
  OBVIOUS
<1>4. new \in Row /\ new.event = e
  BY <1>1, <1>2, <1>3 DEF Row
<1>5. new \notin events
  BY <1>4 DEF Fresh, SameId
<1>6. events' = events \cup {new}
  BY <1>2, <1>3 DEF Insert
<1>7. PICK text : text = [id |-> e.id, text |-> [body |-> e.body, via |-> <<>>]]
  OBVIOUS
<1>8. text \in [id : Ids, text : [body : Bodies, via : Seq(STRING)]]
  BY <1>1, <1>7
<1>9. fts' = IF h \in FtsHandles /\ e.body \in TextBodies THEN fts \cup {text} ELSE fts
  BY <1>7 DEF Insert, IndexText
<1>10. fts' \subseteq [id : Ids, text : [body : Bodies, via : Seq(STRING)]]
  BY <1>8, <1>9 DEF IndexOK
<1>11. events' # {}
  BY <1>6
<1>12. coverage' = {} \/ \E c : coverage' = {c} /\ Covered(c)'
  <2>1. CASE h \notin FtsHandles
    <3>1. coverage' = coverage
      BY <2>1 DEF Insert, AdvanceCoverage
    <3>2. \A c : Covered(c) => Covered(c)'
      BY <1>5, <1>6 DEF Covered
    <3> QED BY <3>1, <3>2 DEF IndexOK
  <2>2. CASE h \in FtsHandles /\ ~FtsCurrent(h)
    BY <2>2 DEF Insert, AdvanceCoverage
  <2>3. CASE h \in FtsHandles /\ FtsCurrent(h)
    <3>1. PICK g, old, all : g = graph[h] /\ old = events /\ all = events'
      OBVIOUS
    <3>2. g \subseteq Edges /\ all = old \cup {new}
      BY <1>6, <3>1 DEF LogInv, LogTypeOK
    <3>3. PICK c : c = [events |-> all, schema |-> Schema[h], graph |-> g]
      OBVIOUS
    <3>4. coverage' = {c}
      BY <2>3, <3>1, <3>3 DEF Insert, AdvanceCoverage, Coverage
    <3>5. ASSUME NEW k \in Handles, Schema[k] = Schema[h]
          PROVE  AllDecode(all, g, k) /\ fts' = FoldIndex(all, g, k)
      <4>1. AllDecode(old, g, k) /\ fts = FoldIndex(old, g, k)
        <5>1. CASE coverage = {Coverage(events, h)}
          <6>1. PICK d : coverage = {d} /\ Covered(d)
            BY <5>1 DEF IndexOK
          <6>2. d = [events |-> old, schema |-> Schema[h], graph |-> g]
            BY <3>1, <5>1, <6>1 DEF Coverage
          <6> QED BY <3>1, <3>5, <6>1, <6>2 DEF Covered
        <5>2. CASE coverage = {} /\ events = {}
          <6>1. fts = {} /\ old = {}
            BY <3>1, <5>2 DEF IndexOK
          <6> QED BY <6>1 DEF AllDecode, FoldIndex, Searchable
        <5> QED BY <2>3, <5>1, <5>2 DEF FtsCurrent
      <4>2. new.event.schema = Schema[k]
        BY <1>1, <1>4, <3>5
      <4>3. Decode(new, g, Schema[k]) # {} /\ DecodedRow(new, g, k) = [id |-> e.id, body |-> e.body, via |-> <<>>]
        BY <1>4, <3>2, <4>2, DecodedSelf
      <4>4. Entry(new, g, k) = text
        BY <1>7, <4>3 DEF Entry
      <4>5. AllDecode(all, g, k)
        BY <3>2, <4>1, <4>3 DEF AllDecode
      <4>6. FoldIndex(all, g, k) = FoldIndex(old, g, k) \cup (IF e.body \in TextBodies THEN {text} ELSE {})
        BY <1>4, <3>2, <4>4, FoldGrows
      <4> QED BY <1>9, <2>3, <4>1, <4>5, <4>6
    <3>6. Covered(c)'
      <4>1. c.events = events' /\ c.graph = g /\ c.schema = Schema[h]
        BY <3>1, <3>3
      <4>2. all = events'
        BY <3>1
      <4> QED BY <3>5, <4>1, <4>2 DEF Covered
    <3> QED BY <3>4, <3>6
  <2> QED BY <2>1, <2>2, <2>3
<1> QED BY <1>10, <1>11, <1>12 DEF IndexOK

\* An append keeps what is derived in step, rebuilds in progress included.
LEMMA InsertKeepsDerived ==
  ASSUME LogInv, DerivedInv, NEW h \in Handles, NEW e \in Inputs, Admissible(h, e), Fresh(e), Insert(h, e),
         UNCHANGED <<rebuild, losses>>
  PROVE  DerivedInv'
<1>1. CachesOK'
  BY InsertKeepsCaches DEF DerivedInv
<1>2. IndexOK'
  BY InsertKeepsIndex DEF DerivedInv
<1>3. RebuildsOK'
  BY DEF DerivedInv, RebuildsOK
<1> QED BY <1>1, <1>2, <1>3 DEF DerivedInv

\* A cache that the rebuild folds from all the rows of a run follows it.
LEMMA FoldFollows ==
  ASSUME LogInv, NEW r \in Runs, NEW h \in Handles, NEW g, g \subseteq Edges, AllDecode(events, g, h)
  PROVE  /\ FoldStream(events, r, g, h) \in Seq(Decoded)
         /\ Len(FoldStream(events, r, g, h)) = Version(r)
         /\ \A i \in 1..Version(r) : \E row \in RunRows(r) :
              row.seq = i /\ row.event.id = FoldStream(events, r, g, h)[i].id
<1>1. PICK n \in Nat : n = Version(r) /\ Numbered(r, n)
  BY VersionNat
<1>2. PICK all : all = events
  OBVIOUS
<1>3. Mine(all, r) = RunRows(r) /\ RunRows(r) \subseteq events /\ RunRows(r) \subseteq Row
  BY <1>2 DEF Mine, RunRows, LogInv, LogTypeOK
<1>4. Stretch(Mine(all, r), 0, n)
  BY <1>1, <1>3 DEF Stretch, Numbered
<1>5. PICK s : s = Stream(all, r)
  OBVIOUS
<1>6. s \in [1..n -> Mine(all, r)] /\ \A i \in 1..n : s[i].seq = i
  <2>1. 0 \in Nat /\ \A i \in 1..n : 0 + i = i
    OBVIOUS
  <2>2. Stream(all, r) \in [1..n -> Mine(all, r)] /\ \A i \in 1..n : Stream(all, r)[i].seq = 0 + i
    BY <1>4, <2>1, StreamOfStretch
  <2> QED BY <1>5, <2>1, <2>2
<1>7. PICK cache : cache = [i \in 1..n |-> DecodedRow(s[i], g, h)]
  OBVIOUS
<1>8. FoldStream(events, r, g, h) = cache
  BY <1>2, <1>5, <1>6, <1>7 DEF FoldStream
<1>9. ASSUME NEW i \in 1..n
      PROVE  s[i] \in RunRows(r) /\ cache[i] \in Decoded /\ cache[i].id = s[i].event.id
  <2>1. s[i] \in RunRows(r)
    BY <1>3, <1>6
  <2>2. PICK row : row = s[i]
    OBVIOUS
  <2>3. row \in Row /\ Decode(row, g, Schema[h]) # {}
    BY <1>3, <2>1, <2>2 DEF AllDecode
  <2>4. DecodedRow(row, g, h) \in Decoded /\ DecodedRow(row, g, h).id = row.event.id
    BY <2>3, DecodedShape
  <2> QED BY <1>7, <2>1, <2>2, <2>4
<1>10. cache \in Seq(Decoded) /\ Len(cache) = n
  <2>1. cache \in [1..n -> Decoded]
    BY <1>7, <1>9
  <2> QED BY <2>1, SeqDef, LenProperties
<1> QED BY <1>1, <1>6, <1>8, <1>9, <1>10

\* Handles of one schema version read the rows alike.
LEMMA ReadAlike ==
  ASSUME NEW rows, NEW g, NEW h \in Handles, NEW k \in Handles, Schema[k] = Schema[h]
  PROVE  (AllDecode(rows, g, k) <=> AllDecode(rows, g, h)) /\ FoldIndex(rows, g, k) = FoldIndex(rows, g, h)
<1>1. \A row : DecodedRow(row, g, k) = DecodedRow(row, g, h)
  BY DEF DecodedRow
<1> QED BY <1>1 DEF AllDecode, FoldIndex

\* The entries of an index are those of decoded rows.
LEMMA FoldShape ==
  ASSUME NEW rows, rows \subseteq Row, NEW g, g \subseteq Edges, NEW h \in Handles, AllDecode(rows, g, h)
  PROVE  FoldIndex(rows, g, h) \subseteq [id : Ids, text : [body : Bodies, via : Seq(STRING)]]
<1>1. FoldIndex(rows, g, h) = {Entry(row, g, h) : row \in Searchable(rows)}
  BY DEF FoldIndex, Entry
<1>2. ASSUME NEW row \in Searchable(rows)
      PROVE  Entry(row, g, h) \in [id : Ids, text : [body : Bodies, via : Seq(STRING)]]
  <2>1. row \in Row /\ Decode(row, g, Schema[h]) # {}
    BY DEF Searchable, AllDecode
  <2>2. PICK d : d = DecodedRow(row, g, h)
    OBVIOUS
  <2>3. d \in Decoded
    BY <2>1, <2>2, DecodedShape
  <2>4. Entry(row, g, h) = [id |-> d.id, text |-> [body |-> d.body, via |-> d.via]]
    BY <2>2 DEF Entry
  <2> QED BY <2>3, <2>4 DEF Decoded
<1> QED BY <1>1, <1>2

\* The commit of a rebuild: it installs a fold of the events that are there,
\* through the graph that the handle has, or nothing.
LEMMA RebuildKeepsDerived ==
  ASSUME LogInv, DerivedInv, NEW h \in Handles, RebuildFinish(h)
  PROVE  DerivedInv'
<1>1. rebuild' = [rebuild EXCEPT ![h] = Idle] /\ Idle.phase # "folded"
  <2>1. Idle.phase # "folded"
    BY DEF Idle
  <2> QED BY <2>1 DEF RebuildFinish
<1>2. RebuildsOK'
  BY <1>1 DEF DerivedInv, RebuildsOK
<1>3. events' = events /\ losses' = losses
  BY DEF RebuildFinish, clientVars
<1>4. ASSUME NEW r \in Runs PROVE RunRows(r)' = RunRows(r) /\ Version(r)' = Version(r)
  <2>1. RunRows(r)' = RunRows(r)
    BY <1>3 DEF RunRows
  <2> QED BY <2>1 DEF Version
<1>5. CASE ~CaptureCurrent(h)
  <2>1. UNCHANGED <<caches, fts, coverage>>
    BY <1>5 DEF RebuildFinish
  <2>2. CachesOK'
    BY <1>3, <1>4, <2>1 DEF DerivedInv, CachesOK, Follows
  <2>3. \A c : Covered(c) => Covered(c)'
    BY <1>3, <2>1 DEF Covered
  <2>4. IndexOK'
    BY <1>3, <2>1, <2>3 DEF DerivedInv, IndexOK
  <2> QED BY <1>2, <1>3, <2>2, <2>4 DEF DerivedInv
<1>6. CASE CaptureCurrent(h)
  <2>1. PICK g, all : g = graph[h] /\ all = events
    OBVIOUS
  <2>2. rebuild[h].graph = g /\ rebuild[h].events = all /\ rebuild[h].phase = "folded"
    BY <1>6, <2>1 DEF CaptureCurrent, RebuildFinish
  <2>3. g \subseteq Edges /\ all \subseteq Row /\ AllDecode(all, g, h)
    BY <2>1, <2>2 DEF LogInv, LogTypeOK, DerivedInv, RebuildsOK
  <2>4. caches' = [r \in Runs |-> FoldStream(all, r, g, h)]
    BY <1>6, <2>2 DEF RebuildFinish
  <2>5. CachesOK'
    <3>1. ASSUME NEW r \in Runs PROVE \E cache : cache = caches'[r] /\ Follows(r, cache)'
      <4>1. PICK cache : cache = FoldStream(events, r, g, h)
        OBVIOUS
      <4>2. PICK n \in Nat : n = Version(r)
        BY VersionNat
      <4>3. /\ cache \in Seq(Decoded) /\ Len(cache) = n
            /\ \A i \in 1..n : \E row \in RunRows(r) : row.seq = i /\ row.event.id = cache[i].id
        BY <2>1, <2>3, <4>1, <4>2, FoldFollows
      <4>4. cache = caches'[r]
        BY <2>1, <2>4, <4>1
      <4>5. Follows(r, cache)'
        BY <1>4, <4>2, <4>3 DEF Follows
      <4> QED BY <4>4, <4>5
    <3>2. caches' = [r \in Runs |-> caches'[r]]
      BY <2>4
    <3> QED BY <3>1, <3>2 DEF CachesOK
  <2>6. CASE h \notin FtsHandles
    <3>1. UNCHANGED <<fts, coverage>>
      BY <1>6, <2>6 DEF RebuildFinish
    <3>2. \A c : Covered(c) => Covered(c)'
      BY <1>3, <3>1 DEF Covered
    <3>3. IndexOK'
      BY <1>3, <3>1, <3>2 DEF DerivedInv, IndexOK
    <3> QED BY <1>2, <1>3, <2>5, <3>3 DEF DerivedInv
  <2>7. CASE h \in FtsHandles
    <3>1. PICK c : c = [events |-> all, schema |-> Schema[h], graph |-> g]
      OBVIOUS
    <3>2. fts' = FoldIndex(all, g, h) /\ coverage' = {c}
      BY <1>6, <2>2, <2>7, <3>1 DEF RebuildFinish
    <3>3. fts' \subseteq [id : Ids, text : [body : Bodies, via : Seq(STRING)]]
      BY <2>3, <3>2, FoldShape
    <3>4. ASSUME NEW k \in Handles, Schema[k] = Schema[h]
          PROVE  AllDecode(all, g, k) /\ fts' = FoldIndex(all, g, k)
      BY <2>3, <3>2, <3>4, ReadAlike
    <3>5. c.events = all /\ c.schema = Schema[h] /\ c.graph = g /\ all = events'
      BY <1>3, <2>1, <3>1
    <3>6. Covered(c)'
      BY <3>4, <3>5 DEF Covered
    <3>7. IndexOK'
      BY <3>2, <3>3, <3>6 DEF IndexOK
    <3> QED BY <1>2, <1>3, <2>5, <3>7 DEF DerivedInv
  <2> QED BY <2>6, <2>7
<1> QED BY <1>5, <1>6

\* The capture folds only rows that decode.
LEMMA CaptureKeepsDerived ==
  ASSUME DerivedInv, NEW h \in Handles, RebuildCapture(h)
  PROVE  DerivedInv'
<1>1. UNCHANGED <<events, caches, fts, coverage, losses>>
  BY DEF RebuildCapture, dbVars
<1>2. PICK g, all : g = rebuild[h].graph /\ all = events
  OBVIOUS
<1>3. PICK old : old = rebuild /\ old = [k \in Handles |-> old[k]]
  BY DEF DerivedInv, RebuildsOK
<1>4. CASE AllDecode(all, g, h)
  <2>1. PICK new : new = [phase |-> "folded", graph |-> g, events |-> all]
    OBVIOUS
  <2>2. rebuild' = [old EXCEPT ![h] = new]
    BY <1>2, <1>3, <1>4, <2>1 DEF RebuildCapture, AllDecode
  <2>3. new.graph = g /\ new.events = all
    BY <2>1
  <2>4. \A k \in Handles : k # h => rebuild'[k] = rebuild[k]
    BY <1>3, <2>2
  <2>5. rebuild'[h] = new /\ rebuild' = [k \in Handles |-> rebuild'[k]]
    BY <1>3, <2>2
  <2>6. RebuildsOK'
    BY <1>4, <2>3, <2>4, <2>5 DEF DerivedInv, RebuildsOK
  <2> QED BY <1>1, <2>6, TablesKept
<1>5. CASE ~AllDecode(all, g, h)
  <2>1. rebuild' = [old EXCEPT ![h] = Idle]
    BY <1>2, <1>3, <1>5 DEF RebuildCapture, AllDecode
  <2>2. Idle.phase # "folded"
    BY DEF Idle
  <2>3. RebuildsOK'
    BY <1>3, <2>1, <2>2 DEF DerivedInv, RebuildsOK
  <2> QED BY <1>1, <2>3, TablesKept
<1> QED BY <1>4, <1>5

\* A derived row that is lost leaves the front of its cache.
LEMMA LossKeepsDerived ==
  ASSUME LogInv, DerivedInv, NEW r \in Runs, LoseCache(r)
  PROVE  DerivedInv'
<1>1. UNCHANGED <<events, fts, coverage, rebuild>> /\ losses' = losses + 1 /\ losses < CacheLosses
  BY DEF LoseCache
<1>2. losses \in Nat /\ losses' # 0 /\ losses' <= CacheLosses
  BY <1>1, StoreAssumption DEF LogInv, LogTypeOK, StoreAssumption
<1>3. ASSUME NEW q \in Runs PROVE RunRows(q)' = RunRows(q) /\ Version(q)' = Version(q)
  <2>1. RunRows(q)' = RunRows(q)
    BY <1>1 DEF RunRows
  <2> QED BY <2>1 DEF Version
<1>4. PICK n \in 0..(Len(caches[r]) - 1) : caches' = [caches EXCEPT ![r] = SubSeq(@, 1, n)]
  BY DEF LoseCache
<1>5. ASSUME NEW q \in Runs PROVE \E cache : cache = caches'[q] /\ Follows(q, cache)'
  <2>1. PICK cache : cache = caches[q] /\ Follows(q, cache)
    BY DEF DerivedInv, CachesOK
  <2>2. CASE q # r
    <3>1. cache = caches'[q]
      BY <1>4, <2>1, <2>2 DEF DerivedInv, CachesOK
    <3>2. Follows(q, cache)'
      BY <1>2, <1>3, <2>1 DEF Follows
    <3> QED BY <3>1, <3>2
  <2>3. CASE q = r
    <3>1. PICK m \in Nat, v \in Nat : m = Len(cache) /\ v = Version(q) /\ m <= v
      BY <2>1, VersionNat, LenProperties DEF Follows
    <3>2. n \in 0..m /\ n \in Nat
      BY <1>4, <2>1, <2>3, <3>1
    <3>3. PICK less : less = SubSeq(cache, 1, n)
      OBVIOUS
    <3>4. less \in Seq(Decoded) /\ Len(less) = n /\ \A i \in 1..n : less[i] = cache[i]
      <4>1. cache \in Seq(Decoded)
        BY <2>1 DEF Follows
      <4> QED BY <3>1, <3>2, <3>3, <4>1, SubSeqProperties
    <3>5. less = caches'[q]
      BY <1>4, <2>1, <2>3, <3>3 DEF DerivedInv, CachesOK
    <3>6. ASSUME NEW i \in 1..n PROVE \E row \in RunRows(q) : row.seq = i /\ row.event.id = less[i].id
      <4>1. i \in 1..m
        BY <3>2
      <4> QED BY <2>1, <3>1, <3>4, <4>1 DEF Follows
    <3>7. Follows(q, less)'
      BY <1>2, <1>3, <3>1, <3>2, <3>4, <3>6 DEF Follows
    <3> QED BY <3>5, <3>7
  <2> QED BY <2>2, <2>3
<1>6. CachesOK'
  <2>1. caches' = [q \in Runs |-> caches'[q]]
    BY <1>4 DEF DerivedInv, CachesOK
  <2> QED BY <1>5, <2>1 DEF CachesOK
<1>7. RebuildsOK'
  BY <1>1 DEF DerivedInv, RebuildsOK
<1>8. \A c : Covered(c) => Covered(c)'
  BY <1>1 DEF Covered
<1>9. IndexOK'
  BY <1>1, <1>8 DEF DerivedInv, IndexOK
<1> QED BY <1>2, <1>6, <1>7, <1>9 DEF DerivedInv

\* A rebuild that starts, or that a restart ends, has captured nothing.
LEMMA IdleKeepsDerived ==
  ASSUME DerivedInv, NEW h \in Handles, NEW new, new.phase # "folded", rebuild' = [rebuild EXCEPT ![h] = new],
         UNCHANGED <<events, caches, fts, coverage, losses>>
  PROVE  DerivedInv'
<1>1. rebuild = [k \in Handles |-> rebuild[k]]
  BY DEF DerivedInv, RebuildsOK
<1>2. rebuild'[h] = new /\ rebuild' = [k \in Handles |-> rebuild'[k]] /\ \A k \in Handles : k # h => rebuild'[k] = rebuild[k]
  BY <1>1
<1>3. RebuildsOK'
  BY <1>2 DEF DerivedInv, RebuildsOK
<1> QED BY <1>3, TablesKept

\* Every step keeps the caches and the index in step with the log.
LEMMA StepKeepsDerived ==
  ASSUME LogInv, DerivedInv, [Next]_vars
  PROVE  DerivedInv'
<1>1. CASE UNCHANGED vars
  BY <1>1, DerivedKept DEF vars, dbVars, DerivedInv
<1>2. ASSUME NEW h \in Handles, NEW e \in Inputs, AppendEvent(h, e) PROVE DerivedInv'
  <2>1. CASE Fresh(e) /\ Insert(h, e)
    BY <1>2, <2>1, InsertKeepsDerived DEF AppendEvent
  <2>2. CASE UNCHANGED dbVars
    BY <1>2, <2>2, DerivedKept DEF AppendEvent, dbVars, DerivedInv
  <2> QED BY <1>2, <2>1, <2>2 DEF AppendEvent
<1>3. ASSUME NEW w \in Writers, NEW h \in Handles, NEW e \in Inputs, AppendExpected(w, h, e) PROVE DerivedInv'
  <2>1. CASE Fresh(e) /\ Insert(h, e)
    BY <1>3, <2>1, InsertKeepsDerived DEF AppendExpected
  <2>2. CASE UNCHANGED dbVars
    BY <1>3, <2>2, DerivedKept DEF AppendExpected, dbVars, DerivedInv
  <2> QED BY <1>3, <2>1, <2>2 DEF AppendExpected
<1>4. ASSUME NEW w \in Writers, NEW r \in Runs, ReadVersion(w, r) PROVE DerivedInv'
  BY <1>4, DerivedKept DEF ReadVersion, dbVars, DerivedInv
<1>5. ASSUME NEW h \in Handles, NEW e \in Edges, RegisterPersist(h, e) PROVE DerivedInv'
  BY <1>5, DerivedKept DEF RegisterPersist, DerivedInv
<1>6. ASSUME NEW h \in Handles, RegisterBind(h) PROVE DerivedInv'
  BY <1>6, DerivedKept DEF RegisterBind, dbVars, DerivedInv
<1>7. ASSUME NEW h \in Handles, RebuildStart(h) PROVE DerivedInv'
  <2>1. PICK new : new = [phase |-> "graph", graph |-> graph[h]]
    OBVIOUS
  <2>2. new.phase # "folded"
    BY <2>1
  <2>3. rebuild' = [rebuild EXCEPT ![h] = new] /\ UNCHANGED <<events, caches, fts, coverage, losses>>
    BY <1>7, <2>1 DEF RebuildStart, dbVars
  <2> QED BY <2>2, <2>3, IdleKeepsDerived
<1>8. ASSUME NEW h \in Handles, RebuildCapture(h) PROVE DerivedInv'
  BY <1>8, CaptureKeepsDerived
<1>9. ASSUME NEW h \in Handles, RebuildFinish(h) PROVE DerivedInv'
  BY <1>9, RebuildKeepsDerived
<1>10. ASSUME NEW c \in Cursors, NEW r \in Runs, CursorOpen(c, r) PROVE DerivedInv'
  BY <1>10, DerivedKept DEF CursorOpen, dbVars, DerivedInv
<1>11. ASSUME NEW c \in Cursors, CursorNext(c) PROVE DerivedInv'
  BY <1>11, DerivedKept DEF CursorNext, dbVars, DerivedInv
<1>12. ASSUME NEW h \in Handles, Restart(h) PROVE DerivedInv'
  <2>1. PICK new : new = Idle
    OBVIOUS
  <2>2. new.phase # "folded"
    BY <2>1 DEF Idle
  <2>3. rebuild' = [rebuild EXCEPT ![h] = new] /\ UNCHANGED <<events, caches, fts, coverage, losses>>
    BY <1>12, <2>1 DEF Restart, dbVars
  <2> QED BY <2>2, <2>3, IdleKeepsDerived
<1>13. ASSUME NEW r \in Runs, LoseCache(r) PROVE DerivedInv'
  BY <1>13, LossKeepsDerived
<1> QED BY <1>1, <1>2, <1>3, <1>4, <1>5, <1>6, <1>7, <1>8, <1>9, <1>10, <1>11, <1>12, <1>13, StoreAssumption
        DEF Next, StoreAssumption

\* A new store has empty runs, caches and index.
LEMMA InitDerived == Init => DerivedInv
<1> SUFFICES ASSUME Init PROVE DerivedInv
  OBVIOUS
<1>1. ASSUME NEW r \in Runs PROVE \E cache : cache = caches[r] /\ Follows(r, cache)
  <2>1. RunRows(r) = {}
    BY DEF Init, RunRows
  <2>2. Version(r) = 0
    BY <2>1 DEF Version
  <2>3. PICK cache : cache = << >>
    OBVIOUS
  <2>4. cache = caches[r]
    BY <2>3 DEF Init
  <2>5. cache \in Seq(Decoded) /\ Len(cache) = 0
    BY <2>3
  <2> QED BY <2>2, <2>4, <2>5 DEF Follows
<1>2. CachesOK
  BY <1>1 DEF Init, CachesOK
<1>3. Idle.phase # "folded"
  BY DEF Idle
<1>4. RebuildsOK
  BY <1>3 DEF Init, RebuildsOK
<1>5. IndexOK
  BY DEF Init, IndexOK
<1>6. losses <= CacheLosses
  BY StoreAssumption DEF Init, StoreAssumption
<1> QED BY <1>2, <1>4, <1>5, <1>6 DEF DerivedInv

\* Caches that are in step are the fold of the stream.
LEMMA CachesInStep == LogInv /\ DerivedInv => CachesFollowStream
<1> SUFFICES ASSUME LogInv, DerivedInv, NEW r \in Runs
             PROVE  /\ Len(caches[r]) <= Len(Stream(events, r))
                    /\ \A i \in DOMAIN caches[r] : caches[r][i].id = Stream(events, r)[i].event.id
                    /\ losses = 0 => Len(caches[r]) = Len(Stream(events, r))
  BY DEF CachesFollowStream
<1>1. PICK cache : cache = caches[r] /\ Follows(r, cache)
  BY DEF DerivedInv, CachesOK
<1>2. PICK n \in Nat : n = Version(r) /\ Numbered(r, n)
  BY VersionNat
<1>3. PICK all, s : all = events /\ s = Stream(all, r)
  OBVIOUS
<1>4. Mine(all, r) = RunRows(r)
  BY <1>3 DEF Mine, RunRows
<1>5. Stretch(Mine(all, r), 0, n)
  BY <1>2, <1>4 DEF Stretch, Numbered
<1>6. s \in [1..n -> RunRows(r)] /\ \A i \in 1..n : s[i].seq = i
  <2>1. 0 \in Nat /\ \A i \in 1..n : 0 + i = i
    OBVIOUS
  <2>2. Stream(all, r) \in [1..n -> Mine(all, r)] /\ \A i \in 1..n : Stream(all, r)[i].seq = 0 + i
    BY <1>5, <2>1, StreamOfStretch
  <2> QED BY <1>3, <1>4, <2>1, <2>2
<1>7. Len(s) = n
  <2>1. s \in Seq(RunRows(r))
    BY <1>6, SeqDef
  <2> QED BY <1>6, <2>1, LenProperties
<1>8. Len(cache) \in Nat /\ DOMAIN cache = 1..Len(cache) /\ Len(cache) <= n
  BY <1>1, <1>2, LenProperties DEF Follows
<1>9. ASSUME NEW i \in 1..Len(cache) PROVE cache[i].id = s[i].event.id
  <2>1. PICK row \in RunRows(r) : row.seq = i /\ row.event.id = cache[i].id
    BY <1>1 DEF Follows
  <2>2. i \in 1..n
    BY <1>8
  <2>3. s[i] \in RunRows(r) /\ s[i].seq = i
    BY <1>6, <2>2
  <2>4. s[i] = row
    BY <1>2, <2>1, <2>3 DEF Numbered
  <2> QED BY <2>1, <2>4
<1>10. losses = 0 => Len(cache) = n
  BY <1>1, <1>2 DEF Follows
<1> QED BY <1>1, <1>3, <1>7, <1>8, <1>9, <1>10

\* An index that the coverage row lets a handle search is the handle's own.
LEMMA IndexInStep == LogInv /\ DerivedInv => SearchSound
<1> SUFFICES ASSUME LogInv, DerivedInv, NEW h \in FtsHandles, FtsCurrent(h)
             PROVE  /\ \A row \in events : Decode(row, graph[h], Schema[h]) # {}
                    /\ fts = FoldIndex(events, graph[h], h)
  BY DEF SearchSound
<1>1. h \in Handles
  BY StoreAssumption DEF StoreAssumption
<1>2. CASE coverage = {Coverage(events, h)}
  <2>1. PICK c : coverage = {c} /\ Covered(c)
    BY <1>2 DEF DerivedInv, IndexOK
  <2>2. c = [events |-> events, schema |-> Schema[h], graph |-> graph[h]]
    BY <1>2, <2>1 DEF Coverage
  <2>3. c.events = events /\ c.schema = Schema[h] /\ c.graph = graph[h]
    BY <2>2
  <2> QED BY <1>1, <2>1, <2>3 DEF Covered, AllDecode
<1>3. CASE coverage = {} /\ events = {}
  <2>1. fts = {}
    BY <1>3 DEF DerivedInv, IndexOK
  <2> QED BY <1>3, <2>1 DEF FoldIndex, Searchable
<1> QED BY <1>2, <1>3 DEF FtsCurrent

\* What is kept beside the log follows it: however handles with different
\* schemas, upcasters and index settings append, rebuild, restart and lose
\* cache rows, a cache is the fold of the front of its run's stream (of all of
\* it unless rows were lost), and an index that may be searched holds the text
\* of every event as the searching handle decodes it.
THEOREM DerivedStateFollowsLog == Spec => []DerivedFollowsLog
<1>1. Init => DerivedInv
  BY InitDerived
<1>2. LogInv /\ DerivedInv /\ [Next]_vars => DerivedInv'
  BY StepKeepsDerived
<1>3. LogInv /\ DerivedInv => DerivedFollowsLog
  <2> SUFFICES ASSUME LogInv, DerivedInv PROVE DerivedFollowsLog
    OBVIOUS
  <2>1. caches \in [Runs -> Seq(Decoded)]
    <3>1. \A r \in Runs : caches[r] \in Seq(Decoded)
      BY DEF DerivedInv, CachesOK, Follows
    <3> QED BY <3>1 DEF DerivedInv, CachesOK
  <2>2. TypeOK
    BY <2>1 DEF TypeOK, LogInv, DerivedInv, IndexOK
  <2> QED BY <2>2, CachesInStep, IndexInStep DEF DerivedFollowsLog
<1> QED BY <1>1, <1>2, <1>3, LogInvariant, PTL DEF Spec
=============================================================================
