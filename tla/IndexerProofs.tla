---------------------------- MODULE IndexerProofs ----------------------------
(***************************************************************************)
(* The indexer keeps its tables sound, loses no file, no note and no       *)
(* access history, for every vault, every set of contents and any number   *)
(* of concurrent IndexFile calls.                                          *)
(*                                                                         *)
(* The tables alone are not inductive: what the batch transaction holds    *)
(* becomes the database, so it must be sound too, and a pass builds note   *)
(* records from the times its walk recorded, so those must be there        *)
(* (IInv).  Nor is the account a pass gives of its walk: TInv says what a  *)
(* pass nobody disturbs knows of each file at each point of its loops.     *)
(***************************************************************************)
EXTENDS Indexer, TLAPS

-----------------------------------------------------------------------------
(* What each write of the note store keeps, for every database *)

LEMMA KeyIsKey ==
    ASSUME NEW p \in Paths, NEW c \in Contents
    PROVE  NoteKey(p, c) \in Keys /\ NoteKey(p, c) # NULL
  BY NoteStoreAssumption DEF NoteKey, Keys

LEMMA RecordBuilt ==
    ASSUME NEW p \in Paths, NEW c \in Contents, NEW t \in Nat
    PROVE  buildNoteRecord(p, c, t) \in NoteRecords
  BY KeyIsKey DEF buildNoteRecord, NoteRecords, NoteRows

LEMMA EmptySound == EmptyDatabase \in Databases /\ Sound(EmptyDatabase)
  BY DEF EmptyDatabase, Databases, Sound, UniqueRows, RowsKeyed, FtsSound, LinksSound, AccessesSound

\* A database in which the rows of the ids in Gone made way for rec, and their
\* dependents with them; the accesses of those ids are now rec's.
Replaced(d, Gone, rec) ==
    [notes |-> {r \in d.notes : r.id \notin Gone} \cup {rec},
     fts   |-> {f \in d.fts : f.id \notin Gone},
     links |-> {l \in d.links : l.src \notin Gone},
     acc   |-> {[a EXCEPT !.id = IF @ \in Gone THEN rec.id ELSE @] : a \in d.acc}]

LEMMA ReplacedSound ==
    ASSUME NEW d \in Databases, Sound(d), NEW rec \in NoteRecords,
           NEW Gone \in SUBSET Keys, rec.id \in Gone,
           \A r \in d.notes : r.path = rec.path => r.id \in Gone
    PROVE  Replaced(d, Gone, rec) \in Databases /\ Sound(Replaced(d, Gone, rec))
  <1> DEFINE e == Replaced(d, Gone, rec)
  <1>1. e.notes = {r \in d.notes : r.id \notin Gone} \cup {rec}
    BY DEF Replaced
  <1>2. e.fts = {f \in d.fts : f.id \notin Gone} /\ e.links = {l \in d.links : l.src \notin Gone}
    BY DEF Replaced
  <1>3. e.acc = {[a EXCEPT !.id = IF @ \in Gone THEN rec.id ELSE @] : a \in d.acc}
    BY DEF Replaced
  <1>4. d.notes \subseteq NoteRows /\ d.fts \subseteq FtsRows /\ d.links \subseteq LinkRows
        /\ d.acc \subseteq AccRows /\ rec \in NoteRows
    BY DEF Databases, NoteRecords
  <1>5. \A a \in e.acc : a \in AccRows /\ (a.id = rec.id \/ (a \in d.acc /\ a.id \notin Gone))
    BY <1>3, <1>4 DEF AccRows, NoteRows
  <1>6. e \in Databases
    BY <1>1, <1>2, <1>4, <1>5 DEF Replaced, Databases
  <1>7. UniqueRows(e) /\ RowsKeyed(e)
    BY <1>1, <1>4 DEF Sound, UniqueRows, RowsKeyed, NoteRecords, NoteRows
  <1>8. FtsSound(e)
    BY <1>1, <1>2 DEF Sound, FtsSound
  <1>9. LinksSound(e)
    BY <1>1, <1>2 DEF Sound, LinksSound
  <1>10. AccessesSound(e)
    BY <1>1, <1>5 DEF Sound, AccessesSound
  <1> QED BY <1>6, <1>7, <1>8, <1>9, <1>10 DEF Sound

LEMMA InsertedSound ==
    ASSUME NEW d \in Databases, Sound(d), NEW rec \in NoteRecords, rec \in d.notes
    PROVE  insertDependents(d, rec) \in Databases /\ Sound(insertDependents(d, rec))
  <1> DEFINE e == insertDependents(d, rec)
             new == {[src |-> rec.id, raw |-> w, dst |-> NULL, resolved |-> FALSE]
                       : w \in LinksOf[rec.body]}
  <1>1. rec \in NoteRows /\ LinksOf[rec.body] \subseteq Raws
    BY NoteStoreAssumption DEF NoteRecords, NoteRows
  <1>2. e = [notes |-> d.notes, fts |-> d.fts \cup {[id |-> rec.id, body |-> rec.body]},
             links |-> d.links \cup new, acc |-> d.acc]
    BY DEF insertDependents, Databases
  <1>3. new \subseteq LinkRows /\ [id |-> rec.id, body |-> rec.body] \in FtsRows
    <2>1. \A w \in Raws : [src |-> rec.id, raw |-> w, dst |-> NULL, resolved |-> FALSE] \in LinkRows
      BY <1>1 DEF LinkRows, NoteRows
    <2>2. [id |-> rec.id, body |-> rec.body] \in FtsRows
      BY <1>1 DEF FtsRows, NoteRows
    <2> QED BY <1>1, <2>1, <2>2
  <1>4. e \in Databases
    BY <1>2, <1>3 DEF Databases
  <1>5. \A l \in new : l.src = rec.id /\ l.raw \in LinksOf[rec.body]
    OBVIOUS
  <1>6. Sound(e)
    BY <1>2, <1>5 DEF Sound, UniqueRows, RowsKeyed, FtsSound, LinksSound, AccessesSound
  <1> QED BY <1>4, <1>6

\* The rows a store may take the place of: the one keyed by its id, and the one
\* at its path.
LEMMA MigrateSound ==
    ASSUME NEW d \in Databases, Sound(d), NEW rec \in NoteRecords,
           NEW old \in Keys, \E r \in d.notes : r.id = rec.id
    PROVE  LET e == rekeyAccesses(evictOldIDDependents(d, old), old, rec.id)
           IN  e \in Databases /\ Sound(e)
  <1> DEFINE e == rekeyAccesses(evictOldIDDependents(d, old), old, rec.id)
  <1>1. /\ e.notes = d.notes
        /\ e.fts = {f \in d.fts : f.id # old}
        /\ e.links = {l \in d.links : l.src # old}
        /\ e.acc = {[a EXCEPT !.id = IF @ = old THEN rec.id ELSE @] : a \in d.acc}
        /\ e = [notes |-> e.notes, fts |-> e.fts, links |-> e.links, acc |-> e.acc]
    BY DEF rekeyAccesses, evictOldIDDependents
  <1>2. d.notes \subseteq NoteRows /\ d.fts \subseteq FtsRows /\ d.links \subseteq LinkRows
        /\ d.acc \subseteq AccRows /\ rec \in NoteRows
    BY DEF Databases, NoteRecords
  <1>3. \A a \in e.acc : a \in AccRows /\ (a.id = rec.id \/ a \in d.acc)
    BY <1>1, <1>2 DEF AccRows, NoteRows
  <1> HIDE DEF e
  <1>4. e \in Databases
    BY <1>1, <1>2, <1>3 DEF Databases
  <1>5. Sound(e)
    BY <1>1, <1>3 DEF Sound, UniqueRows, RowsKeyed, FtsSound, LinksSound, AccessesSound
  <1> QED BY <1>4, <1>5 DEF e

\* A store under a free id takes the place of the row at its path; a store under
\* an id that has a row takes the place of that one.
LEMMA WrittenIsReplaced ==
    ASSUME NEW d \in Databases, Sound(d), NEW rec \in NoteRecords, NEW old \in Keys,
           \A r \in d.notes : r.id # rec.id
    PROVE  upsertNote(evictOldIDDependents(rekeyNote(rekeyAccesses(
             evictOldIDDependents(d, old), old, rec.id), old, rec.id), rec.id), rec)
           = Replaced(d, {old, rec.id}, rec)
  <1> DEFINE e == rekeyNote(rekeyAccesses(evictOldIDDependents(d, old), old, rec.id), old, rec.id)
             w == upsertNote(evictOldIDDependents(e, rec.id), rec)
             Gone == {old, rec.id}
  <1>1. d.notes \subseteq NoteRows /\ d.acc \subseteq AccRows /\ rec \in NoteRows
    BY DEF Databases, NoteRecords
  <1>2. /\ e.notes = {[r EXCEPT !.id = IF @ = old THEN rec.id ELSE @] : r \in d.notes}
        /\ e.fts = {f \in d.fts : f.id # old}
        /\ e.links = {l \in d.links : l.src # old}
        /\ e.acc = {[a EXCEPT !.id = IF @ = old THEN rec.id ELSE @] : a \in d.acc}
    BY DEF rekeyNote, rekeyAccesses, evictOldIDDependents
  <1>3. w = [notes |-> {r \in e.notes : r.id # rec.id} \cup {rec},
             fts |-> {f \in e.fts : f.id # rec.id},
             links |-> {l \in e.links : l.src # rec.id}, acc |-> e.acc]
    BY DEF upsertNote, evictOldIDDependents
  <1> HIDE DEF e
  <1>4. {r \in e.notes : r.id # rec.id} = {r \in d.notes : r.id \notin Gone}
    BY <1>1, <1>2 DEF NoteRows
  <1>5. \A a \in d.acc : a.id # rec.id
    BY DEF Sound, AccessesSound
  <1>6. e.acc = {[a EXCEPT !.id = IF @ \in Gone THEN rec.id ELSE @] : a \in d.acc}
    BY <1>2, <1>5
  <1>7. {f \in e.fts : f.id # rec.id} = {f \in d.fts : f.id \notin Gone}
        /\ {l \in e.links : l.src # rec.id} = {l \in d.links : l.src \notin Gone}
    BY <1>2
  <1> QED BY <1>3, <1>4, <1>6, <1>7 DEF Replaced, e

LEMMA UpsertIsReplaced ==
    ASSUME NEW d \in Databases, NEW rec \in NoteRecords
    PROVE  upsertNote(evictOldIDDependents(d, rec.id), rec) = Replaced(d, {rec.id}, rec)
  <1>1. d.acc \subseteq AccRows
    BY DEF Databases
  <1>2. {[a EXCEPT !.id = IF @ \in {rec.id} THEN rec.id ELSE @] : a \in d.acc} = d.acc
    BY <1>1 DEF AccRows
  <1> QED BY <1>2 DEF upsertNote, evictOldIDDependents, Replaced

\* Either way the transaction has replaced the row at the record's path.
LEMMA WrittenShape ==
    ASSUME NEW d \in Databases, Sound(d), NEW rec \in NoteRecords,
           migrateNoteID(d, rec.path, rec.id).ok
    PROVE  \E Gone \in SUBSET Keys :
             /\ rec.id \in Gone
             /\ \A r \in d.notes : r.path = rec.path => r.id \in Gone
             /\ \A r \in d.notes : r.id \in Gone => r.id = rec.id \/ r.path = rec.path
             /\ upsertNote(evictOldIDDependents(migrateNoteID(d, rec.path, rec.id).db, rec.id), rec)
                = Replaced(d, Gone, rec)
  <1> DEFINE S == Rekeyed(d, rec.path, rec.id)
             old == (CHOOSE r \in S : TRUE).id
             m == migrateNoteID(d, rec.path, rec.id)
             written == upsertNote(evictOldIDDependents(m.db, rec.id), rec)
  <1>1. rec.id \in Keys
    BY DEF NoteRecords, NoteRows
  <1>2. CASE S = {}
    <2>1. m = [ok |-> TRUE, db |-> d]
      BY <1>2 DEF migrateNoteID
    <2>2. written = Replaced(d, {rec.id}, rec)
      BY <2>1, UpsertIsReplaced
    <2>3. \A r \in d.notes : r.path = rec.path => r.id \in {rec.id}
      BY <1>2 DEF Rekeyed
    <2> QED BY <1>1, <2>2, <2>3
  <1>3. CASE S # {}
    <2>1. old \in Keys /\ \E r \in d.notes : r.path = rec.path /\ r.id = old
      BY <1>3 DEF Rekeyed, Databases, NoteRows
    <2>2. \A r \in d.notes : r.id # rec.id
      BY <1>3 DEF migrateNoteID
    <2>3. m = [ok |-> TRUE,
               db |-> rekeyNote(rekeyAccesses(evictOldIDDependents(d, old), old, rec.id), old, rec.id)]
      BY <1>3, <2>2 DEF migrateNoteID
    <2>4. written = Replaced(d, {old, rec.id}, rec)
      BY <2>1, <2>2, <2>3, WrittenIsReplaced
    <2> DEFINE Gone == {old, rec.id}
    <2>5. Gone \in SUBSET Keys /\ rec.id \in Gone
      BY <1>1, <2>1
    <2>6. \A r \in d.notes : r.path = rec.path => r.id \in Gone
      BY <2>1 DEF Sound, UniqueRows
    <2>7. \A r \in d.notes : r.id \in Gone => r.id = rec.id \/ r.path = rec.path
      BY <2>1 DEF Sound, UniqueRows
    <2>8. written = Replaced(d, Gone, rec)
      BY <2>4
    <2> HIDE DEF Gone
    <2> QED BY <2>5, <2>6, <2>7, <2>8
  <1> QED BY <1>2, <1>3

LEMMA StoreSound ==
    ASSUME NEW d \in Databases, Sound(d), NEW rec \in NoteRecords
    PROVE  /\ StoreNoteInTx(d, rec).db \in Databases
           /\ Sound(StoreNoteInTx(d, rec).db)
  <1> DEFINE S == Rekeyed(d, rec.path, rec.id)
             old == (CHOOSE r \in S : TRUE).id
             m == migrateNoteID(d, rec.path, rec.id)
             written == upsertNote(evictOldIDDependents(m.db, rec.id), rec)
  <1>1. CASE ~ m.ok
    <2>1. S # {} /\ \E r \in d.notes : r.id = rec.id
      BY <1>1 DEF migrateNoteID
    <2>2. StoreNoteInTx(d, rec).db = rekeyAccesses(evictOldIDDependents(d, old), old, rec.id)
      BY <1>1, <2>1 DEF StoreNoteInTx, migrateNoteID
    <2>3. old \in Keys
      BY <2>1 DEF Rekeyed, Databases, NoteRows
    <2> QED BY <2>1, <2>2, <2>3, MigrateSound
  <1>2. CASE m.ok
    <2>1. PICK Gone \in SUBSET Keys :
             /\ rec.id \in Gone
             /\ \A r \in d.notes : r.path = rec.path => r.id \in Gone
             /\ written = Replaced(d, Gone, rec)
      BY <1>2, WrittenShape
    <2>2. written \in Databases /\ Sound(written) /\ rec \in written.notes
      BY <2>1, ReplacedSound DEF Replaced
    <2>3. insertDependents(written, rec) \in Databases /\ Sound(insertDependents(written, rec))
      BY <2>2, InsertedSound
    <2>4. StoreNoteInTx(d, rec).db \in {written, insertDependents(written, rec)}
      BY <1>2 DEF StoreNoteInTx
    <2> QED BY <2>2, <2>3, <2>4
  <1> QED BY <1>1, <1>2

\* What a store makes of the rows of notes when it does not fail on the way.
WithRow(rows, rec) == {r \in rows : r.id # rec.id /\ r.path # rec.path} \cup {rec}

EventsKept(c, d) == \A a \in c.acc : \E b \in d.acc : b.n = a.n

\* The rows a store removes have its record's id or are at its path, and it
\* loses no access event, even where it fails.
LEMMA StoreShape ==
    ASSUME NEW d \in Databases, Sound(d), NEW rec \in NoteRecords
    PROVE  LET s == StoreNoteInTx(d, rec)
           IN  /\ s.db.notes = d.notes \/ s.db.notes = WithRow(d.notes, rec)
               /\ s.ok => s.db.notes = WithRow(d.notes, rec)
               /\ EventsKept(d, s.db)
  <1> DEFINE S == Rekeyed(d, rec.path, rec.id)
             old == (CHOOSE r \in S : TRUE).id
             m == migrateNoteID(d, rec.path, rec.id)
             written == upsertNote(evictOldIDDependents(m.db, rec.id), rec)
  <1>1. CASE ~ m.ok
    <2>1. StoreNoteInTx(d, rec) = m
      BY <1>1 DEF StoreNoteInTx
    <2>2. m.db = rekeyAccesses(evictOldIDDependents(d, old), old, rec.id)
      BY <1>1 DEF migrateNoteID
    <2>3. m.db.notes = d.notes /\ m.db.acc = {[a EXCEPT !.id = IF @ = old THEN rec.id ELSE @] : a \in d.acc}
      BY <2>2 DEF rekeyAccesses, evictOldIDDependents
    <2> HIDE DEF old, m
    <2>4. d.acc \subseteq AccRows
      BY DEF Databases
    <2>5. EventsKept(d, m.db)
      <3>1. ASSUME NEW a \in d.acc PROVE \E b \in m.db.acc : b.n = a.n
        <4> DEFINE b == [a EXCEPT !.id = IF @ = old THEN rec.id ELSE @]
        <4>1. b \in m.db.acc
          BY <2>3
        <4>2. b.n = a.n
          BY <2>4 DEF AccRows
        <4> QED BY <4>1, <4>2
      <3> QED BY <3>1 DEF EventsKept
    <2> QED BY <1>1, <2>1, <2>3, <2>5
  <1>2. CASE m.ok
    <2>1. PICK Gone \in SUBSET Keys :
             /\ rec.id \in Gone
             /\ \A r \in d.notes : r.path = rec.path => r.id \in Gone
             /\ \A r \in d.notes : r.id \in Gone => r.id = rec.id \/ r.path = rec.path
             /\ written = Replaced(d, Gone, rec)
      BY <1>2, WrittenShape
    <2>2. \/ StoreNoteInTx(d, rec) = [ok |-> FALSE, db |-> written]
          \/ StoreNoteInTx(d, rec) = [ok |-> TRUE, db |-> insertDependents(written, rec)]
      BY <1>2 DEF StoreNoteInTx
    <2> HIDE DEF written, m
    <2>3. insertDependents(written, rec).notes = written.notes /\ insertDependents(written, rec).acc = written.acc
      BY DEF insertDependents
    <2>4. /\ written.notes = {r \in d.notes : r.id \notin Gone} \cup {rec}
          /\ written.acc = {[a EXCEPT !.id = IF @ \in Gone THEN rec.id ELSE @] : a \in d.acc}
      BY <2>1 DEF Replaced
    <2>5. written.notes = WithRow(d.notes, rec)
      BY <2>1, <2>4 DEF WithRow
    <2>6. d.acc \subseteq AccRows
      BY DEF Databases
    <2>7. EventsKept(d, written)
      <3>1. ASSUME NEW a \in d.acc PROVE \E b \in written.acc : b.n = a.n
        <4> DEFINE b == [a EXCEPT !.id = IF @ \in Gone THEN rec.id ELSE @]
        <4>1. b \in written.acc
          BY <2>4
        <4>2. b.n = a.n
          BY <2>6 DEF AccRows
        <4> QED BY <4>1, <4>2
      <3> QED BY <3>1 DEF EventsKept
    <2> QED BY <2>2, <2>3, <2>5, <2>7 DEF EventsKept
  <1> QED BY <1>1, <1>2

\* A note stored in a transaction of its own.
LEMMA StoreNoteShape ==
    ASSUME NEW d \in Databases, Sound(d), NEW rec \in NoteRecords
    PROVE  /\ StoreNote(d, rec).notes = IF StoreFails(d, rec) THEN d.notes ELSE WithRow(d.notes, rec)
           /\ EventsKept(d, StoreNote(d, rec))
  BY StoreShape DEF StoreNote, StoreFails, EventsKept

\* Full text of every note, save those with an id in H.
Complete(d, H) == \A r \in d.notes : r.id \in H \/ Searchable(d, r)

\* A store that succeeds leaves every note with the full text it had, and the
\* note it stored with its own.
LEMMA StoreComplete ==
    ASSUME NEW d \in Databases, Sound(d), NEW H, Complete(d, H), NEW rec \in NoteRecords
    PROVE  Complete(StoreNote(d, rec), H)
  <1> DEFINE m == migrateNoteID(d, rec.path, rec.id)
             written == upsertNote(evictOldIDDependents(m.db, rec.id), rec)
  <1>1. CASE ~ StoreNoteInTx(d, rec).ok
    BY <1>1 DEF StoreNote
  <1>2. CASE StoreNoteInTx(d, rec).ok
    <2>1. m.ok /\ StoreNote(d, rec) = insertDependents(written, rec)
      BY <1>2 DEF StoreNote, StoreNoteInTx
    <2>2. PICK Gone \in SUBSET Keys : rec.id \in Gone /\ written = Replaced(d, Gone, rec)
      BY <2>1, WrittenShape
    <2>3. /\ written.notes = {r \in d.notes : r.id \notin Gone} \cup {rec}
          /\ written.fts = {f \in d.fts : f.id \notin Gone}
      BY <2>2 DEF Replaced
    <2>4. /\ StoreNote(d, rec).notes = written.notes
          /\ StoreNote(d, rec).fts = written.fts \cup {[id |-> rec.id, body |-> rec.body]}
      BY <2>1 DEF insertDependents
    <2>5. \A r \in StoreNote(d, rec).notes : r = rec \/ (r \in d.notes /\ r.id \notin Gone)
      BY <2>3, <2>4
    <2>6. \A f \in d.fts : f.id \notin Gone => f \in StoreNote(d, rec).fts
      BY <2>3, <2>4
    <2> QED BY <2>4, <2>5, <2>6 DEF Complete, Searchable
  <1> QED BY <1>1, <1>2

LEMMA StoreNoteSound ==
    ASSUME NEW d \in Databases, Sound(d), NEW rec \in NoteRecords
    PROVE  StoreNote(d, rec) \in Databases /\ Sound(StoreNote(d, rec))
  BY StoreSound DEF StoreNote

LEMMA DeleteSound ==
    ASSUME NEW d \in Databases, Sound(d), NEW p \in Paths
    PROVE  DeleteNoteByPath(d, p) \in Databases /\ Sound(DeleteNoteByPath(d, p))
  <1> DEFINE ids == {r.id : r \in {s \in d.notes : s.path = p}}
             e == DeleteNoteByPath(d, p)
  <1>1. e = [notes |-> {r \in d.notes : r.path # p},
             fts   |-> {f \in d.fts : f.id \notin ids},
             links |-> {l \in d.links : l.src \notin ids /\ l.dst \notin ids},
             acc   |-> {a \in d.acc : a.id \notin ids}]
    BY DEF DeleteNoteByPath
  <1>2. \A r \in d.notes : r.id \notin ids => r.path # p
    OBVIOUS
  <1>3. e \in Databases
    BY <1>1 DEF Databases
  <1>4. Sound(e)
    BY <1>1, <1>2 DEF Sound, UniqueRows, RowsKeyed, FtsSound, LinksSound, AccessesSound
  <1> QED BY <1>3, <1>4

LEMMA UpdateMTimeSound ==
    ASSUME NEW d \in Databases, Sound(d), NEW p \in Paths, NEW t \in Nat
    PROVE  UpdateMTime(d, p, t) \in Databases /\ Sound(UpdateMTime(d, p, t))
  <1> DEFINE e == UpdateMTime(d, p, t)
             stamped(r) == [r EXCEPT !.mtime = IF r.path = p THEN t ELSE @]
  <1>1. /\ e.notes = {stamped(r) : r \in d.notes} /\ e.fts = d.fts /\ e.links = d.links
        /\ e.acc = d.acc
        /\ e = [notes |-> e.notes, fts |-> e.fts, links |-> e.links, acc |-> e.acc]
    BY DEF UpdateMTime
  <1>2. d.notes \subseteq NoteRows /\ d \in Databases
    BY DEF Databases
  <1>3. \A r \in d.notes : /\ stamped(r) \in NoteRows
                           /\ stamped(r).id = r.id /\ stamped(r).path = r.path /\ stamped(r).body = r.body
    BY <1>2 DEF NoteRows
  <1> HIDE DEF e, stamped
  <1>4. e \in Databases
    BY <1>1, <1>3 DEF Databases
  <1>5. UniqueRows(e) /\ RowsKeyed(e)
    BY <1>1, <1>3 DEF Sound, UniqueRows, RowsKeyed
  <1>6. FtsSound(e) /\ LinksSound(e) /\ AccessesSound(e)
    BY <1>1, <1>3 DEF Sound, FtsSound, LinksSound, AccessesSound
  <1> QED BY <1>4, <1>5, <1>6 DEF Sound, e

LEMMA AccessSound ==
    ASSUME NEW d \in Databases, Sound(d), NEW n \in Accesses, NEW id \in Keys,
           \E r \in d.notes : r.id = id
    PROVE  recordAccess(d, n, id) \in Databases /\ Sound(recordAccess(d, n, id))
  <1> DEFINE e == recordAccess(d, n, id)
  <1>1. e = [notes |-> d.notes, fts |-> d.fts, links |-> d.links,
             acc |-> d.acc \cup {[n |-> n, id |-> id]}]
    BY DEF recordAccess
  <1>2. [n |-> n, id |-> id] \in AccRows
    BY DEF AccRows
  <1>3. e \in Databases
    BY <1>1, <1>2 DEF Databases
  <1>4. Sound(e)
    BY <1>1 DEF Sound, UniqueRows, RowsKeyed, FtsSound, LinksSound, AccessesSound
  <1> QED BY <1>3, <1>4

LEMMA ResolveSound ==
    ASSUME NEW d \in Databases, Sound(d)
    PROVE  ResolveLinks(d) \in Databases /\ Sound(ResolveLinks(d))
  <1> DEFINE e == ResolveLinks(d)
  <1>1. e = [notes |-> d.notes, fts |-> d.fts,
             links |-> {ResolvedLink(d, l) : l \in d.links}, acc |-> d.acc]
    BY DEF ResolveLinks
  <1>2. \A w : ByText(d, w) \subseteq d.notes
    BY DEF ByText
  <1>3. \A l \in d.links : /\ ResolvedLink(d, l) \in LinkRows
                           /\ ResolvedLink(d, l).src = l.src /\ ResolvedLink(d, l).raw = l.raw
    <2> TAKE l \in d.links
    <2>1. l \in LinkRows
      BY DEF Databases
    <2>2. ByText(d, l.raw) # {} => (CHOOSE r \in ByText(d, l.raw) : TRUE).id \in Keys
      BY <1>2 DEF Databases, NoteRows
    <2> QED BY <2>1, <2>2 DEF ResolvedLink, LinkRows
  <1>4. e \in Databases
    BY <1>1, <1>3 DEF Databases
  <1>5. Sound(e)
    BY <1>1, <1>3 DEF Sound, UniqueRows, RowsKeyed, FtsSound, LinksSound, AccessesSound
  <1> QED BY <1>4, <1>5

\* The time alone is written: every row stays, with its id, path and content.
LEMMA UpdateMTimeShape ==
    ASSUME NEW d \in Databases, NEW p \in Paths, NEW t \in Nat
    PROVE  LET e == UpdateMTime(d, p, t)
           IN  /\ \A r \in e.notes : \E s \in d.notes : s.id = r.id /\ s.path = r.path /\ s.body = r.body
               /\ \A s \in d.notes : \E r \in e.notes : s.id = r.id /\ s.path = r.path /\ s.body = r.body
               /\ \A s \in d.notes : s.path # p => s \in e.notes
               /\ e.acc = d.acc
  <1> DEFINE e == UpdateMTime(d, p, t)
             stamped(r) == [r EXCEPT !.mtime = IF r.path = p THEN t ELSE @]
  <1>1. e.notes = {stamped(r) : r \in d.notes} /\ e.acc = d.acc
    BY DEF UpdateMTime
  <1>2. \A r \in d.notes : /\ stamped(r).id = r.id /\ stamped(r).path = r.path /\ stamped(r).body = r.body
                           /\ r.path # p => stamped(r) = r
    BY DEF Databases, NoteRows
  <1> HIDE DEF e, stamped
  <1> QED BY <1>1, <1>2 DEF e

LEMMA OtherWritesComplete ==
    ASSUME NEW d \in Databases, Sound(d), NEW H, Complete(d, H)
    PROVE  /\ \A p \in Paths : Complete(DeleteNoteByPath(d, p), H)
           /\ \A p \in Paths, t \in Nat : Complete(UpdateMTime(d, p, t), H)
           /\ \A n \in Accesses, id \in Keys : Complete(recordAccess(d, n, id), H)
           /\ Complete(ResolveLinks(d), H)
  <1>1. ASSUME NEW p \in Paths PROVE Complete(DeleteNoteByPath(d, p), H)
    BY DEF DeleteNoteByPath, Complete, Searchable, Sound, UniqueRows
  <1>2. ASSUME NEW p \in Paths, NEW t \in Nat PROVE Complete(UpdateMTime(d, p, t), H)
    <2>1. /\ \A r \in UpdateMTime(d, p, t).notes : \E s \in d.notes : s.id = r.id /\ s.body = r.body
          /\ UpdateMTime(d, p, t).fts = d.fts
      BY UpdateMTimeShape DEF UpdateMTime
    <2> QED BY <2>1 DEF Complete, Searchable
  <1>3. ASSUME NEW n \in Accesses, NEW id \in Keys PROVE Complete(recordAccess(d, n, id), H)
    BY DEF recordAccess, Complete, Searchable
  <1>4. Complete(ResolveLinks(d), H)
    BY DEF ResolveLinks, Complete, Searchable
  <1> QED BY <1>1, <1>2, <1>3, <1>4

-----------------------------------------------------------------------------
(* The indexer *)

BatchOpen == tx # NoTx <=> mode = "rebuild" /\ pc = "store"

BatchSound == tx # NoTx => Sound(tx)

WalkKnown == pc = "files" \/ (mode = "incremental" /\ pc = "store") =>
                \A p \in todo : scan[p] \in Nat

IInv == TypeOK /\ Sound(db) /\ BatchOpen /\ BatchSound /\ WalkKnown

\* A step that leaves the pass and its transaction alone.
LEMMA Frame ==
    ASSUME IInv, UNCHANGED passVars, tx' = tx, UserTypeOK', CallTypeOK',
           db' \in Databases, Sound(db'), calm' \subseteq Paths
    PROVE  IInv'
  <1>1. PassTypeOK'
    BY DEF IInv, TypeOK, PassTypeOK, passVars
  <1> QED BY <1>1 DEF IInv, TypeOK, BatchOpen, BatchSound, WalkKnown, passVars

LEMMA InitInv == Init => IInv
  <1> SUFFICES ASSUME Init PROVE IInv
    OBVIOUS
  <1>1. db \in Databases /\ Sound(db)
    BY EmptySound DEF Init
  <1>2. UserTypeOK /\ PassTypeOK /\ CallTypeOK
    BY IndexerAssumption DEF Init, UserTypeOK, PassTypeOK, CallTypeOK, NoReport
  <1>3. TypeOK /\ BatchOpen /\ BatchSound /\ WalkKnown
    BY <1>1, <1>2 DEF Init, TypeOK, BatchOpen, BatchSound, WalkKnown
  <1> QED BY <1>1, <1>3 DEF IInv

-----------------------------------------------------------------------------
(* The user and the readers *)

LEMMA EditedInv ==
    ASSUME IInv, NEW touched, Edited(touched), UserTypeOK'
    PROVE  IInv'
  <1>1. CallTypeOK'
    BY DEF IInv, TypeOK, CallTypeOK, Edited
  <1> QED BY <1>1, Frame DEF IInv, TypeOK, Edited

LEMMA UserInv ==
    ASSUME IInv, User PROVE IInv'
  <1> USE DEF UserTypeOK
  <1>1. UserTypeOK
    BY DEF IInv, TypeOK
  <1>2. ASSUME NEW p \in Paths, NEW c \in Contents, NEW t \in 0..MaxClock, Edit(p, c, t)
        PROVE  IInv'
    <2>1. t \in Nat
      BY IndexerAssumption
    <2>2. UserTypeOK' /\ Edited({p})
      BY <1>1, <1>2, <2>1 DEF Edit, Edited
    <2> QED BY <2>2, EditedInv
  <1>3. ASSUME NEW p \in Paths, Remove(p) PROVE IInv'
    <2>1. UserTypeOK' /\ Edited({p})
      BY <1>1, <1>3 DEF Remove, Edited
    <2> QED BY <2>1, EditedInv
  <1>4. ASSUME NEW p \in Paths, NEW q \in Paths, Rename(p, q) PROVE IInv'
    <2>1. UserTypeOK' /\ Edited({p, q})
      BY <1>1, <1>4 DEF Rename, Edited
    <2> QED BY <2>1, EditedInv
  <1>5. CASE Mount
    <2>1. UserTypeOK' /\ call' = call
      BY <1>1, <1>5 DEF Mount
    <2>2. CallTypeOK'
      BY <2>1 DEF IInv, TypeOK, CallTypeOK
    <2> QED BY <1>5, <2>1, <2>2, Frame DEF IInv, TypeOK, Mount
  <1>6. ASSUME NEW n \in Accesses, NEW id \in Keys, RecordNoteAccess(n, id) PROVE IInv'
    <2>1. db' \in Databases /\ Sound(db')
      BY <1>6, AccessSound DEF IInv, TypeOK, RecordNoteAccess
    <2>2. UserTypeOK' /\ CallTypeOK'
      BY <1>1, <1>6 DEF IInv, TypeOK, CallTypeOK, RecordNoteAccess, userVars
    <2> QED BY <1>6, <2>1, <2>2, Frame DEF IInv, TypeOK, RecordNoteAccess
  <1> QED BY <1>2, <1>3, <1>4, <1>5, <1>6 DEF User

-----------------------------------------------------------------------------
(* IndexFile *)

LEMMA CalledRecord ==
    ASSUME IInv, NEW k \in Callers, IndexFileStore(k)
    PROVE  buildNoteRecord(call[k].path, call[k].body, call[k].mtime) \in NoteRecords
  <1>1. call[k] \in [path : Paths, body : Contents, mtime : Nat \cup {NoTime}]
    BY DEF IInv, TypeOK, CallTypeOK, IndexFileStore
  <1> QED BY <1>1, RecordBuilt DEF IndexFileStore

LEMMA CallInv ==
    ASSUME IInv, IndexFile PROVE IInv'
  <1>1. UserTypeOK /\ CallTypeOK
    BY DEF IInv, TypeOK
  <1>2. ASSUME NEW k \in Callers, NEW p \in Paths, IndexFileRead(k, p) PROVE IInv'
    <2>1. disk[p] \in Contents
      BY <1>1, <1>2 DEF IndexFileRead, Present, UserTypeOK
    <2>2. CallTypeOK' /\ UserTypeOK'
      BY <1>1, <1>2, <2>1 DEF IndexFileRead, CallTypeOK, UserTypeOK, userVars
    <2> QED BY <1>2, <2>2, Frame DEF IInv, TypeOK, IndexFileRead
  <1>3. ASSUME NEW k \in Callers, call[k] # Unread
        PROVE  call[k] \in [path : Paths, body : Contents, mtime : Nat \cup {NoTime}]
    BY <1>1, <1>3 DEF CallTypeOK
  <1>4. ASSUME NEW k \in Callers, IndexFileStat(k) PROVE IInv'
    <2>1. call[k].path \in Paths /\ mtime[call[k].path] \in Nat
      BY <1>1, <1>3, <1>4 DEF IndexFileStat, UserTypeOK
    <2>2. CallTypeOK' /\ UserTypeOK'
      BY <1>1, <1>3, <1>4, <2>1 DEF IndexFileStat, CallTypeOK, UserTypeOK, userVars
    <2> QED BY <1>4, <2>2, Frame DEF IInv, TypeOK, IndexFileStat
  <1>5. ASSUME NEW k \in Callers, IndexFileStore(k) PROVE IInv'
    <2>1. buildNoteRecord(call[k].path, call[k].body, call[k].mtime) \in NoteRecords
      BY <1>5, CalledRecord
    <2>2. db' \in Databases /\ Sound(db')
      BY <1>5, <2>1, StoreNoteSound DEF IInv, TypeOK, IndexFileStore
    <2>3. CallTypeOK' /\ UserTypeOK'
      BY <1>1, <1>5 DEF IndexFileStore, CallTypeOK, UserTypeOK, userVars
    <2> QED BY <1>5, <2>2, <2>3, Frame DEF IndexFileStore
  <1>6. ASSUME NEW k \in Callers, IndexFileAbandon(k) PROVE IInv'
    <2>1. CallTypeOK' /\ UserTypeOK'
      BY <1>1, <1>6 DEF IndexFileAbandon, CallTypeOK, UserTypeOK, userVars
    <2> QED BY <1>6, <2>1, Frame DEF IInv, TypeOK, IndexFileAbandon
  <1> QED BY <1>2, <1>4, <1>5, <1>6 DEF IndexFile

-----------------------------------------------------------------------------
(* The pass *)

\* A pass changes neither the vault nor the calls of other processes.
LEMMA PassFrame ==
    ASSUME IInv, UNCHANGED userVars, call' = call, calm' \subseteq Paths,
           PassTypeOK', db' \in Databases, Sound(db'), tx' \in Databases \cup {NoTx},
           BatchOpen', BatchSound', WalkKnown'
    PROVE  IInv'
  <1>1. UserTypeOK' /\ CallTypeOK'
    BY DEF IInv, TypeOK, UserTypeOK, CallTypeOK, userVars
  <1> QED BY <1>1 DEF IInv, TypeOK

LEMMA StartInv ==
    ASSUME IInv, NEW m \in Modes, StartPass(m) PROVE IInv'
  <1>1. UserTypeOK /\ PassTypeOK /\ Absent \notin Nat
    BY IndexerAssumption DEF IInv, TypeOK
  <1>2. scan' \in [Paths -> Nat \cup {Absent}] /\ \A p \in todo' : scan'[p] \in Nat
    BY <1>1 DEF StartPass, UserTypeOK
  <1>3. stored' \subseteq NoteRows
    BY DEF IInv, TypeOK, StartPass, Databases
  <1>4. PassTypeOK'
    BY <1>1, <1>2, <1>3 DEF StartPass, PassTypeOK, NoReport
  <1>5. tx = NoTx
    BY DEF IInv, BatchOpen, StartPass
  <1>6. BatchOpen' /\ BatchSound' /\ WalkKnown'
    BY <1>2, <1>5 DEF StartPass, BatchOpen, BatchSound, WalkKnown
  <1> QED BY <1>4, <1>6, PassFrame DEF IInv, TypeOK, StartPass

LEMMA FileInv ==
    ASSUME IInv, NEW p \in Paths, AtFile(p), RebuildFile(p) \/ IncrementalFile(p) PROVE IInv'
  <1>1. UserTypeOK /\ PassTypeOK /\ scan[p] \in Nat
    BY DEF IInv, TypeOK, WalkKnown, AtFile
  <1>2. tx = NoTx
    BY DEF IInv, BatchOpen, AtFile
  <1>3. Present(p) => disk[p] \in Contents
    BY <1>1 DEF Present, UserTypeOK
  <1>4. Present(p) => buildNoteRecord(p, disk[p], scan[p]) \in NoteRecords
    BY <1>1, <1>3, RecordBuilt
  <1>5. /\ db' \in Databases /\ Sound(db')
        /\ records' \subseteq NoteRecords
        /\ report' \in [dups : SUBSET (Paths \X Paths), errs : SUBSET Paths]
        /\ pc' \in {"files", "store"} /\ (pc' = "store" => mode = "incremental")
    <2>1. CASE SkipUnreadable(p) /\ mode \in Modes
      BY <1>1, <2>1 DEF SkipUnreadable, Error, AtFile, IInv, TypeOK, PassTypeOK
    <2>2. CASE RebuildFile(p)
      <3> DEFINE rec == buildNoteRecord(p, disk[p], scan[p])
                 seen == {r \in records : IsDomain(rec) /\ r.id = rec.id}
      <3>1. seen \subseteq NoteRows
        BY <1>1 DEF PassTypeOK, NoteRecords
      <3>2. {<<r.path, p>> : r \in seen} \subseteq Paths \X Paths
        BY <3>1 DEF NoteRows
      <3>3. CASE SkipUnreadable(p)
        BY <1>1, <2>1, <3>3 DEF PassTypeOK
      <3>4. CASE Present(p) /\ ~ SkipUnreadable(p)
        <4>1. pc' = pc /\ db' = db
          BY <2>2, <3>4 DEF RebuildFile
        <4>2. records' \subseteq NoteRecords
          BY <1>1, <1>4, <2>2, <3>4 DEF RebuildFile, PassTypeOK
        <4>3. report' \in [dups : SUBSET (Paths \X Paths), errs : SUBSET Paths]
          BY <1>1, <2>2, <3>2, <3>4 DEF RebuildFile, PassTypeOK
        <4> QED BY <4>1, <4>2, <4>3 DEF AtFile, IInv, TypeOK
      <3> QED BY <2>2, <3>3, <3>4 DEF RebuildFile
    <2>3. CASE IncrementalFile(p)
      <3>1. CASE SkipUnchanged(p)
        BY <1>1, <3>1 DEF SkipUnchanged, AtFile, IInv, TypeOK, PassTypeOK
      <3>2. CASE SkipSameHash(p)
        <4>1. db' \in Databases /\ Sound(db')
          BY <1>1, <3>2, UpdateMTimeSound DEF SkipSameHash, IInv, TypeOK
        <4> QED BY <1>1, <3>2, <4>1 DEF SkipSameHash, AtFile, PassTypeOK
      <3>3. CASE ParseChanged(p)
        BY <1>1, <1>4, <2>3, <3>3 DEF ParseChanged, IncrementalFile, IInv, TypeOK, PassTypeOK
      <3>4. CASE SkipUnreadable(p)
        BY <1>1, <2>1, <3>4 DEF PassTypeOK
      <3> QED BY <2>3, <3>1, <3>2, <3>3, <3>4 DEF IncrementalFile
    <2> QED BY <2>2, <2>3
  <1>6. PassTypeOK'
    BY <1>1, <1>5 DEF AtFile, PassTypeOK
  <1>7. BatchOpen' /\ BatchSound' /\ WalkKnown'
    BY <1>1, <1>2, <1>5 DEF AtFile, BatchOpen, BatchSound, WalkKnown, IInv, RebuildFile, IncrementalFile
  <1> QED BY <1>2, <1>5, <1>6, <1>7, PassFrame DEF AtFile, IInv, TypeOK

LEMMA RebuildInv ==
    ASSUME IInv, RebuildBegin \/ (\E rec \in records : RebuildStore(rec)) \/ RebuildCommit
    PROVE  IInv'
  <1>1. PassTypeOK /\ db \in Databases /\ tx \in Databases \cup {NoTx}
    BY DEF IInv, TypeOK
  <1>2. CASE RebuildBegin
    <2>1. PassTypeOK'
      BY <1>1, <1>2 DEF RebuildBegin, PassTypeOK
    <2>2. tx' # NoTx
      BY <1>1, <1>2, IndexerAssumption DEF RebuildBegin
    <2>3. BatchOpen' /\ BatchSound' /\ WalkKnown'
      BY <1>2, <2>2 DEF RebuildBegin, BatchOpen, BatchSound, WalkKnown, IInv
    <2> QED BY <1>1, <1>2, <2>1, <2>3, PassFrame DEF RebuildBegin, IInv, TypeOK
  <1>3. ASSUME NEW rec \in records, RebuildStore(rec) PROVE IInv'
    <2>1. tx # NoTx /\ tx \in Databases /\ Sound(tx)
      BY <1>1, <1>3 DEF IInv, BatchOpen, BatchSound, RebuildStore
    <2>2. rec \in NoteRecords /\ rec.path \in Paths
      BY <1>1 DEF PassTypeOK, NoteRecords, NoteRows
    <2>3. tx' \in Databases /\ Sound(tx') /\ tx' # NoTx
      BY <1>3, <2>1, <2>2, StoreSound, IndexerAssumption DEF RebuildStore
    <2>4. PassTypeOK'
      BY <1>1, <1>3, <2>2 DEF RebuildStore, Error, PassTypeOK
    <2>5. BatchOpen' /\ BatchSound' /\ WalkKnown'
      BY <1>3, <2>1, <2>3 DEF RebuildStore, BatchOpen, BatchSound, WalkKnown, IInv
    <2> QED BY <1>1, <1>3, <2>3, <2>4, <2>5, PassFrame DEF RebuildStore, IInv, TypeOK
  <1>4. CASE RebuildCommit
    <2>1. tx \in Databases /\ Sound(tx)
      BY <1>1, <1>4 DEF IInv, BatchOpen, BatchSound, RebuildCommit
    <2>2. {r.path : r \in tx.notes} \subseteq Paths
      BY <2>1 DEF Databases, NoteRows
    <2>3. PassTypeOK'
      BY <1>1, <1>4, <2>1, <2>2 DEF RebuildCommit, PassTypeOK, Databases, NoteRows
    <2>4. BatchOpen' /\ BatchSound' /\ WalkKnown'
      BY <1>4 DEF RebuildCommit, BatchOpen, BatchSound, WalkKnown
    <2> QED BY <1>4, <2>1, <2>3, <2>4, PassFrame DEF RebuildCommit, IInv, TypeOK
  <1> QED BY <1>2, <1>3, <1>4

LEMMA IncrementalInv ==
    ASSUME IInv, (\E rec \in records : IncrementalStore(rec)) \/ IncrementalFilesDone
    PROVE  IInv'
  <1>1. PassTypeOK /\ db \in Databases /\ Sound(db)
    BY DEF IInv, TypeOK
  <1>2. ASSUME NEW rec \in records, IncrementalStore(rec) PROVE IInv'
    <2>1. rec \in NoteRecords /\ rec.path \in Paths
      BY <1>1 DEF PassTypeOK, NoteRecords, NoteRows
    <2>2. db' \in Databases /\ Sound(db')
      BY <1>1, <1>2, <2>1, StoreNoteSound DEF IncrementalStore
    <2>3. duplicateIDHolder(rec) \subseteq Paths
      BY <1>1 DEF duplicateIDHolder, Databases, NoteRows
    <2>4. {<<h, rec.path>> : h \in duplicateIDHolder(rec)} \subseteq Paths \X Paths
      BY <2>1, <2>3
    <2>5. report' \in [dups : SUBSET (Paths \X Paths), errs : SUBSET Paths]
      BY <1>1, <1>2, <2>1, <2>4 DEF IncrementalStore, Error, PassTypeOK
    <2>6. PassTypeOK'
      BY <1>1, <1>2, <2>5 DEF IncrementalStore, PassTypeOK
    <2>7. BatchOpen' /\ BatchSound' /\ WalkKnown'
      BY <1>2 DEF IncrementalStore, BatchOpen, BatchSound, WalkKnown, IInv
    <2> QED BY <1>2, <2>2, <2>6, <2>7, PassFrame DEF IncrementalStore, IInv, TypeOK
  <1>3. CASE IncrementalFilesDone
    <2>1. {r.path : r \in stored} \subseteq Paths
      BY <1>1 DEF PassTypeOK, NoteRows
    <2>2. PassTypeOK'
      BY <1>1, <1>3, <2>1 DEF IncrementalFilesDone, PassTypeOK
    <2>3. BatchOpen' /\ BatchSound' /\ WalkKnown'
      BY <1>3 DEF IncrementalFilesDone, BatchOpen, BatchSound, WalkKnown, IInv
    <2> QED BY <1>3, <2>2, <2>3, PassFrame DEF IncrementalFilesDone, IInv, TypeOK
  <1> QED BY <1>2, <1>3

LEMMA EndInv ==
    ASSUME IInv, (\E p \in Paths : forgetOrphan(p)) \/ SweepDone \/ GraphPass \/ Crash
    PROVE  IInv'
  <1>1. PassTypeOK /\ db \in Databases /\ Sound(db)
    BY DEF IInv, TypeOK
  <1>2. ASSUME NEW p \in Paths, forgetOrphan(p) PROVE IInv'
    <2>1. db' \in Databases /\ Sound(db')
      BY <1>1, <1>2, DeleteSound DEF forgetOrphan
    <2>2. PassTypeOK'
      BY <1>1, <1>2 DEF forgetOrphan, PassTypeOK
    <2>3. BatchOpen' /\ BatchSound' /\ WalkKnown'
      BY <1>2 DEF forgetOrphan, BatchOpen, BatchSound, WalkKnown, IInv
    <2> QED BY <1>2, <2>1, <2>2, <2>3, PassFrame DEF forgetOrphan, IInv, TypeOK
  <1>3. CASE SweepDone
    <2>1. PassTypeOK'
      BY <1>1, <1>3 DEF SweepDone, PassTypeOK
    <2>2. BatchOpen' /\ BatchSound' /\ WalkKnown'
      BY <1>3 DEF SweepDone, BatchOpen, BatchSound, WalkKnown, IInv
    <2> QED BY <1>1, <1>3, <2>1, <2>2, PassFrame DEF SweepDone, IInv, TypeOK
  <1>4. ASSUME PassOver, tx' = NoTx, db' \in Databases, Sound(db') PROVE IInv'
    <2>1. PassTypeOK'
      BY <1>1, <1>4 DEF PassOver, PassTypeOK, NoReport
    <2>2. BatchOpen' /\ BatchSound' /\ WalkKnown'
      BY <1>4 DEF PassOver, BatchOpen, BatchSound, WalkKnown
    <2> QED BY <1>4, <2>1, <2>2, PassFrame DEF PassOver, IInv, TypeOK
  <1>5. CASE GraphPass
    <2>1. tx = NoTx
      BY <1>5 DEF IInv, BatchOpen, GraphPass
    <2> QED BY <1>1, <1>4, <1>5, <2>1, ResolveSound DEF GraphPass
  <1>6. CASE Crash
    BY <1>1, <1>4, <1>6 DEF Crash
  <1> QED BY <1>2, <1>3, <1>5, <1>6

LEMMA NextInv == IInv /\ [Next]_vars => IInv'
  <1> SUFFICES ASSUME IInv, [Next]_vars PROVE IInv'
    OBVIOUS
  <1>1. CASE UNCHANGED vars
    BY <1>1 DEF IInv, TypeOK, UserTypeOK, PassTypeOK, CallTypeOK, BatchOpen, BatchSound, WalkKnown, vars
  <1>2. CASE PassStep
    <2>1. ASSUME NEW p \in Paths, RebuildFile(p) \/ IncrementalFile(p) PROVE IInv'
      BY <2>1, FileInv DEF RebuildFile, IncrementalFile
    <2> QED BY <1>2, <2>1, RebuildInv, IncrementalInv, EndInv DEF PassStep
  <1> QED BY <1>1, <1>2, UserInv, StartInv, CallInv, EndInv DEF Next

-----------------------------------------------------------------------------

\* Every reachable state is type correct: in particular the tables hold rows of
\* their schema only, whatever records the passes built.
THEOREM TypeCorrect == Spec => []TypeOK
  <1>1. IInv => TypeOK
    BY DEF IInv
  <1> QED BY <1>1, InitInv, NextInv, PTL DEF Spec

\* The committed tables agree with each other in every reachable state: one row
\* per id and per path, keyed by its own content, and full text, links and
\* access history only of notes that have a row (store.go, indexer.go).
THEOREM IndexAlwaysSound == Spec => []IndexSound
  <1>1. IInv => IndexSound
    BY DEF IInv, IndexSound
  <1> QED BY <1>1, InitInv, NextInv, PTL DEF Spec
-----------------------------------------------------------------------------
(* A pass nobody disturbs keeps track of every file of its walk *)

\* The walk a pass works from: what is calm is as it was.  Files are visited
\* in its order, and the sweep visits nothing of it.
Walked ==
    /\ \A p \in calm : scan[p] = IF Present(p) THEN mtime[p] ELSE Absent
    /\ calm # {} => pc # "idle" /\ (mounted \/ (db.notes = {} /\ Scanned = {}))
    /\ pc \in {"files", "store"} => todo \subseteq Scanned
    /\ pc = "sweep" => todo \cap Scanned = {}

\* The records parsed and not stored are of files visited, one for each file and id.
Parsed ==
    /\ \A rec \in records :
          /\ pc \in {"files", "store"} /\ rec.path \in Scanned \ todo
          /\ rec.path \in calm => rec.body = disk[rec.path]
    /\ \A a, b \in records : a.id = b.id \/ a.path = b.path => a = b
    /\ mode = "incremental" => (pc = "files" => records = {}) /\ (\A a, b \in records : a = b)
    /\ mode = "rebuild" /\ pc = "store" => todo = {}

Reported(p) == p \in report.errs \/ \E h \in Scanned : <<h, p>> \in report.dups

Waits(p) == \E rec \in records : rec.path = p

Indexed(p) == \E r \in db.notes : r.path = p /\ (r.body = disk[p] \/ r \in Fresh(p))

\* No record that waits can take the place of the row.
Final(r) == \A rec \in records : rec.id # r.id /\ rec.path # r.path

\* Incremental: a file is accounted for once it is visited, the rows of those
\* that are not are as the pass loaded them, and the sweep will meet every other row.
VisitsAll ==
    calm # {} /\ mode = "incremental" /\ pc \in {"files", "store"} =>
        /\ \A p \in (Scanned \cap calm) \ todo : Reported(p) \/ Waits(p) \/ Indexed(p)
        /\ \A r \in stored : r.path \in todo => r \in db.notes
        /\ \A r \in db.notes : r.path \in Scanned \/ \E s \in stored : s.path = r.path

ParsesAll ==
    mode = "rebuild" /\ pc = "files" =>
        \A p \in Scanned \ todo : Reported(p) \/ Waits(p)

\* Rebuild: what the batch has stored stays in it, and a row the batch has lost
\* made way for one that claims its id.
BatchKeeps ==
    tx # NoTx =>
        /\ \A s \in tx.notes : s \in db.notes \/ (Final(s) /\ s.path \in Scanned)
        /\ \A r \in db.notes :
              \/ \E s \in tx.notes : s.path = r.path
              \/ \E s \in tx.notes : s.id = r.id /\ s.path # r.path /\ Final(s)
        /\ \A a \in db.acc : \E b \in tx.acc : b.n = a.n
        /\ \A p \in Scanned :
              \/ Reported(p) \/ Waits(p)
              \/ \E r \in tx.notes : r.path = p /\ (p \in calm => r.body = disk[p]) /\ Final(r)

\* The sweep has only rows left to delete whose files are gone.
SweepsRest ==
    calm # {} /\ pc \in {"sweep", "graph"} =>
        /\ \A p \in Scanned \cap calm : Reported(p) \/ Indexed(p)
        /\ \A r \in db.notes : r.path \in Scanned \/ (pc = "sweep" /\ r.path \in todo)

TInv == IInv /\ Walked /\ Parsed /\ VisitsAll /\ ParsesAll /\ BatchKeeps /\ SweepsRest

LEMMA InitTracked == Init => TInv
  <1> SUFFICES ASSUME Init PROVE TInv
    OBVIOUS
  <1>1. pc = "idle" /\ calm = {} /\ tx = NoTx /\ records = {} /\ todo = {}
    BY DEF Init
  <1>2. Walked /\ Parsed /\ VisitsAll /\ ParsesAll /\ BatchKeeps /\ SweepsRest
    BY <1>1 DEF Walked, Parsed, VisitsAll, ParsesAll, BatchKeeps, SweepsRest
  <1> QED BY <1>2, InitInv DEF TInv

\* The vault's user, or an IndexFile call that stores.
LEMMA OutsiderTracked ==
    ASSUME TInv, IInv', UNCHANGED passVars, tx' = tx, calm' \subseteq calm,
           \A p \in calm' : UNCHANGED <<disk[p], mtime[p], mounted, db>>,
           tx = NoTx \/ db' = db
    PROVE  TInv'
  <1> USE DEF passVars
  <1>1. Scanned' = Scanned
    BY DEF Scanned
  <1>2. /\ \A p \in calm' : p \in calm /\ Present(p)' = Present(p)
        /\ calm' # {} => calm # {} /\ UNCHANGED <<mounted, db>>
    BY DEF Present
  <1>3. \A p : Reported(p)' = Reported(p) /\ Waits(p)' = Waits(p) /\ Fresh(p)' = Fresh(p)
    BY <1>1 DEF Reported, Waits, Fresh
  <1>4. \A p \in calm' : Indexed(p) => Indexed(p)'
    BY <1>3 DEF Indexed
  <1>5. Walked'
    BY <1>1, <1>2 DEF TInv, Walked
  <1>6. Parsed'
    BY <1>1, <1>2 DEF TInv, Parsed
  <1>7. BatchKeeps'
    BY <1>1, <1>2, <1>3 DEF TInv, BatchKeeps, Final
  <1>8. VisitsAll'
    BY <1>1, <1>2, <1>3, <1>4 DEF TInv, VisitsAll
  <1>9. ParsesAll'
    BY <1>1, <1>3 DEF TInv, ParsesAll
  <1>10. SweepsRest'
    BY <1>1, <1>2, <1>3, <1>4 DEF TInv, SweepsRest
  <1> QED BY <1>5, <1>6, <1>7, <1>8, <1>9, <1>10 DEF TInv

\* Anyone who leaves files and notes alone.
LEMMA BystanderTracked ==
    ASSUME TInv, IInv', UNCHANGED <<userVars, passVars, tx, calm>>, db'.notes = db.notes, tx = NoTx \/ db' = db
    PROVE  TInv'
  <1> USE DEF passVars, userVars
  <1>1. /\ Scanned' = Scanned /\ \A p : Fresh(p)' = Fresh(p) /\ Present(p)' = Present(p)
        /\ \A p : Reported(p)' = Reported(p) /\ Waits(p)' = Waits(p)
    BY DEF Scanned, Fresh, Present, Reported, Waits
  <1>2. \A p : Indexed(p)' = Indexed(p)
    BY <1>1 DEF Indexed
  <1>3. Walked'
    BY <1>1 DEF TInv, Walked
  <1>4. Parsed'
    BY <1>1 DEF TInv, Parsed
  <1>5. BatchKeeps'
    BY <1>1 DEF TInv, BatchKeeps, Final
  <1>6. VisitsAll'
    BY <1>1, <1>2 DEF TInv, VisitsAll
  <1>7. ParsesAll'
    BY <1>1 DEF TInv, ParsesAll
  <1>8. SweepsRest'
    BY <1>1, <1>2 DEF TInv, SweepsRest
  <1> QED BY <1>3, <1>4, <1>5, <1>6, <1>7, <1>8 DEF TInv

LEMMA StartTracked == ASSUME TInv, IInv', NEW m \in Modes, StartPass(m) PROVE TInv'
  <1>1. /\ pc' = "files" /\ todo' = {p \in Paths : Present(p)} /\ records' = {} /\ db' = db /\ calm' = Paths
        /\ scan' = [p \in Paths |-> IF Present(p) THEN mtime[p] ELSE Absent]
        /\ stored' = IF m = "incremental" THEN db.notes ELSE {}
        /\ mode' = m
        /\ UNCHANGED <<disk, mtime, mounted, tx>>
        /\ ~ mounted => db.notes = {}
    BY DEF StartPass, userVars, refuseWipeOnEmptyScan
  <1>2. mtime \in [Paths -> Nat] /\ Absent \notin Nat
    BY IndexerAssumption DEF TInv, IInv, TypeOK, UserTypeOK
  <1>3. \A p : Present(p)' = Present(p)
    BY <1>1 DEF Present
  <1>4. Scanned' = todo'
    BY <1>1, <1>2 DEF Scanned
  <1>5. tx = NoTx /\ tx' = NoTx
    BY <1>1 DEF TInv, IInv, BatchOpen, StartPass
  <1>6. Walked'
    BY <1>1, <1>3, <1>4 DEF Walked, Present
  <1>7. Parsed'
    BY <1>1 DEF Parsed
  <1>8. VisitsAll'
    BY <1>1, <1>4 DEF VisitsAll
  <1>9. ParsesAll' /\ BatchKeeps' /\ SweepsRest'
    BY <1>1, <1>4, <1>5 DEF ParsesAll, BatchKeeps, SweepsRest
  <1> QED BY <1>6, <1>7, <1>8, <1>9 DEF TInv

LEMMA OverTracked == ASSUME TInv, IInv', PassOver, tx' = NoTx PROVE TInv'
  <1>1. pc' = "idle" /\ calm' = {} /\ todo' = {} /\ records' = {}
    BY DEF PassOver
  <1>2. Walked' /\ Parsed'
    BY <1>1 DEF Walked, Parsed
  <1>3. VisitsAll' /\ ParsesAll' /\ BatchKeeps' /\ SweepsRest'
    BY <1>1 DEF VisitsAll, ParsesAll, BatchKeeps, SweepsRest
  <1> QED BY <1>2, <1>3 DEF TInv
-----------------------------------------------------------------------------
(* A visit *)

\* What every visit leaves as it was, and the one file it takes off the list.
LEMMA VisitFrame ==
    ASSUME TInv, NEW p \in Paths, AtFile(p), db.notes = {} => db'.notes = {}
    PROVE  /\ p \in Scanned /\ tx = NoTx /\ tx' = NoTx
           /\ Scanned' = Scanned /\ \A q : Fresh(q)' = Fresh(q) /\ Present(q)' = Present(q)
           /\ (pc' \in {"files", "store"} => Walked')
  <1>1. pc = "files" /\ p \in todo /\ todo' = todo \ {p} /\ UNCHANGED <<tx, mode, scan, stored, calm>>
        /\ UNCHANGED <<disk, mtime, mounted>>
    BY DEF AtFile, userVars
  <1>2. tx = NoTx
    BY <1>1 DEF TInv, IInv, BatchOpen
  <1>3. Scanned' = Scanned /\ p \in Scanned
    BY <1>1 DEF Scanned, TInv, Walked
  <1>4. \A q : Fresh(q)' = Fresh(q) /\ Present(q)' = Present(q)
    BY <1>1 DEF Fresh, Present
  <1>5. ASSUME pc' \in {"files", "store"} PROVE Walked'
    BY <1>1, <1>3, <1>4, <1>5 DEF TInv, Walked
  <1> QED BY <1>1, <1>2, <1>3, <1>4, <1>5

LEMMA RebuildFileTracked == ASSUME TInv, IInv', NEW p \in Paths, RebuildFile(p) PROVE TInv'
  <1> DEFINE rec == buildNoteRecord(p, disk[p], scan[p])
             seen == {r \in records : IsDomain(rec) /\ r.id = rec.id}
  <1>1. /\ AtFile(p) /\ mode = "rebuild" /\ pc = "files" /\ p \in todo /\ todo' = todo \ {p}
        /\ db' = db /\ pc' = pc /\ UNCHANGED <<mode, scan, stored, calm, disk>>
    BY DEF RebuildFile, AtFile, SkipUnreadable, userVars
  <1>2. /\ p \in Scanned /\ tx' = NoTx /\ Scanned' = Scanned /\ Walked'
        /\ records \subseteq NoteRecords
    BY <1>1, VisitFrame DEF TInv, IInv, TypeOK, PassTypeOK
  <1>3. VisitsAll' /\ BatchKeeps' /\ SweepsRest'
    BY <1>1, <1>2 DEF VisitsAll, BatchKeeps, SweepsRest
  <1>4. /\ \A r \in records : r.path \in Scanned \ todo /\ (r.path \in calm => r.body = disk[r.path])
        /\ \A a, b \in records : a.id = b.id \/ a.path = b.path => a = b
    BY DEF TInv, Parsed
  <1>5. CASE SkipUnreadable(p)
    <2>1. records' = records /\ report' = [report EXCEPT !.errs = @ \cup {p}]
      BY <1>5 DEF SkipUnreadable, Error
    <2>2. Parsed'
      BY <1>1, <1>2, <1>4, <2>1 DEF Parsed
    <2>3. p \in report'.errs /\ \A q : Reported(q) => Reported(q)'
      BY <1>2, <2>1 DEF Reported, TInv, IInv, TypeOK, PassTypeOK
    <2>4. ParsesAll'
      BY <1>1, <1>2, <2>1, <2>3 DEF TInv, ParsesAll, Reported, Waits
    <2> QED BY <1>2, <1>3, <2>2, <2>4 DEF TInv
  <1>6. CASE ~ SkipUnreadable(p) /\ Present(p) /\ disk[p] \notin Unparsable /\ seen = {}
    <2>1. records' = records \cup {rec} /\ report' = report
      BY <1>6 DEF RebuildFile
    <2>2. disk[p] \in Contents /\ rec.path = p /\ rec.body = disk[p] /\ rec.id = NoteKey(p, disk[p])
      BY <1>6 DEF Present, TInv, IInv, TypeOK, UserTypeOK, buildNoteRecord
    <2>3. ASSUME NEW r \in records PROVE r.id # rec.id /\ r.path # rec.path
      <3>1. r.path # p /\ r.path \in Paths /\ r.body \in Contents /\ r.id = NoteKey(r.path, r.body)
        BY <1>1, <1>2, <1>4 DEF NoteRecords, NoteRows
      <3>2. CASE IsDomain(rec)
        BY <1>6, <2>2, <3>1, <3>2
      <3>3. CASE ~ IsDomain(rec)
        <4>1. rec.id = PathId[p]
          BY <2>2, <3>3 DEF IsDomain, NoteKey
        <4>2. r.id \in Ids \/ r.id = PathId[r.path]
          BY <3>1, NoteStoreAssumption DEF NoteKey
        <4> QED BY <2>2, <3>1, <4>1, <4>2, NoteStoreAssumption
      <3> QED BY <3>2, <3>3
    <2> HIDE DEF rec, seen
    <2>4. Parsed'
      BY <1>1, <1>2, <1>4, <2>1, <2>2, <2>3 DEF Parsed
    <2>5. ParsesAll'
      BY <1>1, <1>2, <2>1, <2>2 DEF TInv, ParsesAll, Reported, Waits
    <2> QED BY <1>2, <1>3, <2>4, <2>5 DEF TInv
  <1>7. CASE ~ SkipUnreadable(p) /\ Present(p) /\ disk[p] \notin Unparsable /\ seen # {}
    <2>1. records' = records /\ report' = [report EXCEPT !.dups = @ \cup {<<r.path, p>> : r \in seen}]
      BY <1>7 DEF RebuildFile
    <2>2. PICK r \in seen : r \in records /\ r.path \in Scanned
      BY <1>4, <1>7
    <2> HIDE DEF rec
    <2>3. <<r.path, p>> \in report'.dups /\ report.dups \subseteq report'.dups /\ report'.errs = report.errs
      BY <2>1, <2>2 DEF TInv, IInv, TypeOK, PassTypeOK
    <2> HIDE DEF seen
    <2>4. Parsed'
      BY <1>1, <1>2, <1>4, <2>1 DEF Parsed
    <2>5. ParsesAll'
      BY <1>1, <1>2, <2>1, <2>2, <2>3 DEF TInv, ParsesAll, Reported, Waits
    <2> QED BY <1>2, <1>3, <2>4, <2>5 DEF TInv
  <1>8. SkipUnreadable(p) \/ (Present(p) /\ disk[p] \notin Unparsable)
    BY DEF RebuildFile
  <1> QED BY <1>5, <1>6, <1>7, <1>8

LEMMA IncrementalFileTracked == ASSUME TInv, IInv', NEW p \in Paths, IncrementalFile(p) PROVE TInv'
  <1>1. /\ AtFile(p) /\ mode = "incremental" /\ pc = "files" /\ p \in todo /\ todo' = todo \ {p}
        /\ UNCHANGED <<mode, scan, stored, calm, disk>>
    BY DEF IncrementalFile, AtFile, userVars
  <1>2. db \in Databases /\ UniqueRows(db) /\ scan[p] \in Nat /\ records = {}
    BY <1>1 DEF TInv, IInv, TypeOK, Sound, WalkKnown, Parsed
  <1>3. ASSUME /\ \A r \in db'.notes : \E s \in db.notes : s.path = r.path
               /\ \A s \in db.notes : s.path # p => s \in db'.notes
               /\ report.errs \subseteq report'.errs /\ report.dups \subseteq report'.dups
               /\ \/ pc' = "files" /\ records' = {} /\ (p \in calm => Reported(p)' \/ Indexed(p)')
                  \/ /\ pc' = "store" /\ Waits(p)'
                     /\ \E rec : records' = {rec} /\ rec.path = p /\ rec.body = disk[p]
        PROVE  TInv'
    <2>1. /\ p \in Scanned /\ tx' = NoTx /\ Scanned' = Scanned /\ Walked'
          /\ \A q : Fresh(q)' = Fresh(q) /\ Present(q)' = Present(q)
      <3>1. db.notes = {} => db'.notes = {}
        BY <1>3
      <3> QED BY <1>1, <1>3, <3>1, VisitFrame
    <2>2. ParsesAll' /\ BatchKeeps' /\ SweepsRest'
      BY <1>1, <1>3, <2>1 DEF ParsesAll, BatchKeeps, SweepsRest
    <2>3. Parsed'
      BY <1>1, <1>3, <2>1 DEF Parsed
    <2>4. ASSUME calm # {} PROVE \A q \in (Scanned \cap calm) \ todo' : Reported(q)' \/ Waits(q)' \/ Indexed(q)'
      <3>1. ASSUME NEW q \in (Scanned \cap calm) \ todo PROVE Reported(q)' \/ Indexed(q)'
        <4>1. Reported(q) \/ Indexed(q)
          BY <1>1, <1>2, <2>4 DEF TInv, VisitsAll, Waits
        <4>2. Reported(q) => Reported(q)'
          BY <1>3, <2>1 DEF Reported
        <4>3. Indexed(q) => Indexed(q)'
          BY <1>1, <1>3, <2>1 DEF Indexed
        <4> QED BY <4>1, <4>2, <4>3
      <3> QED BY <1>1, <1>3, <2>4, <3>1
    <2>5. VisitsAll'
      <3>1. calm # {} => \A r \in stored : r.path \in todo' => r \in db'.notes
        BY <1>1, <1>3 DEF TInv, VisitsAll
      <3>2. calm # {} => \A r \in db'.notes : r.path \in Scanned \/ \E s \in stored : s.path = r.path
        BY <1>1, <1>3 DEF TInv, VisitsAll
      <3> QED BY <1>1, <2>1, <2>4, <3>1, <3>2 DEF VisitsAll
    <2> QED BY <2>1, <2>2, <2>3, <2>5 DEF TInv
  <1>4. CASE SkipUnchanged(p)
    <2>1. db' = db /\ pc' = pc /\ records' = records /\ report' = report
      BY <1>4 DEF SkipUnchanged
    <2>2. ASSUME p \in calm PROVE Indexed(p)'
      <3>1. PICK r \in stored : r.path = p /\ r \in Fresh(p) /\ r \in db.notes
        BY <1>1, <1>4, <2>2 DEF SkipUnchanged, Fresh, TInv, VisitsAll
      <3> QED BY <1>1, <2>1, <3>1 DEF Indexed, Fresh
    <2> QED BY <1>1, <1>2, <1>3, <2>1, <2>2
  <1>5. CASE SkipSameHash(p)
    <2>1. db' = UpdateMTime(db, p, scan[p]) /\ pc' = pc /\ records' = records /\ report' = report
      BY <1>5 DEF SkipSameHash
    <2>2. ASSUME p \in calm PROVE Indexed(p)'
      <3>1. PICK r \in stored : r.path = p /\ r.body = disk[p] /\ r \in db.notes
        BY <1>1, <1>5, <2>2 DEF SkipSameHash, TInv, VisitsAll
      <3>2. \E s \in db'.notes : s.path = p /\ s.body = disk[p]
        BY <1>2, <2>1, <3>1, UpdateMTimeShape
      <3> QED BY <1>1, <3>2 DEF Indexed
    <2>3. /\ \A r \in db'.notes : \E s \in db.notes : s.path = r.path
          /\ \A s \in db.notes : s.path # p => s \in db'.notes
      BY <1>2, <2>1, UpdateMTimeShape
    <2> QED BY <1>1, <1>2, <1>3, <2>1, <2>2, <2>3
  <1>6. CASE ParseChanged(p)
    <2>1. db' = db /\ pc' = "store" /\ report' = report /\ records' = {buildNoteRecord(p, disk[p], scan[p])}
      BY <1>6 DEF ParseChanged
    <2>2. buildNoteRecord(p, disk[p], scan[p]).path = p /\ buildNoteRecord(p, disk[p], scan[p]).body = disk[p]
      BY DEF buildNoteRecord
    <2>3. Waits(p)'
      BY <2>1, <2>2 DEF Waits
    <2> QED BY <1>3, <2>1, <2>2, <2>3
  <1>7. CASE SkipUnreadable(p)
    <2>1. db' = db /\ pc' = pc /\ records' = records /\ report' = [report EXCEPT !.errs = @ \cup {p}]
      BY <1>7 DEF SkipUnreadable, Error
    <2>2. p \in report'.errs /\ report.errs \subseteq report'.errs /\ report.dups \subseteq report'.dups
      BY <2>1 DEF TInv, IInv, TypeOK, PassTypeOK
    <2> QED BY <1>1, <1>2, <1>3, <2>1, <2>2 DEF Reported
  <1> QED BY <1>4, <1>5, <1>6, <1>7 DEF IncrementalFile

-----------------------------------------------------------------------------
(* The batch *)

LEMMA BeginTracked == ASSUME TInv, IInv', RebuildBegin PROVE TInv'
  <1>1. /\ mode = "rebuild" /\ pc = "files" /\ todo = {} /\ pc' = "store" /\ tx' = db
        /\ UNCHANGED <<db, mode, scan, stored, todo, records, report, calm, disk, mtime, mounted>>
    BY DEF RebuildBegin, userVars
  <1>2. Scanned' = Scanned /\ \A q : /\ Present(q)' = Present(q)
                                     /\ Reported(q)' = Reported(q) /\ Waits(q)' = Waits(q)
    BY <1>1 DEF Scanned, Present, Reported, Waits
  <1>3. Walked' /\ Parsed'
    BY <1>1, <1>2 DEF TInv, Walked, Parsed
  <1>4. VisitsAll' /\ ParsesAll' /\ SweepsRest'
    BY <1>1 DEF VisitsAll, ParsesAll, SweepsRest
  <1>5. \A p \in Scanned : Reported(p) \/ Waits(p)
    BY <1>1 DEF TInv, ParsesAll
  <1>6. BatchKeeps'
    BY <1>1, <1>2, <1>5 DEF BatchKeeps
  <1> QED BY <1>3, <1>4, <1>6 DEF TInv

LEMMA StoreTracked == ASSUME TInv, IInv', NEW rec \in records, RebuildStore(rec) PROVE TInv'
  <1>1. /\ mode = "rebuild" /\ pc = "store" /\ tx' = StoreNoteInTx(tx, rec).db /\ records' = records \ {rec}
        /\ UNCHANGED <<db, mode, pc, scan, stored, todo, calm, disk, mtime, mounted>>
    BY DEF RebuildStore, userVars
  <1>2. /\ tx \in Databases /\ Sound(tx) /\ rec \in NoteRecords /\ tx # NoTx
        /\ db \in Databases /\ UniqueRows(db)
    BY <1>1 DEF TInv, IInv, TypeOK, PassTypeOK, BatchOpen, BatchSound, Sound
  <1>3. /\ StoreFails(tx, rec) => rec.path \in report'.errs
        /\ ~ StoreFails(tx, rec) => report' = report
        /\ report.errs \subseteq report'.errs /\ report.dups \subseteq report'.dups
    BY DEF RebuildStore, Error, TInv, IInv, TypeOK, PassTypeOK
  <1>4. /\ tx'.notes = tx.notes \/ tx'.notes = WithRow(tx.notes, rec)
        /\ ~ StoreFails(tx, rec) => tx'.notes = WithRow(tx.notes, rec)
        /\ EventsKept(tx, tx')
    BY <1>1, <1>2, StoreShape DEF StoreFails
  <1>5. Scanned' = Scanned /\ \A q : Present(q)' = Present(q)
    BY <1>1 DEF Scanned, Present
  <1>6. /\ rec.path \in Scanned /\ (rec.path \in calm => rec.body = disk[rec.path])
        /\ \A r \in records' : r.id # rec.id /\ r.path # rec.path
    BY <1>1 DEF TInv, Parsed
  <1>7. \A r : Final(r) => Final(r)'
    BY <1>1 DEF Final
  <1>8. Final(rec)'
    BY <1>6 DEF Final
  <1>9. \A r : Final(r) => r.id # rec.id /\ r.path # rec.path
    BY DEF Final
  <1>10. Walked' /\ Parsed'
    BY <1>1, <1>5 DEF TInv, Walked, Parsed
  <1>11. VisitsAll' /\ ParsesAll' /\ SweepsRest'
    BY <1>1 DEF VisitsAll, ParsesAll, SweepsRest
  <1>12. ASSUME NEW s \in tx'.notes PROVE s \in db.notes \/ (Final(s)' /\ s.path \in Scanned)
    BY <1>1, <1>2, <1>4, <1>6, <1>7, <1>8, <1>12 DEF TInv, BatchKeeps, WithRow
  <1>13. ASSUME NEW r \in db.notes
         PROVE  \/ \E s \in tx'.notes : s.path = r.path
                \/ \E s \in tx'.notes : s.id = r.id /\ s.path # r.path /\ Final(s)'
    <2>1. CASE tx'.notes = tx.notes
      BY <1>2, <1>7, <2>1 DEF TInv, BatchKeeps
    <2>2. CASE tx'.notes = WithRow(tx.notes, rec)
      <3>1. rec \in tx'.notes
        BY <2>2 DEF WithRow
      <3>2. ASSUME NEW s \in tx.notes, s.path = r.path
            PROVE  \/ \E t \in tx'.notes : t.path = r.path
                   \/ \E t \in tx'.notes : t.id = r.id /\ t.path # r.path /\ Final(t)'
        <4>1. CASE s.path = rec.path
          BY <3>1, <3>2, <4>1
        <4>2. CASE s.path # rec.path /\ s.id # rec.id
          BY <2>2, <3>2, <4>2 DEF WithRow
        <4>3. CASE s.path # rec.path /\ s.id = rec.id
          <5>1. s \in db.notes
            BY <1>2, <1>9, <4>3 DEF TInv, BatchKeeps
          <5>2. s = r
            BY <1>2, <3>2, <5>1 DEF UniqueRows
          <5> QED BY <1>8, <3>1, <4>3, <5>2
        <4> QED BY <4>1, <4>2, <4>3
      <3>3. ASSUME NEW s \in tx.notes, s.id = r.id, s.path # r.path, Final(s)
            PROVE  \E t \in tx'.notes : t.id = r.id /\ t.path # r.path /\ Final(t)'
        <4>1. s \in tx'.notes
          BY <1>9, <2>2, <3>3 DEF WithRow
        <4> QED BY <1>7, <3>3, <4>1
      <3> QED BY <1>2, <3>2, <3>3 DEF TInv, BatchKeeps
    <2> QED BY <1>4, <2>1, <2>2
  <1>14. EventsKept(db, tx')
    <2>1. EventsKept(db, tx)
      BY <1>2 DEF TInv, BatchKeeps, EventsKept
    <2> QED BY <1>4, <2>1 DEF EventsKept
  <1>15. ASSUME NEW p \in Scanned
         PROVE  \/ Reported(p)' \/ Waits(p)'
                \/ \E r \in tx'.notes : r.path = p /\ (p \in calm => r.body = disk[p]) /\ Final(r)'
    <2>1. CASE Reported(p)
      BY <1>3, <1>5, <2>1 DEF Reported
    <2>2. CASE Waits(p) /\ p # rec.path
      BY <1>1, <2>2 DEF Waits
    <2>3. CASE p = rec.path
      <3>1. CASE StoreFails(tx, rec)
        BY <1>3, <2>3, <3>1 DEF Reported
      <3>2. CASE ~ StoreFails(tx, rec)
        <4>1. rec \in tx'.notes
          BY <1>4, <3>2 DEF WithRow
        <4> QED BY <1>6, <1>8, <1>15, <2>3, <4>1
      <3> QED BY <3>1, <3>2
    <2>4. ASSUME NEW r \in tx.notes, r.path = p, p \in calm => r.body = disk[p], Final(r)
          PROVE  \E s \in tx'.notes : s.path = p /\ (p \in calm => s.body = disk[p]) /\ Final(s)'
      <3>1. r \in tx'.notes
        BY <1>4, <1>9, <2>4 DEF WithRow
      <3> QED BY <1>7, <2>4, <3>1
    <2> QED BY <1>2, <1>15, <2>1, <2>2, <2>3, <2>4 DEF TInv, BatchKeeps
  <1>16. BatchKeeps'
    BY <1>1, <1>5, <1>12, <1>13, <1>14, <1>15 DEF BatchKeeps, EventsKept
  <1> QED BY <1>10, <1>11, <1>16 DEF TInv

LEMMA CommitTracked == ASSUME TInv, IInv', RebuildCommit PROVE TInv'
  <1>1. /\ mode = "rebuild" /\ pc = "store" /\ records = {} /\ db' = tx /\ tx' = NoTx /\ pc' = "sweep"
        /\ todo' = {r.path : r \in tx.notes} \ Scanned
        /\ UNCHANGED <<mode, scan, stored, records, report, calm, disk, mtime, mounted>>
    BY DEF RebuildCommit, userVars
  <1>2. tx # NoTx
    BY <1>1 DEF TInv, IInv, BatchOpen
  <1>3. Scanned' = Scanned /\ \A q : /\ Present(q)' = Present(q)
                                     /\ Reported(q)' = Reported(q) /\ Waits(q) = FALSE
    BY <1>1 DEF Scanned, Present, Reported, Waits
  <1>4. calm # {} /\ ~ mounted => tx.notes = {} /\ Scanned = {}
    <2>1. calm # {} /\ ~ mounted => Scanned = {} /\ db.notes = {}
      BY DEF TInv, Walked
    <2> QED BY <1>2, <2>1 DEF TInv, BatchKeeps
  <1>5. Walked'
    BY <1>1, <1>3, <1>4 DEF TInv, Walked
  <1>6. Parsed' /\ VisitsAll' /\ ParsesAll' /\ BatchKeeps'
    BY <1>1 DEF Parsed, VisitsAll, ParsesAll, BatchKeeps
  <1>7. \A p \in Scanned \cap calm : Reported(p) \/ \E r \in tx.notes : r.path = p /\ r.body = disk[p]
    BY <1>2, <1>3 DEF TInv, BatchKeeps
  <1>8. SweepsRest'
    BY <1>1, <1>3, <1>7 DEF SweepsRest, Indexed
  <1> QED BY <1>5, <1>6, <1>8 DEF TInv

-----------------------------------------------------------------------------
(* Incremental's stores, and the sweep *)

\* Where no other path the walk saw holds the id, a store takes no row of a file
\* of the walk but the one at its own path.
LEMMA SparesWalk ==
    ASSUME NEW rec \in NoteRecords, db \in Databases, Sound(db),
           ~ (IsDomain(rec) /\ duplicateIDHolder(rec) # {})
    PROVE  \A r \in db.notes : r.path \in Scanned /\ r.path # rec.path => r.id # rec.id
  <1> SUFFICES ASSUME NEW r \in db.notes, r.path \in Scanned, r.path # rec.path, r.id = rec.id
               PROVE  FALSE
    OBVIOUS
  <1>1. CASE IsDomain(rec)
    BY <1>1 DEF duplicateIDHolder
  <1>2. CASE ~ IsDomain(rec)
    <2>1. /\ rec.path \in Paths /\ rec.body \in Contents /\ rec.id = NoteKey(rec.path, rec.body)
          /\ r.path \in Paths /\ r.body \in Contents /\ r.id = NoteKey(r.path, r.body)
      BY DEF NoteRecords, NoteRows, Databases, Sound, RowsKeyed
    <2>2. rec.id = PathId[rec.path]
      BY <1>2, <2>1 DEF IsDomain, NoteKey
    <2>3. r.id \in Ids \/ r.id = PathId[r.path]
      BY <2>1, NoteStoreAssumption DEF NoteKey
    <2> QED BY <2>1, <2>2, <2>3, NoteStoreAssumption
  <1> QED BY <1>1, <1>2

LEMMA IncrementalStoreTracked ==
    ASSUME TInv, IInv', NEW rec \in records, IncrementalStore(rec) PROVE TInv'
  <1>1. /\ mode = "incremental" /\ pc = "store" /\ records' = {} /\ pc' = "files"
        /\ UNCHANGED <<tx, mode, scan, stored, todo, calm, disk, mtime, mounted>>
    BY DEF IncrementalStore, userVars
  <1>2. /\ rec \in NoteRecords /\ db \in Databases /\ Sound(db) /\ tx = NoTx
    BY <1>1 DEF TInv, IInv, TypeOK, PassTypeOK, BatchOpen
  <1>3. /\ Scanned' = Scanned /\ rec.path \in Scanned \ todo /\ todo \subseteq Scanned
        /\ \A q : Present(q)' = Present(q) /\ Fresh(q)' = Fresh(q)
        /\ rec.path \in calm => rec.body = disk[rec.path]
        /\ \A q : Waits(q) => q = rec.path
    BY <1>1 DEF TInv, Walked, Parsed, Scanned, Present, Fresh, Waits
  <1>4. ASSUME /\ \A r \in db.notes : r.path \in Scanned /\ r.path # rec.path => r \in db'.notes
               /\ \A r \in db'.notes : r \in db.notes \/ r = rec
               /\ report.errs \subseteq report'.errs /\ report.dups \subseteq report'.dups
               /\ Reported(rec.path)' \/ rec \in db'.notes
        PROVE  TInv'
    <2>1. calm # {} => mounted
      BY <1>3 DEF TInv, Walked
    <2>2. Walked'
      BY <1>1, <1>3, <2>1 DEF TInv, Walked
    <2>3. Parsed' /\ ParsesAll' /\ BatchKeeps' /\ SweepsRest'
      BY <1>1, <1>2 DEF Parsed, ParsesAll, BatchKeeps, SweepsRest
    <2>4. ASSUME NEW q \in (Scanned \cap calm) \ todo PROVE Reported(q)' \/ Indexed(q)'
      <3>1. CASE q = rec.path
        BY <1>1, <1>3, <1>4, <2>4, <3>1 DEF Indexed
      <3>2. CASE Reported(q)
        BY <1>3, <1>4, <3>2 DEF Reported
      <3>3. CASE Indexed(q) /\ q # rec.path
        BY <1>1, <1>3, <1>4, <3>3 DEF Indexed
      <3> QED BY <1>1, <1>3, <2>4, <3>1, <3>2, <3>3 DEF TInv, VisitsAll
    <2>5. ASSUME calm # {} PROVE \A r \in stored : r.path \in todo => r \in db'.notes
      BY <1>1, <1>3, <1>4, <2>5 DEF TInv, VisitsAll
    <2>6. ASSUME calm # {} PROVE \A r \in db'.notes : r.path \in Scanned \/ \E s \in stored : s.path = r.path
      BY <1>1, <1>3, <1>4, <2>6 DEF TInv, VisitsAll
    <2>7. VisitsAll'
      BY <1>1, <1>3, <2>4, <2>5, <2>6 DEF VisitsAll
    <2> QED BY <2>2, <2>3, <2>7 DEF TInv
  <1>5. CASE IsDomain(rec) /\ duplicateIDHolder(rec) # {}
    <2>1. db' = db /\ report' = [report EXCEPT !.dups = @ \cup {<<h, rec.path>> : h \in duplicateIDHolder(rec)}]
      BY <1>5 DEF IncrementalStore
    <2>2. PICK h : h \in duplicateIDHolder(rec) /\ h \in Scanned
      BY <1>5 DEF duplicateIDHolder
    <2>3. <<h, rec.path>> \in report'.dups /\ report.dups \subseteq report'.dups /\ report'.errs = report.errs
      BY <2>1, <2>2 DEF TInv, IInv, TypeOK, PassTypeOK
    <2> QED BY <1>3, <1>4, <2>1, <2>2, <2>3 DEF Reported
  <1>6. CASE ~ (IsDomain(rec) /\ duplicateIDHolder(rec) # {})
    <2>1. /\ db' = StoreNote(db, rec)
          /\ IF StoreFails(db, rec) THEN Error(rec.path) ELSE UNCHANGED report
      BY <1>6 DEF IncrementalStore
    <2>2. db'.notes = IF StoreFails(db, rec) THEN db.notes ELSE WithRow(db.notes, rec)
      BY <1>2, <2>1, StoreNoteShape
    <2>3. \A r \in db.notes : r.path \in Scanned /\ r.path # rec.path => r \in db'.notes
      BY <1>2, <1>6, <2>2, SparesWalk DEF WithRow
    <2>4. /\ StoreFails(db, rec) => rec.path \in report'.errs
          /\ report.errs \subseteq report'.errs /\ report.dups \subseteq report'.dups
      BY <2>1 DEF Error, TInv, IInv, TypeOK, PassTypeOK
    <2> QED BY <1>4, <2>2, <2>3, <2>4 DEF WithRow, Reported
  <1> QED BY <1>5, <1>6

LEMMA FilesDoneTracked == ASSUME TInv, IInv', IncrementalFilesDone PROVE TInv'
  <1>1. /\ mode = "incremental" /\ pc = "files" /\ todo = {} /\ pc' = "sweep"
        /\ todo' = {r.path : r \in stored} \ Scanned
        /\ UNCHANGED <<db, tx, mode, scan, stored, records, report, calm, disk, mtime, mounted>>
    BY DEF IncrementalFilesDone, userVars
  <1>2. tx = NoTx /\ records = {}
    BY <1>1 DEF TInv, IInv, BatchOpen, Parsed
  <1>3. Scanned' = Scanned /\ \A q : /\ Present(q)' = Present(q) /\ Indexed(q)' = Indexed(q)
                                     /\ Reported(q)' = Reported(q) /\ Waits(q) = FALSE
    BY <1>1, <1>2 DEF Scanned, Present, Reported, Waits, Indexed, Fresh
  <1>4. Walked'
    BY <1>1, <1>3 DEF TInv, Walked
  <1>5. Parsed' /\ VisitsAll' /\ ParsesAll' /\ BatchKeeps'
    BY <1>1, <1>2 DEF Parsed, VisitsAll, ParsesAll, BatchKeeps
  <1>6. calm # {} => /\ \A p \in Scanned \cap calm : Reported(p) \/ Indexed(p)
                     /\ \A r \in db.notes : r.path \in Scanned \/ r.path \in todo'
    BY <1>1, <1>3 DEF TInv, VisitsAll
  <1>7. SweepsRest'
    BY <1>1, <1>3, <1>6 DEF SweepsRest
  <1> QED BY <1>4, <1>5, <1>7 DEF TInv

LEMMA SweepTracked == ASSUME TInv, IInv', NEW p \in Paths, forgetOrphan(p) PROVE TInv'
  <1>1. /\ pc = "sweep" /\ p \in todo /\ todo' = todo \ {p} /\ db'.notes = {r \in db.notes : r.path # p}
        /\ UNCHANGED <<tx, mode, pc, scan, stored, records, report, calm, disk, mtime, mounted>>
    BY DEF forgetOrphan, DeleteNoteByPath, userVars
  <1>2. tx = NoTx /\ records = {}
    BY <1>1 DEF TInv, IInv, BatchOpen, Parsed
  <1>3. Scanned' = Scanned /\ p \notin Scanned
        /\ \A q : Present(q)' = Present(q) /\ Fresh(q)' = Fresh(q) /\ Reported(q)' = Reported(q)
    BY <1>1 DEF TInv, Walked, Scanned, Present, Fresh, Reported
  <1>4. \A q \in Scanned : Indexed(q) => Indexed(q)'
    BY <1>1, <1>3 DEF Indexed
  <1>5. Walked'
    BY <1>1, <1>3 DEF TInv, Walked
  <1>6. Parsed' /\ VisitsAll' /\ ParsesAll' /\ BatchKeeps'
    BY <1>1, <1>2 DEF Parsed, VisitsAll, ParsesAll, BatchKeeps
  <1>7. SweepsRest'
    BY <1>1, <1>3, <1>4 DEF TInv, SweepsRest
  <1> QED BY <1>5, <1>6, <1>7 DEF TInv

LEMMA SweepDoneTracked == ASSUME TInv, IInv', SweepDone PROVE TInv'
  <1>1. /\ pc = "sweep" /\ todo = {} /\ pc' = "graph"
        /\ UNCHANGED <<db, tx, mode, scan, stored, todo, records, report, calm, disk, mtime, mounted>>
    BY DEF SweepDone, userVars
  <1>2. tx = NoTx /\ records = {}
    BY <1>1 DEF TInv, IInv, BatchOpen, Parsed
  <1>3. Scanned' = Scanned /\ \A q : /\ Present(q)' = Present(q) /\ Indexed(q)' = Indexed(q)
                                     /\ Reported(q)' = Reported(q)
    BY <1>1 DEF Scanned, Present, Reported, Indexed, Fresh
  <1>4. Walked'
    BY <1>1, <1>3 DEF TInv, Walked
  <1>5. Parsed' /\ VisitsAll' /\ ParsesAll' /\ BatchKeeps'
    BY <1>1, <1>2 DEF Parsed, VisitsAll, ParsesAll, BatchKeeps
  <1>6. SweepsRest'
    BY <1>1, <1>3 DEF TInv, SweepsRest
  <1> QED BY <1>4, <1>5, <1>6 DEF TInv

LEMMA NextTracked == TInv /\ [Next]_vars => TInv'
  <1> SUFFICES ASSUME TInv, [Next]_vars PROVE TInv'
    OBVIOUS
  <1>1. IInv'
    BY NextInv DEF TInv
  <1>2. CASE UNCHANGED vars
    BY <1>1, <1>2, BystanderTracked DEF vars, userVars, passVars
  <1>3. CASE User
    <2>1. ASSUME NEW touched \in SUBSET Paths, Edited(touched),
                 \A p \in Paths \ touched : UNCHANGED <<disk[p], mtime[p]>>
          PROVE  TInv'
      <3>1. calm \subseteq Paths /\ calm' = calm \ touched
        BY <2>1 DEF Edited, TInv, IInv, TypeOK
      <3> QED BY <1>1, <2>1, <3>1, OutsiderTracked DEF Edited
    <2>2. CASE Mount
      BY <1>1, <2>2, OutsiderTracked DEF Mount
    <2>3. ASSUME NEW n \in Accesses, NEW id \in Keys, RecordNoteAccess(n, id) PROVE TInv'
      BY <1>1, <2>3, BystanderTracked DEF RecordNoteAccess, recordAccess, CanWrite
    <2>4. ASSUME NEW p \in Paths, NEW c \in Contents, NEW t, Edit(p, c, t) PROVE TInv'
      BY <2>1, <2>4 DEF Edit, TInv, IInv, TypeOK, UserTypeOK
    <2>5. ASSUME NEW p \in Paths, Remove(p) PROVE TInv'
      BY <2>1, <2>5 DEF Remove, TInv, IInv, TypeOK, UserTypeOK
    <2>6. ASSUME NEW p \in Paths, NEW q \in Paths, Rename(p, q) PROVE TInv'
      BY <2>1, <2>6 DEF Rename, TInv, IInv, TypeOK, UserTypeOK
    <2> QED BY <1>3, <2>2, <2>3, <2>4, <2>5, <2>6 DEF User
  <1>4. CASE IndexFile
    <2>1. ASSUME NEW k \in Callers, IndexFileStore(k) PROVE TInv'
      BY <1>1, <2>1, OutsiderTracked DEF IndexFileStore, CanWrite
    <2>2. ASSUME NEW k \in Callers, IndexFileStat(k) \/ IndexFileAbandon(k) \/ \E p \in Paths : IndexFileRead(k, p)
          PROVE  TInv'
      BY <1>1, <2>2, BystanderTracked DEF IndexFileStat, IndexFileAbandon, IndexFileRead
    <2> QED BY <1>4, <2>1, <2>2 DEF IndexFile
  <1>5. CASE PassStep
    <2>1. CASE GraphPass
      <3>1. tx' = NoTx
        BY <2>1 DEF TInv, IInv, BatchOpen, GraphPass
      <3> QED BY <1>1, <2>1, <3>1, OverTracked DEF GraphPass
    <2> QED BY <1>1, <1>5, <2>1, RebuildFileTracked, IncrementalFileTracked, SweepTracked, StoreTracked,
               IncrementalStoreTracked, BeginTracked, CommitTracked, FilesDoneTracked, SweepDoneTracked
            DEF PassStep
  <1>6. CASE Crash
    BY <1>1, <1>6, OverTracked DEF Crash
  <1>7. ASSUME NEW m \in Modes, StartPass(m) PROVE TInv'
    BY <1>1, <1>7, StartTracked
  <1> QED BY <1>2, <1>3, <1>4, <1>5, <1>6, <1>7 DEF Next

-----------------------------------------------------------------------------
(* Every note can be found, save what a Rebuild left half-done *)

LEMMA SearchableNext ==
    ASSUME IInv, EveryNoteSearchable, [Next]_vars
    PROVE  EveryNoteSearchable'
  <1>1. db \in Databases /\ Sound(db) /\ Complete(db, halved)
    BY DEF IInv, TypeOK, EveryNoteSearchable, Complete
  <1>2. CASE RebuildCommit
    BY <1>2 DEF RebuildCommit, EveryNoteSearchable
  <1>3. ASSUME halved' = halved, Complete(db', halved) PROVE EveryNoteSearchable'
    BY <1>3 DEF EveryNoteSearchable, Complete
  <1>4. CASE db' = db /\ halved' = halved
    BY <1>1, <1>3, <1>4
  <1>5. ASSUME NEW n \in Accesses, NEW id \in Keys, RecordNoteAccess(n, id) PROVE EveryNoteSearchable'
    BY <1>1, <1>3, <1>5, OtherWritesComplete DEF RecordNoteAccess, passVars
  <1>6. ASSUME NEW p \in Paths, IncrementalFile(p) PROVE EveryNoteSearchable'
    <2>1. halved' = halved
      BY <1>6 DEF IncrementalFile, AtFile
    <2>2. CASE SkipSameHash(p)
      <3>1. scan[p] \in Nat
        BY <1>6 DEF IInv, WalkKnown, IncrementalFile, AtFile
      <3> QED BY <1>1, <1>3, <2>1, <2>2, <3>1, OtherWritesComplete DEF SkipSameHash
    <2> QED BY <1>4, <1>6, <2>1, <2>2 DEF IncrementalFile, SkipUnchanged, ParseChanged, SkipUnreadable
  <1>7. ASSUME NEW rec \in records, IncrementalStore(rec) PROVE EveryNoteSearchable'
    <2>1. rec \in NoteRecords
      BY DEF IInv, TypeOK, PassTypeOK
    <2>2. halved' = halved /\ (db' = db \/ db' = StoreNote(db, rec))
      BY <1>7 DEF IncrementalStore
    <2> QED BY <1>1, <1>3, <2>1, <2>2, StoreComplete
  <1>8. ASSUME NEW k \in Callers, IndexFileStore(k) PROVE EveryNoteSearchable'
    <2>1. buildNoteRecord(call[k].path, call[k].body, call[k].mtime) \in NoteRecords
      BY <1>8, CalledRecord
    <2> QED BY <1>1, <1>3, <1>8, <2>1, StoreComplete DEF IndexFileStore, passVars
  <1>9. ASSUME NEW p \in Paths, forgetOrphan(p) PROVE EveryNoteSearchable'
    BY <1>1, <1>3, <1>9, OtherWritesComplete DEF forgetOrphan
  <1>10. CASE GraphPass
    BY <1>1, <1>3, <1>10, OtherWritesComplete DEF GraphPass, PassOver
  <1>11. CASE User
    BY <1>4, <1>5, <1>11 DEF User, Edit, Remove, Rename, Edited, Mount, passVars
  <1>12. CASE IndexFile
    BY <1>4, <1>8, <1>12 DEF IndexFile, IndexFileRead, IndexFileStat, IndexFileAbandon, passVars
  <1>13. CASE PassStep
    BY <1>2, <1>4, <1>6, <1>7, <1>9, <1>10, <1>13
       DEF PassStep, RebuildFile, SkipUnreadable, AtFile, RebuildStore, RebuildBegin, IncrementalFilesDone, SweepDone
  <1>14. CASE Crash \/ \E m \in Modes : StartPass(m)
    BY <1>4, <1>14 DEF Crash, PassOver, StartPass
  <1>15. CASE UNCHANGED vars
    BY <1>4, <1>15 DEF vars
  <1> QED BY <1>11, <1>12, <1>13, <1>14, <1>15 DEF Next

\* Whatever edits, crashes, failed stores and other writers do, a pass has
\* accounted for every file of its walk that nobody else touched and holds no row
\* at a path that stayed empty (indexer.go:572, :855), and a reader who searches
\* finds every note that has a row, save those a Rebuild committed half-stored
\* (indexer.go:648).
THEOREM NoFileEverLost == Spec => []NoFileLost
  <1>1. Init => EveryNoteSearchable
    BY DEF Init, EmptyDatabase, EveryNoteSearchable
  <1>2. TInv /\ EveryNoteSearchable /\ [Next]_vars => TInv' /\ EveryNoteSearchable'
    BY NextTracked, SearchableNext DEF TInv
  <1>3. TInv /\ EveryNoteSearchable => NoFileLost
    <2> SUFFICES ASSUME TInv PROVE AccountsForEveryFile
      BY DEF NoFileLost
    <2> QED BY DEF TInv, SweepsRest, AccountsForEveryFile, Reported, Indexed
  <1> QED BY <1>1, <1>2, <1>3, InitTracked, PTL DEF Spec

\* Without Rebuild nothing is left half-stored: where only Incremental and
\* IndexFile write, full-text search finds every note (store.go:65).
THEOREM IncrementalSearchable ==
    ASSUME "rebuild" \notin Modes
    PROVE  Spec => [](\A r \in db.notes : Searchable(db, r))
  <1> DEFINE Whole == EveryNoteSearchable /\ halved = {}
  <1>1. Init => IInv /\ Whole
    BY InitInv DEF Init, EmptyDatabase, EveryNoteSearchable
  <1>2. IInv /\ Whole /\ [Next]_vars => IInv' /\ Whole'
    <2> SUFFICES ASSUME IInv, Whole, [Next]_vars PROVE halved' = halved
      BY NextInv, SearchableNext
    <2>1. ~ RebuildCommit
      BY DEF IInv, TypeOK, PassTypeOK, RebuildCommit
    <2>2. CASE PassStep
      BY <2>1, <2>2 DEF PassStep, RebuildFile, IncrementalFile, AtFile, forgetOrphan, RebuildStore, IncrementalStore,
                        RebuildBegin, IncrementalFilesDone, SweepDone, GraphPass, PassOver
    <2>3. CASE User \/ IndexFile
      BY <2>3 DEF User, Edit, Remove, Rename, Edited, Mount, RecordNoteAccess, IndexFile, IndexFileRead,
                  IndexFileStat, IndexFileStore, IndexFileAbandon, passVars
    <2>4. CASE Crash \/ \E m \in Modes : StartPass(m)
      BY <2>4 DEF Crash, PassOver, StartPass
    <2> QED BY <2>2, <2>3, <2>4 DEF Next, vars
  <1>3. Whole => \A r \in db.notes : Searchable(db, r)
    BY DEF EveryNoteSearchable
  <1> QED BY <1>1, <1>2, <1>3, PTL DEF Spec
-----------------------------------------------------------------------------
(* What a step may take from the index *)

\* The row a store loses sight of made way for one with its id.
LEMMA StoreSupersedes ==
    ASSUME db \in Databases, Sound(db), NEW rec \in NoteRecords, db' = StoreNote(db, rec),
           NEW r \in db.notes, NoteLost(r)
    PROVE  Superseded(r)
  <1>1. db'.notes = db.notes \/ db'.notes = WithRow(db.notes, rec)
    BY StoreNoteShape
  <1> QED BY <1>1 DEF NoteLost, Superseded, WithRow

\* The writes of Incremental that are not stores keep every row at its path,
\* and every access event.
LEMMA TimeKeeps ==
    ASSUME IInv, NEW p \in Paths, IncrementalFile(p)
    PROVE  EventsKept(db, db') /\ \A r \in db.notes : ~ NoteLost(r)
  <1>1. CASE db' = db
    BY <1>1 DEF EventsKept, NoteLost
  <1>2. CASE SkipSameHash(p)
    <2>1. scan[p] \in Nat /\ db \in Databases /\ db' = UpdateMTime(db, p, scan[p])
      BY <1>2 DEF IInv, TypeOK, WalkKnown, IncrementalFile, AtFile, SkipSameHash
    <2>2. db'.acc = db.acc /\ \A s \in db.notes : \E r \in db'.notes : s.path = r.path
      BY <2>1, UpdateMTimeShape
    <2> QED BY <2>2 DEF EventsKept, NoteLost
  <1> QED BY <1>1, <1>2 DEF IncrementalFile, SkipUnchanged, ParseChanged, SkipUnreadable

LEMMA HistoryNext ==
    ASSUME TInv, [Next]_vars, NEW a \in db.acc
    PROVE  EventKept(a) \/ (pc = "sweep" /\ \E r \in db.notes : r.id = a.id /\ r.path \notin Scanned)
  <1>1. db \in Databases /\ Sound(db)
    BY DEF TInv, IInv, TypeOK
  <1>2. ASSUME EventsKept(db, db') PROVE EventKept(a)
    BY <1>2 DEF EventsKept, EventKept
  <1>3. ASSUME db'.acc = db.acc PROVE EventKept(a)
    BY <1>3 DEF EventKept
  <1>4. ASSUME NEW n \in Accesses, NEW id \in Keys, RecordNoteAccess(n, id) PROVE EventKept(a)
    BY <1>4 DEF RecordNoteAccess, recordAccess, EventKept
  <1>5. CASE RebuildCommit
    <2>1. tx # NoTx
      BY <1>5 DEF TInv, IInv, BatchOpen, RebuildCommit
    <2> QED BY <1>5, <2>1 DEF TInv, BatchKeeps, RebuildCommit, EventKept
  <1>6. ASSUME NEW p \in Paths, IncrementalFile(p) PROVE EventKept(a)
    BY <1>2, <1>6, TimeKeeps DEF TInv
  <1>7. ASSUME NEW rec \in records, IncrementalStore(rec) PROVE EventKept(a)
    <2>1. rec \in NoteRecords
      BY DEF TInv, IInv, TypeOK, PassTypeOK
    <2>2. EventsKept(db, StoreNote(db, rec))
      BY <1>1, <2>1, StoreNoteShape
    <2>3. db' = db \/ db' = StoreNote(db, rec)
      BY <1>7 DEF IncrementalStore
    <2> QED BY <1>2, <1>3, <2>2, <2>3
  <1>8. ASSUME NEW k \in Callers, IndexFileStore(k) PROVE EventKept(a)
    <2>1. buildNoteRecord(call[k].path, call[k].body, call[k].mtime) \in NoteRecords
      BY <1>8, CalledRecord DEF TInv
    <2> QED BY <1>1, <1>2, <1>8, <2>1, StoreNoteShape DEF IndexFileStore
  <1>9. ASSUME NEW p \in Paths, forgetOrphan(p)
        PROVE  EventKept(a) \/ (pc = "sweep" /\ \E r \in db.notes : r.id = a.id /\ r.path \notin Scanned)
    <2>1. pc = "sweep" /\ p \notin Scanned
      BY <1>9 DEF forgetOrphan, TInv, Walked
    <2>2. db'.acc = {b \in db.acc : b.id \notin {r.id : r \in {s \in db.notes : s.path = p}}}
      BY <1>9 DEF forgetOrphan, DeleteNoteByPath
    <2>3. CASE a \in db'.acc
      BY <2>3 DEF EventKept
    <2>4. CASE a \notin db'.acc
      <3>1. PICK r \in db.notes : r.path = p /\ r.id = a.id
        BY <2>2, <2>4
      <3> QED BY <2>1, <3>1
    <2> QED BY <2>3, <2>4
  <1>10. CASE GraphPass
    BY <1>3, <1>10 DEF GraphPass, ResolveLinks
  <1>11. CASE User
    BY <1>3, <1>4, <1>11 DEF User, Edit, Remove, Rename, Edited, Mount
  <1>12. CASE IndexFile
    BY <1>3, <1>8, <1>12 DEF IndexFile, IndexFileRead, IndexFileStat, IndexFileAbandon
  <1>13. CASE PassStep
    BY <1>3, <1>5, <1>6, <1>7, <1>9, <1>10, <1>13
       DEF PassStep, RebuildFile, SkipUnreadable, RebuildStore, RebuildBegin, IncrementalFilesDone, SweepDone
  <1>14. CASE Crash \/ \E m \in Modes : StartPass(m)
    BY <1>3, <1>14 DEF Crash, StartPass
  <1>15. CASE UNCHANGED vars
    BY <1>3, <1>15 DEF vars
  <1> QED BY <1>11, <1>12, <1>13, <1>14, <1>15 DEF Next

LEMMA NotesNext ==
    ASSUME TInv, [Next]_vars, NEW r \in db.notes, NoteLost(r)
    PROVE  Superseded(r) \/ (pc = "sweep" /\ r.path \notin Scanned /\ (r.path \in calm => disk[r.path] = Absent))
  <1>1. db \in Databases /\ Sound(db)
    BY DEF TInv, IInv, TypeOK
  <1>2. db'.notes # db.notes
    BY DEF NoteLost
  <1>3. CASE RebuildCommit
    <2>1. tx # NoTx
      BY <1>3 DEF TInv, IInv, BatchOpen, RebuildCommit
    <2> QED BY <1>3, <2>1 DEF TInv, BatchKeeps, RebuildCommit, NoteLost, Superseded
  <1>4. ASSUME NEW p \in Paths PROVE ~ IncrementalFile(p)
    BY TimeKeeps DEF TInv
  <1>5. ASSUME NEW rec \in records, IncrementalStore(rec) PROVE Superseded(r)
    <2>1. rec \in NoteRecords
      BY DEF TInv, IInv, TypeOK, PassTypeOK
    <2>2. db' = StoreNote(db, rec)
      BY <1>2, <1>5 DEF IncrementalStore
    <2> QED BY <1>1, <2>1, <2>2, StoreSupersedes
  <1>6. ASSUME NEW k \in Callers, IndexFileStore(k) PROVE Superseded(r)
    <2>1. buildNoteRecord(call[k].path, call[k].body, call[k].mtime) \in NoteRecords
      BY <1>6, CalledRecord DEF TInv
    <2> QED BY <1>1, <1>6, <2>1, StoreSupersedes DEF IndexFileStore
  <1>7. ASSUME NEW p \in Paths, forgetOrphan(p)
        PROVE  pc = "sweep" /\ r.path \notin Scanned /\ (r.path \in calm => disk[r.path] = Absent)
    <2>1. pc = "sweep" /\ p \notin Scanned /\ db'.notes = {s \in db.notes : s.path # p}
      BY <1>7 DEF forgetOrphan, DeleteNoteByPath, TInv, Walked
    <2>2. r.path = p
      BY <2>1 DEF NoteLost
    <2>3. p \in calm => mounted /\ scan[p] = IF Present(p) THEN mtime[p] ELSE Absent
      BY DEF TInv, Walked
    <2>4. mtime[p] # Absent
      BY IndexerAssumption DEF TInv, IInv, TypeOK, UserTypeOK
    <2> QED BY <2>1, <2>2, <2>3, <2>4 DEF Scanned, Present
  <1>8. ~ UNCHANGED vars /\ ~ Crash /\ \A m \in Modes : ~ StartPass(m)
    BY <1>2 DEF vars, Crash, StartPass
  <1>9. ~ User
    <2>1. ASSUME NEW n \in Accesses, NEW id \in Keys PROVE ~ RecordNoteAccess(n, id)
      <3>1. recordAccess(db, n, id).notes = db.notes
        BY DEF recordAccess
      <3> QED BY <1>2, <3>1 DEF RecordNoteAccess
    <2> QED BY <1>2, <2>1 DEF User, Edit, Remove, Rename, Edited, Mount
  <1>10. CASE IndexFile
    BY <1>2, <1>6, <1>10 DEF IndexFile, IndexFileRead, IndexFileStat, IndexFileAbandon
  <1>11. CASE PassStep
    <2>1. ~ GraphPass
      BY <1>2 DEF GraphPass, ResolveLinks
    <2>2. ~ RebuildBegin /\ ~ IncrementalFilesDone /\ ~ SweepDone
      BY <1>2 DEF RebuildBegin, IncrementalFilesDone, SweepDone
    <2>3. ASSUME NEW p \in Paths PROVE ~ RebuildFile(p)
      BY <1>2 DEF RebuildFile, SkipUnreadable
    <2>4. ASSUME NEW rec \in records PROVE ~ RebuildStore(rec)
      BY <1>2 DEF RebuildStore
    <2> QED BY <1>3, <1>4, <1>5, <1>7, <1>11, <2>1, <2>2, <2>3, <2>4 DEF PassStep
  <1> QED BY <1>8, <1>9, <1>10, <1>11 DEF Next

\* Access history outlives every reindex of its note, its renames, its changes
\* of id and its failed stores: an event disappears only when the sweep drops a
\* note whose file the walk did not find (store.go:263, migration 007).
THEOREM HistoryAlwaysKept == Spec => HistoryKept
  <1>1. TInv /\ [Next]_vars =>
          [\A a \in db.acc :
             EventKept(a) \/ (pc = "sweep" /\ \E r \in db.notes : r.id = a.id /\ r.path \notin Scanned)]_vars
    BY HistoryNext
  <1> QED BY <1>1, InitTracked, NextTracked, PTL DEF Spec, HistoryKept

\* A note's row leaves its path only for one with its id elsewhere, or in the
\* sweep of a pass that did not find its file, whatever moves or cannot be read
\* meanwhile; at a path nobody touched the file is gone, so a vault that is away
\* costs the index nothing (empty_scan.go:23, indexer.go:681).
THEOREM NoNoteEverWiped == Spec => NoNoteWiped
  <1>1. TInv /\ [Next]_vars =>
          [\A r \in db.notes : NoteLost(r) =>
             \/ Superseded(r)
             \/ pc = "sweep" /\ r.path \notin Scanned /\ (r.path \in calm => disk[r.path] = Absent)]_vars
    BY NotesNext
  <1> QED BY <1>1, InitTracked, NextTracked, PTL DEF Spec, NoNoteWiped
=============================================================================
