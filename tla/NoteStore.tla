------------------------------ MODULE NoteStore ------------------------------
(***************************************************************************)
(* The tables of the derived SQLite index and what one write transaction   *)
(* does to them: src/internal/index/store.go, db.go, access.go and         *)
(* ResolveLinks of indexer.go.                                             *)
(*                                                                         *)
(* A file's bytes are an element of Contents; constant functions say what  *)
(* the parser reads out of them, and a file's SHA-256 is the element       *)
(* itself.  A path is its rank in the lexical order of the vault walk.     *)
(* A database is a record of four tables.  An operator takes a database    *)
(* and returns the one its transaction leaves.                             *)
(***************************************************************************)
EXTENDS Integers, FiniteSets

CONSTANTS
    Paths,        \* vault-relative paths, numbered in walk order
    Ids,          \* frontmatter ids
    Raws,         \* texts a link can be written with
    Contents,     \* file contents
    Accesses,     \* tokens naming recorded access events
    NoId,         \* a content without a frontmatter id (not a domain note)
    NULL,         \* SQL NULL
    PathId,       \* path -> the id "_path:<relpath>" of a file without an id
    DeclaredId,   \* content -> its frontmatter id, or NoId
    NamesOf,      \* content -> the link texts equal to its title or an alias
    LinksOf,      \* content -> the link texts in it
    StemOf,       \* path -> the link text equal to its file name less .md
    Unparsable,   \* contents parser.Parse refuses
    Unencodable   \* contents with a frontmatter value json.Marshal refuses

ASSUME NoteStoreAssumption ==
    /\ Paths \subseteq Nat
    /\ DeclaredId \in [Contents -> Ids \cup {NoId}]
    /\ NamesOf \in [Contents -> SUBSET Raws]
    /\ LinksOf \in [Contents -> SUBSET Raws]
    /\ StemOf \in [Paths -> Raws]
    /\ NoId \notin Ids /\ NULL \notin Ids
    /\ \A p \in Paths : PathId[p] \notin Ids \cup {NULL}
    /\ \A p, q \in Paths : PathId[p] = PathId[q] => p = q

-----------------------------------------------------------------------------
(* Rows *)

\* Every id a row of notes can have.
Keys == Ids \cup {PathId[p] : p \in Paths}

NoteRows == [id : Keys, path : Paths, body : Contents, mtime : Nat]
FtsRows  == [id : Keys, body : Contents]
LinkRows == [src : Keys, raw : Raws, dst : Keys \cup {NULL}, resolved : BOOLEAN]
AccRows  == [n : Accesses, id : Keys]

Databases == [notes : SUBSET NoteRows, fts : SUBSET FtsRows,
              links : SUBSET LinkRows, acc : SUBSET AccRows]

EmptyDatabase == [notes |-> {}, fts |-> {}, links |-> {}, acc |-> {}]

\* buildNoteRecord: the row of a file, keyed by its frontmatter id when it has
\* one and by its path when it has none.
NoteKey(p, c) == IF DeclaredId[c] = NoId THEN PathId[p] ELSE DeclaredId[c]

\* Fault: a file without an id is not keyed by its path.
buildNoteRecord_NoPathId(p, c, t) == [id |-> DeclaredId[c], path |-> p, body |-> c, mtime |-> t]

buildNoteRecord(p, c, t) == [id |-> NoteKey(p, c), path |-> p, body |-> c, mtime |-> t]

NoteRecords == {r \in NoteRows : r.id = NoteKey(r.path, r.body)}

IsDomain(rec) == DeclaredId[rec.body] # NoId

-----------------------------------------------------------------------------
(* Storing one note *)

\* Fault: the full-text row is forgotten.
evictOldIDDependents_KeepsFts(d, id) ==
    [d EXCEPT !.links = {l \in @ : l.src # id}]

\* The dependents of an id: its full-text row and its outbound links.  Inbound
\* links are rows of other notes and stay as they are.
evictOldIDDependents(d, id) ==
    [notes |-> d.notes,
     fts   |-> {f \in d.fts : f.id # id},
     links |-> {l \in d.links : l.src # id},
     acc   |-> d.acc]

rekeyNote(d, old, new) ==
    [notes |-> {[r EXCEPT !.id = IF @ = old THEN new ELSE @] : r \in d.notes},
     fts   |-> d.fts,
     links |-> d.links,
     acc   |-> d.acc]

\* Fault: the history goes with a replaced row.
rekeyAccesses_Cascade(d, old, new) == [d EXCEPT !.acc = {a \in @ : a.id # old}]

rekeyAccesses(d, old, new) ==
    [notes |-> d.notes,
     fts   |-> d.fts,
     links |-> d.links,
     acc   |-> {[a EXCEPT !.id = IF @ = old THEN new ELSE @] : a \in d.acc}]

\* The row a store under id `new` finds at path p keyed by another id.
Rekeyed(d, p, new) == {r \in d.notes : r.path = p /\ r.id # new}

\* UPDATE notes SET id = new trips UNIQUE(notes.id) when another path owns it.
\* The statements before it have run by then.
migrateNoteID(d, p, new) ==
    LET old   == (CHOOSE r \in Rekeyed(d, p, new) : TRUE).id
        moved == rekeyAccesses(evictOldIDDependents(d, old), old, new)
    IN  IF Rekeyed(d, p, new) = {} THEN [ok |-> TRUE, db |-> d]
        ELSE IF \E r \in d.notes : r.id = new THEN [ok |-> FALSE, db |-> moved]
        ELSE [ok |-> TRUE, db |-> rekeyNote(moved, old, new)]

upsertNote(d, rec) ==
    [notes |-> {r \in d.notes : r.id # rec.id} \cup {rec},
     fts   |-> d.fts,
     links |-> d.links,
     acc   |-> d.acc]

insertDependents(d, rec) ==
    [notes |-> d.notes,
     fts   |-> d.fts \cup {[id |-> rec.id, body |-> rec.body]},
     links |-> d.links \cup {[src |-> rec.id, raw |-> w, dst |-> NULL, resolved |-> FALSE]
                               : w \in LinksOf[rec.body]},
     acc   |-> d.acc]

\* One note into an open transaction: whether it succeeded, and what the
\* transaction then holds.  A frontmatter value that does not encode fails the
\* store after the notes row is written and before links and full text are.
StoreNoteInTx(d, rec) ==
    LET m       == migrateNoteID(d, rec.path, rec.id)
        written == upsertNote(evictOldIDDependents(m.db, rec.id), rec)
    IN  IF ~ m.ok THEN m
        ELSE IF rec.body \in Unencodable THEN [ok |-> FALSE, db |-> written]
        ELSE [ok |-> TRUE, db |-> insertDependents(written, rec)]

\* Fault: a failed store is committed.
StoreNote_NoRollback(d, rec) == StoreNoteInTx(d, rec).db

\* One note in a transaction of its own: a failure rolls it back.
StoreNote(d, rec) == LET s == StoreNoteInTx(d, rec) IN IF s.ok THEN s.db ELSE d

StoreFails(d, rec) == ~ StoreNoteInTx(d, rec).ok

-----------------------------------------------------------------------------
(* The other writes *)

\* The note at a path, everything keyed by its id, and the links of other notes
\* that pointed at it.  note_accesses goes with the row (ON DELETE CASCADE).
DeleteNoteByPath(d, p) ==
    LET ids == {r.id : r \in {s \in d.notes : s.path = p}}
    IN  [notes |-> {r \in d.notes : r.path # p},
         fts   |-> {f \in d.fts : f.id \notin ids},
         links |-> {l \in d.links : l.src \notin ids /\ l.dst \notin ids},
         acc   |-> {a \in d.acc : a.id \notin ids}]

UpdateMTime(d, p, t) ==
    [notes |-> {[r EXCEPT !.mtime = IF r.path = p THEN t ELSE @] : r \in d.notes},
     fts   |-> d.fts,
     links |-> d.links,
     acc   |-> d.acc]

recordAccess(d, n, id) ==
    [notes |-> d.notes,
     fts   |-> d.fts,
     links |-> d.links,
     acc   |-> d.acc \cup {[n |-> n, id |-> id]}]

\* The notes a link text names: by id, else by title or alias, else by file
\* name.  SQLite takes one row (LIMIT 1) of those it finds.
ByText(d, w) ==
    LET byId   == {r \in d.notes : r.id = w}
        byName == {r \in d.notes : w \in NamesOf[r.body]}
        byStem == {r \in d.notes : StemOf[r.path] = w}
    IN  IF byId # {} THEN byId ELSE IF byName # {} THEN byName ELSE byStem

\* The pass over unresolved links.  Its last statement has no condition that a
\* note matches: a link nothing matches is marked resolved with a NULL target.
ResolvedLink(d, l) ==
    IF l.resolved \/ l.dst # NULL THEN l
    ELSE [l EXCEPT !.resolved = TRUE,
                   !.dst = IF ByText(d, l.raw) = {} THEN NULL
                           ELSE (CHOOSE r \in ByText(d, l.raw) : TRUE).id]

ResolveLinks(d) ==
    [notes |-> d.notes,
     fts   |-> d.fts,
     links |-> {ResolvedLink(d, l) : l \in d.links},
     acc   |-> d.acc]

-----------------------------------------------------------------------------
(* What a database must satisfy *)

UniqueRows(d) == \A r, s \in d.notes : r.id = s.id \/ r.path = s.path => r = s

RowsKeyed(d) == \A r \in d.notes : r.id = NoteKey(r.path, r.body)

FtsSound(d) == \A f \in d.fts : \E r \in d.notes : r.id = f.id /\ r.body = f.body

LinksSound(d) ==
    \A l \in d.links : \E r \in d.notes : r.id = l.src /\ l.raw \in LinksOf[r.body]

AccessesSound(d) == \A a \in d.acc : \E r \in d.notes : r.id = a.id

Sound(d) ==
    /\ UniqueRows(d) /\ RowsKeyed(d)
    /\ FtsSound(d) /\ LinksSound(d) /\ AccessesSound(d)

Searchable(d, r) == [id |-> r.id, body |-> r.body] \in d.fts
=============================================================================
