------------------------------- MODULE Indexer -------------------------------
(***************************************************************************)
(* The indexer over the note store (src/internal/index/indexer.go): a      *)
(* Rebuild or Incremental pass, an IndexFile call of another process, a    *)
(* user who edits, renames and deletes notes while they run, readers that  *)
(* record accesses, a vault that is away for a while, and a pass killed at *)
(* any point.                                                              *)
(*                                                                         *)
(* A pass reads each file, and stores it, in separate steps, because other *)
(* processes act in between.  What one SQLite transaction or one scan does *)
(* is one step.                                                            *)
(***************************************************************************)
EXTENDS NoteStore

CONSTANTS
    Absent,        \* no file at a path
    Unread,        \* no call of IndexFile is under way
    NoTx,          \* no batch transaction is open
    NoTime,        \* IndexFile has not looked at the modification time yet
    Modes,         \* the passes that are run: "rebuild", "incremental"
    Callers,       \* concurrent IndexFile calls
    Flaky,         \* paths whose file, although there, may fail to be read
    SameSecond,    \* whether two writes of a file can share a second
    Born,          \* path -> modification time of the file there at first
    FirstClock,    \* the second the history starts in
    MaxClock,      \* bound: seconds
    MaxEdits       \* bound: edits of the vault by its user

ASSUME IndexerAssumption ==
    /\ Modes \subseteq {"rebuild", "incremental"} /\ Flaky \subseteq Paths
    /\ FirstClock \in Nat /\ MaxClock \in Nat /\ MaxEdits \in Nat
    /\ Born \in [Paths -> Nat] /\ \A p \in Paths : Born[p] <= FirstClock
    /\ Absent \notin Contents \cup Nat /\ NoTx \notin Databases
    /\ NoTime \notin Nat

VARIABLES
    disk,       \* path -> its content, or Absent
    mtime,      \* path -> modification time, in whole seconds
    clock,      \* the current second
    edits,      \* how many edits the user made
    mounted,    \* whether the walk of the vault root sees anything
    db,         \* the committed database
    tx,         \* what Rebuild's batch transaction holds, or NoTx
    mode,       \* the pass that runs
    pc,         \* where it is: "idle", "files", "store", "sweep" or "graph"
    scan,       \* the pass's walk: path -> modification time, or Absent
    stored,     \* the rows of notes as the pass loaded them
    todo,       \* paths the current loop has still to visit
    records,    \* note records parsed and not stored yet
    report,     \* duplicates and errors of the pass
    call,       \* IndexFile call -> what it has read, or Unread
    calm,       \* paths nobody but the pass has touched since it began
    halved      \* history: ids a Rebuild committed without their full text

userVars == <<disk, mtime, clock, edits, mounted>>
passVars == <<mode, pc, scan, stored, todo, records, report, halved>>
vars == <<disk, mtime, clock, edits, mounted, db, tx, mode, pc, scan, stored,
          todo, records, report, call, calm, halved>>

NoReport == [dups |-> {}, errs |-> {}]

Present(p) == mounted /\ disk[p] # Absent

Scanned == {p \in Paths : scan[p] # Absent}

Error(p) == report' = [report EXCEPT !.errs = @ \cup {p}]

\* SQLite's single writer: an open batch transaction holds the write lock.
CanWrite == tx = NoTx

Init ==
    /\ disk \in [Paths -> Contents \cup {Absent}]
    /\ mtime = Born
    /\ clock = FirstClock /\ edits = 0 /\ mounted = TRUE
    /\ db = EmptyDatabase /\ tx = NoTx
    /\ mode \in Modes /\ pc = "idle"
    /\ scan = [p \in Paths |-> Absent]
    /\ stored = {} /\ todo = {} /\ records = {}
    /\ report = NoReport
    /\ call = [k \in Callers |-> Unread]
    /\ calm = {}
    /\ halved = {}

-----------------------------------------------------------------------------
(* The vault's user and its readers *)

\* The second a write of a file is stamped with.
Stamp(t) == t \in {clock + 1} \cup (IF SameSecond THEN {clock} ELSE {}) /\ t <= MaxClock

Edited(touched) ==
    /\ mounted /\ edits < MaxEdits
    /\ edits' = edits + 1
    /\ calm' = calm \ touched
    /\ UNCHANGED <<mounted, db, tx, call>> /\ UNCHANGED passVars

Edit(p, c, t) ==
    /\ disk[p] # c /\ Stamp(t)
    /\ disk' = [disk EXCEPT ![p] = c]
    /\ mtime' = [mtime EXCEPT ![p] = t]
    /\ clock' = t
    /\ Edited({p})

Remove(p) ==
    /\ disk[p] # Absent
    /\ disk' = [disk EXCEPT ![p] = Absent]
    /\ UNCHANGED <<mtime, clock>>
    /\ Edited({p})

\* A rename keeps the modification time and replaces what was at q.
Rename(p, q) ==
    /\ p # q /\ disk[p] # Absent
    /\ disk' = [disk EXCEPT ![q] = disk[p], ![p] = Absent]
    /\ mtime' = [mtime EXCEPT ![q] = mtime[p]]
    /\ UNCHANGED clock
    /\ Edited({p, q})

\* The volume goes away or comes back; the files keep what they hold.
Mount ==
    /\ edits < MaxEdits
    /\ mounted' = ~ mounted
    /\ edits' = edits + 1
    /\ calm' = {}
    /\ UNCHANGED <<disk, mtime, clock, db, tx, call>> /\ UNCHANGED passVars

RecordNoteAccess(n, id) ==
    /\ CanWrite
    /\ \A a \in db.acc : a.n # n
    /\ \E r \in db.notes : r.id = id
    /\ db' = recordAccess(db, n, id)
    /\ UNCHANGED <<tx, call, calm>> /\ UNCHANGED userVars /\ UNCHANGED passVars

-----------------------------------------------------------------------------
(* A pass: the walk *)

\* Fault: the guard is dropped.
refuseWipeOnEmptyScan_Never == FALSE

\* The walk saw nothing and the index holds notes: the pass returns an error.
refuseWipeOnEmptyScan == ~ mounted /\ db.notes # {}

StartPass(m) ==
    /\ pc = "idle"
    /\ ~ refuseWipeOnEmptyScan
    /\ mode' = m /\ pc' = "files"
    /\ scan' = [p \in Paths |-> IF Present(p) THEN mtime[p] ELSE Absent]
    /\ stored' = IF m = "incremental" THEN db.notes ELSE {}
    /\ todo' = {p \in Paths : Present(p)}
    /\ records' = {} /\ report' = NoReport
    /\ calm' = Paths
    /\ UNCHANGED <<db, tx, call, halved>> /\ UNCHANGED userVars

\* The loop visits p, the first file of the walk it has not visited yet.
AtFile(p) ==
    /\ pc = "files"
    /\ p \in todo /\ \A q \in todo : p <= q
    /\ todo' = todo \ {p}
    /\ UNCHANGED <<tx, mode, scan, stored, call, calm, halved>> /\ UNCHANGED userVars

\* A file that cannot be read, if only for a moment, or does not parse is
\* counted and passed over.
SkipUnreadable(p) ==
    /\ p \in Flaky \/ ~ Present(p) \/ disk[p] \in Unparsable
    /\ Error(p)
    /\ UNCHANGED <<db, pc, records>>

-----------------------------------------------------------------------------
(* Rebuild *)

\* A second file with the id of one already parsed is skipped: the first of
\* the walk wins.
RebuildFile(p) ==
    /\ mode = "rebuild" /\ AtFile(p)
    /\ \/ SkipUnreadable(p)
       \/ /\ Present(p) /\ disk[p] \notin Unparsable
          /\ LET rec  == buildNoteRecord(p, disk[p], scan[p])
                 seen == {r \in records : IsDomain(rec) /\ r.id = rec.id}
             IN  IF seen = {}
                 THEN records' = records \cup {rec} /\ UNCHANGED report
                 ELSE /\ report' = [report EXCEPT !.dups = @ \cup {<<r.path, p>> : r \in seen}]
                      /\ UNCHANGED records
          /\ UNCHANGED <<db, pc>>

RebuildBegin ==
    /\ mode = "rebuild" /\ pc = "files" /\ todo = {}
    /\ pc' = "store" /\ tx' = db
    /\ UNCHANGED <<db, mode, scan, stored, todo, records, report, call, calm, halved>>
    /\ UNCHANGED userVars

\* A note that fails to store is counted; what its statements did stays in the
\* batch transaction, and the loop goes on.
RebuildStore(rec) ==
    /\ mode = "rebuild" /\ pc = "store"
    /\ rec \in records /\ \A r \in records : rec.path <= r.path
    /\ tx' = StoreNoteInTx(tx, rec).db
    /\ IF StoreFails(tx, rec) THEN Error(rec.path) ELSE UNCHANGED report
    /\ records' = records \ {rec}
    /\ UNCHANGED <<db, mode, pc, scan, stored, todo, call, calm, halved>> /\ UNCHANGED userVars

\* The commit, and the rows whose path the walk did not see.
RebuildCommit ==
    /\ mode = "rebuild" /\ pc = "store" /\ records = {}
    /\ db' = tx /\ tx' = NoTx
    /\ halved' = {r.id : r \in {s \in tx.notes : ~ Searchable(tx, s)}}
    /\ pc' = "sweep" /\ todo' = {r.path : r \in tx.notes} \ Scanned
    /\ UNCHANGED <<mode, scan, stored, records, report, call, calm>> /\ UNCHANGED userVars

-----------------------------------------------------------------------------
(* Incremental *)

Fresh(p) == {r \in stored : r.path = p /\ r.mtime = scan[p]}

\* The modification time is the one stored: the file is not read.
SkipUnchanged(p) ==
    /\ Fresh(p) # {}
    /\ UNCHANGED <<db, pc, records, report>>

\* The hash is the one stored: only the time is written.
SkipSameHash(p) ==
    /\ Fresh(p) = {} /\ Present(p)
    /\ \E r \in stored : r.path = p /\ r.body = disk[p]
    /\ db' = UpdateMTime(db, p, scan[p])
    /\ UNCHANGED <<pc, records, report>>

ParseChanged(p) ==
    /\ Fresh(p) = {} /\ Present(p) /\ disk[p] \notin Unparsable
    /\ \A r \in stored : r.path = p => r.body # disk[p]
    /\ records' = {buildNoteRecord(p, disk[p], scan[p])}
    /\ pc' = "store"
    /\ UNCHANGED <<db, report>>

IncrementalFile(p) ==
    /\ mode = "incremental" /\ AtFile(p)
    /\ \/ SkipUnchanged(p)
       \/ SkipSameHash(p)
       \/ ParseChanged(p)
       \/ Fresh(p) = {} /\ SkipUnreadable(p)

\* Fault: a path that is gone still counts as a holder.
duplicateIDHolder_Gone(rec) == {r.path : r \in {s \in db.notes : s.id = rec.id /\ s.path # rec.path}}

\* The path that holds the record's id, when it is another one and its file
\* was on disk when the pass walked.
duplicateIDHolder(rec) ==
    {r.path : r \in {s \in db.notes : s.id = rec.id /\ s.path # rec.path /\ s.path \in Scanned}}

IncrementalStore(rec) ==
    /\ mode = "incremental" /\ pc = "store" /\ rec \in records
    /\ IF IsDomain(rec) /\ duplicateIDHolder(rec) # {}
       THEN /\ report' = [report EXCEPT !.dups = @ \cup {<<h, rec.path>> : h \in duplicateIDHolder(rec)}]
            /\ UNCHANGED db
       ELSE /\ db' = StoreNote(db, rec)
            /\ IF StoreFails(db, rec) THEN Error(rec.path) ELSE UNCHANGED report
    /\ records' = {} /\ pc' = "files"
    /\ UNCHANGED <<tx, mode, scan, stored, todo, call, calm, halved>> /\ UNCHANGED userVars

IncrementalFilesDone ==
    /\ mode = "incremental" /\ pc = "files" /\ todo = {}
    /\ pc' = "sweep" /\ todo' = {r.path : r \in stored} \ Scanned
    /\ UNCHANGED <<db, tx, mode, scan, stored, records, report, call, calm, halved>>
    /\ UNCHANGED userVars

-----------------------------------------------------------------------------
(* The end of both passes *)

\* A path whose row has moved already has nothing left to delete.
forgetOrphan(p) ==
    /\ pc = "sweep" /\ p \in todo
    /\ todo' = todo \ {p}
    /\ db' = DeleteNoteByPath(db, p)
    /\ UNCHANGED <<tx, mode, pc, scan, stored, records, report, call, calm, halved>>
    /\ UNCHANGED userVars

SweepDone ==
    /\ pc = "sweep" /\ todo = {} /\ pc' = "graph"
    /\ UNCHANGED <<db, tx, mode, scan, stored, todo, records, report, call, calm, halved>>
    /\ UNCHANGED userVars

\* The pass returns, or its process dies: what it held in memory is gone.
PassOver ==
    /\ pc' = "idle" /\ scan' = [p \in Paths |-> Absent]
    /\ stored' = {} /\ todo' = {} /\ records' = {} /\ report' = NoReport
    /\ calm' = {}
    /\ UNCHANGED <<mode, call, halved>> /\ UNCHANGED userVars

GraphPass ==
    /\ pc = "graph"
    /\ db' = ResolveLinks(db)
    /\ UNCHANGED tx
    /\ PassOver

\* An open transaction is rolled back.
Crash ==
    /\ pc # "idle"
    /\ tx' = NoTx
    /\ UNCHANGED db
    /\ PassOver

-----------------------------------------------------------------------------
(* IndexFile, in another process: it reads the file, then asks for its time *)

IndexFileRead(k, p) ==
    /\ call[k] = Unread /\ Present(p) /\ disk[p] \notin Unparsable
    /\ call' = [call EXCEPT ![k] = [path |-> p, body |-> disk[p], mtime |-> NoTime]]
    /\ UNCHANGED <<db, tx, calm>> /\ UNCHANGED userVars /\ UNCHANGED passVars

IndexFileStat(k) ==
    /\ call[k] # Unread /\ call[k].mtime = NoTime
    /\ LET p == call[k].path
       IN  call' = [call EXCEPT ![k] = IF Present(p) THEN [@ EXCEPT !.mtime = mtime[p]] ELSE Unread]
    /\ UNCHANGED <<db, tx, calm>> /\ UNCHANGED userVars /\ UNCHANGED passVars

\* It asks no one whether another file holds the id.
IndexFileStore(k) ==
    /\ call[k] # Unread /\ call[k].mtime # NoTime /\ CanWrite
    /\ db' = StoreNote(db, buildNoteRecord(call[k].path, call[k].body, call[k].mtime))
    /\ call' = [call EXCEPT ![k] = Unread]
    /\ calm' = {}
    /\ UNCHANGED tx /\ UNCHANGED userVars /\ UNCHANGED passVars

\* The write lock is held past busy_timeout, or the process dies.
IndexFileAbandon(k) ==
    /\ call[k] # Unread
    /\ call' = [call EXCEPT ![k] = Unread]
    /\ UNCHANGED <<db, tx, calm>> /\ UNCHANGED userVars /\ UNCHANGED passVars

-----------------------------------------------------------------------------

User ==
    \/ \E p \in Paths, c \in Contents, t \in 0..MaxClock : Edit(p, c, t)
    \/ \E p \in Paths : Remove(p)
    \/ \E p, q \in Paths : Rename(p, q)
    \/ Mount
    \/ \E n \in Accesses, id \in Keys : RecordNoteAccess(n, id)

PassStep ==
    \/ \E p \in Paths : RebuildFile(p) \/ IncrementalFile(p) \/ forgetOrphan(p)
    \/ \E rec \in records : RebuildStore(rec) \/ IncrementalStore(rec)
    \/ RebuildBegin \/ RebuildCommit \/ IncrementalFilesDone
    \/ SweepDone \/ GraphPass

IndexFile ==
    \E k \in Callers :
        \/ \E p \in Paths : IndexFileRead(k, p)
        \/ IndexFileStat(k)
        \/ IndexFileStore(k)
        \/ IndexFileAbandon(k)

Next == User \/ (\E m \in Modes : StartPass(m)) \/ PassStep \/ Crash \/ IndexFile

Spec == Init /\ [][Next]_vars

-----------------------------------------------------------------------------
(* Properties *)

UserTypeOK ==
    /\ disk \in [Paths -> Contents \cup {Absent}] /\ mtime \in [Paths -> Nat]
    /\ clock \in Nat /\ edits \in Nat /\ mounted \in BOOLEAN

PassTypeOK ==
    /\ mode \in Modes /\ pc \in {"idle", "files", "store", "sweep", "graph"}
    /\ scan \in [Paths -> Nat \cup {Absent}]
    /\ stored \subseteq NoteRows /\ todo \subseteq Paths /\ records \subseteq NoteRecords
    /\ report \in [dups : SUBSET (Paths \X Paths), errs : SUBSET Paths]
    /\ halved \subseteq Keys

CallTypeOK ==
    call \in [Callers -> {Unread} \cup [path : Paths, body : Contents, mtime : Nat \cup {NoTime}]]

TypeOK ==
    /\ UserTypeOK /\ PassTypeOK /\ CallTypeOK
    /\ db \in Databases /\ tx \in Databases \cup {NoTx}
    /\ calm \subseteq Paths

\* Whatever edits, renames, id changes, failed stores, crashes and concurrent
\* writers do, the committed tables agree: one row per id and per path, keyed
\* by the id its content declares; full text, links and access history only of
\* notes that have a row, and with that row's text (store.go:89, :263, :321).
IndexSound == Sound(db)

\* "StoreNote deletes all existing rows for the note, then inserts fresh rows
\* into every table within a single transaction" (store.go:62): full-text search
\* finds every note that has a row, except what a Rebuild committed without it:
\* its batch keeps what a failed store left behind (indexer.go:648).
EveryNoteSearchable == \A r \in db.notes : r.id \in halved \/ Searchable(db, r)

\* When a pass has swept, each file of its walk that nobody else touched
\* meanwhile, whatever moved beside it, is indexed with the content it has, or is
\* reported as an error or as a duplicate of another file the walk found; and no
\* row is left at a path that stayed empty (indexer.go:572, :855).  Only a row that
\* had the file's modification time when Incremental began may be left as it was:
\* the file is not read (indexer.go:795).
AccountsForEveryFile ==
    pc = "graph" =>
        /\ \A p \in Scanned \cap calm :
              \/ p \in report.errs
              \/ \E h \in Scanned : <<h, p>> \in report.dups
              \/ \E r \in db.notes : r.path = p /\ (r.body = disk[p] \/ r \in Fresh(p))
        /\ \A r \in db.notes : r.path \in calm => r.path \in Scanned

\* No file is lost track of, neither by a pass nor by a reader who searches.
NoFileLost == AccountsForEveryFile /\ EveryNoteSearchable

\* A note's row disappears from its path only if its id has moved to another
\* path, or the sweep of a pass whose walk did not find the file takes it: no
\* step of a pass or of another process costs the index a file that the walk
\* found, whatever moves meanwhile and whether or not the file could be read
\* (indexer.go:681).  At a path nobody touched since the walk the file is gone,
\* and not only the vault away for a while (empty_scan.go:23).
NoteLost(r) == r \in db.notes /\ \A s \in db'.notes : s.path # r.path
Superseded(r) == \E s \in db'.notes : s.id = r.id /\ s.path # r.path
NoNoteWiped ==
    [][\A r \in db.notes : NoteLost(r) =>
         \/ Superseded(r)
         \/ pc = "sweep" /\ r.path \notin Scanned /\ (r.path \in calm => disk[r.path] = Absent)]_vars

\* Access history outlives every reindex of its note, its renames and its
\* changes of id: an event disappears only when the sweep drops a note whose
\* file the walk did not find (store.go:263, migration 007).
EventKept(a) == \E b \in db'.acc : b.n = a.n
HistoryKept ==
    [][\A a \in db.acc :
         EventKept(a) \/ (pc = "sweep" /\ \E r \in db.notes : r.id = a.id /\ r.path \notin Scanned)]_vars

-----------------------------------------------------------------------------
(* What the source says of itself and does not keep *)

\* "Some wikilinks point to notes that don't exist - those must stay
\* unresolved" (resolve_links_test.go:96): a link without a target is not
\* marked resolved, so a later pass can still resolve it.
UnmatchedStaysUnresolved == \A l \in db.links : l.resolved => l.dst # NULL

\* "Any note still in the index whose source file is no longer in the scan -
\* deleted from disk, or newly matched by vault.exclude ... is removed"
\* (indexer.go:676): the sweep takes no note whose file is there.
SweptIsGone ==
    [][\A r \in db.notes : NoteLost(r) /\ pc = "sweep" => disk[r.path] = Absent]_vars
=============================================================================
