-------------------------------- MODULE Import --------------------------------
(***************************************************************************)
(* `vaultmind import` of a folder or of one file, and the watch that runs  *)
(* it again (src/internal/importdocs, src/cmd/import_helpers.go): documents*)
(* become notes of the vault, while people edit both and imports overlap.  *)
(*                                                                         *)
(* An import lists and reads the documents, reads every note once, and     *)
(* then plans and writes note by note from what it read.  File names are   *)
(* case-sensitive.                                                         *)
(***************************************************************************)
EXTENDS Naturals, FiniteSets

CONSTANTS
    Docs,       \* documents, numbered in the order of the walk
    Texts,      \* what a document holds: [hash, title]
    Names,      \* names of notes, of this import and of others
    Mine,       \* names in this import's folder
    Temps,      \* those of copies that are renamed to a note
    NameOf,     \* document -> the name of its note
    Fold,       \* name -> the name without regard to case
    Slug,       \* document -> the slug of its path
    Importers,  \* processes that import
    Watch,      \* the importer that --watch keeps running
    OthersId,   \* the id of a note this import did not write
    Hand,       \* a body written by hand
    NoFile,     \* no file, or no name
    TextsAtStart, \* what the documents can be at first
    NotesAtStart, \* what the notes can be at first
    MaxEdits,   \* bound: changes of documents
    MaxHands,   \* bound: changes of notes by hand
    MaxRuns     \* bound: imports

VARIABLES
    source,  \* document -> its text and the time of its last change, or NoFile
    notes,   \* name -> the note, or NoFile
    imp,     \* importer -> its import
    loop,    \* the watch
    edits,   \* changes of documents so far
    hands,   \* changes of notes by hand so far
    runs     \* imports so far

importVars == <<source, notes, imp, loop, edits, hands, runs>>

Hashes == {t.hash : t \in Texts}
Titles == {t.title : t \in Texts}

\* A slug, or a slug with a hash of the document's path.
SlugIds == {Slug[d] : d \in Docs} \X (Docs \cup {NoFile})
Ids     == SlugIds \cup {OthersId}

DocFiles == [text : Texts, stamp : Nat]

\* A note the import wrote has a source and a hash; a person's has neither.
NoteFiles == [managed : BOOLEAN, id : Ids, source : Docs \cup {NoFile}, hash : Hashes \cup {NoFile},
              title : Titles \cup {NoFile}, body : Hashes \cup {Hand}, extra : BOOLEAN]

Person == [managed |-> FALSE, id |-> OthersId, source |-> NoFile, hash |-> NoFile,
           title |-> NoFile, body |-> Hand, extra |-> TRUE]

ASSUME ImportAssumption ==
    /\ Docs \subseteq Nat /\ Temps \subseteq Mine /\ Mine \subseteq Names /\ Watch \in Importers
    /\ NameOf \in [Docs -> Mine]
    /\ IsFiniteSet(Names)
    /\ NoFile \notin Importers \cup Names \cup Texts \cup [text : Texts \cup {NoFile}, stamp : Nat] \cup NoteFiles
    /\ TextsAtStart \subseteq [Docs -> Texts \cup {NoFile}]
    /\ NotesAtStart \subseteq [Names -> NoteFiles \cup {NoFile}]

edited(n) == n.body # n.hash

First(set) == CHOOSE d \in set : \A e \in set : d <= e

ImportPcs == {"idle", "scan", "read", "plan", "rename", "write", "orphans", "remove", "finish"}

Nothing == [f \in Docs |-> NoFile]

ImportStates ==
    [pc : ImportPcs, one : BOOLEAN, force : BOOLEAN, prune : BOOLEAN, docs : [Docs -> DocFiles \cup {NoFile}],
     todo : SUBSET Docs, seen : [Names -> NoteFiles \cup {NoFile}], taken : [Ids -> Names \cup {NoFile}],
     claimed : SUBSET Mine, written : SUBSET {Fold[NameOf[d]] : d \in Docs}, from : Mine \cup {NoFile}, id : Ids,
     rest : SUBSET Mine, name : Mine \cup {NoFile}, calm : SUBSET Names,
     skipped : BOOLEAN, failed : BOOLEAN]

\* calm: names nobody else has written since the notes were read.
\* skipped: a note that could not be written or removed was reported as skipped.
\* failed: the import ended in an error.
Unstarted == [pc |-> "idle", one |-> FALSE, force |-> FALSE, prune |-> FALSE, docs |-> Nothing,
              todo |-> {}, seen |-> [n \in Names |-> NoFile], taken |-> [i \in Ids |-> NoFile],
              claimed |-> {}, written |-> {}, from |-> NoFile, id |-> OthersId, rest |-> {},
              name |-> NoFile, calm |-> {}, skipped |-> FALSE, failed |-> FALSE]

\* What a walk of the documents finds, or what stands for one that failed.
Prints == [Docs -> [text : Texts \cup {NoFile}, stamp : Nat] \cup {NoFile}]

LoopStates == [pc : {"off", "first", "print", "wait", "settle", "run"}, prev : Prints, cur : Prints,
               force : BOOLEAN, prune : BOOLEAN, missed : BOOLEAN]

\* missed: a change came during the first import, or an import ended in an error.
Off == [pc |-> "off", prev |-> Nothing, cur |-> Nothing, force |-> FALSE, prune |-> FALSE, missed |-> FALSE]

In(i, pc) == imp[i].pc = pc

ImportInit ==
    /\ \E texts \in TextsAtStart :
          source = [d \in Docs |-> IF texts[d] = NoFile THEN NoFile ELSE [text |-> texts[d], stamp |-> 0]]
    /\ notes \in NotesAtStart
    /\ imp = [i \in Importers |-> Unstarted]
    /\ loop = Off
    /\ edits = 0 /\ hands = 0 /\ runs = 0

-----------------------------------------------------------------------------
(* People *)

Changed(d, f) ==
    /\ edits < MaxEdits /\ edits' = edits + 1
    /\ source' = [source EXCEPT ![d] = f]
    /\ loop' = [loop EXCEPT !.missed = @ \/ loop.pc \in {"first", "print"}]
    /\ UNCHANGED <<notes, imp, hands, runs>>

EditDoc(d, t) == Changed(d, [text |-> t, stamp |-> edits + 1])

DeleteDoc(d) == source[d] # NoFile /\ Changed(d, NoFile)

\* The notes become new; what others have read of these names is out of date.
Rewrite(new, i) ==
    /\ notes' = new
    /\ imp' = [j \in Importers |->
                  IF j = i THEN imp[j]
                  ELSE [imp[j] EXCEPT !.calm = @ \ {n \in Names : new[n] # notes[n]}]]

ByHand(new) ==
    /\ hands < MaxHands /\ hands' = hands + 1
    /\ new # notes
    /\ Rewrite(new, NoFile)
    /\ UNCHANGED <<source, loop, edits, runs>>

\* A body, a key of the frontmatter, the file, its name; or a note of one's own.
HandEdit(n) ==
    /\ notes[n] # NoFile
    /\ \/ ByHand([notes EXCEPT ![n].body = Hand])
       \/ ByHand([notes EXCEPT ![n].extra = TRUE])
       \/ ByHand([notes EXCEPT ![n] = NoFile])
       \/ \E m \in Names : notes[m] = NoFile /\ ByHand([notes EXCEPT ![n] = NoFile, ![m] = notes[n]])

HandNote(n) ==
    /\ notes[n] = NoFile /\ \A m \in Names : notes[m] # NoFile => notes[m].id # OthersId
    /\ ByHand([notes EXCEPT ![n] = Person])

-----------------------------------------------------------------------------
(* An import *)

ImportSame == UNCHANGED <<source, loop, edits, hands, runs>>

Continue(i, next) == imp' = [imp EXCEPT ![i] = next]

\* The files to read are listed; ImportFile has one.
Begun(i, docs, one, force, prune) ==
    /\ runs < MaxRuns /\ runs' = runs + 1
    /\ Continue(i, [Unstarted EXCEPT !.pc = "scan", !.one = one, !.force = force, !.prune = prune,
                                     !.todo = docs])
    /\ UNCHANGED <<source, notes, edits, hands>>

Listed == {d \in Docs : source[d] # NoFile}

Free(i) == In(i, "idle") /\ (i = Watch => loop.pc = "off")

Import(i, force, prune) ==
    /\ Free(i)
    /\ Begun(i, Listed, FALSE, force, prune)
    /\ UNCHANGED loop

ImportFile(i, d, force) ==
    /\ Free(i) /\ source[d] # NoFile
    /\ Begun(i, {d}, TRUE, force, FALSE)
    /\ UNCHANGED loop

Fails(i) == [Unstarted EXCEPT !.failed = TRUE]

\* A document that is gone by now ends the import.
ScanDoc(i) ==
    /\ In(i, "scan") /\ imp[i].todo # {}
    /\ LET d == First(imp[i].todo)
       IN  Continue(i, IF source[d] = NoFile THEN Fails(i)
                       ELSE [imp[i] EXCEPT !.docs[d] = source[d], !.todo = @ \ {d}])
    /\ UNCHANGED notes /\ ImportSame

Found(i) == {d \in Docs : imp[i].docs[d] # NoFile}

\* A folder with nothing to import is an error.
ScanDone(i) ==
    /\ In(i, "scan") /\ imp[i].todo = {}
    /\ Continue(i, IF Found(i) = {} THEN Fails(i) ELSE [imp[i] EXCEPT !.pc = "read"])
    /\ UNCHANGED notes /\ ImportSame

\* Fault: only the ids of this import's notes are known.
takenFrom_Mine == Mine

takenFrom == Names

holders(id) == {n \in takenFrom : notes[n] # NoFile /\ notes[n].id = id}

\* Of notes that share an id, any one is taken for its holder.
readNotes(i) ==
    /\ In(i, "read")
    /\ \E any \in [{id \in Ids : Cardinality(holders(id)) > 1} -> Names] :
          /\ \A id \in DOMAIN any : any[id] \in holders(id)
          /\ LET taken(id) == IF id \in DOMAIN any THEN any[id]
                             ELSE IF holders(id) = {} THEN NoFile
                             ELSE CHOOSE n \in holders(id) : TRUE
             IN  Continue(i, [imp[i] EXCEPT !.pc = "plan", !.seen = notes, !.todo = Found(i), !.calm = Names,
                                            !.taken = [id \in Ids |-> taken(id)]])
    /\ UNCHANGED notes /\ ImportSame

\* The notes of this import, of those given, that are called n but for case.
folded(given, n) == {m \in Mine : given[m] # NoFile /\ Fold[m] = Fold[n]}

ambiguous(given, n) == n \notin folded(given, n) /\ Cardinality(folded(given, n)) > 1

existing(given, n) ==
    IF n \in folded(given, n) THEN n
    ELSE IF folded(given, n) = {} THEN NoFile
    ELSE CHOOSE m \in folded(given, n) : TRUE

Same(t, n) == n.hash = t.hash /\ n.title = t.title

\* Fault: a note is updated whether or not it was edited.
planned_Overwrite(d, t, n, force) ==
    IF n = NoFile THEN "added"
    ELSE IF ~ n.managed THEN "skipped"
    ELSE IF Same(t, n) /\ n.source = d THEN "unchanged"
    ELSE "updated"

planned(d, t, n, force) ==
    IF n = NoFile THEN "added"
    ELSE IF ~ n.managed THEN "skipped"
    ELSE IF Same(t, n) /\ n.source = d THEN "unchanged"
    ELSE IF Same(t, n) THEN "updated"
    ELSE IF edited(n) /\ ~ force THEN "conflict"
    ELSE "updated"

assignID(i, d, from, prev) ==
    IF prev # NoFile THEN prev.id
    ELSE LET holder == imp[i].taken[<<Slug[d], NoFile>>]
         IN  IF holder \notin {NoFile, from} THEN <<Slug[d], d>> ELSE <<Slug[d], NoFile>>

Doc(i) == First(imp[i].todo)

\* The state of i when its document is done with.
NextDoc(me) == [me EXCEPT !.pc = "plan", !.todo = @ \ {First(@)}, !.from = NoFile, !.id = OthersId]

\* Fault: a note that needs no write is not claimed.
claims_Written(names, write) == IF write THEN names ELSE {}

claims(names, write) == names

\* One document, from what was read: it is written, or only accounted for.
syncDoc(i) ==
    /\ In(i, "plan") /\ imp[i].todo # {}
    /\ LET d     == Doc(i)
           name  == NameOf[d]
           seen  == imp[i].seen
           from  == existing(seen, name)
           prev  == IF from = NoFile THEN NoFile ELSE seen[from]
           write == planned(d, imp[i].docs[d].text, prev, imp[i].force) \in {"added", "updated"}
           id    == assignID(i, d, from, prev)
           me    == [imp[i] EXCEPT !.written = @ \cup {Fold[name]}]
       IN  Continue(i,
             IF Fold[name] \in imp[i].written THEN NextDoc(me)
             ELSE IF ambiguous(seen, name) THEN NextDoc([me EXCEPT !.claimed = @ \cup folded(seen, name)])
             ELSE LET mine == [me EXCEPT !.claimed = @ \cup (claims({from, name}, write) \ {NoFile})]
                  IN  IF ~ write THEN NextDoc(mine)
                      ELSE [mine EXCEPT !.from = from, !.id = id, !.taken[id] = name,
                                        !.pc = IF from \in {NoFile, name} THEN "write" ELSE "rename"])
    /\ UNCHANGED notes /\ ImportSame

\* A failed rename or write skips the document, and the import goes on.  A note that was changed since
\* it was read is no calmer under its new name.
RenameNote(i) ==
    /\ In(i, "rename")
    /\ LET from == imp[i].from
           new  == [notes EXCEPT ![NameOf[Doc(i)]] = notes[from], ![from] = NoFile]
       IN  /\ notes[from] # NoFile
           /\ notes' = new
           /\ imp' = [j \in Importers |->
                         IF j = i THEN [imp[j] EXCEPT !.pc = "write",
                                                      !.calm = IF from \in @ THEN @ ELSE @ \ {NameOf[Doc(i)]}]
                         ELSE [imp[j] EXCEPT !.calm = @ \ {from, NameOf[Doc(i)]}]]
    /\ ImportSame

\* The document did not change: what a person made of the body stays.
keptBody(t, prev) == prev # NoFile /\ prev.hash = t.hash /\ edited(prev)

\* Fault: a note keeps the source it had.
sourceOf_Kept(d, prev) == IF prev = NoFile THEN d ELSE prev.source

\* The document the note says it came from.
sourceOf(d, prev) == d

render(i, d) ==
    LET t    == imp[i].docs[d].text
        prev == IF imp[i].from = NoFile THEN NoFile ELSE imp[i].seen[imp[i].from]
        body == IF keptBody(t, prev) THEN prev.body ELSE t.hash
    IN  [managed |-> TRUE, id |-> imp[i].id, source |-> sourceOf(d, prev), hash |-> t.hash, title |-> t.title,
         body |-> body, extra |-> prev # NoFile /\ prev.extra]

WriteNote(i) ==
    /\ In(i, "write")
    /\ notes' = [notes EXCEPT ![NameOf[Doc(i)]] = render(i, Doc(i))]
    /\ imp' = [j \in Importers |->
                  IF j = i THEN NextDoc(imp[j])
                  ELSE [imp[j] EXCEPT !.calm = @ \ {NameOf[Doc(i)]}]]
    /\ ImportSame

WriteFails(i) ==
    /\ In(i, "rename") \/ In(i, "write")
    /\ Continue(i, [NextDoc(imp[i]) EXCEPT !.skipped = TRUE])
    /\ UNCHANGED notes /\ ImportSame

\* The notes no document claimed.
Unclaimed(i) ==
    {n \in Mine \ imp[i].claimed : imp[i].seen[n] # NoFile /\ imp[i].seen[n].managed}

DocsDone(i) ==
    /\ In(i, "plan") /\ imp[i].todo = {}
    /\ Continue(i, IF imp[i].one THEN [imp[i] EXCEPT !.pc = "finish"]
                   ELSE [imp[i] EXCEPT !.pc = "orphans", !.rest = Unclaimed(i)])
    /\ UNCHANGED notes /\ ImportSame

\* The disk is asked again, not the scan.
docGone(d) == source[d] = NoFile

\* An orphan that was edited by hand needs --force.
Orphan(i) ==
    /\ In(i, "orphans")
    /\ \E n \in imp[i].rest :
          LET note == imp[i].seen[n]
              gone == docGone(note.source) /\ imp[i].prune /\ (imp[i].force \/ ~ edited(note))
          IN  Continue(i, [imp[i] EXCEPT !.rest = @ \ {n}, !.name = n,
                                         !.pc = IF gone THEN "remove" ELSE @])
    /\ UNCHANGED notes /\ ImportSame

RemoveNote(i) ==
    /\ In(i, "remove")
    /\ notes' = [notes EXCEPT ![imp[i].name] = NoFile]
    /\ imp' = [j \in Importers |->
                  IF j = i THEN [imp[j] EXCEPT !.pc = "orphans", !.name = NoFile]
                  ELSE [imp[j] EXCEPT !.calm = @ \ {imp[i].name}]]
    /\ ImportSame

RemoveFails(i) ==
    /\ In(i, "remove")
    /\ Continue(i, [imp[i] EXCEPT !.pc = "orphans", !.name = NoFile, !.skipped = TRUE])
    /\ UNCHANGED notes /\ ImportSame

OrphansDone(i) ==
    /\ In(i, "orphans") /\ imp[i].rest = {}
    /\ Continue(i, [imp[i] EXCEPT !.pc = "finish"])
    /\ UNCHANGED notes /\ ImportSame

\* What was written is indexed; then the import is over.
finishImport(i) ==
    /\ In(i, "finish")
    /\ Continue(i, [Unstarted EXCEPT !.docs = imp[i].docs, !.failed = imp[i].failed])
    /\ UNCHANGED notes /\ ImportSame

\* A file that cannot be read, or an index that does not take the notes.
ImportFails(i) ==
    /\ imp[i].pc \in {"scan", "read", "finish"}
    /\ Continue(i, Fails(i))
    /\ UNCHANGED notes /\ ImportSame

ImportKilled(i) ==
    /\ ~ In(i, "idle")
    /\ Continue(i, Fails(i))
    /\ loop' = IF i = Watch THEN Off ELSE loop
    /\ UNCHANGED <<source, notes, edits, hands, runs>>

\* A kill between the two halves of a write, the copy and its rename, leaves a
\* note nobody asked for, with the id of the other.  A copy cut short has none.
KilledLeavesCopy(i) ==
    /\ In(i, "write")
    /\ \E n \in Temps :
          /\ notes[n] = NoFile
          /\ notes' = [notes EXCEPT ![n] = render(i, Doc(i))]
          /\ imp' = [j \in Importers |-> IF j = i THEN Fails(i) ELSE [imp[j] EXCEPT !.calm = @ \ {n}]]
    /\ loop' = IF i = Watch THEN Off ELSE loop
    /\ UNCHANGED <<source, edits, hands, runs>>

-----------------------------------------------------------------------------
(* The watch *)

\* The digest of a walk: which documents there are, and when they changed.
Fingerprint == source

Unknown == [d \in Docs |-> [text |-> NoFile, stamp |-> 0]]

LoopAt(pc) == loop.pc = pc

\* The watch begins with an import like any other, and ends with it if it fails.
StartWatch(force, prune) ==
    /\ LoopAt("off") /\ In(Watch, "idle")
    /\ loop' = [Off EXCEPT !.pc = "first", !.force = force, !.prune = prune]
    /\ Begun(Watch, Listed, FALSE, force, prune)

LoopSame == UNCHANGED <<source, notes, imp, edits, hands, runs>>

FirstDone ==
    /\ LoopAt("first") /\ In(Watch, "idle")
    /\ loop' = IF imp[Watch].failed THEN Off ELSE [loop EXCEPT !.pc = "print"]
    /\ LoopSame

\* A walk that fails leaves a fingerprint that nothing equals.
FirstPrint ==
    /\ LoopAt("print")
    /\ \E prev \in {Fingerprint, Unknown} : loop' = [loop EXCEPT !.pc = "wait", !.prev = prev]
    /\ LoopSame

Poll ==
    /\ LoopAt("wait") /\ Fingerprint # loop.prev
    /\ loop' = [loop EXCEPT !.pc = "settle", !.cur = Fingerprint]
    /\ LoopSame

\* It has held still for an interval: the source is imported.
Settle ==
    /\ LoopAt("settle") /\ Fingerprint = loop.cur
    /\ loop' = [loop EXCEPT !.pc = "run"]
    /\ Begun(Watch, Listed, FALSE, loop.force, loop.prune)

Unsettled ==
    /\ LoopAt("settle") /\ Fingerprint # loop.cur
    /\ loop' = [loop EXCEPT !.cur = Fingerprint]
    /\ LoopSame

SettleFails == LoopAt("settle") /\ loop' = [loop EXCEPT !.pc = "wait"] /\ LoopSame

\* Fault: the fingerprint is taken anew once the import is over.
prevAfter_Anew == Fingerprint

\* The fingerprint that the import was started for.
prevAfter == loop.cur

\* Whether it failed or not: only another change runs it again.
RunDone ==
    /\ LoopAt("run") /\ In(Watch, "idle")
    /\ loop' = [loop EXCEPT !.pc = "wait", !.prev = prevAfter, !.missed = @ \/ imp[Watch].failed]
    /\ LoopSame

StopWatch ==
    /\ loop.pc \in {"wait", "settle"}
    /\ loop' = Off
    /\ LoopSame

-----------------------------------------------------------------------------

ImportStep(i) ==
    \/ ScanDoc(i) \/ ScanDone(i) \/ readNotes(i) \/ syncDoc(i) \/ RenameNote(i) \/ WriteNote(i)
    \/ DocsDone(i) \/ Orphan(i) \/ RemoveNote(i) \/ OrphansDone(i) \/ finishImport(i)

ImportTrouble(i) == WriteFails(i) \/ RemoveFails(i) \/ ImportFails(i) \/ ImportKilled(i) \/ KilledLeavesCopy(i)

WatchStep == FirstDone \/ FirstPrint \/ Poll \/ Unsettled \/ RunDone

People ==
    \/ \E d \in Docs : DeleteDoc(d) \/ \E t \in Texts : EditDoc(d, t)
    \/ \E n \in Names : HandEdit(n) \/ HandNote(n)

ImportNext ==
    \/ People
    \/ \E i \in Importers, force, prune \in BOOLEAN : Import(i, force, prune)
    \/ \E i \in Importers, d \in Docs, force \in BOOLEAN : ImportFile(i, d, force)
    \/ \E i \in Importers : ImportStep(i) \/ ImportTrouble(i)
    \/ \E force, prune \in BOOLEAN : StartWatch(force, prune)
    \/ WatchStep \/ Settle \/ SettleFails \/ StopWatch

ImportSpec == ImportInit /\ [][ImportNext]_importVars

-----------------------------------------------------------------------------
(* Properties *)

ImportTypeOK ==
    /\ source \in [Docs -> DocFiles \cup {NoFile}]
    /\ notes \in [Names -> NoteFiles \cup {NoFile}]
    /\ edits \in Nat /\ hands \in Nat /\ runs \in Nat
    /\ loop \in LoopStates
    /\ imp \in [Importers -> ImportStates]
    /\ \A i \in Importers :
          /\ imp[i].pc \in {"plan", "rename", "write"} => imp[i].todo \subseteq Found(i)
          /\ imp[i].pc \in {"rename", "write"} => imp[i].todo # {}
          /\ In(i, "rename") => imp[i].from # NoFile
          /\ In(i, "remove") => imp[i].name # NoFile

\* What a person wrote into n is still in the vault: a note of their own where
\* it was, the body of an edited one and an added key wherever it is now.
HandKept(n, i) ==
    LET old == notes[n]
    IN  /\ ~ old.managed => notes'[n] = old
        /\ edited(old) /\ ~ imp[i].force => \E m \in Names : notes'[m] # NoFile /\ notes'[m].body = old.body
        /\ old.extra => In(i, "remove") \/ \E m \in Names : notes'[m] # NoFile /\ notes'[m].extra

\* An import replaces, moves or removes no work by hand that was there when it
\* read the notes: without --force not an edited body or an added key, and
\* never a note of a person's own, whichever documents were renamed, deleted or
\* changed meanwhile (notes.go:22, importdocs.go:376, :467).
HandWorkKept ==
    [][\A i \in Importers, n \in Mine :
         /\ n \in imp[i].calm /\ notes[n] # NoFile /\ notes'[n] # notes[n]
         /\ RenameNote(i) \/ WriteNote(i) \/ RemoveNote(i)
         =>
            HandKept(n, i)]_importVars

Unique(s) ==
    \A m, n \in Names : s[m] # NoFile /\ s[n] # NoFile /\ s[m].id = s[n].id => m = n

\* An id with the hash of a document's path is on a note of that document.
HashesTrue(s) == \A n \in Names, d \in Docs : s[n] # NoFile /\ s[n].id = <<Slug[d], d>> => s[n].source = d

\* An import gives no note an id that the note of another document has, in
\* whichever folder, although paths share slugs (importdocs.go:362).  That holds
\* while an id with a hash is on its own document's note: assignID does not ask
\* whether one it makes is taken.
IdsStayApart ==
    [][\A i \in Importers :
         WriteNote(i) /\ imp[i].calm = Names /\ Unique(notes) /\ HashesTrue(notes) =>
            \A m, n \in Names :
               notes'[m] # NoFile /\ notes'[n] # NoFile /\ notes'[m].id = notes'[n].id =>
                  notes'[m].source = notes'[n].source]_importVars

\* Pruning takes no note that a document the import read is written to, nor one
\* whose own document was there from the scan on: documents that are renamed, or
\* move during the scan, keep their notes (importdocs.go:225, :405).  A document
\* is not written where an earlier one's name differs only in case.
LiveNotesKept ==
    \A i \in Importers :
        In(i, "remove") =>
            /\ \A d \in Found(i) : NameOf[d] = imp[i].name =>
                  \E e \in Found(i) : e < d /\ Fold[NameOf[e]] = Fold[NameOf[d]]
            /\ LET d == imp[i].seen[imp[i].name].source
               IN  d \in Found(i) /\ source[d] # NoFile => source[d].stamp # imp[i].docs[d].stamp

\* An import that nobody disturbed leaves nothing for the next one to write:
\* run again on the same documents it would add and update no note.
RerunSettles ==
    \A i \in Importers :
        In(i, "finish") /\ imp[i].calm = Names /\ ~ imp[i].skipped =>
            \A d \in Found(i) :
               \/ \E e \in Found(i) : e < d /\ Fold[NameOf[e]] = Fold[NameOf[d]]
               \/ ambiguous(notes, NameOf[d])
               \/ LET from == existing(notes, NameOf[d])
                  IN  /\ from # NoFile
                      /\ planned(d, imp[i].docs[d].text, notes[from], FALSE) \notin {"added", "updated"}

\* A watch that sees no change has nothing to import: its last import read the
\* documents as they are, whatever changed while it polled, settled, imported or
\* compared.  Two changes do escape it, which the model marks: one during the
\* first import, and one whose import ends in an error (watch.go:55, :75).  A
\* document that was skipped was read, and its entry says so.
WatchInStep ==
    LoopAt("wait") /\ loop.prev = Fingerprint /\ ~ loop.missed => imp[Watch].docs = source
=============================================================================
