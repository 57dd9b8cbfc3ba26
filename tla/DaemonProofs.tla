---------------------------- MODULE DaemonProofs -----------------------------
(***************************************************************************)
(* What holds of the two programs that run until they are stopped: the     *)
(* watch of an import (Import), for any documents, notes, importers and    *)
(* numbers of edits, and the warm server (Serve), for any clients, servers *)
(* and timeouts.                                                           *)
(*                                                                         *)
(* Import: every state is well typed. Step is the invariant of the watch:  *)
(* what its import has read, against the fingerprint it will keep. Sound   *)
(* is that of each import: which documents it is done with, which notes    *)
(* they claim, and which notes still are as it read them.                  *)
(*                                                                         *)
(* Serve: no ask is run twice but in the window the code names. What makes *)
(* it inductive is who holds a connection: a request that runs and was not *)
(* started late is one whose client still waits for it with its start byte *)
(* in hand, or one whose client has left for good.                         *)
(***************************************************************************)
EXTENDS Import, Serve, FiniteSetTheorems, WellFoundedInduction, TLAPS

-----------------------------------------------------------------------------
(* Import: the first of a set *)

LEMMA FirstLeast ==
    ASSUME NEW S, S \subseteq Nat, S # {} PROVE First(S) \in S /\ \A y \in S : First(S) <= y
<1>1. \E x \in S : \A y \in S : ~ (<<y, x>> \in OpToRel(<, Nat))
  BY NatLessThanWellFounded, WFMin
<1>2. PICK x \in S : \A y \in S : ~ (y < x)
  BY <1>1 DEF OpToRel
<1>3. \A y \in S : x <= y
  BY <1>2
<1> QED BY <1>3 DEF First

LEMMA FirstIn == ASSUME NEW S, S \subseteq Nat, S # {} PROVE First(S) \in S
BY FirstLeast

-----------------------------------------------------------------------------
(* Import: types *)

\* What may be true of an import where it is.
Placed(m) ==
    /\ m.pc \in {"plan", "rename", "write"} => m.todo \subseteq {d \in Docs : m.docs[d] # NoFile}
    /\ m.pc \in {"rename", "write"} => m.todo # {}
    /\ m.pc = "rename" => m.from # NoFile
    /\ m.pc = "remove" => m.name # NoFile

LEMMA PlacedIs ==
    ImportTypeOK <=>
        /\ source \in [Docs -> DocFiles \cup {NoFile}]
        /\ notes \in [Names -> NoteFiles \cup {NoFile}]
        /\ edits \in Nat /\ hands \in Nat /\ runs \in Nat
        /\ loop \in LoopStates
        /\ imp \in [Importers -> ImportStates]
        /\ \A i \in Importers : Placed(imp[i])
BY DEF ImportTypeOK, Placed, In, Found

LEMMA UnstartedTyped ==
    ASSUME ImportAssumption
    PROVE  /\ Unstarted \in ImportStates /\ Placed(Unstarted)
           /\ \A docs \in [Docs -> DocFiles \cup {NoFile}], failed \in BOOLEAN :
                 LET m == [Unstarted EXCEPT !.docs = docs, !.failed = failed]
                 IN  m \in ImportStates /\ Placed(m)
           /\ \A i \in Importers : Fails(i) \in ImportStates /\ Placed(Fails(i))
<1>1. Unstarted \in ImportStates /\ Placed(Unstarted)
  BY DEF Unstarted, ImportStates, ImportPcs, Placed, Nothing, Ids
<1>2. ASSUME NEW docs \in [Docs -> DocFiles \cup {NoFile}], NEW failed \in BOOLEAN
      PROVE  LET m == [Unstarted EXCEPT !.docs = docs, !.failed = failed]
             IN  m \in ImportStates /\ Placed(m)
  BY ZenonT(60), <1>1, <1>2 DEF Unstarted, ImportStates, ImportPcs, Placed, Nothing, Ids
<1>3. ASSUME NEW i \in Importers PROVE Fails(i) \in ImportStates /\ Placed(Fails(i))
  BY <1>1 DEF Fails, Unstarted, ImportStates, ImportPcs, Placed, Nothing, Ids
<1> QED BY <1>1, <1>2, <1>3

LEMMA ImportTypeInit == ASSUME ImportAssumption, ImportInit PROVE ImportTypeOK
<1>1. source \in [Docs -> DocFiles \cup {NoFile}]
  <2>1. PICK texts \in [Docs -> Texts \cup {NoFile}] :
           source = [d \in Docs |-> IF texts[d] = NoFile THEN NoFile ELSE [text |-> texts[d], stamp |-> 0]]
    BY DEF ImportInit, ImportAssumption
  <2>2. \A t \in Texts : [text |-> t, stamp |-> 0] \in DocFiles
    BY DEF DocFiles
  <2>3. \A d \in Docs : texts[d] # NoFile => texts[d] \in Texts
    BY <2>1
  <2> QED BY <2>1, <2>2, <2>3
<1>2. loop \in LoopStates
  BY DEF ImportInit, Off, LoopStates, Prints, Nothing
<1> QED BY <1>1, <1>2, PlacedIs, UnstartedTyped DEF ImportInit, ImportAssumption

\* What an importer does to its own state.
LEMMA ContinueTyped ==
    ASSUME ImportTypeOK, NEW i \in Importers, NEW m \in ImportStates, Placed(m), Continue(i, m)
    PROVE  imp' \in [Importers -> ImportStates] /\ \A j \in Importers : Placed(imp'[j])
BY PlacedIs DEF Continue

\* What the others notice while it changes the notes.
Disturbed(j, S) == [imp[j] EXCEPT !.calm = @ \ S]

LEMMA CalmTyped ==
    ASSUME ImportTypeOK, NEW j \in Importers, NEW S
    PROVE  Disturbed(j, S) \in ImportStates /\ Placed(Disturbed(j, S))
<1>1. imp[j] \in ImportStates /\ Placed(imp[j])
  BY PlacedIs
<1> DEFINE calm == imp[j].calm \ S
           k == [imp[j] EXCEPT !.calm = calm]
<1>2. calm \in SUBSET Names
  BY <1>1 DEF ImportStates
<1> HIDE DEF calm
<1>3. k \in ImportStates /\ k.pc = imp[j].pc /\ k.todo = imp[j].todo /\ k.docs = imp[j].docs
      /\ k.from = imp[j].from /\ k.name = imp[j].name
  BY <1>1, <1>2 DEF ImportStates
<1>4. k = Disturbed(j, S)
  BY DEF calm, Disturbed
<1> HIDE DEF k
<1>5. k \in ImportStates /\ Placed(k)
  BY <1>1, <1>3 DEF Placed
<1> QED BY <1>4, <1>5

LEMMA PeopleTyped == ASSUME ImportAssumption, ImportTypeOK, People PROVE ImportTypeOK'
<1> USE PlacedIs
<1>1. ASSUME NEW d \in Docs, NEW f \in DocFiles \cup {NoFile}, Changed(d, f) PROVE ImportTypeOK'
  <2>1. source' \in [Docs -> DocFiles \cup {NoFile}]
    BY <1>1 DEF Changed
  <2>2. loop' \in LoopStates
    <3>1. loop \in LoopStates /\ (loop.missed \/ loop.pc \in {"first", "print"}) \in BOOLEAN
      OBVIOUS
    <3> QED BY <1>1, <3>1 DEF Changed, LoopStates
  <2> QED BY <1>1, <2>1, <2>2 DEF Changed, ImportTypeOK, In, Found
<1>2. ASSUME NEW new \in [Names -> NoteFiles \cup {NoFile}], ByHand(new) PROVE ImportTypeOK'
  <2>2. NoFile \in Importers => imp[NoFile] \in ImportStates /\ Placed(imp[NoFile])
    OBVIOUS
  <2> DEFINE S == {n \in Names : new[n] # notes[n]}
             m == imp[NoFile]
  <2>3. imp' = [j \in Importers |-> IF j = NoFile THEN m ELSE Disturbed(j, S)]
    BY <1>2 DEF ByHand, Rewrite, Disturbed
  <2> HIDE DEF S
  <2>4. imp' \in [Importers -> ImportStates] /\ \A j \in Importers : Placed(imp'[j])
    <3> HIDE DEF m
    <3>1. NoFile \in Importers => m \in ImportStates /\ Placed(m)
      BY <2>2 DEF m
    <3>2. \A j \in Importers : /\ imp'[j] \in ImportStates
                              /\ Placed(imp'[j])
      BY <2>3, <3>1, CalmTyped
    <3>3. imp' = [j \in Importers |-> imp'[j]]
      BY <2>3
    <3> QED BY <3>2, <3>3
  <2>5. /\ source' \in [Docs -> DocFiles \cup {NoFile}] /\ notes' \in [Names -> NoteFiles \cup {NoFile}]
        /\ edits' \in Nat /\ hands' \in Nat /\ runs' \in Nat /\ loop' \in LoopStates
    BY <1>2 DEF ByHand, Rewrite
  <2> QED BY <2>4, <2>5 DEF ImportTypeOK, Placed, In, Found
<1>3. ASSUME NEW d \in Docs, DeleteDoc(d) \/ \E t \in Texts : EditDoc(d, t) PROVE ImportTypeOK'
  <2>1. \A t \in Texts : [text |-> t, stamp |-> edits + 1] \in DocFiles
    BY DEF DocFiles
  <2> QED BY <1>1, <1>3, <2>1 DEF DeleteDoc, EditDoc
<1>4. ASSUME NEW n \in Names, HandEdit(n) PROVE ImportTypeOK'
  <2>1. notes[n] \in NoteFiles
    BY <1>4 DEF HandEdit
  <2>2. [notes[n] EXCEPT !.body = Hand] \in NoteFiles /\ [notes[n] EXCEPT !.extra = TRUE] \in NoteFiles
    BY <2>1 DEF NoteFiles
  <2>3. PICK new \in [Names -> NoteFiles \cup {NoFile}] : ByHand(new)
    <3>1. CASE ByHand([notes EXCEPT ![n].body = Hand])
      <4>1. [notes EXCEPT ![n].body = Hand] \in [Names -> NoteFiles \cup {NoFile}]
        BY <2>2
      <4> QED BY <3>1, <4>1
    <3>2. CASE ByHand([notes EXCEPT ![n].extra = TRUE])
      <4>1. [notes EXCEPT ![n].extra = TRUE] \in [Names -> NoteFiles \cup {NoFile}]
        BY <2>2
      <4> QED BY <3>2, <4>1
    <3>3. CASE ByHand([notes EXCEPT ![n] = NoFile])
      <4>1. [notes EXCEPT ![n] = NoFile] \in [Names -> NoteFiles \cup {NoFile}]
        OBVIOUS
      <4> QED BY <3>3, <4>1
    <3>4. CASE \E m \in Names : notes[m] = NoFile /\ ByHand([notes EXCEPT ![n] = NoFile, ![m] = notes[n]])
      <4>1. \A m \in Names : [notes EXCEPT ![n] = NoFile, ![m] = notes[n]] \in [Names -> NoteFiles \cup {NoFile}]
        BY <2>1
      <4> QED BY <3>4, <4>1
    <3> QED BY <1>4, <3>1, <3>2, <3>3, <3>4 DEF HandEdit
  <2> QED BY <1>2, <2>3
<1>5. ASSUME NEW n \in Names, HandNote(n) PROVE ImportTypeOK'
  <2>1. [notes EXCEPT ![n] = Person] \in [Names -> NoteFiles \cup {NoFile}]
    BY DEF Person, NoteFiles, Ids
  <2> QED BY <1>2, <1>5, <2>1 DEF HandNote
<1> QED BY <1>3, <1>4, <1>5 DEF People

SomeBegun ==
    \E i \in Importers, docs \in SUBSET Docs, one, force, prune \in BOOLEAN : Begun(i, docs, one, force, prune)

LEMMA BegunTyped == ASSUME ImportAssumption, ImportTypeOK, loop' \in LoopStates, SomeBegun PROVE ImportTypeOK'
<1>0. PICK i \in Importers, docs \in SUBSET Docs, one \in BOOLEAN, force \in BOOLEAN, prune \in BOOLEAN :
         Begun(i, docs, one, force, prune)
  BY DEF SomeBegun
<1> DEFINE m == [Unstarted EXCEPT !.pc = "scan", !.one = one, !.force = force, !.prune = prune, !.todo = docs]
<1>1. m \in ImportStates /\ m.pc = "scan"
  BY ZenonT(60) DEF Unstarted, Nothing, Ids, ImportStates, ImportPcs
<1>2. Placed(m)
  BY <1>1 DEF Placed
<1>3. Continue(i, m)
  BY <1>0 DEF Begun
<1> HIDE DEF m
<1> QED BY <1>0, <1>1, <1>2, <1>3, ContinueTyped, PlacedIs DEF Begun, ImportTypeOK, Placed, In, Found

\* What a step of an import leaves typed: its notes and its own state.
LEMMA StepTyped ==
    ASSUME ImportTypeOK, notes' \in [Names -> NoteFiles \cup {NoFile}], ImportSame,
           imp' \in [Importers -> ImportStates], \A j \in Importers : Placed(imp'[j])
    PROVE  ImportTypeOK'
BY DEF ImportTypeOK, ImportSame, Placed, In, Found

LEMMA ScanTyped ==
    ASSUME ImportAssumption, ImportTypeOK, NEW i \in Importers,
           \/ ScanDoc(i) \/ ScanDone(i) \/ readNotes(i) \/ DocsDone(i) \/ Orphan(i) \/ OrphansDone(i)
           \/ finishImport(i)
    PROVE  ImportTypeOK'
<1>1. imp[i] \in ImportStates /\ Placed(imp[i]) /\ notes \in [Names -> NoteFiles \cup {NoFile}]
  BY PlacedIs
<1>2. SUFFICES \E m \in ImportStates : Placed(m) /\ Continue(i, m)
  <2>1. UNCHANGED notes /\ ImportSame
    BY DEF ScanDoc, ScanDone, readNotes, DocsDone, Orphan, OrphansDone, finishImport
  <2> QED BY <1>1, <1>2, <2>1, ContinueTyped, StepTyped
<1>3. CASE ScanDoc(i)
  <2> DEFINE d == First(imp[i].todo)
             m == [imp[i] EXCEPT !.docs[d] = source[d], !.todo = @ \ {d}]
  <2>1. d \in imp[i].todo
    BY <1>1, <1>3, FirstIn DEF ScanDoc, ImportStates, ImportAssumption
  <2>2. d \in Docs /\ source[d] \in DocFiles \cup {NoFile}
    BY <1>1, <2>1, PlacedIs DEF ImportStates
  <2> HIDE DEF d
  <2>3. m \in ImportStates /\ m.pc = imp[i].pc
    BY <1>1, <2>2 DEF ImportStates
  <2>4. Placed(m)
    BY <1>3, <2>3 DEF ScanDoc, In, Placed
  <2>5. Continue(i, m) \/ Continue(i, Fails(i))
    BY <1>3 DEF ScanDoc, d
  <2> QED BY <2>3, <2>4, <2>5, UnstartedTyped
<1>4. CASE ScanDone(i)
  <2> DEFINE m == [imp[i] EXCEPT !.pc = "read"]
  <2>1. m \in ImportStates /\ Placed(m)
    BY <1>1 DEF ImportStates, ImportPcs, Placed
  <2> QED BY <1>4, <2>1, UnstartedTyped DEF ScanDone
<1>5. CASE readNotes(i)
  <2>1. PICK any \in [{id \in Ids : Cardinality(holders(id)) > 1} -> Names] :
           Continue(i, [imp[i] EXCEPT !.pc = "plan", !.seen = notes, !.todo = Found(i), !.calm = Names,
              !.taken = [id \in Ids |-> IF id \in DOMAIN any THEN any[id]
                                       ELSE IF holders(id) = {} THEN NoFile
                                       ELSE CHOOSE n \in holders(id) : TRUE]])
    BY <1>5 DEF readNotes
  <2> DEFINE taken == [id \in Ids |-> IF id \in DOMAIN any THEN any[id]
                                     ELSE IF holders(id) = {} THEN NoFile
                                     ELSE CHOOSE n \in holders(id) : TRUE]
             m == [imp[i] EXCEPT !.pc = "plan", !.seen = notes, !.todo = Found(i), !.calm = Names, !.taken = taken]
  <2>2. \A id \in Ids : holders(id) # {} => (CHOOSE n \in holders(id) : TRUE) \in Names
    BY DEF holders, takenFrom
  <2>3. taken \in [Ids -> Names \cup {NoFile}]
    BY <2>2
  <2> HIDE DEF taken
  <2>4. Found(i) \in SUBSET Docs
    BY DEF Found
  <2>5. m \in ImportStates /\ m.pc = "plan" /\ m.todo = Found(i) /\ m.docs = imp[i].docs
    BY <1>1, <2>3, <2>4 DEF ImportStates, ImportPcs
  <2>6. Continue(i, m)
    BY <2>1 DEF taken
  <2> HIDE DEF m
  <2> QED BY <2>5, <2>6 DEF Placed, Found
<1>6. CASE DocsDone(i)
  <2>1. Unclaimed(i) \in SUBSET Mine
    BY DEF Unclaimed
  <2>2. /\ [imp[i] EXCEPT !.pc = "finish"] \in ImportStates
        /\ [imp[i] EXCEPT !.pc = "orphans", !.rest = Unclaimed(i)] \in ImportStates
    BY <1>1, <2>1 DEF ImportStates, ImportPcs
  <2>3. Placed([imp[i] EXCEPT !.pc = "finish"]) /\ Placed([imp[i] EXCEPT !.pc = "orphans", !.rest = Unclaimed(i)])
    BY <1>1 DEF ImportStates, Placed
  <2> QED BY <1>6, <2>2, <2>3 DEF DocsDone
<1>7. CASE Orphan(i)
  <2>1. PICK n \in imp[i].rest, pc \in {"remove", "orphans"} :
           Continue(i, [imp[i] EXCEPT !.rest = @ \ {n}, !.name = n, !.pc = pc])
    <3>1. PICK n \in imp[i].rest :
             LET note == imp[i].seen[n]
                 gone == docGone(note.source) /\ imp[i].prune /\ (imp[i].force \/ ~ edited(note))
             IN  Continue(i, [imp[i] EXCEPT !.rest = @ \ {n}, !.name = n, !.pc = IF gone THEN "remove" ELSE @])
      BY <1>7 DEF Orphan
    <3>2. imp[i].pc = "orphans"
      BY <1>7 DEF Orphan, In
    <3> QED BY <3>1, <3>2
  <2> DEFINE m == [imp[i] EXCEPT !.rest = @ \ {n}, !.name = n, !.pc = pc]
  <2>2. n \in Mine /\ n # NoFile
    BY <1>1 DEF ImportStates, ImportAssumption
  <2>3. m \in ImportStates /\ m.pc = pc /\ m.name = n
    BY <1>1, <2>2 DEF ImportStates, ImportPcs
  <2>4. Continue(i, m)
    BY <2>1
  <2> HIDE DEF m
  <2> QED BY <2>2, <2>3, <2>4 DEF Placed
<1>8. CASE OrphansDone(i)
  <2>1. [imp[i] EXCEPT !.pc = "finish"] \in ImportStates /\ Placed([imp[i] EXCEPT !.pc = "finish"])
    BY <1>1 DEF ImportStates, ImportPcs, Placed
  <2> QED BY <1>8, <2>1 DEF OrphansDone
<1>9. CASE finishImport(i)
  <2>1. imp[i].docs \in [Docs -> DocFiles \cup {NoFile}] /\ imp[i].failed \in BOOLEAN
    BY <1>1 DEF ImportStates
  <2> QED BY <1>9, <2>1, UnstartedTyped DEF finishImport
<1> QED BY <1>3, <1>4, <1>5, <1>6, <1>7, <1>8, <1>9

\* A document's note is looked for among those that were read.
LEMMA ExistingIn ==
    ASSUME NEW given, NEW n
    PROVE  /\ folded(given, n) \subseteq Mine
           /\ existing(given, n) # NoFile => existing(given, n) \in Mine /\ given[existing(given, n)] # NoFile
<1>1. folded(given, n) \subseteq Mine /\ \A m \in folded(given, n) : given[m] # NoFile
  BY DEF folded
<1>2. folded(given, n) # {} => (CHOOSE m \in folded(given, n) : TRUE) \in folded(given, n)
  OBVIOUS
<1> QED BY <1>1, <1>2 DEF existing

LEMMA DocIn ==
    ASSUME ImportAssumption, ImportTypeOK, NEW i \in Importers, imp[i].todo # {}
    PROVE  Doc(i) \in imp[i].todo /\ Doc(i) \in Docs /\ NameOf[Doc(i)] \in Mine
<1>1. imp[i].todo \subseteq Docs
  BY DEF ImportTypeOK, ImportStates
<1>2. Doc(i) \in imp[i].todo
  BY <1>1, FirstIn DEF Doc, ImportAssumption
<1> QED BY <1>1, <1>2 DEF ImportAssumption

\* A later state of an import that has read its documents.
Further(m, old) == m.docs = old.docs /\ m.failed = old.failed /\ m.pc # "scan"

LEMMA NextDocTyped ==
    ASSUME NEW m \in ImportStates, m.todo \subseteq {d \in Docs : m.docs[d] # NoFile}
    PROVE  NextDoc(m) \in ImportStates /\ Placed(NextDoc(m)) /\ Further(NextDoc(m), m) /\ NextDoc(m).pc = "plan"
<1>1. NextDoc(m) \in ImportStates
  BY DEF NextDoc, ImportStates, ImportPcs, Ids
<1>2. /\ NextDoc(m).pc = "plan" /\ NextDoc(m).docs = m.docs /\ NextDoc(m).todo \subseteq m.todo
      /\ NextDoc(m).failed = m.failed
  BY DEF NextDoc, ImportStates
<1> QED BY <1>1, <1>2 DEF Placed, Further

LEMMA SyncLeaves ==
    ASSUME ImportAssumption, ImportTypeOK, NEW i \in Importers, syncDoc(i)
    PROVE  \E m \in ImportStates :
              Placed(m) /\ Further(m, imp[i]) /\ Continue(i, m) /\ m.pc \in {"plan", "rename", "write"}
<1>1. imp[i] \in ImportStates /\ Placed(imp[i]) /\ notes \in [Names -> NoteFiles \cup {NoFile}]
  BY PlacedIs
<1>3. /\ imp[i].pc = "plan" /\ imp[i].todo # {}
      /\ imp[i].todo \subseteq {d \in Docs : imp[i].docs[d] # NoFile}
  BY <1>1 DEF syncDoc, In, Placed
<1>4. PICK d \in Docs, name \in Mine : d = Doc(i) /\ name = NameOf[d]
  BY <1>3, DocIn
<1> DEFINE seen  == imp[i].seen
           from  == existing(seen, name)
           prev  == IF from = NoFile THEN NoFile ELSE seen[from]
           write == planned(d, imp[i].docs[d].text, prev, imp[i].force) \in {"added", "updated"}
           id    == assignID(i, d, from, prev)
           named == claims({from, name}, write) \ {NoFile}
           pc    == IF from \in {NoFile, name} THEN "write" ELSE "rename"
           me    == [imp[i] EXCEPT !.written = @ \cup {Fold[name]}]
           many  == [me EXCEPT !.claimed = @ \cup folded(seen, name)]
           mine  == [me EXCEPT !.claimed = @ \cup named]
           next  == [mine EXCEPT !.from = from, !.id = id, !.taken[id] = name, !.pc = pc]
<1>5. Continue(i, IF Fold[name] \in imp[i].written THEN NextDoc(me)
                  ELSE IF ambiguous(seen, name) THEN NextDoc(many)
                  ELSE IF ~ write THEN NextDoc(mine) ELSE next)
  BY <1>4 DEF syncDoc
<1>6. seen \in [Names -> NoteFiles \cup {NoFile}] /\ Mine \subseteq Names
  BY <1>1 DEF ImportStates, ImportAssumption
<1>7. folded(seen, name) \subseteq Mine /\ from \in Mine \cup {NoFile} /\ (from # NoFile => seen[from] # NoFile)
  BY ExistingIn
<1>8. id \in Ids
  <2>1. CASE prev # NoFile
    <3>1. prev \in NoteFiles
      BY <1>6, <1>7, <2>1
    <3>2. id = prev.id
      BY <2>1 DEF assignID
    <3> QED BY <3>1, <3>2 DEF NoteFiles
  <2>2. CASE prev = NoFile
    <3>1. id \in {<<Slug[d], d>>, <<Slug[d], NoFile>>}
      BY <2>2 DEF assignID
    <3>2. <<Slug[d], d>> \in SlugIds /\ <<Slug[d], NoFile>> \in SlugIds
      BY DEF SlugIds
    <3> QED BY <3>1, <3>2 DEF Ids
  <2> QED BY <2>1, <2>2
<1>9. named \subseteq Mine
  BY <1>7 DEF claims
<1>10. pc \in {"write", "rename"} /\ (pc = "rename" => from # NoFile)
  OBVIOUS
<1> HIDE DEF seen, from, prev, write, id, named, pc
<1>11. me \in ImportStates /\ me.docs = imp[i].docs /\ me.todo = imp[i].todo /\ me.failed = imp[i].failed
  <2>1. imp[i].written \cup {Fold[name]} \subseteq {Fold[NameOf[e]] : e \in Docs}
    BY <1>1, <1>4 DEF ImportStates
  <2> QED BY <1>1, <2>1 DEF ImportStates
<1> HIDE DEF me
<1>12. many \in ImportStates /\ many.docs = imp[i].docs /\ many.todo = imp[i].todo /\ many.failed = imp[i].failed
  BY <1>7, <1>11 DEF ImportStates
<1>13. mine \in ImportStates /\ mine.docs = imp[i].docs /\ mine.todo = imp[i].todo /\ mine.failed = imp[i].failed
  BY <1>9, <1>11 DEF ImportStates
<1> HIDE DEF many, mine
<1>14. /\ next \in ImportStates /\ next.docs = imp[i].docs /\ next.todo = imp[i].todo /\ next.pc = pc
       /\ next.from = from /\ next.failed = imp[i].failed
  <2> DEFINE taken == [mine.taken EXCEPT ![id] = name]
  <2>1. taken \in [Ids -> Names \cup {NoFile}]
    BY <1>6, <1>8, <1>13 DEF ImportStates
  <2>2. next = [mine EXCEPT !.from = from, !.id = id, !.taken = taken, !.pc = pc]
    BY <1>13 DEF ImportStates
  <2> HIDE DEF taken, next
  <2> QED BY ZenonT(60), <1>7, <1>8, <1>10, <1>13, <2>1, <2>2 DEF ImportStates, ImportPcs
<1> HIDE DEF next
<1>15. Placed(next) /\ Further(next, imp[i])
  BY <1>3, <1>10, <1>14 DEF Placed, Further
<1>16. \A m \in {me, many, mine} :
          /\ NextDoc(m) \in ImportStates /\ Placed(NextDoc(m)) /\ Further(NextDoc(m), imp[i])
          /\ NextDoc(m).pc = "plan"
  BY <1>3, <1>11, <1>12, <1>13, NextDocTyped DEF Further
<1> QED BY <1>5, <1>10, <1>14, <1>15, <1>16

LEMMA SyncTyped == ASSUME ImportAssumption, ImportTypeOK, NEW i \in Importers, syncDoc(i) PROVE ImportTypeOK'
<1>1. UNCHANGED notes /\ ImportSame /\ notes \in [Names -> NoteFiles \cup {NoFile}]
  BY PlacedIs DEF syncDoc
<1> QED BY <1>1, SyncLeaves, ContinueTyped, StepTyped

\* What an importer that changes the notes leaves.
Leaves(i, m, S) == imp' = [j \in Importers |-> IF j = i THEN m ELSE Disturbed(j, S)]

LEMMA ChangeTyped ==
    ASSUME ImportTypeOK, NEW i \in Importers, NEW m \in ImportStates, Placed(m), NEW S,
           notes' \in [Names -> NoteFiles \cup {NoFile}], ImportSame,
           Leaves(i, m, S)
    PROVE  ImportTypeOK'
<1>1. \A j \in Importers : imp'[j] \in ImportStates /\ Placed(imp'[j])
  BY CalmTyped DEF Leaves
<1>2. imp' \in [Importers -> ImportStates]
  <2>1. imp' = [j \in Importers |-> imp'[j]]
    BY DEF Leaves
  <2> QED BY <1>1, <2>1
<1> QED BY <1>1, <1>2, StepTyped

\* The note that is written is of its document as it was read.
LEMMA RenderIs ==
    ASSUME ImportAssumption, ImportTypeOK, NEW i \in Importers, In(i, "write")
    PROVE  LET note == render(i, Doc(i))
           IN  /\ note \in NoteFiles /\ note.managed /\ note.id = imp[i].id /\ note.source = Doc(i)
               /\ Same(imp[i].docs[Doc(i)].text, note)
<1>1. imp[i] \in ImportStates /\ imp[i].todo # {} /\ imp[i].todo \subseteq {d \in Docs : imp[i].docs[d] # NoFile}
  BY PlacedIs DEF In, Placed
<1>2. PICK d \in Docs : d = Doc(i) /\ imp[i].docs[d] \in DocFiles
  BY <1>1, DocIn DEF ImportStates
<1> DEFINE t    == imp[i].docs[d].text
           prev == IF imp[i].from = NoFile THEN NoFile ELSE imp[i].seen[imp[i].from]
           body == IF keptBody(t, prev) THEN prev.body ELSE t.hash
           extra == prev # NoFile /\ prev.extra
<1>3. t \in Texts /\ t.hash \in Hashes /\ t.title \in Titles
  BY <1>2 DEF DocFiles, Hashes, Titles
<1>4. prev \in NoteFiles \cup {NoFile}
  BY <1>1 DEF ImportStates
<1>5. body \in Hashes \cup {Hand}
  BY <1>3, <1>4 DEF keptBody, NoteFiles
<1>6. extra \in BOOLEAN
  OBVIOUS
<1>7. imp[i].id \in Ids
  BY <1>1 DEF ImportStates
<1>8. render(i, d) = [managed |-> TRUE, id |-> imp[i].id, source |-> d, hash |-> t.hash, title |-> t.title,
                      body |-> body, extra |-> extra]
  BY DEF render, sourceOf
<1> HIDE DEF body, extra
<1>9. render(i, d) \in NoteFiles
  <2> HIDE DEF t
  <2> QED BY <1>3, <1>5, <1>6, <1>7, <1>8 DEF NoteFiles
<1>10. /\ render(i, d).managed /\ render(i, d).id = imp[i].id /\ render(i, d).source = d
       /\ Same(t, render(i, d))
  BY <1>8 DEF Same
<1> QED BY <1>2, <1>9, <1>10

LEMMA WriteTyped ==
    ASSUME ImportAssumption, ImportTypeOK, NEW i \in Importers,
           RenameNote(i) \/ WriteNote(i) \/ RemoveNote(i) \/ WriteFails(i) \/ RemoveFails(i)
    PROVE  ImportTypeOK'
<1>1. /\ imp[i] \in ImportStates /\ Placed(imp[i]) /\ notes \in [Names -> NoteFiles \cup {NoFile}]
      /\ Mine \subseteq Names
  BY PlacedIs DEF ImportAssumption
<1>2. CASE RenameNote(i)
  <2>1. imp[i].pc = "rename" /\ imp[i].todo # {} /\ imp[i].from \in Mine
        /\ imp[i].todo \subseteq {d \in Docs : imp[i].docs[d] # NoFile}
    BY <1>1, <1>2 DEF RenameNote, In, Placed, ImportStates
  <2> DEFINE calm == IF imp[i].from \in imp[i].calm THEN imp[i].calm ELSE imp[i].calm \ {NameOf[Doc(i)]}
             m == [imp[i] EXCEPT !.pc = "write", !.calm = calm]
             S == {imp[i].from, NameOf[Doc(i)]}
  <2>2. m \in ImportStates /\ Placed(m)
    <3>1. calm \in SUBSET Names
      BY <1>1 DEF ImportStates
    <3> HIDE DEF calm
    <3> QED BY <1>1, <2>1, <3>1 DEF ImportStates, ImportPcs, Placed
  <2>3. notes' \in [Names -> NoteFiles \cup {NoFile}]
    BY <1>1, <1>2, <2>1, DocIn DEF RenameNote
  <2>4. Leaves(i, m, S)
    BY <1>2 DEF RenameNote, Disturbed, Leaves
  <2> HIDE DEF m, S
  <2>8. ImportSame
    BY <1>2 DEF RenameNote
  <2> QED BY <2>2, <2>3, <2>4, <2>8, ChangeTyped
<1>3. CASE WriteNote(i)
  <2>1. imp[i].pc = "write" /\ imp[i].todo # {} /\ imp[i].todo \subseteq {d \in Docs : imp[i].docs[d] # NoFile}
    BY <1>1, <1>3 DEF WriteNote, In, Placed
  <2>2. PICK d \in Docs : d = Doc(i) /\ imp[i].docs[d] \in DocFiles
    BY <1>1, <2>1, DocIn DEF ImportStates
  <2>3. render(i, d) \in NoteFiles
    BY <1>3, <2>2, RenderIs DEF WriteNote
  <2> DEFINE m == NextDoc(imp[i])
             S == {NameOf[Doc(i)]}
  <2>4. m \in ImportStates /\ Placed(m)
    BY <1>1, <2>1, NextDocTyped
  <2>5. notes' \in [Names -> NoteFiles \cup {NoFile}]
    BY <1>1, <1>3, <2>2, <2>3 DEF WriteNote
  <2>6. Leaves(i, m, S)
    BY <1>3 DEF WriteNote, Disturbed, Leaves
  <2> HIDE DEF m, S
  <2>8. ImportSame
    BY <1>3 DEF WriteNote
  <2> QED BY <2>4, <2>5, <2>6, <2>8, ChangeTyped
<1>4. CASE RemoveNote(i)
  <2> DEFINE m == [imp[i] EXCEPT !.pc = "orphans", !.name = NoFile]
             S == {imp[i].name}
  <2>1. m \in ImportStates /\ Placed(m)
    BY <1>1 DEF ImportStates, ImportPcs, Placed
  <2>2. notes' \in [Names -> NoteFiles \cup {NoFile}]
    BY <1>1, <1>4 DEF RemoveNote
  <2>3. Leaves(i, m, S)
    BY <1>4 DEF RemoveNote, Disturbed, Leaves
  <2> HIDE DEF m, S
  <2>8. ImportSame
    BY <1>4 DEF RemoveNote
  <2> QED BY <2>1, <2>2, <2>3, <2>8, ChangeTyped
<1>5. CASE WriteFails(i)
  <2>1. imp[i].todo \subseteq {d \in Docs : imp[i].docs[d] # NoFile}
    BY <1>1, <1>5 DEF WriteFails, In, Placed
  <2> DEFINE k == NextDoc(imp[i])
             m == [k EXCEPT !.skipped = TRUE]
  <2>2. k \in ImportStates /\ Placed(k)
    BY <1>1, <2>1, NextDocTyped
  <2> HIDE DEF k
  <2>3. m \in ImportStates /\ Placed(m)
    BY <2>2 DEF ImportStates, Placed
  <2>4. Continue(i, m)
    BY <1>5 DEF WriteFails, k
  <2> HIDE DEF m
  <2> QED BY <1>1, <1>5, <2>3, <2>4, ContinueTyped, StepTyped DEF WriteFails
<1>6. CASE RemoveFails(i)
  <2> DEFINE m == [imp[i] EXCEPT !.pc = "orphans", !.name = NoFile, !.skipped = TRUE]
  <2>1. m \in ImportStates /\ Placed(m)
    BY <1>1 DEF ImportStates, ImportPcs, Placed
  <2>2. Continue(i, m)
    BY <1>6 DEF RemoveFails
  <2> HIDE DEF m
  <2> QED BY <1>1, <1>6, <2>1, <2>2, ContinueTyped, StepTyped DEF RemoveFails
<1> QED BY <1>2, <1>3, <1>4, <1>5, <1>6

\* A walk is a print.
LEMMA PrintTyped ==
    ASSUME ImportTypeOK PROVE Fingerprint \in Prints /\ Unknown \in Prints /\ Nothing \in Prints /\ Off \in LoopStates
<1>1. DocFiles \subseteq [text : Texts \cup {NoFile}, stamp : Nat]
  BY DEF DocFiles
<1>2. source \in Prints
  BY <1>1, PlacedIs DEF Prints
<1>3. Unknown \in Prints /\ Nothing \in Prints
  BY DEF Unknown, Nothing, Prints
<1>4. Off \in LoopStates
  BY <1>3 DEF Off, LoopStates
<1> QED BY <1>2, <1>3, <1>4 DEF Fingerprint

LEMMA EndTyped ==
    ASSUME ImportAssumption, ImportTypeOK, NEW i \in Importers, ImportFails(i) \/ ImportKilled(i) PROVE ImportTypeOK'
<1>1. Continue(i, Fails(i))
  BY DEF ImportFails, ImportKilled
<1>2. loop' \in LoopStates /\ UNCHANGED <<source, notes, edits, hands, runs>>
  <2>1. loop \in LoopStates /\ Off \in LoopStates
    BY PlacedIs, PrintTyped
  <2>2. CASE ImportFails(i)
    BY <2>1, <2>2 DEF ImportFails, ImportSame
  <2>3. CASE ImportKilled(i)
    BY <2>1, <2>3 DEF ImportKilled
  <2> QED BY <2>2, <2>3
<1>3. imp' \in [Importers -> ImportStates] /\ \A j \in Importers : Placed(imp'[j])
  BY <1>1, UnstartedTyped, ContinueTyped
<1>4. UNCHANGED <<notes, runs>>
  BY DEF ImportFails, ImportKilled, ImportSame
<1> QED BY <1>2, <1>3, <1>4 DEF ImportTypeOK, Placed, In, Found

LEMMA CopyTyped ==
    ASSUME ImportAssumption, ImportTypeOK, NEW i \in Importers, KilledLeavesCopy(i) PROVE ImportTypeOK'
<1>1. PICK n \in Temps :
         /\ notes' = [notes EXCEPT ![n] = render(i, Doc(i))]
         /\ imp' = [j \in Importers |-> IF j = i THEN Fails(i) ELSE [imp[j] EXCEPT !.calm = @ \ {n}]]
  BY DEF KilledLeavesCopy
<1>2. notes' \in [Names -> NoteFiles \cup {NoFile}]
  <2>1. render(i, Doc(i)) \in NoteFiles
    BY RenderIs DEF KilledLeavesCopy
  <2> QED BY <1>1, <2>1, PlacedIs
<1>3. ASSUME NEW j \in Importers PROVE imp'[j] \in ImportStates /\ Placed(imp'[j])
  <2>1. CASE j = i
    BY <1>1, <2>1, UnstartedTyped
  <2>2. CASE j # i
    <3>1. imp'[j] = Disturbed(j, {n})
      BY <1>1, <2>2 DEF Disturbed
    <3> QED BY <3>1, CalmTyped
  <2> QED BY <2>1, <2>2
<1>4. imp' \in [Importers -> ImportStates]
  <2>1. imp' = [j \in Importers |-> imp'[j]]
    BY <1>1
  <2> QED BY <1>3, <2>1
<1>5. loop' \in LoopStates /\ UNCHANGED <<source, edits, hands, runs>>
  BY PlacedIs, PrintTyped DEF KilledLeavesCopy
<1>6. /\ source \in [Docs -> DocFiles \cup {NoFile}]
      /\ edits \in Nat /\ hands \in Nat /\ runs \in Nat
  BY PlacedIs
<1> QED BY <1>2, <1>3, <1>4, <1>5, <1>6 DEF ImportTypeOK, Placed, In, Found

LEMMA WatchTyped ==
    ASSUME ImportAssumption, ImportTypeOK,
           \/ \E force, prune \in BOOLEAN : StartWatch(force, prune)
           \/ WatchStep \/ Settle \/ SettleFails \/ StopWatch
    PROVE  ImportTypeOK'
<1>1. loop \in LoopStates /\ Watch \in Importers /\ Listed \in SUBSET Docs
  BY PlacedIs DEF ImportAssumption, Listed
<1>2. loop' \in LoopStates
  <2>1. CASE \E force, prune \in BOOLEAN : StartWatch(force, prune)
    BY <2>1, PrintTyped DEF StartWatch, LoopStates
  <2>2. CASE FirstDone \/ StopWatch
    BY <1>1, <2>2, PrintTyped DEF FirstDone, StopWatch, LoopStates
  <2>3. CASE FirstPrint
    <3>1. PICK prev \in {Fingerprint, Unknown} : loop' = [loop EXCEPT !.pc = "wait", !.prev = prev]
      BY <2>3 DEF FirstPrint
    <3>2. prev \in Prints
      BY <3>1, PrintTyped
    <3> QED BY <1>1, <3>1, <3>2 DEF LoopStates
  <2>4. CASE Poll \/ Unsettled
    BY <1>1, <2>4, PrintTyped DEF Poll, Unsettled, LoopStates
  <2>5. CASE Settle \/ SettleFails
    BY <1>1, <2>5 DEF Settle, SettleFails, LoopStates
  <2>6. CASE RunDone
    <3>1. (loop.missed \/ imp[Watch].failed) \in BOOLEAN
      OBVIOUS
    <3> QED BY <1>1, <2>6, <3>1 DEF RunDone, prevAfter, LoopStates
  <2> QED BY <2>1, <2>2, <2>3, <2>4, <2>5, <2>6 DEF WatchStep
<1>3. CASE Settle
  <2>1. loop.force \in BOOLEAN /\ loop.prune \in BOOLEAN
    BY <1>1 DEF LoopStates
  <2>2. Begun(Watch, Listed, FALSE, loop.force, loop.prune)
    BY <1>3 DEF Settle
  <2>3. FALSE \in BOOLEAN
    OBVIOUS
  <2>4. SomeBegun
    <3> USE <1>1, <2>1, <2>3 DEF SomeBegun
    <3> WITNESS Watch \in Importers, Listed \in SUBSET Docs, FALSE \in BOOLEAN, loop.force \in BOOLEAN,
                loop.prune \in BOOLEAN
    <3> QED BY <2>2
  <2> QED BY <1>2, <2>4, BegunTyped
<1>4. CASE \E force, prune \in BOOLEAN : StartWatch(force, prune)
  <2>1. PICK force, prune \in BOOLEAN : Begun(Watch, Listed, FALSE, force, prune)
    BY <1>4, Zenon DEF StartWatch
  <2>2. SomeBegun
    <3> USE <1>1 DEF SomeBegun
    <3> WITNESS Watch \in Importers, Listed \in SUBSET Docs, FALSE \in BOOLEAN, force \in BOOLEAN, prune \in BOOLEAN
    <3> QED BY <2>1
  <2> QED BY <1>2, <2>2, BegunTyped
<1>5. CASE LoopSame
  BY <1>2, <1>5 DEF LoopSame, ImportTypeOK, In, Found
<1> QED BY <1>3, <1>4, <1>5 DEF WatchStep, FirstDone, FirstPrint, Poll, Unsettled, RunDone, SettleFails, StopWatch

LEMMA ImportTypeStep == ASSUME ImportAssumption, ImportTypeOK, [ImportNext]_importVars PROVE ImportTypeOK'
<1>1. CASE People
  BY <1>1, PeopleTyped
<1>2. CASE \/ \E i \in Importers, force, prune \in BOOLEAN : Import(i, force, prune)
           \/ \E i \in Importers, d \in Docs, force \in BOOLEAN : ImportFile(i, d, force)
  <2>1. Listed \in SUBSET Docs /\ \A d \in Docs : {d} \in SUBSET Docs
    BY DEF Listed
  <2>2. UNCHANGED loop
    BY <1>2 DEF Import, ImportFile
  <2>3. loop' \in LoopStates
    BY <2>2, PlacedIs
  <2>4. CASE \E i \in Importers, force, prune \in BOOLEAN : Import(i, force, prune)
    <3>1. PICK i \in Importers, force \in BOOLEAN, prune \in BOOLEAN : Import(i, force, prune)
      BY <2>4
    <3>2. SomeBegun
      <4> USE <2>1 DEF SomeBegun
      <4> WITNESS i \in Importers, Listed \in SUBSET Docs, FALSE \in BOOLEAN, force \in BOOLEAN, prune \in BOOLEAN
      <4> QED BY <3>1 DEF Import
    <3> QED BY <2>3, <3>2, BegunTyped
  <2>5. CASE \E i \in Importers, d \in Docs, force \in BOOLEAN : ImportFile(i, d, force)
    <3>1. PICK i \in Importers, d \in Docs, force \in BOOLEAN : ImportFile(i, d, force)
      BY <2>5
    <3>2. SomeBegun
      <4> USE <2>1 DEF SomeBegun
      <4> WITNESS i \in Importers, {d} \in SUBSET Docs, TRUE \in BOOLEAN, force \in BOOLEAN, FALSE \in BOOLEAN
      <4> QED BY <3>1 DEF ImportFile
    <3> QED BY <2>3, <3>2, BegunTyped
  <2> QED BY <1>2, <2>4, <2>5
<1>3. CASE \E i \in Importers : ImportStep(i)
  BY <1>3, ScanTyped, SyncTyped, WriteTyped DEF ImportStep
<1>4. CASE \E i \in Importers : ImportTrouble(i)
  BY <1>4, WriteTyped, EndTyped, CopyTyped DEF ImportTrouble
<1>5. CASE \/ \E force, prune \in BOOLEAN : StartWatch(force, prune)
           \/ WatchStep \/ Settle \/ SettleFails \/ StopWatch
  BY <1>5, WatchTyped
<1>6. CASE UNCHANGED importVars
  BY <1>6 DEF importVars, ImportTypeOK, In, Found
<1> QED BY <1>1, <1>2, <1>3, <1>4, <1>5, <1>6 DEF ImportNext

\* Every state of the imports and their watch is well typed, for any documents
\* and notes and however many edits, imports and failures.
THEOREM ImportTypeCorrect == ImportSpec => []ImportTypeOK
<1>1. ImportInit => ImportTypeOK
  BY ImportAssumption, ImportTypeInit
<1>2. ImportTypeOK /\ [ImportNext]_importVars => ImportTypeOK'
  BY ImportAssumption, ImportTypeStep
<1> QED BY <1>1, <1>2, PTL DEF ImportSpec

-----------------------------------------------------------------------------
(* Import: the watch keeps step *)

\* Nothing in f is newer than the last change.
Old(f) == \A d \in Docs : f[d] # NoFile => f[d].stamp <= edits

Unread(m, d) == m.pc = "scan" /\ d \in m.todo

\* What an import m has read of the documents that f shows, of those that are
\* still as f shows them.
ReadOf(m, f) ==
    \A d \in Docs :
        /\ f[d] = NoFile => m.docs[d] = NoFile
        /\ f[d] # NoFile /\ source[d] = f[d] => m.docs[d] = f[d] \/ Unread(m, d)
        /\ Unread(m, d) => f[d] # NoFile

\* What the watch's last import, or the one it runs now, is for.
Base ==
    IF loop.pc = "run" THEN loop.cur
    ELSE IF loop.pc \in {"first", "print"} THEN source
    ELSE loop.prev

Resting == loop.pc \in {"print", "wait", "settle"}

\* Nothing has escaped the watch.
Due ==
    /\ ~ loop.missed
    /\ \/ Resting
       \/ loop.pc \in {"first", "run"} /\ ~ imp[Watch].failed

Step ==
    /\ Old(source) /\ Old(loop.cur) /\ Old(loop.prev)
    /\ Resting => In(Watch, "idle")
    /\ Due => ReadOf(imp[Watch], Base)

LEMMA StepInit == ASSUME ImportAssumption, ImportInit, ImportTypeOK PROVE Step
<1>1. Old(source)
  <2>1. \A d \in Docs : source[d] # NoFile => source[d].stamp = 0
    BY DEF ImportInit
  <2> QED BY <2>1 DEF Old, ImportInit
<1> QED BY <1>1 DEF ImportInit, Step, Off, Nothing, Old, Resting, Due

\* The watch is as it was, and its import has read what it had.
LEMMA StepKept ==
    ASSUME Step, UNCHANGED <<source, loop, edits>>,
           /\ imp'[Watch].docs = imp[Watch].docs
           /\ ~ imp'[Watch].failed => ~ imp[Watch].failed
           /\ \A d \in Docs : Unread(imp'[Watch], d) <=> Unread(imp[Watch], d)
           /\ Resting => imp'[Watch].pc = imp[Watch].pc
    PROVE  Step'
<1>1. Old(source)' /\ Old(loop.cur)' /\ Old(loop.prev)'
  BY DEF Step, Old
<1>2. (Resting => In(Watch, "idle"))'
  BY DEF Step, Resting, In
<1>3. Due' => Due /\ Base' = Base
  BY DEF Due, Base, Resting
<1>4. ASSUME ReadOf(imp[Watch], Base), Base' = Base PROVE ReadOf(imp[Watch], Base)'
  <2>1. ASSUME NEW d \in Docs
        PROVE  /\ Base'[d] = NoFile => imp'[Watch].docs[d] = NoFile
               /\ Base'[d] # NoFile /\ source'[d] = Base'[d] =>
                     imp'[Watch].docs[d] = Base'[d] \/ Unread(imp'[Watch], d)
               /\ Unread(imp'[Watch], d) => Base'[d] # NoFile
    <3>1. Base'[d] = Base[d] /\ source'[d] = source[d] /\ imp'[Watch].docs[d] = imp[Watch].docs[d]
      BY <1>4
    <3>2. /\ Base[d] = NoFile => imp[Watch].docs[d] = NoFile
          /\ Base[d] # NoFile /\ source[d] = Base[d] =>
                imp[Watch].docs[d] = Base[d] \/ Unread(imp[Watch], d)
          /\ Unread(imp[Watch], d) => Base[d] # NoFile
      BY <1>4 DEF ReadOf
    <3>3. Unread(imp'[Watch], d) <=> Unread(imp[Watch], d)
      OBVIOUS
    <3> QED BY <3>1, <3>2, <3>3
  <2> QED BY <2>1 DEF ReadOf
<1> QED BY <1>1, <1>2, <1>3, <1>4 DEF Step

LEMMA StillOld ==
    ASSUME edits \in Nat, NEW f, Old(f), NEW e \in Docs, f[e] # NoFile, f[e].stamp \in Nat
    PROVE  f[e].stamp <= edits + 1
<1>1. PICK s \in Nat : s = f[e].stamp
  OBVIOUS
<1>2. s <= edits
  BY <1>1 DEF Old
<1>3. s <= edits + 1
  BY <1>2
<1> QED BY <1>1, <1>3

LEMMA StepPeople == ASSUME ImportAssumption, ImportTypeOK, Step, People PROVE Step'
<1>1. ASSUME NEW d \in Docs, NEW f, f # NoFile => f.stamp = edits + 1, Changed(d, f) PROVE Step'
  <2>1. edits \in Nat /\ edits' = edits + 1 /\ source' = [source EXCEPT ![d] = f] /\ UNCHANGED imp
        /\ loop.cur \in Prints /\ loop.prev \in Prints /\ source \in [Docs -> DocFiles \cup {NoFile}]
    BY <1>1 DEF Changed, ImportTypeOK, LoopStates
  <2>2. /\ loop'.pc = loop.pc /\ loop'.cur = loop.cur /\ loop'.prev = loop.prev
        /\ ~ loop'.missed => ~ loop.missed /\ loop.pc \notin {"first", "print"}
    <3> DEFINE missed == loop.missed \/ loop.pc \in {"first", "print"}
    <3>1. loop' = [loop EXCEPT !.missed = missed] /\ loop \in LoopStates
      BY <1>1 DEF Changed, ImportTypeOK
    <3> HIDE DEF missed
    <3>2. loop'.pc = loop.pc /\ loop'.cur = loop.cur /\ loop'.prev = loop.prev /\ loop'.missed = missed
      BY <3>1 DEF LoopStates
    <3>3. ~ loop'.missed => ~ missed
      BY <3>2, Zenon
    <3> QED BY <3>2, <3>3 DEF missed
  <2>3. \A e \in Docs :
           /\ loop.cur[e] # NoFile => loop.cur[e].stamp \in Nat
           /\ loop.prev[e] # NoFile => loop.prev[e].stamp \in Nat
           /\ source[e] # NoFile => source[e].stamp \in Nat
    BY <2>1 DEF Prints, DocFiles
  <2>4. Old(source)' /\ Old(loop.cur)' /\ Old(loop.prev)'
    <3>1. \A e \in Docs : source'[e] = source[e] \/ source'[e] = f
      BY <2>1
    <3>2. ASSUME NEW e \in Docs
          PROVE  /\ source'[e] # NoFile => source'[e].stamp <= edits'
                 /\ loop'.cur[e] # NoFile => loop'.cur[e].stamp <= edits'
                 /\ loop'.prev[e] # NoFile => loop'.prev[e].stamp <= edits'
      <4>1. Old(source) /\ Old(loop.cur) /\ Old(loop.prev)
        BY DEF Step
      <4>2. edits \in Nat
        BY <2>1
      <4>3. source[e] # NoFile => source[e].stamp <= edits + 1
        <5> SUFFICES ASSUME source[e] # NoFile PROVE source[e].stamp <= edits + 1
          OBVIOUS
        <5>1. source[e].stamp \in Nat
          BY <2>3
        <5> QED BY <4>1, <4>2, <5>1, StillOld
      <4>4. f # NoFile => f.stamp <= edits + 1
        BY <1>1, <2>1
      <4>5. source'[e] # NoFile => source'[e].stamp <= edits + 1
        BY <3>1, <4>3, <4>4
      <4>6. /\ loop.cur[e] # NoFile => loop.cur[e].stamp <= edits + 1
            /\ loop.prev[e] # NoFile => loop.prev[e].stamp <= edits + 1
        <5>1. /\ loop.cur[e] # NoFile => loop.cur[e].stamp \in Nat
              /\ loop.prev[e] # NoFile => loop.prev[e].stamp \in Nat
          BY <2>3
        <5>2. loop.cur[e] # NoFile => loop.cur[e].stamp <= edits + 1
          BY <4>1, <4>2, <5>1, StillOld
        <5>3. loop.prev[e] # NoFile => loop.prev[e].stamp <= edits + 1
          BY <4>1, <4>2, <5>1, StillOld
        <5> QED BY <5>2, <5>3
      <4> QED BY <2>1, <2>2, <4>5, <4>6
    <3> QED BY <3>2 DEF Old
  <2>5. (Resting => In(Watch, "idle"))'
    BY <2>1, <2>2 DEF Step, Resting, In
  <2>6. ASSUME Due' PROVE ReadOf(imp[Watch], Base)'
    <3>1. Due /\ Base' = Base /\ Base \in {loop.cur, loop.prev}
      BY <2>1, <2>2, <2>6 DEF Due, Base, Resting
    <3>2. Base[d] # NoFile => source'[d] # Base[d]
      BY <1>1, <2>1, <2>3, <3>1 DEF Step, Old
    <3>3. \A e \in Docs : e # d => source'[e] = source[e]
      BY <2>1
    <3> QED BY <2>1, <3>1, <3>2, <3>3 DEF Step, ReadOf
  <2> QED BY <2>4, <2>5, <2>6 DEF Step
<1>2. ASSUME NEW new, ByHand(new) PROVE Step'
  <2>1. UNCHANGED <<source, loop, edits>>
    BY <1>2 DEF ByHand
  <2>2. imp[Watch] \in ImportStates /\ Watch \in Importers
    BY DEF ImportTypeOK, ImportAssumption
  <2> DEFINE calm == imp[Watch].calm \ {n \in Names : new[n] # notes[n]}
  <2>3. imp'[Watch] = imp[Watch] \/ imp'[Watch] = [imp[Watch] EXCEPT !.calm = calm]
    BY <1>2, <2>2 DEF ByHand, Rewrite
  <2> HIDE DEF calm
  <2>4. /\ imp'[Watch].docs = imp[Watch].docs /\ imp'[Watch].failed = imp[Watch].failed
        /\ imp'[Watch].pc = imp[Watch].pc /\ imp'[Watch].todo = imp[Watch].todo
    BY <2>2, <2>3 DEF ImportStates
  <2> QED BY <2>1, <2>4, StepKept DEF Unread
<1>3. CASE \E d \in Docs : DeleteDoc(d) \/ \E t \in Texts : EditDoc(d, t)
  <2>1. \A t \in Texts : [text |-> t, stamp |-> edits + 1].stamp = edits + 1
    OBVIOUS
  <2> QED BY <1>1, <1>3, <2>1 DEF DeleteDoc, EditDoc
<1>4. CASE \E n \in Names : HandEdit(n) \/ HandNote(n)
  <2>1. \E new : ByHand(new)
    BY <1>4 DEF HandEdit, HandNote
  <2> QED BY <1>2, <2>1
<1> QED BY <1>3, <1>4 DEF People

\* What another importer does to the watch's.
LEMMA StepOthers ==
    ASSUME ImportAssumption, ImportTypeOK, Step, NEW i \in Importers \ {Watch},
           ImportStep(i) \/ ImportTrouble(i)
    PROVE  Step'
<1>1. imp[Watch] \in ImportStates /\ Watch \in Importers /\ Watch # i
  BY DEF ImportTypeOK, ImportAssumption
<1>2. UNCHANGED <<source, loop, edits>>
  BY <1>1 DEF ImportStep, ImportTrouble, ScanDoc, ScanDone, readNotes, syncDoc, RenameNote, WriteNote, DocsDone,
     Orphan, RemoveNote, OrphansDone, finishImport, WriteFails, RemoveFails, ImportFails, ImportKilled,
     KilledLeavesCopy, ImportSame
<1>3. (\E m : Continue(i, m)) \/ RenameNote(i) \/ WriteNote(i) \/ RemoveNote(i) \/ KilledLeavesCopy(i)
  BY DEF ImportStep, ImportTrouble, ScanDoc, ScanDone, readNotes, syncDoc, DocsDone, Orphan, OrphansDone,
     finishImport, WriteFails, RemoveFails, ImportFails, ImportKilled
<1>4. imp'[Watch] = imp[Watch] \/ \E S : imp'[Watch] = Disturbed(Watch, S)
  <2>1. CASE \E m : Continue(i, m)
    BY <1>1, <2>1 DEF Continue, ImportTypeOK
  <2>2. CASE RenameNote(i)
    BY <1>1, <2>2 DEF RenameNote, Disturbed
  <2>3. CASE WriteNote(i)
    BY <1>1, <2>3 DEF WriteNote, Disturbed
  <2>4. CASE RemoveNote(i)
    BY <1>1, <2>4 DEF RemoveNote, Disturbed
  <2>5. CASE KilledLeavesCopy(i)
    BY <1>1, <2>5 DEF KilledLeavesCopy, Disturbed
  <2> QED BY <1>3, <2>1, <2>2, <2>3, <2>4, <2>5
<1>5. \A S : LET m == Disturbed(Watch, S)
           IN  m.docs = imp[Watch].docs /\ m.failed = imp[Watch].failed /\ m.pc = imp[Watch].pc
               /\ m.todo = imp[Watch].todo
  <2> TAKE S
  <2> DEFINE calm == imp[Watch].calm \ S
  <2>1. Disturbed(Watch, S) = [imp[Watch] EXCEPT !.calm = calm]
    BY DEF Disturbed
  <2> HIDE DEF calm
  <2> QED BY <1>1, <2>1 DEF ImportStates
<1>6. imp'[Watch].docs = imp[Watch].docs /\ imp'[Watch].failed = imp[Watch].failed
      /\ imp'[Watch].pc = imp[Watch].pc /\ imp'[Watch].todo = imp[Watch].todo
  BY <1>4, <1>5
<1> QED BY <1>2, <1>6, StepKept DEF Unread

\* What an import does after its scan leaves what it read.
LEMMA OwnDocs ==
    ASSUME ImportAssumption, ImportTypeOK, NEW i \in Importers,
           \/ readNotes(i) \/ syncDoc(i) \/ RenameNote(i) \/ WriteNote(i) \/ DocsDone(i) \/ Orphan(i)
           \/ RemoveNote(i) \/ OrphansDone(i) \/ finishImport(i) \/ WriteFails(i) \/ RemoveFails(i)
    PROVE  imp[i].pc # "scan" /\ (Further(imp'[i], imp[i]) \/ imp'[i].failed)
<1>1. imp[i] \in ImportStates /\ imp \in [Importers -> ImportStates]
  BY DEF ImportTypeOK
<1>2. imp[i].pc # "scan"
  BY DEF readNotes, syncDoc, RenameNote, WriteNote, DocsDone, Orphan, RemoveNote, OrphansDone, finishImport,
     WriteFails, RemoveFails, In
<1>3. CASE readNotes(i)
  <2>1. PICK taken : imp' = [imp EXCEPT ![i] = [imp[i] EXCEPT !.pc = "plan", !.seen = notes, !.todo = Found(i),
                                                              !.calm = Names, !.taken = taken]]
    BY <1>3 DEF readNotes, Continue
  <2> QED BY <1>1, <1>2, <2>1 DEF ImportStates, Further
<1>4. CASE syncDoc(i)
  <2>1. PICK m \in ImportStates : Further(m, imp[i]) /\ Continue(i, m)
    BY <1>4, SyncLeaves
  <2> QED BY <1>1, <1>2, <2>1 DEF Continue
<1>5. CASE RenameNote(i)
  <2>1. PICK calm : imp'[i] = [imp[i] EXCEPT !.pc = "write", !.calm = calm]
    BY <1>1, <1>5 DEF RenameNote
  <2> QED BY <1>1, <1>2, <2>1 DEF ImportStates, Further
<1>6. CASE WriteNote(i) \/ WriteFails(i)
  <2> DEFINE next == NextDoc(imp[i])
  <2>1. Further(next, imp[i])
    BY <1>1 DEF NextDoc, ImportStates, Further
  <2>2. CASE WriteNote(i)
    BY <1>1, <1>2, <2>1, <2>2 DEF WriteNote
  <2> HIDE DEF next
  <2>3. CASE WriteFails(i)
    <3>1. imp'[i] = [next EXCEPT !.skipped = TRUE]
      BY <1>1, <2>3 DEF WriteFails, Continue, next
    <3>2. DOMAIN next = DOMAIN imp[i]
      BY DEF next, NextDoc
    <3>3. {"docs", "failed", "pc", "skipped"} \subseteq DOMAIN imp[i]
      BY <1>1 DEF ImportStates
    <3> QED BY <1>2, <2>1, <3>1, <3>2, <3>3 DEF Further
  <2> QED BY <1>6, <2>2, <2>3
<1>7. CASE DocsDone(i) \/ OrphansDone(i)
  <2>1. imp'[i] = [imp[i] EXCEPT !.pc = "finish"] \/ imp'[i] = [imp[i] EXCEPT !.pc = "orphans", !.rest = Unclaimed(i)]
    BY <1>1, <1>7 DEF DocsDone, OrphansDone, Continue
  <2> DEFINE rest == Unclaimed(i)
             next == [imp[i] EXCEPT !.pc = "orphans", !.rest = rest]
             end  == [imp[i] EXCEPT !.pc = "finish"]
  <2> HIDE DEF rest
  <2>2. Further(next, imp[i]) /\ Further(end, imp[i])
    BY <1>1 DEF ImportStates, Further
  <2> HIDE DEF next, end
  <2>3. imp'[i] \in {next, end}
    BY <2>1 DEF next, end, rest
  <2> QED BY <1>2, <2>2, <2>3
<1>8. CASE Orphan(i)
  <2>1. PICK n \in Mine, pc \in {"remove", "orphans"} :
           imp' = [imp EXCEPT ![i] = [imp[i] EXCEPT !.rest = @ \ {n}, !.name = n, !.pc = pc]]
    <3>1. PICK n \in imp[i].rest :
             LET note == imp[i].seen[n]
                 gone == docGone(note.source) /\ imp[i].prune /\ (imp[i].force \/ ~ edited(note))
             IN  Continue(i, [imp[i] EXCEPT !.rest = @ \ {n}, !.name = n, !.pc = IF gone THEN "remove" ELSE @])
      BY <1>8 DEF Orphan
    <3>2. imp[i].pc = "orphans"
      BY <1>8 DEF Orphan, In
    <3>3. n \in Mine
      BY <1>1 DEF ImportStates
    <3> QED BY <3>1, <3>2, <3>3 DEF Continue
  <2> QED BY <1>1, <1>2, <2>1 DEF ImportStates, Further
<1>9. CASE RemoveNote(i) \/ RemoveFails(i)
  <2>1. CASE RemoveNote(i)
    BY <1>1, <1>2, <2>1 DEF RemoveNote, ImportStates, Further
  <2>2. CASE RemoveFails(i)
    BY <1>1, <1>2, <2>2 DEF RemoveFails, Continue, ImportStates, Further
  <2> QED BY <1>9, <2>1, <2>2
<1>10. CASE finishImport(i)
  BY <1>1, <1>2, <1>10 DEF finishImport, Continue, Unstarted, ImportStates, Further
<1> QED BY <1>2, <1>3, <1>4, <1>5, <1>6, <1>7, <1>8, <1>9, <1>10

\* A watch that is off, or whose import failed, promises nothing.
LEMMA StepNotDue ==
    ASSUME Step, UNCHANGED <<source, edits>>, loop' \in {loop, Off}, ~ Due', ~ Resting'
    PROVE  Step'
<1>1. Old(source)'
  BY DEF Step, Old
<1>2. Old(loop.cur)' /\ Old(loop.prev)'
  <2>1. CASE loop' = loop
    BY <2>1 DEF Step, Old
  <2>2. CASE loop' = Off
    BY <2>2 DEF Off, Nothing, Old
  <2> QED BY <2>1, <2>2
<1> QED BY <1>1, <1>2 DEF Step

LEMMA StepOwn ==
    ASSUME ImportAssumption, ImportTypeOK, Step, ImportStep(Watch) \/ ImportTrouble(Watch)
    PROVE  Step'
<1>1. imp[Watch] \in ImportStates /\ Watch \in Importers /\ imp \in [Importers -> ImportStates]
  BY DEF ImportTypeOK, ImportAssumption
<1>2. imp[Watch].pc # "idle"
  BY DEF ImportStep, ImportTrouble, ScanDoc, ScanDone, readNotes, syncDoc, RenameNote, WriteNote, DocsDone,
     Orphan, RemoveNote, OrphansDone, finishImport, WriteFails, RemoveFails, ImportFails, ImportKilled,
     KilledLeavesCopy, In
<1>3. ~ Resting
  BY <1>2 DEF Step, In
<1>4. UNCHANGED <<source, edits>> /\ (loop' = loop \/ (loop' = Off /\ (ImportKilled(Watch) \/ KilledLeavesCopy(Watch))))
  BY DEF ImportStep, ImportTrouble, ScanDoc, ScanDone, readNotes, syncDoc, RenameNote, WriteNote, DocsDone,
     Orphan, RemoveNote, OrphansDone, finishImport, WriteFails, RemoveFails, ImportFails, ImportKilled,
     KilledLeavesCopy, ImportSame
<1>5. ASSUME loop' = loop, imp'[Watch].failed PROVE Step'
  BY <1>3, <1>4, <1>5, StepNotDue DEF Due, Resting
<1>6. CASE loop' = Off
  BY <1>4, <1>6, StepNotDue DEF Due, Resting, Off
<1>7. ASSUME loop' = loop, imp'[Watch].docs = imp[Watch].docs, imp'[Watch].failed = imp[Watch].failed,
             \A d \in Docs : Unread(imp'[Watch], d) <=> Unread(imp[Watch], d)
      PROVE  Step'
  BY <1>3, <1>4, <1>7, StepKept
<1>8. Fails(Watch).failed
  BY DEF Fails, Unstarted
<1>9. CASE ImportFails(Watch) \/ ImportKilled(Watch) \/ KilledLeavesCopy(Watch)
  <2>1. imp'[Watch] = Fails(Watch)
    BY <1>1, <1>9 DEF ImportFails, ImportKilled, KilledLeavesCopy, Continue
  <2> QED BY <1>4, <1>5, <1>6, <1>8, <2>1
<1>10. CASE ScanDone(Watch)
  <2>1. loop' = loop
    BY <1>10 DEF ScanDone, ImportSame
  <2>2. imp'[Watch] = Fails(Watch) \/ imp'[Watch] = [imp[Watch] EXCEPT !.pc = "read"]
    BY <1>1, <1>10 DEF ScanDone, Continue
  <2>3. CASE imp'[Watch] = [imp[Watch] EXCEPT !.pc = "read"]
    <3>1. imp[Watch].todo = {}
      BY <1>10 DEF ScanDone
    <3>2. imp'[Watch].docs = imp[Watch].docs /\ imp'[Watch].failed = imp[Watch].failed /\ imp'[Watch].pc = "read"
      BY <1>1, <2>3 DEF ImportStates
    <3> QED BY <1>7, <2>1, <3>1, <3>2 DEF Unread
  <2> QED BY <1>5, <1>8, <2>1, <2>2, <2>3
<1>11. CASE ScanDoc(Watch)
  <2>1. loop' = loop /\ imp[Watch].pc = "scan"
    BY <1>11 DEF ScanDoc, ImportSame, In
  <2>2. PICK d \in imp[Watch].todo :
           Continue(Watch, IF source[d] = NoFile THEN Fails(Watch)
                           ELSE [imp[Watch] EXCEPT !.docs[d] = source[d], !.todo = @ \ {d}])
    BY <1>1, <1>11, DocIn DEF ScanDoc, Doc
  <2>3. CASE source[d] = NoFile
    BY <1>1, <1>5, <1>8, <2>1, <2>2, <2>3 DEF Continue
  <2>4. CASE source[d] # NoFile
    <3> DEFINE docs == [imp[Watch].docs EXCEPT ![d] = source[d]]
    <3>1. d \in Docs
      BY <1>1 DEF ImportStates
    <3>2. imp'[Watch] = [imp[Watch] EXCEPT !.docs = docs, !.todo = @ \ {d}]
      BY <1>1, <2>2, <2>4 DEF Continue
    <3>3. \A e \in Docs : docs[e] = IF e = d THEN source[d] ELSE imp[Watch].docs[e]
      BY <1>1 DEF ImportStates
    <3> HIDE DEF docs
    <3>4. /\ imp'[Watch].docs = docs /\ imp'[Watch].todo = imp[Watch].todo \ {d} /\ imp'[Watch].pc = "scan"
          /\ imp'[Watch].failed = imp[Watch].failed
      BY <1>1, <2>1, <3>2 DEF ImportStates
    <3>5. ASSUME Due' PROVE ReadOf(imp[Watch], Base)'
      <4>1. Due /\ Base' = Base
        BY <1>4, <2>1, <3>4, <3>5 DEF Due, Base, Resting
      <4>2. ReadOf(imp[Watch], Base)
        BY <4>1 DEF Step
      <4>3. ASSUME NEW e \in Docs
            PROVE  /\ Base'[e] = NoFile => imp'[Watch].docs[e] = NoFile
                   /\ Base'[e] # NoFile /\ source'[e] = Base'[e] =>
                         imp'[Watch].docs[e] = Base'[e] \/ Unread(imp'[Watch], e)
                   /\ Unread(imp'[Watch], e) => Base'[e] # NoFile
        <5>1. /\ Base[e] = NoFile => imp[Watch].docs[e] = NoFile
              /\ Base[e] # NoFile /\ source[e] = Base[e] =>
                    imp[Watch].docs[e] = Base[e] \/ Unread(imp[Watch], e)
              /\ Unread(imp[Watch], e) => Base[e] # NoFile
          BY <4>2 DEF ReadOf
        <5>2. Unread(imp[Watch], d)
          BY <2>1, <2>2 DEF Unread
        <5>3. CASE e = d
          BY <1>4, <3>3, <3>4, <4>1, <5>1, <5>2, <5>3 DEF Unread
        <5>4. CASE e # d
          BY <1>4, <2>1, <3>3, <3>4, <4>1, <5>1, <5>4 DEF Unread
        <5> QED BY <5>3, <5>4
      <4> QED BY <4>3 DEF ReadOf
    <3>6. (Old(source) /\ Old(loop.cur) /\ Old(loop.prev) /\ ~ Resting)'
      BY <1>3, <1>4, <2>1 DEF Step, Old, Resting
    <3> QED BY <3>5, <3>6 DEF Step
  <2> QED BY <2>3, <2>4
<1>12. CASE \/ readNotes(Watch) \/ syncDoc(Watch) \/ RenameNote(Watch) \/ WriteNote(Watch) \/ DocsDone(Watch)
            \/ Orphan(Watch) \/ RemoveNote(Watch) \/ OrphansDone(Watch) \/ finishImport(Watch)
            \/ WriteFails(Watch) \/ RemoveFails(Watch)
  <2>1. imp[Watch].pc # "scan" /\ (Further(imp'[Watch], imp[Watch]) \/ imp'[Watch].failed)
    BY <1>1, <1>12, OwnDocs
  <2>2. CASE loop' = loop
    BY <1>5, <1>7, <2>1, <2>2 DEF Further, Unread
  <2> QED BY <1>4, <1>6, <2>2
<1> QED BY <1>9, <1>10, <1>11, <1>12 DEF ImportStep, ImportTrouble

\* An import that begins has read nothing of what it is to read.
LEMMA StepBegun ==
    ASSUME ImportAssumption, ImportTypeOK, Step, NEW i \in Importers, NEW docs \in SUBSET Docs,
           NEW one, NEW force, NEW prune, Begun(i, docs, one, force, prune)
    PROVE  /\ i # Watch => imp'[Watch] = imp[Watch]
           /\ i = Watch => /\ imp'[Watch].pc = "scan" /\ imp'[Watch].todo = docs
                           /\ imp'[Watch].docs = Nothing /\ ~ imp'[Watch].failed
BY DEF Begun, Continue, Unstarted, ImportTypeOK, ImportAssumption

LEMMA StepImport ==
    ASSUME ImportAssumption, ImportTypeOK, Step,
           \/ \E i \in Importers, force, prune \in BOOLEAN : Import(i, force, prune)
           \/ \E i \in Importers, d \in Docs, force \in BOOLEAN : ImportFile(i, d, force)
    PROVE  Step'
<1>1. ASSUME NEW i \in Importers, NEW docs \in SUBSET Docs, NEW one, NEW force, NEW prune,
             Free(i), Begun(i, docs, one, force, prune), UNCHANGED loop
      PROVE  Step'
  <2>1. UNCHANGED <<source, loop, edits>>
    BY <1>1 DEF Begun
  <2>2. CASE i # Watch
    <3>1. imp'[Watch] = imp[Watch]
      BY <1>1, <2>2, StepBegun
    <3> QED BY <2>1, <3>1, StepKept
  <2>3. CASE i = Watch
    BY <1>1, <2>1, <2>3, StepNotDue DEF Free, Due, Resting
  <2> QED BY <2>2, <2>3
<1>2. CASE \E i \in Importers, force, prune \in BOOLEAN : Import(i, force, prune)
  <2>1. Listed \in SUBSET Docs
    BY DEF Listed
  <2> QED BY <1>1, <1>2, <2>1 DEF Import
<1>3. CASE \E i \in Importers, d \in Docs, force \in BOOLEAN : ImportFile(i, d, force)
  <2>1. \A d \in Docs : {d} \in SUBSET Docs
    OBVIOUS
  <2> QED BY <1>1, <1>3, <2>1 DEF ImportFile
<1> QED BY <1>2, <1>3

\* What the watch does of its own.
LEMMA StepWatch ==
    ASSUME ImportAssumption, ImportTypeOK, Step,
           \/ \E force, prune \in BOOLEAN : StartWatch(force, prune)
           \/ WatchStep \/ Settle \/ SettleFails \/ StopWatch
    PROVE  Step'
<1>1. loop \in LoopStates /\ Watch \in Importers /\ Listed \in SUBSET Docs /\ UNCHANGED <<source, edits>>
  BY DEF ImportTypeOK, ImportAssumption, Listed, StartWatch, WatchStep, FirstDone, FirstPrint, Poll, Unsettled,
     RunDone, Settle, SettleFails, StopWatch, LoopSame, Begun
<1>2. Old(source) /\ Old(source)' /\ Old(Unknown)' /\ Old(Nothing)' /\ Old(loop.cur) /\ Old(loop.prev)
      /\ \A f : Old(f)' <=> Old(f)
  <2>1. edits \in Nat
    BY DEF ImportTypeOK
  <2> QED BY <1>1, <2>1 DEF Step, Old, Unknown, Nothing
<1>3. CASE \E force, prune \in BOOLEAN : StartWatch(force, prune)
  <2>1. PICK force \in BOOLEAN, prune \in BOOLEAN : StartWatch(force, prune)
    BY <1>3
  <2>2. loop'.pc = "first" /\ loop'.prev = Nothing /\ loop'.cur = Nothing
    BY <2>1 DEF StartWatch, Off
  <2>3. imp'[Watch].pc = "scan" /\ imp'[Watch].todo = Listed /\ imp'[Watch].docs = Nothing
    BY <1>1, <2>1, StepBegun DEF StartWatch
  <2>4. ReadOf(imp[Watch], Base)'
    BY <1>1, <2>2, <2>3 DEF ReadOf, Base, Unread, Nothing, Listed
  <2> QED BY <1>2, <2>2, <2>4 DEF Step, Resting
<1>4. CASE Settle
  <2>1. loop'.pc = "run" /\ loop'.prev = loop.prev /\ loop'.cur = loop.cur /\ loop.cur = source
    BY <1>1, <1>4 DEF Settle, LoopStates, Fingerprint
  <2>2. imp'[Watch].pc = "scan" /\ imp'[Watch].todo = Listed /\ imp'[Watch].docs = Nothing
    BY <1>1, <1>4, StepBegun DEF Settle
  <2>3. ReadOf(imp[Watch], Base)'
    BY <1>1, <2>1, <2>2 DEF ReadOf, Base, Unread, Nothing, Listed
  <2> QED BY <1>2, <2>1, <2>3 DEF Step, Resting
<1>5. ASSUME LoopSame, Old(loop'.cur), Old(loop'.prev), Resting' => In(Watch, "idle"),
             Due' => ReadOf(imp[Watch], Base')
      PROVE  Step'
  <2>1. UNCHANGED <<imp, source, edits>>
    BY <1>5 DEF LoopSame
  <2> QED BY <1>2, <1>5, <2>1 DEF Step, ReadOf, In
<1>6. CASE FirstDone
  <2>1. LoopSame /\ loop.pc = "first" /\ In(Watch, "idle")
    BY <1>6 DEF FirstDone, LoopAt
  <2>2. CASE imp[Watch].failed
    BY <1>2, <1>5, <1>6, <2>1, <2>2 DEF FirstDone, Off, Due, Resting
  <2>3. CASE ~ imp[Watch].failed
    <3>1. loop'.pc = "print" /\ loop'.cur = loop.cur /\ loop'.prev = loop.prev /\ loop'.missed = loop.missed
      BY <1>1, <1>6, <2>3 DEF FirstDone, LoopStates
    <3>2. Due' => Due /\ Base' = Base
      BY <1>1, <2>1, <2>3, <3>1 DEF Due, Base, Resting
    <3> QED BY <1>2, <1>5, <2>1, <3>1, <3>2 DEF Step
  <2> QED BY <2>2, <2>3
<1>7. CASE FirstPrint
  <2>1. PICK prev \in {Fingerprint, Unknown} : loop' = [loop EXCEPT !.pc = "wait", !.prev = prev]
    BY <1>7 DEF FirstPrint
  <2>2. LoopSame /\ loop.pc = "print"
    BY <1>7 DEF FirstPrint, LoopAt
  <2>3. loop'.pc = "wait" /\ loop'.cur = loop.cur /\ loop'.prev = prev /\ loop'.missed = loop.missed
    BY <1>1, <2>1 DEF LoopStates
  <2>4. Base' = prev /\ Base = source /\ Old(prev)
    BY <1>2, <2>1, <2>2, <2>3 DEF Base, Fingerprint
  <2>5. Due' => Due
    BY <2>2, <2>3 DEF Due, Resting
  <2>6. ASSUME prev = Unknown PROVE ReadOf(imp[Watch], prev)
    <3>1. In(Watch, "idle")
      BY <2>2 DEF Step, Resting
    <3>2. \A d \in Docs : source[d] # NoFile => source[d] # Unknown[d]
      BY DEF ImportTypeOK, DocFiles, Unknown, ImportAssumption
    <3>3. \A d \in Docs : Unknown[d] # NoFile
      BY DEF ImportAssumption, Unknown
    <3> QED BY <2>6, <3>1, <3>2, <3>3 DEF ReadOf, Unread, In
  <2>7. Due' => ReadOf(imp[Watch], Base')
    BY <2>1, <2>4, <2>5, <2>6 DEF Step, Fingerprint
  <2>8. In(Watch, "idle")
    BY <2>2 DEF Step, Resting
  <2> QED BY <1>2, <1>5, <2>2, <2>3, <2>4, <2>7, <2>8 DEF Step
<1>8. CASE Poll \/ Unsettled \/ SettleFails
  <2>1. LoopSame /\ Resting
    BY <1>8 DEF Poll, Unsettled, SettleFails, LoopAt, Resting
  <2>2. /\ loop'.pc \in {"wait", "settle"} /\ loop'.cur \in {loop.cur, source} /\ loop'.prev = loop.prev
        /\ loop'.missed = loop.missed /\ loop.pc \in {"wait", "settle"}
    BY <1>1, <1>8 DEF Poll, Unsettled, SettleFails, LoopAt, LoopStates, Fingerprint
  <2>3. Due' => Due /\ Base' = Base
    BY <2>1, <2>2 DEF Due, Base, Resting
  <2>4. Old(source)
    BY DEF Step
  <2> QED BY <1>2, <1>5, <2>1, <2>2, <2>3, <2>4 DEF Step
<1>9. CASE RunDone
  <2> DEFINE missed == loop.missed \/ imp[Watch].failed
  <2>1. LoopSame /\ loop.pc = "run" /\ In(Watch, "idle")
        /\ loop' = [loop EXCEPT !.pc = "wait", !.prev = loop.cur, !.missed = missed]
    BY <1>9 DEF RunDone, LoopAt, prevAfter
  <2> HIDE DEF missed
  <2>2. loop'.pc = "wait" /\ loop'.cur = loop.cur /\ loop'.prev = loop.cur /\ loop'.missed = missed
    BY <1>1, <2>1 DEF LoopStates
  <2>3. ~ loop'.missed => ~ loop.missed /\ ~ imp[Watch].failed
    BY <2>2, Zenon DEF missed
  <2>4. Due' => Due /\ Base' = Base
    BY <2>1, <2>2, <2>3 DEF Due, Base, Resting
  <2> QED BY <1>2, <1>5, <2>1, <2>2, <2>4 DEF Step
<1>10. CASE StopWatch
  BY <1>2, <1>5, <1>10 DEF StopWatch, Off, Due, Resting
<1> QED BY <1>3, <1>4, <1>6, <1>7, <1>8, <1>9, <1>10 DEF WatchStep

LEMMA StepStep == ASSUME ImportAssumption, ImportTypeOK, Step, [ImportNext]_importVars PROVE Step'
<1>1. CASE \E i \in Importers : ImportStep(i) \/ ImportTrouble(i)
  BY <1>1, StepOwn, StepOthers
<1>2. CASE UNCHANGED importVars
  BY <1>2 DEF importVars, Step, Old, Resting, In, Due, ReadOf, Unread, Base
<1> QED BY <1>1, <1>2, StepPeople, StepImport, StepWatch DEF ImportNext

LEMMA StepIsInStep == ASSUME ImportAssumption, ImportTypeOK, Step PROVE WatchInStep
<1> SUFFICES ASSUME LoopAt("wait"), loop.prev = source, ~ loop.missed PROVE imp[Watch].docs = source
  BY DEF WatchInStep, Fingerprint
<1>1. In(Watch, "idle") /\ ReadOf(imp[Watch], source)
  BY DEF Step, Due, Resting, Base, LoopAt
<1>2. \A d \in Docs : imp[Watch].docs[d] = source[d]
  <2>1. ASSUME NEW d \in Docs PROVE imp[Watch].docs[d] = source[d]
    BY <1>1 DEF ReadOf, Unread, In
  <2> QED BY <2>1
<1>3. imp[Watch].docs \in [Docs -> DocFiles \cup {NoFile}] /\ source \in [Docs -> DocFiles \cup {NoFile}]
  BY DEF ImportTypeOK, ImportStates, ImportAssumption
<1>4. imp[Watch].docs = [d \in Docs |-> imp[Watch].docs[d]] /\ source = [d \in Docs |-> source[d]]
  BY <1>3
<1>5. [d \in Docs |-> imp[Watch].docs[d]] = [d \in Docs |-> source[d]]
  BY <1>2
<1> QED BY <1>4, <1>5

\* A watch whose last fingerprint is what the documents are now has imported
\* them as they are, unless a change or a failure escaped it as WatchInStep
\* says: whenever documents change while it polls, settles, reads or compares.
THEOREM WatchAlwaysInStep == ImportSpec => []WatchInStep
<1>1. ImportInit => ImportTypeOK /\ Step
  BY ImportAssumption, ImportTypeInit, StepInit
<1>2. (ImportTypeOK /\ Step) /\ [ImportNext]_importVars => (ImportTypeOK /\ Step)'
  BY ImportAssumption, ImportTypeStep, StepStep
<1>3. ImportTypeOK /\ Step => WatchInStep
  BY ImportAssumption, StepIsInStep
<1> QED BY <1>1, <1>2, <1>3, PTL DEF ImportSpec

-----------------------------------------------------------------------------
(* Import: what an import may rely on: m is the import, s the notes, f the *)
(* documents and e the number of changes so far.                           *)

Working == {"plan", "rename", "write"}
Pruning == {"orphans", "remove"}

Has(m) == {d \in Docs : m.docs[d] # NoFile}

Handled(m) == Has(m) \ m.todo

Name(m) == NameOf[First(m.todo)]

Previous(m) == IF m.from = NoFile THEN NoFile ELSE m.seen[m.from]

\* A document before d in the walk has d's name but for case.
Earlier(m, d) == \E e \in Has(m) : e < d /\ Fold[NameOf[e]] = Fold[NameOf[d]]

\* The notes of the import that no document has.
Left(m) == {n \in Mine \ m.claimed : m.seen[n] # NoFile /\ m.seen[n].managed}

\* The documents done with, in their order, are those whose names are written.
InOrder(m) ==
    /\ m.pc \in {"scan", "read"} => m.claimed = {} /\ m.written = {}
    /\ m.pc \in Working =>
          /\ \A n \in m.claimed : Fold[n] \in m.written
          /\ \A d \in Handled(m), e \in m.todo : d < e
          /\ \A d \in Handled(m) : Fold[NameOf[d]] \in m.written
          /\ \A x \in m.written : \E e \in Handled(m) \cup (IF m.pc = "plan" THEN {} ELSE {First(m.todo)}) :
                x = Fold[NameOf[e]]

\* The note that the document in hand had, when it is to be written.
Held(m) ==
    LET prev == m.seen[m.from]
    IN  /\ m.from \in m.claimed /\ Fold[m.from] = Fold[Name(m)]
        /\ prev # NoFile /\ prev.managed /\ prev.id = m.id
        /\ Same(m.docs[First(m.todo)].text, prev) \/ ~ edited(prev) \/ m.force

\* Their notes are claimed, and so is that of the document in hand, which may be
\* written.
Accounted(m) ==
    /\ m.pc \in Pruning \cup {"finish"} => m.todo = {}
    /\ m.pc \in Working \cup Pruning =>
          \A d \in Handled(m) : NameOf[d] \in m.claimed \/ m.seen[NameOf[d]] = NoFile \/ Earlier(m, d)
    /\ m.pc \in {"rename", "write"} =>
          /\ Name(m) \in m.claimed /\ m.taken[m.id] = Name(m)
          /\ \A e \in Handled(m) : Fold[NameOf[e]] # Fold[Name(m)]
          /\ m.from # NoFile => Held(m)
    /\ m.pc = "rename" => m.from \notin {NoFile, Name(m)}
    /\ m.pc \in Pruning => m.rest \subseteq Left(m)
    /\ m.pc = "remove" => m.name \in Left(m) \ m.rest /\ (m.force \/ ~ edited(m.seen[m.name]))

\* A name nobody else has written since the notes were read holds what was read.
Still(m, s, n) == n \in m.calm => s[n] = m.seen[n]

AsRead(m, s) ==
    /\ m.pc \in Working => \A n \in Mine \ m.claimed : Still(m, s, n)
    /\ m.pc = "rename" => Still(m, s, m.from) /\ (Name(m) \in m.calm => s[Name(m)] = NoFile)
    /\ m.pc = "write" => (Name(m) \in m.calm => s[Name(m)] = Previous(m))
    /\ m.pc \in Pruning => \A n \in m.rest : Still(m, s, n)
    /\ m.pc = "remove" => Still(m, s, m.name)

\* Undisturbed, an import knows every id there is, and a new one is new or is
\* that of the document's path.
IdsKnown(m, s) ==
    m.pc \in Working /\ m.calm = Names =>
        /\ \A n \in Names : s[n] # NoFile => m.taken[s[n].id] # NoFile
        /\ m.pc # "plan" /\ m.from = NoFile =>
              \/ m.id = <<Slug[First(m.todo)], First(m.todo)>>
              \/ \A n \in Names : s[n] # NoFile => s[n].id # m.id

\* What is found for a name is x.
Hit(s, name, x) == x \in folded(s, name) /\ (x = name \/ folded(s, name) = {x})

Writes == {"added", "updated"}

SettledDoc(m, s, d) ==
    \/ Earlier(m, d)
    \/ ambiguous(s, NameOf[d]) /\ folded(s, NameOf[d]) \subseteq m.claimed
    \/ \E x \in m.claimed : Hit(s, NameOf[d], x) /\ planned(d, m.docs[d].text, s[x], FALSE) \notin Writes

\* Undisturbed, nothing is left to write of the documents done with.
Settled(m, s) ==
    m.pc \in Working \cup Pruning \cup {"finish"} /\ m.calm = Names /\ ~ m.skipped =>
        \A d \in Handled(m) : SettledDoc(m, s, d)

\* What was read is of no later change; the document of a note to be removed was
\* gone, and is another if it is back.
Timely(m, f, e) ==
    /\ \A d \in Has(m) : m.docs[d].stamp <= e
    /\ m.pc = "remove" => LET d == m.seen[m.name].source
                          IN  d \in Has(m) /\ f[d] # NoFile => f[d].stamp # m.docs[d].stamp

Faithful(m, s) == InOrder(m) /\ Accounted(m) /\ AsRead(m, s) /\ IdsKnown(m, s) /\ Settled(m, s)

Sound == \A i \in Importers : Faithful(imp[i], notes) /\ Timely(imp[i], source, edits)

NotesType == [Names -> NoteFiles \cup {NoFile}]

-----------------------------------------------------------------------------
(* Import: the notes of a name *)

LEMMA AtMostOne ==
    ASSUME NEW S, IsFiniteSet(S), ~ (Cardinality(S) > 1), NEW x \in S
    PROVE  S = {x}
<1>1. IsFiniteSet(S \ {x}) /\ Cardinality(S \ {x}) = Cardinality(S) - 1
  BY FS_RemoveElement
<1>2. Cardinality(S \ {x}) \in Nat /\ Cardinality(S) \in Nat
  BY <1>1, FS_CardinalityType
<1>3. Cardinality(S \ {x}) = 0
  BY <1>1, <1>2
<1>4. S \ {x} = {}
  BY <1>1, <1>3, FS_EmptySet
<1> QED BY <1>4

\* What is found for a name that is not ambiguous.
LEMMA ExistingHit ==
    ASSUME ImportAssumption, NEW s, NEW n \in Mine, ~ ambiguous(s, n)
    PROVE  /\ existing(s, n) = NoFile => folded(s, n) = {}
           /\ existing(s, n) # NoFile => Hit(s, n, existing(s, n))
<1>1. folded(s, n) \subseteq Mine /\ IsFiniteSet(folded(s, n)) /\ NoFile \notin Mine
  <2>1. folded(s, n) \subseteq Names
    BY DEF folded, ImportAssumption
  <2> QED BY <2>1, FS_Subset DEF folded, ImportAssumption
<1>2. CASE n \in folded(s, n)
  BY <1>1, <1>2 DEF existing, Hit
<1>3. CASE n \notin folded(s, n) /\ folded(s, n) = {}
  BY <1>3 DEF existing
<1>4. CASE n \notin folded(s, n) /\ folded(s, n) # {}
  <2>1. existing(s, n) \in folded(s, n)
    BY <1>4 DEF existing
  <2>2. folded(s, n) = {existing(s, n)}
    BY <1>1, <1>4, <2>1, AtMostOne DEF ambiguous
  <2> QED BY <1>1, <2>1, <2>2 DEF Hit
<1> QED BY <1>2, <1>3, <1>4

LEMMA HitIsExisting == ASSUME NEW s, NEW n, NEW x, Hit(s, n, x) PROVE existing(s, n) = x
<1>1. CASE x = n
  BY <1>1 DEF Hit, existing
<1>2. CASE x # n
  BY <1>2 DEF Hit, existing
<1> QED BY <1>1, <1>2

\* Notes whose names have the same fold as n are the same.
SameClass(s, t, n) == \A x \in Mine : Fold[x] = Fold[n] => t[x] = s[x]

LEMMA ClassKept ==
    ASSUME NEW s, NEW t, NEW n, SameClass(s, t, n)
    PROVE  /\ folded(t, n) = folded(s, n) /\ (ambiguous(t, n) <=> ambiguous(s, n))
           /\ \A x : Hit(t, n, x) <=> Hit(s, n, x)
           /\ \A x \in folded(s, n) : t[x] = s[x]
<1>1. folded(t, n) = folded(s, n)
  BY DEF SameClass, folded
<1>2. \A x \in folded(s, n) : t[x] = s[x]
  BY DEF SameClass, folded
<1> QED BY <1>1, <1>2 DEF ambiguous, Hit

LEMMA SettledKept ==
    ASSUME NEW m, NEW k, NEW s, NEW t, NEW d,
           SettledDoc(m, s, d), SameClass(s, t, NameOf[d]), k.docs = m.docs, m.claimed \subseteq k.claimed
    PROVE  SettledDoc(k, t, d)
<1>1. Earlier(m, d) => Earlier(k, d)
  BY DEF Earlier, Has
<1>2. ambiguous(s, NameOf[d]) /\ folded(s, NameOf[d]) \subseteq m.claimed =>
          ambiguous(t, NameOf[d]) /\ folded(t, NameOf[d]) \subseteq k.claimed
  BY ClassKept
<1>3. ASSUME NEW x \in m.claimed, Hit(s, NameOf[d], x), planned(d, m.docs[d].text, s[x], FALSE) \notin Writes
      PROVE  x \in k.claimed /\ Hit(t, NameOf[d], x) /\ planned(d, k.docs[d].text, t[x], FALSE) \notin Writes
  <2>1. x \in folded(s, NameOf[d])
    BY <1>3 DEF Hit
  <2>2. t[x] = s[x] /\ Hit(t, NameOf[d], x)
    BY <1>3, <2>1, ClassKept
  <2> QED BY <1>3, <2>2
<1> QED BY <1>1, <1>2, <1>3 DEF SettledDoc

-----------------------------------------------------------------------------
(* Import: what others do *)

LEMMA NameIn ==
    ASSUME ImportAssumption, NEW m \in ImportStates, m.todo # {}
    PROVE  /\ First(m.todo) \in m.todo /\ First(m.todo) \in Docs /\ Name(m) \in Mine
           /\ \A d \in m.todo : First(m.todo) <= d
<1>1. m.todo \subseteq Docs /\ Docs \subseteq Nat
  BY DEF ImportStates, ImportAssumption
<1>2. First(m.todo) \in m.todo /\ \A d \in m.todo : First(m.todo) <= d
  <2>1. m.todo \subseteq Nat
    BY <1>1
  <2> QED BY <2>1, FirstLeast
<1> QED BY <1>1, <1>2 DEF Name, ImportAssumption

\* An import that has read no notes relies on nothing.
LEMMA NothingRead ==
    ASSUME NEW m, NEW s, m.pc \in {"idle", "scan", "read"}, m.claimed = {}, m.written = {}
    PROVE  Faithful(m, s)
BY DEF Faithful, InOrder, Accounted, AsRead, IdsKnown, Settled, Working, Pruning

\* m but for what others have written.
Beside(m, k) ==
    /\ k.pc = m.pc /\ k.docs = m.docs /\ k.todo = m.todo /\ k.seen = m.seen /\ k.taken = m.taken
    /\ k.claimed = m.claimed /\ k.written = m.written /\ k.from = m.from /\ k.id = m.id /\ k.rest = m.rest
    /\ k.name = m.name /\ k.force = m.force /\ k.skipped = m.skipped

LEMMA BesideIs ==
    ASSUME NEW m \in ImportStates, NEW C \in SUBSET Names
    PROVE  Beside(m, [m EXCEPT !.calm = C]) /\ [m EXCEPT !.calm = C].calm = C
BY DEF Beside, ImportStates

LEMMA BesideAccounted ==
    ASSUME NEW m, NEW k, Beside(m, k)
    PROVE  /\ InOrder(m) => InOrder(k)
           /\ Accounted(m) => Accounted(k)
<1>1. Has(k) = Has(m) /\ Handled(k) = Handled(m) /\ Name(k) = Name(m) /\ Left(k) = Left(m)
  BY DEF Beside, Has, Handled, Name, Left
<1>2. \A d : Earlier(k, d) <=> Earlier(m, d)
  BY <1>1 DEF Earlier
<1>3. Held(m) => Held(k)
  BY <1>1 DEF Held, Beside
<1>4. InOrder(m) => InOrder(k)
  BY <1>1 DEF InOrder, Beside
<1>5. Accounted(m) => Accounted(k)
  BY <1>1, <1>2, <1>3 DEF Accounted, Beside
<1> QED BY <1>4, <1>5

\* Notes that others change, the import no longer takes for what it read.
LEMMA OthersFaithful ==
    ASSUME ImportAssumption, NEW m \in ImportStates, Placed(m), NEW s \in NotesType, NEW t \in NotesType, NEW S,
           \A n \in Names \ S : t[n] = s[n], Faithful(m, s)
    PROVE  Faithful([m EXCEPT !.calm = m.calm \ S], t)
<1> DEFINE k == [m EXCEPT !.calm = m.calm \ S]
<1>1. m.calm \in SUBSET Names /\ m.calm \ S \in SUBSET Names
  BY DEF ImportStates
<1>2. Beside(m, k) /\ k.calm = m.calm \ S
  BY <1>1, BesideIs
<1> HIDE DEF k
<1>3. InOrder(k) /\ Accounted(k)
  BY <1>2, BesideAccounted DEF Faithful
<1>4. \A n : Still(m, s, n) => Still(k, t, n)
  BY <1>1, <1>2 DEF Still, Beside
<1>5. AsRead(k, t)
  <2>1. Name(k) = Name(m) /\ Previous(k) = Previous(m)
    BY <1>2 DEF Name, Previous, Beside
  <2>2. Name(k) \in k.calm => Name(m) \in m.calm /\ t[Name(k)] = s[Name(m)]
    BY <1>1, <1>2, <2>1
  <2> QED BY <1>2, <1>4, <2>1, <2>2 DEF AsRead, Beside, Faithful
<1>6. k.calm = Names => m.calm = Names /\ \A n \in Names : t[n] = s[n]
  BY <1>1, <1>2
<1>7. IdsKnown(k, t)
  BY <1>2, <1>6 DEF IdsKnown, Beside, Faithful
<1>8. Settled(k, t)
  <2> SUFFICES ASSUME k.pc \in Working \cup Pruning \cup {"finish"}, k.calm = Names, ~ k.skipped,
                      NEW d \in Handled(k)
               PROVE  SettledDoc(k, t, d)
    BY DEF Settled
  <2>1. d \in Handled(m) /\ m.calm = Names
    BY <1>2, <1>6 DEF Handled, Has, Beside
  <2>2. SettledDoc(m, s, d)
    BY <1>2, <2>1 DEF Settled, Beside, Faithful
  <2>3. SameClass(s, t, NameOf[d])
    BY <1>6 DEF SameClass, ImportAssumption
  <2> QED BY <1>2, <2>2, <2>3, SettledKept DEF Beside
<1> QED BY <1>3, <1>5, <1>7, <1>8 DEF Faithful, k

LEMMA OthersTimely ==
    ASSUME NEW m \in ImportStates, NEW f, NEW e, NEW S, Timely(m, f, e)
    PROVE  Timely([m EXCEPT !.calm = m.calm \ S], f, e)
<1>1. m.calm \ S \in SUBSET Names
  BY DEF ImportStates
<1>2. Beside(m, [m EXCEPT !.calm = m.calm \ S])
  BY <1>1, BesideIs
<1> QED BY <1>2 DEF Timely, Has, Beside

\* A document is changed.
LEMMA ChangedTimely ==
    ASSUME NEW m \in ImportStates, NEW f, f \in [Docs -> DocFiles \cup {NoFile}], NEW e \in Nat, Timely(m, f, e),
           NEW d \in Docs, NEW x, x # NoFile => x.stamp = e + 1
    PROVE  Timely(m, [f EXCEPT ![d] = x], e + 1)
<1>1. \A c \in Has(m) : m.docs[c].stamp \in Nat /\ m.docs[c].stamp <= e /\ m.docs[c].stamp <= e + 1
  BY DEF Timely, Has, ImportStates, DocFiles
<1>2. ASSUME m.pc = "remove",
             NEW c, c = m.seen[m.name].source, c \in Has(m), [f EXCEPT ![d] = x][c] # NoFile
      PROVE  [f EXCEPT ![d] = x][c].stamp # m.docs[c].stamp
  <2>1. CASE c = d
    BY <1>1, <1>2, <2>1
  <2>2. CASE c # d
    <3>1. [f EXCEPT ![d] = x][c] = f[c]
      BY <2>2
    <3> QED BY <1>2, <3>1 DEF Timely
  <2> QED BY <2>1, <2>2
<1> QED BY <1>1, <1>2 DEF Timely

-----------------------------------------------------------------------------
(* Import: a document is done with *)

LEMMA NextDocIs ==
    ASSUME NEW x \in ImportStates
    PROVE  LET k == NextDoc(x)
           IN  /\ k.pc = "plan" /\ k.todo = x.todo \ {First(x.todo)} /\ k.docs = x.docs /\ k.seen = x.seen
               /\ k.taken = x.taken /\ k.claimed = x.claimed /\ k.written = x.written /\ k.calm = x.calm
               /\ k.skipped = x.skipped /\ k.force = x.force
BY DEF NextDoc, ImportStates

\* k is m with its first document done with, and C claimed.
Done(m, k, C) ==
    /\ k.pc = "plan" /\ k.todo = m.todo \ {First(m.todo)} /\ k.docs = m.docs /\ k.seen = m.seen
    /\ k.written = m.written \cup {Fold[Name(m)]} /\ k.claimed = C

LEMMA DoneHandled ==
    ASSUME ImportAssumption, NEW m \in ImportStates, Placed(m), m.pc \in Working, m.todo # {}, NEW k, NEW C, Done(m, k, C)
    PROVE  /\ Has(k) = Has(m) /\ Handled(k) = Handled(m) \cup {First(m.todo)} /\ First(m.todo) \in Has(m)
           /\ \A d : Earlier(k, d) <=> Earlier(m, d)
<1>1. First(m.todo) \in m.todo /\ m.todo \subseteq Has(m)
  BY NameIn DEF Placed, Has, Working
<1>2. Has(k) = Has(m)
  BY DEF Done, Has
<1>3. Handled(k) = Handled(m) \cup {First(m.todo)}
  BY <1>1, <1>2 DEF Handled, Done
<1> QED BY <1>1, <1>2, <1>3 DEF Earlier

LEMMA DoneAccounted ==
    ASSUME ImportAssumption, NEW m \in ImportStates, Placed(m), m.pc \in Working, m.todo # {},
           InOrder(m), Accounted(m), NEW k, NEW C, Done(m, k, C), m.claimed \subseteq C,
           \A n \in C \ m.claimed : Fold[n] = Fold[Name(m)],
           \/ Name(m) \in C \/ m.seen[Name(m)] = NoFile
           \/ m.pc = "plan" /\ Fold[Name(m)] \in m.written
    PROVE  InOrder(k) /\ Accounted(k) /\ (m.pc = "plan" /\ Fold[Name(m)] \in m.written => Earlier(k, First(m.todo)))
<1> DEFINE d == First(m.todo)
<1>1. d \in m.todo /\ d \in Docs /\ \A e \in m.todo : d <= e
  BY NameIn
<1>2. /\ Has(k) = Has(m) /\ Handled(k) = Handled(m) \cup {d} /\ d \in Has(m)
      /\ \A e : Earlier(k, e) <=> Earlier(m, e)
  BY DoneHandled
<1>3. NameOf[d] = Name(m)
  BY DEF Name
<1>4. \A c \in Handled(m), e \in m.todo : c < e
  BY DEF InOrder
<1> HIDE DEF d
<1>5. m.pc = "plan" /\ Fold[Name(m)] \in m.written => Earlier(k, d)
  <2>1. m.pc = "plan" /\ Fold[Name(m)] \in m.written => \E e \in Handled(m) : Fold[Name(m)] = Fold[NameOf[e]]
    BY DEF InOrder, Working
  <2> QED BY <1>1, <1>2, <1>3, <1>4, <2>1 DEF Earlier, Handled
<1>6. InOrder(k)
  <2>1. \A n \in k.claimed : Fold[n] \in k.written
    BY DEF InOrder, Done
  <2>2. \A c \in Handled(k), e \in k.todo : c < e
    <3>1. \A e \in k.todo : e \in m.todo /\ e # d /\ d < e
      <4> SUFFICES ASSUME NEW e \in k.todo PROVE e \in m.todo /\ e # d /\ d < e
        OBVIOUS
      <4>1. e \in m.todo /\ e # d
        BY DEF Done, d
      <4>2. d \in Nat /\ e \in Nat
        BY <1>1, <4>1 DEF ImportStates, ImportAssumption
      <4> QED BY <1>1, <4>1, <4>2
    <3> QED BY <1>2, <1>4, <3>1
  <2>3. \A c \in Handled(k) : Fold[NameOf[c]] \in k.written
    BY <1>2, <1>3 DEF InOrder, Done
  <2>4. \A x \in k.written : \E e \in Handled(k) : x = Fold[NameOf[e]]
    <3>1. \A x \in m.written : \E e \in Handled(m) \cup {d} : x = Fold[NameOf[e]]
      BY DEF InOrder, d
    <3>2. Fold[Name(m)] = Fold[NameOf[d]]
      BY <1>3
    <3> QED BY <1>2, <3>1, <3>2 DEF Done
  <2> QED BY <2>1, <2>2, <2>3, <2>4 DEF InOrder, Done
<1>7. Accounted(k)
  <2>1. \A c \in Handled(m) : NameOf[c] \in m.claimed \/ m.seen[NameOf[c]] = NoFile \/ Earlier(m, c)
    BY DEF Accounted
  <2>2. \A c \in Handled(k) : NameOf[c] \in k.claimed \/ k.seen[NameOf[c]] = NoFile \/ Earlier(k, c)
    BY <1>2, <1>3, <1>5, <2>1 DEF Done
  <2> QED BY <2>2 DEF Accounted, Done, Pruning
<1> QED BY <1>5, <1>6, <1>7 DEF d

LEMMA DoneSettled ==
    ASSUME ImportAssumption, NEW m \in ImportStates, Placed(m), m.pc \in Working, m.todo # {}, NEW s, NEW t,
           NEW k, NEW C, Done(m, k, C), m.claimed \subseteq C, Settled(m, s),
           k.calm = m.calm, k.skipped = m.skipped \/ k.skipped,
           m.calm = Names /\ ~ m.skipped => /\ SettledDoc(k, t, First(m.todo))
                            /\ \A d \in Handled(m) : SameClass(s, t, NameOf[d])
    PROVE  Settled(k, t)
<1> SUFFICES ASSUME k.calm = Names, ~ k.skipped, NEW d \in Handled(k) PROVE SettledDoc(k, t, d)
  BY DEF Settled
<1>1. m.calm = Names /\ ~ m.skipped
  OBVIOUS
<1>2. Handled(k) = Handled(m) \cup {First(m.todo)}
  BY DoneHandled
<1>3. CASE d \in Handled(m)
  <2>1. SettledDoc(m, s, d)
    BY <1>1, <1>3 DEF Settled
  <2> QED BY <1>1, <1>3, <2>1, SettledKept DEF Done
<1> QED BY <1>1, <1>2, <1>3

-----------------------------------------------------------------------------
(* Import: a document is planned *)

\* Names like that of a new document are as they were read.
LEMMA ClassAsRead ==
    ASSUME NEW m, NEW s, m.pc = "plan", Faithful(m, s), Fold[Name(m)] \notin m.written
    PROVE  /\ \A n \in Mine : Fold[n] = Fold[Name(m)] => n \notin m.claimed /\ Still(m, s, n)
           /\ m.calm = Names /\ ImportAssumption => SameClass(m.seen, s, Name(m)) /\ SameClass(s, m.seen, Name(m))
<1>1. \A n \in Mine : Fold[n] = Fold[Name(m)] => n \notin m.claimed /\ Still(m, s, n)
  BY DEF Faithful, InOrder, AsRead, Working
<1> QED BY <1>1 DEF SameClass, Still, ImportAssumption

\* A document that is only accounted for.
LEMMA SyncDone ==
    ASSUME ImportAssumption, NEW m \in ImportStates, Placed(m), NEW s \in NotesType, Faithful(m, s),
           m.pc = "plan", m.todo # {}, NEW C \in SUBSET Mine,
           NEW x \in ImportStates,
           x = [m EXCEPT !.written = m.written \cup {Fold[Name(m)]}, !.claimed = C],
           m.claimed \subseteq C, \A n \in C \ m.claimed : Fold[n] = Fold[Name(m)],
           Name(m) \in C \/ m.seen[Name(m)] = NoFile \/ Fold[Name(m)] \in m.written,
           m.calm = Names => \A k : Done(m, k, C) => SettledDoc(k, s, First(m.todo))
    PROVE  Faithful(NextDoc(x), s)
<1> DEFINE k == NextDoc(x)
<1>1. /\ x.todo = m.todo /\ x.docs = m.docs /\ x.seen = m.seen /\ x.taken = m.taken /\ x.calm = m.calm
      /\ x.skipped = m.skipped /\ x.claimed = C /\ x.written = m.written \cup {Fold[Name(m)]}
  BY DEF ImportStates
<1>2. Done(m, k, C) /\ k.calm = m.calm /\ k.skipped = m.skipped /\ k.taken = m.taken
  BY <1>1, NextDocIs DEF Done
<1> HIDE DEF k
<1>3. InOrder(m) /\ Accounted(m) /\ AsRead(m, s) /\ IdsKnown(m, s) /\ Settled(m, s) /\ m.pc \in Working
  BY DEF Faithful, Working
<1>4. InOrder(k) /\ Accounted(k)
  BY <1>2, <1>3, DoneAccounted
<1>5. AsRead(k, s)
  BY <1>2, <1>3 DEF AsRead, Done, Still, Pruning, Working
<1>6. IdsKnown(k, s)
  BY <1>2, <1>3 DEF IdsKnown, Done, Working
<1>7. Settled(k, s)
  BY <1>2, <1>3, DoneSettled DEF SameClass
<1> QED BY <1>4, <1>5, <1>6, <1>7 DEF Faithful, k

LEMMA SyncTwice ==
    ASSUME ImportAssumption, NEW m \in ImportStates, Placed(m), NEW s \in NotesType, Faithful(m, s),
           m.pc = "plan", m.todo # {}, Fold[Name(m)] \in m.written,
           NEW x \in ImportStates,
           x = [m EXCEPT !.written = m.written \cup {Fold[Name(m)]}]
    PROVE  Faithful(NextDoc(x), s)
<1>1. m.claimed \in SUBSET Mine /\ x = [m EXCEPT !.written = m.written \cup {Fold[Name(m)]}, !.claimed = m.claimed]
  BY DEF ImportStates
<1>2. ASSUME NEW k, Done(m, k, m.claimed) PROVE SettledDoc(k, s, First(m.todo))
  <2>1. Earlier(k, First(m.todo))
    BY <1>2, DoneAccounted DEF Faithful, Working
  <2> QED BY <2>1 DEF SettledDoc
<1> QED BY <1>1, <1>2, SyncDone

LEMMA SyncAmbiguous ==
    ASSUME ImportAssumption, NEW m \in ImportStates, Placed(m), NEW s \in NotesType, Faithful(m, s),
           m.pc = "plan", m.todo # {}, Fold[Name(m)] \notin m.written, ambiguous(m.seen, Name(m)),
           NEW x \in ImportStates,
           x = [m EXCEPT !.written = m.written \cup {Fold[Name(m)]},
                         !.claimed = m.claimed \cup folded(m.seen, Name(m))]
    PROVE  Faithful(NextDoc(x), s)
<1> DEFINE C == m.claimed \cup folded(m.seen, Name(m))
<1>1. C \in SUBSET Mine /\ Name(m) \in Mine
  BY NameIn DEF ImportStates, folded
<1>2. \A n \in C \ m.claimed : Fold[n] = Fold[Name(m)]
  BY DEF folded
<1>3. m.seen[Name(m)] = NoFile
  BY <1>1 DEF ambiguous, folded
<1>4. ASSUME NEW k, Done(m, k, C), m.calm = Names PROVE SettledDoc(k, s, First(m.todo))
  <2>1. SameClass(m.seen, s, Name(m))
    BY <1>4, ClassAsRead
  <2>2. ambiguous(s, Name(m)) /\ folded(s, Name(m)) \subseteq C
    BY <2>1, ClassKept
  <2> QED BY <1>4, <2>2 DEF SettledDoc, Done, Name
<1> HIDE DEF C
<1>5. x = [m EXCEPT !.written = m.written \cup {Fold[Name(m)]}, !.claimed = C]
  BY DEF C
<1>6. m.claimed \subseteq C
  BY DEF C
<1> QED BY <1>1, <1>2, <1>3, <1>4, <1>5, <1>6, SyncDone

\* The note a document has, which need not be written.
LEMMA SyncKeeps ==
    ASSUME ImportAssumption, NEW m \in ImportStates, Placed(m), NEW s \in NotesType, Faithful(m, s),
           m.pc = "plan", m.todo # {}, Fold[Name(m)] \notin m.written, ~ ambiguous(m.seen, Name(m)),
           NEW from, from = existing(m.seen, Name(m)), from # NoFile,
           planned(First(m.todo), m.docs[First(m.todo)].text, m.seen[from], m.force) \notin Writes,
           NEW x \in ImportStates,
           x = [m EXCEPT !.written = m.written \cup {Fold[Name(m)]},
                         !.claimed = m.claimed \cup ({from, Name(m)} \ {NoFile})]
    PROVE  Faithful(NextDoc(x), s)
<1> DEFINE C == m.claimed \cup ({from, Name(m)} \ {NoFile})
           d == First(m.todo)
<1>1. Name(m) \in Mine /\ NoFile \notin Mine
  BY NameIn DEF ImportAssumption
<1>2. Hit(m.seen, Name(m), from)
  BY <1>1, ExistingHit
<1>3. from \in Mine /\ Fold[from] = Fold[Name(m)]
  BY <1>2 DEF Hit, folded
<1>4. C \in SUBSET Mine /\ \A n \in C \ m.claimed : Fold[n] = Fold[Name(m)]
  BY <1>1, <1>3 DEF ImportStates
<1>5. ASSUME NEW k, Done(m, k, C), m.calm = Names PROVE SettledDoc(k, s, d)
  <2>1. SameClass(m.seen, s, Name(m))
    BY <1>5, ClassAsRead
  <2>2. Hit(s, Name(m), from) /\ s[from] = m.seen[from]
    BY <1>2, <2>1, ClassKept DEF Hit
  <2>3. planned(d, m.docs[d].text, m.seen[from], FALSE) \notin Writes
    <3> DEFINE t == m.docs[d].text
               n == m.seen[from]
    <3>1. n # NoFile
      BY <1>2 DEF Hit, folded
    <3> HIDE DEF t, n, d
    <3>2. planned(d, t, n, m.force) \notin Writes => planned(d, t, n, FALSE) \notin Writes
      BY <3>1 DEF planned, Writes
    <3> QED BY <3>2 DEF t, n, d
  <2> QED BY <1>1, <1>5, <2>2, <2>3 DEF SettledDoc, Done, Name
<1> HIDE DEF C
<1>6. x = [m EXCEPT !.written = m.written \cup {Fold[Name(m)]}, !.claimed = C]
  BY DEF C
<1>7. m.claimed \subseteq C /\ Name(m) \in C
  BY <1>1 DEF C
<1> QED BY <1>4, <1>5, <1>6, <1>7, SyncDone

\* k is m about to write the note of its first document, which is at from.
Written(m, k, from) ==
    LET d == First(m.todo)
    IN  /\ k.pc = (IF from \in {NoFile, Name(m)} THEN "write" ELSE "rename") /\ k.from = from
        /\ k.docs = m.docs /\ k.todo = m.todo /\ k.seen = m.seen /\ k.calm = m.calm /\ k.force = m.force
        /\ k.skipped = m.skipped /\ k.written = m.written \cup {Fold[Name(m)]}
        /\ k.claimed = m.claimed \cup ({from, Name(m)} \ {NoFile})
        /\ k.taken = [m.taken EXCEPT ![k.id] = Name(m)]
        /\ from # NoFile => k.id = m.seen[from].id
        /\ from = NoFile => k.id = <<Slug[d], d>> \/ (k.id = <<Slug[d], NoFile>> /\ m.taken[k.id] = NoFile)

LEMMA SyncWrites ==
    ASSUME ImportAssumption, NEW m \in ImportStates, Placed(m), NEW s \in NotesType, Faithful(m, s),
           m.pc = "plan", m.todo # {}, Fold[Name(m)] \notin m.written, ~ ambiguous(m.seen, Name(m)),
           NEW from, from = existing(m.seen, Name(m)),
           planned(First(m.todo), m.docs[First(m.todo)].text,
                   IF from = NoFile THEN NoFile ELSE m.seen[from], m.force) \in Writes,
           NEW k \in ImportStates, Written(m, k, from)
    PROVE  Faithful(k, s)
<1> DEFINE d == First(m.todo)
           t == m.docs[d].text
<1>1. Name(m) \in Mine /\ Name(m) \in Names /\ NoFile \notin Mine /\ NoFile \notin Names
  BY NameIn DEF ImportAssumption
<1>2. from # NoFile => Hit(m.seen, Name(m), from)
  BY <1>1, ExistingHit
<1>3. from = NoFile => folded(m.seen, Name(m)) = {}
  BY <1>1, ExistingHit
<1>4. from # NoFile => from \in Mine /\ Fold[from] = Fold[Name(m)] /\ m.seen[from] # NoFile
  BY <1>2 DEF Hit, folded
<1>5. from # Name(m) => m.seen[Name(m)] = NoFile
  <2>1. m.seen[Name(m)] # NoFile => Name(m) \in folded(m.seen, Name(m))
    BY <1>1 DEF folded
  <2>2. Name(m) \in folded(m.seen, Name(m)) => from = Name(m)
    BY DEF existing
  <2> QED BY <2>1, <2>2
<1>6. Has(k) = Has(m) /\ Handled(k) = Handled(m) /\ Name(k) = Name(m) /\ First(k.todo) = d
  BY DEF Has, Handled, Name, Written
<1>7. \A c : Earlier(k, c) <=> Earlier(m, c)
  BY <1>6 DEF Earlier
<1>8. InOrder(m) /\ Accounted(m) /\ AsRead(m, s) /\ IdsKnown(m, s) /\ Settled(m, s) /\ m.pc \in Working
  BY DEF Faithful, Working
<1>9. k.pc \in {"write", "rename"} /\ (k.pc = "rename" <=> from \notin {NoFile, Name(m)})
  BY DEF Written
<1>10. InOrder(k)
  <2>1. \A n \in k.claimed : Fold[n] \in k.written
    BY <1>4, <1>8 DEF InOrder, Written
  <2>2. \A c \in Handled(k), e \in k.todo : c < e
    BY <1>6, <1>8 DEF InOrder, Written
  <2>3. \A c \in Handled(k) : Fold[NameOf[c]] \in k.written
    BY <1>6, <1>8 DEF InOrder, Written
  <2>4. \A x \in m.written : \E e \in Handled(m) : x = Fold[NameOf[e]]
    BY <1>8 DEF InOrder
  <2>5. Fold[Name(m)] = Fold[NameOf[First(k.todo)]]
    BY <1>6 DEF Name
  <2>6. \A x \in k.written : \E e \in Handled(k) \cup {First(k.todo)} : x = Fold[NameOf[e]]
    BY <1>6, <2>4, <2>5 DEF Written
  <2> QED BY <1>9, <2>1, <2>2, <2>3, <2>6 DEF InOrder, Working
<1>11. from # NoFile => Held(k)
  <2> SUFFICES ASSUME from # NoFile PROVE Held(k)
    OBVIOUS
  <2> DEFINE n == m.seen[from]
  <2>1. planned(d, t, n, m.force) \in Writes /\ n # NoFile
    BY <1>4
  <2> HIDE DEF n, t, d
  <2>2. n.managed /\ (Same(t, n) \/ ~ edited(n) \/ m.force)
    BY <2>1 DEF planned, Writes
  <2>3. from \in k.claimed /\ Fold[from] = Fold[Name(k)]
    BY <1>4, <1>6 DEF Written
  <2> QED BY <1>6, <2>1, <2>2, <2>3 DEF Held, Written, n, t, d
<1>12. Accounted(k)
  <2>1. \A c \in Handled(k) : NameOf[c] \in k.claimed \/ k.seen[NameOf[c]] = NoFile \/ Earlier(k, c)
    BY <1>6, <1>7, <1>8 DEF Accounted, Written
  <2>2. Name(k) \in k.claimed /\ k.taken[k.id] = Name(k)
    BY <1>1, <1>6 DEF Written, ImportStates
  <2>3. \A e \in Handled(k) : Fold[NameOf[e]] # Fold[Name(k)]
    BY <1>6, <1>8 DEF InOrder
  <2>4. k.from = from
    BY DEF Written
  <2>5. k.pc = "rename" => k.from \notin {NoFile, Name(k)}
    BY <1>6, <1>9, <2>4
  <2> QED BY <1>9, <1>11, <2>1, <2>2, <2>3, <2>4, <2>5 DEF Accounted, Pruning
<1>13. AsRead(k, s)
  <2>1. \A n \in Mine : Fold[n] = Fold[Name(m)] => Still(m, s, n)
    BY ClassAsRead
  <2>2. \A n : Still(m, s, n) <=> Still(k, s, n)
    BY DEF Still, Written
  <2>3. \A n \in Mine \ k.claimed : Still(k, s, n)
    BY <1>8, <2>2 DEF AsRead, Written
  <2>4. from # NoFile => Still(k, s, from)
    BY <1>4, <2>1, <2>2
  <2>5. Name(m) \in k.calm => s[Name(m)] = k.seen[Name(m)]
    BY <1>1, <2>1, <2>2 DEF Still
  <2>6. k.pc = "rename" => Still(k, s, k.from) /\ (Name(k) \in k.calm => s[Name(k)] = NoFile)
    BY <1>5, <1>6, <1>9, <2>4, <2>5 DEF Written
  <2>7. k.pc = "write" => (Name(k) \in k.calm => s[Name(k)] = Previous(k))
    <3>1. k.from = from /\ k.seen = m.seen
      BY DEF Written
    <3>2. k.pc = "write" => from = Name(m) \/ from = NoFile
      BY <1>9
    <3>3. CASE from = NoFile
      BY <1>1, <1>5, <1>6, <2>5, <3>1, <3>3 DEF Previous
    <3>4. CASE from = Name(m)
      BY <1>1, <1>6, <2>5, <3>1, <3>4 DEF Previous
    <3> QED BY <3>2, <3>3, <3>4
  <2> QED BY <1>9, <2>3, <2>6, <2>7 DEF AsRead, Pruning
<1>14. IdsKnown(k, s)
  <2> SUFFICES ASSUME k.calm = Names
               PROVE  /\ \A n \in Names : s[n] # NoFile => k.taken[s[n].id] # NoFile
                      /\ k.from = NoFile => k.id = <<Slug[d], d>> \/ \A n \in Names : s[n] # NoFile => s[n].id # k.id
    BY <1>6 DEF IdsKnown
  <2>1. \A n \in Names : s[n] # NoFile => s[n].id \in Ids /\ m.taken[s[n].id] # NoFile
    BY <1>8 DEF IdsKnown, Written, NotesType, NoteFiles
  <2>2. \A x \in Ids : k.taken[x] = IF x = k.id THEN Name(m) ELSE m.taken[x]
    BY DEF Written, ImportStates
  <2>3. k.from = NoFile => k.id = <<Slug[d], d>> \/ m.taken[k.id] = NoFile
    BY DEF Written
  <2> QED BY <1>1, <2>1, <2>2, <2>3
<1>15. Settled(k, s)
  <2> SUFFICES ASSUME k.calm = Names, ~ k.skipped, NEW c \in Handled(k) PROVE SettledDoc(k, s, c)
    BY DEF Settled
  <2>1. SettledDoc(m, s, c)
    BY <1>6, <1>8 DEF Settled, Written
  <2>2. SameClass(s, s, NameOf[c]) /\ k.docs = m.docs /\ m.claimed \subseteq k.claimed
    BY DEF SameClass, Written
  <2> QED BY <2>1, <2>2, SettledKept
<1> QED BY <1>10, <1>12, <1>13, <1>14, <1>15 DEF Faithful

\* The import of i is what it continues with.
LEMMA Continued ==
    ASSUME ImportTypeOK, NEW i \in Importers, NEW k, Continue(i, k)
    PROVE  imp' = [imp EXCEPT ![i] = k] /\ imp'[i] = k /\ \A j \in Importers : j # i => imp'[j] = imp[j]
BY DEF Continue, ImportTypeOK

LEMMA MarkTyped ==
    ASSUME ImportAssumption, NEW m \in ImportStates, m.todo # {}, NEW D \in SUBSET Mine
    PROVE  LET x == [m EXCEPT !.written = m.written \cup {Fold[Name(m)]}]
               y == [m EXCEPT !.written = m.written \cup {Fold[Name(m)]}, !.claimed = m.claimed \cup D]
           IN  x \in ImportStates /\ y \in ImportStates /\ y = [x EXCEPT !.claimed = @ \cup D]
<1>1. m.written \cup {Fold[Name(m)]} \subseteq {Fold[NameOf[e]] : e \in Docs}
  BY NameIn DEF ImportStates, Name
<1>2. m.claimed \cup D \subseteq Mine
  BY DEF ImportStates
<1> QED BY <1>1, <1>2 DEF ImportStates

LEMMA SyncFaithful ==
    ASSUME ImportAssumption, ImportTypeOK, NEW i \in Importers, Faithful(imp[i], notes), syncDoc(i)
    PROVE  Faithful(imp'[i], notes)
<1> DEFINE m     == imp[i]
           d     == First(m.todo)
           name  == Name(m)
           seen  == m.seen
           from  == existing(seen, name)
           prev  == IF from = NoFile THEN NoFile ELSE seen[from]
           write == planned(d, m.docs[d].text, prev, m.force) \in Writes
           named == {from, name} \ {NoFile}
           id    == assignID(i, d, from, prev)
           pc    == IF from \in {NoFile, name} THEN "write" ELSE "rename"
           me    == [m EXCEPT !.written = m.written \cup {Fold[name]}]
           many  == [me EXCEPT !.claimed = @ \cup folded(seen, name)]
           mine  == [me EXCEPT !.claimed = @ \cup named]
           next  == [mine EXCEPT !.from = from, !.id = id, !.taken[id] = name, !.pc = pc]
<1>1. /\ m \in ImportStates /\ Placed(m) /\ notes \in NotesType /\ m.pc = "plan" /\ m.todo # {}
      /\ Faithful(m, notes)
  BY PlacedIs DEF syncDoc, In, NotesType
<1>2. Continue(i, IF Fold[name] \in m.written THEN NextDoc(me)
                  ELSE IF ambiguous(seen, name) THEN NextDoc(many)
                  ELSE IF ~ write THEN NextDoc(mine) ELSE next)
  BY DEF syncDoc, Doc, Name, claims, Writes
<1>3. imp'[i] = IF Fold[name] \in m.written THEN NextDoc(me)
                ELSE IF ambiguous(seen, name) THEN NextDoc(many)
                ELSE IF ~ write THEN NextDoc(mine) ELSE next
  BY <1>2, Continued
<1>4. imp'[i] \in ImportStates
  BY SyncTyped, PlacedIs DEF ImportTypeOK
<1>5. folded(seen, name) \subseteq Mine /\ named \subseteq Mine
  <2>1. name \in Mine
    BY <1>1, NameIn
  <2> QED BY <2>1, ExistingIn
<1>6. me \in ImportStates
  BY <1>1, <1>5, MarkTyped
<1>7. many \in ImportStates /\ many = [m EXCEPT !.written = m.written \cup {Fold[name]},
                                                !.claimed = m.claimed \cup folded(seen, name)]
  BY <1>1, <1>5, MarkTyped
<1>8. mine \in ImportStates /\ mine = [m EXCEPT !.written = m.written \cup {Fold[name]},
                                                !.claimed = m.claimed \cup named]
  BY <1>1, <1>5, MarkTyped
<1>9. id = IF prev # NoFile THEN prev.id
           ELSE IF m.taken[<<Slug[d], NoFile>>] \notin {NoFile, from} THEN <<Slug[d], d>> ELSE <<Slug[d], NoFile>>
  BY DEF assignID
<1> HIDE DEF m, d, name, seen, from, prev, write, named, id, pc, me, many, mine, next
<1>13. CASE Fold[name] \in m.written
  BY <1>1, <1>3, <1>6, <1>13, SyncTwice DEF me, name
<1>10. CASE Fold[name] \notin m.written /\ ambiguous(seen, name)
  <2>1. imp'[i] = NextDoc(many)
    BY <1>3, <1>10
  <2>2. Fold[Name(m)] \notin m.written /\ ambiguous(m.seen, Name(m))
    BY <1>10 DEF seen, name
  <2>3. many \in ImportStates /\ many = [m EXCEPT !.written = m.written \cup {Fold[Name(m)]},
                                                !.claimed = m.claimed \cup folded(m.seen, Name(m))]
    BY <1>7 DEF seen, name
  <2>4. Faithful(NextDoc(many), notes)
    BY <1>1, <2>2, <2>3, SyncAmbiguous
  <2> QED BY <2>1, <2>4
<1>11. CASE Fold[name] \notin m.written /\ ~ ambiguous(seen, name) /\ ~ write
  <2>1. imp'[i] = NextDoc(mine)
    BY <1>3, <1>11
  <2>2. from # NoFile
    BY <1>11 DEF planned, Writes, write, prev
  <2>3. planned(First(m.todo), m.docs[First(m.todo)].text, m.seen[from], m.force) \notin Writes
    BY <1>11, <2>2 DEF write, prev, d, seen
  <2>4. /\ Fold[Name(m)] \notin m.written /\ ~ ambiguous(m.seen, Name(m))
        /\ from = existing(m.seen, Name(m))
    BY <1>11 DEF seen, name, from
  <2>5. mine \in ImportStates /\ mine = [m EXCEPT !.written = m.written \cup {Fold[Name(m)]},
                                                !.claimed = m.claimed \cup ({from, Name(m)} \ {NoFile})]
    BY <1>8 DEF name, named
  <2>6. Faithful(NextDoc(mine), notes)
    BY <1>1, <2>2, <2>3, <2>4, <2>5, SyncKeeps
  <2> QED BY <2>1, <2>6
<1>12. CASE Fold[name] \notin m.written /\ ~ ambiguous(seen, name) /\ write
  <2>1. imp'[i] = next
    BY <1>3, <1>12
  <2>2. from # NoFile => id = m.seen[from].id
    <3>1. from # NoFile => seen[from] # NoFile
      BY ExistingIn DEF from
    <3> QED BY <1>9, <3>1 DEF prev, seen
  <2>3. from = NoFile => id = <<Slug[d], d>> \/ (id = <<Slug[d], NoFile>> /\ m.taken[id] = NoFile)
    <3> SUFFICES ASSUME from = NoFile PROVE id = <<Slug[d], d>> \/ (id = <<Slug[d], NoFile>> /\ m.taken[id] = NoFile)
      OBVIOUS
    <3>1. prev = NoFile
      BY DEF prev
    <3> QED BY <1>9, <3>1
  <2>4. /\ mine.docs = m.docs /\ mine.todo = m.todo /\ mine.seen = m.seen /\ mine.calm = m.calm
        /\ mine.force = m.force /\ mine.skipped = m.skipped /\ mine.written = m.written \cup {Fold[name]}
        /\ mine.claimed = m.claimed \cup named /\ mine.taken = m.taken
    BY <1>1, <1>8 DEF ImportStates
  <2>5. /\ next.pc = pc /\ next.from = from /\ next.docs = m.docs /\ next.todo = m.todo /\ next.seen = m.seen
        /\ next.calm = m.calm /\ next.force = m.force /\ next.skipped = m.skipped /\ next.id = id
        /\ next.written = m.written \cup {Fold[name]} /\ next.claimed = m.claimed \cup named
        /\ next.taken = [m.taken EXCEPT ![id] = name]
    BY <1>8, <2>4 DEF ImportStates, next
  <2>6. Written(m, next, from)
    BY <2>2, <2>3, <2>5 DEF Written, pc, name, named, d, from, prev, id
  <2>7. next \in ImportStates
    BY <1>4, <2>1
  <2>8. planned(First(m.todo), m.docs[First(m.todo)].text,
                IF from = NoFile THEN NoFile ELSE m.seen[from], m.force) \in Writes
    BY <1>12 DEF write, prev, d, seen
  <2> QED BY <1>1, <1>12, <2>1, <2>6, <2>7, <2>8, SyncWrites DEF from, seen, name, m
<1> QED BY <1>13, <1>10, <1>11, <1>12

-----------------------------------------------------------------------------
(* Import: an import goes on *)

LEMMA ReadFaithful ==
    ASSUME ImportAssumption, ImportTypeOK, NEW i \in Importers, Faithful(imp[i], notes), readNotes(i)
    PROVE  Faithful(imp'[i], notes)
<1> DEFINE m == imp[i]
           taken(any, id) == IF id \in DOMAIN any THEN any[id]
                             ELSE IF holders(id) = {} THEN NoFile
                             ELSE CHOOSE n \in holders(id) : TRUE
<1>1. m \in ImportStates /\ m.pc = "read" /\ m.claimed = {} /\ m.written = {} /\ notes \in NotesType
  BY PlacedIs DEF readNotes, In, Faithful, InOrder, NotesType
<1>2. PICK any \in [{id \in Ids : Cardinality(holders(id)) > 1} -> Names] :
            /\ \A id \in DOMAIN any : any[id] \in holders(id)
            /\ Continue(i, [m EXCEPT !.pc = "plan", !.seen = notes, !.todo = Found(i), !.calm = Names,
                                     !.taken = [id \in Ids |-> taken(any, id)]])
  BY DEF readNotes
<1> DEFINE k == imp'[i]
<1>3. k = [m EXCEPT !.pc = "plan", !.seen = notes, !.todo = Found(i), !.calm = Names,
                    !.taken = [id \in Ids |-> taken(any, id)]]
  BY <1>2, Continued
<1>4. \A n \in Names : notes[n] # NoFile => notes[n].id \in Ids /\ taken(any, notes[n].id) # NoFile
  <2> SUFFICES ASSUME NEW n \in Names, notes[n] # NoFile PROVE notes[n].id \in Ids /\ taken(any, notes[n].id) # NoFile
    OBVIOUS
  <2> DEFINE id == notes[n].id
  <2>1. id \in Ids /\ n \in holders(id) /\ holders(id) \subseteq Names /\ NoFile \notin Names
    BY <1>1 DEF NotesType, NoteFiles, holders, takenFrom, ImportAssumption
  <2>2. taken(any, id) \in holders(id)
    BY <1>2, <2>1
  <2> QED BY <2>1, <2>2
<1>5. /\ k.pc = "plan" /\ k.seen = notes /\ k.todo = Has(m) /\ k.calm = Names /\ k.docs = m.docs
      /\ k.claimed = {} /\ k.written = {} /\ k.taken = [id \in Ids |-> taken(any, id)]
  BY <1>1, <1>3 DEF ImportStates, Found, Has
<1> HIDE DEF k, m, taken
<1>6. Handled(k) = {}
  BY <1>5 DEF Handled, Has
<1>7. InOrder(k) /\ Accounted(k)
  BY <1>5, <1>6 DEF InOrder, Accounted, Pruning
<1>8. AsRead(k, notes)
  BY <1>5 DEF AsRead, Still, Pruning
<1>9. IdsKnown(k, notes)
  BY <1>4, <1>5 DEF IdsKnown
<1>10. Settled(k, notes)
  BY <1>6 DEF Settled
<1> QED BY <1>7, <1>8, <1>9, <1>10 DEF Faithful, k

\* The document in hand is done with: its names are written and its note claimed.
LEMMA InHand ==
    ASSUME ImportAssumption, NEW m \in ImportStates, Placed(m), m.pc \in {"rename", "write"}, InOrder(m), Accounted(m)
    PROVE  /\ m.todo # {} /\ m.pc \in Working /\ Name(m) \in Mine /\ Name(m) \in Names /\ Name(m) \in m.claimed
           /\ First(m.todo) \in Docs /\ m.written = m.written \cup {Fold[Name(m)]}
           /\ \A e \in Handled(m) : Fold[NameOf[e]] # Fold[Name(m)]
           /\ m.from # NoFile => m.from \in m.claimed /\ m.from \in Mine /\ m.from \in Names /\ Fold[m.from] = Fold[Name(m)]
<1>1. m.todo # {} /\ m.pc \in Working /\ m.claimed \subseteq Mine /\ Mine \subseteq Names
  BY DEF Placed, Working, ImportStates, ImportAssumption
<1>2. First(m.todo) \in Docs /\ Name(m) \in Mine
  BY <1>1, NameIn
<1>3. Name(m) \in m.claimed /\ \A e \in Handled(m) : Fold[NameOf[e]] # Fold[Name(m)]
  BY DEF Accounted
<1>4. Fold[Name(m)] \in m.written
  BY <1>1, <1>3 DEF InOrder
<1>5. m.from # NoFile => m.from \in m.claimed /\ Fold[m.from] = Fold[Name(m)]
  BY DEF Accounted, Held
<1> QED BY <1>1, <1>2, <1>3, <1>4, <1>5

Renamed(m, k, s, t) ==
    /\ t = [s EXCEPT ![Name(m)] = s[m.from], ![m.from] = NoFile]
    /\ k = [m EXCEPT !.pc = "write", !.calm = IF m.from \in m.calm THEN m.calm ELSE m.calm \ {Name(m)}]

LEMMA RenameFaithful ==
    ASSUME ImportAssumption, NEW m \in ImportStates, Placed(m), m.pc = "rename",
           NEW s \in NotesType, Faithful(m, s), NEW k, NEW t, Renamed(m, k, s, t)
    PROVE  Faithful(k, t)
<1>1. InOrder(m) /\ Accounted(m) /\ AsRead(m, s) /\ IdsKnown(m, s) /\ Settled(m, s)
  BY DEF Faithful
<1>2. /\ Name(m) \in Names /\ Name(m) \in m.claimed /\ m.pc \in Working
      /\ \A e \in Handled(m) : Fold[NameOf[e]] # Fold[Name(m)]
      /\ m.from # NoFile => m.from \in m.claimed /\ m.from \in Names /\ Fold[m.from] = Fold[Name(m)]
  BY <1>1, InHand
<1>3. m.from # NoFile /\ m.from # Name(m)
  BY <1>1 DEF Accounted
<1>4. /\ t[Name(m)] = s[m.from] /\ t[m.from] = NoFile
      /\ \A n \in Names \ {Name(m), m.from} : t[n] = s[n]
  BY <1>2, <1>3 DEF NotesType, Renamed
<1>5. /\ k.pc = "write" /\ k.docs = m.docs /\ k.todo = m.todo /\ k.seen = m.seen /\ k.taken = m.taken
      /\ k.claimed = m.claimed /\ k.written = m.written /\ k.from = m.from /\ k.id = m.id
      /\ k.force = m.force /\ k.skipped = m.skipped
      /\ k.calm = IF m.from \in m.calm THEN m.calm ELSE m.calm \ {Name(m)}
  BY DEF ImportStates, Renamed
<1>6. Has(k) = Has(m) /\ Handled(k) = Handled(m) /\ Name(k) = Name(m) /\ Previous(k) = Previous(m)
  BY <1>5 DEF Has, Handled, Name, Previous
<1>7. \A d : Earlier(k, d) <=> Earlier(m, d)
  BY <1>6 DEF Earlier
<1>8. InOrder(k)
  BY <1>1, <1>2, <1>5, <1>6 DEF InOrder, Working
<1>9. Accounted(k)
  <2>1. Held(m) => Held(k)
    BY <1>5, <1>6 DEF Held
  <2> QED BY <1>1, <1>2, <1>5, <1>6, <1>7, <2>1 DEF Accounted, Pruning
<1>10. AsRead(k, t)
  <2>1. \A n \in Mine \ k.claimed : Still(k, t, n)
    <3>1. \A n \in Mine \ m.claimed : Still(m, s, n) /\ t[n] = s[n]
      BY <1>1, <1>2, <1>3, <1>4 DEF AsRead, ImportAssumption
    <3>2. k.calm \subseteq m.calm /\ k.claimed = m.claimed /\ k.seen = m.seen
      BY <1>5
    <3> QED BY <3>1, <3>2 DEF Still
  <2>2. Name(k) \in k.calm => t[Name(k)] = Previous(k)
    <3>1. Name(k) \in k.calm => m.from \in m.calm
      BY <1>5, <1>6
    <3>2. m.from \in m.calm => s[m.from] = Previous(m)
      BY <1>1, <1>3 DEF AsRead, Still, Previous
    <3> QED BY <1>4, <1>6, <3>1, <3>2
  <2> QED BY <1>5, <2>1, <2>2 DEF AsRead, Pruning
<1>11. k.calm = Names => m.calm = Names
  BY <1>2, <1>5
<1>12. IdsKnown(k, t)
  <2> SUFFICES ASSUME k.calm = Names PROVE \A n \in Names : t[n] # NoFile => k.taken[t[n].id] # NoFile
    BY <1>3, <1>5 DEF IdsKnown
  <2>1. \A n \in Names : s[n] # NoFile => m.taken[s[n].id] # NoFile
    BY <1>1, <1>2, <1>11 DEF IdsKnown
  <2>2. \A n \in Names : t[n] # NoFile => \E x \in Names : s[x] # NoFile /\ t[n] = s[x]
    BY <1>2, <1>3, <1>4
  <2>3. k.taken = m.taken
    BY <1>5
  <2> QED BY <2>1, <2>2, <2>3
<1>13. Settled(k, t)
  <2> SUFFICES ASSUME k.calm = Names, ~ k.skipped, NEW d \in Handled(k) PROVE SettledDoc(k, t, d)
    BY DEF Settled
  <2>1. SettledDoc(m, s, d)
    BY <1>1, <1>2, <1>5, <1>6, <1>11 DEF Settled
  <2>2. SameClass(s, t, NameOf[d])
    <3>1. Fold[NameOf[d]] # Fold[Name(m)]
      BY <1>2, <1>6
    <3>2. \A x \in Mine : Fold[x] = Fold[NameOf[d]] => x \in Names \ {Name(m), m.from}
      BY <1>2, <1>3, <3>1 DEF ImportAssumption
    <3> QED BY <1>4, <3>2 DEF SameClass
  <2>3. k.docs = m.docs /\ m.claimed \subseteq k.claimed
    BY <1>5
  <2> QED BY <2>1, <2>2, <2>3, SettledKept
<1> QED BY <1>8, <1>9, <1>10, <1>12, <1>13 DEF Faithful

WrittenOut(m, k, s, t, note) ==
    /\ t = [s EXCEPT ![Name(m)] = note]
    /\ k = NextDoc(m)

LEMMA WriteFaithful ==
    ASSUME ImportAssumption, NEW m \in ImportStates, Placed(m), m.pc = "write",
           NEW s \in NotesType, Faithful(m, s), NEW note, NEW k, NEW t, WrittenOut(m, k, s, t, note),
           note # NoFile, note.managed, note.id = m.id, note.source = First(m.todo),
           Same(m.docs[First(m.todo)].text, note)
    PROVE  Faithful(k, t)
<1>1. InOrder(m) /\ Accounted(m) /\ AsRead(m, s) /\ IdsKnown(m, s) /\ Settled(m, s)
  BY DEF Faithful
<1>2. /\ Name(m) \in Names /\ Name(m) \in Mine /\ Name(m) \in m.claimed /\ m.pc \in Working /\ m.todo # {}
      /\ \A e \in Handled(m) : Fold[NameOf[e]] # Fold[Name(m)]
      /\ m.written = m.written \cup {Fold[Name(m)]}
  BY <1>1, InHand
<1>3. t[Name(m)] = note /\ \A n \in Names \ {Name(m)} : t[n] = s[n]
  BY <1>2 DEF NotesType, WrittenOut
<1>4. Done(m, k, m.claimed) /\ k.calm = m.calm /\ k.taken = m.taken /\ k.skipped = m.skipped
  BY <1>2, NextDocIs DEF Done, WrittenOut
<1>5. InOrder(k) /\ Accounted(k)
  BY <1>1, <1>2, <1>4, DoneAccounted
<1>6. k.pc = "plan" /\ k.claimed = m.claimed /\ k.seen = m.seen /\ k.docs = m.docs
  BY <1>4 DEF Done
<1>7. AsRead(k, t)
  <2>1. \A n \in Mine \ m.claimed : Still(m, s, n) /\ t[n] = s[n]
    BY <1>1, <1>2, <1>3 DEF AsRead, ImportAssumption
  <2> QED BY <1>4, <1>6, <2>1 DEF AsRead, Still, Pruning
<1>8. IdsKnown(k, t)
  <2> SUFFICES ASSUME k.calm = Names, NEW n \in Names, t[n] # NoFile PROVE k.taken[t[n].id] # NoFile
    BY <1>6 DEF IdsKnown
  <2>1. \A x \in Names : s[x] # NoFile => m.taken[s[x].id] # NoFile
    BY <1>1, <1>2, <1>4 DEF IdsKnown
  <2>2. m.taken[m.id] # NoFile
    <3>1. m.taken[m.id] = Name(m)
      BY <1>1 DEF Accounted
    <3> QED BY <1>2, <3>1 DEF ImportAssumption
  <2>3. CASE n = Name(m)
    BY <1>3, <1>4, <2>2, <2>3
  <2>4. CASE n # Name(m)
    BY <1>3, <1>4, <2>1, <2>4
  <2> QED BY <2>3, <2>4
<1>9. Settled(k, t)
  <2>1. SettledDoc(k, t, First(m.todo))
    <3> DEFINE d == First(m.todo)
    <3>1. Name(m) \in folded(t, Name(m))
      BY <1>2, <1>3 DEF folded
    <3>2. Hit(t, Name(m), Name(m)) /\ NameOf[d] = Name(m)
      BY <3>1 DEF Hit, Name
    <3>3. planned(d, m.docs[d].text, t[Name(m)], FALSE) = "unchanged"
      BY <1>3 DEF planned
    <3>4. k.docs[d].text = m.docs[d].text /\ Name(m) \in k.claimed
      BY <1>2, <1>6
    <3> HIDE DEF d
    <3> QED BY <3>2, <3>3, <3>4 DEF SettledDoc, Writes, d
  <2>2. \A d \in Handled(m) : SameClass(s, t, NameOf[d])
    <3> SUFFICES ASSUME NEW d \in Handled(m) PROVE SameClass(s, t, NameOf[d])
      OBVIOUS
    <3>1. \A x \in Mine : Fold[x] = Fold[NameOf[d]] => x \in Names \ {Name(m)}
      BY <1>2 DEF ImportAssumption
    <3> QED BY <1>3, <3>1 DEF SameClass
  <2> QED BY <1>1, <1>2, <1>4, <2>1, <2>2, DoneSettled
<1> QED BY <1>5, <1>7, <1>8, <1>9 DEF Faithful

\* A document that could not be written is done with.
LEMMA SkipFaithful ==
    ASSUME ImportAssumption, NEW m \in ImportStates, Placed(m), m.pc \in {"rename", "write"},
           NEW s \in NotesType, Faithful(m, s), NEW k, k = [NextDoc(m) EXCEPT !.skipped = TRUE]
    PROVE  Faithful(k, s)
<1>1. InOrder(m) /\ Accounted(m) /\ AsRead(m, s) /\ IdsKnown(m, s)
  BY DEF Faithful
<1>2. /\ m.written = m.written \cup {Fold[Name(m)]} /\ m.pc \in Working /\ m.todo # {} /\ Name(m) \in m.claimed
  BY <1>1, InHand
<1>3. NextDoc(m) \in ImportStates
  BY NextDocTyped DEF Placed
<1>4. Done(m, k, m.claimed) /\ k.calm = m.calm /\ k.taken = m.taken /\ k.skipped
  <2>1. /\ k.pc = NextDoc(m).pc /\ k.todo = NextDoc(m).todo /\ k.docs = NextDoc(m).docs /\ k.seen = NextDoc(m).seen
        /\ k.taken = NextDoc(m).taken /\ k.claimed = NextDoc(m).claimed /\ k.written = NextDoc(m).written
        /\ k.calm = NextDoc(m).calm /\ k.skipped
    BY <1>3 DEF ImportStates
  <2> QED BY <1>2, <2>1, NextDocIs DEF Done
<1> HIDE DEF Done
<1>5. InOrder(k) /\ Accounted(k)
  BY <1>1, <1>2, <1>4, DoneAccounted
<1>6. k.pc = "plan" /\ k.claimed = m.claimed /\ k.seen = m.seen /\ k.docs = m.docs
  BY <1>4 DEF Done
<1>7. AsRead(k, s)
  BY <1>1, <1>2, <1>4, <1>6 DEF AsRead, Still, Pruning
<1>8. IdsKnown(k, s)
  BY <1>1, <1>2, <1>4, <1>6 DEF IdsKnown
<1>9. Settled(k, s)
  BY <1>4 DEF Settled
<1> QED BY <1>5, <1>7, <1>8, <1>9 DEF Faithful

-----------------------------------------------------------------------------
(* Import: an import prunes *)

\* All documents are done with: m, but for where it stands.
Over(m, k) ==
    /\ k.docs = m.docs /\ k.todo = m.todo /\ k.seen = m.seen /\ k.claimed = m.claimed /\ k.force = m.force
    /\ k.calm = m.calm

LEMMA OverIs ==
    ASSUME NEW m, NEW k, Over(m, k)
    PROVE  /\ Has(k) = Has(m) /\ Handled(k) = Handled(m) /\ Left(k) = Left(m)
           /\ \A d : Earlier(k, d) <=> Earlier(m, d)
           /\ \A s, n : Still(k, s, n) <=> Still(m, s, n)
BY DEF Over, Has, Handled, Left, Earlier, Still

LEMMA OverSettled ==
    ASSUME NEW m, NEW k, NEW s, Over(m, k), Settled(m, s), m.pc \in Working \cup Pruning, m.skipped => k.skipped
    PROVE  Settled(k, s)
<1> SUFFICES ASSUME k.calm = Names, ~ k.skipped, NEW d \in Handled(k) PROVE SettledDoc(k, s, d)
  BY DEF Settled
<1>1. SettledDoc(m, s, d)
  BY OverIs DEF Settled, Over
<1>2. SameClass(s, s, NameOf[d]) /\ k.docs = m.docs /\ m.claimed \subseteq k.claimed
  BY DEF SameClass, Over
<1> QED BY <1>1, <1>2, SettledKept

\* What is accounted for stays so, with or without notes left to prune.
LEMMA OverFaithful ==
    ASSUME NEW m, NEW k, NEW s, Over(m, k), Faithful(m, s), m.pc \in Working \cup Pruning, m.todo = {},
           k.pc \in Pruning \cup {"finish"}, m.skipped => k.skipped,
           k.pc \in Pruning => k.rest \subseteq Left(m) /\ \A n \in k.rest : Still(m, s, n),
           k.pc = "remove" => /\ k.name \in Left(m) \ k.rest /\ Still(m, s, k.name)
                              /\ k.force \/ ~ edited(k.seen[k.name])
    PROVE  Faithful(k, s)
<1>1. Settled(k, s)
  BY OverSettled DEF Faithful
<1>2. InOrder(k) /\ IdsKnown(k, s)
  BY DEF InOrder, IdsKnown, Pruning, Working
<1>3. Accounted(k)
  <2>1. k.todo = {}
    BY DEF Over
  <2>2. \A d \in Handled(m) : NameOf[d] \in m.claimed \/ m.seen[NameOf[d]] = NoFile \/ Earlier(m, d)
    BY DEF Faithful, Accounted
  <2>3. \A d \in Handled(k) : NameOf[d] \in k.claimed \/ k.seen[NameOf[d]] = NoFile \/ Earlier(k, d)
    BY <2>2, OverIs DEF Over
  <2>4. Left(k) = Left(m)
    BY OverIs
  <2> QED BY <2>1, <2>3, <2>4 DEF Accounted, Pruning, Working
<1>4. AsRead(k, s)
  BY OverIs DEF AsRead, Pruning, Working
<1> QED BY <1>1, <1>2, <1>3, <1>4 DEF Faithful

\* A name of those not claimed is free again.
LEMMA RemovedSettled ==
    ASSUME NEW m, NEW k, NEW s, NEW t, NEW name \in Mine \ m.claimed, NEW d, SettledDoc(m, s, d), Over(m, k),
           t[name] = NoFile, \A n \in Mine \ {name} : t[n] = s[n]
    PROVE  SettledDoc(k, t, d)
<1>1. CASE Earlier(m, d)
  BY <1>1, OverIs DEF SettledDoc
<1>2. folded(t, NameOf[d]) = folded(s, NameOf[d]) \ {name}
  BY DEF folded
<1>3. CASE ambiguous(s, NameOf[d]) /\ folded(s, NameOf[d]) \subseteq m.claimed
  <2>1. folded(t, NameOf[d]) = folded(s, NameOf[d])
    BY <1>2, <1>3
  <2>2. ambiguous(t, NameOf[d]) /\ folded(t, NameOf[d]) \subseteq k.claimed
    BY <1>3, <2>1 DEF ambiguous, Over
  <2> QED BY <2>2 DEF SettledDoc
<1>4. ASSUME NEW x \in m.claimed, Hit(s, NameOf[d], x), planned(d, m.docs[d].text, s[x], FALSE) \notin Writes
      PROVE  SettledDoc(k, t, d)
  <2>1. x \in Mine /\ x # name
    BY <1>4 DEF Hit, folded
  <2>2. t[x] = s[x] /\ Hit(t, NameOf[d], x) /\ x \in k.claimed /\ k.docs = m.docs
    BY <1>2, <1>4, <2>1 DEF Hit, Over
  <2> QED BY <1>4, <2>2 DEF SettledDoc
<1> QED BY <1>1, <1>3, <1>4 DEF SettledDoc

Removed(m, k, s, t) ==
    /\ t = [s EXCEPT ![m.name] = NoFile]
    /\ k = [m EXCEPT !.pc = "orphans", !.name = NoFile]

LEMMA RemoveFaithful ==
    ASSUME ImportAssumption, NEW m \in ImportStates, m.pc = "remove", NEW s \in NotesType, Faithful(m, s),
           NEW k, NEW t, Removed(m, k, s, t)
    PROVE  Faithful(k, t)
<1>1. InOrder(m) /\ Accounted(m) /\ AsRead(m, s) /\ Settled(m, s) /\ m.pc \in Pruning
  BY DEF Faithful, Pruning
<1>2. /\ Over(m, k) /\ k.pc = "orphans" /\ k.rest = m.rest /\ k.skipped = m.skipped
  BY DEF Over, Removed, ImportStates
<1>3. /\ m.todo = {} /\ m.name \in Mine \ m.claimed /\ m.name \notin m.rest /\ m.name \in Names
      /\ m.rest \subseteq Left(m) /\ Mine \subseteq Names
  BY <1>1 DEF Accounted, Left, ImportAssumption
<1>4. t[m.name] = NoFile /\ \A n \in Names \ {m.name} : t[n] = s[n]
  BY <1>3 DEF Removed, NotesType
<1>5. InOrder(k) /\ IdsKnown(k, t)
  BY <1>2 DEF InOrder, IdsKnown, Working
<1>6. Accounted(k)
  <2>1. \A d \in Handled(m) : NameOf[d] \in m.claimed \/ m.seen[NameOf[d]] = NoFile \/ Earlier(m, d)
    BY <1>1 DEF Accounted
  <2>2. \A d \in Handled(k) : NameOf[d] \in k.claimed \/ k.seen[NameOf[d]] = NoFile \/ Earlier(k, d)
    BY <1>2, <2>1, OverIs DEF Over
  <2>3. Left(k) = Left(m) /\ k.todo = {}
    BY <1>2, <1>3, OverIs DEF Over
  <2> QED BY <1>2, <1>3, <2>2, <2>3 DEF Accounted, Pruning
<1>7. AsRead(k, t)
  <2>1. \A n \in m.rest : Still(m, s, n) /\ t[n] = s[n]
    BY <1>1, <1>3, <1>4 DEF AsRead, Left
  <2>2. \A n \in k.rest : Still(k, t, n)
    BY <1>2, <2>1 DEF Still, Over
  <2> QED BY <1>2, <2>2 DEF AsRead, Working
<1>8. Settled(k, t)
  <2> SUFFICES ASSUME k.calm = Names, ~ k.skipped, NEW d \in Handled(k) PROVE SettledDoc(k, t, d)
    BY DEF Settled
  <2>1. d \in Handled(m) /\ m.calm = Names
    BY <1>2, OverIs DEF Over
  <2>2. SettledDoc(m, s, d)
    BY <1>1, <1>2, <2>1 DEF Settled
  <2> QED BY <1>2, <1>3, <1>4, <2>2, RemovedSettled
<1> QED BY <1>5, <1>6, <1>7, <1>8 DEF Faithful

-----------------------------------------------------------------------------
(* Import: what each import relies on, after each of its steps *)

LEMMA TimelyKept ==
    ASSUME NEW m, NEW k, NEW f, NEW e, Timely(m, f, e), k.docs = m.docs, k.pc # "remove"
    PROVE  Timely(k, f, e)
BY DEF Timely, Has

LEMMA SoundContinue ==
    ASSUME ImportTypeOK, Sound, NEW i \in Importers, NEW k, Continue(i, k), UNCHANGED <<source, notes, edits>>,
           Faithful(imp'[i], notes), Timely(imp'[i], source, edits)
    PROVE  Sound'
<1> SUFFICES ASSUME NEW j \in Importers PROVE Faithful(imp'[j], notes) /\ Timely(imp'[j], source, edits)
  BY DEF Sound
<1>1. j # i => imp'[j] = imp[j]
  BY Continued
<1> QED BY <1>1 DEF Sound

LEMMA SoundChange ==
    ASSUME ImportAssumption, ImportTypeOK, Sound, NEW i, notes' \in NotesType, UNCHANGED <<source, edits>>,
           NEW S, \A n \in Names \ S : notes'[n] = notes[n],
           i \in Importers => Faithful(imp'[i], notes') /\ Timely(imp'[i], source, edits),
           \A j \in Importers : j # i => imp'[j] = Disturbed(j, S)
    PROVE  Sound'
<1> SUFFICES ASSUME NEW j \in Importers PROVE Faithful(imp'[j], notes') /\ Timely(imp'[j], source, edits)
  BY DEF Sound
<1>1. CASE j # i
  <2>1. imp'[j] = [imp[j] EXCEPT !.calm = imp[j].calm \ S]
    BY <1>1 DEF Disturbed
  <2>2. imp[j] \in ImportStates /\ Placed(imp[j]) /\ notes \in NotesType
    BY PlacedIs DEF NotesType
  <2>3. Faithful(imp[j], notes) /\ Timely(imp[j], source, edits)
    BY DEF Sound
  <2> DEFINE m == imp[j]
             k == [m EXCEPT !.calm = m.calm \ S]
  <2>4. m \in ImportStates /\ Placed(m) /\ Faithful(m, notes) /\ Timely(m, source, edits) /\ imp'[j] = k
    BY <2>1, <2>2, <2>3
  <2> HIDE DEF m
  <2>5. Faithful(k, notes')
    BY <2>2, <2>4, OthersFaithful
  <2>6. Timely(k, source, edits)
    BY <2>4, OthersTimely
  <2> QED BY <2>4, <2>5, <2>6
<1> QED BY <1>1

\* An import that has read nothing relies on nothing.
LEMMA NothingFaithful ==
    ASSUME NEW i \in Importers, NEW s, NEW f, NEW e
    PROVE  Faithful(Fails(i), s) /\ Timely(Fails(i), f, e)
<1>1. Fails(i).pc = "idle" /\ Fails(i).claimed = {} /\ Fails(i).written = {} /\ Fails(i).docs = Nothing
  BY DEF Fails, Unstarted
<1> QED BY <1>1, NothingRead DEF Timely, Has, Nothing

LEMMA ScanFaithful ==
    ASSUME ImportAssumption, ImportTypeOK, Step, Sound, NEW i \in Importers,
           ScanDoc(i) \/ ScanDone(i) \/ ImportFails(i) \/ ImportKilled(i) \/ finishImport(i)
    PROVE  Sound'
<1> DEFINE m == imp[i]
<1>1. m \in ImportStates /\ Faithful(m, notes) /\ Timely(m, source, edits) /\ UNCHANGED <<source, notes, edits>>
  BY PlacedIs DEF Sound, ScanDoc, ScanDone, ImportFails, ImportKilled, finishImport, ImportSame
<1>2. CASE Continue(i, Fails(i))
  <2>1. imp'[i] = Fails(i)
    BY <1>2, Continued
  <2> QED BY <1>1, <1>2, <2>1, NothingFaithful, SoundContinue
<1>3. ASSUME NEW d, d = First(m.todo), m.pc = "scan", m.todo # {}, source[d] # NoFile,
             Continue(i, [m EXCEPT !.docs[d] = source[d], !.todo = @ \ {d}])
      PROVE  Sound'
  <2> DEFINE k == [m EXCEPT !.docs[d] = source[d], !.todo = @ \ {d}]
  <2>1. imp'[i] = k
    BY <1>3, Continued
  <2>2. d \in Docs
    BY <1>1, <1>3, NameIn
  <2>3. /\ k.pc = "scan" /\ k.docs = [m.docs EXCEPT ![d] = source[d]] /\ k.claimed = {} /\ k.written = {}
    BY <1>1, <1>3 DEF ImportStates, Faithful, InOrder
  <2> HIDE DEF k
  <2>4. Faithful(k, notes)
    BY <2>3, NothingRead
  <2>5. source[d].stamp <= edits
    BY <1>3, <2>2 DEF Step, Old
  <2>6. \A c \in Has(k) : k.docs[c].stamp <= edits
    <3> SUFFICES ASSUME NEW c \in Has(k) PROVE k.docs[c].stamp <= edits
      OBVIOUS
    <3>1. CASE c = d
      <4>1. k.docs[d] = source[d]
        BY <1>1, <2>2, <2>3 DEF ImportStates
      <4> QED BY <2>5, <3>1, <4>1
    <3>2. CASE c # d
      <4>1. k.docs[c] = m.docs[c] /\ c \in Docs
        BY <1>1, <2>2, <2>3, <3>2 DEF ImportStates, Has
      <4>2. c \in Has(m)
        BY <4>1 DEF Has
      <4> QED BY <1>1, <4>1, <4>2 DEF Timely
    <3> QED BY <3>1, <3>2
  <2>7. Timely(k, source, edits)
    BY <2>3, <2>6 DEF Timely
  <2> QED BY <1>1, <1>3, <2>1, <2>4, <2>7, SoundContinue DEF k
<1>4. ASSUME m.pc = "scan", Continue(i, [m EXCEPT !.pc = "read"]) PROVE Sound'
  <2> DEFINE k == [m EXCEPT !.pc = "read"]
  <2>1. imp'[i] = k
    BY <1>4, Continued
  <2>2. k.pc = "read" /\ k.docs = m.docs /\ k.claimed = {} /\ k.written = {}
    BY <1>1, <1>4 DEF ImportStates, Faithful, InOrder
  <2> HIDE DEF k
  <2>3. Faithful(k, notes) /\ Timely(k, source, edits)
    BY <1>1, <2>2, NothingRead, TimelyKept
  <2> QED BY <1>1, <1>4, <2>1, <2>3, SoundContinue DEF k
<1>5. ASSUME Continue(i, [Unstarted EXCEPT !.docs = m.docs, !.failed = m.failed]) PROVE Sound'
  <2> DEFINE k == [Unstarted EXCEPT !.docs = m.docs, !.failed = m.failed]
  <2>1. imp'[i] = k
    BY <1>5, Continued
  <2>2. k.pc = "idle" /\ k.docs = m.docs /\ k.claimed = {} /\ k.written = {}
    BY DEF Unstarted
  <2> HIDE DEF k
  <2>3. Faithful(k, notes) /\ Timely(k, source, edits)
    BY <1>1, <2>2, NothingRead, TimelyKept
  <2> QED BY <1>1, <1>5, <2>1, <2>3, SoundContinue DEF k
<1> QED BY <1>2, <1>3, <1>4, <1>5 DEF ScanDoc, ScanDone, ImportFails, ImportKilled, finishImport, In

LEMMA WorkFaithful ==
    ASSUME ImportAssumption, ImportTypeOK, Sound, NEW i \in Importers,
           readNotes(i) \/ syncDoc(i) \/ WriteFails(i)
    PROVE  Sound'
<1> DEFINE m == imp[i]
<1>1. /\ m \in ImportStates /\ Placed(m) /\ Faithful(m, notes) /\ Timely(m, source, edits)
      /\ notes \in NotesType /\ UNCHANGED <<source, notes, edits>>
  BY PlacedIs DEF Sound, readNotes, syncDoc, WriteFails, ImportSame, NotesType
<1>2. CASE readNotes(i)
  <2>1. PICK x : Continue(i, [m EXCEPT !.pc = "plan", !.seen = notes, !.todo = Found(i), !.calm = Names, !.taken = x])
    BY <1>2 DEF readNotes
  <2>2. imp'[i] = [m EXCEPT !.pc = "plan", !.seen = notes, !.todo = Found(i), !.calm = Names, !.taken = x]
    BY <2>1, Continued
  <2>3. imp'[i].pc = "plan" /\ imp'[i].docs = m.docs
    BY <1>1, <2>2 DEF ImportStates
  <2>4. Faithful(imp'[i], notes) /\ Timely(imp'[i], source, edits)
    BY <1>1, <1>2, <2>3, ReadFaithful, TimelyKept
  <2> QED BY <1>1, <2>1, <2>4, SoundContinue
<1>3. CASE syncDoc(i)
  <2>1. PICK x \in ImportStates : Further(x, m) /\ Continue(i, x) /\ x.pc \in Working
    BY <1>3, SyncLeaves DEF Working
  <2>2. imp'[i] = x
    BY <2>1, Continued
  <2>3. imp'[i].pc # "remove"
    BY <2>1, <2>2 DEF Working
  <2>4. Faithful(imp'[i], notes) /\ Timely(imp'[i], source, edits)
    BY <1>1, <1>3, <2>1, <2>2, <2>3, SyncFaithful, TimelyKept DEF Further
  <2> QED BY <1>1, <2>1, <2>4, SoundContinue
<1>4. CASE WriteFails(i)
  <2> DEFINE k == [NextDoc(m) EXCEPT !.skipped = TRUE]
  <2>1. imp'[i] = k /\ Continue(i, k)
    BY <1>4, Continued DEF WriteFails
  <2>2. m.pc \in {"rename", "write"}
    BY <1>4 DEF WriteFails, In
  <2>3. NextDoc(m) \in ImportStates /\ NextDoc(m).pc = "plan" /\ NextDoc(m).docs = m.docs
    BY <1>1, <2>2, NextDocTyped, NextDocIs DEF Placed
  <2>4. k.pc = "plan" /\ k.docs = m.docs
    BY <2>3 DEF ImportStates
  <2>5. Faithful(k, notes)
    BY <1>1, <2>2, SkipFaithful
  <2> HIDE DEF k
  <2>6. Timely(k, source, edits)
    BY <1>1, <2>4, TimelyKept
  <2> QED BY <1>1, <2>1, <2>5, <2>6, SoundContinue
<1> QED BY <1>2, <1>3, <1>4

LEMMA PruneFaithful ==
    ASSUME ImportAssumption, ImportTypeOK, Sound, NEW i \in Importers,
           DocsDone(i) \/ Orphan(i) \/ RemoveFails(i) \/ OrphansDone(i)
    PROVE  Sound'
<1> DEFINE m == imp[i]
<1>1. /\ m \in ImportStates /\ Placed(m) /\ Faithful(m, notes) /\ Timely(m, source, edits)
      /\ notes \in NotesType /\ UNCHANGED <<source, notes, edits>>
  BY PlacedIs DEF Sound, DocsDone, Orphan, RemoveFails, OrphansDone, ImportSame, NotesType
<1>2. m.claimed \subseteq Mine /\ m.rest \subseteq Mine /\ m.pc \in Pruning => m.todo = {}
  BY <1>1 DEF ImportStates, Faithful, Accounted
<1> SUFFICES \E k : Continue(i, k) /\ Faithful(k, notes) /\ Timely(k, source, edits)
  <2>1. PICK k : Continue(i, k) /\ Faithful(k, notes) /\ Timely(k, source, edits)
    OBVIOUS
  <2>2. imp'[i] = k
    BY <2>1, Continued
  <2> QED BY <1>1, <2>1, <2>2, SoundContinue
<1>3. CASE DocsDone(i)
  <2>1. m.pc = "plan" /\ m.todo = {}
    BY <1>3 DEF DocsDone, In
  <2>2. \A n \in Left(m) : Still(m, notes, n)
    BY <1>1, <2>1 DEF Faithful, AsRead, Left, Working
  <2>3. CASE m.one
    <3> DEFINE k == [m EXCEPT !.pc = "finish"]
    <3>1. Continue(i, k)
      BY <1>3, <2>3 DEF DocsDone
    <3>2. Over(m, k) /\ k.pc = "finish" /\ k.skipped = m.skipped
      BY <1>1 DEF Over, ImportStates
    <3> HIDE DEF k
    <3>3. Faithful(k, notes)
      BY <1>1, <2>1, <3>2, OverFaithful DEF Working, Pruning
    <3>4. Timely(k, source, edits)
      BY <1>1, <3>2, TimelyKept DEF Over
    <3> QED BY <3>1, <3>3, <3>4
  <2>4. CASE ~ m.one
    <3> DEFINE k == [m EXCEPT !.pc = "orphans", !.rest = Unclaimed(i)]
    <3>1. Continue(i, k)
      BY <1>3, <2>4 DEF DocsDone
    <3>2. Over(m, k) /\ k.pc = "orphans" /\ k.skipped = m.skipped /\ k.rest = Left(m)
      BY <1>1 DEF Over, ImportStates, Unclaimed, Left
    <3> HIDE DEF k
    <3>3. Faithful(k, notes)
      BY <1>1, <2>1, <2>2, <3>2, OverFaithful DEF Working, Pruning
    <3>4. Timely(k, source, edits)
      BY <1>1, <3>2, TimelyKept DEF Over
    <3> QED BY <3>1, <3>3, <3>4
  <2> QED BY <2>3, <2>4
<1>4. CASE Orphan(i)
  <2> DEFINE gone(n) == docGone(m.seen[n].source) /\ m.prune /\ (m.force \/ ~ edited(m.seen[n]))
  <2>1. m.pc = "orphans"
    BY <1>4 DEF Orphan, In
  <2>2. PICK n \in m.rest :
            Continue(i, [m EXCEPT !.rest = @ \ {n}, !.name = n, !.pc = IF gone(n) THEN "remove" ELSE @])
    BY <1>4 DEF Orphan
  <2> DEFINE k == [m EXCEPT !.rest = @ \ {n}, !.name = n, !.pc = IF gone(n) THEN "remove" ELSE @]
  <2>3. /\ Over(m, k) /\ k.pc = (IF gone(n) THEN "remove" ELSE "orphans") /\ k.skipped = m.skipped
        /\ k.rest = m.rest \ {n} /\ k.name = n
    BY <1>1, <2>1 DEF Over, ImportStates
  <2>4. Continue(i, k)
    BY <2>2
  <2> HIDE DEF k
  <2>5. m.todo = {} /\ m.rest \subseteq Left(m) /\ \A x \in m.rest : Still(m, notes, x)
    BY <1>1, <2>1 DEF Faithful, Accounted, AsRead, Pruning
  <2>6. gone(n) => k.force \/ ~ edited(k.seen[k.name])
    BY <2>3 DEF Over
  <2>7. Faithful(k, notes)
    <3> HIDE DEF gone
    <3> QED BY <1>1, <2>1, <2>2, <2>3, <2>5, <2>6, OverFaithful DEF Pruning
  <2>8. Timely(k, source, edits)
    <3>1. gone(n) => source[m.seen[n].source] = NoFile
      BY DEF docGone
    <3>2. k.pc = "remove" => source[k.seen[k.name].source] = NoFile
      BY <2>3, <3>1 DEF Over
    <3>3. k.docs = m.docs
      BY <2>3 DEF Over
    <3> QED BY <1>1, <3>2, <3>3 DEF Timely, Has
  <2> QED BY <2>4, <2>7, <2>8
<1>5. CASE RemoveFails(i) \/ OrphansDone(i)
  <2>1. m.pc \in Pruning
    BY <1>5 DEF RemoveFails, OrphansDone, In, Pruning
  <2>2. m.todo = {} /\ m.rest \subseteq Left(m) /\ \A x \in m.rest : Still(m, notes, x)
    BY <1>1, <2>1 DEF Faithful, Accounted, AsRead
  <2>3. PICK k : /\ Continue(i, k) /\ Over(m, k) /\ k.pc \in {"orphans", "finish"} /\ k.rest = m.rest
                 /\ m.skipped => k.skipped
    <3>1. CASE RemoveFails(i)
      <4> DEFINE k == [m EXCEPT !.pc = "orphans", !.name = NoFile, !.skipped = TRUE]
      <4>1. Continue(i, k)
        BY <3>1 DEF RemoveFails
      <4>2. Over(m, k) /\ k.pc \in {"orphans", "finish"} /\ k.rest = m.rest /\ k.skipped
        BY <1>1 DEF Over, ImportStates
      <4> QED BY <4>1, <4>2
    <3>2. CASE OrphansDone(i)
      <4> DEFINE k == [m EXCEPT !.pc = "finish"]
      <4>1. Continue(i, k)
        BY <3>2 DEF OrphansDone
      <4>2. Over(m, k) /\ k.pc \in {"orphans", "finish"} /\ k.rest = m.rest /\ k.skipped = m.skipped
        BY <1>1 DEF Over, ImportStates
      <4> QED BY <4>1, <4>2
    <3> QED BY <1>5, <3>1, <3>2
  <2>4. Faithful(k, notes)
    BY <1>1, <2>1, <2>2, <2>3, OverFaithful DEF Pruning
  <2>5. Timely(k, source, edits)
    BY <1>1, <2>3, TimelyKept DEF Over
  <2> QED BY <2>3, <2>4, <2>5
<1> QED BY <1>3, <1>4, <1>5

\* The steps that change the notes.
LEMMA ChangeFaithful ==
    ASSUME ImportAssumption, ImportTypeOK, Sound, NEW i \in Importers,
           RenameNote(i) \/ WriteNote(i) \/ RemoveNote(i)
    PROVE  Sound'
<1> DEFINE m == imp[i]
           k == imp'[i]
<1>1. /\ m \in ImportStates /\ Placed(m) /\ Faithful(m, notes) /\ Timely(m, source, edits)
      /\ notes \in NotesType /\ UNCHANGED <<source, edits>>
  BY PlacedIs DEF Sound, RenameNote, WriteNote, RemoveNote, ImportSame, NotesType
<1>2. ImportTypeOK' /\ notes' \in NotesType
  BY WriteTyped, PlacedIs DEF ImportTypeOK, NotesType
<1>3. CASE RenameNote(i)
  <2> DEFINE S == {m.from, Name(m)}
  <2>1. m.pc = "rename" /\ Renamed(m, k, notes, notes')
    BY <1>3 DEF RenameNote, Renamed, In, Name, Doc
  <2>2. \A j \in Importers : j # i => imp'[j] = Disturbed(j, S)
    BY <1>3 DEF RenameNote, Disturbed, Name, Doc
  <2>3. \A n \in Names \ S : notes'[n] = notes[n]
    BY <1>1, <2>1 DEF Renamed, NotesType
  <2>4. k.pc = "write" /\ k.docs = m.docs
    BY <1>1, <2>1 DEF Renamed, ImportStates
  <2> HIDE DEF k, S
  <2>5. Faithful(k, notes') /\ Timely(k, source, edits)
    BY <1>1, <2>1, <2>4, RenameFaithful, TimelyKept
  <2> QED BY <1>1, <1>2, <2>2, <2>3, <2>5, SoundChange DEF k
<1>4. CASE WriteNote(i)
  <2> DEFINE S == {Name(m)}
             note == render(i, Doc(i))
  <2>1. m.pc = "write" /\ WrittenOut(m, k, notes, notes', note)
    BY <1>4 DEF WriteNote, WrittenOut, In, Name, Doc
  <2>2. \A j \in Importers : j # i => imp'[j] = Disturbed(j, S)
    BY <1>4 DEF WriteNote, Disturbed, Name, Doc
  <2>3. \A n \in Names \ S : notes'[n] = notes[n]
    BY <1>1, <2>1 DEF WrittenOut, NotesType
  <2>4. k.pc = "plan" /\ k.docs = m.docs
    BY <1>1, <2>1, NextDocIs DEF WrittenOut
  <2>5. /\ note # NoFile /\ note.managed /\ note.id = m.id /\ note.source = First(m.todo)
        /\ Same(m.docs[First(m.todo)].text, note)
    <3>1. note \in NoteFiles /\ note.managed /\ note.id = m.id /\ note.source = Doc(i) /\ Same(m.docs[Doc(i)].text, note)
      BY <2>1, RenderIs DEF In
    <3> QED BY <3>1 DEF Doc, ImportAssumption
  <2> HIDE DEF k, S, note
  <2>6. Faithful(k, notes') /\ Timely(k, source, edits)
    BY <1>1, <2>1, <2>4, <2>5, WriteFaithful, TimelyKept
  <2> QED BY <1>1, <1>2, <2>2, <2>3, <2>6, SoundChange DEF k
<1>5. CASE RemoveNote(i)
  <2> DEFINE S == {m.name}
  <2>1. m.pc = "remove" /\ Removed(m, k, notes, notes')
    BY <1>5 DEF RemoveNote, Removed, In
  <2>2. \A j \in Importers : j # i => imp'[j] = Disturbed(j, S)
    BY <1>5 DEF RemoveNote, Disturbed
  <2>3. \A n \in Names \ S : notes'[n] = notes[n]
    BY <1>1, <2>1 DEF Removed, NotesType
  <2>4. k.pc = "orphans" /\ k.docs = m.docs
    BY <1>1, <2>1 DEF Removed, ImportStates
  <2> HIDE DEF k, S
  <2>5. Faithful(k, notes') /\ Timely(k, source, edits)
    BY <1>1, <2>1, <2>4, RemoveFaithful, TimelyKept
  <2> QED BY <1>1, <1>2, <2>2, <2>3, <2>5, SoundChange DEF k
<1> QED BY <1>3, <1>4, <1>5

LEMMA CopyFaithful ==
    ASSUME ImportAssumption, ImportTypeOK, Sound, NEW i \in Importers, KilledLeavesCopy(i) PROVE Sound'
<1>1. PICK n \in Temps :
         /\ notes' = [notes EXCEPT ![n] = render(i, Doc(i))]
         /\ imp' = [j \in Importers |-> IF j = i THEN Fails(i) ELSE [imp[j] EXCEPT !.calm = @ \ {n}]]
  BY DEF KilledLeavesCopy
<1>2. notes' \in NotesType /\ notes \in NotesType /\ UNCHANGED <<source, edits>>
  BY CopyTyped, PlacedIs DEF KilledLeavesCopy, ImportTypeOK, NotesType
<1> DEFINE S == {n}
<1>3. \A x \in Names \ S : notes'[x] = notes[x]
  BY <1>1, <1>2 DEF NotesType
<1>4. \A j \in Importers : j # i => imp'[j] = Disturbed(j, S)
  BY <1>1 DEF Disturbed
<1>5. imp'[i] = Fails(i)
  BY <1>1
<1> HIDE DEF S
<1>6. Faithful(imp'[i], notes') /\ Timely(imp'[i], source, edits)
  BY <1>5, NothingFaithful
<1> QED BY <1>2, <1>3, <1>4, <1>6, SoundChange

LEMMA BegunFaithful ==
    ASSUME ImportTypeOK, Sound, NEW i \in Importers, NEW docs, NEW one, NEW force, NEW prune,
           Begun(i, docs, one, force, prune)
    PROVE  Sound'
<1> DEFINE k == [Unstarted EXCEPT !.pc = "scan", !.one = one, !.force = force, !.prune = prune, !.todo = docs]
<1>1. Continue(i, k) /\ UNCHANGED <<source, notes, edits>>
  BY DEF Begun
<1>2. k.pc = "scan" /\ k.docs = Nothing /\ k.claimed = {} /\ k.written = {}
  BY DEF Unstarted
<1> HIDE DEF k
<1>3. Faithful(k, notes) /\ Timely(k, source, edits)
  BY <1>2, NothingRead DEF Timely, Has, Nothing
<1>4. imp'[i] = k
  BY <1>1, Continued
<1> QED BY <1>1, <1>3, <1>4, SoundContinue

LEMMA PeopleFaithful == ASSUME ImportAssumption, ImportTypeOK, Sound, People PROVE Sound'
<1>1. \A j \in Importers : imp[j] \in ImportStates /\ Faithful(imp[j], notes) /\ Timely(imp[j], source, edits)
  BY PlacedIs DEF Sound
<1>2. edits \in Nat /\ source \in [Docs -> DocFiles \cup {NoFile}] /\ notes \in NotesType
  BY DEF ImportTypeOK, NotesType
<1>3. ASSUME NEW d \in Docs, NEW x, x # NoFile => x.stamp = edits + 1, Changed(d, x) PROVE Sound'
  <2>1. source' = [source EXCEPT ![d] = x] /\ edits' = edits + 1 /\ UNCHANGED <<notes, imp>>
    BY <1>3 DEF Changed
  <2>2. \A j \in Importers : Timely(imp[j], [source EXCEPT ![d] = x], edits + 1)
    BY <1>1, <1>2, <1>3, ChangedTimely
  <2> QED BY <1>1, <2>1, <2>2 DEF Sound
<1>4. ASSUME NEW new, ByHand(new) PROVE Sound'
  <2> DEFINE S == {n \in Names : new[n] # notes[n]}
  <2>1. notes' \in NotesType
    BY PeopleTyped DEF ImportTypeOK, NotesType
  <2>2. NoFile \notin Importers /\ UNCHANGED <<source, edits>> /\ notes' = new
    BY <1>4 DEF ImportAssumption, ByHand, Rewrite
  <2>3. \A j \in Importers : j # NoFile => imp'[j] = Disturbed(j, S)
    BY <1>4, <2>2 DEF ByHand, Rewrite, Disturbed
  <2>4. \A n \in Names \ S : notes'[n] = notes[n]
    BY <2>2
  <2> HIDE DEF S
  <2> QED BY <2>1, <2>2, <2>3, <2>4, SoundChange
<1>5. CASE \E d \in Docs : DeleteDoc(d) \/ \E t \in Texts : EditDoc(d, t)
  <2>1. PICK d \in Docs : DeleteDoc(d) \/ \E t \in Texts : EditDoc(d, t)
    BY <1>5
  <2>2. DeleteDoc(d) => Sound'
    BY <1>3 DEF DeleteDoc
  <2>3. \A t : [text |-> t, stamp |-> edits + 1].stamp = edits + 1
    OBVIOUS
  <2>4. \A t \in Texts : EditDoc(d, t) => Sound'
    BY <1>3, <2>3 DEF EditDoc
  <2> QED BY <2>1, <2>2, <2>4
<1>6. CASE \E n \in Names : HandEdit(n) \/ HandNote(n)
  <2>1. \E new : ByHand(new)
    BY <1>6 DEF HandEdit, HandNote
  <2> QED BY <1>4, <2>1
<1> QED BY <1>5, <1>6 DEF People

LEMMA SoundInit == ASSUME ImportInit PROVE Sound
<1>1. ASSUME NEW i \in Importers PROVE Faithful(imp[i], notes) /\ Timely(imp[i], source, edits)
  <2>1. imp[i].pc = "idle" /\ imp[i].claimed = {} /\ imp[i].written = {} /\ imp[i].docs = Nothing
    BY DEF ImportInit, Unstarted
  <2> QED BY <2>1, NothingRead DEF Timely, Has, Nothing
<1> QED BY <1>1 DEF Sound

LEMMA SoundStep == ASSUME ImportAssumption, ImportTypeOK, Step, Sound, [ImportNext]_importVars PROVE Sound'
<1>1. CASE People
  BY <1>1, PeopleFaithful
<1>2. CASE \E i \in Importers, force, prune \in BOOLEAN : Import(i, force, prune)
  BY <1>2, BegunFaithful DEF Import
<1>3. CASE \E i \in Importers, d \in Docs, force \in BOOLEAN : ImportFile(i, d, force)
  BY <1>3, BegunFaithful DEF ImportFile
<1>4. CASE \E i \in Importers : ImportStep(i)
  BY <1>4, ScanFaithful, WorkFaithful, PruneFaithful, ChangeFaithful DEF ImportStep
<1>5. CASE \E i \in Importers : ImportTrouble(i)
  BY <1>5, ScanFaithful, WorkFaithful, PruneFaithful, CopyFaithful DEF ImportTrouble
<1>6. CASE (\E force, prune \in BOOLEAN : StartWatch(force, prune)) \/ Settle
  BY <1>6, BegunFaithful DEF StartWatch, Settle, ImportAssumption
<1>7. CASE WatchStep \/ SettleFails \/ StopWatch
  BY <1>7 DEF WatchStep, FirstDone, FirstPrint, Poll, Unsettled, RunDone, SettleFails, StopWatch, LoopSame, Sound
<1>8. CASE UNCHANGED importVars
  BY <1>8 DEF importVars, Sound
<1> QED BY <1>1, <1>2, <1>3, <1>4, <1>5, <1>6, <1>7, <1>8 DEF ImportNext

-----------------------------------------------------------------------------
(* Import: what follows from it *)

ImportSound == ImportTypeOK /\ Step /\ Sound

LEMMA ImportSoundInv == ImportSpec => []ImportSound
<1>1. ImportInit => ImportSound
  BY ImportAssumption, ImportTypeInit, StepInit, SoundInit DEF ImportSound
<1>2. ImportSound /\ [ImportNext]_importVars => ImportSound'
  BY ImportAssumption, ImportTypeStep, StepStep, SoundStep DEF ImportSound
<1> QED BY <1>1, <1>2, PTL DEF ImportSpec

LEMMA SoundIs ==
    ASSUME ImportSound, NEW i \in Importers
    PROVE  /\ imp[i] \in ImportStates /\ Placed(imp[i]) /\ notes \in NotesType
           /\ InOrder(imp[i]) /\ Accounted(imp[i]) /\ AsRead(imp[i], notes) /\ IdsKnown(imp[i], notes)
           /\ Settled(imp[i], notes) /\ Timely(imp[i], source, edits)
BY PlacedIs DEF ImportSound, Sound, Faithful, NotesType

LEMMA RenameKeepsWork ==
    ASSUME ImportAssumption, ImportSound, NEW i \in Importers, RenameNote(i), NEW n \in Mine,
           n \in imp[i].calm, notes[n] # NoFile, notes'[n] # notes[n]
    PROVE  HandKept(n, i)
<1> DEFINE m == imp[i]
<1>1. /\ m \in ImportStates /\ Placed(m) /\ m.pc = "rename" /\ notes \in NotesType
      /\ notes' = [notes EXCEPT ![Name(m)] = notes[m.from], ![m.from] = NoFile]
  BY SoundIs DEF RenameNote, In, Name, Doc
<1>2. Accounted(m) /\ AsRead(m, notes) /\ InOrder(m)
  BY SoundIs
<1>3. m.from \notin {NoFile, Name(m)} /\ Held(m)
  BY <1>1, <1>2 DEF Accounted
<1>4. Name(m) \in Names /\ m.from \in Names
  BY <1>1, <1>2, <1>3, InHand
<1>5. n \in Names /\ n \in {Name(m), m.from}
  BY <1>1 DEF NotesType, ImportAssumption
<1>6. n # Name(m)
  BY <1>1, <1>2 DEF AsRead
<1>7. n = m.from /\ notes[n] = m.seen[n]
  BY <1>1, <1>2, <1>5, <1>6 DEF AsRead, Still
<1>8. notes[n].managed
  BY <1>3, <1>7 DEF Held
<1>9. notes'[Name(m)] = notes[n]
  BY <1>1, <1>3, <1>4, <1>7 DEF NotesType
<1> HIDE DEF m
<1> QED BY <1>4, <1>8, <1>9 DEF HandKept

LEMMA WriteKeepsWork ==
    ASSUME ImportAssumption, ImportSound, NEW i \in Importers, WriteNote(i), NEW n \in Mine,
           n \in imp[i].calm, notes[n] # NoFile, notes'[n] # notes[n]
    PROVE  HandKept(n, i)
<1> DEFINE m    == imp[i]
           d    == First(m.todo)
           old  == notes[n]
           note == render(i, d)
<1>1. /\ m \in ImportStates /\ Placed(m) /\ m.pc = "write" /\ notes \in NotesType
      /\ notes' = [notes EXCEPT ![Name(m)] = note]
  BY SoundIs DEF WriteNote, In, Name, Doc
<1>2. Accounted(m) /\ AsRead(m, notes)
  BY SoundIs
<1>3. n \in Names /\ n = Name(m)
  BY <1>1 DEF NotesType, ImportAssumption
<1>4. m.from # NoFile /\ old = m.seen[m.from]
  BY <1>1, <1>2, <1>3 DEF AsRead, Previous
<1>5. old.managed /\ (Same(m.docs[d].text, old) \/ ~ edited(old) \/ m.force)
  BY <1>1, <1>2, <1>4 DEF Accounted, Held
<1>6. notes'[n] = note
  BY <1>1, <1>3 DEF NotesType
<1>7. note # NoFile
  <2>1. ImportTypeOK /\ In(i, "write") /\ Doc(i) = d
    BY <1>1 DEF ImportSound, In, Doc
  <2>2. note \in NoteFiles
    BY <2>1, RenderIs
  <2> QED BY <2>2 DEF ImportAssumption
<1>8. note.extra = (old # NoFile /\ old.extra)
  BY <1>4 DEF render
<1>9. note.body = IF keptBody(m.docs[d].text, old) THEN old.body ELSE m.docs[d].text.hash
  BY <1>4 DEF render
<1>10. edited(old) /\ ~ m.force => note.body = old.body
  BY <1>5, <1>9 DEF keptBody, Same
<1> HIDE DEF m, d, note, old
<1>11. HandKept(n, i) <=>
         /\ ~ old.managed => notes'[n] = old
         /\ edited(old) /\ ~ m.force => \E x \in Names : notes'[x] # NoFile /\ notes'[x].body = old.body
         /\ old.extra => In(i, "remove") \/ \E x \in Names : notes'[x] # NoFile /\ notes'[x].extra
  BY DEF HandKept, old, m
<1>12. old # NoFile
  BY DEF old
<1> QED BY <1>3, <1>5, <1>6, <1>7, <1>8, <1>10, <1>11, <1>12

LEMMA RemoveKeepsWork ==
    ASSUME ImportAssumption, ImportSound, NEW i \in Importers, RemoveNote(i), NEW n \in Mine,
           n \in imp[i].calm, notes'[n] # notes[n]
    PROVE  HandKept(n, i)
<1> DEFINE m == imp[i]
<1>1. m.pc = "remove" /\ notes \in NotesType /\ notes' = [notes EXCEPT ![m.name] = NoFile]
  BY SoundIs DEF RemoveNote, In
<1>2. Accounted(m) /\ AsRead(m, notes)
  BY SoundIs
<1>3. n = m.name
  BY <1>1 DEF NotesType, ImportAssumption
<1>4. notes[n] = m.seen[n]
  BY <1>1, <1>2, <1>3 DEF AsRead, Still
<1>5. notes[n].managed /\ (m.force \/ ~ edited(notes[n]))
  BY <1>1, <1>2, <1>3, <1>4 DEF Accounted, Left
<1> QED BY <1>1, <1>5 DEF HandKept, In

\* Whatever people did to the documents and the notes before, and however often
\* an import failed, no import takes the work by hand that it has read: neither
\* where it renames a note, nor where it writes or prunes one.
THEOREM HandWorkAlwaysKept == ImportSpec => HandWorkKept
<1>1. ImportSound /\ [ImportNext]_importVars =>
          [\A i \in Importers, n \in Mine :
              /\ n \in imp[i].calm /\ notes[n] # NoFile /\ notes'[n] # notes[n]
              /\ RenameNote(i) \/ WriteNote(i) \/ RemoveNote(i)
              => HandKept(n, i)]_importVars
  BY ImportAssumption, RenameKeepsWork, WriteKeepsWork, RemoveKeepsWork
<1> QED BY <1>1, ImportSoundInv, PTL DEF ImportSpec, HandWorkKept

\* An import prunes no note that a document it read has, and none whose document
\* was there all along, in any order of documents, with names alike but for case.
THEOREM LiveNotesAlwaysKept == ImportSpec => []LiveNotesKept
<1>1. ASSUME ImportSound, NEW i \in Importers, In(i, "remove")
      PROVE  /\ \A d \in Found(i) : NameOf[d] = imp[i].name =>
                   \E e \in Found(i) : e < d /\ Fold[NameOf[e]] = Fold[NameOf[d]]
             /\ LET d == imp[i].seen[imp[i].name].source
                IN  d \in Found(i) /\ source[d] # NoFile => source[d].stamp # imp[i].docs[d].stamp
  <2> DEFINE m == imp[i]
  <2>1. Accounted(m) /\ Timely(m, source, edits) /\ m.pc = "remove" /\ Found(i) = Has(m)
    BY <1>1, SoundIs DEF In, Found, Has
  <2>2. m.name \notin m.claimed /\ m.seen[m.name] # NoFile
    BY <2>1 DEF Accounted, Left
  <2>3. Handled(m) = Has(m)
    BY <2>1 DEF Accounted, Handled, Pruning
  <2>4. \A d \in Has(m) : NameOf[d] \in m.claimed \/ m.seen[NameOf[d]] = NoFile \/ Earlier(m, d)
    BY <2>1, <2>3 DEF Accounted, Pruning
  <2>5. \A d \in Has(m) : NameOf[d] = m.name => \E e \in Has(m) : e < d /\ Fold[NameOf[e]] = Fold[NameOf[d]]
    BY <2>2, <2>4 DEF Earlier
  <2>6. LET d == m.seen[m.name].source
        IN  d \in Has(m) /\ source[d] # NoFile => source[d].stamp # m.docs[d].stamp
    BY <2>1 DEF Timely
  <2> QED BY <2>1, <2>5, <2>6
<1>2. ImportSound => LiveNotesKept
  BY <1>1 DEF LiveNotesKept
<1> QED BY <1>2, ImportSoundInv, PTL

LEMMA WriteKeepsIds ==
    ASSUME ImportAssumption, ImportSound, NEW i \in Importers, WriteNote(i), imp[i].calm = Names,
           Unique(notes), HashesTrue(notes), NEW x \in Names, NEW y \in Names,
           notes'[x] # NoFile, notes'[y] # NoFile, notes'[x].id = notes'[y].id
    PROVE  notes'[x].source = notes'[y].source
<1> DEFINE m    == imp[i]
           d    == First(m.todo)
           note == render(i, d)
<1>1. /\ m \in ImportStates /\ Placed(m) /\ m.pc = "write" /\ notes \in NotesType
      /\ notes' = [notes EXCEPT ![Name(m)] = note]
  BY SoundIs DEF WriteNote, In, Name, Doc
<1>2. Accounted(m) /\ AsRead(m, notes) /\ IdsKnown(m, notes) /\ InOrder(m)
  BY SoundIs
<1>3. Name(m) \in Names /\ d \in Docs
  BY <1>1, <1>2, InHand
<1>4. notes'[Name(m)] = note /\ \A n \in Names \ {Name(m)} : notes'[n] = notes[n]
  BY <1>1, <1>3 DEF NotesType
<1>5. note.id = m.id /\ note.source = d
  BY DEF render, sourceOf
<1>6. ASSUME NEW n \in Names, n # Name(m), notes[n] # NoFile, notes[n].id = m.id PROVE notes[n].source = d
  <2>1. CASE m.from # NoFile
    <3>1. notes[Name(m)] = m.seen[m.from]
      BY <1>1, <1>2, <1>3, <2>1 DEF AsRead, Previous
    <3>2. m.seen[m.from] # NoFile /\ m.seen[m.from].id = m.id
      BY <1>1, <1>2, <2>1 DEF Accounted, Held
    <3> QED BY <1>3, <1>6, <3>1, <3>2 DEF Unique
  <2>2. CASE m.from = NoFile
    <3>1. m.id = <<Slug[d], d>> \/ \A z \in Names : notes[z] # NoFile => notes[z].id # m.id
      BY <1>1, <1>2, <2>2 DEF IdsKnown, Working
    <3>2. m.id = <<Slug[d], d>>
      BY <1>6, <3>1
    <3> QED BY <1>3, <1>6, <3>2 DEF HashesTrue
  <2> QED BY <2>1, <2>2
<1> HIDE DEF m, d, note
<1>7. CASE x # Name(m) /\ y # Name(m)
  BY <1>4, <1>7 DEF Unique
<1>8. CASE x = Name(m) /\ y # Name(m)
  BY <1>4, <1>5, <1>6, <1>8
<1>9. CASE x # Name(m) /\ y = Name(m)
  BY <1>4, <1>5, <1>6, <1>9
<1>10. CASE x = Name(m) /\ y = Name(m)
  BY <1>10
<1> QED BY <1>7, <1>8, <1>9, <1>10

\* However paths share slugs and names, and whichever of two holders of an id an
\* import took for the one: notes that it writes share no id across documents,
\* while every id with a hash is on its own document's note.
THEOREM IdsAlwaysApart == ImportSpec => IdsStayApart
<1>1. ImportSound /\ [ImportNext]_importVars =>
          [\A i \in Importers :
              WriteNote(i) /\ imp[i].calm = Names /\ Unique(notes) /\ HashesTrue(notes) =>
                 \A m, n \in Names :
                    notes'[m] # NoFile /\ notes'[n] # NoFile /\ notes'[m].id = notes'[n].id =>
                       notes'[m].source = notes'[n].source]_importVars
  BY ImportAssumption, WriteKeepsIds
<1> QED BY <1>1, ImportSoundInv, PTL DEF ImportSpec, IdsStayApart

\* An import that nobody disturbed has settled every document it found, so that
\* another one would write nothing, whatever the notes were before.
THEOREM RerunAlwaysSettles == ImportSpec => []RerunSettles
<1>1. ASSUME ImportSound, NEW i \in Importers, In(i, "finish"), imp[i].calm = Names, ~ imp[i].skipped,
             NEW d \in Found(i)
      PROVE  \/ \E e \in Found(i) : e < d /\ Fold[NameOf[e]] = Fold[NameOf[d]]
             \/ ambiguous(notes, NameOf[d])
             \/ LET from == existing(notes, NameOf[d])
                IN  /\ from # NoFile
                    /\ planned(d, imp[i].docs[d].text, notes[from], FALSE) \notin {"added", "updated"}
  <2> DEFINE m == imp[i]
  <2>1. Accounted(m) /\ Settled(m, notes) /\ m.pc = "finish" /\ Found(i) = Has(m) /\ m.claimed \subseteq Mine
    BY <1>1, SoundIs DEF In, Found, Has, ImportStates
  <2>2. d \in Handled(m)
    BY <1>1, <2>1 DEF Accounted, Handled
  <2>3. SettledDoc(m, notes, d)
    BY <1>1, <2>1, <2>2 DEF Settled
  <2>4. ASSUME NEW x \in m.claimed, Hit(notes, NameOf[d], x),
               planned(d, m.docs[d].text, notes[x], FALSE) \notin Writes
        PROVE  /\ existing(notes, NameOf[d]) # NoFile
               /\ planned(d, m.docs[d].text, notes[existing(notes, NameOf[d])], FALSE) \notin {"added", "updated"}
    <3>1. existing(notes, NameOf[d]) = x
      BY <2>4, HitIsExisting
    <3>2. x # NoFile
      BY <2>1, ImportAssumption DEF ImportAssumption
    <3> QED BY <2>4, <3>1, <3>2 DEF Writes
  <2> QED BY <2>1, <2>3, <2>4 DEF SettledDoc, Earlier
<1>2. ImportSound => RerunSettles
  BY <1>1 DEF RerunSettles
<1> QED BY <1>2, ImportSoundInv, PTL

-----------------------------------------------------------------------------
(* Serve: the inductive invariant *)

\* At most one connection carries what a client asks now.
OneConnection ==
    \A h, k \in handlers : h.open /\ k.open /\ h.cli = k.cli => h = k

\* A client that holds a connection waits for an answer it has not been sent.
HolderWaits ==
    \A h \in handlers : h.open =>
        /\ h.cli \in Clients
        /\ client[h.cli].pc \in {"queued", "started"}
        /\ client[h.cli].got # "answer"

\* Whose request was started in time knows it, or will before its deadline.
StartedKnows ==
    \A h \in handlers : h.at = "running" /\ h.open /\ ~ h.late =>
        /\ client[h.cli].got # "nothing"
        /\ client[h.cli].pc = "queued" => client[h.cli].left > 0

\* Who left a request that was started in time asks nothing now.
LeaverIdle ==
    \A h \in handlers : h.at = "running" /\ ~ h.open /\ ~ h.late /\ h.cli # None =>
        client[h.cli].pc = "idle"

HoldsRight == OneConnection /\ HolderWaits /\ StartedKnows /\ LeaverIdle

IInv == TypeOK /\ HoldsRight

-----------------------------------------------------------------------------
(* Serve: types *)

LEMMA TypeInit == ASSUME ServeAssumption, Init PROVE TypeOK
BY DEF ServeAssumption, Init, TypeOK, Down, Idle, AskState, ServerStates, ServerPcs, ClientStates,
       ClientPcs, Connections

\* Fewer connections are as well typed.
LEMMA FewerTyped ==
    ASSUME NEW D, handlers \subseteq Connections, D \subseteq handlers PROVE D \subseteq Connections
OBVIOUS

LEMMA ServerTyped ==
    ASSUME server \in [Servers -> ServerStates], NEW s \in Servers, NEW r \in ServerStates,
           server' = [server EXCEPT ![s] = r]
    PROVE  server' \in [Servers -> ServerStates]
OBVIOUS

LEMMA GotoTyped ==
    ASSUME server \in [Servers -> ServerStates], NEW s \in Servers, NEW pc \in ServerPcs, Goto(s, pc)
    PROVE  server' \in [Servers -> ServerStates]
BY DEF Goto, ServerStates

LEMMA ExitTyped ==
    ASSUME ServeAssumption, server \in [Servers -> ServerStates], NEW s \in Servers, Exit(s)
    PROVE  server' \in [Servers -> ServerStates]
<1>1. Down \in ServerStates
  BY DEF ServeAssumption, Down, ServerStates, ServerPcs
<1> QED BY <1>1, ServerTyped DEF Exit

LEMMA StartTyped ==
    ASSUME ServeAssumption, TypeOK, NEW s \in Servers, Start(s) PROVE TypeOK'
<1> USE DEF TypeOK
<1>1. ASSUME Bound(s) PROVE file' \in Inodes \cup {None} /\ server' \in [Servers -> ServerStates]
  <2>1. PICK i \in Inodes : file' = i /\ server' = [server EXCEPT ![s] = [@ EXCEPT !.pc = "listen", !.ino = i]]
    BY <1>1 DEF Bound
  <2>2. [server[s] EXCEPT !.pc = "listen", !.ino = i] \in ServerStates
    BY ZenonT(60) DEF ServerStates, ServerPcs
  <2> QED BY <2>1, <2>2, ServerTyped
<1>2. CASE Bind(s)
  BY <1>1, <1>2, GotoTyped DEF Bind, ServerPcs
<1>3. CASE Probe(s)
  BY <1>3, GotoTyped, ExitTyped DEF Probe, ServerPcs
<1>4. CASE RemoveStale(s)
  BY <1>4, GotoTyped DEF RemoveStale, ServerPcs
<1>5. CASE Rebind(s)
  BY <1>1, <1>5, ExitTyped DEF Rebind
<1>6. CASE Listen(s)
  BY <1>6, GotoTyped DEF Listen, ServerPcs
<1>7. CASE StatBound(s)
  <2>1. CASE file = None
    BY <1>7, <2>1, ExitTyped DEF StatBound
  <2>2. CASE file # None
    <3>1. [server[s] EXCEPT !.pc = "serve", !.own = file, !.idle = IdleTime] \in ServerStates
      <4>1. server[s] \in ServerStates /\ IdleTime \in 0 .. IdleTime
        BY DEF ServeAssumption
      <4> QED BY <4>1 DEF ServerStates, ServerPcs
    <3> QED BY <1>7, <2>2, <3>1, ServerTyped DEF StatBound
  <2> QED BY <2>1, <2>2
<1> QED BY <1>2, <1>3, <1>4, <1>5, <1>6, <1>7 DEF Start

\* A connection that moves on is as well typed.
LEMMA ConnectionTyped ==
    ASSUME handlers \subseteq Connections, NEW h \in handlers, NEW at \in {"waiting", "probed", "running"},
           NEW late \in BOOLEAN
    PROVE  [h EXCEPT !.at = at] \in Connections /\ [h EXCEPT !.at = at, !.late = late] \in Connections
<1>1. h \in Connections
  OBVIOUS
<1> QED BY <1>1 DEF Connections

LEMMA AnswerTyped ==
    ASSUME ServeAssumption, TypeOK, HolderWaits, NEW s \in Servers,
           Accept(s) \/ TakeTurn(s) \/ WriteAck(s) \/ Finish(s)
    PROVE  TypeOK'
<1> USE DEF TypeOK
<1>1. server[s] \in ServerStates /\ touched(server[s]) \in ServerStates
  <2>1. server[s] \in ServerStates /\ IdleTime \in 0 .. IdleTime
    BY DEF ServeAssumption
  <2> QED BY <2>1 DEF touched, ServerStates
<1>2. \A b \in BOOLEAN : [server[s] EXCEPT !.locked = b] \in ServerStates
  BY <1>1 DEF ServerStates
<1>3. [touched(server[s]) EXCEPT !.locked = FALSE] \in ServerStates
  BY <1>1 DEF ServerStates
<1>4. CASE Accept(s)
  <2>1. server' \in [Servers -> ServerStates]
    BY <1>1, <1>4, ServerTyped DEF Accept, acceptTouch
  <2>2. PICK h \in handlers : handlers' = (handlers \ {h}) \cup {[h EXCEPT !.at = "waiting"]}
    BY <1>4 DEF Accept
  <2>3. [h EXCEPT !.at = "waiting"] \in Connections
    BY ConnectionTyped
  <2> QED BY <1>4, <2>1, <2>2, <2>3 DEF Accept
<1>5. CASE TakeTurn(s)
  <2>1. PICK h \in handlers : IF h.open
           THEN handlers' = (handlers \ {h}) \cup {[h EXCEPT !.at = "probed"]}
                /\ server' = [server EXCEPT ![s].locked = TRUE]
           ELSE handlers' = handlers \ {h} /\ server' = [server EXCEPT ![s] = afterGone(@)]
    BY <1>5 DEF TakeTurn
  <2>2. server' \in [Servers -> ServerStates]
    BY <1>1, <1>2, <2>1, ServerTyped DEF afterGone
  <2>3. [h EXCEPT !.at = "probed"] \in Connections
    BY ConnectionTyped
  <2> QED BY <1>5, <2>1, <2>2, <2>3 DEF TakeTurn
<1>6. CASE WriteAck(s)
  <2>1. PICK h \in handlers : IF h.open
           THEN /\ handlers' = (handlers \ {h})
                                  \cup {[h EXCEPT !.at = "running", !.late = client[h.cli].left = 0]}
                /\ client' = [client EXCEPT ![h.cli].got = "ack"]
                /\ server' = [server EXCEPT ![s] = touched(@)]
           ELSE /\ handlers' = handlers \ {h}
                /\ server' = [server EXCEPT ![s].locked = FALSE]
                /\ UNCHANGED client
    BY <1>6 DEF WriteAck
  <2>2. server' \in [Servers -> ServerStates]
    BY <1>1, <1>2, <2>1, ServerTyped
  <2>3. CASE h.open
    <3>1. h.cli \in Clients
      BY <2>3 DEF HolderWaits
    <3>2. client' \in [Clients -> ClientStates]
      BY <2>1, <2>3, <3>1 DEF ClientStates
    <3>3. (client[h.cli].left = 0) \in BOOLEAN
      OBVIOUS
    <3>4. [h EXCEPT !.at = "running", !.late = client[h.cli].left = 0] \in Connections
      BY <3>3, ConnectionTyped
    <3> QED BY ZenonT(60), <1>6, <2>1, <2>2, <2>3, <3>2, <3>4 DEF WriteAck
  <2>4. CASE ~ h.open
    BY <1>6, <2>1, <2>2, <2>4 DEF WriteAck
  <2> QED BY <2>3, <2>4
<1>7. CASE Finish(s)
  <2>1. server' \in [Servers -> ServerStates]
    BY <1>3, <1>7, ServerTyped DEF Finish
  <2>2. PICK h \in handlers : handlers' = handlers \ {h}
           /\ client' = IF h.open THEN [client EXCEPT ![h.cli].got = "answer"] ELSE client
    BY <1>7 DEF Finish
  <2>3. client' \in [Clients -> ClientStates]
    <3>1. CASE h.open
      BY <2>2, <3>1 DEF HolderWaits, ClientStates
    <3> QED BY <2>2, <3>1
  <2> QED BY <1>7, <2>1, <2>2, <2>3 DEF Finish
<1> QED BY <1>4, <1>5, <1>6, <1>7

LEMMA GoTyped ==
    ASSUME ServeAssumption, TypeOK, NEW s \in Servers, Close(s) \/ Cancel(s) \/ Kill(s) PROVE TypeOK'
<1> USE DEF TypeOK
<1>1. CASE CloseListener(s)
  <2>1. server[s] \in ServerStates
    OBVIOUS
  <2>2. [server[s] EXCEPT !.pc = "drain", !.ino = None] \in ServerStates
    BY <2>1 DEF ServerStates, ServerPcs
  <2> QED BY <1>1, <2>2, ServerTyped DEF CloseListener
<1>2. CASE onShutdown(s)
  BY <1>2, GotoTyped DEF onShutdown, ServerPcs
<1>3. CASE Return(s)
  BY <1>3, ExitTyped DEF Return, removeSocket
<1>4. CASE Kill(s)
  BY <1>4, ExitTyped DEF Kill
<1> QED BY <1>1, <1>2, <1>3, <1>4 DEF Close, IdleFires, Cancel

LEMMA ClientTyped ==
    ASSUME client \in [Clients -> ClientStates], NEW c \in Clients, NEW r \in ClientStates, Becomes(c, r)
    PROVE  client' \in [Clients -> ClientStates]
BY DEF Becomes

LEMMA ConnectionsTyped ==
    ASSUME handlers \subseteq Connections, NEW c \in Clients
    PROVE  /\ Older(c) \subseteq Connections
           /\ {IF h.cli = c THEN Hung(h) ELSE h : h \in handlers} \subseteq Connections
<1>1. \A h \in Connections : [h EXCEPT !.cli = None] \in Connections /\ Hung(h) \in Connections
  BY DEF Connections, Hung
<1> QED BY <1>1 DEF Older

LEMMA AsksTyped ==
    ASSUME ServeAssumption, TypeOK, NEW c \in Clients, Ask(c) \/ Wait(c) \/ ClientKilled(c) PROVE TypeOK'
<1> USE DEF TypeOK
<1>1. /\ AskState("local", 0, "nothing") \in ClientStates /\ Idle \in ClientStates
      /\ AskState("queued", QueueTime, "nothing") \in ClientStates
      /\ AskState("started", AnswerTime, client[c].got) \in ClientStates
  <2>1. client[c] \in ClientStates
    OBVIOUS
  <2> QED BY <2>1 DEF ServeAssumption, AskState, Idle, ClientStates, ClientPcs
<1>2. CASE AskNoServer(c)
  <2>1. server' \in [Servers -> ServerStates]
    BY <1>2, GotoTyped DEF AskNoServer, startServer, ServerPcs
  <2> QED BY <1>1, <1>2, <2>1, ClientTyped, ConnectionsTyped DEF AskNoServer
<1>3. CASE AskUnreachable(c)
  BY <1>1, <1>3, ClientTyped, ConnectionsTyped DEF AskUnreachable
<1>4. CASE AskServer(c)
  <2>1. \A s \in Servers :
           [srv |-> s, at |-> "backlog", cli |-> c, open |-> TRUE, late |-> FALSE] \in Connections
    BY DEF Connections
  <2>2. handlers' \subseteq Connections
    BY <1>4, <2>1, ConnectionsTyped DEF AskServer
  <2> QED BY <1>1, <1>4, <2>2, ClientTyped DEF AskServer
<1>5. CASE readAck(c)
  BY <1>1, <1>5, ClientTyped DEF readAck
<1>6. CASE ReadAnswer(c)
  BY <1>1, <1>6, ClientTyped DEF ReadAnswer
<1>7. CASE ReadEnd(c)
  BY <1>1, <1>7, ClientTyped DEF ReadEnd
<1>8. CASE QueueTimeout(c)
  BY <1>1, <1>8, ClientTyped, ConnectionsTyped DEF QueueTimeout, HangUp
<1>9. CASE AnswerTimeout(c)
  BY <1>1, <1>9, ClientTyped, ConnectionsTyped DEF AnswerTimeout, afterTotal, HangUp
<1>10. CASE LocalDone(c)
  BY <1>1, <1>10, ClientTyped DEF LocalDone
<1>11. CASE ClientKilled(c)
  BY <1>1, <1>11, ClientTyped, ConnectionsTyped DEF ClientKilled, HangUp
<1> QED BY <1>2, <1>3, <1>4, <1>5, <1>6, <1>7, <1>8, <1>9, <1>10, <1>11 DEF Ask, Wait

LEMMA TickTyped == ASSUME ServeAssumption, TypeOK, Tick PROVE TypeOK'
<1> USE DEF TypeOK
<1>1. \A s \in Servers : [server[s] EXCEPT !.idle = Less(@)] \in ServerStates
  <2> TAKE s \in Servers
  <2>1. server[s] \in ServerStates
    OBVIOUS
  <2>2. Less(server[s].idle) \in 0 .. IdleTime
    BY <2>1 DEF ServeAssumption, ServerStates, Less
  <2> QED BY <2>1, <2>2 DEF ServerStates
<1>2. \A c \in Clients : [client[c] EXCEPT !.left = Less(@)] \in ClientStates
  <2> TAKE c \in Clients
  <2>1. client[c] \in ClientStates
    OBVIOUS
  <2>2. Less(client[c].left) \in Nat
    BY <2>1 DEF ClientStates, Less
  <2> QED BY <2>1, <2>2 DEF ClientStates
<1> QED BY <1>1, <1>2 DEF Tick

-----------------------------------------------------------------------------
(* Serve: who holds a connection *)

LEMMA HeldInit == ASSUME Init PROVE HoldsRight
BY DEF Init, HoldsRight, OneConnection, HolderWaits, StartedKnows, LeaverIdle

\* Connections that end disturb nobody.
LEMMA FewerHeld == ASSUME HoldsRight, handlers' \subseteq handlers, UNCHANGED client PROVE HoldsRight'
BY DEF HoldsRight, OneConnection, HolderWaits, StartedKnows, LeaverIdle

\* Nor does one that moves on and does not run yet.
LEMMA MovedHeld ==
    ASSUME HoldsRight, handlers \subseteq Connections, NEW h \in handlers, NEW at \in {"waiting", "probed"},
           handlers' = (handlers \ {h}) \cup {[h EXCEPT !.at = at]}, UNCHANGED client
    PROVE  HoldsRight'
<1> DEFINE m == [h EXCEPT !.at = at]
<1>1. m.open = h.open /\ m.cli = h.cli /\ m.at # "running"
  BY DEF Connections
<1> HIDE DEF m
<1>2. handlers' = (handlers \ {h}) \cup {m}
  BY DEF m
<1> QED BY <1>1, <1>2 DEF HoldsRight, OneConnection, HolderWaits, StartedKnows, LeaverIdle

LEMMA AnswerHeld ==
    ASSUME ServeAssumption, TypeOK, HoldsRight, NEW s \in Servers,
           Accept(s) \/ TakeTurn(s) \/ WriteAck(s) \/ Finish(s)
    PROVE  HoldsRight'
<1> USE DEF TypeOK
<1>1. CASE Accept(s)
  <2>1. PICK h \in handlers : handlers' = (handlers \ {h}) \cup {[h EXCEPT !.at = "waiting"]}
    BY <1>1 DEF Accept
  <2> QED BY <1>1, <2>1, MovedHeld DEF Accept
<1>2. CASE TakeTurn(s)
  <2>1. PICK h \in handlers : handlers' = IF h.open
           THEN (handlers \ {h}) \cup {[h EXCEPT !.at = "probed"]} ELSE handlers \ {h}
    BY <1>2 DEF TakeTurn
  <2>2. CASE h.open
    BY <1>2, <2>1, <2>2, MovedHeld DEF TakeTurn
  <2>3. CASE ~ h.open
    BY <1>2, <2>1, <2>3, FewerHeld DEF TakeTurn
  <2> QED BY <2>2, <2>3
<1>3. CASE WriteAck(s)
  <2>1. PICK h \in handlers : IF h.open
           THEN /\ handlers' = (handlers \ {h})
                                  \cup {[h EXCEPT !.at = "running", !.late = client[h.cli].left = 0]}
                /\ client' = [client EXCEPT ![h.cli].got = "ack"]
           ELSE handlers' = handlers \ {h} /\ UNCHANGED client
    BY <1>3 DEF WriteAck
  <2>2. CASE h.open
    <3>1. PICK c \in Clients : c = h.cli
      BY <2>2 DEF HoldsRight, HolderWaits
    <3> DEFINE m == [h EXCEPT !.at = "running", !.late = client[c].left = 0]
    <3>2. m.open = h.open /\ m.cli = c /\ (~ m.late => client[c].left > 0)
      <4>1. client[c].left \in Nat /\ h \in Connections
        BY DEF ClientStates
      <4>2. m.open = h.open /\ m.cli = c /\ m.late = (client[c].left = 0)
        BY <3>1, <4>1 DEF Connections
      <4>3. ~ m.late => client[c].left # 0
        <5> HIDE DEF m
        <5> QED BY <4>2, Zenon
      <4> QED BY <4>1, <4>2, <4>3
    <3>3. handlers' = (handlers \ {h}) \cup {m}
      BY <2>1, <2>2, <3>1
    <3> HIDE DEF m
    <3>4. /\ client'[c].pc = client[c].pc /\ client'[c].left = client[c].left /\ client'[c].got = "ack"
          /\ \A d \in Clients : client'[d].pc = client[d].pc /\ client'[d].left = client[d].left
          /\ \A d \in Clients : d # c => client'[d] = client[d]
      BY <2>1, <2>2, <3>1 DEF ClientStates
    <3>5. \A k \in handlers \ {h} : k.open => k.cli # c
      BY <2>2, <3>1 DEF HoldsRight, OneConnection
    <3>6. OneConnection'
      BY <2>2, <3>2, <3>3, <3>5 DEF HoldsRight, OneConnection
    <3>7. HolderWaits'
      BY <2>2, <3>1, <3>2, <3>3, <3>4, <3>5 DEF HoldsRight, HolderWaits
    <3>8. StartedKnows'
      BY <2>2, <3>1, <3>2, <3>3, <3>4, <3>5 DEF HoldsRight, StartedKnows, HolderWaits
    <3>9. LeaverIdle'
      <4>1. \A k \in handlers : k.cli # None => k.cli \in Clients
        BY DEF Connections
      <4> QED BY ZenonT(60), <2>2, <3>2, <3>3, <3>4, <4>1 DEF HoldsRight, LeaverIdle
    <3> QED BY <3>6, <3>7, <3>8, <3>9 DEF HoldsRight
  <2>3. CASE ~ h.open
    BY <2>1, <2>3, FewerHeld
  <2> QED BY <2>2, <2>3
<1>4. CASE Finish(s)
  <2>1. PICK h \in handlers : handlers' = handlers \ {h}
           /\ client' = IF h.open THEN [client EXCEPT ![h.cli].got = "answer"] ELSE client
    BY <1>4 DEF Finish
  <2>2. CASE h.open
    <3>1. PICK c \in Clients : c = h.cli
      BY <2>2 DEF HoldsRight, HolderWaits
    <3>2. \A d \in Clients : client'[d].pc = client[d].pc /\ (d # c => client'[d] = client[d])
      BY <2>1, <2>2, <3>1 DEF ClientStates
    <3>3. \A k \in handlers \ {h} : k.open => k.cli # c
      BY <2>2, <3>1 DEF HoldsRight, OneConnection
    <3>4. \A k \in handlers : k.cli # None => k.cli \in Clients
      BY DEF Connections
    <3> QED BY <2>1, <3>2, <3>3, <3>4 DEF HoldsRight, OneConnection, HolderWaits, StartedKnows, LeaverIdle
  <2>3. CASE ~ h.open
    BY <2>1, <2>3, FewerHeld
  <2> QED BY <2>2, <2>3
<1> QED BY <1>1, <1>2, <1>3, <1>4

\* A client that asks anew gives up what still runs for it.
LEMMA OlderHeld ==
    ASSUME ServeAssumption, TypeOK, HoldsRight, NEW c \in Clients, client[c].pc = "idle", NEW r, Becomes(c, r),
           handlers' = Older(c)
    PROVE  HoldsRight' /\ \A h \in handlers' : h.cli # c
<1>1. \A h \in handlers : ~ (h.open /\ h.cli = c)
  BY DEF HoldsRight, HolderWaits
<1>2. \A d \in Clients : d # c => client'[d] = client[d]
  BY DEF Becomes, TypeOK
<1>3. \A k \in handlers' :
         \/ k \in handlers /\ k.cli # c
         \/ ~ k.open /\ k.cli = None
  BY <1>1 DEF Older, TypeOK, Connections
<1>4. \A k \in handlers' : k.cli # c /\ (k.cli # None => k.cli \in Clients)
  BY <1>3 DEF ServeAssumption, TypeOK, Connections
<1> QED BY <1>2, <1>3, <1>4 DEF HoldsRight, OneConnection, HolderWaits, StartedKnows, LeaverIdle

\* A client that leaves has not been started in time, or asks nothing now.
LEMMA LeftHeld ==
    ASSUME ServeAssumption, TypeOK, HoldsRight, NEW c \in Clients, client[c].pc # "idle", NEW r, Becomes(c, r), HangUp(c),
           \/ client'[c].pc = "idle"
           \/ client[c].pc = "queued" /\ client[c].left = 0
    PROVE  HoldsRight'
<1>1. \A d \in Clients : d # c => client'[d] = client[d]
  BY DEF Becomes, TypeOK
<1>2. \A k \in handlers' :
         \/ k \in handlers /\ k.cli # c
         \/ ~ k.open /\ \E h \in handlers : h.cli = c /\ k.at = h.at /\ k.late = h.late /\ k.cli \in {c, None}
  BY ZenonT(60) DEF HangUp, Hung, TypeOK, Connections
<1>3. \A k \in handlers : k.cli # None => k.cli \in Clients
  BY DEF TypeOK, Connections
<1>4. OneConnection' /\ HolderWaits' /\ StartedKnows'
  BY <1>1, <1>2 DEF HoldsRight, OneConnection, HolderWaits, StartedKnows
<1>5. LeaverIdle'
  <2> SUFFICES ASSUME NEW k \in handlers', k.at = "running", ~ k.open, ~ k.late, k.cli # None
               PROVE  client'[k.cli].pc = "idle"
    BY DEF LeaverIdle
  <2>1. CASE k \in handlers /\ k.cli # c
    BY <1>1, <1>3, <2>1 DEF HoldsRight, LeaverIdle
  <2>2. CASE \E h \in handlers : h.cli = c /\ k.at = h.at /\ k.late = h.late /\ k.cli \in {c, None}
    <3>1. PICK h \in handlers : h.cli = c /\ h.at = "running" /\ ~ h.late /\ k.cli = c
      BY <2>2
    <3>2. h.open
      BY <3>1 DEF HoldsRight, LeaverIdle, ServeAssumption
    <3>3. ~ (client[c].pc = "queued" /\ client[c].left = 0)
      BY <3>1, <3>2 DEF HoldsRight, StartedKnows
    <3> QED BY <3>1, <3>3
  <2> QED BY <1>2, <2>1, <2>2
<1> QED BY <1>4, <1>5 DEF HoldsRight

\* A client that nobody is connected for moves as it likes.
LEMMA AloneHeld ==
    ASSUME ServeAssumption, TypeOK, HoldsRight, NEW c \in Clients, client[c].pc # "idle", NEW r, Becomes(c, r),
           UNCHANGED handlers, \A h \in handlers : h.open => h.cli # c
    PROVE  HoldsRight'
<1>1. \A d \in Clients : d # c => client'[d] = client[d]
  BY DEF Becomes, TypeOK
<1>2. \A k \in handlers : k.cli # None => k.cli \in Clients
  BY DEF TypeOK, Connections
<1>3. \A k \in handlers : k.at = "running" /\ ~ k.open /\ ~ k.late => k.cli # c
  BY DEF HoldsRight, LeaverIdle, ServeAssumption
<1> QED BY <1>1, <1>2, <1>3 DEF HoldsRight, OneConnection, HolderWaits, StartedKnows, LeaverIdle

LEMMA AsksHeld ==
    ASSUME ServeAssumption, TypeOK, HoldsRight, NEW c \in Clients, Ask(c) \/ Wait(c) \/ ClientKilled(c) PROVE HoldsRight'
<1>1. CASE AskNoServer(c) \/ AskUnreachable(c)
  BY <1>1, OlderHeld DEF AskNoServer, AskUnreachable
<1>2. CASE AskServer(c)
  <2> DEFINE older == Older(c)
  <2>1. PICK s \in Servers : handlers' = older \cup {[srv |-> s, at |-> "backlog", cli |-> c,
                                                     open |-> TRUE, late |-> FALSE]}
    BY <1>2 DEF AskServer
  <2> DEFINE k == [srv |-> s, at |-> "backlog", cli |-> c, open |-> TRUE, late |-> FALSE]
  <2>2. k.at = "backlog" /\ k.cli = c /\ k.open
    OBVIOUS
  <2>3. handlers' = older \cup {k}
    BY <2>1
  <2>4. \A h \in handlers : ~ (h.open /\ h.cli = c)
    BY <1>2 DEF HoldsRight, HolderWaits, AskServer
  <2>5. \A h \in older :
           \/ h \in handlers /\ h.cli # c
           \/ ~ h.open /\ h.cli = None
    BY <2>4 DEF Older, TypeOK, Connections
  <2>6. \A h \in older : h.cli # c /\ (h.cli # None => h.cli \in Clients)
    BY <2>5 DEF ServeAssumption, TypeOK, Connections
  <2>7. /\ \A d \in Clients : d # c => client'[d] = client[d]
        /\ client'[c].pc = "queued" /\ client'[c].got = "nothing"
    BY <1>2 DEF AskServer, Becomes, AskState, TypeOK
  <2> HIDE DEF k, older
  <2>8. OneConnection'
    BY <2>2, <2>3, <2>5, <2>6 DEF HoldsRight, OneConnection
  <2>9. HolderWaits'
    BY <2>2, <2>3, <2>5, <2>6, <2>7 DEF HoldsRight, HolderWaits
  <2>10. StartedKnows' /\ LeaverIdle'
    BY <2>2, <2>3, <2>5, <2>6, <2>7 DEF HoldsRight, StartedKnows, LeaverIdle, HolderWaits
  <2> QED BY <2>8, <2>9, <2>10 DEF HoldsRight
<1>3. CASE readAck(c)
  <2>1. /\ client[c].pc = "queued" /\ client'[c].pc = "started" /\ client'[c].got = client[c].got
        /\ \A d \in Clients : d # c => client'[d] = client[d]
        /\ UNCHANGED handlers
    BY <1>3 DEF readAck, Becomes, AskState, TypeOK
  <2>2. \A h \in handlers : h.cli # None => h.cli \in Clients
    BY DEF TypeOK, Connections
  <2> QED BY <2>1, <2>2 DEF HoldsRight, OneConnection, HolderWaits, StartedKnows, LeaverIdle
<1>4. CASE ReadAnswer(c)
  <2>1. \A h \in handlers : h.open => h.cli # c
    BY <1>4 DEF ReadAnswer, HoldsRight, HolderWaits
  <2> QED BY <1>4, <2>1, AloneHeld DEF ReadAnswer
<1>5. CASE ReadEnd(c)
  BY <1>5, AloneHeld DEF ReadEnd
<1>6. CASE QueueTimeout(c)
  BY <1>6, LeftHeld DEF QueueTimeout, queueOver
<1>7. CASE AnswerTimeout(c)
  <2>1. client'[c].pc = "idle"
    BY <1>7 DEF AnswerTimeout, Becomes, afterTotal, Idle, AskState, TypeOK
  <2> QED BY <1>7, <2>1, LeftHeld DEF AnswerTimeout
<1>8. CASE LocalDone(c)
  <2>1. \A h \in handlers : h.open => h.cli # c
    BY <1>8 DEF LocalDone, HoldsRight, HolderWaits
  <2> QED BY <1>8, <2>1, AloneHeld DEF LocalDone
<1>9. CASE ClientKilled(c)
  <2>1. client'[c].pc = "idle"
    BY <1>9 DEF ClientKilled, Becomes, Idle, AskState, TypeOK
  <2> QED BY <1>9, <2>1, LeftHeld DEF ClientKilled
<1> QED BY <1>1, <1>2, <1>3, <1>4, <1>5, <1>6, <1>7, <1>8, <1>9 DEF Ask, Wait

\* A start byte that is in hand is read before its client's deadline passes.
LEMMA TickHeld == ASSUME TypeOK, HoldsRight, Tick PROVE HoldsRight'
<1>1. /\ \A d \in Clients : client'[d].pc = client[d].pc /\ client'[d].got = client[d].got
      /\ UNCHANGED handlers
  BY DEF Tick, TypeOK, ClientStates
<1>2. \A h \in handlers : h.cli # None => h.cli \in Clients
  BY DEF TypeOK, Connections
<1>3. OneConnection' /\ HolderWaits' /\ LeaverIdle'
  BY <1>1, <1>2 DEF HoldsRight, OneConnection, HolderWaits, LeaverIdle
<1>4. StartedKnows'
  <2> SUFFICES ASSUME NEW h \in handlers, h.at = "running", h.open, ~ h.late
               PROVE  client'[h.cli].got # "nothing" /\ client'[h.cli].pc # "queued"
    BY <1>1 DEF StartedKnows
  <2>1. h.cli \in Clients /\ client[h.cli].got # "nothing"
    BY DEF HoldsRight, HolderWaits, StartedKnows
  <2>2. client[h.cli].pc # "queued"
    BY <2>1 DEF Tick, HoldsRight, StartedKnows
  <2> QED BY <1>1, <2>1, <2>2
<1> QED BY <1>3, <1>4 DEF HoldsRight

-----------------------------------------------------------------------------

LEMMA Invariance == ASSUME ServeAssumption, IInv, [Next]_vars PROVE IInv'
<1> USE DEF IInv
<1>1. CASE \E s \in Servers : Start(s)
  <2>1. PICK s \in Servers : Start(s)
    BY <1>1
  <2>2. handlers' \subseteq handlers /\ UNCHANGED client
    BY <2>1 DEF Start, Bind, Probe, RemoveStale, Rebind, Listen, StatBound
  <2> QED BY <2>1, <2>2, StartTyped, FewerHeld
<1>2. CASE \E s \in Servers : Accept(s) \/ TakeTurn(s) \/ WriteAck(s) \/ Finish(s)
  BY <1>2, AnswerTyped, AnswerHeld DEF HoldsRight
<1>3. CASE \E s \in Servers : Close(s) \/ Cancel(s) \/ Kill(s)
  <2>1. PICK s \in Servers : Close(s) \/ Cancel(s) \/ Kill(s)
    BY <1>3
  <2>2. handlers' \subseteq handlers /\ UNCHANGED client
    BY <2>1 DEF Close, Cancel, Kill, IdleFires, CloseListener, onShutdown, Return
  <2> QED BY <2>1, <2>2, GoTyped, FewerHeld
<1>4. CASE \E c \in Clients : Ask(c) \/ Wait(c) \/ ClientKilled(c)
  BY <1>4, AsksTyped, AsksHeld
<1>5. CASE Tick
  BY <1>5, TickTyped, TickHeld
<1>6. CASE UNCHANGED vars
  BY <1>6 DEF vars, TypeOK, HoldsRight, OneConnection, HolderWaits, StartedKnows, LeaverIdle
<1> QED BY <1>1, <1>2, <1>3, <1>4, <1>5, <1>6 DEF Next

LEMMA Invariant == Spec => []IInv
<1>1. Init => IInv
  BY ServeAssumption, TypeInit, HeldInit DEF IInv
<1>2. IInv /\ [Next]_vars => IInv'
  BY ServeAssumption, Invariance
<1> QED BY <1>1, <1>2, PTL DEF Spec

\* Every state of the server and its clients is well typed.
THEOREM TypeCorrect == Spec => []TypeOK
<1>1. IInv => TypeOK
  BY DEF IInv
<1> QED BY <1>1, Invariant, PTL

\* No ask is run by a server and by its own process, but in the window of a
\* start byte that goes out past the deadline, whatever the timeouts, however
\* many clients and servers, and whoever is killed when.
THEOREM RunOnce == Spec => []AtMostOneCopy
<1>1. IInv => AtMostOneCopy
  <2> SUFFICES ASSUME IInv, NEW h \in handlers, h.at = "running", h.cli # None, client[h.cli].pc = "local"
               PROVE  h.late
    BY DEF AtMostOneCopy
  <2>1. CASE h.open
    BY <2>1 DEF IInv, HoldsRight, HolderWaits
  <2>2. CASE ~ h.open
    BY <2>2 DEF IInv, HoldsRight, LeaverIdle
  <2> QED BY <2>1, <2>2
<1> QED BY <1>1, Invariant, PTL

-----------------------------------------------------------------------------
(* Serve: the socket of a replacement *)

\* What is at the path since a server closed its listener is not what it bound.
OwnGone == \A s \in Servers : server[s].pc \in {"drain", "return"} => file = None \/ file # server[s].own

LEMMA GoesTo ==
    ASSUME server \in [Servers -> ServerStates], NEW s \in Servers, NEW pc, Goto(s, pc)
    PROVE  server'[s].pc = pc /\ server'[s].own = server[s].own
BY DEF Goto, ServerStates

LEMMA ExitsTo ==
    ASSUME server \in [Servers -> ServerStates], NEW s \in Servers, Exit(s) PROVE server'[s].pc = "down"
BY DEF Exit, Down

LEMMA OwnGoneStart ==
    ASSUME ServeAssumption, ~ ReuseInodes, TypeOK, OwnGone, NEW s \in Servers, Start(s) PROVE OwnGone'
<1>1. \A r \in Servers : server'[r].pc \in {"drain", "return"} => server'[r] = server[r] /\ r # s
  <2> TAKE r \in Servers
  <2>1. CASE r # s
    BY <2>1 DEF Start, Bind, Probe, RemoveStale, Rebind, Listen, StatBound, Bound, Goto, Exit, TypeOK
  <2>2. CASE r = s
    <3>1. server'[s].pc \notin {"drain", "return"}
      <4>1. server[s] \in ServerStates /\ server' = [server EXCEPT ![s] = server'[s]]
        BY DEF Start, Bind, Probe, RemoveStale, Rebind, Listen, StatBound, Bound, Goto, Exit, TypeOK
      <4>2. CASE Bound(s)
        BY <4>1, <4>2 DEF Bound, TypeOK, ServerStates
      <4>3. CASE Bind(s) \/ Rebind(s) \/ Probe(s) \/ RemoveStale(s) \/ Listen(s)
        BY <4>2, <4>3, GoesTo, ExitsTo DEF Bind, Rebind, Probe, RemoveStale, Listen, TypeOK
      <4>4. CASE StatBound(s)
        <5>1. CASE file = None
          BY <4>4, <5>1, ExitsTo DEF StatBound, TypeOK
        <5>2. CASE file # None
          <6> DEFINE up == [server[s] EXCEPT !.pc = "serve", !.own = file, !.idle = IdleTime]
          <6>1. up.pc = "serve"
            BY <4>1 DEF ServerStates
          <6>2. server'[s] = up
            BY <4>4, <5>2 DEF StatBound, TypeOK
          <6> HIDE DEF up
          <6> QED BY <6>1, <6>2
        <5> QED BY <5>1, <5>2
      <4> QED BY <4>2, <4>3, <4>4 DEF Start
    <3> QED BY <2>2, <3>1
  <2> QED BY <2>1, <2>2
<1>2. \/ file' \in {file, None}
      \/ \A r \in Servers : server[r].own # file'
  BY DEF Start, Bind, Probe, RemoveStale, Rebind, Listen, StatBound, Bound, FreeInode
<1> QED BY <1>1, <1>2 DEF OwnGone

LEMMA OwnGoneStep ==
    ASSUME ServeAssumption, ~ ReuseInodes, TypeOK, OwnGone, [Next]_vars PROVE OwnGone'
<1>1. CASE \E s \in Servers : Start(s)
  BY <1>1, OwnGoneStart
<1>2. CASE \E s \in Servers : CloseListener(s)
  BY <1>2 DEF CloseListener, OwnGone
<1>3. CASE \E s \in Servers : onShutdown(s) \/ Return(s) \/ Kill(s)
  <2>1. PICK s \in Servers : onShutdown(s) \/ Return(s) \/ Kill(s)
    BY <1>3
  <2>2. \A r \in Servers : r # s => server'[r] = server[r]
    BY <2>1 DEF onShutdown, Return, Kill, Goto, Exit, TypeOK
  <2>3. \/ server'[s].pc = "down"
        \/ server[s].pc = "drain" /\ server'[s].own = server[s].own
    <3>1. CASE onShutdown(s)
      BY <3>1, GoesTo DEF onShutdown, At, TypeOK
    <3>2. CASE Exit(s)
      BY <3>2, ExitsTo DEF TypeOK
    <3> QED BY <2>1, <3>1, <3>2 DEF Return, Kill
  <2>4. file' \in {file, None}
    BY <2>1 DEF onShutdown, Return, Kill, removeSocket
  <2> QED BY <2>2, <2>3, <2>4 DEF OwnGone
<1>4. CASE \/ \E s \in Servers : Accept(s) \/ TakeTurn(s) \/ WriteAck(s) \/ Finish(s)
           \/ Tick
           \/ UNCHANGED vars
  <2>1. file' = file
    BY <1>4 DEF Accept, TakeTurn, WriteAck, Finish, Tick, vars
  <2>2. \A r \in Servers : server'[r].pc = server[r].pc /\ server'[r].own = server[r].own
    <3>1. CASE \E s \in Servers : Accept(s) \/ TakeTurn(s)
      BY <3>1 DEF Accept, TakeTurn, acceptTouch, afterGone, TypeOK, ServerStates
    <3>2. CASE \E s \in Servers : WriteAck(s) \/ Finish(s)
      <4>1. PICK s \in Servers : WriteAck(s) \/ Finish(s)
        BY <3>2
      <4> DEFINE a == touched(server[s])
                 b == [server[s] EXCEPT !.locked = FALSE]
                 d == [touched(server[s]) EXCEPT !.locked = FALSE]
      <4>2. \A r \in {a, b, d} : r.pc = server[s].pc /\ r.own = server[s].own
        <5>1. server[s] \in ServerStates
          BY DEF TypeOK
        <5> QED BY <5>1 DEF touched, ServerStates
      <4>3. \E r \in {a, b, d} : server' = [server EXCEPT ![s] = r]
        BY <4>1 DEF WriteAck, Finish
      <4> HIDE DEF a, b, d
      <4> QED BY <4>2, <4>3 DEF TypeOK
    <3>3. CASE Tick
      BY <3>3 DEF Tick, TypeOK, ServerStates
    <3>4. CASE UNCHANGED vars
      BY <3>4 DEF vars
    <3> QED BY <1>4, <3>1, <3>2, <3>3, <3>4
  <2> QED BY <2>1, <2>2 DEF OwnGone
<1>5. CASE \E c \in Clients : Ask(c) \/ Wait(c) \/ ClientKilled(c)
  <2>1. file' = file
    BY <1>5 DEF Ask, AskNoServer, AskUnreachable, AskServer, Wait, readAck, ReadAnswer, ReadEnd, QueueTimeout,
                AnswerTimeout, LocalDone, ClientKilled
  <2>2. CASE UNCHANGED server
    BY <2>1, <2>2 DEF OwnGone
  <2>3. CASE \E s \in Servers : startServer(s)
    <3>1. \A r \in Servers : server'[r].pc \in {"drain", "return"} => server'[r] = server[r]
      BY <2>3 DEF startServer, Goto, TypeOK, ServerStates
    <3> QED BY <2>1, <3>1 DEF OwnGone
  <2> QED BY <1>5, <2>2, <2>3 DEF Ask, AskNoServer, AskUnreachable, AskServer, Wait, readAck, ReadAnswer,
             ReadEnd, QueueTimeout, AnswerTimeout, LocalDone, ClientKilled
<1> QED BY <1>1, <1>2, <1>3, <1>4, <1>5 DEF Next, Close, IdleFires, Cancel

\* A server that returns leaves the path to whoever has bound it since, for any
\* number of servers, where the file system does not hand out the inode number
\* of a file that is gone to the next one.
THEOREM LeavesReplacement == ASSUME ~ ReuseInodes PROVE Spec => ReplacementKept
<1>1. Init => OwnGone
  BY DEF Init, OwnGone, Down
<1>2. TypeOK /\ OwnGone /\ [Next]_vars => OwnGone'
  BY ServeAssumption, OwnGoneStep
<1>3. OwnGone => \A s \in Servers :
         Return(s) /\ file # None /\ file' = None => \A r \in Servers : server[r].ino # file
  BY DEF OwnGone, Return, removeSocket, At
<1>4. Spec => []TypeOK
  BY TypeCorrect
<1>5. OwnGone /\ [Next]_vars => [\A s \in Servers :
         Return(s) /\ file # None /\ file' = None => \A r \in Servers : server[r].ino # file]_vars
  BY <1>3
<1> QED BY <1>1, <1>2, <1>4, <1>5, PTL DEF Spec, ReplacementKept
=============================================================================
