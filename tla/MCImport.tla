------------------------------ MODULE MCImport ------------------------------
(* Two documents whose paths share a slug; the first one's note in two cases  *)
(* of its name, the second one's, a copy, and a folder of another import.     *)
EXTENDS Import

CONSTANTS n1, n1c, n2, copy, away

Text(h) == [hash |-> h, title |-> "t"]
MCTexts == {Text("h1"), Text("h2")}
MCTextsAtStart == {<<Text("h1"), Text("h1")>>, <<Text("h1"), NoFile>>}
MCNameOf == [d \in Docs |-> IF d = 1 THEN n1 ELSE n2]
MCFold == [n \in Names |-> IF n = n1c THEN n1 ELSE n]
MCSlug == [d \in Docs |-> "s"]

\* A vault that holds nothing of the import, the note of a person in its way,
\* or what an import of both documents left.
NoNotes == [n \in Names |-> NoFile]

Imported(d, id) ==
    [managed |-> TRUE, id |-> id, source |-> d, hash |-> "h1", title |-> "t", body |-> "h1", extra |-> FALSE]

MCNotesAtStart ==
    {NoNotes, [NoNotes EXCEPT ![n1c] = Person],
     [NoNotes EXCEPT ![n1] = Imported(1, <<"s", NoFile>>), ![n2] = Imported(2, <<"s", 2>>)]}

\* A copy is left before a document changes or a person acts, maybe on the copy.
CopyFirst == notes[copy] = NoFile /\ notes'[copy] # NoFile => hands' = 0 /\ edits = 0
=============================================================================
