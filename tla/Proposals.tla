----------------------------- MODULE Proposals -----------------------------
(***************************************************************************)
(* `note propose` and `note accept` (internal/propose): a finding becomes  *)
(* a draft note, and accepting the draft appends it to the note it patches *)
(* or publishes it, closing the gap it answers.  Several processes run     *)
(* these commands over one vault and one index while a person edits and    *)
(* removes notes; every call may end, by an error or with its process,     *)
(* between any two of its steps.                                           *)
(*                                                                         *)
(* A note keeps its path and is known by it: a path stands for the id too. *)
(* The name of a patch draft carries the note, the second and a hash of    *)
(* the finding, so it belongs to one finding; the name of a new note       *)
(* carries the question.                                                   *)
(***************************************************************************)
EXTENDS Naturals, Sequences

CONSTANTS
    Callers,        \* processes that run a command
    Findings,       \* what agents propose
    Remarks,        \* what a person writes into a note
    Targets,        \* published notes a finding may belong to
    Gaps,           \* recorded questions without an answer
    PatchPaths,     \* names a patch draft can get
    NewPaths,       \* names a new note can get
    PatchOf,        \* patch name -> [finding, target]
    QuestionOf,     \* finding, and name of a new note -> its question
    None,
    MaxCommands,    \* bound of the model: commands that are started
    MaxEvents       \* bound of the model: acts of people, index passes

Paths == Targets \cup Gaps \cup PatchPaths \cup NewPaths

ASSUME PathAssumption ==
    /\ Targets \cap Gaps = {} /\ (Targets \cup Gaps) \cap (PatchPaths \cup NewPaths) = {}
    /\ PatchPaths \cap NewPaths = {}
    /\ PatchOf \in [PatchPaths -> [finding : Findings, target : Targets]]

ASSUME BoundAssumption == MaxCommands \in Nat /\ MaxEvents \in Nat

VARIABLES
    file,           \* the vault: path -> content
    row,            \* the index: path -> content when it was indexed
    caller,         \* the command each process is inside of
    kept,           \* history: findings written to the vault, and remarks, not removed by a person
    raced,          \* history: text that came into a file after the last look of a call at it
    unindexedGap,   \* history: drafts accepted while the index did not know their gap
    commands,       \* how many commands were started
    events          \* how many acts of others there were

history == <<kept, raced, unindexedGap>>
counters == <<commands, events>>
vars == <<file, row, caller, history, counters>>

Section == [finding : Findings, gap : Gaps \cup {None}]
Note == [kind : {"note"}, text : SUBSET Remarks, sections : [PatchPaths -> Seq(Section)]]
Patch == [kind : {"patch"}, finding : Findings, gap : Gaps \cup {None}, target : Targets]
New == [kind : {"new"}, finding : Findings, gap : Gaps \cup {None},
        status : {"draft", "accepted"}]
Gap == [kind : {"gap"}, status : {"open", "closed"}, by : Targets \cup NewPaths \cup {None}]
Content == Note \cup Patch \cup New \cup Gap

ASSUME NoneAssumption == None \notin Content \cup Paths

Steps == {"idle", "write", "index", "rank", "rerank", "scan", "read", "target", "gap", "closing",
          "append", "rename", "unrow", "unfile", "done"}

Call == [pc : Steps,
         path : Paths \cup {None},      \* the draft
         draft : Content \cup {None},   \* the draft as written or read
         raw : Content \cup {None},     \* the file about to be rewritten, as read
         seen : Content \cup {None}]    \* history: the file to be replaced, at the last look at it

At(pc, p, x) == [pc |-> pc, path |-> p, draft |-> x, raw |-> None, seen |-> None]

Idle == At("idle", None, None)

----------------------------------------------------------------------------
isDraft(x) == x # None /\ (x.kind = "patch" \/ (x.kind = "new" /\ x.status = "draft"))
isPatch(x) == x # None /\ x.kind = "patch"

\* fault: the section is appended whether or not the note has its marker
Marked_Never(note, p) == FALSE

\* acceptedMarker: the section of this proposal is in the note already
Marked(note, p) == note.sections[p] # <<>>

Sections(note, p) == {note.sections[p][i] : i \in DOMAIN note.sections[p]}

\* the words of people and agents that a file holds
Texts(x) ==
    IF x = None \/ x.kind = "gap" THEN {}
    ELSE IF x.kind \in {"patch", "new"} THEN {x.finding}
    ELSE x.text \cup UNION {{s.finding : s \in Sections(x, p)} : p \in PatchPaths}

\* a file is replaced by a call that saw it last with the content seen
Blind(p, seen) == raced' = raced \cup (Texts(file[p]) \ Texts(seen))

\* an accept is on its way to write the note back as it was when the section of
\* this patch was in it
Holds(c, p) ==
    /\ caller[c].pc \in {"gap", "closing", "append", "rename"} /\ caller[c].draft.kind = "patch"
    /\ caller[c].draft.target = PatchOf[p].target /\ Marked(caller[c].raw, p)

\* the note has the section of this patch, or will have it again, or an accept
\* has read the patch
Late(p) ==
    /\ p \in PatchPaths
    /\ \/ Marked(file[PatchOf[p].target], p)
       \/ \E c \in Callers : Holds(c, p)
       \/ \E c \in Callers : caller[c].path = p /\ caller[c].pc \in
             {"target", "gap", "closing", "append", "rename", "unrow", "unfile"}

Goto(c, pc) == caller' = [caller EXCEPT ![c] = [@ EXCEPT !.pc = pc]]
Finish(c) == caller' = [caller EXCEPT ![c] = Idle]

\* IndexFile stores what the file holds now
Indexed(p) == row' = [row EXCEPT ![p] = file[p]]

\* the re-index after a write: a failure is a warning
Reindexed(p) == UNCHANGED row \/ (file[p] # None /\ Indexed(p))

Start(c) ==
    /\ caller[c].pc = "idle" /\ commands < MaxCommands
    /\ commands' = commands + 1 /\ UNCHANGED events

\* somebody else does something
Event == events < MaxEvents /\ events' = events + 1 /\ UNCHANGED <<commands, caller>>

----------------------------------------------------------------------------
(* note propose *)

QuestionAt(p) == QuestionOf[IF p \in PatchPaths THEN PatchOf[p].finding ELSE p]

\* findDraft: a draft that asks this question is reported and nothing is written
Asked(f) == \E p \in PatchPaths \cup NewPaths :
                isDraft(row[p]) /\ QuestionAt(p) = QuestionOf[f]

\* freeRel and the check of the id
Free(p) == file[p] = None /\ row[p] = None

(***************************************************************************)
(* Run up to the write: the gap, when given, is an open one, no draft asks *)
(* the question, and the closest note decides between a patch of it and a  *)
(* new note.                                                               *)
(***************************************************************************)
Propose(c, f, g) ==
    /\ Start(c)
    /\ g # None => row[g] # None /\ row[g].status = "open"
    /\ ~Asked(f)
    /\ \/ \E p \in PatchPaths :
             /\ PatchOf[p].finding = f /\ row[PatchOf[p].target] # None /\ Free(p)
             /\ caller' = [caller EXCEPT ![c] = At("write", p,
                   [kind |-> "patch", finding |-> f, gap |-> g, target |-> PatchOf[p].target])]
       \/ \E p \in NewPaths :
             /\ QuestionOf[p] = QuestionOf[f] /\ Free(p)
             /\ caller' = [caller EXCEPT ![c] = At("write", p,
                   [kind |-> "new", finding |-> f, gap |-> g, status |-> "draft"])]
    /\ UNCHANGED <<file, row, history>>

\* os.WriteFile: whatever has the name by now is replaced
WriteDraft(c) ==
    LET p == caller[c].path IN
    /\ caller[c].pc = "write"
    /\ file' = [file EXCEPT ![p] = caller[c].draft]
    /\ kept' = kept \cup Texts(caller[c].draft)
    /\ raced' = raced \cup Texts(file[p]) \cup (IF Late(p) THEN Texts(caller[c].draft) ELSE {})
    /\ Goto(c, "index")
    /\ UNCHANGED <<row, unindexedGap, counters>>

IndexDraft(c) ==
    /\ caller[c].pc = "index"
    /\ Reindexed(caller[c].path)
    /\ Goto(c, "rank")
    /\ UNCHANGED <<file, history, counters>>

\* attachRankCheck adds keys that no other step looks at
RankRead(c) ==
    /\ caller[c].pc = "rank"
    /\ file[caller[c].path] # None
    /\ caller' = [caller EXCEPT ![c] = [@ EXCEPT !.pc = "rerank", !.raw = file[caller[c].path],
                                                    !.seen = file[caller[c].path]]]
    /\ UNCHANGED <<file, row, history, counters>>

RankRename(c) ==
    LET p == caller[c].path IN
    /\ caller[c].pc = "rerank"
    /\ file' = [file EXCEPT ![p] = caller[c].raw]
    /\ Blind(p, caller[c].seen)
    /\ row' \in {row, [row EXCEPT ![p] = caller[c].raw]}
    /\ Finish(c)
    /\ UNCHANGED <<kept, unindexedGap, counters>>

----------------------------------------------------------------------------
(* note accept *)

\* lookupAcceptNote asks the index
Accept(c, p) ==
    /\ Start(c)
    /\ caller' = [caller EXCEPT ![c] =
                     At(IF row[p] # None THEN "read" ELSE "scan", p, None)]
    /\ UNCHANGED <<file, row, history>>

\* reindexUnindexedProposal: the file of a patch is found by its name and indexed
ScanForProposal(c) ==
    LET p == caller[c].path IN
    /\ caller[c].pc = "scan"
    /\ isPatch(file[p])
    /\ Indexed(p)
    /\ Goto(c, "read")
    /\ UNCHANGED <<file, history, counters>>

\* The file of the row is gone: the row of a patch is removed, and no other.
FinishMissingProposal(c) ==
    LET p == caller[c].path IN
    /\ caller[c].pc = "read"
    /\ file[p] = None /\ isPatch(row[p])
    /\ row' = [row EXCEPT ![p] = None]
    /\ Finish(c)
    /\ UNCHANGED <<file, history, counters>>

\* only a draft is promoted
ReadDraft(c) ==
    LET p == caller[c].path IN
    /\ caller[c].pc = "read"
    /\ isDraft(file[p])
    /\ caller' = [caller EXCEPT ![c] =
          [@ EXCEPT !.draft = file[p], !.raw = IF isPatch(file[p]) THEN None ELSE file[p],
                    !.pc = IF isPatch(file[p]) THEN "target" ELSE "gap"]]
    /\ UNCHANGED <<file, row, history, counters>>

ReadTarget(c) ==
    LET t == caller[c].draft.target IN
    /\ caller[c].pc = "target"
    /\ row[t] # None /\ file[t] # None
    /\ caller' = [caller EXCEPT ![c] = [@ EXCEPT !.raw = file[t], !.pc = "gap"]]
    /\ UNCHANGED <<file, row, history, counters>>

(***************************************************************************)
(* closeLinkedGap: a gap the index does not know is reported and the draft *)
(* accepted anyway; one already closed is left alone, its row refreshed.   *)
(***************************************************************************)
CloseLinkedGap(c) ==
    LET g == caller[c].draft.gap IN
    /\ caller[c].pc = "gap"
    /\ \/ g = None /\ Goto(c, "append") /\ UNCHANGED <<row, unindexedGap>>
       \/ /\ g # None /\ row[g] = None
          /\ unindexedGap' = unindexedGap \cup {caller[c].path}
          /\ Goto(c, "append") /\ UNCHANGED row
       \/ /\ g # None /\ row[g] # None /\ file[g] # None /\ file[g].status = "closed"
          /\ row' \in {row, [row EXCEPT ![g] = file[g]]}
          /\ Goto(c, "append") /\ UNCHANGED unindexedGap
       \/ /\ g # None /\ row[g] # None /\ file[g] # None /\ file[g].status = "open"
          /\ Goto(c, "closing") /\ UNCHANGED <<row, unindexedGap>>
    /\ UNCHANGED <<file, kept, raced, counters>>

\* fault: the gap names the draft that answered it
ClosedBy_Draft(c) == caller[c].path

ClosedBy(c) == IF caller[c].draft.kind = "patch" THEN caller[c].draft.target ELSE caller[c].path

\* fault: the gap cannot be written and the draft is accepted anyway
GapRename_Skipped(c) ==
    /\ caller[c].pc = "closing"
    /\ Goto(c, "append")
    /\ UNCHANGED <<file, row, history, counters>>

\* rewriteNote of the gap, then its re-index, whose failure is ignored
GapRename(c) ==
    LET g == caller[c].draft.gap
        closed == [kind |-> "gap", status |-> "closed", by |-> ClosedBy(c)] IN
    /\ caller[c].pc = "closing"
    /\ file' = [file EXCEPT ![g] = closed]
    /\ row' \in {row, [row EXCEPT ![g] = closed]}
    /\ Goto(c, "append")
    /\ UNCHANGED <<history, counters>>

(***************************************************************************)
(* applyPatch or the new status, up to the check of AtomicWrite that the   *)
(* file is still what was read; a note that has the marker is not written. *)
(***************************************************************************)
Rewritten(c) == IF caller[c].draft.kind = "patch" THEN caller[c].draft.target ELSE caller[c].path

SkipMarked(c) ==
    /\ caller[c].pc = "append"
    /\ caller[c].draft.kind = "patch" /\ Marked(caller[c].raw, caller[c].path)
    /\ Goto(c, "unrow")
    /\ UNCHANGED <<file, row, history, counters>>

\* fault: written over whatever the file holds by now
AtomicWriteVerify_Blind(c) ==
    /\ caller[c].pc = "append"
    /\ caller[c].draft.kind = "patch" => ~Marked(caller[c].raw, caller[c].path)
    /\ caller' = [caller EXCEPT ![c] = [@ EXCEPT !.pc = "rename", !.seen = file[Rewritten(c)]]]
    /\ UNCHANGED <<file, row, history, counters>>

AtomicWriteVerify(c) ==
    /\ caller[c].pc = "append"
    /\ caller[c].draft.kind = "patch" => ~Marked(caller[c].raw, caller[c].path)
    /\ file[Rewritten(c)] = caller[c].raw
    /\ caller' = [caller EXCEPT ![c] = [@ EXCEPT !.pc = "rename", !.seen = file[Rewritten(c)]]]
    /\ UNCHANGED <<file, row, history, counters>>

\* appendSection puts the marker with it
appendSection(note, p, draft) ==
    [note EXCEPT !.sections[p] = Append(@, [finding |-> draft.finding, gap |-> draft.gap])]

AtomicWriteRename(c) ==
    LET call == caller[c] IN
    /\ call.pc = "rename"
    /\ \/ /\ call.draft.kind = "patch"
          /\ file' = [file EXCEPT ![call.draft.target] = appendSection(call.raw, call.path, call.draft)]
          /\ Goto(c, "unrow")
       \/ /\ call.draft.kind = "new"
          /\ file' = [file EXCEPT ![call.path] = [call.raw EXCEPT !.status = "accepted"]]
          /\ Goto(c, "done")
    /\ Blind(Rewritten(c), call.seen)
    /\ UNCHANGED <<row, kept, unindexedGap, counters>>

\* The row goes first, so that a retry still finds the file.
RemoveProposalRow(c) ==
    /\ caller[c].pc = "unrow"
    /\ row' = [row EXCEPT ![caller[c].path] = None]
    /\ Goto(c, "unfile")
    /\ UNCHANGED <<file, history, counters>>

RemoveProposalFile(c) ==
    LET p == caller[c].path IN
    /\ caller[c].pc = "unfile"
    /\ file[p] # None
    /\ file' = [file EXCEPT ![p] = None]
    /\ Blind(p, caller[c].draft)
    /\ Goto(c, "done")
    /\ UNCHANGED <<row, kept, unindexedGap, counters>>

IndexAccepted(c) ==
    LET t == Rewritten(c) IN
    /\ caller[c].pc = "done"
    /\ Reindexed(t)
    /\ Finish(c)
    /\ UNCHANGED <<file, history, counters>>

\* an error, a refusal or the end of the process
Abandon(c) ==
    /\ caller[c].pc # "idle"
    /\ Finish(c)
    /\ UNCHANGED <<file, row, history, counters>>

----------------------------------------------------------------------------
(* People and other commands *)

\* a person rejects a draft by removing it
UserRemoves(p) ==
    /\ isDraft(file[p])
    /\ file' = [file EXCEPT ![p] = None]
    /\ kept' = kept \ Texts(file[p])
    /\ Event /\ UNCHANGED <<row, raced, unindexedGap>>

UserRemarks(t, r) ==
    /\ file[t] # None
    /\ file' = [file EXCEPT ![t].text = @ \cup {r}]
    /\ kept' = kept \cup {r}
    /\ Event /\ UNCHANGED <<row, raced, unindexedGap>>

\* a person rewrites a draft
UserEditsDraft(p, f) ==
    /\ isDraft(file[p]) /\ file[p].finding # f
    /\ file' = [file EXCEPT ![p].finding = f]
    /\ kept' = (kept \ Texts(file[p])) \cup {f}
    /\ raced' = raced \cup (IF Late(p) THEN {f} ELSE {})
    /\ Event /\ UNCHANGED <<row, unindexedGap>>

\* an index pass reaches the path
IndexPass(p) ==
    /\ Indexed(p)
    /\ Event /\ UNCHANGED <<file, history>>

Init ==
    /\ file = [p \in Paths |->
                  IF p \in Targets
                  THEN [kind |-> "note", text |-> {}, sections |-> [d \in PatchPaths |-> <<>>]]
                  ELSE IF p \in Gaps THEN [kind |-> "gap", status |-> "open", by |-> None]
                  ELSE None]
    /\ row \in {[p \in Paths |-> IF p \in S THEN None ELSE file[p]] : S \in SUBSET Gaps}
    /\ caller = [c \in Callers |-> Idle]
    /\ kept = {} /\ raced = {} /\ unindexedGap = {}
    /\ commands = 0 /\ events = 0

Next ==
    \/ \E c \in Callers :
          \/ \E f \in Findings, g \in Gaps \cup {None} : Propose(c, f, g)
          \/ WriteDraft(c) \/ IndexDraft(c) \/ RankRead(c) \/ RankRename(c)
          \/ \E p \in PatchPaths \cup NewPaths : Accept(c, p)
          \/ ScanForProposal(c) \/ FinishMissingProposal(c) \/ ReadDraft(c) \/ ReadTarget(c)
          \/ CloseLinkedGap(c) \/ GapRename(c)
          \/ SkipMarked(c) \/ AtomicWriteVerify(c) \/ AtomicWriteRename(c)
          \/ RemoveProposalRow(c) \/ RemoveProposalFile(c) \/ IndexAccepted(c)
          \/ Abandon(c)
    \/ \E p \in PatchPaths \cup NewPaths : UserRemoves(p)
    \/ \E t \in Targets, r \in Remarks : UserRemarks(t, r)
    \/ \E p \in PatchPaths \cup NewPaths, f \in Findings : UserEditsDraft(p, f)
    \/ \E p \in Paths : IndexPass(p)

Spec == Init /\ [][Next]_vars
----------------------------------------------------------------------------
(* Properties *)

TypeOK ==
    /\ file \in [Paths -> Content \cup {None}] /\ row \in [Paths -> Content \cup {None}]
    /\ \A p \in Paths : \A x \in {file[p], row[p]} :
          /\ p \in Targets => x \in Note
          /\ p \in Gaps => x \in Gap \cup {None}
          /\ p \in PatchPaths => x \in Patch \cup {None}
          /\ p \in NewPaths => x \in New \cup {None}
    /\ caller \in [Callers -> Call]
    /\ kept \subseteq Findings \cup Remarks /\ raced \subseteq Findings \cup Remarks
    /\ unindexedGap \subseteq PatchPaths \cup NewPaths
    /\ commands \in 0..MaxCommands /\ events \in 0..MaxEvents

\* A proposal is appended to its note at most once, however often its accept
\* fails, dies, is repeated or runs twice at the same time (acceptedMarker).
SectionOnce ==
    \A t \in Targets, p \in PatchPaths : Len(file[t].sections[p]) <= 1

\* What agents proposed and people wrote stays in the vault, in the draft or
\* in the note, at every point of every accept, until a person removes it;
\* except for text that came into a file between the last look of a call at
\* it and the call's write, or into a draft whose accept was under way or whose
\* section a racing write was about to bring back.
FindingKept == kept \subseteq raced \cup UNION {Texts(file[p]) : p \in Paths}

\* A finding is in its note, or published, only after the gap it answers was
\* closed, unless the index did not know the gap (closeLinkedGap).
AppliedClosesGap ==
    /\ \A t \in Targets, p \in PatchPaths : \A s \in Sections(file[t], p) :
          s.gap # None => file[s.gap].status = "closed" \/ p \in unindexedGap
    /\ \A p \in NewPaths : file[p] # None /\ file[p].status = "accepted" /\ file[p].gap # None =>
          file[file[p].gap].status = "closed" \/ p \in unindexedGap
=============================================================================
