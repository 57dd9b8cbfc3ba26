-------------------------- MODULE ProposalsProofs --------------------------
(***************************************************************************)
(* What Proposals promises for every set of callers, notes, gaps, findings *)
(* and names.  AllTyped says what may be under each name and what each     *)
(* step of a call has in its hands.  Good says that a call about to append *)
(* holds a note without the marker, so that the one rename cannot append   *)
(* twice, and that a call about to apply a finding has passed its gap,     *)
(* which never opens again.  Found says that a text that was kept has a    *)
(* place: a file that has it, and if that is the file of a patch, one that *)
(* no accept will remove before the finding it holds now is in the note.   *)
(***************************************************************************)
EXTENDS Proposals, TLAPS

\* what may be under a name
ContentAt(p) ==
    IF p \in Targets THEN Note
    ELSE IF p \in Gaps THEN Gap \cup {None}
    ELSE IF p \in PatchPaths THEN Patch \cup {None}
    ELSE New \cup {None}

DraftAt(p) == IF p \in PatchPaths THEN Patch ELSE New

Typed(f) == f \in [Paths -> Content \cup {None}] /\ \A p \in Paths : f[p] \in ContentAt(p)

\* the file an accept rewrites, as it was read
RawOf(k) ==
    IF k.path \in PatchPaths THEN k.raw \in Note
    ELSE k.raw \in New /\ k.raw.gap = k.draft.gap

CallTyped(k) ==
    /\ k \in Call
    /\ k.pc # "idle" => k.path \in PatchPaths \cup NewPaths
    /\ k.pc \in {"write", "target", "gap", "closing", "append", "rename", "unrow", "unfile", "done"}
          => k.draft \in DraftAt(k.path)
    /\ k.pc = "rerank" => k.raw \in DraftAt(k.path)
    /\ k.pc \in {"target", "unrow", "unfile"} => k.path \in PatchPaths
    /\ k.pc \in {"gap", "closing", "append", "rename"} => RawOf(k)
    /\ k.pc = "closing" => k.draft.gap \in Gaps

HistoryTyped ==
    /\ kept \subseteq Findings \cup Remarks /\ raced \subseteq Findings \cup Remarks
    /\ unindexedGap \subseteq PatchPaths \cup NewPaths
    /\ commands \in 0..MaxCommands /\ events \in 0..MaxEvents

CallsTyped == caller \in [Callers -> Call] /\ \A c \in Callers : CallTyped(caller[c])

AllTyped == Typed(file) /\ Typed(row) /\ CallsTyped /\ HistoryTyped

----------------------------------------------------------------------------
(* Contents *)

LEMMA Kinds ==
    /\ None \notin Note /\ None \notin Patch /\ None \notin New /\ None \notin Gap
    /\ None \notin Paths
    /\ \A x \in Note : x.kind = "note"
    /\ \A x \in Patch : x.kind = "patch" /\ x.finding \in Findings /\ x.target \in Targets
                        /\ x.gap \in Gaps \cup {None}
    /\ \A x \in New : x.kind = "new" /\ x.finding \in Findings /\ x.gap \in Gaps \cup {None}
                      /\ x.status \in {"draft", "accepted"}
    /\ \A x \in Gap : x.kind = "gap" /\ x.status \in {"open", "closed"}
  <1>1. /\ None \notin Note /\ None \notin Patch /\ None \notin New /\ None \notin Gap
        /\ None \notin Paths
    BY NoneAssumption DEF Content
  <1>2. \A x \in Note : x.kind = "note"
    BY DEF Note
  <1>3. \A x \in Patch : x.kind = "patch" /\ x.finding \in Findings /\ x.target \in Targets
                         /\ x.gap \in Gaps \cup {None}
    BY DEF Patch
  <1>4. \A x \in New : x.kind = "new" /\ x.finding \in Findings /\ x.gap \in Gaps \cup {None}
                       /\ x.status \in {"draft", "accepted"}
    BY DEF New
  <1>5. \A x \in Gap : x.kind = "gap" /\ x.status \in {"open", "closed"}
    BY DEF Gap
  <1> QED BY <1>1, <1>2, <1>3, <1>4, <1>5

LEMMA Names ==
    /\ \A p \in Targets : p \in Paths /\ p \notin Gaps /\ p \notin PatchPaths /\ p \notin NewPaths
    /\ \A p \in Gaps : p \in Paths /\ p \notin Targets /\ p \notin PatchPaths /\ p \notin NewPaths
    /\ \A p \in PatchPaths : p \in Paths /\ p \notin Targets /\ p \notin Gaps /\ p \notin NewPaths
                             /\ PatchOf[p].finding \in Findings /\ PatchOf[p].target \in Targets
    /\ \A p \in NewPaths : p \in Paths /\ p \notin Targets /\ p \notin Gaps /\ p \notin PatchPaths
    /\ None \notin Gaps
  BY PathAssumption, NoneAssumption DEF Paths

LEMMA ContentIn == \A p \in Paths : ContentAt(p) \subseteq Content \cup {None}
  BY DEF ContentAt, Content

LEMMA NoteSections ==
    ASSUME NEW x \in Note, NEW p \in PatchPaths, NEW s \in Sections(x, p)
    PROVE  s \in Section
  <1>1. x.sections[p] \in Seq(Section)
    BY DEF Note
  <1>2. PICK i \in DOMAIN x.sections[p] : s = x.sections[p][i]
    BY DEF Sections
  <1> QED BY <1>1, <1>2

LEMMA TextsTyped ==
    ASSUME NEW x \in Content \cup {None}
    PROVE  Texts(x) \subseteq Findings \cup Remarks
  <1>1. CASE x = None
    BY <1>1 DEF Texts
  <1>2. CASE x \in Note
    <2>1. x.text \subseteq Remarks
      BY <1>2 DEF Note
    <2>2. \A p \in PatchPaths : \A s \in Sections(x, p) : s.finding \in Findings
      BY <1>2, NoteSections DEF Section
    <2>3. x # None /\ x.kind = "note"
      BY <1>2, Kinds
    <2>4. Texts(x) = x.text \cup UNION {{s.finding : s \in Sections(x, p)} : p \in PatchPaths}
      BY <2>3 DEF Texts
    <2> QED BY <2>1, <2>2, <2>4
  <1>3. CASE x \in Patch \cup New
    <2>1. x # None /\ x.kind \in {"patch", "new"} /\ x.finding \in Findings
      BY <1>3, Kinds
    <2> QED BY <2>1 DEF Texts
  <1>4. CASE x \in Gap
    <2>1. x # None /\ x.kind = "gap"
      BY <1>4, Kinds
    <2> QED BY <2>1 DEF Texts
  <1> QED BY <1>1, <1>2, <1>3, <1>4 DEF Content

\* one name changes, to something that may be there
LEMMA Change ==
    ASSUME NEW f, Typed(f), NEW p \in Paths, NEW x \in ContentAt(p)
    PROVE  Typed([f EXCEPT ![p] = x])
  BY ContentIn DEF Typed

LEMMA TypedGives ==
    ASSUME NEW f, Typed(f)
    PROVE  /\ \A t \in Targets : f[t] \in Note
           /\ \A g \in Gaps : f[g] \in Gap \cup {None}
           /\ \A p \in PatchPaths : f[p] \in Patch \cup {None}
           /\ \A p \in NewPaths : f[p] \in New \cup {None}
           /\ \A p \in Paths : Texts(f[p]) \subseteq Findings \cup Remarks
  <1>1. \A p \in Paths : f[p] \in ContentAt(p) /\ f[p] \in Content \cup {None}
    BY DEF Typed
  <1>2. \A p \in Paths : Texts(f[p]) \subseteq Findings \cup Remarks
    BY <1>1, TextsTyped
  <1> QED BY <1>1, <1>2, Names DEF ContentAt

\* one call changes
LEMMA CallChange ==
    ASSUME CallsTyped, NEW c \in Callers, NEW k, CallTyped(k), caller' = [caller EXCEPT ![c] = k]
    PROVE  CallsTyped'
  <1>1. k \in Call
    BY DEF CallTyped
  <1>2. caller' \in [Callers -> Call]
    BY <1>1 DEF CallsTyped
  <1>3. \A d \in Callers : caller'[d] = IF d = c THEN k ELSE caller[d]
    BY DEF CallsTyped
  <1>4. \A d \in Callers : CallTyped(caller'[d])
    BY <1>3 DEF CallsTyped
  <1> QED BY <1>2, <1>4 DEF CallsTyped

LEMMA IdleTyped == CallTyped(Idle)
  <1>1. Idle \in Call
    BY DEF Idle, At, Call, Steps
  <1>2. Idle.pc = "idle"
    BY DEF Idle, At
  <1> QED BY <1>1, <1>2 DEF CallTyped

LEMMA DraftIn == \A p \in PatchPaths \cup NewPaths :
    DraftAt(p) \subseteq ContentAt(p) /\ DraftAt(p) \subseteq Content /\ p \in Paths
  BY Names DEF DraftAt, ContentAt, Content

LEMMA Moved ==
    ASSUME NEW k \in Call, NEW pc \in Steps
    PROVE  /\ [k EXCEPT !.pc = pc] \in Call
           /\ [k EXCEPT !.pc = pc].pc = pc /\ [k EXCEPT !.pc = pc].path = k.path
           /\ [k EXCEPT !.pc = pc].draft = k.draft /\ [k EXCEPT !.pc = pc].raw = k.raw
  BY DEF Call

\* a call moves on, and its next step asks no more of it than this one
LEMMA GotoTyped ==
    ASSUME CallsTyped, NEW c \in Callers, NEW pc \in Steps, Goto(c, pc),
           LET k == caller[c] IN
           /\ k.path \in PatchPaths \cup NewPaths
           /\ pc \in {"write", "target", "gap", "closing", "append", "rename", "unrow", "unfile", "done"}
                 => k.draft \in DraftAt(k.path)
           /\ pc = "rerank" => k.raw \in DraftAt(k.path)
           /\ pc \in {"target", "unrow", "unfile"} => k.path \in PatchPaths
           /\ pc \in {"gap", "closing", "append", "rename"} => RawOf(k)
           /\ pc = "closing" => k.draft.gap \in Gaps
    PROVE  CallsTyped'
  <1> DEFINE m == [caller[c] EXCEPT !.pc = pc]
  <1>1. caller[c] \in Call
    BY DEF CallsTyped
  <1>2. /\ m \in Call /\ m.pc = pc /\ m.path = caller[c].path
        /\ m.draft = caller[c].draft /\ m.raw = caller[c].raw
    BY <1>1, Moved
  <1>3. caller' = [caller EXCEPT ![c] = m]
    BY DEF Goto
  <1> HIDE DEF m
  <1>4. RawOf(m) <=> RawOf(caller[c])
    BY <1>2 DEF RawOf
  <1>5. CallTyped(m)
    BY <1>2, <1>4 DEF CallTyped
  <1> QED BY <1>3, <1>5, CallChange

LEMMA FinishTyped ==
    ASSUME CallsTyped, NEW c \in Callers, Finish(c)
    PROVE  CallsTyped'
  BY CallChange, IdleTyped DEF Finish

LEMMA StartTyped ==
    ASSUME HistoryTyped, NEW c \in Callers, Start(c), UNCHANGED history
    PROVE  HistoryTyped'
  BY BoundAssumption DEF HistoryTyped, Start, history

LEMMA CallGives ==
    ASSUME AllTyped, NEW c \in Callers
    PROVE  caller[c] \in Call /\ CallTyped(caller[c])
  BY DEF AllTyped, CallsTyped

----------------------------------------------------------------------------
(* Types: propose *)

LEMMA ProposeTyped ==
    ASSUME AllTyped, NEW c \in Callers, NEW f \in Findings, NEW g \in Gaps \cup {None},
           Propose(c, f, g)
    PROVE  AllTyped'
  <1>1. HistoryTyped'
    BY StartTyped DEF AllTyped, Propose
  <1>2. Typed(file)' /\ Typed(row)'
    BY DEF AllTyped, Propose
  <1>3. ASSUME NEW p \in PatchPaths \cup NewPaths, NEW x \in DraftAt(p),
               caller' = [caller EXCEPT ![c] = At("write", p, x)]
        PROVE  CallsTyped'
    <2> DEFINE k == At("write", p, x)
    <2>1. caller' = [caller EXCEPT ![c] = k]
      BY <1>3
    <2>2. x \in Content /\ p \in Paths
      BY DraftIn
    <2>3. k \in Call /\ k.pc = "write" /\ k.path = p /\ k.draft = x
      BY <2>2 DEF At, Call, Steps
    <2> HIDE DEF k
    <2>4. CallTyped(k)
      BY <2>3 DEF CallTyped
    <2> QED BY <2>1, <2>4, CallChange DEF AllTyped
  <1>4. CASE \E p \in PatchPaths :
             /\ PatchOf[p].finding = f /\ row[PatchOf[p].target] # None /\ Free(p)
             /\ caller' = [caller EXCEPT ![c] = At("write", p,
                   [kind |-> "patch", finding |-> f, gap |-> g, target |-> PatchOf[p].target])]
    <2>1. PICK p \in PatchPaths :
             caller' = [caller EXCEPT ![c] = At("write", p,
                   [kind |-> "patch", finding |-> f, gap |-> g, target |-> PatchOf[p].target])]
      BY <1>4
    <2>2. [kind |-> "patch", finding |-> f, gap |-> g, target |-> PatchOf[p].target] \in DraftAt(p)
      BY Names DEF DraftAt, Patch
    <2>3. CallsTyped'
      BY <2>1, <2>2, <1>3
    <2> QED BY <1>1, <1>2, <2>3 DEF AllTyped
  <1>5. CASE \E p \in NewPaths :
             /\ QuestionOf[p] = QuestionOf[f] /\ Free(p)
             /\ caller' = [caller EXCEPT ![c] = At("write", p,
                   [kind |-> "new", finding |-> f, gap |-> g, status |-> "draft"])]
    <2>1. PICK p \in NewPaths :
             caller' = [caller EXCEPT ![c] = At("write", p,
                   [kind |-> "new", finding |-> f, gap |-> g, status |-> "draft"])]
      BY <1>5
    <2>2. [kind |-> "new", finding |-> f, gap |-> g, status |-> "draft"] \in DraftAt(p)
      BY Names DEF DraftAt, New
    <2>3. CallsTyped'
      BY <2>1, <2>2, <1>3
    <2> QED BY <1>1, <1>2, <2>3 DEF AllTyped
  <1> QED BY <1>4, <1>5 DEF Propose

LEMMA WriteDraftTyped ==
    ASSUME AllTyped, NEW c \in Callers, WriteDraft(c)
    PROVE  AllTyped'
  <1> DEFINE p == caller[c].path
             x == caller[c].draft
  <1>1. p \in PatchPaths \cup NewPaths /\ x \in DraftAt(p) /\ caller[c].pc = "write"
    BY CallGives DEF CallTyped, WriteDraft
  <1>2. p \in Paths /\ x \in ContentAt(p) /\ x \in Content
    BY <1>1, DraftIn
  <1>3. Texts(x) \subseteq Findings \cup Remarks /\ Texts(file[p]) \subseteq Findings \cup Remarks
    BY <1>2, TextsTyped, TypedGives DEF AllTyped
  <1>4. Typed(file)'
    BY <1>2, Change DEF AllTyped, WriteDraft
  <1>5. CallsTyped'
    BY <1>1, GotoTyped DEF WriteDraft, AllTyped, Steps
  <1>6. HistoryTyped'
    BY <1>3 DEF WriteDraft, AllTyped, HistoryTyped, counters
  <1> QED BY <1>4, <1>5, <1>6 DEF AllTyped, WriteDraft

\* the re-index of one name
LEMMA RowTyped ==
    ASSUME Typed(file), Typed(row), NEW p \in Paths,
           row' \in {row, [row EXCEPT ![p] = file[p]]}
    PROVE  Typed(row)'
  <1>1. file[p] \in ContentAt(p)
    BY DEF Typed
  <1>2. Typed([row EXCEPT ![p] = file[p]])
    BY <1>1, Change
  <1> QED BY <1>2

LEMMA IndexDraftTyped ==
    ASSUME AllTyped, NEW c \in Callers, IndexDraft(c)
    PROVE  AllTyped'
  <1>1. caller[c].path \in PatchPaths \cup NewPaths /\ caller[c].path \in Paths
    BY CallGives, DraftIn DEF CallTyped, IndexDraft
  <1>2. Typed(row)'
    BY <1>1, RowTyped DEF IndexDraft, Reindexed, Indexed, AllTyped
  <1>3. CallsTyped'
    BY <1>1, GotoTyped DEF IndexDraft, AllTyped, Steps
  <1> QED BY <1>2, <1>3 DEF AllTyped, IndexDraft, HistoryTyped, history, counters

LEMMA RankReadTyped ==
    ASSUME AllTyped, NEW c \in Callers, RankRead(c)
    PROVE  AllTyped'
  <1> DEFINE p == caller[c].path
             k == [caller[c] EXCEPT !.pc = "rerank", !.raw = file[p], !.seen = file[p]]
  <1>1. p \in PatchPaths \cup NewPaths /\ p \in Paths /\ caller[c] \in Call
    BY CallGives, DraftIn DEF CallTyped, RankRead
  <1>2. file[p] \in DraftAt(p) /\ file[p] \in Content
    BY <1>1, TypedGives, Names DEF RankRead, AllTyped, DraftAt, Content
  <1>3. k \in Call /\ k.pc = "rerank" /\ k.path = p /\ k.raw = file[p]
    BY <1>1, <1>2 DEF Call, Steps
  <1>4. caller' = [caller EXCEPT ![c] = k]
    BY DEF RankRead
  <1> HIDE DEF k
  <1>5. CallTyped(k)
    BY <1>1, <1>2, <1>3 DEF CallTyped
  <1>6. CallsTyped'
    BY <1>4, <1>5, CallChange DEF AllTyped
  <1> QED BY <1>6 DEF AllTyped, RankRead, HistoryTyped, history, counters

LEMMA RankRenameTyped ==
    ASSUME AllTyped, NEW c \in Callers, RankRename(c)
    PROVE  AllTyped'
  <1> DEFINE p == caller[c].path
  <1>1. p \in PatchPaths \cup NewPaths /\ caller[c].raw \in DraftAt(p)
    BY CallGives DEF CallTyped, RankRename
  <1>2. p \in Paths /\ caller[c].raw \in ContentAt(p)
    BY <1>1, DraftIn
  <1>3. Typed([file EXCEPT ![p] = caller[c].raw]) /\ Typed([row EXCEPT ![p] = caller[c].raw])
    BY <1>2, Change DEF AllTyped
  <1>7. Typed(file)' /\ Typed(row)'
    BY <1>3 DEF RankRename, AllTyped
  <1>4. CallsTyped'
    BY FinishTyped DEF RankRename, AllTyped
  <1>5. Texts(file[p]) \subseteq Findings \cup Remarks
    BY <1>2, TypedGives DEF AllTyped
  <1>6. HistoryTyped'
    BY <1>5 DEF RankRename, Blind, AllTyped, HistoryTyped, counters
  <1> QED BY <1>7, <1>4, <1>6 DEF AllTyped

----------------------------------------------------------------------------
(* Types: accept *)

LEMMA AcceptTyped ==
    ASSUME AllTyped, NEW c \in Callers, NEW p \in PatchPaths \cup NewPaths, Accept(c, p)
    PROVE  AllTyped'
  <1>1. PICK pc \in {"read", "scan"} : caller' = [caller EXCEPT ![c] = At(pc, p, None)]
    BY DEF Accept
  <1> DEFINE k == At(pc, p, None)
  <1>2. caller' = [caller EXCEPT ![c] = k]
    BY <1>1
  <1>3. k \in Call /\ k.pc \in {"read", "scan"} /\ k.path = p
    BY DraftIn DEF At, Call, Steps
  <1> HIDE DEF k
  <1>4. CallTyped(k)
    BY <1>3 DEF CallTyped
  <1>5. CallsTyped'
    BY <1>2, <1>4, CallChange DEF AllTyped
  <1>6. HistoryTyped'
    BY StartTyped DEF AllTyped, Accept
  <1> QED BY <1>5, <1>6 DEF AllTyped, Accept

LEMMA ScanTyped ==
    ASSUME AllTyped, NEW c \in Callers, ScanForProposal(c)
    PROVE  AllTyped'
  <1>1. caller[c].path \in PatchPaths \cup NewPaths /\ caller[c].path \in Paths
    BY CallGives, DraftIn DEF CallTyped, ScanForProposal
  <1>2. Typed(row)'
    BY <1>1, RowTyped DEF ScanForProposal, Indexed, AllTyped
  <1>3. CallsTyped'
    BY <1>1, GotoTyped DEF ScanForProposal, AllTyped, Steps
  <1> QED BY <1>2, <1>3 DEF AllTyped, ScanForProposal, HistoryTyped, history, counters

\* a row of a draft is removed
LEMMA RowGone ==
    ASSUME Typed(row), NEW p \in PatchPaths \cup NewPaths, row' = [row EXCEPT ![p] = None]
    PROVE  Typed(row)'
  <1>1. p \in Paths /\ None \in ContentAt(p)
    BY Names DEF ContentAt
  <1> QED BY <1>1, Change

LEMMA MissingTyped ==
    ASSUME AllTyped, NEW c \in Callers, FinishMissingProposal(c)
    PROVE  AllTyped'
  <1>1. caller[c].path \in PatchPaths \cup NewPaths
    BY CallGives DEF CallTyped, FinishMissingProposal
  <1>2. Typed(row)'
    BY <1>1, RowGone DEF FinishMissingProposal, AllTyped
  <1>3. CallsTyped'
    BY FinishTyped DEF FinishMissingProposal, AllTyped
  <1> QED BY <1>2, <1>3 DEF AllTyped, FinishMissingProposal, HistoryTyped, history, counters

LEMMA ReadDraftTyped ==
    ASSUME AllTyped, NEW c \in Callers, ReadDraft(c)
    PROVE  AllTyped'
  <1> DEFINE p == caller[c].path
  <1>1. p \in PatchPaths \cup NewPaths /\ p \in Paths /\ caller[c] \in Call
    BY CallGives, DraftIn DEF CallTyped, ReadDraft
  <1>2. file[p] \in DraftAt(p) /\ file[p] \in Content /\ (isPatch(file[p]) <=> p \in PatchPaths)
    BY <1>1, TypedGives, Names, Kinds DEF ReadDraft, AllTyped, DraftAt, Content, isDraft, isPatch
  <1>3. CASE p \in PatchPaths
    <2> DEFINE k == [caller[c] EXCEPT !.draft = file[p], !.raw = None, !.pc = "target"]
    <2>1. caller' = [caller EXCEPT ![c] = k]
      BY <1>2, <1>3 DEF ReadDraft
    <2>2. k \in Call /\ k.pc = "target" /\ k.path = p /\ k.draft = file[p]
      BY <1>1, <1>2 DEF Call, Steps
    <2> HIDE DEF k
    <2>3. CallTyped(k)
      BY <1>1, <1>2, <1>3, <2>2 DEF CallTyped
    <2> QED BY <2>1, <2>3, CallChange DEF AllTyped, ReadDraft, HistoryTyped, history, counters
  <1>4. CASE p \notin PatchPaths
    <2> DEFINE k == [caller[c] EXCEPT !.draft = file[p], !.raw = file[p], !.pc = "gap"]
    <2>1. caller' = [caller EXCEPT ![c] = k]
      BY <1>2, <1>4 DEF ReadDraft
    <2>2. k \in Call /\ k.pc = "gap" /\ k.path = p /\ k.draft = file[p] /\ k.raw = file[p]
      BY <1>1, <1>2 DEF Call, Steps
    <2>3. file[p] \in New
      BY <1>2, <1>4 DEF DraftAt
    <2> HIDE DEF k
    <2>4. CallTyped(k)
      BY <1>1, <1>2, <1>4, <2>2, <2>3 DEF CallTyped, RawOf
    <2> QED BY <2>1, <2>4, CallChange DEF AllTyped, ReadDraft, HistoryTyped, history, counters
  <1> QED BY <1>3, <1>4

\* a draft of a patch names a note
LEMMA PatchDraft ==
    ASSUME NEW p \in PatchPaths \cup NewPaths, NEW x \in DraftAt(p)
    PROVE  /\ x.kind = "patch" <=> p \in PatchPaths
           /\ x.kind = "new" <=> p \in NewPaths
           /\ p \in PatchPaths => x \in Patch /\ x.target \in Targets
           /\ p \in NewPaths => x \in New
           /\ x.gap \in Gaps \cup {None} /\ x.finding \in Findings
  BY Names, Kinds DEF DraftAt

LEMMA ReadTargetTyped ==
    ASSUME AllTyped, NEW c \in Callers, ReadTarget(c)
    PROVE  AllTyped'
  <1> DEFINE t == caller[c].draft.target
             k == [caller[c] EXCEPT !.raw = file[t], !.pc = "gap"]
  <1>1. /\ caller[c].path \in PatchPaths /\ caller[c].draft \in DraftAt(caller[c].path)
        /\ caller[c] \in Call
    BY CallGives DEF CallTyped, ReadTarget
  <1>2. file[t] \in Note /\ file[t] \in Content
    BY <1>1, PatchDraft, TypedGives DEF AllTyped, Content
  <1>3. k \in Call /\ k.pc = "gap" /\ k.path = caller[c].path /\ k.draft = caller[c].draft
        /\ k.raw = file[t]
    BY <1>1, <1>2 DEF Call, Steps
  <1>4. caller' = [caller EXCEPT ![c] = k]
    BY DEF ReadTarget
  <1> HIDE DEF k
  <1>5. CallTyped(k)
    BY <1>1, <1>2, <1>3 DEF CallTyped, RawOf
  <1>6. CallsTyped'
    BY <1>4, <1>5, CallChange DEF AllTyped
  <1> QED BY <1>6 DEF AllTyped, ReadTarget, HistoryTyped, history, counters

\* what a call has in its hands while it passes its gap
LEMMA Accepting ==
    ASSUME AllTyped, NEW c \in Callers, caller[c].pc \in {"gap", "closing", "append", "rename"}
    PROVE  LET k == caller[c] IN
           /\ k \in Call /\ k.path \in PatchPaths \cup NewPaths /\ k.path \in Paths
           /\ k.draft \in DraftAt(k.path) /\ RawOf(k)
           /\ k.draft.gap \in Gaps \cup {None}
           /\ Rewritten(c) \in Paths
           /\ k.draft.kind = "patch" => k.path \in PatchPaths /\ k.raw \in Note
                                        /\ k.draft.target \in Targets
           /\ k.draft.kind # "patch" => k.path \in NewPaths /\ k.raw \in New
  <1> DEFINE k == caller[c]
  <1>1. /\ k \in Call /\ k.path \in PatchPaths \cup NewPaths
        /\ k.draft \in DraftAt(k.path) /\ RawOf(k)
    BY CallGives DEF CallTyped
  <1>2. k.path \in Paths
    BY <1>1, DraftIn
  <1>3. /\ k.draft.kind = "patch" => k.path \in PatchPaths /\ k.raw \in Note
                                     /\ k.draft.target \in Targets
        /\ k.draft.kind # "patch" => k.path \in NewPaths /\ k.raw \in New
        /\ k.draft.gap \in Gaps \cup {None}
    BY <1>1, PatchDraft, Names DEF RawOf
  <1>4. Rewritten(c) \in Paths
    BY <1>2, <1>3, Names DEF Rewritten
  <1> QED BY <1>1, <1>2, <1>3, <1>4

LEMMA CloseLinkedGapTyped ==
    ASSUME AllTyped, NEW c \in Callers, CloseLinkedGap(c)
    PROVE  AllTyped'
  <1> DEFINE k == caller[c]
             g == k.draft.gap
  <1>1. /\ k.path \in PatchPaths \cup NewPaths /\ k.draft \in DraftAt(k.path) /\ RawOf(k)
        /\ g \in Gaps \cup {None} /\ k.pc = "gap"
    BY Accepting DEF CloseLinkedGap
  <1>2. /\ Goto(c, "append") => CallsTyped'
        /\ Goto(c, "closing") /\ g # None => CallsTyped'
    BY <1>1, GotoTyped DEF AllTyped, Steps
  <1>4. CallsTyped'
    BY <1>2 DEF CloseLinkedGap
  <1>5. Typed(row)'
    <2>1. CASE UNCHANGED row
      BY <2>1 DEF AllTyped
    <2>2. CASE g # None /\ row' \in {row, [row EXCEPT ![g] = file[g]]}
      BY <1>1, <2>2, RowTyped, Names DEF AllTyped
    <2> QED BY <2>1, <2>2 DEF CloseLinkedGap
  <1>6. unindexedGap' \in {unindexedGap, unindexedGap \cup {k.path}}
    BY DEF CloseLinkedGap
  <1>7. UNCHANGED <<file, kept, raced, commands, events>>
    BY DEF CloseLinkedGap, counters
  <1>8. HistoryTyped'
    BY <1>1, <1>6, <1>7 DEF AllTyped, HistoryTyped
  <1> QED BY <1>4, <1>5, <1>7, <1>8 DEF AllTyped

LEMMA GapRenameTyped ==
    ASSUME AllTyped, NEW c \in Callers, GapRename(c)
    PROVE  AllTyped'
  <1> DEFINE k == caller[c]
             g == k.draft.gap
             closed == [kind |-> "gap", status |-> "closed", by |-> ClosedBy(c)]
  <1>1. /\ k.path \in PatchPaths \cup NewPaths /\ k.draft \in DraftAt(k.path) /\ RawOf(k)
        /\ k.pc = "closing"
    BY Accepting DEF GapRename
  <1>2. g \in Gaps
    BY <1>1, CallGives DEF CallTyped
  <1>3. ClosedBy(c) \in Targets \cup NewPaths
    BY <1>1, PatchDraft, Names DEF ClosedBy
  <1>4. closed \in Gap
    BY <1>3 DEF Gap
  <1>5. closed \in ContentAt(g) /\ g \in Paths
    BY <1>2, <1>4, Names DEF ContentAt
  <1>6. /\ file' = [file EXCEPT ![g] = closed]
        /\ row' \in {row, [row EXCEPT ![g] = closed]}
        /\ UNCHANGED <<history, counters>>
    BY DEF GapRename
  <1> HIDE DEF closed
  <1>7. Typed([file EXCEPT ![g] = closed]) /\ Typed([row EXCEPT ![g] = closed])
    BY <1>5, Change DEF AllTyped
  <1>8. Typed(file)' /\ Typed(row)'
    BY <1>6, <1>7 DEF AllTyped
  <1>9. CallsTyped'
    BY <1>1, GotoTyped DEF GapRename, AllTyped, Steps
  <1> QED BY <1>6, <1>8, <1>9 DEF AllTyped, HistoryTyped, history, counters

LEMMA SkipMarkedTyped ==
    ASSUME AllTyped, NEW c \in Callers, SkipMarked(c)
    PROVE  AllTyped'
  <1>1. caller[c].path \in PatchPaths /\ caller[c].draft \in DraftAt(caller[c].path)
    BY Accepting DEF SkipMarked
  <1>2. CallsTyped'
    BY <1>1, GotoTyped DEF SkipMarked, AllTyped, Steps
  <1> QED BY <1>2 DEF AllTyped, SkipMarked, HistoryTyped, history, counters

LEMMA VerifyTyped ==
    ASSUME AllTyped, NEW c \in Callers, AtomicWriteVerify(c)
    PROVE  AllTyped'
  <1> DEFINE k == [caller[c] EXCEPT !.pc = "rename", !.seen = file[Rewritten(c)]]
  <1>1. /\ caller[c] \in Call /\ caller[c].path \in PatchPaths \cup NewPaths
        /\ caller[c].draft \in DraftAt(caller[c].path) /\ RawOf(caller[c])
        /\ Rewritten(c) \in Paths
    BY Accepting DEF AtomicWriteVerify
  <1>2. file[Rewritten(c)] \in Content \cup {None}
    BY <1>1 DEF AllTyped, Typed
  <1>3. /\ k \in Call /\ k.pc = "rename" /\ k.path = caller[c].path
        /\ k.draft = caller[c].draft /\ k.raw = caller[c].raw
    BY <1>1, <1>2 DEF Call, Steps
  <1>4. caller' = [caller EXCEPT ![c] = k]
    BY DEF AtomicWriteVerify
  <1> HIDE DEF k
  <1>5. CallTyped(k)
    BY <1>1, <1>3 DEF CallTyped, RawOf
  <1>6. CallsTyped'
    BY <1>4, <1>5, CallChange DEF AllTyped
  <1> QED BY <1>6 DEF AllTyped, AtomicWriteVerify, HistoryTyped, history, counters

\* a note with one more section
LEMMA AppendTyped ==
    ASSUME NEW x \in Note, NEW p \in PatchPaths, NEW d \in Patch
    PROVE  /\ appendSection(x, p, d) \in Note
           /\ appendSection(x, p, d).sections =
                 [x.sections EXCEPT ![p] = Append(@, [finding |-> d.finding, gap |-> d.gap])]
  <1> DEFINE s == [finding |-> d.finding, gap |-> d.gap]
  <1>1. s \in Section
    BY Kinds DEF Section
  <1> HIDE DEF s
  <1>2. x.sections \in [PatchPaths -> Seq(Section)]
    BY DEF Note
  <1>3. Append(x.sections[p], s) \in Seq(Section)
    BY <1>1, <1>2
  <1> DEFINE ss == [x.sections EXCEPT ![p] = Append(@, s)]
  <1>4. ss \in [PatchPaths -> Seq(Section)]
    BY <1>2, <1>3
  <1>5. appendSection(x, p, d) = [x EXCEPT !.sections = ss]
    BY DEF appendSection, s
  <1> HIDE DEF ss
  <1>6. [x EXCEPT !.sections = ss] \in Note /\ [x EXCEPT !.sections = ss].sections = ss
    BY <1>4 DEF Note
  <1>7. ss = [x.sections EXCEPT ![p] = Append(@, [finding |-> d.finding, gap |-> d.gap])]
    BY DEF ss, s
  <1> QED BY <1>5, <1>6, <1>7

LEMMA WriteRenameTyped ==
    ASSUME AllTyped, NEW c \in Callers, AtomicWriteRename(c)
    PROVE  AllTyped'
  <1> DEFINE k == caller[c]
  <1>1. /\ k.path \in PatchPaths \cup NewPaths /\ k.draft \in DraftAt(k.path) /\ RawOf(k)
        /\ Rewritten(c) \in Paths
        /\ k.draft.kind = "patch" => k.path \in PatchPaths /\ k.raw \in Note
                                     /\ k.draft.target \in Targets
        /\ k.draft.kind # "patch" => k.path \in NewPaths /\ k.raw \in New
    BY Accepting DEF AtomicWriteRename
  <1>2. Texts(file[Rewritten(c)]) \subseteq Findings \cup Remarks
    BY <1>1, TypedGives DEF AllTyped
  <1>3. HistoryTyped'
    BY <1>2 DEF AtomicWriteRename, Blind, AllTyped, HistoryTyped, counters
  <1>4. CASE k.draft.kind = "patch"
    <2> DEFINE x == appendSection(k.raw, k.path, k.draft)
    <2>1. file' = [file EXCEPT ![k.draft.target] = x] /\ Goto(c, "unrow")
      BY <1>4 DEF AtomicWriteRename
    <2>2. x \in ContentAt(k.draft.target) /\ k.draft.target \in Paths
      BY <1>1, <1>4, AppendTyped, PatchDraft, Names DEF ContentAt
    <2> HIDE DEF x
    <2>3. Typed(file)'
      BY <2>1, <2>2, Change DEF AllTyped
    <2>4. CallsTyped'
      BY <1>1, <1>4, <2>1, GotoTyped DEF AllTyped, Steps
    <2> QED BY <1>3, <2>3, <2>4 DEF AtomicWriteRename, AllTyped
  <1>5. CASE k.draft.kind # "patch"
    <2> DEFINE x == [k.raw EXCEPT !.status = "accepted"]
    <2>1. file' = [file EXCEPT ![k.path] = x] /\ Goto(c, "done")
      BY <1>5 DEF AtomicWriteRename
    <2>2. x \in New
      BY <1>1, <1>5 DEF New
    <2>3. x \in ContentAt(k.path) /\ k.path \in Paths
      BY <1>1, <1>5, <2>2, Names DEF ContentAt
    <2> HIDE DEF x
    <2>4. Typed(file)'
      BY <2>1, <2>3, Change DEF AllTyped
    <2>5. CallsTyped'
      BY <1>1, <2>1, GotoTyped DEF AllTyped, Steps
    <2> QED BY <1>3, <2>4, <2>5 DEF AtomicWriteRename, AllTyped
  <1> QED BY <1>4, <1>5

LEMMA RemoveRowTyped ==
    ASSUME AllTyped, NEW c \in Callers, RemoveProposalRow(c)
    PROVE  AllTyped'
  <1>1. caller[c].path \in PatchPaths /\ caller[c].draft \in DraftAt(caller[c].path)
    BY CallGives DEF CallTyped, RemoveProposalRow
  <1>2. Typed(row)'
    BY <1>1, RowGone DEF RemoveProposalRow, AllTyped
  <1>3. CallsTyped'
    BY <1>1, GotoTyped DEF RemoveProposalRow, AllTyped, Steps
  <1> QED BY <1>2, <1>3 DEF AllTyped, RemoveProposalRow, HistoryTyped, history, counters

\* the file of a draft is removed
LEMMA FileGone ==
    ASSUME Typed(file), NEW p \in PatchPaths \cup NewPaths, file' = [file EXCEPT ![p] = None]
    PROVE  Typed(file)' /\ Texts(file[p]) \subseteq Findings \cup Remarks
  <1>1. p \in Paths /\ None \in ContentAt(p)
    BY Names DEF ContentAt
  <1> QED BY <1>1, Change, TypedGives

LEMMA RemoveFileTyped ==
    ASSUME AllTyped, NEW c \in Callers, RemoveProposalFile(c)
    PROVE  AllTyped'
  <1>1. caller[c].path \in PatchPaths /\ caller[c].draft \in DraftAt(caller[c].path)
    BY CallGives DEF CallTyped, RemoveProposalFile
  <1>2. Typed(file)' /\ Texts(file[caller[c].path]) \subseteq Findings \cup Remarks
    BY <1>1, FileGone DEF RemoveProposalFile, AllTyped
  <1>3. CallsTyped'
    BY <1>1, GotoTyped DEF RemoveProposalFile, AllTyped, Steps
  <1>4. HistoryTyped'
    BY <1>2 DEF RemoveProposalFile, Blind, AllTyped, HistoryTyped, counters
  <1> QED BY <1>2, <1>3, <1>4 DEF AllTyped, RemoveProposalFile

LEMMA IndexAcceptedTyped ==
    ASSUME AllTyped, NEW c \in Callers, IndexAccepted(c)
    PROVE  AllTyped'
  <1>1. caller[c].path \in PatchPaths \cup NewPaths /\ caller[c].draft \in DraftAt(caller[c].path)
    BY CallGives DEF CallTyped, IndexAccepted
  <1>2. Rewritten(c) \in Paths
    BY <1>1, PatchDraft, DraftIn, Names DEF Rewritten
  <1>3. Typed(row)'
    BY <1>2, RowTyped DEF IndexAccepted, Reindexed, Indexed, AllTyped
  <1>4. CallsTyped'
    BY FinishTyped DEF IndexAccepted, AllTyped
  <1> QED BY <1>3, <1>4 DEF AllTyped, IndexAccepted, HistoryTyped, history, counters

LEMMA AbandonTyped ==
    ASSUME AllTyped, NEW c \in Callers, Abandon(c)
    PROVE  AllTyped'
  BY FinishTyped DEF Abandon, AllTyped, HistoryTyped, history, counters

----------------------------------------------------------------------------
(* Types: people and other commands *)

LEMMA EventTyped ==
    ASSUME HistoryTyped, Event
    PROVE  commands' \in 0..MaxCommands /\ events' \in 0..MaxEvents
  BY BoundAssumption DEF HistoryTyped, Event

LEMMA UserRemovesTyped ==
    ASSUME AllTyped, NEW p \in PatchPaths \cup NewPaths, UserRemoves(p)
    PROVE  AllTyped'
  <1>1. Typed(file)'
    BY FileGone DEF UserRemoves, AllTyped
  <1>2. HistoryTyped'
    BY EventTyped DEF UserRemoves, AllTyped, HistoryTyped
  <1> QED BY <1>1, <1>2 DEF AllTyped, UserRemoves, Event, CallsTyped

LEMMA UserRemarksTyped ==
    ASSUME AllTyped, NEW t \in Targets, NEW r \in Remarks, UserRemarks(t, r)
    PROVE  AllTyped'
  <1> DEFINE x == [file[t] EXCEPT !.text = @ \cup {r}]
  <1>1. file[t] \in Note /\ t \in Paths
    BY TypedGives, Names DEF AllTyped
  <1>2. x \in Note
    BY <1>1 DEF Note
  <1>3. file' = [file EXCEPT ![t] = x]
    BY DEF UserRemarks
  <1> HIDE DEF x
  <1>4. Typed(file)'
    BY <1>1, <1>2, <1>3, Change DEF AllTyped, ContentAt
  <1>5. HistoryTyped'
    BY EventTyped DEF UserRemarks, AllTyped, HistoryTyped
  <1> QED BY <1>4, <1>5 DEF AllTyped, UserRemarks, Event, CallsTyped

LEMMA UserEditsTyped ==
    ASSUME AllTyped, NEW p \in PatchPaths \cup NewPaths, NEW f \in Findings, UserEditsDraft(p, f)
    PROVE  AllTyped'
  <1> DEFINE x == [file[p] EXCEPT !.finding = f]
  <1>1. p \in Paths /\ file[p] \in DraftAt(p)
    BY DraftIn, TypedGives, Names DEF AllTyped, DraftAt, UserEditsDraft, isDraft
  <1>2. x \in DraftAt(p)
    <2>1. \A y \in Patch : [y EXCEPT !.finding = f] \in Patch
      BY DEF Patch
    <2>2. \A y \in New : [y EXCEPT !.finding = f] \in New
      BY DEF New
    <2> QED BY <1>1, <2>1, <2>2 DEF DraftAt
  <1>3. file' = [file EXCEPT ![p] = x]
    BY DEF UserEditsDraft
  <1> HIDE DEF x
  <1>4. Typed(file)'
    BY <1>1, <1>2, <1>3, Change, DraftIn DEF AllTyped
  <1>5. /\ kept' = (kept \ Texts(file[p])) \cup {f} /\ raced' \in {raced, raced \cup {f}}
        /\ UNCHANGED unindexedGap
    BY DEF UserEditsDraft
  <1>6. HistoryTyped'
    BY <1>5, EventTyped DEF UserEditsDraft, AllTyped, HistoryTyped
  <1> QED BY <1>4, <1>6 DEF AllTyped, UserEditsDraft, Event, CallsTyped

LEMMA IndexPassTyped ==
    ASSUME AllTyped, NEW p \in Paths, IndexPass(p)
    PROVE  AllTyped'
  <1>1. Typed(row)'
    BY RowTyped DEF IndexPass, Indexed, AllTyped
  <1>2. HistoryTyped'
    BY EventTyped DEF IndexPass, AllTyped, HistoryTyped, history
  <1> QED BY <1>1, <1>2 DEF AllTyped, IndexPass, Event, CallsTyped

----------------------------------------------------------------------------
LEMMA InitTyped == Init => AllTyped
  <1> SUFFICES ASSUME Init PROVE AllTyped
    OBVIOUS
  <1> DEFINE note == [kind |-> "note", text |-> {}, sections |-> [d \in PatchPaths |-> <<>>]]
             gap == [kind |-> "gap", status |-> "open", by |-> None]
  <1>1. note \in Note /\ gap \in Gap
    BY DEF Note, Gap
  <1>2. file = [p \in Paths |-> IF p \in Targets THEN note ELSE IF p \in Gaps THEN gap ELSE None]
    BY DEF Init
  <1>3. PICK S \in SUBSET Gaps : row = [p \in Paths |-> IF p \in S THEN None ELSE file[p]]
    BY DEF Init
  <1>8. caller = [c \in Callers |-> Idle] /\ HistoryTyped
    BY BoundAssumption DEF Init, HistoryTyped
  <1> HIDE DEF note, gap
  <1>4. \A p \in Paths : file[p] \in ContentAt(p)
    BY <1>1, <1>2, Names DEF ContentAt
  <1>5. Typed(file)
    BY <1>2, <1>4, ContentIn DEF Typed
  <1>6. \A p \in Paths : row[p] \in ContentAt(p)
    BY <1>3, <1>4, Names DEF ContentAt
  <1>7. Typed(row)
    BY <1>3, <1>6, ContentIn DEF Typed
  <1>9. CallsTyped
    <2>1. Idle \in Call
      BY IdleTyped DEF CallTyped
    <2> QED BY <1>8, <2>1, IdleTyped DEF CallsTyped
  <1> QED BY <1>5, <1>7, <1>8, <1>9 DEF AllTyped

LEMMA NextTyped == AllTyped /\ [Next]_vars => AllTyped'
  <1> SUFFICES ASSUME AllTyped, [Next]_vars PROVE AllTyped'
    OBVIOUS
  <1>1. ASSUME NEW c \in Callers,
               \/ \E f \in Findings, g \in Gaps \cup {None} : Propose(c, f, g)
               \/ WriteDraft(c) \/ IndexDraft(c) \/ RankRead(c) \/ RankRename(c)
        PROVE  AllTyped'
    BY <1>1, ProposeTyped, WriteDraftTyped, IndexDraftTyped, RankReadTyped, RankRenameTyped
  <1>2. ASSUME NEW c \in Callers,
               \/ \E p \in PatchPaths \cup NewPaths : Accept(c, p)
               \/ ScanForProposal(c) \/ FinishMissingProposal(c) \/ ReadDraft(c) \/ ReadTarget(c)
        PROVE  AllTyped'
    BY <1>2, AcceptTyped, ScanTyped, MissingTyped, ReadDraftTyped, ReadTargetTyped
  <1>3. ASSUME NEW c \in Callers,
               \/ CloseLinkedGap(c) \/ GapRename(c)
               \/ SkipMarked(c) \/ AtomicWriteVerify(c) \/ AtomicWriteRename(c)
        PROVE  AllTyped'
    BY <1>3, CloseLinkedGapTyped, GapRenameTyped, SkipMarkedTyped, VerifyTyped, WriteRenameTyped
  <1>4. ASSUME NEW c \in Callers,
               \/ RemoveProposalRow(c) \/ RemoveProposalFile(c) \/ IndexAccepted(c) \/ Abandon(c)
        PROVE  AllTyped'
    BY <1>4, RemoveRowTyped, RemoveFileTyped, IndexAcceptedTyped, AbandonTyped
  <1>5. CASE \/ \E p \in PatchPaths \cup NewPaths : UserRemoves(p)
             \/ \E t \in Targets, r \in Remarks : UserRemarks(t, r)
             \/ \E p \in PatchPaths \cup NewPaths, f \in Findings : UserEditsDraft(p, f)
             \/ \E p \in Paths : IndexPass(p)
    BY <1>5, UserRemovesTyped, UserRemarksTyped, UserEditsTyped, IndexPassTyped
  <1>6. CASE UNCHANGED vars
    BY <1>6 DEF vars, history, counters, AllTyped, CallsTyped, HistoryTyped
  <1> QED BY <1>1, <1>2, <1>3, <1>4, <1>5, <1>6 DEF Next

LEMMA TypedIsTypeOK == AllTyped => TypeOK
  <1> SUFFICES ASSUME AllTyped PROVE TypeOK
    OBVIOUS
  <1>1. \A p \in Paths : \A x \in {file[p], row[p]} :
          /\ p \in Targets => x \in Note
          /\ p \in Gaps => x \in Gap \cup {None}
          /\ p \in PatchPaths => x \in Patch \cup {None}
          /\ p \in NewPaths => x \in New \cup {None}
    BY TypedGives DEF AllTyped
  <1> QED BY <1>1 DEF TypeOK, AllTyped, Typed, CallsTyped, HistoryTyped

\* Every name holds what belongs under it, in the vault and in the index, and
\* every call of `note propose` and `note accept` is in a state it can be in.
THEOREM TypeCorrect == Spec => []TypeOK
  <1>1. Spec => []AllTyped
    BY InitTyped, NextTyped, PTL DEF Spec
  <1> QED BY <1>1, TypedIsTypeOK, PTL

----------------------------------------------------------------------------
(* Sections and gaps *)

Holding == {"gap", "closing", "append", "rename"}

OnceNote(x) == \A p \in PatchPaths : Len(x.sections[p]) <= 1

\* the gap is closed, or the draft was accepted without it
GapDone(g, p) == g = None \/ file[g].status = "closed" \/ p \in unindexedGap

NoteClosed(x) == \A p \in PatchPaths : \A s \in Sections(x, p) : GapDone(s.gap, p)

NewClosed(x, p) == x.status = "accepted" => GapDone(x.gap, p)

FileGood ==
    /\ \A t \in Targets : OnceNote(file[t]) /\ NoteClosed(file[t])
    /\ \A p \in NewPaths : file[p] # None => NewClosed(file[p], p)
    /\ \A g \in Gaps : file[g] # None

CallGood(k) ==
    /\ k.pc \in Holding /\ k.path \in PatchPaths => OnceNote(k.raw) /\ NoteClosed(k.raw)
    /\ k.pc = "rename" /\ k.path \in PatchPaths => k.raw.sections[k.path] = <<>>
    /\ k.pc \in {"append", "rename"} => GapDone(k.draft.gap, k.path)
    /\ k.pc = "write" /\ k.path \in NewPaths => k.draft.status = "draft"
    /\ k.pc = "rerank" /\ k.path \in NewPaths => NewClosed(k.raw, k.path)

Good == FileGood /\ \A c \in Callers : CallGood(caller[c])

\* a closed gap stays closed
Monotone ==
    /\ \A g \in Gaps : file[g].status = "closed" => file'[g].status = "closed"
    /\ unindexedGap \subseteq unindexedGap'

LEMMA DoneStays ==
    ASSUME Monotone, NEW g \in Gaps \cup {None}, NEW p, GapDone(g, p)
    PROVE  GapDone(g, p)'
  BY DEF Monotone, GapDone

LEMMA NoteStays ==
    ASSUME Monotone, NEW x \in Note, NoteClosed(x)
    PROVE  NoteClosed(x)'
  <1>1. ASSUME NEW p \in PatchPaths, NEW s \in Sections(x, p)
        PROVE  GapDone(s.gap, p)'
    <2>1. s.gap \in Gaps \cup {None}
      BY NoteSections DEF Section
    <2>2. GapDone(s.gap, p)
      BY DEF NoteClosed
    <2> QED BY <2>1, <2>2, DoneStays
  <1> QED BY <1>1 DEF NoteClosed, Sections

LEMMA NewStays ==
    ASSUME Monotone, NEW x \in New, NEW p, NewClosed(x, p)
    PROVE  NewClosed(x, p)'
  BY DoneStays, Kinds DEF NewClosed

LEMMA CallStays ==
    ASSUME Monotone, NEW k, CallTyped(k), CallGood(k)
    PROVE  CallGood(k)'
  <1>1. ASSUME k.pc \in Holding, k.path \in PatchPaths
        PROVE  NoteClosed(k.raw)'
    BY <1>1, NoteStays DEF CallTyped, RawOf, CallGood, Holding
  <1>2. ASSUME k.pc \in {"append", "rename"}
        PROVE  GapDone(k.draft.gap, k.path)'
    <2>1. k.draft \in DraftAt(k.path) /\ k.path \in PatchPaths \cup NewPaths
      BY <1>2 DEF CallTyped
    <2>2. k.draft.gap \in Gaps \cup {None}
      BY <2>1, PatchDraft
    <2> QED BY <1>2, <2>2, DoneStays DEF CallGood
  <1>3. ASSUME k.pc = "rerank", k.path \in NewPaths
        PROVE  NewClosed(k.raw, k.path)'
    BY <1>3, NewStays, Names DEF CallTyped, CallGood, DraftAt
  <1> QED BY <1>1, <1>2, <1>3 DEF CallGood, OnceNote

LEMMA GoodGives ==
    ASSUME AllTyped, Good, NEW c \in Callers
    PROVE  CallTyped(caller[c]) /\ CallGood(caller[c]) /\ caller[c] \in Call
  BY CallGives DEF Good

\* one call changes
LEMMA CallStep ==
    ASSUME AllTyped, Good, Monotone, FileGood', NEW c \in Callers, NEW k, CallGood(k)',
           caller' = [caller EXCEPT ![c] = k]
    PROVE  Good'
  <1>1. ASSUME NEW d \in Callers PROVE CallGood(caller[d])'
    <2>1. CASE d = c
      <3>1. caller'[d] = k
        BY <2>1 DEF AllTyped, CallsTyped
      <3> QED BY <3>1 DEF CallGood, OnceNote, NoteClosed, NewClosed, GapDone, Sections
    <2>2. CASE d # c
      <3>1. caller'[d] = caller[d]
        BY <2>2 DEF AllTyped, CallsTyped
      <3>2. PICK m : m = caller[d]
        OBVIOUS
      <3>3. CallGood(m)'
        BY <3>2, GoodGives, CallStays
      <3> QED BY <3>1, <3>2, <3>3 DEF CallGood, OnceNote, NoteClosed, NewClosed, GapDone, Sections
    <2> QED BY <2>1, <2>2
  <1> QED BY <1>1 DEF Good

\* no call changes
LEMMA NoCallStep ==
    ASSUME AllTyped, Good, Monotone, FileGood', UNCHANGED caller
    PROVE  Good'
  <1>1. ASSUME NEW d \in Callers PROVE CallGood(caller[d])'
    <2>1. PICK m : m = caller[d]
      OBVIOUS
    <2>2. CallGood(m)' /\ caller'[d] = m
      BY <2>1, GoodGives, CallStays
    <2> QED BY <2>2 DEF CallGood, OnceNote, NoteClosed, NewClosed, GapDone, Sections
  <1> QED BY <1>1 DEF Good

LEMMA FinishGood ==
    ASSUME AllTyped, Good, Monotone, FileGood', NEW c \in Callers, Finish(c)
    PROVE  Good'
  <1>1. PICK k : k = Idle
    OBVIOUS
  <1>2. CallGood(k)'
    BY <1>1 DEF CallGood, Idle, At, Holding
  <1>3. caller' = [caller EXCEPT ![c] = k]
    BY <1>1 DEF Finish
  <1> QED BY <1>2, <1>3, CallStep

\* a call moves on with what it holds
LEMMA GotoGood ==
    ASSUME AllTyped, Good, Monotone, FileGood', NEW c \in Callers,
           NEW pc \in Steps \ {"write", "rerank", "rename"}, Goto(c, pc),
           pc \in Holding => caller[c].pc \in Holding,
           pc = "append" => GapDone(caller[c].draft.gap, caller[c].path)
                            \/ caller[c].path \in unindexedGap'
                            \/ file'[caller[c].draft.gap].status = "closed"
    PROVE  Good'
  <1>1. PICK k : k = [caller[c] EXCEPT !.pc = pc]
    OBVIOUS
  <1>2. PICK m : m = caller[c]
    OBVIOUS
  <1>3. m \in Call /\ CallTyped(m) /\ CallGood(m) /\ CallGood(m)'
    BY <1>2, GoodGives, CallStays
  <1>4. k.pc = pc /\ k.path = m.path /\ k.draft = m.draft /\ k.raw = m.raw
    BY <1>1, <1>2, <1>3, Moved
  <1>5. pc = "append" => GapDone(m.draft.gap, m.path)'
    <2>1. pc = "append" => m.draft \in DraftAt(m.path) /\ m.path \in PatchPaths \cup NewPaths
      BY <1>2, <1>3 DEF CallTyped, Holding
    <2>2. pc = "append" => m.draft.gap \in Gaps \cup {None}
      BY <2>1, PatchDraft
    <2> QED BY <1>2, <2>2, DoneStays DEF GapDone
  <1>6. CallGood(k)'
    BY <1>2, <1>3, <1>4, <1>5 DEF CallGood, OnceNote, NoteClosed, NewClosed, Sections, GapDone, Holding
  <1>7. caller' = [caller EXCEPT ![c] = k]
    BY <1>1 DEF Goto
  <1> QED BY <1>6, <1>7, CallStep

\* a step that leaves notes, new notes and gaps alone
LEMMA FileKept ==
    ASSUME AllTyped, Good, unindexedGap \subseteq unindexedGap',
           \A p \in Targets \cup Gaps \cup NewPaths : file'[p] = file[p]
    PROVE  Monotone /\ FileGood'
  <1>1. Monotone
    BY DEF Monotone
  <1>2. ASSUME NEW t \in Targets PROVE OnceNote(file[t])' /\ NoteClosed(file[t])'
    <2>1. PICK x : x = file[t]
      OBVIOUS
    <2>2. x \in Note /\ file'[t] = x
      BY <2>1, TypedGives DEF AllTyped
    <2>3. OnceNote(x) /\ NoteClosed(x)'
      BY <1>1, <2>1, <2>2, NoteStays DEF Good, FileGood
    <2> QED BY <2>2, <2>3 DEF OnceNote, NoteClosed, Sections, GapDone
  <1>3. ASSUME NEW p \in NewPaths, file'[p] # None PROVE NewClosed(file[p], p)'
    <2>1. PICK x : x = file[p]
      OBVIOUS
    <2>2. x \in New /\ file'[p] = x
      BY <1>3, <2>1, TypedGives DEF AllTyped
    <2>3. NewClosed(x, p)'
      BY <1>1, <1>3, <2>1, <2>2, NewStays DEF Good, FileGood
    <2> QED BY <2>2, <2>3 DEF NewClosed, GapDone
  <1> QED BY <1>1, <1>2, <1>3 DEF FileGood, Good

LEMMA SameFile ==
    ASSUME AllTyped, Good, unindexedGap \subseteq unindexedGap', UNCHANGED file
    PROVE  Monotone /\ FileGood'
  BY FileKept

\* a step that changes one name, not a gap
LEMMA FileSet ==
    ASSUME AllTyped, Good, unindexedGap \subseteq unindexedGap',
           NEW p \in Paths \ Gaps, NEW x, file' = [file EXCEPT ![p] = x],
           p \in Targets => OnceNote(x) /\ NoteClosed(x)',
           p \in NewPaths /\ x # None => NewClosed(x, p)'
    PROVE  Monotone /\ FileGood'
  <1>1. \A q \in Paths : file'[q] = IF q = p THEN x ELSE file[q]
    BY DEF AllTyped, Typed
  <1>2. Monotone
    BY <1>1, Names DEF Monotone
  <1>3. ASSUME NEW t \in Targets PROVE OnceNote(file[t])' /\ NoteClosed(file[t])'
    <2>1. PICK y : y = file'[t]
      OBVIOUS
    <2>2. CASE t = p
      <3>1. y = x
        BY <1>1, <2>1, <2>2
      <3> QED BY <2>1, <2>2, <3>1 DEF OnceNote, NoteClosed, Sections, GapDone
    <2>3. CASE t # p
      <3>1. y = file[t] /\ y \in Note
        BY <1>1, <2>1, <2>3, Names, TypedGives DEF AllTyped
      <3>2. OnceNote(y) /\ NoteClosed(y)'
        BY <1>2, <3>1, NoteStays DEF Good, FileGood
      <3> QED BY <2>1, <3>2 DEF OnceNote, NoteClosed, Sections, GapDone
    <2> QED BY <2>2, <2>3
  <1>4. ASSUME NEW q \in NewPaths, file'[q] # None PROVE NewClosed(file[q], q)'
    <2>1. PICK y : y = file'[q]
      OBVIOUS
    <2>2. CASE q = p
      <3>1. y = x
        BY <1>1, <2>1, <2>2
      <3> QED BY <1>4, <2>1, <2>2, <3>1 DEF NewClosed, GapDone
    <2>3. CASE q # p
      <3>1. y = file[q] /\ y \in New
        BY <1>1, <1>4, <2>1, <2>3, Names, TypedGives DEF AllTyped
      <3>2. NewClosed(y, q)'
        BY <1>2, <1>4, <2>1, <3>1, NewStays, Kinds DEF Good, FileGood
      <3> QED BY <2>1, <3>2 DEF NewClosed, GapDone
    <2> QED BY <2>2, <2>3
  <1>5. \A g \in Gaps : file'[g] # None
    BY <1>1, Names DEF Good, FileGood
  <1> QED BY <1>2, <1>3, <1>4, <1>5 DEF FileGood

----------------------------------------------------------------------------
(* Sections and gaps: propose *)

LEMMA ProposeGood ==
    ASSUME AllTyped, Good, NEW c \in Callers, NEW f \in Findings, NEW g \in Gaps \cup {None},
           Propose(c, f, g)
    PROVE  Good'
  <1>1. Monotone /\ FileGood'
    BY SameFile DEF Propose, history
  <1>2. CASE \E p \in PatchPaths :
                caller' = [caller EXCEPT ![c] = At("write", p,
                   [kind |-> "patch", finding |-> f, gap |-> g, target |-> PatchOf[p].target])]
    <2>1. PICK p \in PatchPaths : \E x : caller' = [caller EXCEPT ![c] = At("write", p, x)]
      BY <1>2
    <2>2. PICK x : caller' = [caller EXCEPT ![c] = At("write", p, x)]
      BY <2>1
    <2>3. CallGood(At("write", p, x))'
      BY Names DEF CallGood, At, Holding
    <2> QED BY <1>1, <2>2, <2>3, CallStep
  <1>3. CASE \E p \in NewPaths :
                caller' = [caller EXCEPT ![c] = At("write", p,
                   [kind |-> "new", finding |-> f, gap |-> g, status |-> "draft"])]
    <2>1. PICK p \in NewPaths : \E x : x.status = "draft" /\ caller' = [caller EXCEPT ![c] = At("write", p, x)]
      BY <1>3
    <2>2. PICK x : x.status = "draft" /\ caller' = [caller EXCEPT ![c] = At("write", p, x)]
      BY <2>1
    <2>3. CallGood(At("write", p, x))'
      BY <2>2, Names DEF CallGood, At, Holding
    <2> QED BY <1>1, <2>2, <2>3, CallStep
  <1> QED BY <1>2, <1>3 DEF Propose

LEMMA WriteDraftGood ==
    ASSUME AllTyped, Good, NEW c \in Callers, WriteDraft(c)
    PROVE  Good'
  <1>1. PICK k : k = caller[c]
    OBVIOUS
  <1>2. /\ k.pc = "write" /\ k.path \in PatchPaths \cup NewPaths /\ k.draft \in DraftAt(k.path)
        /\ k.path \in NewPaths => k.draft.status = "draft"
    BY <1>1, GoodGives DEF WriteDraft, CallTyped, CallGood
  <1>3. k.path \in Paths \ Gaps /\ k.path \notin Targets
    BY <1>2, Names
  <1>4. file' = [file EXCEPT ![k.path] = k.draft] /\ UNCHANGED unindexedGap
    BY <1>1 DEF WriteDraft
  <1>5. Monotone /\ FileGood'
    BY <1>2, <1>3, <1>4, FileSet DEF NewClosed
  <1> QED BY <1>5, GotoGood DEF WriteDraft, Steps, Holding

LEMMA IndexDraftGood ==
    ASSUME AllTyped, Good, NEW c \in Callers, IndexDraft(c)
    PROVE  Good'
  <1>1. Monotone /\ FileGood'
    BY SameFile DEF IndexDraft, history
  <1> QED BY <1>1, GotoGood DEF IndexDraft, Steps, Holding

LEMMA RankReadGood ==
    ASSUME AllTyped, Good, NEW c \in Callers, RankRead(c)
    PROVE  Good'
  <1>1. Monotone /\ FileGood'
    BY SameFile DEF RankRead, history
  <1>2. PICK p, x : p = caller[c].path /\ x = file[p]
    OBVIOUS
  <1>3. PICK k : k = [caller[c] EXCEPT !.pc = "rerank", !.raw = x, !.seen = x]
    OBVIOUS
  <1>4. caller[c] \in Call /\ x # None /\ p \in PatchPaths \cup NewPaths
    BY <1>2, GoodGives DEF RankRead, CallTyped
  <1>5. k.pc = "rerank" /\ k.path = p /\ k.raw = x
    BY <1>2, <1>3, <1>4 DEF Call
  <1>6. p \in NewPaths => NewClosed(x, p)'
    BY <1>1, <1>2, <1>4, NewStays, TypedGives DEF Good, FileGood, AllTyped
  <1>7. CallGood(k)'
    BY <1>5, <1>6 DEF CallGood, Holding
  <1>8. caller' = [caller EXCEPT ![c] = k]
    BY <1>2, <1>3 DEF RankRead
  <1> QED BY <1>1, <1>7, <1>8, CallStep

LEMMA RankRenameGood ==
    ASSUME AllTyped, Good, NEW c \in Callers, RankRename(c)
    PROVE  Good'
  <1>1. PICK k : k = caller[c]
    OBVIOUS
  <1>2. /\ k.pc = "rerank" /\ k.path \in PatchPaths \cup NewPaths /\ k.raw \in DraftAt(k.path)
        /\ k.path \in NewPaths => NewClosed(k.raw, k.path)
    BY <1>1, GoodGives DEF RankRename, CallTyped, CallGood
  <1>3. k.path \in Paths \ Gaps /\ k.path \notin Targets
    BY <1>2, Names
  <1>4. file' = [file EXCEPT ![k.path] = k.raw] /\ UNCHANGED unindexedGap
    BY <1>1 DEF RankRename
  <1>5. \A g \in Gaps : file'[g] = file[g]
    BY <1>3, <1>4 DEF AllTyped, Typed
  <1>6. Monotone
    BY <1>4, <1>5 DEF Monotone
  <1>7. k.path \in NewPaths => NewClosed(k.raw, k.path)'
    BY <1>2, <1>6, NewStays, Names DEF DraftAt
  <1>8. Monotone /\ FileGood'
    BY <1>3, <1>4, <1>7, FileSet
  <1> QED BY <1>8, FinishGood DEF RankRename

----------------------------------------------------------------------------
(* Sections and gaps: accept *)

LEMMA AcceptGood ==
    ASSUME AllTyped, Good, NEW c \in Callers, NEW p \in PatchPaths \cup NewPaths, Accept(c, p)
    PROVE  Good'
  <1>1. Monotone /\ FileGood'
    BY SameFile DEF Accept, history
  <1>2. PICK pc \in {"read", "scan"} : caller' = [caller EXCEPT ![c] = At(pc, p, None)]
    BY DEF Accept
  <1>3. CallGood(At(pc, p, None))'
    BY DEF CallGood, At, Holding
  <1> QED BY <1>1, <1>2, <1>3, CallStep

LEMMA ScanGood ==
    ASSUME AllTyped, Good, NEW c \in Callers, ScanForProposal(c)
    PROVE  Good'
  <1>1. Monotone /\ FileGood'
    BY SameFile DEF ScanForProposal, history
  <1> QED BY <1>1, GotoGood DEF ScanForProposal, Steps, Holding

LEMMA MissingGood ==
    ASSUME AllTyped, Good, NEW c \in Callers, FinishMissingProposal(c)
    PROVE  Good'
  <1>1. Monotone /\ FileGood'
    BY SameFile DEF FinishMissingProposal, history
  <1> QED BY <1>1, FinishGood DEF FinishMissingProposal

LEMMA ReadDraftGood ==
    ASSUME AllTyped, Good, NEW c \in Callers, ReadDraft(c)
    PROVE  Good'
  <1>1. Monotone /\ FileGood'
    BY SameFile DEF ReadDraft, history
  <1>2. PICK p, x : p = caller[c].path /\ x = file[p]
    OBVIOUS
  <1>3. p \in PatchPaths \cup NewPaths /\ p \in Paths /\ caller[c] \in Call
    BY <1>2, GoodGives, DraftIn DEF CallTyped, ReadDraft
  <1>4. isPatch(x) <=> p \in PatchPaths
    BY <1>2, <1>3, TypedGives, Names, Kinds DEF ReadDraft, AllTyped, isDraft, isPatch
  <1>5. PICK pc, raw : /\ p \in PatchPaths => pc = "target"
                       /\ p \notin PatchPaths => pc = "gap"
                       /\ pc = (IF isPatch(x) THEN "target" ELSE "gap")
                       /\ raw = (IF isPatch(x) THEN None ELSE x)
    BY <1>4
  <1>6. PICK k : k = [caller[c] EXCEPT !.draft = x, !.raw = raw, !.pc = pc]
    OBVIOUS
  <1>7. k.pc = pc /\ k.path = p
    BY <1>2, <1>3, <1>6 DEF Call
  <1>8. CallGood(k)'
    BY <1>5, <1>7 DEF CallGood, Holding
  <1>9. caller' = [caller EXCEPT ![c] = k]
    BY <1>2, <1>5, <1>6 DEF ReadDraft
  <1> QED BY <1>1, <1>8, <1>9, CallStep

LEMMA ReadTargetGood ==
    ASSUME AllTyped, Good, NEW c \in Callers, ReadTarget(c)
    PROVE  Good'
  <1>1. Monotone /\ FileGood'
    BY SameFile DEF ReadTarget, history
  <1>2. PICK t, x : t = caller[c].draft.target /\ x = file[t]
    OBVIOUS
  <1>3. caller[c] \in Call /\ t \in Targets
    <2>1. caller[c] \in Call /\ caller[c].path \in PatchPaths
          /\ caller[c].draft \in DraftAt(caller[c].path)
      BY GoodGives DEF ReadTarget, CallTyped
    <2> QED BY <1>2, <2>1, PatchDraft
  <1>4. x \in Note /\ OnceNote(x) /\ NoteClosed(x)
    BY <1>2, <1>3, TypedGives DEF AllTyped, Good, FileGood
  <1>5. NoteClosed(x)'
    BY <1>1, <1>4, NoteStays
  <1>6. PICK k : k = [caller[c] EXCEPT !.raw = x, !.pc = "gap"]
    OBVIOUS
  <1>7. k.pc = "gap" /\ k.raw = x
    BY <1>3, <1>6 DEF Call
  <1>8. CallGood(k)'
    BY <1>4, <1>5, <1>7 DEF CallGood, Holding, OnceNote, NoteClosed, Sections, GapDone
  <1>9. caller' = [caller EXCEPT ![c] = k]
    BY <1>2, <1>6 DEF ReadTarget
  <1> QED BY <1>1, <1>8, <1>9, CallStep

LEMMA CloseLinkedGapGood ==
    ASSUME AllTyped, Good, NEW c \in Callers, CloseLinkedGap(c)
    PROVE  Good'
  <1> DEFINE g == caller[c].draft.gap
  <1>1. UNCHANGED file /\ unindexedGap \subseteq unindexedGap' /\ caller[c].pc = "gap"
    BY DEF CloseLinkedGap
  <1>2. Monotone /\ FileGood'
    BY <1>1, SameFile
  <1>3. CASE /\ \/ g = None
                \/ caller[c].path \in unindexedGap'
                \/ file[g].status = "closed"
             /\ Goto(c, "append")
    <2>1. GapDone(g, caller[c].path) \/ caller[c].path \in unindexedGap'
      BY <1>3 DEF GapDone
    <2> QED BY <1>1, <1>2, <1>3, <2>1, GotoGood DEF Steps, Holding
  <1>4. CASE Goto(c, "closing")
    BY <1>1, <1>2, <1>4, GotoGood DEF Steps, Holding
  <1> QED BY <1>3, <1>4 DEF CloseLinkedGap

LEMMA GapRenameGood ==
    ASSUME AllTyped, Good, NEW c \in Callers, GapRename(c)
    PROVE  Good'
  <1>1. PICK g, x : /\ g = caller[c].draft.gap
                    /\ x = [kind |-> "gap", status |-> "closed", by |-> ClosedBy(c)]
    OBVIOUS
  <1>2. /\ file' = [file EXCEPT ![g] = x] /\ UNCHANGED unindexedGap
        /\ caller[c].pc = "closing" /\ Goto(c, "append")
    BY <1>1 DEF GapRename, history
  <1>3. g \in Gaps /\ g \in Paths
    BY <1>1, <1>2, GoodGives, Names DEF CallTyped
  <1>4. \A q \in Paths : file'[q] = IF q = g THEN x ELSE file[q]
    BY <1>2, <1>3 DEF AllTyped, Typed
  <1>5. x.status = "closed" /\ x.kind = "gap"
    BY <1>1
  <1>6. Monotone
    BY <1>2, <1>4, <1>5, Names DEF Monotone
  <1>7. x # None
    <2>1. Typed(file)'
      BY GapRenameTyped DEF AllTyped
    <2>2. x \in Gap \cup {None}
      BY <1>3, <1>4, <2>1, TypedGives
    <2>3. caller[c].path \in PatchPaths \cup NewPaths /\ caller[c].draft \in DraftAt(caller[c].path)
      BY <1>2, GoodGives DEF CallTyped
    <2>4. ClosedBy(c) \in Targets \cup NewPaths
      BY <2>3, PatchDraft, Names DEF ClosedBy
    <2>5. x \in Gap
      BY <1>1, <2>4 DEF Gap
    <2> QED BY <2>5, Kinds
  <1>8. ASSUME NEW t \in Targets PROVE OnceNote(file[t])' /\ NoteClosed(file[t])'
    <2>1. PICK y : y = file[t]
      OBVIOUS
    <2>2. y \in Note /\ file'[t] = y
      BY <1>3, <1>4, <2>1, TypedGives, Names DEF AllTyped
    <2>3. OnceNote(y) /\ NoteClosed(y)'
      BY <1>6, <2>1, <2>2, NoteStays DEF Good, FileGood
    <2> QED BY <2>2, <2>3 DEF OnceNote, NoteClosed, Sections, GapDone
  <1>9. ASSUME NEW p \in NewPaths, file'[p] # None PROVE NewClosed(file[p], p)'
    <2>1. PICK y : y = file[p]
      OBVIOUS
    <2>2. y \in New /\ file'[p] = y
      BY <1>3, <1>4, <1>9, <2>1, TypedGives, Names DEF AllTyped
    <2>3. NewClosed(y, p)'
      BY <1>6, <1>9, <2>1, <2>2, NewStays DEF Good, FileGood
    <2> QED BY <2>2, <2>3 DEF NewClosed, GapDone
  <1>10. \A q \in Gaps : file'[q] # None
    BY <1>4, <1>7, Names DEF Good, FileGood
  <1>11. FileGood'
    BY <1>8, <1>9, <1>10 DEF FileGood
  <1>12. file'[caller[c].draft.gap].status = "closed"
    BY <1>1, <1>3, <1>4, <1>5
  <1> QED BY <1>2, <1>6, <1>11, <1>12, GotoGood DEF Steps, Holding

LEMMA SkipMarkedGood ==
    ASSUME AllTyped, Good, NEW c \in Callers, SkipMarked(c)
    PROVE  Good'
  <1>1. Monotone /\ FileGood'
    BY SameFile DEF SkipMarked, history
  <1> QED BY <1>1, GotoGood DEF SkipMarked, Steps, Holding

\* what is about to be renamed has no section of this proposal
LEMMA VerifyGood ==
    ASSUME AllTyped, Good, NEW c \in Callers, AtomicWriteVerify(c)
    PROVE  Good'
  <1>1. Monotone /\ FileGood'
    BY SameFile DEF AtomicWriteVerify, history
  <1>2. PICK m, x : m = caller[c] /\ x = file[Rewritten(c)]
    OBVIOUS
  <1>3. m \in Call /\ CallTyped(m) /\ CallGood(m) /\ CallGood(m)' /\ m.pc = "append"
    BY <1>1, <1>2, GoodGives, CallStays DEF AtomicWriteVerify
  <1>4. m.path \in PatchPaths => m.raw.sections[m.path] = <<>>
    <2>1. m.path \in PatchPaths \cup NewPaths /\ m.draft \in DraftAt(m.path)
      BY <1>3 DEF CallTyped
    <2>2. m.path \in PatchPaths => m.draft.kind = "patch"
      BY <2>1, PatchDraft
    <2> QED BY <1>2, <2>2 DEF AtomicWriteVerify, Marked
  <1>5. PICK k : k = [m EXCEPT !.pc = "rename", !.seen = x]
    OBVIOUS
  <1>6. k.pc = "rename" /\ k.path = m.path /\ k.draft = m.draft /\ k.raw = m.raw
    BY <1>3, <1>5 DEF Call
  <1>7. CallGood(k)'
    BY <1>3, <1>4, <1>6 DEF CallGood, Holding, OnceNote, NoteClosed, Sections, GapDone
  <1>8. caller' = [caller EXCEPT ![c] = k]
    BY <1>2, <1>5 DEF AtomicWriteVerify
  <1> QED BY <1>1, <1>7, <1>8, CallStep

LEMMA AppendGood ==
    ASSUME NEW x \in Note, NEW p \in PatchPaths, NEW d \in Patch,
           OnceNote(x), NoteClosed(x), x.sections[p] = <<>>, GapDone(d.gap, p)
    PROVE  OnceNote(appendSection(x, p, d)) /\ NoteClosed(appendSection(x, p, d))
  <1> DEFINE s == [finding |-> d.finding, gap |-> d.gap]
             y == appendSection(x, p, d)
  <1>1. y.sections = [x.sections EXCEPT ![p] = Append(@, s)] /\ y \in Note
    BY ZenonT(60), AppendTyped
  <1>2. x.sections \in [PatchPaths -> Seq(Section)]
    BY DEF Note
  <1> HIDE DEF y
  <1>3. \A q \in PatchPaths : y.sections[q] = IF q = p THEN <<s>> ELSE x.sections[q]
    BY <1>1, <1>2
  <1>4. OnceNote(y)
    <2>1. \A z : Len(<<z>>) = 1
      OBVIOUS
    <2>2. Len(<<s>>) <= 1
      BY <2>1
    <2>3. \A q \in PatchPaths : Len(y.sections[q]) <= 1
      BY <1>3, <2>2 DEF OnceNote
    <2> QED BY <2>3 DEF OnceNote
  <1>5. ASSUME NEW q \in PatchPaths, NEW z \in Sections(y, q) PROVE GapDone(z.gap, q)
    <2>1. CASE q = p
      <3>1. z = s
        BY <1>3, <2>1 DEF Sections
      <3> QED BY <2>1, <3>1
    <2>2. CASE q # p
      <3>1. z \in Sections(x, q)
        BY <1>3, <2>2 DEF Sections
      <3> QED BY <3>1 DEF NoteClosed
    <2> QED BY <2>1, <2>2
  <1>6. NoteClosed(y)
    BY <1>5 DEF NoteClosed
  <1> QED BY <1>4, <1>6 DEF y

LEMMA WriteRenameGood ==
    ASSUME AllTyped, Good, NEW c \in Callers, AtomicWriteRename(c)
    PROVE  Good'
  <1>1. PICK k : k = caller[c]
    OBVIOUS
  <1>2. /\ k.pc = "rename" /\ CallTyped(k) /\ CallGood(k)
        /\ k.draft \in DraftAt(k.path) /\ k.path \in PatchPaths \cup NewPaths /\ RawOf(k)
        /\ k.draft.kind = "patch" => k.path \in PatchPaths /\ k.raw \in Note
                                     /\ k.draft.target \in Targets
        /\ k.draft.kind # "patch" => k.path \in NewPaths /\ k.raw \in New
    BY <1>1, GoodGives, Accepting DEF AtomicWriteRename
  <1>3. GapDone(k.draft.gap, k.path) /\ UNCHANGED unindexedGap
    BY <1>2 DEF CallGood, AtomicWriteRename
  <1>4. CASE k.draft.kind = "patch"
    <2>1. PICK x : x = appendSection(k.raw, k.path, k.draft)
      OBVIOUS
    <2>2. file' = [file EXCEPT ![k.draft.target] = x] /\ Goto(c, "unrow")
      BY <1>1, <1>4, <2>1 DEF AtomicWriteRename
    <2>3. k.draft \in Patch
      BY <1>2, <1>4, PatchDraft
    <2>4. OnceNote(x) /\ NoteClosed(x)
      BY <1>2, <1>3, <1>4, <2>1, <2>3, AppendGood DEF CallGood, Holding
    <2>5. x \in Note
      BY <1>2, <1>4, <2>1, <2>3, AppendTyped
    <2>6. k.draft.target \in Paths \ Gaps /\ k.draft.target \notin NewPaths
      BY <1>2, <1>4, Names
    <2>7. Monotone
      <3>1. \A g \in Gaps : file'[g] = file[g]
        BY <2>2, <2>6 DEF AllTyped, Typed
      <3> QED BY <1>3, <3>1 DEF Monotone
    <2>8. NoteClosed(x)'
      BY <2>4, <2>5, <2>7, NoteStays
    <2>9. Monotone /\ FileGood'
      BY <1>3, <2>2, <2>4, <2>6, <2>8, FileSet
    <2> QED BY <2>2, <2>9, GotoGood DEF Steps, Holding
  <1>5. CASE k.draft.kind # "patch"
    <2>1. PICK x : x = [k.raw EXCEPT !.status = "accepted"]
      OBVIOUS
    <2>2. file' = [file EXCEPT ![k.path] = x] /\ Goto(c, "done")
      BY <1>1, <1>5, <2>1 DEF AtomicWriteRename
    <2>3. x \in New /\ x.gap = k.raw.gap /\ k.raw.gap = k.draft.gap
      BY <1>2, <1>5, <2>1, Names DEF New, RawOf
    <2>4. k.path \in Paths \ Gaps /\ k.path \notin Targets
      BY <1>2, <1>5, Names
    <2>5. Monotone
      <3>1. \A g \in Gaps : file'[g] = file[g]
        BY <2>2, <2>4 DEF AllTyped, Typed
      <3> QED BY <1>3, <3>1 DEF Monotone
    <2>6. NewClosed(x, k.path)
      BY <1>3, <2>3 DEF NewClosed
    <2>7. NewClosed(x, k.path)'
      BY <2>3, <2>5, <2>6, NewStays
    <2>8. Monotone /\ FileGood'
      BY <1>3, <2>2, <2>4, <2>7, FileSet
    <2> QED BY <2>2, <2>8, GotoGood DEF Steps, Holding
  <1> QED BY <1>4, <1>5

LEMMA RemoveRowGood ==
    ASSUME AllTyped, Good, NEW c \in Callers, RemoveProposalRow(c)
    PROVE  Good'
  <1>1. Monotone /\ FileGood'
    BY SameFile DEF RemoveProposalRow, history
  <1> QED BY <1>1, GotoGood DEF RemoveProposalRow, Steps, Holding

LEMMA RemoveFileGood ==
    ASSUME AllTyped, Good, NEW c \in Callers, RemoveProposalFile(c)
    PROVE  Good'
  <1>1. PICK p : p = caller[c].path
    OBVIOUS
  <1>2. p \in PatchPaths
    BY <1>1, GoodGives DEF RemoveProposalFile, CallTyped
  <1>3. p \in Paths \ Gaps /\ p \notin Targets /\ p \notin NewPaths
    BY <1>2, Names
  <1>4. file' = [file EXCEPT ![p] = None] /\ UNCHANGED unindexedGap
    BY <1>1 DEF RemoveProposalFile
  <1>5. Monotone /\ FileGood'
    BY <1>3, <1>4, FileSet
  <1> QED BY <1>5, GotoGood DEF RemoveProposalFile, Steps, Holding

LEMMA IndexAcceptedGood ==
    ASSUME AllTyped, Good, NEW c \in Callers, IndexAccepted(c)
    PROVE  Good'
  <1>1. Monotone /\ FileGood'
    BY SameFile DEF IndexAccepted, history
  <1> QED BY <1>1, FinishGood DEF IndexAccepted

LEMMA AbandonGood ==
    ASSUME AllTyped, Good, NEW c \in Callers, Abandon(c)
    PROVE  Good'
  <1>1. Monotone /\ FileGood'
    BY SameFile DEF Abandon, history
  <1> QED BY <1>1, FinishGood DEF Abandon

----------------------------------------------------------------------------
(* Sections and gaps: people and other commands *)

LEMMA UserRemovesGood ==
    ASSUME AllTyped, Good, NEW p \in PatchPaths \cup NewPaths, UserRemoves(p)
    PROVE  Good'
  <1>1. p \in Paths \ Gaps /\ p \notin Targets
    BY Names
  <1>2. file' = [file EXCEPT ![p] = None] /\ UNCHANGED <<unindexedGap, caller>>
    BY DEF UserRemoves, Event
  <1>3. Monotone /\ FileGood'
    BY <1>1, <1>2, FileSet
  <1> QED BY <1>2, <1>3, NoCallStep

LEMMA UserRemarksGood ==
    ASSUME AllTyped, Good, NEW t \in Targets, NEW r \in Remarks, UserRemarks(t, r)
    PROVE  Good'
  <1>1. PICK x : x = [file[t] EXCEPT !.text = @ \cup {r}]
    OBVIOUS
  <1>2. file' = [file EXCEPT ![t] = x] /\ UNCHANGED <<unindexedGap, caller>>
    BY <1>1 DEF UserRemarks, Event
  <1>3. file[t] \in Note /\ t \in Paths \ Gaps /\ t \notin NewPaths
    BY TypedGives, Names DEF AllTyped
  <1>4. x \in Note /\ x.sections = file[t].sections
    BY <1>1, <1>3 DEF Note
  <1>5. OnceNote(x) /\ NoteClosed(x)
    BY <1>4 DEF Good, FileGood, OnceNote, NoteClosed, Sections
  <1>6. Monotone
    <2>1. \A g \in Gaps : file'[g] = file[g]
      BY <1>2, <1>3 DEF AllTyped, Typed
    <2> QED BY <1>2, <2>1 DEF Monotone
  <1>7. NoteClosed(x)'
    BY <1>4, <1>5, <1>6, NoteStays
  <1>8. Monotone /\ FileGood'
    BY <1>2, <1>3, <1>5, <1>7, FileSet
  <1> QED BY <1>2, <1>8, NoCallStep

LEMMA UserEditsGood ==
    ASSUME AllTyped, Good, NEW p \in PatchPaths \cup NewPaths, NEW f \in Findings, UserEditsDraft(p, f)
    PROVE  Good'
  <1>1. PICK x : x = [file[p] EXCEPT !.finding = f]
    OBVIOUS
  <1>2. file' = [file EXCEPT ![p] = x] /\ UNCHANGED <<unindexedGap, caller>>
    BY <1>1 DEF UserEditsDraft, Event
  <1>3. p \in Paths \ Gaps /\ p \notin Targets
    BY Names
  <1>4. p \in NewPaths => x.status = "draft"
    <2>1. p \in NewPaths => file[p] \in New /\ file[p].status = "draft"
      BY TypedGives, Kinds DEF AllTyped, UserEditsDraft, isDraft
    <2> QED BY <1>1, <2>1 DEF New
  <1>5. Monotone /\ FileGood'
    BY <1>2, <1>3, <1>4, FileSet DEF NewClosed
  <1> QED BY <1>2, <1>5, NoCallStep

LEMMA IndexPassGood ==
    ASSUME AllTyped, Good, NEW p \in Paths, IndexPass(p)
    PROVE  Good'
  <1>1. Monotone /\ FileGood'
    BY SameFile DEF IndexPass, history
  <1> QED BY <1>1, NoCallStep DEF IndexPass, Event

----------------------------------------------------------------------------
LEMMA InitGood == Init => Good
  <1> SUFFICES ASSUME Init PROVE Good
    OBVIOUS
  <1>1. file = [p \in Paths |->
                  IF p \in Targets
                  THEN [kind |-> "note", text |-> {}, sections |-> [d \in PatchPaths |-> <<>>]]
                  ELSE IF p \in Gaps THEN [kind |-> "gap", status |-> "open", by |-> None]
                  ELSE None]
    BY DEF Init
  <1>2. \A t \in Targets : file[t].sections = [d \in PatchPaths |-> <<>>]
    BY <1>1, Names
  <1>3. \A t \in Targets : OnceNote(file[t]) /\ NoteClosed(file[t])
    BY <1>2 DEF OnceNote, NoteClosed, Sections
  <1>4. \A p \in NewPaths : file[p] = None
    BY <1>1, Names
  <1>5. \A g \in Gaps : file[g] # None
    <2>1. [kind |-> "gap", status |-> "open", by |-> None] \in Gap
      BY DEF Gap
    <2> QED BY <1>1, <2>1, Names, Kinds
  <1>6. \A c \in Callers : caller[c] = Idle
    BY DEF Init
  <1>7. CallGood(Idle)
    BY DEF CallGood, Idle, At, Holding
  <1> QED BY <1>3, <1>4, <1>5, <1>6, <1>7 DEF Good, FileGood

LEMMA NextGood == AllTyped /\ Good /\ [Next]_vars => Good'
  <1> SUFFICES ASSUME AllTyped, Good, [Next]_vars PROVE Good'
    OBVIOUS
  <1>1. ASSUME NEW c \in Callers,
               \/ \E f \in Findings, g \in Gaps \cup {None} : Propose(c, f, g)
               \/ WriteDraft(c) \/ IndexDraft(c) \/ RankRead(c) \/ RankRename(c)
        PROVE  Good'
    BY <1>1, ProposeGood, WriteDraftGood, IndexDraftGood, RankReadGood, RankRenameGood
  <1>2. ASSUME NEW c \in Callers,
               \/ \E p \in PatchPaths \cup NewPaths : Accept(c, p)
               \/ ScanForProposal(c) \/ FinishMissingProposal(c) \/ ReadDraft(c) \/ ReadTarget(c)
        PROVE  Good'
    BY <1>2, AcceptGood, ScanGood, MissingGood, ReadDraftGood, ReadTargetGood
  <1>3. ASSUME NEW c \in Callers,
               \/ CloseLinkedGap(c) \/ GapRename(c)
               \/ SkipMarked(c) \/ AtomicWriteVerify(c) \/ AtomicWriteRename(c)
        PROVE  Good'
    BY <1>3, CloseLinkedGapGood, GapRenameGood, SkipMarkedGood, VerifyGood, WriteRenameGood
  <1>4. ASSUME NEW c \in Callers,
               \/ RemoveProposalRow(c) \/ RemoveProposalFile(c) \/ IndexAccepted(c) \/ Abandon(c)
        PROVE  Good'
    BY <1>4, RemoveRowGood, RemoveFileGood, IndexAcceptedGood, AbandonGood
  <1>5. CASE \/ \E p \in PatchPaths \cup NewPaths : UserRemoves(p)
             \/ \E t \in Targets, r \in Remarks : UserRemarks(t, r)
             \/ \E p \in PatchPaths \cup NewPaths, f \in Findings : UserEditsDraft(p, f)
             \/ \E p \in Paths : IndexPass(p)
    BY <1>5, UserRemovesGood, UserRemarksGood, UserEditsGood, IndexPassGood
  <1>6. CASE UNCHANGED vars
    <2>1. UNCHANGED <<file, caller, unindexedGap>>
      BY <1>6 DEF vars, history
    <2>2. Monotone /\ FileGood'
      BY <2>1, SameFile
    <2> QED BY <2>1, <2>2, NoCallStep
  <1> QED BY <1>1, <1>2, <1>3, <1>4, <1>5, <1>6 DEF Next

LEMMA AlwaysGood == Spec => [](AllTyped /\ Good)
  BY InitTyped, NextTyped, InitGood, NextGood, PTL DEF Spec

\* However accepts fail, die, are repeated or run side by side, and whatever
\* people edit meanwhile, no note ever carries the section of a proposal twice.
THEOREM SectionsAppendedOnce == Spec => []SectionOnce
  <1>1. Good => SectionOnce
    BY DEF Good, FileGood, OnceNote, SectionOnce
  <1> QED BY <1>1, AlwaysGood, PTL

\* No finding is applied while the gap it answers, if the index knows it, is
\* still open: the gap is closed first, and a closed gap stays closed.
THEOREM GapsClosedFirst == Spec => []AppliedClosesGap
  <1>1. ASSUME Good PROVE AppliedClosesGap
    <2>1. \A t \in Targets, p \in PatchPaths : \A s \in Sections(file[t], p) : GapDone(s.gap, p)
      BY <1>1 DEF Good, FileGood, NoteClosed
    <2>2. \A p \in NewPaths : file[p] # None /\ file[p].status = "accepted" => GapDone(file[p].gap, p)
      BY <1>1 DEF Good, FileGood, NewClosed
    <2> QED BY <2>1, <2>2 DEF AppliedClosesGap, GapDone
  <1> QED BY <1>1, AlwaysGood, PTL

----------------------------------------------------------------------------
(* Findings: every text that was kept has a place, or was raced *)

Underway == {"target", "gap", "closing", "append", "rename"}

\* an accept that has the note in its hands with the section of this patch
Has(k, q) ==
    /\ k.pc \in Holding /\ k.draft.kind = "patch"
    /\ k.draft.target = PatchOf[q].target /\ Marked(k.raw, q)

\* an accept that will remove the file of the patch next
Applied(k, q) == k.path = q /\ k.pc \in {"unrow", "unfile"}

\* an accept under way has read the finding the file holds
Knows(k, q, f) == k.path = q /\ k.pc \in Underway => k.draft.finding = f

Fine(k, q, f) == ~ Has(k, q) /\ ~ Applied(k, q) /\ Knows(k, q, f)

\* The file of a patch goes only after its finding went into the note.
Vouches(q) ==
    /\ file[q] # None /\ ~ Marked(file[PatchOf[q].target], q)
    /\ \A c \in Callers : Fine(caller[c], q, file[q].finding)

Place(p, f) == f \in Texts(file[p]) /\ (p \in PatchPaths => Vouches(p))

Stays == \A f \in kept : f \in raced \/ \E p \in Paths : Place(p, f)

\* a draft of a patch names the note its name was made for, and what a call
\* replaces is what it saw
Aimed(k) ==
    /\ k.path \in PatchPaths =>
          /\ k.draft # None => k.draft.target = PatchOf[k.path].target
          /\ k.pc = "rerank" => k.raw.target = PatchOf[k.path].target
    /\ k.pc \in {"rerank", "rename"} => k.seen = k.raw

FileAimed == \A p \in PatchPaths : file[p] # None => file[p].target = PatchOf[p].target

AllAimed == FileAimed /\ \A c \in Callers : Aimed(caller[c])

Found == Stays /\ AllAimed

LEMMA TextsAre ==
    /\ Texts(None) = {}
    /\ \A x \in Gap : Texts(x) = {}
    /\ \A x \in Patch \cup New : Texts(x) = {x.finding}
    /\ \A x \in Note :
          Texts(x) = x.text \cup UNION {{s.finding : s \in Sections(x, p)} : p \in PatchPaths}
  <1>1. Texts(None) = {}
    BY DEF Texts
  <1>2. \A x \in Gap : Texts(x) = {}
    BY Kinds DEF Texts
  <1>3. ASSUME NEW x \in Patch \cup New PROVE Texts(x) = {x.finding}
    <2>1. x # None /\ x.kind \in {"patch", "new"}
      BY Kinds
    <2> QED BY <2>1 DEF Texts
  <1>4. ASSUME NEW x \in Note
        PROVE  Texts(x) = x.text \cup UNION {{s.finding : s \in Sections(x, p)} : p \in PatchPaths}
    <2>1. x # None /\ x.kind = "note"
      BY Kinds
    <2> QED BY <2>1 DEF Texts
  <1> QED BY <1>1, <1>2, <1>3, <1>4

\* one call changes
LEMMA AimedStep ==
    ASSUME AllTyped, AllAimed, FileAimed', NEW c \in Callers, NEW m, Aimed(m),
           caller' = [caller EXCEPT ![c] = m]
    PROVE  AllAimed'
  <1>1. \A d \in Callers : caller'[d] = IF d = c THEN m ELSE caller[d]
    BY DEF AllTyped, CallsTyped
  <1>2. ASSUME NEW d \in Callers PROVE Aimed(caller'[d])
    BY <1>1 DEF AllAimed
  <1>3. \A d \in Callers : Aimed(caller[d])'
    BY <1>2 DEF Aimed
  <1> QED BY <1>3 DEF AllAimed

\* a text stays where it is
LEMMA PlaceStays ==
    ASSUME NEW r \in Paths, NEW f, Place(r, f), file'[r] = file[r],
           r \in PatchPaths => ~ Marked(file'[PatchOf[r].target], r),
           \A d \in Callers : \/ caller'[d] = caller[d]
                              \/ r \in PatchPaths => Fine(caller'[d], r, file[r].finding)
    PROVE  Place(r, f)'
  <1>1. f \in Texts(file'[r])
    BY DEF Place
  <1>2. CASE r \notin PatchPaths
    BY <1>1, <1>2 DEF Place
  <1>3. CASE r \in PatchPaths
    <2>1. \A d \in Callers : Fine(caller[d], r, file[r].finding)
      BY <1>3 DEF Place, Vouches
    <2>2. \A d \in Callers : Fine(caller'[d], r, file'[r].finding)
      BY <1>3, <2>1
    <2>3. \A d \in Callers : Fine(caller[d], r, file[r].finding)'
      BY <2>2 DEF Fine, Has, Applied, Knows, Marked
    <2>4. file'[r] # None
      BY <1>3 DEF Place, Vouches
    <2>5. Vouches(r)'
      BY <1>3, <2>3, <2>4 DEF Vouches, Marked
    <2> QED BY <1>1, <2>5 DEF Place
  <1> QED BY <1>2, <1>3

\* one file changes
LEMMA Elsewhere ==
    ASSUME AllTyped, NEW p \in Paths, NEW x, file' = [file EXCEPT ![p] = x],
           NEW r \in Paths, r # p, NEW f, Place(r, f),
           r \in PatchPaths /\ PatchOf[r].target = p => ~ Marked(x, r),
           \A d \in Callers : \/ caller'[d] = caller[d]
                              \/ r \in PatchPaths => Fine(caller'[d], r, file[r].finding)
    PROVE  Place(r, f)'
  <1>1. \A q \in Paths : file'[q] = IF q = p THEN x ELSE file[q]
    BY DEF AllTyped, Typed
  <1>2. r \in PatchPaths => ~ Marked(file'[PatchOf[r].target], r)
    <2> SUFFICES ASSUME r \in PatchPaths PROVE ~ Marked(file'[PatchOf[r].target], r)
      OBVIOUS
    <2>1. PICK t : t = PatchOf[r].target
      OBVIOUS
    <2>2. t \in Paths /\ ~ Marked(file[t], r)
      BY <2>1, Names DEF Place, Vouches
    <2>3. CASE t = p
      BY <1>1, <2>1, <2>2, <2>3
    <2>4. CASE t # p
      BY <1>1, <2>1, <2>2, <2>4
    <2> QED BY <2>3, <2>4
  <1> QED BY <1>1, <1>2, PlaceStays

\* what has to be shown of a step
LEMMA StaysStep ==
    ASSUME Stays, raced \subseteq raced',
           \A f \in kept' \ kept : f \in raced' \/ \E p \in Paths : Place(p, f)',
           \A r \in Paths : \A f \in kept \cap kept' :
              Place(r, f) => f \in raced' \/ \E p \in Paths : Place(p, f)'
    PROVE  Stays'
  <1>1. ASSUME NEW f \in kept' PROVE f \in raced' \/ \E p \in Paths : Place(p, f)'
    BY DEF Stays
  <1> QED BY <1>1 DEF Stays

\* a step of one call that touches no file
LEMMA QuietStep ==
    ASSUME AllTyped, Found, UNCHANGED <<file, kept, raced>>, NEW c \in Callers, NEW m, Aimed(m),
           caller' = [caller EXCEPT ![c] = m],
           \A q \in PatchPaths : Vouches(q) => Fine(m, q, file[q].finding)
    PROVE  Found'
  <1>1. FileAimed'
    BY DEF Found, AllAimed, FileAimed
  <1>2. AllAimed'
    BY <1>1, AimedStep DEF Found
  <1>3. \A d \in Callers : caller'[d] = IF d = c THEN m ELSE caller[d]
    BY DEF AllTyped, CallsTyped
  <1>4. ASSUME NEW r \in Paths, NEW f, Place(r, f) PROVE Place(r, f)'
    <2>1. r \in PatchPaths => Vouches(r) /\ ~ Marked(file'[PatchOf[r].target], r)
      BY <1>4 DEF Place, Vouches
    <2>2. \A d \in Callers : \/ caller'[d] = caller[d]
                             \/ r \in PatchPaths => Fine(caller'[d], r, file[r].finding)
      BY <1>3, <2>1
    <2> QED BY <1>4, <2>1, <2>2, PlaceStays
  <1>5. Stays'
    BY <1>4, StaysStep DEF Found
  <1> QED BY <1>2, <1>5 DEF Found

\* a call that moves on holds what it held
LEMMA GotoFine ==
    ASSUME NEW k \in Call, NEW pc \in Steps, NEW q, NEW f, Fine(k, q, f),
           pc \in Holding => k.pc \in Holding,
           pc \in Underway => k.pc \in Underway,
           pc \in {"unrow", "unfile"} /\ k.path = q => k.pc \in {"unrow", "unfile"} \/ Has(k, q)
    PROVE  Fine([k EXCEPT !.pc = pc], q, f)
  <1>1. PICK m : m = [k EXCEPT !.pc = pc]
    OBVIOUS
  <1>2. m.pc = pc /\ m.path = k.path /\ m.draft = k.draft /\ m.raw = k.raw
    BY <1>1, Moved
  <1>3. ~ Has(m, q)
    BY <1>2 DEF Fine, Has
  <1>4. ~ Applied(m, q)
    BY <1>2 DEF Fine, Applied
  <1>5. Knows(m, q, f)
    BY <1>2 DEF Fine, Knows
  <1> QED BY <1>1, <1>3, <1>4, <1>5 DEF Fine

LEMMA GotoAimed ==
    ASSUME NEW k \in Call, NEW pc \in Steps \ {"rerank", "rename"}, Aimed(k)
    PROVE  Aimed([k EXCEPT !.pc = pc])
  <1>1. PICK m : m = [k EXCEPT !.pc = pc]
    OBVIOUS
  <1>2. m.pc = pc /\ m.path = k.path /\ m.draft = k.draft /\ m.raw = k.raw
    BY <1>1, Moved
  <1>3. Aimed(m)
    BY <1>2 DEF Aimed
  <1> QED BY <1>1, <1>3

LEMMA GotoQuiet ==
    ASSUME AllTyped, Found, UNCHANGED <<file, kept, raced>>, NEW c \in Callers,
           NEW pc \in Steps \ {"rerank", "rename"}, Goto(c, pc),
           pc \in Holding => caller[c].pc \in Holding,
           pc \in Underway => caller[c].pc \in Underway,
           pc \in {"unrow", "unfile"} =>
              caller[c].pc \in {"unrow", "unfile"} \/ Has(caller[c], caller[c].path)
    PROVE  Found'
  <1>1. PICK k : k = caller[c]
    OBVIOUS
  <1>2. k \in Call /\ Aimed(k)
    BY <1>1, CallGives DEF Found, AllAimed
  <1>3. PICK m : m = [k EXCEPT !.pc = pc]
    OBVIOUS
  <1>4. Aimed(m)
    BY <1>2, <1>3, GotoAimed
  <1>5. ASSUME NEW q \in PatchPaths, Vouches(q) PROVE Fine(m, q, file[q].finding)
    <2>1. Fine(k, q, file[q].finding)
      BY <1>1, <1>5 DEF Vouches
    <2> QED BY <1>1, <1>2, <1>3, <2>1, GotoFine
  <1>6. caller' = [caller EXCEPT ![c] = m]
    BY <1>1, <1>3 DEF Goto
  <1> QED BY <1>4, <1>5, <1>6, QuietStep

LEMMA IdleFine == Aimed(Idle) /\ \A q, f : Fine(Idle, q, f)
  <1>1. Idle.pc = "idle" /\ Idle.path = None
    BY DEF Idle, At
  <1>2. None \notin PatchPaths
    BY Kinds, Names
  <1>3. Aimed(Idle)
    BY <1>1, <1>2 DEF Aimed
  <1>4. \A q, f : Fine(Idle, q, f)
    BY <1>1 DEF Fine, Has, Applied, Knows, Holding, Underway
  <1> QED BY <1>3, <1>4

LEMMA FinishQuiet ==
    ASSUME AllTyped, Found, UNCHANGED <<file, kept, raced>>, NEW c \in Callers, Finish(c)
    PROVE  Found'
  <1>1. PICK m : m = Idle
    OBVIOUS
  <1>2. Aimed(m) /\ \A q, f : Fine(m, q, f)
    BY <1>1, IdleFine
  <1>3. caller' = [caller EXCEPT ![c] = m]
    BY <1>1 DEF Finish
  <1> QED BY <1>2, <1>3, QuietStep

----------------------------------------------------------------------------
(* Findings: propose *)

LEMMA ProposeFound ==
    ASSUME AllTyped, Found, NEW c \in Callers, NEW f \in Findings, NEW g \in Gaps \cup {None},
           Propose(c, f, g)
    PROVE  Found'
  <1>1. UNCHANGED <<file, kept, raced>>
    BY DEF Propose, history
  <1>2. ASSUME NEW p \in PatchPaths \cup NewPaths, NEW x,
               p \in PatchPaths => x.target = PatchOf[p].target,
               caller' = [caller EXCEPT ![c] = At("write", p, x)]
        PROVE  Found'
    <2>1. PICK m : m = At("write", p, x)
      OBVIOUS
    <2>2. m.pc = "write" /\ m.path = p /\ m.draft = x
      BY <2>1 DEF At
    <2>3. Aimed(m)
      BY <1>2, <2>2 DEF Aimed
    <2>4. \A q, h : Fine(m, q, h)
      BY <2>2 DEF Fine, Has, Applied, Knows, Holding, Underway
    <2> QED BY <1>1, <1>2, <2>1, <2>3, <2>4, QuietStep
  <1>3. CASE \E p \in PatchPaths :
                caller' = [caller EXCEPT ![c] = At("write", p,
                   [kind |-> "patch", finding |-> f, gap |-> g, target |-> PatchOf[p].target])]
    <2>1. PICK p \in PatchPaths :
             caller' = [caller EXCEPT ![c] = At("write", p,
                   [kind |-> "patch", finding |-> f, gap |-> g, target |-> PatchOf[p].target])]
      BY <1>3
    <2> QED BY <1>2, <2>1
  <1>4. CASE \E p \in NewPaths :
                caller' = [caller EXCEPT ![c] = At("write", p,
                   [kind |-> "new", finding |-> f, gap |-> g, status |-> "draft"])]
    <2>1. PICK p \in NewPaths :
             caller' = [caller EXCEPT ![c] = At("write", p,
                   [kind |-> "new", finding |-> f, gap |-> g, status |-> "draft"])]
      BY <1>4
    <2> QED BY <1>2, <2>1, Names
  <1> QED BY <1>3, <1>4 DEF Propose

\* no accept is under way for a patch that comes in time
LEMMA NotLate ==
    ASSUME NEW p \in PatchPaths, ~ Late(p), NEW c \in Callers, NEW f
    PROVE  Fine(caller[c], p, f) /\ ~ Marked(file[PatchOf[p].target], p)
  <1>1. ~ Marked(file[PatchOf[p].target], p)
    BY DEF Late
  <1>2. ~ Has(caller[c], p)
    BY DEF Late, Holds, Has, Holding
  <1>3. ~ (caller[c].path = p /\ caller[c].pc \in
             {"target", "gap", "closing", "append", "rename", "unrow", "unfile"})
    BY DEF Late
  <1>4. ~ Applied(caller[c], p) /\ Knows(caller[c], p, f)
    BY <1>3 DEF Applied, Knows, Underway
  <1> QED BY <1>1, <1>2, <1>4 DEF Fine

\* a draft that comes in time is a place for its finding
LEMMA DraftPlaced ==
    ASSUME AllTyped, NEW p \in PatchPaths \cup NewPaths, NEW x \in DraftAt(p),
           file' = [file EXCEPT ![p] = x], ~ Late(p),
           \A d \in Callers : caller'[d] = caller[d] \/ \A q, f : Fine(caller'[d], q, f)
    PROVE  Place(p, x.finding)'
  <1>1. p \in Paths /\ p \notin Targets
    BY Names
  <1>2. \A q \in Paths : file'[q] = IF q = p THEN x ELSE file[q]
    BY <1>1 DEF AllTyped, Typed
  <1>3. Texts(x) = {x.finding}
    BY TextsAre DEF DraftAt
  <1>4. x.finding \in Texts(file'[p])
    BY <1>1, <1>2, <1>3
  <1>5. CASE p \notin PatchPaths
    BY <1>4, <1>5 DEF Place
  <1>6. CASE p \in PatchPaths
    <2>1. PICK t : t = PatchOf[p].target
      OBVIOUS
    <2>2. t \in Paths /\ t # p
      BY <1>1, <1>6, <2>1, Names
    <2>3. ASSUME NEW d \in Callers PROVE Fine(caller'[d], p, file'[p].finding)
      BY <1>6, NotLate
    <2>4. \A d \in Callers : Fine(caller[d], p, file[p].finding)'
      BY <2>3 DEF Fine, Has, Applied, Knows, Marked
    <2>5. ~ Marked(file'[t], p)
      <3>1. file'[t] = file[t]
        BY <1>2, <2>2
      <3> QED BY <1>6, <2>1, <3>1 DEF Late
    <2>6. file'[p] # None
      BY <1>1, <1>2, Kinds DEF DraftAt
    <2>7. Vouches(p)'
      BY <2>1, <2>4, <2>5, <2>6 DEF Vouches, Marked
    <2> QED BY <1>4, <2>7 DEF Place
  <1> QED BY <1>5, <1>6

\* a draft is written where the name says it belongs
LEMMA FileAimedSet ==
    ASSUME AllTyped, FileAimed, NEW p \in Paths, NEW x, file' = [file EXCEPT ![p] = x],
           p \in PatchPaths /\ x # None => x.target = PatchOf[p].target
    PROVE  FileAimed'
  <1>1. \A q \in Paths : file'[q] = IF q = p THEN x ELSE file[q]
    BY DEF AllTyped, Typed
  <1>2. ASSUME NEW q \in PatchPaths, file'[q] # None PROVE file'[q].target = PatchOf[q].target
    <2>1. q \in Paths
      BY Names
    <2>2. CASE q = p
      BY <1>1, <1>2, <2>1, <2>2
    <2>3. CASE q # p
      BY <1>1, <1>2, <2>1, <2>3 DEF FileAimed
    <2> QED BY <2>2, <2>3
  <1> QED BY <1>2 DEF FileAimed

LEMMA WriteDraftFound ==
    ASSUME AllTyped, Found, NEW c \in Callers, WriteDraft(c)
    PROVE  Found'
  <1>1. PICK k : k = caller[c]
    OBVIOUS
  <1>2. PICK m : m = [k EXCEPT !.pc = "index"]
    OBVIOUS
  <1>3. /\ k \in Call /\ Aimed(k) /\ k.pc = "write"
        /\ k.path \in PatchPaths \cup NewPaths /\ k.draft \in DraftAt(k.path)
    BY <1>1, CallGives DEF CallTyped, WriteDraft, Found, AllAimed
  <1>4. /\ file' = [file EXCEPT ![k.path] = k.draft]
        /\ kept' = kept \cup Texts(k.draft)
        /\ raced' = raced \cup Texts(file[k.path]) \cup (IF Late(k.path) THEN Texts(k.draft) ELSE {})
        /\ caller' = [caller EXCEPT ![c] = m]
    BY <1>1, <1>2 DEF WriteDraft, Goto
  <1>5. k.path \in Paths /\ k.path \notin Targets /\ k.draft # None
    BY <1>3, Names, Kinds DEF DraftAt
  <1>6. m.pc = "index" /\ Aimed(m)
    BY <1>2, <1>3, Moved, GotoAimed DEF Steps
  <1>7. \A q, f : Fine(m, q, f)
    BY <1>6 DEF Fine, Has, Applied, Knows, Holding, Underway
  <1>8. \A d \in Callers : caller'[d] = caller[d] \/ \A q, f : Fine(caller'[d], q, f)
    BY <1>4, <1>7 DEF AllTyped, CallsTyped
  <1>9. AllAimed'
    <2>1. k.path \in PatchPaths => k.draft.target = PatchOf[k.path].target
      BY <1>3, <1>5 DEF Aimed
    <2>2. FileAimed'
      BY <1>4, <1>5, <2>1, FileAimedSet DEF Found, AllAimed
    <2> QED BY <1>4, <1>6, <2>2, AimedStep DEF Found
  <1>10. ASSUME NEW f \in kept' \ kept PROVE f \in raced' \/ \E p \in Paths : Place(p, f)'
    <2>1. f \in Texts(k.draft) /\ f = k.draft.finding
      BY <1>3, <1>4, <1>10, TextsAre DEF DraftAt
    <2>2. CASE Late(k.path)
      BY <1>4, <2>1, <2>2
    <2>3. CASE ~ Late(k.path)
      BY <1>3, <1>4, <1>5, <1>8, <2>1, <2>3, DraftPlaced
    <2> QED BY <2>2, <2>3
  <1>11. ASSUME NEW r \in Paths, NEW f \in kept, Place(r, f)
         PROVE  f \in raced' \/ \E p \in Paths : Place(p, f)'
    <2>1. CASE r = k.path
      BY <1>4, <1>11, <2>1 DEF Place
    <2>2. CASE r # k.path
      <3>1. r \in PatchPaths => PatchOf[r].target # k.path
        BY <1>5, Names
      <3>2. \A d \in Callers : \/ caller'[d] = caller[d]
                               \/ r \in PatchPaths => Fine(caller'[d], r, file[r].finding)
        BY <1>8
      <3>3. Place(r, f)'
        BY <1>4, <1>5, <1>11, <2>2, <3>1, <3>2, Elsewhere
      <3> QED BY <3>3
    <2> QED BY <2>1, <2>2
  <1>12. Stays'
    <2>1. raced \subseteq raced'
      BY <1>4
    <2> QED BY <1>10, <1>11, <2>1, StaysStep DEF Found
  <1> QED BY <1>9, <1>12 DEF Found

LEMMA IndexDraftFound ==
    ASSUME AllTyped, Found, NEW c \in Callers, IndexDraft(c)
    PROVE  Found'
  BY GotoQuiet DEF IndexDraft, history, Steps, Holding, Underway

LEMMA RankReadFound ==
    ASSUME AllTyped, Found, NEW c \in Callers, RankRead(c)
    PROVE  Found'
  <1>1. PICK k, x : k = caller[c] /\ x = file[k.path]
    OBVIOUS
  <1>2. k \in Call /\ Aimed(k) /\ x # None
    BY <1>1, CallGives DEF RankRead, Found, AllAimed
  <1>3. PICK m : m = [k EXCEPT !.pc = "rerank", !.raw = x, !.seen = x]
    OBVIOUS
  <1>4. m.pc = "rerank" /\ m.path = k.path /\ m.draft = k.draft /\ m.raw = x /\ m.seen = x
    BY <1>2, <1>3 DEF Call
  <1>5. k.path \in PatchPaths => x.target = PatchOf[k.path].target
    BY <1>1, <1>2 DEF Found, AllAimed, FileAimed
  <1>6. Aimed(m)
    BY <1>2, <1>4, <1>5 DEF Aimed
  <1>7. \A q, f : Fine(m, q, f)
    BY <1>4 DEF Fine, Has, Applied, Knows, Holding, Underway
  <1>8. caller' = [caller EXCEPT ![c] = m] /\ UNCHANGED <<file, kept, raced>>
    BY <1>1, <1>3 DEF RankRead, history
  <1> QED BY <1>6, <1>7, <1>8, QuietStep

LEMMA RankRenameFound ==
    ASSUME AllTyped, Found, NEW c \in Callers, RankRename(c)
    PROVE  Found'
  <1>1. PICK k : k = caller[c]
    OBVIOUS
  <1>2. PICK m : m = Idle
    OBVIOUS
  <1>3. /\ k \in Call /\ Aimed(k) /\ k.pc = "rerank"
        /\ k.path \in PatchPaths \cup NewPaths /\ k.raw \in DraftAt(k.path)
    BY <1>1, CallGives DEF CallTyped, RankRename, Found, AllAimed
  <1>4. /\ file' = [file EXCEPT ![k.path] = k.raw] /\ kept' = kept
        /\ raced' = raced \cup (Texts(file[k.path]) \ Texts(k.raw))
        /\ caller' = [caller EXCEPT ![c] = m]
    BY <1>1, <1>2, <1>3 DEF RankRename, Finish, Blind, Aimed
  <1>5. k.path \in Paths /\ k.path \notin Targets
    BY <1>3, Names
  <1>6. Aimed(m) /\ \A q, f : Fine(m, q, f)
    BY <1>2, IdleFine
  <1>7. \A d \in Callers : caller'[d] = caller[d] \/ \A q, f : Fine(caller'[d], q, f)
    BY <1>4, <1>6 DEF AllTyped, CallsTyped
  <1>8. AllAimed'
    <2>1. k.path \in PatchPaths => k.raw.target = PatchOf[k.path].target
      BY <1>3 DEF Aimed
    <2>2. FileAimed'
      BY <1>4, <1>5, <2>1, FileAimedSet DEF Found, AllAimed
    <2> QED BY <1>4, <1>6, <2>2, AimedStep DEF Found
  <1>9. ASSUME NEW r \in Paths, NEW f \in kept, Place(r, f)
        PROVE  f \in raced' \/ \E p \in Paths : Place(p, f)'
    <2>1. CASE r = k.path
      <3>1. f \in Texts(file[r])
        BY <1>9 DEF Place
      <3>2. CASE f \notin Texts(k.raw)
        BY <1>4, <2>1, <3>1, <3>2
      <3>3. CASE f \in Texts(k.raw)
        <4>1. file'[r] = k.raw
          BY <1>4, <1>5, <2>1 DEF AllTyped, Typed
        <4>2. r \notin PatchPaths => Place(r, f)'
          BY <3>3, <4>1 DEF Place
        <4>3. r \in PatchPaths => Place(r, f)'
          <5> SUFFICES ASSUME r \in PatchPaths PROVE Place(r, f)'
            OBVIOUS
          <5>1. file[r] \in Patch \cup {None} /\ k.raw \in Patch
            BY <1>3, <2>1, TypedGives DEF AllTyped, DraftAt
          <5>2. file[r].finding = f /\ k.raw.finding = f /\ k.raw # None
            BY <3>1, <3>3, <5>1, TextsAre, Kinds
          <5>3. PICK t : t = PatchOf[r].target
            OBVIOUS
          <5>4. t \in Paths /\ file'[t] = file[t]
            BY <1>4, <1>5, <5>3, Names DEF AllTyped, Typed
          <5>5. \A d \in Callers : Fine(caller'[d], r, f)
            BY <1>7, <1>9, <5>2 DEF Place, Vouches
          <5>6. \A d \in Callers : Fine(caller[d], r, file[r].finding)'
            BY <4>1, <5>2, <5>5 DEF Fine, Has, Applied, Knows, Marked
          <5>7. ~ Marked(file'[t], r)
            BY <1>9, <5>3, <5>4 DEF Place, Vouches
          <5>8. Vouches(r)'
            BY <4>1, <5>2, <5>3, <5>6, <5>7 DEF Vouches, Marked
          <5> QED BY <3>3, <4>1, <5>8 DEF Place
        <4> QED BY <4>2, <4>3
      <3> QED BY <3>2, <3>3
    <2>2. CASE r # k.path
      <3>1. r \in PatchPaths => PatchOf[r].target # k.path
        BY <1>5, Names
      <3>2. Place(r, f)'
        BY <1>4, <1>5, <1>7, <1>9, <2>2, <3>1, Elsewhere
      <3> QED BY <3>2
    <2> QED BY <2>1, <2>2
  <1>10. Stays'
    BY <1>4, <1>9, StaysStep DEF Found
  <1> QED BY <1>8, <1>10 DEF Found

----------------------------------------------------------------------------
(* Findings: accept *)

LEMMA AcceptFound ==
    ASSUME AllTyped, Found, NEW c \in Callers, NEW p \in PatchPaths \cup NewPaths, Accept(c, p)
    PROVE  Found'
  <1>1. PICK pc \in {"read", "scan"} : caller' = [caller EXCEPT ![c] = At(pc, p, None)]
    BY DEF Accept
  <1>2. PICK m : m = At(pc, p, None)
    OBVIOUS
  <1>3. m.pc = pc /\ m.draft = None
    BY <1>2 DEF At
  <1>4. Aimed(m)
    BY <1>3 DEF Aimed
  <1>5. \A q, f : Fine(m, q, f)
    BY <1>3 DEF Fine, Has, Applied, Knows, Holding, Underway
  <1> QED BY <1>1, <1>2, <1>4, <1>5, QuietStep DEF Accept, history

LEMMA ScanFound ==
    ASSUME AllTyped, Found, NEW c \in Callers, ScanForProposal(c)
    PROVE  Found'
  BY GotoQuiet DEF ScanForProposal, history, Steps, Holding, Underway

LEMMA MissingFound ==
    ASSUME AllTyped, Found, NEW c \in Callers, FinishMissingProposal(c)
    PROVE  Found'
  BY FinishQuiet DEF FinishMissingProposal, history

\* an accept reads the finding the file holds
LEMMA ReadDraftFound ==
    ASSUME AllTyped, Found, NEW c \in Callers, ReadDraft(c)
    PROVE  Found'
  <1>1. PICK k, x : k = caller[c] /\ x = file[k.path]
    OBVIOUS
  <1>2. /\ k \in Call /\ Aimed(k) /\ k.pc = "read" /\ k.path \in PatchPaths \cup NewPaths
        /\ isDraft(x)
    BY <1>1, CallGives DEF CallTyped, ReadDraft, Found, AllAimed
  <1>3. x # None /\ (isPatch(x) <=> k.path \in PatchPaths) /\ (x.kind = "patch" <=> isPatch(x))
    <2>1. k.path \in PatchPaths => x \in Patch
      BY <1>1, <1>2, TypedGives DEF AllTyped, isDraft
    <2>2. k.path \notin PatchPaths => x \in New
      BY <1>1, <1>2, TypedGives DEF AllTyped, isDraft
    <2> QED BY <1>2, <2>1, <2>2, Kinds DEF isDraft, isPatch
  <1>4. PICK pc, raw : /\ pc = (IF isPatch(x) THEN "target" ELSE "gap")
                       /\ raw = (IF isPatch(x) THEN None ELSE x)
    OBVIOUS
  <1>5. PICK m : m = [k EXCEPT !.draft = x, !.raw = raw, !.pc = pc]
    OBVIOUS
  <1>6. m.pc = pc /\ m.path = k.path /\ m.draft = x /\ m.raw = raw
    BY <1>2, <1>5 DEF Call
  <1>7. Aimed(m)
    <2>1. k.path \in PatchPaths => x.target = PatchOf[k.path].target
      BY <1>1, <1>3 DEF Found, AllAimed, FileAimed
    <2> QED BY <1>4, <1>6, <2>1 DEF Aimed
  <1>8. ASSUME NEW q \in PatchPaths PROVE Fine(m, q, file[q].finding)
    <2>1. ~ Has(m, q)
      BY <1>3, <1>4, <1>6 DEF Has, Holding
    <2>2. ~ Applied(m, q)
      BY <1>4, <1>6 DEF Applied
    <2>3. Knows(m, q, file[q].finding)
      BY <1>1, <1>6 DEF Knows
    <2> QED BY <2>1, <2>2, <2>3 DEF Fine
  <1>9. caller' = [caller EXCEPT ![c] = m] /\ UNCHANGED <<file, kept, raced>>
    BY <1>1, <1>4, <1>5 DEF ReadDraft, history
  <1> QED BY <1>7, <1>8, <1>9, QuietStep

\* the sections an accept reads are in the note
LEMMA ReadTargetFound ==
    ASSUME AllTyped, Found, NEW c \in Callers, ReadTarget(c)
    PROVE  Found'
  <1>1. PICK k, t, x : k = caller[c] /\ t = k.draft.target /\ x = file[t]
    OBVIOUS
  <1>2. /\ k \in Call /\ Aimed(k) /\ k.pc = "target" /\ k.path \in PatchPaths
        /\ k.draft \in DraftAt(k.path)
    BY <1>1, CallGives DEF CallTyped, ReadTarget, Found, AllAimed
  <1>3. PICK m : m = [k EXCEPT !.raw = x, !.pc = "gap"]
    OBVIOUS
  <1>4. m.pc = "gap" /\ m.path = k.path /\ m.draft = k.draft /\ m.raw = x
    BY <1>2, <1>3 DEF Call
  <1>5. Aimed(m)
    BY <1>2, <1>4 DEF Aimed
  <1>6. ASSUME NEW q \in PatchPaths, Vouches(q) PROVE Fine(m, q, file[q].finding)
    <2>1. Fine(k, q, file[q].finding) /\ ~ Marked(file[PatchOf[q].target], q)
      BY <1>1, <1>6 DEF Vouches
    <2>2. ~ Has(m, q)
      BY <1>1, <1>4, <2>1 DEF Has
    <2>3. ~ Applied(m, q)
      BY <1>4 DEF Applied
    <2>4. Knows(m, q, file[q].finding)
      BY <1>2, <1>4, <2>1 DEF Fine, Knows, Underway
    <2> QED BY <2>2, <2>3, <2>4 DEF Fine
  <1>7. caller' = [caller EXCEPT ![c] = m] /\ UNCHANGED <<file, kept, raced>>
    BY <1>1, <1>3 DEF ReadTarget, history
  <1> QED BY <1>5, <1>6, <1>7, QuietStep

LEMMA CloseLinkedGapFound ==
    ASSUME AllTyped, Found, NEW c \in Callers, CloseLinkedGap(c)
    PROVE  Found'
  <1>1. UNCHANGED <<file, kept, raced>> /\ caller[c].pc = "gap"
    BY DEF CloseLinkedGap
  <1>2. PICK pc \in {"append", "closing"} : Goto(c, pc)
    BY DEF CloseLinkedGap
  <1> QED BY <1>1, <1>2, GotoQuiet DEF Steps, Holding, Underway

LEMMA GapRenameFound ==
    ASSUME AllTyped, Found, NEW c \in Callers, GapRename(c)
    PROVE  Found'
  <1>1. PICK k, x : k = caller[c] /\ x = [kind |-> "gap", status |-> "closed", by |-> ClosedBy(c)]
    OBVIOUS
  <1>2. PICK m : m = [k EXCEPT !.pc = "append"]
    OBVIOUS
  <1>3. /\ k \in Call /\ Aimed(k) /\ k.pc = "closing" /\ k.draft.gap \in Gaps
        /\ k.draft.gap \in Paths /\ k.draft.gap \notin PatchPaths
    BY <1>1, CallGives, Names DEF CallTyped, GapRename, Found, AllAimed
  <1>4. /\ file' = [file EXCEPT ![k.draft.gap] = x] /\ UNCHANGED <<kept, raced>>
        /\ caller' = [caller EXCEPT ![c] = m]
    BY <1>1, <1>2 DEF GapRename, Goto, history
  <1>5. Aimed(m)
    BY <1>2, <1>3, GotoAimed DEF Steps
  <1>6. AllAimed'
    <2>1. FileAimed'
      BY <1>3, <1>4, FileAimedSet DEF Found, AllAimed
    <2> QED BY <1>4, <1>5, <2>1, AimedStep DEF Found
  <1>7. ASSUME NEW r \in Paths, NEW f \in kept, Place(r, f) PROVE Place(r, f)'
    <2>1. r # k.draft.gap
      <3>1. Texts(file[k.draft.gap]) = {}
        BY <1>3, TypedGives, TextsAre DEF AllTyped
      <3> QED BY <1>7, <3>1 DEF Place
    <2>2. r \in PatchPaths => PatchOf[r].target # k.draft.gap
      BY <1>3, Names
    <2>3. r \in PatchPaths => Fine(m, r, file[r].finding)
      <3> SUFFICES ASSUME r \in PatchPaths PROVE Fine(m, r, file[r].finding)
        OBVIOUS
      <3>1. Fine(k, r, file[r].finding)
        BY <1>1, <1>7 DEF Place, Vouches
      <3> QED BY <1>2, <1>3, <3>1, GotoFine DEF Steps, Holding, Underway
    <2>4. \A d \in Callers : \/ caller'[d] = caller[d]
                             \/ r \in PatchPaths => Fine(caller'[d], r, file[r].finding)
      BY <1>4, <2>3 DEF AllTyped, CallsTyped
    <2> QED BY <1>3, <1>4, <1>7, <2>1, <2>2, <2>4, Elsewhere
  <1>8. Stays'
    BY <1>4, <1>7, StaysStep DEF Found
  <1> QED BY <1>6, <1>8 DEF Found

\* an accept that skips the note has read it with the section of its patch
LEMMA SkipMarkedFound ==
    ASSUME AllTyped, Found, NEW c \in Callers, SkipMarked(c)
    PROVE  Found'
  <1>1. PICK k : k = caller[c]
    OBVIOUS
  <1>2. /\ k.pc = "append" /\ k.draft.kind = "patch" /\ Marked(k.raw, k.path) /\ Aimed(k)
        /\ k.path \in PatchPaths /\ k.draft \in DraftAt(k.path)
    BY <1>1, Accepting DEF SkipMarked, Found, AllAimed
  <1>3. k.draft.target = PatchOf[k.path].target
    BY <1>2, Kinds DEF Aimed, DraftAt
  <1>4. Has(k, k.path)
    BY <1>2, <1>3 DEF Has, Holding
  <1> QED BY <1>1, <1>4, GotoQuiet DEF SkipMarked, history, Steps, Holding, Underway

LEMMA VerifyFound ==
    ASSUME AllTyped, Found, NEW c \in Callers, AtomicWriteVerify(c)
    PROVE  Found'
  <1>1. PICK k, x : k = caller[c] /\ x = file[Rewritten(c)]
    OBVIOUS
  <1>2. k \in Call /\ Aimed(k) /\ k.pc = "append" /\ x = k.raw
    BY <1>1, CallGives DEF AtomicWriteVerify, Found, AllAimed
  <1>3. PICK m : m = [k EXCEPT !.pc = "rename", !.seen = x]
    OBVIOUS
  <1>4. m.pc = "rename" /\ m.path = k.path /\ m.draft = k.draft /\ m.raw = k.raw /\ m.seen = x
    BY <1>2, <1>3 DEF Call
  <1>5. Aimed(m)
    BY <1>2, <1>4 DEF Aimed
  <1>6. ASSUME NEW q \in PatchPaths, Vouches(q) PROVE Fine(m, q, file[q].finding)
    <2>1. Fine(k, q, file[q].finding)
      BY <1>1, <1>6 DEF Vouches
    <2> QED BY <1>2, <1>4, <2>1 DEF Fine, Has, Applied, Knows, Holding, Underway
  <1>7. caller' = [caller EXCEPT ![c] = m] /\ UNCHANGED <<file, kept, raced>>
    BY <1>1, <1>3 DEF AtomicWriteVerify, history
  <1> QED BY <1>5, <1>6, <1>7, QuietStep

\* what an append does to a note: the finding is there, and nothing else is new
LEMMA AppendTexts ==
    ASSUME NEW x \in Note, NEW p \in PatchPaths, NEW d \in Patch
    PROVE  LET y == appendSection(x, p, d) IN
           /\ y \in Note /\ Texts(x) \subseteq Texts(y) /\ d.finding \in Texts(y)
           /\ \A q \in PatchPaths : q # p /\ Marked(y, q) => Marked(x, q)
  <1>1. PICK y, s : y = appendSection(x, p, d) /\ s = [finding |-> d.finding, gap |-> d.gap]
    OBVIOUS
  <1>2. y \in Note /\ y.sections = [x.sections EXCEPT ![p] = Append(@, s)]
    BY <1>1, AppendTyped
  <1>3. y.text = x.text
    <2>1. PICK ss : ss = [x.sections EXCEPT ![p] = Append(@, s)]
      OBVIOUS
    <2>2. y = [x EXCEPT !.sections = ss]
      BY <1>1, <2>1 DEF appendSection
    <2> QED BY <2>2 DEF Note
  <1>4. x.sections \in [PatchPaths -> Seq(Section)] /\ s \in Section
    BY <1>1, Kinds DEF Note, Section
  <1>5. \A q \in PatchPaths : q # p => y.sections[q] = x.sections[q]
    BY <1>2, <1>4
  <1>6. y.sections[p] = Append(x.sections[p], s) /\ x.sections[p] \in Seq(Section)
    BY <1>2, <1>4
  <1>7. PICK n \in Nat : n = Len(x.sections[p])
    BY <1>6
  <1>8. /\ DOMAIN y.sections[p] = 1..(n + 1) /\ DOMAIN x.sections[p] = 1..n
        /\ y.sections[p][n + 1] = s
        /\ \A i \in 1..n : y.sections[p][i] = x.sections[p][i]
    BY <1>4, <1>6, <1>7
  <1>9. s \in Sections(y, p)
    BY <1>8 DEF Sections
  <1>10. ASSUME NEW q \in PatchPaths, NEW z \in Sections(x, q) PROVE z \in Sections(y, q)
    <2>1. CASE q = p
      <3>1. PICK i \in 1..n : z = x.sections[p][i]
        BY <1>8, <2>1 DEF Sections
      <3>2. i \in 1..(n + 1) /\ z = y.sections[p][i]
        BY <1>8, <3>1
      <3> QED BY <1>8, <2>1, <3>2 DEF Sections
    <2>2. CASE q # p
      BY <1>5, <2>2 DEF Sections
    <2> QED BY <2>1, <2>2
  <1>11. Texts(y) = y.text \cup UNION {{z.finding : z \in Sections(y, q)} : q \in PatchPaths}
    BY <1>2, TextsAre
  <1>12. Texts(x) = x.text \cup UNION {{z.finding : z \in Sections(x, q)} : q \in PatchPaths}
    BY TextsAre
  <1>13. Texts(x) \subseteq Texts(y)
    BY <1>3, <1>10, <1>11, <1>12
  <1>14. s.finding = d.finding
    BY <1>1
  <1>15. d.finding \in Texts(y)
    BY <1>9, <1>11, <1>14
  <1>16. \A q \in PatchPaths : q # p /\ Marked(y, q) => Marked(x, q)
    BY <1>5 DEF Marked
  <1> QED BY <1>1, <1>2, <1>13, <1>15, <1>16

\* The finding goes into the note before its file may go; no other patch is
\* marked by it that was not marked in the hands of the call.
LEMMA PatchRenameFound ==
    ASSUME AllTyped, Found, NEW c \in Callers, AtomicWriteRename(c), caller[c].draft.kind = "patch"
    PROVE  Found'
  <1>1. PICK k : k = caller[c]
    OBVIOUS
  <1>2. /\ k \in Call /\ Aimed(k) /\ k.pc = "rename" /\ k.draft.kind = "patch"
        /\ k.path \in PatchPaths /\ k.draft \in DraftAt(k.path) /\ k.raw \in Note
        /\ k.draft.target \in Targets
    BY <1>1, Accepting DEF AtomicWriteRename, Found, AllAimed
  <1>3. PICK t, x, m : /\ t = k.draft.target /\ x = appendSection(k.raw, k.path, k.draft)
                       /\ m = [k EXCEPT !.pc = "unrow"]
    OBVIOUS
  <1>4. k.draft \in Patch /\ t \in Paths /\ t \notin PatchPaths /\ t = PatchOf[k.path].target
    BY <1>2, <1>3, Names, Kinds DEF DraftAt, Aimed
  <1>5. /\ file' = [file EXCEPT ![t] = x] /\ kept' = kept
        /\ caller' = [caller EXCEPT ![c] = m]
        /\ raced' = raced \cup (Texts(file[t]) \ Texts(k.raw))
    <2>1. Rewritten(c) = t /\ k.seen = k.raw
      BY <1>1, <1>2, <1>3 DEF Rewritten, Aimed
    <2> QED BY <1>1, <1>2, <1>3, <2>1 DEF AtomicWriteRename, Goto, Blind
  <1>6. /\ x \in Note /\ Texts(k.raw) \subseteq Texts(x) /\ k.draft.finding \in Texts(x)
        /\ \A q \in PatchPaths : q # k.path /\ Marked(x, q) => Marked(k.raw, q)
    BY <1>2, <1>3, <1>4, AppendTexts
  <1>7. m.pc = "unrow" /\ m.path = k.path /\ Aimed(m)
    BY <1>2, <1>3, Moved, GotoAimed DEF Steps
  <1>8. AllAimed'
    <2>1. FileAimed'
      BY <1>4, <1>5, FileAimedSet DEF Found, AllAimed
    <2> QED BY <1>5, <1>7, <2>1, AimedStep DEF Found
  <1>9. file'[t] = x
    BY <1>4, <1>5 DEF AllTyped, Typed
  <1>10. \A f \in Texts(x) : Place(t, f)'
    BY <1>4, <1>9 DEF Place
  <1>11. ASSUME NEW r \in Paths, NEW f \in kept, Place(r, f)
         PROVE  f \in raced' \/ \E p \in Paths : Place(p, f)'
    <2>1. CASE r = t
      <3>1. f \in raced' \/ f \in Texts(k.raw)
        BY <1>5, <1>11, <2>1 DEF Place
      <3> QED BY <1>4, <1>6, <1>10, <3>1
    <2>2. CASE r = k.path
      <3>1. file[r] \in Patch
        BY <1>2, <1>11, <2>2, TypedGives DEF AllTyped, Place, Vouches
      <3>2. f = file[r].finding
        BY <1>11, <3>1, TextsAre DEF Place
      <3>3. Knows(k, r, file[r].finding)
        BY <1>1, <1>2, <1>11, <2>2 DEF Place, Vouches, Fine
      <3>4. k.draft.finding = f
        BY <1>2, <2>2, <3>2, <3>3 DEF Knows, Underway
      <3> QED BY <1>4, <1>6, <1>10, <3>4
    <2>3. CASE r # t /\ r # k.path
      <3>1. r \in PatchPaths => Fine(k, r, file[r].finding)
        BY <1>1, <1>11 DEF Place, Vouches
      <3>2. r \in PatchPaths => Fine(m, r, file[r].finding)
        BY <1>7, <2>3 DEF Fine, Has, Applied, Knows, Holding
      <3>3. r \in PatchPaths /\ PatchOf[r].target = t => ~ Marked(x, r)
        BY <1>2, <1>3, <1>6, <2>3, <3>1 DEF Fine, Has, Holding
      <3>4. \A d \in Callers : \/ caller'[d] = caller[d]
                               \/ r \in PatchPaths => Fine(caller'[d], r, file[r].finding)
        BY <1>5, <3>2 DEF AllTyped, CallsTyped
      <3>5. Place(r, f)'
        BY <1>4, <1>5, <1>11, <2>3, <3>3, <3>4, Elsewhere
      <3> QED BY <3>5
    <2> QED BY <2>1, <2>2, <2>3
  <1>12. Stays'
    BY <1>5, <1>11, StaysStep DEF Found
  <1> QED BY <1>8, <1>12 DEF Found

LEMMA NewRenameFound ==
    ASSUME AllTyped, Found, NEW c \in Callers, AtomicWriteRename(c), caller[c].draft.kind # "patch"
    PROVE  Found'
  <1>1. PICK k : k = caller[c]
    OBVIOUS
  <1>2. /\ k \in Call /\ Aimed(k) /\ k.pc = "rename" /\ k.draft.kind # "patch"
        /\ k.path \in NewPaths /\ k.raw \in New
    BY <1>1, Accepting DEF AtomicWriteRename, Found, AllAimed
  <1>3. PICK x, m : /\ x = [k.raw EXCEPT !.status = "accepted"] /\ m = [k EXCEPT !.pc = "done"]
    OBVIOUS
  <1>4. k.path \in Paths /\ k.path \notin PatchPaths /\ k.path \notin Targets
    BY <1>2, Names
  <1>5. /\ file' = [file EXCEPT ![k.path] = x] /\ kept' = kept
        /\ caller' = [caller EXCEPT ![c] = m]
        /\ raced' = raced \cup (Texts(file[k.path]) \ Texts(k.raw))
    <2>1. Rewritten(c) = k.path /\ k.seen = k.raw
      BY <1>1, <1>2 DEF Rewritten, Aimed
    <2> QED BY <1>1, <1>2, <1>3, <2>1 DEF AtomicWriteRename, Goto, Blind
  <1>6. x \in New /\ x.finding = k.raw.finding
    BY <1>2, <1>3 DEF New
  <1>7. Texts(x) = Texts(k.raw)
    BY <1>2, <1>6, TextsAre
  <1>8. m.pc = "done" /\ Aimed(m)
    BY <1>2, <1>3, Moved, GotoAimed DEF Steps
  <1>9. \A q, f : Fine(m, q, f)
    BY <1>8 DEF Fine, Has, Applied, Knows, Holding, Underway
  <1>10. \A d \in Callers : caller'[d] = caller[d] \/ \A q, f : Fine(caller'[d], q, f)
    BY <1>5, <1>9 DEF AllTyped, CallsTyped
  <1>11. AllAimed'
    <2>1. FileAimed'
      BY <1>4, <1>5, FileAimedSet DEF Found, AllAimed
    <2> QED BY <1>5, <1>8, <2>1, AimedStep DEF Found
  <1>12. file'[k.path] = x
    BY <1>4, <1>5 DEF AllTyped, Typed
  <1>13. ASSUME NEW r \in Paths, NEW f \in kept, Place(r, f)
         PROVE  f \in raced' \/ \E p \in Paths : Place(p, f)'
    <2>1. CASE r = k.path
      <3>1. f \in raced' \/ f \in Texts(x)
        BY <1>5, <1>7, <1>13, <2>1 DEF Place
      <3>2. f \in Texts(x) => Place(r, f)'
        BY <1>4, <1>12, <2>1 DEF Place
      <3> QED BY <3>1, <3>2
    <2>2. CASE r # k.path
      <3>1. r \in PatchPaths => PatchOf[r].target # k.path
        BY <1>4, Names
      <3>2. \A d \in Callers : \/ caller'[d] = caller[d]
                               \/ r \in PatchPaths => Fine(caller'[d], r, file[r].finding)
        BY <1>10
      <3>3. Place(r, f)'
        BY <1>4, <1>5, <1>13, <2>2, <3>1, <3>2, Elsewhere
      <3> QED BY <3>3
    <2> QED BY <2>1, <2>2
  <1>14. Stays'
    BY <1>5, <1>13, StaysStep DEF Found
  <1> QED BY <1>11, <1>14 DEF Found

LEMMA RemoveRowFound ==
    ASSUME AllTyped, Found, NEW c \in Callers, RemoveProposalRow(c)
    PROVE  Found'
  BY GotoQuiet DEF RemoveProposalRow, history, Steps, Holding, Underway

\* A person removes or an accept removes: no text has its only place there.
LEMMA GoneStep ==
    ASSUME AllTyped, Found, NEW p \in PatchPaths \cup NewPaths, file' = [file EXCEPT ![p] = None],
           raced \subseteq raced', kept' \subseteq kept, \A f \in kept' : ~ Place(p, f),
           \A d \in Callers : caller'[d] = caller[d] \/ \A q, f : Fine(caller'[d], q, f)
    PROVE  FileAimed' /\ Stays'
  <1>1. p \in Paths /\ p \notin Targets
    BY Names
  <1>2. FileAimed'
    BY <1>1, FileAimedSet DEF Found, AllAimed
  <1>3. ASSUME NEW r \in Paths, NEW f \in kept', Place(r, f) PROVE Place(r, f)'
    <2>1. r # p
      BY <1>3
    <2>2. r \in PatchPaths => PatchOf[r].target # p
      BY <1>1, Names
    <2>3. \A d \in Callers : \/ caller'[d] = caller[d]
                             \/ r \in PatchPaths => Fine(caller'[d], r, file[r].finding)
      OBVIOUS
    <2> QED BY <1>1, <1>3, <2>1, <2>2, <2>3, Elsewhere
  <1>4. Stays'
    BY <1>3, StaysStep DEF Found
  <1> QED BY <1>2, <1>4

LEMMA RemoveFileFound ==
    ASSUME AllTyped, Found, NEW c \in Callers, RemoveProposalFile(c)
    PROVE  Found'
  <1>1. PICK k, m : k = caller[c] /\ m = [k EXCEPT !.pc = "done"]
    OBVIOUS
  <1>2. k \in Call /\ Aimed(k) /\ k.pc = "unfile" /\ k.path \in PatchPaths
    BY <1>1, CallGives DEF CallTyped, RemoveProposalFile, Found, AllAimed
  <1>3. /\ file' = [file EXCEPT ![k.path] = None] /\ kept' = kept /\ raced \subseteq raced'
        /\ caller' = [caller EXCEPT ![c] = m]
    BY <1>1 DEF RemoveProposalFile, Goto, Blind
  <1>4. m.pc = "done" /\ Aimed(m)
    BY <1>1, <1>2, Moved, GotoAimed DEF Steps
  <1>5. \A q, f : Fine(m, q, f)
    BY <1>4 DEF Fine, Has, Applied, Knows, Holding, Underway
  <1>6. \A d \in Callers : caller'[d] = caller[d] \/ \A q, f : Fine(caller'[d], q, f)
    BY <1>3, <1>5 DEF AllTyped, CallsTyped
  <1>7. ASSUME NEW f PROVE ~ Place(k.path, f)
    BY <1>1, <1>2 DEF Place, Vouches, Fine, Applied
  <1>8. FileAimed' /\ Stays'
    BY <1>2, <1>3, <1>6, <1>7, GoneStep
  <1>9. AllAimed'
    BY <1>3, <1>4, <1>8, AimedStep DEF Found
  <1> QED BY <1>8, <1>9 DEF Found

LEMMA IndexAcceptedFound ==
    ASSUME AllTyped, Found, NEW c \in Callers, IndexAccepted(c)
    PROVE  Found'
  BY FinishQuiet DEF IndexAccepted, history

LEMMA AbandonFound ==
    ASSUME AllTyped, Found, NEW c \in Callers, Abandon(c)
    PROVE  Found'
  BY FinishQuiet DEF Abandon, history

----------------------------------------------------------------------------
(* Findings: people and other commands *)

LEMMA NoCallAimed ==
    ASSUME AllAimed, FileAimed', UNCHANGED caller
    PROVE  AllAimed'
  <1>1. \A d \in Callers : Aimed(caller[d])'
    BY DEF AllAimed, Aimed
  <1> QED BY <1>1 DEF AllAimed

LEMMA UserRemovesFound ==
    ASSUME AllTyped, Found, NEW p \in PatchPaths \cup NewPaths, UserRemoves(p)
    PROVE  Found'
  <1>1. /\ file' = [file EXCEPT ![p] = None] /\ kept' = kept \ Texts(file[p]) /\ raced' = raced
        /\ caller' = caller
    BY DEF UserRemoves, Event
  <1>2. \A f \in kept' : ~ Place(p, f)
    BY <1>1 DEF Place
  <1>3. FileAimed' /\ Stays'
    BY <1>1, <1>2, GoneStep
  <1> QED BY <1>1, <1>3, NoCallAimed DEF Found

LEMMA UserRemarksFound ==
    ASSUME AllTyped, Found, NEW t \in Targets, NEW r \in Remarks, UserRemarks(t, r)
    PROVE  Found'
  <1>1. PICK x : x = [file[t] EXCEPT !.text = @ \cup {r}]
    OBVIOUS
  <1>2. /\ file' = [file EXCEPT ![t] = x] /\ kept' = kept \cup {r} /\ raced' = raced
        /\ caller' = caller
    BY <1>1 DEF UserRemarks, Event
  <1>3. file[t] \in Note /\ t \in Paths /\ t \notin PatchPaths
    BY TypedGives, Names DEF AllTyped
  <1>4. x \in Note /\ x.sections = file[t].sections /\ x.text = file[t].text \cup {r}
    BY <1>1, <1>3 DEF Note
  <1>5. Texts(x) = Texts(file[t]) \cup {r}
    BY <1>3, <1>4, TextsAre DEF Sections
  <1>6. \A f \in Texts(x) : Place(t, f)'
    <2>1. file'[t] = x
      BY <1>2, <1>3 DEF AllTyped, Typed
    <2> QED BY <1>3, <2>1 DEF Place
  <1>7. ASSUME NEW q \in Paths, NEW f \in kept, Place(q, f) PROVE \E p \in Paths : Place(p, f)'
    <2>1. CASE q = t
      BY <1>3, <1>5, <1>6, <1>7, <2>1 DEF Place
    <2>2. CASE q # t
      <3>1. q \in PatchPaths /\ PatchOf[q].target = t => ~ Marked(x, q)
        BY <1>4, <1>7 DEF Place, Vouches, Marked
      <3>2. \A d \in Callers : \/ caller'[d] = caller[d]
                               \/ q \in PatchPaths => Fine(caller'[d], q, file[q].finding)
        BY <1>2
      <3>3. Place(q, f)'
        BY <1>2, <1>3, <1>7, <2>2, <3>1, <3>2, Elsewhere
      <3> QED BY <3>3
    <2> QED BY <2>1, <2>2
  <1>8. \A f \in kept' \ kept : \E p \in Paths : Place(p, f)'
    BY <1>2, <1>3, <1>5, <1>6
  <1>9. Stays'
    BY <1>2, <1>7, <1>8, StaysStep DEF Found
  <1>10. FileAimed'
    BY <1>2, <1>3, FileAimedSet DEF Found, AllAimed
  <1> QED BY <1>2, <1>9, <1>10, NoCallAimed DEF Found

LEMMA UserEditsFound ==
    ASSUME AllTyped, Found, NEW p \in PatchPaths \cup NewPaths, NEW f \in Findings, UserEditsDraft(p, f)
    PROVE  Found'
  <1>1. PICK x : x = [file[p] EXCEPT !.finding = f]
    OBVIOUS
  <1>2. /\ file' = [file EXCEPT ![p] = x] /\ kept' = (kept \ Texts(file[p])) \cup {f}
        /\ raced' = raced \cup (IF Late(p) THEN {f} ELSE {}) /\ caller' = caller
    BY <1>1 DEF UserEditsDraft, Event
  <1>3. file[p] \in DraftAt(p) /\ file[p] # None /\ p \in Paths /\ p \notin Targets
    BY TypedGives, Names DEF AllTyped, DraftAt, UserEditsDraft, isDraft
  <1>4. /\ x \in DraftAt(p) /\ x.finding = f
        /\ p \in PatchPaths => x.target = file[p].target
    <2>1. CASE p \in PatchPaths
      <3>1. file[p] \in Patch
        BY <1>3, <2>1 DEF DraftAt
      <3>2. x \in Patch /\ x.finding = f /\ x.target = file[p].target
        BY <1>1, <3>1 DEF Patch
      <3> QED BY <2>1, <3>2 DEF DraftAt
    <2>2. CASE p \notin PatchPaths
      <3>1. file[p] \in New
        BY <1>3, <2>2 DEF DraftAt
      <3>2. x \in New /\ x.finding = f
        BY <1>1, <3>1 DEF New
      <3> QED BY <2>2, <3>2 DEF DraftAt
    <2> QED BY <2>1, <2>2
  <1>5. FileAimed'
    <2>1. p \in PatchPaths => x.target = PatchOf[p].target
      BY <1>3, <1>4 DEF Found, AllAimed, FileAimed
    <2> QED BY <1>2, <1>3, <2>1, FileAimedSet DEF Found, AllAimed
  <1>6. f \in raced' \/ Place(p, f)'
    <2>1. CASE Late(p)
      BY <1>2, <2>1
    <2>2. CASE ~ Late(p)
      <3>1. Place(p, x.finding)'
        BY <1>2, <1>4, <2>2, DraftPlaced
      <3>2. PICK h : h = x.finding
        OBVIOUS
      <3> QED BY <1>4, <3>1
    <2> QED BY <2>1, <2>2
  <1>7. ASSUME NEW r \in Paths, NEW h \in kept \cap kept', Place(r, h)
        PROVE  h \in raced' \/ \E q \in Paths : Place(q, h)'
    <2>1. CASE h = f
      BY <1>3, <1>6, <2>1
    <2>2. CASE h # f
      <3>1. r # p
        BY <1>2, <1>7, <2>2 DEF Place
      <3>2. r \in PatchPaths => PatchOf[r].target # p
        BY <1>3, Names
      <3>3. \A d \in Callers : \/ caller'[d] = caller[d]
                               \/ r \in PatchPaths => Fine(caller'[d], r, file[r].finding)
        BY <1>2
      <3>4. Place(r, h)'
        BY <1>2, <1>3, <1>7, <3>1, <3>2, <3>3, Elsewhere
      <3> QED BY <3>4
    <2> QED BY <2>1, <2>2
  <1>8. \A h \in kept' \ kept : h \in raced' \/ \E q \in Paths : Place(q, h)'
    BY <1>2, <1>3, <1>6
  <1>9. Stays'
    BY <1>2, <1>7, <1>8, StaysStep DEF Found
  <1> QED BY <1>2, <1>5, <1>9, NoCallAimed DEF Found

LEMMA SameFound ==
    ASSUME Found, UNCHANGED <<file, kept, raced, caller>>
    PROVE  Found'
  BY DEF Found, Stays, AllAimed, FileAimed, Aimed, Place, Vouches, Fine, Has, Applied, Knows, Marked

LEMMA IndexPassFound ==
    ASSUME AllTyped, Found, NEW p \in Paths, IndexPass(p)
    PROVE  Found'
  BY SameFound DEF IndexPass, Event, history

----------------------------------------------------------------------------
LEMMA InitFound == Init => Found
  <1> SUFFICES ASSUME Init PROVE Found
    OBVIOUS
  <1>1. kept = {} /\ \A c \in Callers : caller[c] = Idle
    BY DEF Init
  <1>2. \A p \in PatchPaths : file[p] = None
    BY Names DEF Init
  <1>3. AllAimed
    BY <1>1, <1>2, IdleFine DEF AllAimed, FileAimed
  <1>4. Stays
    BY <1>1 DEF Stays
  <1> QED BY <1>3, <1>4 DEF Found

LEMMA NextFound == AllTyped /\ Found /\ [Next]_vars => Found'
  <1> SUFFICES ASSUME AllTyped, Found, [Next]_vars PROVE Found'
    OBVIOUS
  <1>1. ASSUME NEW c \in Callers,
               \/ \E f \in Findings, g \in Gaps \cup {None} : Propose(c, f, g)
               \/ WriteDraft(c) \/ IndexDraft(c) \/ RankRead(c) \/ RankRename(c)
        PROVE  Found'
    BY <1>1, ProposeFound, WriteDraftFound, IndexDraftFound, RankReadFound, RankRenameFound
  <1>2. ASSUME NEW c \in Callers,
               \/ \E p \in PatchPaths \cup NewPaths : Accept(c, p)
               \/ ScanForProposal(c) \/ FinishMissingProposal(c) \/ ReadDraft(c) \/ ReadTarget(c)
        PROVE  Found'
    BY <1>2, AcceptFound, ScanFound, MissingFound, ReadDraftFound, ReadTargetFound
  <1>3. ASSUME NEW c \in Callers,
               \/ CloseLinkedGap(c) \/ GapRename(c)
               \/ SkipMarked(c) \/ AtomicWriteVerify(c) \/ AtomicWriteRename(c)
        PROVE  Found'
    BY <1>3, CloseLinkedGapFound, GapRenameFound, SkipMarkedFound, VerifyFound,
       PatchRenameFound, NewRenameFound
  <1>4. ASSUME NEW c \in Callers,
               \/ RemoveProposalRow(c) \/ RemoveProposalFile(c) \/ IndexAccepted(c) \/ Abandon(c)
        PROVE  Found'
    BY <1>4, RemoveRowFound, RemoveFileFound, IndexAcceptedFound, AbandonFound
  <1>5. CASE \/ \E p \in PatchPaths \cup NewPaths : UserRemoves(p)
             \/ \E t \in Targets, r \in Remarks : UserRemarks(t, r)
             \/ \E p \in PatchPaths \cup NewPaths, f \in Findings : UserEditsDraft(p, f)
             \/ \E p \in Paths : IndexPass(p)
    BY <1>5, UserRemovesFound, UserRemarksFound, UserEditsFound, IndexPassFound
  <1>6. CASE UNCHANGED vars
    BY <1>6, SameFound DEF vars, history
  <1> QED BY <1>1, <1>2, <1>3, <1>4, <1>5, <1>6 DEF Next

\* Nothing that was proposed or remarked is lost by propose and accept: every
\* such text is in a draft, in a published note or in the note it was appended
\* to, unless a person removed it or it came into a file behind the back of a
\* call, or into a draft whose accept was under way.
THEOREM FindingsAlwaysKept == Spec => []FindingKept
  <1>1. Spec => [](AllTyped /\ Found)
    BY InitTyped, NextTyped, InitFound, NextFound, PTL DEF Spec
  <1>2. Found => FindingKept
    BY DEF Found, Stays, Place, FindingKept
  <1> QED BY <1>1, <1>2, PTL
=============================================================================
