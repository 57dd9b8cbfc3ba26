--------------------------- MODULE EmbedPassProofs ---------------------------
(***************************************************************************)
(* The two stamps of the index never claim more than its columns hold, for *)
(* any notes and texts and any number of passes at once; passage vectors   *)
(* are of the text of their note; while one process runs every pass, the   *)
(* index holds vectors of one model; and a --full pass that reports        *)
(* success has embedded what can be embedded.                              *)
(*                                                                         *)
(* First every action keeps the types.  Then every action only shrinks the *)
(* sets of rows in an old format (Fewer), and each pass keeps what it      *)
(* knows of these sets at each of its steps (TextPlan, SparsePlan).  For   *)
(* the model, a pass that does not purge first has found only vectors of   *)
(* its own model (KnowsModel), and a dense vector of BGE-M3 never stands   *)
(* without the sparse one by which a build that falls back to MiniLM sees  *)
(* it (FullRow).  For a --full pass, each note that can be embedded waits, *)
(* has a dense vector, or the pass has failed (Loud).                      *)
(***************************************************************************)
EXTENDS EmbedPass, TLAPS

-----------------------------------------------------------------------------
(* Types *)

LEMMA StepType ==
    ASSUME pass \in [Passes -> PassRecords], NEW k \in Passes, NEW r \in PassRecords, Step(k, r)
    PROVE  pass' \in [Passes -> PassRecords]
  <1> QED BY DEF Step

LEMMA UnquietType ==
    ASSUME NEW r \in PassRecords
    PROVE  [r EXCEPT !.quiet = FALSE] \in PassRecords
  <1> QED BY DEF PassRecords

LEMMA DisturbingType ==
    ASSUME pass \in [Passes -> PassRecords], NEW k, NEW r \in PassRecords, Disturbing(k, r)
    PROVE  pass' \in [Passes -> PassRecords]
  <1> DEFINE next(j) == IF j = k THEN r ELSE [pass[j] EXCEPT !.quiet = FALSE]
  <1>1. \A j \in Passes : next(j) \in PassRecords
    BY UnquietType
  <1> HIDE DEF next
  <1>2. pass' = [j \in Passes |-> next(j)]
    BY DEF Disturbing, next
  <1> QED BY <1>1, <1>2

\* a pass goes on with other work to do
LEMMA WorkRecord ==
    ASSUME NEW r \in PassRecords, NEW p \in Pcs, NEW todo \in SUBSET [id : Notes, text : Texts]
    PROVE  [r EXCEPT !.pc = p, !.todo = todo] \in PassRecords
  <1> HIDE DEF Pcs
  <1> QED BY DEF PassRecords

LEMMA IdleType == Idle \in PassRecords
  BY DEF Idle, PassRecords, Pcs, Plans, Models

LEMMA GotoType ==
    ASSUME pass \in [Passes -> PassRecords], NEW k \in Passes, NEW p \in Pcs, Goto(k, p)
    PROVE  pass' \in [Passes -> PassRecords]
  <1>1. [pass[k] EXCEPT !.pc = p] \in PassRecords
    BY DEF PassRecords
  <1> QED BY <1>1, StepType DEF Goto

LEMMA WorkType ==
    ASSUME rows \in [Notes -> Rows \cup {Absent}], NEW ns \in SUBSET Stored
    PROVE  Work(ns) \in SUBSET [id : Notes, text : Texts]
  <1>1. \A n \in ns : n \in Notes /\ rows[n].text \in Texts
    BY DEF Stored, Rows
  <1> QED BY <1>1 DEF Work

LEMMA WorkIds ==
    ASSUME NEW ns, NEW n \in ns
    PROVE  n \in {w.id : w \in Work(ns)}
  <1> DEFINE v == [id |-> n, text |-> rows[n].text]
  <1>1. v \in Work(ns)
    BY DEF Work
  <1>2. v.id = n
    OBVIOUS
  <1> HIDE DEF v
  <1> QED BY <1>1, <1>2

LEMMA NewRowType ==
    ASSUME NEW t \in Texts
    PROVE  NewRow(t) \in Rows
  BY DEF NewRow, Rows

LEMMA ClearedType ==
    ASSUME NEW r \in Rows
    PROVE  Cleared(r) \in Rows
  BY DEF Cleared, Rows

LEMMA WithDenseShape ==
    ASSUME NEW r \in Rows, NEW m \in Models, NEW t \in Texts
    PROVE  LET s == WithDense(r, Dense(m, t))
           IN  /\ s \in Rows /\ s.text = r.text /\ s.sparse = r.sparse
               /\ s.dense.model = m /\ s.dense.titled
  <1> DEFINE d == Dense(m, t)
             u == IF r.dense = d THEN r.units ELSE NULL
  <1>1. d \in DenseVectors /\ d.model = m /\ d.titled
    BY DEF Dense, DenseVectors
  <1>2. WithDense(r, d) = [r EXCEPT !.dense = d, !.units = u]
    BY DEF WithDense
  <1>3. u \in UnitVectors \cup {NULL}
    BY DEF Rows
  <1> DEFINE s == WithDense(r, d)
  <1> HIDE DEF d, u
  <1>4. s \in Rows /\ s.text = r.text /\ s.sparse = r.sparse /\ s.dense = d
    BY <1>1, <1>2, <1>3 DEF Rows
  <1> HIDE DEF s
  <1>5. s \in Rows /\ s.text = r.text /\ s.sparse = r.sparse /\ s.dense.model = m /\ s.dense.titled
    BY <1>1, <1>4
  <1> QED BY <1>5 DEF s, d

LEMMA WithVectorsType ==
    ASSUME NEW r \in Rows, NEW m \in Models, NEW t \in Texts
    PROVE  WithVectors(r, m, t) \in Rows
  <1>1. WithDense(r, Dense(m, t)) \in Rows
    BY WithDenseShape
  <1>2. [of |-> t, clean |-> TRUE] \in SparseVectors /\ [of |-> t] \in ColBERT
    BY DEF SparseVectors, ColBERT
  <1> QED BY <1>1, <1>2 DEF WithVectors, Rows

LEMMA StartType ==
    ASSUME TypeOK, NEW k \in Passes, NEW m \in Models, NEW full \in BOOLEAN,
           NEW titles \in BOOLEAN, Start(k, m, full, titles)
    PROVE  TypeOK'
  <1>1. [Idle EXCEPT !.pc = "load", !.model = m, !.full = full, !.titles = titles] \in PassRecords
    BY IdleType DEF PassRecords, Pcs
  <1> QED BY <1>1, StepType DEF TypeOK, Start, DatabaseSame

LEMMA LoadType ==
    ASSUME TypeOK, NEW k \in Passes, loadEmbedder(k)
    PROVE  TypeOK'
  <1>1. pass[k] \in PassRecords
    BY DEF TypeOK
  <1>2. /\ [pass[k] EXCEPT !.pc = "plan", !.sidecar = TRUE] \in PassRecords
        /\ [pass[k] EXCEPT !.pc = "plan", !.model = "minilm"] \in PassRecords
    BY <1>1 DEF PassRecords, Pcs, Models
  <1>3. "plan" \in Pcs
    BY DEF Pcs
  <1>4. pass' \in [Passes -> PassRecords]
    BY <1>2, <1>3, StepType, GotoType DEF TypeOK, loadEmbedder
  <1> QED BY <1>4 DEF TypeOK, loadEmbedder, DatabaseSame

LEMMA PlanType ==
    ASSUME TypeOK, NEW k \in Passes, prepareEmbedText(k)
    PROVE  TypeOK'
  <1> DEFINE pc == IF pass[k].full THEN "purge" ELSE "sparse"
             plan == IF ~ EmbedTextStale THEN "write"
                     ELSE IF pass[k].titles THEN "upgrade" ELSE "none"
  <1>1. pc \in Pcs /\ plan \in Plans
    BY DEF Pcs, Plans
  <1> HIDE DEF pc, plan
  <1>2. [pass[k] EXCEPT !.pc = pc, !.plan = plan] \in PassRecords
    BY ZenonT(60), <1>1 DEF TypeOK, PassRecords
  <1>3. Step(k, [pass[k] EXCEPT !.pc = pc, !.plan = plan])
    BY DEF prepareEmbedText, pc, plan
  <1> QED BY <1>2, <1>3, StepType DEF TypeOK, prepareEmbedText, DatabaseSame

LEMMA PurgeType ==
    ASSUME TypeOK, NEW k \in Passes, PurgeEmbeddings(k)
    PROVE  TypeOK'
  <1>2. rows' \in [Notes -> Rows \cup {Absent}]
    BY ClearedType DEF TypeOK, PurgeEmbeddings
  <1>3. (SomeDense \/ SomeFull) \in BOOLEAN
    BY DEF SomeDense, SomeFull
  <1>4. [pass[k] EXCEPT !.pc = "sparse", !.purged = SomeDense \/ SomeFull] \in PassRecords
    BY ZenonT(60), <1>3 DEF TypeOK, PassRecords, Pcs
  <1> QED BY <1>2, <1>4, DisturbingType DEF TypeOK, PurgeEmbeddings

LEMMA SparseType ==
    ASSUME TypeOK, NEW k \in Passes, maybeUpgradeSparse(k)
    PROVE  TypeOK'
  <1> DEFINE todo == Work({n \in Stored : rows[n].sparse # NULL})
  <1>1. todo \in SUBSET [id : Notes, text : Texts]
    BY WorkType DEF TypeOK
  <1> HIDE DEF todo
  <1>2. [pass[k] EXCEPT !.pc = "resparse", !.todo = todo] \in PassRecords
    <2>1. pass[k] \in PassRecords
      BY DEF TypeOK
    <2>2. "resparse" \in Pcs
      BY DEF Pcs
    <2> QED BY <1>1, <2>1, <2>2, WorkRecord
  <1>3. Step(k, [pass[k] EXCEPT !.pc = "resparse", !.todo = todo]) \/ Goto(k, "text")
    BY DEF maybeUpgradeSparse, todo
  <1>4. "text" \in Pcs
    BY DEF Pcs
  <1>5. pass' \in [Passes -> PassRecords]
    BY <1>2, <1>3, <1>4, StepType, GotoType DEF TypeOK
  <1> QED BY <1>5 DEF TypeOK, maybeUpgradeSparse, DatabaseSame

LEMMA TodoType ==
    ASSUME TypeOK, NEW k \in Passes, NEW w \in pass[k].todo
    PROVE  /\ w \in [id : Notes, text : Texts]
           /\ [pass[k] EXCEPT !.todo = @ \ {w}] \in PassRecords
           /\ [pass[k] EXCEPT !.todo = @ \ {w}, !.upgraded = TRUE] \in PassRecords
  BY ZenonT(60) DEF TypeOK, PassRecords

LEMMA ReembedType ==
    ASSUME TypeOK, NEW k \in Passes, NEW w \in pass[k].todo, reembedSparseNotes(k, w)
    PROVE  TypeOK'
  <1>1. w.id \in Notes /\ w.text \in Texts /\ rows[w.id] \in Rows
    BY TodoType DEF TypeOK, reembedSparseNotes, Stored
  <1>2. [of |-> w.text, clean |-> TRUE] \in SparseVectors
    BY <1>1 DEF SparseVectors
  <1>3. [rows[w.id] EXCEPT !.sparse = [of |-> w.text, clean |-> TRUE]] \in Rows
    BY <1>1, <1>2 DEF Rows
  <1>4. rows' \in [Notes -> Rows \cup {Absent}]
    BY <1>1, <1>3 DEF TypeOK, reembedSparseNotes
  <1> QED BY <1>4, TodoType, DisturbingType DEF TypeOK, reembedSparseNotes

LEMMA SelectType ==
    ASSUME TypeOK, NEW k \in Passes, loadPendingNoteTexts(k)
    PROVE  TypeOK'
  <1> DEFINE todo == {w \in Work(embedNoteQueries(k)) : w.text \notin EmptyBody}
  <1>0. embedNoteQueries(k) \in SUBSET Stored
    BY DEF embedNoteQueries, Unembedded
  <1>1. todo \in SUBSET [id : Notes, text : Texts]
    BY <1>0, WorkType DEF TypeOK
  <1> HIDE DEF todo
  <1>2. [pass[k] EXCEPT !.pc = "embed", !.todo = todo] \in PassRecords
    <2>1. pass[k] \in PassRecords
      BY DEF TypeOK
    <2>2. "embed" \in Pcs
      BY DEF Pcs
    <2> QED BY <1>1, <2>1, <2>2, WorkRecord
  <1>3. Step(k, [pass[k] EXCEPT !.pc = "embed", !.todo = todo])
    BY DEF loadPendingNoteTexts, todo
  <1> QED BY <1>2, <1>3, StepType DEF TypeOK, loadPendingNoteTexts, DatabaseSame

LEMMA UnrewrittenType ==
    ASSUME TypeOK, NEW k \in Passes, NEW batch \in SUBSET pass[k].todo
    PROVE  appendUnrewritten(k, batch) \in SUBSET Notes
  BY DEF TypeOK, appendUnrewritten, PassRecords

LEMMA RowAfterType ==
    ASSUME TypeOK, NEW m \in Models, NEW batch \in SUBSET [id : Notes, text : Texts], NEW n \in Notes
    PROVE  RowAfter(n, m, batch) \in Rows \cup {Absent}
  <1> DEFINE mine == {w \in WithOutput(m, batch) : w.id = n}
  <1>0. rows[n] \in Rows \cup {Absent}
    BY DEF TypeOK
  <1>1. CASE rows[n] = Absent \/ mine = {}
    BY <1>0, <1>1 DEF RowAfter
  <1>2. CASE rows[n] # Absent /\ mine # {}
    <2>1. PICK w \in mine : w = CHOOSE x \in mine : TRUE
      BY <1>2
    <2>2. w.text \in Texts
      BY <2>1 DEF WithOutput
    <2>3. RowAfter(n, m, batch) = WithVectors(rows[n], m, w.text)
      BY <1>2, <2>1 DEF RowAfter
    <2> QED BY <1>0, <1>2, <2>2, <2>3, WithVectorsType
  <1> QED BY <1>1, <1>2

LEMMA EmbedType ==
    ASSUME TypeOK, NEW k \in Passes, NEW batch \in SUBSET pass[k].todo, EmbedBatch(k, batch)
    PROVE  TypeOK'
  <1> DEFINE m == pass[k].model
             left == pass[k].todo \ batch
             unrewritten == appendUnrewritten(k, batch \ WithOutput(m, batch))
             embedded == pass[k].embedded \/ WithOutput(m, batch) # {}
  <1>1. /\ pass[k] \in PassRecords /\ m \in Models /\ left \in SUBSET pass[k].todo
        /\ batch \in SUBSET [id : Notes, text : Texts] /\ embedded \in BOOLEAN
    BY DEF TypeOK, PassRecords
  <1>2. unrewritten \in SUBSET Notes
    BY UnrewrittenType
  <1>3. rows' \in [Notes -> Rows \cup {Absent}]
    BY <1>1, RowAfterType DEF EmbedBatch
  <1> HIDE DEF m, left, unrewritten, embedded
  <1>4. [pass[k] EXCEPT !.todo = left, !.unrewritten = unrewritten, !.embedded = embedded]
            \in PassRecords
    BY <1>1, <1>2 DEF PassRecords
  <1>5. Disturbing(k, [pass[k] EXCEPT !.todo = left, !.unrewritten = unrewritten,
                                      !.embedded = embedded])
    BY DEF EmbedBatch, m, left, unrewritten, embedded
  <1> QED BY <1>3, <1>4, <1>5, DisturbingType DEF TypeOK, EmbedBatch

LEMMA FailType ==
    ASSUME TypeOK, NEW k \in Passes, NEW batch \in SUBSET pass[k].todo, FailBatch(k, batch)
    PROVE  TypeOK'
  <1>1. pass[k] \in PassRecords
    BY DEF TypeOK
  <1>2. [pass[k] EXCEPT !.todo = @ \ batch, !.failed = TRUE,
                        !.unrewritten = appendUnrewritten(k, batch)] \in PassRecords
    BY <1>1, UnrewrittenType DEF PassRecords
  <1> QED BY <1>2, StepType DEF TypeOK, FailBatch, DatabaseSame

LEMMA ClearType ==
    ASSUME TypeOK, NEW k \in Passes, clearNoteVectors(k)
    PROVE  TypeOK'
  <1>1. rows' \in [Notes -> Rows \cup {Absent}]
    BY ClearedType DEF TypeOK, clearNoteVectors
  <1>2. [pass[k] EXCEPT !.pc = "units"] \in PassRecords
    BY DEF TypeOK, PassRecords, Pcs
  <1> QED BY <1>1, <1>2, DisturbingType DEF TypeOK, clearNoteVectors

LEMMA UnitsType ==
    ASSUME TypeOK, NEW k \in Passes, finishPassageEmbedding(k)
    PROVE  TypeOK'
  <1> DEFINE todo == IF pass[k].model = "bge-m3" /\ ~ pass[k].sidecar
                     THEN Work(passagePending) ELSE {}
  <1>1. todo \in SUBSET [id : Notes, text : Texts]
    BY WorkType DEF TypeOK, passagePending
  <1> HIDE DEF todo
  <1>2. [pass[k] EXCEPT !.pc = "passages", !.todo = todo] \in PassRecords
    BY ZenonT(60), <1>1 DEF TypeOK, PassRecords, Pcs
  <1>3. Step(k, [pass[k] EXCEPT !.pc = "passages", !.todo = todo])
    BY DEF finishPassageEmbedding, todo
  <1> QED BY <1>2, <1>3, StepType DEF TypeOK, finishPassageEmbedding, DatabaseSame

LEMMA PassageType ==
    ASSUME TypeOK, NEW k \in Passes, NEW w \in pass[k].todo, storePassageNote(k, w)
    PROVE  TypeOK'
  <1>1. w.id \in Notes /\ w.text \in Texts /\ rows[w.id] \in Rows
    BY TodoType DEF TypeOK, storePassageNote, Current, Stored
  <1>2. [rows[w.id] EXCEPT !.units = [of |-> w.text]] \in Rows
    BY <1>1 DEF Rows, UnitVectors
  <1>3. rows' \in [Notes -> Rows \cup {Absent}]
    BY <1>1, <1>2 DEF TypeOK, storePassageNote
  <1> QED BY <1>3, TodoType, DisturbingType DEF TypeOK, storePassageNote

LEMMA IndexerType ==
    ASSUME TypeOK, Indexer
    PROVE  TypeOK'
  <1>1. ASSUME NEW n \in Notes, DeleteNote(n)
        PROVE  TypeOK'
    <2>1. rows' \in [Notes -> Rows \cup {Absent}]
      BY <1>1 DEF TypeOK, DeleteNote
    <2> QED BY <1>1, <2>1, IdleType, DisturbingType DEF TypeOK, DeleteNote, Written
  <1>2. ASSUME NEW n \in Notes, NEW t \in Texts, StoreNote(n, t)
        PROVE  TypeOK'
    <2>1. rows[n] \in Rows => [rows[n] EXCEPT !.units = NULL] \in Rows
      BY DEF Rows
    <2>2. rows' \in [Notes -> Rows \cup {Absent}]
      BY <1>2, <2>1, NewRowType DEF TypeOK, StoreNote
    <2> QED BY <1>2, <2>2, IdleType, DisturbingType DEF TypeOK, StoreNote, Written
  <1> QED BY <1>1, <1>2 DEF Indexer

LEMMA StampsType ==
    ASSUME TypeOK, NEW k \in Passes,
           \/ ReembedStaleSparse(k) \/ stampTextIfCurrent(k) \/ stampEmbedPass(k)
           \/ writeUpgradeStamps(k) \/ Abort(k)
    PROVE  TypeOK'
  <1>1. {"text", "select", "stamp"} \subseteq Pcs
    BY DEF Pcs
  <1>2. pass' \in [Passes -> PassRecords]
    BY <1>1, IdleType, StepType, GotoType
       DEF TypeOK, ReembedStaleSparse, stampTextIfCurrent, stampEmbedPass, writeUpgradeStamps, Abort
  <1>3. rows' = rows /\ runs' = runs /\ writes' = writes
    BY DEF ReembedStaleSparse, stampTextIfCurrent, stampEmbedPass, writeUpgradeStamps, Abort,
           DatabaseSame
  <1>4. textStamp' \in BOOLEAN /\ sparseStamp' \in BOOLEAN
    BY DEF TypeOK, ReembedStaleSparse, stampTextIfCurrent, stampEmbedPass, writeUpgradeStamps,
           Abort, DatabaseSame
  <1> QED BY <1>2, <1>3, <1>4 DEF TypeOK

LEMMA StepKeepsType ==
    ASSUME TypeOK, [Next]_vars
    PROVE  TypeOK'
  <1>1. CASE Indexer
    BY <1>1, IndexerType
  <1>2. ASSUME NEW k \in Passes, Begin(k)
        PROVE  TypeOK'
    <2>1. CASE \E m \in Models, full \in BOOLEAN : RunEmbed(k, m, full)
      BY <2>1, StartType DEF RunEmbed
    <2>2. CASE embedAfterWrite(k)
      <3>1. EmbeddedModel # NULL => EmbeddedModel \in Models
        BY DEF EmbeddedModel, Models
      <3> QED BY <2>2, <3>1, StartType DEF embedAfterWrite
    <2> QED BY <1>2, <2>1, <2>2, LoadType, PlanType, PurgeType, SparseType, ReembedType,
               StampsType DEF Begin
  <1>3. ASSUME NEW k \in Passes, EmbedNotes(k)
        PROVE  TypeOK'
    BY <1>3, SelectType, EmbedType, FailType, ClearType, UnitsType, PassageType DEF EmbedNotes
  <1>4. CASE UNCHANGED vars
    BY <1>4 DEF TypeOK, vars
  <1> QED BY <1>1, <1>2, <1>3, <1>4, StampsType DEF Next

LEMMA InitType == Init => TypeOK
  <1> SUFFICES ASSUME Init PROVE TypeOK
    OBVIOUS
  <1>1. PICK v \in Legacy : /\ rows \in [Notes -> LegacyRows(v) \cup {Absent}]
                            /\ sparseStamp = (v = "bge-m3 clean")
    BY DEF Init
  <1>2. \A t \in Texts : LegacyDense(v, t) \in DenseVectors
    BY DEF LegacyDense, DenseVectors, Models
  <1>3. ASSUME NEW t \in Texts
        PROVE  LegacyFull(v, t) \in Rows
    <2> DEFINE c == [of |-> t]
               s == [of |-> t, clean |-> v = "bge-m3 clean"]
    <2>1. c \in ColBERT /\ s \in SparseVectors
      <3>1. (v = "bge-m3 clean") \in BOOLEAN
        OBVIOUS
      <3> QED BY <3>1 DEF ColBERT, SparseVectors
    <2>2. LegacyFull(v, t) = [NewRow(t) EXCEPT !.dense = LegacyDense(v, t), !.colbert = c, !.sparse = s]
      BY DEF LegacyFull
    <2> HIDE DEF c, s
    <2> QED BY <1>2, <2>1, <2>2, NewRowType DEF Rows
  <1>4. LegacyRows(v) \subseteq Rows
    <2> DEFINE full == {LegacyFull(v, t) : t \in (Texts \ EmptyBody) \ NoTokens}
               cleared == {[r EXCEPT !.dense = NULL, !.colbert = NULL] : r \in full}
               minilm == {[NewRow(t) EXCEPT !.dense = LegacyDense(v, t)] : t \in Texts \ EmptyBody}
               new == {NewRow(t) : t \in Texts}
    <2>1. minilm \subseteq Rows
      BY <1>2, NewRowType DEF Rows
    <2>2. full \subseteq Rows
      BY <1>3
    <2>3. cleared \subseteq Rows
      BY <2>2 DEF Rows
    <2>4. new \subseteq Rows
      BY NewRowType
    <2>5. LegacyRows(v) = new \cup (CASE v = "never" -> {} [] v = "minilm" -> minilm
                                      [] OTHER -> full \cup cleared)
      BY DEF LegacyRows
    <2> HIDE DEF full, cleared, minilm, new
    <2> QED BY <2>1, <2>2, <2>3, <2>4, <2>5
  <1>5. pass \in [Passes -> PassRecords]
    BY IdleType DEF Init
  <1> QED BY <1>1, <1>4, <1>5 DEF Init, TypeOK

\* Types are right in every state (the index database and its passes).
THEOREM TypeCorrect == Spec => []TypeOK
  <1> QED BY InitType, StepKeepsType, PTL DEF Spec

-----------------------------------------------------------------------------
(* The rows in an old format, and what a pass knows of them *)

\* A vector of the body alone.
Untitled(r) == r.dense # NULL /\ ~ r.dense.titled

\* A sparse vector that counts special tokens.
Unclean(r) == r.sparse # NULL /\ ~ r.sparse.clean

UntitledNotes == {n \in Stored : Untitled(rows[n])}
UncleanNotes  == {n \in Stored : Unclean(rows[n])}

TodoNotes(k) == {w.id : w \in pass[k].todo}

\* What a pass knows of untitled vectors: none when it may stamp at its start,
\* and in an upgrade only those it has still to visit or to clear.
TextPlan(k) ==
    LET p == pass[k]
    IN  /\ p.plan = "write" => UntitledNotes = {}
        /\ p.plan = "upgrade" /\ p.pc = "embed" => UntitledNotes \subseteq TodoNotes(k) \cup p.unrewritten
        /\ p.plan = "upgrade" /\ p.pc \in {"units", "passages", "stamp"} => UntitledNotes = {}
        /\ p.pc = "stamp" => p.plan = "upgrade"

\* What it knows of unclean ones.
SparsePlan(k) ==
    LET p == pass[k]
    IN  /\ p.pc = "resparse" => UncleanNotes \subseteq TodoNotes(k)
        /\ p.pc \in {"text", "select", "embed", "units", "passages"} /\ p.model = "bge-m3"
           /\ p.plan # "upgrade" => UncleanNotes = {}
        /\ p.plan = "upgrade" /\ p.model = "bge-m3" /\ p.pc = "embed" =>
              UncleanNotes \subseteq TodoNotes(k) \cup p.unrewritten
        /\ p.plan = "upgrade" /\ p.model = "bge-m3" /\ p.pc \in {"units", "passages", "stamp"} =>
              UncleanNotes = {}

\* An old vector is of a body that is not empty, so an upgrade visits it.
OldHaveText == \A n \in UntitledNotes \cup UncleanNotes : rows[n].text \notin EmptyBody

StampInv ==
    /\ textStamp => UntitledNotes = {}
    /\ sparseStamp => UncleanNotes = {}
    /\ \A k \in Passes : TextPlan(k) /\ SparsePlan(k)
    /\ OldHaveText

IInv == TypeOK /\ StampInv

-----------------------------------------------------------------------------
(* Every action only shrinks these sets *)

\* What the row s may be after r.
NoOlder(r, s) ==
    s # Absent =>
        /\ Untitled(s) => r # Absent /\ Untitled(r) /\ s.text = r.text
        /\ Unclean(s) => r # Absent /\ Unclean(r) /\ s.text = r.text

Fewer ==
    /\ UntitledNotes' \subseteq UntitledNotes
    /\ UncleanNotes' \subseteq UncleanNotes
    /\ \A n \in UntitledNotes' \cup UncleanNotes' : rows'[n].text = rows[n].text

LEMMA FewerByRow ==
    ASSUME \A n \in Notes : NoOlder(rows[n], rows'[n])
    PROVE  Fewer
  BY DEF Fewer, NoOlder, UntitledNotes, UncleanNotes, Stored

LEMMA ClearedNoOlder ==
    ASSUME NEW r \in Rows
    PROVE  NoOlder(r, Cleared(r)) /\ (Cleared(r) # Absent => ~ Untitled(Cleared(r)))
  BY DEF NoOlder, Cleared, Rows, Untitled, Unclean

LEMMA WithVectorsNoOlder ==
    ASSUME NEW r \in Rows, r # Absent, NEW m \in Models, NEW t \in Texts
    PROVE  /\ NoOlder(r, WithVectors(r, m, t))
           /\ ~ Untitled(WithVectors(r, m, t))
           /\ m = "bge-m3" => ~ Unclean(WithVectors(r, m, t))
  <1> DEFINE s == WithDense(r, Dense(m, t))
  <1>1. s.dense.titled /\ s.sparse = r.sparse /\ s.text = r.text /\ s \in Rows
    BY WithDenseShape
  <1> HIDE DEF s
  <1>2. CASE m = "minilm"
    BY <1>1, <1>2 DEF WithVectors, NoOlder, Untitled, Unclean, s
  <1>3. CASE m = "bge-m3"
    <2> DEFINE v == IF t \in NoTokens THEN NULL ELSE [of |-> t, clean |-> TRUE]
               c == IF t \in NoTokens THEN NULL ELSE [of |-> t]
    <2>1. WithVectors(r, m, t) = [s EXCEPT !.sparse = v, !.colbert = c]
      BY <1>3 DEF WithVectors, s
    <2>2. v = NULL \/ v.clean
      OBVIOUS
    <2> HIDE DEF v, c
    <2> QED BY <1>1, <2>1, <2>2 DEF NoOlder, Untitled, Unclean, Rows
  <1> QED BY <1>2, <1>3 DEF Models

-----------------------------------------------------------------------------
(* What a step of one pass leaves to show *)

\* No process but k learns or forgets anything.
Acts(k, r) == Step(k, r) \/ Disturbing(k, r)

LEMMA OthersKnow ==
    ASSUME pass \in [Passes -> PassRecords], NEW k, NEW r, Acts(k, r), Fewer,
           NEW j \in Passes, j # k, TextPlan(j), SparsePlan(j)
    PROVE  TextPlan(j)' /\ SparsePlan(j)'
  <1>1. pass[j] \in PassRecords
    OBVIOUS
  <1>2. /\ pass'[j].pc = pass[j].pc /\ pass'[j].plan = pass[j].plan
        /\ pass'[j].model = pass[j].model /\ pass'[j].todo = pass[j].todo
        /\ pass'[j].unrewritten = pass[j].unrewritten
    <2>1. pass'[j] = pass[j] \/ pass'[j] = [pass[j] EXCEPT !.quiet = FALSE]
      BY DEF Acts, Step, Disturbing
    <2> QED BY <1>1, <2>1 DEF PassRecords
  <1>3. TodoNotes(j)' = TodoNotes(j)
    BY <1>2 DEF TodoNotes
  <1> QED BY <1>2, <1>3 DEF TextPlan, SparsePlan, Fewer

LEMMA ActorNext ==
    ASSUME pass \in [Passes -> PassRecords], NEW k \in Passes, NEW r, Acts(k, r)
    PROVE  pass'[k] = r
  BY DEF Acts, Step, Disturbing

LEMMA Keeps ==
    ASSUME IInv, Fewer, NEW k, NEW r, Acts(k, r),
           k \in Passes => TextPlan(k)' /\ SparsePlan(k)',
           textStamp' => textStamp \/ UntitledNotes' = {},
           sparseStamp' => sparseStamp \/ UncleanNotes' = {}
    PROVE  StampInv'
  <1>1. \A j \in Passes : TextPlan(j)' /\ SparsePlan(j)'
    BY OthersKnow DEF IInv, TypeOK, StampInv
  <1>2. OldHaveText'
    BY DEF IInv, StampInv, OldHaveText, Fewer
  <1> QED BY <1>1, <1>2 DEF IInv, StampInv, Fewer

LEMMA SameRowsFewer ==
    ASSUME rows' = rows
    PROVE  Fewer /\ UntitledNotes' = UntitledNotes /\ UncleanNotes' = UncleanNotes
  BY DEF Fewer, UntitledNotes, UncleanNotes, Stored

\* A pass that goes back to idle, or starts, knows and needs nothing.
LEMMA NothingKnown ==
    ASSUME NEW k, pass'[k].plan = "none", pass'[k].pc \in {"idle", "load"}
    PROVE  TextPlan(k)' /\ SparsePlan(k)'
  BY DEF TextPlan, SparsePlan

-----------------------------------------------------------------------------
(* One lemma per action *)

LEMMA IndexerStamps ==
    ASSUME IInv, Indexer
    PROVE  StampInv'
  <1>0. ASSUME Disturbing("indexer", Idle), "indexer" \in Passes
        PROVE  TextPlan("indexer")' /\ SparsePlan("indexer")'
    <2>1. Idle.plan = "none" /\ Idle.pc = "idle"
      BY DEF Idle
    <2> QED BY <1>0, <2>1, ActorNext, NothingKnown DEF IInv, TypeOK, Acts
  <1>1. ASSUME NEW n \in Notes, DeleteNote(n)
        PROVE  StampInv'
    <2>1. Fewer
      BY <1>1 DEF DeleteNote, Fewer, UntitledNotes, UncleanNotes, Stored, IInv, TypeOK
    <2> QED BY <1>0, <1>1, <2>1, Keeps DEF DeleteNote, Written, Acts
  <1>2. ASSUME NEW n \in Notes, NEW t \in Texts, StoreNote(n, t)
        PROVE  StampInv'
    <2>1. ASSUME NEW x \in Notes PROVE NoOlder(rows[x], rows'[x])
      <3>1. CASE rows[n] # Absent /\ rows' = [rows EXCEPT ![n] = [@ EXCEPT !.units = NULL]]
        <4>1. rows[n] \in Rows
          BY <3>1 DEF IInv, TypeOK
        <4> QED BY <3>1, <4>1 DEF IInv, TypeOK, NoOlder, Untitled, Unclean, Rows
      <3>2. CASE rows' = [rows EXCEPT ![n] = NewRow(t)]
        BY <3>2 DEF IInv, TypeOK, NoOlder, Untitled, Unclean, NewRow
      <3> QED BY <1>2, <3>1, <3>2 DEF StoreNote
    <2>2. Fewer
      BY <2>1, FewerByRow
    <2> QED BY <1>0, <1>2, <2>2, Keeps DEF StoreNote, Written, Acts
  <1> QED BY <1>1, <1>2 DEF Indexer

LEMMA StartStamps ==
    ASSUME IInv, NEW k \in Passes, NEW m \in Models, NEW full \in BOOLEAN,
           NEW titles \in BOOLEAN, Start(k, m, full, titles)
    PROVE  StampInv'
  <1> DEFINE r == [Idle EXCEPT !.pc = "load", !.model = m, !.full = full, !.titles = titles]
  <1>1. r.plan = "none" /\ r.pc = "load"
    BY DEF Idle
  <1>2. Acts(k, r) /\ rows' = rows /\ textStamp' = textStamp /\ sparseStamp' = sparseStamp
    BY DEF Start, DatabaseSame, Acts
  <1> HIDE DEF r
  <1> QED BY <1>1, <1>2, ActorNext, NothingKnown, SameRowsFewer, Keeps DEF IInv, TypeOK

LEMMA AbortStamps ==
    ASSUME IInv, NEW k \in Passes, Abort(k)
    PROVE  StampInv'
  <1>1. Idle.plan = "none" /\ Idle.pc = "idle"
    BY DEF Idle
  <1>2. Acts(k, Idle) /\ rows' = rows /\ textStamp' = textStamp /\ sparseStamp' = sparseStamp
    BY DEF Abort, DatabaseSame, Acts
  <1> QED BY <1>1, <1>2, ActorNext, NothingKnown, SameRowsFewer, Keeps DEF IInv, TypeOK

LEMMA LoadStamps ==
    ASSUME IInv, NEW k \in Passes, loadEmbedder(k)
    PROVE  StampInv'
  <1>1. PICK r : Step(k, r) /\ r.pc = "plan" /\ r.plan = pass[k].plan
    <2> DEFINE plain == [pass[k] EXCEPT !.pc = "plan"]
               sidecar == [pass[k] EXCEPT !.pc = "plan", !.sidecar = TRUE]
               fallback == [pass[k] EXCEPT !.pc = "plan", !.model = "minilm"]
    <2>1. \A r \in {plain, sidecar, fallback} : r.pc = "plan" /\ r.plan = pass[k].plan
      BY DEF IInv, TypeOK, PassRecords
    <2>2. \E r \in {plain, sidecar, fallback} : Step(k, r)
      BY DEF loadEmbedder, Goto
    <2> QED BY <2>1, <2>2
  <1>2. Fewer /\ UntitledNotes' = UntitledNotes
    BY SameRowsFewer DEF loadEmbedder, DatabaseSame
  <1>3. pass'[k] = r
    BY <1>1, ActorNext DEF Acts, IInv, TypeOK
  <1>4. TextPlan(k)' /\ SparsePlan(k)'
    BY <1>1, <1>2, <1>3 DEF IInv, StampInv, TextPlan, SparsePlan
  <1> QED BY <1>1, <1>2, <1>4, Keeps DEF loadEmbedder, DatabaseSame, Acts

LEMMA PlanStamps ==
    ASSUME IInv, NEW k \in Passes, prepareEmbedText(k)
    PROVE  StampInv'
  <1> DEFINE pc == IF pass[k].full THEN "purge" ELSE "sparse"
             plan == IF ~ EmbedTextStale THEN "write"
                     ELSE IF pass[k].titles THEN "upgrade" ELSE "none"
             r == [pass[k] EXCEPT !.pc = pc, !.plan = plan]
  <1>1. Acts(k, r) /\ rows' = rows /\ textStamp' = textStamp /\ sparseStamp' = sparseStamp
    BY DEF prepareEmbedText, DatabaseSame, Acts
  <1>2. Fewer /\ UntitledNotes' = UntitledNotes
    BY <1>1, SameRowsFewer
  <1>3. plan = "write" => UntitledNotes = {}
    BY DEF EmbedTextStale, SomeDense, UntitledNotes, Untitled, IInv, StampInv
  <1>4. r.pc = pc /\ r.plan = plan
    BY DEF IInv, TypeOK, PassRecords
  <1>5. pc \in {"purge", "sparse"}
    OBVIOUS
  <1> HIDE DEF r, pc, plan
  <1>6. pass'[k] = r
    BY <1>1, ActorNext DEF IInv, TypeOK
  <1>7. TextPlan(k)' /\ SparsePlan(k)'
    BY <1>2, <1>3, <1>4, <1>5, <1>6 DEF TextPlan, SparsePlan
  <1> QED BY <1>1, <1>2, <1>7, Keeps

LEMMA PurgeStamps ==
    ASSUME IInv, NEW k \in Passes, PurgeEmbeddings(k)
    PROVE  StampInv'
  <1> DEFINE r == [pass[k] EXCEPT !.pc = "sparse", !.purged = SomeDense \/ SomeFull]
  <1>1. Acts(k, r) /\ textStamp' = textStamp /\ sparseStamp' = sparseStamp
    BY DEF PurgeEmbeddings, Acts
  <1>2. ASSUME NEW n \in Notes PROVE NoOlder(rows[n], rows'[n])
    <2>1. CASE rows[n] = Absent
      BY <2>1 DEF PurgeEmbeddings, NoOlder
    <2>2. CASE rows[n] \in Rows
      BY <2>2, ClearedNoOlder DEF PurgeEmbeddings, NoOlder
    <2> QED BY <2>1, <2>2 DEF IInv, TypeOK
  <1>3. Fewer
    BY <1>2, FewerByRow
  <1>4. r.pc = "sparse" /\ r.plan = pass[k].plan
    BY DEF IInv, TypeOK, PassRecords
  <1> HIDE DEF r
  <1>5. pass'[k] = r
    BY <1>1, ActorNext DEF IInv, TypeOK
  <1>6. TextPlan(k)' /\ SparsePlan(k)'
    BY <1>3, <1>4, <1>5 DEF TextPlan, SparsePlan, IInv, StampInv, Fewer
  <1> QED BY <1>1, <1>3, <1>6, Keeps

LEMMA SparseStamps ==
    ASSUME IInv, NEW k \in Passes, maybeUpgradeSparse(k)
    PROVE  StampInv'
  <1>0. pass[k] \in PassRecords
    BY DEF IInv, TypeOK
  <1>1. rows' = rows /\ textStamp' = textStamp /\ sparseStamp' = sparseStamp
    BY DEF maybeUpgradeSparse, DatabaseSame
  <1>2. Fewer /\ UntitledNotes' = UntitledNotes /\ UncleanNotes' = UncleanNotes
    BY <1>1, SameRowsFewer
  <1>3. CASE pass[k].plan # "upgrade" /\ pass[k].model = "bge-m3" /\ SparseFormatStale
    <2> DEFINE todo == Work({n \in Stored : rows[n].sparse # NULL})
               r == [pass[k] EXCEPT !.pc = "resparse", !.todo = todo]
    <2>1. Acts(k, r)
      BY <1>3 DEF maybeUpgradeSparse, Acts
    <2>2. r.pc = "resparse" /\ r.todo = todo /\ r.plan = pass[k].plan
      BY <1>0 DEF PassRecords
    <2>3. ASSUME NEW n \in UncleanNotes
          PROVE  n \in {w.id : w \in todo}
      BY WorkIds DEF UncleanNotes, Unclean
    <2> HIDE DEF r, todo
    <2>4. pass'[k] = r
      BY <2>1, ActorNext DEF IInv, TypeOK
    <2>5. TextPlan(k)' /\ SparsePlan(k)'
      BY <1>2, <2>2, <2>3, <2>4 DEF TextPlan, SparsePlan, TodoNotes, IInv, StampInv
    <2> QED BY <1>1, <1>2, <2>1, <2>5, Keeps
  <1>4. CASE ~ (pass[k].plan # "upgrade" /\ pass[k].model = "bge-m3" /\ SparseFormatStale)
    <2> DEFINE r == [pass[k] EXCEPT !.pc = "text"]
    <2>1. Acts(k, r)
      BY <1>4 DEF maybeUpgradeSparse, Acts, Goto
    <2>2. r.pc = "text" /\ r.model = pass[k].model /\ r.plan = pass[k].plan
      BY <1>0 DEF PassRecords
    <2>3. pass[k].model = "bge-m3" /\ pass[k].plan # "upgrade" => UncleanNotes = {}
      BY <1>4 DEF SparseFormatStale, UncleanNotes, Unclean, IInv, StampInv
    <2> HIDE DEF r
    <2>4. pass'[k] = r
      BY <2>1, ActorNext DEF IInv, TypeOK
    <2>5. TextPlan(k)' /\ SparsePlan(k)'
      BY <1>2, <2>2, <2>3, <2>4 DEF TextPlan, SparsePlan, IInv, StampInv
    <2> QED BY <1>1, <1>2, <2>1, <2>5, Keeps
  <1> QED BY <1>3, <1>4

LEMMA ReembedStamps ==
    ASSUME IInv, NEW k \in Passes, NEW w \in pass[k].todo, reembedSparseNotes(k, w)
    PROVE  StampInv'
  <1> DEFINE v == [of |-> w.text, clean |-> TRUE]
             todo == pass[k].todo \ {w}
             r == [pass[k] EXCEPT !.todo = todo, !.upgraded = TRUE]
  <1>0. pass[k] \in PassRecords /\ rows[w.id] \in Rows /\ w.id \in Notes
    BY TodoType DEF IInv, TypeOK, reembedSparseNotes, Stored
  <1>1. Acts(k, r) /\ textStamp' = textStamp /\ sparseStamp' = sparseStamp /\ pass[k].pc = "resparse"
    BY DEF reembedSparseNotes, Acts, At
  <1>2. v.clean /\ rows' = [rows EXCEPT ![w.id] = [rows[w.id] EXCEPT !.sparse = v]]
    BY DEF reembedSparseNotes
  <1> HIDE DEF v
  <1>3. /\ rows'[w.id].dense = rows[w.id].dense /\ rows'[w.id].text = rows[w.id].text
        /\ rows'[w.id].sparse = v /\ rows[w.id] # Absent
        /\ \A n \in Notes : n # w.id => rows'[n] = rows[n]
    BY <1>0, <1>2 DEF IInv, TypeOK, Rows, reembedSparseNotes, Stored
  <1>4. \A n \in Notes : NoOlder(rows[n], rows'[n])
    BY <1>2, <1>3 DEF NoOlder, Untitled, Unclean
  <1>5. Fewer /\ w.id \notin UncleanNotes'
    BY <1>2, <1>3, <1>4, FewerByRow DEF UncleanNotes, Unclean
  <1>6. r.pc = "resparse" /\ r.todo = todo /\ r.plan = pass[k].plan /\ r.model = pass[k].model
    BY <1>0, <1>1 DEF PassRecords
  <1>7. UncleanNotes' \subseteq {x.id : x \in todo}
    BY <1>1, <1>5 DEF IInv, StampInv, SparsePlan, TodoNotes, Fewer
  <1> HIDE DEF r, todo
  <1>8. pass'[k] = r
    BY <1>1, ActorNext DEF IInv, TypeOK
  <1>9. TextPlan(k)' /\ SparsePlan(k)'
    BY <1>5, <1>6, <1>7, <1>8 DEF TextPlan, SparsePlan, TodoNotes, IInv, StampInv, Fewer
  <1> QED BY <1>1, <1>5, <1>9, Keeps

LEMMA ReembedDoneStamps ==
    ASSUME IInv, NEW k \in Passes, ReembedStaleSparse(k)
    PROVE  StampInv'
  <1> DEFINE r == [pass[k] EXCEPT !.pc = "text"]
  <1>1. /\ Acts(k, r) /\ rows' = rows /\ textStamp' = textStamp
        /\ pass[k].pc = "resparse" /\ pass[k].todo = {}
    BY DEF ReembedStaleSparse, Acts, Goto, At
  <1>2. Fewer /\ UntitledNotes' = UntitledNotes /\ UncleanNotes' = UncleanNotes
    BY <1>1, SameRowsFewer
  <1>3. UncleanNotes = {}
    BY <1>1 DEF IInv, StampInv, SparsePlan, TodoNotes
  <1>4. r.pc = "text" /\ r.plan = pass[k].plan
    BY DEF IInv, TypeOK, PassRecords
  <1> HIDE DEF r
  <1>5. pass'[k] = r
    BY <1>1, ActorNext DEF IInv, TypeOK
  <1>6. TextPlan(k)' /\ SparsePlan(k)'
    BY <1>2, <1>3, <1>4, <1>5 DEF TextPlan, SparsePlan, IInv, StampInv
  <1> QED BY <1>1, <1>2, <1>3, <1>6, Keeps

LEMMA TextStamps ==
    ASSUME IInv, NEW k \in Passes, stampTextIfCurrent(k)
    PROVE  StampInv'
  <1> DEFINE r == [pass[k] EXCEPT !.pc = "select"]
  <1>1. Acts(k, r) /\ rows' = rows /\ sparseStamp' = sparseStamp /\ pass[k].pc = "text"
    BY DEF stampTextIfCurrent, Acts, Goto, At
  <1>2. Fewer /\ UntitledNotes' = UntitledNotes /\ UncleanNotes' = UncleanNotes
    BY <1>1, SameRowsFewer
  <1>3. textStamp' => textStamp \/ UntitledNotes' = {}
    BY <1>2 DEF stampTextIfCurrent, IInv, StampInv, TextPlan
  <1>4. r.pc = "select" /\ r.plan = pass[k].plan /\ r.model = pass[k].model
    BY DEF IInv, TypeOK, PassRecords
  <1> HIDE DEF r
  <1>5. pass'[k] = r
    BY <1>1, ActorNext DEF IInv, TypeOK
  <1>6. TextPlan(k)' /\ SparsePlan(k)'
    BY <1>1, <1>2, <1>4, <1>5 DEF TextPlan, SparsePlan, IInv, StampInv
  <1> QED BY <1>1, <1>2, <1>3, <1>6, Keeps

LEMMA SelectStamps ==
    ASSUME IInv, NEW k \in Passes, loadPendingNoteTexts(k)
    PROVE  StampInv'
  <1> DEFINE todo == {w \in Work(embedNoteQueries(k)) : w.text \notin EmptyBody}
             r == [pass[k] EXCEPT !.pc = "embed", !.todo = todo]
  <1>1. /\ Acts(k, r) /\ rows' = rows /\ textStamp' = textStamp /\ sparseStamp' = sparseStamp
        /\ pass[k].pc = "select"
    BY DEF loadPendingNoteTexts, DatabaseSame, Acts, At
  <1>2. Fewer /\ UntitledNotes' = UntitledNotes /\ UncleanNotes' = UncleanNotes
    BY <1>1, SameRowsFewer
  <1>3. ASSUME pass[k].plan = "upgrade", NEW n \in UntitledNotes \cup UncleanNotes
        PROVE  n \in {w.id : w \in todo}
    <2> DEFINE w == [id |-> n, text |-> rows[n].text]
    <2>1. n \in Stored /\ rows[n].text \notin EmptyBody
      BY <1>3 DEF IInv, StampInv, OldHaveText, UntitledNotes, UncleanNotes
    <2>2. w \in Work(embedNoteQueries(k)) /\ w.text = rows[n].text /\ w.id = n
      BY <1>3, <2>1 DEF Work, embedNoteQueries
    <2> HIDE DEF w
    <2> QED BY <2>1, <2>2
  <1>4. r.pc = "embed" /\ r.plan = pass[k].plan /\ r.model = pass[k].model /\ r.todo = todo
    BY DEF IInv, TypeOK, PassRecords
  <1> HIDE DEF r, todo
  <1>5. pass'[k] = r
    BY <1>1, ActorNext DEF IInv, TypeOK
  <1>6. TextPlan(k)' /\ SparsePlan(k)'
    BY <1>1, <1>2, <1>3, <1>4, <1>5 DEF TextPlan, SparsePlan, TodoNotes, IInv, StampInv
  <1> QED BY <1>1, <1>2, <1>6, Keeps

\* A row after a batch: as it was, or with new vectors of what was embedded.
LEMMA RowAfterNoOlder ==
    ASSUME TypeOK, NEW m \in Models, NEW batch \in SUBSET [id : Notes, text : Texts], NEW n \in Notes
    PROVE  /\ NoOlder(rows[n], RowAfter(n, m, batch))
           /\ RowAfter(n, m, batch) # Absent /\ (\E w \in WithOutput(m, batch) : w.id = n) =>
                /\ ~ Untitled(RowAfter(n, m, batch))
                /\ m = "bge-m3" => ~ Unclean(RowAfter(n, m, batch))
  <1> DEFINE mine == {w \in WithOutput(m, batch) : w.id = n}
  <1>0. rows[n] \in Rows \cup {Absent}
    BY DEF TypeOK
  <1>1. CASE rows[n] = Absent \/ mine = {}
    <2>1. RowAfter(n, m, batch) = rows[n]
      BY <1>1 DEF RowAfter
    <2> QED BY <1>1, <2>1 DEF NoOlder
  <1>2. CASE rows[n] # Absent /\ mine # {}
    <2>1. PICK w \in mine : w = CHOOSE x \in mine : TRUE
      BY <1>2
    <2>2. w.text \in Texts
      BY <2>1 DEF WithOutput
    <2>3. RowAfter(n, m, batch) = WithVectors(rows[n], m, w.text)
      BY <1>2, <2>1 DEF RowAfter
    <2> QED BY <1>0, <1>2, <2>2, <2>3, WithVectorsNoOlder
  <1> QED BY <1>1, <1>2

LEMMA EmbedStamps ==
    ASSUME IInv, NEW k \in Passes, NEW batch \in SUBSET pass[k].todo, EmbedBatch(k, batch)
    PROVE  StampInv'
  <1> DEFINE m == pass[k].model
             done == WithOutput(m, batch)
             left == pass[k].todo \ batch
             unrewritten == appendUnrewritten(k, batch \ done)
             embedded == pass[k].embedded \/ done # {}
             r == [pass[k] EXCEPT !.todo = left, !.unrewritten = unrewritten, !.embedded = embedded]
  <1>0. /\ pass[k] \in PassRecords /\ m \in Models /\ done \subseteq batch
        /\ batch \in SUBSET [id : Notes, text : Texts]
    BY DEF IInv, TypeOK, PassRecords, WithOutput
  <1>1. /\ Acts(k, r) /\ textStamp' = textStamp /\ sparseStamp' = sparseStamp
        /\ rows' = [n \in Notes |-> RowAfter(n, m, batch)] /\ pass[k].pc = "embed"
    BY DEF EmbedBatch, Acts, At
  <1>2. Fewer
    BY <1>0, <1>1, RowAfterNoOlder, FewerByRow DEF IInv
  <1>3. ASSUME NEW w \in done
        PROVE  w.id \notin UntitledNotes' /\ (m = "bge-m3" => w.id \notin UncleanNotes')
    <2>1. w.id \in Notes
      BY <1>0, <1>3
    <2> QED BY <1>0, <1>1, <2>1, RowAfterNoOlder DEF IInv, UntitledNotes, UncleanNotes, Stored
  <1>4. ASSUME pass[k].plan = "upgrade", NEW n \in TodoNotes(k) \cup pass[k].unrewritten,
               n \notin {w.id : w \in done}
        PROVE  n \in {w.id : w \in left} \cup unrewritten
    BY <1>4 DEF TodoNotes, appendUnrewritten
  <1>5. /\ r.pc = "embed" /\ r.plan = pass[k].plan /\ r.model = m /\ r.todo = left
        /\ r.unrewritten = unrewritten
    BY <1>0, <1>1 DEF PassRecords
  <1> HIDE DEF r, left, unrewritten, done
  <1>6. pass'[k] = r
    BY <1>1, ActorNext DEF IInv, TypeOK
  <1>7. pass[k].plan = "upgrade" => UntitledNotes' \subseteq {w.id : w \in left} \cup unrewritten
    BY <1>1, <1>2, <1>3, <1>4 DEF IInv, StampInv, TextPlan, Fewer
  <1>8. pass[k].plan = "upgrade" /\ m = "bge-m3" =>
           UncleanNotes' \subseteq {w.id : w \in left} \cup unrewritten
    BY <1>1, <1>2, <1>3, <1>4 DEF IInv, StampInv, SparsePlan, Fewer
  <1>9. TextPlan(k)' /\ SparsePlan(k)'
    BY <1>1, <1>2, <1>5, <1>6, <1>7, <1>8 DEF TextPlan, SparsePlan, TodoNotes, IInv, StampInv, Fewer
  <1> QED BY <1>1, <1>2, <1>9, Keeps

LEMMA FailStamps ==
    ASSUME IInv, NEW k \in Passes, NEW batch \in SUBSET pass[k].todo, FailBatch(k, batch)
    PROVE  StampInv'
  <1> DEFINE left == pass[k].todo \ batch
             unrewritten == appendUnrewritten(k, batch)
             r == [pass[k] EXCEPT !.todo = left, !.failed = TRUE, !.unrewritten = unrewritten]
  <1>0. pass[k] \in PassRecords
    BY DEF IInv, TypeOK
  <1>1. /\ Acts(k, r) /\ rows' = rows /\ textStamp' = textStamp /\ sparseStamp' = sparseStamp
        /\ pass[k].pc = "embed"
    BY DEF FailBatch, DatabaseSame, Acts, At
  <1>2. Fewer /\ UntitledNotes' = UntitledNotes /\ UncleanNotes' = UncleanNotes
    BY <1>1, SameRowsFewer
  <1>3. pass[k].plan = "upgrade" =>
           TodoNotes(k) \cup pass[k].unrewritten \subseteq {w.id : w \in left} \cup unrewritten
    BY DEF TodoNotes, appendUnrewritten
  <1>4. /\ r.pc = "embed" /\ r.plan = pass[k].plan /\ r.model = pass[k].model /\ r.todo = left
        /\ r.unrewritten = unrewritten
    BY <1>0, <1>1 DEF PassRecords
  <1> HIDE DEF r, left, unrewritten
  <1>5. pass'[k] = r
    BY <1>1, ActorNext DEF IInv, TypeOK
  <1>6. TextPlan(k)'
    BY <1>1, <1>2, <1>3, <1>4, <1>5 DEF TextPlan, TodoNotes, IInv, StampInv
  <1>7. SparsePlan(k)'
    BY <1>1, <1>2, <1>3, <1>4, <1>5 DEF SparsePlan, TodoNotes, IInv, StampInv
  <1> QED BY <1>1, <1>2, <1>6, <1>7, Keeps

LEMMA ClearStamps ==
    ASSUME IInv, NEW k \in Passes, clearNoteVectors(k)
    PROVE  StampInv'
  <1> DEFINE r == [pass[k] EXCEPT !.pc = "units"]
  <1>0. pass[k] \in PassRecords
    BY DEF IInv, TypeOK
  <1>1. /\ Acts(k, r) /\ textStamp' = textStamp /\ sparseStamp' = sparseStamp
        /\ pass[k].pc = "embed" /\ pass[k].todo = {}
    BY DEF clearNoteVectors, Acts, At
  <1>2. ASSUME NEW n \in Notes
        PROVE  /\ NoOlder(rows[n], rows'[n])
               /\ n \in pass[k].unrewritten /\ rows'[n] # Absent =>
                     ~ Untitled(rows'[n]) /\ ~ Unclean(rows'[n])
    <2>1. CASE n \in pass[k].unrewritten /\ rows[n] # Absent
      <3>1. rows'[n] = Cleared(rows[n]) /\ rows[n] \in Rows
        BY <2>1 DEF clearNoteVectors, IInv, TypeOK
      <3> QED BY <3>1, ClearedNoOlder DEF Cleared, Unclean, Rows
    <2>2. CASE ~ (n \in pass[k].unrewritten /\ rows[n] # Absent)
      BY <2>2 DEF clearNoteVectors, NoOlder
    <2> QED BY <2>1, <2>2
  <1>3. Fewer
    BY <1>2, FewerByRow
  <1>4. r.pc = "units" /\ r.plan = pass[k].plan /\ r.model = pass[k].model
    BY <1>0 DEF PassRecords
  <1> HIDE DEF r
  <1>5. pass'[k] = r
    BY <1>1, ActorNext DEF IInv, TypeOK
  <1>6. TodoNotes(k) = {}
    BY <1>1 DEF TodoNotes
  <1>7. \A n \in pass[k].unrewritten : n \notin UntitledNotes' /\ n \notin UncleanNotes'
    BY <1>2 DEF UntitledNotes, UncleanNotes, Stored
  <1>8. TextPlan(k)'
    BY <1>1, <1>3, <1>4, <1>5, <1>6, <1>7 DEF TextPlan, IInv, StampInv, Fewer
  <1>9. SparsePlan(k)'
    BY <1>1, <1>3, <1>4, <1>5, <1>6, <1>7 DEF SparsePlan, IInv, StampInv, Fewer
  <1> QED BY <1>1, <1>3, <1>8, <1>9, Keeps

LEMMA UnitsStamps ==
    ASSUME IInv, NEW k \in Passes, finishPassageEmbedding(k)
    PROVE  StampInv'
  <1> DEFINE todo == IF pass[k].model = "bge-m3" /\ ~ pass[k].sidecar
                     THEN Work(passagePending) ELSE {}
             r == [pass[k] EXCEPT !.pc = "passages", !.todo = todo]
  <1>1. /\ Acts(k, r) /\ rows' = rows /\ textStamp' = textStamp /\ sparseStamp' = sparseStamp
        /\ pass[k].pc = "units"
    BY DEF finishPassageEmbedding, DatabaseSame, Acts, At
  <1>2. Fewer /\ UntitledNotes' = UntitledNotes /\ UncleanNotes' = UncleanNotes
    BY <1>1, SameRowsFewer
  <1>3. r.pc = "passages" /\ r.plan = pass[k].plan /\ r.model = pass[k].model
    BY DEF IInv, TypeOK, PassRecords
  <1> HIDE DEF r
  <1>4. pass'[k] = r
    BY <1>1, ActorNext DEF IInv, TypeOK
  <1>5. TextPlan(k)' /\ SparsePlan(k)'
    BY <1>1, <1>2, <1>3, <1>4 DEF TextPlan, SparsePlan, IInv, StampInv
  <1> QED BY <1>1, <1>2, <1>5, Keeps

LEMMA PassageStamps ==
    ASSUME IInv, NEW k \in Passes, NEW w \in pass[k].todo, storePassageNote(k, w)
    PROVE  StampInv'
  <1> DEFINE todo == pass[k].todo \ {w}
             r == [pass[k] EXCEPT !.todo = todo]
             u == [of |-> w.text]
  <1>0. pass[k] \in PassRecords /\ rows[w.id] \in Rows /\ w.id \in Notes /\ rows[w.id] # Absent
    BY TodoType DEF IInv, TypeOK, storePassageNote, Current, Stored
  <1>1. /\ Acts(k, r) /\ textStamp' = textStamp /\ sparseStamp' = sparseStamp
        /\ rows' = [rows EXCEPT ![w.id] = [rows[w.id] EXCEPT !.units = u]] /\ pass[k].pc = "passages"
    BY DEF storePassageNote, Acts, At
  <1> HIDE DEF u
  <1>2. \A n \in Notes : NoOlder(rows[n], rows'[n])
    BY <1>0, <1>1 DEF NoOlder, Untitled, Unclean, Rows, IInv, TypeOK
  <1>3. Fewer
    BY <1>2, FewerByRow
  <1>4. r.pc = "passages" /\ r.plan = pass[k].plan /\ r.model = pass[k].model
    BY <1>0, <1>1 DEF PassRecords
  <1> HIDE DEF r
  <1>5. pass'[k] = r
    BY <1>1, ActorNext DEF IInv, TypeOK
  <1>6. TextPlan(k)' /\ SparsePlan(k)'
    BY <1>1, <1>3, <1>4, <1>5 DEF TextPlan, SparsePlan, IInv, StampInv, Fewer
  <1> QED BY <1>1, <1>3, <1>6, Keeps

LEMMA EndStamps ==
    ASSUME IInv, NEW k \in Passes, stampEmbedPass(k)
    PROVE  StampInv'
  <1>1. rows' = rows /\ textStamp' = textStamp /\ pass[k].pc = "passages"
    BY DEF stampEmbedPass, At
  <1>2. Fewer /\ UntitledNotes' = UntitledNotes /\ UncleanNotes' = UncleanNotes
    BY <1>1, SameRowsFewer
  <1>3. sparseStamp' => sparseStamp \/ UncleanNotes' = {}
    BY <1>1, <1>2 DEF stampEmbedPass, IInv, StampInv, SparsePlan
  <1>4. CASE pass[k].plan = "upgrade"
    <2> DEFINE r == [pass[k] EXCEPT !.pc = "stamp"]
    <2>1. Acts(k, r)
      BY <1>4 DEF stampEmbedPass, Acts, Goto
    <2>2. r.pc = "stamp" /\ r.plan = "upgrade" /\ r.model = pass[k].model
      BY <1>4 DEF IInv, TypeOK, PassRecords
    <2> HIDE DEF r
    <2>3. pass'[k] = r
      BY <2>1, ActorNext DEF IInv, TypeOK
    <2>4. TextPlan(k)' /\ SparsePlan(k)'
      BY <1>1, <1>2, <1>4, <2>2, <2>3 DEF TextPlan, SparsePlan, IInv, StampInv
    <2> QED BY <1>1, <1>2, <1>3, <2>1, <2>4, Keeps
  <1>5. CASE pass[k].plan # "upgrade"
    <2>1. Acts(k, Idle)
      BY <1>5 DEF stampEmbedPass, Acts
    <2>2. Idle.plan = "none" /\ Idle.pc = "idle"
      BY DEF Idle
    <2> QED BY <1>1, <1>2, <1>3, <2>1, <2>2, ActorNext, NothingKnown, Keeps DEF IInv, TypeOK
  <1> QED BY <1>4, <1>5

LEMMA UpgradeStamps ==
    ASSUME IInv, NEW k \in Passes, writeUpgradeStamps(k)
    PROVE  StampInv'
  <1>1. Acts(k, Idle) /\ rows' = rows /\ sparseStamp' = sparseStamp /\ pass[k].pc = "stamp"
    BY DEF writeUpgradeStamps, Acts, At
  <1>2. Idle.plan = "none" /\ Idle.pc = "idle"
    BY DEF Idle
  <1>3. Fewer /\ UntitledNotes' = UntitledNotes
    BY <1>1, SameRowsFewer
  <1>4. UntitledNotes' = {}
    BY <1>1, <1>3 DEF IInv, StampInv, TextPlan
  <1> QED BY <1>1, <1>2, <1>3, <1>4, ActorNext, NothingKnown, Keeps DEF IInv, TypeOK

-----------------------------------------------------------------------------
(* The theorems *)

LEMMA LegacyHaveText ==
    ASSUME NEW v, NEW r \in LegacyRows(v)
    PROVE  /\ Untitled(r) \/ Unclean(r) => r.text \notin EmptyBody
           /\ v = "bge-m3 clean" => ~ Unclean(r)
  <1> DEFINE full == {LegacyFull(v, t) : t \in (Texts \ EmptyBody) \ NoTokens}
             cleared == {[x EXCEPT !.dense = NULL, !.colbert = NULL] : x \in full}
             minilm == {[NewRow(t) EXCEPT !.dense = LegacyDense(v, t)] : t \in Texts \ EmptyBody}
             new == {NewRow(t) : t \in Texts}
  <1>1. r \in new \/ r \in minilm \/ r \in full \/ r \in cleared
    <2>1. LegacyRows(v) = new \cup (CASE v = "never" -> {} [] v = "minilm" -> minilm
                                      [] OTHER -> full \cup cleared)
      BY DEF LegacyRows
    <2> HIDE DEF new, minilm, full, cleared
    <2> QED BY <2>1
  <1>2. CASE r \in new
    <2>1. PICK t \in Texts : r = NewRow(t)
      BY <1>2
    <2> HIDE DEF new, minilm, full, cleared
    <2> QED BY <2>1 DEF NewRow, Untitled, Unclean
  <1>3. CASE r \in minilm
    <2>1. PICK t \in Texts \ EmptyBody : r = [NewRow(t) EXCEPT !.dense = LegacyDense(v, t)]
      BY <1>3
    <2> HIDE DEF new, minilm, full, cleared
    <2> QED BY <2>1 DEF NewRow, Untitled, Unclean
  <1>4. ASSUME NEW t \in (Texts \ EmptyBody) \ NoTokens
        PROVE  /\ LegacyFull(v, t).text = t
               /\ v = "bge-m3 clean" => ~ Unclean(LegacyFull(v, t))
               /\ [LegacyFull(v, t) EXCEPT !.dense = NULL, !.colbert = NULL].text = t
               /\ [LegacyFull(v, t) EXCEPT !.dense = NULL, !.colbert = NULL].sparse
                     = LegacyFull(v, t).sparse
    <2> DEFINE c == [of |-> t]
               s == [of |-> t, clean |-> v = "bge-m3 clean"]
               d == LegacyDense(v, t)
               x == [NewRow(t) EXCEPT !.dense = d, !.colbert = c, !.sparse = s]
    <2>1. LegacyFull(v, t) = x
      BY DEF LegacyFull
    <2>2. v = "bge-m3 clean" => s.clean
      OBVIOUS
    <2> HIDE DEF c, s, d, new, minilm, full, cleared
    <2>3. x.text = t /\ x.sparse = s
      BY DEF NewRow
    <2>4. /\ [x EXCEPT !.dense = NULL, !.colbert = NULL].text = t
          /\ [x EXCEPT !.dense = NULL, !.colbert = NULL].sparse = s
      BY DEF NewRow
    <2> HIDE DEF x
    <2> QED BY <2>1, <2>2, <2>3, <2>4 DEF Unclean
  <1>5. CASE r \in full
    <2>1. PICK t \in (Texts \ EmptyBody) \ NoTokens : r = LegacyFull(v, t)
      BY <1>5
    <2> QED BY <1>4, <2>1
  <1>6. CASE r \in cleared
    <2>1. PICK t \in (Texts \ EmptyBody) \ NoTokens :
             r = [LegacyFull(v, t) EXCEPT !.dense = NULL, !.colbert = NULL]
      BY <1>6
    <2>2. r.text = t /\ r.sparse = LegacyFull(v, t).sparse
      BY <1>4, <2>1
    <2> QED BY <1>4, <2>2 DEF Unclean
  <1> QED BY <1>1, <1>2, <1>3, <1>5, <1>6

LEMMA InitStamps == Init => StampInv
  <1> SUFFICES ASSUME Init PROVE StampInv
    OBVIOUS
  <1>1. PICK v \in Legacy : /\ rows \in [Notes -> LegacyRows(v) \cup {Absent}]
                            /\ sparseStamp = (v = "bge-m3 clean")
    BY DEF Init
  <1>2. \A k \in Passes : TextPlan(k) /\ SparsePlan(k)
    BY DEF Init, Idle, TextPlan, SparsePlan
  <1>3. \A n \in Stored : n \in Notes /\ rows[n] \in LegacyRows(v)
    BY <1>1 DEF Stored
  <1>4. OldHaveText
    BY <1>3, LegacyHaveText DEF OldHaveText, UntitledNotes, UncleanNotes
  <1>5. sparseStamp => UncleanNotes = {}
    BY <1>1, <1>3, LegacyHaveText DEF UncleanNotes
  <1> QED BY <1>2, <1>4, <1>5 DEF Init, StampInv

LEMMA StepKeepsStamps ==
    ASSUME IInv, [Next]_vars
    PROVE  StampInv'
  <1>1. CASE Indexer
    BY <1>1, IndexerStamps
  <1>2. ASSUME NEW k \in Passes, Begin(k)
        PROVE  StampInv'
    <2>1. CASE \E m \in Models, full \in BOOLEAN : RunEmbed(k, m, full)
      BY <2>1, StartStamps DEF RunEmbed
    <2>2. CASE embedAfterWrite(k)
      <3>1. EmbeddedModel # NULL => EmbeddedModel \in Models
        BY DEF EmbeddedModel, Models
      <3> QED BY <2>2, <3>1, StartStamps DEF embedAfterWrite
    <2> QED BY <1>2, <2>1, <2>2, LoadStamps, PlanStamps, PurgeStamps, SparseStamps,
               ReembedStamps, ReembedDoneStamps, TextStamps DEF Begin
  <1>3. ASSUME NEW k \in Passes, EmbedNotes(k)
        PROVE  StampInv'
    BY <1>3, SelectStamps, EmbedStamps, FailStamps, ClearStamps, UnitsStamps, PassageStamps
       DEF EmbedNotes
  <1>4. CASE UNCHANGED vars
    <2>1. UntitledNotes' = UntitledNotes /\ UncleanNotes' = UncleanNotes
      BY <1>4, SameRowsFewer DEF vars
    <2>2. \A k \in Passes : TextPlan(k)' /\ SparsePlan(k)'
      BY <1>4, <2>1 DEF vars, TextPlan, SparsePlan, TodoNotes, IInv, StampInv
    <2> QED BY <1>4, <2>1, <2>2 DEF vars, IInv, StampInv, OldHaveText
  <1> QED BY <1>1, <1>2, <1>3, <1>4, EndStamps, UpgradeStamps, AbortStamps DEF Next

LEMMA Inductive == Spec => []IInv
  <1>1. Init => IInv
    BY InitType, InitStamps DEF IInv
  <1>2. IInv /\ [Next]_vars => IInv'
    BY StepKeepsType, StepKeepsStamps DEF IInv
  <1> QED BY <1>1, <1>2, PTL DEF Spec

\* The text stamp never claims a vector of title and body where a vector of the
\* body alone is left, for any number of passes that run, fail or end beside
\* each other (embed_text_format.go:16).
THEOREM TextStampAlwaysTrue == Spec => []TextStampTrue
  <1>1. IInv => TextStampTrue
    BY DEF IInv, StampInv, TextStampTrue, UntitledNotes, Untitled
  <1> QED BY <1>1, Inductive, PTL

\* The sparse stamp never claims a column without special tokens while a vector
\* that counts them is left (sparse_format.go:18).
THEOREM SparseStampAlwaysTrue == Spec => []SparseStampTrue
  <1>1. IInv => SparseStampTrue
    BY DEF IInv, StampInv, SparseStampTrue, UncleanNotes, Unclean
  <1> QED BY <1>1, Inductive, PTL

\* The two together: an incremental pass that trusts both stamps skips nothing it
\* should rewrite.
THEOREM StampsAlwaysTrue == Spec => []StampsTrue
  <1>1. TextStampTrue /\ SparseStampTrue => StampsTrue
    BY DEF StampsTrue
  <1> QED BY <1>1, TextStampAlwaysTrue, SparseStampAlwaysTrue, PTL

-----------------------------------------------------------------------------
(* Passage vectors *)

PassageRow(r) == r.units # NULL => r.units.of = r.text /\ r.dense # NULL

LEMMA ClearedPassages ==
    ASSUME NEW r \in Rows, PassageRow(r)
    PROVE  PassageRow(Cleared(r))
  BY DEF PassageRow, Cleared, Rows

LEMMA WithVectorsPassages ==
    ASSUME NEW r \in Rows, PassageRow(r), NEW m, NEW t
    PROVE  PassageRow(WithVectors(r, m, t))
  <1> DEFINE d == Dense(m, t)
             s == WithDense(r, d)
             v == IF t \in NoTokens THEN NULL ELSE [of |-> t, clean |-> TRUE]
             c == IF t \in NoTokens THEN NULL ELSE [of |-> t]
  <1>1. WithVectors(r, m, t) = s \/ WithVectors(r, m, t) = [s EXCEPT !.sparse = v, !.colbert = c]
    BY DEF WithVectors
  <1> HIDE DEF d, v, c
  <1>2. /\ PassageRow(s)
        /\ PassageRow([s EXCEPT !.sparse = v, !.colbert = c])
    BY DEF PassageRow, WithDense, Rows
  <1> QED BY <1>1, <1>2

\* What a step does to each row is enough.
LEMMA ByRow ==
    ASSUME \A n \in Notes : rows'[n] # Absent => PassageRow(rows'[n])
    PROVE  PassagesMatchText'
  BY DEF PassagesMatchText, PassageRow, Stored

LEMMA RowAfterPassages ==
    ASSUME TypeOK, PassagesMatchText, NEW m, NEW batch, NEW n \in Notes,
           RowAfter(n, m, batch) # Absent
    PROVE  PassageRow(RowAfter(n, m, batch))
  <1>1. rows[n] # Absent => rows[n] \in Rows /\ PassageRow(rows[n])
    BY DEF TypeOK, PassagesMatchText, PassageRow, Stored
  <1> QED BY <1>1, WithVectorsPassages DEF RowAfter

LEMMA IndexerPassages ==
    ASSUME TypeOK, PassagesMatchText, Indexer
    PROVE  PassagesMatchText'
  <1>1. ASSUME NEW n \in Notes, rows[n] # Absent
        PROVE  rows[n] \in Rows /\ PassageRow(rows[n])
    BY <1>1 DEF TypeOK, PassagesMatchText, PassageRow, Stored
  <1>2. ASSUME NEW n \in Notes, DeleteNote(n)
        PROVE  PassagesMatchText'
    BY <1>1, <1>2, ByRow DEF DeleteNote, TypeOK
  <1>3. ASSUME NEW n \in Notes, NEW t \in Texts, StoreNote(n, t)
        PROVE  PassagesMatchText'
    <2>1. PassageRow(NewRow(t))
      BY DEF PassageRow, NewRow
    <2>2. rows[n] # Absent => PassageRow([rows[n] EXCEPT !.units = NULL])
      BY <1>1 DEF PassageRow, Rows
    <2> QED BY <1>1, <1>3, <2>1, <2>2, ByRow DEF StoreNote, TypeOK
  <1> QED BY <1>2, <1>3 DEF Indexer

LEMMA PassPassages ==
    ASSUME TypeOK, PassagesMatchText, NEW k \in Passes,
           Begin(k) \/ EmbedNotes(k) \/ stampEmbedPass(k) \/ writeUpgradeStamps(k) \/ Abort(k)
    PROVE  PassagesMatchText'
  <1>1. ASSUME NEW n \in Notes, rows[n] # Absent
        PROVE  rows[n] \in Rows /\ PassageRow(rows[n])
    BY <1>1 DEF TypeOK, PassagesMatchText, PassageRow, Stored
  <1>2. ASSUME rows' = rows
        PROVE  PassagesMatchText'
    BY <1>1, <1>2, ByRow
  <1>3. CASE PurgeEmbeddings(k)
    BY <1>1, <1>3, ClearedPassages, ByRow DEF PurgeEmbeddings
  <1>4. ASSUME NEW w \in pass[k].todo, reembedSparseNotes(k, w)
        PROVE  PassagesMatchText'
    <2> DEFINE v == [of |-> w.text, clean |-> TRUE]
    <2>1. w.id \in Notes /\ rows[w.id] # Absent
      BY <1>4 DEF reembedSparseNotes, Stored
    <2>2. rows' = [rows EXCEPT ![w.id] = [@ EXCEPT !.sparse = v]]
      BY <1>4 DEF reembedSparseNotes
    <2> HIDE DEF v
    <2>3. PassageRow([rows[w.id] EXCEPT !.sparse = v])
      BY <1>1, <2>1 DEF PassageRow, Rows
    <2> QED BY <1>1, <2>1, <2>2, <2>3, ByRow DEF TypeOK
  <1>5. ASSUME NEW batch \in SUBSET pass[k].todo, EmbedBatch(k, batch)
        PROVE  PassagesMatchText'
    BY <1>5, RowAfterPassages, ByRow DEF EmbedBatch
  <1>6. CASE clearNoteVectors(k)
    BY <1>1, <1>6, ClearedPassages, ByRow DEF clearNoteVectors
  <1>7. ASSUME NEW w \in pass[k].todo, storePassageNote(k, w)
        PROVE  PassagesMatchText'
    <2> DEFINE u == [of |-> w.text]
    <2>1. w.id \in Notes /\ rows[w.id] # Absent /\ rows[w.id].text = w.text /\ rows[w.id].dense # NULL
      BY <1>7 DEF storePassageNote, Current, Stored
    <2>2. rows' = [rows EXCEPT ![w.id] = [@ EXCEPT !.units = u]]
      BY <1>7 DEF storePassageNote
    <2>3. u.of = w.text
      OBVIOUS
    <2> HIDE DEF u
    <2>4. PassageRow([rows[w.id] EXCEPT !.units = u])
      BY <1>1, <2>1, <2>3 DEF PassageRow, Rows
    <2> QED BY <1>1, <2>1, <2>2, <2>4, ByRow DEF TypeOK
  <1>8. CASE \/ loadEmbedder(k) \/ prepareEmbedText(k) \/ maybeUpgradeSparse(k)
             \/ ReembedStaleSparse(k) \/ stampTextIfCurrent(k) \/ embedAfterWrite(k)
             \/ \E m \in Models, full \in BOOLEAN : RunEmbed(k, m, full)
    BY <1>2, <1>8 DEF loadEmbedder, prepareEmbedText, maybeUpgradeSparse, ReembedStaleSparse,
                      stampTextIfCurrent, embedAfterWrite, RunEmbed, Start, DatabaseSame
  <1>9. CASE \/ loadPendingNoteTexts(k) \/ finishPassageEmbedding(k)
             \/ \E batch \in SUBSET pass[k].todo : FailBatch(k, batch)
    BY <1>2, <1>9 DEF loadPendingNoteTexts, finishPassageEmbedding, FailBatch, DatabaseSame
  <1>10. CASE stampEmbedPass(k) \/ writeUpgradeStamps(k) \/ Abort(k)
    BY <1>2, <1>10 DEF stampEmbedPass, writeUpgradeStamps, Abort, DatabaseSame
  <1>11. CASE Begin(k)
    BY <1>11, <1>3, <1>4, <1>8 DEF Begin
  <1>12. CASE EmbedNotes(k)
    BY <1>12, <1>5, <1>6, <1>7, <1>9 DEF EmbedNotes
  <1> QED BY <1>10, <1>11, <1>12

\* Older builds wrote no passage vectors.
LEMMA LegacyNoPassages ==
    ASSUME NEW v, NEW r \in LegacyRows(v)
    PROVE  r.units = NULL
  <1> DEFINE full == {LegacyFull(v, t) : t \in (Texts \ EmptyBody) \ NoTokens}
             cleared == {[x EXCEPT !.dense = NULL, !.colbert = NULL] : x \in full}
             minilm == {[NewRow(t) EXCEPT !.dense = LegacyDense(v, t)] : t \in Texts \ EmptyBody}
             new == {NewRow(t) : t \in Texts}
  <1>1. r \in new \/ r \in minilm \/ r \in full \/ r \in cleared
    <2>1. LegacyRows(v) = new \cup (CASE v = "never" -> {} [] v = "minilm" -> minilm
                                      [] OTHER -> full \cup cleared)
      BY DEF LegacyRows
    <2> HIDE DEF new, minilm, full, cleared
    <2> QED BY <2>1
  <1>2. ASSUME NEW t
        PROVE  /\ NewRow(t).units = NULL
               /\ [NewRow(t) EXCEPT !.dense = LegacyDense(v, t)].units = NULL
               /\ LegacyFull(v, t).units = NULL
               /\ [LegacyFull(v, t) EXCEPT !.dense = NULL, !.colbert = NULL].units = NULL
    <2> DEFINE c == [of |-> t]
               s == [of |-> t, clean |-> v = "bge-m3 clean"]
               d == LegacyDense(v, t)
               x == [NewRow(t) EXCEPT !.dense = d, !.colbert = c, !.sparse = s]
    <2>1. LegacyFull(v, t) = x
      BY DEF LegacyFull
    <2> HIDE DEF c, s, d, new, minilm, full, cleared
    <2>2. NewRow(t).units = NULL /\ [NewRow(t) EXCEPT !.dense = d].units = NULL
      BY DEF NewRow
    <2>3. x.units = NULL /\ [x EXCEPT !.dense = NULL, !.colbert = NULL].units = NULL
      BY DEF NewRow
    <2> HIDE DEF x
    <2> QED BY <2>1, <2>2, <2>3 DEF d
  <1> QED BY <1>1, <1>2

\* Passage vectors are always of the text their note has now and never outlive its
\* dense vector, however passes and stores overlap (passage_vectors.go:118).
THEOREM PassagesAlwaysMatchText == Spec => []PassagesMatchText
  <1>1. Init => PassagesMatchText
    <2>1. ASSUME Init PROVE PassagesMatchText
      <3>1. PICK v \in Legacy : rows \in [Notes -> LegacyRows(v) \cup {Absent}]
        BY <2>1 DEF Init
      <3> QED BY <3>1, LegacyNoPassages DEF PassagesMatchText, Stored
    <2> QED BY <2>1
  <1>2. TypeOK /\ PassagesMatchText /\ [Next]_vars => PassagesMatchText'
    <2>1. ASSUME UNCHANGED vars, PassagesMatchText PROVE PassagesMatchText'
      BY <2>1 DEF vars, PassagesMatchText, Stored
    <2> QED BY <2>1, IndexerPassages, PassPassages DEF Next
  <1> QED BY <1>1, <1>2, TypeCorrect, PTL DEF Spec

-----------------------------------------------------------------------------
(* One model, while one process runs every pass *)

Alone == \A j, k \in Passes : j = k

\* A vault made with the model m, as far as its dense vectors show.
MadeWith(m) == \A n \in Stored : rows[n].dense # NULL => rows[n].dense.model = m

\* A row with a dense vector of BGE-M3 has a sparse one too, by which the fallback
\* to MiniLM sees it.
FullRow(r) == r.dense # NULL /\ r.dense.model = "bge-m3" => r.sparse # NULL

FullRows == \A n \in Stored : FullRow(rows[n])

\* A --full pass looks at no vector before it purges them; every other pass has
\* found its own model in the vault.
BeforePurge(k) == pass[k].full /\ pass[k].pc \in {"load", "plan", "purge"}

KnowsModel(k) == pass[k].pc # "idle" /\ ~ BeforePurge(k) => MadeWith(pass[k].model)

ModelInv ==
    /\ FullRows
    /\ \E m \in Models : MadeWith(m)
    /\ \A k \in Passes : KnowsModel(k)

\* The row s that r became holds no dense vector that r did not hold.
NoNewDense(r, s) ==
    s # Absent /\ s.dense # NULL =>
        r # Absent /\ r.dense = s.dense /\ (r.sparse # NULL => s.sparse # NULL)

LEMMA NoNewDenseKeeps ==
    ASSUME FullRows, \A n \in Notes : NoNewDense(rows[n], rows'[n])
    PROVE  FullRows' /\ \A m : MadeWith(m) => MadeWith(m)'
  BY DEF FullRows, FullRow, MadeWith, Stored, NoNewDense

\* A process that only goes on, or stops, knows what it knew.
SameModel(k) ==
    \/ pass'[k].pc = "idle"
    \/ /\ pass'[k].model = pass[k].model
       /\ pass[k].pc # "idle"
       /\ BeforePurge(k) => BeforePurge(k)'

LEMMA OlderModel ==
    ASSUME ModelInv, \A n \in Notes : NoNewDense(rows[n], rows'[n]),
           \A k \in Passes : SameModel(k) \/ KnowsModel(k)'
    PROVE  ModelInv'
  <1>1. FullRows' /\ \A m : MadeWith(m) => MadeWith(m)'
    BY NoNewDenseKeeps DEF ModelInv
  <1>2. ASSUME NEW k \in Passes
        PROVE  KnowsModel(k)'
    <2>1. CASE SameModel(k)
      <3> HIDE DEF MadeWith
      <3> QED BY <1>1, <2>1 DEF ModelInv, KnowsModel, SameModel
    <2> QED BY <2>1
  <1>3. \E m \in Models : MadeWith(m)'
    BY <1>1 DEF ModelInv
  <1> QED BY <1>1, <1>2, <1>3 DEF ModelInv

LEMMA SameRowsNoNewDense ==
    ASSUME rows' = rows
    PROVE  \A n \in Notes : NoNewDense(rows[n], rows'[n])
  BY DEF NoNewDense

\* The processes beside one that acts do not notice.
LEMMA OthersModel ==
    ASSUME TypeOK, NEW k, NEW r, Acts(k, r), NEW j \in Passes, j # k
    PROVE  SameModel(j)
  <1>1. pass \in [Passes -> PassRecords]
    BY DEF TypeOK
  <1>2. pass'[j] = pass[j] \/ pass'[j] = [pass[j] EXCEPT !.quiet = FALSE]
    BY <1>1 DEF Acts, Step, Disturbing
  <1>3. pass'[j].pc = pass[j].pc /\ pass'[j].model = pass[j].model /\ pass'[j].full = pass[j].full
    BY <1>1, <1>2 DEF PassRecords
  <1> QED BY <1>3 DEF SameModel, BeforePurge

LEMMA IndexerModel ==
    ASSUME TypeOK, ModelInv, Indexer
    PROVE  ModelInv'
  <1>1. Disturbing("indexer", Idle)
    BY DEF Indexer, StoreNote, DeleteNote
  <1>2. \A k \in Passes : SameModel(k)
    <2>1. Idle.pc = "idle"
      BY DEF Idle
    <2>2. "indexer" \in Passes => SameModel("indexer")
      BY <1>1, <2>1, ActorNext DEF TypeOK, Acts, SameModel
    <2> QED BY <1>1, <2>2, OthersModel DEF Acts
  <1>3. ASSUME NEW x \in Notes
        PROVE  NoNewDense(rows[x], rows'[x])
    <2>1. ASSUME NEW n \in Notes, DeleteNote(n)
          PROVE  NoNewDense(rows[x], rows'[x])
      BY <2>1 DEF DeleteNote, TypeOK, NoNewDense
    <2>2. ASSUME NEW n \in Notes, NEW t \in Texts, StoreNote(n, t)
          PROVE  NoNewDense(rows[x], rows'[x])
      <3>1. NewRow(t).dense = NULL
        BY DEF NewRow
      <3>2. rows[n] # Absent => NoNewDense(rows[n], [rows[n] EXCEPT !.units = NULL])
        BY DEF TypeOK, NoNewDense, Rows
      <3> QED BY <2>2, <3>1, <3>2 DEF StoreNote, TypeOK, NoNewDense
    <2> QED BY <2>1, <2>2 DEF Indexer
  <1> QED BY <1>2, <1>3, OlderModel

\* What is left to show of a step of k that makes no vector.
LEMMA ActorModel ==
    ASSUME TypeOK, ModelInv, NEW k \in Passes, NEW r, Acts(k, r),
           \A n \in Notes : NoNewDense(rows[n], rows'[n]),
           SameModel(k) \/ KnowsModel(k)'
    PROVE  ModelInv'
  <1>1. \A j \in Passes : SameModel(j) \/ KnowsModel(j)'
    BY OthersModel
  <1> QED BY <1>1, OlderModel

LEMMA StartModel ==
    ASSUME TypeOK, ModelInv, NEW k \in Passes, NEW m, NEW full \in BOOLEAN, NEW titles,
           Start(k, m, full, titles), ~ full => guardEmbeddingModel(m)
    PROVE  ModelInv'
  <1> DEFINE r == [Idle EXCEPT !.pc = "load", !.model = m, !.full = full, !.titles = titles]
  <1>1. r.pc = "load" /\ r.model = m /\ r.full = full
    BY DEF Idle
  <1>2. Step(k, r) /\ rows' = rows
    BY DEF Start, DatabaseSame
  <1> HIDE DEF r
  <1>3. pass'[k] = r /\ Acts(k, r)
    BY <1>2, ActorNext DEF Acts, TypeOK
  <1>4. ~ full => MadeWith(m)'
    BY <1>2 DEF guardEmbeddingModel, MadeWith, Stored
  <1>5. KnowsModel(k)'
    BY <1>1, <1>3, <1>4 DEF KnowsModel, BeforePurge, MadeWith, Stored
  <1> QED BY <1>2, <1>3, <1>5, ActorModel, SameRowsNoNewDense

LEMMA LoadModel ==
    ASSUME TypeOK, ModelInv, NEW k \in Passes, loadEmbedder(k)
    PROVE  ModelInv'
  <1>1. pass[k] \in PassRecords /\ pass[k].pc = "load" /\ rows' = rows
    BY DEF TypeOK, loadEmbedder, At, DatabaseSame
  <1>2. PICK r : /\ Step(k, r) /\ r.pc = "plan" /\ r.full = pass[k].full
                 /\ \/ r.model = pass[k].model
                    \/ pass[k].model = "bge-m3" /\ ~ SomeFull /\ r.model = "minilm"
    <2> DEFINE r1 == [pass[k] EXCEPT !.pc = "plan"]
               r2 == [pass[k] EXCEPT !.pc = "plan", !.sidecar = TRUE]
               r3 == [pass[k] EXCEPT !.pc = "plan", !.model = "minilm"]
    <2>1. /\ r1.pc = "plan" /\ r1.full = pass[k].full /\ r1.model = pass[k].model
          /\ r2.pc = "plan" /\ r2.full = pass[k].full /\ r2.model = pass[k].model
          /\ r3.pc = "plan" /\ r3.full = pass[k].full /\ r3.model = "minilm"
      BY <1>1 DEF PassRecords
    <2>2. \/ Step(k, r1) \/ Step(k, r2)
          \/ Step(k, r3) /\ pass[k].model = "bge-m3" /\ ~ SomeFull
      BY DEF loadEmbedder, Goto
    <2> HIDE DEF r1, r2, r3
    <2> QED BY <2>1, <2>2
  <1>3. pass'[k] = r /\ Acts(k, r)
    BY <1>2, ActorNext DEF Acts, TypeOK
  <1>4. MadeWith("bge-m3") /\ ~ SomeFull => MadeWith("minilm")
    BY DEF ModelInv, FullRows, FullRow, MadeWith, SomeFull
  <1>5. ~ r.full => MadeWith(r.model)
    <2>1. ~ pass[k].full => MadeWith(pass[k].model)
      BY <1>1 DEF ModelInv, KnowsModel, BeforePurge
    <2> HIDE DEF MadeWith
    <2> QED BY <1>2, <1>4, <2>1
  <1>6. (pass[k].full \/ MadeWith(pass[k].model))'
    BY <1>1, <1>2, <1>3, <1>5 DEF MadeWith, Stored
  <1>7. KnowsModel(k)'
    BY <1>2, <1>3, <1>6 DEF KnowsModel, BeforePurge, MadeWith, Stored
  <1> QED BY <1>1, <1>3, <1>7, ActorModel, SameRowsNoNewDense

LEMMA PlanModel ==
    ASSUME TypeOK, ModelInv, NEW k \in Passes, prepareEmbedText(k)
    PROVE  ModelInv'
  <1> DEFINE pc == IF pass[k].full THEN "purge" ELSE "sparse"
             plan == IF ~ EmbedTextStale THEN "write"
                     ELSE IF pass[k].titles THEN "upgrade" ELSE "none"
             r == [pass[k] EXCEPT !.pc = pc, !.plan = plan]
  <1>1. pass[k] \in PassRecords /\ pass[k].pc = "plan" /\ rows' = rows /\ Step(k, r)
    BY DEF TypeOK, prepareEmbedText, At, DatabaseSame
  <1>2. pc \in {"purge", "sparse"} /\ (pass[k].full => pc = "purge")
    OBVIOUS
  <1> HIDE DEF plan, pc
  <1>3. r.pc = pc /\ r.full = pass[k].full /\ r.model = pass[k].model
    BY <1>1 DEF PassRecords
  <1> HIDE DEF r
  <1>4. pass'[k] = r /\ Acts(k, r)
    BY <1>1, ActorNext DEF Acts, TypeOK
  <1>5. SameModel(k)
    BY <1>1, <1>2, <1>3, <1>4 DEF SameModel, BeforePurge
  <1> QED BY <1>1, <1>4, <1>5, ActorModel, SameRowsNoNewDense

LEMMA PurgeModel ==
    ASSUME TypeOK, ModelInv, NEW k \in Passes, PurgeEmbeddings(k)
    PROVE  ModelInv'
  <1> DEFINE r == [pass[k] EXCEPT !.pc = "sparse", !.purged = SomeDense \/ SomeFull]
  <1>1. Disturbing(k, r)
    BY DEF PurgeEmbeddings
  <1> HIDE DEF r
  <1>2. \A n \in Notes : rows'[n] # Absent => rows'[n].dense = NULL
    <2>1. \A s \in Rows : Cleared(s).dense = NULL
      BY DEF Cleared, Rows
    <2> QED BY <2>1 DEF PurgeEmbeddings, TypeOK
  <1>3. \A n \in Notes : NoNewDense(rows[n], rows'[n])
    BY <1>2 DEF NoNewDense
  <1>4. KnowsModel(k)'
    BY <1>2 DEF KnowsModel, MadeWith, Stored
  <1> QED BY <1>1, <1>3, <1>4, ActorModel DEF Acts

LEMMA ClearedNoNew ==
    ASSUME NEW r \in Rows
    PROVE  NoNewDense(r, Cleared(r))
  BY DEF NoNewDense, Cleared, Rows

LEMMA ClearModel ==
    ASSUME TypeOK, ModelInv, NEW k \in Passes, clearNoteVectors(k)
    PROVE  ModelInv'
  <1> DEFINE r == [pass[k] EXCEPT !.pc = "units"]
  <1>1. pass[k] \in PassRecords /\ pass[k].pc = "embed" /\ Disturbing(k, r)
    BY DEF TypeOK, clearNoteVectors, At
  <1>2. r.pc = "units" /\ r.full = pass[k].full /\ r.model = pass[k].model
    BY <1>1 DEF PassRecords
  <1> HIDE DEF r
  <1>3. pass'[k] = r /\ Acts(k, r)
    BY <1>1, ActorNext DEF Acts, TypeOK
  <1>4. SameModel(k)
    BY <1>1, <1>2, <1>3 DEF SameModel, BeforePurge
  <1>5. ASSUME NEW n \in Notes
        PROVE  NoNewDense(rows[n], rows'[n])
    <2>1. rows'[n] = rows[n] \/ (rows[n] # Absent /\ rows'[n] = Cleared(rows[n]))
      BY DEF clearNoteVectors
    <2>2. NoNewDense(rows[n], rows[n])
      BY DEF NoNewDense
    <2> QED BY <2>1, <2>2, ClearedNoNew DEF TypeOK
  <1> QED BY <1>3, <1>4, <1>5, ActorModel

LEMMA ReembedModel ==
    ASSUME TypeOK, ModelInv, NEW k \in Passes, NEW w \in pass[k].todo, reembedSparseNotes(k, w)
    PROVE  ModelInv'
  <1> DEFINE r == [pass[k] EXCEPT !.todo = @ \ {w}, !.upgraded = TRUE]
             v == [of |-> w.text, clean |-> TRUE]
  <1>1. /\ pass[k] \in PassRecords /\ pass[k].pc = "resparse" /\ Disturbing(k, r)
        /\ w.id \in Notes /\ rows[w.id] \in Rows /\ w.text \in Texts
        /\ rows' = [rows EXCEPT ![w.id] = [@ EXCEPT !.sparse = v]]
    <2>1. pass[k] \in PassRecords /\ w \in [id : Notes, text : Texts]
      BY DEF TypeOK, PassRecords
    <2> QED BY <2>1 DEF TypeOK, reembedSparseNotes, At, Stored
  <1>2. r.pc = "resparse" /\ r.full = pass[k].full /\ r.model = pass[k].model
    BY <1>1 DEF PassRecords
  <1> HIDE DEF r
  <1>3. pass'[k] = r /\ Acts(k, r)
    BY <1>1, ActorNext DEF Acts, TypeOK
  <1>4. SameModel(k)
    BY <1>1, <1>2, <1>3 DEF SameModel, BeforePurge
  <1>5. v # NULL
    <2>1. w.text \in Texts
      BY <1>1
    <2>2. v \in SparseVectors
      BY <2>1 DEF SparseVectors
    <2> HIDE DEF v
    <2> QED BY <2>2, NullAssumption
  <1> HIDE DEF v
  <1>6. NoNewDense(rows[w.id], [rows[w.id] EXCEPT !.sparse = v])
    BY <1>1, <1>5, NullAssumption DEF NoNewDense, Rows
  <1>7. \A n \in Notes : NoNewDense(rows[n], rows[n])
    BY DEF NoNewDense
  <1>8. \A n \in Notes : NoNewDense(rows[n], rows'[n])
    BY <1>1, <1>6, <1>7 DEF TypeOK
  <1> QED BY <1>3, <1>4, <1>8, ActorModel

LEMMA PassageModel ==
    ASSUME TypeOK, ModelInv, NEW k \in Passes, NEW w \in pass[k].todo, storePassageNote(k, w)
    PROVE  ModelInv'
  <1> DEFINE r == [pass[k] EXCEPT !.todo = @ \ {w}]
             v == [of |-> w.text]
  <1>1. /\ pass[k] \in PassRecords /\ pass[k].pc = "passages" /\ Disturbing(k, r)
        /\ w.id \in Notes /\ rows[w.id] \in Rows
        /\ rows' = [rows EXCEPT ![w.id] = [@ EXCEPT !.units = v]]
    BY DEF TypeOK, storePassageNote, Current, At, Stored
  <1>2. r.pc = "passages" /\ r.full = pass[k].full /\ r.model = pass[k].model
    BY <1>1 DEF PassRecords
  <1> HIDE DEF r, v
  <1>3. pass'[k] = r /\ Acts(k, r)
    BY <1>1, ActorNext DEF Acts, TypeOK
  <1>4. SameModel(k)
    BY <1>1, <1>2, <1>3 DEF SameModel, BeforePurge
  <1>5. NoNewDense(rows[w.id], [rows[w.id] EXCEPT !.units = v])
    BY <1>1, NullAssumption DEF NoNewDense, Rows
  <1>6. \A n \in Notes : NoNewDense(rows[n], rows[n])
    BY DEF NoNewDense
  <1>7. \A n \in Notes : NoNewDense(rows[n], rows'[n])
    BY <1>1, <1>5, <1>6 DEF TypeOK
  <1> QED BY <1>3, <1>4, <1>7, ActorModel

\* The only step that makes dense vectors, and the only one that relies on nobody
\* else running a pass.
LEMMA EmbedModel ==
    ASSUME TypeOK, ModelInv, Alone, NEW k \in Passes, NEW batch \in SUBSET pass[k].todo,
           EmbedBatch(k, batch)
    PROVE  ModelInv'
  <1> DEFINE m == pass[k].model
             left == pass[k].todo \ batch
             unrewritten == appendUnrewritten(k, batch \ WithOutput(m, batch))
             embedded == pass[k].embedded \/ WithOutput(m, batch) # {}
             r == [pass[k] EXCEPT !.todo = left, !.unrewritten = unrewritten, !.embedded = embedded]
  <1>1. /\ pass[k] \in PassRecords /\ pass[k].pc = "embed" /\ Disturbing(k, r)
        /\ rows' = [n \in Notes |-> RowAfter(n, m, batch)]
    BY DEF TypeOK, EmbedBatch, At
  <1>2. r.pc = "embed" /\ r.full = pass[k].full /\ r.model = m
    <2> HIDE DEF left, unrewritten, embedded
    <2> QED BY <1>1 DEF PassRecords
  <1> HIDE DEF r
  <1>3. pass'[k] = r
    BY <1>1, ActorNext DEF Acts, TypeOK
  <1>4. MadeWith(m) /\ m \in Models
    BY <1>1 DEF ModelInv, KnowsModel, BeforePurge, PassRecords
  <1> HIDE DEF m
  <1>5. ASSUME NEW n \in Notes, rows'[n] # Absent
        PROVE  (rows'[n].dense # NULL => rows'[n].dense.model = m) /\ FullRow(rows'[n])
    <2>1. CASE rows'[n] = rows[n]
      BY <1>4, <1>5, <2>1 DEF MadeWith, Stored, ModelInv, FullRows
    <2>2. ASSUME NEW w \in WithOutput(m, batch), rows[n] # Absent,
                 rows'[n] = WithVectors(rows[n], m, w.text)
          PROVE  (rows'[n].dense # NULL => rows'[n].dense.model = m) /\ FullRow(rows'[n])
      <3> DEFINE t == w.text
                 s == WithDense(rows[n], Dense(m, t))
                 v == [of |-> t, clean |-> TRUE]
                 c == [of |-> t]
      <3>1. t \in Texts /\ (m = "bge-m3" => t \notin NoTokens)
        BY <1>1, <2>2 DEF WithOutput, PassRecords
      <3>2. rows[n] \in Rows
        BY <2>2 DEF TypeOK
      <3>3. s \in Rows /\ s.dense.model = m
        BY <1>4, <3>1, <3>2, WithDenseShape
      <3>4. v # NULL
        <4>1. v \in SparseVectors
          BY <3>1 DEF SparseVectors
        <4> HIDE DEF v
        <4> QED BY <4>1, NullAssumption
      <3>5. CASE m = "minilm"
        <4>1. rows'[n] = s
          BY <2>2, <3>5 DEF WithVectors
        <4> HIDE DEF s
        <4> QED BY <3>3, <3>5, <4>1 DEF FullRow
      <3>6. CASE m = "bge-m3"
        <4>1. rows'[n] = [s EXCEPT !.sparse = v, !.colbert = c]
          BY <2>2, <3>1, <3>6 DEF WithVectors
        <4> HIDE DEF s, v, c
        <4> QED BY <3>3, <3>4, <4>1 DEF FullRow, Rows
      <3> QED BY <1>4, <3>5, <3>6 DEF Models
    <2>3. \/ rows'[n] = rows[n]
          \/ rows[n] # Absent /\ \E w \in WithOutput(m, batch) : rows'[n] = WithVectors(rows[n], m, w.text)
      <3> DEFINE mine == {w \in WithOutput(m, batch) : w.id = n}
                 w0 == CHOOSE w \in mine : TRUE
      <3>1. rows'[n] = IF rows[n] = Absent \/ mine = {} THEN rows[n]
                       ELSE WithVectors(rows[n], m, w0.text)
        BY <1>1 DEF RowAfter
      <3>2. mine # {} => w0 \in WithOutput(m, batch)
        OBVIOUS
      <3> HIDE DEF mine, w0
      <3> QED BY <3>1, <3>2
    <2> QED BY <2>1, <2>2, <2>3
  <1>6. FullRows'
    BY <1>5 DEF FullRows, Stored
  <1>7. \A n \in Notes : rows'[n] # Absent /\ rows'[n].dense # NULL => rows'[n].dense.model = m
    BY <1>5
  <1>8. \E x \in Models : MadeWith(x)'
    <2>1. PICK x \in Models : x = m
      BY <1>4
    <2>2. MadeWith(x)'
      BY <1>7, <2>1 DEF MadeWith, Stored
    <2> QED BY <2>2
  <1>9. ASSUME NEW j \in Passes
        PROVE  KnowsModel(j)'
    <2>1. j = k
      BY DEF Alone
    <2> QED BY <1>2, <1>3, <1>7, <2>1 DEF KnowsModel, MadeWith, Stored
  <1> QED BY <1>6, <1>8, <1>9 DEF ModelInv

\* The steps that leave the rows alone.
LEMMA OtherModel ==
    ASSUME TypeOK, ModelInv, NEW k \in Passes,
           \/ maybeUpgradeSparse(k) \/ ReembedStaleSparse(k) \/ stampTextIfCurrent(k)
           \/ loadPendingNoteTexts(k) \/ finishPassageEmbedding(k)
           \/ \E batch \in SUBSET pass[k].todo : FailBatch(k, batch)
           \/ stampEmbedPass(k) \/ writeUpgradeStamps(k) \/ Abort(k)
    PROVE  ModelInv'
  <1> DEFINE Later == Pcs \ {"idle", "load", "plan", "purge"}
  <1>1. pass[k] \in PassRecords /\ rows' = rows
    BY DEF TypeOK, maybeUpgradeSparse, ReembedStaleSparse, stampTextIfCurrent,
           loadPendingNoteTexts, finishPassageEmbedding, FailBatch, stampEmbedPass,
           writeUpgradeStamps, Abort, DatabaseSame
  <1>2. ASSUME NEW p \in Later, pass[k].pc \in Later, Goto(k, p)
        PROVE  \E r : Acts(k, r) /\ r.pc \in Later /\ r.model = pass[k].model /\ pass[k].pc \in Later
    <2> DEFINE r == [pass[k] EXCEPT !.pc = p]
    <2>1. r.pc = p /\ r.model = pass[k].model
      BY <1>1 DEF PassRecords
    <2>2. Acts(k, r)
      BY <1>2 DEF Goto, Acts
    <2> HIDE DEF r
    <2> QED BY <1>2, <2>1, <2>2
  <1>3. ASSUME NEW p \in Later, NEW todo, pass[k].pc \in Later,
               Step(k, [pass[k] EXCEPT !.pc = p, !.todo = todo])
        PROVE  \E r : Acts(k, r) /\ r.pc \in Later /\ r.model = pass[k].model /\ pass[k].pc \in Later
    <2> DEFINE r == [pass[k] EXCEPT !.pc = p, !.todo = todo]
    <2>1. r.pc = p /\ r.model = pass[k].model
      BY <1>1 DEF PassRecords
    <2>2. Acts(k, r)
      BY <1>3 DEF Acts
    <2> HIDE DEF r
    <2> QED BY <1>3, <2>1, <2>2
  <1>4. ASSUME NEW batch \in SUBSET pass[k].todo, FailBatch(k, batch)
        PROVE  \E r : Acts(k, r) /\ r.pc \in Later /\ r.model = pass[k].model /\ pass[k].pc \in Later
    <2> DEFINE left == pass[k].todo \ batch
               unrewritten == appendUnrewritten(k, batch)
               r == [pass[k] EXCEPT !.todo = left, !.failed = TRUE, !.unrewritten = unrewritten]
    <2>1. Acts(k, r) /\ pass[k].pc = "embed"
      BY <1>4 DEF FailBatch, At, Acts
    <2> HIDE DEF left, unrewritten
    <2>2. r.pc = pass[k].pc /\ r.model = pass[k].model
      BY <1>1 DEF PassRecords
    <2> HIDE DEF r
    <2> QED BY <2>1, <2>2 DEF Pcs
  <1>5. \/ Step(k, Idle)
        \/ \E r : Acts(k, r) /\ r.pc \in Later /\ r.model = pass[k].model /\ pass[k].pc \in Later
    <2>1. {"sparse", "resparse", "text", "select", "embed", "units", "passages", "stamp"} \subseteq Later
      BY DEF Pcs
    <2> HIDE DEF Later
    <2>2. CASE maybeUpgradeSparse(k)
      BY <1>2, <1>3, <2>1, <2>2 DEF maybeUpgradeSparse, At
    <2>3. CASE ReembedStaleSparse(k) \/ stampTextIfCurrent(k)
      BY <1>2, <2>1, <2>3 DEF ReembedStaleSparse, stampTextIfCurrent, At
    <2>4. CASE loadPendingNoteTexts(k)
      BY <1>3, <2>1, <2>4 DEF loadPendingNoteTexts, At
    <2>5. CASE finishPassageEmbedding(k)
      BY <1>3, <2>1, <2>5 DEF finishPassageEmbedding, At
    <2>6. CASE stampEmbedPass(k)
      BY <1>2, <2>1, <2>6 DEF stampEmbedPass, At
    <2>7. CASE writeUpgradeStamps(k) \/ Abort(k)
      BY <2>7 DEF writeUpgradeStamps, Abort
    <2> QED BY <1>4, <2>2, <2>3, <2>4, <2>5, <2>6, <2>7
  <1>6. CASE Step(k, Idle)
    <2>1. Idle.pc = "idle"
      BY DEF Idle
    <2>2. SameModel(k)
      BY <1>6, <2>1, ActorNext DEF Acts, TypeOK, SameModel
    <2> QED BY <1>1, <1>6, <2>2, ActorModel, SameRowsNoNewDense DEF Acts
  <1>7. ASSUME NEW r, Acts(k, r), r.pc \in Later, r.model = pass[k].model, pass[k].pc \in Later
        PROVE  ModelInv'
    <2>1. pass'[k] = r
      BY <1>7, ActorNext DEF TypeOK
    <2>2. SameModel(k)
      BY <1>7, <2>1 DEF SameModel, BeforePurge
    <2> QED BY <1>1, <1>7, <2>2, ActorModel, SameRowsNoNewDense
  <1> QED BY <1>5, <1>6, <1>7

LEMMA StepKeepsModel ==
    ASSUME TypeOK, ModelInv, Alone, [Next]_vars
    PROVE  ModelInv'
  <1>1. CASE Indexer
    BY <1>1, IndexerModel
  <1>2. ASSUME NEW k \in Passes, Begin(k)
        PROVE  ModelInv'
    <2>1. ASSUME NEW m \in Models, NEW full \in BOOLEAN, RunEmbed(k, m, full)
          PROVE  ModelInv'
      BY <2>1, StartModel DEF RunEmbed
    <2>2. CASE embedAfterWrite(k)
      BY <2>2, StartModel DEF embedAfterWrite
    <2> QED BY <1>2, <2>1, <2>2, LoadModel, PlanModel, PurgeModel, ReembedModel, OtherModel
            DEF Begin
  <1>3. ASSUME NEW k \in Passes, EmbedNotes(k)
        PROVE  ModelInv'
    BY <1>3, EmbedModel, ClearModel, PassageModel, OtherModel DEF EmbedNotes
  <1>4. CASE UNCHANGED vars
    BY <1>4 DEF vars, ModelInv, FullRows, MadeWith, KnowsModel, BeforePurge, Stored
  <1> QED BY <1>1, <1>2, <1>3, <1>4, OtherModel DEF Next

\* The vaults of older builds are each of one model, and a row with a dense vector
\* of BGE-M3 has all three.
LEMMA LegacyModel ==
    ASSUME NEW v \in Legacy, NEW r \in LegacyRows(v), r.dense # NULL
    PROVE  /\ r.dense.model = (IF v = "minilm" THEN "minilm" ELSE "bge-m3")
           /\ FullRow(r)
  <1> DEFINE full == {LegacyFull(v, t) : t \in (Texts \ EmptyBody) \ NoTokens}
             cleared == {[x EXCEPT !.dense = NULL, !.colbert = NULL] : x \in full}
             minilm == {[NewRow(t) EXCEPT !.dense = LegacyDense(v, t)] : t \in Texts \ EmptyBody}
             new == {NewRow(t) : t \in Texts}
  <1>1. r \in new \/ (v = "minilm" /\ r \in minilm) \/ (v # "minilm" /\ (r \in full \/ r \in cleared))
    <2>1. LegacyRows(v) = new \cup (CASE v = "never" -> {} [] v = "minilm" -> minilm
                                      [] OTHER -> full \cup cleared)
      BY DEF LegacyRows
    <2> HIDE DEF new, minilm, full, cleared
    <2> QED BY <2>1
  <1>2. r \notin new
    BY DEF NewRow
  <1>3. ASSUME NEW t \in Texts
        PROVE  /\ LegacyFull(v, t) \in Rows /\ LegacyFull(v, t).sparse # NULL
               /\ LegacyFull(v, t).dense = LegacyDense(v, t)
               /\ [NewRow(t) EXCEPT !.dense = LegacyDense(v, t)].dense = LegacyDense(v, t)
    <2> DEFINE c == [of |-> t]
               s == [of |-> t, clean |-> v = "bge-m3 clean"]
               d == LegacyDense(v, t)
    <2>1. c \in ColBERT /\ s \in SparseVectors /\ d \in DenseVectors
      <3>1. (v = "bge-m3 clean") \in BOOLEAN
        OBVIOUS
      <3> QED BY <3>1 DEF ColBERT, SparseVectors, DenseVectors, LegacyDense, Models
    <2>2. LegacyFull(v, t) = [NewRow(t) EXCEPT !.dense = d, !.colbert = c, !.sparse = s]
      BY DEF LegacyFull
    <2> HIDE DEF c, s, d
    <2>3. s # NULL
      BY <2>1, NullAssumption
    <2>4. LegacyFull(v, t) \in Rows /\ LegacyFull(v, t).sparse = s /\ LegacyFull(v, t).dense = d
      BY <2>1, <2>2, NewRowType DEF Rows
    <2>5. [NewRow(t) EXCEPT !.dense = d].dense = d
      BY NewRowType DEF Rows
    <2> QED BY <2>3, <2>4, <2>5 DEF d
  <1>4. \A t : LegacyDense(v, t).model = IF v = "minilm" THEN "minilm" ELSE "bge-m3"
    BY DEF LegacyDense
  <1>5. CASE v = "minilm" /\ r \in minilm
    <2>1. PICK t \in Texts : r = [NewRow(t) EXCEPT !.dense = LegacyDense(v, t)]
      BY <1>5
    <2>2. r.dense = LegacyDense(v, t)
      BY <1>3, <2>1
    <2>3. r.dense.model = "minilm"
      BY <1>4, <1>5, <2>2
    <2> QED BY <1>5, <2>3 DEF FullRow
  <1>6. CASE v # "minilm" /\ r \in full
    <2>1. r.sparse # NULL /\ r.dense.model = "bge-m3"
      BY <1>3, <1>4, <1>6
    <2> QED BY <1>6, <2>1 DEF FullRow
  <1>7. r \notin cleared
    <2>1. ASSUME NEW x \in Rows
          PROVE  [x EXCEPT !.dense = NULL, !.colbert = NULL].dense = NULL
      BY DEF Rows
    <2>2. full \subseteq Rows
      BY <1>3
    <2> HIDE DEF full
    <2> QED BY <2>1, <2>2
  <1> HIDE DEF new, minilm, full, cleared
  <1> QED BY <1>1, <1>2, <1>5, <1>6, <1>7

LEMMA InitModel == Init => ModelInv
  <1> SUFFICES ASSUME Init PROVE ModelInv
    OBVIOUS
  <1>1. PICK v \in Legacy : rows \in [Notes -> LegacyRows(v) \cup {Absent}]
    <2>1. \E v \in Legacy : /\ rows \in [Notes -> LegacyRows(v) \cup {Absent}]
                            /\ sparseStamp = (v = "bge-m3 clean")
      BY DEF Init
    <2> QED BY <2>1
  <1>2. \A n \in Stored : rows[n] \in LegacyRows(v)
    BY <1>1 DEF Stored
  <1>3. FullRows
    BY <1>2, LegacyModel DEF FullRows, FullRow
  <1>4. PICK m \in Models : MadeWith(m)
    <2> DEFINE m == IF v = "minilm" THEN "minilm" ELSE "bge-m3"
    <2>1. m \in Models
      BY DEF Models
    <2>2. MadeWith(m)
      BY <1>2, LegacyModel DEF MadeWith
    <2> QED BY <2>1, <2>2
  <1>5. \A k \in Passes : KnowsModel(k)
    <2>1. \A k \in Passes : pass[k] = Idle
      BY DEF Init
    <2> QED BY <2>1 DEF KnowsModel, Idle
  <1> QED BY <1>3, <1>4, <1>5 DEF ModelInv

\* While one process runs every pass, an index never holds dense vectors of two
\* models, over every vault an older build can have left and whatever a pass leaves
\* undone (embedded_model.go:14).
THEOREM OneModelAlwaysInTurn == Spec => []OneModelInTurn
  <1>1. Init => (Alone => ModelInv)
    BY InitModel
  <1>2. TypeOK /\ (Alone => ModelInv) /\ [Next]_vars => (Alone => ModelInv)'
    BY StepKeepsModel DEF Alone
  <1>3. TypeOK /\ (Alone => ModelInv) => OneModelInTurn
    <2>1. TypeOK => DOMAIN pass = Passes
      BY DEF TypeOK
    <2>2. ModelInv => OneModel
      BY DEF ModelInv, MadeWith, OneModel
    <2> QED BY <2>1, <2>2 DEF OneModelInTurn, Alone
  <1> QED BY <1>1, <1>2, <1>3, TypeCorrect, PTL DEF Spec

-----------------------------------------------------------------------------
(* A --full pass that reports success *)

CanEmbed(R, n) == R[n] # Absent /\ R[n].text \notin EmptyBody \cup NoTokens

HasDense(R, n) == R[n] # Absent /\ R[n].dense # NULL

\* The pass with the record r is done with n, and will not clear it.
Spared(r, n) == n \notin r.unrewritten /\ \A w \in r.todo : w.id # n

\* What an undisturbed --full pass with the record r knows of the rows R: the purge
\* has left no dense vector, and from the selection on a note without one waits, or
\* cannot be embedded, or the pass has failed.  One that has embedded something
\* leaves it.
BeforeSelect == {"sparse", "resparse", "text", "select"}

Loud(r, R) ==
    r.full /\ r.quiet =>
        /\ r.pc \in {"load", "plan", "purge"} \cup BeforeSelect => r.unrewritten = {} /\ ~ r.embedded
        /\ r.pc \in BeforeSelect => \A n \in Notes : R[n] # Absent => R[n].dense = NULL
        /\ r.pc = "embed" =>
              /\ \A w \in r.todo : R[w.id] # Absent /\ R[w.id].text = w.text /\ w.id \notin r.unrewritten
              /\ \A n \in r.unrewritten : CanEmbed(R, n) => r.failed
              /\ r.embedded => \E n \in Notes : HasDense(R, n) /\ Spared(r, n)
        /\ r.pc \in {"units", "passages"} /\ r.embedded => \E n \in Notes : HasDense(R, n)
        /\ r.pc \in {"embed", "units", "passages"} =>
              \A n \in Notes : CanEmbed(R, n) =>
                 \/ r.failed \/ R[n].dense # NULL
                 \/ r.pc = "embed" /\ [id |-> n, text |-> R[n].text] \in r.todo

LoudInv == \A k \in Passes : Loud(pass[k], rows)

\* A process beside one that acts is disturbed, or the rows are as they were.
LEMMA OthersLoud ==
    ASSUME TypeOK, LoudInv, NEW k, NEW r, (Step(k, r) /\ rows' = rows) \/ Disturbing(k, r),
           NEW j \in Passes, j # k
    PROVE  Loud(pass'[j], rows')
  <1>1. pass \in [Passes -> PassRecords] /\ Loud(pass[j], rows)
    BY DEF TypeOK, LoudInv
  <1>2. CASE Step(k, r) /\ rows' = rows
    <2>1. pass'[j] = pass[j]
      BY <1>1, <1>2 DEF Step
    <2> QED BY <1>1, <1>2, <2>1
  <1>3. CASE Disturbing(k, r)
    <2>1. pass'[j] = [pass[j] EXCEPT !.quiet = FALSE] /\ pass[j] \in PassRecords
      BY <1>1, <1>3 DEF Disturbing
    <2>2. pass'[j].quiet = FALSE
      BY <2>1 DEF PassRecords
    <2> QED BY <2>2 DEF Loud
  <1> QED BY <1>2, <1>3

\* What is left to show of a step of k.
LEMMA ActorLoud ==
    ASSUME TypeOK, LoudInv, NEW k \in Passes, NEW r,
           (Step(k, r) /\ rows' = rows) \/ Disturbing(k, r), Loud(r, rows')
    PROVE  LoudInv'
  <1>1. pass'[k] = r
    BY ActorNext DEF TypeOK, Acts
  <1>2. \A j \in Passes : Loud(pass'[j], rows')
    BY <1>1, OthersLoud
  <1> QED BY <1>2 DEF LoudInv

\* A step between the start and the selection that makes no dense vector.
LEMMA EarlyLoud ==
    ASSUME TypeOK, LoudInv, NEW k \in Passes, NEW r,
           (Step(k, r) /\ rows' = rows) \/ Disturbing(k, r),
           r.full = pass[k].full, r.quiet = pass[k].quiet, r.unrewritten = pass[k].unrewritten,
           r.embedded = pass[k].embedded,
           pass[k].pc \in {"load", "plan", "purge"} \cup BeforeSelect,
           r.pc \in {"load", "plan", "purge"} \cup BeforeSelect,
           r.full /\ r.pc \in BeforeSelect => pass[k].pc \in {"purge"} \cup BeforeSelect,
           \A n \in Notes : rows'[n] # Absent /\ rows'[n].dense # NULL =>
              /\ pass[k].pc # "purge"
              /\ rows[n] # Absent /\ rows[n].dense # NULL
    PROVE  LoudInv'
  <1>1. Loud(pass[k], rows)
    BY DEF LoudInv
  <1>2. Loud(r, rows')
    BY <1>1 DEF Loud, BeforeSelect
  <1> QED BY <1>2, ActorLoud

LEMMA IdleLoud ==
    ASSUME TypeOK, LoudInv, NEW k \in Passes, Step(k, Idle), rows' = rows
    PROVE  LoudInv'
  <1>1. Loud(Idle, rows')
    BY DEF Loud, Idle, BeforeSelect
  <1> QED BY <1>1, ActorLoud

LEMMA IndexerLoud ==
    ASSUME TypeOK, LoudInv, Indexer
    PROVE  LoudInv'
  <1>1. Disturbing("indexer", Idle)
    BY DEF Indexer, StoreNote, DeleteNote
  <1>2. Loud(Idle, rows')
    BY DEF Loud, Idle, BeforeSelect
  <1>3. ASSUME NEW j \in Passes PROVE Loud(pass'[j], rows')
    <2>1. CASE j = "indexer"
      BY <1>1, <1>2, <2>1, ActorNext DEF TypeOK, Acts
    <2>2. CASE j # "indexer"
      BY <1>1, <2>2, OthersLoud
    <2> QED BY <2>1, <2>2
  <1> QED BY <1>3 DEF LoudInv

LEMMA StartLoud ==
    ASSUME TypeOK, LoudInv, NEW k \in Passes, NEW m, NEW full, NEW titles, Start(k, m, full, titles)
    PROVE  LoudInv'
  <1> DEFINE r == [Idle EXCEPT !.pc = "load", !.model = m, !.full = full, !.titles = titles]
  <1>1. Step(k, r) /\ rows' = rows
    BY DEF Start, DatabaseSame
  <1>2. r.pc = "load" /\ r.unrewritten = {} /\ ~ r.embedded
    BY DEF Idle
  <1> HIDE DEF r
  <1>3. Loud(r, rows')
    BY <1>2 DEF Loud, BeforeSelect
  <1> QED BY <1>1, <1>3, ActorLoud

LEMMA LoadLoud ==
    ASSUME TypeOK, LoudInv, NEW k \in Passes, loadEmbedder(k)
    PROVE  LoudInv'
  <1>1. pass[k] \in PassRecords /\ pass[k].pc = "load" /\ rows' = rows
    BY DEF TypeOK, loadEmbedder, At, DatabaseSame
  <1>2. PICK r : /\ Step(k, r) /\ r.pc = "plan" /\ r.full = pass[k].full /\ r.quiet = pass[k].quiet
                 /\ r.unrewritten = pass[k].unrewritten /\ r.embedded = pass[k].embedded
    <2> DEFINE r1 == [pass[k] EXCEPT !.pc = "plan"]
               r2 == [pass[k] EXCEPT !.pc = "plan", !.sidecar = TRUE]
               r3 == [pass[k] EXCEPT !.pc = "plan", !.model = "minilm"]
    <2>1. \A r \in {r1, r2, r3} : /\ r.pc = "plan" /\ r.full = pass[k].full /\ r.quiet = pass[k].quiet
                                  /\ r.unrewritten = pass[k].unrewritten /\ r.embedded = pass[k].embedded
      BY <1>1 DEF PassRecords
    <2>2. \E r \in {r1, r2, r3} : Step(k, r)
      BY DEF loadEmbedder, Goto
    <2> HIDE DEF r1, r2, r3
    <2> QED BY <2>1, <2>2
  <1> QED BY <1>1, <1>2, EarlyLoud DEF BeforeSelect

LEMMA PlanLoud ==
    ASSUME TypeOK, LoudInv, NEW k \in Passes, prepareEmbedText(k)
    PROVE  LoudInv'
  <1> DEFINE pc == IF pass[k].full THEN "purge" ELSE "sparse"
             plan == IF ~ EmbedTextStale THEN "write"
                     ELSE IF pass[k].titles THEN "upgrade" ELSE "none"
             r == [pass[k] EXCEPT !.pc = pc, !.plan = plan]
  <1>1. pass[k] \in PassRecords /\ pass[k].pc = "plan" /\ rows' = rows /\ Step(k, r)
    BY DEF TypeOK, prepareEmbedText, At, DatabaseSame
  <1>2. pc \in {"purge", "sparse"} /\ (pass[k].full => pc = "purge")
    OBVIOUS
  <1> HIDE DEF pc, plan
  <1>3. /\ r.pc = pc /\ r.full = pass[k].full /\ r.quiet = pass[k].quiet
        /\ r.unrewritten = pass[k].unrewritten /\ r.embedded = pass[k].embedded
    BY <1>1 DEF PassRecords
  <1> HIDE DEF r
  <1> QED BY <1>1, <1>2, <1>3, EarlyLoud DEF BeforeSelect

LEMMA PurgeLoud ==
    ASSUME TypeOK, LoudInv, NEW k \in Passes, PurgeEmbeddings(k)
    PROVE  LoudInv'
  <1> DEFINE purged == SomeDense \/ SomeFull
             r == [pass[k] EXCEPT !.pc = "sparse", !.purged = purged]
  <1>1. pass[k] \in PassRecords /\ pass[k].pc = "purge" /\ Disturbing(k, r)
    BY DEF TypeOK, PurgeEmbeddings, At
  <1> HIDE DEF purged
  <1>2. /\ r.pc = "sparse" /\ r.full = pass[k].full /\ r.quiet = pass[k].quiet
        /\ r.unrewritten = pass[k].unrewritten /\ r.embedded = pass[k].embedded
    BY <1>1 DEF PassRecords
  <1> HIDE DEF r
  <1>3. ASSUME NEW n \in Notes, rows'[n] # Absent PROVE rows'[n].dense = NULL
    <2>1. rows[n] \in Rows /\ rows'[n] = Cleared(rows[n])
      BY <1>3 DEF TypeOK, PurgeEmbeddings
    <2> QED BY <2>1 DEF Cleared, Rows
  <1> QED BY <1>1, <1>2, <1>3, EarlyLoud DEF BeforeSelect

LEMMA SparseLoud ==
    ASSUME TypeOK, LoudInv, NEW k \in Passes,
           maybeUpgradeSparse(k) \/ ReembedStaleSparse(k) \/ stampTextIfCurrent(k)
    PROVE  LoudInv'
  <1>1. pass[k] \in PassRecords /\ pass[k].pc \in BeforeSelect /\ rows' = rows
    BY DEF TypeOK, maybeUpgradeSparse, ReembedStaleSparse, stampTextIfCurrent, At, DatabaseSame, BeforeSelect
  <1>2. PICK r : /\ Step(k, r) /\ r.pc \in BeforeSelect /\ r.full = pass[k].full /\ r.quiet = pass[k].quiet
                 /\ r.unrewritten = pass[k].unrewritten /\ r.embedded = pass[k].embedded
    <2> DEFINE work == Work({n \in Stored : rows[n].sparse # NULL})
               r1 == [pass[k] EXCEPT !.pc = "resparse", !.todo = work]
               r2 == [pass[k] EXCEPT !.pc = "text"]
               r3 == [pass[k] EXCEPT !.pc = "select"]
    <2>1. \E r \in {r1, r2, r3} : Step(k, r)
      BY DEF maybeUpgradeSparse, ReembedStaleSparse, stampTextIfCurrent, Goto
    <2> HIDE DEF work
    <2>2. \A r \in {r1, r2, r3} : /\ r.pc \in BeforeSelect /\ r.full = pass[k].full /\ r.quiet = pass[k].quiet
                                  /\ r.unrewritten = pass[k].unrewritten /\ r.embedded = pass[k].embedded
      BY <1>1 DEF PassRecords, BeforeSelect
    <2> HIDE DEF r1, r2, r3
    <2> QED BY <2>1, <2>2
  <1> QED BY <1>1, <1>2, EarlyLoud DEF BeforeSelect

LEMMA ReembedLoud ==
    ASSUME TypeOK, LoudInv, NEW k \in Passes, NEW w \in pass[k].todo, reembedSparseNotes(k, w)
    PROVE  LoudInv'
  <1> DEFINE left == pass[k].todo \ {w}
             r == [pass[k] EXCEPT !.todo = left, !.upgraded = TRUE]
             v == [of |-> w.text, clean |-> TRUE]
  <1>1. /\ pass[k] \in PassRecords /\ pass[k].pc = "resparse" /\ Disturbing(k, r)
        /\ w.id \in Stored /\ rows' = [rows EXCEPT ![w.id].sparse = v]
    BY DEF TypeOK, reembedSparseNotes, At
  <1> HIDE DEF left, v
  <1>2. /\ r.pc = "resparse" /\ r.full = pass[k].full /\ r.quiet = pass[k].quiet
        /\ r.unrewritten = pass[k].unrewritten /\ r.embedded = pass[k].embedded
    BY <1>1 DEF PassRecords
  <1> HIDE DEF r
  <1>3. ASSUME NEW n \in Notes, rows'[n] # Absent, rows'[n].dense # NULL
        PROVE  rows[n] # Absent /\ rows[n].dense # NULL
    <2>1. CASE n = w.id
      <3>1. rows[n] \in Rows /\ rows'[n] = [rows[n] EXCEPT !.sparse = v] /\ rows[n] # Absent
        BY <1>1, <2>1 DEF TypeOK, Stored
      <3>2. rows'[n].dense = rows[n].dense
        BY <3>1 DEF Rows
      <3> QED BY <1>3, <3>1, <3>2
    <2>2. CASE n # w.id
      <3>1. rows'[n] = rows[n]
        BY <1>1, <2>2 DEF TypeOK
      <3> QED BY <1>3, <3>1
    <2> QED BY <2>1, <2>2
  <1> QED BY <1>1, <1>2, <1>3, EarlyLoud DEF BeforeSelect

\* A pass that comes to the selection selects every note with a text.
LEMMA SelectLoud ==
    ASSUME TypeOK, LoudInv, NEW k \in Passes, loadPendingNoteTexts(k)
    PROVE  LoudInv'
  <1> DEFINE work == {w \in Work(embedNoteQueries(k)) : w.text \notin EmptyBody}
             r == [pass[k] EXCEPT !.pc = "embed", !.todo = work]
  <1>1. pass[k] \in PassRecords /\ pass[k].pc = "select" /\ rows' = rows /\ Step(k, r)
    BY DEF TypeOK, loadPendingNoteTexts, At, DatabaseSame
  <1>2. \A w \in work : rows[w.id] # Absent /\ rows[w.id].text = w.text
    BY DEF Work, embedNoteQueries, Unembedded, Stored
  <1>3. ASSUME NEW n \in Notes, CanEmbed(rows, n), rows[n].dense = NULL
        PROVE  [id |-> n, text |-> rows[n].text] \in work
    <2>1. n \in Stored /\ rows[n].text \notin EmptyBody
      BY <1>3 DEF CanEmbed, Stored
    <2>2. n \in embedNoteQueries(k)
      BY <1>3, <2>1 DEF embedNoteQueries, Unembedded, Complete
    <2> QED BY <2>1, <2>2 DEF Work
  <1> HIDE DEF work
  <1>4. /\ r.pc = "embed" /\ r.full = pass[k].full /\ r.quiet = pass[k].quiet
        /\ r.unrewritten = pass[k].unrewritten /\ r.todo = work /\ r.embedded = pass[k].embedded
    BY <1>1 DEF PassRecords
  <1> HIDE DEF r
  <1>5. Loud(pass[k], rows)
    BY DEF LoudInv
  <1>6. Loud(r, rows)
    BY <1>1, <1>2, <1>3, <1>4, <1>5 DEF Loud, BeforeSelect
  <1> QED BY <1>1, <1>6, ActorLoud

\* A row after a batch has its text, and what was embedded has a dense vector.
LEMMA RowAfterLoud ==
    ASSUME TypeOK, NEW m \in Models, NEW batch \in SUBSET [id : Notes, text : Texts], NEW n \in Notes,
           rows[n] # Absent
    PROVE  LET s == RowAfter(n, m, batch)
           IN  /\ s # Absent /\ s.text = rows[n].text
               /\ rows[n].dense # NULL => s.dense # NULL
               /\ (\E w \in WithOutput(m, batch) : w.id = n) => s.dense # NULL
  <1> DEFINE mine == {w \in WithOutput(m, batch) : w.id = n}
             w0 == CHOOSE w \in mine : TRUE
  <1>0. rows[n] \in Rows
    BY DEF TypeOK
  <1>1. CASE mine = {}
    <2>1. RowAfter(n, m, batch) = rows[n]
      BY <1>1 DEF RowAfter
    <2> QED BY <1>1, <2>1
  <1>2. CASE mine # {}
    <2>1. RowAfter(n, m, batch) = WithVectors(rows[n], m, w0.text)
      BY <1>2 DEF RowAfter
    <2>2. w0 \in mine
      BY <1>2
    <2>3. w0.text \in Texts
      BY <2>2 DEF WithOutput
    <2> DEFINE t == w0.text
    <2> HIDE DEF w0
    <2>4. WithVectors(rows[n], m, t) \in Rows
      BY <1>0, <2>3, WithVectorsType
    <2>5. WithVectors(rows[n], m, t) # Absent
      BY <2>4, NullAssumption
    <2>6. Dense(m, t) # NULL
      <3>1. Dense(m, t) \in DenseVectors
        BY <2>3 DEF Dense, DenseVectors
      <3> QED BY <3>1, NullAssumption
    <2>7. WithVectors(rows[n], m, t).text = rows[n].text /\ WithVectors(rows[n], m, t).dense = Dense(m, t)
      BY <1>0 DEF WithVectors, WithDense, Rows
    <2> QED BY <2>1, <2>5, <2>6, <2>7
  <1> QED BY <1>1, <1>2

LEMMA EmbedLoud ==
    ASSUME TypeOK, LoudInv, NEW k \in Passes, NEW batch \in SUBSET pass[k].todo, EmbedBatch(k, batch)
    PROVE  LoudInv'
  <1> DEFINE m == pass[k].model
             done == WithOutput(m, batch)
             left == pass[k].todo \ batch
             unrewritten == appendUnrewritten(k, batch \ done)
             embedded == pass[k].embedded \/ done # {}
             r == [pass[k] EXCEPT !.todo = left, !.unrewritten = unrewritten, !.embedded = embedded]
  <1>0. /\ pass[k] \in PassRecords /\ m \in Models
        /\ batch \in SUBSET [id : Notes, text : Texts]
    BY DEF TypeOK, PassRecords
  <1>1. /\ Disturbing(k, r) /\ rows' = [n \in Notes |-> RowAfter(n, m, batch)] /\ pass[k].pc = "embed"
    BY DEF EmbedBatch, At
  <1>2. \A w \in batch : w \in done \/ w.text \in NoTokens
    BY DEF WithOutput
  <1>3. \A n \in unrewritten : n \in pass[k].unrewritten \/ \E w \in batch \ done : w.id = n
    BY DEF appendUnrewritten
  <1>14. done \subseteq batch
    BY DEF WithOutput
  <1> HIDE DEF done, embedded, unrewritten
  <1>4. /\ r.pc = "embed" /\ r.full = pass[k].full /\ r.quiet = pass[k].quiet
        /\ r.todo = left /\ r.unrewritten = unrewritten /\ r.failed = pass[k].failed
        /\ r.embedded = embedded
    BY <1>0, <1>1 DEF PassRecords
  <1> HIDE DEF r
  <1>5. ASSUME NEW n \in Notes, rows'[n] # Absent
        PROVE  /\ rows[n] # Absent /\ rows'[n].text = rows[n].text
               /\ rows[n].dense # NULL => rows'[n].dense # NULL
               /\ (\E w \in done : w.id = n) => rows'[n].dense # NULL
    <2>1. rows[n] # Absent
      BY <1>1, <1>5 DEF RowAfter
    <2> QED BY <1>0, <1>1, <2>1, RowAfterLoud DEF done
  <1>15. \A n \in Notes : rows[n] # Absent => rows'[n] # Absent
    BY <1>0, <1>1, RowAfterLoud
  <1> HIDE DEF m, left
  <1>6. SUFFICES ASSUME r.full, r.quiet PROVE Loud(r, rows')
    BY <1>1, ActorLoud DEF Loud
  <1>7. /\ \A w \in pass[k].todo :
              rows[w.id] # Absent /\ rows[w.id].text = w.text /\ w.id \notin pass[k].unrewritten
        /\ pass[k].embedded => \E n \in Notes : HasDense(rows, n) /\ Spared(pass[k], n)
        /\ \A n \in pass[k].unrewritten : CanEmbed(rows, n) => pass[k].failed
        /\ \A n \in Notes : CanEmbed(rows, n) =>
              \/ pass[k].failed \/ rows[n].dense # NULL
              \/ [id |-> n, text |-> rows[n].text] \in pass[k].todo
    BY <1>1, <1>4, <1>6 DEF LoudInv, Loud
  <1>8. \A n \in Notes : CanEmbed(rows', n) => CanEmbed(rows, n)
    BY <1>5 DEF CanEmbed
  <1>9. \A w \in left : w \in pass[k].todo /\ w.id \in Notes
    BY <1>0 DEF left, PassRecords
  <1>16. \A v, w \in pass[k].todo : v.id = w.id => v = w
    <2>1. \A w \in pass[k].todo : w = [id |-> w.id, text |-> rows[w.id].text]
      BY <1>0, <1>7 DEF PassRecords
    <2> QED BY <2>1
  <1>10. \A w \in left : rows'[w.id] # Absent /\ rows'[w.id].text = w.text /\ w.id \notin unrewritten
    BY <1>3, <1>5, <1>7, <1>9, <1>15, <1>16 DEF left
  <1>11. ASSUME NEW n \in unrewritten, CanEmbed(rows', n) PROVE pass[k].failed
    <2>1. CASE n \in pass[k].unrewritten
      <3>1. n \in Notes
        BY <1>0, <2>1 DEF PassRecords
      <3> QED BY <1>7, <1>8, <1>11, <2>1, <3>1
    <2>2. ASSUME NEW w \in batch \ done, w.id = n PROVE FALSE
      <3>1. n \in Notes /\ w \in pass[k].todo
        BY <1>0, <2>2
      <3>2. rows[n] # Absent /\ rows[n].text = w.text
        BY <1>5, <1>7, <1>11, <2>2, <3>1 DEF CanEmbed
      <3> QED BY <1>2, <1>5, <1>11, <3>1, <3>2 DEF CanEmbed
    <2> QED BY <1>3, <2>1, <2>2
  <1>12. ASSUME NEW n \in Notes, CanEmbed(rows', n)
         PROVE  pass[k].failed \/ rows'[n].dense # NULL \/ [id |-> n, text |-> rows'[n].text] \in left
    <2> DEFINE v == [id |-> n, text |-> rows[n].text]
    <2>1. /\ rows'[n] # Absent /\ rows'[n].text = rows[n].text /\ CanEmbed(rows, n)
          /\ rows[n].text \notin NoTokens /\ v.id = n /\ v.text = rows[n].text
      BY <1>5, <1>8, <1>12 DEF CanEmbed
    <2>2. pass[k].failed \/ rows[n].dense # NULL \/ v \in pass[k].todo
      BY <1>7, <2>1
    <2>3. CASE v \in batch
      BY <1>2, <1>5, <2>1, <2>3
    <2>4. CASE v \notin batch
      BY <1>5, <2>1, <2>2, <2>4 DEF left
    <2> QED BY <2>3, <2>4
  <1>13. ASSUME embedded
         PROVE  \E n \in Notes : HasDense(rows', n) /\ n \notin unrewritten /\ \A w \in left : w.id # n
    <2>1. CASE done # {}
      <3>1. PICK w \in done : w \in batch /\ w \in pass[k].todo /\ w.id \in Notes
        BY <1>0, <1>14, <2>1
      <3>2. HasDense(rows', w.id)
        BY <1>5, <1>7, <1>15, <3>1 DEF HasDense
      <3>3. w.id \notin unrewritten /\ \A v \in left : v.id # w.id
        BY <1>3, <1>7, <1>16, <3>1 DEF left
      <3> QED BY <3>1, <3>2, <3>3
    <2>2. CASE pass[k].embedded
      <3>1. PICK n \in Notes : HasDense(rows, n) /\ Spared(pass[k], n)
        BY <1>7, <2>2
      <3>2. HasDense(rows', n)
        BY <1>5, <1>15, <3>1 DEF HasDense
      <3>3. n \notin unrewritten /\ \A w \in left : w.id # n
        BY <1>3, <3>1 DEF Spared, left
      <3> QED BY <3>2, <3>3
    <2> QED BY <1>13, <2>1, <2>2 DEF embedded
  <1>17. r.embedded => \E n \in Notes : HasDense(rows', n) /\ Spared(r, n)
    BY <1>4, <1>13 DEF Spared
  <1> QED BY <1>4, <1>10, <1>11, <1>12, <1>17 DEF Loud, BeforeSelect

LEMMA FailLoud ==
    ASSUME TypeOK, LoudInv, NEW k \in Passes, NEW batch \in SUBSET pass[k].todo, FailBatch(k, batch)
    PROVE  LoudInv'
  <1> DEFINE left == pass[k].todo \ batch
             unrewritten == appendUnrewritten(k, batch)
             r == [pass[k] EXCEPT !.todo = left, !.failed = TRUE, !.unrewritten = unrewritten]
  <1>1. pass[k] \in PassRecords /\ pass[k].pc = "embed" /\ rows' = rows /\ Step(k, r)
    BY DEF TypeOK, FailBatch, At, DatabaseSame
  <1>5. \A n \in unrewritten : n \in pass[k].unrewritten \/ \E w \in batch : w.id = n
    BY DEF appendUnrewritten
  <1> HIDE DEF unrewritten
  <1>2. /\ r.pc = "embed" /\ r.full = pass[k].full /\ r.quiet = pass[k].quiet /\ r.todo = left /\ r.failed
        /\ r.unrewritten = unrewritten /\ r.embedded = pass[k].embedded
    BY <1>1 DEF PassRecords
  <1> HIDE DEF r
  <1>3. Loud(pass[k], rows)
    BY DEF LoudInv
  <1>6. SUFFICES ASSUME r.full, r.quiet PROVE Loud(r, rows)
    BY <1>1, ActorLoud DEF Loud
  <1>7. /\ \A w \in pass[k].todo :
              rows[w.id] # Absent /\ rows[w.id].text = w.text /\ w.id \notin pass[k].unrewritten
        /\ pass[k].embedded => \E n \in Notes : HasDense(rows, n) /\ Spared(pass[k], n)
    BY <1>1, <1>2, <1>3, <1>6 DEF Loud
  <1>8. \A v, w \in pass[k].todo : v.id = w.id => v = w
    <2>1. \A w \in pass[k].todo : w = [id |-> w.id, text |-> rows[w.id].text]
      BY <1>1, <1>7 DEF PassRecords
    <2> QED BY <2>1
  <1>9. \A w \in left : rows[w.id] # Absent /\ rows[w.id].text = w.text /\ w.id \notin unrewritten
    BY <1>5, <1>7, <1>8
  <1>10. \A n : Spared(pass[k], n) => Spared(r, n)
    BY <1>2, <1>5 DEF Spared
  <1>4. Loud(r, rows)
    BY <1>2, <1>7, <1>9, <1>10 DEF Loud, BeforeSelect
  <1> QED BY <1>1, <1>4, ActorLoud

\* What a pass did not rewrite has no output, or the pass has failed.
LEMMA ClearLoud ==
    ASSUME TypeOK, LoudInv, NEW k \in Passes, clearNoteVectors(k)
    PROVE  LoudInv'
  <1> DEFINE r == [pass[k] EXCEPT !.pc = "units"]
  <1>1. /\ pass[k] \in PassRecords /\ pass[k].pc = "embed" /\ pass[k].todo = {} /\ Disturbing(k, r)
    BY DEF TypeOK, clearNoteVectors, At
  <1>2. /\ r.pc = "units" /\ r.full = pass[k].full /\ r.quiet = pass[k].quiet /\ r.failed = pass[k].failed
        /\ r.embedded = pass[k].embedded
    BY <1>1 DEF PassRecords
  <1> HIDE DEF r
  <1>3. ASSUME NEW n \in Notes, CanEmbed(rows', n)
        PROVE  /\ CanEmbed(rows, n)
               /\ n \notin pass[k].unrewritten => rows'[n] = rows[n]
    <2>1. CASE n \in pass[k].unrewritten /\ rows[n] # Absent
      <3>1. rows'[n] = Cleared(rows[n]) /\ rows[n] \in Rows
        BY <2>1 DEF clearNoteVectors, TypeOK
      <3>2. rows'[n].text = rows[n].text
        BY <3>1 DEF Cleared, Rows
      <3> QED BY <1>3, <2>1, <3>2 DEF CanEmbed
    <2>2. CASE ~ (n \in pass[k].unrewritten /\ rows[n] # Absent)
      <3>1. rows'[n] = rows[n]
        BY <2>2 DEF clearNoteVectors
      <3> QED BY <1>3, <3>1 DEF CanEmbed
    <2> QED BY <2>1, <2>2
  <1>4. SUFFICES ASSUME r.full, r.quiet PROVE Loud(r, rows')
    BY <1>1, ActorLoud DEF Loud
  <1>5. /\ \A n \in pass[k].unrewritten : CanEmbed(rows, n) => pass[k].failed
        /\ \A n \in Notes : CanEmbed(rows, n) => pass[k].failed \/ rows[n].dense # NULL
    BY <1>1, <1>2, <1>4 DEF LoudInv, Loud
  <1>6. \A n \in Notes : CanEmbed(rows', n) => pass[k].failed \/ rows'[n].dense # NULL
    BY <1>3, <1>5
  <1>7. ASSUME pass[k].embedded PROVE \E n \in Notes : HasDense(rows', n)
    <2>1. PICK n \in Notes : HasDense(rows, n) /\ n \notin pass[k].unrewritten
      BY <1>1, <1>2, <1>4, <1>7 DEF LoudInv, Loud, Spared
    <2>2. rows'[n] = rows[n]
      BY <2>1 DEF clearNoteVectors
    <2> QED BY <2>1, <2>2 DEF HasDense
  <1> QED BY <1>2, <1>6, <1>7 DEF Loud, BeforeSelect

LEMMA UnitsLoud ==
    ASSUME TypeOK, LoudInv, NEW k \in Passes, finishPassageEmbedding(k)
    PROVE  LoudInv'
  <1> DEFINE work == IF pass[k].model = "bge-m3" /\ ~ pass[k].sidecar THEN Work(passagePending) ELSE {}
             r == [pass[k] EXCEPT !.pc = "passages", !.todo = work]
  <1>1. pass[k] \in PassRecords /\ pass[k].pc = "units" /\ rows' = rows /\ Step(k, r)
    BY DEF TypeOK, finishPassageEmbedding, At, DatabaseSame
  <1> HIDE DEF work
  <1>2. /\ r.pc = "passages" /\ r.full = pass[k].full /\ r.quiet = pass[k].quiet /\ r.failed = pass[k].failed
        /\ r.embedded = pass[k].embedded
    BY <1>1 DEF PassRecords
  <1> HIDE DEF r
  <1>3. Loud(pass[k], rows)
    BY DEF LoudInv
  <1>4. Loud(r, rows)
    BY <1>1, <1>2, <1>3 DEF Loud, BeforeSelect
  <1> QED BY <1>1, <1>4, ActorLoud

LEMMA PassageLoud ==
    ASSUME TypeOK, LoudInv, NEW k \in Passes, NEW w \in pass[k].todo, storePassageNote(k, w)
    PROVE  LoudInv'
  <1> DEFINE left == pass[k].todo \ {w}
             r == [pass[k] EXCEPT !.todo = left]
             v == [of |-> w.text]
  <1>1. /\ pass[k] \in PassRecords /\ pass[k].pc = "passages" /\ Disturbing(k, r)
        /\ w.id \in Stored /\ rows' = [rows EXCEPT ![w.id].units = v]
    BY DEF TypeOK, storePassageNote, At, Current
  <1> HIDE DEF left, v
  <1>2. /\ r.pc = "passages" /\ r.full = pass[k].full /\ r.quiet = pass[k].quiet /\ r.failed = pass[k].failed
        /\ r.embedded = pass[k].embedded
    BY <1>1 DEF PassRecords
  <1> HIDE DEF r
  <1>3. ASSUME NEW n \in Notes, rows'[n] # Absent
        PROVE  rows[n] # Absent /\ rows'[n].text = rows[n].text /\ rows'[n].dense = rows[n].dense
    <2>1. CASE n = w.id
      <3>1. rows[n] \in Rows /\ rows'[n] = [rows[n] EXCEPT !.units = v] /\ rows[n] # Absent
        BY <1>1, <2>1 DEF TypeOK, Stored
      <3> QED BY <3>1 DEF Rows
    <2>2. CASE n # w.id
      <3>1. rows'[n] = rows[n]
        BY <1>1, <2>2 DEF TypeOK
      <3> QED BY <1>3, <3>1
    <2> QED BY <2>1, <2>2
  <1>4. Loud(pass[k], rows)
    BY DEF LoudInv
  <1>5. \A n \in Notes : CanEmbed(rows', n) => CanEmbed(rows, n) /\ rows'[n].dense = rows[n].dense
    BY <1>3 DEF CanEmbed
  <1>7. \A n \in Notes : HasDense(rows, n) => HasDense(rows', n)
    <2> SUFFICES ASSUME NEW n \in Notes, HasDense(rows, n) PROVE HasDense(rows', n)
      OBVIOUS
    <2>1. rows'[n] # Absent
      <3>1. CASE n = w.id
        <4>1. rows[n] \in Rows /\ w.text \in Texts
          BY <3>1, TodoType DEF TypeOK, storePassageNote, Current, Stored
        <4>2. rows'[n] = [rows[n] EXCEPT !.units = [of |-> w.text]]
          BY <3>1 DEF TypeOK, storePassageNote
        <4>3. rows'[n] \in Rows
          BY <4>1, <4>2 DEF Rows, UnitVectors
        <4> QED BY <4>3, NullAssumption
      <3>2. CASE n # w.id
        BY <1>1, <3>2 DEF TypeOK, HasDense
      <3> QED BY <3>1, <3>2
    <2>2. rows'[n].dense = rows[n].dense
      BY <1>3, <2>1
    <2> QED BY <2>1, <2>2 DEF HasDense
  <1>6. Loud(r, rows')
    BY <1>1, <1>2, <1>4, <1>5, <1>7 DEF Loud, BeforeSelect
  <1> QED BY <1>1, <1>6, ActorLoud

LEMMA EndLoud ==
    ASSUME TypeOK, LoudInv, NEW k \in Passes,
           stampEmbedPass(k) \/ writeUpgradeStamps(k) \/ Abort(k)
    PROVE  LoudInv'
  <1>1. rows' = rows /\ (Step(k, Idle) \/ Goto(k, "stamp"))
    BY DEF stampEmbedPass, writeUpgradeStamps, Abort, DatabaseSame
  <1>2. CASE Goto(k, "stamp")
    <2> DEFINE r == [pass[k] EXCEPT !.pc = "stamp"]
    <2>1. r.pc = "stamp"
      BY DEF TypeOK, PassRecords
    <2>2. Step(k, r)
      BY <1>2 DEF Goto
    <2> HIDE DEF r
    <2>3. Loud(r, rows')
      BY <2>1 DEF Loud, BeforeSelect
    <2> QED BY <1>1, <2>2, <2>3, ActorLoud
  <1> QED BY <1>1, <1>2, IdleLoud

LEMMA StepKeepsLoud ==
    ASSUME TypeOK, LoudInv, [Next]_vars
    PROVE  LoudInv'
  <1>1. CASE Indexer
    BY <1>1, IndexerLoud
  <1>2. ASSUME NEW k \in Passes, Begin(k)
        PROVE  LoudInv'
    <2>1. ASSUME NEW m \in Models, NEW full \in BOOLEAN, RunEmbed(k, m, full)
          PROVE  LoudInv'
      BY <2>1, StartLoud DEF RunEmbed
    <2>2. CASE embedAfterWrite(k)
      BY <2>2, StartLoud DEF embedAfterWrite
    <2> QED BY <1>2, <2>1, <2>2, LoadLoud, PlanLoud, PurgeLoud, SparseLoud, ReembedLoud DEF Begin
  <1>3. ASSUME NEW k \in Passes, EmbedNotes(k)
        PROVE  LoudInv'
    BY <1>3, SelectLoud, EmbedLoud, FailLoud, ClearLoud, UnitsLoud, PassageLoud DEF EmbedNotes
  <1>4. CASE UNCHANGED vars
    BY <1>4 DEF vars, LoudInv
  <1> QED BY <1>1, <1>2, <1>3, <1>4, EndLoud DEF Next

\* A --full pass that reports success has embedded every note that can be embedded,
\* and left vectors where it purged some, when nobody else wrote: a batch that fails,
\* vectors cleared because they were not rewritten, and outputs that are all empty
\* end in an error (indexer.go:275).
THEOREM FullAlwaysFailsLoud == Spec => FullFailsLoud
  <1>1. Init => LoudInv
    <2>1. Loud(Idle, rows)
      BY DEF Loud, Idle, BeforeSelect
    <2>2. Init => \A k \in Passes : pass[k] = Idle
      BY DEF Init
    <2> QED BY <2>1, <2>2 DEF LoudInv
  <1>2. ASSUME TypeOK, LoudInv, NEW k \in Passes, stampEmbedPass(k), pass[k].full, pass[k].quiet
        PROVE  /\ \A n \in Stored : rows[n].dense # NULL \/ rows[n].text \in EmptyBody \cup NoTokens
               /\ pass[k].purged => SomeDense
    <2>1. /\ pass[k].pc = "passages" /\ ~ pass[k].failed
          /\ pass[k].purged => pass[k].embedded
      BY <1>2 DEF stampEmbedPass, At, LostVectors
    <2>2. Loud(pass[k], rows)
      BY <1>2 DEF LoudInv
    <2>3. \A n \in Stored : rows[n].dense # NULL \/ rows[n].text \in EmptyBody \cup NoTokens
      BY <1>2, <2>1, <2>2 DEF Loud, CanEmbed, Stored
    <2>4. pass[k].purged => SomeDense
      BY <1>2, <2>1, <2>2 DEF Loud, HasDense, SomeDense, Stored
    <2> QED BY <2>3, <2>4
  <1>3. TypeOK /\ LoudInv =>
          [\A k \in Passes :
             stampEmbedPass(k) /\ pass[k].full /\ pass[k].quiet =>
                /\ \A n \in Stored :
                      rows[n].dense # NULL \/ rows[n].text \in EmptyBody \cup NoTokens
                /\ pass[k].purged => SomeDense]_vars
    <2> SUFFICES ASSUME TypeOK, LoudInv, NEW k \in Passes, stampEmbedPass(k), pass[k].full, pass[k].quiet
                 PROVE  /\ \A n \in Stored : rows[n].dense # NULL \/ rows[n].text \in EmptyBody \cup NoTokens
                        /\ pass[k].purged => SomeDense
      OBVIOUS
    <2> QED BY <1>2
  <1>4. TypeOK /\ LoudInv /\ [Next]_vars => LoudInv'
    BY StepKeepsLoud
  <1> QED BY <1>1, <1>3, <1>4, TypeCorrect, PTL DEF Spec, FullFailsLoud
=============================================================================
