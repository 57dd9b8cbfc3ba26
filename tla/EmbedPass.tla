------------------------------ MODULE EmbedPass ------------------------------
(***************************************************************************)
(* Embedding passes over the index (src/internal/index/indexer.go RunEmbed *)
(* to EmbedNotes, embed_text.go, embed_text_format.go, sparse_format.go,   *)
(* passage_vectors.go), started by `index --embed` or after a write of a   *)
(* note, while the indexer stores and deletes notes.                       *)
(*                                                                         *)
(* A pass computes vectors outside any transaction: it reads texts in one  *)
(* step and writes what it made of them in later ones.  A vector is a      *)
(* record of what it was computed from, and how.                           *)
(***************************************************************************)
EXTENDS Integers, FiniteSets

CONSTANTS
    Notes,       \* ids of notes
    Texts,       \* what a note's title and body can be
    EmptyBody,   \* texts with an empty body: nothing to embed
    NoTokens,    \* texts BGE-M3 gives no sparse or ColBERT output for
    Long,        \* texts long enough for passage vectors
    NULL,        \* SQL NULL
    Absent,      \* the note has no row
    Passes,      \* processes that can run a pass
    PureGo,      \* a build without ORT: a BGE-M3 that does not load falls back
    Legacy,      \* the vaults the history can start from
    WriteLimit,  \* embedOnWriteLimit: pending notes a write embeds at most
    MaxRuns,     \* bound: passes started
    MaxWrites    \* bound: notes stored and deleted

ASSUME EmbedAssumption ==
    /\ EmptyBody \subseteq Texts /\ NoTokens \subseteq Texts /\ Long \subseteq Texts
    /\ IsFiniteSet(Notes)
    /\ Legacy \subseteq {"never", "minilm", "bge-m3", "bge-m3 clean"}
    /\ PureGo \in BOOLEAN /\ WriteLimit \in Nat /\ MaxRuns \in Nat /\ MaxWrites \in Nat

VARIABLES
    rows,         \* note -> its row of notes and its passage vectors, or Absent
    textStamp,    \* meta: dense vectors are of title and body
    sparseStamp,  \* meta: sparse vectors are without special tokens
    pass,         \* process -> the state of its pass
    runs,         \* passes started
    writes        \* notes stored and deleted

vars == <<rows, textStamp, sparseStamp, pass, runs, writes>>

-----------------------------------------------------------------------------
(* Rows *)

Models == {"minilm", "bge-m3"}

DenseVectors  == [model : Models, of : Texts, titled : BOOLEAN]
SparseVectors == [of : Texts, clean : BOOLEAN]
ColBERT       == [of : Texts]
UnitVectors   == [of : Texts]

Rows == [text : Texts,
         dense : DenseVectors \cup {NULL}, sparse : SparseVectors \cup {NULL},
         colbert : ColBERT \cup {NULL}, units : UnitVectors \cup {NULL}]

Stored == {n \in Notes : rows[n] # Absent}

Complete(r) == r.dense # NULL /\ r.sparse # NULL /\ r.colbert # NULL

NewRow(t) == [text |-> t, dense |-> NULL, sparse |-> NULL, colbert |-> NULL, units |-> NULL]

\* Fault: the columns are emptied instead of set to NULL.
Cleared_EmptyBlob(r) ==
    [r EXCEPT !.dense = Absent, !.sparse = NULL, !.colbert = NULL, !.units = NULL]

\* Three columns in one statement; a trigger drops the passage vectors of a
\* row whose dense vector changed.
Cleared(r) ==
    [r EXCEPT !.dense = NULL, !.sparse = NULL, !.colbert = NULL,
              !.units = IF r.dense = NULL THEN @ ELSE NULL]

Dense(m, t) == [model |-> m, of |-> t, titled |-> TRUE]

\* Overwriting the dense vector with the same bytes fires no trigger.
WithDense(r, d) == [r EXCEPT !.dense = d, !.units = IF r.dense = d THEN @ ELSE NULL]

\* An empty output is encoded as NULL.
WithVectors(r, m, t) ==
    IF m = "minilm" THEN WithDense(r, Dense(m, t))
    ELSE [WithDense(r, Dense(m, t)) EXCEPT
            !.sparse = IF t \in NoTokens THEN NULL ELSE [of |-> t, clean |-> TRUE],
            !.colbert = IF t \in NoTokens THEN NULL ELSE [of |-> t]]

SomeDense == \E n \in Stored : rows[n].dense # NULL
SomeFull  == \E n \in Stored : rows[n].sparse # NULL \/ rows[n].colbert # NULL

\* The stamps are read together with the columns they describe.
EmbedTextStale == ~ textStamp /\ SomeDense
SparseFormatStale == ~ sparseStamp /\ \E n \in Stored : rows[n].sparse # NULL

\* The model the vault's vectors were made with, as a write sees it.
EmbeddedModel == IF SomeFull THEN "bge-m3" ELSE IF SomeDense THEN "minilm" ELSE NULL

Unembedded(m) == {n \in Stored : IF m = "bge-m3" THEN ~ Complete(rows[n]) ELSE rows[n].dense = NULL}

passagePending ==
    {n \in Stored : Complete(rows[n]) /\ rows[n].units = NULL /\ rows[n].text \in Long}

countPendingForModel(m) ==
    Cardinality(Unembedded(m)) + (IF m = "bge-m3" THEN Cardinality(passagePending) ELSE 0)

Work(ns) == {[id |-> n, text |-> rows[n].text] : n \in ns}

\* NULL differs from every vector, and Absent from every row.
ASSUME NullAssumption ==
    /\ NULL \notin DenseVectors \cup SparseVectors \cup ColBERT \cup UnitVectors
    /\ Absent \notin Rows

-----------------------------------------------------------------------------
(* Passes *)

Plans == {"none", "upgrade", "write"}
Pcs == {"idle", "load", "plan", "purge", "sparse", "resparse", "text", "select", "embed",
        "units", "passages", "stamp"}

Idle == [pc |-> "idle", model |-> "minilm", full |-> FALSE, titles |-> FALSE, sidecar |-> FALSE,
         plan |-> "none", todo |-> {}, unrewritten |-> {}, failed |-> FALSE,
         embedded |-> FALSE, upgraded |-> FALSE, purged |-> FALSE, quiet |-> TRUE]

PassRecords ==
    [pc : Pcs, model : Models, full : BOOLEAN, titles : BOOLEAN, sidecar : BOOLEAN,
     plan : Plans, todo : SUBSET [id : Notes, text : Texts], unrewritten : SUBSET Notes,
     failed : BOOLEAN, embedded : BOOLEAN, upgraded : BOOLEAN, purged : BOOLEAN, quiet : BOOLEAN]

At(k, p) == pass[k].pc = p

\* A step of k that other passes do not notice.
Step(k, next) == pass' = [pass EXCEPT ![k] = next]

Goto(k, p) == Step(k, [pass[k] EXCEPT !.pc = p])

\* A write of the database made by k, or by the indexer (k \notin Passes):
\* no other pass is undisturbed any more.
Disturbing(k, next) ==
    pass' = [j \in Passes |-> IF j = k THEN next ELSE [pass[j] EXCEPT !.quiet = FALSE]]

DatabaseSame == UNCHANGED <<rows, textStamp, sparseStamp>>

\* What a vault holds at first: vectors of bodies only, and sparse vectors
\* that count special tokens, were written by older builds.  A migration has
\* cleared the dense vector of a BGE-M3 row that had only some of the three.
LegacyDense(v, t) ==
    [model |-> IF v = "minilm" THEN "minilm" ELSE "bge-m3", of |-> t, titled |-> FALSE]

LegacyFull(v, t) == [NewRow(t) EXCEPT !.dense = LegacyDense(v, t), !.colbert = [of |-> t],
                                      !.sparse = [of |-> t, clean |-> v = "bge-m3 clean"]]

LegacyRows(v) ==
    LET embeddable == Texts \ EmptyBody
        full       == {LegacyFull(v, t) : t \in embeddable \ NoTokens}
    IN  {NewRow(t) : t \in Texts} \cup
        CASE v = "never"  -> {}
          [] v = "minilm" -> {[NewRow(t) EXCEPT !.dense = LegacyDense(v, t)] : t \in embeddable}
          [] OTHER        -> full \cup {[r EXCEPT !.dense = NULL, !.colbert = NULL] : r \in full}

Init ==
    /\ \E v \in Legacy :
          /\ rows \in [Notes -> LegacyRows(v) \cup {Absent}]
          /\ sparseStamp = (v = "bge-m3 clean")
    /\ textStamp = FALSE
    /\ pass = [k \in Passes |-> Idle]
    /\ runs = 0 /\ writes = 0

-----------------------------------------------------------------------------
(* The indexer, as far as vectors are concerned *)

Written == writes < MaxWrites /\ writes' = writes + 1 /\ UNCHANGED <<textStamp, sparseStamp, runs>>

\* A changed content clears the three vectors, and be it a change of what is not
\* embedded (the hash is of the whole file); every store clears the passage vectors.
StoreNote(n, t) ==
    /\ \/ rows' = [rows EXCEPT ![n] = NewRow(t)]
       \/ /\ rows[n] # Absent /\ rows[n].text = t
          /\ rows' = [rows EXCEPT ![n] = [@ EXCEPT !.units = NULL]]
    /\ Disturbing("indexer", Idle)
    /\ Written

DeleteNote(n) ==
    /\ n \in Stored
    /\ rows' = [rows EXCEPT ![n] = Absent]
    /\ Disturbing("indexer", Idle)
    /\ Written

-----------------------------------------------------------------------------
(* Starting a pass *)

\* Fault: the stored dimensions are not compared with the model's.
guardEmbeddingModel_Off(m) == TRUE

guardEmbeddingModel(m) == \A n \in Stored : rows[n].dense # NULL => rows[n].dense.model = m

skipIncrementalEmbed(m, titles) ==
    /\ countPendingForModel(m) = 0
    /\ ~ (titles /\ EmbedTextStale)
    /\ ~ (m = "bge-m3" /\ SparseFormatStale)

Start(k, m, full, titles) ==
    /\ At(k, "idle") /\ runs < MaxRuns
    /\ runs' = runs + 1
    /\ Step(k, [Idle EXCEPT !.pc = "load", !.model = m, !.full = full, !.titles = titles])
    /\ DatabaseSame /\ UNCHANGED writes

\* `index --embed`: a pass with nothing to do, or with another model than the
\* vault's, ends here.
RunEmbed(k, m, full) ==
    /\ IF full THEN Stored # {} ELSE guardEmbeddingModel(m) /\ ~ skipIncrementalEmbed(m, TRUE)
    /\ Start(k, m, full, TRUE)

\* After a write: the vault's own model, an incremental pass, no re-embedding
\* for titles, and no long backlog.
embedAfterWrite(k) ==
    LET m == EmbeddedModel
    IN  /\ m # NULL
        /\ m = "bge-m3" => ~ PureGo
        /\ (m = "bge-m3" /\ SparseFormatStale) \/ countPendingForModel(m) <= WriteLimit
        /\ guardEmbeddingModel(m) /\ ~ skipIncrementalEmbed(m, FALSE)
        /\ Start(k, m, FALSE, FALSE)

\* The asked model, BGE-M3 in a sidecar, or MiniLM where BGE-M3 does not load
\* and the vault holds none of its vectors.
loadEmbedder(k) ==
    /\ At(k, "load")
    /\ \/ Goto(k, "plan")
       \/ /\ pass[k].model = "bge-m3"
          /\ Step(k, [pass[k] EXCEPT !.pc = "plan", !.sidecar = TRUE])
       \/ /\ pass[k].model = "bge-m3" /\ PureGo /\ ~ SomeFull
          /\ Step(k, [pass[k] EXCEPT !.pc = "plan", !.model = "minilm"])
    /\ DatabaseSame /\ UNCHANGED <<runs, writes>>

-----------------------------------------------------------------------------
(* Before the notes: the plan, the purge, the sparse column, the text stamp *)

prepareEmbedText(k) ==
    /\ At(k, "plan")
    /\ Step(k, [pass[k] EXCEPT !.pc = IF pass[k].full THEN "purge" ELSE "sparse",
                               !.plan = IF ~ EmbedTextStale THEN "write"
                                        ELSE IF pass[k].titles THEN "upgrade" ELSE "none"])
    /\ DatabaseSame /\ UNCHANGED <<runs, writes>>

PurgeEmbeddings(k) ==
    /\ At(k, "purge")
    /\ rows' = [n \in Notes |-> IF rows[n] = Absent THEN Absent ELSE Cleared(rows[n])]
    /\ Disturbing(k, [pass[k] EXCEPT !.pc = "sparse", !.purged = SomeDense \/ SomeFull])
    /\ UNCHANGED <<textStamp, sparseStamp, runs, writes>>

maybeUpgradeSparse(k) ==
    /\ At(k, "sparse")
    /\ IF pass[k].plan # "upgrade" /\ pass[k].model = "bge-m3" /\ SparseFormatStale
       THEN Step(k, [pass[k] EXCEPT !.pc = "resparse",
                                    !.todo = Work({n \in Stored : rows[n].sparse # NULL})])
       ELSE Goto(k, "text")
    /\ DatabaseSame /\ UNCHANGED <<runs, writes>>

\* One note at a time, each in a statement of its own.  A note without output,
\* or without a row by now, ends the pass (Abort).
reembedSparseNotes(k, w) ==
    /\ At(k, "resparse") /\ w \in pass[k].todo /\ w.id \in Stored
    /\ rows' = [rows EXCEPT ![w.id].sparse = [of |-> w.text, clean |-> TRUE]]
    /\ Disturbing(k, [pass[k] EXCEPT !.todo = @ \ {w}, !.upgraded = TRUE])
    /\ UNCHANGED <<textStamp, sparseStamp, runs, writes>>

\* Fault: the stamp does not wait for the last note.
ReembedStaleSparse_Early(k) ==
    /\ At(k, "resparse")
    /\ sparseStamp' = TRUE
    /\ Goto(k, "text")
    /\ UNCHANGED <<rows, textStamp, runs, writes>>

ReembedStaleSparse(k) ==
    /\ At(k, "resparse") /\ pass[k].todo = {}
    /\ sparseStamp' = TRUE
    /\ Goto(k, "text")
    /\ UNCHANGED <<rows, textStamp, runs, writes>>

\* Fault: every pass stamps before it embeds.
stampTextIfCurrent_Always(k) ==
    /\ At(k, "text")
    /\ textStamp' = TRUE
    /\ Goto(k, "select")
    /\ UNCHANGED <<rows, sparseStamp, runs, writes>>

stampTextIfCurrent(k) ==
    /\ At(k, "text")
    /\ textStamp' = (textStamp \/ pass[k].plan = "write")
    /\ Goto(k, "select")
    /\ UNCHANGED <<rows, sparseStamp, runs, writes>>

-----------------------------------------------------------------------------
(* The notes *)

embedNoteQueries(k) ==
    IF pass[k].plan = "upgrade" THEN Stored ELSE Unembedded(pass[k].model)

loadPendingNoteTexts(k) ==
    /\ At(k, "select")
    /\ Step(k, [pass[k] EXCEPT !.pc = "embed",
                               !.todo = {w \in Work(embedNoteQueries(k)) : w.text \notin EmptyBody}])
    /\ DatabaseSame /\ UNCHANGED <<runs, writes>>

\* BGE-M3 output without sparse or ColBERT vectors is not stored.
WithOutput(m, batch) == {w \in batch : m = "bge-m3" => w.text \notin NoTokens}

RowAfter(n, m, batch) ==
    LET mine == {w \in WithOutput(m, batch) : w.id = n}
    IN  IF rows[n] = Absent \/ mine = {} THEN rows[n]
        ELSE WithVectors(rows[n], m, (CHOOSE w \in mine : TRUE).text)

\* Only a pass that upgrades records what it did not rewrite.
appendUnrewritten(k, batch) ==
    IF pass[k].plan = "upgrade" THEN pass[k].unrewritten \cup {w.id : w \in batch}
    ELSE pass[k].unrewritten

\* A batch is as large as its lengths allow.  Its vectors go in one transaction.
EmbedBatch(k, batch) ==
    /\ At(k, "embed") /\ batch # {}
    /\ LET m == pass[k].model
       IN  /\ rows' = [n \in Notes |-> RowAfter(n, m, batch)]
           /\ Disturbing(k, [pass[k] EXCEPT
                 !.todo = @ \ batch,
                 !.unrewritten = appendUnrewritten(k, batch \ WithOutput(m, batch)),
                 !.embedded = @ \/ WithOutput(m, batch) # {}])
    /\ UNCHANGED <<textStamp, sparseStamp, runs, writes>>

\* The embedder fails on the batch, or its transaction does.
FailBatch(k, batch) ==
    /\ At(k, "embed") /\ batch # {}
    /\ Step(k, [pass[k] EXCEPT !.todo = @ \ batch, !.failed = TRUE,
                               !.unrewritten = appendUnrewritten(k, batch)])
    /\ DatabaseSame /\ UNCHANGED <<runs, writes>>

\* In one transaction, whatever the notes hold by now.
clearNoteVectors(k) ==
    /\ At(k, "embed") /\ pass[k].todo = {}
    /\ rows' = [n \in Notes |-> IF n \in pass[k].unrewritten /\ rows[n] # Absent
                                THEN Cleared(rows[n]) ELSE rows[n]]
    /\ Disturbing(k, [pass[k] EXCEPT !.pc = "units"])
    /\ UNCHANGED <<textStamp, sparseStamp, runs, writes>>

-----------------------------------------------------------------------------
(* Passage vectors, and the end *)

finishPassageEmbedding(k) ==
    /\ At(k, "units")
    /\ Step(k, [pass[k] EXCEPT !.pc = "passages",
                               !.todo = IF pass[k].model = "bge-m3" /\ ~ pass[k].sidecar
                                        THEN Work(passagePending) ELSE {}])
    /\ DatabaseSame /\ UNCHANGED <<runs, writes>>

\* Fault: the source is not read again before the vectors are inserted.
Current_Unchecked(w) == w.id \in Stored

\* The note still has the text that was embedded, and a dense vector.
Current(w) == w.id \in Stored /\ rows[w.id].text = w.text /\ rows[w.id].dense # NULL

\* A note that changed, or that another pass was faster with, ends the pass
\* (Abort).
storePassageNote(k, w) ==
    /\ At(k, "passages") /\ w \in pass[k].todo
    /\ Current(w) /\ rows[w.id].units = NULL
    /\ rows' = [rows EXCEPT ![w.id].units = [of |-> w.text]]
    /\ Disturbing(k, [pass[k] EXCEPT !.todo = @ \ {w}])
    /\ UNCHANGED <<textStamp, sparseStamp, runs, writes>>

\* Fault: only a pass that embedded nothing at all is reported.
LostVectors_OnlyAll(k) == pass[k].purged /\ ~ pass[k].embedded

\* A purge that was not made good is an error.
LostVectors(k) == pass[k].failed \/ (pass[k].purged /\ ~ pass[k].embedded)

\* The sparse stamp: of an upgrade, or of a pass that stored vectors and had
\* neither errors nor an old column to rewrite.
stampEmbedPass(k) ==
    /\ At(k, "passages") /\ pass[k].todo = {}
    /\ ~ (pass[k].full /\ LostVectors(k))
    /\ IF pass[k].plan = "upgrade"
       THEN /\ sparseStamp' = (sparseStamp \/ pass[k].model = "bge-m3")
            /\ Goto(k, "stamp")
       ELSE /\ sparseStamp' = \/ sparseStamp
                              \/ /\ pass[k].model = "bge-m3" /\ ~ pass[k].upgraded
                                 /\ ~ pass[k].failed /\ pass[k].embedded
            /\ Step(k, Idle)
    /\ UNCHANGED <<rows, textStamp, runs, writes>>

writeUpgradeStamps(k) ==
    /\ At(k, "stamp")
    /\ textStamp' = TRUE
    /\ Step(k, Idle)
    /\ UNCHANGED <<rows, sparseStamp, runs, writes>>

\* An error is returned, the context is cancelled, the memory guard exits, or
\* the process dies.
Abort(k) ==
    /\ ~ At(k, "idle")
    /\ Step(k, Idle)
    /\ DatabaseSame /\ UNCHANGED <<runs, writes>>

-----------------------------------------------------------------------------

Indexer == \E n \in Notes : DeleteNote(n) \/ \E t \in Texts : StoreNote(n, t)

Begin(k) ==
    \/ \E m \in Models, full \in BOOLEAN : RunEmbed(k, m, full)
    \/ embedAfterWrite(k) \/ loadEmbedder(k) \/ prepareEmbedText(k) \/ PurgeEmbeddings(k)
    \/ maybeUpgradeSparse(k) \/ (\E w \in pass[k].todo : reembedSparseNotes(k, w))
    \/ ReembedStaleSparse(k) \/ stampTextIfCurrent(k)

EmbedNotes(k) ==
    \/ loadPendingNoteTexts(k)
    \/ \E batch \in SUBSET pass[k].todo : EmbedBatch(k, batch) \/ FailBatch(k, batch)
    \/ clearNoteVectors(k) \/ finishPassageEmbedding(k)
    \/ \E w \in pass[k].todo : storePassageNote(k, w)

Next ==
    \/ Indexer
    \/ \E k \in Passes :
          Begin(k) \/ EmbedNotes(k) \/ stampEmbedPass(k) \/ writeUpgradeStamps(k) \/ Abort(k)

Spec == Init /\ [][Next]_vars

-----------------------------------------------------------------------------
(* Properties *)

TypeOK ==
    /\ rows \in [Notes -> Rows \cup {Absent}]
    /\ textStamp \in BOOLEAN /\ sparseStamp \in BOOLEAN
    /\ pass \in [Passes -> PassRecords]
    /\ runs \in Nat /\ writes \in Nat

\* Once the text stamp says that vectors are of title and body, no vector of a
\* body alone is left, whatever failed, was cancelled or ran beside the pass
\* (embed_text_format.go:16, :115, :180).
TextStampTrue ==
    textStamp => \A n \in Stored : rows[n].dense # NULL => rows[n].dense.titled

\* Once the sparse stamp is current, no stored sparse vector counts special
\* tokens (sparse_format.go:18, :44).
SparseStampTrue ==
    sparseStamp => \A n \in Stored : rows[n].sparse # NULL => rows[n].sparse.clean

\* Both stamps tell the truth about every row, across passes that fail, are
\* cancelled or killed between two writes, or run beside each other.
StampsTrue == TextStampTrue /\ SparseStampTrue

\* Passage vectors are of the text the note has now, although they are computed
\* while it may change, and never outlive its dense vector
\* (passage_vectors.go:118, migration 011).
PassagesMatchText ==
    \A n \in Stored : rows[n].units # NULL => rows[n].units.of = rows[n].text /\ rows[n].dense # NULL

\* The dense vectors of one index are comparable.
OneModel ==
    \A m, n \in Stored : rows[m].dense # NULL /\ rows[n].dense # NULL =>
        rows[m].dense.model = rows[n].dense.model

\* "A write embeds its note with this model, so one index never mixes models"
\* (embedded_model.go:14) as long as one process runs every pass: the guard, the
\* fallback and the purge keep the model, whatever a pass leaves undone.  Each pass
\* looks at the model once, long before it writes, so two at once can mix them.
OneModelInTurn == (\A j, k \in DOMAIN pass : j = k) => OneModel

\* A --full pass that reports success has embedded every note that can be
\* embedded, and has not left a vault whose vectors it purged without any, be it
\* by empty outputs alone, when nobody else wrote (indexer.go:275).
FullFailsLoud ==
    [][\A k \in Passes :
         stampEmbedPass(k) /\ pass[k].full /\ pass[k].quiet =>
            /\ \A n \in Stored :
                  rows[n].dense # NULL \/ rows[n].text \in EmptyBody \cup NoTokens
            /\ pass[k].purged => SomeDense]_vars

-----------------------------------------------------------------------------
(* What the source says of itself and does not keep *)

\* "Clear stale embeddings when the note's content changes. Without this,
\* semantic retrieval keeps returning hits computed from the old body_text"
\* (store.go:230): a dense vector is of the text its note has.
VectorsMatchText == \A n \in Stored : rows[n].dense # NULL => rows[n].dense.of = rows[n].text
=============================================================================
