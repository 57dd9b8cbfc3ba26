--------------------------------- MODULE Ask ---------------------------------
(***************************************************************************)
(* `vaultmind ask` (src/internal/query/ask.go, src/cmd/ask.go): a question *)
(* is ranked, the context around the best hit is packed, the text of notes *)
(* this conversation has had is withheld, and what is handed over is told  *)
(* to the access rows, to the experiment log and to the conversation's     *)
(* ledger, before it is printed.  `memory pack` packs and tells no one.    *)
(*                                                                         *)
(* Several asks of one conversation run beside each other, beside edits of *)
(* the vault and passes that index it; each may die between any two steps, *)
(* and every write but the answer may fail unseen.  What the search finds, *)
(* and how it judges its first hit, is part of the question.  A pack is    *)
(* one step: its reads share no transaction, and a pass in between is left *)
(* out, as are federation, --read, gaps and the wording of the answer.     *)
(***************************************************************************)
EXTENDS ContextPack

CONSTANTS
    Vaults,      \* [notes: id -> version -> sizes, links, activation, edited: notes whose files change]
    Questions,   \* [hits: ids, best first, near: those that clear the weak band, verdict]
    Modes,       \* [json, pointers, quiet, dedup, drafts, dense, budget, maxItems, excerpt]
    PackModes,   \* configurations of `memory pack`
    Asks,        \* asks of one conversation
    Window,      \* --dedup-window
    Retention,   \* how long an untouched ledger is kept
    Opaque,      \* ids of notes whose file may not let itself be looked at
    MaxNow,      \* bound: seconds
    MaxChanges,  \* bound: edits of notes
    None         \* no question yet, no pack, no event

VARIABLES
    vault,    \* the vault asked
    disk,     \* note -> [text, mtime] of its file; text 0 is no file
    row,      \* note -> [text, mtime] of its row, when it was indexed; text 0 is no row
    now,      \* the second
    changes,  \* edits so far
    ledger,   \* the conversation's ledger: [id, at, by]
    ask,      \* ask -> its process
    told,     \* note_accesses: [by, id, delivered]
    event,    \* ask -> what the experiment log was told of it
    heard     \* text the reader got: [by, id, text, marked, checked], 0 if its file was not looked at

\* None is no pack, whatever the ids.
ASSUME NoneAssumption == None \notin Packs(STRING)

ASSUME AskAssumption ==
    /\ \A v \in Vaults :
          /\ DOMAIN v.notes \subseteq STRING
          /\ IsFiniteSet(DOMAIN v.notes)
          /\ \A id \in DOMAIN v.notes :
                /\ v.notes[id] \in Seq(Sizes) /\ v.notes[id] # <<>>
                /\ \A text \in DOMAIN v.notes[id] : v.notes[id][text].text = text
          /\ v.links \in Seq(Links(DOMAIN v.notes))
          /\ v.activation \in [DOMAIN v.notes -> Int]
          /\ v.edited \subseteq DOMAIN v.notes
    /\ \A q \in Questions : q.hits \in Seq(STRING)
    /\ Modes \subseteq [json : BOOLEAN, pointers : BOOLEAN, quiet : BOOLEAN, dedup : BOOLEAN, drafts : BOOLEAN,
                         dense : BOOLEAN, budget : Nat, maxItems : Nat, excerpt : Nat]
    /\ PackModes \subseteq [budget : Nat, depth : Nat \ {0}, maxItems : Nat, slim : BOOLEAN, excerpt : Nat,
                             drafts : BOOLEAN]
    /\ Window \in Nat /\ Retention \in Nat /\ Opaque \subseteq STRING

askVars == <<vault, disk, row, now, changes, ledger, ask, told, event, heard>>
world == <<vault, disk, row, now, changes>>

NoteIds == DOMAIN vault.notes
Indexed == {id \in NoteIds : row[id].text # 0}
Db == [notes |-> [id \in Indexed |-> vault.notes[id][row[id].text]],
       links |-> Among(vault.links, {l \in ToSet(vault.links) : {l.src, l.dst} \subseteq Indexed})]

Gap == 1   \* tokens of the mark between passages

Stands(a, pc) == ask[a].pc = pc
Proceed(a, pc) == ask' = [ask EXCEPT ![a].pc = pc]

-----------------------------------------------------------------------------
(* What reaches the reader.                                                 *)

Pieces(p) == IF p = None THEN {} ELSE {p.target} \cup ToSet(p.items)
WithText(p) == {x \in Pieces(p) : x.body > 0}
packHasText(p) == WithText(p) # {}

tooSmallToJudge(v) == v.applied /\ v.small

\* Whether the text formatter shows bodies.
BodyDecision(mode, v) ==
    /\ ~mode.pointers
    /\ \/ tooSmallToJudge(v) /\ ~v.peer
       \/ v.confidence \notin {"no_match", "weak"}
       \/ v.confidence = "weak" /\ v.lowContrast

\* fault: what the formatter would show, in every mode and of every pack.
DeliveredTo_Decision(a) == BodyDecision(ask[a].mode, ask[a].question.verdict)

\* Whether text reaches the caller: the JSON envelope carries bodies regardless.
DeliveredTo(a) ==
    /\ packHasText(ask[a].pack)
    /\ ask[a].mode.json \/ BodyDecision(ask[a].mode, ask[a].question.verdict)

\* What the command prints, as an envelope or as text.
Printed(a) ==
    IF ask[a].mode.json \/ BodyDecision(ask[a].mode, ask[a].question.verdict)
    THEN WithText(ask[a].pack) ELSE {}

\* The recall floor: a caller that asked to be spared hears nothing of no match.
Suppressed(a) ==
    LET v == ask[a].question.verdict
    IN  ask[a].mode.quiet /\ v.applied /\ v.confidence = "no_match"

-----------------------------------------------------------------------------
(* The ledger of what was shown.                                            *)

Recent(entries) == {e.id : e \in {f \in entries : f.at >= now - Window}}

\* One untouched for longer than the retention is removed.
PruneShownLedgers(entries) ==
    IF \A e \in entries : e.at <= now - Retention THEN {} ELSE entries

Withhold(x) == [x EXCEPT !.body = 0, !.excerpted = FALSE, !.shown = TRUE]

\* used, less the text of the shown among items.
takenOut(used, items, shown) ==
    FoldLeft(LAMBDA u, x : u - (IF x.id \in shown THEN x.body ELSE 0), used, items)

\* The text of shown notes is taken out, and out of the count; titles stay.
markShownBefore(p, shown) ==
    LET Kept(x) == IF x.id \in shown THEN Withhold(x) ELSE x
    IN  [p EXCEPT !.target = Kept(@), !.items = [i \in DOMAIN @ |-> Kept(@[i])],
                  !.used = takenOut(@, <<p.target>> \o p.items, shown)]

-----------------------------------------------------------------------------
(* The steps of an ask.                                                     *)

\* cmd/ask.go: flags are read, old ledgers swept, the conversation's one read.
Open(a) ==
    /\ Stands(a, "new")
    /\ \E mode \in Modes, q \in Questions :
         LET left == IF mode.dedup THEN PruneShownLedgers(ledger) ELSE ledger
         IN  /\ ledger' = left
             /\ ask' = [ask EXCEPT ![a] = [@ EXCEPT
                   !.pc = "rank", !.mode = mode, !.question = q, !.opened = now,
                   !.shown = IF mode.dedup THEN Recent(left) ELSE {},
                   \* history: texts printed before by asks that had recorded them
                   !.before = {[id |-> h.id, at |-> ask[h.by].recorded] :
                                    h \in {g \in heard : ask[g.by].recorded > 0}}]]
    /\ UNCHANGED <<world, told, event, heard>>

\* The search of the index as it is, and the two early returns of deliverAsk.
Rank(a) ==
    /\ Stands(a, "rank")
    /\ LET q == ask[a].question
           hits == Among(q.hits, {id \in Indexed : Visible(Db, id, ask[a].mode.drafts)})
       IN  ask' = [ask EXCEPT ![a] =
                 [@ EXCEPT !.pc = IF hits = <<>> \/ Suppressed(a) THEN "log" ELSE "pack", !.hits = hits]]
    /\ UNCHANGED <<world, ledger, told, event, heard>>

\* The later hits that clear the weak band go ahead of the first one's neighbours.
relevantLaterHits(a) ==
    LET q == ask[a].question
        near == Among(Tail(ask[a].hits), IF q.verdict.applied THEN q.near ELSE {})
    IN  [i \in DOMAIN near |-> [id |-> near[i], confidence |-> "moderate"]]

PackConfig(a) ==
    LET m == ask[a].mode
    IN  [budget |-> m.budget, depth |-> 1, maxItems |-> m.maxItems, slim |-> TRUE, excerpt |-> m.excerpt,
         overflow |-> IF m.pointers /\ ~m.json THEN "packed" ELSE "selects",
         seeds |-> relevantLaterHits(a), drafts |-> m.drafts, activation |-> vault.activation]

\* The first hit may have left the index since: then only the hits are answered.
Pack(a) ==
    /\ Stands(a, "pack")
    /\ LET target == Head(ask[a].hits)
       IN  IF target \in Indexed
           THEN ask' = [ask EXCEPT ![a] = [@ EXCEPT !.pc = "select", !.config = PackConfig(a),
                                                    !.pack = PackAround(Db, target, PackConfig(a))]]
           ELSE Proceed(a, "log")
    /\ UNCHANGED <<world, ledger, told, event, heard>>

\* An excerpted target is given the passages the question chooses from the text
\* the row holds now, in the room the pack has left; the read may fail.
applyPassageExcerpt(a) ==
    LET m       == ask[a].mode
        p       == ask[a].pack
        n       == Db.notes[p.target.id]
        left    == p.budget - p.used + p.target.body
        chosen  == Longest(n.passage, Min({m.excerpt, left}))
        best    == IF chosen > 0 THEN chosen ELSE p.target.body
        dense   == IF m.dense THEN Longest(n.dense, Min({2 * m.excerpt, left}) - best - Gap) ELSE 0
        body    == best + (IF dense > 0 THEN Gap + dense ELSE 0)
    IN  IF \/ m.pointers /\ ~m.json
           \/ ~p.target.excerpted
           \/ p.target.id \notin Indexed
           \/ n.principle
           \/ chosen + dense = 0
        THEN p
        ELSE [p EXCEPT !.target = [@ EXCEPT !.body = body, !.text = n.text], !.used = @ - p.target.body + body]

Select(a) ==
    /\ Stands(a, "select")
    /\ \E selected \in {ask[a].pack, applyPassageExcerpt(a)} :
         ask' = [ask EXCEPT ![a] = [@ EXCEPT !.pc = "deliver", !.pack = selected]]
    /\ UNCHANGED <<world, ledger, told, event, heard>>

\* What the conversation has had is withheld; then one access row for each note
\* packed that still has a row, any of which may fail.
Deliver(a) ==
    /\ Stands(a, "deliver")
    /\ ask' = [ask EXCEPT ![a] = [@ EXCEPT !.pc = "mark", !.pack = markShownBefore(ask[a].pack, ask[a].shown)]]
    /\ \E stored \in SUBSET {x \in Pieces(ask'[a].pack) : x.id \in Indexed} :
         told' = told \cup {[by |-> a, id |-> x.id, delivered |-> DeliveredTo(a)' /\ x.body > 0] : x \in stored}
    /\ UNCHANGED <<world, ledger, event, heard>>

\* fault: a file that cannot be looked at has not changed.
changedOnDisk_Present(id) ==
    /\ id \in Indexed /\ disk[id].text # 0
    /\ disk[id].mtime # row[id].mtime /\ disk[id].text # row[id].text

\* The file is gone, or has another time and another content than the row.
changedOnDisk(id) ==
    /\ id \in Indexed
    /\ \/ disk[id].text = 0
       \/ disk[id].mtime # row[id].mtime /\ disk[id].text # row[id].text

\* A file that cannot be looked at (it leads out of the vault, or a stat or a
\* read fails) counts as unchanged.
MarkChangedOnDisk(a) ==
    /\ Stands(a, "mark")
    /\ \E blind \in SUBSET (Opaque \cap {x.id : x \in WithText(ask[a].pack)}) :
         ask' = [ask EXCEPT ![a] = [@ EXCEPT !.pc = "log", !.checked = now, !.blind = blind,
                   !.marked = {x.id : x \in {y \in WithText(ask[a].pack) : changedOnDisk(y.id)}} \ blind]]
    /\ UNCHANGED <<world, ledger, told, event, heard>>

\* The ask event, and the access event of the first hit; the log may be off.
logAskExperiment(a) ==
    /\ Stands(a, "log")
    /\ Proceed(a, "record")
    /\ \/ UNCHANGED event
       \/ event' = [event EXCEPT ![a] =
            [body |-> BodyDecision(ask[a].mode, ask[a].question.verdict),
             access |-> IF ask[a].hits # <<>> /\ ~Suppressed(a) THEN {DeliveredTo(a)} ELSE {}]]
    /\ UNCHANGED <<world, ledger, told, heard>>

DeliveredIDs(p) == {x.id : x \in WithText(p)}

\* fault: what was packed counts as shown.
Record_Packed(a) ==
    /\ Stands(a, "record")
    /\ IF ask[a].mode.dedup /\ packHasText(ask[a].pack)
       THEN /\ ledger' = ledger \cup {[id |-> id, at |-> now, by |-> a] : id \in DeliveredIDs(ask[a].pack)}
            /\ ask' = [ask EXCEPT ![a] = [@ EXCEPT !.pc = "print", !.recorded = now]]
       ELSE Proceed(a, "print") /\ UNCHANGED ledger
    /\ UNCHANGED <<world, told, event, heard>>

\* What reached the caller is appended to the ledger, which may fail.
Record(a) ==
    /\ Stands(a, "record")
    /\ \/ /\ ask[a].mode.dedup /\ ~Suppressed(a) /\ DeliveredTo(a)
          /\ ledger' = ledger \cup {[id |-> id, at |-> now, by |-> a] : id \in DeliveredIDs(ask[a].pack)}
          /\ ask' = [ask EXCEPT ![a] = [@ EXCEPT !.pc = "print", !.recorded = now]]
       \/ Proceed(a, "print") /\ UNCHANGED ledger
    /\ UNCHANGED <<world, told, event, heard>>

\* When the ask looked at the file.
Looked(a, id) == IF id \in ask[a].blind THEN 0 ELSE ask[a].checked

\* The answer, on a pipe that may be closed.
Reply(a) ==
    /\ Stands(a, "print")
    /\ \/ /\ Proceed(a, "done")
          /\ heard' = heard \cup {[by |-> a, id |-> x.id, text |-> x.text, marked |-> x.id \in ask[a].marked,
                                   checked |-> Looked(a, x.id)] : x \in Printed(a)}
       \/ Proceed(a, "dead") /\ UNCHANGED heard
    /\ UNCHANGED <<world, ledger, told, event>>

Die(a) ==
    /\ ask[a].pc \notin {"new", "done", "dead", "alone"}
    /\ Proceed(a, "dead")
    /\ UNCHANGED <<world, ledger, told, event, heard>>

\* `vaultmind memory pack`: any note by name, no ledger, no access row.
MemoryPack(a) ==
    /\ Stands(a, "new")
    /\ \E c \in PackModes, target \in Indexed :
         LET config == [budget |-> c.budget, depth |-> c.depth, maxItems |-> c.maxItems, slim |-> c.slim,
                        excerpt |-> c.excerpt, overflow |-> "none", seeds |-> <<>>, drafts |-> c.drafts,
                        activation |-> vault.activation]
         IN  ask' = [ask EXCEPT ![a] = [@ EXCEPT !.pc = "alone", !.pack = PackAround(Db, target, config),
                                                  !.config = config]]
    /\ UNCHANGED <<world, ledger, told, event, heard>>

-----------------------------------------------------------------------------
(* The vault and the clock.                                                 *)

\* A note's file is written, or removed; mtime is then the time it went.
Change(id) ==
    /\ changes < MaxChanges
    /\ changes' = changes + 1
    /\ \E t \in ({0} \cup DOMAIN vault.notes[id]) \ {disk[id].text} :
         disk' = [disk EXCEPT ![id] = [text |-> t, mtime |-> now]]
    /\ UNCHANGED <<vault, row, now, ledger, ask, told, event, heard>>

\* A pass of the index over the whole vault, in one step here.
Reindex ==
    /\ row # disk
    /\ row' = disk
    /\ UNCHANGED <<vault, disk, now, changes, ledger, ask, told, event, heard>>

Tick ==
    /\ now < MaxNow
    /\ now' = now + 1
    /\ UNCHANGED <<vault, disk, row, changes, ledger, ask, told, event, heard>>

Fresh == [pc |-> "new", mode |-> None, question |-> None, opened |-> 0, shown |-> {}, before |-> {},
          hits |-> <<>>, pack |-> None, config |-> None, marked |-> {}, blind |-> {}, checked |-> 0, recorded |-> 0]

AskInit ==
    /\ vault \in Vaults
    /\ disk = [id \in NoteIds |-> [text |-> 1, mtime |-> 0]]
    /\ row = disk
    /\ now = 1 /\ changes = 0
    /\ ledger = {} /\ told = {} /\ heard = {}
    /\ ask = [a \in Asks |-> Fresh]
    /\ event = [a \in Asks |-> None]

AskStep(a) == \/ Open(a) \/ Rank(a) \/ Pack(a) \/ Select(a) \/ Deliver(a) \/ MarkChangedOnDisk(a)
           \/ logAskExperiment(a) \/ Record(a) \/ Reply(a) \/ Die(a)

World == (\E id \in vault.edited : Change(id)) \/ Reindex \/ Tick

AskNext == (\E a \in Asks : AskStep(a) \/ MemoryPack(a)) \/ World

AskSpec == AskInit /\ [][AskNext]_askVars

-----------------------------------------------------------------------------
(* Properties.                                                              *)

\* The notes within each number of links of target, through visible notes.
Within(db, target, drafts, depth) ==
    LET near[k \in 0..depth] ==
          IF k = 0 THEN {target}
          ELSE near[k - 1] \cup {id \in DOMAIN db.notes :
                 /\ Visible(db, id, drafts)
                 /\ \E l \in ToSet(db.links), o \in near[k - 1] : {l.src, l.dst} = {o, id}}
    IN  near

\* The tokens of what is carried, items in their order.
Total(items) == FoldLeft(LAMBDA u, x : u + x.fm + x.body, 0, items)

\* The tokens said to be used are those of what the pack carries, and no more
\* than the budget, unless the target's frontmatter alone is.
Counted(p) ==
    /\ p.used = Total(<<p.target>> \o p.items)
    /\ p.used <= Max({p.budget, p.target.fm})

\* Which of the notes a pack may hold come before which: wanted hits in their
\* order, then linked notes by their strongest link, activation and date; in a
\* deeper pack, nearer notes first.
Precedes(db, c, target, x, y) ==
    LET near  == Within(db, target, c.drafts, c.depth)
        seeds == {c.seeds[i].id : i \in DOMAIN c.seeds}
        First(id) == Min({i \in DOMAIN c.seeds : c.seeds[i].id = id})
        Far(id)   == Min({k \in 1..c.depth : id \in near[k]})
        Weak(id)  == Min({edgePriority(e) : e \in {f \in ToSet(queryNeighbors(db, target, c.drafts)) : f.id = id}})
        act(id)   == c.activation[id]
    IN  IF x \in seeds THEN y \in seeds => First(x) < First(y)
        ELSE /\ y \notin seeds
             /\ IF c.depth > 1 THEN Far(x) < Far(y)
                ELSE \/ Weak(x) < Weak(y)
                     \/ Weak(x) = Weak(y) /\ act(x) > act(y)
                     \/ /\ Weak(x) = Weak(y) /\ act(x) = act(y)
                        /\ db.notes[x].updated > db.notes[y].updated

\* What may be held: wanted hits and linked notes that are visible.
Eligible(db, c, target) ==
    LET seeds == {c.seeds[i].id : i \in DOMAIN c.seeds} \cap DOMAIN db.notes
    IN  ({id \in seeds : Visible(db, id, c.drafts)} \cup Within(db, target, c.drafts, c.depth)[c.depth]) \ {target}

\* No note is packed twice or ahead of one that precedes it, and one is left out
\* only for want of room or of places.
Ranked(db, c, p) ==
    LET held == [i \in DOMAIN p.items |-> p.items[i].id]
        all  == Eligible(db, c, p.target.id)
    IN  /\ ToSet(held) \subseteq all /\ IsInjective(held)
        /\ \A i \in DOMAIN held, x \in all :
             Precedes(db, c, p.target.id, x, held[i]) => \E j \in 1..(i - 1) : held[j] = x
        /\ ToSet(held) # all => \/ p.exhausted
                                \/ c.maxItems > 0 /\ Len(held) = c.maxItems
                                \/ p.target.fm + p.target.body >= p.budget

\* related.go says it ranks by the function the pack orders by, "so the two
\* cannot disagree about which edge represents a note".
EdgesAgree(db, c, p) ==
    c.depth <= 1 => \A x \in {y \in ToSet(p.items) : y.type # "search_hit"} :
        \E r \in ToSet(Related(db, p.target.id, "mixed", c.drafts)) :
            r = [id |-> x.id, type |-> x.type, confidence |-> x.confidence]

\* contextpack.go says a body that is empty, or that the caller's own cap leaves
\* nothing of, must never be described as lost to the budget; one that is, is.
\* Where no room at all was left, every text that is missing counts as lost.
BudgetBlamed(db, c, p) ==
    \A x \in Pieces(p) :
        LET n == db.notes[x.id]
            missing == x.body = 0 /\ n.body > 0
            due     == x.id = p.target.id \/ c.excerpt = 0 \/ Excerpt(n, c.excerpt) > 0
        IN  /\ missing /\ due => x.omitted
            /\ x.omitted => missing /\ (due \/ p.room <= 0)

\* A pack counts what it carries at every step, also once passages are chosen and
\* text is withheld; as it is made, it holds the right notes in the right order,
\* by the link `related` gives, and blames the budget for what the budget cost.
PackSound ==
    [][\A a \in Asks :
         /\ ask'[a].pack # None => Counted(ask'[a].pack)
         /\ ask[a].pack = None /\ ask'[a].pack # None =>
              LET c == ask'[a].config
              IN  /\ Ranked(Db, c, ask'[a].pack)
                  /\ EdgesAgree(Db, c, ask'[a].pack)
                  /\ BudgetBlamed(Db, c, ask'[a].pack)]_askVars

HeardBy(a) == {h \in heard : h.by = a}

\* With --dedup-window, no text of a note is printed that an ask of this
\* conversation printed and recorded within the window before this one began,
\* and within the time an untouched ledger is kept; and what is withheld was
\* recorded in that window by an ask that printed it, has yet to, or died on
\* the way.
SentOnce ==
    /\ \A h \in heard :
         LET me == ask[h.by]
         IN  me.mode.dedup => \A g \in me.before : g.id = h.id =>
                g.at < me.opened - Window \/ g.at <= me.opened - Retention
    /\ \A a \in Asks : \A x \in {y \in Pieces(ask[a].pack) : y.shown} :
         \E b \in Asks \ {a} :
            /\ ask[b].recorded > 0 /\ ask[b].recorded >= ask[a].opened - Window
            /\ x.id \in DeliveredIDs(ask[b].pack)
            /\ Stands(b, "done") => \E h \in HeardBy(b) : h.id = x.id

\* ask.go: both ledgers of delivery say what was printed, once it was: an access
\* row for each note's own text, the log for the answer's.
DeliveryTold ==
    \A a \in Asks : Stands(a, "done") =>
        /\ \A t \in told : t.by = a => (t.delivered <=> \E h \in HeardBy(a) : h.id = t.id)
        /\ event[a] # None => \A d \in event[a].access : d <=> HeardBy(a) # {}

\* stale.go: text that is not its file's is printed with a mark, unless the file
\* could not be looked at, changed only after it was, or in the second of the
\* change it was indexed with, or the note was indexed again while the answer was made.
StaleIsTold ==
    \A h \in heard : h.checked > 0 /\ ~h.marked /\ h.text # disk[h.id].text =>
        \/ disk[h.id].mtime >= h.checked
        \/ row[h.id].text # h.text
        \/ disk[h.id].text # 0 /\ disk[h.id].mtime = row[h.id].mtime
=============================================================================
