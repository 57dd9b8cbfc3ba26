----------------------------- MODULE ContextPack -----------------------------
(***************************************************************************)
(* What of a vault is handed over around one note: memory.ContextPack,     *)
(* memory.Related and the traversal they rest on (src/internal/memory,     *)
(* src/internal/graph), as operators on one state of the index.            *)
(*                                                                         *)
(* db.notes maps the id of every indexed note to its sizes in tokens: fm   *)
(* and slim, the whole and the short frontmatter; body; cuts, the lengths  *)
(* at which the part Excerpt delivers can end (its sentences, the words of *)
(* the first one, all of it; none if the body is only comments); passage   *)
(* and dense, the same for the passages a question chooses; principle, it  *)
(* has a Principle section; hidden, "no", "draft" or "gap"; updated; and   *)
(* text, which version of the body this is.  db.links is the sequence of   *)
(* its resolved links, in the order rows come back.                        *)
(*                                                                         *)
(* cfg is the packer's configuration: budget, depth, maxItems, slim,       *)
(* excerpt, overflow (what chooses the text of a body that does not fit),  *)
(* seeds, drafts, activation.  The cap of 5000 nodes is left out.          *)
(* So is a row that cannot be loaded: with maxItems the candidate is       *)
(* skipped, without it the pack fails.                                     *)
(***************************************************************************)
EXTENDS Integers, Sequences, Lists

Sizes == [fm : Nat, slim : Nat, body : Nat, cuts : SUBSET Nat, passage : SUBSET Nat, dense : SUBSET Nat,
          principle : BOOLEAN, hidden : {"no", "draft", "gap"}, updated : Int, text : Nat \ {0}]

LinkTypes == {"explicit_relation", "explicit_link", "explicit_embed", "alias_mention", "tag_overlap"}

Links(ids) == [src : ids, dst : ids, type : LinkTypes, confidence : {"high", "medium", "low"}]

\* A note with what leads to it: a link, a search hit, or nothing.
Edges(ids) == [id : ids, type : LinkTypes \cup {"search_hit", ""},
               confidence : {"high", "medium", "low", "moderate", ""}]

Seeds == [id : STRING, confidence : {"moderate"}]

Configs(acts) == [budget : Nat, depth : Nat \ {0}, maxItems : Nat, slim : BOOLEAN, excerpt : Nat,
                  overflow : {"none", "packed", "selects", "greedy"}, seeds : Seq(Seeds), drafts : BOOLEAN,
                  activation : acts]

\* What of a note a pack carries: shown, its text is withheld, the reader has had it.
Items(ids) == [id : ids, type : LinkTypes \cup {"search_hit", ""},
               confidence : {"high", "medium", "low", "moderate", ""}, fm : Nat, text : Nat \ {0}, body : Nat,
               excerpted : BOOLEAN, omitted : BOOLEAN, shown : BOOLEAN]

Packs(ids) == [target : Items(ids), items : Seq(Items(ids)), budget : Nat, used : Int, room : Int,
               exhausted : BOOLEAN]

\* The longest text that ends at one of cuts and is at most room tokens; 0: none.
Longest(cuts, room) == Max({0} \cup {c \in cuts : c <= room})

Excerpt(n, maxTokens) == IF n.body = 0 THEN 0 ELSE Longest(n.cuts, maxTokens)

Visible(db, id, drafts) ==
    \/ db.notes[id].hidden = "no"
    \/ db.notes[id].hidden = "draft" /\ drafts

-----------------------------------------------------------------------------
(* Links: which notes are linked to one, and which link stands for each.    *)

edgePriority(e) ==
    IF e.type = "explicit_relation" THEN 0
    ELSE IF e.type \in {"explicit_link", "explicit_embed"} THEN 1
    ELSE IF e.confidence = "medium" THEN 2 ELSE 3

Edge(id, l) == [id |-> id, type |-> l.type, confidence |-> l.confidence]

\* The rows of id: those it links to, then those that link to it.
queryNeighbors(db, id, drafts) ==
    LET out == Among(db.links, {l \in ToSet(db.links) : l.src = id})
        in  == Among(db.links, {l \in ToSet(db.links) : l.dst = id})
        all == [i \in DOMAIN out |-> Edge(out[i].dst, out[i])] \o [i \in DOMAIN in |-> Edge(in[i].src, in[i])]
    IN  Among(all, {e \in ToSet(all) : Visible(db, e.id, drafts)})

\* A link of a lower priority number takes the place of the one found before it.
keepStrongest(kept, e) ==
    IF \E i \in DOMAIN kept : kept[i].id = e.id
    THEN [i \in DOMAIN kept |->
            IF kept[i].id = e.id /\ edgePriority(e) < edgePriority(kept[i]) THEN e ELSE kept[i]]
    ELSE Append(kept, e)

strongestEdgePerNote(edges) == FoldLeft(keepStrongest, <<>>, edges)

\* What `links` and `related` list; the note itself is listed if it links to itself.
Related(db, target, mode, drafts) ==
    LET keep(e) == CASE mode = "explicit" -> e.confidence = "high"
                     [] mode = "inferred" -> e.confidence \in {"medium", "low"}
                     [] OTHER             -> TRUE
        edges == strongestEdgePerNote(queryNeighbors(db, target, drafts))
    IN  Among(edges, {e \in ToSet(edges) : keep(e)})

Visit(nodes, e, distance) ==
    IF \E i \in DOMAIN nodes : nodes[i].edge.id = e.id THEN nodes
    ELSE Append(nodes, [edge |-> e, distance |-> distance])

VisitAll(nodes, edges, distance) == FoldLeft(LAMBDA found, e : Visit(found, e, distance), nodes, edges)

\* The k-th node of the queue.
Expand(db, depth, drafts, nodes, k) ==
    IF k > Len(nodes) \/ nodes[k].distance >= depth THEN nodes
    ELSE VisitAll(nodes, queryNeighbors(db, nodes[k].edge.id, drafts), nodes[k].distance + 1)

\* Breadth first; a note is reached by the first link that leads to it.
Traverse(db, start, depth, drafts) ==
    FoldLeft(LAMBDA nodes, k : Expand(db, depth, drafts, nodes, k), <<[edge |-> [id |-> start], distance |-> 0]>>,
             [k \in 1..Cardinality(DOMAIN db.notes) |-> k])

-----------------------------------------------------------------------------
(* Candidates, in the order they are packed.                                *)

collectEdgeCandidates(db, target, drafts) ==
    LET rows == queryNeighbors(db, target, drafts)
        kept == strongestEdgePerNote(Among(rows, {e \in ToSet(rows) : e.id # target}))
    IN  [i \in DOMAIN kept |-> [edge |-> kept[i], priority |-> edgePriority(kept[i])]]

collectTraverseCandidates(db, target, depth, drafts) ==
    LET found == Tail(Traverse(db, target, depth, drafts))
    IN  [i \in DOMAIN found |->
            [edge |-> found[i].edge,
             priority |-> found[i].distance * 10 + edgePriority(found[i].edge)]]

\* By priority, then by activation, then by date; equal ones stay as they came.
enrichAndSortCandidates(db, cands, activation) ==
    LET act(i) == activation[cands[i].edge.id]
        upd(i) == db.notes[cands[i].edge.id].updated
        Before(i, j) ==
            \/ cands[i].priority < cands[j].priority
            \/ /\ cands[i].priority = cands[j].priority
               /\ \/ act(i) > act(j)
                  \/ act(i) = act(j) /\ upd(i) > upd(j)
                  \/ act(i) = act(j) /\ upd(i) = upd(j) /\ i < j
        At(k) == CHOOSE i \in DOMAIN cands : Cardinality({j \in DOMAIN cands : Before(j, i)}) = k - 1
    IN  [k \in DOMAIN cands |-> cands[At(k)].edge]

Wanted(db, target, drafts, kept, s) ==
    IF \/ s.id = target \/ s.id \notin DOMAIN db.notes
       \/ \E i \in DOMAIN kept : kept[i].id = s.id
    THEN kept
    ELSE IF Visible(db, s.id, drafts)
         THEN Append(kept, [id |-> s.id, type |-> "search_hit", confidence |-> s.confidence])
         ELSE kept

allWanted(db, seeds, target, drafts) ==
    FoldLeft(LAMBDA kept, s : Wanted(db, target, drafts, kept, s), <<>>, seeds)

withSeeds(db, seeds, target, cands, drafts) ==
    LET first == allWanted(db, seeds, target, drafts)
    IN  first \o Among(cands, {e \in ToSet(cands) : \A i \in DOMAIN first : first[i].id # e.id})

Candidates(db, target, cfg) ==
    LET found == IF cfg.depth > 1 THEN collectTraverseCandidates(db, target, cfg.depth, cfg.drafts)
                                  ELSE collectEdgeCandidates(db, target, cfg.drafts)
    IN  withSeeds(db, cfg.seeds, target, enrichAndSortCandidates(db, found, cfg.activation), cfg.drafts)

-----------------------------------------------------------------------------
(* Packing.                                                                 *)

\* body is the tokens of text carried; omitted: the budget is the reason there is none.
Carried(tokens, excerpted, omitted) ==
    [body |-> tokens, excerpted |-> excerpted, omitted |-> omitted]

\* ask's choice for a body that does not fit: the passages the question chooses,
\* or what Excerpt delivers if there are none.  One that ignores the room is cut.
overflowPassage(n, room, overflow) ==
    LET packed == Excerpt(n, room)
        chosen == IF overflow = "greedy" THEN 2 * n.body ELSE Longest(n.passage, room)
    IN  IF overflow = "none" THEN 0
        ELSE IF overflow = "packed" \/ n.principle \/ packed = 0 \/ chosen = 0 THEN packed
        ELSE chosen

attachOverflow(n, room, overflow) ==
    LET chosen == overflowPassage(n, room, overflow)
    IN  IF chosen > room THEN Excerpt(n, room) ELSE chosen

attachExcerpt(tokens, omitted) == Carried(tokens, tokens > 0, omitted)

\* fault: the excerpt's cap is the only one.
attachBody_CapOnly(n, room, cfg) ==
    IF cfg.excerpt > 0 /\ n.body > 0 /\ room > 0 THEN attachExcerpt(Excerpt(n, cfg.excerpt), FALSE)
    ELSE Carried(IF n.body <= room THEN n.body ELSE 0, FALSE, n.body > room)

\* The text of a context item: an excerpt if the caller asked for them, else the
\* whole body if there is room for it, else what overflow chooses.
attachBody(n, room, cfg) ==
    LET excerpt == Excerpt(n, Min({cfg.excerpt, room}))
        chosen  == attachOverflow(n, room, cfg.overflow)
    IN  IF n.body = 0 THEN Carried(0, FALSE, FALSE)
        ELSE IF room <= 0 THEN Carried(0, FALSE, TRUE)
        ELSE IF cfg.excerpt > 0
             THEN attachExcerpt(excerpt, excerpt = 0 /\ room < cfg.excerpt /\ Excerpt(n, cfg.excerpt) > 0)
        ELSE IF n.body <= room THEN Carried(n.body, FALSE, FALSE)
        ELSE attachExcerpt(chosen, chosen = 0)

\* The target: its frontmatter whatever it costs, then an excerpt if there is
\* one to have, else the body, cut where the budget ends.
packTargetContent(n, budget, maxTokens) ==
    LET room    == budget - n.fm
        excerpt == IF room > 0 THEN Excerpt(n, Min({maxTokens, room})) ELSE 0
    IN  IF excerpt > 0 THEN attachExcerpt(excerpt, FALSE)
        ELSE IF room <= 0 THEN Carried(0, FALSE, n.body > 0)
        ELSE Carried(Min({n.body, room}), FALSE, FALSE)

Item(e, n, tokens, carried) ==
    [id |-> e.id, type |-> e.type, confidence |-> e.confidence, fm |-> tokens, text |-> n.text,
     body |-> carried.body, excerpted |-> carried.excerpted, omitted |-> carried.omitted, shown |-> FALSE]

extractFrontmatter(n, slim) == IF slim THEN n.slim ELSE n.fm

\* A candidate whose frontmatter does not fit ends the pack.  With body, its
\* text is packed along with it.
PackItem(db, cfg, withBody, p, e) ==
    LET n      == db.notes[e.id]
        tokens == extractFrontmatter(n, cfg.slim)
        text   == IF withBody THEN attachBody(n, p.room - tokens, cfg) ELSE Carried(0, FALSE, FALSE)
    IN  IF p.exhausted \/ (withBody /\ Len(p.items) >= cfg.maxItems) THEN p
        ELSE IF tokens > p.room THEN [p EXCEPT !.exhausted = TRUE]
        ELSE [p EXCEPT !.items = Append(@, Item(e, n, tokens, text)),
                       !.room = @ - tokens - text.body, !.used = @ + tokens + text.body]

packAll(db, cfg, withBody, p, cands) ==
    FoldLeft(LAMBDA q, e : PackItem(db, cfg, withBody, q, e), p, cands)

\* The text of the i-th item, with the room that is left.
Backfill(db, cfg, q, i) ==
    LET text == attachBody(db.notes[q.items[i].id], q.room, cfg)
    IN  [q EXCEPT !.items[i] = [@ EXCEPT !.body = text.body, !.excerpted = text.excerpted,
                                         !.omitted = text.omitted],
                  !.room = @ - text.body, !.used = @ + text.body]

backfillAll(db, cfg, p) == FoldLeft(LAMBDA q, i : Backfill(db, cfg, q, i), p, [i \in DOMAIN p.items |-> i])

\* Every frontmatter first, then bodies in the same order with what is left.
packTwoPass(db, cfg, p, cands) == backfillAll(db, cfg, packAll(db, cfg, FALSE, p, cands))

\* The pack around target, which is indexed.
PackAround(db, target, cfg) ==
    LET n    == db.notes[target]
        text == packTargetContent(n, cfg.budget, cfg.excerpt)
        used == n.fm + text.body
        p    == [target |-> Item([id |-> target, type |-> "", confidence |-> ""], n, n.fm, text),
                 items |-> <<>>, budget |-> cfg.budget, used |-> used, room |-> cfg.budget - used,
                 exhausted |-> FALSE]
    IN  IF p.room <= 0 THEN p
        ELSE IF cfg.maxItems > 0 THEN packAll(db, cfg, TRUE, p, Candidates(db, target, cfg))
        ELSE packTwoPass(db, cfg, p, Candidates(db, target, cfg))
=============================================================================
