-------------------------------- MODULE MCAsk --------------------------------
(***************************************************************************)
(* Two parts of Ask, a behaviour being of either: one command over many    *)
(* vaults and configurations that nobody disturbs, and two asks of a       *)
(* conversation in a small vault that is edited and indexed meanwhile.     *)
(***************************************************************************)
EXTENDS Ask

CONSTANTS a1, a2

VARIABLE asking   \* the part: "answer" or "conversation"

-----------------------------------------------------------------------------
(* Notes: t, the best hit, x and y around it, z further off.                *)

Sized(body, cuts, passage) ==
    [fm |-> 3, slim |-> 1, body |-> body, cuts |-> cuts, passage |-> passage, dense |-> {1, 2},
     principle |-> FALSE, hidden |-> "no", updated |-> 0, text |-> 1]

ShortNote == Sized(2, {1, 2}, {})
LongNote  == Sized(6, {2, 3, 6}, {4, 5})
Wordy     == Sized(6, {4, 6}, {5})
Comments  == Sized(3, {}, {})
Empty     == Sized(0, {}, {})

L(s, d, t, c) == [src |-> s, dst |-> d, type |-> t, confidence |-> c]
Typed(s, d)   == L(s, d, "explicit_relation", "high")
Linked(s, d)  == L(s, d, "explicit_link", "high")
Named(s, d)   == L(s, d, "alias_mention", "medium")
Tagged(s, d)  == L(s, d, "tag_overlap", "low")

MCLinks == {
    <<Linked("t", "x"), Linked("y", "t"), Linked("x", "z")>>,
    <<Tagged("t", "x"), Named("t", "y"), Linked("y", "t"), Typed("x", "t"), Tagged("t", "t"), Named("z", "y")>>,
    <<Named("t", "y"), Typed("t", "z"), Named("t", "x"), Tagged("z", "t")>>}

FourNotes(t, x, y, z) ==
    [id \in {"t", "x", "y", "z"} |->
        <<CASE id = "t" -> t [] id = "x" -> x [] id = "y" -> y [] OTHER -> z>>]

MCNotes == {
    FourNotes(LongNote, ShortNote, LongNote, ShortNote),
    FourNotes([LongNote EXCEPT !.principle = TRUE], Comments, [ShortNote EXCEPT !.hidden = "draft"], Wordy),
    FourNotes(ShortNote, [LongNote EXCEPT !.updated = 1], [LongNote EXCEPT !.principle = TRUE], [Empty EXCEPT !.hidden = "gap"]),
    FourNotes(Comments, [ShortNote EXCEPT !.hidden = "gap"], [Empty EXCEPT !.updated = 2], [ShortNote EXCEPT !.hidden = "draft"])}

MCActivations == {[id \in {"t", "x", "y", "z"} |-> 0],
                  [id \in {"t", "x", "y", "z"} |-> IF id = "y" THEN 1 ELSE 0]}

AnswerVaults == {[notes |-> n, links |-> l, activation |-> act, edited |-> {}] : n \in MCNotes, l \in MCLinks, act \in MCActivations}

Verdict(applied, confidence, small, low, peer) ==
    [applied |-> applied, confidence |-> confidence, small |-> small, lowContrast |-> low, peer |-> peer]

Strong == Verdict(TRUE, "strong", FALSE, FALSE, FALSE)

Asked(hits, near, v) == [hits |-> hits, near |-> near, verdict |-> v]

\* Every kind of verdict on one pack, and packs of several hits.
MCQuestions ==
    {Asked(<<"t">>, {}, v) : v \in {Strong, Verdict(FALSE, "no_match", FALSE, FALSE, FALSE),
                                   Verdict(TRUE, "no_match", TRUE, FALSE, FALSE),
                                   Verdict(TRUE, "weak", TRUE, FALSE, TRUE),
                                   Verdict(TRUE, "weak", FALSE, TRUE, FALSE)}}
      \cup {Asked(<<"t", "z", "y", "z">>, {"z"}, Strong), Asked(<<>>, {}, Verdict(FALSE, "", FALSE, FALSE, FALSE))}

Mode(budget, maxItems, excerpt) ==
    [json |-> FALSE, pointers |-> FALSE, quiet |-> FALSE, dedup |-> FALSE, drafts |-> FALSE, dense |-> FALSE,
     budget |-> budget, maxItems |-> maxItems, excerpt |-> excerpt]

Budgets == {2, 3, 4, 5, 7, 9, 24}

\* Every budget with every way of packing, and every output of one.
AnswerModes ==
    {[Mode(b, m, e) EXCEPT !.dense = (e > 0), !.drafts = (m = 2)] : b \in Budgets, m \in {0, 2}, e \in {0, 3}}
      \cup {[Mode(9, 0, 2) EXCEPT !.json = j, !.pointers = p, !.quiet = q] : j \in BOOLEAN, p \in BOOLEAN, q \in BOOLEAN}

MCPackModes ==
    {[budget |-> b, depth |-> d, maxItems |-> m, slim |-> FALSE, excerpt |-> e, drafts |-> TRUE] :
        b \in Budgets, d \in 1..2, m \in {0, 2}, e \in {0, 3}}

InAnswer == ask'[a1].mode \in AnswerModes \cup {None} /\ ask'[a1].blind = {}

-----------------------------------------------------------------------------
(* A conversation: t and its neighbour x, in two versions each.             *)

Versions(n) == <<n, [n EXCEPT !.text = 2]>>

Pair == [notes |-> [id \in {"t", "x"} |-> Versions(ShortNote)], links |-> <<Linked("t", "x")>>,
         activation |-> [id \in {"t", "x"} |-> 0], edited |-> {"x"}]

Deduped == [Mode(10, 2, 2) EXCEPT !.dedup = TRUE]

ConversationModes == {Deduped, [Deduped EXCEPT !.pointers = TRUE]}

\* Both asks are alike: the first to open is called a1.  The second one, which
\* alone can be kept from what the other sent, prints bodies; what it leaves
\* when it dies nobody reads.  Steps that nothing here tells apart from a later
\* one, counting what was packed and logging, are taken at once, and nothing told
\* is lost.  That a file could not be looked at matters where it has changed and its
\* text is printed, and is tried with the first ask.
InConversation ==
    /\ \A a \in {a1, a2} :
         /\ ask'[a].pc # "new" => /\ ask'[a].mode \in ConversationModes
                                  /\ ask'[a].question = Asked(<<"t">>, {}, Strong)
         /\ ask[a].pc \in {"deliver", "log"} => ask'[a].pc # ask[a].pc
         /\ ask[a].pc # "mark" /\ ask'[a].pc = "mark" =>
              \A x \in {y \in Pieces(ask'[a].pack) : y.id \in Indexed} :
                                     \E t \in told' : t.by = a /\ t.id = x.id
         /\ ask'[a].pc = "record" => event'[a] # None
         /\ \A id \in ask'[a].blind \ ask[a].blind : changedOnDisk(id)
    /\ ask'[a1].pc = "new" => ask'[a2].pc = "new"
    /\ ask'[a2].pc # "new" => ~ask'[a2].mode.pointers
    /\ ask'[a2].pc # "dead" /\ ask'[a2].blind = {}
    /\ ask'[a1].blind # {} => ask'[a1].pc # "dead" /\ ~ask'[a1].mode.pointers

MCVaults == AnswerVaults \cup {Pair}
MCModes  == AnswerModes \cup ConversationModes

AskingInit == AskInit /\ asking = IF vault = Pair THEN "conversation" ELSE "answer"

AskingNext ==
    /\ UNCHANGED asking
    /\ \/ asking = "answer" /\ (AskStep(a1) \/ MemoryPack(a1)) /\ InAnswer
       \/ asking = "conversation" /\ ((\E a \in Asks : AskStep(a)) \/ World) /\ InConversation
=============================================================================
