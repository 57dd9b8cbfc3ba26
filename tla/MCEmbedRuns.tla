----------------------------- MODULE MCEmbedRuns -----------------------------
(***************************************************************************)
(* Two instances of EmbedPass, a behaviour being one of either: one pass   *)
(* after another in a build without ORT, over every vault an older build   *)
(* can have left while notes are stored and deleted; and two passes at     *)
(* once in a build with ORT over the oldest BGE-M3 vault.                  *)
(***************************************************************************)
EXTENDS MCEmbedPass

CONSTANTS p1, p2

VARIABLE part   \* the instance that moves

Two == INSTANCE EmbedPass WITH
           Passes <- {p1, p2}, PureGo <- FALSE, Legacy <- {"bge-m3"},
           Texts <- {"long", "odd"}, EmptyBody <- {}, MaxWrites <- 0

\* In one after another the second pass does not occur, so exchanging the two
\* relates no two states.
RunsSymmetry == Symmetry \cup Permutations({p1, p2})

RunsInit ==
    \/ part = "one after another" /\ Init
    \/ part = "two at once" /\ Two!Init

RunsNext ==
    /\ UNCHANGED part
    /\ \/ part = "one after another" /\ Next
       \/ part = "two at once" /\ Two!Next

RunsSpec == RunsInit /\ [][RunsNext]_<<part, vars>>
=============================================================================
