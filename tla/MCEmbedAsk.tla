------------------------------ MODULE MCEmbedAsk ------------------------------
(***************************************************************************)
(* EmbedPass and Ask: a behaviour is one of embedding passes or of asks,   *)
(* and the state of the other rests.  What an ask finds by its vectors is  *)
(* part of its question, so the two share no state here.                   *)
(***************************************************************************)
EXTENDS MCEmbedRuns, MCAsk

EmbedAskInit ==
    \/ RunsInit /\ AskingInit /\ vault = Pair
    \/ part = "asks" /\ AskingInit /\ Init /\ rows = [n \in Notes |-> Absent] /\ ~sparseStamp

EmbedAskNext ==
    \/ RunsNext /\ UNCHANGED <<asking, askVars>>
    \/ part = "asks" /\ AskingNext /\ UNCHANGED <<part, vars>>

EmbedAskSpec == EmbedAskInit /\ [][EmbedAskNext]_<<part, vars, asking, askVars>>
=============================================================================
