-------------------------------- MODULE Lists --------------------------------
(***************************************************************************)
(* Loops over a slice that keep some of its entries, as folds.             *)
(***************************************************************************)
EXTENDS SequencesExt

\* The entries of s that are in good, in their order.
Among(s, good) == FoldLeft(LAMBDA kept, e : IF e \in good THEN Append(kept, e) ELSE kept, <<>>, s)

\* The entries of s that pass Test, in their order.
Those(s, Test(_)) == Among(s, {e \in ToSet(s) : Test(e)})
=============================================================================
