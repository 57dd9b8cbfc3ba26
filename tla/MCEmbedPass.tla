----------------------------- MODULE MCEmbedPass -----------------------------
(* Small vaults for TLC: notes, and processes, are interchangeable. *)
EXTENDS EmbedPass, TLC

Symmetry == Permutations(Notes) \cup Permutations(Passes)
=============================================================================
