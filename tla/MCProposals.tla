---------------------------- MODULE MCProposals ----------------------------
(***************************************************************************)
(* A small instance of Proposals: one note with a remark, one gap, a       *)
(* finding close to the note and another that becomes a new note.          *)
(***************************************************************************)
EXTENDS Proposals, TLC

CONSTANTS f1, f2,      \* findings
          p1,          \* name of a patch draft
          n1,          \* name of a new note
          t1, q1,      \* the note, the question
          u1, u2       \* callers

MCPatchOf == (p1 :> [finding |-> f1, target |-> t1])
MCQuestionOf == [x \in {f1, f2, n1} |-> IF x = f1 THEN x ELSE q1]

MCSymmetry == Permutations({u1, u2})
=============================================================================
