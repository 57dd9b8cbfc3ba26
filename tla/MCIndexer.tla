------------------------------ MODULE MCIndexer ------------------------------
(* Small vaults for TLC. *)
EXTENDS Indexer

\* Two notes x and y that link to each other, x in two versions, a note without
\* an id that links to x by its file name, and a file that does not parse.
MCIds      == {"x", "y"}
MCRaws     == {"x", "y", "f1", "f2"}
MCPathId   == [p \in Paths |-> IF p = 1 THEN "_path:1" ELSE "_path:2"]
MCStemOf   == [p \in Paths |-> IF p = 1 THEN "f1" ELSE "f2"]

MCDeclared(contents) ==
    [c \in contents |-> CASE c \in {"x1", "x2", "xbad"} -> "x" [] c = "y1" -> "y" [] OTHER -> NoId]
MCNames(contents) == [c \in contents |-> {}]
MCLinks(contents) == [c \in contents |-> CASE c = "x1" -> {"y"} [] c = "y1" -> {"x"}
                                          [] c = "plain" -> {"f1"} [] OTHER -> {}]
MCDeclaredId == MCDeclared(Contents)
MCNamesOf == MCNames(Contents)
MCLinksOf == MCLinks(Contents)
MCBorn == [p \in Paths |-> p]
=============================================================================
