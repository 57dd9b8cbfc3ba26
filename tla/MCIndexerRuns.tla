---------------------------- MODULE MCIndexerRuns ----------------------------
(***************************************************************************)
(* Two instances of Indexer, a behaviour being one of either: passes of    *)
(* both kinds, and Incremental passes beside an IndexFile call of another  *)
(* process in a vault with a file that does not parse.                     *)
(***************************************************************************)
EXTENDS MCIndexer

CONSTANT k1

VARIABLE part   \* the instance that moves

CallContents == {"x1", "y1", "bad", "xbad"}

Calls == INSTANCE Indexer WITH
           Modes <- {"incremental"}, Callers <- {k1}, Flaky <- {},
           Contents <- CallContents, Unparsable <- {"bad"},
           DeclaredId <- MCDeclared(CallContents),
           NamesOf <- MCNames(CallContents), LinksOf <- MCLinks(CallContents),
           SameSecond <- TRUE, MaxClock <- 3, MaxEdits <- 1

RunsInit ==
    \/ part = "passes" /\ Init
    \/ part = "calls" /\ Calls!Init

RunsNext ==
    /\ UNCHANGED part
    /\ \/ part = "passes" /\ Next
       \/ part = "calls" /\ Calls!Next

RunsSpec == RunsInit /\ [][RunsNext]_<<part, vars>>
=============================================================================
