---------------------------- MODULE MCHookWiring ----------------------------
(***************************************************************************)
(* A small instance of HookWiring: the two session-start scripts, persona  *)
(* (full profile only) and health (every profile), under all three agents. *)
(***************************************************************************)
EXTENDS HookWiring

MCCanonical == <<"persona", "health">>

Install(f, profile) == [file |-> f, profile |-> profile, force |-> TRUE, only |-> {}, merge |-> TRUE]

\* Bare reruns, a profile given and changed, and once each: no --force, no
\* --merge, --only.
MCInstalls ==
    {Install(f, profile) : f \in {"shared", "codex"}, profile \in {"", "full"}}
      \cup {Install("shared", "knowledge"), Install("cursor", "full"),
            [Install("local", "full") EXCEPT !.force = FALSE],
            [Install("codex", "knowledge") EXCEPT !.merge = FALSE],
            [Install("cursor", "") EXCEPT !.only = {"health"}]}

\* An edit elsewhere comes to the same: a command looks at a hook file once, and
\* what it makes of it is written next.
MCEditsMeet == edits' # edits => run.step \in {"idle", "done", "write"}
=============================================================================
