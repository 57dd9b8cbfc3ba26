----------------------------- MODULE MCPlanApply -----------------------------
(* Small instances of PlanApply: two files, a required key with an alias. *)
EXTENDS PlanApply, TLC

CONSTANTS a, b,                     \* files
          idKey, titleKey, nameKey, \* keys: immutable, required, alias of the title
          v, w,                     \* values
          p1, c1                    \* processes

MCFiles == {a, b}
MCKeys == {idKey, titleKey, nameKey}
MCValues == {v, w}
MCRequiredRoles == {{titleKey, nameKey}}

Note(keys, region) ==
    [kind |-> "domain", fm |-> [k \in MCKeys |-> IF k \in keys THEN v ELSE NONE],
     region |-> region, body |-> "original"]

\* A note with a region, and another version of it.
MCFilesAtStart == {ABSENT, Note({idKey, titleKey, nameKey}, "old")}

Defaults == [r \in Rules |-> NotSet]
DirtyAllowed == [r \in {"dirty_target", "no_repo", "detached_head"} |-> Warn] @@ Defaults

Repository(repo, detached, merging, override) ==
    [repo |-> repo, detached |-> detached, merging |-> merging, override |-> override]

InRoot == {Repository("root", FALSE, FALSE, Defaults)}

AnyGit == {Repository("root", FALSE, FALSE, DirtyAllowed),
           Repository("above", TRUE, FALSE, DirtyAllowed), Repository("none", FALSE, FALSE, DirtyAllowed),
           Repository("root", FALSE, TRUE, DirtyAllowed)}

MCGitAtStart == InRoot \cup AnyGit

Set(f, k, x) == [op |-> "set", file |-> f, key |-> k, fields |-> k :> x]
Unset(f, k) == [op |-> "unset", file |-> f, key |-> k, fields |-> <<>>]
Render(f) == [op |-> "render", file |-> f, key |-> idKey, fields |-> <<>>]
Create(f) == [op |-> "create", file |-> f, key |-> idKey, fields |-> (idKey :> v @@ titleKey :> w)]

\* Two operations on one file and one that validation refuses, two files, a
\* creation that is changed, no operation.
LongPlans == {<<Set(a, titleKey, w), Render(a), Set(b, idKey, w)>>, <<Create(a), Render(b)>>,
              <<Create(b), Set(b, titleKey, v), Unset(b, titleKey)>>, <<>>}
ShortPlans == {<<Render(a), Unset(a, titleKey)>>}
MCMutations == {Render(a), Unset(a, titleKey)}

AnyPlans == LongPlans \cup ShortPlans

\* What is explored: a long plan alone, where the policy lets a plan go on after
\* its own writes, and a short one beside a command, under the default policy,
\* with the file it leaves alone as committed.
Explored ==
    \/ git \notin InRoot /\ At(c1, "idle") /\ proc[p1].ops \in LongPlans \cup {<<>>}
    \/ /\ git \in InRoot /\ \A f \in Files : indexed[f] # ABSENT /\ head[f] # ABSENT
       /\ files[b] = head[b] /\ proc[p1].ops \in ShortPlans \cup {<<>>}
=============================================================================
