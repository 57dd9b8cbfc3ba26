------------------------------ MODULE VaultGit ------------------------------
(***************************************************************************)
(* The files of a vault, the git repository they may be in, and the policy *)
(* that decides whether a command may write a file                         *)
(* (src/internal/git, src/internal/mutation/validate.go, yamlwriter.go).   *)
(*                                                                         *)
(* Git is three trees: the working tree (files), the index (staged) and    *)
(* the last commit (head).                                                 *)
(***************************************************************************)
EXTENDS Integers, FiniteSets

CONSTANTS
    Files,          \* paths of notes
    Keys,           \* frontmatter keys
    Values,         \* values of a key
    NONE,           \* a key that is not there
    ABSENT,         \* a file that is not there
    Immutable,      \* keys no mutation may touch (id, type)
    Allowed,        \* keys the type's schema allows
    RequiredRoles   \* a required key together with its aliases

VARIABLES
    files,   \* path -> content in the working tree
    staged,  \* path -> content in the index of git
    head,    \* path -> content in the last commit
    git      \* the state of the repository, and the vault's policy for it

Rules == {"dirty_unrelated", "dirty_target", "detached_head", "merge_in_progress", "no_repo"}

Allow  == 0
Warn   == 1
Refuse == 2

\* Decisions that the configuration of a vault sets, by rule, where it does.
NotSet     == 3

\* A note: broken frontmatter, frontmatter without id and type, or a domain
\* note; its keys; its generated region (no markers, from an older template,
\* current, edited by hand); its body, as first written or edited since.
Kinds == {"broken", "plain", "domain"}
Regions == {"none", "old", "current", "edited"}
Bodies == {"original", "edited"}

Contents == [kind : Kinds, fm : [Keys -> Values \cup {NONE}], region : Regions, body : Bodies]

KeysOf(c) == {k \in Keys : c.fm[k] # NONE}

-----------------------------------------------------------------------------
(* Operations on a note *)

Validates(info, op) ==
    /\ info.kind = "domain"
    /\ op.op = "set" => DOMAIN op.fields \subseteq Allowed \ Immutable
    /\ op.op = "unset" =>
          /\ op.key \notin Immutable
          /\ \A role \in RequiredRoles : op.key \in role => (role \ {op.key}) \cap info.keys # {}

\* Fault: a region is rendered whatever was written into it.
Renders_Force(c) == c.kind = "domain" /\ c.region # "none"

\* A region edited by hand is refused: its checksum does not match.
Renders(c) == c.kind = "domain" /\ c.region \in {"old", "current"}

SetFields(c, fields) ==
    [c EXCEPT !.fm = [k \in Keys |-> IF k \in DOMAIN fields THEN fields[k] ELSE @[k]]]

Mutated(op, c) ==
    CASE op.op = "set"    -> SetFields(c, op.fields)
      [] op.op = "unset"  -> [c EXCEPT !.fm[op.key] = NONE]
      [] op.op = "render" -> [c EXCEPT !.region = "current"]

NewNote(op) ==
    SetFields([kind |-> "domain", fm |-> [k \in Keys |-> NONE], region |-> "none", body |-> "original"],
              op.fields)

-----------------------------------------------------------------------------
(* The state of the repository and the policy matrix *)

IsStaged(f) == head[f] # staged[f]
IsUnstaged(f) == staged[f] # ABSENT /\ files[f] # staged[f]
IsClean == \A f \in Files : head[f] = staged[f] /\ files[f] = staged[f]

\* Fault: a file that is changed but not staged counts as clean.
DirtyTarget_Staged(f) == git.repo = "root" /\ IsStaged(f)

\* Git names its files from the repository's root, a command from the vault's.
DirtyTarget(f) == git.repo = "root" /\ (IsStaged(f) \/ IsUnstaged(f))

Triggered(rule, f) ==
    CASE rule = "dirty_unrelated"   -> git.repo # "none" /\ ~ IsClean /\ ~ DirtyTarget(f)
      [] rule = "dirty_target"      -> DirtyTarget(f)
      [] rule = "detached_head"     -> git.repo # "none" /\ git.detached
      [] rule = "merge_in_progress" -> git.merging
      [] rule = "no_repo"           -> git.repo = "none"

Default(rule, commit) ==
    CASE rule = "dirty_unrelated" -> Warn
      [] rule \in {"dirty_target", "merge_in_progress"} -> Refuse
      [] rule \in {"detached_head", "no_repo"} -> IF commit THEN Refuse ELSE Warn

CommitGuards == {"detached_head", "no_repo"}

Decision(rule, commit) ==
    IF git.override[rule] = NotSet THEN Default(rule, commit)
    ELSE IF commit /\ rule \in CommitGuards THEN Refuse ELSE git.override[rule]

Refused(f, commit) == \E rule \in Rules : Triggered(rule, f) /\ Decision(rule, commit) = Refuse

\* The paths are added, and then the whole index is committed, if it has changes.
CommitFiles(paths) ==
    LET added == [f \in Files |-> IF f \in paths THEN files[f] ELSE staged[f]]
    IN  git.repo = "root" /\ added # head /\ staged' = added /\ head' = added

=============================================================================
