------------------------------ MODULE PlanApply ------------------------------
(***************************************************************************)
(* Plans and single mutations of a vault (src/internal/plan/executor.go    *)
(* and create.go, src/internal/mutation/mutator.go, src/internal/marker/   *)
(* render.go, src/cmd/frontmatter_helpers.go), while a user edits files    *)
(* and uses git, and other commands run.                                   *)
(*                                                                         *)
(* An executor applies a plan; a command is a plan of one mutation without *)
(* the executor around it: no policy check in advance, no backup, its own  *)
(* commit.  Every read, check and write of a file is a step.               *)
(***************************************************************************)
EXTENDS VaultGit, Sequences

CONSTANTS
    Executors,    \* processes that apply a plan
    Commands,     \* processes that run one mutation
    Plans,        \* plans: sequences of operations
    Mutations,    \* operations of commands
    GitAtStart,   \* the repositories a history can start in
    FilesAtStart, \* what a file can hold at first, and in git
    MaxUser       \* bound: steps of the user

Procs == Executors \cup Commands

\* What an operation does not use of a key and of fields is there all the same.
Operations == [op : {"set", "unset", "render", "create"}, file : Files, key : Keys,
               fields : UNION {[ks -> Values] : ks \in SUBSET Keys}]

Repositories == [repo : {"root", "above", "none"}, detached : BOOLEAN, merging : BOOLEAN,
                 override : [Rules -> {Allow, Warn, Refuse, NotSet}]]

ASSUME PlanAssumption ==
    /\ Executors \cap Commands = {} /\ "user" \notin Procs
    /\ ABSENT \notin Contents
    /\ Plans \subseteq Seq(Operations) /\ Mutations \subseteq Operations
    /\ FilesAtStart \subseteq Contents \cup {ABSENT}
    /\ GitAtStart \subseteq Repositories

VARIABLES
    indexed,  \* path -> content the database was last given
    proc,     \* process -> its state
    user      \* steps the user took

vars == <<files, staged, head, git, indexed, proc, user>>

-----------------------------------------------------------------------------
(* Processes *)

NoNote == [kind |-> "broken", fm |-> [k \in Keys |-> NONE], region |-> "none", body |-> "original"]

NoInfo == [kind |-> "broken", keys |-> {}]

NoBackup == [file |-> ABSENT, data |-> ABSENT, created |-> FALSE]

\* backups: what each file held before an operation, or that it was created.
\* result: why the process ended, or is going to.
\* quiet: since the process started nobody else has written.
\* adrift: the files an error left behind: written by an operation that failed
\* after its write, not restored, or not indexed.
\* calm: nobody else has written since its last policy check.
Idle == [pc |-> "idle", ops |-> <<>>, i |-> 1, dry |-> FALSE, commit |-> FALSE,
         info |-> NoInfo, raw |-> NoNote, new |-> NoNote, bk |-> NoBackup, backups |-> <<>>,
         quiet |-> TRUE, adrift |-> {}, calm |-> TRUE, start |-> files, result |-> "none"]

At(p, pc) == proc[p].pc = pc

op(p) == proc[p].ops[proc[p].i]
path(p) == op(p).file
paths(p) == {proc[p].ops[j].file : j \in 1 .. Len(proc[p].ops)}

Step(p, next) == proc' = [proc EXCEPT ![p] = next]

Goto(p, pc) == Step(p, [proc[p] EXCEPT !.pc = pc])

\* A write of p, or of the user (p \notin Procs), as the others see it.
Writing(p, next) ==
    proc' = [q \in Procs |-> IF q = p THEN next ELSE [proc[q] EXCEPT !.quiet = FALSE, !.calm = FALSE]]

\* The state of p when it ends with a result.
Ended(p, result) == [proc[p] EXCEPT !.pc = "done", !.result = result]

NothingWritten == UNCHANGED <<files, staged, head, git, indexed, user>>

GitSame == UNCHANGED <<staged, head, git, indexed, user>>

\* What a failed operation leads to.
Failed(p) == IF p \in Executors THEN [proc[p] EXCEPT !.pc = "rollback"] ELSE Ended(p, "failed")

\* An error that leaves files behind.
Late(next, fs) == [next EXCEPT !.adrift = @ \cup fs]

\* The bytes to restore, nothing where the file was missing.
backupFile(p) ==
    [file |-> path(p), data |-> IF op(p).op = "create" THEN ABSENT ELSE files[path(p)],
     created |-> op(p).op = "create"]

\* What follows the last write, or the commit: `dataview render` does not reindex.
Finish(p, me) ==
    IF me.dry \/ (p \in Commands /\ op(p).op = "render")
    THEN [me EXCEPT !.pc = "done", !.result = "ok"]
    ELSE [me EXCEPT !.pc = "reindex"]

\* The state of p when its operation is done; only now its backup counts.
Done(p) ==
    LET me == IF p \in Executors THEN [proc[p] EXCEPT !.backups = Append(@, proc[p].bk)] ELSE proc[p]
    IN  IF me.i < Len(me.ops) THEN [me EXCEPT !.i = @ + 1, !.pc = "backup"]
        ELSE IF me.commit THEN [me EXCEPT !.pc = "commit"]
        ELSE Finish(p, me)

Init ==
    /\ git \in GitAtStart
    /\ files \in [Files -> FilesAtStart]
    /\ staged \in [Files -> FilesAtStart] /\ head = staged
    /\ git.repo = "none" => staged = [f \in Files |-> ABSENT]
    /\ indexed = files
    /\ proc = [p \in Procs |-> Idle]
    /\ user = 0

-----------------------------------------------------------------------------
(* The user *)

ByUser == user < MaxUser /\ user' = user + 1 /\ Writing("user", Idle)

\* An edit of the body, of the region, of the keys, or one that breaks the frontmatter.
Edited(c) ==
    {[c EXCEPT !.body = "edited"], [c EXCEPT !.kind = "broken"]}
       \cup {[c EXCEPT !.region = "edited"] : r \in {c.region} \ {"none"}}
       \cup {[c EXCEPT !.fm[k] = NONE] : k \in KeysOf(c) \ Immutable}

Save(f) ==
    /\ files[f] # ABSENT
    /\ \E c \in Edited(files[f]) : c # files[f] /\ files' = [files EXCEPT ![f] = c]
    /\ ByUser /\ UNCHANGED <<staged, head, git, indexed>>

Delete(f) ==
    /\ files[f] # ABSENT
    /\ files' = [files EXCEPT ![f] = ABSENT]
    /\ ByUser /\ UNCHANGED <<staged, head, git, indexed>>

GitAdd(f) ==
    /\ git.repo # "none" /\ files[f] # staged[f]
    /\ staged' = [staged EXCEPT ![f] = files[f]]
    /\ ByUser /\ UNCHANGED <<files, head, git, indexed>>

GitCommit ==
    /\ git.repo # "none" /\ staged # head
    /\ head' = staged
    /\ ByUser /\ UNCHANGED <<files, staged, git, indexed>>

-----------------------------------------------------------------------------
(* Starting *)

\* Apply validates the whole plan first: no operations, no plan.
Apply(p, ops, dry, commit) ==
    /\ p \in Executors /\ At(p, "idle")
    /\ Step(p, [Idle EXCEPT !.ops = ops, !.dry = dry, !.commit = commit /\ ~ dry,
                            !.pc = IF ops = <<>> THEN "done" ELSE IF dry THEN "backup" ELSE "precheck",
                            !.result = IF ops = <<>> THEN "invalid" ELSE "none"])
    /\ NothingWritten

runMutation(p, o, dry, commit) ==
    /\ p \in Commands /\ At(p, "idle") /\ o.op # "create"
    /\ Step(p, [Idle EXCEPT !.ops = <<o>>, !.dry = dry, !.commit = commit /\ ~ dry,
                            !.pc = IF o.op = "render" THEN "read" ELSE "resolve"])
    /\ NothingWritten

\* Every file of the plan, in one look at the repository.
checkGitPolicy(p) ==
    /\ At(p, "precheck")
    /\ IF \E f \in paths(p) : Refused(f, proc[p].commit)
       THEN Step(p, Ended(p, "refused"))
       ELSE Goto(p, "backup")
    /\ NothingWritten

-----------------------------------------------------------------------------
(* One operation *)

Backup(p) ==
    /\ At(p, "backup")
    /\ Step(p, [proc[p] EXCEPT !.bk = backupFile(p),
                               !.pc = CASE op(p).op = "render" -> "read"
                                        [] op(p).op \in {"set", "unset"} -> "resolve"
                                        [] op(p).op = "create" -> "stat"])
    /\ NothingWritten

\* The first of two reads: what the note is, and the keys it has.
resolveTarget(p) ==
    /\ At(p, "resolve")
    /\ LET c == files[path(p)]
       IN  Step(p, IF c = ABSENT \/ c.kind = "broken" THEN Failed(p)
                   ELSE [proc[p] EXCEPT !.pc = "read", !.info = [kind |-> c.kind, keys |-> KeysOf(c)]])
    /\ NothingWritten

\* The second: the bytes that are changed and compared.
ReadFile(p) ==
    /\ At(p, "read")
    /\ LET c == files[path(p)]
           accepted == /\ c # ABSENT
                       /\ IF op(p).op = "render" THEN Renders(c)
                          ELSE c.kind # "broken" /\ Validates(proc[p].info, op(p))
       IN  Step(p, IF ~ accepted THEN Failed(p)
                   ELSE IF proc[p].dry THEN Done(p)
                   ELSE [proc[p] EXCEPT !.pc = "policy", !.raw = c, !.new = Mutated(op(p), c)])
    /\ NothingWritten

\* An executor's mutations do not commit.
mutatorCheckGitPolicy(p) ==
    /\ At(p, "policy")
    /\ Step(p, IF Refused(path(p), p \in Commands /\ proc[p].commit) THEN Failed(p)
               ELSE [proc[p] EXCEPT !.pc = "verify", !.calm = TRUE])
    /\ NothingWritten

\* Fault: the file is only asked for, not compared.
AtomicWriteVerify_Exists(p) ==
    /\ At(p, "verify")
    /\ IF files[path(p)] # ABSENT THEN Goto(p, "rename") ELSE Step(p, Failed(p))
    /\ NothingWritten

AtomicWriteVerify(p) ==
    /\ At(p, "verify")
    /\ IF files[path(p)] = proc[p].raw THEN Goto(p, "rename") ELSE Step(p, Failed(p))
    /\ NothingWritten

AtomicWriteRename(p) ==
    /\ At(p, "rename")
    /\ files' = [files EXCEPT ![path(p)] = proc[p].new]
    /\ Writing(p, Done(p)) \/ Writing(p, Late(Failed(p), {path(p)}))
    /\ GitSame

\* A dry run makes up the result.
CreateNoteStat(p) ==
    /\ At(p, "stat")
    /\ Step(p, IF proc[p].dry THEN Done(p)
               ELSE IF files[path(p)] # ABSENT THEN Failed(p)
               ELSE [proc[p] EXCEPT !.pc = "create"])
    /\ NothingWritten

CreateNoteWrite(p) ==
    /\ At(p, "create")
    /\ files' = [files EXCEPT ![path(p)] = NewNote(op(p))]
    /\ Writing(p, Done(p)) \/ Writing(p, Late(Failed(p), {path(p)}))
    /\ GitSame

\* A disk that is full, or a file that cannot be read.
IOError(p) ==
    /\ proc[p].pc \in {"backup", "resolve", "read", "verify", "rename", "create"}
    /\ At(p, "backup") => op(p).op # "create"
    /\ Step(p, Failed(p))
    /\ NothingWritten

-----------------------------------------------------------------------------
(* The end of a plan *)

\* Fault: the backups are restored in the order they were made.
toUndo_First(p) == 1

\* In reverse order.
toUndo(p) == Len(proc[p].backups)

\* One file at a time, whatever it holds by now; errors are ignored.
rollback(p) ==
    /\ At(p, "rollback") /\ proc[p].backups # <<>>
    /\ LET j == toUndo(p)
           bk == proc[p].backups[j]
           next == [proc[p] EXCEPT !.backups = SubSeq(@, 1, j - 1) \o SubSeq(@, j + 1, Len(@))]
       IN  \/ /\ files' = IF bk.created THEN [files EXCEPT ![bk.file] = ABSENT]
                          ELSE IF bk.data # ABSENT THEN [files EXCEPT ![bk.file] = bk.data]
                          ELSE files
              /\ IF files' = files THEN Step(p, next) ELSE Writing(p, next)
           \/ files' = files /\ Step(p, Late(next, {bk.file}))
    /\ GitSame

rollbackDone(p) ==
    /\ At(p, "rollback") /\ proc[p].backups = <<>>
    /\ Step(p, Ended(p, "failed"))
    /\ NothingWritten

\* Fault: the paths of created notes are not collected.
collectPaths_Targets(p) ==
    {proc[p].ops[j].file : j \in {k \in 1 .. Len(proc[p].ops) : proc[p].ops[k].op # "create"}}

collectPaths(p) == paths(p)

Commit(p) ==
    /\ At(p, "commit")
    /\ CommitFiles(collectPaths(p))
    /\ Writing(p, Finish(p, proc[p]))
    /\ UNCHANGED <<files, git, indexed, user>>

\* The repository is not where the vault is, or does not take the commit: what
\* was added stays added, and what was written stays written.
CommitFails(p) ==
    /\ At(p, "commit")
    /\ \E n \in 0 .. Len(proc[p].ops) :
          /\ git.repo # "root" => n = 0
          /\ staged' = [f \in Files |-> IF \E j \in 1 .. n : proc[p].ops[j].file = f THEN files[f]
                                        ELSE staged[f]]
    /\ Writing(p, Ended(p, "uncommitted"))
    /\ UNCHANGED <<files, head, git, indexed, user>>

\* A file that is gone or cannot be parsed is only warned of, and so is one that
\* the database does not take.
Reindex(p) ==
    /\ At(p, "reindex")
    /\ \E failed \in SUBSET collectPaths(p) :
          /\ indexed' = [f \in Files |-> IF /\ f \in collectPaths(p) \ failed
                                            /\ files[f] # ABSENT /\ files[f].kind # "broken"
                                         THEN files[f] ELSE indexed[f]]
          /\ Step(p, Late(Ended(p, "ok"), failed))
    /\ UNCHANGED <<files, staged, head, git, user>>

Kill(p) ==
    /\ proc[p].pc \notin {"idle", "done"}
    /\ Step(p, Ended(p, "killed"))
    /\ NothingWritten

-----------------------------------------------------------------------------

User == GitCommit \/ \E f \in Files : Save(f) \/ Delete(f) \/ GitAdd(f)

Begin(p) ==
    \/ \E dry, commit \in BOOLEAN :
          \/ \E ops \in Plans : Apply(p, ops, dry, commit)
          \/ \E o \in Mutations : runMutation(p, o, dry, commit)
    \/ checkGitPolicy(p)

Operation(p) ==
    \/ Backup(p) \/ resolveTarget(p) \/ ReadFile(p) \/ mutatorCheckGitPolicy(p)
    \/ AtomicWriteVerify(p) \/ AtomicWriteRename(p) \/ CreateNoteStat(p) \/ CreateNoteWrite(p)
    \/ IOError(p)

End(p) ==
    \/ rollback(p) \/ rollbackDone(p) \/ Commit(p) \/ CommitFails(p) \/ Reindex(p)
    \/ Kill(p)

Next == User \/ \E p \in Procs : Begin(p) \/ Operation(p) \/ End(p)

Spec == Init /\ [][Next]_vars

-----------------------------------------------------------------------------
(* Properties *)

Trees == [Files -> Contents \cup {ABSENT}]

Backups == [file : Files \cup {ABSENT}, data : Contents \cup {ABSENT}, created : BOOLEAN]

Pcs == {"idle", "precheck", "backup", "resolve", "read", "policy", "verify", "rename", "stat", "create",
        "rollback", "commit", "reindex", "done"}

Results == {"none", "ok", "failed", "refused", "invalid", "uncommitted", "killed"}

Processes ==
    [pc : Pcs, ops : Seq(Operations), i : Nat, dry : BOOLEAN, commit : BOOLEAN,
     info : [kind : Kinds, keys : SUBSET Keys], raw : Contents, new : Contents, bk : Backups,
     backups : Seq(Backups), quiet : BOOLEAN, adrift : SUBSET (Files \cup {ABSENT}), calm : BOOLEAN,
     start : Trees, result : Results]

\* Where a process is, its operation is one of those that lead there.
Placed(p) ==
    /\ proc[p].pc \notin {"idle", "done"} => proc[p].i \in 1 .. Len(proc[p].ops)
    /\ At(p, "resolve") => op(p).op \in {"set", "unset"}
    /\ proc[p].pc \in {"read", "policy", "verify", "rename"} => op(p).op # "create"
    /\ proc[p].pc \in {"stat", "create"} => op(p).op = "create"

TypeOK ==
    /\ files \in Trees /\ staged \in Trees /\ head \in Trees /\ indexed \in Trees
    /\ git \in Repositories /\ user \in Nat
    /\ proc \in [Procs -> Processes] /\ \A p \in Procs : Placed(p)

\* A plan that fails at any operation leaves every file as it was before the
\* plan, whatever its operations did to the same file in turn, when nobody else
\* wrote meanwhile (executor.go:36, :84, :273).  An operation that fails after its
\* own write leaves that one file behind, and a restore that fails the one it was
\* for: every other file is as it was.
RolledBack ==
    \A p \in Executors :
        At(p, "done") /\ proc[p].result = "failed" /\ proc[p].quiet /\ ~ proc[p].dry =>
            \A f \in Files \ proc[p].adrift : files[f] = proc[p].start[f]

\* A write that no other write came before since the policy check loses nothing.
\* It replaces the bytes the change was computed from: an edit between the read
\* and the check is a conflict (mutator.go:168).  And in a repository at the vault's
\* root, with the default policy, it replaces no content of a tracked file that
\* git does not have (policy.go:49).
WriteLosesNothing ==
    \A p \in Procs :
        At(p, "rename") /\ proc[p].calm =>
            /\ files[path(p)] = proc[p].raw /\ proc[p].new = Mutated(op(p), files[path(p)])
            /\ git.repo = "root" /\ git.override["dirty_target"] = NotSet /\ staged[path(p)] # ABSENT
               => files[path(p)] = head[path(p)]

\* A commit that a process makes alone has the content of all its files, those
\* it created included (executor.go:104).
CommitHasPlan ==
    \A p \in Procs :
        proc[p].result \in {"none", "ok"} /\ proc[p].pc \in {"reindex", "done"}
        /\ proc[p].commit /\ proc[p].quiet =>
            \A f \in paths(p) : head[f] = files[f] /\ staged[f] = files[f]

\* Every file a plan changed is in the index as it is now, once the plan is
\* done or rolled back (executor.go:117), but for those an error left behind.
IndexFollows ==
    \A p \in Executors :
        At(p, "done") /\ proc[p].result \in {"ok", "failed"} /\ proc[p].quiet /\ ~ proc[p].dry =>
            \A f \in Files \ proc[p].adrift : indexed[f] = files[f] \/ files[f] = proc[p].start[f]

\* What a plan leaves behind agrees: git and the index have what the files have.
OutcomeAgrees == CommitHasPlan /\ IndexFollows

\* No operation replaces a region that was edited by hand before the operation
\* checked the policy (replace.go:28).
HandEditsKept ==
    [][\A p \in Procs :
         AtomicWriteRename(p) /\ proc[p].calm /\ files[path(p)].region = "edited" =>
            files'[path(p)].region = "edited"]_vars

-----------------------------------------------------------------------------
(* What the source says of itself and does not keep *)

\* "--dry-run   Parse and simulate without writing" (apply_config.go:31).
DryRunWritesNothing ==
    \A p \in Procs : proc[p].dry /\ proc[p].quiet => files = proc[p].start

=============================================================================
