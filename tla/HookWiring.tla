------------------------------ MODULE HookWiring ------------------------------
(***************************************************************************)
(* `vaultmind hooks install`, `hooks uninstall` and what `hooks status`    *)
(* says of the result, on one project (src/internal/hooks and              *)
(* src/cmd/hooks_*_helpers.go): hook scripts are copied into the project   *)
(* and wired into the files the agents read, files a person writes too.    *)
(*                                                                         *)
(* Claude Code reads two settings files, Codex and Cursor one each; Claude *)
(* Code has its own folder of scripts, Codex and Cursor share one.  Every  *)
(* event of a hook file is merged apart from the others, so one event      *)
(* stands for all.  A command is a chain of steps that may be killed       *)
(* between any two; the person edits files and scripts at any time.  One   *)
(* command runs at a time.  The vault a command names, user scope and dry  *)
(* runs are left out.                                                      *)
(***************************************************************************)
EXTENDS Naturals, FiniteSets, Lists

CONSTANTS
    Canonical,    \* the scripts wired to the event, in the order they are wired
    Knowledge,    \* those of the knowledge profile; the full one has them all
    CodexRuns,    \* those that work under Codex
    CursorRuns,   \* those that work under Cursor
    Wide, Narrow, \* matchers: today's, and the one earlier releases installed
    Installs,     \* the install commands given: [file, profile, force, only, merge]
    MaxRuns,      \* bound: commands
    MaxEdits      \* bound: changes the person makes

VARIABLES
    files,     \* hook file -> its groups for the event, in order
    broken,    \* hook files a person left malformed
    scripts,   \* folder -> script -> its copy there
    made,      \* folders of scripts that exist
    declared,  \* folder -> the profile declared beside it
    gitRoot,   \* the project is the root of a git work tree
    run,       \* the command under way, or the install that just finished
    runs,      \* commands so far
    edits      \* changes by the person so far

vars == <<files, broken, scripts, made, declared, gitRoot, run, runs, edits>>
others == <<broken, scripts, made, declared, gitRoot>>   \* all but the hook files

Scripts == ToSet(Canonical)
Adapter == "adapter"       \* cursor-adapter.sh: Cursor runs every script through it
Copies  == Scripts \cup {Adapter}

ClaudeFiles == {"shared", "local"}
HookFiles   == ClaudeFiles \cup {"codex", "cursor"}
Folders     == {"claude", "vaultmind"}
FolderOf(f) == IF f \in ClaudeFiles THEN "claude" ELSE "vaultmind"

ASSUME HooksAssumption ==
    /\ Canonical \in Seq(STRING) /\ Canonical # <<>> /\ IsInjective(Canonical)
    /\ Knowledge \subseteq Scripts /\ CodexRuns \subseteq Scripts /\ CursorRuns \subseteq Scripts
    /\ Wide # Narrow /\ {"own", Adapter} \cap Scripts = {}
    /\ Installs \subseteq [file : HookFiles, profile : {"", "full", "knowledge"},
                           force : BOOLEAN, only : SUBSET Scripts, merge : BOOLEAN]

-----------------------------------------------------------------------------
(* Hooks, groups and who they belong to.                                    *)

\* A hook runs one of our scripts, named as Claude Code, Codex or Cursor
\* generated it or by hand, or it is a person's own.
Hook(s, ref)    == [script |-> s, ref |-> ref]
Own             == Hook("own", "hand")
Group(m, hooks) == [matcher |-> m, hooks |-> hooks]
OwnGroup        == Group(Narrow, <<Own>>)

HooksOf(g)      == ToSet(g.hooks)
RunsScript(g, s) == \E h \in HooksOf(g) : h.script = s
HasOwn(g)       == RunsScript(g, "own")
Holding(arr, s) == {i \in DOMAIN arr : RunsScript(arr[i], s)}

InProfile(p) == IF p = "knowledge" THEN Knowledge ELSE Scripts

AgentRuns(f) == CASE f = "codex"  -> CodexRuns
                  [] f = "cursor" -> CursorRuns
                  [] OTHER        -> Scripts

\* What an install wires into f, in order; an empty only is no list.
selectedHooks(f, p, only) ==
    Those(Canonical, LAMBDA s : s \in InProfile(p) \cap AgentRuns(f) /\ (only = {} \/ s \in only))

\* At a git root Codex finds the script through git, elsewhere (and always for
\* Cursor) the command holds an absolute path.
RefFor(f) == CASE f \in ClaudeFiles -> "claude"
               [] f = "codex" /\ gitRoot -> "portable"
               [] OTHER -> "absolute"

\* The group an install wires a script in.
WantedGroups(f) ==
    [s \in Scripts |-> Group(IF f = "codex" THEN Narrow ELSE Wide, <<Hook(s, RefFor(f))>>)]

-----------------------------------------------------------------------------
(* Merging: what an install makes of a hook file.                           *)

\* fault: a group that is ours among others will do.
UpgradeMatcher_Mixed(arr, s, want) ==
    [i \in DOMAIN arr |->
        IF arr[i].matcher = Narrow /\ RunsScript(arr[i], s)
        THEN [arr[i] EXCEPT !.matcher = want.matcher] ELSE arr[i]]

\* A matcher an earlier release installed becomes today's, in a group that is
\* ours alone, unless several groups run the script: then a person chose them.
UpgradeMatcher(arr, s, want) ==
    IF Cardinality(Holding(arr, s)) > 1 THEN arr
    ELSE [i \in DOMAIN arr |->
            IF arr[i].matcher = Narrow /\ arr[i].hooks # <<>> /\ \A h \in HooksOf(arr[i]) : h.script = s
            THEN [arr[i] EXCEPT !.matcher = want.matcher] ELSE arr[i]]

\* fault: the old group goes and the new one is appended.
RefreshOwn_Moved(arr, s, want) ==
    LET old(g) == Len(g.hooks) = 1 /\ RunsScript(g, s)
    IN  Those(arr, LAMBDA g : ~old(g))
          \o IF \E i \in DOMAIN arr : old(arr[i]) THEN <<want>> ELSE <<>>

\* The first group that is one hook of ours is replaced where it stands.
RefreshOwn(arr, s, want) ==
    LET alone == {i \in Holding(arr, s) : Len(arr[i].hooks) = 1}
    IN  IF alone = {} THEN arr ELSE [arr EXCEPT ![CHOOSE i \in alone : \A j \in alone : i <= j] = want]

\* fault: a script counts as wired only by the very command an install writes.
MergeScript_SameCommand(f, arr, s, want) ==
    IF \E i \in DOMAIN arr : want.hooks[1] \in HooksOf(arr[i])
    THEN UpgradeMatcher(arr, s, want) ELSE Append(arr, want)

MergeScript(f, arr, s, want) ==
    LET upgraded == UpgradeMatcher(arr, s, want)
    IN  IF Holding(arr, s) = {} THEN Append(arr, want)
        ELSE IF f = "codex" THEN RefreshOwn(upgraded, s, want) ELSE upgraded

\* One script of hooksToAdd after another.
MergeGroups(f, arr, hooksToAdd, want) ==
    FoldLeft(LAMBDA a, s : MergeScript(f, a, s, want[s]), arr, hooksToAdd)

\* A group of nothing but our hooks the profile does not run.
OutsideGroup(g, p) ==
    g.hooks # <<>> /\ \A h \in HooksOf(g) : h.script \in Scripts \ InProfile(p)

\* In Cursor's file a hook is ours when it goes through the adapter.
OursCursor(g) == \E h \in HooksOf(g) : h.ref = "absolute"

MergeCursor(arr, hooksToAdd, want, only) ==
    LET stale(g) == OursCursor(g) /\ (only = {} \/ \E s \in ToSet(hooksToAdd) : RunsScript(g, s))
    IN  Those(arr, LAMBDA g : ~stale(g)) \o [i \in DOMAIN hooksToAdd |-> want[hooksToAdd[i]]]

\* fault: as it was before a narrower profile took anything out.
Merged_OnlyAdds(f, arr, p, only, want) ==
    IF f = "cursor" THEN MergeCursor(arr, selectedHooks(f, p, only), want, only)
    ELSE MergeGroups(f, arr, selectedHooks(f, p, only), want)

Merged(f, arr, p, only, want) ==
    LET hooksToAdd == selectedHooks(f, p, only)
        groups     == MergeGroups(f, arr, hooksToAdd, want)
    IN  CASE f = "cursor" -> MergeCursor(arr, hooksToAdd, want, only)
          [] f = "codex"  -> groups
          [] f \in ClaudeFiles /\ only # {} -> groups
          [] OTHER        -> Those(groups, LAMBDA g : ~OutsideGroup(g, p))

\* What an uninstall leaves: every group with a hook of ours goes.
OursIn(f, g) == IF f = "cursor" THEN OursCursor(g) ELSE \E s \in Scripts : RunsScript(g, s)
Stripped(f, arr) == Those(arr, LAMBDA g : ~OursIn(f, g))

-----------------------------------------------------------------------------
(* The commands.                                                            *)

Idle == [kind |-> "none", step |-> "idle"]
Active == run.step \notin {"idle", "done"}

\* The profile an install uses: the one it names, else the one declared (Claude
\* Code's first), else full where hooks are already installed.  "torn" is an error.
Chosen(profile) ==
    LET d == IF declared["claude"] # "none" THEN declared["claude"] ELSE declared["vaultmind"]
    IN  CASE profile # "" -> profile
          [] profile = "" /\ d # "none" -> d
          [] OTHER -> IF made # {} THEN "full" ELSE "knowledge"

\* The copies an install writes: the listed scripts, or the profile's, and for
\* Cursor the adapter.
CopiesOf(f, p, only) ==
    Those(Canonical, LAMBDA s : s \in IF only = {} THEN InProfile(p) ELSE only)
      \o IF f = "cursor" THEN <<Adapter>> ELSE <<>>

\* The next step of the command, and what a step that ends it leaves to remember.
Goto(step) == run' = [run EXCEPT !.step = step]
Finished ==
    run' = IF run.kind = "install" /\ run.calm
           THEN [run EXCEPT !.step = "done", !.seen = <<>>] ELSE Idle

BeginInstall(c) ==
    /\ ~Active /\ runs < MaxRuns
    /\ Chosen(c.profile) # "torn"
    /\ LET p == Chosen(c.profile)
       IN  run' = [kind |-> "install", file |-> c.file, force |-> c.force, only |-> c.only,
                   merge |-> c.merge, profile |-> p, step |-> "mkdir", seen |-> <<>>,
                   todo |-> CopiesOf(c.file, p, c.only), conflict |-> FALSE, calm |-> TRUE]
    /\ runs' = runs + 1
    /\ UNCHANGED <<files, others, edits>>

MakeFolder ==
    /\ run.step = "mkdir"
    /\ made' = made \cup {FolderOf(run.file)}
    /\ Goto("declare")
    /\ UNCHANGED <<files, broken, scripts, declared, gitRoot, runs, edits>>

Declare ==
    /\ run.step = "declare"
    /\ declared' = [declared EXCEPT ![FolderOf(run.file)] = run.profile]
    /\ Goto("copy")
    /\ UNCHANGED <<files, broken, scripts, made, gitRoot, runs, edits>>

\* A copy that differs is a conflict unless --force; the scripts after it are
\* still written.
CopyScript ==
    /\ run.step = "copy" /\ run.todo # <<>>
    /\ LET s == Head(run.todo)
           clash == scripts[FolderOf(run.file)][s] = "other" /\ ~run.force
       IN  /\ scripts' = IF clash THEN scripts ELSE [scripts EXCEPT ![FolderOf(run.file)][s] = "ours"]
           /\ run' = [run EXCEPT !.todo = Tail(@), !.conflict = @ \/ clash]
    /\ UNCHANGED <<files, broken, made, declared, gitRoot, runs, edits>>

\* The wiring follows when it was asked for and no copy was in conflict.
CopiesDone ==
    /\ run.step = "copy" /\ run.todo = <<>>
    /\ IF run.merge /\ ~run.conflict THEN Goto("read") ELSE run' = Idle
    /\ UNCHANGED <<files, others, runs, edits>>

BeginUninstall(f, rm) ==
    /\ ~Active /\ runs < MaxRuns
    /\ run' = [kind |-> "uninstall", file |-> f, rm |-> rm, step |-> "read", seen |-> <<>>,
               todo |-> <<>>, calm |-> TRUE]
    /\ runs' = runs + 1
    /\ UNCHANGED <<files, others, edits>>

\* A malformed file ends either command here, before anything it holds changes.
ReadFile ==
    /\ run.step = "read"
    /\ run' = IF run.file \in broken THEN Idle
              ELSE [run EXCEPT !.seen = files[run.file], !.step = "write"]
    /\ UNCHANGED <<files, others, runs, edits>>

\* The file is replaced by a rename, with what was made of the content read.
WriteWiring ==
    /\ run.step = "write" /\ run.kind = "install"
    /\ LET merged == Merged(run.file, run.seen, run.profile, run.only, WantedGroups(run.file))
       IN  IF merged = run.seen THEN UNCHANGED <<files, broken>>
           ELSE files' = [files EXCEPT ![run.file] = merged] /\ broken' = broken \ {run.file}
    /\ Finished
    /\ UNCHANGED <<scripts, made, declared, gitRoot, runs, edits>>

StripWiring ==
    /\ run.step = "write" /\ run.kind = "uninstall"
    /\ LET kept == Stripped(run.file, run.seen)
       IN  IF kept = run.seen THEN UNCHANGED <<files, broken>>
           ELSE files' = [files EXCEPT ![run.file] = kept] /\ broken' = broken \ {run.file}
    /\ IF run.rm THEN Goto("check") ELSE run' = Idle
    /\ UNCHANGED <<scripts, made, declared, gitRoot, runs, edits>>

\* fault: nobody asks.
OtherAgentRuns_Never(f) == FALSE

\* Codex and Cursor share a folder: the other's hooks keep the scripts.  Cursor's
\* are known by the adapter, Codex's by the folder's absolute path.
OtherAgentRuns(f) ==
    LET named(g) == \E h \in HooksOf(g) : h.ref = "absolute"
    IN  \/ f = "codex"  /\ \E g \in ToSet(files["cursor"]) : named(g)
        \/ f = "cursor" /\ \E g \in ToSet(files["codex"]) : named(g)

CheckShared ==
    /\ run.step = "check"
    /\ run' = IF OtherAgentRuns(run.file) THEN Idle
              ELSE [run EXCEPT !.step = "delete", !.todo = Canonical \o <<Adapter>>]
    /\ UNCHANGED <<files, others, runs, edits>>

DeleteScript ==
    /\ run.step = "delete"
    /\ scripts' = [scripts EXCEPT ![FolderOf(run.file)][Head(run.todo)] = "none"]
    /\ run' = IF Len(run.todo) = 1 THEN Idle ELSE [run EXCEPT !.todo = Tail(@)]
    /\ UNCHANGED <<files, broken, made, declared, gitRoot, runs, edits>>

\* Killed between two steps.  Hook files and scripts are renamed into place; the
\* declared profile is not, so a kill there may leave it empty.
Kill ==
    /\ Active
    /\ run' = Idle
    /\ \/ UNCHANGED declared
       \/ run.step = "declare" /\ declared' = [declared EXCEPT ![FolderOf(run.file)] = "torn"]
    /\ UNCHANGED <<files, broken, scripts, made, gitRoot, runs, edits>>

Command ==
    \/ \E c \in Installs : BeginInstall(c)
    \/ MakeFolder \/ Declare \/ CopyScript \/ CopiesDone
    \/ \E f \in HookFiles, rm \in BOOLEAN : BeginUninstall(f, rm)
    \/ ReadFile \/ WriteWiring \/ StripWiring \/ CheckShared \/ DeleteScript
    \/ Kill

-----------------------------------------------------------------------------
(* The person.                                                              *)

\* An edit of the person's: a command under way is no longer alone.
Edit ==
    /\ edits < MaxEdits
    /\ edits' = edits + 1
    /\ run' = IF Active THEN [run EXCEPT !.calm = FALSE] ELSE Idle
    /\ UNCHANGED <<made, declared, runs>>

Rewrite(f, arr) ==
    /\ Edit
    /\ f \notin broken
    /\ files' = [files EXCEPT ![f] = arr]
    /\ UNCHANGED <<broken, scripts, gitRoot>>

AddOwn(f) == Rewrite(f, <<OwnGroup>> \o files[f]) \/ Rewrite(f, Append(files[f], OwnGroup))

\* A hook of the person's inside a group of ours.
MixOwn(f) ==
    /\ f # "cursor"
    /\ \E i \in DOMAIN files[f] :
          /\ ~HasOwn(files[f][i])
          /\ Rewrite(f, [files[f] EXCEPT ![i].hooks = Append(@, Own)])

WireByHand(f, s) == f # "cursor" /\ Rewrite(f, Append(files[f], Group(Narrow, <<Hook(s, "hand")>>)))

DropGroup(f) == \E i \in DOMAIN files[f] : Rewrite(f, RemoveAt(files[f], i))

EditScript(d, s) ==
    /\ Edit
    /\ scripts[d][s] = "ours"
    /\ scripts' = [scripts EXCEPT ![d][s] = "other"]
    /\ UNCHANGED <<files, broken, gitRoot>>

GitInit == Edit /\ ~gitRoot /\ gitRoot' = TRUE /\ UNCHANGED <<files, broken, scripts>>

\* Broken or repaired, what the file's hooks say is still there to be found.
BreakFile(f) ==
    /\ Edit
    /\ broken' = IF f \in broken THEN broken \ {f} ELSE broken \cup {f}
    /\ UNCHANGED <<files, scripts, gitRoot>>

Person ==
    \/ \E f \in HookFiles : AddOwn(f) \/ MixOwn(f) \/ DropGroup(f) \/ BreakFile(f)
    \/ \E f \in HookFiles, s \in Scripts : WireByHand(f, s)
    \/ \E d \in Folders, s \in Scripts : EditScript(d, s)
    \/ GitInit

-----------------------------------------------------------------------------
\* What earlier releases left: nothing; Claude Code wired with an old matcher;
\* Codex wired to Claude Code's folder.  Both knew no profile, and their scripts
\* are not today's.
Leftover == Group(Narrow, <<Hook(Canonical[1], "claude")>>)
NoCopies == [s \in Copies |-> "none"]
OldCopies == [s \in Copies |-> IF s = Adapter THEN "none" ELSE "other"]

Init ==
    /\ \E left \in HookFiles : \E groups \in {<<>>, <<Leftover>>, <<OwnGroup, Leftover>>} :
          /\ left \in {"shared", "codex"}
          /\ files = [f \in HookFiles |-> IF f = left THEN groups ELSE <<>>]
          /\ made = IF groups = <<>> THEN {} ELSE {"claude"}
          /\ scripts = [d \in Folders |-> IF d \in made THEN OldCopies ELSE NoCopies]
    /\ broken = {}
    /\ declared = [d \in Folders |-> "none"]
    /\ gitRoot \in BOOLEAN
    /\ run = Idle
    /\ runs = 0 /\ edits = 0

Next == Command \/ Person

Spec == Init /\ [][Next]_vars

-----------------------------------------------------------------------------
(* Properties.                                                              *)

\* A step of a command on the file it works on, that no edit came before: what
\* the file held when the command read it is what it still holds.
Settled(f) == run.step = "write" /\ run.file = f /\ run.seen = files[f] /\ run'.step # "write"

\* mergeHooksWith and removeGroupsWhere touch what is ours alone.  An install
\* keeps every group with a hook of the person's, ours beside it or not, as it was
\* and in its order; an uninstall keeps every group without a hook of ours so.
HandHooksKept ==
    [][\A f \in HookFiles : Settled(f) =>
         IF run.kind = "install"
         THEN Those(files'[f], HasOwn) = Those(files[f], HasOwn)
         ELSE Those(files'[f], LAMBDA g : ~\E s \in Scripts : RunsScript(g, s))
                = Those(files[f], LAMBDA g : ~\E s \in Scripts : RunsScript(g, s))]_vars

\* Codex keys an approval by a hook's place in its file (codexApprovalsAt), so an
\* install never moves one: whatever stood at a place still runs the same scripts
\* from there, the person's own hooks unchanged.
PositionsKept ==
    [][Settled("codex") /\ run.kind = "install" =>
         \A i \in DOMAIN files["codex"] :
            /\ i \in DOMAIN files'["codex"]
            /\ LET was == files["codex"][i]
                   is  == files'["codex"][i]
               IN  /\ Len(is.hooks) = Len(was.hooks)
                   /\ \A j \in DOMAIN was.hooks : is.hooks[j].script = was.hooks[j].script
                   /\ HasOwn(was) => is = was]_vars

\* mergeHooksWith: "Already wired (by us on a prior run, or by hand) -- never
\* duplicate".  However the command that runs a script was spelled before, by an
\* older release, outside git or by hand, an install leaves at most one group that
\* runs it, or no more than there were.
WiredOnce ==
    [][\A f \in HookFiles : Settled(f) /\ run.kind = "install" =>
         \A s \in Scripts :
            LET groups(arr) == Cardinality(Holding(arr, s))
            IN  groups(files'[f]) <= 1 \/ groups(files'[f]) <= groups(files[f])]_vars

\* What status says of s from the groups of one Claude Code settings file.
EventState(arr, s, p) ==
    CASE Holding(arr, s) = {}  -> "unwired"
      [] Holding(arr, s) # {} /\ s \notin InProfile(p) -> "outside_profile"
      [] Cardinality(Holding(arr, s)) = 1 /\ \E i \in Holding(arr, s) : arr[i].matcher = Narrow -> "stale_matcher"
      [] OTHER -> "wired"

\* After an install nothing disturbed, what it was asked for is there: every
\* script it names is today's, everything wanted is wired, status has nothing to
\* say of the file but for hooks that share a group, and the same install again,
\* or a bare one that reads the declared profile, would change nothing.
InstallDelivers ==
    run.step = "done" =>
      LET f == run.file
          p == run.profile
          arr == files[f]
          again == IF f \in ClaudeFiles \/ declared["claude"] = "none" THEN Chosen("") ELSE p
          shared(s) == \E i \in Holding(arr, s) : \E h \in HooksOf(arr[i]) : h.script # s
      IN  /\ \A s \in ToSet(CopiesOf(f, p, run.only)) : scripts[FolderOf(f)][s] = "ours"
          /\ \A s \in ToSet(selectedHooks(f, p, run.only)) : Holding(arr, s) # {}
          /\ f \in ClaudeFiles /\ run.only = {} =>
                \A s \in Scripts : \/ shared(s)
                                   \/ EventState(arr, s, p) = IF s \in InProfile(p) THEN "wired" ELSE "unwired"
          /\ again = p /\ Merged(f, arr, again, run.only, WantedGroups(f)) = arr

\* A hook that names its script by an absolute path, and the adapter before it,
\* finds both on disk, whatever was killed or uninstalled in between.
RunsFromDisk ==
    \A f \in {"codex", "cursor"} : \A g \in ToSet(files[f]) : \A h \in HooksOf(g) :
       h.ref = "absolute" =>
         /\ scripts["vaultmind"][h.script] # "none"
         /\ f = "cursor" => scripts["vaultmind"][Adapter] # "none"

\* An install delivers what it was asked for, and neither it nor any later command
\* takes from under a hook what the hook runs.
HooksWork == InstallDelivers /\ RunsFromDisk

\* removeSharedScripts: "so removing one agent never breaks the other"
\* (cursor.go).  A portable Codex hook finds its script on disk too.
OtherAgentKeepsScripts ==
    \A g \in ToSet(files["codex"]) : \A h \in HooksOf(g) :
       h.ref \in {"absolute", "portable"} => scripts["vaultmind"][h.script] # "none"
=============================================================================
