# Verification of VaultMind

VaultMind is a command-line tool that keeps a *vault* of Markdown notes (the
truth, edited by people and by agents) and a *derived SQLite index* of it
(search, links, access history, embeddings). Around that core it has a proposal
workflow, a plan executor, a frontmatter mutator with a git policy, an import
of documents with a watch, a warm server that keeps the models in memory, an
experiment log, and an identity layer that signs and verifies what several
agents say to each other.

This directory holds TLA+ models of the parts of it where the order of steps
matters, the TLC configurations that check them on small instances, and TLAPS
proofs of the results that hold for every instance.

Contents: [Inventory](#inventory) · [Modules](#modules) ·
[Models and code](#models-and-code) · [Runs](#runs) · [Proofs](#proofs) ·
[Assumptions](#assumptions-fairness-and-bounds) ·
[Where the code and its words part](#where-the-code-and-its-words-part) ·
[Not modelled](#not-modelled) · [Plan](#plan)

## Inventory

State, operations, what is hard about them, and what makes each part correct.

| Component | State it keeps | Operations | Hard behaviour | Correct when |
|---|---|---|---|---|
| `internal/index` store | SQLite tables `notes`, `fts_notes`, `links`, `note_accesses` and tables keyed like full text | `StoreNote`, `StoreNoteInTx`, `migrateNoteID`, `DeleteNoteByPath`, `ResolveLinks`, `recordAccess` | a store fails half-way; ids change and swap | the tables agree; history is never lost |
| `internal/index` passes | the walk, the rows loaded at the start, records not stored yet | `Rebuild`, `Incremental`, `IndexFile` | files move while a pass runs, crashes, a vault that is away | every file indexed or reported, no row wiped |
| `internal/index` embedding | embedding columns, passage vectors, two stamps in `meta` | `RunEmbed`, `EmbedNotes`, `ReembedStaleSparse`, `PurgeEmbeddings` | the embedder runs outside any transaction while notes change; a crash between batches and stamps | a vector belongs to the text it is stored with, stamps are true, one model per index |
| `internal/plan`, `internal/mutation`, `internal/marker`, `internal/git` | backups of a plan, files, the git index | `Apply`, `rollback`, `Mutator.Run`, `AtomicWrite`, `PolicyChecker.Check` | failure in the middle, edits by others, a policy read before the write | all or nothing; no edit of another writer lost |
| `internal/propose`, `internal/gap` | proposal notes, their index rows, target notes, gap notes | propose, accept, retry, close a gap | a crash between three writes, a retry, two callers | a proposal is applied at most once, and not lost |
| `internal/identity/registry`, `registryfetch`, `anchor`, `identitycli` | the administrator's next registry and what was signed; a member's copy, the pinned roots | `EnrollAdd`, `SignRegistry`, `VerifyAndLoad`, `Update`, `Upsert` | a hub that serves old registries, a copy that expired, edits by hand, a second network, two processes that read, compare and write | a revoked key stays revoked, the copy stays under the pin, the countdown foresees the verdict |
| `internal/identity/keeperctl` | nonces seen, grants | `VerifyControl`, the nonce stores, `FileGrantStore` | replay after a restart, clock limits, a save that fails | a control message acts once, only under a live grant |
| `internal/serve`, `cmd/serve_helpers.go` | the socket file, the lock of all requests, the idle timer; a client's deadlines | start over a stale file, accept, take a turn, start byte, idle end, drain; ask, wait, fall back | servers that replace each other, requests that never finish, kills on both sides, a timeout that races a late start | an ask runs once and ends; a wedged server lets go; a server removes no other's socket |
| `internal/identity/signer`, `signerservice` | the key in memory | sign, serve, shut down | shutdown racing a request | no signature after shutdown |
| `internal/experiment` | sessions, events, outcomes in their own database | start, record, end, recover | overlapping sessions, a crash | an event belongs to one session |
| `internal/importdocs` | none but the notes: what a note was made from, and the hash of the body it was given, are in its frontmatter; the watch's last fingerprint | plan, rename, write, prune; poll, settle, run | people who edit, rename and delete on both sides while an import works from what it read; overlapping imports | no work by hand is lost, a note with a live document stays, a second import has nothing to do, the watch misses no change |
| `internal/memory`, `graph`, `internal/query` (ask), `cmd/ask.go` | none of the vault's; the conversation's ledger of shown notes, the access rows, the experiment log | link, traverse, pack; ask: rank, pack, choose passages, withhold, deliver, mark, log, record, print | a budget spent by five kinds of text; answers told to three logs before they are printed; asks that overlap; an index behind its files | the count and the order of a pack are true, nothing is sent twice or withheld unsent, the logs say what was printed, old text is marked |
| `internal/query` (reports), `retrieval`, `noisefloor` | none (readers) | search, calibrate, report | floating-point scores | rankings |
| `internal/hooks` | the agents' hook files, shared with people; folders of scripts; the declared profile | install, merge, refresh, narrow, uninstall, status | files that people and older releases wrote, two agents on one folder of scripts, a kill between two files | a person's hooks stay, nothing runs twice, approved hooks keep their place, a wired script is on disk |
| `cmd`, `config/commands`, `xdg`, `ui`, `docs`, `template`, `dev`, `check`, `progress`, `telemetry`, `doctorclient` | configuration and files of the host | wiring of commands, reports | none of its own | out of scope |

Interactions: every command opens the same SQLite file (a single writer,
`busy_timeout`), reads and writes the same Markdown files, and calls the indexer
after a write. Nothing locks the vault: editors and other `vaultmind` processes
act between any two steps. The pieces meet at three interfaces, and each model
takes the others through one of them:

- the **files** of the vault (writers: people, `mutation`, `plan`, `propose`;
  readers: `index`);
- the **rows** of the index (writers: `index` and its embedding passes; readers:
  `propose`, `plan`, everything that searches);
- the **stores of the identity layer**, which the vault does not touch.

The hook files of a project are apart from all three: they belong to Claude
Code, Codex and Cursor, and `hooks` only edits them.

`PROJECT.json` lists every component with its state of modelling, and 40 hazards
at the lines where they bite, each with the properties that would catch it.

## Modules

| Module | What it is |
|---|---|
| `NoteStore` | the tables of the index and its write transactions, as operators on a database value |
| `Indexer` (EXTENDS `NoteStore`) | `Rebuild`, `Incremental` and `IndexFile` over a vault that changes |
| `EmbedPass` | the embedding passes, with rows that the indexer stores and deletes beside them |
| `VaultGit` | the vault as files, git index and last commit; operations on a note; the policy table |
| `PlanApply` (EXTENDS `VaultGit`) | plans with rollback and commit, single mutations, a user of files and git |
| `GrantLedger` | abstract: what a store of read grants promises |
| `Keeper` | keeper control over a nonce store and a grant file; implements `GrantLedger` |
| `RegistryTrust` | the signed registry from the administrator to a member's machine |
| `Proposals` | propose, accept, retry; gaps that are closed on the way |
| `Serve` | warm servers at one socket path, and the commands that ask them |
| `Import` | imports of a folder or a file, and the watch that repeats them |
| `Lists` | loops over a slice that keep some of its entries, as folds |
| `ContextPack` | links, traversal and packs as operators on one state of the index |
| `Ask` (EXTENDS `ContextPack`) | `ask` and `memory pack` beside edits, passes of the index and other asks |
| `HookWiring` | installs and uninstalls of hooks for three agents over files a person edits too |
| `MCIndexer`, `MCEmbedPass`, `MCPlanApply`, `MCIdentity` (of `Keeper` and `RegistryTrust`), `MCProposals`, `MCServe`, `MCImport`, `MCAsk` (an answer alone, or a conversation), `MCHookWiring` | small instances for TLC |
| `MCIndexerRuns`, `MCEmbedRuns` | two instances of one module each, a behaviour being one of either |
| `MCPlanImport` (of `PlanApply` and `Import`), `MCEmbedAsk` (of `EmbedPass` and `Ask`) | two modules in one run, a behaviour being one of either |
| `IndexerProofs`, `EmbedPassProofs`, `PlanApplyProofs`, `IdentityProofs` (of `Keeper` and `RegistryTrust`), `ProposalsProofs`, `DaemonProofs` (of `Import` and `Serve`), `AskProofs`, `HookProofs` (EXTENDS `AskProofs` too, for what a fold keeps to) | theorems and their proofs |

Each module has one action per step that another actor can come between: a
database transaction, one system call on a file, one critical section of a
mutex. Calls that change nothing anybody else sees are part of the step before
or after them.

Two devices recur. *History variables* (`quiet`, `halved`, `calm`, `adrift`, `kept`, `raced`,
`acked`, `dead`, `accepted`, `downs`, `missed`, ...) remember what a property has to speak about and no
guard reads them. *Faults* (`..._Never`, `..._Blind`, ...) are mutated
definitions next to the ones they would replace; no specification uses them.
They exist so that every property can be seen to fail when the code it is about is
broken in a plausible way (`mutants` in `PROJECT.json`).

## Models and code

### NoteStore and Indexer (`internal/index/store.go`, `indexer.go`, `empty_scan.go`, `access_delivery.go`)

A content of a file is a model value with constant functions for what a parse
finds in it: the declared id, names, links, whether it parses, whether its
metadata encodes. A path is a number, its place in the walk. The database is one
record `[notes, fts, links, acc]`; the tables that are written exactly as full text is
(tags, aliases, headings, blocks, frontmatter) are not repeated.

| Variable | Code |
|---|---|
| `disk`, `mtime`, `mounted`, `clock` | the vault and its modification times, in whole seconds as `UpdateMTime` stores them |
| `db` | the committed tables |
| `tx` | `Rebuild`'s batch transaction, which keeps what a failed store left in it |
| `mode`, `pc`, `scan`, `stored`, `todo`, `records`, `report` | locals of the running pass: walk, loaded rows, loop, parsed records, result |
| `call` | an `IndexFile` call of another process that has read its file |

Actions: the user's `Edit`, `Remove`, `Rename`, `Mount`; a reader's
`RecordNoteAccess`; `StartPass`; `RebuildFile`, `RebuildBegin`, `RebuildStore`,
`RebuildCommit`; `IncrementalFile` with its alternatives (unchanged time, same hash, changed, unreadable),
`IncrementalStore`, `IncrementalFilesDone`; `forgetOrphan`, `SweepDone`,
`GraphPass`; `Crash` anywhere; `IndexFileRead`, `IndexFileStat`, `IndexFileStore`,
`IndexFileAbandon`. A file that is there may still fail to be read (`Flaky`), which counts as an
error (`SkipUnreadable`). `calm` holds the paths nobody but the pass has touched since
it began. The pass loads the rows and walks in one step, and the four
statements of `ResolveLinks` are one transaction of effects.

### EmbedPass (`indexer.go`, `embed_text.go`, `embed_text_format.go`, `sparse_format.go`, `passage_vectors.go`, `embedded_model.go`)

A vector is the record of what it was computed from: model, text, format. So
"stale", "mixed" and "old format" are comparisons. A pass goes
load → plan → purge → sparse → resparse → text → select → embed → units →
passages → stamp, may abort between any two steps, and the indexer stores and
deletes notes in between; a store clears the vectors where the file's hash is new, be its text
the same. Vaults start in every state an older build can have
left (`Legacy`). Variables: `rows` (embedding columns and passage vectors of each
note), `textStamp`, `sparseStamp` (the rows of `meta`), `pass` (locals of each
pass). The embedder is external: it fails for a batch, or yields nothing for a
text without tokens.

### VaultGit and PlanApply (`internal/plan/executor.go`, `commit.go`, `create.go`, `internal/mutation/mutator.go`, `validate.go`, `internal/marker`, `internal/git/policy.go`, `cmd/frontmatter_helpers.go`)

A note is its kind, the values of its keys, the state of its generated region
(none, from an older template, current, edited by hand) and of its body. A
process runs a plan of several operations (`Executors`) or one mutation (`Commands`):
precheck → backup → for each operation resolve, read, policy, verify, rename →
commit → reindex, or rollback. `stat`/`create` is the path of `note_create`. The
user edits, stages, commits, and starts and ends a merge. `files`, `staged`,
`head` are the three places of a content; `indexed` is what the database was last
given; `adrift` holds the files an error left behind: written by an operation that failed after its
rename, not restored, or not indexed. `git` says where the repository is, whether its head is detached, whether a
merge is under way. The policy table of `policy.go` is the operator that decides.

### Keeper and GrantLedger (`internal/identity/keeperctl`)

`VerifyControl`, `AddGrant` and `RevokeGrant` are calls that run beside each
other over one `MemoryNonceStore` and one `FileGrantStore`; each store method is
one step (it holds its mutex). `state` is the map of the open handle, `disk` the
snapshot file, `failed` the flag after which the handle refuses everything. A save
can fail before or after the rename. `Restart` loses the nonces and reads the
snapshot again; `ChangePolicy` gives the next call another policy; `Tick` moves
the clock in whole seconds. Times are whole
seconds where the code compares fractions: in the very second of its retention a
nonce may be kept or gone, and both are modelled. Expired grants are pruned where
the code does it, at `Put` and when the file is opened.

`GrantLedger` states the contract: a grant is installed, may be revoked, and may be
forgotten only once expired; nothing turns *revoked* to *live*. `Keeper` implements
it under the mapping `held <- what the snapshot on disk says` (`Standing`).

### Proposals (`internal/propose`: `run.go`, `note.go`, `accept.go`, `gap.go`, `rank.go`, `choose.go`)

`file` and `row` map every path to its content on disk and as indexed; `caller`
holds what each process read. `Propose`, `WriteDraft`, `IndexDraft`, `RankRead`,
`RankRename` are `note propose`; `Accept` to `IndexAccepted` are `note accept`:
find the draft, read it and its target, close the gap, append the section under
its marker (`AtomicWriteVerify`, `AtomicWriteRename`), remove the row, then the
file. `Abandon` ends a call anywhere and a later `Accept` is the retry.
People remove and edit drafts and write into notes; an index pass may come by.

Names of drafts: a patch name carries target, second and a hash of the finding, so it
stands for one finding (`PatchOf`); a name of a new note carries its question. A
note keeps its path and is known by it. `GapRename` is the read, check and
rename of the gap note in one step that does not look at the file again, which
allows more than the code does. `raced` collects what came into a file after the last look
a call takes at it: between `AtomicWrite`'s comparison and its rename, between
the check that a name is free and `os.WriteFile`, and into a draft that an accept has
already read; the code does not keep such text, and the property says so.

### RegistryTrust (`internal/identity/registry`, `registryfetch`, `anchor`, `internal/identitycli`, `cmd/identity_paths.go`, `cmd/identity_fetch_registry*.go`)

A registry is its epoch, its window and its bindings; an envelope adds the root
that signed it, and a signature verifies under that root and no other. Time
counts fractions of a second, because `VerifyAndLoad` compares whole seconds
with the window and durations with the staleness bound, and `registryDaysLeft`
counts whole days.

| Variable | Code |
|---|---|
| `draft`, `signed` | the administrator's newest registry file; what has been signed and may be served for ever after |
| `copy` | the member's local registry file |
| `updates` | `fetch-registry` commands between fetch, compare and rename (`registryfetch.Update`) |
| `anchors`, `enrolls` | the pins in the order of their file; `enroll` commands between load and rename (`anchor.Upsert`) |
| `downs`, `fetched`, `overlapped` | history: what copies showed as revoked, whether an update wrote the copy, whether one command wrote over what another had just written |

`EnrollAdd` appends a binding, bumps the epoch and must itself load; `Revoke` is
the administrator's editor, which the code leaves this to; `SignRegistry` checks
the canonical form. A hub serves whatever was ever signed, or another network's
envelope. `localEpoch` verifies the copy at its own start, so an expired copy
still counts. `Deploy` is a user who puts another file there.

### Serve (`internal/serve/serve.go`, `cmd/serve_helpers.go`)

A socket file is its inode number, which is what `os.SameFile` compares.
`server` holds where each server is (bind → probe → remove → rebind → listen →
stat → serve → drain → return), the inode of its listener and the one it
statted, the time left until it is idle, and the lock that lets one request run
at a time. `handlers` are connections: in the backlog, waiting for the lock,
probed for a client that has gone, running. `client` is an ask: queued until the
start byte, started until the answer, or run in its own process.

Closing a listener unlinks whatever is at the path; `removeSocket` compares
first. A server can be killed anywhere, which leaves the file; a client can be
killed anywhere; a request may run for ever. A clock winds the three timers down
(`--idle`, `serveQueueTimeout`, `serveRequestTimeout`).

### Import (`internal/importdocs`: `importdocs.go`, `notes.go`, `scan.go`, `watch.go`; `cmd/import_helpers.go`)

A document has a text (its hash and title) and the time of its last change. A note
the import wrote carries its source and the hash of the body it was given, so
*edited by hand* is a comparison; a person's note carries neither; a key added by
hand is `extra`. `Fold` is a name without regard to case, `Slug` what the id is
made from.

`Begun` lists the documents; `ScanDoc` reads them one by one, while they may change;
`readNotes` reads every note once; from there on `syncDoc` plans and `RenameNote`
and `WriteNote` act, note by note, on what was read; `Orphan` asks the disk again
before `RemoveNote`. A write, rename or removal that fails is an entry *skipped* and the import
goes on (`skipped`); an import that cannot go on ends in an error (`failed`). It may be killed, and a kill between the
two halves of a write leaves the copy behind (`KilledLeavesCopy`), a note with the id of the other. `loop` is the watch: first import, fingerprint, poll, settle, run.
`imp[i].calm` collects the names nobody else has written since the notes were read.

### HookWiring (`internal/hooks`: `profile.go`, `install.go`, `provision.go`, `merge.go`, `settingsfile.go`, `codex*.go`, `cursor.go`, `scope.go`, `uninstall.go`, `status_wiring.go`; `cmd/hooks_*_helpers.go`)

A hook is the script it runs and how its command names it: as Claude Code,
Cursor or Codex outside git (an absolute path), Codex at a git root (portable) or
a person wrote it. A group is a matcher and its hooks; a hook file is the sequence
of its groups for one event, since each event is merged by itself. Who a hook
belongs to is read off the command, as the code does.

| Variable | Code |
|---|---|
| `files`, `broken` | `.claude/settings.json`, `settings.local.json`, `.codex/hooks.json`, `.cursor/hooks.json`, and which of them do not parse |
| `scripts`, `made`, `declared` | `.claude/scripts` and `.vaultmind/scripts`, whether they exist, the `vaultmind-profile` beside them |
| `gitRoot` | whether `isGitRoot` holds, which decides how Codex's commands are spelled |
| `run` | the command under way: its flags, its step, what it read, the copies left to write |

An install is mkdir → declare → one step per script → read → rename; an uninstall is
read → rename → look at the other agent → one step per deleted script. `Kill` is
possible between any two; the profile file is the one thing not renamed into
place. `Merged` composes the merge of one of `selectedHooks` after another (`MergeScript`, with its
group of `WantedGroups`:
append, upgrade an old matcher, for Codex refresh in place) with the removal of what
the profile leaves out; `Stripped` is the uninstall. The person adds, mixes, drops and
wires hooks, edits scripts, breaks and repairs files, runs `git init`.

### ContextPack and Ask (`internal/memory`: `contextpack.go`, `related.go`, `excerpt.go`; `internal/graph/traverse.go`; `internal/query`: `ask.go`, `passage*.go`, `body_decision.go`, `shown_ledger.go`, `stale.go`; `cmd/ask.go`, `ask_helpers.go`, `activation.go`, `memory_pack.go`)

A note is its sizes in tokens: the two forms of its frontmatter, its body, and the
lengths at which an excerpt of it, or the passages a question chooses, can end. So
`Excerpt` is a maximum, and everything the packer does with a budget is arithmetic
on what it is given. Links come in the order of their rows, since the first, or the
strongest, of several stands for a note.

`PackAround` is `memory.ContextPack`: the target, then candidates by priority,
activation and date, behind the hits the question wants, packed in one pass with
their text or in two. `Related` and `Traverse` are what the other readers
list.

| Variable | Code |
|---|---|
| `vault` | the vault asked: versions of its notes, links, activation |
| `disk`, `row`, `now` | version and modification time of each file; of each row, when it was indexed; the second |
| `ledger` | the conversation's file of shown notes (`--dedup-window`) |
| `ask` | each ask: its flags and question, what it has read, its pack |
| `told`, `event` | `note_accesses` with `body_delivered`; what `logAskExperiment` writes |
| `heard` | what reached the reader |

An ask goes Open (sweep and read the ledger) → Rank → Pack → Select (the passages of
an excerpted target) → Deliver (withhold, one access row per note) →
MarkChangedOnDisk (a file that cannot be looked at counts as unchanged: `Opaque`) → logAskExperiment → Record (append to the ledger) → Reply. It may
die between any two; access rows, log and ledger may fail unseen; the pipe may be
closed. `MemoryPack` packs around any note and tells no one. A person changes
or removes a file, a pass indexes the vault. What the search finds and how sure it
is of its first hit is part of the question. A pack is one step, although its reads share no transaction.

## Runs

All bounds are constants of the cfg. Every property of a passing run has a mutant
of mapped code that the same run catches.

| Run | Checks | Instance, and why it is enough |
|---|---|---|
| `index_runs` | `IndexSound`, `NoFileLost` (of `AccountsForEveryFile` and `EveryNoteSearchable`), `NoNoteWiped`, `HistoryKept` | passes: two files, four contents (an id that moves or is claimed twice, no id, an encoding that fails), two edits at any step, clock to 4, one recorded access, a path whose file may fail to be read; two files are what duplicates, swaps and renames need. Calls: an incremental pass beside one `IndexFile` call, a content that does not parse and one that does not encode, one edit, which may fall in the second of the file's last one; 2 548 048 states |
| `embed_ask` | `OneModelInTurn`, `PassagesMatchText`, `StampsTrue`, `FullFailsLoud`; `PackSound`, `SentOnce`, `DeliveryTold`, `StaleIsTold` | embedding, one after another: two notes, four texts (long, short, without tokens, empty), two passes, one write beside them, every legacy vault; two at once: two overlapping passes over a vault of the oldest BGE-M3 format. Asks, an answer: 24 vaults of four notes (four sets of sizes, three of links, two activations), seven questions, seven budgets from less than a frontmatter to more than all, every way of packing, every output, failing logs. Asks, a conversation: two asks, a window of one second, a retention of two, a clock to three, one edit, a changed file that may not let itself be looked at, passes of the index at any step (steps of an ask that nothing of the conversation reads are taken at once); 1 246 157 states |
| `plan_import` | `RolledBack`, `OutcomeAgrees` (of `CommitHasPlan` and `IndexFollows`), `WriteLosesNothing`, `HandEditsKept`; `LiveNotesKept`, `RerunSettles`, `WatchInStep`, `HandWorkKept`, `IdsStayApart` | plans of up to three operations (one fails in validation after two writes, one creates and changes, one is empty), dry and real, with commit or not, five states of the repository, one step of the user (beside a command, only the file a plan changes differs from its commit). Imports: two documents whose paths share a slug, an import or the watch with two runs, one change of a document and one by hand, a name for the copy a kill leaves (before either change, `CopyFirst`), a vault that is empty, has a person's note in the way or holds both notes; 1 921 797 states |
| `identity` | `AcceptedOnce`, `AcknowledgedIsDurable`, `RevocationHolds`, `KeepsLedger`, `RevokedStaysDown`, `CopyFollowsPin`, `FreshnessForeseen` | keeper control: two calls at a time, two requests, two grants of one id from two issuers, a revocation, two policies, clock to 4, which is past both expiries and both windows. Registry: an agent and a human with a role, a new key and a rival for the role, epochs to 3 (a revocation and an enrollment on top of it, or two), windows of one second, half seconds, days of two seconds, one update and one enrollment at a time; 748 184 states |
| `proposals` | `SectionOnce`, `FindingKept`, `AppliedClosesGap` | two processes, four commands (two proposals, an accept and its retry, or two accepts at once), a patch and a new note that answer one gap, one act of a person or the indexer; 1 086 806 states |
| `serve` | `AtMostOneCopy`, `ReplacementKept`, `EveryAskEnds`, `WedgedLetsGo`, `QueueMoves` | two servers that can replace each other, a client that asks again and again, timers of length one; 157 052 states |
| `hooks` | `HooksWork` (of `InstallDelivers` and `RunsFromDisk`), `WiredOnce`, `HandHooksKept`, `PositionsKept` | two scripts, one outside the knowledge profile; three commands for three agents (every install with a profile, bare, narrower, with and without `--force`, `--merge`, `--only`), one act of the person at any point; nothing installed or what an older release left; 4.55 million states. Three commands are an install, a change and an undo; two scripts are what order and narrowing need |
| `claim_sweep`, `claim_unresolved`, `claim_stale_vector`, `claim_dry_run`, `claim_shared_scripts` | one property each, violated | see [below](#where-the-code-and-its-words-part) |

`TypeOK` of each module is proved where a module has proofs, and is not repeated by the runs.

Five runs explore less than the product of what they declare. `plan_import` has a
state constraint, `Explored`, on its plans: a long plan alone, where the policy lets a plan go
on after its own writes, or a short plan beside a command, under the default
policy. A long plan beside a command is not explored. `identity` explores two
components that share no state in this repository (a keeper is handed a registry
that was loaded for it): a variable `part` says which of the two moves. `index_runs` uses the same
device for two instances of one module, `plan_import` for a plan and an import, `embed_ask` for two
instances of `EmbedPass` and two parts of `Ask`. `OneModelInTurn` is asked of
one instance and fails in the other, for a reason given
[below](#where-the-code-and-its-words-part). An answer is given by one ask that nobody
disturbs; in a conversation the vault, the flags and the question are fixed, and everything
else may happen. Of its two asks the first to open is called `a1`, only that one may ask for
pointers alone, die, or fail to look at a changed file whose text it prints, and what it tells the logs arrives (`InConversation`). In `hooks` the action
constraint `MCEditsMeet` lets the person act between commands or between read and rename:
a command looks at a hook file once, and elsewhere an edit comes to the same.

What the properties mean:

- **The index.** `IndexSound`: rows have unique ids and paths, carry the id their
  content declares; full text, links and history belong to rows that exist.
  `NoNoteWiped`: no step takes a row from its path but a move of its id to another path and the
  sweep of a pass whose walk did not find the file, whatever moves meanwhile; at a path
  nobody touched since, the file is then gone. `HistoryKept`: an access event
  outlives reindexing, renames and id changes. `NoFileLost` is two statements.
  `AccountsForEveryFile`: a pass has indexed or reported every
  file of its walk that nobody else touched meanwhile, whatever moved beside it, and holds no row at a
  path that stayed empty; `Incremental` may leave a row as it
  was that had the file's modification time when the pass began, because it does not read
  such a file. `EveryNoteSearchable`: a store that fails half-way leaves no row without its
  full text, unless it was part of a `Rebuild`, whose batch commits what was done
  (`halved` has the ids).
- **Embeddings.** `StampsTrue`: neither stamp claims more than the
  columns hold, whatever fails or overlaps. `PassagesMatchText`: passage
  vectors are of the text the note has now. `OneModelInTurn`: one pass at a time never
  mixes models. `FullFailsLoud`: a full pass that reports success embedded what
  can be embedded, and has not left a vault it purged without any vector.
- **Plans.** `RolledBack`: a failed plan leaves every file as it was, but for the one an operation
  wrote before it failed and those whose restore failed. `OutcomeAgrees`: what commit and re-index contain.
  `WriteLosesNothing`, `HandEditsKept`: what is never overwritten.
- **Keeper.** `AcceptedOnce`: no signed request acts twice in a run of the
  program. `AcknowledgedIsDurable`, `RevocationHolds`, `KeepsLedger`:
  an acknowledged grant or revocation stays, across crashes, failed saves and pruning.
- **Registry.** `RevokedStaysDown`: a key the copy has shown as revoked verifies
  nothing again, although a hub may serve any older registry and the copy may
  have expired. `CopyFollowsPin`: what an update wrote stays under the root it
  would ask for now. `FreshnessForeseen`: three computations of one bound agree.
- **Proposals.** `SectionOnce`: however accepts fail, repeat or overlap, a
  section is appended once. `FindingKept`: what was proposed or written is
  somewhere in the vault at every step. `AppliedClosesGap`: no finding is
  applied while its gap, known to the index, is open.
- **Serve.** `AtMostOneCopy`: an ask that runs in its own process runs nowhere else,
  but in the one window the source names. `ReplacementKept`: a returning server
  removes no other's socket. `EveryAskEnds`, `WedgedLetsGo`, `QueueMoves`: liveness,
  with requests that may never finish.
- **Import.** `HandWorkKept`: edited bodies, added keys and people's own notes
  stay. `LiveNotesKept`: pruning takes no note whose document was there.
  `IdsStayApart`: two documents get two ids. `RerunSettles`: a second import of the
  same documents writes nothing. `WatchInStep`: a quiet watch has imported what is there.
- **Packs and asks.** `PackSound`: the tokens a pack counts are those it carries, at every
  budget and through chosen and withheld text; it holds the right notes in the right
  order, each by the link `related` gives, leaves one out only for want of room, and blames
  the budget for exactly what the budget cost. `SentOnce`: within the window no text is sent
  again that was printed and recorded before the ask began, while its ledger is kept, and none is withheld but by a
  record of an ask that printed it, will, or died before it could. `DeliveryTold`: access rows and access
  events say of each note and answer what was printed. `StaleIsTold`: text that is not its
  file's is marked, unless the file could not be looked at, or the change came after the look, in the stored second, or
  with an index pass in between.
- **Hooks.** `HooksWork`: after an install nothing disturbed, every script and hook it
  was asked for is there, status has nothing to say, and the same install, or a
  bare one, changes nothing. `WiredOnce`: no spelling of a command makes an install wire
  a script a second time. `PositionsKept`: Codex keys approvals by place, and no install
  moves a hook. `HandHooksKept`: a person's hooks stay as they were and in order.
  `HooksWork` also says that what names its script by an absolute path finds it (`RunsFromDisk`).

## Proofs

TLAPS checks these for every value of the constants that satisfies the named
assumptions; TLC had checked each statement, and the strengthenings, on the
instances above first.

| Module | Theorems | Inductive invariant |
|---|---|---|
| `IndexerProofs` | `TypeCorrect`, `IndexAlwaysSound`, `NoFileEverLost`, `NoNoteEverWiped`, `HistoryAlwaysKept`, `IncrementalSearchable` | `IInv`: `TypeOK`, `Sound(db)`, and of the open batch: it exists only where `Rebuild` has begun one, and it is sound itself; the paths a pass visits are in its walk. `TInv` adds, for each path nobody else touches, what the pass knows of its file at each point of its loops |
| `EmbedPassProofs` | `TypeCorrect`, `TextStampAlwaysTrue`, `SparseStampAlwaysTrue`, `StampsAlwaysTrue`, `PassagesAlwaysMatchText`, `OneModelAlwaysInTurn`, `FullAlwaysFailsLoud` | `StampInv`: stamp ⇒ no old vector, and for each pass at each step what it may still leave behind; passage vectors are inductive by themselves; `ModelInv`: a pass that does not purge first has found only vectors of its own model, and a dense vector of BGE-M3 stands beside a sparse one; `LoudInv`: what an undisturbed `--full` pass knows of the notes it purged |
| `PlanApplyProofs` | `PlanTypeCorrect`, `WritesAlwaysLoseNothing`, `AlwaysRolledBack`, `OutcomesAlwaysAgree`, `HandEditsAlwaysKept` | `PlanSound`, for each process: where what it will write came from, what its checks found, what its backups give back, what is written, committed and indexed |
| `IdentityProofs`, of `Keeper` | `TypeCorrect`, `RequestsAcceptedOnce`, `AcknowledgementsLast`, `RevocationsHold`, `RevokersAreIssuers`, `StoreKeepsLedger` | `StoreInv` (the handle that answers equals the disk; what was acknowledged is there; a looked-up grant still stands) and `NonceInv` (as long as a call may bring a request, its nonce is retained) |
| `IdentityProofs`, of `RegistryTrust` | `RegistryTypeCorrect`, `FreshnessAlwaysForeseen`, `CopyAlwaysFollowsPin`, `RevokedAlwaysDown` | `TrustInv`: of two signed registries the newer shows every revocation of the older; what a command holds was served, is pinned and is newer than what it read; the copy shows all that was shown, or the pin is of another network |
| `ProposalsProofs` | `TypeCorrect`, `SectionsAppendedOnce`, `GapsClosedFirst`, `FindingsAlwaysKept` | `AllTyped` and `Good`: files hold each section once with its gap closed, and each caller's step records what it read and closed so far; `Found`: every kept text has a place that no accept under way will take away |
| `DaemonProofs`, of `Serve` | `TypeCorrect`, `RunOnce`, `LeavesReplacement` | that a connection says truly whose present ask it carries; that inode numbers a running server holds or remembers are not given out again |
| `DaemonProofs`, of `Import` | `ImportTypeCorrect`, `WatchAlwaysInStep`, `HandWorkAlwaysKept`, `LiveNotesAlwaysKept`, `IdsAlwaysApart`, `RerunAlwaysSettles` | `Step`: for each step of the watch, what its import has read of the documents it is for, against the fingerprint the watch will keep; `Sound`, for each import: the documents it is done with and the notes they claim, the notes that still are as it read them, the ids it knows |
| `AskProofs` | `AskTypeCorrect`, `AlwaysSentOnce`, `DeliveryAlwaysTold`, `StaleAlwaysTold`, `PackAlwaysSound` | `IInv`: `Shape` (an ask that is past Pack and found something has a pack that holds each note once, with the text its version has) and `Books`, for each ask at each step: what it has recorded against what the ledger has, what it withheld, what it found in the ledger, what it has told the access rows and the log, what was heard, and what it saw of the files. `CInv` adds that every pack counts what it carries (`Counts`) |
| `HookProofs` | `HooksAlwaysTyped`, `HooksAlwaysWork`, `HandHooksAlwaysKept`, `AlwaysWiredOnce`, `PositionsAlwaysKept` | `HooksInv`: types; what a command read is what is there while it is undisturbed, and holds every absolute path that is there (`SeenIs`); each copy an install was to make is there or still to be made (`CopiesMade`); each absolute path in a shared file, or in what a command is about to write there, has its script (`AllOnDisk`); an uninstall that deletes shared scripts found no path to them (`Removing`); and what an install delivers (`InstallDelivers`) |

Why strengthening is needed:

- `IndexSound` speaks of `db`, but `RebuildCommit` replaces `db` by `tx`; so `tx`
  must be sound as well, through stores that failed half-way. There is one
  lemma per transaction: sound in, sound out.
- `NoFileLost` speaks of the end of a pass. `TInv` follows each file to it: a file of the walk
  is still to visit, or is reported, or waits as a parsed record, or has its row
  (`VisitsAll`, `ParsesAll`); what `Rebuild`'s batch has stored no later record of the batch
  takes away (`BatchKeeps`, because the records differ in id and path, `Parsed`); a
  store of `Incremental` displaces no file of the walk, because `duplicateIDHolder` asked
  (`SparesWalk`); and what the sweep visits the walk did not find (`Walked`,
  `SweepsRest`). `NoNoteWiped` and `HistoryKept` are action properties of the same invariant: what
  one step can take is read off `StoreShape`, the rows and the history a
  store leaves, even where it fails.
- A stamp is written by a pass that looked at the rows earlier. `StampInv` says
  for each pass what it has seen or will rewrite, and `OthersKnow`: a step
  of one pass makes no row older than another pass took it to be.
- A nonce is dropped by the clock, not by the calls; `NonceInv` ties the
  retention of a nonce to the window in which `VerifyControl` lets the request
  through. This is where `MaxStall < MaxSkew` is used.
- `RevokedStaysDown` speaks of the copy, but the revocation reaches it through the
  draft, a signature, a hub and a command that compared epochs. `SignedGood`
  orders what was signed, `LocalEpochIs` shows that an expired copy keeps its
  epoch, `ShownStays` puts them together; the uniqueness of bindings in any
  registry that loads then excludes a live binding of the same key. `UpsertKeeps`
  keeps the first pin first.
- `SectionOnce` rests on `AtomicWriteVerify`: the file still is what was read.
  Two callers may both be past the check with the same bytes, and then one of
  the renames replaces the other's; `Good` says that what a caller is about
  to write carries the section once, too, and gaps never reopen.
- `AtMostOneCopy` needs to know which connection belongs to the ask a client
  makes now: a client that left a queue must have closed it before the handler
  looked, and a started one has its start byte unless it came late.
- `OneModelInTurn` is broken by a write whose pass looked at the model long before.
  `KnowsModel` carries the guard's answer to the write; the fallback to MiniLM
  looks for sparse and ColBERT vectors only (`SomeFull`), so `FullRow` is needed: no dense
  vector of BGE-M3 stands without a sparse one. That is true of the vaults older
  builds left only because a migration cleared the incomplete ones.
- `FullFailsLoud` speaks of the last step of a pass. `Loud` carries each note to it: the purge
  left it without a dense vector, the selection takes it (with the text it has), and then it
  waits, has its vector, or its batch failed; what the pass clears in the end because it
  did not rewrite it was without output or is of a batch that failed. That a pass which
  counts an embedded note has left a vector somewhere needs one it will neither write again nor clear (`Spared`).
- `RolledBack` speaks of the end of a plan, and its backups are restored one by one
  from the last. `Restorable` says at every step what they would give back
  together: a file without one is as it was, and the first one of a file is what
  it was, whatever an operation on the same file backed up later. `WriteLosesNothing`
  needs what the policy check (`Checked`) and the read (`Drawn`) found,
  for as long as nobody else writes.
- `FindingKept`: the file of a patch vouches for its finding only while no accept has
  the note with the section in its hands, is about to remove the file, or goes on with
  an older finding (`Vouches`). That an accept writes where its patch belongs
  (`Aimed`) needs the names: the name of a patch determines its note.
- `HandWorkKept` and `LiveNotesKept` follow an import from what it read to what it
  writes, document by document: the documents it is done with claim their notes
  (`Accounted`), the rest are as it read them (`AsRead`) and no document that was
  there is among those to be pruned (`Timely`). `RerunSettles` adds that each
  document done with would be found unchanged (`Settled`), `IdsStayApart` that an
  undisturbed import knows every id there is (`IdsKnown`).
- `SentOnce` compares two asks through a file that a third may sweep. `Recorded` and `Booked`
  tie an ask's record to its pack and to the ledger, both ways: each entry is of an ask
  that recorded it, with its text, and a record that is gone from the ledger is older than the
  retention. `Withheld` and `Remembered` carry what an ask read at its start to its
  answer. `DeliveryTold` needs that a pack holds a note once, or one access row
  would answer for two pieces (`Apart`). That is computed by folds over links, candidates and
  items; `FoldStays` gives induction over a fold without a theorem that takes an operator:
  the least length at which a set of reached states is left has a step that leaves it.
- `PackSound` compares the pack, which is made entry by entry, with what should be in it.
  Each loop is a fold, so each has a lemma of its own on what it has done after `k` rounds: the
  strongest row so far of every note (`BestOf`); in a traversal, every note within
  the depth of a node already expanded, and distances that never fall (`Reached`); the
  wanted hits so far (`WantedRight`); the candidates packed so far, counted, none skipped
  but at the end (`Sound`, `Follows`). `CandidatesRight` joins the first three, through the sort
  (`SortedBy`: the rank of an entry is how many go before it), `PackHonest` adds the last,
  and `HonestRanked`, `HonestAgrees`, `HonestBlamed` read the parts of the property off.
  The count must also survive what changes a pack later: a chosen passage stays
  in the room there was (`ExcerptCounted`), and what is withheld is taken out (`MarkCounted`).
- `HooksWork` speaks of the end of an install, and that the same install again changes
  nothing is a fact about `Merged` applied to what it made. Merging one script is
  followed first (`Merges`: what it leaves of each group, by place), then one after
  another (`Grown`), then Cursor's rewrite (`Did`) and the narrowing of a
  profile (`Clean`); `MergedDoes` puts them together. An absolute path keeps its script because
  only an install adds one, which has copied the script before (`CopiesMade`), and an uninstall
  takes its own out before it looks at the other agent's file (`Removing`).
- `WiredOnce`, `HandHooksKept` and `PositionsKept` are then read off what a merge is,
  for any file a person can have written: that is `HookTypes` alone, and `Settled` says
  that what was read is still there.
- `WatchInStep` speaks of a watch at rest; the invariant follows a change through
  every step it can fall between: before the walk, during it, after it, while the
  fingerprints are compared.

`StoreKeepsLedger` is the refinement: each step of `Keeper` is a step of
`GrantLedger` or leaves `Standing` alone (`LedgerPass`, `LedgerForget`,
`LedgerPut`, `LedgerRevoke`). `RevokersAreIssuers` proves an action property no
run repeats: a grant becomes revoked only by its own issuer.

Attempts that failed first, and what they showed:

- `FindingKept` was false in larger instances: a rename that races an accept can bring
  the section's marker back without the section, and a later accept then takes
  the finding for written. `Late` now has this as its third case.
- `LiveNotesKept` did not allow for two documents whose names differ only in
  case: the second is not written, so its note may go. `HandWorkKept` took a note
  that was moved by an import for one that the other imports had read.
- `IdsStayApart` is true only while an id with the hash of a path is on that
  path's note (`HashesTrue`): `assignID` does not ask whether an id it makes is taken.
- `NoFileLost` did not allow for a file that is not read: a note is renamed while a pass
  is between its walk and its read, edited under the new name, read there, and renamed
  back with its old content and time; the next pass finds the time it stored and
  skips it. That is three edits around one pass, more than the run has. A row with the time
  the walk saw is now left out, and with it the two cases the property had excluded by
  instance (a change within the stored second, and an edit between the two looks of
  an `IndexFile` call), so that both instances are asked and a theorem covers all of them.
- `SentOnce` did not allow for a window that is longer than the ledger is kept: the
  file is removed when it was untouched for seven days (`ask_helpers.go:127`, `:136`), and
  `--dedup-window` may be longer. The property now speaks of what falls within both.
- `BudgetBlamed`, the part of `PackSound` on text that is missing, said of a body with text
  that the caller's cap leaves nothing of (a first word longer than the cap) that it is never
  counted as lost to the budget. Where no room at all was left `attachBody` counts every body as lost, before it
  looks at the cap (`contextpack.go:410`); the property had known this of bodies without text only. It
  now follows the code, and the instance has a note with such a body (`Wordy`).

Only model-checked:

- all liveness (`EveryAskEnds`, `WedgedLetsGo`, `QueueMoves`).

## Assumptions, fairness and bounds

Fairness is stated where the code schedules something by itself, which is `Serve`:
a goroutine of a running server takes its next step (start, accept, the turn at
the lock, the start byte, the end after a shutdown), a command that waits reads
what has arrived or lets its deadline pass (`WF`), and time passes (`SF` on `Tick`,
because a start byte that is there to be read holds the clock until it is read).
The lock is Go's `sync.Mutex`, whose starvation mode hands it on in order; weak
fairness of `TakeTurn` asks less: that somebody takes it. Nothing is
assumed of users, of the ask itself, of a request's end, and of kills. No symmetry
is used in that run. Everywhere else a command may die at any step, nothing restarts
it, and the next command is a person's choice: what the code promises is about
every prefix of a run, and the properties are safety properties.

Deadlock checking is off where the system may stop because the bounds on edits,
commands or passes are used up; `identity` checks it.

Assumptions of the proofs, named in the modules: `NoteStoreAssumption` and
`IndexerAssumption` (the constants have their types, a file is no younger than the
history, sentinels are not values), `EmbedAssumption` (types), `NullAssumption` (SQL NULL is no vector),
`PlanAssumption` (types, and users are not processes),
`KeeperAssumption` (times are naturals, and `MaxStall < MaxSkew`: a call does not
wait as long as the clock skew between reading the clock and recording its nonce),
`SentinelAssumption`, `PathAssumption` (kinds of names are disjoint; the name
of a patch determines finding and target), `BoundAssumption`, `NoneAssumption` (of `Proposals`, and of `Ask`: no
pack is `None`), `AskAssumption` (types of vaults, questions and modes; a vault has finitely many
notes, each with at least one version),
`HooksAssumption` (types; the scripts are distinct names, at least one, and none is the adapter's;
the two matchers differ), `ServeAssumption` (timeouts are positive), `ImportAssumption` (types, finitely many names, and a folder of
its own for the names it writes), `RegistryAssumption` (types; some age no
registry reaches), `FirstAssumption` (the first registry has the form
`canonicalizeForSign` asks for and a window that does not end before it begins,
which `sign-registry` itself does not check). `IncrementalSearchable` assumes in its
statement that no pass is a `Rebuild`; `LeavesReplacement` that the number of a
removed file is not given to the next one while a server remembers it.
`RegistryTrust` takes it that the administrator works from the newest registry; `EnrollAdd`
does not check that.

Bounds that are part of the models: `MaxClock`, `MaxEdits` (`Indexer`), `MaxRuns`, `MaxWrites`
(`EmbedPass`), `MaxUser` (`PlanApply`), `MaxClock` (`Keeper`), `MaxInstant` and
`MaxSafeEpoch` (`RegistryTrust`; the latter is the code's own), `MaxCommands`,
`MaxEvents` (`Proposals`), `MaxEdits`, `MaxHands`, `MaxRuns` (`Import`), `MaxNow`, `MaxChanges` (`Ask`), `MaxRuns`, `MaxEdits` (`HookWiring`). They only
appear in guards; the proofs hold for all of their values. `Serve` has no bound but
its timers, which the run sets to one step each: what the properties tell apart is
whether a timer has run out. Symmetry is used for
interchangeable processes and notes only, in runs without liveness.

`SameSecond` in `Indexer` says whether a file may change twice within the second its
stored time has. The cfg sets it to FALSE for the passes, the calls have it TRUE; see the next section.

## Where the code and its words part

Five statements of the repository are runs of their own, with a
counterexample each:

- `claim_sweep`: the sweep of `Rebuild` lists the rows there are after its batch committed
  (`indexer.go:704`), and forgets a note that another process wrote and indexed after the walk,
  with its history, while its file is there; `indexer.go:676` says what is removed was
  deleted from disk or is excluded. The next pass finds the note again.
- `claim_unresolved`: a link no note matches is marked resolved with a NULL target
  (`indexer.go:1314`), and no later pass looks at it again; the test
  `resolve_links_test.go:96` says it stays unresolved.
- `claim_stale_vector`: a vector computed from the old text is stored after
  the note got a new one (`indexer.go:1192`), and the note is no longer pending;
  `store.go:230` says stale embeddings are cleared.
- `claim_dry_run`: the dry run of a plan that would create a note over an
  existing path and then fails removes the existing file in its rollback
  (`executor.go:227`); the flag is described as simulating without writing
  (`apply_config.go:31`).
- `claim_shared_scripts`: removing Cursor's hooks with `--remove-scripts` deletes
  the scripts Codex runs when Codex's commands are portable, because
  `otherAgentRunsScripts` (`cursor.go:310`) looks for an absolute path; `cursor.go:288`
  says removing one agent never breaks the other, and the test of it runs outside git.

Others were met while modelling and are not run, or are kept out of a property by the
condition named:

- `Indexer`. A change within the stored second is skipped (`indexer.go:773` against
  795-796; `SameSecond`, `Fresh`). An `IndexFile` call that meets an edit between its look at the
  content and its look at the time stores the old text under the new time, and later
  passes skip the file (`indexer.go:773`). A link can keep a target whose row is gone
  (`store.go:301`). Which of two files with one id wins depends on the pass
  (`indexer.go:960`), and a duplicate can be reported against a file that is gone
  (`indexer.go:797`, `:825`). History follows the id, so an id that moves takes it along
  (`store.go:249`). `Rebuild` commits what a failed store left half-done
  (`indexer.go:648` against `store.go:62`).
- `EmbedPass`. With two overlapping passes of different models, one index can hold both
  (`indexer.go:499`). The model is loaded by some passes that have no work (`indexer.go:411`).
- `PlanApply`. The second operation on a file sees the plan's own write as a
  dirty target (`mutator.go:91`). Rollback writes the backup over edits made
  meanwhile (`executor.go:272`). A commit that fails returns before the re-index and keeps
  the writes (`executor.go:110`), always so when the vault is below its
  repository's root; there the dirty-target rule never fires either
  (`policy.go:53`). A commit takes along whatever was staged (`commit.go:14`). `unset` is
  validated against keys from another read of the file (`mutator.go:54`).
- `Keeper`. After a restart, a request issued at or after the new start (the skew
  allows the future) can be accepted again; `AcceptedOnce` says exactly that.
- `Proposals`. A draft edited while its accept is under way, or after its
  section is in the note, is deleted with the edit; `raced` exempts it. A row whose
  file is gone can make a new proposal be reported as existing.
- `Serve`. Two servers that start over the same stale file can both serve: the second
  removes what the first has just bound (`serve.go:314`, although
  `serve_helpers.go:174` says a second server exits at once); the first goes when
  it is idle. Where the file system reuses inode numbers, a returning server can
  remove the socket of its replacement (`ReuseInodes`).
- `Import`. An id that carries a hash is not checked against ids in use
  (`importdocs.go:365-374` against `:362-364`). Pruning removes an imported note
  with keys added by hand; only an edited body stops it. The watch misses a
  change during its first import (`watch.go:59`) and does not repeat an import that
  failed (`:87-88`); `missed` marks both. An edit between the comparison and
  the rename of a note is lost, and imports that overlap can give two notes one
  id; `calm` leaves both out.
- `RegistryTrust`. Two overlapping updates can move the copy back to an older
  registry (`registryfetch.go:63`, `:70`, although `:8-10` says an update only goes
  forward), and of two overlapping enrollments one pin is lost
  (`anchor.go:117`); `overlapped` leaves both out. A registry signed again under
  the same epoch is never fetched. A revoked holder of a role still counts, so
  the role cannot be given to another (`humans.go`).

- `Ask`. The experiment log's event of an ask says what the text formatter would decide (`activation.go:92`):
  true of an ask without hits, false of `--json --pointers-only`, whose envelope carries the text; `ask_event.go:58`
  says it reports whether the caller actually received note bodies. The ledger knows ids, not texts: a note edited and indexed again within the window
  is withheld although its new text was never sent; it does not know vaults either, so one
  id in two vaults is one. It is written before the answer is printed (`cmd/ask.go:267`), so an ask that dies
  there withholds what nobody got. `query/ask.go:604` says both ledgers of delivery
  cannot disagree: the access event names the first hit with the delivery of the whole answer, the access row says
  whether that note's own text was there. `DeliveryTold` states each by its own words.
- `ContextPack`. `Traverse` keeps the first link that leads to a note, a pack of
  depth one and `Related` the strongest. A note whose body is only comments is flagged as omitted
  for the budget when no room at all was left (`contextpack.go:410`), although an empty excerpt elsewhere is
  not. A target that fills the budget to the token ends the pack without `BudgetExhausted`. A note that links to
  itself is listed as related to itself.
- `HookWiring`. An uninstall drops a group that holds a hook of ours and one of a
  person's (`uninstall.go:61`, although `:19-22` speaks of our entries only). Killed
  after it made the folder and before it declared the profile, an install leaves
  what a bare rerun takes for an old, full installation (`profile.go:167`); killed inside that
  write (`:231`, the only one that is not a rename), a profile no command accepts until
  one is named. A bare install for Codex or Cursor reads the profile declared for Claude
  Code first. A person's edit between read and rename is lost. `--remove-scripts` for one of Claude
  Code's two settings files leaves the other wired to scripts that are gone.

Hazards beside those of `PROJECT.json`: `indexer.go:773` (content and time in two
looks), `executor.go:86` (a killed plan), `:110` (a failed commit), `:280` (a rollback
over an edit), `mutator.go:54` (two reads), `:91` (the plan's own writes) are
among the disagreements above; `registryfetch.go:63` and `anchor.go:117` (overlapping updates), `profile.go:221` (a
kill around the declared profile) as well; `index/db.go:135` (a writer that waits longer than
`busy_timeout` fails, which the models take as a step that ends) and
`policy.go:131` (an override must not lift the guards of a commit) need no property of
their own.

## Not modelled

Left out of modelled components: the backfill of raw bodies, inferred alias and tag edges, and the
window between select and delete in `DeleteNoteByPath`; `normalize`,
`render --force`, the `note create` command and an unreadable git status in
`PlanApply`; schema gates and parsing, `MemoryGrantStore`, negative
windows and a corrupt store file in `Keeper`; similarity ranking, source checks, the
report of an already accepted proposal and size limits in `Proposals` (ranking
chooses nondeterministically between patch and new note); public keys, encodings,
limits on bindings, the invite, a pin set by flag or in the configuration and the removal of
bindings by hand in `RegistryTrust`; the check of the private directory, the
environment a request carries, the memory cap's arithmetic and the server's own
commands in `Serve`; dry runs, web pages, converted parts, excludes, links,
file systems that ignore case and the index pass after an import in `Import`; the search and the measure of relevance,
federation, `--read`, gap credits and possible gaps, snippets, wording, an index pass between two reads of one pack, a row that cannot be loaded (with `maxItems` the candidate
is skipped, without it the pack fails) and the cap of 5000 nodes in `Ask` and `ContextPack`; user scope,
the vault a command bakes, dry runs, git exclusion, Codex's approvals and the rendering of
status in `HookWiring`.

Left out entirely, with reasons in `PROJECT.json`: readers (rankings over
floating-point scores), parsers and renderers of text, network clients and document
schemas, neural backends, the hook scripts themselves, command wiring, development tools.

## Plan

Done, in this order: note store and indexer; embedding passes; plans,
mutations and git; keeper control and its ledger; proposals; the warm server
and its clients; imports and their watch; the registry and the pins; the hooks; context packs and asks.

Next:

1. `Signer`: connections, deadlines and shutdown.
2. `ExperimentLog`: sessions of several processes over one database, start, end,
   recovery of sessions that were never ended.
3. Pure algorithms as operators against reference definitions: reciprocal rank
   fusion order, passage boundaries, session
   windows, wikilink lint.
4. Composition of `Indexer` with `Proposals` at the interface `row`: an index
   pass as `Indexer` runs it instead of the one-step `IndexPass`.
