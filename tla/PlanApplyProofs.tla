--------------------------- MODULE PlanApplyProofs ---------------------------
(***************************************************************************)
(* Proofs about PlanApply.                                                 *)
(*                                                                         *)
(* The properties speak of the moment before a rename and of the end of a  *)
(* plan.  PlanSound says what holds on the way there: where the new        *)
(* content came from, what the policy check found, which contents the      *)
(* backups together give back, which files have been written.  All of it   *)
(* is about one process; what another one writes ends its quiet and calm.  *)
(***************************************************************************)
EXTENDS PlanApply, SequenceTheorems, TLAPS

-----------------------------------------------------------------------------
(* Notes *)

LEMMA FieldsTyped ==
    ASSUME NEW o \in Operations, NEW k \in Keys, k \in DOMAIN o.fields
    PROVE  o.fields[k] \in Values
<1>1. PICK ks \in SUBSET Keys : o.fields \in [ks -> Values]
  BY DEF Operations
<1> QED BY <1>1

LEMMA SetFieldsTyped ==
    ASSUME NEW o \in Operations, NEW c \in Contents
    PROVE  /\ SetFields(c, o.fields) \in Contents
           /\ SetFields(c, o.fields).kind = c.kind
           /\ SetFields(c, o.fields).region = c.region
<1> DEFINE fm == [k \in Keys |-> IF k \in DOMAIN o.fields THEN o.fields[k] ELSE c.fm[k]]
<1>1. SetFields(c, o.fields) = [c EXCEPT !.fm = fm]
  BY DEF SetFields
<1>2. c.fm \in [Keys -> Values \cup {NONE}]
  BY DEF Contents
<1>3. fm \in [Keys -> Values \cup {NONE}]
  BY <1>2, FieldsTyped
<1> HIDE DEF fm
<1> QED BY <1>1, <1>3 DEF Contents

\* A mutation keeps the kind of a note, and only a render touches its region.
LEMMA MutatedTyped ==
    ASSUME NEW o \in Operations, o.op # "create", NEW c \in Contents
    PROVE  /\ Mutated(o, c) \in Contents
           /\ Mutated(o, c).kind = c.kind
           /\ o.op # "render" => Mutated(o, c).region = c.region
<1>1. CASE o.op = "set"
  BY <1>1, SetFieldsTyped DEF Mutated
<1>2. CASE o.op = "unset"
  <2>1. Mutated(o, c) = [c EXCEPT !.fm[o.key] = NONE]
    BY <1>2 DEF Mutated
  <2> QED BY <1>2, <2>1 DEF Contents
<1>3. CASE o.op = "render"
  <2>1. Mutated(o, c) = [c EXCEPT !.region = "current"]
    BY <1>3 DEF Mutated
  <2> QED BY <1>3, <2>1 DEF Contents, Regions
<1> QED BY <1>1, <1>2, <1>3 DEF Operations

LEMMA NewNoteTyped ==
    ASSUME NEW o \in Operations
    PROVE  NewNote(o) \in Contents /\ NewNote(o).kind # "broken"
<1> DEFINE c == [kind |-> "domain", fm |-> [k \in Keys |-> NONE], region |-> "none", body |-> "original"]
<1>1. c \in Contents
  BY DEF Contents, Kinds, Regions, Bodies
<1>2. c.kind # "broken"
  OBVIOUS
<1>3. NewNote(o) = SetFields(c, o.fields)
  BY DEF NewNote
<1> HIDE DEF c
<1> QED BY <1>1, <1>2, <1>3, SetFieldsTyped

LEMMA NoneTyped == NoNote \in Contents /\ NoBackup \in Backups
               /\ NoInfo \in [kind : Kinds, keys : SUBSET Keys]
BY DEF NoNote, NoBackup, NoInfo, Contents, Kinds, Regions, Bodies, Backups

-----------------------------------------------------------------------------
(* Processes *)

\* What another's write leaves of a process.
Disturbed(m) == [m EXCEPT !.quiet = FALSE, !.calm = FALSE]

\* What most steps leave alone.
SamePlan(k, m) ==
    /\ k.ops = m.ops /\ k.i = m.i /\ k.dry = m.dry /\ k.commit = m.commit
    /\ k.bk = m.bk /\ k.backups = m.backups /\ k.start = m.start

SameNote(k, m) == k.raw = m.raw /\ k.new = m.new /\ k.calm = m.calm

LEMMA ProcTyped ==
    ASSUME TypeOK, NEW p \in Procs
    PROVE  proc[p] \in Processes /\ Placed(p)
BY DEF TypeOK

LEMMA OpTyped ==
    ASSUME TypeOK, NEW p \in Procs, proc[p].pc \notin {"idle", "done"}
    PROVE  /\ proc[p].i \in 1 .. Len(proc[p].ops)
           /\ op(p) \in Operations /\ path(p) \in Files /\ path(p) \in paths(p)
<1>1. proc[p].i \in 1 .. Len(proc[p].ops) /\ proc[p].ops \in Seq(Operations)
  BY ProcTyped DEF Placed, Processes
<1>2. op(p) \in Operations
  BY <1>1, ElementOfSeq DEF op
<1> QED BY <1>1, <1>2 DEF Operations, path, paths, op

LEMMA PathsTyped == ASSUME NEW p, proc[p] \in Processes PROVE paths(p) \subseteq Files
<1>1. \A j \in 1 .. Len(proc[p].ops) : proc[p].ops[j] \in Operations
  BY ElementOfSeq DEF Processes
<1> QED BY <1>1 DEF paths, Operations

LEMMA DisturbedIs ==
    ASSUME NEW m \in Processes
    PROVE  /\ Disturbed(m) \in Processes /\ SamePlan(Disturbed(m), m)
           /\ Disturbed(m).pc = m.pc /\ Disturbed(m).raw = m.raw /\ Disturbed(m).new = m.new
           /\ Disturbed(m).result = m.result /\ ~ Disturbed(m).quiet /\ ~ Disturbed(m).calm
BY DEF Processes, Disturbed, SamePlan

LEMMA StepFrame ==
    ASSUME TypeOK, NEW p \in Procs, NEW next \in Processes, Step(p, next)
    PROVE  /\ proc' \in [Procs -> Processes] /\ proc'[p] = next
           /\ \A q \in Procs \ {p} : proc'[q] = proc[q]
BY DEF TypeOK, Step

LEMMA WritingFrame ==
    ASSUME TypeOK, NEW p, NEW next \in Processes, Writing(p, next)
    PROVE  /\ proc' \in [Procs -> Processes] /\ (p \in Procs => proc'[p] = next)
           /\ \A q \in Procs \ {p} : proc'[q] = Disturbed(proc[q])
<1>1. \A q \in Procs : Disturbed(proc[q]) \in Processes
  BY ProcTyped, DisturbedIs
<1>2. proc' = [q \in Procs |-> IF q = p THEN next ELSE Disturbed(proc[q])]
  BY DEF Writing, Disturbed
<1> HIDE DEF Writing
<1> QED BY <1>1, <1>2

\* Where the others are, they stay.
LEMMA OthersPlaced ==
    ASSUME TypeOK, NEW q \in Procs, proc'[q] = proc[q] \/ proc'[q] = Disturbed(proc[q])
    PROVE  Placed(q)'
<1>1. /\ proc'[q].pc = proc[q].pc /\ proc'[q].ops = proc[q].ops /\ proc'[q].i = proc[q].i
  BY ProcTyped, DisturbedIs DEF SamePlan
<1>2. op(q)' = op(q)
  BY <1>1 DEF op
<1> QED BY <1>1, <1>2, ProcTyped DEF Placed, At

LEMMA Frame ==
    ASSUME TypeOK, NEW p \in Procs, NEW next \in Processes, Step(p, next) \/ Writing(p, next),
           proc'[p] = next => Placed(p)'
    PROVE  /\ proc' \in [Procs -> Processes] /\ proc'[p] = next
           /\ \A q \in Procs : Placed(q)'
<1>1. /\ proc' \in [Procs -> Processes] /\ proc'[p] = next
      /\ \A q \in Procs \ {p} : proc'[q] = proc[q] \/ proc'[q] = Disturbed(proc[q])
  BY StepFrame, WritingFrame
<1> QED BY <1>1, OthersPlaced

LEMMA EndedIs ==
    ASSUME NEW p, proc[p] \in Processes, NEW r \in Results
    PROVE  /\ Ended(p, r) \in Processes
           /\ SamePlan(Ended(p, r), proc[p]) /\ SameNote(Ended(p, r), proc[p])
           /\ Ended(p, r).pc = "done" /\ Ended(p, r).result = r /\ Ended(p, r).quiet = proc[p].quiet
           /\ Ended(p, r).adrift = proc[p].adrift
BY DEF Ended, Processes, Pcs, Results, SamePlan, SameNote

LEMMA FailedIs ==
    ASSUME NEW p, proc[p] \in Processes
    PROVE  /\ Failed(p) \in Processes
           /\ SamePlan(Failed(p), proc[p]) /\ SameNote(Failed(p), proc[p])
           /\ Failed(p).quiet = proc[p].quiet /\ Failed(p).adrift = proc[p].adrift
           /\ p \in Executors => Failed(p).pc = "rollback"
           /\ p \notin Executors => Failed(p).pc = "done" /\ Failed(p).result = "failed"
<1>1. CASE p \in Executors
  <2>1. Failed(p) = [proc[p] EXCEPT !.pc = "rollback"]
    BY <1>1 DEF Failed
  <2> QED BY <1>1, <2>1 DEF Processes, Pcs, SamePlan, SameNote
<1>2. CASE p \notin Executors
  BY <1>2, EndedIs DEF Failed, Results
<1> QED BY <1>1, <1>2

LEMMA GoneIs ==
    ASSUME NEW p, proc[p] \in Processes, NEW pc \in Pcs
    PROVE  /\ [proc[p] EXCEPT !.pc = pc] \in Processes
           /\ SamePlan([proc[p] EXCEPT !.pc = pc], proc[p])
           /\ SameNote([proc[p] EXCEPT !.pc = pc], proc[p])
           /\ [proc[p] EXCEPT !.pc = pc].pc = pc /\ [proc[p] EXCEPT !.pc = pc].result = proc[p].result
           /\ [proc[p] EXCEPT !.pc = pc].quiet = proc[p].quiet
           /\ [proc[p] EXCEPT !.pc = pc].adrift = proc[p].adrift
BY DEF Processes, Pcs, SamePlan, SameNote

LEMMA LateIs ==
    ASSUME NEW m \in Processes, NEW fs \in SUBSET (Files \cup {ABSENT})
    PROVE  /\ Late(m, fs) \in Processes /\ SamePlan(Late(m, fs), m) /\ SameNote(Late(m, fs), m)
           /\ Late(m, fs).pc = m.pc /\ Late(m, fs).result = m.result /\ Late(m, fs).quiet = m.quiet
           /\ Late(m, fs).adrift = m.adrift \cup fs
BY DEF Processes, Late, SamePlan, SameNote

LEMMA NextOpIs ==
    ASSUME NEW m \in Processes, NEW k, k = [m EXCEPT !.i = @ + 1, !.pc = "backup"]
    PROVE  k \in Processes /\ k.pc = "backup" /\ k.i = m.i + 1
<1>1. m.i + 1 \in Nat
  BY DEF Processes
<1>2. k = [pc |-> "backup", ops |-> m.ops, i |-> m.i + 1, dry |-> m.dry, commit |-> m.commit,
           info |-> m.info, raw |-> m.raw, new |-> m.new, bk |-> m.bk, backups |-> m.backups,
           quiet |-> m.quiet, adrift |-> m.adrift, calm |-> m.calm, start |-> m.start, result |-> m.result]
  BY DEF Processes
<1> QED BY <1>1, <1>2 DEF Processes, Pcs

\* The state a process is in once its operation is done.
LEMMA DoneIs ==
    ASSUME NEW p, proc[p] \in Processes, proc[p].i \in 1 .. Len(proc[p].ops)
    PROVE  /\ Done(p) \in Processes
           /\ Done(p).ops = proc[p].ops /\ Done(p).dry = proc[p].dry /\ Done(p).commit = proc[p].commit
           /\ Done(p).start = proc[p].start /\ Done(p).quiet = proc[p].quiet /\ Done(p).adrift = proc[p].adrift
           /\ Done(p).bk = proc[p].bk /\ SameNote(Done(p), proc[p])
           /\ Done(p).backups = IF p \in Executors THEN Append(proc[p].backups, proc[p].bk)
                                ELSE proc[p].backups
           /\ \/ /\ Done(p).pc = "backup" /\ Done(p).i = proc[p].i + 1
                 /\ proc[p].i < Len(proc[p].ops)
              \/ /\ Done(p).pc = "commit" /\ proc[p].commit
                 /\ Done(p).i = proc[p].i /\ proc[p].i = Len(proc[p].ops)
              \/ /\ Done(p).pc = "reindex" /\ ~ proc[p].commit
                 /\ Done(p).i = proc[p].i /\ proc[p].i = Len(proc[p].ops)
              \/ /\ Done(p).pc = "done" /\ Done(p).result = "ok" /\ ~ proc[p].commit
                 /\ (proc[p].dry \/ p \in Commands)
<1> DEFINE me == IF p \in Executors THEN [proc[p] EXCEPT !.backups = Append(@, proc[p].bk)] ELSE proc[p]
<1>1. Append(proc[p].backups, proc[p].bk) \in Seq(Backups)
  BY AppendProperties DEF Processes
<1>2. /\ me \in Processes
      /\ me.ops = proc[p].ops /\ me.dry = proc[p].dry /\ me.commit = proc[p].commit
      /\ me.start = proc[p].start /\ me.quiet = proc[p].quiet /\ me.adrift = proc[p].adrift
      /\ me.i = proc[p].i
      /\ me.bk = proc[p].bk /\ SameNote(me, proc[p])
      /\ me.backups = IF p \in Executors THEN Append(proc[p].backups, proc[p].bk) ELSE proc[p].backups
  BY <1>1 DEF Processes, SameNote
<1>3. Done(p) = IF me.i < Len(me.ops) THEN [me EXCEPT !.i = @ + 1, !.pc = "backup"]
                ELSE IF me.commit THEN [me EXCEPT !.pc = "commit"]
                ELSE Finish(p, me)
  BY DEF Done
<1> HIDE DEF me
<1>4. CASE me.i < Len(me.ops)
  <2>1. Done(p) = [me EXCEPT !.i = @ + 1, !.pc = "backup"]
    BY <1>3, <1>4
  <2>2. Done(p) \in Processes /\ Done(p).pc = "backup" /\ Done(p).i = me.i + 1
    <3>1. me \in Processes
      BY <1>2
    <3> QED BY <2>1, <3>1, NextOpIs
  <2>3. /\ Done(p).ops = me.ops /\ Done(p).dry = me.dry /\ Done(p).commit = me.commit
        /\ Done(p).start = me.start /\ Done(p).quiet = me.quiet /\ Done(p).adrift = me.adrift /\ Done(p).bk = me.bk
        /\ Done(p).backups = me.backups /\ SameNote(Done(p), me)
    BY <1>2, <2>1 DEF Processes, SameNote
  <2> QED BY <1>2, <1>4, <2>2, <2>3 DEF SameNote
<1>5. CASE ~ (me.i < Len(me.ops)) /\ me.commit
  <2>1. Done(p) = [me EXCEPT !.pc = "commit"] /\ me.i = Len(me.ops)
    BY <1>3, <1>5, <1>2
  <2> QED BY ZenonT(60), <1>2, <1>5, <2>1 DEF Processes, Pcs, SameNote
<1>6. CASE ~ (me.i < Len(me.ops)) /\ ~ me.commit
  <2>1. Done(p) = Finish(p, me) /\ me.i = Len(me.ops)
    BY <1>3, <1>6, <1>2
  <2>2. CASE me.dry \/ (p \in Commands /\ op(p).op = "render")
    <3>1. Done(p) = [me EXCEPT !.pc = "done", !.result = "ok"]
      BY <2>1, <2>2 DEF Finish
    <3>2. Done(p) \in Processes /\ Done(p).pc = "done" /\ Done(p).result = "ok"
      BY <1>2, <3>1 DEF Processes, Pcs, Results
    <3>3. /\ Done(p).ops = me.ops /\ Done(p).dry = me.dry /\ Done(p).commit = me.commit
          /\ Done(p).start = me.start /\ Done(p).quiet = me.quiet /\ Done(p).adrift = me.adrift /\ Done(p).bk = me.bk
          /\ Done(p).backups = me.backups /\ SameNote(Done(p), me)
      BY <1>2, <3>1 DEF Processes, SameNote
    <3> QED BY <1>2, <1>6, <2>2, <3>2, <3>3 DEF SameNote
  <2>3. CASE ~ (me.dry \/ (p \in Commands /\ op(p).op = "render"))
    <3>1. Done(p) = [me EXCEPT !.pc = "reindex"]
      BY <2>1, <2>3 DEF Finish
    <3> QED BY <1>2, <1>6, <2>1, <3>1 DEF Processes, Pcs, SameNote
  <2> QED BY <2>2, <2>3
<1> QED BY <1>4, <1>5, <1>6

-----------------------------------------------------------------------------
(* Types *)

\* The part of TypeOK that is not about processes.
WorldOK ==
    /\ files \in Trees /\ staged \in Trees /\ head \in Trees /\ indexed \in Trees
    /\ git \in Repositories /\ user \in Nat

LEMMA TypeParts == TypeOK <=> WorldOK /\ proc \in [Procs -> Processes] /\ \A p \in Procs : Placed(p)
BY DEF TypeOK, WorldOK

LEMMA TypesFrame ==
    ASSUME TypeOK, WorldOK', NEW p \in Procs, NEW next \in Processes, Step(p, next) \/ Writing(p, next),
           proc'[p] = next => Placed(p)'
    PROVE  TypeOK'
BY Frame DEF TypeOK, WorldOK

LEMMA WorldRests == ASSUME TypeOK, NothingWritten PROVE WorldOK'
BY DEF TypeOK, WorldOK, NothingWritten

LEMMA IdleTyped == files \in Trees => Idle \in Processes
BY NoneTyped, EmptySeq DEF Idle, Processes, Pcs, Results

LEMMA TypesAtStart == Init => TypeOK
<1> SUFFICES ASSUME Init PROVE TypeOK
  OBVIOUS
<1>1. WorldOK
  BY PlanAssumption DEF Init, WorldOK, PlanAssumption, Trees
<1>2. Idle \in Processes
  BY <1>1, IdleTyped DEF WorldOK
<1>3. proc \in [Procs -> Processes] /\ \A p \in Procs : Placed(p)
  BY <1>2 DEF Init, Placed, At, Idle
<1> QED BY <1>1, <1>3, TypeParts

LEMMA UserTyped == ASSUME TypeOK, User PROVE TypeOK'
<1>1. ASSUME ByUser PROVE proc' \in [Procs -> Processes] /\ (\A p \in Procs : Placed(p)') /\ user' \in Nat
  <2>1. Idle \in Processes /\ "user" \notin Procs
    BY IdleTyped, PlanAssumption DEF TypeOK, PlanAssumption
  <2>2. /\ proc' \in [Procs -> Processes]
        /\ \A q \in Procs : proc'[q] = Disturbed(proc[q])
    BY <1>1, <2>1, WritingFrame DEF ByUser
  <2> QED BY <1>1, <2>2, OthersPlaced DEF ByUser, TypeOK
<1>2. ASSUME NEW c \in Contents PROVE Edited(c) \subseteq Contents
  <2>1. ASSUME NEW k \in Keys PROVE [c EXCEPT !.fm[k] = NONE] \in Contents
    BY DEF Contents
  <2> QED BY <2>1 DEF Edited, Contents, Bodies, Kinds, Regions, KeysOf
<1>3. ByUser /\ WorldOK'
  <2>1. CASE GitCommit
    BY <1>1, <2>1 DEF GitCommit, TypeOK, WorldOK
  <2>2. ASSUME NEW f \in Files, Save(f) PROVE ByUser /\ WorldOK'
    <3>1. PICK c \in Edited(files[f]) : files' = [files EXCEPT ![f] = c]
      BY <2>2 DEF Save
    <3>2. c \in Contents
      BY <2>2, <3>1, <1>2 DEF Save, TypeOK, Trees
    <3> QED BY <1>1, <2>2, <3>1, <3>2 DEF Save, TypeOK, WorldOK, Trees
  <2>3. ASSUME NEW f \in Files, Delete(f) PROVE ByUser /\ WorldOK'
    BY <1>1, <2>3 DEF Delete, TypeOK, WorldOK, Trees
  <2>4. ASSUME NEW f \in Files, GitAdd(f) PROVE ByUser /\ WorldOK'
    BY <1>1, <2>4 DEF GitAdd, TypeOK, WorldOK, Trees
  <2> QED BY <2>1, <2>2, <2>3, <2>4 DEF User
<1> QED BY <1>1, <1>3 DEF TypeOK, WorldOK

\* A process that ends, fails or goes nowhere is placed.
LEMMA PlacedEnd ==
    ASSUME TypeOK, NEW p \in Procs, SamePlan(proc'[p], proc[p]),
           proc'[p].pc = "done" \/ (proc[p].pc \notin {"idle", "done"}
                                    /\ proc'[p].pc \in {"backup", "rollback", "commit", "reindex"})
    PROVE  Placed(p)'
BY OpTyped DEF Placed, At, SamePlan

LEMMA PlacedFailed ==
    ASSUME TypeOK, NEW p \in Procs, proc[p].pc \notin {"idle", "done"},
           proc'[p] = Failed(p) \/ proc'[p] = Late(Failed(p), {path(p)})
    PROVE  Placed(p)'
<1>1. /\ SamePlan(proc'[p], proc[p]) /\ proc'[p].pc \in {"rollback", "done"}
  BY FailedIs, LateIs, OpTyped, ProcTyped DEF SamePlan
<1> QED BY <1>1, PlacedEnd

\* An operation of the same plan: what it may do next.
LEMMA PlacedNext ==
    ASSUME TypeOK, NEW p \in Procs, proc[p].pc \notin {"idle", "done"}, SamePlan(proc'[p], proc[p]),
           proc'[p].pc = "resolve" => op(p).op \in {"set", "unset"},
           proc'[p].pc \in {"read", "policy", "verify", "rename"} => op(p).op # "create",
           proc'[p].pc \in {"stat", "create"} => op(p).op = "create"
    PROVE  Placed(p)'
<1>1. op(p)' = op(p)
  BY DEF op, SamePlan
<1> QED BY <1>1, OpTyped DEF Placed, At, SamePlan

LEMMA PlacedDone ==
    ASSUME TypeOK, NEW p \in Procs, proc[p].pc \notin {"idle", "done"}, proc'[p] = Done(p)
    PROVE  Placed(p)'
<1>1. proc[p].i \in 1 .. Len(proc[p].ops) /\ Len(proc[p].ops) \in Nat /\ proc[p] \in Processes
  BY OpTyped, ProcTyped, LenProperties DEF Processes
<1>2. /\ proc'[p].ops = proc[p].ops
      /\ \/ proc'[p].pc = "done"
         \/ /\ proc'[p].pc \in {"backup", "commit", "reindex"}
            /\ proc'[p].i \in {proc[p].i, proc[p].i + 1} /\ proc'[p].i <= Len(proc[p].ops)
  BY <1>1, DoneIs
<1> QED BY <1>1, <1>2 DEF Placed, At

LEMMA BeginTyped == ASSUME TypeOK, NEW p \in Procs, Begin(p) PROVE TypeOK'
<1> DEFINE i == Idle
<1>1. i \in Processes /\ i.i = 1 /\ i.ops = <<>>
  BY IdleTyped DEF TypeOK, Idle
<1> HIDE DEF i
<1>2. ASSUME NEW dry \in BOOLEAN, NEW commit \in BOOLEAN, NEW ops \in Plans, Apply(p, ops, dry, commit)
      PROVE  TypeOK'
  <2> DEFINE next == [i EXCEPT !.ops = ops, !.dry = dry, !.commit = commit /\ ~ dry,
                          !.pc = IF ops = <<>> THEN "done" ELSE IF dry THEN "backup" ELSE "precheck",
                          !.result = IF ops = <<>> THEN "invalid" ELSE "none"]
  <2>1. Step(p, next) /\ NothingWritten
    BY <1>2 DEF Apply, i
  <2>2. ops \in Seq(Operations) /\ (ops # <<>> => 1 \in 1 .. Len(ops))
    BY PlanAssumption, EmptySeq DEF PlanAssumption
  <2>3. (commit /\ ~ dry) \in BOOLEAN
    OBVIOUS
  <2>4. /\ next.ops = ops /\ next.i = 1
        /\ next.pc \in {"done", "backup", "precheck"} /\ (next.pc = "done" <=> ops = <<>>)
    BY <1>1 DEF Processes
  <2>5. next \in Processes
    BY ZenonT(60), <1>1, <2>2, <2>3 DEF Processes, Pcs, Results
  <2> HIDE DEF next
  <2>6. proc'[p] = next => Placed(p)'
    BY <2>2, <2>4 DEF Placed, At
  <2> QED BY <2>1, <2>5, <2>6, WorldRests, TypesFrame
<1>3. ASSUME NEW dry \in BOOLEAN, NEW commit \in BOOLEAN, NEW o \in Mutations,
             runMutation(p, o, dry, commit)
      PROVE  TypeOK'
  <2> DEFINE next == [i EXCEPT !.ops = <<o>>, !.dry = dry, !.commit = commit /\ ~ dry,
                          !.pc = IF o.op = "render" THEN "read" ELSE "resolve"]
  <2>1. Step(p, next) /\ NothingWritten /\ o.op # "create"
    BY <1>3 DEF runMutation, i
  <2>2. o \in Operations /\ <<o>> \in Seq(Operations) /\ Len(<<o>>) = 1 /\ <<o>>[1] = o
    BY PlanAssumption DEF PlanAssumption
  <2>3. (commit /\ ~ dry) \in BOOLEAN
    OBVIOUS
  <2>4. /\ next.ops = <<o>> /\ next.i = 1
        /\ next.pc = IF o.op = "render" THEN "read" ELSE "resolve"
    BY <1>1 DEF Processes
  <2>5. next \in Processes
    BY ZenonT(60), <1>1, <2>2, <2>3 DEF Processes, Pcs, Results
  <2> HIDE DEF next
  <2>6. ASSUME proc'[p] = next PROVE Placed(p)'
    <3>1. op(p)' = o
      BY <2>2, <2>4, <2>6 DEF op
    <3>2. Len(proc'[p].ops) = 1 /\ proc'[p].i = 1 /\ (proc'[p].pc = "resolve" => o.op # "render")
      BY <2>2, <2>4, <2>6
    <3>3. proc'[p].pc \in {"read", "resolve"}
      BY <2>4, <2>6
    <3> QED BY <2>1, <2>2, <3>1, <3>2, <3>3 DEF Placed, At, Operations
  <2> QED BY <2>1, <2>5, <2>6, WorldRests, TypesFrame
<1>4. CASE checkGitPolicy(p)
  <2>1. proc[p].pc = "precheck" /\ NothingWritten
    BY <1>4 DEF checkGitPolicy, At
  <2>2. PICK next \in Processes : Step(p, next) /\ SamePlan(next, proc[p]) /\ next.pc \in {"done", "backup"}
    <3>1. Step(p, Ended(p, "refused")) \/ Step(p, [proc[p] EXCEPT !.pc = "backup"])
      BY <1>4 DEF checkGitPolicy, Goto
    <3>2. "refused" \in Results /\ "backup" \in Pcs /\ proc[p] \in Processes
      BY ProcTyped DEF Results, Pcs
    <3>3. PICK next \in Processes : /\ next = [proc[p] EXCEPT !.pc = "backup"]
                                    /\ SamePlan(next, proc[p]) /\ next.pc = "backup"
      BY <3>2, GoneIs, Zenon
    <3>4. Ended(p, "refused") \in Processes /\ SamePlan(Ended(p, "refused"), proc[p]) /\ Ended(p, "refused").pc = "done"
      BY <3>2, EndedIs, Zenon
    <3> QED BY <3>1, <3>3, <3>4, Zenon
  <2>3. proc'[p] = next => Placed(p)'
    BY <2>1, <2>2, PlacedEnd
  <2> QED BY <2>1, <2>2, <2>3, WorldRests, TypesFrame
<1> QED BY <1>2, <1>3, <1>4 DEF Begin

\* What an operation's step may make of its process.
LEMMA OperationNext ==
    ASSUME TypeOK, NEW p \in Procs, Operation(p)
    PROVE  /\ proc[p].pc \notin {"idle", "done"}
           /\ \E next \in Processes :
                 /\ Step(p, next) \/ Writing(p, next)
                 /\ proc'[p] = next => Placed(p)'
<1> DEFINE m == proc[p]
<1>1. m \in Processes /\ (m.pc \notin {"idle", "done"} => op(p) \in Operations /\ path(p) \in Files)
  BY ProcTyped, OpTyped
<1>2. /\ Failed(p) \in Processes
      /\ m.pc \notin {"idle", "done"} =>
            /\ Late(Failed(p), {path(p)}) \in Processes
            /\ proc'[p] = Failed(p) \/ proc'[p] = Late(Failed(p), {path(p)}) => Placed(p)'
  BY <1>1, FailedIs, LateIs, PlacedFailed
<1>3. m.pc \notin {"idle", "done"} => Done(p) \in Processes /\ (proc'[p] = Done(p) => Placed(p)')
  BY <1>1, DoneIs, PlacedDone, OpTyped
<1>4. CASE Backup(p)
  <2> DEFINE next == [m EXCEPT !.bk = backupFile(p),
                               !.pc = CASE op(p).op = "render" -> "read"
                                        [] op(p).op \in {"set", "unset"} -> "resolve"
                                        [] op(p).op = "create" -> "stat"]
  <2>1. m.pc = "backup" /\ Step(p, next)
    BY <1>4 DEF Backup, At
  <2>2. backupFile(p) \in Backups
    BY <1>1, <2>1 DEF backupFile, Backups, TypeOK, Trees
  <2>3. next.pc = CASE op(p).op = "render" -> "read"
                    [] op(p).op \in {"set", "unset"} -> "resolve"
                    [] op(p).op = "create" -> "stat"
    BY <1>1 DEF Processes
  <2>4. next.pc \in {"read", "resolve", "stat"} /\ next.ops = m.ops /\ next.i = m.i
    BY <1>1, <2>1, <2>3 DEF Operations, Processes
  <2>5. next \in Processes
    BY <1>1, <2>1, <2>2 DEF Processes, Pcs, Operations
  <2>6. ASSUME proc'[p] = next PROVE Placed(p)'
    <3>1. op(p)' = op(p)
      BY <2>4, <2>6 DEF op
    <3> HIDE DEF next
    <3> QED BY <1>1, <2>1, <2>3, <2>4, <2>6, <3>1, OpTyped DEF Placed, At, Operations
  <2> QED BY <2>1, <2>5, <2>6
<1>5. CASE resolveTarget(p)
  <2> DEFINE c == files[path(p)]
             next == [m EXCEPT !.pc = "read", !.info = [kind |-> c.kind, keys |-> KeysOf(c)]]
  <2>1. m.pc = "resolve" /\ (Step(p, Failed(p)) \/ (Step(p, next) /\ c # ABSENT))
    BY <1>5, Zenon DEF resolveTarget, At
  <2>2. CASE Step(p, next) /\ c # ABSENT
    <3>1. c \in Contents
      BY <1>1, <2>1, <2>2 DEF TypeOK, Trees
    <3>2. [kind |-> c.kind, keys |-> KeysOf(c)] \in [kind : Kinds, keys : SUBSET Keys]
      BY <3>1 DEF Contents, KeysOf
    <3>3. next \in Processes /\ SamePlan(next, m) /\ next.pc = "read"
      BY <1>1, <3>2 DEF Processes, Pcs, SamePlan
    <3>4. op(p).op # "create"
      BY <2>1, ProcTyped DEF Placed, At
    <3> HIDE DEF next
    <3> QED BY <2>1, <2>2, <3>3, <3>4, PlacedNext
  <2> QED BY <1>2, <2>1, <2>2
<1>6. CASE ReadFile(p)
  <2> DEFINE c == files[path(p)]
             next == [m EXCEPT !.pc = "policy", !.raw = c, !.new = Mutated(op(p), c)]
  <2>1. m.pc = "read" /\ op(p).op # "create"
    BY <1>6, ProcTyped DEF ReadFile, At, Placed
  <2>2. Step(p, Failed(p)) \/ Step(p, Done(p)) \/ (Step(p, next) /\ c # ABSENT)
    BY <1>6 DEF ReadFile
  <2>3. CASE Step(p, next) /\ c # ABSENT
    <3>1. c \in Contents /\ Mutated(op(p), c) \in Contents
      BY <1>1, <2>1, <2>3, MutatedTyped DEF TypeOK, Trees
    <3>2. next \in Processes /\ SamePlan(next, m) /\ next.pc = "policy"
      BY <1>1, <3>1 DEF Processes, Pcs, SamePlan
    <3> HIDE DEF next
    <3> QED BY <2>1, <2>3, <3>2, PlacedNext
  <2> QED BY <1>2, <1>3, <2>1, <2>2, <2>3
<1>7. CASE mutatorCheckGitPolicy(p)
  <2> DEFINE next == [m EXCEPT !.pc = "verify", !.calm = TRUE]
  <2>1. m.pc = "policy" /\ op(p).op # "create" /\ (Step(p, Failed(p)) \/ Step(p, next))
    BY <1>7, ProcTyped DEF mutatorCheckGitPolicy, At, Placed
  <2>2. next \in Processes /\ SamePlan(next, m) /\ next.pc = "verify"
    BY <1>1 DEF Processes, Pcs, SamePlan
  <2> HIDE DEF next
  <2> QED BY <1>2, <2>1, <2>2, PlacedNext
<1>8. CASE AtomicWriteVerify(p)
  <2>1. m.pc = "verify" /\ op(p).op # "create" /\ (Step(p, Failed(p)) \/ Step(p, [m EXCEPT !.pc = "rename"]))
    BY <1>8, ProcTyped DEF AtomicWriteVerify, At, Placed, Goto
  <2>2. PICK next \in Processes : next = [m EXCEPT !.pc = "rename"] /\ SamePlan(next, m) /\ next.pc = "rename"
    <3>1. "rename" \in Pcs
      BY DEF Pcs
    <3> QED BY <1>1, <3>1, GoneIs, Zenon
  <2> QED BY <1>2, <2>1, <2>2, PlacedNext
<1>9. CASE AtomicWriteRename(p)
  BY <1>2, <1>3, <1>9 DEF AtomicWriteRename, At
<1>10. CASE CreateNoteStat(p)
  <2>1. m.pc = "stat" /\ op(p).op = "create"
    BY <1>10, ProcTyped DEF CreateNoteStat, At, Placed
  <2>2. Step(p, Failed(p)) \/ Step(p, Done(p)) \/ Step(p, [m EXCEPT !.pc = "create"])
    BY <1>10 DEF CreateNoteStat
  <2>3. PICK next \in Processes : next = [m EXCEPT !.pc = "create"] /\ SamePlan(next, m) /\ next.pc = "create"
    <3>1. "create" \in Pcs
      BY DEF Pcs
    <3> QED BY <1>1, <3>1, GoneIs, Zenon
  <2> QED BY <1>2, <1>3, <2>1, <2>2, <2>3, PlacedNext
<1>11. CASE CreateNoteWrite(p)
  BY <1>2, <1>3, <1>11 DEF CreateNoteWrite, At
<1>12. CASE IOError(p)
  BY <1>2, <1>12 DEF IOError
<1> QED
  BY <1>4, <1>5, <1>6, <1>7, <1>8, <1>9, <1>10, <1>11, <1>12
  DEF Operation, Backup, resolveTarget, ReadFile, mutatorCheckGitPolicy, AtomicWriteVerify, AtomicWriteRename,
      CreateNoteStat, CreateNoteWrite, IOError, At

LEMMA OperationTyped == ASSUME TypeOK, NEW p \in Procs, Operation(p) PROVE TypeOK'
<1>1. PICK next \in Processes : /\ Step(p, next) \/ Writing(p, next)
                                /\ proc'[p] = next => Placed(p)'
  BY OperationNext
<1>2. op(p) \in Operations /\ path(p) \in Files /\ proc[p] \in Processes
  BY OperationNext, OpTyped, ProcTyped
<1>3. WorldOK'
  <2>1. CASE NothingWritten
    BY <2>1, WorldRests
  <2>2. CASE AtomicWriteRename(p)
    <3>1. files' = [files EXCEPT ![path(p)] = proc[p].new] /\ GitSame
      BY <2>2 DEF AtomicWriteRename
    <3> QED BY <1>2, <3>1 DEF GitSame, TypeOK, WorldOK, Trees, Processes
  <2>3. CASE CreateNoteWrite(p)
    <3>1. files' = [files EXCEPT ![path(p)] = NewNote(op(p))] /\ GitSame
      BY <2>3 DEF CreateNoteWrite
    <3>2. NewNote(op(p)) \in Contents
      BY <1>2, NewNoteTyped
    <3> QED BY <1>2, <3>1, <3>2 DEF GitSame, TypeOK, WorldOK, Trees
  <2> QED BY <2>1, <2>2, <2>3 DEF Operation, Backup, resolveTarget, ReadFile, mutatorCheckGitPolicy,
                                  AtomicWriteVerify, CreateNoteStat, IOError
<1> QED BY <1>1, <1>3, TypesFrame

\* Without the element at j.
Without(bs, j) == SubSeq(bs, 1, j - 1) \o SubSeq(bs, j + 1, Len(bs))

LEMMA WithoutLast ==
    ASSUME NEW bs \in Seq(Backups), bs # <<>>
    PROVE  /\ Len(bs) \in Nat \ {0} /\ bs[Len(bs)] \in Backups
           /\ Without(bs, Len(bs)) \in Seq(Backups)
           /\ Len(Without(bs, Len(bs))) = Len(bs) - 1
           /\ \A j \in 1 .. Len(bs) - 1 : Without(bs, Len(bs))[j] = bs[j]
<1> DEFINE n == Len(bs)
<1>1. n \in Nat \ {0} /\ bs[n] \in Backups
  BY EmptySeq, ElementOfSeq, LenProperties
<1>2. SubSeq(bs, n + 1, n) = <<>>
  BY <1>1, SubSeqEmpty
<1>3. \A j \in 1 .. n - 1 : bs[j] \in Backups
  BY <1>1, ElementOfSeq
<1>4. /\ SubSeq(bs, 1, n - 1) \in Seq(Backups)
      /\ Len(SubSeq(bs, 1, n - 1)) = n - 1
      /\ \A j \in 1 .. n - 1 : SubSeq(bs, 1, n - 1)[j] = bs[j]
  <2>1. PICK k \in Int : k = n - 1
    BY <1>1
  <2>2. /\ SubSeq(bs, 1, k) \in Seq(Backups)
        /\ Len(SubSeq(bs, 1, k)) = IF 1 <= k THEN k - 1 + 1 ELSE 0
        /\ \A j \in 1 .. k - 1 + 1 : SubSeq(bs, 1, k)[j] = bs[1 + j - 1]
    BY <2>1, <1>3, SubSeqProperties
  <2>3. \A j \in 1 .. k : j \in 1 .. k - 1 + 1 /\ 1 + j - 1 = j
    BY <2>1
  <2>4. Len(SubSeq(bs, 1, k)) = k
    BY <1>1, <2>1, <2>2
  <2>5. \A j \in 1 .. k : SubSeq(bs, 1, k)[j] = bs[j]
    BY <2>2, <2>3
  <2> QED BY <2>1, <2>2, <2>4, <2>5
<1>5. Without(bs, n) = SubSeq(bs, 1, n - 1)
  BY <1>2, <1>4, ConcatEmptySeq DEF Without
<1> QED BY <1>1, <1>4, <1>5

\* What a step of a rollback makes of its process.
Undoing(p) == [proc[p] EXCEPT !.backups = Without(@, Len(proc[p].backups))]

LEMMA UndoingIs ==
    ASSUME TypeOK, NEW p \in Procs, proc[p].backups # <<>>
    PROVE  /\ Undoing(p) \in Processes
           /\ Undoing(p).ops = proc[p].ops /\ Undoing(p).i = proc[p].i /\ Undoing(p).dry = proc[p].dry
           /\ Undoing(p).start = proc[p].start /\ Undoing(p).quiet = proc[p].quiet
           /\ Undoing(p).adrift = proc[p].adrift
           /\ Undoing(p).backups = Without(proc[p].backups, Len(proc[p].backups))
           /\ Undoing(p).pc = proc[p].pc
<1>1. proc[p] \in Processes
  BY ProcTyped
<1>2. Without(proc[p].backups, Len(proc[p].backups)) \in Seq(Backups)
  BY <1>1, WithoutLast DEF Processes
<1>3. Undoing(p) = [proc[p] EXCEPT !.backups = Without(proc[p].backups, Len(proc[p].backups))]
  BY DEF Undoing
<1> HIDE DEF Undoing
<1> QED BY <1>1, <1>2, <1>3 DEF Processes

\* What a step of a rollback does.
LEMMA RollbackIs ==
    ASSUME TypeOK, NEW p \in Procs, rollback(p)
    PROVE  /\ proc[p].pc = "rollback" /\ proc[p].backups # <<>> /\ GitSame
           /\ LET bk == proc[p].backups[Len(proc[p].backups)]
              IN  \/ /\ files' = IF bk.created THEN [files EXCEPT ![bk.file] = ABSENT]
                                 ELSE IF bk.data # ABSENT THEN [files EXCEPT ![bk.file] = bk.data]
                                 ELSE files
                     /\ \/ Writing(p, Undoing(p))
                        \/ files' = files /\ Step(p, Undoing(p))
                  \/ files' = files /\ Step(p, Late(Undoing(p), {bk.file}))
BY DEF rollback, toUndo, Undoing, Without, At

LEMMA RollbackTyped == ASSUME TypeOK, NEW p \in Procs, rollback(p) PROVE TypeOK'
<1> DEFINE bk == proc[p].backups[Len(proc[p].backups)]
<1>1. proc[p].pc = "rollback" /\ proc[p].backups # <<>> /\ GitSame
  BY RollbackIs
<1>2. bk \in Backups
  BY <1>1, ProcTyped, WithoutLast DEF Processes
<1>3. PICK next \in Processes :
         /\ Step(p, next) \/ Writing(p, next)
         /\ next.ops = proc[p].ops /\ next.i = proc[p].i /\ next.pc = "rollback"
  <2>1. {bk.file} \in SUBSET (Files \cup {ABSENT})
    BY <1>2 DEF Backups
  <2>2. /\ Undoing(p) \in Processes /\ Undoing(p).ops = proc[p].ops /\ Undoing(p).i = proc[p].i
        /\ Undoing(p).pc = "rollback"
    BY <1>1, UndoingIs
  <2>3. /\ Late(Undoing(p), {bk.file}) \in Processes /\ Late(Undoing(p), {bk.file}).pc = "rollback"
        /\ Late(Undoing(p), {bk.file}).ops = proc[p].ops /\ Late(Undoing(p), {bk.file}).i = proc[p].i
    BY <2>1, <2>2, LateIs DEF SamePlan
  <2> QED BY <2>2, <2>3, RollbackIs
<1>4. proc'[p] = next => Placed(p)'
  BY <1>1, <1>3, OpTyped DEF Placed, At
<1>5. files' \in Trees
  <2>1. CASE files' = files
    BY <2>1 DEF TypeOK
  <2>2. CASE files' = [files EXCEPT ![bk.file] = ABSENT]
    BY <2>2 DEF TypeOK, Trees
  <2>3. CASE bk.data # ABSENT /\ files' = [files EXCEPT ![bk.file] = bk.data]
    <3>1. bk.data \in Contents
      BY <1>2, <2>3 DEF Backups
    <3> QED BY <2>3, <3>1 DEF TypeOK, Trees
  <2> QED BY <2>1, <2>2, <2>3, RollbackIs
<1>6. WorldOK'
  BY <1>1, <1>5 DEF TypeOK, WorldOK, GitSame
<1> QED BY <1>3, <1>4, <1>6, TypesFrame

\* What follows the commit.
LEMMA FinishIs ==
    ASSUME NEW p, proc[p] \in Processes
    PROVE  /\ Finish(p, proc[p]) \in Processes
           /\ SamePlan(Finish(p, proc[p]), proc[p])
           /\ \/ Finish(p, proc[p]).pc = "reindex"
              \/ /\ Finish(p, proc[p]).pc = "done" /\ Finish(p, proc[p]).result = "ok"
                 /\ (proc[p].dry \/ p \in Commands)
<1>1. CASE proc[p].dry \/ (p \in Commands /\ op(p).op = "render")
  <2>1. Finish(p, proc[p]) = [proc[p] EXCEPT !.pc = "done", !.result = "ok"]
    BY <1>1 DEF Finish
  <2>2. Finish(p, proc[p]) \in Processes /\ SamePlan(Finish(p, proc[p]), proc[p])
    BY ZenonT(60), <2>1 DEF Processes, Pcs, Results, SamePlan
  <2>3. Finish(p, proc[p]).pc = "done" /\ Finish(p, proc[p]).result = "ok"
    BY <2>1 DEF Processes
  <2> QED BY <1>1, <2>2, <2>3
<1>2. CASE ~ (proc[p].dry \/ (p \in Commands /\ op(p).op = "render"))
  <2>1. Finish(p, proc[p]) = [proc[p] EXCEPT !.pc = "reindex"]
    BY <1>2 DEF Finish
  <2> QED BY <2>1 DEF Processes, Pcs, SamePlan
<1> QED BY <1>1, <1>2

\* What the last steps make of their process, and that they do not touch a file.
LEMMA EndIs ==
    ASSUME TypeOK, NEW p \in Procs, End(p), ~ rollback(p)
    PROVE  /\ proc[p].pc \notin {"idle", "done"} /\ files' = files /\ WorldOK'
           /\ \E next \in Processes :
                 /\ Step(p, next) \/ Writing(p, next)
                 /\ SamePlan(next, proc[p]) /\ next.pc \in {"done", "reindex"}
<1>1. proc[p] \in Processes
  BY ProcTyped
<1>2. \A r \in Results : /\ Ended(p, r) \in Processes /\ SamePlan(Ended(p, r), proc[p])
                         /\ Ended(p, r).pc = "done"
  BY <1>1, EndedIs
<1>3. CASE rollbackDone(p) \/ Kill(p)
  <2>1. Ended(p, "failed") \in Processes /\ Ended(p, "killed") \in Processes
    BY <1>2 DEF Results
  <2>2. PICK r \in {"failed", "killed"} : Step(p, Ended(p, r))
    BY <1>3 DEF rollbackDone, Kill
  <2>3. proc[p].pc \notin {"idle", "done"} /\ NothingWritten
    BY <1>3 DEF rollbackDone, Kill, At
  <2> QED BY <1>2, <2>2, <2>3, WorldRests DEF NothingWritten, Results
<1>4. CASE Commit(p)
  <2>1. /\ proc[p].pc = "commit" /\ CommitFiles(collectPaths(p)) /\ Writing(p, Finish(p, proc[p]))
        /\ UNCHANGED <<files, git, indexed, user>>
    BY <1>4 DEF Commit, At
  <2>2. staged' \in Trees /\ head' \in Trees
    BY <2>1 DEF CommitFiles, TypeOK, Trees
  <2> QED BY <1>1, <2>1, <2>2, FinishIs DEF TypeOK, WorldOK
<1>5. CASE CommitFails(p)
  <2>1. /\ proc[p].pc = "commit" /\ Writing(p, Ended(p, "uncommitted"))
        /\ UNCHANGED <<files, head, git, indexed, user>>
    BY <1>5 DEF CommitFails, At
  <2>2. staged' \in Trees
    BY <1>5 DEF CommitFails, TypeOK, Trees
  <2> QED BY <1>2, <2>1, <2>2 DEF TypeOK, WorldOK, Results
<1>6. CASE Reindex(p)
  <2>1. PICK failed \in SUBSET paths(p) : Step(p, Late(Ended(p, "ok"), failed))
    BY <1>6 DEF Reindex, collectPaths
  <2>2. proc[p].pc = "reindex" /\ UNCHANGED <<files, staged, head, git, user>> /\ indexed' \in Trees
    BY <1>6 DEF Reindex, At, TypeOK, Trees
  <2>3. /\ Ended(p, "ok") \in Processes /\ Ended(p, "ok").pc = "done" /\ SamePlan(Ended(p, "ok"), proc[p])
    BY <1>2 DEF Results
  <2>4. failed \in SUBSET (Files \cup {ABSENT})
    BY <1>1, PathsTyped
  <2>5. /\ Late(Ended(p, "ok"), failed) \in Processes /\ Late(Ended(p, "ok"), failed).pc = "done"
        /\ SamePlan(Late(Ended(p, "ok"), failed), proc[p])
    BY <2>3, <2>4, LateIs DEF SamePlan
  <2> QED BY <2>1, <2>2, <2>5 DEF TypeOK, WorldOK
<1> QED BY <1>3, <1>4, <1>5, <1>6 DEF End

LEMMA EndTyped == ASSUME TypeOK, NEW p \in Procs, End(p) PROVE TypeOK'
<1>1. CASE ~ rollback(p)
  <2>1. PICK next \in Processes : /\ Step(p, next) \/ Writing(p, next)
                                  /\ SamePlan(next, proc[p]) /\ next.pc \in {"done", "reindex"}
    BY <1>1, EndIs
  <2>2. proc[p].pc \notin {"idle", "done"} /\ WorldOK'
    BY <1>1, EndIs
  <2>3. proc'[p] = next => Placed(p)'
    BY <2>1, <2>2, PlacedEnd
  <2> QED BY <2>1, <2>2, <2>3, TypesFrame
<1> QED BY <1>1, RollbackTyped

LEMMA TypesKept == ASSUME TypeOK, [Next]_vars PROVE TypeOK'
<1>1. CASE User
  BY <1>1, UserTyped
<1>2. ASSUME NEW p \in Procs, Begin(p) \/ Operation(p) \/ End(p) PROVE TypeOK'
  BY <1>2, BeginTyped, OperationTyped, EndTyped
<1>3. CASE UNCHANGED vars
  BY <1>3 DEF vars, TypeOK, Placed, At, op
<1> QED BY <1>1, <1>2, <1>3 DEF Next

\* The state of every process is one its code can be in, and what the files, the
\* two trees of git and the index hold is content or nothing.
THEOREM PlanTypeCorrect == Spec => []TypeOK
BY TypesAtStart, TypesKept, PTL DEF Spec

-----------------------------------------------------------------------------
(* What holds on the way to the properties *)

\* An executor that writes, nobody else having written since it started.
Alone(p) == p \in Executors /\ proc[p].quiet /\ ~ proc[p].dry

\* What is about to be written comes from a note that was read, by an operation
\* that accepted it.
Drawn(p) ==
    proc[p].pc \in {"policy", "verify", "rename"} =>
        /\ proc[p].new = Mutated(op(p), proc[p].raw) /\ proc[p].raw.kind # "broken"
        /\ op(p).op = "render" => Renders(proc[p].raw)

\* What the policy check and the comparison before the rename found, while it is
\* still so.
Checked(p) ==
    proc[p].pc \in {"verify", "rename"} /\ proc[p].calm =>
        /\ git.repo = "root" /\ git.override["dirty_target"] = NotSet /\ staged[path(p)] # ABSENT
           => files[path(p)] = head[path(p)]
        /\ At(p, "rename") => files[path(p)] = proc[p].raw

\* A plan that failed has undone what it backed up.
Undone(p) == p \in Executors /\ At(p, "done") /\ proc[p].result = "failed" => proc[p].backups = <<>>

Held(p, f) == {j \in 1 .. Len(proc[p].backups) : proc[p].backups[j].file = f}

\* Restored from the last to the first, the backups give back what the files were:
\* a file without one is as it was, and the first one of a file is what it was,
\* but for those an error left behind.
Restorable(p) ==
    Alone(p) =>
        /\ \A j \in 1 .. Len(proc[p].backups) :
              LET bk == proc[p].backups[j] IN bk.file \in paths(p) /\ (bk.created <=> bk.data = ABSENT)
        /\ \A f \in Files :
              /\ Held(p, f) = {} => files[f] = proc[p].start[f] \/ f \in proc[p].adrift
              /\ \A j \in Held(p, f) :
                    (\A k \in Held(p, f) : j <= k) =>
                        proc[p].backups[j].data = proc[p].start[f] \/ f \in proc[p].adrift

\* The backup of the operation that runs is the file as it is.
Saved(p) ==
    Alone(p) =>
        /\ proc[p].pc \in {"resolve", "read", "policy", "verify", "rename"} =>
              proc[p].bk = [file |-> path(p), data |-> files[path(p)], created |-> FALSE]
        /\ proc[p].pc \in {"policy", "verify", "rename"} => files[path(p)] # ABSENT
        /\ proc[p].pc \in {"stat", "create"} =>
              proc[p].bk = [file |-> path(p), data |-> ABSENT, created |-> TRUE]
        /\ At(p, "create") => files[path(p)] = ABSENT

\* How many operations are done.
Applied(p) == IF proc[p].pc \in {"commit", "reindex"} THEN Len(proc[p].ops) ELSE proc[p].i - 1

\* What was written can be read again.
Written(p) ==
    Alone(p) /\ proc[p].pc \notin {"idle", "rollback", "done"} =>
        \A j \in 1 .. Applied(p) :
            LET c == files[proc[p].ops[j].file] IN c # ABSENT /\ c.kind # "broken"

\* What the two trees of git have from the commit on, and the index at the end.
Committed(p) ==
    At(p, "reindex") \/ (At(p, "done") /\ proc[p].result \in {"none", "ok"}) =>
        (proc[p].commit /\ proc[p].quiet => \A f \in paths(p) : head[f] = files[f] /\ staged[f] = files[f])

Followed(p) ==
    p \in Executors /\ At(p, "done") /\ proc[p].result \in {"ok", "failed"} /\ proc[p].quiet /\ ~ proc[p].dry =>
        \A f \in Files \ proc[p].adrift : indexed[f] = files[f] \/ files[f] = proc[p].start[f]

Sound(p) ==
    /\ Drawn(p) /\ Checked(p) /\ Undone(p) /\ Restorable(p) /\ Saved(p) /\ Written(p)
    /\ Committed(p) /\ Followed(p)

PlanSound == TypeOK /\ \A p \in Procs : Sound(p)

-----------------------------------------------------------------------------
(* The other processes *)

LEMMA OthersSound ==
    ASSUME TypeOK, NEW q \in Procs, Sound(q), proc'[q] = Disturbed(proc[q])
    PROVE  Sound(q)'
<1>1. /\ SamePlan(proc'[q], proc[q]) /\ proc'[q].pc = proc[q].pc /\ proc'[q].raw = proc[q].raw
      /\ proc'[q].new = proc[q].new /\ proc'[q].result = proc[q].result
      /\ ~ proc'[q].quiet /\ ~ proc'[q].calm
  BY ProcTyped, DisturbedIs
<1>2. op(q)' = op(q)
  BY <1>1 DEF op, SamePlan
<1>3. Drawn(q)' /\ Undone(q)'
  BY <1>1, <1>2 DEF Sound, Drawn, Undone, At, SamePlan
<1>4. Checked(q)' /\ Restorable(q)' /\ Saved(q)' /\ Written(q)' /\ Committed(q)' /\ Followed(q)'
  BY <1>1 DEF Checked, Restorable, Saved, Written, Committed, Followed, Alone
<1> QED BY <1>3, <1>4 DEF Sound

LEMMA RestSound ==
    ASSUME TypeOK, NEW q \in Procs, Sound(q), proc'[q] = proc[q], UNCHANGED <<files, staged, head, git>>,
           \A f \in Files : indexed'[f] \in {indexed[f], files[f]}
    PROVE  Sound(q)'
<1>1. op(q)' = op(q) /\ path(q)' = path(q) /\ paths(q)' = paths(q)
  BY DEF op, path, paths
<1>2. Drawn(q)' /\ Checked(q)' /\ Undone(q)' /\ Saved(q)'
  BY <1>1 DEF Sound, Drawn, Checked, Undone, Saved, Alone, At
<1>3. \A f \in Files : Held(q, f)' = Held(q, f)
  BY DEF Held
<1>4. Restorable(q)'
  BY <1>1, <1>3 DEF Sound, Restorable, Alone
<1>5. Written(q)' /\ Committed(q)' /\ Followed(q)'
  BY <1>1 DEF Sound, Written, Committed, Followed, Alone, Applied, At
<1> QED BY <1>2, <1>4, <1>5 DEF Sound

LEMMA SoundFrame ==
    ASSUME PlanSound, TypeOK', NEW p \in Procs, NEW next \in Processes, Sound(p)',
           \/ Writing(p, next)
           \/ /\ Step(p, next) /\ UNCHANGED <<files, staged, head, git>>
              /\ \A f \in Files : indexed'[f] \in {indexed[f], files[f]}
    PROVE  PlanSound'
<1>1. ASSUME NEW q \in Procs \ {p} PROVE Sound(q)'
  <2>1. TypeOK /\ Sound(q)
    BY DEF PlanSound
  <2>2. CASE Writing(p, next)
    BY <2>1, <2>2, WritingFrame, OthersSound
  <2>3. CASE /\ Step(p, next) /\ UNCHANGED <<files, staged, head, git>>
             /\ \A f \in Files : indexed'[f] \in {indexed[f], files[f]}
    BY <2>1, <2>3, StepFrame, RestSound
  <2> QED BY <2>2, <2>3
<1> QED BY <1>1 DEF PlanSound

LEMMA UserSound == ASSUME PlanSound, User, TypeOK' PROVE PlanSound'
<1>1. Writing("user", Idle) /\ TypeOK
  BY DEF User, GitCommit, Save, Delete, GitAdd, ByUser, PlanSound
<1>2. Idle \in Processes /\ "user" \notin Procs
  BY <1>1, IdleTyped, PlanAssumption DEF TypeOK, PlanAssumption
<1>3. \A q \in Procs : Sound(q) /\ proc'[q] = Disturbed(proc[q])
  BY <1>1, <1>2, WritingFrame DEF PlanSound
<1> QED BY <1>1, <1>3, OthersSound DEF PlanSound

-----------------------------------------------------------------------------
(* The process itself *)

LEMMA SamePaths ==
    ASSUME NEW p, SamePlan(proc'[p], proc[p])
    PROVE  /\ op(p)' = op(p) /\ path(p)' = path(p) /\ paths(p)' = paths(p)
           /\ \A f : Held(p, f)' = Held(p, f)
BY DEF SamePlan, op, path, paths, Held

LEMMA RestorableKept ==
    ASSUME NEW p, Restorable(p), SamePlan(proc'[p], proc[p]), proc'[p].quiet => proc[p].quiet,
           proc[p].adrift \subseteq proc'[p].adrift, files' = files
    PROVE  Restorable(p)'
BY SamePaths DEF Restorable, Alone, SamePlan

\* Backups that are all undone have given back every file.
LEMMA AllUndone ==
    ASSUME NEW p, Restorable(p), Alone(p), proc[p].backups = <<>>, NEW f \in Files
    PROVE  files[f] = proc[p].start[f] \/ f \in proc[p].adrift
<1>1. Held(p, f) = {}
  BY DEF Held
<1> QED BY <1>1 DEF Restorable

\* A process that ends without success, or begins to roll back.
LEMMA EndSound ==
    ASSUME TypeOK, NEW p \in Procs, Sound(p), SamePlan(proc'[p], proc[p]), proc'[p].quiet => proc[p].quiet,
           proc[p].adrift \subseteq proc'[p].adrift, files' = files, proc'[p].pc \in {"rollback", "done"},
           proc'[p].pc = "done" =>
              /\ proc'[p].result \notin {"none", "ok"}
              /\ p \in Executors /\ proc'[p].result = "failed" => proc[p].backups = <<>>
    PROVE  Sound(p)'
<1>1. Restorable(p)'
  BY RestorableKept DEF Sound
<1>2. Drawn(p)' /\ Checked(p)' /\ Saved(p)' /\ Written(p)' /\ Committed(p)'
  BY DEF Drawn, Checked, Saved, Written, Committed, At
<1>3. Undone(p)'
  BY DEF Undone, At, SamePlan
<1>4. Followed(p)'
  <2>1. ASSUME p \in Executors, proc'[p].pc = "done", proc'[p].result = "failed", proc'[p].quiet, ~ proc'[p].dry,
               NEW f \in Files
        PROVE  files'[f] = proc'[p].start[f] \/ f \in proc'[p].adrift
    <3>1. Alone(p) /\ Restorable(p) /\ proc[p].backups = <<>>
      BY <2>1 DEF Sound, Alone, SamePlan
    <3> QED BY <3>1, AllUndone DEF SamePlan
  <2> QED BY <2>1 DEF Followed, At
<1> QED BY <1>1, <1>2, <1>3, <1>4 DEF Sound

LEMMA FailedSound ==
    ASSUME TypeOK, NEW p \in Procs, Sound(p), files' = files, proc'[p] = Failed(p)
    PROVE  Sound(p)'
<1>1. /\ SamePlan(proc'[p], proc[p]) /\ proc'[p].quiet = proc[p].quiet /\ proc'[p].adrift = proc[p].adrift
      /\ p \in Executors => proc'[p].pc = "rollback"
      /\ p \notin Executors => proc'[p].pc = "done" /\ proc'[p].result = "failed"
  BY ProcTyped, FailedIs
<1> QED BY <1>1, EndSound

LEMMA EndedSound ==
    ASSUME TypeOK, NEW p \in Procs, Sound(p), files' = files, NEW r \in Results, proc'[p] = Ended(p, r),
           r \notin {"none", "ok"}, p \in Executors /\ r = "failed" => proc[p].backups = <<>>
    PROVE  Sound(p)'
<1>1. /\ SamePlan(proc'[p], proc[p]) /\ proc'[p].quiet = proc[p].quiet /\ proc'[p].adrift = proc[p].adrift
      /\ proc'[p].pc = "done" /\ proc'[p].result = r
  BY ProcTyped, EndedIs
<1> QED BY <1>1, EndSound

\* A dry run has written nothing, and is asked for nothing.
LEMMA DryDoneSound ==
    ASSUME TypeOK, NEW p \in Procs, proc[p].pc \notin {"idle", "done"}, proc[p].dry, proc'[p] = Done(p)
    PROVE  Sound(p)'
<1>1. /\ proc[p].i \in 1 .. Len(proc[p].ops) /\ proc[p] \in Processes
  BY OpTyped, ProcTyped
<1>2. /\ proc'[p].dry /\ proc'[p].pc \in {"backup", "commit", "reindex", "done"}
      /\ proc'[p].pc = "done" => proc'[p].result = "ok"
      /\ proc'[p].pc \in {"reindex", "done"} => ~ proc'[p].commit
  BY <1>1, DoneIs
<1> QED BY <1>2 DEF Sound, Drawn, Checked, Undone, Restorable, Saved, Written, Committed, Followed, Alone, At

\* A process whose write was the last step of its operation.
LEMMA WrittenSound ==
    ASSUME TypeOK, NEW p \in Procs, Sound(p), proc[p].pc \in {"rename", "create"}, NEW c \in Contents,
           c.kind # "broken", files' = [files EXCEPT ![path(p)] = c], proc'[p] = Done(p)
    PROVE  Sound(p)'
<1> DEFINE m == proc[p]
           n == Len(m.backups)
<1>1. /\ m \in Processes /\ m.i \in 1 .. Len(m.ops) /\ Len(m.ops) \in Nat
      /\ path(p) \in Files /\ path(p) \in paths(p) /\ n \in Nat
  BY OpTyped, ProcTyped, LenProperties DEF Processes
<1>2. /\ proc'[p].ops = m.ops /\ proc'[p].dry = m.dry /\ proc'[p].start = m.start
      /\ proc'[p].quiet = m.quiet /\ proc'[p].adrift = m.adrift
      /\ p \in Executors => proc'[p].backups = Append(m.backups, m.bk)
      /\ \/ proc'[p].pc = "backup" /\ proc'[p].i = m.i + 1
         \/ /\ proc'[p].pc \in {"commit", "reindex"} /\ m.i = Len(m.ops)
            /\ proc'[p].pc = "reindex" => ~ proc'[p].commit
         \/ /\ proc'[p].pc = "done" /\ proc'[p].result = "ok" /\ ~ proc'[p].commit
            /\ m.dry \/ p \in Commands
  BY ZenonT(60), <1>1, DoneIs
<1>3. Drawn(p)' /\ Checked(p)' /\ Undone(p)' /\ Saved(p)' /\ Committed(p)'
  BY <1>2 DEF Drawn, Checked, Undone, Saved, Committed, At
<1>4. Followed(p)'
  <2>1. p \in Executors => p \notin Commands
    BY PlanAssumption DEF PlanAssumption
  <2>2. p \in Executors /\ proc'[p].pc = "done" => proc'[p].dry
    BY <1>2, <2>1
  <2> QED BY <2>2 DEF Followed, At
<1>5. paths(p)' = paths(p)
  BY <1>2 DEF paths
<1>6. Written(p)'
  <2>1. ASSUME Alone(p), proc'[p].pc \notin {"rollback", "done"}, NEW j \in 1 .. Applied(p)'
        PROVE  files'[m.ops[j].file] # ABSENT /\ files'[m.ops[j].file].kind # "broken"
    <3>1. j \in 1 .. m.i
      BY <1>1, <1>2, <2>1 DEF Applied
    <3>2. CASE j = m.i
      <4>1. m.ops[j].file = path(p)
        BY <3>2 DEF path, op
      <4>2. files'[path(p)] = c /\ c # ABSENT
        BY <1>1, PlanAssumption DEF TypeOK, Trees, PlanAssumption
      <4> QED BY <4>1, <4>2
    <3>3. CASE j # m.i
      <4>1. j \in 1 .. Applied(p)
        BY <1>1, <3>1, <3>3 DEF Applied
      <4>2. files[m.ops[j].file] # ABSENT /\ files[m.ops[j].file].kind # "broken"
        BY <2>1, <4>1 DEF Sound, Written
      <4>3. m.ops[j].file \in Files
        <5>1. m.ops[j] \in Operations
          BY <1>1, <3>1, ElementOfSeq DEF Processes
        <5> QED BY <5>1 DEF Operations
      <4>4. files'[m.ops[j].file] \in {c, files[m.ops[j].file]}
        BY <4>3 DEF TypeOK, Trees
      <4> QED BY <4>2, <4>4, PlanAssumption DEF PlanAssumption
    <3> QED BY <3>2, <3>3
  <2>2. Alone(p)' => Alone(p)
    BY <1>2 DEF Alone
  <2>3. proc'[p].ops = m.ops
    BY <1>2
  <2> QED BY <2>1, <2>2, <2>3 DEF Written
<1>7. Restorable(p)'
  <2> SUFFICES ASSUME Alone(p)' PROVE Restorable(p)'
    BY DEF Restorable
  <2>1. Alone(p) /\ p \in Executors
    BY <1>2 DEF Alone
  <2>2. /\ m.bk.file = path(p) /\ m.bk.data = files[path(p)]
        /\ (m.bk.created <=> m.bk.data = ABSENT)
    BY <2>1 DEF Sound, Saved, At
  <2> DEFINE bs == proc'[p].backups
  <2>3. m.backups \in Seq(Backups) /\ m.bk \in Backups /\ bs = Append(m.backups, m.bk)
    BY <1>1, <1>2, <2>1 DEF Processes
  <2>4. Len(bs) = n + 1 /\ bs[n + 1] = m.bk /\ \A j \in 1 .. n : bs[j] = m.backups[j]
    BY <2>3, AppendProperties
  <2> HIDE DEF bs
  <2>5. /\ \A j \in 1 .. n : LET bk == m.backups[j]
                             IN  bk.file \in paths(p) /\ (bk.created <=> bk.data = ABSENT)
        /\ \A f \in Files :
              /\ Held(p, f) = {} => files[f] = m.start[f] \/ f \in m.adrift
              /\ \A j \in Held(p, f) : (\A k \in Held(p, f) : j <= k) =>
                                                m.backups[j].data = m.start[f] \/ f \in m.adrift
    BY <2>1 DEF Sound, Restorable
  <2>6. ASSUME NEW j \in 1 .. Len(bs)
        PROVE  bs[j].file \in paths(p) /\ (bs[j].created <=> bs[j].data = ABSENT)
    <3>1. CASE j = n + 1
      BY <1>1, <2>2, <2>4, <3>1
    <3>2. CASE j # n + 1
      <4>1. j \in 1 .. n
        BY <1>1, <2>4, <3>2
      <4> QED BY <2>4, <2>5, <4>1
    <3> QED BY <3>1, <3>2
  <2>7. ASSUME NEW f \in Files
        PROVE  /\ Held(p, f)' = {} => files'[f] = m.start[f] \/ f \in m.adrift
               /\ \A j \in Held(p, f)' : (\A k \in Held(p, f)' : j <= k) => bs[j].data = m.start[f] \/ f \in m.adrift
    <3>1. Held(p, f)' = {j \in 1 .. n + 1 : bs[j].file = f}
      BY <2>4 DEF Held, bs
    <3>2. CASE f = path(p)
      <4>1. Held(p, f)' = Held(p, f) \cup {n + 1}
        <5>1. ASSUME NEW j PROVE j \in Held(p, f)' <=> j \in Held(p, f) \/ j = n + 1
          <6>1. j \in 1 .. n + 1 <=> j \in 1 .. n \/ j = n + 1
            BY <1>1
          <6>2. j \in 1 .. n => bs[j] = m.backups[j]
            BY <2>4
          <6>3. bs[n + 1].file = f
            BY <2>2, <2>4, <3>2
          <6> QED BY <3>1, <6>1, <6>2, <6>3 DEF Held
        <5> QED BY <5>1
      <4>2. ASSUME NEW j \in Held(p, f)', \A k \in Held(p, f)' : j <= k
            PROVE bs[j].data = m.start[f] \/ f \in m.adrift
        <5>1. CASE j \in Held(p, f)
          <6>1. j \in 1 .. n
            BY <5>1 DEF Held
          <6> QED BY <2>4, <2>5, <4>1, <4>2, <5>1, <6>1
        <5>2. CASE j \notin Held(p, f)
          <6>1. j = n + 1
            BY <4>1, <4>2, <5>2
          <6>2. Held(p, f) = {}
            <7>1. \A k \in Held(p, f) : k \in 1 .. n /\ n + 1 <= k
              BY <4>1, <4>2, <6>1 DEF Held
            <7> QED BY <1>1, <7>1
          <6> QED BY <2>2, <2>4, <2>5, <3>2, <6>1, <6>2
        <5> QED BY <5>1, <5>2
      <4> QED BY <4>1, <4>2
    <3>3. CASE f # path(p)
      <4>1. Held(p, f)' = Held(p, f)
        <5>1. ASSUME NEW j PROVE j \in Held(p, f)' <=> j \in Held(p, f)
          <6>1. j \in 1 .. n + 1 <=> j \in 1 .. n \/ j = n + 1
            BY <1>1
          <6>2. j \in 1 .. n => bs[j] = m.backups[j]
            BY <2>4
          <6>3. bs[n + 1].file # f
            BY <2>2, <2>4, <3>3
          <6> QED BY <3>1, <6>1, <6>2, <6>3 DEF Held
        <5> QED BY <5>1
      <4>2. files'[f] = files[f]
        BY <3>3 DEF TypeOK, Trees
      <4>3. \A j \in Held(p, f) : bs[j] = m.backups[j]
        BY <2>4 DEF Held
      <4> QED BY <2>5, <4>1, <4>2, <4>3
    <3> QED BY <3>2, <3>3
  <2> QED BY <1>2, <1>5, <2>6, <2>7 DEF Restorable, bs
<1> QED BY <1>3, <1>4, <1>6, <1>7 DEF Sound

-----------------------------------------------------------------------------
(* The steps of an operation *)

\* A step that leaves the process with its plan, its files and its backups, and
\* says anew what the operation has at hand.
LEMMA MovedSound ==
    ASSUME TypeOK, NEW p \in Procs, Sound(p), proc[p].pc \notin {"idle", "rollback", "commit", "reindex", "done"},
           files' = files, proc'[p].pc \notin {"rollback", "commit", "reindex", "done"},
           /\ proc'[p].ops = proc[p].ops /\ proc'[p].i = proc[p].i /\ proc'[p].dry = proc[p].dry
           /\ proc'[p].backups = proc[p].backups /\ proc'[p].start = proc[p].start
           /\ proc'[p].adrift = proc[p].adrift,
           proc'[p].quiet => proc[p].quiet,
           Drawn(p)', Checked(p)', Saved(p)'
    PROVE  Sound(p)'
<1>1. paths(p)' = paths(p) /\ \A f : Held(p, f)' = Held(p, f)
  BY DEF paths, Held
<1>2. Restorable(p)'
  BY <1>1 DEF Sound, Restorable, Alone
<1>3. Written(p)'
  BY DEF Sound, Written, Applied, Alone
<1>4. Undone(p)' /\ Committed(p)' /\ Followed(p)'
  BY DEF Undone, Committed, Followed, At
<1> QED BY <1>2, <1>3, <1>4 DEF Sound

LEMMA BackupSound == ASSUME TypeOK, NEW p \in Procs, Sound(p), Backup(p) PROVE Sound(p)'
<1> DEFINE m == proc[p]
           next == [m EXCEPT !.bk = backupFile(p),
                             !.pc = CASE op(p).op = "render" -> "read"
                                      [] op(p).op \in {"set", "unset"} -> "resolve"
                                      [] op(p).op = "create" -> "stat"]
<1>1. m.pc = "backup" /\ Step(p, next) /\ files' = files
  BY DEF Backup, At, NothingWritten
<1>2. m \in Processes /\ op(p) \in Operations /\ path(p) \in Files
  BY <1>1, ProcTyped, OpTyped
<1>3. backupFile(p) \in Backups
  BY <1>2 DEF backupFile, Backups, TypeOK, Trees
<1>4. next \in Processes
  BY <1>2, <1>3 DEF Processes, Pcs, Operations
<1>5. /\ next.bk = backupFile(p)
      /\ next.ops = m.ops /\ next.i = m.i /\ next.dry = m.dry /\ next.backups = m.backups
      /\ next.start = m.start /\ next.quiet = m.quiet /\ next.adrift = m.adrift
  BY <1>2 DEF Processes
<1>6. next.pc = CASE op(p).op = "render" -> "read"
                  [] op(p).op \in {"set", "unset"} -> "resolve"
                  [] op(p).op = "create" -> "stat"
  BY <1>2 DEF Processes
<1> HIDE DEF next
<1>7. proc'[p] = next
  BY <1>1, <1>4, StepFrame
<1>8. /\ next.pc \in {"read", "resolve", "stat"}
      /\ next.pc = "stat" <=> op(p).op = "create"
  BY <1>2, <1>6 DEF Operations
<1>9. Drawn(p)' /\ Checked(p)'
  BY <1>7, <1>8 DEF Drawn, Checked
<1>10. path(p)' = path(p)
  BY <1>5, <1>7 DEF path, op
<1>11. Saved(p)'
  BY <1>1, <1>5, <1>7, <1>8, <1>10 DEF Saved, At, backupFile
<1> QED BY <1>1, <1>5, <1>7, <1>8, <1>9, <1>11, MovedSound

LEMMA ResolveSound == ASSUME TypeOK, NEW p \in Procs, Sound(p), resolveTarget(p) PROVE Sound(p)'
<1> DEFINE m == proc[p]
           c == files[path(p)]
           next == [m EXCEPT !.pc = "read", !.info = [kind |-> c.kind, keys |-> KeysOf(c)]]
<1>1. m.pc = "resolve" /\ files' = files
  BY DEF resolveTarget, At, NothingWritten
<1>2. m \in Processes /\ path(p) \in Files
  BY <1>1, ProcTyped, OpTyped
<1>3. Step(p, Failed(p)) \/ (Step(p, next) /\ c # ABSENT)
  BY Zenon DEF resolveTarget
<1>4. CASE Step(p, Failed(p))
  BY <1>1, <1>2, <1>4, FailedIs, StepFrame, FailedSound
<1>5. CASE Step(p, next) /\ c # ABSENT
  <2>1. [kind |-> c.kind, keys |-> KeysOf(c)] \in [kind : Kinds, keys : SUBSET Keys]
    BY <1>2, <1>5 DEF TypeOK, Trees, Contents, KeysOf
  <2>2. next \in Processes /\ next.pc = "read" /\ SamePlan(next, m) /\ next.quiet = m.quiet /\ next.adrift = m.adrift
    BY <1>2, <2>1 DEF Processes, Pcs, SamePlan
  <2> HIDE DEF next
  <2>3. proc'[p] = next
    BY <1>5, <2>2, StepFrame
  <2>4. Drawn(p)' /\ Checked(p)'
    BY <2>2, <2>3 DEF Drawn, Checked
  <2>5. Saved(p)'
    BY <1>1, <2>2, <2>3, SamePaths DEF Sound, Saved, Alone, At, SamePlan
  <2> QED BY <1>1, <2>2, <2>3, <2>4, <2>5, MovedSound DEF SamePlan
<1> QED BY <1>3, <1>4, <1>5

LEMMA ReadSound == ASSUME TypeOK, NEW p \in Procs, Sound(p), ReadFile(p) PROVE Sound(p)'
<1> DEFINE m == proc[p]
           c == files[path(p)]
           next == [m EXCEPT !.pc = "policy", !.raw = c, !.new = Mutated(op(p), c)]
           accepted == /\ c # ABSENT
                       /\ IF op(p).op = "render" THEN Renders(c)
                          ELSE c.kind # "broken" /\ Validates(m.info, op(p))
<1>1. m.pc = "read" /\ files' = files
  BY DEF ReadFile, At, NothingWritten
<1>2. m \in Processes /\ op(p) \in Operations /\ op(p).op # "create" /\ path(p) \in Files
  BY <1>1, ProcTyped, OpTyped DEF Placed
<1>3. \/ Step(p, Failed(p)) \/ (m.dry /\ Step(p, Done(p))) 
      \/ (accepted /\ Step(p, next))
  BY Zenon DEF ReadFile
<1>4. CASE Step(p, Failed(p))
  BY <1>1, <1>2, <1>4, FailedIs, StepFrame, FailedSound
<1>5. CASE m.dry /\ Step(p, Done(p))
  <2>1. Done(p) \in Processes
    BY <1>1, DoneIs, OpTyped, ProcTyped
  <2> QED BY <1>1, <1>5, <2>1, StepFrame, DryDoneSound
<1>6. CASE accepted /\ Step(p, next)
  <2>1. c \in Contents /\ Mutated(op(p), c) \in Contents
    BY <1>2, <1>6, MutatedTyped DEF TypeOK, Trees
  <2>2. next \in Processes /\ next.pc = "policy" /\ SamePlan(next, m) /\ next.quiet = m.quiet /\ next.adrift = m.adrift
    BY <1>2, <2>1 DEF Processes, Pcs, SamePlan
  <2>3. next.raw = c /\ next.new = Mutated(op(p), c)
    BY <1>2, <2>1 DEF Processes
  <2> HIDE DEF next
  <2>4. proc'[p] = next
    BY <1>6, <2>2, StepFrame
  <2>5. op(p)' = op(p)
    BY <2>2, <2>4, SamePaths
  <2>6. c.kind # "broken" /\ (op(p).op = "render" => Renders(c))
    BY <1>6 DEF Renders
  <2>7. Drawn(p)'
    BY <2>3, <2>4, <2>5, <2>6 DEF Drawn
  <2>8. Checked(p)'
    BY <2>2, <2>4 DEF Checked
  <2>9. Saved(p)'
    BY <1>1, <1>6, <2>2, <2>4, SamePaths DEF Sound, Saved, Alone, At, SamePlan
  <2> QED BY <1>1, <2>2, <2>4, <2>7, <2>8, <2>9, MovedSound DEF SamePlan
<1> QED BY <1>3, <1>4, <1>5, <1>6

\* What a policy that does not refuse has found, by default.
LEMMA NotRefused ==
    ASSUME NEW f \in Files, NEW commit, ~ Refused(f, commit), git.repo = "root",
           git.override["dirty_target"] = NotSet, staged[f] # ABSENT
    PROVE  files[f] = head[f]
<1>1. "dirty_target" \in Rules
  BY DEF Rules
<1>2. Decision("dirty_target", commit) = Refuse
  BY DEF Decision, Default
<1>3. ~ Triggered("dirty_target", f)
  BY <1>1, <1>2 DEF Refused
<1> QED BY <1>3 DEF Triggered, DirtyTarget, IsStaged, IsUnstaged

LEMMA PolicySound == ASSUME TypeOK, NEW p \in Procs, Sound(p), mutatorCheckGitPolicy(p) PROVE Sound(p)'
<1> DEFINE m == proc[p]
           next == [m EXCEPT !.pc = "verify", !.calm = TRUE]
           commit == p \in Commands /\ m.commit
<1>1. m.pc = "policy" /\ NothingWritten
  BY DEF mutatorCheckGitPolicy, At
<1>2. m \in Processes /\ path(p) \in Files
  BY <1>1, ProcTyped, OpTyped
<1>3. Step(p, Failed(p)) \/ (~ Refused(path(p), commit) /\ Step(p, next))
  BY Zenon DEF mutatorCheckGitPolicy
<1>4. CASE Step(p, Failed(p))
  BY <1>1, <1>2, <1>4, FailedIs, StepFrame, FailedSound DEF NothingWritten
<1>5. CASE ~ Refused(path(p), commit) /\ Step(p, next)
  <2>1. /\ next \in Processes /\ next.pc = "verify" /\ SamePlan(next, m) /\ next.quiet = m.quiet /\ next.adrift = m.adrift
        /\ next.raw = m.raw /\ next.new = m.new
    BY <1>2 DEF Processes, Pcs, SamePlan
  <2> HIDE DEF next
  <2>2. proc'[p] = next
    BY <1>5, <2>1, StepFrame
  <2>3. Drawn(p)'
    BY <1>1, <2>1, <2>2, SamePaths DEF Sound, Drawn
  <2>4. Checked(p)'
    <3>1. path(p)' = path(p)
      BY <2>1, <2>2, SamePaths
    <3> HIDE DEF commit
    <3> QED BY <1>1, <1>2, <1>5, <2>1, <2>2, <3>1, NotRefused DEF Checked, At, NothingWritten
  <2>5. Saved(p)'
    BY <1>1, <2>1, <2>2, SamePaths DEF Sound, Saved, Alone, At, SamePlan, NothingWritten
  <2> QED BY <1>1, <2>1, <2>2, <2>3, <2>4, <2>5, MovedSound DEF SamePlan, NothingWritten
<1> QED BY <1>3, <1>4, <1>5

LEMMA VerifySound == ASSUME TypeOK, NEW p \in Procs, Sound(p), AtomicWriteVerify(p) PROVE Sound(p)'
<1> DEFINE m == proc[p]
           next == [m EXCEPT !.pc = "rename"]
<1>1. m.pc = "verify" /\ NothingWritten
  BY DEF AtomicWriteVerify, At
<1>2. m \in Processes
  BY ProcTyped
<1>3. Step(p, Failed(p)) \/ (files[path(p)] = m.raw /\ Step(p, next))
  BY Zenon DEF AtomicWriteVerify, Goto
<1>4. CASE Step(p, Failed(p))
  BY <1>1, <1>2, <1>4, FailedIs, StepFrame, FailedSound DEF NothingWritten
<1>5. CASE files[path(p)] = m.raw /\ Step(p, next)
  <2>1. /\ next \in Processes /\ next.pc = "rename" /\ SamePlan(next, m) /\ SameNote(next, m)
        /\ next.quiet = m.quiet /\ next.adrift = m.adrift
    <3>1. "rename" \in Pcs
      BY DEF Pcs
    <3> QED BY <1>2, <3>1, GoneIs, Zenon
  <2> HIDE DEF next
  <2>2. proc'[p] = next
    BY <1>5, <2>1, StepFrame
  <2>3. Drawn(p)'
    BY <1>1, <2>1, <2>2, SamePaths DEF Sound, Drawn, SameNote
  <2>4. Checked(p)'
    BY <1>1, <1>5, <2>1, <2>2, SamePaths DEF Sound, Checked, At, SameNote, NothingWritten
  <2>5. Saved(p)'
    BY <1>1, <2>1, <2>2, SamePaths DEF Sound, Saved, Alone, At, SamePlan, NothingWritten
  <2> QED BY <1>1, <2>1, <2>2, <2>3, <2>4, <2>5, MovedSound DEF SamePlan, NothingWritten
<1> QED BY <1>3, <1>4, <1>5

LEMMA StatSound == ASSUME TypeOK, NEW p \in Procs, Sound(p), CreateNoteStat(p) PROVE Sound(p)'
<1> DEFINE m == proc[p]
           next == [m EXCEPT !.pc = "create"]
<1>1. m.pc = "stat" /\ NothingWritten
  BY DEF CreateNoteStat, At
<1>2. m \in Processes
  BY ProcTyped
<1>3. \/ m.dry /\ Step(p, Done(p))
      \/ Step(p, Failed(p))
      \/ files[path(p)] = ABSENT /\ Step(p, next)
  BY Zenon DEF CreateNoteStat
<1>4. CASE Step(p, Failed(p))
  BY <1>1, <1>2, <1>4, FailedIs, StepFrame, FailedSound DEF NothingWritten
<1>5. CASE m.dry /\ Step(p, Done(p))
  <2>1. Done(p) \in Processes
    BY <1>1, DoneIs, OpTyped, ProcTyped
  <2> QED BY <1>1, <1>5, <2>1, StepFrame, DryDoneSound
<1>6. CASE files[path(p)] = ABSENT /\ Step(p, next)
  <2>1. next \in Processes /\ next.pc = "create" /\ SamePlan(next, m) /\ next.quiet = m.quiet /\ next.adrift = m.adrift
    <3>1. "create" \in Pcs
      BY DEF Pcs
    <3> QED BY <1>2, <3>1, GoneIs, Zenon
  <2> HIDE DEF next
  <2>2. proc'[p] = next
    BY <1>6, <2>1, StepFrame
  <2>3. Drawn(p)' /\ Checked(p)'
    BY <2>1, <2>2 DEF Drawn, Checked
  <2>4. Saved(p)'
    BY <1>1, <1>6, <2>1, <2>2, SamePaths DEF Sound, Saved, Alone, At, SamePlan, NothingWritten
  <2> QED BY <1>1, <2>1, <2>2, <2>3, <2>4, MovedSound DEF SamePlan, NothingWritten
<1> QED BY <1>3, <1>4, <1>5, <1>6

\* A write, done or failed late.
LEMMA WriteSound ==
    ASSUME TypeOK, NEW p \in Procs, Sound(p), proc[p].pc \in {"rename", "create"}, NEW c \in Contents,
           c.kind # "broken", files' = [files EXCEPT ![path(p)] = c],
           Writing(p, Done(p)) \/ Writing(p, Late(Failed(p), {path(p)}))
    PROVE  Sound(p)'
<1> DEFINE m == proc[p]
           next == Late(Failed(p), {path(p)})
<1>1. /\ m \in Processes /\ path(p) \in Files /\ Done(p) \in Processes
      /\ Failed(p) \in Processes /\ next \in Processes
  BY ProcTyped, OpTyped, DoneIs, FailedIs, LateIs
<1>2. CASE Writing(p, Done(p))
  BY <1>1, <1>2, WritingFrame, WrittenSound
<1>3. CASE Writing(p, next)
  <2>1. /\ SamePlan(next, m) /\ next.quiet = m.quiet /\ next.adrift = m.adrift \cup {path(p)}
        /\ p \in Executors => next.pc = "rollback"
        /\ p \notin Executors => next.pc = "done" /\ next.result = "failed"
    BY <1>1, LateIs, FailedIs DEF SamePlan
  <2> HIDE DEF next
  <2>2. proc'[p] = next
    BY <1>1, <1>3, WritingFrame
  <2>3. \A f \in Files : f = path(p) \/ files'[f] = files[f]
    BY DEF TypeOK, Trees
  <2>4. Restorable(p)'
    BY <2>1, <2>2, <2>3, SamePaths DEF Sound, Restorable, Alone, SamePlan
  <2>5. Drawn(p)' /\ Checked(p)' /\ Undone(p)' /\ Saved(p)' /\ Written(p)' /\ Committed(p)' /\ Followed(p)'
    BY <2>1, <2>2 DEF Drawn, Checked, Undone, Saved, Written, Committed, Followed, Alone, At
  <2> QED BY <2>4, <2>5 DEF Sound
<1> QED BY <1>2, <1>3

LEMMA OperationSound == ASSUME TypeOK, NEW p \in Procs, Sound(p), Operation(p) PROVE Sound(p)'
<1>1. proc[p] \in Processes /\ op(p) \in Operations
  BY OperationNext, ProcTyped, OpTyped
<1>2. CASE AtomicWriteRename(p)
  <2>1. /\ proc[p].pc = "rename" /\ files' = [files EXCEPT ![path(p)] = proc[p].new]
        /\ Writing(p, Done(p)) \/ Writing(p, Late(Failed(p), {path(p)}))
    BY <1>2 DEF AtomicWriteRename, At
  <2>2. op(p).op # "create" /\ proc[p].raw \in Contents
    BY <1>1, <2>1, ProcTyped DEF Placed, Processes
  <2>3. proc[p].new \in Contents /\ proc[p].new.kind # "broken"
    BY <1>1, <2>1, <2>2, MutatedTyped DEF Sound, Drawn
  <2> QED BY <2>1, <2>3, WriteSound
<1>3. CASE CreateNoteWrite(p)
  <2>1. /\ proc[p].pc = "create" /\ files' = [files EXCEPT ![path(p)] = NewNote(op(p))]
        /\ Writing(p, Done(p)) \/ Writing(p, Late(Failed(p), {path(p)}))
    BY <1>3 DEF CreateNoteWrite, At
  <2> QED BY <1>1, <2>1, NewNoteTyped, WriteSound
<1>4. CASE IOError(p)
  <2>1. Step(p, Failed(p)) /\ files' = files
    BY <1>4 DEF IOError, NothingWritten
  <2> QED BY <1>1, <2>1, FailedIs, StepFrame, FailedSound
<1> QED BY <1>2, <1>3, <1>4, BackupSound, ResolveSound, ReadSound, PolicySound, VerifySound, StatSound
        DEF Operation

-----------------------------------------------------------------------------
(* The steps of the beginning and of the end *)

LEMMA BeginSound == ASSUME TypeOK, NEW p \in Procs, Sound(p), Begin(p) PROVE Sound(p)'
<1> DEFINE i == Idle
<1>1. /\ i \in Processes /\ i.i = 1 /\ i.backups = <<>> /\ i.start = files /\ i.result = "none"
  BY IdleTyped DEF TypeOK, Idle
<1> HIDE DEF i
<1>2. ASSUME NEW dry \in BOOLEAN, NEW commit \in BOOLEAN, NEW ops \in Plans, Apply(p, ops, dry, commit)
      PROVE  Sound(p)'
  <2> DEFINE next == [i EXCEPT !.ops = ops, !.dry = dry, !.commit = commit /\ ~ dry,
                          !.pc = IF ops = <<>> THEN "done" ELSE IF dry THEN "backup" ELSE "precheck",
                          !.result = IF ops = <<>> THEN "invalid" ELSE "none"]
  <2>1. Step(p, next) /\ files' = files
    BY <1>2 DEF Apply, i, NothingWritten
  <2>2. ops \in Seq(Operations) /\ (commit /\ ~ dry) \in BOOLEAN
    BY PlanAssumption DEF PlanAssumption
  <2>3. /\ next.i = 1 /\ next.backups = <<>> /\ next.start = files
        /\ next.pc \in {"done", "backup", "precheck"} /\ (next.pc = "done" => next.result = "invalid")
    BY <1>1 DEF Processes
  <2>4. next \in Processes
    BY ZenonT(60), <1>1, <2>2 DEF Processes, Pcs, Results
  <2> HIDE DEF next
  <2>5. proc'[p] = next
    BY <2>1, <2>4, StepFrame
  <2>6. Drawn(p)' /\ Checked(p)' /\ Undone(p)' /\ Saved(p)' /\ Committed(p)' /\ Followed(p)'
    BY <2>3, <2>5 DEF Drawn, Checked, Undone, Saved, Committed, Followed, At
  <2>7. Restorable(p)'
    BY <2>1, <2>3, <2>5 DEF Restorable, Held
  <2>8. Written(p)'
    BY <2>3, <2>5 DEF Written, Applied
  <2> QED BY <2>6, <2>7, <2>8 DEF Sound
<1>3. ASSUME NEW dry \in BOOLEAN, NEW commit \in BOOLEAN, NEW o \in Mutations,
             runMutation(p, o, dry, commit)
      PROVE  Sound(p)'
  <2> DEFINE next == [i EXCEPT !.ops = <<o>>, !.dry = dry, !.commit = commit /\ ~ dry,
                          !.pc = IF o.op = "render" THEN "read" ELSE "resolve"]
  <2>1. Step(p, next) /\ p \in Commands
    BY <1>3 DEF runMutation, i
  <2>2. <<o>> \in Seq(Operations) /\ (commit /\ ~ dry) \in BOOLEAN
    BY PlanAssumption DEF PlanAssumption
  <2>3. next.pc \in {"read", "resolve"}
    BY <1>1 DEF Processes
  <2>4. next \in Processes
    BY ZenonT(60), <1>1, <2>2 DEF Processes, Pcs, Results
  <2> HIDE DEF next
  <2>5. proc'[p] = next
    BY <2>1, <2>4, StepFrame
  <2>6. p \notin Executors
    BY <2>1, PlanAssumption DEF PlanAssumption
  <2> QED BY <2>3, <2>5, <2>6
          DEF Sound, Drawn, Checked, Undone, Restorable, Saved, Written, Committed, Followed, Alone, At
<1>4. CASE checkGitPolicy(p)
  <2> DEFINE next == [proc[p] EXCEPT !.pc = "backup"]
  <2>1. proc[p].pc = "precheck" /\ files' = files
    BY <1>4 DEF checkGitPolicy, At, NothingWritten
  <2>2. Step(p, Ended(p, "refused")) \/ Step(p, next)
    BY <1>4, Zenon DEF checkGitPolicy, Goto
  <2>3. CASE Step(p, Ended(p, "refused"))
    BY <2>1, <2>3, ProcTyped, EndedIs, StepFrame, EndedSound DEF Results
  <2>4. CASE Step(p, next)
    <3>1. /\ next \in Processes /\ next.pc = "backup" /\ SamePlan(next, proc[p])
          /\ next.quiet = proc[p].quiet /\ next.adrift = proc[p].adrift
      <4>1. proc[p] \in Processes /\ "backup" \in Pcs
        BY ProcTyped DEF Pcs
      <4> QED BY <4>1, GoneIs, Zenon
    <3> HIDE DEF next
    <3>2. proc'[p] = next
      BY <2>4, <3>1, StepFrame
    <3>3. Drawn(p)' /\ Checked(p)' /\ Saved(p)'
      BY <3>1, <3>2 DEF Drawn, Checked, Saved, At
    <3> QED BY <2>1, <3>1, <3>2, <3>3, MovedSound DEF SamePlan
  <2> QED BY <2>2, <2>3, <2>4
<1> QED BY <1>2, <1>3, <1>4 DEF Begin

LEMMA RollbackSound == ASSUME TypeOK, NEW p \in Procs, Sound(p), rollback(p) PROVE Sound(p)'
<1> DEFINE m == proc[p]
           n == Len(m.backups)
           bk == m.backups[n]
           bs == Without(m.backups, n)
<1>1. /\ m.pc = "rollback" /\ m.backups # <<>>
      /\ \/ /\ files' = IF bk.created THEN [files EXCEPT ![bk.file] = ABSENT]
                        ELSE IF bk.data # ABSENT THEN [files EXCEPT ![bk.file] = bk.data]
                        ELSE files
            /\ \/ Writing(p, Undoing(p))
               \/ files' = files /\ Step(p, Undoing(p))
         \/ files' = files /\ Step(p, Late(Undoing(p), {bk.file}))
  BY RollbackIs
<1>2. /\ n \in Nat \ {0} /\ bk \in Backups /\ Len(bs) = n - 1
      /\ \A j \in 1 .. n - 1 : bs[j] = m.backups[j]
  BY <1>1, ProcTyped, WithoutLast DEF Processes
<1>3. /\ Undoing(p) \in Processes
      /\ Undoing(p).ops = m.ops /\ Undoing(p).dry = m.dry
      /\ Undoing(p).start = m.start /\ Undoing(p).quiet = m.quiet
      /\ Undoing(p).adrift = m.adrift
      /\ Undoing(p).backups = bs /\ Undoing(p).pc = "rollback"
  BY <1>1, UndoingIs
<1> DEFINE late == Late(Undoing(p), {bk.file})
<1>4. /\ late \in Processes /\ SamePlan(late, Undoing(p)) /\ late.quiet = m.quiet
      /\ late.adrift = m.adrift \cup {bk.file} /\ late.pc = "rollback"
  BY <1>2, <1>3, LateIs DEF Backups
<1> HIDE DEF bs, late
<1>5. proc'[p] = Undoing(p) \/ proc'[p] = late
  BY <1>1, <1>3, <1>4, StepFrame, WritingFrame DEF late
<1>6. Drawn(p)' /\ Checked(p)' /\ Undone(p)' /\ Saved(p)' /\ Written(p)' /\ Committed(p)' /\ Followed(p)'
  BY <1>3, <1>4, <1>5 DEF Drawn, Checked, Undone, Saved, Written, Committed, Followed, At
<1>7. \/ files' = IF bk.created THEN [files EXCEPT ![bk.file] = ABSENT]
                  ELSE IF bk.data # ABSENT THEN [files EXCEPT ![bk.file] = bk.data]
                  ELSE files
      \/ files' = files /\ proc'[p] = late
  BY <1>1, <1>4, StepFrame DEF late
<1>8. Restorable(p)'
  <2>1. /\ proc'[p].quiet = m.quiet /\ proc'[p].dry = m.dry /\ proc'[p].start = m.start
        /\ proc'[p].backups = bs /\ paths(p)' = paths(p) /\ m.adrift \subseteq proc'[p].adrift
    BY <1>3, <1>4, <1>5 DEF paths, SamePlan
  <2>2. ASSUME Alone(p)'
        PROVE  /\ \A j \in 1 .. Len(bs) : bs[j].file \in paths(p) /\ (bs[j].created <=> bs[j].data = ABSENT)
               /\ \A f \in Files :
                     /\ Held(p, f)' = {} => files'[f] = m.start[f] \/ f \in proc'[p].adrift
                     /\ \A j \in Held(p, f)' :
                           (\A k \in Held(p, f)' : j <= k) => bs[j].data = m.start[f] \/ f \in proc'[p].adrift
    <3>1. Alone(p)
      BY <2>1, <2>2 DEF Alone
    <3>2. /\ \A j \in 1 .. n : LET b == m.backups[j]
                               IN  b.file \in paths(p) /\ (b.created <=> b.data = ABSENT)
          /\ \A f \in Files :
                /\ Held(p, f) = {} => files[f] = m.start[f] \/ f \in m.adrift
                /\ \A j \in Held(p, f) : (\A k \in Held(p, f) : j <= k) =>
                                                m.backups[j].data = m.start[f] \/ f \in m.adrift
      BY <3>1 DEF Sound, Restorable
    <3>3. ASSUME NEW j \in 1 .. n - 1 PROVE j \in 1 .. n /\ bs[j] = m.backups[j]
      BY <1>2
    <3>4. ASSUME NEW f \in Files
          PROVE  /\ Held(p, f)' = {} => files'[f] = m.start[f] \/ f \in proc'[p].adrift
                 /\ \A j \in Held(p, f)' :
                       (\A k \in Held(p, f)' : j <= k) => bs[j].data = m.start[f] \/ f \in proc'[p].adrift
      <4>1. Held(p, f)' = {j \in 1 .. n - 1 : bs[j].file = f}
        BY <1>2, <2>1 DEF Held
      <4>2. ASSUME NEW j PROVE j \in Held(p, f) <=> j \in Held(p, f)' \/ (j = n /\ bk.file = f)
        <5>1. j \in 1 .. n <=> j \in 1 .. n - 1 \/ j = n
          BY <1>2
        <5>2. n \notin 1 .. n - 1
          BY <1>2
        <5> QED BY <3>3, <4>1, <5>1, <5>2 DEF Held
      <4>3. ASSUME NEW j \in Held(p, f)', \A k \in Held(p, f)' : j <= k
            PROVE bs[j].data = m.start[f] \/ f \in proc'[p].adrift
        <5>1. j \in 1 .. n - 1 /\ j <= n
          BY <1>2, <4>1
        <5>2. j \in Held(p, f) /\ \A k \in Held(p, f) : j <= k
          BY <4>2, <4>3, <5>1
        <5> QED BY <2>1, <3>2, <3>3, <5>1, <5>2
      <4>4. ASSUME Held(p, f)' = {} PROVE files'[f] = m.start[f] \/ f \in proc'[p].adrift
        <5>1. CASE bk.file = f
          <6>1. n \in Held(p, f) /\ \A k \in Held(p, f) : n <= k
            BY <1>2, <4>2, <4>4, <5>1
          <6>2. (bk.data = m.start[f] \/ f \in m.adrift) /\ (bk.created <=> bk.data = ABSENT)
            BY <1>2, <3>2, <6>1
          <6>3. files' = [files EXCEPT ![f] = bk.data] \/ f \in proc'[p].adrift
            BY <1>4, <1>7, <5>1, <6>2
          <6> QED BY <2>1, <6>2, <6>3 DEF TypeOK, Trees
        <5>2. CASE bk.file # f
          <6>1. Held(p, f) = {}
            BY <4>2, <4>4, <5>2
          <6>2. files'[f] = files[f]
            BY <1>7, <5>2 DEF TypeOK, Trees
          <6> QED BY <2>1, <3>2, <6>1, <6>2
        <5> QED BY <5>1, <5>2
      <4> QED BY <4>3, <4>4
    <3> QED BY <1>2, <3>2, <3>3, <3>4
  <2> QED BY <2>1, <2>2 DEF Restorable
<1> QED BY <1>6, <1>8 DEF Sound

\* A process that finished its writes and goes on to the index, or is done.
LEMMA FinishedSound ==
    ASSUME TypeOK, NEW p \in Procs, Sound(p), proc[p].pc = "commit", files' = files,
           proc'[p] = Finish(p, proc[p]), proc'[p].quiet => proc[p].quiet, proc'[p].adrift = proc[p].adrift,
           \A f \in paths(p) : head'[f] = files[f] /\ staged'[f] = files[f]
    PROVE  Sound(p)'
<1>1. /\ SamePlan(proc'[p], proc[p])
      /\ \/ proc'[p].pc = "reindex"
         \/ /\ proc'[p].pc = "done" /\ proc'[p].result = "ok"
            /\ proc[p].dry \/ p \in Commands
  BY ProcTyped, FinishIs
<1>2. p \in Executors => p \notin Commands
  BY PlanAssumption DEF PlanAssumption
<1>3. Drawn(p)' /\ Checked(p)' /\ Undone(p)' /\ Saved(p)'
  BY <1>1 DEF Drawn, Checked, Undone, Saved, At
<1>4. Restorable(p)'
  BY <1>1, RestorableKept DEF Sound
<1>5. Written(p)'
  BY <1>1 DEF Sound, Written, Applied, Alone, SamePlan
<1>6. Committed(p)'
  BY <1>1, SamePaths DEF Committed
<1>7. Followed(p)'
  BY <1>1, <1>2 DEF Followed, At, SamePlan
<1> QED BY <1>3, <1>4, <1>5, <1>6, <1>7 DEF Sound

LEMMA FinishQuiet ==
    ASSUME NEW p, proc[p] \in Processes
    PROVE  Finish(p, proc[p]).quiet = proc[p].quiet /\ Finish(p, proc[p]).adrift = proc[p].adrift
<1>1. CASE proc[p].dry \/ (p \in Commands /\ op(p).op = "render")
  BY <1>1 DEF Finish, Processes
<1>2. CASE ~ (proc[p].dry \/ (p \in Commands /\ op(p).op = "render"))
  BY <1>2 DEF Finish, Processes
<1> QED BY <1>1, <1>2

\* A plan whose files are indexed: those it wrote can be read, and the others
\* are as they were.
LEMMA ReindexSound == ASSUME TypeOK, NEW p \in Procs, Sound(p), Reindex(p) PROVE Sound(p)'
<1>1. PICK failed \in SUBSET paths(p) :
         /\ proc[p].pc = "reindex" /\ Step(p, Late(Ended(p, "ok"), failed))
         /\ UNCHANGED <<files, staged, head, git>>
         /\ indexed' = [f \in Files |-> IF /\ f \in paths(p) \ failed
                                           /\ files[f] # ABSENT /\ files[f].kind # "broken"
                                        THEN files[f] ELSE indexed[f]]
  BY DEF Reindex, At, collectPaths
<1>2. /\ proc[p] \in Processes /\ Ended(p, "ok") \in Processes
      /\ failed \in SUBSET (Files \cup {ABSENT})
  BY ProcTyped, EndedIs, PathsTyped DEF Results
<1>3. proc'[p] = Late(Ended(p, "ok"), failed)
  BY <1>1, <1>2, LateIs, StepFrame
<1>4. /\ SamePlan(proc'[p], proc[p]) /\ proc'[p].quiet = proc[p].quiet
      /\ proc'[p].adrift = proc[p].adrift \cup failed
      /\ proc'[p].pc = "done" /\ proc'[p].result = "ok"
  <2>1. /\ SamePlan(Ended(p, "ok"), proc[p]) /\ Ended(p, "ok").quiet = proc[p].quiet
        /\ Ended(p, "ok").adrift = proc[p].adrift
        /\ Ended(p, "ok").pc = "done" /\ Ended(p, "ok").result = "ok"
    BY <1>2, EndedIs DEF Results
  <2> QED BY <1>2, <1>3, <2>1, LateIs DEF SamePlan
<1>5. Drawn(p)' /\ Checked(p)' /\ Undone(p)' /\ Saved(p)' /\ Written(p)'
  BY <1>4 DEF Drawn, Checked, Undone, Saved, Written, At
<1>6. Restorable(p)'
  BY <1>1, <1>4, RestorableKept DEF Sound
<1>7. Committed(p)'
  BY <1>1, <1>4, SamePaths DEF Sound, Committed, At, SamePlan
<1>8. Followed(p)'
  <2>1. ASSUME Alone(p), NEW f \in Files \ proc'[p].adrift
        PROVE  indexed'[f] = files[f] \/ files[f] = proc[p].start[f]
    <3>1. CASE f \in paths(p)
      <4>1. PICK j \in 1 .. Len(proc[p].ops) : f = proc[p].ops[j].file
        BY <3>1 DEF paths
      <4>2. files[f] # ABSENT /\ files[f].kind # "broken"
        BY <1>1, <2>1, <4>1 DEF Sound, Written, Applied
      <4>3. f \notin failed
        BY <1>4, <2>1
      <4> QED BY <1>1, <3>1, <4>2, <4>3
    <3>2. CASE f \notin paths(p)
      <4>1. Held(p, f) = {}
        BY <2>1, <3>2 DEF Sound, Restorable, Held
      <4> QED BY <1>4, <2>1, <4>1 DEF Sound, Restorable
    <3> QED BY <3>1, <3>2
  <2>2. Alone(p)' => Alone(p)
    BY <1>4 DEF Alone, SamePlan
  <2> QED BY <1>1, <1>4, <2>1, <2>2 DEF Followed, Alone, SamePlan
<1> QED BY <1>5, <1>6, <1>7, <1>8 DEF Sound

LEMMA EndStepSound == ASSUME TypeOK, NEW p \in Procs, Sound(p), End(p) PROVE Sound(p)'
<1>1. proc[p] \in Processes
  BY ProcTyped
<1>2. \A r \in Results : Ended(p, r) \in Processes
  BY <1>1, EndedIs
<1>3. CASE rollbackDone(p)
  BY <1>2, <1>3, StepFrame, EndedSound DEF rollbackDone, NothingWritten, Results
<1>4. CASE Commit(p)
  <2>1. /\ proc[p].pc = "commit" /\ CommitFiles(paths(p)) /\ Writing(p, Finish(p, proc[p]))
        /\ files' = files
    BY <1>4 DEF Commit, At, collectPaths
  <2>2. /\ proc'[p] = Finish(p, proc[p]) /\ proc'[p].quiet = proc[p].quiet
        /\ proc'[p].adrift = proc[p].adrift
    BY <1>1, <2>1, FinishIs, FinishQuiet, WritingFrame
  <2>3. paths(p) \subseteq Files
    BY <1>1, PathsTyped
  <2>4. \A f \in paths(p) : head'[f] = files[f] /\ staged'[f] = files[f]
    BY <2>1, <2>3 DEF CommitFiles
  <2> QED BY <2>1, <2>2, <2>4, FinishedSound
<1>5. CASE CommitFails(p)
  <2>1. Writing(p, Ended(p, "uncommitted")) /\ files' = files
    BY <1>5 DEF CommitFails
  <2> QED BY <1>2, <2>1, WritingFrame, EndedSound DEF Results
<1>6. CASE Kill(p)
  BY <1>2, <1>6, StepFrame, EndedSound DEF Kill, NothingWritten, Results
<1> QED BY <1>3, <1>4, <1>5, <1>6, RollbackSound, ReindexSound DEF End

-----------------------------------------------------------------------------
(* The invariant *)

LEMMA SoundAtStart == Init => PlanSound
<1> SUFFICES ASSUME Init PROVE PlanSound
  OBVIOUS
<1>1. TypeOK
  BY TypesAtStart
<1>2. ASSUME NEW p \in Procs PROVE Sound(p)
  <2>1. /\ proc[p].pc = "idle" /\ proc[p].backups = <<>> /\ proc[p].start = files
    BY DEF Init, Idle
  <2>2. Restorable(p)
    BY <2>1 DEF Restorable, Held
  <2> QED BY <2>1, <2>2 DEF Sound, Drawn, Checked, Undone, Saved, Written, Committed, Followed, At
<1> QED BY <1>1, <1>2 DEF PlanSound

\* A process's step is a write, or touches neither the files nor git.
LEMMA StepOrWrite ==
    ASSUME PlanSound, NEW p \in Procs, Begin(p) \/ Operation(p) \/ End(p)
    PROVE  \E next \in Processes :
              \/ Writing(p, next)
              \/ /\ Step(p, next) /\ UNCHANGED <<files, staged, head, git>>
                 /\ \A f \in Files : indexed'[f] \in {indexed[f], files[f]}
<1>1. TypeOK /\ proc[p] \in Processes
  BY ProcTyped DEF PlanSound
<1>2. TypeOK'
  BY <1>1, BeginTyped, OperationTyped, EndTyped
<1>3. proc'[p] \in Processes
  BY <1>2 DEF TypeOK
<1>4. ASSUME NEW next, Step(p, next) PROVE next = proc'[p]
  BY <1>1, <1>4 DEF Step, TypeOK
<1>5. ASSUME NEW next, Writing(p, next) PROVE next = proc'[p]
  BY <1>5 DEF Writing
<1>6. CASE \E next : Step(p, next) /\ NothingWritten
  BY <1>3, <1>4, <1>6 DEF NothingWritten
<1>7. CASE \E next : Writing(p, next)
  BY <1>3, <1>5, <1>7
<1>8. CASE rollback(p)
  BY <1>1, <1>4, <1>3, <1>7, <1>8, RollbackIs DEF GitSame
<1>9. CASE Reindex(p)
  <2>1. (\E next : Step(p, next)) /\ UNCHANGED <<files, staged, head, git>>
    BY <1>9 DEF Reindex
  <2>2. \A f \in Files : indexed'[f] \in {indexed[f], files[f]}
    BY <1>9 DEF Reindex
  <2> QED BY <1>3, <1>4, <2>1, <2>2
<1>10. CASE Begin(p)
  BY <1>6, <1>10, Zenon DEF Begin, Apply, runMutation, checkGitPolicy, Goto
<1>11. CASE Operation(p) /\ ~ AtomicWriteRename(p) /\ ~ CreateNoteWrite(p)
  BY <1>6, <1>11, Zenon DEF Operation, Backup, resolveTarget, ReadFile, mutatorCheckGitPolicy, AtomicWriteVerify,
                            CreateNoteStat, IOError, Goto
<1>12. CASE AtomicWriteRename(p) \/ CreateNoteWrite(p)
  BY <1>7, <1>12, Zenon DEF AtomicWriteRename, CreateNoteWrite
<1>13. CASE End(p) /\ ~ rollback(p) /\ ~ Reindex(p)
  BY <1>6, <1>7, <1>13, Zenon DEF End, rollbackDone, Commit, CommitFails, Kill
<1> QED BY <1>8, <1>9, <1>10, <1>11, <1>12, <1>13

LEMMA SoundKept == ASSUME PlanSound, [Next]_vars PROVE PlanSound'
<1>1. TypeOK /\ TypeOK' /\ \A q \in Procs : Sound(q)
  BY TypesKept DEF PlanSound
<1>2. CASE User
  BY <1>1, <1>2, UserSound
<1>3. ASSUME NEW p \in Procs, Begin(p) \/ Operation(p) \/ End(p) PROVE PlanSound'
  <2>1. Sound(p)'
    BY <1>1, <1>3, BeginSound, OperationSound, EndStepSound
  <2>2. PICK next \in Processes :
           \/ Writing(p, next)
           \/ /\ Step(p, next) /\ UNCHANGED <<files, staged, head, git>>
              /\ \A f \in Files : indexed'[f] \in {indexed[f], files[f]}
    BY <1>3, StepOrWrite
  <2> QED BY <1>1, <2>1, <2>2, SoundFrame
<1>4. CASE UNCHANGED vars
  BY <1>1, <1>4, RestSound DEF vars, PlanSound
<1> QED BY <1>2, <1>3, <1>4 DEF Next

LEMMA PlanSoundInv == Spec => []PlanSound
BY SoundAtStart, SoundKept, PTL DEF Spec

-----------------------------------------------------------------------------
(* The properties *)

\* A write that no other write came before since the policy check replaces the
\* bytes the change was computed from, and no content that git does not have.
THEOREM WritesAlwaysLoseNothing == Spec => []WriteLosesNothing
<1>1. PlanSound => WriteLosesNothing
  BY DEF PlanSound, Sound, Drawn, Checked, WriteLosesNothing, At
<1> QED BY <1>1, PlanSoundInv, PTL

\* A plan that fails alone leaves every file as it was, whatever the order of its
\* operations and the files they share.
THEOREM AlwaysRolledBack == Spec => []RolledBack
<1>1. ASSUME PlanSound, NEW p \in Executors, At(p, "done"), proc[p].result = "failed",
             proc[p].quiet, ~ proc[p].dry, NEW f \in Files \ proc[p].adrift
      PROVE  files[f] = proc[p].start[f]
  <2>1. Alone(p) /\ Restorable(p) /\ proc[p].backups = <<>>
    BY <1>1 DEF PlanSound, Sound, Undone, Alone, Procs
  <2> QED BY <1>1, <2>1, AllUndone
<1>2. PlanSound => RolledBack
  BY <1>1 DEF RolledBack
<1> QED BY <1>2, PlanSoundInv, PTL

\* A plan that ends alone has in its commit and in the index what it wrote.
THEOREM OutcomesAlwaysAgree == Spec => []OutcomeAgrees
<1>1. PlanSound => CommitHasPlan
  BY DEF PlanSound, Sound, Committed, CommitHasPlan, At
<1>2. PlanSound => IndexFollows
  BY DEF PlanSound, Sound, Followed, IndexFollows, Procs
<1>3. PlanSound => OutcomeAgrees
  BY <1>1, <1>2 DEF OutcomeAgrees
<1> QED BY <1>3, PlanSoundInv, PTL

\* No operation replaces a region that was edited by hand before the policy check.
THEOREM HandEditsAlwaysKept == Spec => HandEditsKept
<1>1. ASSUME PlanSound, NEW p \in Procs, AtomicWriteRename(p), proc[p].calm,
             files[path(p)].region = "edited"
      PROVE  files'[path(p)].region = "edited"
  <2>1. /\ proc[p].pc = "rename" /\ files' = [files EXCEPT ![path(p)] = proc[p].new] /\ TypeOK
    BY <1>1 DEF AtomicWriteRename, At, PlanSound
  <2>2. op(p) \in Operations /\ op(p).op # "create" /\ path(p) \in Files /\ proc[p].raw \in Contents
    BY <2>1, OpTyped, ProcTyped DEF Placed, Processes
  <2>3. /\ proc[p].new = Mutated(op(p), proc[p].raw) /\ files[path(p)] = proc[p].raw
        /\ op(p).op = "render" => Renders(proc[p].raw)
    BY <1>1, <2>1 DEF PlanSound, Sound, Drawn, Checked, At
  <2>4. op(p).op # "render"
    BY <1>1, <2>3 DEF Renders
  <2>5. proc[p].new.region = "edited"
    BY <1>1, <2>2, <2>3, <2>4, MutatedTyped
  <2> QED BY <2>1, <2>2, <2>5 DEF TypeOK, Trees
<1>2. ASSUME PlanSound
      PROVE  \A p \in Procs : AtomicWriteRename(p) /\ proc[p].calm /\ files[path(p)].region = "edited" =>
                files'[path(p)].region = "edited"
  <2> TAKE p \in Procs
  <2> HAVE AtomicWriteRename(p) /\ proc[p].calm /\ files[path(p)].region = "edited"
  <2> QED BY <1>1, <1>2
<1> QED BY <1>2, PlanSoundInv, PTL DEF HandEditsKept

=============================================================================
