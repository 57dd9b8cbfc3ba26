----------------------------- MODULE HookProofs ------------------------------
(***************************************************************************)
(* What the commands on hooks promise (HookWiring), for any scripts,       *)
(* profiles and installs, whatever the person writes. A merge makes a list *)
(* of groups entry by entry, as the packer does its list of notes: what a  *)
(* fold keeps to and what a filter is are the lemmas of AskProofs.         *)
(*                                                                         *)
(* First what merging one script does to a list of groups (Merges), and so *)
(* several (Grown), in Cursor's file (Did) and under a narrower profile    *)
(* (Clean); a merge of what a merge made changes nothing. Then the         *)
(* inductive invariant HooksInv of the commands and the person.            *)
(***************************************************************************)
EXTENDS HookWiring, AskProofs

-----------------------------------------------------------------------------
(* Groups, and what merging one script does *)

Refs == {"claude", "portable", "absolute", "hand"}
Hooks == [script : Scripts, ref : Refs] \cup {Own}
Groups == [matcher : {Wide, Narrow}, hooks : Seq(Hooks)]
CursorGroups == {OwnGroup} \cup {Group(Wide, <<Hook(s, "absolute")>>) : s \in Scripts}
GroupsOf(f) == IF f = "cursor" THEN CursorGroups ELSE Groups

\* A group of one hook, that runs s.
JustRuns(g, s) == g \in Groups /\ Len(g.hooks) = 1 /\ g.hooks[1].script = s

\* What an install wires in f: for each script a group of its own.
Wirings(f, ref) == [s \in Scripts |-> Group(IF f = "codex" THEN Narrow ELSE Wide, <<Hook(s, ref)>>)]

\* A person's own hook and group are a hook and a group.
LEMMA OwnTyped == Own \in Hooks /\ OwnGroup \in Groups /\ HasOwn(OwnGroup)
<1>1. Own \in Hooks
  BY DEF Hooks
<1>2. OwnGroup = [matcher |-> Narrow, hooks |-> <<Own>>] /\ <<Own>> \in Seq(Hooks)
  BY <1>1 DEF OwnGroup, Group
<1>3. OwnGroup \in Groups
  BY <1>2 DEF Groups
<1>4. HasOwn(OwnGroup)
  <2>1. OwnGroup.hooks[1] = Own /\ 1 \in DOMAIN OwnGroup.hooks /\ Own.script = "own"
    BY <1>2 DEF Own, Hook
  <2> QED BY <2>1 DEF HasOwn, RunsScript, HooksOf, ToSet
<1> QED BY <1>1, <1>3, <1>4

\* What an install wires in is a group of one hook, that runs its script.
LEMMA WiringTyped ==
    ASSUME NEW f, NEW ref \in Refs, NEW s \in Scripts
    PROVE  LET g == Wirings(f, ref)[s]
           IN  /\ JustRuns(g, s)
               /\ g.matcher = IF f = "codex" THEN Narrow ELSE Wide
               /\ HooksOf(g) = {Hook(s, ref)}
<1> DEFINE h == Hook(s, ref)
           m == IF f = "codex" THEN Narrow ELSE Wide
           g == [matcher |-> m, hooks |-> <<h>>]
<1>1. h \in Hooks /\ h.script = s
  BY DEF Hook, Hooks
<1>2. Wirings(f, ref)[s] = g
  BY DEF Wirings, Group
<1>3. m \in {Wide, Narrow}
  OBVIOUS
<1> HIDE DEF h, m
<1>4. <<h>> \in Seq(Hooks) /\ Len(<<h>>) = 1 /\ <<h>>[1] = h /\ DOMAIN <<h>> = {1}
  BY <1>1
<1>5. g \in Groups
  BY <1>3, <1>4 DEF Groups
<1>6. HooksOf(g) = {h}
  BY <1>4 DEF HooksOf, ToSet
<1> QED BY <1>1, <1>2, <1>4, <1>5, <1>6 DEF JustRuns, h, m

\* Cursor's groups are groups.
LEMMA CursorTyped == CursorGroups \subseteq Groups
<1>1. ASSUME NEW s \in Scripts PROVE Group(Wide, <<Hook(s, "absolute")>>) \in Groups
  <2>1. Hook(s, "absolute") \in Hooks
    BY DEF Hook, Hooks, Refs
  <2> DEFINE h == Hook(s, "absolute")
  <2> HIDE DEF h
  <2>2. <<h>> \in Seq(Hooks)
    BY <2>1 DEF h
  <2>3. [matcher |-> Wide, hooks |-> <<h>>] \in Groups
    BY <2>2 DEF Groups
  <2> QED BY <2>3 DEF Group, h
<1> QED BY <1>1, OwnTyped DEF CursorGroups

\* The groups of a file are groups.
LEMMA GroupsOfTyped == ASSUME NEW f PROVE GroupsOf(f) \subseteq Groups /\ Seq(GroupsOf(f)) \subseteq Seq(Groups)
<1>1. GroupsOf(f) \subseteq Groups
  BY CursorTyped DEF GroupsOf
<1> QED BY <1>1

\* What a group is made of.
LEMMA GroupIs ==
    ASSUME NEW g \in Groups
    PROVE  /\ g.matcher \in {Wide, Narrow} /\ g.hooks \in Seq(Hooks)
           /\ g = [matcher |-> g.matcher, hooks |-> g.hooks]
           /\ \A m : [g EXCEPT !.matcher = m] = [matcher |-> m, hooks |-> g.hooks]
BY DEF Groups

\* A matcher and hooks make a group.
LEMMA GroupMade ==
    ASSUME NEW m \in {Wide, Narrow}, NEW hooks \in Seq(Hooks)
    PROVE  [matcher |-> m, hooks |-> hooks] \in Groups
BY DEF Groups

\* A group runs a script when one of its hooks does.
LEMMA RunsAt ==
    ASSUME NEW g \in Groups, NEW x
    PROVE  RunsScript(g, x) <=> \E j \in DOMAIN g.hooks : g.hooks[j].script = x
BY DEF RunsScript, HooksOf, ToSet

\* All of g is ours, and runs s.
AllRun(g, s) == g.hooks # <<>> /\ \A h \in HooksOf(g) : h.script = s

\* A group of hooks of s runs s and no other script.
LEMMA AllRunIs ==
    ASSUME NEW g \in Groups, NEW s, AllRun(g, s), NEW x
    PROVE  RunsScript(g, x) <=> x = s
<1>1. g.hooks \in Seq(Hooks)
  BY DEF Groups
<1>2. 1 \in DOMAIN g.hooks
  BY <1>1 DEF AllRun
<1> QED BY <1>2 DEF AllRun, RunsScript, HooksOf, ToSet

\* A group of one hook of s is a group of hooks of s.
LEMMA JustIs ==
    ASSUME NEW g, NEW s, JustRuns(g, s)
    PROVE  AllRun(g, s) /\ \A x : RunsScript(g, x) <=> x = s
<1>1. g.hooks \in Seq(Hooks) /\ Len(g.hooks) = 1 /\ g.hooks[1].script = s
  BY DEF Groups, JustRuns
<1>2. DOMAIN g.hooks = {1} /\ g.hooks # <<>>
  BY <1>1
<1>3. AllRun(g, s)
  BY <1>1, <1>2 DEF AllRun, HooksOf, ToSet
<1> QED BY <1>3, AllRunIs DEF JustRuns

\* k runs the scripts g runs, hook for hook.
LikeScripts(g, k) ==
    Len(k.hooks) = Len(g.hooks) /\ \A j \in DOMAIN g.hooks : k.hooks[j].script = g.hooks[j].script

\* Groups alike in their scripts run the same ones.
LEMMA LikeRuns ==
    ASSUME NEW g \in Groups, NEW k \in Groups, LikeScripts(g, k), NEW x
    PROVE  RunsScript(k, x) <=> RunsScript(g, x)
<1>1. g.hooks \in Seq(Hooks) /\ k.hooks \in Seq(Hooks)
  BY DEF Groups
<1>2. DOMAIN g.hooks = DOMAIN k.hooks
  BY <1>1 DEF LikeScripts
<1> QED BY <1>2, RunsAt DEF LikeScripts

\* The places of the groups that run a script are finitely many.
LEMMA HoldingIs ==
    ASSUME NEW arr \in Seq(Groups), NEW s
    PROVE  Holding(arr, s) \subseteq 1..Len(arr) /\ IsFiniteSet(Holding(arr, s))
<1>1. Holding(arr, s) \subseteq 1..Len(arr) /\ Len(arr) \in Nat
  BY DEF Holding
<1>2. IsFiniteSet(1..Len(arr))
  BY <1>1, FS_Interval
<1> QED BY <1>1, <1>2, FS_Subset
\* What merging s into arr does of each group there was.
Merges(f, arr, s, want, out) ==
    /\ out \in Seq(Groups)
    /\ Len(out) = IF Holding(arr, s) = {} THEN Len(arr) + 1 ELSE Len(arr)
    /\ Holding(arr, s) = {} => out[Len(arr) + 1] = want
    /\ \A i \in DOMAIN arr :
          \/ out[i] = arr[i]
          \/ /\ AllRun(arr[i], s) /\ Len(out[i].hooks) = Len(arr[i].hooks)
             /\ out[i].hooks = arr[i].hooks \/ out[i] = want

\* The groups of s alone, and that merging s has done what it does.
Alone(arr, s) == {i \in Holding(arr, s) : Len(arr[i].hooks) = 1}
UpToDate(f, arr, s, want) ==
    /\ Holding(arr, s) # {}
    /\ IF f = "codex"
       THEN \A i \in Alone(arr, s) : (\A j \in Alone(arr, s) : i <= j) => arr[i] = want
       ELSE \/ Cardinality(Holding(arr, s)) > 1
            \/ \A i \in Holding(arr, s) : ~(arr[i].matcher = Narrow /\ AllRun(arr[i], s))

\* What Append makes.
LEMMA AppendIs ==
    ASSUME NEW T, NEW s \in Seq(T), NEW e \in T
    PROVE  /\ Append(s, e) \in Seq(T) /\ Len(Append(s, e)) = Len(s) + 1
           /\ Append(s, e)[Len(s) + 1] = e
           /\ \A i \in 1..Len(s) : Append(s, e)[i] = s[i]
OBVIOUS

\* UpgradeMatcher changes no hook, and no matcher but of groups of s alone;
\* done once it is done.
LEMMA Upgrades ==
    ASSUME NEW arr \in Seq(Groups), NEW s, NEW want, JustRuns(want, s)
    PROVE  LET out == UpgradeMatcher(arr, s, want)
           IN  /\ out \in Seq(Groups) /\ Len(out) = Len(arr)
               /\ \A i \in DOMAIN arr : out[i] = arr[i]
                     \/ (AllRun(arr[i], s) /\ out[i].hooks = arr[i].hooks)
               /\ want.matcher = Narrow => out = arr
               /\ want.matcher # Narrow /\ Cardinality(Holding(arr, s)) <= 1 =>
                    \A i \in DOMAIN arr : ~(out[i].matcher = Narrow /\ AllRun(out[i], s))
<1> DEFINE up(i) == IF arr[i].matcher = Narrow /\ AllRun(arr[i], s)
                    THEN [arr[i] EXCEPT !.matcher = want.matcher] ELSE arr[i]
           out == [i \in DOMAIN arr |-> up(i)]
<1>1. UpgradeMatcher(arr, s, want) = IF Cardinality(Holding(arr, s)) > 1 THEN arr ELSE out
  <2> DEFINE old(i) == arr[i].matcher = Narrow /\ arr[i].hooks # <<>> /\ \A h \in HooksOf(arr[i]) : h.script = s
             new(i) == [arr[i] EXCEPT !.matcher = want.matcher]
  <2>1. UpgradeMatcher(arr, s, want) =
          IF Cardinality(Holding(arr, s)) > 1 THEN arr
          ELSE [i \in DOMAIN arr |-> IF old(i) THEN new(i) ELSE arr[i]]
    BY DEF UpgradeMatcher
  <2>2. \A i \in DOMAIN arr : old(i) <=> (arr[i].matcher = Narrow /\ AllRun(arr[i], s))
    BY DEF AllRun
  <2> DEFINE was(i) == IF old(i) THEN new(i) ELSE arr[i]
  <2> HIDE DEF old
  <2>3. \A i \in DOMAIN arr : up(i) = was(i)
    BY <2>2
  <2>4. UpgradeMatcher(arr, s, want) =
          IF Cardinality(Holding(arr, s)) > 1 THEN arr ELSE [i \in DOMAIN arr |-> was(i)]
    BY <2>1
  <2> HIDE DEF up, was
  <2>5. [i \in DOMAIN arr |-> up(i)] = [i \in DOMAIN arr |-> was(i)]
    BY <2>3
  <2> QED BY <2>4, <2>5
<1>2. ASSUME NEW i \in DOMAIN arr
      PROVE  /\ up(i) \in Groups /\ up(i).hooks = arr[i].hooks
             /\ up(i) = arr[i] \/ AllRun(arr[i], s)
             /\ want.matcher = Narrow => up(i) = arr[i]
             /\ want.matcher # Narrow => ~(up(i).matcher = Narrow /\ AllRun(up(i), s))
  <2> DEFINE g == arr[i]
  <2>1. g \in Groups /\ want.matcher \in {Wide, Narrow}
    BY GroupIs DEF JustRuns
  <2> HIDE DEF g
  <2>2. [g EXCEPT !.matcher = want.matcher] = [matcher |-> want.matcher, hooks |-> g.hooks]
    BY <2>1, GroupIs
  <2>3. g = [matcher |-> g.matcher, hooks |-> g.hooks] /\ g.hooks \in Seq(Hooks)
    BY <2>1, GroupIs
  <2>4. \A m : AllRun([matcher |-> m, hooks |-> g.hooks], s) <=> AllRun(g, s)
    BY DEF AllRun, HooksOf
  <2>5. CASE g.matcher = Narrow /\ AllRun(g, s)
    <3>1. up(i) = [matcher |-> want.matcher, hooks |-> g.hooks]
      BY <2>5, <2>2 DEF g
    <3>2. [matcher |-> want.matcher, hooks |-> g.hooks] \in Groups
      BY <2>1, <2>3, GroupMade
    <3> HIDE DEF up
    <3> QED BY <3>1, <3>2, <2>3, <2>5 DEF g
  <2>6. CASE ~(g.matcher = Narrow /\ AllRun(g, s))
    <3>1. up(i) = g
      BY <2>6 DEF g
    <3> HIDE DEF up
    <3> QED BY <3>1, <2>1, <2>6 DEF g
  <2> QED BY <2>5, <2>6
<1> HIDE DEF up
<1>3. out \in Seq(Groups) /\ Len(out) = Len(arr) /\ \A i \in DOMAIN arr : out[i] = up(i)
  <2>1. DOMAIN arr = 1..Len(arr) /\ Len(arr) \in Nat
    OBVIOUS
  <2> QED BY <2>1, <1>2
<1>4. want.matcher = Narrow => out = arr
  <2>1. SUFFICES ASSUME want.matcher = Narrow PROVE out = arr
    OBVIOUS
  <2>2. \A i \in DOMAIN arr : up(i) = arr[i]
    BY <1>2, <2>1
  <2> QED BY <2>2
<1>5. Cardinality(Holding(arr, s)) \in Nat
  BY HoldingIs, FS_CardinalityType
<1> HIDE DEF out
<1>6. CASE Cardinality(Holding(arr, s)) > 1
  BY <1>1, <1>5, <1>6
<1>7. CASE ~(Cardinality(Holding(arr, s)) > 1)
  BY <1>1, <1>2, <1>3, <1>4, <1>7
<1> QED BY <1>6, <1>7

\* A set of numbers up to n has a least one.
LEMMA LeastIn ==
    ASSUME NEW n \in Nat, NEW q \in SUBSET (1..n), q # {}
    PROVE  \E x \in q : \A y \in q : x <= y
<1> DEFINE r == {n - y : y \in q}
<1>1. r \in SUBSET (0..n) /\ r # {}
  <2>1. \A y \in q : y \in 1..n
    OBVIOUS
  <2>2. \A y \in q : n - y \in 0..n
    BY <2>1
  <2>3. PICK y \in q : TRUE
    OBVIOUS
  <2>4. n - y \in r
    OBVIOUS
  <2> QED BY <2>2, <2>4
<1>2. Max(r) \in r /\ \A y \in r : Max(r) >= y
  BY <1>1, MaxIn
<1>3. PICK x \in q : Max(r) = n - x
  BY <1>2
<1>4. \A y \in q : n - y \in r
  OBVIOUS
<1>5. \A y \in q : n - x >= n - y
  BY <1>2, <1>3, <1>4
<1>6. \A y \in q : y \in 1..n
  OBVIOUS
<1>7. \A y \in q : x <= y
  BY <1>5, <1>6
<1> QED BY <1>7

\* A group of one hook that runs s is a group of s alone.
LEMMA AloneIs ==
    ASSUME NEW arr \in Seq(Groups), NEW s, NEW i \in Alone(arr, s)
    PROVE  JustRuns(arr[i], s) /\ i \in 1..Len(arr) /\ AllRun(arr[i], s)
<1>1. i \in DOMAIN arr /\ RunsScript(arr[i], s) /\ Len(arr[i].hooks) = 1
  BY DEF Alone, Holding
<1>2. arr[i] \in Groups
  BY <1>1
<1>3. PICK j \in DOMAIN arr[i].hooks : arr[i].hooks[j].script = s
  BY <1>1, <1>2, RunsAt
<1>4. arr[i].hooks \in Seq(Hooks)
  BY <1>2, GroupIs
<1>5. j = 1
  BY <1>1, <1>3, <1>4
<1>6. JustRuns(arr[i], s)
  BY <1>1, <1>2, <1>3, <1>5 DEF JustRuns
<1> QED BY <1>1, <1>6, JustIs

\* want is where the first group of s alone is.
AtFirst(arr, s, want) == \A i \in Alone(arr, s) : (\A j \in Alone(arr, s) : i <= j) => arr[i] = want

\* RefreshOwn changes one group of s alone, in place; done once it is done.
LEMMA Refreshes ==
    ASSUME NEW arr \in Seq(Groups), NEW s, NEW want, JustRuns(want, s)
    PROVE  LET out == RefreshOwn(arr, s, want)
           IN  /\ out \in Seq(Groups) /\ Len(out) = Len(arr)
               /\ \A i \in DOMAIN arr : out[i] = arr[i]
                     \/ (AllRun(arr[i], s) /\ Len(arr[i].hooks) = 1 /\ out[i] = want)
               /\ AtFirst(out, s, want)
               /\ AtFirst(arr, s, want) => out = arr
<1> DEFINE out == RefreshOwn(arr, s, want)
           least(k) == \A j \in Alone(arr, s) : k <= j
<1>0. want \in Groups /\ Len(want.hooks) = 1 /\ RunsScript(want, s)
  BY JustIs DEF JustRuns
<1>1. Alone(arr, s) \in SUBSET (1..Len(arr)) /\ Len(arr) \in Nat /\ DOMAIN arr = 1..Len(arr)
  BY DEF Alone, Holding
<1>2. CASE Alone(arr, s) = {}
  <2>1. out = arr
    BY <1>2 DEF RefreshOwn, Alone
  <2>2. \A want_ : AtFirst(arr, s, want_)
    BY <1>2 DEF AtFirst
  <2> HIDE DEF out
  <2> QED BY <2>1, <2>2 DEF out
<1>3. CASE Alone(arr, s) # {}
  <2> DEFINE k == CHOOSE i \in Alone(arr, s) : least(i)
  <2>1. k \in Alone(arr, s) /\ least(k)
    BY <1>1, <1>3, LeastIn
  <2>2. out = [arr EXCEPT ![k] = want]
    BY <1>3 DEF RefreshOwn, Alone
  <2>3. \A i \in Alone(arr, s) : least(i) => i = k
    <3> HIDE DEF k
    <3> QED BY <1>1, <2>1
  <2> HIDE DEF k, out, least
  <2>4. AllRun(arr[k], s) /\ k \in 1..Len(arr) /\ Len(arr[k].hooks) = 1
    BY <2>1, AloneIs DEF Alone
  <2>5. /\ out \in Seq(Groups) /\ Len(out) = Len(arr) /\ DOMAIN out = DOMAIN arr /\ out[k] = want
        /\ \A i \in DOMAIN arr : i # k => out[i] = arr[i]
    BY <1>0, <2>2, <2>4
  <2>6. Alone(out, s) = Alone(arr, s)
    <3>1. \A i \in DOMAIN arr : i \in Alone(out, s) <=> i \in Alone(arr, s)
      <4>1. ASSUME NEW i \in DOMAIN arr, i # k PROVE i \in Alone(out, s) <=> i \in Alone(arr, s)
        BY <4>1, <2>5 DEF Alone, Holding
      <4>2. k \in Alone(out, s)
        BY <1>0, <1>1, <2>4, <2>5 DEF Alone, Holding
      <4> QED BY <4>1, <4>2, <2>1
    <3>2. Alone(out, s) \subseteq DOMAIN arr /\ Alone(arr, s) \subseteq DOMAIN arr
      BY <2>5 DEF Alone, Holding
    <3> QED BY <3>1, <3>2
  <2>7. AtFirst(out, s, want)
    BY <2>3, <2>5, <2>6 DEF AtFirst, least
  <2>8. AtFirst(arr, s, want) => out = arr
    <3>1. SUFFICES ASSUME AtFirst(arr, s, want) PROVE out = arr
      OBVIOUS
    <3>2. arr[k] = want
      BY <2>1, <3>1 DEF AtFirst, least
    <3> QED BY <3>2, <2>2
  <2>9. \A i \in DOMAIN arr : out[i] = arr[i]
           \/ (AllRun(arr[i], s) /\ Len(arr[i].hooks) = 1 /\ out[i] = want)
    BY <2>4, <2>5
  <2> QED BY <2>5, <2>7, <2>8, <2>9 DEF out
<1> QED BY <1>2, <1>3

\* What merging s with want makes of arr: what it does to the groups there were,
\* that it is done, and that done again it changes nothing.
LEMMA MergeScriptIs ==
    ASSUME NEW f, NEW arr \in Seq(Groups), NEW s, NEW want, JustRuns(want, s),
           want.matcher = IF f = "codex" THEN Narrow ELSE Wide
    PROVE  LET out == MergeScript(f, arr, s, want)
           IN  /\ Merges(f, arr, s, want, out)
               /\ UpToDate(f, out, s, want)
               /\ UpToDate(f, arr, s, want) => out = arr
<1> DEFINE up == UpgradeMatcher(arr, s, want)
           ref == RefreshOwn(up, s, want)
           out == MergeScript(f, arr, s, want)
<1>0. /\ want \in Groups /\ Len(want.hooks) = 1 /\ RunsScript(want, s) /\ AllRun(want, s)
      /\ DOMAIN arr = 1..Len(arr) /\ Len(arr) \in Nat
      /\ Holding(arr, s) \subseteq 1..Len(arr)
  BY JustIs, HoldingIs DEF JustRuns
<1>00. Wide # Narrow
  BY HooksAssumption
<1>1. /\ up \in Seq(Groups) /\ Len(up) = Len(arr)
      /\ \A i \in DOMAIN arr : up[i] = arr[i] \/ (AllRun(arr[i], s) /\ up[i].hooks = arr[i].hooks)
      /\ want.matcher = Narrow => up = arr
      /\ want.matcher # Narrow /\ Cardinality(Holding(arr, s)) <= 1 =>
           \A i \in DOMAIN arr : ~(up[i].matcher = Narrow /\ AllRun(up[i], s))
  BY Upgrades
<1>2. CASE Holding(arr, s) = {}
  <2>1. out = Append(arr, want)
    BY <1>2 DEF MergeScript
  <2>2. /\ out \in Seq(Groups) /\ Len(out) = Len(arr) + 1 /\ out[Len(arr) + 1] = want
        /\ \A i \in 1..Len(arr) : out[i] = arr[i]
    BY <1>0, <2>1, AppendIs
  <2> HIDE DEF out
  <2>3. Merges(f, arr, s, want, out)
    BY <1>0, <1>2, <2>2 DEF Merges
  <2>4. Holding(out, s) = {Len(arr) + 1}
    <3>1. DOMAIN out = 1..(Len(arr) + 1)
      BY <2>2
    <3>2. \A i \in 1..(Len(arr) + 1) : i \in 1..Len(arr) \/ i = Len(arr) + 1
      BY <1>0
    <3>3. \A i \in 1..Len(arr) : ~RunsScript(out[i], s)
      BY <1>0, <1>2, <2>2 DEF Holding
    <3>4. Len(arr) + 1 \in Holding(out, s)
      BY <1>0, <2>2, <3>1 DEF Holding
    <3> QED BY <3>1, <3>2, <3>3, <3>4 DEF Holding
  <2>5. Alone(out, s) = {Len(arr) + 1}
    BY <1>0, <2>2, <2>4 DEF Alone
  <2>6. UpToDate(f, out, s, want)
    BY <1>0, <1>00, <2>2, <2>4, <2>5 DEF UpToDate
  <2>7. ~UpToDate(f, arr, s, want)
    BY <1>2 DEF UpToDate
  <2> QED BY <2>3, <2>6, <2>7 DEF out
<1>3. CASE Holding(arr, s) # {} /\ f = "codex"
  <2>1. up = arr /\ out = ref
    BY <1>1, <1>3 DEF MergeScript
  <2>2. /\ ref \in Seq(Groups) /\ Len(ref) = Len(arr)
        /\ \A i \in DOMAIN arr : ref[i] = arr[i]
              \/ (AllRun(arr[i], s) /\ Len(arr[i].hooks) = 1 /\ ref[i] = want)
        /\ AtFirst(ref, s, want)
        /\ AtFirst(arr, s, want) => ref = arr
    <3> HIDE DEF up
    <3> QED BY <2>1, Refreshes
  <2> HIDE DEF out, ref, up
  <2>3. Merges(f, arr, s, want, ref)
    BY <1>0, <1>3, <2>2 DEF Merges
  <2>4. Holding(ref, s) # {}
    <3>1. PICK i \in Holding(arr, s) : TRUE
      BY <1>3
    <3>2. i \in DOMAIN arr /\ RunsScript(arr[i], s) /\ i \in DOMAIN ref
      BY <1>0, <2>2 DEF Holding
    <3>3. RunsScript(ref[i], s)
      BY <1>0, <2>2, <3>2
    <3> QED BY <3>2, <3>3 DEF Holding
  <2> QED BY <1>3, <2>1, <2>2, <2>3, <2>4 DEF UpToDate, AtFirst, out
<1>4. CASE Holding(arr, s) # {} /\ f # "codex"
  <2>1. out = up
    BY <1>4 DEF MergeScript
  <2> HIDE DEF out, up
  <2>3. Merges(f, arr, s, want, up)
    BY <1>0, <1>1, <1>4 DEF Merges
  <2>4. Holding(up, s) = Holding(arr, s)
    <3>1. DOMAIN up = DOMAIN arr
      BY <1>1
    <3>2. ASSUME NEW i \in DOMAIN arr PROVE RunsScript(up[i], s) <=> RunsScript(arr[i], s)
      <4>1. up[i] = arr[i] \/ up[i].hooks = arr[i].hooks
        BY <1>1
      <4> QED BY <4>1 DEF RunsScript, HooksOf
    <3> QED BY <3>1, <3>2 DEF Holding
  <2>5. Cardinality(Holding(arr, s)) \in Nat
    BY HoldingIs, FS_CardinalityType
  <2>6. want.matcher # Narrow
    BY <1>4, <1>00
  <2>7. UpToDate(f, up, s, want)
    <3>1. CASE Cardinality(Holding(arr, s)) > 1
      BY <1>4, <2>4, <3>1 DEF UpToDate
    <3>2. CASE Cardinality(Holding(arr, s)) <= 1
      <4>1. \A i \in Holding(up, s) : i \in DOMAIN arr
        BY <2>4 DEF Holding
      <4>2. \A i \in DOMAIN arr : ~(up[i].matcher = Narrow /\ AllRun(up[i], s))
        BY <1>1, <2>6, <3>2
      <4> QED BY <1>4, <2>4, <4>1, <4>2 DEF UpToDate
    <3> QED BY <3>1, <3>2, <2>5
  <2>8. ASSUME UpToDate(f, arr, s, want) PROVE up = arr
    <3>1. CASE Cardinality(Holding(arr, s)) > 1
      BY <3>1 DEF UpgradeMatcher, up
    <3>2. CASE ~(Cardinality(Holding(arr, s)) > 1)
      <4>1. \A i \in Holding(arr, s) : ~(arr[i].matcher = Narrow /\ AllRun(arr[i], s))
        BY <2>8, <3>2, <1>4 DEF UpToDate
      <4>2. \A i \in DOMAIN arr : ~(arr[i].matcher = Narrow /\ AllRun(arr[i], s))
        <5>1. ASSUME NEW i \in DOMAIN arr, AllRun(arr[i], s) PROVE i \in Holding(arr, s)
          BY <5>1, AllRunIs DEF Holding
        <5> QED BY <4>1, <5>1
      <4>3. \A i \in DOMAIN arr : ~(arr[i].matcher = Narrow /\ arr[i].hooks # <<>> /\ \A h \in HooksOf(arr[i]) : h.script = s)
        BY <4>2 DEF AllRun
      <4>4. up = [i \in DOMAIN arr |->
                    IF arr[i].matcher = Narrow /\ arr[i].hooks # <<>> /\ \A h \in HooksOf(arr[i]) : h.script = s
                    THEN [arr[i] EXCEPT !.matcher = want.matcher] ELSE arr[i]]
        BY <3>2 DEF UpgradeMatcher, up
      <4>5. up = [i \in DOMAIN arr |-> arr[i]]
        BY <4>3, <4>4
      <4> QED BY <4>5
    <3> QED BY <3>1, <3>2
  <2> QED BY <2>1, <2>3, <2>7, <2>8 DEF out
<1> QED BY <1>2, <1>3, <1>4

-----------------------------------------------------------------------------
(* What a merge leaves alone *)

\* The scripts an absolute hook of arr names.
AbsIn(arr) == {s \in Scripts : \E i \in DOMAIN arr : \E h \in HooksOf(arr[i]) : h.ref = "absolute" /\ h.script = s}

\* out is arr, groups of ours changed in place and added at the end, one at most
\* for a script; what it names by an absolute path is in arr or in added.
Grown(arr, out, added) ==
    /\ out \in Seq(Groups)
    /\ Len(arr) <= Len(out)
    /\ \A i \in DOMAIN arr : LikeScripts(arr[i], out[i]) /\ (HasOwn(arr[i]) => out[i] = arr[i])
    /\ \A i \in (Len(arr) + 1)..Len(out) : ~HasOwn(out[i])
    /\ \A x \in Scripts : IF Holding(arr, x) # {} THEN Holding(out, x) = Holding(arr, x)
                          ELSE \E i : Holding(out, x) \subseteq {i}
    /\ AbsIn(out) \subseteq AbsIn(arr) \cup added

\* A group of hooks of s has none of the person's.
LEMMA AllRunOwn ==
    ASSUME NEW g \in Groups, NEW s \in Scripts, AllRun(g, s)
    PROVE  ~HasOwn(g)
<1>1. s # "own"
  BY HooksAssumption
<1> QED BY <1>1, AllRunIs DEF HasOwn

\* A file grows into itself.
LEMMA GrownSelf == ASSUME NEW arr \in Seq(Groups), NEW added PROVE Grown(arr, arr, added)
<1>1. \A i \in (Len(arr) + 1)..Len(arr) : FALSE
  OBVIOUS
<1>2. \A i \in DOMAIN arr : LikeScripts(arr[i], arr[i])
  BY DEF LikeScripts
<1> QED BY <1>1, <1>2 DEF Grown

\* What merging one script does.
Grew(arr, s, want, out) ==
    /\ out \in Seq(Groups) /\ Len(arr) <= Len(out)
    /\ \A i \in DOMAIN arr : LikeScripts(arr[i], out[i]) /\ (RunsScript(arr[i], s) \/ out[i] = arr[i])
    /\ \A i \in DOMAIN arr : \A x : x # s /\ RunsScript(arr[i], x) => out[i] = arr[i]
    /\ \A i \in (Len(arr) + 1)..Len(out) : out[i] = want /\ Len(out) = Len(arr) + 1 /\ i = Len(arr) + 1
    /\ Holding(arr, s) # {} => Len(out) = Len(arr)
    /\ \A i \in DOMAIN arr : out[i] = want \/ HooksOf(out[i]) = HooksOf(arr[i])

\* What merging one script does, of the groups before it.
LEMMA MergesGrow ==
    ASSUME NEW f, NEW arr \in Seq(Groups), NEW s \in Scripts, NEW want, JustRuns(want, s),
           NEW out, Merges(f, arr, s, want, out)
    PROVE  Grew(arr, s, want, out)
<1>1. /\ out \in Seq(Groups) /\ Len(arr) <= Len(out) /\ Len(arr) \in Nat
      /\ Len(out) = IF Holding(arr, s) = {} THEN Len(arr) + 1 ELSE Len(arr)
      /\ Holding(arr, s) = {} => out[Len(arr) + 1] = want
  BY DEF Merges
<1>2. want \in Groups /\ want.hooks \in Seq(Hooks) /\ Len(want.hooks) = 1 /\ want.hooks[1].script = s
  BY GroupIs DEF JustRuns
<1>3. ASSUME NEW i \in DOMAIN arr, out[i] # arr[i]
      PROVE  LikeScripts(arr[i], out[i]) /\ AllRun(arr[i], s) /\ (out[i] = want \/ out[i].hooks = arr[i].hooks)
  <2> DEFINE g == arr[i]
             k == out[i]
  <2>1. AllRun(g, s) /\ Len(k.hooks) = Len(g.hooks) /\ (k.hooks = g.hooks \/ k = want)
    BY <1>3 DEF Merges
  <2>2. g \in Groups
    OBVIOUS
  <2> HIDE DEF g, k
  <2>3. g.hooks \in Seq(Hooks)
    BY <2>2, GroupIs
  <2>4. CASE k.hooks = g.hooks
    BY <2>1, <2>4 DEF LikeScripts, g, k
  <2>5. CASE k = want
    <3>1. Len(g.hooks) = 1 /\ DOMAIN g.hooks = {1}
      BY <1>2, <2>1, <2>3, <2>5
    <3>2. g.hooks[1].script = s
      BY <2>1, <3>1 DEF AllRun, HooksOf, ToSet
    <3>3. LikeScripts(g, k)
      BY <1>2, <2>5, <3>1, <3>2 DEF LikeScripts
    <3> QED BY <2>1, <3>3 DEF g, k
  <2> QED BY <2>1, <2>4, <2>5
<1>4. ASSUME NEW i \in DOMAIN arr
      PROVE  /\ LikeScripts(arr[i], out[i]) /\ (RunsScript(arr[i], s) \/ out[i] = arr[i])
             /\ \A x : x # s /\ RunsScript(arr[i], x) => out[i] = arr[i]
             /\ out[i] = want \/ HooksOf(out[i]) = HooksOf(arr[i])
  <2>1. arr[i] \in Groups
    OBVIOUS
  <2>2. CASE out[i] = arr[i]
    BY <2>2 DEF LikeScripts
  <2>3. CASE out[i] # arr[i]
    <3>1. LikeScripts(arr[i], out[i]) /\ AllRun(arr[i], s) /\ (out[i] = want \/ out[i].hooks = arr[i].hooks)
      BY <1>3, <2>3
    <3>2. \A x : RunsScript(arr[i], x) <=> x = s
      BY <2>1, <3>1, AllRunIs
    <3> QED BY <3>1, <3>2 DEF HooksOf
  <2> QED BY <2>2, <2>3
<1>5. ASSUME NEW i \in (Len(arr) + 1)..Len(out)
      PROVE  out[i] = want /\ Len(out) = Len(arr) + 1 /\ i = Len(arr) + 1
  BY <1>1
<1> QED BY <1>1, <1>4, <1>5 DEF Grew

\* Groups changed in place to groups alike run the scripts they ran.
LEMMA HoldingLike ==
    ASSUME NEW arr \in Seq(Groups), NEW out \in Seq(Groups), NEW x, Len(arr) <= Len(out),
           \A i \in DOMAIN arr : LikeScripts(arr[i], out[i])
    PROVE  \A i \in DOMAIN arr : i \in Holding(out, x) <=> i \in Holding(arr, x)
<1>1. ASSUME NEW i \in DOMAIN arr PROVE i \in DOMAIN out /\ (RunsScript(out[i], x) <=> RunsScript(arr[i], x))
  <2>1. i \in DOMAIN out
    OBVIOUS
  <2>2. arr[i] \in Groups /\ out[i] \in Groups /\ LikeScripts(arr[i], out[i])
    BY <2>1
  <2> QED BY <2>1, <2>2, LikeRuns
<1> QED BY <1>1 DEF Holding

\* The groups that run x are where they were, as they were.
LeftAlone(f, arr, x, out) ==
    /\ Holding(out, x) = Holding(arr, x)
    /\ \A i \in Holding(arr, x) : out[i] = arr[i]
    /\ \A w : UpToDate(f, arr, x, w) => UpToDate(f, out, x, w)

\* Merging one script leaves the groups of any other alone.
LEMMA MergesKeep ==
    ASSUME NEW f, NEW arr \in Seq(Groups), NEW s \in Scripts, NEW want, JustRuns(want, s),
           NEW out, Merges(f, arr, s, want, out), NEW x, x # s
    PROVE  LeftAlone(f, arr, x, out)
<1>1. /\ out \in Seq(Groups) /\ Len(arr) <= Len(out) /\ Len(arr) \in Nat
      /\ \A i \in DOMAIN arr : LikeScripts(arr[i], out[i])
      /\ \A i \in DOMAIN arr : \A y : y # s /\ RunsScript(arr[i], y) => out[i] = arr[i]
      /\ \A i \in (Len(arr) + 1)..Len(out) : out[i] = want
  <2>1. Grew(arr, s, want, out)
    BY MergesGrow
  <2> QED BY <2>1 DEF Grew
<1>2. ~RunsScript(want, x)
  BY JustIs
<1>3. Holding(out, x) = Holding(arr, x)
  <2>1. \A i \in DOMAIN arr : i \in Holding(out, x) <=> i \in Holding(arr, x)
    BY <1>1, HoldingLike
  <2>2. \A i \in DOMAIN out : i \in DOMAIN arr \/ i \in (Len(arr) + 1)..Len(out)
    BY <1>1
  <2>3. \A i \in Holding(out, x) : i \in DOMAIN arr
    BY <1>1, <1>2, <2>2 DEF Holding
  <2>4. \A i \in Holding(arr, x) : i \in DOMAIN arr
    BY DEF Holding
  <2> QED BY <2>1, <2>3, <2>4
<1>4. \A i \in Holding(arr, x) : out[i] = arr[i]
  BY <1>1 DEF Holding
<1>5. Alone(out, x) = Alone(arr, x)
  BY <1>3, <1>4 DEF Alone
<1>6. \A i \in Alone(arr, x) : i \in Holding(arr, x)
  BY DEF Alone
<1>7. ASSUME NEW w, UpToDate(f, arr, x, w) PROVE UpToDate(f, out, x, w)
  BY <1>3, <1>4, <1>5, <1>6, <1>7 DEF UpToDate
<1> QED BY <1>3, <1>4, <1>7 DEF LeftAlone

\* A file that has grown still has after one more script is merged.
LEMMA GrownMerges ==
    ASSUME NEW f, NEW base \in Seq(Groups), NEW arr, NEW added, Grown(base, arr, added),
           NEW s \in Scripts, s \in added, NEW want, JustRuns(want, s),
           NEW out, Merges(f, arr, s, want, out)
    PROVE  Grown(base, out, added)
<1>0. /\ arr \in Seq(Groups) /\ Len(base) <= Len(arr)
      /\ \A i \in DOMAIN base : LikeScripts(base[i], arr[i]) /\ (HasOwn(base[i]) => arr[i] = base[i])
      /\ \A i \in (Len(base) + 1)..Len(arr) : ~HasOwn(arr[i])
      /\ \A x \in Scripts : IF Holding(base, x) # {} THEN Holding(arr, x) = Holding(base, x)
                            ELSE \E i : Holding(arr, x) \subseteq {i}
      /\ AbsIn(arr) \subseteq AbsIn(base) \cup added
  BY DEF Grown
<1>len. Len(arr) \in Nat /\ Len(base) \in Nat
  BY <1>0
<1>grew. Grew(arr, s, want, out)
  BY <1>0, MergesGrow
<1>1. /\ out \in Seq(Groups) /\ Len(arr) <= Len(out)
      /\ \A i \in DOMAIN arr : LikeScripts(arr[i], out[i]) /\ (RunsScript(arr[i], s) \/ out[i] = arr[i])
      /\ \A i \in DOMAIN arr : \A x : x # s /\ RunsScript(arr[i], x) => out[i] = arr[i]
      /\ \A i \in (Len(arr) + 1)..Len(out) : out[i] = want /\ Len(out) = Len(arr) + 1 /\ i = Len(arr) + 1
      /\ Holding(arr, s) # {} => Len(out) = Len(arr)
      /\ \A i \in DOMAIN arr : out[i] = want \/ HooksOf(out[i]) = HooksOf(arr[i])
  BY <1>grew DEF Grew
<1>2. want \in Groups /\ ~HasOwn(want) /\ \A x : RunsScript(want, x) <=> x = s
  BY JustIs, AllRunOwn DEF JustRuns
<1>3. "own" # s
  BY HooksAssumption
<1>4. ASSUME NEW i \in DOMAIN base PROVE LikeScripts(base[i], out[i]) /\ (HasOwn(base[i]) => out[i] = base[i])
  <2>1. i \in DOMAIN arr
    BY <1>0
  <2>2. LikeScripts(base[i], arr[i]) /\ LikeScripts(arr[i], out[i])
    BY <1>0, <1>len, <1>1, <2>1
  <2>3. LikeScripts(base[i], out[i])
    <3>1. base[i].hooks \in Seq(Hooks) /\ arr[i].hooks \in Seq(Hooks)
      <4>1. base[i] \in Groups /\ arr[i] \in Groups
        BY <1>0, <2>1
      <4> QED BY <4>1, GroupIs
    <3>2. DOMAIN base[i].hooks = DOMAIN arr[i].hooks
      BY <2>2, <3>1 DEF LikeScripts
    <3> QED BY <2>2, <3>2 DEF LikeScripts
  <2>4. ASSUME HasOwn(base[i]) PROVE out[i] = base[i]
    <3>1. arr[i] = base[i]
      BY <1>0, <2>4
    <3> QED BY <3>1, <2>1, <2>4, <1>1, <1>3 DEF HasOwn
  <2> QED BY <2>3, <2>4
<1>5. ASSUME NEW i \in (Len(base) + 1)..Len(out) PROVE ~HasOwn(out[i])
  <2>1. CASE i \in DOMAIN arr
    <3>1. ~HasOwn(arr[i]) /\ LikeScripts(arr[i], out[i]) /\ arr[i] \in Groups /\ out[i] \in Groups
      BY <1>0, <1>len, <1>1, <2>1
    <3> QED BY <3>1, LikeRuns DEF HasOwn
  <2>2. CASE i \in (Len(arr) + 1)..Len(out)
    BY <2>2, <1>1, <1>2
  <2> QED BY <2>1, <2>2, <1>0, <1>len, <1>1
<1>6. ASSUME NEW x \in Scripts
      PROVE  IF Holding(base, x) # {} THEN Holding(out, x) = Holding(base, x)
             ELSE \E i : Holding(out, x) \subseteq {i}
  <2>1. CASE x # s
    <3>1. Holding(out, x) = Holding(arr, x)
      <4>1. arr \in Seq(Groups)
        BY <1>0
      <4>2. LeftAlone(f, arr, x, out)
        BY <2>1, <4>1, MergesKeep
      <4> QED BY <4>2 DEF LeftAlone
    <3> QED BY <3>1, <1>0
  <2>2. CASE x = s /\ Holding(arr, x) # {}
    <3>1. \A i \in DOMAIN arr : i \in Holding(out, x) <=> i \in Holding(arr, x)
      BY <1>0, <1>len, <1>1, HoldingLike
    <3>2. DOMAIN out = DOMAIN arr
      BY <1>0, <1>len, <1>1, <2>2
    <3>3. Holding(out, x) = Holding(arr, x)
      BY <3>1, <3>2 DEF Holding
    <3> QED BY <3>3, <1>0
  <2>3. CASE x = s /\ Holding(arr, x) = {}
    <3>1. \A i \in DOMAIN arr : i \notin Holding(out, x)
      BY <1>0, <1>len, <1>1, <2>3, HoldingLike
    <3>2. \A i \in DOMAIN out : i \in DOMAIN arr \/ i = Len(arr) + 1
      BY <1>0, <1>len, <1>1
    <3>3. Holding(out, x) \subseteq {Len(arr) + 1}
      BY <3>1, <3>2 DEF Holding
    <3>4. Holding(base, x) = {}
      BY <1>0, <2>3
    <3> QED BY <3>3, <3>4
  <2> QED BY <2>1, <2>2, <2>3
<1>7. AbsIn(out) \subseteq AbsIn(base) \cup added
  <2>1. ASSUME NEW x \in AbsIn(out), x # s PROVE x \in AbsIn(arr)
    <3>1. PICK i \in DOMAIN out : \E h \in HooksOf(out[i]) : h.ref = "absolute" /\ h.script = x
      BY <2>1 DEF AbsIn
    <3>2. RunsScript(out[i], x)
      BY <3>1 DEF RunsScript
    <3>3. out[i] # want
      BY <3>2, <2>1, <1>2
    <3>4. i \in DOMAIN arr
      BY <3>3, <1>0, <1>len, <1>1
    <3>5. HooksOf(out[i]) = HooksOf(arr[i])
      BY <3>3, <3>4, <1>1
    <3> QED BY <3>1, <3>4, <3>5 DEF AbsIn
  <2> QED BY <2>1, <1>0
<1>8. Len(base) <= Len(out)
  BY <1>0, <1>len, <1>1
<1> QED BY <1>1, <1>4, <1>5, <1>6, <1>7, <1>8 DEF Grown

-----------------------------------------------------------------------------
(* A merge of several scripts *)

\* MergeGroups, script after script of hooksToAdd.
MergeRuns(f, arr, hooksToAdd, want) ==
    \E h \in [0..Len(hooksToAdd) -> Seq(Groups)] :
       /\ h[0] = arr
       /\ \A k \in 1..Len(hooksToAdd) : h[k] = MergeScript(f, h[k - 1], hooksToAdd[k], want[hooksToAdd[k]])
       /\ MergeGroups(f, arr, hooksToAdd, want) = h[Len(hooksToAdd)]

\* MergeGroups is the fold it is written as.
LEMMA MergeFold ==
    ASSUME NEW f, NEW arr \in Seq(Groups), NEW hooksToAdd \in Seq(Scripts), NEW ref \in Refs
    PROVE  MergeRuns(f, arr, hooksToAdd, Wirings(f, ref))
<1> DEFINE n == Len(hooksToAdd)
           want == Wirings(f, ref)
           S == Seq(Groups)
           Op(got, k) == MergeScript(f, got, hooksToAdd[k], want[hooksToAdd[k]])
           F == [q \in S \X (1..n) |-> Op(q[1], q[2])]
           B(g) == [q \in SUBSET DOMAIN hooksToAdd |->
                      IF q = {} THEN arr ELSE Op(g[q \ {Max(q)}], Max(q))]
           it == CHOOSE g : g = B(g)
<1>1. MergeGroups(f, arr, hooksToAdd, want) = it[DOMAIN hooksToAdd]
  BY DEF MergeGroups, FoldLeft, MapThenFoldSet
<1>2. n \in Nat /\ DOMAIN hooksToAdd = 1..n /\ arr \in S
  OBVIOUS
<1>3. \A got \in S, k \in 1..n : Op(got, k) \in S
  <2>1. ASSUME NEW got \in Seq(Groups), NEW k \in 1..n PROVE Op(got, k) \in Seq(Groups)
    <3> DEFINE s == hooksToAdd[k]
    <3>1. s \in Scripts
      OBVIOUS
    <3> HIDE DEF s
    <3>2. JustRuns(want[s], s) /\ want[s].matcher = IF f = "codex" THEN Narrow ELSE Wide
      BY <3>1, WiringTyped
    <3> HIDE DEF want
    <3>3. Merges(f, got, s, want[s], MergeScript(f, got, s, want[s]))
      BY <3>2, MergeScriptIs
    <3> QED BY <3>3 DEF Merges, s
  <2> QED BY <2>1
<1> HIDE DEF n, S, Op, want
<1>4. F \in [S \X (1..n) -> S]
  BY <1>3
<1> HIDE DEF F
<1>5. it = B(it)
  <2>1. PICK g : Folds(g, n, S, arr, F)
    BY <1>2, <1>4, FoldExists
  <2>2. \A q \in SUBSET (1..n) : q # {} => Max(q) \in 1..n /\ q \ {Max(q)} \in SUBSET (1..n)
    BY <1>2, MaxAmong
  <2>3. g = B(g)
    BY <1>2, <2>1, <2>2 DEF Folds, F
  <2> HIDE DEF B
  <2> QED BY <2>3
<1>6. Unfolds(it, n, S, arr, F)
  <2>1. \A q \in SUBSET (1..n) : it[q] = B(it)[q]
    BY <1>5
  <2> HIDE DEF it
  <2>2. \A q \in SUBSET (1..n) : q # {} => Max(q) \in 1..n
    BY <1>2, MaxAmong
  <2> QED BY <1>2, <2>1, <2>2 DEF F, Unfolds
<1> HIDE DEF it
<1>7. RunsTo(it[1..n], n, S, arr, F)
  BY <1>2, <1>4, <1>6, FoldIs
<1>8. PICK h \in [0..n -> S] : h[0] = arr /\ (\A k \in 1..n : h[k] = F[<<h[k - 1], k>>]) /\ h[n] = it[1..n]
  BY <1>7 DEF RunsTo
<1>9. \A k \in 1..n : h[k] = Op(h[k - 1], k)
  <2>1. \A k \in 1..n : k - 1 \in 0..n
    BY <1>2
  <2> QED BY <1>8, <2>1 DEF F
<1> QED BY <1>1, <1>2, <1>8, <1>9 DEF n, S, Op, MergeRuns, want

\* Every script of hooksToAdd is wired in arr, the way merging it leaves it.
AllFresh(f, arr, hooksToAdd, want) ==
    \A k \in DOMAIN hooksToAdd : UpToDate(f, arr, hooksToAdd[k], want[hooksToAdd[k]])

\* What merging does: arr grows by what was to be added, which is there then.
LEMMA MergeGroupsIs ==
    ASSUME NEW f, NEW arr \in Seq(Groups), NEW hooksToAdd \in Seq(Scripts), NEW ref \in Refs
    PROVE  LET out == MergeGroups(f, arr, hooksToAdd, Wirings(f, ref))
           IN  Grown(arr, out, ToSet(hooksToAdd)) /\ AllFresh(f, out, hooksToAdd, Wirings(f, ref))
<1> DEFINE n == Len(hooksToAdd)
           want == Wirings(f, ref)
           added == ToSet(hooksToAdd)
<1>1. n \in Nat /\ DOMAIN hooksToAdd = 1..n /\ \A k \in 1..n : hooksToAdd[k] \in Scripts
  OBVIOUS
<1>2. MergeRuns(f, arr, hooksToAdd, want)
  BY MergeFold
<1>3. PICK h \in [0..n -> Seq(Groups)] :
         /\ h[0] = arr
         /\ \A k \in 1..n : h[k] = MergeScript(f, h[k - 1], hooksToAdd[k], want[hooksToAdd[k]])
         /\ MergeGroups(f, arr, hooksToAdd, want) = h[n]
  BY <1>2 DEF MergeRuns
<1>4. \A k \in 1..n : hooksToAdd[k] \in added
  BY DEF ToSet
<1>5. ASSUME NEW s \in Scripts
      PROVE  JustRuns(want[s], s) /\ want[s].matcher = IF f = "codex" THEN Narrow ELSE Wide
  BY WiringTyped
<1> HIDE DEF n, want, added
<1>6. ASSUME NEW k \in 1..n
      PROVE  LET s == hooksToAdd[k]
             IN  Merges(f, h[k - 1], s, want[s], h[k]) /\ UpToDate(f, h[k], s, want[s])
  <2> DEFINE s == hooksToAdd[k]
             a == h[k - 1]
             w == want[s]
  <2>1. s \in Scripts /\ a \in Seq(Groups) /\ h[k] = MergeScript(f, a, s, w)
    BY <1>1, <1>3
  <2>2. JustRuns(w, s) /\ w.matcher = IF f = "codex" THEN Narrow ELSE Wide
    BY <1>5, <2>1
  <2> HIDE DEF s, a, w
  <2>3. Merges(f, a, s, w, MergeScript(f, a, s, w)) /\ UpToDate(f, MergeScript(f, a, s, w), s, w)
    BY <2>1, <2>2, MergeScriptIs
  <2> QED BY <2>1, <2>3 DEF s, a, w
<1>7. Grown(arr, h[n], added)
  <2> DEFINE S == {a \in Seq(Groups) : Grown(arr, a, added)}
  <2>1. h[0] \in S
    BY <1>3, GrownSelf
  <2>2. ASSUME NEW k \in 1..n, h[k - 1] \in S PROVE h[k] \in S
    <3> DEFINE s == hooksToAdd[k]
               a == h[k - 1]
               w == want[s]
               b == h[k]
    <3>1. s \in Scripts /\ s \in added /\ Grown(arr, a, added)
      BY <1>1, <1>4, <2>2
    <3>2. JustRuns(w, s) /\ Merges(f, a, s, w, b)
      BY <1>5, <1>6, <3>1
    <3> HIDE DEF s, a, w, b
    <3>3. Grown(arr, b, added)
      BY <3>1, <3>2, GrownMerges
    <3>4. b \in Seq(Groups)
      BY <3>3 DEF Grown
    <3> QED BY <3>3, <3>4 DEF b
  <2> HIDE DEF S
  <2>3. \A k \in 0..n : h[k] \in S
    BY <1>1, <2>1, <2>2, FoldStays
  <2> QED BY <1>1, <2>3 DEF S
<1>8. AllFresh(f, h[n], hooksToAdd, want)
  <2> DEFINE P(k) == \A j \in 1..k : UpToDate(f, h[k], hooksToAdd[j], want[hooksToAdd[j]])
             R == {k \in Nat : k <= n => P(k)}
  <2>1. 0 \in R
    OBVIOUS
  <2>2. ASSUME NEW k \in Nat, k \in R PROVE k + 1 \in R
    <3> SUFFICES ASSUME k + 1 <= n, NEW j \in 1..(k + 1)
                 PROVE  UpToDate(f, h[k + 1], hooksToAdd[j], want[hooksToAdd[j]])
      OBVIOUS
    <3>1. k + 1 \in 1..n /\ (k + 1) - 1 = k /\ j \in 1..n
      BY <1>1
    <3> DEFINE s == hooksToAdd[k + 1]
               x == hooksToAdd[j]
               a == h[k]
               b == h[k + 1]
               w == want[s]
               v == want[x]
    <3>2. s \in Scripts /\ x \in Scripts /\ JustRuns(w, s) /\ Merges(f, a, s, w, b) /\ UpToDate(f, b, s, w) /\ a \in Seq(Groups)
      BY <1>1, <1>3, <1>5, <1>6, <3>1
    <3>3. CASE x = s
      BY <3>2, <3>3
    <3>4. CASE x # s
      <4>0. j # k + 1
        BY <3>4
      <4>1. j \in 1..k
        <5> HIDE DEF s, x, a, b, w, v
        <5> QED BY <4>0, <3>1
      <4>2. UpToDate(f, a, x, v)
        BY <4>1, <2>2, <3>1, <1>1
      <4> HIDE DEF s, x, a, b, w, v
      <4>3. LeftAlone(f, a, x, b)
        BY <3>2, <3>4, MergesKeep
      <4>4. UpToDate(f, b, x, v)
        BY <4>2, <4>3 DEF LeftAlone
      <4> QED BY <4>4 DEF b, x, v
    <3> QED BY <3>3, <3>4
  <2>3. n \in R
    <3> HIDE DEF R
    <3> QED BY <1>1, <2>1, <2>2, NatInduct
  <2> QED BY <1>1, <2>3 DEF AllFresh
<1> QED BY <1>3, <1>7, <1>8 DEF want, added

\* Merging what is there changes nothing.
LEMMA MergeGroupsAgain ==
    ASSUME NEW f, NEW arr \in Seq(Groups), NEW hooksToAdd \in Seq(Scripts), NEW ref \in Refs,
           AllFresh(f, arr, hooksToAdd, Wirings(f, ref))
    PROVE  MergeGroups(f, arr, hooksToAdd, Wirings(f, ref)) = arr
<1> DEFINE n == Len(hooksToAdd)
           want == Wirings(f, ref)
<1>1. n \in Nat /\ DOMAIN hooksToAdd = 1..n /\ \A k \in 1..n : hooksToAdd[k] \in Scripts
  OBVIOUS
<1>2. MergeRuns(f, arr, hooksToAdd, want)
  BY MergeFold
<1>3. PICK h \in [0..n -> Seq(Groups)] :
         /\ h[0] = arr
         /\ \A k \in 1..n : h[k] = MergeScript(f, h[k - 1], hooksToAdd[k], want[hooksToAdd[k]])
         /\ MergeGroups(f, arr, hooksToAdd, want) = h[n]
  BY <1>2 DEF MergeRuns
<1>4. ASSUME NEW k \in 1..n, h[k - 1] \in {arr} PROVE h[k] \in {arr}
  <2> DEFINE s == hooksToAdd[k]
             w == want[s]
  <2>1. s \in Scripts /\ h[k] = MergeScript(f, arr, s, w) /\ UpToDate(f, arr, s, w)
    BY <1>1, <1>3, <1>4 DEF AllFresh
  <2>2. JustRuns(w, s) /\ w.matcher = IF f = "codex" THEN Narrow ELSE Wide
    BY <2>1, WiringTyped
  <2> HIDE DEF s, w
  <2>3. MergeScript(f, arr, s, w) = arr
    BY <2>1, <2>2, MergeScriptIs
  <2> QED BY <2>1, <2>3
<1> HIDE DEF n, want
<1>5. h[0] \in {arr}
  BY <1>3
<1>6. \A k \in 0..n : h[k] \in {arr}
  <2> DEFINE S == {arr}
  <2>1. h[0] \in S /\ \A k \in 1..n : h[k - 1] \in S => h[k] \in S
    BY <1>4, <1>5
  <2> HIDE DEF S
  <2>2. \A k \in 0..n : h[k] \in S
    BY <1>1, <2>1, FoldStays
  <2> QED BY <2>2 DEF S
<1> QED BY <1>1, <1>3, <1>6 DEF want

-----------------------------------------------------------------------------
(* What an install selects *)

\* Conditions that agree on the entries filter alike.
LEMMA AmongLike ==
    ASSUME NEW T, NEW s \in Seq(T), NEW G, NEW H, \A i \in DOMAIN s : s[i] \in G <=> s[i] \in H
    PROVE  Among(s, G) = Among(s, H)
<1>1. Len(s) <= Len(s) /\ \A i \in (Len(s) + 1)..Len(s) : s[i] \notin H
  OBVIOUS
<1>2. \A i \in DOMAIN s : (s[i] \in G <=> s[i] \in H) /\ (s[i] \in G => s[i] = s[i])
  OBVIOUS
<1> QED BY <1>1, <1>2, AmongSame

\* A filter keeps the entries that pass, in the type and once each if they were.
LEMMA AmongRange ==
    ASSUME NEW T, NEW s \in Seq(T), NEW G
    PROVE  /\ Among(s, G) \in Seq(T)
           /\ ToSet(Among(s, G)) = ToSet(s) \cap G
           /\ IsInjective(s) => IsInjective(Among(s, G))
<1> DEFINE r == Among(s, G)
<1>1. r \in Seq(T)
  <2>1. r \in Seq(T \cap G)
    BY AmongTyped
  <2> HIDE DEF r
  <2> QED BY <2>1
<1>2. PICK m : Picks(m, r, s, G)
  BY AmongPicks
<1> HIDE DEF r
<1>3. DOMAIN r = 1..Len(r) /\ DOMAIN s = 1..Len(s)
  BY <1>1
<1>4. ToSet(r) = ToSet(s) \cap G
  <2>1. ASSUME NEW i \in DOMAIN r PROVE r[i] \in ToSet(s) /\ r[i] \in G
    <3>1. m[i] \in DOMAIN s /\ r[i] = s[m[i]] /\ s[m[i]] \in G
      BY <1>2, <1>3 DEF Picks
    <3> QED BY <3>1 DEF ToSet
  <2>2. ASSUME NEW k \in DOMAIN s, s[k] \in G PROVE s[k] \in ToSet(r)
    <3>1. PICK i \in 1..Len(r) : m[i] = k
      BY <1>2, <1>3, <2>2 DEF Picks
    <3>2. r[i] = s[k] /\ i \in DOMAIN r
      BY <1>2, <1>3, <3>1 DEF Picks
    <3> QED BY <3>2 DEF ToSet
  <2> QED BY <2>1, <2>2 DEF ToSet
<1>5. ASSUME IsInjective(s) PROVE IsInjective(r)
  <2>1. ASSUME NEW i \in DOMAIN r, NEW j \in DOMAIN r, r[i] = r[j] PROVE i = j
    <3>1. m[i] \in DOMAIN s /\ r[i] = s[m[i]] /\ m[j] \in DOMAIN s /\ r[j] = s[m[j]]
      BY <1>2, <1>3 DEF Picks
    <3>2. m[i] = m[j]
      BY <3>1, <2>1, <1>5 DEF IsInjective
    <3> QED BY <3>2, <1>2, <1>3 DEF Picks
  <2> QED BY <2>1 DEF IsInjective
<1> QED BY <1>1, <1>4, <1>5 DEF r

\* A filter of groups leaves no more that run a script, and as many when those pass.
LEMMA HoldingAmong ==
    ASSUME NEW arr \in Seq(Groups), NEW G, NEW x
    PROVE  LET out == Among(arr, G)
           IN  /\ Cardinality(Holding(out, x)) <= Cardinality(Holding(arr, x))
               /\ (\A i \in Holding(arr, x) : arr[i] \in G) =>
                    Cardinality(Holding(out, x)) = Cardinality(Holding(arr, x))
<1> DEFINE out == Among(arr, G)
           H == Holding(out, x)
           K == Holding(arr, x)
<1>1. out \in Seq(Groups)
  BY AmongRange
<1>2. PICK m : Picks(m, out, arr, G)
  BY AmongPicks
<1> DEFINE q == [i \in H |-> m[i]]
<1> HIDE DEF out
<1>3. DOMAIN out = 1..Len(out) /\ DOMAIN arr = 1..Len(arr)
  BY <1>1
<1>4. ASSUME NEW i \in H PROVE m[i] \in K /\ i \in 1..Len(out)
  <2>1. i \in 1..Len(out) /\ RunsScript(out[i], x)
    BY <1>3 DEF Holding
  <2>2. m[i] \in DOMAIN arr /\ out[i] = arr[m[i]]
    BY <1>2, <1>3, <2>1 DEF Picks
  <2> QED BY <2>1, <2>2 DEF Holding
<1>5. IsFiniteSet(K)
  BY HoldingIs
<1> HIDE DEF H, K
<1>6. q \in Injection(H, K)
  <2>1. q \in [H -> K]
    BY <1>4
  <2>2. ASSUME NEW i \in H, NEW j \in H, q[i] = q[j] PROVE i = j
    BY <2>2, <1>2, <1>4 DEF Picks
  <2> HIDE DEF q
  <2> QED BY <2>1, <2>2 DEF Injection, IsInjective
<1>7. ASSUME \A i \in K : arr[i] \in G PROVE q \in Surjection(H, K)
  <2>1. ASSUME NEW k \in K PROVE \E i \in H : q[i] = k
    <3>1. k \in 1..Len(arr) /\ arr[k] \in G /\ RunsScript(arr[k], x)
      BY <1>3, <1>7 DEF Holding, K
    <3>2. PICK i \in 1..Len(out) : m[i] = k
      BY <3>1, <1>2 DEF Picks
    <3>3. i \in H
      BY <3>1, <3>2, <1>2, <1>3 DEF Picks, Holding, H
    <3> QED BY <3>2, <3>3
  <2>2. q \in [H -> K]
    BY <1>4
  <2> HIDE DEF q
  <2> QED BY <2>1, <2>2 DEF Surjection
<1> HIDE DEF q
<1>8. Cardinality(H) <= Cardinality(K) /\ (Cardinality(H) = Cardinality(K) <=> q \in Surjection(H, K))
  BY <1>5, <1>6, FS_Injection
<1> QED BY <1>7, <1>8 DEF H, K, out

\* What an install wires.
Selected(f, p, only) == {s \in Scripts : s \in InProfile(p) \cap AgentRuns(f) /\ (only = {} \/ s \in only)}

\* The scripts an install wires in are those it selects, each once.
LEMMA SelectedIs ==
    ASSUME NEW f, NEW p, NEW only
    PROVE  /\ selectedHooks(f, p, only) \in Seq(Scripts)
           /\ ToSet(selectedHooks(f, p, only)) = Selected(f, p, only)
           /\ IsInjective(selectedHooks(f, p, only))
<1> DEFINE G == {s \in ToSet(Canonical) : s \in InProfile(p) \cap AgentRuns(f) /\ (only = {} \/ s \in only)}
<1>1. selectedHooks(f, p, only) = Among(Canonical, G)
  BY DEF selectedHooks, Those
<1>2. Canonical \in Seq(Scripts) /\ IsInjective(Canonical)
  <2>1. Canonical \in Seq(STRING) /\ IsInjective(Canonical)
    BY HooksAssumption
  <2>2. \A i \in DOMAIN Canonical : Canonical[i] \in Scripts
    BY DEF Scripts, ToSet
  <2> QED BY <2>1, <2>2
<1>3. ToSet(Canonical) = Scripts
  BY DEF Scripts
<1> HIDE DEF G
<1>4. Among(Canonical, G) \in Seq(Scripts) /\ ToSet(Among(Canonical, G)) = ToSet(Canonical) \cap G
      /\ IsInjective(Among(Canonical, G))
  BY <1>2, AmongRange
<1> QED BY <1>1, <1>3, <1>4 DEF Selected, G

\* The groups an install wires in, by the reference it uses.
LEMMA ScriptsWanted ==
    ASSUME NEW f \in HookFiles
    PROVE  /\ WantedGroups(f) = Wirings(f, RefFor(f)) /\ RefFor(f) \in Refs
           /\ f = "cursor" => RefFor(f) = "absolute"
<1>1. WantedGroups(f) = Wirings(f, RefFor(f))
  BY DEF WantedGroups, Wirings
<1>2. RefFor(f) \in Refs
  BY DEF RefFor, Refs
<1>3. f = "cursor" => RefFor(f) = "absolute"
  BY DEF RefFor, ClaudeFiles
<1> QED BY <1>1, <1>2, <1>3

\* A group of the person's alone, and the groups a hook of the person's is in.
OwnGroups == {g \in Groups : HasOwn(g)}

\* The groups with a hook of the person's, as a filter.
LEMMA ThoseOwn ==
    ASSUME NEW arr \in Seq(Groups)
    PROVE  Those(arr, HasOwn) = Among(arr, OwnGroups)
<1>1. Those(arr, HasOwn) = Among(arr, {e \in ToSet(arr) : HasOwn(e)})
  BY DEF Those
<1>2. \A i \in DOMAIN arr : arr[i] \in ToSet(arr) /\ arr[i] \in Groups
  BY DEF ToSet
<1>3. \A i \in DOMAIN arr : arr[i] \in {e \in ToSet(arr) : HasOwn(e)} <=> arr[i] \in OwnGroups
  BY <1>2 DEF OwnGroups
<1> DEFINE G == {e \in ToSet(arr) : HasOwn(e)}
<1> HIDE DEF G
<1>4. Among(arr, G) = Among(arr, OwnGroups)
  BY <1>3, AmongLike DEF G
<1> QED BY <1>1, <1>4 DEF G

\* A growing file keeps the groups with a hook of the person's, in their order.
LEMMA GrownOwn ==
    ASSUME NEW arr \in Seq(Groups), NEW out, NEW added, Grown(arr, out, added)
    PROVE  Among(out, OwnGroups) = Among(arr, OwnGroups)
<1>1. /\ out \in Seq(Groups) /\ Len(arr) <= Len(out)
      /\ \A i \in DOMAIN arr : LikeScripts(arr[i], out[i]) /\ (HasOwn(arr[i]) => out[i] = arr[i])
      /\ \A i \in (Len(arr) + 1)..Len(out) : ~HasOwn(out[i])
  BY DEF Grown
<1>2. ASSUME NEW i \in DOMAIN arr
      PROVE  (arr[i] \in OwnGroups <=> out[i] \in OwnGroups) /\ (arr[i] \in OwnGroups => arr[i] = out[i])
  <2>1. i \in DOMAIN out
    BY <1>1
  <2>2. arr[i] \in Groups /\ out[i] \in Groups /\ LikeScripts(arr[i], out[i])
    BY <1>1, <2>1
  <2>3. HasOwn(out[i]) <=> HasOwn(arr[i])
    BY <2>2, LikeRuns DEF HasOwn
  <2> QED BY <2>2, <2>3, <1>1 DEF OwnGroups
<1>3. \A i \in (Len(arr) + 1)..Len(out) : out[i] \notin OwnGroups
  BY <1>1 DEF OwnGroups
<1>4. Among(arr, OwnGroups) = Among(out, OwnGroups)
  BY <1>1, <1>2, <1>3, AmongSame
<1> QED BY <1>4

-----------------------------------------------------------------------------
(* A Cursor file *)

\* A group of Cursor's file is the person's or runs one script through the adapter.
LEMMA CursorGroup ==
    ASSUME NEW g \in CursorGroups
    PROVE  \/ g = OwnGroup /\ ~OursCursor(g) /\ \A s \in Scripts : ~RunsScript(g, s)
           \/ \E s \in Scripts : g = Wirings("cursor", "absolute")[s] /\ OursCursor(g)
                                 /\ ~HasOwn(g) /\ \A x : RunsScript(g, x) <=> x = s
<1>1. CASE g = OwnGroup
  <2>1. g.hooks = <<Own>> /\ HooksOf(g) = {Own}
    BY <1>1 DEF OwnGroup, Group, HooksOf, ToSet
  <2>2. Own.script = "own" /\ Own.ref = "hand" /\ "own" \notin Scripts
    BY HooksAssumption DEF Own, Hook
  <2> QED BY <1>1, <2>1, <2>2 DEF OursCursor, RunsScript
<1>2. CASE \E s \in Scripts : g = Group(Wide, <<Hook(s, "absolute")>>)
  <2>1. PICK s \in Scripts : g = Group(Wide, <<Hook(s, "absolute")>>)
    BY <1>2
  <2>2. g = Wirings("cursor", "absolute")[s] /\ "absolute" \in Refs
    BY <2>1 DEF Wirings, Refs
  <2>3. JustRuns(g, s) /\ HooksOf(g) = {Hook(s, "absolute")}
    BY <2>2, WiringTyped
  <2>4. OursCursor(g)
    BY <2>3 DEF OursCursor, Hook
  <2>5. g \in Groups /\ AllRun(g, s) /\ \A x : RunsScript(g, x) <=> x = s
    BY <2>3, JustIs DEF JustRuns
  <2>6. ~HasOwn(g)
    BY <2>5, AllRunOwn
  <2> QED BY <2>2, <2>4, <2>5, <2>6
<1> QED BY <1>1, <1>2 DEF CursorGroups

\* What an install wires in for Cursor is a group of Cursor's.
LEMMA WiringCursor ==
    ASSUME NEW s \in Scripts
    PROVE  Wirings("cursor", "absolute")[s] \in CursorGroups
BY DEF CursorGroups, Wirings

\* A hook that names an absolute path runs a script of ours.
LEMMA AbsTyped ==
    ASSUME NEW g \in Groups, NEW h \in HooksOf(g), h.ref = "absolute"
    PROVE  h.script \in Scripts
<1>1. g.hooks \in Seq(Hooks)
  BY GroupIs
<1>2. h \in Hooks
  BY <1>1 DEF HooksOf, ToSet
<1> QED BY <1>2 DEF Hooks, Own, Hook

\* However many groups ran a script before, no more run it now, or at most one.
Once(arr, out) ==
    \A x \in Scripts : \/ Cardinality(Holding(out, x)) <= 1
                       \/ Cardinality(Holding(out, x)) <= Cardinality(Holding(arr, x))

\* A part of a set of one has one member at most.
LEMMA AtMostOne ==
    ASSUME NEW S, NEW i, S \subseteq {i}
    PROVE  Cardinality(S) <= 1
<1>1. IsFiniteSet({i}) /\ Cardinality({i}) = 1
  BY FS_Singleton
<1> QED BY <1>1, FS_Subset

\* What an install makes of arr: the file's groups, no new absolute path but of
\* what is added, the person's hooks as they were, nothing twice.
Did(f, arr, added, out) ==
    /\ out \in Seq(GroupsOf(f))
    /\ AbsIn(out) \subseteq AbsIn(arr) \cup added
    /\ Among(out, OwnGroups) = Among(arr, OwnGroups)
    /\ Once(arr, out)
    /\ \A s \in added : Holding(out, s) # {}

\* Cursor's groups are stale when a script to be added, or any, is in them.
Stays(arr, hooksToAdd, only) ==
    {g \in ToSet(arr) : ~(OursCursor(g) /\ (only = {} \/ \E s \in ToSet(hooksToAdd) : RunsScript(g, s)))}
CursorTail(hooksToAdd, want) == [i \in DOMAIN hooksToAdd |-> want[hooksToAdd[i]]]

\* MergeCursor is a filter, and the new groups after it.
LEMMA MergeCursorIs ==
    ASSUME NEW arr, NEW hooksToAdd, NEW want, NEW only
    PROVE  MergeCursor(arr, hooksToAdd, want, only) =
             Among(arr, Stays(arr, hooksToAdd, only)) \o CursorTail(hooksToAdd, want)
BY DEF MergeCursor, Those, Stays, CursorTail

\* out is a, and b after it.
Joined(a, b, out) ==
    /\ DOMAIN out = 1..(Len(a) + Len(b))
    /\ \A i \in 1..Len(a) : out[i] = a[i]
    /\ \A i \in 1..Len(b) : out[Len(a) + i] = b[i]
    /\ \A i \in DOMAIN out : i \in 1..Len(a) \/ \E j \in 1..Len(b) : i = Len(a) + j
    /\ \A j \in 1..Len(b) : Len(a) + j \in DOMAIN out

\* What a concatenation is made of.
LEMMA ConcatIs ==
    ASSUME NEW T, NEW a \in Seq(T), NEW b \in Seq(T)
    PROVE  a \o b \in Seq(T) /\ Joined(a, b, a \o b)
<1>1. Len(a) \in Nat /\ Len(b) \in Nat
  OBVIOUS
<1>2. a \o b \in Seq(T) /\ DOMAIN (a \o b) = 1..(Len(a) + Len(b))
  OBVIOUS
<1>3. /\ \A i \in 1..Len(a) : (a \o b)[i] = a[i]
      /\ \A i \in 1..Len(b) : (a \o b)[Len(a) + i] = b[i]
  OBVIOUS
<1>4. ASSUME NEW i \in 1..(Len(a) + Len(b)) PROVE i \in 1..Len(a) \/ \E j \in 1..Len(b) : i = Len(a) + j
  <2>1. CASE i <= Len(a)
    BY <2>1
  <2>2. CASE i > Len(a)
    <3>1. i - Len(a) \in 1..Len(b) /\ i = Len(a) + (i - Len(a))
      BY <1>1, <2>2
    <3> QED BY <3>1
  <2> QED BY <1>1, <2>1, <2>2
<1>5. \A j \in 1..Len(b) : Len(a) + j \in 1..(Len(a) + Len(b))
  BY <1>1
<1> QED BY <1>2, <1>3, <1>4, <1>5 DEF Joined

\* What is in a file of Cursor's after an install.
LEMMA MergeCursorDoes ==
    ASSUME NEW arr \in Seq(CursorGroups), NEW hooksToAdd \in Seq(Scripts), IsInjective(hooksToAdd),
           NEW only, NEW want, want = Wirings("cursor", "absolute")
    PROVE  LET out == MergeCursor(arr, hooksToAdd, want, only)
           IN  Did("cursor", arr, ToSet(hooksToAdd), out) /\ MergeCursor(out, hooksToAdd, want, only) = out
<1> DEFINE K == Stays(arr, hooksToAdd, only)
           a == Among(arr, K)
           b == CursorTail(hooksToAdd, want)
           out == MergeCursor(arr, hooksToAdd, want, only)
           added == ToSet(hooksToAdd)
<1>1. out = a \o b
  BY MergeCursorIs
<1>2. \A s \in Scripts : want[s] \in CursorGroups
  BY WiringCursor
<1>3. b \in Seq(CursorGroups) /\ Len(b) = Len(hooksToAdd)
      /\ \A i \in 1..Len(b) : hooksToAdd[i] \in Scripts /\ b[i] = want[hooksToAdd[i]] /\ hooksToAdd[i] \in added
  <2>1. DOMAIN hooksToAdd = 1..Len(hooksToAdd) /\ Len(hooksToAdd) \in Nat
    OBVIOUS
  <2>2. \A i \in 1..Len(hooksToAdd) : hooksToAdd[i] \in Scripts
    OBVIOUS
  <2>3. \A i \in 1..Len(hooksToAdd) : hooksToAdd[i] \in added
    BY <2>1 DEF ToSet
  <2>4. b = [i \in 1..Len(hooksToAdd) |-> want[hooksToAdd[i]]]
    BY <2>1 DEF CursorTail
  <2> HIDE DEF b, added
  <2>5. \A i \in 1..Len(hooksToAdd) : want[hooksToAdd[i]] \in CursorGroups
    BY <1>2, <2>2
  <2>6. b \in Seq(CursorGroups) /\ Len(b) = Len(hooksToAdd)
    BY <2>1, <2>4, <2>5
  <2> QED BY <2>2, <2>3, <2>4, <2>6
<1>4. a \in Seq(CursorGroups) /\ ToSet(a) = ToSet(arr) \cap K
  BY AmongRange
<1>5. \A i \in 1..Len(a) : a[i] \in K /\ a[i] \in ToSet(arr) /\ a[i] \in CursorGroups
  <2> HIDE DEF a, K
  <2>1. \A i \in 1..Len(a) : a[i] \in ToSet(a)
    BY <1>4 DEF ToSet
  <2> QED BY <1>4, <2>1
<1>6. \A i \in 1..Len(b) : /\ \A x : RunsScript(b[i], x) <=> x = hooksToAdd[i]
                           /\ OursCursor(b[i]) /\ ~HasOwn(b[i])
                           /\ HooksOf(b[i]) = {Hook(hooksToAdd[i], "absolute")}
  <2>1. ASSUME NEW s \in Scripts
        PROVE  /\ \A x : RunsScript(want[s], x) <=> x = s
               /\ OursCursor(want[s]) /\ ~HasOwn(want[s])
               /\ HooksOf(want[s]) = {Hook(s, "absolute")}
    <3>1. JustRuns(want[s], s) /\ HooksOf(want[s]) = {Hook(s, "absolute")}
      BY WiringTyped DEF Refs
    <3>2. AllRun(want[s], s) /\ want[s] \in Groups /\ \A x : RunsScript(want[s], x) <=> x = s
      BY <3>1, JustIs DEF JustRuns
    <3>3. ~HasOwn(want[s])
      BY <3>2, AllRunOwn
    <3>4. OursCursor(want[s])
      <4>1. Hook(s, "absolute").ref = "absolute"
        BY DEF Hook
      <4> QED BY <3>1, <4>1 DEF OursCursor
    <3> QED BY <3>1, <3>2, <3>3, <3>4
  <2> QED BY <2>1, <1>3
<1>15. \A i \in 1..Len(b) : \A x : RunsScript(b[i], x) <=> x = hooksToAdd[i]
  BY <1>6
<1>7. /\ DOMAIN arr = 1..Len(arr) /\ Seq(CursorGroups) \subseteq Seq(Groups)
      /\ arr \in Seq(Groups) /\ GroupsOf("cursor") = CursorGroups /\ Len(a) \in Nat /\ Len(b) \in Nat
  <2>1. Seq(CursorGroups) \subseteq Seq(Groups)
    BY CursorTyped
  <2> HIDE DEF a, b
  <2> QED BY <2>1, <1>3, <1>4 DEF GroupsOf
<1> HIDE DEF K, a, b, out, added
<1>8. /\ out \in Seq(CursorGroups) /\ DOMAIN out = 1..(Len(a) + Len(b))
      /\ \A i \in 1..Len(a) : out[i] = a[i]
      /\ \A i \in 1..Len(b) : out[Len(a) + i] = b[i]
      /\ \A i \in DOMAIN out : i \in 1..Len(a) \/ \E j \in 1..Len(b) : i = Len(a) + j
      /\ \A j \in 1..Len(b) : Len(a) + j \in DOMAIN out
  <2>1. a \o b \in Seq(CursorGroups) /\ Joined(a, b, a \o b)
    BY <1>3, <1>4, ConcatIs
  <2> QED BY <1>1, <2>1 DEF Joined
<1>9. AbsIn(out) \subseteq AbsIn(arr) \cup added
  <2>1. ASSUME NEW x \in AbsIn(out) PROVE x \in AbsIn(arr) \cup added
    <3>1. PICK i \in DOMAIN out : \E h \in HooksOf(out[i]) : h.ref = "absolute" /\ h.script = x
      BY <2>1 DEF AbsIn
    <3>2. CASE i \in 1..Len(a)
      <4>1. out[i] \in ToSet(arr)
        BY <3>2, <1>5, <1>8
      <4>2. PICK j \in DOMAIN arr : arr[j] = out[i]
        BY <4>1 DEF ToSet
      <4> QED BY <2>1, <3>1, <4>2 DEF AbsIn
    <3>3. CASE \E j \in 1..Len(b) : i = Len(a) + j
      <4>1. PICK j \in 1..Len(b) : i = Len(a) + j
        BY <3>3
      <4>2. HooksOf(out[i]) = {Hook(hooksToAdd[j], "absolute")} /\ hooksToAdd[j] \in added
        BY <4>1, <1>3, <1>6, <1>8
      <4>3. x = hooksToAdd[j]
        BY <3>1, <4>2 DEF Hook
      <4> QED BY <4>2, <4>3
    <3> QED BY <3>1, <3>2, <3>3, <1>8
  <2> QED BY <2>1
<1>10. Among(out, OwnGroups) = Among(arr, OwnGroups)
  <2>1. Among(out, OwnGroups) = Among(a, OwnGroups) \o Among(b, OwnGroups)
    BY <1>1, <1>3, <1>4, AmongConcat
  <2>2. Among(b, OwnGroups) = <<>>
    <3>1. \A i \in DOMAIN b : b[i] \notin OwnGroups
      BY <1>3, <1>6 DEF OwnGroups
    <3> QED BY <3>1, <1>3, AmongNone
  <2>3. Among(a, OwnGroups) = Among(arr, OwnGroups)
    <3>1. ASSUME NEW i \in DOMAIN arr, arr[i] \in OwnGroups PROVE arr[i] \in K
      <4>1. arr[i] \in CursorGroups /\ HasOwn(arr[i]) /\ arr[i] \in ToSet(arr)
        BY <3>1 DEF OwnGroups, ToSet
      <4>2. ~OursCursor(arr[i])
        BY <4>1, CursorGroup
      <4> QED BY <4>1, <4>2 DEF Stays, K
    <3>2. Among(Among(arr, K), OwnGroups) = Among(arr, OwnGroups)
      BY <3>1, AmongAmong
    <3> QED BY <3>2 DEF a
  <2>4. Among(arr, OwnGroups) \in Seq(CursorGroups)
    BY AmongRange
  <2> DEFINE r == Among(arr, OwnGroups)
  <2>5. r \in Seq(CursorGroups) => r \o <<>> = r
    <3> HIDE DEF r
    <3> QED OBVIOUS
  <2> QED BY <2>1, <2>2, <2>3, <2>4, <2>5
<1>11. Once(arr, out)
  <2>1. ASSUME NEW x \in Scripts, x \in added PROVE Cardinality(Holding(out, x)) <= 1
    <3>1. ASSUME NEW i \in 1..Len(a) PROVE ~RunsScript(a[i], x)
      <4>1. SUFFICES ASSUME RunsScript(a[i], x) PROVE FALSE
        OBVIOUS
      <4>2. OursCursor(a[i])
        BY <4>1, <1>5, CursorGroup
      <4> QED BY <4>1, <4>2, <2>1, <1>5 DEF K, Stays, added
    <3>2. PICK k \in DOMAIN hooksToAdd : hooksToAdd[k] = x
      BY <2>1 DEF added, ToSet
    <3>3. ASSUME NEW i \in Holding(out, x) PROVE i = Len(a) + k
      <4>1. i \in DOMAIN out /\ RunsScript(out[i], x)
        BY <3>3 DEF Holding
      <4>2. i \notin 1..Len(a)
        BY <3>1, <4>1, <1>8
      <4>3. PICK j \in 1..Len(b) : i = Len(a) + j
        BY <4>1, <4>2, <1>8
      <4>4. hooksToAdd[j] = x /\ j \in DOMAIN hooksToAdd
        <5>1. out[i] = b[j] /\ RunsScript(b[j], x)
          BY <4>1, <4>3, <1>8
        <5>2. hooksToAdd[j] = x
          BY <5>1, <1>15
        <5>3. DOMAIN hooksToAdd = 1..Len(b)
          BY <1>3
        <5> QED BY <5>2, <5>3
      <4>5. j = k
        BY <3>2, <4>4 DEF IsInjective
      <4> QED BY <4>3, <4>5
    <3>4. Holding(out, x) \subseteq {Len(a) + k}
      BY <3>3
    <3> QED BY <3>4, AtMostOne
  <2>2. ASSUME NEW x \in Scripts, x \notin added
        PROVE  Cardinality(Holding(out, x)) <= Cardinality(Holding(arr, x))
    <3>1. Holding(out, x) = Holding(a, x)
      <4>1. ASSUME NEW j \in 1..Len(b) PROVE ~RunsScript(out[Len(a) + j], x)
        <5>1. out[Len(a) + j] = b[j] /\ hooksToAdd[j] \in added
          BY <1>3, <1>8
        <5> QED BY <5>1, <2>2, <1>15
      <4>2. DOMAIN a = 1..Len(a)
        BY <1>4
      <4>3. \A i \in 1..Len(a) : i \in DOMAIN out
        BY <1>7, <1>8
      <4>4. \A i \in DOMAIN a : i \in Holding(out, x) <=> i \in Holding(a, x)
        BY <4>2, <4>3, <1>8 DEF Holding
      <4>5. \A i \in Holding(out, x) : i \in DOMAIN a
        BY <4>1, <4>2, <1>8 DEF Holding
      <4>6. \A i \in Holding(a, x) : i \in DOMAIN a
        BY DEF Holding
      <4> QED BY <4>4, <4>5, <4>6
    <3>2. Cardinality(Holding(a, x)) <= Cardinality(Holding(arr, x))
      BY <1>7, HoldingAmong DEF a
    <3> QED BY <3>1, <3>2
  <2> QED BY <2>1, <2>2 DEF Once
<1>12. ASSUME NEW s \in added PROVE Holding(out, s) # {}
  <2>1. PICK k \in DOMAIN hooksToAdd : hooksToAdd[k] = s
    BY DEF added, ToSet
  <2>2. k \in 1..Len(b)
    BY <1>3
  <2>3. Len(a) + k \in Holding(out, s)
    BY <2>1, <2>2, <1>6, <1>8 DEF Holding
  <2> QED BY <2>3
<1>13. MergeCursor(out, hooksToAdd, want, only) = out
  <2> DEFINE K2 == Stays(out, hooksToAdd, only)
  <2>1. MergeCursor(out, hooksToAdd, want, only) = Among(out, K2) \o b
    BY MergeCursorIs DEF b
  <2>2. \A i \in DOMAIN a : a[i] \in K2
    <3>1. ASSUME NEW i \in 1..Len(a) PROVE a[i] \in ToSet(out)
      <4>1. i \in DOMAIN out /\ out[i] = a[i]
        BY <1>7, <1>8
      <4> QED BY <4>1 DEF ToSet
    <3> QED BY <3>1, <1>4, <1>5 DEF K, Stays
  <2>3. \A i \in DOMAIN b : b[i] \notin K2
    <3>1. ASSUME NEW i \in 1..Len(b) PROVE b[i] \notin K2
      <4>1. OursCursor(b[i]) /\ hooksToAdd[i] \in added
        BY <1>3, <1>6
      <4>2. RunsScript(b[i], hooksToAdd[i])
        BY <1>15
      <4> QED BY <4>1, <4>2 DEF Stays, added
    <3>2. DOMAIN b = 1..Len(b)
      BY <1>3
    <3> QED BY <3>1, <3>2
  <2> HIDE DEF K2
  <2>4. Among(out, K2) = Among(a, K2) \o Among(b, K2)
    BY <1>1, <1>3, <1>4, AmongConcat
  <2>5. Among(a, K2) = a
    BY <1>4, <2>2, AmongAll
  <2>6. Among(b, K2) = <<>>
    BY <1>3, <2>3, AmongNone
  <2>7. a \o <<>> = a
    BY <1>4
  <2> QED BY <1>1, <2>1, <2>4, <2>5, <2>6, <2>7
<1> QED BY <1>7, <1>8, <1>9, <1>10, <1>11, <1>12, <1>13 DEF Did, out, added

-----------------------------------------------------------------------------
(* A narrower profile *)

\* The groups that run a script can be counted.
LEMMA CardNat == ASSUME NEW arr \in Seq(Groups), NEW x PROVE Cardinality(Holding(arr, x)) \in Nat
BY HoldingIs, FS_CardinalityType

\* A file that grew runs no script from more groups than before, or from one.
LEMMA GrownOnce ==
    ASSUME NEW arr \in Seq(Groups), NEW out, NEW added, Grown(arr, out, added)
    PROVE  Once(arr, out)
<1>1. /\ out \in Seq(Groups)
      /\ \A x \in Scripts : IF Holding(arr, x) # {} THEN Holding(out, x) = Holding(arr, x)
                            ELSE \E i : Holding(out, x) \subseteq {i}
  BY DEF Grown
<1>2. ASSUME NEW x \in Scripts
      PROVE  \/ Cardinality(Holding(out, x)) <= 1
             \/ Cardinality(Holding(out, x)) <= Cardinality(Holding(arr, x))
  <2>1. CASE Holding(arr, x) # {}
    <3>1. Cardinality(Holding(out, x)) = Cardinality(Holding(arr, x))
      BY <1>1, <2>1
    <3> QED BY <3>1, CardNat
  <2>2. CASE Holding(arr, x) = {}
    <3>1. PICK i : Holding(out, x) \subseteq {i}
      BY <1>1, <2>2
    <3> QED BY <3>1, AtMostOne
  <2> QED BY <2>1, <2>2
<1> QED BY <1>2 DEF Once

\* Cursor's file apart, what an install makes of one is what merging makes of it.
LEMMA GroupsDid ==
    ASSUME NEW f, f # "cursor", NEW arr \in Seq(Groups), NEW hooksToAdd \in Seq(Scripts), NEW ref \in Refs
    PROVE  LET out == MergeGroups(f, arr, hooksToAdd, Wirings(f, ref))
           IN  Did(f, arr, ToSet(hooksToAdd), out)
<1> DEFINE out == MergeGroups(f, arr, hooksToAdd, Wirings(f, ref))
           added == ToSet(hooksToAdd)
<1>1. Grown(arr, out, added) /\ AllFresh(f, out, hooksToAdd, Wirings(f, ref))
  BY MergeGroupsIs
<1>2. \A s \in added : \E k \in DOMAIN hooksToAdd : hooksToAdd[k] = s
  BY DEF ToSet
<1> HIDE DEF out, added
<1>3. Among(out, OwnGroups) = Among(arr, OwnGroups) /\ Once(arr, out)
  BY <1>1, GrownOwn, GrownOnce
<1>4. out \in Seq(Groups) /\ AbsIn(out) \subseteq AbsIn(arr) \cup added
  BY <1>1 DEF Grown
<1>5. \A s \in added : Holding(out, s) # {}
  BY <1>1, <1>2 DEF AllFresh, UpToDate
<1>6. GroupsOf(f) = Groups
  BY DEF GroupsOf
<1> QED BY <1>3, <1>4, <1>5, <1>6 DEF Did, out, added

\* The groups Claude Code's narrower profile leaves in a file.
Inside(p) == {g \in Groups : ~OutsideGroup(g, p)}
Trimmed(arr, p) == Among(arr, Inside(p))

\* The groups a narrower profile leaves, as a filter.
LEMMA TrimmedIs ==
    ASSUME NEW arr \in Seq(Groups), NEW p
    PROVE  Those(arr, LAMBDA g : ~OutsideGroup(g, p)) = Trimmed(arr, p)
<1> DEFINE G == {g \in ToSet(arr) : ~OutsideGroup(g, p)}
<1>1. Those(arr, LAMBDA g : ~OutsideGroup(g, p)) = Among(arr, G)
  BY DEF Those
<1>2. \A i \in DOMAIN arr : arr[i] \in ToSet(arr) /\ arr[i] \in Groups
  BY DEF ToSet
<1>3. \A i \in DOMAIN arr : arr[i] \in G <=> arr[i] \in Inside(p)
  BY <1>2 DEF Inside
<1> HIDE DEF G
<1>4. Among(arr, G) = Among(arr, Inside(p))
  BY <1>3, AmongLike
<1> QED BY <1>1, <1>4 DEF Trimmed

\* A group with a hook of the person's, or of a script of the profile, stays.
LEMMA InsideHolds ==
    ASSUME NEW g \in Groups, NEW p, \/ HasOwn(g)
                                    \/ \E s \in InProfile(p) : RunsScript(g, s)
    PROVE  g \in Inside(p)
<1>1. "own" \notin Scripts
  BY HooksAssumption
<1>2. \E h \in HooksOf(g) : h.script \notin Scripts \ InProfile(p)
  BY <1>1 DEF HasOwn, RunsScript
<1> QED BY <1>2 DEF Inside, OutsideGroup

\* A narrower profile undoes nothing an install has done.
LEMMA TrimmedDid ==
    ASSUME NEW f, f # "cursor", NEW arr \in Seq(Groups), NEW p, NEW added, added \subseteq InProfile(p),
           NEW base \in Seq(Groups), Did(f, base, added, arr)
    PROVE  LET out == Trimmed(arr, p)
           IN  /\ Did(f, base, added, out)
               /\ \A s \in InProfile(p) : Cardinality(Holding(out, s)) = Cardinality(Holding(arr, s))
               /\ ToSet(out) = ToSet(arr) \cap Inside(p)
<1> DEFINE out == Trimmed(arr, p)
<1>1. out \in Seq(Groups) /\ ToSet(out) = ToSet(arr) \cap Inside(p)
  BY AmongRange DEF Trimmed
<1>2. GroupsOf(f) = Groups
  BY DEF GroupsOf
<1>3. AbsIn(out) \subseteq AbsIn(arr)
  <2> HIDE DEF out
  <2>1. ASSUME NEW x \in AbsIn(out) PROVE x \in AbsIn(arr)
    <3>1. PICK i \in DOMAIN out : \E h \in HooksOf(out[i]) : h.ref = "absolute" /\ h.script = x
      BY <2>1 DEF AbsIn
    <3>2. out[i] \in ToSet(arr)
      BY <1>1 DEF ToSet
    <3>3. PICK j \in DOMAIN arr : arr[j] = out[i]
      BY <3>2 DEF ToSet
    <3> QED BY <2>1, <3>1, <3>3 DEF AbsIn
  <2> QED BY <2>1
<1>4. Among(out, OwnGroups) = Among(arr, OwnGroups)
  <2>1. \A i \in DOMAIN arr : arr[i] \in OwnGroups => arr[i] \in Inside(p)
    BY InsideHolds DEF OwnGroups
  <2> QED BY <2>1, AmongAmong DEF Trimmed
<1>5. \A x : Cardinality(Holding(out, x)) <= Cardinality(Holding(arr, x))
  BY HoldingAmong DEF Trimmed
<1>6. ASSUME NEW s \in InProfile(p) PROVE Cardinality(Holding(out, s)) = Cardinality(Holding(arr, s))
  <2>1. \A i \in Holding(arr, s) : arr[i] \in Inside(p)
    <3>1. \A i \in Holding(arr, s) : i \in DOMAIN arr /\ RunsScript(arr[i], s)
      BY DEF Holding
    <3> QED BY <3>1, InsideHolds
  <2> QED BY <2>1, HoldingAmong DEF Trimmed
<1> HIDE DEF out
<1>7. Once(base, out)
  <2>1. ASSUME NEW x \in Scripts
        PROVE  \/ Cardinality(Holding(out, x)) <= 1
               \/ Cardinality(Holding(out, x)) <= Cardinality(Holding(base, x))
    <3>1. \/ Cardinality(Holding(arr, x)) <= 1
          \/ Cardinality(Holding(arr, x)) <= Cardinality(Holding(base, x))
      BY DEF Did, Once
    <3>2. Cardinality(Holding(arr, x)) \in Nat /\ Cardinality(Holding(out, x)) \in Nat
      BY <1>1, CardNat
    <3>3. CASE Cardinality(Holding(arr, x)) <= 1
      BY <3>2, <3>3, <1>5
    <3>4. CASE Cardinality(Holding(arr, x)) <= Cardinality(Holding(base, x))
      <4>1. base \in Seq(Groups) => Cardinality(Holding(base, x)) \in Nat
        BY CardNat
      <4>2. base \in Seq(Groups)
        OBVIOUS
      <4> QED BY <3>2, <3>4, <1>5, <4>1, <4>2
    <3> QED BY <3>1, <3>3, <3>4
  <2> QED BY <2>1 DEF Once
<1>8. ASSUME NEW s \in added PROVE Holding(out, s) # {}
  <2>1. Holding(arr, s) # {} /\ s \in InProfile(p)
    BY DEF Did
  <2>2. IsFiniteSet(Holding(arr, s)) /\ IsFiniteSet(Holding(out, s))
    BY <1>1, HoldingIs
  <2> QED BY <2>1, <2>2, <1>6, FS_EmptySet
<1>9. AbsIn(arr) \subseteq AbsIn(base) \cup added /\ Among(arr, OwnGroups) = Among(base, OwnGroups)
  BY DEF Did
<1> QED BY <1>1, <1>2, <1>3, <1>4, <1>6, <1>7, <1>8, <1>9 DEF Did, out

-----------------------------------------------------------------------------
(* What an install makes of a file *)

\* Status has nothing to say of s, but that it shares a group.
Clean(arr, p) ==
    \A s \in Scripts :
       \/ \E i \in Holding(arr, s) : \E h \in HooksOf(arr[i]) : h.script # s
       \/ EventState(arr, s, p) = IF s \in InProfile(p) THEN "wired" ELSE "unwired"

\* Merged, file by file.
LEMMA MergedIs ==
    ASSUME NEW f \in HookFiles, NEW arr, NEW p, NEW only, NEW want, NEW groups,
           groups = MergeGroups(f, arr, selectedHooks(f, p, only), want), groups \in Seq(Groups)
    PROVE  Merged(f, arr, p, only, want) =
             IF f = "cursor" THEN MergeCursor(arr, selectedHooks(f, p, only), want, only)
             ELSE IF f = "codex" \/ only # {} THEN groups ELSE Trimmed(groups, p)
<1>1. f \in {"shared", "local", "codex", "cursor"} /\ ClaudeFiles = {"shared", "local"}
  BY DEF HookFiles, ClaudeFiles
<1>2. CASE f = "cursor"
  BY <1>2, <1>1 DEF Merged
<1>5. Those(groups, LAMBDA g : ~OutsideGroup(g, p)) = Trimmed(groups, p)
  BY TrimmedIs
<1>3. CASE f = "codex"
  BY <1>3, <1>1 DEF Merged
<1>4. CASE f \in {"shared", "local"}
  BY <1>4, <1>1, <1>5 DEF Merged, Those
<1> QED BY <1>1, <1>2, <1>3, <1>4

\* What the scripts wanted are, once everything is fresh and trimmed.
LEMMA TrimmedFresh ==
    ASSUME NEW f, f \notin {"codex", "cursor"}, NEW arr \in Seq(Groups), NEW p, NEW hooksToAdd \in Seq(Scripts),
           ToSet(hooksToAdd) = InProfile(p), NEW ref \in Refs, AllFresh(f, arr, hooksToAdd, Wirings(f, ref)),
           NEW base \in Seq(Groups), Did(f, base, InProfile(p), arr)
    PROVE  LET out == Trimmed(arr, p)
           IN  /\ Did(f, base, InProfile(p), out)
               /\ AllFresh(f, out, hooksToAdd, Wirings(f, ref))
               /\ ToSet(out) \subseteq Inside(p)
<1> DEFINE out == Trimmed(arr, p)
           want == Wirings(f, ref)
<1>1. /\ Did(f, base, InProfile(p), out)
      /\ \A s \in InProfile(p) : Cardinality(Holding(out, s)) = Cardinality(Holding(arr, s))
      /\ ToSet(out) = ToSet(arr) \cap Inside(p)
  BY TrimmedDid
<1> HIDE DEF out, want
<1>2. ASSUME NEW k \in DOMAIN hooksToAdd PROVE UpToDate(f, out, hooksToAdd[k], want[hooksToAdd[k]])
  <2> DEFINE s == hooksToAdd[k]
  <2>1. s \in InProfile(p) /\ s \in ToSet(hooksToAdd)
    BY DEF ToSet
  <2>2. UpToDate(f, arr, s, want[s])
    BY DEF AllFresh, want
  <2> HIDE DEF s
  <2>3. Cardinality(Holding(out, s)) = Cardinality(Holding(arr, s)) /\ Holding(out, s) # {}
    BY <1>1, <2>1 DEF Did
  <2>4. CASE Cardinality(Holding(arr, s)) > 1
    BY <2>3, <2>4 DEF UpToDate, s
  <2>5. CASE \A i \in Holding(arr, s) : ~(arr[i].matcher = Narrow /\ AllRun(arr[i], s))
    <3>1. ASSUME NEW i \in Holding(out, s) PROVE ~(out[i].matcher = Narrow /\ AllRun(out[i], s))
      <4>1. i \in DOMAIN out /\ RunsScript(out[i], s)
        BY DEF Holding
      <4>2. out[i] \in ToSet(arr)
        BY <4>1, <1>1 DEF ToSet
      <4>3. PICK j \in DOMAIN arr : arr[j] = out[i]
        BY <4>2 DEF ToSet
      <4>4. j \in Holding(arr, s)
        BY <4>1, <4>3 DEF Holding
      <4> QED BY <4>3, <4>4, <2>5
    <3> QED BY <3>1, <2>3 DEF UpToDate, s
  <2> QED BY <2>2, <2>4, <2>5 DEF UpToDate
<1> QED BY <1>1, <1>2 DEF AllFresh, out, want

\* Once trimmed and up to date, a Claude Code file gives status nothing to say.
LEMMA TrimmedClean ==
    ASSUME NEW f, f # "codex", NEW arr \in Seq(Groups), NEW p, NEW hooksToAdd,
           ToSet(hooksToAdd) = InProfile(p), NEW want, AllFresh(f, arr, hooksToAdd, want),
           ToSet(arr) \subseteq Inside(p)
    PROVE  Clean(arr, p)
<1> SUFFICES ASSUME NEW s \in Scripts, \A i \in Holding(arr, s) : \A h \in HooksOf(arr[i]) : h.script = s
             PROVE  EventState(arr, s, p) = IF s \in InProfile(p) THEN "wired" ELSE "unwired"
  BY DEF Clean
<1>1. ASSUME NEW i \in Holding(arr, s)
      PROVE  AllRun(arr[i], s) /\ arr[i] \in Groups /\ arr[i] \in Inside(p)
  <2>1. i \in DOMAIN arr /\ RunsScript(arr[i], s) /\ arr[i] \in ToSet(arr)
    BY DEF Holding, ToSet
  <2>2. arr[i].hooks # <<>>
    BY <2>1 DEF RunsScript, HooksOf, ToSet
  <2> QED BY <2>1, <2>2 DEF AllRun
<1>2. CASE s \in InProfile(p)
  <2>1. PICK k \in DOMAIN hooksToAdd : hooksToAdd[k] = s
    BY <1>2 DEF ToSet
  <2>2. /\ Holding(arr, s) # {}
        /\ \/ Cardinality(Holding(arr, s)) > 1
           \/ \A i \in Holding(arr, s) : ~(arr[i].matcher = Narrow /\ AllRun(arr[i], s))
    BY <2>1 DEF AllFresh, UpToDate
  <2>3. Cardinality(Holding(arr, s)) > 1 => Cardinality(Holding(arr, s)) # 1
    BY CardNat
  <2>4. ~(Cardinality(Holding(arr, s)) = 1 /\ \E i \in Holding(arr, s) : arr[i].matcher = Narrow)
    BY <2>2, <2>3, <1>1
  <2> QED BY <1>2, <2>2, <2>4 DEF EventState
<1>3. CASE s \notin InProfile(p)
  <2>1. ASSUME NEW i \in Holding(arr, s) PROVE FALSE
    <3>1. OutsideGroup(arr[i], p)
      BY <1>1, <1>3 DEF AllRun, OutsideGroup
    <3> QED BY <1>1, <3>1 DEF Inside
  <2>2. Holding(arr, s) = {}
    BY <2>1
  <2> QED BY <1>3, <2>2 DEF EventState
<1> QED BY <1>2, <1>3

\* A profile is of scripts of ours.
LEMMA ProfileIs == ASSUME NEW p PROVE InProfile(p) \subseteq Scripts
BY HooksAssumption DEF InProfile

\* What an install makes of a hook file, whatever was in it.
LEMMA MergedDoes ==
    ASSUME NEW f \in HookFiles, NEW arr \in Seq(GroupsOf(f)), NEW p, NEW only,
           NEW ref \in Refs, f = "cursor" => ref = "absolute"
    PROVE  LET want == Wirings(f, ref)
               out  == Merged(f, arr, p, only, want)
           IN  /\ Did(f, arr, Selected(f, p, only), out)
               /\ Merged(f, out, p, only, want) = out
               /\ f = "codex" => Grown(arr, out, Selected(f, p, only))
               /\ f \in ClaudeFiles /\ only = {} => Clean(out, p)
<1> DEFINE want == Wirings(f, ref)
           out == Merged(f, arr, p, only, want)
           hooksToAdd == selectedHooks(f, p, only)
           added == Selected(f, p, only)
           groups == MergeGroups(f, arr, hooksToAdd, want)
<1>1. hooksToAdd \in Seq(Scripts) /\ ToSet(hooksToAdd) = added /\ IsInjective(hooksToAdd)
  BY SelectedIs
<1>2. f \in {"shared", "local", "codex", "cursor"} /\ ClaudeFiles = {"shared", "local"}
  BY DEF HookFiles, ClaudeFiles
<1> HIDE DEF hooksToAdd
<1>3. CASE f = "cursor"
  <2>1. want = Wirings("cursor", "absolute") /\ arr \in Seq(CursorGroups)
    BY <1>3 DEF GroupsOf
  <2>g. \A x \in Seq(Groups) : MergeGroups(f, x, hooksToAdd, want) \in Seq(Groups)
    BY <1>1, MergeGroupsIs DEF Grown
  <2>h. arr \in Seq(Groups)
    BY <2>1, GroupsOfTyped, <1>3
  <2> HIDE DEF want
  <2>2. out = MergeCursor(arr, hooksToAdd, want, only)
    BY <1>3, <2>g, <2>h, MergedIs DEF hooksToAdd
  <2> DEFINE new == MergeCursor(arr, hooksToAdd, want, only)
  <2>3. Did("cursor", arr, ToSet(hooksToAdd), new) /\ MergeCursor(new, hooksToAdd, want, only) = new
    BY <1>1, <2>1, MergeCursorDoes
  <2> HIDE DEF new, out
  <2>4. new \in Seq(Groups)
    BY <2>3, GroupsOfTyped DEF Did
  <2>5. Merged(f, new, p, only, want) = MergeCursor(new, hooksToAdd, want, only)
    BY <1>3, <2>4, <2>g, MergedIs DEF hooksToAdd
  <2> QED BY <1>1, <1>2, <1>3, <2>2, <2>3, <2>5 DEF want, new, out
<1>4. CASE f # "cursor"
  <2>0. arr \in Seq(Groups) /\ GroupsOf(f) = Groups
    BY <1>4 DEF GroupsOf
  <2>1. Did(f, arr, added, groups)
    BY <1>1, <1>4, <2>0, GroupsDid
  <2>2. Grown(arr, groups, added) /\ AllFresh(f, groups, hooksToAdd, want)
    BY <1>1, <2>0, MergeGroupsIs
  <2>3. groups \in Seq(Groups)
    BY <2>2 DEF Grown
  <2>4. CASE f = "codex" \/ only # {}
    <3>1. out = groups
      BY <1>4, <2>3, <2>4, MergedIs DEF hooksToAdd
    <3> HIDE DEF groups, out
    <3>2. MergeGroups(f, groups, hooksToAdd, want) = groups
      BY <1>1, <2>2, <2>3, MergeGroupsAgain
    <3>3. Merged(f, groups, p, only, want) = MergeGroups(f, groups, hooksToAdd, want)
      <4> HIDE DEF want
      <4> QED BY <1>4, <2>3, <2>4, <3>2, MergedIs DEF hooksToAdd
    <3> HIDE DEF want
    <3>4. ~(f \in ClaudeFiles /\ only = {})
      BY <1>2, <2>4
    <3> QED BY <2>1, <2>2, <3>1, <3>2, <3>3, <3>4 DEF out, want
  <2>5. CASE f # "codex" /\ only = {}
    <3> DEFINE trim == Trimmed(groups, p)
    <3>2. out = trim
      BY <1>4, <2>3, <2>5, MergedIs DEF hooksToAdd
    <3> HIDE DEF groups, out
    <3>3. added = InProfile(p)
      <4>1. AgentRuns(f) = Scripts
        BY <1>4, <2>5 DEF AgentRuns
      <4> QED BY <4>1, <2>5, ProfileIs DEF Selected
    <3>4. /\ Did(f, arr, InProfile(p), trim)
          /\ AllFresh(f, trim, hooksToAdd, want)
          /\ ToSet(trim) \subseteq Inside(p)
      BY <1>1, <1>4, <2>0, <2>1, <2>2, <2>3, <2>5, <3>3, TrimmedFresh
    <3> HIDE DEF trim
    <3>5. trim \in Seq(Groups)
      BY <2>0, <3>4 DEF Did
    <3>6. Clean(trim, p)
      <4> HIDE DEF want
      <4> QED BY <1>1, <2>5, <3>3, <3>4, <3>5, TrimmedClean
    <3>7. MergeGroups(f, trim, hooksToAdd, want) = trim
      BY <1>1, <3>4, <3>5, MergeGroupsAgain
    <3>8. Merged(f, trim, p, only, want) = Trimmed(trim, p)
      <4> HIDE DEF want
      <4> QED BY <1>4, <2>5, <3>5, <3>7, MergedIs DEF hooksToAdd
    <3>9. Trimmed(trim, p) = trim
      <4>1. \A i \in DOMAIN trim : trim[i] \in Inside(p)
        BY <3>4 DEF ToSet
      <4> QED BY <3>5, <4>1, AmongAll DEF Trimmed
    <3>10. Merged(f, trim, p, only, want) = trim
      BY <3>8, <3>9
    <3> HIDE DEF want
    <3> QED BY <2>5, <3>2, <3>3, <3>4, <3>6, <3>10 DEF out, want
  <2> QED BY <2>4, <2>5
<1> QED BY <1>3, <1>4

-----------------------------------------------------------------------------
(* The inductive invariant *)

Steps == {"mkdir", "declare", "copy", "read", "write", "done"}
InstallRuns ==
    [kind : {"install"}, file : HookFiles, force : BOOLEAN, only : SUBSET Scripts, merge : BOOLEAN,
     profile : {"full", "knowledge"}, step : Steps, seen : Seq(Groups), todo : Seq(Copies),
     conflict : BOOLEAN, calm : BOOLEAN]
UninstallRuns ==
    [kind : {"uninstall"}, file : HookFiles, rm : BOOLEAN, step : {"read", "write", "check", "delete"},
     seen : Seq(Groups), todo : Seq(Copies), calm : BOOLEAN]

\* The types of what is on disk, and of a command.
StoreTypes ==
    /\ files \in [HookFiles -> Seq(Groups)] /\ files["cursor"] \in Seq(CursorGroups)
    /\ broken \subseteq HookFiles
    /\ scripts \in [Folders -> [Copies -> {"none", "ours", "other"}]]
    /\ made \subseteq Folders
    /\ declared \in [Folders -> {"none", "full", "knowledge", "torn"}]
    /\ gitRoot \in BOOLEAN
RunTyped(r) ==
    /\ r = Idle \/ r \in InstallRuns \/ r \in UninstallRuns
    /\ r # Idle => r.seen \in Seq(GroupsOf(r.file))
HookTypes == StoreTypes /\ RunTyped(run) /\ runs \in Nat /\ edits \in Nat

\* What a command read is what is there when nobody came between; nobody but an
\* install adds an absolute path.
SeenIs ==
    run.step = "write" =>
       /\ run.calm => run.seen = files[run.file]
       /\ AbsIn(files[run.file]) \subseteq AbsIn(run.seen)

\* Every copy an install was to make is still to be made, or there; and today's,
\* when nobody came between and none was in conflict.
CopiesMade ==
    run.kind = "install" =>
       /\ \A s \in ToSet(CopiesOf(run.file, run.profile, run.only)) :
             \/ s \in ToSet(run.todo)
             \/ /\ scripts[FolderOf(run.file)][s] # "none"
                /\ run.calm /\ ~run.conflict => scripts[FolderOf(run.file)][s] = "ours"
       /\ run.step \in {"read", "write", "done"} => run.todo = <<>> /\ ~run.conflict
       /\ run.step \in {"copy", "read", "write", "done"} => declared[FolderOf(run.file)] = run.profile

\* The scripts arr names by an absolute path are among the copies on disk.
OnDisk(copies, f, arr) ==
    \A s \in AbsIn(arr) : copies[s] # "none" /\ (f = "cursor" => copies[Adapter] # "none")

Shared == {"codex", "cursor"}
AllOnDisk ==
    /\ \A f \in Shared : OnDisk(scripts["vaultmind"], f, files[f])
    /\ run.step = "write" /\ run.file \in Shared => OnDisk(scripts["vaultmind"], run.file, run.seen)

\* An uninstall that comes to look for the other agent's hooks has taken its own
\* out; one that deletes the scripts two agents share found none of either.
Removing ==
    /\ run.step = "check" => AbsIn(files[run.file]) = {}
    /\ run.step = "delete" =>
          /\ run.todo # <<>>
          /\ run.file \in Shared => \A f \in Shared : AbsIn(files[f]) = {}

HooksInv == HookTypes /\ SeenIs /\ CopiesMade /\ AllOnDisk /\ Removing /\ InstallDelivers
\* An uninstall leaves no absolute path, and the groups without a hook of ours.
LEMMA StrippedIs ==
    ASSUME NEW f \in HookFiles, NEW arr \in Seq(GroupsOf(f))
    PROVE  LET out == Stripped(f, arr)
               foreign == {g \in Groups : ~\E s \in Scripts : RunsScript(g, s)}
           IN  /\ out \in Seq(GroupsOf(f))
               /\ AbsIn(out) = {}
               /\ Among(out, foreign) = Among(arr, foreign)
<1> DEFINE K == {g \in ToSet(arr) : ~OursIn(f, g)}
           out == Stripped(f, arr)
           foreign == {g \in Groups : ~\E s \in Scripts : RunsScript(g, s)}
<1>1. out = Among(arr, K)
  BY DEF Stripped, Those
<1>2. arr \in Seq(Groups)
  BY GroupsOfTyped
<1> HIDE DEF K, out
<1>3. out \in Seq(GroupsOf(f)) /\ ToSet(out) = ToSet(arr) \cap K
  BY <1>1, AmongRange
<1>4. AbsIn(out) = {}
  <2>1. SUFFICES ASSUME NEW x \in AbsIn(out) PROVE FALSE
    OBVIOUS
  <2>2. PICK i \in DOMAIN out : \E h \in HooksOf(out[i]) : h.ref = "absolute" /\ h.script = x
    BY DEF AbsIn
  <2>3. ~OursIn(f, out[i])
    BY <1>3 DEF ToSet, K
  <2>4. x \in Scripts
    BY DEF AbsIn
  <2>5. OursCursor(out[i]) /\ RunsScript(out[i], x)
    BY <2>2 DEF OursCursor, RunsScript
  <2> QED BY <2>3, <2>4, <2>5 DEF OursIn
<1>5. ASSUME NEW i \in DOMAIN arr, arr[i] \in foreign PROVE arr[i] \in K
  <2>1. arr[i] \in Groups /\ arr[i] \in ToSet(arr) /\ ~\E s \in Scripts : RunsScript(arr[i], s)
    BY <1>5 DEF ToSet
  <2>2. ~OursCursor(arr[i])
    <3>1. SUFFICES ASSUME NEW h \in HooksOf(arr[i]), h.ref = "absolute" PROVE FALSE
      BY DEF OursCursor
    <3>2. h.script \in Scripts /\ RunsScript(arr[i], h.script)
      BY <2>1, <3>1, AbsTyped DEF RunsScript
    <3> QED BY <2>1, <3>2
  <2> QED BY <2>1, <2>2 DEF OursIn, K
<1> HIDE DEF foreign
<1>6. Among(Among(arr, K), foreign) = Among(arr, foreign)
  BY <1>5, AmongAmong
<1> QED BY <1>1, <1>3, <1>4, <1>6 DEF out, foreign

\* The groups without a hook of ours, as a filter.
LEMMA ThoseForeign ==
    ASSUME NEW arr \in Seq(Groups)
    PROVE  LET foreign == {g \in Groups : ~\E s \in Scripts : RunsScript(g, s)}
           IN  Those(arr, LAMBDA g : ~\E s \in Scripts : RunsScript(g, s)) = Among(arr, foreign)
<1> DEFINE foreign == {g \in Groups : ~\E s \in Scripts : RunsScript(g, s)}
           G == {g \in ToSet(arr) : ~\E s \in Scripts : RunsScript(g, s)}
<1>1. Those(arr, LAMBDA g : ~\E s \in Scripts : RunsScript(g, s)) = Among(arr, G)
  BY DEF Those
<1>2. \A i \in DOMAIN arr : arr[i] \in ToSet(arr) /\ arr[i] \in Groups
  BY DEF ToSet
<1>3. \A i \in DOMAIN arr : arr[i] \in G <=> arr[i] \in foreign
  BY <1>2
<1> HIDE DEF G, foreign
<1>4. Among(arr, G) = Among(arr, foreign)
  BY <1>3, AmongLike
<1> QED BY <1>1, <1>4 DEF foreign

\* The copies an install makes.
LEMMA CopiesIs ==
    ASSUME NEW f, NEW p, NEW only \in SUBSET Scripts
    PROVE  /\ CopiesOf(f, p, only) \in Seq(Copies)
           /\ Selected(f, p, only) \subseteq ToSet(CopiesOf(f, p, only))
           /\ f = "cursor" => Adapter \in ToSet(CopiesOf(f, p, only))
<1> DEFINE G == {s \in ToSet(Canonical) : s \in IF only = {} THEN InProfile(p) ELSE only}
           a == Among(Canonical, G)
           b == IF f = "cursor" THEN <<Adapter>> ELSE <<>>
<1>1. CopiesOf(f, p, only) = a \o b
  BY DEF CopiesOf, Those
<1>2. Canonical \in Seq(Copies) /\ Adapter \in Copies
  <2>1. Canonical \in Seq(STRING)
    BY HooksAssumption
  <2>2. \A i \in DOMAIN Canonical : Canonical[i] \in Copies
    BY DEF Scripts, ToSet, Copies
  <2> QED BY <2>1, <2>2 DEF Copies
<1>3. Selected(f, p, only) \subseteq ToSet(Canonical) \cap G
  BY DEF Selected, Scripts
<1> HIDE DEF G
<1>4. a \in Seq(Copies) /\ ToSet(a) = ToSet(Canonical) \cap G
  BY <1>2, AmongRange
<1>5. b \in Seq(Copies) /\ (f = "cursor" => Len(b) = 1 /\ b[1] = Adapter)
  BY <1>2
<1> HIDE DEF a, b
<1>6. a \o b \in Seq(Copies) /\ Joined(a, b, a \o b)
  BY <1>4, <1>5, ConcatIs
<1>7. \A s \in ToSet(a) : s \in ToSet(a \o b)
  <2>1. ASSUME NEW i \in DOMAIN a PROVE a[i] \in ToSet(a \o b)
    <3>1. i \in 1..Len(a) /\ Len(a) \in Nat /\ Len(b) \in Nat
      BY <1>4, <1>5
    <3>2. i \in DOMAIN (a \o b) /\ (a \o b)[i] = a[i]
      BY <1>6, <3>1 DEF Joined
    <3> QED BY <3>2 DEF ToSet
  <2> QED BY <2>1 DEF ToSet
<1>8. ASSUME f = "cursor" PROVE Adapter \in ToSet(a \o b)
  <2>0. Len(b) = 1 /\ b[1] = Adapter
    BY <1>5, <1>8, Zenon
  <2>a. Len(a) \in Nat
    BY <1>4
  <2>1. 1 \in 1..Len(b) /\ b[1] = Adapter /\ Len(a) \in Nat /\ Len(b) = 1
    BY <2>0, <2>a
  <2>2. (a \o b)[Len(a) + 1] = Adapter
    BY <1>6, <2>1 DEF Joined
  <2>3. Len(a) + 1 \in DOMAIN (a \o b)
    BY <1>6, <2>1 DEF Joined
  <2> QED BY <2>2, <2>3 DEF ToSet
<1> QED BY <1>1, <1>3, <1>4, <1>6, <1>7, <1>8

\* A group with its hooks replaced.
LEMMA WithHooks ==
    ASSUME NEW g \in Groups, NEW x
    PROVE  [g EXCEPT !.hooks = x] = [matcher |-> g.matcher, hooks |-> x]
BY DEF Groups

\* What a person may make of a file.
LEMMA RewriteIs ==
    ASSUME StoreTypes, NEW f \in HookFiles, NEW s \in Scripts,
           AddOwn(f) \/ MixOwn(f) \/ DropGroup(f) \/ WireByHand(f, s)
    PROVE  \E arr \in Seq(GroupsOf(f)) : AbsIn(arr) \subseteq AbsIn(files[f]) /\ Rewrite(f, arr)
<1> DEFINE old == files[f]
<1>0. old \in Seq(GroupsOf(f)) /\ OwnGroup \in GroupsOf(f) /\ Seq(GroupsOf(f)) \subseteq Seq(Groups)
  <2>1. f = "cursor" => old \in Seq(CursorGroups)
    BY DEF StoreTypes
  <2>2. old \in Seq(Groups)
    BY DEF StoreTypes
  <2>3. OwnGroup \in Groups /\ OwnGroup \in CursorGroups
    BY OwnTyped DEF CursorGroups
  <2> HIDE DEF old
  <2> QED BY <2>1, <2>2, <2>3, GroupsOfTyped DEF GroupsOf
<1>own. \A h \in HooksOf(OwnGroup) : h.ref # "absolute"
  <2>1. OwnGroup.hooks = <<Own>>
    BY DEF OwnGroup, Group
  <2> QED BY <2>1 DEF HooksOf, ToSet, Own, Hook
<1> DEFINE From(arr) == \A i \in DOMAIN arr : (\E j \in DOMAIN old : HooksOf(arr[i]) = HooksOf(old[j]))
                                            \/ \A h \in HooksOf(arr[i]) : h.ref = "absolute" => \E j \in DOMAIN old : h \in HooksOf(old[j])
<1>abs. ASSUME NEW arr, From(arr) PROVE AbsIn(arr) \subseteq AbsIn(old)
  <2> HIDE DEF old
  <2> QED BY <1>abs DEF AbsIn
<1> SUFFICES \E arr \in Seq(GroupsOf(f)) : From(arr) /\ Rewrite(f, arr)
  <2> HIDE DEF From
  <2> QED BY <1>abs
<1>1. CASE Rewrite(f, <<OwnGroup>> \o old)
  <2> DEFINE o == OwnGroup
             t == <<o>>
  <2>1. t \in Seq(GroupsOf(f)) /\ Len(t) = 1 /\ t[1] = o
    BY <1>0
  <2> HIDE DEF old, t, o
  <2>2. t \o old \in Seq(GroupsOf(f)) /\ Joined(t, old, t \o old)
    BY <1>0, <2>1, ConcatIs
  <2>3. ASSUME NEW i \in DOMAIN (t \o old)
        PROVE  (t \o old)[i] = OwnGroup \/ \E j \in DOMAIN old : (t \o old)[i] = old[j]
    <3>1. DOMAIN old = 1..Len(old)
      BY <1>0
    <3>2. CASE i \in 1..Len(t)
      BY <3>2, <2>1, <2>2 DEF Joined, o
    <3>3. CASE \E j \in 1..Len(old) : i = Len(t) + j
      BY <3>1, <3>3, <2>1, <2>2 DEF Joined
    <3> QED BY <3>2, <3>3, <2>2 DEF Joined
  <2>4. From(t \o old)
    BY <2>3, <1>own
  <2> HIDE DEF From
  <2> QED BY <2>2, <2>4, <1>1 DEF t, o
<1>2. CASE Rewrite(f, Append(old, OwnGroup))
  <2> HIDE DEF old
  <2>1. /\ Append(old, OwnGroup) \in Seq(GroupsOf(f)) /\ Len(Append(old, OwnGroup)) = Len(old) + 1
        /\ Append(old, OwnGroup)[Len(old) + 1] = OwnGroup
        /\ \A i \in 1..Len(old) : Append(old, OwnGroup)[i] = old[i]
    BY <1>0, AppendIs
  <2>2. \A i \in DOMAIN Append(old, OwnGroup) : i \in DOMAIN old \/ i = Len(old) + 1
    BY <1>0, <2>1
  <2>3. DOMAIN old = 1..Len(old)
    BY <1>0
  <2> DEFINE arr == Append(old, OwnGroup)
  <2> HIDE DEF arr
  <2>4. From(arr)
    BY <2>1, <2>2, <2>3, <1>own DEF arr
  <2> HIDE DEF From
  <2> QED BY <2>1, <2>4, <1>2 DEF arr
<1>3. CASE MixOwn(f)
  <2>1. PICK i \in DOMAIN old : f # "cursor" /\ Rewrite(f, [old EXCEPT ![i].hooks = Append(@, Own)])
    BY <1>3 DEF MixOwn
  <2> DEFINE g == old[i]
             k == [g EXCEPT !.hooks = Append(@, Own)]
             arr == [old EXCEPT ![i] = k]
  <2>2. Rewrite(f, arr)
    BY <2>1
  <2>3. g \in Groups /\ GroupsOf(f) = Groups
    BY <1>0, <2>1 DEF GroupsOf
  <2> HIDE DEF g
  <2>4. g.hooks \in Seq(Hooks) /\ Own \in Hooks
    BY <2>3, GroupIs, OwnTyped
  <2>5. k = [matcher |-> g.matcher, hooks |-> Append(g.hooks, Own)]
    BY <2>3, WithHooks
  <2>6. k \in Groups
    BY <2>3, <2>4, <2>5, GroupIs, GroupMade
  <2>7. ASSUME NEW h \in HooksOf(k), h.ref = "absolute" PROVE h \in HooksOf(g)
    <3> DEFINE q == g.hooks
               e == Own
    <3>1. /\ Len(Append(q, e)) = Len(q) + 1 /\ Append(q, e)[Len(q) + 1] = e /\ Append(q, e) \in Seq(Hooks)
          /\ \A j \in 1..Len(q) : Append(q, e)[j] = q[j]
      <4> HIDE DEF q, e
      <4> QED BY <2>4, AppendIs DEF q, e
    <3>2. k.hooks = Append(q, e)
      BY <2>5
    <3>3. PICK j \in DOMAIN Append(q, e) : h = Append(q, e)[j]
      BY <2>7, <3>2 DEF HooksOf, ToSet
    <3>4. e.ref = "hand"
      BY DEF Own, Hook
    <3> HIDE DEF e
    <3>5. j \in 1..Len(q)
      BY <2>4, <2>7, <3>1, <3>3, <3>4
    <3>6. h = q[j] /\ j \in DOMAIN q
      BY <2>4, <3>1, <3>3, <3>5
    <3> QED BY <3>6 DEF HooksOf, ToSet
  <2> HIDE DEF k
  <2>8. arr \in Seq(GroupsOf(f)) /\ DOMAIN arr = DOMAIN old /\ \A j \in DOMAIN old : arr[j] = IF j = i THEN k ELSE old[j]
    <3> HIDE DEF old
    <3> QED BY <1>0, <2>3, <2>6
  <2>9. From(arr)
    <3> HIDE DEF arr, old
    <3> QED BY <2>7, <2>8 DEF g
  <2> HIDE DEF From, arr
  <2> QED BY <2>2, <2>8, <2>9
<1>4. CASE DropGroup(f)
  <2>1. PICK i \in DOMAIN old : Rewrite(f, RemoveAt(old, i))
    BY <1>4 DEF DropGroup
  <2> HIDE DEF old
  <2> DEFINE a == SubSeq(old, 1, i - 1)
             b == SubSeq(old, i + 1, Len(old))
  <2>2. RemoveAt(old, i) = a \o b
    BY DEF RemoveAt
  <2>3. i \in 1..Len(old) /\ Len(old) \in Nat
    BY <1>0
  <2>4. /\ a \in Seq(GroupsOf(f)) /\ \A j \in DOMAIN a : a[j] = old[j] /\ j \in DOMAIN old
    BY <1>0, <2>3
  <2>5. /\ b \in Seq(GroupsOf(f)) /\ \A j \in DOMAIN b : b[j] = old[i + j] /\ i + j \in DOMAIN old
    BY <1>0, <2>3
  <2> HIDE DEF a, b
  <2>6. a \o b \in Seq(GroupsOf(f)) /\ Joined(a, b, a \o b)
    BY <2>4, <2>5, ConcatIs
  <2> DEFINE arr == a \o b
  <2> HIDE DEF arr
  <2>7. ASSUME NEW j \in DOMAIN arr PROVE \E l \in DOMAIN old : arr[j] = old[l]
    <3>1. DOMAIN a = 1..Len(a) /\ DOMAIN b = 1..Len(b)
      BY <2>4, <2>5
    <3>2. CASE j \in 1..Len(a)
      BY <3>1, <3>2, <2>4, <2>6 DEF Joined, arr
    <3>3. CASE \E l \in 1..Len(b) : j = Len(a) + l
      BY <3>1, <3>3, <2>5, <2>6 DEF Joined, arr
    <3> QED BY <3>2, <3>3, <2>6 DEF Joined, arr
  <2>8. From(arr)
    BY <2>7
  <2> HIDE DEF From
  <2> QED BY <2>1, <2>2, <2>6, <2>8 DEF arr
<1>5. CASE WireByHand(f, s)
  <2> DEFINE g == Group(Narrow, <<Hook(s, "hand")>>)
             h == Hook(s, "hand")
  <2>1. Rewrite(f, Append(old, g)) /\ GroupsOf(f) = Groups
    BY <1>5 DEF WireByHand, GroupsOf
  <2>2. h \in Hooks /\ h.ref = "hand"
    BY DEF Hook, Hooks, Refs
  <2>3. g = [matcher |-> Narrow, hooks |-> <<h>>]
    BY DEF Group
  <2> HIDE DEF h, old
  <2>4. <<h>> \in Seq(Hooks) /\ DOMAIN <<h>> = {1} /\ <<h>>[1] = h
    BY <2>2
  <2>5. g \in Groups
    BY <2>3, <2>4, GroupMade
  <2>6. \A x \in HooksOf(g) : x.ref # "absolute"
    BY <2>2, <2>3, <2>4 DEF HooksOf, ToSet
  <2> HIDE DEF g
  <2>7. /\ Append(old, g) \in Seq(GroupsOf(f)) /\ Len(Append(old, g)) = Len(old) + 1
        /\ Append(old, g)[Len(old) + 1] = g
        /\ \A i \in 1..Len(old) : Append(old, g)[i] = old[i]
    BY <1>0, <2>1, <2>5, AppendIs
  <2>8. \A i \in DOMAIN Append(old, g) : i \in DOMAIN old \/ i = Len(old) + 1
    BY <1>0, <2>7
  <2>9. DOMAIN old = 1..Len(old)
    BY <1>0
  <2> DEFINE arr == Append(old, g)
  <2> HIDE DEF arr
  <2>10. From(arr)
    BY <2>6, <2>7, <2>8, <2>9 DEF arr
  <2> HIDE DEF From
  <2> QED BY <2>1, <2>7, <2>10 DEF arr
<1> QED BY <1>1, <1>2, <1>3, <1>4, <1>5 DEF AddOwn

-----------------------------------------------------------------------------
(* The steps of a command *)

\* What an idle command is, and a command under way.
LEMMA IdleIs == Idle.kind = "none" /\ Idle.step = "idle"
BY DEF Idle

\* The fields of an install.
LEMMA InstallIs ==
    ASSUME NEW r \in InstallRuns
    PROVE  /\ r.kind = "install" /\ r.file \in HookFiles /\ r.only \in SUBSET Scripts
           /\ r.profile \in {"full", "knowledge"} /\ r.step \in Steps /\ r.seen \in Seq(Groups)
           /\ r.todo \in Seq(Copies) /\ r.calm \in BOOLEAN /\ r.conflict \in BOOLEAN
           /\ r.force \in BOOLEAN /\ r.merge \in BOOLEAN /\ r # Idle
BY IdleIs DEF InstallRuns

\* The fields of an uninstall.
LEMMA UninstallIs ==
    ASSUME NEW r \in UninstallRuns
    PROVE  /\ r.kind = "uninstall" /\ r.file \in HookFiles /\ r.step \in {"read", "write", "check", "delete"}
           /\ r.seen \in Seq(Groups) /\ r.todo \in Seq(Copies) /\ r.calm \in BOOLEAN /\ r.rm \in BOOLEAN
           /\ r # Idle
BY IdleIs DEF UninstallRuns

\* A step of a command tells its kind.
LEMMA RunKinds ==
    ASSUME RunTyped(run)
    PROVE  /\ run.kind = "install" => run \in InstallRuns
           /\ run.kind = "uninstall" => run \in UninstallRuns
           /\ run.step \in {"mkdir", "declare", "copy", "done"} => run \in InstallRuns
           /\ run.step \in {"check", "delete"} => run \in UninstallRuns
           /\ run.step # "idle" => run # Idle /\ (run \in InstallRuns \/ run \in UninstallRuns)
           /\ run # Idle => run.seen \in Seq(GroupsOf(run.file))
<1>1. run = Idle \/ run \in InstallRuns \/ run \in UninstallRuns
  BY DEF RunTyped
<1>2. run \in InstallRuns => run.kind = "install" /\ run.step \in Steps
  BY InstallIs
<1>3. run \in UninstallRuns => run.kind = "uninstall" /\ run.step \in {"read", "write", "check", "delete"}
  BY UninstallIs
<1>4. run = Idle => run.kind = "none" /\ run.step = "idle"
  BY IdleIs
<1>5. run # Idle => run.seen \in Seq(GroupsOf(run.file))
  BY DEF RunTyped
<1> QED BY <1>1, <1>2, <1>3, <1>4, <1>5 DEF Steps

\* A command that moved on to another step.
Moved(r, q, step) ==
    /\ q.kind = r.kind /\ q.file = r.file /\ q.seen = r.seen /\ q.todo = r.todo /\ q.calm = r.calm
    /\ q.step = step
    /\ r \in InstallRuns => q.profile = r.profile /\ q.only = r.only /\ q.conflict = r.conflict

\* An install goes to its next step.
LEMMA MovedInstall ==
    ASSUME RunTyped(run), run \in InstallRuns, NEW step \in Steps
    PROVE  LET q == [run EXCEPT !.step = step]
           IN  RunTyped(q) /\ q \in InstallRuns /\ Moved(run, q, step)
<1> DEFINE q == [run EXCEPT !.step = step]
<1>1. q \in InstallRuns
  BY DEF InstallRuns
<1>2. Moved(run, q, step)
  BY DEF InstallRuns, Moved
<1>3. q.seen = run.seen /\ q.file = run.file
  BY <1>2 DEF Moved
<1>4. run.seen \in Seq(GroupsOf(run.file))
  BY InstallIs DEF RunTyped
<1> HIDE DEF q
<1> QED BY <1>1, <1>2, <1>3, <1>4 DEF q, RunTyped

\* An uninstall goes to its next step.
LEMMA MovedUninstall ==
    ASSUME RunTyped(run), run \in UninstallRuns, NEW step \in {"read", "write", "check", "delete"}
    PROVE  LET q == [run EXCEPT !.step = step]
           IN  RunTyped(q) /\ q \in UninstallRuns /\ Moved(run, q, step)
<1> DEFINE q == [run EXCEPT !.step = step]
<1>0. run.kind = "uninstall" /\ (run \in InstallRuns => run.kind = "install")
  BY InstallIs, UninstallIs
<1>1. q \in UninstallRuns
  BY DEF UninstallRuns
<1>2. Moved(run, q, step)
  BY <1>0 DEF UninstallRuns, Moved
<1>3. q.seen = run.seen /\ q.file = run.file
  BY <1>2 DEF Moved
<1>4. run.seen \in Seq(GroupsOf(run.file))
  BY UninstallIs DEF RunTyped
<1> HIDE DEF q
<1> QED BY <1>1, <1>2, <1>3, <1>4 DEF q, RunTyped

\* What the scripts are on disk matters to no absolute path but those there are.
LEMMA StillOnDisk ==
    ASSUME NEW copies, NEW after, NEW f, NEW arr, NEW out, OnDisk(copies, f, arr), AbsIn(out) \subseteq AbsIn(arr),
           \A s \in Copies : copies[s] # "none" => after[s] # "none"
    PROVE  OnDisk(after, f, out)
<1>1. AbsIn(out) \subseteq Copies /\ Adapter \in Copies
  BY DEF AbsIn, Copies
<1> QED BY <1>1 DEF OnDisk

\* The file a command works on, as its groups.
LEMMA FilesTyped ==
    ASSUME StoreTypes, NEW f \in HookFiles
    PROVE  files[f] \in Seq(GroupsOf(f)) /\ files[f] \in Seq(Groups)
BY DEF StoreTypes, GroupsOf

\* After a command that ended, only what hooks run is left to be looked after.
LEMMA Ended ==
    ASSUME run' = Idle, \A f \in Shared : OnDisk(scripts["vaultmind"], f, files[f])'
    PROVE  SeenIs' /\ CopiesMade' /\ AllOnDisk' /\ Removing' /\ InstallDelivers'
<1>1. run'.kind = "none" /\ run'.step = "idle"
  BY IdleIs
<1>2. SeenIs' /\ CopiesMade' /\ Removing' /\ InstallDelivers'
  <2>1. SeenIs'
    BY <1>1 DEF SeenIs
  <2>2. CopiesMade'
    BY <1>1 DEF CopiesMade
  <2>3. Removing'
    BY <1>1 DEF Removing
  <2>4. InstallDelivers'
    BY <1>1 DEF InstallDelivers
  <2> QED BY <2>1, <2>2, <2>3, <2>4
<1>3. AllOnDisk'
  BY <1>1 DEF AllOnDisk
<1> QED BY <1>2, <1>3

\* An install that begins has everything to do.
LEMMA BeginInstallInv == ASSUME HooksInv, NEW c \in Installs, BeginInstall(c) PROVE HooksInv'
<1> DEFINE p == Chosen(c.profile)
           q == [kind |-> "install", file |-> c.file, force |-> c.force, only |-> c.only,
                 merge |-> c.merge, profile |-> p, step |-> "mkdir", seen |-> <<>>,
                 todo |-> CopiesOf(c.file, p, c.only), conflict |-> FALSE, calm |-> TRUE]
<1>1. run' = q /\ p # "torn" /\ runs' = runs + 1 /\ UNCHANGED <<files, others, edits>>
  BY DEF BeginInstall
<1>2. /\ c.file \in HookFiles /\ c.profile \in {"", "full", "knowledge"} /\ c.force \in BOOLEAN
      /\ c.only \in SUBSET Scripts /\ c.merge \in BOOLEAN
  BY HooksAssumption
<1>3. p \in {"full", "knowledge"}
  <2>1. \A d \in Folders : declared[d] \in {"none", "full", "knowledge", "torn"}
    BY DEF HooksInv, HookTypes, StoreTypes
  <2>2. declared["claude"] \in {"none", "full", "knowledge", "torn"} /\ declared["vaultmind"] \in {"none", "full", "knowledge", "torn"}
    BY <2>1 DEF Folders
  <2> QED BY <1>1, <1>2, <2>2 DEF Chosen
<1> HIDE DEF p
<1>4. CopiesOf(c.file, p, c.only) \in Seq(Copies)
  BY <1>2, CopiesIs
<1>5. q \in InstallRuns
  <2>1. "mkdir" \in Steps /\ <<>> \in Seq(Groups)
    BY DEF Steps
  <2> QED BY <1>2, <1>3, <1>4, <2>1 DEF InstallRuns
<1>6. /\ q.kind = "install" /\ q.step = "mkdir" /\ q.seen = <<>> /\ q.file = c.file /\ q.profile = p
      /\ q.only = c.only /\ q.todo = CopiesOf(c.file, p, c.only) /\ q.conflict = FALSE
  OBVIOUS
<1> HIDE DEF q
<1>7. HookTypes'
  <2>1. RunTyped(q)
    BY <1>5, <1>6 DEF RunTyped
  <2> QED BY <1>1, <2>1 DEF HooksInv, HookTypes, StoreTypes, others
<1>8. SeenIs' /\ Removing' /\ InstallDelivers'
  BY <1>1, <1>6 DEF SeenIs, Removing, InstallDelivers
<1>9. CopiesMade'
  BY <1>1, <1>6 DEF CopiesMade
<1>10. AllOnDisk'
  BY <1>1, <1>6 DEF HooksInv, AllOnDisk, others
<1> QED BY <1>7, <1>8, <1>9, <1>10 DEF HooksInv

\* A step of an install that touches no hook file and no script, before it reads.
LEMMA QuietInv ==
    ASSUME HooksInv, run \in InstallRuns, NEW step \in {"declare", "copy", "read"},
           run' = [run EXCEPT !.step = step], UNCHANGED <<files, scripts, runs, edits>>,
           StoreTypes', CopiesMade'
    PROVE  HooksInv'
<1>1. step \in Steps
  BY DEF Steps
<1>2. RunTyped(run') /\ Moved(run, run', step)
  BY <1>1, MovedInstall DEF HooksInv, HookTypes
<1>3. run'.step \notin {"write", "done", "check", "delete"}
  BY <1>2 DEF Moved
<1>4. HookTypes'
  BY <1>2 DEF HooksInv, HookTypes
<1>5. SeenIs' /\ Removing' /\ InstallDelivers'
  BY <1>3 DEF SeenIs, Removing, InstallDelivers
<1>6. AllOnDisk'
  BY <1>3 DEF HooksInv, AllOnDisk
<1> QED BY <1>4, <1>5, <1>6 DEF HooksInv

\* HooksInv, when the folder of scripts is made.
LEMMA MakeFolderInv == ASSUME HooksInv, MakeFolder PROVE HooksInv'
<1>1. run \in InstallRuns /\ run.step = "mkdir"
  BY RunKinds DEF MakeFolder, HooksInv, HookTypes
<1>2. run' = [run EXCEPT !.step = "declare"] /\ made' = made \cup {FolderOf(run.file)}
      /\ UNCHANGED <<files, broken, scripts, declared, gitRoot, runs, edits>>
  BY DEF MakeFolder, Goto
<1>3. StoreTypes'
  BY <1>2 DEF HooksInv, HookTypes, StoreTypes, FolderOf, Folders
<1>4. Moved(run, run', "declare")
  BY <1>1, <1>2, MovedInstall DEF HooksInv, HookTypes, Steps
<1>5. CopiesMade'
  BY <1>1, <1>2, <1>4 DEF CopiesMade, HooksInv, Moved
<1> QED BY <1>1, <1>2, <1>3, <1>5, QuietInv

\* HooksInv, when the profile is declared.
LEMMA DeclareInv == ASSUME HooksInv, Declare PROVE HooksInv'
<1>1. run \in InstallRuns /\ run.step = "declare"
  BY RunKinds DEF Declare, HooksInv, HookTypes
<1>2. run' = [run EXCEPT !.step = "copy"] /\ declared' = [declared EXCEPT ![FolderOf(run.file)] = run.profile]
      /\ UNCHANGED <<files, broken, scripts, made, gitRoot, runs, edits>>
  BY DEF Declare, Goto
<1>d. FolderOf(run.file) \in Folders
  BY DEF FolderOf, Folders
<1>3. StoreTypes'
  <2>1. declared' \in [Folders -> {"none", "full", "knowledge", "torn"}]
    BY <1>1, <1>2, <1>d, InstallIs DEF HooksInv, HookTypes, StoreTypes
  <2> QED BY <1>2, <2>1 DEF HooksInv, HookTypes, StoreTypes
<1>4. Moved(run, run', "copy")
  BY <1>1, <1>2, MovedInstall DEF HooksInv, HookTypes, Steps
<1>5. declared'[FolderOf(run.file)] = run.profile
  BY <1>2, <1>d DEF HooksInv, HookTypes, StoreTypes
<1>6. CopiesMade'
  BY <1>1, <1>2, <1>4, <1>5 DEF CopiesMade, HooksInv, Moved
<1> QED BY <1>1, <1>2, <1>3, <1>6, QuietInv

\* A command that ends without a change to a hook file or a script.
LEMMA EndedInv ==
    ASSUME HooksInv, run' = Idle, UNCHANGED <<files, scripts, runs, edits>>, StoreTypes'
    PROVE  HooksInv'
<1>1. \A f \in Shared : OnDisk(scripts["vaultmind"], f, files[f])'
  BY DEF HooksInv, AllOnDisk
<1>2. HookTypes'
  BY DEF HooksInv, HookTypes, RunTyped
<1> QED BY <1>1, <1>2, Ended DEF HooksInv

\* HooksInv, when the copies are done: without a conflict all of them are there.
LEMMA CopiesDoneInv == ASSUME HooksInv, CopiesDone PROVE HooksInv'
<1>1. run \in InstallRuns /\ run.step = "copy" /\ run.todo = <<>>
  BY RunKinds DEF CopiesDone, HooksInv, HookTypes
<1>2. UNCHANGED <<files, others, runs, edits>>
  BY DEF CopiesDone
<1>3. StoreTypes'
  BY <1>2 DEF HooksInv, HookTypes, StoreTypes, others
<1>4. CASE run.merge /\ ~run.conflict
  <2>1. run' = [run EXCEPT !.step = "read"]
    BY <1>4 DEF CopiesDone, Goto
  <2>2. Moved(run, run', "read")
    BY <1>1, <2>1, MovedInstall DEF HooksInv, HookTypes, Steps
  <2>3. CopiesMade'
    BY <1>1, <1>2, <1>4, <2>2 DEF CopiesMade, HooksInv, Moved, others
  <2> QED BY <1>1, <1>2, <1>3, <2>1, <2>3, QuietInv DEF others
<1>5. CASE ~(run.merge /\ ~run.conflict)
  BY <1>2, <1>3, <1>5, EndedInv DEF CopiesDone, others
<1> QED BY <1>4, <1>5

\* HooksInv, when an uninstall begins.
LEMMA BeginUninstallInv ==
    ASSUME HooksInv, NEW f \in HookFiles, NEW rm \in BOOLEAN, BeginUninstall(f, rm)
    PROVE  HooksInv'
<1> DEFINE q == [kind |-> "uninstall", file |-> f, rm |-> rm, step |-> "read", seen |-> <<>>,
                 todo |-> <<>>, calm |-> TRUE]
<1>1. run' = q /\ runs' = runs + 1 /\ UNCHANGED <<files, others, edits>>
  BY DEF BeginUninstall
<1>2. q \in UninstallRuns
  BY DEF UninstallRuns
<1>3. q.kind = "uninstall" /\ q.step = "read" /\ q.seen = <<>> /\ q.file = f
  OBVIOUS
<1> HIDE DEF q
<1>4. HookTypes'
  <2>1. RunTyped(q)
    BY <1>2, <1>3 DEF RunTyped
  <2> QED BY <1>1, <2>1 DEF HooksInv, HookTypes, StoreTypes, others
<1>5. SeenIs' /\ Removing' /\ InstallDelivers'
  BY <1>1, <1>3 DEF SeenIs, Removing, InstallDelivers
<1>6. CopiesMade'
  BY <1>1, <1>3 DEF CopiesMade
<1>7. AllOnDisk'
  BY <1>1, <1>3 DEF HooksInv, AllOnDisk, others
<1> QED BY <1>4, <1>5, <1>6, <1>7 DEF HooksInv

\* HooksInv, when a command is killed.
LEMMA KillInv == ASSUME HooksInv, Kill PROVE HooksInv'
<1>1. run' = Idle /\ UNCHANGED <<files, broken, scripts, made, gitRoot, runs, edits>>
  BY DEF Kill
<1>2. declared' \in [Folders -> {"none", "full", "knowledge", "torn"}]
  <2>1. declared \in [Folders -> {"none", "full", "knowledge", "torn"}]
    BY DEF HooksInv, HookTypes, StoreTypes
  <2> QED BY <2>1 DEF Kill
<1>3. StoreTypes'
  BY <1>1, <1>2 DEF HooksInv, HookTypes, StoreTypes
<1> QED BY <1>1, <1>3, EndedInv

\* A sequence is its head and its tail.
LEMMA HeadTail ==
    ASSUME NEW T, NEW s \in Seq(T), s # <<>>
    PROVE  /\ Head(s) \in T /\ Tail(s) \in Seq(T) /\ Len(Tail(s)) = Len(s) - 1 /\ Len(s) \in Nat \ {0}
           /\ \A x \in ToSet(s) : x = Head(s) \/ x \in ToSet(Tail(s))
<1>1. /\ Head(s) \in T /\ Tail(s) \in Seq(T) /\ Len(Tail(s)) = Len(s) - 1 /\ Len(s) \in Nat \ {0}
      /\ Head(s) = s[1] /\ \A i \in 1..(Len(s) - 1) : Tail(s)[i] = s[i + 1]
  OBVIOUS
<1>2. ASSUME NEW i \in DOMAIN s, i # 1 PROVE s[i] \in ToSet(Tail(s))
  <2>1. i - 1 \in DOMAIN Tail(s) /\ Tail(s)[i - 1] = s[i]
    BY <1>1, <1>2
  <2> QED BY <2>1 DEF ToSet
<1>3. \A i \in DOMAIN s : s[i] = Head(s) \/ s[i] \in ToSet(Tail(s))
  BY <1>1, <1>2
<1> QED BY <1>1, <1>3 DEF ToSet

\* HooksInv, when a script is copied or found in conflict.
LEMMA CopyScriptInv == ASSUME HooksInv, CopyScript PROVE HooksInv'
<1>1. run \in InstallRuns /\ run.step = "copy" /\ run.todo # <<>>
  BY RunKinds DEF CopyScript, HooksInv, HookTypes
<1> DEFINE s == Head(run.todo)
           d == FolderOf(run.file)
           clash == scripts[d][s] = "other" /\ ~run.force
<1>2. /\ scripts' = IF clash THEN scripts ELSE [scripts EXCEPT ![d][s] = "ours"]
      /\ run' = [run EXCEPT !.todo = Tail(run.todo), !.conflict = run.conflict \/ clash]
      /\ UNCHANGED <<files, broken, made, declared, gitRoot, runs, edits>>
  BY DEF CopyScript
<1>3. run.todo \in Seq(Copies) /\ run.conflict \in BOOLEAN /\ run.kind = "install"
  BY <1>1, InstallIs
<1>4. s \in Copies /\ Tail(run.todo) \in Seq(Copies) /\ \A x \in ToSet(run.todo) : x = s \/ x \in ToSet(Tail(run.todo))
  BY <1>1, <1>3, HeadTail
<1>5. d \in Folders /\ "vaultmind" \in Folders
  BY DEF FolderOf, Folders
<1>6. scripts \in [Folders -> [Copies -> {"none", "ours", "other"}]]
  BY DEF HooksInv, HookTypes, StoreTypes
<1> HIDE DEF s, d
<1>7. scripts' \in [Folders -> [Copies -> {"none", "ours", "other"}]]
  BY <1>2, <1>4, <1>5, <1>6
<1>8. \A x \in Copies : scripts'[d][x] = IF x = s /\ ~clash THEN "ours" ELSE scripts[d][x]
  BY <1>2, <1>4, <1>5, <1>6
<1>9. \A e \in Folders : \A x \in Copies : scripts[e][x] # "none" => scripts'[e][x] # "none"
  BY <1>2, <1>4, <1>5, <1>6
<1>c. clash \in BOOLEAN /\ (clash => scripts[d][s] = "other")
  OBVIOUS
<1> HIDE DEF clash
<1>10. /\ run' \in InstallRuns /\ run'.kind = "install" /\ run'.file = run.file /\ run'.seen = run.seen
       /\ run'.todo = Tail(run.todo) /\ run'.step = "copy" /\ run'.profile = run.profile
       /\ run'.only = run.only /\ run'.calm = run.calm
  BY <1>1, <1>2, <1>3, <1>4, <1>c DEF InstallRuns
<1>11. run'.conflict = (run.conflict \/ clash)
  BY <1>1, <1>2 DEF InstallRuns
<1>12. HookTypes'
  <2>1. RunTyped(run')
    <3>1. run.seen \in Seq(GroupsOf(run.file))
      BY <1>1, RunKinds DEF HooksInv, HookTypes
    <3> QED BY <1>10, <3>1 DEF RunTyped
  <2>2. StoreTypes'
    BY <1>2, <1>7 DEF HooksInv, HookTypes, StoreTypes
  <2> QED BY <1>2, <2>1, <2>2 DEF HooksInv, HookTypes
<1>13. SeenIs' /\ Removing' /\ InstallDelivers'
  BY <1>10 DEF SeenIs, Removing, InstallDelivers
<1>14. CopiesMade'
  <2>1. CopiesOf(run.file, run.profile, run.only) \in Seq(Copies)
    BY <1>1, InstallIs, CopiesIs
  <2>2. ASSUME NEW x \in ToSet(CopiesOf(run.file, run.profile, run.only))
        PROVE  \/ x \in ToSet(run'.todo)
               \/ /\ scripts'[d][x] # "none"
                  /\ run'.calm /\ ~run'.conflict => scripts'[d][x] = "ours"
    <3>1. x \in Copies
      BY <2>1 DEF ToSet
    <3>2. CASE x \in ToSet(run.todo)
      <4>1. CASE x = s
        BY <3>1, <4>1, <1>8, <1>c, <1>11
      <4> QED BY <3>2, <4>1, <1>4, <1>10
    <3>3. CASE x \notin ToSet(run.todo)
      <4>1. /\ scripts[d][x] # "none" /\ (run.calm /\ ~run.conflict => scripts[d][x] = "ours")
        BY <3>3, <1>3 DEF HooksInv, CopiesMade, d
      <4> QED BY <3>1, <4>1, <1>8, <1>10, <1>11
    <3> QED BY <3>2, <3>3
  <2>3. declared'[d] = run'.profile
    BY <1>1, <1>2, <1>3, <1>10 DEF HooksInv, CopiesMade, d
  <2> QED BY <2>2, <2>3, <1>10 DEF CopiesMade, d
<1>15. AllOnDisk'
  <2>1. \A f \in Shared : OnDisk(scripts'["vaultmind"], f, files'[f])
    BY <1>2, <1>5, <1>9, StillOnDisk DEF HooksInv, AllOnDisk
  <2> QED BY <1>10, <2>1 DEF AllOnDisk
<1> QED BY <1>12, <1>13, <1>14, <1>15 DEF HooksInv

\* HooksInv, when a command reads the hook file.
LEMMA ReadFileInv == ASSUME HooksInv, ReadFile PROVE HooksInv'
<1>1. run.step = "read" /\ UNCHANGED <<files, others, runs, edits>>
  BY DEF ReadFile
<1>2. StoreTypes' /\ UNCHANGED <<files, scripts, declared, runs, edits>>
  BY <1>1 DEF HooksInv, HookTypes, StoreTypes, others
<1>3. CASE run.file \in broken
  BY <1>2, <1>3, EndedInv DEF ReadFile
<1>4. CASE run.file \notin broken
  <2> DEFINE content == files[run.file]
  <2>1. run' = [run EXCEPT !.seen = content, !.step = "write"]
    BY <1>4 DEF ReadFile
  <2>2. run \in InstallRuns \/ run \in UninstallRuns
    BY <1>1, RunKinds DEF HooksInv, HookTypes
  <2>3. run.file \in HookFiles /\ content \in Seq(GroupsOf(run.file)) /\ content \in Seq(Groups)
    BY <2>2, InstallIs, UninstallIs, FilesTyped DEF HooksInv, HookTypes
  <2> HIDE DEF content
  <2>4. /\ run' \in InstallRuns \/ run' \in UninstallRuns
        /\ run'.seen = content /\ run'.step = "write" /\ run'.file = run.file
        /\ run \in InstallRuns => run' \in InstallRuns
        /\ run'.kind = run.kind
    <3>1. "write" \in Steps
      BY DEF Steps
    <3>2. CASE run \in InstallRuns
      BY <2>1, <2>3, <3>1, <3>2 DEF InstallRuns
    <3>3. CASE run \in UninstallRuns /\ run \notin InstallRuns
      BY <2>1, <2>3, <3>3 DEF UninstallRuns
    <3> QED BY <2>2, <3>2, <3>3
  <2>5. HookTypes'
    <3>1. RunTyped(run')
      BY <2>3, <2>4 DEF RunTyped
    <3> QED BY <1>2, <3>1 DEF HooksInv, HookTypes
  <2>6. SeenIs'
    BY <1>2, <2>4 DEF SeenIs, content
  <2>7. CopiesMade'
    <3>1. SUFFICES ASSUME run.kind = "install" PROVE CopiesMade'
      BY <2>4 DEF CopiesMade
    <3>2. run \in InstallRuns
      BY <3>1, RunKinds DEF HooksInv, HookTypes
    <3>3. run'.todo = run.todo /\ run'.only = run.only /\ run'.profile = run.profile /\ run'.calm = run.calm
          /\ run'.conflict = run.conflict
      BY <2>1, <3>2 DEF InstallRuns
    <3> QED BY <1>1, <1>2, <2>4, <3>1, <3>3 DEF HooksInv, CopiesMade
  <2>8. AllOnDisk'
    BY <1>2, <2>4 DEF HooksInv, AllOnDisk, content
  <2>9. Removing' /\ InstallDelivers'
    BY <2>4 DEF Removing, InstallDelivers
  <2> QED BY <2>5, <2>6, <2>7, <2>8, <2>9 DEF HooksInv
<1> QED BY <1>3, <1>4

\* HooksInv, when an uninstall looks for the other agent's hooks.
LEMMA CheckSharedInv == ASSUME HooksInv, CheckShared PROVE HooksInv'
<1>1. run.step = "check" /\ UNCHANGED <<files, others, runs, edits>>
  BY DEF CheckShared
<1>2. StoreTypes' /\ UNCHANGED <<files, scripts, declared, runs, edits>>
  BY <1>1 DEF HooksInv, HookTypes, StoreTypes, others
<1>3. CASE OtherAgentRuns(run.file)
  BY <1>2, <1>3, EndedInv DEF CheckShared
<1>4. CASE ~OtherAgentRuns(run.file)
  <2> DEFINE q == Canonical \o <<Adapter>>
  <2>1. run' = [run EXCEPT !.step = "delete", !.todo = q]
    BY <1>4 DEF CheckShared
  <2>2. run \in UninstallRuns
    BY <1>1, RunKinds DEF HooksInv, HookTypes
  <2>3. q \in Seq(Copies) /\ q # <<>>
    <3>1. Canonical \in Seq(Copies) /\ Adapter \in Copies
      <4>1. Canonical \in Seq(STRING)
        BY HooksAssumption
      <4>2. \A i \in DOMAIN Canonical : Canonical[i] \in Copies
        BY DEF Scripts, ToSet, Copies
      <4> QED BY <4>1, <4>2 DEF Copies
    <3> DEFINE c == Canonical
               a == <<Adapter>>
    <3>2. a \in Seq(Copies) /\ Len(a) = 1
      BY <3>1
    <3> HIDE DEF c, a
    <3>3. c \in Seq(Copies)
      BY <3>1 DEF c
    <3>4. c \o a \in Seq(Copies) /\ Joined(c, a, c \o a)
      BY <3>2, <3>3, ConcatIs
    <3>5. Len(c) + 1 \in DOMAIN (c \o a)
      BY <3>2, <3>4 DEF Joined
    <3>6. c \o a # <<>>
      <4>1. SUFFICES ASSUME c \o a = <<>> PROVE FALSE
        OBVIOUS
      <4> QED BY <3>5, <4>1
    <3> QED BY <3>4, <3>6 DEF c, a
  <2> HIDE DEF q
  <2>4. /\ run' \in UninstallRuns /\ run'.step = "delete" /\ run'.todo = q /\ run'.file = run.file
        /\ run'.seen = run.seen /\ run'.kind = "uninstall"
    BY <2>1, <2>2, <2>3 DEF UninstallRuns
  <2>5. HookTypes'
    <3>1. RunTyped(run')
      BY <2>2, <2>4, UninstallIs DEF RunTyped, HooksInv, HookTypes
    <3> QED BY <1>2, <3>1 DEF HooksInv, HookTypes
  <2>6. SeenIs' /\ CopiesMade' /\ InstallDelivers'
    BY <2>4 DEF SeenIs, CopiesMade, InstallDelivers
  <2>7. AllOnDisk'
    BY <1>2, <2>4 DEF HooksInv, AllOnDisk
  <2>8. ASSUME run.file \in Shared, NEW f \in Shared PROVE AbsIn(files[f]) = {}
    <3>1. AbsIn(files[run.file]) = {}
      BY <1>1 DEF HooksInv, Removing
    <3>2. CASE f # run.file
      <4>1. \A g \in ToSet(files[f]) : ~\E h \in HooksOf(g) : h.ref = "absolute"
        BY <1>4, <2>8, <3>2 DEF OtherAgentRuns, Shared
      <4>2. \A i \in DOMAIN files[f] : files[f][i] \in ToSet(files[f])
        BY DEF ToSet
      <4> QED BY <4>1, <4>2 DEF AbsIn
    <3> QED BY <3>1, <3>2
  <2>9. Removing'
    BY <1>2, <2>3, <2>4, <2>8 DEF Removing
  <2> QED BY <2>5, <2>6, <2>7, <2>9 DEF HooksInv
<1> QED BY <1>3, <1>4

\* HooksInv, when an uninstall deletes a script nothing names.
LEMMA DeleteScriptInv == ASSUME HooksInv, DeleteScript PROVE HooksInv'
<1>1. run.step = "delete" /\ UNCHANGED <<files, broken, made, declared, gitRoot, runs, edits>>
  BY DEF DeleteScript
<1>2. run \in UninstallRuns
  BY <1>1, RunKinds DEF HooksInv, HookTypes
<1>3. run.todo # <<>> /\ run.todo \in Seq(Copies) /\ run.file \in HookFiles
  BY <1>1, <1>2, UninstallIs DEF HooksInv, Removing
<1> DEFINE s == Head(run.todo)
           d == FolderOf(run.file)
<1>4. scripts' = [scripts EXCEPT ![d][s] = "none"]
  BY DEF DeleteScript
<1>5. s \in Copies /\ Tail(run.todo) \in Seq(Copies) /\ Len(Tail(run.todo)) = Len(run.todo) - 1 /\ Len(run.todo) \in Nat \ {0}
  BY <1>3, HeadTail
<1>6. d \in Folders /\ "vaultmind" \in Folders /\ (d = "vaultmind" => run.file \in Shared)
  BY <1>3 DEF FolderOf, Folders, Shared, HookFiles
<1>7. scripts \in [Folders -> [Copies -> {"none", "ours", "other"}]]
  BY DEF HooksInv, HookTypes, StoreTypes
<1> HIDE DEF s, d
<1>8. /\ scripts' \in [Folders -> [Copies -> {"none", "ours", "other"}]]
      /\ d # "vaultmind" => scripts'["vaultmind"] = scripts["vaultmind"]
  BY <1>4, <1>5, <1>6, <1>7
<1>9. StoreTypes'
  BY <1>1, <1>8 DEF HooksInv, HookTypes, StoreTypes
<1>10. \A f \in Shared : OnDisk(scripts'["vaultmind"], f, files'[f])
  <2>1. CASE d # "vaultmind"
    BY <1>1, <1>8, <2>1 DEF HooksInv, AllOnDisk
  <2>2. CASE d = "vaultmind"
    <3>1. \A f \in Shared : AbsIn(files[f]) = {}
      BY <1>1, <1>6, <2>2 DEF HooksInv, Removing
    <3> QED BY <1>1, <3>1 DEF OnDisk
  <2> QED BY <2>1, <2>2
<1>11. CASE Len(run.todo) = 1
  <2>1. run' = Idle
    BY <1>11 DEF DeleteScript
  <2>2. HookTypes'
    BY <1>1, <1>9, <2>1 DEF HooksInv, HookTypes, RunTyped, DeleteScript
  <2> QED BY <2>1, <2>2, <1>10, Ended DEF HooksInv
<1>12. CASE Len(run.todo) # 1
  <2>1. run' = [run EXCEPT !.todo = Tail(run.todo)]
    BY <1>12 DEF DeleteScript
  <2>2. /\ run' \in UninstallRuns /\ run'.step = "delete" /\ run'.todo = Tail(run.todo) /\ run'.file = run.file
        /\ run'.seen = run.seen /\ run'.kind = "uninstall"
    BY <1>1, <1>2, <1>5, <2>1 DEF UninstallRuns
  <2>3. HookTypes'
    <3>1. RunTyped(run')
      BY <1>2, <2>2, UninstallIs DEF RunTyped, HooksInv, HookTypes
    <3> QED BY <1>1, <1>9, <3>1 DEF HooksInv, HookTypes, DeleteScript
  <2>4. SeenIs' /\ CopiesMade' /\ InstallDelivers'
    BY <2>2 DEF SeenIs, CopiesMade, InstallDelivers
  <2>5. AllOnDisk'
    BY <1>10, <2>2 DEF AllOnDisk
  <2>6. Removing'
    <3>1. Tail(run.todo) # <<>>
      <4>1. Len(run.todo) - 1 # 0
        BY <1>5, <1>12
      <4> QED BY <1>5, <4>1
    <3> QED BY <1>1, <2>2, <3>1 DEF HooksInv, Removing
  <2> QED BY <2>3, <2>4, <2>5, <2>6 DEF HooksInv
<1> QED BY <1>11, <1>12

-----------------------------------------------------------------------------
(* The person *)

\* After an edit a command under way is where it was, and knows of it; one that
\* just finished is forgotten.
LEMMA EditRun ==
    ASSUME HooksInv, Edit
    PROVE  /\ RunTyped(run') /\ UNCHANGED <<made, declared, runs>> /\ edits' \in Nat
           /\ \/ run' = Idle
              \/ /\ run'.kind = run.kind /\ run'.file = run.file /\ run'.seen = run.seen /\ run'.todo = run.todo
                 /\ run'.step = run.step /\ run'.calm = FALSE /\ run'.step # "done"
                 /\ run.kind = "install" =>
                       run'.profile = run.profile /\ run'.only = run.only /\ run'.conflict = run.conflict
<1>1. UNCHANGED <<made, declared, runs>> /\ edits' \in Nat
  BY DEF Edit, HooksInv, HookTypes
<1>2. CASE ~Active
  BY <1>1, <1>2 DEF Edit, RunTyped
<1>3. CASE Active
  <2>1. run' = [run EXCEPT !.calm = FALSE] /\ run.step \notin {"idle", "done"}
    BY <1>3 DEF Edit, Active
  <2>2. run \in InstallRuns \/ run \in UninstallRuns
    BY <2>1, RunKinds DEF HooksInv, HookTypes
  <2>3. /\ run' \in InstallRuns \/ run' \in UninstallRuns
        /\ run'.kind = run.kind /\ run'.file = run.file /\ run'.seen = run.seen /\ run'.todo = run.todo
        /\ run'.step = run.step /\ run'.calm = FALSE
        /\ run.kind = "install" => run'.profile = run.profile /\ run'.only = run.only /\ run'.conflict = run.conflict
    <3>1. CASE run \in InstallRuns
      BY <2>1, <3>1 DEF InstallRuns
    <3>2. CASE run \in UninstallRuns
      BY <2>1, <3>2 DEF UninstallRuns
    <3> QED BY <2>2, <3>1, <3>2
  <2>4. run.seen \in Seq(GroupsOf(run.file))
    BY <2>1, RunKinds DEF HooksInv, HookTypes
  <2>5. RunTyped(run')
    BY <2>3, <2>4 DEF RunTyped
  <2> QED BY <1>1, <2>1, <2>3, <2>5
<1> QED BY <1>2, <1>3

\* An edit adds no absolute path and takes no script away.
LEMMA EditInv ==
    ASSUME HooksInv, Edit, StoreTypes',
           \A f \in HookFiles : AbsIn(files'[f]) \subseteq AbsIn(files[f]),
           \A d \in Folders : \A s \in Copies : scripts[d][s] # "none" => scripts'[d][s] # "none"
    PROVE  HooksInv'
<1>1. HookTypes'
  BY EditRun DEF HooksInv, HookTypes
<1>2. "vaultmind" \in Folders /\ Shared \subseteq HookFiles
  BY DEF Folders, Shared, HookFiles
<1>3. \A f \in Shared : OnDisk(scripts'["vaultmind"], f, files'[f])
  BY <1>2, StillOnDisk DEF HooksInv, AllOnDisk
<1>4. CASE run' = Idle
  BY <1>1, <1>3, <1>4, Ended DEF HooksInv
<1>5. CASE /\ run'.kind = run.kind /\ run'.file = run.file /\ run'.seen = run.seen /\ run'.todo = run.todo
           /\ run'.step = run.step /\ run'.calm = FALSE /\ run'.step # "done" /\ run' # Idle
           /\ run.kind = "install" => run'.profile = run.profile /\ run'.only = run.only /\ run'.conflict = run.conflict
  <2>0. run.file \in HookFiles
    BY <1>1, <1>5, InstallIs, UninstallIs DEF HookTypes, RunTyped
  <2>1. SeenIs'
    <3>1. run.step = "write" => AbsIn(files'[run.file]) \subseteq AbsIn(run.seen)
      BY <2>0 DEF HooksInv, SeenIs
    <3> QED BY <1>5, <3>1 DEF SeenIs
  <2>2. CopiesMade'
    <3>1. SUFFICES ASSUME run.kind = "install" PROVE CopiesMade'
      BY <1>5 DEF CopiesMade
    <3>2. run \in InstallRuns
      BY <3>1, RunKinds DEF HooksInv, HookTypes
    <3>3. FolderOf(run.file) \in Folders /\ CopiesOf(run.file, run.profile, run.only) \in Seq(Copies)
      BY <3>2, InstallIs, CopiesIs DEF FolderOf, Folders
    <3>4. \A s \in ToSet(CopiesOf(run.file, run.profile, run.only)) : s \in Copies
      BY <3>3 DEF ToSet
    <3>5. declared' = declared
      BY EditRun
    <3> QED BY <1>5, <3>1, <3>3, <3>4, <3>5 DEF HooksInv, CopiesMade
  <2>3. AllOnDisk'
    <3>1. ASSUME run'.step = "write", run'.file \in Shared
          PROVE  OnDisk(scripts'["vaultmind"], run'.file, run'.seen)
      <4>1. OnDisk(scripts["vaultmind"], run.file, run.seen)
        BY <1>5, <3>1 DEF HooksInv, AllOnDisk
      <4> QED BY <1>2, <1>5, <4>1, StillOnDisk
    <3> QED BY <1>3, <3>1 DEF AllOnDisk
  <2>4. Removing'
    <3>1. run.step = "check" => AbsIn(files'[run.file]) = {}
      BY <2>0 DEF HooksInv, Removing
    <3>2. run.step = "delete" /\ run.file \in Shared => \A f \in Shared : AbsIn(files'[f]) = {}
      <4>1. ASSUME run.step = "delete", run.file \in Shared, NEW f \in Shared PROVE AbsIn(files'[f]) = {}
        <5>1. AbsIn(files[f]) = {}
          BY <4>1 DEF HooksInv, Removing
        <5> QED BY <1>2, <5>1
      <4> QED BY <4>1
    <3>3. run.step = "delete" => run.todo # <<>>
      BY DEF HooksInv, Removing
    <3> QED BY <1>5, <3>1, <3>2, <3>3 DEF Removing
  <2>5. InstallDelivers'
    BY <1>5 DEF InstallDelivers
  <2> QED BY <1>1, <2>1, <2>2, <2>3, <2>4, <2>5 DEF HooksInv
<1> QED BY <1>4, <1>5, EditRun

\* HooksInv, when a person rewrites a hook file without a new absolute path.
LEMMA RewriteInv ==
    ASSUME HooksInv, NEW f \in HookFiles, NEW arr \in Seq(GroupsOf(f)),
           AbsIn(arr) \subseteq AbsIn(files[f]), Rewrite(f, arr)
    PROVE  HooksInv'
<1>1. Edit /\ files' = [files EXCEPT ![f] = arr] /\ UNCHANGED <<broken, scripts, gitRoot>> /\ UNCHANGED <<made, declared>>
  BY DEF Rewrite, Edit
<1>2. arr \in Seq(Groups) /\ (f = "cursor" => arr \in Seq(CursorGroups))
  BY GroupsOfTyped DEF GroupsOf
<1>3. files \in [HookFiles -> Seq(Groups)] /\ files["cursor"] \in Seq(CursorGroups) /\ "cursor" \in HookFiles
  BY DEF HooksInv, HookTypes, StoreTypes, HookFiles
<1>4. files' \in [HookFiles -> Seq(Groups)] /\ files'["cursor"] \in Seq(CursorGroups)
  BY <1>1, <1>2, <1>3
<1>5. StoreTypes'
  BY <1>1, <1>4 DEF HooksInv, HookTypes, StoreTypes
<1>6. \A e \in HookFiles : files'[e] = IF e = f THEN arr ELSE files[e]
  BY <1>1, <1>3
<1>7. \A e \in HookFiles : AbsIn(files'[e]) \subseteq AbsIn(files[e])
  BY <1>6
<1> QED BY <1>1, <1>5, <1>7, EditInv

\* HooksInv, whatever the person does.
LEMMA PersonInv == ASSUME HooksInv, Person PROVE HooksInv'
<1>s. PICK z : z \in Scripts
  <2>1. Canonical \in Seq(STRING) /\ Canonical # <<>>
    BY HooksAssumption
  <2>2. 1 \in DOMAIN Canonical
    BY <2>1
  <2> QED BY <2>2 DEF Scripts, ToSet
<1>st. StoreTypes
  BY DEF HooksInv, HookTypes
<1>1. ASSUME NEW f \in HookFiles, NEW s \in Scripts, AddOwn(f) \/ MixOwn(f) \/ DropGroup(f) \/ WireByHand(f, s)
      PROVE  HooksInv'
  <2>1. PICK arr \in Seq(GroupsOf(f)) : AbsIn(arr) \subseteq AbsIn(files[f]) /\ Rewrite(f, arr)
    BY <1>1, <1>st, RewriteIs
  <2> QED BY <2>1, RewriteInv
<1>2. ASSUME NEW f \in HookFiles, BreakFile(f) PROVE HooksInv'
  <2>1. Edit /\ broken' \subseteq HookFiles /\ UNCHANGED <<files, scripts, gitRoot>>
    BY <1>2 DEF BreakFile, HooksInv, HookTypes, StoreTypes
  <2>2. StoreTypes'
    BY <2>1 DEF HooksInv, HookTypes, StoreTypes, Edit
  <2> QED BY <2>1, <2>2, EditInv
<1>3. ASSUME NEW d \in Folders, NEW s \in Scripts, EditScript(d, s) PROVE HooksInv'
  <2>1. Edit /\ scripts' = [scripts EXCEPT ![d][s] = "other"] /\ UNCHANGED <<files, broken, gitRoot>>
    BY <1>3 DEF EditScript
  <2>2. scripts \in [Folders -> [Copies -> {"none", "ours", "other"}]] /\ s \in Copies
    BY DEF HooksInv, HookTypes, StoreTypes, Copies
  <2>3. scripts' \in [Folders -> [Copies -> {"none", "ours", "other"}]]
    BY <2>1, <2>2
  <2>4. \A e \in Folders : \A x \in Copies : scripts[e][x] # "none" => scripts'[e][x] # "none"
    BY <2>1, <2>2
  <2>5. StoreTypes'
    BY <2>1, <2>3 DEF HooksInv, HookTypes, StoreTypes, Edit
  <2> QED BY <2>1, <2>4, <2>5, EditInv
<1>4. ASSUME GitInit PROVE HooksInv'
  <2>1. Edit /\ gitRoot' = TRUE /\ UNCHANGED <<files, broken, scripts>>
    BY <1>4 DEF GitInit
  <2>2. StoreTypes'
    BY <2>1 DEF HooksInv, HookTypes, StoreTypes, Edit
  <2> QED BY <2>1, <2>2, EditInv
<1>5. CASE \E f \in HookFiles : AddOwn(f) \/ MixOwn(f) \/ DropGroup(f) \/ BreakFile(f)
  <2>1. PICK f \in HookFiles : AddOwn(f) \/ MixOwn(f) \/ DropGroup(f) \/ BreakFile(f)
    BY <1>5
  <2>2. CASE BreakFile(f)
    BY <2>2, <1>2
  <2> QED BY <2>1, <2>2, <1>s, <1>1
<1>6. CASE \E f \in HookFiles, s \in Scripts : WireByHand(f, s)
  BY <1>6, <1>1
<1>7. CASE \E d \in Folders, s \in Scripts : EditScript(d, s)
  BY <1>7, <1>3
<1> QED BY <1>4, <1>5, <1>6, <1>7 DEF Person

-----------------------------------------------------------------------------
(* What a command writes *)

\* The file a command works on is replaced by out, unless out is what it read.
Wrote(f, out) ==
    /\ files' \in [HookFiles -> Seq(Groups)] /\ files'["cursor"] \in Seq(CursorGroups)
    /\ \A e \in HookFiles : e # f => files'[e] = files[e]
    /\ AbsIn(files'[f]) \subseteq AbsIn(out)
    /\ run.seen = files[f] => files'[f] = out

\* What a command that writes leaves in the hook files.
LEMMA WroteIs ==
    ASSUME HooksInv, run.step = "write", NEW out \in Seq(GroupsOf(run.file)),
           IF out = run.seen THEN UNCHANGED <<files, broken>>
           ELSE files' = [files EXCEPT ![run.file] = out] /\ broken' = broken \ {run.file},
           UNCHANGED <<scripts, made, declared, gitRoot>>
    PROVE  Wrote(run.file, out) /\ StoreTypes' /\ run.file \in HookFiles
<1>1. run \in InstallRuns \/ run \in UninstallRuns
  BY RunKinds DEF HooksInv, HookTypes
<1>2. run.file \in HookFiles
  BY <1>1, InstallIs, UninstallIs
<1>3. AbsIn(files[run.file]) \subseteq AbsIn(run.seen)
  BY DEF HooksInv, SeenIs
<1>4. files \in [HookFiles -> Seq(Groups)] /\ files["cursor"] \in Seq(CursorGroups) /\ "cursor" \in HookFiles
  BY DEF HooksInv, HookTypes, StoreTypes, HookFiles
<1>5. out \in Seq(Groups) /\ (run.file = "cursor" => out \in Seq(CursorGroups))
  BY GroupsOfTyped DEF GroupsOf
<1>6. ASSUME out = run.seen PROVE Wrote(run.file, out)
  <2>1. files' = files
    BY <1>6
  <2>2. AbsIn(files'[run.file]) \subseteq AbsIn(out) /\ (run.seen = files[run.file] => files'[run.file] = out)
    BY <1>3, <1>6, <2>1
  <2>3. files' \in [HookFiles -> Seq(Groups)] /\ files'["cursor"] \in Seq(CursorGroups)
    BY <1>4, <2>1
  <2> QED BY <2>1, <2>2, <2>3 DEF Wrote
<1>7. ASSUME out # run.seen PROVE Wrote(run.file, out)
  <2>1. files' = [files EXCEPT ![run.file] = out]
    BY <1>7
  <2>2. files' \in [HookFiles -> Seq(Groups)] /\ files'["cursor"] \in Seq(CursorGroups)
    BY <1>2, <1>4, <1>5, <2>1
  <2>3. \A e \in HookFiles : files'[e] = IF e = run.file THEN out ELSE files[e]
    BY <1>4, <2>1
  <2> QED BY <1>2, <2>2, <2>3 DEF Wrote
<1>8. Wrote(run.file, out)
  BY <1>6, <1>7
<1>9. broken' \subseteq HookFiles
  BY DEF HooksInv, HookTypes, StoreTypes
<1>10. files' \in [HookFiles -> Seq(Groups)] /\ files'["cursor"] \in Seq(CursorGroups)
  BY <1>8 DEF Wrote
<1>11. StoreTypes'
  BY <1>9, <1>10 DEF HooksInv, HookTypes, StoreTypes
<1> QED BY <1>2, <1>8, <1>11

\* HooksInv, when an uninstall takes its hooks out.
LEMMA StripWiringInv == ASSUME HooksInv, StripWiring PROVE HooksInv'
<1> DEFINE f == run.file
           out == Stripped(f, run.seen)
<1>1. run.step = "write" /\ run.kind = "uninstall" /\ run \in UninstallRuns
  BY RunKinds DEF StripWiring, HooksInv, HookTypes
<1>2. run.file \in HookFiles /\ run.seen \in Seq(GroupsOf(run.file))
  BY <1>1, UninstallIs DEF HooksInv, HookTypes, RunTyped
<1>3. out \in Seq(GroupsOf(f)) /\ AbsIn(out) = {}
  BY <1>2, StrippedIs
<1>4. /\ IF out = run.seen THEN UNCHANGED <<files, broken>>
         ELSE files' = [files EXCEPT ![f] = out] /\ broken' = broken \ {f}
      /\ UNCHANGED <<scripts, made, declared, gitRoot, runs, edits>>
      /\ IF run.rm THEN run' = [run EXCEPT !.step = "check"] ELSE run' = Idle
  BY DEF StripWiring, Goto
<1> HIDE DEF out
<1>5. Wrote(f, out) /\ StoreTypes'
  BY <1>1, <1>3, <1>4, WroteIs
<1>6. AbsIn(files'[f]) = {} /\ \A e \in HookFiles : e # f => files'[e] = files[e]
  BY <1>3, <1>5 DEF Wrote
<1>7. \A e \in Shared : OnDisk(scripts'["vaultmind"], e, files'[e])
  <2>1. ASSUME NEW e \in Shared PROVE OnDisk(scripts'["vaultmind"], e, files'[e])
    <3>1. CASE e = f
      BY <1>6, <3>1 DEF OnDisk
    <3>2. CASE e # f
      BY <1>4, <1>6, <3>2 DEF HooksInv, AllOnDisk, Shared, HookFiles
    <3> QED BY <3>1, <3>2
  <2> QED BY <2>1
<1>8. CASE run.rm
  <2>1. run' = [run EXCEPT !.step = "check"]
    BY <1>4, <1>8
  <2>2. RunTyped(run') /\ run' \in UninstallRuns /\ Moved(run, run', "check")
    BY <1>1, <2>1, MovedUninstall DEF HooksInv, HookTypes
  <2>3. run'.kind = "uninstall" /\ run'.step = "check" /\ run'.file = f
    BY <1>1, <2>2 DEF Moved
  <2>4. HookTypes'
    BY <1>4, <1>5, <2>2 DEF HooksInv, HookTypes
  <2>5. SeenIs' /\ CopiesMade' /\ InstallDelivers'
    BY <2>3 DEF SeenIs, CopiesMade, InstallDelivers
  <2>6. AllOnDisk'
    BY <1>7, <2>3 DEF AllOnDisk
  <2>7. Removing'
    BY <1>6, <2>3 DEF Removing
  <2> QED BY <2>4, <2>5, <2>6, <2>7 DEF HooksInv
<1>9. CASE ~run.rm
  <2>1. run' = Idle
    BY <1>4, <1>9
  <2>2. HookTypes'
    BY <1>4, <1>5, <2>1 DEF HooksInv, HookTypes, RunTyped
  <2> QED BY <1>7, <2>1, <2>2, Ended DEF HooksInv
<1> QED BY <1>8, <1>9

\* What the install that writes makes of the file it read.
LEMMA WiringIs ==
    ASSUME HooksInv, run.step = "write", run.kind = "install"
    PROVE  LET f   == run.file
               out == Merged(f, run.seen, run.profile, run.only, WantedGroups(f))
           IN  /\ run \in InstallRuns /\ f \in HookFiles /\ run.seen \in Seq(GroupsOf(f))
               /\ Did(f, run.seen, Selected(f, run.profile, run.only), out)
               /\ Merged(f, out, run.profile, run.only, WantedGroups(f)) = out
               /\ f = "codex" => Grown(run.seen, out, Selected(f, run.profile, run.only))
               /\ f \in ClaudeFiles /\ run.only = {} => Clean(out, run.profile)
<1>1. run \in InstallRuns
  BY RunKinds DEF HooksInv, HookTypes
<1>2. run.file \in HookFiles /\ run.seen \in Seq(GroupsOf(run.file))
  BY <1>1, InstallIs DEF HooksInv, HookTypes, RunTyped
<1>3. /\ WantedGroups(run.file) = Wirings(run.file, RefFor(run.file)) /\ RefFor(run.file) \in Refs
      /\ run.file = "cursor" => RefFor(run.file) = "absolute"
  BY <1>2, ScriptsWanted
<1> QED BY <1>1, <1>2, <1>3, MergedDoes

\* What an install that nobody disturbed leaves.
LEMMA WiringDelivers ==
    ASSUME HooksInv, WriteWiring, run.calm PROVE InstallDelivers'
<1>0. PICK f, p, only, out : /\ f = run.file /\ p = run.profile /\ only = run.only
                             /\ out = Merged(f, run.seen, p, only, WantedGroups(f))
  OBVIOUS
<1>1. run.step = "write" /\ run.kind = "install" /\ run \in InstallRuns /\ f \in HookFiles
  BY <1>0, WiringIs DEF WriteWiring
<1>2. /\ Did(f, run.seen, Selected(f, p, only), out)
      /\ Merged(f, out, p, only, WantedGroups(f)) = out
      /\ f \in ClaudeFiles /\ only = {} => Clean(out, p)
  BY <1>0, <1>1, WiringIs
<1>3. /\ IF out = run.seen THEN UNCHANGED <<files, broken>>
         ELSE files' = [files EXCEPT ![run.file] = out] /\ broken' = broken \ {run.file}
      /\ UNCHANGED <<scripts, made, declared, gitRoot, runs, edits>>
      /\ run' = [run EXCEPT !.step = "done", !.seen = <<>>]
  BY <1>0 DEF WriteWiring, Finished
<1>w. WantedGroups(f)' = WantedGroups(f)
  BY <1>3 DEF WantedGroups, RefFor
<1>4. out \in Seq(GroupsOf(f)) /\ \A s \in Selected(f, p, only) : Holding(out, s) # {}
  BY <1>2 DEF Did
<1>5. files'[f] = out
  <2>1. Wrote(run.file, out)
    BY <1>0, <1>1, <1>3, <1>4, WroteIs
  <2> QED BY <1>0, <1>1, <2>1 DEF Wrote, HooksInv, SeenIs
<1>6. run'.file = f /\ run'.profile = p /\ run'.only = only
  BY <1>0, <1>1, <1>3 DEF InstallRuns
<1>7. p \in {"full", "knowledge"}
  BY <1>0, <1>1, InstallIs
<1>8. declared[FolderOf(f)] = p
  BY <1>0, <1>1 DEF HooksInv, CopiesMade
<1>9. \A s \in ToSet(CopiesOf(f, p, only)) : scripts'[FolderOf(f)][s] = "ours"
  <2>1. run.todo = <<>> /\ ~run.conflict
    BY <1>1 DEF HooksInv, CopiesMade
  <2>2. ToSet(run.todo) = {}
    BY <2>1 DEF ToSet
  <2>3. \A s \in ToSet(CopiesOf(f, p, only)) : scripts[FolderOf(f)][s] = "ours"
    BY <1>0, <1>1, <2>1, <2>2 DEF HooksInv, CopiesMade
  <2> QED BY <1>3, <2>3
<1>10. \A s \in ToSet(selectedHooks(f, p, only)) : Holding(out, s) # {}
  BY <1>4, SelectedIs
<1>11. f \in ClaudeFiles /\ only = {} =>
          \A s \in Scripts :
             \/ \E i \in Holding(out, s) : \E h \in HooksOf(out[i]) : h.script # s
             \/ EventState(out, s, p) = IF s \in InProfile(p) THEN "wired" ELSE "unwired"
  BY <1>2 DEF Clean
<1>12. (IF f \in ClaudeFiles \/ declared["claude"] = "none" THEN Chosen("") ELSE p) = p
  <2>1. CASE f \in ClaudeFiles
    BY <2>1, <1>7, <1>8 DEF Chosen, FolderOf
  <2>2. CASE f \notin ClaudeFiles /\ declared["claude"] = "none"
    BY <2>2, <1>7, <1>8 DEF Chosen, FolderOf
  <2> QED BY <2>1, <2>2
<1>13. (IF f \in ClaudeFiles \/ declared'["claude"] = "none" THEN Chosen("")' ELSE p) = p
  <2>1. Chosen("")' = Chosen("")
    BY <1>3 DEF Chosen
  <2> QED BY <1>3, <1>12, <2>1
<1>14. Merged(f, out, p, only, WantedGroups(f)') = out
  BY <1>2, <1>w
<1>15. (IF f \in ClaudeFiles \/ declared'["claude"] = "none" THEN Chosen("")' ELSE p) = p
       /\ Merged(f, out, IF f \in ClaudeFiles \/ declared'["claude"] = "none" THEN Chosen("")' ELSE p,
                 only, WantedGroups(f)') = out
  BY <1>13, <1>14
<1> QED BY <1>5, <1>6, <1>9, <1>10, <1>11, <1>15 DEF InstallDelivers

\* HooksInv, when an install wires its hooks in.
LEMMA WriteWiringInv == ASSUME HooksInv, WriteWiring PROVE HooksInv'
<1> DEFINE f == run.file
           p == run.profile
           added == Selected(f, p, run.only)
           out == Merged(f, run.seen, p, run.only, WantedGroups(f))
<1>1. run.step = "write" /\ run.kind = "install" /\ run \in InstallRuns /\ f \in HookFiles
  BY WiringIs DEF WriteWiring
<1>2. Did(f, run.seen, added, out)
  BY <1>1, WiringIs
<1>3. /\ IF out = run.seen THEN UNCHANGED <<files, broken>>
         ELSE files' = [files EXCEPT ![f] = out] /\ broken' = broken \ {f}
      /\ UNCHANGED <<scripts, made, declared, gitRoot, runs, edits>>
      /\ IF run.calm THEN run' = [run EXCEPT !.step = "done", !.seen = <<>>] ELSE run' = Idle
  BY DEF WriteWiring, Finished
<1> HIDE DEF out
<1>4. out \in Seq(GroupsOf(f)) /\ AbsIn(out) \subseteq AbsIn(run.seen) \cup added
  BY <1>2 DEF Did
<1>5. Wrote(f, out) /\ StoreTypes'
  BY <1>1, <1>3, <1>4, WroteIs
<1>6. \A e \in Shared : OnDisk(scripts'["vaultmind"], e, files'[e])
  <2>1. ASSUME NEW e \in Shared, e = f PROVE OnDisk(scripts'["vaultmind"], e, files'[e])
    <3>1. OnDisk(scripts["vaultmind"], f, run.seen)
      BY <1>1, <2>1 DEF HooksInv, AllOnDisk
    <3>2. FolderOf(f) = "vaultmind"
      BY <2>1 DEF FolderOf, Shared, ClaudeFiles
    <3>3. \A s \in ToSet(CopiesOf(f, p, run.only)) : scripts["vaultmind"][s] # "none"
      <4>1. run.todo = <<>>
        BY <1>1 DEF HooksInv, CopiesMade
      <4>2. ToSet(run.todo) = {}
        BY <4>1 DEF ToSet
      <4> QED BY <1>1, <3>2, <4>2 DEF HooksInv, CopiesMade
    <3>4. added \subseteq ToSet(CopiesOf(f, p, run.only)) /\ (f = "cursor" => Adapter \in ToSet(CopiesOf(f, p, run.only)))
      BY <1>1, InstallIs, CopiesIs
    <3>5. AbsIn(files'[f]) \subseteq AbsIn(run.seen) \cup added
      BY <1>4, <1>5 DEF Wrote
    <3> HIDE DEF f, p, added
    <3>6. \A s \in AbsIn(files'[f]) : scripts["vaultmind"][s] # "none" /\ (f = "cursor" => scripts["vaultmind"][Adapter] # "none")
      BY <3>1, <3>3, <3>4, <3>5 DEF OnDisk
    <3> QED BY <1>3, <2>1, <3>6 DEF OnDisk
  <2>2. ASSUME NEW e \in Shared, e # f PROVE OnDisk(scripts'["vaultmind"], e, files'[e])
    <3>1. files'[e] = files[e]
      BY <1>5, <2>2 DEF Wrote, Shared, HookFiles
    <3> QED BY <1>3, <3>1 DEF HooksInv, AllOnDisk
  <2> QED BY <2>1, <2>2
<1>7. CASE run.calm
  <2>1. run' = [run EXCEPT !.step = "done", !.seen = <<>>]
    BY <1>3, <1>7
  <2>2. /\ run' \in InstallRuns /\ run'.step = "done" /\ run'.seen = <<>> /\ run'.kind = "install"
        /\ run'.file = f /\ run'.profile = p /\ run'.only = run.only /\ run'.todo = run.todo
        /\ run'.calm = run.calm /\ run'.conflict = run.conflict
    <3>1. "done" \in Steps /\ <<>> \in Seq(Groups)
      BY DEF Steps
    <3> QED BY <1>1, <2>1, <3>1 DEF InstallRuns
  <2>3. HookTypes'
    <3>1. RunTyped(run')
      BY <2>2 DEF RunTyped
    <3> QED BY <1>3, <1>5, <3>1 DEF HooksInv, HookTypes
  <2>4. SeenIs' /\ Removing'
    BY <2>2 DEF SeenIs, Removing
  <2>5. CopiesMade'
    BY <1>1, <1>3, <2>2 DEF HooksInv, CopiesMade
  <2>6. AllOnDisk'
    BY <1>6, <2>2 DEF AllOnDisk
  <2> QED BY <1>7, <2>3, <2>4, <2>5, <2>6, WiringDelivers DEF HooksInv
<1>8. CASE ~run.calm
  <2>1. run' = Idle
    BY <1>3, <1>8
  <2>2. HookTypes'
    BY <1>3, <1>5, <2>1 DEF HooksInv, HookTypes, RunTyped
  <2> QED BY <1>6, <2>1, <2>2, Ended DEF HooksInv
<1> QED BY <1>7, <1>8

-----------------------------------------------------------------------------
(* Theorems *)

\* HooksInv holds of whatever earlier releases left.
LEMMA HooksInvInit == ASSUME Init PROVE HooksInv
<1>1. PICK left \in HookFiles, groups \in {<<>>, <<Leftover>>, <<OwnGroup, Leftover>>} :
          /\ left \in {"shared", "codex"}
          /\ files = [f \in HookFiles |-> IF f = left THEN groups ELSE <<>>]
          /\ made = IF groups = <<>> THEN {} ELSE {"claude"}
          /\ scripts = [d \in Folders |-> IF d \in made THEN OldCopies ELSE NoCopies]
  BY DEF Init
<1>2. Canonical[1] \in Scripts
  <2>1. Canonical \in Seq(STRING) /\ Canonical # <<>>
    BY HooksAssumption
  <2>2. 1 \in DOMAIN Canonical
    BY <2>1
  <2> QED BY <2>2 DEF Scripts, ToSet
<1>3. Leftover \in Groups /\ OwnGroup \in Groups
  <2> DEFINE h == Hook(Canonical[1], "claude")
  <2>1. h \in Hooks
    BY <1>2 DEF Hook, Hooks, Refs
  <2>2. Leftover = [matcher |-> Narrow, hooks |-> <<h>>]
    BY DEF Leftover, Group
  <2> HIDE DEF h
  <2>3. Leftover \in Groups
    BY <2>1, <2>2, GroupMade
  <2> QED BY <2>3, OwnTyped
<1>4. /\ \A h \in HooksOf(Leftover) : h.ref # "absolute"
      /\ \A h \in HooksOf(OwnGroup) : h.ref # "absolute"
  <2>1. Leftover.hooks = <<Hook(Canonical[1], "claude")>> /\ OwnGroup.hooks = <<Own>>
    BY DEF Leftover, OwnGroup, Group
  <2> QED BY <2>1 DEF HooksOf, ToSet, Own, Hook
<1> DEFINE l == Leftover
           o == OwnGroup
<1>5. groups \in Seq(Groups) /\ \A i \in DOMAIN groups : groups[i] \in {l, o}
  <2>0. l \in Groups /\ o \in Groups
    BY <1>3
  <2>1. groups = <<>> \/ groups = <<l>> \/ groups = <<o, l>>
    OBVIOUS
  <2> HIDE DEF l, o
  <2>2. CASE groups = <<>>
    BY <2>2
  <2>3. CASE groups = <<l>>
    BY <2>0, <2>3
  <2>4. CASE groups = <<o, l>>
    BY <2>0, <2>4
  <2> QED BY <2>1, <2>2, <2>3, <2>4
<1>6. AbsIn(groups) = {} /\ AbsIn(<<>>) = {}
  BY <1>4, <1>5 DEF AbsIn
<1>7. files \in [HookFiles -> Seq(Groups)] /\ files["cursor"] = <<>> /\ \A f \in HookFiles : AbsIn(files[f]) = {}
  <2>1. "cursor" \in HookFiles
    BY DEF HookFiles
  <2> QED BY <1>1, <1>5, <1>6, <2>1
<1>8. scripts \in [Folders -> [Copies -> {"none", "ours", "other"}]]
  BY <1>1 DEF OldCopies, NoCopies
<1>9. StoreTypes
  <2>1. broken = {} /\ declared = [d \in Folders |-> "none"] /\ gitRoot \in BOOLEAN
    BY DEF Init
  <2>2. made \subseteq Folders
    BY <1>1 DEF Folders
  <2>3. declared \in [Folders -> {"none", "full", "knowledge", "torn"}]
    BY <2>1
  <2>4. files["cursor"] \in Seq(CursorGroups)
    BY <1>7
  <2> QED BY <1>7, <1>8, <2>1, <2>2, <2>3, <2>4 DEF StoreTypes
<1>10. run = Idle /\ run.kind = "none" /\ run.step = "idle" /\ runs = 0 /\ edits = 0
  BY IdleIs DEF Init
<1>11. HookTypes
  BY <1>9, <1>10 DEF HookTypes, RunTyped
<1>12. SeenIs /\ CopiesMade /\ Removing /\ InstallDelivers
  BY <1>10 DEF SeenIs, CopiesMade, Removing, InstallDelivers
<1>13. AllOnDisk
  BY <1>7, <1>10 DEF AllOnDisk, OnDisk, Shared, HookFiles
<1> QED BY <1>11, <1>12, <1>13 DEF HooksInv

\* HooksInv is kept by every step of a command and of the person.
LEMMA HooksInvNext == ASSUME HooksInv, [Next]_vars PROVE HooksInv'
<1>1. CASE UNCHANGED vars
  <2>1. UNCHANGED <<files, broken, scripts, made, declared, gitRoot, run, runs, edits>>
    BY <1>1 DEF vars
  <2>2. HookTypes'
    BY <2>1 DEF HooksInv, HookTypes, StoreTypes
  <2>3. SeenIs'
    BY <2>1 DEF HooksInv, SeenIs
  <2>4. CopiesMade'
    BY <2>1 DEF HooksInv, CopiesMade
  <2>5. AllOnDisk' /\ Removing'
    BY <2>1 DEF HooksInv, AllOnDisk, Removing
  <2>6. InstallDelivers'
    BY <2>1 DEF HooksInv, InstallDelivers, Chosen, WantedGroups, RefFor
  <2> QED BY <2>2, <2>3, <2>4, <2>5, <2>6 DEF HooksInv
<1>2. CASE Command
  BY <1>2, BeginInstallInv, MakeFolderInv, DeclareInv, CopyScriptInv, CopiesDoneInv, BeginUninstallInv,
     ReadFileInv, WriteWiringInv, StripWiringInv, CheckSharedInv, DeleteScriptInv, KillInv DEF Command
<1> QED BY <1>1, <1>2, PersonInv DEF Next

\* The inductive invariant: of the types, what a command has read, copied and
\* still to do, and what the hooks of either shared file name.
THEOREM HooksInvHolds == Spec => []HooksInv
<1> QED BY HooksInvInit, HooksInvNext, PTL DEF Spec

\* Every file, folder and command of `hooks install` and `hooks uninstall` is of
\* its type.
THEOREM HooksAlwaysTyped == Spec => []HookTypes
<1>1. HooksInv => HookTypes
  BY DEF HooksInv
<1> QED BY <1>1, HooksInvHolds, PTL

\* A script a hook names by an absolute path is one AbsIn counts.
LEMMA OnDiskRuns == ASSUME HooksInv PROVE RunsFromDisk
<1>1. SUFFICES ASSUME NEW f \in Shared, NEW g \in ToSet(files[f]), NEW h \in HooksOf(g), h.ref = "absolute"
               PROVE  /\ scripts["vaultmind"][h.script] # "none"
                      /\ f = "cursor" => scripts["vaultmind"][Adapter] # "none"
  BY DEF RunsFromDisk, Shared
<1>2. files[f] \in Seq(Groups)
  BY FilesTyped DEF HooksInv, HookTypes, Shared, HookFiles
<1>3. PICK i \in DOMAIN files[f] : g = files[f][i]
  BY DEF ToSet
<1>4. g \in Groups
  BY <1>2, <1>3
<1>5. h.script \in AbsIn(files[f])
  BY <1>1, <1>3, <1>4, AbsTyped DEF AbsIn
<1> QED BY <1>5 DEF HooksInv, AllOnDisk, OnDisk

\* HooksWork, for any scripts, profiles and installs and any number of commands and
\* edits: an install nothing disturbed delivers what it was asked for and would
\* change nothing the second time, and no hook that names its script by an
\* absolute path is left without it (installers, removeSharedScripts).
THEOREM HooksAlwaysWork == Spec => []HooksWork
<1>1. HooksInv => HooksWork
  BY OnDiskRuns DEF HooksInv, HooksWork
<1> QED BY <1>1, HooksInvHolds, PTL

\* The step of a command on the file it read, as it still is: it writes the file,
\* or changes none.
LEMMA SettledStep ==
    ASSUME HooksInv, Next, NEW f \in HookFiles, Settled(f)
    PROVE  \/ files' = files
           \/ /\ run.kind = "install" /\ run.step = "write" /\ run.file = f /\ run.seen = files[f]
              /\ files'[f] = Merged(f, files[f], run.profile, run.only, WantedGroups(f))
           \/ /\ run.kind = "uninstall" /\ run.step = "write" /\ run.file = f
              /\ files'[f] = Stripped(f, files[f])
<1>1. run.step = "write" /\ run.file = f /\ run.seen = files[f] /\ run'.step # "write"
  BY DEF Settled
<1>2. files[f] \in Seq(GroupsOf(f)) /\ files \in [HookFiles -> Seq(Groups)]
  BY FilesTyped DEF HooksInv, HookTypes, StoreTypes
<1>3. ~Person
  <2>1. SUFFICES ASSUME Person PROVE FALSE
    OBVIOUS
  <2>2. Edit
    BY <2>1 DEF Person, AddOwn, MixOwn, DropGroup, BreakFile, WireByHand, EditScript, GitInit, Rewrite
  <2>3. run' = [run EXCEPT !.calm = FALSE]
    BY <1>1, <2>2 DEF Edit, Active
  <2>4. run \in InstallRuns \/ run \in UninstallRuns
    BY <1>1, RunKinds DEF HooksInv, HookTypes
  <2>5. run'.step = run.step
    BY <2>3, <2>4 DEF InstallRuns, UninstallRuns
  <2> QED BY <1>1, <2>5
<1>4. CASE WriteWiring
  <2> DEFINE out == Merged(f, files[f], run.profile, run.only, WantedGroups(f))
  <2>1. IF out = files[f] THEN files' = files ELSE files' = [files EXCEPT ![f] = out]
    BY <1>1, <1>4 DEF WriteWiring
  <2> HIDE DEF out
  <2>2. files' = files \/ files'[f] = out
    BY <1>2, <2>1
  <2> QED BY <1>1, <1>4, <2>2 DEF WriteWiring, out
<1>5. CASE StripWiring
  <2> DEFINE out == Stripped(f, files[f])
  <2>1. IF out = files[f] THEN files' = files ELSE files' = [files EXCEPT ![f] = out]
    BY <1>1, <1>5 DEF StripWiring
  <2> HIDE DEF out
  <2>2. files' = files \/ files'[f] = out
    BY <1>2, <2>1
  <2> QED BY <1>1, <1>5, <2>2 DEF StripWiring, out
<1>6. CASE Command /\ ~WriteWiring /\ ~StripWiring
  BY <1>1, <1>6 DEF Command, BeginInstall, BeginUninstall, MakeFolder, Declare, CopyScript, CopiesDone, ReadFile,
     CheckShared, DeleteScript, Kill, Active
<1> QED BY <1>3, <1>4, <1>5, <1>6 DEF Next

\* A command may only change the file it works on as the property says.
LEMMA HandHooksStep ==
    ASSUME HooksInv, Next, NEW f \in HookFiles, Settled(f)
    PROVE  IF run.kind = "install"
           THEN Those(files'[f], HasOwn) = Those(files[f], HasOwn)
           ELSE Those(files'[f], LAMBDA g : ~\E s \in Scripts : RunsScript(g, s))
                  = Those(files[f], LAMBDA g : ~\E s \in Scripts : RunsScript(g, s))
<1>1. files[f] \in Seq(GroupsOf(f)) /\ files[f] \in Seq(Groups)
  BY FilesTyped DEF HooksInv, HookTypes
<1>2. CASE files' = files
  BY <1>2
<1>3. CASE /\ run.kind = "install" /\ run.step = "write" /\ run.file = f /\ run.seen = files[f]
           /\ files'[f] = Merged(f, files[f], run.profile, run.only, WantedGroups(f))
  <2>1. Did(f, files[f], Selected(f, run.profile, run.only), files'[f])
    BY <1>3, WiringIs
  <2>2. files'[f] \in Seq(Groups) /\ Among(files'[f], OwnGroups) = Among(files[f], OwnGroups)
    BY <2>1, GroupsOfTyped DEF Did
  <2> QED BY <1>1, <1>3, <2>2, ThoseOwn
<1>4. CASE /\ run.kind = "uninstall" /\ run.step = "write" /\ run.file = f
           /\ files'[f] = Stripped(f, files[f])
  <2> DEFINE foreign == {g \in Groups : ~\E s \in Scripts : RunsScript(g, s)}
  <2>1. files'[f] \in Seq(GroupsOf(f)) /\ Among(files'[f], foreign) = Among(files[f], foreign)
    BY <1>1, <1>4, StrippedIs
  <2>2. files'[f] \in Seq(Groups)
    BY <2>1, GroupsOfTyped
  <2>3. /\ Those(files'[f], LAMBDA g : ~\E s \in Scripts : RunsScript(g, s)) = Among(files'[f], foreign)
        /\ Those(files[f], LAMBDA g : ~\E s \in Scripts : RunsScript(g, s)) = Among(files[f], foreign)
    BY <1>1, <2>2, ThoseForeign
  <2> QED BY <1>4, <2>1, <2>3
<1> QED BY <1>2, <1>3, <1>4, SettledStep

\* A stutter is no step of a command on its file.
LEMMA StepsAreNext == ASSUME [Next]_vars, NEW f, Settled(f) PROVE Next
BY DEF vars, Settled

\* HandHooksKept: mergeHooksWith and removeGroupsWhere leave every group of the
\* person's as it was and in its order.
THEOREM HandHooksAlwaysKept == Spec => HandHooksKept
<1>1. HooksInv /\ [Next]_vars =>
        [\A f \in HookFiles : Settled(f) =>
            IF run.kind = "install"
            THEN Those(files'[f], HasOwn) = Those(files[f], HasOwn)
            ELSE Those(files'[f], LAMBDA g : ~\E s \in Scripts : RunsScript(g, s))
                   = Those(files[f], LAMBDA g : ~\E s \in Scripts : RunsScript(g, s))]_vars
  BY HandHooksStep, StepsAreNext
<1> QED BY <1>1, HooksInvHolds, PTL DEF Spec, HandHooksKept

\* WiredOnce: however a script was wired before, an install does not wire it twice.
THEOREM AlwaysWiredOnce == Spec => WiredOnce
<1>1. ASSUME HooksInv, [Next]_vars, NEW f \in HookFiles, Settled(f), run.kind = "install", NEW s \in Scripts
      PROVE  \/ Cardinality(Holding(files'[f], s)) <= 1
             \/ Cardinality(Holding(files'[f], s)) <= Cardinality(Holding(files[f], s))
  <2>0. Next
    BY <1>1, StepsAreNext
  <2>1. files[f] \in Seq(Groups)
    BY <1>1, FilesTyped DEF HooksInv, HookTypes
  <2>2. CASE files' = files
    BY <2>1, <2>2, CardNat
  <2>3. CASE /\ run.kind = "install" /\ run.step = "write" /\ run.file = f /\ run.seen = files[f]
             /\ files'[f] = Merged(f, files[f], run.profile, run.only, WantedGroups(f))
    <3>1. Did(f, files[f], Selected(f, run.profile, run.only), files'[f])
      BY <1>1, <2>3, WiringIs
    <3> QED BY <3>1 DEF Did, Once
  <2> QED BY <1>1, <2>0, <2>2, <2>3, SettledStep
<1>2. HooksInv /\ [Next]_vars =>
        [\A f \in HookFiles : Settled(f) /\ run.kind = "install" =>
            \A s \in Scripts :
               LET groups(arr) == Cardinality(Holding(arr, s))
               IN  groups(files'[f]) <= 1 \/ groups(files'[f]) <= groups(files[f])]_vars
  BY <1>1
<1> QED BY <1>2, HooksInvHolds, PTL DEF Spec, WiredOnce

\* PositionsKept: an install moves no hook of Codex's file, so no approval is lost.
THEOREM PositionsAlwaysKept == Spec => PositionsKept
<1>1. ASSUME HooksInv, [Next]_vars, Settled("codex"), run.kind = "install", NEW i \in DOMAIN files["codex"]
      PROVE  /\ i \in DOMAIN files'["codex"]
             /\ LET was == files["codex"][i]
                    is  == files'["codex"][i]
                IN  /\ Len(is.hooks) = Len(was.hooks)
                    /\ \A j \in DOMAIN was.hooks : is.hooks[j].script = was.hooks[j].script
                    /\ HasOwn(was) => is = was
  <2>0. Next /\ "codex" \in HookFiles
    BY <1>1, StepsAreNext DEF HookFiles
  <2>1. files["codex"] \in Seq(Groups)
    BY <1>1, <2>0, FilesTyped DEF HooksInv, HookTypes
  <2>2. CASE files' = files
    BY <1>1, <2>2
  <2>3. CASE /\ run.kind = "install" /\ run.step = "write" /\ run.file = "codex" /\ run.seen = files["codex"]
             /\ files'["codex"] = Merged("codex", files["codex"], run.profile, run.only, WantedGroups("codex"))
    <3>1. Grown(files["codex"], files'["codex"], Selected("codex", run.profile, run.only))
      BY <1>1, <2>3, WiringIs
    <3> DEFINE was == files["codex"]
               is == files'["codex"]
    <3>2. /\ is \in Seq(Groups) /\ Len(was) <= Len(is)
          /\ LikeScripts(was[i], is[i]) /\ (HasOwn(was[i]) => is[i] = was[i])
      BY <1>1, <3>1 DEF Grown
    <3>3. i \in DOMAIN is
      <4> HIDE DEF is
      <4> QED BY <1>1, <2>1, <3>2
    <3> QED BY <3>2, <3>3 DEF LikeScripts
  <2> QED BY <1>1, <2>0, <2>2, <2>3, SettledStep
<1>2. HooksInv /\ [Next]_vars =>
        [Settled("codex") /\ run.kind = "install" =>
           \A i \in DOMAIN files["codex"] :
              /\ i \in DOMAIN files'["codex"]
              /\ LET was == files["codex"][i]
                     is  == files'["codex"][i]
                 IN  /\ Len(is.hooks) = Len(was.hooks)
                     /\ \A j \in DOMAIN was.hooks : is.hooks[j].script = was.hooks[j].script
                     /\ HasOwn(was) => is = was]_vars
  BY <1>1
<1> QED BY <1>2, HooksInvHolds, PTL DEF Spec, PositionsKept
=============================================================================
