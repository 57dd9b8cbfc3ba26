------------------------------ MODULE AskProofs ------------------------------
(***************************************************************************)
(* What holds of every ask (Ask, ContextPack), for any vaults, questions,  *)
(* modes and number of asks, any window and any time a ledger is kept.     *)
(*                                                                         *)
(* The packer makes its lists entry by entry, so everything starts from    *)
(* what a fold over a sequence keeps to, by induction over sets (WFMin),   *)
(* and from what a filter is; then what the packer makes. Its candidates   *)
(* are the notes it may hold, each once, in order and by the strongest     *)
(* link (CandidatesRight), for a traversal reaches the notes within its    *)
(* depth, nearest first (Tours); it packs the first of them, counts them   *)
(* right and blames the budget for what the budget cost (Honest).          *)
(*                                                                         *)
(* Then the types of every step (Base), with what an ask is at each of     *)
(* them (Shape); and the inductive invariant IInv, of Base and Books: what *)
(* was recorded was delivered, the ledger holds it as long as it is kept,  *)
(* every book says of a note what the ask did with it. CInv adds that      *)
(* every pack counts what it carries.                                      *)
(***************************************************************************)
EXTENDS Ask, SequenceTheorems, FiniteSetTheorems, WellFoundedInduction, TLAPS

-----------------------------------------------------------------------------
(* Folds *)

LEMMA NatInduct ==
    ASSUME NEW T, 0 \in T, \A n \in Nat : n \in T => n + 1 \in T
    PROVE  \A n \in Nat : n \in T
  <1> DEFINE R == OpToRel(<, Nat)
             U == Nat \ T
  <1>1. IsWellFoundedOn(R, Nat)
    BY NatLessThanWellFounded
  <1>2. R = {p \in Nat \X Nat : p[1] < p[2]}
    BY DEF OpToRel
  <1> HIDE DEF R
  <1>3. SUFFICES ASSUME U # {} PROVE FALSE
    OBVIOUS
  <1>4. PICK x \in U : \A y \in U : ~ (<<y, x>> \in R)
    BY <1>1, <1>3, WFMin
  <1>5. x \in Nat /\ x # 0 /\ x - 1 \in Nat /\ x - 1 \notin T
    BY <1>4
  <1>6. <<x - 1, x>> \in R
    BY <1>2, <1>5
  <1> QED BY <1>4, <1>5, <1>6

\* A sequence over a set is one over any wider set.
LEMMA SeqWithin ==
    ASSUME NEW S, NEW T, S \in SUBSET T, NEW s \in Seq(S)
    PROVE  s \in Seq(T)
OBVIOUS

LEMMA MaxOfPrefix == ASSUME NEW n \in Nat, NEW s \in SUBSET (1..n), n \in s PROVE Max(s) = n
<1>1. \A x \in s : n >= x
  OBVIOUS
<1>2. \A x \in s : (\A y \in s : x >= y) => x = n
  OBVIOUS
<1> QED BY <1>1, <1>2 DEF Max

LEMMA MaxIn ==
    ASSUME NEW n \in Nat, NEW s \in SUBSET (0..n), s # {}
    PROVE  Max(s) \in s /\ \A y \in s : Max(s) >= y
<1> DEFINE T == {m \in Nat : \A q \in SUBSET (0..m) : q # {} => \E x \in q : \A y \in q : x >= y}
<1>1. 0 \in T
  <2>1. 0..0 = {0}
    OBVIOUS
  <2>2. \A q \in SUBSET {0} : q # {} => 0 \in q /\ \A y \in q : y = 0
    OBVIOUS
  <2> QED BY <2>1, <2>2
<1>2. ASSUME NEW m \in Nat, m \in T PROVE m + 1 \in T
  <2>1. ASSUME NEW q \in SUBSET (0..(m + 1)), q # {} PROVE \E x \in q : \A y \in q : x >= y
    <3>1. CASE m + 1 \in q
      BY <3>1
    <3>2. CASE m + 1 \notin q
      <4>1. q \in SUBSET (0..m)
        BY <3>2
      <4> QED BY <4>1, <2>1, <1>2
    <3> QED BY <3>1, <3>2
  <2> QED BY <2>1
<1>3. n \in T
  <2> HIDE DEF T
  <2> QED BY <1>1, <1>2, NatInduct
<1> QED BY <1>3 DEF Max

\* g folds F over every set of indices, from the least to the greatest.
Folds(g, n, S, base, F) ==
    /\ g \in [SUBSET (1..n) -> S]
    /\ \A s \in SUBSET (1..n) : g[s] = IF s = {} THEN base ELSE F[<<g[s \ {Max(s)}], Max(s)>>]

LEMMA FoldExists ==
    ASSUME NEW n \in Nat, NEW S, NEW base \in S, NEW F \in [S \X (1..n) -> S]
    PROVE  \E g : Folds(g, n, S, base, F)
<1> DEFINE Good(m, g) == /\ g \in [SUBSET (1..m) -> S]
                         /\ \A s \in SUBSET (1..m) :
                              g[s] = IF s = {} THEN base ELSE F[<<g[s \ {Max(s)}], Max(s)>>]
           T == {m \in Nat : m <= n => \E g : Good(m, g)}
<1>1. 0 \in T
  <2> DEFINE g == [s \in SUBSET (1..0) |-> base]
  <2>1. 1..0 = {}
    OBVIOUS
  <2>2. Good(0, g)
    BY <2>1
  <2> QED BY <2>2
<1>2. ASSUME NEW m \in Nat, m \in T PROVE m + 1 \in T
  <2>1. SUFFICES ASSUME m + 1 <= n PROVE \E h : Good(m + 1, h)
    <3> HIDE DEF Good
    <3> QED OBVIOUS
  <2>2. PICK g : Good(m, g)
    <3> HIDE DEF Good
    <3> QED BY <1>2, <2>1
  <2> DEFINE h == [s \in SUBSET (1..(m + 1)) |->
                     IF m + 1 \in s THEN F[<<g[s \ {m + 1}], m + 1>>] ELSE g[s]]
  <2>3. \A s \in SUBSET (1..(m + 1)) : m + 1 \notin s => s \in SUBSET (1..m)
    OBVIOUS
  <2>4. \A s \in SUBSET (1..(m + 1)) : s \ {m + 1} \in SUBSET (1..m)
    OBVIOUS
  <2>5. h \in [SUBSET (1..(m + 1)) -> S]
    <3>1. ASSUME NEW s \in SUBSET (1..(m + 1)) PROVE h[s] \in S
      <4>1. CASE m + 1 \in s
        <5>1. g[s \ {m + 1}] \in S
          BY <2>2, <2>4
        <5>2. m + 1 \in 1..n
          BY <2>1
        <5> QED BY <4>1, <5>1, <5>2
      <4>2. CASE m + 1 \notin s
        BY <4>2, <2>2, <2>3
      <4> QED BY <4>1, <4>2
    <3> QED BY <3>1
  <2>6. ASSUME NEW s \in SUBSET (1..(m + 1))
        PROVE  h[s] = IF s = {} THEN base ELSE F[<<h[s \ {Max(s)}], Max(s)>>]
    <3>1. CASE m + 1 \in s
      <4>1. Max(s) = m + 1
        BY <3>1, MaxOfPrefix
      <4>2. h[s \ {m + 1}] = g[s \ {m + 1}]
        BY <2>4
      <4> QED BY <3>1, <4>1, <4>2
    <3>2. CASE m + 1 \notin s /\ s # {}
      <4>1. s \in SUBSET (1..m)
        BY <3>2, <2>3
      <4>2. h[s \ {Max(s)}] = g[s \ {Max(s)}]
        <5>1. s \ {Max(s)} \in SUBSET (1..(m + 1)) /\ m + 1 \notin s \ {Max(s)}
          BY <3>2
        <5> QED BY <5>1
      <4>3. g[s] = F[<<g[s \ {Max(s)}], Max(s)>>]
        BY <2>2, <3>2, <4>1
      <4> QED BY <3>2, <4>2, <4>3
    <3>3. CASE s = {}
      BY <3>3, <2>2
    <3> QED BY <3>1, <3>2, <3>3
  <2> HIDE DEF h
  <2> QED BY <2>5, <2>6
<1>3. n \in T
  <2> HIDE DEF T
  <2> QED BY <1>1, <1>2, NatInduct
<1>4. PICK g : Good(n, g)
  <2> HIDE DEF Good
  <2> QED BY <1>3
<1> QED BY <1>4 DEF Folds

LEMMA PrefixStep ==
    ASSUME NEW n \in Nat, NEW k \in 1..n
    PROVE  Max(1..k) = k /\ (1..k) \ {k} = 1..(k - 1) /\ 1..k # {} /\ 1..k \in SUBSET (1..n)
<1>1. k \in Nat /\ 1..k \in SUBSET (1..k) /\ k \in 1..k
  OBVIOUS
<1>2. Max(1..k) = k
  BY <1>1, MaxOfPrefix
<1> QED BY <1>1, <1>2

\* What an accumulator that is one of S at first, and stays so, is.
LEMMA FoldStays ==
    ASSUME NEW n \in Nat, NEW S, NEW h, h[0] \in S, \A k \in 1..n : h[k - 1] \in S => h[k] \in S
    PROVE  \A k \in 0..n : h[k] \in S
<1> DEFINE T == {k \in Nat : k <= n => h[k] \in S}
<1>1. 0 \in T
  OBVIOUS
<1>2. ASSUME NEW k \in Nat, k \in T PROVE k + 1 \in T
  <2>1. SUFFICES ASSUME k + 1 <= n PROVE h[k + 1] \in S
    OBVIOUS
  <2>2. k + 1 \in 1..n /\ (k + 1) - 1 = k /\ h[k] \in S
    BY <1>2, <2>1
  <2> QED BY <2>2
<1>3. \A k \in Nat : k \in T
  <2> HIDE DEF T
  <2> QED BY <1>1, <1>2, NatInduct
<1> QED BY <1>3

LEMMA MaxAmong ==
    ASSUME NEW n \in Nat, NEW q \in SUBSET (1..n), q # {}
    PROVE  Max(q) \in 1..n /\ q \ {Max(q)} \in SUBSET (1..n)
<1>1. q \in SUBSET (0..n)
  OBVIOUS
<1>2. Max(q) \in q
  BY <1>1, MaxIn
<1> QED BY <1>2

\* end is what F makes of base, index after index.
RunsTo(end, n, S, base, F) ==
    \E h \in [0..n -> S] : h[0] = base /\ (\A k \in 1..n : h[k] = F[<<h[k - 1], k>>]) /\ h[n] = end

\* it folds an operator that is F on S.
Unfolds(it, n, S, base, F) ==
    /\ it[{}] = base
    /\ \A q \in SUBSET (1..n) :
          q # {} /\ it[q \ {Max(q)}] \in S => it[q] = F[<<it[q \ {Max(q)}], Max(q)>>]

LEMMA FoldIs ==
    ASSUME NEW n \in Nat, NEW S, NEW base \in S, NEW F \in [S \X (1..n) -> S], NEW it,
           Unfolds(it, n, S, base, F)
    PROVE  RunsTo(it[1..n], n, S, base, F)
<1> DEFINE h == [k \in 0..n |-> it[1..k]]
<1>1. h[0] = base
  <2>1. 1..0 = {}
    OBVIOUS
  <2> QED BY <2>1 DEF Unfolds
<1>2. ASSUME NEW k \in 1..n, h[k - 1] \in S PROVE h[k] = F[<<h[k - 1], k>>]
  <2>1. Max(1..k) = k /\ (1..k) \ {k} = 1..(k - 1) /\ 1..k # {} /\ 1..k \in SUBSET (1..n)
    BY PrefixStep
  <2>2. h[k] = it[1..k] /\ h[k - 1] = it[1..(k - 1)]
    OBVIOUS
  <2>3. it[1..k] = F[<<it[(1..k) \ {Max(1..k)}], Max(1..k)>>]
    BY <2>1, <2>2, <1>2 DEF Unfolds
  <2> QED BY <2>1, <2>2, <2>3
<1>3. h[n] = it[1..n]
  OBVIOUS
<1>4. h = [k \in 0..n |-> h[k]]
  OBVIOUS
<1> HIDE DEF h
<1>5. \A k \in 0..n : h[k] \in S
  <2>1. ASSUME NEW k \in 1..n, h[k - 1] \in S PROVE h[k] \in S
    <3>1. <<h[k - 1], k>> \in S \X (1..n)
      BY <2>1
    <3> QED BY <3>1, <1>2, <2>1
  <2>2. h[0] \in S
    BY <1>1
  <2> QED BY <2>1, <2>2, FoldStays
<1>6. \A k \in 1..n : h[k] = F[<<h[k - 1], k>>]
  <2>1. \A k \in 1..n : k - 1 \in 0..n
    OBVIOUS
  <2> QED BY <2>1, <1>2, <1>5
<1>7. h \in [0..n -> S]
  BY <1>4, <1>5
<1> QED BY <1>1, <1>3, <1>6, <1>7 DEF RunsTo

\* Among, entry after entry of s.
AmongRuns(s, good, T) ==
    \E h \in [0..Len(s) -> Seq(T)] :
       /\ h[0] = <<>>
       /\ \A k \in 1..Len(s) : h[k] = IF s[k] \in good THEN Append(h[k - 1], s[k]) ELSE h[k - 1]
       /\ Among(s, good) = h[Len(s)]

LEMMA AmongFold ==
    ASSUME NEW T, NEW s \in Seq(T), NEW good
    PROVE  AmongRuns(s, good, T)
<1> DEFINE n == Len(s)
           S == Seq(T)
           base == <<>>
           Op(got, k) == IF s[k] \in good THEN Append(got, s[k]) ELSE got
           F == [q \in S \X (1..n) |-> Op(q[1], q[2])]
           B(g) == [q \in SUBSET DOMAIN s |-> IF q = {} THEN base ELSE Op(g[q \ {Max(q)}], Max(q))]
           it == CHOOSE g : g = B(g)
<1>1. Among(s, good) = it[DOMAIN s]
  BY DEF Among, FoldLeft, MapThenFoldSet
<1>2. n \in Nat /\ DOMAIN s = 1..n /\ base \in S
  OBVIOUS
<1>3. \A got \in S, k \in 1..n : Op(got, k) \in S
  <2>1. \A k \in 1..n : s[k] \in T
    OBVIOUS
  <2> QED BY <2>1
<1> HIDE DEF n, S, base, Op
<1>4. F \in [S \X (1..n) -> S]
  BY <1>3
<1> HIDE DEF F
<1>5. it = B(it)
  <2>1. PICK g : Folds(g, n, S, base, F)
    BY <1>2, <1>4, FoldExists
  <2>2. \A q \in SUBSET (1..n) : q # {} => Max(q) \in 1..n /\ q \ {Max(q)} \in SUBSET (1..n)
    BY <1>2, MaxAmong
  <2>3. g = B(g)
    BY <1>2, <2>1, <2>2 DEF Folds, F
  <2> HIDE DEF B
  <2> QED BY <2>3
<1>6. Unfolds(it, n, S, base, F)
  <2>1. \A q \in SUBSET (1..n) : it[q] = B(it)[q]
    BY <1>5
  <2> HIDE DEF it
  <2>2. \A q \in SUBSET (1..n) : q # {} => Max(q) \in 1..n
    BY <1>2, MaxAmong
  <2> QED BY <1>2, <2>1, <2>2 DEF F, Unfolds
<1> HIDE DEF it
<1>7. RunsTo(it[1..n], n, S, base, F)
  BY <1>2, <1>4, <1>6, FoldIs
<1>8. PICK h \in [0..n -> S] : h[0] = base /\ (\A k \in 1..n : h[k] = F[<<h[k - 1], k>>]) /\ h[n] = it[1..n]
  BY <1>7 DEF RunsTo
<1>9. \A k \in 1..n : h[k] = Op(h[k - 1], k)
  <2>1. \A k \in 1..n : k - 1 \in 0..n
    BY <1>2
  <2> QED BY <1>8, <2>1 DEF F
<1> QED BY <1>1, <1>2, <1>8, <1>9 DEF n, S, base, Op, AmongRuns

LEMMA AmongTyped ==
    ASSUME NEW T, NEW s \in Seq(T), NEW good
    PROVE  Among(s, good) \in Seq(T \cap good)
<1>0. AmongRuns(s, good, T)
  BY AmongFold
<1>1. PICK h \in [0..Len(s) -> Seq(T)] :
         /\ h[0] = <<>>
         /\ \A k \in 1..Len(s) : h[k] = IF s[k] \in good THEN Append(h[k - 1], s[k]) ELSE h[k - 1]
         /\ Among(s, good) = h[Len(s)]
  BY <1>0 DEF AmongRuns
<1> DEFINE S == Seq(T \cap good)
<1>2. h[0] \in S
  BY <1>1
<1>3. ASSUME NEW k \in 1..Len(s), h[k - 1] \in S PROVE h[k] \in S
  <2>1. s[k] \in T
    OBVIOUS
  <2>2. CASE s[k] \in good
    <3>1. s[k] \in T \cap good /\ h[k] = Append(h[k - 1], s[k])
      BY <2>1, <2>2, <1>1
    <3> HIDE DEF S
    <3>2. Append(h[k - 1], s[k]) \in S
      BY <3>1, <1>3 DEF S
    <3> QED BY <3>1, <3>2
  <2>3. CASE s[k] \notin good
    BY <2>3, <1>1, <1>3
  <2> QED BY <2>2, <2>3
<1>4. Len(s) \in Nat
  OBVIOUS
<1> HIDE DEF S
<1>5. \A k \in 0..Len(s) : h[k] \in S
  BY <1>2, <1>3, <1>4, FoldStays
<1> QED BY <1>1, <1>4, <1>5 DEF S

\* No two entries have the same id.
Apart(s) == \A i, j \in DOMAIN s : s[i].id = s[j].id => i = j

LEMMA AppendApart ==
    ASSUME NEW T, NEW s \in Seq(T), NEW e \in T, Apart(s), \A i \in DOMAIN s : s[i].id # e.id
    PROVE  Apart(Append(s, e))
<1>1. /\ DOMAIN s = 1..Len(s) /\ Len(s) \in Nat
      /\ DOMAIN Append(s, e) = 1..(Len(s) + 1)
      /\ \A i \in 1..Len(s) : Append(s, e)[i] = s[i]
      /\ Append(s, e)[Len(s) + 1] = e
  OBVIOUS
<1>2. \A i \in 1..(Len(s) + 1) : i \in 1..Len(s) \/ i = Len(s) + 1
  BY <1>1
<1> QED BY <1>1, <1>2 DEF Apart

\* h is how Among comes about, entry after entry of s.
Filters(h, s, good) ==
    /\ h[0] = <<>>
    /\ \A k \in 1..Len(s) : h[k] = IF s[k] \in good THEN Append(h[k - 1], s[k]) ELSE h[k - 1]

\* How a filter comes about.
LEMMA AmongHow ==
    ASSUME NEW T, NEW s \in Seq(T), NEW good
    PROVE  \E h \in [0..Len(s) -> Seq(T)] : Filters(h, s, good) /\ Among(s, good) = h[Len(s)]
<1>1. AmongRuns(s, good, T)
  BY AmongFold
<1> QED BY <1>1 DEF AmongRuns, Filters

\* A filter depends on the entries it keeps, and on nothing else.
LEMMA AmongSame ==
    ASSUME NEW T, NEW s \in Seq(T), NEW t \in Seq(T), NEW G, NEW H, Len(s) <= Len(t),
           \A i \in DOMAIN s : (s[i] \in G <=> t[i] \in H) /\ (s[i] \in G => s[i] = t[i]),
           \A i \in (Len(s) + 1)..Len(t) : t[i] \notin H
    PROVE  Among(s, G) = Among(t, H)
<1> DEFINE n == Len(s)
           m == Len(t)
<1>1. n \in Nat /\ m \in Nat /\ n <= m /\ DOMAIN s = 1..n
  OBVIOUS
<1>2. PICK g \in [0..n -> Seq(T)] : Filters(g, s, G) /\ Among(s, G) = g[n]
  BY AmongHow
<1>3. PICK h \in [0..m -> Seq(T)] : Filters(h, t, H) /\ Among(t, H) = h[m]
  BY AmongHow
<1> DEFINE at(k) == IF k <= n THEN g[k] ELSE g[n]
           R == {k \in Nat : k <= m => h[k] = at(k)}
<1>4. 0 \in R
  BY <1>1, <1>2, <1>3 DEF Filters
<1>5. ASSUME NEW k \in Nat, k \in R PROVE k + 1 \in R
  <2> SUFFICES ASSUME k + 1 <= m PROVE h[k + 1] = at(k + 1)
    OBVIOUS
  <2>1. k + 1 \in 1..m /\ (k + 1) - 1 = k /\ h[k] = at(k)
    BY <1>1, <1>5
  <2>2. h[k + 1] = IF t[k + 1] \in H THEN Append(h[k], t[k + 1]) ELSE h[k]
    BY <1>3, <2>1 DEF Filters
  <2>3. CASE k + 1 <= n
    <3>1. k + 1 \in 1..n /\ k + 1 \in DOMAIN s
      BY <2>3, <1>1
    <3>2. g[k + 1] = IF s[k + 1] \in G THEN Append(g[k], s[k + 1]) ELSE g[k]
      BY <1>2, <3>1, <2>1 DEF Filters
    <3>3. at(k) = g[k] /\ at(k + 1) = g[k + 1]
      BY <2>3, <1>1
    <3> QED BY <2>1, <2>2, <3>1, <3>2, <3>3
  <2>4. CASE n < k + 1
    <3>1. k + 1 \in (n + 1)..m
      BY <2>4, <1>1
    <3>2. t[k + 1] \notin H
      BY <3>1
    <3>3. at(k) = g[n] /\ at(k + 1) = g[n]
      BY <2>4, <1>1
    <3> QED BY <2>1, <2>2, <3>2, <3>3
  <2> QED BY <2>3, <2>4, <1>1
<1>6. m \in R
  <2> HIDE DEF R
  <2> QED BY <1>1, <1>4, <1>5, NatInduct
<1>7. at(m) = g[n]
  BY <1>1
<1> QED BY <1>1, <1>2, <1>3, <1>6, <1>7

\* An entry appended to two sequences in a row is appended to the second.
AppendsAfter(x, y, e) == Append(x \o y, e) = x \o Append(y, e)

\* It is so of any two sequences.
LEMMA AppendAfter ==
    ASSUME NEW T, NEW x \in Seq(T), NEW y \in Seq(T), NEW e \in T
    PROVE  AppendsAfter(x, y, e)
<1> DEFINE z == <<e>>
<1>1. z \in Seq(T) /\ x \o y \in Seq(T)
  OBVIOUS
<1>2. Append(x \o y, e) = (x \o y) \o z /\ Append(y, e) = y \o z
  BY <1>1, AppendIsConcat
<1> HIDE DEF z
<1>3. (x \o y) \o z = x \o (y \o z)
  BY <1>1, ConcatAssociative
<1> QED BY <1>2, <1>3 DEF AppendsAfter

\* A filter of two sequences in a row is the filters in a row.
LEMMA AmongConcat ==
    ASSUME NEW T, NEW s \in Seq(T), NEW t \in Seq(T), NEW G
    PROVE  Among(s \o t, G) = Among(s, G) \o Among(t, G)
<1> DEFINE n == Len(s)
           m == Len(t)
           u == s \o t
<1>1. n \in Nat /\ m \in Nat /\ u \in Seq(T) /\ Len(u) = n + m
  OBVIOUS
<1>2. /\ \A i \in 1..n : u[i] = s[i]
      /\ \A i \in 1..m : u[n + i] = t[i]
  OBVIOUS
<1>3. PICK f \in [0..(n + m) -> Seq(T)] : Filters(f, u, G) /\ Among(u, G) = f[n + m]
  BY AmongHow, <1>1
<1>4. PICK g \in [0..n -> Seq(T)] : Filters(g, s, G) /\ Among(s, G) = g[n]
  BY AmongHow
<1>5. PICK h \in [0..m -> Seq(T)] : Filters(h, t, G) /\ Among(t, G) = h[m]
  BY AmongHow
<1> HIDE DEF n, m, u
<1>6. f[n] = g[n]
  <2> DEFINE R == {k \in Nat : k <= n => f[k] = g[k]}
  <2>1. 0 \in R
    BY <1>3, <1>4 DEF Filters
  <2>2. ASSUME NEW k \in Nat, k \in R PROVE k + 1 \in R
    <3> SUFFICES ASSUME k + 1 <= n PROVE f[k + 1] = g[k + 1]
      OBVIOUS
    <3>1. k + 1 \in 1..n /\ k + 1 \in 1..(n + m) /\ (k + 1) - 1 = k /\ f[k] = g[k]
      BY <1>1, <2>2
    <3>2. f[k + 1] = IF u[k + 1] \in G THEN Append(f[k], u[k + 1]) ELSE f[k]
      BY <1>1, <1>3, <3>1 DEF Filters
    <3>3. g[k + 1] = IF s[k + 1] \in G THEN Append(g[k], s[k + 1]) ELSE g[k]
      BY <1>4, <3>1 DEF Filters, n
    <3> QED BY <1>2, <3>1, <3>2, <3>3
  <2>3. n \in R
    <3> HIDE DEF R
    <3> QED BY <1>1, <2>1, <2>2, NatInduct
  <2> QED BY <1>1, <2>3
<1>7. f[n + m] = g[n] \o h[m]
  <2> DEFINE both(k) == g[n] \o h[k]
             R == {k \in Nat : k <= m => f[n + k] = both(k)}
  <2>0. g[n] \in Seq(T)
    BY <1>1, <1>4
  <2>1. 0 \in R
    <3>1. h[0] = <<>> /\ n + 0 = n
      BY <1>1, <1>5 DEF Filters
    <3>2. g[n] \o <<>> = g[n]
      BY <2>0
    <3> QED BY <1>6, <3>1, <3>2
  <2>2. ASSUME NEW k \in Nat, k \in R PROVE k + 1 \in R
    <3> HIDE DEF both
    <3> SUFFICES ASSUME k + 1 <= m PROVE f[n + (k + 1)] = both(k + 1)
      OBVIOUS
    <3>1. /\ k + 1 \in 1..m /\ n + (k + 1) \in 1..(n + m) /\ (k + 1) - 1 = k /\ (n + (k + 1)) - 1 = n + k
          /\ k \in 0..m
      BY <1>1
    <3>2. f[n + k] = both(k)
      BY <1>1, <2>2
    <3>3. f[n + (k + 1)] = IF u[n + (k + 1)] \in G THEN Append(f[n + k], u[n + (k + 1)]) ELSE f[n + k]
      BY <1>1, <1>3, <3>1 DEF Filters
    <3>4. h[k + 1] = IF t[k + 1] \in G THEN Append(h[k], t[k + 1]) ELSE h[k]
      BY <1>5, <3>1 DEF Filters, m
    <3>5. h[k] \in Seq(T) /\ t[k + 1] \in T
      <4>1. t[k + 1] \in T
        BY <3>1 DEF m
      <4> QED BY <4>1, <3>1, <1>5
    <3>6. Append(both(k), t[k + 1]) = g[n] \o Append(h[k], t[k + 1])
      <4> DEFINE x == g[n]
                 y == h[k]
                 e == t[k + 1]
      <4>1. x \in Seq(T) /\ y \in Seq(T) /\ e \in T
        BY <2>0, <3>5
      <4>3. both(k) = x \o y
        BY DEF both
      <4> HIDE DEF x, y, e
      <4>2. Append(x \o y, e) = x \o Append(y, e)
        <5>1. AppendsAfter(x, y, e)
          BY <4>1, AppendAfter
        <5> QED BY <5>1 DEF AppendsAfter
      <4> QED BY <4>2, <4>3 DEF x, y, e
    <3>7. CASE t[k + 1] \in G
      <4>1. u[n + (k + 1)] = t[k + 1] /\ f[n + k] = both(k)
        BY <1>2, <3>1, <3>2
      <4>2. h[k + 1] = Append(h[k], t[k + 1]) /\ f[n + (k + 1)] = Append(both(k), t[k + 1])
        BY <3>3, <3>4, <3>7, <4>1
      <4> QED BY <4>2, <3>6 DEF both
    <3>8. CASE t[k + 1] \notin G
      <4>1. h[k + 1] = h[k] /\ f[n + (k + 1)] = both(k)
        BY <1>2, <3>1, <3>2, <3>3, <3>4, <3>8
      <4> QED BY <4>1 DEF both
    <3> QED BY <3>7, <3>8
  <2>3. m \in R
    <3> HIDE DEF R
    <3> QED BY <1>1, <2>1, <2>2, NatInduct
  <2> QED BY <1>1, <2>3
<1> QED BY <1>3, <1>4, <1>5, <1>7 DEF u

\* A filter of nothing keeps nothing.
LEMMA AmongEmpty == ASSUME NEW G PROVE Among(<<>>, G) = <<>>
<1> DEFINE e == <<>>
<1>1. e \in Seq({}) /\ Len(e) = 0
  OBVIOUS
<1> HIDE DEF e
<1>2. PICK h \in [0..Len(e) -> Seq({})] : Filters(h, e, G) /\ Among(e, G) = h[Len(e)]
  BY <1>1, AmongHow
<1> QED BY <1>1, <1>2 DEF Filters, e

\* A filter none of whose entries pass keeps nothing.
LEMMA AmongNone ==
    ASSUME NEW T, NEW s \in Seq(T), NEW G, \A i \in DOMAIN s : s[i] \notin G
    PROVE  Among(s, G) = <<>>
<1> DEFINE e == <<>>
<1>1. e \in Seq(T) /\ Len(e) <= Len(s)
  OBVIOUS
<1>2. \A i \in DOMAIN e : (e[i] \in G <=> s[i] \in G) /\ (e[i] \in G => e[i] = s[i])
  OBVIOUS
<1>4. \A i \in (Len(e) + 1)..Len(s) : s[i] \notin G
  OBVIOUS
<1> HIDE DEF e
<1>3. Among(e, G) = Among(s, G)
  BY <1>1, <1>2, <1>4, AmongSame
<1> QED BY <1>3, AmongEmpty DEF e

\* A filter that lets every entry pass keeps the sequence.
LEMMA AmongAll ==
    ASSUME NEW T, NEW s \in Seq(T), NEW G, \A i \in DOMAIN s : s[i] \in G
    PROVE  Among(s, G) = s
<1> DEFINE n == Len(s)
<1>1. n \in Nat /\ DOMAIN s = 1..n
  OBVIOUS
<1>2. PICK h \in [0..n -> Seq(T)] : Filters(h, s, G) /\ Among(s, G) = h[n]
  BY AmongHow
<1> DEFINE R == {k \in Nat : k <= n => Len(h[k]) = k /\ \A i \in 1..k : h[k][i] = s[i]}
<1>3. 0 \in R
  BY <1>2 DEF Filters
<1>4. ASSUME NEW k \in Nat, k \in R PROVE k + 1 \in R
  <2> SUFFICES ASSUME k + 1 <= n
               PROVE  Len(h[k + 1]) = k + 1 /\ \A i \in 1..(k + 1) : h[k + 1][i] = s[i]
    OBVIOUS
  <2>1. k + 1 \in 1..n /\ (k + 1) - 1 = k /\ k \in 0..n
    BY <1>1
  <2>2. h[k + 1] = Append(h[k], s[k + 1])
    BY <1>1, <1>2, <2>1 DEF Filters
  <2>3. h[k] \in Seq(T) /\ Len(h[k]) = k /\ \A i \in 1..k : h[k][i] = s[i]
    BY <1>2, <2>1, <1>4
  <2> DEFINE g == h[k]
             e == s[k + 1]
  <2>4. Len(Append(g, e)) = k + 1 /\ Append(g, e)[k + 1] = e /\ \A i \in 1..k : Append(g, e)[i] = g[i]
    BY <2>3
  <2>5. \A i \in 1..(k + 1) : i \in 1..k \/ i = k + 1
    OBVIOUS
  <2> QED BY <2>2, <2>3, <2>4, <2>5
<1>5. n \in R
  <2> HIDE DEF R
  <2> QED BY <1>1, <1>3, <1>4, NatInduct
<1>6. h[n] \in Seq(T) /\ Len(h[n]) = n /\ \A i \in 1..n : h[n][i] = s[i]
  BY <1>1, <1>2, <1>5
<1>7. h[n] = s
  BY <1>6, <1>1
<1> QED BY <1>2, <1>7

\* A filter of a sequence with one more entry.
LEMMA AmongAppend ==
    ASSUME NEW T, NEW s \in Seq(T), NEW e \in T, NEW G
    PROVE  Among(Append(s, e), G) = IF e \in G THEN Append(Among(s, G), e) ELSE Among(s, G)
<1> DEFINE t == <<e>>
           r == Among(s, G)
<1>1. t \in Seq(T) /\ Append(s, e) = s \o t
  OBVIOUS
<1>2. \A i \in DOMAIN t : t[i] = e
  OBVIOUS
<1>3. r \in Seq(T)
  <2>1. r \in Seq(T \cap G)
    BY AmongTyped
  <2> HIDE DEF r
  <2> QED BY <2>1
<1>4. r \o t = Append(r, e) /\ r \o <<>> = r
  <2> HIDE DEF r
  <2> QED BY <1>3
<1> HIDE DEF t
<1>5. Among(s \o t, G) = r \o Among(t, G)
  BY <1>1, AmongConcat
<1> HIDE DEF r
<1>6. CASE e \in G
  <2>1. Among(t, G) = t
    BY <1>1, <1>2, <1>6, AmongAll
  <2> QED BY <1>1, <1>4, <1>5, <1>6, <2>1 DEF r
<1>7. CASE e \notin G
  <2>1. Among(t, G) = <<>>
    BY <1>1, <1>2, <1>7, AmongNone
  <2> QED BY <1>1, <1>4, <1>5, <1>7, <2>1 DEF r
<1> QED BY <1>6, <1>7

\* A filter takes the place of a wider one before it.
LEMMA AmongAmong ==
    ASSUME NEW T, NEW s \in Seq(T), NEW G, NEW H, \A i \in DOMAIN s : s[i] \in H => s[i] \in G
    PROVE  Among(Among(s, G), H) = Among(s, H)
<1> DEFINE n == Len(s)
<1>1. n \in Nat /\ DOMAIN s = 1..n
  OBVIOUS
<1>2. PICK g \in [0..n -> Seq(T)] : Filters(g, s, G) /\ Among(s, G) = g[n]
  BY AmongHow
<1>3. PICK h \in [0..n -> Seq(T)] : Filters(h, s, H) /\ Among(s, H) = h[n]
  BY AmongHow
<1> DEFINE R == {k \in Nat : k <= n => Among(g[k], H) = h[k]}
<1>4. 0 \in R
  <2>1. g[0] = <<>> /\ h[0] = <<>>
    BY <1>2, <1>3 DEF Filters
  <2> QED BY <2>1, AmongEmpty
<1>5. ASSUME NEW k \in Nat, k \in R PROVE k + 1 \in R
  <2> SUFFICES ASSUME k + 1 <= n PROVE Among(g[k + 1], H) = h[k + 1]
    OBVIOUS
  <2> DEFINE e == s[k + 1]
             x == g[k]
  <2>1. k + 1 \in 1..n /\ (k + 1) - 1 = k /\ k \in 0..n /\ k + 1 \in DOMAIN s /\ Among(x, H) = h[k]
    BY <1>1, <1>5
  <2>2. g[k + 1] = IF e \in G THEN Append(x, e) ELSE x
    BY <1>2, <2>1 DEF Filters
  <2>3. h[k + 1] = IF e \in H THEN Append(h[k], e) ELSE h[k]
    BY <1>3, <2>1 DEF Filters
  <2>4. e \in T /\ x \in Seq(T) /\ (e \in H => e \in G)
    BY <1>2, <2>1
  <2> HIDE DEF e, x
  <2>5. CASE e \in G
    <3>1. Among(Append(x, e), H) = IF e \in H THEN Append(Among(x, H), e) ELSE Among(x, H)
      BY <2>4, AmongAppend
    <3> QED BY <3>1, <2>1, <2>2, <2>3, <2>5
  <2>6. CASE e \notin G
    BY <2>1, <2>2, <2>3, <2>4, <2>6
  <2> QED BY <2>5, <2>6
<1>6. n \in R
  <2> HIDE DEF R
  <2> QED BY <1>1, <1>4, <1>5, NatInduct
<1> QED BY <1>1, <1>2, <1>3, <1>6

\* m says where in s each entry of r, the entries of s in G, was.
Picks(m, r, s, G) ==
    /\ m \in [1..Len(r) -> 1..Len(s)]
    /\ \A i \in 1..Len(r) : r[i] = s[m[i]] /\ s[m[i]] \in G
    /\ \A i, j \in 1..Len(r) : m[i] = m[j] => i = j
    /\ \A i, j \in 1..Len(r) : i < j => m[i] < m[j]
    /\ \A k \in 1..Len(s) : s[k] \in G => \E i \in 1..Len(r) : m[i] = k

\* The entries a filter keeps stand in the sequence, each at a place of its own, in their order.
LEMMA AmongPicks ==
    ASSUME NEW T, NEW s \in Seq(T), NEW G
    PROVE  \E m : Picks(m, Among(s, G), s, G)
<1> DEFINE n == Len(s)
<1>1. n \in Nat
  OBVIOUS
<1>2. PICK h \in [0..n -> Seq(T)] : Filters(h, s, G) /\ Among(s, G) = h[n]
  BY AmongHow
<1> DEFINE P(k, m) == /\ m \in [1..Len(h[k]) -> 1..k]
                      /\ \A i \in 1..Len(h[k]) : h[k][i] = s[m[i]] /\ s[m[i]] \in G
                      /\ \A i, j \in 1..Len(h[k]) : m[i] = m[j] => i = j
                      /\ \A i, j \in 1..Len(h[k]) : i < j => m[i] < m[j]
                      /\ \A l \in 1..k : s[l] \in G => \E i \in 1..Len(h[k]) : m[i] = l
           R == {k \in Nat : k <= n => \E m : P(k, m)}
<1>3. 0 \in R
  <2> DEFINE m == [i \in 1..0 |-> 0]
  <2>1. h[0] = <<>> /\ 1..0 = {} /\ Len(h[0]) = 0
    BY <1>2 DEF Filters
  <2>2. P(0, m)
    BY <2>1
  <2> QED BY <2>2
<1>4. ASSUME NEW k \in Nat, k \in R PROVE k + 1 \in R
  <2> SUFFICES ASSUME k + 1 <= n PROVE \E m : P(k + 1, m)
    <3> HIDE DEF P
    <3> QED OBVIOUS
  <2>1. k + 1 \in 1..n /\ (k + 1) - 1 = k /\ k \in 0..n
    BY <1>1
  <2>2. PICK m : P(k, m)
    <3> HIDE DEF P
    <3> QED BY <1>1, <1>4
  <2> DEFINE g == h[k]
             e == s[k + 1]
  <2>3. h[k + 1] = IF e \in G THEN Append(g, e) ELSE g
    BY <1>2, <2>1 DEF Filters
  <2>4. g \in Seq(T) /\ Len(g) \in Nat /\ e \in T
    BY <1>2, <2>1
  <2>5. CASE e \notin G
    <3>1. h[k + 1] = g
      BY <2>3, <2>5
    <3>2. m \in [1..Len(g) -> 1..(k + 1)]
      BY <2>2
    <3>3. \A l \in 1..(k + 1) : s[l] \in G => l \in 1..k
      BY <2>5
    <3>4. P(k + 1, m)
      BY <3>1, <3>2, <3>3, <2>2
    <3> HIDE DEF P
    <3> QED BY <3>4
  <2>6. CASE e \in G
    <3> DEFINE q == [i \in 1..(Len(g) + 1) |-> IF i = Len(g) + 1 THEN k + 1 ELSE m[i]]
               a == Append(g, e)
    <3>1. h[k + 1] = a
      BY <2>3, <2>6
    <3>2. Len(a) = Len(g) + 1 /\ a[Len(g) + 1] = e /\ \A i \in 1..Len(g) : a[i] = g[i]
      BY <2>4
    <3>3. /\ \A i \in 1..(Len(g) + 1) : i \in 1..Len(g) \/ i = Len(g) + 1
          /\ \A i \in 1..Len(g) : i # Len(g) + 1 /\ i \in 1..(Len(g) + 1)
          /\ Len(g) + 1 \in 1..(Len(g) + 1)
      BY <2>4
    <3>4. \A i \in 1..Len(g) : q[i] = m[i] /\ m[i] \in 1..k
      BY <2>2, <3>3
    <3>5. q[Len(g) + 1] = k + 1
      BY <3>3
    <3>6. DOMAIN q = 1..(Len(g) + 1) /\ q = [i \in 1..(Len(g) + 1) |-> q[i]]
      OBVIOUS
    <3> HIDE DEF q, a
    <3>7. q \in [1..Len(a) -> 1..(k + 1)]
      <4>1. \A i \in 1..(Len(g) + 1) : q[i] \in 1..(k + 1)
        BY <3>3, <3>4, <3>5
      <4> QED BY <4>1, <3>2, <3>6
    <3>8. \A i \in 1..Len(a) : a[i] = s[q[i]] /\ s[q[i]] \in G
      BY <2>2, <2>6, <3>2, <3>3, <3>4, <3>5
    <3>9. \A i, j \in 1..Len(a) : q[i] = q[j] => i = j
      <4>1. ASSUME NEW i \in 1..Len(a), NEW j \in 1..Len(a), q[i] = q[j] PROVE i = j
        <5>1. CASE i \in 1..Len(g) /\ j \in 1..Len(g)
          BY <5>1, <4>1, <2>2, <3>4
        <5>2. CASE i \in 1..Len(g) /\ j = Len(g) + 1
          <6>1. m[i] = k + 1 /\ m[i] \in 1..k
            BY <5>2, <4>1, <3>4, <3>5
          <6> QED BY <6>1
        <5>3. CASE i = Len(g) + 1 /\ j \in 1..Len(g)
          <6>1. m[j] = k + 1 /\ m[j] \in 1..k
            BY <5>3, <4>1, <3>4, <3>5
          <6> QED BY <6>1
        <5> QED BY <5>1, <5>2, <5>3, <3>2, <3>3
      <4> QED BY <4>1
    <3>10. \A l \in 1..(k + 1) : s[l] \in G => \E i \in 1..Len(a) : q[i] = l
      <4>1. ASSUME NEW l \in 1..(k + 1), s[l] \in G PROVE \E i \in 1..Len(a) : q[i] = l
        <5>1. CASE l = k + 1
          BY <5>1, <3>2, <3>3, <3>5
        <5>2. CASE l \in 1..k
          <6>1. PICK i \in 1..Len(g) : m[i] = l
            BY <5>2, <4>1, <2>2
          <6> QED BY <6>1, <3>2, <3>3, <3>4
        <5> QED BY <5>1, <5>2
      <4> QED BY <4>1
    <3>11. ASSUME NEW i \in 1..Len(a), NEW j \in 1..Len(a), i < j PROVE q[i] < q[j]
      <4>1. i \in 1..Len(g) /\ m[i] \in 1..k /\ q[i] = m[i]
        BY <3>2, <3>3, <3>4, <3>11, <2>4
      <4>2. CASE j \in 1..Len(g)
        BY <4>1, <4>2, <3>4, <3>11, <2>2
      <4>3. CASE j = Len(g) + 1
        BY <4>1, <4>3, <3>5
      <4> QED BY <4>2, <4>3, <3>2, <3>3
    <3>12. P(k + 1, q)
      BY <3>1, <3>7, <3>8, <3>9, <3>10, <3>11
    <3> HIDE DEF P
    <3> QED BY <3>12
  <2> QED BY <2>5, <2>6
<1>5. n \in R
  <2> HIDE DEF R
  <2> QED BY <1>1, <1>3, <1>4, NatInduct
<1>6. PICK m : P(n, m)
  <2> HIDE DEF P
  <2> QED BY <1>1, <1>5
<1>7. Picks(m, Among(s, G), s, G)
  BY <1>2, <1>6 DEF Picks
<1> QED BY <1>7

LEMMA AmongFrom ==
    ASSUME NEW T, NEW s \in Seq(T), NEW good
    PROVE  /\ \A i \in DOMAIN Among(s, good) : \E m \in DOMAIN s : Among(s, good)[i] = s[m]
           /\ Apart(s) => Apart(Among(s, good))
<1>0. AmongRuns(s, good, T)
  BY AmongFold
<1>1. PICK h \in [0..Len(s) -> Seq(T)] :
         /\ h[0] = <<>>
         /\ \A k \in 1..Len(s) : h[k] = IF s[k] \in good THEN Append(h[k - 1], s[k]) ELSE h[k - 1]
         /\ Among(s, good) = h[Len(s)]
  BY <1>0 DEF AmongRuns
<1>2. Len(s) \in Nat /\ DOMAIN s = 1..Len(s)
  OBVIOUS
<1> DEFINE From(k) == /\ \A i \in DOMAIN h[k] : \E m \in 1..k : h[k][i] = s[m]
                      /\ Apart(s) => Apart(h[k])
           T1 == {k \in Nat : k <= Len(s) => From(k)}
<1>3. 0 \in T1
  BY <1>1 DEF Apart
<1>4. ASSUME NEW k \in Nat, k \in T1 PROVE k + 1 \in T1
  <2>1. SUFFICES ASSUME k + 1 <= Len(s) PROVE From(k + 1)
    <3> HIDE DEF From
    <3> QED OBVIOUS
  <2>2. From(k)
    <3> HIDE DEF From
    <3> QED BY <1>2, <1>4, <2>1
  <2>3. k + 1 \in 1..Len(s) /\ (k + 1) - 1 = k /\ k \in 0..Len(s)
    BY <2>1, <1>2
  <2>4. h[k + 1] = IF s[k + 1] \in good THEN Append(h[k], s[k + 1]) ELSE h[k]
    BY <1>1, <2>3
  <2>5. h[k] \in Seq(T) /\ s[k + 1] \in T
    BY <1>1, <2>3
  <2>6. CASE s[k + 1] \notin good
    BY <2>2, <2>4, <2>6
  <2>7. CASE s[k + 1] \in good
    <3> DEFINE g == h[k]
               e == s[k + 1]
    <3>1. h[k + 1] = Append(g, e)
      BY <2>4, <2>7
    <3>2. /\ DOMAIN g = 1..Len(g) /\ Len(g) \in Nat
          /\ DOMAIN Append(g, e) = 1..(Len(g) + 1)
          /\ \A i \in 1..Len(g) : Append(g, e)[i] = g[i]
          /\ Append(g, e)[Len(g) + 1] = e
      BY <2>5
    <3>3. ASSUME NEW i \in DOMAIN h[k + 1] PROVE \E m \in 1..(k + 1) : h[k + 1][i] = s[m]
      <4>1. CASE i \in 1..Len(g)
        <5>1. h[k + 1][i] = g[i] /\ i \in DOMAIN g
          BY <4>1, <3>1, <3>2
        <5>2. PICK m \in 1..k : g[i] = s[m]
          BY <5>1, <2>2
        <5> QED BY <5>1, <5>2
      <4>2. CASE i = Len(g) + 1
        BY <4>2, <3>1, <3>2
      <4> QED BY <4>1, <4>2, <3>1, <3>2, <3>3
    <3>4. ASSUME Apart(s) PROVE Apart(h[k + 1])
      <4>1. \A i \in DOMAIN g : g[i].id # e.id
        <5>1. ASSUME NEW i \in DOMAIN g, g[i].id = e.id PROVE FALSE
          <6>1. PICK m \in 1..k : g[i] = s[m]
            BY <2>2
          <6>2. m \in DOMAIN s /\ k + 1 \in DOMAIN s /\ s[m].id = s[k + 1].id
            BY <1>2, <2>3, <5>1, <6>1
          <6>3. m = k + 1
            BY <6>2, <3>4 DEF Apart
          <6> QED BY <6>3
        <5> QED BY <5>1
      <4>2. Apart(g)
        BY <2>2, <3>4
      <4> HIDE DEF g, e
      <4>3. Apart(Append(g, e))
        BY <4>1, <4>2, <2>5, AppendApart DEF g, e
      <4> QED BY <4>3, <3>1
    <3> QED BY <3>3, <3>4
  <2> QED BY <2>6, <2>7
<1>5. Len(s) \in T1
  <2> HIDE DEF T1
  <2> QED BY <1>2, <1>3, <1>4, NatInduct
<1>6. From(Len(s))
  <2> HIDE DEF From
  <2> QED BY <1>2, <1>5
<1> QED BY <1>1, <1>2, <1>6

-----------------------------------------------------------------------------
(* A fold of the packer, entry by entry *)

\* strongestEdgePerNote, row after row.
StrongRuns(s, S) ==
    \E h \in [0..Len(s) -> S] :
       /\ h[0] = <<>>
       /\ \A k \in 1..Len(s) : h[k] = keepStrongest(h[k - 1], s[k])
       /\ strongestEdgePerNote(s) = h[Len(s)]

LEMMA StrongFold ==
    ASSUME NEW T, NEW s \in Seq(T), NEW S, <<>> \in S,
           \A q \in S, k \in 1..Len(s) : keepStrongest(q, s[k]) \in S
    PROVE  StrongRuns(s, S)
<1> DEFINE n == Len(s)
           Op(q, k) == keepStrongest(q, s[k])
           F == [p \in S \X (1..n) |-> Op(p[1], p[2])]
           B(g) == [q \in SUBSET DOMAIN s |-> IF q = {} THEN <<>> ELSE Op(g[q \ {Max(q)}], Max(q))]
           it == CHOOSE g : g = B(g)
<1>1. strongestEdgePerNote(s) = it[DOMAIN s]
  BY DEF FoldLeft, MapThenFoldSet, strongestEdgePerNote
<1>2. n \in Nat /\ DOMAIN s = 1..n /\ \A q \in S, k \in 1..n : Op(q, k) \in S
  OBVIOUS
<1> HIDE DEF n, Op
<1>3. F \in [S \X (1..n) -> S]
  BY <1>2
<1> HIDE DEF F
<1>4. \A q \in SUBSET (1..n) : q # {} => Max(q) \in 1..n /\ q \ {Max(q)} \in SUBSET (1..n)
  BY <1>2, MaxAmong
<1>5. it = B(it)
  <2>1. PICK g : Folds(g, n, S, <<>>, F)
    BY <1>2, <1>3, FoldExists
  <2>2. g = B(g)
    BY <1>2, <1>4, <2>1 DEF Folds, F
  <2> HIDE DEF B
  <2> QED BY <2>2
<1>6. Unfolds(it, n, S, <<>>, F)
  <2>1. \A q \in SUBSET (1..n) : it[q] = B(it)[q]
    BY <1>5
  <2> HIDE DEF it
  <2> QED BY <1>2, <1>4, <2>1 DEF F, Unfolds
<1> HIDE DEF it
<1>7. RunsTo(it[1..n], n, S, <<>>, F)
  BY <1>2, <1>3, <1>6, FoldIs
<1>8. PICK h \in [0..n -> S] : h[0] = <<>> /\ (\A k \in 1..n : h[k] = F[<<h[k - 1], k>>]) /\ h[n] = it[1..n]
  BY <1>7 DEF RunsTo
<1>9. \A k \in 1..n : h[k] = Op(h[k - 1], k)
  <2>1. \A k \in 1..n : k - 1 \in 0..n
    BY <1>2
  <2> QED BY <1>8, <2>1 DEF F
<1> QED BY <1>1, <1>2, <1>8, <1>9 DEF n, Op, StrongRuns

\* VisitAll, row after row.
VisitRuns(nodes, s, distance, S) ==
    \E h \in [0..Len(s) -> S] :
       /\ h[0] = nodes
       /\ \A k \in 1..Len(s) : h[k] = Visit(h[k - 1], s[k], distance)
       /\ VisitAll(nodes, s, distance) = h[Len(s)]

LEMMA VisitFold ==
    ASSUME NEW distance, NEW nodes, NEW T, NEW s \in Seq(T), NEW S, nodes \in S,
           \A q \in S, k \in 1..Len(s) : Visit(q, s[k], distance) \in S
    PROVE  VisitRuns(nodes, s, distance, S)
<1> DEFINE n == Len(s)
           Op(q, k) == Visit(q, s[k], distance)
           F == [p \in S \X (1..n) |-> Op(p[1], p[2])]
           B(g) == [q \in SUBSET DOMAIN s |-> IF q = {} THEN nodes ELSE Op(g[q \ {Max(q)}], Max(q))]
           it == CHOOSE g : g = B(g)
<1>1. VisitAll(nodes, s, distance) = it[DOMAIN s]
  BY DEF FoldLeft, MapThenFoldSet, VisitAll
<1>2. n \in Nat /\ DOMAIN s = 1..n /\ \A q \in S, k \in 1..n : Op(q, k) \in S
  OBVIOUS
<1> HIDE DEF n, Op
<1>3. F \in [S \X (1..n) -> S]
  BY <1>2
<1> HIDE DEF F
<1>4. \A q \in SUBSET (1..n) : q # {} => Max(q) \in 1..n /\ q \ {Max(q)} \in SUBSET (1..n)
  BY <1>2, MaxAmong
<1>5. it = B(it)
  <2>1. PICK g : Folds(g, n, S, nodes, F)
    BY <1>2, <1>3, FoldExists
  <2>2. g = B(g)
    BY <1>2, <1>4, <2>1 DEF Folds, F
  <2> HIDE DEF B
  <2> QED BY <2>2
<1>6. Unfolds(it, n, S, nodes, F)
  <2>1. \A q \in SUBSET (1..n) : it[q] = B(it)[q]
    BY <1>5
  <2> HIDE DEF it
  <2> QED BY <1>2, <1>4, <2>1 DEF F, Unfolds
<1> HIDE DEF it
<1>7. RunsTo(it[1..n], n, S, nodes, F)
  BY <1>2, <1>3, <1>6, FoldIs
<1>8. PICK h \in [0..n -> S] : h[0] = nodes /\ (\A k \in 1..n : h[k] = F[<<h[k - 1], k>>]) /\ h[n] = it[1..n]
  BY <1>7 DEF RunsTo
<1>9. \A k \in 1..n : h[k] = Op(h[k - 1], k)
  <2>1. \A k \in 1..n : k - 1 \in 0..n
    BY <1>2
  <2> QED BY <1>8, <2>1 DEF F
<1> QED BY <1>1, <1>2, <1>8, <1>9 DEF n, Op, VisitRuns

\* allWanted, hit after hit.
WantedRuns(db, target, drafts, s, S) ==
    \E h \in [0..Len(s) -> S] :
       /\ h[0] = <<>>
       /\ \A k \in 1..Len(s) : h[k] = Wanted(db, target, drafts, h[k - 1], s[k])
       /\ allWanted(db, s, target, drafts) = h[Len(s)]

LEMMA WantedFold ==
    ASSUME NEW db, NEW target, NEW drafts, NEW T, NEW s \in Seq(T), NEW S, <<>> \in S,
           \A q \in S, k \in 1..Len(s) : Wanted(db, target, drafts, q, s[k]) \in S
    PROVE  WantedRuns(db, target, drafts, s, S)
<1> DEFINE n == Len(s)
           Op(q, k) == Wanted(db, target, drafts, q, s[k])
           F == [p \in S \X (1..n) |-> Op(p[1], p[2])]
           B(g) == [q \in SUBSET DOMAIN s |-> IF q = {} THEN <<>> ELSE Op(g[q \ {Max(q)}], Max(q))]
           it == CHOOSE g : g = B(g)
<1>1. allWanted(db, s, target, drafts) = it[DOMAIN s]
  BY DEF FoldLeft, MapThenFoldSet, allWanted
<1>2. n \in Nat /\ DOMAIN s = 1..n /\ \A q \in S, k \in 1..n : Op(q, k) \in S
  OBVIOUS
<1> HIDE DEF n, Op
<1>3. F \in [S \X (1..n) -> S]
  BY <1>2
<1> HIDE DEF F
<1>4. \A q \in SUBSET (1..n) : q # {} => Max(q) \in 1..n /\ q \ {Max(q)} \in SUBSET (1..n)
  BY <1>2, MaxAmong
<1>5. it = B(it)
  <2>1. PICK g : Folds(g, n, S, <<>>, F)
    BY <1>2, <1>3, FoldExists
  <2>2. g = B(g)
    BY <1>2, <1>4, <2>1 DEF Folds, F
  <2> HIDE DEF B
  <2> QED BY <2>2
<1>6. Unfolds(it, n, S, <<>>, F)
  <2>1. \A q \in SUBSET (1..n) : it[q] = B(it)[q]
    BY <1>5
  <2> HIDE DEF it
  <2> QED BY <1>2, <1>4, <2>1 DEF F, Unfolds
<1> HIDE DEF it
<1>7. RunsTo(it[1..n], n, S, <<>>, F)
  BY <1>2, <1>3, <1>6, FoldIs
<1>8. PICK h \in [0..n -> S] : h[0] = <<>> /\ (\A k \in 1..n : h[k] = F[<<h[k - 1], k>>]) /\ h[n] = it[1..n]
  BY <1>7 DEF RunsTo
<1>9. \A k \in 1..n : h[k] = Op(h[k - 1], k)
  <2>1. \A k \in 1..n : k - 1 \in 0..n
    BY <1>2
  <2> QED BY <1>8, <2>1 DEF F
<1> QED BY <1>1, <1>2, <1>8, <1>9 DEF n, Op, WantedRuns

\* Traverse, node after node of the queue.
QueueRuns(db, start, depth, drafts, S) ==
    \E h \in [0..Cardinality(DOMAIN db.notes) -> S] :
       /\ h[0] = <<[edge |-> [id |-> start], distance |-> 0]>>
       /\ \A k \in 1..Cardinality(DOMAIN db.notes) : h[k] = Expand(db, depth, drafts, h[k - 1], k)
       /\ Traverse(db, start, depth, drafts) = h[Cardinality(DOMAIN db.notes)]

LEMMA QueueFold ==
    ASSUME NEW db, NEW start, NEW depth, NEW drafts,
           Cardinality(DOMAIN db.notes) \in Nat, NEW S, <<[edge |-> [id |-> start], distance |-> 0]>> \in S,
           \A q \in S, k \in 1..Cardinality(DOMAIN db.notes) : Expand(db, depth, drafts, q, k) \in S
    PROVE  QueueRuns(db, start, depth, drafts, S)
<1> DEFINE s == [k \in 1..Cardinality(DOMAIN db.notes) |-> k]
           n == Cardinality(DOMAIN db.notes)
           Op(q, k) == Expand(db, depth, drafts, q, s[k])
           F == [p \in S \X (1..n) |-> Op(p[1], p[2])]
           B(g) == [q \in SUBSET DOMAIN s |-> IF q = {} THEN <<[edge |-> [id |-> start], distance |-> 0]>> ELSE Op(g[q \ {Max(q)}], Max(q))]
           it == CHOOSE g : g = B(g)
<1>1. Traverse(db, start, depth, drafts) = it[DOMAIN s]
  BY DEF FoldLeft, MapThenFoldSet, Traverse
<1>2. n \in Nat /\ DOMAIN s = 1..n /\ \A q \in S, k \in 1..n : Op(q, k) \in S
  OBVIOUS
<1>10. \A k \in 1..n : s[k] = k
  OBVIOUS
<1> HIDE DEF n, s, Op
<1>3. F \in [S \X (1..n) -> S]
  BY <1>2
<1> HIDE DEF F
<1>4. \A q \in SUBSET (1..n) : q # {} => Max(q) \in 1..n /\ q \ {Max(q)} \in SUBSET (1..n)
  BY <1>2, MaxAmong
<1>5. it = B(it)
  <2>1. PICK g : Folds(g, n, S, <<[edge |-> [id |-> start], distance |-> 0]>>, F)
    BY <1>2, <1>3, FoldExists
  <2>2. g = B(g)
    BY <1>2, <1>4, <2>1 DEF Folds, F
  <2> HIDE DEF B
  <2> QED BY <2>2
<1>6. Unfolds(it, n, S, <<[edge |-> [id |-> start], distance |-> 0]>>, F)
  <2>1. \A q \in SUBSET (1..n) : it[q] = B(it)[q]
    BY <1>5
  <2> HIDE DEF it
  <2> QED BY <1>2, <1>4, <2>1 DEF F, Unfolds
<1> HIDE DEF it
<1>7. RunsTo(it[1..n], n, S, <<[edge |-> [id |-> start], distance |-> 0]>>, F)
  BY <1>2, <1>3, <1>6, FoldIs
<1>8. PICK h \in [0..n -> S] : h[0] = <<[edge |-> [id |-> start], distance |-> 0]>> /\ (\A k \in 1..n : h[k] = F[<<h[k - 1], k>>]) /\ h[n] = it[1..n]
  BY <1>7 DEF RunsTo
<1>9. \A k \in 1..n : h[k] = Op(h[k - 1], k)
  <2>1. \A k \in 1..n : k - 1 \in 0..n
    BY <1>2
  <2> QED BY <1>8, <2>1 DEF F
<1> QED BY <1>1, <1>2, <1>8, <1>9, <1>10 DEF n, s, Op, QueueRuns

\* packAll, candidate after candidate.
PackRuns(db, cfg, withBody, p, s, S) ==
    \E h \in [0..Len(s) -> S] :
       /\ h[0] = p
       /\ \A k \in 1..Len(s) : h[k] = PackItem(db, cfg, withBody, h[k - 1], s[k])
       /\ packAll(db, cfg, withBody, p, s) = h[Len(s)]

LEMMA PackFold ==
    ASSUME NEW db, NEW cfg, NEW withBody, NEW p,
           NEW T, NEW s \in Seq(T), NEW S, p \in S,
           \A q \in S, k \in 1..Len(s) : PackItem(db, cfg, withBody, q, s[k]) \in S
    PROVE  PackRuns(db, cfg, withBody, p, s, S)
<1> DEFINE n == Len(s)
           Op(q, k) == PackItem(db, cfg, withBody, q, s[k])
           F == [x \in S \X (1..n) |-> Op(x[1], x[2])]
           B(g) == [q \in SUBSET DOMAIN s |-> IF q = {} THEN p ELSE Op(g[q \ {Max(q)}], Max(q))]
           it == CHOOSE g : g = B(g)
<1>1. packAll(db, cfg, withBody, p, s) = it[DOMAIN s]
  BY DEF FoldLeft, MapThenFoldSet, packAll
<1>2. n \in Nat /\ DOMAIN s = 1..n /\ \A q \in S, k \in 1..n : Op(q, k) \in S
  OBVIOUS
<1> HIDE DEF n, Op
<1>3. F \in [S \X (1..n) -> S]
  BY <1>2
<1> HIDE DEF F
<1>4. \A q \in SUBSET (1..n) : q # {} => Max(q) \in 1..n /\ q \ {Max(q)} \in SUBSET (1..n)
  BY <1>2, MaxAmong
<1>5. it = B(it)
  <2>1. PICK g : Folds(g, n, S, p, F)
    BY <1>2, <1>3, FoldExists
  <2>2. g = B(g)
    BY <1>2, <1>4, <2>1 DEF Folds, F
  <2> HIDE DEF B
  <2> QED BY <2>2
<1>6. Unfolds(it, n, S, p, F)
  <2>1. \A q \in SUBSET (1..n) : it[q] = B(it)[q]
    BY <1>5
  <2> HIDE DEF it
  <2> QED BY <1>2, <1>4, <2>1 DEF F, Unfolds
<1> HIDE DEF it
<1>7. RunsTo(it[1..n], n, S, p, F)
  BY <1>2, <1>3, <1>6, FoldIs
<1>8. PICK h \in [0..n -> S] : h[0] = p /\ (\A k \in 1..n : h[k] = F[<<h[k - 1], k>>]) /\ h[n] = it[1..n]
  BY <1>7 DEF RunsTo
<1>9. \A k \in 1..n : h[k] = Op(h[k - 1], k)
  <2>1. \A k \in 1..n : k - 1 \in 0..n
    BY <1>2
  <2> QED BY <1>8, <2>1 DEF F
<1> QED BY <1>1, <1>2, <1>8, <1>9 DEF n, Op, PackRuns

\* backfillAll, item after item.
FillRuns(db, cfg, p, S) ==
    \E h \in [0..Len(p.items) -> S] :
       /\ h[0] = p
       /\ \A k \in 1..Len(p.items) : h[k] = Backfill(db, cfg, h[k - 1], k)
       /\ backfillAll(db, cfg, p) = h[Len(p.items)]

LEMMA FillFold ==
    ASSUME NEW db, NEW cfg, NEW p, NEW T, p.items \in Seq(T), NEW S, p \in S,
           \A q \in S, k \in 1..Len(p.items) : Backfill(db, cfg, q, k) \in S
    PROVE  FillRuns(db, cfg, p, S)
<1> DEFINE s == [i \in DOMAIN p.items |-> i]
           n == Len(p.items)
           Op(q, k) == Backfill(db, cfg, q, s[k])
           F == [x \in S \X (1..n) |-> Op(x[1], x[2])]
           B(g) == [q \in SUBSET DOMAIN s |-> IF q = {} THEN p ELSE Op(g[q \ {Max(q)}], Max(q))]
           it == CHOOSE g : g = B(g)
<1>1. backfillAll(db, cfg, p) = it[DOMAIN s]
  BY DEF FoldLeft, MapThenFoldSet, backfillAll
<1>2. n \in Nat /\ DOMAIN s = 1..n /\ \A q \in S, k \in 1..n : Op(q, k) \in S
  OBVIOUS
<1>10. \A k \in 1..n : s[k] = k
  OBVIOUS
<1> HIDE DEF n, s, Op
<1>3. F \in [S \X (1..n) -> S]
  BY <1>2
<1> HIDE DEF F
<1>4. \A q \in SUBSET (1..n) : q # {} => Max(q) \in 1..n /\ q \ {Max(q)} \in SUBSET (1..n)
  BY <1>2, MaxAmong
<1>5. it = B(it)
  <2>1. PICK g : Folds(g, n, S, p, F)
    BY <1>2, <1>3, FoldExists
  <2>2. g = B(g)
    BY <1>2, <1>4, <2>1 DEF Folds, F
  <2> HIDE DEF B
  <2> QED BY <2>2
<1>6. Unfolds(it, n, S, p, F)
  <2>1. \A q \in SUBSET (1..n) : it[q] = B(it)[q]
    BY <1>5
  <2> HIDE DEF it
  <2> QED BY <1>2, <1>4, <2>1 DEF F, Unfolds
<1> HIDE DEF it
<1>7. RunsTo(it[1..n], n, S, p, F)
  BY <1>2, <1>3, <1>6, FoldIs
<1>8. PICK h \in [0..n -> S] : h[0] = p /\ (\A k \in 1..n : h[k] = F[<<h[k - 1], k>>]) /\ h[n] = it[1..n]
  BY <1>7 DEF RunsTo
<1>9. \A k \in 1..n : h[k] = Op(h[k - 1], k)
  <2>1. \A k \in 1..n : k - 1 \in 0..n
    BY <1>2
  <2> QED BY <1>8, <2>1 DEF F
<1> QED BY <1>1, <1>2, <1>8, <1>9, <1>10 DEF n, s, Op, FillRuns

\* takenOut, item after item.
TakenRuns(shown, used, s, S) ==
    \E h \in [0..Len(s) -> S] :
       /\ h[0] = used
       /\ \A k \in 1..Len(s) : h[k] = (h[k - 1] - (IF s[k].id \in shown THEN s[k].body ELSE 0))
       /\ takenOut(used, s, shown) = h[Len(s)]

LEMMA TakenFold ==
    ASSUME NEW shown, NEW used, NEW T, NEW s \in Seq(T), NEW S, used \in S,
           \A q \in S, k \in 1..Len(s) : (q - (IF s[k].id \in shown THEN s[k].body ELSE 0)) \in S
    PROVE  TakenRuns(shown, used, s, S)
<1> DEFINE n == Len(s)
           Op(q, k) == (q - (IF s[k].id \in shown THEN s[k].body ELSE 0))
           F == [p \in S \X (1..n) |-> Op(p[1], p[2])]
           B(g) == [q \in SUBSET DOMAIN s |-> IF q = {} THEN used ELSE Op(g[q \ {Max(q)}], Max(q))]
           it == CHOOSE g : g = B(g)
<1>1. takenOut(used, s, shown) = it[DOMAIN s]
  BY DEF FoldLeft, MapThenFoldSet, takenOut
<1>2. n \in Nat /\ DOMAIN s = 1..n /\ \A q \in S, k \in 1..n : Op(q, k) \in S
  <2>1. n \in Nat /\ DOMAIN s = 1..n
    OBVIOUS
  <2>2. \A q \in S, k \in 1..n : Op(q, k) \in S
    OBVIOUS
  <2> QED BY <2>1, <2>2
<1> HIDE DEF n, Op
<1>3. F \in [S \X (1..n) -> S]
  BY <1>2
<1> HIDE DEF F
<1>4. \A q \in SUBSET (1..n) : q # {} => Max(q) \in 1..n /\ q \ {Max(q)} \in SUBSET (1..n)
  BY <1>2, MaxAmong
<1>5. it = B(it)
  <2>1. PICK g : Folds(g, n, S, used, F)
    BY <1>2, <1>3, FoldExists
  <2>2. g = B(g)
    BY <1>2, <1>4, <2>1 DEF Folds, F
  <2> HIDE DEF B
  <2> QED BY <2>2
<1>6. Unfolds(it, n, S, used, F)
  <2>1. \A q \in SUBSET (1..n) : it[q] = B(it)[q]
    BY <1>5
  <2> HIDE DEF it
  <2> QED BY <1>2, <1>4, <2>1 DEF F, Unfolds
<1> HIDE DEF it
<1>7. RunsTo(it[1..n], n, S, used, F)
  BY <1>2, <1>3, <1>6, FoldIs
<1>8. PICK h \in [0..n -> S] : h[0] = used /\ (\A k \in 1..n : h[k] = F[<<h[k - 1], k>>]) /\ h[n] = it[1..n]
  BY <1>7 DEF RunsTo
<1>9. \A k \in 1..n : h[k] = Op(h[k - 1], k)
  <2>1. \A k \in 1..n : k - 1 \in 0..n
    BY <1>2
  <2> QED BY <1>8, <2>1 DEF F
<1> QED BY <1>1, <1>2, <1>8, <1>9 DEF n, Op, TakenRuns

\* Total, item after item.
TotalRuns(s, S) ==
    \E h \in [0..Len(s) -> S] :
       /\ h[0] = 0
       /\ \A k \in 1..Len(s) : h[k] = (h[k - 1] + s[k].fm + s[k].body)
       /\ Total(s) = h[Len(s)]

LEMMA TotalFold ==
    ASSUME NEW T, NEW s \in Seq(T), NEW S, 0 \in S,
           \A q \in S, k \in 1..Len(s) : (q + s[k].fm + s[k].body) \in S
    PROVE  TotalRuns(s, S)
<1> DEFINE n == Len(s)
           Op(q, k) == (q + s[k].fm + s[k].body)
           F == [p \in S \X (1..n) |-> Op(p[1], p[2])]
           B(g) == [q \in SUBSET DOMAIN s |-> IF q = {} THEN 0 ELSE Op(g[q \ {Max(q)}], Max(q))]
           it == CHOOSE g : g = B(g)
<1>1. Total(s) = it[DOMAIN s]
  BY DEF FoldLeft, MapThenFoldSet, Total
<1>2. n \in Nat /\ DOMAIN s = 1..n /\ \A q \in S, k \in 1..n : Op(q, k) \in S
  OBVIOUS
<1> HIDE DEF n, Op
<1>3. F \in [S \X (1..n) -> S]
  BY <1>2
<1> HIDE DEF F
<1>4. \A q \in SUBSET (1..n) : q # {} => Max(q) \in 1..n /\ q \ {Max(q)} \in SUBSET (1..n)
  BY <1>2, MaxAmong
<1>5. it = B(it)
  <2>1. PICK g : Folds(g, n, S, 0, F)
    BY <1>2, <1>3, FoldExists
  <2>2. g = B(g)
    BY <1>2, <1>4, <2>1 DEF Folds, F
  <2> HIDE DEF B
  <2> QED BY <2>2
<1>6. Unfolds(it, n, S, 0, F)
  <2>1. \A q \in SUBSET (1..n) : it[q] = B(it)[q]
    BY <1>5
  <2> HIDE DEF it
  <2> QED BY <1>2, <1>4, <2>1 DEF F, Unfolds
<1> HIDE DEF it
<1>7. RunsTo(it[1..n], n, S, 0, F)
  BY <1>2, <1>3, <1>6, FoldIs
<1>8. PICK h \in [0..n -> S] : h[0] = 0 /\ (\A k \in 1..n : h[k] = F[<<h[k - 1], k>>]) /\ h[n] = it[1..n]
  BY <1>7 DEF RunsTo
<1>9. \A k \in 1..n : h[k] = Op(h[k - 1], k)
  <2>1. \A k \in 1..n : k - 1 \in 0..n
    BY <1>2
  <2> QED BY <1>8, <2>1 DEF F
<1> QED BY <1>1, <1>2, <1>8, <1>9 DEF n, Op, TotalRuns

-----------------------------------------------------------------------------
(* Candidates: the rows of a note, and the strongest of each neighbour      *)

\* An index in one state: what is known of every note, and links between them.
IsDb(db) ==
    /\ DOMAIN db.notes \in SUBSET STRING
    /\ db.notes \in [DOMAIN db.notes -> Sizes]
    /\ db.links \in Seq(Links(DOMAIN db.notes))
    /\ IsFiniteSet(DOMAIN db.notes)

LEMMA NeighborsTyped ==
    ASSUME NEW db, IsDb(db), NEW id \in DOMAIN db.notes, NEW drafts
    PROVE  queryNeighbors(db, id, drafts) \in Seq(Edges(DOMAIN db.notes))
<1> DEFINE L == Links(DOMAIN db.notes)
           E == Edges(DOMAIN db.notes)
           out == Among(db.links, {l \in ToSet(db.links) : l.src = id})
           in  == Among(db.links, {l \in ToSet(db.links) : l.dst = id})
           from == [i \in DOMAIN out |-> Edge(out[i].dst, out[i])]
           to == [i \in DOMAIN in |-> Edge(in[i].src, in[i])]
           all == from \o to
<1>1. \A good : Among(db.links, good) \in Seq(L \cap good)
  BY AmongTyped DEF IsDb
<1>2. \A good, T : Seq(T \cap good) \subseteq Seq(T)
  OBVIOUS
<1>3. out \in Seq(L) /\ in \in Seq(L)
  BY <1>1, <1>2
<1>4. \A l \in L : Edge(l.dst, l) \in E /\ Edge(l.src, l) \in E
  BY DEF Edge, Edges, Links, LinkTypes
<1>5. queryNeighbors(db, id, drafts) = Among(all, {e \in ToSet(all) : Visible(db, e.id, drafts)})
  BY DEF queryNeighbors
<1> HIDE DEF out, in, L, E
<1>6. from \in Seq(E) /\ to \in Seq(E)
  <2>1. \A i \in DOMAIN out : out[i] \in L
    BY <1>3
  <2>2. \A i \in DOMAIN in : in[i] \in L
    BY <1>3
  <2>3. \A i \in DOMAIN out : Edge(out[i].dst, out[i]) \in E
    BY <1>4, <2>1
  <2>4. \A i \in DOMAIN in : Edge(in[i].src, in[i]) \in E
    BY <1>4, <2>2
  <2>5. DOMAIN out = 1..Len(out) /\ Len(out) \in Nat /\ DOMAIN in = 1..Len(in) /\ Len(in) \in Nat
    BY <1>3
  <2> QED BY <2>3, <2>4, <2>5
<1>7. all \in Seq(E)
  BY <1>6
<1> HIDE DEF all
<1>8. \A good : Among(all, good) \in Seq(E \cap good)
  BY <1>7, AmongTyped
<1> QED BY <1>2, <1>5, <1>8 DEF E

\* The notes linked to target, by the link that stands for each.
Others(ids, target) == {e \in Edges(ids) : e.id # target}

Cands(E) == [edge : E, priority : Int]

LEMMA PriorityInt == ASSUME NEW e PROVE edgePriority(e) \in Int
BY DEF edgePriority

LEMMA MinPair == ASSUME NEW a \in Int, NEW b \in Int PROVE Min({a, b}) \in {a, b} /\ Min({a, b}) \in Int
<1>1. \E x \in {a, b} : \A y \in {a, b} : x <= y
  OBVIOUS
<1> QED BY <1>1 DEF Min

LEMMA MinIs ==
    ASSUME NEW S \in SUBSET Int, NEW v \in S, \A y \in S : v <= y
    PROVE  Min(S) = v
<1>1. \E x \in S : \A y \in S : x <= y
  OBVIOUS
<1>2. Min(S) \in S /\ \A y \in S : Min(S) <= y
  BY <1>1 DEF Min
<1>3. Min(S) <= v /\ v <= Min(S) /\ Min(S) \in Int /\ v \in Int
  BY <1>2
<1> QED BY <1>3

\* r holds what s holds of G.
Filtered(s, G, r) == \A e : (\E i \in DOMAIN r : r[i] = e) <=> (e \in G /\ \E k \in DOMAIN s : s[k] = e)

LEMMA AmongSet ==
    ASSUME NEW T, NEW s \in Seq(T), NEW G
    PROVE  Among(s, G) \in Seq(T) /\ Filtered(s, G, Among(s, G))
<1> DEFINE r == Among(s, G)
<1>1. PICK m : Picks(m, r, s, G)
  BY AmongPicks
<1>2. r \in Seq(T \cap G)
  BY AmongTyped
<1>3. r \in Seq(T) /\ DOMAIN r = 1..Len(r) /\ DOMAIN s = 1..Len(s)
  BY <1>2
<1> HIDE DEF r
<1>4. ASSUME NEW i \in DOMAIN r PROVE r[i] \in G /\ \E k \in DOMAIN s : s[k] = r[i]
  BY <1>1, <1>3 DEF Picks
<1>5. ASSUME NEW k \in DOMAIN s, s[k] \in G PROVE \E i \in DOMAIN r : r[i] = s[k]
  BY <1>1, <1>3, <1>5 DEF Picks
<1> QED BY <1>3, <1>4, <1>5 DEF r, Filtered

\* The notes that rows lead to.
Leads(rows, id) == \E i \in DOMAIN rows : rows[i].id = id

Linked(db, a, b) == \E k \in DOMAIN db.links : {db.links[k].src, db.links[k].dst} = {a, b}

LEMMA NeighborIds ==
    ASSUME NEW db, IsDb(db), NEW id \in DOMAIN db.notes, NEW drafts, NEW o
    PROVE  Leads(queryNeighbors(db, id, drafts), o) <=> Visible(db, o, drafts) /\ Linked(db, id, o)
<1> DEFINE L == Links(DOMAIN db.notes)
           E == Edges(DOMAIN db.notes)
           outs == {l \in ToSet(db.links) : l.src = id}
           ins == {l \in ToSet(db.links) : l.dst = id}
           out == Among(db.links, outs)
           in  == Among(db.links, ins)
           from == [i \in DOMAIN out |-> Edge(out[i].dst, out[i])]
           to == [i \in DOMAIN in |-> Edge(in[i].src, in[i])]
           all == from \o to
           good == {e \in ToSet(all) : Visible(db, e.id, drafts)}
           rows == Among(all, good)
<1>1. db.links \in Seq(L)
  BY DEF IsDb
<1>2. queryNeighbors(db, id, drafts) = rows
  BY DEF queryNeighbors
<1>3. out \in Seq(L) /\ Filtered(db.links, outs, out)
  <2> HIDE DEF L, outs
  <2> QED BY <1>1, AmongSet
<1>4. in \in Seq(L) /\ Filtered(db.links, ins, in)
  <2> HIDE DEF L, ins
  <2> QED BY <1>1, AmongSet
<1>5. \A k \in DOMAIN db.links : db.links[k] \in ToSet(db.links)
  BY DEF ToSet
<1>6. \A k \in DOMAIN db.links : db.links[k].src = id <=> \E i \in DOMAIN out : out[i] = db.links[k]
  <2>1. ASSUME NEW k \in DOMAIN db.links PROVE db.links[k].src = id <=> \E i \in DOMAIN out : out[i] = db.links[k]
    <3> HIDE DEF out
    <3> QED BY <1>3, <1>5 DEF Filtered
  <2> QED BY <2>1
<1>7. \A k \in DOMAIN db.links : db.links[k].dst = id <=> \E i \in DOMAIN in : in[i] = db.links[k]
  <2>1. ASSUME NEW k \in DOMAIN db.links PROVE db.links[k].dst = id <=> \E i \in DOMAIN in : in[i] = db.links[k]
    <3> HIDE DEF in
    <3> QED BY <1>4, <1>5 DEF Filtered
  <2> QED BY <2>1
<1>8. /\ \A i \in DOMAIN out : \E k \in DOMAIN db.links : out[i] = db.links[k] /\ db.links[k].src = id
      /\ \A i \in DOMAIN in : \E k \in DOMAIN db.links : in[i] = db.links[k] /\ db.links[k].dst = id
  <2>1. ASSUME NEW i \in DOMAIN out PROVE \E k \in DOMAIN db.links : out[i] = db.links[k] /\ db.links[k].src = id
    <3> HIDE DEF out
    <3>1. out[i] \in outs /\ \E k \in DOMAIN db.links : db.links[k] = out[i]
      BY <1>3 DEF Filtered
    <3> QED BY <3>1
  <2>2. ASSUME NEW i \in DOMAIN in PROVE \E k \in DOMAIN db.links : in[i] = db.links[k] /\ db.links[k].dst = id
    <3> HIDE DEF in
    <3>1. in[i] \in ins /\ \E k \in DOMAIN db.links : db.links[k] = in[i]
      BY <1>4 DEF Filtered
    <3> QED BY <3>1
  <2> QED BY <2>1, <2>2
<1>9. \A i \in DOMAIN out : Edge(out[i].dst, out[i]) \in E /\ Edge(out[i].dst, out[i]).id = out[i].dst
  <2>1. \A l \in L : Edge(l.dst, l) \in E /\ Edge(l.dst, l).id = l.dst
    BY DEF Edge, Edges, Links, LinkTypes
  <2>2. \A i \in DOMAIN out : out[i] \in L
    BY <1>3
  <2> QED BY <2>1, <2>2
<1>10. \A i \in DOMAIN in : Edge(in[i].src, in[i]) \in E /\ Edge(in[i].src, in[i]).id = in[i].src
  <2>1. \A l \in L : Edge(l.src, l) \in E /\ Edge(l.src, l).id = l.src
    BY DEF Edge, Edges, Links, LinkTypes
  <2>2. \A i \in DOMAIN in : in[i] \in L
    BY <1>4
  <2> QED BY <2>1, <2>2
<1>11. /\ DOMAIN out = 1..Len(out) /\ Len(out) \in Nat /\ DOMAIN in = 1..Len(in) /\ Len(in) \in Nat
  BY <1>3, <1>4
<1> HIDE DEF out, in, E, L
<1>12. from \in Seq(E) /\ to \in Seq(E) /\ Len(from) = Len(out) /\ Len(to) = Len(in)
  BY <1>9, <1>10, <1>11
<1>13. /\ \A i \in 1..Len(out) : from[i].id = out[i].dst
       /\ \A i \in 1..Len(in) : to[i].id = in[i].src
  BY <1>9, <1>10, <1>11
<1> HIDE DEF from, to
<1>14. /\ all \in Seq(E) /\ Len(all) = Len(out) + Len(in)
       /\ \A i \in 1..Len(out) : all[i] = from[i]
       /\ \A i \in 1..Len(in) : all[Len(out) + i] = to[i]
  BY <1>11, <1>12
<1> HIDE DEF all
<1>15. Leads(all, o) <=> (\E i \in 1..Len(out) : out[i].dst = o) \/ \E i \in 1..Len(in) : in[i].src = o
  <2>1. ASSUME NEW i \in DOMAIN all, all[i].id = o
        PROVE  (\E j \in 1..Len(out) : out[j].dst = o) \/ \E j \in 1..Len(in) : in[j].src = o
    <3>1. i \in 1..(Len(out) + Len(in))
      BY <1>14
    <3>2. CASE i \in 1..Len(out)
      BY <3>2, <2>1, <1>13, <1>14
    <3>3. CASE i \notin 1..Len(out)
      <4>1. i - Len(out) \in 1..Len(in) /\ Len(out) + (i - Len(out)) = i
        BY <3>1, <3>3, <1>11
      <4>2. all[i] = to[i - Len(out)]
        BY <4>1, <1>14
      <4> QED BY <4>1, <4>2, <2>1, <1>13
    <3> QED BY <3>2, <3>3
  <2>2. ASSUME NEW i \in 1..Len(out), out[i].dst = o PROVE Leads(all, o)
    <3>1. i \in DOMAIN all /\ all[i].id = o
      BY <2>2, <1>11, <1>13, <1>14
    <3> QED BY <3>1 DEF Leads
  <2>3. ASSUME NEW i \in 1..Len(in), in[i].src = o PROVE Leads(all, o)
    <3>1. Len(out) + i \in DOMAIN all /\ all[Len(out) + i].id = o
      BY <2>3, <1>11, <1>13, <1>14
    <3> QED BY <3>1 DEF Leads
  <2> QED BY <2>1, <2>2, <2>3 DEF Leads
<1>16. Leads(all, o) <=> Linked(db, id, o)
  <2>1. ASSUME NEW k \in DOMAIN db.links, {db.links[k].src, db.links[k].dst} = {id, o} PROVE Leads(all, o)
    <3>1. \/ db.links[k].src = id /\ db.links[k].dst = o
          \/ db.links[k].dst = id /\ db.links[k].src = o
      BY <2>1
    <3>2. CASE db.links[k].src = id /\ db.links[k].dst = o
      BY <3>2, <1>6, <1>11, <1>15
    <3>3. CASE db.links[k].dst = id /\ db.links[k].src = o
      BY <3>3, <1>7, <1>11, <1>15
    <3> QED BY <3>1, <3>2, <3>3
  <2>2. ASSUME Leads(all, o) PROVE Linked(db, id, o)
    <3>1. CASE \E i \in 1..Len(out) : out[i].dst = o
      BY <3>1, <1>8, <1>11 DEF Linked
    <3>2. CASE \E i \in 1..Len(in) : in[i].src = o
      BY <3>2, <1>8, <1>11 DEF Linked
    <3> QED BY <2>2, <3>1, <3>2, <1>15
  <2> QED BY <2>1, <2>2 DEF Linked
<1>17. \A k \in DOMAIN all : all[k] \in good <=> Visible(db, all[k].id, drafts)
  BY DEF ToSet
<1> HIDE DEF good
<1>18. Filtered(all, good, rows)
  BY <1>14, AmongSet
<1> HIDE DEF rows
<1>19. Leads(rows, o) <=> Leads(all, o) /\ Visible(db, o, drafts)
  BY <1>17, <1>18 DEF Leads, Filtered
<1> QED BY <1>2, <1>16, <1>19

\* Of the first n rows, none with the id of the k-th is stronger, or as strong and before it.
IsBest(s, n, k) ==
    \A m \in 1..n : s[m].id = s[k].id =>
        \/ edgePriority(s[k]) < edgePriority(s[m])
        \/ edgePriority(s[k]) = edgePriority(s[m]) /\ k <= m

\* q holds the best of the first n rows for every note they lead to.
BestOf(s, n, q) ==
    /\ Apart(q)
    /\ \A i \in DOMAIN q : \E k \in 1..n : q[i] = s[k] /\ IsBest(s, n, k)
    /\ \A k \in 1..n : \E i \in DOMAIN q : q[i].id = s[k].id

LEMMA BestStep ==
    ASSUME NEW T, NEW s \in Seq(T), NEW k \in Nat, k + 1 \in 1..Len(s), NEW q \in Seq(T), BestOf(s, k, q)
    PROVE  BestOf(s, k + 1, keepStrongest(q, s[k + 1]))
<1> DEFINE e == s[k + 1]
           pri(x) == edgePriority(x)
           r == [i \in DOMAIN q |-> IF q[i].id = e.id /\ pri(e) < pri(q[i]) THEN e ELSE q[i]]
<1>1. /\ Apart(q)
      /\ \A i \in DOMAIN q : \E m \in 1..k : q[i] = s[m] /\ IsBest(s, k, m)
      /\ \A m \in 1..k : \E i \in DOMAIN q : q[i].id = s[m].id
  BY DEF BestOf
<1>2. /\ \A m \in 1..(k + 1) : m \in 1..k \/ m = k + 1
      /\ k + 1 \in 1..(k + 1) /\ \A m \in 1..k : m \in 1..(k + 1) /\ m <= k + 1 /\ m # k + 1
  OBVIOUS
<1>3. \A x : pri(x) \in Int
  BY PriorityInt
<1>4. Apart(keepStrongest(q, e)) /\ e \in T
  <2>1. e \in T
    OBVIOUS
  <2> HIDE DEF e
  <2>2. CASE \E i \in DOMAIN q : q[i].id = e.id
    <3>1. keepStrongest(q, e) = r
      BY <2>2 DEF keepStrongest
    <3>2. DOMAIN r = DOMAIN q /\ \A i \in DOMAIN q : r[i].id = q[i].id
      OBVIOUS
    <3> HIDE DEF r
    <3> QED BY <1>1, <2>1, <3>1, <3>2 DEF Apart
  <2>3. CASE ~\E i \in DOMAIN q : q[i].id = e.id
    <3>1. keepStrongest(q, e) = Append(q, e)
      BY <2>3 DEF keepStrongest
    <3> QED BY <1>1, <2>1, <2>3, <3>1, AppendApart
  <2> QED BY <2>1, <2>2, <2>3
<1> HIDE DEF pri
<1>5. CASE \E i \in DOMAIN q : q[i].id = e.id
  <2>1. keepStrongest(q, e) = r
    BY <1>5 DEF keepStrongest, pri
  <2>2. ASSUME NEW i \in DOMAIN q
        PROVE  \E m \in 1..(k + 1) : r[i] = s[m] /\ IsBest(s, k + 1, m)
    <3>1. PICK l \in 1..k : q[i] = s[l] /\ IsBest(s, k, l)
      BY <1>1
    <3>2. \A m \in 1..k : s[m].id = s[l].id => pri(s[l]) < pri(s[m]) \/ (pri(s[l]) = pri(s[m]) /\ l <= m)
      BY <3>1 DEF IsBest, pri
    <3>3. CASE q[i].id = e.id /\ pri(e) < pri(q[i])
      <4>1. r[i] = s[k + 1]
        BY <3>3
      <4>2. ASSUME NEW m \in 1..(k + 1), s[m].id = s[k + 1].id
            PROVE  pri(s[k + 1]) < pri(s[m]) \/ (pri(s[k + 1]) = pri(s[m]) /\ k + 1 <= m)
        <5>1. CASE m = k + 1
          BY <5>1
        <5>2. CASE m \in 1..k
          <6>1. pri(s[l]) < pri(s[m]) \/ pri(s[l]) = pri(s[m])
            BY <3>1, <3>2, <3>3, <4>2, <5>2
          <6>2. pri(s[k + 1]) < pri(s[l])
            BY <3>1, <3>3
          <6>3. pri(s[k + 1]) \in Int /\ pri(s[l]) \in Int /\ pri(s[m]) \in Int
            BY <1>3
          <6> QED BY <6>1, <6>2, <6>3
        <5> QED BY <5>1, <5>2, <1>2
      <4>3. IsBest(s, k + 1, k + 1)
        BY <4>2 DEF IsBest, pri
      <4> QED BY <4>1, <4>3, <1>2
    <3>4. CASE ~(q[i].id = e.id /\ pri(e) < pri(q[i]))
      <4>1. r[i] = s[l]
        BY <3>1, <3>4
      <4>2. ASSUME NEW m \in 1..(k + 1), s[m].id = s[l].id
            PROVE  pri(s[l]) < pri(s[m]) \/ (pri(s[l]) = pri(s[m]) /\ l <= m)
        <5>1. CASE m \in 1..k
          BY <3>2, <4>2, <5>1
        <5>2. CASE m = k + 1
          <6>1. ~(pri(s[m]) < pri(s[l]))
            BY <3>1, <3>4, <4>2, <5>2
          <6>2. pri(s[m]) \in Int /\ pri(s[l]) \in Int /\ l <= m
            BY <1>2, <1>3, <5>2
          <6> QED BY <6>1, <6>2
        <5> QED BY <5>1, <5>2, <1>2
      <4>3. IsBest(s, k + 1, l)
        BY <4>2 DEF IsBest, pri
      <4> QED BY <4>1, <4>3, <1>2
    <3> QED BY <3>3, <3>4
  <2>3. DOMAIN r = DOMAIN q /\ \A i \in DOMAIN q : r[i].id = q[i].id
    OBVIOUS
  <2> HIDE DEF r
  <2>4. ASSUME NEW m \in 1..(k + 1) PROVE \E i \in DOMAIN r : r[i].id = s[m].id
    <3>1. CASE m \in 1..k
      <4>1. PICK i \in DOMAIN q : q[i].id = s[m].id
        BY <3>1, <1>1
      <4> QED BY <4>1, <2>3
    <3>2. CASE m = k + 1
      BY <3>2, <1>5, <2>3
    <3> QED BY <3>1, <3>2, <1>2
  <2> QED BY <1>4, <2>1, <2>2, <2>3, <2>4 DEF BestOf
<1>6. CASE ~\E i \in DOMAIN q : q[i].id = e.id
  <2> DEFINE a == Append(q, e)
  <2>1. keepStrongest(q, e) = a
    BY <1>6 DEF keepStrongest
  <2>2. /\ DOMAIN a = DOMAIN q \cup {Len(q) + 1} /\ a[Len(q) + 1] = e /\ \A i \in DOMAIN q : a[i] = q[i]
    <3> HIDE DEF e
    <3> QED BY <1>4
  <2> HIDE DEF a
  <2>3. \A m \in 1..k : s[m].id # s[k + 1].id
    BY <1>1, <1>6
  <2>4. ASSUME NEW i \in DOMAIN a
        PROVE  \E m \in 1..(k + 1) : a[i] = s[m] /\ IsBest(s, k + 1, m)
    <3>1. CASE i \in DOMAIN q
      <4>1. PICK l \in 1..k : q[i] = s[l] /\ IsBest(s, k, l)
        BY <1>1, <3>1
      <4>2. IsBest(s, k + 1, l)
        BY <4>1, <2>3, <1>2 DEF IsBest
      <4> QED BY <3>1, <4>1, <4>2, <2>2, <1>2
    <3>2. CASE i = Len(q) + 1
      <4>1. \A m \in 1..(k + 1) : s[m].id = s[k + 1].id => m = k + 1
        BY <2>3, <1>2
      <4>2. IsBest(s, k + 1, k + 1)
        BY <4>1 DEF IsBest
      <4> QED BY <3>2, <4>2, <2>2, <1>2
    <3> QED BY <3>1, <3>2, <2>2
  <2>5. ASSUME NEW m \in 1..(k + 1) PROVE \E i \in DOMAIN a : a[i].id = s[m].id
    <3>1. CASE m \in 1..k
      <4>1. PICK i \in DOMAIN q : q[i].id = s[m].id
        BY <3>1, <1>1
      <4>2. i \in DOMAIN a /\ a[i] = q[i]
        BY <2>2
      <4> QED BY <4>1, <4>2
    <3>2. CASE m = k + 1
      BY <3>2, <2>2
    <3> QED BY <3>1, <3>2, <1>2
  <2> QED BY <1>4, <2>1, <2>4, <2>5 DEF BestOf
<1> QED BY <1>5, <1>6

LEMMA StrongestBest ==
    ASSUME NEW T, NEW s \in Seq(T)
    PROVE  strongestEdgePerNote(s) \in Seq(T) /\ BestOf(s, Len(s), strongestEdgePerNote(s))
<1> DEFINE n == Len(s)
<1>1. n \in Nat /\ <<>> \in Seq(T)
  OBVIOUS
<1>2. \A q \in Seq(T), k \in 1..n : keepStrongest(q, s[k]) \in Seq(T)
  <2>1. ASSUME NEW q \in Seq(T), NEW e \in T PROVE keepStrongest(q, e) \in Seq(T)
    <3> DEFINE r == [i \in DOMAIN q |-> IF q[i].id = e.id /\ edgePriority(e) < edgePriority(q[i]) THEN e ELSE q[i]]
    <3>1. \A i \in DOMAIN q : r[i] \in T
      OBVIOUS
    <3>2. DOMAIN q = 1..Len(q) /\ Len(q) \in Nat
      OBVIOUS
    <3>3. r \in Seq(T)
      BY <3>1, <3>2
    <3>4. Append(q, e) \in Seq(T)
      OBVIOUS
    <3>5. keepStrongest(q, e) \in {r, Append(q, e)}
      BY DEF keepStrongest
    <3> HIDE DEF r
    <3> QED BY <3>3, <3>4, <3>5
  <2>2. \A k \in 1..n : s[k] \in T
    OBVIOUS
  <2> QED BY <2>1, <2>2
<1>3. StrongRuns(s, Seq(T))
  BY <1>1, <1>2, StrongFold
<1>4. PICK h \in [0..n -> Seq(T)] :
         /\ h[0] = <<>> /\ \A k \in 1..n : h[k] = keepStrongest(h[k - 1], s[k])
         /\ strongestEdgePerNote(s) = h[n]
  BY <1>3 DEF StrongRuns
<1> DEFINE R == {k \in Nat : k <= n => BestOf(s, k, h[k])}
<1>5. 0 \in R
  BY <1>4 DEF BestOf, Apart
<1>6. ASSUME NEW k \in Nat, k \in R PROVE k + 1 \in R
  <2> SUFFICES ASSUME k + 1 <= n PROVE BestOf(s, k + 1, h[k + 1])
    OBVIOUS
  <2>1. k + 1 \in 1..n /\ (k + 1) - 1 = k /\ k \in 0..n /\ BestOf(s, k, h[k])
    BY <1>1, <1>6
  <2>2. h[k] \in Seq(T) /\ h[k + 1] = keepStrongest(h[k], s[k + 1])
    BY <1>4, <2>1
  <2> QED BY <2>1, <2>2, BestStep
<1>7. n \in R
  <2> HIDE DEF R
  <2> QED BY <1>1, <1>5, <1>6, NatInduct
<1>8. n \in 0..n
  BY <1>1
<1> QED BY <1>1, <1>4, <1>7, <1>8

-----------------------------------------------------------------------------
(* Candidates: what is within each number of links *)

\* The visible notes linked to one of q.
Beyond(db, drafts, q) == {id \in DOMAIN db.notes : Visible(db, id, drafts) /\ \E o \in q : Linked(db, o, id)}

\* near holds what is within each number of links of target.
NearOf(db, target, drafts, depth, near) ==
    /\ near[0] = {target}
    /\ \A k \in 1..depth : near[k] = near[k - 1] \cup Beyond(db, drafts, near[k - 1])

\* F is iterated from base.
Iterates(n, S, base, F) == \E h \in [0..n -> S] : h[0] = base /\ \A k \in 1..n : h[k] = F[<<h[k - 1], k>>]

LEMMA IterExists ==
    ASSUME NEW n \in Nat, NEW S, NEW base \in S, NEW F \in [S \X (1..n) -> S]
    PROVE  Iterates(n, S, base, F)
<1>1. PICK g : Folds(g, n, S, base, F)
  BY FoldExists
<1>2. /\ g \in [SUBSET (1..n) -> S]
      /\ \A s \in SUBSET (1..n) : g[s] = IF s = {} THEN base ELSE F[<<g[s \ {Max(s)}], Max(s)>>]
  BY <1>1 DEF Folds
<1>3. {} \in SUBSET (1..n)
  OBVIOUS
<1>4. g[{}] = base
  BY <1>2, <1>3
<1>5. Unfolds(g, n, S, base, F)
  BY <1>2, <1>4 DEF Unfolds
<1>6. RunsTo(g[1..n], n, S, base, F)
  BY <1>5, FoldIs
<1> QED BY <1>6 DEF RunsTo, Iterates

LEMMA NearExists ==
    ASSUME NEW db, NEW target \in DOMAIN db.notes, NEW drafts, NEW depth \in Nat
    PROVE  \E near \in [0..depth -> SUBSET DOMAIN db.notes] : NearOf(db, target, drafts, depth, near)
<1> DEFINE ids == DOMAIN db.notes
           S == SUBSET ids
           F == [p \in S \X (1..depth) |-> p[1] \cup Beyond(db, drafts, p[1])]
<1>1. \A q \in S : q \cup Beyond(db, drafts, q) \in S
  BY DEF Beyond
<1>2. F \in [S \X (1..depth) -> S]
  <2>1. \A p \in S \X (1..depth) : p[1] \in S
    OBVIOUS
  <2> HIDE DEF S
  <2> QED BY <1>1, <2>1
<1>3. {target} \in S
  OBVIOUS
<1>4. \A q \in S, k \in 1..depth : F[<<q, k>>] = q \cup Beyond(db, drafts, q)
  OBVIOUS
<1> HIDE DEF S, F
<1>5. PICK h \in [0..depth -> S] : h[0] = {target} /\ \A k \in 1..depth : h[k] = F[<<h[k - 1], k>>]
  <2> DEFINE base == {target}
  <2>1. base \in S
    BY <1>3
  <2> HIDE DEF base
  <2>2. Iterates(depth, S, base, F)
    BY <1>2, <2>1, IterExists
  <2> QED BY <2>2 DEF base, Iterates
<1>6. \A k \in 1..depth : h[k - 1] \in S
  <2>1. \A k \in 1..depth : k - 1 \in 0..depth
    OBVIOUS
  <2> QED BY <1>5, <2>1
<1>7. NearOf(db, target, drafts, depth, h)
  BY <1>4, <1>5, <1>6 DEF NearOf
<1> QED BY <1>5, <1>7 DEF S

LEMMA WithinIs ==
    ASSUME NEW db, NEW target \in DOMAIN db.notes, NEW drafts, NEW depth \in Nat
    PROVE  /\ NearOf(db, target, drafts, depth, Within(db, target, drafts, depth))
           /\ \A k \in 0..depth : Within(db, target, drafts, depth)[k] \in SUBSET DOMAIN db.notes
<1> DEFINE B(f) == [k \in 0..depth |->
                      IF k = 0 THEN {target}
                      ELSE f[k - 1] \cup {id \in DOMAIN db.notes :
                             /\ Visible(db, id, drafts)
                             /\ \E l \in ToSet(db.links), o \in f[k - 1] : {l.src, l.dst} = {o, id}}]
           near == Within(db, target, drafts, depth)
<1>1. near = CHOOSE f : f = B(f)
  BY DEF Within
<1>2. \A q : {id \in DOMAIN db.notes : Visible(db, id, drafts) /\ \E l \in ToSet(db.links), o \in q : {l.src, l.dst} = {o, id}}
             = Beyond(db, drafts, q)
  BY DEF Beyond, Linked, ToSet
<1>3. \A f : B(f) = [k \in 0..depth |-> IF k = 0 THEN {target} ELSE f[k - 1] \cup Beyond(db, drafts, f[k - 1])]
  BY <1>2
<1> HIDE DEF B, near
<1>4. PICK h \in [0..depth -> SUBSET DOMAIN db.notes] : NearOf(db, target, drafts, depth, h)
  BY NearExists
<1>5. h = B(h)
  <2>1. h[0] = {target} /\ \A k \in 1..depth : h[k] = h[k - 1] \cup Beyond(db, drafts, h[k - 1])
    BY <1>4 DEF NearOf
  <2>2. h = [k \in 0..depth |-> h[k]]
    BY <1>4
  <2>3. \A k \in 0..depth : h[k] = IF k = 0 THEN {target} ELSE h[k - 1] \cup Beyond(db, drafts, h[k - 1])
    BY <2>1
  <2>4. h = [k \in 0..depth |-> IF k = 0 THEN {target} ELSE h[k - 1] \cup Beyond(db, drafts, h[k - 1])]
    BY <2>2, <2>3
  <2> QED BY <2>4, <1>3
<1>6. near = B(near)
  BY <1>1, <1>5
<1>7. near = [k \in 0..depth |-> IF k = 0 THEN {target} ELSE near[k - 1] \cup Beyond(db, drafts, near[k - 1])]
  BY <1>3, <1>6
<1>8. \A k \in 0..depth : near[k] = IF k = 0 THEN {target} ELSE near[k - 1] \cup Beyond(db, drafts, near[k - 1])
  BY <1>7
<1>9. NearOf(db, target, drafts, depth, near)
  <2>1. 0 \in 0..depth /\ \A k \in 1..depth : k \in 0..depth /\ k # 0
    OBVIOUS
  <2> QED BY <1>8, <2>1 DEF NearOf
<1>10. ASSUME NEW k \in 0..depth PROVE near[k] \in SUBSET DOMAIN db.notes
  <2> DEFINE R == {m \in Nat : m <= depth => near[m] \in SUBSET DOMAIN db.notes}
  <2>1. 0 \in R
    <3>1. 0 \in 0..depth
      OBVIOUS
    <3>2. near[0] = {target}
      BY <1>8, <3>1
    <3> QED BY <3>2
  <2>2. ASSUME NEW m \in Nat, m \in R PROVE m + 1 \in R
    <3> SUFFICES ASSUME m + 1 <= depth PROVE near[m + 1] \in SUBSET DOMAIN db.notes
      OBVIOUS
    <3>1. m + 1 \in 0..depth /\ (m + 1) - 1 = m /\ m + 1 # 0 /\ m <= depth
      OBVIOUS
    <3>2. near[m + 1] = near[m] \cup Beyond(db, drafts, near[m])
      BY <1>8, <3>1
    <3> QED BY <2>2, <3>1, <3>2 DEF Beyond
  <2>3. k \in R
    <3> HIDE DEF R
    <3> QED BY <2>1, <2>2, NatInduct
  <2> QED BY <2>3
<1> QED BY <1>9, <1>10 DEF near

Nodes(E) == [edge : E, distance : Nat]

\* A queue that starts with the note it starts from.
Queues(E, start) ==
    {q \in Seq(Nodes(E \cup {[id |-> start]})) : q # <<>> /\ \A i \in 2..Len(q) : q[i] \in Nodes(E)}

LEMMA AppendQueue ==
    ASSUME NEW E, NEW start, NEW q \in Queues(E, start), NEW x \in Nodes(E)
    PROVE  Append(q, x) \in Queues(E, start)
<1> DEFINE U == Nodes(E \cup {[id |-> start]})
           r == Append(q, x)
<1>1. x \in U
  BY DEF Nodes
<1>2. q \in Seq(U) /\ \A i \in 2..Len(q) : q[i] \in Nodes(E)
  BY DEF Queues
<1> HIDE DEF U
<1>3. r \in Seq(U) /\ r # <<>> /\ Len(q) \in Nat /\ Len(r) = Len(q) + 1
  BY <1>1, <1>2
<1>4. ASSUME NEW i \in 2..Len(r) PROVE r[i] \in Nodes(E)
  <2>1. CASE i \in 2..Len(q)
    <3>1. r[i] = q[i]
      BY <2>1, <1>2
    <3> QED BY <3>1, <2>1, <1>2
  <2>2. CASE i = Len(q) + 1
    <3>1. r[i] = x
      BY <2>2, <1>2
    <3> QED BY <3>1
  <2> QED BY <2>1, <2>2, <1>3
<1> HIDE DEF r
<1>5. r \in Queues(E, start)
  BY <1>3, <1>4 DEF Queues, U
<1> QED BY <1>5 DEF r

LEMMA VisitTyped ==
    ASSUME NEW E, NEW start, NEW s \in Seq(E), NEW distance \in Nat, NEW nodes \in Queues(E, start)
    PROVE  VisitAll(nodes, s, distance) \in Queues(E, start)
<1>1. ASSUME NEW q \in Queues(E, start), NEW k \in 1..Len(s)
      PROVE  Visit(q, s[k], distance) \in Queues(E, start)
  <2> DEFINE x == [edge |-> s[k], distance |-> distance]
  <2>1. s[k] \in E
    OBVIOUS
  <2>2. x \in Nodes(E)
    BY <2>1 DEF Nodes
  <2>3. Visit(q, s[k], distance) \in {q, Append(q, x)}
    BY DEF Visit
  <2> HIDE DEF x
  <2> QED BY <2>2, <2>3, AppendQueue
<1>2. VisitRuns(nodes, s, distance, Queues(E, start))
  BY <1>1, VisitFold
<1> QED BY <1>2 DEF VisitRuns

Sole(q) == \A i, j \in DOMAIN q : q[i].edge.id = q[j].edge.id => i = j

\* r is q and, behind it, nodes at distance for those of the first n rows that lead elsewhere.
VisitsTo(q, s, n, distance, r) ==
    /\ Sole(r) /\ Len(q) <= Len(r) /\ \A i \in DOMAIN q : r[i] = q[i]
    /\ \A i \in DOMAIN r \ DOMAIN q : r[i].distance = distance /\ \E m \in 1..n : r[i].edge = s[m]
    /\ \A m \in 1..n : \E i \in DOMAIN r : r[i].edge.id = s[m].id

LEMMA VisitStep ==
    ASSUME NEW T, NEW q \in Seq(T), NEW r \in Seq(T), NEW s, NEW k \in Nat, NEW distance, VisitsTo(q, s, k, distance, r),
           [edge |-> s[k + 1], distance |-> distance] \in T
    PROVE  VisitsTo(q, s, k + 1, distance, Visit(r, s[k + 1], distance)) /\ Visit(r, s[k + 1], distance) \in Seq(T)
<1> DEFINE e == s[k + 1]
           x == [edge |-> e, distance |-> distance]
           a == Append(r, x)
<1>1. /\ Sole(r) /\ Len(q) <= Len(r) /\ \A i \in DOMAIN q : r[i] = q[i]
      /\ \A i \in DOMAIN r \ DOMAIN q : r[i].distance = distance /\ \E m \in 1..k : r[i].edge = s[m]
      /\ \A m \in 1..k : \E i \in DOMAIN r : r[i].edge.id = s[m].id
  BY DEF VisitsTo
<1>2. /\ \A m \in 1..(k + 1) : m \in 1..k \/ m = k + 1
      /\ k + 1 \in 1..(k + 1) /\ \A m \in 1..k : m \in 1..(k + 1)
  OBVIOUS
<1>3. CASE \E i \in DOMAIN r : r[i].edge.id = e.id
  <2>1. Visit(r, e, distance) = r
    BY <1>3 DEF Visit
  <2>2. \A m \in 1..(k + 1) : \E i \in DOMAIN r : r[i].edge.id = s[m].id
    BY <1>1, <1>2, <1>3
  <2>3. \A i \in DOMAIN r \ DOMAIN q : r[i].distance = distance /\ \E m \in 1..(k + 1) : r[i].edge = s[m]
    BY <1>1, <1>2
  <2> QED BY <1>1, <2>1, <2>2, <2>3 DEF VisitsTo
<1>4. CASE ~\E i \in DOMAIN r : r[i].edge.id = e.id
  <2>1. Visit(r, e, distance) = a
    BY <1>4 DEF Visit
  <2>2. x.edge = e /\ x.distance = distance /\ x \in T
    OBVIOUS
  <2> HIDE DEF x
  <2>3. /\ DOMAIN a = DOMAIN r \cup {Len(r) + 1} /\ a[Len(r) + 1] = x /\ \A i \in DOMAIN r : a[i] = r[i]
        /\ a \in Seq(T) /\ Len(a) = Len(r) + 1 /\ Len(r) \in Nat /\ Len(r) + 1 \notin DOMAIN r
    BY <2>2
  <2>4. \A i \in DOMAIN q : i \in DOMAIN r
    BY <1>1
  <2> HIDE DEF a
  <2>5. Sole(a)
    BY <1>1, <1>4, <2>2, <2>3 DEF Sole
  <2>6. ASSUME NEW i \in DOMAIN a \ DOMAIN q PROVE a[i].distance = distance /\ \E m \in 1..(k + 1) : a[i].edge = s[m]
    <3>1. CASE i \in DOMAIN r
      <4>1. i \in DOMAIN r \ DOMAIN q /\ a[i] = r[i]
        BY <3>1, <2>3
      <4>2. PICK m \in 1..k : r[i].distance = distance /\ r[i].edge = s[m]
        BY <4>1, <1>1
      <4> QED BY <4>1, <4>2, <1>2
    <3>2. CASE i = Len(r) + 1
      <4>1. a[i] = x
        BY <3>2, <2>3
      <4>2. a[i].distance = distance /\ a[i].edge = s[k + 1]
        BY <4>1, <2>2
      <4> QED BY <4>2, <1>2
    <3> QED BY <3>1, <3>2, <2>3
  <2>7. ASSUME NEW m \in 1..(k + 1) PROVE \E i \in DOMAIN a : a[i].edge.id = s[m].id
    <3>1. CASE m \in 1..k
      <4>1. PICK i \in DOMAIN r : r[i].edge.id = s[m].id
        BY <3>1, <1>1
      <4>2. i \in DOMAIN a /\ a[i] = r[i]
        BY <2>3
      <4> QED BY <4>1, <4>2
    <3>2. CASE m = k + 1
      <4>1. Len(r) + 1 \in DOMAIN a /\ a[Len(r) + 1].edge = s[k + 1]
        BY <2>2, <2>3
      <4> QED BY <3>2, <4>1
    <3> QED BY <3>1, <3>2, <1>2
  <2>8. Len(q) <= Len(a) /\ \A i \in DOMAIN q : a[i] = q[i]
    <3>1. Len(q) \in Nat
      OBVIOUS
    <3> QED BY <3>1, <1>1, <2>3, <2>4
  <2> QED BY <2>1, <2>3, <2>5, <2>6, <2>7, <2>8 DEF VisitsTo
<1> QED BY <1>3, <1>4

LEMMA VisitAllIs ==
    ASSUME NEW T, NEW q \in Seq(T), Sole(q), NEW E, NEW s \in Seq(E), NEW distance,
           \A e \in E : [edge |-> e, distance |-> distance] \in T
    PROVE  VisitsTo(q, s, Len(s), distance, VisitAll(q, s, distance))
<1> DEFINE n == Len(s)
<1>1. n \in Nat /\ \A k \in 1..n : s[k] \in E
  OBVIOUS
<1>2. ASSUME NEW r \in Seq(T), NEW k \in 1..n PROVE Visit(r, s[k], distance) \in Seq(T)
  <2> DEFINE x == [edge |-> s[k], distance |-> distance]
  <2>1. x \in T
    BY <1>1
  <2>2. Visit(r, s[k], distance) \in {r, Append(r, x)}
    BY DEF Visit
  <2> HIDE DEF x
  <2> QED BY <2>1, <2>2
<1>3. VisitRuns(q, s, distance, Seq(T))
  BY <1>2, VisitFold
<1>4. PICK h \in [0..n -> Seq(T)] :
         h[0] = q /\ (\A k \in 1..n : h[k] = Visit(h[k - 1], s[k], distance)) /\ VisitAll(q, s, distance) = h[n]
  BY <1>3 DEF VisitRuns
<1> DEFINE R == {k \in Nat : k <= n => VisitsTo(q, s, k, distance, h[k])}
<1>5. 0 \in R
  <2>1. Len(q) <= Len(q)
    OBVIOUS
  <2>2. VisitsTo(q, s, 0, distance, q)
    BY <2>1 DEF VisitsTo
  <2> QED BY <2>2, <1>4
<1>6. ASSUME NEW k \in Nat, k \in R PROVE k + 1 \in R
  <2> SUFFICES ASSUME k + 1 <= n PROVE VisitsTo(q, s, k + 1, distance, h[k + 1])
    OBVIOUS
  <2>1. k + 1 \in 1..n /\ (k + 1) - 1 = k /\ k \in 0..n /\ VisitsTo(q, s, k, distance, h[k])
    BY <1>1, <1>6
  <2>2. h[k] \in Seq(T) /\ h[k + 1] = Visit(h[k], s[k + 1], distance)
    BY <1>4, <2>1
  <2>3. [edge |-> s[k + 1], distance |-> distance] \in T
    BY <1>1, <2>1
  <2> QED BY <2>1, <2>2, <2>3, VisitStep
<1>7. n \in R
  <2> HIDE DEF R
  <2> QED BY <1>1, <1>5, <1>6, NatInduct
<1> QED BY <1>1, <1>4, <1>7

\* After k nodes of the queue: how far each note is, and that none behind was missed.
Reached(db, start, drafts, depth, near, k, q) ==
    /\ q \in Queues(Edges(DOMAIN db.notes), start) /\ Sole(q)
    /\ q[1].edge.id = start /\ q[1].distance = 0
    /\ \A i \in DOMAIN q : q[i].distance \in 0..depth /\ q[i].edge.id \in near[q[i].distance]
    /\ \A i, j \in DOMAIN q : i > k => q[j].distance <= q[i].distance + 1
    /\ \A i, j \in DOMAIN q : i <= j => q[i].distance <= q[j].distance
    /\ \A i \in DOMAIN q : i <= k /\ q[i].distance < depth =>
          \A o \in Beyond(db, drafts, {q[i].edge.id}) :
             \E j \in DOMAIN q : q[j].edge.id = o /\ q[j].distance <= q[i].distance + 1

LEMMA QueueFields ==
    ASSUME NEW ids, NEW start \in ids, NEW q \in Queues(Edges(ids), start)
    PROVE  /\ q \in Seq(Nodes(Edges(ids) \cup {[id |-> start]}))
           /\ DOMAIN q = 1..Len(q) /\ Len(q) \in Nat /\ Len(q) >= 1
           /\ \A i \in DOMAIN q : q[i].edge.id \in ids /\ q[i].distance \in Nat
<1> DEFINE E == Edges(ids)
           U == E \cup {[id |-> start]}
<1>1. \A e \in U : e.id \in ids
  <2>1. \A e \in E : e.id \in ids
    BY DEF Edges
  <2> HIDE DEF E
  <2> QED BY <2>1
<1>2. q \in Seq(Nodes(U)) /\ q # <<>>
  BY DEF Queues
<1> HIDE DEF U
<1>3. \A x \in Nodes(U) : x.edge \in U /\ x.distance \in Nat
  BY DEF Nodes
<1>4. \A i \in DOMAIN q : q[i] \in Nodes(U)
  BY <1>2
<1>5. DOMAIN q = 1..Len(q) /\ Len(q) \in Nat /\ Len(q) >= 1
  BY <1>2
<1> QED BY <1>1, <1>2, <1>3, <1>4, <1>5 DEF U

LEMMA ReachStep ==
    ASSUME NEW db, IsDb(db), NEW start \in DOMAIN db.notes, NEW drafts, NEW depth \in Nat,
           NEW near, NearOf(db, start, drafts, depth, near),
           NEW k \in Nat, NEW q, Reached(db, start, drafts, depth, near, k, q)
    PROVE  Reached(db, start, drafts, depth, near, k + 1, Expand(db, depth, drafts, q, k + 1))
<1> DEFINE ids == DOMAIN db.notes
           E == Edges(ids)
           T == Nodes(E \cup {[id |-> start]})
<1>1. /\ q \in Queues(E, start) /\ Sole(q) /\ q[1].edge.id = start /\ q[1].distance = 0
      /\ \A i \in DOMAIN q : q[i].distance \in 0..depth /\ q[i].edge.id \in near[q[i].distance]
      /\ \A i, j \in DOMAIN q : i > k => q[j].distance <= q[i].distance + 1
      /\ \A i, j \in DOMAIN q : i <= j => q[i].distance <= q[j].distance
      /\ \A i \in DOMAIN q : i <= k /\ q[i].distance < depth =>
            \A o \in Beyond(db, drafts, {q[i].edge.id}) :
               \E j \in DOMAIN q : q[j].edge.id = o /\ q[j].distance <= q[i].distance + 1
  BY DEF Reached
<1>2. /\ q \in Seq(T) /\ DOMAIN q = 1..Len(q) /\ Len(q) \in Nat /\ Len(q) >= 1
      /\ \A i \in DOMAIN q : q[i].edge.id \in ids /\ q[i].distance \in Nat
  <2>1. start \in ids /\ q \in Queues(Edges(ids), start)
    BY <1>1
  <2> HIDE DEF ids
  <2> QED BY <2>1, QueueFields
<1>3. CASE k + 1 > Len(q) \/ q[k + 1].distance >= depth
  <2>1. Expand(db, depth, drafts, q, k + 1) = q
    BY <1>3 DEF Expand
  <2>2. ASSUME NEW i \in DOMAIN q, i <= k + 1, q[i].distance < depth PROVE i <= k
    <3>1. CASE k + 1 > Len(q)
      BY <3>1, <1>2
    <3>2. CASE q[k + 1].distance >= depth
      <4>1. i # k + 1
        BY <2>2, <3>2, <1>2
      <4> QED BY <4>1, <2>2, <1>2
    <3> QED BY <3>1, <3>2, <1>3
  <2>3. \A i \in DOMAIN q : i > k + 1 => i > k
    BY <1>2
  <2>4. \A i \in DOMAIN q : i <= k + 1 /\ q[i].distance < depth =>
            \A o \in Beyond(db, drafts, {q[i].edge.id}) :
               \E j \in DOMAIN q : q[j].edge.id = o /\ q[j].distance <= q[i].distance + 1
    BY <1>1, <2>2
  <2> QED BY <1>1, <2>1, <2>3, <2>4 DEF Reached
<1>4. CASE ~(k + 1 > Len(q)) /\ ~(q[k + 1].distance >= depth)
  <2> DEFINE id == q[k + 1].edge.id
             c == q[k + 1].distance
             d == c + 1
             s == queryNeighbors(db, id, drafts)
             r == VisitAll(q, s, d)
  <2>1. Expand(db, depth, drafts, q, k + 1) = r
    BY <1>4 DEF Expand
  <2>2. k + 1 \in DOMAIN q
    BY <1>2, <1>4
  <2>3. id \in ids /\ c \in Nat /\ d \in 0..depth /\ d - 1 = c /\ d \in 1..depth /\ id \in near[c]
    <3>1. id \in ids /\ c \in Nat /\ id \in near[c]
      BY <1>1, <1>2, <2>2
    <3>2. c < depth
      BY <3>1, <1>4
    <3> QED BY <3>1, <3>2
  <2>4. /\ \A j \in DOMAIN q : q[j].distance <= d
        /\ \A i \in DOMAIN q : i > k => c <= q[i].distance
    <3>1. k + 1 > k /\ \A i \in DOMAIN q : i > k => k + 1 <= i
      BY <1>2
    <3> QED BY <3>1, <1>1, <2>2
  <2>5. s \in Seq(E) /\ \A o : Leads(s, o) <=> Visible(db, o, drafts) /\ Linked(db, id, o)
    <3>1. id \in DOMAIN db.notes
      BY <2>3
    <3> HIDE DEF id
    <3> QED BY <3>1, NeighborsTyped, NeighborIds
  <2> HIDE DEF s, id, c
  <2>6. r \in Queues(E, start)
    BY <1>1, <2>3, <2>5, VisitTyped
  <2>7. VisitsTo(q, s, Len(s), d, r)
    <3>1. \A e \in E : [edge |-> e, distance |-> d] \in T
      BY <2>3 DEF Nodes
    <3> HIDE DEF d, T, E
    <3> QED BY <1>1, <1>2, <2>5, <3>1, VisitAllIs
  <2>8. /\ Sole(r) /\ Len(q) <= Len(r) /\ \A i \in DOMAIN q : r[i] = q[i]
        /\ \A i \in DOMAIN r \ DOMAIN q : r[i].distance = d /\ \E m \in 1..Len(s) : r[i].edge = s[m]
        /\ \A m \in 1..Len(s) : \E i \in DOMAIN r : r[i].edge.id = s[m].id
    BY <2>7 DEF VisitsTo
  <2> HIDE DEF r
  <2>9. DOMAIN r = 1..Len(r) /\ Len(r) \in Nat /\ \A i \in DOMAIN r : r[i].edge.id \in ids
    BY <2>6, QueueFields
  <2>10. \A i \in DOMAIN q : i \in DOMAIN r
    BY <1>2, <2>8, <2>9
  <2>11. 1 \in DOMAIN q
    BY <1>2
  <2>12. ASSUME NEW i \in DOMAIN r \ DOMAIN q PROVE r[i].distance = d /\ r[i].edge.id \in near[d]
    <3>1. PICK m \in 1..Len(s) : r[i].edge = s[m]
      BY <2>8
    <3>2. Leads(s, r[i].edge.id)
      <4>1. m \in DOMAIN s /\ s[m].id = r[i].edge.id
        BY <3>1, <2>5
      <4> QED BY <4>1 DEF Leads
    <3>3. r[i].edge.id \in Beyond(db, drafts, near[c])
      BY <3>2, <2>3, <2>5, <2>9 DEF Beyond
    <3>4. near[d] = near[d - 1] \cup Beyond(db, drafts, near[d - 1])
      BY <2>3 DEF NearOf
    <3> QED BY <3>3, <3>4, <2>3, <2>8
  <2>13. \A i \in DOMAIN r : r[i].distance \in 0..depth /\ r[i].edge.id \in near[r[i].distance]
    <3>1. ASSUME NEW i \in DOMAIN q PROVE r[i].distance \in 0..depth /\ r[i].edge.id \in near[r[i].distance]
      BY <1>1, <2>8
    <3> QED BY <3>1, <2>3, <2>12
  <2>14. \A j \in DOMAIN r : r[j].distance \in Nat /\ r[j].distance <= d
    <3>1. ASSUME NEW j \in DOMAIN q PROVE r[j].distance <= d
      BY <2>4, <2>8
    <3>2. ASSUME NEW j \in DOMAIN r PROVE r[j].distance <= d
      <4>1. CASE j \in DOMAIN q
        BY <3>1, <4>1
      <4>2. CASE j \notin DOMAIN q
        <5>1. r[j].distance = d
          BY <4>2, <2>12
        <5> QED BY <5>1, <2>3
      <4> QED BY <4>1, <4>2
    <3>3. \A j \in DOMAIN r : r[j].distance \in Nat
      BY <2>13
    <3> QED BY <3>2, <3>3
  <2>15. ASSUME NEW i \in DOMAIN r, i > k PROVE c <= r[i].distance
    <3>1. CASE i \in DOMAIN q
      BY <3>1, <2>4, <2>8, <2>15
    <3>2. CASE i \notin DOMAIN q
      <4>1. r[i].distance = d
        BY <3>2, <2>12
      <4> QED BY <4>1, <2>3
    <3> QED BY <3>1, <3>2
  <2>16. ASSUME NEW i \in DOMAIN r, NEW j \in DOMAIN r, i > k + 1 PROVE r[j].distance <= r[i].distance + 1
    <3>1. i > k
      BY <2>9, <2>16
    <3>2. c <= r[i].distance /\ r[j].distance <= d /\ r[i].distance \in Nat /\ r[j].distance \in Nat
      BY <3>1, <2>14, <2>15
    <3> QED BY <3>2, <2>3
  <2>17. ASSUME NEW i \in DOMAIN r, NEW j \in DOMAIN r, i <= j PROVE r[i].distance <= r[j].distance
    <3>1. CASE j \in DOMAIN q
      <4>1. i \in DOMAIN q
        BY <3>1, <1>2, <2>9, <2>17
      <4>2. r[i] = q[i] /\ r[j] = q[j] /\ q[i].distance <= q[j].distance
        BY <3>1, <4>1, <1>1, <2>8, <2>17
      <4> QED BY <4>2
    <3>2. CASE j \notin DOMAIN q
      <4>1. r[j].distance = d
        BY <3>2, <2>12
      <4> QED BY <4>1, <2>14
    <3> QED BY <3>1, <3>2
  <2>18. ASSUME NEW i \in DOMAIN r, i <= k + 1, r[i].distance < depth,
                NEW o \in Beyond(db, drafts, {r[i].edge.id})
         PROVE  \E j \in DOMAIN r : r[j].edge.id = o /\ r[j].distance <= r[i].distance + 1
    <3>1. i \in DOMAIN q /\ r[i] = q[i]
      <4>1. i \in DOMAIN q
        BY <1>2, <1>4, <2>9, <2>18
      <4> QED BY <4>1, <2>8
    <3>2. CASE i <= k
      <4>1. PICK j \in DOMAIN q : q[j].edge.id = o /\ q[j].distance <= q[i].distance + 1
        BY <3>1, <3>2, <1>1, <2>18
      <4>2. j \in DOMAIN r /\ r[j] = q[j]
        BY <2>8, <2>10
      <4> QED BY <4>1, <4>2, <3>1
    <3>3. CASE ~(i <= k)
      <4>1. i = k + 1
        BY <3>1, <3>3, <1>2, <2>18
      <4>2. r[i].edge.id = id /\ r[i].distance = c
        BY <3>1, <4>1 DEF id, c
      <4>3. Leads(s, o)
        BY <4>2, <2>5, <2>18 DEF Beyond
      <4>4. PICK m \in 1..Len(s) : s[m].id = o
        BY <4>3, <2>5 DEF Leads
      <4>5. PICK j \in DOMAIN r : r[j].edge.id = o
        BY <4>4, <2>8
      <4> QED BY <4>2, <4>5, <2>14
    <3> QED BY <3>2, <3>3
  <2>19. r[1].edge.id = start /\ r[1].distance = 0
    BY <1>1, <2>8, <2>11
  <2> HIDE DEF E
  <2>20. Reached(db, start, drafts, depth, near, k + 1, r)
    BY <2>6, <2>8, <2>13, <2>16, <2>17, <2>18, <2>19 DEF Reached, E
  <2> QED BY <2>1, <2>20
<1> QED BY <1>3, <1>4

LEMMA QueueReached ==
    ASSUME NEW db, IsDb(db), NEW start \in DOMAIN db.notes, NEW drafts, NEW depth \in Nat,
           NEW near, NearOf(db, start, drafts, depth, near)
    PROVE  Reached(db, start, drafts, depth, near, Cardinality(DOMAIN db.notes), Traverse(db, start, depth, drafts))
<1> DEFINE E == Edges(DOMAIN db.notes)
           T == Nodes(E \cup {[id |-> start]})
           n == Cardinality(DOMAIN db.notes)
           base == <<[edge |-> [id |-> start], distance |-> 0]>>
           S == {q \in Queues(E, start) : \E k \in Nat : Reached(db, start, drafts, depth, near, k, q)}
           P(k, q) == Reached(db, start, drafts, depth, near, k, q)
           U == {q \in Seq(T) : TRUE}
<1>1. n \in Nat
  BY FS_CardinalityType DEF IsDb
<1>2. P(0, base)
  <2>1. base \in Queues(E, start)
    BY DEF Queues, Nodes
  <2>2. DOMAIN base = {1} /\ base[1].edge.id = start /\ base[1].distance = 0
    OBVIOUS
  <2>3. start \in near[0]
    BY DEF NearOf
  <2> HIDE DEF base, E
  <2> QED BY <2>1, <2>2, <2>3 DEF Reached, Sole, E
<1>3. \A k, q : P(k, q) => q \in Queues(E, start)
  BY DEF Reached
<1>4. ASSUME NEW q \in Queues(E, start), NEW k \in 1..n PROVE Expand(db, depth, drafts, q, k) \in Queues(E, start)
  <2>1. CASE k > Len(q) \/ q[k].distance >= depth
    BY <2>1 DEF Expand
  <2>2. CASE ~(k > Len(q)) /\ ~(q[k].distance >= depth)
    <3> DEFINE id == q[k].edge.id
               s == queryNeighbors(db, id, drafts)
               d == q[k].distance + 1
    <3>1. Expand(db, depth, drafts, q, k) = VisitAll(q, s, d)
      BY <2>2 DEF Expand
    <3>2. DOMAIN q = 1..Len(q) /\ Len(q) \in Nat /\ \A i \in DOMAIN q : q[i].edge.id \in DOMAIN db.notes /\ q[i].distance \in Nat
      BY QueueFields
    <3>3. k \in DOMAIN q
      BY <2>2, <3>2, <1>1
    <3>4. id \in DOMAIN db.notes /\ d \in Nat
      BY <3>2, <3>3
    <3> HIDE DEF id, d
    <3>5. s \in Seq(E)
      BY <3>4, NeighborsTyped
    <3> HIDE DEF s, E
    <3>6. VisitAll(q, s, d) \in Queues(E, start)
      BY <3>4, <3>5, VisitTyped
    <3> QED BY <3>1, <3>6
  <2> QED BY <2>1, <2>2
<1> DEFINE Q == Queues(E, start)
<1>5. QueueRuns(db, start, depth, drafts, Q)
  <2>1. base \in Q
    BY <1>2, <1>3
  <2> HIDE DEF Q
  <2>2. \A q \in Q, k \in 1..n : Expand(db, depth, drafts, q, k) \in Q
    BY <1>4 DEF Q
  <2> QED BY <1>1, <2>1, <2>2, QueueFold
<1>6. PICK h \in [0..n -> Q] :
         /\ h[0] = base
         /\ \A k \in 1..n : h[k] = Expand(db, depth, drafts, h[k - 1], k)
         /\ Traverse(db, start, depth, drafts) = h[n]
  BY <1>5 DEF QueueRuns
<1> HIDE DEF base, n
<1> DEFINE R == {k \in Nat : k <= n => P(k, h[k])}
<1>7. 0 \in R
  BY <1>2, <1>6
<1>8. ASSUME NEW k \in Nat, k \in R PROVE k + 1 \in R
  <2> SUFFICES ASSUME k + 1 <= n PROVE P(k + 1, h[k + 1])
    OBVIOUS
  <2>1. k + 1 \in 1..n /\ (k + 1) - 1 = k /\ P(k, h[k])
    BY <1>1, <1>8
  <2>2. h[k + 1] = Expand(db, depth, drafts, h[k], k + 1)
    BY <1>6, <2>1
  <2> QED BY <2>1, <2>2, ReachStep
<1>9. n \in R
  <2> HIDE DEF R
  <2> QED BY <1>1, <1>7, <1>8, NatInduct
<1> QED BY <1>1, <1>6, <1>9 DEF n

\* q holds the notes near start, each at its distance.
Tours(start, depth, near, q) ==
    /\ Sole(q) /\ q[1].edge.id = start /\ q[1].distance = 0
    /\ \A i \in DOMAIN q : q[i].distance \in 0..depth /\ q[i].edge.id \in near[q[i].distance]
    /\ \A k \in 0..depth : \A id \in near[k] : \E i \in DOMAIN q : q[i].edge.id = id /\ q[i].distance <= k

\* A queue that names no note twice has no more nodes than there are notes.
LEMMA SoleShort ==
    ASSUME NEW ids, IsFiniteSet(ids), NEW q, NEW n \in Nat, DOMAIN q = 1..n, Sole(q), \A i \in 1..n : q[i].edge.id \in ids
    PROVE  n <= Cardinality(ids)
<1> DEFINE f == [i \in 1..n |-> q[i].edge.id]
<1>1. IsFiniteSet(1..n) /\ Cardinality(1..n) = n /\ Cardinality(ids) \in Nat
  BY FS_Interval, FS_CardinalityType
<1>2. f \in [1..n -> ids]
  OBVIOUS
<1>3. \A x, y \in 1..n : f[x] = f[y] => x = y
  BY DEF Sole
<1> HIDE DEF f
<1>4. ASSUME Cardinality(ids) < n PROVE FALSE
  <2>1. \E x, y \in 1..n : x # y /\ f[x] = f[y]
    BY <1>1, <1>2, <1>4, FS_PigeonHole
  <2> QED BY <2>1, <1>3
<1> QED BY <1>1, <1>4

LEMMA TraverseTours ==
    ASSUME NEW db, IsDb(db), NEW start \in DOMAIN db.notes, NEW drafts, NEW depth \in Nat,
           NEW near, NearOf(db, start, drafts, depth, near)
    PROVE  Tours(start, depth, near, Traverse(db, start, depth, drafts))
<1> DEFINE ids == DOMAIN db.notes
           n == Cardinality(ids)
           q == Traverse(db, start, depth, drafts)
<1>1. Reached(db, start, drafts, depth, near, n, q)
  BY QueueReached
<1> HIDE DEF q
<1>2. /\ q \in Queues(Edges(ids), start) /\ Sole(q) /\ q[1].edge.id = start /\ q[1].distance = 0
      /\ \A i \in DOMAIN q : q[i].distance \in 0..depth /\ q[i].edge.id \in near[q[i].distance]
      /\ \A i \in DOMAIN q : i <= n /\ q[i].distance < depth =>
            \A o \in Beyond(db, drafts, {q[i].edge.id}) :
               \E j \in DOMAIN q : q[j].edge.id = o /\ q[j].distance <= q[i].distance + 1
  BY <1>1 DEF Reached
<1>3. /\ DOMAIN q = 1..Len(q) /\ Len(q) \in Nat /\ Len(q) >= 1
      /\ \A i \in DOMAIN q : q[i].edge.id \in ids /\ q[i].distance \in Nat
  <2>1. start \in ids /\ q \in Queues(Edges(ids), start)
    BY <1>2
  <2> HIDE DEF ids
  <2> QED BY <2>1, QueueFields
<1>4. IsFiniteSet(ids) /\ n \in Nat
  BY FS_CardinalityType DEF IsDb
<1>5. Len(q) <= n
  <2> HIDE DEF ids
  <2> QED BY <1>2, <1>3, <1>4, SoleShort DEF n
<1>6. \A i \in DOMAIN q : i <= n
  BY <1>3, <1>4, <1>5
<1> HIDE DEF n
<1> DEFINE P(k) == \A id \in near[k] : \E i \in DOMAIN q : q[i].edge.id = id /\ q[i].distance <= k
           R == {k \in Nat : k <= depth => P(k)}
<1>7. 0 \in R
  <2>1. near[0] = {start}
    BY DEF NearOf
  <2>2. 1 \in DOMAIN q /\ q[1].distance <= 0
    BY <1>2, <1>3
  <2> QED BY <1>2, <2>1, <2>2
<1>8. ASSUME NEW k \in Nat, k \in R PROVE k + 1 \in R
  <2> SUFFICES ASSUME k + 1 <= depth, NEW id \in near[k + 1]
               PROVE  \E i \in DOMAIN q : q[i].edge.id = id /\ q[i].distance <= k + 1
    OBVIOUS
  <2>1. k + 1 \in 1..depth /\ (k + 1) - 1 = k /\ k < depth /\ P(k)
    BY <1>8
  <2>2. near[k + 1] = near[k] \cup Beyond(db, drafts, near[k])
    <3>1. \A m \in 1..depth : near[m] = near[m - 1] \cup Beyond(db, drafts, near[m - 1])
      BY DEF NearOf
    <3> QED BY <2>1, <3>1
  <2>3. CASE id \in near[k]
    <3>1. PICK i \in DOMAIN q : q[i].edge.id = id /\ q[i].distance <= k
      BY <2>1, <2>3
    <3>2. q[i].distance \in Nat
      BY <1>3
    <3> QED BY <3>1, <3>2
  <2>4. CASE id \in Beyond(db, drafts, near[k])
    <3>1. PICK o \in near[k] : id \in ids /\ Visible(db, id, drafts) /\ Linked(db, o, id)
      BY <2>4 DEF Beyond
    <3>2. PICK i \in DOMAIN q : q[i].edge.id = o /\ q[i].distance <= k
      BY <2>1
    <3>3. q[i].distance \in Nat /\ q[i].distance < depth /\ i <= n
      BY <1>3, <1>6, <2>1, <3>2
    <3>4. id \in Beyond(db, drafts, {q[i].edge.id})
      BY <3>1, <3>2 DEF Beyond
    <3>5. PICK j \in DOMAIN q : q[j].edge.id = id /\ q[j].distance <= q[i].distance + 1
      BY <1>2, <3>3, <3>4
    <3>6. q[j].distance <= k + 1
      <4>1. q[j].distance \in Nat
        BY <1>3
      <4> QED BY <4>1, <3>2, <3>3, <3>5
    <3> QED BY <3>5, <3>6
  <2> QED BY <2>2, <2>3, <2>4
<1>9. \A k \in 0..depth : P(k)
  <2>1. \A k \in Nat : k \in R
    <3> HIDE DEF R
    <3> QED BY <1>7, <1>8, NatInduct
  <2> QED BY <2>1
<1> QED BY <1>2, <1>9 DEF Tours, q

-----------------------------------------------------------------------------
(* Candidates: sorted *)

\* rank tells the members of 1..n apart, in the order R, and every rank is taken.
Ranks(n, R, rank) ==
    /\ \A i \in 1..n : rank[i] \in 0..(n - 1)
    /\ \A i, j \in 1..n : <<i, j>> \in R => rank[i] < rank[j]
    /\ \A i, j \in 1..n : rank[i] = rank[j] => i = j
    /\ \A k \in 1..n : \E i \in 1..n : rank[i] = k - 1

\* Ranks by a strict order on 1..n are 0 to n - 1.
LEMMA RankOnto ==
    ASSUME NEW n \in Nat, NEW R,
           \A i \in 1..n : <<i, i>> \notin R,
           \A i, j, k \in 1..n : <<i, j>> \in R /\ <<j, k>> \in R => <<i, k>> \in R,
           \A i, j \in 1..n : i # j => <<i, j>> \in R \/ <<j, i>> \in R,
           NEW rank, \A i \in 1..n : rank[i] = Cardinality({j \in 1..n : <<j, i>> \in R})
    PROVE  Ranks(n, R, rank)
<1> DEFINE below == [i \in 1..n |-> {j \in 1..n : <<j, i>> \in R}]
<1>1. IsFiniteSet(1..n) /\ Cardinality(1..n) = n
  BY FS_Interval
<1>2. /\ \A i \in 1..n : below[i] \in SUBSET (1..n)
      /\ \A i \in 1..n : rank[i] = Cardinality(below[i])
      /\ \A i, j \in 1..n : j \in below[i] <=> <<j, i>> \in R
  OBVIOUS
<1> HIDE DEF below
<1>3. \A i \in 1..n : IsFiniteSet(below[i]) /\ rank[i] \in Nat
  <2>1. ASSUME NEW i \in 1..n PROVE IsFiniteSet(below[i])
    <3>1. below[i] \in SUBSET (1..n)
      BY <1>2
    <3> QED BY <1>1, <3>1, FS_Subset
  <2>2. ASSUME NEW i \in 1..n PROVE Cardinality(below[i]) \in Nat
    BY <2>1, FS_CardinalityType
  <2> QED BY <1>2, <2>1, <2>2
<1>4. ASSUME NEW i \in 1..n, NEW j \in 1..n, <<i, j>> \in R PROVE rank[i] < rank[j]
  <2>1. \A k \in 1..n : k \in below[i] => k \in below[j]
    BY <1>2, <1>4
  <2>2. below[i] \in SUBSET below[j]
    BY <1>2, <2>1
  <2>3. i \in below[j] /\ i \notin below[i]
    BY <1>2, <1>4
  <2>4. IsFiniteSet(below[j])
    BY <1>3
  <2>5. /\ Cardinality(below[i]) <= Cardinality(below[j])
        /\ Cardinality(below[j]) = Cardinality(below[i]) => below[j] = below[i]
    BY <2>2, <2>4, FS_Subset
  <2>6. rank[i] <= rank[j] /\ rank[i] # rank[j]
    BY <1>2, <2>3, <2>5
  <2> QED BY <2>6, <1>3
<1>5. \A i, j \in 1..n : rank[i] = rank[j] => i = j
  <2>1. \A i, j \in 1..n : <<i, j>> \in R => rank[i] # rank[j]
    BY <1>3, <1>4
  <2> QED BY <2>1
<1>6. \A i \in 1..n : rank[i] \in 0..(n - 1)
  <2>1. ASSUME NEW i \in 1..n PROVE rank[i] < n
    <3>1. below[i] \in SUBSET (1..n) /\ i \notin below[i]
      BY <1>2
    <3>2. /\ Cardinality(below[i]) <= Cardinality(1..n)
          /\ Cardinality(1..n) = Cardinality(below[i]) => 1..n = below[i]
      BY <1>1, <3>1, FS_Subset
    <3>3. rank[i] <= n /\ rank[i] # n
      BY <1>1, <1>2, <3>1, <3>2
    <3> QED BY <1>3, <3>3
  <2> QED BY <1>3, <2>1
<1>7. ASSUME NEW k \in 1..n, \A i \in 1..n : rank[i] # k - 1 PROVE FALSE
  <2> DEFINE T == (0..(n - 1)) \ {k - 1}
             f == [i \in 1..n |-> rank[i]]
  <2>1. IsFiniteSet(0..(n - 1)) /\ Cardinality(0..(n - 1)) = n
    BY FS_Interval
  <2>2. k - 1 \in 0..(n - 1)
    OBVIOUS
  <2>3. IsFiniteSet(T) /\ Cardinality(T) = n - 1
    <3> DEFINE U == 0..(n - 1)
               x == k - 1
    <3>1. IsFiniteSet(U) /\ Cardinality(U) = n /\ x \in U
      BY <2>1, <2>2
    <3> HIDE DEF U, x
    <3>2. IsFiniteSet(U \ {x}) /\ Cardinality(U \ {x}) = n - 1
      BY <3>1, FS_RemoveElement
    <3> QED BY <3>2 DEF U, x
  <2>4. \A i \in 1..n : rank[i] \in T
    BY <1>6, <1>7
  <2>5. f \in [1..n -> T]
    BY <2>4
  <2>6. \A x, y \in 1..n : f[x] = f[y] => x = y
    BY <1>5
  <2> HIDE DEF T, f
  <2>7. n - 1 < n
    OBVIOUS
  <2>8. \E x, y \in 1..n : x # y /\ f[x] = f[y]
    BY <1>1, <2>3, <2>5, <2>7, FS_PigeonHole
  <2> QED BY <2>6, <2>8
<1> QED BY <1>4, <1>5, <1>6, <1>7 DEF Ranks

\* x goes before y, wherever they stood.
Ahead(db, activation, x, y) ==
    \/ x.priority < y.priority
    \/ /\ x.priority = y.priority
       /\ \/ activation[x.edge.id] > activation[y.edge.id]
          \/ /\ activation[x.edge.id] = activation[y.edge.id]
             /\ db.notes[x.edge.id].updated > db.notes[y.edge.id].updated

\* sorted holds the edges of cands, each once, none behind one it goes before.
SortedBy(db, cands, activation, sorted) ==
    \E at \in [1..Len(cands) -> 1..Len(cands)] :
       /\ \A k, m \in 1..Len(cands) : at[k] = at[m] => k = m
       /\ \A i \in 1..Len(cands) : \E k \in 1..Len(cands) : at[k] = i
       /\ Len(sorted) = Len(cands) /\ \A k \in 1..Len(cands) : sorted[k] = cands[at[k]].edge
       /\ \A k, m \in 1..Len(cands) : Ahead(db, activation, cands[at[k]], cands[at[m]]) => k < m

\* Sorting loses no candidate and doubles none.
LEMMA SortTyped ==
    ASSUME NEW E, NEW db, NEW cands \in Seq(Cands(E)), NEW activation,
           \A i \in DOMAIN cands : /\ activation[cands[i].edge.id] \in Int
                                   /\ db.notes[cands[i].edge.id].updated \in Int
    PROVE  LET sorted == enrichAndSortCandidates(db, cands, activation)
           IN  /\ sorted \in Seq(E) /\ SortedBy(db, cands, activation, sorted)
               /\ (\A i, j \in DOMAIN cands : cands[i].edge.id = cands[j].edge.id => i = j) => Apart(sorted)
<1> DEFINE n == Len(cands)
           act(i) == activation[cands[i].edge.id]
           upd(i) == db.notes[cands[i].edge.id].updated
           pri(i) == cands[i].priority
           Before(i, j) ==
             \/ pri(i) < pri(j)
             \/ /\ pri(i) = pri(j)
                /\ \/ act(i) > act(j)
                   \/ act(i) = act(j) /\ upd(i) > upd(j)
                   \/ act(i) = act(j) /\ upd(i) = upd(j) /\ i < j
           At(k) == CHOOSE i \in DOMAIN cands : Cardinality({j \in DOMAIN cands : Before(j, i)}) = k - 1
           sorted == [k \in DOMAIN cands |-> cands[At(k)].edge]
           R == {p \in (1..n) \X (1..n) : Before(p[1], p[2])}
           rank == [i \in 1..n |-> Cardinality({j \in 1..n : <<j, i>> \in R})]
<1>1. enrichAndSortCandidates(db, cands, activation) = sorted
  BY DEF enrichAndSortCandidates
<1>2. n \in Nat /\ DOMAIN cands = 1..n
  OBVIOUS
<1>3. \A i \in 1..n : pri(i) \in Int /\ act(i) \in Int /\ upd(i) \in Int /\ cands[i].edge \in E
  <2>1. ASSUME NEW i \in 1..n PROVE cands[i] \in Cands(E)
    OBVIOUS
  <2>2. \A i \in 1..n : cands[i].priority \in Int /\ cands[i].edge \in E
    BY <2>1 DEF Cands
  <2>3. \A i \in 1..n : activation[cands[i].edge.id] \in Int /\ db.notes[cands[i].edge.id].updated \in Int
    OBVIOUS
  <2> QED BY <2>2, <2>3
<1>a. \A i, j \in 1..n : Ahead(db, activation, cands[i], cands[j]) => Before(i, j)
  BY DEF Ahead
<1> HIDE DEF n, act, upd, pri
<1>4. \A i, j \in 1..n : <<i, j>> \in R <=> Before(i, j)
  OBVIOUS
<1>5. \A i \in 1..n : ~Before(i, i)
  BY <1>2, <1>3
<1>6. \A i, j, k \in 1..n : Before(i, j) /\ Before(j, k) => Before(i, k)
  <2> SUFFICES ASSUME NEW i \in 1..n, NEW j \in 1..n, NEW k \in 1..n, Before(i, j), Before(j, k) PROVE Before(i, k)
    OBVIOUS
  <2>1. i \in Int /\ j \in Int /\ k \in Int
    BY <1>2
  <2>2. pri(i) \in Int /\ pri(j) \in Int /\ pri(k) \in Int
    BY <1>3
  <2>3. act(i) \in Int /\ act(j) \in Int /\ act(k) \in Int /\ upd(i) \in Int /\ upd(j) \in Int /\ upd(k) \in Int
    BY <1>3
  <2>4. CASE pri(i) < pri(j)
    BY <2>2, <2>4
  <2>5. CASE pri(i) = pri(j) /\ pri(j) < pri(k)
    BY <2>2, <2>5
  <2>6. CASE pri(i) = pri(j) /\ pri(j) = pri(k)
    BY <2>1, <2>2, <2>3, <2>6
  <2> QED BY <2>2, <2>4, <2>5, <2>6
<1>7. \A i, j \in 1..n : i # j => Before(i, j) \/ Before(j, i)
  BY <1>2, <1>3
<1> HIDE DEF Before, R
<1>8. \A i \in 1..n : rank[i] = Cardinality({j \in 1..n : <<j, i>> \in R})
  OBVIOUS
<1>9. \A i \in 1..n : {j \in 1..n : <<j, i>> \in R} = {j \in DOMAIN cands : Before(j, i)}
  BY <1>2, <1>4
<1>10. \A i \in 1..n : rank[i] = Cardinality({j \in DOMAIN cands : Before(j, i)})
  BY <1>8, <1>9
<1> HIDE DEF rank
<1>11. /\ \A i \in 1..n : rank[i] \in 0..(n - 1)
       /\ \A i, j \in 1..n : Before(i, j) => rank[i] < rank[j]
       /\ \A i, j \in 1..n : rank[i] = rank[j] => i = j
       /\ \A k \in 1..n : \E i \in 1..n : rank[i] = k - 1
  <2>1. \A i \in 1..n : <<i, i>> \notin R
    BY <1>4, <1>5
  <2>2. \A i, j, k \in 1..n : <<i, j>> \in R /\ <<j, k>> \in R => <<i, k>> \in R
    BY <1>4, <1>6
  <2>3. \A i, j \in 1..n : i # j => <<i, j>> \in R \/ <<j, i>> \in R
    BY <1>4, <1>7
  <2>4. Ranks(n, R, rank)
    BY <1>2, <1>8, <2>1, <2>2, <2>3, RankOnto
  <2> QED BY <2>4, <1>4 DEF Ranks
<1>12. ASSUME NEW k \in 1..n PROVE At(k) \in 1..n /\ rank[At(k)] = k - 1
  <2>1. \E i \in DOMAIN cands : Cardinality({j \in DOMAIN cands : Before(j, i)}) = k - 1
    BY <1>2, <1>10, <1>11
  <2>2. At(k) \in DOMAIN cands /\ Cardinality({j \in DOMAIN cands : Before(j, At(k))}) = k - 1
    BY <2>1
  <2> HIDE DEF At
  <2> QED BY <2>2, <1>2, <1>10
<1> HIDE DEF At
<1>13. ASSUME NEW k \in 1..n, NEW m \in 1..n, At(k) = At(m) PROVE k = m
  <2>1. rank[At(k)] = k - 1 /\ rank[At(m)] = m - 1
    BY <1>12
  <2>2. k - 1 = m - 1
    BY <2>1, <1>13
  <2> QED BY <2>2
<1>14. \A k \in 1..n : sorted[k] = cands[At(k)].edge /\ sorted[k] \in E
  BY <1>2, <1>3, <1>12
<1>15. sorted \in Seq(E)
  BY <1>2, <1>14
<1>16. ASSUME \A i, j \in DOMAIN cands : cands[i].edge.id = cands[j].edge.id => i = j
       PROVE  Apart(sorted)
  <2>1. DOMAIN sorted = 1..n
    BY <1>2
  <2>2. \A k, m \in 1..n : sorted[k].id = sorted[m].id => k = m
    BY <1>2, <1>12, <1>13, <1>14, <1>16
  <2> QED BY <2>1, <2>2 DEF Apart
<1>17. SortedBy(db, cands, activation, sorted)
  <2> DEFINE at == [k \in 1..n |-> At(k)]
  <2>1. at \in [1..n -> 1..n] /\ \A k \in 1..n : at[k] = At(k)
    BY <1>12
  <2> HIDE DEF at
  <2>2. \A k, m \in 1..n : at[k] = at[m] => k = m
    BY <2>1, <1>13
  <2>3. ASSUME NEW i \in 1..n PROVE \E k \in 1..n : at[k] = i
    <3>1. rank[i] + 1 \in 1..n /\ (rank[i] + 1) - 1 = rank[i]
      BY <1>2, <1>11
    <3>2. At(rank[i] + 1) \in 1..n /\ rank[At(rank[i] + 1)] = rank[i]
      BY <3>1, <1>12
    <3>3. At(rank[i] + 1) = i
      BY <3>2, <1>11
    <3> QED BY <3>1, <3>3, <2>1
  <2>4. ASSUME NEW k \in 1..n, NEW m \in 1..n, Ahead(db, activation, cands[at[k]], cands[at[m]]) PROVE k < m
    <3>1. at[k] \in 1..n /\ at[m] \in 1..n /\ rank[at[k]] = k - 1 /\ rank[at[m]] = m - 1
      BY <2>1, <1>12
    <3>2. rank[at[k]] < rank[at[m]]
      BY <2>4, <3>1, <1>a, <1>11
    <3> QED BY <3>1, <3>2, <1>2
  <2>5. \A k \in 1..n : sorted[k] = cands[at[k]].edge
    BY <2>1, <1>14
  <2>6. Len(sorted) = n
    BY <1>2
  <2> HIDE DEF sorted
  <2> QED BY <2>1, <2>2, <2>3, <2>4, <2>5, <2>6 DEF SortedBy, n
<1> HIDE DEF sorted
<1> QED BY <1>1, <1>15, <1>16, <1>17

\* The fewest links to a note.
Far(db, c, target, id) == Min({k \in 1..c.depth : id \in Within(db, target, c.drafts, c.depth)[k]})

\* The priority of the strongest link to a note.
Weak(db, c, target, id) ==
    Min({edgePriority(e) : e \in {f \in ToSet(queryNeighbors(db, target, c.drafts)) : f.id = id}})

\* Of two linked notes, x is packed first.
Closer(db, c, target, x, y) ==
    IF c.depth > 1 THEN Far(db, c, target, x) < Far(db, c, target, y)
    ELSE \/ Weak(db, c, target, x) < Weak(db, c, target, y)
         \/ Weak(db, c, target, x) = Weak(db, c, target, y) /\ c.activation[x] > c.activation[y]
         \/ /\ Weak(db, c, target, x) = Weak(db, c, target, y) /\ c.activation[x] = c.activation[y]
            /\ db.notes[x].updated > db.notes[y].updated

\* The linked notes, each once, none behind one that is closer.
Placed(db, c, target, sorted) ==
    /\ sorted \in Seq(Others(DOMAIN db.notes, target)) /\ Apart(sorted)
    /\ \A id : Leads(sorted, id) <=> id \in Within(db, target, c.drafts, c.depth)[c.depth] \ {target}
    /\ \A i, j \in DOMAIN sorted : Closer(db, c, target, sorted[i].id, sorted[j].id) => i < j

LEMMA NearGrows ==
    ASSUME NEW db, NEW target, NEW drafts, NEW depth \in Nat, NEW near, NearOf(db, target, drafts, depth, near),
           NEW k \in 0..depth
    PROVE  near[k] \subseteq near[depth]
<1> DEFINE R == {m \in Nat : k + m <= depth => near[k] \subseteq near[k + m]}
<1>1. 0 \in R
  <2>1. k + 0 = k
    OBVIOUS
  <2> QED BY <2>1
<1>2. ASSUME NEW m \in Nat, m \in R PROVE m + 1 \in R
  <2> SUFFICES ASSUME k + (m + 1) <= depth PROVE near[k] \subseteq near[k + (m + 1)]
    OBVIOUS
  <2> DEFINE l == k + (m + 1)
  <2>1. l \in 1..depth /\ l - 1 = k + m /\ k + m <= depth
    OBVIOUS
  <2> HIDE DEF l
  <2>2. near[l] = near[l - 1] \cup Beyond(db, drafts, near[l - 1])
    BY <2>1 DEF NearOf
  <2>3. near[k] \subseteq near[l]
    BY <1>2, <2>1, <2>2
  <2> QED BY <2>3 DEF l
<1>3. depth - k \in R
  <2>1. depth - k \in Nat
    OBVIOUS
  <2> HIDE DEF R
  <2> QED BY <1>1, <1>2, <2>1, NatInduct
<1>4. k + (depth - k) = depth
  OBVIOUS
<1> QED BY <1>3, <1>4

\* The i-th node is not the first, and its distance is the fewest links to its note.
Distant(start, depth, near, q, i) ==
    /\ q[i].edge.id # start /\ q[i].distance \in 1..depth
    /\ Min({k \in 1..depth : q[i].edge.id \in near[k]}) = q[i].distance

\* Behind its first node, a tour holds the near notes but the one it starts from.
LEMMA TourNodes ==
    ASSUME NEW start, NEW depth \in Nat, NEW near, NEW q, NEW n \in Nat, n >= 1, DOMAIN q = 1..n,
           Tours(start, depth, near, q), NEW i \in 2..n, near[0] = {start}
    PROVE  Distant(start, depth, near, q, i)
<1> DEFINE id == q[i].edge.id
           S == {k \in 1..depth : id \in near[k]}
           v == q[i].distance
<1>1. /\ Sole(q) /\ q[1].edge.id = start /\ q[1].distance = 0
      /\ v \in 0..depth /\ id \in near[v]
      /\ \A k \in 0..depth : \A x \in near[k] : \E j \in DOMAIN q : q[j].edge.id = x /\ q[j].distance <= k
  <2>1. i \in DOMAIN q
    OBVIOUS
  <2> QED BY <2>1 DEF Tours
<1>2. i \in DOMAIN q /\ 1 \in DOMAIN q /\ i # 1
  OBVIOUS
<1>3. id # start
  BY <1>1, <1>2 DEF Sole
<1>4. v # 0
  BY <1>1, <1>3
<1>5. v \in 1..depth
  BY <1>1, <1>4
<1>6. v \in S
  BY <1>1, <1>5
<1>7. ASSUME NEW k \in S PROVE v <= k
  <2>1. k \in 0..depth /\ id \in near[k]
    OBVIOUS
  <2>2. PICK j \in DOMAIN q : q[j].edge.id = id /\ q[j].distance <= k
    BY <1>1, <2>1
  <2>3. j = i
    BY <1>1, <1>2, <2>2 DEF Sole
  <2> QED BY <2>2, <2>3
<1>8. S \in SUBSET Int
  OBVIOUS
<1> HIDE DEF S, v
<1>9. Min(S) = v
  BY <1>6, <1>7, <1>8, MinIs
<1> QED BY <1>3, <1>5, <1>9 DEF S, v, Distant

\* sorted holds the edges of cands, in an order that respects R.
InPlace(cands, sorted, R) ==
    /\ \A i, j \in DOMAIN sorted : <<sorted[i].id, sorted[j].id>> \in R => i < j
    /\ \A i \in DOMAIN sorted : \E k \in DOMAIN cands : sorted[i] = cands[k].edge
    /\ \A k \in DOMAIN cands : \E i \in DOMAIN sorted : sorted[i] = cands[k].edge

\* The order of a sort, on any relation of ids it respects.
LEMMA SortedPlaces ==
    ASSUME NEW E, NEW db, NEW cands \in Seq(Cands(E)), NEW activation, NEW sorted, SortedBy(db, cands, activation, sorted),
           sorted \in Seq(E), NEW R,
           \A i, j \in DOMAIN cands : <<cands[i].edge.id, cands[j].edge.id>> \in R => Ahead(db, activation, cands[i], cands[j])
    PROVE  InPlace(cands, sorted, R)
<1> DEFINE n == Len(cands)
<1>1. PICK at \in [1..n -> 1..n] :
       /\ \A i \in 1..n : \E k \in 1..n : at[k] = i
       /\ Len(sorted) = n /\ \A k \in 1..n : sorted[k] = cands[at[k]].edge
       /\ \A k, m \in 1..n : Ahead(db, activation, cands[at[k]], cands[at[m]]) => k < m
  BY DEF SortedBy
<1>2. DOMAIN cands = 1..n /\ n \in Nat
  OBVIOUS
<1> HIDE DEF n
<1>3. DOMAIN sorted = 1..n
  BY <1>1, <1>2
<1>4. ASSUME NEW i \in 1..n, NEW j \in 1..n, <<sorted[i].id, sorted[j].id>> \in R PROVE i < j
  <2>1. at[i] \in 1..n /\ at[j] \in 1..n
    BY <1>1
  <2>2. sorted[i].id = cands[at[i]].edge.id /\ sorted[j].id = cands[at[j]].edge.id
    BY <1>1
  <2>3. Ahead(db, activation, cands[at[i]], cands[at[j]])
    BY <1>2, <1>4, <2>1, <2>2
  <2> QED BY <1>1, <2>3
<1>5. ASSUME NEW i \in 1..n PROVE \E k \in 1..n : sorted[i] = cands[k].edge
  <2>1. at[i] \in 1..n /\ sorted[i] = cands[at[i]].edge
    BY <1>1
  <2> QED BY <2>1
<1>6. ASSUME NEW k \in 1..n PROVE \E i \in 1..n : sorted[i] = cands[k].edge
  <2>1. PICK i \in 1..n : at[i] = k
    BY <1>1
  <2>2. sorted[i] = cands[at[i]].edge
    BY <1>1
  <2> QED BY <2>1, <2>2
<1> QED BY <1>2, <1>3, <1>4, <1>5, <1>6 DEF InPlace

LEMMA DeepPlaced ==
    ASSUME NEW db, IsDb(db), NEW target \in DOMAIN db.notes, NEW acts, NEW cfg \in Configs(acts),
           \A id \in DOMAIN db.notes : cfg.activation[id] \in Int, cfg.depth > 1
    PROVE  Placed(db, cfg, target,
                  enrichAndSortCandidates(db, collectTraverseCandidates(db, target, cfg.depth, cfg.drafts), cfg.activation))
<1> DEFINE ids == DOMAIN db.notes
           E == Edges(ids)
           O == Others(ids, target)
           depth == cfg.depth
           near == Within(db, target, cfg.drafts, depth)
           q == Traverse(db, target, depth, cfg.drafts)
           found == Tail(q)
           cands == [i \in DOMAIN found |-> [edge |-> found[i].edge,
                       priority |-> found[i].distance * 10 + edgePriority(found[i].edge)]]
           sorted == enrichAndSortCandidates(db, cands, cfg.activation)
<1>1. collectTraverseCandidates(db, target, depth, cfg.drafts) = cands
  BY DEF collectTraverseCandidates
<1>2. depth \in Nat /\ depth > 1
  BY DEF Configs
<1>3. NearOf(db, target, cfg.drafts, depth, near)
  BY <1>2, WithinIs
<1>4. q \in Queues(E, target)
  BY <1>2, <1>3, QueueReached DEF Reached
<1>5. Tours(target, depth, near, q)
  BY <1>2, <1>3, TraverseTours
<1>6. near[0] = {target}
  BY <1>3 DEF NearOf
<1> HIDE DEF q, near
<1> DEFINE n == Len(q)
<1>7. /\ n \in Nat /\ n >= 1 /\ DOMAIN q = 1..n
      /\ DOMAIN found = 1..(n - 1) /\ \A i \in 1..(n - 1) : found[i] = q[i + 1]
      /\ \A i \in 2..n : q[i].edge \in E
  <2> DEFINE U == Nodes(E \cup {[id |-> target]})
  <2>1. q \in Seq(U) /\ q # <<>> /\ \A i \in 2..Len(q) : q[i] \in Nodes(E)
    BY <1>4 DEF Queues
  <2>2. \A i \in 2..Len(q) : q[i].edge \in E
    <3> HIDE DEF E, U
    <3> QED BY <2>1 DEF Nodes
  <2> HIDE DEF U, E
  <2> QED BY <2>1, <2>2
<1> HIDE DEF found, n
<1>8. ASSUME NEW i \in 1..(n - 1)
      PROVE  /\ found[i].edge \in O /\ found[i].distance \in 1..depth
             /\ Far(db, cfg, target, found[i].edge.id) = found[i].distance
  <2>1. i + 1 \in 2..n /\ found[i] = q[i + 1]
    BY <1>7
  <2>2. /\ q[i + 1].edge.id # target /\ q[i + 1].distance \in 1..depth
        /\ Min({k \in 1..depth : q[i + 1].edge.id \in near[k]}) = q[i + 1].distance
    <3>1. Distant(target, depth, near, q, i + 1)
      <4> HIDE DEF depth
      <4> QED BY <1>2, <1>5, <1>6, <1>7, <2>1, TourNodes
    <3> QED BY <3>1 DEF Distant
  <2>3. found[i].edge \in O
    BY <1>7, <2>1, <2>2 DEF Others
  <2> QED BY <2>1, <2>2, <2>3 DEF Far, near
<1>9. /\ DOMAIN cands = 1..(n - 1) /\ n - 1 \in Nat
      /\ \A i \in 1..(n - 1) : /\ cands[i].edge = found[i].edge
                               /\ cands[i].priority = found[i].distance * 10 + edgePriority(found[i].edge)
  BY <1>7
<1>10. \A e : edgePriority(e) \in 0..3
  BY DEF edgePriority
<1>11. cands \in Seq(Cands(O))
  <2>1. ASSUME NEW i \in 1..(n - 1) PROVE cands[i] \in Cands(O)
    <3>1. found[i].edge \in O /\ found[i].distance * 10 + edgePriority(found[i].edge) \in Int
      <4>1. found[i].distance \in Int /\ edgePriority(found[i].edge) \in Int
        BY <1>8, <1>10
      <4> QED BY <4>1, <1>8
    <3>2. cands[i] = [edge |-> found[i].edge, priority |-> found[i].distance * 10 + edgePriority(found[i].edge)]
      BY <1>7
    <3> HIDE DEF O
    <3> QED BY <3>1, <3>2 DEF Cands
  <2> QED BY <1>9, <2>1
<1> HIDE DEF cands
<1>12. \A i, j \in DOMAIN cands : cands[i].edge.id = cands[j].edge.id => i = j
  <2>1. ASSUME NEW i \in 1..(n - 1), NEW j \in 1..(n - 1), cands[i].edge.id = cands[j].edge.id PROVE i = j
    <3>1. i + 1 \in DOMAIN q /\ j + 1 \in DOMAIN q
      BY <1>7
    <3>2. cands[i].edge = q[i + 1].edge /\ cands[j].edge = q[j + 1].edge
      BY <1>7, <1>9
    <3>3. i + 1 = j + 1
      BY <1>5, <2>1, <3>1, <3>2 DEF Tours, Sole
    <3> QED BY <3>3
  <2> QED BY <1>9, <2>1
<1>13. \A e \in O : e.id \in ids
  BY DEF Others, Edges
<1>14. \A i \in DOMAIN cands : cands[i].edge.id \in ids
  BY <1>8, <1>9, <1>13
<1>15. \A i \in DOMAIN cands : cfg.activation[cands[i].edge.id] \in Int /\ db.notes[cands[i].edge.id].updated \in Int
  <2>1. \A id \in ids : db.notes[id].updated \in Int
    BY DEF IsDb, Sizes
  <2> QED BY <1>14, <2>1
<1> HIDE DEF O, ids, E, depth
<1>16. sorted \in Seq(O) /\ SortedBy(db, cands, cfg.activation, sorted) /\ Apart(sorted)
  BY <1>11, <1>12, <1>15, SortTyped
<1> HIDE DEF sorted
<1> DEFINE R == {p \in ids \X ids : Closer(db, cfg, target, p[1], p[2])}
<1>17. ASSUME NEW i \in DOMAIN cands, NEW j \in DOMAIN cands, <<cands[i].edge.id, cands[j].edge.id>> \in R
       PROVE  Ahead(db, cfg.activation, cands[i], cands[j])
  <2>1. Closer(db, cfg, target, cands[i].edge.id, cands[j].edge.id)
    BY <1>17
  <2>2. Far(db, cfg, target, cands[i].edge.id) < Far(db, cfg, target, cands[j].edge.id)
    BY <1>2, <2>1 DEF Closer
  <2>3. i \in 1..(n - 1) /\ j \in 1..(n - 1)
    BY <1>9
  <2>4. found[i].distance < found[j].distance /\ found[i].distance \in Nat /\ found[j].distance \in Nat
    BY <1>2, <1>8, <1>9, <2>2, <2>3
  <2>5. cands[i].priority < cands[j].priority
    <3>1. /\ edgePriority(found[i].edge) \in 0..3 /\ edgePriority(found[j].edge) \in 0..3
          /\ cands[i].priority = found[i].distance * 10 + edgePriority(found[i].edge)
          /\ cands[j].priority = found[j].distance * 10 + edgePriority(found[j].edge)
      BY <1>9, <1>10, <2>3
    <3> DEFINE d == found[i].distance
               e == found[j].distance
               f == edgePriority(found[i].edge)
               g == edgePriority(found[j].edge)
    <3>2. d < e /\ d \in Nat /\ e \in Nat /\ f \in 0..3 /\ g \in 0..3
      BY <2>4, <3>1
    <3> HIDE DEF d, e, f, g
    <3>3. d * 10 + f < e * 10 + g
      BY <3>2
    <3> QED BY <3>1, <3>3 DEF d, e, f, g
  <2> QED BY <2>5 DEF Ahead
<1> HIDE DEF R
<1>18. /\ \A i, j \in DOMAIN sorted : <<sorted[i].id, sorted[j].id>> \in R => i < j
       /\ \A i \in DOMAIN sorted : \E k \in DOMAIN cands : sorted[i] = cands[k].edge
       /\ \A k \in DOMAIN cands : \E i \in DOMAIN sorted : sorted[i] = cands[k].edge
  <2>1. InPlace(cands, sorted, R)
    BY <1>11, <1>16, <1>17, SortedPlaces
  <2> QED BY <2>1 DEF InPlace
<1>19. \A i \in DOMAIN sorted : sorted[i].id \in ids
  BY <1>16, <1>13
<1>20. \A i, j \in DOMAIN sorted : Closer(db, cfg, target, sorted[i].id, sorted[j].id) => i < j
  BY <1>18, <1>19 DEF R
<1>21. ASSUME NEW id PROVE Leads(sorted, id) <=> id \in near[depth] \ {target}
  <2>1. ASSUME Leads(sorted, id) PROVE id \in near[depth] \ {target}
    <3>1. PICK i \in DOMAIN sorted : sorted[i].id = id
      BY <2>1 DEF Leads
    <3>2. PICK k \in DOMAIN cands : sorted[i] = cands[k].edge
      BY <1>18
    <3>3. k + 1 \in DOMAIN q /\ q[k + 1].edge.id = id /\ k \in 1..(n - 1)
      BY <1>7, <1>9, <3>1, <3>2
    <3>4. q[k + 1].distance \in 0..depth /\ id \in near[q[k + 1].distance]
      BY <1>5, <3>3 DEF Tours
    <3>5. id \in near[depth]
      BY <1>2, <1>3, <3>4, NearGrows
    <3>6. id # target
      BY <1>8, <1>9, <3>1, <3>2, <3>3 DEF O, Others
    <3> QED BY <3>5, <3>6
  <2>2. ASSUME id \in near[depth] \ {target} PROVE Leads(sorted, id)
    <3>1. depth \in 0..depth
      BY <1>2
    <3>2. PICK j \in DOMAIN q : q[j].edge.id = id
      BY <1>5, <2>2, <3>1 DEF Tours
    <3>3. j # 1
      BY <1>5, <2>2, <3>2 DEF Tours
    <3>4. j - 1 \in 1..(n - 1) /\ (j - 1) + 1 = j
      BY <1>7, <3>3
    <3>5. found[j - 1] = q[j]
      BY <1>7, <3>4
    <3>6. j - 1 \in DOMAIN cands /\ cands[j - 1].edge.id = id
      BY <1>9, <3>2, <3>4, <3>5
    <3> QED BY <1>18, <3>6 DEF Leads
  <2> QED BY <2>1, <2>2
<1>22. Placed(db, cfg, target, sorted)
  BY <1>16, <1>20, <1>21 DEF Placed, O, near, ids, depth
<1> QED BY <1>1, <1>22 DEF sorted, depth

\* Every entry is the link `related` gives for its note.
AsRelated(db, drafts, target, s) ==
    \A i \in DOMAIN s : s[i] \in ToSet(Related(db, target, "mixed", drafts))

\* The best row for a note of a filter by notes is the best row of all.
LEMMA BestFiltered ==
    ASSUME NEW T, NEW s \in Seq(T), NEW G, \A i, j \in DOMAIN s : s[i].id = s[j].id => (s[i] \in G <=> s[j] \in G),
           NEW m, NEW r, Picks(m, r, s, G), NEW k \in 1..Len(r), IsBest(r, Len(r), k)
    PROVE  m[k] \in 1..Len(s) /\ r[k] = s[m[k]] /\ IsBest(s, Len(s), m[k])
<1> DEFINE n == Len(s)
           pri(x) == edgePriority(x)
<1>1. n \in Nat /\ DOMAIN s = 1..n
  OBVIOUS
<1>2. /\ m \in [1..Len(r) -> 1..n]
      /\ \A i \in 1..Len(r) : r[i] = s[m[i]] /\ s[m[i]] \in G
      /\ \A i, j \in 1..Len(r) : m[i] = m[j] => i = j
      /\ \A i, j \in 1..Len(r) : i < j => m[i] < m[j]
      /\ \A l \in 1..n : s[l] \in G => \E i \in 1..Len(r) : m[i] = l
  BY DEF Picks
<1> HIDE DEF n
<1>3. m[k] \in 1..n /\ r[k] = s[m[k]] /\ s[m[k]] \in G
  BY <1>2
<1> HIDE DEF pri
<1>4. \A i \in 1..Len(r) : r[i].id = r[k].id => pri(r[k]) < pri(r[i]) \/ (pri(r[k]) = pri(r[i]) /\ k <= i)
  BY DEF IsBest, pri
<1>5. ASSUME NEW l \in 1..n, s[l].id = s[m[k]].id
      PROVE  pri(s[m[k]]) < pri(s[l]) \/ (pri(s[m[k]]) = pri(s[l]) /\ m[k] <= l)
  <2>1. s[l] \in G
    BY <1>1, <1>3, <1>5
  <2>2. PICK i \in 1..Len(r) : m[i] = l
    BY <1>2, <2>1
  <2>3. r[i] = s[l]
    BY <1>2, <2>2
  <2>4. pri(r[k]) < pri(r[i]) \/ (pri(r[k]) = pri(r[i]) /\ k <= i)
    BY <1>3, <1>4, <1>5, <2>3
  <2>5. k <= i => m[k] <= m[i]
    <3>1. CASE k = i
      BY <1>3, <3>1
    <3>2. CASE k < i
      <4>1. m[k] < m[i] /\ m[k] \in Int /\ m[i] \in Int
        BY <1>2, <3>2
      <4> QED BY <4>1
    <3>3. k \in Int /\ i \in Int
      OBVIOUS
    <3> QED BY <3>1, <3>2, <3>3
  <2> QED BY <1>3, <2>2, <2>3, <2>4, <2>5
<1>6. IsBest(s, n, m[k])
  BY <1>5 DEF IsBest, pri
<1> QED BY <1>3, <1>6 DEF n

\* A note has one best row.
LEMMA BestOnce ==
    ASSUME NEW s, NEW n \in Nat, NEW k \in 1..n, NEW l \in 1..n, IsBest(s, n, k), IsBest(s, n, l), s[k].id = s[l].id
    PROVE  k = l
<1> DEFINE a == edgePriority(s[k])
           b == edgePriority(s[l])
<1>1. a < b \/ (a = b /\ k <= l)
  BY DEF IsBest
<1>2. b < a \/ (b = a /\ l <= k)
  BY DEF IsBest
<1>3. a \in Int /\ b \in Int
  BY PriorityInt
<1> HIDE DEF a, b
<1> QED BY <1>1, <1>2, <1>3

\* What the edge pack keeps of the rows: for each note the strongest row, which is the one `related` gives.
KeptRight(db, drafts, target, kept) ==
    /\ kept \in Seq(Others(DOMAIN db.notes, target)) /\ Apart(kept)
    /\ \A id : Leads(kept, id) <=> id \in Beyond(db, drafts, {target}) \ {target}
    /\ \A i \in DOMAIN kept :
          /\ kept[i] \in ToSet(Related(db, target, "mixed", drafts))
          /\ Min({edgePriority(e) : e \in {f \in ToSet(queryNeighbors(db, target, drafts)) : f.id = kept[i].id}})
             = edgePriority(kept[i])

LEMMA KeptIs ==
    ASSUME NEW db, IsDb(db), NEW target \in DOMAIN db.notes, NEW drafts,
           NEW rows, rows = queryNeighbors(db, target, drafts)
    PROVE  KeptRight(db, drafts, target, strongestEdgePerNote(Among(rows, {e \in ToSet(rows) : e.id # target})))
<1> DEFINE ids == DOMAIN db.notes
           E == Edges(ids)
           O == Others(ids, target)
           G == {e \in ToSet(rows) : e.id # target}
           s == Among(rows, G)
           kept == strongestEdgePerNote(s)
           best == strongestEdgePerNote(rows)
<1>1. rows \in Seq(E)
  BY NeighborsTyped
<1>2. \A id : Leads(rows, id) <=> Visible(db, id, drafts) /\ Linked(db, target, id)
  BY NeighborIds
<1>3. \A i \in DOMAIN rows : rows[i] \in G <=> rows[i].id # target
  BY DEF ToSet
<1>4. E \cap G \subseteq O
  BY DEF Others
<1>5. \A i, j \in DOMAIN rows : rows[i].id = rows[j].id => (rows[i] \in G <=> rows[j] \in G)
  BY <1>3
<1> HIDE DEF G, E
<1>6. s \in Seq(E \cap G)
  BY <1>1, AmongTyped
<1>7. s \in Seq(O)
  BY <1>4, <1>6
<1>8. PICK m : Picks(m, s, rows, G)
  BY <1>1, AmongPicks
<1> HIDE DEF s, O
<1>9. kept \in Seq(O) /\ BestOf(s, Len(s), kept)
  BY <1>7, StrongestBest
<1>10. best \in Seq(E) /\ BestOf(rows, Len(rows), best)
  BY <1>1, StrongestBest
<1>11. Related(db, target, "mixed", drafts) = best
  <2>1. Related(db, target, "mixed", drafts) = Among(best, {e \in ToSet(best) : TRUE})
    BY DEF Related
  <2> HIDE DEF best
  <2>2. \A i \in DOMAIN best : best[i] \in {e \in ToSet(best) : TRUE}
    BY DEF ToSet
  <2>3. Among(best, {e \in ToSet(best) : TRUE}) = best
    <3> DEFINE H == {e \in ToSet(best) : TRUE}
    <3>1. \A i \in DOMAIN best : best[i] \in H
      BY <2>2
    <3> HIDE DEF H
    <3>2. Among(best, H) = best
      BY <1>10, <3>1, AmongAll
    <3> QED BY <3>2 DEF H
  <2> QED BY <2>1, <2>3
<1> HIDE DEF kept, best
<1>12. /\ DOMAIN rows = 1..Len(rows) /\ Len(rows) \in Nat
       /\ DOMAIN s = 1..Len(s) /\ Len(s) \in Nat
  BY <1>1, <1>7
<1>13. /\ Apart(kept) /\ \A i \in DOMAIN kept : \E k \in 1..Len(s) : kept[i] = s[k] /\ IsBest(s, Len(s), k)
       /\ \A k \in 1..Len(s) : \E i \in DOMAIN kept : kept[i].id = s[k].id
  BY <1>9 DEF BestOf
<1>14. /\ \A i \in DOMAIN best : \E k \in 1..Len(rows) : best[i] = rows[k] /\ IsBest(rows, Len(rows), k)
       /\ \A k \in 1..Len(rows) : \E i \in DOMAIN best : best[i].id = rows[k].id
  BY <1>10 DEF BestOf
<1>15. ASSUME NEW i \in DOMAIN kept
       PROVE  \E k \in 1..Len(rows) : kept[i] = rows[k] /\ IsBest(rows, Len(rows), k)
  <2>1. PICK k \in 1..Len(s) : kept[i] = s[k] /\ IsBest(s, Len(s), k)
    BY <1>13
  <2>2. m[k] \in 1..Len(rows) /\ s[k] = rows[m[k]] /\ IsBest(rows, Len(rows), m[k])
    BY <1>1, <1>5, <1>8, <2>1, BestFiltered
  <2> QED BY <2>1, <2>2
<1>16. ASSUME NEW i \in DOMAIN kept
       PROVE  /\ kept[i] \in ToSet(best)
              /\ Min({edgePriority(e) : e \in {f \in ToSet(rows) : f.id = kept[i].id}}) = edgePriority(kept[i])
  <2>1. PICK k \in 1..Len(rows) : kept[i] = rows[k] /\ IsBest(rows, Len(rows), k)
    BY <1>15
  <2>2. PICK j \in DOMAIN best : best[j].id = rows[k].id
    BY <1>14
  <2>3. PICK l \in 1..Len(rows) : best[j] = rows[l] /\ IsBest(rows, Len(rows), l)
    BY <1>14
  <2>4. k = l
    BY <1>12, <2>1, <2>2, <2>3, BestOnce
  <2>5. kept[i] \in ToSet(best)
    BY <2>1, <2>3, <2>4 DEF ToSet
  <2> DEFINE S == {edgePriority(e) : e \in {f \in ToSet(rows) : f.id = kept[i].id}}
             v == edgePriority(kept[i])
  <2>6. S \in SUBSET Int
    BY PriorityInt
  <2>7. v \in S
    BY <1>12, <2>1 DEF ToSet
  <2>8. ASSUME NEW y \in S PROVE v <= y
    <3>1. PICK f \in ToSet(rows) : f.id = kept[i].id /\ y = edgePriority(f)
      OBVIOUS
    <3>2. PICK x \in 1..Len(rows) : f = rows[x]
      BY <1>12, <3>1 DEF ToSet
    <3>3. v < y \/ v = y
      BY <2>1, <3>1, <3>2 DEF IsBest
    <3>4. v \in Int /\ y \in Int
      BY PriorityInt, <2>6
    <3> HIDE DEF v
    <3> QED BY <3>3, <3>4
  <2> HIDE DEF S, v
  <2>9. Min(S) = v
    BY <2>6, <2>7, <2>8, MinIs
  <2> QED BY <2>5, <2>9 DEF S, v
<1>17. \A e \in E : e.id \in ids
  BY DEF E, Edges
<1>18. ASSUME NEW id PROVE Leads(kept, id) <=> id \in Beyond(db, drafts, {target}) \ {target}
  <2>1. ASSUME Leads(kept, id) PROVE id \in Beyond(db, drafts, {target}) \ {target}
    <3>1. PICK i \in DOMAIN kept : kept[i].id = id
      BY <2>1 DEF Leads
    <3>2. PICK k \in 1..Len(rows) : kept[i] = rows[k]
      BY <1>15
    <3>3. kept[i] \in O
      BY <1>9
    <3>4. id # target
      BY <3>1, <3>3 DEF O, Others
    <3>5. Leads(rows, id)
      BY <1>12, <3>1, <3>2 DEF Leads
    <3>6. id \in ids
      BY <1>1, <1>12, <1>17, <3>1, <3>2
    <3> QED BY <1>2, <3>4, <3>5, <3>6 DEF Beyond
  <2>2. ASSUME id \in Beyond(db, drafts, {target}) \ {target} PROVE Leads(kept, id)
    <3>1. Leads(rows, id) /\ id # target
      BY <1>2, <2>2 DEF Beyond
    <3>2. PICK k \in DOMAIN rows : rows[k].id = id
      BY <3>1 DEF Leads
    <3>3. rows[k] \in G
      BY <1>3, <3>1, <3>2
    <3>4. PICK l \in 1..Len(s) : m[l] = k
      BY <1>8, <1>12, <3>3 DEF Picks
    <3>5. s[l] = rows[k]
      BY <1>8, <3>4 DEF Picks
    <3>6. \E i \in DOMAIN kept : kept[i].id = s[l].id
      BY <1>13
    <3> QED BY <3>2, <3>5, <3>6 DEF Leads
  <2> QED BY <2>1, <2>2
<1>19. KeptRight(db, drafts, target, kept)
  BY <1>9, <1>11, <1>13, <1>16, <1>18 DEF KeptRight, O
<1> QED BY <1>19 DEF kept, s, G

LEMMA DirectPlaced ==
    ASSUME NEW db, IsDb(db), NEW target \in DOMAIN db.notes, NEW acts, NEW cfg \in Configs(acts),
           \A id \in DOMAIN db.notes : cfg.activation[id] \in Int, ~(cfg.depth > 1),
           NEW sorted, sorted = enrichAndSortCandidates(db, collectEdgeCandidates(db, target, cfg.drafts), cfg.activation)
    PROVE  Placed(db, cfg, target, sorted) /\ AsRelated(db, cfg.drafts, target, sorted)
<1> DEFINE ids == DOMAIN db.notes
           O == Others(ids, target)
           rows == queryNeighbors(db, target, cfg.drafts)
           kept == strongestEdgePerNote(Among(rows, {e \in ToSet(rows) : e.id # target}))
           cands == [i \in DOMAIN kept |-> [edge |-> kept[i], priority |-> edgePriority(kept[i])]]
           near == Within(db, target, cfg.drafts, cfg.depth)
<1>1. collectEdgeCandidates(db, target, cfg.drafts) = cands
  BY DEF collectEdgeCandidates
<1>2. KeptRight(db, cfg.drafts, target, kept)
  BY KeptIs
<1>3. cfg.depth = 1
  BY DEF Configs
<1>4. NearOf(db, target, cfg.drafts, 1, near)
  BY <1>3, WithinIs
<1>5. near[1] = {target} \cup Beyond(db, cfg.drafts, {target})
  <2>1. 1 \in 1..1 /\ 1 - 1 = 0
    OBVIOUS
  <2> HIDE DEF near
  <2> QED BY <1>4, <2>1 DEF NearOf
<1> HIDE DEF kept, near
<1>6. /\ kept \in Seq(O) /\ Apart(kept)
      /\ \A id : Leads(kept, id) <=> id \in Beyond(db, cfg.drafts, {target}) \ {target}
      /\ \A i \in DOMAIN kept : /\ kept[i] \in ToSet(Related(db, target, "mixed", cfg.drafts))
                                /\ Weak(db, cfg, target, kept[i].id) = edgePriority(kept[i])
  BY <1>2 DEF KeptRight, Weak
<1>7. /\ DOMAIN kept = 1..Len(kept) /\ Len(kept) \in Nat /\ \A i \in DOMAIN kept : kept[i] \in O
      /\ DOMAIN cands = DOMAIN kept
      /\ \A i \in DOMAIN kept : cands[i].edge = kept[i] /\ cands[i].priority = edgePriority(kept[i])
  BY <1>6
<1>8. cands \in Seq(Cands(O))
  <2>1. ASSUME NEW i \in DOMAIN kept PROVE cands[i] \in Cands(O)
    <3>1. kept[i] \in O /\ edgePriority(kept[i]) \in Int
      BY <1>7, PriorityInt
    <3> HIDE DEF O
    <3> QED BY <3>1 DEF Cands
  <2> QED BY <1>7, <2>1
<1> HIDE DEF cands
<1>9. \A i, j \in DOMAIN cands : cands[i].edge.id = cands[j].edge.id => i = j
  BY <1>6, <1>7 DEF Apart
<1>10. \A e \in O : e.id \in ids
  BY DEF Others, Edges
<1>11. \A i \in DOMAIN cands : cfg.activation[cands[i].edge.id] \in Int /\ db.notes[cands[i].edge.id].updated \in Int
  <2>1. \A id \in ids : db.notes[id].updated \in Int
    BY DEF IsDb, Sizes
  <2> QED BY <1>7, <1>10, <2>1
<1> HIDE DEF O, ids
<1>12. sorted \in Seq(O) /\ SortedBy(db, cands, cfg.activation, sorted) /\ Apart(sorted)
  BY <1>1, <1>8, <1>9, <1>11, SortTyped
<1> DEFINE R == {p \in ids \X ids : Closer(db, cfg, target, p[1], p[2])}
<1>13. ASSUME NEW i \in DOMAIN cands, NEW j \in DOMAIN cands, <<cands[i].edge.id, cands[j].edge.id>> \in R
       PROVE  Ahead(db, cfg.activation, cands[i], cands[j])
  <2>1. Closer(db, cfg, target, cands[i].edge.id, cands[j].edge.id)
    BY <1>13
  <2>2. /\ cands[i].priority = Weak(db, cfg, target, cands[i].edge.id)
        /\ cands[j].priority = Weak(db, cfg, target, cands[j].edge.id)
    BY <1>6, <1>7
  <2> QED BY <1>3, <2>1, <2>2 DEF Closer, Ahead
<1> HIDE DEF R
<1>14. InPlace(cands, sorted, R)
  BY <1>8, <1>12, <1>13, SortedPlaces
<1>15. \A i, j \in DOMAIN sorted : Closer(db, cfg, target, sorted[i].id, sorted[j].id) => i < j
  <2>1. \A i \in DOMAIN sorted : sorted[i].id \in ids
    BY <1>10, <1>12
  <2> QED BY <1>14, <2>1 DEF R, InPlace
<1>16. ASSUME NEW id PROVE Leads(sorted, id) <=> id \in near[1] \ {target}
  <2>1. Leads(sorted, id) <=> Leads(kept, id)
    BY <1>7, <1>14 DEF InPlace, Leads
  <2> QED BY <2>1, <1>5, <1>6
<1>17. Placed(db, cfg, target, sorted)
  BY <1>3, <1>12, <1>15, <1>16 DEF Placed, O, near, ids
<1>18. AsRelated(db, cfg.drafts, target, sorted)
  BY <1>6, <1>7, <1>14 DEF InPlace, AsRelated
<1> QED BY <1>17, <1>18

-----------------------------------------------------------------------------
(* Candidates: the wanted hits ahead of the others *)

LEMMA ConcatApart ==
    ASSUME NEW T, NEW s \in Seq(T), NEW t \in Seq(T), Apart(s), Apart(t),
           \A i \in DOMAIN s, j \in DOMAIN t : s[i].id # t[j].id
    PROVE  Apart(s \o t)
<1> DEFINE n == Len(s)
           m == Len(t)
           u == s \o t
<1>1. n \in Nat /\ m \in Nat /\ DOMAIN s = 1..n /\ DOMAIN t = 1..m /\ DOMAIN u = 1..(n + m)
  OBVIOUS
<1>2. /\ \A i \in 1..n : u[i] = s[i]
      /\ \A i \in (n + 1)..(n + m) : u[i] = t[i - n] /\ i - n \in 1..m
  OBVIOUS
<1>3. \A i \in 1..(n + m) : i \in 1..n \/ i \in (n + 1)..(n + m)
  BY <1>1
<1> HIDE DEF n, m, u
<1>4. ASSUME NEW i \in DOMAIN u, NEW j \in DOMAIN u, u[i].id = u[j].id PROVE i = j
  <2>1. CASE i \in 1..n /\ j \in 1..n
    BY <2>1, <1>1, <1>2, <1>4 DEF Apart
  <2>2. CASE i \in (n + 1)..(n + m) /\ j \in (n + 1)..(n + m)
    <3>1. i - n = j - n
      BY <2>2, <1>1, <1>2, <1>4 DEF Apart
    <3> QED BY <3>1, <2>2, <1>1
  <2>3. CASE i \in 1..n /\ j \in (n + 1)..(n + m)
    <3>1. u[i] = s[i] /\ i \in DOMAIN s
      BY <2>3, <1>1, <1>2
    <3>2. u[j] = t[j - n] /\ j - n \in DOMAIN t
      BY <2>3, <1>1, <1>2
    <3> QED BY <3>1, <3>2, <1>4
  <2>4. CASE j \in 1..n /\ i \in (n + 1)..(n + m)
    <3>1. u[j] = s[j] /\ j \in DOMAIN s
      BY <2>4, <1>1, <1>2
    <3>2. u[i] = t[i - n] /\ i - n \in DOMAIN t
      BY <2>4, <1>1, <1>2
    <3> QED BY <3>1, <3>2, <1>4
  <2> QED BY <2>1, <2>2, <2>3, <2>4, <1>1, <1>3
<1> QED BY <1>4 DEF Apart, u

\* A hit the pack may hold.
Fits(db, target, drafts, id) == id # target /\ id \in DOMAIN db.notes /\ Visible(db, id, drafts)

\* q holds those of the first n hits that fit, in the order they were wanted.
WantedRight(db, seeds, target, drafts, n, q) ==
    /\ Apart(q)
    /\ \A i \in DOMAIN q : /\ q[i].type = "search_hit" /\ Fits(db, target, drafts, q[i].id)
                           /\ \E l \in 1..n : seeds[l].id = q[i].id
    /\ \A l \in 1..n : Fits(db, target, drafts, seeds[l].id) => Leads(q, seeds[l].id)
    /\ \A i, j \in DOMAIN q : i < j =>
          \E l \in 1..n : seeds[l].id = q[i].id /\ \A m \in 1..l : seeds[m].id # q[j].id

\* A hit that fits, and is not held, is held last.
Wants(db, target, drafts, q, s, O) ==
    /\ Wanted(db, target, drafts, q, s) \in Seq(O)
    /\ Wanted(db, target, drafts, q, s) =
         IF Fits(db, target, drafts, s.id) /\ ~Leads(q, s.id)
         THEN Append(q, [id |-> s.id, type |-> "search_hit", confidence |-> s.confidence]) ELSE q

LEMMA WantedStep ==
    ASSUME NEW db, NEW target, NEW drafts, NEW O, O = Others(DOMAIN db.notes, target), NEW q \in Seq(O), NEW s \in Seeds,
           DOMAIN db.notes \in SUBSET STRING
    PROVE  Wants(db, target, drafts, q, s, O)
<1> DEFINE e == [id |-> s.id, type |-> "search_hit", confidence |-> s.confidence]
           r == Wanted(db, target, drafts, q, s)
<1>1. r = IF Fits(db, target, drafts, s.id) /\ ~Leads(q, s.id) THEN Append(q, e) ELSE q
  BY DEF Wanted, Fits, Leads
<1>2. CASE Fits(db, target, drafts, s.id)
  <2>1. s.id # target /\ s.id \in DOMAIN db.notes /\ s.confidence = "moderate"
    BY <1>2 DEF Fits, Seeds
  <2>2. e \in Edges(DOMAIN db.notes) /\ e.id = s.id
    BY <2>1 DEF Edges
  <2> HIDE DEF e
  <2>3. e \in O
    BY <2>1, <2>2 DEF Others
  <2> HIDE DEF r
  <2>4. Append(q, e) \in Seq(O)
    BY <2>3
  <2>5. r \in {q, Append(q, e)}
    BY <1>1
  <2> QED BY <1>1, <2>4, <2>5 DEF e, r, Wants
<1>3. CASE ~Fits(db, target, drafts, s.id)
  BY <1>1, <1>3 DEF Wants
<1> QED BY <1>2, <1>3

LEMMA WantStays ==
    ASSUME NEW db, NEW target, NEW drafts, NEW O, NEW seeds \in Seq(Seeds),
           NEW k \in Nat, k + 1 \in 1..Len(seeds),
           NEW q \in Seq(O), WantedRight(db, seeds, target, drafts, k, q),
           NEW r \in Seq(O), r = IF Fits(db, target, drafts, seeds[k + 1].id) /\ ~Leads(q, seeds[k + 1].id)
                    THEN Append(q, [id |-> seeds[k + 1].id, type |-> "search_hit", confidence |-> seeds[k + 1].confidence])
                    ELSE q
    PROVE  WantedRight(db, seeds, target, drafts, k + 1, r)
<1> DEFINE s == seeds[k + 1]
           e == [id |-> s.id, type |-> "search_hit", confidence |-> s.confidence]
           Fit(id) == Fits(db, target, drafts, id)
<1>1. /\ Apart(q)
      /\ \A i \in DOMAIN q : /\ q[i].type = "search_hit" /\ Fit(q[i].id)
                             /\ \E l \in 1..k : seeds[l].id = q[i].id
      /\ \A l \in 1..k : Fit(seeds[l].id) => Leads(q, seeds[l].id)
      /\ \A i, j \in DOMAIN q : i < j => \E l \in 1..k : seeds[l].id = q[i].id /\ \A m \in 1..l : seeds[m].id # q[j].id
  BY DEF WantedRight
<1>2. /\ \A l \in 1..(k + 1) : l \in 1..k \/ l = k + 1
      /\ k + 1 \in 1..(k + 1) /\ \A l \in 1..k : l \in 1..(k + 1) /\ \A m \in 1..l : m \in 1..k
  OBVIOUS
<1>3. \A i \in DOMAIN q : \E l \in 1..(k + 1) : seeds[l].id = q[i].id
  BY <1>1, <1>2
<1>4. \A i, j \in DOMAIN q : i < j => \E l \in 1..(k + 1) : seeds[l].id = q[i].id /\ \A m \in 1..l : seeds[m].id # q[j].id
  BY <1>1, <1>2
<1>5. CASE ~(Fit(s.id) /\ ~Leads(q, s.id))
  <2>1. r = q
    BY <1>5
  <2>2. \A l \in 1..(k + 1) : Fit(seeds[l].id) => Leads(q, seeds[l].id)
    BY <1>1, <1>2, <1>5
  <2>3. \A i \in DOMAIN q : /\ q[i].type = "search_hit" /\ Fit(q[i].id)
                            /\ \E l \in 1..(k + 1) : seeds[l].id = q[i].id
    BY <1>1, <1>3
  <2>4. WantedRight(db, seeds, target, drafts, k + 1, q)
    BY <1>1, <1>4, <2>2, <2>3 DEF WantedRight
  <2> HIDE DEF s, e
  <2> QED BY <2>1, <2>4
<1>6. CASE Fit(s.id) /\ ~Leads(q, s.id)
  <2>1. r = Append(q, e)
    BY <1>6
  <2>2. e.id = s.id /\ e.type = "search_hit"
    OBVIOUS
  <2> HIDE DEF e
  <2>3. /\ DOMAIN r = DOMAIN q \cup {Len(q) + 1} /\ r[Len(q) + 1] = e /\ \A i \in DOMAIN q : r[i] = q[i]
        /\ Len(q) \in Nat /\ DOMAIN q = 1..Len(q)
    BY <2>1
  <2> DEFINE z == Len(q) + 1
  <2>4. z \in DOMAIN r /\ r[z] = e /\ DOMAIN r = DOMAIN q \cup {z} /\ \A i \in DOMAIN q : i < z /\ ~(z < i)
    BY <2>3
  <2> HIDE DEF z
  <2>5. \A i \in DOMAIN q : q[i].id # s.id
    BY <1>6 DEF Leads
  <2>6. Apart(r)
    BY <1>1, <2>2, <2>3, <2>4, <2>5 DEF Apart
  <2>7. \A i \in DOMAIN r : r[i].type = "search_hit" /\ Fit(r[i].id) /\ \E l \in 1..(k + 1) : seeds[l].id = r[i].id
    <3>1. r[z].type = "search_hit" /\ Fit(r[z].id) /\ \E l \in 1..(k + 1) : seeds[l].id = r[z].id
      BY <1>2, <1>6, <2>2, <2>4
    <3>2. \A i \in DOMAIN q : r[i].type = "search_hit" /\ Fit(r[i].id) /\ \E l \in 1..(k + 1) : seeds[l].id = r[i].id
      BY <1>1, <1>3, <2>3
    <3> QED BY <3>1, <3>2, <2>4
  <2>8. ASSUME NEW l \in 1..(k + 1), Fit(seeds[l].id) PROVE Leads(r, seeds[l].id)
    <3>1. CASE l = k + 1
      BY <3>1, <2>2, <2>4 DEF Leads
    <3>2. CASE l \in 1..k
      <4>1. PICK i \in DOMAIN q : q[i].id = seeds[l].id
        BY <1>1, <2>8, <3>2 DEF Leads
      <4> QED BY <4>1, <2>3 DEF Leads
    <3> QED BY <3>1, <3>2, <1>2
  <2>9. ASSUME NEW i \in DOMAIN r, NEW j \in DOMAIN r, i < j
        PROVE  \E l \in 1..(k + 1) : seeds[l].id = r[i].id /\ \A m \in 1..l : seeds[m].id # r[j].id
    <3>1. CASE i \in DOMAIN q /\ j \in DOMAIN q
      BY <3>1, <1>4, <2>3, <2>9
    <3>2. CASE i \in DOMAIN q /\ j = z
      <4>1. PICK l \in 1..k : seeds[l].id = q[i].id
        BY <1>1, <3>2
      <4>2. ASSUME NEW m \in 1..l PROVE seeds[m].id # s.id
        <5>1. m \in 1..k
          BY <1>2
        <5> QED BY <5>1, <1>1, <1>6
      <4>3. seeds[l].id = r[i].id /\ \A m \in 1..l : seeds[m].id # r[j].id
        BY <4>1, <4>2, <3>2, <2>2, <2>3, <2>4
      <4> QED BY <4>3, <1>2
    <3>3. i \in DOMAIN q
      <4>1. i \in DOMAIN q \/ (i = z /\ j = z) \/ (i = z /\ j \in DOMAIN q)
        BY <2>4
      <4>2. ~(z < z)
        BY <2>3 DEF z
      <4> QED BY <4>1, <4>2, <2>4, <2>9
    <3> QED BY <3>1, <3>2, <3>3, <2>4
  <2> QED BY <2>6, <2>7, <2>8, <2>9 DEF WantedRight
<1> QED BY <1>5, <1>6

LEMMA WantedIs ==
    ASSUME NEW db, IsDb(db), NEW target, NEW drafts, NEW seeds \in Seq(Seeds)
    PROVE  /\ allWanted(db, seeds, target, drafts) \in Seq(Others(DOMAIN db.notes, target))
           /\ WantedRight(db, seeds, target, drafts, Len(seeds), allWanted(db, seeds, target, drafts))
<1> DEFINE O == Others(DOMAIN db.notes, target)
           n == Len(seeds)
           e(k) == [id |-> seeds[k].id, type |-> "search_hit", confidence |-> seeds[k].confidence]
<1>1. n \in Nat /\ (\A k \in 1..n : seeds[k] \in Seeds) /\ DOMAIN db.notes \in SUBSET STRING
  BY DEF IsDb
<1>2. ASSUME NEW q \in Seq(O), NEW k \in 1..n
      PROVE  /\ Wanted(db, target, drafts, q, seeds[k]) \in Seq(O)
             /\ Wanted(db, target, drafts, q, seeds[k]) =
                  IF Fits(db, target, drafts, seeds[k].id) /\ ~Leads(q, seeds[k].id) THEN Append(q, e(k)) ELSE q
  <2> DEFINE s == seeds[k]
  <2>1. s \in Seeds
    BY <1>1
  <2>2. q \in Seq(O) /\ O = Others(DOMAIN db.notes, target)
    OBVIOUS
  <2> HIDE DEF s, O
  <2>3. /\ Wanted(db, target, drafts, q, s) \in Seq(O)
        /\ Wanted(db, target, drafts, q, s) =
             IF Fits(db, target, drafts, s.id) /\ ~Leads(q, s.id)
             THEN Append(q, [id |-> s.id, type |-> "search_hit", confidence |-> s.confidence]) ELSE q
    <3>1. Wants(db, target, drafts, q, s, O)
      BY <1>1, <2>1, <2>2, WantedStep
    <3> QED BY <3>1 DEF Wants
  <2> QED BY <2>3 DEF s
<1> DEFINE S == Seq(O)
<1>3. WantedRuns(db, target, drafts, seeds, S)
  <2>1. <<>> \in S
    OBVIOUS
  <2>2. ASSUME NEW q \in S, NEW k \in 1..Len(seeds) PROVE Wanted(db, target, drafts, q, seeds[k]) \in S
    <3>1. q \in Seq(O) /\ k \in 1..n
      OBVIOUS
    <3> HIDE DEF O
    <3> QED BY <1>2, <3>1 DEF S
  <2> HIDE DEF S
  <2> QED BY <2>1, <2>2, WantedFold
<1>4. PICK h \in [0..n -> S] :
       /\ h[0] = <<>>
       /\ \A k \in 1..n : h[k] = Wanted(db, target, drafts, h[k - 1], seeds[k])
       /\ allWanted(db, seeds, target, drafts) = h[n]
  BY <1>3 DEF WantedRuns
<1> DEFINE R == {k \in Nat : k <= n => WantedRight(db, seeds, target, drafts, k, h[k])}
<1>5. 0 \in R
  BY <1>4 DEF WantedRight, Apart
<1>6. ASSUME NEW k \in Nat, k \in R PROVE k + 1 \in R
  <2> SUFFICES ASSUME k + 1 <= n PROVE WantedRight(db, seeds, target, drafts, k + 1, h[k + 1])
    OBVIOUS
  <2>1. k + 1 \in 1..n /\ (k + 1) - 1 = k /\ k \in 0..n /\ WantedRight(db, seeds, target, drafts, k, h[k])
    BY <1>1, <1>6
  <2>2. h[k] \in Seq(O) /\ h[k + 1] = Wanted(db, target, drafts, h[k], seeds[k + 1])
    BY <1>4, <2>1
  <2>3. /\ h[k + 1] \in Seq(O)
        /\ h[k + 1] = IF Fits(db, target, drafts, seeds[k + 1].id) /\ ~Leads(h[k], seeds[k + 1].id)
                      THEN Append(h[k], e(k + 1)) ELSE h[k]
    BY <1>2, <2>1, <2>2
  <2> HIDE DEF O
  <2> QED BY <2>1, <2>2, <2>3, WantStays
<1>7. n \in R
  <2> HIDE DEF R
  <2> QED BY <1>1, <1>5, <1>6, NatInduct
<1>8. h[n] \in S
  BY <1>1, <1>4
<1> QED BY <1>1, <1>4, <1>7, <1>8

LEMMA WithSeedsTyped ==
    ASSUME NEW db, IsDb(db), NEW target, NEW drafts, NEW seeds \in Seq(Seeds),
           NEW G, Others(DOMAIN db.notes, target) \subseteq G, NEW cands \in Seq(G)
    PROVE  LET all == withSeeds(db, seeds, target, cands, drafts)
           IN  all \in Seq(G) /\ (Apart(cands) => Apart(all))
<1> DEFINE first == allWanted(db, seeds, target, drafts)
           good == {e \in ToSet(cands) : \A i \in DOMAIN first : first[i].id # e.id}
           rest == Among(cands, good)
<1>1. withSeeds(db, seeds, target, cands, drafts) = first \o rest
  BY DEF withSeeds
<1>2. first \in Seq(G) /\ Apart(first)
  <2>1. first \in Seq(Others(DOMAIN db.notes, target)) /\ Apart(first)
    BY WantedIs DEF WantedRight
  <2> HIDE DEF first
  <2> QED BY <2>1
<1>3. \A e \in good : \A i \in DOMAIN first : first[i].id # e.id
  OBVIOUS
<1> HIDE DEF first, good
<1>4. rest \in Seq(G \cap good) /\ (Apart(cands) => Apart(rest))
  BY AmongTyped, AmongFrom
<1> HIDE DEF rest
<1>5. rest \in Seq(G) /\ \A j \in DOMAIN rest : rest[j] \in good
  BY <1>4
<1>6. Apart(cands) => Apart(first \o rest)
  BY <1>2, <1>3, <1>4, <1>5, ConcatApart
<1>7. first \o rest \in Seq(G)
  BY <1>2, <1>5
<1> QED BY <1>1, <1>6, <1>7

Seeded(c) == {c.seeds[i].id : i \in DOMAIN c.seeds}

First(c, id) == Min({i \in DOMAIN c.seeds : c.seeds[i].id = id})

LEMMA PrecedesIs ==
    ASSUME NEW db, NEW c, NEW target, NEW x, NEW y
    PROVE  Precedes(db, c, target, x, y) <=>
             IF x \in Seeded(c) THEN y \in Seeded(c) => First(c, x) < First(c, y)
             ELSE y \notin Seeded(c) /\ Closer(db, c, target, x, y)
BY DEF Precedes, Closer, Far, Weak, Seeded, First

\* Candidates are the notes a pack may hold, none behind one that precedes it.
CandsRight(db, c, target, cands) ==
    /\ cands \in Seq(Others(DOMAIN db.notes, target)) /\ Apart(cands)
    /\ \A id : Leads(cands, id) <=> id \in Eligible(db, c, target)
    /\ \A i \in DOMAIN cands, x \in Eligible(db, c, target) :
          Precedes(db, c, target, x, cands[i].id) => \E j \in 1..(i - 1) : cands[j].id = x
    /\ c.depth <= 1 => \A i \in DOMAIN cands :
          cands[i].type # "search_hit" => cands[i] \in ToSet(Related(db, target, "mixed", c.drafts))

LEMMA FirstIs ==
    ASSUME NEW c, c.seeds \in Seq(Seeds), NEW id \in Seeded(c)
    PROVE  /\ First(c, id) \in 1..Len(c.seeds) /\ c.seeds[First(c, id)].id = id
           /\ \A i \in 1..Len(c.seeds) : c.seeds[i].id = id => First(c, id) <= i
<1> DEFINE n == Len(c.seeds)
           S == {i \in 1..n : c.seeds[i].id = id}
           T == {i \in Nat : \E k \in S : k <= i}
<1>1. n \in Nat /\ DOMAIN c.seeds = 1..n
  OBVIOUS
<1>2. PICK k \in 1..n : c.seeds[k].id = id
  BY <1>1 DEF Seeded
<1>3. S \in SUBSET Nat /\ k \in S
  BY <1>2
<1>4. \E x \in S : \A y \in S : x <= y
  <2>1. SUFFICES ASSUME \A x \in S : \E y \in S : ~(x <= y) PROVE FALSE
    OBVIOUS
  <2> DEFINE R == {m \in Nat : \A x \in S : ~(x <= m)}
  <2>2. 0 \in R
    <3>1. \A x \in S : x \in 1..n
      OBVIOUS
    <3>2. \A x \in S : x \in Nat /\ ~(x <= 0)
      BY <1>1, <3>1
    <3> HIDE DEF S
    <3> QED BY <3>2
  <2>3. ASSUME NEW m \in Nat, m \in R PROVE m + 1 \in R
    <3> SUFFICES ASSUME NEW x \in S, x <= m + 1 PROVE FALSE
      OBVIOUS
    <3>1. x \in Nat /\ ~(x <= m)
      BY <1>3, <2>3
    <3>2. x = m + 1
      BY <3>1
    <3>3. PICK y \in S : ~(x <= y)
      BY <2>1
    <3>4. y \in Nat /\ y <= m
      BY <1>3, <3>2, <3>3
    <3> QED BY <3>4, <2>3
  <2>4. k \in R
    <3> HIDE DEF R, S
    <3> QED BY <1>3, <2>2, <2>3, NatInduct
  <2> QED BY <1>3, <2>4
<1>5. PICK v \in S : \A y \in S : v <= y
  BY <1>4
<1>6. Min(S) = v
  <2>1. S \in SUBSET Int
    BY <1>3
  <2> HIDE DEF S
  <2> QED BY <2>1, <1>5, MinIs
<1>7. First(c, id) = v
  BY <1>1, <1>6 DEF First
<1> QED BY <1>1, <1>5, <1>7

\* Notes reached over links are visible.
LEMMA NearVisible ==
    ASSUME NEW db, NEW target, NEW drafts, NEW depth \in Nat, NEW near, NearOf(db, target, drafts, depth, near)
    PROVE  \A id \in near[depth] \ {target} : id \in DOMAIN db.notes /\ Visible(db, id, drafts)
<1> DEFINE P(k) == \A id \in near[k] \ {target} : id \in DOMAIN db.notes /\ Visible(db, id, drafts)
           R == {k \in Nat : k <= depth => P(k)}
<1>1. 0 \in R
  BY DEF NearOf
<1>2. ASSUME NEW k \in Nat, k \in R PROVE k + 1 \in R
  <2> SUFFICES ASSUME k + 1 <= depth PROVE P(k + 1)
    OBVIOUS
  <2>1. k + 1 \in 1..depth /\ (k + 1) - 1 = k /\ P(k)
    BY <1>2
  <2>2. near[k + 1] = near[k] \cup Beyond(db, drafts, near[k])
    <3>1. \A m \in 1..depth : near[m] = near[m - 1] \cup Beyond(db, drafts, near[m - 1])
      BY DEF NearOf
    <3> QED BY <2>1, <3>1
  <2>3. \A id \in Beyond(db, drafts, near[k]) : id \in DOMAIN db.notes /\ Visible(db, id, drafts)
    BY DEF Beyond
  <2> QED BY <2>1, <2>2, <2>3
<1>3. depth \in R
  <2> HIDE DEF R
  <2> QED BY <1>1, <1>2, NatInduct
<1> QED BY <1>3

LEMMA MergedRight ==
    ASSUME NEW db, IsDb(db), NEW target \in DOMAIN db.notes, NEW acts, NEW c \in Configs(acts),
           NEW sorted, Placed(db, c, target, sorted), c.depth <= 1 => AsRelated(db, c.drafts, target, sorted)
    PROVE  CandsRight(db, c, target, withSeeds(db, c.seeds, target, sorted, c.drafts))
<1> DEFINE O == Others(DOMAIN db.notes, target)
           near == Within(db, target, c.drafts, c.depth)
           first == allWanted(db, c.seeds, target, c.drafts)
           good == {e \in ToSet(sorted) : \A i \in DOMAIN first : first[i].id # e.id}
           rest == Among(sorted, good)
           cands == first \o rest
           all == Eligible(db, c, target)
           Fit(id) == Fits(db, target, c.drafts, id)
           n == Len(first)
           sn == Len(c.seeds)
<1>1. withSeeds(db, c.seeds, target, sorted, c.drafts) = cands
  BY DEF withSeeds
<1>2. c.depth \in Nat /\ c.seeds \in Seq(Seeds)
  BY DEF Configs
<1>3. /\ sorted \in Seq(O) /\ Apart(sorted)
      /\ \A id : Leads(sorted, id) <=> id \in near[c.depth] \ {target}
      /\ \A i, j \in DOMAIN sorted : Closer(db, c, target, sorted[i].id, sorted[j].id) => i < j
  BY DEF Placed
<1>4. NearOf(db, target, c.drafts, c.depth, near)
  BY <1>2, WithinIs
<1> HIDE DEF near
<1>5. \A id \in near[c.depth] \ {target} : Fit(id)
  <2>1. \A id \in near[c.depth] \ {target} : id \in DOMAIN db.notes /\ Visible(db, id, c.drafts)
    BY <1>2, <1>4, NearVisible
  <2> QED BY <2>1 DEF Fits
<1>6. \A id : id \in all <=> Fit(id) /\ (id \in Seeded(c) \/ id \in near[c.depth])
  <2>1. all = ({id \in Seeded(c) \cap DOMAIN db.notes : Visible(db, id, c.drafts)} \cup near[c.depth]) \ {target}
    BY DEF Eligible, Seeded, near
  <2> HIDE DEF all
  <2> QED BY <1>5, <2>1 DEF Fits
<1> HIDE DEF all
<1>7. first \in Seq(O) /\ WantedRight(db, c.seeds, target, c.drafts, sn, first)
  BY <1>2, WantedIs
<1>8. \A k \in DOMAIN sorted : sorted[k] \in good <=> \A i \in DOMAIN first : first[i].id # sorted[k].id
  BY DEF ToSet
<1>9. /\ withSeeds(db, c.seeds, target, sorted, c.drafts) \in Seq(O)
      /\ Apart(withSeeds(db, c.seeds, target, sorted, c.drafts))
  <2> HIDE DEF O
  <2>1. LET x == withSeeds(db, c.seeds, target, sorted, c.drafts)
        IN  x \in Seq(O) /\ (Apart(sorted) => Apart(x))
    BY <1>2, <1>3, WithSeedsTyped DEF O
  <2> QED BY <2>1, <1>3
<1> HIDE DEF first, good, O
<1>10. PICK m : Picks(m, rest, sorted, good)
  BY <1>3, AmongPicks
<1>11. rest \in Seq(O)
  BY <1>3, AmongSet
<1>12. /\ DOMAIN sorted = 1..Len(sorted) /\ DOMAIN rest = 1..Len(rest) /\ Len(rest) \in Nat
       /\ n \in Nat /\ DOMAIN first = 1..n
  BY <1>3, <1>7, <1>11
<1> HIDE DEF rest, n
<1>13. /\ cands \in Seq(O) /\ Len(cands) = n + Len(rest) /\ DOMAIN cands = 1..(n + Len(rest))
       /\ \A i \in 1..n : cands[i] = first[i]
       /\ \A i \in 1..Len(rest) : cands[n + i] = rest[i]
  <2>1. /\ cands \in Seq(O) /\ Len(cands) = Len(first) + Len(rest)
        /\ \A i \in 1..Len(first) : cands[i] = first[i]
        /\ \A i \in 1..Len(rest) : cands[Len(first) + i] = rest[i]
    BY <1>7, <1>11
  <2> HIDE DEF cands
  <2>2. DOMAIN cands = 1..Len(cands)
    BY <2>1
  <2> QED BY <2>1, <2>2 DEF n
<1> HIDE DEF cands
<1>14. /\ \A i \in 1..n : /\ first[i].type = "search_hit" /\ Fit(first[i].id)
                          /\ \E l \in 1..sn : c.seeds[l].id = first[i].id
       /\ \A l \in 1..sn : Fit(c.seeds[l].id) => Leads(first, c.seeds[l].id)
       /\ \A i, j \in 1..n : i < j =>
             \E l \in 1..sn : c.seeds[l].id = first[i].id /\ \A k \in 1..l : c.seeds[k].id # first[j].id
  <2>1. DOMAIN first = 1..n
    BY <1>12
  <2>2. /\ \A i \in DOMAIN first : /\ first[i].type = "search_hit" /\ Fit(first[i].id)
                                    /\ \E l \in 1..sn : c.seeds[l].id = first[i].id
        /\ \A l \in 1..sn : Fit(c.seeds[l].id) => Leads(first, c.seeds[l].id)
        /\ \A i, j \in DOMAIN first : i < j =>
              \E l \in 1..sn : c.seeds[l].id = first[i].id /\ \A k \in 1..l : c.seeds[k].id # first[j].id
    BY <1>7 DEF WantedRight
  <2> HIDE DEF sn, Fit
  <2> QED BY <2>1, <2>2
<1>15. \A id : id \in Seeded(c) <=> \E l \in 1..sn : c.seeds[l].id = id
  <2>1. DOMAIN c.seeds = 1..sn
    BY <1>2
  <2> HIDE DEF sn
  <2> QED BY <2>1 DEF Seeded
<1>16. \A id \in Seeded(c) : Fit(id) => \E i \in 1..n : first[i].id = id
  <2>1. ASSUME NEW id \in Seeded(c), Fit(id) PROVE \E i \in 1..n : first[i].id = id
    <3>1. PICK l \in 1..sn : c.seeds[l].id = id
      BY <1>15
    <3>2. Leads(first, id)
      BY <1>14, <2>1, <3>1
    <3> QED BY <1>12, <3>2 DEF Leads
  <2> QED BY <2>1
<1>17. \A i \in 1..n : first[i].id \in Seeded(c)
  BY <1>14, <1>15
<1>18. ASSUME NEW i \in 1..Len(rest)
       PROVE  /\ m[i] \in DOMAIN sorted /\ rest[i] = sorted[m[i]]
              /\ \A j \in 1..n : first[j].id # rest[i].id
  <2>1. m[i] \in 1..Len(sorted) /\ rest[i] = sorted[m[i]] /\ sorted[m[i]] \in good
    BY <1>10 DEF Picks
  <2> QED BY <2>1, <1>8, <1>12
<1>19. ASSUME NEW a \in DOMAIN sorted, \A i \in 1..n : first[i].id # sorted[a].id
       PROVE  \E b \in 1..Len(rest) : m[b] = a
  <2>1. sorted[a] \in good
    BY <1>8, <1>12, <1>19
  <2> QED BY <1>10, <1>12, <2>1 DEF Picks
<1>20. ASSUME NEW i \in 1..(n + Len(rest)), i \notin 1..n
       PROVE  i - n \in 1..Len(rest) /\ n + (i - n) = i /\ cands[i] = rest[i - n]
  <2>1. i - n \in 1..Len(rest) /\ n + (i - n) = i
    BY <1>12, <1>20
  <2>2. cands[n + (i - n)] = rest[i - n]
    BY <1>13, <2>1
  <2> QED BY <2>1, <2>2
<1>21. ASSUME NEW id PROVE Leads(cands, id) <=> id \in all
  <2>1. ASSUME Leads(cands, id) PROVE id \in all
    <3>1. PICK i \in 1..(n + Len(rest)) : cands[i].id = id
      BY <1>13, <2>1 DEF Leads
    <3>2. CASE i \in 1..n
      BY <3>1, <3>2, <1>6, <1>13, <1>14, <1>17
    <3>3. CASE i \notin 1..n
      <4>1. i - n \in 1..Len(rest) /\ cands[i] = rest[i - n]
        BY <3>3, <1>20
      <4>2. m[i - n] \in DOMAIN sorted /\ sorted[m[i - n]].id = id
        BY <4>1, <3>1, <1>18
      <4>3. Leads(sorted, id)
        BY <4>2 DEF Leads
      <4> QED BY <4>3, <1>3, <1>5, <1>6
    <3> QED BY <3>2, <3>3
  <2>2. ASSUME id \in all PROVE Leads(cands, id)
    <3>1. CASE \E i \in 1..n : first[i].id = id
      <4>1. PICK i \in 1..n : first[i].id = id
        BY <3>1
      <4>2. i \in DOMAIN cands /\ cands[i].id = id
        BY <4>1, <1>12, <1>13
      <4> QED BY <4>2 DEF Leads
    <3>2. CASE ~\E i \in 1..n : first[i].id = id
      <4>1. Fit(id) /\ id \in near[c.depth]
        BY <2>2, <3>2, <1>6, <1>16
      <4>2. id # target
        BY <4>1 DEF Fits
      <4>3. PICK a \in DOMAIN sorted : sorted[a].id = id
        BY <4>1, <4>2, <1>3 DEF Leads
      <4>4. PICK b \in 1..Len(rest) : m[b] = a
        BY <3>2, <4>3, <1>19
      <4>5. n + b \in DOMAIN cands /\ cands[n + b].id = id
        BY <4>3, <4>4, <1>12, <1>13, <1>18
      <4> QED BY <4>5 DEF Leads
    <3> QED BY <3>1, <3>2
  <2> QED BY <2>1, <2>2
<1>22. ASSUME NEW i \in DOMAIN cands, NEW x \in all, Precedes(db, c, target, x, cands[i].id)
       PROVE  \E j \in 1..(i - 1) : cands[j].id = x
  <2> DEFINE y == cands[i].id
  <2>1. i \in 1..(n + Len(rest)) /\ i \in Nat
    BY <1>12, <1>13
  <2>2. IF x \in Seeded(c) THEN y \in Seeded(c) => First(c, x) < First(c, y)
        ELSE y \notin Seeded(c) /\ Closer(db, c, target, x, y)
    BY <1>22, PrecedesIs
  <2> HIDE DEF y
  <2>3. Fit(x) /\ (x \in Seeded(c) \/ x \in near[c.depth])
    BY <1>6
  <2>4. CASE x \in Seeded(c)
    <3>1. PICK j \in 1..n : first[j].id = x
      BY <1>16, <2>3, <2>4
    <3>2. cands[j].id = x
      BY <1>13, <3>1
    <3>3. CASE i \notin 1..n
      <4>1. j \in 1..(i - 1)
        BY <1>12, <2>1, <3>3
      <4> QED BY <3>2, <4>1
    <3>4. CASE i \in 1..n
      <4>1. y = first[i].id /\ y \in Seeded(c)
        BY <1>13, <1>17, <3>4 DEF y
      <4>2. First(c, x) < First(c, y)
        BY <2>2, <2>4, <4>1
      <4>3. /\ First(c, x) \in 1..sn /\ c.seeds[First(c, x)].id = x
            /\ First(c, y) \in 1..sn /\ \A l \in 1..sn : c.seeds[l].id = y => First(c, y) <= l
        BY <1>2, <2>4, <4>1, FirstIs
      <4>4. i # j
        BY <3>1, <4>1, <4>2, <4>3
      <4>5. ASSUME i < j PROVE FALSE
        <5>1. PICK l \in 1..sn : c.seeds[l].id = y /\ \A k \in 1..l : c.seeds[k].id # x
          BY <1>14, <3>1, <3>4, <4>1, <4>5
        <5>2. First(c, y) <= l
          BY <4>3, <5>1
        <5>3. First(c, x) \in 1..l
          BY <4>2, <4>3, <5>2
        <5> QED BY <4>3, <5>1, <5>3
      <4>6. j \in 1..(i - 1)
        BY <2>1, <3>4, <4>4, <4>5
      <4> QED BY <3>2, <4>6
    <3> QED BY <3>3, <3>4
  <2>5. CASE x \notin Seeded(c)
    <3>1. y \notin Seeded(c) /\ Closer(db, c, target, x, y)
      BY <2>2, <2>5
    <3>2. i \notin 1..n
      BY <1>13, <1>17, <3>1 DEF y
    <3>3. i - n \in 1..Len(rest) /\ n + (i - n) = i /\ cands[i] = rest[i - n]
      BY <2>1, <3>2, <1>20
    <3> DEFINE d == i - n
    <3>4. d \in 1..Len(rest) /\ n + d = i /\ m[d] \in DOMAIN sorted /\ sorted[m[d]].id = y
      BY <1>18, <3>3 DEF y
    <3> HIDE DEF d
    <3>5. x # target /\ x \in near[c.depth]
      BY <2>3, <2>5 DEF Fits
    <3>6. PICK a \in DOMAIN sorted : sorted[a].id = x
      BY <1>3, <3>5 DEF Leads
    <3>7. \A k \in 1..n : first[k].id # x
      BY <1>17, <2>5
    <3>8. PICK b \in 1..Len(rest) : m[b] = a
      BY <1>19, <3>6, <3>7
    <3>9. m[b] < m[d]
      BY <1>3, <3>1, <3>4, <3>6, <3>8
    <3>10. ASSUME ~(b < d) PROVE FALSE
      <4>1. m[b] \in Int /\ m[d] \in Int
        BY <1>12, <3>4, <3>6, <3>8
      <4>2. b = d \/ d < b
        BY <3>4, <3>10
      <4>3. m[d] < m[b] \/ m[d] = m[b]
        BY <4>2, <3>4, <1>10 DEF Picks
      <4> QED BY <4>1, <4>3, <3>9
    <3>11. n + b \in 1..(i - 1) /\ cands[n + b].id = x
      <4>1. n + b \in 1..(i - 1)
        BY <1>12, <3>4, <3>10
      <4> QED BY <4>1, <1>13, <1>18, <3>6, <3>8
    <3> QED BY <3>11
  <2> QED BY <2>4, <2>5
<1>23. ASSUME c.depth <= 1, NEW i \in DOMAIN cands, cands[i].type # "search_hit"
       PROVE  cands[i] \in ToSet(Related(db, target, "mixed", c.drafts))
  <2>1. i \in 1..(n + Len(rest))
    BY <1>13
  <2>2. i \notin 1..n
    BY <1>13, <1>14, <1>23
  <2>3. i - n \in 1..Len(rest) /\ cands[i] = rest[i - n]
    BY <2>1, <2>2, <1>20
  <2>4. m[i - n] \in DOMAIN sorted /\ cands[i] = sorted[m[i - n]]
    BY <2>3, <1>18
  <2> QED BY <2>4, <1>23 DEF AsRelated
<1>24. cands \in Seq(O) /\ Apart(cands)
  BY <1>1, <1>9
<1>25. CandsRight(db, c, target, cands)
  BY <1>21, <1>22, <1>23, <1>24 DEF CandsRight, O, all
<1> QED BY <1>1, <1>25

LEMMA CandidatesRight ==
    ASSUME NEW db, IsDb(db), NEW target \in DOMAIN db.notes, NEW acts, NEW cfg \in Configs(acts),
           \A id \in DOMAIN db.notes : cfg.activation[id] \in Int
    PROVE  CandsRight(db, cfg, target, Candidates(db, target, cfg))
<1> DEFINE deep == enrichAndSortCandidates(db, collectTraverseCandidates(db, target, cfg.depth, cfg.drafts), cfg.activation)
           direct == enrichAndSortCandidates(db, collectEdgeCandidates(db, target, cfg.drafts), cfg.activation)
<1>1. CASE cfg.depth > 1
  <2>1. Candidates(db, target, cfg) = withSeeds(db, cfg.seeds, target, deep, cfg.drafts)
    BY <1>1 DEF Candidates
  <2>2. Placed(db, cfg, target, deep)
    BY <1>1, DeepPlaced
  <2>3. ~(cfg.depth <= 1)
    BY <1>1 DEF Configs
  <2> HIDE DEF deep
  <2> QED BY <2>1, <2>2, <2>3, MergedRight
<1>2. CASE ~(cfg.depth > 1)
  <2>1. Candidates(db, target, cfg) = withSeeds(db, cfg.seeds, target, direct, cfg.drafts)
    BY <1>2 DEF Candidates
  <2>2. Placed(db, cfg, target, direct) /\ AsRelated(db, cfg.drafts, target, direct)
    BY <1>2, DirectPlaced
  <2> HIDE DEF direct
  <2> QED BY <2>1, <2>2, MergedRight
<1> QED BY <1>1, <1>2

-----------------------------------------------------------------------------
(* Packs: what a note is packed as *)

LEMMA LongestNat == ASSUME NEW cuts \in SUBSET Nat, NEW room \in Int PROVE Longest(cuts, room) \in Nat
<1> DEFINE n == IF room < 0 THEN 0 ELSE room
           s == {0} \cup {c \in cuts : c <= room}
<1>1. n \in Nat /\ s # {}
  OBVIOUS
<1>4. ASSUME NEW x \in s PROVE x \in 0..n
  OBVIOUS
<1> HIDE DEF n, s
<1>5. s \in SUBSET (0..n)
  BY <1>4
<1>2. Max(s) \in s
  BY <1>1, <1>5, MaxIn
<1>3. Max(s) \in Nat
  <2>1. Max(s) \in 0..n
    BY <1>2, <1>4
  <2> QED BY <2>1, <1>1
<1> QED BY <1>3 DEF Longest, s

Texts == [body : Nat, excerpted : BOOLEAN, omitted : BOOLEAN]

LEMMA ExcerptNat == ASSUME NEW n \in Sizes, NEW max \in Int PROVE Excerpt(n, max) \in Nat
<1>1. n.cuts \in SUBSET Nat
  BY DEF Sizes
<1> QED BY <1>1, LongestNat DEF Excerpt

LEMMA OverflowNat ==
    ASSUME NEW n \in Sizes, NEW room \in Int, NEW overflow \in {"none", "packed", "selects", "greedy"}
    PROVE  attachOverflow(n, room, overflow) \in Nat
<1>1. n.passage \in SUBSET Nat /\ n.body \in Nat
  BY DEF Sizes
<1> DEFINE packed == Excerpt(n, room)
           passage == Longest(n.passage, room)
<1>2. packed \in Nat /\ passage \in Nat
  BY <1>1, ExcerptNat, LongestNat
<1> HIDE DEF packed, passage
<1>3. overflowPassage(n, room, overflow) \in Nat
  BY <1>1, <1>2 DEF overflowPassage, packed, passage
<1> QED BY <1>2, <1>3 DEF attachOverflow, packed

LEMMA AttachTyped ==
    ASSUME NEW n \in Sizes, NEW room \in Int, NEW cfg, cfg.excerpt \in Nat, cfg.overflow \in {"none", "packed", "selects", "greedy"}
    PROVE  attachBody(n, room, cfg) \in Texts
<1>1. n.body \in Nat
  BY DEF Sizes
<1> DEFINE excerpt == Excerpt(n, Min({cfg.excerpt, room}))
           chosen == attachOverflow(n, room, cfg.overflow)
           lost == excerpt = 0 /\ room < cfg.excerpt /\ Excerpt(n, cfg.excerpt) > 0
<1>2. excerpt \in Nat
  BY MinPair, ExcerptNat
<1>3. chosen \in Nat
  BY OverflowNat
<1>4. attachBody(n, room, cfg) = IF n.body = 0 THEN Carried(0, FALSE, FALSE)
        ELSE IF room <= 0 THEN Carried(0, FALSE, TRUE)
        ELSE IF cfg.excerpt > 0 THEN attachExcerpt(excerpt, lost)
        ELSE IF n.body <= room THEN Carried(n.body, FALSE, FALSE)
        ELSE attachExcerpt(chosen, chosen = 0)
  BY DEF attachBody
<1>5. lost \in BOOLEAN /\ (chosen = 0) \in BOOLEAN
  OBVIOUS
<1> HIDE DEF excerpt, chosen, lost
<1>6. \A tokens \in Nat, x \in BOOLEAN, y \in BOOLEAN : Carried(tokens, x, y) \in Texts
  BY DEF Carried, Texts
<1>7. \A tokens \in Nat, y \in BOOLEAN : attachExcerpt(tokens, y) \in Texts
  BY DEF attachExcerpt, Carried, Texts
<1> QED BY <1>1, <1>2, <1>3, <1>4, <1>5, <1>6, <1>7

LEMMA TargetTyped ==
    ASSUME NEW n \in Sizes, NEW budget \in Nat, NEW max \in Nat
    PROVE  packTargetContent(n, budget, max) \in Texts
<1>1. n.body \in Nat /\ n.fm \in Nat
  BY DEF Sizes
<1> DEFINE room == budget - n.fm
           excerpt == IF room > 0 THEN Excerpt(n, Min({max, room})) ELSE 0
<1>2. room \in Int
  BY <1>1
<1>3. excerpt \in Nat
  BY <1>2, MinPair, ExcerptNat
<1>4. room > 0 => Min({n.body, room}) \in Nat
  BY <1>1, <1>2, MinPair
<1>5. packTargetContent(n, budget, max) =
        IF excerpt > 0 THEN attachExcerpt(excerpt, FALSE)
        ELSE IF room <= 0 THEN Carried(0, FALSE, n.body > 0)
        ELSE Carried(Min({n.body, room}), FALSE, FALSE)
  BY DEF packTargetContent
<1>6. (n.body > 0) \in BOOLEAN
  OBVIOUS
<1> HIDE DEF room, excerpt
<1>7. \A tokens \in Nat, x \in BOOLEAN, y \in BOOLEAN : Carried(tokens, x, y) \in Texts
  BY DEF Carried, Texts
<1>8. \A tokens \in Nat, y \in BOOLEAN : attachExcerpt(tokens, y) \in Texts
  BY DEF attachExcerpt, Carried, Texts
<1>9. FALSE \in BOOLEAN /\ 0 \in Nat
  OBVIOUS
<1>a. CASE excerpt > 0
  BY <1>a, <1>3, <1>5, <1>8, <1>9
<1>b. CASE ~(excerpt > 0) /\ room <= 0
  BY <1>b, <1>5, <1>6, <1>7, <1>9
<1>c. CASE ~(excerpt > 0) /\ ~(room <= 0)
  <2>1. Min({n.body, room}) \in Nat
    BY <1>c, <1>2, <1>4
  <2> QED BY <2>1, <1>c, <1>5, <1>7, <1>9
<1> QED BY <1>a, <1>b, <1>c

LEMMA ItemTyped ==
    ASSUME NEW ids, NEW e \in Edges(ids), NEW n \in Sizes, NEW tokens \in Nat, NEW text \in Texts
    PROVE  Item(e, n, tokens, text) \in Items(ids)
BY DEF Item, Items, Edges, Sizes, Texts

LEMMA MinLess == ASSUME NEW a \in Int, NEW b \in Int PROVE Min({a, b}) = IF a <= b THEN a ELSE b
<1>1. \E x \in {a, b} : \A y \in {a, b} : x <= y
  OBVIOUS
<1>2. Min({a, b}) \in {a, b} /\ \A y \in {a, b} : Min({a, b}) <= y
  BY <1>1 DEF Min
<1> QED BY <1>2

LEMMA MaxPair == ASSUME NEW a \in Int, NEW b \in Int PROVE Max({a, b}) = IF a >= b THEN a ELSE b
<1>1. \E x \in {a, b} : \A y \in {a, b} : x >= y
  OBVIOUS
<1>2. Max({a, b}) \in {a, b} /\ \A y \in {a, b} : Max({a, b}) >= y
  BY <1>1 DEF Max
<1> QED BY <1>2

\* No text is longer than the room for it.
LEMMA LongestFits ==
    ASSUME NEW cuts \in SUBSET Nat, NEW room \in Nat
    PROVE  Longest(cuts, room) \in Nat /\ Longest(cuts, room) <= room
<1> DEFINE s == {0} \cup {c \in cuts : c <= room}
<1>1. s # {} /\ \A x \in s : x \in 0..room
  OBVIOUS
<1> HIDE DEF s
<1>2. s \in SUBSET (0..room)
  BY <1>1
<1>3. Max(s) \in s
  BY <1>1, <1>2, MaxIn
<1>4. Max(s) \in 0..room
  BY <1>1, <1>3
<1> QED BY <1>4 DEF Longest, s

LEMMA LongestUpTo ==
    ASSUME NEW cuts \in SUBSET Nat, NEW room \in Int
    PROVE  Longest(cuts, room) \in Nat /\ (Longest(cuts, room) = 0 \/ Longest(cuts, room) <= room)
<1> DEFINE s == {0} \cup {c \in cuts : c <= room}
<1>1. CASE room \in Nat
  BY <1>1, LongestFits
<1>2. CASE room \notin Nat
  <2>1. s = {0}
    <3>1. \A c \in cuts : c \in Nat /\ ~(c <= room)
      BY <1>2
    <3> QED BY <3>1
  <2>2. 0 \in 0..0 /\ s \in SUBSET (0..0) /\ s # {}
    BY <2>1
  <2>3. Max(s) \in s
    BY <2>2, MaxIn
  <2> QED BY <2>1, <2>3 DEF Longest
<1> QED BY <1>1, <1>2

LEMMA ExcerptFits ==
    ASSUME NEW n \in Sizes, NEW room \in Nat
    PROVE  Excerpt(n, room) \in Nat /\ Excerpt(n, room) <= room
<1>1. n.cuts \in SUBSET Nat
  BY DEF Sizes
<1>2. Longest(n.cuts, room) \in Nat /\ Longest(n.cuts, room) <= room
  BY <1>1, LongestFits
<1> QED BY <1>2 DEF Excerpt

\* What of a body of n, attached as text while there was room, is put down to the budget.
TextBlamed(n, cfg, text, room) ==
    LET missing == text.body = 0 /\ n.body > 0
        due     == cfg.excerpt = 0 \/ Excerpt(n, cfg.excerpt) > 0
    IN  /\ missing /\ due => text.omitted
        /\ text.omitted => missing /\ (due \/ room <= 0)

LEMMA AttachFits ==
    ASSUME NEW n \in Sizes, NEW room \in Nat, NEW cfg,
           cfg.excerpt \in Nat, cfg.overflow \in {"none", "packed", "selects", "greedy"}
    PROVE  LET text == attachBody(n, room, cfg)
           IN  text \in Texts /\ text.body <= room /\ TextBlamed(n, cfg, text, room)
<1>1. n.body \in Nat
  BY DEF Sizes
<1> DEFINE excerpt == Excerpt(n, Min({cfg.excerpt, room}))
           all == Excerpt(n, cfg.excerpt)
           chosen == attachOverflow(n, room, cfg.overflow)
           lost == excerpt = 0 /\ room < cfg.excerpt /\ all > 0
           text == attachBody(n, room, cfg)
<1>2. excerpt \in Nat /\ excerpt <= room /\ all \in Nat /\ (room < cfg.excerpt \/ excerpt = all)
  <2>1. Min({cfg.excerpt, room}) = IF cfg.excerpt <= room THEN cfg.excerpt ELSE room
    BY MinLess
  <2>2. all \in Nat
    BY ExcerptFits
  <2>3. CASE cfg.excerpt <= room
    <3>1. excerpt = all /\ all <= cfg.excerpt
      BY <2>1, <2>3, ExcerptFits
    <3> HIDE DEF excerpt, all
    <3> QED BY <3>1, <2>2, <2>3
  <2>4. CASE ~(cfg.excerpt <= room)
    <3>1. excerpt = Excerpt(n, room)
      BY <2>1, <2>4
    <3>2. Excerpt(n, room) \in Nat /\ Excerpt(n, room) <= room
      BY ExcerptFits
    <3> HIDE DEF excerpt, all
    <3> QED BY <3>1, <3>2, <2>2, <2>4
  <2> QED BY <2>3, <2>4
<1>3. chosen \in Nat /\ chosen <= room
  <2> DEFINE c == overflowPassage(n, room, cfg.overflow)
             x == Excerpt(n, room)
  <2>1. chosen = IF c > room THEN x ELSE c
    BY DEF attachOverflow
  <2>2. x \in Nat /\ x <= room
    BY ExcerptFits
  <2>3. chosen \in Nat
    BY OverflowNat
  <2> HIDE DEF c, x, chosen
  <2> QED BY <2>1, <2>2, <2>3
<1>4. text = IF n.body = 0 THEN Carried(0, FALSE, FALSE)
        ELSE IF room <= 0 THEN Carried(0, FALSE, TRUE)
        ELSE IF cfg.excerpt > 0 THEN attachExcerpt(excerpt, lost)
        ELSE IF n.body <= room THEN Carried(n.body, FALSE, FALSE)
        ELSE attachExcerpt(chosen, chosen = 0)
  BY DEF attachBody
<1>5. text \in Texts
  BY AttachTyped
<1> HIDE DEF excerpt, all, chosen, text
<1>8. text.body <= room /\ TextBlamed(n, cfg, text, room)
  <2>1. CASE n.body = 0
    <3>1. text = Carried(0, FALSE, FALSE)
      BY <2>1, <1>4
    <3>2. text.body = 0 /\ ~text.omitted
      BY <3>1 DEF Carried
    <3> QED BY <3>2, <2>1 DEF TextBlamed
  <2>2. CASE n.body # 0 /\ room <= 0
    <3>1. text = Carried(0, FALSE, TRUE)
      BY <2>2, <1>4
    <3>2. text.body = 0 /\ text.omitted
      BY <3>1 DEF Carried
    <3> QED BY <3>2, <2>2, <1>1 DEF TextBlamed
  <2>3. CASE n.body # 0 /\ ~(room <= 0) /\ cfg.excerpt > 0
    <3>1. text = attachExcerpt(excerpt, lost)
      BY <2>3, <1>4
    <3>2. text.body = excerpt /\ (text.omitted <=> lost)
      BY <3>1 DEF attachExcerpt, Carried
    <3> QED BY <3>2, <2>3, <1>1, <1>2 DEF TextBlamed, all
  <2>4. CASE n.body # 0 /\ ~(room <= 0) /\ ~(cfg.excerpt > 0) /\ n.body <= room
    <3>1. text = Carried(n.body, FALSE, FALSE)
      BY <2>4, <1>4
    <3>2. text.body = n.body /\ ~text.omitted
      BY <3>1 DEF Carried
    <3> QED BY <3>2, <2>4, <1>1 DEF TextBlamed
  <2>5. CASE n.body # 0 /\ ~(room <= 0) /\ ~(cfg.excerpt > 0) /\ ~(n.body <= room)
    <3>1. text = attachExcerpt(chosen, chosen = 0)
      BY <2>5, <1>4
    <3>2. text.body = chosen /\ (text.omitted <=> chosen = 0)
      BY <3>1 DEF attachExcerpt, Carried
    <3> QED BY <3>2, <2>5, <1>1, <1>3 DEF TextBlamed
  <2> QED BY <2>1, <2>2, <2>3, <2>4, <2>5
<1> QED BY <1>5, <1>8 DEF text

\* The target's text fits in what its frontmatter leaves, or there is none.
LEMMA TargetFits ==
    ASSUME NEW n \in Sizes, NEW budget \in Nat, NEW max \in Nat
    PROVE  LET text == packTargetContent(n, budget, max)
           IN  /\ text \in Texts
               /\ text.body = 0 \/ n.fm + text.body <= budget
               /\ text.omitted <=> text.body = 0 /\ n.body > 0
<1>1. n.body \in Nat /\ n.fm \in Nat
  BY DEF Sizes
<1> DEFINE room == budget - n.fm
           excerpt == IF room > 0 THEN Excerpt(n, Min({max, room})) ELSE 0
           whole == Min({n.body, room})
           text == packTargetContent(n, budget, max)
<1>2. room \in Int
  BY <1>1
<1>3. excerpt \in Nat /\ (room > 0 => excerpt <= room) /\ (excerpt > 0 => n.body > 0 /\ room > 0)
  <2>1. CASE room > 0
    <3> DEFINE m == Min({max, room})
    <3>1. m \in Nat /\ m <= room
      BY <2>1, <1>2, MinLess
    <3> HIDE DEF m
    <3>2. Excerpt(n, m) \in Nat /\ Excerpt(n, m) <= m
      BY <3>1, ExcerptFits
    <3>3. Excerpt(n, m) > 0 => n.body > 0
      BY <1>1 DEF Excerpt
    <3>4. excerpt = Excerpt(n, m)
      BY <2>1 DEF m
    <3> HIDE DEF excerpt, room
    <3> QED BY <2>1, <3>1, <3>2, <3>3, <3>4, <1>2
  <2>2. CASE ~(room > 0)
    BY <2>2
  <2> QED BY <2>1, <2>2
<1>4. whole = IF n.body <= room THEN n.body ELSE room
  BY <1>1, <1>2, MinLess
<1>5. text = IF excerpt > 0 THEN attachExcerpt(excerpt, FALSE)
        ELSE IF room <= 0 THEN Carried(0, FALSE, n.body > 0)
        ELSE Carried(whole, FALSE, FALSE)
  BY DEF packTargetContent
<1>6. text \in Texts
  BY TargetTyped
<1> HIDE DEF excerpt, whole, text
<1>9. (text.body = 0 \/ n.fm + text.body <= budget) /\ (text.omitted <=> text.body = 0 /\ n.body > 0)
  <2>1. CASE excerpt > 0
    <3>1. text = attachExcerpt(excerpt, FALSE)
      BY <2>1, <1>5
    <3>2. text.body = excerpt /\ ~text.omitted
      BY <3>1 DEF attachExcerpt, Carried
    <3> QED BY <3>2, <2>1, <1>1, <1>3
  <2>2. CASE ~(excerpt > 0) /\ room <= 0
    <3>1. text = Carried(0, FALSE, n.body > 0)
      BY <2>2, <1>5
    <3>2. text.body = 0 /\ (text.omitted <=> n.body > 0)
      BY <3>1 DEF Carried
    <3> QED BY <3>2
  <2>3. CASE ~(excerpt > 0) /\ ~(room <= 0)
    <3>1. text = Carried(whole, FALSE, FALSE)
      BY <2>3, <1>5
    <3>2. text.body = whole /\ ~text.omitted
      BY <3>1 DEF Carried
    <3> QED BY <3>2, <2>3, <1>1, <1>4
  <2> QED BY <2>1, <2>2, <2>3, <1>2
<1> QED BY <1>6, <1>9 DEF text

Held(ids) == {x \in Items(ids) : x.shown = FALSE}

\* A pack nothing is withheld of.
Made(ids) == {p \in Packs(ids) : p.target \in Held(ids) /\ p.items \in Seq(Held(ids))}

\* No note is in it twice.
Single(p) == Apart(p.items) /\ \A i \in DOMAIN p.items : p.items[i].id # p.target.id

LEMMA MadeFields ==
    ASSUME NEW ids, NEW p \in Made(ids)
    PROVE  /\ p.target \in Held(ids) /\ p.items \in Seq(Held(ids))
           /\ p.budget \in Nat /\ p.used \in Int /\ p.room \in Int /\ p.exhausted \in BOOLEAN
           /\ p \in Packs(ids)
BY DEF Made, Packs

LEMMA MadeFull ==
    ASSUME NEW ids, NEW p \in Made(ids)
    PROVE  LET r == [p EXCEPT !.exhausted = TRUE]
           IN  r \in Made(ids) /\ r.target = p.target /\ r.items = p.items
<1> DEFINE r == [p EXCEPT !.exhausted = TRUE]
<1>1. p \in Packs(ids)
  BY DEF Made
<1>2. r.target = p.target /\ r.items = p.items
  BY <1>1 DEF Packs
<1>3. r \in Packs(ids)
  BY <1>1 DEF Packs
<1> HIDE DEF r
<1>4. r \in Made(ids)
  BY <1>2, <1>3 DEF Made
<1> QED BY <1>2, <1>4 DEF r

With(p, items, room, used) == [p EXCEPT !.items = items, !.room = room, !.used = used]

LEMMA MadeMore ==
    ASSUME NEW ids, NEW p \in Made(ids), NEW items \in Seq(Held(ids)), NEW used \in Int, NEW room \in Int
    PROVE  LET r == With(p, items, room, used)
           IN  r \in Made(ids) /\ r.target = p.target /\ r.items = items
<1> DEFINE r == With(p, items, room, used)
<1>1. p \in Packs(ids) /\ items \in Seq(Items(ids))
  BY DEF Made, Held
<1>2. r.target = p.target /\ r.items = items
  BY <1>1 DEF Packs, With
<1>3. r \in Packs(ids)
  BY <1>1 DEF Packs, With
<1> HIDE DEF r
<1>4. r \in Made(ids)
  BY <1>2, <1>3 DEF Made
<1> QED BY <1>2, <1>4 DEF r

LEMMA ItemHeld ==
    ASSUME NEW ids, NEW e \in Edges(ids), NEW n \in Sizes, NEW tokens \in Nat, NEW text \in Texts
    PROVE  Item(e, n, tokens, text) \in Held(ids) /\ Item(e, n, tokens, text).id = e.id
<1>1. Item(e, n, tokens, text).shown = FALSE /\ Item(e, n, tokens, text).id = e.id
  BY DEF Item
<1> QED BY <1>1, ItemTyped DEF Held

\* r is p, with the note of e at its end or without.
Adds(ids, p, e, r) ==
    /\ r \in Made(ids) /\ r.target = p.target
    /\ \/ r.items = p.items
       \/ \E x \in Held(ids) : x.id = e.id /\ r.items = Append(p.items, x)

LEMMA PackItemTyped ==
    ASSUME NEW db, IsDb(db), NEW acts, NEW cfg \in Configs(acts), NEW withBody,
           NEW p \in Made(DOMAIN db.notes), NEW e \in Edges(DOMAIN db.notes)
    PROVE  Adds(DOMAIN db.notes, p, e, PackItem(db, cfg, withBody, p, e))
<1> DEFINE ids == DOMAIN db.notes
           n == db.notes[e.id]
           tokens == extractFrontmatter(n, cfg.slim)
           text == IF withBody THEN attachBody(n, p.room - tokens, cfg) ELSE Carried(0, FALSE, FALSE)
           x == Item(e, n, tokens, text)
           more == [p EXCEPT !.items = Append(@, x),
                             !.room = @ - tokens - text.body, !.used = @ + tokens + text.body]
           full == [p EXCEPT !.exhausted = TRUE]
<1>1. PackItem(db, cfg, withBody, p, e) \in {p, full, more}
  BY DEF PackItem
<1>2. n \in Sizes
  <2>1. e.id \in ids
    BY DEF Edges
  <2> QED BY <2>1 DEF IsDb
<1> HIDE DEF n
<1>3. tokens \in Nat
  BY <1>2 DEF extractFrontmatter, Sizes
<1> HIDE DEF tokens
<1>4. p.room \in Int /\ cfg.excerpt \in Nat /\ cfg.overflow \in {"none", "packed", "selects", "greedy"}
  BY MadeFields DEF Configs
<1>5. Carried(0, FALSE, FALSE) \in Texts
  BY DEF Carried, Texts
<1>6. attachBody(n, p.room - tokens, cfg) \in Texts
  BY <1>2, <1>3, <1>4, AttachTyped
<1>7. text \in Texts
  BY <1>5, <1>6
<1> HIDE DEF text
<1>8. text.body \in Nat
  BY <1>7 DEF Texts
<1>9. x \in Held(ids) /\ x.id = e.id
  BY <1>2, <1>3, <1>7, ItemHeld
<1> HIDE DEF x, ids
<1>0. p \in Made(ids)
  BY DEF ids
<1>10. full \in Made(ids) /\ full.target = p.target /\ full.items = p.items
  BY <1>0, MadeFull
<1>11. more \in Made(ids) /\ more.target = p.target /\ more.items = Append(p.items, x)
  <2> DEFINE items == Append(p.items, x)
             used == p.used + tokens + text.body
             room == p.room - tokens - text.body
  <2>1. items \in Seq(Held(ids)) /\ used \in Int /\ room \in Int
    BY <1>0, <1>3, <1>8, <1>9, MadeFields
  <2>2. more = With(p, items, room, used)
    BY DEF With
  <2> HIDE DEF items, used, room, more
  <2>3. more \in Made(ids) /\ more.target = p.target /\ more.items = items
    BY <2>1, <2>2, <1>0, MadeMore
  <2> QED BY <2>3 DEF items
<1> HIDE DEF full, more
<1>12. p \in Made(ids) /\ p.target = p.target /\ p.items = p.items
  BY <1>0
<1>13. Adds(ids, p, e, p)
  BY <1>12 DEF Adds
<1>14. Adds(ids, p, e, full)
  BY <1>10 DEF Adds
<1>15. Adds(ids, p, e, more)
  BY <1>9, <1>11 DEF Adds
<1> QED BY <1>1, <1>13, <1>14, <1>15 DEF ids

\* The same notes, in the same places.
SameNotes(ids, p, r) ==
    /\ r \in Made(ids) /\ r.target = p.target /\ Len(r.items) = Len(p.items)
    /\ \A i \in 1..Len(p.items) : r.items[i].id = p.items[i].id

LEMMA BackfillTyped ==
    ASSUME NEW db, IsDb(db), NEW acts, NEW cfg \in Configs(acts),
           NEW p \in Made(DOMAIN db.notes), NEW i \in 1..Len(p.items)
    PROVE  SameNotes(DOMAIN db.notes, p, Backfill(db, cfg, p, i))
<1> DEFINE ids == DOMAIN db.notes
           x == p.items[i]
           n == db.notes[x.id]
           text == attachBody(n, p.room, cfg)
           y == [x EXCEPT !.body = text.body, !.excerpted = text.excerpted, !.omitted = text.omitted]
           items == [p.items EXCEPT ![i] = y]
           used == p.used + text.body
           room == p.room - text.body
           r == Backfill(db, cfg, p, i)
<1>0. p \in Made(ids)
  OBVIOUS
<1>1. p.items \in Seq(Held(ids)) /\ p.room \in Int /\ p.used \in Int
  BY MadeFields
<1>2. x \in Held(ids)
  BY <1>1
<1> HIDE DEF x
<1>3. x.id \in ids
  BY <1>2 DEF Held, Items
<1>4. n \in Sizes
  BY <1>3 DEF IsDb
<1>5. cfg.excerpt \in Nat /\ cfg.overflow \in {"none", "packed", "selects", "greedy"}
  BY DEF Configs
<1> HIDE DEF n
<1>6. text \in Texts
  BY <1>1, <1>4, <1>5, AttachTyped
<1>7. r = With(p, items, room, used)
  BY DEF Backfill, With, x, n
<1> HIDE DEF text, r
<1>8. text.body \in Nat /\ text.excerpted \in BOOLEAN /\ text.omitted \in BOOLEAN
  BY <1>6 DEF Texts
<1>9. y \in Held(ids) /\ y.id = x.id
  <2>1. x \in Items(ids) /\ x.shown = FALSE
    BY <1>2 DEF Held
  <2>2. y.id = x.id /\ y.shown = x.shown
    BY <2>1 DEF Items
  <2>3. y \in Items(ids)
    BY <1>8, <2>1 DEF Items
  <2> HIDE DEF y
  <2> QED BY <2>1, <2>2, <2>3 DEF Held
<1> HIDE DEF y, ids
<1>10. items \in Seq(Held(ids)) /\ Len(items) = Len(p.items)
  BY <1>1, <1>9
<1>11. used \in Int /\ room \in Int
  BY <1>1, <1>8
<1>12. \A k \in 1..Len(p.items) : items[k].id = p.items[k].id
  BY <1>1, <1>9 DEF x
<1> HIDE DEF items, used, room
<1>13. r \in Made(ids) /\ r.target = p.target /\ r.items = items
  BY <1>0, <1>7, <1>10, <1>11, MadeMore
<1> QED BY <1>10, <1>12, <1>13 DEF SameNotes, ids, r

-----------------------------------------------------------------------------
(* Packs: what they count *)

Weight(x) == x.fm + x.body

LEMMA ItemSizes == ASSUME NEW ids, NEW x \in Items(ids) PROVE x.fm \in Nat /\ x.body \in Nat /\ Weight(x) \in Nat
<1>1. x.fm \in Nat /\ x.body \in Nat
  BY DEF Items
<1> QED BY <1>1 DEF Weight

\* How a total comes about.
LEMMA TotalHow ==
    ASSUME NEW ids, NEW s \in Seq(Items(ids))
    PROVE  \E h \in [0..Len(s) -> Nat] :
              h[0] = 0 /\ (\A k \in 1..Len(s) : h[k] = h[k - 1] + Weight(s[k])) /\ Total(s) = h[Len(s)]
<1>1. \A k \in 1..Len(s) : s[k].fm \in Nat /\ s[k].body \in Nat
  <2>1. \A k \in 1..Len(s) : s[k] \in Items(ids)
    OBVIOUS
  <2> QED BY <2>1, ItemSizes
<1>2. \A q \in Nat, k \in 1..Len(s) : (q + s[k].fm + s[k].body) \in Nat
  BY <1>1
<1>3. TotalRuns(s, Nat)
  BY <1>2, TotalFold
<1>4. PICK h \in [0..Len(s) -> Nat] :
         h[0] = 0 /\ (\A k \in 1..Len(s) : h[k] = (h[k - 1] + s[k].fm + s[k].body)) /\ Total(s) = h[Len(s)]
  BY <1>3 DEF TotalRuns
<1>5. ASSUME NEW k \in 1..Len(s) PROVE h[k] = h[k - 1] + Weight(s[k])
  <2>1. Len(s) \in Nat /\ k - 1 \in 0..Len(s)
    OBVIOUS
  <2>2. h[k - 1] \in Nat
    BY <2>1
  <2> QED BY <1>1, <1>4, <2>2 DEF Weight
<1> QED BY <1>4, <1>5

\* Two totals that differ by d up to each place differ by it in the end.
LEMMA TotalDiffers ==
    ASSUME NEW ids, NEW s \in Seq(Items(ids)), NEW t \in Seq(Items(ids)), Len(t) = Len(s),
           NEW d, d[0] = 0, \A k \in 0..Len(s) : d[k] \in Int,
           \A k \in 1..Len(s) : d[k] = d[k - 1] + (Weight(t[k]) - Weight(s[k]))
    PROVE  Total(t) = Total(s) + d[Len(s)]
<1> DEFINE n == Len(s)
<1>1. n \in Nat
  OBVIOUS
<1>2. PICK g \in [0..n -> Nat] :
         g[0] = 0 /\ (\A k \in 1..n : g[k] = g[k - 1] + Weight(s[k])) /\ Total(s) = g[n]
  BY TotalHow
<1>3. PICK h \in [0..n -> Nat] :
         h[0] = 0 /\ (\A k \in 1..n : h[k] = h[k - 1] + Weight(t[k])) /\ Total(t) = h[n]
  BY TotalHow
<1> DEFINE R == {k \in Nat : k <= n => h[k] = g[k] + d[k]}
<1>4. 0 \in R
  BY <1>2, <1>3
<1>5. ASSUME NEW k \in Nat, k \in R PROVE k + 1 \in R
  <2> SUFFICES ASSUME k + 1 <= n PROVE h[k + 1] = g[k + 1] + d[k + 1]
    OBVIOUS
  <2>1. k + 1 \in 1..n /\ (k + 1) - 1 = k /\ k \in 0..n /\ h[k] = g[k] + d[k]
    BY <1>1, <1>5
  <2>2. g[k + 1] = g[k] + Weight(s[k + 1])
    BY <1>2, <2>1
  <2>3. h[k + 1] = h[k] + Weight(t[k + 1])
    BY <1>3, <2>1
  <2>4. d[k + 1] = d[k] + (Weight(t[k + 1]) - Weight(s[k + 1]))
    BY <2>1
  <2>5. Weight(s[k + 1]) \in Nat /\ Weight(t[k + 1]) \in Nat
    <3>1. s[k + 1] \in Items(ids) /\ t[k + 1] \in Items(ids)
      BY <2>1
    <3> QED BY <3>1, ItemSizes
  <2>6. g[k] \in Nat /\ h[k] \in Nat /\ d[k] \in Int
    BY <1>2, <1>3, <2>1
  <2> QED BY <2>1, <2>2, <2>3, <2>4, <2>5, <2>6
<1>6. n \in R
  <2> HIDE DEF R
  <2> QED BY <1>1, <1>4, <1>5, NatInduct
<1> QED BY <1>1, <1>2, <1>3, <1>6

\* One item more.
LEMMA TotalMore ==
    ASSUME NEW ids, NEW s \in Seq(Items(ids)), NEW x \in Items(ids)
    PROVE  Total(Append(s, x)) = Total(s) + Weight(x) /\ Total(s) \in Nat /\ Total(<<>>) = 0
<1> DEFINE n == Len(s)
           t == Append(s, x)
<1>1. n \in Nat /\ t \in Seq(Items(ids)) /\ Len(t) = n + 1 /\ t[n + 1] = x /\ \A k \in 1..n : t[k] = s[k]
  OBVIOUS
<1> HIDE DEF t
<1>2. PICK g \in [0..n -> Nat] :
         g[0] = 0 /\ (\A k \in 1..n : g[k] = g[k - 1] + Weight(s[k])) /\ Total(s) = g[n]
  BY TotalHow
<1>3. PICK h \in [0..(n + 1) -> Nat] :
         h[0] = 0 /\ (\A k \in 1..(n + 1) : h[k] = h[k - 1] + Weight(t[k])) /\ Total(t) = h[n + 1]
  BY <1>1, TotalHow
<1> DEFINE R == {k \in Nat : k <= n => h[k] = g[k]}
<1>4. 0 \in R
  BY <1>2, <1>3
<1>5. ASSUME NEW k \in Nat, k \in R PROVE k + 1 \in R
  <2> SUFFICES ASSUME k + 1 <= n PROVE h[k + 1] = g[k + 1]
    OBVIOUS
  <2>1. k + 1 \in 1..n /\ k + 1 \in 1..(n + 1) /\ (k + 1) - 1 = k /\ h[k] = g[k]
    BY <1>1, <1>5
  <2> QED BY <1>1, <1>2, <1>3, <2>1
<1>6. h[n] = g[n]
  <2>1. n \in R
    <3> HIDE DEF R
    <3> QED BY <1>1, <1>4, <1>5, NatInduct
  <2> QED BY <1>1, <2>1
<1>7. h[n + 1] = h[n] + Weight(x)
  <2>1. n + 1 \in 1..(n + 1) /\ (n + 1) - 1 = n
    BY <1>1
  <2> QED BY <1>1, <1>3, <2>1
<1>8. Total(<<>>) = 0
  <2> DEFINE e == <<>>
  <2>1. e \in Seq(Items(ids)) /\ Len(e) = 0
    OBVIOUS
  <2> HIDE DEF e
  <2>2. Total(e) = 0
    BY <2>1, TotalHow
  <2> QED BY <2>2 DEF e
<1>9. Total(s) \in Nat
  BY <1>1, <1>2
<1> QED BY <1>2, <1>3, <1>6, <1>7, <1>8, <1>9 DEF t

\* One item in the place of another.
LEMMA TotalChanged ==
    ASSUME NEW ids, NEW s \in Seq(Items(ids)), NEW t \in Seq(Items(ids)), Len(t) = Len(s), NEW i \in 1..Len(s),
           \A k \in 1..Len(s) : k # i => t[k] = s[k]
    PROVE  Total(t) = Total(s) - Weight(s[i]) + Weight(t[i])
<1> DEFINE n == Len(s)
           w == Weight(t[i]) - Weight(s[i])
           d == [k \in 0..n |-> IF k < i THEN 0 ELSE w]
<1>1. n \in Nat /\ i \in Nat /\ i > 0 /\ i <= n
  OBVIOUS
<1>2. Weight(s[i]) \in Nat /\ Weight(t[i]) \in Nat
  <2>1. s[i] \in Items(ids) /\ t[i] \in Items(ids)
    OBVIOUS
  <2> QED BY <2>1, ItemSizes
<1>3. w \in Int
  BY <1>2
<1>4. ASSUME NEW k \in 1..n PROVE d[k] = d[k - 1] + (Weight(t[k]) - Weight(s[k]))
  <2>0. k \in 0..n /\ k - 1 \in 0..n /\ Weight(t[k]) \in Nat /\ Weight(s[k]) \in Nat
    <3>1. s[k] \in Items(ids) /\ t[k] \in Items(ids)
      OBVIOUS
    <3> QED BY <3>1, <1>1, ItemSizes
  <2>1. CASE k = i
    <3>1. d[k] = w /\ d[k - 1] = 0
      BY <2>0, <2>1, <1>1
    <3> HIDE DEF d
    <3> QED BY <3>1, <2>1, <1>2
  <2>2. CASE k # i
    <3>1. d[k] = d[k - 1]
      BY <2>0, <2>2, <1>1
    <3>2. d[k] \in Int
      BY <2>0, <1>3
    <3> HIDE DEF d
    <3>3. Weight(t[k]) = Weight(s[k])
      BY <2>2
    <3> QED BY <2>0, <3>1, <3>2, <3>3
  <2> QED BY <2>1, <2>2
<1>5. d[0] = 0 /\ d[n] = w /\ \A k \in 0..n : d[k] \in Int
  BY <1>1, <1>3
<1> HIDE DEF d
<1>6. Total(t) = Total(s) + d[n]
  BY <1>4, <1>5, TotalDiffers
<1>7. Total(s) \in Nat
  <2>1. s[i] \in Items(ids)
    OBVIOUS
  <2> QED BY <2>1, TotalMore
<1> QED BY <1>2, <1>5, <1>6, <1>7

LEMMA HeadTotal ==
    ASSUME NEW ids, NEW t \in Items(ids), NEW s \in Seq(Items(ids)), NEW x \in Items(ids)
    PROVE  /\ Total(<<t>> \o Append(s, x)) = Total(<<t>> \o s) + Weight(x)
           /\ Total(<<t>> \o s) \in Nat /\ Total(<<t>> \o <<>>) = Weight(t)
<1> DEFINE h == <<t>>
           e == <<>>
<1>1. h \in Seq(Items(ids)) /\ e \in Seq(Items(ids))
  OBVIOUS
<1>2. h = Append(e, t) /\ h \o e = h
  OBVIOUS
<1>3. h \o s \in Seq(Items(ids))
  BY <1>1
<1> HIDE DEF h
<1>4. AppendsAfter(h, s, x)
  BY <1>1, AppendAfter
<1>5. h \o Append(s, x) = Append(h \o s, x)
  BY <1>4 DEF AppendsAfter
<1> DEFINE u == h \o s
<1>6. u \in Seq(Items(ids))
  BY <1>3
<1> HIDE DEF u
<1>7. Total(Append(u, x)) = Total(u) + Weight(x) /\ Total(u) \in Nat
  BY <1>6, TotalMore
<1>8. Total(h) = Weight(t)
  <2>1. Total(Append(e, t)) = Total(e) + Weight(t) /\ Total(e) = 0 /\ Weight(t) \in Nat
    BY <1>1, TotalMore, ItemSizes
  <2> HIDE DEF e
  <2> QED BY <2>1, <1>2
<1> QED BY <1>2, <1>5, <1>7, <1>8 DEF u, h, e

\* A sequence with one entry ahead of it.
LEMMA OneAhead ==
    ASSUME NEW T, NEW t \in T, NEW s \in Seq(T)
    PROVE  LET a == <<t>> \o s
           IN  /\ a \in Seq(T) /\ Len(a) = Len(s) + 1 /\ a[1] = t
               /\ \A j \in 2..(Len(s) + 1) : a[j] = s[j - 1]
<1> DEFINE h == <<t>>
           a == h \o s
<1>1. h \in Seq(T) /\ Len(h) = 1 /\ h[1] = t /\ Len(s) \in Nat
  OBVIOUS
<1> HIDE DEF h
<1>2. /\ h \o s \in Seq(T) /\ Len(h \o s) = Len(h) + Len(s)
      /\ \A i \in 1..(Len(h) + Len(s)) : (h \o s)[i] = IF i <= Len(h) THEN h[i] ELSE s[i - Len(h)]
  BY <1>1, ConcatProperties
<1>3. a \in Seq(T) /\ Len(a) = 1 + Len(s) /\ \A i \in 1..(1 + Len(s)) : a[i] = IF i <= 1 THEN h[i] ELSE s[i - 1]
  BY <1>1, <1>2
<1> HIDE DEF a
<1>4. Len(a) = Len(s) + 1 /\ a[1] = t
  BY <1>1, <1>3
<1>5. ASSUME NEW j \in 2..(Len(s) + 1) PROVE a[j] = s[j - 1]
  <2>1. j \in 1..(1 + Len(s)) /\ ~(j <= 1)
    BY <1>1
  <2> QED BY <2>1, <1>3
<1> QED BY <1>3, <1>4, <1>5 DEF a, h

\* A total with the i-th item in another form.
LEMMA HeadChanged ==
    ASSUME NEW ids, NEW t \in Items(ids), NEW s \in Seq(Items(ids)), NEW i \in 1..Len(s), NEW y \in Items(ids)
    PROVE  Total(<<t>> \o [s EXCEPT ![i] = y]) = Total(<<t>> \o s) - Weight(s[i]) + Weight(y)
<1> DEFINE h == <<t>>
           r == [s EXCEPT ![i] = y]
           a == h \o s
           b == h \o r
           k == i + 1
<1>1. h \in Seq(Items(ids)) /\ Len(h) = 1 /\ r \in Seq(Items(ids)) /\ Len(r) = Len(s) /\ Len(s) \in Nat
  OBVIOUS
<1>2. \A j \in 1..Len(s) : r[j] = IF j = i THEN y ELSE s[j]
  OBVIOUS
<1> HIDE DEF r
<1>3. /\ a \in Seq(Items(ids)) /\ b \in Seq(Items(ids)) /\ Len(a) = Len(s) + 1 /\ Len(b) = Len(s) + 1
      /\ a[1] = t /\ b[1] = t
      /\ \A j \in 2..(Len(s) + 1) : a[j] = s[j - 1] /\ b[j] = r[j - 1]
  <2>1. a \in Seq(Items(ids)) /\ Len(a) = Len(s) + 1 /\ a[1] = t /\ \A j \in 2..(Len(s) + 1) : a[j] = s[j - 1]
    BY OneAhead
  <2>2. b \in Seq(Items(ids)) /\ Len(b) = Len(r) + 1 /\ b[1] = t /\ \A j \in 2..(Len(r) + 1) : b[j] = r[j - 1]
    BY <1>1, OneAhead
  <2> HIDE DEF a, b
  <2> QED BY <2>1, <2>2, <1>1
<1> HIDE DEF a, b
<1>4. k \in 1..Len(a) /\ Len(b) = Len(a) /\ a[k] = s[i] /\ b[k] = y
  BY <1>1, <1>2, <1>3
<1>5. ASSUME NEW j \in 1..Len(a), j # k PROVE b[j] = a[j]
  <2>1. CASE j = 1
    BY <2>1, <1>3
  <2>2. CASE j \in 2..(Len(s) + 1)
    <3>1. j - 1 \in 1..Len(s) /\ j - 1 # i
      BY <2>2, <1>1, <1>5
    <3> QED BY <3>1, <2>2, <1>2, <1>3
  <2> QED BY <2>1, <2>2, <1>1, <1>3
<1> HIDE DEF k
<1>6. Total(b) = Total(a) - Weight(a[k]) + Weight(b[k])
  <2>1. a \in Seq(Items(ids)) /\ b \in Seq(Items(ids)) /\ Len(b) = Len(a) /\ k \in 1..Len(a)
    BY <1>3, <1>4
  <2>2. \A j \in 1..Len(a) : j # k => b[j] = a[j]
    BY <1>5
  <2> HIDE DEF h
  <2> QED BY <2>1, <2>2, TotalChanged
<1>7. Total(b) = Total(a) - Weight(s[i]) + Weight(y)
  BY <1>4, <1>6
<1> QED BY <1>7 DEF a, b, h, r

LEMMA HeadSwapped ==
    ASSUME NEW ids, NEW t \in Items(ids), NEW x \in Items(ids), NEW s \in Seq(Items(ids))
    PROVE  /\ Total(<<x>> \o s) = Total(<<t>> \o s) - Weight(t) + Weight(x)
           /\ Total(<<t>> \o s) \in Nat
<1> DEFINE a == <<t>> \o s
           b == <<x>> \o s
<1>1. a \in Seq(Items(ids)) /\ Len(a) = Len(s) + 1 /\ a[1] = t /\ \A k \in 1..Len(s) : a[k + 1] = s[k]
  OBVIOUS
<1>2. b \in Seq(Items(ids)) /\ Len(b) = Len(s) + 1 /\ b[1] = x /\ \A k \in 1..Len(s) : b[k + 1] = s[k]
  OBVIOUS
<1>3. Len(s) \in Nat
  OBVIOUS
<1> HIDE DEF a, b
<1>4. 1 \in 1..Len(a)
  BY <1>1, <1>3
<1>5. ASSUME NEW k \in 1..Len(a), k # 1 PROVE b[k] = a[k]
  <2>1. k - 1 \in 1..Len(s) /\ (k - 1) + 1 = k
    BY <1>1, <1>3, <1>5
  <2> QED BY <2>1, <1>1, <1>2
<1>6. Total(b) = Total(a) - Weight(a[1]) + Weight(b[1])
  BY <1>1, <1>2, <1>4, <1>5, TotalChanged
<1>7. Total(a) \in Nat
  BY <1>1, TotalMore
<1> QED BY <1>1, <1>2, <1>6, <1>7 DEF a, b

-----------------------------------------------------------------------------
(* Packs: the candidates packed in turn *)

LEMMA WithFields ==
    ASSUME NEW ids, NEW p \in Packs(ids), NEW items, NEW room, NEW used
    PROVE  LET r == With(p, items, room, used)
           IN  /\ r.target = p.target /\ r.items = items /\ r.room = room /\ r.used = used
               /\ r.budget = p.budget /\ r.exhausted = p.exhausted
BY DEF With, Packs

LEMMA FullFields ==
    ASSUME NEW ids, NEW p \in Packs(ids)
    PROVE  LET r == [p EXCEPT !.exhausted = TRUE]
           IN  /\ r.target = p.target /\ r.items = p.items /\ r.room = p.room /\ r.used = p.used
               /\ r.budget = p.budget /\ r.exhausted
BY DEF Packs

\* x is what of e's note is packed where there is room for as much.
Packed(db, cfg, withBody, e, x, room) ==
    /\ x \in Held(DOMAIN db.notes) /\ x.id = e.id /\ x.type = e.type /\ x.confidence = e.confidence
    /\ Weight(x) <= room
    /\ IF withBody THEN TextBlamed(db.notes[e.id], cfg, x, room - Weight(x)) ELSE x.body = 0

\* A candidate is packed ...
PackedOn(db, cfg, withBody, p, e, r) ==
    /\ ~p.exhausted /\ (withBody => Len(p.items) < cfg.maxItems)
    /\ \E x \in Held(DOMAIN db.notes) :
          /\ Packed(db, cfg, withBody, e, x, p.room)
          /\ r.items = Append(p.items, x) /\ r.room = p.room - Weight(x) /\ r.used = p.used + Weight(x)
    /\ r.exhausted = p.exhausted

\* ... or ends the pack, or comes when it has ended.
EndedOn(cfg, withBody, p, r) ==
    /\ r.items = p.items /\ r.room = p.room /\ r.used = p.used
    /\ r.exhausted \/ (withBody /\ Len(p.items) >= cfg.maxItems)
    /\ p.exhausted => r.exhausted

LEMMA PackItemMakes ==
    ASSUME NEW db, IsDb(db), NEW acts, NEW cfg \in Configs(acts), NEW withBody \in BOOLEAN,
           NEW p \in Made(DOMAIN db.notes), p.room >= 0, NEW e \in Edges(DOMAIN db.notes)
    PROVE  LET r == PackItem(db, cfg, withBody, p, e)
           IN  /\ r \in Made(DOMAIN db.notes) /\ r.target = p.target /\ r.budget = p.budget
               /\ PackedOn(db, cfg, withBody, p, e, r) \/ EndedOn(cfg, withBody, p, r)
<1> DEFINE ids == DOMAIN db.notes
           n == db.notes[e.id]
           tokens == extractFrontmatter(n, cfg.slim)
           text == IF withBody THEN attachBody(n, p.room - tokens, cfg) ELSE Carried(0, FALSE, FALSE)
           x == Item(e, n, tokens, text)
           room == p.room - tokens - text.body
           used == p.used + tokens + text.body
           items == Append(p.items, x)
           more == With(p, items, room, used)
           full == [p EXCEPT !.exhausted = TRUE]
           r == PackItem(db, cfg, withBody, p, e)
           ended == p.exhausted \/ (withBody /\ Len(p.items) >= cfg.maxItems)
<1>1. r = IF ended THEN p ELSE IF tokens > p.room THEN full ELSE more
  BY DEF PackItem, With
<1>2. n \in Sizes
  <2>1. e.id \in ids
    BY DEF Edges
  <2> QED BY <2>1 DEF IsDb
<1> HIDE DEF n
<1>3. tokens \in Nat
  BY <1>2 DEF extractFrontmatter, Sizes
<1> HIDE DEF tokens
<1>4. /\ p \in Made(ids) /\ p \in Packs(ids) /\ p.room \in Int /\ p.used \in Int /\ p.items \in Seq(Held(ids))
      /\ p.exhausted \in BOOLEAN /\ cfg.maxItems \in Nat
      /\ cfg.excerpt \in Nat /\ cfg.overflow \in {"none", "packed", "selects", "greedy"}
  BY MadeFields DEF Configs
<1>5. r \in Made(ids) /\ r.target = p.target
  <2>1. Adds(ids, p, e, r)
    BY PackItemTyped
  <2> QED BY <2>1 DEF Adds
<1> HIDE DEF r
<1>6. CASE ended
  BY <1>1, <1>4, <1>5, <1>6 DEF EndedOn, r
<1>7. CASE ~ended /\ tokens > p.room
  <2>1. r = full
    BY <1>1, <1>7
  <2>2. /\ full.target = p.target /\ full.items = p.items /\ full.room = p.room /\ full.used = p.used
        /\ full.budget = p.budget /\ full.exhausted
    BY <1>4, FullFields
  <2> HIDE DEF full
  <2> QED BY <1>5, <2>1, <2>2 DEF EndedOn, r
<1>8. CASE ~ended /\ ~(tokens > p.room)
  <2>1. r = more
    BY <1>1, <1>8
  <2> DEFINE left == p.room - tokens
  <2>2. left \in Nat
    BY <1>3, <1>4, <1>8
  <2>3. /\ text \in Texts /\ text.body <= left
        /\ IF withBody THEN TextBlamed(n, cfg, text, left) ELSE text.body = 0
    <3>1. CASE withBody
      <4>1. text = attachBody(n, left, cfg)
        BY <3>1
      <4> HIDE DEF text, left
      <4> QED BY <3>1, <4>1, <1>2, <1>4, <2>2, AttachFits
    <3>2. CASE ~withBody
      <4>1. text = Carried(0, FALSE, FALSE)
        BY <3>2
      <4> HIDE DEF left, text
      <4> QED BY <3>2, <4>1, <2>2 DEF Carried, Texts
    <3> QED BY <3>1, <3>2
  <2> HIDE DEF text
  <2>4. text.body \in Nat
    BY <2>3 DEF Texts
  <2>5. x \in Held(ids) /\ x.id = e.id
    BY <1>2, <1>3, <2>3, ItemHeld
  <2>6. /\ x.type = e.type /\ x.confidence = e.confidence
        /\ x.fm = tokens /\ x.body = text.body /\ x.omitted = text.omitted
    BY DEF Item
  <2> HIDE DEF x
  <2>7. Weight(x) = tokens + text.body
    BY <2>6 DEF Weight
  <2>8. Weight(x) <= p.room /\ room = p.room - Weight(x) /\ used = p.used + Weight(x) /\ room <= left
    BY <1>3, <1>4, <2>2, <2>3, <2>4, <2>7
  <2>9. IF withBody THEN TextBlamed(n, cfg, x, p.room - Weight(x)) ELSE x.body = 0
    <3>1. CASE withBody
      <4>1. TextBlamed(n, cfg, text, left)
        BY <2>3, <3>1
      <4>2. left <= 0 => p.room - Weight(x) <= 0
        BY <1>4, <2>2, <2>4, <2>7, <2>8, <1>3
      <4> HIDE DEF left
      <4>3. TextBlamed(n, cfg, x, p.room - Weight(x))
        BY <4>1, <4>2, <2>6 DEF TextBlamed
      <4> QED BY <4>3, <3>1
    <3>2. CASE ~withBody
      BY <3>2, <2>3, <2>6
    <3> QED BY <3>1, <3>2
  <2>10. Packed(db, cfg, withBody, e, x, p.room)
    BY <2>5, <2>6, <2>8, <2>9 DEF Packed, n
  <2> HIDE DEF left, room, used, items
  <2>11. /\ more.target = p.target /\ more.items = items /\ more.room = room /\ more.used = used
         /\ more.budget = p.budget /\ more.exhausted = p.exhausted
    BY <1>4, WithFields
  <2> HIDE DEF more
  <2>12. items = Append(p.items, x)
    BY DEF items
  <2>13. withBody => Len(p.items) < cfg.maxItems
    <3>1. Len(p.items) \in Nat
      BY <1>4
    <3> QED BY <3>1, <1>4, <1>8
  <2>14. r.items = Append(p.items, x) /\ r.room = p.room - Weight(x) /\ r.used = p.used + Weight(x)
    BY <2>1, <2>8, <2>11, <2>12
  <2>15. r.exhausted = p.exhausted /\ r.budget = p.budget /\ ~p.exhausted
    BY <2>1, <2>11, <1>8
  <2>16. PackedOn(db, cfg, withBody, p, e, r)
    BY <2>5, <2>10, <2>13, <2>14, <2>15 DEF PackedOn
  <2> QED BY <1>5, <2>15, <2>16 DEF r
<1> QED BY <1>6, <1>7, <1>8

ItemBlamed(db, cfg, x, room) == TextBlamed(db.notes[x.id], cfg, x, room)

\* The count is right, there is room or none is left, the first n items have had
\* what text there was for them, and the others have none.
Sound(db, cfg, p, n) ==
    /\ p \in Made(DOMAIN db.notes) /\ p.room >= 0 /\ p.used + p.room = p.budget
    /\ p.used = Total(<<p.target>> \o p.items)
    /\ \A i \in 1..Len(p.items) :
          IF i <= n THEN ItemBlamed(db, cfg, p.items[i], p.room) ELSE p.items[i].body = 0

SameEdge(x, e) == x.id = e.id /\ x.type = e.type /\ x.confidence = e.confidence

\* The items are the first candidates, all k unless the pack has ended.
Follows(cfg, withBody, p, cands, k) ==
    /\ Len(p.items) <= k /\ (withBody => Len(p.items) <= cfg.maxItems)
    /\ \A i \in 1..Len(p.items) : SameEdge(p.items[i], cands[i])
    /\ Len(p.items) = k \/ p.exhausted \/ (withBody /\ Len(p.items) = cfg.maxItems)

\* The items that have their text.
Texted(withBody, p) == IF withBody THEN Len(p.items) ELSE 0

LEMMA BlamedLess ==
    ASSUME NEW n, NEW cfg, NEW text, NEW room \in Int, NEW less \in Int, less <= room, TextBlamed(n, cfg, text, room)
    PROVE  TextBlamed(n, cfg, text, less)
BY DEF TextBlamed

LEMMA SoundStep ==
    ASSUME NEW db, IsDb(db), NEW acts, NEW cfg \in Configs(acts), NEW withBody \in BOOLEAN,
           NEW p, Sound(db, cfg, p, Texted(withBody, p)), NEW e \in Edges(DOMAIN db.notes)
    PROVE  LET r == PackItem(db, cfg, withBody, p, e)
           IN  /\ Sound(db, cfg, r, Texted(withBody, r)) /\ r.target = p.target /\ r.budget = p.budget
               /\ PackedOn(db, cfg, withBody, p, e, r) \/ EndedOn(cfg, withBody, p, r)
<1> DEFINE ids == DOMAIN db.notes
           r == PackItem(db, cfg, withBody, p, e)
<1>1. /\ p \in Made(ids) /\ p.room >= 0 /\ p.used + p.room = p.budget
      /\ p.used = Total(<<p.target>> \o p.items)
      /\ \A i \in 1..Len(p.items) :
            IF withBody THEN ItemBlamed(db, cfg, p.items[i], p.room) ELSE p.items[i].body = 0
  BY DEF Sound, Texted
<1>2. /\ r \in Made(ids) /\ r.target = p.target /\ r.budget = p.budget
      /\ PackedOn(db, cfg, withBody, p, e, r) \/ EndedOn(cfg, withBody, p, r)
  BY <1>1, PackItemMakes
<1>3. /\ p.items \in Seq(Held(ids)) /\ p.room \in Int /\ p.used \in Int /\ p.budget \in Nat
      /\ p.target \in Items(ids) /\ p.items \in Seq(Items(ids))
  <2>1. p.items \in Seq(Held(ids)) /\ p.room \in Int /\ p.used \in Int /\ p.budget \in Nat /\ p.target \in Held(ids)
    BY <1>1, MadeFields
  <2> QED BY <2>1 DEF Held
<1> HIDE DEF r
<1> SUFFICES Sound(db, cfg, r, Texted(withBody, r))
  BY <1>2 DEF r
<1>4. CASE EndedOn(cfg, withBody, p, r)
  <2>1. r.items = p.items /\ r.room = p.room /\ r.used = p.used
    BY <1>4 DEF EndedOn
  <2> QED BY <2>1, <1>1, <1>2 DEF Sound, Texted
<1>5. CASE PackedOn(db, cfg, withBody, p, e, r)
  <2>1. PICK x \in Held(ids) : /\ Packed(db, cfg, withBody, e, x, p.room) /\ r.items = Append(p.items, x)
                               /\ r.room = p.room - Weight(x) /\ r.used = p.used + Weight(x)
    BY <1>5 DEF PackedOn
  <2>2. /\ x \in Items(ids) /\ x.id = e.id /\ Weight(x) <= p.room /\ Weight(x) \in Nat
        /\ IF withBody THEN TextBlamed(db.notes[e.id], cfg, x, p.room - Weight(x)) ELSE x.body = 0
    <3>1. x \in Items(ids)
      BY <2>1 DEF Held
    <3> QED BY <3>1, <2>1, ItemSizes DEF Packed
  <2>3. r.room \in Int /\ r.room >= 0 /\ r.room <= p.room /\ r.used + r.room = r.budget
    BY <1>1, <1>2, <1>3, <2>1, <2>2
  <2>4. r.used = Total(<<r.target>> \o r.items)
    <3> DEFINE a == Total(<<p.target>> \o p.items)
               b == Total(<<p.target>> \o Append(p.items, x))
    <3>1. b = a + Weight(x)
      BY <1>3, <2>2, HeadTotal
    <3>2. Total(<<r.target>> \o r.items) = b
      BY <1>2, <2>1
    <3>3. p.used = a
      BY <1>1
    <3> HIDE DEF a, b
    <3> QED BY <3>1, <3>2, <3>3, <2>1
  <2>5. /\ Len(p.items) \in Nat /\ Len(r.items) = Len(p.items) + 1 /\ r.items[Len(p.items) + 1] = x
        /\ \A i \in 1..Len(p.items) : r.items[i] = p.items[i]
    BY <1>3, <2>1, <2>2
  <2>6. ASSUME NEW i \in 1..Len(r.items)
        PROVE  IF withBody THEN ItemBlamed(db, cfg, r.items[i], r.room) ELSE r.items[i].body = 0
    <3>1. CASE i \in 1..Len(p.items)
      <4>1. r.items[i] = p.items[i]
        BY <2>5, <3>1
      <4>2. IF withBody THEN ItemBlamed(db, cfg, p.items[i], p.room) ELSE p.items[i].body = 0
        BY <1>1, <3>1
      <4>3. CASE withBody
        <5> DEFINE y == p.items[i]
        <5>1. TextBlamed(db.notes[y.id], cfg, y, p.room)
          BY <4>2, <4>3 DEF ItemBlamed
        <5> HIDE DEF y
        <5>2. TextBlamed(db.notes[y.id], cfg, y, r.room)
          BY <5>1, <1>3, <2>3, BlamedLess
        <5> QED BY <5>2, <4>1, <4>3 DEF ItemBlamed, y
      <4> QED BY <4>1, <4>2, <4>3
    <3>2. CASE i = Len(p.items) + 1
      <4>1. r.items[i] = x
        BY <2>5, <3>2
      <4> QED BY <4>1, <2>1, <2>2 DEF ItemBlamed
    <3> QED BY <3>1, <3>2, <2>5
  <2>7. ASSUME NEW i \in 1..Len(r.items)
        PROVE  IF i <= Texted(withBody, r) THEN ItemBlamed(db, cfg, r.items[i], r.room) ELSE r.items[i].body = 0
    BY <2>6, <2>5 DEF Texted
  <2> QED BY <1>2, <2>3, <2>4, <2>7 DEF Sound
<1> QED BY <1>2, <1>4, <1>5

LEMMA FollowStep ==
    ASSUME NEW ids, NEW db, DOMAIN db.notes = ids, NEW cfg, cfg.maxItems \in Nat, NEW withBody \in BOOLEAN,
           NEW p, p.items \in Seq(Held(ids)), NEW r, NEW cands, NEW k \in Nat \ {0},
           Follows(cfg, withBody, p, cands, k - 1),
           PackedOn(db, cfg, withBody, p, cands[k], r) \/ EndedOn(cfg, withBody, p, r)
    PROVE  Follows(cfg, withBody, r, cands, k)
<1>1. /\ Len(p.items) \in Nat /\ Len(p.items) <= k - 1 /\ (withBody => Len(p.items) <= cfg.maxItems)
      /\ \A i \in 1..Len(p.items) : SameEdge(p.items[i], cands[i])
      /\ Len(p.items) = k - 1 \/ p.exhausted \/ (withBody /\ Len(p.items) = cfg.maxItems)
  BY DEF Follows
<1>2. CASE EndedOn(cfg, withBody, p, r)
  <2>1. r.exhausted \/ (withBody /\ Len(p.items) >= cfg.maxItems)
    BY <1>2 DEF EndedOn
  <2>2. r.exhausted \/ (withBody /\ Len(p.items) = cfg.maxItems)
    BY <1>1, <2>1
  <2>3. r.items = p.items /\ Len(r.items) <= k
    BY <1>1, <1>2 DEF EndedOn
  <2> QED BY <2>2, <2>3, <1>1 DEF Follows
<1>3. CASE PackedOn(db, cfg, withBody, p, cands[k], r)
  <2>1. ~p.exhausted /\ (withBody => Len(p.items) < cfg.maxItems)
    BY <1>3 DEF PackedOn
  <2>2. PICK x \in Held(ids) : SameEdge(x, cands[k]) /\ r.items = Append(p.items, x)
    BY <1>3 DEF PackedOn, Packed, SameEdge
  <2>3. Len(p.items) = k - 1
    BY <1>1, <2>1
  <2>4. /\ Len(r.items) = Len(p.items) + 1 /\ r.items[Len(p.items) + 1] = x
        /\ \A i \in 1..Len(p.items) : r.items[i] = p.items[i]
    BY <2>2
  <2>5. ASSUME NEW i \in 1..Len(r.items) PROVE SameEdge(r.items[i], cands[i])
    <3>1. CASE i \in 1..Len(p.items)
      BY <3>1, <1>1, <2>4
    <3>2. CASE i = Len(p.items) + 1
      <4>1. i = k
        BY <2>3, <3>2
      <4> QED BY <4>1, <3>2, <2>2, <2>4
    <3> QED BY <3>1, <3>2, <2>4, <1>1
  <2>6. Len(r.items) = k /\ (withBody => Len(r.items) <= cfg.maxItems)
    BY <1>1, <2>1, <2>3, <2>4
  <2> QED BY <2>5, <2>6 DEF Follows
<1> QED BY <1>2, <1>3

\* What is packed of the candidates.
LEMMA PackAllSound ==
    ASSUME NEW db, IsDb(db), NEW acts, NEW cfg \in Configs(acts), NEW withBody \in BOOLEAN,
           NEW p, Sound(db, cfg, p, 0), p.items = <<>>, NEW cands \in Seq(Edges(DOMAIN db.notes))
    PROVE  LET r == packAll(db, cfg, withBody, p, cands)
           IN  /\ Sound(db, cfg, r, Texted(withBody, r)) /\ r.target = p.target /\ r.budget = p.budget
               /\ Follows(cfg, withBody, r, cands, Len(cands))
<1> DEFINE ids == DOMAIN db.notes
           n == Len(cands)
           S == {q \in Made(ids) : Sound(db, cfg, q, Texted(withBody, q)) /\ q.target = p.target /\ q.budget = p.budget}
<1>1. n \in Nat /\ \A k \in 1..n : cands[k] \in Edges(ids)
  OBVIOUS
<1>2. p \in S
  <2>1. Texted(withBody, p) = 0
    BY DEF Texted
  <2> QED BY <2>1 DEF Sound
<1>3. ASSUME NEW q \in S, NEW k \in 1..n
      PROVE  /\ PackItem(db, cfg, withBody, q, cands[k]) \in S
             /\ \/ PackedOn(db, cfg, withBody, q, cands[k], PackItem(db, cfg, withBody, q, cands[k]))
                \/ EndedOn(cfg, withBody, q, PackItem(db, cfg, withBody, q, cands[k]))
  <2> DEFINE e == cands[k]
             r == PackItem(db, cfg, withBody, q, e)
  <2>1. e \in Edges(ids)
    BY <1>1
  <2> HIDE DEF e
  <2>2. /\ Sound(db, cfg, r, Texted(withBody, r)) /\ r.target = q.target /\ r.budget = q.budget
        /\ PackedOn(db, cfg, withBody, q, e, r) \/ EndedOn(cfg, withBody, q, r)
    BY <2>1, SoundStep
  <2> HIDE DEF r
  <2>3. r \in S
    BY <2>2 DEF Sound
  <2> QED BY <2>2, <2>3 DEF r, e
<1> HIDE DEF S
<1>4. PackRuns(db, cfg, withBody, p, cands, S)
  BY <1>2, <1>3, PackFold
<1>5. PICK h \in [0..n -> S] :
         /\ h[0] = p
         /\ \A k \in 1..n : h[k] = PackItem(db, cfg, withBody, h[k - 1], cands[k])
         /\ packAll(db, cfg, withBody, p, cands) = h[n]
  BY <1>4 DEF PackRuns
<1> DEFINE R == {k \in Nat : k <= n => Follows(cfg, withBody, h[k], cands, k)}
<1>6. 0 \in R
  <2>1. h[0].items = <<>> /\ cfg.maxItems \in Nat
    BY <1>5 DEF Configs
  <2>2. Follows(cfg, withBody, h[0], cands, 0)
    BY <2>1 DEF Follows
  <2> QED BY <2>2
<1>7. ASSUME NEW k \in Nat, k \in R PROVE k + 1 \in R
  <2> SUFFICES ASSUME k + 1 <= n PROVE Follows(cfg, withBody, h[k + 1], cands, k + 1)
    OBVIOUS
  <2>1. k + 1 \in 1..n /\ (k + 1) - 1 = k /\ k \in 0..n /\ Follows(cfg, withBody, h[k], cands, k)
    BY <1>1, <1>7
  <2>2. h[k] \in S /\ h[k + 1] = PackItem(db, cfg, withBody, h[k], cands[k + 1])
    BY <1>5, <2>1
  <2> DEFINE q == h[k]
             r == h[k + 1]
  <2>3. PackedOn(db, cfg, withBody, q, cands[k + 1], r) \/ EndedOn(cfg, withBody, q, r)
    BY <1>3, <2>1, <2>2
  <2>4. q.items \in Seq(Held(ids)) /\ cfg.maxItems \in Nat
    BY <2>2, MadeFields DEF S, Configs
  <2> HIDE DEF q, r
  <2>5. k + 1 \in Nat \ {0} /\ Follows(cfg, withBody, q, cands, (k + 1) - 1)
    BY <2>1 DEF q
  <2>6. Follows(cfg, withBody, r, cands, k + 1)
    BY <2>3, <2>4, <2>5, FollowStep
  <2> QED BY <2>6 DEF r
<1>8. n \in R
  <2> HIDE DEF R
  <2> QED BY <1>1, <1>6, <1>7, NatInduct
<1>9. h[n] \in S
  BY <1>1, <1>5
<1> QED BY <1>1, <1>5, <1>8, <1>9 DEF S

\* The same pack, but for the text of its items.
SameButText(p, r) ==
    /\ r.target = p.target /\ r.budget = p.budget /\ r.exhausted = p.exhausted
    /\ Len(r.items) = Len(p.items) /\ \A i \in 1..Len(p.items) : SameEdge(r.items[i], p.items[i])

LEMMA FillStep ==
    ASSUME NEW db, IsDb(db), NEW acts, NEW cfg \in Configs(acts),
           NEW p, NEW k \in 1..Len(p.items), Sound(db, cfg, p, k - 1)
    PROVE  Sound(db, cfg, Backfill(db, cfg, p, k), k) /\ SameButText(p, Backfill(db, cfg, p, k))
<1> DEFINE ids == DOMAIN db.notes
           x == p.items[k]
           n == db.notes[x.id]
           text == attachBody(n, p.room, cfg)
           y == [x EXCEPT !.body = text.body, !.excerpted = text.excerpted, !.omitted = text.omitted]
           items == [p.items EXCEPT ![k] = y]
           used == p.used + text.body
           room == p.room - text.body
           r == Backfill(db, cfg, p, k)
<1>1. /\ p \in Made(ids) /\ p.room >= 0 /\ p.used + p.room = p.budget
      /\ p.used = Total(<<p.target>> \o p.items)
      /\ \A i \in 1..Len(p.items) :
            IF i <= k - 1 THEN ItemBlamed(db, cfg, p.items[i], p.room) ELSE p.items[i].body = 0
  BY DEF Sound
<1>2. /\ p.items \in Seq(Held(ids)) /\ p.room \in Nat /\ p.used \in Int /\ p.budget \in Nat /\ p \in Packs(ids)
      /\ p.target \in Items(ids) /\ p.items \in Seq(Items(ids)) /\ Len(p.items) \in Nat
  <2>1. /\ p.items \in Seq(Held(ids)) /\ p.room \in Int /\ p.used \in Int /\ p.budget \in Nat /\ p.target \in Held(ids)
        /\ p \in Packs(ids)
    BY <1>1, MadeFields
  <2> QED BY <2>1, <1>1 DEF Held
<1>3. x \in Items(ids) /\ x.id \in ids /\ x.body = 0
  <2>1. x \in Items(ids)
    BY <1>2
  <2>2. x.body = 0
    <3>1. ~(k <= k - 1)
      OBVIOUS
    <3> QED BY <1>1, <3>1
  <2> QED BY <2>1, <2>2 DEF Items
<1>4. n \in Sizes /\ cfg.excerpt \in Nat /\ cfg.overflow \in {"none", "packed", "selects", "greedy"}
  BY <1>3 DEF IsDb, Configs
<1>5. r = With(p, items, room, used)
  BY DEF Backfill, With
<1>6. r \in Made(ids)
  <2>1. SameNotes(ids, p, r)
    BY <1>1, BackfillTyped
  <2> QED BY <2>1 DEF SameNotes
<1> HIDE DEF n, r, x
<1>7. text \in Texts /\ text.body <= p.room /\ TextBlamed(n, cfg, text, p.room)
  BY <1>2, <1>4, AttachFits
<1> HIDE DEF text
<1>8. text.body \in Nat
  BY <1>7 DEF Texts
<1>9. /\ y \in Items(ids) /\ y.id = x.id /\ y.type = x.type /\ y.confidence = x.confidence
      /\ y.fm = x.fm /\ y.body = text.body /\ y.omitted = text.omitted
  <2>1. text.body \in Nat /\ text.excerpted \in BOOLEAN /\ text.omitted \in BOOLEAN
    BY <1>7 DEF Texts
  <2> QED BY <2>1, <1>3 DEF Items
<1> HIDE DEF y
<1>10. Weight(y) = Weight(x) + text.body /\ Weight(x) \in Nat
  <2>1. x.fm \in Nat
    BY <1>3, ItemSizes
  <2> QED BY <2>1, <1>3, <1>8, <1>9 DEF Weight
<1>11. /\ r.target = p.target /\ r.items = items /\ r.room = room /\ r.used = used
       /\ r.budget = p.budget /\ r.exhausted = p.exhausted
  <2> HIDE DEF items, room, used
  <2> QED BY <1>2, <1>5, WithFields
<1>12. Len(items) = Len(p.items) /\ items[k] = y /\ \A i \in 1..Len(p.items) : i # k => items[i] = p.items[i]
  BY <1>2
<1>13. used = Total(<<p.target>> \o items)
  <2> DEFINE a == Total(<<p.target>> \o p.items)
             b == Total(<<p.target>> \o items)
  <2>1. b = a - Weight(p.items[k]) + Weight(y)
    BY <1>2, <1>9, HeadChanged
  <2>2. a = p.used
    BY <1>1
  <2> HIDE DEF a, b
  <2>3. b = p.used + text.body
    BY <2>1, <2>2, <1>2, <1>8, <1>10 DEF x
  <2> QED BY <2>3 DEF b
<1>14. room \in Nat /\ room <= p.room /\ used + room = p.budget
  BY <1>1, <1>2, <1>7, <1>8
<1> HIDE DEF items, room, used
<1>15. ASSUME NEW i \in 1..Len(items)
       PROVE  IF i <= k THEN ItemBlamed(db, cfg, items[i], room) ELSE items[i].body = 0
  <2>0. i \in Nat /\ k \in Nat /\ i \in 1..Len(p.items)
    BY <1>2, <1>12
  <2>1. CASE i < k
    <3>1. items[i] = p.items[i] /\ ItemBlamed(db, cfg, p.items[i], p.room)
      BY <2>0, <2>1, <1>1, <1>12
    <3> DEFINE z == p.items[i]
    <3>2. TextBlamed(db.notes[z.id], cfg, z, p.room)
      BY <3>1 DEF ItemBlamed
    <3> HIDE DEF z
    <3>3. TextBlamed(db.notes[z.id], cfg, z, room)
      BY <3>2, <1>2, <1>14, BlamedLess
    <3> QED BY <3>1, <3>3, <2>0, <2>1 DEF ItemBlamed, z
  <2>2. CASE i = k
    <3>1. items[i] = y
      BY <2>2, <1>12
    <3>2. TextBlamed(n, cfg, text, room)
      <4>1. room \in Int /\ p.room \in Int
        BY <1>2, <1>14
      <4> QED BY <4>1, <1>7, <1>14, BlamedLess
    <3>3. TextBlamed(n, cfg, y, room)
      BY <3>2, <1>9 DEF TextBlamed
    <3>4. n = db.notes[y.id]
      BY <1>9 DEF n
    <3> QED BY <3>1, <3>3, <3>4, <2>0, <2>2 DEF ItemBlamed
  <2>3. CASE i > k
    <3>1. items[i] = p.items[i] /\ p.items[i].body = 0
      BY <2>0, <2>3, <1>1, <1>12
    <3> QED BY <3>1, <2>0, <2>3
  <2> QED BY <2>0, <2>1, <2>2, <2>3
<1>16. Sound(db, cfg, r, k)
  BY <1>6, <1>11, <1>13, <1>14, <1>15 DEF Sound
<1>17. SameButText(p, r)
  <2>1. ASSUME NEW i \in 1..Len(p.items) PROVE SameEdge(items[i], p.items[i])
    <3>1. CASE i = k
      BY <3>1, <1>9, <1>12 DEF SameEdge, x
    <3>2. CASE i # k
      BY <3>2, <1>12 DEF SameEdge
    <3> QED BY <3>1, <3>2
  <2> QED BY <2>1, <1>11, <1>12 DEF SameButText
<1> QED BY <1>16, <1>17 DEF r

LEMMA FillSound ==
    ASSUME NEW db, IsDb(db), NEW acts, NEW cfg \in Configs(acts), NEW p, Sound(db, cfg, p, 0)
    PROVE  LET r == backfillAll(db, cfg, p)
           IN  Sound(db, cfg, r, Len(r.items)) /\ SameButText(p, r)
<1> DEFINE ids == DOMAIN db.notes
           S == {q \in Made(ids) : Len(q.items) = Len(p.items)}
           n == Len(p.items)
<1>1. p \in S /\ p.items \in Seq(Held(ids)) /\ n \in Nat
  BY MadeFields DEF Sound
<1>2. ASSUME NEW q \in S, NEW k \in 1..n PROVE Backfill(db, cfg, q, k) \in S
  <2>1. SameNotes(ids, q, Backfill(db, cfg, q, k))
    BY BackfillTyped
  <2> QED BY <2>1 DEF SameNotes
<1> HIDE DEF S
<1>3. FillRuns(db, cfg, p, S)
  BY <1>1, <1>2, FillFold
<1>4. PICK h \in [0..n -> S] :
         /\ h[0] = p
         /\ \A k \in 1..n : h[k] = Backfill(db, cfg, h[k - 1], k)
         /\ backfillAll(db, cfg, p) = h[n]
  BY <1>3 DEF FillRuns
<1> DEFINE R == {k \in Nat : k <= n => Sound(db, cfg, h[k], k) /\ SameButText(p, h[k])}
<1>5. 0 \in R
  <2>1. SameButText(p, p)
    BY DEF SameButText, SameEdge
  <2> QED BY <2>1, <1>4
<1>6. ASSUME NEW k \in Nat, k \in R PROVE k + 1 \in R
  <2> SUFFICES ASSUME k + 1 <= n PROVE Sound(db, cfg, h[k + 1], k + 1) /\ SameButText(p, h[k + 1])
    OBVIOUS
  <2>1. k + 1 \in 1..n /\ (k + 1) - 1 = k /\ k \in 0..n /\ Sound(db, cfg, h[k], k) /\ SameButText(p, h[k])
    BY <1>1, <1>6
  <2> DEFINE q == h[k]
             r == h[k + 1]
             m == k + 1
  <2>2. r = Backfill(db, cfg, q, m)
    BY <1>4, <2>1
  <2>3. m \in 1..Len(q.items) /\ Sound(db, cfg, q, m - 1) /\ SameButText(p, q)
    BY <2>1 DEF SameButText
  <2> HIDE DEF q, r, m
  <2>4. Sound(db, cfg, r, m) /\ SameButText(q, r)
    BY <2>2, <2>3, FillStep
  <2>5. SameButText(p, r)
    BY <2>3, <2>4 DEF SameButText, SameEdge
  <2> QED BY <2>4, <2>5 DEF r, m
<1>7. n \in R
  <2> HIDE DEF R
  <2> QED BY <1>1, <1>5, <1>6, NatInduct
<1>8. Sound(db, cfg, h[n], n) /\ SameButText(p, h[n]) /\ Len(h[n].items) = n
  BY <1>1, <1>7 DEF SameButText
<1> QED BY <1>4, <1>8

LEMMA FollowsText ==
    ASSUME NEW cfg, NEW withBody, NEW p, NEW r, NEW cands, NEW k, Follows(cfg, withBody, p, cands, k), SameButText(p, r)
    PROVE  Follows(cfg, withBody, r, cands, k)
BY DEF Follows, SameButText, SameEdge

-----------------------------------------------------------------------------
(* Packs: what a pack is as it is made *)

\* A pack as it is made: what it counts, what it blames, and which candidates it holds.
Honest(db, target, cfg, r) ==
    /\ r \in Made(DOMAIN db.notes) /\ r.target.id = target /\ r.budget = cfg.budget
    /\ r.used + r.room = r.budget /\ r.used = Total(<<r.target>> \o r.items)
    /\ r.room >= 0 \/ r.used = r.target.fm
    /\ r.target.omitted <=> r.target.body = 0 /\ db.notes[target].body > 0
    /\ \A i \in 1..Len(r.items) : ItemBlamed(db, cfg, r.items[i], r.room)
    /\ \/ r.items = <<>> /\ r.target.fm + r.target.body >= r.budget
       \/ Follows(cfg, cfg.maxItems > 0, r, Candidates(db, target, cfg), Len(Candidates(db, target, cfg)))

\* A pack that says what it carries.
LEMMA CountedFrom ==
    ASSUME NEW db, NEW target, NEW cfg, NEW r, Honest(db, target, cfg, r)
    PROVE  Counted(r)
<1>1. /\ r \in Made(DOMAIN db.notes) /\ r.used + r.room = r.budget /\ r.used = Total(<<r.target>> \o r.items)
      /\ r.room >= 0 \/ r.used = r.target.fm
  BY DEF Honest
<1>2. r.used \in Int /\ r.room \in Int /\ r.budget \in Nat /\ r.target.fm \in Nat
  <2>1. r.used \in Int /\ r.room \in Int /\ r.budget \in Nat /\ r.target \in Held(DOMAIN db.notes)
    BY <1>1, MadeFields
  <2>2. r.target \in Items(DOMAIN db.notes)
    BY <2>1 DEF Held
  <2> QED BY <2>1, <2>2, ItemSizes
<1>3. Max({r.budget, r.target.fm}) = IF r.budget >= r.target.fm THEN r.budget ELSE r.target.fm
  BY <1>2, MaxPair
<1> QED BY <1>1, <1>2, <1>3 DEF Counted

LEMMA PackHonest ==
    ASSUME NEW db, IsDb(db), NEW target \in DOMAIN db.notes, NEW acts, NEW cfg \in Configs(acts),
           \A id \in DOMAIN db.notes : cfg.activation[id] \in Int
    PROVE  Honest(db, target, cfg, PackAround(db, target, cfg))
<1> DEFINE ids == DOMAIN db.notes
           n == db.notes[target]
           text == packTargetContent(n, cfg.budget, cfg.excerpt)
           used == n.fm + text.body
           e == [id |-> target, type |-> "", confidence |-> ""]
           x == Item(e, n, n.fm, text)
           p == [target |-> x, items |-> <<>>, budget |-> cfg.budget, used |-> used,
                 room |-> cfg.budget - used, exhausted |-> FALSE]
           cands == Candidates(db, target, cfg)
           one == packAll(db, cfg, TRUE, p, cands)
           titles == packAll(db, cfg, FALSE, p, cands)
           two == backfillAll(db, cfg, titles)
           r == PackAround(db, target, cfg)
<1>1. r = IF p.room <= 0 THEN p ELSE IF cfg.maxItems > 0 THEN one ELSE two
  BY DEF PackAround, packTwoPass
<1>2. n \in Sizes
  BY DEF IsDb
<1> HIDE DEF n
<1>3. cfg.budget \in Nat /\ cfg.excerpt \in Nat /\ cfg.maxItems \in Nat
  BY DEF Configs
<1>4. /\ text \in Texts
      /\ text.body = 0 \/ n.fm + text.body <= cfg.budget
      /\ text.omitted <=> text.body = 0 /\ n.body > 0
  BY <1>2, <1>3, TargetFits
<1> HIDE DEF text
<1>5. n.fm \in Nat /\ n.body \in Nat /\ text.body \in Nat
  <2>1. n.fm \in Nat /\ n.body \in Nat
    BY <1>2 DEF Sizes
  <2>2. text \in Texts
    BY <1>4
  <2>3. text.body \in Nat
    BY <2>2 DEF Texts
  <2> QED BY <2>1, <2>3
<1>6. e \in Edges(ids) /\ e.id = target
  BY DEF Edges
<1> HIDE DEF e
<1>7. x \in Held(ids) /\ x.id = target
  BY <1>2, <1>4, <1>5, <1>6, ItemHeld
<1>8. x.fm = n.fm /\ x.body = text.body /\ x.omitted = text.omitted
  BY DEF Item
<1> HIDE DEF x
<1>9. used = Weight(x) /\ used \in Nat /\ cfg.budget - used \in Int
  BY <1>3, <1>5, <1>8 DEF Weight
<1> HIDE DEF used
<1>10. p \in Made(ids)
  <2>1. x \in Items(ids) /\ <<>> \in Seq(Items(ids)) /\ <<>> \in Seq(Held(ids))
    BY <1>7 DEF Held
  <2>2. p \in Packs(ids)
    BY <2>1, <1>3, <1>9 DEF Packs
  <2>3. p.items = <<>> /\ p.target = x
    OBVIOUS
  <2> HIDE DEF p
  <2> QED BY <2>1, <2>2, <2>3, <1>7 DEF Made
<1>11. /\ p.target = x /\ p.items = <<>> /\ p.budget = cfg.budget /\ p.used = used /\ p.room = cfg.budget - used
  OBVIOUS
<1> HIDE DEF p
<1>12. p.used + p.room = p.budget /\ p.used = Total(<<p.target>> \o p.items)
  <2>1. x \in Items(ids) /\ <<>> \in Seq(Items(ids))
    BY <1>7 DEF Held
  <2>2. Total(<<x>> \o <<>>) = Weight(x)
    BY <2>1, HeadTotal
  <2> QED BY <2>2, <1>3, <1>9, <1>11
<1>13. p.target.omitted <=> p.target.body = 0 /\ db.notes[target].body > 0
  BY <1>4, <1>8, <1>11 DEF n
<1>14. p.room >= 0 \/ p.used = p.target.fm
  BY <1>3, <1>4, <1>5, <1>8, <1>9, <1>11 DEF used
<1>15. CASE p.room <= 0
  <2>1. r = p
    BY <1>1, <1>15
  <2>2. p.target.fm + p.target.body >= p.budget
    BY <1>3, <1>5, <1>8, <1>9, <1>11, <1>15 DEF Weight
  <2> QED BY <2>1, <2>2, <1>7, <1>10, <1>11, <1>12, <1>13, <1>14 DEF Honest, r
<1>16. CASE ~(p.room <= 0)
  <2>1. Sound(db, cfg, p, 0)
    BY <1>3, <1>9, <1>10, <1>11, <1>12, <1>16 DEF Sound
  <2>2. cands \in Seq(Edges(ids))
    <3>1. CandsRight(db, cfg, target, cands)
      BY CandidatesRight
    <3> HIDE DEF cands, ids
    <3>2. cands \in Seq(Others(DOMAIN db.notes, target)) /\ Others(DOMAIN db.notes, target) \in SUBSET Edges(DOMAIN db.notes)
      BY <3>1 DEF CandsRight, Others
    <3> QED BY <3>2, SeqWithin DEF ids
  <2> HIDE DEF cands, one, titles, two, r
  <2>3. CASE cfg.maxItems > 0
    <3>1. /\ Sound(db, cfg, one, Texted(TRUE, one)) /\ one.target = p.target /\ one.budget = p.budget
          /\ Follows(cfg, TRUE, one, cands, Len(cands))
      BY <2>1, <2>2, <1>11, PackAllSound DEF one
    <3>2. r = one
      BY <1>1, <1>16, <2>3
    <3>3. \A i \in 1..Len(one.items) : ItemBlamed(db, cfg, one.items[i], one.room)
      BY <3>1 DEF Sound, Texted
    <3>4. Follows(cfg, cfg.maxItems > 0, one, cands, Len(cands))
      BY <3>1, <2>3 DEF Follows
    <3>5. /\ one \in Made(ids) /\ one.room >= 0 /\ one.used + one.room = one.budget
          /\ one.used = Total(<<one.target>> \o one.items)
      BY <3>1 DEF Sound
    <3>6. Honest(db, target, cfg, one)
      BY <3>1, <3>3, <3>4, <3>5, <1>7, <1>11, <1>13 DEF Honest, cands
    <3> QED BY <3>2, <3>6 DEF r
  <2>4. CASE ~(cfg.maxItems > 0)
    <3>1. /\ Sound(db, cfg, titles, Texted(FALSE, titles)) /\ titles.target = p.target /\ titles.budget = p.budget
          /\ Follows(cfg, FALSE, titles, cands, Len(cands))
      BY <2>1, <2>2, <1>11, PackAllSound DEF titles
    <3>2. Sound(db, cfg, titles, 0)
      BY <3>1 DEF Texted
    <3>3. Sound(db, cfg, two, Len(two.items)) /\ SameButText(titles, two)
      BY <3>2, FillSound DEF two
    <3>4. r = two
      BY <1>1, <1>16, <2>4
    <3>5. \A i \in 1..Len(two.items) : ItemBlamed(db, cfg, two.items[i], two.room)
      BY <3>3 DEF Sound
    <3>6. Follows(cfg, FALSE, two, cands, Len(cands))
      BY <3>1, <3>3, FollowsText
    <3>7. Follows(cfg, cfg.maxItems > 0, two, cands, Len(cands))
      BY <3>6, <2>4 DEF Follows
    <3>8. /\ two \in Made(ids) /\ two.room >= 0 /\ two.used + two.room = two.budget
          /\ two.used = Total(<<two.target>> \o two.items)
      BY <3>3 DEF Sound
    <3>9. two.target = p.target /\ two.budget = p.budget
      BY <3>1, <3>3 DEF SameButText
    <3>10. Honest(db, target, cfg, two)
      BY <3>5, <3>7, <3>8, <3>9, <1>7, <1>11, <1>13 DEF Honest, cands
    <3> QED BY <3>4, <3>10 DEF r
  <2> QED BY <2>3, <2>4
<1> QED BY <1>15, <1>16

\* The items of a pack as it is made are the first candidates.
LEMMA HeldFirst ==
    ASSUME NEW db, NEW target, NEW cfg, cfg.maxItems \in Nat, NEW r, Honest(db, target, cfg, r),
           NEW cands, cands = Candidates(db, target, cfg), CandsRight(db, cfg, target, cands)
    PROVE  /\ DOMAIN r.items = 1..Len(r.items) /\ Len(r.items) \in Nat /\ Len(r.items) <= Len(cands)
           /\ DOMAIN cands = 1..Len(cands) /\ Len(cands) \in Nat
           /\ \A i \in 1..Len(r.items) : SameEdge(r.items[i], cands[i])
           /\ \/ Len(r.items) = Len(cands)
              \/ r.exhausted
              \/ cfg.maxItems > 0 /\ Len(r.items) = cfg.maxItems
              \/ r.target.fm + r.target.body >= r.budget
<1>1. r \in Made(DOMAIN db.notes) /\ cands \in Seq(Others(DOMAIN db.notes, target))
  BY DEF Honest, CandsRight
<1>2. r.items \in Seq(Held(DOMAIN db.notes))
  BY <1>1, MadeFields
<1>3. /\ DOMAIN r.items = 1..Len(r.items) /\ Len(r.items) \in Nat
      /\ DOMAIN cands = 1..Len(cands) /\ Len(cands) \in Nat
  BY <1>1, <1>2
<1>4. CASE r.items = <<>> /\ r.target.fm + r.target.body >= r.budget
  <2>1. Len(r.items) = 0
    BY <1>4
  <2>2. Len(r.items) <= Len(cands) /\ \A i \in 1..Len(r.items) : SameEdge(r.items[i], cands[i])
    BY <1>3, <2>1
  <2> QED BY <1>3, <1>4, <2>2
<1>5. CASE Follows(cfg, cfg.maxItems > 0, r, cands, Len(cands))
  BY <1>3, <1>5 DEF Follows
<1> QED BY <1>4, <1>5 DEF Honest

LEMMA HonestRanked ==
    ASSUME NEW db, NEW target, NEW cfg, cfg.maxItems \in Nat, NEW r, Honest(db, target, cfg, r),
           CandsRight(db, cfg, target, Candidates(db, target, cfg))
    PROVE  Ranked(db, cfg, r)
<1> DEFINE cands == Candidates(db, target, cfg)
           held == [i \in DOMAIN r.items |-> r.items[i].id]
           all == Eligible(db, cfg, target)
           n == Len(r.items)
<1>1. CandsRight(db, cfg, target, cands)
  OBVIOUS
<1> HIDE DEF cands
<1>2. /\ DOMAIN r.items = 1..n /\ n \in Nat /\ n <= Len(cands)
      /\ DOMAIN cands = 1..Len(cands) /\ Len(cands) \in Nat
      /\ \A i \in 1..n : SameEdge(r.items[i], cands[i])
  BY <1>1, HeldFirst DEF cands
<1>3. /\ n \in Nat
      /\ \/ n = Len(cands)
         \/ r.exhausted
         \/ cfg.maxItems > 0 /\ n = cfg.maxItems
         \/ r.target.fm + r.target.body >= r.budget
  BY <1>1, HeldFirst DEF cands
<1> HIDE DEF n
<1>4. DOMAIN held = 1..n /\ (\A i \in 1..n : held[i] = cands[i].id) /\ \A i \in 1..n : i \in DOMAIN cands
  <2>1. \A i \in 1..n : r.items[i].id = cands[i].id
    BY <1>2 DEF SameEdge
  <2>2. n \in Nat /\ Len(cands) \in Nat /\ n <= Len(cands) /\ DOMAIN cands = 1..Len(cands)
    BY <1>2
  <2>3. \A i \in 1..n : i \in DOMAIN cands
    BY <2>2
  <2>4. DOMAIN held = 1..n /\ \A i \in 1..n : held[i] = r.items[i].id
    BY <1>2
  <2> QED BY <2>1, <2>3, <2>4
<1>5. Len(held) = n
  <2> DEFINE S == {held[i] : i \in 1..n}
  <2>1. n \in Nat /\ held = [i \in 1..n |-> held[i]] /\ \A i \in 1..n : held[i] \in S
    BY <1>2
  <2> HIDE DEF held, S
  <2>2. held \in Seq(S)
    BY <2>1
  <2>3. DOMAIN held = 1..Len(held) /\ Len(held) \in Nat
    BY <2>2
  <2> QED BY <2>1, <2>3, <1>4
<1> HIDE DEF held
<1>6. /\ Apart(cands) /\ \A id : Leads(cands, id) <=> id \in all
      /\ \A i \in DOMAIN cands, x \in all :
            Precedes(db, cfg, target, x, cands[i].id) => \E j \in 1..(i - 1) : cands[j].id = x
  BY <1>1 DEF CandsRight
<1> HIDE DEF all
<1>7. ToSet(held) = {held[i] : i \in 1..n}
  BY <1>4 DEF ToSet
<1>8. ToSet(held) \subseteq all
  <2>1. \A i \in 1..n : Leads(cands, held[i])
    BY <1>4 DEF Leads
  <2> QED BY <2>1, <1>6, <1>7
<1>9. IsInjective(held)
  BY <1>4, <1>6 DEF IsInjective, Apart
<1>10. ASSUME NEW i \in DOMAIN held, NEW x \in all, Precedes(db, cfg, target, x, held[i])
      PROVE  \E j \in 1..(i - 1) : held[j] = x
  <2>1. i \in 1..n /\ i \in DOMAIN cands /\ held[i] = cands[i].id
    BY <1>4
  <2>2. PICK j \in 1..(i - 1) : cands[j].id = x
    BY <1>6, <1>10, <2>1
  <2>3. j \in 1..n
    <3>1. n \in Nat /\ i \in 1..n /\ j \in 1..(i - 1)
      BY <1>2, <2>1
    <3> QED BY <3>1
  <2> QED BY <1>4, <2>2, <2>3
<1>11. n = Len(cands) => ToSet(held) = all
  <2>1. ASSUME n = Len(cands), NEW id \in all PROVE id \in ToSet(held)
    <3>1. PICK i \in DOMAIN cands : cands[i].id = id
      BY <1>6 DEF Leads
    <3>2. i \in 1..n
      BY <1>2, <2>1
    <3> QED BY <1>4, <1>7, <3>1, <3>2
  <2> QED BY <2>1, <1>8
<1>12. r.target.id = target /\ r.budget = cfg.budget
  BY DEF Honest
<1>13. ToSet(held) # all => \/ r.exhausted
                            \/ cfg.maxItems > 0 /\ Len(held) = cfg.maxItems
                            \/ r.target.fm + r.target.body >= r.budget
  BY <1>5, <1>11, <1>3
<1> QED BY <1>8, <1>9, <1>10, <1>12, <1>13 DEF Ranked, held, all

LEMMA HonestAgrees ==
    ASSUME NEW db, NEW target, NEW cfg, cfg.maxItems \in Nat, NEW r, Honest(db, target, cfg, r),
           CandsRight(db, cfg, target, Candidates(db, target, cfg)), IsDb(db), target \in DOMAIN db.notes
    PROVE  EdgesAgree(db, cfg, r)
<1> DEFINE cands == Candidates(db, target, cfg)
           n == Len(r.items)
<1>1. CandsRight(db, cfg, target, cands)
  OBVIOUS
<1> HIDE DEF cands
<1>2. /\ DOMAIN r.items = 1..n /\ n \in Nat /\ n <= Len(cands)
      /\ DOMAIN cands = 1..Len(cands) /\ Len(cands) \in Nat
      /\ \A i \in 1..n : SameEdge(r.items[i], cands[i])
  BY <1>1, HeldFirst DEF cands
<1> HIDE DEF n
<1>3. r.target.id = target
  BY DEF Honest
<1>4. ASSUME cfg.depth <= 1, NEW x \in ToSet(r.items), x.type # "search_hit"
      PROVE  \E e \in ToSet(Related(db, target, "mixed", cfg.drafts)) :
                e = [id |-> x.id, type |-> x.type, confidence |-> x.confidence]
  <2>1. PICK i \in 1..n : x = r.items[i]
    BY <1>2 DEF ToSet
  <2>2. i \in DOMAIN cands /\ SameEdge(x, cands[i])
    BY <1>2, <2>1
  <2>3. x.id = cands[i].id /\ x.type = cands[i].type /\ x.confidence = cands[i].confidence
    BY <2>2 DEF SameEdge
  <2>4. cands[i] \in ToSet(Related(db, target, "mixed", cfg.drafts))
    BY <1>1, <1>4, <2>2, <2>3 DEF CandsRight
  <2>5. cands[i] = [id |-> x.id, type |-> x.type, confidence |-> x.confidence]
    <3>1. cands[i] \in Others(DOMAIN db.notes, target)
      BY <1>1, <2>2 DEF CandsRight
    <3>2. cands[i] \in Edges(DOMAIN db.notes)
      BY <3>1 DEF Others
    <3> QED BY <2>3, <3>2 DEF Edges
  <2> QED BY <2>4, <2>5
<1> QED BY <1>3, <1>4 DEF EdgesAgree

LEMMA HonestBlamed ==
    ASSUME NEW db, NEW target, NEW cfg, cfg.maxItems \in Nat, NEW r, Honest(db, target, cfg, r),
           CandsRight(db, cfg, target, Candidates(db, target, cfg)), r # None
    PROVE  BudgetBlamed(db, cfg, r)
<1> DEFINE cands == Candidates(db, target, cfg)
           n == Len(r.items)
<1>1. CandsRight(db, cfg, target, cands)
  OBVIOUS
<1> HIDE DEF cands
<1>2. /\ DOMAIN r.items = 1..n /\ n \in Nat /\ n <= Len(cands)
      /\ DOMAIN cands = 1..Len(cands) /\ Len(cands) \in Nat
      /\ \A i \in 1..n : SameEdge(r.items[i], cands[i])
  BY <1>1, HeldFirst DEF cands
<1> HIDE DEF n
<1>3. /\ r.target.id = target /\ (r.target.omitted <=> r.target.body = 0 /\ db.notes[target].body > 0)
      /\ \A i \in 1..n : ItemBlamed(db, cfg, r.items[i], r.room)
  BY DEF Honest, n
<1>4. ASSUME NEW i \in 1..n PROVE r.items[i].id # target
  <2>1. cands[i] \in Others(DOMAIN db.notes, target)
    BY <1>1, <1>2 DEF CandsRight
  <2>2. cands[i].id # target
    BY <2>1 DEF Others
  <2> QED BY <1>2, <2>2 DEF SameEdge
<1>5. ASSUME NEW x \in Pieces(r)
      PROVE  LET m       == db.notes[x.id]
                 missing == x.body = 0 /\ m.body > 0
                 due     == x.id = r.target.id \/ cfg.excerpt = 0 \/ Excerpt(m, cfg.excerpt) > 0
             IN  /\ missing /\ due => x.omitted
                 /\ x.omitted => missing /\ (due \/ r.room <= 0)
  <2>1. CASE x = r.target
    BY <1>3, <2>1
  <2>2. CASE x \in ToSet(r.items)
    <3>1. PICK i \in 1..n : x = r.items[i]
      BY <1>2, <2>2 DEF ToSet
    <3>2. x.id # target /\ ItemBlamed(db, cfg, x, r.room)
      BY <1>3, <1>4, <3>1
    <3> QED BY <1>3, <3>2 DEF ItemBlamed, TextBlamed
  <2> QED BY <2>1, <2>2 DEF Pieces
<1> QED BY <1>5 DEF BudgetBlamed

\* A pack as it is made holds the right notes in the right order.
Judged(c, p) == Ranked(Db, c, p) /\ EdgesAgree(Db, c, p) /\ BudgetBlamed(Db, c, p)

\* A pack as it is made is one of notes of the index, and holds none of them twice.
LEMMA PackTyped ==
    ASSUME NEW db, IsDb(db), NEW target \in DOMAIN db.notes, NEW acts, NEW cfg \in Configs(acts),
           \A id \in DOMAIN db.notes : cfg.activation[id] \in Int
    PROVE  /\ PackAround(db, target, cfg) \in Made(DOMAIN db.notes)
           /\ Single(PackAround(db, target, cfg))
<1> DEFINE r == PackAround(db, target, cfg)
           cands == Candidates(db, target, cfg)
<1>1. Honest(db, target, cfg, r)
  BY PackHonest
<1>2. CandsRight(db, cfg, target, cands)
  BY CandidatesRight
<1>3. cfg.maxItems \in Nat
  BY DEF Configs
<1> HIDE DEF r, cands
<1>4. /\ DOMAIN r.items = 1..Len(r.items) /\ Len(r.items) <= Len(cands)
      /\ DOMAIN cands = 1..Len(cands) /\ Len(cands) \in Nat /\ Len(r.items) \in Nat
      /\ \A i \in 1..Len(r.items) : r.items[i].id = cands[i].id
  BY <1>1, <1>2, <1>3, HeldFirst DEF cands, SameEdge
<1>5. r \in Made(DOMAIN db.notes) /\ r.target.id = target
  BY <1>1 DEF Honest
<1>6. Apart(cands) /\ \A i \in DOMAIN cands : cands[i].id # target
  <2>1. Apart(cands) /\ cands \in Seq(Others(DOMAIN db.notes, target))
    BY <1>2 DEF CandsRight
  <2> QED BY <2>1 DEF Others
<1>7. \A i \in DOMAIN r.items : i \in DOMAIN cands /\ r.items[i].id = cands[i].id
  BY <1>4
<1>8. Apart(r.items)
  BY <1>6, <1>7 DEF Apart
<1>9. Single(r)
  BY <1>5, <1>6, <1>7, <1>8 DEF Single
<1> QED BY <1>5, <1>9 DEF r

-----------------------------------------------------------------------------
(* Types *)

Running == {"rank", "pack", "select", "deliver", "mark", "log", "record", "print"}

\* The steps an ask is at once it has delivered, or has nothing to deliver.
After == {"mark", "log", "record", "print", "done", "dead"}

Files(v) == {f \in [DOMAIN v.notes -> [text : Nat, mtime : Nat]] :
               \A id \in DOMAIN v.notes : f[id].text \in {0} \cup DOMAIN v.notes[id]}

Processes == [pc : Running \cup {"new", "done", "dead", "alone"}, mode : Modes \cup {None},
              question : Questions \cup {None}, opened : Nat, shown : SUBSET NoteIds,
              before : SUBSET [id : NoteIds, at : Nat], hits : Seq(NoteIds),
              pack : Packs(NoteIds) \cup {None}, config : Configs([NoteIds -> Int]) \cup {None},
              marked : SUBSET NoteIds, blind : SUBSET NoteIds, checked : Nat, recorded : Nat]

TypeOK ==
    /\ vault \in Vaults
    /\ disk \in Files(vault) /\ row \in Files(vault)
    /\ now \in Nat \ {0} /\ changes \in Nat
    /\ ledger \in SUBSET [id : NoteIds, at : Nat, by : Asks]
    /\ ask \in [Asks -> Processes]
    /\ told \in SUBSET [by : Asks, id : NoteIds, delivered : BOOLEAN]
    /\ event \in [Asks -> [body : BOOLEAN, access : SUBSET BOOLEAN] \cup {None}]
    /\ heard \in SUBSET [by : Asks, id : NoteIds, text : Nat \ {0}, marked : BOOLEAN, checked : Nat]

\* What an ask is while it stands at each step.
Shape(me) ==
    /\ me.pc = "new" => me = Fresh
    /\ me.pc \notin {"new", "alone"} => me.mode \in Modes /\ me.question \in Questions
    /\ me.pc \in {"rank", "pack"} => me.pack = None
    /\ me.pc = "pack" => me.hits # <<>>
    /\ me.pc \in {"select", "deliver"} => me.pack \in Made(NoteIds)
    /\ me.pc = "mark" => me.pack # None
    /\ me.pc # "alone" /\ me.pack # None => Single(me.pack)
    /\ \A x \in Pieces(me.pack) : x.shown => x.id \in me.shown
    /\ me.pc \in {"mark", "log", "record", "print"} =>
         \A x \in Pieces(me.pack) : x.id \in me.shown => ~(x.body > 0)

Base == TypeOK /\ \A a \in Asks : Shape(ask[a])

LEMMA DbTyped == ASSUME TypeOK PROVE IsDb(Db) /\ DOMAIN Db.notes = Indexed /\ Indexed \in SUBSET NoteIds
<1>1. /\ DOMAIN vault.notes \subseteq STRING /\ IsFiniteSet(DOMAIN vault.notes)
      /\ \A id \in NoteIds : vault.notes[id] \in Seq(Sizes)
      /\ vault.links \in Seq(Links(NoteIds))
  BY AskAssumption DEF TypeOK, NoteIds
<1>2. Indexed \in SUBSET NoteIds
  BY DEF Indexed
<1>3. IsFiniteSet(Indexed)
  BY <1>1, <1>2, FS_Subset DEF NoteIds
<1>4. Db.notes = [id \in Indexed |-> vault.notes[id][row[id].text]]
  BY DEF Db
<1>5. DOMAIN Db.notes = Indexed
  BY <1>4
<1>6. ASSUME NEW id \in Indexed PROVE Db.notes[id] \in Sizes
  <2>1. row[id].text \in DOMAIN vault.notes[id] /\ vault.notes[id] \in Seq(Sizes)
    BY <1>1, <1>2 DEF TypeOK, Files, Indexed, NoteIds
  <2>2. vault.notes[id][row[id].text] \in Sizes
    BY <2>1
  <2> QED BY <2>2, <1>4
<1>7. Db.links \in Seq(Links(Indexed))
  <2> DEFINE good == {l \in ToSet(vault.links) : {l.src, l.dst} \subseteq Indexed}
  <2>1. Db.links = Among(vault.links, good)
    BY DEF Db
  <2>2. Links(NoteIds) \cap good \subseteq Links(Indexed)
    BY DEF Links
  <2> HIDE DEF good
  <2>3. Among(vault.links, good) \in Seq(Links(NoteIds) \cap good)
    BY <1>1, AmongTyped
  <2> QED BY <2>1, <2>2, <2>3
<1>8. Db.notes \in [Indexed -> Sizes]
  <2> DEFINE f == [id \in Indexed |-> vault.notes[id][row[id].text]]
  <2>1. f \in [Indexed -> Sizes]
    BY <1>4, <1>6
  <2> QED BY <2>1, <1>4
<1>9. Indexed \in SUBSET STRING
  BY <1>1, <1>2 DEF NoteIds
<1> QED BY <1>2, <1>3, <1>5, <1>7, <1>8, <1>9 DEF IsDb

LEMMA NoNone == ASSUME NEW p \in Packs(NoteIds), TypeOK PROVE p # None
<1>1. NoteIds \in SUBSET STRING
  BY AskAssumption DEF TypeOK, NoteIds
<1>2. Items(NoteIds) \subseteq Items(STRING)
  BY <1>1 DEF Items
<1>3. p \in Packs(STRING)
  <2>1. p.items \in Seq(Items(NoteIds)) /\ p.target \in Items(NoteIds)
    BY DEF Packs
  <2>2. p.items \in Seq(Items(STRING)) /\ p.target \in Items(STRING)
    BY <2>1, <1>2
  <2> QED BY <2>2 DEF Packs
<1> QED BY <1>3, NoneAssumption

LEMMA PiecesTyped ==
    ASSUME TypeOK, NEW p \in Packs(NoteIds) \cup {None}
    PROVE  /\ \A x \in Pieces(p) : x \in Items(NoteIds)
           /\ p # None => /\ p \in Packs(NoteIds) /\ p.target \in Items(NoteIds)
                          /\ p.items \in Seq(Items(NoteIds))
                          /\ \A x : x \in Pieces(p) <=> (x = p.target \/ \E i \in DOMAIN p.items : x = p.items[i])
<1>1. p # None => p \in Packs(NoteIds)
  OBVIOUS
<1>2. ASSUME p # None PROVE p.target \in Items(NoteIds) /\ p.items \in Seq(Items(NoteIds))
  BY <1>1, <1>2 DEF Packs
<1>3. ASSUME p # None, NEW x
      PROVE  x \in Pieces(p) <=> (x = p.target \/ \E i \in DOMAIN p.items : x = p.items[i])
  <2>1. Pieces(p) = {p.target} \cup ToSet(p.items)
    BY <1>3 DEF Pieces
  <2>2. ToSet(p.items) = {p.items[i] : i \in DOMAIN p.items}
    BY DEF ToSet
  <2> QED BY <2>1, <2>2
<1>4. \A x \in Pieces(p) : x \in Items(NoteIds)
  <2>1. CASE p = None
    BY <2>1 DEF Pieces
  <2>2. CASE p # None
    <3>1. \A i \in DOMAIN p.items : p.items[i] \in Items(NoteIds)
      BY <2>2, <1>2
    <3> QED BY <2>2, <3>1, <1>2, <1>3
  <2> QED BY <2>1, <2>2
<1> QED BY <1>1, <1>2, <1>3, <1>4

\* One ask becomes r and the world stays as it is.
Becomes(a, r) ==
    /\ UNCHANGED world
    /\ ask' = [ask EXCEPT ![a] = r]

LEMMA BaseStep ==
    ASSUME Base, NEW a \in Asks, NEW r \in Processes, Shape(r), Becomes(a, r),
           ledger' \in SUBSET [id : NoteIds, at : Nat, by : Asks],
           told' \in SUBSET [by : Asks, id : NoteIds, delivered : BOOLEAN],
           event' \in [Asks -> [body : BOOLEAN, access : SUBSET BOOLEAN] \cup {None}],
           heard' \in SUBSET [by : Asks, id : NoteIds, text : Nat \ {0}, marked : BOOLEAN, checked : Nat]
    PROVE  Base' /\ ask'[a] = r /\ \A b \in Asks \ {a} : ask'[b] = ask[b]
<1>1. vault' = vault /\ disk' = disk /\ row' = row /\ now' = now /\ changes' = changes
  BY DEF Becomes, world
<1>2. NoteIds' = NoteIds /\ Processes' = Processes
  BY <1>1 DEF NoteIds, Processes
<1>3. ask \in [Asks -> Processes] /\ ask' = [ask EXCEPT ![a] = r]
  BY DEF Base, TypeOK, Becomes
<1>4. ask' \in [Asks -> Processes] /\ ask'[a] = r /\ \A b \in Asks \ {a} : ask'[b] = ask[b]
  BY <1>3
<1>5. TypeOK'
  BY <1>1, <1>2, <1>4 DEF Base, TypeOK
<1>6. \A b \in Asks : Shape(ask'[b])
  BY <1>4 DEF Base
<1>7. (\A b \in Asks : Shape(ask[b]))'
  BY <1>2, <1>6 DEF Shape
<1> QED BY <1>4, <1>5, <1>7 DEF Base

LEMMA Me ==
    ASSUME Base, NEW a \in Asks
    PROVE  /\ ask[a] \in Processes /\ Shape(ask[a])
           /\ ledger \in SUBSET [id : NoteIds, at : Nat, by : Asks]
           /\ told \in SUBSET [by : Asks, id : NoteIds, delivered : BOOLEAN]
           /\ event \in [Asks -> [body : BOOLEAN, access : SUBSET BOOLEAN] \cup {None}]
           /\ heard \in SUBSET [by : Asks, id : NoteIds, text : Nat \ {0}, marked : BOOLEAN, checked : Nat]
BY DEF Base, TypeOK

-----------------------------------------------------------------------------
(* What every step keeps *)

\* An ask that only goes on to another step.
LEMMA ProceedTyped ==
    ASSUME Base, NEW a \in Asks, ask[a].pc \notin {"new", "alone"},
           NEW pc \in {"log", "record", "print", "done", "dead"},
           pc \in {"record", "print"} => ask[a].pc \in {"log", "record"},
           pc = "log" => ask[a].pack = None
    PROVE  LET r == [ask[a] EXCEPT !.pc = pc] IN r \in Processes /\ Shape(r)
<1> DEFINE me == ask[a]
           r == [me EXCEPT !.pc = pc]
<1>1. me \in Processes /\ Shape(me)
  BY Me
<1>2. /\ r.pc = pc /\ r.mode = me.mode /\ r.question = me.question /\ r.pack = me.pack
      /\ r.shown = me.shown /\ r.hits = me.hits
  BY <1>1 DEF Processes
<1>3. r \in Processes
  BY <1>1 DEF Processes, Running
<1> HIDE DEF r
<1>4. Shape(r)
  BY <1>1, <1>2 DEF Shape, Pieces
<1> QED BY <1>3, <1>4 DEF r

LEMMA PruneTyped == PruneShownLedgers(ledger) \in SUBSET ledger
BY DEF PruneShownLedgers

LEMMA OpenKeeps ==
    ASSUME Base, NEW a \in Asks, Open(a)
    PROVE  /\ Base' /\ UNCHANGED <<world, told, event, heard>> /\ (\A b \in Asks \ {a} : ask'[b] = ask[b])
           /\ ask[a] = Fresh
           /\ ask'[a].pc = "rank" /\ ask'[a].recorded = 0 /\ ask'[a].checked = 0 /\ ask'[a].pack = None /\ ask'[a].opened = now
           /\ LET left == IF ask'[a].mode.dedup THEN PruneShownLedgers(ledger) ELSE ledger
              IN  /\ ledger' = left
                  /\ ask'[a].shown = IF ask'[a].mode.dedup THEN Recent(left) ELSE {}
           /\ ask'[a].before = {[id |-> h.id, at |-> ask[h.by].recorded] : h \in {g \in heard : ask[g.by].recorded > 0}}
<1> DEFINE me == ask[a]
           before == {[id |-> h.id, at |-> ask[h.by].recorded] : h \in {g \in heard : ask[g.by].recorded > 0}}
           left(mode) == IF mode.dedup THEN PruneShownLedgers(ledger) ELSE ledger
           shown(mode) == IF mode.dedup THEN Recent(left(mode)) ELSE {}
           r(mode, q) == [me EXCEPT !.pc = "rank", !.mode = mode, !.question = q, !.opened = now,
                                    !.shown = shown(mode), !.before = before]
<1>1. me \in Processes /\ Shape(me) /\ me.pc = "new" /\ UNCHANGED <<world, told, event, heard>>
  BY Me DEF Open, Stands
<1>2. PICK mode \in Modes, q \in Questions : ledger' = left(mode) /\ ask' = [ask EXCEPT ![a] = r(mode, q)]
  BY DEF Open
<1>3. me = Fresh
  BY <1>1 DEF Shape
<1>4. before \in SUBSET [id : NoteIds, at : Nat]
  <2>1. ASSUME NEW h \in heard PROVE [id |-> h.id, at |-> ask[h.by].recorded] \in [id : NoteIds, at : Nat]
    <3>1. h.id \in NoteIds /\ h.by \in Asks
      BY Me
    <3>2. ask[h.by].recorded \in Nat
      BY <3>1, Me DEF Processes
    <3> QED BY <3>1, <3>2
  <2> QED BY <2>1
<1>5. left(mode) \in SUBSET ledger
  BY PruneTyped
<1>6. left(mode) \in SUBSET [id : NoteIds, at : Nat, by : Asks]
  BY <1>5, Me
<1>7. shown(mode) \in SUBSET NoteIds
  BY <1>6 DEF Recent
<1>8. now \in Nat /\ mode \in Modes \cup {None} /\ q \in Questions \cup {None} /\ "rank" \in Running
  BY DEF Base, TypeOK, Running
<1> DEFINE s == shown(mode)
           you == [me EXCEPT !.pc = "rank", !.mode = mode, !.question = q, !.opened = now,
                             !.shown = s, !.before = before]
<1>9. you = r(mode, q)
  OBVIOUS
<1> HIDE DEF before, left, s
<1>10. /\ you.pc = "rank" /\ you.mode = mode /\ you.question = q /\ you.pack = me.pack
       /\ you.opened = now /\ you.recorded = me.recorded /\ you.checked = me.checked /\ you.shown = s /\ you.before = before
  BY <1>1 DEF Processes
<1>11. you \in Processes
  <2>1. s \in SUBSET NoteIds
    BY <1>7 DEF s
  <2> HIDE DEF me
  <2> QED BY <1>1, <1>4, <1>8, <2>1 DEF Processes
<1> HIDE DEF you, r
<1>12. Shape(you)
  BY <1>3, <1>10 DEF Shape, Pieces, Fresh
<1>13. Becomes(a, you)
  BY <1>1, <1>2, <1>9 DEF Becomes
<1>14. Base' /\ ask'[a] = you /\ \A b \in Asks \ {a} : ask'[b] = ask[b]
  <2>1. /\ ledger' \in SUBSET [id : NoteIds, at : Nat, by : Asks]
        /\ told' \in SUBSET [by : Asks, id : NoteIds, delivered : BOOLEAN]
        /\ event' \in [Asks -> [body : BOOLEAN, access : SUBSET BOOLEAN] \cup {None}]
        /\ heard' \in SUBSET [by : Asks, id : NoteIds, text : Nat \ {0}, marked : BOOLEAN, checked : Nat]
    BY <1>1, <1>2, <1>6, Me
  <2> QED BY <2>1, <1>11, <1>12, <1>13, BaseStep
<1>15. me.pack = None /\ me.recorded = 0 /\ me.checked = 0
  BY <1>3 DEF Fresh
<1> QED BY <1>1, <1>2, <1>3, <1>10, <1>14, <1>15 DEF before, left, s

\* Asked as it was, and what it had recorded.
Keeps(a) ==
    /\ ask'[a].mode = ask[a].mode /\ ask'[a].question = ask[a].question /\ ask'[a].opened = ask[a].opened
    /\ ask'[a].shown = ask[a].shown /\ ask'[a].before = ask[a].before
    /\ \A b \in Asks \ {a} : ask'[b] = ask[b]

\* Nothing else changes.
Quiet(a) == Base' /\ Keeps(a) /\ UNCHANGED world

LEMMA HitsTyped ==
    ASSUME Base, NEW s \in Seq(STRING), NEW good \in SUBSET Indexed
    PROVE  Among(s, good) \in Seq(NoteIds)
<1>1. Among(s, good) \in Seq(STRING \cap good)
  BY AmongTyped
<1>2. STRING \cap good \subseteq NoteIds
  BY DEF Indexed
<1> QED BY <1>1, <1>2

LEMMA RankKeeps ==
    ASSUME Base, NEW a \in Asks, Rank(a)
    PROVE  /\ Quiet(a) /\ UNCHANGED <<ledger, told, event, heard>>
           /\ ask[a].pc = "rank" /\ ask'[a].pc \in {"log", "pack"}
           /\ ask'[a].pack = None /\ ask'[a].recorded = ask[a].recorded /\ ask'[a].checked = ask[a].checked
<1> DEFINE me == ask[a]
           good == {id \in Indexed : Visible(Db, id, me.mode.drafts)}
           hits == Among(me.question.hits, good)
           pc == IF hits = <<>> \/ Suppressed(a) THEN "log" ELSE "pack"
           r == [me EXCEPT !.pc = pc, !.hits = hits]
<1>1. me \in Processes /\ Shape(me) /\ me.pc = "rank" /\ UNCHANGED <<world, ledger, told, event, heard>>
  BY Me DEF Rank, Stands
<1>2. Becomes(a, r)
  BY DEF Rank, Becomes
<1>3. me.question \in Questions /\ me.mode \in Modes /\ me.pack = None
  BY <1>1 DEF Shape
<1>4. me.question.hits \in Seq(STRING)
  BY <1>3, AskAssumption
<1> HIDE DEF good
<1>5. hits \in Seq(NoteIds)
  BY <1>4, HitsTyped DEF good
<1>6. pc \in {"log", "pack"} /\ (pc = "pack" => hits # <<>>)
  OBVIOUS
<1> HIDE DEF hits, pc
<1>7. /\ r.pc = pc /\ r.mode = me.mode /\ r.question = me.question /\ r.pack = me.pack /\ r.opened = me.opened
      /\ r.shown = me.shown /\ r.before = me.before /\ r.hits = hits /\ r.recorded = me.recorded /\ r.checked = me.checked
  BY <1>1 DEF Processes
<1>8. r \in Processes
  BY <1>1, <1>5, <1>6 DEF Processes, Running
<1> HIDE DEF r
<1>9. Shape(r)
  BY <1>1, <1>3, <1>6, <1>7 DEF Shape, Pieces
<1>10. Base' /\ ask'[a] = r /\ \A b \in Asks \ {a} : ask'[b] = ask[b]
  BY <1>1, <1>2, <1>8, <1>9, BaseStep, Me
<1> QED BY <1>1, <1>3, <1>6, <1>7, <1>10 DEF Quiet, Keeps

LEMMA TailTyped == ASSUME NEW T, NEW s \in Seq(T), s # <<>> PROVE Tail(s) \in Seq(T)
OBVIOUS

LEMMA ConfigTyped ==
    ASSUME Base, NEW a \in Asks, ask[a].mode \in Modes, ask[a].hits # <<>>
    PROVE  /\ PackConfig(a) \in Configs([NoteIds -> Int]) /\ PackConfig(a).depth = 1
           /\ \A id \in NoteIds : PackConfig(a).activation[id] \in Int
<1> DEFINE m == ask[a].mode
           q == ask[a].question
           tail == Tail(ask[a].hits)
           good == IF q.verdict.applied THEN q.near ELSE {}
           near == Among(tail, good)
           seeds == [i \in DOMAIN near |-> [id |-> near[i], confidence |-> "moderate"]]
<1>1. m.budget \in Nat /\ m.maxItems \in Nat /\ m.excerpt \in Nat /\ m.drafts \in BOOLEAN
  BY AskAssumption
<1>2. vault.activation \in [NoteIds -> Int] /\ NoteIds \in SUBSET STRING
  BY AskAssumption DEF Base, TypeOK, NoteIds
<1>3. tail \in Seq(STRING)
  <2>1. ask[a].hits \in Seq(NoteIds)
    BY Me DEF Processes
  <2>2. ask[a].hits \in Seq(STRING)
    BY <2>1, <1>2, SeqWithin
  <2> QED BY <2>2, TailTyped
<1> HIDE DEF tail, good
<1>4. near \in Seq(STRING \cap good)
  BY <1>3, AmongTyped
<1> HIDE DEF near
<1>5. seeds \in Seq(Seeds)
  <2>1. DOMAIN near = 1..Len(near) /\ Len(near) \in Nat /\ \A i \in DOMAIN near : near[i] \in STRING
    BY <1>4
  <2>2. \A i \in DOMAIN near : seeds[i] \in Seeds
    BY <2>1 DEF Seeds
  <2> QED BY <2>1, <2>2
<1>6. relevantLaterHits(a) = seeds
  BY DEF relevantLaterHits, near, tail, good
<1> HIDE DEF seeds, m
<1>7. PackConfig(a) = [budget |-> m.budget, depth |-> 1, maxItems |-> m.maxItems, slim |-> TRUE,
         excerpt |-> m.excerpt, overflow |-> IF m.pointers /\ ~m.json THEN "packed" ELSE "selects",
         seeds |-> seeds, drafts |-> m.drafts, activation |-> vault.activation]
  BY <1>6 DEF PackConfig, m
<1>8. PackConfig(a) \in Configs([NoteIds -> Int])
  BY <1>1, <1>2, <1>5, <1>7 DEF Configs
<1> QED BY <1>2, <1>7, <1>8

LEMMA MadeWider ==
    ASSUME NEW big, NEW ids \in SUBSET big, NEW p \in Made(ids) PROVE p \in Made(big)
<1>1. Items(ids) \subseteq Items(big)
  BY DEF Items
<1>2. Held(ids) \subseteq Held(big)
  BY <1>1 DEF Held
<1>3. p.target \in Held(big) /\ p.items \in Seq(Held(big))
  BY <1>2 DEF Made
<1>4. p \in Packs(ids)
  BY DEF Made
<1>5. p.target \in Items(ids) /\ p.items \in Seq(Items(ids))
  BY <1>4 DEF Packs
<1>6. p.target \in Items(big) /\ p.items \in Seq(Items(big))
  BY <1>1, <1>5
<1>7. p \in Packs(big)
  BY <1>4, <1>6 DEF Packs
<1> QED BY <1>3, <1>7 DEF Made

\* Nothing is withheld of a pack as it is made.
LEMMA MadePieces ==
    ASSUME Base, NEW p \in Made(NoteIds)
    PROVE  p \in Packs(NoteIds) /\ p # None /\ \A x \in Pieces(p) : x.shown = FALSE
<1>1. p \in Packs(NoteIds)
  BY DEF Made
<1>2. p # None
  BY <1>1, NoNone DEF Base
<1>3. \A x : x \in Pieces(p) => (x = p.target \/ \E i \in DOMAIN p.items : x = p.items[i])
  BY <1>1, <1>2, PiecesTyped DEF Base
<1>4. p.target.shown = FALSE /\ \A i \in DOMAIN p.items : p.items[i].shown = FALSE
  <2>1. p.target \in Held(NoteIds) /\ p.items \in Seq(Held(NoteIds))
    BY MadeFields
  <2>2. \A x \in Held(NoteIds) : x.shown = FALSE
    BY DEF Held
  <2>3. \A i \in DOMAIN p.items : p.items[i] \in Held(NoteIds)
    BY <2>1
  <2> QED BY <2>1, <2>2, <2>3
<1> QED BY <1>1, <1>2, <1>3, <1>4

LEMMA PackKeeps ==
    ASSUME Base, NEW a \in Asks, Pack(a)
    PROVE  /\ Quiet(a) /\ UNCHANGED <<ledger, told, event, heard>>
           /\ ask[a].pc = "pack" /\ ask'[a].pc \in {"log", "select"}
           /\ ask'[a].pc = "log" => ask'[a].pack = None
           /\ ask'[a].recorded = ask[a].recorded /\ ask'[a].checked = ask[a].checked
<1> DEFINE me == ask[a]
           target == Head(me.hits)
           config == PackConfig(a)
           pack == PackAround(Db, target, config)
           r == [me EXCEPT !.pc = "select", !.config = config, !.pack = pack]
           s == [me EXCEPT !.pc = "log"]
<1>1. me \in Processes /\ Shape(me) /\ me.pc = "pack" /\ UNCHANGED <<world, ledger, told, event, heard>>
  BY Me DEF Pack, Stands
<1>2. me.mode \in Modes /\ me.question \in Questions /\ me.hits # <<>> /\ me.pack = None
  BY <1>1 DEF Shape
<1>3. CASE target \in Indexed
  <2>1. Becomes(a, r)
    BY <1>1, <1>3 DEF Pack, Becomes
  <2>2. /\ config \in Configs([NoteIds -> Int]) /\ config.depth = 1
        /\ \A id \in NoteIds : config.activation[id] \in Int
    BY <1>2, ConfigTyped
  <2> HIDE DEF config
  <2>3. IsDb(Db) /\ DOMAIN Db.notes = Indexed /\ Indexed \in SUBSET NoteIds
    BY DbTyped DEF Base
  <2>4. target \in DOMAIN Db.notes /\ \A id \in DOMAIN Db.notes : config.activation[id] \in Int
    BY <1>3, <2>2, <2>3
  <2> HIDE DEF target
  <2>5. pack \in Made(DOMAIN Db.notes) /\ Single(pack)
    BY <2>2, <2>3, <2>4, PackTyped
  <2> HIDE DEF pack
  <2>6. pack \in Made(NoteIds)
    BY <2>3, <2>5, MadeWider
  <2>7. pack \in Packs(NoteIds) /\ pack # None /\ \A x \in Pieces(pack) : x.shown = FALSE
    BY <2>6, MadePieces
  <2>8. /\ r.pc = "select" /\ r.mode = me.mode /\ r.question = me.question /\ r.pack = pack /\ r.opened = me.opened
        /\ r.shown = me.shown /\ r.before = me.before /\ r.recorded = me.recorded /\ r.checked = me.checked
    BY <1>1 DEF Processes
  <2>9. r \in Processes
    BY <1>1, <2>2, <2>7 DEF Processes, Running
  <2> HIDE DEF r
  <2>10. Shape(r)
    BY <1>2, <2>5, <2>6, <2>7, <2>8 DEF Shape
  <2>11. Base' /\ ask'[a] = r /\ \A b \in Asks \ {a} : ask'[b] = ask[b]
    BY <1>1, <2>1, <2>9, <2>10, BaseStep, Me
  <2> QED BY <1>1, <2>8, <2>11 DEF Quiet, Keeps
<1>4. CASE target \notin Indexed
  <2>1. Becomes(a, s)
    BY <1>1, <1>4 DEF Pack, Becomes, Proceed
  <2>2. /\ s.pc = "log" /\ s.mode = me.mode /\ s.question = me.question /\ s.pack = me.pack /\ s.opened = me.opened
        /\ s.shown = me.shown /\ s.before = me.before /\ s.recorded = me.recorded /\ s.checked = me.checked
    BY <1>1 DEF Processes
  <2>3. s \in Processes /\ Shape(s)
    BY <1>1, <1>2, ProceedTyped
  <2> HIDE DEF s
  <2>4. Base' /\ ask'[a] = s /\ \A b \in Asks \ {a} : ask'[b] = ask[b]
    BY <1>1, <2>1, <2>3, BaseStep, Me
  <2> QED BY <1>1, <1>2, <2>2, <2>4 DEF Quiet, Keeps
<1> QED BY <1>3, <1>4

\* The passages a question chooses are text of the same note.
LEMMA ExcerptTyped ==
    ASSUME Base, NEW a \in Asks, ask[a].mode \in Modes, ask[a].pack \in Made(NoteIds), Single(ask[a].pack)
    PROVE  applyPassageExcerpt(a) \in Made(NoteIds) /\ Single(applyPassageExcerpt(a))
<1> DEFINE m == ask[a].mode
           p == ask[a].pack
           t == p.target
           n == Db.notes[t.id]
           left == p.budget - p.used + t.body
           chosen == Longest(n.passage, Min({m.excerpt, left}))
           best == IF chosen > 0 THEN chosen ELSE t.body
           dense == IF m.dense THEN Longest(n.dense, Min({2 * m.excerpt, left}) - best - Gap) ELSE 0
           body == best + (IF dense > 0 THEN Gap + dense ELSE 0)
           used == p.used - t.body + body
           x == [t EXCEPT !.body = body, !.text = n.text]
           r == [p EXCEPT !.target = x, !.used = used]
<1>1. CASE applyPassageExcerpt(a) = p
  BY <1>1
<1>2. CASE applyPassageExcerpt(a) # p
  <2>1. applyPassageExcerpt(a) = r /\ t.id \in Indexed
    BY <1>2 DEF applyPassageExcerpt
  <2>2. p \in Packs(NoteIds) /\ p.items \in Seq(Held(NoteIds)) /\ t \in Held(NoteIds) /\ p.used \in Int /\ p.budget \in Nat
    BY MadeFields
  <2>3. t \in Items(NoteIds) /\ t.shown = FALSE
    BY <2>2 DEF Held
  <2>4. t.body \in Nat
    BY <2>3 DEF Items
  <2>5. n \in Sizes
    BY <2>1, DbTyped DEF Base, IsDb
  <2>6. m.excerpt \in Nat
    BY AskAssumption
  <2> HIDE DEF n, m
  <2>7. n.passage \in SUBSET Nat /\ n.dense \in SUBSET Nat /\ n.text \in Nat \ {0}
    BY <2>5 DEF Sizes
  <2>8. left \in Int
    BY <2>2, <2>4
  <2> HIDE DEF left, t, p
  <2>9. chosen \in Nat
    <3>1. Min({m.excerpt, left}) \in Int
      BY <2>6, <2>8, MinPair
    <3> QED BY <3>1, <2>7, LongestNat
  <2> HIDE DEF chosen
  <2>10. best \in Nat
    BY <2>4, <2>9
  <2> HIDE DEF best
  <2>11. dense \in Nat
    <3>1. Min({2 * m.excerpt, left}) \in Int
      BY <2>6, <2>8, MinPair
    <3>2. Min({2 * m.excerpt, left}) - best - Gap \in Int
      BY <3>1, <2>10 DEF Gap
    <3>3. Longest(n.dense, Min({2 * m.excerpt, left}) - best - Gap) \in Nat
      BY <3>2, <2>7, LongestNat
    <3> QED BY <3>3
  <2> HIDE DEF dense
  <2>12. body \in Nat
    BY <2>10, <2>11 DEF Gap
  <2> HIDE DEF body
  <2>13. used \in Int
    BY <2>2, <2>4, <2>12
  <2> HIDE DEF used
  <2>14. x.id = t.id /\ x.shown = FALSE
    BY <2>3 DEF Items
  <2>15. x \in Items(NoteIds)
    <3> DEFINE text == n.text
    <3>1. text \in Nat \ {0}
      BY <2>7
    <3> HIDE DEF text
    <3>2. [t EXCEPT !.body = body, !.text = text] \in Items(NoteIds)
      BY <3>1, <2>3, <2>12 DEF Items
    <3> QED BY <3>2 DEF text
  <2> HIDE DEF x
  <2>16. x \in Held(NoteIds)
    BY <2>14, <2>15 DEF Held
  <2>17. r.target = x /\ r.items = p.items
    BY <2>2 DEF Packs
  <2>18. r \in Packs(NoteIds)
    BY <2>2, <2>13, <2>15 DEF Packs
  <2> HIDE DEF r
  <2>19. r \in Made(NoteIds)
    BY <2>2, <2>16, <2>17, <2>18 DEF Made
  <2>20. Single(r)
    BY <2>14, <2>17 DEF Single, p, t
  <2> QED BY <2>1, <2>19, <2>20
<1> QED BY <1>1, <1>2

LEMMA SelectKeeps ==
    ASSUME Base, NEW a \in Asks, Select(a)
    PROVE  /\ Quiet(a) /\ UNCHANGED <<ledger, told, event, heard>>
           /\ ask[a].pc = "select" /\ ask'[a].pc = "deliver"
           /\ ask'[a].recorded = ask[a].recorded /\ ask'[a].checked = ask[a].checked
<1> DEFINE me == ask[a]
           r(pack) == [me EXCEPT !.pc = "deliver", !.pack = pack]
<1>1. me \in Processes /\ Shape(me) /\ me.pc = "select" /\ UNCHANGED <<world, ledger, told, event, heard>>
  BY Me DEF Select, Stands
<1>2. me.mode \in Modes /\ me.question \in Questions /\ me.pack \in Made(NoteIds)
  BY <1>1 DEF Shape
<1>3. me.pack # None
  BY <1>2, MadePieces
<1>4. Single(me.pack)
  BY <1>1, <1>3 DEF Shape
<1>5. PICK pack \in {me.pack, applyPassageExcerpt(a)} : ask' = [ask EXCEPT ![a] = r(pack)]
  BY DEF Select
<1>6. pack \in Made(NoteIds) /\ Single(pack)
  BY <1>2, <1>4, <1>5, ExcerptTyped
<1>7. pack \in Packs(NoteIds) /\ pack # None /\ \A x \in Pieces(pack) : x.shown = FALSE
  BY <1>6, MadePieces
<1> DEFINE you == r(pack)
<1>8. Becomes(a, you)
  BY <1>1, <1>5 DEF Becomes
<1>9. /\ you.pc = "deliver" /\ you.mode = me.mode /\ you.question = me.question /\ you.pack = pack
      /\ you.opened = me.opened /\ you.shown = me.shown /\ you.before = me.before /\ you.recorded = me.recorded /\ you.checked = me.checked
  BY <1>1 DEF Processes
<1>10. you \in Processes
  BY <1>1, <1>7 DEF Processes, Running
<1> HIDE DEF you
<1>11. Shape(you)
  BY <1>2, <1>6, <1>7, <1>9 DEF Shape
<1>12. Base' /\ ask'[a] = you /\ \A b \in Asks \ {a} : ask'[b] = ask[b]
  BY <1>1, <1>8, <1>10, <1>11, BaseStep, Me
<1> QED BY <1>1, <1>9, <1>12 DEF Quiet, Keeps

LEMMA WithholdTyped ==
    ASSUME NEW ids, NEW x \in Items(ids)
    PROVE  /\ Withhold(x) \in Items(ids) /\ Withhold(x).id = x.id
           /\ Withhold(x).body = 0 /\ Withhold(x).shown = TRUE
<1>1. Withhold(x) \in Items(ids)
  BY DEF Withhold, Items
<1>2. Withhold(x).id = x.id /\ Withhold(x).body = 0 /\ Withhold(x).shown = TRUE
  BY DEF Withhold, Items
<1> QED BY <1>1, <1>2

\* x, without its text when it was shown.
Kept(x, shown) == IF x.id \in shown THEN Withhold(x) ELSE x

\* A note of a pack that withholds what was shown.
Cleared(x, shown) == IF x.id \in shown THEN x.body = 0 /\ x.shown = TRUE ELSE x.shown = FALSE

LEMMA KeptTyped ==
    ASSUME NEW ids, NEW x \in Held(ids), NEW shown
    PROVE  Kept(x, shown) \in Items(ids) /\ Kept(x, shown).id = x.id /\ Cleared(Kept(x, shown), shown)
<1>1. x \in Items(ids) /\ x.shown = FALSE
  BY DEF Held
<1> QED BY <1>1, WithholdTyped DEF Kept, Cleared

LEMMA MarkTyped ==
    ASSUME NEW ids, NEW p \in Made(ids), Single(p), NEW shown
    PROVE  LET q == markShownBefore(p, shown)
           IN  /\ q \in Packs(ids) /\ Single(q)
               /\ Cleared(q.target, shown) /\ \A i \in DOMAIN q.items : Cleared(q.items[i], shown)
<1> DEFINE q == markShownBefore(p, shown)
           target == Kept(p.target, shown)
           items == [i \in DOMAIN p.items |-> Kept(p.items[i], shown)]
           used == takenOut(p.used, <<p.target>> \o p.items, shown)
<1>1. /\ p.target \in Held(ids) /\ p.items \in Seq(Held(ids)) /\ p.used \in Int /\ p \in Packs(ids)
  BY MadeFields
<1>2. q = [p EXCEPT !.target = target, !.items = items, !.used = used]
  BY <1>1 DEF markShownBefore, Packs, Kept
<1>3. target \in Items(ids) /\ target.id = p.target.id /\ Cleared(target, shown)
  BY <1>1, KeptTyped
<1>4. /\ DOMAIN p.items = 1..Len(p.items) /\ Len(p.items) \in Nat
      /\ \A i \in DOMAIN p.items : p.items[i] \in Held(ids)
  BY <1>1
<1>5. \A i \in DOMAIN p.items : items[i] \in Items(ids) /\ items[i].id = p.items[i].id /\ Cleared(items[i], shown)
  BY <1>4, KeptTyped
<1>6. items \in Seq(Items(ids)) /\ DOMAIN items = DOMAIN p.items
  <2>1. DOMAIN items = 1..Len(p.items)
    BY <1>4
  <2>2. \A i \in 1..Len(p.items) : items[i] \in Items(ids)
    BY <1>4, <1>5
  <2> HIDE DEF items
  <2>3. items \in [1..Len(p.items) -> Items(ids)]
    <3>1. items = [i \in 1..Len(p.items) |-> items[i]]
      BY <1>4 DEF items
    <3> QED BY <3>1, <2>2
  <2> QED BY <1>4, <2>1, <2>3
<1>7. used \in Int
  <2> DEFINE s == <<p.target>> \o p.items
  <2>1. Held(ids) \subseteq Items(ids)
    BY DEF Held
  <2>2. s \in Seq(Items(ids))
    <3>1. p.items \in Seq(Items(ids)) /\ p.target \in Items(ids)
      BY <1>1, <2>1
    <3>2. <<p.target>> \in Seq(Items(ids))
      BY <3>1
    <3> QED BY <3>1, <3>2
  <2> HIDE DEF s
  <2>3. \A k \in 1..Len(s) : s[k] \in Items(ids)
    BY <2>2
  <2>4. ASSUME NEW u \in Int, NEW k \in 1..Len(s)
        PROVE  (u - (IF s[k].id \in shown THEN s[k].body ELSE 0)) \in Int
    <3>1. s[k].body \in Nat
      BY <2>3 DEF Items
    <3> QED BY <3>1
  <2>5. TakenRuns(shown, p.used, s, Int)
    BY <1>1, <2>2, <2>4, TakenFold
  <2>6. takenOut(p.used, s, shown) \in Int
    BY <2>2, <2>5 DEF TakenRuns
  <2> QED BY <2>6 DEF s
<1> HIDE DEF target, items, used
<1>8. q.target = target /\ q.items = items
  BY <1>1, <1>2 DEF Packs
<1>9. q \in Packs(ids)
  BY <1>1, <1>2, <1>3, <1>6, <1>7 DEF Packs
<1> HIDE DEF q
<1>10. Single(q)
  BY <1>3, <1>5, <1>6, <1>8 DEF Single, Apart
<1> QED BY <1>3, <1>5, <1>6, <1>8, <1>9, <1>10 DEF q

\* What an ask in text that reaches the step to deliver will tell.
LEMMA DeliverKeeps ==
    ASSUME Base, NEW a \in Asks, Deliver(a)
    PROVE  /\ Quiet(a) /\ UNCHANGED <<ledger, event, heard>>
           /\ ask[a].pc = "deliver" /\ ask'[a].pc = "mark" /\ ask'[a].recorded = ask[a].recorded /\ ask'[a].checked = ask[a].checked
           /\ told \subseteq told'
           /\ \A t \in told' \ told :
                 /\ t.by = a
                 /\ \E x \in Pieces(ask'[a].pack) : x.id = t.id /\ (t.delivered <=> DeliveredTo(a)' /\ x.body > 0)
<1> DEFINE me == ask[a]
           pack == markShownBefore(me.pack, me.shown)
           r == [me EXCEPT !.pc = "mark", !.pack = pack]
           access(x) == [by |-> a, id |-> x.id, delivered |-> DeliveredTo(a)' /\ x.body > 0]
<1>1. me \in Processes /\ Shape(me) /\ me.pc = "deliver" /\ UNCHANGED <<world, ledger, event, heard>>
  BY Me DEF Deliver, Stands
<1>2. me.mode \in Modes /\ me.question \in Questions /\ me.pack \in Made(NoteIds)
  BY <1>1 DEF Shape
<1>3. Single(me.pack)
  <2>1. me.pack # None
    BY <1>2, MadePieces
  <2> QED BY <1>1, <2>1 DEF Shape
<1>4. ask' = [ask EXCEPT ![a] = r]
  BY <1>1 DEF Deliver
<1>5. /\ pack \in Packs(NoteIds) /\ Single(pack)
      /\ Cleared(pack.target, me.shown) /\ \A i \in DOMAIN pack.items : Cleared(pack.items[i], me.shown)
  BY <1>2, <1>3, MarkTyped
<1> HIDE DEF pack
<1>6. pack # None /\ \A x : x \in Pieces(pack) => x = pack.target \/ \E i \in DOMAIN pack.items : x = pack.items[i]
  BY <1>5, NoNone, PiecesTyped DEF Base
<1>7. \A x \in Pieces(pack) : Cleared(x, me.shown) /\ x \in Items(NoteIds)
  BY <1>5, <1>6, PiecesTyped DEF Base
<1>8. /\ r.pc = "mark" /\ r.mode = me.mode /\ r.question = me.question /\ r.pack = pack /\ r.opened = me.opened
      /\ r.shown = me.shown /\ r.before = me.before /\ r.recorded = me.recorded /\ r.checked = me.checked
  BY <1>1 DEF Processes
<1>9. r \in Processes
  BY <1>1, <1>5 DEF Processes, Running
<1>10. ask \in [Asks -> Processes]
  BY DEF Base, TypeOK
<1> HIDE DEF r
<1>11. ask'[a] = r
  BY <1>4, <1>10
<1>12. Shape(r)
  <2>1. \A x \in Pieces(r.pack) : x.shown => x.id \in r.shown
    BY <1>7, <1>8 DEF Cleared
  <2>2. \A x \in Pieces(r.pack) : x.id \in r.shown => ~(x.body > 0)
    BY <1>7, <1>8 DEF Cleared
  <2> QED BY <1>2, <1>5, <1>6, <1>8, <2>1, <2>2 DEF Shape
<1>13. Becomes(a, r)
  BY <1>1, <1>4 DEF Becomes
<1>14. PICK stored \in SUBSET {x \in Pieces(ask'[a].pack) : x.id \in Indexed} :
          told' = told \cup {access(x) : x \in stored}
  BY DEF Deliver
<1>15. \A x \in stored : x \in Pieces(pack) /\ x.id \in NoteIds
  BY <1>8, <1>11, <1>14 DEF Indexed
<1>16. \A x \in stored : access(x) \in [by : Asks, id : NoteIds, delivered : BOOLEAN]
  BY <1>15
<1>17. told' \in SUBSET [by : Asks, id : NoteIds, delivered : BOOLEAN]
  BY <1>14, <1>16, Me
<1>18. Base' /\ \A b \in Asks \ {a} : ask'[b] = ask[b]
  BY <1>1, <1>9, <1>12, <1>13, <1>17, BaseStep, Me
<1>19. ASSUME NEW t \in told' \ told
       PROVE  /\ t.by = a
              /\ \E x \in Pieces(ask'[a].pack) : x.id = t.id /\ (t.delivered <=> DeliveredTo(a)' /\ x.body > 0)
  <2>1. PICK x \in stored : t = access(x)
    BY <1>14, <1>19
  <2>2. t.by = a /\ t.id = x.id /\ (t.delivered <=> DeliveredTo(a)' /\ x.body > 0)
    BY <2>1
  <2> QED BY <2>2, <1>8, <1>11, <1>15
<1>20. told \subseteq told'
  BY <1>14
<1> QED BY <1>1, <1>8, <1>11, <1>18, <1>19, <1>20 DEF Quiet, Keeps

\* What it holds and has said stays.
Carries(a) ==
    /\ ask'[a].pack = ask[a].pack /\ ask'[a].hits = ask[a].hits /\ ask'[a].marked = ask[a].marked
    /\ ask'[a].blind = ask[a].blind /\ ask'[a].checked = ask[a].checked

LEMMA SameDelivery ==
    ASSUME NEW a \in Asks, ask'[a].pack = ask[a].pack,
           ask'[a].mode = ask[a].mode, ask'[a].question = ask[a].question
    PROVE  /\ DeliveredTo(a)' = DeliveredTo(a) /\ Printed(a)' = Printed(a)
           /\ BodyDecision(ask'[a].mode, ask'[a].question.verdict) = BodyDecision(ask[a].mode, ask[a].question.verdict)
BY DEF DeliveredTo, Printed

LEMMA ProceedKeeps ==
    ASSUME Base, NEW a \in Asks, ask[a].pc \notin {"new", "alone"},
           NEW pc \in {"log", "record", "print", "done", "dead"},
           pc \in {"record", "print"} => ask[a].pc \in {"log", "record"},
           pc = "log" => ask[a].pack = None,
           Proceed(a, pc), UNCHANGED <<world, ledger, told>>,
           event' \in [Asks -> [body : BOOLEAN, access : SUBSET BOOLEAN] \cup {None}],
           heard' \in SUBSET [by : Asks, id : NoteIds, text : Nat \ {0}, marked : BOOLEAN, checked : Nat]
    PROVE  Quiet(a) /\ Carries(a) /\ ask'[a].pc = pc /\ ask'[a].recorded = ask[a].recorded
<1> DEFINE me == ask[a]
           r == [me EXCEPT !.pc = pc]
<1>1. me \in Processes
  BY Me
<1>2. Becomes(a, r)
  BY DEF Becomes, Proceed
<1>3. /\ r.pc = pc /\ r.mode = me.mode /\ r.question = me.question /\ r.opened = me.opened
      /\ r.shown = me.shown /\ r.before = me.before /\ r.recorded = me.recorded
      /\ r.pack = me.pack /\ r.hits = me.hits /\ r.marked = me.marked /\ r.blind = me.blind
      /\ r.checked = me.checked
  BY <1>1 DEF Processes
<1>4. r \in Processes /\ Shape(r)
  BY ProceedTyped
<1> HIDE DEF r
<1>5. Base' /\ ask'[a] = r /\ \A b \in Asks \ {a} : ask'[b] = ask[b]
  <2>1. /\ ledger' \in SUBSET [id : NoteIds, at : Nat, by : Asks]
        /\ told' \in SUBSET [by : Asks, id : NoteIds, delivered : BOOLEAN]
    BY Me
  <2> QED BY <2>1, <1>2, <1>4, BaseStep
<1> QED BY <1>3, <1>5 DEF Quiet, Keeps, Carries

LEMMA MarkKeeps ==
    ASSUME Base, NEW a \in Asks, MarkChangedOnDisk(a)
    PROVE  /\ Quiet(a) /\ UNCHANGED <<ledger, told, event, heard>>
           /\ ask[a].pc = "mark" /\ ask'[a].pc = "log" /\ ask'[a].recorded = ask[a].recorded
           /\ ask'[a].pack = ask[a].pack /\ ask'[a].checked = now
           /\ ask'[a].marked = {x.id : x \in {y \in WithText(ask[a].pack) : changedOnDisk(y.id)}} \ ask'[a].blind
<1> DEFINE me == ask[a]
           changed == {x.id : x \in {y \in WithText(me.pack) : changedOnDisk(y.id)}}
<1>1. me \in Processes /\ Shape(me) /\ me.pc = "mark" /\ UNCHANGED <<world, ledger, told, event, heard>>
  BY Me DEF MarkChangedOnDisk, Stands
<1>2. PICK blind \in SUBSET (Opaque \cap {x.id : x \in WithText(me.pack)}) :
         ask' = [ask EXCEPT ![a] = [@ EXCEPT !.pc = "log", !.checked = now, !.blind = blind,
                                             !.marked = changed \ blind]]
  BY DEF MarkChangedOnDisk
<1> DEFINE r == [me EXCEPT !.pc = "log", !.checked = now, !.blind = blind, !.marked = changed \ blind]
<1>3. Becomes(a, r)
  BY <1>1, <1>2 DEF Becomes
<1>4. changed \in SUBSET NoteIds
  BY DEF changedOnDisk, Indexed
<1>5. blind \in SUBSET NoteIds
  <2>1. \A x \in WithText(me.pack) : x.id \in NoteIds
    <3>1. me.pack \in Packs(NoteIds) \cup {None}
      BY <1>1 DEF Processes
    <3>2. \A x \in Pieces(me.pack) : x \in Items(NoteIds)
      BY <3>1, PiecesTyped DEF Base
    <3> QED BY <3>2 DEF WithText, Items
  <2> QED BY <1>2, <2>1
<1> HIDE DEF changed
<1>6. /\ r.pc = "log" /\ r.mode = me.mode /\ r.question = me.question /\ r.opened = me.opened
      /\ r.shown = me.shown /\ r.before = me.before /\ r.recorded = me.recorded
      /\ r.pack = me.pack /\ r.blind = blind /\ r.marked = changed \ blind /\ r.checked = now
  BY <1>1 DEF Processes
<1>7. now \in Nat
  BY DEF Base, TypeOK
<1>8. r \in Processes
  BY <1>1, <1>4, <1>5, <1>7 DEF Processes, Running
<1> HIDE DEF r
<1>9. Shape(r)
  BY <1>1, <1>6 DEF Shape
<1>10. Base' /\ ask'[a] = r /\ \A b \in Asks \ {a} : ask'[b] = ask[b]
  BY <1>1, <1>3, <1>8, <1>9, BaseStep, Me
<1> QED BY <1>1, <1>6, <1>10 DEF Quiet, Keeps, changed

LEMMA LogKeeps ==
    ASSUME Base, NEW a \in Asks, logAskExperiment(a)
    PROVE  /\ Quiet(a) /\ Carries(a) /\ UNCHANGED <<ledger, told, heard>>
           /\ ask[a].pc = "log" /\ ask'[a].pc = "record" /\ ask'[a].recorded = ask[a].recorded
           /\ \A b \in Asks \ {a} : event'[b] = event[b]
           /\ event'[a] # event[a] =>
                /\ event'[a].body = BodyDecision(ask[a].mode, ask[a].question.verdict)
                /\ \A d \in event'[a].access : d = DeliveredTo(a)
<1> DEFINE body == BodyDecision(ask[a].mode, ask[a].question.verdict)
           delivered == DeliveredTo(a)
           access == IF ask[a].hits # <<>> /\ ~Suppressed(a) THEN {delivered} ELSE {}
           e == [body |-> body, access |-> access]
<1>1. ask[a].pc = "log" /\ UNCHANGED <<world, ledger, told, heard>> /\ Proceed(a, "record")
  BY DEF logAskExperiment, Stands
<1>2. event \in [Asks -> [body : BOOLEAN, access : SUBSET BOOLEAN] \cup {None}]
  BY Me
<1>3. event' = event \/ event' = [event EXCEPT ![a] = e]
  BY DEF logAskExperiment
<1>4. body \in BOOLEAN /\ delivered \in BOOLEAN
  BY DEF BodyDecision, DeliveredTo
<1>5. ask[a].pc \notin {"new", "alone"} /\ ask[a].pc \in {"log", "record"}
  BY <1>1
<1> HIDE DEF body, delivered
<1>6. access \in SUBSET BOOLEAN /\ \A d \in access : d = delivered
  BY <1>4
<1> HIDE DEF access
<1>7. e \in [body : BOOLEAN, access : SUBSET BOOLEAN]
  BY <1>4, <1>6
<1>8. e.body = body /\ e.access = access
  OBVIOUS
<1> HIDE DEF e
<1>9. /\ event' \in [Asks -> [body : BOOLEAN, access : SUBSET BOOLEAN] \cup {None}]
      /\ \A b \in Asks \ {a} : event'[b] = event[b]
      /\ event'[a] # event[a] => event'[a] = e
  BY <1>2, <1>3, <1>7
<1>10. heard' \in SUBSET [by : Asks, id : NoteIds, text : Nat \ {0}, marked : BOOLEAN, checked : Nat]
  BY <1>1, Me
<1>11. Quiet(a) /\ Carries(a) /\ ask'[a].pc = "record" /\ ask'[a].recorded = ask[a].recorded
  <2> DEFINE pc == "record"
  <2>1. /\ pc \in {"log", "record", "print", "done", "dead"} /\ Proceed(a, pc) /\ pc # "log"
        /\ (pc \in {"record", "print"} => ask[a].pc \in {"log", "record"}) /\ pc = "record"
    BY <1>1, <1>5
  <2> HIDE DEF pc
  <2> QED BY <2>1, <1>1, <1>5, <1>9, <1>10, ProceedKeeps
<1> QED BY <1>1, <1>6, <1>8, <1>9, <1>11 DEF body, delivered

LEMMA RecordKeeps ==
    ASSUME Base, NEW a \in Asks, Record(a)
    PROVE  /\ Quiet(a) /\ Carries(a) /\ UNCHANGED <<told, event, heard>>
           /\ ask[a].pc = "record" /\ ask'[a].pc = "print"
           /\ \/ /\ DeliveredTo(a) /\ ask'[a].recorded = now
                 /\ ledger' = ledger \cup {[id |-> id, at |-> now, by |-> a] : id \in DeliveredIDs(ask[a].pack)}
              \/ ask'[a].recorded = ask[a].recorded /\ ledger' = ledger
<1> DEFINE me == ask[a]
           more == {[id |-> id, at |-> now, by |-> a] : id \in DeliveredIDs(me.pack)}
           r == [me EXCEPT !.pc = "print", !.recorded = now]
<1>1. me \in Processes /\ Shape(me) /\ me.pc = "record" /\ UNCHANGED <<world, told, event, heard>>
  BY Me DEF Record, Stands
<1>2. now \in Nat
  BY DEF Base, TypeOK
<1>3. CASE Proceed(a, "print") /\ UNCHANGED ledger
  <2> DEFINE pc == "print"
  <2>1. /\ pc \in {"log", "record", "print", "done", "dead"} /\ Proceed(a, pc) /\ pc # "log"
        /\ (pc \in {"record", "print"} => ask[a].pc \in {"log", "record"}) /\ pc = "print"
    BY <1>1, <1>3
  <2>2. /\ event' \in [Asks -> [body : BOOLEAN, access : SUBSET BOOLEAN] \cup {None}]
        /\ heard' \in SUBSET [by : Asks, id : NoteIds, text : Nat \ {0}, marked : BOOLEAN, checked : Nat]
    BY <1>1, Me
  <2> HIDE DEF pc
  <2>3. Quiet(a) /\ Carries(a) /\ ask'[a].pc = pc /\ ask'[a].recorded = ask[a].recorded
    BY <2>1, <2>2, <1>1, <1>3, ProceedKeeps
  <2> QED BY <2>1, <2>3, <1>1, <1>3
<1>4. CASE DeliveredTo(a) /\ ledger' = ledger \cup more /\ ask' = [ask EXCEPT ![a] = r]
  <2>1. \A x \in Pieces(me.pack) : x.id \in NoteIds
    <3>1. \A x \in Pieces(me.pack) : x \in Items(NoteIds)
      BY <1>1, PiecesTyped DEF Processes, Base
    <3> QED BY <3>1 DEF Items
  <2>2. DeliveredIDs(me.pack) \in SUBSET NoteIds
    BY <2>1 DEF DeliveredIDs, WithText
  <2>3. more \in SUBSET [id : NoteIds, at : Nat, by : Asks]
    BY <1>2, <2>2
  <2> HIDE DEF more
  <2>4. ledger' \in SUBSET [id : NoteIds, at : Nat, by : Asks]
    BY <1>4, <2>3, Me
  <2>5. /\ r.pc = "print" /\ r.mode = me.mode /\ r.question = me.question /\ r.opened = me.opened
        /\ r.shown = me.shown /\ r.before = me.before /\ r.recorded = now
        /\ r.pack = me.pack /\ r.hits = me.hits /\ r.marked = me.marked /\ r.blind = me.blind
      /\ r.checked = me.checked
    BY <1>1 DEF Processes
  <2>6. r \in Processes
    BY <1>1, <1>2 DEF Processes, Running
  <2>7. Becomes(a, r)
    BY <1>1, <1>4 DEF Becomes
  <2> HIDE DEF r
  <2>8. Shape(r)
    BY <1>1, <2>5 DEF Shape
  <2>9. Base' /\ ask'[a] = r /\ \A b \in Asks \ {a} : ask'[b] = ask[b]
    BY <1>1, <2>4, <2>6, <2>7, <2>8, BaseStep, Me
  <2> QED BY <1>1, <1>4, <2>5, <2>9 DEF Quiet, Keeps, Carries, more
<1> QED BY <1>3, <1>4 DEF Record

LEMMA ReplyKeeps ==
    ASSUME Base, NEW a \in Asks, Reply(a)
    PROVE  /\ Quiet(a) /\ Carries(a) /\ UNCHANGED <<ledger, told, event>>
           /\ ask[a].pc = "print" /\ ask'[a].recorded = ask[a].recorded
           /\ \/ /\ ask'[a].pc = "done"
                 /\ heard' = heard \cup
                      {[by |-> a, id |-> x.id, text |-> x.text, marked |-> x.id \in ask[a].marked,
                        checked |-> Looked(a, x.id)] : x \in Printed(a)}
              \/ ask'[a].pc = "dead" /\ heard' = heard
<1> DEFINE me == ask[a]
           h(x) == [by |-> a, id |-> x.id, text |-> x.text, marked |-> x.id \in me.marked, checked |-> Looked(a, x.id)]
           more == {h(x) : x \in Printed(a)}
<1>1. me \in Processes /\ Shape(me) /\ me.pc = "print" /\ UNCHANGED <<world, ledger, told, event>>
  BY Me DEF Reply, Stands
<1>2. \A x \in Printed(a) : x \in Items(NoteIds)
  <2>1. \A x \in Pieces(me.pack) : x \in Items(NoteIds)
    BY <1>1, PiecesTyped DEF Processes, Base
  <2> QED BY <2>1 DEF Printed, WithText
<1>3. ASSUME NEW x \in Printed(a)
      PROVE  h(x) \in [by : Asks, id : NoteIds, text : Nat \ {0}, marked : BOOLEAN, checked : Nat]
  <2>1. x.id \in NoteIds /\ x.text \in Nat \ {0}
    BY <1>2 DEF Items
  <2>2. Looked(a, x.id) \in Nat
    BY <1>1 DEF Processes, Looked
  <2> QED BY <2>1, <2>2
<1>4. more \in SUBSET [by : Asks, id : NoteIds, text : Nat \ {0}, marked : BOOLEAN, checked : Nat]
  BY <1>3
<1> HIDE DEF more
<1>5. \E pc \in {"done", "dead"} : Proceed(a, pc) /\ heard' = IF pc = "done" THEN heard \cup more ELSE heard
  <2>1. CASE Proceed(a, "done") /\ heard' = heard \cup more
    BY <2>1
  <2>2. CASE Proceed(a, "dead") /\ UNCHANGED heard
    BY <2>2
  <2> QED BY <2>1, <2>2 DEF Reply, more
<1>6. PICK pc \in {"done", "dead"} : Proceed(a, pc) /\ heard' = IF pc = "done" THEN heard \cup more ELSE heard
  BY <1>5
<1>7. heard' \in SUBSET [by : Asks, id : NoteIds, text : Nat \ {0}, marked : BOOLEAN, checked : Nat]
  BY <1>4, <1>6, Me
<1>8. event' \in [Asks -> [body : BOOLEAN, access : SUBSET BOOLEAN] \cup {None}]
  BY <1>1, Me
<1>9. pc \in {"log", "record", "print", "done", "dead"} /\ pc \notin {"log", "record", "print"}
  BY <1>6
<1>10. ask[a].pc \notin {"new", "alone"}
  BY <1>1
<1>11. Quiet(a) /\ Carries(a) /\ ask'[a].pc = pc /\ ask'[a].recorded = ask[a].recorded
  BY <1>1, <1>6, <1>7, <1>8, <1>9, <1>10, ProceedKeeps
<1> QED BY <1>1, <1>6, <1>11 DEF more

LEMMA DieKeeps ==
    ASSUME Base, NEW a \in Asks, Die(a)
    PROVE  /\ Quiet(a) /\ Carries(a) /\ UNCHANGED <<ledger, told, event, heard>>
           /\ ask[a].pc \in Running /\ ask'[a].pc = "dead" /\ ask'[a].recorded = ask[a].recorded
<1>1. /\ ask[a].pc \notin {"new", "done", "dead", "alone"} /\ Proceed(a, "dead")
      /\ UNCHANGED <<world, ledger, told, event, heard>>
  BY DEF Die
<1>2. ask[a].pc \in Running
  BY <1>1, Me DEF Processes
<1> DEFINE pc == "dead"
<1>3. /\ pc \in {"log", "record", "print", "done", "dead"} /\ pc \notin {"log", "record", "print"}
      /\ Proceed(a, pc) /\ pc = "dead"
  BY <1>1
<1> HIDE DEF pc
<1>4. /\ event' \in [Asks -> [body : BOOLEAN, access : SUBSET BOOLEAN] \cup {None}]
      /\ heard' \in SUBSET [by : Asks, id : NoteIds, text : Nat \ {0}, marked : BOOLEAN, checked : Nat]
  BY <1>1, Me
<1>5. Quiet(a) /\ Carries(a) /\ ask'[a].pc = pc /\ ask'[a].recorded = ask[a].recorded
  BY <1>1, <1>3, <1>4, ProceedKeeps
<1> QED BY <1>1, <1>2, <1>3, <1>5

LEMMA MemoryPackKeeps ==
    ASSUME Base, NEW a \in Asks, MemoryPack(a)
    PROVE  /\ Quiet(a) /\ UNCHANGED <<ledger, told, event, heard>>
           /\ ask[a] = Fresh /\ ask'[a].pc = "alone" /\ ask'[a].recorded = ask[a].recorded /\ ask'[a].checked = ask[a].checked
<1> DEFINE me == ask[a]
           config(c) == [budget |-> c.budget, depth |-> c.depth, maxItems |-> c.maxItems, slim |-> c.slim,
                         excerpt |-> c.excerpt, overflow |-> "none", seeds |-> <<>>, drafts |-> c.drafts,
                         activation |-> vault.activation]
           pack(c, target) == PackAround(Db, target, config(c))
<1>1. me \in Processes /\ Shape(me) /\ me.pc = "new" /\ UNCHANGED <<world, ledger, told, event, heard>>
  BY Me DEF MemoryPack, Stands
<1>2. me = Fresh
  BY <1>1 DEF Shape
<1>3. PICK c \in PackModes, target \in Indexed :
         ask' = [ask EXCEPT ![a] = [me EXCEPT !.pc = "alone", !.pack = pack(c, target), !.config = config(c)]]
  BY DEF MemoryPack
<1> DEFINE cfg == config(c)
           p == PackAround(Db, target, cfg)
           r == [me EXCEPT !.pc = "alone", !.pack = p, !.config = cfg]
<1>4. /\ c.budget \in Nat /\ c.depth \in Nat \ {0} /\ c.maxItems \in Nat /\ c.slim \in BOOLEAN
      /\ c.excerpt \in Nat /\ c.drafts \in BOOLEAN
  BY AskAssumption
<1>5. vault.activation \in [NoteIds -> Int]
  BY AskAssumption DEF Base, TypeOK, NoteIds
<1>6. cfg \in Configs([NoteIds -> Int]) /\ cfg.activation = vault.activation
  <2>1. <<>> \in Seq(Seeds)
    OBVIOUS
  <2> QED BY <1>4, <1>5, <2>1 DEF Configs
<1>7. Becomes(a, r)
  BY <1>1, <1>3 DEF Becomes
<1> HIDE DEF cfg
<1>8. IsDb(Db) /\ DOMAIN Db.notes = Indexed /\ Indexed \in SUBSET NoteIds
  BY DbTyped DEF Base
<1>9. target \in DOMAIN Db.notes /\ \A id \in DOMAIN Db.notes : cfg.activation[id] \in Int
  BY <1>5, <1>6, <1>8
<1>10. p \in Made(DOMAIN Db.notes)
  BY <1>6, <1>8, <1>9, PackTyped
<1> HIDE DEF p
<1>11. p \in Made(NoteIds)
  BY <1>8, <1>10, MadeWider
<1>12. p \in Packs(NoteIds) /\ p # None /\ \A x \in Pieces(p) : x.shown = FALSE
  BY <1>11, MadePieces
<1>13. /\ r.pc = "alone" /\ r.mode = me.mode /\ r.question = me.question /\ r.pack = p /\ r.opened = me.opened
       /\ r.shown = me.shown /\ r.before = me.before /\ r.recorded = me.recorded /\ r.checked = me.checked
  BY <1>1 DEF Processes
<1>14. r \in Processes
  BY <1>1, <1>6, <1>12 DEF Processes
<1> HIDE DEF r
<1>15. Shape(r)
  BY <1>12, <1>13 DEF Shape
<1>16. Base' /\ ask'[a] = r /\ \A b \in Asks \ {a} : ask'[b] = ask[b]
  BY <1>1, <1>7, <1>14, <1>15, BaseStep, Me
<1> QED BY <1>1, <1>2, <1>13, <1>16 DEF Quiet, Keeps

\* What the world does leaves the asks and their books alone.
WorldMoves == vault' = vault /\ UNCHANGED <<ledger, ask, told, event, heard>>

LEMMA WorldBase ==
    ASSUME Base, WorldMoves, disk' \in Files(vault), row' \in Files(vault), now' \in Nat \ {0}, changes' \in Nat
    PROVE  Base'
<1>1. NoteIds' = NoteIds /\ Processes' = Processes
  BY DEF NoteIds, Processes, WorldMoves
<1>2. TypeOK'
  BY <1>1 DEF TypeOK, Base, WorldMoves
<1>3. \A a \in Asks : Shape(ask'[a])
  BY DEF Base, WorldMoves
<1>4. (\A a \in Asks : Shape(ask[a]))'
  BY <1>1, <1>3 DEF Shape
<1> QED BY <1>2, <1>4 DEF Base

LEMMA ChangeKeeps ==
    ASSUME Base, NEW id \in vault.edited, Change(id)
    PROVE  /\ Base' /\ WorldMoves /\ row' = row /\ now' = now
           /\ disk'[id].mtime = now /\ \A o \in NoteIds \ {id} : disk'[o] = disk[o]
<1>1. id \in NoteIds
  BY AskAssumption DEF Base, TypeOK, NoteIds
<1>2. disk \in Files(vault) /\ row \in Files(vault) /\ now \in Nat \ {0} /\ changes \in Nat
  BY DEF Base, TypeOK
<1>3. changes' = changes + 1 /\ WorldMoves /\ row' = row /\ now' = now
  BY DEF Change, WorldMoves
<1>4. PICK t \in {0} \cup DOMAIN vault.notes[id] : disk' = [disk EXCEPT ![id] = [text |-> t, mtime |-> now]]
  BY DEF Change
<1>5. DOMAIN vault.notes[id] \in SUBSET Nat
  <2>1. vault.notes[id] \in Seq(Sizes)
    BY <1>1, AskAssumption DEF Base, TypeOK, NoteIds
  <2> QED BY <2>1
<1> DEFINE f == [text |-> t, mtime |-> now]
<1>6. f \in [text : Nat, mtime : Nat] /\ f.text = t /\ f.mtime = now
  BY <1>2, <1>4, <1>5
<1>7. disk' = [disk EXCEPT ![id] = f]
  BY <1>4
<1> HIDE DEF f
<1>8. /\ disk' \in [NoteIds -> [text : Nat, mtime : Nat]] /\ disk'[id] = f
      /\ \A o \in NoteIds \ {id} : disk'[o] = disk[o]
  BY <1>1, <1>2, <1>6, <1>7 DEF Files, NoteIds
<1>9. \A o \in NoteIds : disk'[o].text \in {0} \cup DOMAIN vault.notes[o]
  BY <1>2, <1>4, <1>6, <1>8 DEF Files, NoteIds
<1>10. disk' \in Files(vault)
  BY <1>8, <1>9 DEF Files, NoteIds
<1>11. changes' \in Nat
  BY <1>2, <1>3
<1> QED BY <1>2, <1>3, <1>6, <1>8, <1>10, <1>11, WorldBase

LEMMA ReindexKeeps ==
    ASSUME Base, Reindex PROVE Base' /\ WorldMoves /\ row' = disk /\ disk' = disk /\ now' = now
<1>1. disk \in Files(vault) /\ now \in Nat \ {0} /\ changes \in Nat
  BY DEF Base, TypeOK
<1>2. WorldMoves /\ row' = disk /\ disk' = disk /\ now' = now /\ changes' = changes
  BY DEF Reindex, WorldMoves
<1> QED BY <1>1, <1>2, WorldBase

LEMMA TickKeeps ==
    ASSUME Base, Tick PROVE Base' /\ WorldMoves /\ row' = row /\ disk' = disk /\ now' = now + 1
<1>1. disk \in Files(vault) /\ row \in Files(vault) /\ now \in Nat \ {0} /\ changes \in Nat
  BY DEF Base, TypeOK
<1>2. WorldMoves /\ row' = row /\ disk' = disk /\ now' = now + 1 /\ changes' = changes
  BY DEF Tick, WorldMoves
<1>3. now' \in Nat \ {0}
  BY <1>1, <1>2
<1> QED BY <1>1, <1>2, <1>3, WorldBase

LEMMA StillBase == ASSUME Base, UNCHANGED askVars PROVE Base' /\ WorldMoves /\ row' = row /\ disk' = disk /\ now' = now
<1>1. WorldMoves /\ row' = row /\ disk' = disk /\ now' = now /\ changes' = changes
  BY DEF askVars, WorldMoves
<1>2. disk \in Files(vault) /\ row \in Files(vault) /\ now \in Nat \ {0} /\ changes \in Nat
  BY DEF Base, TypeOK
<1> QED BY <1>1, <1>2, WorldBase

LEMMA InitBase == ASSUME AskInit PROVE Base
<1>1. vault \in Vaults /\ now = 1 /\ changes = 0 /\ ledger = {} /\ told = {} /\ heard = {}
  BY DEF AskInit
<1>2. \A id \in NoteIds : 1 \in DOMAIN vault.notes[id]
  <2>1. \A id \in NoteIds : vault.notes[id] \in Seq(Sizes) /\ vault.notes[id] # <<>>
    BY <1>1, AskAssumption DEF NoteIds
  <2> QED BY <2>1
<1>3. disk = [id \in NoteIds |-> [text |-> 1, mtime |-> 0]] /\ row = disk
  BY DEF AskInit
<1>4. disk \in [NoteIds -> [text : Nat, mtime : Nat]] /\ \A id \in NoteIds : disk[id].text = 1
  BY <1>3
<1>5. disk \in Files(vault) /\ row \in Files(vault)
  BY <1>2, <1>3, <1>4 DEF Files, NoteIds
<1>6. Fresh \in Processes
  BY DEF Fresh, Processes
<1>7. \A a \in Asks : ask[a] = Fresh /\ event[a] = None
  BY DEF AskInit
<1>8. ask \in [Asks -> Processes] /\ event \in [Asks -> [body : BOOLEAN, access : SUBSET BOOLEAN] \cup {None}]
  BY <1>6 DEF AskInit
<1>9. TypeOK
  BY <1>1, <1>5, <1>8 DEF TypeOK
<1>10. Shape(Fresh)
  BY DEF Shape, Fresh, Pieces
<1> QED BY <1>7, <1>9, <1>10 DEF Base

-----------------------------------------------------------------------------
(* What the books say at every moment *)

\* The text is its file's, or nobody could have told when it was looked at.
Known(id, text, checked) ==
    \/ disk[id].text = text
    \/ disk[id].mtime >= checked
    \/ row[id].text # text
    \/ disk[id].text # 0 /\ disk[id].mtime = row[id].mtime

\* What is recorded was delivered, and stays in the ledger while it is kept.
Recorded(a) ==
    ask[a].recorded > 0 =>
        /\ ask[a].pc \in {"print", "done", "dead"} /\ DeliveredTo(a)
        /\ \A id \in DeliveredIDs(ask[a].pack) :
              \/ [id |-> id, at |-> ask[a].recorded, by |-> a] \in ledger
              \/ ask[a].recorded <= now - Retention

\* Every entry of the ledger is that of a note its ask delivered.
Booked(e) ==
    /\ e.at > 0 /\ ask[e.by].recorded = e.at
    /\ e.id \in DeliveredIDs(ask[e.by].pack)

\* A note is withheld for an ask of before.
Withheld(a) ==
    \A id \in ask[a].shown :
       \E b \in Asks \ {a} : /\ ask[b].recorded > 0 /\ ask[b].recorded >= ask[a].opened - Window
                             /\ id \in DeliveredIDs(ask[b].pack)

\* What was printed and recorded in time is known as shown.
Remembered(a) ==
    ask[a].pc \notin {"new", "alone"} /\ ask[a].mode.dedup =>
       \A g \in ask[a].before :
          g.at < ask[a].opened - Window \/ g.at <= ask[a].opened - Retention \/ g.id \in ask[a].shown

Answered(a) == Stands(a, "done") => \A x \in Printed(a) : \E h \in HeardBy(a) : h.id = x.id

HeardRight(h) ==
    /\ Stands(h.by, "done") /\ \E x \in Printed(h.by) : x.id = h.id
    /\ h.id \notin ask[h.by].shown
    /\ h.checked <= now /\ (h.marked \/ Known(h.id, h.text, h.checked))

ToldRight(t) ==
    /\ ask[t.by].pc \in After
    /\ \E x \in Pieces(ask[t.by].pack) : x.id = t.id /\ (t.delivered <=> DeliveredTo(t.by) /\ x.body > 0)

LoggedRight(a) ==
    event[a] # None => /\ ask[a].pc \in {"record", "print", "done", "dead"}
                       /\ \A d \in event[a].access : d <=> DeliveredTo(a)

Checked(a) ==
    /\ ask[a].checked <= now
    /\ ask[a].pc \in {"log", "record", "print"} =>
         \A x \in WithText(ask[a].pack) : x.id \in ask[a].marked \cup ask[a].blind \/ Known(x.id, x.text, ask[a].checked)

Books ==
    /\ \A a \in Asks : Recorded(a) /\ Withheld(a) /\ Remembered(a) /\ Answered(a) /\ LoggedRight(a) /\ Checked(a)
    /\ \A e \in ledger : Booked(e)
    /\ \A h \in heard : HeardRight(h)
    /\ \A t \in told : ToldRight(t)

IInv == Base /\ Books

-----------------------------------------------------------------------------
(* A step of an ask, as its books see it *)

Opened(a) ==
    /\ ask'[a].pc = "rank" /\ ask'[a].pack = None /\ ask'[a].opened = now
    /\ LET left == IF ask'[a].mode.dedup THEN PruneShownLedgers(ledger) ELSE ledger
       IN  /\ ledger' = left
           /\ ask'[a].shown = IF ask'[a].mode.dedup THEN Recent(left) ELSE {}
    /\ ask'[a].before = {[id |-> h.id, at |-> ask[h.by].recorded] : h \in {g \in heard : ask[g.by].recorded > 0}}

Begins(a) ==
    /\ ask[a] = Fresh /\ ask'[a].recorded = 0 /\ ask'[a].checked = 0 /\ UNCHANGED <<told, event, heard>>
    /\ \/ Opened(a)
       \/ ask'[a].pc = "alone" /\ ledger' = ledger /\ Keeps(a)

Enters(a) ==
    /\ ask[a].pc = "record" /\ ask'[a].pc = "print" /\ DeliveredTo(a) /\ ask'[a].recorded = now
    /\ ledger' = ledger \cup {[id |-> id, at |-> now, by |-> a] : id \in DeliveredIDs(ask[a].pack)}

Tells(a) ==
    /\ ask[a].pc = "deliver" /\ ask'[a].pc = "mark" /\ told \subseteq told'
    /\ \A t \in told' \ told :
          /\ t.by = a
          /\ \E x \in Pieces(ask'[a].pack) : x.id = t.id /\ (t.delivered <=> DeliveredTo(a)' /\ x.body > 0)

Answers(a) ==
    /\ ask[a].pc = "print" /\ ask'[a].pc = "done"
    /\ heard' = heard \cup
         {[by |-> a, id |-> x.id, text |-> x.text, marked |-> x.id \in ask[a].marked,
           checked |-> Looked(a, x.id)] : x \in Printed(a)}

Logs(a) ==
    /\ ask[a].pc = "log" /\ ask'[a].pc = "record"
    /\ \A d \in event'[a].access : d = DeliveredTo(a)

Looks(a) ==
    /\ ask[a].pc = "mark" /\ ask'[a].checked = now /\ ask'[a].pack = ask[a].pack
    /\ ask'[a].marked = {x.id : x \in {y \in WithText(ask[a].pack) : changedOnDisk(y.id)}} \ ask'[a].blind

\* A step of an ask that has begun.
GoesOn(a) ==
    /\ Keeps(a) /\ ask[a].pc \in Running /\ ask'[a].pc \in After \cup {"pack", "select", "deliver"}
    /\ ask[a].pc \in After => ask'[a].pack = ask[a].pack /\ ask'[a].pc \in After
    /\ ask[a].pc \in {"record", "print"} => ask'[a].pc \in {"print", "done", "dead"}
    /\ ask[a].pc = "print" => ask'[a].pc \in {"done", "dead"}
    /\ (ask'[a].recorded = ask[a].recorded /\ ledger' = ledger) \/ Enters(a)
    /\ told' = told \/ Tells(a)
    /\ (heard' = heard /\ ask'[a].pc # "done") \/ Answers(a)
    /\ \A b \in Asks \ {a} : event'[b] = event[b]
    /\ event'[a] = event[a] \/ Logs(a)
    /\ ask'[a].checked = ask[a].checked \/ ask'[a].checked = now
    /\ ask'[a].pc \in {"log", "record", "print"} =>
         WithText(ask'[a].pack) = {} \/ Looks(a) \/ (ask[a].pc \in {"log", "record"} /\ Carries(a))

AskMoves(a) == /\ Base' /\ UNCHANGED world /\ (\A b \in Asks \ {a} : ask'[b] = ask[b])
               /\ Begins(a) \/ GoesOn(a)

LEMMA NoText == WithText(None) = {}
BY DEF WithText, Pieces

LEMMA StepMoves ==
    ASSUME Base, NEW a \in Asks, AskStep(a) \/ MemoryPack(a)
    PROVE  AskMoves(a)
<1>1. CASE Open(a)
  <2>1. Begins(a)
    BY <1>1, OpenKeeps DEF Begins, Opened
  <2> QED BY <1>1, <2>1, OpenKeeps DEF AskMoves
<1>2. CASE MemoryPack(a)
  <2>1. Begins(a)
    <3>1. ask[a].recorded = 0 /\ ask[a].checked = 0
      BY <1>2, MemoryPackKeeps DEF Fresh
    <3> QED BY <1>2, <3>1, MemoryPackKeeps DEF Begins, Quiet
  <2> QED BY <1>2, <2>1, MemoryPackKeeps DEF AskMoves, Quiet, Keeps
<1>3. CASE Rank(a)
  <2>1. GoesOn(a)
    BY <1>3, RankKeeps, NoText DEF GoesOn, Running, After, Quiet, Keeps, Carries
  <2> QED BY <1>3, <2>1, RankKeeps DEF AskMoves, Quiet, Keeps
<1>4. CASE Pack(a)
  <2>1. GoesOn(a)
    BY <1>4, PackKeeps, NoText DEF GoesOn, Running, After, Quiet, Keeps, Carries
  <2> QED BY <1>4, <2>1, PackKeeps DEF AskMoves, Quiet, Keeps
<1>5. CASE Select(a)
  <2>1. GoesOn(a)
    BY <1>5, SelectKeeps, NoText DEF GoesOn, Running, After, Quiet, Keeps, Carries
  <2> QED BY <1>5, <2>1, SelectKeeps DEF AskMoves, Quiet, Keeps
<1>6. CASE Deliver(a)
  <2>1. GoesOn(a)
    BY <1>6, DeliverKeeps, NoText DEF GoesOn, Running, After, Quiet, Keeps, Carries, Tells
  <2> QED BY <1>6, <2>1, DeliverKeeps DEF AskMoves, Quiet, Keeps
<1>7. CASE MarkChangedOnDisk(a)
  <2>1. GoesOn(a)
    BY <1>7, MarkKeeps, NoText DEF GoesOn, Running, After, Quiet, Keeps, Carries, Looks
  <2> QED BY <1>7, <2>1, MarkKeeps DEF AskMoves, Quiet, Keeps
<1>8. CASE logAskExperiment(a)
  <2>1. GoesOn(a)
    BY <1>8, LogKeeps, NoText DEF GoesOn, Running, After, Quiet, Keeps, Carries, Logs
  <2> QED BY <1>8, <2>1, LogKeeps DEF AskMoves, Quiet, Keeps
<1>9. CASE Record(a)
  <2>1. GoesOn(a)
    BY <1>9, RecordKeeps, NoText DEF GoesOn, Running, After, Quiet, Keeps, Carries, Enters
  <2> QED BY <1>9, <2>1, RecordKeeps DEF AskMoves, Quiet, Keeps
<1>10. CASE Reply(a)
  <2>1. GoesOn(a)
    BY <1>10, ReplyKeeps, NoText DEF GoesOn, Running, After, Quiet, Keeps, Carries, Answers
  <2> QED BY <1>10, <2>1, ReplyKeeps DEF AskMoves, Quiet, Keeps
<1>11. CASE Die(a)
  <2>1. GoesOn(a)
    BY <1>11, DieKeeps, NoText DEF GoesOn, Running, After, Quiet, Keeps, Carries
  <2> QED BY <1>11, <2>1, DieKeeps DEF AskMoves, Quiet, Keeps
<1> QED BY <1>1, <1>2, <1>3, <1>4, <1>5, <1>6, <1>7, <1>8, <1>9, <1>10, <1>11 DEF AskStep

-----------------------------------------------------------------------------
(* Every step of an ask keeps the books right *)

\* The other asks stand where they did.
LEMMA OthersStay ==
    ASSUME NEW a \in Asks, AskMoves(a), NEW b \in Asks \ {a}
    PROVE  /\ ask'[b] = ask[b] /\ DeliveredTo(b)' = DeliveredTo(b) /\ Printed(b)' = Printed(b)
<1>1. ask'[b] = ask[b]
  BY DEF AskMoves
<1> QED BY <1>1, SameDelivery

\* An ask that has recorded stands near its end, and holds on to its pack.
LEMMA RecordedStays ==
    ASSUME Base, NEW a \in Asks, AskMoves(a), NEW b \in Asks, Recorded(b), ask[b].recorded > 0
    PROVE  /\ ask'[b].recorded = ask[b].recorded /\ ask'[b].pack = ask[b].pack
           /\ ask'[b].pc \in {"print", "done", "dead"} /\ DeliveredTo(b)' = DeliveredTo(b)
<1>1. CASE b # a
  <2>1. ask'[b] = ask[b] /\ DeliveredTo(b)' = DeliveredTo(b)
    BY <1>1, OthersStay
  <2> QED BY <2>1 DEF Recorded
<1>2. CASE b = a
  <2>1. ask[a].pc \in {"print", "done", "dead"}
    BY <1>2 DEF Recorded
  <2>2. GoesOn(a)
    BY <2>1 DEF AskMoves, Begins, Fresh
  <2>3. ask'[a].pack = ask[a].pack /\ ask'[a].pc \in {"done", "dead"} /\ Keeps(a)
    BY <2>1, <2>2 DEF GoesOn, After, Running
  <2>4. ask'[a].recorded = ask[a].recorded
    BY <2>1, <2>2 DEF GoesOn, Enters
  <2>5. DeliveredTo(a)' = DeliveredTo(a)
    BY <2>3, SameDelivery DEF Keeps
  <2> QED BY <1>2, <2>3, <2>4, <2>5
<1> QED BY <1>1, <1>2

\* The ledger loses an entry only when every one is past its keeping.
LEMMA LedgerKept ==
    ASSUME NEW a \in Asks, AskMoves(a), NEW e \in ledger
    PROVE  e \in ledger' \/ e.at <= now - Retention
<1>1. ASSUME Opened(a) PROVE e \in ledger' \/ e.at <= now - Retention
  BY <1>1 DEF Opened, PruneShownLedgers
<1>2. ASSUME GoesOn(a) PROVE e \in ledger'
  BY <1>2 DEF GoesOn, Enters
<1> QED BY <1>1, <1>2 DEF AskMoves, Begins

LEMMA RecordedKept ==
    ASSUME Base, NEW a \in Asks, AskMoves(a), NEW b \in Asks, Recorded(b)
    PROVE  Recorded(b)'
<1>1. now' = now
  BY DEF AskMoves, world
<1>2. CASE ask[b].recorded > 0
  <2>1. /\ ask'[b].recorded = ask[b].recorded /\ ask'[b].pack = ask[b].pack
        /\ ask'[b].pc \in {"print", "done", "dead"} /\ DeliveredTo(b)' = DeliveredTo(b)
    BY <1>2, RecordedStays
  <2>2. ASSUME NEW id \in DeliveredIDs(ask[b].pack)
        PROVE  \/ [id |-> id, at |-> ask[b].recorded, by |-> b] \in ledger'
               \/ ask[b].recorded <= now - Retention
    <3> DEFINE e == [id |-> id, at |-> ask[b].recorded, by |-> b]
    <3>1. e \in ledger \/ ask[b].recorded <= now - Retention
      BY <1>2 DEF Recorded
    <3>2. e.at = ask[b].recorded
      OBVIOUS
    <3> HIDE DEF e
    <3>3. e \in ledger' \/ ask[b].recorded <= now - Retention
      BY <3>1, <3>2, LedgerKept
    <3> QED BY <3>3 DEF e
  <2> QED BY <1>1, <1>2, <2>1, <2>2 DEF Recorded
<1>3. CASE ~(ask[b].recorded > 0) /\ b # a
  <2>1. ask'[b] = ask[b]
    BY <1>3, OthersStay
  <2> QED BY <1>3, <2>1 DEF Recorded
<1>4. CASE ~(ask[b].recorded > 0) /\ b = a
  <2>1. CASE Enters(a)
    <3>1. GoesOn(a)
      BY <2>1 DEF Enters, AskMoves, Begins, Fresh
    <3>2. ask'[a].pack = ask[a].pack /\ Keeps(a)
      BY <2>1, <3>1 DEF GoesOn, Enters, After
    <3>3. DeliveredTo(a)' = DeliveredTo(a)
      BY <3>2, SameDelivery DEF Keeps
    <3> QED BY <1>4, <2>1, <3>2, <3>3 DEF Recorded, Enters
  <2>2. CASE ~Enters(a)
    <3>1. ~(ask'[a].recorded > 0)
      BY <1>4, <2>2 DEF AskMoves, Begins, GoesOn
    <3> QED BY <1>4, <3>1 DEF Recorded
  <2> QED BY <2>1, <2>2
<1> QED BY <1>2, <1>3, <1>4

LEMMA BookedKept ==
    ASSUME Base, NEW a \in Asks, AskMoves(a), \A b \in Asks : Recorded(b), \A e \in ledger : Booked(e),
           NEW e \in ledger'
    PROVE  Booked(e)'
<1>1. now \in Nat \ {0}
  BY DEF Base, TypeOK
<1>2. CASE e \in ledger
  <2>1. e.by \in Asks /\ Booked(e)
    BY <1>2, Me
  <2>2. ask[e.by].recorded > 0
    BY <2>1 DEF Booked
  <2>3. ask'[e.by].recorded = ask[e.by].recorded /\ ask'[e.by].pack = ask[e.by].pack
    BY <2>1, <2>2, RecordedStays
  <2> QED BY <2>1, <2>3 DEF Booked
<1>3. CASE e \notin ledger
  <2>1. Enters(a)
    BY <1>3, PruneTyped DEF AskMoves, Begins, Opened, GoesOn
  <2>2. GoesOn(a)
    BY <2>1 DEF Enters, AskMoves, Begins, Fresh
  <2>3. ask'[a].pack = ask[a].pack
    BY <2>1, <2>2 DEF GoesOn, Enters, After
  <2>4. PICK id \in DeliveredIDs(ask[a].pack) : e = [id |-> id, at |-> now, by |-> a]
    BY <1>3, <2>1 DEF Enters
  <2>5. e.id = id /\ e.at = now /\ e.by = a
    BY <2>4
  <2> QED BY <1>1, <2>1, <2>3, <2>4, <2>5 DEF Booked, Enters
<1> QED BY <1>2, <1>3

LEMMA WithheldKept ==
    ASSUME Base, NEW a \in Asks, AskMoves(a), \A b \in Asks : Recorded(b) /\ Withheld(b),
           \A e \in ledger : Booked(e), NEW b \in Asks
    PROVE  Withheld(b)'
<1>1. ASSUME ask'[b].shown = ask[b].shown, ask'[b].opened = ask[b].opened PROVE Withheld(b)'
  <2>1. ASSUME NEW id \in ask[b].shown
        PROVE  \E c \in Asks \ {b} :
                  /\ ask'[c].recorded > 0 /\ ask'[c].recorded >= ask[b].opened - Window
                  /\ id \in DeliveredIDs(ask'[c].pack)
    <3>1. PICK c \in Asks \ {b} :
             /\ ask[c].recorded > 0 /\ ask[c].recorded >= ask[b].opened - Window
             /\ id \in DeliveredIDs(ask[c].pack)
      BY <2>1 DEF Withheld
    <3>2. ask'[c].recorded = ask[c].recorded /\ ask'[c].pack = ask[c].pack
      BY <3>1, RecordedStays
    <3> QED BY <3>1, <3>2
  <2> QED BY <1>1, <2>1 DEF Withheld
<1>2. CASE b # a \/ ~Opened(a)
  <2>1. ask'[b].shown = ask[b].shown /\ ask'[b].opened = ask[b].opened
    BY <1>2, OthersStay DEF AskMoves, Begins, GoesOn, Keeps
  <2> QED BY <1>1, <2>1
<1>3. CASE b = a /\ Opened(a)
  <2>1. Begins(a)
    BY <1>3 DEF Opened, AskMoves, GoesOn, After
  <2>2. ask[a].recorded = 0 /\ ask'[a].opened = now
    BY <1>3, <2>1 DEF Begins, Fresh, Opened
  <2>3. ASSUME NEW id \in ask'[a].shown
        PROVE  \E c \in Asks \ {a} :
                  /\ ask'[c].recorded > 0 /\ ask'[c].recorded >= now - Window
                  /\ id \in DeliveredIDs(ask'[c].pack)
    <3>1. PICK e \in ledger : e.id = id /\ e.at >= now - Window
      BY <1>3, <2>3, PruneTyped DEF Opened, Recent
    <3>2. e.by \in Asks /\ Booked(e)
      BY <3>1, Me
    <3>3. e.by # a /\ ask[e.by].recorded > 0
      BY <2>2, <3>2 DEF Booked
    <3>4. ask'[e.by] = ask[e.by]
      BY <3>2, <3>3, OthersStay
    <3> QED BY <3>1, <3>2, <3>3, <3>4 DEF Booked
  <2> QED BY <1>3, <2>2, <2>3 DEF Withheld
<1> QED BY <1>2, <1>3

LEMMA RememberedKept ==
    ASSUME Base, NEW a \in Asks, AskMoves(a), \A b \in Asks : Recorded(b) /\ Remembered(b),
           \A h \in heard : HeardRight(h), NEW b \in Asks
    PROVE  Remembered(b)'
<1>1. CASE b # a
  <2>1. ask'[b] = ask[b]
    BY <1>1, OthersStay
  <2> QED BY <2>1 DEF Remembered
<1>2. CASE b = a /\ GoesOn(a)
  <2>1. Keeps(a) /\ ask[a].pc \notin {"new", "alone"}
    BY <1>2 DEF GoesOn, Running
  <2> QED BY <1>2, <2>1 DEF Remembered, Keeps
<1>3. CASE b = a /\ ask'[a].pc = "alone"
  BY <1>3 DEF Remembered
<1>4. CASE b = a /\ Opened(a)
  <2> DEFINE left == IF ask'[a].mode.dedup THEN PruneShownLedgers(ledger) ELSE ledger
  <2>1. ASSUME ask'[a].mode.dedup, NEW g \in ask'[a].before
        PROVE  g.at < now - Window \/ g.at <= now - Retention \/ g.id \in ask'[a].shown
    <3>1. PICK h \in heard : ask[h.by].recorded > 0 /\ g.id = h.id /\ g.at = ask[h.by].recorded
      BY <1>4, <2>1 DEF Opened
    <3>2. h.by \in Asks /\ HeardRight(h) /\ Recorded(h.by)
      BY <3>1, Me
    <3>3. h.id \in DeliveredIDs(ask[h.by].pack)
      BY <3>2 DEF HeardRight, Printed, DeliveredIDs
    <3> DEFINE e == [id |-> h.id, at |-> ask[h.by].recorded, by |-> h.by]
    <3>4. e \in ledger \/ g.at <= now - Retention
      BY <3>1, <3>2, <3>3 DEF Recorded
    <3>5. e.id = g.id /\ e.at = g.at
      BY <3>1
    <3> HIDE DEF e
    <3>6. ASSUME e \in ledger, ~(g.at <= now - Retention) PROVE PruneShownLedgers(ledger) = ledger
      BY <3>5, <3>6 DEF PruneShownLedgers
    <3>7. ask'[a].shown = Recent(PruneShownLedgers(ledger))
      BY <1>4, <2>1 DEF Opened
    <3>8. g.at \in Int /\ now \in Int /\ Window \in Int
      <4>1. ask[h.by].recorded \in Nat
        BY <3>2, Me DEF Processes
      <4> QED BY <3>1, <4>1, AskAssumption DEF Base, TypeOK
    <3>9. ASSUME e \in ledger, ~(g.at <= now - Retention), ~(g.at < now - Window) PROVE g.id \in ask'[a].shown
      <4>1. e.at >= now - Window
        BY <3>5, <3>8, <3>9
      <4> QED BY <4>1, <3>5, <3>6, <3>7, <3>9 DEF Recent
    <3> QED BY <3>4, <3>9
  <2> QED BY <1>4, <2>1 DEF Remembered, Opened
<1> QED BY <1>1, <1>2, <1>3, <1>4 DEF AskMoves, Begins

LEMMA HeardGrows == ASSUME NEW a \in Asks, AskMoves(a) PROVE heard \subseteq heard'
BY DEF AskMoves, Begins, GoesOn, Answers

LEMMA AnsweredKept ==
    ASSUME Base, NEW a \in Asks, AskMoves(a), NEW b \in Asks, Answered(b)
    PROVE  Answered(b)'
<1>1. heard \subseteq heard'
  BY HeardGrows
<1>2. CASE b # a
  <2>1. ask'[b] = ask[b] /\ Printed(b)' = Printed(b)
    BY <1>2, OthersStay
  <2> QED BY <1>1, <2>1 DEF Answered, Stands, HeardBy
<1>3. CASE b = a /\ ask'[a].pc = "done"
  <2>1. GoesOn(a)
    BY <1>3 DEF AskMoves, Begins, Opened
  <2>2. Answers(a) /\ Keeps(a) /\ ask'[a].pack = ask[a].pack
    BY <1>3, <2>1 DEF GoesOn, Answers, After
  <2>3. Printed(a)' = Printed(a)
    BY <2>2, SameDelivery DEF Keeps
  <2>4. ASSUME NEW x \in Printed(a) PROVE \E h \in heard' : h.by = a /\ h.id = x.id
    <3> DEFINE h == [by |-> a, id |-> x.id, text |-> x.text, marked |-> x.id \in ask[a].marked,
                     checked |-> Looked(a, x.id)]
    <3>1. h \in heard' /\ h.by = a /\ h.id = x.id
      BY <2>2 DEF Answers
    <3> QED BY <3>1
  <2> QED BY <1>3, <2>3, <2>4 DEF Answered, HeardBy
<1>4. CASE b = a /\ ask'[a].pc # "done"
  BY <1>4 DEF Answered, Stands
<1> QED BY <1>2, <1>3, <1>4

LEMMA HeardRightKept ==
    ASSUME Base, NEW a \in Asks, AskMoves(a), \A b \in Asks : Checked(b),
           \A h \in heard : HeardRight(h), NEW h \in heard'
    PROVE  HeardRight(h)'
<1>1. disk' = disk /\ row' = row /\ now' = now
  BY DEF AskMoves, world
<1>2. CASE h \in heard
  <2>1. HeardRight(h) /\ h.by \in Asks
    BY <1>2, Me
  <2>2. h.by # a
    BY <2>1 DEF HeardRight, Stands, AskMoves, Begins, Fresh, GoesOn, Running
  <2>3. ask'[h.by] = ask[h.by] /\ Printed(h.by)' = Printed(h.by)
    BY <2>1, <2>2, OthersStay
  <2> QED BY <1>1, <2>1, <2>3 DEF HeardRight, Stands, Known
<1>3. CASE h \notin heard
  <2>1. Answers(a) /\ GoesOn(a)
    BY <1>3 DEF AskMoves, Begins, GoesOn
  <2>2. Keeps(a) /\ ask'[a].pack = ask[a].pack /\ ask[a].pc = "print" /\ ask'[a].pc = "done"
    BY <2>1 DEF GoesOn, Answers, After
  <2>3. PICK x \in Printed(a) :
           h = [by |-> a, id |-> x.id, text |-> x.text, marked |-> x.id \in ask[a].marked, checked |-> Looked(a, x.id)]
    BY <1>3, <2>1 DEF Answers
  <2>4. h.by = a /\ h.id = x.id /\ h.text = x.text /\ h.marked = (x.id \in ask[a].marked) /\ h.checked = Looked(a, x.id)
    BY <2>3
  <2>5. Printed(a)' = Printed(a)
    BY <2>2, SameDelivery DEF Keeps
  <2>6. x \in WithText(ask[a].pack) /\ x \in Pieces(ask[a].pack) /\ x.body > 0
    BY DEF Printed, WithText
  <2>7. x.id \notin ask[a].shown
    BY <2>2, <2>6, Me DEF Shape
  <2>8. ask[a].checked <= now /\ (x.id \in ask[a].marked \cup ask[a].blind \/ Known(x.id, x.text, ask[a].checked))
    BY <2>2, <2>6 DEF Checked
  <2>9. h.checked <= now /\ (h.marked \/ Known(h.id, h.text, h.checked))
    <3>1. CASE x.id \in ask[a].blind
      <4>1. h.checked = 0 /\ now \in Nat
        BY <2>4, <3>1 DEF Looked, Base, TypeOK
      <4>2. x \in Items(NoteIds)
        <5>1. ask[a].pack \in Packs(NoteIds) \cup {None}
          BY Me DEF Processes
        <5> QED BY <2>6, <5>1, PiecesTyped DEF Base
      <4>3. disk[h.id].mtime >= 0
        <5>1. h.id \in NoteIds
          BY <2>4, <4>2 DEF Items
        <5>2. disk \in [NoteIds -> [text : Nat, mtime : Nat]]
          BY DEF Base, TypeOK, Files, NoteIds
        <5>3. disk[h.id] \in [text : Nat, mtime : Nat]
          BY <5>1, <5>2
        <5> QED BY <5>3
      <4> QED BY <4>1, <4>3 DEF Known
    <3>2. CASE x.id \notin ask[a].blind
      BY <2>4, <2>8, <3>2 DEF Looked
    <3> QED BY <3>1, <3>2
  <2>10. Known(h.id, h.text, h.checked)' <=> Known(h.id, h.text, h.checked)
    BY <1>1 DEF Known
  <2>11. x \in Printed(h.by)' /\ x.id = h.id /\ Stands(h.by, "done")' /\ h.id \notin ask'[h.by].shown
    BY <2>2, <2>4, <2>5, <2>7 DEF Keeps, Stands
  <2> QED BY <1>1, <2>4, <2>9, <2>10, <2>11 DEF HeardRight
<1> QED BY <1>2, <1>3

LEMMA ToldRightKept ==
    ASSUME Base, NEW a \in Asks, AskMoves(a), \A t \in told : ToldRight(t), NEW t \in told'
    PROVE  ToldRight(t)'
<1>1. CASE t \in told
  <2>1. ToldRight(t) /\ t.by \in Asks
    BY <1>1, Me
  <2>2. CASE t.by # a
    <3>1. ask'[t.by] = ask[t.by] /\ DeliveredTo(t.by)' = DeliveredTo(t.by)
      BY <2>1, <2>2, OthersStay
    <3> QED BY <2>1, <3>1 DEF ToldRight
  <2>3. CASE t.by = a
    <3>1. GoesOn(a)
      BY <2>1, <2>3 DEF ToldRight, AskMoves, Begins, Fresh, After
    <3>2. ask'[a].pack = ask[a].pack /\ ask'[a].pc \in After /\ Keeps(a)
      BY <2>1, <2>3, <3>1 DEF ToldRight, GoesOn
    <3>3. DeliveredTo(a)' = DeliveredTo(a)
      BY <3>2, SameDelivery DEF Keeps
    <3> QED BY <2>1, <2>3, <3>2, <3>3 DEF ToldRight
  <2> QED BY <2>2, <2>3
<1>2. CASE t \notin told
  <2>1. Tells(a)
    BY <1>2 DEF AskMoves, Begins, GoesOn
  <2>2. t.by = a /\ \E x \in Pieces(ask'[a].pack) : x.id = t.id /\ (t.delivered <=> DeliveredTo(a)' /\ x.body > 0)
    BY <1>2, <2>1 DEF Tells
  <2>3. ask'[a].pc \in After
    BY <2>1 DEF Tells, After
  <2> QED BY <2>2, <2>3 DEF ToldRight
<1> QED BY <1>1, <1>2

LEMMA LoggedKept ==
    ASSUME Base, NEW a \in Asks, AskMoves(a), NEW b \in Asks, LoggedRight(b)
    PROVE  LoggedRight(b)'
<1>1. CASE b # a
  <2>1. ask'[b] = ask[b] /\ DeliveredTo(b)' = DeliveredTo(b)
    BY <1>1, OthersStay
  <2>2. event'[b] = event[b]
    BY <1>1 DEF AskMoves, Begins, GoesOn
  <2> QED BY <2>1, <2>2 DEF LoggedRight
<1>2. CASE b = a /\ event[a] # None /\ event'[a] = event[a]
  <2>1. ask[a].pc \in {"record", "print", "done", "dead"}
    BY <1>2 DEF LoggedRight
  <2>2. GoesOn(a)
    BY <2>1 DEF AskMoves, Begins, Fresh
  <2>3. ask'[a].pc \in {"print", "done", "dead"} /\ ask'[a].pack = ask[a].pack /\ Keeps(a)
    BY <2>1, <2>2 DEF GoesOn, Running, After
  <2>4. DeliveredTo(a)' = DeliveredTo(a)
    BY <2>3, SameDelivery DEF Keeps
  <2> QED BY <1>2, <2>3, <2>4 DEF LoggedRight
<1>3. CASE b = a /\ event[a] = None /\ event'[a] = event[a]
  BY <1>3 DEF LoggedRight
<1>4. CASE b = a /\ event'[a] # event[a]
  <2>1. Logs(a) /\ GoesOn(a)
    BY <1>4 DEF AskMoves, Begins, GoesOn
  <2>2. ask'[a].pack = ask[a].pack /\ Keeps(a)
    BY <2>1 DEF GoesOn, Logs, After
  <2>3. DeliveredTo(a)' = DeliveredTo(a)
    BY <2>2, SameDelivery DEF Keeps
  <2>4. \A d \in event'[a].access : d = DeliveredTo(a)
    BY <2>1 DEF Logs
  <2>5. ask'[a].pc = "record"
    BY <2>1 DEF Logs
  <2> QED BY <1>4, <2>3, <2>4, <2>5 DEF LoggedRight
<1> QED BY <1>1, <1>2, <1>3, <1>4

LEMMA CheckedKept ==
    ASSUME Base, NEW a \in Asks, AskMoves(a), NEW b \in Asks, Checked(b)
    PROVE  Checked(b)'
<1>1. vault' = vault /\ disk' = disk /\ row' = row /\ now' = now /\ now \in Nat
  BY DEF AskMoves, world, Base, TypeOK
<1>2. CASE b # a
  <2>1. ask'[b] = ask[b]
    BY <1>2, OthersStay
  <2> QED BY <1>1, <2>1 DEF Checked, Known
<1>3. CASE b = a /\ GoesOn(a)
  <2>1. ask'[a].checked <= now
    BY <1>1, <1>3 DEF GoesOn, Checked
  <2>2. ASSUME ask'[a].pc \in {"log", "record", "print"}, NEW x \in WithText(ask'[a].pack)
        PROVE  x.id \in ask'[a].marked \cup ask'[a].blind \/ Known(x.id, x.text, ask'[a].checked)
    <3>1. CASE Looks(a)
      <4>1. ask'[a].pack = ask[a].pack /\ ask'[a].checked = now
        BY <3>1 DEF Looks
      <4>2. CASE changedOnDisk(x.id)
        BY <2>2, <3>1, <4>1, <4>2 DEF Looks
      <4>3. CASE ~changedOnDisk(x.id)
        <5>1. x \in Items(NoteIds)
          <6>1. ask[a].pack \in Packs(NoteIds) \cup {None}
            BY Me DEF Processes
          <6> QED BY <2>2, <4>1, <6>1, PiecesTyped DEF WithText, Base
        <5>2. x.id \in NoteIds /\ x.text # 0
          BY <5>1 DEF Items
        <5> QED BY <4>3, <5>2 DEF changedOnDisk, Known, Indexed
      <4> QED BY <4>2, <4>3
    <3>2. CASE ask[a].pc \in {"log", "record"} /\ Carries(a)
      BY <1>3, <2>2, <3>2 DEF Checked, Carries
    <3> QED BY <1>3, <2>2, <3>1, <3>2 DEF GoesOn
  <2>3. \A x : Known(x.id, x.text, ask'[a].checked) => Known(x.id, x.text, ask[a].checked)'
    BY <1>1 DEF Known
  <2> QED BY <1>1, <1>3, <2>1, <2>2, <2>3 DEF Checked
<1>4. CASE b = a /\ Begins(a)
  <2>1. ask'[a].checked <= now
    <3>1. ask'[a].checked = 0
      BY <1>4 DEF Begins
    <3> QED BY <1>1, <3>1
  <2>2. ask'[a].pc \in {"rank", "alone"}
    BY <1>4 DEF Begins, Opened
  <2> QED BY <1>1, <1>4, <2>1, <2>2 DEF Checked
<1> QED BY <1>2, <1>3, <1>4 DEF AskMoves

LEMMA AskKeepsBooks == ASSUME IInv, NEW a \in Asks, AskStep(a) \/ MemoryPack(a) PROVE IInv'
<1>1. Base /\ Books /\ AskMoves(a)
  BY StepMoves DEF IInv
<1>2. \A b \in Asks : Recorded(b)'
  BY <1>1, RecordedKept DEF Books
<1>3. \A b \in Asks : Withheld(b)'
  BY <1>1, WithheldKept DEF Books
<1>4. \A b \in Asks : Remembered(b)'
  BY <1>1, RememberedKept DEF Books
<1>5. \A b \in Asks : Answered(b)'
  BY <1>1, AnsweredKept DEF Books
<1>6. \A b \in Asks : LoggedRight(b)'
  BY <1>1, LoggedKept DEF Books
<1>7. \A b \in Asks : Checked(b)'
  BY <1>1, CheckedKept DEF Books
<1>8. \A e \in ledger' : Booked(e)'
  BY <1>1, BookedKept DEF Books
<1>9. \A h \in heard' : HeardRight(h)'
  BY <1>1, HeardRightKept DEF Books
<1>10. \A t \in told' : ToldRight(t)'
  BY <1>1, ToldRightKept DEF Books
<1>11. Books'
  BY <1>2, <1>3, <1>4, <1>5, <1>6, <1>7, <1>8, <1>9, <1>10 DEF Books
<1> QED BY <1>1, <1>11 DEF IInv, AskMoves

-----------------------------------------------------------------------------
(* So does every step of the world *)

\* What was known of a text when it was looked at is so ever after.
KnownStays ==
    \A id \in NoteIds, text \in Nat, checked \in Nat :
       checked <= now /\ Known(id, text, checked) => Known(id, text, checked)'

LEMMA WorldKeepsBooks ==
    ASSUME IInv, WorldMoves, Base', now' = now \/ now' = now + 1, KnownStays
    PROVE  IInv'
<1>1. vault' = vault /\ ledger' = ledger /\ ask' = ask /\ told' = told /\ event' = event /\ heard' = heard
  BY DEF WorldMoves
<1>2. now \in Nat /\ now' \in Nat /\ now <= now'
  BY DEF IInv, Base, TypeOK
<1>3. \A a \in Asks : DeliveredTo(a)' = DeliveredTo(a) /\ Printed(a)' = Printed(a)
  BY <1>1, SameDelivery
<1>4. ASSUME NEW b \in Asks
      PROVE  Recorded(b)' /\ Withheld(b)' /\ Remembered(b)' /\ Answered(b)' /\ LoggedRight(b)'
  <2>1. Recorded(b) /\ Withheld(b) /\ Remembered(b) /\ Answered(b) /\ LoggedRight(b)
    BY DEF IInv, Books
  <2>2. Recorded(b)'
    <3>1. ask[b].recorded \in Nat /\ Retention \in Nat
      BY Me, AskAssumption DEF IInv, Processes
    <3>2. ask[b].recorded <= now - Retention => ask[b].recorded <= now' - Retention
      BY <1>2, <3>1
    <3> QED BY <1>1, <1>3, <2>1, <3>2 DEF Recorded
  <2>3. Withheld(b)'
    BY <1>1, <2>1 DEF Withheld
  <2>4. Remembered(b)'
    BY <1>1, <2>1 DEF Remembered
  <2>5. Answered(b)'
    BY <1>1, <1>3, <2>1 DEF Answered, Stands, HeardBy
  <2>6. LoggedRight(b)'
    BY <1>1, <1>3, <2>1 DEF LoggedRight
  <2> QED BY <2>2, <2>3, <2>4, <2>5, <2>6
<1>5. ASSUME NEW b \in Asks PROVE Checked(b)'
  <2>1. Checked(b) /\ ask[b] \in Processes
    BY Me DEF IInv, Books
  <2>2. ask[b].checked \in Nat /\ ask[b].checked <= now /\ ask[b].checked <= now'
    BY <1>2, <2>1 DEF Checked, Processes
  <2>3. ASSUME NEW x \in WithText(ask[b].pack), Known(x.id, x.text, ask[b].checked)
        PROVE  Known(x.id, x.text, ask[b].checked)'
    <3>1. x \in Items(NoteIds)
      BY <2>1, PiecesTyped DEF WithText, IInv, Base, Processes
    <3>2. x.id \in NoteIds /\ x.text \in Nat
      BY <3>1 DEF Items
    <3> DEFINE id == x.id
               text == x.text
               checked == ask[b].checked
    <3>3. checked' = checked
      BY <1>1
    <3>4. id \in NoteIds /\ text \in Nat /\ checked \in Nat /\ checked <= now /\ Known(id, text, checked)
      BY <2>2, <2>3, <3>2
    <3> HIDE DEF id, text, checked
    <3>5. Known(id, text, checked)'
      BY <3>3, <3>4 DEF KnownStays, Known
    <3> QED BY <3>5 DEF id, text, checked
  <2> QED BY <1>1, <2>1, <2>2, <2>3 DEF Checked
<1>6. \A e \in ledger' : Booked(e)'
  BY <1>1 DEF IInv, Books, Booked
<1>7. ASSUME NEW h \in heard' PROVE HeardRight(h)'
  <2>1. HeardRight(h) /\ h \in heard
    BY <1>1 DEF IInv, Books
  <2>2. h.by \in Asks /\ h.id \in NoteIds /\ h.text \in Nat /\ h.checked \in Nat
    BY <2>1 DEF IInv, Base, TypeOK
  <2>3. h.checked <= now /\ h.checked <= now'
    BY <1>2, <2>1, <2>2 DEF HeardRight
  <2>4. h.marked \/ Known(h.id, h.text, h.checked)'
    BY <2>1, <2>2, <2>3 DEF HeardRight, KnownStays
  <2> QED BY <1>1, <1>3, <2>1, <2>2, <2>3, <2>4 DEF HeardRight, Stands
<1>8. \A t \in told' : ToldRight(t)'
  <2>1. \A t \in told : t.by \in Asks
    BY DEF IInv, Base, TypeOK
  <2> QED BY <1>1, <1>3, <2>1 DEF IInv, Books, ToldRight
<1>9. Books'
  BY <1>4, <1>5, <1>6, <1>7, <1>8, <1>1 DEF Books
<1> QED BY <1>9 DEF IInv

LEMMA WorldKeeps == ASSUME IInv, World \/ UNCHANGED askVars PROVE IInv'
<1>1. Base
  BY DEF IInv
<1>2. ASSUME NEW id \in vault.edited, Change(id) PROVE IInv'
  <2>1. /\ Base' /\ WorldMoves /\ row' = row /\ now' = now
        /\ disk'[id].mtime = now /\ \A o \in NoteIds \ {id} : disk'[o] = disk[o]
    BY <1>1, <1>2, ChangeKeeps
  <2>2. KnownStays
    BY <2>1 DEF KnownStays, Known
  <2> QED BY <2>1, <2>2, WorldKeepsBooks
<1>3. ASSUME Reindex PROVE IInv'
  <2>1. Base' /\ WorldMoves /\ row' = disk /\ disk' = disk /\ now' = now
    BY <1>1, <1>3, ReindexKeeps
  <2>2. KnownStays
    BY <2>1 DEF KnownStays, Known
  <2> QED BY <2>1, <2>2, WorldKeepsBooks
<1>4. ASSUME Tick PROVE IInv'
  <2>1. Base' /\ WorldMoves /\ row' = row /\ disk' = disk /\ now' = now + 1
    BY <1>1, <1>4, TickKeeps
  <2>2. KnownStays
    BY <2>1 DEF KnownStays, Known
  <2> QED BY <2>1, <2>2, WorldKeepsBooks
<1>5. ASSUME UNCHANGED askVars PROVE IInv'
  <2>1. Base' /\ WorldMoves /\ row' = row /\ disk' = disk /\ now' = now
    BY <1>1, <1>5, StillBase
  <2>2. KnownStays
    BY <2>1 DEF KnownStays, Known
  <2> QED BY <2>1, <2>2, WorldKeepsBooks
<1> QED BY <1>2, <1>3, <1>4, <1>5 DEF World

LEMMA InitBooks == ASSUME AskInit PROVE IInv
<1>1. Base
  BY InitBase
<1>2. /\ ledger = {} /\ told = {} /\ heard = {} /\ now = 1
      /\ \A a \in Asks : ask[a] = Fresh /\ event[a] = None
  BY DEF AskInit
<1>3. ASSUME NEW a \in Asks
      PROVE  Recorded(a) /\ Withheld(a) /\ Remembered(a) /\ Answered(a) /\ LoggedRight(a) /\ Checked(a)
  <2>1. ask[a].pc = "new" /\ ask[a].recorded = 0 /\ ask[a].shown = {} /\ ask[a].checked = 0 /\ event[a] = None
    BY <1>2 DEF Fresh
  <2> QED BY <1>2, <2>1 DEF Recorded, Withheld, Remembered, Answered, LoggedRight, Checked, Stands
<1> QED BY <1>1, <1>2, <1>3 DEF IInv, Books

LEMMA NextKeeps == ASSUME IInv, [AskNext]_askVars PROVE IInv'
BY AskKeepsBooks, WorldKeeps DEF AskNext

-----------------------------------------------------------------------------
(* What every step does to the count of a pack *)

\* What is taken out is what withholding leaves less.
LEMMA TakenIs ==
    ASSUME NEW ids, NEW s \in Seq(Items(ids)), NEW t \in Seq(Items(ids)), Len(t) = Len(s), NEW shown,
           \A k \in 1..Len(s) : Weight(t[k]) = Weight(s[k]) - (IF s[k].id \in shown THEN s[k].body ELSE 0),
           NEW used \in Int
    PROVE  /\ takenOut(used, s, shown) - used = Total(t) - Total(s)
           /\ takenOut(used, s, shown) \in Int /\ takenOut(used, s, shown) <= used
<1> DEFINE n == Len(s)
           S == {q \in Int : q <= used}
           less(k) == IF s[k].id \in shown THEN s[k].body ELSE 0
<1>1. n \in Nat /\ \A k \in 1..n : less(k) \in Nat /\ Weight(s[k]) \in Nat /\ Weight(t[k]) \in Nat
  <2>1. \A k \in 1..n : s[k] \in Items(ids) /\ t[k] \in Items(ids)
    OBVIOUS
  <2> QED BY <2>1, ItemSizes
<1>2. \A q \in S, k \in 1..n : (q - less(k)) \in S
  BY <1>1
<1>3. TakenRuns(shown, used, s, S)
  <2>1. used \in S
    OBVIOUS
  <2> HIDE DEF S
  <2> QED BY <1>2, <2>1, TakenFold
<1>4. PICK h \in [0..n -> S] :
         h[0] = used /\ (\A k \in 1..n : h[k] = (h[k - 1] - less(k))) /\ takenOut(used, s, shown) = h[n]
  BY <1>3 DEF TakenRuns
<1>5. \A k \in 1..n : Weight(t[k]) = Weight(s[k]) - less(k)
  OBVIOUS
<1> HIDE DEF less
<1> DEFINE d == [k \in 0..n |-> h[k] - used]
<1>6. d[0] = 0 /\ d[n] = h[n] - used /\ \A k \in 0..n : d[k] \in Int
  <2>0. n \in Nat
    OBVIOUS
  <2>a. \A k \in 0..n : h[k] \in Int
    <3>1. \A k \in 0..n : h[k] \in S
      BY <1>4
    <3> QED BY <3>1
  <2>1. 0 \in 0..n /\ n \in 0..n /\ \A k \in 0..n : h[k] \in Int
    BY <2>0, <2>a
  <2>2. h[0] = used
    BY <1>4
  <2> HIDE DEF n
  <2>3. d[0] = 0
    BY <2>1, <2>2
  <2>4. d[n] = h[n] - used
    BY <2>1
  <2>5. \A k \in 0..n : d[k] \in Int
    BY <2>1
  <2> QED BY <2>3, <2>4, <2>5
<1>7. ASSUME NEW k \in 1..n PROVE d[k] = d[k - 1] + (Weight(t[k]) - Weight(s[k]))
  <2>1. k \in 0..n /\ k - 1 \in 0..n
    BY <1>1
  <2>2. d[k] = h[k] - used /\ d[k - 1] = h[k - 1] - used /\ h[k] = h[k - 1] - less(k) /\ h[k - 1] \in Int
    BY <2>1, <1>4 DEF S
  <2> HIDE DEF d
  <2> QED BY <2>2, <1>1, <1>5
<1> HIDE DEF d
<1>8. Total(t) = Total(s) + d[n]
  BY <1>6, <1>7, TotalDiffers
<1>9. Total(s) \in Nat /\ h[n] \in Int /\ h[n] <= used
  <2>1. PICK g \in [0..n -> Nat] : Total(s) = g[n]
    BY TotalHow
  <2> QED BY <1>1, <1>4, <2>1
<1>10. takenOut(used, s, shown) = h[n]
  BY <1>4
<1> HIDE DEF n
<1>11. Total(t) - Total(s) = h[n] - used
  BY <1>6, <1>8, <1>9
<1> QED BY <1>9, <1>10, <1>11

\* The passages chosen for the target are counted, in the room there was.
LEMMA ExcerptCounted ==
    ASSUME Base, NEW a \in Asks, ask[a].mode \in Modes, ask[a].pack \in Made(NoteIds), Counted(ask[a].pack)
    PROVE  Counted(applyPassageExcerpt(a))
<1> DEFINE m == ask[a].mode
           p == ask[a].pack
           t == p.target
           n == Db.notes[t.id]
           left == p.budget - p.used + t.body
           chosen == Longest(n.passage, Min({m.excerpt, left}))
           best == IF chosen > 0 THEN chosen ELSE t.body
           dense == IF m.dense THEN Longest(n.dense, Min({2 * m.excerpt, left}) - best - Gap) ELSE 0
           body == best + (IF dense > 0 THEN Gap + dense ELSE 0)
           used == p.used - t.body + body
           x == [t EXCEPT !.body = body, !.text = n.text]
           r == [p EXCEPT !.target = x, !.used = used]
<1>1. CASE applyPassageExcerpt(a) = p
  BY <1>1
<1>2. CASE applyPassageExcerpt(a) # p
  <2>1. applyPassageExcerpt(a) = r /\ t.id \in Indexed /\ chosen + dense # 0
    BY <1>2 DEF applyPassageExcerpt
  <2>2. p \in Packs(NoteIds) /\ p.items \in Seq(Held(NoteIds)) /\ t \in Held(NoteIds) /\ p.used \in Int /\ p.budget \in Nat
    BY MadeFields
  <2>3. t \in Items(NoteIds)
    BY <2>2 DEF Held
  <2>4. t.body \in Nat /\ t.fm \in Nat
    BY <2>3, ItemSizes
  <2>5. n \in Sizes
    BY <2>1, DbTyped DEF Base, IsDb
  <2>6. m.excerpt \in Nat
    BY AskAssumption
  <2>7. p.used = Total(<<t>> \o p.items) /\ p.used <= Max({p.budget, t.fm})
    BY DEF Counted
  <2> HIDE DEF n, m
  <2>8. n.passage \in SUBSET Nat /\ n.dense \in SUBSET Nat /\ n.text \in Nat \ {0}
    BY <2>5 DEF Sizes
  <2> HIDE DEF t, p
  <2>9. left \in Int /\ p.budget = left + p.used - t.body
    BY <2>2, <2>4
  <2> HIDE DEF left
  <2>10. chosen \in Nat /\ (chosen = 0 \/ chosen <= left)
    <3> DEFINE room == Min({m.excerpt, left})
    <3>1. room \in Int /\ room <= left
      BY <2>6, <2>9, MinLess
    <3> HIDE DEF room
    <3>2. Longest(n.passage, room) \in Nat /\ (Longest(n.passage, room) = 0 \/ Longest(n.passage, room) <= room)
      BY <3>1, <2>8, LongestUpTo
    <3> QED BY <3>1, <3>2, <2>9 DEF room
  <2> HIDE DEF chosen
  <2>11. best \in Nat /\ (chosen > 0 => best = chosen)
    BY <2>4, <2>10
  <2> HIDE DEF best
  <2>12. dense \in Nat /\ (dense = 0 \/ dense + best + Gap <= left)
    <3> DEFINE least == Min({2 * m.excerpt, left})
               room == least - best - Gap
    <3>1. least \in Int /\ least <= left
      BY <2>6, <2>9, MinLess
    <3> HIDE DEF least
    <3>2. room \in Int /\ room + best + Gap <= left
      BY <3>1, <2>9, <2>11 DEF Gap
    <3> HIDE DEF room
    <3>3. Longest(n.dense, room) \in Nat /\ (Longest(n.dense, room) = 0 \/ Longest(n.dense, room) <= room)
      BY <3>2, <2>8, LongestUpTo
    <3>4. dense = IF m.dense THEN Longest(n.dense, room) ELSE 0
      BY DEF room, least
    <3> HIDE DEF dense
    <3> QED BY <3>2, <3>3, <3>4, <2>9, <2>11 DEF Gap
  <2> HIDE DEF dense
  <2>13. body \in Nat /\ body <= left
    BY <2>1, <2>9, <2>10, <2>11, <2>12 DEF Gap
  <2> HIDE DEF body
  <2>14. used \in Int /\ used = p.used - t.body + body /\ used <= p.budget
    BY <2>2, <2>4, <2>9, <2>13
  <2> HIDE DEF used
  <2>15. x \in Items(NoteIds) /\ x.fm = t.fm /\ x.body = body
    <3> DEFINE text == n.text
    <3>1. text \in Nat \ {0}
      BY <2>8
    <3> HIDE DEF text
    <3>2. [t EXCEPT !.body = body, !.text = text] \in Items(NoteIds)
      BY <3>1, <2>3, <2>13 DEF Items
    <3> QED BY <3>2, <2>3 DEF text, Items
  <2> HIDE DEF x
  <2>16. r.target = x /\ r.items = p.items /\ r.used = used /\ r.budget = p.budget
    BY <2>2 DEF Packs
  <2> HIDE DEF r
  <2>17. p.items \in Seq(Items(NoteIds))
    BY <2>2 DEF Held
  <2>18. Total(<<x>> \o p.items) = Total(<<t>> \o p.items) - Weight(t) + Weight(x) /\ Total(<<t>> \o p.items) \in Nat
    BY <2>3, <2>15, <2>17, HeadSwapped
  <2>19. Weight(t) = t.fm + t.body /\ Weight(x) = t.fm + body
    BY <2>15 DEF Weight
  <2>20. used = Total(<<x>> \o p.items)
    BY <2>4, <2>7, <2>13, <2>14, <2>18, <2>19
  <2>21. Max({p.budget, t.fm}) = IF p.budget >= t.fm THEN p.budget ELSE t.fm
    BY <2>2, <2>4, MaxPair
  <2>22. used <= Max({r.budget, r.target.fm})
    <3>1. Max({r.budget, r.target.fm}) = Max({p.budget, t.fm})
      BY <2>15, <2>16
    <3> QED BY <3>1, <2>2, <2>4, <2>14, <2>21
  <2> QED BY <2>1, <2>16, <2>20, <2>22 DEF Counted
<1> QED BY <1>1, <1>2

LEMMA KeptWeight ==
    ASSUME NEW ids, NEW x \in Held(ids), NEW shown
    PROVE  /\ Kept(x, shown) \in Items(ids) /\ Kept(x, shown).fm = x.fm
           /\ Weight(Kept(x, shown)) = Weight(x) - (IF x.id \in shown THEN x.body ELSE 0)
<1>1. x \in Items(ids) /\ x.fm \in Nat /\ x.body \in Nat
  BY ItemSizes DEF Held
<1>2. Withhold(x).fm = x.fm /\ Withhold(x).body = 0
  BY <1>1 DEF Withhold, Items
<1>3. Kept(x, shown) \in Items(ids)
  BY KeptTyped
<1>4. Kept(x, shown).fm = x.fm /\ Kept(x, shown).body = IF x.id \in shown THEN 0 ELSE x.body
  BY <1>2 DEF Kept
<1> QED BY <1>1, <1>3, <1>4 DEF Weight

\* What is withheld is taken out of the count.
LEMMA MarkCounted ==
    ASSUME NEW ids, NEW p \in Made(ids), NEW shown, Counted(p)
    PROVE  Counted(markShownBefore(p, shown))
<1> DEFINE q == markShownBefore(p, shown)
           target == Kept(p.target, shown)
           items == [i \in DOMAIN p.items |-> Kept(p.items[i], shown)]
           s == <<p.target>> \o p.items
           t == <<target>> \o items
           used == takenOut(p.used, s, shown)
<1>1. /\ p.target \in Held(ids) /\ p.items \in Seq(Held(ids)) /\ p.used \in Int /\ p.budget \in Nat /\ p \in Packs(ids)
  BY MadeFields
<1>2. q = [p EXCEPT !.target = target, !.items = items, !.used = used]
  BY <1>1 DEF markShownBefore, Packs, Kept
<1>3. q.target = target /\ q.items = items /\ q.used = used /\ q.budget = p.budget
  BY <1>1, <1>2 DEF Packs
<1>4. /\ target \in Items(ids) /\ target.fm = p.target.fm
      /\ Weight(target) = Weight(p.target) - (IF p.target.id \in shown THEN p.target.body ELSE 0)
  BY <1>1, KeptWeight
<1>5. /\ DOMAIN p.items = 1..Len(p.items) /\ Len(p.items) \in Nat
      /\ \A i \in 1..Len(p.items) : p.items[i] \in Held(ids)
  BY <1>1
<1>6. \A i \in 1..Len(p.items) : /\ items[i] \in Items(ids)
         /\ Weight(items[i]) = Weight(p.items[i]) - (IF p.items[i].id \in shown THEN p.items[i].body ELSE 0)
  BY <1>5, KeptWeight
<1>7. items \in Seq(Items(ids)) /\ Len(items) = Len(p.items)
  <2>1. items = [i \in 1..Len(p.items) |-> items[i]]
    BY <1>5
  <2> HIDE DEF items
  <2>2. items \in [1..Len(p.items) -> Items(ids)]
    BY <2>1, <1>6
  <2> QED BY <2>2, <1>5
<1> HIDE DEF target, items
<1>8. p.items \in Seq(Items(ids)) /\ p.target \in Items(ids)
  BY <1>1 DEF Held
<1>9. s \in Seq(Items(ids)) /\ Len(s) = Len(p.items) + 1 /\ s[1] = p.target /\ \A k \in 1..Len(p.items) : s[k + 1] = p.items[k]
  BY <1>8
<1>10. t \in Seq(Items(ids)) /\ Len(t) = Len(p.items) + 1 /\ t[1] = target /\ \A k \in 1..Len(p.items) : t[k + 1] = items[k]
  BY <1>4, <1>7
<1> HIDE DEF s, t
<1>11. ASSUME NEW k \in 1..Len(s)
       PROVE  Weight(t[k]) = Weight(s[k]) - (IF s[k].id \in shown THEN s[k].body ELSE 0)
  <2>1. CASE k = 1
    BY <2>1, <1>4, <1>9, <1>10
  <2>2. CASE k # 1
    <3>1. k - 1 \in 1..Len(p.items) /\ (k - 1) + 1 = k
      BY <2>2, <1>5, <1>9
    <3> QED BY <3>1, <1>6, <1>9, <1>10
  <2> QED BY <2>1, <2>2
<1>12. used - p.used = Total(t) - Total(s) /\ used \in Int /\ used <= p.used
  <2>1. Len(t) = Len(s)
    BY <1>9, <1>10
  <2> HIDE DEF q
  <2> QED BY <1>1, <1>9, <1>10, <1>11, <2>1, TakenIs
<1>13. Total(s) \in Nat /\ Total(t) \in Nat
  <2>1. Total(s) \in Nat
    BY <1>4, <1>9, TotalMore
  <2>2. Total(t) \in Nat
    BY <1>4, <1>10, TotalMore
  <2> QED BY <2>1, <2>2
<1>14. p.used = Total(s) /\ p.used <= Max({p.budget, p.target.fm})
  BY DEF Counted, s
<1> HIDE DEF q, used
<1>15. q.used = Total(<<q.target>> \o q.items)
  BY <1>1, <1>3, <1>12, <1>13, <1>14 DEF t
<1>16. p.target.fm \in Nat
  BY <1>8, ItemSizes
<1>17. Max({p.budget, p.target.fm}) \in Int
  BY <1>1, <1>16, MaxPair
<1>18. q.used <= Max({q.budget, q.target.fm})
  BY <1>1, <1>3, <1>4, <1>12, <1>14, <1>17
<1> QED BY <1>15, <1>18 DEF Counted, q

\* Every pack counts what it carries.
Counts == \A a \in Asks : ask[a].pack # None => Counted(ask[a].pack)

\* A pack is made, around a note that is indexed.
MakesPack(a) ==
    /\ ask[a].pack = None
    /\ ask'[a].config \in Configs([NoteIds -> Int])
    /\ \A id \in NoteIds : ask'[a].config.activation[id] \in Int
    /\ \E target \in Indexed : ask'[a].pack = PackAround(Db, target, ask'[a].config)

\* Of a pack that was made, some text is changed or withheld.
ChangesPack(a) ==
    /\ ask[a].mode \in Modes /\ ask[a].pack \in Made(NoteIds)
    /\ \/ ask'[a].pack = applyPassageExcerpt(a)
       \/ \E shown : ask'[a].pack = markShownBefore(ask[a].pack, shown)

PackMoves(a) ==
    /\ \A b \in Asks \ {a} : ask'[b] = ask[b]
    /\ \/ ask'[a].pack = None
       \/ ask'[a].pack = ask[a].pack
       \/ MakesPack(a)
       \/ ChangesPack(a)

LEMMA PackStays ==
    ASSUME Base, NEW a \in Asks,
           logAskExperiment(a) \/ Record(a) \/ Reply(a) \/ Die(a)
    PROVE  ask'[a].pack = ask[a].pack
<1>1. ask[a] \in Processes /\ ask \in [Asks -> Processes]
  BY Me DEF Base, TypeOK
<1>2. ASSUME NEW pc, Proceed(a, pc) PROVE ask'[a].pack = ask[a].pack
  BY <1>1, <1>2 DEF Proceed, Processes
<1>3. CASE logAskExperiment(a)
  BY <1>2, <1>3 DEF logAskExperiment
<1>4. CASE Record(a)
  <2>1. CASE Proceed(a, "print")
    BY <1>2, <2>1
  <2>2. CASE ask' = [ask EXCEPT ![a] = [@ EXCEPT !.pc = "print", !.recorded = now]]
    BY <1>1, <2>2 DEF Processes
  <2> QED BY <1>4, <2>1, <2>2 DEF Record
<1>5. CASE Reply(a)
  BY <1>2, <1>5 DEF Reply
<1>6. CASE Die(a)
  BY <1>2, <1>6 DEF Die
<1> QED BY <1>3, <1>4, <1>5, <1>6

LEMMA PackStep ==
    ASSUME Base, NEW a \in Asks, AskStep(a) \/ MemoryPack(a)
    PROVE  PackMoves(a)
<1> DEFINE me == ask[a]
<1>1. me \in Processes /\ Shape(me) /\ ask \in [Asks -> Processes]
  BY Me DEF Base, TypeOK
<1>2. \A b \in Asks \ {a} : ask'[b] = ask[b]
  BY StepMoves DEF AskMoves
<1>3. CASE Open(a)
  <2>1. ask'[a].pack = None
    BY <1>3, OpenKeeps DEF Opened
  <2> QED BY <1>2, <2>1 DEF PackMoves
<1>4. CASE Rank(a)
  BY <1>2, <1>4, RankKeeps DEF PackMoves
<1>5. CASE Pack(a)
  <2> DEFINE target == Head(me.hits)
             config == PackConfig(a)
             pack == PackAround(Db, target, config)
             r == [me EXCEPT !.pc = "select", !.config = config, !.pack = pack]
  <2>1. me.pc = "pack" /\ me.mode \in Modes /\ me.hits # <<>> /\ me.pack = None
    BY <1>1, <1>5 DEF Pack, Stands, Shape
  <2>2. CASE target \notin Indexed
    <3>1. Proceed(a, "log")
      BY <1>5, <2>2 DEF Pack
    <3>2. ask'[a].pack = me.pack
      BY <1>1, <3>1 DEF Proceed, Processes
    <3> QED BY <1>2, <3>2 DEF PackMoves
  <2>3. CASE target \in Indexed
    <3>1. ask' = [ask EXCEPT ![a] = r]
      BY <1>5, <2>3 DEF Pack
    <3>2. config \in Configs([NoteIds -> Int]) /\ \A id \in NoteIds : config.activation[id] \in Int
      BY <2>1, ConfigTyped
    <3> HIDE DEF config, pack
    <3>3. r.config = config /\ r.pack = pack
      BY <1>1 DEF Processes
    <3>4. ask'[a] = r
      BY <1>1, <3>1
    <3> HIDE DEF r
    <3>5. ask'[a].config = config /\ ask'[a].pack = pack
      BY <3>3, <3>4
    <3>6. ask'[a].pack = PackAround(Db, target, ask'[a].config)
      BY <3>5 DEF pack
    <3>7. MakesPack(a)
      BY <2>1, <2>3, <3>2, <3>5, <3>6 DEF MakesPack
    <3> QED BY <1>2, <3>7 DEF PackMoves
  <2> QED BY <2>2, <2>3
<1>6. CASE MemoryPack(a)
  <2> DEFINE config(c) == [budget |-> c.budget, depth |-> c.depth, maxItems |-> c.maxItems, slim |-> c.slim,
                           excerpt |-> c.excerpt, overflow |-> "none", seeds |-> <<>>, drafts |-> c.drafts,
                           activation |-> vault.activation]
             pack(c, target) == PackAround(Db, target, config(c))
  <2>1. me = Fresh
    BY <1>6, MemoryPackKeeps
  <2>2. PICK c \in PackModes, target \in Indexed :
           ask' = [ask EXCEPT ![a] = [me EXCEPT !.pc = "alone", !.pack = pack(c, target), !.config = config(c)]]
    BY <1>6 DEF MemoryPack
  <2> DEFINE cfg == config(c)
             p == PackAround(Db, target, cfg)
             r == [me EXCEPT !.pc = "alone", !.pack = p, !.config = cfg]
  <2>3. /\ c.budget \in Nat /\ c.depth \in Nat \ {0} /\ c.maxItems \in Nat /\ c.slim \in BOOLEAN
        /\ c.excerpt \in Nat /\ c.drafts \in BOOLEAN
    BY AskAssumption
  <2>4. vault.activation \in [NoteIds -> Int]
    BY AskAssumption DEF Base, TypeOK, NoteIds
  <2>5. cfg \in Configs([NoteIds -> Int]) /\ cfg.activation = vault.activation
    <3>1. <<>> \in Seq(Seeds)
      OBVIOUS
    <3> QED BY <2>3, <2>4, <3>1 DEF Configs
  <2>6. ask' = [ask EXCEPT ![a] = r]
    BY <2>2
  <2> HIDE DEF cfg, p
  <2>7. r.config = cfg /\ r.pack = p
    BY <1>1 DEF Processes
  <2>8. ask'[a] = r
    BY <1>1, <2>6
  <2> HIDE DEF r
  <2>9. ask'[a].config = cfg /\ ask'[a].pack = p
    BY <2>7, <2>8
  <2>10. ask'[a].pack = PackAround(Db, target, ask'[a].config)
    BY <2>9 DEF p
  <2>11. me.pack = None
    BY <2>1 DEF Fresh
  <2>12. MakesPack(a)
    BY <2>4, <2>5, <2>9, <2>10, <2>11 DEF MakesPack
  <2> QED BY <1>2, <2>12 DEF PackMoves
<1>7. CASE Select(a)
  <2>1. me.mode \in Modes /\ me.pack \in Made(NoteIds)
    BY <1>1, <1>7 DEF Select, Stands, Shape
  <2>2. PICK pack \in {me.pack, applyPassageExcerpt(a)} : ask' = [ask EXCEPT ![a] = [@ EXCEPT !.pc = "deliver", !.pack = pack]]
    BY <1>7 DEF Select
  <2>3. ask'[a].pack = pack
    BY <1>1, <2>2 DEF Processes
  <2> QED BY <1>2, <2>1, <2>2, <2>3 DEF PackMoves, ChangesPack
<1>8. CASE Deliver(a)
  <2>1. me.mode \in Modes /\ me.pack \in Made(NoteIds)
    BY <1>1, <1>8 DEF Deliver, Stands, Shape
  <2> DEFINE pack == markShownBefore(me.pack, me.shown)
  <2>2. ask' = [ask EXCEPT ![a] = [@ EXCEPT !.pc = "mark", !.pack = pack]]
    BY <1>8 DEF Deliver
  <2> HIDE DEF pack
  <2>3. ask'[a].pack = pack
    BY <1>1, <2>2 DEF Processes
  <2>4. \E shown : ask'[a].pack = markShownBefore(me.pack, shown)
    BY <2>3 DEF pack
  <2> QED BY <1>2, <2>1, <2>4 DEF PackMoves, ChangesPack
<1>9. CASE MarkChangedOnDisk(a)
  <2>1. ask'[a].pack = me.pack
    BY <1>9, MarkKeeps DEF Carries
  <2> QED BY <1>2, <2>1 DEF PackMoves
<1>10. CASE logAskExperiment(a) \/ Record(a) \/ Reply(a) \/ Die(a)
  <2>1. ask'[a].pack = me.pack
    BY <1>10, PackStays DEF logAskExperiment, Record, Reply
  <2> QED BY <1>2, <2>1 DEF PackMoves
<1> QED BY <1>3, <1>4, <1>5, <1>6, <1>7, <1>8, <1>9, <1>10 DEF AskStep

\* What a pack is as it is made.
LEMMA MakesHonest ==
    ASSUME Base, NEW a \in Asks, MakesPack(a)
    PROVE  \E target \in Indexed : Honest(Db, target, ask'[a].config, ask'[a].pack)
<1>1. IsDb(Db) /\ DOMAIN Db.notes = Indexed /\ Indexed \in SUBSET NoteIds
  BY DbTyped DEF Base
<1>2. PICK cfg \in Configs([NoteIds -> Int]) : cfg = ask'[a].config
  BY DEF MakesPack
<1>3. PICK pack : pack = ask'[a].pack
  OBVIOUS
<1>4. PICK target \in Indexed : pack = PackAround(Db, target, cfg)
  BY <1>2, <1>3 DEF MakesPack
<1>5. \A id \in Indexed : cfg.activation[id] \in Int
  BY <1>1, <1>2 DEF MakesPack
<1>6. Honest(Db, target, cfg, PackAround(Db, target, cfg))
  BY <1>1, <1>5, PackHonest
<1> QED BY <1>2, <1>3, <1>4, <1>6

LEMMA CountsKept ==
    ASSUME Base, Counts, NEW a \in Asks, AskStep(a) \/ MemoryPack(a)
    PROVE  Counts'
<1>1. PackMoves(a)
  BY PackStep
<1>2. ASSUME ask'[a].pack # None PROVE Counted(ask'[a].pack)
  <2>1. CASE ask'[a].pack = ask[a].pack
    BY <1>2, <2>1 DEF Counts
  <2>2. CASE MakesPack(a)
    BY <2>2, MakesHonest, CountedFrom
  <2>3. CASE ChangesPack(a)
    <3>1. ask[a].mode \in Modes /\ ask[a].pack \in Made(NoteIds)
      BY <2>3 DEF ChangesPack
    <3>2. ask[a].pack # None /\ Counted(ask[a].pack)
      BY <3>1, MadePieces DEF Counts
    <3>3. CASE ask'[a].pack = applyPassageExcerpt(a)
      BY <3>1, <3>2, <3>3, ExcerptCounted
    <3>4. CASE \E shown : ask'[a].pack = markShownBefore(ask[a].pack, shown)
      BY <3>1, <3>2, <3>4, MarkCounted
    <3> QED BY <2>3, <3>3, <3>4 DEF ChangesPack
  <2> QED BY <1>1, <1>2, <2>1, <2>2, <2>3 DEF PackMoves
<1>3. \A b \in Asks : ask'[b].pack # None => Counted(ask'[b].pack)
  BY <1>1, <1>2 DEF PackMoves, Counts
<1>4. (\A b \in Asks : ask[b].pack # None => Counted(ask[b].pack))'
  BY <1>3 DEF Counted
<1> QED BY <1>4 DEF Counts

LEMMA MakesRight ==
    ASSUME Base, NEW a \in Asks, MakesPack(a), ask'[a].pack # None
    PROVE  Judged(ask'[a].config, ask'[a].pack)
<1>1. IsDb(Db) /\ DOMAIN Db.notes = Indexed /\ Indexed \in SUBSET NoteIds
  BY DbTyped DEF Base
<1>2. PICK cfg \in Configs([NoteIds -> Int]) : cfg = ask'[a].config
  BY DEF MakesPack
<1>3. PICK pack : pack = ask'[a].pack
  OBVIOUS
<1>4. PICK target \in Indexed : Honest(Db, target, cfg, pack)
  BY <1>2, <1>3, MakesHonest
<1>5. \A id \in Indexed : cfg.activation[id] \in Int
  BY <1>1, <1>2 DEF MakesPack
<1>6. CandsRight(Db, cfg, target, Candidates(Db, target, cfg))
  BY <1>1, <1>5, CandidatesRight
<1>7. cfg.maxItems \in Nat
  BY DEF Configs
<1>8. Ranked(Db, cfg, pack) /\ EdgesAgree(Db, cfg, pack) /\ BudgetBlamed(Db, cfg, pack)
  BY <1>1, <1>3, <1>4, <1>6, <1>7, HonestRanked, HonestAgrees, HonestBlamed
<1> QED BY <1>2, <1>3, <1>8 DEF Judged

-----------------------------------------------------------------------------
(* What follows of them *)

\* The text an ask delivers is the text it prints.
LEMMA DeliveredPrinted ==
    ASSUME NEW a PROVE /\ DeliveredTo(a) => Printed(a) = WithText(ask[a].pack)
                       /\ DeliveredTo(a) <=> Printed(a) # {}
BY DEF DeliveredTo, Printed, packHasText

LEMMA SentFromBooks == ASSUME IInv PROVE SentOnce
<1>1. ASSUME NEW h \in heard, ask[h.by].mode.dedup, NEW g \in ask[h.by].before, g.id = h.id
      PROVE  g.at < ask[h.by].opened - Window \/ g.at <= ask[h.by].opened - Retention
  <2>1. h.by \in Asks /\ HeardRight(h)
    BY DEF IInv, Books, Base, TypeOK
  <2>2. Remembered(h.by) /\ ask[h.by].pc = "done" /\ h.id \notin ask[h.by].shown
    BY <2>1 DEF IInv, Books, HeardRight, Stands
  <2> QED BY <1>1, <2>2 DEF Remembered
<1>2. ASSUME NEW a \in Asks, NEW x \in Pieces(ask[a].pack), x.shown
      PROVE  \E b \in Asks \ {a} :
                /\ ask[b].recorded > 0 /\ ask[b].recorded >= ask[a].opened - Window
                /\ x.id \in DeliveredIDs(ask[b].pack)
                /\ Stands(b, "done") => \E h \in HeardBy(b) : h.id = x.id
  <2>1. x.id \in ask[a].shown
    BY <1>2 DEF IInv, Base, Shape
  <2>2. PICK b \in Asks \ {a} : /\ ask[b].recorded > 0 /\ ask[b].recorded >= ask[a].opened - Window
                                /\ x.id \in DeliveredIDs(ask[b].pack)
    BY <2>1 DEF IInv, Books, Withheld
  <2>3. Printed(b) = WithText(ask[b].pack) /\ Answered(b)
    BY <2>2, DeliveredPrinted DEF IInv, Books, Recorded
  <2>4. PICK y \in WithText(ask[b].pack) : y.id = x.id
    BY <2>2 DEF DeliveredIDs
  <2>5. Stands(b, "done") => \E h \in HeardBy(b) : h.id = x.id
    BY <2>3, <2>4 DEF Answered
  <2> QED BY <2>2, <2>5
<1> QED BY <1>1, <1>2 DEF SentOnce

\* A note is in the pack of an ask once.
LEMMA PiecesApart ==
    ASSUME Base, NEW a \in Asks, ask[a].pc # "alone",
           NEW x \in Pieces(ask[a].pack), NEW y \in Pieces(ask[a].pack), x.id = y.id
    PROVE  x = y
<1> DEFINE p == ask[a].pack
<1>1. p # None
  BY DEF Pieces
<1>2. Single(p) /\ p \in Packs(NoteIds) \cup {None}
  BY <1>1, Me DEF Shape, Processes
<1>3. /\ x = p.target \/ \E i \in DOMAIN p.items : x = p.items[i]
      /\ y = p.target \/ \E i \in DOMAIN p.items : y = p.items[i]
  BY <1>1, <1>2, PiecesTyped DEF Base
<1> QED BY <1>2, <1>3 DEF Single, Apart

LEMMA ToldFromBooks == ASSUME IInv PROVE DeliveryTold
<1>1. ASSUME NEW a \in Asks, Stands(a, "done"), NEW h \in HeardBy(a)
      PROVE  \E y \in Printed(a) : y.id = h.id
  BY <1>1 DEF IInv, Books, HeardRight, HeardBy
<1>2. ASSUME NEW a \in Asks, Stands(a, "done"), NEW t \in told, t.by = a
      PROVE  t.delivered <=> \E h \in HeardBy(a) : h.id = t.id
  <2>1. PICK x \in Pieces(ask[a].pack) : x.id = t.id /\ (t.delivered <=> DeliveredTo(a) /\ x.body > 0)
    BY <1>2 DEF IInv, Books, ToldRight
  <2>2. ASSUME t.delivered PROVE \E h \in HeardBy(a) : h.id = t.id
    <3>1. DeliveredTo(a) /\ x.body > 0 /\ Answered(a)
      BY <2>1, <2>2 DEF IInv, Books
    <3>2. x \in Printed(a)
      BY <3>1, DeliveredPrinted DEF WithText
    <3> QED BY <1>2, <2>1, <3>1, <3>2 DEF Answered
  <2>3. ASSUME NEW h \in HeardBy(a), h.id = t.id PROVE t.delivered
    <3>1. PICK y \in Printed(a) : y.id = t.id
      BY <1>1, <1>2, <2>3
    <3>2. y \in Pieces(ask[a].pack) /\ y.body > 0 /\ DeliveredTo(a)
      BY DeliveredPrinted DEF Printed, WithText
    <3>3. x = y
      BY <1>2, <2>1, <3>1, <3>2, PiecesApart DEF IInv, Stands
    <3> QED BY <2>1, <3>2, <3>3
  <2>4. t.delivered \in BOOLEAN
    BY DEF IInv, Base, TypeOK
  <2> QED BY <2>2, <2>3, <2>4
<1>3. ASSUME NEW a \in Asks, Stands(a, "done"), event[a] # None, NEW d \in event[a].access
      PROVE  d <=> HeardBy(a) # {}
  <2>1. (d <=> DeliveredTo(a)) /\ Answered(a)
    BY <1>3 DEF IInv, Books, LoggedRight
  <2>2. HeardBy(a) # {} <=> Printed(a) # {}
    BY <1>1, <1>3, <2>1 DEF Answered
  <2> QED BY <2>1, <2>2, DeliveredPrinted
<1> QED BY <1>2, <1>3 DEF DeliveryTold

LEMMA StaleFromBooks == ASSUME IInv PROVE StaleIsTold
BY DEF IInv, Books, HeardRight, Known, StaleIsTold

\* Every pack counts what it carries, over all that is kept anyway.
CInv == IInv /\ Counts

LEMMA WorldStill == ASSUME World \/ UNCHANGED askVars PROVE ask' = ask
BY DEF World, Change, Reindex, Tick, askVars

LEMMA CountsStay == ASSUME CInv, [AskNext]_askVars PROVE CInv'
<1>1. IInv'
  BY NextKeeps DEF CInv
<1>2. ASSUME NEW a \in Asks, AskStep(a) \/ MemoryPack(a) PROVE Counts'
  BY <1>2, CountsKept DEF CInv, IInv
<1>3. ASSUME ask' = ask PROVE Counts'
  <2>1. \A a \in Asks : ask'[a].pack # None => Counted(ask'[a].pack)
    BY <1>3 DEF CInv, Counts
  <2>2. (\A a \in Asks : ask[a].pack # None => Counted(ask[a].pack))'
    BY <2>1 DEF Counted
  <2> QED BY <2>2 DEF Counts
<1> QED BY <1>1, <1>2, <1>3, WorldStill DEF AskNext, CInv

\* What PackSound says of a step.
PacksStep ==
    \A a \in Asks :
       /\ ask'[a].pack # None => Counted(ask'[a].pack)
       /\ ask[a].pack = None /\ ask'[a].pack # None => Judged(ask'[a].config, ask'[a].pack)

LEMMA StepsSound == ASSUME CInv, [AskNext]_askVars PROVE PacksStep
<1>1. Base
  BY DEF CInv, IInv
<1>2. \A a \in Asks : ask'[a].pack # None => Counted(ask'[a].pack)
  <2>1. (\A a \in Asks : ask[a].pack # None => Counted(ask[a].pack))'
    BY CountsStay DEF CInv, Counts
  <2> QED BY <2>1 DEF Counted
<1>3. ASSUME NEW a \in Asks, AskStep(a) \/ MemoryPack(a), NEW b \in Asks, ask[b].pack = None, ask'[b].pack # None
      PROVE  Judged(ask'[b].config, ask'[b].pack)
  <2>1. PackMoves(a)
    BY <1>1, <1>3, PackStep
  <2>2. b = a
    BY <1>3, <2>1 DEF PackMoves
  <2>3. ~ChangesPack(a)
    <3>1. ASSUME ask[a].pack \in Made(NoteIds) PROVE FALSE
      BY <1>1, <1>3, <2>2, <3>1, MadePieces
    <3> QED BY <3>1 DEF ChangesPack
  <2>4. MakesPack(a)
    BY <1>3, <2>1, <2>2, <2>3 DEF PackMoves
  <2> QED BY <1>1, <1>3, <2>2, <2>4, MakesRight
<1>4. ASSUME ask' = ask, NEW b \in Asks, ask[b].pack = None, ask'[b].pack # None PROVE FALSE
  BY <1>4
<1> QED BY <1>2, <1>3, <1>4, WorldStill DEF PacksStep, AskNext

LEMMA InitCounts == ASSUME AskInit PROVE CInv
<1>1. \A a \in Asks : ask[a].pack = None
  BY DEF AskInit, Fresh
<1> QED BY <1>1, InitBooks DEF CInv, Counts

-----------------------------------------------------------------------------
(* Theorems *)

LEMMA AskInvariant == AskSpec => []IInv
<1>1. AskInit => IInv
  BY InitBooks
<1>2. IInv /\ [AskNext]_askVars => IInv'
  BY NextKeeps
<1> QED BY <1>1, <1>2, PTL DEF AskSpec

\* Every ask and every book is what its type says: what the packer makes is a
\* pack of notes of the vault, and what is written of it names them.
THEOREM AskTypeCorrect == AskSpec => []TypeOK
<1>1. IInv => TypeOK
  BY DEF IInv, Base
<1> QED BY <1>1, AskInvariant, PTL

\* No text is printed again that this conversation printed and recorded within
\* the window, and nothing is withheld that was not (ask.go, markShownBefore;
\* ask_helpers.go, recordShown).
THEOREM AlwaysSentOnce == AskSpec => []SentOnce
<1>1. IInv => SentOnce
  BY SentFromBooks
<1> QED BY <1>1, AskInvariant, PTL

\* The access rows and the access events of a finished ask say what was printed
\* (ask.go, deliverAsk; cmd/ask.go, logAskExperiment).
THEOREM DeliveryAlwaysTold == AskSpec => []DeliveryTold
<1>1. IInv => DeliveryTold
  BY ToldFromBooks
<1> QED BY <1>1, AskInvariant, PTL

\* Text that was not its file's when that was looked at is marked (stale.go,
\* MarkChangedOnDisk), whatever changes after.
THEOREM StaleAlwaysTold == AskSpec => []StaleIsTold
<1>1. IInv => StaleIsTold
  BY StaleFromBooks
<1> QED BY <1>1, AskInvariant, PTL

\* A pack counts what it carries, at every step; as it is made, it holds the
\* right notes in the right order, by the links `related` gives, and blames the
\* budget for what the budget cost (contextpack.go, ContextPack; related.go,
\* strongestEdgePerNote; ask.go, applyPassageExcerpt and markShownBefore).
THEOREM PackAlwaysSound == AskSpec => PackSound
<1>1. AskInit => CInv
  BY InitCounts
<1>2. CInv /\ [AskNext]_askVars => CInv'
  BY CountsStay
<1>3. CInv /\ [AskNext]_askVars => PacksStep
  BY StepsSound
<1>4. PacksStep => [\A a \in Asks :
         /\ ask'[a].pack # None => Counted(ask'[a].pack)
         /\ ask[a].pack = None /\ ask'[a].pack # None =>
              LET c == ask'[a].config
              IN  /\ Ranked(Db, c, ask'[a].pack)
                  /\ EdgesAgree(Db, c, ask'[a].pack)
                  /\ BudgetBlamed(Db, c, ask'[a].pack)]_askVars
  BY DEF PacksStep, Judged
<1> QED BY <1>1, <1>2, <1>3, <1>4, PTL DEF AskSpec, PackSound

=============================================================================
