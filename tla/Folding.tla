------------------------------- MODULE Folding -------------------------------
(* Facts about FoldLeft for any operator, and the induction they rest on.   *)
(* The induction theorems of the library take a predicate, which the        *)
(* provers cannot instantiate; Climb takes a set.  A module that needs the  *)
(* facts for an operator of its own is given them by INSTANCE ... WITH Op.  *)
EXTENDS Integers, SequencesExt, FiniteSetTheorems, SequenceTheorems, TLAPS

CONSTANT Op(_, _)

\* Every set of naturals has a least element, since the intervals up to its
\* elements are well-founded.
LEMMA LeastNumber == \A T \in SUBSET Nat : T # {} => \E n \in T : \A m \in T : n <= m
<1> SUFFICES ASSUME NEW T \in SUBSET Nat, T # {} PROVE \E n \in T : \A m \in T : n <= m
  OBVIOUS
<1> DEFINE U == {1 .. n : n \in T}
<1>1. U \subseteq FiniteSubsetsOf(Nat) /\ U # {}
  <2>1. \A n \in T : 1 .. n \subseteq Nat /\ IsFiniteSet(1 .. n)
    BY FS_Interval
  <2> QED BY <2>1 DEF FiniteSubsetsOf
<1>2. \E x \in U : \A y \in U : ~ (<<y, x>> \in StrictSubsetOrdering(Nat))
  <2> HIDE DEF U
  <2> QED BY <1>1, WFMin, FS_StrictSubsetOrderingWellFounded
<1>3. PICK n \in T : \A m \in T : ~ (<<1 .. m, 1 .. n>> \in StrictSubsetOrdering(Nat))
  BY <1>2
<1>4. ASSUME NEW m \in T, m < n PROVE FALSE
  <2>1. 1 .. m \subseteq 1 .. n /\ n \in 1 .. n /\ n \notin 1 .. m /\ 1 .. n \subseteq Nat /\ 1 .. m \subseteq Nat
    BY <1>4
  <2>2. <<1 .. m, 1 .. n>> \in StrictSubsetOrdering(Nat)
    BY <2>1 DEF StrictSubsetOrdering
  <2> QED BY <2>2, <1>3
<1> QED BY <1>4

\* Induction: a set that has 0, and each number up to n after the one before it,
\* has n.
THEOREM Climb ==
    ASSUME NEW n \in Nat, NEW G, 0 \in G, \A k \in 1 .. n : k - 1 \in G => k \in G
    PROVE  n \in G
<1> DEFINE Bad == {k \in 0 .. n : k \notin G}
<1>1. SUFFICES ASSUME n \notin G PROVE FALSE
  OBVIOUS
<1>2. Bad \in SUBSET Nat /\ n \in Bad
  BY <1>1
<1>3. PICK k \in Bad : \A m \in Bad : k <= m
  <2> HIDE DEF Bad
  <2> QED BY <1>2, LeastNumber
<1>4. k \in 1 .. n /\ k - 1 \in 0 .. n /\ k - 1 \notin Bad
  BY <1>3
<1> QED BY <1>3, <1>4

\* The greatest of some of the first numbers.
LEMMA MaxIsIn ==
    ASSUME NEW n \in Nat, NEW u \in SUBSET (1 .. n), u # {}
    PROVE  Max(u) \in u /\ \A x \in u : x <= Max(u)
<1> DEFINE T == {n - x : x \in u}
<1>1. T \in SUBSET Nat /\ T # {}
  <2>1. \A x \in u : n - x \in Nat
    OBVIOUS
  <2> QED BY <2>1
<1>2. PICK m \in T : \A k \in T : m <= k
  <2> HIDE DEF T
  <2> QED BY <1>1, LeastNumber
<1>3. PICK x \in u : m = n - x
  BY <1>2
<1>4. \A y \in u : x >= y
  <2> TAKE y \in u
  <2>1. n - y \in T /\ n - x <= n - y
    BY <1>2, <1>3
  <2> QED BY <2>1
<1>5. Max(u) \in u /\ \A y \in u : Max(u) >= y
  BY <1>4 DEF Max
<1> QED BY <1>5

LEMMA MaxOfInterval ==
    ASSUME NEW n \in Nat \ {0}
    PROVE  Max(1 .. n) = n /\ (1 .. n) \ {n} = 1 .. n - 1
<1>1. n \in Nat /\ 1 .. n \in SUBSET (1 .. n) /\ n \in 1 .. n
  OBVIOUS
<1>2. Max(1 .. n) \in 1 .. n /\ \A x \in 1 .. n : x <= Max(1 .. n)
  BY <1>1, MaxIsIn
<1> QED BY <1>1, <1>2

\* g is the recursive function behind a fold over the first n elements of s.
Behind(g, base, s, n) ==
    g = [u \in SUBSET (1 .. n) |-> IF u = {} THEN base ELSE Op(g[u \ {Max(u)}], s[Max(u)])]

LEMMA BehindExists ==
    ASSUME NEW n \in Nat, NEW base, NEW s
    PROVE  \E g : Behind(g, base, s, n)
<1> DEFINE G == {k \in 0 .. n : \E g : Behind(g, base, s, k)}
<1>1. 0 \in G
  <2>1. \A u \in SUBSET (1 .. 0) : u = {}
    OBVIOUS
  <2>2. Behind([u \in SUBSET (1 .. 0) |-> base], base, s, 0)
    BY <2>1 DEF Behind
  <2> QED BY <2>2
<1>2. ASSUME NEW k \in 1 .. n, k - 1 \in G PROVE k \in G
  <2>1. PICK g : Behind(g, base, s, k - 1)
    BY <1>2
  <2> DEFINE h == [u \in SUBSET (1 .. k) |-> IF k \in u THEN Op(g[u \ {k}], s[k]) ELSE g[u]]
  <2>2. \A u \in SUBSET (1 .. k) : (k \notin u => u \in SUBSET (1 .. k - 1)) /\ u \ {k} \in SUBSET (1 .. k - 1)
    OBVIOUS
  <2>3. ASSUME NEW u \in SUBSET (1 .. k)
        PROVE  h[u] = IF u = {} THEN base ELSE Op(h[u \ {Max(u)}], s[Max(u)])
    <3>1. CASE k \in u
      <4>1. Max(u) = k
        <5>1. k \in Nat /\ u # {}
          BY <3>1
        <5>2. Max(u) \in u /\ \A x \in u : x <= Max(u)
          BY <5>1, MaxIsIn
        <5>3. k <= Max(u) /\ Max(u) \in 1 .. k
          BY <5>2, <3>1
        <5> HIDE DEF h
        <5> QED BY <5>3
      <4>2. h[u \ {k}] = g[u \ {k}]
        BY <2>2
      <4> QED BY <3>1, <4>1, <4>2
    <3>2. CASE k \notin u /\ u # {}
      <4>1. u \in SUBSET (1 .. k - 1) /\ Max(u) \in u
        <5>1. k \in Nat
          OBVIOUS
        <5> QED BY <5>1, <3>2, <2>2, MaxIsIn
      <4>2. g[u] = Op(g[u \ {Max(u)}], s[Max(u)])
        BY <2>1, <3>2, <4>1 DEF Behind
      <4>3. h[u \ {Max(u)}] = g[u \ {Max(u)}] /\ h[u] = g[u]
        BY <3>2, <4>1
      <4> QED BY <3>2, <4>2, <4>3
    <3>3. CASE u = {}
      <4>1. g[{}] = base
        BY <2>1 DEF Behind
      <4> QED BY <4>1, <3>3
    <3> QED BY <3>1, <3>2, <3>3
  <2>4. Behind(h, base, s, k)
    <3>1. h = [u \in SUBSET (1 .. k) |-> h[u]]
      OBVIOUS
    <3> HIDE DEF h
    <3> QED BY <2>3, <3>1 DEF Behind
  <2> QED BY <2>4
<1>3. n \in G
  <2> HIDE DEF G
  <2> QED BY <1>1, <1>2, Climb
<1> QED BY <1>3

\* A run of the fold: from the base, one element after the other.
IsRun(run, base, s) == run[0] = base /\ \A i \in 1 .. Len(s) : run[i] = Op(run[i - 1], s[i])

LEMMA FoldRuns ==
    ASSUME NEW S, NEW s \in Seq(S), NEW base
    PROVE  \E run : IsRun(run, base, s) /\ FoldLeft(Op, base, s) = run[Len(s)]
<1> DEFINE n == Len(s)
           it == CHOOSE g : g = [u \in SUBSET DOMAIN s |-> IF u = {} THEN base ELSE Op(g[u \ {Max(u)}], s[Max(u)])]
           run == [i \in 0 .. n |-> it[1 .. i]]
<1>1. FoldLeft(Op, base, s) = it[DOMAIN s]
  BY DEF FoldLeft, MapThenFoldSet
<1>2. n \in Nat /\ DOMAIN s = 1 .. n
  OBVIOUS
<1>3. \E g : g = [u \in SUBSET DOMAIN s |-> IF u = {} THEN base ELSE Op(g[u \ {Max(u)}], s[Max(u)])]
  <2>1. PICK g : Behind(g, base, s, n)
    <3> HIDE DEF n
    <3> QED BY <1>2, BehindExists
  <2> QED BY <1>2, <2>1 DEF Behind
<1>4. it = [u \in SUBSET DOMAIN s |-> IF u = {} THEN base ELSE Op(it[u \ {Max(u)}], s[Max(u)])]
  BY <1>3
<1> HIDE DEF it
<1>5. run[0] = base
  <2>1. 1 .. 0 = {} /\ {} \in SUBSET DOMAIN s /\ 0 \in 0 .. n
    BY <1>2
  <2> QED BY <1>4, <2>1
<1>6. ASSUME NEW i \in 1 .. n PROVE run[i] = Op(run[i - 1], s[i])
  <2>1. Max(1 .. i) = i /\ (1 .. i) \ {i} = 1 .. i - 1
    BY MaxOfInterval, <1>2
  <2>2. 1 .. i \in SUBSET DOMAIN s /\ i \in 1 .. i /\ i \in 0 .. n /\ i - 1 \in 0 .. n
    BY <1>2
  <2> QED BY <1>4, <2>1, <2>2
<1>7. FoldLeft(Op, base, s) = run[n]
  BY <1>1, <1>2
<1> HIDE DEF run
<1> QED BY <1>5, <1>6, <1>7 DEF IsRun

\* Runs over sequences that begin alike begin alike.
LEMMA RunsAgree ==
    ASSUME NEW base, NEW s, NEW t, NEW f, NEW g, IsRun(f, base, s), IsRun(g, base, t),
           NEW n \in Nat, Len(s) \in Nat, Len(t) \in Nat, n <= Len(s), n <= Len(t),
           \A i \in 1 .. n : s[i] = t[i]
    PROVE  f[n] = g[n]
<1> DEFINE G == {k \in 0 .. n : f[k] = g[k]}
<1>1. 0 \in G
  BY DEF IsRun
<1>2. ASSUME NEW k \in 1 .. n, k - 1 \in G PROVE k \in G
  BY <1>2 DEF IsRun
<1>3. n \in G
  <2> HIDE DEF G
  <2> QED BY <1>1, <1>2, Climb
<1> QED BY <1>3

\* The fold of one operator: a proof elsewhere names it by the instance.
Fold(base, s) == FoldLeft(Op, base, s)

\* Nothing to fold.
THEOREM FoldOfNone == \A base : Fold(base, << >>) = base
<1> SUFFICES ASSUME NEW base PROVE Fold(base, << >>) = base
  OBVIOUS
<1>1. << >> \in Seq({}) /\ Len(<< >>) = 0
  OBVIOUS
<1>2. PICK run : IsRun(run, base, << >>) /\ Fold(base, << >>) = run[Len(<< >>)]
  BY <1>1, FoldRuns DEF Fold
<1> QED BY <1>1, <1>2 DEF IsRun

\* One element more.
THEOREM FoldAppend ==
    ASSUME NEW S, NEW s \in Seq(S), NEW x \in S, NEW base
    PROVE  Fold(base, Append(s, x)) = Op(Fold(base, s), x)
<1> DEFINE t == Append(s, x)
<1>1. /\ t \in Seq(S) /\ Len(s) \in Nat /\ Len(t) = Len(s) + 1 /\ t[Len(s) + 1] = x
      /\ \A i \in 1 .. Len(s) : t[i] = s[i]
  OBVIOUS
<1> HIDE DEF t
<1>2. PICK f : IsRun(f, base, s) /\ Fold(base, s) = f[Len(s)]
  BY FoldRuns DEF Fold
<1>3. PICK g : IsRun(g, base, t) /\ Fold(base, t) = g[Len(t)]
  BY <1>1, FoldRuns DEF Fold
<1>4. f[Len(s)] = g[Len(s)]
  BY <1>1, <1>2, <1>3, RunsAgree
<1>5. g[Len(t)] = Op(g[Len(t) - 1], t[Len(t)])
  BY <1>1, <1>3 DEF IsRun
<1>6. Fold(base, t) = Op(Fold(base, s), x)
  BY <1>1, <1>2, <1>3, <1>4, <1>5
<1> QED BY <1>6 DEF t

\* What holds of the base and what every element keeps, perhaps depending on how
\* many are done, holds of the fold: W[i] are the values allowed after i elements.
THEOREM FoldKeeps ==
    ASSUME NEW S, NEW s \in Seq(S), NEW base, NEW W, base \in W[0],
           \A i \in 1 .. Len(s) : \A v \in W[i - 1] : Op(v, s[i]) \in W[i]
    PROVE  Fold(base, s) \in W[Len(s)]
<1>1. PICK run : IsRun(run, base, s) /\ Fold(base, s) = run[Len(s)]
  BY FoldRuns DEF Fold
<1> DEFINE G == {k \in 0 .. Len(s) : run[k] \in W[k]}
<1>2. 0 \in G
  BY <1>1 DEF IsRun
<1>3. ASSUME NEW k \in 1 .. Len(s), k - 1 \in G PROVE k \in G
  <2>1. run[k] = Op(run[k - 1], s[k])
    BY <1>1 DEF IsRun
  <2>2. run[k - 1] \in W[k - 1]
    BY <1>3
  <2>3. Op(run[k - 1], s[k]) \in W[k]
    BY <2>2
  <2> QED BY <2>1, <2>3
<1>4. Len(s) \in G
  <2> HIDE DEF G
  <2> QED BY <1>2, <1>3, Climb
<1> QED BY <1>1, <1>4
=============================================================================
