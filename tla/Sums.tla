-------------------------------- MODULE Sums --------------------------------
(***************************************************************************)
(* Facts about SumFunctionOnSet of the community modules, by which the     *)
(* models translate the SELECT COALESCE(SUM(..), 0) of the code: the sum   *)
(* of no rows, of rows with one more, of rows of which one changes.  The   *)
(* proofs are by induction on the number of rows; the induction is the     *)
(* well-foundedness of < on Nat, applied to sets of counterexamples.       *)
(***************************************************************************)
EXTENDS Functions, FiniteSetTheorems, WellFoundedInduction, TLAPS

Pick(s) == CHOOSE x \in s : TRUE

\* One step of the fold: g[s] by the sum of a smaller set.
Fold(g, f, s) == IF s = {} THEN 0 ELSE f[Pick(s)] + g[s \ {Pick(s)}]

\* g holds the sums of f over the subsets of S.
HoldsSums(g, f, S) == g = [s \in SUBSET S |-> Fold(g, f, s)]

Numbers(f, S) == \A x \in S : f[x] \in Int

\* A set of natural numbers that has 0 and all successors has them all.
LEMMA SetInduction ==
    ASSUME NEW P, 0 \in P, \A n \in Nat : n \in P => n + 1 \in P
    PROVE  Nat \subseteq P
<1> DEFINE T == Nat \ P
           R == OpToRel(<, Nat)
<1> SUFFICES ASSUME T # {} PROVE FALSE
  OBVIOUS
<1>1. \A m, n \in Nat : m < n => <<m, n>> \in R
  BY DEF OpToRel
<1>2. \E n \in T : \A m \in T : <<m, n>> \notin R
  <2>1. IsWellFoundedOn(R, Nat)
    BY NatLessThanWellFounded
  <2> HIDE DEF R
  <2> QED
    BY <2>1, WFMin
<1> HIDE DEF R
<1>3. PICK n \in T : \A m \in T : <<m, n>> \notin R
  BY <1>2
<1>4. n # 0 /\ n - 1 \in Nat /\ n - 1 < n
  BY <1>3
<1>5. n - 1 \in P
  BY <1>1, <1>3, <1>4
<1> QED
  BY <1>3, <1>4, <1>5

LEMMA PickIn == ASSUME NEW s, s # {} PROVE Pick(s) \in s
BY DEF Pick

LEMMA Smaller ==
    ASSUME NEW s, IsFiniteSet(s), NEW x \in s, NEW n \in Nat, Cardinality(s) <= n + 1
    PROVE  IsFiniteSet(s \ {x}) /\ Cardinality(s \ {x}) <= n
BY FS_RemoveElement, FS_CardinalityType

\* The fold's recursive function exists.
LEMMA SumsExist ==
    ASSUME NEW f, NEW S, IsFiniteSet(S), Numbers(f, S)
    PROVE  \E g \in [SUBSET S -> Int] : HoldsSums(g, f, S)
<1> DEFINE UpTo(g, n) == \A s \in SUBSET S : Cardinality(s) <= n => g[s] = Fold(g, f, s)
           P == {n \in Nat : \E g \in [SUBSET S -> Int] : UpTo(g, n)}
<1>0. \A s \in SUBSET S : IsFiniteSet(s) /\ Cardinality(s) \in Nat
  BY FS_Subset, FS_CardinalityType
<1>1. 0 \in P
  <2> DEFINE g == [s \in SUBSET S |-> 0]
  <2>1. g \in [SUBSET S -> Int]
    OBVIOUS
  <2>2. ASSUME NEW s \in SUBSET S, Cardinality(s) <= 0
        PROVE  g[s] = Fold(g, f, s)
    BY <1>0, <2>2, FS_EmptySet DEF Fold
  <2> QED
    BY <2>1, <2>2
<1>2. ASSUME NEW n \in Nat, n \in P
      PROVE  n + 1 \in P
  <2>1. PICK g \in [SUBSET S -> Int] : UpTo(g, n)
    BY <1>2
  <2> DEFINE h == [s \in SUBSET S |-> Fold(g, f, s)]
  <2>2. h \in [SUBSET S -> Int]
    <3>1. ASSUME NEW s \in SUBSET S PROVE Fold(g, f, s) \in Int
      <4>1. CASE s = {}
        BY <4>1 DEF Fold
      <4>2. CASE s # {}
        <5>1. Pick(s) \in s
          BY <4>2, PickIn
        <5>2. f[Pick(s)] \in Int /\ g[s \ {Pick(s)}] \in Int
          BY <5>1 DEF Numbers
        <5> QED
          BY <4>2, <5>2 DEF Fold
      <4> QED
        BY <4>1, <4>2
    <3> QED
      BY <3>1
  <2>3. ASSUME NEW s \in SUBSET S, Cardinality(s) <= n + 1
        PROVE  h[s] = Fold(h, f, s)
    <3>1. CASE s = {}
      BY <3>1 DEF Fold
    <3>2. CASE s # {}
      <4> DEFINE t == s \ {Pick(s)}
      <4>1. t \in SUBSET S /\ Cardinality(t) <= n
        BY <1>0, <2>3, <3>2, PickIn, Smaller
      <4>2. g[t] = Fold(g, f, t) /\ h[t] = Fold(g, f, t)
        BY <2>1, <4>1
      <4>3. h[s] = f[Pick(s)] + g[t]
        BY <3>2 DEF Fold
      <4> QED
        BY <3>2, <4>2, <4>3 DEF Fold
    <3> QED
      BY <3>1, <3>2
  <2> HIDE DEF h
  <2> QED
    BY <2>2, <2>3
<1> HIDE DEF P
<1>3. Cardinality(S) \in P
  BY <1>0, <1>1, <1>2, SetInduction
<1> USE DEF P
<1>4. PICK g \in [SUBSET S -> Int] : UpTo(g, Cardinality(S))
  BY <1>3
<1>5. \A s \in SUBSET S : g[s] = Fold(g, f, s)
  BY <1>0, <1>4, FS_Subset
<1>6. g = [s \in SUBSET S |-> Fold(g, f, s)]
  BY <1>5
<1> QED
  BY <1>6 DEF HoldsSums

\* Two of them agree on a set where what they sum does.
LEMMA SumsAgree ==
    ASSUME NEW f, NEW S, NEW g, HoldsSums(g, f, S),
           NEW k, NEW T, NEW h, HoldsSums(h, k, T),
           NEW s \in SUBSET (S \cap T), IsFiniteSet(s), \A x \in s : f[x] = k[x]
    PROVE  g[s] = h[s]
<1> DEFINE P == {n \in Nat : \A t \in SUBSET s : Cardinality(t) <= n => g[t] = h[t]}
<1>0. /\ \A t \in SUBSET s : IsFiniteSet(t) /\ Cardinality(t) \in Nat
      /\ \A t \in SUBSET s : g[t] = Fold(g, f, t) /\ h[t] = Fold(h, k, t)
  <2>1. \A t \in SUBSET s : IsFiniteSet(t) /\ Cardinality(t) \in Nat
    BY FS_Subset, FS_CardinalityType
  <2>2. ASSUME NEW t \in SUBSET s PROVE g[t] = Fold(g, f, t) /\ h[t] = Fold(h, k, t)
    <3>1. t \in SUBSET S /\ t \in SUBSET T
      OBVIOUS
    <3> QED
      BY <3>1 DEF HoldsSums
  <2> QED
    BY <2>1, <2>2
<1>1. 0 \in P
  BY <1>0, FS_EmptySet DEF Fold
<1>2. ASSUME NEW n \in Nat, n \in P
      PROVE  n + 1 \in P
  <2> SUFFICES ASSUME NEW t \in SUBSET s, Cardinality(t) <= n + 1 PROVE g[t] = h[t]
    OBVIOUS
  <2>1. CASE t = {}
    BY <1>0, <2>1 DEF Fold
  <2>2. CASE t # {}
    <3> DEFINE u == t \ {Pick(t)}
    <3>1. u \in SUBSET s /\ Cardinality(u) <= n /\ Pick(t) \in s
      BY <1>0, <2>2, PickIn, Smaller
    <3>2. g[u] = h[u] /\ f[Pick(t)] = k[Pick(t)]
      BY <1>2, <3>1
    <3> QED
      BY <1>0, <2>2, <3>2 DEF Fold
  <2> QED
    BY <2>1, <2>2
<1> HIDE DEF P
<1>3. Cardinality(s) \in P
  BY <1>0, <1>1, <1>2, SetInduction
<1> QED
  BY <1>0, <1>3 DEF P

Chosen(f, S) == CHOOSE g : HoldsSums(g, f, S)

LEMMA SumIsChosen ==
    ASSUME NEW f, NEW S
    PROVE  SumFunctionOnSet(f, S) = Chosen(f, S)[S]
BY DEF SumFunctionOnSet, FoldFunctionOnSet, MapThenFoldSet, Chosen, HoldsSums, Fold, Pick

LEMMA ChosenHolds ==
    ASSUME NEW f, NEW S, IsFiniteSet(S), Numbers(f, S)
    PROVE  HoldsSums(Chosen(f, S), f, S)
BY SumsExist DEF Chosen

\* A sum is a number, and depends only on what is summed.
LEMMA SumType ==
    ASSUME NEW f, NEW S, IsFiniteSet(S), Numbers(f, S)
    PROVE  SumFunctionOnSet(f, S) \in Int
<1>1. PICK g \in [SUBSET S -> Int] : HoldsSums(g, f, S)
  BY SumsExist
<1>2. Chosen(f, S)[S] = g[S]
  BY <1>1, ChosenHolds, SumsAgree
<1> QED
  BY <1>1, <1>2, SumIsChosen

LEMMA SumAgrees ==
    ASSUME NEW f, NEW k, NEW S, IsFiniteSet(S), Numbers(f, S), \A x \in S : f[x] = k[x]
    PROVE  SumFunctionOnSet(f, S) = SumFunctionOnSet(k, S)
<1>1. Numbers(k, S)
  BY DEF Numbers
<1> QED
  BY <1>1, ChosenHolds, SumsAgree, SumIsChosen

LEMMA SumOfNone ==
    ASSUME NEW f
    PROVE  SumFunctionOnSet(f, {}) = 0
<1>1. HoldsSums(Chosen(f, {}), f, {})
  BY FS_EmptySet, ChosenHolds DEF Numbers
<1> QED
  BY <1>1, SumIsChosen DEF HoldsSums, Fold

\* The fold's own step.
LEMMA SumPicks ==
    ASSUME NEW f, NEW S, IsFiniteSet(S), Numbers(f, S), S # {}
    PROVE  SumFunctionOnSet(f, S) = f[Pick(S)] + SumFunctionOnSet(f, S \ {Pick(S)})
<1> DEFINE T == S \ {Pick(S)}
<1>1. IsFiniteSet(T) /\ Numbers(f, T) /\ T \subseteq S
  BY FS_RemoveElement DEF Numbers
<1>2. HoldsSums(Chosen(f, S), f, S) /\ HoldsSums(Chosen(f, T), f, T)
  BY <1>1, ChosenHolds
<1>3. Chosen(f, S)[T] = Chosen(f, T)[T]
  BY <1>1, <1>2, SumsAgree
<1>4. Chosen(f, S)[S] = f[Pick(S)] + Chosen(f, S)[T]
  BY <1>2 DEF HoldsSums, Fold
<1> QED
  BY <1>3, <1>4, SumIsChosen

\* Any row may be taken first.
LEMMA SumSplits ==
    ASSUME NEW f, NEW S, IsFiniteSet(S), Numbers(f, S), NEW r \in S
    PROVE  SumFunctionOnSet(f, S) = f[r] + SumFunctionOnSet(f, S \ {r})
<1> DEFINE Sum(s) == SumFunctionOnSet(f, s)
           Splits(s) == \A x \in s : Sum(s) = f[x] + Sum(s \ {x})
           P == {n \in Nat : \A s \in SUBSET S : Cardinality(s) <= n => Splits(s)}
<1>0. \A s \in SUBSET S : /\ IsFiniteSet(s) /\ Cardinality(s) \in Nat
                          /\ Numbers(f, s) /\ Sum(s) \in Int
  BY FS_Subset, FS_CardinalityType, SumType DEF Numbers
<1>p. \A s \in SUBSET S : s # {} => Sum(s) = f[Pick(s)] + Sum(s \ {Pick(s)})
  BY <1>0, SumPicks
<1> HIDE DEF Sum
<1>1. 0 \in P
  BY <1>0, FS_EmptySet
<1>2. ASSUME NEW n \in Nat, n \in P
      PROVE  n + 1 \in P
  <2> SUFFICES ASSUME NEW s \in SUBSET S, Cardinality(s) <= n + 1, NEW x \in s
               PROVE  Sum(s) = f[x] + Sum(s \ {x})
    OBVIOUS
  <2> DEFINE y == Pick(s)
             t == s \ {y}
             u == s \ {x}
  <2>1. y \in s /\ Sum(s) = f[y] + Sum(t)
    BY <1>p, PickIn
  <2>2. CASE x = y
    BY <2>1, <2>2
  <2>3. CASE x # y
    <3>1. /\ t \in SUBSET S /\ Cardinality(t) <= n /\ x \in t
          /\ u \in SUBSET S /\ Cardinality(u) <= n /\ y \in u
      BY <1>0, <2>1, <2>3, Smaller
    <3>2. Splits(t) /\ Splits(u)
      BY <1>2, <3>1
    <3>3. t \ {x} = u \ {y} /\ t \ {x} \in SUBSET S
      OBVIOUS
    <3>4. Sum(t) = f[x] + Sum(t \ {x}) /\ Sum(u) = f[y] + Sum(t \ {x})
      BY <3>1, <3>2, <3>3
    <3>5. f[x] \in Int /\ f[y] \in Int /\ Sum(t \ {x}) \in Int
      BY <1>0, <2>1, <3>3 DEF Numbers
    <3> HIDE DEF y, t, u
    <3> QED
      BY <2>1, <3>4, <3>5 DEF u
  <2> QED
    BY <2>2, <2>3
<1> HIDE DEF P
<1>3. Cardinality(S) \in P
  BY <1>0, <1>1, <1>2, SetInduction
<1>4. Splits(S)
  BY <1>0, <1>3 DEF P
<1> QED
  BY <1>4 DEF Sum

\* The sum of rows of which one has changed, or has just been inserted.
LEMMA SumWithout ==
    ASSUME NEW f, NEW k, NEW S, IsFiniteSet(S), Numbers(f, S), Numbers(k, S),
           NEW r \in S, \A x \in S \ {r} : k[x] = f[x]
    PROVE  SumFunctionOnSet(k, S) = SumFunctionOnSet(f, S) - f[r] + k[r]
<1> DEFINE T == S \ {r}
<1>1. IsFiniteSet(T) /\ Numbers(f, T) /\ f[r] \in Int /\ k[r] \in Int
  BY FS_RemoveElement DEF Numbers
<1>2. SumFunctionOnSet(f, T) = SumFunctionOnSet(k, T) /\ SumFunctionOnSet(f, T) \in Int
  BY <1>1, SumAgrees, SumType
<1> QED
  BY <1>1, <1>2, SumSplits

LEMMA SumAdds ==
    ASSUME NEW f, NEW k, NEW S, NEW r, IsFiniteSet(S), Numbers(f, S), r \notin S,
           k[r] \in Int, \A x \in S : k[x] = f[x]
    PROVE  SumFunctionOnSet(k, S \cup {r}) = SumFunctionOnSet(f, S) + k[r]
<1> DEFINE T == S \cup {r}
<1>1. IsFiniteSet(T) /\ Numbers(k, T) /\ T \ {r} = S
  BY FS_AddElement DEF Numbers
<1>2. SumFunctionOnSet(k, T) = k[r] + SumFunctionOnSet(k, S)
  BY <1>1, SumSplits
<1>3. SumFunctionOnSet(f, S) = SumFunctionOnSet(k, S) /\ SumFunctionOnSet(f, S) \in Int
  BY SumAgrees, SumType
<1> QED
  BY <1>2, <1>3

=============================================================================
