---------------------------- MODULE Funds_proofs ----------------------------
(***************************************************************************)
(* Proofs about Funds for any accounts, programmes, households and amounts:*)
(* the documents keep their types, every balance document agrees with the  *)
(* journal, a programme accounts for its money and serves a household once.*)
(***************************************************************************)
EXTENDS Funds, WellFoundedInduction, FiniteSetTheorems, TLAPS

-----------------------------------------------------------------------------
(* Sums.  The library's induction theorems speak of operators; here a set of *)
(* subsets takes the operator's place, and its minimal counterexample that   *)
(* of the induction step.                                                    *)

LEMMA SubsetInduction ==
    ASSUME NEW S, IsFiniteSet(S), NEW T,
           \A s \in SUBSET S : (\A r \in SUBSET s : r # s => r \in T) => s \in T
    PROVE  \A s \in SUBSET S : s \in T
<1> DEFINE bad == (SUBSET S) \ T
<1>1. bad \subseteq FiniteSubsetsOf(S)
  BY FS_FiniteSubsetsOfFinite
<1>2. IsWellFoundedOn(StrictSubsetOrdering(S), FiniteSubsetsOf(S))
  BY FS_StrictSubsetOrderingWellFounded
<1>3. ASSUME bad # {} PROVE FALSE
  <2> HIDE DEF bad
  <2>1. PICK s \in bad : \A r \in bad : ~(<<r, s>> \in StrictSubsetOrdering(S))
    BY <1>1, <1>2, <1>3, WFMin
  <2> USE DEF bad
  <2>2. \A r \in SUBSET s : r # s => r \in T
    BY <2>1 DEF StrictSubsetOrdering
  <2> QED
    BY <2>1, <2>2
<1> QED
  BY <1>3

\* The same, one element at a time.
LEMMA ElementInduction ==
    ASSUME NEW S, IsFiniteSet(S), NEW T, {} \in T,
           \A s \in SUBSET S, x \in S : x \notin s /\ s \in T => s \cup {x} \in T
    PROVE  S \in T
<1>1. ASSUME NEW s \in SUBSET S, \A r \in SUBSET s : r # s => r \in T
      PROVE  s \in T
  <2>1. ASSUME NEW x \in s PROVE s \in T
    <3>1. s \ {x} \in T /\ s = (s \ {x}) \cup {x} /\ x \in S
      BY <1>1
    <3> QED
      BY <3>1
  <2> QED
    BY <2>1
<1> QED
  BY <1>1, SubsetInduction

\* The recursive function that SumFunctionOnSet folds with.
Unfolds(f, S, it) ==
    it = [s \in SUBSET S |->
            IF s = {} THEN 0 ELSE LET x == CHOOSE y \in s : TRUE IN f[x] + it[s \ {x}]]
Partial(f, S) == CHOOSE it : Unfolds(f, S, it)

LEMMA SumPartial == \A f, S : SumFunctionOnSet(f, S) = Partial(f, S)[S]
  BY DEF SumFunctionOnSet, FoldFunctionOnSet, MapThenFoldSet, Partial, Unfolds

LEMMA UnfoldsAt ==
    ASSUME NEW f, NEW S, NEW it, Unfolds(f, S, it), NEW s, s \subseteq S
    PROVE  /\ s = {} => it[s] = 0
           /\ s # {} => it[s] = f[CHOOSE y \in s : TRUE] + it[s \ {CHOOSE y \in s : TRUE}]
  BY DEF Unfolds

LEMMA UnfoldsAgree ==
    ASSUME NEW f, NEW A, NEW B, IsFiniteSet(A), A \subseteq B,
           NEW a, Unfolds(f, A, a), NEW b, Unfolds(f, B, b)
    PROVE  \A s \in SUBSET A : a[s] = b[s]
<1> DEFINE T == {s \in SUBSET A : a[s] = b[s]}
<1>1. ASSUME NEW s \in SUBSET A, \A r \in SUBSET s : r # s => r \in T
      PROVE  s \in T
  <2>1. CASE s = {}
    BY <2>1 DEF Unfolds
  <2>2. CASE s # {}
    <3> DEFINE x == CHOOSE y \in s : TRUE
    <3>1. s \ {x} \in T
      BY <1>1, <2>2
    <3>2. a[s] = f[x] + a[s \ {x}] /\ b[s] = f[x] + b[s \ {x}]
      BY <2>2, UnfoldsAt
    <3> QED
      BY <3>1, <3>2
  <2> QED
    BY <2>1, <2>2
<1> HIDE DEF T
<1>2. \A s \in SUBSET A : s \in T
  BY <1>1, SubsetInduction
<1> QED
  BY <1>2 DEF T

\* The recursive function exists: on the subsets of s other than s it is put
\* together from the functions on those.
LEMMA PartialUnfolds ==
    ASSUME NEW f, NEW S, IsFiniteSet(S)
    PROVE  Unfolds(f, S, Partial(f, S))
<1> DEFINE T == {r \in SUBSET S : Unfolds(f, r, Partial(f, r))}
<1>1. ASSUME NEW s \in SUBSET S, \A r \in SUBSET s : r # s => r \in T
      PROVE  s \in T
  <2> DEFINE V(r) == Partial(f, r)[r]
             X(r) == CHOOSE y \in r : TRUE
             top  == IF s = {} THEN 0 ELSE f[X(s)] + V(s \ {X(s)})
             g    == [r \in SUBSET s |-> IF r = s THEN top ELSE V(r)]
  <2>1. ASSUME NEW r \in SUBSET s
        PROVE  g[r] = IF r = {} THEN 0 ELSE f[X(r)] + g[r \ {X(r)}]
    <3>1. CASE r = {} /\ r # s
      <4>1. Unfolds(f, r, Partial(f, r))
        BY <1>1, <3>1
      <4>2. V(r) = 0
        BY <4>1, <3>1 DEF Unfolds
      <4> QED
        BY <3>1, <4>2
    <3>2. CASE r # {} /\ r # s
      <4>1. X(r) \in r
        BY <3>2
      <4>2. Unfolds(f, r, Partial(f, r)) /\ Unfolds(f, r \ {X(r)}, Partial(f, r \ {X(r)}))
        BY <1>1, <3>2, <4>1
      <4>3. IsFiniteSet(r \ {X(r)})
        BY FS_Subset
      <4>4. Partial(f, r \ {X(r)})[r \ {X(r)}] = Partial(f, r)[r \ {X(r)}]
        BY <4>2, <4>3, UnfoldsAgree
      <4>5. Partial(f, r)[r] = f[X(r)] + Partial(f, r)[r \ {X(r)}]
        BY <3>2, <4>2, UnfoldsAt
      <4>6. g[r] = V(r) /\ g[r \ {X(r)}] = V(r \ {X(r)})
        BY <3>2, <4>1
      <4> HIDE DEF g, X
      <4> QED
        BY <3>2, <4>4, <4>5, <4>6
    <3>3. CASE r = s
      <4>1. g[r] = top
        BY <3>3
      <4>2. r # {} => g[r \ {X(r)}] = V(r \ {X(r)})
        <5>1. r # {} => X(r) \in r
          OBVIOUS
        <5> QED
          BY <3>3, <5>1
      <4> HIDE DEF g, X, V
      <4> QED
        BY <3>3, <4>1, <4>2
    <3> QED
      BY <3>1, <3>2, <3>3
  <2>2. Unfolds(f, s, g)
    <3>1. g = [r \in SUBSET s |-> g[r]]
      OBVIOUS
    <3> HIDE DEF g
    <3> QED
      BY <2>1, <3>1 DEF Unfolds
  <2> HIDE DEF g
  <2>3. \E it : Unfolds(f, s, it)
    BY <2>2
  <2> QED
    BY <2>3 DEF Partial
<1> HIDE DEF T
<1>2. S \in T
  BY <1>1, SubsetInduction
<1> QED
  BY <1>2 DEF T

LEMMA SumUnfolds ==
    ASSUME NEW f, NEW S, IsFiniteSet(S)
    PROVE  /\ S = {} => SumFunctionOnSet(f, S) = 0
           /\ S # {} => \E x \in S : SumFunctionOnSet(f, S) = f[x] + SumFunctionOnSet(f, S \ {x})
<1>1. CASE S = {}
  BY <1>1, SumPartial, PartialUnfolds, UnfoldsAt
<1>2. CASE S # {}
  <2> DEFINE x == CHOOSE y \in S : TRUE
  <2>1. x \in S /\ IsFiniteSet(S \ {x}) /\ S \ {x} \subseteq S
    BY <1>2, FS_Subset
  <2>2. Partial(f, S \ {x})[S \ {x}] = Partial(f, S)[S \ {x}]
    BY <2>1, PartialUnfolds, UnfoldsAgree
  <2>3. Partial(f, S)[S] = f[x] + Partial(f, S)[S \ {x}]
    <3>1. Unfolds(f, S, Partial(f, S)) /\ S \subseteq S
      BY PartialUnfolds
    <3>2. Partial(f, S)[S] = f[CHOOSE y \in S : TRUE] + Partial(f, S)[S \ {CHOOSE y \in S : TRUE}]
      BY ONLY <1>2, <3>1, UnfoldsAt
    <3> QED
      BY <3>2
  <2> HIDE DEF x
  <2> QED
    BY <1>2, <2>1, <2>2, <2>3, SumPartial
<1> QED
  BY <1>1, <1>2

LEMMA SumEmpty == \A f : SumFunctionOnSet(f, {}) = 0
  BY SumUnfolds, FS_EmptySet

IntOn(f, S) == \A x \in S : f[x] \in Int

LEMMA SumInt ==
    ASSUME NEW S, IsFiniteSet(S), NEW f, IntOn(f, S)
    PROVE  SumFunctionOnSet(f, S) \in Int
<1> DEFINE T == {r \in SUBSET S : SumFunctionOnSet(f, r) \in Int}
<1>1. ASSUME NEW s \in SUBSET S, \A r \in SUBSET s : r # s => r \in T
      PROVE  s \in T
  <2>1. IsFiniteSet(s)
    BY FS_Subset
  <2>2. CASE s # {}
    <3>1. PICK x \in s : SumFunctionOnSet(f, s) = f[x] + SumFunctionOnSet(f, s \ {x})
      BY <2>1, <2>2, SumUnfolds
    <3>2. f[x] \in Int /\ SumFunctionOnSet(f, s \ {x}) \in Int
      BY <1>1 DEF IntOn
    <3> QED
      BY <3>1, <3>2
  <2> QED
    BY <2>2, SumEmpty
<1> HIDE DEF T
<1>2. S \in T
  BY <1>1, SubsetInduction
<1> QED
  BY <1>2 DEF T

\* Any element may be taken out first, although the fold takes a fixed one.
LEMMA SumRemove ==
    ASSUME NEW S, IsFiniteSet(S), NEW f, IntOn(f, S), NEW y, y \in S
    PROVE  SumFunctionOnSet(f, S) = f[y] + SumFunctionOnSet(f, S \ {y})
<1> DEFINE T == {r \in SUBSET S : \A z \in r : SumFunctionOnSet(f, r)
                                              = f[z] + SumFunctionOnSet(f, r \ {z})}
<1>1. ASSUME NEW s \in SUBSET S, \A r \in SUBSET s : r # s => r \in T
      PROVE  s \in T
  <2>1. IsFiniteSet(s) /\ \A r \in SUBSET s : IsFiniteSet(r)
    BY FS_Subset
  <2>2. SUFFICES ASSUME NEW z \in s
                 PROVE  SumFunctionOnSet(f, s) = f[z] + SumFunctionOnSet(f, s \ {z})
    OBVIOUS
  <2>3. PICK x \in s : SumFunctionOnSet(f, s) = f[x] + SumFunctionOnSet(f, s \ {x})
    BY <2>1, SumUnfolds
  <2>4. CASE z = x
    BY <2>3, <2>4
  <2>5. CASE z # x
    <3> DEFINE rest == SumFunctionOnSet(f, (s \ {x}) \ {z})
    <3>1. SumFunctionOnSet(f, s \ {x}) = f[z] + rest
      BY <1>1, <2>5
    <3>2. SumFunctionOnSet(f, s \ {z}) = f[x] + rest
      <4>1. (s \ {z}) \ {x} = (s \ {x}) \ {z}
        OBVIOUS
      <4>2. SumFunctionOnSet(f, s \ {z}) = f[x] + SumFunctionOnSet(f, (s \ {z}) \ {x})
        BY <1>1, <2>5
      <4> QED
        BY <4>1, <4>2
    <3>3. rest \in Int /\ f[x] \in Int /\ f[z] \in Int
      <4>1. IntOn(f, (s \ {x}) \ {z}) /\ IsFiniteSet((s \ {x}) \ {z})
        BY <2>1 DEF IntOn
      <4> QED
        BY <4>1, SumInt DEF IntOn
    <3> HIDE DEF rest
    <3> QED
      BY <2>3, <3>1, <3>2, <3>3
  <2> QED
    BY <2>4, <2>5
<1> HIDE DEF T
<1>2. S \in T
  BY <1>1, SubsetInduction
<1> QED
  BY <1>2 DEF T

\* One more element: the step of the inductions below.
LEMMA SumAdd ==
    ASSUME NEW S, IsFiniteSet(S), NEW f, IntOn(f, S), NEW s, s \subseteq S,
           NEW x, x \in S, x \notin s
    PROVE  /\ SumFunctionOnSet(f, s \cup {x}) = f[x] + SumFunctionOnSet(f, s)
           /\ SumFunctionOnSet(f, s) \in Int
           /\ f[x] \in Int
<1>1. IsFiniteSet(s) /\ IsFiniteSet(s \cup {x}) /\ (s \cup {x}) \ {x} = s
  BY FS_Subset
<1>2. IntOn(f, s) /\ IntOn(f, s \cup {x}) /\ f[x] \in Int
  BY DEF IntOn
<1>3. SumFunctionOnSet(f, s \cup {x}) = f[x] + SumFunctionOnSet(f, (s \cup {x}) \ {x})
  BY <1>1, <1>2, SumRemove
<1> QED
  BY <1>1, <1>2, <1>3, SumInt

\* A sum over one function depends on its values on the set alone.
LEMMA SumSame ==
    ASSUME NEW S, IsFiniteSet(S), NEW f, NEW g, \A x \in S : f[x] \in Int /\ f[x] = g[x]
    PROVE  SumFunctionOnSet(f, S) = SumFunctionOnSet(g, S)
<1> DEFINE T == {r \in SUBSET S : SumFunctionOnSet(f, r) = SumFunctionOnSet(g, r)}
<1>1. {} \in T
  BY SumEmpty
<1>2. ASSUME NEW s \in SUBSET S, NEW x \in S, x \notin s, s \in T
      PROVE  s \cup {x} \in T
  <2> HIDE DEF T
  <2>0. IsFiniteSet(S) /\ s \subseteq S /\ x \in S /\ x \notin s
    BY <1>2
  <2>1. IntOn(f, S) /\ IntOn(g, S)
    BY DEF IntOn
  <2>2. SumFunctionOnSet(f, s \cup {x}) = f[x] + SumFunctionOnSet(f, s)
    BY ONLY <2>0, <2>1, SumAdd
  <2>3. SumFunctionOnSet(g, s \cup {x}) = g[x] + SumFunctionOnSet(g, s)
    BY ONLY <2>0, <2>1, SumAdd
  <2> QED
    BY <1>2, <2>2, <2>3 DEF T
<1> HIDE DEF T
<1>3. S \in T
  BY <1>1, <1>2, ElementInduction
<1> QED
  BY <1>3 DEF T

\* Sums over disjoint sets add up.
LEMMA SumSplit ==
    ASSUME NEW A, IsFiniteSet(A), NEW B, IsFiniteSet(B), A \cap B = {},
           NEW f, IntOn(f, A \cup B)
    PROVE  SumFunctionOnSet(f, A \cup B) = SumFunctionOnSet(f, A) + SumFunctionOnSet(f, B)
<1> DEFINE T == {r \in SUBSET B : SumFunctionOnSet(f, A \cup r)
                                    = SumFunctionOnSet(f, A) + SumFunctionOnSet(f, r)}
<1> IntOn(f, A) /\ IntOn(f, B)
  BY DEF IntOn
<1>1. SumFunctionOnSet(f, A) \in Int
  BY SumInt
<1>2. {} \in T
  BY <1>1, SumEmpty
<1>3. ASSUME NEW s \in SUBSET B, NEW x \in B, x \notin s, s \in T
      PROVE  s \cup {x} \in T
  <2> HIDE DEF T
  <2>1. /\ SumFunctionOnSet(f, s \cup {x}) = f[x] + SumFunctionOnSet(f, s)
        /\ SumFunctionOnSet(f, s) \in Int
        /\ f[x] \in Int
    BY <1>3, SumAdd
  <2>2. IsFiniteSet(A \cup B) /\ x \notin A \cup s /\ (A \cup s) \cup {x} = A \cup (s \cup {x})
    BY <1>3, FS_Union
  <2>3. SumFunctionOnSet(f, (A \cup s) \cup {x}) = f[x] + SumFunctionOnSet(f, A \cup s)
    BY <2>2, SumAdd
  <2>4. SumFunctionOnSet(f, A \cup (s \cup {x})) = f[x] + SumFunctionOnSet(f, A \cup s)
    BY <2>2, <2>3
  <2>5. SumFunctionOnSet(f, A \cup s) = SumFunctionOnSet(f, A) + SumFunctionOnSet(f, s)
    BY <1>3 DEF T
  <2>6. SumFunctionOnSet(f, A \cup (s \cup {x}))
          = SumFunctionOnSet(f, A) + SumFunctionOnSet(f, s \cup {x})
    BY <1>1, <2>1, <2>4, <2>5
  <2> QED
    BY <2>6 DEF T
<1> HIDE DEF T
<1>4. B \in T
  BY <1>2, <1>3, ElementInduction
<1> QED
  BY <1>4 DEF T

LEMMA SumPlus ==
    ASSUME NEW S, IsFiniteSet(S), NEW f, NEW g, NEW h,
           \A x \in S : f[x] \in Int /\ g[x] \in Int /\ h[x] = f[x] + g[x]
    PROVE  SumFunctionOnSet(h, S) = SumFunctionOnSet(f, S) + SumFunctionOnSet(g, S)
<1> DEFINE T == {r \in SUBSET S : SumFunctionOnSet(h, r)
                                    = SumFunctionOnSet(f, r) + SumFunctionOnSet(g, r)}
<1>1. {} \in T
  BY SumEmpty
<1>2. ASSUME NEW s \in SUBSET S, NEW x \in S, x \notin s, s \in T
      PROVE  s \cup {x} \in T
  <2> HIDE DEF T
  <2>0. IsFiniteSet(S) /\ s \subseteq S /\ x \in S /\ x \notin s
    BY <1>2
  <2>1. IntOn(f, S) /\ IntOn(g, S) /\ IntOn(h, S)
    BY DEF IntOn
  <2>2. /\ SumFunctionOnSet(f, s \cup {x}) = f[x] + SumFunctionOnSet(f, s)
        /\ SumFunctionOnSet(f, s) \in Int
    BY ONLY <2>0, <2>1, SumAdd
  <2>6. /\ SumFunctionOnSet(g, s \cup {x}) = g[x] + SumFunctionOnSet(g, s)
        /\ SumFunctionOnSet(g, s) \in Int
    BY ONLY <2>0, <2>1, SumAdd
  <2>7. SumFunctionOnSet(h, s \cup {x}) = h[x] + SumFunctionOnSet(h, s)
    BY ONLY <2>0, <2>1, SumAdd
  <2>3. f[x] \in Int /\ g[x] \in Int /\ h[x] = f[x] + g[x]
    OBVIOUS
  <2>4. SumFunctionOnSet(h, s) = SumFunctionOnSet(f, s) + SumFunctionOnSet(g, s)
    BY <1>2 DEF T
  <2>5. SumFunctionOnSet(h, s \cup {x})
          = SumFunctionOnSet(f, s \cup {x}) + SumFunctionOnSet(g, s \cup {x})
    BY <2>2, <2>3, <2>4, <2>6, <2>7
  <2> QED
    BY <2>5 DEF T
<1> HIDE DEF T
<1>3. S \in T
  BY <1>1, <1>2, ElementInduction
<1> QED
  BY <1>3 DEF T

LEMMA SumAtMost ==
    ASSUME NEW S, IsFiniteSet(S), NEW f, NEW g,
           \A x \in S : f[x] \in Int /\ g[x] \in Int /\ f[x] <= g[x]
    PROVE  SumFunctionOnSet(f, S) <= SumFunctionOnSet(g, S)
<1> DEFINE T == {r \in SUBSET S : SumFunctionOnSet(f, r) <= SumFunctionOnSet(g, r)}
<1>1. {} \in T
  BY SumEmpty
<1>2. ASSUME NEW s \in SUBSET S, NEW x \in S, x \notin s, s \in T
      PROVE  s \cup {x} \in T
  <2> HIDE DEF T
  <2>0. IsFiniteSet(S) /\ s \subseteq S /\ x \in S /\ x \notin s
    BY <1>2
  <2>1. IntOn(f, S) /\ IntOn(g, S)
    BY DEF IntOn
  <2>2. /\ SumFunctionOnSet(f, s \cup {x}) = f[x] + SumFunctionOnSet(f, s)
        /\ SumFunctionOnSet(f, s) \in Int
    BY ONLY <2>0, <2>1, SumAdd
  <2>6. /\ SumFunctionOnSet(g, s \cup {x}) = g[x] + SumFunctionOnSet(g, s)
        /\ SumFunctionOnSet(g, s) \in Int
    BY ONLY <2>0, <2>1, SumAdd
  <2>3. f[x] \in Int /\ g[x] \in Int /\ f[x] <= g[x]
    OBVIOUS
  <2>4. SumFunctionOnSet(f, s) <= SumFunctionOnSet(g, s)
    BY <1>2 DEF T
  <2>5. SumFunctionOnSet(f, s \cup {x}) <= SumFunctionOnSet(g, s \cup {x})
    BY <2>2, <2>3, <2>4, <2>6
  <2> QED
    BY <2>5 DEF T
<1> HIDE DEF T
<1>3. S \in T
  BY <1>1, <1>2, ElementInduction
<1> QED
  BY <1>3 DEF T

LEMMA SumZero ==
    ASSUME NEW S, IsFiniteSet(S), NEW f, \A x \in S : f[x] = 0
    PROVE  SumFunctionOnSet(f, S) = 0
<1> DEFINE T == {r \in SUBSET S : SumFunctionOnSet(f, r) = 0}
<1>1. {} \in T
  BY SumEmpty
<1>2. ASSUME NEW s \in SUBSET S, NEW x \in S, x \notin s, s \in T
      PROVE  s \cup {x} \in T
  <2> HIDE DEF T
  <2>0. IsFiniteSet(S) /\ s \subseteq S /\ x \in S /\ x \notin s
    BY <1>2
  <2>1. SumFunctionOnSet(f, s \cup {x}) = f[x] + SumFunctionOnSet(f, s)
    <3>1. IntOn(f, S)
      BY DEF IntOn
    <3> QED
      BY ONLY <2>0, <3>1, SumAdd
  <2> QED
    BY <1>2, <2>1 DEF T
<1> HIDE DEF T
<1>3. S \in T
  BY <1>1, <1>2, ElementInduction
<1> QED
  BY <1>3 DEF T

LEMMA SumTimes ==
    ASSUME NEW S, IsFiniteSet(S), NEW c \in Int, NEW f, NEW g,
           \A x \in S : f[x] \in Int /\ g[x] = c * f[x]
    PROVE  SumFunctionOnSet(g, S) = c * SumFunctionOnSet(f, S)
<1> DEFINE T == {r \in SUBSET S : SumFunctionOnSet(g, r) = c * SumFunctionOnSet(f, r)}
<1>1. {} \in T
  BY SumEmpty
<1>2. ASSUME NEW s \in SUBSET S, NEW x \in S, x \notin s, s \in T
      PROVE  s \cup {x} \in T
  <2> HIDE DEF T
  <2>0. IsFiniteSet(S) /\ s \subseteq S /\ x \in S /\ x \notin s
    BY <1>2
  <2>1. IntOn(f, S) /\ IntOn(g, S)
    BY DEF IntOn
  <2>2. PICK a \in Int, b \in Int : a = f[x] /\ b = SumFunctionOnSet(f, s)
    BY ONLY <2>0, <2>1, SumAdd
  <2>3. SumFunctionOnSet(f, s \cup {x}) = a + b
    BY ONLY <2>0, <2>1, <2>2, SumAdd
  <2>4. SumFunctionOnSet(g, s \cup {x}) = c * a + c * b
    <3>1. SumFunctionOnSet(g, s \cup {x}) = g[x] + SumFunctionOnSet(g, s)
      BY ONLY <2>0, <2>1, SumAdd
    <3>2. g[x] = c * a /\ SumFunctionOnSet(g, s) = c * b
      BY <1>2, <2>2 DEF T
    <3> QED
      BY <3>1, <3>2
  <2>5. c * a + c * b = c * (a + b)
    OBVIOUS
  <2> QED
    BY <2>3, <2>4, <2>5 DEF T
<1> HIDE DEF T
<1>3. S \in T
  BY <1>1, <1>2, ElementInduction
<1> QED
  BY <1>3 DEF T

\* A sum after a change of one value.
LEMMA SumUpdate ==
    ASSUME NEW S, IsFiniteSet(S), NEW y, y \in S, NEW f, IntOn(f, S), NEW g, IntOn(g, S),
           \A x \in S : x # y => g[x] = f[x]
    PROVE  SumFunctionOnSet(g, S) = SumFunctionOnSet(f, S) + (g[y] - f[y])
<1>1. IsFiniteSet(S \ {y}) /\ IntOn(f, S \ {y}) /\ f[y] \in Int /\ g[y] \in Int
  BY FS_Subset DEF IntOn
<1>2. SumFunctionOnSet(f, S) = f[y] + SumFunctionOnSet(f, S \ {y})
  BY SumRemove
<1>3. SumFunctionOnSet(g, S) = g[y] + SumFunctionOnSet(g, S \ {y})
  BY SumRemove
<1>4. SumFunctionOnSet(f, S \ {y}) = SumFunctionOnSet(g, S \ {y})
  BY <1>1, SumSame DEF IntOn
<1>5. SumFunctionOnSet(f, S \ {y}) \in Int
  BY <1>1, SumInt
<1> QED
  BY <1>1, <1>2, <1>3, <1>4, <1>5

\* A sum of natural numbers is one, and at least its every element.
LEMMA SumNat ==
    ASSUME NEW S, IsFiniteSet(S), NEW f, \A x \in S : f[x] \in Nat
    PROVE  /\ SumFunctionOnSet(f, S) \in Nat
           /\ \A x \in S : f[x] <= SumFunctionOnSet(f, S)
<1> DEFINE zero == [x \in S |-> 0]
<1>1. SumFunctionOnSet(f, S) \in Nat
  <2>1. SumFunctionOnSet(zero, S) = 0
    BY SumZero
  <2>2. SumFunctionOnSet(zero, S) <= SumFunctionOnSet(f, S)
    BY SumAtMost
  <2>3. SumFunctionOnSet(f, S) \in Int
    BY SumInt DEF IntOn
  <2> HIDE DEF zero
  <2> QED
    BY <2>1, <2>2, <2>3
<1>2. ASSUME NEW y \in S PROVE f[y] <= SumFunctionOnSet(f, S)
  <2> DEFINE only == [x \in S |-> IF x = y THEN f[y] ELSE 0]
  <2>1. SumFunctionOnSet(only, S) <= SumFunctionOnSet(f, S)
    BY SumAtMost
  <2>2. SumFunctionOnSet(only, S) = only[y] + SumFunctionOnSet(only, S \ {y})
    BY SumRemove DEF IntOn
  <2>3. SumFunctionOnSet(only, S \ {y}) = 0
    BY SumZero, FS_Subset
  <2>4. only[y] = f[y] /\ f[y] \in Nat
    OBVIOUS
  <2> HIDE DEF only
  <2> QED
    BY <1>1, <2>1, <2>2, <2>3, <2>4
<1> QED
  BY <1>1, <1>2

LEMMA SumOfFunction == \A f : SumFunction(f) = SumFunctionOnSet(f, DOMAIN f)
  BY DEF SumFunction

-----------------------------------------------------------------------------
(* The invariant of the money *)

\* A withdrawal that was ever made has an owner to give the money back to.
Owned == \A w \in Withdrawals : withdrawal[w].state # "NONE" => withdrawal[w].account \in Accounts

FInv == FundsTypeOK /\ Owned /\ Reconciled

-----------------------------------------------------------------------------
(* The ledger *)

\* Every account the handlers name is a ledger account, and accounts of different
\* kinds or of different owners are different.
LEMMA LedgerAccount ==
    /\ ApprovedSource \in LedgerAccounts
    /\ \A p \in Programs : ProgramAvailable(p) \in LedgerAccounts
    /\ \A g \in GrantIds : HouseholdCredit(g) \in LedgerAccounts
    /\ \A a \in Accounts : BuyerCash(a) \in LedgerAccounts
    /\ \A w \in Withdrawals : WithdrawalHold(w) \in LedgerAccounts
  BY DEF LedgerAccounts

LEMMA LedgerDistinct ==
    /\ \A p : /\ ProgramAvailable(p) # ApprovedSource
              /\ \A x : /\ ProgramAvailable(p) # HouseholdCredit(x)
                        /\ ProgramAvailable(p) # BuyerCash(x)
                        /\ ProgramAvailable(p) # WithdrawalHold(x)
                        /\ ProgramAvailable(p) = ProgramAvailable(x) => p = x
    /\ \A g : /\ HouseholdCredit(g) # ApprovedSource
              /\ \A x : /\ HouseholdCredit(g) # BuyerCash(x)
                        /\ HouseholdCredit(g) # WithdrawalHold(x)
                        /\ HouseholdCredit(g) = HouseholdCredit(x) => g = x
    /\ \A a : /\ BuyerCash(a) # ApprovedSource
              /\ \A x : /\ BuyerCash(a) # WithdrawalHold(x)
                        /\ BuyerCash(a) = BuyerCash(x) => a = x
    /\ \A w : /\ WithdrawalHold(w) # ApprovedSource
              /\ \A x : WithdrawalHold(w) = WithdrawalHold(x) => w = x
  BY DEF ApprovedSource, ProgramAvailable, HouseholdCredit, BuyerCash, WithdrawalHold

-----------------------------------------------------------------------------
LEMMA FundsInitInv == FundsInit => FInv
<1> SUFFICES ASSUME FundsInit PROVE FInv
  OBVIOUS
<1>1. FundsTypeOK
  BY FundsAssumption
  DEF FundsInit, FundsTypeOK, Program, Grant, Withdrawal, NoProgram, NoGrant, NoWithdrawal
<1>2. Owned
  BY DEF FundsInit, Owned, NoWithdrawal
<1>3. Reconciled
  BY FundsAssumption, LedgerAccount
  DEF FundsInit, Reconciled, WalletsReconciled, ProgramsReconciled, GrantsReconciled,
      HoldsReconciled, NoProgram, NoGrant, NoWithdrawal
<1> QED
  BY <1>1, <1>2, <1>3 DEF FInv

LEMMA CreateProgramStep ==
    ASSUME FInv, NEW p \in Programs, NEW amount \in FundAmounts, NEW term \in ProgramTerms,
           CreateProgram(p, amount, term)
    PROVE  FInv'
<1> USE DEF FInv, FundsTypeOK
<1>1. amount \in Int /\ amount \in Nat
  BY FundsAssumption
<1>2. /\ term.expires \in Nat
      /\ term.categories \in SUBSET Categories
      /\ term.organization \in BOOLEAN
  BY FundsAssumption
<1>3. balance' = Transfer(balance, ApprovedSource, ProgramAvailable(p), amount)
  BY DEF CreateProgram
<1>4. /\ balance' \in [LedgerAccounts -> Int]
      /\ balance'[ProgramAvailable(p)] = balance[ProgramAvailable(p)] + amount
      /\ \A x \in LedgerAccounts \ {ApprovedSource, ProgramAvailable(p)} : balance'[x] = balance[x]
  <2>1. /\ ApprovedSource \in LedgerAccounts /\ ProgramAvailable(p) \in LedgerAccounts
        /\ ApprovedSource # ProgramAvailable(p)
        /\ balance \in [LedgerAccounts -> Int]
    BY LedgerAccount, LedgerDistinct
  <2> QED
    BY ONLY <1>1, <1>3, <2>1 DEF Transfer
<1>5. program' = [program EXCEPT ![p] =
                    [funded |-> amount, unallocated |-> amount, expires |-> term.expires,
                     categories |-> term.categories, organization |-> term.organization]]
  BY DEF CreateProgram
<1>6. UNCHANGED <<now, wallet, grant, link, members, withdrawal>>
  BY DEF CreateProgram
<1>7. FundsTypeOK'
  BY <1>1, <1>2, <1>4, <1>5, <1>6 DEF Program
<1>8. balance[ProgramAvailable(p)] = 0
  BY DEF CreateProgram, ProgramExists, NoProgram, Reconciled, ProgramsReconciled
<1>9. ProgramsReconciled'
  BY <1>1, <1>4, <1>5, <1>8, LedgerAccount, LedgerDistinct
  DEF Reconciled, ProgramsReconciled
<1>10. Reconciled'
  <2>1. \A a \in Accounts : balance'[BuyerCash(a)] = balance[BuyerCash(a)]
    BY <1>4, LedgerAccount, LedgerDistinct
  <2>2. \A g \in GrantIds : balance'[HouseholdCredit(g)] = balance[HouseholdCredit(g)]
    BY <1>4, LedgerAccount, LedgerDistinct
  <2>3. \A w \in Withdrawals : balance'[WithdrawalHold(w)] = balance[WithdrawalHold(w)]
    BY <1>4, LedgerAccount, LedgerDistinct
  <2> QED
    BY <1>6, <1>9, <2>1, <2>2, <2>3
    DEF Reconciled, WalletsReconciled, GrantsReconciled, HoldsReconciled
<1> QED
  BY <1>6, <1>7, <1>10 DEF Owned

LEMMA AllocateStep ==
    ASSUME FInv, NEW p \in Programs, NEW pool, NEW S \in SUBSET Accounts,
           NEW weight \in [S -> Weights], Allocate(p, pool, weight)
    PROVE  FInv'
<1> DEFINE share == Shares(pool, weight)
           assigned == SumFunction(share)
<1> USE DEF FInv, FundsTypeOK
<1>1. /\ \A a \in S : share[a] \in Int
      /\ assigned \in Int
      /\ \A a \in S : link[a] \in Households
  BY FundsAssumption DEF Allocate, Eligible
<1> HIDE DEF share, assigned
<1>2. /\ grant' = [g \in GrantIds |->
                     IF g[1] = p /\ g[2] \in S
                       THEN [household |-> link[g[2]], granted |-> share[g[2]],
                             available |-> share[g[2]]]
                       ELSE grant[g]]
      /\ program' = [program EXCEPT ![p].unallocated = @ - assigned]
      /\ balance' = [x \in LedgerAccounts |->
                       IF x = ProgramAvailable(p) THEN balance[x] - assigned
                       ELSE IF \E a \in S : x = HouseholdCredit(<<p, a>>)
                              THEN balance[x] + share[x[2][2]]
                              ELSE balance[x]]
      /\ UNCHANGED <<now, wallet, link, members, withdrawal>>
  BY DEF Allocate, share, assigned
<1>3. \A x \in LedgerAccounts, a \in S : x = HouseholdCredit(<<p, a>>) => x[2][2] = a
  BY DEF HouseholdCredit
<1>4. balance' \in [LedgerAccounts -> Int]
  <2> SUFFICES ASSUME NEW x \in LedgerAccounts PROVE balance'[x] \in Int
    BY <1>2
  <2>1. CASE x = ProgramAvailable(p)
    BY <1>1, <1>2, <2>1
  <2>2. CASE x # ProgramAvailable(p) /\ \E a \in S : x = HouseholdCredit(<<p, a>>)
    <3>1. PICK a \in S : x = HouseholdCredit(<<p, a>>)
      BY <2>2
    <3>2. x[2][2] = a
      BY <1>3, <3>1
    <3>3. balance'[x] = balance[x] + share[a]
      BY <1>2, <2>2, <3>2
    <3> QED
      BY <1>1, <3>3
  <2>3. CASE x # ProgramAvailable(p) /\ ~\E a \in S : x = HouseholdCredit(<<p, a>>)
    BY <1>2, <2>3
  <2> QED
    BY <2>1, <2>2, <2>3
<1>5. grant' \in [GrantIds -> Grant]
  BY <1>1, <1>2 DEF Grant
<1>6. program' \in [Programs -> Program]
  <2>1. program[p].unallocated - assigned \in Int
    BY <1>1 DEF Program
  <2>2. [program[p] EXCEPT !.unallocated = @ - assigned] \in Program
    BY <2>1 DEF Program
  <2> QED
    BY <1>2, <2>2
<1>7. FundsTypeOK'
  BY <1>2, <1>4, <1>5, <1>6
<1>8. ASSUME NEW q \in Programs PROVE program'[q].unallocated = balance'[ProgramAvailable(q)]
  <2>1. program[q].unallocated = balance[ProgramAvailable(q)]
    BY DEF Reconciled, ProgramsReconciled
  <2>2. CASE q = p
    BY <1>2, <2>1, <2>2, LedgerAccount DEF Program
  <2>3. CASE q # p
    BY <1>2, <2>1, <2>3, LedgerAccount, LedgerDistinct
  <2> QED
    BY <2>2, <2>3
<1>9. ASSUME NEW g \in GrantIds PROVE grant'[g].available = balance'[HouseholdCredit(g)]
  <2>1. grant[g].available = balance[HouseholdCredit(g)]
    BY DEF Reconciled, GrantsReconciled
  <2>2. HouseholdCredit(g) \in LedgerAccounts /\ HouseholdCredit(g) # ProgramAvailable(p)
    BY LedgerAccount, LedgerDistinct
  <2>3. CASE g[1] = p /\ g[2] \in S
    <3>1. g = <<p, g[2]>>
      BY <2>3 DEF GrantIds
    <3>5. balance[HouseholdCredit(g)] \in Int
      BY <2>2
    <3>2. grant[g].available = 0
      BY <2>3, <3>1 DEF Allocate, Eligible, GrantExists, NoGrant
    <3>3. HouseholdCredit(g)[2][2] = g[2]
      BY DEF HouseholdCredit
    <3>4. balance'[HouseholdCredit(g)] = balance[HouseholdCredit(g)] + share[g[2]]
      BY <1>2, <2>2, <2>3, <3>1, <3>3
    <3> QED
      <4>1. grant'[g].available = share[g[2]]
        BY <1>2, <2>3
      <4>2. PICK s \in Int : s = share[g[2]]
        BY <1>1, <2>3
      <4>3. balance'[HouseholdCredit(g)] = 0 + s
        BY ONLY <2>1, <3>2, <3>4, <4>2
      <4> QED
        BY <4>1, <4>2, <4>3
  <2>4. CASE ~(g[1] = p /\ g[2] \in S)
    <3>1. ASSUME NEW a \in S, HouseholdCredit(g) = HouseholdCredit(<<p, a>>) PROVE FALSE
      <4>1. g = <<p, a>>
        BY <3>1, LedgerDistinct
      <4> QED
        BY <2>4, <4>1
    <3> QED
      BY <1>2, <2>1, <2>2, <2>4, <3>1
  <2> QED
    BY <2>3, <2>4
<1>10. \A x \in LedgerAccounts :
          x # ProgramAvailable(p) /\ (\A g : x # HouseholdCredit(g)) => balance'[x] = balance[x]
  BY <1>2
<1>11. Reconciled'
  <2>1. \A a \in Accounts : balance'[BuyerCash(a)] = balance[BuyerCash(a)]
    BY <1>10, LedgerAccount, LedgerDistinct
  <2>2. \A w \in Withdrawals : balance'[WithdrawalHold(w)] = balance[WithdrawalHold(w)]
    BY <1>10, LedgerAccount, LedgerDistinct
  <2>3. WalletsReconciled'
    BY <1>2, <2>1 DEF Reconciled, WalletsReconciled
  <2>4. HoldsReconciled'
    BY <1>2, <2>2 DEF Reconciled, HoldsReconciled
  <2>5. ProgramsReconciled' /\ GrantsReconciled'
    BY <1>8, <1>9 DEF ProgramsReconciled, GrantsReconciled
  <2> QED
    BY <2>3, <2>4, <2>5 DEF Reconciled
<1> QED
  BY <1>2, <1>7, <1>11 DEF Owned

LEMMA WithdrawStep ==
    ASSUME FInv, NEW w \in Withdrawals, NEW a \in Accounts, NEW amount \in WithdrawAmounts,
           Withdraw(w, a, amount)
    PROVE  FInv'
<1> USE DEF FInv, FundsTypeOK
<1>1. amount \in Int /\ amount \in Nat /\ wallet[a] \in Nat /\ wallet[a] >= amount
  BY FundsAssumption DEF Withdraw
<1>2. balance' = Transfer(balance, BuyerCash(a), WithdrawalHold(w), amount)
  BY DEF Withdraw
<1>3. /\ balance' \in [LedgerAccounts -> Int]
      /\ balance'[BuyerCash(a)] = balance[BuyerCash(a)] - amount
      /\ balance'[WithdrawalHold(w)] = balance[WithdrawalHold(w)] + amount
      /\ \A x \in LedgerAccounts \ {BuyerCash(a), WithdrawalHold(w)} : balance'[x] = balance[x]
  <2>1. /\ BuyerCash(a) \in LedgerAccounts /\ WithdrawalHold(w) \in LedgerAccounts
        /\ BuyerCash(a) # WithdrawalHold(w)
        /\ balance \in [LedgerAccounts -> Int]
    BY LedgerAccount, LedgerDistinct
  <2> QED
    BY ONLY <1>1, <1>2, <2>1 DEF Transfer
<1>4. /\ wallet' = [wallet EXCEPT ![a] = @ - amount]
      /\ withdrawal' = [withdrawal EXCEPT ![w] =
                          [state |-> "OWNERSHIP_VERIFICATION_PENDING", account |-> a,
                           amount |-> amount, due |-> now + WithdrawalSla,
                           escalated |-> FALSE]]
      /\ UNCHANGED <<now, program, grant, link, members>>
  BY DEF Withdraw, creditVars
<1>5. FundsTypeOK'
  BY <1>1, <1>3, <1>4, FundsAssumption DEF Withdrawal
<1>6. Owned'
  BY <1>4 DEF Owned
<1>7. WalletsReconciled'
  <2> SUFFICES ASSUME NEW b \in Accounts
               PROVE  wallet'[b] = InitialCash[b] + balance'[BuyerCash(b)]
    BY DEF WalletsReconciled
  <2>1. /\ wallet[b] = InitialCash[b] + balance[BuyerCash(b)]
        /\ InitialCash[b] \in Int /\ balance[BuyerCash(b)] \in Int
    BY FundsAssumption, LedgerAccount DEF Reconciled, WalletsReconciled
  <2> QED
    BY <1>1, <1>3, <1>4, <2>1, LedgerAccount, LedgerDistinct
<1>8. HoldsReconciled'
  <2> SUFFICES ASSUME NEW v \in Withdrawals
               PROVE  balance'[WithdrawalHold(v)] =
                         IF withdrawal'[v].state = "OWNERSHIP_VERIFICATION_PENDING"
                           THEN withdrawal'[v].amount ELSE 0
    BY DEF HoldsReconciled
  <2>1. CASE v = w
    BY <1>1, <1>3, <1>4, <2>1, LedgerAccount DEF Reconciled, HoldsReconciled, Withdraw
  <2>2. CASE v # w
    BY <1>3, <1>4, <2>2, LedgerAccount, LedgerDistinct DEF Reconciled, HoldsReconciled
  <2> QED
    BY <2>1, <2>2
<1>9. Reconciled'
  <2>1. \A p \in Programs : balance'[ProgramAvailable(p)] = balance[ProgramAvailable(p)]
    BY <1>3, LedgerAccount, LedgerDistinct
  <2>2. \A g \in GrantIds : balance'[HouseholdCredit(g)] = balance[HouseholdCredit(g)]
    BY <1>3, LedgerAccount, LedgerDistinct
  <2> QED
    BY <1>4, <1>7, <1>8, <2>1, <2>2 DEF Reconciled, ProgramsReconciled, GrantsReconciled
<1> QED
  BY <1>5, <1>6, <1>9

LEMMA CancelWithdrawalStep ==
    ASSUME FInv, NEW w \in Withdrawals, CancelWithdrawal(w)
    PROVE  FInv'
<1> USE DEF FInv, FundsTypeOK
<1>1. /\ withdrawal[w].state = "OWNERSHIP_VERIFICATION_PENDING"
      /\ withdrawal' = [withdrawal EXCEPT ![w].state = "CANCELLED"]
      /\ UNCHANGED <<now, program, grant, link, members>>
  BY DEF CancelWithdrawal, creditVars
<1>2. PICK a \in Accounts, amount \in Nat :
         /\ a = withdrawal[w].account /\ amount = withdrawal[w].amount
         /\ balance[WithdrawalHold(w)] = amount
         /\ amount \in Int
  BY <1>1 DEF Owned, Withdrawal, Reconciled, HoldsReconciled
<1>3. /\ wallet' = [wallet EXCEPT ![a] = @ + amount]
      /\ balance' = Transfer(balance, WithdrawalHold(w), BuyerCash(a), amount)
  BY <1>2 DEF CancelWithdrawal
<1>4. /\ balance' \in [LedgerAccounts -> Int]
      /\ balance'[WithdrawalHold(w)] = balance[WithdrawalHold(w)] - amount
      /\ balance'[BuyerCash(a)] = balance[BuyerCash(a)] + amount
      /\ \A x \in LedgerAccounts \ {BuyerCash(a), WithdrawalHold(w)} : balance'[x] = balance[x]
  <2>1. /\ BuyerCash(a) \in LedgerAccounts /\ WithdrawalHold(w) \in LedgerAccounts
        /\ BuyerCash(a) # WithdrawalHold(w)
        /\ balance \in [LedgerAccounts -> Int] /\ amount \in Int
    BY <1>2, LedgerAccount, LedgerDistinct
  <2>2. balance' = Transfer(balance, WithdrawalHold(w), BuyerCash(a), amount)
    BY <1>3
  <2> QED
    BY ONLY <2>1, <2>2 DEF Transfer
<1>5. [withdrawal[w] EXCEPT !.state = "CANCELLED"] \in Withdrawal
  BY DEF Withdrawal
<1>6. FundsTypeOK'
  BY <1>1, <1>3, <1>4, <1>5
<1>7. Owned'
  BY <1>1 DEF Owned, Withdrawal
<1>8. ASSUME NEW b \in Accounts
      PROVE  wallet'[b] = InitialCash[b] + balance'[BuyerCash(b)]
  <2>1. /\ wallet[b] = InitialCash[b] + balance[BuyerCash(b)]
        /\ InitialCash[b] \in Int /\ balance[BuyerCash(b)] \in Int
    BY FundsAssumption, LedgerAccount DEF Reconciled, WalletsReconciled
  <2> QED
    BY <1>3, <1>4, <2>1, LedgerAccount, LedgerDistinct
<1>9. ASSUME NEW v \in Withdrawals
      PROVE  balance'[WithdrawalHold(v)] =
                IF withdrawal'[v].state = "OWNERSHIP_VERIFICATION_PENDING"
                  THEN withdrawal'[v].amount ELSE 0
  <2>1. CASE v = w
    BY <1>1, <1>2, <1>4, <2>1 DEF Withdrawal
  <2>2. CASE v # w
    BY <1>1, <1>4, <2>2, LedgerAccount, LedgerDistinct DEF Reconciled, HoldsReconciled
  <2> QED
    BY <2>1, <2>2
<1>10. Reconciled'
  <2>1. \A p \in Programs : balance'[ProgramAvailable(p)] = balance[ProgramAvailable(p)]
    BY <1>4, LedgerAccount, LedgerDistinct
  <2>2. \A g \in GrantIds : balance'[HouseholdCredit(g)] = balance[HouseholdCredit(g)]
    BY <1>4, LedgerAccount, LedgerDistinct
  <2> QED
    BY <1>1, <1>8, <1>9, <2>1, <2>2
    DEF Reconciled, WalletsReconciled, ProgramsReconciled, GrantsReconciled, HoldsReconciled
<1> QED
  BY <1>6, <1>7, <1>10

LEMMA AssessWithdrawalsStep ==
    ASSUME FInv, AssessWithdrawals
    PROVE  FInv'
<1> USE DEF FInv, FundsTypeOK
<1>1. /\ withdrawal' = [w \in Withdrawals |->
                          IF Overdue(w) THEN [withdrawal[w] EXCEPT !.escalated = TRUE]
                          ELSE withdrawal[w]]
      /\ UNCHANGED <<now, wallet, program, grant, link, members, balance>>
  BY DEF AssessWithdrawals, creditVars
<1>2. ASSUME NEW w \in Withdrawals
      PROVE  /\ withdrawal'[w] \in Withdrawal
             /\ withdrawal'[w].state = withdrawal[w].state
             /\ withdrawal'[w].account = withdrawal[w].account
             /\ withdrawal'[w].amount = withdrawal[w].amount
  BY <1>1 DEF Withdrawal
<1>3. FundsTypeOK'
  BY <1>1, <1>2
<1> QED
  BY <1>1, <1>2, <1>3
  DEF Owned, Reconciled, WalletsReconciled, ProgramsReconciled, GrantsReconciled,
      HoldsReconciled

\* Commands that touch neither a balance nor a document Reconciled relates to one.
LEMMA QuietStep ==
    ASSUME FInv, UNCHANGED <<wallet, program, grant, withdrawal, balance>>,
           now' \in Nat, link' \in [Accounts -> Households \cup {NoHousehold}],
           members' \in SUBSET Accounts
    PROVE  FInv'
  BY DEF FInv, FundsTypeOK, Owned, Reconciled, WalletsReconciled, ProgramsReconciled,
         GrantsReconciled, HoldsReconciled

LEMMA FundsStep == FInv /\ [FundsNext]_fundsVars => FInv'
<1> SUFFICES ASSUME FInv, [FundsNext]_fundsVars PROVE FInv'
  OBVIOUS
<1> USE DEF FInv, FundsTypeOK
<1>1. ASSUME NEW a \in Accounts, NEW h \in Households, LinkHousehold(a, h) PROVE FInv'
  BY <1>1, QuietStep DEF LinkHousehold
<1>2. ASSUME NEW a \in Accounts, GrantMembership(a) \/ RevokeMembership(a) PROVE FInv'
  BY <1>2, QuietStep DEF GrantMembership, RevokeMembership
<1>3. CASE Tick
  BY <1>3, QuietStep DEF Tick, creditVars
<1>4. CASE UNCHANGED fundsVars
  BY <1>4, QuietStep DEF fundsVars
<1> QED
  BY <1>1, <1>2, <1>3, <1>4, CreateProgramStep, AllocateStep, WithdrawStep,
     CancelWithdrawalStep, AssessWithdrawalsStep DEF FundsNext

-----------------------------------------------------------------------------
\* The documents and the journal keep their types under every sequence of
\* commands: in particular no withdrawal leaves a wallet negative.
THEOREM FundsTypeCorrect == FundsSpec => []FundsTypeOK
<1>1. FInv => FundsTypeOK
  BY DEF FInv
<1> QED
  BY <1>1, FundsInitInv, FundsStep, PTL DEF FundsSpec

\* Every wallet, programme, grant and hold equals its journal balance in every
\* reachable state, for any number of accounts, programmes and requests.
THEOREM FundsReconciled == FundsSpec => []Reconciled
<1>1. FInv => Reconciled
  BY DEF FInv
<1> QED
  BY <1>1, FundsInitInv, FundsStep, PTL DEF FundsSpec

-----------------------------------------------------------------------------
(* One household, one grant *)

\* A grant that exists has a household.
GrantsHoused == \A g \in GrantIds : GrantExists(g) => grant[g].household # NoHousehold

HouseholdInv == FInv /\ GrantsHoused /\ HouseholdOncePerProgram

LEMMA HouseholdAllocate ==
    ASSUME HouseholdInv, NEW p \in Programs, NEW pool, NEW S \in SUBSET Accounts,
           NEW weight \in [S -> Weights], Allocate(p, pool, weight)
    PROVE  GrantsHoused' /\ HouseholdOncePerProgram'
<1> DEFINE New(g) == g[1] = p /\ g[2] \in S
<1>1. /\ \A a \in S : link[a] # NoHousehold
      /\ \A a, b \in S : link[a] = link[b] => a = b
      /\ \A a \in S, g \in GrantIds :
            g[1] = p /\ GrantExists(g) => g[2] # a /\ grant[g].household # link[a]
  BY DEF Allocate, Eligible
<1>2. \A g \in GrantIds : /\ New(g) => grant'[g].household = link[g[2]]
                          /\ ~New(g) => grant'[g] = grant[g]
  BY DEF Allocate
<1>3. \A g \in GrantIds : ~New(g) => (GrantExists(g)' <=> GrantExists(g))
  BY <1>2 DEF GrantExists
<1>4. GrantsHoused'
  BY <1>1, <1>2, <1>3 DEF HouseholdInv, GrantsHoused
<1>5. ASSUME NEW g \in GrantIds, NEW h \in GrantIds, g # h, g[1] = h[1],
             GrantExists(g)', GrantExists(h)'
      PROVE  grant'[g].household # grant'[h].household
  <2>1. CASE ~New(g) /\ ~New(h)
    BY <1>2, <1>3, <1>5, <2>1 DEF HouseholdInv, HouseholdOncePerProgram
  <2>2. ASSUME NEW k \in GrantIds, NEW l \in GrantIds, New(k), ~New(l), l[1] = p,
               GrantExists(l)'
        PROVE  grant'[k].household # grant'[l].household
    <3>1. grant'[k].household = link[k[2]] /\ grant'[l] = grant[l] /\ GrantExists(l)
      BY <1>2, <1>3, <2>2
    <3>2. grant[l].household # link[k[2]]
      BY <1>1, <2>2, <3>1
    <3> QED
      BY <3>1, <3>2
  <2>3. CASE New(g) # New(h)
    BY <1>5, <2>2, <2>3
  <2>4. CASE New(g) /\ New(h)
    <3>1. g[2] # h[2]
      BY <1>5 DEF GrantIds
    <3> QED
      BY <1>1, <1>2, <2>4, <3>1
  <2> QED
    BY <2>1, <2>2, <2>3, <2>4
<1> QED
  BY <1>4, <1>5 DEF HouseholdOncePerProgram

\* No other command touches a grant.
LEMMA GrantsKept ==
    ASSUME [FundsNext]_fundsVars
    PROVE  \/ UNCHANGED grant
           \/ \E p \in Programs, pool \in Pools, S \in SUBSET Accounts :
                 \E weight \in [S -> Weights] : Allocate(p, pool, weight)
  BY DEF FundsNext, fundsVars, creditVars, CreateProgram, LinkHousehold, GrantMembership,
         RevokeMembership, Withdraw, CancelWithdrawal, AssessWithdrawals, Tick

\* A programme serves a household once, through whichever account and however
\* accounts are linked anew in between: the household frozen in the grant decides.
THEOREM HouseholdServedOnce == FundsSpec => []HouseholdOncePerProgram
<1>1. FundsInit => HouseholdInv
  BY FundsInitInv
  DEF FundsInit, HouseholdInv, GrantsHoused, HouseholdOncePerProgram, GrantExists
<1>2. HouseholdInv /\ [FundsNext]_fundsVars => HouseholdInv'
  <2> SUFFICES ASSUME HouseholdInv, [FundsNext]_fundsVars PROVE HouseholdInv'
    OBVIOUS
  <2>1. FInv'
    BY FundsStep DEF HouseholdInv
  <2>2. CASE UNCHANGED grant
    BY <2>1, <2>2 DEF HouseholdInv, GrantsHoused, HouseholdOncePerProgram, GrantExists
  <2> QED
    BY <2>1, <2>2, GrantsKept, HouseholdAllocate DEF HouseholdInv
<1>3. HouseholdInv => HouseholdOncePerProgram
  BY DEF HouseholdInv
<1> QED
  BY <1>1, <1>2, <1>3, PTL DEF FundsSpec

-----------------------------------------------------------------------------
(* The money of a programme *)

\* Whatever the weights, the shares of a pool add up to the pool at most: each is
\* rounded down.
LEMMA SharesWithinPool ==
    ASSUME NEW S, IsFiniteSet(S), S # {}, NEW weight \in [S -> Nat \ {0}], NEW pool \in Nat
    PROVE  /\ Shares(pool, weight) \in [S -> Nat]
           /\ SumFunction(Shares(pool, weight)) \in 0..pool
<1> DEFINE W == SumFunctionOnSet(weight, S)
           share == Shares(pool, weight)
           scaled == [a \in S |-> W * share[a]]
           full == [a \in S |-> pool * weight[a]]
<1>1. W \in Nat /\ W > 0
  <2>1. PICK x \in S : TRUE
    OBVIOUS
  <2>2. W \in Nat /\ weight[x] <= W /\ weight[x] \in Nat \ {0}
    BY SumNat
  <2> QED
    BY <2>2
<1>2. share = [a \in S |-> (pool * weight[a]) \div W]
  BY SumOfFunction DEF Shares
<1> HIDE DEF W, share
<1>3. ASSUME NEW a \in S
      PROVE  share[a] \in Nat /\ W * share[a] <= pool * weight[a]
  <2>1. PICK n \in Nat : n = pool * weight[a]
    OBVIOUS
  <2>2. W \in Nat \ {0}
    BY <1>1
  <2>3. n \div W \in Nat /\ W * (n \div W) <= n
    BY <2>2
  <2> QED
    BY <1>2, <2>1, <2>3
<1>4. share \in [S -> Nat]
  BY <1>2, <1>3
<1>5. SumFunctionOnSet(share, S) \in Nat
  BY <1>3, SumNat
<1>6. SumFunctionOnSet(scaled, S) = W * SumFunctionOnSet(share, S)
  <2>1. W \in Int /\ \A a \in S : share[a] \in Int /\ scaled[a] = W * share[a]
    BY <1>1, <1>3
  <2> HIDE DEF scaled
  <2> QED
    BY <2>1, SumTimes
<1>7. SumFunctionOnSet(full, S) = pool * W
  <2>1. pool \in Int /\ \A a \in S : weight[a] \in Int /\ full[a] = pool * weight[a]
    OBVIOUS
  <2> HIDE DEF full
  <2> QED
    BY <2>1, SumTimes DEF W
<1>8. SumFunctionOnSet(scaled, S) <= SumFunctionOnSet(full, S)
  <2>1. \A a \in S : scaled[a] \in Int /\ full[a] \in Int /\ scaled[a] <= full[a]
    BY <1>1, <1>3
  <2> HIDE DEF scaled, full
  <2> QED
    BY <2>1, SumAtMost
<1>9. SumFunctionOnSet(share, S) <= pool
  <2> DEFINE s == SumFunctionOnSet(share, S)
  <2>1. s \in Nat /\ W * s <= pool * W
    BY <1>5, <1>6, <1>7, <1>8
  <2> HIDE DEF s
  <2>2. s <= pool
    BY <1>1, <2>1
  <2> QED
    BY <2>2 DEF s
<1>10. SumFunction(share) = SumFunctionOnSet(share, S)
  BY <1>2, SumOfFunction
<1> QED
  BY <1>4, <1>5, <1>9, <1>10 DEF share

GrantedBy(p) == [a \in Accounts |-> grant[<<p, a>>].granted]

LEMMA GrantedInt ==
    ASSUME FundsTypeOK, NEW p \in Programs
    PROVE  /\ \A a \in Accounts : GrantedBy(p)[a] \in Int
           /\ SumFunction(GrantedBy(p)) = SumFunctionOnSet(GrantedBy(p), Accounts)
  BY SumOfFunction DEF FundsTypeOK, GrantIds, Grant, GrantedBy

LEMMA AccountedAllocate ==
    ASSUME FInv, ProgramsAccounted, NEW p \in Programs, NEW pool \in Pools,
           NEW S \in SUBSET Accounts, NEW weight \in [S -> Weights], Allocate(p, pool, weight)
    PROVE  ProgramsAccounted'
<1> DEFINE share == Shares(pool, weight)
           assigned == SumFunction(share)
           add == [a \in Accounts |-> IF a \in S THEN share[a] ELSE 0]
<1>1. IsFiniteSet(Accounts) /\ IsFiniteSet(S) /\ S # {}
  BY LedgerAssumption, FS_Subset DEF Allocate, Eligible
<1>2. share \in [S -> Nat] /\ assigned \in 0..pool
  <2>1. weight \in [S -> Nat \ {0}] /\ pool \in Nat
    BY FundsAssumption
  <2> QED
    BY ONLY <1>1, <2>1, SharesWithinPool
<1>3. /\ grant' = [g \in GrantIds |->
                     IF g[1] = p /\ g[2] \in S
                       THEN [household |-> link[g[2]], granted |-> share[g[2]],
                             available |-> share[g[2]]]
                       ELSE grant[g]]
      /\ program' = [program EXCEPT ![p].unallocated = @ - assigned]
      /\ pool <= program[p].unallocated
  BY DEF Allocate
<1>4. \A a \in S : grant[<<p, a>>].granted = 0
  BY DEF Allocate, Eligible, GrantExists, NoGrant, GrantIds
<1> HIDE DEF share, assigned
<1>5. \A q \in Programs, a \in Accounts :
         /\ q # p => grant'[<<q, a>>].granted = grant[<<q, a>>].granted
         /\ grant'[<<p, a>>].granted = IF a \in S THEN share[a] ELSE grant[<<p, a>>].granted
  BY <1>3 DEF GrantIds
<1>6. SumFunctionOnSet(add, Accounts) = assigned
  <2>1. SumFunctionOnSet(add, S) = SumFunctionOnSet(share, S)
    <3>1. \A a \in S : add[a] \in Int /\ add[a] = share[a]
      BY <1>2
    <3> HIDE DEF add
    <3> QED
      BY <1>1, <3>1, SumSame
  <2>2. SumFunctionOnSet(add, Accounts \ S) = 0
    <3>1. IsFiniteSet(Accounts \ S) /\ \A a \in Accounts \ S : add[a] = 0
      BY <1>1, FS_Subset
    <3> HIDE DEF add
    <3> QED
      BY <3>1, SumZero
  <2>3. SumFunctionOnSet(add, Accounts)
          = SumFunctionOnSet(add, S) + SumFunctionOnSet(add, Accounts \ S)
    <3>1. /\ IsFiniteSet(Accounts \ S) /\ S \cap (Accounts \ S) = {}
          /\ S \cup (Accounts \ S) = Accounts
          /\ IntOn(add, S \cup (Accounts \ S))
      BY <1>1, <1>2, FS_Subset DEF IntOn
    <3> HIDE DEF add
    <3> QED
      BY <1>1, <3>1, SumSplit
  <2>4. assigned = SumFunctionOnSet(share, S) /\ assigned \in Int
    BY <1>2, SumOfFunction DEF assigned
  <2> HIDE DEF add
  <2> QED
    BY <2>1, <2>2, <2>3, <2>4
<1>7. SumFunctionOnSet(GrantedBy(p)', Accounts)
        = SumFunctionOnSet(GrantedBy(p), Accounts) + assigned
  <2>1. \A a \in Accounts : /\ GrantedBy(p)[a] \in Int /\ add[a] \in Int
                            /\ GrantedBy(p)'[a] = GrantedBy(p)[a] + add[a]
    <3> TAKE a \in Accounts
    <3>1. GrantedBy(p)[a] \in Int
      BY GrantedInt DEF FInv
    <3>2. /\ GrantedBy(p)[a] = grant[<<p, a>>].granted
          /\ GrantedBy(p)'[a] = grant'[<<p, a>>].granted
      BY DEF GrantedBy
    <3>3. add[a] \in Int
      BY <1>2
    <3>4. CASE a \in S
      BY <1>2, <1>4, <1>5, <3>2, <3>4
    <3>5. CASE a \notin S
      BY <1>5, <3>1, <3>2, <3>5
    <3> QED
      BY <3>1, <3>3, <3>4, <3>5
  <2> HIDE DEF add
  <2> QED
    BY <1>1, <1>6, <2>1, SumPlus
<1>8. ASSUME NEW q \in Programs
      PROVE  /\ program'[q].unallocated \in 0..program'[q].funded
             /\ SumFunction(GrantedBy(q)') + program'[q].unallocated = program'[q].funded
  <2>1. /\ program[q].unallocated \in 0..program[q].funded
        /\ SumFunctionOnSet(GrantedBy(q), Accounts) + program[q].unallocated = program[q].funded
        /\ program[q].funded \in Nat
    BY GrantedInt DEF FInv, FundsTypeOK, ProgramsAccounted, Program, GrantedBy
  <2>2. SumFunction(GrantedBy(q)') = SumFunctionOnSet(GrantedBy(q)', Accounts)
    BY SumOfFunction DEF GrantedBy
  <2>3. CASE q = p
    <3>1. /\ program'[p].unallocated = program[p].unallocated - assigned
          /\ program'[p].funded = program[p].funded
      BY <1>3 DEF FInv, FundsTypeOK, Program
    <3>2. SumFunctionOnSet(GrantedBy(p), Accounts) \in Int
      BY <1>1, GrantedInt, SumInt DEF FInv, IntOn
    <3>3. assigned \in Nat /\ assigned <= program[p].unallocated
      BY <1>2, <1>3, <2>1, <2>3, FundsAssumption
    <3> QED
      BY <1>7, <2>1, <2>2, <2>3, <3>1, <3>2, <3>3
  <2>4. CASE q # p
    <3>1. GrantedBy(q)' = GrantedBy(q)
      BY <1>5, <2>4 DEF GrantedBy
    <3>2. program'[q] = program[q]
      BY <1>3, <2>4 DEF FInv, FundsTypeOK
    <3> QED
      BY <2>1, <2>2, <3>1, <3>2
  <2> QED
    BY <2>3, <2>4
<1> QED
  BY <1>8 DEF ProgramsAccounted, GrantedBy

LEMMA AccountedCreate ==
    ASSUME FInv, ProgramsAccounted, NEW p \in Programs, NEW amount \in FundAmounts,
           NEW term \in ProgramTerms, CreateProgram(p, amount, term)
    PROVE  ProgramsAccounted'
<1>1. /\ program[p].unallocated = 0 /\ program[p].funded = 0
      /\ program' = [program EXCEPT ![p] =
                       [funded |-> amount, unallocated |-> amount, expires |-> term.expires,
                        categories |-> term.categories, organization |-> term.organization]]
      /\ grant' = grant
  BY DEF CreateProgram, ProgramExists, NoProgram
<1> SUFFICES ASSUME NEW q \in Programs
             PROVE  /\ program'[q].unallocated \in 0..program'[q].funded
                    /\ SumFunction(GrantedBy(q)) + program'[q].unallocated = program'[q].funded
  BY <1>1 DEF ProgramsAccounted, GrantedBy
<1>2. /\ program[q].unallocated \in 0..program[q].funded
      /\ SumFunction(GrantedBy(q)) + program[q].unallocated = program[q].funded
  BY DEF ProgramsAccounted, GrantedBy
<1>3. CASE q = p
  <2>1. SumFunction(GrantedBy(p)) \in Int
    BY GrantedInt, LedgerAssumption, SumInt DEF FInv, IntOn
  <2>2. program'[p].unallocated = amount /\ program'[p].funded = amount /\ amount \in Nat
    BY <1>1, FundsAssumption DEF FInv, FundsTypeOK
  <2> QED
    BY <1>1, <1>2, <1>3, <2>1, <2>2
<1>4. CASE q # p
  BY <1>1, <1>2, <1>4 DEF FInv, FundsTypeOK
<1> QED
  BY <1>3, <1>4

\* No programme hands out more than it was funded with, over any series of
\* allocations, weights and roundings: what its grants were given and what it has
\* left is what was paid in.
THEOREM FundsProgramsAccounted == FundsSpec => []ProgramsAccounted
<1> DEFINE AInv == FInv /\ ProgramsAccounted
<1>1. FundsInit => AInv
  <2> SUFFICES ASSUME FundsInit PROVE AInv
    OBVIOUS
  <2>1. ASSUME NEW p \in Programs
        PROVE  /\ program[p].unallocated = 0 /\ program[p].funded = 0
               /\ SumFunction(GrantedBy(p)) = 0
    <3>1. \A a \in Accounts : GrantedBy(p)[a] = 0
      BY DEF FundsInit, NoGrant, GrantedBy, GrantIds
    <3>2. SumFunctionOnSet(GrantedBy(p), Accounts) = 0
      BY <3>1, LedgerAssumption, SumZero
    <3> QED
      BY <3>2, SumOfFunction DEF FundsInit, NoProgram, GrantedBy
  <2> QED
    BY <2>1, FundsInitInv DEF ProgramsAccounted, GrantedBy
<1>2. AInv /\ [FundsNext]_fundsVars => AInv'
  <2> SUFFICES ASSUME FInv, ProgramsAccounted, [FundsNext]_fundsVars PROVE AInv'
    OBVIOUS
  <2>1. FInv'
    BY FundsStep
  <2>2. CASE UNCHANGED <<program, grant>>
    BY <2>1, <2>2 DEF ProgramsAccounted
  <2>3. \/ UNCHANGED <<program, grant>>
        \/ \E p \in Programs, amount \in FundAmounts, term \in ProgramTerms :
              CreateProgram(p, amount, term)
        \/ \E p \in Programs, pool \in Pools, S \in SUBSET Accounts :
              \E weight \in [S -> Weights] : Allocate(p, pool, weight)
    BY DEF FundsNext, fundsVars, creditVars, LinkHousehold, GrantMembership,
           RevokeMembership, Withdraw, CancelWithdrawal, AssessWithdrawals, Tick
  <2> QED
    BY <2>1, <2>2, <2>3, AccountedCreate, AccountedAllocate
<1>3. AInv => ProgramsAccounted
  OBVIOUS
<1> QED
  BY <1>1, <1>2, <1>3, PTL DEF FundsSpec
=============================================================================
