------------------------------- MODULE SumLemmas -------------------------------
(***************************************************************************)
(* What SumFunctionOnSet of the community modules computes, for every      *)
(* finite set of indices: the defining equation of its fold, and from it   *)
(* the facts that the proofs about quantities, exposures and quotas need.  *)
(*                                                                         *)
(* The provers cannot instantiate an induction theorem that takes a        *)
(* predicate; every induction is therefore a least counterexample: a       *)
(* non-empty set of naturals has a least element.                          *)
(***************************************************************************)
EXTENDS Integers, FiniteSets, Functions, FiniteSetTheorems, WellFoundedInduction, TLAPS

\* The pairs of naturals in ascending order.
Ascending == {pair \in Nat \X Nat : pair[1] < pair[2]}

\* A non-empty set of naturals has a least element.
LEMMA LeastNatural ==
    ASSUME NEW T \in SUBSET Nat, T # {}
    PROVE  \E x \in T : \A y \in T : x <= y
<1>1. IsWellFoundedOn(Ascending, Nat)
  BY NatLessThanWellFounded, Zenon DEF OpToRel, Ascending
<1>2. PICK x \in T : \A y \in T : <<y, x>> \notin Ascending
  BY <1>1, WFMin, Zenon
<1>3. \A y \in T : ~(y < x)
  BY <1>2 DEF Ascending
<1>4. QED
  BY <1>3

\* Among the sets of a non-empty family of finite sets there is a smallest one.
LEMMA SmallestSet ==
    ASSUME NEW B, B # {}, \A s \in B : IsFiniteSet(s)
    PROVE  \E s \in B : /\ Cardinality(s) \in Nat
                        /\ \A r \in B : Cardinality(r) \in Nat /\ Cardinality(s) <= Cardinality(r)
<1> DEFINE Sizes == {Cardinality(s) : s \in B}
<1>1. \A s \in B : Cardinality(s) \in Nat
  BY FS_CardinalityType
<1>2. Sizes \in SUBSET Nat /\ Sizes # {}
  BY <1>1
<1>3. \E c \in Sizes : \A d \in Sizes : c <= d
  <2> HIDE DEF Sizes
  <2> QED  BY <1>2, LeastNatural
<1>4. QED
  BY <1>1, <1>3

-----------------------------------------------------------------------------
(* The fold behind the sum. *)

\* The element that the fold takes from s.
Pick(s) == CHOOSE x \in s : TRUE

\* it is the fold of F on the sets of D.
Folds(F, D, it) ==
    it = [s \in D |-> IF s = {} THEN 0 ELSE F[Pick(s)] + it[s \ {Pick(s)}]]

LEMMA SumIsFold ==
    ASSUME NEW F, NEW S
    PROVE  SumFunctionOnSet(F, S) = (CHOOSE it : Folds(F, SUBSET S, it))[S]
BY Zenon DEF SumFunctionOnSet, FoldFunctionOnSet, MapThenFoldSet, Folds, Pick

\* Sets of at most n elements.
SetsUpTo(S, n) == {s \in SUBSET S : Cardinality(s) <= n}

LEMMA PickRemoves ==
    ASSUME NEW s, IsFiniteSet(s), s # {}
    PROVE  /\ Pick(s) \in s
           /\ IsFiniteSet(s \ {Pick(s)})
           /\ Cardinality(s \ {Pick(s)}) = Cardinality(s) - 1
           /\ Cardinality(s) \in Nat \ {0}
<1>1. Pick(s) \in s
  BY DEF Pick
<1>2. Cardinality(s) \in Nat /\ Cardinality(s) # 0
  BY FS_CardinalityType, FS_EmptySet
<1>3. QED
  BY <1>1, <1>2, FS_RemoveElement

\* The fold exists on the sets of every bounded size.
LEMMA FoldExistsUpTo ==
    ASSUME NEW F, NEW S, IsFiniteSet(S), NEW n \in Nat
    PROVE  \E it : Folds(F, SetsUpTo(S, n), it)
<1> DEFINE Missing == {m \in Nat : ~ \E it : Folds(F, SetsUpTo(S, m), it)}
<1>f. \A s \in SUBSET S : IsFiniteSet(s) /\ Cardinality(s) \in Nat
  BY FS_Subset, FS_CardinalityType
<1>1. SUFFICES ASSUME Missing # {} PROVE FALSE
  OBVIOUS
<1>2. PICK m \in Missing : \A y \in Missing : m <= y
  BY <1>1, LeastNatural
<1>3. CASE m = 0
  <2> DEFINE it == [s \in SetsUpTo(S, 0) |-> 0]
  <2>1. \A s \in SetsUpTo(S, 0) : s = {}
    BY <1>f, FS_EmptySet DEF SetsUpTo
  <2>2. Folds(F, SetsUpTo(S, 0), it)
    BY <2>1 DEF Folds
  <2>3. QED
    BY <1>2, <1>3, <2>2
<1>4. CASE m # 0
  <2>1. m \in Nat /\ m - 1 \in Nat /\ m - 1 \notin Missing
    BY <1>2, <1>4
  <2>2. PICK it : Folds(F, SetsUpTo(S, m - 1), it)
    BY <2>1
  <2> DEFINE jt == [s \in SetsUpTo(S, m) |->
                      IF s = {} THEN 0 ELSE F[Pick(s)] + it[s \ {Pick(s)}]]
  <2>3. ASSUME NEW r \in SetsUpTo(S, m - 1) PROVE r \in SetsUpTo(S, m) /\ jt[r] = it[r]
    <3>1. r \in SUBSET S /\ Cardinality(r) <= m - 1 /\ Cardinality(r) \in Nat
      BY <1>f DEF SetsUpTo
    <3>2. r \in SetsUpTo(S, m)
      BY <2>1, <3>1 DEF SetsUpTo
    <3>3. it[r] = (IF r = {} THEN 0 ELSE F[Pick(r)] + it[r \ {Pick(r)}])
      BY <2>2, Zenon DEF Folds
    <3>4. QED
      BY <3>2, <3>3, Zenon
  <2>4. ASSUME NEW s \in SetsUpTo(S, m), s # {} PROVE s \ {Pick(s)} \in SetsUpTo(S, m - 1)
    <3>1. s \in SUBSET S /\ Cardinality(s) <= m
      BY DEF SetsUpTo
    <3>2. Cardinality(s \ {Pick(s)}) = Cardinality(s) - 1 /\ Cardinality(s) \in Nat
      BY <1>f, <2>4, <3>1, PickRemoves
    <3>3. QED
      BY <2>1, <3>1, <3>2 DEF SetsUpTo
  <2>5. jt = [s \in SetsUpTo(S, m) |->
                IF s = {} THEN 0 ELSE F[Pick(s)] + jt[s \ {Pick(s)}]]
    BY <2>3, <2>4
  <2>6. Folds(F, SetsUpTo(S, m), jt)
    BY <2>5 DEF Folds
  <2>7. QED
    BY <1>2, <2>6
<1>5. QED
  BY <1>3, <1>4

LEMMA FoldExists ==
    ASSUME NEW F, NEW S, IsFiniteSet(S)
    PROVE  Folds(F, SUBSET S, CHOOSE it : Folds(F, SUBSET S, it))
<1>1. \A s \in SUBSET S : Cardinality(s) <= Cardinality(S)
  BY FS_Subset
<1>2. SetsUpTo(S, Cardinality(S)) = SUBSET S
  BY <1>1 DEF SetsUpTo
<1>3. \E it : Folds(F, SUBSET S, it)
  <2>1. \E it : Folds(F, SetsUpTo(S, Cardinality(S)), it)
    BY FoldExistsUpTo, FS_CardinalityType, Zenon
  <2>2. QED
    BY <1>2, <2>1, Zenon
<1>4. QED
  BY <1>3, Zenon

\* The folds on a set and on a part of it agree on the part.
LEMMA FoldAgrees ==
    ASSUME NEW F, NEW S, IsFiniteSet(S), NEW R \in SUBSET S, NEW it, NEW jt,
           Folds(F, SUBSET S, it), Folds(F, SUBSET R, jt)
    PROVE  it[R] = jt[R]
<1> DEFINE Differ == {s \in SUBSET R : it[s] # jt[s]}
<1>f. \A s \in SUBSET R : IsFiniteSet(s)
  BY FS_Subset
<1>1. SUFFICES ASSUME Differ # {} PROVE FALSE
  OBVIOUS
<1>2. PICK s \in Differ : \A r \in Differ : Cardinality(r) \in Nat /\ Cardinality(s) <= Cardinality(r)
  <2>1. \A s \in Differ : IsFiniteSet(s)
    BY <1>f
  <2> HIDE DEF Differ
  <2>2. QED
    BY <1>1, <2>1, SmallestSet, Zenon
<1>3. it[s] = (IF s = {} THEN 0 ELSE F[Pick(s)] + it[s \ {Pick(s)}])
  BY <1>2 DEF Folds
<1>4. jt[s] = (IF s = {} THEN 0 ELSE F[Pick(s)] + jt[s \ {Pick(s)}])
  BY <1>2 DEF Folds
<1>5. s # {}
  BY <1>2, <1>3, <1>4
<1>6. s \ {Pick(s)} \in Differ
  BY <1>2, <1>3, <1>4, <1>5
<1>7. Cardinality(s \ {Pick(s)}) = Cardinality(s) - 1 /\ Cardinality(s) \in Nat
  BY <1>2, <1>f, <1>5, PickRemoves
<1>8. Cardinality(s) <= Cardinality(s \ {Pick(s)})
  BY <1>2, <1>6, Zenon
<1>9. QED
  BY <1>7, <1>8

LEMMA SumEmpty ==
    ASSUME NEW F
    PROVE  SumFunctionOnSet(F, {}) = 0
<1>1. Folds(F, SUBSET {}, CHOOSE it : Folds(F, SUBSET {}, it))
  BY FoldExists, FS_EmptySet
<1>2. QED
  BY <1>1, SumIsFold DEF Folds

\* The defining equation of the sum.
LEMMA SumUnfolds ==
    ASSUME NEW F, NEW S, IsFiniteSet(S), S # {}
    PROVE  SumFunctionOnSet(F, S) = F[Pick(S)] + SumFunctionOnSet(F, S \ {Pick(S)})
<1> DEFINE R == S \ {Pick(S)}
           it == CHOOSE x : Folds(F, SUBSET S, x)
           jt == CHOOSE x : Folds(F, SUBSET R, x)
<1>1. IsFiniteSet(R) /\ R \in SUBSET S
  BY PickRemoves
<1>2. Folds(F, SUBSET S, it) /\ Folds(F, SUBSET R, jt)
  BY <1>1, FoldExists
<1> HIDE DEF R, it, jt
<1>3. it[R] = jt[R]
  BY <1>1, <1>2, FoldAgrees
<1>4. it[S] = F[Pick(S)] + it[R]
  BY <1>2 DEF Folds, R
<1>5. SumFunctionOnSet(F, S) = it[S] /\ SumFunctionOnSet(F, R) = jt[R]
  BY SumIsFold, Zenon DEF it, jt
<1>6. QED
  BY <1>3, <1>4, <1>5 DEF R

-----------------------------------------------------------------------------
(* Facts about sums of integers. *)

\* Induction on the subsets of a finite set: P holds the empty set, and every
\* set whose proper subsets it holds.
LEMMA SubsetInduction ==
    ASSUME NEW S, IsFiniteSet(S), NEW P, {} \in P,
           \A s \in SUBSET S : s # {} /\ (\A x \in s : s \ {x} \in P) => s \in P
    PROVE  S \in P
<1> DEFINE Bad == {s \in SUBSET S : s \notin P}
<1>f. \A s \in SUBSET S : IsFiniteSet(s)
  BY FS_Subset
<1>1. SUFFICES ASSUME Bad # {} PROVE FALSE
  OBVIOUS
<1>2. PICK s \in Bad : \A r \in Bad : Cardinality(r) \in Nat /\ Cardinality(s) <= Cardinality(r)
  <2>1. \A s \in Bad : IsFiniteSet(s)
    BY <1>f
  <2> HIDE DEF Bad
  <2>2. QED
    BY <1>1, <2>1, SmallestSet, Zenon
<1>3. s # {} /\ IsFiniteSet(s) /\ s \in SUBSET S /\ s \notin P
  BY <1>2, <1>f
<1>4. ASSUME NEW x \in s PROVE s \ {x} \in P
  <2>1. Cardinality(s \ {x}) = Cardinality(s) - 1 /\ Cardinality(s) \in Nat
    BY <1>3, FS_RemoveElement, FS_CardinalityType
  <2>2. ~(Cardinality(s) <= Cardinality(s \ {x}))
    BY <2>1
  <2>3. s \ {x} \notin Bad
    <3> HIDE DEF Bad
    <3> QED  BY <1>2, <2>2, Zenon
  <2>4. QED
    BY <1>3, <2>3
<1>5. QED
  BY <1>3, <1>4, Zenon

\* A sum of integers is an integer.
LEMMA SumType ==
    ASSUME NEW F, NEW S, IsFiniteSet(S), \A x \in S : F[x] \in Int
    PROVE  SumFunctionOnSet(F, S) \in Int
<1> DEFINE P == {s \in SUBSET S : SumFunctionOnSet(F, s) \in Int}
<1>1. {} \in P
  BY SumEmpty
<1>2. ASSUME NEW s \in SUBSET S, s # {}, \A x \in s : s \ {x} \in P PROVE s \in P
  <2>1. IsFiniteSet(s) /\ Pick(s) \in s
    BY <1>2, FS_Subset, PickRemoves
  <2>2. SumFunctionOnSet(F, s) = F[Pick(s)] + SumFunctionOnSet(F, s \ {Pick(s)})
    BY <1>2, <2>1, SumUnfolds
  <2>3. QED
    BY <1>2, <2>1, <2>2
<1> HIDE DEF P
<1>3. S \in P
  BY <1>1, <1>2, SubsetInduction
<1>4. QED
  BY <1>3 DEF P

\* Any element may be taken out first: the order of the fold does not matter.
LEMMA SumRemove ==
    ASSUME NEW F, NEW S, IsFiniteSet(S), \A x \in S : F[x] \in Int, NEW x \in S
    PROVE  SumFunctionOnSet(F, S) = F[x] + SumFunctionOnSet(F, S \ {x})
<1> DEFINE P == {s \in SUBSET S :
                   \A y \in s : SumFunctionOnSet(F, s) = F[y] + SumFunctionOnSet(F, s \ {y})}
<1>1. {} \in P
  OBVIOUS
<1>2. ASSUME NEW s \in SUBSET S, s # {}, \A y \in s : s \ {y} \in P PROVE s \in P
  <2>1. IsFiniteSet(s) /\ Pick(s) \in s
    BY <1>2, FS_Subset, PickRemoves
  <2>2. SumFunctionOnSet(F, s) = F[Pick(s)] + SumFunctionOnSet(F, s \ {Pick(s)})
    BY <1>2, <2>1, SumUnfolds
  <2>3. ASSUME NEW y \in s, y # Pick(s)
        PROVE  SumFunctionOnSet(F, s) = F[y] + SumFunctionOnSet(F, s \ {y})
    <3> DEFINE q == Pick(s)
               t == (s \ {q}) \ {y}
    <3>1. SumFunctionOnSet(F, s \ {q}) = F[y] + SumFunctionOnSet(F, t)
      BY <1>2, <2>1, <2>3
    <3>2. (s \ {y}) \ {q} = t
      OBVIOUS
    <3>3. SumFunctionOnSet(F, s \ {y}) = F[q] + SumFunctionOnSet(F, (s \ {y}) \ {q})
      BY <1>2, <2>1, <2>3
    <3>4. F[y] \in Int /\ F[q] \in Int /\ IsFiniteSet(t) /\ \A z \in t : F[z] \in Int
      BY <2>1, FS_Subset
    <3>5. SumFunctionOnSet(F, t) \in Int
      BY <3>4, SumType
    <3>6. SumFunctionOnSet(F, s \ {y}) = F[q] + SumFunctionOnSet(F, t)
      BY <3>2, <3>3, Zenon
    <3> HIDE DEF t, P
    <3>7. QED
      BY <2>2, <3>1, <3>4, <3>5, <3>6
  <2>4. QED
    BY <2>2, <2>3
<1> HIDE DEF P
<1>3. S \in P
  BY <1>1, <1>2, SubsetInduction
<1>4. QED
  BY <1>3 DEF P

\* A sum grows with its terms.
LEMMA SumMonotone ==
    ASSUME NEW F, NEW G, NEW S, IsFiniteSet(S),
           \A x \in S : F[x] \in Int /\ G[x] \in Int /\ F[x] <= G[x]
    PROVE  SumFunctionOnSet(F, S) <= SumFunctionOnSet(G, S)
<1> DEFINE P == {s \in SUBSET S : SumFunctionOnSet(F, s) <= SumFunctionOnSet(G, s)}
<1>1. {} \in P
  BY SumEmpty
<1>2. ASSUME NEW s \in SUBSET S, s # {}, \A x \in s : s \ {x} \in P PROVE s \in P
  <2> DEFINE q == Pick(s)
             t == s \ {q}
  <2>1. IsFiniteSet(s) /\ q \in s /\ IsFiniteSet(t) /\ t \in SUBSET S
    BY <1>2, FS_Subset, PickRemoves
  <2>2. /\ SumFunctionOnSet(F, s) = F[q] + SumFunctionOnSet(F, t)
        /\ SumFunctionOnSet(G, s) = G[q] + SumFunctionOnSet(G, t)
    BY <1>2, <2>1, SumUnfolds
  <2>3. SumFunctionOnSet(F, t) \in Int /\ SumFunctionOnSet(G, t) \in Int
    BY <2>1, SumType
  <2>4. SumFunctionOnSet(F, t) <= SumFunctionOnSet(G, t)
    BY <1>2, <2>1
  <2>5. QED
    BY <2>1, <2>2, <2>3, <2>4
<1> HIDE DEF P
<1>3. S \in P
  BY <1>1, <1>2, SubsetInduction
<1>4. QED
  BY <1>3 DEF P

\* A sum is of the terms on its set only.
LEMMA SumCongruent ==
    ASSUME NEW F, NEW G, NEW S, IsFiniteSet(S),
           \A x \in S : F[x] \in Int /\ G[x] = F[x]
    PROVE  SumFunctionOnSet(G, S) = SumFunctionOnSet(F, S)
<1>1. SumFunctionOnSet(F, S) <= SumFunctionOnSet(G, S) /\ SumFunctionOnSet(G, S) <= SumFunctionOnSet(F, S)
  BY SumMonotone
<1>2. SumFunctionOnSet(F, S) \in Int /\ SumFunctionOnSet(G, S) \in Int
  BY SumType
<1>3. QED
  BY <1>1, <1>2

\* Terms that do not shrink and add up to the same are the same.
LEMMA SumStrict ==
    ASSUME NEW F, NEW G, NEW S, IsFiniteSet(S),
           \A x \in S : F[x] \in Int /\ G[x] \in Int /\ F[x] <= G[x],
           SumFunctionOnSet(G, S) <= SumFunctionOnSet(F, S), NEW x \in S
    PROVE  F[x] = G[x]
<1> DEFINE t == S \ {x}
<1>1. IsFiniteSet(t) /\ t \in SUBSET S
  BY FS_Subset
<1>2. /\ SumFunctionOnSet(F, S) = F[x] + SumFunctionOnSet(F, t)
      /\ SumFunctionOnSet(G, S) = G[x] + SumFunctionOnSet(G, t)
  BY SumRemove
<1>3. SumFunctionOnSet(F, t) <= SumFunctionOnSet(G, t)
  BY <1>1, SumMonotone
<1>4. SumFunctionOnSet(F, t) \in Int /\ SumFunctionOnSet(G, t) \in Int
  BY <1>1, SumType
<1>5. QED
  BY <1>2, <1>3, <1>4

\* The sum after one term changed.
LEMMA SumUpdate ==
    ASSUME NEW F, NEW G, NEW S, IsFiniteSet(S), NEW x \in S,
           \A y \in S : F[y] \in Int /\ G[y] \in Int,
           \A y \in S \ {x} : G[y] = F[y]
    PROVE  SumFunctionOnSet(G, S) = (SumFunctionOnSet(F, S) - F[x]) + G[x]
<1> DEFINE t == S \ {x}
<1>1. IsFiniteSet(t) /\ t \in SUBSET S
  BY FS_Subset
<1>2. /\ SumFunctionOnSet(F, S) = F[x] + SumFunctionOnSet(F, t)
      /\ SumFunctionOnSet(G, S) = G[x] + SumFunctionOnSet(G, t)
  BY SumRemove
<1>3. SumFunctionOnSet(G, t) = SumFunctionOnSet(F, t) /\ SumFunctionOnSet(F, t) \in Int
  BY <1>1, SumCongruent, SumType
<1>4. QED
  BY <1>2, <1>3

\* A sum of naturals is a natural.
LEMMA SumNat ==
    ASSUME NEW F, NEW S, IsFiniteSet(S), \A x \in S : F[x] \in Nat
    PROVE  SumFunctionOnSet(F, S) \in Nat
<1> DEFINE P == {s \in SUBSET S : SumFunctionOnSet(F, s) \in Nat}
<1>1. {} \in P
  BY SumEmpty
<1>2. ASSUME NEW s \in SUBSET S, s # {}, \A x \in s : s \ {x} \in P PROVE s \in P
  <2>1. IsFiniteSet(s) /\ Pick(s) \in s
    BY <1>2, FS_Subset, PickRemoves
  <2>2. SumFunctionOnSet(F, s) = F[Pick(s)] + SumFunctionOnSet(F, s \ {Pick(s)})
    BY <1>2, <2>1, SumUnfolds
  <2>3. QED
    BY <1>2, <2>1, <2>2
<1> HIDE DEF P
<1>3. S \in P
  BY <1>1, <1>2, SubsetInduction
<1>4. QED
  BY <1>3 DEF P

\* A part of the terms adds up to no more than all of them.
LEMMA SumSubset ==
    ASSUME NEW F, NEW S, IsFiniteSet(S), NEW R \in SUBSET S, \A x \in S : F[x] \in Nat
    PROVE  SumFunctionOnSet(F, R) <= SumFunctionOnSet(F, S)
<1> DEFINE P == {s \in SUBSET S : SumFunctionOnSet(F, s \cap R) <= SumFunctionOnSet(F, s)}
<1>1. {} \in P
  BY SumEmpty
<1>2. ASSUME NEW s \in SUBSET S, s # {}, \A x \in s : s \ {x} \in P PROVE s \in P
  <2>1. PICK x \in s : TRUE
    BY <1>2
  <2>2. IsFiniteSet(s) /\ IsFiniteSet(s \cap R) /\ IsFiniteSet((s \ {x}) \cap R) /\ IsFiniteSet(s \ {x})
    BY FS_Subset
  <2>3. SumFunctionOnSet(F, s) = F[x] + SumFunctionOnSet(F, s \ {x})
    BY <2>1, <2>2, SumRemove
  <2>4. SumFunctionOnSet(F, (s \ {x}) \cap R) <= SumFunctionOnSet(F, s \ {x})
    BY <1>2
  <2>5. SumFunctionOnSet(F, (s \ {x}) \cap R) \in Int /\ SumFunctionOnSet(F, s \ {x}) \in Int
    BY <2>2, SumType
  <2>6. CASE x \in R
    <3>1. SumFunctionOnSet(F, s \cap R) = F[x] + SumFunctionOnSet(F, (s \cap R) \ {x})
      BY <2>2, <2>6, SumRemove
    <3>2. (s \cap R) \ {x} = (s \ {x}) \cap R
      OBVIOUS
    <3>3. SumFunctionOnSet(F, s \cap R) = F[x] + SumFunctionOnSet(F, (s \ {x}) \cap R)
      BY <3>1, <3>2, Zenon
    <3>4. SumFunctionOnSet(F, s \cap R) <= SumFunctionOnSet(F, s)
      <4> HIDE DEF P
      <4> QED  BY <2>3, <2>4, <2>5, <3>3
    <3>5. QED
      BY <3>4
  <2>7. CASE x \notin R
    <3>1. s \cap R = (s \ {x}) \cap R
      BY <2>7
    <3>2. QED
      BY <2>3, <2>4, <2>5, <3>1
  <2>8. QED
    BY <2>6, <2>7
<1> HIDE DEF P
<1>3. S \in P
  BY <1>1, <1>2, SubsetInduction
<1>4. S \cap R = R
  OBVIOUS
<1>5. QED
  BY <1>3, <1>4 DEF P

\* The sum of the sums of two terms.
LEMMA SumAdd ==
    ASSUME NEW F, NEW G, NEW H, NEW S, IsFiniteSet(S),
           \A x \in S : F[x] \in Int /\ G[x] \in Int /\ H[x] = F[x] + G[x]
    PROVE  SumFunctionOnSet(H, S) = SumFunctionOnSet(F, S) + SumFunctionOnSet(G, S)
<1> DEFINE P == {s \in SUBSET S :
                   SumFunctionOnSet(H, s) = SumFunctionOnSet(F, s) + SumFunctionOnSet(G, s)}
<1>1. {} \in P
  BY SumEmpty
<1>2. ASSUME NEW s \in SUBSET S, s # {}, \A x \in s : s \ {x} \in P PROVE s \in P
  <2> DEFINE q == Pick(s)
             t == s \ {q}
  <2>1. IsFiniteSet(s) /\ q \in s /\ IsFiniteSet(t) /\ t \in SUBSET S
    BY <1>2, FS_Subset, PickRemoves
  <2>2. /\ SumFunctionOnSet(F, s) = F[q] + SumFunctionOnSet(F, t)
        /\ SumFunctionOnSet(G, s) = G[q] + SumFunctionOnSet(G, t)
        /\ SumFunctionOnSet(H, s) = H[q] + SumFunctionOnSet(H, t)
    BY <1>2, <2>1, SumUnfolds
  <2>3. SumFunctionOnSet(F, t) \in Int /\ SumFunctionOnSet(G, t) \in Int
    BY <2>1, SumType
  <2>4. SumFunctionOnSet(H, t) = SumFunctionOnSet(F, t) + SumFunctionOnSet(G, t)
    BY <1>2, <2>1
  <2>5. SumFunctionOnSet(H, s) = SumFunctionOnSet(F, s) + SumFunctionOnSet(G, s)
    <3> HIDE DEF P, t
    <3> QED  BY <2>1, <2>2, <2>3, <2>4
  <2>6. QED
    BY <2>5
<1> HIDE DEF P
<1>3. S \in P
  BY <1>1, <1>2, SubsetInduction
<1>4. QED
  BY <1>3 DEF P
================================================================================
