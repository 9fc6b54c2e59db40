-------------------------------- MODULE Sums --------------------------------
(***************************************************************************)
(* What the proofs need to know of a sum over a finite set, the form in     *)
(* which the models write an aggregate of the database (SUM(on_hand_delta), *)
(* SUM(qty) of the returns of a line, the cash of a shift).                 *)
(*                                                                         *)
(* The sum of the community modules is a recursive function over the        *)
(* subsets of the set, chosen with CHOOSE.  That such a function exists and *)
(* is unique, and each fact below it, is shown by taking a smallest subset  *)
(* that contradicts it (LeastSubset).                                       *)
(***************************************************************************)
EXTENDS Integers, FiniteSets, FiniteSetsExt, FiniteSetTheorems, WellFoundedInduction, TLAPS

\* The sum of f over S, as the models write it.
SumOf(f, S) == MapThenSumSet(LAMBDA x : f[x], S)

\* The element the recursion takes out of a set.
SumPick(s) == CHOOSE x \in s : TRUE

\* g gives the sum of f over every subset of S.
IsSum(g, f, S) ==
    g = [s \in SUBSET S |->
            IF s = {} THEN 0 ELSE f[SumPick(s)] + g[s \ {SumPick(s)}]]

\* Among subsets of a finite set there is a smallest one.
LEMMA LeastSubset ==
  ASSUME NEW S, IsFiniteSet(S), NEW T, T \subseteq SUBSET S, T # {}
  PROVE  \E x \in T : \A y \in T : y \subseteq x => y = x
  <1>1. IsWellFoundedOn(StrictSubsetOrdering(S), SUBSET S)
    BY FS_StrictSubsetOrderingWellFounded, FS_FiniteSubsetsOfFinite
  <1>2. PICK x \in T : \A y \in T : ~(<<y, x>> \in StrictSubsetOrdering(S))
    BY <1>1, WFMin
  <1>3. \A y \in T : y \subseteq x /\ y # x => <<y, x>> \in StrictSubsetOrdering(S)
    BY DEF StrictSubsetOrdering
  <1>4. ASSUME NEW y \in T, y \subseteq x PROVE y = x
    BY <1>2, <1>3, <1>4
  <1>. QED
    BY <1>4

\* Induction over the subsets of a finite set: T, the set of those a fact holds
\* of, stands for the fact.
LEMMA SubsetInduction ==
  ASSUME NEW S, IsFiniteSet(S), NEW T,
         {} \in T,
         \A s \in SUBSET S, x \in S : x \in s /\ s \ {x} \in T => s \in T
  PROVE  S \in T
  <1> DEFINE U == {s \in SUBSET S : s \notin T}
  <1>1. ASSUME U # {} PROVE FALSE
    <2>1. U \subseteq SUBSET S
      OBVIOUS
    <2> HIDE DEF U
    <2>2. PICK s \in U : \A y \in U : y \subseteq s => y = s
      BY <1>1, <2>1, LeastSubset
    <2>3. s \in SUBSET S /\ s \notin T
      BY <2>2 DEF U
    <2>4. PICK x \in S : x \in s
      BY <2>3
    <2>5. s \ {x} \in SUBSET S /\ s \ {x} \subseteq s /\ s \ {x} # s
      BY <2>3, <2>4
    <2>6. s \ {x} \in T
      BY <2>2, <2>5 DEF U
    <2>. QED
      BY <2>3, <2>4, <2>6
  <1>. QED
    BY <1>1

\* The element taken out of a set is one of its elements.
LEMMA PickedIn ==
  ASSUME NEW s, s # {}
  PROVE  SumPick(s) \in s
  BY DEF SumPick

\* The recursion has at most one solution.
LEMMA SumUnique ==
  ASSUME NEW S, IsFiniteSet(S), NEW f, NEW g, NEW h, IsSum(g, f, S), IsSum(h, f, S)
  PROVE  g = h
  <1> DEFINE T == {s \in SUBSET S : g[s] # h[s]}
  <1>1. \A s \in SUBSET S :
            /\ g[s] = IF s = {} THEN 0 ELSE f[SumPick(s)] + g[s \ {SumPick(s)}]
            /\ h[s] = IF s = {} THEN 0 ELSE f[SumPick(s)] + h[s \ {SumPick(s)}]
    BY DEF IsSum
  <1>2. ASSUME T # {} PROVE FALSE
    <2>1. T \subseteq SUBSET S
      OBVIOUS
    <2> HIDE DEF T
    <2>2. PICK s \in T : \A y \in T : y \subseteq s => y = s
      BY <1>2, <2>1, LeastSubset
    <2>3. s \in SUBSET S /\ g[s] # h[s]
      BY <2>2 DEF T
    <2>4. s # {}
      BY <1>1, <2>3
    <2>5. PICK r : r = s \ {SumPick(s)}
      OBVIOUS
    <2>6. r \in SUBSET S /\ r \subseteq s /\ r # s
      BY <2>3, <2>4, <2>5, PickedIn
    <2>7. g[r] = h[r]
      BY <2>2, <2>6 DEF T
    <2>. QED
      BY <1>1, <2>3, <2>4, <2>5, <2>7
  <1>3. \A s \in SUBSET S : g[s] = h[s]
    BY <1>2
  <1>4. g = [s \in SUBSET S |-> g[s]] /\ h = [s \in SUBSET S |-> h[s]]
    BY DEF IsSum
  <1>. QED
    BY <1>3, <1>4

\* A solution over a set is one over each of its subsets.
LEMMA SumRestricted ==
  ASSUME NEW S, NEW f, NEW g, IsSum(g, f, S), NEW R \in SUBSET S
  PROVE  IsSum([s \in SUBSET R |-> g[s]], f, R)
  <1>1. PICK h : h = [s \in SUBSET R |-> g[s]]
    OBVIOUS
  <1>2. ASSUME NEW s \in SUBSET R
        PROVE  h[s] = IF s = {} THEN 0 ELSE f[SumPick(s)] + h[s \ {SumPick(s)}]
    <2>1. s \in SUBSET S /\ s \ {SumPick(s)} \in SUBSET R
      OBVIOUS
    <2>2. g[s] = IF s = {} THEN 0 ELSE f[SumPick(s)] + g[s \ {SumPick(s)}]
      BY <2>1 DEF IsSum
    <2>. QED
      BY <1>1, <2>1, <2>2
  <1>3. h = [s \in SUBSET R |-> IF s = {} THEN 0 ELSE f[SumPick(s)] + h[s \ {SumPick(s)}]]
    BY <1>1, <1>2
  <1>. QED
    BY <1>1, <1>3 DEF IsSum

\* The value the recursion gives to the whole set.
SumAt(f, s) == (CHOOSE g : IsSum(g, f, s))[s]

\* A solution gives every subset the value that subset has by itself.
LEMMA SumCoherent ==
  ASSUME NEW S, IsFiniteSet(S), NEW f, NEW g, IsSum(g, f, S), NEW R \in SUBSET S
  PROVE  g[R] = SumAt(f, R)
  <1>1. PICK h : h = [s \in SUBSET R |-> g[s]]
    OBVIOUS
  <1>2. IsSum(h, f, R) /\ h[R] = g[R]
    BY <1>1, SumRestricted
  <1>3. IsSum(CHOOSE k : IsSum(k, f, R), f, R)
    BY <1>2
  <1>4. IsFiniteSet(R)
    BY FS_Subset
  <1>5. h = CHOOSE k : IsSum(k, f, R)
    BY <1>2, <1>3, <1>4, SumUnique
  <1>. QED
    BY <1>2, <1>5 DEF SumAt

\* The recursion has a solution.
LEMMA SumExists ==
  ASSUME NEW S, IsFiniteSet(S), NEW f
  PROVE  \E g : IsSum(g, f, S)
  <1> DEFINE T == {s \in SUBSET S : ~\E g : IsSum(g, f, s)}
  <1>1. ASSUME T # {} PROVE FALSE
    <2>1. T \subseteq SUBSET S
      OBVIOUS
    <2> HIDE DEF T
    <2>2. PICK t \in T : \A y \in T : y \subseteq t => y = t
      BY <1>1, <2>1, LeastSubset
    <2>3. t \in SUBSET S /\ ~\E g : IsSum(g, f, t)
      BY <2>2 DEF T
    <2>4. ASSUME NEW u \in SUBSET t, u # t PROVE \E g : IsSum(g, f, u)
      <3>1. u \in SUBSET S
        BY <2>3
      <3>. QED
        BY <2>2, <2>4, <3>1 DEF T
    <2>5. PICK h : h = [s \in SUBSET t |->
                          IF s = {} THEN 0 ELSE f[SumPick(s)] + SumAt(f, s \ {SumPick(s)})]
      OBVIOUS
    <2>6. ASSUME NEW w \in SUBSET t, w # t PROVE h[w] = SumAt(f, w)
      <3>1. PICK g : IsSum(g, f, w)
        BY <2>4, <2>6
      <3>2. IsFiniteSet(w)
        BY <2>3, FS_Subset
      <3>3. \A r \in SUBSET w : g[r] = SumAt(f, r)
        BY <3>1, <3>2, SumCoherent
      <3>4. g[w] = IF w = {} THEN 0 ELSE f[SumPick(w)] + g[w \ {SumPick(w)}]
        BY <3>1 DEF IsSum
      <3>5. h[w] = IF w = {} THEN 0 ELSE f[SumPick(w)] + SumAt(f, w \ {SumPick(w)})
        BY <2>5
      <3>6. g[w] = SumAt(f, w) /\ g[w \ {SumPick(w)}] = SumAt(f, w \ {SumPick(w)})
        BY <3>3
      <3>. QED
        BY <3>4, <3>5, <3>6
    <2>7. ASSUME NEW s \in SUBSET t
          PROVE  h[s] = IF s = {} THEN 0 ELSE f[SumPick(s)] + h[s \ {SumPick(s)}]
      <3>1. CASE s = {}
        BY <2>5, <3>1
      <3>2. CASE s # {}
        <4>1. SumPick(s) \in s
          BY <3>2, PickedIn
        <4>2. PICK w : w = s \ {SumPick(s)}
          OBVIOUS
        <4>3. w \in SUBSET t /\ w # t
          BY <4>1, <4>2
        <4>. QED
          BY <2>5, <2>6, <3>2, <4>2, <4>3
      <3>. QED
        BY <3>1, <3>2
    <2>8. h = [s \in SUBSET t |-> IF s = {} THEN 0 ELSE f[SumPick(s)] + h[s \ {SumPick(s)}]]
      BY <2>5, <2>7
    <2>. QED
      BY <2>3, <2>8 DEF IsSum
  <1>. QED
    BY <1>1

\* The sum satisfies the recursion.
LEMMA SumIs ==
  ASSUME NEW S, IsFiniteSet(S), NEW f
  PROVE  /\ SumOf(f, S) = SumAt(f, S)
         /\ S = {} => SumOf(f, S) = 0
         /\ S # {} => SumOf(f, S) = f[SumPick(S)] + SumOf(f, S \ {SumPick(S)})
  <1>1. \A s : SumOf(f, s) = SumAt(f, s)
    BY DEF SumOf, SumAt, IsSum, SumPick, MapThenSumSet, MapThenFoldSet
  <1>2. PICK g : IsSum(g, f, S)
    BY SumExists
  <1>3. \A r \in SUBSET S : g[r] = SumOf(f, r)
    BY <1>1, <1>2, SumCoherent
  <1>4. g[S] = IF S = {} THEN 0 ELSE f[SumPick(S)] + g[S \ {SumPick(S)}]
    BY <1>2 DEF IsSum
  <1>5. g[S] = SumOf(f, S) /\ g[S \ {SumPick(S)}] = SumOf(f, S \ {SumPick(S)})
    BY <1>3
  <1>. QED
    BY <1>1, <1>4, <1>5

\* A sum of integers is an integer.
LEMMA SumType ==
  ASSUME NEW S, IsFiniteSet(S), NEW f, \A x \in S : f[x] \in Int
  PROVE  SumOf(f, S) \in Int
  <1> DEFINE T == {s \in SUBSET S : SumOf(f, s) \notin Int}
  <1>1. ASSUME T # {} PROVE FALSE
    <2>1. T \subseteq SUBSET S
      OBVIOUS
    <2> HIDE DEF T
    <2>2. PICK s \in T : \A y \in T : y \subseteq s => y = s
      BY <1>1, <2>1, LeastSubset
    <2>3. s \in SUBSET S /\ SumOf(f, s) \notin Int
      BY <2>2 DEF T
    <2>4. IsFiniteSet(s)
      BY <2>3, FS_Subset
    <2>5. s # {}
      <3>1. s = {} => SumOf(f, s) = 0
        BY <2>4, SumIs
      <3>2. 0 \in Int
        OBVIOUS
      <3>. QED
        BY <2>3, <3>1, <3>2
    <2>6. SumPick(s) \in s
      BY <2>5, PickedIn
    <2>7. SumOf(f, s \ {SumPick(s)}) \in Int
      <3>1. s \ {SumPick(s)} \in SUBSET S /\ s \ {SumPick(s)} # s
        BY <2>3, <2>6
      <3>. QED
        BY <2>2, <3>1 DEF T
    <2>8. SumOf(f, s) = f[SumPick(s)] + SumOf(f, s \ {SumPick(s)})
      BY <2>4, <2>5, SumIs
    <2>9. f[SumPick(s)] \in Int
      BY <2>3, <2>6
    <2>. QED
      BY <2>3, <2>7, <2>8, <2>9
  <1>. QED
    BY <1>1

\* Any element may be taken out of a sum, not only the one the recursion takes.
LEMMA SumSplit ==
  ASSUME NEW S, IsFiniteSet(S), NEW f, \A x \in S : f[x] \in Int, NEW x \in S
  PROVE  SumOf(f, S) = f[x] + SumOf(f, S \ {x})
  <1> DEFINE T == {s \in SUBSET S : \E y \in s : SumOf(f, s) # f[y] + SumOf(f, s \ {y})}
  <1>1. ASSUME T # {} PROVE FALSE
    <2>1. T \subseteq SUBSET S
      OBVIOUS
    <2> HIDE DEF T
    <2>2. PICK s \in T : \A r \in T : r \subseteq s => r = s
      BY <1>1, <2>1, LeastSubset
    <2>3. PICK y \in s : s \in SUBSET S /\ SumOf(f, s) # f[y] + SumOf(f, s \ {y})
      BY <2>2 DEF T
    <2>4. PICK p : p = SumPick(s)
      OBVIOUS
    <2>5. p \in s
      BY <2>3, <2>4, PickedIn
    <2>6. IsFiniteSet(s) /\ IsFiniteSet(s \ {y}) /\ IsFiniteSet(s \ {p})
          /\ IsFiniteSet((s \ {p}) \ {y})
      BY <2>3, FS_Subset
    <2>7. SumOf(f, s) = f[p] + SumOf(f, s \ {p})
      BY <2>3, <2>4, <2>6, SumIs
    <2>8. y # p
      BY <2>3, <2>7
    <2>9. SumOf(f, s \ {p}) = f[y] + SumOf(f, (s \ {p}) \ {y})
      <3>1. s \ {p} \in SUBSET S /\ s \ {p} # s /\ y \in s \ {p}
        BY <2>3, <2>5, <2>8
      <3>2. s \ {p} \notin T
        BY <2>2, <3>1
      <3>. QED
        BY <3>1, <3>2 DEF T
    <2>10. SumOf(f, s \ {y}) = f[p] + SumOf(f, (s \ {y}) \ {p})
      <3>1. s \ {y} \in SUBSET S /\ s \ {y} # s /\ p \in s \ {y}
        BY <2>3, <2>5, <2>8
      <3>2. s \ {y} \notin T
        BY <2>2, <3>1
      <3>. QED
        BY <3>1, <3>2 DEF T
    <2>11. (s \ {y}) \ {p} = (s \ {p}) \ {y}
      OBVIOUS
    <2>12. f[p] \in Int /\ f[y] \in Int
      BY <2>3, <2>5
    <2>13. SumOf(f, (s \ {p}) \ {y}) \in Int
      BY <2>3, <2>6, SumType
    <2>14. PICK a, c, d : a = f[p] /\ c = f[y] /\ d = SumOf(f, (s \ {p}) \ {y})
      OBVIOUS
    <2>15. a \in Int /\ c \in Int /\ d \in Int
      BY <2>12, <2>13, <2>14
    <2>16. a + (c + d) = c + (a + d)
      BY <2>15
    <2>17. SumOf(f, s) = a + (c + d)
      BY <2>7, <2>9, <2>14
    <2>18. f[y] + SumOf(f, s \ {y}) = c + (a + d)
      BY <2>10, <2>11, <2>14
    <2>. QED
      BY <2>3, <2>16, <2>17, <2>18
  <1>. QED
    BY <1>1

\* A sum of nothing is zero.
LEMMA SumEmpty ==
  ASSUME NEW f
  PROVE  SumOf(f, {}) = 0
  BY FS_EmptySet, SumIs

\* Functions that agree on a set have the same sum over it.
LEMMA SumSame ==
  ASSUME NEW S, IsFiniteSet(S), NEW f, NEW g,
         \A x \in S : f[x] \in Int /\ f[x] = g[x]
  PROVE  SumOf(f, S) = SumOf(g, S)
  <1> DEFINE T == {s \in SUBSET S : SumOf(f, s) = SumOf(g, s)}
  <1>1. {} \in T
    BY SumEmpty
  <1>2. ASSUME NEW s \in SUBSET S, NEW x \in S, x \in s, s \ {x} \in T
        PROVE  s \in T
    <2>1. IsFiniteSet(s) /\ SumOf(f, s \ {x}) = SumOf(g, s \ {x})
      BY <1>2, FS_Subset
    <2>2. \A y \in s : f[y] \in Int /\ g[y] \in Int
      OBVIOUS
    <2>3. /\ SumOf(f, s) = f[x] + SumOf(f, s \ {x})
          /\ SumOf(g, s) = g[x] + SumOf(g, s \ {x})
      BY <1>2, <2>1, <2>2, SumSplit
    <2>4. SumOf(f, s) = SumOf(g, s)
      BY <2>1, <2>3
    <2>. QED
      BY <2>4
  <1> HIDE DEF T
  <1>3. S \in T
    BY <1>1, <1>2, SubsetInduction
  <1>. QED
    BY <1>3 DEF T

\* A sum of naturals is a natural, and no smaller than any of its terms.
LEMMA SumNonNegative ==
  ASSUME NEW S, IsFiniteSet(S), NEW f, \A x \in S : f[x] \in Nat
  PROVE  SumOf(f, S) \in Nat /\ (\A x \in S : f[x] <= SumOf(f, S))
  <1> DEFINE T == {s \in SUBSET S : SumOf(f, s) \in Nat}
  <1>1. {} \in T
    BY SumEmpty
  <1>2. ASSUME NEW R \in SUBSET S PROVE R \in T
    <2>1. ASSUME NEW s \in SUBSET R, NEW x \in R, x \in s, s \ {x} \in T
          PROVE  s \in T
      <3>1. IsFiniteSet(s) /\ SumOf(f, s \ {x}) \in Nat /\ f[x] \in Nat
        BY <2>1, FS_Subset
      <3>2. \A y \in s : f[y] \in Int
        OBVIOUS
      <3>3. SumOf(f, s) = f[x] + SumOf(f, s \ {x})
        BY <2>1, <3>1, <3>2, SumSplit
      <3>4. SumOf(f, s) \in Nat
        BY <3>1, <3>3
      <3>. QED
        BY <3>4
    <2>2. IsFiniteSet(R)
      BY FS_Subset
    <2> HIDE DEF T
    <2>. QED
      BY <1>1, <2>1, <2>2, SubsetInduction
  <1>3. ASSUME NEW x \in S PROVE f[x] <= SumOf(f, S)
    <2>1. SumOf(f, S) = f[x] + SumOf(f, S \ {x})
      BY SumSplit
    <2>2. SumOf(f, S \ {x}) \in Nat /\ f[x] \in Nat
      BY <1>2
    <2>. QED
      BY <2>1, <2>2
  <1>. QED
    BY <1>2, <1>3

\* The sum of a constant is the size of the set times the constant.
LEMMA SumConstant ==
  ASSUME NEW S, IsFiniteSet(S), NEW f, NEW c \in Int, \A x \in S : f[x] = c
  PROVE  SumOf(f, S) = Cardinality(S) * c
  <1> DEFINE T == {s \in SUBSET S : SumOf(f, s) = Cardinality(s) * c}
  <1>1. {} \in T
    BY SumEmpty, FS_EmptySet
  <1>2. ASSUME NEW s \in SUBSET S, NEW x \in S, x \in s, s \ {x} \in T
        PROVE  s \in T
    <2>1. IsFiniteSet(s) /\ SumOf(f, s \ {x}) = Cardinality(s \ {x}) * c
      BY <1>2, FS_Subset
    <2>2. \A y \in s : f[y] \in Int
      OBVIOUS
    <2>3. SumOf(f, s) = c + SumOf(f, s \ {x})
      BY <1>2, <2>1, <2>2, SumSplit
    <2>4. Cardinality(s \ {x}) = Cardinality(s) - 1 /\ Cardinality(s) \in Nat
      BY <1>2, <2>1, FS_RemoveElement, FS_CardinalityType
    <2>5. c + (Cardinality(s) - 1) * c = Cardinality(s) * c
      BY <2>4
    <2>6. SumOf(f, s) = Cardinality(s) * c
      BY <2>1, <2>3, <2>4, <2>5
    <2>. QED
      BY <2>6
  <1> HIDE DEF T
  <1>3. S \in T
    BY <1>1, <1>2, SubsetInduction
  <1>. QED
    BY <1>3 DEF T

\* A sum of zeros is zero.
LEMMA SumZero ==
  ASSUME NEW S, IsFiniteSet(S), NEW f, \A x \in S : f[x] = 0
  PROVE  SumOf(f, S) = 0
  <1>1. SumOf(f, S) = Cardinality(S) * 0
    BY SumConstant
  <1>2. Cardinality(S) \in Nat
    BY FS_CardinalityType
  <1>. QED
    BY <1>1, <1>2

\* The sum of two functions.
LEMMA SumPlus ==
  ASSUME NEW S, IsFiniteSet(S), NEW f, NEW g, NEW h,
         \A x \in S : f[x] \in Int /\ g[x] \in Int /\ h[x] = f[x] + g[x]
  PROVE  SumOf(h, S) = SumOf(f, S) + SumOf(g, S)
  <1> DEFINE T == {s \in SUBSET S : SumOf(h, s) = SumOf(f, s) + SumOf(g, s)}
  <1>1. {} \in T
    BY SumEmpty
  <1>2. ASSUME NEW s \in SUBSET S, NEW x \in S, x \in s, s \ {x} \in T
        PROVE  s \in T
    <2>1. /\ IsFiniteSet(s) /\ IsFiniteSet(s \ {x})
          /\ SumOf(h, s \ {x}) = SumOf(f, s \ {x}) + SumOf(g, s \ {x})
      BY <1>2, FS_Subset
    <2>2. \A y \in s : f[y] \in Int /\ g[y] \in Int /\ h[y] \in Int
      OBVIOUS
    <2>3. /\ SumOf(f, s) = f[x] + SumOf(f, s \ {x})
          /\ SumOf(g, s) = g[x] + SumOf(g, s \ {x})
          /\ SumOf(h, s) = h[x] + SumOf(h, s \ {x})
      BY <1>2, <2>1, <2>2, SumSplit
    <2>4. SumOf(f, s \ {x}) \in Int /\ SumOf(g, s \ {x}) \in Int
      BY <2>1, <2>2, SumType
    <2>5. h[x] = f[x] + g[x] /\ f[x] \in Int /\ g[x] \in Int
      OBVIOUS
    <2>6. SumOf(h, s) = SumOf(f, s) + SumOf(g, s)
      BY <2>1, <2>3, <2>4, <2>5
    <2>. QED
      BY <2>6
  <1> HIDE DEF T
  <1>3. S \in T
    BY <1>1, <1>2, SubsetInduction
  <1>. QED
    BY <1>3 DEF T

\* A factor that all terms share.
LEMMA SumTimes ==
  ASSUME NEW S, IsFiniteSet(S), NEW f, NEW g, NEW c \in Int,
         \A x \in S : f[x] \in Int /\ g[x] = c * f[x]
  PROVE  SumOf(g, S) = c * SumOf(f, S)
  <1> DEFINE T == {s \in SUBSET S : SumOf(g, s) = c * SumOf(f, s)}
  <1>1. {} \in T
    BY SumEmpty
  <1>2. ASSUME NEW s \in SUBSET S, NEW x \in S, x \in s, s \ {x} \in T
        PROVE  s \in T
    <2>1. /\ IsFiniteSet(s) /\ IsFiniteSet(s \ {x})
          /\ SumOf(g, s \ {x}) = c * SumOf(f, s \ {x})
      BY <1>2, FS_Subset
    <2>2. \A y \in s : f[y] \in Int /\ g[y] \in Int
      OBVIOUS
    <2>3. /\ SumOf(f, s) = f[x] + SumOf(f, s \ {x})
          /\ SumOf(g, s) = g[x] + SumOf(g, s \ {x})
      BY <1>2, <2>1, <2>2, SumSplit
    <2>4. SumOf(f, s \ {x}) \in Int
      BY <2>1, <2>2, SumType
    <2>5. PICK a, b : a = f[x] /\ b = SumOf(f, s \ {x})
      OBVIOUS
    <2>6. a \in Int /\ b \in Int
      BY <2>4, <2>5
    <2>7. c * a + c * b = c * (a + b)
      BY <2>6
    <2>8. SumOf(g, s) = c * a + c * b /\ SumOf(f, s) = a + b
      BY <2>1, <2>3, <2>5
    <2>9. SumOf(g, s) = c * SumOf(f, s)
      BY <2>7, <2>8
    <2>. QED
      BY <2>9
  <1> HIDE DEF T
  <1>3. S \in T
    BY <1>1, <1>2, SubsetInduction
  <1>. QED
    BY <1>3 DEF T

\* A sum is at most the number of its nonzero terms times a bound on them.
LEMMA SumBounded ==
  ASSUME NEW S, IsFiniteSet(S), NEW f, NEW m \in Nat,
         \A x \in S : f[x] \in Nat /\ f[x] <= m
  PROVE  SumOf(f, S) <= m * Cardinality({x \in S : f[x] # 0})
  <1> DEFINE N(s) == {x \in s : f[x] # 0}
             T == {s \in SUBSET S : SumOf(f, s) <= m * Cardinality(N(s))}
  <1>1. {} \in T
    <2>1. N({}) = {}
      OBVIOUS
    <2>2. Cardinality(N({})) = 0
      BY <2>1, FS_EmptySet
    <2>3. SumOf(f, {}) <= m * Cardinality(N({}))
      BY <2>2, SumEmpty
    <2>. QED
      BY <2>3
  <1>2. ASSUME NEW s \in SUBSET S, NEW x \in S, x \in s, s \ {x} \in T
        PROVE  s \in T
    <2>1. /\ IsFiniteSet(s) /\ IsFiniteSet(s \ {x}) /\ IsFiniteSet(N(s)) /\ IsFiniteSet(N(s \ {x}))
          /\ SumOf(f, s \ {x}) <= m * Cardinality(N(s \ {x}))
      BY <1>2, FS_Subset
    <2>2. \A y \in s : f[y] \in Nat /\ f[y] \in Int
      OBVIOUS
    <2>3. SumOf(f, s) = f[x] + SumOf(f, s \ {x})
      BY <1>2, <2>1, <2>2, SumSplit
    <2>4. SumOf(f, s \ {x}) \in Nat
      BY <2>1, <2>2, SumNonNegative
    <2>5. Cardinality(N(s)) \in Nat /\ Cardinality(N(s \ {x})) \in Nat
      BY <2>1, FS_CardinalityType
    <2>6. CASE f[x] = 0
      <3>1. N(s) = N(s \ {x})
        BY <2>6
      <3>2. SumOf(f, s) = SumOf(f, s \ {x})
        BY <2>3, <2>4, <2>6
      <3>3. SumOf(f, s) <= m * Cardinality(N(s))
        BY <2>1, <3>1, <3>2
      <3>. QED
        BY <3>3
    <2>7. CASE f[x] # 0
      <3>1. N(s \ {x}) = N(s) \ {x} /\ x \in N(s)
        BY <1>2, <2>7
      <3>2. Cardinality(N(s \ {x})) = Cardinality(N(s)) - 1
        <4>1. PICK A, B : A = N(s) /\ B = N(s \ {x})
          OBVIOUS
        <4>2. IsFiniteSet(A) /\ x \in A /\ B = A \ {x}
          BY <2>1, <3>1, <4>1
        <4>3. Cardinality(B) = Cardinality(A) - 1
          BY <4>2, FS_RemoveElement
        <4>. QED
          BY <4>1, <4>3
      <3>3. PICK a, b, n : a = f[x] /\ b = SumOf(f, s \ {x}) /\ n = Cardinality(N(s))
        OBVIOUS
      <3>4. a \in Nat /\ a <= m /\ b \in Nat /\ n \in Nat /\ b <= m * (n - 1)
        BY <2>1, <2>4, <2>5, <3>2, <3>3
      <3>5. m * (n - 1) + m = m * n
        BY <3>4
      <3>6. a + b <= m * n
        BY <3>4, <3>5
      <3>7. SumOf(f, s) <= m * Cardinality(N(s))
        BY <2>3, <3>3, <3>6
      <3>. QED
        BY <3>7
    <2>. QED
      BY <2>6, <2>7
  <1> HIDE DEF T
  <1>3. S \in T
    BY <1>1, <1>2, SubsetInduction
  <1>. QED
    BY <1>3 DEF T

\* A sum of zeros and ones counts the ones.
LEMMA SumCounts ==
  ASSUME NEW S, IsFiniteSet(S), NEW f, \A x \in S : f[x] \in {0, 1}
  PROVE  SumOf(f, S) = Cardinality({x \in S : f[x] = 1})
  <1> DEFINE N(s) == {x \in s : f[x] = 1}
             T == {s \in SUBSET S : SumOf(f, s) = Cardinality(N(s))}
  <1>1. {} \in T
    <2>1. N({}) = {}
      OBVIOUS
    <2>. QED
      BY <2>1, FS_EmptySet, SumEmpty
  <1>2. ASSUME NEW s \in SUBSET S, NEW x \in S, x \in s, s \ {x} \in T
        PROVE  s \in T
    <2>1. /\ IsFiniteSet(s) /\ IsFiniteSet(s \ {x}) /\ IsFiniteSet(N(s)) /\ IsFiniteSet(N(s \ {x}))
          /\ SumOf(f, s \ {x}) = Cardinality(N(s \ {x}))
      BY <1>2, FS_Subset
    <2>2. \A y \in s : f[y] \in Int
      OBVIOUS
    <2>3. SumOf(f, s) = f[x] + SumOf(f, s \ {x})
      BY <1>2, <2>1, <2>2, SumSplit
    <2>4. Cardinality(N(s)) \in Nat
      BY <2>1, FS_CardinalityType
    <2>5. CASE f[x] = 0
      <3>1. N(s) = N(s \ {x})
        BY <2>5
      <3>2. SumOf(f, s) = Cardinality(N(s))
        BY <2>1, <2>3, <2>4, <2>5, <3>1
      <3>. QED
        BY <3>2
    <2>6. CASE f[x] = 1
      <3>1. N(s \ {x}) = N(s) \ {x} /\ x \in N(s)
        BY <1>2, <2>6
      <3>2. Cardinality(N(s \ {x})) = Cardinality(N(s)) - 1
        BY ZenonT(30), <2>1, <3>1, FS_RemoveElement
      <3>3. SumOf(f, s) = Cardinality(N(s))
        BY <2>1, <2>3, <2>4, <2>6, <3>2
      <3>. QED
        BY <3>3
    <2>. QED
      BY <2>5, <2>6
  <1> HIDE DEF T
  <1>3. S \in T
    BY <1>1, <1>2, SubsetInduction
  <1>. QED
    BY <1>3 DEF T

\* Terms within half of m add up to no more than that for each of them.
LEMMA SumHalves ==
  ASSUME NEW S, IsFiniteSet(S), NEW f, NEW m \in Nat,
         \A x \in S : f[x] \in Int /\ 2 * f[x] <= m /\ -m <= 2 * f[x]
  PROVE  /\ 2 * SumOf(f, S) <= Cardinality(S) * m
         /\ -(Cardinality(S) * m) <= 2 * SumOf(f, S)
  <1> DEFINE T == {s \in SUBSET S : /\ 2 * SumOf(f, s) <= Cardinality(s) * m
                                    /\ -(Cardinality(s) * m) <= 2 * SumOf(f, s)}
  <1>1. {} \in T
    <2>1. SumOf(f, {}) = 0 /\ Cardinality({}) = 0
      BY SumEmpty, FS_EmptySet
    <2>2. 0 * m = 0
      OBVIOUS
    <2>. QED
      BY <2>1, <2>2
  <1>2. ASSUME NEW s \in SUBSET S, NEW x \in S, x \in s, s \ {x} \in T
        PROVE  s \in T
    <2>1. IsFiniteSet(s) /\ IsFiniteSet(s \ {x})
      BY FS_Subset
    <2>2. \A y \in s : f[y] \in Int
      OBVIOUS
    <2>3. SumOf(f, s) = f[x] + SumOf(f, s \ {x})
      BY <1>2, <2>1, <2>2, SumSplit
    <2>4. PICK t \in Int : t = SumOf(f, s \ {x})
      BY <2>1, <2>2, SumType
    <2>5. PICK k \in Nat : k = Cardinality(s \ {x})
      BY <2>1, FS_CardinalityType
    <2>6. Cardinality(s) = k + 1
      <3>1. Cardinality(s \ {x}) = Cardinality(s) - 1 /\ Cardinality(s) \in Nat
        BY <1>2, <2>1, FS_RemoveElement, FS_CardinalityType
      <3>. QED
        BY <2>5, <3>1
    <2>7. PICK c \in Int : c = k * m
      OBVIOUS
    <2>8. (k + 1) * m = c + m
      BY <2>7
    <2>9. 2 * t <= c /\ -c <= 2 * t
      BY <1>2, <2>4, <2>5, <2>7
    <2>10. PICK a \in Int : a = f[x] /\ 2 * a <= m /\ -m <= 2 * a
      OBVIOUS
    <2>11. 2 * (a + t) <= c + m /\ -(c + m) <= 2 * (a + t)
      BY <2>9, <2>10
    <2>12. SumOf(f, s) = a + t /\ Cardinality(s) * m = c + m
      BY <2>3, <2>4, <2>6, <2>8, <2>10
    <2>13. 2 * SumOf(f, s) <= Cardinality(s) * m /\ -(Cardinality(s) * m) <= 2 * SumOf(f, s)
      BY <2>11, <2>12
    <2>. QED
      BY <2>13
  <1> HIDE DEF T
  <1>3. S \in T
    BY <1>1, <1>2, SubsetInduction
  <1>. QED
    BY <1>3 DEF T

\* When a function changes at one element, its sum changes by that change.
LEMMA SumChange ==
  ASSUME NEW S, IsFiniteSet(S), NEW f, NEW g, NEW x \in S,
         \A y \in S : f[y] \in Int /\ g[y] \in Int,
         \A y \in S \ {x} : f[y] = g[y]
  PROVE  SumOf(g, S) = SumOf(f, S) + g[x] - f[x]
  <1>1. SumOf(f, S) = f[x] + SumOf(f, S \ {x}) /\ SumOf(g, S) = g[x] + SumOf(g, S \ {x})
    BY SumSplit
  <1>2. IsFiniteSet(S \ {x})
    BY FS_Subset
  <1>3. SumOf(f, S \ {x}) = SumOf(g, S \ {x})
    BY <1>2, SumSame
  <1>4. SumOf(f, S \ {x}) \in Int
    BY <1>2, SumType
  <1>. QED
    BY <1>1, <1>3, <1>4

\* When a function changes at two elements, its sum changes by both changes.
LEMMA SumChangeTwo ==
  ASSUME NEW S, IsFiniteSet(S), NEW f, NEW g, NEW x \in S, NEW y \in S \ {x},
         \A z \in S : f[z] \in Int /\ g[z] \in Int,
         \A z \in S \ {x, y} : f[z] = g[z]
  PROVE  SumOf(g, S) = SumOf(f, S) + (g[x] - f[x]) + (g[y] - f[y])
  <1>1. PICK h : h = [z \in S |-> IF z = x THEN g[z] ELSE f[z]]
    OBVIOUS
  <1>2. /\ \A z \in S : h[z] \in Int
        /\ \A z \in S \ {x} : f[z] = h[z]
        /\ \A z \in S \ {y} : h[z] = g[z]
        /\ h[x] = g[x] /\ h[y] = f[y]
    BY <1>1
  <1>3. SumOf(h, S) = SumOf(f, S) + h[x] - f[x]
    BY <1>2, SumChange
  <1>4. SumOf(g, S) = SumOf(h, S) + g[y] - h[y]
    BY <1>2, SumChange
  <1>5. SumOf(f, S) \in Int /\ SumOf(h, S) \in Int
    BY <1>2, SumType
  <1>6. f[x] \in Int /\ g[x] \in Int /\ f[y] \in Int /\ g[y] \in Int
    OBVIOUS
  <1>. QED
    BY <1>2, <1>3, <1>4, <1>5, <1>6

\* In a finite set ordered by "is before", as many elements have fewer than k
\* others before them as k says.
LEMMA RankedBelow ==
  ASSUME NEW D, IsFiniteSet(D), NEW B,
         \A v \in D : B[v] \in SUBSET (D \ {v}),
         \A v \in D : \A w \in B[v] : B[w] \subseteq B[v],
         \A v \in D, w \in D : v = w \/ v \in B[w] \/ w \in B[v],
         NEW k \in Nat, k <= Cardinality(D)
  PROVE  Cardinality({v \in D : Cardinality(B[v]) < k}) = k
  <1>1. PICK n : n = Cardinality(D)
    OBVIOUS
  <1>2. n \in Nat
    BY <1>1, FS_CardinalityType
  <1>3. \A v \in D : IsFiniteSet(B[v]) /\ Cardinality(B[v]) \in Nat
    BY FS_Subset, FS_CardinalityType
  <1>4. ASSUME NEW v \in D PROVE Cardinality(B[v]) < n
    <2>1. B[v] \subseteq D /\ B[v] # D
      OBVIOUS
    <2>2. Cardinality(B[v]) <= n /\ Cardinality(B[v]) # n
      BY <1>1, <2>1, FS_Subset
    <2>. QED
      BY <1>2, <1>3, <2>2
  <1>5. ASSUME NEW v \in D, NEW w \in B[v] PROVE Cardinality(B[w]) < Cardinality(B[v])
    <2>1. w \in D /\ B[w] \subseteq B[v] /\ B[w] # B[v] /\ IsFiniteSet(B[v])
      BY <1>3
    <2>2. Cardinality(B[w]) <= Cardinality(B[v]) /\ Cardinality(B[w]) # Cardinality(B[v])
      BY <2>1, FS_Subset
    <2>. QED
      BY <1>3, <2>1, <2>2
  <1>6. PICK rank : rank = [v \in D |-> Cardinality(B[v])]
    OBVIOUS
  <1>7. rank \in [D -> 0 .. n - 1]
    BY <1>2, <1>3, <1>4, <1>6
  <1>8. \A v \in D, w \in D : rank[v] = rank[w] => v = w
    <2>1. ASSUME NEW v \in D, NEW w \in D, rank[v] = rank[w], v # w PROVE FALSE
      <3>1. rank[v] = Cardinality(B[v]) /\ rank[w] = Cardinality(B[w])
        BY <1>6
      <3>2. v \in B[w] \/ w \in B[v]
        BY <2>1
      <3>3. Cardinality(B[v]) < Cardinality(B[w]) \/ Cardinality(B[w]) < Cardinality(B[v])
        BY <1>5, <3>2
      <3>4. Cardinality(B[v]) \in Nat /\ Cardinality(B[w]) \in Nat
        BY <1>3
      <3>5. Cardinality(B[v]) = Cardinality(B[w])
        BY <2>1, <3>1
      <3>. QED
        BY <3>3, <3>4, <3>5
    <2>. QED
      BY <2>1
  <1>9. rank \in Injection(D, 0 .. n - 1)
    BY <1>7, <1>8 DEF Injection, IsInjective
  <1>10. IsFiniteSet(0 .. n - 1) /\ Cardinality(0 .. n - 1) = n
    <2>1. 0 \in Int /\ n - 1 \in Int
      BY <1>2
    <2>2. /\ IsFiniteSet(0 .. n - 1)
          /\ Cardinality(0 .. n - 1) = IF 0 > n - 1 THEN 0 ELSE (n - 1) - 0 + 1
      BY <2>1, FS_Interval
    <2>. QED
      BY <1>2, <2>2
  <1>11. \A r \in 0 .. n - 1 : \E v \in D : rank[v] = r
    <2>1. rank \in Surjection(D, 0 .. n - 1)
      BY <1>1, <1>9, <1>10, FS_Injection
    <2>. QED
      BY <2>1 DEF Surjection
  <1>12. PICK A : A = {v \in D : Cardinality(B[v]) < k}
    OBVIOUS
  <1>13. A \subseteq D /\ IsFiniteSet(A) /\ \A v \in D : v \in A <=> rank[v] < k
    BY <1>6, <1>12, FS_Subset
  <1>14. PICK f : f = [v \in A |-> rank[v]]
    OBVIOUS
  <1>15. f \in [A -> 0 .. k - 1]
    <2>1. ASSUME NEW v \in A PROVE rank[v] \in 0 .. k - 1
      <3>1. rank[v] \in 0 .. n - 1 /\ rank[v] < k
        BY <1>7, <1>13
      <3>. QED
        BY <1>2, <3>1
    <2>. QED
      BY <1>14, <2>1
  <1>16. f \in Injection(A, 0 .. k - 1)
    BY <1>8, <1>13, <1>14, <1>15 DEF Injection, IsInjective
  <1>17. f \in Surjection(A, 0 .. k - 1)
    <2>1. ASSUME NEW r \in 0 .. k - 1 PROVE \E v \in A : f[v] = r
      <3>1. r \in 0 .. n - 1 /\ r < k
        BY <1>1, <1>2
      <3>2. PICK v \in D : rank[v] = r
        BY <1>11, <3>1
      <3>. QED
        BY <1>13, <1>14, <3>1, <3>2
    <2>. QED
      BY <1>15, <2>1 DEF Surjection
  <1>18. Cardinality(0 .. k - 1) = Cardinality(A)
    <2>1. f \in Bijection(A, 0 .. k - 1)
      BY <1>16, <1>17 DEF Bijection
    <2>2. ExistsBijection(A, 0 .. k - 1)
      BY <2>1 DEF ExistsBijection
    <2>. QED
      BY <1>13, <2>2, FS_Bijection
  <1>19. Cardinality(0 .. k - 1) = k
    <2>1. 0 \in Int /\ k - 1 \in Int
      OBVIOUS
    <2>2. Cardinality(0 .. k - 1) = IF 0 > k - 1 THEN 0 ELSE (k - 1) - 0 + 1
      BY <2>1, FS_Interval
    <2>. QED
      BY <2>2
  <1>. QED
    BY <1>12, <1>18, <1>19

\* Quotient and remainder of naturals.
LEMMA DivMod ==
  ASSUME NEW a \in Nat, NEW b \in Nat \ {0}
  PROVE  \E q \in Nat, r \in Nat :
            q = a \div b /\ r = a % b /\ r < b /\ a = b * q + r
<1>1. PICK q, r : q = a \div b /\ r = a % b
  OBVIOUS
<1>2. q \in Int /\ r \in Int /\ 0 <= r /\ r < b
  BY <1>1
<1>3. a = b * q + r
  BY <1>1, <1>2
<1>4. ~(q < 0)
  <2>1. ASSUME q < 0 PROVE b * q <= -b
    BY <1>2, <2>1
  <2> QED
    BY <1>2, <1>3, <2>1
<1>5. q \in Nat /\ r \in Nat
  BY <1>2, <1>4
<1> QED
  BY <1>1, <1>2, <1>3, <1>5

(***************************************************************************)
(* Amounts shared out: a receipt's discount over its lines, the price of a    *)
(* bundle over its items.                                                  *)
(***************************************************************************)

\* The lines served before each line: a larger remainder, or a smaller variant.
ServedBefore(D, rest) ==
    [v \in D |-> {w \in D : rest[w] > rest[v] \/ (rest[w] = rest[v] /\ w < v)}]

\* Each line's share of the discount, rounded down, and its remainder.
Apportioned(D, gross, subtotal, discount, share, rest) ==
    /\ share \in [D -> Nat] /\ rest \in [D -> Nat]
    /\ \A v \in D : /\ rest[v] < subtotal
                    /\ discount * gross[v] = subtotal * share[v] + rest[v]

\* The cents left over go to the first `left' lines.
Served(D, share, rest, left) ==
    [v \in D |-> share[v]
        + IF Cardinality(ServedBefore(D, rest)[v]) < left THEN 1 ELSE 0]

\* What a discount over lines has to be: every line its part to within a cent, no
\* line more than it costs, and the lines together all of it.
Fair(D, gross, subtotal, discount, a) ==
    /\ a \in [D -> Nat]
    /\ \A v \in D : /\ a[v] <= gross[v]
                    /\ a[v] * subtotal - discount * gross[v] < subtotal
                    /\ discount * gross[v] - a[v] * subtotal < subtotal
    /\ SumOf(a, D) = discount

\* What the shares leave over is what their remainders add up to.
LEMMA RemaindersAddUp ==
  ASSUME NEW D, IsFiniteSet(D), NEW gross \in [D -> Nat], NEW subtotal \in Nat,
         NEW discount \in Nat, NEW share, NEW rest,
         Apportioned(D, gross, subtotal, discount, share, rest)
  PROVE  subtotal = SumOf(gross, D)
           => subtotal * (discount - SumOf(share, D)) = SumOf(rest, D)
  <1>0. /\ share \in [D -> Nat] /\ rest \in [D -> Nat]
        /\ \A v \in D : discount * gross[v] = subtotal * share[v] + rest[v]
    BY DEF Apportioned
  <1>1. PICK h, g : h = [v \in D |-> discount * gross[v]]
                 /\ g = [v \in D |-> subtotal * share[v]]
    OBVIOUS
  <1>2. SumOf(h, D) = discount * SumOf(gross, D)
    <2>1. (\A v \in D : gross[v] \in Int /\ h[v] = discount * gross[v]) /\ discount \in Int
      BY <1>1
    <2>. QED
      BY <2>1, SumTimes
  <1>3. SumOf(g, D) = subtotal * SumOf(share, D)
    <2>1. (\A v \in D : share[v] \in Int /\ g[v] = subtotal * share[v]) /\ subtotal \in Int
      BY <1>0, <1>1
    <2>. QED
      BY <2>1, SumTimes
  <1>4. SumOf(h, D) = SumOf(g, D) + SumOf(rest, D)
    <2>1. \A v \in D : g[v] \in Int /\ rest[v] \in Int /\ h[v] = g[v] + rest[v]
      <3> SUFFICES ASSUME NEW v \in D
                   PROVE  g[v] \in Int /\ rest[v] \in Int /\ h[v] = g[v] + rest[v]
        OBVIOUS
      <3>1. g[v] = subtotal * share[v] /\ h[v] = discount * gross[v]
        BY <1>1
      <3>2. subtotal * share[v] \in Int /\ rest[v] \in Int
        BY <1>0
      <3>. QED
        BY <1>0, <3>1, <3>2
    <2>. QED
      BY <2>1, SumPlus
  <1>5. SumOf(share, D) \in Nat /\ SumOf(rest, D) \in Nat
    BY <1>0, SumNonNegative
  <1>6. ASSUME NEW x, NEW y, x = SumOf(share, D), y = SumOf(rest, D), subtotal = SumOf(gross, D)
        PROVE  subtotal * (discount - x) = y
    <2>1. x \in Nat /\ y \in Nat /\ discount * subtotal = subtotal * x + y
      BY <1>2, <1>3, <1>4, <1>5, <1>6
    <2>2. subtotal * (discount - x) = subtotal * discount - subtotal * x
      BY <2>1
    <2>. QED
      BY <2>1, <2>2
  <1>. QED
    BY <1>6

\* The largest remainders, whatever the shares are of.
LEMMA LargestRemainders ==
  ASSUME NEW D, IsFiniteSet(D), D \subseteq Nat, NEW gross \in [D -> Nat],
         NEW subtotal \in Nat \ {0}, subtotal = SumOf(gross, D),
         NEW discount \in Nat, discount <= subtotal, NEW share, NEW rest,
         Apportioned(D, gross, subtotal, discount, share, rest)
  PROVE  Fair(D, gross, subtotal, discount,
              Served(D, share, rest, discount - SumOf(share, D)))
  <1>1. /\ share \in [D -> Nat] /\ rest \in [D -> Nat]
        /\ \A v \in D : rest[v] < subtotal
                        /\ discount * gross[v] = subtotal * share[v] + rest[v]
    BY DEF Apportioned
  <1>2. PICK a, B, left : /\ left = discount - SumOf(share, D)
                          /\ B = ServedBefore(D, rest)
                          /\ a = Served(D, share, rest, left)
    OBVIOUS
  <1>21. SumOf(share, D) \in Nat /\ SumOf(rest, D) \in Nat /\ left \in Int
    <2>1. SumOf(share, D) \in Nat /\ SumOf(rest, D) \in Nat
      BY <1>1, SumNonNegative
    <2>. QED
      BY <1>2, <2>1
  <1>3. \A v \in D : B[v] = {w \in D : rest[w] > rest[v] \/ (rest[w] = rest[v] /\ w < v)}
    BY <1>2 DEF ServedBefore
  <1>4. a = [v \in D |-> share[v] + IF Cardinality(B[v]) < left THEN 1 ELSE 0]
    BY <1>2 DEF Served
  <1>5. PICK R : R = {v \in D : rest[v] # 0}
    OBVIOUS
  <1>6. IsFiniteSet(R) /\ Cardinality(R) \in Nat /\ R \subseteq D
    BY <1>5, FS_Subset, FS_CardinalityType
  <1>7. subtotal * left = SumOf(rest, D)
    <2>1. subtotal \in Nat
      OBVIOUS
    <2>2. subtotal = SumOf(gross, D) => subtotal * (discount - SumOf(share, D)) = SumOf(rest, D)
      BY ZenonT(30), <2>1, RemaindersAddUp
    <2>. QED
      BY <1>2, <2>2
  <1>8. left \in Nat
    <2>1. ASSUME left < 0 PROVE subtotal * left < 0
      BY <1>21, <2>1
    <2>. QED
      BY <1>7, <1>21, <2>1
  <1>9. left <= Cardinality(R)
    <2>1. PICK m \in Nat : m = subtotal - 1
      OBVIOUS
    <2>2. \A v \in D : rest[v] \in Nat /\ rest[v] <= m
      BY <1>1, <2>1
    <2>3. SumOf(rest, D) <= m * Cardinality(R)
      BY <1>5, <2>2, SumBounded
    <2>4. PICK n \in Nat : n = Cardinality(R)
      BY <1>6
    <2>5. subtotal * left <= m * n
      BY <1>7, <2>3, <2>4
    <2>6. ASSUME left >= n + 1 PROVE FALSE
      <3>1. subtotal * left >= subtotal * (n + 1)
        BY <1>8, <2>4, <2>6
      <3>2. subtotal * (n + 1) = m * n + n + subtotal
        BY <2>1
      <3>. QED
        BY <1>7, <1>8, <2>1, <2>4, <2>5, <3>1, <3>2
    <2>. QED
      BY <1>8, <2>4, <2>6
  <1>10. \A v \in D : IsFiniteSet(B[v]) /\ Cardinality(B[v]) \in Nat
    BY <1>3, FS_Subset, FS_CardinalityType
  <1>11. ASSUME NEW v \in D, Cardinality(B[v]) < left PROVE rest[v] > 0
    <2>1. ASSUME rest[v] = 0 PROVE FALSE
      <3>1. R \subseteq B[v]
        <4> SUFFICES ASSUME NEW w \in R PROVE w \in B[v]
          OBVIOUS
        <4>1. w \in D /\ rest[w] # 0 /\ rest[w] \in Nat
          BY <1>1, <1>5
        <4>2. rest[w] > rest[v]
          BY <2>1, <4>1
        <4>. QED
          BY <1>3, <4>1, <4>2
      <3>2. Cardinality(R) <= Cardinality(B[v])
        BY <1>10, <3>1, FS_Subset
      <3>. QED
        BY <1>6, <1>8, <1>9, <1>10, <1>11, <3>2
    <2>. QED
      BY <1>1, <2>1
  <1>12. a \in [D -> Nat]
    BY <1>1, <1>4
  <1>13. ASSUME NEW v \in D
         PROVE  /\ a[v] <= gross[v]
                /\ a[v] * subtotal - discount * gross[v] < subtotal
                /\ discount * gross[v] - a[v] * subtotal < subtotal
    <2>1. PICK s \in Nat, r \in Nat, g \in Nat, n \in Nat :
             /\ s = share[v] /\ r = rest[v] /\ g = gross[v] /\ n = a[v]
      BY <1>1, <1>12
    <2>2. r < subtotal /\ discount * g = subtotal * s + r
      BY <1>1, <2>1
    <2>3. PICK x, y : x = discount * g /\ y = subtotal * s
      OBVIOUS
    <2>31. x \in Nat /\ y \in Nat
      BY <2>3
    <2>4. x = y + r /\ x <= subtotal * g
      <3>1. discount * g <= subtotal * g
        OBVIOUS
      <3>. QED
        BY <2>2, <2>3, <3>1
    <2>5. CASE Cardinality(B[v]) < left
      <3>1. n = s + 1 /\ r > 0
        BY <1>4, <1>11, <2>1, <2>5
      <3>2. n * subtotal = y + subtotal
        BY <2>3, <3>1
      <3>3. n <= g
        <4>1. ASSUME g <= s PROVE subtotal * g <= subtotal * s
          BY <4>1
        <4>. QED
          BY <2>3, <2>31, <2>4, <3>1, <4>1
      <3>4. n * subtotal - x < subtotal /\ x - n * subtotal < subtotal
        BY <2>2, <2>31, <2>4, <3>1, <3>2
      <3>. QED
        BY <2>1, <2>3, <3>3, <3>4
    <2>6. CASE ~(Cardinality(B[v]) < left)
      <3>1. n = s
        BY <1>4, <2>1, <2>6
      <3>2. n * subtotal = y
        BY <2>3, <3>1
      <3>3. n <= g
        <4>1. ASSUME g + 1 <= s PROVE subtotal * (g + 1) <= subtotal * s
          BY <4>1
        <4>2. subtotal * (g + 1) = subtotal * g + subtotal
          OBVIOUS
        <4>. QED
          BY <2>3, <2>31, <2>4, <3>1, <4>1, <4>2
      <3>4. n * subtotal - x < subtotal /\ x - n * subtotal < subtotal
        BY <2>2, <2>31, <2>4, <3>1, <3>2
      <3>. QED
        BY <2>1, <2>3, <3>3, <3>4
    <2>. QED
      BY <2>5, <2>6
  <1>14. SumOf(a, D) = discount
    <2>1. PICK ones : ones = [v \in D |-> IF Cardinality(B[v]) < left THEN 1 ELSE 0]
      OBVIOUS
    <2>2. (\A v \in D : share[v] \in Int /\ ones[v] \in Int /\ a[v] = share[v] + ones[v])
          /\ \A v \in D : ones[v] \in {0, 1}
      BY <1>1, <1>4, <2>1
    <2>3. SumOf(a, D) = SumOf(share, D) + SumOf(ones, D)
      BY ZenonT(30), <2>2, SumPlus
    <2>4. SumOf(ones, D) = Cardinality({v \in D : ones[v] = 1})
      BY ZenonT(30), <2>2, SumCounts
    <2>5. {v \in D : ones[v] = 1} = {v \in D : Cardinality(B[v]) < left}
      BY <2>1
    <2>6. Cardinality({v \in D : Cardinality(B[v]) < left}) = left
      <3>1. \A v \in D : B[v] \in SUBSET (D \ {v})
        <4> SUFFICES ASSUME NEW v \in D, NEW w \in B[v] PROVE w \in D /\ w # v
          OBVIOUS
        <4>1. rest[v] \in Nat /\ v \in Nat
          BY <1>1
        <4>. QED
          BY <1>3, <4>1
      <3>2. \A v \in D : \A w \in B[v] : B[w] \subseteq B[v]
        <4> SUFFICES ASSUME NEW v \in D, NEW w \in B[v], NEW u \in B[w] PROVE u \in B[v]
          OBVIOUS
        <4>1. w \in D /\ u \in D
          BY <1>3
        <4>2. rest[w] > rest[v] \/ (rest[w] = rest[v] /\ w < v)
          BY <1>3
        <4>3. rest[u] > rest[w] \/ (rest[u] = rest[w] /\ u < w)
          BY <1>3, <4>1
        <4>4. rest[u] \in Nat /\ rest[v] \in Nat /\ rest[w] \in Nat /\ u \in Nat /\ v \in Nat /\ w \in Nat
          BY <1>1, <4>1
        <4>5. rest[u] > rest[v] \/ (rest[u] = rest[v] /\ u < v)
          BY <4>2, <4>3, <4>4
        <4>. QED
          BY <1>3, <4>1, <4>5
      <3>3. \A v \in D, w \in D : v = w \/ v \in B[w] \/ w \in B[v]
        <4> SUFFICES ASSUME NEW v \in D, NEW w \in D, v # w PROVE v \in B[w] \/ w \in B[v]
          OBVIOUS
        <4>1. rest[v] \in Nat /\ rest[w] \in Nat /\ v \in Nat /\ w \in Nat
          BY <1>1
        <4>2. \/ rest[v] > rest[w] \/ (rest[v] = rest[w] /\ v < w)
              \/ rest[w] > rest[v] \/ (rest[w] = rest[v] /\ w < v)
          BY <4>1
        <4>. QED
          BY <1>3, <4>2
      <3>4. left <= Cardinality(D)
        <4>1. Cardinality(R) <= Cardinality(D) /\ Cardinality(D) \in Nat
          BY <1>6, FS_Subset, FS_CardinalityType
        <4>. QED
          BY <1>6, <1>8, <1>9, <4>1
      <3>. QED
        BY <1>8, <3>1, <3>2, <3>3, <3>4, RankedBelow
    <2>. QED
      BY <1>2, <1>21, <2>3, <2>4, <2>5, <2>6
  <1>. QED
    BY <1>2, <1>12, <1>13, <1>14 DEF Fair

\* The error of part c of a price shared over all, own being its share.
Off(c, all, price, own) == c * all - price * own

\* The errors of all shares add up to what is missing of the price.
Balanced(e, c, s, D, all, price) == SumOf(e, D) = all * SumOf(c, D) - price * SumOf(s, D)

\* They do, whatever all is.
LEMMA ErrorsAddUp ==
  ASSUME NEW D, IsFiniteSet(D), NEW s \in [D -> Nat], NEW c \in [D -> Nat], NEW e,
         NEW price \in Nat, NEW all \in Int,
         \A i \in D : e[i] = Off(c[i], all, price, s[i])
  PROVE  Balanced(e, c, s, D, all, price)
  <1>1. PICK u : u = [i \in D |-> all * c[i]]
    OBVIOUS
  <1>2. PICK m \in Int : m = -price
    OBVIOUS
  <1>3. PICK w : w = [i \in D |-> m * s[i]]
    OBVIOUS
  <1>4. /\ \A i \in D : c[i] \in Int /\ u[i] = all * c[i]
        /\ \A i \in D : s[i] \in Int /\ w[i] = m * s[i]
    BY <1>1, <1>3
  <1>5. SumOf(u, D) = all * SumOf(c, D)
    BY <1>4, SumTimes
  <1>6. SumOf(w, D) = m * SumOf(s, D)
    BY <1>4, SumTimes
  <1>7. \A i \in D : u[i] \in Int /\ w[i] \in Int /\ e[i] = u[i] + w[i]
    <2>1. ASSUME NEW i \in D PROVE u[i] \in Int /\ w[i] \in Int /\ e[i] = u[i] + w[i]
      <3>1. PICK a \in Int, b \in Int : a = c[i] /\ b = s[i]
        BY <1>4
      <3>2. u[i] = all * a /\ w[i] = m * b
        BY <1>4, <3>1
      <3>3. e[i] = a * all - price * b
        BY <3>1 DEF Off
      <3>4. a * all = all * a /\ m * b = -(price * b) /\ all * a \in Int /\ price * b \in Int
        BY <1>2
      <3>. QED
        <4>1. PICK y \in Int, z \in Int : y = all * a /\ z = price * b
          BY <3>4
        <4>2. u[i] = y /\ w[i] = -z /\ e[i] = y - z
          BY <3>2, <3>3, <3>4, <4>1
        <4>. QED
          BY <4>2
    <2>. QED
      BY <2>1
  <1>8. SumOf(e, D) = SumOf(u, D) + SumOf(w, D)
    BY <1>7, SumPlus
  <1>9. SumOf(c, D) \in Int
    BY <1>4, SumType
  <1>10. PICK t \in Int : t = SumOf(s, D)
    BY <1>4, SumType
  <1>11. m * t = -(price * t) /\ price * t \in Int
    BY <1>2
  <1>12. PICK x \in Int : x = all * SumOf(c, D)
    BY <1>9
  <1>13. SumOf(e, D) = x + -(price * t)
    BY <1>5, <1>6, <1>8, <1>10, <1>11, <1>12
  <1>14. SumOf(e, D) = x - price * t
    BY <1>11, <1>13
  <1>. QED
    BY <1>10, <1>12, <1>14 DEF Balanced

\* One term taken out of a sum.
TakenOut(f, D, x) == SumOf(f, D) = f[x] + SumOf(f, D \ {x})

\* SumSplit in that form.
LEMMA SumTakesOut ==
  ASSUME NEW D, IsFiniteSet(D), NEW f, \A i \in D : f[i] \in Int, NEW x \in D
  PROVE  TakenOut(f, D, x)
  BY SumSplit DEF TakenOut

\* A set of positions that is not empty has a first one, and Min finds it.
LEMMA FirstPosition ==
  ASSUME NEW n \in Nat, NEW I \in SUBSET (1 .. n), I # {}
  PROVE  Min(I) \in I /\ \A y \in I : Min(I) <= y
  <1> DEFINE T == {1 .. i : i \in I}
  <1>1. PICK S : S = 1 .. n
    OBVIOUS
  <1>2. IsFiniteSet(S)
    BY <1>1, FS_Interval
  <1>3. PICK s \in T : \A y \in T : y \subseteq s => y = s
    <2>1. \A i \in I : 1 .. i \subseteq S
      BY <1>1
    <2>2. T \subseteq SUBSET S /\ T # {}
      BY <2>1
    <2> HIDE DEF T
    <2>. QED
      BY <1>2, <2>2, LeastSubset
  <1>4. PICK x \in I : s = 1 .. x
    BY <1>3
  <1>5. ASSUME NEW y \in I PROVE x <= y
    <2>1. x \in Nat \ {0} /\ y \in Nat \ {0}
      OBVIOUS
    <2>2. ASSUME y < x PROVE FALSE
      <3>1. 1 .. y \in T
        OBVIOUS
      <3>2. 1 .. y \subseteq 1 .. x
        BY <2>1, <2>2
      <3>3. 1 .. y = 1 .. x
        BY <1>3, <1>4, <3>1, <3>2
      <3>4. x \in 1 .. x /\ x \notin 1 .. y
        BY <2>1, <2>2
      <3>. QED
        BY <3>3, <3>4
    <2>. QED
      BY <2>1, <2>2
  <1>. QED
    BY <1>5 DEF Min

=============================================================================
