-------------------------------- MODULE SumProofs --------------------------------
(***************************************************************************)
(* Sums over finite sets, as SumFunction and MapThenSumSet take them, and  *)
(* counting by rank: what the proofs about money need.                     *)
(*                                                                         *)
(* Induction over a finite set goes by a least counterexample: a set of    *)
(* subsets that is not empty has a member no other is below.               *)
(***************************************************************************)
EXTENDS Integers, FiniteSets, Functions, FiniteSetTheorems, TLAPS

\* The sum of f over S.
Sum(f, S) == SumFunctionOnSet(f, S)

Picked(s) == CHOOSE x \in s : TRUE

\* iter is the partial sums of f over the sets in D.
PartialSums(iter, f, D) ==
  iter = [s \in D |-> IF s = {} THEN 0 ELSE f[Picked(s)] + iter[s \ {Picked(s)}]]

---------------------------------------------------------------------------------
(* Induction.                                                              *)

\* A set of subsets of a finite set, if it has any, has a minimal one.
LEMMA MinimalSubset ==
  ASSUME NEW S, IsFiniteSet(S), NEW Bad \in SUBSET SUBSET S, Bad # {}
  PROVE  \E T \in Bad : /\ IsFiniteSet(T)
                        /\ \A U \in SUBSET T : U # T => U \notin Bad
<1>1. IsWellFoundedOn(StrictSubsetOrdering(S), FiniteSubsetsOf(S))
  BY FS_StrictSubsetOrderingWellFounded
<1>2. Bad \subseteq FiniteSubsetsOf(S)
  BY FS_FiniteSubsetsOfFinite
<1>3. PICK T \in Bad : \A U \in Bad : <<U, T>> \notin StrictSubsetOrdering(S)
  BY <1>1, <1>2, WFMin
<1>4. IsFiniteSet(T)
  BY FS_Subset
<1>5. ASSUME NEW U \in SUBSET T, U # T, U \in Bad
      PROVE  FALSE
  BY <1>3, <1>5 DEF StrictSubsetOrdering
<1> QED
  BY <1>4, <1>5

\* Induction over a finite set, element by element.
LEMMA SubsetInduction ==
  ASSUME NEW S, IsFiniteSet(S), NEW Good, {} \in Good,
         \A T \in SUBSET S, x \in S : T \in Good /\ x \notin T => T \cup {x} \in Good
  PROVE  S \in Good
<1> SUFFICES ASSUME S \notin Good PROVE FALSE
  OBVIOUS
<1>1. PICK Bad : Bad = {T \in SUBSET S : T \notin Good}
  OBVIOUS
<1>2. PICK T \in Bad : \A U \in SUBSET T : U # T => U \notin Bad
  BY <1>1, MinimalSubset
<1>3. PICK x \in T : TRUE
  BY <1>1, <1>2
<1>4. T \ {x} \in Good
  BY <1>1, <1>2, <1>3
<1>5. (T \ {x}) \cup {x} = T
  BY <1>3
<1> QED
  BY <1>1, <1>3, <1>4, <1>5

\* Induction over the naturals.
LEMMA NaturalInduction ==
  ASSUME NEW Good, 0 \in Good, \A n \in Nat : n \in Good => n + 1 \in Good
  PROVE  Nat \subseteq Good
<1> SUFFICES ASSUME NEW n \in Nat, n \notin Good PROVE FALSE
  OBVIOUS
<1>1. PICK Bad : Bad = {m \in Nat : m \notin Good}
  OBVIOUS
<1>2. PICK m \in Bad : \A k \in Bad : <<k, m>> \notin OpToRel(<, Nat)
  BY <1>1, NatLessThanWellFounded, WFMin
<1>3. \A k \in Bad : ~(k < m)
  BY <1>1, <1>2 DEF OpToRel
<1>4. m # 0 /\ m \in Nat
  BY <1>1
<1>5. m - 1 \in Nat /\ m - 1 < m /\ (m - 1) + 1 = m
  BY <1>4
<1>6. m - 1 \in Good
  BY <1>1, <1>3, <1>5
<1> QED
  BY <1>1, <1>5, <1>6

---------------------------------------------------------------------------------
(* The recursion behind the sums.                                          *)

LEMMA PartialSumsExist ==
  ASSUME NEW f, NEW S, IsFiniteSet(S)
  PROVE  \E iter : PartialSums(iter, f, SUBSET S)
<1> DEFINE D(n) == {s \in SUBSET S : Cardinality(s) <= n}
<1>1. \A s \in SUBSET S : IsFiniteSet(s) /\ Cardinality(s) \in Nat
  BY FS_Subset, FS_CardinalityType
<1>2. PICK Good : Good = {n \in Nat : \E iter : PartialSums(iter, f, D(n))}
  OBVIOUS
<1>3. 0 \in Good
  <2>1. \A s \in D(0) : s = {}
    BY <1>1, FS_EmptySet
  <2>2. PartialSums([s \in D(0) |-> 0], f, D(0))
    BY <2>1 DEF PartialSums
  <2> QED
    BY <1>2, <2>2
<1>4. ASSUME NEW n \in Nat, n \in Good
      PROVE  n + 1 \in Good
  <2>1. PICK iter : PartialSums(iter, f, D(n))
    BY <1>2, <1>4
  <2>2. PICK next : next = [s \in D(n + 1) |->
           IF s = {} THEN 0 ELSE f[Picked(s)] + iter[s \ {Picked(s)}]]
    OBVIOUS
  <2>3. ASSUME NEW s \in D(n + 1), s # {}
        PROVE  next[s \ {Picked(s)}] = iter[s \ {Picked(s)}]
    <3>1. Picked(s) \in s
      BY <2>3 DEF Picked
    <3>2. PICK t : t = s \ {Picked(s)}
      OBVIOUS
    <3>3. Cardinality(t) = Cardinality(s) - 1
      BY <1>1, <3>1, <3>2, FS_RemoveElement
    <3>4. t \in D(n) /\ t \in D(n + 1)
      BY <1>1, <3>2, <3>3
    <3>5. iter[t] = IF t = {} THEN 0 ELSE f[Picked(t)] + iter[t \ {Picked(t)}]
      BY <2>1, <3>4 DEF PartialSums
    <3>6. next[t] = IF t = {} THEN 0 ELSE f[Picked(t)] + iter[t \ {Picked(t)}]
      BY <2>2, <3>4
    <3> QED
      BY <3>2, <3>5, <3>6
  <2>4. PartialSums(next, f, D(n + 1))
    BY <2>2, <2>3 DEF PartialSums
  <2>5. n + 1 \in Nat
    OBVIOUS
  <2>6. PICK m : m = n + 1
    OBVIOUS
  <2>7. PartialSums(next, f, D(m))
    BY <2>4, <2>6
  <2> QED
    BY <1>2, <2>5, <2>6, <2>7
<1>5. Cardinality(S) \in Good
  BY <1>1, <1>3, <1>4, NaturalInduction
<1>6. D(Cardinality(S)) = SUBSET S
  BY FS_Subset
<1> QED
  BY <1>2, <1>5, <1>6

\* Two lists of partial sums agree where both have an entry.
LEMMA PartialSumsUnique ==
  ASSUME NEW f, NEW g, NEW S, IsFiniteSet(S), \A x \in S : f[x] = g[x],
         NEW A, NEW B, SUBSET S \subseteq A, SUBSET S \subseteq B,
         NEW one, PartialSums(one, f, A), NEW two, PartialSums(two, g, B)
  PROVE  one[S] = two[S]
<1> SUFFICES ASSUME one[S] # two[S] PROVE FALSE
  OBVIOUS
<1>1. PICK Bad : Bad = {T \in SUBSET S : one[T] # two[T]}
  OBVIOUS
<1>2. PICK T \in Bad : \A U \in SUBSET T : U # T => U \notin Bad
  BY <1>1, MinimalSubset
<1>3. /\ one[T] = IF T = {} THEN 0 ELSE f[Picked(T)] + one[T \ {Picked(T)}]
      /\ two[T] = IF T = {} THEN 0 ELSE g[Picked(T)] + two[T \ {Picked(T)}]
  BY <1>1 DEF PartialSums
<1>4. T # {} /\ Picked(T) \in T
  BY <1>1, <1>3 DEF Picked
<1>5. one[T \ {Picked(T)}] = two[T \ {Picked(T)}]
  BY <1>1, <1>2, <1>4
<1>6. f[Picked(T)] = g[Picked(T)]
  BY <1>1, <1>4
<1> QED
  BY <1>1, <1>3, <1>4, <1>5, <1>6

\* The sum is the last of the partial sums.
LEMMA SumIs ==
  ASSUME NEW f, NEW S, IsFiniteSet(S),
         NEW A, SUBSET S \subseteq A, NEW iter, PartialSums(iter, f, A)
  PROVE  Sum(f, S) = iter[S]
<1>1. PICK own : PartialSums(own, f, SUBSET S)
  BY PartialSumsExist
<1>2. PICK taken : taken = CHOOSE i : PartialSums(i, f, SUBSET S)
  OBVIOUS
<1>3. PartialSums(taken, f, SUBSET S)
  BY <1>1, <1>2
<1>4. Sum(f, S) = taken[S]
  BY <1>2 DEF Sum, SumFunctionOnSet, FoldFunctionOnSet, MapThenFoldSet, PartialSums, Picked
<1> QED
  BY <1>3, <1>4, PartialSumsUnique

LEMMA SumEmpty ==
  ASSUME NEW f
  PROVE  Sum(f, {}) = 0
<1>1. IsFiniteSet({})
  BY FS_EmptySet
<1>2. PICK iter : PartialSums(iter, f, SUBSET {})
  BY <1>1, PartialSumsExist
<1>3. Sum(f, {}) = iter[{}]
  BY <1>1, <1>2, SumIs
<1> QED
  BY <1>2, <1>3 DEF PartialSums

\* A sum is one of its terms and the sum of the others.
LEMMA SumUnfold ==
  ASSUME NEW f, NEW S, IsFiniteSet(S), S # {}
  PROVE  \E x \in S : Sum(f, S) = f[x] + Sum(f, S \ {x})
<1>1. PICK iter : PartialSums(iter, f, SUBSET S)
  BY PartialSumsExist
<1>2. PICK x : x = Picked(S)
  OBVIOUS
<1>3. x \in S
  BY <1>2 DEF Picked
<1>4. PICK T : T = S \ {x}
  OBVIOUS
<1>5. IsFiniteSet(T) /\ SUBSET T \subseteq SUBSET S
  BY <1>4, FS_Subset
<1>6. Sum(f, S) = iter[S] /\ Sum(f, T) = iter[T]
  BY <1>1, <1>5, SumIs
<1>7. iter[S] = f[x] + iter[T]
  BY <1>1, <1>2, <1>3, <1>4 DEF PartialSums
<1> QED
  BY <1>3, <1>4, <1>6, <1>7

\* A sum depends on the terms only.
LEMMA SumSame ==
  ASSUME NEW f, NEW g, NEW S, IsFiniteSet(S), \A x \in S : f[x] = g[x]
  PROVE  Sum(f, S) = Sum(g, S)
<1>1. PICK one : PartialSums(one, f, SUBSET S)
  BY PartialSumsExist
<1>2. PICK two : PartialSums(two, g, SUBSET S)
  BY PartialSumsExist
<1>3. Sum(f, S) = one[S] /\ Sum(g, S) = two[S]
  BY <1>1, <1>2, SumIs
<1>4. one[S] = two[S]
  BY <1>1, <1>2, PartialSumsUnique
<1> QED
  BY <1>3, <1>4

LEMMA SumInt ==
  ASSUME NEW f, NEW S, IsFiniteSet(S), \A x \in S : f[x] \in Int
  PROVE  Sum(f, S) \in Int
<1> SUFFICES ASSUME Sum(f, S) \notin Int PROVE FALSE
  OBVIOUS
<1>1. PICK Bad : Bad = {T \in SUBSET S : Sum(f, T) \notin Int}
  OBVIOUS
<1>2. PICK T \in Bad : IsFiniteSet(T) /\ \A U \in SUBSET T : U # T => U \notin Bad
  BY <1>1, MinimalSubset
<1>3. T # {}
  <2>1. Sum(f, {}) = 0
    BY SumEmpty
  <2>2. Sum(f, {}) \in Int
    BY <2>1
  <2>3. Sum(f, T) \notin Int
    BY <1>1
  <2> QED
    BY <2>2, <2>3
<1>4. PICK x \in T : Sum(f, T) = f[x] + Sum(f, T \ {x})
  BY <1>2, <1>3, SumUnfold
<1>5. Sum(f, T \ {x}) \in Int
  BY <1>1, <1>2, <1>4
<1> QED
  BY <1>1, <1>4, <1>5

\* It does not matter which term is taken out.
LEMMA SumPick ==
  ASSUME NEW f, NEW S, IsFiniteSet(S), \A x \in S : f[x] \in Int, NEW x \in S
  PROVE  Sum(f, S) = f[x] + Sum(f, S \ {x})
<1> DEFINE Out(T) == \A z \in T : Sum(f, T) = f[z] + Sum(f, T \ {z})
<1> SUFFICES ASSUME ~Out(S) PROVE FALSE
  OBVIOUS
<1>1. PICK Bad : Bad = {T \in SUBSET S : ~Out(T)}
  OBVIOUS
<1>2. PICK T \in Bad : IsFiniteSet(T) /\ \A U \in SUBSET T : U # T => U \notin Bad
  <2> HIDE DEF Out
  <2>1. Bad \in SUBSET SUBSET S /\ Bad # {}
    BY <1>1
  <2> QED
    BY <2>1, MinimalSubset
<1>3. PICK z \in T : Sum(f, T) # f[z] + Sum(f, T \ {z})
  BY <1>1
<1>4. PICK y \in T : Sum(f, T) = f[y] + Sum(f, T \ {y})
  BY <1>2, <1>3, SumUnfold
<1>5. y # z
  BY <1>3, <1>4
<1>6. /\ Out(T \ {y}) /\ Out(T \ {z})
      /\ z \in T \ {y} /\ y \in T \ {z}
  BY <1>1, <1>2, <1>3, <1>4, <1>5
<1>7. PICK U : U = (T \ {y}) \ {z}
  OBVIOUS
<1>8. U = (T \ {z}) \ {y}
  BY <1>7
<1>9. Sum(f, T \ {y}) = f[z] + Sum(f, U) /\ Sum(f, T \ {z}) = f[y] + Sum(f, U)
  BY <1>6, <1>7, <1>8
<1>10. f[y] \in Int /\ f[z] \in Int
  BY <1>1, <1>3, <1>4
<1>11. Sum(f, U) \in Int
  <2>1. IsFiniteSet(U) /\ U \subseteq S
    BY <1>1, <1>2, <1>7, FS_Subset
  <2> QED
    BY <2>1, SumInt
<1> QED
  BY <1>3, <1>4, <1>9, <1>10, <1>11

LEMMA SumAdd ==
  ASSUME NEW f, NEW S, IsFiniteSet(S), NEW x, x \notin S,
         \A y \in S \cup {x} : f[y] \in Int
  PROVE  Sum(f, S \cup {x}) = f[x] + Sum(f, S)
<1>1. IsFiniteSet(S \cup {x}) /\ x \in S \cup {x}
  BY FS_AddElement
<1>2. (S \cup {x}) \ {x} = S
  OBVIOUS
<1>3. Sum(f, S \cup {x}) = f[x] + Sum(f, (S \cup {x}) \ {x})
  BY <1>1, SumPick
<1> QED
  BY <1>2, <1>3

---------------------------------------------------------------------------------
(* Sums of whole numbers.                                                  *)

\* One step of an induction over the set.
LEMMA SumStep ==
  ASSUME NEW f, NEW S, IsFiniteSet(S), \A x \in S : f[x] \in Int,
         NEW T \in SUBSET S, NEW x \in S, x \notin T
  PROVE  /\ Sum(f, T) \in Int
         /\ f[x] \in Int
         /\ Sum(f, T \cup {x}) = f[x] + Sum(f, T)
<1>1. IsFiniteSet(T)
  BY FS_Subset
<1>2. \A y \in T \cup {x} : f[y] \in Int
  OBVIOUS
<1>3. Sum(f, T) \in Int
  BY <1>1, SumInt
<1>4. Sum(f, T \cup {x}) = f[x] + Sum(f, T)
  BY <1>1, <1>2, SumAdd
<1> QED
  BY <1>3, <1>4

LEMMA SumPlus ==
  ASSUME NEW f, NEW g, NEW h, NEW S, IsFiniteSet(S),
         \A x \in S : f[x] \in Int /\ g[x] \in Int /\ h[x] = f[x] + g[x]
  PROVE  Sum(h, S) = Sum(f, S) + Sum(g, S)
<1>1. PICK Good : Good = {T \in SUBSET S : Sum(h, T) = Sum(f, T) + Sum(g, T)}
  OBVIOUS
<1>2. {} \in Good
  <2>1. Sum(h, {}) = 0 /\ Sum(f, {}) = 0 /\ Sum(g, {}) = 0
    BY SumEmpty
  <2> QED
    BY <1>1, <2>1
<1>3. ASSUME NEW T \in SUBSET S, NEW x \in S, T \in Good, x \notin T
      PROVE  T \cup {x} \in Good
  <2>1. \A y \in S : f[y] \in Int /\ g[y] \in Int /\ h[y] \in Int
    OBVIOUS
  <2>2. /\ Sum(f, T) \in Int /\ f[x] \in Int /\ Sum(f, T \cup {x}) = f[x] + Sum(f, T)
        /\ Sum(g, T) \in Int /\ g[x] \in Int /\ Sum(g, T \cup {x}) = g[x] + Sum(g, T)
        /\ Sum(h, T) \in Int /\ h[x] \in Int /\ Sum(h, T \cup {x}) = h[x] + Sum(h, T)
    BY <1>3, <2>1, SumStep
  <2>3. Sum(h, T) = Sum(f, T) + Sum(g, T) /\ h[x] = f[x] + g[x]
    BY <1>1, <1>3
  <2>4. Sum(h, T \cup {x}) = Sum(f, T \cup {x}) + Sum(g, T \cup {x})
    BY <2>2, <2>3
  <2> QED
    BY <1>1, <1>3, <2>4
<1>4. S \in Good
  BY <1>2, <1>3, SubsetInduction
<1> QED
  BY <1>1, <1>4

LEMMA Distributes ==
  ASSUME NEW c \in Int, NEW a \in Int, NEW b \in Int
  PROVE  c * (a + b) = c * a + c * b
OBVIOUS

LEMMA SumScale ==
  ASSUME NEW f, NEW g, NEW S, IsFiniteSet(S), NEW c \in Int,
         \A x \in S : f[x] \in Int /\ g[x] = c * f[x]
  PROVE  Sum(g, S) = c * Sum(f, S)
<1>1. PICK Good : Good = {T \in SUBSET S : Sum(g, T) = c * Sum(f, T)}
  OBVIOUS
<1>2. {} \in Good
  <2>1. Sum(f, {}) = 0 /\ Sum(g, {}) = 0
    BY SumEmpty
  <2> QED
    BY <1>1, <2>1
<1>3. ASSUME NEW T \in SUBSET S, NEW x \in S, T \in Good, x \notin T
      PROVE  T \cup {x} \in Good
  <2>1. \A y \in S : f[y] \in Int /\ g[y] \in Int
    OBVIOUS
  <2>2. /\ Sum(f, T) \in Int /\ f[x] \in Int /\ Sum(f, T \cup {x}) = f[x] + Sum(f, T)
        /\ Sum(g, T \cup {x}) = g[x] + Sum(g, T)
    BY <1>3, <2>1, SumStep
  <2>3. Sum(g, T) = c * Sum(f, T) /\ g[x] = c * f[x]
    BY <1>1, <1>3
  <2>4. c * (f[x] + Sum(f, T)) = c * f[x] + c * Sum(f, T)
    BY <2>2, Distributes
  <2>5. Sum(g, T \cup {x}) = c * Sum(f, T \cup {x})
    BY <2>2, <2>3, <2>4
  <2> QED
    BY <1>1, <1>3, <2>5
<1>4. S \in Good
  BY <1>2, <1>3, SubsetInduction
<1> QED
  BY <1>1, <1>4

LEMMA SumMonotone ==
  ASSUME NEW f, NEW g, NEW S, IsFiniteSet(S),
         \A x \in S : f[x] \in Int /\ g[x] \in Int /\ f[x] <= g[x]
  PROVE  Sum(f, S) <= Sum(g, S)
<1>1. PICK Good : Good = {T \in SUBSET S : Sum(f, T) <= Sum(g, T)}
  OBVIOUS
<1>2. {} \in Good
  <2>1. Sum(f, {}) = 0 /\ Sum(g, {}) = 0
    BY SumEmpty
  <2> QED
    BY <1>1, <2>1
<1>3. ASSUME NEW T \in SUBSET S, NEW x \in S, T \in Good, x \notin T
      PROVE  T \cup {x} \in Good
  <2>1. /\ Sum(f, T) \in Int /\ f[x] \in Int /\ Sum(f, T \cup {x}) = f[x] + Sum(f, T)
        /\ Sum(g, T) \in Int /\ g[x] \in Int /\ Sum(g, T \cup {x}) = g[x] + Sum(g, T)
    BY <1>3, SumStep
  <2>2. Sum(f, T) <= Sum(g, T) /\ f[x] <= g[x]
    BY <1>1, <1>3
  <2>3. Sum(f, T \cup {x}) <= Sum(g, T \cup {x})
    BY <2>1, <2>2
  <2> QED
    BY <1>1, <1>3, <2>3
<1>4. S \in Good
  BY <1>2, <1>3, SubsetInduction
<1> QED
  BY <1>1, <1>4

\* The same number for everybody.
LEMMA SumConstant ==
  ASSUME NEW f, NEW S, IsFiniteSet(S), NEW c \in Int, \A x \in S : f[x] = c
  PROVE  Sum(f, S) = c * Cardinality(S)
<1>1. PICK Good : Good = {T \in SUBSET S : Sum(f, T) = c * Cardinality(T)}
  OBVIOUS
<1>2. {} \in Good
  <2>1. Sum(f, {}) = 0 /\ Cardinality({}) = 0
    BY SumEmpty, FS_EmptySet
  <2>2. c * 0 = 0
    OBVIOUS
  <2> QED
    BY <1>1, <2>1, <2>2
<1>3. ASSUME NEW T \in SUBSET S, NEW x \in S, T \in Good, x \notin T
      PROVE  T \cup {x} \in Good
  <2>1. \A y \in S : f[y] \in Int
    OBVIOUS
  <2>2. /\ Sum(f, T) \in Int /\ f[x] \in Int /\ Sum(f, T \cup {x}) = f[x] + Sum(f, T)
    BY <1>3, <2>1, SumStep
  <2>3. PICK n \in Nat : n = Cardinality(T) /\ Cardinality(T \cup {x}) = n + 1
    BY <1>3, FS_Subset, FS_CardinalityType, FS_AddElement
  <2>4. Sum(f, T) = c * n /\ f[x] = c
    BY <1>1, <1>3, <2>3
  <2>5. c * (n + 1) = c * n + c
    BY Distributes
  <2>6. Sum(f, T \cup {x}) = c * Cardinality(T \cup {x})
    BY <2>2, <2>3, <2>4, <2>5
  <2> QED
    BY <1>1, <1>3, <2>6
<1>4. S \in Good
  BY <1>2, <1>3, SubsetInduction
<1> QED
  BY <1>1, <1>4

LEMMA SumZero ==
  ASSUME NEW f, NEW S, IsFiniteSet(S), \A x \in S : f[x] = 0
  PROVE  Sum(f, S) = 0
<1>1. Sum(f, S) = 0 * Cardinality(S) /\ Cardinality(S) \in Nat
  BY SumConstant, FS_CardinalityType
<1> QED
  BY <1>1

LEMMA SumNat ==
  ASSUME NEW f, NEW S, IsFiniteSet(S), \A x \in S : f[x] \in Nat
  PROVE  Sum(f, S) \in Nat
<1>1. PICK g : g = [x \in S |-> 0]
  OBVIOUS
<1>2. Sum(g, S) = 0
  BY <1>1, SumZero
<1>3. Sum(g, S) <= Sum(f, S)
  BY <1>1, SumMonotone
<1>4. Sum(f, S) \in Int
  BY SumInt
<1> QED
  BY <1>2, <1>3, <1>4

\* A sum over two sets that have nothing in common.
LEMMA SumDisjoint ==
  ASSUME NEW f, NEW S, NEW T, IsFiniteSet(S), IsFiniteSet(T), S \cap T = {},
         \A x \in S \cup T : f[x] \in Int
  PROVE  Sum(f, S \cup T) = Sum(f, S) + Sum(f, T)
<1>1. PICK Good : Good = {U \in SUBSET T : Sum(f, S \cup U) = Sum(f, S) + Sum(f, U)}
  OBVIOUS
<1>2. Sum(f, S) \in Int
  BY SumInt
<1>3. {} \in Good
  <2>1. Sum(f, {}) = 0 /\ S \cup {} = S
    BY SumEmpty
  <2> QED
    BY <1>1, <1>2, <2>1
<1>4. ASSUME NEW U \in SUBSET T, NEW x \in T, U \in Good, x \notin U
      PROVE  U \cup {x} \in Good
  <2>1. Sum(f, U) \in Int /\ f[x] \in Int /\ Sum(f, U \cup {x}) = f[x] + Sum(f, U)
    BY <1>4, SumStep
  <2>2. IsFiniteSet(S \cup T) /\ S \cup U \in SUBSET (S \cup T) /\ x \in S \cup T /\ x \notin S \cup U
    BY <1>4, FS_Union
  <2>3. Sum(f, S \cup U) \in Int /\ Sum(f, (S \cup U) \cup {x}) = f[x] + Sum(f, S \cup U)
    BY <2>2, SumStep
  <2>4. Sum(f, S \cup (U \cup {x})) = Sum(f, (S \cup U) \cup {x})
    <3>1. (S \cup U) \cup {x} = S \cup (U \cup {x})
      OBVIOUS
    <3> QED
      BY <3>1, Zenon
  <2>5. Sum(f, S \cup U) = Sum(f, S) + Sum(f, U)
    BY <1>1, <1>4
  <2>6. Sum(f, S \cup (U \cup {x})) = Sum(f, S) + Sum(f, U \cup {x})
    BY <1>2, <2>1, <2>3, <2>4, <2>5
  <2> QED
    BY <1>1, <1>4, <2>6
<1>5. T \in Good
  BY <1>3, <1>4, SubsetInduction
<1> QED
  BY <1>1, <1>5

\* No term is more than the sum, if none is negative.
LEMMA SumBoundsTerm ==
  ASSUME NEW f, NEW S, IsFiniteSet(S), \A x \in S : f[x] \in Nat, NEW x \in S
  PROVE  f[x] <= Sum(f, S)
<1>1. Sum(f, S) = f[x] + Sum(f, S \ {x})
  BY SumPick
<1>2. Sum(f, S \ {x}) \in Nat
  BY FS_RemoveElement, SumNat
<1> QED
  BY <1>1, <1>2

\* The terms that are zero do not count.
LEMMA SumDropsZeros ==
  ASSUME NEW f, NEW S, IsFiniteSet(S), NEW T \in SUBSET S,
         \A x \in S : f[x] \in Int, \A x \in S \ T : f[x] = 0
  PROVE  Sum(f, S) = Sum(f, T)
<1>1. PICK U : U = S \ T
  OBVIOUS
<1>2. IsFiniteSet(T) /\ IsFiniteSet(U) /\ T \cap U = {} /\ T \cup U = S
  BY <1>1, FS_Subset
<1>3. Sum(f, T \cup U) = Sum(f, T) + Sum(f, U)
  BY <1>2, SumDisjoint
<1>4. Sum(f, U) = 0
  BY <1>1, <1>2, SumZero
<1>5. Sum(f, T) \in Int
  BY <1>2, SumInt
<1>6. Sum(f, S) = Sum(f, T) + Sum(f, U)
  BY <1>2, <1>3
<1> QED
  BY <1>4, <1>5, <1>6

\* Counting: 1 for each of some, 0 for the others.
LEMMA SumCounts ==
  ASSUME NEW f, NEW S, IsFiniteSet(S), NEW T \in SUBSET S,
         \A x \in S : f[x] = IF x \in T THEN 1 ELSE 0
  PROVE  Sum(f, S) = Cardinality(T)
<1>1. Sum(f, S) = Sum(f, T)
  BY SumDropsZeros
<1>2. IsFiniteSet(T) /\ Cardinality(T) \in Nat
  BY FS_Subset, FS_CardinalityType
<1>3. Sum(f, T) = 1 * Cardinality(T)
  BY <1>2, SumConstant
<1> QED
  BY <1>1, <1>2, <1>3

\* The order of summation: by row and then by column, or the other way round.
LEMMA SumSwap ==
  ASSUME NEW S, NEW T, IsFiniteSet(S), IsFiniteSet(T),
         NEW m, \A x \in S, y \in T : m[x][y] \in Int,
         NEW row, \A x \in S : row[x] = Sum(m[x], T),
         NEW flip, \A x \in S, y \in T : flip[y][x] = m[x][y],
         NEW col, \A y \in T : col[y] = Sum(flip[y], S)
  PROVE  Sum(row, S) = Sum(col, T)
<1>1. PICK colOf : colOf = [U \in SUBSET S |-> [y \in T |-> Sum(flip[y], U)]]
  OBVIOUS
<1>2. PICK Good : Good = {U \in SUBSET S : Sum(row, U) = Sum(colOf[U], T)}
  OBVIOUS
<1>3. \A x \in S : row[x] \in Int
  BY SumInt
<1>4. {} \in Good
  <2>1. \A y \in T : colOf[{}][y] = 0
    BY <1>1, SumEmpty
  <2>2. Sum(colOf[{}], T) = 0
    BY <2>1, SumZero
  <2> QED
    BY <1>2, <2>2, SumEmpty
<1>5. ASSUME NEW U \in SUBSET S, NEW x \in S, U \in Good, x \notin U
      PROVE  U \cup {x} \in Good
  <2>1. PICK V : V = U \cup {x}
    OBVIOUS
  <2>2. PICK f : f = colOf[U]
    OBVIOUS
  <2>3. PICK h : h = colOf[V]
    OBVIOUS
  <2>4. PICK g : g = m[x]
    OBVIOUS
  <2>5. ASSUME NEW y \in T
        PROVE  f[y] \in Int /\ g[y] \in Int /\ h[y] = f[y] + g[y]
    <3>1. \A z \in S : flip[y][z] \in Int
      OBVIOUS
    <3>2. /\ Sum(flip[y], U) \in Int /\ flip[y][x] \in Int
          /\ Sum(flip[y], U \cup {x}) = flip[y][x] + Sum(flip[y], U)
      BY <1>5, <3>1, SumStep
    <3>3. f[y] = Sum(flip[y], U) /\ h[y] = Sum(flip[y], U \cup {x}) /\ g[y] = flip[y][x]
      BY <1>1, <2>1, <2>2, <2>3, <2>4
    <3> QED
      BY <3>2, <3>3
  <2>6. Sum(h, T) = Sum(f, T) + Sum(g, T)
    BY <2>5, SumPlus
  <2>7. Sum(row, U) \in Int /\ row[x] \in Int /\ Sum(row, U \cup {x}) = row[x] + Sum(row, U)
    BY <1>3, <1>5, SumStep
  <2>8. Sum(row, U) = Sum(f, T) /\ row[x] = Sum(g, T)
    BY <1>2, <1>5, <2>2, <2>4
  <2>9. Sum(row, V) = Sum(h, T)
    BY <2>1, <2>6, <2>7, <2>8
  <2> QED
    BY <1>2, <1>5, <2>1, <2>3, <2>9
<1>6. S \in Good
  BY <1>4, <1>5, SubsetInduction
<1>7. Sum(row, S) = Sum(colOf[S], T)
  BY <1>2, <1>6
<1>8. Sum(colOf[S], T) = Sum(col, T)
  <2>1. \A y \in T : colOf[S][y] = col[y]
    BY <1>1
  <2> QED
    BY <2>1, SumSame
<1> QED
  BY <1>7, <1>8

---------------------------------------------------------------------------------
(* Order.                                                                  *)

\* Of a finite set of numbers one has the largest key, the least of those with it.
LEMMA FirstByKey ==
  ASSUME NEW S \in SUBSET Int, IsFiniteSet(S), S # {}, NEW key, \A x \in S : key[x] \in Int
  PROVE  \E p \in S : \A q \in S : key[p] > key[q] \/ (key[p] = key[q] /\ p <= q)
<1> DEFINE First(p, T) == \A q \in T : key[p] > key[q] \/ (key[p] = key[q] /\ p <= q)
<1>1. PICK Good : Good = {T \in SUBSET S : T = {} \/ \E p \in T : First(p, T)}
  OBVIOUS
<1>2. {} \in Good
  BY <1>1
<1>3. ASSUME NEW T \in SUBSET S, NEW x \in S, T \in Good, x \notin T
      PROVE  T \cup {x} \in Good
  <2>1. CASE T = {}
    <3>1. First(x, T \cup {x})
      BY <2>1
    <3> QED
      BY <1>1, <3>1
  <2>2. CASE T # {}
    <3>1. PICK p \in T : First(p, T)
      BY <1>1, <1>3, <2>2
    <3>2. CASE key[p] > key[x] \/ (key[p] = key[x] /\ p <= x)
      <4>1. First(p, T \cup {x})
        BY <3>1, <3>2
      <4> QED
        BY <1>1, <4>1
    <3>3. CASE ~(key[p] > key[x] \/ (key[p] = key[x] /\ p <= x))
      <4>1. key[p] \in Int /\ key[x] \in Int /\ p \in Int /\ x \in Int
        OBVIOUS
      <4>2. ASSUME NEW q \in T
            PROVE  key[x] > key[q] \/ (key[x] = key[q] /\ x <= q)
        <5>1. key[q] \in Int /\ q \in Int
          OBVIOUS
        <5> QED
          BY <3>1, <3>3, <4>1, <5>1
      <4>3. First(x, T \cup {x})
        BY <4>1, <4>2
      <4> QED
        BY <1>1, <4>3
    <3> QED
      BY <3>2, <3>3
  <2> QED
    BY <2>1, <2>2
<1>4. S \in Good
  BY <1>2, <1>3, SubsetInduction
<1> QED
  BY <1>1, <1>4

\* In a finite set put in an order, where ahead[p] is what comes before p, exactly k have
\* fewer than k before them.
LEMMA RankCount ==
  ASSUME NEW S, IsFiniteSet(S), NEW ahead \in [S -> SUBSET S],
         \A p \in S : p \notin ahead[p],
         \A p, q \in S : p \in ahead[q] => ahead[p] \subseteq ahead[q],
         \A p, q \in S : p = q \/ p \in ahead[q] \/ q \in ahead[p],
         NEW k \in Nat, k <= Cardinality(S)
  PROVE  Cardinality({p \in S : Cardinality(ahead[p]) < k}) = k
<1>1. PICK n \in Nat : n = Cardinality(S)
  BY FS_CardinalityType
<1>2. PICK rank : rank = [p \in S |-> Cardinality(ahead[p])]
  OBVIOUS
<1>3. \A p \in S : IsFiniteSet(ahead[p]) /\ Cardinality(ahead[p]) \in Nat
  BY FS_Subset, FS_CardinalityType
<1>4. ASSUME NEW p \in S, NEW q \in S, p \in ahead[q]
      PROVE  rank[p] < rank[q]
  <2>1. ahead[p] \cup {p} \in SUBSET ahead[q] /\ p \notin ahead[p]
    BY <1>4
  <2>2. Cardinality(ahead[p] \cup {p}) = Cardinality(ahead[p]) + 1
    BY <1>3, <2>1, FS_AddElement
  <2>3. Cardinality(ahead[p] \cup {p}) <= Cardinality(ahead[q])
    BY <1>3, <2>1, FS_Subset
  <2> QED
    BY <1>2, <1>3, <2>2, <2>3
<1>5. ASSUME NEW p \in S
      PROVE  rank[p] \in 0 .. n - 1
  <2>1. ahead[p] \cup {p} \in SUBSET S /\ p \notin ahead[p]
    OBVIOUS
  <2>2. Cardinality(ahead[p] \cup {p}) = Cardinality(ahead[p]) + 1
    BY <1>3, <2>1, FS_AddElement
  <2>3. Cardinality(ahead[p] \cup {p}) <= n
    BY <1>1, <2>1, FS_Subset
  <2> QED
    BY <1>1, <1>2, <1>3, <2>2, <2>3
<1>6. \A p, q \in S : rank[p] = rank[q] => p = q
  BY <1>4, <1>5
<1>7. rank \in Injection(S, 0 .. n - 1)
  BY <1>2, <1>5, <1>6 DEF Injection, IsInjective
<1>8. IsFiniteSet(0 .. n - 1) /\ Cardinality(0 .. n - 1) = n
  <2>1. 0 \in Int /\ n - 1 \in Int
    OBVIOUS
  <2>2. /\ IsFiniteSet(0 .. n - 1)
        /\ Cardinality(0 .. n - 1) = IF 0 > n - 1 THEN 0 ELSE (n - 1) - 0 + 1
    BY <2>1, FS_Interval
  <2> QED
    BY <2>2
<1>9. rank \in Surjection(S, 0 .. n - 1)
  BY <1>1, <1>7, <1>8, FS_Injection
<1>10. PICK B : B = {p \in S : Cardinality(ahead[p]) < k}
  OBVIOUS
<1>11. PICK low : low = [p \in B |-> rank[p]]
  OBVIOUS
<1>12. B = {p \in S : rank[p] < k}
  BY <1>2, <1>10
<1>13. low \in Bijection(B, 0 .. k - 1)
  <2>1. ASSUME NEW p \in B PROVE low[p] \in 0 .. k - 1
    BY <1>5, <1>11, <1>12
  <2>2. \A p, q \in B : low[p] = low[q] => p = q
    BY <1>6, <1>11, <1>12
  <2>3. ASSUME NEW v \in 0 .. k - 1 PROVE \E p \in B : low[p] = v
    <3>1. v \in 0 .. n - 1
      BY <1>1
    <3>2. PICK p \in S : rank[p] = v
      BY <1>9, <3>1 DEF Surjection
    <3> QED
      BY <1>11, <1>12, <3>2
  <2> QED
    BY <1>11, <2>1, <2>2, <2>3 DEF Bijection, Injection, IsInjective, Surjection
<1>14. IsFiniteSet(B)
  BY <1>10, FS_Subset
<1>15. Cardinality(0 .. k - 1) = Cardinality(B)
  BY <1>13, <1>14, FS_Bijection DEF ExistsBijection
<1>16. Cardinality(0 .. k - 1) = k
  <2>1. 0 \in Int /\ k - 1 \in Int
    OBVIOUS
  <2>2. Cardinality(0 .. k - 1) = IF 0 > k - 1 THEN 0 ELSE (k - 1) - 0 + 1
    BY <2>1, FS_Interval
  <2> QED
    BY <2>2
<1> QED
  BY <1>10, <1>15, <1>16
=================================================================================
