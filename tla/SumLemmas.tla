----------------------------- MODULE SumLemmas -----------------------------
(***************************************************************************)
(* What SumFunctionOnSet of the community module Functions computes over a *)
(* finite set.  It is a fold, a recursive function on the subsets of the   *)
(* set, so each fact is by induction on a finite set; and induction over   *)
(* a finite set is a minimal counterexample, which the library gives       *)
(* without an operator for the fact (FiniteInduction).                     *)
(***************************************************************************)
EXTENDS Integers, Functions, FiniteSetTheorems, TLAPS

\* A property of sets, given as the set F of those that have it, is one of every
\* finite set if a set has it whenever its strict subsets do.
LEMMA SubsetInduction ==
    ASSUME NEW S, IsFiniteSet(S), NEW F,
           \A T \in SUBSET S : (\A U \in SUBSET T : U # T => U \in F) => T \in F
    PROVE  S \in F
<1> DEFINE B == {T \in FiniteSubsetsOf(S) : T \notin F}
<1>1. SUFFICES ASSUME S \notin F PROVE FALSE
  OBVIOUS
<1>2. B # {} /\ B \subseteq FiniteSubsetsOf(S)
  BY <1>1 DEF FiniteSubsetsOf
<1>3. PICK T \in B : \A U \in B : ~(<<U, T>> \in StrictSubsetOrdering(S))
  <2> HIDE DEF B
  <2> QED BY <1>2, FS_StrictSubsetOrderingWellFounded, WFMin
<1>4. IsFiniteSet(T) /\ T \in SUBSET S
  BY DEF FiniteSubsetsOf
<1>5. ASSUME NEW U \in SUBSET T, U # T PROVE U \in F
  <2>1. IsFiniteSet(U) /\ U \in SUBSET S
    BY <1>4, FS_Subset
  <2>2. <<U, T>> \in StrictSubsetOrdering(S)
    BY <1>4, <1>5, <2>1, Z3 DEF StrictSubsetOrdering
  <2>3. U \notin B
    BY <1>3, <2>2
  <2>4. QED
    BY <2>1, <2>3 DEF FiniteSubsetsOf
<1>6. QED
  BY <1>4, <1>5

\* It is one of every finite set if the empty set has it and adding an element
\* keeps it.
LEMMA FiniteInduction ==
    ASSUME NEW S, IsFiniteSet(S), NEW F, {} \in F,
           \A T \in SUBSET S : \A x \in S : T \in F /\ x \notin T => T \cup {x} \in F
    PROVE  S \in F
<1>1. ASSUME NEW T \in SUBSET S, \A U \in SUBSET T : U # T => U \in F
      PROVE  T \in F
  <2>1. CASE T = {}
    BY <2>1
  <2>2. CASE T # {}
    <3>1. PICK x : x \in T
      BY <2>2
    <3>2. T \ {x} \in F /\ x \notin T \ {x} /\ (T \ {x}) \cup {x} = T
      BY <1>1, <3>1
    <3>3. QED
      BY <3>1, <3>2
  <2>3. QED
    BY <2>1, <2>2
<1>2. QED
  BY <1>1, SubsetInduction

-----------------------------------------------------------------------------
(***************************************************************************)
(* The fold is a sum, in whatever order its elements are chosen.           *)
(***************************************************************************)

First(s) == CHOOSE x \in s : TRUE

\* The equation of the fold: each sum takes the chosen element out.
IsFold(it, f, S) ==
    it = [s \in SUBSET S |-> IF s = {} THEN 0 ELSE f[First(s)] + it[s \ {First(s)}]]

\* Each sum takes any element out.
IsSum(it, f, S) ==
    /\ it \in [SUBSET S -> Int]
    /\ it[{}] = 0
    /\ \A s \in SUBSET S : \A x \in s : it[s] = f[x] + it[s \ {x}]

LEMMA SumIsFold ==
    ASSUME NEW f, NEW S
    PROVE  SumFunctionOnSet(f, S) = (CHOOSE it : IsFold(it, f, S))[S]
BY DEF SumFunctionOnSet, FoldFunctionOnSet, MapThenFoldSet, IsFold, First

LEMMA SumsFold ==
    ASSUME NEW f, NEW S, NEW it, IsSum(it, f, S)
    PROVE  IsFold(it, f, S)
<1>1. \A s \in SUBSET S : s # {} => First(s) \in s
  BY DEF First
<1>2. \A s \in SUBSET S :
         it[s] = IF s = {} THEN 0 ELSE f[First(s)] + it[s \ {First(s)}]
  BY <1>1 DEF IsSum
<1>3. QED
  BY <1>2 DEF IsSum, IsFold

LEMMA FoldsUnique ==
    ASSUME NEW f, NEW S, IsFiniteSet(S), NEW g, NEW h, IsFold(g, f, S), IsFold(h, f, S)
    PROVE  g[S] = h[S]
<1> DEFINE F == {T \in SUBSET S : g[T] = h[T]}
<1>1. ASSUME NEW T \in SUBSET S, \A U \in SUBSET T : U # T => U \in F
      PROVE  T \in F
  <2>1. CASE T = {}
    BY <2>1 DEF IsFold
  <2>2. CASE T # {}
    <3>1. First(T) \in T
      BY <2>2 DEF First
    <3>2. g[T \ {First(T)}] = h[T \ {First(T)}]
      BY <1>1, <3>1
    <3>3. /\ g[T] = f[First(T)] + g[T \ {First(T)}]
          /\ h[T] = f[First(T)] + h[T \ {First(T)}]
      BY <2>2 DEF IsFold
    <3>4. QED
      BY <3>2, <3>3
  <2>3. QED
    BY <2>1, <2>2
<1>2. S \in F
  <2> HIDE DEF F
  <2> QED BY <1>1, SubsetInduction
<1>3. QED
  BY <1>2

\* Sums exist: a set with one more element has those of the set without it, and
\* the element on top.
LEMMA SumsExist ==
    ASSUME NEW S, IsFiniteSet(S), NEW f, \A x \in S : f[x] \in Int
    PROVE  \E it : IsSum(it, f, S)
<1> DEFINE F == {T \in SUBSET S : \E it : IsSum(it, f, T)}
<1>1. {} \in F
  <2>1. IsSum([s \in SUBSET {} |-> 0], f, {})
    BY DEF IsSum
  <2>2. QED
    BY <2>1
<1>2. ASSUME NEW T \in SUBSET S, NEW x \in S, T \in F, x \notin T
      PROVE  T \cup {x} \in F
  <2>1. PICK it : IsSum(it, f, T)
    BY <1>2
  <2> DEFINE up == [s \in SUBSET (T \cup {x}) |->
                       IF x \in s THEN f[x] + it[s \ {x}] ELSE it[s]]
  <2>2. ASSUME NEW s \in SUBSET (T \cup {x})
        PROVE  /\ s \ {x} \in SUBSET T
               /\ x \notin s => s \in SUBSET T
    OBVIOUS
  <2>3. \A s \in SUBSET T : it[s] \in Int
    BY <2>1 DEF IsSum
  <2>4. up \in [SUBSET (T \cup {x}) -> Int]
    BY <2>2, <2>3
  <2>5. up[{}] = 0
    BY <2>1 DEF IsSum
  <2>6. ASSUME NEW s \in SUBSET (T \cup {x}), NEW y \in s
        PROVE  up[s] = f[y] + up[s \ {y}]
    <3>0. s \ {y} \in SUBSET (T \cup {x})
      OBVIOUS
    <3>1. CASE x \notin s
      <4>1. up[s] = it[s] /\ up[s \ {y}] = it[s \ {y}] /\ s \in SUBSET T
        BY <3>0, <3>1
      <4>2. QED
        BY <2>1, <4>1 DEF IsSum
    <3>2. CASE x \in s /\ y = x
      BY <3>0, <3>2
    <3>3. CASE x \in s /\ y # x
      <4>1. up[s] = f[x] + it[s \ {x}]
        BY <3>3
      <4>2. up[s \ {y}] = f[x] + it[(s \ {y}) \ {x}]
        BY <3>0, <3>3
      <4>3. (s \ {y}) \ {x} = (s \ {x}) \ {y}
        OBVIOUS
      <4>4. it[s \ {x}] = f[y] + it[(s \ {x}) \ {y}]
        BY <2>1, <2>2, <3>3 DEF IsSum
      <4>5. f[x] \in Int /\ f[y] \in Int /\ it[(s \ {x}) \ {y}] \in Int
        <5>1. (s \ {x}) \ {y} \in SUBSET T /\ y \in S
          BY <2>2
        <5>2. QED
          BY <2>3, <5>1
      <4>6. QED
        <5>1. it[(s \ {y}) \ {x}] = it[(s \ {x}) \ {y}]
          BY <4>3
        <5> HIDE DEF up
        <5>2. QED
          BY <4>1, <4>2, <4>4, <4>5, <5>1
    <3>4. QED
      BY <3>1, <3>2, <3>3
  <2>7. IsSum(up, f, T \cup {x})
    <3> HIDE DEF up
    <3> QED BY <2>4, <2>5, <2>6 DEF IsSum
  <2>8. QED
    BY <2>7
<1>3. S \in F
  <2> HIDE DEF F
  <2> QED BY <1>1, <1>2, FiniteInduction
<1>4. QED
  BY <1>3

\* The fold is any of them.
LEMMA SumOf ==
    ASSUME NEW S, IsFiniteSet(S), NEW f, NEW it, IsSum(it, f, S)
    PROVE  SumFunctionOnSet(f, S) = it[S]
<1>1. IsFold(it, f, S)
  BY SumsFold
<1>2. IsFold(CHOOSE g : IsFold(g, f, S), f, S)
  BY <1>1
<1>3. QED
  BY <1>1, <1>2, SumIsFold, FoldsUnique

-----------------------------------------------------------------------------
(***************************************************************************)
(* Facts about sums.                                                       *)
(***************************************************************************)

LEMMA SumEmpty == ASSUME NEW f PROVE SumFunctionOnSet(f, {}) = 0
<1>1. IsSum([s \in SUBSET {} |-> 0], f, {})
  BY DEF IsSum
<1>2. QED
  BY <1>1, SumOf, FS_EmptySet

\* A sum is an integer, and any element may be taken out of it.
LEMMA SumTake ==
    ASSUME NEW S, IsFiniteSet(S), NEW f, \A x \in S : f[x] \in Int
    PROVE  /\ SumFunctionOnSet(f, S) \in Int
           /\ \A x \in S : SumFunctionOnSet(f, S) = f[x] + SumFunctionOnSet(f, S \ {x})
<1>1. PICK it : IsSum(it, f, S)
  BY SumsExist
<1>2. SumFunctionOnSet(f, S) = it[S] /\ it[S] \in Int
  <2>1. it[S] \in Int
    BY <1>1 DEF IsSum
  <2>2. QED
    BY <1>1, <2>1, SumOf
<1>3. ASSUME NEW x \in S
      PROVE  SumFunctionOnSet(f, S \ {x}) = it[S \ {x}]
  <2> DEFINE T == S \ {x}
             less == [s \in SUBSET T |-> it[s]]
  <2>1. IsSum(less, f, T)
    BY <1>1 DEF IsSum
  <2>2. IsFiniteSet(T)
    BY FS_RemoveElement
  <2>3. SumFunctionOnSet(f, T) = less[T]
    <3> HIDE DEF less, T
    <3> QED BY <2>1, <2>2, SumOf
  <2>4. QED
    BY <2>3
<1>4. \A x \in S : it[S] = f[x] + it[S \ {x}]
  BY <1>1 DEF IsSum
<1>5. QED
  BY <1>2, <1>3, <1>4

LEMMA SumAdd ==
    ASSUME NEW S, IsFiniteSet(S), NEW x, x \notin S,
           NEW f, f[x] \in Int, \A y \in S : f[y] \in Int
    PROVE  SumFunctionOnSet(f, S \cup {x}) = f[x] + SumFunctionOnSet(f, S)
<1>1. IsFiniteSet(S \cup {x}) /\ (S \cup {x}) \ {x} = S /\ x \in S \cup {x}
  BY FS_AddElement
<1>2. \A y \in S \cup {x} : f[y] \in Int
  OBVIOUS
<1>3. QED
  BY <1>1, <1>2, SumTake

\* Smaller terms have a smaller sum.
LEMMA SumLess ==
    ASSUME NEW S, IsFiniteSet(S), NEW f, NEW g,
           \A x \in S : f[x] \in Int /\ g[x] \in Int /\ f[x] <= g[x]
    PROVE  SumFunctionOnSet(f, S) <= SumFunctionOnSet(g, S)
<1> DEFINE F == {T \in SUBSET S : SumFunctionOnSet(f, T) <= SumFunctionOnSet(g, T)}
<1>1. {} \in F
  BY SumEmpty
<1>2. ASSUME NEW T \in SUBSET S, NEW x \in S, T \in F, x \notin T
      PROVE  T \cup {x} \in F
  <2>1. IsFiniteSet(T)
    BY FS_Subset
  <2>2. /\ SumFunctionOnSet(f, T \cup {x}) = f[x] + SumFunctionOnSet(f, T)
        /\ SumFunctionOnSet(g, T \cup {x}) = g[x] + SumFunctionOnSet(g, T)
    BY <1>2, <2>1, SumAdd
  <2>3. SumFunctionOnSet(f, T) \in Int /\ SumFunctionOnSet(g, T) \in Int
    BY <2>1, SumTake
  <2>4. QED
    BY <1>2, <2>2, <2>3
<1>3. S \in F
  <2> HIDE DEF F
  <2> QED BY <1>1, <1>2, FiniteInduction
<1>4. QED
  BY <1>3

\* A sum depends on its terms alone.
LEMMA SumSame ==
    ASSUME NEW S, IsFiniteSet(S), NEW f, NEW g, \A x \in S : f[x] \in Int /\ g[x] = f[x]
    PROVE  SumFunctionOnSet(f, S) = SumFunctionOnSet(g, S)
<1>1. SumFunctionOnSet(f, S) \in Int /\ SumFunctionOnSet(g, S) \in Int
  BY SumTake
<1>2. /\ SumFunctionOnSet(f, S) <= SumFunctionOnSet(g, S)
      /\ SumFunctionOnSet(g, S) <= SumFunctionOnSet(f, S)
  BY SumLess
<1>3. QED
  BY <1>1, <1>2

LEMMA SumNat ==
    ASSUME NEW S, IsFiniteSet(S), NEW f, \A x \in S : f[x] \in Nat
    PROVE  SumFunctionOnSet(f, S) \in Nat
<1> DEFINE F == {T \in SUBSET S : SumFunctionOnSet(f, T) \in Nat}
<1>1. {} \in F
  BY SumEmpty
<1>2. ASSUME NEW T \in SUBSET S, NEW x \in S, T \in F, x \notin T
      PROVE  T \cup {x} \in F
  <2>1. IsFiniteSet(T) /\ f[x] \in Int /\ \A y \in T : f[y] \in Int
    BY FS_Subset
  <2>2. SumFunctionOnSet(f, T \cup {x}) = f[x] + SumFunctionOnSet(f, T)
    BY <1>2, <2>1, SumAdd
  <2>3. QED
    BY <1>2, <2>2
<1>3. S \in F
  <2> HIDE DEF F
  <2> QED BY <1>1, <1>2, FiniteInduction
<1>4. QED
  BY <1>3

\* The sum over two sets that share nothing is that of their sums.
LEMMA SumUnion ==
    ASSUME NEW S, IsFiniteSet(S), NEW R, IsFiniteSet(R), S \cap R = {},
           NEW f, \A x \in S \cup R : f[x] \in Int
    PROVE  SumFunctionOnSet(f, S \cup R) = SumFunctionOnSet(f, S) + SumFunctionOnSet(f, R)
<1> DEFINE F == {T \in SUBSET R : SumFunctionOnSet(f, S \cup T)
                                  = SumFunctionOnSet(f, S) + SumFunctionOnSet(f, T)}
<1>1. {} \in F
  <2>1. S \cup {} = S /\ SumFunctionOnSet(f, S) \in Int
    BY SumTake
  <2>2. QED
    BY <2>1, SumEmpty
<1>2. ASSUME NEW T \in SUBSET R, NEW x \in R, T \in F, x \notin T
      PROVE  T \cup {x} \in F
  <2>1. IsFiniteSet(T) /\ IsFiniteSet(S \cup T) /\ x \notin S \cup T
    BY <1>2, FS_Subset, FS_Union
  <2>2. SumFunctionOnSet(f, T \cup {x}) = f[x] + SumFunctionOnSet(f, T)
    BY <1>2, <2>1, SumAdd
  <2>3. SumFunctionOnSet(f, (S \cup T) \cup {x}) = f[x] + SumFunctionOnSet(f, S \cup T)
    BY <2>1, SumAdd
  <2>4. /\ SumFunctionOnSet(f, S) \in Int
        /\ SumFunctionOnSet(f, T) \in Int
        /\ f[x] \in Int
    BY <2>1, SumTake
  <2>5. SumFunctionOnSet(f, S \cup (T \cup {x})) = SumFunctionOnSet(f, (S \cup T) \cup {x})
    <3>1. S \cup (T \cup {x}) = (S \cup T) \cup {x}
      OBVIOUS
    <3>2. QED
      BY <3>1
  <2>6. SumFunctionOnSet(f, S \cup T) = SumFunctionOnSet(f, S) + SumFunctionOnSet(f, T)
    BY <1>2
  <2>7. SumFunctionOnSet(f, S \cup (T \cup {x}))
            = SumFunctionOnSet(f, S) + SumFunctionOnSet(f, T \cup {x})
    BY <2>2, <2>3, <2>4, <2>5, <2>6
  <2>8. QED
    BY <2>7
<1>3. R \in F
  <2> HIDE DEF F
  <2> QED BY <1>1, <1>2, FiniteInduction
<1>4. QED
  BY <1>3
====
