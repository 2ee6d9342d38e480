---------------------------- MODULE Sums_proofs -----------------------------
(***************************************************************************)
(* Facts about SumFunctionOnSet of the community module Functions: what a  *)
(* sum over a finite set is without an element, with one more, after a     *)
(* change of one value.  The ledger of Rewards and the passes of           *)
(* ClientKeys are such sums.                                               *)
(*                                                                         *)
(* The operator is a fold, defined by recursion on the set.  That the      *)
(* recursion has a solution is shown with the sums of all subsets as one   *)
(* function (IsSums): there is one (SumsExist), and the fold is equal to   *)
(* it (SumIsSums).  Everything else is arithmetic.                         *)
(***************************************************************************)
EXTENDS Functions, FiniteSetTheorems, WellFoundedInduction, TLAPS

\* g has the sums of f over the subsets of S.
IsSums(g, f, S) ==
    /\ g \in [SUBSET S -> Int]
    /\ g[{}] = 0
    /\ \A T \in SUBSET S : \A x \in T : g[T] = f[x] + g[T \ {x}]

IntOn(f, S) == \A x \in S : f[x] \in Int

One(s) == CHOOSE x \in s : TRUE

-----------------------------------------------------------------------------
(* Induction over the subsets of a finite set: the least set that is bad.  *)

LEMMA LeastSubset ==
  ASSUME NEW S, IsFiniteSet(S), NEW B, B \subseteq SUBSET S, B # {}
  PROVE  \E T \in B : \A x \in T : T \ {x} \notin B
<1>1. B \subseteq FiniteSubsetsOf(S)
  BY FS_Subset DEF FiniteSubsetsOf
<1>2. PICK T \in B : \A U \in B : ~ (<<U, T>> \in StrictSubsetOrdering(S))
  BY <1>1, FS_StrictSubsetOrderingWellFounded, WFMin
<1>3. ASSUME NEW x \in T, T \ {x} \in B PROVE FALSE
  BY <1>2, <1>3 DEF StrictSubsetOrdering
<1> QED
  BY <1>3

LEMMA SubsetInduction ==
  ASSUME NEW S, IsFiniteSet(S), NEW P, {} \in P,
         \A T \in SUBSET S : \A x \in T : T \ {x} \in P => T \in P
  PROVE  S \in P
<1> DEFINE B == {T \in SUBSET S : T \notin P}
<1> SUFFICES ASSUME B # {} PROVE FALSE
  OBVIOUS
<1>1. PICK T \in B : \A x \in T : T \ {x} \notin B
  BY LeastSubset
<1> QED
  BY <1>1

-----------------------------------------------------------------------------
(* The sums of all subsets, and the fold.                                  *)

\* A sum over a set with x is one of the sets without x, plus x.
LEMMA SumsExtend ==
  ASSUME NEW f, NEW T, NEW x \in T, IntOn(f, T), NEW g, IsSums(g, f, T \ {x})
  PROVE  \E h : IsSums(h, f, T)
<1> DEFINE h == [U \in SUBSET T |-> IF x \in U THEN f[x] + g[U \ {x}] ELSE g[U]]
<1>1. \A U \in SUBSET T : U \ {x} \in SUBSET (T \ {x}) /\ (x \notin U => U \in SUBSET (T \ {x}))
  OBVIOUS
<1>2. h \in [SUBSET T -> Int] /\ h[{}] = 0
  BY <1>1 DEF IsSums, IntOn
<1>3. ASSUME NEW U \in SUBSET T, NEW y \in U PROVE h[U] = f[y] + h[U \ {y}]
  <2>0. U \ {y} \in SUBSET T /\ f[x] \in Int /\ f[y] \in Int
    BY DEF IntOn
  <2>1. CASE y = x
    <3>1. h[U] = f[x] + g[U \ {x}] /\ h[U \ {x}] = g[U \ {x}]
      BY <2>0, <2>1
    <3>2. h[U] = f[x] + h[U \ {x}]
      BY <3>1
    <3> HIDE DEF h
    <3> QED
      BY <2>1, <3>2
  <2>2. CASE y # x /\ x \in U
    <3>1. h[U] = f[x] + g[U \ {x}] /\ h[U \ {y}] = f[x] + g[(U \ {y}) \ {x}]
      BY <2>0, <2>2
    <3>2. (U \ {y}) \ {x} = (U \ {x}) \ {y}
      OBVIOUS
    <3>3. g[U \ {x}] = f[y] + g[(U \ {x}) \ {y}]
      BY <1>1, <2>2 DEF IsSums
    <3>4. g[(U \ {x}) \ {y}] \in Int
      BY DEF IsSums
    <3>5. PICK a \in Int, b \in Int, c \in Int :
             a = f[x] /\ b = f[y] /\ c = g[(U \ {x}) \ {y}]
      BY <2>0, <3>4
    <3>6. h[U] = a + (b + c) /\ h[U \ {y}] = a + c
      BY <3>1, <3>2, <3>3, <3>5
    <3>7. h[U] = b + h[U \ {y}]
      <4> HIDE DEF h
      <4> QED
        BY <3>6
    <3> QED
      BY <3>5, <3>7
  <2>3. CASE x \notin U
    <3>1. h[U] = g[U] /\ h[U \ {y}] = g[U \ {y}]
      BY <2>0, <2>3
    <3>2. U \in SUBSET (T \ {x})
      BY <2>3
    <3> QED
      BY <3>1, <3>2 DEF IsSums
  <2> QED
    BY <2>1, <2>2, <2>3
<1> HIDE DEF h
<1> QED
  BY <1>2, <1>3 DEF IsSums

LEMMA SumsExist ==
  ASSUME NEW f, NEW S, IsFiniteSet(S), IntOn(f, S)
  PROVE  \E g : IsSums(g, f, S)
<1> DEFINE P == {T \in SUBSET S : \E g : IsSums(g, f, T)}
<1>1. {} \in P
  <2>1. IsSums([T \in SUBSET {} |-> 0], f, {})
    BY DEF IsSums
  <2> QED
    BY <2>1
<1>2. ASSUME NEW T \in SUBSET S, NEW x \in T, T \ {x} \in P PROVE T \in P
  BY <1>2, SumsExtend DEF IntOn
<1> HIDE DEF P
<1>3. S \in P
  BY <1>1, <1>2, SubsetInduction
<1> QED
  BY <1>3 DEF P

\* The fold is the sum.
LEMMA SumIsSums ==
  ASSUME NEW f, NEW S, IsFiniteSet(S), NEW g, IsSums(g, f, S)
  PROVE  SumFunctionOnSet(f, S) = g[S]
<1> DEFINE Sum(h) == [s \in SUBSET S |-> IF s = {} THEN 0 ELSE f[One(s)] + h[s \ {One(s)}]]
           it == CHOOSE h : h = Sum(h)
<1>1. SumFunctionOnSet(f, S) = it[S]
  BY DEF SumFunctionOnSet, FoldFunctionOnSet, MapThenFoldSet, One
<1>2. \A s \in SUBSET S : s # {} => One(s) \in s
  BY DEF One
<1>3. g = Sum(g)
  BY <1>2 DEF IsSums
<1>4. it = Sum(it)
  BY <1>3
<1> HIDE DEF it
<1> DEFINE B == {T \in SUBSET S : it[T] # g[T]}
<1> SUFFICES ASSUME B # {} PROVE FALSE
  BY <1>1
<1>5. B \subseteq SUBSET S
  OBVIOUS
<1>6. PICK T \in B : \A x \in T : T \ {x} \notin B
  <2> HIDE DEF B
  <2> QED
    BY <1>5, LeastSubset
<1>7. it[T] = Sum(it)[T] /\ g[T] = Sum(g)[T]
  BY <1>3, <1>4
<1> QED
  BY <1>2, <1>6, <1>7

-----------------------------------------------------------------------------
(* What sums are.                                                          *)

\* A sum of integers is one, and a value can be taken out of it.
LEMMA SumOut ==
  ASSUME NEW f, NEW S, IsFiniteSet(S), IntOn(f, S), NEW x \in S
  PROVE  SumFunctionOnSet(f, S) = f[x] + SumFunctionOnSet(f, S \ {x})
<1>1. PICK g : IsSums(g, f, S)
  BY SumsExist
<1> DEFINE h == [T \in SUBSET (S \ {x}) |-> g[T]]
<1>2. IsSums(h, f, S \ {x})
  BY <1>1 DEF IsSums
<1>3. IsFiniteSet(S \ {x}) /\ h[S \ {x}] = g[S \ {x}]
  BY FS_RemoveElement
<1> HIDE DEF h
<1>4. SumFunctionOnSet(f, S \ {x}) = g[S \ {x}] /\ SumFunctionOnSet(f, S) = g[S]
  BY <1>1, <1>2, <1>3, SumIsSums
<1> QED
  BY <1>1, <1>4 DEF IsSums

LEMMA SumType ==
  ASSUME NEW f, NEW S, IsFiniteSet(S), IntOn(f, S)
  PROVE  SumFunctionOnSet(f, S) \in Int
<1>1. PICK g : IsSums(g, f, S)
  BY SumsExist
<1>2. g[S] \in Int
  BY <1>1 DEF IsSums
<1> QED
  BY <1>1, <1>2, SumIsSums

LEMMA SumEmpty ==
  ASSUME NEW f
  PROVE  SumFunctionOnSet(f, {}) = 0
<1>1. PICK g : IsSums(g, f, {})
  BY FS_EmptySet, SumsExist DEF IntOn
<1> QED
  BY <1>1, FS_EmptySet, SumIsSums DEF IsSums

\* The sum is one of the values on the set.
LEMMA SumSame ==
  ASSUME NEW f, NEW h, NEW S, IsFiniteSet(S), IntOn(f, S), \A x \in S : f[x] = h[x]
  PROVE  SumFunctionOnSet(f, S) = SumFunctionOnSet(h, S)
<1>1. PICK g : IsSums(g, f, S)
  BY SumsExist
<1>2. IsSums(g, h, S)
  BY <1>1 DEF IsSums
<1> QED
  BY <1>1, <1>2, SumIsSums

\* One value more.
LEMMA SumIn ==
  ASSUME NEW f, NEW S, IsFiniteSet(S), NEW x, x \notin S, IntOn(f, S \cup {x})
  PROVE  SumFunctionOnSet(f, S \cup {x}) = SumFunctionOnSet(f, S) + f[x]
<1>1. IsFiniteSet(S \cup {x}) /\ (S \cup {x}) \ {x} = S
  BY FS_AddElement
<1>2. SumFunctionOnSet(f, S) \in Int /\ f[x] \in Int
  BY SumType DEF IntOn
<1> QED
  BY <1>1, <1>2, SumOut

\* A sum of natural numbers is one, and grows with its set.
LEMMA SumNat ==
  ASSUME NEW f, NEW S, IsFiniteSet(S), \A x \in S : f[x] \in Nat
  PROVE  SumFunctionOnSet(f, S) \in Nat
<1> DEFINE P == {T \in SUBSET S : SumFunctionOnSet(f, T) \in Nat}
<1>1. {} \in P
  BY SumEmpty
<1>2. ASSUME NEW T \in SUBSET S, NEW x \in T, T \ {x} \in P PROVE T \in P
  <2>1. IsFiniteSet(T) /\ IntOn(f, T) /\ f[x] \in Nat
    BY FS_Subset DEF IntOn
  <2>2. SumFunctionOnSet(f, T) = f[x] + SumFunctionOnSet(f, T \ {x})
    BY <2>1, SumOut
  <2> QED
    BY <1>2, <2>1, <2>2
<1> HIDE DEF P
<1>3. S \in P
  BY <1>1, <1>2, SubsetInduction
<1> QED
  BY <1>3 DEF P

LEMMA SumGrows ==
  ASSUME NEW f, NEW S, IsFiniteSet(S), \A x \in S : f[x] \in Nat, NEW T \in SUBSET S
  PROVE  SumFunctionOnSet(f, T) <= SumFunctionOnSet(f, S)
<1> DEFINE P == {U \in SUBSET S : \A V \in SUBSET U : SumFunctionOnSet(f, V) <= SumFunctionOnSet(f, U)}
<1>1. {} \in P
  BY SumEmpty
<1>2. ASSUME NEW U \in SUBSET S, NEW x \in U, U \ {x} \in P PROVE U \in P
  <2> SUFFICES ASSUME NEW V \in SUBSET U
               PROVE  SumFunctionOnSet(f, V) <= SumFunctionOnSet(f, U)
    OBVIOUS
  <2>1. \A W \in SUBSET S : /\ IsFiniteSet(W) /\ IntOn(f, W)
                            /\ SumFunctionOnSet(f, W) \in Nat
    BY FS_Subset, SumNat DEF IntOn
  <2>2. f[x] \in Nat /\ SumFunctionOnSet(f, U \ {x}) \in Nat
    BY <2>1
  <2>3. SumFunctionOnSet(f, U) = f[x] + SumFunctionOnSet(f, U \ {x})
    BY <2>1, SumOut
  <2>4. CASE x \in V
    <3>1. SumFunctionOnSet(f, V) = f[x] + SumFunctionOnSet(f, V \ {x})
      BY <2>1, <2>4, SumOut
    <3>2. V \ {x} \in SUBSET (U \ {x}) /\ SumFunctionOnSet(f, V \ {x}) \in Nat
      BY <2>1
    <3>3. SumFunctionOnSet(f, V \ {x}) <= SumFunctionOnSet(f, U \ {x})
      BY <1>2, <3>2
    <3> QED
      BY <2>2, <2>3, <3>1, <3>2, <3>3
  <2>5. CASE x \notin V
    <3>1. V \in SUBSET (U \ {x}) /\ SumFunctionOnSet(f, V) \in Nat
      BY <2>1, <2>5
    <3>2. SumFunctionOnSet(f, V) <= SumFunctionOnSet(f, U \ {x})
      BY <1>2, <3>1
    <3> QED
      BY <2>2, <2>3, <3>1, <3>2
  <2> QED
    BY <2>4, <2>5
<1> HIDE DEF P
<1>3. S \in P
  BY <1>1, <1>2, SubsetInduction
<1> QED
  BY <1>3 DEF P

\* A sum of zeros.
LEMMA SumZero ==
  ASSUME NEW f, NEW S, IsFiniteSet(S), \A x \in S : f[x] = 0
  PROVE  SumFunctionOnSet(f, S) = 0
<1> DEFINE P == {T \in SUBSET S : SumFunctionOnSet(f, T) = 0}
<1>1. {} \in P
  BY SumEmpty
<1>2. ASSUME NEW T \in SUBSET S, NEW x \in T, T \ {x} \in P PROVE T \in P
  <2>1. IsFiniteSet(T) /\ IntOn(f, T) /\ f[x] = 0
    BY FS_Subset DEF IntOn
  <2> QED
    BY <1>2, <2>1, SumOut
<1> HIDE DEF P
<1>3. S \in P
  BY <1>1, <1>2, SubsetInduction
<1> QED
  BY <1>3 DEF P

\* The sums of two functions.
LEMMA SumPlus ==
  ASSUME NEW f, NEW g, NEW h, NEW S, IsFiniteSet(S), IntOn(f, S), IntOn(g, S),
         \A x \in S : h[x] = f[x] + g[x]
  PROVE  SumFunctionOnSet(h, S) = SumFunctionOnSet(f, S) + SumFunctionOnSet(g, S)
<1> DEFINE P == {T \in SUBSET S :
                   SumFunctionOnSet(h, T) = SumFunctionOnSet(f, T) + SumFunctionOnSet(g, T)}
<1>1. {} \in P
  BY SumEmpty
<1>2. ASSUME NEW T \in SUBSET S, NEW x \in T, T \ {x} \in P PROVE T \in P
  <2>1. IsFiniteSet(T) /\ IntOn(f, T) /\ IntOn(g, T) /\ IntOn(h, T)
    BY FS_Subset DEF IntOn
  <2>2. IsFiniteSet(T \ {x}) /\ IntOn(f, T \ {x}) /\ IntOn(g, T \ {x})
    BY <2>1, FS_RemoveElement DEF IntOn
  <2>3. /\ SumFunctionOnSet(f, T \ {x}) \in Int /\ SumFunctionOnSet(g, T \ {x}) \in Int
        /\ f[x] \in Int /\ g[x] \in Int /\ h[x] = f[x] + g[x]
    BY <2>2, SumType DEF IntOn
  <2>4. /\ SumFunctionOnSet(f, T) = f[x] + SumFunctionOnSet(f, T \ {x})
        /\ SumFunctionOnSet(g, T) = g[x] + SumFunctionOnSet(g, T \ {x})
        /\ SumFunctionOnSet(h, T) = h[x] + SumFunctionOnSet(h, T \ {x})
    BY <2>1, SumOut
  <2> QED
    BY <1>2, <2>3, <2>4
<1> HIDE DEF P
<1>3. S \in P
  BY <1>1, <1>2, SubsetInduction
<1> QED
  BY <1>3 DEF P

\* One value changes.
LEMMA SumChanged ==
  ASSUME NEW f, NEW h, NEW S, IsFiniteSet(S), IntOn(f, S), IntOn(h, S), NEW x \in S,
         \A y \in S \ {x} : h[y] = f[y]
  PROVE  SumFunctionOnSet(h, S) = SumFunctionOnSet(f, S) - f[x] + h[x]
<1>1. IsFiniteSet(S \ {x}) /\ IntOn(f, S \ {x})
  BY FS_RemoveElement DEF IntOn
<1>2. SumFunctionOnSet(f, S \ {x}) \in Int /\ f[x] \in Int /\ h[x] \in Int
  BY <1>1, SumType DEF IntOn
<1>3. SumFunctionOnSet(f, S \ {x}) = SumFunctionOnSet(h, S \ {x})
  BY <1>1, SumSame
<1>4. /\ SumFunctionOnSet(f, S) = f[x] + SumFunctionOnSet(f, S \ {x})
      /\ SumFunctionOnSet(h, S) = h[x] + SumFunctionOnSet(h, S \ {x})
  BY SumOut
<1> QED
  BY <1>2, <1>3, <1>4

\* The values move up by one place.
LEMMA SumMoved ==
  ASSUME NEW f, NEW h, NEW S \in SUBSET Int, IsFiniteSet(S), IntOn(f, S),
         \A i \in S : h[i + 1] = f[i]
  PROVE  SumFunctionOnSet(h, {i + 1 : i \in S}) = SumFunctionOnSet(f, S)
<1> DEFINE Up(T) == {i + 1 : i \in T}
           P == {T \in SUBSET S : /\ IsFiniteSet(Up(T))
                                  /\ SumFunctionOnSet(h, Up(T)) = SumFunctionOnSet(f, T)}
<1>1. {} \in P
  <2>1. Up({}) = {}
    OBVIOUS
  <2> QED
    BY <2>1, SumEmpty, FS_EmptySet
<1>2. ASSUME NEW T \in SUBSET S, NEW x \in T, T \ {x} \in P PROVE T \in P
  <2> DEFINE R == Up(T \ {x})
  <2>1. Up(T) = R \cup {x + 1} /\ x + 1 \notin R
    <3>1. \A i \in T : i \in Int /\ (i + 1 = x + 1 => i = x)
      OBVIOUS
    <3> QED
      BY <3>1
  <2>2. IsFiniteSet(R) /\ SumFunctionOnSet(h, R) = SumFunctionOnSet(f, T \ {x})
    BY <1>2
  <2>3. IntOn(h, Up(T)) /\ h[x + 1] = f[x] /\ f[x] \in Int
    BY DEF IntOn
  <2>4. IsFiniteSet(T) /\ IntOn(f, T)
    BY FS_Subset DEF IntOn
  <2>5. SumFunctionOnSet(f, T) = f[x] + SumFunctionOnSet(f, T \ {x})
    BY <2>4, SumOut
  <2>6. SumFunctionOnSet(f, T \ {x}) \in Int
    BY <2>4, FS_RemoveElement, SumType DEF IntOn
  <2> HIDE DEF R
  <2>7. SumFunctionOnSet(h, R \cup {x + 1}) = SumFunctionOnSet(h, R) + h[x + 1]
    BY <2>1, <2>2, <2>3, SumIn
  <2>8. IsFiniteSet(R \cup {x + 1})
    BY <2>2, FS_AddElement
  <2>9. SumFunctionOnSet(h, R \cup {x + 1}) = SumFunctionOnSet(f, T)
    BY <2>2, <2>3, <2>5, <2>6, <2>7
  <2> QED
    BY <2>1, <2>8, <2>9
<1> HIDE DEF P
<1>3. S \in P
  BY <1>1, <1>2, SubsetInduction
<1> QED
  BY <1>3 DEF P
=============================================================================
