------------------------------ MODULE SumLemmas ------------------------------
(***************************************************************************)
(* Sums over finite sets: what SumFunctionOnSet of the community modules   *)
(* computes, for every finite set.  The accounts of the models (stock and  *)
(* movements, reservations, cost layers) are sums of this kind.            *)
(*                                                                         *)
(* The sum is a recursive function on the subsets of a set.  The library   *)
(* states induction with an operator parameter; here the subsets for which *)
(* a claim holds are a set, and the step to all of them is that strict     *)
(* inclusion of finite sets is well founded.                               *)
(***************************************************************************)
EXTENDS Integers, Functions, FiniteSets, FiniteSetTheorems, WellFoundedInduction, TLAPS

\* What holds of a finite set whenever it holds of its strict subsets holds of
\* every finite set.
LEMMA FiniteInduction ==
  ASSUME NEW S, IsFiniteSet(S), NEW G,
         \A T \in SUBSET S : (\A U \in SUBSET T : U # T => U \in G) => T \in G
  PROVE  S \in G
<1> DEFINE B == (SUBSET S) \ G
<1>1. SUFFICES ASSUME B # {} PROVE FALSE
  OBVIOUS
<1>2. IsWellFoundedOn(StrictSubsetOrdering(S), SUBSET S)
  BY FS_StrictSubsetOrderingWellFounded, FS_FiniteSubsetsOfFinite
<1>3. B \subseteq SUBSET S
  OBVIOUS
<1> HIDE DEF B
<1>4. PICK T \in B : \A U \in B : <<U, T>> \notin StrictSubsetOrdering(S)
  BY <1>1, <1>2, <1>3, WFMin
<1>5. \A U \in SUBSET T : U # T => U \in G
  BY <1>3, <1>4 DEF StrictSubsetOrdering, B
<1> QED BY <1>3, <1>4, <1>5 DEF B

-----------------------------------------------------------------------------
(* The recursive function behind the sum. *)

Some(s) == CHOOSE x \in s : TRUE

\* g is the recursive function of the sum of f over the subsets of S.
Sums(f, S, g) ==
  g = [s \in SUBSET S |-> IF s = {} THEN 0 ELSE f[Some(s)] + g[s \ {Some(s)}]]

LEMMA SumIsChosen ==
  ASSUME NEW f, NEW S
  PROVE  SumFunctionOnSet(f, S) = (CHOOSE g : Sums(f, S, g))[S]
BY DEF SumFunctionOnSet, FoldFunctionOnSet, MapThenFoldSet, Sums, Some

LEMMA SomeIn == \A s : s # {} => Some(s) \in s
BY DEF Some

LEMMA SumsAgree ==
  ASSUME NEW f, NEW S, NEW T, NEW g, NEW h, Sums(f, S, g), Sums(f, T, h),
         NEW s, s \subseteq S, s \subseteq T, IsFiniteSet(s)
  PROVE  g[s] = h[s]
<1> DEFINE G == {u \in SUBSET s : g[u] = h[u]}
<1>1. ASSUME NEW u \in SUBSET s, \A v \in SUBSET u : v # u => v \in G
      PROVE  u \in G
  <2>1. CASE u = {}
    BY <2>1 DEF Sums
  <2>2. CASE u # {}
    <3>1. g[u \ {Some(u)}] = h[u \ {Some(u)}]
      BY <1>1, <2>2, SomeIn
    <3>2. u \in SUBSET S /\ u \in SUBSET T
      OBVIOUS
    <3>3. g[u] = f[Some(u)] + g[u \ {Some(u)}]
      BY <2>2, <3>2 DEF Sums
    <3>4. h[u] = f[Some(u)] + h[u \ {Some(u)}]
      BY <2>2, <3>2 DEF Sums
    <3> QED BY <3>1, <3>3, <3>4
  <2> QED BY <2>1, <2>2
<1> HIDE DEF G
<1>2. s \in G
  BY <1>1, FiniteInduction
<1> QED BY <1>2 DEF G

LEMMA SumsExist ==
  ASSUME NEW f, NEW S, IsFiniteSet(S)
  PROVE  \E g : Sums(f, S, g)
<1> DEFINE G == {T \in SUBSET S : \E g : Sums(f, T, g)}
           sol(U) == CHOOSE g : Sums(f, U, g)
<1>1. ASSUME NEW T \in SUBSET S, \A U \in SUBSET T : U # T => U \in G
      PROVE  T \in G
  <2> DEFINE g == [U \in SUBSET T |->
                     IF U = {} THEN 0
                     ELSE f[Some(U)] + sol(U \ {Some(U)})[U \ {Some(U)}]]
  <2>1. ASSUME NEW V \in SUBSET T, V # T PROVE Sums(f, V, sol(V))
    <3>1. \E k : Sums(f, V, k)
      BY <1>1, <2>1
    <3> QED BY <3>1
  <2>2. ASSUME NEW V \in SUBSET T, V # T PROVE g[V] = sol(V)[V]
    <3>1. Sums(f, V, sol(V))
      BY <2>1, <2>2
    <3> DEFINE W == V \ {Some(V)}
    <3>2. CASE V = {}
      BY <3>1, <3>2 DEF Sums
    <3>3. CASE V # {}
      <4>1. W \in SUBSET T /\ W # T /\ W \subseteq V /\ IsFiniteSet(W)
        BY <2>2, <3>3, FS_Subset
      <4>2. Sums(f, W, sol(W))
        BY <2>1, <4>1
      <4>3. sol(V)[V] = f[Some(V)] + sol(V)[W]
        BY <3>1, <3>3 DEF Sums
      <4> HIDE DEF sol
      <4>4. sol(V)[W] = sol(W)[W]
        BY <3>1, <4>1, <4>2, SumsAgree
      <4>5. g[V] = f[Some(V)] + sol(W)[W]
        BY <3>3
      <4> QED BY <4>3, <4>4, <4>5
    <3> QED BY <3>2, <3>3
  <2>3. ASSUME NEW U \in SUBSET T
        PROVE  g[U] = IF U = {} THEN 0 ELSE f[Some(U)] + g[U \ {Some(U)}]
    <3>1. CASE U = {}
      BY <3>1
    <3>2. CASE U # {}
      <4>1. U \ {Some(U)} \in SUBSET T /\ U \ {Some(U)} # T
        BY <3>2, SomeIn
      <4>2. g[U \ {Some(U)}] = sol(U \ {Some(U)})[U \ {Some(U)}]
        BY <2>2, <4>1
      <4>3. g[U] = f[Some(U)] + sol(U \ {Some(U)})[U \ {Some(U)}]
        BY <3>2
      <4> QED BY <3>2, <4>2, <4>3
    <3> QED BY <3>1, <3>2
  <2>4. DOMAIN g = SUBSET T /\ g = [U \in DOMAIN g |-> g[U]]
    OBVIOUS
  <2> HIDE DEF g
  <2>5. Sums(f, T, g)
    BY <2>3, <2>4 DEF Sums
  <2> QED BY <2>5
<1> HIDE DEF G
<1>2. S \in G
  BY <1>1, FiniteInduction
<1> QED BY <1>2 DEF G

\* One step of the recursion.
LEMMA SumStep ==
  ASSUME NEW f, NEW S, IsFiniteSet(S)
  PROVE  SumFunctionOnSet(f, S) =
           IF S = {} THEN 0 ELSE f[Some(S)] + SumFunctionOnSet(f, S \ {Some(S)})
<1> DEFINE sol(U) == CHOOSE g : Sums(f, U, g)
           W == S \ {Some(S)}
<1>1. IsFiniteSet(W) /\ W \subseteq S
  BY FS_Subset
<1>2. Sums(f, S, sol(S)) /\ Sums(f, W, sol(W))
  BY <1>1, SumsExist
<1>3. SumFunctionOnSet(f, S) = sol(S)[S] /\ SumFunctionOnSet(f, W) = sol(W)[W]
  BY SumIsChosen
<1> HIDE DEF sol
<1>4. sol(S)[W] = sol(W)[W]
  BY <1>1, <1>2, SumsAgree
<1>5. sol(S)[S] = IF S = {} THEN 0 ELSE f[Some(S)] + sol(S)[W]
  BY <1>2 DEF Sums
<1> QED BY <1>3, <1>4, <1>5

-----------------------------------------------------------------------------
(* What the proofs use. *)

LEMMA SumEmpty == \A f : SumFunctionOnSet(f, {}) = 0
BY SumStep, FS_EmptySet

LEMMA SumType ==
  ASSUME NEW S, IsFiniteSet(S), NEW f, \A x \in S : f[x] \in Int
  PROVE  SumFunctionOnSet(f, S) \in Int
<1> DEFINE G == {T \in SUBSET S : SumFunctionOnSet(f, T) \in Int}
<1>1. ASSUME NEW T \in SUBSET S, \A U \in SUBSET T : U # T => U \in G PROVE T \in G
  <2>1. IsFiniteSet(T)
    BY FS_Subset
  <2>2. CASE T = {}
    BY <2>2, SumEmpty
  <2>3. CASE T # {}
    <3>1. SumFunctionOnSet(f, T) = f[Some(T)] + SumFunctionOnSet(f, T \ {Some(T)})
      BY <2>1, <2>3, SumStep
    <3>2. Some(T) \in T /\ SumFunctionOnSet(f, T \ {Some(T)}) \in Int
      BY <1>1, <2>3, SomeIn
    <3> QED BY <3>1, <3>2
  <2> QED BY <2>2, <2>3
<1> HIDE DEF G
<1>2. S \in G
  BY <1>1, FiniteInduction
<1> QED BY <1>2 DEF G

\* Any element may be taken out first.
LEMMA SumRemove ==
  ASSUME NEW S, IsFiniteSet(S), NEW f, \A x \in S : f[x] \in Int, NEW x \in S
  PROVE  SumFunctionOnSet(f, S) = f[x] + SumFunctionOnSet(f, S \ {x})
<1> DEFINE Sum(T) == SumFunctionOnSet(f, T)
           G == {T \in SUBSET S : \A y \in T : Sum(T) = f[y] + Sum(T \ {y})}
<1>1. ASSUME NEW T \in SUBSET S, \A U \in SUBSET T : U # T => U \in G PROVE T \in G
  <2> SUFFICES ASSUME NEW y \in T PROVE Sum(T) = f[y] + Sum(T \ {y})
    OBVIOUS
  <2> DEFINE p == Some(T)
  <2>1. /\ IsFiniteSet(T) /\ IsFiniteSet(T \ {y})
        /\ IsFiniteSet((T \ {p}) \ {y}) /\ p \in T
    BY SomeIn, FS_Subset
  <2>2. Sum(T) = f[p] + Sum(T \ {p})
    BY <2>1, SumStep
  <2>3. CASE y = p
    BY <2>2, <2>3
  <2>4. CASE y # p
    <3>1. Sum(T \ {p}) = f[y] + Sum((T \ {p}) \ {y})
      BY <1>1, <2>1, <2>4
    <3>2. Sum(T \ {y}) = f[p] + Sum((T \ {y}) \ {p})
      BY <1>1, <2>1, <2>4
    <3>3. (T \ {y}) \ {p} = (T \ {p}) \ {y}
      OBVIOUS
    <3> DEFINE rest == Sum((T \ {p}) \ {y})
    <3>4. f[y] \in Int /\ f[p] \in Int /\ rest \in Int
      BY <2>1, SumType
    <3>5. Sum(T \ {y}) = f[p] + rest
      BY <3>2, <3>3
    <3>6. Sum(T) = f[p] + (f[y] + rest)
      BY <2>2, <3>1
    <3>7. \A i, j, k \in Int : i + (j + k) = j + (i + k)
      OBVIOUS
    <3> HIDE DEF Sum, p, rest
    <3>8. f[p] + (f[y] + rest) = f[y] + (f[p] + rest)
      BY <3>4, <3>7
    <3> QED BY <3>5, <3>6, <3>8 
  <2> QED BY <2>3, <2>4
<1>2. S \in G
  <2> HIDE DEF G
  <2> QED BY <1>1, FiniteInduction
<1> QED BY <1>2

LEMMA SumAdd ==
  ASSUME NEW S, IsFiniteSet(S), NEW f, NEW x, x \notin S, \A y \in S \cup {x} : f[y] \in Int
  PROVE  SumFunctionOnSet(f, S \cup {x}) = f[x] + SumFunctionOnSet(f, S)
<1>1. IsFiniteSet(S \cup {x}) /\ (S \cup {x}) \ {x} = S
  BY FS_AddElement
<1> QED BY <1>1, SumRemove

LEMMA SumSingle ==
  ASSUME NEW f, NEW x, f[x] \in Int
  PROVE  SumFunctionOnSet(f, {x}) = f[x]
<1>1. SumFunctionOnSet(f, {} \cup {x}) = f[x] + SumFunctionOnSet(f, {})
  BY SumAdd, FS_EmptySet
<1>2. {} \cup {x} = {x}
  OBVIOUS
<1> QED BY <1>1, <1>2, SumEmpty

LEMMA SumZero ==
  ASSUME NEW S, IsFiniteSet(S), NEW f, \A x \in S : f[x] = 0
  PROVE  SumFunctionOnSet(f, S) = 0
<1> DEFINE G == {T \in SUBSET S : SumFunctionOnSet(f, T) = 0}
<1>1. ASSUME NEW T \in SUBSET S, \A U \in SUBSET T : U # T => U \in G PROVE T \in G
  <2>1. IsFiniteSet(T)
    BY FS_Subset
  <2>2. CASE T = {}
    BY <2>2, SumEmpty
  <2>3. CASE T # {}
    <3>1. SumFunctionOnSet(f, T) = f[Some(T)] + SumFunctionOnSet(f, T \ {Some(T)})
      BY <2>1, <2>3, SumStep
    <3>2. Some(T) \in S /\ SumFunctionOnSet(f, T \ {Some(T)}) = 0
      BY <1>1, <2>3, SomeIn
    <3> QED BY <3>1, <3>2
  <2> QED BY <2>2, <2>3
<1> HIDE DEF G
<1>2. S \in G
  BY <1>1, FiniteInduction
<1> QED BY <1>2 DEF G

\* Functions that agree on a set have the same sum over it, and one that is at
\* most the other a sum that is at most the other's.
LEMMA SumMonotone ==
  ASSUME NEW S, IsFiniteSet(S), NEW f, NEW h,
         \A x \in S : f[x] \in Int /\ h[x] \in Int /\ f[x] <= h[x]
  PROVE  SumFunctionOnSet(f, S) <= SumFunctionOnSet(h, S)
<1> DEFINE G == {T \in SUBSET S : SumFunctionOnSet(f, T) <= SumFunctionOnSet(h, T)}
<1>1. ASSUME NEW T \in SUBSET S, \A U \in SUBSET T : U # T => U \in G PROVE T \in G
  <2>1. IsFiniteSet(T) /\ IsFiniteSet(T \ {Some(T)})
    BY FS_Subset
  <2>2. CASE T = {}
    BY <2>2, SumEmpty
  <2>3. CASE T # {}
    <3> DEFINE W == T \ {Some(T)}
    <3>1. /\ SumFunctionOnSet(f, T) = f[Some(T)] + SumFunctionOnSet(f, W)
          /\ SumFunctionOnSet(h, T) = h[Some(T)] + SumFunctionOnSet(h, W)
      BY <2>1, <2>3, SumStep
    <3>2. Some(T) \in S /\ W \in SUBSET T /\ W # T
      BY <2>3, SomeIn
    <3>3. SumFunctionOnSet(f, W) <= SumFunctionOnSet(h, W)
      BY <1>1, <3>2
    <3>4. SumFunctionOnSet(f, W) \in Int /\ SumFunctionOnSet(h, W) \in Int
      BY <2>1, SumType
    <3> QED BY <3>1, <3>2, <3>3, <3>4
  <2> QED BY <2>2, <2>3
<1> HIDE DEF G
<1>2. S \in G
  BY <1>1, FiniteInduction
<1> QED BY <1>2 DEF G

LEMMA SumSame ==
  ASSUME NEW S, IsFiniteSet(S), NEW f, NEW h,
         \A x \in S : f[x] \in Int /\ h[x] = f[x]
  PROVE  SumFunctionOnSet(h, S) = SumFunctionOnSet(f, S)
<1>1. /\ SumFunctionOnSet(f, S) <= SumFunctionOnSet(h, S)
      /\ SumFunctionOnSet(h, S) <= SumFunctionOnSet(f, S)
  BY SumMonotone
<1>2. SumFunctionOnSet(f, S) \in Int /\ SumFunctionOnSet(h, S) \in Int
  BY SumType
<1> QED BY <1>1, <1>2

\* A change at one element changes the sum by as much.
LEMMA SumChange ==
  ASSUME NEW S, IsFiniteSet(S), NEW f, NEW h, NEW x \in S,
         \A y \in S : f[y] \in Int /\ h[y] \in Int,
         \A y \in S \ {x} : h[y] = f[y]
  PROVE  SumFunctionOnSet(h, S) = SumFunctionOnSet(f, S) + h[x] - f[x]
<1>1. IsFiniteSet(S \ {x})
  BY FS_Subset
<1>2. SumFunctionOnSet(h, S \ {x}) = SumFunctionOnSet(f, S \ {x})
  BY <1>1, SumSame
<1>3. /\ SumFunctionOnSet(f, S) = f[x] + SumFunctionOnSet(f, S \ {x})
      /\ SumFunctionOnSet(h, S) = h[x] + SumFunctionOnSet(h, S \ {x})
  BY SumRemove
<1>4. SumFunctionOnSet(f, S \ {x}) \in Int
  BY <1>1, SumType
<1> QED BY <1>2, <1>3, <1>4

LEMMA SumNonNegative ==
  ASSUME NEW S, IsFiniteSet(S), NEW f, \A x \in S : f[x] \in Nat
  PROVE  SumFunctionOnSet(f, S) \in Nat
<1> DEFINE G == {T \in SUBSET S : SumFunctionOnSet(f, T) >= 0}
<1>1. ASSUME NEW T \in SUBSET S, \A U \in SUBSET T : U # T => U \in G PROVE T \in G
  <2>1. IsFiniteSet(T) /\ IsFiniteSet(T \ {Some(T)})
    BY FS_Subset
  <2>2. CASE T = {}
    BY <2>2, SumEmpty
  <2>3. CASE T # {}
    <3> DEFINE W == T \ {Some(T)}
    <3>1. SumFunctionOnSet(f, T) = f[Some(T)] + SumFunctionOnSet(f, W)
      BY <2>1, <2>3, SumStep
    <3>2. Some(T) \in S /\ SumFunctionOnSet(f, W) >= 0
      BY <1>1, <2>3, SomeIn
    <3>3. SumFunctionOnSet(f, W) \in Int
      BY <2>1, SumType
    <3> QED BY <3>1, <3>2, <3>3
  <2> QED BY <2>2, <2>3
<1>2. S \in G
  <2> HIDE DEF G
  <2> QED BY <1>1, FiniteInduction
<1>3. SumFunctionOnSet(f, S) \in Int
  BY SumType
<1> QED BY <1>2, <1>3

\* Without one element, and over any subset, natural numbers sum up to at most
\* what they do over the whole set.
LEMMA SumSubset ==
  ASSUME NEW S, IsFiniteSet(S), NEW f, \A x \in S : f[x] \in Nat, NEW x \in S
  PROVE  SumFunctionOnSet(f, S \ {x}) <= SumFunctionOnSet(f, S)
<1>1. IsFiniteSet(S \ {x})
  BY FS_Subset
<1>2. SumFunctionOnSet(f, S) = f[x] + SumFunctionOnSet(f, S \ {x})
  BY SumRemove
<1>3. SumFunctionOnSet(f, S \ {x}) \in Nat
  BY <1>1, SumNonNegative
<1> QED BY <1>2, <1>3

LEMMA SumOfSubset ==
  ASSUME NEW S, IsFiniteSet(S), NEW f, \A x \in S : f[x] \in Nat, NEW R \in SUBSET S
  PROVE  SumFunctionOnSet(f, R) <= SumFunctionOnSet(f, S)
<1> DEFINE Sum(T) == SumFunctionOnSet(f, T)
           G == {T \in SUBSET S : \A U \in SUBSET T : Sum(U) <= Sum(T)}
<1>1. \A T \in SUBSET S : IsFiniteSet(T) /\ Sum(T) \in Nat
  <2> TAKE T \in SUBSET S
  <2>1. IsFiniteSet(T)
    BY FS_Subset
  <2> QED BY <2>1, SumNonNegative
<1>2. ASSUME NEW T \in SUBSET S, \A U \in SUBSET T : U # T => U \in G PROVE T \in G
  <2> SUFFICES ASSUME NEW U \in SUBSET T PROVE Sum(U) <= Sum(T)
    OBVIOUS
  <2>1. CASE U = T
    BY <1>1, <2>1
  <2>2. CASE U # T
    <3>1. PICK x \in T : x \notin U
      BY <2>2
    <3> DEFINE W == T \ {x}
    <3>2. W \in SUBSET T /\ W # T /\ U \in SUBSET W
      BY <3>1
    <3>3. Sum(U) <= Sum(W)
      BY <1>2, <3>2
    <3>4. Sum(W) <= Sum(T)
      BY <1>1, SumSubset
    <3>5. Sum(U) \in Nat /\ Sum(W) \in Nat /\ Sum(T) \in Nat
      BY <1>1, <3>2
    <3> HIDE DEF Sum, W
    <3> QED BY <3>3, <3>4, <3>5
  <2> QED BY <2>1, <2>2
<1>3. S \in G
  <2> HIDE DEF G
  <2> QED BY <1>2, FiniteInduction
<1> QED BY <1>3
=============================================================================
