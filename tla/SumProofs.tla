------------------------------ MODULE SumProofs ------------------------------
(***************************************************************************)
(* Lemmas about finite sums, for the proofs about seats, and the           *)
(* inductions and the least members they and other proofs need.            *)
(*                                                                         *)
(* An induction is stated about a set, the set of the data of which the    *)
(* claim holds: a non-empty set of finite sets, or of numbers, that misses *)
(* nothing below its members has a least member outside it.                *)
(***************************************************************************)
EXTENDS Integers, FiniteSets, Functions, FiniteSetTheorems, WellFoundedInduction, TLAPS

-----------------------------------------------------------------------------
\* A claim about finite sets that passes from the strict subsets of a set to the
\* set holds of all subsets of U.
LEMMA SetInduction ==
  ASSUME NEW U, IsFiniteSet(U), NEW G,
         \A T \in SUBSET U : (\A V \in SUBSET T : V # T => V \in G) => T \in G
  PROVE  SUBSET U \subseteq G
<1> DEFINE Bad == (SUBSET U) \ G
<1> SUFFICES ASSUME Bad # {} PROVE FALSE
  OBVIOUS
<1>1. Bad \subseteq FiniteSubsetsOf(U)
  BY FS_Subset DEF FiniteSubsetsOf
<1>2. PICK T \in Bad : \A V \in Bad : <<V, T>> \notin StrictSubsetOrdering(U)
  <2> HIDE DEF Bad
  <2> QED BY <1>1, FS_StrictSubsetOrderingWellFounded, WFMin
<1>3. ASSUME NEW V \in SUBSET T, V # T, V \notin G
      PROVE  FALSE
  <2>1. V \in Bad /\ T \in SUBSET U /\ V \in SUBSET U
    BY <1>2, <1>3
  <2>2. <<V, T>> \in StrictSubsetOrdering(U)
    BY <1>3, <2>1 DEF StrictSubsetOrdering
  <2> QED BY <1>2, <2>1, <2>2
<1>4. T \in SUBSET U /\ T \notin G
  OBVIOUS
<1>5. \A V \in SUBSET T : V # T => V \in G
  BY <1>3
<1> QED BY <1>4, <1>5

\* Every non-empty set of natural numbers has a least member.
LEMMA LeastNumber ==
  ASSUME NEW S \in SUBSET Nat, S # {}
  PROVE  \E m \in S : \A k \in S : m <= k
<1>1. PICK m \in S : \A k \in S : <<k, m>> \notin OpToRel(<, Nat)
  BY NatLessThanWellFounded, WFMin
<1>2. ASSUME NEW k \in S PROVE m <= k
  <2>1. ~(k < m)
    BY <1>1 DEF OpToRel
  <2> QED BY <2>1
<1> QED BY <1>2

\* And a greatest one if it is bounded.
LEMMA GreatestNumber ==
  ASSUME NEW n \in Nat, NEW S \in SUBSET (1..n), S # {}
  PROVE  \E m \in S : \A k \in S : k <= m
<1> DEFINE Mirror == {n - i : i \in S}
<1>1. Mirror \in SUBSET Nat /\ Mirror # {}
  <2>1. \A i \in S : n - i \in Nat
    OBVIOUS
  <2>2. \A d \in Mirror : d \in Nat
    BY <2>1
  <2> QED BY <2>2
<1>2. PICK d \in Mirror : \A k \in Mirror : d <= k
  <2> HIDE DEF Mirror
  <2> QED BY <1>1, LeastNumber
<1>3. PICK m \in S : d = n - m
  OBVIOUS
<1>4. ASSUME NEW k \in S PROVE k <= m
  <2>1. n - m <= n - k
    BY <1>2, <1>3
  <2>2. k \in Int /\ m \in Int
    OBVIOUS
  <2> QED BY <2>1, <2>2
<1> QED BY <1>4

\* A set of natural numbers with 0 that is closed under successor has all.
LEMMA NumberInduction ==
  ASSUME NEW G, 0 \in G, \A n \in Nat : n \in G => n + 1 \in G
  PROVE  Nat \subseteq G
<1> DEFINE Bad == Nat \ G
<1> SUFFICES ASSUME Bad # {} PROVE FALSE
  OBVIOUS
<1>1. PICK m \in Bad : \A k \in Bad : m <= k
  <2>1. Bad \in SUBSET Nat
    OBVIOUS
  <2> HIDE DEF Bad
  <2> QED BY <2>1, LeastNumber
<1>2. m \in Nat /\ m \notin G /\ m # 0
  OBVIOUS
<1>3. m - 1 \in Nat /\ (m - 1) + 1 = m
  BY <1>2
<1>4. m - 1 \in Bad
  BY <1>2, <1>3
<1> QED BY <1>1, <1>2, <1>4

-----------------------------------------------------------------------------
(* SumFunctionOnSet(f, S) takes S apart element by element: its value at S *)
(* of a function of the subsets of S that satisfies the equation Unfolds.  *)
(* That there is such a function, and only one, is what the definition     *)
(* leaves to be shown.                                                     *)

Chosen(s) == CHOOSE x \in s : TRUE

Unfolds(f, A, g) ==
  g = [s \in SUBSET A |-> IF s = {} THEN 0 ELSE f[Chosen(s)] + g[s \ {Chosen(s)}]]

Partial(f, A) == CHOOSE g : Unfolds(f, A, g)

LEMMA SumIsPartial ==
  ASSUME NEW f, NEW S
  PROVE  SumFunctionOnSet(f, S) = Partial(f, S)[S]
BY DEF SumFunctionOnSet, FoldFunctionOnSet, MapThenFoldSet, Partial, Unfolds, Chosen

LEMMA ChosenIsIn == ASSUME NEW s, s # {} PROVE Chosen(s) \in s
BY DEF Chosen

\* Two such functions agree where both are defined.
LEMMA UnfoldsOnce ==
  ASSUME NEW f, NEW A, NEW B, IsFiniteSet(A), NEW g, NEW k, Unfolds(f, A, g),
         Unfolds(f, B, k), B \subseteq A
  PROVE  \A s \in SUBSET B : g[s] = k[s]
<1> DEFINE G == {s \in SUBSET B : g[s] = k[s]}
<1>1. ASSUME NEW T \in SUBSET B, \A V \in SUBSET T : V # T => V \in G
      PROVE  T \in G
  <2>1. CASE T = {}
    BY <2>1 DEF Unfolds
  <2>2. CASE T # {}
    <3>1. Chosen(T) \in T
      BY <2>2, ChosenIsIn
    <3>2. g[T \ {Chosen(T)}] = k[T \ {Chosen(T)}]
      BY <1>1, <3>1
    <3>3. g[T] = f[Chosen(T)] + g[T \ {Chosen(T)}] /\ k[T] = f[Chosen(T)] + k[T \ {Chosen(T)}]
      BY <2>2 DEF Unfolds
    <3> QED BY <3>2, <3>3
  <2> QED BY <2>1, <2>2
<1>2. IsFiniteSet(B)
  BY FS_Subset
<1>3. SUBSET B \subseteq G
  <2> HIDE DEF G
  <2> QED BY <1>1, <1>2, SetInduction
<1> QED BY <1>3

\* There is one on a set when there is one on each of its strict subsets.
LEMMA UnfoldsNext ==
  ASSUME NEW f, NEW T, IsFiniteSet(T),
         \A V \in SUBSET T : V # T => Unfolds(f, V, Partial(f, V))
  PROVE  Unfolds(f, T, Partial(f, T))
<1> DEFINE at(s) == Partial(f, s)[s]
           g == [s \in SUBSET T |-> IF s = {} THEN 0 ELSE f[Chosen(s)] + at(s \ {Chosen(s)})]
<1>1. ASSUME NEW s \in SUBSET T, s # T PROVE g[s] = at(s)
  <2>1. CASE s = {}
    BY <1>1, <2>1 DEF Unfolds
  <2>2. CASE s # {}
    <3>1. Chosen(s) \in s
      BY <2>2, ChosenIsIn
    <3>2. Unfolds(f, s, Partial(f, s))
      BY <1>1
    <3>3. Unfolds(f, s \ {Chosen(s)}, Partial(f, s \ {Chosen(s)}))
      BY <1>1, <3>1
    <3>4. IsFiniteSet(s)
      BY FS_Subset
    <3>5. Partial(f, s)[s \ {Chosen(s)}] = at(s \ {Chosen(s)})
      BY <3>2, <3>3, <3>4, UnfoldsOnce
    <3>6. at(s) = f[Chosen(s)] + Partial(f, s)[s \ {Chosen(s)}]
      BY <2>2, <3>2 DEF Unfolds
    <3> QED BY <2>2, <3>5, <3>6
  <2> QED BY <2>1, <2>2
<1>2. ASSUME NEW s \in SUBSET T, s # {} PROVE g[s] = f[Chosen(s)] + g[s \ {Chosen(s)}]
  <2>1. Chosen(s) \in s
    BY <1>2, ChosenIsIn
  <2>2. g[s \ {Chosen(s)}] = at(s \ {Chosen(s)})
    BY <1>1, <2>1
  <2> QED BY <1>2, <2>2
<1>3. g = [s \in SUBSET T |-> IF s = {} THEN 0 ELSE f[Chosen(s)] + g[s \ {Chosen(s)}]]
  <2>1. \A s \in SUBSET T : g[s] = IF s = {} THEN 0 ELSE f[Chosen(s)] + g[s \ {Chosen(s)}]
    BY <1>2
  <2>2. g = [s \in SUBSET T |-> g[s]]
    OBVIOUS
  <2> HIDE DEF g
  <2> QED BY <2>1, <2>2
<1>4. \E k : Unfolds(f, T, k)
  <2> HIDE DEF g
  <2> QED BY <1>3 DEF Unfolds
<1> QED BY <1>4 DEF Partial

LEMMA PartialUnfolds ==
  ASSUME NEW f, NEW S, IsFiniteSet(S)
  PROVE  Unfolds(f, S, Partial(f, S))
<1> DEFINE G == {T \in SUBSET S : Unfolds(f, T, Partial(f, T))}
<1>1. ASSUME NEW T \in SUBSET S, \A V \in SUBSET T : V # T => V \in G
      PROVE  T \in G
  BY <1>1, UnfoldsNext, FS_Subset
<1>2. SUBSET S \subseteq G
  <2> HIDE DEF G
  <2> QED BY <1>1, SetInduction
<1> QED BY <1>2

-----------------------------------------------------------------------------
LEMMA SumEmpty == ASSUME NEW f PROVE SumFunctionOnSet(f, {}) = 0
<1>1. Unfolds(f, {}, Partial(f, {}))
  BY PartialUnfolds, FS_EmptySet
<1>2. Partial(f, {})[{}] = 0
  BY <1>1 DEF Unfolds
<1> QED BY <1>2, SumIsPartial

\* A sum is that of its elements but one, and that one: the one of CHOOSE.
LEMMA SumUnfolds ==
  ASSUME NEW f, NEW S, IsFiniteSet(S), S # {}
  PROVE  SumFunctionOnSet(f, S) = f[Chosen(S)] + SumFunctionOnSet(f, S \ {Chosen(S)})
<1> DEFINE A == S \ {Chosen(S)}
<1>1. A \in SUBSET S /\ IsFiniteSet(A)
  BY FS_Subset
<1>u. Unfolds(f, S, Partial(f, S)) /\ Unfolds(f, A, Partial(f, A))
  BY <1>1, PartialUnfolds
<1>2. Partial(f, S)[S] = f[Chosen(S)] + Partial(f, S)[A]
  BY <1>u DEF Unfolds
<1>3. Partial(f, S)[A] = Partial(f, A)[A]
  <2>1. A \subseteq S /\ A \in SUBSET A
    OBVIOUS
  <2> HIDE DEF A
  <2>2. \A s \in SUBSET A : Partial(f, S)[s] = Partial(f, A)[s]
    BY <1>u, <2>1, UnfoldsOnce
  <2> QED BY <2>1, <2>2
<1> QED BY <1>2, <1>3, SumIsPartial

\* A sum of natural numbers is one.
LEMMA SumType ==
  ASSUME NEW f, NEW S, IsFiniteSet(S), \A x \in S : f[x] \in Nat
  PROVE  SumFunctionOnSet(f, S) \in Nat
<1> DEFINE G == {T \in SUBSET S : SumFunctionOnSet(f, T) \in Nat}
<1>1. ASSUME NEW T \in SUBSET S, \A V \in SUBSET T : V # T => V \in G
      PROVE  T \in G
  <2>1. CASE T = {}
    BY <2>1, SumEmpty
  <2>2. CASE T # {}
    <3>1. Chosen(T) \in T
      BY <2>2, ChosenIsIn
    <3>2. SumFunctionOnSet(f, T \ {Chosen(T)}) \in Nat /\ f[Chosen(T)] \in Nat
      BY <1>1, <3>1
    <3>3. SumFunctionOnSet(f, T) = f[Chosen(T)] + SumFunctionOnSet(f, T \ {Chosen(T)})
      BY <2>2, SumUnfolds, FS_Subset
    <3> QED BY <3>2, <3>3
  <2> QED BY <2>1, <2>2
<1>2. SUBSET S \subseteq G
  <2> HIDE DEF G
  <2> QED BY <1>1, SetInduction
<1> QED BY <1>2

\* ... and the one may be any.
LEMMA SumRemove ==
  ASSUME NEW f, NEW S, IsFiniteSet(S), \A x \in S : f[x] \in Nat, NEW x \in S
  PROVE  SumFunctionOnSet(f, S) = f[x] + SumFunctionOnSet(f, S \ {x})
<1> DEFINE sum(T) == SumFunctionOnSet(f, T)
           G == {T \in SUBSET S : \A y \in T : sum(T) = f[y] + sum(T \ {y})}
<1>1. ASSUME NEW T \in SUBSET S, \A V \in SUBSET T : V # T => V \in G
      PROVE  T \in G
  <2> SUFFICES ASSUME NEW y \in T PROVE sum(T) = f[y] + sum(T \ {y})
    OBVIOUS
  <2>1. PICK c \in T : sum(T) = f[c] + sum(T \ {c})
    BY SumUnfolds, FS_Subset, ChosenIsIn
  <2>2. CASE c = y
    BY <2>1, <2>2
  <2>3. CASE c # y
    <3>1. T \ {c} \in G /\ T \ {y} \in G
      BY <1>1
    <3>2. sum(T \ {c}) = f[y] + sum((T \ {c}) \ {y})
      BY <2>3, <3>1
    <3>3. sum(T \ {y}) = f[c] + sum((T \ {y}) \ {c})
      BY <2>3, <3>1
    <3>4. (T \ {c}) \ {y} = (T \ {y}) \ {c}
      OBVIOUS
    <3>5. sum((T \ {y}) \ {c}) \in Nat /\ f[y] \in Nat /\ f[c] \in Nat
      BY SumType, FS_Subset
    <3> QED BY <2>1, <3>2, <3>3, <3>4, <3>5
  <2> QED BY <2>2, <2>3
<1>2. SUBSET S \subseteq G
  <2> HIDE DEF G
  <2> QED BY <1>1, SetInduction
<1> QED BY <1>2

LEMMA SumAdd ==
  ASSUME NEW f, NEW S, IsFiniteSet(S), NEW x, x \notin S,
         \A y \in S \cup {x} : f[y] \in Nat
  PROVE  SumFunctionOnSet(f, S \cup {x}) = f[x] + SumFunctionOnSet(f, S)
<1>1. IsFiniteSet(S \cup {x}) /\ (S \cup {x}) \ {x} = S
  BY FS_AddElement
<1> QED BY <1>1, SumRemove

\* Sums of the same numbers are the same.
LEMMA SumSame ==
  ASSUME NEW f, NEW g, NEW S, IsFiniteSet(S), \A x \in S : f[x] = g[x]
  PROVE  SumFunctionOnSet(f, S) = SumFunctionOnSet(g, S)
<1> DEFINE G == {T \in SUBSET S : SumFunctionOnSet(f, T) = SumFunctionOnSet(g, T)}
<1>1. ASSUME NEW T \in SUBSET S, \A V \in SUBSET T : V # T => V \in G
      PROVE  T \in G
  <2>1. CASE T = {}
    BY <2>1, SumEmpty
  <2>2. CASE T # {}
    <3>1. Chosen(T) \in T
      BY <2>2, ChosenIsIn
    <3>2. T \ {Chosen(T)} \in G /\ f[Chosen(T)] = g[Chosen(T)]
      BY <1>1, <3>1
    <3>3. /\ SumFunctionOnSet(f, T) = f[Chosen(T)] + SumFunctionOnSet(f, T \ {Chosen(T)})
          /\ SumFunctionOnSet(g, T) = g[Chosen(T)] + SumFunctionOnSet(g, T \ {Chosen(T)})
      BY <2>2, SumUnfolds, FS_Subset
    <3> QED BY <3>2, <3>3
  <2> QED BY <2>1, <2>2
<1>2. SUBSET S \subseteq G
  <2> HIDE DEF G
  <2> QED BY <1>1, SetInduction
<1> QED BY <1>2
=============================================================================
