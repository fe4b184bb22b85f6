----------------------------- MODULE FiniteSums -----------------------------
(***************************************************************************)
(* Sums over a finite set, as SumFunctionOnSet of the community modules    *)
(* takes them.  The operator picks the elements one by one; the lemmas     *)
(* show that a sum exists, does not depend on the order, and what becomes  *)
(* of it when one element or the function changes.  Every induction is     *)
(* over the subsets of a finite set, whose proper-subset ordering is well  *)
(* founded: SubsetInduction speaks of a set of subsets where the induction *)
(* theorem of the library speaks of a predicate.                           *)
(***************************************************************************)
EXTENDS FiniteSetsExt, FiniteSetTheorems, TLAPS

\* The element the operator takes out of a set, and the recursion over the subsets.
First(s) == CHOOSE x \in s : TRUE

Sums(g, f, S) ==
  g = [s \in SUBSET S |-> IF s = {} THEN 0 ELSE f[First(s)] + g[s \ {First(s)}]]

TheSums(f, S) == CHOOSE g : Sums(g, f, S)

-----------------------------------------------------------------------------
(* Induction *)

\* A set of subsets of S that contains a set whenever it contains its proper subsets.
LEMMA SubsetInduction ==
  ASSUME NEW S, IsFiniteSet(S), NEW G,
         \A T \in SUBSET S : (\A U \in SUBSET T : U # T => U \in G) => T \in G
  PROVE  \A T \in SUBSET S : T \in G
<1> DEFINE Bad == {T \in SUBSET S : T \notin G}
<1>1. IsWellFoundedOn(StrictSubsetOrdering(S), SUBSET S)
  BY FS_StrictSubsetOrderingWellFounded, FS_FiniteSubsetsOfFinite
<1>2. SUFFICES ASSUME Bad # {} PROVE FALSE
  OBVIOUS
<1>3. PICK T \in Bad : \A U \in Bad : ~(<<U, T>> \in StrictSubsetOrdering(S))
  <2>1. Bad \subseteq SUBSET S
    OBVIOUS
  <2> HIDE DEF Bad
  <2> QED  BY <1>1, <1>2, <2>1, WFMin
<1>4. \A U \in SUBSET T : U # T => U \in G
  BY <1>3 DEF StrictSubsetOrdering
<1> QED  BY <1>3, <1>4

\* The element picked first is one of the set.
LEMMA FirstIn ==
  ASSUME NEW s, s # {}
  PROVE  First(s) \in s
BY DEF First

-----------------------------------------------------------------------------
(* The recursion has one solution *)

\* One step of the recursion.
LEMMA SumsAt ==
  ASSUME NEW f, NEW S, NEW g, Sums(g, f, S), NEW s \in SUBSET S
  PROVE  g[s] = IF s = {} THEN 0 ELSE f[First(s)] + g[s \ {First(s)}]
BY DEF Sums

\* The recursion has at most one solution.
LEMMA SumsUnique ==
  ASSUME NEW f, NEW S, IsFiniteSet(S), NEW g, NEW h, Sums(g, f, S), Sums(h, f, S)
  PROVE  g = h
<1> DEFINE G == {T \in SUBSET S : g[T] = h[T]}
<1>1. ASSUME NEW T \in SUBSET S, \A U \in SUBSET T : U # T => U \in G
      PROVE  T \in G
  <2>1. CASE T = {}
    BY <2>1, SumsAt
  <2>2. CASE T # {}
    <3>1. First(T) \in T
      BY <2>2, FirstIn
    <3>2. T \ {First(T)} \in SUBSET T /\ T \ {First(T)} # T
      BY <3>1
    <3>3. g[T \ {First(T)}] = h[T \ {First(T)}]
      BY <1>1, <3>2
    <3>4. g[T] = f[First(T)] + g[T \ {First(T)}] /\ h[T] = f[First(T)] + h[T \ {First(T)}]
      BY <2>2, SumsAt
    <3> QED  BY <3>3, <3>4
  <2> QED  BY <2>1, <2>2
<1>2. \A T \in SUBSET S : T \in G
  <2> HIDE DEF G
  <2> QED  BY <1>1, SubsetInduction
<1>3. \A T \in SUBSET S : g[T] = h[T]
  BY <1>2
<1>4. g = [T \in SUBSET S |-> g[T]] /\ h = [T \in SUBSET S |-> h[T]]
  BY DEF Sums
<1> QED  BY <1>3, <1>4, Zenon

\* Its restriction to a subset is the solution there.
LEMMA SumsRestrict ==
  ASSUME NEW f, NEW S, NEW g, Sums(g, f, S), NEW T \in SUBSET S
  PROVE  Sums([s \in SUBSET T |-> g[s]], f, T)
<1> DEFINE h == [s \in SUBSET T |-> g[s]]
<1>1. ASSUME NEW s \in SUBSET T
      PROVE  h[s] = IF s = {} THEN 0 ELSE f[First(s)] + h[s \ {First(s)}]
  <2>1. s \in SUBSET S /\ s \ {First(s)} \in SUBSET T
    OBVIOUS
  <2>2. g[s] = IF s = {} THEN 0 ELSE f[First(s)] + g[s \ {First(s)}]
    BY <2>1, SumsAt
  <2>3. h[s] = g[s] /\ h[s \ {First(s)}] = g[s \ {First(s)}]
    BY <2>1
  <2> QED  BY <2>2, <2>3
<1>2. h = [s \in SUBSET T |-> h[s]]
  OBVIOUS
<1> HIDE DEF h
<1>3. h = [s \in SUBSET T |-> IF s = {} THEN 0 ELSE f[First(s)] + h[s \ {First(s)}]]
  BY <1>1, <1>2
<1>4. Sums(h, f, T)
  BY <1>3 DEF Sums
<1> QED  BY <1>4 DEF h

\* Where the proper subsets of T have solutions, they agree with each other.
LEMMA SumsAgree ==
  ASSUME NEW f, NEW U, IsFiniteSet(U), Sums(TheSums(f, U), f, U), NEW V \in SUBSET U
  PROVE  TheSums(f, U)[V] = TheSums(f, V)[V]
<1> DEFINE h == [s \in SUBSET V |-> TheSums(f, U)[s]]
<1>1. Sums(h, f, V)
  BY SumsRestrict
<1>2. h[V] = TheSums(f, U)[V]
  OBVIOUS
<1> HIDE DEF h
<1>3. Sums(TheSums(f, V), f, V)
  BY <1>1 DEF TheSums
<1>4. IsFiniteSet(V)
  BY FS_Subset
<1>5. TheSums(f, V) = h
  BY <1>1, <1>3, <1>4, SumsUnique
<1> QED  BY <1>2, <1>5

\* And it has one.
LEMMA SumsExist ==
  ASSUME NEW f, NEW S, IsFiniteSet(S)
  PROVE  Sums(TheSums(f, S), f, S)
<1> DEFINE G == {T \in SUBSET S : Sums(TheSums(f, T), f, T)}
<1>1. ASSUME NEW T \in SUBSET S, \A U \in SUBSET T : U # T => U \in G
      PROVE  T \in G
  <2> DEFINE At(s) == TheSums(f, s)[s]
             g == [s \in SUBSET T |-> IF s = {} THEN 0 ELSE f[First(s)] + At(s \ {First(s)})]
  <2>1. ASSUME NEW s \in SUBSET T
        PROVE  g[s] = IF s = {} THEN 0 ELSE f[First(s)] + g[s \ {First(s)}]
    <3>1. CASE s = {}
      BY <3>1
    <3>2. CASE s # {}
      <4> DEFINE U == s \ {First(s)}
      <4>1. U \in SUBSET T /\ U # T /\ IsFiniteSet(U)
        <5>1. First(s) \in s
          BY <3>2, FirstIn
        <5>2. U \in SUBSET S /\ U \in SUBSET T /\ U # T
          BY <5>1
        <5> QED  BY <5>2, FS_Subset
      <4>2. Sums(TheSums(f, U), f, U)
        BY <1>1, <4>1
      <4>3. At(U) = g[U]
        <5>1. At(U) = IF U = {} THEN 0 ELSE f[First(U)] + TheSums(f, U)[U \ {First(U)}]
          <6>1. U \in SUBSET U
            OBVIOUS
          <6> HIDE DEF U
          <6> QED  BY <4>2, <6>1, SumsAt
        <5>2. U \ {First(U)} \in SUBSET U
          OBVIOUS
        <5>3. TheSums(f, U)[U \ {First(U)}] = At(U \ {First(U)})
          BY <4>1, <4>2, <5>2, SumsAgree
        <5>4. g[U] = IF U = {} THEN 0 ELSE f[First(U)] + At(U \ {First(U)})
          BY <4>1
        <5> QED  BY <5>1, <5>3, <5>4
      <4>4. g[s] = f[First(s)] + At(U)
        BY <3>2
      <4> QED  BY <3>2, <4>3, <4>4
    <3> QED  BY <3>1, <3>2
  <2>2. g = [s \in SUBSET T |-> g[s]]
    OBVIOUS
  <2> HIDE DEF g
  <2>3. Sums(g, f, T)
    BY <2>1, <2>2 DEF Sums
  <2>4. Sums(TheSums(f, T), f, T)
    BY <2>3 DEF TheSums
  <2> QED  BY <2>4
<1>2. \A T \in SUBSET S : T \in G
  <2> HIDE DEF G
  <2> QED  BY <1>1, SubsetInduction
<1> QED  BY <1>2

-----------------------------------------------------------------------------
(* Sums *)

\* The sum of the community modules is this solution.
LEMMA SumIsTheSum ==
  ASSUME NEW f, NEW S
  PROVE  SumFunctionOnSet(f, S) = TheSums(f, S)[S]
BY DEF SumFunctionOnSet, FoldFunctionOnSet, MapThenFoldSet, TheSums, Sums, First

\* Nothing adds up to zero.
LEMMA SumEmpty ==
  ASSUME NEW f
  PROVE  SumFunctionOnSet(f, {}) = 0
<1>1. Sums(TheSums(f, {}), f, {})
  BY SumsExist, FS_EmptySet
<1> QED  BY <1>1, SumsAt, SumIsTheSum

\* A sum is its first element and the sum of the others.
LEMMA SumFirst ==
  ASSUME NEW f, NEW S, IsFiniteSet(S), S # {}
  PROVE  /\ First(S) \in S
         /\ SumFunctionOnSet(f, S) = f[First(S)] + SumFunctionOnSet(f, S \ {First(S)})
<1>1. Sums(TheSums(f, S), f, S)
  BY SumsExist
<1>2. TheSums(f, S)[S] = f[First(S)] + TheSums(f, S)[S \ {First(S)}]
  BY <1>1, SumsAt
<1>3. S \ {First(S)} \in SUBSET S
  OBVIOUS
<1>4. TheSums(f, S)[S \ {First(S)}] = TheSums(f, S \ {First(S)})[S \ {First(S)}]
  BY <1>1, <1>3, SumsAgree
<1> QED  BY <1>2, <1>4, SumIsTheSum, FirstIn

\* A sum of integers is an integer.
LEMMA SumType ==
  ASSUME NEW f, NEW S, IsFiniteSet(S), \A x \in S : f[x] \in Int
  PROVE  \A T \in SUBSET S : SumFunctionOnSet(f, T) \in Int
<1> DEFINE G == {T \in SUBSET S : SumFunctionOnSet(f, T) \in Int}
<1>1. ASSUME NEW T \in SUBSET S, \A U \in SUBSET T : U # T => U \in G
      PROVE  T \in G
  <2>1. CASE T = {}
    BY <2>1, SumEmpty
  <2>2. CASE T # {}
    <3>1. IsFiniteSet(T)
      BY FS_Subset
    <3>2. /\ First(T) \in T
          /\ SumFunctionOnSet(f, T) = f[First(T)] + SumFunctionOnSet(f, T \ {First(T)})
      BY <2>2, <3>1, SumFirst
    <3>3. SumFunctionOnSet(f, T \ {First(T)}) \in Int
      BY <1>1, <3>2
    <3> QED  BY <3>2, <3>3
  <2> QED  BY <2>1, <2>2
<1>2. \A T \in SUBSET S : T \in G
  <2> HIDE DEF G
  <2> QED  BY <1>1, SubsetInduction
<1> QED  BY <1>2

\* Any element may be taken out first.
LEMMA SumTake ==
  ASSUME NEW f, NEW S, IsFiniteSet(S), \A y \in S : f[y] \in Int
  PROVE  \A T \in SUBSET S : \A x \in T :
           SumFunctionOnSet(f, T) = f[x] + SumFunctionOnSet(f, T \ {x})
<1> DEFINE sum(T) == SumFunctionOnSet(f, T)
           G == {T \in SUBSET S : \A x \in T : sum(T) = f[x] + sum(T \ {x})}
<1>0. \A T \in SUBSET S : sum(T) \in Int
  BY SumType
<1>1. ASSUME NEW T \in SUBSET S, \A U \in SUBSET T : U # T => U \in G
      PROVE  T \in G
  <2> SUFFICES ASSUME NEW x \in T PROVE sum(T) = f[x] + sum(T \ {x})
    OBVIOUS
  <2> DEFINE c == First(T)
  <2>1. IsFiniteSet(T) /\ T \ {x} \in SUBSET T /\ T \ {x} # T /\ T \ {c} \in SUBSET T
    BY FS_Subset
  <2>2. c \in T /\ sum(T) = f[c] + sum(T \ {c}) /\ T \ {c} # T
    BY <2>1, SumFirst
  <2> HIDE DEF c
  <2>3. CASE x # c
    <3>1. x \in T \ {c} /\ c \in T \ {x}
      BY <2>2, <2>3
    <3>2. sum(T \ {c}) = f[x] + sum((T \ {c}) \ {x})
      BY <1>1, <2>1, <2>2, <3>1
    <3>3. sum(T \ {x}) = f[c] + sum((T \ {x}) \ {c})
      BY <1>1, <2>1, <3>1
    <3> DEFINE rest == (T \ {c}) \ {x}
    <3>4. (T \ {x}) \ {c} = rest
      OBVIOUS
    <3>5. sum(rest) \in Int /\ f[c] \in Int /\ f[x] \in Int
      BY <1>0, <2>2
    <3>6. sum(T \ {c}) = f[x] + sum(rest) /\ sum(T \ {x}) = f[c] + sum(rest)
      BY <3>2, <3>3, <3>4
    <3> HIDE DEF rest, sum
    <3> QED  BY <2>2, <3>5, <3>6
  <2> QED  BY <2>2, <2>3
<1>2. \A T \in SUBSET S : T \in G
  <2> HIDE DEF G
  <2> QED  BY <1>1, SubsetInduction
<1> QED  BY <1>2

\* Functions that agree on a set have the same sum over it.
LEMMA SumSame ==
  ASSUME NEW f, NEW g, NEW S, IsFiniteSet(S), \A x \in S : f[x] = g[x]
  PROVE  SumFunctionOnSet(f, S) = SumFunctionOnSet(g, S)
<1> DEFINE G == {T \in SUBSET S : SumFunctionOnSet(f, T) = SumFunctionOnSet(g, T)}
<1>1. ASSUME NEW T \in SUBSET S, \A U \in SUBSET T : U # T => U \in G
      PROVE  T \in G
  <2>1. CASE T = {}
    BY <2>1, SumEmpty
  <2>2. CASE T # {}
    <3>1. IsFiniteSet(T)
      BY FS_Subset
    <3>2. /\ First(T) \in T
          /\ SumFunctionOnSet(f, T) = f[First(T)] + SumFunctionOnSet(f, T \ {First(T)})
          /\ SumFunctionOnSet(g, T) = g[First(T)] + SumFunctionOnSet(g, T \ {First(T)})
      BY <2>2, <3>1, SumFirst
    <3>3. SumFunctionOnSet(f, T \ {First(T)}) = SumFunctionOnSet(g, T \ {First(T)})
      BY <1>1, <3>2
    <3> QED  BY <3>2, <3>3
  <2> QED  BY <2>1, <2>2
<1>2. \A T \in SUBSET S : T \in G
  <2> HIDE DEF G
  <2> QED  BY <1>1, SubsetInduction
<1> QED  BY <1>2

\* The sum grows with the function; nothing is smaller than the sum of zeros.
LEMMA SumMonotone ==
  ASSUME NEW f, NEW g, NEW S, IsFiniteSet(S),
         \A x \in S : f[x] \in Int /\ g[x] \in Int /\ f[x] <= g[x]
  PROVE  SumFunctionOnSet(f, S) <= SumFunctionOnSet(g, S)
<1> DEFINE G == {T \in SUBSET S : SumFunctionOnSet(f, T) <= SumFunctionOnSet(g, T)}
<1>1. ASSUME NEW T \in SUBSET S, \A U \in SUBSET T : U # T => U \in G
      PROVE  T \in G
  <2>1. CASE T = {}
    BY <2>1, SumEmpty
  <2>2. CASE T # {}
    <3>1. IsFiniteSet(T)
      BY FS_Subset
    <3>2. /\ First(T) \in T
          /\ SumFunctionOnSet(f, T) = f[First(T)] + SumFunctionOnSet(f, T \ {First(T)})
          /\ SumFunctionOnSet(g, T) = g[First(T)] + SumFunctionOnSet(g, T \ {First(T)})
      BY <2>2, <3>1, SumFirst
    <3>3. SumFunctionOnSet(f, T \ {First(T)}) <= SumFunctionOnSet(g, T \ {First(T)})
      BY <1>1, <3>2
    <3>4. /\ SumFunctionOnSet(f, T \ {First(T)}) \in Int
          /\ SumFunctionOnSet(g, T \ {First(T)}) \in Int
      BY SumType
    <3> QED  BY <3>2, <3>3, <3>4
  <2> QED  BY <2>1, <2>2
<1>2. \A T \in SUBSET S : T \in G
  <2> HIDE DEF G
  <2> QED  BY <1>1, SubsetInduction
<1> QED  BY <1>2

\* A sum of zeros is zero.
LEMMA SumZero ==
  ASSUME NEW f, NEW S, IsFiniteSet(S), \A x \in S : f[x] = 0
  PROVE  SumFunctionOnSet(f, S) = 0
<1> DEFINE G == {T \in SUBSET S : SumFunctionOnSet(f, T) = 0}
<1>1. ASSUME NEW T \in SUBSET S, \A U \in SUBSET T : U # T => U \in G
      PROVE  T \in G
  <2>1. CASE T = {}
    BY <2>1, SumEmpty
  <2>2. CASE T # {}
    <3>1. IsFiniteSet(T)
      BY FS_Subset
    <3>2. /\ First(T) \in T
          /\ SumFunctionOnSet(f, T) = f[First(T)] + SumFunctionOnSet(f, T \ {First(T)})
      BY <2>2, <3>1, SumFirst
    <3>3. SumFunctionOnSet(f, T \ {First(T)}) = 0
      BY <1>1, <3>2
    <3> QED  BY <3>2, <3>3
  <2> QED  BY <2>1, <2>2
<1>2. \A T \in SUBSET S : T \in G
  <2> HIDE DEF G
  <2> QED  BY <1>1, SubsetInduction
<1> QED  BY <1>2

\* A sum of natural numbers is one.
LEMMA SumNat ==
  ASSUME NEW f, NEW S, IsFiniteSet(S), \A x \in S : f[x] \in Nat
  PROVE  SumFunctionOnSet(f, S) \in Nat
<1> DEFINE zero == [x \in S |-> 0]
<1>1. SumFunctionOnSet(zero, S) = 0
  BY SumZero
<1>2. SumFunctionOnSet(f, S) \in Int
  BY SumType
<1>3. \A x \in S : zero[x] \in Int /\ f[x] \in Int /\ zero[x] <= f[x]
  OBVIOUS
<1> HIDE DEF zero
<1>4. SumFunctionOnSet(zero, S) <= SumFunctionOnSet(f, S)
  BY <1>3, SumMonotone
<1> QED  BY <1>1, <1>2, <1>4

\* One value changes.
LEMMA SumChange ==
  ASSUME NEW f, NEW g, NEW S, IsFiniteSet(S), NEW x \in S,
         \A y \in S : f[y] \in Int /\ g[y] \in Int,
         \A y \in S \ {x} : g[y] = f[y]
  PROVE  SumFunctionOnSet(g, S) = SumFunctionOnSet(f, S) - f[x] + g[x]
<1>1. SumFunctionOnSet(f, S) = f[x] + SumFunctionOnSet(f, S \ {x})
  BY SumTake
<1>2. SumFunctionOnSet(g, S) = g[x] + SumFunctionOnSet(g, S \ {x})
  BY SumTake
<1>3. SumFunctionOnSet(f, S \ {x}) = SumFunctionOnSet(g, S \ {x})
  <2>1. IsFiniteSet(S \ {x})
    BY FS_RemoveElement
  <2> QED  BY <2>1, SumSame
<1>4. SumFunctionOnSet(f, S \ {x}) \in Int
  BY SumType
<1> QED  BY <1>1, <1>2, <1>3, <1>4

\* One element joins.
LEMMA SumAdd ==
  ASSUME NEW f, NEW S, IsFiniteSet(S), NEW x, x \notin S,
         \A y \in S : f[y] \in Int, f[x] \in Int
  PROVE  SumFunctionOnSet(f, S \cup {x}) = SumFunctionOnSet(f, S) + f[x]
<1>1. IsFiniteSet(S \cup {x}) /\ (S \cup {x}) \ {x} = S
  BY FS_AddElement
<1>2. \A y \in S \cup {x} : f[y] \in Int
  OBVIOUS
<1>3. SumFunctionOnSet(f, S \cup {x}) = f[x] + SumFunctionOnSet(f, S)
  BY <1>1, <1>2, SumTake
<1>4. SumFunctionOnSet(f, S) \in Int
  BY SumType
<1> QED  BY <1>3, <1>4
=============================================================================
