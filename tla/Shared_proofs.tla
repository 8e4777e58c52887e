---------------------------- MODULE Shared_proofs ----------------------------
(***************************************************************************)
(* Lemmas on the two modules the others build on: what the sum over a      *)
(* finite set is, and how it changes (Sums); what is read back from memory *)
(* that fields were written to (Memory).  The induction theorems of the    *)
(* library take a predicate as a parameter; here it is a set, so that an   *)
(* induction is an instance of a first-order fact: a set of naturals that is *)
(* not empty has a least element (WFMin).                                  *)
(***************************************************************************)
EXTENDS Sums, Memory, FiniteSetTheorems, WellFoundedInduction, TLAPS

LEMMA NatSetInduction ==
  ASSUME NEW T, 0 \in T, \A n \in Nat : n \in T => n + 1 \in T
  PROVE  Nat \subseteq T
<1> DEFINE U == Nat \ T
<1> SUFFICES ASSUME U # {}
             PROVE  FALSE
  OBVIOUS
<1>1. PICK n \in U : \A m \in U : <<m, n>> \notin OpToRel(<, Nat)
  <2>1. U \subseteq Nat
    OBVIOUS
  <2> HIDE DEF U
  <2> QED
    BY <2>1, NatLessThanWellFounded, WFMin, Zenon
<1>2. n \in Nat /\ n # 0 /\ n - 1 \in Nat
  OBVIOUS
<1>3. n - 1 \notin T
  <2>1. (n - 1) + 1 = n
    BY <1>2
  <2> QED
    BY <1>2, <2>1
<1>4. <<n - 1, n>> \in OpToRel(<, Nat)
  <2>1. n - 1 < n
    BY <1>2
  <2> QED
    BY <1>2, <2>1, Zenon DEF OpToRel
<1>5. n - 1 \in U
  BY <1>2, <1>3
<1> QED
  BY <1>1, <1>4, <1>5, Zenon

\* A finite set is built by adding elements; P holds the sets that are fine.
LEMMA SubsetInduction ==
  ASSUME NEW S, IsFiniteSet(S), NEW P, {} \in P,
         \A T \in SUBSET S : \A x \in S \ T : T \in P => T \cup {x} \in P
  PROVE  S \in P
<1> DEFINE N == {n \in Nat : \A T \in SUBSET S : Cardinality(T) = n => T \in P}
<1>1. 0 \in N
  BY FS_EmptySet, FS_Subset
<1>2. ASSUME NEW n \in Nat, n \in N
      PROVE  n + 1 \in N
  <2>1. ASSUME NEW T \in SUBSET S, Cardinality(T) = n + 1
        PROVE  T \in P
    <3>1. IsFiniteSet(T) /\ T # {}
      BY <2>1, FS_EmptySet, FS_Subset
    <3>2. PICK x \in T : TRUE
      BY <3>1, Zenon
    <3>3. T \ {x} \in SUBSET S /\ x \in S \ (T \ {x}) /\ (T \ {x}) \cup {x} = T
      BY <3>2
    <3>4. Cardinality(T \ {x}) = n
      <4>1. Cardinality(T \ {x}) = Cardinality(T) - 1
        BY <3>1, FS_RemoveElement
      <4> QED
        BY <2>1, <4>1
    <3>5. T \ {x} \in P
      BY <1>2, <3>3, <3>4
    <3>6. (T \ {x}) \cup {x} \in P
      BY <3>3, <3>5, Zenon
    <3> QED
      BY <3>3, <3>6, Zenon
  <2> QED
    BY <2>1
<1>3. Nat \subseteq N
  <2> HIDE DEF N
  <2> QED
    BY <1>1, <1>2, NatSetInduction
<1> QED
  BY <1>3, FS_CardinalityType

-----------------------------------------------------------------------------
(* The recursion has a solution, and what solves it is the sum.              *)

Pick(T) == CHOOSE x \in T : TRUE

\* g sums f over every set in D.
IsSum(g, f, D) == g = [T \in D |-> IF T = {} THEN 0 ELSE f[Pick(T)] + g[T \ {Pick(T)}]]

Smaller(S, n) == {T \in SUBSET S : Cardinality(T) <= n}

LEMMA PickFacts ==
  ASSUME NEW S, IsFiniteSet(S), NEW T \in SUBSET S, T # {}
  PROVE  /\ Pick(T) \in T /\ T \ {Pick(T)} \in SUBSET S
         /\ Cardinality(T) \in Nat /\ Cardinality(T \ {Pick(T)}) = Cardinality(T) - 1
<1>1. Pick(T) \in T
  BY DEF Pick
<1>2. IsFiniteSet(T)
  BY FS_Subset
<1> QED
  BY <1>1, <1>2, FS_RemoveElement, FS_CardinalityType

LEMMA SmallerSumExists ==
  ASSUME NEW S, IsFiniteSet(S), NEW f
  PROVE  \A n \in Nat : \E g : IsSum(g, f, Smaller(S, n))
<1> DEFINE T == {n \in Nat : \E g : IsSum(g, f, Smaller(S, n))}
<1>1. 0 \in T
  <2> DEFINE g == [U \in Smaller(S, 0) |-> 0]
  <2>1. \A U \in Smaller(S, 0) : U = {}
    BY FS_EmptySet, FS_Subset, FS_CardinalityType DEF Smaller
  <2>2. IsSum(g, f, Smaller(S, 0))
    BY <2>1 DEF IsSum
  <2> QED
    BY <2>2
<1>2. ASSUME NEW n \in Nat, n \in T
      PROVE  n + 1 \in T
  <2>1. PICK g : IsSum(g, f, Smaller(S, n))
    BY <1>2
  <2> DEFINE h == [U \in Smaller(S, n + 1) |-> IF U = {} THEN 0 ELSE f[Pick(U)] + g[U \ {Pick(U)}]]
  <2>2. ASSUME NEW U \in Smaller(S, n + 1), U # {}
        PROVE  U \ {Pick(U)} \in Smaller(S, n)
    BY <2>2, PickFacts DEF Smaller
  <2>3. ASSUME NEW U \in Smaller(S, n)
        PROVE  h[U] = g[U]
    <3>1. U \in Smaller(S, n + 1)
      BY FS_Subset, FS_CardinalityType DEF Smaller
    <3>2. g[U] = IF U = {} THEN 0 ELSE f[Pick(U)] + g[U \ {Pick(U)}]
      BY <2>1 DEF IsSum
    <3> QED
      BY <3>1, <3>2
  <2>4. IsSum(h, f, Smaller(S, n + 1))
    <3>1. \A U \in Smaller(S, n + 1) : U # {} => h[U \ {Pick(U)}] = g[U \ {Pick(U)}]
      BY <2>2, <2>3
    <3>2. h = [U \in Smaller(S, n + 1) |-> IF U = {} THEN 0 ELSE f[Pick(U)] + h[U \ {Pick(U)}]]
      <4>1. \A U \in Smaller(S, n + 1) :
              (IF U = {} THEN 0 ELSE f[Pick(U)] + g[U \ {Pick(U)}])
                = (IF U = {} THEN 0 ELSE f[Pick(U)] + h[U \ {Pick(U)}])
        BY <3>1, Zenon
      <4> QED
        BY <4>1, Zenon
    <3> QED
      BY <3>2 DEF IsSum
  <2> QED
    BY <2>4
<1>3. Nat \subseteq T
  <2> HIDE DEF T
  <2> QED
    BY <1>1, <1>2, NatSetInduction
<1> QED
  BY <1>3

LEMMA SumExists ==
  ASSUME NEW S, IsFiniteSet(S), NEW f
  PROVE  \E g : IsSum(g, f, SUBSET S)
<1>1. Cardinality(S) \in Nat
  BY FS_CardinalityType
<1>2. Smaller(S, Cardinality(S)) = SUBSET S
  BY FS_Subset DEF Smaller
<1>3. \E g : IsSum(g, f, Smaller(S, Cardinality(S)))
  BY <1>1, SmallerSumExists
<1> QED
  BY <1>2, <1>3, Zenon

\* Two sums of functions that agree on S agree on its subsets.
LEMMA SumUnique ==
  ASSUME NEW S, IsFiniteSet(S), NEW D, NEW E, NEW g, NEW h, NEW f1, NEW f2,
         SUBSET S \subseteq D, SUBSET S \subseteq E,
         IsSum(g, f1, D), IsSum(h, f2, E), \A x \in S : f1[x] = f2[x]
  PROVE  \A T \in SUBSET S : g[T] = h[T]
<1> DEFINE N == {n \in Nat : \A T \in SUBSET S : Cardinality(T) = n => g[T] = h[T]}
<1>1. 0 \in N
  <2>1. ASSUME NEW T \in SUBSET S, Cardinality(T) = 0
        PROVE  g[T] = h[T]
    <3>1. T = {}
      BY <2>1, FS_EmptySet, FS_Subset
    <3> QED
      BY <3>1 DEF IsSum
  <2> QED
    BY <2>1
<1>2. ASSUME NEW n \in Nat, n \in N
      PROVE  n + 1 \in N
  <2>1. ASSUME NEW T \in SUBSET S, Cardinality(T) = n + 1
        PROVE  g[T] = h[T]
    <3>1. T # {}
      BY <2>1, FS_EmptySet
    <3>2. T \ {Pick(T)} \in SUBSET S /\ Cardinality(T \ {Pick(T)}) = n /\ Pick(T) \in S
      BY <2>1, <3>1, PickFacts
    <3>3. g[T \ {Pick(T)}] = h[T \ {Pick(T)}]
      BY <1>2, <3>2
    <3>4. g[T] = f1[Pick(T)] + g[T \ {Pick(T)}] /\ h[T] = f2[Pick(T)] + h[T \ {Pick(T)}]
      BY <3>1 DEF IsSum
    <3> QED
      BY <3>2, <3>3, <3>4
  <2> QED
    BY <2>1
<1>3. Nat \subseteq N
  <2> HIDE DEF N
  <2> QED
    BY <1>1, <1>2, NatSetInduction
<1>4. \A T \in SUBSET S : Cardinality(T) \in Nat
  BY FS_Subset, FS_CardinalityType
<1> QED
  BY <1>3, <1>4

LEMMA SumIsUnique ==
  ASSUME NEW S, IsFiniteSet(S), NEW f
  PROVE  \E g : IsSum(g, f, SUBSET S) /\ SumOver(f, S) = g[S]
<1> DEFINE G == CHOOSE g : IsSum(g, f, SUBSET S)
<1>1. IsSum(G, f, SUBSET S)
  BY SumExists, Zenon
<1>2. SumOver(f, S) = G[S]
  BY Zenon DEF SumOver, FSX!MapThenSumSet, FSX!MapThenFoldSet, IsSum, Pick
<1> QED
  BY <1>1, <1>2
-----------------------------------------------------------------------------
(* The laws of sums.                                                         *)

LEMMA SumOfNothing == ASSUME NEW f PROVE SumOver(f, {}) = 0
<1>1. IsFiniteSet({})
  BY FS_EmptySet
<1>2. PICK g : IsSum(g, f, SUBSET {}) /\ SumOver(f, {}) = g[{}]
  BY <1>1, SumIsUnique
<1> QED
  BY <1>2 DEF IsSum

\* The sum stays in any set that holds 0 and is closed under adding summands.
LEMMA SumClosed ==
  ASSUME NEW S, IsFiniteSet(S), NEW f, NEW A, 0 \in A,
         \A x \in S : \A a \in A : f[x] + a \in A
  PROVE  SumOver(f, S) \in A
<1>1. PICK g : IsSum(g, f, SUBSET S) /\ SumOver(f, S) = g[S]
  BY SumIsUnique
<1> DEFINE N == {n \in Nat : \A T \in SUBSET S : Cardinality(T) = n => g[T] \in A}
<1>2. 0 \in N
  <2>1. ASSUME NEW T \in SUBSET S, Cardinality(T) = 0
        PROVE  g[T] \in A
    <3>1. T = {}
      BY <2>1, FS_EmptySet, FS_Subset
    <3> QED
      BY <1>1, <3>1 DEF IsSum
  <2> QED
    BY <2>1
<1>3. ASSUME NEW n \in Nat, n \in N
      PROVE  n + 1 \in N
  <2>1. ASSUME NEW T \in SUBSET S, Cardinality(T) = n + 1
        PROVE  g[T] \in A
    <3>1. T # {}
      BY <2>1, FS_EmptySet
    <3>2. T \ {Pick(T)} \in SUBSET S /\ Cardinality(T \ {Pick(T)}) = n /\ Pick(T) \in S
      BY <2>1, <3>1, PickFacts
    <3>3. g[T \ {Pick(T)}] \in A
      BY <1>3, <3>2
    <3>4. g[T] = f[Pick(T)] + g[T \ {Pick(T)}]
      BY <1>1, <3>1 DEF IsSum
    <3> QED
      BY <3>2, <3>3, <3>4
  <2> QED
    BY <2>1
<1>4. Nat \subseteq N
  <2> HIDE DEF N
  <2> QED
    BY <1>2, <1>3, NatSetInduction
<1> QED
  BY <1>1, <1>4, FS_CardinalityType

LEMMA SumIsInt ==
  ASSUME NEW S, IsFiniteSet(S), NEW f, \A x \in S : f[x] \in Int
  PROVE  SumOver(f, S) \in Int
BY SumClosed

LEMMA SumIsNat ==
  ASSUME NEW S, IsFiniteSet(S), NEW f, \A x \in S : f[x] \in Nat
  PROVE  SumOver(f, S) \in Nat
<1>1. \A x \in S : \A a \in Nat : f[x] + a \in Nat
  OBVIOUS
<1> QED
  BY <1>1, SumClosed

LEMMA SumOfZeros ==
  ASSUME NEW S, IsFiniteSet(S), NEW f, \A x \in S : f[x] = 0
  PROVE  SumOver(f, S) = 0
<1>1. \A x \in S : \A a \in {0} : f[x] + a \in {0}
  OBVIOUS
<1>2. SumOver(f, S) \in {0}
  BY <1>1, SumClosed
<1> QED
  BY <1>2

\* Sums see the function on the set only.
LEMMA SumSame ==
  ASSUME NEW S, IsFiniteSet(S), NEW f1, NEW f2, \A x \in S : f1[x] = f2[x]
  PROVE  SumOver(f1, S) = SumOver(f2, S)
<1>1. PICK g : IsSum(g, f1, SUBSET S) /\ SumOver(f1, S) = g[S]
  BY SumIsUnique
<1>2. PICK h : IsSum(h, f2, SUBSET S) /\ SumOver(f2, S) = h[S]
  BY SumIsUnique
<1> QED
  BY <1>1, <1>2, SumUnique

\* The sum over a subset is what the recursion says of that subset.
LEMMA SubSum ==
  ASSUME NEW S, IsFiniteSet(S), NEW f, NEW g, IsSum(g, f, SUBSET S)
  PROVE  \A T \in SUBSET S : SumOver(f, T) = g[T]
<1> TAKE T \in SUBSET S
<1>1. IsFiniteSet(T)
  BY FS_Subset
<1>2. PICK h : IsSum(h, f, SUBSET T) /\ SumOver(f, T) = h[T]
  BY <1>1, SumIsUnique
<1>3. \A U \in SUBSET T : g[U] = h[U]
  BY <1>1, <1>2, SumUnique
<1> QED
  BY <1>2, <1>3

LEMMA SumPick ==
  ASSUME NEW S, IsFiniteSet(S), NEW f, S # {}
  PROVE  SumOver(f, S) = f[Pick(S)] + SumOver(f, S \ {Pick(S)})
<1>1. PICK g : IsSum(g, f, SUBSET S) /\ SumOver(f, S) = g[S]
  BY SumIsUnique
<1>2. SumOver(f, S \ {Pick(S)}) = g[S \ {Pick(S)}]
  BY <1>1, SubSum
<1> QED
  BY <1>1, <1>2 DEF IsSum

\* Whatever element is taken out first.
LEMMA SumWithout ==
  ASSUME NEW S, IsFiniteSet(S), NEW f, \A x \in S : f[x] \in Int, NEW x \in S
  PROVE  SumOver(f, S) = f[x] + SumOver(f, S \ {x})
<1> DEFINE Law(T) == \A y \in T : SumOver(f, T) = f[y] + SumOver(f, T \ {y})
           N == {n \in Nat : \A T \in SUBSET S : Cardinality(T) = n => Law(T)}
<1>1. 0 \in N
  BY FS_EmptySet, FS_Subset
<1>2. ASSUME NEW n \in Nat, n \in N
      PROVE  n + 1 \in N
  <2>1. ASSUME NEW T \in SUBSET S, Cardinality(T) = n + 1, NEW y \in T
        PROVE  SumOver(f, T) = f[y] + SumOver(f, T \ {y})
    <3> DEFINE z == Pick(T)
    <3>1. z \in T /\ IsFiniteSet(T)
      BY FS_Subset DEF Pick
    <3>2. SumOver(f, T) = f[z] + SumOver(f, T \ {z})
      BY <3>1, SumPick
    <3>3. CASE y = z
      BY <3>2, <3>3
    <3> HIDE DEF z
    <3>4. CASE y # z
      <4>1. /\ T \ {z} \in SUBSET S /\ Cardinality(T \ {z}) = n
            /\ T \ {y} \in SUBSET S /\ Cardinality(T \ {y}) = n
        <5>1. Cardinality(T) - 1 = n
          BY <2>1
        <5>2. Cardinality(T \ {z}) = Cardinality(T) - 1
          BY <3>1, FS_RemoveElement
        <5>3. Cardinality(T \ {y}) = Cardinality(T) - 1
          BY <3>1, FS_RemoveElement
        <5> QED
          BY <5>1, <5>2, <5>3
      <4>2. SumOver(f, T \ {z}) = f[y] + SumOver(f, (T \ {z}) \ {y})
        BY <1>2, <3>4, <4>1
      <4>3. SumOver(f, T \ {y}) = f[z] + SumOver(f, (T \ {y}) \ {z})
        BY <1>2, <3>1, <3>4, <4>1
      <4> DEFINE rest == SumOver(f, (T \ {y}) \ {z})
      <4>4. (T \ {z}) \ {y} = (T \ {y}) \ {z}
        OBVIOUS
      <4>5. rest \in Int
        <5>1. IsFiniteSet((T \ {y}) \ {z})
          BY <3>1, FS_RemoveElement
        <5> QED
          BY <5>1, SumIsInt
      <4>6. SumOver(f, T) = f[z] + (f[y] + rest) /\ SumOver(f, T \ {y}) = f[z] + rest
        BY <3>2, <4>2, <4>3, <4>4
      <4>7. f[y] \in Int /\ f[z] \in Int
        BY <3>1
      <4> HIDE DEF rest
      <4> QED
        BY <4>5, <4>6, <4>7
    <3> QED
      BY <3>3, <3>4
  <2> QED
    BY <2>1
<1>3. Nat \subseteq N
  <2> HIDE DEF N
  <2> QED
    BY <1>1, <1>2, NatSetInduction
<1> QED
  BY <1>3, FS_CardinalityType

LEMMA SumAdd ==
  ASSUME NEW S, IsFiniteSet(S), NEW f, NEW x, x \notin S, \A y \in S \cup {x} : f[y] \in Int
  PROVE  SumOver(f, S \cup {x}) = SumOver(f, S) + f[x]
<1>1. IsFiniteSet(S \cup {x}) /\ (S \cup {x}) \ {x} = S
  BY FS_AddElement
<1>2. SumOver(f, S \cup {x}) = f[x] + SumOver(f, S)
  BY <1>1, SumWithout
<1>3. SumOver(f, S) \in Int /\ f[x] \in Int
  BY SumIsInt
<1> QED
  BY <1>2, <1>3

\* One summand changes.
LEMMA SumUpdate ==
  ASSUME NEW S, IsFiniteSet(S), NEW f1, NEW f2, NEW x \in S,
         \A y \in S : f1[y] \in Int /\ f2[y] \in Int,
         \A y \in S \ {x} : f1[y] = f2[y]
  PROVE  SumOver(f2, S) = SumOver(f1, S) - f1[x] + f2[x]
<1>1. IsFiniteSet(S \ {x})
  BY FS_RemoveElement
<1>2. SumOver(f2, S \ {x}) = SumOver(f1, S \ {x})
  BY <1>1, SumSame
<1>3. SumOver(f1, S) = f1[x] + SumOver(f1, S \ {x}) /\ SumOver(f2, S) = f2[x] + SumOver(f2, S \ {x})
  BY SumWithout
<1>4. SumOver(f1, S \ {x}) \in Int /\ f1[x] \in Int /\ f2[x] \in Int
  BY <1>1, SumIsInt
<1> QED
  BY <1>2, <1>3, <1>4

\* Two sets that share no element.
LEMMA SumUnion ==
  ASSUME NEW A, IsFiniteSet(A), NEW B, IsFiniteSet(B), A \cap B = {},
         NEW f, \A x \in A \cup B : f[x] \in Int
  PROVE  SumOver(f, A \cup B) = SumOver(f, A) + SumOver(f, B)
<1> DEFINE Law(T) == SumOver(f, A \cup T) = SumOver(f, A) + SumOver(f, T)
           P == {T \in SUBSET B : Law(T)}
<1>1. SumOver(f, A) \in Int
  BY SumIsInt
<1>2. {} \in P
  <2>1. A \cup {} = A
    OBVIOUS
  <2> QED
    BY <1>1, <2>1, SumOfNothing
<1>3. ASSUME NEW T \in SUBSET B, NEW x \in B \ T, T \in P
      PROVE  T \cup {x} \in P
  <2>1. IsFiniteSet(T) /\ IsFiniteSet(A \cup T) /\ x \notin T /\ x \notin A \cup T
    BY FS_Subset, FS_Union
  <2>2. SumOver(f, T \cup {x}) = SumOver(f, T) + f[x]
    BY <2>1, SumAdd
  <2>3. SumOver(f, (A \cup T) \cup {x}) = SumOver(f, A \cup T) + f[x]
    BY <2>1, SumAdd
  <2>4. (A \cup T) \cup {x} = A \cup (T \cup {x})
    OBVIOUS
  <2>5. Law(T) /\ SumOver(f, T) \in Int /\ f[x] \in Int
    BY <1>3, <2>1, SumIsInt
  <2>6. SumOver(f, A \cup (T \cup {x})) = SumOver(f, A) + SumOver(f, T \cup {x})
    <3>1. SumOver(f, A \cup (T \cup {x})) = SumOver(f, A \cup T) + f[x]
      BY <2>3, <2>4, Zenon
    <3> DEFINE a == SumOver(f, A)
               b == SumOver(f, T)
               v == f[x]
    <3>2. a \in Int /\ b \in Int /\ v \in Int /\ SumOver(f, A \cup T) = a + b
      BY <1>1, <2>5
    <3> HIDE DEF a, b, v
    <3>3. (a + b) + v = a + (b + v)
      BY <3>2
    <3> QED
      BY <2>2, <3>1, <3>2, <3>3 DEF a, b, v
  <2> QED
    BY <2>6
<1>4. B \in P
  <2> HIDE DEF P
  <2> QED
    BY <1>2, <1>3, SubsetInduction
<1> QED
  BY <1>4

\* Part of a sum of natural numbers is no more than the sum.
LEMMA SumOfPart ==
  ASSUME NEW T, IsFiniteSet(T), NEW V \in SUBSET T, NEW g, \A y \in T : g[y] \in Nat
  PROVE  SumOver(g, V) <= SumOver(g, T)
<1>1. IsFiniteSet(V) /\ IsFiniteSet(T \ V) /\ V \cup (T \ V) = T /\ V \cap (T \ V) = {}
  BY FS_Subset
<1>2. SumOver(g, V \cup (T \ V)) = SumOver(g, V) + SumOver(g, T \ V)
  <2>1. \A y \in V \cup (T \ V) : g[y] \in Int
    OBVIOUS
  <2> QED
    BY <1>1, <2>1, SumUnion
<1>3. SumOver(g, V) \in Nat /\ SumOver(g, T \ V) \in Nat
  BY <1>1, SumIsNat
<1>4. SumOver(g, T) = SumOver(g, V) + SumOver(g, T \ V)
  BY <1>1, <1>2, Zenon
<1> QED
  BY <1>3, <1>4

\* Each summand over S has a summand of its own over T that is no less.
LEMMA SumInjected ==
  ASSUME NEW S, IsFiniteSet(S), NEW T, IsFiniteSet(T),
         NEW f, \A x \in S : f[x] \in Nat, NEW g, \A y \in T : g[y] \in Nat,
         NEW h \in [S -> T], \A x, y \in S : h[x] = h[y] => x = y,
         \A x \in S : f[x] <= g[h[x]]
  PROVE  SumOver(f, S) <= SumOver(g, T)
<1> DEFINE Image(U) == {h[x] : x \in U}
           P == {U \in SUBSET S : SumOver(f, U) <= SumOver(g, Image(U))}
<1>1. {} \in P
  <2>1. Image({}) = {}
    OBVIOUS
  <2> QED
    BY <2>1, SumOfNothing
<1>2. ASSUME NEW U \in SUBSET S, NEW x \in S \ U, U \in P
      PROVE  U \cup {x} \in P
  <2>1. IsFiniteSet(U) /\ Image(U) \in SUBSET T /\ IsFiniteSet(Image(U))
    <3>1. Image(U) \in SUBSET T
      OBVIOUS
    <3> HIDE DEF Image
    <3> QED
      BY <3>1, FS_Subset
  <2>2. Image(U \cup {x}) = Image(U) \cup {h[x]} /\ h[x] \notin Image(U) /\ h[x] \in T
    OBVIOUS
  <2>3. SumOver(f, U \cup {x}) = SumOver(f, U) + f[x]
    <3>1. \A y \in U \cup {x} : f[y] \in Int
      OBVIOUS
    <3> QED
      BY <2>1, <3>1, SumAdd
  <2>4. SumOver(g, Image(U) \cup {h[x]}) = SumOver(g, Image(U)) + g[h[x]]
    <3>1. \A y \in Image(U) \cup {h[x]} : g[y] \in Int
      BY <2>1, <2>2
    <3> HIDE DEF Image
    <3> QED
      BY <2>1, <2>2, <3>1, SumAdd
  <2>5. SumOver(f, U) \in Nat /\ f[x] \in Nat /\ SumOver(g, Image(U)) \in Nat /\ g[h[x]] \in Nat
    <3>1. \A y \in Image(U) : g[y] \in Nat
      BY <2>1
    <3> HIDE DEF Image
    <3> QED
      BY <2>1, <2>2, <3>1, SumIsNat
  <2>6. SumOver(f, U) <= SumOver(g, Image(U)) /\ f[x] <= g[h[x]]
    BY <1>2
  <2>7. SumOver(f, U \cup {x}) <= SumOver(g, Image(U \cup {x}))
    <3>1. SumOver(g, Image(U \cup {x})) = SumOver(g, Image(U) \cup {h[x]})
      BY <2>2
    <3> HIDE DEF Image
    <3> QED
      BY <2>3, <2>4, <2>5, <2>6, <3>1
  <2> QED
    BY <2>7
<1>3. S \in P
  <2> HIDE DEF P
  <2> QED
    BY <1>1, <1>2, SubsetInduction
<1>4. Image(S) \in SUBSET T /\ IsFiniteSet(Image(S))
  <2>1. Image(S) \in SUBSET T
    OBVIOUS
  <2> HIDE DEF Image
  <2> QED
    BY <2>1, FS_Subset
<1>5. SumOver(g, Image(S)) <= SumOver(g, T)
  <2> HIDE DEF Image
  <2> QED
    BY <1>4, SumOfPart
<1>6. SumOver(f, S) \in Nat /\ SumOver(g, Image(S)) \in Nat /\ SumOver(g, T) \in Nat
  <2>1. \A y \in Image(S) : g[y] \in Nat
    BY <1>4
  <2> HIDE DEF Image
  <2> QED
    BY <1>4, <2>1, SumIsNat
<1>7. SumOver(f, S) <= SumOver(g, Image(S))
  BY <1>3
<1> HIDE DEF Image
<1> QED
  BY <1>5, <1>6, <1>7

-----------------------------------------------------------------------------
(* Memory.                                                                 *)

\* A layout is a set of slots <<offset, width>>; no two of them share a byte.
Layout(S) ==
  /\ \A s \in S : s[1] \in Nat /\ s[2] \in Nat \ {0} /\ s = <<s[1], s[2]>>
  /\ \A s, t \in S : s[1] = t[1] => s = t
  /\ \A s, t \in S : s[1] < t[1] => s[1] + s[2] <= t[1]

\* Memory in which only slots of S were written.
Laid(mem, S) ==
  /\ \A f \in mem : f = <<f[1], f[2], f[3]>> /\ <<f[1], f[2]>> \in S
  /\ \A f, g \in mem : f[1] = g[1] => f = g

\* Slots of one layout that overlap are one slot.
LEMMA SlotsApart ==
  ASSUME NEW S, Layout(S), NEW f, NEW g, <<f[1], f[2]>> \in S, <<g[1], g[2]>> \in S
  PROVE  Overlaps(f, g[1], g[2]) <=> f[1] = g[1]
<1> DEFINE s == <<f[1], f[2]>>
           t == <<g[1], g[2]>>
<1>1. s[1] = f[1] /\ s[2] = f[2] /\ t[1] = g[1] /\ t[2] = g[2]
  OBVIOUS
<1>2. f[1] \in Nat /\ f[2] \in Nat \ {0} /\ g[1] \in Nat /\ g[2] \in Nat \ {0}
  BY <1>1 DEF Layout
<1>3. CASE f[1] < g[1]
  <2>1. f[1] + f[2] <= g[1]
    BY <1>1, <1>3 DEF Layout
  <2> QED BY <1>2, <1>3, <2>1 DEF Overlaps
<1>4. CASE g[1] < f[1]
  <2>1. g[1] + g[2] <= f[1]
    BY <1>1, <1>4 DEF Layout
  <2> QED BY <1>2, <1>4, <2>1 DEF Overlaps
<1>5. CASE f[1] = g[1]
  BY <1>2, <1>5 DEF Overlaps
<1> QED BY <1>2, <1>3, <1>4, <1>5

\* A field is read back when nothing else lies at its offset.
LEMMA ReadField ==
  ASSUME NEW mem, NEW o, NEW w, NEW v, <<o, w, v>> \in mem,
         \A f \in mem : f[1] = o => f = <<o, w, v>>, NEW z
  PROVE  Read(mem, o, w, z) = v
<1> DEFINE c == CHOOSE f \in mem : f[1] = o /\ f[2] = w
<1>1. <<o, w, v>>[1] = o /\ <<o, w, v>>[2] = w
  OBVIOUS
<1>2. c \in mem /\ c[1] = o
  BY <1>1
<1>3. c = <<o, w, v>>
  BY <1>2
<1>4. \E f \in mem : f[1] = o /\ f[2] = w
  BY <1>1
<1>5. Read(mem, o, w, z) = c[3]
  BY <1>4 DEF Read
<1> HIDE DEF c
<1> QED BY <1>3, <1>5

\* A field of laid-out memory is read back.
LEMMA ReadLaid ==
  ASSUME NEW S, NEW mem, Laid(mem, S), NEW o, NEW w, NEW v, <<o, w, v>> \in mem, NEW z
  PROVE  Read(mem, o, w, z) = v
<1>1. \A f \in mem : f[1] = o => f = <<o, w, v>>
  BY DEF Laid
<1> QED BY <1>1, ReadField

\* A slot nothing was written to reads as zero.
LEMMA ReadNothing ==
  ASSUME NEW S, Layout(S), NEW mem, Laid(mem, S), NEW o, NEW w, <<o, w>> \in S,
         \A f \in mem : f[1] # o, NEW z
  PROVE  Read(mem, o, w, z) = z
<1> DEFINE t == <<o, w>>
<1>1. t[1] = o /\ t[2] = w
  OBVIOUS
<1>2. \A f \in mem : ~Overlaps(f, o, w)
  <2> TAKE f \in mem
  <2>1. <<f[1], f[2]>> \in S
    BY DEF Laid
  <2>2. <<t[1], t[2]>> \in S
    BY <1>1
  <2>3. Overlaps(f, t[1], t[2]) <=> f[1] = t[1]
    BY <2>1, <2>2, SlotsApart
  <2> QED BY <1>1, <2>3
<1>3. ~\E f \in mem : f[1] = o /\ f[2] = w
  OBVIOUS
<1> QED BY <1>2, <1>3 DEF Read

\* Memory of a layout reads back what was put there, and zero elsewhere.
LEMMA WriteLaid ==
  ASSUME NEW S, Layout(S), NEW mem, Laid(mem, S), NEW fs, Laid(fs, S)
  PROVE  /\ Laid(Write(mem, fs), S)
         /\ \A f : f \in Write(mem, fs) <=> f \in fs \/ (f \in mem /\ \A g \in fs : f[1] # g[1])
<1>1. \A f \in mem, g \in fs : Overlaps(f, g[1], g[2]) <=> f[1] = g[1]
  BY SlotsApart DEF Laid
<1>2. \A f : f \in Write(mem, fs) <=> f \in fs \/ (f \in mem /\ \A g \in fs : f[1] # g[1])
  BY <1>1 DEF Write
<1> QED BY <1>2 DEF Laid

\* After a write the fields written are read, and every other slot as before.
LEMMA ReadWritten ==
  ASSUME NEW S, Layout(S), NEW mem, Laid(mem, S), NEW fs, Laid(fs, S)
  PROVE  /\ \A o, w, v, z : <<o, w, v>> \in fs => Read(Write(mem, fs), o, w, z) = v
         /\ \A o, w, z : <<o, w>> \in S /\ (\A g \in fs : g[1] # o)
                           => Read(Write(mem, fs), o, w, z) = Read(mem, o, w, z)
<1>1. \A o, w, v, z : <<o, w, v>> \in fs => Read(Write(mem, fs), o, w, z) = v
  BY WriteLaid, ReadLaid
<1>2. ASSUME NEW o, NEW w, NEW z, <<o, w>> \in S, \A g \in fs : g[1] # o
      PROVE  Read(Write(mem, fs), o, w, z) = Read(mem, o, w, z)
  <2>1. CASE \E f \in mem : f[1] = o
    <3>1. PICK f \in mem : f[1] = o
      BY <2>1
    <3>2. f = <<o, f[2], f[3]>> /\ <<o, f[2]>> \in S
      BY <3>1 DEF Laid
    <3>3. f[2] = w
      <4> DEFINE s == <<o, f[2]>>
                 t == <<o, w>>
      <4>1. s[1] = t[1]
        OBVIOUS
      <4>2. s = t
        BY <1>2, <3>2, <4>1 DEF Layout
      <4> QED BY <4>2
    <3>4. <<o, w, f[3]>> \in mem /\ <<o, w, f[3]>> \in Write(mem, fs)
      BY <1>2, <3>1, <3>2, <3>3, WriteLaid
    <3> QED BY <3>4, WriteLaid, ReadLaid
  <2>2. CASE \A f \in mem : f[1] # o
    <3>1. \A f \in Write(mem, fs) : f[1] # o
      BY <1>2, <2>2, WriteLaid
    <3> QED BY <1>2, <2>2, <3>1, WriteLaid, ReadNothing
  <2> QED BY <2>1, <2>2
<1> QED BY <1>1, <1>2

\* Fields of one layout, at offsets from lo to hi.
Part(fs, S, lo, hi) == Laid(fs, S) /\ \A f \in fs : f[1] \in lo .. hi

\* One field of a layout.
LEMMA PartOne ==
  ASSUME NEW o \in Int, NEW S, NEW w, NEW v, <<o, w>> \in S
  PROVE  Part({<<o, w, v>>}, S, o, o)
<1> DEFINE f == <<o, w, v>>
<1>1. f = <<f[1], f[2], f[3]>> /\ f[1] = o /\ f[2] = w
  OBVIOUS
<1> HIDE DEF f
<1>2. Laid({f}, S)
  BY <1>1 DEF Laid
<1>3. \A g \in {f} : g[1] \in o .. o
  BY <1>1
<1> QED BY <1>2, <1>3 DEF Part, f

\* Fields at lower offsets together with fields at higher ones.
LEMMA PartsJoined ==
  ASSUME NEW lo \in Int, NEW k \in Int, NEW m \in Int, NEW hi \in Int, lo <= m, k < m, k <= hi, NEW S,
         NEW A, NEW B, Part(A, S, lo, k), Part(B, S, m, hi)
  PROVE  Part(A \cup B, S, lo, hi)
<1>1. Laid(A, S) /\ Laid(B, S)
  BY DEF Part
<1>2. \A f \in A, g \in B : f[1] # g[1]
  BY DEF Part
<1>3. Laid(A \cup B, S)
  BY <1>1, <1>2 DEF Laid
<1>4. \A f \in A \cup B : f[1] \in lo .. hi
  BY DEF Part
<1> QED BY <1>3, <1>4 DEF Part

\* Fields one behind the other.
LEMMA PartMore ==
  ASSUME NEW lo \in Int, NEW k \in Int, NEW o \in Int, lo <= k, k < o, NEW S, NEW fs, NEW w, NEW v,
         Part(fs, S, lo, k), <<o, w>> \in S
  PROVE  Part(fs \cup {<<o, w, v>>}, S, lo, o)
<1> DEFINE g == {<<o, w, v>>}
<1>1. Part(g, S, o, o)
  BY PartOne
<1> HIDE DEF g
<1>2. Part(fs \cup g, S, lo, o)
  BY <1>1, PartsJoined
<1> QED BY <1>2 DEF g

Slot(S, o, w) == <<o, w>> \in S
Field(o, w, v) == {<<o, w, v>>}
PutField(fs, o, w, v) == fs \cup {<<o, w, v>>}

\* The same in the operators that the accounts are put together with.
LEMMA PartField ==
  ASSUME NEW o \in Int, NEW w \in Int, NEW S, NEW v, Slot(S, o, w)
  PROVE  Part(Field(o, w, v), S, o, o)
<1>1. <<o, w>> \in S
  BY DEF Slot
<1>2. Part({<<o, w, v>>}, S, o, o)
  BY <1>1, PartOne
<1> QED BY <1>2 DEF Field

\* A field put behind the others.
LEMMA PartPut ==
  ASSUME NEW lo \in Int, NEW k \in Int, NEW o \in Int, NEW w \in Int, NEW S, NEW fs, NEW v,
         Part(fs, S, lo, k), Slot(S, o, w), lo <= k, k < o
  PROVE  Part(PutField(fs, o, w, v), S, lo, o)
<1>1. <<o, w>> \in S
  BY DEF Slot
<1>2. Part(fs \cup {<<o, w, v>>}, S, lo, o)
  BY <1>1, PartMore
<1> QED BY <1>2 DEF PutField

\* Two of them.
LEMMA PartPut2 ==
  ASSUME NEW lo \in Int, NEW k \in Int, NEW o1 \in Int, NEW o2 \in Int,
         NEW w1 \in Int, NEW w2 \in Int, NEW S, NEW fs, NEW v1, NEW v2, Part(fs, S, lo, k),
         Slot(S, o1, w1), Slot(S, o2, w2), lo <= k, k < o1, o1 < o2
  PROVE  Part(PutField(PutField(fs, o1, w1, v1), o2, w2, v2), S, lo, o2)
<1>1. lo <= o1
  OBVIOUS
<1> QED BY <1>1, PartPut

\* Three of them.
LEMMA PartPut3 ==
  ASSUME NEW lo \in Int, NEW k \in Int, NEW o1 \in Int, NEW o2 \in Int, NEW o3 \in Int,
         NEW w1 \in Int, NEW w2 \in Int, NEW w3 \in Int, NEW S, NEW fs, NEW v1, NEW v2, NEW v3, Part(fs, S, lo, k),
         Slot(S, o1, w1), Slot(S, o2, w2), Slot(S, o3, w3), lo <= k, k < o1, o1 < o2, o2 < o3
  PROVE  Part(PutField(PutField(PutField(fs, o1, w1, v1), o2, w2, v2), o3, w3, v3), S, lo, o3)
<1>1. lo <= o1 /\ lo <= o2
  OBVIOUS
<1> QED BY <1>1, PartPut

\* The first three fields.
LEMMA PartField3 ==
  ASSUME NEW o1 \in Int, NEW o2 \in Int, NEW o3 \in Int, NEW w1 \in Int, NEW w2 \in Int, NEW w3 \in Int,
         NEW S, NEW v1, NEW v2, NEW v3, Slot(S, o1, w1), Slot(S, o2, w2), Slot(S, o3, w3), o1 < o2, o2 < o3
  PROVE  Part(PutField(PutField(Field(o1, w1, v1), o2, w2, v2), o3, w3, v3), S, o1, o3)
<1>1. o1 <= o2 /\ o1 <= o1
  OBVIOUS
<1> QED BY <1>1, PartPut, PartField

\* Such fields are laid-out memory.
LEMMA PartIsLaid == \A fs, S, lo, hi : Part(fs, S, lo, hi) => Laid(fs, S)
  BY DEF Part

\* Such fields are read back.
LEMMA PartRead ==
  ASSUME NEW lo, NEW hi, NEW S, NEW mem, Part(mem, S, lo, hi)
  PROVE  \A o, w, v, z : <<o, w, v>> \in mem => Read(mem, o, w, z) = v
  BY ReadLaid DEF Part

-----------------------------------------------------------------------------
(* Byte strings.                                                             *)

\* Length and fields of a string with more appended.
LEMMA Appended ==
  ASSUME NEW m, m.len \in Int
  PROVE  /\ \A w, v : /\ (m ++ Bytes(w, v)).len = m.len + w
                      /\ (m ++ Bytes(w, v)).fields = m.fields \cup {<<m.len, w, v>>}
         /\ \A b : /\ (m ++ b).len = m.len + b.len
                   /\ (m ++ b).fields = m.fields \cup Shifted(m.len, b.fields)
  BY DEF ++, Concat, Bytes, Shifted

\* A string appended as a whole, and strings appended one by one.
LEMMA AppendedPair ==
  ASSUME NEW m, m.len \in Int, NEW w1 \in Int, NEW w2 \in Int, NEW v1, NEW v2
  PROVE  LET r == m ++ (Bytes(w1, v1) ++ Bytes(w2, v2)) IN
         r.len = m.len + w1 + w2 /\ r.fields = m.fields \cup {<<m.len, w1, v1>>, <<m.len + w1, w2, v2>>}
<1> DEFINE b == Bytes(w1, v1) ++ Bytes(w2, v2)
<1>1. b.len = w1 + w2 /\ b.fields = {<<0, w1, v1>>, <<w1, w2, v2>>}
  BY DEF ++, Concat, Bytes, Shifted
<1> HIDE DEF b
<1>2. Shifted(m.len, b.fields) = {<<m.len, w1, v1>>, <<m.len + w1, w2, v2>>}
  BY <1>1 DEF Shifted
<1>3. (m ++ b).len = m.len + w1 + w2
  BY <1>1, Appended
<1>4. (m ++ b).fields = m.fields \cup {<<m.len, w1, v1>>, <<m.len + w1, w2, v2>>}
  BY <1>2, Appended
<1> QED BY <1>3, <1>4 DEF b

\* Two fields appended one by one.
LEMMA Appended2 ==
  ASSUME NEW m, m.len \in Int, NEW w1 \in Int, NEW w2 \in Int, NEW v1, NEW v2
  PROVE  LET r == m ++ Bytes(w1, v1) ++ Bytes(w2, v2) IN
         r.len = m.len + w1 + w2 /\ r.fields = m.fields \cup {<<m.len, w1, v1>>, <<m.len + w1, w2, v2>>}
<1> DEFINE n == m ++ Bytes(w1, v1)
<1>1. n.len = m.len + w1 /\ n.fields = m.fields \cup {<<m.len, w1, v1>>}
  BY Appended
<1> HIDE DEF n
<1>2. (n ++ Bytes(w2, v2)).len = n.len + w2
      /\ (n ++ Bytes(w2, v2)).fields = n.fields \cup {<<n.len, w2, v2>>}
  BY <1>1, Appended
<1>3. n.fields \cup {<<n.len, w2, v2>>} = m.fields \cup {<<m.len, w1, v1>>, <<m.len + w1, w2, v2>>}
  BY <1>1
<1> QED BY <1>1, <1>2, <1>3 DEF n

-----------------------------------------------------------------------------
(* Strings that are read: no two fields share a byte, none ends behind it.   *)

String(b) ==
  /\ b.len \in Nat
  /\ \A f \in b.fields : /\ f = <<f[1], f[2], f[3]>> /\ f[1] \in Nat /\ f[2] \in Nat \ {0}
                         /\ f[1] + f[2] <= b.len
  /\ \A f, g \in b.fields : f[1] = g[1] => f = g

\* A single field is a string.
LEMMA BytesIsString ==
  ASSUME NEW w \in Nat \ {0}, NEW v
  PROVE  String(Bytes(w, v)) /\ Bytes(w, v).len = w /\ <<0, w, v>> \in Bytes(w, v).fields
<1> DEFINE f0 == <<0, w, v>>
<1>1. Bytes(w, v).len = w /\ Bytes(w, v).fields = {f0}
  BY DEF Bytes
<1>2. f0 = <<f0[1], f0[2], f0[3]>> /\ f0[1] = 0 /\ f0[2] = w
  OBVIOUS
<1> HIDE DEF f0
<1>3. String(Bytes(w, v))
  BY <1>1, <1>2 DEF String
<1> QED BY <1>1, <1>3 DEF f0

\* The fields of a string are read back.
LEMMA ReadString ==
  ASSUME NEW b, String(b), NEW o, NEW w, NEW v, <<o, w, v>> \in b.fields, NEW z
  PROVE  Read(b.fields, o, w, z) = v
<1> DEFINE f == <<o, w, v>>
<1>1. f[1] = o
  OBVIOUS
<1>2. \A g \in b.fields : g[1] = o => g = f
  BY <1>1 DEF String
<1> QED BY <1>2, ReadField

\* Two strings joined are a string: the first's fields stay, the second's are shifted.
LEMMA Joined ==
  ASSUME NEW a, NEW b, String(a), String(b)
  PROVE  /\ String(a ++ b) /\ (a ++ b).len = a.len + b.len
         /\ a.fields \subseteq (a ++ b).fields
         /\ \A o, w, v : <<o, w, v>> \in b.fields => <<a.len + o, w, v>> \in (a ++ b).fields
<1> DEFINE at(f) == <<a.len + f[1], f[2], f[3]>>
           c == a ++ b
<1>1. c.len = a.len + b.len /\ c.fields = a.fields \cup {at(f) : f \in b.fields}
  BY DEF ++, Concat, Shifted
<1>2. \A f \in b.fields : /\ at(f)[1] = a.len + f[1] /\ at(f)[2] = f[2] /\ at(f)[3] = f[3]
                          /\ at(f) = <<at(f)[1], at(f)[2], at(f)[3]>>
  OBVIOUS
<1>3. \A o, w, v : at(<<o, w, v>>) = <<a.len + o, w, v>>
  OBVIOUS
<1> HIDE DEF at, c
<1>4. a.len \in Nat /\ b.len \in Nat
  BY DEF String
<1>5. \A f \in a.fields : f = <<f[1], f[2], f[3]>> /\ f[1] \in Nat /\ f[2] \in Nat \ {0} /\ f[1] + f[2] <= a.len
  BY DEF String
<1>6. \A f \in b.fields : /\ at(f) = <<at(f)[1], at(f)[2], at(f)[3]>> /\ at(f)[1] \in Nat /\ at(f)[2] \in Nat \ {0}
                          /\ at(f)[1] >= a.len /\ at(f)[1] + at(f)[2] <= a.len + b.len
  <2> TAKE f \in b.fields
  <2>1. f[1] \in Nat /\ f[2] \in Nat \ {0} /\ f[1] + f[2] <= b.len
    BY DEF String
  <2> QED BY <1>2, <1>4, <2>1
<1>7. \A f \in c.fields : f = <<f[1], f[2], f[3]>> /\ f[1] \in Nat /\ f[2] \in Nat \ {0} /\ f[1] + f[2] <= c.len
  <2> TAKE f \in c.fields
  <2>1. CASE f \in a.fields
    BY <1>1, <1>4, <1>5, <2>1
  <2>2. CASE \E e \in b.fields : f = at(e)
    BY <1>1, <1>4, <1>6, <2>2
  <2> QED BY <1>1, <2>1, <2>2
<1>8. \A f \in a.fields, e \in b.fields : f[1] # at(e)[1]
  BY <1>4, <1>5, <1>6
<1>9. \A e, d \in b.fields : at(e)[1] = at(d)[1] => e = d
  <2> TAKE e, d \in b.fields
  <2> HAVE at(e)[1] = at(d)[1]
  <2>1. e[1] \in Nat /\ d[1] \in Nat
    BY DEF String
  <2>2. e[1] = d[1]
    BY <1>2, <1>4, <2>1
  <2> QED BY <2>2 DEF String
<1>10. \A f, g \in c.fields : f[1] = g[1] => f = g
  <2>1. \A f, g \in a.fields : f[1] = g[1] => f = g
    BY DEF String
  <2> QED BY <1>1, <1>8, <1>9, <2>1
<1>11. String(c)
  BY <1>1, <1>4, <1>7, <1>10 DEF String
<1>12. \A o, w, v : <<o, w, v>> \in b.fields => <<a.len + o, w, v>> \in c.fields
  BY <1>1, <1>3
<1> QED BY <1>1, <1>11, <1>12 DEF c

\* The same by length and by field, in the form in which strings are built.
Long(b, n) == String(b) /\ b.len = n
FieldAt(b, o, w, v) == <<o, w, v>> \in b.fields

\* A single field, by length.
LEMMA LongBytes == \A w \in Nat \ {0} : \A v : Long(Bytes(w, v), w) /\ FieldAt(Bytes(w, v), 0, w, v)
<1>1. \A w \in Nat \ {0} : \A v : String(Bytes(w, v)) /\ Bytes(w, v).len = w
  BY BytesIsString
<1>2. \A w \in Nat \ {0} : \A v : <<0, w, v>> \in Bytes(w, v).fields
  BY BytesIsString
<1> QED BY <1>1, <1>2 DEF Long, FieldAt

\* Two strings, by length.
LEMMA LongJoined ==
  ASSUME NEW n \in Nat, NEW k \in Nat, NEW a, NEW b, Long(a, n), Long(b, k)
  PROVE  /\ Long(a ++ b, n + k)
         /\ \A o, w, v : FieldAt(a, o, w, v) => FieldAt(a ++ b, o, w, v)
         /\ \A o, w, v : FieldAt(b, o, w, v) => FieldAt(a ++ b, n + o, w, v)
<1>1. String(a) /\ a.len = n /\ String(b) /\ b.len = k
  BY DEF Long
<1>2. String(a ++ b) /\ (a ++ b).len = n + k /\ a.fields \subseteq (a ++ b).fields
  BY <1>1, Joined
<1>3. \A o, w, v : <<o, w, v>> \in b.fields => <<n + o, w, v>> \in (a ++ b).fields
  BY <1>1, Joined
<1> QED BY <1>2, <1>3 DEF Long, FieldAt

\* A string with one more field.
LEMMA Then ==
  ASSUME NEW n \in Nat, NEW w \in Nat \ {0}, NEW a, NEW v, Long(a, n)
  PROVE  /\ Long(a ++ Bytes(w, v), n + w)
         /\ \A o, u, z : FieldAt(a, o, u, z) => FieldAt(a ++ Bytes(w, v), o, u, z)
         /\ FieldAt(a ++ Bytes(w, v), n, w, v)
<1> DEFINE b == Bytes(w, v)
<1>1. Long(b, w) /\ FieldAt(b, 0, w, v)
  BY LongBytes
<1> HIDE DEF b
<1>2. /\ Long(a ++ b, n + w)
      /\ \A o, u, z : FieldAt(a, o, u, z) => FieldAt(a ++ b, o, u, z)
      /\ FieldAt(a ++ b, n + 0, w, v)
  BY <1>1, LongJoined
<1> QED BY <1>2 DEF b

\* Two fields that are appended as one string.
LEMMA ThenPair ==
  ASSUME NEW n \in Nat, NEW w1 \in Nat \ {0}, NEW w2 \in Nat \ {0}, NEW a, NEW v1, NEW v2, Long(a, n)
  PROVE  LET b == Bytes(w1, v1) ++ Bytes(w2, v2) IN
         /\ Long(b, w1 + w2) /\ FieldAt(b, 0, w1, v1) /\ FieldAt(b, w1, w2, v2)
         /\ Long(a ++ b, n + w1 + w2)
         /\ \A o, u, z : FieldAt(a, o, u, z) => FieldAt(a ++ b, o, u, z)
         /\ FieldAt(a ++ b, n, w1, v1) /\ FieldAt(a ++ b, n + w1, w2, v2)
<1> DEFINE b == Bytes(w1, v1) ++ Bytes(w2, v2)
<1>1. Long(b, w1 + w2) /\ FieldAt(b, 0, w1, v1) /\ FieldAt(b, w1, w2, v2)
  <2> DEFINE c == Bytes(w1, v1)
  <2>1. Long(c, w1) /\ FieldAt(c, 0, w1, v1)
    BY LongBytes
  <2> HIDE DEF c
  <2> DEFINE e == c ++ Bytes(w2, v2)
  <2>2. Long(e, w1 + w2) /\ FieldAt(e, 0, w1, v1) /\ FieldAt(e, w1, w2, v2)
    BY <2>1, Then
  <2> QED BY <2>2 DEF c
<1> HIDE DEF b
<1>2. /\ Long(a ++ b, n + (w1 + w2))
      /\ \A o, u, z : FieldAt(a, o, u, z) => FieldAt(a ++ b, o, u, z)
      /\ FieldAt(a ++ b, n + 0, w1, v1) /\ FieldAt(a ++ b, n + w1, w2, v2)
  BY <1>1, LongJoined
<1>3. n + (w1 + w2) = n + w1 + w2 /\ n + 0 = n
  OBVIOUS
<1> QED BY <1>1, <1>2, <1>3 DEF b

\* A field at an offset of a string is read there.
LEMMA LongRead ==
  ASSUME NEW b, NEW n, Long(b, n), NEW o, NEW w, NEW v, FieldAt(b, o, w, v), NEW z
  PROVE  Read(b.fields, o, w, z) = v
  BY ReadString DEF Long, FieldAt

\* The rows of a table lie behind each other.
LEMMA RowsApart ==
  ASSUME NEW w \in Nat \ {0}, NEW j \in Nat \ {0}, NEW k \in Nat \ {0}
  PROVE  /\ w * (j - 1) \in Nat
         /\ j <= k => w * (j - 1) <= w * (k - 1) /\ w * (j - 1) + w <= w * k
         /\ j < k => w * (j - 1) + w <= w * (k - 1)
  OBVIOUS

\* Each row stands at its multiple of the width.
LEMMA OneRow ==
  \A a, b, x, y, w \in Nat :
    x < w /\ y < w /\ a + x = b + y => ~(a + w <= b) /\ ~(b + w <= a)
  OBVIOUS

\* Rows of one width are a string.
LEMMA RowsIsString ==
  ASSUME NEW w \in Nat \ {0}, NEW n \in Nat, NEW rows, DOMAIN rows = 1 .. n, Len(rows) = n,
         \A k \in 1 .. n : String(rows[k]) /\ rows[k].len = w
  PROVE  /\ String(Rows(w, rows)) /\ Rows(w, rows).len = w * n
         /\ \A k \in 1 .. n : \A o, u, v : <<o, u, v>> \in rows[k].fields =>
              <<w * (k - 1) + o, u, v>> \in Rows(w, rows).fields
<1> DEFINE off(k) == w * (k - 1)
           end == w * n
           at(k, f) == <<off(k) + f[1], f[2], f[3]>>
           c == Rows(w, rows)
<1>1. c.len = end /\ end \in Nat
  BY DEF Rows
<1>2. \A g : g \in c.fields <=> \E k \in 1 .. n : \E f \in rows[k].fields : g = at(k, f)
  BY DEF Rows, Shifted
<1>3. \A k, f : at(k, f)[1] = off(k) + f[1] /\ at(k, f)[2] = f[2]
                /\ at(k, f)[3] = f[3] /\ at(k, f) = <<at(k, f)[1], at(k, f)[2], at(k, f)[3]>>
  OBVIOUS
<1>4. \A k, o, u, v : at(k, <<o, u, v>>) = <<off(k) + o, u, v>>
  OBVIOUS
<1>5. \A k \in 1 .. n : off(k) \in Nat /\ off(k) + w <= end
  BY RowsApart
<1>6. \A j, k \in 1 .. n : j < k => off(j) + w <= off(k)
  BY RowsApart
<1> HIDE DEF at, c, off, end
<1>7. \A k \in 1 .. n : \A f \in rows[k].fields :
        /\ f[1] \in Nat /\ f[2] \in Nat \ {0} /\ f[1] + f[2] <= w
        /\ at(k, f)[1] \in Nat /\ at(k, f)[2] \in Nat \ {0} /\ at(k, f)[1] + at(k, f)[2] <= end
  <2> TAKE k \in 1 .. n
  <2> TAKE f \in rows[k].fields
  <2>1. f[1] \in Nat /\ f[2] \in Nat \ {0} /\ f[1] + f[2] <= w
    BY DEF String
  <2>2. at(k, f)[1] = off(k) + f[1] /\ at(k, f)[2] = f[2]
    BY <1>3
  <2>3. off(k) + f[1] \in Nat /\ off(k) + f[1] + f[2] <= end
    BY <1>1, <1>5, <2>1
  <2> QED BY <2>1, <2>2, <2>3
<1>8. \A j, k \in 1 .. n : \A f \in rows[j].fields, g \in rows[k].fields :
         at(j, f)[1] = at(k, g)[1] => j = k /\ f = g
  <2> SUFFICES ASSUME NEW j \in 1 .. n, NEW k \in 1 .. n, NEW f \in rows[j].fields, NEW g \in rows[k].fields,
                      at(j, f)[1] = at(k, g)[1]
               PROVE  j = k /\ f = g
    OBVIOUS
  <2>1. f[1] \in Nat /\ f[2] \in Nat \ {0} /\ f[1] + f[2] <= w
    BY <1>7
  <2>2. g[1] \in Nat /\ g[2] \in Nat \ {0} /\ g[1] + g[2] <= w
    BY <1>7
  <2>3. off(j) + f[1] = off(k) + g[1] /\ off(j) \in Nat /\ off(k) \in Nat
    BY <1>3, <1>5
  <2>4. f[1] < w /\ g[1] < w /\ f[1] >= 0 /\ g[1] >= 0 /\ w \in Int
    BY <2>1, <2>2
  <2>5. ~(off(j) + w <= off(k)) /\ ~(off(k) + w <= off(j))
    BY <2>1, <2>2, <2>3, <2>4, OneRow
  <2>6. j = k
    BY <1>6, <2>5
  <2>7. f[1] = g[1]
    BY <2>1, <2>2, <2>3, <2>6
  <2> QED BY <2>6, <2>7 DEF String
<1>9. String(c)
  <2>1. \A g \in c.fields : g = <<g[1], g[2], g[3]>> /\ g[1] \in Nat /\ g[2] \in Nat \ {0} /\ g[1] + g[2] <= c.len
    <3> TAKE g \in c.fields
    <3>1. PICK k \in 1 .. n : \E f \in rows[k].fields : g = at(k, f)
      BY <1>2
    <3>2. PICK f \in rows[k].fields : g = at(k, f)
      BY <3>1
    <3> QED BY <1>1, <1>3, <1>7, <3>2
  <2>2. \A e, g \in c.fields : e[1] = g[1] => e = g
    <3> TAKE e, g \in c.fields
    <3>1. PICK j \in 1 .. n : \E f \in rows[j].fields : e = at(j, f)
      BY <1>2
    <3>2. PICK f \in rows[j].fields : e = at(j, f)
      BY <3>1
    <3>3. PICK k \in 1 .. n : \E h \in rows[k].fields : g = at(k, h)
      BY <1>2
    <3>4. PICK h \in rows[k].fields : g = at(k, h)
      BY <3>3
    <3> QED BY <1>8, <3>2, <3>4
  <2> QED BY <1>1, <2>1, <2>2 DEF String
<1>10. \A k \in 1 .. n : \A o, u, v : <<o, u, v>> \in rows[k].fields => <<off(k) + o, u, v>> \in c.fields
  BY <1>2, <1>4
<1> QED BY <1>1, <1>9, <1>10 DEF c, off, end

\* The same, by length.
LEMMA LongRows ==
  ASSUME NEW w \in Nat \ {0}, NEW n \in Nat, NEW rows, DOMAIN rows = 1 .. n, Len(rows) = n,
         \A k \in 1 .. n : Long(rows[k], w)
  PROVE  /\ Long(Rows(w, rows), w * n)
         /\ \A k \in 1 .. n : \A o, u, v :
              FieldAt(rows[k], o, u, v) => FieldAt(Rows(w, rows), w * (k - 1) + o, u, v)
  BY RowsIsString DEF Long, FieldAt

\* b has the rows of a table of w bytes each from offset n on.
HasRows(b, n, w, rows) ==
  \A k \in DOMAIN rows : \A o, u, v : FieldAt(rows[k], o, u, v) => FieldAt(b, n + w * (k - 1) + o, u, v)

\* A string with rows at its end.
LEMMA RowsJoined ==
  ASSUME NEW n \in Nat, NEW w \in Nat \ {0}, NEW a, NEW rows, Long(a, n),
         Len(rows) \in Nat, DOMAIN rows = 1 .. Len(rows), \A k \in DOMAIN rows : Long(rows[k], w)
  PROVE  /\ Long(a ++ Rows(w, rows), n + w * Len(rows))
         /\ \A o, u, v : FieldAt(a, o, u, v) => FieldAt(a ++ Rows(w, rows), o, u, v)
         /\ HasRows(a ++ Rows(w, rows), n, w, rows)
<1> DEFINE l == Len(rows)
           b == Rows(w, rows)
           end == w * l
           off(k) == w * (k - 1)
<1>1. Long(b, end) /\ \A k \in DOMAIN rows : \A o, u, v : FieldAt(rows[k], o, u, v) => FieldAt(b, off(k) + o, u, v)
  BY LongRows
<1>2. end \in Nat /\ \A k \in DOMAIN rows : off(k) \in Nat
  <2>1. \A k \in DOMAIN rows : off(k) \in Nat
    BY RowsApart
  <2>2. end \in Nat
    OBVIOUS
  <2> QED BY <2>1, <2>2
<1>3. \A k \in DOMAIN rows : \A f \in rows[k].fields : f = <<f[1], f[2], f[3]>> /\ f[1] \in Nat
  BY DEF Long, String
<1>4. \A k \in DOMAIN rows : \A o, u, v : FieldAt(rows[k], o, u, v) => o \in Nat
  <2> SUFFICES ASSUME NEW k \in DOMAIN rows, NEW o, NEW u, NEW v, <<o, u, v>> \in rows[k].fields
               PROVE  o \in Nat
    BY DEF FieldAt
  <2> DEFINE f == <<o, u, v>>
  <2>1. f[1] \in Nat /\ f[1] = o
    BY <1>3
  <2> QED BY <2>1
<1> HIDE DEF b, end, off
<1>5. /\ Long(a ++ b, n + end) /\ \A o, u, v : FieldAt(a, o, u, v) => FieldAt(a ++ b, o, u, v)
      /\ \A o, u, v : FieldAt(b, o, u, v) => FieldAt(a ++ b, n + o, u, v)
  BY <1>1, <1>2, LongJoined
<1>6. \A k \in DOMAIN rows : \A o \in Nat : n + (off(k) + o) = n + off(k) + o
  BY <1>2
<1>7. \A k \in DOMAIN rows : \A o, u, v : FieldAt(rows[k], o, u, v) => FieldAt(a ++ b, n + off(k) + o, u, v)
  <2> SUFFICES ASSUME NEW k \in DOMAIN rows, NEW o, NEW u, NEW v, FieldAt(rows[k], o, u, v)
               PROVE  FieldAt(a ++ b, n + off(k) + o, u, v)
    OBVIOUS
  <2>1. FieldAt(a ++ b, n + (off(k) + o), u, v)
    BY <1>1, <1>5
  <2> QED BY <1>4, <1>6, <2>1
<1> QED BY <1>5, <1>7 DEF b, end, off, HasRows
=============================================================================
