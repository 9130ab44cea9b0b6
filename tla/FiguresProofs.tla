--------------------------- MODULE FiguresProofs ----------------------------
(***************************************************************************)
(* Proofs about the figures that PricingService and ReputationService      *)
(* compute: for every finite set of providers or of kinds of event, every  *)
(* price and every value, the median is a median, the advice agrees with   *)
(* the recommendation, the histogram counts every provider once, and good  *)
(* news never lowers an overall score.                                     *)
(*                                                                         *)
(* The figures are folds over finite sets and an ordering of one, so that  *)
(* the proofs need induction.  The library's induction theorems take an    *)
(* operator; here induction is over a set of good cases instead, with the  *)
(* theorem that a nonempty subset of a well-founded set has a minimal      *)
(* element: if the good cases were not all, take a least bad one.          *)
(***************************************************************************)
EXTENDS Figures, FiniteSetTheorems, TLAPS

-----------------------------------------------------------------------------
(* Induction                                                               *)

\* The order of the numbers, as a relation.
Before == {ss \in Nat \X Nat : ss[1] < ss[2]}

\* A set of numbers that holds 0, and n + 1 with every n, holds them all.
LEMMA Induction ==
    ASSUME NEW T, 0 \in T, \A n \in Nat : n \in T => n + 1 \in T
    PROVE  Nat \subseteq T
<1> DEFINE Bad == Nat \ T
<1>1. SUFFICES ASSUME Bad # {} PROVE FALSE
  OBVIOUS
<1>2. PICK m \in Bad : \A k \in Bad : <<k, m>> \notin Before
  <2>1. IsWellFoundedOn(Before, Nat)
    BY NatLessThanWellFounded DEF OpToRel, Before
  <2>2. Bad \subseteq Nat
    OBVIOUS
  <2> HIDE DEF Bad
  <2> QED BY <2>1, <2>2, <1>1, WFMin
<1>3. m - 1 \in Nat
  OBVIOUS
<1>4. \A k \in Bad : ~(k < m)
  BY <1>2 DEF Before
<1>5. m - 1 \in T
  BY <1>3, <1>4
<1> QED BY <1>3, <1>5

\* If a subset of S is good whenever all its proper subsets are, all subsets
\* of a finite S are good.
LEMMA SubsetInduction ==
    ASSUME NEW S, IsFiniteSet(S), NEW Good,
           \A T \in SUBSET S :
              (\A U \in SUBSET T : U # T => U \in Good) => T \in Good
    PROVE  SUBSET S \subseteq Good
<1> DEFINE Bad == (SUBSET S) \ Good
           R == StrictSubsetOrdering(S)
<1>1. SUFFICES ASSUME Bad # {} PROVE FALSE
  OBVIOUS
<1>2. IsWellFoundedOn(R, SUBSET S)
  BY FS_StrictSubsetOrderingWellFounded, FS_FiniteSubsetsOfFinite
<1>3. PICK T \in Bad : \A U \in Bad : <<U, T>> \notin R
  <2>1. Bad \subseteq SUBSET S
    OBVIOUS
  <2> HIDE DEF Bad, R
  <2> QED BY <2>1, <1>1, <1>2, WFMin
<1>4. \A U \in SUBSET T : U # T => U \in Good
  BY <1>3 DEF StrictSubsetOrdering
<1> QED BY <1>4

\* The element that a fold over S takes first.
Picked(S) == CHOOSE x \in S : TRUE

\* g is the fold that adds up f over the subsets of S.
Adds(f, S, g) ==
    g = [s \in SUBSET S |-> IF s = {} THEN 0
                            ELSE f[Picked(s)] + g[s \ {Picked(s)}]]

\* What SumFunctionOnSet unfolds to.
LEMMA SumIs ==
    ASSUME NEW f, NEW S
    PROVE  SumFunctionOnSet(f, S) = (CHOOSE g : Adds(f, S, g))[S]
BY DEF SumFunctionOnSet, FoldFunctionOnSet, MapThenFoldSet, Adds, Picked

\* There is such a fold: the CHOOSE in the definition of the community modules
\* is defined.
LEMMA AddsExists ==
    ASSUME NEW D, NEW f \in [D -> Int], NEW S \in SUBSET D, IsFiniteSet(S)
    PROVE  \E g \in [SUBSET S -> Int] : Adds(f, S, g)
<1> DEFINE Upto(n, g) == \A s \in SUBSET S : Cardinality(s) <= n =>
                g[s] = IF s = {} THEN 0
                                 ELSE f[Picked(s)] + g[s \ {Picked(s)}]
           Reached == {n \in Nat : \E g \in [SUBSET S -> Int] : Upto(n, g)}
<1>1. \A s \in SUBSET S : IsFiniteSet(s) /\ Cardinality(s) \in Nat
                          /\ Cardinality(s) <= Cardinality(S)
  BY FS_Subset, FS_CardinalityType
<1>2. \A s \in SUBSET S : s # {} => 
          /\ Picked(s) \in s /\ f[Picked(s)] \in Int
          /\ s \ {Picked(s)} \in SUBSET S
          /\ Cardinality(s \ {Picked(s)}) = Cardinality(s) - 1
  <2> TAKE s \in SUBSET S
  <2> HAVE s # {}
  <2>1. Picked(s) \in s BY DEF Picked
  <2>2. Cardinality(s \ {Picked(s)}) = Cardinality(s) - 1
    BY <2>1, <1>1, FS_RemoveElement
  <2> QED BY <2>1, <2>2
<1>3. \A s \in SUBSET S : Cardinality(s) = 0 => s = {}
  BY <1>1, FS_EmptySet
<1>4. 0 \in Reached
  <2> DEFINE g == [s \in SUBSET S |-> 0]
  <2>1. g \in [SUBSET S -> Int]
    OBVIOUS
  <2>2. Upto(0, g)
    BY <1>1, <1>3
  <2> QED BY <2>1, <2>2
<1>5. ASSUME NEW n \in Nat, n \in Reached PROVE n + 1 \in Reached
  <2>1. PICK g \in [SUBSET S -> Int] : Upto(n, g)
    BY <1>5
  <2> DEFINE h == [s \in SUBSET S |-> IF Cardinality(s) <= n THEN g[s]
                          ELSE f[Picked(s)] + g[s \ {Picked(s)}]]
  <2>2. h \in [SUBSET S -> Int]
    <3> SUFFICES ASSUME NEW s \in SUBSET S, ~(Cardinality(s) <= n)
                 PROVE  f[Picked(s)] + g[s \ {Picked(s)}] \in Int
      OBVIOUS
    <3>1. s # {}
      BY FS_EmptySet, <1>1
    <3> QED BY <3>1, <1>2
  <2>3. Upto(n + 1, h)
    <3> SUFFICES ASSUME NEW s \in SUBSET S, Cardinality(s) <= n + 1
                 PROVE  h[s] = IF s = {} THEN 0
                                 ELSE f[Picked(s)] + h[s \ {Picked(s)}]
      OBVIOUS
    <3>1. CASE s = {}
      <4>1. Cardinality(s) = 0
        BY <3>1, FS_EmptySet
      <4>2. h[s] = g[s]
        BY <4>1
      <4> QED BY <2>1, <3>1, <4>1, <4>2
    <3>2. CASE s # {}
      <4> DEFINE t == s \ {Picked(s)}
      <4>1. t \in SUBSET S /\ Cardinality(t) = Cardinality(s) - 1
        BY <1>2, <3>2
      <4>2. h[t] = g[t]
        BY <4>1, <1>1
      <4>3. h[s] = f[Picked(s)] + g[t]
        BY <2>1, <3>2, <1>1
      <4> QED BY <4>2, <4>3, <3>2
    <3> QED BY <3>1, <3>2
  <2> HIDE DEF h, Upto
  <2> QED BY <2>2, <2>3
<1>6. Cardinality(S) \in Reached
  <2> HIDE DEF Reached
  <2>1. Nat \subseteq Reached
    BY <1>4, <1>5, Induction
  <2> QED BY <2>1, <1>1
<1>7. PICK g \in [SUBSET S -> Int] : Upto(Cardinality(S), g)
  BY <1>6
<1>8. Adds(f, S, g)
  <2>1. \A s \in SUBSET S : g[s] = IF s = {} THEN 0
                                   ELSE f[Picked(s)] + g[s \ {Picked(s)}]
    BY <1>7, <1>1
  <2> QED BY <2>1 DEF Adds
<1> QED BY <1>8

\* The chosen fold adds, and its sums are numbers.
LEMMA SumAdds ==
    ASSUME NEW D, NEW f \in [D -> Int], NEW S \in SUBSET D, IsFiniteSet(S)
    PROVE  LET g == CHOOSE g : Adds(f, S, g)
           IN  Adds(f, S, g) /\ g \in [SUBSET S -> Int]
<1> DEFINE g == CHOOSE g : Adds(f, S, g)
           Good == {s \in SUBSET S : g[s] \in Int}
<1>1. Adds(f, S, g)
  BY AddsExists
<1> HIDE DEF g
<1>2. ASSUME NEW T \in SUBSET S, \A U \in SUBSET T : U # T => U \in Good
      PROVE  T \in Good
  <2>1. CASE T = {}
    BY <2>1, <1>1 DEF Adds
  <2>2. CASE T # {}
    <3>1. Picked(T) \in T
      BY <2>2 DEF Picked
    <3>2. g[T \ {Picked(T)}] \in Int
      BY <3>1, <1>2
    <3>3. g[T] = f[Picked(T)] + g[T \ {Picked(T)}]
      BY <2>2, <1>1 DEF Adds
    <3> QED BY <3>1, <3>2, <3>3
  <2> QED BY <2>1, <2>2
<1>3. SUBSET S \subseteq Good
  <2> HIDE DEF Good
  <2> QED BY <1>2, SubsetInduction
<1>4. g \in [SUBSET S -> Int]
  BY <1>1, <1>3 DEF Adds
<1> QED BY <1>1, <1>4 DEF g

\* The folds over a set and over a subset of it agree.
LEMMA SumOn ==
    ASSUME NEW D, NEW f \in [D -> Int], NEW S \in SUBSET D, IsFiniteSet(S),
           NEW g, Adds(f, S, g), NEW T \in SUBSET S
    PROVE  g[T] = SumFunctionOnSet(f, T)
<1> DEFINE h == CHOOSE h : Adds(f, T, h)
           Good == {U \in SUBSET T : h[U] = g[U]}
<1>1. IsFiniteSet(T)
  BY FS_Subset
<1>2. Adds(f, T, h)
  BY <1>1, AddsExists
<1>3. SumFunctionOnSet(f, T) = h[T]
  BY SumIs
<1> HIDE DEF h
<1>4. ASSUME NEW V \in SUBSET T, \A U \in SUBSET V : U # V => U \in Good
      PROVE  V \in Good
  <2>1. CASE V = {}
    BY <2>1, <1>2 DEF Adds
  <2>2. CASE V # {}
    <3>1. Picked(V) \in V
      BY <2>2 DEF Picked
    <3>2. h[V \ {Picked(V)}] = g[V \ {Picked(V)}]
      BY <3>1, <1>4
    <3>3. h[V] = f[Picked(V)] + h[V \ {Picked(V)}]
      BY <2>2, <1>2 DEF Adds
    <3>4. g[V] = f[Picked(V)] + g[V \ {Picked(V)}]
      BY <2>2 DEF Adds
    <3> QED BY <3>2, <3>3, <3>4
  <2> QED BY <2>1, <2>2
<1>5. SUBSET T \subseteq Good
  <2> HIDE DEF Good
  <2> QED BY <1>1, <1>4, SubsetInduction
<1> QED BY <1>3, <1>5

\* The sum over a set, taken apart in the order of the fold.
LEMMA SumPicked ==
    ASSUME NEW D, NEW f \in [D -> Int], NEW S \in SUBSET D, IsFiniteSet(S)
    PROVE  /\ SumFunctionOnSet(f, S) \in Int
           /\ SumFunctionOnSet(f, {}) = 0
           /\ S # {} => /\ Picked(S) \in S
                        /\ SumFunctionOnSet(f, S) =
                              f[Picked(S)] + SumFunctionOnSet(f, S \ {Picked(S)})
<1> DEFINE g == CHOOSE g : Adds(f, S, g)
<1>1. Adds(f, S, g) /\ g \in [SUBSET S -> Int]
  BY SumAdds
<1> HIDE DEF g
<1>2. \A T \in SUBSET S : g[T] = SumFunctionOnSet(f, T)
  BY <1>1, SumOn
<1>3. S # {} => Picked(S) \in S
  BY DEF Picked
<1>4. S # {} => g[S] = f[Picked(S)] + g[S \ {Picked(S)}]
  BY <1>1 DEF Adds
<1>5. g[{}] = 0
  BY <1>1 DEF Adds
<1> QED BY <1>1, <1>2, <1>3, <1>4, <1>5

\* Any element can be taken out of a sum, whatever order the fold takes.
LEMMA SumWithout ==
    ASSUME NEW D, NEW f \in [D -> Int], NEW S \in SUBSET D, IsFiniteSet(S),
           NEW x \in S
    PROVE  SumFunctionOnSet(f, S) = f[x] + SumFunctionOnSet(f, S \ {x})
<1> DEFINE Good == {T \in SUBSET S : \A y \in T :
              SumFunctionOnSet(f, T) = f[y] + SumFunctionOnSet(f, T \ {y})}
<1>1. ASSUME NEW T \in SUBSET S, \A U \in SUBSET T : U # T => U \in Good
      PROVE  T \in Good
  <2>1. SUFFICES ASSUME NEW y \in T
                 PROVE  SumFunctionOnSet(f, T) = f[y] + SumFunctionOnSet(f, T \ {y})
    OBVIOUS
  <2> DEFINE z == Picked(T)
             rest == (T \ {z}) \ {y}
  <2>2. z \in T /\ SumFunctionOnSet(f, T) = f[z] + SumFunctionOnSet(f, T \ {z})
    <3>1. IsFiniteSet(T) /\ T \in SUBSET D /\ T # {}
      BY FS_Subset
    <3> QED BY <3>1, SumPicked
  <2>3. CASE y = z
    BY <2>2, <2>3
  <2>4. CASE y # z
    <3>1. SumFunctionOnSet(f, T \ {z}) = f[y] + SumFunctionOnSet(f, rest)
      BY <2>2, <2>4, <1>1
    <3>2. rest = (T \ {y}) \ {z}
      OBVIOUS
    <3>3. SumFunctionOnSet(f, T \ {y}) = f[z] + SumFunctionOnSet(f, rest)
      <4>1. z \in T \ {y} /\ T \ {y} \in Good
        BY <2>2, <2>4, <1>1
      <4> QED BY <4>1, <3>2
    <3>4. SumFunctionOnSet(f, rest) \in Int
      <4>1. rest \in SUBSET D /\ IsFiniteSet(rest)
        BY FS_Subset
      <4> QED BY <4>1, SumPicked
    <3>5. f[y] \in Int /\ f[z] \in Int
      BY <2>2
    <3> HIDE DEF rest, z
    <3> QED BY <2>2, <3>1, <3>3, <3>4, <3>5
  <2> QED BY <2>3, <2>4
<1>2. SUBSET S \subseteq Good
  <2> HIDE DEF Good
  <2> QED BY <1>1, SubsetInduction
<1> QED BY <1>2

\* A sum depends on the summands alone.
LEMMA SumSame ==
    ASSUME NEW D, NEW f \in [D -> Int], NEW E, NEW h \in [E -> Int],
           NEW S, IsFiniteSet(S), S \subseteq D, S \subseteq E,
           \A x \in S : f[x] = h[x]
    PROVE  SumFunctionOnSet(f, S) = SumFunctionOnSet(h, S)
<1> DEFINE Good == {T \in SUBSET S :
                      SumFunctionOnSet(f, T) = SumFunctionOnSet(h, T)}
<1>1. ASSUME NEW T \in SUBSET S, \A U \in SUBSET T : U # T => U \in Good
      PROVE  T \in Good
  <2>1. IsFiniteSet(T) /\ T \in SUBSET D /\ T \in SUBSET E
    BY FS_Subset
  <2>2. CASE T = {}
    BY <2>1, <2>2, SumPicked
  <2>3. CASE T # {}
    <3> DEFINE z == Picked(T)
    <3>1. z \in T /\ SumFunctionOnSet(f, T) = f[z] + SumFunctionOnSet(f, T \ {z})
      BY <2>1, <2>3, SumPicked
    <3>2. SumFunctionOnSet(h, T) = h[z] + SumFunctionOnSet(h, T \ {z})
      BY <2>1, <2>3, SumPicked
    <3>3. T \ {z} \in Good
      BY <3>1, <1>1
    <3> QED BY <3>1, <3>2, <3>3
  <2> QED BY <2>2, <2>3
<1>2. SUBSET S \subseteq Good
  <2> HIDE DEF Good
  <2> QED BY <1>1, SubsetInduction
<1> QED BY <1>2

\* Summands that are not negative have a sum that is not.
LEMMA SumAtLeast0 ==
    ASSUME NEW D, NEW f \in [D -> Int], NEW S \in SUBSET D, IsFiniteSet(S),
           \A x \in S : f[x] >= 0
    PROVE  SumFunctionOnSet(f, S) \in Nat
<1> DEFINE Good == {T \in SUBSET S : SumFunctionOnSet(f, T) \in Nat}
<1>1. ASSUME NEW T \in SUBSET S, \A U \in SUBSET T : U # T => U \in Good
      PROVE  T \in Good
  <2>1. IsFiniteSet(T) /\ T \in SUBSET D
    BY FS_Subset
  <2>2. CASE T = {}
    <3>1. SumFunctionOnSet(f, {}) = 0
      BY <2>1, SumPicked
    <3> QED BY <2>2, <3>1
  <2>3. CASE T # {}
    <3> DEFINE z == Picked(T)
    <3>1. z \in T /\ SumFunctionOnSet(f, T) = f[z] + SumFunctionOnSet(f, T \ {z})
      BY <2>1, <2>3, SumPicked
    <3>3. SumFunctionOnSet(f, T \ {z}) \in Nat
      BY <3>1, <1>1
    <3>4. f[z] \in Nat
      BY <3>1
    <3> QED BY <3>1, <3>3, <3>4
  <2> QED BY <2>2, <2>3
<1>2. SUBSET S \subseteq Good
  <2> HIDE DEF Good
  <2> QED BY <1>1, SubsetInduction
<1> QED BY <1>2

\* The sizes of disjoint sets add up to that of their union.
LEMMA SumOfSizes ==
    ASSUME NEW K, NEW X, IsFiniteSet(X), NEW b \in [K -> SUBSET X],
           \A k, l \in K : k # l => b[k] \cap b[l] = {},
           NEW f \in [K -> Int], \A k \in K : f[k] = Cardinality(b[k]),
           NEW S \in SUBSET K, IsFiniteSet(S)
    PROVE  SumFunctionOnSet(f, S) = Cardinality(UNION {b[k] : k \in S})
<1> DEFINE Of(T) == UNION {b[k] : k \in T}
           Good == {T \in SUBSET S : SumFunctionOnSet(f, T) = Cardinality(Of(T))}
<1>1. ASSUME NEW T \in SUBSET S, \A U \in SUBSET T : U # T => U \in Good
      PROVE  T \in Good
  <2>1. IsFiniteSet(T) /\ T \in SUBSET K
    BY FS_Subset
  <2>2. CASE T = {}
    <3>1. Of(T) = {}
      BY <2>2
    <3> QED BY <2>1, <2>2, <3>1, SumPicked, FS_EmptySet
  <2>3. CASE T # {}
    <3> DEFINE z == Picked(T)
               U == T \ {z}
    <3>1. z \in T /\ SumFunctionOnSet(f, T) = f[z] + SumFunctionOnSet(f, U)
      BY <2>1, <2>3, SumPicked
    <3>2. SumFunctionOnSet(f, U) = Cardinality(Of(U))
      BY <3>1, <1>1
    <3>3. Of(T) = b[z] \cup Of(U) /\ b[z] \cap Of(U) = {}
      BY <3>1
    <3>4. IsFiniteSet(b[z]) /\ IsFiniteSet(Of(U))
      <4>1. b[z] \in SUBSET X /\ Of(U) \in SUBSET X
        BY <3>1
      <4> QED BY <4>1, FS_Subset
    <3>5. Cardinality(Of(T)) = Cardinality(b[z]) + Cardinality(Of(U)) - Cardinality({})
      <4> HIDE DEF Of, z, U
      <4> QED BY <3>3, <3>4, FS_Union
    <3>6. Cardinality({}) = 0 /\ Cardinality(b[z]) \in Nat /\ Cardinality(Of(U)) \in Nat
      <4> HIDE DEF Of, z, U
      <4> QED BY <3>4, FS_EmptySet, FS_CardinalityType
    <3>7. f[z] = Cardinality(b[z])
      BY <3>1
    <3>8. SumFunctionOnSet(f, T) = Cardinality(Of(T))
      <4> HIDE DEF Of, z, U
      <4> QED BY <3>1, <3>2, <3>5, <3>6, <3>7
    <3> QED BY <3>8
  <2> QED BY <2>2, <2>3
<1>2. SUBSET S \subseteq Good
  <2> HIDE DEF Good
  <2> QED BY <1>1, SubsetInduction
<1> QED BY <1>2

\* The sizes of the parts of a partition add up to that of the whole.
LEMMA SumOfParts ==
    ASSUME NEW K, IsFiniteSet(K), NEW X, IsFiniteSet(X), NEW b \in [K -> SUBSET X],
           \A k, l \in K : k # l => b[k] \cap b[l] = {},
           \A x \in X : \E k \in K : x \in b[k],
           \A k \in K : Cardinality(b[k]) \in Int
    PROVE  SumFunctionOnSet([k \in K |-> Cardinality(b[k])], K) = Cardinality(X)
<1> DEFINE f == [k \in K |-> Cardinality(b[k])]
           U == UNION {b[k] : k \in K}
<1>1. U = X
  OBVIOUS
<1>2. f \in [K -> Int] /\ \A k \in K : f[k] = Cardinality(b[k])
  OBVIOUS
<1>3. K \in SUBSET K
  OBVIOUS
<1>4. SumFunctionOnSet(f, K) = Cardinality(UNION {b[k] : k \in K})
  <2> HIDE DEF f
  <2> QED BY <1>2, <1>3, SumOfSizes
<1> QED BY <1>1, <1>4

\* Changing one summand by d changes the sum by d.
LEMMA SumChanged ==
    ASSUME NEW D, NEW f \in [D -> Int], NEW h \in [D -> Int],
           NEW S \in SUBSET D, IsFiniteSet(S), NEW x \in S, NEW d \in Int,
           h[x] = f[x] + d, \A y \in S \ {x} : f[y] = h[y]
    PROVE  SumFunctionOnSet(h, S) = SumFunctionOnSet(f, S) + d
<1> DEFINE T == S \ {x}
<1>1. IsFiniteSet(T) /\ T \in SUBSET D
  BY FS_Subset
<1>2. SumFunctionOnSet(f, T) = SumFunctionOnSet(h, T)
  <2>1. \A y \in T : f[y] = h[y]
    OBVIOUS
  <2> HIDE DEF T
  <2> QED BY <1>1, <2>1, SumSame
<1>3. SumFunctionOnSet(f, S) = f[x] + SumFunctionOnSet(f, T)
  BY SumWithout
<1>4. SumFunctionOnSet(h, S) = h[x] + SumFunctionOnSet(h, T)
  BY SumWithout
<1>5. SumFunctionOnSet(f, T) \in Int /\ f[x] \in Int
  BY <1>1, SumPicked
<1> HIDE DEF T
<1> QED BY <1>2, <1>3, <1>4, <1>5

\* A part of a sum of numbers that are not negative is at most the sum.
LEMMA SumOfPart ==
    ASSUME NEW D, NEW f \in [D -> Int], NEW S \in SUBSET D, IsFiniteSet(S),
           \A x \in S : f[x] >= 0
    PROVE  \A U \in SUBSET S : SumFunctionOnSet(f, U) <= SumFunctionOnSet(f, S)
<1> DEFINE Done == {T \in SUBSET S : \A U \in SUBSET T :
                      SumFunctionOnSet(f, U) <= SumFunctionOnSet(f, T)}
<1>1. ASSUME NEW T \in SUBSET S, \A U \in SUBSET T : U # T => U \in Done
      PROVE  T \in Done
  <2>1. SUFFICES ASSUME NEW U \in SUBSET T
                 PROVE  SumFunctionOnSet(f, U) <= SumFunctionOnSet(f, T)
    OBVIOUS
  <2>2. \A V \in SUBSET T : IsFiniteSet(V) /\ V \in SUBSET D
    BY FS_Subset
  <2>3. SumFunctionOnSet(f, U) \in Int
    BY <2>2, SumPicked
  <2>4. CASE U = T
    BY <2>3, <2>4
  <2>5. CASE U # T
    <3>1. PICK y \in T : y \notin U
      BY <2>5
    <3> DEFINE V == T \ {y}
    <3>2. V \in SUBSET T /\ V # T /\ U \in SUBSET V
      BY <3>1
    <3>3. SumFunctionOnSet(f, U) <= SumFunctionOnSet(f, V)
      BY <1>1, <3>2
    <3>4. SumFunctionOnSet(f, T) = f[y] + SumFunctionOnSet(f, V)
      BY <2>2, SumWithout
    <3>5. SumFunctionOnSet(f, V) \in Int
      BY <2>2, <3>2, SumPicked
    <3>6. f[y] \in Int /\ f[y] >= 0
      OBVIOUS
    <3> HIDE DEF V
    <3> QED BY <2>3, <3>3, <3>4, <3>5, <3>6
  <2> QED BY <2>4, <2>5
<1>2. SUBSET S \subseteq Done
  <2> HIDE DEF Done
  <2> QED BY <1>1, SubsetInduction
<1> QED BY <1>2

\* Zeros add up to zero.
LEMMA SumOfZeros ==
    ASSUME NEW D, NEW f \in [D -> Int], NEW S \in SUBSET D, IsFiniteSet(S),
           \A x \in S : f[x] = 0
    PROVE  SumFunctionOnSet(f, S) = 0
<1> DEFINE h == [x \in D |-> 0 - f[x]]
           Done == {T \in SUBSET S : SumFunctionOnSet(f, T) = 0}
<1>1. ASSUME NEW T \in SUBSET S, \A U \in SUBSET T : U # T => U \in Done
      PROVE  T \in Done
  <2>1. IsFiniteSet(T) /\ T \in SUBSET D
    BY FS_Subset
  <2>2. CASE T = {}
    <3>1. SumFunctionOnSet(f, {}) = 0
      BY <2>1, SumPicked
    <3> QED BY <2>2, <3>1
  <2>3. CASE T # {}
    <3> DEFINE z == Picked(T)
    <3>1. z \in T /\ SumFunctionOnSet(f, T) = f[z] + SumFunctionOnSet(f, T \ {z})
      BY <2>1, <2>3, SumPicked
    <3>2. SumFunctionOnSet(f, T \ {z}) = 0
      BY <3>1, <1>1
    <3> QED BY <3>1, <3>2
  <2> QED BY <2>2, <2>3
<1>2. SUBSET S \subseteq Done
  <2> HIDE DEF Done
  <2> QED BY <1>1, SubsetInduction
<1> QED BY <1>2

-----------------------------------------------------------------------------
(* The market                                                              *)

\* A finite set that is not empty has an element of least value.
LEMMA Least ==
    ASSUME NEW S, IsFiniteSet(S), S # {}, NEW D, S \subseteq D, NEW v \in [D -> Int]
    PROVE  \E x \in S : \A y \in S : v[x] <= v[y]
<1> DEFINE Good == {T \in SUBSET S : T # {} =>
                      \E x \in T : \A y \in T : v[x] <= v[y]}
<1>1. ASSUME NEW T \in SUBSET S, \A U \in SUBSET T : U # T => U \in Good
      PROVE  T \in Good
  <2>1. SUFFICES ASSUME NEW z \in T
                 PROVE  \E x \in T : \A y \in T : v[x] <= v[y]
    OBVIOUS
  <2> DEFINE U == T \ {z}
  <2>2. CASE U = {}
    <3>1. \A y \in T : y = z
      BY <2>2
    <3>2. v[z] \in Int /\ v[z] <= v[z]
      <4>1. z \in D
        OBVIOUS
      <4> QED BY <4>1
    <3>3. \A y \in T : v[z] <= v[y]
      BY ONLY <3>1, <3>2
    <3> QED BY <3>3
  <2>3. CASE U # {}
    <3>1. PICK x \in U : \A y \in U : v[x] <= v[y]
      <4>1. U \in SUBSET T /\ U # T
        OBVIOUS
      <4>2. U \in Good
        BY <1>1, <4>1
      <4> QED BY <2>3, <4>2
    <3>2. CASE v[x] <= v[z]
      <4>1. \A y \in T : v[x] <= v[y]
        BY <3>1, <3>2
      <4> QED BY <4>1
    <3>3. CASE ~(v[x] <= v[z])
      <4>1. \A y \in T : v[z] <= v[y]
        BY <3>1, <3>3
      <4> QED BY <4>1
    <3> QED BY <3>2, <3>3
  <2> QED BY <2>2, <2>3
<1>2. SUBSET S \subseteq Good
  <2> HIDE DEF Good
  <2> QED BY <1>1, SubsetInduction
<1> QED BY <1>2

\* Every finite set can be enumerated in the order of its elements' values:
\* ORDER BY has an answer, ties or not.  By induction on the number of positions
\* filled, taking a least of what remains for the next.
LEMMA SortingExists ==
    ASSUME NEW S, IsFiniteSet(S), NEW D, S \subseteq D, NEW v \in [D -> Int]
    PROVE  \E f \in Bijection(1..Cardinality(S), S) :
              \A i, j \in 1..Cardinality(S) : i < j => v[f[i]] <= v[f[j]]
<1> DEFINE n == Cardinality(S)
           Sorts(k, f) ==
              /\ f \in Injection(1..k, S)
              /\ \A i, j \in 1..k : i < j => v[f[i]] <= v[f[j]]
              /\ \A i \in 1..k : \A x \in S :
                    (\A j \in 1..k : f[j] # x) => v[f[i]] <= v[x]
           Reached == {k \in Nat : k <= n => \E f : Sorts(k, f)}
<1>1. n \in Nat
  BY FS_CardinalityType
<1>2. 0 \in Reached
  <2> DEFINE f == [i \in 1..0 |-> i]
  <2>1. Sorts(0, f)
    BY DEF Injection, IsInjective
  <2> QED BY <2>1
<1>3. ASSUME NEW k \in Nat, k \in Reached PROVE k + 1 \in Reached
  <2>1. SUFFICES ASSUME k + 1 <= n PROVE \E g : Sorts(k + 1, g)
    OBVIOUS
  <2>2. PICK f : Sorts(k, f)
    BY <1>1, <1>3, <2>1
  <2> DEFINE rest == {x \in S : \A j \in 1..k : f[j] # x}
  <2>3. rest # {}
    <3>1. SUFFICES ASSUME rest = {} PROVE FALSE
      OBVIOUS
    <3>2. f \in Surjection(1..k, S)
      BY <2>2, <3>1 DEF Injection, Surjection
    <3>3. n <= k
      <4>1. ExistsSurjection(1..k, S)
        BY <3>2 DEF ExistsSurjection
      <4> HIDE DEF n
      <4>2. Cardinality(S) <= k
        BY <4>1, FS_SurjCardinalityBound
      <4> QED BY <4>2 DEF n
    <3> QED BY <3>3, <2>1, <1>1
  <2>4. PICK x \in rest : \A y \in rest : v[x] <= v[y]
    <3>1. IsFiniteSet(rest) /\ rest \subseteq D
      BY FS_Subset
    <3> HIDE DEF rest
    <3> QED BY <2>3, <3>1, Least
  <2> DEFINE g == [i \in 1..(k + 1) |-> IF i <= k THEN f[i] ELSE x]
  <2>5. \A i \in 1..(k + 1) : i \in 1..k \/ i = k + 1
    OBVIOUS
  <2>6. /\ \A i \in 1..k : g[i] = f[i] /\ f[i] \in S /\ f[i] # x
        /\ g[k + 1] = x
    BY <2>2 DEF Injection
  <2>7. g \in Injection(1..(k + 1), S)
    <3>1. g \in [1..(k + 1) -> S]
      <4>1. \A i \in 1..(k + 1) : g[i] \in S
        <5> HIDE DEF g
        <5> QED BY <2>5, <2>6
      <4> QED BY <4>1
    <3>2. \A i, j \in 1..(k + 1) : g[i] = g[j] => i = j
      <4>1. \A i, j \in 1..k : f[i] = f[j] => i = j
        BY <2>2 DEF Injection, IsInjective
      <4> HIDE DEF g
      <4> QED BY <4>1, <2>5, <2>6
    <3> QED BY <3>1, <3>2 DEF Injection, IsInjective
  <2>8. \A i, j \in 1..(k + 1) : i < j => v[g[i]] <= v[g[j]]
    <3> SUFFICES ASSUME NEW i \in 1..(k + 1), NEW j \in 1..(k + 1), i < j
                 PROVE  v[g[i]] <= v[g[j]]
      OBVIOUS
    <3>1. i \in 1..k
      OBVIOUS
    <3>2. CASE j \in 1..k
      BY <2>2, <2>6, <3>1, <3>2
    <3>3. CASE j = k + 1
      BY <2>2, <2>6, <3>1, <3>3
    <3> QED BY <2>5, <3>2, <3>3
  <2>9. \A i \in 1..(k + 1) : \A y \in S :
           (\A j \in 1..(k + 1) : g[j] # y) => v[g[i]] <= v[y]
    <3> SUFFICES ASSUME NEW i \in 1..(k + 1), NEW y \in S,
                        \A j \in 1..(k + 1) : g[j] # y
                 PROVE  v[g[i]] <= v[y]
      OBVIOUS
    <3>1. y \in rest
      BY <2>6
    <3>2. CASE i \in 1..k
      BY <2>2, <2>6, <3>1, <3>2
    <3>3. CASE i = k + 1
      BY <2>4, <2>6, <3>1, <3>3
    <3> QED BY <2>5, <3>2, <3>3
  <2>10. Sorts(k + 1, g)
    BY <2>7, <2>8, <2>9
  <2> HIDE DEF Sorts
  <2> QED BY <2>10
<1>4. n \in Reached
  <2> HIDE DEF Reached
  <2>1. Nat \subseteq Reached
    BY <1>2, <1>3, Induction
  <2> QED BY <1>1, <2>1
<1>5. PICK f : Sorts(n, f)
  BY <1>1, <1>4
<1>6. f \in Surjection(1..n, S)
  <2>1. Cardinality(1..n) = n
    BY <1>1, FS_Interval
  <2>2. IsFiniteSet(1..n)
    BY <1>1, FS_Interval
  <2> QED BY <1>5, <2>1, <2>2, FS_Injection
<1> QED BY <1>5, <1>6 DEF Bijection

\* The market's rows, when there is one.
LEMMA RowsAre ==
    ASSUME row \in [Provider -> Row \cup {NoRow}], Healthy # {}
    PROVE  /\ IsFiniteSet(Healthy) /\ Cardinality(Healthy) \in Nat \ {0}
           /\ [p \in Provider |-> row[p].price] \in [Provider -> Int]
           /\ Healthy \subseteq Provider
<1>1. Healthy \in SUBSET Provider
  BY DEF Healthy
<1>2. IsFiniteSet(Healthy)
  BY <1>1, ConstantsAssumption, FS_Subset
<1>3. Cardinality(Healthy) \in Nat \ {0}
  BY <1>2, FS_CardinalityType, FS_EmptySet
<1>4. \A p \in Provider : row[p].price \in Int
  <2>1. \A r \in Row : r.price \in Price
    BY DEF Row
  <2>2. NoRow.price \in Int
    BY DEF NoRow
  <2>3. \A r \in Row \cup {NoRow} : r.price \in Int
    BY <2>1, <2>2, ConstantsAssumption
  <2> QED BY <2>3
<1> QED BY <1>1, <1>2, <1>3, <1>4

\* The prices are those of the healthy providers, each once, cheapest first.
LEMMA PricesAre ==
    ASSUME row \in [Provider -> Row \cup {NoRow}], Healthy # {}
    PROVE  \E f \in Bijection(1..Cardinality(Healthy), Healthy) :
              /\ Prices = [i \in 1..Cardinality(Healthy) |-> row[f[i]].price]
              /\ Prices \in [1..Cardinality(Healthy) -> Int]
              /\ \A i, j \in 1..Cardinality(Healthy) :
                    i <= j => Prices[i] <= Prices[j]
<1> DEFINE n == Cardinality(Healthy)
           v == [p \in Provider |-> row[p].price]
           f == CHOOSE g \in Bijection(1..n, Healthy) : Ascending(g)
<1>1. IsFiniteSet(Healthy) /\ n \in Nat /\ v \in [Provider -> Int]
      /\ Healthy \subseteq Provider
  BY RowsAre
<1>2. \E g \in Bijection(1..n, Healthy) : Ascending(g)
  <2>1. PICK g \in Bijection(1..n, Healthy) :
               \A i, j \in 1..n : i < j => v[g[i]] <= v[g[j]]
    <3> HIDE DEF v
    <3> QED BY <1>1, SortingExists
  <2>2. g \in [1..n -> Healthy]
    BY DEF Bijection, Injection
  <2>3. Ascending(g)
    BY <2>1, <2>2, <1>1 DEF Ascending
  <2> QED BY <2>3
<1>3. f \in Bijection(1..n, Healthy) /\ Ascending(f)
  BY <1>2
<1>4. Prices = [i \in DOMAIN f |-> row[f[i]].price]
  BY DEF Prices
<1> HIDE DEF f
<1>5. f \in [1..n -> Healthy]
  BY <1>3 DEF Bijection, Injection
<1>6. \A i \in 1..n : row[f[i]].price \in Int
  BY <1>1, <1>5
<1>7. \A i, j \in 1..n : i <= j => row[f[i]].price <= row[f[j]].price
  <2> SUFFICES ASSUME NEW i \in 1..n, NEW j \in 1..n, i <= j
               PROVE  row[f[i]].price <= row[f[j]].price
    OBVIOUS
  <2>1. CASE i = j
    BY <1>6, <2>1
  <2>2. CASE i < j
    BY <1>3, <1>5, <2>2 DEF Ascending
  <2> QED BY <2>1, <2>2
<1> QED BY <1>3, <1>4, <1>5, <1>6, <1>7

\* A sequence of n prices.
LEMMA LenPrices ==
    ASSUME NEW n \in Nat, NEW s \in [1..n -> Int]
    PROVE  Len(s) = n /\ DOMAIN s = 1..n
OBVIOUS

\* Half of a number, rounded down.
LEMMA Halves ==
    ASSUME NEW n \in Nat
    PROVE  /\ n \div 2 \in Nat
           /\ n % 2 = 0 => n = 2 * (n \div 2)
           /\ n % 2 # 0 => n = 2 * (n \div 2) + 1
OBVIOUS

\* The median lies between two positions of an ascending sequence, each half of
\* the sequence from an end.
LEMMA MedianBetween ==
    ASSUME NEW n \in Nat \ {0}, NEW s \in [1..n -> Int],
           \A i, j \in 1..n : i <= j => s[i] <= s[j]
    PROVE  /\ Median(s) \in Int
           /\ \E x \in Int : Median(s) = 50 * x
           /\ \E lo, hi \in 1..n :
                 /\ 2 * lo >= n /\ 2 * (n - hi + 1) >= n
                 /\ 100 * s[lo] <= Median(s) /\ Median(s) <= 100 * s[hi]
<1> DEFINE mid == n \div 2
<1>1. /\ mid \in Nat
      /\ n % 2 = 0 => n = 2 * mid
      /\ n % 2 # 0 => n = 2 * mid + 1
  BY Halves
<1>2. Len(s) = n
  BY LenPrices
<1>3. Median(s) = IF n % 2 = 0 THEN 50 * (s[mid] + s[mid + 1])
                               ELSE 100 * s[mid + 1]
  BY <1>2 DEF Median
<1> HIDE DEF mid
<1>4. CASE n % 2 = 0
  <2>1. mid \in 1..n /\ mid + 1 \in 1..n
    BY <1>1, <1>4
  <2>2. s[mid] \in Int /\ s[mid + 1] \in Int /\ s[mid] <= s[mid + 1]
    BY <2>1
  <2>3. Median(s) = 50 * (s[mid] + s[mid + 1])
    BY <1>3, <1>4
  <2>4. 2 * mid >= n /\ 2 * (n - (mid + 1) + 1) >= n
    BY <1>1, <1>4
  <2>5. 100 * s[mid] <= Median(s) /\ Median(s) <= 100 * s[mid + 1]
    BY <2>2, <2>3
  <2>6. s[mid] + s[mid + 1] \in Int /\ Median(s) \in Int
    BY <2>2, <2>3
  <2> QED BY <2>1, <2>3, <2>4, <2>5, <2>6
<1>5. CASE n % 2 # 0
  <2>1. mid + 1 \in 1..n
    BY <1>1, <1>5
  <2>2. s[mid + 1] \in Int
    BY <2>1
  <2>3. Median(s) = 100 * s[mid + 1]
    BY <1>3, <1>5
  <2>4. 2 * (mid + 1) >= n /\ 2 * (n - (mid + 1) + 1) >= n
    BY <1>1, <1>5
  <2>5. 100 * s[mid + 1] <= Median(s) /\ Median(s) <= 100 * s[mid + 1]
    BY <2>2, <2>3
  <2>6. /\ 2 * s[mid + 1] \in Int /\ Median(s) = 50 * (2 * s[mid + 1])
        /\ Median(s) \in Int
    BY <2>2, <2>3
  <2> QED BY <2>1, <2>4, <2>5, <2>6
<1> QED BY <1>4, <1>5

\* So many providers as positions from a to b.
LEMMA AtLeast ==
    ASSUME NEW S, IsFiniteSet(S), NEW n \in Nat, NEW f \in Bijection(1..n, S),
           NEW a \in 1..n, NEW b \in 1..n, NEW X, X \subseteq S,
           \A i \in a..b : f[i] \in X
    PROVE  Cardinality(X) \in Int /\ Cardinality(X) >= b - a + 1
<1> DEFINE g == [i \in a..b |-> f[i]]
<1>1. IsFiniteSet(X) /\ Cardinality(X) \in Nat
  BY FS_Subset, FS_CardinalityType
<1>2. g \in Injection(a..b, X)
  BY DEF Bijection, Injection, IsInjective
<1>3. Cardinality(a..b) <= Cardinality(X)
  <2> HIDE DEF g
  <2> QED BY <1>1, <1>2, FS_Injection
<1>4. Cardinality(a..b) = IF a > b THEN 0 ELSE b - a + 1
  BY FS_Interval
<1> QED BY <1>1, <1>3, <1>4

\* Every provider has a row of numbers or none.
RowsTyped == row \in [Provider -> Row \cup {NoRow}]

\* RowsTyped is an invariant.
LEMMA RowsHold == Spec => []RowsTyped
<1>1. Init => RowsTyped
  BY DEF Init, RowsTyped
<1>2. RowsTyped /\ [Next]_row => RowsTyped'
  BY DEF RowsTyped, Next, Change
<1> QED BY <1>1, <1>2, PTL DEF Spec

\* 80% of a median is not above it and 150% not below it, unless it is negative.
LEMMA Scaled ==
    ASSUME NEW m \in Int, NEW x \in Int, m = 50 * x
    PROVE  /\ (4 * m) \div 5 \in Int /\ ((4 * m) \div 5 <= m <=> m >= 0)
           /\ (3 * m) \div 2 \in Int /\ (m <= (3 * m) \div 2 <=> m >= 0)
<1>1. (4 * m) \div 5 = 40 * x
  OBVIOUS
<1>2. (3 * m) \div 2 = 75 * x
  OBVIOUS
<1> QED BY <1>1, <1>2

\* The median splits any market.
LEMMA SplitsNow == RowsTyped => MedianSplits
<1>1. SUFFICES ASSUME RowsTyped, Healthy # {} PROVE MedianSplits
  BY DEF MedianSplits
<1> DEFINE n == Cardinality(Healthy)
           m == Median(Prices)
           below == {p \in Healthy : 100 * row[p].price <= m}
           above == {p \in Healthy : 100 * row[p].price >= m}
<1>2. IsFiniteSet(Healthy) /\ n \in Nat \ {0}
  BY <1>1, RowsAre DEF RowsTyped
<1>3. PICK f \in Bijection(1..n, Healthy) :
         /\ Prices = [i \in 1..n |-> row[f[i]].price]
         /\ Prices \in [1..n -> Int]
         /\ \A i, j \in 1..n : i <= j => Prices[i] <= Prices[j]
  BY <1>1, PricesAre DEF RowsTyped
<1>4. f \in [1..n -> Healthy]
  BY <1>3 DEF Bijection, Injection
<1>5. \A i \in 1..n : Prices[i] = row[f[i]].price /\ Prices[i] \in Int
  BY <1>3
<1> HIDE DEF n, m
<1>6. /\ m \in Int
      /\ \E x \in Int : m = 50 * x
      /\ \E lo, hi \in 1..n :
            /\ 2 * lo >= n /\ 2 * (n - hi + 1) >= n
            /\ 100 * Prices[lo] <= m /\ m <= 100 * Prices[hi]
  BY <1>2, <1>3, MedianBetween DEF m
<1>7. PICK lo, hi \in 1..n :
            /\ 2 * lo >= n /\ 2 * (n - hi + 1) >= n
            /\ 100 * Prices[lo] <= m /\ m <= 100 * Prices[hi]
  BY <1>6
<1>8. 2 * Cardinality(below) >= n
  <2>1. \A i \in 1..lo : f[i] \in below
    <3> SUFFICES ASSUME NEW i \in 1..lo PROVE f[i] \in below
      OBVIOUS
    <3>1. i \in 1..n /\ i <= lo
      BY <1>2
    <3>2. Prices[i] <= Prices[lo]
      BY <3>1, <1>3
    <3>3. 100 * row[f[i]].price <= m
      BY <3>1, <3>2, <1>5, <1>6, <1>7
    <3> QED BY <3>1, <3>3, <1>4
  <2>2. Cardinality(below) \in Int /\ Cardinality(below) >= lo - 1 + 1
    <3>1. 1 \in 1..n /\ n \in Nat /\ below \subseteq Healthy
      BY <1>2
    <3> HIDE DEF below
    <3> QED BY <1>2, <2>1, <3>1, <1>3, AtLeast DEF n
  <2> HIDE DEF below
  <2> QED BY <2>2, <1>7, <1>2
<1>9. 2 * Cardinality(above) >= n
  <2>1. \A i \in hi..n : f[i] \in above
    <3> SUFFICES ASSUME NEW i \in hi..n PROVE f[i] \in above
      OBVIOUS
    <3>1. i \in 1..n /\ hi <= i
      BY <1>2
    <3>2. Prices[hi] <= Prices[i]
      BY <3>1, <1>3
    <3>3. 100 * row[f[i]].price >= m
      BY <3>1, <3>2, <1>5, <1>6, <1>7
    <3> QED BY <3>1, <3>3, <1>4
  <2>2. Cardinality(above) \in Int /\ Cardinality(above) >= n - hi + 1
    <3>1. n \in 1..n /\ n \in Nat /\ above \subseteq Healthy
      BY <1>2
    <3> HIDE DEF above
    <3> QED BY <1>2, <2>1, <3>1, <1>3, AtLeast DEF n
  <2> HIDE DEF above
  <2> QED BY <2>2, <1>7, <1>2
<1>10. 100 * Prices[1] <= m /\ Prices[1] \in Int
  <2>1. 1 \in 1..n /\ Prices[1] <= Prices[lo] /\ Prices[lo] \in Int
    BY <1>2, <1>3, <1>5
  <2> QED BY <2>1, <1>5, <1>6, <1>7
<1>11. /\ 100 * Lowest(Prices) <= Floor(Prices)
       /\ Floor(Prices) <= m <=> m >= 0
       /\ m <= Ceiling(Prices) <=> m >= 0
  <2>1. Floor(Prices) = Greater(100 * Prices[1], (4 * m) \div 5)
    BY DEF Floor, m
  <2>2. Ceiling(Prices) = (3 * m) \div 2
    BY DEF Ceiling, m
  <2>3. /\ (4 * m) \div 5 \in Int /\ ((4 * m) \div 5 <= m <=> m >= 0)
        /\ (3 * m) \div 2 \in Int /\ (m <= (3 * m) \div 2 <=> m >= 0)
    BY <1>6, Scaled
  <2> QED BY <2>1, <2>2, <2>3, <1>6, <1>10 DEF Greater, Lowest
<1> QED BY <1>8, <1>9, <1>11 DEF MedianSplits, n, m

\* PricingService's median is a median, whatever the prices and however many
\* tie: at least half of the healthy providers charge no more and at least half
\* no less.  The floor of 80% is never below the cheapest price, and it is not
\* above the median, nor the ceiling below it, exactly when the median is not
\* negative.
THEOREM MedianIsMedian == Spec => []MedianSplits
BY RowsHold, SplitsNow, PTL

\* The recommendation is on the median's side that the reputation is on.
LEMMA RoundsUp ==
    ASSUME NEW m \in Nat, NEW rep \in Int
    PROVE  /\ (m * (45 + rep)) \div 50 \in Int
           /\ rep >= 5 => (m * (45 + rep)) \div 50 >= m
           /\ rep <= 5 => (m * (45 + rep)) \div 50 <= m
<1> DEFINE x == m * rep
<1>1. x \in Int
  OBVIOUS
<1>2. m * (45 + rep) = 45 * m + x
  OBVIOUS
<1>3. rep >= 5 => x >= 5 * m
  OBVIOUS
<1>4. rep <= 5 => x <= 5 * m
  OBVIOUS
<1> HIDE DEF x
<1>5. /\ (45 * m + x) \div 50 \in Int
      /\ x >= 5 * m => (45 * m + x) \div 50 >= m
      /\ x <= 5 * m => (45 * m + x) \div 50 <= m
  BY <1>1
<1> QED BY <1>2, <1>3, <1>4, <1>5

\* The two verdicts agree in any market.
LEMMA AgreesNow == RowsTyped => RecommendationAgrees
<1>1. SUFFICES ASSUME RowsTyped, Healthy # {}, NEW p \in Provider
               PROVE  /\ row[p].rep >= 5
                         /\ 100 * row[p].price >= Recommended(row[p].rep)
                            => Position(row[p].price) # "below"
                      /\ row[p].rep <= 5
                         /\ 100 * row[p].price <= Recommended(row[p].rep)
                            => Position(row[p].price) # "above"
  BY DEF RecommendationAgrees
<1> DEFINE m == Median(Prices)
           price == row[p].price
           rep == row[p].rep
           off == 100 * (100 * price - m)
<1>2. m \in Int
  <2>1. Cardinality(Healthy) \in Nat \ {0}
    BY <1>1, RowsAre DEF RowsTyped
  <2>2. /\ Prices \in [1..Cardinality(Healthy) -> Int]
        /\ \A i, j \in 1..Cardinality(Healthy) : i <= j => Prices[i] <= Prices[j]
    BY <1>1, PricesAre DEF RowsTyped
  <2> QED BY <2>1, <2>2, MedianBetween
<1>3. price \in Int /\ rep \in Int
  <2>1. \A r \in Row : r.price \in Price /\ r.rep \in Reputation
    BY DEF Row
  <2>2. NoRow.price \in Int /\ NoRow.rep \in Int
    BY DEF NoRow
  <2>3. \A r \in Row \cup {NoRow} : r.price \in Int /\ r.rep \in Int
    BY <2>1, <2>2, ConstantsAssumption
  <2> QED BY <2>3, <1>1 DEF RowsTyped
<1>4. Recommended(rep) = (m * (45 + rep)) \div 50
  BY DEF Recommended
<1>5. Position(price) = CASE m > 0 /\ off < -5 * m -> "below"
                          [] m > 0 /\ off > 5 * m  -> "above"
                          [] OTHER                 -> "at"
  BY DEF Position
<1> HIDE DEF m, price, rep
<1>6. m > 0 /\ rep >= 5 /\ 100 * price >= Recommended(rep) => ~(off < -5 * m)
  BY <1>2, <1>3, <1>4, RoundsUp
<1>7. m > 0 /\ rep <= 5 /\ 100 * price <= Recommended(rep) => ~(off > 5 * m)
  BY <1>2, <1>3, <1>4, RoundsUp
<1> HIDE DEF off
<1>8. Position(price) = "below" => m > 0 /\ off < -5 * m
  BY <1>5
<1>9. Position(price) = "above" => m > 0 /\ off > 5 * m
  BY <1>5
<1> QED BY <1>6, <1>7, <1>8, <1>9 DEF price, rep

\* A provider that charges at least what PricingService recommends to a good
\* reputation is never told it is below the market, and dually.
THEOREM AdviceAgrees == Spec => []RecommendationAgrees
BY RowsHold, AgreesNow, PTL

\* A price at or above the lowest falls in one of the buckets: by induction on
\* their number.
LEMMA SomeBucket ==
    ASSUME NEW a \in Nat, NEW r \in Nat
    PROVE  \A m \in Nat : \E k \in 1..(m + 1) :
              a >= (k - 1) * r /\ (k = m + 1 \/ a < k * r)
<1> DEFINE Has(m) == \E k \in 1..(m + 1) :
                        a >= (k - 1) * r /\ (k = m + 1 \/ a < k * r)
           T == {m \in Nat : Has(m)}
<1>1. 0 \in T
  <2>1. 1 \in 1..(0 + 1) /\ a >= (1 - 1) * r
    OBVIOUS
  <2> QED BY <2>1
<1>2. ASSUME NEW m \in Nat, m \in T PROVE m + 1 \in T
  <2>1. PICK k \in 1..(m + 1) : a >= (k - 1) * r /\ (k = m + 1 \/ a < k * r)
    BY <1>2
  <2>2. CASE a < k * r
    <3>1. k \in 1..(m + 1 + 1)
      OBVIOUS
    <3> QED BY <2>1, <2>2, <3>1
  <2>3. CASE ~(a < k * r)
    <3>1. k = m + 1
      BY <2>1, <2>3
    <3>2. (k + 1) - 1 = k /\ k * r \in Int
      OBVIOUS
    <3>3. a >= ((k + 1) - 1) * r
      BY <2>3, <3>2
    <3>4. k + 1 \in 1..(m + 1 + 1) /\ k + 1 = m + 1 + 1
      BY <3>1
    <3> QED BY <3>3, <3>4
  <2> QED BY <2>2, <2>3
<1>3. Nat \subseteq T
  <2> HIDE DEF T
  <2> QED BY <1>1, <1>2, Induction
<1> QED BY <1>3

\* The end of a bucket is not beyond the start of a later one.
LEMMA Between ==
    ASSUME NEW k \in Nat, NEW l \in Nat, k < l, NEW r \in Nat
    PROVE  k * r \in Nat /\ (l - 1) * r \in Nat /\ k * r <= (l - 1) * r
<1>1. PICK d \in Nat : l - 1 = k + d
  <2>1. l - 1 - k \in Nat /\ l - 1 = k + (l - 1 - k)
    OBVIOUS
  <2> QED BY <2>1
<1>2. (k + d) * r = k * r + d * r /\ k * r \in Nat /\ d * r \in Nat
  OBVIOUS
<1> QED BY <1>1, <1>2

\* The positions, in an ascending sequence of n prices, of whom N buckets show.
ShownAt(N, n, s) ==
    {j \in 1..n : \/ s[1] = s[n]
                  \/ N >= 1 /\ (s[j] < s[n] \/ s[n] \notin Absorbed)}

\* They are as many as the providers shown.
LEMMA ShownPositions ==
    ASSUME RowsTyped, Healthy # {}, NEW N \in Int
    PROVE  Cardinality(Shown(N)) = Cardinality(ShownAt(N, Cardinality(Healthy), Prices))
<1> DEFINE n == Cardinality(Healthy)
           s == Prices
           A == ShownAt(N, n, s)
<1>1. n \in Nat \ {0}
  BY RowsAre DEF RowsTyped
<1>2. PICK f \in Bijection(1..n, Healthy) :
         /\ s = [i \in 1..n |-> row[f[i]].price]
         /\ s \in [1..n -> Int]
  BY PricesAre DEF RowsTyped
<1>3. /\ f \in [1..n -> Healthy] /\ \A p \in Healthy : \E i \in 1..n : f[i] = p
      /\ \A i, j \in 1..n : f[i] = f[j] => i = j
  BY <1>2 DEF Bijection, Injection, Surjection, IsInjective
<1>4. \A i \in 1..n : s[i] = row[f[i]].price
  BY <1>2
<1> HIDE DEF n, s
<1>5. Lowest(s) = s[1] /\ Highest(s) = s[n]
  BY <1>1, <1>2, LenPrices DEF Lowest, Highest
<1>6. Shown(N) = {p \in Healthy : \/ s[1] = s[n]
                                  \/ N >= 1 /\ (row[p].price < s[n] \/ s[n] \notin Absorbed)}
  BY <1>5 DEF Shown, s
<1>7. A \subseteq 1..n /\ \A i \in 1..n : f[i] \in Shown(N) <=> i \in A
  BY <1>3, <1>4, <1>6 DEF ShownAt
<1>8. \A p \in Shown(N) : p \in Healthy
  BY <1>6
<1>9. IsFiniteSet(A)
  BY <1>1, <1>7, FS_Interval, FS_Subset
<1> DEFINE g == [i \in A |-> f[i]]
<1> HIDE DEF A
<1>10. g \in Bijection(A, Shown(N))
  <2>1. g \in [A -> Shown(N)]
    BY <1>7
  <2>2. \A i, j \in A : g[i] = g[j] => i = j
    BY <1>3, <1>7
  <2>3. \A p \in Shown(N) : \E i \in A : g[i] = p
    BY <1>3, <1>7, <1>8
  <2> QED BY <2>1, <2>2, <2>3 DEF Bijection, Injection, Surjection, IsInjective
<1>11. ExistsBijection(A, Shown(N))
  BY <1>10 DEF ExistsBijection
<1>12. Cardinality(Shown(N)) = Cardinality(A)
  BY <1>9, <1>11, FS_Bijection
<1> QED BY <1>12 DEF A, n, s

\* The buckets partition the positions that are shown.
LEMMA CountedAt ==
    ASSUME NEW N \in Nat \ {0}, NEW n \in Nat \ {0}, NEW s \in [1..n -> Int],
           \A i, j \in 1..n : i <= j => s[i] <= s[j],
           s[1] # s[n]
    PROVE  SumFunction(Distribution(N, s)) = Cardinality(ShownAt(N, n, s))
<1> DEFINE r == s[n] - s[1]
           X == ShownAt(N, n, s)
<1>1. Len(s) = n /\ DOMAIN s = 1..n
  BY LenPrices
<1>2. s[1] \in Int /\ s[n] \in Int /\ r \in Nat
      /\ \A j \in 1..n : s[j] \in Int /\ s[j] - s[1] \in Nat /\ s[j] <= s[n]
  <2>1. 1 \in 1..n /\ n \in 1..n
    OBVIOUS
  <2>2. \A j \in 1..n : s[1] <= s[j] /\ s[j] <= s[n] /\ s[j] \in Int
    BY <2>1
  <2> QED BY <2>1, <2>2
<1>3. Highest(s) = s[n] /\ Lowest(s) = s[1]
  BY <1>1 DEF Highest, Lowest
<1>4. X = {j \in 1..n : s[j] < s[n] \/ s[n] \notin Absorbed}
  BY <1>2 DEF ShownAt
<1> HIDE DEF X
<1> DEFINE In(j, k) == InBucket(s[j], k - 1, N, s)
           b == [k \in 1..N |-> {j \in 1..n : In(j, k)}]
           c == [k \in 1..N |-> Cardinality({j \in DOMAIN s : In(j, k)})]
<1>5. \A j \in 1..n, k \in 1..N :
         In(j, k) <=> /\ N * (s[j] - s[1]) >= (k - 1) * r
                      /\ IF k = N THEN s[j] < s[n] \/ s[n] \notin Absorbed
                                  ELSE N * (s[j] - s[1]) < k * r
  <2> SUFFICES ASSUME NEW j \in 1..n, NEW k \in 1..N
               PROVE  In(j, k) <=>
                         /\ N * (s[j] - s[1]) >= (k - 1) * r
                         /\ IF k = N THEN s[j] < s[n] \/ s[n] \notin Absorbed
                                     ELSE N * (s[j] - s[1]) < k * r
    OBVIOUS
  <2>1. k - 1 = N - 1 <=> k = N
    OBVIOUS
  <2>2. k - 1 + 1 = k
    OBVIOUS
  <2> QED BY <1>3, <2>1, <2>2 DEF InBucket
<1>6. \A j \in X : \E k \in 1..N : In(j, k)
  <2> SUFFICES ASSUME NEW j \in X PROVE \E k \in 1..N : In(j, k)
    OBVIOUS
  <2> DEFINE a == N * (s[j] - s[1])
  <2>1. a \in Nat /\ j \in 1..n
    BY <1>2, <1>4
  <2> HIDE DEF a, r
  <2>2. N - 1 \in Nat /\ N - 1 + 1 = N
    OBVIOUS
  <2>3. PICK k \in 1..N : a >= (k - 1) * r /\ (k = N \/ a < k * r)
    <3>1. \E k \in 1..(N - 1 + 1) :
             a >= (k - 1) * r /\ (k = N - 1 + 1 \/ a < k * r)
      BY <1>2, <2>1, <2>2, SomeBucket
    <3> QED BY <3>1, <2>2
  <2>4. s[j] < s[n] \/ s[n] \notin Absorbed
    BY <1>4
  <2> HIDE DEF In
  <2> QED BY <1>5, <2>1, <2>3, <2>4 DEF a
<1>7. \A k \in 1..N, j \in 1..n : In(j, k) => j \in X
  <2> SUFFICES ASSUME NEW k \in 1..N, NEW j \in 1..n, In(j, k)
               PROVE  j \in X
    OBVIOUS
  <2>1. CASE k = N
    <3> HIDE DEF In
    <3> QED BY <2>1, <1>4, <1>5
  <2>2. CASE k # N
    <3>1. N * (s[j] - s[1]) < k * r
      <4> HIDE DEF In, r
      <4> QED BY <2>2, <1>5
    <3> HIDE DEF r, In
    <3>2. k * r \in Nat /\ (N - 1) * r \in Nat /\ k * r <= (N - 1) * r
      <4>1. k \in Nat /\ k < N
        BY <2>2
      <4> QED BY <4>1, <1>2, Between
    <3>3. (N - 1) * r = N * r - r /\ N * r \in Nat
      BY <1>2
    <3>4. N * (s[j] - s[1]) < N * r
      <4> DEFINE a == N * (s[j] - s[1])
                 x == k * r
                 y == (N - 1) * r
                 z == N * r
      <4>1. a \in Nat /\ a < x
        BY <1>2, <3>1
      <4>2. x \in Nat /\ y \in Nat /\ z \in Nat /\ r \in Nat
            /\ x <= y /\ y = z - r
        BY <1>2, <3>2, <3>3
      <4> HIDE DEF a, x, y, z
      <4>3. a < z
        BY <4>1, <4>2
      <4> QED BY <4>3 DEF a, z
    <3>5. s[j] - s[1] # r
      BY <3>4, <3>3
    <3>6. s[j] # s[n]
      BY <3>5 DEF r
    <3> QED BY <3>6, <1>2, <1>4
  <2> QED BY <2>1, <2>2
<1>8. \A k, l \in 1..N : k # l => b[k] \cap b[l] = {}
  <2>1. \A k, l \in 1..N : \A j \in 1..n : k < l => ~(In(j, k) /\ In(j, l))
    <3> SUFFICES ASSUME NEW k \in 1..N, NEW l \in 1..N, NEW j \in 1..n, k < l
                 PROVE  ~(In(j, k) /\ In(j, l))
      OBVIOUS
    <3> DEFINE a == N * (s[j] - s[1])
    <3>1. a \in Nat
      BY <1>2
    <3> HIDE DEF a, r
    <3>2. k # N
      OBVIOUS
    <3>3. k * r \in Nat /\ (l - 1) * r \in Nat /\ k * r <= (l - 1) * r
      <4>1. k \in Nat /\ l \in Nat
        OBVIOUS
      <4> QED BY <4>1, <1>2, Between
    <3>4. In(j, k) => a < k * r
      BY <1>5, <3>2 DEF a
    <3>5. In(j, l) => a >= (l - 1) * r
      BY <1>5 DEF a
    <3> HIDE DEF In
    <3> QED BY <3>1, <3>3, <3>4, <3>5
  <2> HIDE DEF In
  <2>2. \A k, l \in 1..N : k # l => k < l \/ l < k
    OBVIOUS
  <2>3. \A k \in 1..N : b[k] = {j \in 1..n : In(j, k)}
    OBVIOUS
  <2> HIDE DEF b
  <2> QED BY <2>1, <2>2, <2>3
<1> HIDE DEF In
<1>9. b \in [1..N -> SUBSET X]
  BY <1>7
<1>10. \A j \in X : \E k \in 1..N : j \in b[k]
  <2> SUFFICES ASSUME NEW j \in X PROVE \E k \in 1..N : j \in b[k]
    OBVIOUS
  <2>1. PICK k \in 1..N : In(j, k)
    BY <1>6
  <2>2. j \in 1..n
    BY <1>4
  <2> QED BY <2>1, <2>2
<1>11. IsFiniteSet(X) /\ IsFiniteSet(1..N)
  <2>1. IsFiniteSet(1..n) /\ IsFiniteSet(1..N) /\ X \subseteq 1..n
    BY <1>4, FS_Interval
  <2> HIDE DEF b, c, r
  <2> QED BY <2>1, FS_Subset
<1>12. \A k \in 1..N : Cardinality(b[k]) \in Int
  <2> HIDE DEF b
  <2>1. \A k \in 1..N : IsFiniteSet(b[k])
    BY <1>9, <1>11, FS_Subset
  <2> QED BY <2>1, FS_CardinalityType
<1>13. Distribution(N, s) = c
  BY <1>3 DEF Distribution, In
<1>14. c = [k \in 1..N |-> Cardinality(b[k])]
  BY <1>1
<1> HIDE DEF b, c
<1>15. SumFunctionOnSet(c, 1..N) = Cardinality(X)
  <2> DEFINE K == 1..N
  <2>1. /\ IsFiniteSet(K) /\ IsFiniteSet(X)
        /\ b \in [K -> SUBSET X] /\ c = [k \in K |-> Cardinality(b[k])]
        /\ \A k \in K : Cardinality(b[k]) \in Int
        /\ \A k, l \in K : k # l => b[k] \cap b[l] = {}
        /\ \A j \in X : \E k \in K : j \in b[k]
    BY <1>8, <1>9, <1>10, <1>11, <1>12, <1>14
  <2> HIDE DEF K
  <2> QED BY <2>1, SumOfParts DEF K
<1>16. SumFunction(c) = Cardinality(X)
  BY <1>14, <1>15 DEF SumFunction
<1> QED BY <1>13, <1>16 DEF X

\* The histogram of any market counts whom it shows.
LEMMA CountsNow == RowsTyped => HistogramCountsAll
<1>1. SUFFICES ASSUME RowsTyped, Healthy # {}, NEW N \in Buckets
               PROVE  SumFunction(Distribution(N, Prices)) = Cardinality(Shown(N))
  BY DEF HistogramCountsAll
<1> DEFINE n == Cardinality(Healthy)
           s == Prices
           A == ShownAt(N, n, s)
<1>2. n \in Nat \ {0} /\ N \in Int
  BY <1>1, RowsAre, ConstantsAssumption DEF RowsTyped
<1>3. /\ s \in [1..n -> Int]
      /\ \A i, j \in 1..n : i <= j => s[i] <= s[j]
  BY <1>1, PricesAre DEF RowsTyped
<1>4. Cardinality(Shown(N)) = Cardinality(A)
  BY <1>1, <1>2, ShownPositions
<1> HIDE DEF n, s
<1>5. Len(s) = n
  BY <1>2, <1>3, LenPrices
<1>6. Highest(s) = s[n] /\ Lowest(s) = s[1]
  BY <1>5 DEF Highest, Lowest
<1>7. CASE s[n] = s[1]
  <2> DEFINE c == <<n>>
  <2>1. Distribution(N, s) = c
    BY <1>5, <1>6, <1>7 DEF Distribution
  <2>2. c \in [{1} -> Int] /\ DOMAIN c = {1} /\ c[1] = n
    BY <1>2
  <2>3. IsFiniteSet({1}) /\ {1} \ {1} = {} /\ 1 \in {1}
    BY FS_Singleton
  <2> HIDE DEF c
  <2>4. SumFunctionOnSet(c, {1}) = c[1] + SumFunctionOnSet(c, {1} \ {1})
    BY <2>2, <2>3, SumWithout
  <2>5. SumFunctionOnSet(c, {}) = 0
    BY <2>2, <2>3, SumPicked
  <2>6. SumFunction(c) = n
    BY <2>2, <2>3, <2>4, <2>5, <1>2 DEF SumFunction
  <2>7. A = 1..n /\ Cardinality(1..n) = n
    BY <1>2, <1>7, FS_Interval DEF ShownAt
  <2> QED BY <2>1, <2>6, <2>7, <1>4 DEF s
<1>8. CASE s[n] # s[1] /\ N < 1
  <2> DEFINE c == Distribution(N, s)
  <2>1. c \in [{} -> Int] /\ DOMAIN c = {}
    BY <1>2, <1>6, <1>8 DEF Distribution
  <2>2. IsFiniteSet({}) /\ Cardinality({}) = 0
    BY FS_EmptySet
  <2> HIDE DEF c
  <2>3. SumFunctionOnSet(c, {}) = 0
    BY <2>1, <2>2, SumPicked
  <2>4. SumFunction(c) = 0
    BY <2>1, <2>3 DEF SumFunction
  <2>5. A = {}
    BY <1>2, <1>8 DEF ShownAt
  <2> QED BY <2>2, <2>4, <2>5, <1>4 DEF s, c
<1>9. CASE s[n] # s[1] /\ ~(N < 1)
  <2>1. N \in Nat \ {0}
    BY <1>2, <1>9
  <2> QED BY <2>1, <1>2, <1>3, <1>4, <1>9, CountedAt DEF s
<1> QED BY <1>7, <1>8, <1>9

\* The histogram counts whom it shows in exactly one bucket and nobody else, for
\* any prices and any number of buckets that is asked for: everybody, but for
\* the dearest where the last bucket cannot end above them, or nobody where no
\* bucket is asked for.
THEOREM EverybodyIsCounted == Spec => []HistogramCountsAll
BY RowsHold, CountsNow, PTL

-----------------------------------------------------------------------------
(* The events of a provider                                                *)

\* The instance's sum is this module's.
LEMMA OneSum ==
    ASSUME NEW f, NEW S
    PROVE  Scores!SumFunctionOnSet(f, S) = SumFunctionOnSet(f, S)
BY DEF SumFunctionOnSet, FoldFunctionOnSet, MapThenFoldSet,
       Scores!SumFunctionOnSet, Scores!FoldFunctionOnSet, Scores!MapThenFoldSet

\* The bags of events.
Counts == [Event -> Nat]

\* How many events of a kind there are.
LEMMA NumberIs ==
    ASSUME NEW c \in Counts, NEW S \in SUBSET Event
    PROVE  /\ IsFiniteSet(S) /\ c \in [Event -> Int]
           /\ Scores!Number(c, S) = SumFunctionOnSet(c, S)
           /\ Scores!Number(c, S) \in Nat
<1>1. IsFiniteSet(S)
  BY EventsAssumption, FS_Subset
<1>2. c \in [Event -> Int] /\ \A e \in S : c[e] >= 0
  BY DEF Counts
<1>3. Scores!Number(c, S) = SumFunctionOnSet(c, S)
  BY OneSum DEF Scores!Number
<1>4. SumFunctionOnSet(c, S) \in Nat
  BY <1>1, <1>2, SumAtLeast0
<1> QED BY <1>1, <1>2, <1>3, <1>4

\* The bag with one more event.
LEMMA WithIs ==
    ASSUME NEW c \in Counts, NEW e \in Event
    PROVE  /\ Scores!With(c, e) \in Counts
           /\ Scores!With(c, e)[e] = c[e] + 1
           /\ \A x \in Event \ {e} : Scores!With(c, e)[x] = c[x]
BY DEF Scores!With, Counts

\* One more event counts one more where it belongs.
LEMMA NumberWith ==
    ASSUME NEW c \in Counts, NEW e \in Event, NEW S \in SUBSET Event
    PROVE  Scores!Number(Scores!With(c, e), S) =
              IF e \in S THEN Scores!Number(c, S) + 1 ELSE Scores!Number(c, S)
<1> DEFINE h == Scores!With(c, e)
<1>1. /\ h \in Counts /\ h[e] = c[e] + 1
      /\ \A x \in Event \ {e} : h[x] = c[x]
  BY WithIs
<1> HIDE DEF h
<1>2. /\ Scores!Number(h, S) = SumFunctionOnSet(h, S) /\ h \in [Event -> Int]
      /\ Scores!Number(c, S) = SumFunctionOnSet(c, S) /\ c \in [Event -> Int]
      /\ IsFiniteSet(S)
  BY <1>1, NumberIs
<1>3. CASE e \in S
  <2>1. \A y \in S \ {e} : c[y] = h[y]
    BY <1>1
  <2>2. SumFunctionOnSet(h, S) = SumFunctionOnSet(c, S) + 1
    BY <1>1, <1>2, <1>3, <2>1, SumChanged
  <2> QED BY <1>2, <1>3, <2>2 DEF h
<1>4. CASE e \notin S
  <2>1. \A y \in S : c[y] = h[y]
    BY <1>1, <1>4
  <2>2. SumFunctionOnSet(c, S) = SumFunctionOnSet(h, S)
    BY <1>2, <2>1, SumSame
  <2> QED BY <1>2, <1>4, <2>2 DEF h
<1> QED BY <1>3, <1>4

\* The total of the values of a kind of event.
LEMMA TotalIs ==
    ASSUME NEW c \in Counts, NEW S \in SUBSET Event,
           \A e \in S : e.value \in Int
    PROVE  /\ [x \in S |-> c[x] * x.value] \in [S -> Int]
           /\ Scores!Sum(c, S) = SumFunctionOnSet([x \in S |-> c[x] * x.value], S)
           /\ Scores!Sum(c, S) \in Int
           /\ Scores!Number(c, S) = 0 => Scores!Sum(c, S) = 0
           /\ (\A e \in S : e.value >= 0) => Scores!Sum(c, S) \in Nat
<1> DEFINE f == [x \in S |-> c[x] * x.value]
<1>1. \A x \in S : c[x] \in Nat /\ c[x] * x.value \in Int
  BY DEF Counts
<1>2. f \in [S -> Int] /\ \A x \in S : f[x] = c[x] * x.value
  BY <1>1
<1>3. Scores!Sum(c, S) = SumFunctionOnSet(f, S)
  BY OneSum DEF Scores!Sum
<1>4. /\ Scores!Number(c, S) = SumFunctionOnSet(c, S) /\ c \in [Event -> Int]
      /\ IsFiniteSet(S) /\ S \in SUBSET S
  BY NumberIs
<1> HIDE DEF f
<1>5. SumFunctionOnSet(f, S) \in Int
  BY <1>2, <1>4, SumPicked
<1>6. ASSUME Scores!Number(c, S) = 0 PROVE SumFunctionOnSet(f, S) = 0
  <2>1. \A x \in S : f[x] = 0
    <3> SUFFICES ASSUME NEW x \in S PROVE f[x] = 0
      OBVIOUS
    <3>1. SumFunctionOnSet(c, S) = c[x] + SumFunctionOnSet(c, S \ {x})
      BY <1>4, SumWithout
    <3>2. SumFunctionOnSet(c, S \ {x}) \in Nat
      <4>1. S \ {x} \in SUBSET Event
        OBVIOUS
      <4> QED BY <4>1, NumberIs
    <3>3. c[x] \in Nat /\ x.value \in Int
      BY <1>1
    <3>4. SumFunctionOnSet(c, S) = 0
      BY <1>4, <1>6
    <3>5. c[x] = 0
      BY ONLY <3>1, <3>2, <3>3, <3>4
    <3>6. 0 * x.value = 0
      BY <3>3
    <3> QED BY <1>2, <3>5, <3>6
  <2> QED BY <1>2, <1>4, <2>1, SumOfZeros
<1>7. ASSUME \A e \in S : e.value >= 0 PROVE SumFunctionOnSet(f, S) \in Nat
  <2>1. \A x \in S : f[x] >= 0
    <3> SUFFICES ASSUME NEW x \in S PROVE f[x] >= 0
      OBVIOUS
    <3>1. c[x] \in Nat /\ x.value \in Nat
      BY <1>1, <1>7
    <3>2. c[x] * x.value \in Nat
      BY <3>1
    <3> QED BY <1>2, <3>2
  <2> QED BY <1>2, <1>4, <2>1, SumAtLeast0
<1> QED BY <1>2, <1>3, <1>5, <1>6, <1>7 DEF f

\* One more event adds its value where it belongs.
LEMMA TotalWith ==
    ASSUME NEW c \in Counts, NEW e \in Event, NEW S \in SUBSET Event,
           \A x \in S : x.value \in Int
    PROVE  Scores!Sum(Scores!With(c, e), S) =
              IF e \in S THEN Scores!Sum(c, S) + e.value ELSE Scores!Sum(c, S)
<1> DEFINE b == Scores!With(c, e)
           f == [x \in S |-> c[x] * x.value]
           h == [x \in S |-> b[x] * x.value]
<1>1. /\ b \in Counts /\ b[e] = c[e] + 1
      /\ \A x \in Event \ {e} : b[x] = c[x]
  BY WithIs
<1> HIDE DEF b
<1>2. /\ f \in [S -> Int] /\ Scores!Sum(c, S) = SumFunctionOnSet(f, S)
      /\ h \in [S -> Int] /\ Scores!Sum(b, S) = SumFunctionOnSet(h, S)
  BY <1>1, TotalIs
<1>3. IsFiniteSet(S) /\ S \in SUBSET S
  BY NumberIs
<1>4. \A x \in S : f[x] = c[x] * x.value /\ h[x] = b[x] * x.value
  OBVIOUS
<1> HIDE DEF f, h
<1>5. \A x \in S : x # e => f[x] = h[x]
  BY <1>1, <1>4
<1>6. CASE e \in S
  <2>1. c[e] \in Nat /\ e.value \in Int
    BY <1>6 DEF Counts
  <2>2. (c[e] + 1) * e.value = c[e] * e.value + e.value
    BY <2>1
  <2>3. h[e] = f[e] + e.value
    BY <1>1, <1>4, <1>6, <2>2
  <2>4. SumFunctionOnSet(h, S) = SumFunctionOnSet(f, S) + e.value
    BY <1>2, <1>3, <1>5, <1>6, <2>1, <2>3, SumChanged
  <2> QED BY <1>2, <1>6, <2>4 DEF b
<1>7. CASE e \notin S
  <2>1. \A y \in S : f[y] = h[y]
    BY <1>5, <1>7
  <2>2. SumFunctionOnSet(f, S) = SumFunctionOnSet(h, S)
    BY <1>2, <1>3, <2>1, SumSame
  <2> QED BY <1>2, <1>7, <2>2 DEF b
<1> QED BY <1>6, <1>7

-----------------------------------------------------------------------------
\* What the solver knows of a quotient.
LEMMA Quotient ==
    ASSUME NEW a \in Int, NEW n \in Nat \ {0}
    PROVE  /\ a \div n \in Int
           /\ (a \div n) * n <= a /\ a < (a \div n) * n + n
OBVIOUS

\* Fractions keep their order when they are rounded down.
LEMMA Fractions ==
    ASSUME NEW a \in Int, NEW b \in Int, NEW n \in Nat \ {0}, NEW m \in Nat \ {0},
           a * m <= b * n
    PROVE  a \div n <= b \div m
<1> DEFINE q == a \div n
           p == b \div m
<1>1. /\ q \in Int /\ p \in Int
      /\ q * n <= a /\ b < p * m + m
  BY Quotient
<1> HIDE DEF q, p
<1>2. SUFFICES ASSUME p + 1 <= q PROVE FALSE
  BY <1>1 DEF p, q
<1>3. (q * n) * m <= a * m
  BY <1>1
<1>4. b * n < (p * m + m) * n
  BY <1>1
<1>5. PICK d \in Nat : q = p + 1 + d
  <2>1. q - (p + 1) \in Nat /\ q = p + 1 + (q - (p + 1))
    BY <1>1, <1>2
  <2> QED BY <2>1
<1>6. (q * n) * m = (p * m + m) * n + (d * n) * m
  BY <1>1, <1>5
<1>7. (d * n) * m \in Nat
  OBVIOUS
<1>8. (p * m + m) * n \in Int /\ (q * n) * m \in Int /\ a * m \in Int /\ b * n \in Int
  BY <1>1
<1> QED BY <1>3, <1>4, <1>6, <1>7, <1>8

\* A fraction that is whole.
LEMMA WholeFraction ==
    ASSUME NEW u \in Int, NEW n \in Nat \ {0}
    PROVE  (u * n) \div n = u
<1> DEFINE q == (u * n) \div n
<1>1. q \in Int /\ q * n <= u * n /\ u * n < q * n + n
  <2>1. u * n \in Int
    OBVIOUS
  <2> QED BY <2>1, Quotient
<1> HIDE DEF q
<1>2. ~(q > u)
  <2> SUFFICES ASSUME q > u PROVE FALSE
    OBVIOUS
  <2>1. PICK d \in Nat : q = u + 1 + d
    <3>1. q - (u + 1) \in Nat /\ q = u + 1 + (q - (u + 1))
      BY <1>1
    <3> QED BY <3>1
  <2>2. q * n = u * n + n + d * n /\ d * n \in Nat /\ u * n \in Int
    BY <2>1
  <2> QED BY <1>1, <2>2
<1>3. ~(q < u)
  <2> SUFFICES ASSUME q < u PROVE FALSE
    OBVIOUS
  <2>1. PICK d \in Nat : u = q + 1 + d
    <3>1. u - (q + 1) \in Nat /\ u = q + 1 + (u - (q + 1))
      BY <1>1
    <3> QED BY <3>1
  <2>2. u * n = q * n + n + d * n /\ d * n \in Nat /\ q * n \in Int
    BY <1>1, <2>1
  <2> QED BY <1>1, <2>2
<1> QED BY <1>1, <1>2, <1>3 DEF q

\* An average over n + 1 of what was an average over n, when what is added is
\* worth at least d: it does not fall, or it is at the top of the scale.
LEMMA Rise ==
    ASSUME NEW A \in Int, NEW n \in Nat, NEW d \in Nat \ {0}, NEW a \in Int,
           a >= d, n = 0 => A = 0
    PROVE  /\ (10000 * (A + a)) \div (d * (n + 1)) \in Int
           /\ n = 0 => (10000 * (A + a)) \div (d * (n + 1)) >= 10000
           /\ n # 0 => /\ (10000 * A) \div (d * n) \in Int
                       /\ \/ (10000 * (A + a)) \div (d * (n + 1)) >= 10000
                          \/ (10000 * A) \div (d * n)
                                <= (10000 * (A + a)) \div (d * (n + 1))
<1> DEFINE x == 10000 * (A + a)
           w == d * (n + 1)
           before == (10000 * A) \div (d * n)
           after == x \div w
<1>1. x \in Int /\ w \in Nat \ {0} /\ d * n \in Nat
  <2>1. d * (n + 1) = d * n + d /\ d * n \in Nat
    OBVIOUS
  <2> QED BY <2>1
<1>2. after \in Int
  <2> HIDE DEF x, w
  <2> QED BY <1>1, Quotient
<1>3. ASSUME A + a >= w PROVE after >= 10000
  <2>1. 10000 * w <= x
    BY <1>1, <1>3
  <2> HIDE DEF x, w
  <2>2. (10000 * w) * w <= x * w
    <3>1. PICK r \in Nat : x = 10000 * w + r
      <4>1. x - 10000 * w \in Nat /\ x = 10000 * w + (x - 10000 * w)
        BY <1>1, <2>1
      <4> QED BY <4>1
    <3>2. x * w = (10000 * w) * w + r * w /\ r * w \in Nat /\ (10000 * w) * w \in Int
      BY <1>1, <3>1
    <3> QED BY <3>2
  <2>3. (10000 * w) \div w <= x \div w
    BY <1>1, <2>2, Fractions
  <2>4. (10000 * w) \div w = 10000
    BY <1>1, WholeFraction
  <2> QED BY <1>2, <2>3, <2>4
<1>4. CASE n = 0
  <2>1. A + a >= w
    BY <1>4
  <2> QED BY <1>2, <1>3, <1>4, <2>1
<1>5. CASE n # 0
  <2>1. d * n \in Nat \ {0}
    <3>1. PICK k \in Nat : n = k + 1
      <4>1. n - 1 \in Nat /\ n = (n - 1) + 1
        BY <1>5
      <4> QED BY <4>1
    <3>2. d * n = d * k + d /\ d * k \in Nat
      BY <3>1
    <3> QED BY <3>2
  <2>2. before \in Int
    <3>1. 10000 * A \in Int
      OBVIOUS
    <3> QED BY <2>1, <3>1, Quotient
  <2>3. CASE A + a >= w
    BY <1>2, <1>3, <1>5, <2>2, <2>3
  <2>4. CASE ~(A + a >= w)
    <3>1. w = d * n + d
      OBVIOUS
    <3> DEFINE y == d * n
    <3>2. A <= y /\ y \in Nat
      BY <1>1, <2>4, <3>1
    <3>3. A * d <= y * d
      <4>1. PICK r \in Nat : y = A + r
        <5>1. y - A \in Nat /\ y = A + (y - A)
          BY <3>2
        <5> QED BY <5>1
      <4> HIDE DEF y
      <4>2. y * d = A * d + r * d /\ r * d \in Nat /\ A * d \in Int
        BY <4>1
      <4> QED BY <4>2
    <3>4. a * y >= d * y
      <4>1. PICK r \in Nat : a = d + r
        <5>1. a - d \in Nat /\ a = d + (a - d)
          OBVIOUS
        <5> QED BY <5>1
      <4> HIDE DEF y
      <4>2. a * y = d * y + r * y /\ r * y \in Nat /\ d * y \in Int
        BY <3>2, <4>1
      <4> QED BY <4>2
    <3>5. A * w <= (A + a) * y
      <4> HIDE DEF y, w
      <4>1. w = y + d
        BY <3>1 DEF y
      <4>2. A * w = A * y + A * d /\ (A + a) * y = A * y + a * y
        BY <3>2, <4>1
      <4>3. A * y \in Int /\ A * d \in Int /\ a * y \in Int /\ y * d = d * y
            /\ d * y \in Int
        BY <3>2
      <4> QED BY <3>3, <3>4, <4>2, <4>3
    <3>6. (10000 * A) * w <= x * y
      <4> HIDE DEF y, w
      <4>1. (10000 * A) * w = 10000 * (A * w) /\ x * y = 10000 * ((A + a) * y)
            /\ A * w \in Int /\ (A + a) * y \in Int
        BY <1>1, <3>2
      <4> QED BY <3>5, <4>1
    <3>7. before <= after
      <4>1. 10000 * A \in Int /\ y \in Nat \ {0}
        BY <2>1
      <4> HIDE DEF x, w, y
      <4>2. (10000 * A) \div y <= x \div w
        BY <1>1, <3>6, <4>1, Fractions
      <4> QED BY <4>2 DEF y
    <3> QED BY <1>2, <1>5, <2>2, <3>7
  <2> QED BY <2>3, <2>4
<1> QED BY <1>4, <1>5

\* An average with one more event that is worth nothing does not rise.
LEMMA Fall ==
    ASSUME NEW x \in Nat, NEW n \in Nat \ {0}
    PROVE  /\ x \div (n + 1) \in Int /\ x \div n \in Int
           /\ x \div (n + 1) <= x \div n
<1>1. x * n <= x * (n + 1)
  <2>1. x * (n + 1) = x * n + x /\ x * n \in Int
    OBVIOUS
  <2> QED BY <2>1
<1>2. x \div (n + 1) <= x \div n
  BY <1>1, Fractions
<1>3. x \div (n + 1) \in Int /\ x \div n \in Int
  BY Quotient
<1> QED BY <1>2, <1>3

-----------------------------------------------------------------------------
\* Math.min(1, q).
Capped(q) == IF 10000 < q THEN 10000 ELSE q

\* A quotient of what is not negative is not.
LEMMA DivNat ==
    ASSUME NEW a \in Nat, NEW n \in Nat \ {0}
    PROVE  a \div n \in Nat
<1>1. 0 * n <= a * 1
  OBVIOUS
<1>2. 0 \div 1 <= a \div n
  <2>1. 0 \in Int /\ a \in Int /\ 1 \in Nat \ {0}
    OBVIOUS
  <2> QED BY <1>1, <2>1, Fractions
<1>3. 0 \div 1 = 0 /\ a \div n \in Int
  BY Quotient
<1> QED BY ONLY <1>2, <1>3

\* The good events of a share, and all that enter it.
Goods(c, good) == Scores!Number(c, Scores!OfType({good}))
Both(c, good, bad) == Scores!Number(c, Scores!OfType({good, bad}))

\* A share before it is cut off.
Portion(c, good, bad) == (Goods(c, good) * 10000) \div Both(c, good, bad)

\* A share is between 0 and 1; with no event it is neutral.
LEMMA ShareIs ==
    ASSUME NEW c \in Counts, NEW good, NEW bad
    PROVE  /\ Goods(c, good) \in Nat /\ Both(c, good, bad) \in Nat
           /\ Goods(c, good) <= Both(c, good, bad)
           /\ Both(c, good, bad) = 0 => Scores!Share(c, good, bad) = 5000
           /\ Both(c, good, bad) # 0 =>
                 Scores!Share(c, good, bad) = Capped(Portion(c, good, bad))
           /\ Scores!Share(c, good, bad) \in 0..10000
<1> DEFINE G == Scores!OfType({good})
           N == Scores!OfType({good, bad})
           g == Goods(c, good)
           n == Both(c, good, bad)
<1>1. G \in SUBSET N /\ N \in SUBSET Event /\ G \in SUBSET Event
  BY DEF Scores!OfType
<1>2. g \in Nat /\ n \in Nat /\ g <= n
  <2> HIDE DEF G, N
  <2>1. /\ g \in Nat /\ n \in Nat /\ IsFiniteSet(N) /\ c \in [Event -> Int]
        /\ g = SumFunctionOnSet(c, G) /\ n = SumFunctionOnSet(c, N)
    BY <1>1, NumberIs DEF G, N, Goods, Both
  <2>2. \A x \in N : c[x] >= 0
    BY <1>1 DEF Counts
  <2>3. SumFunctionOnSet(c, G) <= SumFunctionOnSet(c, N)
    BY <1>1, <2>1, <2>2, SumOfPart
  <2> QED BY <2>1, <2>3
<1>3. /\ n = 0 => Scores!Share(c, good, bad) = 5000
      /\ n # 0 => Scores!Share(c, good, bad) = Capped((g * 10000) \div n)
  <2>1. Scores!Unit = 10000 /\ Scores!Neutral = 5000
    BY DEF Scores!Unit, Scores!Neutral
  <2>2. Scores!Share(c, good, bad) =
         IF n = 0 THEN Scores!Neutral
                  ELSE Scores!Lesser(Scores!Unit, (g * Scores!Unit) \div n)
    BY DEF Scores!Share, Goods, Both
  <2> HIDE DEF g, n
  <2> QED BY <2>1, <2>2 DEF Scores!Lesser, Capped
<1> HIDE DEF g, n
<1>4. n # 0 => (g * 10000) \div n \in Nat
  <2> DEFINE x == g * 10000
  <2>1. x \in Nat
    BY ONLY <1>2
  <2> HIDE DEF x
  <2>2. n # 0 => x \div n \in Nat
    BY ONLY <1>2, <2>1, DivNat
  <2> QED BY <2>2 DEF x
<1>5. Scores!Share(c, good, bad) \in 0..10000
  <2> DEFINE q == (g * 10000) \div n
  <2> HIDE DEF q
  <2>1. q \in Nat => Capped(q) \in 0..10000
    BY DEF Capped
  <2>2. n # 0 => q \in Nat /\ Scores!Share(c, good, bad) = Capped(q)
    BY <1>3, <1>4 DEF q
  <2> QED BY ONLY <1>2, <1>3, <2>1, <2>2
<1> QED BY <1>2, <1>3, <1>5 DEF g, n, Portion

\* A good event does not lower a share, a bad one does not raise it, any other
\* leaves it alone.  The first event ends the neutral score: it gives 1 or 0.
LEMMA ShareWith ==
    ASSUME NEW c \in Counts, NEW e \in Event, NEW good, NEW bad, good # bad
    PROVE  /\ Scores!Share(c, good, bad) \in 0..10000
           /\ Scores!Share(Scores!With(c, e), good, bad) \in 0..10000
           /\ e.type = good => Scores!Share(c, good, bad)
                                <= Scores!Share(Scores!With(c, e), good, bad)
           /\ e.type = bad => Scores!Share(Scores!With(c, e), good, bad)
                                <= Scores!Share(c, good, bad)
           /\ e.type # good /\ e.type # bad =>
                 Scores!Share(Scores!With(c, e), good, bad)
                    = Scores!Share(c, good, bad)
<1> DEFINE before == Scores!Share(c, good, bad)
           after == Scores!Share(Scores!With(c, e), good, bad)
           G == Scores!OfType({good})
           N == Scores!OfType({good, bad})
           c1 == Scores!With(c, e)
           g == Goods(c, good)
           n == Both(c, good, bad)
           g1 == Goods(c1, good)
           n1 == Both(c1, good, bad)
<1>1. /\ e \in G <=> e.type = good
      /\ e \in N <=> e.type \in {good, bad}
      /\ G \in SUBSET Event /\ N \in SUBSET Event
  BY DEF Scores!OfType
<1>2. /\ g \in Nat /\ n \in Nat /\ g <= n
      /\ n = 0 => before = 5000
      /\ n # 0 => before = Capped((g * 10000) \div n)
      /\ before \in 0..10000
  <2>1. /\ Goods(c, good) \in Nat /\ Both(c, good, bad) \in Nat
        /\ Goods(c, good) <= Both(c, good, bad)
        /\ Both(c, good, bad) = 0 => Scores!Share(c, good, bad) = 5000
        /\ Both(c, good, bad) # 0 =>
              Scores!Share(c, good, bad) = Capped(Portion(c, good, bad))
        /\ Scores!Share(c, good, bad) \in 0..10000
    <3>1. c \in Counts
      OBVIOUS
    <3> QED BY ONLY <3>1, ShareIs
  <2> QED BY <2>1 DEF Portion
<1>3. /\ g1 \in Nat /\ n1 \in Nat
      /\ n1 = 0 => after = 5000
      /\ n1 # 0 => after = Capped((g1 * 10000) \div n1)
      /\ after \in 0..10000
  <2>1. c1 \in Counts
    BY WithIs
  <2> HIDE DEF c1
  <2>2. /\ Goods(c1, good) \in Nat /\ Both(c1, good, bad) \in Nat
        /\ Both(c1, good, bad) = 0 => Scores!Share(c1, good, bad) = 5000
        /\ Both(c1, good, bad) # 0 =>
              Scores!Share(c1, good, bad) = Capped(Portion(c1, good, bad))
        /\ Scores!Share(c1, good, bad) \in 0..10000
    BY ONLY <2>1, ShareIs
  <2> QED BY <2>2 DEF c1, Portion
<1>4. /\ g1 = IF e \in G THEN g + 1 ELSE g
      /\ n1 = IF e \in N THEN n + 1 ELSE n
  <2> HIDE DEF G, N
  <2> QED BY <1>1, NumberWith DEF Goods, Both, G, N
<1> HIDE DEF before, after, G, N, c1, g, n, g1, n1
<1>5. before \in Int /\ after \in Int
  BY <1>2, <1>3
<1>6. /\ g1 = g + 1 /\ n1 = n + 1 => before <= after
      /\ g1 = g /\ n1 = n + 1 => after <= before
      /\ g1 = g /\ n1 = n => before = after
  <2>1. ASSUME g1 = g + 1, n1 = n + 1 PROVE before <= after
    <3> DEFINE q == (g * 10000) \div n
               q1 == (g1 * 10000) \div n1
    <3>1. /\ (10000 * (g + 1)) \div (1 * (n + 1)) \in Int
          /\ n = 0 => (10000 * (g + 1)) \div (1 * (n + 1)) >= 10000
          /\ n # 0 => /\ (10000 * g) \div (1 * n) \in Int
                      /\ \/ (10000 * (g + 1)) \div (1 * (n + 1)) >= 10000
                         \/ (10000 * g) \div (1 * n)
                               <= (10000 * (g + 1)) \div (1 * (n + 1))
      <4>1. g \in Int /\ 1 \in Nat \ {0} /\ 1 \in Int /\ 1 >= 1 /\ n \in Nat
        BY <1>2
      <4>2. n = 0 => g = 0
        BY <1>2
      <4> QED BY ONLY <4>1, <4>2, Rise
    <3>2. /\ 1 * (n + 1) = n1 /\ 1 * n = n
          /\ 10000 * g = g * 10000 /\ 10000 * (g + 1) = g1 * 10000
      BY <1>2, <2>1
    <3>3. /\ q1 \in Int /\ n = 0 => q1 >= 10000
          /\ n # 0 => q \in Int /\ (q1 >= 10000 \/ q <= q1)
      BY ONLY <3>1, <3>2 DEF q, q1
    <3>4. n1 # 0
      BY <1>2, <2>1
    <3>5. after = Capped(q1)
      BY <1>3, <3>4
    <3>6. n # 0 => before = Capped(q)
      BY <1>2
    <3> HIDE DEF q, q1
    <3>7. CASE n = 0
      BY ONLY <1>2, <3>3, <3>5, <3>7 DEF Capped
    <3>8. CASE n # 0
      BY ONLY <3>3, <3>5, <3>6, <3>8 DEF Capped
    <3> QED BY <3>7, <3>8
  <2>2. ASSUME g1 = g, n1 = n + 1 PROVE after <= before
    <3> DEFINE q == (g * 10000) \div n
               q1 == (g * 10000) \div (n + 1)
    <3>1. after = Capped(q1)
      <4>1. n1 # 0
        BY <1>2, <2>2
      <4> QED BY <1>3, <2>2, <4>1
    <3>2. CASE n = 0
      <4>1. q1 = 0
        <5>1. g * 10000 = 0 /\ n + 1 = 1
          BY <1>2, <3>2
        <5> QED BY <5>1
      <4>2. Capped(0) = 0
        BY DEF Capped
      <4> HIDE DEF q1
      <4> QED BY <1>2, <3>1, <3>2, <4>1, <4>2
    <3>3. CASE n # 0
      <4>1. q \in Int /\ q1 \in Int /\ q1 <= q
        <5>1. g \in Nat /\ n \in Nat \ {0}
          BY <1>2, <3>3
        <5> DEFINE x == g * 10000
        <5>2. x \in Nat
          BY <5>1
        <5> HIDE DEF x
        <5>3. /\ x \div (n + 1) \in Int /\ x \div n \in Int
              /\ x \div (n + 1) <= x \div n
          BY ONLY <5>1, <5>2, Fall
        <5> QED BY <5>3 DEF x
      <4>2. before = Capped(q)
        BY <1>2, <3>3
      <4> HIDE DEF q, q1
      <4> QED BY ONLY <3>1, <4>1, <4>2 DEF Capped
    <3> QED BY <3>2, <3>3
  <2>3. ASSUME g1 = g, n1 = n PROVE before = after
    BY <1>2, <1>3, <2>3
  <2> QED BY <2>1, <2>2, <2>3
<1>7. /\ e.type = good => before <= after
      /\ e.type = bad => after <= before
      /\ e.type # good /\ e.type # bad => after = before
  BY <1>1, <1>4, <1>6
<1> QED BY <1>2, <1>3, <1>7 DEF before, after

-----------------------------------------------------------------------------
\* The events that are averaged carry numbers.
LEMMA TimedIs ==
    /\ Scores!Timed \in SUBSET Event
    /\ \A e \in Scores!Timed : e.value \in Int
    /\ Scores!Rated \in SUBSET Event
    /\ \A e \in Scores!Rated : e.value \in Int
BY EventsAssumption DEF Scores!Timed, Scores!Rated, Scores!Valued, Scores!OfType

\* Math.max(0, Math.min(1, q)).
Clamped(q) == IF q < 0 THEN 0 ELSE Capped(q)

\* How far the times are from the worst, together.
Late(c) == 5000 * Scores!Number(c, Scores!Timed) - Scores!Sum(c, Scores!Timed)

\* The response time before it is cut off.
Speed(c) == (10000 * Late(c)) \div (4900 * Scores!Number(c, Scores!Timed))

\* The rating before it is cut off.
Rating(c) == (10000 * Scores!Sum(c, Scores!Rated))
                \div (5 * Scores!Number(c, Scores!Rated))

\* The response time is between 0 and 1; with no event it is neutral.
LEMMA ResponseTimeIs ==
    ASSUME NEW c \in Counts
    PROVE  /\ Scores!Number(c, Scores!Timed) \in Nat
           /\ Scores!Sum(c, Scores!Timed) \in Int
           /\ Late(c) \in Int
           /\ Scores!Number(c, Scores!Timed) = 0 => Late(c) = 0
           /\ Scores!Number(c, Scores!Timed) = 0 => Scores!ResponseTime(c) = 5000
           /\ Scores!Number(c, Scores!Timed) # 0 =>
                 Scores!ResponseTime(c) = Clamped(Speed(c))
           /\ Scores!ResponseTime(c) \in 0..10000
<1> DEFINE S == Scores!Timed
           n == Scores!Number(c, S)
           s == Scores!Sum(c, S)
<1>1. S \in SUBSET Event /\ \A x \in S : x.value \in Int
  BY TimedIs
<1> HIDE DEF S
<1>2. n \in Nat /\ s \in Int /\ (n = 0 => s = 0)
  BY <1>1, NumberIs, TotalIs
<1>3. Late(c) = 5000 * n - s
  BY DEF Late, S
<1>4. Late(c) \in Int /\ (n = 0 => Late(c) = 0)
  <2> HIDE DEF n, s
  <2> QED BY <1>2, <1>3
<1>q. n # 0 => Speed(c) \in Int
  <2> DEFINE x == 10000 * Late(c)
             m == 4900 * n
  <2>1. x \in Int
    BY <1>4
  <2>2. n # 0 => m \in Nat \ {0}
    <3> HIDE DEF n
    <3> QED BY <1>2
  <2>3. Speed(c) = x \div m
    BY DEF Speed, S
  <2> HIDE DEF x, m
  <2> QED BY <2>1, <2>2, <2>3, Quotient
<1>5. /\ n = 0 => Scores!ResponseTime(c) = 5000
      /\ n # 0 => Scores!ResponseTime(c) = Clamped(Speed(c))
  <2>1. /\ Scores!Unit = 10000 /\ Scores!Neutral = 5000
        /\ Scores!Slow = 5000 /\ Scores!Slow - Scores!Fast = 4900
    BY DEF Scores!Unit, Scores!Neutral, Scores!Slow, Scores!Fast
  <2>2. Scores!ResponseTime(c) =
          IF n = 0 THEN Scores!Neutral
          ELSE Scores!Clamp((Scores!Unit * (Scores!Slow * n - s))
                               \div ((Scores!Slow - Scores!Fast) * n))
    BY DEF Scores!ResponseTime, S
  <2>3. Scores!ResponseTime(c) =
          IF n = 0 THEN 5000
          ELSE Scores!Clamp((10000 * (5000 * n - s)) \div (4900 * n))
    BY <2>1, <2>2
  <2>4. Speed(c) = (10000 * (5000 * n - s)) \div (4900 * n)
    BY <1>3 DEF Speed, S
  <2> DEFINE q == Speed(c)
  <2>5. n # 0 => Scores!ResponseTime(c) = Scores!Clamp(q)
    BY <2>3, <2>4
  <2>6. q \in Int => Scores!Clamp(q) = Clamped(q)
    <3> HIDE DEF q
    <3> QED BY <2>1 DEF Scores!Clamp, Scores!Lesser, Clamped, Capped
  <2> QED BY <1>q, <2>3, <2>5, <2>6
<1>6. Scores!ResponseTime(c) \in 0..10000
  <2> DEFINE q == Speed(c)
  <2> HIDE DEF q
  <2>2. q \in Int => Clamped(q) \in 0..10000
    BY DEF Clamped, Capped
  <2> QED BY <1>q, <1>5, <2>2 DEF q
<1> QED BY <1>2, <1>4, <1>5, <1>6 DEF S

\* A fast answer does not lower the response time, an event without a time
\* leaves it alone.
LEMMA ResponseTimeWith ==
    ASSUME NEW c \in Counts, NEW e \in Event
    PROVE  /\ Scores!ResponseTime(c) \in 0..10000
           /\ Scores!ResponseTime(Scores!With(c, e)) \in 0..10000
           /\ e \in Scores!Timed /\ e.value <= 100 =>
                 Scores!ResponseTime(c)
                    <= Scores!ResponseTime(Scores!With(c, e))
           /\ e \notin Scores!Timed =>
                 Scores!ResponseTime(Scores!With(c, e)) = Scores!ResponseTime(c)
<1> DEFINE b == Scores!With(c, e)
           S == Scores!Timed
           n == Scores!Number(c, S)
           m == Scores!Number(b, S)
           s == Scores!Sum(c, S)
           before == Scores!ResponseTime(c)
           after == Scores!ResponseTime(b)
           q == Speed(c)
           p == Speed(b)
<1>1. S \in SUBSET Event /\ \A x \in S : x.value \in Int
  BY TimedIs
<1>2. b \in Counts
  BY WithIs
<1>3. /\ n \in Nat /\ s \in Int /\ Late(c) \in Int
      /\ Late(c) = 5000 * n - s
      /\ n = 0 => Late(c) = 0
      /\ n = 0 => before = 5000
      /\ n # 0 => before = Clamped(q)
      /\ before \in 0..10000
  BY ResponseTimeIs DEF Late
<1>4. /\ m \in Nat
      /\ m = 0 => after = 5000
      /\ m # 0 => after = Clamped(p)
      /\ after \in 0..10000
  <2> HIDE DEF b
  <2> QED BY <1>2, ResponseTimeIs
<1>5. /\ m = IF e \in S THEN n + 1 ELSE n
      /\ Scores!Sum(b, S) = IF e \in S THEN s + e.value ELSE s
  <2> HIDE DEF S
  <2> QED BY <1>1, NumberWith, TotalWith
<1>6. /\ Late(b) = 5000 * m - Scores!Sum(b, S)
      /\ q = (10000 * Late(c)) \div (4900 * n)
      /\ p = (10000 * Late(b)) \div (4900 * m)
  BY DEF Late, Speed
<1> HIDE DEF b, S, n, m, s, before, after, q, p
<1>7. ASSUME e \in S, e.value <= 100 PROVE before <= after
  <2> DEFINE A == Late(c)
             a == 5000 - e.value
  <2>1. A \in Int /\ a \in Int /\ a >= 4900 /\ (n = 0 => A = 0)
    BY <1>1, <1>3, <1>7
  <2>2. m = n + 1 /\ m # 0 /\ Late(b) = A + a
    BY <1>1, <1>3, <1>5, <1>6, <1>7
  <2>3. p = (10000 * (A + a)) \div (4900 * (n + 1))
    BY <1>6, <2>2
  <2>4. q = (10000 * A) \div (4900 * n)
    BY <1>6
  <2> HIDE DEF A, a
  <2>5. /\ (10000 * (A + a)) \div (4900 * (n + 1)) \in Int
        /\ n = 0 => (10000 * (A + a)) \div (4900 * (n + 1)) >= 10000
        /\ n # 0 => /\ (10000 * A) \div (4900 * n) \in Int
                    /\ \/ (10000 * (A + a)) \div (4900 * (n + 1)) >= 10000
                       \/ (10000 * A) \div (4900 * n)
                             <= (10000 * (A + a)) \div (4900 * (n + 1))
    <3>1. 4900 \in Nat \ {0} /\ n \in Nat
      BY <1>3
    <3> QED BY ONLY <2>1, <3>1, Rise
  <2>6. /\ p \in Int /\ (n = 0 => p >= 10000)
        /\ n # 0 => q \in Int /\ (p >= 10000 \/ q <= p)
    BY ONLY <2>3, <2>4, <2>5
  <2>7. after = Clamped(p) /\ (n # 0 => before = Clamped(q))
    BY <1>3, <1>4, <2>2
  <2>8. CASE n = 0
    BY ONLY <1>3, <2>6, <2>7, <2>8 DEF Clamped, Capped
  <2>9. CASE n # 0
    BY ONLY <2>6, <2>7, <2>9 DEF Clamped, Capped
  <2> QED BY <2>8, <2>9
<1>8. ASSUME e \notin S PROVE after = before
  <2>1. m = n /\ Late(b) = Late(c)
    BY <1>3, <1>5, <1>6, <1>8
  <2>2. p = q
    BY <1>6, <2>1
  <2> QED BY <1>3, <1>4, <2>1, <2>2
<1> QED BY <1>3, <1>4, <1>7, <1>8 DEF before, after, S, b

\* The rating is at most 1; it is at least 0 when no rating is negative.
LEMMA CommunityFeedbackIs ==
    ASSUME NEW c \in Counts
    PROVE  /\ Scores!Number(c, Scores!Rated) \in Nat
           /\ Scores!Sum(c, Scores!Rated) \in Int
           /\ Scores!Number(c, Scores!Rated) = 0 => Scores!Sum(c, Scores!Rated) = 0
           /\ Scores!Number(c, Scores!Rated) = 0 =>
                 Scores!CommunityFeedback(c) = 5000
           /\ Scores!Number(c, Scores!Rated) # 0 =>
                 Scores!CommunityFeedback(c) = Capped(Rating(c))
           /\ Scores!CommunityFeedback(c) \in Int
           /\ Scores!CommunityFeedback(c) <= 10000
           /\ Scores!Sum(c, Scores!Rated) \in Nat =>
                 Scores!CommunityFeedback(c) \in 0..10000
<1> DEFINE S == Scores!Rated
           n == Scores!Number(c, S)
           s == Scores!Sum(c, S)
           q == Rating(c)
<1>1. S \in SUBSET Event /\ \A x \in S : x.value \in Int
  BY TimedIs
<1> HIDE DEF S
<1>2. n \in Nat /\ s \in Int /\ (n = 0 => s = 0)
  BY <1>1, NumberIs, TotalIs
<1>3. /\ n # 0 => q \in Int
      /\ n # 0 /\ s \in Nat => q \in Nat
  <2> DEFINE x == 10000 * s
             m == 5 * n
  <2>1. x \in Int /\ (s \in Nat => x \in Nat)
    <3> HIDE DEF s
    <3> QED BY <1>2
  <2>2. n # 0 => m \in Nat \ {0}
    <3> HIDE DEF n
    <3> QED BY <1>2
  <2>3. q = x \div m
    BY DEF Rating, S
  <2> HIDE DEF x, m, q, s, n
  <2> QED BY <2>1, <2>2, <2>3, Quotient, DivNat
<1>4. /\ n = 0 => Scores!CommunityFeedback(c) = 5000
      /\ n # 0 => Scores!CommunityFeedback(c) = Capped(q)
  <2>1. Scores!Unit = 10000 /\ Scores!Neutral = 5000 /\ Scores!Stars = 5
    BY DEF Scores!Unit, Scores!Neutral, Scores!Stars
  <2>2. Scores!CommunityFeedback(c) =
          IF n = 0 THEN Scores!Neutral
          ELSE Scores!Lesser(Scores!Unit,
                             (Scores!Unit * s) \div (Scores!Stars * n))
    BY DEF Scores!CommunityFeedback, S
  <2>3. q = (10000 * s) \div (5 * n)
    BY DEF Rating, S
  <2>4. n # 0 => Scores!CommunityFeedback(c) = Scores!Lesser(10000, q)
    BY <2>1, <2>2, <2>3
  <2> HIDE DEF q
  <2> QED BY <2>1, <2>2, <2>4 DEF Scores!Lesser, Capped
<1> HIDE DEF q, n, s
<1>5. /\ q \in Int => Capped(q) \in Int /\ Capped(q) <= 10000
      /\ q \in Nat => Capped(q) \in 0..10000
  <2>1. ASSUME q \in Int PROVE Capped(q) \in Int /\ Capped(q) <= 10000
    BY <2>1 DEF Capped
  <2>2. ASSUME q \in Nat PROVE Capped(q) \in 0..10000
    BY <2>2 DEF Capped
  <2> QED BY <2>1, <2>2
<1>6. /\ Scores!CommunityFeedback(c) \in Int
      /\ Scores!CommunityFeedback(c) <= 10000
      /\ s \in Nat => Scores!CommunityFeedback(c) \in 0..10000
  BY <1>2, <1>3, <1>4, <1>5
<1> QED BY <1>2, <1>4, <1>6 DEF n, s, q, S

\* The best rating does not lower the rating, any other event leaves it alone.
LEMMA CommunityFeedbackWith ==
    ASSUME NEW c \in Counts, NEW e \in Event
    PROVE  /\ Scores!CommunityFeedback(c) \in Int
           /\ Scores!CommunityFeedback(Scores!With(c, e)) \in Int
           /\ e \in Scores!Rated /\ e.value >= 5 =>
                 Scores!CommunityFeedback(c)
                    <= Scores!CommunityFeedback(Scores!With(c, e))
           /\ e \notin Scores!Rated =>
                 Scores!CommunityFeedback(Scores!With(c, e))
                    = Scores!CommunityFeedback(c)
<1> DEFINE b == Scores!With(c, e)
           S == Scores!Rated
           n == Scores!Number(c, S)
           m == Scores!Number(b, S)
           s == Scores!Sum(c, S)
           r == Scores!Sum(b, S)
           before == Scores!CommunityFeedback(c)
           after == Scores!CommunityFeedback(b)
           q == Rating(c)
           p == Rating(b)
<1>1. S \in SUBSET Event /\ \A x \in S : x.value \in Int
  BY TimedIs
<1>2. b \in Counts
  BY WithIs
<1>3. /\ n \in Nat /\ s \in Int /\ (n = 0 => s = 0)
      /\ n = 0 => before = 5000
      /\ n # 0 => before = Capped(q)
      /\ before \in Int /\ before <= 10000
  BY CommunityFeedbackIs
<1>4. /\ m \in Nat /\ r \in Int
      /\ m = 0 => after = 5000
      /\ m # 0 => after = Capped(p)
      /\ after \in Int
  <2> HIDE DEF b
  <2> QED BY <1>2, CommunityFeedbackIs
<1>5. /\ m = IF e \in S THEN n + 1 ELSE n
      /\ r = IF e \in S THEN s + e.value ELSE s
  <2> HIDE DEF S
  <2> QED BY <1>1, NumberWith, TotalWith
<1>6. /\ q = (10000 * s) \div (5 * n)
      /\ p = (10000 * r) \div (5 * m)
  BY DEF Rating
<1> HIDE DEF b, S, n, m, s, r, before, after, q, p
<1>7. ASSUME e \in S, e.value >= 5 PROVE before <= after
  <2> DEFINE a == e.value
  <2>1. s \in Int /\ a \in Int /\ a >= 5 /\ (n = 0 => s = 0)
    BY <1>1, <1>3, <1>7
  <2>2. m = n + 1 /\ m # 0 /\ r = s + a
    BY <1>1, <1>3, <1>5, <1>7
  <2>3. p = (10000 * (s + a)) \div (5 * (n + 1))
    BY <1>6, <2>2
  <2> HIDE DEF a
  <2>4. /\ (10000 * (s + a)) \div (5 * (n + 1)) \in Int
        /\ n = 0 => (10000 * (s + a)) \div (5 * (n + 1)) >= 10000
        /\ n # 0 => /\ (10000 * s) \div (5 * n) \in Int
                    /\ \/ (10000 * (s + a)) \div (5 * (n + 1)) >= 10000
                       \/ (10000 * s) \div (5 * n)
                             <= (10000 * (s + a)) \div (5 * (n + 1))
    <3>1. 5 \in Nat \ {0} /\ n \in Nat
      BY <1>3
    <3> QED BY ONLY <2>1, <3>1, Rise
  <2>5. /\ p \in Int /\ (n = 0 => p >= 10000)
        /\ n # 0 => q \in Int /\ (p >= 10000 \/ q <= p)
    BY ONLY <1>6, <2>3, <2>4
  <2>6. after = Capped(p) /\ (n # 0 => before = Capped(q))
    BY <1>3, <1>4, <2>2
  <2>7. CASE n = 0
    BY ONLY <1>3, <2>5, <2>6, <2>7 DEF Capped
  <2>8. CASE n # 0
    BY ONLY <2>5, <2>6, <2>8 DEF Capped
  <2> QED BY <2>7, <2>8
<1>8. ASSUME e \notin S PROVE after = before
  <2>1. m = n /\ r = s
    BY <1>5, <1>8
  <2>2. p = q
    BY <1>6, <2>1
  <2> QED BY <1>3, <1>4, <2>1, <2>2
<1> QED BY <1>3, <1>4, <1>7, <1>8 DEF before, after, S, b

-----------------------------------------------------------------------------
\* The overall score is the weighted sum of the five.
LEMMA OverallIs ==
    ASSUME NEW sc \in [Scores!Dimension -> Int]
    PROVE  Scores!Overall(sc) =
              (25 * sc["uptime"] + 25 * sc["data_integrity"]
               + 20 * sc["response_time"] + 20 * sc["contract_compliance"]
               + 10 * sc["community_feedback"]) \div 100
<1> DEFINE D == Scores!Dimension
           f == [d \in D |-> Scores!Weight[d] * sc[d]]
           D4 == D \ {"uptime"}
           D3 == D4 \ {"data_integrity"}
           D2 == D3 \ {"response_time"}
           D1 == D2 \ {"contract_compliance"}
           D0 == D1 \ {"community_feedback"}
<1>1. D = {"uptime", "data_integrity", "response_time",
           "contract_compliance", "community_feedback"}
  BY DEF Scores!Dimension
<1>2. /\ Scores!Weight["uptime"] = 25 /\ Scores!Weight["data_integrity"] = 25
      /\ Scores!Weight["response_time"] = 20
      /\ Scores!Weight["contract_compliance"] = 20
      /\ Scores!Weight["community_feedback"] = 10
  BY <1>1 DEF Scores!Weight
<1>3. \A d \in D : sc[d] \in Int /\ Scores!Weight[d] \in Int
  BY <1>1, <1>2
<1>4. f \in [D -> Int]
  <2>1. \A d \in D : Scores!Weight[d] * sc[d] \in Int
    BY <1>3
  <2> QED BY <2>1
<1>5. /\ f["uptime"] = 25 * sc["uptime"]
      /\ f["data_integrity"] = 25 * sc["data_integrity"]
      /\ f["response_time"] = 20 * sc["response_time"]
      /\ f["contract_compliance"] = 20 * sc["contract_compliance"]
      /\ f["community_feedback"] = 10 * sc["community_feedback"]
  BY <1>1, <1>2
<1>6. Scores!SumFunction(f) = SumFunctionOnSet(f, D)
  <2>1. DOMAIN f = D
    OBVIOUS
  <2> HIDE DEF f
  <2> QED BY <2>1, OneSum DEF Scores!SumFunction
<1>7. Scores!Overall(sc) = SumFunctionOnSet(f, D) \div 100
  BY <1>6 DEF Scores!Overall
<1>8. /\ IsFiniteSet(D) /\ D4 \in SUBSET D /\ D3 \in SUBSET D /\ D2 \in SUBSET D
      /\ D1 \in SUBSET D /\ D0 = {}
  <2>1. IsFiniteSet(D)
    <3>1. IsFiniteSet({}) /\ D = {} \cup {"uptime"} \cup {"data_integrity"}
             \cup {"response_time"} \cup {"contract_compliance"}
             \cup {"community_feedback"}
      BY <1>1, FS_EmptySet
    <3> HIDE DEF D
    <3> QED BY <3>1, FS_AddElement
  <2> QED BY <1>1, <2>1
<1>9. IsFiniteSet(D4) /\ IsFiniteSet(D3) /\ IsFiniteSet(D2) /\ IsFiniteSet(D1)
  BY <1>8, FS_Subset
<1>10. /\ "uptime" \in D /\ "data_integrity" \in D4 /\ "response_time" \in D3
       /\ "contract_compliance" \in D2 /\ "community_feedback" \in D1
  BY <1>1
<1> HIDE DEF f, D
<1>11. SumFunctionOnSet(f, D) = f["uptime"] + SumFunctionOnSet(f, D4)
  BY <1>4, <1>8, <1>10, SumWithout
<1>12. SumFunctionOnSet(f, D4) = f["data_integrity"] + SumFunctionOnSet(f, D3)
  <2> HIDE DEF D4
  <2> QED BY <1>4, <1>8, <1>9, <1>10, SumWithout
<1>13. SumFunctionOnSet(f, D3) = f["response_time"] + SumFunctionOnSet(f, D2)
  <2> HIDE DEF D3
  <2> QED BY <1>4, <1>8, <1>9, <1>10, SumWithout
<1>14. SumFunctionOnSet(f, D2) = f["contract_compliance"] + SumFunctionOnSet(f, D1)
  <2> HIDE DEF D2
  <2> QED BY <1>4, <1>8, <1>9, <1>10, SumWithout
<1>15. SumFunctionOnSet(f, D1) = f["community_feedback"] + SumFunctionOnSet(f, D0)
  <2> HIDE DEF D1
  <2> QED BY <1>4, <1>8, <1>9, <1>10, SumWithout
<1>16. SumFunctionOnSet(f, D0) = 0
  <2>1. SumFunctionOnSet(f, {}) = 0
    BY <1>4, <1>8, SumPicked
  <2> QED BY <1>8, <2>1
<1>17. /\ f["uptime"] \in Int /\ f["data_integrity"] \in Int
       /\ f["response_time"] \in Int /\ f["contract_compliance"] \in Int
       /\ f["community_feedback"] \in Int
  <2> HIDE DEF D4, D3, D2, D1
  <2>1. /\ "uptime" \in D /\ "data_integrity" \in D /\ "response_time" \in D
        /\ "contract_compliance" \in D /\ "community_feedback" \in D
    BY <1>8, <1>10
  <2> QED BY <1>4, <2>1
<1> HIDE DEF D4, D3, D2, D1, D0
<1>18. SumFunctionOnSet(f, D) =
         f["uptime"] + f["data_integrity"] + f["response_time"]
         + f["contract_compliance"] + f["community_feedback"]
  BY ONLY <1>11, <1>12, <1>13, <1>14, <1>15, <1>16, <1>17
<1> QED BY <1>5, <1>7, <1>18

\* The unit of the scores.
LEMMA UnitIs == Scores!Unit = 10000
BY DEF Scores!Unit

\* The unit is a number, all that the following proofs need of it.
LEMMA UnitNat == Scores!Unit \in Nat
BY DEF Scores!Unit

\* No score that grows lowers the overall score.
LEMMA OverallGrows ==
    ASSUME NEW sc \in [Scores!Dimension -> Int],
           NEW tc \in [Scores!Dimension -> Int],
           \A d \in Scores!Dimension : sc[d] <= tc[d]
    PROVE  Scores!Overall(sc) <= Scores!Overall(tc)
<1> DEFINE a == 25 * sc["uptime"] + 25 * sc["data_integrity"]
               + 20 * sc["response_time"] + 20 * sc["contract_compliance"]
               + 10 * sc["community_feedback"]
           b == 25 * tc["uptime"] + 25 * tc["data_integrity"]
               + 20 * tc["response_time"] + 20 * tc["contract_compliance"]
               + 10 * tc["community_feedback"]
<1>1. Scores!Overall(sc) = a \div 100 /\ Scores!Overall(tc) = b \div 100
  BY OverallIs
<1>2. \A d \in {"uptime", "data_integrity", "response_time",
                "contract_compliance", "community_feedback"} :
         sc[d] \in Int /\ tc[d] \in Int /\ sc[d] <= tc[d]
  BY DEF Scores!Dimension
<1>3. a \in Int /\ b \in Int /\ a <= b
  BY <1>2
<1> HIDE DEF a, b
<1>4. a * 100 <= b * 100
  BY <1>3
<1>5. a \div 100 <= b \div 100
  BY <1>3, <1>4, Fractions
<1> QED BY <1>1, <1>5

\* The overall score is where the five are.
LEMMA OverallWithin ==
    ASSUME NEW sc \in [Scores!Dimension -> Int]
    PROVE  /\ Scores!Overall(sc) \in Int
           /\ (\A d \in Scores!Dimension : sc[d] <= Scores!Unit) =>
                 Scores!Overall(sc) <= Scores!Unit
           /\ (\A d \in Scores!Dimension : sc[d] \in 0..Scores!Unit) =>
                 Scores!Overall(sc) \in 0..Scores!Unit
<1> DEFINE a == 25 * sc["uptime"] + 25 * sc["data_integrity"]
               + 20 * sc["response_time"] + 20 * sc["contract_compliance"]
               + 10 * sc["community_feedback"]
<1>1. Scores!Overall(sc) = a \div 100
  BY OverallIs
<1>2. /\ sc["uptime"] \in Int /\ sc["data_integrity"] \in Int
      /\ sc["response_time"] \in Int /\ sc["contract_compliance"] \in Int
      /\ sc["community_feedback"] \in Int
  BY DEF Scores!Dimension
<1>3. /\ "uptime" \in Scores!Dimension /\ "data_integrity" \in Scores!Dimension
      /\ "response_time" \in Scores!Dimension
      /\ "contract_compliance" \in Scores!Dimension
      /\ "community_feedback" \in Scores!Dimension
  BY DEF Scores!Dimension
<1>4. /\ a \in Int
      /\ (\A d \in Scores!Dimension : sc[d] <= Scores!Unit) => a <= Scores!Unit * 100
      /\ (\A d \in Scores!Dimension : sc[d] \in 0..Scores!Unit) => a \in Nat
  <2>1. a \in Int
    BY ONLY <1>2
  <2>2. ASSUME \A d \in Scores!Dimension : sc[d] <= Scores!Unit
        PROVE  a <= Scores!Unit * 100
    <3>1. /\ sc["uptime"] <= Scores!Unit /\ sc["data_integrity"] <= Scores!Unit
          /\ sc["response_time"] <= Scores!Unit /\ sc["contract_compliance"] <= Scores!Unit
          /\ sc["community_feedback"] <= Scores!Unit
      BY ONLY <1>3, <2>2
    <3> QED BY ONLY <1>2, <3>1, UnitIs
  <2>3. ASSUME \A d \in Scores!Dimension : sc[d] \in 0..Scores!Unit
        PROVE  a \in Nat
    <3>1. /\ sc["uptime"] \in 0..Scores!Unit /\ sc["data_integrity"] \in 0..Scores!Unit
          /\ sc["response_time"] \in 0..Scores!Unit
          /\ sc["contract_compliance"] \in 0..Scores!Unit
          /\ sc["community_feedback"] \in 0..Scores!Unit
      BY ONLY <1>3, <2>3
    <3> QED BY ONLY <3>1, UnitNat
  <2> QED BY <2>1, <2>2, <2>3
<1>5. (\A d \in Scores!Dimension : sc[d] \in 0..Scores!Unit) =>
         (\A d \in Scores!Dimension : sc[d] <= Scores!Unit)
  <2> SUFFICES ASSUME NEW d \in Scores!Dimension, sc[d] \in 0..Scores!Unit
               PROVE  sc[d] <= Scores!Unit
    OBVIOUS
  <2> QED BY UnitNat
<1> HIDE DEF a
<1>6. a \div 100 \in Int /\ (a \in Nat => a \div 100 \in Nat)
  BY <1>4
<1>7. a <= Scores!Unit * 100 => a \div 100 <= Scores!Unit
  BY <1>4, UnitIs
<1> QED BY <1>1, <1>4, <1>5, <1>6, <1>7, UnitNat

\* The five scores.
LEMMA ScoreIs ==
    ASSUME NEW c
    PROVE  /\ Scores!Score(c)["uptime"] = Scores!Share(c, "online", "offline")
           /\ Scores!Score(c)["data_integrity"] =
                 Scores!Share(c, "proof_success", "proof_failure")
           /\ Scores!Score(c)["response_time"] = Scores!ResponseTime(c)
           /\ Scores!Score(c)["contract_compliance"] =
                 Scores!Share(c, "contract_completed", "contract_violated")
           /\ Scores!Score(c)["community_feedback"] = Scores!CommunityFeedback(c)
           /\ Scores!Score(c) =
                 [d \in Scores!Dimension |-> Scores!Score(c)[d]]
BY DEF Scores!Score, Scores!Dimension

\* All of the five are at most 1, and all but the rating at least 0.
LEMMA ScoreTyped ==
    ASSUME NEW c \in Counts
    PROVE  /\ Scores!Score(c) \in [Scores!Dimension -> Int]
           /\ \A d \in Scores!Dimension :
                 /\ Scores!Score(c)[d] <= Scores!Unit
                 /\ d # "community_feedback" => Scores!Score(c)[d] \in 0..Scores!Unit
           /\ Scores!Sum(c, Scores!Rated) \in Nat =>
                 \A d \in Scores!Dimension : Scores!Score(c)[d] \in 0..Scores!Unit
<1> DEFINE s == Scores!Score(c)
<1>1. /\ s["uptime"] \in 0..Scores!Unit /\ s["data_integrity"] \in 0..Scores!Unit
      /\ s["response_time"] \in 0..Scores!Unit /\ s["contract_compliance"] \in 0..Scores!Unit
      /\ s["community_feedback"] \in Int /\ s["community_feedback"] <= Scores!Unit
      /\ Scores!Sum(c, Scores!Rated) \in Nat => s["community_feedback"] \in 0..Scores!Unit
  <2>1. s["uptime"] \in 0..Scores!Unit
    BY ScoreIs, ShareIs, UnitIs
  <2>2. s["data_integrity"] \in 0..Scores!Unit
    BY ScoreIs, ShareIs, UnitIs
  <2>3. s["response_time"] \in 0..Scores!Unit
    BY ScoreIs, ResponseTimeIs, UnitIs
  <2>4. s["contract_compliance"] \in 0..Scores!Unit
    BY ScoreIs, ShareIs, UnitIs
  <2>5. /\ s["community_feedback"] \in Int /\ s["community_feedback"] <= Scores!Unit
        /\ Scores!Sum(c, Scores!Rated) \in Nat => s["community_feedback"] \in 0..Scores!Unit
    BY ScoreIs, CommunityFeedbackIs, UnitIs
  <2> HIDE DEF s
  <2> QED BY <2>1, <2>2, <2>3, <2>4, <2>5
<1>2. s = [d \in Scores!Dimension |-> s[d]]
  BY ScoreIs
<1> HIDE DEF s
<1>3. \A d \in Scores!Dimension :
         /\ s[d] \in Int /\ s[d] <= Scores!Unit
         /\ d # "community_feedback" => s[d] \in 0..Scores!Unit
  <2> SUFFICES ASSUME NEW d \in Scores!Dimension
               PROVE  /\ s[d] \in Int /\ s[d] <= Scores!Unit
                      /\ d # "community_feedback" => s[d] \in 0..Scores!Unit
    OBVIOUS
  <2>1. CASE d = "community_feedback"
    BY <1>1, <2>1
  <2>2. CASE d # "community_feedback"
    <3>1. s[d] \in 0..Scores!Unit
      BY <1>1, <2>2 DEF Scores!Dimension
    <3> QED BY <2>2, <3>1, UnitNat
  <2> QED BY <2>1, <2>2
<1>4. Scores!Sum(c, Scores!Rated) \in Nat =>
         \A d \in Scores!Dimension : s[d] \in 0..Scores!Unit
  <2> SUFFICES ASSUME Scores!Sum(c, Scores!Rated) \in Nat,
                      NEW d \in Scores!Dimension
               PROVE  s[d] \in 0..Scores!Unit
    OBVIOUS
  <2> QED BY <1>1, <1>3
<1>5. s \in [Scores!Dimension -> Int]
  BY <1>2, <1>3
<1> QED BY <1>3, <1>4, <1>5 DEF s

\* What one more event does to the overall score, whatever came before it.
LEMMA GoodNews ==
    ASSUME NEW c \in Counts, NEW e \in Event
    PROVE  /\ Scores!Good(e) => Scores!Overall(Scores!Score(c))
                 <= Scores!Overall(Scores!Score(Scores!With(c, e)))
           /\ Scores!Bad(e) => Scores!Overall(Scores!Score(Scores!With(c, e)))
                 <= Scores!Overall(Scores!Score(c))
<1> DEFINE b == Scores!With(c, e)
           s == Scores!Score(c)
           t == Scores!Score(b)
<1>1. b \in Counts
  BY WithIs
<1>2. s \in [Scores!Dimension -> Int] /\ t \in [Scores!Dimension -> Int]
  <2> HIDE DEF b
  <2> QED BY <1>1, ScoreTyped
<1>3. /\ e.type = "online" => s["uptime"] <= t["uptime"]
      /\ e.type = "offline" => t["uptime"] <= s["uptime"]
      /\ e.type # "online" /\ e.type # "offline" => t["uptime"] = s["uptime"]
  BY ScoreIs, ShareWith
<1>4. /\ e.type = "proof_success" => s["data_integrity"] <= t["data_integrity"]
      /\ e.type = "proof_failure" => t["data_integrity"] <= s["data_integrity"]
      /\ e.type # "proof_success" /\ e.type # "proof_failure" =>
            t["data_integrity"] = s["data_integrity"]
  BY ScoreIs, ShareWith
<1>5. /\ e.type = "contract_completed" =>
            s["contract_compliance"] <= t["contract_compliance"]
      /\ e.type = "contract_violated" =>
            t["contract_compliance"] <= s["contract_compliance"]
      /\ e.type # "contract_completed" /\ e.type # "contract_violated" =>
            t["contract_compliance"] = s["contract_compliance"]
  BY ScoreIs, ShareWith
<1>6. /\ e \in Scores!Timed /\ e.value <= 100 =>
            s["response_time"] <= t["response_time"]
      /\ e \notin Scores!Timed => t["response_time"] = s["response_time"]
  BY ScoreIs, ResponseTimeWith
<1>7. /\ e \in Scores!Rated /\ e.value >= 5 =>
            s["community_feedback"] <= t["community_feedback"]
      /\ e \notin Scores!Rated => t["community_feedback"] = s["community_feedback"]
  BY ScoreIs, CommunityFeedbackWith
<1>8. /\ e \in Scores!Timed => /\ e.type \in {"proof_success", "upload_success",
                                              "download_success"}
                               /\ e.value # NoValue
      /\ e \in Scores!Rated => e.type = "community_feedback" /\ e.value # NoValue
  BY DEF Scores!Timed, Scores!Rated, Scores!Valued, Scores!OfType
<1>9. Scores!Fast = 100 /\ Scores!Stars = 5
  BY DEF Scores!Fast, Scores!Stars
<1> HIDE DEF b, s, t
<1>10. \A d \in Scores!Dimension : s[d] \in Int /\ t[d] \in Int
  BY <1>2
<1>11. ASSUME Scores!Good(e) PROVE \A d \in Scores!Dimension : s[d] <= t[d]
  <2>1. /\ e.type \notin {"offline", "proof_failure", "contract_violated"}
        /\ e \in Scores!Timed => e.value <= 100
        /\ e \in Scores!Rated => e.value >= 5
    BY <1>8, <1>9, <1>11 DEF Scores!Good
  <2>2. /\ s["uptime"] <= t["uptime"]
        /\ s["data_integrity"] <= t["data_integrity"]
        /\ s["contract_compliance"] <= t["contract_compliance"]
        /\ s["response_time"] <= t["response_time"]
        /\ s["community_feedback"] <= t["community_feedback"]
    BY <1>3, <1>4, <1>5, <1>6, <1>7, <1>10, <2>1 DEF Scores!Dimension
  <2> QED BY <2>2 DEF Scores!Dimension
<1>12. ASSUME Scores!Bad(e) PROVE \A d \in Scores!Dimension : t[d] <= s[d]
  <2>1. /\ e.type \in {"offline", "proof_failure", "contract_violated"}
        /\ e \notin Scores!Timed /\ e \notin Scores!Rated
    BY <1>8, <1>12 DEF Scores!Bad
  <2>2. /\ t["uptime"] <= s["uptime"]
        /\ t["data_integrity"] <= s["data_integrity"]
        /\ t["contract_compliance"] <= s["contract_compliance"]
        /\ t["response_time"] <= s["response_time"]
        /\ t["community_feedback"] <= s["community_feedback"]
    BY <1>3, <1>4, <1>5, <1>6, <1>7, <1>10, <2>1 DEF Scores!Dimension
  <2> QED BY <2>2 DEF Scores!Dimension
<1>13. ASSUME Scores!Good(e) PROVE Scores!Overall(s) <= Scores!Overall(t)
  BY <1>2, <1>11, <1>13, OverallGrows
<1>14. ASSUME Scores!Bad(e) PROVE Scores!Overall(t) <= Scores!Overall(s)
  BY <1>2, <1>12, <1>14, OverallGrows
<1> QED BY <1>13, <1>14 DEF b, s, t

-----------------------------------------------------------------------------
\* The events are counted: the invariant that the next theorem needs.
LEMMA Counted == Scores!Spec => [](count \in Counts)
<1>1. Scores!Init => count \in Counts
  BY DEF Scores!Init, Counts
<1>2. count \in Counts /\ [Scores!Next]_(Scores!vars) => (count \in Counts)'
  <2> SUFFICES ASSUME count \in Counts, [Scores!Next]_(Scores!vars)
               PROVE  count' \in Counts
    OBVIOUS
  <2>1. CASE \E e \in Event : Scores!RecordEvent(e)
    <3>1. PICK e \in Event : count' = Scores!With(count, e)
      BY <2>1 DEF Scores!RecordEvent
    <3> QED BY <3>1, WithIs
  <2>2. CASE ~\E e \in Event : Scores!RecordEvent(e)
    <3>1. count' = count
      BY <2>2 DEF Scores!Next, Scores!RecalculateScore, Scores!Register,
                  Scores!vars
    <3> QED BY <3>1
  <2> QED BY <2>1, <2>2
<1> QED BY <1>1, <1>2, PTL DEF Scores!Spec

\* In every state of ReputationService, and for every event that may be recorded
\* next, good news does not lower the provider's overall score and bad news does
\* not raise it, the first event of a dimension included.
THEOREM NewsCounts == Scores!Spec => []NewsCountsTheRightWay
<1>1. count \in Counts => NewsCountsTheRightWay
  <2> SUFFICES ASSUME count \in Counts, NEW e \in Event
               PROVE  /\ Scores!Good(e) => Scores!Overall(Scores!Score(Scores!With(count, e)))
                            >= Scores!Overall(Scores!Score(count))
                      /\ Scores!Bad(e) => Scores!Overall(Scores!Score(Scores!With(count, e)))
                            <= Scores!Overall(Scores!Score(count))
    BY DEF NewsCountsTheRightWay, Scores!NewsCountsTheRightWay
  <2>1. Scores!With(count, e) \in Counts
    BY WithIs
  <2>2. /\ Scores!Overall(Scores!Score(count)) \in Int
        /\ Scores!Overall(Scores!Score(Scores!With(count, e))) \in Int
    BY <2>1, ScoreTyped, OverallWithin
  <2> QED BY <2>2, GoodNews
<1> QED BY <1>1, Counted, PTL

\* What recalculateScore stores is never above 1 and, but for the rating and the
\* overall score, never below 0: with no assumption on what was recorded or
\* announced.
THEOREM RecalculationCaps ==
    Scores!Spec =>
      [][Scores!RecalculateScore =>
           /\ \A d \in Scores!Dimension \ {"community_feedback"} :
                 stored'.of[d] \in 0..Scores!Unit
           /\ stored'.of["community_feedback"] <= Scores!Unit
           /\ stored'.overall <= Scores!Unit]_(Scores!vars)
<1> DEFINE Caps == /\ \A d \in Scores!Dimension \ {"community_feedback"} :
                         stored'.of[d] \in 0..Scores!Unit
                   /\ stored'.of["community_feedback"] <= Scores!Unit
                   /\ stored'.overall <= Scores!Unit
<1>1. ASSUME count \in Counts, Scores!RecalculateScore PROVE Caps
  <2> DEFINE s == Scores!Score(count)
  <2>1. stored' = [of |-> s, overall |-> Scores!Overall(s)]
    BY <1>1 DEF Scores!RecalculateScore
  <2>2. /\ s \in [Scores!Dimension -> Int]
        /\ \A d \in Scores!Dimension :
              /\ s[d] <= Scores!Unit
              /\ d # "community_feedback" => s[d] \in 0..Scores!Unit
    BY <1>1, ScoreTyped
  <2> HIDE DEF s
  <2>3. Scores!Overall(s) <= Scores!Unit
    BY <2>2, OverallWithin
  <2>4. "community_feedback" \in Scores!Dimension
    BY DEF Scores!Dimension
  <2> QED BY <2>1, <2>2, <2>3, <2>4
<1>2. count \in Counts /\ [Scores!Next]_(Scores!vars)
        => [Scores!RecalculateScore => Caps]_(Scores!vars)
  BY <1>1
<1> HIDE DEF Caps
<1>3. Scores!Spec => [][Scores!RecalculateScore => Caps]_(Scores!vars)
  BY <1>2, Counted, PTL DEF Scores!Spec
<1> QED BY <1>3 DEF Caps

\* Every stored score is between 0 and 1, if no recorded rating is negative and
\* registrations announce scores between 0 and 1.  The code checks neither of
\* the two, which is why they are hypotheses here and not assumptions.
THEOREM FiguresTyped ==
    ASSUME \A s \in Announced : /\ s.of \in [Scores!Dimension -> 0..Scores!Unit]
                                /\ s.overall \in 0..Scores!Unit,
           \A e \in Event : e.type = "community_feedback" /\ e.value # NoValue
                               => e.value >= 0
    PROVE  Spec /\ Scores!Spec => []TypeOK
<1> DEFINE Typed == /\ stored.of \in [Scores!Dimension -> 0..Scores!Unit]
                    /\ stored.overall \in 0..Scores!Unit
<1>1. Scores!Init => Typed
  BY DEF Scores!Init
<1>2. ASSUME count \in Counts, Typed, [Scores!Next]_(Scores!vars) PROVE Typed'
  <2>1. CASE Scores!RecalculateScore
    <3> DEFINE s == Scores!Score(count)
    <3>1. stored' = [of |-> s, overall |-> Scores!Overall(s)]
      BY <2>1 DEF Scores!RecalculateScore
    <3>2. Scores!Sum(count, Scores!Rated) \in Nat
      <4>1. \A e \in Scores!Rated : e.value >= 0
        BY DEF Scores!Rated, Scores!Valued, Scores!OfType
      <4> QED BY <1>2, <4>1, TimedIs, TotalIs
    <3>3. /\ s \in [Scores!Dimension -> Int]
          /\ \A d \in Scores!Dimension : s[d] \in 0..Scores!Unit
      BY <1>2, <3>2, ScoreTyped
    <3> HIDE DEF s
    <3>4. Scores!Overall(s) \in 0..Scores!Unit
      BY <3>3, OverallWithin
    <3> QED BY <3>1, <3>3, <3>4
  <2>2. CASE Scores!Register
    BY <2>2 DEF Scores!Register
  <2>3. CASE UNCHANGED stored
    BY <1>2, <2>3
  <2> QED BY <1>2, <2>1, <2>2, <2>3
          DEF Scores!Next, Scores!RecordEvent, Scores!vars
<1>3. count \in Counts /\ Typed /\ RowsTyped => TypeOK
  BY DEF RowsTyped, TypeOK, Scores!TypeOK, Counts
<1>4. count \in Counts /\ Typed /\ [Scores!Next]_(Scores!vars) => Typed'
  BY <1>2
<1> HIDE DEF Typed
<1>5. Scores!Spec => [](count \in Counts /\ Typed)
  BY <1>1, <1>4, Counted, PTL DEF Scores!Spec
<1> QED BY <1>3, <1>5, RowsHold, PTL
=============================================================================
