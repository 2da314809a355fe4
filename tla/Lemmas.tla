------------------------------- MODULE Lemmas -------------------------------
(***************************************************************************)
(* Facts about the operators the models are built from, for the proofs     *)
(* about the models that use them.                                         *)
(*                                                                         *)
(* Sums: induction over the subsets of a finite set, definition by         *)
(* recursion on them, and from both what a sum is and how it changes with  *)
(* one term, with none and with the set.                                   *)
(*                                                                         *)
(* Folds: a fold along a sequence is an iteration of its step.             *)
(*                                                                         *)
(* The order book: what the matching loop leaves of the book (MatchShape), *)
(* and that inserting, matching, cancelling and replaying keep the lists   *)
(* of a book in order, duplicate-free and apart (GoodBook).                *)
(***************************************************************************)
EXTENDS OrderBook, Sums, TLAPS, FiniteSetTheorems, WellFoundedInduction

----------------------------------------------------------------------------
\* ----- induction
LEMMA SetInduct ==
    ASSUME NEW S, IsFiniteSet(S), NEW F, {} \in F,
           \A T \in SUBSET S : T # {} /\ (\A x \in T : T \ {x} \in F) => T \in F
    PROVE  SUBSET S \subseteq F
<1>1. SUFFICES ASSUME NEW U \in SUBSET S, U \notin F PROVE FALSE
  OBVIOUS
<1> DEFINE Out == {T \in SUBSET S : T \notin F}
<1>2. Out \subseteq FiniteSubsetsOf(S) /\ Out # {}
  BY <1>1, FS_FiniteSubsetsOfFinite
<1>3. PICK T \in Out : \A W \in Out : ~ (<<W, T>> \in StrictSubsetOrdering(S))
  <2> HIDE DEF Out
  <2> QED BY <1>2, FS_StrictSubsetOrderingWellFounded, WFMin, Zenon
<1>4. T # {} /\ T \in SUBSET S
  OBVIOUS
<1>5. ASSUME NEW x \in T PROVE T \ {x} \in F
  <2>1. SUFFICES ASSUME T \ {x} \notin F PROVE FALSE
    OBVIOUS
  <2>2. T \ {x} \in Out
    BY <1>4, <2>1
  <2>3. T \ {x} # T
    OBVIOUS
  <2>4. <<T \ {x}, T>> \in StrictSubsetOrdering(S)
    BY <1>4, <2>3, <2>2 DEF StrictSubsetOrdering
  <2> QED BY <1>3, <2>2, <2>4
<1> QED BY <1>3, <1>4, <1>5

LessThan == {ss \in Nat \X Nat : ss[1] < ss[2]}

LEMMA LessThanWF == IsWellFoundedOn(LessThan, Nat)
  BY NatLessThanWellFounded, Zenon DEF OpToRel, LessThan

LEMMA NatInduct ==
    ASSUME NEW T, 0 \in T, \A n \in Nat : n \in T => n + 1 \in T
    PROVE  Nat \subseteq T
<1> DEFINE Out == Nat \ T
<1>1. SUFFICES ASSUME Out # {} PROVE FALSE
  OBVIOUS
<1>2. PICK m \in Out : \A y \in Out : ~ (<<y, m>> \in LessThan)
  <2> Out \subseteq Nat
    OBVIOUS
  <2> HIDE DEF Out
  <2> QED BY <1>1, LessThanWF, WFMin, Zenon
<1>3. m \in Nat /\ m \notin T /\ m # 0
  OBVIOUS
<1>4. m - 1 \in Nat /\ (m - 1) + 1 = m /\ m - 1 < m
  BY <1>3
<1>5. m - 1 \in Out
  BY <1>3, <1>4
<1>6. <<m - 1, m>> \in LessThan
  BY <1>3, <1>4 DEF LessThan
<1> QED BY <1>2, <1>5, <1>6

\* ----- recursion on the subsets
PicksFrom(S, pick) == \A T \in SUBSET S : T # {} => pick[T] \in T
StaysIn(S, V, H) == \A T \in SUBSET S : \A v \in V : H[T][v] \in V
Recurses(S, base, pick, H, f) ==
    \A T \in SUBSET S : f[T] = IF T = {} THEN base ELSE H[T][f[T \ {pick[T]}]]

LEMMA RecursionOnSubsets ==
    ASSUME NEW S, IsFiniteSet(S), NEW V, NEW base \in V,
           NEW pick, PicksFrom(S, pick), NEW H, StaysIn(S, V, H)
    PROVE  \E f \in [SUBSET S -> V] : Recurses(S, base, pick, H, f)
<1> USE DEF PicksFrom, StaysIn
<1> DEFINE Holds(f, T) == f[T] = IF T = {} THEN base ELSE H[T][f[T \ {pick[T]}]]
           Upto(n) == {T \in SUBSET S : Cardinality(T) <= n}
           Good == {n \in Nat : \E f \in [SUBSET S -> V] : \A T \in Upto(n) : Holds(f, T)}
<1>0. \A T \in SUBSET S : IsFiniteSet(T) /\ Cardinality(T) \in Nat /\ (Cardinality(T) = 0 <=> T = {})
  BY FS_Subset, FS_CardinalityType, FS_EmptySet
<1>1. 0 \in Good
  <2> DEFINE f == [T \in SUBSET S |-> base]
  <2>1. f \in [SUBSET S -> V]
    OBVIOUS
  <2>2. ASSUME NEW T \in Upto(0) PROVE Holds(f, T)
    <3>1. T \in SUBSET S /\ Cardinality(T) = 0
      BY <1>0
    <3>2. T = {}
      BY <3>1, <1>0
    <3> QED BY <3>1, <3>2
  <2> QED BY <2>1, <2>2
<1>2. ASSUME NEW n \in Nat, n \in Good PROVE n + 1 \in Good
  <2>1. PICK f \in [SUBSET S -> V] : \A T \in Upto(n) : Holds(f, T)
    BY <1>2
  <2> DEFINE g == [T \in SUBSET S |-> IF Cardinality(T) = n + 1 THEN H[T][f[T \ {pick[T]}]] ELSE f[T]]
  <2>2. g \in [SUBSET S -> V]
    OBVIOUS
  <2>3. ASSUME NEW T \in Upto(n + 1) PROVE Holds(g, T)
    <3>1. T \in SUBSET S /\ Cardinality(T) \in Nat /\ Cardinality(T) <= n + 1
      BY <1>0
    <3>2. CASE T = {}
      <4>1. Cardinality(T) = 0
        BY <1>0, <3>1, <3>2
      <4>2. T \in Upto(n)
        BY <4>1, <3>1
      <4>3. Holds(f, T)
        BY <4>2, <2>1
      <4>4. g[T] = f[T]
        BY <4>1, <3>1
      <4> QED BY <4>3, <4>4, <3>2
    <3>3. CASE T # {}
      <4>1. pick[T] \in T /\ T \ {pick[T]} \in SUBSET S
        BY <3>3, <3>1
      <4>2. Cardinality(T \ {pick[T]}) = Cardinality(T) - 1
        BY <4>1, <1>0, <3>1, FS_RemoveElement
      <4>3. g[T \ {pick[T]}] = f[T \ {pick[T]}]
        BY <4>1, <4>2, <3>1
      <4>4. CASE Cardinality(T) = n + 1
        BY <4>3, <4>4, <3>1, <3>3
      <4>5. CASE Cardinality(T) # n + 1
        <5>1. T \in Upto(n) BY <4>5, <3>1
        <5>2. Holds(f, T) BY <5>1, <2>1
        <5> QED BY <5>2, <4>3, <4>5, <3>1, <3>3
      <4> QED BY <4>4, <4>5
    <3> QED BY <3>2, <3>3
  <2>4. \A T \in Upto(n + 1) : Holds(g, T)
    BY <2>3
  <2> HIDE DEF g, Holds, Upto
  <2>5. \E h \in [SUBSET S -> V] : \A T \in Upto(n + 1) : Holds(h, T)
    BY <2>2, <2>4
  <2> QED BY <2>5
<1>3. Cardinality(S) \in Good
  <2> HIDE DEF Good
  <2> QED BY <1>0, <1>1, <1>2, NatInduct
<1>4. PICK f \in [SUBSET S -> V] : \A T \in Upto(Cardinality(S)) : Holds(f, T)
  BY <1>3
<1>5. \A T \in SUBSET S : T \in Upto(Cardinality(S))
  BY FS_Subset
<1>6. Recurses(S, base, pick, H, f)
  BY <1>4, <1>5 DEF Recurses
<1> QED BY <1>6

\* ----- sums
SumStep(f, T, g) == IF T = {} THEN 0
                    ELSE f[CHOOSE x \in T : TRUE] + g[T \ {CHOOSE x \in T : TRUE}]

LEMMA SumIterates ==
    ASSUME NEW S, IsFiniteSet(S), NEW f, \A x \in S : f[x] \in Int
    PROVE  \E g \in [SUBSET S -> Int] : /\ g = [T \in SUBSET S |-> SumStep(f, T, g)]
                                        /\ SumOver(f, S) = g[S]
<1> DEFINE pick == [T \in SUBSET S |-> CHOOSE x \in T : TRUE]
           H == [T \in SUBSET S |-> [v \in Int |-> IF T = {} THEN v ELSE f[pick[T]] + v]]
           Iter(g) == g = [T \in SUBSET S |-> SumStep(f, T, g)]
<1>1. \A T \in SUBSET S : T # {} => pick[T] \in T
  OBVIOUS
<1>2. \A T \in SUBSET S : \A v \in Int : H[T][v] \in Int
  BY <1>1
<1>3. PICK g \in [SUBSET S -> Int] : Recurses(S, 0, pick, H, g)
  <2>1. 0 \in Int /\ PicksFrom(S, pick) /\ StaysIn(S, Int, H)
    BY <1>1, <1>2 DEF PicksFrom, StaysIn
  <2> HIDE DEF pick, H
  <2> QED BY <2>1, RecursionOnSubsets
<1>5. Iter(g)
  <2>1. \A T \in SUBSET S : g[T] = SumStep(f, T, g)
    BY <1>1, <1>3 DEF SumStep, Recurses
  <2> QED BY <2>1
<1> DEFINE c == CHOOSE h : Iter(h)
<1>6. Iter(c)
  <2> HIDE DEF Iter
  <2> QED BY <1>5
<1>7. SumOver(f, S) = c[S]
  BY DEF SumOver, FoldFunctionOnSet, MapThenFoldSet, SumStep
<1>8. c \in [SUBSET S -> Int]
  <2> DEFINE F == {T \in SUBSET S : c[T] \in Int}
  <2>1. c = [T \in SUBSET S |-> SumStep(f, T, c)]
    BY <1>6
  <2> HIDE DEF c
  <2>2. {} \in F
    BY <2>1 DEF SumStep
  <2>3. ASSUME NEW T \in SUBSET S, T # {}, \A x \in T : T \ {x} \in F
        PROVE  T \in F
    <3>1. PICK x \in T : x = CHOOSE y \in T : TRUE
      BY <2>3
    <3>2. c[T] = f[x] + c[T \ {x}]
      BY <2>1, <2>3, <3>1 DEF SumStep
    <3>3. c[T \ {x}] \in Int /\ f[x] \in Int
      BY <2>3, <3>1
    <3>4. c[T] \in Int
      BY <3>2, <3>3
    <3> QED BY <2>3, <3>4
  <2>4. SUBSET S \subseteq F
    <3> HIDE DEF F
    <3> QED BY <2>2, <2>3, SetInduct
  <2>5. c = [T \in SUBSET S |-> c[T]]
    BY <2>1
  <2>6. \A T \in SUBSET S : c[T] \in Int
    BY <2>4
  <2> QED BY <2>5, <2>6
<1> HIDE DEF c
<1> QED BY <1>6, <1>7, <1>8

\* The sum of a subset, from any iteration over a superset.
LEMMA SumOfSubset ==
    ASSUME NEW S, IsFiniteSet(S), NEW f, \A x \in S : f[x] \in Int,
           NEW g, g = [T \in SUBSET S |-> SumStep(f, T, g)],
           NEW U \in SUBSET S
    PROVE  SumOver(f, U) = g[U]
<1>1. IsFiniteSet(U) /\ \A x \in U : f[x] \in Int
  BY FS_Subset
<1>2. PICK h \in [SUBSET U -> Int] : /\ h = [T \in SUBSET U |-> SumStep(f, T, h)]
                                     /\ SumOver(f, U) = h[U]
  BY <1>1, SumIterates
<1> DEFINE F == {T \in SUBSET U : h[T] = g[T]}
<1>3. {} \in F
  BY <1>2 DEF SumStep
<1>4. ASSUME NEW T \in SUBSET U, T # {}, \A x \in T : T \ {x} \in F
      PROVE  T \in F
  <2>1. PICK x \in T : x = CHOOSE y \in T : TRUE
    BY <1>4
  <2>2. h[T] = f[x] + h[T \ {x}]
    BY <1>2, <1>4, <2>1 DEF SumStep
  <2>3. g[T] = f[x] + g[T \ {x}]
    BY <1>4, <2>1 DEF SumStep
  <2> QED BY <1>4, <2>2, <2>3
<1>5. SUBSET U \subseteq F
  <2> HIDE DEF F
  <2> QED BY <1>1, <1>3, <1>4, SetInduct
<1> QED BY <1>2, <1>5

LEMMA SumEmpty == ASSUME NEW f PROVE SumOver(f, {}) = 0
<1>1. PICK g \in [SUBSET {} -> Int] : /\ g = [T \in SUBSET {} |-> SumStep(f, T, g)]
                                      /\ SumOver(f, {}) = g[{}]
  BY FS_EmptySet, SumIterates
<1> QED BY <1>1 DEF SumStep

LEMMA SumType ==
    ASSUME NEW S, IsFiniteSet(S), NEW f, \A x \in S : f[x] \in Int
    PROVE  SumOver(f, S) \in Int
<1>1. PICK g \in [SUBSET S -> Int] : SumOver(f, S) = g[S]
  BY SumIterates
<1> QED BY <1>1

\* One element apart, whichever it is.
LEMMA SumRemove ==
    ASSUME NEW S, IsFiniteSet(S), NEW f, \A x \in S : f[x] \in Int, NEW x \in S
    PROVE  SumOver(f, S) = f[x] + SumOver(f, S \ {x})
<1>1. PICK g \in [SUBSET S -> Int] : /\ g = [T \in SUBSET S |-> SumStep(f, T, g)]
                                      /\ SumOver(f, S) = g[S]
  BY SumIterates
<1>2. ASSUME NEW T \in SUBSET S PROVE SumOver(f, T) = g[T] /\ g[T] \in Int
  <2>1. g = [U \in SUBSET S |-> SumStep(f, U, g)]
    BY <1>1
  <2> QED BY <1>1, <2>1, SumOfSubset
<1> DEFINE F == {T \in SUBSET S : \A y \in T : g[T] = f[y] + g[T \ {y}]}
<1>3. {} \in F
  OBVIOUS
<1>4. ASSUME NEW T \in SUBSET S, T # {}, \A y \in T : T \ {y} \in F
      PROVE  T \in F
  <2>1. PICK z \in T : z = CHOOSE y \in T : TRUE
    BY <1>4
  <2>2. g[T] = f[z] + g[T \ {z}]
    BY <1>1, <1>4, <2>1 DEF SumStep
  <2>3. ASSUME NEW y \in T, y # z PROVE g[T] = f[y] + g[T \ {y}]
    <3>1. PICK W \in SUBSET S : W = (T \ {z}) \ {y}
      OBVIOUS
    <3>2. g[T \ {z}] = f[y] + g[W]
      BY <1>4, <2>3, <3>1
    <3>3. W = (T \ {y}) \ {z}
      BY <3>1
    <3>4. g[T \ {y}] = f[z] + g[W]
      BY <1>4, <2>3, <3>3
    <3>5. f[y] \in Int /\ f[z] \in Int /\ g[W] \in Int
      BY <1>2
    <3> HIDE DEF F
    <3> QED BY <2>2, <3>2, <3>4, <3>5
  <2>4. \A y \in T : g[T] = f[y] + g[T \ {y}]
    BY <2>2, <2>3
  <2> QED BY <2>4
<1>5. SUBSET S \subseteq F
  <2> HIDE DEF F
  <2> QED BY <1>3, <1>4, SetInduct
<1>6. g[S] = f[x] + g[S \ {x}]
  BY <1>5
<1> QED BY <1>2, <1>6

\* Only the values on the set count.
LEMMA SumSame ==
    ASSUME NEW S, IsFiniteSet(S), NEW f, \A x \in S : f[x] \in Int,
           NEW h, \A x \in S : h[x] = f[x]
    PROVE  SumOver(h, S) = SumOver(f, S)
<1>1. PICK g \in [SUBSET S -> Int] : /\ g = [T \in SUBSET S |-> SumStep(f, T, g)]
                                      /\ SumOver(f, S) = g[S]
  BY SumIterates
<1>2. g = [T \in SUBSET S |-> SumStep(h, T, g)]
  <2>1. ASSUME NEW T \in SUBSET S PROVE SumStep(h, T, g) = SumStep(f, T, g)
    <3>1. T # {} => (CHOOSE y \in T : TRUE) \in T
      OBVIOUS
    <3> QED BY <3>1 DEF SumStep
  <2> QED BY <1>1, <2>1
<1>3. \A x \in S : h[x] \in Int
  OBVIOUS
<1>4. S \in SUBSET S
  OBVIOUS
<1>5. SumOver(h, S) = g[S]
  BY <1>2, <1>3, <1>4, SumOfSubset
<1> QED BY <1>1, <1>5

\* One value changed.
LEMMA SumChange ==
    ASSUME NEW S, IsFiniteSet(S), NEW f, \A y \in S : f[y] \in Int,
           NEW x \in S, NEW h, h[x] \in Int, \A y \in S \ {x} : h[y] = f[y]
    PROVE  SumOver(h, S) = SumOver(f, S) - f[x] + h[x]
<1>1. IsFiniteSet(S \ {x})
  BY FS_RemoveElement
<1>2. SumOver(h, S \ {x}) = SumOver(f, S \ {x})
  BY <1>1, SumSame
<1>3. SumOver(f, S) = f[x] + SumOver(f, S \ {x})
  BY SumRemove
<1>4. SumOver(h, S) = h[x] + SumOver(h, S \ {x})
  BY SumRemove
<1>5. SumOver(f, S \ {x}) \in Int
  BY <1>1, SumType
<1> QED BY <1>2, <1>3, <1>4, <1>5

LEMMA SumNat ==
    ASSUME NEW S, IsFiniteSet(S), NEW f, \A x \in S : f[x] \in Nat
    PROVE  SumOver(f, S) \in Nat
<1>1. \A x \in S : f[x] \in Int
  OBVIOUS
<1> DEFINE F == {T \in SUBSET S : SumOver(f, T) \in Nat}
<1>2. {} \in F
  BY SumEmpty
<1>3. ASSUME NEW T \in SUBSET S, T # {}, \A y \in T : T \ {y} \in F
      PROVE  T \in F
  <2>1. PICK y \in T : TRUE
    BY <1>3
  <2>2. SumOver(f, T) = f[y] + SumOver(f, T \ {y})
    BY <1>1, FS_Subset, SumRemove
  <2> QED BY <1>3, <2>2
<1>4. SUBSET S \subseteq F
  <2> HIDE DEF F
  <2> QED BY <1>2, <1>3, SetInduct
<1> QED BY <1>4

\* Elements that count for nothing.
LEMMA SumZeros ==
    ASSUME NEW S, IsFiniteSet(S), NEW f, \A x \in S : f[x] \in Int,
           NEW T \in SUBSET S, \A x \in S \ T : f[x] = 0
    PROVE  SumOver(f, S) = SumOver(f, T)
<1> DEFINE D == S \ T
           F == {U \in SUBSET D : SumOver(f, T \cup U) = SumOver(f, T)}
<1>0. IsFiniteSet(D)
  BY FS_Subset
<1>1. {} \in F
  <2>1. T \cup {} = T OBVIOUS
  <2> QED BY <2>1
<1>2. ASSUME NEW U \in SUBSET D, U # {}, \A y \in U : U \ {y} \in F
      PROVE  U \in F
  <2>1. PICK y \in U : TRUE
    BY <1>2
  <2>2. (T \cup U) \ {y} = T \cup (U \ {y}) /\ T \cup U \in SUBSET S
    OBVIOUS
  <2>3. IsFiniteSet(T \cup U) /\ IsFiniteSet(T)
    BY <2>2, FS_Subset
  <2>4. SumOver(f, T \cup U) = f[y] + SumOver(f, T \cup (U \ {y}))
    BY <2>2, <2>3, SumRemove
  <2>5. SumOver(f, T \cup (U \ {y})) = SumOver(f, T) /\ f[y] = 0
    BY <1>2
  <2>6. SumOver(f, T) \in Int
    BY <2>3, SumType
  <2> QED BY <2>4, <2>5, <2>6
<1>3. SUBSET D \subseteq F
  <2> HIDE DEF F, D
  <2> QED BY <1>0, <1>1, <1>2, SetInduct
<1>4. T \cup D = S /\ D \in F
  BY <1>3
<1> QED BY <1>4

LEMMA SumAdd ==
    ASSUME NEW S, IsFiniteSet(S), NEW x, x \notin S, NEW U, U = S \cup {x},
           NEW f, \A y \in U : f[y] \in Int
    PROVE  SumOver(f, U) = SumOver(f, S) + f[x]
<1>1. IsFiniteSet(U) /\ x \in U
  BY FS_AddElement
<1>2. SumOver(f, U) = f[x] + SumOver(f, U \ {x})
  BY <1>1, SumRemove
<1>3. U \ {x} = S
  OBVIOUS
<1>4. SumOver(f, U) = f[x] + SumOver(f, S)
  BY <1>2, <1>3
<1>5. SumOver(f, S) \in Int /\ f[x] \in Int
  BY SumType
<1> QED BY <1>4, <1>5

LEMMA SumChangeTwo ==
    ASSUME NEW S, IsFiniteSet(S), NEW f, \A y \in S : f[y] \in Int,
           NEW x \in S, NEW z \in S, x # z,
           NEW h, h[x] \in Int, h[z] \in Int, \A y \in S \ {x, z} : h[y] = f[y]
    PROVE  SumOver(h, S) = SumOver(f, S) - f[x] - f[z] + h[x] + h[z]
<1> DEFINE m == [y \in S |-> IF y = x THEN h[x] ELSE f[y]]
<1>1. \A y \in S : m[y] \in Int
  OBVIOUS
<1>2. m[x] = h[x] /\ \A y \in S \ {x} : m[y] = f[y]
  OBVIOUS
<1>3. m[z] = f[z] /\ \A y \in S \ {z} : h[y] = m[y]
  OBVIOUS
<1> HIDE DEF m
<1>4. SumOver(m, S) = SumOver(f, S) - f[x] + m[x]
  BY <1>1, <1>2, SumChange
<1>5. SumOver(h, S) = SumOver(m, S) - m[z] + h[z]
  BY <1>1, <1>3, SumChange
<1>6. SumOver(f, S) \in Int
  BY SumType
<1> QED BY <1>2, <1>3, <1>4, <1>5, <1>6

LEMMA SumMember ==
    ASSUME NEW S, IsFiniteSet(S), NEW f, \A y \in S : f[y] \in Nat, NEW x \in S
    PROVE  f[x] <= SumOver(f, S)
<1>1. SumOver(f, S) = f[x] + SumOver(f, S \ {x})
  BY SumRemove
<1>2. SumOver(f, S \ {x}) \in Nat
  BY FS_RemoveElement, SumNat
<1> QED BY <1>1, <1>2

LEMMA SumOfZeros ==
    ASSUME NEW S, IsFiniteSet(S), NEW f, \A y \in S : f[y] = 0
    PROVE  SumOver(f, S) = 0
<1>1. SumOver(f, S) = SumOver(f, {})
  BY SumZeros
<1> QED BY <1>1, SumEmpty

\* A part of a set sums to no more.
LEMMA SumOfPart ==
    ASSUME NEW S, IsFiniteSet(S), NEW f, \A x \in S : f[x] \in Nat, NEW Q \in SUBSET S
    PROVE  SumOver(f, Q) <= SumOver(f, S)
<1> DEFINE D == S \ Q
           F == {U \in SUBSET D : SumOver(f, Q) <= SumOver(f, Q \cup U)}
<1>0. IsFiniteSet(D) /\ IsFiniteSet(Q)
  BY FS_Subset
<1>1. {} \in F
  <2>1. Q \cup {} = Q OBVIOUS
  <2>2. SumOver(f, Q) \in Nat
    BY <1>0, SumNat
  <2> QED BY <2>1, <2>2
<1>2. ASSUME NEW U \in SUBSET D, U # {}, \A y \in U : U \ {y} \in F
      PROVE  U \in F
  <2>1. PICK y \in U : TRUE
    BY <1>2
  <2>2. (Q \cup U) \ {y} = Q \cup (U \ {y}) /\ Q \cup U \in SUBSET S
    OBVIOUS
  <2>3. PICK V, W : V = Q \cup U /\ W = Q \cup (U \ {y}) /\ W = V \ {y} /\ V \in SUBSET S /\ W \in SUBSET S
                    /\ y \in V
    BY <2>2
  <2>4. IsFiniteSet(V) /\ IsFiniteSet(W) /\ \A x \in V : f[x] \in Int
    BY <2>3, FS_Subset
  <2>5. SumOver(f, V) = f[y] + SumOver(f, W)
    BY <2>3, <2>4, SumRemove
  <2>6. SumOver(f, Q) <= SumOver(f, W) /\ f[y] \in Nat
    BY <1>2, <2>3
  <2>7. SumOver(f, W) \in Nat /\ SumOver(f, Q) \in Nat
    BY <1>0, <2>3, <2>4, SumNat
  <2>8. SumOver(f, Q) <= SumOver(f, V)
    BY <2>5, <2>6, <2>7
  <2> QED BY <2>3, <2>8
<1>3. SUBSET D \subseteq F
  <2> HIDE DEF F, D
  <2> QED BY <1>0, <1>1, <1>2, SetInduct
<1>4. Q \cup D = S /\ D \in F
  BY <1>3
<1> QED BY <1>4

\* A part of a set and the rest of it.
LEMMA SumUnion ==
    ASSUME NEW S, IsFiniteSet(S), NEW f, \A x \in S : f[x] \in Int, NEW T \in SUBSET S,
           NEW D, D = S \ T
    PROVE  SumOver(f, S) = SumOver(f, T) + SumOver(f, D)
<1> DEFINE F == {U \in SUBSET D : SumOver(f, T \cup U) = SumOver(f, T) + SumOver(f, U)}
<1>0. IsFiniteSet(D) /\ IsFiniteSet(T) /\ SumOver(f, T) \in Int
  <2>1. IsFiniteSet(D) /\ IsFiniteSet(T) /\ \A x \in T : f[x] \in Int
    BY FS_Subset
  <2> QED BY <2>1, SumType
<1>1. {} \in F
  <2>1. T \cup {} = T /\ SumOver(f, {}) = 0
    BY SumEmpty
  <2> QED BY <1>0, <2>1
<1>2. ASSUME NEW U \in SUBSET D, U # {}, \A y \in U : U \ {y} \in F
      PROVE  U \in F
  <2>1. PICK y \in U : TRUE
    BY <1>2
  <2>2. PICK V, W, X : V = T \cup U /\ W = T \cup (U \ {y}) /\ X = U \ {y}
    OBVIOUS
  <2>3. /\ V \in SUBSET S /\ W = V \ {y} /\ y \in V /\ X \in SUBSET S /\ U \in SUBSET S
    BY <2>2
  <2>4. IsFiniteSet(V) /\ IsFiniteSet(U) /\ IsFiniteSet(X)
    BY <2>3, FS_Subset
  <2>5. (\A x \in V : f[x] \in Int) /\ (\A x \in U : f[x] \in Int) /\ \A x \in X : f[x] \in Int
    BY <2>3
  <2>6. SumOver(f, V) = f[y] + SumOver(f, W)
    BY <2>3, <2>4, <2>5, SumRemove
  <2>7. SumOver(f, U) = f[y] + SumOver(f, X)
    BY <2>2, <2>4, <2>5, SumRemove
  <2>8. SumOver(f, W) = SumOver(f, T) + SumOver(f, X)
    BY <1>2, <2>2
  <2>9. SumOver(f, X) \in Int /\ f[y] \in Int
    BY <2>4, <2>5, SumType
  <2>10. SumOver(f, V) = SumOver(f, T) + SumOver(f, U)
    BY <1>0, <2>6, <2>7, <2>8, <2>9
  <2> QED BY <2>2, <2>10
<1>3. SUBSET D \subseteq F
  <2> HIDE DEF F
  <2> QED BY <1>0, <1>1, <1>2, SetInduct
<1>4. T \cup D = S /\ D \in F
  BY <1>3
<1> QED BY <1>4

\* A part of a set, and the rest counted as nothing.
LEMMA TotalOfPart ==
    ASSUME NEW S, IsFiniteSet(S), NEW T \in SUBSET S,
           NEW f, DOMAIN f = T, \A x \in T : f[x] \in Int,
           NEW h, \A x \in S : h[x] = IF x \in T THEN f[x] ELSE 0
    PROVE  Total(f) = SumOver(h, S)
<1>1. \A x \in S : h[x] \in Int
  OBVIOUS
<1>2. \A x \in S \ T : h[x] = 0
  OBVIOUS
<1>3. SumOver(h, S) = SumOver(h, T)
  BY <1>1, <1>2, SumZeros
<1>4. IsFiniteSet(T) /\ \A x \in T : h[x] = f[x]
  BY FS_Subset
<1>5. SumOver(h, T) = SumOver(f, T)
  BY <1>4, SumSame
<1> QED BY <1>3, <1>5 DEF Total

LEMMA SumAppend ==
    ASSUME NEW n \in Nat, NEW f, \A j \in 1..(n + 1) : f[j] \in Int
    PROVE  SumOver(f, 1..(n + 1)) = SumOver(f, 1..n) + f[n + 1]
<1>1. IsFiniteSet(1..n) /\ n + 1 \notin 1..n /\ 1..(n + 1) = (1..n) \cup {n + 1}
  BY FS_Interval
<1>2. PICK U, x : U = 1..(n + 1) /\ x = n + 1
  OBVIOUS
<1>3. /\ IsFiniteSet(1..n) /\ x \notin 1..n /\ U = (1..n) \cup {x}
      /\ \A j \in U : f[j] \in Int
  BY <1>1, <1>2
<1>4. SumOver(f, U) = SumOver(f, 1..n) + f[x]
  BY <1>3, SumAdd, ZenonT(60)
<1> QED BY <1>2, <1>4

\* A sequence without its head.
LEMMA SumShift ==
    ASSUME NEW n \in Nat, NEW f, \A j \in 1..(n + 1) : f[j] \in Int,
           NEW g, \A j \in 1..n : g[j] = f[j + 1]
    PROVE  SumOver(f, 1..(n + 1)) = f[1] + SumOver(g, 1..n)
<1> DEFINE T == {m \in Nat : m <= n => SumOver(f, 1..(m + 1)) = f[1] + SumOver(g, 1..m)}
<1>1. 0 \in T
  <2>1. 1..(0 + 1) = 1..0 \cup {1} /\ 1..0 = {} /\ 1 \in 1..(n + 1)
    OBVIOUS
  <2>2. f[1] \in Int
    BY <2>1
  <2>3. SumOver(f, {1}) = SumOver(f, {}) + f[1]
    BY <2>2, FS_EmptySet, SumAdd
  <2>4. SumOver(f, 1..(0 + 1)) = f[1] + SumOver(g, 1..0)
    BY <2>1, <2>2, <2>3, SumEmpty
  <2> QED BY <2>4
<1>2. ASSUME NEW m \in Nat, m \in T PROVE m + 1 \in T
  <2> SUFFICES ASSUME m + 1 <= n
               PROVE  SumOver(f, 1..((m + 1) + 1)) = f[1] + SumOver(g, 1..(m + 1))
    OBVIOUS
  <2>1. SumOver(f, 1..(m + 1)) = f[1] + SumOver(g, 1..m)
    BY <1>2
  <2>2. SumOver(f, 1..((m + 1) + 1)) = SumOver(f, 1..(m + 1)) + f[(m + 1) + 1]
    <3>1. \A j \in 1..((m + 1) + 1) : f[j] \in Int
      OBVIOUS
    <3> QED BY <3>1, SumAppend
  <2>3. SumOver(g, 1..(m + 1)) = SumOver(g, 1..m) + g[m + 1]
    <3>1. \A j \in 1..(m + 1) : g[j] \in Int
      <4> TAKE j \in 1..(m + 1)
      <4>1. j \in 1..n /\ j + 1 \in 1..(n + 1)
        OBVIOUS
      <4> QED BY <4>1
    <3> QED BY <3>1, SumAppend
  <2>4. g[m + 1] = f[(m + 1) + 1]
    OBVIOUS
  <2>5. SumOver(g, 1..m) \in Int /\ f[1] \in Int /\ f[(m + 1) + 1] \in Int
    <3>1. IsFiniteSet(1..m)
      BY FS_Interval
    <3>2. \A j \in 1..m : g[j] \in Int
      <4> TAKE j \in 1..m
      <4>1. j \in 1..n /\ j + 1 \in 1..(n + 1)
        OBVIOUS
      <4> QED BY <4>1
    <3>3. SumOver(g, 1..m) \in Int
      BY <3>1, <3>2, SumType
    <3>4. f[1] \in Int /\ f[(m + 1) + 1] \in Int
      OBVIOUS
    <3> QED BY <3>3, <3>4
  <2> QED BY <2>1, <2>2, <2>3, <2>4, <2>5
<1>3. n \in T
  <2> HIDE DEF T
  <2> QED BY <1>1, <1>2, NatInduct
<1> QED BY <1>3

\* ----- sums along a sequence of what each element weighs
SumAlong(s, w) == SumOver([i \in DOMAIN s |-> w[s[i]]], DOMAIN s)

LEMMA SeqDomain ==
    ASSUME NEW T, NEW s \in Seq(T)
    PROVE  /\ Len(s) \in Nat /\ DOMAIN s = 1..Len(s) /\ IsFiniteSet(DOMAIN s)
           /\ \A i \in DOMAIN s : s[i] \in T
<1>1. Len(s) \in Nat /\ DOMAIN s = 1..Len(s) /\ \A i \in DOMAIN s : s[i] \in T
  OBVIOUS
<1> QED BY <1>1, FS_Interval

LEMMA AlongType ==
    ASSUME NEW T, NEW s \in Seq(T), NEW w \in [T -> Int]
    PROVE  SumAlong(s, w) \in Int
<1> DEFINE f == [i \in DOMAIN s |-> w[s[i]]]
<1>1. \A i \in DOMAIN s : f[i] \in Int
  BY SeqDomain
<1>2. IsFiniteSet(DOMAIN s)
  BY SeqDomain
<1> HIDE DEF f
<1> QED BY <1>1, <1>2, SumType DEF SumAlong, f

LEMMA AlongMember ==
    ASSUME NEW T, NEW s \in Seq(T), NEW w \in [T -> Int],
           \A i \in DOMAIN s : w[s[i]] \in Nat
    PROVE  /\ SumAlong(s, w) \in Nat
           /\ \A i \in DOMAIN s : w[s[i]] <= SumAlong(s, w)
<1> DEFINE f == [i \in DOMAIN s |-> w[s[i]]]
<1>1. \A i \in DOMAIN s : f[i] \in Nat /\ f[i] = w[s[i]]
  OBVIOUS
<1>2. IsFiniteSet(DOMAIN s)
  BY SeqDomain
<1>3. SumAlong(s, w) = SumOver(f, DOMAIN s)
  BY DEF SumAlong
<1> HIDE DEF f
<1>4. SumOver(f, DOMAIN s) \in Nat
  BY <1>1, <1>2, SumNat
<1>5. \A i \in DOMAIN s : f[i] <= SumOver(f, DOMAIN s)
  BY <1>1, <1>2, SumMember
<1> QED BY <1>1, <1>3, <1>4, <1>5

\* Elements that weigh the same.
LEMMA AlongSame ==
    ASSUME NEW s, NEW t, DOMAIN t = DOMAIN s, NEW w,
           \A i \in DOMAIN s : w[t[i]] = w[s[i]]
    PROVE  SumAlong(t, w) = SumAlong(s, w)
<1>1. [i \in DOMAIN t |-> w[t[i]]] = [i \in DOMAIN s |-> w[s[i]]]
  OBVIOUS
<1> QED BY <1>1 DEF SumAlong

OnlyAt(i, s, t) == DOMAIN t = DOMAIN s /\ i \in DOMAIN s /\ \A j \in DOMAIN s \ {i} : t[j] = s[j]
Differs(s, t, w, i) == SumAlong(t, w) = SumAlong(s, w) - w[s[i]] + w[t[i]]

LEMMA AlongDiffers ==
    ASSUME NEW T, NEW s \in Seq(T), NEW t \in Seq(T), NEW w \in [T -> Int],
           NEW i, OnlyAt(i, s, t)
    PROVE  Differs(s, t, w, i)
<1> USE DEF OnlyAt
<1> DEFINE f == [j \in DOMAIN s |-> w[s[j]]]
           g == [j \in DOMAIN s |-> w[t[j]]]
<1>1. \A j \in DOMAIN s : f[j] \in Int /\ g[j] \in Int
  BY SeqDomain
<1>2. \A j \in DOMAIN s \ {i} : g[j] = f[j]
  OBVIOUS
<1>3. PICK S : S = DOMAIN s /\ IsFiniteSet(S)
  BY SeqDomain
<1>4. f[i] = w[s[i]] /\ g[i] = w[t[i]]
  OBVIOUS
<1>5. SumAlong(s, w) = SumOver(f, S) /\ SumAlong(t, w) = SumOver(g, S)
  BY <1>3 DEF SumAlong
<1> HIDE DEF f, g
<1>6. /\ i \in S /\ \A j \in S : f[j] \in Int
      /\ g[i] \in Int /\ \A j \in S \ {i} : g[j] = f[j]
  BY <1>1, <1>2, <1>3
<1>7. SumOver(g, S) = SumOver(f, S) - f[i] + g[i]
  <2>1. IsFiniteSet(S)
    BY <1>3
  <2>2. \A j \in S : f[j] \in Int
    BY <1>6
  <2>3. i \in S
    BY <1>6
  <2>4. g[i] \in Int
    BY <1>6
  <2>5. \A j \in S \ {i} : g[j] = f[j]
    BY <1>6
  <2> QED BY ONLY <2>1, <2>2, <2>3, <2>4, <2>5, SumChange
<1> QED BY <1>4, <1>5, <1>7 DEF Differs

LEMMA AlongChange ==
    ASSUME NEW T, NEW s \in Seq(T), NEW t \in Seq(T), DOMAIN t = DOMAIN s,
           NEW w \in [T -> Int],
           NEW i \in DOMAIN s, \A j \in DOMAIN s \ {i} : t[j] = s[j]
    PROVE  SumAlong(t, w) = SumAlong(s, w) - w[s[i]] + w[t[i]]
<1>1. OnlyAt(i, s, t)
  BY DEF OnlyAt
<1>2. Differs(s, t, w, i)
  BY <1>1, AlongDiffers
<1> QED BY <1>2 DEF Differs

LEMMA AlongChangeTwo ==
    ASSUME NEW T, NEW s \in Seq(T), NEW t \in Seq(T), DOMAIN t = DOMAIN s,
           NEW w \in [T -> Int],
           NEW i \in DOMAIN s, NEW l \in DOMAIN s, i # l,
           \A j \in DOMAIN s \ {i, l} : t[j] = s[j]
    PROVE  SumAlong(t, w) = SumAlong(s, w) - w[s[i]] - w[s[l]] + w[t[i]] + w[t[l]]
<1>1. PICK m : m = [s EXCEPT ![i] = t[i]]
  OBVIOUS
<1>2. t[i] \in T /\ m \in Seq(T) /\ DOMAIN m = DOMAIN s
  BY <1>1
<1>3. m[i] = t[i] /\ \A j \in DOMAIN s \ {i} : m[j] = s[j]
  BY <1>1
<1>4. m[l] = s[l] /\ l \in DOMAIN m /\ DOMAIN t = DOMAIN m
  BY <1>2, <1>3
<1>5. \A j \in DOMAIN m \ {l} : t[j] = m[j]
  BY <1>2, <1>3
<1>6. SumAlong(m, w) = SumAlong(s, w) - w[s[i]] + w[m[i]]
  <2>1. m \in Seq(T) /\ OnlyAt(i, s, m)
    BY <1>2, <1>3 DEF OnlyAt
  <2>2. Differs(s, m, w, i)
    BY <2>1, AlongDiffers
  <2> QED BY <2>2 DEF Differs
<1>7. SumAlong(t, w) = SumAlong(m, w) - w[m[l]] + w[t[l]]
  <2>1. m \in Seq(T) /\ OnlyAt(l, m, t)
    BY <1>2, <1>4, <1>5 DEF OnlyAt
  <2>2. Differs(m, t, w, l)
    BY <2>1, AlongDiffers
  <2> QED BY <2>2 DEF Differs
<1>8. /\ SumAlong(s, w) \in Int
      /\ w[s[i]] \in Int /\ w[s[l]] \in Int /\ w[t[i]] \in Int /\ w[t[l]] \in Int
  <2>1. t[l] \in T /\ s[i] \in T /\ s[l] \in T
    OBVIOUS
  <2>2. PICK f : f = [j \in DOMAIN s |-> w[s[j]]]
    OBVIOUS
  <2>3. \A j \in DOMAIN s : f[j] \in Int
    BY <2>2
  <2>4. SumOver(f, DOMAIN s) \in Int
    BY <2>3, SeqDomain, SumType
  <2> QED BY <1>2, <2>1, <2>2, <2>4 DEF SumAlong
<1> QED BY <1>3, <1>4, <1>6, <1>7, <1>8

\* A longer sequence, whose new elements weigh nothing.
LEMMA AlongFree ==
    ASSUME NEW T, NEW s \in Seq(T), NEW t \in Seq(T), DOMAIN s \subseteq DOMAIN t,
           \A i \in DOMAIN s : t[i] = s[i],
           NEW w \in [T -> Int],
           \A i \in DOMAIN t \ DOMAIN s : w[t[i]] = 0
    PROVE  SumAlong(t, w) = SumAlong(s, w)
<1> DEFINE f == [j \in DOMAIN s |-> w[s[j]]]
           g == [j \in DOMAIN t |-> w[t[j]]]
<1>1. \A j \in DOMAIN t : g[j] \in Int
  BY SeqDomain
<1>2. \A j \in DOMAIN s : f[j] \in Int /\ f[j] = g[j]
  BY <1>1
<1>3. PICK S, U : S = DOMAIN s /\ U = DOMAIN t /\ IsFiniteSet(S) /\ IsFiniteSet(U)
  BY SeqDomain
<1>4. S \in SUBSET U /\ \A j \in U \ S : g[j] = 0
  BY <1>3
<1>5. SumAlong(s, w) = SumOver(f, S) /\ SumAlong(t, w) = SumOver(g, U)
  BY <1>3 DEF SumAlong
<1> HIDE DEF f, g
<1>6. SumOver(g, U) = SumOver(g, S)
  BY <1>1, <1>3, <1>4, SumZeros
<1>7. SumOver(g, S) = SumOver(f, S)
  BY <1>2, <1>3, SumSame
<1> QED BY <1>5, <1>6, <1>7

LEMMA AlongAppend ==
    ASSUME NEW T, NEW s \in Seq(T), NEW x \in T, NEW w \in [T -> Int]
    PROVE  SumAlong(Append(s, x), w) = SumAlong(s, w) + w[x]
<1> DEFINE t == Append(s, x)
           n == Len(s)
           f == [i \in DOMAIN t |-> w[t[i]]]
           g == [i \in DOMAIN s |-> w[s[i]]]
<1>1. /\ n \in Nat /\ DOMAIN s = 1..n /\ DOMAIN t = 1..(n + 1)
      /\ t[n + 1] = x /\ \A j \in 1..n : t[j] = s[j]
      /\ t \in Seq(T)
  OBVIOUS
<1>2. \A j \in 1..(n + 1) : f[j] \in Int
  BY <1>1, SeqDomain
<1>3. \A j \in 1..n : f[j] = g[j]
  BY <1>1
<1>4. f[n + 1] = w[x]
  BY <1>1
<1>5. SumAlong(t, w) = SumOver(f, 1..(n + 1)) /\ SumAlong(s, w) = SumOver(g, 1..n)
  BY <1>1 DEF SumAlong
<1>6. \A j \in 1..n : g[j] \in Int
  BY <1>1, <1>2, <1>3
<1> HIDE DEF f, g, t, n
<1>7. SumOver(f, 1..(n + 1)) = SumOver(f, 1..n) + f[n + 1]
  BY <1>1, <1>2, SumAppend
<1>8. SumOver(f, 1..n) = SumOver(g, 1..n)
  <2>1. PICK S : S = 1..n /\ IsFiniteSet(S)
    BY <1>1, FS_Interval
  <2>2. SumOver(f, S) = SumOver(g, S)
    BY <1>6, <1>3, <2>1, SumSame
  <2> QED BY <2>1, <2>2
<1> QED BY <1>4, <1>5, <1>7, <1>8 DEF t

----------------------------------------------------------------------------
\* ----- folds along a sequence
LEMMA GreatestExists ==
    ASSUME NEW n \in Nat, NEW T \in SUBSET (1..n), T # {}
    PROVE  Max(T) \in T /\ \A y \in T : Max(T) >= y
<1> DEFINE S == 1..n
           F == {U \in SUBSET S : U = {} \/ \E x \in U : \A y \in U : x >= y}
<1>1. IsFiniteSet(S)
  BY FS_Interval
<1>2. {} \in F
  OBVIOUS
<1>3. ASSUME NEW U \in SUBSET S, U # {}, \A x \in U : U \ {x} \in F PROVE U \in F
  <2>1. PICK x \in U : TRUE
    BY <1>3
  <2>2. CASE U \ {x} = {}
    <3>1. \A y \in U : x >= y
      BY <2>1, <2>2
    <3> QED BY <3>1
  <2>3. CASE U \ {x} # {}
    <3>1. PICK z \in U \ {x} : \A y \in U \ {x} : z >= y
      BY <1>3, <2>3
    <3>2. CASE x >= z
      <4>1. \A y \in U : x >= y
        BY <3>1, <3>2
      <4> QED BY <4>1
    <3>3. CASE ~ (x >= z)
      <4>1. \A y \in U : z >= y
        BY <3>1, <3>3
      <4> QED BY <4>1
    <3> QED BY <3>2, <3>3
  <2> QED BY <2>2, <2>3
<1>4. SUBSET S \subseteq F
  <2> HIDE DEF S, F
  <2> QED BY <1>1, <1>2, <1>3, SetInduct
<1>5. \E x \in T : \A y \in T : x >= y
  BY <1>4
<1> QED BY <1>5 DEF Max

LEMMA GreatestOfInterval ==
    ASSUME NEW i \in Nat
    PROVE  Max(1..(i + 1)) = i + 1 /\ (1..(i + 1)) \ {i + 1} = 1..i
<1>1. PICK T : T = 1..(i + 1) /\ i + 1 \in T /\ T # {}
  OBVIOUS
<1>2. Max(T) \in T /\ \A y \in T : Max(T) >= y
  BY <1>1, i + 1 \in Nat, GreatestExists
<1>3. Max(T) = i + 1
  BY <1>1, <1>2
<1> QED BY <1>1, <1>3

\* The iteration behind a fold, given its steps as functions on the values V.
FoldsFrom(n, base, step, g) ==
    \A T \in SUBSET (1..n) :
        g[T] = IF T = {} THEN base ELSE step[Max(T)][g[T \ {Max(T)}]]

LEMMA FoldIterates ==
    ASSUME NEW n \in Nat, NEW V, NEW base \in V, NEW step,
           \A i \in 1..n : \A v \in V : step[i][v] \in V
    PROVE  \E g \in [SUBSET (1..n) -> V] : FoldsFrom(n, base, step, g)
<1> DEFINE S == 1..n
           pick == [T \in SUBSET S |-> Max(T)]
           H == [T \in SUBSET S |-> IF T = {} THEN [v \in V |-> v] ELSE step[Max(T)]]
<1>1. IsFiniteSet(S)
  BY FS_Interval
<1>2. PicksFrom(S, pick)
  BY GreatestExists DEF PicksFrom
<1>3. StaysIn(S, V, H)
  BY GreatestExists DEF StaysIn
<1>4. PICK g \in [SUBSET S -> V] : Recurses(S, base, pick, H, g)
  <2> HIDE DEF S, pick, H
  <2> QED BY <1>1, <1>2, <1>3, RecursionOnSubsets
<1>5. FoldsFrom(n, base, step, g)
  BY <1>4 DEF FoldsFrom, Recurses
<1> QED BY <1>5

\* ----- the rows of a book and the state of the matching loop
RestingIn(I, A) == [id : I, acct : A, side : Sides, price : Nat, qty : Nat \ {0}, total : Nat]
IncomingIn(I, A) == [id : I, acct : A, side : Sides, type : {"LIMIT", "MARKET"},
                     price : Nat, qty : Nat \ {0}]
FillsIn(I) == [price : Nat, qty : Nat, maker : I, taker : I]
ClosesIn(I) == [id : I, filled : Nat, status : {"FILLED", "CANCELED"}]
BooksIn(I, A, L) == [bids : Seq(RestingIn(I, A)), asks : Seq(RestingIn(I, A)), last : L]
LoopsIn(I, A, L) == [left : Nat, keep : Seq(RestingIn(I, A)), fills : Seq(FillsIn(I)),
                     closed : Seq(ClosesIn(I)), last : L, end : {"run", "done", "self"}]

LEMMA LesserOfTwo ==
    ASSUME NEW a \in Nat, NEW b \in Nat
    PROVE  Min({a, b}) = IF a <= b THEN a ELSE b
<1>1. CASE a <= b
  <2>1. a \in {a, b} /\ \A y \in {a, b} : a <= y
    BY <1>1
  <2>2. \A x \in {a, b} : (\A y \in {a, b} : x <= y) => x = a
    BY <1>1
  <2> QED BY <1>1, <2>1, <2>2 DEF Min
<1>2. CASE ~ (a <= b)
  <2>1. b \in {a, b} /\ \A y \in {a, b} : b <= y
    BY <1>2
  <2>2. \A x \in {a, b} : (\A y \in {a, b} : x <= y) => x = b
    BY <1>2
  <2> QED BY <1>2, <2>1, <2>2 DEF Min
<1> QED BY <1>1, <1>2

\* What one fill leaves.
FilledTo(inc, st, maker, q, t) ==
    /\ q = IF st.left <= maker.qty THEN st.left ELSE maker.qty
    /\ t = [left |-> st.left - q,
            keep |-> IF q = maker.qty THEN st.keep
                     ELSE Append(st.keep, [maker EXCEPT !.qty = maker.qty - q]),
            fills |-> Append(st.fills, [price |-> maker.price, qty |-> q,
                                        maker |-> maker.id, taker |-> inc.id]),
            closed |-> IF q = maker.qty
                       THEN Append(st.closed, ClosedFilled(maker)) ELSE st.closed,
            last |-> maker.price, end |-> st.end]

LEMMA FillIs ==
    ASSUME NEW I, NEW A, NEW L, NEW inc \in IncomingIn(I, A), NEW st \in LoopsIn(I, A, L),
           NEW maker \in RestingIn(I, A), NEW t, t = FillMaker(inc, st, maker)
    PROVE  \E q \in Nat : FilledTo(inc, st, maker, q, t)
<1>1. st.left \in Nat /\ maker.qty \in Nat
  BY DEF LoopsIn, RestingIn
<1>2. PICK q \in Nat : q = Min({st.left, maker.qty}) /\ q = IF st.left <= maker.qty THEN st.left ELSE maker.qty
  BY <1>1, LesserOfTwo
<1>3. FilledTo(inc, st, maker, q, t)
  BY <1>2 DEF FillMaker, LoopsIn, FilledTo
<1> QED BY <1>3

LEMMA FillType ==
    ASSUME NEW I, NEW A, NEW L, Nat \subseteq L,
           NEW inc \in IncomingIn(I, A), NEW st \in LoopsIn(I, A, L),
           NEW maker \in RestingIn(I, A)
    PROVE  FillMaker(inc, st, maker) \in LoopsIn(I, A, L)
<1>1. PICK t : t = FillMaker(inc, st, maker)
  OBVIOUS
<1>2. PICK q \in Nat : FilledTo(inc, st, maker, q, t)
  BY <1>1, FillIs
<1>3. st.left \in Nat /\ maker.qty \in Nat \ {0} /\ st.left - q \in Nat
  BY <1>2 DEF LoopsIn, RestingIn, FilledTo
<1>4. q # maker.qty => [maker EXCEPT !.qty = maker.qty - q] \in RestingIn(I, A)
  <2>1. q # maker.qty => maker.qty - q \in Nat \ {0}
    BY <1>2, <1>3 DEF FilledTo
  <2> QED BY <2>1 DEF RestingIn
<1>5. [price |-> maker.price, qty |-> q, maker |-> maker.id, taker |-> inc.id] \in FillsIn(I)
  BY DEF FillsIn, RestingIn, IncomingIn
<1>6. ClosedFilled(maker) \in ClosesIn(I)
  BY DEF ClosesIn, RestingIn, ClosedFilled
<1>7. t.keep \in Seq(RestingIn(I, A))
  <2>1. st.keep \in Seq(RestingIn(I, A))
    BY DEF LoopsIn
  <2> QED BY <1>2, <1>4, <2>1 DEF FilledTo
<1>8. t.fills \in Seq(FillsIn(I)) /\ t.closed \in Seq(ClosesIn(I))
  <2>1. st.fills \in Seq(FillsIn(I)) /\ st.closed \in Seq(ClosesIn(I))
    BY DEF LoopsIn
  <2> QED BY <1>2, <1>5, <1>6, <2>1 DEF FilledTo
<1>9. t.last \in L /\ t.end \in {"run", "done", "self"} /\ t.left \in Nat
  BY <1>2, <1>3 DEF LoopsIn, RestingIn, FilledTo
<1>10. t = [left |-> t.left, keep |-> t.keep, fills |-> t.fills, closed |-> t.closed,
            last |-> t.last, end |-> t.end]
  BY <1>2 DEF FilledTo
<1> QED BY <1>1, <1>7, <1>8, <1>9, <1>10 DEF LoopsIn

LEMMA KeepType ==
    ASSUME NEW I, NEW A, NEW L, NEW st \in LoopsIn(I, A, L), NEW maker \in RestingIn(I, A),
           NEW end \in {"run", "done", "self"}
    PROVE  KeepMaker(st, maker, end) \in LoopsIn(I, A, L)
<1>1. Append(st.keep, maker) \in Seq(RestingIn(I, A))
  BY DEF LoopsIn
<1> QED BY <1>1 DEF LoopsIn, KeepMaker

LEMMA MatchMakerType ==
    ASSUME NEW I, NEW A, NEW L, Nat \subseteq L,
           NEW inc \in IncomingIn(I, A), NEW st \in LoopsIn(I, A, L),
           NEW maker \in RestingIn(I, A)
    PROVE  MatchMaker(inc, st, maker) \in LoopsIn(I, A, L)
<1>1. st.end \in {"run", "done", "self"}
  BY DEF LoopsIn
<1> QED BY <1>1, FillType, KeepType DEF MatchMaker

\* ----- the loop, maker by maker
MatchStart(last, inc) ==
    [left |-> inc.qty, keep |-> <<>>, fills |-> <<>>, closed |-> <<>>, last |-> last, end |-> "run"]

MatchRun(list, last, inc, f) ==
    /\ f[0] = MatchStart(last, inc)
    /\ \A i \in 0..(Len(list) - 1) : f[i + 1] = MatchMaker(inc, f[i], list[i + 1])

MatchStep(start, list, inc, g, T) ==
    IF T = {} THEN start ELSE MatchMaker(inc, g[T \ {Max(T)}], list[Max(T)])

LEMMA MatchIterates ==
    ASSUME NEW I, NEW A, NEW L, Nat \subseteq L, NEW book \in BooksIn(I, A, L),
           NEW inc \in IncomingIn(I, A), NEW list, list = book[Opposite(inc.side)]
    PROVE  \E f \in [0..Len(list) -> LoopsIn(I, A, L)] :
              MatchRun(list, book.last, inc, f) /\ f[Len(list)] = MatchLoop(book, inc)
<1> DEFINE V == LoopsIn(I, A, L)
           n == Len(list)
           start == MatchStart(book.last, inc)
           step == [i \in 1..n |-> [v \in V |-> MatchMaker(inc, v, list[i])]]
           Iter(g) == g = [T \in SUBSET DOMAIN list |-> MatchStep(start, list, inc, g, T)]
<1>1. list \in Seq(RestingIn(I, A)) /\ n \in Nat /\ DOMAIN list = 1..n
  <2>1. list \in Seq(RestingIn(I, A))
    BY DEF BooksIn, IncomingIn, Opposite
  <2> QED BY <2>1
<1>2. start \in V
  BY DEF MatchStart, LoopsIn, BooksIn, IncomingIn
<1>3. \A i \in 1..n : \A v \in V : MatchMaker(inc, v, list[i]) \in V
  <2>1. \A i \in 1..n : list[i] \in RestingIn(I, A)
    BY <1>1
  <2> QED BY <2>1, MatchMakerType
<1>4. PICK g \in [SUBSET (1..n) -> V] : FoldsFrom(n, start, step, g)
  <2>1. \A i \in 1..n : \A v \in V : step[i][v] \in V
    BY <1>3
  <2> HIDE DEF V, start, step, n
  <2> QED BY <1>1, <1>2, <2>1, FoldIterates
<1>5. Iter(g)
  <2>1. \A T \in SUBSET (1..n) : T # {} => Max(T) \in 1..n /\ T \ {Max(T)} \in SUBSET (1..n)
    BY <1>1, GreatestExists
  <2>2. \A T \in SUBSET (1..n) : g[T] = MatchStep(start, list, inc, g, T)
    <3> TAKE T \in SUBSET (1..n)
    <3>1. CASE T = {}
      BY <3>1, <1>4 DEF FoldsFrom, MatchStep
    <3>2. CASE T # {}
      <4>1. PICK m \in 1..n : m = Max(T) /\ T \ {m} \in SUBSET (1..n)
        BY <2>1, <3>2
      <4>2. g[T] = step[m][g[T \ {m}]] /\ g[T \ {m}] \in V
        BY <1>4, <3>2, <4>1 DEF FoldsFrom
      <4>3. step[m][g[T \ {m}]] = MatchMaker(inc, g[T \ {m}], list[m])
        BY <4>2
      <4> QED BY <3>2, <4>1, <4>2, <4>3 DEF MatchStep
    <3> QED BY <3>1, <3>2
  <2> HIDE DEF V, start, step, n
  <2> QED BY <1>1, <2>2
<1> DEFINE c == CHOOSE h : Iter(h)
<1>6. Iter(c)
  <2> HIDE DEF Iter
  <2> QED BY <1>5
<1>7. MatchLoop(book, inc) = c[DOMAIN list]
  BY DEF MatchLoop, FoldLeft, MapThenFoldSet, MatchStep, MatchStart
<1> DEFINE f == [i \in 0..n |-> c[1..i]]
<1>8. f[0] = start
  <2>1. 1..0 = {} /\ 1..0 \in SUBSET (1..n) /\ 0 \in 0..n
    BY <1>1
  <2> HIDE DEF start, n
  <2> QED BY <1>1, <1>6, <2>1 DEF MatchStep
<1>9. \A i \in 0..(n - 1) : f[i + 1] = MatchMaker(inc, f[i], list[i + 1])
  <2> TAKE i \in 0..(n - 1)
  <2>1. PICK T : T = 1..(i + 1)
    OBVIOUS
  <2>2. T \in SUBSET (1..n) /\ T # {} /\ i \in Nat /\ i \in 0..n /\ i + 1 \in 0..n
    BY <1>1, <2>1
  <2>3. Max(T) = i + 1 /\ T \ {i + 1} = 1..i
    BY <2>1, <2>2, GreatestOfInterval
  <2>4. c[T] = MatchStep(start, list, inc, c, T)
    <3> HIDE DEF c, start, n
    <3> QED BY <1>1, <1>6, <2>2
  <2>5. c[T] = MatchMaker(inc, c[1..i], list[i + 1])
    BY <2>2, <2>3, <2>4 DEF MatchStep
  <2> HIDE DEF c
  <2> QED BY <2>1, <2>2, <2>5
<1>10. f[n] = MatchLoop(book, inc)
  <2>1. n \in 0..n
    BY <1>1
  <2> HIDE DEF c, n
  <2> QED BY <1>1, <1>7, <2>1
<1>11. \A i \in 0..n : f[i] \in V
  <2> DEFINE G == {i \in Nat : i <= n => f[i] \in V}
  <2>1. 0 \in G
    BY <1>2, <1>8
  <2>2. ASSUME NEW i \in Nat, i \in G PROVE i + 1 \in G
    <3> SUFFICES ASSUME i + 1 <= n PROVE f[i + 1] \in V
      OBVIOUS
    <3>1. i \in 0..(n - 1) /\ i + 1 \in 1..n /\ i <= n
      BY <1>1
    <3>2. f[i + 1] = MatchMaker(inc, f[i], list[i + 1]) /\ f[i] \in V
      BY <3>1, <1>9, <2>2
    <3> HIDE DEF f, V, n
    <3> QED BY <3>1, <3>2, <1>3
  <2>3. Nat \subseteq G
    <3> HIDE DEF G
    <3> QED BY <2>1, <2>2, NatInduct
  <2> HIDE DEF f, V
  <2> QED BY <2>3, <1>1
<1> HIDE DEF c
<1>12. f \in [0..n -> V]
  BY <1>11
<1> HIDE DEF f
<1> QED BY <1>8, <1>9, <1>10, <1>12 DEF MatchRun

\* ----- what the loop has done after i makers: the first c of them are used up, the
\* next one is perhaps filled in part, and the others are kept as they were.
Used(list, inc, st) ==
    /\ \A j \in 1..Len(st.closed) :
          st.fills[j].qty = list[j].qty /\ st.closed[j] = ClosedFilled(list[j])
    /\ \A j \in 1..Len(st.fills) :
          /\ st.fills[j].price = list[j].price /\ st.fills[j].maker = list[j].id
          /\ st.fills[j].taker = inc.id /\ st.fills[j].qty \in Nat \ {0}
          /\ Crosses(inc, list[j].price) /\ list[j].acct # inc.acct
Partial(list, st) ==
    Len(st.fills) = Len(st.closed) + 1 =>
        LET maker == list[Len(st.fills)]
            q     == st.fills[Len(st.fills)].qty IN
        /\ st.left = 0 /\ q < maker.qty
        /\ Len(st.keep) >= 1 /\ st.keep[1] = [maker EXCEPT !.qty = maker.qty - q]
Kept(list, st, i) ==
    /\ Len(st.closed) <= Len(st.fills) /\ Len(st.fills) <= Len(st.closed) + 1
    /\ Len(st.closed) + Len(st.keep) = i
    /\ \A k \in 1..Len(st.keep) :
          (k > 1 \/ Len(st.fills) = Len(st.closed)) => st.keep[k] = list[Len(st.closed) + k]
LoopEnded(list, inc, st) ==
    LET maker == list[Len(st.closed) + 1] IN
    /\ st.end = "run" => /\ st.left = 0 \/ st.keep = <<>>
                         /\ Len(st.keep) = Len(st.fills) - Len(st.closed)
    /\ st.end # "run" => Len(st.keep) >= 1
    /\ st.end = "done" => \/ st.left = 0
                          \/ Len(st.fills) = Len(st.closed) /\ ~Crosses(inc, maker.price)
    /\ st.end = "self" => /\ st.left > 0 /\ Len(st.fills) = Len(st.closed)
                          /\ maker.acct = inc.acct /\ Crosses(inc, maker.price)
LastOf(last, st) ==
    st.last = IF st.fills = <<>> THEN last ELSE st.fills[Len(st.fills)].price

Shape(list, last, inc, st, i) ==
    /\ Used(list, inc, st) /\ Partial(list, st) /\ Kept(list, st, i)
    /\ LoopEnded(list, inc, st) /\ LastOf(last, st) /\ st.left <= inc.qty

LEMMA AppendIs ==
    ASSUME NEW T, NEW s \in Seq(T), NEW x, NEW t, t = Append(s, x)
    PROVE  /\ Len(s) \in Nat /\ Len(t) = Len(s) + 1 /\ t # <<>>
           /\ t[Len(s) + 1] = x /\ \A k \in 1..Len(s) : t[k] = s[k]
           /\ (Len(s) = 0 <=> s = <<>>)
  OBVIOUS

LEMMA ShapeKeeps ==
    ASSUME NEW I, NEW A, NEW L, NEW inc \in IncomingIn(I, A),
           NEW list \in Seq(RestingIn(I, A)), NEW last,
           NEW st \in LoopsIn(I, A, L), NEW i \in 0..(Len(list) - 1),
           Shape(list, last, inc, st, i), NEW maker, maker = list[i + 1],
           NEW end \in {"run", "done", "self"},
           st.end # "run" => end = st.end,
           st.end = "run" => \/ end = "done" /\ (st.left = 0 \/ ~Crosses(inc, maker.price))
                             \/ end = "self" /\ st.left > 0
                                /\ maker.acct = inc.acct /\ Crosses(inc, maker.price),
           NEW t, t = KeepMaker(st, maker, end)
    PROVE  Shape(list, last, inc, t, i + 1)
<1>1. /\ t.left = st.left /\ t.keep = Append(st.keep, maker) /\ t.fills = st.fills
      /\ t.closed = st.closed /\ t.last = st.last /\ t.end = end
  BY DEF KeepMaker, LoopsIn
<1>2. /\ st.keep \in Seq(RestingIn(I, A)) /\ st.fills \in Seq(FillsIn(I))
      /\ st.closed \in Seq(ClosesIn(I)) /\ st.left \in Nat
      /\ Len(st.fills) \in Nat /\ Len(st.closed) \in Nat /\ Len(st.keep) \in Nat
  BY DEF LoopsIn
<1>0. PICK K, K1, nf, nc, nk : /\ K = st.keep /\ K1 = t.keep /\ nf = Len(st.fills)
                                   /\ nc = Len(st.closed) /\ nk = Len(st.keep)
  OBVIOUS
<1>3. /\ Len(t.keep) = Len(st.keep) + 1 /\ t.keep # <<>>
      /\ t.keep[Len(st.keep) + 1] = maker /\ \A k \in 1..Len(st.keep) : t.keep[k] = st.keep[k]
      /\ (Len(st.keep) = 0 <=> st.keep = <<>>)
  <2>1. K \in Seq(RestingIn(I, A)) /\ K1 = Append(K, maker)
    BY <1>0, <1>1, <1>2
  <2>2. /\ Len(K) \in Nat /\ Len(K1) = Len(K) + 1 /\ K1 # <<>>
        /\ K1[Len(K) + 1] = maker /\ \A k \in 1..Len(K) : K1[k] = K[k]
        /\ (Len(K) = 0 <=> K = <<>>)
    BY <2>1, AppendIs
  <2> QED BY <2>2, <1>0
<1>4. Used(list, inc, t)
  BY <1>1 DEF Used, Shape
<1>5. Partial(list, t)
  BY <1>1, <1>2, <1>3 DEF Partial, Shape
<1>6. Kept(list, t, i + 1)
  <2>1. /\ nc <= nf /\ nf <= nc + 1 /\ nc + nk = i
        /\ \A k \in 1..nk : (k > 1 \/ nf = nc) => K[k] = list[nc + k]
    BY <1>0 DEF Kept, Shape
  <2>2. nf = nc + 1 => nk >= 1
    BY <1>0 DEF Partial, Shape
  <2>3. /\ Len(K1) = nk + 1 /\ K1[nk + 1] = maker /\ \A k \in 1..nk : K1[k] = K[k]
    BY <1>0, <1>3
  <2>4. nc \in Nat /\ nf \in Nat /\ nk \in Nat
    BY <1>0, <1>2
  <2>5. nc + (nk + 1) = i + 1
    BY <2>1, <2>4
  <2>6. \A k \in 1..(nk + 1) : (k > 1 \/ nf = nc) => K1[k] = list[nc + k]
    <3> TAKE k \in 1..(nk + 1)
    <3>1. CASE k = nk + 1
      BY <3>1, <2>3, <2>4, <2>5
    <3>2. CASE k # nk + 1
      <4>1. k \in 1..nk
        BY <3>2, <2>4
      <4> QED BY <4>1, <2>1, <2>3
    <3> QED BY <3>1, <3>2
  <2>7. Len(t.fills) = nf /\ Len(t.closed) = nc /\ t.keep = K1
    BY <1>0, <1>1
  <2> QED BY <2>1, <2>3, <2>5, <2>6, <2>7 DEF Kept
<1>7. LastOf(last, t) /\ t.left <= inc.qty
  BY <1>1 DEF LastOf, Shape
<1>8. LoopEnded(list, inc, t)
  <2>0. PICK front : front = list[nc + 1]
    OBVIOUS
  <2>1. /\ nc <= nf /\ nf <= nc + 1 /\ nc + nk = i
        /\ nc \in Nat /\ nf \in Nat /\ nk \in Nat /\ st.left \in Nat
        /\ (nk = 0 <=> st.keep = <<>>)
    BY <1>0, <1>2, <1>3 DEF Kept, Shape
  <2>2. /\ st.end = "run" => st.left = 0 \/ st.keep = <<>>
        /\ st.end = "run" => nk = nf - nc
        /\ st.end = "done" => st.left = 0 \/ (nf = nc /\ ~Crosses(inc, front.price))
        /\ st.end = "self" => /\ st.left > 0 /\ nf = nc
                              /\ front.acct = inc.acct /\ Crosses(inc, front.price)
    <3>1. LoopEnded(list, inc, st)
      BY DEF Shape
    <3>2. front = list[Len(st.closed) + 1]
      BY <1>0, <2>0
    <3> QED BY <1>0, <3>1, <3>2 DEF LoopEnded
  <2>3. Len(t.keep) >= 1
    BY <1>3, <1>0, <2>1
  <2>4. st.end = "run" /\ st.left # 0 => nf = nc /\ front = maker
    BY <2>0, <2>1, <2>2
  <2>5. /\ end = "done" => st.left = 0 \/ (nf = nc /\ ~Crosses(inc, front.price))
        /\ end = "self" => /\ st.left > 0 /\ nf = nc
                           /\ front.acct = inc.acct /\ Crosses(inc, front.price)
    <3>1. CASE st.end # "run"
      BY <3>1, <2>2
    <3>2. CASE st.end = "run" /\ st.left = 0
      BY <3>2
    <3>3. CASE st.end = "run" /\ st.left # 0
      BY <3>3, <2>4
    <3> QED BY <3>1, <3>2, <3>3
  <2>6. end # "run"
    OBVIOUS
  <2>7. Len(t.fills) = nf /\ Len(t.closed) = nc
    BY <1>0, <1>1
  <2> QED BY <1>1, <2>0, <2>3, <2>5, <2>6, <2>7 DEF LoopEnded
<1> QED BY <1>4, <1>5, <1>6, <1>7, <1>8 DEF Shape

LEMMA ShapeFills ==
    ASSUME NEW I, NEW A, NEW L, NEW inc \in IncomingIn(I, A),
           NEW list \in Seq(RestingIn(I, A)), NEW last,
           NEW st \in LoopsIn(I, A, L), NEW i \in 0..(Len(list) - 1),
           Shape(list, last, inc, st, i), NEW maker, maker = list[i + 1],
           st.end = "run", st.left # 0, Crosses(inc, maker.price), maker.acct # inc.acct,
           NEW t, t = FillMaker(inc, st, maker)
    PROVE  Shape(list, last, inc, t, i + 1)
<1>1. /\ st.keep \in Seq(RestingIn(I, A)) /\ st.fills \in Seq(FillsIn(I))
      /\ st.closed \in Seq(ClosesIn(I)) /\ st.left \in Nat
      /\ Len(st.fills) \in Nat /\ Len(st.closed) \in Nat /\ Len(st.keep) \in Nat
  BY DEF LoopsIn
<1>2. maker \in RestingIn(I, A) /\ maker.qty \in Nat \ {0} /\ i + 1 \in 1..Len(list)
  <2>1. i + 1 \in 1..Len(list)
    OBVIOUS
  <2>2. maker \in RestingIn(I, A)
    BY <2>1
  <2>3. maker.qty \in Nat \ {0}
    BY <2>2 DEF RestingIn
  <2> QED BY <2>1, <2>2, <2>3
<1>3. PICK q \in Nat : FilledTo(inc, st, maker, q, t)
  BY <1>2, FillIs
<1>4. Len(st.keep) = 0 /\ st.keep = <<>> /\ Len(st.fills) = i /\ Len(st.closed) = i
  <2>1. LoopEnded(list, inc, st) /\ Kept(list, st, i)
    BY DEF Shape
  <2>2. st.keep = <<>>
    BY <2>1 DEF LoopEnded
  <2>3. Len(st.keep) = 0
    BY <2>2
  <2>4. Len(st.keep) = Len(st.fills) - Len(st.closed) /\ Len(st.closed) + Len(st.keep) = i
    BY <2>1 DEF LoopEnded, Kept
  <2> QED BY <2>2, <2>3, <2>4, <1>1
<1>5. PICK row : row = [price |-> maker.price, qty |-> q, maker |-> maker.id, taker |-> inc.id]
  OBVIOUS
<1>6. PICK less : less = [maker EXCEPT !.qty = maker.qty - q]
  OBVIOUS
<1>7. /\ t.left = st.left - q /\ t.end = "run" /\ t.last = maker.price
      /\ t.fills = Append(st.fills, row)
      /\ t.keep = IF q = maker.qty THEN <<>> ELSE <<less>>
      /\ t.closed = IF q = maker.qty THEN Append(st.closed, ClosedFilled(maker)) ELSE st.closed
  BY <1>3, <1>4, <1>5, <1>6 DEF FilledTo
<1>8. q = IF st.left <= maker.qty THEN st.left ELSE maker.qty
  BY <1>3 DEF FilledTo
<1>9. PICK F, F1, C, C1 : F = st.fills /\ F1 = t.fills /\ C = st.closed /\ C1 = t.closed
  OBVIOUS
<1>10. /\ Len(F1) = i + 1 /\ F1 # <<>> /\ F1[i + 1] = row /\ \A k \in 1..i : F1[k] = F[k]
  <2>1. F \in Seq(FillsIn(I)) /\ F1 = Append(F, row) /\ Len(F) = i
    BY <1>1, <1>4, <1>7, <1>9
  <2> QED BY <2>1, AppendIs
<1>11. \A j \in 1..i : F[j].qty = list[j].qty /\ C[j] = ClosedFilled(list[j])
  BY <1>4, <1>9 DEF Shape, Used
<1>12. \A j \in 1..i : /\ F[j].price = list[j].price /\ F[j].maker = list[j].id
                       /\ F[j].taker = inc.id /\ F[j].qty \in Nat \ {0}
                       /\ Crosses(inc, list[j].price) /\ list[j].acct # inc.acct
  BY <1>4, <1>9 DEF Shape, Used
<1>13. /\ row.price = maker.price /\ row.maker = maker.id /\ row.taker = inc.id /\ row.qty = q
       /\ q \in Nat \ {0}
  BY <1>1, <1>2, <1>5, <1>8
<1>14. \A j \in 1..(i + 1) : /\ F1[j].price = list[j].price /\ F1[j].maker = list[j].id
                             /\ F1[j].taker = inc.id /\ F1[j].qty \in Nat \ {0}
                             /\ Crosses(inc, list[j].price) /\ list[j].acct # inc.acct
  <2> TAKE j \in 1..(i + 1)
  <2>1. CASE j = i + 1
    BY <2>1, <1>10, <1>13
  <2>2. CASE j # i + 1
    <3>1. j \in 1..i
      BY <2>2
    <3> QED BY <3>1, <1>10, <1>12
  <2> QED BY <2>1, <2>2
<1>15. LastOf(last, t)
  BY <1>7, <1>9, <1>10, <1>13 DEF LastOf
<1>16. t.left <= inc.qty /\ t.left \in Nat
  <2>1. st.left <= inc.qty /\ inc.qty \in Nat
    BY DEF Shape, IncomingIn
  <2> QED BY <2>1, <1>1, <1>2, <1>7, <1>8
<1>17. CASE q = maker.qty
  <2>1. /\ Len(C1) = i + 1 /\ C1[i + 1] = ClosedFilled(maker) /\ \A k \in 1..i : C1[k] = C[k]
    <3>1. PICK x : x = ClosedFilled(maker)
      OBVIOUS
    <3>2. C \in Seq(ClosesIn(I)) /\ C1 = Append(C, x) /\ Len(C) = i
      BY <1>1, <1>4, <1>7, <1>9, <1>17, <3>1
    <3>3. /\ Len(C1) = i + 1 /\ C1[i + 1] = x /\ \A k \in 1..i : C1[k] = C[k]
      BY <3>2, AppendIs
    <3> QED BY <3>1, <3>3
  <2>2. \A j \in 1..(i + 1) : F1[j].qty = list[j].qty /\ C1[j] = ClosedFilled(list[j])
    <3> TAKE j \in 1..(i + 1)
    <3>1. CASE j = i + 1
      BY <3>1, <1>10, <1>13, <1>17, <2>1
    <3>2. CASE j # i + 1
      <4>1. j \in 1..i
        BY <3>2
      <4> QED BY <4>1, <1>10, <1>11, <2>1
    <3> QED BY <3>1, <3>2
  <2>3. Used(list, inc, t)
    BY <1>9, <1>10, <1>14, <2>1, <2>2 DEF Used
  <2>4. Partial(list, t)
    BY <1>9, <1>10, <2>1 DEF Partial
  <2>5. t.keep = <<>> /\ Len(t.keep) = 0
    BY <1>7, <1>17
  <2>6. Kept(list, t, i + 1)
    BY <1>9, <1>10, <2>1, <2>5 DEF Kept
  <2>7. LoopEnded(list, inc, t)
    BY <1>7, <1>9, <1>10, <2>1, <2>5 DEF LoopEnded
  <2> QED BY <1>15, <1>16, <2>3, <2>4, <2>6, <2>7 DEF Shape
<1>18. CASE q # maker.qty
  <2>1. C1 = C /\ Len(C1) = i
    BY <1>4, <1>7, <1>9, <1>18
  <2>2. t.keep = <<less>> /\ Len(t.keep) = 1 /\ t.keep[1] = less
    BY <1>7, <1>18
  <2>3. q = st.left /\ t.left = 0 /\ q < maker.qty
    BY <1>1, <1>2, <1>7, <1>8, <1>18
  <2>4. Used(list, inc, t)
    <3>1. \A j \in 1..i : F1[j].qty = list[j].qty /\ C1[j] = ClosedFilled(list[j])
      BY <1>10, <1>11, <2>1
    <3> QED BY <1>9, <1>10, <1>14, <2>1, <3>1 DEF Used
  <2>5. Partial(list, t)
    <3>1. F1[Len(F1)].qty = q /\ list[Len(F1)] = maker
      BY <1>10, <1>13
    <3> QED BY <1>6, <1>9, <2>2, <2>3, <3>1 DEF Partial
  <2>6. Kept(list, t, i + 1)
    BY <1>9, <1>10, <2>1, <2>2 DEF Kept
  <2>7. LoopEnded(list, inc, t)
    BY <1>7, <1>9, <1>10, <2>1, <2>2, <2>3 DEF LoopEnded
  <2> QED BY <1>15, <1>16, <2>4, <2>5, <2>6, <2>7 DEF Shape
<1> QED BY <1>17, <1>18

LEMMA MatchShape ==
    ASSUME NEW I, NEW A, NEW L, Nat \subseteq L, NEW book \in BooksIn(I, A, L),
           NEW inc \in IncomingIn(I, A), NEW list, list = book[Opposite(inc.side)],
           NEW st, st = MatchLoop(book, inc)
    PROVE  /\ list \in Seq(RestingIn(I, A)) /\ st \in LoopsIn(I, A, L)
           /\ Shape(list, book.last, inc, st, Len(list))
<1>1. list \in Seq(RestingIn(I, A)) /\ Len(list) \in Nat
  <2>1. list \in Seq(RestingIn(I, A))
    BY DEF BooksIn, IncomingIn, Opposite
  <2> QED BY <2>1
<1>2. PICK f \in [0..Len(list) -> LoopsIn(I, A, L)] :
          MatchRun(list, book.last, inc, f) /\ f[Len(list)] = st
  BY MatchIterates
<1> DEFINE G == {i \in Nat : i <= Len(list) => Shape(list, book.last, inc, f[i], i)}
<1>3. 0 \in G
  <2>1. PICK s : s = f[0]
    OBVIOUS
  <2>2. s = MatchStart(book.last, inc)
    BY <1>2, <2>1 DEF MatchRun
  <2>3. /\ s.left = inc.qty /\ s.end = "run" /\ s.last = book.last
        /\ s.keep = <<>> /\ s.fills = <<>> /\ s.closed = <<>>
    BY <2>2 DEF MatchStart
  <2>4. Len(s.keep) = 0 /\ Len(s.fills) = 0 /\ Len(s.closed) = 0 /\ 1..0 = {}
    BY <2>3
  <2>5. Used(list, inc, s)
    BY <2>4 DEF Used
  <2>6. Partial(list, s)
    <3>1. Len(s.fills) # Len(s.closed) + 1
      BY <2>4
    <3> QED BY <3>1 DEF Partial
  <2>7. Kept(list, s, 0)
    BY <2>4 DEF Kept
  <2>8. LoopEnded(list, inc, s)
    BY <2>3, <2>4 DEF LoopEnded
  <2>9. LastOf(book.last, s) /\ s.left <= inc.qty
    BY <2>3 DEF LastOf, IncomingIn
  <2>10. Shape(list, book.last, inc, s, 0)
    BY <2>5, <2>6, <2>7, <2>8, <2>9 DEF Shape
  <2> QED BY <2>1, <2>10
<1>4. ASSUME NEW i \in Nat, i \in G PROVE i + 1 \in G
  <2> SUFFICES ASSUME i + 1 <= Len(list) PROVE Shape(list, book.last, inc, f[i + 1], i + 1)
    OBVIOUS
  <2>1. i \in 0..(Len(list) - 1) /\ i \in 0..Len(list) /\ i + 1 \in 1..Len(list)
    BY <1>1
  <2>2. PICK s, t, maker, last : s = f[i] /\ t = f[i + 1] /\ maker = list[i + 1] /\ last = book.last
    OBVIOUS
  <2>3. s \in LoopsIn(I, A, L) /\ t = MatchMaker(inc, s, maker) /\ Shape(list, last, inc, s, i)
    BY <1>2, <1>4, <2>1, <2>2 DEF MatchRun
  <2>4. s.end \in {"run", "done", "self"} /\ s.left \in Nat
    BY <2>3 DEF LoopsIn
  <2>5. CASE s.end # "run" \/ s.left = 0 \/ ~Crosses(inc, maker.price)
    <3>1. PICK end : end = IF s.end = "run" THEN "done" ELSE s.end
      OBVIOUS
    <3>2. /\ end \in {"run", "done", "self"} /\ t = KeepMaker(s, maker, end)
          /\ s.end # "run" => end = s.end
          /\ s.end = "run" => end = "done" /\ (s.left = 0 \/ ~Crosses(inc, maker.price))
      BY <2>3, <2>4, <2>5, <3>1 DEF MatchMaker
    <3>3. Shape(list, last, inc, t, i + 1)
      BY <1>1, <2>1, <2>2, <2>3, <3>2, ShapeKeeps
    <3> QED BY <2>2, <3>3
  <2>6. CASE ~(s.end # "run" \/ s.left = 0 \/ ~Crosses(inc, maker.price)) /\ maker.acct = inc.acct
    <3>1. t = KeepMaker(s, maker, "self") /\ s.left > 0
      BY <2>3, <2>4, <2>6 DEF MatchMaker
    <3>2. Shape(list, last, inc, t, i + 1)
      BY <1>1, <2>1, <2>2, <2>3, <2>6, <3>1, ShapeKeeps
    <3> QED BY <2>2, <3>2
  <2>7. CASE ~(s.end # "run" \/ s.left = 0 \/ ~Crosses(inc, maker.price)) /\ maker.acct # inc.acct
    <3>1. t = FillMaker(inc, s, maker)
      BY <2>3, <2>7 DEF MatchMaker
    <3>2. Shape(list, last, inc, t, i + 1)
      BY <1>1, <2>1, <2>2, <2>3, <2>7, <3>1, ShapeFills
    <3> QED BY <2>2, <3>2
  <2> QED BY <2>5, <2>6, <2>7
<1>5. Nat \subseteq G
  <2> HIDE DEF G
  <2> QED BY <1>3, <1>4, NatInduct
<1>6. Len(list) \in 0..Len(list)
  BY <1>1
<1>7. st \in LoopsIn(I, A, L) /\ Shape(list, book.last, inc, st, Len(list))
  BY <1>1, <1>2, <1>5, <1>6
<1> QED BY <1>1, <1>7

\* ----- insertion
LEMMA LeastExists ==
    ASSUME NEW n \in Nat, NEW T \in SUBSET (1..n), T # {}
    PROVE  Min(T) \in T /\ \A y \in T : Min(T) <= y
<1> DEFINE S == 1..n
           F == {U \in SUBSET S : U = {} \/ \E x \in U : \A y \in U : x <= y}
<1>1. IsFiniteSet(S)
  BY FS_Interval
<1>2. {} \in F
  OBVIOUS
<1>3. ASSUME NEW U \in SUBSET S, U # {}, \A x \in U : U \ {x} \in F PROVE U \in F
  <2>1. PICK x \in U : TRUE
    BY <1>3
  <2>2. CASE U \ {x} = {}
    <3>1. \A y \in U : x <= y
      BY <2>1, <2>2
    <3> QED BY <3>1
  <2>3. CASE U \ {x} # {}
    <3>1. PICK z \in U \ {x} : \A y \in U \ {x} : z <= y
      BY <1>3, <2>3
    <3>2. CASE x <= z
      <4>1. \A y \in U : x <= y
        BY <3>1, <3>2
      <4> QED BY <4>1
    <3>3. CASE ~ (x <= z)
      <4>1. \A y \in U : z <= y
        BY <3>1, <3>3
      <4> QED BY <4>1
    <3> QED BY <3>2, <3>3
  <2> QED BY <2>2, <2>3
<1>4. SUBSET S \subseteq F
  <2> HIDE DEF S, F
  <2> QED BY <1>1, <1>2, <1>3, SetInduct
<1>5. \E x \in T : \A y \in T : x <= y
  BY <1>4
<1> QED BY <1>5 DEF Min

Joined(a, b, N) ==
    /\ Len(N) = Len(a) + Len(b)
    /\ \A k \in 1..Len(a) : N[k] = a[k]
    /\ \A k \in 1..Len(b) : N[Len(a) + k] = b[k]

LEMMA ConcatIs ==
    ASSUME NEW R, NEW a \in Seq(R), NEW b \in Seq(R), NEW N, N = a \o b
    PROVE  N \in Seq(R) /\ Joined(a, b, N)
  BY DEF Joined

Shifted(list, o, at, N) ==
    /\ Len(N) = Len(list) + 1 /\ N[at] = o
    /\ \A k \in 1..(at - 1) : N[k] = list[k]
    /\ \A k \in at..Len(list) : N[k + 1] = list[k]

LEMMA InsertAtIs ==
    ASSUME NEW R, NEW list \in Seq(R), NEW o \in R, NEW n \in Nat, n = Len(list),
           NEW at \in 1..n, NEW N, N = InsertAt(list, at, o)
    PROVE  N \in Seq(R) /\ Shifted(list, o, at, N)
<1>1. PICK u, v : /\ u = SubSeq(list, 1, at - 1) /\ v = SubSeq(list, at, n)
  OBVIOUS
<1>2. \A k \in 1..n : list[k] \in R
  OBVIOUS
<1>3. /\ u = [k \in 1..(at - 1) |-> list[k]] /\ u \in Seq(R) /\ Len(u) = at - 1
  <2>1. u \in Seq(R)
    BY <1>1
  <2>2. u = [k \in 1..(1 + (at - 1) - 1) |-> list[k]]
    BY <1>1
  <2>3. Len(u) = at - 1
    BY <1>1
  <2> QED BY <2>1, <2>2, <2>3
<1>4. v \in Seq(R) /\ Len(v) = n - at + 1 /\ \A k \in 1..(n - at + 1) : v[k] = list[at + k - 1]
  <2>1. v \in Seq(R) /\ Len(v) = n - at + 1
    BY <1>1
  <2>2. \A k \in 1..(n - at + 1) : v[k] = list[at + k - 1]
    BY <1>1
  <2> QED BY <2>1, <2>2
<1>5. PICK w : w = u \o <<o>>
  OBVIOUS
<1>6. w \in Seq(R) /\ Len(w) = at /\ w[at] = o /\ \A k \in 1..(at - 1) : w[k] = list[k]
  <2>1. w = Append(u, o)
    BY <1>3, <1>5
  <2> QED BY <1>3, <2>1
<1>7. N = w \o v
  BY <1>1, <1>5 DEF InsertAt
<1>8. /\ N \in Seq(R) /\ Len(N) = n + 1
      /\ \A k \in 1..at : N[k] = w[k]
      /\ \A k \in 1..(n - at + 1) : N[at + k] = v[k]
  <2>1. N \in Seq(R) /\ Joined(w, v, N)
    BY <1>4, <1>6, <1>7, ConcatIs
  <2>2. Len(w) = at /\ Len(v) = n - at + 1
    BY <1>4, <1>6
  <2>3. at + (n - at + 1) = n + 1
    OBVIOUS
  <2> QED BY <2>1, <2>2, <2>3 DEF Joined
<1>9. \A k \in at..n : N[k + 1] = list[k]
  <2> TAKE k \in at..n
  <2>1. PICK j \in 1..(n - at + 1) : k + 1 = at + j
    <3>1. k + 1 - at \in 1..(n - at + 1) /\ k + 1 = at + (k + 1 - at)
      OBVIOUS
    <3> QED BY <3>1
  <2>2. N[at + j] = v[j]
    BY <1>8, <2>1
  <2>3. at + j - 1 = k
    BY <2>1
  <2> QED BY <1>4, <2>1, <2>2, <2>3
<1> QED BY <1>6, <1>8, <1>9 DEF Shifted

\* N is the list with o put in at p, behind every order that is no worse.
InsertedAt(list, o, p, N) ==
    /\ Len(N) = Len(list) + 1 /\ N[p] = o
    /\ \A k \in 1..(p - 1) : N[k] = list[k] /\ ~Better(o.side, o.price, list[k].price)
    /\ \A k \in p..Len(list) : N[k + 1] = list[k]
    /\ p <= Len(list) => Better(o.side, o.price, list[p].price)

Inserted(list, o, N) == \E p \in 1..(Len(list) + 1) : InsertedAt(list, o, p, N)

\* T: the places whose order is worse than o.
Inserts(list, o, T, at, N) ==
    /\ T \in SUBSET (1..Len(list))
    /\ \A i \in 1..Len(list) : i \in T <=> Better(o.side, o.price, list[i].price)
    /\ at = IF T # {} THEN Min(T) ELSE 0
    /\ N = IF at = 0 THEN Append(list, o) ELSE InsertAt(list, at, o)

LEMMA InsertIs ==
    ASSUME NEW R, NEW list \in Seq(R), NEW o \in R,
           NEW T, NEW at, NEW N, Inserts(list, o, T, at, N)
    PROVE  N \in Seq(R) /\ Inserted(list, o, N)
<1> USE DEF Inserts, Inserted
<1>1. Len(list) \in Nat /\ DOMAIN list = 1..Len(list)
  OBVIOUS
<1>3. CASE T = {}
  <2>1. N = Append(list, o) /\ \A k \in 1..Len(list) : ~Better(o.side, o.price, list[k].price)
    BY <1>3
  <2>2. Len(list) + 1 \in 1..(Len(list) + 1) /\ N \in Seq(R) /\ Len(N) = Len(list) + 1
    BY <1>1, <2>1
  <2>3. N[Len(list) + 1] = o /\ \A k \in 1..Len(list) : N[k] = list[k]
    BY <1>1, <2>1
  <2>4. InsertedAt(list, o, Len(list) + 1, N)
    BY <1>1, <2>1, <2>2, <2>3 DEF InsertedAt
  <2> QED BY <2>2, <2>4
<1>4. CASE T # {}
  <2>1. at \in T /\ \A y \in T : at <= y
    BY <1>1, <1>4, LeastExists
  <2>2. at \in 1..Len(list) /\ Better(o.side, o.price, list[at].price)
    BY <2>1
  <2>3. \A k \in 1..(at - 1) : ~Better(o.side, o.price, list[k].price)
    <3> TAKE k \in 1..(at - 1)
    <3>1. k \in 1..Len(list) /\ ~(at <= k)
      BY <1>1, <2>2
    <3> QED BY <2>1, <3>1
  <2>4. N = InsertAt(list, at, o)
    BY <2>2
  <2>5. N \in Seq(R) /\ Shifted(list, o, at, N)
    <3>1. PICK n \in Nat : n = Len(list)
      BY <1>1
    <3>2. at \in 1..n
      BY <2>2, <3>1
    <3> QED BY <2>4, <3>1, <3>2, InsertAtIs
  <2>6. InsertedAt(list, o, at, N)
    BY <2>2, <2>3, <2>5 DEF InsertedAt, Shifted
  <2>7. at \in 1..(Len(list) + 1)
    BY <1>1, <2>2
  <2> QED BY <2>5, <2>6, <2>7
<1> QED BY <1>3, <1>4

\* ----- order of the lists
OneSide(list, side) == \A i \in 1..Len(list) : list[i].side = side

\* No order is behind one of a worse price.
PriceOrdered(list, side) ==
    \A i, j \in 1..Len(list) : i < j => ~Better(side, list[j].price, list[i].price)

\* Of two orders at one price the earlier is in front, for ids given in order.
InFront(r, s) == Better(r.side, r.price, s.price) \/ (r.price = s.price /\ r.id < s.id)
TimeOrdered(list) == \A i, j \in 1..Len(list) : i < j => InFront(list[i], list[j])

LEMMA BetterIs ==
    ASSUME NEW side \in Sides, NEW p \in Nat, NEW q \in Nat
    PROVE  /\ Better(side, p, q) <=> IF side = "BUY" THEN p > q ELSE p < q
           /\ ~Better(side, p, q) \/ ~Better(side, q, p)
           /\ ~Better(side, p, q) /\ ~Better(side, q, p) => p = q
           /\ \A x \in Nat : ~Better(side, p, q) /\ ~Better(side, q, x) => ~Better(side, p, x)
           /\ \A x \in Nat : Better(side, p, q) /\ ~Better(side, x, q) => ~Better(side, x, p)
           /\ \A x \in Nat : Better(side, p, q) /\ ~Better(side, x, q) => Better(side, p, x)
  BY DEF Better, Sides

LEMMA RestingFields ==
    ASSUME NEW I, NEW A, NEW r \in RestingIn(I, A)
    PROVE  /\ r.id \in I /\ r.acct \in A /\ r.side \in Sides /\ r.price \in Nat
           /\ r.qty \in Nat /\ r.qty # 0 /\ r.total \in Nat
  BY DEF RestingIn

\* Where the elements of the longer list come from.
LEMMA InsertedFrom ==
    ASSUME NEW R, NEW list \in Seq(R), NEW o \in R, NEW N,
           NEW p \in 1..(Len(list) + 1), InsertedAt(list, o, p, N),
           NEW i \in 1..Len(N)
    PROVE  /\ i = p => N[i] = o
           /\ i < p => i \in 1..Len(list) /\ N[i] = list[i]
           /\ i > p => i - 1 \in 1..Len(list) /\ N[i] = list[i - 1]
<1>1. Len(list) \in Nat /\ p \in Nat /\ Len(N) = Len(list) + 1
  BY DEF InsertedAt
<1>2. i = p => N[i] = o
  BY DEF InsertedAt
<1>3. i < p => i \in 1..Len(list) /\ N[i] = list[i]
  BY <1>1 DEF InsertedAt
<1>4. ASSUME i > p PROVE i - 1 \in 1..Len(list) /\ N[i] = list[i - 1]
  <2>1. PICK k \in p..Len(list) : i = k + 1
    <3>1. i - 1 \in p..Len(list) /\ i = (i - 1) + 1
      BY <1>1, <1>4
    <3> QED BY <3>1
  <2>2. N[k + 1] = list[k]
    BY <2>1 DEF InsertedAt
  <2>3. i - 1 = k /\ k \in 1..Len(list)
    BY <1>1, <2>1
  <2> QED BY <2>1, <2>2, <2>3
<1> QED BY <1>2, <1>3, <1>4

LEMMA InsertedElements ==
    ASSUME NEW R, NEW list \in Seq(R), NEW o \in R, NEW N, Inserted(list, o, N)
    PROVE  \A i \in 1..Len(N) : N[i] = o \/ \E j \in 1..Len(list) : N[i] = list[j]
<1> TAKE i \in 1..Len(N)
<1>1. PICK p \in 1..(Len(list) + 1) : InsertedAt(list, o, p, N)
  BY DEF Inserted
<1>2. Len(list) \in Nat /\ Len(N) = Len(list) + 1
  BY <1>1 DEF InsertedAt
<1>3. i < p \/ i = p \/ i > p
  BY <1>2
<1> QED BY <1>1, <1>3, InsertedFrom

LEMMA InsertOrdered ==
    ASSUME NEW I, NEW A, NEW list \in Seq(RestingIn(I, A)), NEW o \in RestingIn(I, A), NEW N,
           NEW p \in 1..(Len(list) + 1), InsertedAt(list, o, p, N),
           OneSide(list, o.side), PriceOrdered(list, o.side)
    PROVE  OneSide(N, o.side) /\ PriceOrdered(N, o.side)
<1>1. Len(list) \in Nat /\ p \in Nat /\ Len(N) = Len(list) + 1
  BY DEF InsertedAt
<1>2. OneSide(N, o.side)
  <2>1. ASSUME NEW i \in 1..Len(N) PROVE N[i].side = o.side
    <3>1. i = p \/ i < p \/ i > p
      BY <1>1
    <3>2. PICK R : R = RestingIn(I, A) /\ list \in Seq(R) /\ o \in R
      OBVIOUS
    <3>3. \/ N[i] = o
          \/ i \in 1..Len(list) /\ N[i] = list[i]
          \/ i - 1 \in 1..Len(list) /\ N[i] = list[i - 1]
      BY <3>1, <3>2, InsertedFrom
    <3> QED BY <3>3 DEF OneSide
  <2> QED BY <2>1 DEF OneSide
<1>3. \A k \in 1..Len(list) : list[k].price \in Nat
  <2> TAKE k \in 1..Len(list)
  <2>1. list[k] \in RestingIn(I, A)
    OBVIOUS
  <2> QED BY <2>1, RestingFields
<1>4. o.price \in Nat /\ o.side \in Sides
  BY RestingFields
<1>5. ASSUME NEW i \in 1..Len(N), NEW j \in 1..Len(N), i < j
      PROVE  ~Better(o.side, N[j].price, N[i].price)
  <2>1. CASE j < p
    <3>1. i < p /\ i \in Nat /\ j \in Nat
      BY <1>5, <2>1, <1>1
    <3> QED BY <1>5, <2>1, <3>1, InsertedFrom DEF PriceOrdered
  <2>2. CASE j = p
    <3>1. i < p /\ i \in 1..(p - 1)
      BY <1>1, <1>5, <2>2
    <3>2. N[i] = list[i] /\ ~Better(o.side, o.price, list[i].price) /\ N[j] = o
      BY <2>2, <3>1 DEF InsertedAt
    <3> QED BY <3>2
  <2>3. CASE j > p
    <3>1. j - 1 \in 1..Len(list) /\ N[j] = list[j - 1]
      BY <2>3, InsertedFrom
    <3>2. CASE i < p
      <4>1. i \in 1..Len(list) /\ N[i] = list[i]
        BY <3>2, InsertedFrom
      <4>2. i < j - 1
        BY <1>1, <2>3, <3>2
      <4> QED BY <3>1, <4>1, <4>2 DEF PriceOrdered
    <3>3. CASE i = p
      <4>1. N[i] = o /\ p <= Len(list) /\ p \in 1..Len(list)
        BY <1>1, <2>3, <3>3, InsertedFrom
      <4>2. Better(o.side, o.price, list[p].price)
        BY <4>1 DEF InsertedAt
      <4>3. ~Better(o.side, list[j - 1].price, list[p].price)
        <5>1. CASE p = j - 1
          BY <5>1, <1>3, <1>4, <4>1, BetterIs
        <5>2. CASE p # j - 1
          <6>1. p < j - 1
            BY <5>2, <1>1, <2>3
          <6> QED BY <6>1, <4>1, <3>1 DEF PriceOrdered
        <5> QED BY <5>1, <5>2
      <4> QED BY <1>3, <1>4, <3>1, <4>1, <4>2, <4>3, BetterIs
    <3>4. CASE i > p
      <4>1. i - 1 \in 1..Len(list) /\ N[i] = list[i - 1]
        BY <3>4, InsertedFrom
      <4>2. i - 1 < j - 1
        BY <1>5
      <4> QED BY <3>1, <4>1, <4>2 DEF PriceOrdered
    <3> QED BY <1>1, <3>2, <3>3, <3>4
  <2> QED BY <1>1, <2>1, <2>2, <2>3
<1>6. PriceOrdered(N, o.side)
  BY <1>5 DEF PriceOrdered
<1> QED BY <1>2, <1>6

\* ----- removal
FilterMaker(ids, kept, r) == IF r.id \in ids THEN kept ELSE Append(kept, r)

FilterStep(list, ids, g, T) ==
    IF T = {} THEN <<>> ELSE FilterMaker(ids, g[T \ {Max(T)}], list[Max(T)])

LEMMA FilterIterates ==
    ASSUME NEW R, NEW list \in Seq(R), NEW ids
    PROVE  \E f \in [0..Len(list) -> Seq(R)] :
              /\ f[0] = <<>> /\ f[Len(list)] = ListWithout(list, ids)
              /\ \A i \in 0..(Len(list) - 1) : f[i + 1] = FilterMaker(ids, f[i], list[i + 1])
<1> DEFINE V == Seq(R)
           n == Len(list)
           step == [i \in 1..n |-> [v \in V |-> FilterMaker(ids, v, list[i])]]
           Iter(g) == g = [T \in SUBSET DOMAIN list |-> FilterStep(list, ids, g, T)]
<1>1. n \in Nat /\ DOMAIN list = 1..n
  OBVIOUS
<1>2. <<>> \in V
  OBVIOUS
<1>3. \A i \in 1..n : \A v \in V : FilterMaker(ids, v, list[i]) \in V
  BY DEF FilterMaker
<1>4. PICK g \in [SUBSET (1..n) -> V] : FoldsFrom(n, <<>>, step, g)
  <2>1. \A i \in 1..n : \A v \in V : step[i][v] \in V
    BY <1>3
  <2> HIDE DEF V, step, n
  <2> QED BY <1>1, <1>2, <2>1, FoldIterates
<1>5. Iter(g)
  <2>1. \A T \in SUBSET (1..n) : T # {} => Max(T) \in 1..n /\ T \ {Max(T)} \in SUBSET (1..n)
    BY <1>1, GreatestExists
  <2>2. \A T \in SUBSET (1..n) : g[T] = FilterStep(list, ids, g, T)
    <3> TAKE T \in SUBSET (1..n)
    <3>1. CASE T = {}
      BY <3>1, <1>4 DEF FoldsFrom, FilterStep
    <3>2. CASE T # {}
      <4>1. PICK m \in 1..n : m = Max(T) /\ T \ {m} \in SUBSET (1..n)
        BY <2>1, <3>2
      <4>2. g[T] = step[m][g[T \ {m}]] /\ g[T \ {m}] \in V
        BY <1>4, <3>2, <4>1 DEF FoldsFrom
      <4>3. step[m][g[T \ {m}]] = FilterMaker(ids, g[T \ {m}], list[m])
        BY <4>2
      <4> QED BY <3>2, <4>1, <4>2, <4>3 DEF FilterStep
    <3> QED BY <3>1, <3>2
  <2> HIDE DEF V, step, n
  <2> QED BY <1>1, <2>2
<1> DEFINE c == CHOOSE h : Iter(h)
<1>6. Iter(c)
  <2> HIDE DEF Iter
  <2> QED BY <1>5
<1>7. ListWithout(list, ids) = c[DOMAIN list]
  BY DEF ListWithout, FoldLeft, MapThenFoldSet, FilterStep, FilterMaker
<1> DEFINE f == [i \in 0..n |-> c[1..i]]
<1>8. f[0] = <<>>
  <2>1. 1..0 = {} /\ 1..0 \in SUBSET (1..n) /\ 0 \in 0..n
    BY <1>1
  <2> HIDE DEF n
  <2> QED BY <1>1, <1>6, <2>1 DEF FilterStep
<1>9. \A i \in 0..(n - 1) : f[i + 1] = FilterMaker(ids, f[i], list[i + 1])
  <2> TAKE i \in 0..(n - 1)
  <2>1. PICK T : T = 1..(i + 1)
    OBVIOUS
  <2>2. T \in SUBSET (1..n) /\ T # {} /\ i \in Nat /\ i \in 0..n /\ i + 1 \in 0..n
    <3> HIDE DEF n
    <3>1. i \in Nat /\ i \in 0..n /\ i + 1 \in 0..n
      BY <1>1
    <3>2. T \in SUBSET (1..n) /\ i + 1 \in T
      BY <1>1, <2>1
    <3> QED BY <3>1, <3>2
  <2>3. Max(T) = i + 1 /\ T \ {i + 1} = 1..i
    BY <2>1, <2>2, GreatestOfInterval
  <2>4. c[T] = FilterStep(list, ids, c, T)
    <3> HIDE DEF c, n
    <3> QED BY <1>1, <1>6, <2>2
  <2>5. c[T] = FilterMaker(ids, c[1..i], list[i + 1])
    BY <2>2, <2>3, <2>4 DEF FilterStep
  <2> HIDE DEF c
  <2> QED BY <2>1, <2>2, <2>5
<1>10. f[n] = ListWithout(list, ids)
  <2>1. n \in 0..n
    BY <1>1
  <2> HIDE DEF c, n
  <2> QED BY <1>1, <1>7, <2>1
<1>11. \A i \in 0..n : f[i] \in V
  <2> DEFINE G == {i \in Nat : i <= n => f[i] \in V}
  <2>1. 0 \in G
    BY <1>2, <1>8
  <2>2. ASSUME NEW i \in Nat, i \in G PROVE i + 1 \in G
    <3> SUFFICES ASSUME i + 1 <= n PROVE f[i + 1] \in V
      OBVIOUS
    <3>1. i \in 0..(n - 1) /\ i + 1 \in 1..n /\ i <= n
      BY <1>1
    <3>2. f[i + 1] = FilterMaker(ids, f[i], list[i + 1]) /\ f[i] \in V
      BY <3>1, <1>9, <2>2
    <3> HIDE DEF f, V, n
    <3> QED BY <3>1, <3>2, <1>3
  <2>3. Nat \subseteq G
    <3> HIDE DEF G
    <3> QED BY <2>1, <2>2, NatInduct
  <2> HIDE DEF f, V
  <2> QED BY <2>3, <1>1
<1> HIDE DEF c
<1>12. f \in [0..n -> V]
  BY <1>11
<1> HIDE DEF f
<1> QED BY <1>8, <1>9, <1>10, <1>12

\* s holds elements of t, in the order of t: the one at k from m[k].
PickedFrom(s, t, m) ==
    /\ \A k \in 1..Len(s) : m[k] \in 1..Len(t) /\ s[k] = t[m[k]]
    /\ \A k, l \in 1..Len(s) : k < l => m[k] < m[l]

\* What is left of the first i elements.
KeptUpTo(list, ids, u, i) ==
    /\ \E m : /\ \A k \in 1..Len(u) : m[k] \in 1..i /\ u[k] = list[m[k]]
              /\ \A k, l \in 1..Len(u) : k < l => m[k] < m[l]
    /\ \A k \in 1..Len(u) : u[k].id \notin ids
    /\ \A j \in 1..i : list[j].id \notin ids => \E k \in 1..Len(u) : u[k] = list[j]

LEMMA WithoutIs ==
    ASSUME NEW R, NEW list \in Seq(R), NEW ids, NEW s, s = ListWithout(list, ids)
    PROVE  /\ s \in Seq(R) /\ \E m : PickedFrom(s, list, m)
           /\ \A k \in 1..Len(s) : s[k].id \notin ids
           /\ \A j \in 1..Len(list) : list[j].id \notin ids => \E k \in 1..Len(s) : s[k] = list[j]
<1>1. Len(list) \in Nat
  OBVIOUS
<1>2. PICK f \in [0..Len(list) -> Seq(R)] :
              /\ f[0] = <<>> /\ f[Len(list)] = s
              /\ \A i \in 0..(Len(list) - 1) : f[i + 1] = FilterMaker(ids, f[i], list[i + 1])
  BY FilterIterates
<1> DEFINE G == {i \in Nat : i <= Len(list) => KeptUpTo(list, ids, f[i], i)}
<1>3. 0 \in G
  <2>1. Len(<<>>) = 0 /\ 1..0 = {}
    OBVIOUS
  <2>2. KeptUpTo(list, ids, <<>>, 0)
    BY <2>1 DEF KeptUpTo
  <2> QED BY <2>2, <1>2
<1>4. ASSUME NEW i \in Nat, i \in G PROVE i + 1 \in G
  <2> SUFFICES ASSUME i + 1 <= Len(list) PROVE KeptUpTo(list, ids, f[i + 1], i + 1)
    OBVIOUS
  <2>1. i \in 0..(Len(list) - 1) /\ i \in 0..Len(list) /\ i + 1 \in 0..Len(list)
    BY <1>1
  <2>2. PICK u, v, r : u = f[i] /\ v = f[i + 1] /\ r = list[i + 1]
    OBVIOUS
  <2>3. u \in Seq(R) /\ KeptUpTo(list, ids, u, i) /\ v = FilterMaker(ids, u, r)
    BY <1>2, <1>4, <2>1, <2>2
  <2>4. CASE r.id \in ids
    <3>1. v = u
      BY <2>3, <2>4 DEF FilterMaker
    <3>2. \A j \in 1..(i + 1) : j \in 1..i \/ j = i + 1
      OBVIOUS
    <3>3. KeptUpTo(list, ids, u, i + 1)
      <4>1. PICK m : /\ \A k \in 1..Len(u) : m[k] \in 1..i /\ u[k] = list[m[k]]
                     /\ \A k, l \in 1..Len(u) : k < l => m[k] < m[l]
        BY <2>3 DEF KeptUpTo
      <4>2. \A k \in 1..Len(u) : m[k] \in 1..(i + 1)
        BY <4>1
      <4>3. \A j \in 1..(i + 1) : list[j].id \notin ids => \E k \in 1..Len(u) : u[k] = list[j]
        BY <2>2, <2>3, <2>4, <3>2 DEF KeptUpTo
      <4>4. \A k \in 1..Len(u) : u[k].id \notin ids
        BY <2>3 DEF KeptUpTo
      <4> QED BY <4>1, <4>2, <4>3, <4>4 DEF KeptUpTo
    <3> QED BY <2>2, <3>1, <3>3
  <2>5. CASE r.id \notin ids
    <3>1. v = Append(u, r)
      BY <2>3, <2>5 DEF FilterMaker
    <3>2. /\ Len(u) \in Nat /\ Len(v) = Len(u) + 1 /\ v[Len(u) + 1] = r
          /\ \A k \in 1..Len(u) : v[k] = u[k]
      BY <2>3, <3>1
    <3>3. PICK m : /\ \A k \in 1..Len(u) : m[k] \in 1..i /\ u[k] = list[m[k]]
                   /\ \A k, l \in 1..Len(u) : k < l => m[k] < m[l]
      BY <2>3 DEF KeptUpTo
    <3>4. PICK w : w = [k \in 1..Len(v) |-> IF k = Len(v) THEN i + 1 ELSE m[k]]
      OBVIOUS
    <3>5. \A k \in 1..Len(v) : k \in 1..Len(u) \/ k = Len(v)
      BY <3>2
    <3>6. ASSUME NEW k \in 1..Len(v) PROVE w[k] \in 1..(i + 1) /\ v[k] = list[w[k]] /\ v[k].id \notin ids
      <4>1. CASE k = Len(v)
        BY <4>1, <2>2, <2>5, <3>2, <3>4
      <4>2. CASE k # Len(v)
        <5>1. k \in 1..Len(u) /\ w[k] = m[k]
          BY <4>2, <3>4, <3>5
        <5>2. m[k] \in 1..i /\ u[k] = list[m[k]] /\ u[k].id \notin ids
          BY <5>1, <3>3, <2>3 DEF KeptUpTo
        <5> QED BY <5>1, <5>2, <3>2
      <4> QED BY <4>1, <4>2
    <3>7. ASSUME NEW k \in 1..Len(v), NEW l \in 1..Len(v), k < l PROVE w[k] < w[l]
      <4>1. k \in 1..Len(u) /\ w[k] = m[k] /\ m[k] \in 1..i
        BY <3>2, <3>3, <3>4, <3>7
      <4>2. CASE l = Len(v)
        BY <4>1, <4>2, <3>4
      <4>3. CASE l # Len(v)
        <5>1. l \in 1..Len(u) /\ w[l] = m[l]
          BY <4>3, <3>4, <3>5
        <5> QED BY <5>1, <4>1, <3>3, <3>7
      <4> QED BY <4>2, <4>3
    <3>8. ASSUME NEW j \in 1..(i + 1), list[j].id \notin ids PROVE \E k \in 1..Len(v) : v[k] = list[j]
      <4>1. CASE j = i + 1
        <5>1. Len(u) + 1 \in 1..Len(v)
          BY <3>2
        <5> QED BY <5>1, <4>1, <3>2, <2>2
      <4>2. CASE j # i + 1
        <5>1. PICK k \in 1..Len(u) : u[k] = list[j]
          BY <4>2, <2>3, <3>8 DEF KeptUpTo
        <5>2. k \in 1..Len(v) /\ v[k] = u[k]
          BY <3>2
        <5> QED BY <5>1, <5>2
      <4> QED BY <4>1, <4>2
    <3>9. KeptUpTo(list, ids, v, i + 1)
      BY <3>6, <3>7, <3>8 DEF KeptUpTo
    <3> QED BY <2>2, <3>9
  <2> QED BY <2>4, <2>5
<1>5. Nat \subseteq G
  <2> HIDE DEF G
  <2> QED BY <1>3, <1>4, NatInduct
<1>6. Len(list) \in 0..Len(list) /\ KeptUpTo(list, ids, s, Len(list))
  BY <1>1, <1>2, <1>5
<1>7. s \in Seq(R)
  BY <1>2, <1>6
<1> QED BY <1>6, <1>7 DEF PickedFrom, KeptUpTo

\* ----- a book that is in order
NotCrossed(book) ==
    \A i \in 1..Len(book.bids), j \in 1..Len(book.asks) : book.bids[i].price < book.asks[j].price

GoodBook(book) ==
    /\ OneSide(book.bids, "BUY") /\ OneSide(book.asks, "SELL")
    /\ PriceOrdered(book.bids, "BUY") /\ PriceOrdered(book.asks, "SELL")
    /\ NotCrossed(book)

\* r is the order s, perhaps with less left of it.
SameOrder(r, s) ==
    /\ r.id = s.id /\ r.acct = s.acct /\ r.side = s.side /\ r.price = s.price
    /\ r.total = s.total /\ r.qty <= s.qty

LEMMA KeptFrom ==
    ASSUME NEW I, NEW A, NEW L, NEW list \in Seq(RestingIn(I, A)), NEW inc, NEW last,
           NEW st \in LoopsIn(I, A, L), Shape(list, last, inc, st, Len(list)),
           NEW k \in 1..Len(st.keep)
    PROVE  Len(st.closed) + k \in 1..Len(list) /\ SameOrder(st.keep[k], list[Len(st.closed) + k])
<1>1. PICK c, f, n : c = Len(st.closed) /\ f = Len(st.fills) /\ n = Len(st.keep)
  OBVIOUS
<1>2. c \in Nat /\ f \in Nat /\ n \in Nat /\ Len(list) \in Nat
  BY <1>1 DEF LoopsIn
<1>3. /\ c <= f /\ f <= c + 1 /\ c + n = Len(list)
      /\ \A j \in 1..n : (j > 1 \/ f = c) => st.keep[j] = list[c + j]
  BY <1>1 DEF Shape, Kept
<1>4. c + k \in 1..Len(list)
  <2>1. PICK m : m = Len(list) /\ m \in Nat /\ c + n = m /\ k \in 1..n
    BY <1>1, <1>2, <1>3
  <2>2. c + k \in 1..m
    BY <1>2, <2>1
  <2> QED BY <2>1, <2>2
<1>5. PICK r : r = list[c + k] /\ r \in RestingIn(I, A) /\ r.qty \in Nat
  <2>1. list[c + k] \in RestingIn(I, A)
    BY <1>4
  <2> QED BY <2>1, RestingFields
<1>6. CASE k > 1 \/ f = c
  <2>1. st.keep[k] = r
    BY <1>1, <1>3, <1>5, <1>6
  <2>2. SameOrder(r, r)
    BY <1>5 DEF SameOrder
  <2> QED BY <1>1, <1>4, <1>5, <2>1, <2>2
<1>7. CASE ~(k > 1 \/ f = c)
  <2>1. k = 1 /\ f = c + 1
    BY <1>1, <1>2, <1>3, <1>7
  <2>2. PICK q : q = st.fills[f].qty
    OBVIOUS
  <2>3. st.keep[1] = [r EXCEPT !.qty = r.qty - q]
    <3>1. Partial(list, st)
      BY DEF Shape
    <3>2. list[Len(st.fills)] = r
      BY <1>1, <1>5, <2>1
    <3> QED BY <1>1, <2>1, <2>2, <3>1, <3>2 DEF Partial
  <2>4. q \in Nat
    <3>1. f \in 1..Len(st.fills)
      BY <1>1, <1>2, <2>1
    <3>2. st.fills[f].qty \in Nat \ {0}
      BY <3>1 DEF Shape, Used
    <3> QED BY <2>2, <3>2
  <2>5. SameOrder(st.keep[1], r)
    BY <1>5, <2>3, <2>4 DEF SameOrder, RestingIn
  <2> QED BY <1>1, <1>4, <1>5, <2>1, <2>5
<1> QED BY <1>6, <1>7

\* s holds orders of t, perhaps with less left of them, in the order of t.
PartOf(s, t) ==
    \E m : /\ \A k \in 1..Len(s) : m[k] \in 1..Len(t) /\ SameOrder(s[k], t[m[k]])
           /\ \A k, l \in 1..Len(s) : k < l => m[k] < m[l]

LEMMA PartOrdered ==
    ASSUME NEW s, NEW t, PartOf(s, t), NEW side
    PROVE  /\ OneSide(t, side) => OneSide(s, side)
           /\ PriceOrdered(t, side) => PriceOrdered(s, side)
           /\ TimeOrdered(t) => TimeOrdered(s)
           /\ \A k \in 1..Len(s) : \E j \in 1..Len(t) : SameOrder(s[k], t[j])
<1>1. PICK m : /\ \A k \in 1..Len(s) : m[k] \in 1..Len(t) /\ SameOrder(s[k], t[m[k]])
               /\ \A k, l \in 1..Len(s) : k < l => m[k] < m[l]
  BY DEF PartOf
<1>2. OneSide(t, side) => OneSide(s, side)
  BY <1>1 DEF OneSide, SameOrder
<1>3. ASSUME PriceOrdered(t, side), NEW i \in 1..Len(s), NEW j \in 1..Len(s), i < j
      PROVE  ~Better(side, s[j].price, s[i].price)
  <2>1. ~Better(side, t[m[j]].price, t[m[i]].price)
    BY <1>1, <1>3 DEF PriceOrdered
  <2>2. s[j].price = t[m[j]].price /\ s[i].price = t[m[i]].price
    BY <1>1 DEF SameOrder
  <2> QED BY <2>1, <2>2
<1>4. ASSUME TimeOrdered(t), NEW i \in 1..Len(s), NEW j \in 1..Len(s), i < j
      PROVE  InFront(s[i], s[j])
  <2>1. InFront(t[m[i]], t[m[j]])
    BY <1>1, <1>4 DEF TimeOrdered
  <2>2. /\ s[i].side = t[m[i]].side /\ s[i].price = t[m[i]].price /\ s[i].id = t[m[i]].id
        /\ s[j].side = t[m[j]].side /\ s[j].price = t[m[j]].price /\ s[j].id = t[m[j]].id
    BY <1>1 DEF SameOrder
  <2> QED BY <2>1, <2>2 DEF InFront
<1>5. \A k \in 1..Len(s) : \E j \in 1..Len(t) : SameOrder(s[k], t[j])
  BY <1>1
<1> QED BY <1>2, <1>3, <1>4, <1>5 DEF PriceOrdered, TimeOrdered

LEMMA KeptIsPart ==
    ASSUME NEW I, NEW A, NEW L, NEW list \in Seq(RestingIn(I, A)), NEW inc, NEW last,
           NEW st \in LoopsIn(I, A, L), Shape(list, last, inc, st, Len(list))
    PROVE  PartOf(st.keep, list)
<1>1. PICK c, n : c = Len(st.closed) /\ n = Len(st.keep) /\ c \in Nat /\ n \in Nat
  <2>1. st.keep \in Seq(RestingIn(I, A)) /\ st.closed \in Seq(ClosesIn(I))
    BY DEF LoopsIn
  <2>2. Len(st.keep) \in Nat /\ Len(st.closed) \in Nat
    BY <2>1
  <2> QED BY <2>2
<1>2. PICK m : m = [k \in 1..n |-> c + k]
  OBVIOUS
<1>3. \A k \in 1..n : c + k \in 1..Len(list) /\ SameOrder(st.keep[k], list[c + k])
  BY <1>1, KeptFrom
<1>4. \A k \in 1..n : m[k] \in 1..Len(list) /\ SameOrder(st.keep[k], list[m[k]])
  BY <1>2, <1>3
<1>5. \A k, l \in 1..n : k < l => m[k] < m[l]
  BY <1>1, <1>2
<1> QED BY <1>1, <1>4, <1>5 DEF PartOf

LEMMA WithoutIsPart ==
    ASSUME NEW I, NEW A, NEW list \in Seq(RestingIn(I, A)), NEW ids, NEW s, s = ListWithout(list, ids)
    PROVE  s \in Seq(RestingIn(I, A)) /\ PartOf(s, list)
<1>1. PICK R : R = RestingIn(I, A)
  OBVIOUS
<1>2. list \in Seq(R)
  BY <1>1
<1>3. s \in Seq(R)
  BY <1>2, WithoutIs
<1>4. PICK m : PickedFrom(s, list, m)
  BY <1>2, WithoutIs
<1>5. \A k \in 1..Len(s) : m[k] \in 1..Len(list) /\ s[k] = list[m[k]]
  BY <1>4 DEF PickedFrom
<1>6. \A j \in 1..Len(list) : SameOrder(list[j], list[j])
  <2> TAKE j \in 1..Len(list)
  <2>1. list[j] \in RestingIn(I, A)
    OBVIOUS
  <2>2. list[j].qty \in Nat
    BY <2>1, RestingFields
  <2> QED BY <2>2 DEF SameOrder
<1>7. \A k \in 1..Len(s) : m[k] \in 1..Len(list) /\ SameOrder(s[k], list[m[k]])
  BY <1>5, <1>6
<1>8. \A k, l \in 1..Len(s) : k < l => m[k] < m[l]
  BY <1>4 DEF PickedFrom
<1> QED BY <1>1, <1>3, <1>7, <1>8 DEF PartOf

\* What an order does to the book: the list it trades against is what the loop
\* kept, and the list of its side has it put in or is as it was.
Applied(book, inc, st, b) ==
    /\ b = [bids |-> b.bids, asks |-> b.asks, last |-> st.last]
    /\ b[Opposite(inc.side)] = st.keep
    /\ \/ /\ st.left = 0 \/ st.end = "self" \/ inc.type = "MARKET"
          /\ b[ListOf(inc.side)] = book[ListOf(inc.side)]
       \/ /\ st.left > 0 /\ st.end # "self" /\ inc.type # "MARKET"
          /\ Inserted(book[ListOf(inc.side)],
                      [id |-> inc.id, acct |-> inc.acct, side |-> inc.side,
                       price |-> inc.price, qty |-> st.left, total |-> inc.qty],
                      b[ListOf(inc.side)])

LEMMA AppliedIs ==
    ASSUME NEW I, NEW A, NEW L, Nat \subseteq L, NEW book \in BooksIn(I, A, L),
           NEW inc \in IncomingIn(I, A), NEW st, st = MatchLoop(book, inc),
           NEW b, b = ApplyOrder(book, inc).book
    PROVE  b \in BooksIn(I, A, L) /\ Applied(book, inc, st, b)
<1>1. st \in LoopsIn(I, A, L)
  BY MatchShape
<1>2. st.left \in Nat /\ st.keep \in Seq(RestingIn(I, A)) /\ st.last \in L
  BY <1>1 DEF LoopsIn
<1>3. inc.side \in Sides /\ inc.id \in I /\ inc.acct \in A /\ inc.price \in Nat /\ inc.qty \in Nat
  BY DEF IncomingIn
<1>4. PICK same : same = book[ListOf(inc.side)] /\ same \in Seq(RestingIn(I, A))
  BY <1>3 DEF BooksIn, ListOf
<1>5. PICK matched : matched = [book EXCEPT ![Opposite(inc.side)] = st.keep, !.last = st.last]
  OBVIOUS
<1>6. /\ matched \in BooksIn(I, A, L) /\ matched.last = st.last
      /\ matched[Opposite(inc.side)] = st.keep /\ matched[ListOf(inc.side)] = same
  BY <1>2, <1>3, <1>4, <1>5 DEF BooksIn, Opposite, ListOf, Sides
<1>7. PICK taker : taker = [id |-> inc.id, acct |-> inc.acct, side |-> inc.side,
                    price |-> inc.price, qty |-> st.left, total |-> inc.qty]
  OBVIOUS
<1>8. CASE st.left = 0 \/ st.end = "self" \/ inc.type = "MARKET"
  <2>1. b = matched
    <3>1. CASE st.left = 0
      <4>1. ~(st.left > 0)
        BY <3>1
      <4> QED BY <1>5, <4>1 DEF ApplyOrder
    <3>2. CASE st.left # 0
      <4>1. st.left > 0 /\ (st.end = "self" \/ inc.type = "MARKET")
        BY <1>2, <1>8, <3>2
      <4> QED BY <1>5, <4>1 DEF ApplyOrder
    <3> QED BY <3>1, <3>2
  <2>2. b = [bids |-> b.bids, asks |-> b.asks, last |-> st.last]
    BY <1>6, <2>1 DEF BooksIn
  <2> QED BY <1>4, <1>6, <1>8, <2>1, <2>2 DEF Applied
<1>9. CASE ~(st.left = 0 \/ st.end = "self" \/ inc.type = "MARKET")
  <2>1. st.left > 0 /\ st.end # "self" /\ inc.type # "MARKET"
    BY <1>2, <1>9
  <2>2. b = InsertResting(matched, taker)
    BY <1>5, <1>7, <2>1 DEF ApplyOrder
  <2>3. taker \in RestingIn(I, A) /\ taker.side = inc.side
    BY <1>2, <1>3, <1>7, <2>1 DEF RestingIn
  <2>4. PICK T : T = {i \in 1..Len(same) : Better(taker.side, taker.price, same[i].price)}
    OBVIOUS
  <2>5. PICK at : at = IF T # {} THEN Min(T) ELSE 0
    OBVIOUS
  <2>6. PICK N : N = IF at = 0 THEN Append(same, taker) ELSE InsertAt(same, at, taker)
    OBVIOUS
  <2>7. b = [matched EXCEPT ![ListOf(inc.side)] = N]
    BY <1>6, <2>2, <2>3, <2>4, <2>5, <2>6 DEF InsertResting, SelectInSeq
  <2>8. N \in Seq(RestingIn(I, A)) /\ Inserted(same, taker, N)
    <3>1. PICK R : R = RestingIn(I, A)
      OBVIOUS
    <3>2. same \in Seq(R) /\ taker \in R
      BY <1>4, <2>3, <3>1
    <3>3. Inserts(same, taker, T, at, N)
      BY <2>4, <2>5, <2>6 DEF Inserts
    <3>4. N \in Seq(R) /\ Inserted(same, taker, N)
      BY <3>2, <3>3, InsertIs
    <3> QED BY <3>1, <3>4
  <2>9. /\ b \in BooksIn(I, A, L) /\ b.last = st.last
        /\ b[Opposite(inc.side)] = st.keep /\ b[ListOf(inc.side)] = N
    BY <1>3, <1>6, <2>7, <2>8 DEF BooksIn, Opposite, ListOf, Sides
  <2>10. b = [bids |-> b.bids, asks |-> b.asks, last |-> st.last]
    BY <2>9 DEF BooksIn
  <2> QED BY <1>4, <1>7, <2>1, <2>8, <2>9, <2>10 DEF Applied
<1> QED BY <1>8, <1>9

\* b comes before a: a bid below an ask, whichever of them is of this side.
Apart(side, mine, theirs) == IF side = "BUY" THEN mine < theirs ELSE theirs < mine

\* What rests crosses nothing that was kept.
LEMMA RestsApart ==
    ASSUME NEW I, NEW A, NEW L, NEW list \in Seq(RestingIn(I, A)),
           NEW inc \in IncomingIn(I, A), NEW last,
           NEW st \in LoopsIn(I, A, L), Shape(list, last, inc, st, Len(list)),
           st.left > 0, st.end # "self", inc.type # "MARKET",
           NEW other, other = IF inc.side = "BUY" THEN "SELL" ELSE "BUY",
           PriceOrdered(list, other), NEW k \in 1..Len(st.keep)
    PROVE  Apart(inc.side, inc.price, st.keep[k].price)
<1>1. Len(st.closed) + k \in 1..Len(list) /\ SameOrder(st.keep[k], list[Len(st.closed) + k])
  BY KeptFrom
<1>2. PICK c, n : c = Len(st.closed) /\ n = Len(st.keep) /\ c \in Nat /\ n \in Nat
  <2>1. st.keep \in Seq(RestingIn(I, A)) /\ st.closed \in Seq(ClosesIn(I))
    BY DEF LoopsIn
  <2>2. Len(st.keep) \in Nat /\ Len(st.closed) \in Nat
    BY <2>1
  <2> QED BY <2>2
<1>3. st.end = "done"
  <2>1. st.end \in {"run", "done", "self"}
    BY DEF LoopsIn
  <2>2. st.keep # <<>>
    <3>1. SUFFICES ASSUME st.keep = <<>> PROVE FALSE
      OBVIOUS
    <3>2. Len(st.keep) = 0
      BY <3>1
    <3> QED BY <3>2
  <2>3. st.end # "run"
    <3>1. LoopEnded(list, inc, st)
      BY DEF Shape
    <3>2. st.left # 0
      OBVIOUS
    <3> QED BY <2>2, <3>1, <3>2 DEF LoopEnded
  <2> QED BY <2>1, <2>3
<1>4. ~Crosses(inc, list[c + 1].price)
  BY <1>2, <1>3 DEF Shape, LoopEnded
<1>5. c + k \in 1..Len(list) /\ c + 1 \in 1..Len(list) /\ k \in Nat
  BY <1>1, <1>2
<1>6. PICK x, y, z : x = list[c + 1].price /\ y = list[c + k].price /\ z = inc.price
  OBVIOUS
<1>7. x \in Nat /\ y \in Nat /\ z \in Nat /\ inc.side \in Sides
  <2>1. list[c + 1] \in RestingIn(I, A) /\ list[c + k] \in RestingIn(I, A)
    BY <1>5
  <2> QED BY <2>1, <1>6, RestingFields DEF IncomingIn
<1>8. ~Better(other, y, x)
  <2>1. CASE k = 1
    BY <2>1, <1>6, <1>7 DEF Better
  <2>2. CASE k # 1
    <3>1. c + 1 < c + k
      BY <1>2, <1>5, <2>2
    <3> QED BY <3>1, <1>5, <1>6 DEF PriceOrdered
  <2> QED BY <2>1, <2>2
<1>9. Apart(inc.side, z, y)
  BY <1>4, <1>6, <1>7, <1>8 DEF Apart, Better, Crosses, Sides
<1> QED BY <1>1, <1>2, <1>6, <1>9 DEF SameOrder

\* The two sides of a good book, named from one of them.
LEMMA GoodFrom ==
    ASSUME NEW book, NEW side \in Sides,
           NEW other, other = IF side = "BUY" THEN "SELL" ELSE "BUY"
    PROVE  /\ Opposite(side) = ListOf(other) /\ ListOf(side) # Opposite(side) /\ other \in Sides
           /\ GoodBook(book) <=>
                 /\ OneSide(book[ListOf(side)], side) /\ OneSide(book[Opposite(side)], other)
                 /\ PriceOrdered(book[ListOf(side)], side)
                 /\ PriceOrdered(book[Opposite(side)], other)
                 /\ \A i \in 1..Len(book[ListOf(side)]), j \in 1..Len(book[Opposite(side)]) :
                       Apart(side, book[ListOf(side)][i].price, book[Opposite(side)][j].price)
<1>1. CASE side = "BUY"
  BY <1>1 DEF GoodBook, NotCrossed, Apart, ListOf, Opposite, Sides
<1>2. CASE side = "SELL"
  BY <1>2 DEF GoodBook, NotCrossed, Apart, ListOf, Opposite, Sides
<1> QED BY <1>1, <1>2 DEF Sides

LEMMA AppliedGood ==
    ASSUME NEW I, NEW A, NEW L, Nat \subseteq L, NEW book \in BooksIn(I, A, L), GoodBook(book),
           NEW inc \in IncomingIn(I, A), NEW st, st = MatchLoop(book, inc),
           NEW b \in BooksIn(I, A, L), Applied(book, inc, st, b)
    PROVE  GoodBook(b)
<1>1. PICK side, other : /\ side = inc.side /\ side \in Sides
                         /\ other = IF side = "BUY" THEN "SELL" ELSE "BUY"
  BY DEF IncomingIn
<1>2. PICK list, same, grown, K : /\ list = book[Opposite(side)] /\ same = book[ListOf(side)]
                                  /\ grown = b[ListOf(side)] /\ K = st.keep
  OBVIOUS
<1>3. /\ list \in Seq(RestingIn(I, A)) /\ st \in LoopsIn(I, A, L)
      /\ Shape(list, book.last, inc, st, Len(list))
  BY <1>1, <1>2, MatchShape
<1>4. same \in Seq(RestingIn(I, A))
  BY <1>1, <1>2 DEF BooksIn, ListOf
<1>5. /\ OneSide(same, side) /\ OneSide(list, other)
      /\ PriceOrdered(same, side) /\ PriceOrdered(list, other)
      /\ \A i \in 1..Len(same), j \in 1..Len(list) : Apart(side, same[i].price, list[j].price)
  BY <1>1, <1>2, GoodFrom
<1>6. OneSide(K, other) /\ PriceOrdered(K, other)
  <2>1. PartOf(K, list)
    BY <1>2, <1>3, KeptIsPart
  <2> QED BY <2>1, <1>5, PartOrdered
<1>7. \A i \in 1..Len(same), k \in 1..Len(K) : Apart(side, same[i].price, K[k].price)
  <2> TAKE i \in 1..Len(same), k \in 1..Len(K)
  <2>1. Len(st.closed) + k \in 1..Len(list) /\ SameOrder(K[k], list[Len(st.closed) + k])
    BY <1>2, <1>3, KeptFrom
  <2>2. PICK j \in 1..Len(list) : K[k].price = list[j].price
    BY <2>1 DEF SameOrder
  <2> QED BY <2>2, <1>5
<1>8. b[Opposite(side)] = K
  BY <1>1, <1>2 DEF Applied
<1>9. CASE grown = same
  <2>1. /\ OneSide(b[ListOf(side)], side) /\ OneSide(b[Opposite(side)], other)
        /\ PriceOrdered(b[ListOf(side)], side) /\ PriceOrdered(b[Opposite(side)], other)
        /\ \A i \in 1..Len(b[ListOf(side)]), j \in 1..Len(b[Opposite(side)]) :
              Apart(side, b[ListOf(side)][i].price, b[Opposite(side)][j].price)
    BY <1>2, <1>5, <1>6, <1>7, <1>8, <1>9
  <2> QED BY <1>1, <2>1, GoodFrom
<1>10. CASE grown # same
  <2>1. PICK o : o = [id |-> inc.id, acct |-> inc.acct, side |-> inc.side,
                      price |-> inc.price, qty |-> st.left, total |-> inc.qty]
    OBVIOUS
  <2>2. st.left > 0 /\ st.end # "self" /\ inc.type # "MARKET" /\ Inserted(same, o, grown)
    BY <1>1, <1>2, <1>10, <2>1 DEF Applied
  <2>3. o \in RestingIn(I, A) /\ o.side = side /\ o.price = inc.price
    <3>1. st.left \in Nat /\ st.left # 0
      BY <1>3, <2>2 DEF LoopsIn
    <3> QED BY <3>1, <1>1, <2>1 DEF RestingIn, IncomingIn
  <2>4. PICK p \in 1..(Len(same) + 1) : InsertedAt(same, o, p, grown)
    BY <2>2 DEF Inserted
  <2>5. OneSide(grown, side) /\ PriceOrdered(grown, side)
    BY <1>4, <1>5, <2>3, <2>4, InsertOrdered
  <2>6. \A i \in 1..Len(grown), k \in 1..Len(K) : Apart(side, grown[i].price, K[k].price)
    <3> TAKE i \in 1..Len(grown), k \in 1..Len(K)
    <3>1. CASE grown[i] = o
      <4>1. Apart(inc.side, inc.price, st.keep[k].price)
        BY <1>1, <1>2, <1>3, <1>5, <2>2, RestsApart
      <4> QED BY <4>1, <1>1, <1>2, <2>3, <3>1
    <3>2. CASE grown[i] # o
      <4>1. i < p \/ i > p
        <5>1. Len(grown) = Len(same) + 1 /\ grown[p] = o /\ Len(same) \in Nat
          BY <1>4, <2>4 DEF InsertedAt
        <5> QED BY <5>1, <3>2
      <4>2. \E j \in 1..Len(same) : grown[i] = same[j]
        BY <1>4, <2>3, <2>4, <4>1, InsertedFrom
      <4> QED BY <4>2, <1>7
    <3> QED BY <3>1, <3>2
  <2> QED BY <1>1, <1>2, <1>6, <1>8, <2>5, <2>6, GoodFrom
<1> QED BY <1>9, <1>10

LEMMA WithoutGood ==
    ASSUME NEW I, NEW A, NEW L, NEW book \in BooksIn(I, A, L), NEW ids,
           NEW b, b = WithoutOrders(book, ids)
    PROVE  /\ b \in BooksIn(I, A, L) /\ b.last = book.last
           /\ PartOf(b.bids, book.bids) /\ PartOf(b.asks, book.asks)
           /\ GoodBook(book) => GoodBook(b)
<1>1. PICK B, K, B1, K1 : B = book.bids /\ K = book.asks /\ B1 = ListWithout(B, ids) /\ K1 = ListWithout(K, ids)
  OBVIOUS
<1>2. B \in Seq(RestingIn(I, A)) /\ K \in Seq(RestingIn(I, A))
  BY <1>1 DEF BooksIn
<1>3. B1 \in Seq(RestingIn(I, A)) /\ PartOf(B1, B)
  BY <1>1, <1>2, WithoutIsPart
<1>4. K1 \in Seq(RestingIn(I, A)) /\ PartOf(K1, K)
  BY <1>1, <1>2, WithoutIsPart
<1>5. b = [bids |-> B1, asks |-> K1, last |-> book.last]
  BY <1>1 DEF WithoutOrders, BooksIn
<1>6. b \in BooksIn(I, A, L) /\ b.last = book.last /\ b.bids = B1 /\ b.asks = K1
  BY <1>3, <1>4, <1>5 DEF BooksIn
<1>7. ASSUME GoodBook(book) PROVE GoodBook(b)
  <2>1. OneSide(B1, "BUY") /\ PriceOrdered(B1, "BUY")
    BY <1>1, <1>3, <1>7, PartOrdered DEF GoodBook
  <2>2. OneSide(K1, "SELL") /\ PriceOrdered(K1, "SELL")
    BY <1>1, <1>4, <1>7, PartOrdered DEF GoodBook
  <2>3. \A i \in 1..Len(B1), j \in 1..Len(K1) : B1[i].price < K1[j].price
    <3> TAKE i \in 1..Len(B1), j \in 1..Len(K1)
    <3>1. PICK x \in 1..Len(B) : SameOrder(B1[i], B[x])
      BY <1>3, PartOrdered
    <3>2. PICK y \in 1..Len(K) : SameOrder(K1[j], K[y])
      BY <1>4, PartOrdered
    <3>3. B[x].price < K[y].price
      BY <1>1, <1>7 DEF GoodBook, NotCrossed
    <3> QED BY <3>1, <3>2, <3>3 DEF SameOrder
  <2> QED BY <1>6, <2>1, <2>2, <2>3 DEF GoodBook, NotCrossed
<1> QED BY <1>1, <1>3, <1>4, <1>6, <1>7

LEMMA EmptyGood ==
    ASSUME NEW I, NEW A, NEW L, NEW last \in L
    PROVE  EmptyBook(last) \in BooksIn(I, A, L) /\ GoodBook(EmptyBook(last))
<1>1. 1..Len(<<>>) = {}
  OBVIOUS
<1>2. EmptyBook(last) \in BooksIn(I, A, L)
  BY DEF EmptyBook, BooksIn
<1> QED BY <1>1, <1>2 DEF EmptyBook, GoodBook, OneSide, PriceOrdered, NotCrossed

\* ----- restart
LEMMA InsertRestingIs ==
    ASSUME NEW I, NEW A, NEW L, NEW book \in BooksIn(I, A, L), NEW o \in RestingIn(I, A),
           NEW b, b = InsertResting(book, o),
           NEW same, same = book[ListOf(o.side)], NEW N, N = b[ListOf(o.side)]
    PROVE  /\ b \in BooksIn(I, A, L) /\ b.last = book.last
           /\ b[Opposite(o.side)] = book[Opposite(o.side)]
           /\ same \in Seq(RestingIn(I, A)) /\ Inserted(same, o, N)
<1>1. o.side \in Sides
  BY RestingFields
<1>2. PICK R : R = RestingIn(I, A)
  OBVIOUS
<1>3. same \in Seq(R)
  BY <1>1, <1>2 DEF BooksIn, ListOf
<1>4. PICK T : T = {i \in 1..Len(same) : Better(o.side, o.price, same[i].price)}
  OBVIOUS
<1>5. PICK at : at = IF T # {} THEN Min(T) ELSE 0
  OBVIOUS
<1>6. PICK U : U = IF at = 0 THEN Append(same, o) ELSE InsertAt(same, at, o)
  OBVIOUS
<1>7. b = [book EXCEPT ![ListOf(o.side)] = U]
  BY <1>4, <1>5, <1>6 DEF InsertResting, SelectInSeq
<1>8. Inserts(same, o, T, at, U)
  BY <1>4, <1>5, <1>6 DEF Inserts
<1>9. U \in Seq(R) /\ Inserted(same, o, U)
  BY <1>2, <1>3, <1>8, InsertIs
<1>10. /\ b \in BooksIn(I, A, L) /\ b.last = book.last
       /\ b[Opposite(o.side)] = book[Opposite(o.side)] /\ b[ListOf(o.side)] = U
  BY <1>1, <1>2, <1>7, <1>9 DEF BooksIn, Opposite, ListOf, Sides
<1> QED BY <1>2, <1>3, <1>9, <1>10

\* The orders of a book, and the rows a restart reads.
InBook(book, r) ==
    (\E i \in 1..Len(book.bids) : book.bids[i] = r) \/ (\E i \in 1..Len(book.asks) : book.asks[i] = r)
RowsIn(I, A) == [id : I, acct : A, side : Sides, price : Nat, qty : Nat, total : Nat]

LEMMA InBookIs ==
    ASSUME NEW I, NEW A, NEW L, NEW book \in BooksIn(I, A, L), NEW r
    PROVE  InBook(book, r) <=> r \in BookOrders(book)
<1>1. book.bids \in Seq(RestingIn(I, A)) /\ book.asks \in Seq(RestingIn(I, A))
  BY DEF BooksIn
<1>2. DOMAIN book.bids = 1..Len(book.bids) /\ DOMAIN book.asks = 1..Len(book.asks)
  BY <1>1
<1> QED BY <1>2 DEF InBook, BookOrders, ToSet

LEMMA RestoreRowGood ==
    ASSUME NEW I, NEW A, NEW L, NEW book \in BooksIn(I, A, L), GoodBook(book),
           NEW row \in RowsIn(I, A), NEW b, b = RestoreRow(book, row)
    PROVE  /\ b \in BooksIn(I, A, L) /\ GoodBook(b) /\ b.last = book.last
           /\ \A r : InBook(b, r) => InBook(book, r) \/ r = row
<1>1. CASE row.qty = 0 \/ CrossesRestoredBook(book, row.side, row.price)
  BY <1>1 DEF RestoreRow
<1>2. CASE ~(row.qty = 0 \/ CrossesRestoredBook(book, row.side, row.price))
  <2>1. b = InsertResting(book, row)
    BY <1>2 DEF RestoreRow
  <2>2. row \in RestingIn(I, A)
    BY <1>2 DEF RowsIn, RestingIn
  <2>3. PICK side, other : /\ side = row.side /\ side \in Sides
                           /\ other = IF side = "BUY" THEN "SELL" ELSE "BUY"
    BY <2>2, RestingFields
  <2>4. PICK same, grown, list : /\ same = book[ListOf(side)] /\ grown = b[ListOf(side)]
                                 /\ list = book[Opposite(side)]
    OBVIOUS
  <2>5. /\ b \in BooksIn(I, A, L) /\ b.last = book.last /\ b[Opposite(side)] = list
        /\ same \in Seq(RestingIn(I, A)) /\ Inserted(same, row, grown)
    BY <2>1, <2>2, <2>3, <2>4, InsertRestingIs
  <2>6. PICK p \in 1..(Len(same) + 1) : InsertedAt(same, row, p, grown)
    BY <2>5 DEF Inserted
  <2>7. /\ OneSide(same, side) /\ OneSide(list, other)
        /\ PriceOrdered(same, side) /\ PriceOrdered(list, other)
        /\ \A i \in 1..Len(same), j \in 1..Len(list) : Apart(side, same[i].price, list[j].price)
    BY <2>3, <2>4, GoodFrom
  <2>8. OneSide(grown, side) /\ PriceOrdered(grown, side)
    BY <2>2, <2>3, <2>5, <2>6, <2>7, InsertOrdered
  <2>9. \A i \in 1..Len(grown) : grown[i] = row \/ \E j \in 1..Len(same) : grown[i] = same[j]
    <3> TAKE i \in 1..Len(grown)
    <3>1. i < p \/ i = p \/ i > p
      BY <2>5, <2>6 DEF InsertedAt
    <3> QED BY <2>2, <2>5, <2>6, <3>1, InsertedFrom
  <2>10. list \in Seq(RestingIn(I, A)) /\ DOMAIN list = 1..Len(list)
    <3>1. list \in Seq(RestingIn(I, A))
      BY <2>3, <2>4 DEF BooksIn, Opposite
    <3> QED BY <3>1
  <2>11. \A j \in 1..Len(list) : Apart(side, row.price, list[j].price)
    <3> TAKE j \in 1..Len(list)
    <3>1. PICK a : a = list[j] /\ a \in RestingIn(I, A) /\ a \in ToSet(list)
      BY <2>10 DEF ToSet
    <3>2. a.price \in Nat /\ row.price \in Nat
      BY <2>2, <3>1, RestingFields
    <3>3. IF side = "BUY" THEN ~(row.price >= a.price) ELSE ~(row.price <= a.price)
      BY <1>2, <2>3, <2>4, <3>1 DEF CrossesRestoredBook, Opposite, Sides
    <3> QED BY <3>1, <3>2, <3>3 DEF Apart
  <2>12. GoodBook(b)
    <3>1. /\ OneSide(b[ListOf(side)], side) /\ OneSide(b[Opposite(side)], other)
          /\ PriceOrdered(b[ListOf(side)], side) /\ PriceOrdered(b[Opposite(side)], other)
          /\ \A i \in 1..Len(b[ListOf(side)]), j \in 1..Len(b[Opposite(side)]) :
                Apart(side, b[ListOf(side)][i].price, b[Opposite(side)][j].price)
      BY <2>4, <2>5, <2>7, <2>8, <2>9, <2>11
    <3> QED BY <2>3, <3>1, GoodFrom
  <2>13. ASSUME NEW r, InBook(b, r) PROVE InBook(book, r) \/ r = row
    <3>1. \/ \E i \in 1..Len(grown) : grown[i] = r
          \/ \E i \in 1..Len(list) : list[i] = r
      BY <2>3, <2>4, <2>5, <2>13 DEF InBook, ListOf, Opposite, Sides
    <3>2. r = row \/ (\E i \in 1..Len(same) : same[i] = r) \/ (\E i \in 1..Len(list) : list[i] = r)
      BY <3>1, <2>9
    <3> QED BY <3>2, <2>3, <2>4 DEF InBook, ListOf, Opposite, Sides
  <2> QED BY <2>5, <2>12, <2>13
<1> QED BY <1>1, <1>2

\* ----- the replay, row by row
GoodBooksIn(I, A, L) == {b \in BooksIn(I, A, L) : GoodBook(b)}

RestoreStep(last, rows, g, T) ==
    IF T = {} THEN EmptyBook(last) ELSE RestoreRow(g[T \ {Max(T)}], rows[Max(T)])

LEMMA RestoreIterates ==
    ASSUME NEW I, NEW A, NEW L, NEW last \in L, NEW rows \in Seq(RowsIn(I, A)),
           NEW V, V = GoodBooksIn(I, A, L)
    PROVE  \E f \in [0..Len(rows) -> V] :
              /\ f[0] = EmptyBook(last) /\ f[Len(rows)] = RestoreBook(last, rows)
              /\ \A i \in 0..(Len(rows) - 1) : f[i + 1] = RestoreRow(f[i], rows[i + 1])
<1> DEFINE n == Len(rows)
           start == EmptyBook(last)
           step == [i \in 1..n |-> [v \in V |-> RestoreRow(v, rows[i])]]
           Iter(g) == g = [T \in SUBSET DOMAIN rows |-> RestoreStep(last, rows, g, T)]
<1>1. n \in Nat /\ DOMAIN rows = 1..n /\ \A i \in 1..n : rows[i] \in RowsIn(I, A)
  OBVIOUS
<1>2. start \in V
  BY EmptyGood DEF GoodBooksIn
<1>3. \A i \in 1..n : \A v \in V : RestoreRow(v, rows[i]) \in V
  <2> TAKE i \in 1..n
  <2> TAKE v \in V
  <2>1. PICK row, b : row = rows[i] /\ b = RestoreRow(v, row) /\ row \in RowsIn(I, A)
    BY <1>1
  <2>2. v \in BooksIn(I, A, L) /\ GoodBook(v)
    BY DEF GoodBooksIn
  <2>3. b \in BooksIn(I, A, L) /\ GoodBook(b)
    BY <2>1, <2>2, RestoreRowGood
  <2> QED BY <2>1, <2>3 DEF GoodBooksIn
<1>4. PICK g \in [SUBSET (1..n) -> V] : FoldsFrom(n, start, step, g)
  <2>1. \A i \in 1..n : \A v \in V : step[i][v] \in V
    BY <1>3
  <2> HIDE DEF step, start, n
  <2> QED BY <1>1, <1>2, <2>1, FoldIterates
<1>5. Iter(g)
  <2>1. \A T \in SUBSET (1..n) : T # {} => Max(T) \in 1..n /\ T \ {Max(T)} \in SUBSET (1..n)
    BY <1>1, GreatestExists
  <2>2. \A T \in SUBSET (1..n) : g[T] = RestoreStep(last, rows, g, T)
    <3> TAKE T \in SUBSET (1..n)
    <3>1. CASE T = {}
      BY <3>1, <1>4 DEF FoldsFrom, RestoreStep
    <3>2. CASE T # {}
      <4>1. PICK m \in 1..n : m = Max(T) /\ T \ {m} \in SUBSET (1..n)
        BY <2>1, <3>2
      <4>2. g[T] = step[m][g[T \ {m}]] /\ g[T \ {m}] \in V
        BY <1>4, <3>2, <4>1 DEF FoldsFrom
      <4>3. step[m][g[T \ {m}]] = RestoreRow(g[T \ {m}], rows[m])
        BY <4>2
      <4> QED BY <3>2, <4>1, <4>2, <4>3 DEF RestoreStep
    <3> QED BY <3>1, <3>2
  <2> HIDE DEF step, start, n
  <2> QED BY <1>1, <2>2
<1> DEFINE c == CHOOSE h : Iter(h)
<1>6. Iter(c)
  <2> HIDE DEF Iter
  <2> QED BY <1>5
<1>7. RestoreBook(last, rows) = c[DOMAIN rows]
  BY DEF RestoreBook, FoldLeft, MapThenFoldSet, RestoreStep
<1> DEFINE f == [i \in 0..n |-> c[1..i]]
<1>8. f[0] = EmptyBook(last)
  <2>1. 1..0 = {} /\ 1..0 \in SUBSET (1..n) /\ 0 \in 0..n
    BY <1>1
  <2> HIDE DEF n
  <2> QED BY <1>1, <1>6, <2>1 DEF RestoreStep
<1>9. \A i \in 0..(n - 1) : f[i + 1] = RestoreRow(f[i], rows[i + 1])
  <2> TAKE i \in 0..(n - 1)
  <2>1. PICK T : T = 1..(i + 1)
    OBVIOUS
  <2>2. T \in SUBSET (1..n) /\ T # {} /\ i \in Nat /\ i \in 0..n /\ i + 1 \in 0..n
    <3> HIDE DEF n
    <3>1. i \in Nat /\ i \in 0..n /\ i + 1 \in 0..n
      BY <1>1
    <3>2. T \in SUBSET (1..n) /\ i + 1 \in T
      BY <1>1, <2>1
    <3> QED BY <3>1, <3>2
  <2>3. Max(T) = i + 1 /\ T \ {i + 1} = 1..i
    BY <2>1, <2>2, GreatestOfInterval
  <2>4. c[T] = RestoreStep(last, rows, c, T)
    <3> HIDE DEF c, n
    <3> QED BY <1>1, <1>6, <2>2
  <2>5. c[T] = RestoreRow(c[1..i], rows[i + 1])
    BY <2>2, <2>3, <2>4 DEF RestoreStep
  <2> HIDE DEF c
  <2> QED BY <2>1, <2>2, <2>5
<1>10. f[n] = RestoreBook(last, rows)
  <2>1. n \in 0..n
    BY <1>1
  <2> HIDE DEF c, n
  <2> QED BY <1>1, <1>7, <2>1
<1>11. \A i \in 0..n : f[i] \in V
  <2> DEFINE G == {i \in Nat : i <= n => f[i] \in V}
  <2>1. 0 \in G
    BY <1>2, <1>8
  <2>2. ASSUME NEW i \in Nat, i \in G PROVE i + 1 \in G
    <3> SUFFICES ASSUME i + 1 <= n PROVE f[i + 1] \in V
      OBVIOUS
    <3>1. i \in 0..(n - 1) /\ i + 1 \in 1..n /\ i <= n
      BY <1>1
    <3>2. f[i + 1] = RestoreRow(f[i], rows[i + 1]) /\ f[i] \in V
      BY <3>1, <1>9, <2>2
    <3> HIDE DEF f, n
    <3> QED BY <3>1, <3>2, <1>3
  <2>3. Nat \subseteq G
    <3> HIDE DEF G
    <3> QED BY <2>1, <2>2, NatInduct
  <2> HIDE DEF f
  <2> QED BY <2>3, <1>1
<1> HIDE DEF c
<1>12. f \in [0..n -> V]
  BY <1>11
<1> HIDE DEF f
<1> QED BY <1>8, <1>9, <1>10, <1>12

\* What a replay may put in the book.
FromRows(book, rows) == \A r : InBook(book, r) => \E i \in 1..Len(rows) : r = rows[i]

LEMMA RestoreBookGood ==
    ASSUME NEW I, NEW A, NEW L, NEW last \in L, NEW rows \in Seq(RowsIn(I, A)),
           NEW b, b = RestoreBook(last, rows)
    PROVE  b \in BooksIn(I, A, L) /\ GoodBook(b) /\ b.last = last /\ FromRows(b, rows)
<1>1. PICK V : V = GoodBooksIn(I, A, L)
  OBVIOUS
<1>2. PICK f \in [0..Len(rows) -> V] :
              /\ f[0] = EmptyBook(last) /\ f[Len(rows)] = b
              /\ \A i \in 0..(Len(rows) - 1) : f[i + 1] = RestoreRow(f[i], rows[i + 1])
  BY <1>1, RestoreIterates
<1>3. Len(rows) \in Nat /\ \A i \in 1..Len(rows) : rows[i] \in RowsIn(I, A)
  OBVIOUS
<1> DEFINE G == {i \in Nat : i <= Len(rows) => f[i].last = last /\ FromRows(f[i], rows)}
<1>4. 0 \in G
  <2>1. 1..Len(<<>>) = {}
    OBVIOUS
  <2>2. FromRows(EmptyBook(last), rows) /\ EmptyBook(last).last = last
    BY <2>1 DEF FromRows, EmptyBook, InBook
  <2> QED BY <1>2, <2>2
<1>5. ASSUME NEW i \in Nat, i \in G PROVE i + 1 \in G
  <2> SUFFICES ASSUME i + 1 <= Len(rows) PROVE f[i + 1].last = last /\ FromRows(f[i + 1], rows)
    OBVIOUS
  <2>1. i \in 0..(Len(rows) - 1) /\ i \in 0..Len(rows) /\ i + 1 \in 1..Len(rows) /\ i <= Len(rows)
    BY <1>3
  <2>2. PICK v, w, row : v = f[i] /\ w = f[i + 1] /\ row = rows[i + 1] /\ row \in RowsIn(I, A)
    BY <1>3, <2>1
  <2>3. v \in V /\ w = RestoreRow(v, row) /\ v.last = last /\ FromRows(v, rows)
    BY <1>2, <1>5, <2>1, <2>2
  <2>4. v \in BooksIn(I, A, L) /\ GoodBook(v)
    BY <1>1, <2>3 DEF GoodBooksIn
  <2>5. w.last = v.last /\ \A r : InBook(w, r) => InBook(v, r) \/ r = row
    BY <2>2, <2>3, <2>4, RestoreRowGood
  <2>6. FromRows(w, rows)
    BY <2>1, <2>2, <2>3, <2>5 DEF FromRows
  <2> QED BY <2>2, <2>3, <2>5, <2>6
<1>6. Nat \subseteq G
  <2> HIDE DEF G
  <2> QED BY <1>4, <1>5, NatInduct
<1>7. Len(rows) \in 0..Len(rows)
  BY <1>3
<1>8. b.last = last /\ FromRows(b, rows)
  BY <1>2, <1>3, <1>6
<1>9. b \in V
  BY <1>2, <1>7
<1> QED BY <1>1, <1>8, <1>9 DEF GoodBooksIn

\* ----- a sequence behind another
LEMMA AlongConcat ==
    ASSUME NEW T, NEW s \in Seq(T), NEW t \in Seq(T), NEW u \in Seq(T),
           Joined(s, t, u), NEW w \in [T -> Int]
    PROVE  SumAlong(u, w) = SumAlong(s, w) + SumAlong(t, w)
<1>1. PICK n, m : n = Len(s) /\ m = Len(t) /\ n \in Nat /\ m \in Nat
  BY SeqDomain
<1>2. u \in Seq(T) /\ Joined(s, t, u) /\ DOMAIN u = 1..Len(u) /\ DOMAIN s = 1..Len(s)
      /\ DOMAIN t = 1..Len(t)
  BY SeqDomain
<1>3. /\ DOMAIN s = 1..n /\ DOMAIN t = 1..m /\ DOMAIN u = 1..(n + m)
      /\ \A k \in 1..n : u[k] = s[k]
      /\ \A k \in 1..m : u[n + k] = t[k]
  BY <1>1, <1>2 DEF Joined
<1>4. PICK f, g, h : /\ f = [i \in DOMAIN u |-> w[u[i]]] /\ g = [i \in DOMAIN s |-> w[s[i]]]
                     /\ h = [i \in DOMAIN t |-> w[t[i]]]
  OBVIOUS
<1>5. /\ \A i \in 1..(n + m) : f[i] \in Int
      /\ \A i \in 1..n : g[i] \in Int /\ f[i] = g[i]
      /\ \A i \in 1..m : h[i] \in Int /\ f[n + i] = h[i]
  <2>1. \A i \in 1..(n + m) : u[i] \in T
    BY <1>2, <1>3, SeqDomain
  <2>2. \A i \in 1..n : i \in 1..(n + m)
    BY <1>1
  <2>3. \A i \in 1..m : n + i \in 1..(n + m)
    BY <1>1
  <2> QED BY <1>3, <1>4, <2>1, <2>2, <2>3
<1>6. SumAlong(u, w) = SumOver(f, 1..(n + m)) /\ SumAlong(s, w) = SumOver(g, 1..n)
      /\ SumAlong(t, w) = SumOver(h, 1..m)
  BY <1>3, <1>4 DEF SumAlong
<1>7. SumOver(g, 1..n) = SumOver(f, 1..n) /\ SumOver(f, 1..n) \in Int
  <2>1. IsFiniteSet(1..n) /\ \A i \in 1..n : f[i] \in Int /\ g[i] = f[i]
    <3>1. 1 \in Int /\ n \in Int
      BY <1>1
    <3> QED BY <1>5, <3>1, FS_Interval
  <2> QED BY <2>1, SumSame, SumType
<1> DEFINE G == {k \in Nat : k <= m => SumOver(f, 1..(n + k)) = SumOver(f, 1..n) + SumOver(h, 1..k)}
<1>8. 0 \in G
  <2>1. 1..0 = {} /\ n + 0 = n
    BY <1>1
  <2>2. SumOver(h, 1..0) = 0
    BY <2>1, SumEmpty
  <2> QED BY <1>7, <2>1, <2>2
<1>9. ASSUME NEW k \in Nat, k \in G PROVE k + 1 \in G
  <2>1. SUFFICES ASSUME k + 1 <= m
                 PROVE  SumOver(f, 1..(n + (k + 1))) = SumOver(f, 1..n) + SumOver(h, 1..(k + 1))
    OBVIOUS
  <2>2. SumOver(f, 1..(n + k)) = SumOver(f, 1..n) + SumOver(h, 1..k)
    BY <1>1, <1>9, <2>1
  <2>3. PICK a \in Nat : a = n + k /\ a + 1 = n + (k + 1)
    BY <1>1
  <2>4. \A j \in 1..(a + 1) : f[j] \in Int
    BY <1>1, <1>5, <2>1, <2>3
  <2>5. SumOver(f, 1..(a + 1)) = SumOver(f, 1..a) + f[a + 1]
    BY <2>4, SumAppend
  <2>6. \A j \in 1..(k + 1) : h[j] \in Int
    BY <1>1, <1>5, <2>1
  <2>7. SumOver(h, 1..(k + 1)) = SumOver(h, 1..k) + h[k + 1]
    BY <2>6, SumAppend
  <2>8. f[a + 1] = h[k + 1]
    <3>1. k + 1 \in 1..m
      BY <1>1, <2>1
    <3> QED BY <1>5, <2>3, <3>1
  <2>9. SumOver(h, 1..k) \in Int /\ h[k + 1] \in Int
    <3>1. IsFiniteSet(1..k) /\ \A j \in 1..k : h[j] \in Int
      <4>1. 1 \in Int /\ k \in Int /\ \A j \in 1..k : j \in 1..(k + 1)
        OBVIOUS
      <4> QED BY <2>6, <4>1, FS_Interval
    <3>2. k + 1 \in 1..(k + 1)
      OBVIOUS
    <3> QED BY <2>6, <3>1, <3>2, SumType
  <2> QED BY <1>7, <2>2, <2>3, <2>5, <2>7, <2>8, <2>9
<1>10. m \in G
  <2> HIDE DEF G
  <2> QED BY <1>1, <1>8, <1>9, NatInduct
<1>11. SumOver(f, 1..(n + m)) = SumOver(f, 1..n) + SumOver(h, 1..m)
  BY <1>1, <1>10
<1> QED BY <1>6, <1>7, <1>11

\* All others count for nothing.
LEMMA SumOfOne ==
    ASSUME NEW S, IsFiniteSet(S), NEW f, NEW x \in S, f[x] \in Int, \A y \in S \ {x} : f[y] = 0
    PROVE  SumOver(f, S) = f[x]
<1>1. \A y \in S : f[y] \in Int
  OBVIOUS
<1>2. SumOver(f, S) = f[x] + SumOver(f, S \ {x})
  BY <1>1, SumRemove
<1>3. IsFiniteSet(S \ {x})
  BY FS_RemoveElement
<1>4. SumOver(f, S \ {x}) = 0
  BY <1>3, SumOfZeros
<1> QED BY <1>2, <1>4

\* ----- the loop takes from the incoming order what it fills
QtyOf(I) == [x \in FillsIn(I) |-> x.qty]

LEMMA MatchSum ==
    ASSUME NEW I, NEW A, NEW L, Nat \subseteq L, NEW book \in BooksIn(I, A, L),
           NEW inc \in IncomingIn(I, A), NEW st, st = MatchLoop(book, inc)
    PROVE  st.left + SumAlong(st.fills, QtyOf(I)) = inc.qty
<1>1. PICK list : list = book[Opposite(inc.side)]
  OBVIOUS
<1>2. list \in Seq(RestingIn(I, A)) /\ Len(list) \in Nat
  <2>1. list \in Seq(RestingIn(I, A))
    BY <1>1 DEF BooksIn, IncomingIn, Opposite
  <2> QED BY <2>1
<1>3. PICK f \in [0..Len(list) -> LoopsIn(I, A, L)] :
          MatchRun(list, book.last, inc, f) /\ f[Len(list)] = st
  BY <1>1, MatchIterates
<1>4. PICK w : w = QtyOf(I) /\ w \in [FillsIn(I) -> Int] /\ \A x \in FillsIn(I) : w[x] = x.qty
  BY DEF QtyOf, FillsIn
<1>5. inc.qty \in Nat
  BY DEF IncomingIn
<1> DEFINE G == {i \in Nat : i <= Len(list) => f[i].left + SumAlong(f[i].fills, w) = inc.qty}
<1>6. 0 \in G
  <2>1. f[0].left = inc.qty /\ f[0].fills = <<>>
    BY <1>3 DEF MatchRun, MatchStart
  <2>2. SumAlong(<<>>, w) = 0
    <3>1. DOMAIN <<>> = {}
      OBVIOUS
    <3> QED BY <3>1, SumEmpty DEF SumAlong
  <2> QED BY <1>5, <2>1, <2>2
<1>7. ASSUME NEW i \in Nat, i \in G PROVE i + 1 \in G
  <2>1. SUFFICES ASSUME i + 1 <= Len(list)
                 PROVE  f[i + 1].left + SumAlong(f[i + 1].fills, w) = inc.qty
    OBVIOUS
  <2>2. /\ i \in 0..Len(list) /\ i + 1 \in 1..Len(list) /\ i \in 0..(Len(list) - 1)
        /\ f[i].left + SumAlong(f[i].fills, w) = inc.qty
    BY <1>2, <1>7, <2>1
  <2>3. PICK s, t, maker : /\ s = f[i] /\ t = f[i + 1] /\ maker = list[i + 1]
                           /\ t = MatchMaker(inc, s, maker)
                           /\ s \in LoopsIn(I, A, L) /\ maker \in RestingIn(I, A)
    BY <1>2, <1>3, <2>2 DEF MatchRun
  <2>4. s.left \in Nat /\ s.fills \in Seq(FillsIn(I))
    BY <2>3 DEF LoopsIn
  <2>5. SumAlong(s.fills, w) \in Int
    BY <1>4, <2>4, AlongType
  <2>6. CASE t.left = s.left /\ t.fills = s.fills
    BY <2>2, <2>3, <2>6
  <2>7. CASE t = FillMaker(inc, s, maker)
    <3>1. PICK q \in Nat : FilledTo(inc, s, maker, q, t)
      BY <2>3, <2>7, FillIs
    <3>2. PICK x : x = [price |-> maker.price, qty |-> q, maker |-> maker.id, taker |-> inc.id]
      OBVIOUS
    <3>3. x \in FillsIn(I) /\ x.qty = q
      BY <2>3, <3>2 DEF FillsIn, RestingIn, IncomingIn
    <3>4. t.left = s.left - q /\ t.fills = Append(s.fills, x)
      BY <3>1, <3>2 DEF FilledTo
    <3>5. SumAlong(t.fills, w) = SumAlong(s.fills, w) + w[x]
      BY <1>4, <2>4, <3>3, <3>4, AlongAppend
    <3>6. w[x] = q
      BY <1>4, <3>3
    <3> QED BY <2>2, <2>3, <2>4, <2>5, <3>4, <3>5, <3>6
  <2>8. \/ t.left = s.left /\ t.fills = s.fills
        \/ t = FillMaker(inc, s, maker)
    <3>1. s = [left |-> s.left, keep |-> s.keep, fills |-> s.fills, closed |-> s.closed,
               last |-> s.last, end |-> s.end]
      BY <2>3 DEF LoopsIn
    <3>2. \A e : /\ KeepMaker(s, maker, e).left = s.left
                 /\ KeepMaker(s, maker, e).fills = s.fills
      BY <3>1 DEF KeepMaker
    <3> QED BY <2>3, <3>2 DEF MatchMaker
  <2> QED BY <2>6, <2>7, <2>8
<1>8. Len(list) \in G
  <2> HIDE DEF G
  <2> QED BY <1>2, <1>6, <1>7, NatInduct
<1> QED BY <1>2, <1>3, <1>4, <1>8
=============================================================================
