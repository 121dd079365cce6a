----------------------------- MODULE FiniteSums -----------------------------
(***************************************************************************)
(* Facts about SumFunctionOnSet(g, S), the sum of g[x] over the elements x *)
(* of a finite set S, which the ledger of the risk gateway, the open live  *)
(* orders and the executions of the router's loop are stated with.         *)
(*                                                                         *)
(* The library defines the sum by a recursive function that takes away one *)
(* chosen element at a time.  Each fact that holds of all subsets is       *)
(* proved by a smallest subset it does not hold of.                        *)
(***************************************************************************)
EXTENDS Functions, FiniteSetTheorems, TLAPS

Chosen(T) == CHOOSE x \in T : TRUE

\* F sums g up over the subsets of S, in the order of the library's sum.
SumsUp(F, g, S) ==
    \A T \in SUBSET S :
        F[T] = IF T = {} THEN 0 ELSE g[Chosen(T)] + F[T \ {Chosen(T)}]

\* Among subsets of a finite set there is a smallest one.
LEMMA SmallestSubset ==
    ASSUME NEW S, IsFiniteSet(S), NEW C \in SUBSET (SUBSET S), C # {}
    PROVE  \E T \in C : \A U \in C : U \subseteq T => U = T
<1>1. IsWellFoundedOn(StrictSubsetOrdering(S), SUBSET S)
  BY FS_StrictSubsetOrderingWellFounded, FS_FiniteSubsetsOfFinite
<1>2. PICK T \in C : \A U \in C : ~(<<U, T>> \in StrictSubsetOrdering(S))
  BY <1>1, WFMin
<1>3. ASSUME NEW U \in C, U \subseteq T PROVE U = T
  BY <1>2, <1>3 DEF StrictSubsetOrdering
<1>. QED
  BY <1>3

\* Two ways to sum up agree on a set on which the functions agree.
LEMMA SumsAgree ==
    ASSUME NEW F, NEW g, NEW S, SumsUp(F, g, S),
           NEW G, NEW h, NEW R, SumsUp(G, h, R),
           NEW T, IsFiniteSet(T), T \subseteq S, T \subseteq R,
           \A x \in T : g[x] = h[x]
    PROVE  F[T] = G[T]
<1>. DEFINE C == {U \in SUBSET T : F[U] # G[U]}
<1>. SUFFICES ASSUME C # {} PROVE FALSE
  OBVIOUS
<1>0. C \in SUBSET (SUBSET T)
  OBVIOUS
<1>. HIDE DEF C
<1>1. PICK U \in C : \A V \in C : V \subseteq U => V = U
  BY <1>0, SmallestSubset
<1>. USE DEF C
<1>2. U # {}
  BY DEF SumsUp
<1>3. Chosen(U) \in U
  BY <1>2 DEF Chosen
<1>. DEFINE V == U \ {Chosen(U)}
<1>4. F[V] = G[V]
  BY <1>1, <1>3
<1>5. F[U] = g[Chosen(U)] + F[V] /\ G[U] = h[Chosen(U)] + G[V]
  BY <1>2 DEF SumsUp
<1>. QED
  BY <1>3, <1>4, <1>5

\* There is a way to sum up integers.
LEMMA SumsExist ==
    ASSUME NEW g, NEW S, IsFiniteSet(S), \A x \in S : g[x] \in Int
    PROVE  \E F \in [SUBSET S -> Int] : SumsUp(F, g, S)
<1>. DEFINE Good(T) == \E F \in [SUBSET T -> Int] : SumsUp(F, g, T)
            C == {T \in SUBSET S : ~Good(T)}
<1>. SUFFICES ASSUME C # {} PROVE FALSE
  OBVIOUS
<1>0. C \in SUBSET (SUBSET S)
  OBVIOUS
<1>. HIDE DEF C
<1>1. PICK T \in C : \A U \in C : U \subseteq T => U = T
  BY <1>0, SmallestSubset
<1>. USE DEF C
<1>2. \A U \in SUBSET T : U # T => Good(U)
  BY <1>1
<1>. DEFINE Of(U)   == CHOOSE F \in [SUBSET U -> Int] : SumsUp(F, g, U)
            Rest    == T \ {Chosen(T)}
            Last    == IF T = {} THEN 0 ELSE g[Chosen(T)] + Of(Rest)[Rest]
            Whole   == [U \in SUBSET T |-> IF U = T THEN Last ELSE Of(U)[U]]
<1>3. \A U \in SUBSET T : U # T => Of(U) \in [SUBSET U -> Int] /\ SumsUp(Of(U), g, U)
  BY <1>2
<1>. HIDE DEF Of, Good
<1>4. T # {} => Chosen(T) \in T
  BY DEF Chosen
<1>5. Last \in Int
  <2>1. CASE T = {}
    BY <2>1
  <2>2. CASE T # {}
    <3>1. Rest \in SUBSET T /\ Rest # T /\ g[Chosen(T)] \in Int
      BY <1>4, <2>2
    <3>2. Of(Rest) \in [SUBSET Rest -> Int]
      BY <1>3, <3>1
    <3>3. Of(Rest)[Rest] \in Int
      BY <3>2
    <3>. QED
      BY <2>2, <3>1, <3>3
  <2>. QED
    BY <2>1, <2>2
<1>6. Whole \in [SUBSET T -> Int]
  BY <1>3, <1>5
<1>7. SumsUp(Whole, g, T)
  <2>. SUFFICES ASSUME NEW U \in SUBSET T
                PROVE  Whole[U] = IF U = {} THEN 0
                                  ELSE g[Chosen(U)] + Whole[U \ {Chosen(U)}]
    BY DEF SumsUp
  <2>0. U # {} => Chosen(U) \in U
    BY DEF Chosen
  <2>1. CASE U = T
    <3>1. U # {} => Whole[Rest] = Of(Rest)[Rest]
      BY <2>1, <1>4
    <3>. QED
      BY <2>1, <3>1
  <2>2. CASE U # T /\ U = {}
    <3>1. Whole[U] = Of(U)[U]
      BY <2>2
    <3>2. Of(U)[U] = 0
      BY <1>3, <2>2 DEF SumsUp
    <3>. QED
      BY <2>2, <3>1, <3>2
  <2>3. CASE U # T /\ U # {}
    <3>. DEFINE V == U \ {Chosen(U)}
    <3>1. V \in SUBSET U /\ V # T /\ V \in SUBSET T
      BY <2>0, <2>3
    <3>2. Whole[U] = Of(U)[U] /\ Whole[V] = Of(V)[V]
      BY <2>3, <3>1
    <3>3. Of(U)[U] = g[Chosen(U)] + Of(U)[V]
      BY <1>3, <2>3 DEF SumsUp
    <3>4. IsFiniteSet(V)
      BY <3>1, FS_Subset
    <3>5. SumsUp(Of(U), g, U) /\ SumsUp(Of(V), g, V)
      BY <1>3, <2>3, <3>1
    <3>. HIDE DEF V
    <3>6. Of(U)[V] = Of(V)[V]
      BY <3>1, <3>4, <3>5, SumsAgree
    <3>. QED
      BY <2>3, <3>2, <3>3, <3>6 DEF V
  <2>. QED
    BY <2>1, <2>2, <2>3
<1>8. Good(T)
  BY <1>6, <1>7 DEF Good
<1>. QED
  BY <1>1, <1>8

\* The sum of the library is the one that any way to sum up arrives at.
LEMMA SumIsAny ==
    ASSUME NEW g, NEW S, IsFiniteSet(S),
           NEW F \in [SUBSET S -> Int], SumsUp(F, g, S)
    PROVE  SumFunctionOnSet(g, S) = F[S]
<1>. DEFINE Step(G) == [T \in SUBSET S |->
                          IF T = {} THEN 0 ELSE g[Chosen(T)] + G[T \ {Chosen(T)}]]
            iter == CHOOSE G : G = Step(G)
<1>1. F = Step(F)
  BY DEF SumsUp
<1>2. iter = Step(iter)
  BY <1>1
<1>3. SumFunctionOnSet(g, S) = iter[S]
  BY DEF SumFunctionOnSet, FoldFunctionOnSet, MapThenFoldSet, Chosen
<1>. HIDE DEF iter
<1>4. SumsUp(iter, g, S)
  BY <1>2 DEF SumsUp
<1>. QED
  BY <1>3, <1>4, SumsAgree

-----------------------------------------------------------------------------
(* What a specification needs of a sum.                                     *)

\* A sum of integers is an integer, and takes away the chosen element.
LEMMA SumStep ==
    ASSUME NEW g, NEW S, IsFiniteSet(S), \A x \in S : g[x] \in Int
    PROVE  /\ SumFunctionOnSet(g, S) \in Int
           /\ SumFunctionOnSet(g, S) =
                 IF S = {} THEN 0
                 ELSE g[Chosen(S)] + SumFunctionOnSet(g, S \ {Chosen(S)})
<1>1. PICK F \in [SUBSET S -> Int] : SumsUp(F, g, S)
  BY SumsExist
<1>2. ASSUME NEW T \in SUBSET S PROVE SumFunctionOnSet(g, T) = F[T]
  <2>1. IsFiniteSet(T) /\ \A x \in T : g[x] \in Int
    BY FS_Subset
  <2>2. PICK G \in [SUBSET T -> Int] : SumsUp(G, g, T)
    BY <2>1, SumsExist
  <2>3. SumFunctionOnSet(g, T) = G[T]
    BY <2>1, <2>2, SumIsAny
  <2>4. G[T] = F[T]
    BY <1>1, <2>1, <2>2, SumsAgree
  <2>. QED
    BY <2>3, <2>4
<1>3. S \ {Chosen(S)} \in SUBSET S /\ S \in SUBSET S
  OBVIOUS
<1>4. F[S] = IF S = {} THEN 0 ELSE g[Chosen(S)] + F[S \ {Chosen(S)}]
  BY <1>1 DEF SumsUp
<1>. QED
  BY <1>2, <1>3, <1>4

LEMMA SumType ==
    ASSUME NEW g, NEW S, IsFiniteSet(S), \A x \in S : g[x] \in Int
    PROVE  SumFunctionOnSet(g, S) \in Int
BY SumStep

LEMMA SumEmpty == ASSUME NEW g PROVE SumFunctionOnSet(g, {}) = 0
BY SumStep, FS_EmptySet

\* Functions that agree on a set have the same sum over it.
LEMMA SumSame ==
    ASSUME NEW g, NEW h, NEW S, IsFiniteSet(S),
           \A x \in S : g[x] \in Int /\ h[x] = g[x]
    PROVE  SumFunctionOnSet(h, S) = SumFunctionOnSet(g, S)
<1>1. \A x \in S : g[x] \in Int /\ h[x] \in Int
  OBVIOUS
<1>2. PICK F \in [SUBSET S -> Int] : SumsUp(F, g, S)
  BY <1>1, SumsExist
<1>3. PICK G \in [SUBSET S -> Int] : SumsUp(G, h, S)
  BY <1>1, SumsExist
<1>4. F[S] = G[S]
  BY <1>2, <1>3, SumsAgree
<1>5. SumFunctionOnSet(g, S) = F[S]
  BY <1>2, SumIsAny
<1>6. SumFunctionOnSet(h, S) = G[S]
  BY <1>3, SumIsAny
<1>. QED
  BY <1>4, <1>5, <1>6

\* Any element may be taken away, not only the chosen one.
LEMMA SumRemove ==
    ASSUME NEW g, NEW S, IsFiniteSet(S), \A x \in S : g[x] \in Int, NEW y \in S
    PROVE  SumFunctionOnSet(g, S) = g[y] + SumFunctionOnSet(g, S \ {y})
<1>. DEFINE Sum(T) == SumFunctionOnSet(g, T)
            C == {T \in SUBSET S : \E x \in T : Sum(T) # g[x] + Sum(T \ {x})}
<1>1. \A T \in SUBSET S : IsFiniteSet(T) /\ \A x \in T : g[x] \in Int
  BY FS_Subset
<1>2. \A T \in SUBSET S : Sum(T) \in Int
  BY <1>1, SumStep
<1>3. \A T \in SUBSET S : T # {} => Sum(T) = g[Chosen(T)] + Sum(T \ {Chosen(T)})
  BY <1>1, SumStep
<1>. HIDE DEF Sum
<1>. SUFFICES ASSUME C # {} PROVE FALSE
  BY DEF Sum
<1>4. C \in SUBSET (SUBSET S)
  OBVIOUS
<1>. HIDE DEF C
<1>5. PICK T \in C : \A U \in C : U \subseteq T => U = T
  BY <1>4, SmallestSubset
<1>6. PICK x \in T : Sum(T) # g[x] + Sum(T \ {x})
  BY DEF C
<1>7. T \in SUBSET S
  BY DEF C
<1>. DEFINE z == Chosen(T)
<1>8. z \in T /\ Sum(T) = g[z] + Sum(T \ {z}) /\ z # x
  BY <1>3, <1>6, <1>7 DEF Chosen
<1>. HIDE DEF z
<1>9. /\ T \ {z} \in SUBSET S /\ T \ {z} # T /\ x \in T \ {z} /\ T \ {z} \notin C
      /\ T \ {x} \in SUBSET S /\ T \ {x} # T /\ z \in T \ {x} /\ T \ {x} \notin C
  BY <1>5, <1>6, <1>7, <1>8
<1>10. Sum(T \ {z}) = g[x] + Sum((T \ {z}) \ {x})
  BY <1>9 DEF C
<1>11. Sum(T \ {x}) = g[z] + Sum((T \ {x}) \ {z})
  BY <1>9 DEF C
<1>12. (T \ {z}) \ {x} = (T \ {x}) \ {z} /\ (T \ {x}) \ {z} \in SUBSET S
  BY <1>7
<1>13. PICK n \in Int : n = Sum((T \ {x}) \ {z})
  BY <1>2, <1>12
<1>14. g[x] \in Int /\ g[z] \in Int
  BY <1>7, <1>8
<1>15. Sum(T \ {z}) = g[x] + n /\ Sum(T \ {x}) = g[z] + n
  BY <1>10, <1>11, <1>12, <1>13
<1>16. Sum(T) = g[z] + (g[x] + n) /\ Sum(T) # g[x] + (g[z] + n)
  BY <1>6, <1>8, <1>15
<1>. QED
  BY <1>14, <1>16

LEMMA SumAdd ==
    ASSUME NEW g, NEW S, IsFiniteSet(S), NEW y, y \notin S,
           \A x \in S \cup {y} : g[x] \in Int
    PROVE  SumFunctionOnSet(g, S \cup {y}) = g[y] + SumFunctionOnSet(g, S)
<1>1. IsFiniteSet(S \cup {y}) /\ (S \cup {y}) \ {y} = S
  BY FS_AddElement
<1>. QED
  BY <1>1, SumRemove

\* A change of one summand changes the sum by as much.
LEMMA SumChange ==
    ASSUME NEW g, NEW h, NEW S, IsFiniteSet(S), NEW y \in S, NEW n \in Int,
           \A x \in S : g[x] \in Int,
           \A x \in S : h[x] = IF x = y THEN g[x] + n ELSE g[x]
    PROVE  SumFunctionOnSet(h, S) = SumFunctionOnSet(g, S) + n
<1>. DEFINE R == S \ {y}
<1>1. IsFiniteSet(R) /\ \A x \in R : g[x] \in Int /\ h[x] = g[x]
  BY FS_RemoveElement
<1>2. SumFunctionOnSet(h, R) = SumFunctionOnSet(g, R) /\ SumFunctionOnSet(g, R) \in Int
  BY <1>1, SumSame, SumType
<1>3. \A x \in S : h[x] \in Int
  OBVIOUS
<1>4. /\ SumFunctionOnSet(g, S) = g[y] + SumFunctionOnSet(g, R)
      /\ SumFunctionOnSet(h, S) = h[y] + SumFunctionOnSet(h, R)
  BY <1>3, SumRemove
<1>. QED
  BY <1>2, <1>4

\* A function that is nowhere above the sum of two others has no larger sum than
\* both of them together.
LEMMA SumBound ==
    ASSUME NEW f, NEW g, NEW h, NEW S, IsFiniteSet(S),
           \A x \in S : f[x] \in Int /\ g[x] \in Int /\ h[x] \in Int,
           \A x \in S : f[x] <= g[x] + h[x]
    PROVE  SumFunctionOnSet(f, S) <= SumFunctionOnSet(g, S) + SumFunctionOnSet(h, S)
<1>. DEFINE Sf(T) == SumFunctionOnSet(f, T)
            Sg(T) == SumFunctionOnSet(g, T)
            Sh(T) == SumFunctionOnSet(h, T)
            C == {T \in SUBSET S : ~(Sf(T) <= Sg(T) + Sh(T))}
<1>1. \A T \in SUBSET S : IsFiniteSet(T)
  BY FS_Subset
<1>2. \A T \in SUBSET S : Sf(T) \in Int /\ Sg(T) \in Int /\ Sh(T) \in Int
  BY <1>1, SumType
<1>3. \A T \in SUBSET S : T # {} =>
         /\ Sf(T) = f[Chosen(T)] + Sf(T \ {Chosen(T)})
         /\ Sg(T) = g[Chosen(T)] + Sg(T \ {Chosen(T)})
         /\ Sh(T) = h[Chosen(T)] + Sh(T \ {Chosen(T)})
  BY <1>1, SumStep
<1>4. Sf({}) = 0 /\ Sg({}) = 0 /\ Sh({}) = 0
  BY SumEmpty
<1>. SUFFICES ASSUME C # {} PROVE FALSE
  OBVIOUS
<1>. HIDE DEF Sf, Sg, Sh
<1>5. C \in SUBSET (SUBSET S)
  OBVIOUS
<1>. HIDE DEF C
<1>6. PICK T \in C : \A U \in C : U \subseteq T => U = T
  BY <1>5, SmallestSubset
<1>7. T \in SUBSET S /\ ~(Sf(T) <= Sg(T) + Sh(T))
  BY DEF C
<1>8. T # {}
  <2>. SUFFICES ASSUME T = {} PROVE Sf(T) = 0 /\ Sg(T) = 0 /\ Sh(T) = 0
    BY <1>7
  <2>. QED
    BY <1>4
<1>. DEFINE z == Chosen(T)
            U == T \ {z}
<1>9. z \in T
  BY <1>8 DEF Chosen
<1>10. U \in SUBSET S /\ U \notin C
  BY <1>6, <1>7, <1>9
<1>11. Sf(U) <= Sg(U) + Sh(U) /\ Sf(U) \in Int /\ Sg(U) \in Int /\ Sh(U) \in Int
  BY <1>2, <1>10 DEF C
<1>12. Sf(T) = f[z] + Sf(U) /\ Sg(T) = g[z] + Sg(U) /\ Sh(T) = h[z] + Sh(U)
  BY <1>3, <1>7, <1>8
<1>13. f[z] \in Int /\ g[z] \in Int /\ h[z] \in Int /\ f[z] <= g[z] + h[z]
  BY <1>7, <1>9
<1>. HIDE DEF z, U
<1>. QED
  BY <1>7, <1>11, <1>12, <1>13

\* Nothing adds up to nothing.
LEMMA SumZero ==
    ASSUME NEW g, NEW S, IsFiniteSet(S), \A x \in S : g[x] = 0
    PROVE  SumFunctionOnSet(g, S) = 0
<1>. DEFINE Sum(T) == SumFunctionOnSet(g, T)
            C == {T \in SUBSET S : Sum(T) # 0}
<1>1. \A T \in SUBSET S : T # {} => Sum(T) = g[Chosen(T)] + Sum(T \ {Chosen(T)})
  BY FS_Subset, SumStep
<1>2. Sum({}) = 0
  BY SumEmpty
<1>. SUFFICES ASSUME C # {} PROVE FALSE
  OBVIOUS
<1>. HIDE DEF Sum
<1>3. C \in SUBSET (SUBSET S)
  OBVIOUS
<1>. HIDE DEF C
<1>4. PICK T \in C : \A U \in C : U \subseteq T => U = T
  BY <1>3, SmallestSubset
<1>5. T \in SUBSET S /\ Sum(T) # 0 /\ T # {}
  BY <1>2 DEF C
<1>6. Chosen(T) \in T
  BY <1>5 DEF Chosen
<1>7. Sum(T \ {Chosen(T)}) = 0
  BY <1>4, <1>5, <1>6 DEF C
<1>. QED
  BY <1>1, <1>5, <1>6, <1>7

\* A function that is nowhere above another has no larger sum.
LEMMA SumMonotone ==
    ASSUME NEW f, NEW g, NEW S, IsFiniteSet(S),
           \A x \in S : f[x] \in Int /\ g[x] \in Int /\ f[x] <= g[x]
    PROVE  SumFunctionOnSet(f, S) <= SumFunctionOnSet(g, S)
<1>. DEFINE n == [x \in S |-> 0]
<1>1. \A x \in S : n[x] = 0
  OBVIOUS
<1>. HIDE DEF n
<1>2. SumFunctionOnSet(n, S) = 0
  BY <1>1, SumZero
<1>3. SumFunctionOnSet(f, S) <= SumFunctionOnSet(g, S) + SumFunctionOnSet(n, S)
  <2>1. \A x \in S : /\ f[x] \in Int /\ g[x] \in Int /\ n[x] \in Int
                     /\ f[x] <= g[x] + n[x]
    BY <1>1
  <2>. QED
    BY <2>1, SumBound
<1>. QED
  BY <1>2, <1>3, SumType

\* No summand is larger than a sum of natural numbers, which is one itself.
LEMMA SumOfNaturals ==
    ASSUME NEW g, NEW S, IsFiniteSet(S), \A x \in S : g[x] \in Nat
    PROVE  /\ SumFunctionOnSet(g, S) \in Nat
           /\ \A y \in S : g[y] <= SumFunctionOnSet(g, S)
<1>. DEFINE n == [x \in S |-> 0]
<1>1. ASSUME NEW T \in SUBSET S PROVE SumFunctionOnSet(g, T) \in Nat
  <2>1. IsFiniteSet(T)
    BY FS_Subset
  <2>2. \A x \in T : n[x] = 0 /\ n[x] \in Int /\ g[x] \in Int /\ n[x] <= g[x]
    OBVIOUS
  <2>. HIDE DEF n
  <2>3. /\ SumFunctionOnSet(n, T) = 0
        /\ SumFunctionOnSet(n, T) <= SumFunctionOnSet(g, T)
        /\ SumFunctionOnSet(g, T) \in Int
    BY <2>1, <2>2, SumZero, SumMonotone, SumType
  <2>. QED
    BY <2>3
<1>2. ASSUME NEW y \in S PROVE g[y] <= SumFunctionOnSet(g, S)
  <2>1. SumFunctionOnSet(g, S) = g[y] + SumFunctionOnSet(g, S \ {y})
    BY SumRemove
  <2>2. SumFunctionOnSet(g, S \ {y}) \in Nat
    BY <1>1
  <2>. QED
    BY <2>1, <2>2
<1>. QED
  BY <1>1, <1>2
=============================================================================
