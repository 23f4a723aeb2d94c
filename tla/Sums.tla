-------------------------------- MODULE Sums ---------------------------------
(***************************************************************************)
(* What SumFunctionOnSet computes: the sum of the values of a finite set   *)
(* of indices, whatever the order in which they are taken.  It is a fold   *)
(* over subsets, so the facts are shown by taking a smallest subset that   *)
(* would violate them.                                                     *)
(***************************************************************************)
EXTENDS Integers, Functions, FiniteSetTheorems, WellFoundedInduction, TLAPS

(* Of several subsets of a finite set one contains none of the others.     *)
LEMMA SmallestSubset ==
    ASSUME NEW S, IsFiniteSet(S), NEW bad, bad \subseteq SUBSET S, bad # {}
    PROVE  \E T \in bad : \A U \in bad : U \subseteq T => U = T
<1>1. IsWellFoundedOn(StrictSubsetOrdering(S), FiniteSubsetsOf(S))
  BY FS_StrictSubsetOrderingWellFounded
<1>2. bad \subseteq FiniteSubsetsOf(S)
  BY FS_FiniteSubsetsOfFinite
<1>3. PICK T \in bad : \A U \in bad : ~(<<U, T>> \in StrictSubsetOrdering(S))
  BY <1>1, <1>2, WFMin
<1> QED
  BY <1>3 DEF StrictSubsetOrdering

-----------------------------------------------------------------------------
(* The fold.                                                               *)

(* The index that is added last.                                           *)
Chosen(S) == CHOOSE x \in S : TRUE

(* total assigns to every subset of S the sum of its values.               *)
IsTotal(value, S, total) ==
    total = [T \in SUBSET S |-> IF T = {} THEN 0
                                ELSE value[Chosen(T)] + total[T \ {Chosen(T)}]]

Sum(value, S) == (CHOOSE total : IsTotal(value, S, total))[S]

(* The fold of the community modules is such a total.                      *)
LEMMA SumIsFold ==
    ASSUME NEW value, NEW S
    PROVE  SumFunctionOnSet(value, S) = Sum(value, S)
BY DEF SumFunctionOnSet, FoldFunctionOnSet, MapThenFoldSet, Sum, IsTotal, Chosen

(* The index that is added last is one of them.                            *)
LEMMA ChosenIsMember ==
    ASSUME NEW S, S # {}
    PROVE  Chosen(S) \in S
BY DEF Chosen

(* What a fold says of a subset.                                           *)
LEMMA TotalOf ==
    ASSUME NEW value, NEW S, NEW total, IsTotal(value, S, total), NEW T \in SUBSET S
    PROVE  total[T] = IF T = {} THEN 0 ELSE value[Chosen(T)] + total[T \ {Chosen(T)}]
BY DEF IsTotal

(* Two folds agree on the subsets of which they have the same values.      *)
LEMMA TotalsAgree ==
    ASSUME NEW u, NEW v, NEW S, NEW T, NEW f, NEW g, IsTotal(u, S, f), IsTotal(v, T, g),
           NEW U, IsFiniteSet(U), U \subseteq S, U \subseteq T, \A x \in U : u[x] = v[x]
    PROVE  f[U] = g[U]
<1> DEFINE bad == {W \in SUBSET U : f[W] # g[W]}
<1> SUFFICES ASSUME bad # {} PROVE FALSE
  OBVIOUS
<1>1. PICK W \in bad : \A V \in bad : V \subseteq W => V = W
  <2>1. bad \subseteq SUBSET U
    OBVIOUS
  <2> HIDE DEF bad
  <2> QED
    BY <2>1, SmallestSubset
<1>2. /\ f[W] = IF W = {} THEN 0 ELSE u[Chosen(W)] + f[W \ {Chosen(W)}]
      /\ g[W] = IF W = {} THEN 0 ELSE v[Chosen(W)] + g[W \ {Chosen(W)}]
  <2>1. W \in SUBSET S /\ W \in SUBSET T
    OBVIOUS
  <2>2. f[W] = IF W = {} THEN 0 ELSE u[Chosen(W)] + f[W \ {Chosen(W)}]
    BY <2>1, TotalOf
  <2>3. g[W] = IF W = {} THEN 0 ELSE v[Chosen(W)] + g[W \ {Chosen(W)}]
    BY <2>1, TotalOf
  <2> QED
    BY <2>2, <2>3
<1>3. W # {}
  BY <1>2
<1>4. Chosen(W) \in W
  BY <1>3, ChosenIsMember
<1>5. f[W \ {Chosen(W)}] = g[W \ {Chosen(W)}]
  BY <1>1, <1>4
<1> QED
  BY <1>2, <1>3, <1>4, <1>5

(* There is such a fold.                                                   *)
LEMMA TotalExists ==
    ASSUME NEW value, NEW S, IsFiniteSet(S)
    PROVE  \E total : IsTotal(value, S, total)
<1> DEFINE bad == {T \in SUBSET S : ~\E total : IsTotal(value, T, total)}
<1> SUFFICES ASSUME bad # {} PROVE FALSE
  OBVIOUS
<1>1. PICK T \in bad : \A U \in bad : U \subseteq T => U = T
  <2>1. bad \subseteq SUBSET S
    OBVIOUS
  <2> HIDE DEF bad
  <2> QED
    BY <2>1, SmallestSubset
<1>2. ASSUME NEW U \in SUBSET T, U # T
      PROVE  IsTotal(value, U, CHOOSE total : IsTotal(value, U, total)) /\ IsFiniteSet(U)
  BY <1>1, <1>2, FS_Subset
<1>3. ASSUME NEW U \in SUBSET T, U # T
      PROVE  Sum(value, U) = IF U = {} THEN 0
                             ELSE value[Chosen(U)] + Sum(value, U \ {Chosen(U)})
  <2> DEFINE V == U \ {Chosen(U)}
             f == CHOOSE total : IsTotal(value, U, total)
             g == CHOOSE total : IsTotal(value, V, total)
  <2>1. V \in SUBSET T /\ V # T /\ V \subseteq U
    BY <1>3
  <2>2. IsTotal(value, U, f) /\ IsTotal(value, V, g) /\ IsFiniteSet(V)
    BY <1>2, <1>3, <2>1
  <2>3. f[U] = IF U = {} THEN 0 ELSE value[Chosen(U)] + f[V]
    BY <2>2, TotalOf
  <2>4. f[V] = g[V]
    <3> HIDE DEF f, g, V
    <3> QED
      BY <2>1, <2>2, TotalsAgree
  <2> QED
    BY <2>3, <2>4 DEF Sum
<1> DEFINE rest(U) == Sum(value, U \ {Chosen(U)})
           total == [U \in SUBSET T |-> IF U = {} THEN 0 ELSE value[Chosen(U)] + rest(U)]
<1>4. ASSUME NEW U \in SUBSET T, U # {}
      PROVE  total[U \ {Chosen(U)}] = rest(U)
  <2> DEFINE V == U \ {Chosen(U)}
  <2>1. V \in SUBSET T /\ V # T
    BY <1>4, ChosenIsMember
  <2>2. total[V] = IF V = {} THEN 0 ELSE value[Chosen(V)] + rest(V)
    BY <2>1
  <2> QED
    BY <1>3, <2>1, <2>2
<1>5. IsTotal(value, T, total)
  <2>1. total = [U \in SUBSET T |-> IF U = {} THEN 0
                                    ELSE value[Chosen(U)] + total[U \ {Chosen(U)}]]
    <3> HIDE DEF rest
    <3> QED
      BY <1>4
  <2> QED
    BY <2>1 DEF IsTotal
<1> QED
  BY <1>5

(* The sum, one chosen index after the other.                              *)
LEMMA SumByChoice ==
    ASSUME NEW value, NEW S, IsFiniteSet(S)
    PROVE  Sum(value, S) = IF S = {} THEN 0 ELSE value[Chosen(S)] + Sum(value, S \ {Chosen(S)})
<1> DEFINE V == S \ {Chosen(S)}
           f == CHOOSE total : IsTotal(value, S, total)
           g == CHOOSE total : IsTotal(value, V, total)
<1>1. V \subseteq S /\ IsFiniteSet(V)
  BY FS_Subset
<1>2. IsTotal(value, S, f) /\ IsTotal(value, V, g)
  BY <1>1, TotalExists
<1>3. f[S] = IF S = {} THEN 0 ELSE value[Chosen(S)] + f[V]
  BY <1>2, TotalOf
<1>4. f[V] = g[V]
  <2> HIDE DEF f, g, V
  <2> QED
    BY <1>1, <1>2, TotalsAgree
<1> QED
  BY <1>3, <1>4 DEF Sum

(* Equal values have equal sums.                                           *)
LEMMA SumsAreEqual ==
    ASSUME NEW u, NEW v, NEW S, IsFiniteSet(S), \A x \in S : u[x] = v[x]
    PROVE  Sum(u, S) = Sum(v, S)
<1> DEFINE f == CHOOSE total : IsTotal(u, S, total)
           g == CHOOSE total : IsTotal(v, S, total)
<1>1. IsTotal(u, S, f) /\ IsTotal(v, S, g)
  BY TotalExists
<1>2. f[S] = g[S]
  <2> HIDE DEF f, g
  <2> QED
    BY <1>1, TotalsAgree
<1> QED
  BY <1>2 DEF Sum

(* Integers have an integer sum.                                           *)
LEMMA SumIsInt ==
    ASSUME NEW value, NEW S, IsFiniteSet(S), \A x \in S : value[x] \in Int
    PROVE  Sum(value, S) \in Int
<1> DEFINE bad == {T \in SUBSET S : Sum(value, T) \notin Int}
<1> SUFFICES ASSUME bad # {} PROVE FALSE
  OBVIOUS
<1>1. PICK T \in bad : \A U \in bad : U \subseteq T => U = T
  <2>1. bad \subseteq SUBSET S
    OBVIOUS
  <2> HIDE DEF bad
  <2> QED
    BY <2>1, SmallestSubset
<1>2. IsFiniteSet(T)
  BY FS_Subset
<1>3. Sum(value, T) = IF T = {} THEN 0 ELSE value[Chosen(T)] + Sum(value, T \ {Chosen(T)})
  BY <1>2, SumByChoice
<1>4. T # {}
  BY <1>3
<1>5. Chosen(T) \in T
  BY <1>4, ChosenIsMember
<1>6. Sum(value, T \ {Chosen(T)}) \in Int
  BY <1>1, <1>5
<1> QED
  BY <1>3, <1>4, <1>5, <1>6

(* Whichever index is left out.                                            *)
LEMMA SumByAny ==
    ASSUME NEW value, NEW S, IsFiniteSet(S), \A x \in S : value[x] \in Int, NEW x \in S
    PROVE  Sum(value, S) = value[x] + Sum(value, S \ {x})
<1> DEFINE Bad(T) == \E y \in T : Sum(value, T) # value[y] + Sum(value, T \ {y})
           bad == {T \in SUBSET S : Bad(T)}
<1> SUFFICES ASSUME bad # {} PROVE FALSE
  OBVIOUS
<1>1. PICK T \in bad : \A U \in bad : U \subseteq T => U = T
  <2>1. bad \subseteq SUBSET S
    OBVIOUS
  <2> HIDE DEF bad
  <2> QED
    BY <2>1, SmallestSubset
<1>2. PICK y \in T : Sum(value, T) # value[y] + Sum(value, T \ {y})
  OBVIOUS
<1> DEFINE c == Chosen(T)
<1>3. c \in T
  BY <1>2, ChosenIsMember
<1>4. \A U \in SUBSET T : IsFiniteSet(U)
  BY FS_Subset
<1>5. Sum(value, T) = value[c] + Sum(value, T \ {c})
  BY <1>3, <1>4, SumByChoice
<1>6. c # y
  BY <1>2, <1>5
<1>7. ~Bad(T \ {c}) /\ ~Bad(T \ {y})
  <2> HIDE DEF Bad
  <2>1. T \ {c} # T /\ T \ {y} # T
    BY <1>3
  <2> QED
    BY <1>1, <2>1
<1> HIDE DEF c
<1>8. /\ Sum(value, T \ {c}) = value[y] + Sum(value, (T \ {c}) \ {y})
      /\ Sum(value, T \ {y}) = value[c] + Sum(value, (T \ {y}) \ {c})
  BY <1>2, <1>3, <1>6, <1>7
<1>9. (T \ {c}) \ {y} = (T \ {y}) \ {c}
  OBVIOUS
<1> DEFINE n == Sum(value, (T \ {c}) \ {y})
<1>10. n \in Int /\ value[c] \in Int /\ value[y] \in Int
  <2>1. (T \ {c}) \ {y} \in SUBSET T
    OBVIOUS
  <2> QED
    BY <1>3, <1>4, <2>1, SumIsInt
<1>11. /\ Sum(value, T \ {c}) = value[y] + n
       /\ Sum(value, T \ {y}) = value[c] + n
  BY <1>8, <1>9
<1> HIDE DEF n
<1>12. value[c] + (value[y] + n) = value[y] + (value[c] + n)
  BY <1>10
<1>13. Sum(value, T) = value[y] + Sum(value, T \ {y})
  BY <1>5, <1>11, <1>12, Zenon
<1> QED
  BY <1>2, <1>13

-----------------------------------------------------------------------------
(* The facts, of SumFunction.                                              *)

(* A sum of integers is an integer, and that of no values is zero.         *)
LEMMA SumType ==
    ASSUME NEW value, IsFiniteSet(DOMAIN value), \A x \in DOMAIN value : value[x] \in Int
    PROVE  /\ SumFunction(value) \in Int
           /\ DOMAIN value = {} => SumFunction(value) = 0
BY SumIsFold, SumIsInt, SumByChoice DEF SumFunction

(* A new index adds its value, wherever it comes in the order.             *)
LEMMA SumOfMore ==
    ASSUME NEW u, NEW v, NEW x, IsFiniteSet(DOMAIN u), x \notin DOMAIN u,
           DOMAIN v = DOMAIN u \cup {x}, v[x] \in Int,
           \A y \in DOMAIN u : v[y] = u[y] /\ u[y] \in Int
    PROVE  SumFunction(v) = SumFunction(u) + v[x]
<1> DEFINE S == DOMAIN u
           T == DOMAIN v
<1>1. /\ IsFiniteSet(S) /\ IsFiniteSet(T) /\ x \in T /\ T \ {x} = S
      /\ \A y \in T : v[y] \in Int
  BY FS_AddElement
<1>2. \A y \in S : v[y] = u[y] /\ u[y] \in Int
  OBVIOUS
<1>3. SumFunction(v) = Sum(v, T) /\ SumFunction(u) = Sum(u, S)
  BY SumIsFold DEF SumFunction
<1> HIDE DEF S, T
<1>4. Sum(v, T) = v[x] + Sum(v, S)
  BY <1>1, SumByAny
<1>5. Sum(v, S) = Sum(u, S)
  BY <1>1, <1>2, SumsAreEqual
<1>6. Sum(u, S) \in Int
  BY <1>1, <1>2, SumIsInt
<1> QED
  BY <1>1, <1>3, <1>4, <1>5, <1>6

(* The sum of one value is that value.                                     *)
LEMMA SumOfOne ==
    ASSUME NEW value, NEW x, DOMAIN value = {x}, value[x] \in Int
    PROVE  SumFunction(value) = value[x]
<1> DEFINE none == [y \in {} |-> 0]
<1>1. IsFiniteSet(DOMAIN none) /\ DOMAIN none = {}
  BY FS_EmptySet
<1>2. SumFunction(none) = 0
  BY <1>1, SumType
<1>3. SumFunction(value) = SumFunction(none) + value[x]
  <2> HIDE DEF none
  <2> QED
    BY <1>1, SumOfMore
<1> QED
  BY <1>2, <1>3

=============================================================================
