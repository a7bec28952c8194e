------------------------------ MODULE RvLemmas ------------------------------
(***************************************************************************)
(* Facts about finite sets that the proofs about several components need:  *)
(* counting, the least of some numbers, and sums.                          *)
(***************************************************************************)
EXTENDS Integers, Functions, FiniteSetsExt, FiniteSetTheorems, WellFoundedInduction, TLAPS

LEMMA CountOne ==
  ASSUME NEW S, IsFiniteSet(S), NEW x
  PROVE  /\ Cardinality(S) \in Nat
         /\ Cardinality(S) = 0 <=> S = {}
         /\ x \notin S => /\ IsFiniteSet(S \cup {x})
                          /\ Cardinality(S \cup {x}) = Cardinality(S) + 1
         /\ x \in S => /\ IsFiniteSet(S \ {x})
                       /\ Cardinality(S \ {x}) = Cardinality(S) - 1
                       /\ Cardinality(S) > 0
<1>1. Cardinality(S) \in Nat /\ (Cardinality(S) = 0 <=> S = {})
  BY FS_CardinalityType, FS_EmptySet
<1>2. ASSUME x \notin S
      PROVE  IsFiniteSet(S \cup {x}) /\ Cardinality(S \cup {x}) = Cardinality(S) + 1
  BY <1>2, FS_AddElement
<1>3. ASSUME x \in S
      PROVE  /\ IsFiniteSet(S \ {x}) /\ Cardinality(S \ {x}) = Cardinality(S) - 1
             /\ Cardinality(S) > 0
  <2>1. IsFiniteSet(S \ {x}) /\ Cardinality(S \ {x}) = Cardinality(S) - 1
    BY <1>3, FS_RemoveElement
  <2> QED BY <1>1, <1>3, <2>1
<1> QED BY <1>1, <1>2, <1>3

LEMMA LeastExists ==
  ASSUME NEW S, IsFiniteSet(S), S \subseteq Nat, S # {}
  PROVE  Min(S) \in S /\ \A y \in S : Min(S) <= y
<1>1. \E x \in S : \A y \in S : x <= y
  <2> DEFINE Upto(x) == {y \in S : y <= x}
             T == {Upto(x) : x \in S}
  <2>1. T \subseteq FiniteSubsetsOf(S) /\ T # {}
    <3>1. ASSUME NEW x \in S PROVE Upto(x) \in FiniteSubsetsOf(S)
      <4>1. Upto(x) \subseteq S OBVIOUS
      <4> HIDE DEF Upto
      <4> QED BY <4>1, FS_Subset DEF FiniteSubsetsOf
    <3> QED BY <3>1
  <2>2. PICK U \in T : \A V \in T : <<V, U>> \notin StrictSubsetOrdering(S)
    <3> HIDE DEF T
    <3> QED BY <2>1, FS_StrictSubsetOrderingWellFounded, WFMin
  <2>3. PICK x \in S : U = Upto(x)
    <3> HIDE DEF Upto
    <3> QED BY <2>2
  <2>4. ASSUME NEW y \in S, ~(x <= y) PROVE FALSE
    <3>1. x \in Nat /\ y \in Nat /\ y < x BY <2>4
    <3>2. \A z \in S : z <= y => z <= x BY <3>1
    <3>3. Upto(y) \subseteq Upto(x) /\ Upto(x) \subseteq S BY <3>2
    <3>4. x \in Upto(x) /\ x \notin Upto(y) BY <2>4, <3>1
    <3> HIDE DEF Upto
    <3>5. Upto(y) \in T OBVIOUS
    <3>6. <<Upto(y), U>> \in StrictSubsetOrdering(S)
      BY <2>3, <3>3, <3>4 DEF StrictSubsetOrdering
    <3> QED BY <2>2, <3>5, <3>6
  <2> QED BY <2>4
<1> QED BY <1>1 DEF Min

LEMMA LeastOfTwo ==
  ASSUME NEW m \in Nat, NEW n \in Nat
  PROVE  Min({m, n}) = IF m <= n THEN m ELSE n
<1>1. \E x \in {m, n} : \A y \in {m, n} : x <= y OBVIOUS
<1>2. Min({m, n}) \in {m, n} /\ \A y \in {m, n} : Min({m, n}) <= y BY <1>1 DEF Min
<1> QED BY <1>2

(***************************************************************************)
(* Sums.  A sum over a finite set is the number of pairs of a member and a  *)
(* number from 1 to its value, which is also how the recursion that defines *)
(* it is seen to have a solution, and one only.                             *)
(***************************************************************************)
Column(f, x) == {<<x, i>> : i \in 1..f[x]}
Units(f, S) == UNION {Column(f, x) : x \in S}

LEMMA ColumnCounts ==
  ASSUME NEW f, NEW x, f[x] \in Nat
  PROVE  IsFiniteSet(Column(f, x)) /\ Cardinality(Column(f, x)) = f[x]
<1>1. PICK n \in Nat : n = f[x] OBVIOUS
<1>2. PICK b : b = [i \in 1..n |-> <<x, i>>] OBVIOUS
<1>3. Column(f, x) = {<<x, i>> : i \in 1..n} BY <1>1 DEF Column
<1>4. b \in Bijection(1..n, Column(f, x))
  BY <1>2, <1>3 DEF Bijection, Injection, Surjection, IsInjective
<1>5. ExistsBijection(1..n, Column(f, x)) BY <1>4 DEF ExistsBijection
<1>6. IsFiniteSet(Column(f, x)) BY <1>5, FS_NatBijection
<1>7. Cardinality(Column(f, x)) = n BY <1>5, FS_CountingElements
<1> QED BY <1>1, <1>6, <1>7

LEMMA UnitsFinite ==
  ASSUME NEW f, NEW S, IsFiniteSet(S), \A x \in S : f[x] \in Nat
  PROVE  IsFiniteSet(Units(f, S)) /\ Cardinality(Units(f, S)) \in Nat
<1>1. PICK C : C = [x \in S |-> Column(f, x)] OBVIOUS
<1>2. C \in Surjection(S, {Column(f, x) : x \in S}) BY <1>1 DEF Surjection
<1>3. IsFiniteSet({Column(f, x) : x \in S}) BY <1>2, FS_Surjection
<1>4. \A T \in {Column(f, x) : x \in S} : IsFiniteSet(T) BY ColumnCounts
<1>5. IsFiniteSet(Units(f, S)) BY <1>3, <1>4, FS_UNION DEF Units
<1> QED BY <1>5, FS_CardinalityType

LEMMA UnitsSplit ==
  ASSUME NEW f, NEW S, IsFiniteSet(S), \A x \in S : f[x] \in Nat, NEW x \in S
  PROVE  Cardinality(Units(f, S)) = f[x] + Cardinality(Units(f, S \ {x}))
<1>1. Units(f, S) = Column(f, x) \cup Units(f, S \ {x}) BY DEF Units
<1>2. Column(f, x) \cap Units(f, S \ {x}) = {} BY DEF Units, Column
<1>3. IsFiniteSet(S \ {x}) BY FS_RemoveElement
<1>4. IsFiniteSet(Units(f, S \ {x})) /\ Cardinality(Units(f, S \ {x})) \in Nat BY <1>3, UnitsFinite
<1>5. IsFiniteSet(Column(f, x)) /\ Cardinality(Column(f, x)) = f[x] BY ColumnCounts
<1>6. PICK P, Q : P = Column(f, x) /\ Q = Units(f, S \ {x}) OBVIOUS
<1>7. IsFiniteSet(P) /\ IsFiniteSet(Q) /\ P \cap Q = {} BY <1>2, <1>4, <1>5, <1>6
<1>8. Cardinality(P \cup Q) = Cardinality(P) + Cardinality(Q) - Cardinality(P \cap Q)
  BY <1>7, FS_Union
<1>9. Cardinality(P \cap Q) = 0 BY <1>7, FS_EmptySet
<1>10. Cardinality(P) = f[x] /\ Cardinality(Q) \in Nat BY <1>4, <1>5, <1>6
<1>11. Cardinality(P \cup Q) = f[x] + Cardinality(Q) BY <1>8, <1>9, <1>10
<1> QED BY <1>1, <1>6, <1>11

Summed(g, f, S) ==
  g = [T \in SUBSET S |-> IF T = {} THEN 0
                          ELSE f[CHOOSE x \in T : TRUE] + g[T \ {CHOOSE x \in T : TRUE}]]

LEMMA SumIsUnits ==
  ASSUME NEW f, NEW S, IsFiniteSet(S), \A x \in S : f[x] \in Nat
  PROVE  SumFunctionOnSet(f, S) = Cardinality(Units(f, S))
<1>1. PICK u : u = [T \in SUBSET S |-> Cardinality(Units(f, T))] OBVIOUS
<1>2. ASSUME NEW T \in SUBSET S, T # {}, NEW x \in T
      PROVE  Cardinality(Units(f, T)) = f[x] + Cardinality(Units(f, T \ {x}))
  <2>1. IsFiniteSet(T) BY FS_Subset
  <2> QED BY <2>1, UnitsSplit
<1>3. Cardinality(Units(f, {})) = 0
  <2>1. Units(f, {}) = {} BY DEF Units
  <2> QED BY <2>1, FS_EmptySet
<1>4. Summed(u, f, S)
  <2>1. ASSUME NEW T \in SUBSET S
        PROVE  u[T] = IF T = {} THEN 0
                      ELSE f[CHOOSE x \in T : TRUE] + u[T \ {CHOOSE x \in T : TRUE}]
    <3>1. CASE T = {} BY <1>1, <1>3, <3>1
    <3>2. CASE T # {}
      <4>1. PICK y : y = CHOOSE x \in T : TRUE OBVIOUS
      <4>2. y \in T BY <3>2, <4>1
      <4>3. u[T] = f[y] + u[T \ {y}] BY <1>1, <1>2, <3>2, <4>2
      <4> QED BY <3>2, <4>1, <4>3
    <3> QED BY <3>1, <3>2
  <2> QED BY <1>1, <2>1 DEF Summed
<1>5. PICK g : g = CHOOSE h : Summed(h, f, S) OBVIOUS
<1>6. Summed(g, f, S) BY <1>4, <1>5, Zenon
<1>7. SumFunctionOnSet(f, S) = g[S]
  BY <1>5, Zenon DEF SumFunctionOnSet, FoldFunctionOnSet, MapThenFoldSet, Summed
<1>8. \A T \in SUBSET S : g[T] = IF T = {} THEN 0
                                 ELSE f[CHOOSE x \in T : TRUE] + g[T \ {CHOOSE x \in T : TRUE}]
  <2>1. PICK w : w = [T \in SUBSET S |-> IF T = {} THEN 0
                          ELSE f[CHOOSE x \in T : TRUE] + g[T \ {CHOOSE x \in T : TRUE}]] OBVIOUS
  <2>2. g = w BY <1>6, <2>1 DEF Summed
  <2> QED BY <2>1, <2>2
<1>9. ASSUME NEW T \in SUBSET S PROVE g[T] = Cardinality(Units(f, T))
  <2> DEFINE Wrong == {U \in SUBSET S : g[U] # Cardinality(Units(f, U))}
  <2> SUFFICES ASSUME Wrong # {} PROVE FALSE OBVIOUS
  <2>1. PICK U \in Wrong : \A V \in Wrong : <<V, U>> \notin StrictSubsetOrdering(S)
    <3>1. Wrong \subseteq FiniteSubsetsOf(S) BY FS_FiniteSubsetsOfFinite
    <3> HIDE DEF Wrong
    <3> QED BY <3>1, FS_StrictSubsetOrderingWellFounded, WFMin
  <2>2. U \in SUBSET S /\ g[U] # Cardinality(Units(f, U)) BY <2>1
  <2>3. CASE U = {} BY <1>3, <1>8, <2>2, <2>3
  <2>4. CASE U # {}
    <3>1. PICK y : y = CHOOSE x \in U : TRUE OBVIOUS
    <3>2. y \in U BY <2>4, <3>1
    <3>3. g[U] = f[y] + g[U \ {y}] BY <1>8, <2>2, <2>4, <3>1
    <3>4. <<U \ {y}, U>> \in StrictSubsetOrdering(S) BY <2>2, <3>2 DEF StrictSubsetOrdering
    <3>5. U \ {y} \notin Wrong BY <2>1, <3>4
    <3>6. g[U \ {y}] = Cardinality(Units(f, U \ {y})) BY <2>2, <3>5
    <3> QED BY <1>2, <2>2, <2>4, <3>2, <3>3, <3>6
  <2> QED BY <2>3, <2>4
<1> QED BY <1>7, <1>9

LEMMA SumOne ==
  ASSUME NEW f, NEW S, IsFiniteSet(S), \A x \in S : f[x] \in Nat
  PROVE  /\ SumFunctionOnSet(f, S) \in Nat
         /\ \A x \in S : SumFunctionOnSet(f, S) = f[x] + SumFunctionOnSet(f, S \ {x})
<1>1. SumFunctionOnSet(f, S) \in Nat BY SumIsUnits, UnitsFinite
<1>2. ASSUME NEW x \in S PROVE SumFunctionOnSet(f, S) = f[x] + SumFunctionOnSet(f, S \ {x})
  <2>1. IsFiniteSet(S \ {x}) BY FS_RemoveElement
  <2>2. SumFunctionOnSet(f, S \ {x}) = Cardinality(Units(f, S \ {x})) BY <2>1, SumIsUnits
  <2> QED BY <2>2, SumIsUnits, UnitsSplit
<1> QED BY <1>1, <1>2

LEMMA SumNone == \A f : SumFunctionOnSet(f, {}) = 0
<1> TAKE f
<1>1. IsFiniteSet({}) BY FS_EmptySet
<1>2. SumFunctionOnSet(f, {}) = Cardinality(Units(f, {})) BY <1>1, SumIsUnits
<1>3. Units(f, {}) = {} BY DEF Units
<1> QED BY <1>2, <1>3, FS_EmptySet

LEMMA SumAdd ==
  ASSUME NEW f, NEW S, IsFiniteSet(S), NEW x, x \notin S, \A y \in S \cup {x} : f[y] \in Nat
  PROVE  SumFunctionOnSet(f, S \cup {x}) = SumFunctionOnSet(f, S) + f[x]
<1>1. IsFiniteSet(S \cup {x}) BY FS_AddElement
<1>2. PICK T : T = S \cup {x} OBVIOUS
<1>3. T \ {x} = S /\ x \in T BY <1>2
<1>4. SumFunctionOnSet(f, T) = f[x] + SumFunctionOnSet(f, T \ {x}) BY <1>1, <1>2, <1>3, SumOne
<1>5. SumFunctionOnSet(f, S) \in Nat /\ f[x] \in Nat BY SumOne
<1> QED BY <1>2, <1>3, <1>4, <1>5

LEMMA SumSame ==
  ASSUME NEW f, NEW h, NEW S, IsFiniteSet(S), \A x \in S : f[x] \in Nat, \A x \in S : h[x] = f[x]
  PROVE  SumFunctionOnSet(h, S) = SumFunctionOnSet(f, S)
<1>1. Units(h, S) = Units(f, S) BY DEF Units, Column
<1> QED BY <1>1, SumIsUnits

LEMMA SumMore ==
  ASSUME NEW f, NEW h, NEW S, NEW T, IsFiniteSet(S), T \subseteq S,
         \A x \in S : h[x] \in Nat, \A x \in T : f[x] \in Nat /\ f[x] <= h[x]
  PROVE  SumFunctionOnSet(f, T) <= SumFunctionOnSet(h, S)
<1>1. Units(f, T) \subseteq Units(h, S)
  <2>1. \A x \in T : Column(f, x) \subseteq Column(h, x) BY DEF Column
  <2> QED BY <2>1 DEF Units
<1>2. IsFiniteSet(T) BY FS_Subset
<1>3. IsFiniteSet(Units(h, S)) BY UnitsFinite
<1>4. Cardinality(Units(f, T)) <= Cardinality(Units(h, S)) BY <1>1, <1>3, FS_Subset
<1> QED BY <1>2, <1>4, SumIsUnits

LEMMA SumZero ==
  ASSUME NEW f, NEW S, IsFiniteSet(S), \A x \in S : f[x] \in Nat
  PROVE  SumFunctionOnSet(f, S) = 0 <=> \A x \in S : f[x] = 0
<1>1. ASSUME \A x \in S : f[x] = 0 PROVE SumFunctionOnSet(f, S) = 0
  <2>1. Units(f, S) = {} BY <1>1 DEF Units, Column
  <2> QED BY <2>1, SumIsUnits, FS_EmptySet
<1>2. ASSUME SumFunctionOnSet(f, S) = 0, NEW x \in S PROVE f[x] = 0
  <2>1. IsFiniteSet(S \ {x}) BY FS_RemoveElement
  <2>2. SumFunctionOnSet(f, S \ {x}) \in Nat BY <2>1, SumOne
  <2> QED BY <1>2, <2>2, SumOne
<1> QED BY <1>1, <1>2

LEMMA SumChange ==
  ASSUME NEW f, NEW h, NEW S, IsFiniteSet(S), NEW x \in S, \A y \in S : f[y] \in Nat, h[x] \in Nat,
         \A y \in S \ {x} : h[y] = f[y]
  PROVE  SumFunctionOnSet(h, S) = SumFunctionOnSet(f, S) - f[x] + h[x]
<1>1. IsFiniteSet(S \ {x}) BY FS_RemoveElement
<1>2. SumFunctionOnSet(h, S \ {x}) = SumFunctionOnSet(f, S \ {x}) BY <1>1, SumSame
<1>3. SumFunctionOnSet(h, S) = h[x] + SumFunctionOnSet(h, S \ {x}) BY SumOne
<1>4. SumFunctionOnSet(f, S) = f[x] + SumFunctionOnSet(f, S \ {x}) BY SumOne
<1>5. SumFunctionOnSet(f, S \ {x}) \in Nat BY <1>1, SumOne
<1> QED BY <1>2, <1>3, <1>4, <1>5

\* Nothing is added by members whose number is nought.
LEMMA SumWider ==
  ASSUME NEW f, NEW h, NEW S, NEW T, IsFiniteSet(S), T \subseteq S, \A x \in T : f[x] \in Nat /\ h[x] = f[x],
         \A x \in S \ T : h[x] = 0
  PROVE  SumFunctionOnSet(h, S) = SumFunctionOnSet(f, T)
<1>1. \A x \in S \ T : Column(h, x) = {} BY DEF Column
<1>2. \A x \in T : Column(h, x) = Column(f, x) BY DEF Column
<1>3. Units(h, S) = Units(f, T)
  <2> HIDE DEF Column
  <2>1. ASSUME NEW u \in Units(h, S) PROVE u \in Units(f, T)
    <3>1. PICK x \in S : u \in Column(h, x) BY DEF Units
    <3>2. x \in T BY <1>1, <3>1
    <3> QED BY <1>2, <3>1, <3>2 DEF Units
  <2>2. ASSUME NEW u \in Units(f, T) PROVE u \in Units(h, S) BY <1>2 DEF Units
  <2> QED BY <2>1, <2>2
<1>4. IsFiniteSet(T) BY FS_Subset
<1>5. \A x \in S : h[x] \in Nat OBVIOUS
<1> QED BY <1>3, <1>4, <1>5, SumIsUnits

\* The same numbers by other names.
LEMMA SumRenamed ==
  ASSUME NEW f, NEW h, NEW S, NEW T, IsFiniteSet(S), NEW b \in Bijection(S, T),
         \A x \in S : f[x] \in Nat /\ h[b[x]] = f[x]
  PROVE  SumFunctionOnSet(h, T) = SumFunctionOnSet(f, S)
<1>1. /\ \A x \in S : b[x] \in T
      /\ \A x, y \in S : b[x] = b[y] => x = y
      /\ \A y \in T : \E x \in S : b[x] = y
  BY DEF Bijection, Injection, Surjection, IsInjective
<1>2. IsFiniteSet(T) BY FS_Bijection DEF ExistsBijection
<1>3. \A y \in T : h[y] \in Nat BY <1>1
<1>4. PICK B : B = [u \in Units(f, S) |-> <<b[u[1]], u[2]>>] OBVIOUS
<1>5. ASSUME NEW u \in Units(f, S) PROVE \E x \in S : u = <<x, u[2]>> /\ u[1] = x /\ u[2] \in 1..f[x]
  BY DEF Units, Column
<1>6. ASSUME NEW u \in Units(f, S) PROVE B[u] \in Units(h, T)
  <2>1. PICK x \in S : u = <<x, u[2]>> /\ u[1] = x /\ u[2] \in 1..f[x] BY <1>5
  <2>2. B[u] = <<b[x], u[2]>> /\ u[2] \in 1..h[b[x]] /\ b[x] \in T BY <1>1, <1>4, <2>1
  <2>3. B[u] \in Column(h, b[x]) BY <2>2 DEF Column
  <2> QED BY <2>2, <2>3 DEF Units
<1>7. ASSUME NEW u \in Units(f, S), NEW v \in Units(f, S), B[u] = B[v] PROVE u = v
  <2>1. PICK x \in S : u = <<x, u[2]>> /\ u[1] = x BY <1>5
  <2>2. PICK y \in S : v = <<y, v[2]>> /\ v[1] = y BY <1>5
  <2>3. B[u] = <<b[x], u[2]>> /\ B[v] = <<b[y], v[2]>> BY <1>4, <2>1, <2>2
  <2>4. PICK i, j, k, l : i = b[x] /\ j = b[y] /\ k = u[2] /\ l = v[2] OBVIOUS
  <2>5. <<i, k>> = <<j, l>> BY <1>7, <2>3, <2>4
  <2>6. i = j /\ k = l BY <2>5
  <2>7. x = y BY <1>1, <2>4, <2>6
  <2>8. u = <<x, k>> /\ v = <<y, l>> BY <2>1, <2>2, <2>4
  <2> QED BY <2>6, <2>7, <2>8
<1>8. ASSUME NEW w \in Units(h, T) PROVE \E u \in Units(f, S) : B[u] = w
  <2>1. PICK y \in T : w \in Column(h, y) BY DEF Units
  <2>2. PICK i \in 1..h[y] : w = <<y, i>> BY <2>1 DEF Column
  <2>3. PICK x \in S : b[x] = y BY <1>1
  <2>4. <<x, i>> \in Column(f, x) BY <2>2, <2>3 DEF Column
  <2>5. <<x, i>> \in Units(f, S) BY <2>4 DEF Units
  <2> QED BY <1>4, <2>2, <2>3, <2>5
<1>9. B \in Bijection(Units(f, S), Units(h, T))
  BY <1>4, <1>6, <1>7, <1>8 DEF Bijection, Injection, Surjection, IsInjective
<1>10. IsFiniteSet(Units(f, S)) BY UnitsFinite
<1>11. Cardinality(Units(f, S)) = Cardinality(Units(h, T))
  BY <1>9, <1>10, FS_Bijection DEF ExistsBijection
<1> QED BY <1>2, <1>3, <1>11, SumIsUnits

\* Where no number differs by less than m, nor does the sum.
LEMMA SumGap ==
  ASSUME NEW f, NEW h, NEW S, IsFiniteSet(S), NEW m \in Nat,
         \A x \in S : f[x] \in Nat /\ h[x] \in Nat /\ (h[x] = f[x] \/ f[x] + m <= h[x])
  PROVE  SumFunctionOnSet(h, S) = SumFunctionOnSet(f, S)
         \/ SumFunctionOnSet(f, S) + m <= SumFunctionOnSet(h, S)
<1>1. CASE \A x \in S : h[x] = f[x]
  <2>1. SumFunctionOnSet(h, S) = SumFunctionOnSet(f, S) BY <1>1, SumSame
  <2> QED BY <2>1
<1>2. CASE ~\A x \in S : h[x] = f[x]
  <2>1. PICK x \in S : h[x] # f[x] BY <1>2
  <2>2. PICK T : T = S \ {x} OBVIOUS
  <2>3. IsFiniteSet(T) /\ T \subseteq S BY <2>2, FS_RemoveElement
  <2>4. \A y \in T : f[y] <= h[y] BY <2>3
  <2>5. SumFunctionOnSet(f, T) <= SumFunctionOnSet(h, T) BY <2>3, <2>4, SumMore
  <2>6. SumFunctionOnSet(f, S) = f[x] + SumFunctionOnSet(f, T) BY <2>2, SumOne
  <2>7. SumFunctionOnSet(h, S) = h[x] + SumFunctionOnSet(h, T) BY <2>2, SumOne
  <2>8. SumFunctionOnSet(f, T) \in Nat /\ SumFunctionOnSet(h, T) \in Nat BY <2>3, SumOne
  <2>9. f[x] \in Nat /\ h[x] \in Nat /\ f[x] + m <= h[x] BY <2>1
  <2> QED BY <2>5, <2>6, <2>7, <2>8, <2>9
<1> QED BY <1>1, <1>2

=============================================================================
