---------------------------- MODULE MoneyTheorems ----------------------------
(***************************************************************************)
(* Laws of totals, from the library's laws of cardinalities.               *)
(***************************************************************************)
EXTENDS Money, FiniteSetTheorems, TLAPS

\* The units of finitely many rows of natural amounts are finitely many.
LEMMA UnitsFinite ==
  ASSUME NEW S, NEW f, IsFiniteSet(S), \A x \in S : f[x] \in Nat
  PROVE  IsFiniteSet(Units(S, f))
<1> DEFINE g == [x \in S |-> {x} \X (1..f[x])]
           T == {{x} \X (1..f[x]) : x \in S}
<1>1. g \in Surjection(S, T)
  BY DEF Surjection
<1>2. IsFiniteSet(T)
  BY <1>1, FS_Surjection
<1>3. ASSUME NEW x \in S
      PROVE  IsFiniteSet({x} \X (1..f[x]))
  <2>1. IsFiniteSet({x})
    BY FS_Singleton
  <2>2. 1 \in Int /\ f[x] \in Int
    OBVIOUS
  <2>3. IsFiniteSet(1..f[x])
    BY <2>2, FS_Interval
  <2> QED BY <2>1, <2>3, FS_Product
<1>4. \A U \in T : IsFiniteSet(U)
  BY <1>3
<1>5. IsFiniteSet(UNION T)
  <2> HIDE DEF T
  <2> QED BY <1>2, <1>4, FS_UNION
<1> QED BY <1>5 DEF Units

\* A total of natural amounts is a natural number.
LEMMA TotalType ==
  ASSUME NEW S, NEW f, IsFiniteSet(S), \A x \in S : f[x] \in Nat
  PROVE  Total(S, f) \in Nat
BY UnitsFinite, FS_CardinalityType DEF Total

\* No rows, no units.
LEMMA TotalEmpty ==
  ASSUME NEW f
  PROVE  Total({}, f) = 0
<1>1. Units({}, f) = {}
  BY DEF Units
<1> QED BY <1>1, FS_EmptySet DEF Total

\* A total depends only on the amounts of its rows.
LEMMA TotalCongruence ==
  ASSUME NEW S, NEW f, NEW g, \A x \in S : f[x] = g[x]
  PROVE  Total(S, f) = Total(S, g)
<1>1. Units(S, f) = Units(S, g)
  BY DEF Units
<1> QED BY <1>1 DEF Total

\* The total of one row is its amount.
LEMMA TotalSingle ==
  ASSUME NEW x, NEW f, f[x] \in Nat
  PROVE  Total({x}, f) = f[x]
<1> DEFINE n == f[x]
           b == [k \in 1..n |-> <<x, k>>]
<1>1. Units({x}, f) = {x} \X (1..n)
  BY DEF Units
<1>2. b \in Bijection(1..n, {x} \X (1..n))
  <2>1. b \in Injection(1..n, {x} \X (1..n))
    BY DEF Injection, IsInjective
  <2>2. \A p \in {x} \X (1..n) : \E k \in 1..n : b[k] = p
    OBVIOUS
  <2>3. b \in Surjection(1..n, {x} \X (1..n))
    BY <2>2 DEF Surjection
  <2> QED BY <2>1, <2>3 DEF Bijection
<1>3. n \in Nat /\ ExistsBijection(1..n, {x} \X (1..n))
  BY <1>2 DEF ExistsBijection
<1>4. Cardinality({x} \X (1..n)) = n
  BY <1>3, FS_CountingElements
<1> QED BY <1>1, <1>4 DEF Total

\* Totals of disjoint sets of rows add up.
LEMMA TotalUnion ==
  ASSUME NEW S, NEW T, NEW f, IsFiniteSet(S), IsFiniteSet(T), S \cap T = {},
         \A x \in S \cup T : f[x] \in Nat
  PROVE  Total(S \cup T, f) = Total(S, f) + Total(T, f)
<1>1. IsFiniteSet(Units(S, f)) /\ IsFiniteSet(Units(T, f))
  BY UnitsFinite
<1>2. Units(S \cup T, f) = Units(S, f) \cup Units(T, f)
  BY DEF Units
<1>3. Units(S, f) \cap Units(T, f) = {}
  BY DEF Units
<1>4. Cardinality(Units(S, f)) \in Nat /\ Cardinality(Units(T, f)) \in Nat
  BY <1>1, FS_CardinalityType
<1>5. Cardinality(Units(S, f) \cap Units(T, f)) = 0
  BY <1>3, FS_EmptySet
<1>6. Cardinality(Units(S, f) \cup Units(T, f))
        = Cardinality(Units(S, f)) + Cardinality(Units(T, f))
            - Cardinality(Units(S, f) \cap Units(T, f))
  BY <1>1, FS_Union
<1>7. Cardinality(Units(S \cup T, f)) = Cardinality(Units(S, f) \cup Units(T, f))
  BY <1>2
<1>8. Cardinality(Units(S \cup T, f)) = Cardinality(Units(S, f)) + Cardinality(Units(T, f))
  BY <1>4, <1>5, <1>6, <1>7
<1> QED BY <1>8 DEF Total

\* A new row adds its amount.
LEMMA TotalAdd ==
  ASSUME NEW S, NEW x, NEW f, IsFiniteSet(S), x \notin S,
         \A y \in S \cup {x} : f[y] \in Nat
  PROVE  Total(S \cup {x}, f) = Total(S, f) + f[x]
<1>1. IsFiniteSet({x}) /\ S \cap {x} = {} /\ f[x] \in Nat
  BY FS_Singleton
<1>2. Total(S \cup {x}, f) = Total(S, f) + Total({x}, f)
  BY <1>1, TotalUnion
<1> QED BY <1>1, <1>2, TotalSingle

\* Rows that leave take their total with them.
LEMMA TotalMinus ==
  ASSUME NEW S, NEW X, NEW f, IsFiniteSet(S), X \subseteq S,
         \A y \in S : f[y] \in Nat
  PROVE  /\ Total(S \ X, f) = Total(S, f) - Total(X, f)
         /\ Total(X, f) <= Total(S, f)
<1>1. IsFiniteSet(X) /\ IsFiniteSet(S \ X)
  BY FS_Subset, FS_Difference
<1>2. Total(X, f) \in Nat /\ Total(S \ X, f) \in Nat
  BY <1>1, TotalType
<1>3. X \cup (S \ X) = S /\ X \cap (S \ X) = {}
  OBVIOUS
<1>4. Total(X \cup (S \ X), f) = Total(X, f) + Total(S \ X, f)
  BY <1>1, <1>3, TotalUnion
<1>5. Total(S, f) = Total(X, f) + Total(S \ X, f)
  BY <1>3, <1>4, Zenon
<1> QED BY <1>2, <1>5

\* One row that leaves takes its amount with it.
LEMMA TotalRemove ==
  ASSUME NEW S, NEW x \in S, NEW f, IsFiniteSet(S), \A y \in S : f[y] \in Nat
  PROVE  /\ Total(S \ {x}, f) = Total(S, f) - f[x]
         /\ f[x] <= Total(S, f)
<1>1. {x} \subseteq S /\ f[x] \in Nat
  OBVIOUS
<1>2. /\ Total(S \ {x}, f) = Total(S, f) - Total({x}, f)
      /\ Total({x}, f) <= Total(S, f)
  BY <1>1, TotalMinus
<1> QED BY <1>1, <1>2, TotalSingle
=============================================================================
