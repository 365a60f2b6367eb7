---------------------------- MODULE SumTheorems -----------------------------
(***************************************************************************)
(* Induction over the natural numbers and over finite sets, as far as the  *)
(* theorems about the ledger need it: a set of naturals has a smallest     *)
(* element, and the sum that FiniteSetsExt computes over a finite set does *)
(* not depend on the order in which it visits the elements.                *)
(***************************************************************************)
EXTENDS Integers, FiniteSets, FiniteSetTheorems, WellFoundedInduction, TLAPS

\* Every nonempty set of naturals has a smallest element.
LEMMA SmallestOf ==
    ASSUME NEW T, T \subseteq Nat, T # {}
    PROVE  \E x \in T : \A y \in T : x <= y
<1>1. ASSUME NEW R, IsWellFoundedOn(R, Nat),
             \A x, y \in Nat : y < x => <<y, x>> \in R
      PROVE  \E x \in T : \A y \in T : x <= y
  <2>1. PICK x \in T : \A y \in T : ~(<<y, x>> \in R)
    BY <1>1, WFMin
  <2>2. ASSUME NEW y \in T
        PROVE  x <= y
    <3>1. ~(y < x)
      BY <1>1, <2>1
    <3>2. QED
      BY <3>1
  <2>3. QED
    BY <2>2
<1>2. \A x, y \in Nat : y < x => <<y, x>> \in OpToRel(<, Nat)
  BY Zenon DEF OpToRel
<1>3. IsWellFoundedOn(OpToRel(<, Nat), Nat)
  BY Zenon, NatLessThanWellFounded
<1>4. QED
  BY Zenon, <1>1, <1>2, <1>3

\* Every nonempty set of integers with an upper bound has a greatest element.
LEMMA GreatestOf ==
    ASSUME NEW T, T \subseteq Int, T # {}, NEW m \in Int, \A x \in T : x <= m
    PROVE  \E x \in T : \A y \in T : y <= x
<1> DEFINE D == {m - x : x \in T}
<1>1. D \subseteq Nat /\ D # {}
  <2>1. ASSUME NEW x \in T
        PROVE  m - x \in Nat
    <3>1. x \in Int /\ x <= m
      OBVIOUS
    <3>2. QED
      BY <3>1
  <2>2. QED
    BY <2>1
<1>2. PICK d \in D : \A e \in D : d <= e
  BY <1>1, SmallestOf
<1>3. PICK x \in T : d = m - x
  BY <1>2
<1>4. ASSUME NEW y \in T
      PROVE  y <= x
  <2>1. m - x <= m - y
    BY <1>2, <1>3
  <2>2. QED
    BY <2>1
<1>5. QED
  BY <1>3, <1>4

(***************************************************************************)
(* Sums.                                                                   *)
(***************************************************************************)

\* The element the folds of FiniteSetsExt remove next.
Pick(s) == CHOOSE x \in s : TRUE

\* h maps every subset of S to the sum of f over it, computed by removing one
\* element after the other.
SumRule(h, f, S) ==
    /\ h[{}] = 0
    /\ \A s \in SUBSET S : s # {} => h[s] = f[Pick(s)] + h[s \ {Pick(s)}]

IsSum(h, f, S) == h \in [SUBSET S -> Int] /\ SumRule(h, f, S)

\* Pick picks an element.
LEMMA PickType == ASSUME NEW s, s # {} PROVE Pick(s) \in s
BY DEF Pick

\* Removing an element of a finite set makes it smaller.
LEMMA Smaller ==
    ASSUME NEW s, IsFiniteSet(s), NEW x \in s
    PROVE  /\ IsFiniteSet(s \ {x})
           /\ Cardinality(s) \in Nat
           /\ Cardinality(s \ {x}) \in Nat
           /\ Cardinality(s \ {x}) = Cardinality(s) - 1
BY FS_RemoveElement, FS_CardinalityType

\* The sum does not depend on the set it was computed in.
LEMMA SumIsUnique ==
    ASSUME NEW f, NEW S, NEW T, NEW g, NEW h, SumRule(g, f, S), SumRule(h, f, T),
           NEW s, s \in SUBSET S, s \in SUBSET T, IsFiniteSet(s)
    PROVE  g[s] = h[s]
<1> DEFINE Bad == {r \in SUBSET s : g[r] # h[r]}
           N == {Cardinality(r) : r \in Bad}
<1>1. ASSUME NEW r \in SUBSET s
      PROVE  IsFiniteSet(r) /\ Cardinality(r) \in Nat
  BY FS_Subset, FS_CardinalityType
<1>2. SUFFICES ASSUME Bad # {} PROVE FALSE
  OBVIOUS
<1>3. N \subseteq Nat /\ N # {}
  BY <1>1, <1>2
<1>4. PICK n \in N : \A k \in N : n <= k
  BY <1>3, SmallestOf
<1>5. PICK r \in Bad : n = Cardinality(r)
  BY <1>4
<1>6. r # {} /\ Pick(r) \in r
  BY <1>5, PickType DEF SumRule
<1> DEFINE q == r \ {Pick(r)}
<1>7. q \notin Bad
  <2>1. Cardinality(q) < Cardinality(r)
    BY <1>1, <1>5, <1>6, Smaller
  <2>2. QED
    BY <1>1, <1>4, <1>5, <2>1
<1>8. g[q] = h[q]
  BY <1>5, <1>7
<1>9. g[r] = f[Pick(r)] + g[q] /\ h[r] = f[Pick(r)] + h[q]
  BY <1>5, <1>6 DEF SumRule
<1>10. QED
  BY <1>5, <1>8, <1>9
\* The sum may be computed by removing any element first.
LEMMA SumRemoves ==
    ASSUME NEW f, NEW S, \A x \in S : f[x] \in Int, NEW h, IsSum(h, f, S),
           NEW s \in SUBSET S, IsFiniteSet(s), NEW t \in s
    PROVE  h[s] = f[t] + h[s \ {t}]
<1> DEFINE Bad == {r \in SUBSET s : \E u \in r : h[r] # f[u] + h[r \ {u}]}
           N == {Cardinality(r) : r \in Bad}
<1>1. ASSUME NEW r \in SUBSET s
      PROVE  IsFiniteSet(r) /\ Cardinality(r) \in Nat
  BY FS_Subset, FS_CardinalityType
<1>2. SUFFICES ASSUME Bad # {} PROVE FALSE
  OBVIOUS
<1>3. N \subseteq Nat /\ N # {}
  BY <1>1, <1>2
<1>4. PICK n \in N : \A k \in N : n <= k
  BY <1>3, SmallestOf
<1>5. PICK r \in Bad : n = Cardinality(r)
  BY <1>4
<1>6. PICK u \in r : h[r] # f[u] + h[r \ {u}]
  BY <1>5
<1> DEFINE p == Pick(r)
<1>7. /\ p \in r
      /\ h[r] = f[p] + h[r \ {p}]
  BY <1>5, <1>6, PickType DEF IsSum, SumRule
<1>8. u # p
  BY <1>6, <1>7
<1> HIDE DEF p
<1>9. ASSUME NEW x \in r, NEW y \in r, x # y
      PROVE  h[r \ {x}] = f[y] + h[(r \ {x}) \ {y}]
  <2>1. Cardinality(r \ {x}) < n
    BY <1>1, <1>5, Smaller
  <2>2. r \ {x} \notin Bad
    <3>1. Cardinality(r \ {x}) \in Nat /\ n \in Nat
      BY <1>1, <1>3, <1>5
    <3>2. r \ {x} \in Bad => Cardinality(r \ {x}) \in N
      OBVIOUS
    <3> HIDE DEF Bad, N
    <3>3. QED
      BY <1>4, <2>1, <3>1, <3>2
  <2>3. QED
    BY <1>5, <1>9, <2>2
<1>10. (r \ {p}) \ {u} = (r \ {u}) \ {p}
  OBVIOUS
<1>11. /\ f[u] \in Int /\ f[p] \in Int
       /\ h[(r \ {u}) \ {p}] \in Int
  BY <1>5, <1>7 DEF IsSum, SumRule
<1>12. /\ h[r \ {p}] = f[u] + h[(r \ {u}) \ {p}]
       /\ h[r \ {u}] = f[p] + h[(r \ {u}) \ {p}]
  BY <1>7, <1>8, <1>9, <1>10
<1>13. QED
  BY <1>6, <1>7, <1>11, <1>12

\* Extending a sum by one element.
LEMMA SumExtends ==
    ASSUME NEW f, NEW S, IsFiniteSet(S), NEW x \in S, \A y \in S : f[y] \in Int,
           NEW g, IsSum(g, f, S \ {x})
    PROVE  \E h : IsSum(h, f, S)
<1> DEFINE h == [s \in SUBSET S |-> IF x \in s THEN f[x] + g[s \ {x}] ELSE g[s]]
<1>1. ASSUME NEW s \in SUBSET S
      PROVE  /\ s \ {x} \in SUBSET (S \ {x})
             /\ x \notin s => s \in SUBSET (S \ {x})
  OBVIOUS
<1>2. h \in [SUBSET S -> Int]
  <2>1. ASSUME NEW s \in SUBSET S
        PROVE  (IF x \in s THEN f[x] + g[s \ {x}] ELSE g[s]) \in Int
    BY <1>1 DEF IsSum, SumRule
  <2>2. QED
    BY <2>1
<1>3. h[{}] = 0
  BY DEF IsSum, SumRule
<1>4. ASSUME NEW s \in SUBSET S, s # {}
      PROVE  h[s] = f[Pick(s)] + h[s \ {Pick(s)}]
  <2> DEFINE p == Pick(s)
  <2>1. p \in s /\ s \ {p} \in SUBSET S
    BY <1>4, PickType
  <2>2. CASE x \notin s
    <3>1. h[s] = g[s] /\ h[s \ {p}] = g[s \ {p}]
      BY <2>1, <2>2
    <3>2. QED
      BY <1>1, <1>4, <2>2, <3>1 DEF IsSum, SumRule
  <2>3. CASE x = p
    BY <2>1, <2>3
  <2>4. CASE x \in s /\ x # p
    <3>1. h[s] = f[x] + g[s \ {x}]
      BY <2>4
    <3>2. h[s \ {p}] = f[x] + g[(s \ {p}) \ {x}]
      BY <2>1, <2>4
    <3>3. (s \ {p}) \ {x} = (s \ {x}) \ {p}
      OBVIOUS
    <3>4. g[s \ {x}] = f[p] + g[(s \ {x}) \ {p}]
      <4>1. IsFiniteSet(s \ {x})
        BY FS_Subset
      <4>2. p \in s \ {x} /\ s \ {x} \in SUBSET (S \ {x})
        BY <2>1, <2>4
      <4> HIDE DEF p
      <4>3. \A y \in S \ {x} : f[y] \in Int
        OBVIOUS
      <4>4. QED
        BY <4>1, <4>2, <4>3, SumRemoves
    <3>5. f[x] \in Int /\ f[p] \in Int /\ g[(s \ {x}) \ {p}] \in Int
      BY <2>1, <2>4 DEF IsSum, SumRule
    <3>6. \A i, j, k \in Int : i + (j + k) = j + (i + k)
      OBVIOUS
    <3>7. h[s] = f[x] + (f[p] + g[(s \ {x}) \ {p}])
      BY Zenon, <3>1, <3>4
    <3>8. f[p] + h[s \ {p}] = f[p] + (f[x] + g[(s \ {x}) \ {p}])
      BY Zenon, <3>2, <3>3
    <3> HIDE DEF p, h
    <3>9. h[s] = f[p] + h[s \ {p}]
      BY Zenon, <3>5, <3>6, <3>7, <3>8
    <3>10. QED
      BY Zenon, <3>9 DEF p
  <2>5. QED
    BY <2>2, <2>3, <2>4
<1>5. IsSum(h, f, S)
  BY <1>2, <1>3, <1>4 DEF IsSum, SumRule
<1>6. QED
  BY <1>5

\* Every finite set has a sum.
LEMMA SumExists ==
    ASSUME NEW f, NEW S, IsFiniteSet(S), \A x \in S : f[x] \in Int
    PROVE  \E h : IsSum(h, f, S)
<1> DEFINE Bad == {r \in SUBSET S : ~\E h : IsSum(h, f, r)}
           N == {Cardinality(r) : r \in Bad}
<1>1. ASSUME NEW r \in SUBSET S
      PROVE  IsFiniteSet(r) /\ Cardinality(r) \in Nat
  BY FS_Subset, FS_CardinalityType
<1>2. SUFFICES ASSUME Bad # {} PROVE FALSE
  OBVIOUS
<1>3. N \subseteq Nat /\ N # {}
  BY <1>1, <1>2
<1>4. PICK n \in N : \A k \in N : n <= k
  BY <1>3, SmallestOf
<1>5. PICK r \in Bad : n = Cardinality(r)
  BY <1>4
<1>6. r # {}
  <2> DEFINE h == [s \in SUBSET {} |-> 0]
  <2>1. IsSum(h, f, {})
    BY DEF IsSum, SumRule
  <2>2. QED
    BY <1>5, <2>1
<1>7. PICK x \in r : TRUE
  BY <1>6
<1>8. Cardinality(r \ {x}) < n
  BY <1>1, <1>5, <1>7, Smaller
<1>9. r \ {x} \notin Bad
  BY <1>1, <1>4, <1>5, <1>8
<1>10. PICK g : IsSum(g, f, r \ {x})
  BY <1>5, <1>9
<1>11. \E h : IsSum(h, f, r)
  BY <1>1, <1>5, <1>7, <1>10, SumExtends
<1>12. QED
  BY <1>5, <1>11
=============================================================================
