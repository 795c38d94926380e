------------------------------ MODULE Induction ------------------------------
(***************************************************************************)
(* Induction, and the sums of the community modules.                       *)
(*                                                                         *)
(* The induction theorems of the library take the property to be proved as *)
(* an operator; here the same reasoning goes by sets: a counterexample has *)
(* a smallest one, since the strict subset ordering on finite sets is well *)
(* founded.  From it follow the recursion SumFunctionOnSet solves, that    *)
(* its solution does not depend on the order in which elements are taken,  *)
(* and the facts about sums that the other proofs cite.                    *)
(***************************************************************************)
EXTENDS Integers, Functions, FiniteSetTheorems, TLAPS

\* A set of finite sets that is not empty has a member no other is a strict subset of.
LEMMA SmallestSet ==
    ASSUME NEW T, T # {}, \A s \in T : IsFiniteSet(s)
    PROVE  \E m \in T : \A s \in T : s \subseteq m => s = m
<1> DEFINE U == UNION T
<1>1. T \subseteq FiniteSubsetsOf(U)
  BY DEF FiniteSubsetsOf
<1>2. IsWellFoundedOn(StrictSubsetOrdering(U), FiniteSubsetsOf(U))
  BY FS_StrictSubsetOrderingWellFounded
<1>3. PICK m \in T : \A s \in T : <<s, m>> \notin StrictSubsetOrdering(U)
  <2> HIDE DEF U
  <2> QED BY <1>1, <1>2, WFMin
<1>4. ASSUME NEW s \in T, s \subseteq m, s # m PROVE FALSE
  <2>1. <<s, m>> \in (SUBSET U) \X (SUBSET U)
    OBVIOUS
  <2>2. <<s, m>> \in StrictSubsetOrdering(U)
    BY <2>1, <1>4 DEF StrictSubsetOrdering
  <2> QED BY <2>2, <1>3
<1> QED BY <1>3, <1>4

\* A set of naturals that holds 0 and the successor of each member holds all.
LEMMA Induct ==
    ASSUME NEW S, 0 \in S, \A n \in Nat : n \in S => n + 1 \in S
    PROVE  \A n \in Nat : n \in S
<1> SUFFICES ASSUME NEW n \in Nat, n \notin S PROVE FALSE
  OBVIOUS
<1> DEFINE T == {1 .. k : k \in Nat \ S}
<1>1. \A s \in T : IsFiniteSet(s)
  BY FS_Interval
<1>2. 1 .. n \in T
  OBVIOUS
<1>3. PICK m \in T : \A s \in T : s \subseteq m => s = m
  <2> HIDE DEF T
  <2> QED BY <1>1, <1>2, SmallestSet
<1>4. PICK k \in Nat \ S : m = 1 .. k
  OBVIOUS
<1>5. k # 0 /\ k - 1 \in Nat /\ k - 1 \notin S
  OBVIOUS
<1>6. 1 .. k - 1 \in T /\ 1 .. k - 1 \subseteq m
  BY <1>4, <1>5
<1>7. k \in m /\ k \notin 1 .. k - 1
  BY <1>4, <1>5
<1> QED BY <1>3, <1>6, <1>7

(* The sum of a function over a finite set, as the community modules fold it. *)

Pick(s) == CHOOSE x \in s : TRUE

\* The recursion that SumFunctionOnSet solves on the subsets of S.
IsSum(g, f, S) ==
    g = [s \in SUBSET S |-> IF s = {} THEN 0 ELSE f[Pick(s)] + g[s \ {Pick(s)}]]

\* The solution that SumFunctionOnSet takes.
SumOf(f, S) == CHOOSE g : IsSum(g, f, S)

\* SumFunctionOnSet is the value of that solution at the whole set.
LEMMA SumUnfold ==
    ASSUME NEW f, NEW S
    PROVE  SumFunctionOnSet(f, S) = SumOf(f, S)[S]
BY DEF SumFunctionOnSet, FoldFunctionOnSet, MapThenFoldSet, SumOf, IsSum, Pick

\* CHOOSE takes an element of a set that has one.
LEMMA PickIn == ASSUME NEW s, s # {} PROVE Pick(s) \in s
BY DEF Pick

\* Solutions on different sets agree where both are defined, on integers.
LEMMA SumUnique ==
    ASSUME NEW f, NEW S, NEW U, NEW g, NEW h, IsSum(g, f, S), IsSum(h, f, U),
           NEW s, s \subseteq S, s \subseteq U, IsFiniteSet(s), \A x \in s : f[x] \in Int
    PROVE  g[s] = h[s] /\ g[s] \in Int
<1> DEFINE Bad == {r \in SUBSET s : ~(g[r] = h[r] /\ g[r] \in Int)}
<1> SUFFICES ASSUME Bad # {} PROVE FALSE
  OBVIOUS
<1>1. \A r \in Bad : IsFiniteSet(r)
  BY FS_Subset
<1>2. PICK r \in Bad : \A q \in Bad : q \subseteq r => q = r
  <2> HIDE DEF Bad
  <2> QED BY <1>1, SmallestSet
<1>3. /\ g[r] = IF r = {} THEN 0 ELSE f[Pick(r)] + g[r \ {Pick(r)}]
      /\ h[r] = IF r = {} THEN 0 ELSE f[Pick(r)] + h[r \ {Pick(r)}]
  <2>1. r \in SUBSET S /\ r \in SUBSET U
    OBVIOUS
  <2> QED BY <2>1 DEF IsSum
<1>4. r # {}
  BY <1>3
<1>5. Pick(r) \in r
  BY <1>4, PickIn
<1>6. r \ {Pick(r)} \in SUBSET s /\ r \ {Pick(r)} \notin Bad
  BY <1>2, <1>5
<1>7. g[r \ {Pick(r)}] = h[r \ {Pick(r)}] /\ g[r \ {Pick(r)}] \in Int
  BY <1>6
<1>8. f[Pick(r)] \in Int
  BY <1>5
<1> QED BY <1>3, <1>4, <1>7, <1>8

\* The recursion has a solution on every finite set.
LEMMA SumExists ==
    ASSUME NEW f, NEW S, IsFiniteSet(S), \A x \in S : f[x] \in Int
    PROVE  IsSum(SumOf(f, S), f, S)
<1> DEFINE Bad == {r \in SUBSET S : ~IsSum(SumOf(f, r), f, r)}
<1> SUFFICES ASSUME Bad # {} PROVE FALSE
  OBVIOUS
<1>1. \A r \in Bad : IsFiniteSet(r)
  BY FS_Subset
<1>2. PICK r \in Bad : \A q \in Bad : q \subseteq r => q = r
  <2> HIDE DEF Bad
  <2> QED BY <1>1, SmallestSet
<1>3. \A q \in SUBSET r : q # r => IsSum(SumOf(f, q), f, q)
  BY <1>2
<1> DEFINE v(q) == IF q = {} THEN 0 ELSE f[Pick(q)] + SumOf(f, q \ {Pick(q)})[q \ {Pick(q)}]
           h == [q \in SUBSET r |-> v(q)]
<1>4. ASSUME NEW q \in SUBSET r, q # r PROVE v(q) = SumOf(f, q)[q]
  <2>1. IsSum(SumOf(f, q), f, q)
    BY <1>3, <1>4
  <2>2. SumOf(f, q)[q] = IF q = {} THEN 0 ELSE f[Pick(q)] + SumOf(f, q)[q \ {Pick(q)}]
    <3> DEFINE g == SumOf(f, q)
    <3>1. IsSum(g, f, q)
      BY <2>1
    <3> HIDE DEF g
    <3>2. g[q] = IF q = {} THEN 0 ELSE f[Pick(q)] + g[q \ {Pick(q)}]
      BY <3>1 DEF IsSum
    <3> QED BY <3>2 DEF g
  <2>3. CASE q = {}
    BY <2>2, <2>3
  <2>4. CASE q # {}
    <3> DEFINE p == q \ {Pick(q)}
    <3>1. p \subseteq q /\ p # r /\ p \in SUBSET r
      BY <2>4, PickIn
    <3>2. IsSum(SumOf(f, p), f, p)
      BY <3>1, <1>3
    <3>3. IsFiniteSet(p) /\ \A x \in p : f[x] \in Int
      BY FS_Subset, <1>1
    <3>4. SumOf(f, q)[p] = SumOf(f, p)[p]
      <4> HIDE DEF p
      <4> QED BY <2>1, <3>1, <3>2, <3>3, SumUnique
    <3> QED BY <2>2, <2>4, <3>4
  <2> QED BY <2>3, <2>4
<1>5. IsSum(h, f, r)
  <2>1. ASSUME NEW q \in SUBSET r, q # {}
        PROVE  h[q] = f[Pick(q)] + h[q \ {Pick(q)}]
    <3> DEFINE p == q \ {Pick(q)}
    <3>1. p \in SUBSET r /\ p # r
      BY <2>1, PickIn
    <3>2. h[p] = SumOf(f, p)[p]
      <4>1. v(p) = SumOf(f, p)[p]
        BY <3>1, <1>4
      <4>2. h[p] = v(p)
        BY <3>1
      <4> QED BY <4>1, <4>2
    <3>3. h[q] = f[Pick(q)] + SumOf(f, p)[p]
      BY <2>1
    <3> QED BY <3>2, <3>3
  <2>2. h[{}] = 0
    OBVIOUS
  <2>3. h = [q \in SUBSET r |-> h[q]]
    OBVIOUS
  <2> HIDE DEF h
  <2>4. h = [q \in SUBSET r |-> IF q = {} THEN 0 ELSE f[Pick(q)] + h[q \ {Pick(q)}]]
    BY <2>1, <2>2, <2>3
  <2> QED BY <2>4 DEF IsSum
<1>6. IsSum(SumOf(f, r), f, r)
  <2> HIDE DEF h
  <2> QED BY <1>5 DEF SumOf
<1> QED BY <1>2, <1>6

\* Any element may be taken out first.
LEMMA SumAnyFirst ==
    ASSUME NEW f, NEW S, IsFiniteSet(S), \A x \in S : f[x] \in Int,
           NEW g, IsSum(g, f, S), NEW x \in S
    PROVE  g[S] = f[x] + g[S \ {x}]
<1> DEFINE Bad == {r \in SUBSET S : \E y \in r : g[r] # f[y] + g[r \ {y}]}
<1> SUFFICES ASSUME Bad # {} PROVE FALSE
  OBVIOUS
<1>1. \A r \in Bad : IsFiniteSet(r)
  BY FS_Subset
<1>2. PICK r \in Bad : \A q \in Bad : q \subseteq r => q = r
  <2> HIDE DEF Bad
  <2> QED BY <1>1, SmallestSet
<1>3. \A q \in SUBSET S : q # {} => g[q] = f[Pick(q)] + g[q \ {Pick(q)}]
  BY DEF IsSum
<1>4. \A q \in SUBSET S : g[q] \in Int
  <2> TAKE q \in SUBSET S
  <2>1. IsFiniteSet(q) /\ \A z \in q : f[z] \in Int
    BY FS_Subset
  <2> QED BY <2>1, SumUnique
<1>5. PICK y \in r : g[r] # f[y] + g[r \ {y}]
  BY <1>2
<1> DEFINE c == Pick(r)
<1>6. c \in r
  BY PickIn
<1>7. c # y
  BY <1>3, <1>5
<1>8. g[r] = f[c] + g[r \ {c}]
  BY <1>3, <1>5
<1> HIDE DEF c
<1>9. r \ {c} \notin Bad /\ r \ {y} \notin Bad
  BY <1>2, <1>6, <1>5
<1>10. g[r \ {c}] = f[y] + g[(r \ {c}) \ {y}]
  BY <1>9, <1>7, <1>5
<1>11. g[r \ {y}] = f[c] + g[(r \ {y}) \ {c}]
  BY <1>9, <1>7, <1>6
<1>12. (r \ {c}) \ {y} = (r \ {y}) \ {c}
  OBVIOUS
<1>13. /\ f[c] \in Int /\ f[y] \in Int /\ g[(r \ {y}) \ {c}] \in Int
       /\ g[r \ {y}] \in Int /\ g[r \ {c}] \in Int
  BY <1>4, <1>6
<1>14. \A i, j, k \in Int : i + (j + k) = j + (i + k)
  OBVIOUS
<1>15. f[c] + (f[y] + g[(r \ {y}) \ {c}]) = f[y] + (f[c] + g[(r \ {y}) \ {c}])
  BY <1>13, <1>14
<1>16. g[r] = f[y] + g[r \ {y}]
  BY <1>8, <1>10, <1>11, <1>12, <1>15
<1> QED BY <1>5, <1>16

(* What the other proofs cite. *)

\* Nothing sums to zero.
LEMMA SumEmpty == \A f : SumFunctionOnSet(f, {}) = 0
<1> TAKE f
<1>1. IsSum(SumOf(f, {}), f, {})
  BY SumExists, FS_EmptySet
<1>2. SumOf(f, {})[{}] = 0
  <2> DEFINE g == SumOf(f, {})
  <2>1. IsSum(g, f, {})
    BY <1>1
  <2> HIDE DEF g
  <2>2. g[{}] = 0
    BY <2>1 DEF IsSum
  <2> QED BY <2>2 DEF g
<1> QED BY <1>2, SumUnfold

\* Integers sum to an integer.
LEMMA SumType ==
    ASSUME NEW f, NEW S, IsFiniteSet(S), \A x \in S : f[x] \in Int
    PROVE  SumFunctionOnSet(f, S) \in Int
BY SumUnfold, SumExists, SumUnique

\* Any element may be taken out of a sum.
LEMMA SumRemove ==
    ASSUME NEW f, NEW S, IsFiniteSet(S), \A x \in S : f[x] \in Int, NEW x \in S
    PROVE  SumFunctionOnSet(f, S) = f[x] + SumFunctionOnSet(f, S \ {x})
<1>1. IsSum(SumOf(f, S), f, S)
  BY SumExists
<1>2. IsFiniteSet(S \ {x}) /\ \A z \in S \ {x} : f[z] \in Int
  BY FS_RemoveElement
<1>3. IsSum(SumOf(f, S \ {x}), f, S \ {x})
  BY <1>2, SumExists
<1>4. SumOf(f, S)[S] = f[x] + SumOf(f, S)[S \ {x}]
  BY <1>1, SumAnyFirst
<1>5. SumOf(f, S)[S \ {x}] = SumOf(f, S \ {x})[S \ {x}]
  BY <1>1, <1>2, <1>3, SumUnique
<1> QED BY <1>4, <1>5, SumUnfold

\* Any other element may be added to it.
LEMMA SumAdd ==
    ASSUME NEW f, NEW S, IsFiniteSet(S), \A y \in S : f[y] \in Int,
           NEW x, x \notin S, f[x] \in Int
    PROVE  SumFunctionOnSet(f, S \union {x}) = SumFunctionOnSet(f, S) + f[x]
<1>1. IsFiniteSet(S \union {x}) /\ \A y \in S \union {x} : f[y] \in Int
  BY FS_AddElement
<1>2. (S \union {x}) \ {x} = S
  OBVIOUS
<1>3. x \in S \union {x}
  OBVIOUS
<1>4. SumFunctionOnSet(f, S \union {x}) = f[x] + SumFunctionOnSet(f, S)
  BY <1>1, <1>2, <1>3, SumRemove
<1> QED BY <1>4, SumType

\* Functions that agree on a set have the same sum over it.
LEMMA SumSame ==
    ASSUME NEW S, NEW f, NEW h, \A x \in S : f[x] = h[x] /\ f[x] \in Int, IsFiniteSet(S)
    PROVE  SumFunctionOnSet(f, S) = SumFunctionOnSet(h, S)
<1> DEFINE Bad == {r \in SUBSET S : SumFunctionOnSet(f, r) # SumFunctionOnSet(h, r)}
<1> SUFFICES ASSUME Bad # {} PROVE FALSE
  OBVIOUS
<1>1. \A r \in Bad : IsFiniteSet(r)
  BY FS_Subset
<1>2. PICK r \in Bad : \A q \in Bad : q \subseteq r => q = r
  <2> HIDE DEF Bad
  <2> QED BY <1>1, SmallestSet
<1>3. r # {}
  BY <1>2, SumEmpty
<1>4. PICK x \in r : TRUE
  BY <1>3
<1>5. r \ {x} \notin Bad /\ r \ {x} \in SUBSET S
  BY <1>2
<1>6. SumFunctionOnSet(f, r \ {x}) = SumFunctionOnSet(h, r \ {x})
  BY <1>5
<1>7. /\ SumFunctionOnSet(f, r) = f[x] + SumFunctionOnSet(f, r \ {x})
      /\ SumFunctionOnSet(h, r) = h[x] + SumFunctionOnSet(h, r \ {x})
  BY <1>1, SumRemove
<1> QED BY <1>2, <1>6, <1>7

\* Functions that agree on a set but for one element.
LEMMA SumUpdate ==
    ASSUME NEW S, NEW f, NEW h, IsFiniteSet(S), \A y \in S : f[y] \in Int /\ h[y] \in Int,
           NEW x \in S, \A y \in S \ {x} : f[y] = h[y]
    PROVE  SumFunctionOnSet(h, S) = SumFunctionOnSet(f, S) - f[x] + h[x]
<1>1. /\ SumFunctionOnSet(f, S) = f[x] + SumFunctionOnSet(f, S \ {x})
      /\ SumFunctionOnSet(h, S) = h[x] + SumFunctionOnSet(h, S \ {x})
  BY SumRemove
<1>2. IsFiniteSet(S \ {x})
  BY FS_RemoveElement
<1>3. SumFunctionOnSet(f, S \ {x}) = SumFunctionOnSet(h, S \ {x})
  BY <1>2, SumSame
<1>4. SumFunctionOnSet(f, S \ {x}) \in Int
  BY <1>2, SumType
<1> QED BY <1>1, <1>3, <1>4

\* A sum of naturals is one.
LEMMA SumNat ==
    ASSUME NEW S, NEW f, \A x \in S : f[x] \in Nat, IsFiniteSet(S)
    PROVE  SumFunctionOnSet(f, S) \in Nat
<1> DEFINE Bad == {r \in SUBSET S : SumFunctionOnSet(f, r) \notin Nat}
<1> SUFFICES ASSUME Bad # {} PROVE FALSE
  OBVIOUS
<1>1. \A r \in Bad : IsFiniteSet(r)
  BY FS_Subset
<1>2. PICK r \in Bad : \A q \in Bad : q \subseteq r => q = r
  <2> HIDE DEF Bad
  <2> QED BY <1>1, SmallestSet
<1>3. r # {}
  <2>1. SumFunctionOnSet(f, {}) = 0
    BY SumEmpty
  <2> QED BY <2>1
<1>4. PICK x \in r : TRUE
  BY <1>3
<1>5. r \ {x} \notin Bad /\ r \ {x} \in SUBSET S
  BY <1>2
<1>6. SumFunctionOnSet(f, r \ {x}) \in Nat
  BY <1>5
<1>7. SumFunctionOnSet(f, r) = f[x] + SumFunctionOnSet(f, r \ {x})
  BY <1>1, SumRemove
<1> QED BY <1>2, <1>6, <1>7

\* A sum of naturals is one, and at most the bound times the number of elements.
LEMMA SumBounded ==
    ASSUME NEW S, NEW f, NEW b \in Nat, \A x \in S : f[x] \in 0 .. b, IsFiniteSet(S)
    PROVE  SumFunctionOnSet(f, S) \in 0 .. Cardinality(S) * b
<1> DEFINE Bad == {r \in SUBSET S : SumFunctionOnSet(f, r) \notin 0 .. Cardinality(r) * b}
<1> SUFFICES ASSUME Bad # {} PROVE FALSE
  OBVIOUS
<1>1. \A r \in Bad : IsFiniteSet(r)
  BY FS_Subset
<1>2. PICK r \in Bad : \A q \in Bad : q \subseteq r => q = r
  <2> HIDE DEF Bad
  <2> QED BY <1>1, SmallestSet
<1>3. r # {}
  <2>1. SumFunctionOnSet(f, {}) = 0 /\ Cardinality({}) = 0
    BY SumEmpty, FS_EmptySet
  <2>2. SumFunctionOnSet(f, {}) \in 0 .. Cardinality({}) * b
    BY <2>1
  <2> QED BY <2>2
<1>4. PICK x \in r : TRUE
  BY <1>3
<1>5. r \ {x} \notin Bad /\ r \ {x} \in SUBSET S
  BY <1>2
<1>6. SumFunctionOnSet(f, r \ {x}) \in 0 .. Cardinality(r \ {x}) * b
  BY <1>5
<1>7. SumFunctionOnSet(f, r) = f[x] + SumFunctionOnSet(f, r \ {x})
  BY <1>1, SumRemove
<1>8. Cardinality(r \ {x}) = Cardinality(r) - 1 /\ Cardinality(r) \in Nat
  BY <1>1, FS_RemoveElement, FS_CardinalityType
<1>9. (Cardinality(r) - 1) * b + b = Cardinality(r) * b
  BY <1>8
<1>10. SumFunctionOnSet(f, r) \in 0 .. Cardinality(r) * b
  <2>1. f[x] \in 0 .. b
    OBVIOUS
  <2>2. (Cardinality(r) - 1) * b \in Int /\ Cardinality(r) * b \in Int
    BY <1>8
  <2> QED BY <1>6, <1>7, <1>8, <1>9, <2>1, <2>2
<1> QED BY <1>2, <1>10

\* Zeros sum to zero.
LEMMA SumZero ==
    ASSUME NEW S, NEW f, \A x \in S : f[x] = 0, IsFiniteSet(S)
    PROVE  SumFunctionOnSet(f, S) = 0
<1>1. SumFunctionOnSet(f, S) \in 0 .. Cardinality(S) * 0
  BY SumBounded
<1>2. Cardinality(S) * 0 = 0
  BY FS_CardinalityType
<1> QED BY <1>1, <1>2
==============================================================================
