----------------------------- MODULE ArithLemmas -----------------------------
(***************************************************************************)
(* Facts about numbers and finite sets that the proofs of the components    *)
(* cite: the code they are about divides addresses into pages, rounds them  *)
(* and counts bits.                                                         *)
(***************************************************************************)
EXTENDS Integers, FiniteSets, FiniteSetTheorems, WellFoundedInduction, TLAPS

\* A nonempty set of natural numbers has a least element.
LEMMA NatMinimum ==
    ASSUME NEW T \in SUBSET Nat, T # {}
    PROVE  \E m \in T : \A t \in T : m <= t
<1> DEFINE lt == OpToRel(<, Nat)
<1>1. IsWellFoundedOn(lt, Nat)
  BY NatLessThanWellFounded
<1>2. \A x, y \in Nat : x < y => <<x, y>> \in lt
  BY DEF OpToRel
<1> HIDE DEF lt
<1>3. PICK m \in T : \A t \in T : ~(<<t, m>> \in lt)
  BY <1>1, WFMin
<1>4. \A t \in T : ~(t < m)
  BY <1>2, <1>3, Zenon
<1> QED
  BY <1>4

\* Quotient and remainder of the division by a page size.
LEMMA DivMod ==
    ASSUME NEW a \in Int, NEW b \in Nat \ {0}
    PROVE  /\ a \div b \in Int
           /\ a % b \in 0 .. b - 1
           /\ a = (b * (a \div b)) + (a % b)
  OBVIOUS

\* A number below the modulus is its own remainder.
LEMMA SmallMod ==
    ASSUME NEW b \in Nat \ {0}, NEW a \in 0 .. b - 1
    PROVE  a % b = a
  OBVIOUS

\* Dividing a number of at most n pages of bytes gives at most n.
LEMMA DivBound ==
    ASSUME NEW a \in Nat, NEW b \in Nat \ {0}, NEW n \in Nat, a <= n * b
    PROVE  a \div b \in 0 .. n
  OBVIOUS

\* Rounding an address down: page n starts at or below a.
LEMMA DivFloor ==
    ASSUME NEW a \in Int, NEW b \in Nat \ {0}, NEW n \in Int
    PROVE  n <= a \div b <=> n * b <= a
  OBVIOUS

\* Rounding an address up: page n starts at or above a.
LEMMA DivCeil ==
    ASSUME NEW a \in Int, NEW b \in Nat \ {0}, NEW n \in Int
    PROVE  (a + b - 1) \div b <= n <=> a <= n * b
<1>1. n + 1 <= (a + b - 1) \div b <=> (n + 1) * b <= a + b - 1
  BY DivFloor
<1>2. (n + 1) * b = n * b + b /\ n * b \in Int
  OBVIOUS
<1> QED
  BY <1>1, <1>2, DivMod

\* A page number survives the conversion to an address and back.
LEMMA MulDiv ==
    ASSUME NEW n \in Int, NEW b \in Nat \ {0}
    PROVE  (n * b) \div b = n
  OBVIOUS

\* A multiple of a multiple of k is a multiple of k.
LEMMA MultipleMod ==
    ASSUME NEW n \in Int, NEW k \in Nat \ {0}, NEW b \in Int, b % k = 0
    PROVE  (n * b) % k = 0
<1>1. PICK q, m : q = b \div k /\ m = n * q
  OBVIOUS
<1>2. q \in Int /\ m \in Int /\ b = k * q
  BY <1>1, DivMod
<1>3. n * b = m * k
  <2>1. n * (k * q) = (n * q) * k
    BY <1>2
  <2> QED
    BY <1>1, <1>2, <2>1
<1>4. PICK x : x = m * k
  OBVIOUS
<1>5. x \in Int
  BY <1>2, <1>4
<1>6. PICK d, r : d = x \div k /\ r = x % k
  OBVIOUS
<1>7. d \in Int /\ r \in 0 .. k - 1 /\ x = k * d + r
  BY <1>5, <1>6, DivMod
<1>8. d = m
  BY <1>2, <1>4, <1>6, MulDiv
<1>9. x = k * m
  BY <1>2, <1>4
<1>10. r = 0
  BY <1>2, <1>7, <1>8, <1>9
<1> QED
  BY <1>3, <1>4, <1>6, <1>10

\* Adding a disjoint set adds its size.
LEMMA CardDisjointUnion ==
    ASSUME NEW A, NEW B, IsFiniteSet(A), IsFiniteSet(B), A \cap B = {}
    PROVE  /\ Cardinality(A \cup B) = Cardinality(A) + Cardinality(B)
           /\ Cardinality(A) \in Nat /\ Cardinality(B) \in Nat
<1>1. Cardinality(A \cap B) = 0
  BY FS_EmptySet
<1>2. Cardinality(A \cup B)
        = Cardinality(A) + Cardinality(B) - Cardinality(A \cap B)
  BY FS_Union
<1>3. Cardinality(A) \in Nat /\ Cardinality(B) \in Nat
  BY FS_CardinalityType
<1> QED
  BY <1>1, <1>2, <1>3

\* Removing a subset subtracts its size.
LEMMA CardRemoveSubset ==
    ASSUME NEW A, NEW B \in SUBSET A, IsFiniteSet(A)
    PROVE  /\ Cardinality(A \ B) = Cardinality(A) - Cardinality(B)
           /\ Cardinality(A) \in Nat /\ Cardinality(B) \in Nat
           /\ Cardinality(B) <= Cardinality(A)
<1>1. A \cap B = B
  OBVIOUS
<1>2. Cardinality(A \ B) = Cardinality(A) - Cardinality(A \cap B)
  BY FS_Difference
<1>3. IsFiniteSet(B) /\ Cardinality(B) <= Cardinality(A)
  BY FS_Subset
<1>4. Cardinality(A) \in Nat /\ Cardinality(B) \in Nat
  BY <1>3, FS_CardinalityType
<1> QED
  BY <1>1, <1>2, <1>3, <1>4

=============================================================================
