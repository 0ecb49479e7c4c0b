----------------------------- MODULE Arithmetic -----------------------------
\* Facts about natural numbers that the proofs of several modules cite.
EXTENDS Integers, WellFoundedInduction, TLAPS

\* Quotient and remainder.
LEMMA Division ==
  ASSUME NEW n \in Nat, NEW e \in Nat \ {0}
  PROVE  /\ n \div e \in Nat /\ n % e \in 0..(e - 1)
         /\ n = e * (n \div e) + (n % e)
  BY Z3

\* What is below k times e is divided to less than k ...
LEMMA Below ==
  ASSUME NEW n \in Nat, NEW e \in Nat \ {0}, NEW k \in Nat, n < k * e
  PROVE  n \div e < k
  BY Division, Z3

\* ... and what is not, is not.
LEMMA Above ==
  ASSUME NEW n \in Nat, NEW e \in Nat \ {0}, NEW k \in Nat, k * e <= n
  PROVE  k <= n \div e
  BY Division, Z3

\* A remainder is known by being small enough.
LEMMA Remainder ==
  ASSUME NEW n \in Nat, NEW e \in Nat \ {0}, NEW k \in Nat, NEW b \in 0..(e - 1),
         n = k * e + b
  PROVE  n % e = b
<1>1. /\ n \div e \in Nat /\ n % e \in 0..(e - 1)
      /\ n = e * (n \div e) + (n % e)
  BY Division
<1>2. (n \div e) < k + 1
  <2>1. n < (k + 1) * e
    BY Z3
  <2>2. QED
    BY <2>1, Below, k + 1 \in Nat
<1>3. k <= n \div e
  <2>1. k * e <= n
    BY Z3
  <2>2. QED
    BY <2>1, Above
<1>4. n \div e = k
  BY <1>1, <1>2, <1>3
<1>5. QED
  BY <1>1, <1>4, Z3

\* Products in any order.
LEMMA Products ==
  ASSUME NEW x \in Nat, NEW y \in Nat, NEW z \in Nat, NEW w \in Nat
  PROVE  /\ x * y \in Nat
         /\ (y * z + w) * x = (x * y) * z + x * w
  BY Z3

(* From a place p in a row of blocks of P pieces of size S, what is left of *)
(* the piece is in the block.                                               *)
LEMMA PieceInBlock ==
  ASSUME NEW p \in Nat, NEW S \in Nat \ {0}, NEW P \in Nat \ {0}
  PROVE  (p % (S * P)) + (S - (p % S)) <= S * P
<1>1. S * P \in Nat \ {0}
  BY Z3
<1>2. PICK C \in Nat \ {0} : C = S * P
  BY <1>1
<1>3. PICK q \in Nat, r \in 0..(C - 1) : r = p % C /\ p = C * q + r
  <2>1. p \div C \in Nat /\ p % C \in 0..(C - 1) /\ p = C * (p \div C) + (p % C)
    BY Division
  <2>2. QED
    BY <2>1
<1>4. PICK a \in Nat, b \in 0..(S - 1) : b = r % S /\ r = S * a + b
  <2>1. r \in Nat
    OBVIOUS
  <2>2. r \div S \in Nat /\ r % S \in 0..(S - 1) /\ r = S * (r \div S) + (r % S)
    BY <2>1, Division
  <2>3. QED
    BY <2>2
<1>5. p = (P * q + a) * S + b
  <2>1. (P * q + a) * S = (S * P) * q + S * a
    BY Products
  <2>2. (S * P) * q = C * q
    BY <1>2
  <2>3. S * a \in Nat /\ C * q \in Nat /\ (P * q + a) * S \in Nat
    BY <2>1, <2>2, Products
  <2>4. QED
    BY <1>3, <1>4, <2>1, <2>2, <2>3
<1>6. p % S = b
  <2>1. P * q + a \in Nat
    BY Products
  <2>2. QED
    BY <1>5, <2>1, Remainder
<1>7. S * a + S <= C
  <2>1. S * a < S * P
    <3>1. S * a \in Nat /\ S * P \in Nat
      BY Products
    <3>2. QED
      BY <1>2, <1>3, <1>4, <3>1
  <2>2. a + 1 <= P
    BY <2>1, Z3
  <2>3. S * (a + 1) <= S * P /\ S * (a + 1) = S * a + S
    BY <2>2, Z3
  <2>4. QED
    BY <1>2, <2>3
<1>8. r + (S - b) <= C
  <2>1. S * a \in Nat
    BY Products
  <2>2. QED
    BY <1>3, <1>4, <1>7, <2>1
<1>9. QED
  BY <1>2, <1>3, <1>6, <1>8

\* A set of natural numbers that is not empty has a least element.
LEMMA LeastElement ==
  ASSUME NEW S \in SUBSET Nat, S # {}
  PROVE  \E f \in S : \A g \in S : f <= g
<1> DEFINE R == {ss \in Nat \X Nat : ss[1] < ss[2]}
<1>1. IsWellFoundedOn(R, Nat)
  BY NatLessThanWellFounded DEF OpToRel
<1>2. \A f, g \in Nat : g < f => <<g, f>> \in R
  OBVIOUS
<1>3. PICK f \in S : \A g \in S : ~(<<g, f>> \in R)
  <2>1. S \subseteq Nat /\ S # {}
    OBVIOUS
  <2> HIDE DEF R
  <2>2. QED
    BY <1>1, <2>1, WFMin
<1>4. ASSUME NEW g \in S
      PROVE  f <= g
  <2>1. f \in Nat /\ g \in Nat
    OBVIOUS
  <2> HIDE DEF R
  <2>2. ~(g < f)
    BY <1>2, <1>3, <2>1
  <2>3. QED
    BY <2>1, <2>2
<1>5. QED
  BY <1>4
=============================================================================
