-------------------------- MODULE ShareMath_proofs --------------------------
(***************************************************************************)
(* The arithmetic of ShareMath: what a division that rounds loses at most, *)
(* and the inequalities between products that prices and proportions rest  *)
(* on.                                                                     *)
(***************************************************************************)
EXTENDS ShareMath, TLAPS

(* Division rounds down by less than one. *)
LEMMA DivBounds ==
  ASSUME NEW a \in Nat, NEW d \in Nat \ {0}
  PROVE  /\ a \div d \in Nat
         /\ (a \div d) * d <= a
         /\ a < (a \div d + 1) * d
OBVIOUS

(* mulDivDown never exceeds the exact quotient. *)
LEMMA MulDivDownBounds ==
  ASSUME NEW x \in Nat, NEW y \in Nat, NEW d \in Nat \ {0}
  PROVE  /\ MulDivDown(x, y, d) \in Nat
         /\ MulDivDown(x, y, d) * d <= x * y
<1>1. x * y \in Nat
  OBVIOUS
<1> QED BY <1>1, DivBounds DEF MulDivDown

(* mulDivUp never falls short of it. *)
LEMMA MulDivUpBounds ==
  ASSUME NEW x \in Nat, NEW y \in Nat, NEW d \in Nat \ {0}
  PROVE  /\ MulDivUp(x, y, d) \in Nat
         /\ MulDivUp(x, y, d) * d >= x * y
<1> DEFINE a == x * y + d - 1
           q == a \div d
<1>1. x * y \in Nat /\ a \in Nat
  OBVIOUS
<1>2. q \in Nat /\ a < (q + 1) * d
  <2> HIDE DEF a
  <2> QED BY <1>1, DivBounds
<1>3. (q + 1) * d = q * d + d
  <2> HIDE DEF q
  <2> QED BY <1>2
<1>4. q * d \in Nat
  <2> HIDE DEF q
  <2> QED BY <1>2
<1>5. q * d >= x * y
  <2> HIDE DEF q
  <2> QED BY <1>1, <1>2, <1>3, <1>4
<1> QED BY <1>2, <1>5 DEF MulDivUp

(* mulDivDown grows with its second factor. *)
LEMMA MulDivDownMonotone ==
  ASSUME NEW x \in Nat, NEW y \in Nat, NEW z \in Nat, y <= z, NEW d \in Nat \ {0}
  PROVE  MulDivDown(x, y, d) <= MulDivDown(x, z, d)
<1> DEFINE p == MulDivDown(x, y, d)
           q == MulDivDown(x, z, d)
<1>1. p \in Nat /\ q \in Nat /\ p * d <= x * y
  BY MulDivDownBounds
<1>2. x * z < (q + 1) * d
  BY DivBounds DEF MulDivDown
<1>3. x * y <= x * z
  <2>1. x * z = x * y + x * (z - y) /\ x * (z - y) \in Nat
    OBVIOUS
  <2> QED BY <2>1
<1> HIDE DEF p, q
<1>4. p * d < (q + 1) * d
  <2>1. p * d \in Nat /\ (q + 1) * d \in Nat /\ x * y \in Nat /\ x * z \in Nat
    BY <1>1
  <2> QED BY <2>1, <1>1, <1>2, <1>3
<1>5. p < q + 1
  <2> SUFFICES ASSUME p >= q + 1 PROVE FALSE
    BY <1>1
  <2>1. p * d = (q + 1) * d + (p - q - 1) * d /\ (p - q - 1) * d \in Nat
    BY <1>1
  <2> QED BY <2>1, <1>4, <1>1
<1> QED BY <1>1, <1>5 DEF p, q

(* Assets that leave for at least their worth in shares, and assets that   *)
(* come in for at most their worth, keep the price of the others.          *)
LEMMA PriceAlgebra ==
  ASSUME NEW A \in Nat, NEW S \in Nat, NEW a \in Nat, NEW s \in Nat
  PROVE  /\ a * S <= s * A => (A - a) * S >= A * (S - s)
         /\ s * A <= a * S => (A + a) * S >= A * (S + s)
<1>1. /\ (A - a) * S = A * S - a * S
      /\ A * (S - s) = A * S - s * A
      /\ (A + a) * S = A * S + a * S
      /\ A * (S + s) = A * S + s * A
  OBVIOUS
<1>2. A * S \in Nat /\ a * S \in Nat /\ s * A \in Nat
  OBVIOUS
<1> QED BY <1>1, <1>2

(* A common factor cancels. *)
LEMMA ProductCancel ==
  ASSUME NEW p \in Int, NEW q \in Int, NEW d \in Nat \ {0}
  PROVE  /\ p * d <= q * d => p <= q
         /\ p * d < q * d => p < q
<1>1. ASSUME p > q PROVE p * d > q * d
  <2>1. p * d = q * d + d + (p - q - 1) * d /\ (p - q - 1) * d \in Nat
    BY <1>1
  <2>2. q * d \in Int
    OBVIOUS
  <2> QED BY <2>1, <2>2
<1>2. ASSUME p = q PROVE ~ (p * d < q * d)
  <2>1. p * d \in Int
    OBVIOUS
  <2> QED BY <1>2, <2>1
<1>3. p * d \in Int /\ q * d \in Int
  OBVIOUS
<1> QED BY <1>1, <1>2, <1>3

(* A product grows with its factors. *)
LEMMA ProductMonotone ==
  ASSUME NEW p \in Int, NEW q \in Int, p <= q, NEW d \in Nat
  PROVE  p * d <= q * d
<1>1. q * d = p * d + (q - p) * d /\ (q - p) * d \in Nat /\ p * d \in Int
  OBVIOUS
<1> QED BY <1>1

(* What is at least a number times the divisor has that number as quotient *)
(* at least.                                                               *)
LEMMA DivLowerBound ==
  ASSUME NEW a \in Nat, NEW k \in Int, NEW d \in Nat \ {0}, k * d <= a
  PROVE  k <= a \div d
<1> DEFINE q == a \div d
<1>1. q \in Nat /\ a < (q + 1) * d
  BY DivBounds
<1> HIDE DEF q
<1>2. k * d < (q + 1) * d
  <2>1. k * d \in Int /\ (q + 1) * d \in Int
    BY <1>1
  <2> QED BY <1>1, <2>1
<1>3. k < q + 1
  BY <1>1, <1>2, ProductCancel
<1> QED BY <1>1, <1>3 DEF q
=============================================================================
