--------------------------- MODULE ModularArithmetic ---------------------------
(* Quotients and remainders, for the proofs about sequence numbers and fields. *)
EXTENDS Integers, TLAPS

\* Quotient and remainder, as the SMT solver knows them.
LEMMA DivMod ==
  ASSUME NEW m \in Nat \ {0}, NEW x \in Int
  PROVE  x \div m \in Int /\ x % m \in 0..m-1 /\ x = m * (x \div m) + (x % m)
  OBVIOUS

\* The only multiple of m strictly between -m and m is zero.
LEMMA NoMultiple ==
  ASSUME NEW m \in Nat \ {0}, NEW k \in Int, NEW d \in Int, -m < d, d < m, d = m * k
  PROVE  k = 0
<1>1. CASE k >= 1
  <2>1. m * k >= m
    BY <1>1
  <2> QED
    BY <2>1
<1>2. CASE k <= -1
  <2>1. m * k <= -m
    BY <1>2
  <2> QED
    BY <2>1
<1> QED
  BY <1>1, <1>2

\* A remainder is determined by the multiple it is taken from.
LEMMA ModUnique ==
  ASSUME NEW m \in Nat \ {0}, NEW q \in Int, NEW r \in 0..m-1
  PROVE  (m * q + r) % m = r
<1> DEFINE x == m * q + r
<1>1. x \in Int
  OBVIOUS
<1>2. x \div m \in Int /\ x % m \in 0..m-1 /\ x = m * (x \div m) + (x % m)
  BY <1>1, DivMod
<1>3. (x % m) - r = m * (q - (x \div m))
  BY <1>2
<1>4. q - (x \div m) = 0
  BY <1>2, <1>3, NoMultiple
<1> QED
  BY <1>2, <1>4

\* Two numbers that differ by a multiple of m have one remainder.
LEMMA ModShift ==
  ASSUME NEW m \in Nat \ {0}, NEW k \in Int, NEW x \in Int
  PROVE  (x + m * k) % m = x % m
<1> DEFINE q == x \div m
           r == x % m
<1>1. q \in Int /\ r \in 0..m-1 /\ x = m * q + r
  BY DivMod
<1> HIDE DEF q, r
<1>2. q + k \in Int /\ x + m * k = m * (q + k) + r
  BY <1>1
<1>3. (m * (q + k) + r) % m = r
  BY <1>1, <1>2, ModUnique
<1> QED
  BY <1>2, <1>3 DEF r

\* The quotient likewise.
LEMMA DivUnique ==
  ASSUME NEW m \in Nat \ {0}, NEW q \in Int, NEW r \in 0..m-1
  PROVE  (m * q + r) \div m = q
<1> DEFINE x == m * q + r
<1>1. x \in Int /\ x % m = r
  BY ModUnique
<1>2. x \div m \in Int /\ x = m * (x \div m) + (x % m)
  BY <1>1, DivMod
<1>3. m * (q - (x \div m)) = 0
  BY <1>1, <1>2
<1>4. q - (x \div m) = 0
  BY <1>2, <1>3, NoMultiple
<1> QED
  BY <1>2, <1>4

\* Adding a multiple of m adds to the quotient.
LEMMA DivShift ==
  ASSUME NEW m \in Nat \ {0}, NEW k \in Int, NEW x \in Int
  PROVE  (x + m * k) \div m = (x \div m) + k
<1> DEFINE q == x \div m
           r == x % m
<1>1. q \in Int /\ r \in 0..m-1 /\ x = m * q + r
  BY DivMod
<1> HIDE DEF q, r
<1>2. q + k \in Int /\ x + m * k = m * (q + k) + r
  BY <1>1
<1> QED
  BY <1>1, <1>2, DivUnique DEF q

\* Products of integers, for leaves that should not have to find these facts.
LEMMA Grows ==
  ASSUME NEW m \in Nat, NEW a \in Int, NEW b \in Int, a <= b
  PROVE  m * a <= m * b /\ m * a \in Int /\ m * b \in Int
<1>1. m * (b - a) >= 0
  OBVIOUS
<1> QED
  BY <1>1

\* Multiplication distributes.
LEMMA Spread ==
  ASSUME NEW m \in Int, NEW a \in Int, NEW b \in Int
  PROVE  m * (a + b) = m * a + m * b /\ m * (a - b) = m * a - m * b /\ m * a \in Int /\ m * b \in Int
  OBVIOUS

\* It is associative and commutative.
LEMMA Reorders ==
  ASSUME NEW m \in Int, NEW a \in Int, NEW b \in Int
  PROVE  m * (a * b) = (m * a) * b /\ m * a = a * m
  OBVIOUS

\* The quotient of a natural number is one.
LEMMA DivNat ==
  ASSUME NEW m \in Nat \ {0}, NEW x \in Nat
  PROVE  x \div m \in Nat
<1> DEFINE q == x \div m
<1>1. q \in Int /\ x % m \in 0..m-1 /\ x = m * q + (x % m)
  BY DivMod
<1> HIDE DEF q
<1>2. ~ (q <= -1)
  <2> SUFFICES ASSUME q <= -1 PROVE FALSE
    OBVIOUS
  <2>1. m * q <= m * (-1) /\ m * q \in Int
    BY <1>1, Grows
  <2> QED
    BY <1>1, <2>1
<1> QED
  BY <1>1, <1>2 DEF q
================================================================================
