--------------------------- MODULE PacketCodecProofs ---------------------------
(***************************************************************************)
(* The getters return what the setters stored, and a written packet reads   *)
(* back as itself, proved for all values, all payloads, all buffer sizes    *)
(* and any number of setter calls in any order.                             *)
(***************************************************************************)
EXTENDS PacketCodec, ModularArithmetic, SequenceTheorems

Word16 == 0 .. 2^16 - 1
Header == [1..20 -> 0..255]

-----------------------------------------------------------------------------
(* Bits of a word.  U is the unit of a field, R its range.                  *)

\* The word w with the field (U, R) set to v.
WithBits(w, U, R, v) == w + (v - ((w \div U) % R)) * U

\* n is k times the value just above the field (U, R).
Multiple(n, U, R, k) == n = U * (R * k)

\* A word is the bits above a field, the field and the bits below it.
High(w, U, R) == (w \div U) \div R
Field(w, U, R) == (w \div U) % R
Low(w, U) == w % U

\* A word is the three parts put together.
LEMMA Split ==
  ASSUME NEW w \in Nat, NEW U \in Nat \ {0}, NEW R \in Nat \ {0}
  PROVE  /\ High(w, U, R) \in Nat /\ Field(w, U, R) \in 0..R-1 /\ Low(w, U) \in 0..U-1
         /\ w = U * (R * High(w, U, R) + Field(w, U, R)) + Low(w, U)
<1> DEFINE q == w \div U
<1>1. q \in Nat /\ Low(w, U) \in 0..U-1 /\ w = U * q + Low(w, U)
  <2>1. q \in Nat
    BY DivNat
  <2>2. w % U \in 0..U-1 /\ w = U * q + (w % U)
    BY DivMod
  <2> QED
    BY <2>1, <2>2 DEF Low
<1> HIDE DEF q
<1>2. q \div R \in Nat /\ q % R \in 0..R-1 /\ q = R * (q \div R) + (q % R)
  <2>1. q \div R \in Nat
    BY <1>1, DivNat
  <2>2. q % R \in 0..R-1 /\ q = R * (q \div R) + (q % R)
    BY <1>1, DivMod
  <2> QED
    BY <2>1, <2>2
<1>3. High(w, U, R) = q \div R /\ Field(w, U, R) = q % R
  BY DEF High, Field, q
<1> QED
  BY <1>1, <1>2, <1>3

\* Setting a field keeps the bits above and below it.
LEMMA Replaced ==
  ASSUME NEW w \in Nat, NEW U \in Nat \ {0}, NEW R \in Nat \ {0}, NEW v \in 0..R-1
  PROVE  WithBits(w, U, R, v) = U * (R * High(w, U, R) + v) + Low(w, U)
<1> DEFINE h == High(w, U, R)
           g == Field(w, U, R)
           r == Low(w, U)
<1>1. h \in Nat /\ g \in 0..R-1 /\ r \in 0..U-1 /\ w = U * (R * h + g) + r
  BY Split
<1>2. WithBits(w, U, R, v) = w + (v - g) * U
  BY DEF WithBits, Field
<1> HIDE DEF h, g, r
<1> DEFINE a == R * h
<1>3. a \in Int /\ g \in Int /\ v \in Int /\ r \in Int
  BY <1>1
<1> HIDE DEF a
<1>4. (v - g) * U = U * v - U * g
  BY <1>3
<1>5. U * (a + g) = U * a + U * g /\ U * (a + v) = U * a + U * v
  BY <1>3, Spread
<1>6. U * a \in Int /\ U * g \in Int /\ U * v \in Int
  BY <1>3
<1>7. w + (U * v - U * g) = U * (a + v) + r
  BY <1>1, <1>3, <1>5, <1>6 DEF a
<1> QED
  BY <1>2, <1>4, <1>7 DEF a, h, r

\* Setting a field leaves a word, and the field reads as set.
LEMMA SetBits ==
  ASSUME NEW M \in Nat \ {0}, NEW w \in 0..M-1, NEW U \in Nat \ {0}, NEW R \in Nat \ {0}, NEW J \in Nat,
         Multiple(M, U, R, J), NEW v \in 0..R-1
  PROVE  /\ WithBits(w, U, R, v) \in 0..M-1
         /\ (WithBits(w, U, R, v) \div U) % R = v
<1> DEFINE h == High(w, U, R)
           g == Field(w, U, R)
           r == Low(w, U)
           x == WithBits(w, U, R, v)
           y == R * h + v
<1>0. w \in Nat
  OBVIOUS
<1>1. h \in Nat /\ g \in 0..R-1 /\ r \in 0..U-1 /\ w = U * (R * h + g) + r
  BY <1>0, Split
<1>2. x = U * y + r
  BY <1>0, Replaced
<1> HIDE DEF h, g, r, x
<1>3. R * h \in Nat /\ y \in Nat
  BY <1>1
<1>4. y % R = v
  BY <1>1, ModUnique
<1>5. h + 1 <= J
  <2> SUFFICES ASSUME J <= h PROVE FALSE
    BY <1>1
  <2>1. R * J <= R * h /\ R * J \in Int
    BY <1>1, Grows
  <2>2. R * J <= R * h + g /\ R * h + g \in Int
    BY <1>1, <1>3, <2>1
  <2>3. U * (R * J) <= U * (R * h + g) /\ U * (R * h + g) \in Int
    BY <2>1, <2>2, Grows
  <2>4. w <= M - 1
    OBVIOUS
  <2> DEFINE a == U * (R * h + g)
  <2> HIDE DEF a
  <2>5. M <= a /\ a \in Int
    BY <2>3 DEF a, Multiple
  <2>6. w = a + r /\ r >= 0 /\ r \in Int
    BY <1>1 DEF a
  <2> QED
    BY <2>4, <2>5, <2>6
<1>6. U * y + U <= M /\ U * y \in Nat
  <2>1. R * (h + 1) <= R * J /\ R * (h + 1) = R * h + R /\ R * J \in Int
    BY <1>1, <1>5, Grows
  <2>2. y + 1 <= R * J /\ y + 1 \in Int
    BY <1>3, <2>1
  <2> HIDE DEF y
  <2>3. U * (y + 1) <= U * (R * J) /\ U * (y + 1) = U * y + U /\ U * y \in Nat
    BY <1>3, <2>1, <2>2, Grows
  <2>4. U * (y + 1) <= M
    BY <2>3 DEF Multiple
  <2> QED
    BY <2>3, <2>4
<1> HIDE DEF y
<1>7. x \div U = y
  BY <1>1, <1>2, <1>3, DivUnique
<1>8. x \in 0..M-1
  <2> DEFINE a == U * y
  <2>1. x = a + r
    BY <1>2
  <2>2. a + U <= M /\ a \in Nat
    BY <1>6
  <2>3. r \in 0..U-1 /\ U \in Nat
    BY <1>1
  <2> HIDE DEF a
  <2> QED
    BY <2>1, <2>2, <2>3
<1> QED
  BY <1>4, <1>7, <1>8 DEF x

\* A field below stays.
LEMMA BitsBelow ==
  ASSUME NEW w \in Nat, NEW U \in Nat \ {0}, NEW R \in Nat \ {0}, NEW v \in Int,
         NEW V \in Nat \ {0}, NEW S \in Nat \ {0}, NEW K \in Nat, Multiple(U, V, S, K)
  PROVE  Field(WithBits(w, U, R, v), V, S) = Field(w, V, S)
<1> DEFINE d == v - ((w \div U) % R)
           q == w \div V
           e == K * d
<1>1. w \in Int /\ (w \div U) \in Int
  BY DivMod
<1>2. d \in Int /\ q \in Int
  BY <1>1, DivMod
<1>3. WithBits(w, U, R, v) = w + d * U
  BY DEF WithBits
<1> HIDE DEF d, q
<1>4. e \in Int /\ S * e \in Int
  BY <1>2
<1>5. d * U = V * (S * e)
  BY <1>2 DEF Multiple
<1> HIDE DEF e
<1>6. (w + V * (S * e)) \div V = q + S * e
  BY <1>1, <1>4, DivShift DEF q
<1>7. (q + S * e) % S = q % S
  BY <1>2, <1>4, ModShift
<1> QED
  BY <1>3, <1>5, <1>6, <1>7 DEF q, Field

\* A field above stays.
LEMMA BitsAbove ==
  ASSUME NEW w \in Nat, NEW U \in Nat \ {0}, NEW R \in Nat \ {0}, NEW v \in 0..R-1,
         NEW V \in Nat \ {0}, NEW K \in Nat \ {0}, Multiple(V, U, R, K)
  PROVE  WithBits(w, U, R, v) \div V = w \div V
<1> DEFINE h == High(w, U, R)
           g == Field(w, U, R)
           r == Low(w, U)
           m == h \div K
           n == h % K
<1>1. h \in Nat /\ g \in 0..R-1 /\ r \in 0..U-1 /\ w = U * (R * h + g) + r
  BY Split
<1>2. WithBits(w, U, R, v) = U * (R * h + v) + r
  BY Replaced
<1> HIDE DEF h, g, r
<1>3. m \in Int /\ n \in 0..K-1 /\ h = K * m + n
  <2>1. h \in Int
    BY <1>1
  <2> QED
    BY <2>1, DivMod
<1> HIDE DEF m, n
<1>4. ASSUME NEW a \in 0..R-1
      PROVE  (U * (R * h + a) + r) \div V = m
  <2> DEFINE s == R * n
             b == s + a
             t == U * b + r
  <2>0. n \in Nat /\ n + 1 <= K
    BY <1>3
  <2>1. R * h = R * (K * m) + s /\ R * (K * m) \in Int /\ s \in Nat
    BY <1>3, <2>0
  <2>2. R * (n + 1) <= R * K /\ R * (n + 1) = s + R /\ R * K \in Int
    BY <2>0, Grows
  <2> HIDE DEF s
  <2>3. b + 1 <= R * K /\ b \in Nat
    BY <2>1, <2>2
  <2>4. R * h + a = R * (K * m) + b
    BY <2>1
  <2> HIDE DEF b
  <2>5. U * (b + 1) <= U * (R * K) /\ U * (b + 1) = U * b + U /\ U * b \in Nat
    BY <2>2, <2>3, Grows
  <2>6. t \in 0..V-1
    BY <1>1, <2>5 DEF Multiple
  <2>7. U * (R * (K * m) + b) = U * (R * (K * m)) + U * b
    BY <2>1, <2>3, Spread
  <2>8. U * (R * (K * m)) = V * m
    BY <1>3 DEF Multiple
  <2>9. U * (R * h + a) = V * m + U * b
    BY <2>4, <2>7, <2>8
  <2>10. U * (R * h + a) + r = V * m + t
    <3> DEFINE c == V * m
               d == U * b
               e == U * (R * h + a)
    <3>1. e = c + d /\ c \in Int /\ d \in Int /\ r \in Int /\ t = d + r
      BY <1>1, <1>3, <2>5, <2>9
    <3> HIDE DEF c, d, e, t
    <3>2. e + r = c + t
      BY <3>1
    <3> QED
      BY <3>2 DEF c, e
  <2> HIDE DEF t
  <2> QED
    BY <1>3, <2>6, <2>10, DivUnique
<1>5. w \div V = m
  BY <1>1, <1>4
<1> QED
  BY <1>2, <1>4, <1>5

-----------------------------------------------------------------------------
(* Powers of two, up to a word.                                             *)

\* One bit more doubles the range.
LEMMA Doubles ==
  ASSUME NEW n \in 0..15
  PROVE  2^n \in Nat \ {0} /\ 2^(n + 1) = 2 * 2^n
<1>0. CASE n = 0
  BY <1>0
<1>1. CASE n = 1
  BY <1>1
<1>2. CASE n = 2
  BY <1>2
<1>3. CASE n = 3
  BY <1>3
<1>4. CASE n = 4
  BY <1>4
<1>5. CASE n = 5
  BY <1>5
<1>6. CASE n = 6
  BY <1>6
<1>7. CASE n = 7
  BY <1>7
<1>8. CASE n = 8
  BY <1>8
<1>9. CASE n = 9
  BY <1>9
<1>10. CASE n = 10
  BY <1>10
<1>11. CASE n = 11
  BY <1>11
<1>12. CASE n = 12
  BY <1>12
<1>13. CASE n = 13
  BY <1>13
<1>14. CASE n = 14
  BY <1>14
<1>15. CASE n = 15
  BY <1>15
<1> QED
  BY <1>0, <1>1, <1>2, <1>3, <1>4, <1>5, <1>6, <1>7, <1>8, <1>9, <1>10, <1>11, <1>12, <1>13, <1>14, <1>15

\* A field of up to 16 bits has a range.
LEMMA PowerPos ==
  ASSUME NEW n \in 0..16
  PROVE  2^n \in Nat \ {0}
<1>1. CASE n = 16
  BY <1>1
<1>2. CASE n \in 0..15
  BY <1>2, Doubles
<1> QED
  BY <1>1, <1>2

\* Bits side by side multiply their ranges.
Joins(m) == \A n \in 0..16 : m + n <= 16 => 2^(m + n) = 2^m * 2^n

\* It holds for one bit more.
LEMMA JoinsNext ==
  ASSUME NEW m \in 0..15, Joins(m)
  PROVE  Joins(m + 1)
<1> SUFFICES ASSUME NEW n \in 0..16, (m + 1) + n <= 16
             PROVE  2^((m + 1) + n) = 2^(m + 1) * 2^n
  BY DEF Joins
<1>1. m + n \in 0..15 /\ m + n <= 16
  OBVIOUS
<1>2. 2^((m + n) + 1) = 2 * 2^(m + n)
  BY <1>1, Doubles
<1>3. 2^(m + n) = 2^m * 2^n
  BY <1>1, Zenon DEF Joins
<1>4. 2^(m + 1) = 2 * 2^m
  BY Doubles
<1>5. 2^m \in Int /\ 2^n \in Int
  BY PowerPos
<1> DEFINE a == 2^m
           b == 2^n
<1>6. 2 * (a * b) = (2 * a) * b
  BY <1>5, Reorders
<1>7. (m + n) + 1 = (m + 1) + n
  OBVIOUS
<1> QED
  BY <1>2, <1>3, <1>4, <1>6, <1>7

\* For all widths that fit a word.
LEMMA Join ==
  ASSUME NEW m \in 0..16, NEW n \in 0..16, m + n <= 16
  PROVE  2^(m + n) = 2^m * 2^n
<1>0. Joins(0)
  <2> SUFFICES ASSUME NEW k \in 0..16 PROVE 2^(0 + k) = 2^0 * 2^k
    BY DEF Joins
  <2>1. 2^0 = 1 /\ 0 + k = k
    OBVIOUS
  <2>2. 1 * 2^k = 2^k
    BY PowerPos
  <2> QED
    BY <2>1, <2>2, Zenon
<1>1. Joins(0 + 1) /\ 0 + 1 = 1
  BY <1>0, JoinsNext
<1>2. Joins(1 + 1) /\ 1 + 1 = 2
  BY <1>1, JoinsNext
<1>3. Joins(2 + 1) /\ 2 + 1 = 3
  BY <1>2, JoinsNext
<1>4. Joins(3 + 1) /\ 3 + 1 = 4
  BY <1>3, JoinsNext
<1>5. Joins(4 + 1) /\ 4 + 1 = 5
  BY <1>4, JoinsNext
<1>6. Joins(5 + 1) /\ 5 + 1 = 6
  BY <1>5, JoinsNext
<1>7. Joins(6 + 1) /\ 6 + 1 = 7
  BY <1>6, JoinsNext
<1>8. Joins(7 + 1) /\ 7 + 1 = 8
  BY <1>7, JoinsNext
<1>9. Joins(8 + 1) /\ 8 + 1 = 9
  BY <1>8, JoinsNext
<1>10. Joins(9 + 1) /\ 9 + 1 = 10
  BY <1>9, JoinsNext
<1>11. Joins(10 + 1) /\ 10 + 1 = 11
  BY <1>10, JoinsNext
<1>12. Joins(11 + 1) /\ 11 + 1 = 12
  BY <1>11, JoinsNext
<1>13. Joins(12 + 1) /\ 12 + 1 = 13
  BY <1>12, JoinsNext
<1>14. Joins(13 + 1) /\ 13 + 1 = 14
  BY <1>13, JoinsNext
<1>15. Joins(14 + 1) /\ 14 + 1 = 15
  BY <1>14, JoinsNext
<1>16. Joins(15 + 1) /\ 15 + 1 = 16
  BY <1>15, JoinsNext
<1> QED
  <2>1. \A k \in 0..16 : Joins(k)
    BY <1>0, <1>1, <1>2, <1>3, <1>4, <1>5, <1>6, <1>7, <1>8, <1>9, <1>10, <1>11, <1>12, <1>13, <1>14, <1>15, <1>16
  <2> QED
    BY <2>1 DEF Joins

-----------------------------------------------------------------------------
(* Words of a header.                                                       *)

Offsets == {0, 2, 4, 6, 8, 10, 12, 14, 16, 18}

\* Two bytes make a 16-bit number.
LEMMA TwoBytes ==
  ASSUME NEW x \in 0..255, NEW y \in 0..255
  PROVE  256 * x + y \in Word16
<1> DEFINE M == 2^16 - 1
           z == 256 * x + y
<1>1. z \in Int /\ 0 <= z /\ z <= M /\ M \in Int
  OBVIOUS
<1> HIDE DEF M, z
<1>2. z \in 0..M
  BY <1>1
<1> QED
  BY <1>2, Zenon DEF Word16, M, z

\* It is a number.
LEMMA WordNat ==
  ASSUME NEW v \in Word16
  PROVE  v \in Nat
BY DEF Word16

\* A 16-bit number is two bytes.
LEMMA TwoHalves ==
  ASSUME NEW v \in Word16
  PROVE  v \div 256 \in 0..255 /\ v % 256 \in 0..255 /\ v = 256 * (v \div 256) + (v % 256)
BY DEF Word16

\* A word of a header is a 16-bit number.
LEMMA ReadsWord ==
  ASSUME NEW b \in Header, NEW o \in Offsets
  PROVE  BE16(b, o) \in Word16
<1>1. o + 1 \in 1..20 /\ o + 2 \in 1..20
  BY DEF Offsets
<1>2. b[o + 1] \in 0..255 /\ b[o + 2] \in 0..255
  BY <1>1 DEF Header
<1>3. 256 * b[o + 1] + b[o + 2] \in Word16
  BY <1>2, TwoBytes
<1> QED
  BY <1>3 DEF BE16

\* Writing a word changes that word only.
LEMMA WritesWord ==
  ASSUME NEW b \in Header, NEW o \in Offsets, NEW v \in Word16
  PROVE  /\ Put16(b, o, v) \in Header
         /\ BE16(Put16(b, o, v), o) = v
         /\ \A p \in Offsets \ {o} : BE16(Put16(b, o, v), p) = BE16(b, p)
<1> DEFINE c == Put16(b, o, v)
           q == v \div 256
           r == v % 256
<1>1. q \in 0..255 /\ r \in 0..255 /\ v = 256 * q + r
  BY TwoHalves
<1> HIDE DEF q, r
<1>2. o + 1 \in 1..20 /\ o + 2 \in 1..20 /\ o + 1 # o + 2
  BY DEF Offsets
<1>3. c = [b EXCEPT ![o + 1] = q, ![o + 2] = r]
  BY DEF Put16, q, r
<1> HIDE DEF c
<1>4. c \in Header
  BY <1>1, <1>2, <1>3 DEF Header
<1>5. c[o + 1] = q /\ c[o + 2] = r /\ \A i \in 1..20 \ {o + 1, o + 2} : c[i] = b[i]
  BY <1>2, <1>3 DEF Header
<1>6. BE16(c, o) = v
  BY <1>1, <1>5 DEF BE16
<1>7. ASSUME NEW p \in Offsets \ {o}
      PROVE  BE16(c, p) = BE16(b, p)
  <2>1. p + 1 \in 1..20 \ {o + 1, o + 2} /\ p + 2 \in 1..20 \ {o + 1, o + 2}
    BY DEF Offsets
  <2> QED
    BY <1>5, <2>1 DEF BE16
<1> QED
  BY <1>4, <1>6, <1>7 DEF c

-----------------------------------------------------------------------------
(* Fields of a header.                                                      *)

Wide(f) == f.width = 32
Within(lo, width) == lo \in 0..16 /\ width \in 1..16 /\ lo + width <= 16
FieldOK(f) == /\ f.off \in Offsets
              /\ IF Wide(f) THEN f.off + 2 \in Offsets ELSE Within(f.lo, f.width)
Fits(f, v) == IF Wide(f) THEN v \in Word16 \X Word16 ELSE v \in 0 .. 2^f.width - 1

\* The words a field has bits in, and two fields that share no bit.
Words(f) == IF Wide(f) THEN {f.off, f.off + 2} ELSE {f.off}
Beside(f, g) == /\ ~ Wide(f) /\ ~ Wide(g)
                /\ f.lo + f.width <= g.lo \/ g.lo + g.width <= f.lo
Apart(f, g) == Words(f) \cap Words(g) = {} \/ Beside(f, g)

\* Bits lo on of a word below bit hi: the word splits into field and rest.
LEMMA Splits ==
  ASSUME NEW lo \in 0..16, NEW width \in 0..16, NEW hi \in 0..16, lo + width <= hi
  PROVE  \E k \in Nat \ {0} : Multiple(2^hi, 2^lo, 2^width, k)
<1> DEFINE n == hi - lo - width
           m == width + n
<1>1. n \in 0..16 /\ m \in 0..16 /\ lo + m = hi /\ lo + m <= 16 /\ width + n <= 16
  OBVIOUS
<1>2. 2^m = 2^width * 2^n
  BY <1>1, Join
<1> HIDE DEF n, m
<1>3. 2^hi = 2^lo * 2^m
  BY <1>1, Join
<1>4. 2^n \in Nat \ {0}
  BY <1>1, PowerPos
<1>5. Multiple(2^hi, 2^lo, 2^width, 2^n)
  BY <1>2, <1>3 DEF Multiple
<1> QED
  BY <1>4, <1>5

\* The word a bit field's setter writes.
NewWord(b, off, lo, width, v) == WithBits(BE16(b, off), 2^lo, 2^width, v % 2^width)

\* PutBits writes that word.
LEMMA PutsWord ==
  ASSUME NEW b, NEW off, NEW lo, NEW width, NEW v
  PROVE  PutBits(b, off, lo, width, v) = Put16(b, off, NewWord(b, off, lo, width, v))
BY DEF PutBits, GetBits, NewWord, WithBits

\* A setter of bits leaves a word in which its field reads as set.
LEMMA NewWordSet ==
  ASSUME NEW b \in Header, NEW off \in Offsets, NEW lo, NEW width, Within(lo, width), NEW v \in Int
  PROVE  /\ NewWord(b, off, lo, width, v) \in Word16
         /\ (NewWord(b, off, lo, width, v) \div 2^lo) % 2^width = v % 2^width
<1> DEFINE w == BE16(b, off)
           x == v % 2^width
<1>0. lo \in 0..16 /\ width \in 0..16 /\ lo + width <= 16
  BY DEF Within
<1>1. 2^lo \in Nat \ {0} /\ 2^width \in Nat \ {0} /\ 2^16 \in Nat \ {0}
  <2>1. 2^lo \in Nat \ {0} /\ 2^width \in Nat \ {0}
    BY <1>0, PowerPos
  <2>2. 2^16 \in Nat \ {0}
    OBVIOUS
  <2> QED
    BY <2>1, <2>2
<1>2. w \in 0 .. 2^16 - 1
  BY ReadsWord DEF Word16
<1>3. x \in 0 .. 2^width - 1
  BY <1>1, DivMod
<1>4. PICK k \in Nat \ {0} : Multiple(2^16, 2^lo, 2^width, k)
  <2>1. 16 \in 0..16
    OBVIOUS
  <2> QED
    BY <1>0, <2>1, Splits, Zenon
<1> HIDE DEF w, x
<1> DEFINE M == 2^16
           U == 2^lo
           R == 2^width
<1>5. M \in Nat \ {0} /\ U \in Nat \ {0} /\ R \in Nat \ {0} /\ w \in 0..M-1 /\ x \in 0..R-1
  BY <1>1, <1>2, <1>3
<1>6. Multiple(M, U, R, k)
  BY <1>4
<1> HIDE DEF M, U, R
<1>7. WithBits(w, U, R, x) \in 0..M-1 /\ (WithBits(w, U, R, x) \div U) % R = x
  BY <1>4, <1>5, <1>6, SetBits
<1> QED
  BY <1>7 DEF NewWord, Word16, M, U, R, w, x

\* It leaves the bits of the fields beside its own as they were.
LEMMA NewWordElsewhere ==
  ASSUME NEW b \in Header, NEW off \in Offsets, NEW lo, NEW width, Within(lo, width), NEW v \in Int,
         NEW l, NEW n, Within(l, n), lo + width <= l \/ l + n <= lo
  PROVE  (NewWord(b, off, lo, width, v) \div 2^l) % 2^n = (BE16(b, off) \div 2^l) % 2^n
<1> DEFINE w == BE16(b, off)
           x == v % 2^width
           U == 2^lo
           R == 2^width
           V == 2^l
           S == 2^n
<1>0. lo \in 0..16 /\ width \in 0..16 /\ l \in 0..16 /\ n \in 0..16
  BY DEF Within
<1>1. U \in Nat \ {0} /\ R \in Nat \ {0} /\ V \in Nat \ {0} /\ S \in Nat \ {0}
  BY <1>0, PowerPos
<1>2. w \in Nat
  BY ReadsWord, WordNat
<1>3. x \in 0..R-1
  BY <1>1, DivMod
<1>4. NewWord(b, off, lo, width, v) = WithBits(w, U, R, x)
  BY DEF NewWord
<1>5. CASE lo + width <= l
  <2>1. PICK k \in Nat \ {0} : Multiple(V, U, R, k)
    BY <1>0, <1>5, Splits
  <2> HIDE DEF w, x, U, R, V, S
  <2>2. WithBits(w, U, R, x) \div V = w \div V
    BY <1>1, <1>2, <1>3, <2>1, BitsAbove
  <2> QED
    BY <1>4, <2>2 DEF w, V, S
<1>6. CASE l + n <= lo
  <2>1. PICK k \in Nat \ {0} : Multiple(U, V, S, k)
    BY <1>0, <1>6, Splits
  <2> HIDE DEF w, x, U, R, V, S
  <2>2. x \in Int /\ k \in Nat
    BY <1>1, <1>3
  <2>3. Field(WithBits(w, U, R, x), V, S) = Field(w, V, S)
    BY <1>1, <1>2, <2>1, <2>2, BitsBelow
  <2> QED
    BY <1>4, <2>3 DEF w, V, S, Field
<1> QED
  BY <1>5, <1>6

\* A number below m is its own remainder.
LEMMA ModSmall ==
  ASSUME NEW m \in Nat \ {0}, NEW r \in 0..m-1
  PROVE  r % m = r
<1>1. (m * 0 + r) % m = r /\ m * 0 + r = r
  BY ModUnique
<1> QED
  BY <1>1

\* A setter keeps a header a header, and writes only the words of its field.
LEMMA SetKeepsWords ==
  ASSUME NEW b \in Header, NEW f, FieldOK(f), NEW v, Fits(f, v)
  PROVE  /\ Set(b, f, v) \in Header
         /\ \A p \in Offsets \ Words(f) : BE16(Set(b, f, v), p) = BE16(b, p)
<1>1. CASE Wide(f)
  <2> DEFINE c == Put16(b, f.off, v[1])
             d == Put16(c, f.off + 2, v[2])
  <2>1. Set(b, f, v) = d /\ Words(f) = {f.off, f.off + 2} /\ f.off \in Offsets /\ f.off + 2 \in Offsets
    BY <1>1 DEF Wide, Set, Put32, Words, FieldOK
  <2>2. v[1] \in Word16 /\ v[2] \in Word16
    BY <1>1 DEF Fits
  <2>3. c \in Header /\ \A p \in Offsets \ {f.off} : BE16(c, p) = BE16(b, p)
    BY <2>1, <2>2, WritesWord
  <2> HIDE DEF c
  <2>4. d \in Header /\ \A p \in Offsets \ {f.off + 2} : BE16(d, p) = BE16(c, p)
    BY <2>1, <2>2, <2>3, WritesWord
  <2> HIDE DEF d
  <2> QED
    BY <2>1, <2>3, <2>4
<1>2. CASE ~ Wide(f)
  <2> DEFINE x == NewWord(b, f.off, f.lo, f.width, v)
  <2>1. Within(f.lo, f.width) /\ f.off \in Offsets /\ Words(f) = {f.off} /\ v \in 0 .. 2^f.width - 1
    BY <1>2 DEF FieldOK, Words, Fits
  <2>2. v \in Int
    BY <2>1
  <2>3. x \in Word16
    BY <2>1, <2>2, NewWordSet
  <2>4. Set(b, f, v) = Put16(b, f.off, x)
    BY <1>2, PutsWord DEF Set, Wide
  <2> HIDE DEF x
  <2>5. Put16(b, f.off, x) \in Header
    BY <2>1, <2>3, WritesWord
  <2>6. \A p \in Offsets \ {f.off} : BE16(Put16(b, f.off, x), p) = BE16(b, p)
    BY <2>1, <2>3, WritesWord
  <2> QED
    BY <2>1, <2>4, <2>5, <2>6
<1> QED
  BY <1>1, <1>2

\* The getter of the field returns what was set.
LEMMA SetGet ==
  ASSUME NEW b \in Header, NEW f, FieldOK(f), NEW v, Fits(f, v)
  PROVE  Get(Set(b, f, v), f) = v
<1>1. CASE Wide(f)
  <2> DEFINE c == Put16(b, f.off, v[1])
             d == Put16(c, f.off + 2, v[2])
  <2>1. Set(b, f, v) = d /\ f.off \in Offsets /\ f.off + 2 \in Offsets
    BY <1>1 DEF Wide, Set, Put32, FieldOK
  <2>2. v[1] \in Word16 /\ v[2] \in Word16 /\ v = <<v[1], v[2]>>
    BY <1>1 DEF Fits
  <2>3. c \in Header /\ BE16(c, f.off) = v[1]
    BY <2>1, <2>2, WritesWord
  <2> HIDE DEF c
  <2>4. BE16(d, f.off + 2) = v[2] /\ \A p \in Offsets \ {f.off + 2} : BE16(d, p) = BE16(c, p)
    BY <2>1, <2>2, <2>3, WritesWord
  <2>5. f.off # f.off + 2
    BY <2>1 DEF Offsets
  <2> HIDE DEF d
  <2>6. BE16(d, f.off) = v[1]
    BY <2>1, <2>3, <2>4, <2>5
  <2>7. Get(d, f) = <<BE16(d, f.off), BE16(d, f.off + 2)>>
    BY <1>1 DEF Get, BE32, Wide
  <2> QED
    BY <2>1, <2>2, <2>4, <2>6, <2>7
<1>2. CASE ~ Wide(f)
  <2> DEFINE x == NewWord(b, f.off, f.lo, f.width, v)
  <2>1. Within(f.lo, f.width) /\ f.off \in Offsets /\ v \in 0 .. 2^f.width - 1
    BY <1>2 DEF FieldOK, Fits
  <2>2. v \in Int
    BY <2>1
  <2>3. x \in Word16 /\ (x \div 2^f.lo) % 2^f.width = v % 2^f.width
    BY <2>1, <2>2, NewWordSet
  <2>4. 2^f.width \in Nat \ {0}
    BY <2>1, PowerPos DEF Within
  <2>5. v % 2^f.width = v
    BY <2>1, <2>4, ModSmall
  <2>6. Set(b, f, v) = Put16(b, f.off, x)
    BY <1>2, PutsWord DEF Set, Wide
  <2>7. BE16(Put16(b, f.off, x), f.off) = x
    BY <2>1, <2>3, WritesWord
  <2> QED
    BY <1>2, <2>3, <2>5, <2>6, <2>7 DEF Get, GetBits, Wide
<1> QED
  BY <1>1, <1>2

\* A getter reads no word but those of its field.
LEMMA GetReads ==
  ASSUME NEW b, NEW c, NEW g, \A p \in Words(g) : BE16(b, p) = BE16(c, p)
  PROVE  Get(b, g) = Get(c, g)
BY DEF Words, Wide, Get, GetBits, BE32

\* The getters of the other fields return what they returned before.
LEMMA SetElsewhere ==
  ASSUME NEW b \in Header, NEW f, FieldOK(f), NEW v, Fits(f, v), NEW g, FieldOK(g), Apart(f, g)
  PROVE  Get(Set(b, f, v), g) = Get(b, g)
<1>0. Words(g) \subseteq Offsets
  BY DEF Words, FieldOK
<1>1. CASE Words(f) \cap Words(g) = {}
  BY <1>0, <1>1, SetKeepsWords, GetReads
<1>2. CASE Words(f) \cap Words(g) # {} /\ Beside(f, g)
  <2> DEFINE x == NewWord(b, f.off, f.lo, f.width, v)
  <2>1. ~ Wide(f) /\ ~ Wide(g) /\ g.off = f.off /\ f.off \in Offsets
    BY <1>2 DEF Beside, Words, FieldOK
  <2>2. Within(f.lo, f.width) /\ Within(g.lo, g.width) /\ v \in 0 .. 2^f.width - 1
    BY <2>1 DEF FieldOK, Fits
  <2>3. v \in Int
    BY <2>2
  <2>4. x \in Word16
    BY <2>1, <2>2, <2>3, NewWordSet
  <2>5. f.lo + f.width <= g.lo \/ g.lo + g.width <= f.lo
    BY <1>2 DEF Beside
  <2>6. (x \div 2^g.lo) % 2^g.width = (BE16(b, f.off) \div 2^g.lo) % 2^g.width
    BY <2>1, <2>2, <2>3, <2>5, NewWordElsewhere
  <2>7. Set(b, f, v) = Put16(b, f.off, x)
    BY <2>1, PutsWord DEF Set, Wide
  <2>8. BE16(Put16(b, f.off, x), f.off) = x
    BY <2>1, <2>4, WritesWord
  <2> QED
    BY <2>1, <2>6, <2>7, <2>8 DEF Get, GetBits, Wide
<1> QED
  BY <1>1, <1>2 DEF Apart

-----------------------------------------------------------------------------
(* The layout of the two headers.                                           *)

\* Every field has its place in the header, and no two share a bit.
Layout(header) == /\ \A f \in DOMAIN header : FieldOK(header[f])
                  /\ \A f, g \in DOMAIN header : f # g => Apart(header[f], header[g])

\* The names of the fields of TcpHeader.
LEMMA TcpNames ==
  DOMAIN TcpHeader =
     {"source_port", "dest_port", "seq_num", "ack_num", "data_offset", "urg",
      "ack", "psh", "rst", "syn", "fin", "window", "checksum",
      "urgent_pointer"}
BY DEF TcpHeader

\* Where the fields of TcpHeader are.
LEMMA TcpPlaces ==
  /\ TcpHeader.source_port = Word(0)
  /\ TcpHeader.dest_port = Word(2)
  /\ TcpHeader.seq_num = Long(4)
  /\ TcpHeader.ack_num = Long(8)
  /\ TcpHeader.data_offset = Part(12, 12, 4)
  /\ TcpHeader.urg = Part(12, 5, 1)
  /\ TcpHeader.ack = Part(12, 4, 1)
  /\ TcpHeader.psh = Part(12, 3, 1)
  /\ TcpHeader.rst = Part(12, 2, 1)
  /\ TcpHeader.syn = Part(12, 1, 1)
  /\ TcpHeader.fin = Part(12, 0, 1)
  /\ TcpHeader.window = Word(14)
  /\ TcpHeader.checksum = Word(16)
  /\ TcpHeader.urgent_pointer = Word(18)
BY DEF TcpHeader

\* TcpHeader is laid out well.
LEMMA TcpLayout == Layout(TcpHeader)
<1>1. ASSUME NEW f \in DOMAIN TcpHeader
      PROVE  FieldOK(TcpHeader[f])
  BY TcpNames, TcpPlaces DEF FieldOK, Wide, Within, Offsets, Word, Long, Part
<1>2. ASSUME NEW f \in DOMAIN TcpHeader, NEW g \in DOMAIN TcpHeader, f # g
      PROVE  Apart(TcpHeader[f], TcpHeader[g])
  BY <1>2, TcpNames, TcpPlaces DEF Apart, Beside, Words, Wide, Word, Long, Part
<1> QED
  BY <1>1, <1>2 DEF Layout

\* The names of the fields of IPv4Header.
LEMMA IPv4Names ==
  DOMAIN IPv4Header =
     {"version", "IHL", "type_of_service", "total_length", "identification",
      "flags", "fragment_offset", "ttl", "protocol", "checksum",
      "source_address", "destination_address"}
BY DEF IPv4Header

\* Where the fields of IPv4Header are.
LEMMA IPv4Places ==
  /\ IPv4Header.version = Part(0, 12, 4)
  /\ IPv4Header.IHL = Part(0, 8, 4)
  /\ IPv4Header.type_of_service = Part(0, 0, 8)
  /\ IPv4Header.total_length = Word(2)
  /\ IPv4Header.identification = Word(4)
  /\ IPv4Header.flags = Part(6, 13, 3)
  /\ IPv4Header.fragment_offset = Part(6, 0, 13)
  /\ IPv4Header.ttl = Part(8, 8, 8)
  /\ IPv4Header.protocol = Part(8, 0, 8)
  /\ IPv4Header.checksum = Word(10)
  /\ IPv4Header.source_address = Long(12)
  /\ IPv4Header.destination_address = Long(16)
BY DEF IPv4Header

\* IPv4Header is laid out well.
LEMMA IPv4Layout == Layout(IPv4Header)
<1>1. ASSUME NEW f \in DOMAIN IPv4Header
      PROVE  FieldOK(IPv4Header[f])
  BY IPv4Names, IPv4Places DEF FieldOK, Wide, Within, Offsets, Word, Long, Part
<1>2. ASSUME NEW f \in DOMAIN IPv4Header, NEW g \in DOMAIN IPv4Header, f # g
      PROVE  Apart(IPv4Header[f], IPv4Header[g])
  BY <1>2, IPv4Names, IPv4Places DEF Apart, Beside, Words, Wide, Word, Long, Part
<1> QED
  BY <1>1, <1>2 DEF Layout

\* A 16-bit value has 16 bits.
LEMMA Halves ==
  ASSUME NEW v \in Value16
  PROVE  v \in 0 .. 2^16 - 1
BY WordsAssumption, Zenon DEF WordsAssumption

\* A 32-bit value is a pair of words.
LEMMA Pairs ==
  ASSUME NEW v \in Value32
  PROVE  v \in Word16 \X Word16
BY WordsAssumption, Zenon DEF WordsAssumption, Word16

\* A value cut to n bits has n bits.
LEMMA Cut ==
  ASSUME NEW n \in 0..16, NEW v \in {x % 2^n : x \in Bits}
  PROVE  v \in 0 .. 2^n - 1
<1>1. PICK x \in Bits : v = x % 2^n
  OBVIOUS
<1>2. x \in Int
  BY BitsAssumption DEF BitsAssumption
<1>3. 2^n \in Nat \ {0}
  BY PowerPos
<1> QED
  BY <1>1, <1>2, <1>3, DivMod

\* A setter of a well laid out header changes what one getter returns.
LEMMA FieldsSet ==
  ASSUME NEW header, Layout(header), NEW b \in Header,
         NEW f \in DOMAIN header, NEW v, Fits(header[f], v)
  PROVE  /\ Set(b, header[f], v) \in Header
         /\ Fields(Set(b, header[f], v), header) = [Fields(b, header) EXCEPT ![f] = v]
<1> DEFINE c == Set(b, header[f], v)
<1>1. FieldOK(header[f])
  BY DEF Layout
<1>2. c \in Header
  BY <1>1, SetKeepsWords
<1>3. Get(c, header[f]) = v
  BY <1>1, SetGet
<1>4. ASSUME NEW g \in DOMAIN header, g # f
      PROVE  Get(c, header[g]) = Get(b, header[g])
  <2>1. FieldOK(header[g]) /\ Apart(header[f], header[g])
    BY <1>4 DEF Layout
  <2> QED
    BY <1>1, <2>1, SetElsewhere
<1> HIDE DEF c
<1>5. Fields(c, header) = [Fields(b, header) EXCEPT ![f] = v]
  BY <1>3, <1>4 DEF Fields
<1> QED
  BY <1>2, <1>5 DEF c

\* The values the setters are called with fit their fields.
LEMMA TcpValues ==
  ASSUME NEW f \in DOMAIN TcpHeader, NEW v \in Values(TcpHeader, f)
  PROVE  Fits(TcpHeader[f], v)
<1> USE DEF Fits, Wide, Values
<1>1. CASE TcpHeader[f].width = 32
  <2>1. v \in Value32
    BY <1>1
  <2> QED
    BY <1>1, <2>1, Pairs
<1>2. CASE TcpHeader[f].width = 16
  <2>1. v \in Value16
    BY <1>2
  <2> QED
    BY <1>2, <2>1, Halves
<1>3. CASE f = "data_offset"
  <2>1. TcpHeader[f].width = 4 /\ v \in DataOffsets
    BY <1>3, TcpPlaces DEF Part
  <2> QED
    BY <2>1, BitsAssumption DEF BitsAssumption
<1>4. CASE f \notin {"data_offset", "IHL", "version"} /\ TcpHeader[f].width \notin {16, 32}
  <2>1. v \in {x % 2^TcpHeader[f].width : x \in Bits}
    BY <1>4
  <2>2. TcpHeader[f].width \in 0..16
    BY <1>4, TcpLayout DEF Layout, FieldOK, Within
  <2> QED
    BY <1>4, <2>1, <2>2, Cut
<1> QED
  BY <1>1, <1>2, <1>3, <1>4, TcpNames

\* The same of the IPv4 header.
LEMMA IPv4Values ==
  ASSUME NEW f \in DOMAIN IPv4Header, NEW v \in Values(IPv4Header, f)
  PROVE  Fits(IPv4Header[f], v)
<1> USE DEF Fits, Wide, Values
<1>1. CASE IPv4Header[f].width = 32
  <2>1. v \in Value32
    BY <1>1
  <2> QED
    BY <1>1, <2>1, Pairs
<1>2. CASE IPv4Header[f].width = 16
  <2>1. v \in Value16
    BY <1>2
  <2> QED
    BY <1>2, <2>1, Halves
<1>3. CASE f = "IHL"
  <2>1. IPv4Header[f].width = 4 /\ v \in IHLs
    BY <1>3, IPv4Places DEF Part
  <2> QED
    BY <2>1, BitsAssumption DEF BitsAssumption
<1>4. CASE f = "version"
  <2>1. IPv4Header[f].width = 4 /\ v = 4
    BY <1>4, IPv4Places DEF Part
  <2> QED
    BY <2>1
<1>5. CASE f \notin {"data_offset", "IHL", "version"} /\ IPv4Header[f].width \notin {16, 32}
  <2>1. v \in {x % 2^IPv4Header[f].width : x \in Bits}
    BY <1>5
  <2>2. IPv4Header[f].width \in 0..16
    BY <1>5, IPv4Layout DEF Layout, FieldOK, Within
  <2> QED
    BY <1>5, <2>1, <2>2, Cut
<1> QED
  BY <1>1, <1>2, <1>3, <1>4, <1>5, IPv4Names

-----------------------------------------------------------------------------
(* set_flags.                                                               *)

\* A bit below bit n of a number depends on the number modulo 2^n only.
LEMMA BitOfRest ==
  ASSUME NEW w \in Int, NEW U \in Nat \ {0}, NEW V \in Nat \ {0}, NEW S \in Nat \ {0},
         NEW K \in Nat, Multiple(U, V, S, K)
  PROVE  Field(w, V, S) = Field(w % U, V, S)
<1> DEFINE q == w \div U
           r == w % U
           t == r \div V
           e == K * q
<1>1. q \in Int /\ r \in 0..U-1 /\ w = U * q + r
  BY DivMod
<1> HIDE DEF q, r
<1>2. r \in Int
  BY <1>1
<1>3. t \in Int
  BY <1>2, DivMod
<1>4. e \in Int /\ S * e \in Int
  BY <1>1
<1>5. U * q = V * (S * e)
  BY <1>1 DEF Multiple
<1> HIDE DEF t, e
<1>6. w = r + V * (S * e)
  BY <1>1, <1>2, <1>4, <1>5
<1>7. (r + V * (S * e)) \div V = t + S * e
  BY <1>2, <1>4, DivShift DEF t
<1>8. (t + S * e) % S = t % S
  BY <1>3, <1>4, ModShift
<1> QED
  BY <1>6, <1>7, <1>8 DEF Field, r, t

\* The six control bits as one field.
Flags == Part(12, 0, 6)
IsFlag(f) == TcpHeader[f].off = 12 /\ TcpHeader[f].width = 1

\* The control bits lie in its six, and every other field apart from them.
LEMMA FlagPlaces ==
  /\ FieldOK(Flags) /\ ~ Wide(Flags)
  /\ \A f \in DOMAIN TcpHeader : IF IsFlag(f) THEN TcpHeader[f].lo \in 0..5
                                 ELSE Apart(Flags, TcpHeader[f])
<1>1. FieldOK(Flags) /\ ~ Wide(Flags)
  BY DEF FieldOK, Flags, Part, Wide, Within, Offsets
<1>2. ASSUME NEW f \in DOMAIN TcpHeader
      PROVE  IF IsFlag(f) THEN TcpHeader[f].lo \in 0..5 ELSE Apart(Flags, TcpHeader[f])
  BY TcpNames, TcpPlaces DEF IsFlag, Flags, Apart, Beside, Words, Wide, Word, Long, Part
<1> QED
  BY <1>1, <1>2

\* set_flags sets each control bit to its bit of the argument and nothing else.
LEMMA FlagsSet ==
  ASSUME NEW b \in Header, NEW v \in Nat
  PROVE  /\ PutBits(b, 12, 0, 6, v) \in Header
         /\ Fields(PutBits(b, 12, 0, 6, v), TcpHeader)
              = [f \in DOMAIN TcpHeader |->
                   IF IsFlag(f) THEN (v \div 2^TcpHeader[f].lo) % 2
                   ELSE Fields(b, TcpHeader)[f]]
<1> DEFINE U == 2^6
           x == v % U
           c == PutBits(b, 12, 0, 6, v)
<1>1. U \in Nat \ {0} /\ U = 2^6
  OBVIOUS
<1>2. x \in 0..U-1
  BY <1>1, DivMod
<1>3. x % U = x
  BY <1>1, <1>2, ModSmall
<1>4. Flags.off = 12 /\ Flags.lo = 0 /\ Flags.width = 6
  BY DEF Flags, Part
<1>5. c = Set(b, Flags, x)
  <2>1. PutBits(b, 12, 0, 6, x) = c
    BY <1>3, Zenon DEF PutBits
  <2> QED
    BY <1>4, <2>1 DEF Set
<1>6. Fits(Flags, x)
  BY <1>2, <1>4 DEF Fits, Wide
<1> HIDE DEF c
<1>7. c \in Header
  BY <1>5, <1>6, FlagPlaces, SetKeepsWords
<1>8. ASSUME NEW f \in DOMAIN TcpHeader, ~ IsFlag(f)
      PROVE  Get(c, TcpHeader[f]) = Get(b, TcpHeader[f])
  <2>1. Apart(Flags, TcpHeader[f]) /\ FieldOK(TcpHeader[f])
    BY <1>8, FlagPlaces, TcpLayout DEF Layout
  <2> QED
    BY <1>5, <1>6, <2>1, FlagPlaces, SetElsewhere
<1>9. ASSUME NEW f \in DOMAIN TcpHeader, IsFlag(f)
      PROVE  Get(c, TcpHeader[f]) = (v \div 2^TcpHeader[f].lo) % 2
  <2> DEFINE lo == TcpHeader[f].lo
             V == 2^lo
             w == BE16(c, 12)
  <2>1. lo \in 0..5 /\ lo \in 0..16 /\ lo + 1 <= 6
    BY <1>9, FlagPlaces
  <2>2. V \in Nat \ {0}
    BY <2>1, PowerPos
  <2>3. PICK k \in Nat \ {0} : Multiple(2^6, V, 2^1, k)
    <3>1. 1 \in 0..16 /\ 6 \in 0..16
      OBVIOUS
    <3> QED
      BY <2>1, <3>1, Splits, Zenon
  <2>4. w \in Nat
    BY <1>7, ReadsWord, WordNat DEF Offsets
  <2>5. Get(c, Flags) = x
    BY <1>5, <1>6, FlagPlaces, SetGet
  <2>6. Get(c, Flags) = (w \div 2^0) % 2^6
    BY <1>4 DEF Get, GetBits
  <2>7. w % U = x
    BY <2>4, <2>5, <2>6
  <2>8. Multiple(U, V, 2, k) /\ k \in Nat
    BY <2>3
  <2>9. Get(c, TcpHeader[f]) = Field(w, V, 2)
    BY <1>9 DEF IsFlag, Get, GetBits, Field
  <2> HIDE DEF V, w, U, x
  <2>10. Field(w, V, 2) = Field(w % U, V, 2) /\ Field(v, V, 2) = Field(v % U, V, 2)
    BY <1>1, <2>2, <2>4, <2>8, BitOfRest
  <2> QED
    BY <2>7, <2>9, <2>10 DEF Field, V, x
<1>10. Fields(c, TcpHeader) = [f \in DOMAIN TcpHeader |->
                   IF IsFlag(f) THEN (v \div 2^TcpHeader[f].lo) % 2
                   ELSE Fields(b, TcpHeader)[f]]
  BY <1>8, <1>9, Zenon DEF Fields
<1> QED
  BY <1>7, <1>10 DEF c

-----------------------------------------------------------------------------
(* Setters in any order.                                                    *)

\* The headers are 20 bytes, and `last' is what their getters return.
Built(t, i, l) == /\ t \in Header /\ i \in Header
                  /\ l = [tcp |-> Fields(t, TcpHeader), ip |-> Fields(i, IPv4Header)]
SettersInv == Built(tcp, ip, last)

\* The header write_packet_ starts from, which says version 4 and 20 bytes.
LEMMA StackHeader ==
  ASSUME NEW h \in Header
  PROVE  /\ StackIp(h) \in Header
         /\ Fields(StackIp(h), IPv4Header).version = 4
         /\ Fields(StackIp(h), IPv4Header).IHL = 5
<1> DEFINE a == Set(h, IPv4Header.version, 4)
           b == Set(a, IPv4Header.IHL, 5)
           c == Set(b, IPv4Header.ttl, 255)
           d == Set(c, IPv4Header.protocol, 6)
           e == Set(d, IPv4Header.fragment_offset, 0)
           F(x) == Fields(x, IPv4Header)
<1>0. StackIp(h) = e
  BY DEF StackIp
<1>1. {"version", "IHL", "ttl", "protocol", "fragment_offset"} \subseteq DOMAIN IPv4Header
  BY IPv4Names
<1>2. /\ Fits(IPv4Header.version, 4) /\ Fits(IPv4Header.IHL, 5) /\ Fits(IPv4Header.ttl, 255)
      /\ Fits(IPv4Header.protocol, 6) /\ Fits(IPv4Header.fragment_offset, 0)
  BY IPv4Places DEF Fits, Wide, Part
<1>3. a \in Header /\ F(a) = [F(h) EXCEPT !["version"] = 4]
  BY <1>1, <1>2, IPv4Layout, FieldsSet
<1> HIDE DEF a
<1>4. b \in Header /\ F(b) = [F(a) EXCEPT !["IHL"] = 5]
  BY <1>1, <1>2, <1>3, IPv4Layout, FieldsSet
<1> HIDE DEF b
<1>5. c \in Header /\ F(c) = [F(b) EXCEPT !["ttl"] = 255]
  BY <1>1, <1>2, <1>4, IPv4Layout, FieldsSet
<1> HIDE DEF c
<1>6. d \in Header /\ F(d) = [F(c) EXCEPT !["protocol"] = 6]
  BY <1>1, <1>2, <1>5, IPv4Layout, FieldsSet
<1> HIDE DEF d
<1>7. e \in Header /\ F(e) = [F(d) EXCEPT !["fragment_offset"] = 0]
  BY <1>1, <1>2, <1>6, IPv4Layout, FieldsSet
<1> HIDE DEF e
<1>8. \A x : DOMAIN F(x) = DOMAIN IPv4Header
  BY DEF Fields
<1> HIDE DEF F
<1>9. F(e)["version"] = 4 /\ F(e)["IHL"] = 5
  BY <1>1, <1>3, <1>4, <1>5, <1>6, <1>7, <1>8
<1> QED
  BY <1>0, <1>7, <1>9 DEF F

\* The TCP header a packet starts from.
LEMMA StackTcp ==
  ASSUME NEW h \in Header
  PROVE  /\ Set(h, TcpHeader.data_offset, 5) \in Header
         /\ Fields(Set(h, TcpHeader.data_offset, 5), TcpHeader).data_offset = 5
<1>1. "data_offset" \in DOMAIN TcpHeader
  BY TcpNames
<1>2. Fits(TcpHeader.data_offset, 5)
  BY TcpPlaces DEF Fits, Wide, Part
<1>3. /\ Set(h, TcpHeader.data_offset, 5) \in Header
      /\ Fields(Set(h, TcpHeader.data_offset, 5), TcpHeader) = [Fields(h, TcpHeader) EXCEPT !["data_offset"] = 5]
  BY <1>1, <1>2, TcpLayout, FieldsSet
<1> QED
  BY <1>1, <1>3 DEF Fields

\* It holds initially.
LEMMA SettersInit == Init => SettersInv
<1> SUFFICES ASSUME NEW h \in {Zero, Ones}, NEW p \in Payloads, Start(h, p)
             PROVE  SettersInv
  BY DEF Init
<1>1. h \in Header
  BY DEF Zero, Ones, Header
<1> QED
  BY <1>1, StackHeader, StackTcp DEF Start, SettersInv, Built

\* A setter of the TCP header keeps it.
LEMMA SettersSetTcp ==
  ASSUME SettersInv, NEW f \in DOMAIN TcpHeader, NEW v \in Values(TcpHeader, f), SetTcp(f, v)
  PROVE  SettersInv'
<1>1. Fits(TcpHeader[f], v)
  BY TcpValues
<1>2. tcp' \in Header /\ Fields(tcp', TcpHeader) = [Fields(tcp, TcpHeader) EXCEPT ![f] = v]
  BY <1>1, TcpLayout, FieldsSet DEF SettersInv, Built, SetTcp
<1> QED
  BY <1>2 DEF SettersInv, Built, SetTcp

\* A setter of the IPv4 header keeps it.
LEMMA SettersSetIp ==
  ASSUME SettersInv, NEW f \in DOMAIN IPv4Header, NEW v \in Values(IPv4Header, f), SetIp(f, v)
  PROVE  SettersInv'
<1>1. Fits(IPv4Header[f], v)
  BY IPv4Values
<1>2. ip' \in Header /\ Fields(ip', IPv4Header) = [Fields(ip, IPv4Header) EXCEPT ![f] = v]
  BY <1>1, IPv4Layout, FieldsSet DEF SettersInv, Built, SetIp
<1> QED
  BY <1>2 DEF SettersInv, Built, SetIp

\* set_flags keeps it.
LEMMA SettersSetFlags ==
  ASSUME SettersInv, NEW v \in Bits, SetFlags(v)
  PROVE  SettersInv'
<1>1. v \in Nat
  BY BitsAssumption DEF BitsAssumption
<1>2. /\ tcp' \in Header
      /\ Fields(tcp', TcpHeader) = [f \in DOMAIN TcpHeader |->
                   IF IsFlag(f) THEN (v \div 2^TcpHeader[f].lo) % 2
                   ELSE Fields(tcp, TcpHeader)[f]]
  BY <1>1, FlagsSet DEF SettersInv, Built, SetFlags
<1>3. last' = [last EXCEPT !.tcp = Fields(tcp', TcpHeader)]
  BY <1>2 DEF SettersInv, Built, SetFlags, IsFlag
<1> QED
  BY <1>2, <1>3 DEF SettersInv, Built, SetFlags

\* Every step keeps it.
LEMMA SettersStep == SettersInv /\ [Next]_vars => SettersInv'
<1> SUFFICES ASSUME SettersInv, [Next]_vars
             PROVE  SettersInv'
  OBVIOUS
<1>1. ASSUME NEW f \in DOMAIN TcpHeader, NEW v \in Values(TcpHeader, f), SetTcp(f, v)
      PROVE  SettersInv'
  BY <1>1, SettersSetTcp
<1>2. ASSUME NEW f \in DOMAIN IPv4Header, NEW v \in Values(IPv4Header, f), SetIp(f, v)
      PROVE  SettersInv'
  BY <1>2, SettersSetIp
<1>3. ASSUME NEW v \in Bits, SetFlags(v)
      PROVE  SettersInv'
  BY <1>3, SettersSetFlags
<1>4. CASE UNCHANGED <<tcp, ip, last>>
  BY <1>4 DEF SettersInv, Built
<1>5. CASE write_packet_ \/ WriteBare \/ process_incoming_packet_
  BY <1>4, <1>5 DEF write_packet_, WriteBare, process_incoming_packet_
<1>6. ASSUME NEW cut \in Cuts, OpenCapture(Copies, cut)
      PROVE  SettersInv'
  BY <1>4, <1>6 DEF OpenCapture, built
<1>7. CASE DumpFromFile \/ DumpEnds \/ DumpFromTun
  BY <1>4, <1>7 DEF DumpFromFile, DumpEnds, DumpFromTun, built
<1>8. CASE UNCHANGED vars
  BY <1>4, <1>8 DEF vars
<1> QED
  BY <1>1, <1>2, <1>3, <1>5, <1>6, <1>7, <1>8 DEF Next

\* Whatever setters are called in whatever order, with any values of their
\* widths, every getter of TcpHeader and IPv4Header returns what its field was
\* last set to.
THEOREM Getters == Spec => []FieldsAsSet
<1>1. SettersInv => FieldsAsSet
  BY DEF SettersInv, Built, FieldsAsSet
<1> QED
  BY <1>1, SettersInit, SettersStep, PTL DEF Spec

-----------------------------------------------------------------------------
(* Writing a packet and reading it back.                                    *)

\* The values at a header's 20 places and in the data.
Values20(h, D) == D \cup {h[i] : i \in 1..20}

\* 20 bytes of header and the data: the data is what follows byte 20.
Packs(a, h, p) == /\ Len(a) = 20 + Len(p)
                  /\ \A i \in 1..20 : a[i] = h[i]
                  /\ SubSeq(a, 21, 20 + Len(p)) = p

\* Assemble packs so.
LEMMA Assembled ==
  ASSUME NEW h, NEW D, NEW p \in Seq(D), NEW junk
  PROVE  /\ Assemble(h, 20, p, junk) \in Seq(Values20(h, D))
         /\ Packs(Assemble(h, 20, p, junk), h, p)
<1> DEFINE a == Assemble(h, 20, p, junk)
           n == Len(p)
           S == Values20(h, D)
<1>1. n \in Nat /\ \A i \in 1..n : p[i] \in D
  BY LenProperties, ElementOfSeq
<1>2. a = [i \in 1 .. 20 + n |-> IF i > 20 THEN p[i - 20] ELSE IF i <= 20 THEN h[i] ELSE junk]
  BY DEF Assemble
<1> HIDE DEF a, n, S
<1>3. /\ DOMAIN a = 1 .. 20 + n
      /\ \A i \in 1..20 : a[i] = h[i]
      /\ \A i \in 21 .. 20 + n : a[i] = p[i - 20]
  BY <1>1, <1>2
<1>4. ASSUME NEW i \in 1 .. 20 + n
      PROVE  a[i] \in S
  <2>1. CASE i \in 1..20
    BY <1>3, <2>1 DEF S, Values20
  <2>2. CASE i \in 21 .. 20 + n
    <3>1. i - 20 \in 1..n
      BY <1>1, <2>2
    <3>2. p[i - 20] \in D
      BY <1>1, <3>1
    <3> QED
      BY <1>3, <2>2, <3>2 DEF S, Values20
  <2> QED
    BY <1>1, <2>1, <2>2
<1>5. a \in [1 .. 20 + n -> S]
  BY <1>2, <1>3, <1>4
<1>6. a \in Seq(S)
  <2>1. 20 + n \in Nat
    BY <1>1
  <2> QED
    BY <1>5, <2>1, SeqDef
<1>7. Len(a) = 20 + n
  <2>1. Len(a) \in Nat /\ DOMAIN a = 1..Len(a)
    BY <1>6, LenProperties
  <2> DEFINE m == Len(a)
  <2>2. m \in Nat /\ 1..m = 1 .. 20 + n
    BY <1>3, <2>1
  <2> HIDE DEF m
  <2>3. m = 20 + n
    BY <1>1, <2>2
  <2> QED
    BY <2>3 DEF m
<1>8. SubSeq(a, 21, 20 + n) = p
  <2> DEFINE s == SubSeq(a, 21, 20 + n)
  <2>0. 21 \in Int /\ 20 + n \in Int
    BY <1>1
  <2>1. \A i \in 21 .. 20 + n : a[i] \in D
    <3> SUFFICES ASSUME NEW i \in 21 .. 20 + n PROVE a[i] \in D
      OBVIOUS
    <3>1. i - 20 \in 1..n
      BY <1>1
    <3> QED
      BY <1>1, <1>3, <3>1
  <2>2. /\ s \in Seq(D)
        /\ Len(s) = IF 21 <= 20 + n THEN (20 + n) - 21 + 1 ELSE 0
        /\ \A i \in 1 .. (20 + n) - 21 + 1 : s[i] = a[21 + i - 1]
    BY <2>0, <2>1, SubSeqProperties
  <2> HIDE DEF s
  <2>3. Len(s) = n
    BY <1>1, <2>2
  <2>4. ASSUME NEW i \in 1..n
        PROVE  s[i] = p[i]
    <3>1. i \in 1 .. (20 + n) - 21 + 1 /\ 21 + i - 1 \in 21 .. 20 + n /\ (21 + i - 1) - 20 = i
      BY <1>1
    <3> QED
      BY <1>3, <2>2, <3>1
  <2>5. s = p
    BY <2>2, <2>3, <2>4, SeqEqual DEF n
  <2> QED
    BY <2>5 DEF s
<1> QED
  BY <1>3, <1>6, <1>7, <1>8 DEF a, n, S, Packs

\* A getter of a layout's field reads within the first 20 bytes.
LEMMA ReadsHeader ==
  ASSUME NEW header, Layout(header), NEW b, NEW h, \A i \in 1..20 : b[i] = h[i]
  PROVE  Fields(b, header) = Fields(h, header)
<1>1. ASSUME NEW f \in DOMAIN header
      PROVE  Get(b, header[f]) = Get(h, header[f])
  <2>1. Words(header[f]) \subseteq Offsets
    BY DEF Layout, FieldOK, Words
  <2>2. ASSUME NEW o \in Offsets
        PROVE  BE16(b, o) = BE16(h, o)
    <3>1. o + 1 \in 1..20 /\ o + 2 \in 1..20
      BY DEF Offsets
    <3> QED
      BY <3>1 DEF BE16
  <2> QED
    BY <2>1, <2>2, GetReads
<1> QED
  BY <1>1 DEF Fields

\* What the views make of a datagram with sane lengths is what it was made of.
LEMMA ReadBack ==
  ASSUME NEW h, NEW t, NEW D, NEW p \in Seq(D), NEW j, NEW k,
         Fields(h, IPv4Header).version = 4, Fields(h, IPv4Header).IHL = 5,
         Fields(h, IPv4Header).total_length = 40 + Len(p),
         Fields(t, TcpHeader).data_offset = 5
  PROVE  Parsed(Assemble(h, 20, Assemble(t, 20, p, j), k))
           = [valid |-> TRUE, ip |-> Fields(h, IPv4Header),
              tcp |-> Fields(t, TcpHeader), payload |-> p]
<1> DEFINE s == Assemble(t, 20, p, j)
           d == Assemble(h, 20, s, k)
           n == Len(p)
           E == Values20(t, D)
<1>0. n \in Nat
  BY LenProperties
<1>1. /\ s \in Seq(E) /\ Len(s) = 20 + n
      /\ \A i \in 1..20 : s[i] = t[i]
      /\ SubSeq(s, 21, 20 + n) = p
  BY Assembled DEF Packs
<1> HIDE DEF s, n, E
<1>2. /\ Len(d) = 20 + Len(s)
      /\ \A i \in 1..20 : d[i] = h[i]
      /\ SubSeq(d, 21, 20 + Len(s)) = s
  <2>1. Packs(d, h, s)
    BY <1>1, Assembled
  <2> QED
    BY <2>1 DEF Packs
<1> HIDE DEF d
<1>3. Fields(d, IPv4Header) = Fields(h, IPv4Header) /\ Fields(s, TcpHeader) = Fields(t, TcpHeader)
  BY <1>1, <1>2, IPv4Layout, TcpLayout, ReadsHeader
<1>4. /\ Get(d, IPv4Header.version) = 4 /\ Get(d, IPv4Header.IHL) = 5
      /\ Get(d, IPv4Header.total_length) = 40 + n /\ Get(s, TcpHeader.data_offset) = 5
  <2>1. /\ \A f \in DOMAIN IPv4Header : Get(d, IPv4Header[f]) = Fields(h, IPv4Header)[f]
        /\ \A f \in DOMAIN TcpHeader : Get(s, TcpHeader[f]) = Fields(t, TcpHeader)[f]
    BY <1>3 DEF Fields
  <2>2. {"version", "IHL", "total_length"} \subseteq DOMAIN IPv4Header /\ "data_offset" \in DOMAIN TcpHeader
    BY IPv4Names, TcpNames
  <2> QED
    BY <2>1, <2>2 DEF n
<1>5. Len(d) = 40 + n /\ Len(s) = 20 + n
  BY <1>0, <1>1, <1>2
<1>6. IPv4Valid(d)
  BY <1>0, <1>4, <1>5 DEF IPv4Valid
<1>7. IPv4Payload(d) = s
  <2>1. 4 * 5 + 1 = 21 /\ 20 + Len(s) = 40 + n
    BY <1>0, <1>5
  <2> QED
    BY <1>2, <1>4, <2>1 DEF IPv4Payload
<1>8. TcpValid(s)
  BY <1>0, <1>4, <1>5 DEF TcpValid
<1>9. TcpPayload(s) = p
  <2>1. 4 * 5 + 1 = 21
    OBVIOUS
  <2> QED
    BY <1>1, <1>4, <1>5, <2>1 DEF TcpPayload
<1>10. Parsed(d) = [valid |-> TRUE, ip |-> Fields(h, IPv4Header),
                    tcp |-> Fields(t, TcpHeader), payload |-> p]
  BY <1>3, <1>6, <1>7, <1>8, <1>9 DEF Parsed, IPv4PacketView, TcpPacketView
<1> QED
  BY <1>10 DEF d, s

\* A datagram that holds nothing behind its header, or is empty, is dropped.
LEMMA EmptyDropped ==
  /\ Parsed(<<>>) = Dropped
  /\ \A h, k : /\ Fields(h, IPv4Header).IHL = 5
               /\ Fields(h, IPv4Header).total_length = 20
               => Parsed(Assemble(h, 20, <<>>, k)) = Dropped
<1>1. Len(<<>>) = 0 /\ ~ (0 >= 20)
  OBVIOUS
<1>2. Parsed(<<>>) = Dropped
  BY <1>1 DEF Parsed, IPv4Valid
<1>3. ASSUME NEW h, NEW k, Fields(h, IPv4Header).IHL = 5, Fields(h, IPv4Header).total_length = 20
      PROVE  Parsed(Assemble(h, 20, <<>>, k)) = Dropped
  <2> DEFINE d == Assemble(h, 20, <<>>, k)
  <2>1. <<>> \in Seq({0})
    BY EmptySeq
  <2>2. Packs(d, h, <<>>)
    BY <2>1, Assembled
  <2> HIDE DEF d
  <2>3. (\A i \in 1..20 : d[i] = h[i]) /\ SubSeq(d, 21, 20 + Len(<<>>)) = <<>>
    BY <2>2 DEF Packs
  <2>4. Fields(d, IPv4Header) = Fields(h, IPv4Header)
    BY <2>3, IPv4Layout, ReadsHeader
  <2>5. {"IHL", "total_length"} \subseteq DOMAIN IPv4Header
    BY IPv4Names
  <2>6. Get(d, IPv4Header.IHL) = 5 /\ Get(d, IPv4Header.total_length) = 20
    BY <1>3, <2>4, <2>5 DEF Fields
  <2>7. 4 * 5 + 1 = 21 /\ 20 + Len(<<>>) = 20
    BY <1>1
  <2>8. IPv4Payload(d) = <<>>
    BY <2>3, <2>6, <2>7 DEF IPv4Payload
  <2>9. ~ TcpValid(<<>>)
    BY <1>1 DEF TcpValid
  <2>10. Parsed(d) = Dropped
    BY <2>8, <2>9 DEF Parsed
  <2> QED
    BY <2>10 DEF d
<1> QED
  BY <1>2, <1>3

\* Filling in a checksum, whatever it is, changes no other field.
LEMMA ChecksumOnly ==
  ASSUME NEW header, Layout(header), NEW b \in Header, NEW o \in Offsets,
         "checksum" \in DOMAIN header, header.checksum = Word(o), NEW v,
         NEW g \in DOMAIN header, g # "checksum"
  PROVE  Fields(Set(b, header.checksum, v), header)[g] = Fields(b, header)[g]
<1> DEFINE w == NewWord(b, o, 0, 16, v)
           c == Put16(b, o, w)
           f == header.checksum
<1>1. f.off = o /\ f.lo = 0 /\ f.width = 16
  BY DEF Word
<1>2. Set(b, f, v) = c
  BY <1>1, PutsWord DEF Set
<1>3. FieldOK(header[g]) /\ Apart(f, header[g])
  BY DEF Layout
<1>4. ~ Beside(f, header[g])
  BY <1>1, <1>3 DEF Beside, FieldOK, Within
<1>5. Words(header[g]) \subseteq Offsets \ {o}
  BY <1>1, <1>3, <1>4 DEF Apart, Words, Wide, FieldOK
<1> HIDE DEF w
<1>6. ASSUME NEW p \in Offsets \ {o}
      PROVE  BE16(c, p) = BE16(b, p)
  <2>1. p + 1 \in 1..20 \ {o + 1, o + 2} /\ p + 2 \in 1..20 \ {o + 1, o + 2}
    BY DEF Offsets
  <2>2. \A i \in 1..20 \ {o + 1, o + 2} : c[i] = b[i]
    BY DEF Put16, Header
  <2> QED
    BY <2>1, <2>2 DEF BE16
<1> HIDE DEF c
<1>7. Get(c, header[g]) = Get(b, header[g])
  BY <1>5, <1>6, GetReads
<1> QED
  BY <1>2, <1>7 DEF Fields

\* What is on the wire of a TCP header: its fields but the computed ones, and
\* a length of 20 bytes.
TcpWired(h, t) == /\ Fields(h, TcpHeader).data_offset = 5
                  /\ Same(Fields(h, TcpHeader), Fields(t, TcpHeader))

\* TcpPacket::write puts the length in where it was left out.
Sized(t) == IF Get(t, TcpHeader.data_offset) = 0 THEN Set(t, TcpHeader.data_offset, 5) ELSE t

\* The header that is written then says 20 bytes and nothing else is new.
LEMMA SizedHeader ==
  ASSUME NEW t \in Header, Fields(t, TcpHeader).data_offset \in {0, 5}
  PROVE  /\ Sized(t) \in Header /\ TcpWired(Sized(t), t)
         /\ Fields(Sized(t), TcpHeader).checksum = Fields(t, TcpHeader).checksum
         /\ HeaderLen(Get(t, TcpHeader.data_offset)) = 20
<1> DEFINE F(x) == Fields(x, TcpHeader)
<1>1. {"data_offset", "checksum"} \subseteq DOMAIN TcpHeader
  BY TcpNames
<1>2. \A x : DOMAIN F(x) = DOMAIN TcpHeader
  BY DEF Fields
<1>3. Get(t, TcpHeader.data_offset) \in {0, 5} /\ F(t).data_offset = Get(t, TcpHeader.data_offset)
  BY <1>1 DEF Fields
<1>4. HeaderLen(Get(t, TcpHeader.data_offset)) = 20
  BY <1>3 DEF HeaderLen
<1>5. CASE Get(t, TcpHeader.data_offset) = 0
  <2>1. Fits(TcpHeader.data_offset, 5)
    BY TcpPlaces DEF Fits, Wide, Part
  <2>2. Sized(t) = Set(t, TcpHeader.data_offset, 5)
    BY <1>5 DEF Sized
  <2>3. Sized(t) \in Header /\ F(Sized(t)) = [F(t) EXCEPT !["data_offset"] = 5]
    BY <1>1, <2>1, <2>2, TcpLayout, FieldsSet
  <2> HIDE DEF F
  <2>4. /\ F(Sized(t)).data_offset = 5 /\ F(Sized(t)).checksum = F(t).checksum
        /\ Same(F(Sized(t)), F(t))
    BY <1>1, <1>2, <2>3 DEF Same, Computed
  <2> QED
    BY <1>4, <2>3, <2>4 DEF F, TcpWired
<1>6. CASE Get(t, TcpHeader.data_offset) # 0
  <2>1. Sized(t) = t
    BY <1>6 DEF Sized
  <2> QED
    BY <1>3, <1>4, <1>6, <2>1 DEF TcpWired, Same
<1> QED
  BY <1>5, <1>6

\* TcpPacket::write without addresses: nothing, or the header and the payload.
LEMMA BareWritten ==
  ASSUME NEW t \in Header, Fields(t, TcpHeader).data_offset \in {0, 5}, NEW p, NEW k
  PROVE  IF Room < 20 + Len(p) THEN TcpWriteBare(t, p, k) = <<>>
         ELSE \E h : /\ TcpWriteBare(t, p, k) = Assemble(h, 20, p, k)
                     /\ TcpWired(h, t)
                     /\ Fields(h, TcpHeader).checksum = Fields(t, TcpHeader).checksum
<1>1. TcpWriteBare(t, p, k) = IF Room < 20 + Len(p) THEN <<>> ELSE Assemble(Sized(t), 20, p, k)
  BY SizedHeader DEF TcpWriteBare, Sized
<1> QED
  BY <1>1, SizedHeader

\* With addresses, the checksum is computed.
LEMMA SummedWritten ==
  ASSUME NEW t \in Header, Fields(t, TcpHeader).data_offset \in {0, 5},
         NEW src, NEW dst, NEW p, NEW k
  PROVE  IF Room < 20 + Len(p) THEN TcpWrite(t, src, dst, p, k) = <<>>
         ELSE \E h : /\ TcpWrite(t, src, dst, p, k) = Assemble(h, 20, p, k)
                     /\ TcpWired(h, t)
<1> DEFINE c == Set(Sized(t), TcpHeader.checksum, 0)
           v == ComputeTcpChecksum(src, dst, c, p)
           h == Set(c, TcpHeader.checksum, v)
           F(x) == Fields(x, TcpHeader)
<1>1. TcpWrite(t, src, dst, p, k) = IF Room < 20 + Len(p) THEN <<>> ELSE Assemble(h, 20, p, k)
  BY SizedHeader DEF TcpWrite, Sized
<1>2. {"data_offset", "checksum"} \subseteq DOMAIN TcpHeader
  BY TcpNames
<1>3. Fits(TcpHeader.checksum, 0)
  BY TcpPlaces DEF Fits, Wide, Word
<1>4. c \in Header /\ F(c) = [F(Sized(t)) EXCEPT !["checksum"] = 0]
  BY <1>2, <1>3, SizedHeader, TcpLayout, FieldsSet
<1> HIDE DEF c, v
<1>5. TcpHeader.checksum = Word(16) /\ 16 \in Offsets
  BY TcpPlaces DEF Offsets
<1>6. ASSUME NEW g \in DOMAIN TcpHeader, g # "checksum"
      PROVE  F(h)[g] = F(c)[g]
  <2>1. "checksum" \in DOMAIN TcpHeader /\ c \in Header
    BY <1>2, <1>4
  <2> QED
    BY <1>5, <1>6, <2>1, TcpLayout, ChecksumOnly, Zenon
<1>7. \A x : DOMAIN F(x) = DOMAIN TcpHeader
  BY DEF Fields
<1> HIDE DEF h
<1>8. F(Sized(t)).data_offset = 5 /\ Same(F(Sized(t)), F(t))
  BY SizedHeader DEF TcpWired
<1> HIDE DEF F
<1>9. F(h).data_offset = 5
  BY <1>2, <1>4, <1>6, <1>7, <1>8
<1>10. Same(F(h), F(t))
  BY <1>4, <1>6, <1>7, <1>8 DEF Same, Computed
<1>11. TcpWired(h, t)
  BY <1>9, <1>10 DEF TcpWired, F
<1> QED
  BY <1>1, <1>11 DEF h

\* IPv4Packet::write: nothing, or a header that tells the length, and the data.
IPv4Wired(h, i, n) == /\ Fields(h, IPv4Header).version = 4
                      /\ Fields(h, IPv4Header).IHL = 5
                      /\ Fields(h, IPv4Header).total_length = n
                      /\ Same(Fields(h, IPv4Header), Fields(i, IPv4Header))

\* The header it writes is such a one, with 20 bytes more than the data.
LEMMA IPv4Written ==
  ASSUME NEW i \in Header, Fields(i, IPv4Header).version = 4, Fields(i, IPv4Header).IHL = 5,
         NEW D, NEW p \in Seq(D), NEW k
  PROVE  IF Room < 20 + Len(p) THEN IPv4Write(i, p, k) = <<>>
         ELSE \E h : /\ IPv4Write(i, p, k) = Assemble(h, 20, p, k)
                     /\ IPv4Wired(h, i, 20 + Len(p))
<1> DEFINE n == 20 + Len(p)
           s == Set(i, IPv4Header.total_length, n)
           v == OnesComplementChecksum(Set(s, IPv4Header.checksum, 0))
           h == Set(s, IPv4Header.checksum, v)
           F(x) == Fields(x, IPv4Header)
<1>0. n \in Nat
  BY LenProperties
<1>1. {"version", "IHL", "total_length", "checksum"} \subseteq DOMAIN IPv4Header
  BY IPv4Names
<1>2. Get(i, IPv4Header.IHL) = 5
  BY <1>1 DEF Fields
<1>3. HeaderLen(5) = 20
  BY DEF HeaderLen
<1>4. IPv4Write(i, p, k) = IF Room < n THEN <<>> ELSE Assemble(h, 20, p, k)
  BY <1>2, <1>3 DEF IPv4Write, Total
<1> HIDE DEF n
<1>5. CASE Room < n
  BY <1>4, <1>5 DEF n
<1>6. CASE ~ (Room < n)
  <2>1. Fits(IPv4Header.total_length, n)
    <3> DEFINE M == 2^16 - 1
    <3>1. Room \in 0..M /\ M \in Int
      BY SizesAssumption DEF SizesAssumption
    <3> HIDE DEF M
    <3>2. n \in 0..M
      BY <1>0, <1>6, <3>1
    <3>3. IPv4Header.total_length.width = 16
      BY IPv4Places DEF Word
    <3> QED
      BY <3>2, <3>3 DEF Fits, Wide, M
  <2>2. s \in Header /\ F(s) = [F(i) EXCEPT !["total_length"] = n]
    BY <1>1, <2>1, IPv4Layout, FieldsSet
  <2> HIDE DEF s, v
  <2>3. IPv4Header.checksum = Word(10) /\ 10 \in Offsets
    BY IPv4Places DEF Offsets
  <2>4. ASSUME NEW g \in DOMAIN IPv4Header, g # "checksum"
        PROVE  F(h)[g] = F(s)[g]
    <3>1. "checksum" \in DOMAIN IPv4Header /\ s \in Header
      BY <1>1, <2>2
    <3> QED
      BY <2>3, <2>4, <3>1, IPv4Layout, ChecksumOnly, Zenon
  <2>5. \A x : DOMAIN F(x) = DOMAIN IPv4Header
    BY DEF Fields
  <2>6. F(i).version = 4 /\ F(i).IHL = 5
    OBVIOUS
  <2> HIDE DEF h, F
  <2>7. F(h).version = 4 /\ F(h).IHL = 5 /\ F(h).total_length = n
    BY <1>1, <2>2, <2>4, <2>5, <2>6
  <2>8. Same(F(h), F(i))
    BY <2>2, <2>4, <2>5 DEF Same, Computed
  <2>9. IPv4Wired(h, i, n)
    BY <2>7, <2>8 DEF IPv4Wired, F
  <2> QED
    BY <1>4, <1>6, <2>9 DEF n, h
<1> QED
  BY <1>5, <1>6

\* What process_incoming_packet_ should make of a written packet.
ReadsAs(r, t, i, p, bare) ==
    IF Room < 40 + Len(p) THEN ~ r.valid
    ELSE /\ r.valid
         /\ Same(r.tcp, Fields(t, TcpHeader)) /\ Same(r.ip, Fields(i, IPv4Header))
         /\ bare => r.tcp.checksum = Fields(t, TcpHeader).checksum
         /\ r.payload = p

\* The headers that can be written: version 4 and 20 bytes each.
Plain(t, i) == /\ t \in Header /\ i \in Header
               /\ Fields(t, TcpHeader).data_offset \in {0, 5}
               /\ Fields(i, IPv4Header).version = 4 /\ Fields(i, IPv4Header).IHL = 5

\* A segment too long for its buffer is written as nothing, and is dropped.
LEMMA TooLong ==
  ASSUME NEW t, NEW i, Plain(t, i), NEW p \in Seq(0..255), NEW k, NEW bare \in BOOLEAN, Room < 20 + Len(p)
  PROVE  ReadsAs(Parsed(IPv4Write(i, <<>>, k)), t, i, p, bare)
<1>1. Len(p) \in Nat /\ Room \in Int
  BY LenProperties, SizesAssumption DEF SizesAssumption
<1>2. Room < 40 + Len(p)
  BY <1>1
<1>3. <<>> \in Seq({0}) /\ 20 + Len(<<>>) = 20
  BY EmptySeq
<1>4. IPv4Write(i, <<>>, k) = <<>> \/ \E h : /\ IPv4Write(i, <<>>, k) = Assemble(h, 20, <<>>, k)
                                             /\ IPv4Wired(h, i, 20)
  <2> DEFINE e == <<>>
  <2>1. e \in Seq({0}) /\ 20 + Len(e) = 20
    BY <1>3
  <2> HIDE DEF e
  <2>2. IF Room < 20 + Len(e) THEN IPv4Write(i, e, k) = <<>>
        ELSE \E h : IPv4Write(i, e, k) = Assemble(h, 20, e, k) /\ IPv4Wired(h, i, 20 + Len(e))
    BY <2>1, IPv4Written DEF Plain
  <2>3. IPv4Write(i, e, k) = <<>> \/ \E h : IPv4Write(i, e, k) = Assemble(h, 20, e, k) /\ IPv4Wired(h, i, 20)
    BY <2>1, <2>2
  <2> QED
    BY <2>3 DEF e
<1>5. Parsed(IPv4Write(i, <<>>, k)) = Dropped
  BY <1>4, EmptyDropped DEF IPv4Wired
<1> QED
  BY <1>2, <1>5 DEF ReadsAs, Dropped

\* A segment that was written is read as it was, if the datagram fits.
LEMMA Arrives ==
  ASSUME NEW t, NEW i, Plain(t, i), NEW p \in Seq(0..255), NEW k, NEW bare \in BOOLEAN,
         NEW h, TcpWired(h, t),
         bare => Fields(h, TcpHeader).checksum = Fields(t, TcpHeader).checksum
  PROVE  ReadsAs(Parsed(IPv4Write(i, Assemble(h, 20, p, k), k)), t, i, p, bare)
<1> DEFINE s == Assemble(h, 20, p, k)
           D == Values20(h, 0..255)
<1>1. Len(p) \in Nat
  BY LenProperties
<1>2. s \in Seq(D) /\ Len(s) = 20 + Len(p)
  BY Assembled DEF Packs
<1> HIDE DEF s, D
<1>3. 20 + Len(s) = 40 + Len(p)
  BY <1>1, <1>2
<1>4. IF Room < 40 + Len(p) THEN IPv4Write(i, s, k) = <<>>
      ELSE \E g : /\ IPv4Write(i, s, k) = Assemble(g, 20, s, k)
                  /\ IPv4Wired(g, i, 40 + Len(p))
  <2>1. IF Room < 20 + Len(s) THEN IPv4Write(i, s, k) = <<>>
        ELSE \E g : /\ IPv4Write(i, s, k) = Assemble(g, 20, s, k)
                    /\ IPv4Wired(g, i, 20 + Len(s))
    BY <1>2, IPv4Written DEF Plain
  <2> QED
    BY <1>3, <2>1
<1>5. CASE Room < 40 + Len(p)
  BY <1>4, <1>5, EmptyDropped DEF ReadsAs, Dropped, s
<1>6. CASE ~ (Room < 40 + Len(p))
  <2>1. PICK g : IPv4Write(i, s, k) = Assemble(g, 20, s, k) /\ IPv4Wired(g, i, 40 + Len(p))
    BY <1>4, <1>6
  <2>2. Parsed(Assemble(g, 20, Assemble(h, 20, p, k), k))
           = [valid |-> TRUE, ip |-> Fields(g, IPv4Header),
              tcp |-> Fields(h, TcpHeader), payload |-> p]
    BY <2>1, ReadBack DEF IPv4Wired, TcpWired
  <2> DEFINE r == Parsed(IPv4Write(i, s, k))
  <2>3. /\ r.valid /\ r.ip = Fields(g, IPv4Header)
        /\ r.tcp = Fields(h, TcpHeader) /\ r.payload = p
    BY <2>1, <2>2 DEF s
  <2> HIDE DEF r
  <2>4. ReadsAs(r, t, i, p, bare)
    BY <1>6, <2>1, <2>3 DEF ReadsAs, IPv4Wired, TcpWired
  <2> QED
    BY <2>4 DEF r, s
<1> QED
  BY <1>5, <1>6

-----------------------------------------------------------------------------
(* Every packet the program can build.                                      *)

\* The lengths the code sets: data_offset 5, or 0 for write to fill in; IHL 5.
PlainLengths == DataOffsets \subseteq {0, 5} /\ IHLs \subseteq {5}

\* The headers can be written; what was sent, and what was received, is it.
Arrived(r) == ReadsAs(r, tcp, ip, payload, ~ summed)
TripInv == /\ SettersInv
           /\ Plain(tcp, ip) /\ payload \in Seq(0..255)
           /\ stage = "sent" => Arrived(Parsed(datagram))
           /\ stage = "received" => Arrived(received)

\* It holds initially.
LEMMA TripInit == Init => TripInv
<1> SUFFICES ASSUME NEW h \in {Zero, Ones}, NEW p \in Payloads, Start(h, p), SettersInv
             PROVE  TripInv
  BY SettersInit DEF Init
<1>1. h \in Header
  BY DEF Zero, Ones, Header
<1>2. Plain(tcp, ip)
  BY <1>1, StackHeader, StackTcp DEF Start, Plain
<1>3. payload \in Seq(0..255)
  BY SizesAssumption DEF SizesAssumption, Start
<1> QED
  BY <1>2, <1>3 DEF TripInv, Start

\* A setter of the TCP header keeps the lengths and the version.
LEMMA TripSetTcp ==
  ASSUME PlainLengths, TripInv, NEW f \in DOMAIN TcpHeader, NEW v \in Values(TcpHeader, f), SetTcp(f, v)
  PROVE  TripInv'
<1>1. SettersInv'
  BY SettersSetTcp DEF TripInv
<1>2. tcp' \in Header /\ Fields(tcp', TcpHeader) = last.tcp' /\ last.tcp = Fields(tcp, TcpHeader)
  BY <1>1 DEF TripInv, SettersInv, Built
<1>3. last.tcp' = [last.tcp EXCEPT ![f] = v]
  BY DEF SetTcp, TripInv, SettersInv, Built
<1>4. f = "data_offset" => v \in DataOffsets
  BY TcpPlaces DEF Values, Part
<1>5. Fields(tcp', TcpHeader).data_offset \in {0, 5}
  BY <1>2, <1>3, <1>4, TcpNames DEF PlainLengths, TripInv, Plain, Fields
<1>6. Plain(tcp', ip')
  BY <1>2, <1>5 DEF TripInv, Plain, SetTcp
<1> QED
  BY <1>1, <1>6 DEF TripInv, SetTcp, Building

\* A setter of the IPv4 header does too.
LEMMA TripSetIp ==
  ASSUME PlainLengths, TripInv, NEW f \in DOMAIN IPv4Header, NEW v \in Values(IPv4Header, f), SetIp(f, v)
  PROVE  TripInv'
<1>1. SettersInv'
  BY SettersSetIp DEF TripInv
<1>2. ip' \in Header /\ Fields(ip', IPv4Header) = last.ip' /\ last.ip = Fields(ip, IPv4Header)
  BY <1>1 DEF TripInv, SettersInv, Built
<1>3. last.ip' = [last.ip EXCEPT ![f] = v]
  BY DEF SetIp, TripInv, SettersInv, Built
<1>4. (f = "IHL" => v \in IHLs) /\ (f = "version" => v = 4)
  BY IPv4Places DEF Values, Part
<1>5. Fields(ip', IPv4Header).IHL = 5 /\ Fields(ip', IPv4Header).version = 4
  BY <1>2, <1>3, <1>4, IPv4Names DEF PlainLengths, TripInv, Plain, Fields
<1>6. Plain(tcp', ip')
  BY <1>2, <1>5 DEF TripInv, Plain, SetIp
<1> QED
  BY <1>1, <1>6 DEF TripInv, SetIp, Building

\* So does set_flags, which does not reach the length.
LEMMA TripSetFlags ==
  ASSUME TripInv, NEW v \in Bits, SetFlags(v)
  PROVE  TripInv'
<1>1. SettersInv'
  BY SettersSetFlags DEF TripInv
<1>2. tcp' \in Header /\ Fields(tcp', TcpHeader) = last.tcp' /\ last.tcp = Fields(tcp, TcpHeader)
  BY <1>1 DEF TripInv, SettersInv, Built
<1>3. "data_offset" \in DOMAIN TcpHeader /\ TcpHeader.data_offset.width = 4
  BY TcpNames, TcpPlaces DEF Part
<1>4. last.tcp'.data_offset = last.tcp.data_offset
  BY <1>3 DEF SetFlags, TripInv, SettersInv, Built
<1>5. Plain(tcp', ip')
  BY <1>2, <1>4 DEF TripInv, Plain, SetFlags
<1> QED
  BY <1>1, <1>5 DEF TripInv, SetFlags, Building

\* Both ways of writing make a datagram that reads as the packet.
LEMMA TripWrite ==
  ASSUME TripInv, write_packet_ \/ WriteBare
  PROVE  TripInv'
<1>1. UNCHANGED <<tcp, ip, last, payload>> /\ stage' = "sent"
  BY DEF write_packet_, WriteBare
<1>2. SettersInv' /\ Plain(tcp', ip') /\ payload' \in Seq(0..255)
  BY <1>1 DEF TripInv, SettersInv
<1>3. Plain(tcp, ip) /\ payload \in Seq(0..255) /\ tcp \in Header
      /\ Fields(tcp, TcpHeader).data_offset \in {0, 5}
  BY DEF TripInv, Plain
<1>4. CASE write_packet_
  <2> DEFINE src == Get(ip, IPv4Header.source_address)
             dst == Get(ip, IPv4Header.destination_address)
  <2>1. PICK k \in {0, 255} : datagram' = IPv4Write(ip, TcpWrite(tcp, src, dst, payload, k), k)
    BY <1>4 DEF write_packet_
  <2> HIDE DEF src, dst
  <2>2. IF Room < 20 + Len(payload) THEN TcpWrite(tcp, src, dst, payload, k) = <<>>
        ELSE \E h : /\ TcpWrite(tcp, src, dst, payload, k) = Assemble(h, 20, payload, k)
                    /\ TcpWired(h, tcp)
    BY <1>3, SummedWritten
  <2>3. summed'
    BY <1>4 DEF write_packet_
  <2>4. ReadsAs(Parsed(datagram'), tcp, ip, payload, ~ summed')
    <3> DEFINE bare == ~ summed'
    <3>0. ~ bare /\ bare \in BOOLEAN
      BY <2>3
    <3> HIDE DEF bare
    <3>1. CASE Room < 20 + Len(payload)
      <4>1. ReadsAs(Parsed(IPv4Write(ip, <<>>, k)), tcp, ip, payload, bare)
        BY <1>3, <3>0, <3>1, TooLong
      <4> QED
        BY <2>1, <2>2, <3>1, <4>1 DEF bare
    <3>2. CASE ~ (Room < 20 + Len(payload))
      <4>1. PICK h : /\ TcpWrite(tcp, src, dst, payload, k) = Assemble(h, 20, payload, k)
                     /\ TcpWired(h, tcp)
        BY <2>2, <3>2
      <4>2. bare => Fields(h, TcpHeader).checksum = Fields(tcp, TcpHeader).checksum
        BY <3>0
      <4>3. ReadsAs(Parsed(IPv4Write(ip, Assemble(h, 20, payload, k), k)), tcp, ip, payload, bare)
        BY <1>3, <3>0, <4>1, <4>2, Arrives
      <4> QED
        BY <2>1, <4>1, <4>3 DEF bare
    <3> QED
      BY <3>1, <3>2
  <2> QED
    BY <1>1, <1>2, <2>4 DEF TripInv, Arrived
<1>5. CASE WriteBare
  <2>1. PICK k \in {0, 255} : datagram' = IPv4Write(ip, TcpWriteBare(tcp, payload, k), k)
    BY <1>5 DEF WriteBare
  <2>2. IF Room < 20 + Len(payload) THEN TcpWriteBare(tcp, payload, k) = <<>>
        ELSE \E h : /\ TcpWriteBare(tcp, payload, k) = Assemble(h, 20, payload, k)
                    /\ TcpWired(h, tcp)
                    /\ Fields(h, TcpHeader).checksum = Fields(tcp, TcpHeader).checksum
    BY <1>3, BareWritten
  <2>3. ReadsAs(Parsed(datagram'), tcp, ip, payload, ~ summed)
    <3> DEFINE bare == ~ summed
    <3>0. bare \in BOOLEAN
      OBVIOUS
    <3> HIDE DEF bare
    <3>1. CASE Room < 20 + Len(payload)
      <4>1. ReadsAs(Parsed(IPv4Write(ip, <<>>, k)), tcp, ip, payload, bare)
        BY <1>3, <3>0, <3>1, TooLong
      <4> QED
        BY <2>1, <2>2, <3>1, <4>1 DEF bare
    <3>2. CASE ~ (Room < 20 + Len(payload))
      <4>1. PICK h : /\ TcpWriteBare(tcp, payload, k) = Assemble(h, 20, payload, k)
                     /\ TcpWired(h, tcp)
                     /\ Fields(h, TcpHeader).checksum = Fields(tcp, TcpHeader).checksum
        BY <2>2, <3>2
      <4>2. ReadsAs(Parsed(IPv4Write(ip, Assemble(h, 20, payload, k), k)), tcp, ip, payload, bare)
        BY <1>3, <3>0, <4>1, Arrives
      <4> QED
        BY <2>1, <4>1, <4>2 DEF bare
    <3> QED
      BY <3>1, <3>2
  <2>4. summed' = summed
    BY <1>5 DEF WriteBare
  <2> QED
    BY <1>1, <1>2, <2>3, <2>4 DEF TripInv, Arrived
<1> QED
  BY <1>4, <1>5

\* Every step keeps it.
LEMMA TripStep ==
  ASSUME PlainLengths, TripInv, [Next]_vars
  PROVE  TripInv'
<1>1. ASSUME NEW f \in DOMAIN TcpHeader, NEW v \in Values(TcpHeader, f), SetTcp(f, v)
      PROVE  TripInv'
  BY <1>1, TripSetTcp
<1>2. ASSUME NEW f \in DOMAIN IPv4Header, NEW v \in Values(IPv4Header, f), SetIp(f, v)
      PROVE  TripInv'
  BY <1>2, TripSetIp
<1>3. ASSUME NEW v \in Bits, SetFlags(v)
      PROVE  TripInv'
  BY <1>3, TripSetFlags
<1>4. CASE write_packet_ \/ WriteBare
  BY <1>4, TripWrite
<1>5. CASE process_incoming_packet_
  BY <1>5 DEF process_incoming_packet_, TripInv, SettersInv, Arrived
<1>6. CASE UNCHANGED built /\ stage' \in {"dumping", "dumped"}
  BY <1>6 DEF built, TripInv, SettersInv
<1>7. ASSUME NEW cut \in Cuts, OpenCapture(Copies, cut)
      PROVE  TripInv'
  BY <1>6, <1>7 DEF OpenCapture
<1>8. CASE DumpFromFile
  BY <1>6, <1>8 DEF DumpFromFile
<1>9. CASE DumpEnds \/ DumpFromTun
  BY <1>6, <1>9 DEF DumpEnds, DumpFromTun
<1>10. CASE UNCHANGED vars
  BY <1>10 DEF vars, TripInv, SettersInv, Arrived
<1> QED
  BY <1>1, <1>2, <1>3, <1>4, <1>5, <1>7, <1>8, <1>9, <1>10 DEF Next

\* What TcpPacket::write, IPv4Packet::write and the two views make of any packet
\* built with headers of 20 bytes is that packet, whatever its payload, its
\* fields and the order they were set in; a packet that does not fit the output
\* buffer is read as nothing.
THEOREM RoundTrips ==
  ASSUME PlainLengths
  PROVE  Spec => []RoundTrip
<1>1. TripInv => RoundTrip
  BY DEF TripInv, Arrived, ReadsAs, RoundTrip, SettersInv, Built
<1>2. TripInv /\ [Next]_vars => TripInv'
  BY TripStep
<1> QED
  BY <1>1, <1>2, TripInit, PTL DEF Spec
=============================================================================
