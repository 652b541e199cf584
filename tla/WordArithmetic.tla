----------------------------- MODULE WordArithmetic ---------------------------
(***************************************************************************)
(* What remains of a number in an unsigned long: arithmetic modulo a width *)
(* that is not known.                                                      *)
(***************************************************************************)
EXTENDS Integers, TLAPS

LEMMA Divided ==
    ASSUME NEW w \in Nat \ {0}, NEW n \in Int
    PROVE  /\ n \div w \in Int
           /\ n % w \in 0 .. w - 1
           /\ n = w * (n \div w) + (n % w)
  BY Z3

LEMMA ProductIsInt ==
    ASSUME NEW w \in Nat \ {0}, NEW n \in Int
    PROVE  w * n \in Int
  BY Z3

\* A number has one remainder only.
LEMMA OneRemainder ==
    ASSUME NEW w \in Nat \ {0},
           NEW p \in Int, NEW q \in Int,
           NEW r \in 0 .. w - 1, NEW s \in 0 .. w - 1,
           w * p + r = w * q + s
    PROVE  r = s
  <1>1. \A d \in Int : d >= 1 => w * d >= w
    BY Z3
  <1>2. w * (p - q) = w * p - w * q /\ w * (q - p) = w * q - w * p
    BY Z3
  <1>3. w * p \in Int /\ w * q \in Int
    BY ProductIsInt
  <1>4. ~ (p - q >= 1) /\ ~ (q - p >= 1)
    <2>1. w * (p - q) < w /\ w * (q - p) < w
      BY <1>2, <1>3
    <2>2. p - q \in Int /\ q - p \in Int
      OBVIOUS
    <2> QED
      BY <1>1, <2>1, <2>2, <1>2, <1>3
  <1>5. p = q
    BY <1>4
  <1> QED
    BY <1>3, <1>5

\* Whole widths do not show in the remainder.
LEMMA WidthsVanish ==
    ASSUME NEW w \in Nat \ {0}, NEW n \in Int, NEW m \in Int
    PROVE  (n + w * m) % w = n % w
  <1> DEFINE k == n + w * m
  <1>1. k \in Int
    BY ProductIsInt
  <1>2. k = w * ((n \div w) + m) + (n % w)
    BY Divided, Z3
  <1>3. k = w * (k \div w) + (k % w) /\ k \div w \in Int /\ k % w \in 0 .. w - 1
    BY <1>1, Divided
  <1>4. (n \div w) + m \in Int /\ n % w \in 0 .. w - 1
    BY Divided
  <1> HIDE DEF k
  <1>5. k % w = n % w
    BY <1>2, <1>3, <1>4, OneRemainder
  <1> QED
    BY <1>5 DEF k

\* Remainders may be taken before or after a sum or a difference.
LEMMA RemainderOfSum ==
    ASSUME NEW w \in Nat \ {0}, NEW m \in Int, NEW n \in Int
    PROVE  /\ ((m % w) + n) % w = (m + n) % w
           /\ (n - (m % w)) % w = (n - m) % w
  <1> DEFINE q == m \div w
             r == m % w
             wq == w * q
  <1>1. q \in Int /\ r \in Int /\ m = wq + r
    BY Divided
  <1>2. wq \in Int /\ -q \in Int /\ w * (-q) = -wq
    BY <1>1, ProductIsInt, Z3
  <1> HIDE DEF q, r
  <1>3. (r + n) % w = (m + n) % w
    <2>1. ((r + n) + w * q) % w = (r + n) % w
      <3>1. r + n \in Int
        BY <1>1
      <3> QED
        BY <1>1, <3>1, WidthsVanish
    <2> HIDE DEF wq
    <2>2. (r + n) + wq = m + n
      BY <1>1, <1>2
    <2> QED
      BY <2>1, <2>2 DEF wq
  <1>4. (n - r) % w = (n - m) % w
    <2>1. ((n - r) + w * (-q)) % w = (n - r) % w
      <3>1. n - r \in Int
        BY <1>1
      <3> QED
        BY <1>2, <3>1, WidthsVanish
    <2> HIDE DEF wq
    <2>2. (n - r) + (-wq) = n - m
      BY <1>1, <1>2
    <2> QED
      BY <1>2, <2>1, <2>2
  <1> QED
    BY <1>3, <1>4 DEF r
=============================================================================
