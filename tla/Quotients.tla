------------------------------- MODULE Quotients -------------------------------
(***************************************************************************)
(* Facts about quotients and remainders: how numbers of buffers, of chains *)
(* and of bytes relate, whatever the sizes.                                *)
(***************************************************************************)
EXTENDS Integers, TLAPS

(* Quotient and remainder. *)
LEMMA Division ==
  ASSUME NEW c \in Nat, NEW q \in Nat \ {0}
  PROVE  /\ c \div q \in Nat
         /\ c % q \in 0 .. q - 1
         /\ c % q = c - q * (c \div q)
<1>1. c % q \in 0 .. q - 1
  OBVIOUS
<1>2. c \div q \in Int /\ c \div q >= 0
  OBVIOUS
<1>3. c % q = c - q * (c \div q)
  OBVIOUS
<1> QED
  BY <1>1, <1>2, <1>3

(* A number has one quotient and remainder. *)
LEMMA OneQuotient ==
  ASSUME NEW q \in Nat \ {0}, NEW d \in Int, NEW e \in Int,
         NEW r \in 0 .. q - 1, NEW s \in 0 .. q - 1, q * d + r = q * e + s
  PROVE  d = e /\ r = s
<1>1. q * (d - e) = s - r
  OBVIOUS
<1>2. d - e < 1
  <2> SUFFICES ASSUME d - e >= 1
               PROVE  FALSE
    OBVIOUS
  <2>1. q * (d - e) >= q
    OBVIOUS
  <2> QED
    BY <1>1, <2>1
<1>3. e - d < 1
  <2> SUFFICES ASSUME e - d >= 1
               PROVE  FALSE
    OBVIOUS
  <2>1. q * (e - d) >= q
    OBVIOUS
  <2>2. q * (e - d) = r - s
    OBVIOUS
  <2> QED
    BY <2>1, <2>2
<1> QED
  BY <1>1, <1>2, <1>3

(* A whole number, of either sign, has a quotient and a remainder. *)
LEMMA IntegerDivision ==
  ASSUME NEW x \in Int, NEW q \in Nat \ {0}
  PROVE  /\ x \div q \in Int
         /\ x % q \in 0 .. q - 1
         /\ x = q * (x \div q) + (x % q)
<1>1. x % q \in 0 .. q - 1
  OBVIOUS
<1>2. x \div q \in Int
  OBVIOUS
<1>3. x = q * (x \div q) + (x % q)
  OBVIOUS
<1> QED
  BY <1>1, <1>2, <1>3

(* Cutting a number down to a width and then to one that divides it is     *)
(* cutting it down to the narrower.                                        *)
LEMMA NarrowTwice ==
  ASSUME NEW x \in Int, NEW m \in Nat \ {0}, NEW q \in Nat \ {0}, m % q = 0
  PROVE  (x % m) % q = x % q
<1> DEFINE d == x \div m    r == x % m
           k == m \div q
           e == r \div q    s == r % q
           f == x \div q    t == x % q
<1>1. d \in Int /\ r \in 0 .. m - 1 /\ x = m * d + r
  BY IntegerDivision, Zenon
<1>2. k \in Int /\ m = q * k
  <2>1. m \in Int /\ m % q = 0
    OBVIOUS
  <2>2. k \in Int /\ m = q * k + (m % q)
    BY <2>1, IntegerDivision, Zenon
  <2> HIDE DEF k
  <2> QED
    BY <2>1, <2>2
<1>3. e \in Int /\ s \in 0 .. q - 1 /\ r = q * e + s
  <2>1. r \in Int
    BY <1>1
  <2> HIDE DEF r
  <2> QED
    BY <2>1, IntegerDivision, Zenon
<1>4. f \in Int /\ t \in 0 .. q - 1 /\ x = q * f + t
  BY IntegerDivision, Zenon
<1> HIDE DEF d, r, k, e, s, f, t
<1>5. PICK u \in Int : u = k * d
  BY <1>1, <1>2
<1>6. m * d = q * u
  BY <1>1, <1>2, <1>5
<1>7. q * (u + e) + s = q * f + t
  <2>1. q * (u + e) = q * u + q * e
    BY <1>3
  <2>2. x = q * u + (q * e + s)
    BY <1>1, <1>3, <1>6
  <2>3. q * u \in Int /\ q * e \in Int
    BY <1>3
  <2> QED
    BY <1>3, <1>4, <2>1, <2>2, <2>3
<1>8. s = t
  <2>1. u + e \in Int
    BY <1>3
  <2> QED
    BY <1>3, <1>4, <1>7, <2>1, OneQuotient
<1> QED
  BY <1>8 DEF s, t, r

(* Adding the divisor keeps the remainder: c + QueueDepth is in c's chain. *)
LEMMA NextInChain ==
  ASSUME NEW c \in Nat, NEW q \in Nat \ {0}
  PROVE  (c + q) % q = c % q
<1> DEFINE d == c \div q     r == c % q
           e == (c + q) \div q   s == (c + q) % q
<1>1. /\ d \in Nat /\ r \in 0 .. q - 1 /\ r = c - q * d
      /\ e \in Nat /\ s \in 0 .. q - 1 /\ s = (c + q) - q * e
  <2>1. c + q \in Nat
    OBVIOUS
  <2> QED
    BY <2>1, Division, Zenon
<1> HIDE DEF d, r, e, s
<1>2. q * (d + 1) + r = q * e + s
  BY <1>1
<1>3. r = s
  BY <1>1, <1>2, OneQuotient
<1> QED
  BY <1>3 DEF r, s

(* The first contexts are the first ones of their chains. *)
LEMMA FirstInChain ==
  ASSUME NEW q \in Nat \ {0}, NEW c \in 0 .. q - 1
  PROVE  c % q = c
<1> DEFINE d == c \div q   r == c % q
<1>0. c \in Nat
  OBVIOUS
<1>1. d \in Nat /\ r \in 0 .. q - 1 /\ r = c - q * d
  BY <1>0, Division, Zenon
<1> HIDE DEF d, r
<1>2. q * d + r = q * 0 + c
  BY <1>1
<1>3. r = c
  BY <1>1, <1>2, OneQuotient
<1> QED
  BY <1>3 DEF r

(* Two contexts of a chain are QueueDepth apart at least. *)
LEMMA ChainGap ==
  ASSUME NEW q \in Nat \ {0}, NEW a \in Nat, NEW b \in Nat, a % q = b % q, a < b
  PROVE  a + q <= b
<1> DEFINE d == a \div q   e == b \div q   r == a % q
<1>1. /\ d \in Nat /\ r \in 0 .. q - 1 /\ r = a - q * d
      /\ e \in Nat /\ r = b - q * e
  BY Division, Zenon
<1> HIDE DEF d, e, r
<1>2. q * (e - d) = b - a
  BY <1>1
<1>3. e - d >= 1
  <2> SUFFICES ASSUME e - d <= 0
               PROVE  FALSE
    BY <1>1
  <2>1. q * (e - d) <= 0
    BY <1>1
  <2> QED
    BY <1>2, <2>1
<1>4. q * (e - d) >= q
  BY <1>1, <1>3
<1> QED
  BY <1>2, <1>4

(* What is cut into parts of size q, the last one perhaps not full, has a  *)
(* part c just when that part starts before the end.                       *)
LEMMA PartCount ==
  ASSUME NEW q \in Nat \ {0}, NEW size \in Nat, NEW c \in Nat
  PROVE  /\ (size + q - 1) \div q \in Nat
         /\ c < (size + q - 1) \div q <=> c * q < size
<1> DEFINE n == size + q - 1
           d == n \div q   r == n % q
<1>1. n \in Nat
  OBVIOUS
<1>2. d \in Nat /\ r \in 0 .. q - 1 /\ r = n - q * d
  BY <1>1, Division
<1>3. n = size + q - 1
  OBVIOUS
<1> HIDE DEF d, r, n
<1>4. c < d => q * c < size
  <2> SUFFICES ASSUME d - c >= 1
               PROVE  q * c < size
    BY <1>2
  <2>1. q * (d - c) >= q
    BY <1>2
  <2>2. q * d >= q * c + q
    BY <1>2, <2>1
  <2> QED
    BY <1>1, <1>2, <1>3, <2>2
<1>5. q * c < size => c < d
  <2> SUFFICES ASSUME q * c < size, c - d >= 0
               PROVE  FALSE
    BY <1>2
  <2>1. q * (c - d) >= 0
    BY <1>2
  <2>2. q * c >= q * d
    BY <1>2, <2>1
  <2> QED
    BY <1>1, <1>2, <1>3, <2>2
<1>6. q * c = c * q
  OBVIOUS
<1> QED
  BY <1>2, <1>4, <1>5, <1>6 DEF d, n

=============================================================================
