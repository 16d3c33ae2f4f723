------------------------------ MODULE CodecProofs ------------------------------
(***************************************************************************)
(* Theorems about FieldCodec, LogBatches and ArrowTimestamps: keys are not *)
(* confused, rows and logs survive encoding, a log that was cut off is     *)
(* read as a whole number of batches or refused, and timestamps keep their *)
(* instant, to their precision.  They hold for bytes of any size from two  *)
(* bits, any width of integers, any number of fields and any values.       *)
(*                                                                         *)
(* What the codecs compute step by step is a function on 0 .. n.  Such a   *)
(* function is shown to exist (Recursion) or to be one that is given       *)
(* (SameSteps), and what holds of all its values is shown by their least   *)
(* exception (LeastNumber, UpTo).  At(w, off, c) is what decoding rests    *)
(* on: c is in w at off, whatever else there is.                           *)
(***************************************************************************)
EXTENDS LogBatches, ArrowTimestamps, FiniteSetTheorems, WellFoundedInduction, TLAPS

(* A set of numbers that is not empty has a least one. *)
LEMMA LeastNumber ==
  ASSUME NEW T, T \subseteq Nat, T # {}
  PROVE  \E n \in T : \A m \in T : ~(m < n)
<1> DEFINE R == {ss \in Nat \X Nat : ss[1] < ss[2]}
<1>1. \A x, y \in Nat : x < y => <<x, y>> \in R
  OBVIOUS
<1>2. IsWellFoundedOn(R, Nat)
  BY NatLessThanWellFounded DEF OpToRel
<1> HIDE DEF R
<1>3. \E x \in T : \A y \in T : ~ (<<y, x>> \in R)
  BY <1>2, WFMin
<1>4. QED
  BY <1>1, <1>3

(* What holds of zero, and after each number that it holds of, holds of    *)
(* all of 0 .. n: else there would be a least one that it fails for.       *)
LEMMA UpTo ==
  ASSUME NEW n \in Nat, NEW S, 0 \in S, \A i \in 0 .. n - 1 : i \in S => i + 1 \in S
  PROVE  \A i \in 0 .. n : i \in S
<1> SUFFICES ASSUME NEW j \in 0 .. n, j \notin S PROVE FALSE
  OBVIOUS
<1> DEFINE T == {i \in 0 .. n : i \notin S}
<1>1. T \subseteq Nat /\ T # {}
  OBVIOUS
<1>2. PICK i \in T : \A m \in T : ~(m < i)
  BY <1>1, LeastNumber
<1>3. i # 0 /\ i \in 0 .. n /\ i \notin S
  BY <1>2
<1>4. i - 1 \in 0 .. n - 1 /\ i - 1 < i /\ (i - 1) + 1 = i
  BY <1>3
<1>5. i - 1 \in S
  BY <1>2, <1>4
<1>6. QED
  BY <1>3, <1>4, <1>5

(* What is first c, and at each step what D says follows. *)
Stepwise(f, n, c, D) == f[0] = c /\ \A i \in 1 .. n : f[i] = D[<<f[i - 1], i>>]

(* A function on 0 .. n that is defined step by step exists: it starts at  *)
(* c, and D is what follows a value at each step.                          *)
LEMMA Recursion ==
  ASSUME NEW n \in Nat, NEW V, NEW c, c \in V,
         NEW D, D \in [V \X (1 .. n) -> V]
  PROVE  \E f : f \in [0 .. n -> V] /\ Stepwise(f, n, c, D)
<1> DEFINE Good(f, m) == f[0] = c /\ \A i \in 1 .. m : f[i] = D[<<f[i - 1], i>>]
           S == {m \in 0 .. n : \E f \in [0 .. m -> V] : Good(f, m)}
<1>1. 0 \in S
  <2> DEFINE g == [i \in 0 .. 0 |-> c]
  <2>1. g \in [0 .. 0 -> V] /\ g[0] = c /\ 0 \in 0 .. n /\ 1 .. 0 = {}
    OBVIOUS
  <2>2. QED
    BY <2>1
<1>2. ASSUME NEW m \in 0 .. n - 1, m \in S PROVE m + 1 \in S
  <2>1. PICK g \in [0 .. m -> V] : Good(g, m)
    BY <1>2
  <2>2. m \in Nat /\ m + 1 \in 0 .. n /\ m + 1 \in 1 .. n /\ m \in 0 .. m
    OBVIOUS
  <2> DEFINE e == D[<<g[m], m + 1>>]
             h == [i \in 0 .. m + 1 |-> IF i = m + 1 THEN e ELSE g[i]]
  <2>3. e \in V
    BY <2>2
  <2> HIDE DEF e
  <2>4. h \in [0 .. m + 1 -> V]
    BY <2>2, <2>3
  <2>5. /\ h[m + 1] = e
        /\ \A i \in 0 .. m : h[i] = g[i]
    BY <2>2
  <2> HIDE DEF h
  <2>6. h[0] = c
    BY <2>1, <2>2, <2>5
  <2>7. ASSUME NEW i \in 1 .. m + 1 PROVE h[i] = D[<<h[i - 1], i>>]
    <3>1. CASE i = m + 1
      BY <2>2, <2>5, <3>1 DEF e
    <3>2. CASE i \in 1 .. m
      <4>1. i \in 0 .. m /\ i - 1 \in 0 .. m
        BY <2>2, <3>2
      <4>2. QED
        BY <2>1, <2>5, <3>2, <4>1
    <3>3. QED
      BY <2>2, <3>1, <3>2
  <2>8. QED
    BY <2>2, <2>4, <2>6, <2>7
<1>3. n \in S
  <2> HIDE DEF S
  <2>1. \A i \in 0 .. n : i \in S
    BY <1>1, <1>2, UpTo
  <2>2. QED
    BY <2>1
<1>4. QED
  BY <1>3 DEF Stepwise

-------------------------------------------------------------------------------
(* Numbers and their digits *)

(* The powers of a number, one step up. *)
LEMMA PowerStep ==
  ASSUME NEW b \in Nat, NEW n \in Nat
  PROVE  Power(b, 0) = 1 /\ Power(b, n) \in Nat /\ Power(b, n + 1) = b * Power(b, n)
<1> DEFINE power(m) == CHOOSE f : f = [k \in 0 .. m |-> IF k = 0 THEN 1 ELSE b * f[k - 1]]
           Good(f, m) == /\ f \in [0 .. m -> Nat] /\ f[0] = 1
                         /\ \A k \in 1 .. m : f[k] = b * f[k - 1]
<1>1. ASSUME NEW m \in Nat PROVE Good(power(m), m)
  <2> DEFINE D == [vi \in Nat \X (1 .. m) |-> b * vi[1]]
             p == power(m)
  <2>1. D \in [Nat \X (1 .. m) -> Nat] /\ 1 \in Nat
    OBVIOUS
  <2>2. \A v \in Nat, k \in 1 .. m : D[<<v, k>>] = b * v
    OBVIOUS
  <2> HIDE DEF D
  <2>3. PICK f : f \in [0 .. m -> Nat] /\ Stepwise(f, m, 1, D)
    BY <2>1, Recursion
  <2>4. ASSUME NEW k \in 0 .. m PROVE f[k] = IF k = 0 THEN 1 ELSE b * f[k - 1]
    <3>1. CASE k # 0
      <4>1. k \in 1 .. m /\ f[k - 1] \in Nat
        BY <2>3, <3>1
      <4>2. QED
        BY <2>2, <2>3, <3>1, <4>1 DEF Stepwise
    <3>2. QED
      BY <2>3, <3>1 DEF Stepwise
  <2>5. f = [k \in 0 .. m |-> IF k = 0 THEN 1 ELSE b * f[k - 1]]
    <3>1. f = [k \in 0 .. m |-> f[k]]
      BY <2>3
    <3>2. QED
      BY <2>4, <3>1
  <2>6. p = [k \in 0 .. m |-> IF k = 0 THEN 1 ELSE b * p[k - 1]]
    BY <2>5
  <2> HIDE DEF p
  <2>7. p[0] = 1 /\ \A k \in 1 .. m : p[k] = b * p[k - 1]
    BY <2>6
  <2> DEFINE S == {k \in 0 .. m : p[k] \in Nat}
  <2>8. 0 \in S
    BY <2>7
  <2>9. ASSUME NEW k \in 0 .. m - 1, k \in S PROVE k + 1 \in S
    <3>1. k + 1 \in 1 .. m /\ k + 1 \in 0 .. m /\ (k + 1) - 1 = k
      OBVIOUS
    <3>2. QED
      BY <2>7, <2>9, <3>1
  <2>10. \A k \in 0 .. m : k \in S
    <3> HIDE DEF S
    <3>1. QED
      BY <2>8, <2>9, UpTo
  <2>11. p \in [0 .. m -> Nat]
    BY <2>6, <2>10
  <2>12. Good(p, m)
    BY <2>7, <2>11
  <2>13. QED
    BY <2>12 DEF p
<1>2. \A m \in Nat : Power(b, m) = power(m)[m]
  BY DEF Power
<1> HIDE DEF power
<1> DEFINE p == power(n)
           q == power(n + 1)
<1>3. Good(p, n) /\ Good(q, n + 1) /\ Good(power(0), 0)
  <2>1. n + 1 \in Nat /\ 0 \in Nat
    OBVIOUS
  <2> HIDE DEF Good
  <2>2. QED
    BY <1>1, <2>1
<1> HIDE DEF p, q
<1>4. p[n] = q[n]
  <2> DEFINE S == {i \in 0 .. n : p[i] = q[i]}
  <2>1. 0 \in S
    BY <1>3
  <2>2. ASSUME NEW i \in 0 .. n - 1, i \in S PROVE i + 1 \in S
    <3>1. i + 1 \in 1 .. n /\ i + 1 \in 1 .. n + 1 /\ i + 1 \in 0 .. n /\ (i + 1) - 1 = i
      OBVIOUS
    <3>2. p[i + 1] = b * p[i] /\ q[i + 1] = b * q[i]
      BY <1>3, <3>1
    <3>3. QED
      BY <2>2, <3>1, <3>2
  <2>3. \A i \in 0 .. n : i \in S
    <3> HIDE DEF S
    <3>1. QED
      BY <2>1, <2>2, UpTo
  <2>4. QED
    BY <2>3
<1>5. q[n + 1] = b * p[n] /\ p[n] \in Nat
  <2>1. n + 1 \in 1 .. n + 1 /\ (n + 1) - 1 = n /\ n \in 0 .. n
    OBVIOUS
  <2>2. QED
    BY <1>3, <1>4, <2>1
<1>6. Power(b, 0) = 1
  BY <1>2, <1>3
<1>7. Power(b, n) = p[n] /\ Power(b, n + 1) = q[n + 1]
  BY <1>2 DEF p, q
<1>8. QED
  BY <1>5, <1>6, <1>7

(* Powers are positive. *)
LEMMA PowerPositive ==
  ASSUME NEW b \in Nat, b >= 1, NEW n \in Nat
  PROVE  Power(b, n) \in Nat /\ Power(b, n) >= 1
<1> DEFINE S == {m \in 0 .. n : Power(b, m) \in Nat /\ Power(b, m) >= 1}
<1>1. 0 \in S
  BY PowerStep
<1>2. ASSUME NEW m \in 0 .. n - 1, m \in S PROVE m + 1 \in S
  <2>1. Power(b, m + 1) = b * Power(b, m) /\ Power(b, m) \in Nat /\ Power(b, m) >= 1
    BY <1>2, PowerStep
  <2>2. b * Power(b, m) \in Nat /\ b * Power(b, m) >= 1
    BY <2>1
  <2>3. QED
    BY <2>1, <2>2
<1>3. \A m \in 0 .. n : m \in S
  <2> HIDE DEF S
  <2>1. QED
    BY <1>1, <1>2, UpTo
<1>4. QED
  BY <1>3

(* A power of a sum of exponents. *)
LEMMA PowerSum ==
  ASSUME NEW b \in Nat, NEW m \in Nat, NEW n \in Nat
  PROVE  Power(b, m + n) = Power(b, m) * Power(b, n)
<1> DEFINE S == {k \in 0 .. n : Power(b, m + k) = Power(b, m) * Power(b, k)}
<1>0. \A k \in Nat : Power(b, 0) = 1 /\ Power(b, k) \in Nat /\ Power(b, k + 1) = b * Power(b, k)
  BY PowerStep
<1>1. 0 \in S
  <2>1. m + 0 = m
    OBVIOUS
  <2>2. QED
    BY <1>0, <2>1
<1>2. ASSUME NEW k \in 0 .. n - 1, k \in S PROVE k + 1 \in S
  <2> DEFINE p == Power(b, m)
             q == Power(b, k)
  <2>1. m + (k + 1) = (m + k) + 1 /\ m + k \in Nat /\ k \in Nat /\ k + 1 \in 0 .. n
    OBVIOUS
  <2>2. Power(b, m + (k + 1)) = b * (p * q) /\ Power(b, k + 1) = b * q /\ p \in Nat /\ q \in Nat
    BY <1>0, <1>2, <2>1
  <2> HIDE DEF p, q
  <2>3. b * (p * q) = p * (b * q)
    BY <2>2
  <2>4. QED
    BY <2>1, <2>2, <2>3 DEF p
<1>3. \A k \in 0 .. n : k \in S
  <2> HIDE DEF S
  <2>1. QED
    BY <1>1, <1>2, UpTo
<1>4. QED
  BY <1>3

(* A power of a power. *)
LEMMA PowerProduct ==
  ASSUME NEW b \in Nat, NEW m \in Nat, NEW n \in Nat
  PROVE  Power(Power(b, m), n) = Power(b, m * n)
<1> DEFINE c == Power(b, m)
           S == {k \in 0 .. n : Power(c, k) = Power(b, m * k)}
<1>0. c \in Nat /\ Power(b, 0) = 1
  BY PowerStep
<1>1. 0 \in S
  <2>1. m * 0 = 0
    OBVIOUS
  <2> HIDE DEF c
  <2>2. Power(c, 0) = 1
    BY <1>0, PowerStep
  <2>3. QED
    BY <1>0, <2>1, <2>2
<1>2. ASSUME NEW k \in 0 .. n - 1, k \in S PROVE k + 1 \in S
  <2>1. m * (k + 1) = m + m * k /\ m * k \in Nat /\ k \in Nat /\ k + 1 \in 0 .. n
    OBVIOUS
  <2>2. Power(b, m + m * k) = c * Power(b, m * k)
    BY <2>1, PowerSum
  <2> HIDE DEF c
  <2>3. Power(c, k + 1) = c * Power(c, k)
    BY <1>0, <2>1, PowerStep
  <2>4. Power(c, k + 1) = Power(b, m * (k + 1))
    BY <1>2, <2>1, <2>2, <2>3
  <2>5. QED
    BY <2>1, <2>4
<1>3. \A k \in 0 .. n : k \in S
  <2> HIDE DEF S
  <2>1. QED
    BY <1>1, <1>2, UpTo
<1>4. QED
  BY <1>3

(* Powers do not decrease with the exponent. *)
LEMMA PowerGrows ==
  ASSUME NEW b \in Nat, b >= 1, NEW m \in Nat, NEW n \in Nat, m <= n
  PROVE  Power(b, m) <= Power(b, n)
<1> DEFINE p == Power(b, m)
           q == Power(b, n - m)
<1>1. n - m \in Nat /\ m + (n - m) = n
  OBVIOUS
<1>2. Power(b, n) = p * q
  BY <1>1, PowerSum
<1>3. p \in Nat /\ p >= 1 /\ q \in Nat /\ q >= 1
  BY <1>1, PowerPositive
<1> HIDE DEF p, q
<1>4. p <= p * q
  BY <1>3
<1>5. QED
  BY <1>2, <1>4 DEF p

(* A power of two or more is above its exponent. *)
LEMMA PowerAbove ==
  ASSUME NEW b \in Nat, b >= 2, NEW n \in Nat
  PROVE  n < Power(b, n)
<1> DEFINE S == {m \in 0 .. n : m < Power(b, m)}
<1>1. 0 \in S
  BY PowerStep
<1>2. ASSUME NEW m \in 0 .. n - 1, m \in S PROVE m + 1 \in S
  <2> DEFINE p == Power(b, m)
  <2>1. Power(b, m + 1) = b * p /\ p \in Nat /\ m < p
    BY <1>2, PowerStep
  <2> HIDE DEF p
  <2>2. b * p >= 2 * p
    BY <2>1
  <2>3. QED
    BY <2>1, <2>2
<1>3. \A m \in 0 .. n : m \in S
  <2> HIDE DEF S
  <2>1. QED
    BY <1>1, <1>2, UpTo
<1>4. QED
  BY <1>3

(* How many digits a number has. *)
LEMMA DigitCountIs ==
  ASSUME NEW u \in Nat, NEW b \in Nat, b >= 2
  PROVE  /\ DigitCount(u, b) \in 0 .. u
         /\ u < Power(b, DigitCount(u, b))
         /\ DigitCount(u, b) = 0 \/ Power(b, DigitCount(u, b) - 1) <= u
<1> DEFINE T == {n \in 0 .. u : u < Power(b, n)}
<1>1. u \in T
  BY PowerAbove
<1>2. PICK n \in T : \A m \in T : ~(m < n)
  <2>1. T \subseteq Nat /\ T # {}
    BY <1>1
  <2> HIDE DEF T
  <2>2. QED
    BY <2>1, LeastNumber
<1>3. n = 0 \/ Power(b, n - 1) <= u
  <2>1. SUFFICES ASSUME n # 0 PROVE Power(b, n - 1) <= u
    OBVIOUS
  <2>2. n - 1 \in 0 .. u /\ n - 1 < n /\ n - 1 \in Nat
    BY <2>1
  <2>3. Power(b, n - 1) \in Nat
    BY <2>2, PowerStep
  <2>4. ~(u < Power(b, n - 1))
    BY <1>2, <2>2
  <2>5. QED
    BY <2>3, <2>4
<1>4. \E m \in 0 .. u : u < Power(b, m) /\ (m = 0 \/ Power(b, m - 1) <= u)
  BY <1>2, <1>3
<1>5. QED
  BY <1>4 DEF DigitCount

(* The base of bytes, and that of variable-length integers. *)
LEMMA Bases ==
  /\ Bits \in Nat /\ Bits >= 2 /\ W32 \in Nat /\ W64 \in Nat /\ W32 >= 1 /\ W64 >= W32
  /\ Half \in Nat /\ Half >= 2 /\ Base \in Nat /\ Base >= 4 /\ Base = 2 * Half
<1>1. Bits \in Nat /\ Bits >= 2 /\ W32 \in Nat /\ W64 \in Nat /\ W32 >= 1 /\ W64 >= W32
  BY FieldCodecAssumption
<1>2. Bits - 1 \in Nat /\ Bits - 2 \in Nat /\ (Bits - 2) + 1 = Bits - 1 /\ (Bits - 1) + 1 = Bits
  BY <1>1
<1>3. Power(2, Bits - 2) \in Nat /\ Power(2, Bits - 2) >= 1
  BY <1>2, PowerPositive
<1>4. Half = 2 * Power(2, Bits - 2)
  BY <1>2, PowerStep DEF Half
<1>5. Base = 2 * Half
  BY <1>2, PowerStep DEF Half, Base
<1>6. QED
  BY <1>1, <1>3, <1>4, <1>5

(* Division: the quotient and the remainder are what they say, and nothing *)
(* else is.                                                                *)
LEMMA Division ==
  ASSUME NEW v \in Int, NEW b \in Nat, b >= 1
  PROVE  /\ v \div b \in Int /\ v % b \in 0 .. b - 1
         /\ v = (v \div b) * b + (v % b)
         /\ v \in Nat => v \div b \in Nat
OBVIOUS

(* What a number is divided into is its quotient and its remainder. *)
LEMMA QuotientIs ==
  ASSUME NEW v \in Int, NEW b \in Nat, b >= 1, NEW q \in Int, NEW r \in 0 .. b - 1, v = q * b + r
  PROVE  v \div b = q /\ v % b = r
<1> DEFINE k == v \div b
           s == v % b
<1>1. k \in Int /\ s \in 0 .. b - 1 /\ v = k * b + s
  BY Division
<1> HIDE DEF k, s
<1>2. \A x, y \in Int : x >= y + 1 => x * b >= y * b + b
  <2>1. ASSUME NEW x \in Int, NEW y \in Int, x >= y + 1 PROVE x * b >= y * b + b
    <3>1. x * b >= (y + 1) * b
      BY <2>1
    <3>2. (y + 1) * b = y * b + b
      OBVIOUS
    <3>3. QED
      BY <3>1, <3>2
  <2>2. QED
    BY <2>1
<1>3. k * b \in Int /\ q * b \in Int
  BY <1>1
<1>4. ~(k >= q + 1)
  BY <1>1, <1>2, <1>3
<1>5. ~(q >= k + 1)
  BY <1>1, <1>2, <1>3
<1>6. k = q
  BY <1>1, <1>4, <1>5
<1>7. s = r
  BY <1>1, <1>6
<1>8. QED
  BY <1>6, <1>7 DEF k, s

(* A number less than b is its own remainder. *)
LEMMA Small ==
  ASSUME NEW b \in Nat, b >= 1, NEW v \in 0 .. b - 1
  PROVE  v % b = v /\ v \div b = 0
<1>1. v = 0 * b + v
  OBVIOUS
<1>2. QED
  BY <1>1, QuotientIs

(* A remainder by p * b: that by p, and the next digit. *)
LEMMA NextDigit ==
  ASSUME NEW v \in Int, NEW p \in Nat, p >= 1, NEW b \in Nat, b >= 1
  PROVE  v % (p * b) = (v % p) + ((v \div p) % b) * p
<1> DEFINE q == v \div p
           r == v % p
           d == q % b
           k == q \div b
<1>1. q \in Int /\ r \in 0 .. p - 1 /\ v = q * p + r
  BY Division
<1>2. d \in 0 .. b - 1 /\ k \in Int /\ q = k * b + d
  BY <1>1, Division
<1> HIDE DEF q, r, d, k
<1>3. v = k * (p * b) + (r + d * p)
  <2>1. q * p = (k * b + d) * p
    BY <1>2
  <2>2. (k * b + d) * p = k * (p * b) + d * p
    BY <1>2, <1>1
  <2>3. k * (p * b) \in Int /\ d * p \in Int
    BY <1>2, <1>1
  <2>4. QED
    BY <1>1, <2>1, <2>2, <2>3
<1>4. r + d * p \in 0 .. (p * b) - 1
  <2>1. d * p >= 0 /\ d * p <= (b - 1) * p
    BY <1>2
  <2>2. (b - 1) * p = (p * b) - p /\ d * p \in Int /\ p * b \in Nat
    BY <1>2
  <2>3. QED
    BY <1>1, <2>1, <2>2
<1>5. p * b \in Nat /\ p * b >= 1
  OBVIOUS
<1>6. v % (p * b) = r + d * p
  BY <1>2, <1>3, <1>4, <1>5, QuotientIs
<1>7. QED
  BY <1>6 DEF r, d, q

(* The number of some digits, one digit after the other. *)
LEMMA NumberStep ==
  ASSUME NEW b \in Nat, b >= 1, NEW digits \in Seq(Int)
  PROVE  \E f : /\ f \in [0 .. Len(digits) -> Nat] /\ f[0] = 0
                /\ \A i \in 1 .. Len(digits) : f[i] = f[i - 1] + (digits[i] % b) * Power(b, i - 1)
                /\ Number(digits, b) = f[Len(digits)]
<1> DEFINE n == Len(digits)
           d(i) == (digits[i] % b) * Power(b, i - 1)
           f == CHOOSE g : g = [i \in 0 .. n |-> IF i = 0 THEN 0 ELSE g[i - 1] + d(i)]
<1>0. n \in Nat
  OBVIOUS
<1>1. Number(digits, b) = f[n]
  BY DEF Number
<1>2. \A i \in 1 .. n : d(i) \in Nat
  <2>1. SUFFICES ASSUME NEW i \in 1 .. n PROVE d(i) \in Nat
    OBVIOUS
  <2>2. digits[i] \in Int /\ i - 1 \in Nat
    OBVIOUS
  <2>3. Power(b, i - 1) \in Nat
    BY <2>2, PowerStep
  <2>4. digits[i] % b \in Nat
    BY <2>2
  <2>5. QED
    BY <2>3, <2>4
<1> HIDE DEF d, n
<1> DEFINE D == [vi \in Nat \X (1 .. n) |-> vi[1] + d(vi[2])]
<1>3. D \in [Nat \X (1 .. n) -> Nat] /\ 0 \in Nat
  <2>1. ASSUME NEW vi \in Nat \X (1 .. n) PROVE vi[1] + d(vi[2]) \in Nat
    <3>1. vi[1] \in Nat /\ vi[2] \in 1 .. n
      OBVIOUS
    <3>2. d(vi[2]) \in Nat
      BY <1>2, <3>1
    <3>3. QED
      BY <3>1, <3>2
  <2>2. QED
    BY <2>1
<1>4. \A v \in Nat, i \in 1 .. n : D[<<v, i>>] = v + d(i)
  OBVIOUS
<1> HIDE DEF D
<1>5. PICK h : h \in [0 .. n -> Nat] /\ Stepwise(h, n, 0, D)
  BY <1>0, <1>3, Recursion
<1>6. ASSUME NEW i \in 0 .. n PROVE h[i] = IF i = 0 THEN 0 ELSE h[i - 1] + d(i)
  <2>1. CASE i # 0
    <3>1. i \in 1 .. n /\ h[i - 1] \in Nat
      BY <1>0, <1>5, <2>1
    <3>2. QED
      BY <1>4, <1>5, <2>1, <3>1 DEF Stepwise
  <2>2. QED
    BY <1>5, <2>1 DEF Stepwise
<1>7. h = [i \in 0 .. n |-> IF i = 0 THEN 0 ELSE h[i - 1] + d(i)]
  <2>1. h = [i \in 0 .. n |-> h[i]]
    BY <1>5
  <2>2. QED
    BY <1>6, <2>1
<1>8. f = [i \in 0 .. n |-> IF i = 0 THEN 0 ELSE f[i - 1] + d(i)]
  BY <1>7
<1> HIDE DEF f
<1>9. f[0] = 0 /\ \A i \in 1 .. n : f[i] = f[i - 1] + d(i)
  BY <1>0, <1>8
<1> DEFINE S == {i \in 0 .. n : f[i] \in Nat}
<1>10. 0 \in S
  BY <1>0, <1>9
<1>11. ASSUME NEW i \in 0 .. n - 1, i \in S PROVE i + 1 \in S
  <2>1. i + 1 \in 1 .. n /\ i + 1 \in 0 .. n /\ (i + 1) - 1 = i
    BY <1>0
  <2>2. QED
    BY <1>2, <1>9, <1>11, <2>1
<1>12. \A i \in 0 .. n : i \in S
  <2> HIDE DEF S
  <2>1. QED
    BY <1>0, <1>10, <1>11, UpTo
<1>13. f \in [0 .. n -> Nat]
  BY <1>8, <1>12
<1>14. QED
  BY <1>1, <1>9, <1>13 DEF d, n

(* The number of the first digits of u is u, but for what they are not     *)
(* enough for.                                                             *)
LEMMA NumberOfDigits ==
  ASSUME NEW b \in Nat, b >= 1, NEW u \in Int, NEW digits \in Seq(Int),
         \A i \in 1 .. Len(digits) : digits[i] % b = Digit(u, b, i)
  PROVE  Number(digits, b) = u % Power(b, Len(digits))
<1> DEFINE n == Len(digits)
<1>0. n \in Nat
  OBVIOUS
<1>1. PICK f : /\ f \in [0 .. n -> Nat] /\ f[0] = 0
               /\ \A i \in 1 .. n : f[i] = f[i - 1] + (digits[i] % b) * Power(b, i - 1)
               /\ Number(digits, b) = f[n]
  BY NumberStep
<1>2. \A i \in 1 .. n : digits[i] % b = Digit(u, b, i)
  OBVIOUS
<1> HIDE DEF n
<1> DEFINE S == {i \in 0 .. n : f[i] = u % Power(b, i)}
<1>3. 0 \in S
  <2>1. Power(b, 0) = 1 /\ u % 1 = 0
    BY PowerStep
  <2>2. QED
    BY <1>0, <1>1, <2>1
<1>4. ASSUME NEW i \in 0 .. n - 1, i \in S PROVE i + 1 \in S
  <2>1. i \in Nat /\ i + 1 \in 1 .. n /\ i + 1 \in 0 .. n /\ (i + 1) - 1 = i
    BY <1>0
  <2> DEFINE p == Power(b, i)
  <2>2. p \in Nat /\ p >= 1 /\ Power(b, i + 1) = b * p
    BY <2>1, PowerPositive, PowerStep
  <2>3. f[i + 1] = f[i] + ((u \div p) % b) * p
    BY <1>1, <1>2, <2>1 DEF Digit
  <2>4. f[i] = u % p
    BY <1>4
  <2> HIDE DEF p
  <2>5. u % (p * b) = (u % p) + ((u \div p) % b) * p
    BY <2>2, NextDigit
  <2>6. p * b = b * p
    BY <2>2
  <2>7. f[i + 1] = u % Power(b, i + 1)
    BY <2>2, <2>3, <2>4, <2>5, <2>6
  <2>8. QED
    BY <2>1, <2>7
<1>5. \A i \in 0 .. n : i \in S
  <2> HIDE DEF S
  <2>1. QED
    BY <1>0, <1>3, <1>4, UpTo
<1>6. QED
  BY <1>0, <1>1, <1>5 DEF n

-------------------------------------------------------------------------------
(* Bytes, and integers as bytes *)

(* A byte. *)
Byte == 0 .. Base - 1

(* Where in w the bytes c are. *)
At(w, off, c) == off + Len(c) <= Len(w) /\ \A i \in 1 .. Len(c) : w[off + i] = c[i]

(* Two sequences joined. *)
LEMMA Joined ==
  ASSUME NEW S, NEW a \in Seq(S), NEW b \in Seq(S)
  PROVE  a \o b \in Seq(S) /\ Len(a \o b) = Len(a) + Len(b)
OBVIOUS

(* The bytes found somewhere are the subsequence there. *)
LEMMA AtSub ==
  ASSUME NEW S, NEW w \in Seq(S), NEW c \in Seq(S), NEW off \in Nat, At(w, off, c)
  PROVE  SubSeq(w, off + 1, off + Len(c)) = c
<1> DEFINE s == SubSeq(w, off + 1, off + Len(c))
<1>1. off + Len(c) <= Len(w) /\ Len(c) \in Nat /\ \A i \in 1 .. Len(c) : w[off + i] = c[i]
  BY DEF At
<1>2. s \in Seq(S) /\ Len(s) = Len(c)
  BY <1>1
<1>3. \A i \in 1 .. Len(c) : s[i] = w[off + i]
  BY <1>1
<1> HIDE DEF s
<1>4. \A i \in 1 .. Len(c) : s[i] = c[i]
  BY <1>1, <1>3
<1>5. s = c
  BY <1>2, <1>4
<1>6. QED
  BY <1>5 DEF s

(* What is found further on is found in what comes after. *)
LEMMA AtAfter ==
  ASSUME NEW S, NEW w \in Seq(S), NEW c \in Seq(S), NEW off \in Nat, NEW more \in Nat,
         At(w, off + more, c)
  PROVE  /\ After(w, off) \in Seq(S) /\ Len(After(w, off)) = Len(w) - off
         /\ At(After(w, off), more, c)
<1> DEFINE s == After(w, off)
<1>1. /\ off + more + Len(c) <= Len(w) /\ Len(c) \in Nat /\ Len(w) \in Nat
      /\ \A i \in 1 .. Len(c) : w[off + more + i] = c[i]
  BY DEF At
<1>2. s \in Seq(S) /\ Len(s) = Len(w) - off
  BY <1>1 DEF After
<1>3. \A i \in 1 .. Len(w) - off : s[i] = w[off + i]
  BY <1>1 DEF After
<1> HIDE DEF s
<1>4. ASSUME NEW i \in 1 .. Len(c) PROVE s[more + i] = c[i]
  <2>1. more + i \in 1 .. Len(w) - off /\ off + (more + i) = off + more + i
    BY <1>1
  <2>2. QED
    BY <1>1, <1>3, <2>1
<1>5. At(s, more, c)
  BY <1>1, <1>2, <1>4 DEF At
<1>6. QED
  BY <1>2, <1>5 DEF s

(* Two sequences one after the other. *)
LEMMA AtConcat ==
  ASSUME NEW S, NEW a \in Seq(S), NEW b \in Seq(S), NEW w \in Seq(S), NEW off \in Nat
  PROVE  At(w, off, a \o b) <=> At(w, off, a) /\ At(w, off + Len(a), b)
<1> DEFINE c == a \o b
<1>1. c \in Seq(S) /\ Len(c) = Len(a) + Len(b) /\ Len(a) \in Nat /\ Len(b) \in Nat /\ Len(w) \in Nat
  OBVIOUS
<1>2. \A i \in 1 .. Len(a) : c[i] = a[i]
  OBVIOUS
<1>3. \A i \in 1 .. Len(b) : c[Len(a) + i] = b[i]
  OBVIOUS
<1> HIDE DEF c
<1>4. ASSUME At(w, off, c) PROVE At(w, off, a) /\ At(w, off + Len(a), b)
  <2>1. off + Len(c) <= Len(w) /\ \A i \in 1 .. Len(c) : w[off + i] = c[i]
    BY <1>4 DEF At
  <2>2. ASSUME NEW i \in 1 .. Len(a) PROVE w[off + i] = a[i]
    <3>1. i \in 1 .. Len(c)
      BY <1>1
    <3>2. QED
      BY <1>2, <2>1, <3>1
  <2>3. ASSUME NEW i \in 1 .. Len(b) PROVE w[off + Len(a) + i] = b[i]
    <3>1. Len(a) + i \in 1 .. Len(c) /\ off + Len(a) + i = off + (Len(a) + i)
      BY <1>1
    <3>2. QED
      BY <1>3, <2>1, <3>1
  <2>4. QED
    BY <1>1, <2>1, <2>2, <2>3 DEF At
<1>5. ASSUME At(w, off, a), At(w, off + Len(a), b) PROVE At(w, off, c)
  <2>1. /\ off + Len(a) + Len(b) <= Len(w)
        /\ \A i \in 1 .. Len(a) : w[off + i] = a[i]
        /\ \A i \in 1 .. Len(b) : w[off + Len(a) + i] = b[i]
    BY <1>5 DEF At
  <2>2. ASSUME NEW i \in 1 .. Len(c) PROVE w[off + i] = c[i]
    <3>1. CASE i \in 1 .. Len(a)
      BY <1>2, <2>1, <3>1
    <3>2. CASE i > Len(a)
      <4>1. i - Len(a) \in 1 .. Len(b) /\ Len(a) + (i - Len(a)) = i /\ off + Len(a) + (i - Len(a)) = off + i
        BY <1>1, <3>2
      <4>2. QED
        BY <1>3, <2>1, <4>1
    <3>3. QED
      BY <1>1, <3>1, <3>2
  <2>3. QED
    BY <1>1, <2>1, <2>2 DEF At
<1>6. QED
  BY <1>4, <1>5 DEF c

(* Bytes are found at their own start. *)
LEMMA AtWhole == ASSUME NEW S, NEW w \in Seq(S) PROVE At(w, 0, w)
BY DEF At

(* The first of a sequence that passes a test. *)
LEMMA FirstSmall ==
  ASSUME NEW bytes \in Seq(Int), NEW n \in 1 .. Len(bytes), bytes[n] < Half,
         \A i \in 1 .. n - 1 : ~(bytes[i] < Half)
  PROVE  SelectInSeq(bytes, LAMBDA b : b < Half) = n
<1> DEFINE I == {i \in 1 .. Len(bytes) : bytes[i] < Half}
<1>1. n \in I /\ \A m \in I : n <= m
  <2>1. ASSUME NEW m \in I PROVE n <= m
    <3>1. m \in 1 .. Len(bytes) /\ bytes[m] < Half
      OBVIOUS
    <3>2. ~(m \in 1 .. n - 1)
      BY <3>1
    <3>3. QED
      BY <3>1, <3>2
  <2>2. QED
    BY <2>1
<1>2. I \subseteq Int
  OBVIOUS
<1>3. SelectInSeq(bytes, LAMBDA b : b < Half) = IF I # {} THEN CHOOSE x \in I : \A y \in I : x <= y ELSE 0
  BY DEF SelectInSeq, Min
<1> HIDE DEF I
<1>4. \A x \in I : (\A y \in I : x <= y) => x = n
  BY <1>1, <1>2
<1>5. (CHOOSE x \in I : \A y \in I : x <= y) = n
  BY <1>1, <1>4
<1>6. QED
  BY <1>1, <1>3, <1>5

(* A sequence of some things is one of more things. *)
LEMMA SeqSubset ==
  ASSUME NEW S, NEW T, S \subseteq T, NEW s \in Seq(S)
  PROVE  s \in Seq(T) /\ \A i \in 1 .. Len(s) : s[i] \in T
<1>1. Len(s) \in Nat /\ DOMAIN s = 1 .. Len(s) /\ s = [i \in 1 .. Len(s) |-> s[i]]
  OBVIOUS
<1>2. \A i \in 1 .. Len(s) : s[i] \in T
  OBVIOUS
<1>3. QED
  BY <1>1, <1>2

(* Each byte is a digit, and the last alone is small. *)
LEMMA UvarintBytes ==
  ASSUME NEW u \in Nat
  PROVE  \E n \in Nat :
           /\ n >= 1 /\ Uvarint(u) \in Seq(Byte) /\ Len(Uvarint(u)) = n
           /\ Uvarint(u)[n] < Half /\ \A i \in 1 .. n - 1 : ~(Uvarint(u)[i] < Half)
           /\ \A i \in 1 .. n : Uvarint(u)[i] % Half = Digit(u, Half, i)
           /\ u < Power(Half, n) /\ (n = 1 \/ Power(Half, n - 1) <= u)
<1> DEFINE n == IF u = 0 THEN 1 ELSE DigitCount(u, Half)
           c == Uvarint(u)
<1>0. Half \in Nat /\ Half >= 2 /\ Half >= 1 /\ Base = 2 * Half
  BY Bases
<1>1. n \in Nat /\ n >= 1 /\ u < Power(Half, n) /\ (n = 1 \/ Power(Half, n - 1) <= u)
  <2>1. CASE u = 0
    <3>1. n = 1 /\ 1 \in Nat
      BY <2>1
    <3>2. Power(Half, 1) \in Nat /\ Power(Half, 1) >= 1
      BY <1>0, <3>1, PowerPositive
    <3>3. QED
      BY <2>1, <3>1, <3>2
  <2>2. CASE u # 0
    <3>1. n \in 0 .. u /\ u < Power(Half, n) /\ (n = 0 \/ Power(Half, n - 1) <= u)
      BY <1>0, <2>2, DigitCountIs
    <3>2. n # 0
      <4>1. Power(Half, 0) = 1
        BY <1>0, PowerStep
      <4>2. QED
        BY <2>2, <3>1, <4>1
    <3> HIDE DEF n
    <3>3. QED
      BY <3>1, <3>2
  <2>3. QED
    BY <2>1, <2>2
<1>2. c = [i \in 1 .. n |-> Digit(u, Half, i) + (IF i < n THEN Half ELSE 0)]
  BY DEF Uvarint
<1> HIDE DEF n, c
<1>3. ASSUME NEW i \in 1 .. n PROVE Digit(u, Half, i) \in 0 .. Half - 1
  <2>1. i - 1 \in Nat
    BY <1>1
  <2> DEFINE p == Power(Half, i - 1)
  <2>2. p \in Nat /\ p >= 1
    BY <1>0, <2>1, PowerPositive
  <2> HIDE DEF p
  <2>3. u \div p \in Int
    BY <2>2, Division
  <2>4. (u \div p) % Half \in 0 .. Half - 1
    BY <1>0, <2>3, Division
  <2>5. QED
    BY <2>4 DEF Digit, p
<1>4. ASSUME NEW i \in 1 .. n
      PROVE  c[i] \in Byte /\ (i < n => ~(c[i] < Half)) /\ (i = n => c[i] < Half) /\ c[i] % Half = Digit(u, Half, i)
  <2> DEFINE d == Digit(u, Half, i)
  <2>1. d \in 0 .. Half - 1 /\ c[i] = d + (IF i < n THEN Half ELSE 0)
    BY <1>2, <1>3
  <2> HIDE DEF d
  <2>2. CASE i < n
    <3>1. c[i] = d + Half /\ c[i] = 1 * Half + d /\ c[i] \in Int
      BY <1>0, <2>1, <2>2
    <3>2. c[i] % Half = d
      BY <1>0, <2>1, <3>1, QuotientIs
    <3>3. QED
      BY <1>0, <1>1, <2>1, <2>2, <3>1, <3>2 DEF d, Byte
  <2>3. CASE ~(i < n)
    <3>1. c[i] = d
      BY <1>0, <2>1, <2>3
    <3>2. d % Half = d
      BY <1>0, <2>1, Small
    <3>3. QED
      BY <1>0, <1>1, <2>1, <2>3, <3>1, <3>2 DEF d, Byte
  <2>4. QED
    BY <2>2, <2>3
<1>5. c \in Seq(Byte) /\ Len(c) = n
  BY <1>1, <1>2, <1>4
<1>6. c[n] < Half /\ \A i \in 1 .. n - 1 : ~(c[i] < Half)
  <2>1. n \in 1 .. n /\ \A i \in 1 .. n - 1 : i \in 1 .. n /\ i < n
    BY <1>1
  <2>2. QED
    BY <1>4, <2>1
<1>7. QED
  BY <1>1, <1>4, <1>5, <1>6 DEF c

(* Integers of 64 bits take at most MaxVarintLen bytes. *)
LEMMA UvarintLength ==
  ASSUME NEW u \in Nat, u < Power(Base, W64)
  PROVE  Len(Uvarint(u)) \in 1 .. MaxVarintLen
<1>1. PICK n \in Nat : n >= 1 /\ Len(Uvarint(u)) = n /\ (n = 1 \/ Power(Half, n - 1) <= u)
  BY UvarintBytes
<1>2. Bits \in Nat /\ Bits >= 2 /\ W64 \in Nat /\ W64 >= 1
  BY Bases
<1> DEFINE b == Bits - 1
           x == Bits * W64 + Bits - 2
           m == x \div b
<1>3. MaxVarintLen = m
  BY DEF MaxVarintLen
<1>4. b \in Nat /\ b >= 1 /\ Bits = b + 1 /\ Bits * W64 \in Nat /\ Bits * W64 >= Bits
  <2>1. Bits * W64 >= Bits
    BY <1>2
  <2>2. QED
    BY <1>2, <2>1
<1>5. x = Bits * W64 + (b - 1) /\ x \in Nat
  BY <1>4
<1>6. m \in Nat /\ x = m * b + (x % b) /\ x % b \in 0 .. b - 1
  <2>1. x \in Int /\ x \in Nat /\ b \in Nat /\ b >= 1
    BY <1>4, <1>5
  <2> HIDE DEF x, b
  <2>2. QED
    BY <2>1, Division
<1>7. m * b >= Bits * W64
  <2> HIDE DEF x, m, b
  <2>1. m * b \in Nat
    BY <1>4, <1>6
  <2>2. QED
    BY <1>4, <1>5, <1>6, <2>1
<1>8. m >= 1
  <2> HIDE DEF x, m, b
  <2>1. SUFFICES ASSUME m = 0 PROVE FALSE
    BY <1>6
  <2>2. m * b = 0
    BY <1>4, <2>1
  <2>3. QED
    BY <1>2, <1>4, <1>7, <2>2
<1> HIDE DEF x, m
<1>9. Power(Half, m) = Power(2, b * m)
  <2> HIDE DEF b
  <2>1. Half = Power(2, b)
    BY DEF Half, b
  <2>2. Power(Power(2, b), m) = Power(2, b * m)
    BY <1>4, <1>6, PowerProduct
  <2>3. QED
    BY <2>1, <2>2
<1>10. Power(Base, W64) = Power(2, Bits * W64)
  BY <1>2, PowerProduct DEF Base
<1> HIDE DEF b
<1>11. b * m = m * b /\ b * m \in Nat
  BY <1>4, <1>6
<1>12. Power(Base, W64) <= Power(Half, m)
  BY <1>4, <1>7, <1>9, <1>10, <1>11, PowerGrows
<1>13. n <= m
  <2>1. SUFFICES ASSUME n >= m + 1 PROVE FALSE
    BY <1>1, <1>6
  <2>2. n # 1 /\ n - 1 \in Nat /\ m <= n - 1
    BY <1>1, <1>6, <1>8, <2>1
  <2>3. Half \in Nat /\ Half >= 1 /\ Base \in Nat
    BY Bases
  <2>4. Power(Half, m) <= Power(Half, n - 1)
    BY <1>6, <2>2, <2>3, PowerGrows
  <2>5. Power(Half, m) \in Nat /\ Power(Half, n - 1) \in Nat /\ Power(Base, W64) \in Nat
    BY <1>2, <1>6, <2>2, <2>3, PowerStep
  <2>6. QED
    BY <1>1, <1>12, <2>2, <2>4, <2>5
<1>14. QED
  BY <1>1, <1>3, <1>6, <1>13

(* What was written as an integer of variable length is read as it was,    *)
(* whatever comes after it.                                                *)
LEMMA ReadUvarintAt ==
  ASSUME NEW u \in Nat, u < Power(Base, W64), NEW bytes \in Seq(Byte), At(bytes, 0, Uvarint(u))
  PROVE  ReadUvarint(bytes) = [value |-> u, size |-> Len(Uvarint(u))]
<1> DEFINE c == Uvarint(u)
<1>1. PICK n \in Nat :
           /\ n >= 1 /\ c \in Seq(Byte) /\ Len(c) = n
           /\ c[n] < Half /\ \A i \in 1 .. n - 1 : ~(c[i] < Half)
           /\ \A i \in 1 .. n : c[i] % Half = Digit(u, Half, i)
           /\ u < Power(Half, n)
  BY UvarintBytes
<1>2. n \in 1 .. MaxVarintLen
  BY <1>1, UvarintLength
<1>3. Half \in Nat /\ Half >= 1 /\ Byte \subseteq Int
  BY Bases DEF Byte
<1>4. SubSeq(bytes, 1, n) = c
  <2> HIDE DEF c
  <2>1. At(bytes, 0, c)
    BY DEF c
  <2>2. SubSeq(bytes, 0 + 1, 0 + Len(c)) = c
    BY <1>1, <2>1, AtSub
  <2>3. QED
    BY <1>1, <2>2
<1>5. SelectInSeq(bytes, LAMBDA b : b < Half) = n
  <2> HIDE DEF c
  <2>1. n <= Len(bytes) /\ \A i \in 1 .. n : bytes[i] = c[i]
    BY <1>1 DEF At, c
  <2>2. bytes \in Seq(Int)
    BY <1>3, SeqSubset
  <2>3. n \in 1 .. Len(bytes) /\ bytes[n] < Half /\ \A i \in 1 .. n - 1 : ~(bytes[i] < Half)
    BY <1>1, <2>1
  <2>4. QED
    BY <2>2, <2>3, FirstSmall
<1> HIDE DEF c
<1>6. Number(c, Half) = u
  <2>1. c \in Seq(Int)
    BY <1>1, <1>3, SeqSubset
  <2>2. Number(c, Half) = u % Power(Half, Len(c))
    <3>1. \A i \in 1 .. Len(c) : c[i] % Half = Digit(u, Half, i)
      BY <1>1
    <3>2. u \in Int /\ Half \in Nat /\ Half >= 1
      BY <1>3
    <3>3. QED
      BY <2>1, <3>1, <3>2, NumberOfDigits
  <2>3. Power(Half, n) \in Nat /\ Power(Half, n) >= 1
    BY <1>3, PowerPositive
  <2>4. u \in 0 .. Power(Half, n) - 1
    BY <1>1, <2>3
  <2>5. QED
    BY <1>1, <2>2, <2>3, <2>4, Small
<1>7. First(bytes, n) = c
  BY <1>4 DEF First
<1>8. QED
  BY <1>1, <1>2, <1>5, <1>6, <1>7 DEF ReadUvarint, UvarintUpTo, c

(* An integer's bytes, and its number modulo what they hold. *)
LEMMA FixedBytes ==
  ASSUME NEW v \in Int, NEW width \in Nat
  PROVE  /\ Fixed(v, width) \in Seq(Byte) /\ Len(Fixed(v, width)) = width
         /\ Unsigned(Fixed(v, width)) = v % Power(Base, width)
<1> DEFINE c == Fixed(v, width)
<1>0. Base \in Nat /\ Base >= 1 /\ Byte \subseteq Int
  BY Bases DEF Byte
<1>1. c = [i \in 1 .. width |-> Digit(v, Base, i)]
  BY DEF Fixed
<1>2. ASSUME NEW i \in 1 .. width PROVE Digit(v, Base, i) \in Byte
  <2> DEFINE p == Power(Base, i - 1)
  <2>1. i - 1 \in Nat
    OBVIOUS
  <2>2. p \in Nat /\ p >= 1
    BY <1>0, <2>1, PowerPositive
  <2> HIDE DEF p
  <2>3. v \div p \in Int
    BY <2>2, Division
  <2>4. (v \div p) % Base \in 0 .. Base - 1
    BY <1>0, <2>3, Division
  <2>5. QED
    BY <2>4 DEF Digit, p, Byte
<1> HIDE DEF c
<1>3. c \in Seq(Byte) /\ Len(c) = width
  BY <1>1, <1>2
<1>4. \A i \in 1 .. Len(c) : c[i] % Base = Digit(v, Base, i)
  <2>1. SUFFICES ASSUME NEW i \in 1 .. width PROVE c[i] % Base = Digit(v, Base, i)
    BY <1>3
  <2>2. c[i] = Digit(v, Base, i) /\ c[i] \in 0 .. Base - 1
    BY <1>1, <1>2 DEF Byte
  <2>3. c[i] % Base = c[i]
    BY <1>0, <2>2, Small
  <2>4. QED
    BY <2>2, <2>3
<1>5. c \in Seq(Int)
  BY <1>0, <1>3, SeqSubset
<1>6. Number(c, Base) = v % Power(Base, Len(c))
  BY <1>0, <1>4, <1>5, NumberOfDigits
<1>7. QED
  BY <1>3, <1>6 DEF c, Unsigned

(* The integers that so many bytes hold. *)
Ints(width) ==
  LET range == Power(Base, width) IN
  {v \in Int : 0 <= v + range \div 2 /\ v + range \div 2 < range}

(* What Go's conversions keep of an integer is one of the width, the       *)
(* integer itself if it is one, and the same for what its bytes say.       *)
LEMMA WrapIs ==
  ASSUME NEW v \in Int, NEW width \in Nat
  PROVE  /\ Wrap(v, width) \in Ints(width)
         /\ v \in Ints(width) => Wrap(v, width) = v
         /\ Wrap(v % Power(Base, width), width) = Wrap(v, width)
<1> DEFINE r == Power(Base, width)
           h == r \div 2
           s == (v + h) % r
           q == (v + h) \div r
           k == v \div r
           m == v % r
<1>0. Base \in Nat /\ Base >= 1
  BY Bases
<1>1. r \in Nat /\ r >= 1
  BY <1>0, PowerPositive
<1>2. Wrap(v, width) = s - h /\ Wrap(m, width) = ((m + h) % r) - h
  BY DEF Wrap
<1>3. \A x : x \in Ints(width) <=> x \in Int /\ 0 <= x + h /\ x + h < r
  BY DEF Ints
<1> HIDE DEF r
<1>4. h \in Nat
  BY <1>1
<1> HIDE DEF h
<1>5. v + h \in Int
  BY <1>4
<1>6. q \in Int /\ s \in 0 .. r - 1 /\ v + h = q * r + s
  BY <1>1, <1>5, Division
<1>7. k \in Int /\ m \in 0 .. r - 1 /\ v = k * r + m
  BY <1>1, Division
<1> HIDE DEF s, q, k, m
<1>8. s - h \in Ints(width)
  BY <1>1, <1>3, <1>4, <1>6
<1>9. ASSUME v \in Ints(width) PROVE s - h = v
  <2>1. v + h \in 0 .. r - 1
    BY <1>1, <1>3, <1>4, <1>9
  <2>2. (v + h) % r = v + h
    BY <1>1, <2>1, Small
  <2>3. s = v + h
    BY <2>2 DEF s
  <2>4. QED
    BY <1>4, <2>3
<1>10. (m + h) % r = s
  <2>1. q - k \in Int /\ (q - k) * r = q * r - k * r /\ q * r \in Int /\ k * r \in Int
    BY <1>1, <1>6, <1>7
  <2>2. m + h = (q - k) * r + s
    BY <1>1, <1>4, <1>6, <1>7, <2>1
  <2>3. m + h \in Int
    BY <1>4, <1>7
  <2>4. QED
    BY <1>1, <1>6, <2>1, <2>2, <2>3, QuotientIs
<1>11. QED
  BY <1>2, <1>8, <1>9, <1>10 DEF m, r

(* An integer is read from its bytes as what its width keeps of it. *)
LEMMA SignedFixed ==
  ASSUME NEW v \in Int, NEW width \in Nat
  PROVE  Signed(Fixed(v, width)) = Wrap(v, width)
<1>1. Len(Fixed(v, width)) = width /\ Unsigned(Fixed(v, width)) = v % Power(Base, width)
  BY FixedBytes
<1>2. Wrap(v % Power(Base, width), width) = Wrap(v, width)
  BY WrapIs
<1>3. QED
  BY <1>1, <1>2 DEF Signed

(* Reversed twice, a sequence is as it was. *)
LEMMA ReverseTwice ==
  ASSUME NEW S, NEW s \in Seq(S)
  PROVE  Reverse(s) \in Seq(S) /\ Len(Reverse(s)) = Len(s) /\ Reverse(Reverse(s)) = s
<1> DEFINE t == Reverse(s)
<1>0. Len(s) \in Nat /\ \A i \in 1 .. Len(s) : s[i] \in S
  OBVIOUS
<1>1. t = [i \in 1 .. Len(s) |-> s[(Len(s) - i) + 1]]
  BY DEF Reverse
<1>2. \A i \in 1 .. Len(s) : (Len(s) - i) + 1 \in 1 .. Len(s) /\ (Len(s) - ((Len(s) - i) + 1)) + 1 = i
  BY <1>0
<1>3. t \in Seq(S) /\ Len(t) = Len(s)
  BY <1>0, <1>1, <1>2
<1>4. Reverse(t) = [i \in 1 .. Len(s) |-> t[(Len(s) - i) + 1]]
  BY <1>3 DEF Reverse
<1> HIDE DEF t
<1>5. \A i \in 1 .. Len(s) : t[(Len(s) - i) + 1] = s[i]
  BY <1>1, <1>2
<1>6. s = [i \in 1 .. Len(s) |-> s[i]]
  OBVIOUS
<1>7. Reverse(t) = s
  BY <1>4, <1>5, <1>6
<1>8. QED
  BY <1>3, <1>7 DEF t

(* The magnitude of an integer. *)
Magnitudes(v) == IF v < 0 THEN -v ELSE v

(* big.Int's bytes are read as the magnitude. *)
LEMMA MagnitudeBytes ==
  ASSUME NEW v \in Int
  PROVE  Magnitude(v) \in Seq(Byte) /\ SetBytes(Magnitude(v)) = Magnitudes(v)
<1> DEFINE m == Magnitudes(v)
           n == DigitCount(m, Base)
           c == Fixed(m, n)
<1>0. Base \in Nat /\ Base >= 2 /\ Base >= 1
  BY Bases
<1>1. m \in Nat
  BY DEF Magnitudes
<1>2. Magnitude(v) = Reverse(c)
  BY DEF Magnitude, Magnitudes
<1> HIDE DEF m
<1>3. n \in Nat /\ m < Power(Base, n)
  BY <1>0, <1>1, DigitCountIs
<1> HIDE DEF n
<1>4. c \in Seq(Byte) /\ Unsigned(c) = m % Power(Base, n)
  BY <1>1, <1>3, FixedBytes
<1>5. Reverse(c) \in Seq(Byte) /\ Reverse(Reverse(c)) = c
  BY <1>4, ReverseTwice
<1>6. m % Power(Base, n) = m
  <2>1. Power(Base, n) \in Nat /\ Power(Base, n) >= 1
    BY <1>0, <1>3, PowerPositive
  <2>2. m \in 0 .. Power(Base, n) - 1
    BY <1>1, <1>3, <2>1
  <2>3. QED
    BY <2>1, <2>2, Small
<1>7. QED
  BY <1>2, <1>4, <1>5, <1>6 DEF SetBytes, m

(* Two sequences of one length that are found at the same place. *)
LEMMA AtSame ==
  ASSUME NEW S, NEW c \in Seq(S), NEW d \in Seq(S), NEW w, NEW off \in Nat,
         At(w, off, c), At(w, off, d), Len(c) = Len(d)
  PROVE  c = d
<1>1. \A i \in 1 .. Len(c) : c[i] = d[i]
  BY DEF At
<1>2. QED
  BY <1>1

(* Concatenated, sequences are found one after the other. *)
LEMMA FlattenIs ==
  ASSUME NEW S, NEW seqs \in Seq(Seq(S))
  PROVE  \E ends \in [0 .. Len(seqs) -> Nat] :
           /\ ends[0] = 0
           /\ \A i \in 1 .. Len(seqs) : ends[i] = ends[i - 1] + Len(seqs[i])
           /\ FlattenSeq(seqs) \in Seq(S) /\ Len(FlattenSeq(seqs)) = ends[Len(seqs)]
           /\ \A i \in 1 .. Len(seqs) : At(FlattenSeq(seqs), ends[i - 1], seqs[i])
<1> DEFINE n == Len(seqs)
           D == [vi \in Seq(S) \X (1 .. n) |-> vi[1] \o seqs[vi[2]]]
           f == CHOOSE g : g = [i \in 1 .. n |-> IF i = 1 THEN seqs[i] ELSE g[i - 1] \o seqs[i]]
           e == <<>>
<1>0. n \in Nat /\ \A i \in 1 .. n : seqs[i] \in Seq(S)
  OBVIOUS
<1>a. FlattenSeq(seqs) = IF n = 0 THEN seqs ELSE f[n]
  BY DEF FlattenSeq
<1>b. n = 0 => seqs = <<>>
  OBVIOUS
<1> HIDE DEF n
<1>1. D \in [Seq(S) \X (1 .. n) -> Seq(S)]
  <2>1. ASSUME NEW vi \in Seq(S) \X (1 .. n) PROVE vi[1] \o seqs[vi[2]] \in Seq(S)
    <3>1. vi[1] \in Seq(S) /\ vi[2] \in 1 .. n
      OBVIOUS
    <3>2. seqs[vi[2]] \in Seq(S)
      BY <1>0, <3>1
    <3>3. QED
      BY <3>1, <3>2
  <2>2. QED
    BY <2>1
<1>2. \A v \in Seq(S), i \in 1 .. n : D[<<v, i>>] = v \o seqs[i]
  OBVIOUS
<1>3. e \in Seq(S) /\ Len(e) = 0 /\ \A s \in Seq(S) : e \o s = s
  OBVIOUS
<1>4. e = <<>>
  OBVIOUS
<1> HIDE DEF D, e
<1>5. PICK h : h \in [0 .. n -> Seq(S)] /\ Stepwise(h, n, e, D)
  BY <1>0, <1>1, <1>3, Recursion
<1>6. h[0] = e /\ \A i \in 1 .. n : h[i - 1] \in Seq(S) /\ h[i] \in Seq(S) /\ h[i] = h[i - 1] \o seqs[i]
  <2>1. \A i \in 1 .. n : i - 1 \in 0 .. n /\ i \in 0 .. n
    BY <1>0
  <2>2. h[0] = e /\ \A i \in 1 .. n : h[i] = D[<<h[i - 1], i>>]
    BY <1>5 DEF Stepwise
  <2>3. \A i \in 1 .. n : h[i - 1] \in Seq(S) /\ h[i] \in Seq(S)
    BY <1>5, <2>1
  <2>4. QED
    BY <1>2, <2>2, <2>3
<1>7. n # 0 => f[n] = h[n]
  <2>1. SUFFICES ASSUME n # 0 PROVE f[n] = h[n]
    OBVIOUS
  <2> DEFINE g == [i \in 1 .. n |-> h[i]]
  <2>2. ASSUME NEW i \in 1 .. n PROVE g[i] = IF i = 1 THEN seqs[i] ELSE g[i - 1] \o seqs[i]
    <3>1. CASE i = 1
      <4>1. i - 1 = 0 /\ seqs[i] \in Seq(S)
        BY <1>0, <3>1
      <4>2. h[i] = h[i - 1] \o seqs[i] /\ h[i - 1] = e
        BY <1>6, <4>1
      <4>3. QED
        BY <1>3, <3>1, <4>1, <4>2
    <3>2. CASE i # 1
      <4>1. i - 1 \in 1 .. n
        BY <1>0, <3>2
      <4>2. QED
        BY <1>6, <3>2, <4>1
    <3>3. QED
      BY <3>1, <3>2
  <2>3. g = [i \in 1 .. n |-> g[i]]
    OBVIOUS
  <2> HIDE DEF g
  <2>4. g = [i \in 1 .. n |-> IF i = 1 THEN seqs[i] ELSE g[i - 1] \o seqs[i]]
    BY <2>2, <2>3
  <2>5. f = [i \in 1 .. n |-> IF i = 1 THEN seqs[i] ELSE f[i - 1] \o seqs[i]]
    BY <2>4
  <2> HIDE DEF f
  <2>6. f[1] = seqs[1] /\ \A i \in 1 .. n : i # 1 => f[i] = f[i - 1] \o seqs[i]
    <3>1. 1 \in 1 .. n
      BY <1>0, <2>1
    <3>2. QED
      BY <2>5, <3>1
  <2> DEFINE T == {i \in 0 .. n - 1 : f[i + 1] = h[i + 1]}
  <2>7. 0 \in T
    <3>1. 0 \in 0 .. n - 1 /\ 0 + 1 = 1 /\ 1 \in 1 .. n /\ 1 - 1 = 0
      BY <1>0, <2>1
    <3>2. h[1] = h[0] \o seqs[1] /\ seqs[1] \in Seq(S)
      BY <1>0, <1>6, <3>1
    <3>3. h[1] = seqs[1]
      BY <1>3, <1>6, <3>2
    <3>4. QED
      BY <2>6, <3>1, <3>3
  <2>8. ASSUME NEW i \in 0 .. (n - 1) - 1, i \in T PROVE i + 1 \in T
    <3>1. i + 1 \in 0 .. n - 1 /\ (i + 1) + 1 \in 1 .. n /\ (i + 1) + 1 # 1 /\ ((i + 1) + 1) - 1 = i + 1
      BY <1>0
    <3>2. f[(i + 1) + 1] = f[i + 1] \o seqs[(i + 1) + 1] /\ h[(i + 1) + 1] = h[i + 1] \o seqs[(i + 1) + 1]
      BY <1>6, <2>6, <3>1
    <3>3. f[i + 1] = h[i + 1]
      BY <2>8
    <3>4. QED
      BY <3>1, <3>2, <3>3
  <2>9. n - 1 \in Nat
    BY <1>0, <2>1
  <2>10. \A i \in 0 .. n - 1 : i \in T
    <3> HIDE DEF T
    <3>1. QED
      BY <2>7, <2>8, <2>9, UpTo
  <2>11. n - 1 \in 0 .. n - 1 /\ (n - 1) + 1 = n
    BY <2>9, <1>0
  <2>12. QED
    BY <2>10, <2>11
<1>8. FlattenSeq(seqs) = h[n]
  BY <1>0, <1>4, <1>6, <1>7, <1>a, <1>b
<1> HIDE DEF f
<1> DEFINE ends == [i \in 0 .. n |-> Len(h[i])]
<1>9. ends \in [0 .. n -> Nat]
  BY <1>5
<1>10. ends[0] = 0 /\ Len(h[n]) = ends[n] /\ h[n] \in Seq(S)
  BY <1>0, <1>3, <1>5, <1>6
<1>11. \A i \in 1 .. n : ends[i] = ends[i - 1] + Len(seqs[i])
  <2>1. SUFFICES ASSUME NEW i \in 1 .. n PROVE ends[i] = ends[i - 1] + Len(seqs[i])
    OBVIOUS
  <2>2. i - 1 \in 0 .. n /\ i \in 0 .. n
    BY <1>0
  <2>3. h[i - 1] \in Seq(S) /\ seqs[i] \in Seq(S) /\ h[i] = h[i - 1] \o seqs[i]
    BY <1>0, <1>6
  <2>4. Len(h[i]) = Len(h[i - 1]) + Len(seqs[i])
    BY <2>3
  <2>5. QED
    BY <2>2, <2>4
<1>12. \A i \in 1 .. n : At(h[n], ends[i - 1], seqs[i])
  <2> DEFINE T == {k \in 0 .. n : \A i \in 1 .. k : At(h[k], ends[i - 1], seqs[i])}
  <2>1. 0 \in T
    BY <1>0
  <2>2. ASSUME NEW k \in 0 .. n - 1, k \in T PROVE k + 1 \in T
    <3>1. k + 1 \in 1 .. n /\ k + 1 \in 0 .. n /\ (k + 1) - 1 = k /\ k \in 0 .. n
      BY <1>0
    <3> DEFINE a == h[k]
               b == seqs[k + 1]
               w == h[k + 1]
    <3>2. a \in Seq(S) /\ b \in Seq(S) /\ w = a \o b /\ ends[k] = Len(a) /\ w \in Seq(S)
      BY <1>0, <1>6, <3>1
    <3>3. \A i \in 1 .. k : At(a, ends[i - 1], seqs[i]) /\ ends[i - 1] \in Nat /\ seqs[i] \in Seq(S)
      <4>1. \A i \in 1 .. k : i - 1 \in 0 .. n /\ i \in 1 .. n
        BY <1>0, <3>1
      <4>2. QED
        BY <1>0, <1>9, <2>2, <4>1
    <3> HIDE DEF a, b, w, ends
    <3>4. Len(w) = Len(a) + Len(b) /\ Len(a) \in Nat /\ Len(b) \in Nat /\ \A i \in 1 .. Len(a) : w[i] = a[i]
      BY <3>2
    <3>5. At(w, Len(a), b)
      <4>1. \A i \in 1 .. Len(b) : w[Len(a) + i] = b[i]
        BY <3>2
      <4>2. QED
        BY <3>4, <4>1 DEF At
    <3>6. ASSUME NEW i \in 1 .. k PROVE At(w, ends[i - 1], seqs[i])
      <4> DEFINE c == seqs[i]
                 off == ends[i - 1]
      <4>1. c \in Seq(S) /\ off \in Nat /\ off + Len(c) <= Len(a) /\ \A j \in 1 .. Len(c) : a[off + j] = c[j]
        BY <3>3 DEF At
      <4> HIDE DEF c, off
      <4>2. Len(c) \in Nat
        BY <4>1
      <4>3. \A j \in 1 .. Len(c) : off + j \in 1 .. Len(a)
        BY <3>4, <4>1, <4>2
      <4>4. At(w, off, c)
        BY <3>4, <4>1, <4>2, <4>3 DEF At
      <4>5. QED
        BY <4>4 DEF c, off
    <3>7. ASSUME NEW i \in 1 .. k + 1 PROVE At(w, ends[i - 1], seqs[i])
      <4>1. CASE i = k + 1
        BY <3>1, <3>2, <3>5, <4>1 DEF b
      <4>2. CASE i \in 1 .. k
        BY <3>6, <4>2
      <4>3. QED
        BY <3>1, <4>1, <4>2
    <3>8. QED
      BY <3>1, <3>7 DEF w
  <2>3. \A k \in 0 .. n : k \in T
    <3> HIDE DEF T
    <3>1. QED
      BY <1>0, <2>1, <2>2, UpTo
  <2>4. QED
    BY <1>0, <2>3
<1> HIDE DEF ends
<1>13. QED
  BY <1>8, <1>9, <1>10, <1>11, <1>12 DEF n

-------------------------------------------------------------------------------
(* Keys *)

(* Integers of variable length at the same place are the same. *)
LEMMA UvarintApart ==
  ASSUME NEW u \in Nat, u < Power(Base, W64), NEW v \in Nat, v < Power(Base, W64),
         NEW w \in Seq(Byte), NEW off \in Nat, At(w, off, Uvarint(u)), At(w, off, Uvarint(v))
  PROVE  u = v
<1> DEFINE c == Uvarint(u)
           d == Uvarint(v)
           s == After(w, off)
<1>1. c \in Seq(Byte) /\ d \in Seq(Byte)
  BY UvarintBytes
<1>2. off + 0 = off /\ 0 \in Nat
  OBVIOUS
<1> HIDE DEF c, d
<1>3. At(w, off + 0, c) /\ At(w, off + 0, d)
  BY <1>2 DEF c, d
<1>4. s \in Seq(Byte) /\ At(s, 0, c) /\ At(s, 0, d)
  BY <1>1, <1>2, <1>3, AtAfter
<1> HIDE DEF s
<1>5. ReadUvarint(s) = [value |-> u, size |-> Len(c)]
  BY <1>4, ReadUvarintAt DEF c
<1>6. ReadUvarint(s) = [value |-> v, size |-> Len(d)]
  BY <1>4, ReadUvarintAt DEF d
<1>7. QED
  BY <1>5, <1>6

(* The types that are not collections. *)
FieldTypes ==
  [kind : {"int8", "int32", "int64", "bytes"}] \cup [kind : {"decimal", "timestamp"}, length : Int]

(* The values that a field takes, but for null: integers of Go's types,    *)
(* bytes whose length is an integer of 32 bits.                            *)
Values(t) ==
  CASE t.kind \in {"int8", "int32", "int64"} -> Ints(W64)
    [] t.kind = "bytes" -> {v \in Seq(Byte) : Len(v) < Power(Base, W32)}
    [] t.kind = "decimal" ->
         IF ShortDecimal(t) THEN Ints(W64)
         ELSE {v \in Int : Len(Magnitude(v)) < Power(Base, W32)}
    [] t.kind = "timestamp" -> Ints(W64) \X Ints(W32)

(* What a key tells of a value. *)
Told(t, v) ==
  CASE t.kind = "decimal" /\ ~ShortDecimal(t) -> Magnitudes(v)
    [] Coarse(t) -> v[1]
    [] OTHER -> Narrowed(t, v)

(* 32 bits are no more than 64. *)
LEMMA Ranges ==
  /\ Power(Base, W32) \in Nat /\ Power(Base, W32) >= 1
  /\ Power(Base, W64) \in Nat /\ Power(Base, W32) <= Power(Base, W64)
<1>1. Base \in Nat /\ Base >= 1 /\ W32 \in Nat /\ W64 \in Nat /\ W32 <= W64
  BY Bases
<1>2. QED
  BY <1>1, PowerPositive, PowerGrows

(* An integer of variable length is an unsigned one of 64 bits. *)
LEMMA VarintIs ==
  ASSUME NEW v \in Int, NEW width \in {W32, W64}
  PROVE  /\ v % Power(Base, width) \in Nat /\ v % Power(Base, width) < Power(Base, width)
         /\ v % Power(Base, width) < Power(Base, W64)
         /\ Varint(v, width) = Uvarint(v % Power(Base, width))
         /\ Varint(v, width) \in Seq(Byte)
<1> DEFINE r == Power(Base, width)
<1>1. r \in Nat /\ r >= 1 /\ r <= Power(Base, W64) /\ Power(Base, W64) \in Nat
  BY Ranges
<1>2. Varint(v, width) = Uvarint(v % r)
  BY DEF Varint
<1> HIDE DEF r
<1>3. v % r \in 0 .. r - 1
  BY <1>1, Division
<1>4. v % r \in Nat
  BY <1>3
<1>5. Uvarint(v % r) \in Seq(Byte)
  BY <1>4, UvarintBytes
<1>6. QED
  BY <1>1, <1>2, <1>3, <1>5 DEF r

(* Integers at one place are the same, as far as their width tells. *)
LEMMA VarintApart ==
  ASSUME NEW x \in Int, NEW y \in Int, NEW width \in {W32, W64},
         NEW w \in Seq(Byte), NEW off \in Nat, At(w, off, Varint(x, width)), At(w, off, Varint(y, width))
  PROVE  /\ Varint(x, width) = Varint(y, width)
         /\ Wrap(x, width) = Wrap(y, width)
         /\ x % Power(Base, width) = y % Power(Base, width)
<1>0. width \in Nat
  BY Bases
<1> DEFINE r == Power(Base, width)
           u == x % r
           v == y % r
<1>1. u = v
  <2>1. /\ u \in Nat /\ u < Power(Base, W64) /\ Varint(x, width) = Uvarint(u)
        /\ v \in Nat /\ v < Power(Base, W64) /\ Varint(y, width) = Uvarint(v)
    BY VarintIs
  <2> HIDE DEF r, u, v
  <2>2. At(w, off, Uvarint(u)) /\ At(w, off, Uvarint(v))
    BY <2>1
  <2>3. QED
    BY <2>1, <2>2, UvarintApart
<1>2. Wrap(x, width) = Wrap(y, width)
  BY <1>0, <1>1, WrapIs
<1>3. QED
  BY <1>1, <1>2 DEF Varint

(* Bytes with their length, at one place. *)
LEMMA BytesApart ==
  ASSUME NEW x \in Seq(Byte), NEW y \in Seq(Byte),
         Len(x) < Power(Base, W32), Len(y) < Power(Base, W32),
         NEW w \in Seq(Byte), NEW off \in Nat,
         At(w, off, EncodeBytes(x, FALSE)), At(w, off, EncodeBytes(y, FALSE))
  PROVE  x = y
<1> DEFINE a == Varint(Len(x), W32)
           b == Varint(Len(y), W32)
           r == Power(Base, W32)
<1>0. Len(x) \in Nat /\ Len(y) \in Nat /\ r \in Nat /\ r >= 1 /\ Len(x) \in Int /\ Len(y) \in Int
  BY Ranges
<1>1. a \in Seq(Byte) /\ b \in Seq(Byte)
  BY <1>0, VarintIs
<1>2. EncodeBytes(x, FALSE) = a \o x /\ EncodeBytes(y, FALSE) = b \o y
  BY DEF EncodeBytes
<1> HIDE DEF a, b
<1>3. At(w, off, a) /\ At(w, off + Len(a), x) /\ At(w, off, b) /\ At(w, off + Len(b), y)
  <2>1. At(w, off, a \o x) /\ At(w, off, b \o y)
    BY <1>2
  <2>2. At(w, off, a) /\ At(w, off + Len(a), x)
    BY <1>1, <2>1, AtConcat
  <2>3. At(w, off, b) /\ At(w, off + Len(b), y)
    BY <1>1, <2>1, AtConcat
  <2>4. QED
    BY <2>2, <2>3
<1>4. a = b /\ Len(x) % r = Len(y) % r
  BY <1>0, <1>3, VarintApart DEF a, b
<1> HIDE DEF r
<1>5. Len(x) % r = Len(x) /\ Len(y) % r = Len(y)
  <2>1. Len(x) \in 0 .. r - 1 /\ Len(y) \in 0 .. r - 1
    BY <1>0 DEF r
  <2>2. QED
    BY <1>0, <2>1, Small
<1>6. off + Len(a) \in Nat
  BY <1>1
<1>7. QED
  BY <1>3, <1>4, <1>5, <1>6, AtSame

(* A field keeps of an integer one of its own width. *)
LEMMA NarrowedIs ==
  ASSUME NEW t \in FieldTypes, t.kind \in {"int8", "int32", "int64"}, NEW v \in Ints(W64)
  PROVE  /\ Narrowed(t, v) \in Ints(FixedSize(t))
         /\ FixedSize(t) \in Nat /\ FixedSize(t) >= 1
         /\ v \in Int /\ Narrowed(t, v) \in Int
         /\ t.kind # "int8" => FixedSize(t) \in {W32, W64}
<1>0. W32 \in Nat /\ W64 \in Nat /\ W32 >= 1 /\ W64 >= 1
  BY Bases
<1>1. FixedSize(t) \in Nat /\ FixedSize(t) >= 1 /\ (t.kind # "int8" => FixedSize(t) \in {W32, W64})
  BY <1>0 DEF FixedSize
<1>2. v \in Int /\ \A n \in Nat : Ints(n) \subseteq Int
  BY <1>0 DEF Ints
<1>3. CASE t.kind \in {"int8", "int32"}
  <2>1. Narrowed(t, v) = Wrap(v, FixedSize(t))
    BY <1>3 DEF Narrowed
  <2>2. QED
    BY <1>1, <1>2, <2>1, WrapIs
<1>4. CASE t.kind = "int64"
  <2>1. Narrowed(t, v) = v /\ FixedSize(t) = W64
    BY <1>4 DEF Narrowed, FixedSize
  <2>2. QED
    BY <1>1, <1>2, <2>1
<1>5. QED
  BY <1>3, <1>4

(* What is encoded of a value in a key is bytes. *)
LEMMA KeyValueBytes ==
  ASSUME NEW t \in FieldTypes, NEW v \in Values(t)
  PROVE  EncodeKeyValue(t, v) \in Seq(Byte)
<1>0. W32 \in Nat /\ W64 \in Nat /\ 1 \in Nat /\ W32 \in {W32, W64} /\ W64 \in {W32, W64}
  BY Bases
<1>1. \A n \in Nat : Ints(n) \subseteq Int
  BY DEF Ints
<1>2. \A s \in Seq(Byte) : EncodeBytes(s, FALSE) \in Seq(Byte)
  <2>1. SUFFICES ASSUME NEW s \in Seq(Byte) PROVE EncodeBytes(s, FALSE) \in Seq(Byte)
    OBVIOUS
  <2>2. Len(s) \in Int
    OBVIOUS
  <2> DEFINE a == Varint(Len(s), W32)
  <2>3. a \in Seq(Byte)
    BY <1>0, <2>2, VarintIs
  <2>4. EncodeBytes(s, FALSE) = a \o s
    BY DEF EncodeBytes
  <2> HIDE DEF a
  <2>5. a \o s \in Seq(Byte)
    BY <2>3
  <2>6. QED
    BY <2>4, <2>5
<1>3. CASE t.kind = "int8"
  <2>1. v \in Ints(W64)
    BY <1>3 DEF Values
  <2>2. Narrowed(t, v) \in Int
    BY <1>3, <2>1, NarrowedIs
  <2>3. EncodeKeyValue(t, v) = Fixed(Narrowed(t, v), 1)
    BY <1>3 DEF EncodeKeyValue, EncodeField
  <2>4. QED
    BY <1>0, <2>2, <2>3, FixedBytes
<1>4. CASE t.kind \in {"int32", "int64"}
  <2>1. v \in Ints(W64)
    BY <1>4 DEF Values
  <2>2. Narrowed(t, v) \in Int /\ FixedSize(t) \in {W32, W64}
    BY <1>4, <2>1, NarrowedIs
  <2>3. EncodeKeyValue(t, v) = Varint(Narrowed(t, v), FixedSize(t))
    BY <1>4 DEF EncodeKeyValue, EncodeField
  <2>4. QED
    BY <2>2, <2>3, VarintIs
<1>5. CASE t.kind = "bytes"
  <2>1. v \in Seq(Byte)
    BY <1>5 DEF Values
  <2>2. EncodeKeyValue(t, v) = EncodeBytes(v, FALSE)
    BY <1>5 DEF EncodeKeyValue, EncodeField
  <2>3. QED
    BY <1>2, <2>1, <2>2
<1>6. CASE t.kind = "decimal"
  <2>1. v \in Int
    BY <1>0, <1>1, <1>6 DEF Values
  <2>2. EncodeKeyValue(t, v) = IF ShortDecimal(t) THEN Varint(v, W64) ELSE EncodeBytes(Magnitude(v), FALSE)
    BY <1>6 DEF EncodeKeyValue, EncodeDecimalCompact
  <2>3. QED
    BY <1>0, <1>2, <2>1, <2>2, VarintIs, MagnitudeBytes
<1>7. CASE t.kind = "timestamp"
  <2>1. v[1] \in Int /\ v[2] \in Int
    BY <1>0, <1>1, <1>7 DEF Values
  <2>2. EncodeKeyValue(t, v) = Varint(v[1], W64) \o (IF Coarse(t) THEN <<>> ELSE Varint(v[2], W32))
    BY <1>7 DEF EncodeKeyValue, EncodeCompactedTimestamp
  <2>3. Varint(v[1], W64) \in Seq(Byte) /\ Varint(v[2], W32) \in Seq(Byte)
    BY <1>0, <2>1, VarintIs
  <2>4. QED
    BY <2>2, <2>3
<1>8. t.kind \in {"int8", "int32", "int64", "bytes", "decimal", "timestamp"}
  BY DEF FieldTypes
<1>9. QED
  BY <1>3, <1>4, <1>5, <1>6, <1>7, <1>8

(* What two values are in a key, at one place, tells the same of them.     *)
LEMMA KeyValueApart ==
  ASSUME NEW t \in FieldTypes, NEW x \in Values(t), NEW y \in Values(t),
         NEW w \in Seq(Byte), NEW off \in Nat,
         At(w, off, EncodeKeyValue(t, x)), At(w, off, EncodeKeyValue(t, y))
  PROVE  Told(t, x) = Told(t, y)
<1>0. W32 \in Nat /\ W64 \in Nat /\ 1 \in Nat /\ W32 \in {W32, W64} /\ W64 \in {W32, W64}
  BY Bases
<1>1. \A n \in Nat : Ints(n) \subseteq Int
  BY DEF Ints
<1>2. CASE t.kind = "int8"
  <2> DEFINE a == Narrowed(t, x)
             b == Narrowed(t, y)
  <2>1. x \in Ints(W64) /\ y \in Ints(W64) /\ Told(t, x) = a /\ Told(t, y) = b /\ FixedSize(t) = 1
    BY <1>2 DEF Values, Told, Coarse, FixedSize
  <2>2. EncodeKeyValue(t, x) = Fixed(a, 1) /\ EncodeKeyValue(t, y) = Fixed(b, 1)
    BY <1>2 DEF EncodeKeyValue, EncodeField
  <2>3. a \in Int /\ b \in Int /\ a \in Ints(1) /\ b \in Ints(1)
    BY <1>2, <2>1, NarrowedIs
  <2> HIDE DEF a, b
  <2>4. /\ Fixed(a, 1) \in Seq(Byte) /\ Len(Fixed(a, 1)) = 1
        /\ Fixed(b, 1) \in Seq(Byte) /\ Len(Fixed(b, 1)) = 1
    BY <1>0, <2>3, FixedBytes
  <2>5. Fixed(a, 1) = Fixed(b, 1)
    BY <2>2, <2>4, AtSame
  <2>6. Signed(Fixed(a, 1)) = a /\ Signed(Fixed(b, 1)) = b
    BY <1>0, <2>3, SignedFixed, WrapIs
  <2>7. QED
    BY <2>1, <2>5, <2>6
<1>3. CASE t.kind \in {"int32", "int64"}
  <2> DEFINE a == Narrowed(t, x)
             b == Narrowed(t, y)
             n == FixedSize(t)
  <2>1. x \in Ints(W64) /\ y \in Ints(W64) /\ Told(t, x) = a /\ Told(t, y) = b
    BY <1>3 DEF Values, Told, Coarse
  <2>2. EncodeKeyValue(t, x) = Varint(a, n) /\ EncodeKeyValue(t, y) = Varint(b, n)
    BY <1>3 DEF EncodeKeyValue, EncodeField
  <2>3. a \in Int /\ b \in Int /\ a \in Ints(n) /\ b \in Ints(n) /\ n \in {W32, W64}
    BY <1>3, <2>1, NarrowedIs
  <2> HIDE DEF a, b, n
  <2>4. At(w, off, Varint(a, n)) /\ At(w, off, Varint(b, n))
    BY <2>2
  <2>5. Wrap(a, n) = Wrap(b, n)
    BY <2>3, <2>4, VarintApart
  <2>6. Wrap(a, n) = a /\ Wrap(b, n) = b
    BY <1>0, <2>3, WrapIs
  <2>7. QED
    BY <2>1, <2>5, <2>6
<1>4. CASE t.kind = "bytes"
  <2>1. /\ x \in Seq(Byte) /\ y \in Seq(Byte) /\ Len(x) < Power(Base, W32) /\ Len(y) < Power(Base, W32)
        /\ Told(t, x) = x /\ Told(t, y) = y
    BY <1>4 DEF Values, Told, Coarse, Narrowed
  <2>2. EncodeKeyValue(t, x) = EncodeBytes(x, FALSE) /\ EncodeKeyValue(t, y) = EncodeBytes(y, FALSE)
    BY <1>4 DEF EncodeKeyValue, EncodeField
  <2>3. QED
    BY <2>1, <2>2, BytesApart
<1>5. CASE t.kind = "decimal" /\ ShortDecimal(t)
  <2>1. x \in Ints(W64) /\ y \in Ints(W64) /\ Told(t, x) = x /\ Told(t, y) = y
    BY <1>5 DEF Values, Told, Coarse, Narrowed
  <2>2. EncodeKeyValue(t, x) = Varint(x, W64) /\ EncodeKeyValue(t, y) = Varint(y, W64)
    BY <1>5 DEF EncodeKeyValue, EncodeDecimalCompact
  <2>3. x \in Int /\ y \in Int
    BY <1>0, <1>1, <2>1
  <2>4. Wrap(x, W64) = Wrap(y, W64)
    BY <1>0, <2>2, <2>3, VarintApart
  <2>5. Wrap(x, W64) = x /\ Wrap(y, W64) = y
    BY <1>0, <2>1, <2>3, WrapIs
  <2>6. QED
    BY <2>1, <2>4, <2>5
<1>6. CASE t.kind = "decimal" /\ ~ShortDecimal(t)
  <2> DEFINE a == Magnitude(x)
             b == Magnitude(y)
  <2>1. /\ x \in Int /\ y \in Int /\ Len(a) < Power(Base, W32) /\ Len(b) < Power(Base, W32)
        /\ Told(t, x) = Magnitudes(x) /\ Told(t, y) = Magnitudes(y)
    BY <1>6 DEF Values, Told, Coarse
  <2>2. EncodeKeyValue(t, x) = EncodeBytes(a, FALSE) /\ EncodeKeyValue(t, y) = EncodeBytes(b, FALSE)
    BY <1>6 DEF EncodeKeyValue, EncodeDecimalCompact
  <2>3. a \in Seq(Byte) /\ b \in Seq(Byte) /\ SetBytes(a) = Magnitudes(x) /\ SetBytes(b) = Magnitudes(y)
    BY <2>1, MagnitudeBytes
  <2> HIDE DEF a, b
  <2>4. a = b
    BY <2>1, <2>2, <2>3, BytesApart
  <2>5. QED
    BY <2>1, <2>3, <2>4
<1>7. CASE t.kind = "timestamp"
  <2> DEFINE a == Varint(x[1], W64)
             b == Varint(y[1], W64)
             c == Varint(x[2], W32)
             d == Varint(y[2], W32)
  <2>1. /\ x[1] \in Ints(W64) /\ y[1] \in Ints(W64) /\ x[2] \in Ints(W32) /\ y[2] \in Ints(W32)
        /\ x = <<x[1], x[2]>> /\ y = <<y[1], y[2]>>
    BY <1>7 DEF Values
  <2>2. x[1] \in Int /\ y[1] \in Int /\ x[2] \in Int /\ y[2] \in Int
    BY <1>0, <1>1, <2>1
  <2>3. a \in Seq(Byte) /\ b \in Seq(Byte) /\ c \in Seq(Byte) /\ d \in Seq(Byte)
    BY <1>0, <2>2, VarintIs
  <2>4. EncodeKeyValue(t, x) = a \o (IF Coarse(t) THEN <<>> ELSE c) /\ EncodeKeyValue(t, y) = b \o (IF Coarse(t) THEN <<>> ELSE d)
    BY <1>7 DEF EncodeKeyValue, EncodeCompactedTimestamp
  <2> HIDE DEF a, b, c, d
  <2> DEFINE e == IF Coarse(t) THEN <<>> ELSE c
             f == IF Coarse(t) THEN <<>> ELSE d
  <2>5. e \in Seq(Byte) /\ f \in Seq(Byte)
    BY <2>3
  <2>6. EncodeKeyValue(t, x) = a \o e /\ EncodeKeyValue(t, y) = b \o f
    BY <2>4
  <2> HIDE DEF e, f
  <2>7. At(w, off, a) /\ At(w, off + Len(a), e) /\ At(w, off, b) /\ At(w, off + Len(b), f)
    BY <2>3, <2>5, <2>6, AtConcat
  <2>8. a = b /\ Wrap(x[1], W64) = Wrap(y[1], W64)
    BY <1>0, <2>2, <2>7, VarintApart DEF a, b
  <2>9. x[1] = y[1]
    BY <1>0, <2>1, <2>2, <2>8, WrapIs
  <2>10. CASE Coarse(t)
    BY <1>7, <2>9, <2>10 DEF Told
  <2>11. CASE ~Coarse(t)
    <3>1. e = c /\ f = d /\ off + Len(a) \in Nat
      BY <2>3, <2>11 DEF e, f
    <3>2. At(w, off + Len(a), c) /\ At(w, off + Len(a), d)
      BY <2>7, <2>8, <3>1
    <3>3. Wrap(x[2], W32) = Wrap(y[2], W32)
      BY <1>0, <2>2, <3>1, <3>2, VarintApart DEF c, d
    <3>4. x[2] = y[2]
      BY <1>0, <2>1, <2>2, <3>3, WrapIs
    <3>5. x = y
      BY <2>1, <2>9, <3>4
    <3>6. QED
      BY <3>5
  <2>12. QED
    BY <2>10, <2>11
<1>8. t.kind \in {"int8", "int32", "int64", "bytes", "decimal", "timestamp"}
  BY DEF FieldTypes
<1>9. QED
  BY <1>2, <1>3, <1>4, <1>5, <1>6, <1>7, <1>8

(* And what tells the same is the same. *)
LEMMA KeyValueTold ==
  ASSUME NEW t \in FieldTypes, NEW x \in Values(t), NEW y \in Values(t), Told(t, x) = Told(t, y)
  PROVE  EncodeKeyValue(t, x) = EncodeKeyValue(t, y)
<1>1. CASE t.kind \in {"int8", "int32", "int64"}
  <2>1. Narrowed(t, x) = Narrowed(t, y)
    BY <1>1 DEF Told, Coarse
  <2>2. QED
    BY <1>1, <2>1 DEF EncodeKeyValue, EncodeField
<1>2. CASE t.kind = "bytes" \/ (t.kind = "decimal" /\ ShortDecimal(t)) \/ (t.kind = "timestamp" /\ ~Coarse(t))
  <2>1. Told(t, x) = x /\ Told(t, y) = y
    BY <1>2 DEF Told, Coarse, Narrowed
  <2>2. QED
    BY <2>1
<1>3. CASE t.kind = "decimal" /\ ~ShortDecimal(t)
  <2>1. Magnitudes(x) = Magnitudes(y)
    BY <1>3 DEF Told, Coarse
  <2>2. \A v : Magnitude(v) = Reverse(Fixed(Magnitudes(v), DigitCount(Magnitudes(v), Base)))
    BY DEF Magnitude, Magnitudes
  <2>3. Magnitude(x) = Magnitude(y)
    BY <2>1, <2>2
  <2>4. QED
    BY <1>3, <2>3 DEF EncodeKeyValue, EncodeDecimalCompact
<1>4. CASE Coarse(t)
  <2>1. t.kind = "timestamp"
    BY <1>4 DEF Coarse
  <2>2. x[1] = y[1]
    BY <1>4, <2>1 DEF Told
  <2>3. QED
    BY <1>4, <2>1, <2>2 DEF EncodeKeyValue, EncodeCompactedTimestamp
<1>5. t.kind \in {"int8", "int32", "int64", "bytes", "decimal", "timestamp"}
  BY DEF FieldTypes
<1>6. QED
  BY <1>1, <1>2, <1>3, <1>4, <1>5

(* A value of a field is not null, nor is it one that the field does not   *)
(* take, and it can be a key.                                              *)
LEMMA ValuesAreKeys ==
  ASSUME NEW t \in FieldTypes, NEW v \in Values(t)
  PROVE  v # Null /\ v # Misfit /\ v # Failed /\ CanBeKey(t, v)
<1>1. W32 \in Nat /\ W64 \in Nat /\ Byte \subseteq Int
  BY Bases DEF Byte
<1>2. \A n \in Nat : Ints(n) \subseteq Int
  BY DEF Ints
<1>3. t.kind \in {"int8", "int32", "int64", "bytes", "decimal", "timestamp"}
  BY DEF FieldTypes
<1>4. v \in Int \/ v \in Seq(Int)
  <2>1. CASE t.kind \in {"int8", "int32", "int64", "decimal"}
    BY <1>1, <1>2, <2>1 DEF Values
  <2>2. CASE t.kind = "bytes"
    <3>1. v \in Seq(Byte)
      BY <2>2 DEF Values
    <3>2. QED
      BY <1>1, <3>1, SeqSubset
  <2>3. CASE t.kind = "timestamp"
    <3>1. v \in Int \X Int
      BY <1>1, <1>2, <2>3 DEF Values
    <3>2. v = <<v[1], v[2]>> /\ v[1] \in Int /\ v[2] \in Int
      BY <3>1
    <3>3. <<v[1], v[2]>> \in Seq(Int)
      BY <3>2
    <3>4. QED
      BY <3>2, <3>3
  <2>4. QED
    BY <1>3, <2>1, <2>2, <2>3
<1>5. \A none \in {Null, Failed, Misfit} : none \notin Int /\ none \notin Seq(Int)
  BY FieldCodecAssumption
<1>6. v # Null /\ v # Misfit /\ v # Failed
  BY <1>4, <1>5
<1>7. QED
  BY <1>3, <1>6 DEF CanBeKey

(* Two keys have the same bytes only if they tell the same, column by      *)
(* column, of whatever types they are and however many: no row is found,   *)
(* kept or deleted in place of another's (row.go, EncodeLookupKey).  And   *)
(* keys that tell the same are the same, so that what was put under one is *)
(* found under the other.                                                  *)
THEOREM KeysApart ==
  ASSUME NEW fields \in Seq(FieldTypes), NEW columns \in Seq(1 .. Len(fields)), columns # <<>>,
         NEW a, NEW b,
         \A k \in 1 .. Len(columns) : /\ a[columns[k]] \in Values(fields[columns[k]])
                                      /\ b[columns[k]] \in Values(fields[columns[k]])
  PROVE  /\ EncodeLookupKey(fields, a, columns) # Failed
         /\ EncodeLookupKey(fields, a, columns) = EncodeLookupKey(fields, b, columns)
              <=> \A k \in 1 .. Len(columns) :
                    Told(fields[columns[k]], a[columns[k]]) = Told(fields[columns[k]], b[columns[k]])
<1> DEFINE n == Len(columns)
           t(k) == fields[columns[k]]
           x(k) == a[columns[k]]
           y(k) == b[columns[k]]
           A == [k \in 1 .. n |-> EncodeKeyValue(t(k), x(k))]
           B == [k \in 1 .. n |-> EncodeKeyValue(t(k), y(k))]
<1>1. n \in Nat /\ n # 0 /\ DOMAIN columns = 1 .. n
  BY SMT
<1>2. \A k \in 1 .. n : t(k) \in FieldTypes /\ x(k) \in Values(t(k)) /\ y(k) \in Values(t(k))
  <2>1. SUFFICES ASSUME NEW k \in 1 .. n
                 PROVE  t(k) \in FieldTypes /\ x(k) \in Values(t(k)) /\ y(k) \in Values(t(k))
    OBVIOUS
  <2>2. columns[k] \in 1 .. Len(fields)
    OBVIOUS
  <2>3. fields[columns[k]] \in FieldTypes
    BY <2>2
  <2>4. QED
    BY <2>3
<1>3. EncodeLookupKey(fields, a, columns) = FlattenSeq(A) /\ EncodeLookupKey(fields, b, columns) = FlattenSeq(B)
  <2>1. \A k \in 1 .. n : CanBeKey(t(k), x(k)) /\ CanBeKey(t(k), y(k))
    BY <1>2, ValuesAreKeys
  <2>2. QED
    BY <1>1, <2>1 DEF EncodeLookupKey
<1>4. A \in Seq(Seq(Byte)) /\ Len(A) = n /\ B \in Seq(Seq(Byte)) /\ Len(B) = n
  <2>1. \A k \in 1 .. n : EncodeKeyValue(t(k), x(k)) \in Seq(Byte) /\ EncodeKeyValue(t(k), y(k)) \in Seq(Byte)
    BY <1>2, KeyValueBytes
  <2>2. QED
    BY <1>1, <2>1
<1>5. \A k \in 1 .. n : A[k] = EncodeKeyValue(t(k), x(k)) /\ B[k] = EncodeKeyValue(t(k), y(k))
  OBVIOUS
<1> HIDE DEF n, t, x, y, A, B
<1>6. FlattenSeq(A) # Failed
  <2>1. FlattenSeq(A) \in Seq(Byte)
    BY <1>4, FlattenIs
  <2>2. Byte \subseteq Int
    BY Bases DEF Byte
  <2>3. FlattenSeq(A) \in Seq(Int)
    BY <2>1, <2>2, SeqSubset
  <2>4. QED
    BY <2>3, FieldCodecAssumption
<1>7. ASSUME \A k \in 1 .. n : Told(t(k), x(k)) = Told(t(k), y(k)) PROVE A = B
  <2>1. \A k \in 1 .. n : A[k] = B[k]
    BY <1>2, <1>5, <1>7, KeyValueTold
  <2>2. QED
    BY <1>4, <2>1
<1>8. ASSUME FlattenSeq(A) = FlattenSeq(B) PROVE \A k \in 1 .. n : Told(t(k), x(k)) = Told(t(k), y(k))
  <2> DEFINE w == FlattenSeq(A)
  <2>1. PICK e \in [0 .. n -> Nat] :
          /\ e[0] = 0 /\ \A k \in 1 .. n : e[k] = e[k - 1] + Len(A[k])
          /\ w \in Seq(Byte) /\ \A k \in 1 .. n : At(w, e[k - 1], A[k])
    BY <1>4, FlattenIs
  <2>2. PICK f \in [0 .. n -> Nat] :
          /\ f[0] = 0 /\ \A k \in 1 .. n : f[k] = f[k - 1] + Len(B[k])
          /\ \A k \in 1 .. n : At(w, f[k - 1], B[k])
    BY <1>4, <1>8, FlattenIs
  <2> HIDE DEF w
  <2>3. ASSUME NEW k \in 1 .. n, e[k - 1] = f[k - 1]
        PROVE  Told(t(k), x(k)) = Told(t(k), y(k)) /\ e[k] = f[k]
    <3> DEFINE off == e[k - 1]
    <3>1. off \in Nat /\ At(w, off, A[k]) /\ At(w, off, B[k])
      <4>1. k - 1 \in 0 .. n
        BY <1>1
      <4>2. QED
        BY <2>1, <2>2, <2>3, <4>1
    <3> HIDE DEF off
    <3>2. Told(t(k), x(k)) = Told(t(k), y(k))
      BY <1>2, <1>5, <2>1, <3>1, KeyValueApart
    <3>3. A[k] = B[k]
      BY <1>2, <1>5, <3>2, KeyValueTold
    <3>4. QED
      BY <2>1, <2>2, <2>3, <3>2, <3>3
  <2> DEFINE T == {k \in 0 .. n : e[k] = f[k]}
  <2>4. 0 \in T
    BY <1>1, <2>1, <2>2
  <2>5. ASSUME NEW k \in 0 .. n - 1, k \in T PROVE k + 1 \in T
    <3>1. k + 1 \in 1 .. n /\ k + 1 \in 0 .. n /\ (k + 1) - 1 = k
      BY <1>1
    <3>2. QED
      BY <2>3, <2>5, <3>1
  <2>6. \A k \in 0 .. n : k \in T
    <3> HIDE DEF T
    <3>1. QED
      BY <1>1, <2>4, <2>5, UpTo
  <2>7. ASSUME NEW k \in 1 .. n PROVE Told(t(k), x(k)) = Told(t(k), y(k))
    <3>1. k - 1 \in 0 .. n
      BY <1>1
    <3>2. QED
      BY <2>3, <2>6, <3>1
  <2>8. QED
    BY <2>7
<1>9. QED
  BY <1>3, <1>6, <1>7, <1>8 DEF n, t, x, y

-------------------------------------------------------------------------------
(* Rows *)

(* The digits of a number are those it was made of. *)
LEMMA DigitsOfNumber ==
  ASSUME NEW b \in Nat, b >= 2, NEW digits \in Seq(0 .. b - 1)
  PROVE  /\ Number(digits, b) \in Nat /\ Number(digits, b) < Power(b, Len(digits))
         /\ \A j \in 1 .. Len(digits) : Digit(Number(digits, b), b, j) = digits[j]
<1> DEFINE n == Len(digits)
<1>0. n \in Nat /\ b >= 1 /\ \A i \in 1 .. n : digits[i] \in 0 .. b - 1
  OBVIOUS
<1>1. digits \in Seq(Int)
  <2>1. 0 .. b - 1 \subseteq Int
    OBVIOUS
  <2>2. QED
    BY <2>1, SeqSubset
<1>2. PICK f : /\ f \in [0 .. n -> Nat] /\ f[0] = 0
               /\ \A i \in 1 .. n : f[i] = f[i - 1] + (digits[i] % b) * Power(b, i - 1)
               /\ Number(digits, b) = f[n]
  BY <1>0, <1>1, NumberStep
<1> HIDE DEF n
<1>3. \A i \in 0 .. n - 1 : f[i + 1] = f[i] + digits[i + 1] * Power(b, i)
  <2>1. SUFFICES ASSUME NEW i \in 0 .. n - 1 PROVE f[i + 1] = f[i] + digits[i + 1] * Power(b, i)
    OBVIOUS
  <2>2. i + 1 \in 1 .. n /\ (i + 1) - 1 = i
    BY <1>0
  <2>3. digits[i + 1] % b = digits[i + 1]
    BY <1>0, <2>2, Small
  <2>4. QED
    BY <1>2, <2>2, <2>3
<1>4. \A i \in 0 .. n : Power(b, i) \in Nat /\ Power(b, i) >= 1
  <2>1. TAKE i \in 0 .. n
  <2>2. i \in Nat
    BY <1>0
  <2>3. QED
    BY <1>0, <2>2, PowerPositive
<1>5. \A i \in 0 .. n : f[i] < Power(b, i)
  <2> DEFINE S == {i \in 0 .. n : f[i] < Power(b, i)}
  <2>1. 0 \in S
    BY <1>0, <1>2, PowerStep
  <2>2. ASSUME NEW i \in 0 .. n - 1, i \in S PROVE i + 1 \in S
    <3> DEFINE p == Power(b, i)
               d == digits[i + 1]
    <3>1. i + 1 \in 1 .. n /\ i + 1 \in 0 .. n /\ i \in Nat /\ i \in 0 .. n
      BY <1>0
    <3>2. p \in Nat /\ d \in 0 .. b - 1 /\ f[i] \in Nat /\ f[i] < p /\ f[i + 1] = f[i] + d * p
      BY <1>0, <1>2, <1>3, <1>4, <2>2, <3>1
    <3>3. Power(b, i + 1) = b * p
      BY <3>1, PowerStep
    <3> HIDE DEF p, d
    <3>4. d * p <= (b - 1) * p /\ (b - 1) * p = b * p - p /\ d * p \in Nat /\ b * p \in Nat
      BY <3>2
    <3>5. f[i + 1] < b * p
      <4> DEFINE x == f[i]
                 y == d * p
                 z == b * p
      <4>1. x \in Nat /\ y \in Nat /\ z \in Nat /\ x < p /\ y <= z - p /\ f[i + 1] = x + y
        BY <3>2, <3>4
      <4> HIDE DEF x, y, z
      <4>2. x + y < z
        BY <3>2, <4>1
      <4>3. QED
        BY <4>1, <4>2 DEF z
    <3>6. QED
      BY <3>1, <3>3, <3>5
  <2>3. \A i \in 0 .. n : i \in S
    <3> HIDE DEF S
    <3>1. QED
      BY <1>0, <2>1, <2>2, UpTo
  <2>4. QED
    BY <2>3
<1>6. ASSUME NEW j \in 1 .. n PROVE Digit(f[n], b, j) = digits[j]
  <2> DEFINE p == Power(b, j - 1)
             d == digits[j]
             T == {x \in 0 .. n - j : \E k \in Nat : f[j + x] = (k * b + d) * p + f[j - 1]}
  <2>1. j - 1 \in Nat /\ j - 1 \in 0 .. n - 1 /\ j - 1 \in 0 .. n /\ (j - 1) + 1 = j /\ j + 0 = j /\ n - j \in Nat
    BY <1>0
  <2>2. p \in Nat /\ p >= 1 /\ d \in 0 .. b - 1 /\ f[j - 1] \in Nat /\ f[j - 1] < p
    BY <1>0, <1>2, <1>4, <1>5, <2>1
  <2>3. f[j] = f[j - 1] + d * p
    BY <1>3, <2>1
  <2> HIDE DEF p, d
  <2>4. 0 \in T
    <3>1. f[j + 0] = (0 * b + d) * p + f[j - 1]
      BY <2>1, <2>2, <2>3
    <3>2. QED
      BY <2>1, <3>1
  <2>5. ASSUME NEW x \in 0 .. (n - j) - 1, x \in T PROVE x + 1 \in T
    <3>1. PICK k \in Nat : f[j + x] = (k * b + d) * p + f[j - 1]
      BY <2>5
    <3>2. j + x \in 0 .. n - 1 /\ (j + x) + 1 = j + (x + 1) /\ x + 1 \in 0 .. n - j /\ x \in Nat /\ (j + x) + 1 \in 1 .. n
      BY <1>0
    <3> DEFINE e == digits[(j + x) + 1]
               q == Power(b, x)
    <3>3. e \in Nat /\ q \in Nat
      <4>1. e \in 0 .. b - 1
        BY <1>0, <3>2
      <4>2. q \in Nat
        BY <1>0, <3>2, PowerPositive
      <4>3. QED
        BY <4>1, <4>2
    <3>4. Power(b, j + x) = (b * p) * q
      <4>1. Power(b, j) = b * p
        BY <2>1, PowerStep DEF p
      <4>2. Power(b, j + x) = Power(b, j) * q
        BY <2>1, <3>2, PowerSum
      <4>3. QED
        BY <4>1, <4>2
    <3>5. f[(j + x) + 1] = f[j + x] + e * Power(b, j + x)
      BY <1>3, <3>2
    <3> HIDE DEF e, q
    <3>6. k + e * q \in Nat
      BY <3>3
    <3>7. f[j + (x + 1)] = ((k + e * q) * b + d) * p + f[j - 1]
      <4>1. e * ((b * p) * q) = ((e * q) * b) * p
        BY <2>2, <3>3
      <4> DEFINE g == e * q
      <4>2. g \in Nat
        BY <3>3
      <4>3. f[j + (x + 1)] = ((k * b + d) * p + f[j - 1]) + (g * b) * p
        BY <3>1, <3>2, <3>4, <3>5, <4>1
      <4> HIDE DEF g
      <4>4. ((k + g) * b + d) * p = (k * b + d) * p + (g * b) * p
        BY <2>2, <4>2
      <4>5. (k * b + d) * p \in Nat /\ (g * b) * p \in Nat
        <5> DEFINE u == k * b
                   v == g * b
        <5>1. u \in Nat /\ v \in Nat /\ d \in Nat /\ p \in Nat
          BY <2>2, <4>2
        <5> HIDE DEF u, v
        <5>2. u + d \in Nat
          BY <5>1
        <5>3. (u + d) * p \in Nat /\ v * p \in Nat
          BY <5>1, <5>2
        <5>4. QED
          BY <5>3 DEF u, v
      <4>6. f[j + (x + 1)] = ((k + g) * b + d) * p + f[j - 1]
        BY <2>2, <4>3, <4>4, <4>5
      <4>7. QED
        BY <4>6 DEF g
    <3>8. QED
      BY <3>2, <3>6, <3>7
  <2>6. \A x \in 0 .. n - j : x \in T
    <3> HIDE DEF T
    <3>1. QED
      BY <2>1, <2>4, <2>5, UpTo
  <2>7. PICK k \in Nat : f[n] = (k * b + d) * p + f[j - 1]
    <3>0. n - j \in 0 .. n - j /\ j + (n - j) = n
      BY <1>0, <2>1
    <3>1. n - j \in T
      BY <2>6, <3>0
    <3>2. QED
      BY <3>0, <3>1
  <2>8. k * b + d \in Int /\ f[n] \in Int /\ f[j - 1] \in 0 .. p - 1
    BY <1>0, <1>2, <2>2
  <2>9. f[n] \div p = k * b + d
    BY <2>2, <2>7, <2>8, QuotientIs
  <2>10. (k * b + d) % b = d
    <3>1. b \in Nat /\ b >= 1 /\ k \in Int /\ d \in 0 .. b - 1 /\ k * b + d = k * b + d /\ k * b + d \in Int
      BY <1>0, <2>2, <2>8
    <3> DEFINE v == k * b + d
    <3>2. v \in Int /\ v = k * b + d
      BY <3>1
    <3> HIDE DEF v
    <3>3. v % b = d
      BY <3>1, <3>2, QuotientIs
    <3>4. QED
      BY <3>3 DEF v
  <2>11. QED
    BY <2>9, <2>10 DEF Digit, p, d
<1>7. n \in 0 .. n
  BY <1>0
<1>8. QED
  BY <1>2, <1>5, <1>6, <1>7 DEF n

(* The flags of a row's parts tell which are null. *)
LEMMA NullBitsIs ==
  ASSUME NEW parts, NEW n \in Nat, Len(parts) = n, DOMAIN parts = 1 .. n
  PROVE  /\ NullBits(parts) \in Seq(Byte) /\ Len(NullBits(parts)) = NullBitsSize(n)
         /\ NullBitsSize(n) \in Nat
         /\ \A w : At(w, 0, NullBits(parts)) =>
              \A i \in 1 .. n : IsNull(w, i) <=> parts[i] = Null
<1> DEFINE flag(i) == IF i \in DOMAIN parts /\ parts[i] = Null THEN 1 ELSE 0
           flags(k) == [j \in 1 .. Bits |-> flag((k - 1) * Bits + j)]
           size == NullBitsSize(n)
           N == NullBits(parts)
<1>0. Bits \in Nat /\ Bits >= 1 /\ Bits >= 2
  BY Bases
<1>1. size \in Nat /\ size * Bits >= n
  <2> DEFINE v == n + Bits - 1
  <2>1. v \in Nat /\ v \in Int
    BY <1>0
  <2>3. size = v \div Bits
    BY DEF NullBitsSize
  <2>6. v = n + Bits - 1
    OBVIOUS
  <2> HIDE DEF v
  <2>2. v \div Bits \in Nat /\ v = (v \div Bits) * Bits + (v % Bits) /\ v % Bits \in 0 .. Bits - 1
    BY <1>0, <2>1, Division
  <2> HIDE DEF size
  <2>4. size \in Nat
    BY <2>2, <2>3
  <2>7. size * Bits \in Nat
    BY <1>0, <2>4
  <2>5. QED
    BY <1>0, <2>2, <2>3, <2>4, <2>6, <2>7
<1>2. N = [k \in 1 .. size |-> Number(flags(k), 2)]
  BY DEF NullBits
<1>3. \A i : flag(i) \in 0 .. 1
  OBVIOUS
<1>4. \A i \in 1 .. n : flag(i) = 1 <=> parts[i] = Null
  OBVIOUS
<1> HIDE DEF flag, size
<1>5. ASSUME NEW k \in 1 .. size
      PROVE  /\ Number(flags(k), 2) \in Byte
             /\ \A j \in 1 .. Bits : Digit(Number(flags(k), 2), 2, j) = flag((k - 1) * Bits + j)
  <2> DEFINE c == flags(k)
  <2>1. c \in Seq(0 .. 2 - 1) /\ Len(c) = Bits
    BY <1>0, <1>3
  <2>2. \A j \in 1 .. Bits : c[j] = flag((k - 1) * Bits + j)
    OBVIOUS
  <2> HIDE DEF c
  <2>3. /\ Number(c, 2) \in Nat /\ Number(c, 2) < Power(2, Bits)
        /\ \A j \in 1 .. Bits : Digit(Number(c, 2), 2, j) = c[j]
    BY <2>1, DigitsOfNumber
  <2>4. QED
    BY <2>2, <2>3, Bases DEF Byte, Base, c
<1> HIDE DEF flags, N
<1>6. N \in Seq(Byte) /\ Len(N) = size
  BY <1>1, <1>2, <1>5
<1>7. ASSUME NEW w, At(w, 0, N), NEW i \in 1 .. n PROVE IsNull(w, i) <=> parts[i] = Null
  <2> DEFINE q == (i - 1) \div Bits
             r == (i - 1) % Bits
  <2> HIDE DEF q, r
  <2> DEFINE v == i - 1
  <2>8. v \in Int /\ v \in Nat
    OBVIOUS
  <2> HIDE DEF v
  <2>9. v \div Bits \in Nat /\ v % Bits \in 0 .. Bits - 1 /\ v = (v \div Bits) * Bits + (v % Bits)
    BY <1>0, <2>8, Division
  <2>1. q \in Nat /\ r \in 0 .. Bits - 1 /\ i - 1 = q * Bits + r
    BY <2>9 DEF q, r, v
  <2>2. IsNull(w, i) <=> Digit(w[q + 1], 2, r + 1) = 1
    BY DEF IsNull, q, r
  <2>3. q + 1 \in 1 .. size
    <3>1. SUFFICES ASSUME q >= size PROVE FALSE
      BY <1>1, <2>1
    <3>2. q * Bits >= size * Bits /\ size * Bits \in Nat /\ q * Bits \in Nat
      BY <1>0, <1>1, <2>1, <3>1
    <3>3. QED
      BY <1>1, <2>1, <3>2
  <2>4. w[q + 1] = Number(flags(q + 1), 2)
    <3>1. w[0 + (q + 1)] = N[q + 1]
      BY <1>6, <1>7, <2>3 DEF At
    <3>2. 0 + (q + 1) = q + 1
      BY <2>1
    <3>3. QED
      BY <1>2, <2>3, <3>1, <3>2
  <2>5. r + 1 \in 1 .. Bits /\ ((q + 1) - 1) * Bits + (r + 1) = i
    <3>1. (q + 1) - 1 = q /\ q * Bits \in Nat
      BY <1>0, <2>1
    <3>2. QED
      BY <1>0, <2>1, <3>1
  <2>6. Digit(w[q + 1], 2, r + 1) = flag(i)
    BY <1>5, <2>3, <2>4, <2>5
  <2>7. QED
    BY <1>4, <2>2, <2>6
<1>8. QED
  BY <1>1, <1>6, <1>7 DEF N, size

(* Two functions that go on in the same way from the same start. *)
Together(f, g, n) == f[0] = g[0] /\ \A i \in 1 .. n : f[i - 1] = g[i - 1] => f[i] = g[i]

(* They are the same at every step. *)
LEMMA SameSteps ==
  ASSUME NEW n \in Nat, NEW f, NEW g, Together(f, g, n)
  PROVE  \A i \in 0 .. n : f[i] = g[i]
<1> DEFINE T == {i \in 0 .. n : f[i] = g[i]}
<1>1. 0 \in T
  BY DEF Together
<1>2. ASSUME NEW i \in 0 .. n - 1, i \in T PROVE i + 1 \in T
  <2>1. i + 1 \in 1 .. n /\ (i + 1) - 1 = i /\ i + 1 \in 0 .. n
    OBVIOUS
  <2>2. QED
    BY <1>2, <2>1 DEF Together
<1>3. \A i \in 0 .. n : i \in T
  <2> HIDE DEF T
  <2>1. QED
    BY <1>1, <1>2, UpTo
<1>4. QED
  BY <1>3

(* What is returned with an error is nothing else, and nil is no bytes. *)
LEMMA NoValue ==
  /\ Failed \notin Int /\ Failed \notin Seq(Int) /\ Null \notin Seq(Int) /\ Failed # Null
  /\ Failed \notin [value : Nat, size : Nat] /\ Failed \notin [bytes : Seq(Int), end : Nat]
  /\ Failed \notin [off : Nat] /\ Failed \notin [off : Nat, lengths : Seq(Nat)]
  /\ \A s \in Seq(Byte) : s \in Seq(Int) /\ s # Null /\ s # Failed
<1>1. Failed \in {Null, Failed, Misfit} /\ Null \in {Null, Failed, Misfit}
  OBVIOUS
<1>2. /\ Failed \notin Int /\ Failed \notin Seq(Int) /\ Null \notin Seq(Int)
      /\ Failed \notin [value : Nat, size : Nat] /\ Failed \notin [bytes : Seq(Int), end : Nat]
      /\ Failed \notin [off : Nat] /\ Failed \notin [off : Nat, lengths : Seq(Nat)]
  BY <1>1, FieldCodecAssumption
<1>3. Failed # Null
  <2>1. SUFFICES ASSUME Failed = Null PROVE FALSE
    OBVIOUS
  <2>2. {Null, Failed, Misfit} = {Failed, Misfit}
    BY <2>1
  <2>3. Cardinality({Failed, Misfit}) = 3
    BY <2>2, FieldCodecAssumption
  <2>4. Cardinality({Failed, Misfit}) <= 2
    <3>1. IsFiniteSet({Misfit}) /\ Cardinality({Misfit}) = 1
      BY FS_Singleton
    <3>2. {Failed, Misfit} = {Misfit} \cup {Failed}
      OBVIOUS
    <3>3. Cardinality({Misfit} \cup {Failed}) = IF Failed \in {Misfit} THEN 1 ELSE 2
      BY <3>1, FS_AddElement
    <3>4. QED
      BY <3>2, <3>3
  <2>5. QED
    BY <2>3, <2>4
<1>4. Byte \subseteq Int
  BY Bases DEF Byte
<1>5. \A s \in Seq(Byte) : s \in Seq(Int)
  BY <1>4, SeqSubset
<1>6. QED
  BY <1>2, <1>3, <1>5

(* The parts of a row that its layout has room for: in the indexed one of  *)
(* the width of the field, or of a length that the table holds; in the     *)
(* compacted one, parts that tell where they end.                          *)
Fits(fields, parts, indexed) ==
  /\ parts \in Seq(Seq(Byte) \cup {Null}) /\ Len(parts) = Len(fields)
  /\ \A i \in 1 .. Len(fields) : parts[i] # Null =>
       IF indexed
       THEN IF IsFixed(fields[i]) THEN Len(parts[i]) = FixedSize(fields[i])
            ELSE Len(parts[i]) < Power(Base, W32)
       ELSE \A rest \in Seq(Byte) : At(rest, 0, parts[i]) =>
              CompactedSize(fields[i], rest) = Len(parts[i])

(* The bytes in a row of a part that may be null. *)
Bytes(part) == IF part = Null THEN <<>> ELSE part

(* The parts of a row, and their bytes, are sequences. *)
LEMMA FitsParts ==
  ASSUME NEW fields \in Seq(FieldTypes), NEW parts, NEW indexed, Fits(fields, parts, indexed)
  PROVE  /\ Len(fields) \in Nat /\ DOMAIN fields = 1 .. Len(fields)
         /\ Len(parts) = Len(fields) /\ DOMAIN parts = 1 .. Len(fields)
         /\ parts = [i \in 1 .. Len(fields) |-> parts[i]]
         /\ \A i \in 1 .. Len(fields) :
              /\ fields[i] \in FieldTypes
              /\ parts[i] # Null => parts[i] \in Seq(Byte)
              /\ Bytes(parts[i]) \in Seq(Byte)
         /\ [i \in 1 .. Len(fields) |-> Bytes(parts[i])] \in Seq(Seq(Byte))
<1>1. /\ Len(fields) \in Nat /\ DOMAIN fields = 1 .. Len(fields)
      /\ \A i \in 1 .. Len(fields) : fields[i] \in FieldTypes
  OBVIOUS
<1>2. /\ Len(parts) = Len(fields) /\ DOMAIN parts = 1 .. Len(fields)
      /\ parts = [i \in 1 .. Len(fields) |-> parts[i]]
      /\ \A i \in 1 .. Len(fields) : parts[i] \in Seq(Byte) \cup {Null}
  <2>1. parts \in Seq(Seq(Byte) \cup {Null}) /\ Len(parts) = Len(fields)
    BY DEF Fits
  <2> DEFINE S == Seq(Byte) \cup {Null}
  <2> HIDE DEF S
  <2>2. parts \in Seq(S) => /\ DOMAIN parts = 1 .. Len(parts) /\ parts = [i \in 1 .. Len(parts) |-> parts[i]]
                            /\ \A i \in 1 .. Len(parts) : parts[i] \in S
    OBVIOUS
  <2>3. QED
    BY <2>1, <2>2 DEF S
<1>3. \A i \in 1 .. Len(fields) : Bytes(parts[i]) \in Seq(Byte)
  <2>1. <<>> \in Seq(Byte)
    OBVIOUS
  <2>2. QED
    BY <1>2, <2>1 DEF Bytes
<1> DEFINE B == Seq(Byte)
           n == Len(fields)
<1>4. \A i \in 1 .. n : Bytes(parts[i]) \in B
  BY <1>3
<1>5. n \in Nat
  OBVIOUS
<1> HIDE DEF B, n
<1>6. [i \in 1 .. n |-> Bytes(parts[i])] \in Seq(B)
  BY <1>4, <1>5
<1>7. QED
  BY <1>1, <1>2, <1>3, <1>6 DEF B, n

(* The entries of a row's table of lengths. *)
Entry(t, part) == IF part = Null \/ IsFixed(t) THEN <<>> ELSE Fixed(Len(part), W32)

(* An entry is of 32 bits, and tells the length of a part that is neither  *)
(* null nor of fixed width.                                                *)
LEMMA EntryIs ==
  ASSUME NEW fields \in Seq(FieldTypes), NEW parts, Fits(fields, parts, TRUE),
         NEW i \in 1 .. Len(fields)
  PROVE  /\ Entry(fields[i], parts[i]) \in Seq(Byte)
         /\ Len(Entry(fields[i], parts[i])) = IF IsFixed(fields[i]) \/ parts[i] = Null THEN 0 ELSE W32
         /\ parts[i] # Null /\ ~IsFixed(fields[i]) => Unsigned(Entry(fields[i], parts[i])) = Len(parts[i])
<1>1. CASE parts[i] = Null \/ IsFixed(fields[i])
  <2>1. Entry(fields[i], parts[i]) = <<>>
    BY <1>1 DEF Entry
  <2>2. QED
    BY <1>1, <2>1
<1>2. CASE ~(parts[i] = Null \/ IsFixed(fields[i]))
  <2> DEFINE l == Len(parts[i])
  <2>1. l \in Nat /\ l < Power(Base, W32)
    <3>1. parts[i] \in Seq(Byte)
      BY <1>2, FitsParts
    <3>2. l < Power(Base, W32)
      BY <1>2 DEF Fits
    <3>3. QED
      BY <3>1, <3>2
  <2>2. Entry(fields[i], parts[i]) = Fixed(l, W32)
    BY <1>2 DEF Entry
  <2>3. Power(Base, W32) \in Nat /\ Power(Base, W32) >= 1 /\ W32 \in Nat
    BY Ranges, Bases
  <2> HIDE DEF l
  <2>4. Fixed(l, W32) \in Seq(Byte) /\ Len(Fixed(l, W32)) = W32 /\ Unsigned(Fixed(l, W32)) = l % Power(Base, W32)
    BY <2>1, <2>3, FixedBytes
  <2> DEFINE r == Power(Base, W32)
  <2>5. r \in Nat /\ r >= 1 /\ l \in 0 .. r - 1
    BY <2>1, <2>3
  <2> HIDE DEF r
  <2>6. l % r = l
    BY <2>5, Small
  <2>7. QED
    BY <1>2, <2>2, <2>4, <2>6 DEF l, r
<1>3. QED
  BY <1>1, <1>2

(* What is found in bytes that are found in others. *)
LEMMA AtAt ==
  ASSUME NEW S, NEW w \in Seq(S), NEW size \in Nat, NEW b, Len(b) \in Nat, NEW m \in Nat,
         NEW c, Len(c) \in Nat, At(w, size, b), At(b, m, c)
  PROVE  At(w, size + m, c)
<1> DEFINE k == Len(c)
           l == Len(b)
<1>1. /\ m + k <= l /\ \A j \in 1 .. k : b[m + j] = c[j]
      /\ size + l <= Len(w) /\ \A j \in 1 .. l : w[size + j] = b[j]
  BY DEF At
<1>2. k \in Nat /\ l \in Nat /\ Len(w) \in Nat
  OBVIOUS
<1> HIDE DEF k, l
<1>3. (size + m) + k <= Len(w)
  BY <1>1, <1>2
<1>4. ASSUME NEW j \in 1 .. k PROVE w[(size + m) + j] = c[j]
  <2>1. m + j \in 1 .. l /\ (size + m) + j = size + (m + j)
    BY <1>1, <1>2
  <2>2. QED
    BY <1>1, <2>1
<1>5. QED
  BY <1>3, <1>4 DEF At, k

(* The number of some bytes. *)
LEMMA UnsignedIs ==
  ASSUME NEW s \in Seq(Byte)
  PROVE  Unsigned(s) \in Nat
<1>1. s \in Seq(Int)
  BY NoValue
<1>2. Base \in Nat /\ Base >= 1
  BY Bases
<1>3. PICK f : f \in [0 .. Len(s) -> Nat] /\ Number(s, Base) = f[Len(s)]
  BY <1>1, <1>2, NumberStep
<1>4. Len(s) \in 0 .. Len(s)
  OBVIOUS
<1>5. QED
  BY <1>3, <1>4 DEF Unsigned

(* The table of lengths is read as it was written, and it ends where the   *)
(* parts begin.                                                            *)
LEMMA LengthsAt ==
  ASSUME NEW fields \in Seq(FieldTypes), NEW parts, Fits(fields, parts, TRUE),
         NEW w \in Seq(Byte), NEW size \in Nat, size = NullBitsSize(Len(fields)),
         At(w, size, LengthTable(fields, parts)),
         \A i \in 1 .. Len(fields) : IsNull(w, i) <=> parts[i] = Null
  PROVE  /\ LengthTable(fields, parts) \in Seq(Byte)
         /\ \E lengths \in Seq(Nat) :
              /\ Lengths(fields, w) = [off |-> size + Len(LengthTable(fields, parts)), lengths |-> lengths]
              /\ \A i \in 1 .. Len(fields) : parts[i] # Null => lengths[i] = Len(parts[i])
<1> DEFINE n == Len(fields)
           seqs == [i \in 1 .. n |-> Entry(fields[i], parts[i])]
           table == LengthTable(fields, parts)
<1>1. /\ n \in Nat /\ DOMAIN fields = 1 .. n /\ DOMAIN parts = 1 .. n
      /\ \A i \in 1 .. n : fields[i] \in FieldTypes
      /\ \A i \in 1 .. n : parts[i] # Null => parts[i] \in Seq(Byte)
  BY FitsParts
<1>2. seqs \in Seq(Seq(Byte)) /\ Len(seqs) = n
  <2>1. \A i \in 1 .. n : Entry(fields[i], parts[i]) \in Seq(Byte)
    BY EntryIs
  <2> DEFINE B == Seq(Byte)
  <2> HIDE DEF B, n
  <2>2. seqs \in Seq(B) /\ Len(seqs) = n
    BY <1>1, <2>1 DEF B
  <2>3. QED
    BY <2>2 DEF B
<1>3. table = FlattenSeq(seqs)
  BY <1>1 DEF LengthTable, Entry
<1>4. \A i \in 1 .. n : seqs[i] = Entry(fields[i], parts[i])
  OBVIOUS
<1> HIDE DEF seqs, table
<1>5. PICK te \in [0 .. n -> Nat] :
        /\ te[0] = 0
        /\ \A i \in 1 .. n : te[i] = te[i - 1] + Len(seqs[i])
        /\ table \in Seq(Byte) /\ Len(table) = te[n]
        /\ \A i \in 1 .. n : At(table, te[i - 1], seqs[i])
  BY <1>2, <1>3, FlattenIs
<1> DEFINE more(i) == IF IsFixed(fields[i]) \/ IsNull(w, i) THEN 0 ELSE W32
           ends == CHOOSE g : g = [i \in 0 .. n |-> IF i = 0 THEN NullBitsSize(n) ELSE g[i - 1] + more(i)]
           len(i) == IF IsFixed(fields[i]) THEN FixedSize(fields[i])
                     ELSE Unsigned(SubSeq(w, ends[i - 1] + 1, ends[i]))
           lengths == [i \in 1 .. n |-> len(i)]
<1>6. Lengths(fields, w) = IF ends[n] > Len(w) THEN Failed ELSE [off |-> ends[n], lengths |-> lengths]
  BY <1>1 DEF Lengths
<1>7. \A i \in 1 .. n : Len(seqs[i]) = more(i)
  BY <1>4, EntryIs
<1> HIDE DEF n
<1>8. \A i \in 0 .. n : ends[i] = size + te[i]
  <2> DEFINE g == [i \in 0 .. n |-> size + te[i]]
  <2>1. ASSUME NEW i \in 0 .. n PROVE g[i] = IF i = 0 THEN NullBitsSize(n) ELSE g[i - 1] + more(i)
    <3>1. CASE i = 0
      <4>1. g[i] = size + 0
        BY <1>5, <3>1
      <4>2. size = NullBitsSize(n)
        BY DEF n
      <4>3. QED
        BY <3>1, <4>1, <4>2
    <3>2. CASE i # 0
      <4>1. i \in 1 .. n /\ i - 1 \in 0 .. n
        BY <1>1, <3>2
      <4>2. te[i] = te[i - 1] + more(i) /\ te[i - 1] \in Nat /\ more(i) \in Nat
        <5>1. W32 \in Nat
          BY Bases
        <5>2. QED
          BY <1>5, <1>7, <4>1, <5>1
      <4> HIDE DEF more
      <4>3. g[i] = g[i - 1] + more(i)
        BY <4>1, <4>2
      <4>4. QED
        BY <3>2, <4>3
    <3>3. QED
      BY <3>1, <3>2
  <2>2. g = [i \in 0 .. n |-> g[i]]
    OBVIOUS
  <2>3. \A i \in 0 .. n : g[i] = size + te[i]
    OBVIOUS
  <2> HIDE DEF g, more
  <2>4. g = [i \in 0 .. n |-> IF i = 0 THEN NullBitsSize(n) ELSE g[i - 1] + more(i)]
    BY <2>1, <2>2
  <2>5. ends = [i \in 0 .. n |-> IF i = 0 THEN NullBitsSize(n) ELSE ends[i - 1] + more(i)]
    BY <2>4
  <2> HIDE DEF ends
  <2>6. \A i \in 0 .. n : ends[i] = IF i = 0 THEN NullBitsSize(n) ELSE ends[i - 1] + more(i)
    BY <2>5
  <2>7. \A i \in 0 .. n : ends[i] = g[i]
    <3>1. ends[0] = g[0]
      <4>1. 0 \in 0 .. n
        BY <1>1
      <4>2. QED
        BY <2>1, <2>6, <4>1
    <3>2. \A i \in 1 .. n : ends[i - 1] = g[i - 1] => ends[i] = g[i]
      <4>1. \A i \in 1 .. n : i \in 0 .. n /\ i # 0
        BY <1>1
      <4>2. QED
        BY <2>1, <2>6, <4>1
    <3>3. n \in Nat
      BY <1>1
    <3>4. Together(ends, g, n)
      BY <3>1, <3>2 DEF Together
    <3>5. QED
      BY <3>3, <3>4, SameSteps
  <2>8. QED
    BY <2>3, <2>7
<1> HIDE DEF ends
<1>9. /\ ends[n] = size + Len(table) /\ ~(ends[n] > Len(w)) /\ n \in 0 .. n
      /\ size + Len(table) <= Len(w)
  <2>1. n \in 0 .. n
    BY <1>1
  <2>2. size + Len(table) <= Len(w)
    BY DEF At, table
  <2>3. ends[n] = size + Len(table) /\ Len(table) \in Nat
    BY <1>5, <1>8, <2>1
  <2> HIDE DEF table
  <2>4. QED
    BY <2>1, <2>2, <2>3
<1>10. ASSUME NEW i \in 1 .. n
       PROVE  len(i) \in Nat /\ (parts[i] # Null => len(i) = Len(parts[i]))
  <2>1. i - 1 \in 0 .. n /\ i \in 0 .. n
    BY <1>1
  <2>2. CASE IsFixed(fields[i])
    <3>1. FixedSize(fields[i]) \in Nat
      BY Bases DEF FixedSize
    <3>2. len(i) = FixedSize(fields[i])
      BY <2>2
    <3>3. parts[i] # Null => Len(parts[i]) = FixedSize(fields[i])
      BY <2>2 DEF Fits, n
    <3>4. QED
      BY <3>1, <3>2, <3>3
  <2>3. CASE ~IsFixed(fields[i])
    <3> DEFINE off == size + te[i - 1]
               c == Entry(fields[i], parts[i])
    <3>1. off \in Nat /\ c \in Seq(Byte) /\ te[i] = te[i - 1] + Len(c) /\ te[i - 1] \in Nat
      <4>1. c \in Seq(Byte)
        BY EntryIs DEF n
      <4>2. te[i - 1] \in Nat
        BY <2>1
      <4>3. te[i] = te[i - 1] + Len(seqs[i])
        BY <1>5
      <4>4. seqs[i] = c
        BY <1>4
      <4> HIDE DEF c
      <4>5. te[i] = te[i - 1] + Len(c)
        BY <4>3, <4>4
      <4>6. off \in Nat
        BY <4>2
      <4>7. QED
        BY <4>1, <4>2, <4>5, <4>6
    <3>2. len(i) = Unsigned(SubSeq(w, off + 1, off + Len(c)))
      <4>1. ends[i - 1] = off /\ ends[i] = off + Len(c)
        BY <1>8, <2>1, <3>1
      <4>2. QED
        BY <2>3, <4>1
    <3>3. At(w, off, c)
      <4>1. At(table, te[i - 1], c)
        BY <1>4, <1>5
      <4>2. At(w, size, table)
        BY DEF table
      <4>3. Len(table) \in Nat /\ te[i - 1] \in Nat /\ Len(c) \in Nat
        BY <1>5, <3>1
      <4> HIDE DEF c
      <4>4. QED
        BY <4>1, <4>2, <4>3, AtAt DEF off
    <3> HIDE DEF off, c
    <3>4. SubSeq(w, off + 1, off + Len(c)) = c
      BY <3>1, <3>3, AtSub
    <3>5. Unsigned(c) \in Nat
      BY <3>1, UnsignedIs
    <3>6. parts[i] # Null => Unsigned(c) = Len(parts[i])
      BY <2>3, EntryIs DEF c, n
    <3>7. QED
      BY <3>2, <3>4, <3>5, <3>6
  <2>4. QED
    BY <2>2, <2>3
<1> HIDE DEF len
<1>11. lengths \in Seq(Nat) /\ \A i \in 1 .. n : lengths[i] = len(i)
  BY <1>1, <1>10
<1> HIDE DEF lengths
<1>12. Lengths(fields, w) = [off |-> size + Len(table), lengths |-> lengths]
  BY <1>6, <1>9
<1>13. QED
  BY <1>5, <1>10, <1>11, <1>12 DEF n, table

(* A field is found to end where its part does. *)
LEMMA FieldEndIs ==
  ASSUME NEW fields \in Seq(FieldTypes), NEW parts, NEW indexed \in BOOLEAN,
         Fits(fields, parts, indexed), NEW i \in 1 .. Len(fields),
         NEW w \in Seq(Byte), NEW off \in Nat, At(w, off, Bytes(parts[i])),
         IsNull(w, i) <=> parts[i] = Null,
         NEW table, indexed /\ parts[i] # Null => table.lengths[i] = Len(parts[i])
  PROVE  FieldEnd(fields, i, w, off, table, indexed) = off + Len(Bytes(parts[i]))
<1>1. CASE parts[i] = Null
  <2>1. Bytes(parts[i]) = <<>>
    BY <1>1 DEF Bytes
  <2>2. FieldEnd(fields, i, w, off, table, indexed) = off
    BY <1>1 DEF FieldEnd
  <2>3. QED
    BY <2>1, <2>2
<1>2. CASE parts[i] # Null
  <2> DEFINE c == parts[i]
             size == IF indexed THEN table.lengths[i] ELSE CompactedSize(fields[i], After(w, off))
  <2>1. c \in Seq(Byte) /\ Len(c) \in Nat /\ Bytes(c) = c /\ At(w, off, c) /\ off + Len(c) <= Len(w)
    <3>1. c \in Seq(Byte)
      BY <1>2, FitsParts
    <3>2. Bytes(c) = c
      BY <1>2 DEF Bytes
    <3>3. At(w, off, c)
      BY <3>2
    <3>4. off + Len(c) <= Len(w)
      BY <3>3 DEF At
    <3>5. QED
      BY <3>1, <3>2, <3>3, <3>4
  <2>2. size = Len(c)
    <3>1. CASE indexed
      BY <1>2, <3>1
    <3>2. CASE ~indexed
      <4>1. \A rest \in Seq(Byte) : At(rest, 0, c) => CompactedSize(fields[i], rest) = Len(c)
        BY <1>2, <3>2 DEF Fits
      <4> HIDE DEF c
      <4>2. At(w, off + 0, c)
        BY <2>1
      <4>3. After(w, off) \in Seq(Byte) /\ At(After(w, off), 0, c)
        BY <2>1, <4>2, AtAfter
      <4>4. QED
        BY <3>2, <4>1, <4>3
    <3>3. QED
      BY <3>1, <3>2
  <2>3. FieldEnd(fields, i, w, off, table, indexed)
          = IF size = Failed THEN Failed ELSE IF off + size > Len(w) THEN Failed ELSE off + size
    BY <1>2 DEF FieldEnd, Then
  <2> HIDE DEF size, c
  <2>4. size # Failed /\ ~(off + size > Len(w))
    <3>1. size \in Int
      BY <2>1, <2>2
    <3>2. size # Failed
      BY <3>1, NoValue
    <3>3. QED
      BY <2>1, <2>2, <3>2
  <2>5. QED
    BY <2>1, <2>2, <2>3, <2>4 DEF c
<1>3. QED
  BY <1>1, <1>2

(* The fields of a row, one after the other, are its parts. *)
LEMMA FieldsSplit ==
  ASSUME NEW fields \in Seq(FieldTypes), NEW parts, NEW indexed \in BOOLEAN,
         Fits(fields, parts, indexed), NEW w \in Seq(Byte), NEW off \in Nat,
         At(w, off, FlattenSeq([i \in 1 .. Len(fields) |-> Bytes(parts[i])])),
         \A i \in 1 .. Len(fields) : IsNull(w, i) <=> parts[i] = Null,
         NEW table, table.off = off,
         \A i \in 1 .. Len(fields) : indexed /\ parts[i] # Null => table.lengths[i] = Len(parts[i])
  PROVE  SplitFields(fields, w, table, indexed) = parts
<1> DEFINE n == Len(fields)
           seqs == [i \in 1 .. n |-> Bytes(parts[i])]
           all == FlattenSeq(seqs)
<1>1. /\ n \in Nat /\ DOMAIN fields = 1 .. n /\ seqs \in Seq(Seq(Byte)) /\ Len(seqs) = n
      /\ \A i \in 1 .. n : parts[i] # Null => parts[i] \in Seq(Byte)
      /\ parts = [i \in 1 .. n |-> parts[i]]
  <2>1. Len(seqs) = n
    OBVIOUS
  <2>2. QED
    BY <2>1, FitsParts
<1>2. \A i \in 1 .. n : seqs[i] = Bytes(parts[i])
  OBVIOUS
<1>3. At(w, off, all)
  OBVIOUS
<1> HIDE DEF seqs
<1>4. PICK pe \in [0 .. n -> Nat] :
        /\ pe[0] = 0
        /\ \A i \in 1 .. n : pe[i] = pe[i - 1] + Len(seqs[i])
        /\ all \in Seq(Byte) /\ Len(all) = pe[n]
        /\ \A i \in 1 .. n : At(all, pe[i - 1], seqs[i])
  BY <1>1, FlattenIs
<1> DEFINE next(i, o) == IF o = Failed THEN Failed ELSE FieldEnd(fields, i, w, o, table, indexed)
           ends == CHOOSE g : g = [i \in 0 .. n |-> IF i = 0 THEN table.off ELSE next(i, g[i - 1])]
<1>5. SplitFields(fields, w, table, indexed)
        = IF ends[n] = Failed THEN Failed
          ELSE [i \in 1 .. n |-> IF IsNull(w, i) THEN Null ELSE SubSeq(w, ends[i - 1] + 1, ends[i])]
  BY <1>1 DEF SplitFields, Then
<1> HIDE DEF n, all
<1>6. ASSUME NEW i \in 1 .. n
      PROVE  /\ i \in 0 .. n /\ i - 1 \in 0 .. n /\ pe[i - 1] \in Nat /\ off + pe[i - 1] \in Nat
             /\ At(w, off + pe[i - 1], Bytes(parts[i])) /\ Len(Bytes(parts[i])) \in Nat
             /\ off + pe[i] = (off + pe[i - 1]) + Len(Bytes(parts[i]))
  <2>1. i \in 0 .. n /\ i - 1 \in 0 .. n
    BY <1>1
  <2>2. pe[i - 1] \in Nat /\ off + pe[i - 1] \in Nat
    BY <2>1
  <2>3. Len(Bytes(parts[i])) \in Nat
    <3>1. seqs[i] \in Seq(Byte)
      BY <1>1
    <3>2. QED
      BY <1>2, <3>1
  <2>4. off + pe[i] = (off + pe[i - 1]) + Len(Bytes(parts[i]))
    <3>1. pe[i] = pe[i - 1] + Len(seqs[i])
      BY <1>4
    <3>2. seqs[i] = Bytes(parts[i])
      BY <1>2
    <3>3. pe[i] = pe[i - 1] + Len(Bytes(parts[i]))
      BY <3>1, <3>2
    <3>4. QED
      BY <2>2, <2>3, <3>3
  <2>5. At(all, pe[i - 1], Bytes(parts[i])) /\ Len(all) \in Nat
    BY <1>2, <1>4
  <2>6. At(w, off + pe[i - 1], Bytes(parts[i]))
    BY <1>3, <2>2, <2>3, <2>5, AtAt
  <2>7. QED
    BY <2>1, <2>2, <2>3, <2>4, <2>6
<1>7. ASSUME NEW i \in 1 .. n PROVE next(i, off + pe[i - 1]) = off + pe[i]
  <2>1. FieldEnd(fields, i, w, off + pe[i - 1], table, indexed)
          = (off + pe[i - 1]) + Len(Bytes(parts[i]))
    BY <1>6, FieldEndIs DEF n
  <2>2. off + pe[i - 1] # Failed
    BY <1>6, NoValue
  <2>3. QED
    BY <1>6, <2>1, <2>2
<1> HIDE DEF next
<1>8. \A i \in 0 .. n : ends[i] = off + pe[i]
  <2> DEFINE g == [i \in 0 .. n |-> off + pe[i]]
  <2>1. ASSUME NEW i \in 0 .. n PROVE g[i] = IF i = 0 THEN table.off ELSE next(i, g[i - 1])
    <3>1. CASE i = 0
      BY <1>4, <3>1
    <3>2. CASE i # 0
      <4>1. i \in 1 .. n /\ i - 1 \in 0 .. n
        BY <1>1, <3>2
      <4>2. QED
        BY <1>7, <3>2, <4>1
    <3>3. QED
      BY <3>1, <3>2
  <2>2. g = [i \in 0 .. n |-> g[i]]
    OBVIOUS
  <2>3. \A i \in 0 .. n : g[i] = off + pe[i]
    OBVIOUS
  <2> HIDE DEF g
  <2>4. g = [i \in 0 .. n |-> IF i = 0 THEN table.off ELSE next(i, g[i - 1])]
    BY <2>1, <2>2
  <2>5. ends = [i \in 0 .. n |-> IF i = 0 THEN table.off ELSE next(i, ends[i - 1])]
    BY <2>4
  <2> HIDE DEF ends
  <2>6. \A i \in 0 .. n : ends[i] = IF i = 0 THEN table.off ELSE next(i, ends[i - 1])
    BY <2>5
  <2>7. Together(ends, g, n)
    <3>1. ends[0] = g[0]
      <4>1. 0 \in 0 .. n
        BY <1>1
      <4>2. QED
        BY <2>1, <2>6, <4>1
    <3>2. \A i \in 1 .. n : ends[i - 1] = g[i - 1] => ends[i] = g[i]
      <4>1. \A i \in 1 .. n : i \in 0 .. n /\ i # 0
        BY <1>1
      <4>2. QED
        BY <2>1, <2>6, <4>1
    <3>3. QED
      BY <3>1, <3>2 DEF Together
  <2>8. n \in Nat
    BY <1>1
  <2>9. \A i \in 0 .. n : ends[i] = g[i]
    BY <2>7, <2>8, SameSteps
  <2>10. QED
    BY <2>3, <2>9
<1> HIDE DEF ends
<1>9. ends[n] # Failed
  <2>1. n \in 0 .. n
    BY <1>1
  <2>2. ends[n] \in Int
    BY <1>4, <1>8, <2>1
  <2>3. QED
    BY <2>2, NoValue
<1>10. ASSUME NEW i \in 1 .. n
       PROVE  (IF IsNull(w, i) THEN Null ELSE SubSeq(w, ends[i - 1] + 1, ends[i])) = parts[i]
  <2>1. CASE parts[i] = Null
    BY <2>1 DEF n
  <2>2. CASE parts[i] # Null
    <3> DEFINE c == parts[i]
               o == off + pe[i - 1]
    <3>1. ends[i - 1] = o /\ ends[i] = o + Len(c) /\ o \in Nat /\ At(w, o, c) /\ c \in Seq(Byte)
      <4>1. Bytes(parts[i]) = parts[i]
        BY <2>2 DEF Bytes
      <4>2. QED
        BY <1>1, <1>6, <1>8, <2>2, <4>1
    <3> HIDE DEF c, o
    <3>2. SubSeq(w, o + 1, o + Len(c)) = c
      BY <3>1, AtSub
    <3>3. QED
      BY <2>2, <3>1, <3>2 DEF c, n
  <2>3. QED
    BY <2>1, <2>2
<1>11. [i \in 1 .. n |-> IF IsNull(w, i) THEN Null ELSE SubSeq(w, ends[i - 1] + 1, ends[i])]
         = [i \in 1 .. n |-> parts[i]]
  BY <1>10
<1>12. QED
  BY <1>1, <1>5, <1>9, <1>11

(* The table of lengths is bytes. *)
LEMMA TableBytes ==
  ASSUME NEW fields \in Seq(FieldTypes), NEW parts, Fits(fields, parts, TRUE)
  PROVE  LengthTable(fields, parts) \in Seq(Byte)
<1> DEFINE n == Len(fields)
           seqs == [i \in 1 .. n |-> Entry(fields[i], parts[i])]
           B == Seq(Byte)
<1>1. n \in Nat /\ DOMAIN parts = 1 .. n
  BY FitsParts
<1>2. \A i \in 1 .. n : Entry(fields[i], parts[i]) \in B
  BY EntryIs
<1>3. LengthTable(fields, parts) = FlattenSeq(seqs)
  BY <1>1 DEF LengthTable, Entry
<1> HIDE DEF B, n
<1>4. seqs \in Seq(B)
  BY <1>1, <1>2
<1> HIDE DEF seqs
<1>5. FlattenSeq(seqs) \in B
  BY <1>4, FlattenIs DEF B
<1>6. QED
  BY <1>3, <1>5 DEF B

(* A row is taken apart into the parts it was put together of: whichever   *)
(* are null, however long they are, and whatever bytes come after it, each *)
(* field is read from its own bytes (row.go, encode and decode of rows).   *)
THEOREM RowsSplit ==
  ASSUME NEW fields \in Seq(FieldTypes), NEW parts, NEW indexed \in BOOLEAN,
         Fits(fields, parts, indexed),
         NEW w \in Seq(Byte), At(w, 0, JoinRow(fields, parts, indexed))
  PROVE  SplitRow(fields, w, indexed) = parts
<1> DEFINE n == Len(fields)
           size == NullBitsSize(n)
           N == NullBits(parts)
           T == IF indexed THEN LengthTable(fields, parts) ELSE <<>>
           F == FlattenSeq([i \in 1 .. n |-> Bytes(parts[i])])
           off == size + Len(T)
<1>1. /\ n \in Nat /\ DOMAIN fields = 1 .. n /\ DOMAIN parts = 1 .. n /\ Len(parts) = n
      /\ [i \in 1 .. n |-> Bytes(parts[i])] \in Seq(Seq(Byte))
  BY FitsParts
<1>2. /\ N \in Seq(Byte) /\ Len(N) = size /\ size \in Nat
      /\ At(w, 0, N) => \A i \in 1 .. n : IsNull(w, i) <=> parts[i] = Null
  <2> HIDE DEF n
  <2>1. /\ NullBits(parts) \in Seq(Byte) /\ Len(NullBits(parts)) = NullBitsSize(n)
        /\ NullBitsSize(n) \in Nat
        /\ \A v : At(v, 0, NullBits(parts)) => \A i \in 1 .. n : IsNull(v, i) <=> parts[i] = Null
    BY <1>1, NullBitsIs
  <2>2. QED
    BY <2>1
<1>3. T \in Seq(Byte)
  <2>1. CASE indexed
    BY <2>1, TableBytes
  <2>2. CASE ~indexed
    <3>1. T = <<>>
      BY <2>2
    <3> HIDE DEF T
    <3>2. <<>> \in Seq(Byte)
      OBVIOUS
    <3>3. QED
      BY <3>1, <3>2
  <2>3. QED
    BY <2>1, <2>2
<1>4. F \in Seq(Byte)
  <2> DEFINE seqs == [i \in 1 .. n |-> Bytes(parts[i])]
  <2>1. seqs \in Seq(Seq(Byte))
    BY <1>1
  <2> HIDE DEF seqs
  <2>2. FlattenSeq(seqs) \in Seq(Byte)
    BY <2>1, FlattenIs
  <2>3. QED
    BY <2>2 DEF seqs
<1>5. JoinRow(fields, parts, indexed) = (N \o T) \o F
  BY <1>1 DEF JoinRow, Bytes
<1> HIDE DEF N, T, F, size
<1>6. N \o T \in Seq(Byte) /\ Len(N \o T) = off /\ off \in Nat
  <2>1. N \o T \in Seq(Byte) /\ Len(N \o T) = Len(N) + Len(T) /\ Len(T) \in Nat
    <3> HIDE DEF off
    <3>1. N \in Seq(Byte) /\ T \in Seq(Byte)
      BY <1>2, <1>3
    <3>2. QED
      BY <3>1
  <2>2. off = Len(N) + Len(T) /\ off \in Nat
    BY <1>2, <2>1
  <2> HIDE DEF off
  <2>3. QED
    BY <2>1, <2>2
<1>7. At(w, 0, N) /\ At(w, size, T) /\ At(w, off, F)
  <2> DEFINE A == N \o T
  <2>1. A \in Seq(Byte) /\ Len(A) = off /\ At(w, 0, A \o F)
    BY <1>5, <1>6
  <2> HIDE DEF A, off
  <2>2. 0 \in Nat /\ 0 + off = off /\ 0 + size = size
    BY <1>2, <1>6
  <2>3. At(w, 0, A) /\ At(w, off, F)
    BY <1>4, <2>1, <2>2, AtConcat
  <2>4. At(w, 0, N) /\ At(w, size, T)
    BY <1>2, <1>3, <2>2, <2>3, AtConcat DEF A
  <2>5. QED
    BY <2>3, <2>4
<1>8. \A i \in 1 .. n : IsNull(w, i) <=> parts[i] = Null
  BY <1>2, <1>7
<1>9. ~(Len(w) < size)
  BY <1>2, <1>7 DEF At
<1> DEFINE table == IF indexed THEN Lengths(fields, w) ELSE [off |-> size]
<1>10. SplitRow(fields, w, indexed)
         = IF table = Failed THEN Failed ELSE SplitFields(fields, w, table, indexed)
  BY <1>9 DEF SplitRow, Then, size
<1>11. /\ table # Failed /\ table.off = off
       /\ \A i \in 1 .. n : indexed /\ parts[i] # Null => table.lengths[i] = Len(parts[i])
  <2>1. CASE indexed
    <3>1. T = LengthTable(fields, parts)
      BY <2>1 DEF T
    <3>2. \E lengths \in Seq(Nat) :
            /\ Lengths(fields, w) = [off |-> size + Len(LengthTable(fields, parts)), lengths |-> lengths]
            /\ \A i \in 1 .. Len(fields) : parts[i] # Null => lengths[i] = Len(parts[i])
      <4>1. At(w, size, LengthTable(fields, parts)) /\ Fits(fields, parts, TRUE)
        BY <1>7, <2>1, <3>1
      <4>2. size \in Nat /\ size = NullBitsSize(Len(fields))
        BY <1>2 DEF size
      <4>3. QED
        BY <1>8, <4>1, <4>2, LengthsAt
    <3>3. PICK lengths \in Seq(Nat) :
            /\ Lengths(fields, w) = [off |-> off, lengths |-> lengths]
            /\ \A i \in 1 .. n : parts[i] # Null => lengths[i] = Len(parts[i])
      BY <3>1, <3>2
    <3>4. table = [off |-> off, lengths |-> lengths]
      BY <2>1, <3>3
    <3> HIDE DEF table, off
    <3>5. table \in [off : Nat, lengths : Seq(Nat)]
      BY <1>6, <3>4
    <3>6. table # Failed
      BY <3>5, NoValue
    <3>7. QED
      BY <3>3, <3>4, <3>6
  <2>2. CASE ~indexed
    <3>1. table = [off |-> size] /\ off = size
      <4>1. Len(T) = 0
        BY <2>2 DEF T
      <4>2. QED
        BY <1>2, <2>2, <4>1
    <3>2. table \in [off : Nat]
      BY <1>2, <3>1
    <3> HIDE DEF table, off
    <3>3. table # Failed
      BY <3>2, NoValue
    <3>4. QED
      BY <2>2, <3>1, <3>3
  <2>3. QED
    BY <2>1, <2>2
<1>12. At(w, off, FlattenSeq([i \in 1 .. Len(fields) |-> Bytes(parts[i])]))
  BY <1>7 DEF F
<1> HIDE DEF table, off
<1>13. SplitFields(fields, w, table, indexed) = parts
  <2>1. off \in Nat /\ table.off = off
    BY <1>6, <1>11
  <2>2. \A i \in 1 .. Len(fields) : IsNull(w, i) <=> parts[i] = Null
    BY <1>8
  <2>3. \A i \in 1 .. Len(fields) : indexed /\ parts[i] # Null => table.lengths[i] = Len(parts[i])
    BY <1>11
  <2>4. QED
    BY <1>12, <2>1, <2>2, <2>3, FieldsSplit
<1>14. QED
  BY <1>10, <1>11, <1>13

(* What is at the start of some bytes is their first so many. *)
LEMMA FirstAt ==
  ASSUME NEW w \in Seq(Byte), NEW c \in Seq(Byte), At(w, 0, c)
  PROVE  First(w, Len(c)) = c /\ ~(Len(w) < Len(c))
<1>1. SubSeq(w, 0 + 1, 0 + Len(c)) = c
  BY AtSub
<1>2. 0 + Len(c) <= Len(w)
  BY DEF At
<1>3. Len(c) \in Nat /\ Len(w) \in Nat
  OBVIOUS
<1>4. QED
  BY <1>1, <1>2, <1>3 DEF First

(* An integer of fixed width is read as what its width keeps of it.        *)
LEMMA IntegerFixed ==
  ASSUME NEW v \in Int, NEW width \in Nat, NEW w \in Seq(Byte), At(w, 0, Fixed(v, width))
  PROVE  /\ Signed(First(w, width)) = Wrap(v, width) /\ ~(Len(w) < width)
         /\ DecodeInteger(w, width, TRUE) = Wrap(v, width)
<1> DEFINE c == Fixed(v, width)
<1>1. c \in Seq(Byte) /\ Len(c) = width /\ Signed(c) = Wrap(v, width)
  BY FixedBytes, SignedFixed
<1>2. At(w, 0, c)
  OBVIOUS
<1> HIDE DEF c
<1>3. First(w, width) = c /\ ~(Len(w) < width)
  BY <1>1, <1>2, FirstAt
<1>4. QED
  BY <1>1, <1>3 DEF DecodeInteger

(* And one of variable length, whatever comes after it. *)
LEMMA IntegerVarint ==
  ASSUME NEW v \in Int, NEW width \in {W32, W64}, NEW w \in Seq(Byte), At(w, 0, Varint(v, width))
  PROVE  /\ ReadUvarint(w) = [value |-> v % Power(Base, width), size |-> Len(Varint(v, width))]
         /\ ReadUvarint(w) # Failed
         /\ DecodeInteger(w, width, FALSE) = Wrap(v, width)
<1> DEFINE u == v % Power(Base, width)
           c == Varint(v, width)
<1>1. u \in Nat /\ u < Power(Base, W64) /\ c = Uvarint(u) /\ c \in Seq(Byte)
  BY VarintIs
<1>2. Wrap(u, width) = Wrap(v, width)
  <2>1. width \in Nat
    BY Bases
  <2>2. QED
    BY <2>1, WrapIs
<1>3. At(w, 0, c)
  OBVIOUS
<1> HIDE DEF u, c
<1>4. ReadUvarint(w) = [value |-> u, size |-> Len(c)]
  BY <1>1, <1>3, ReadUvarintAt
<1>5. ReadUvarint(w) # Failed
  <2>1. [value |-> u, size |-> Len(c)] \in [value : Nat, size : Nat]
    BY <1>1
  <2>2. QED
    BY <1>4, <2>1, NoValue
<1>6. DecodeInteger(w, width, FALSE) = Wrap(u, width)
  BY <1>4, <1>5 DEF DecodeInteger, Then
<1>7. QED
  BY <1>2, <1>4, <1>5, <1>6 DEF u, c

(* Bytes and their length, read back, and the size that they tell when     *)
(* others come after them.                                                 *)
LEMMA BytesRead ==
  ASSUME NEW raw \in Seq(Byte), Len(raw) < Power(Base, W32)
  PROVE  /\ EncodeBytes(raw, TRUE) \in Seq(Byte) /\ EncodeBytes(raw, FALSE) \in Seq(Byte)
         /\ DecodeBytes(EncodeBytes(raw, TRUE), TRUE) = raw
         /\ DecodeBytes(EncodeBytes(raw, FALSE), FALSE) = raw
         /\ \A w \in Seq(Byte) : At(w, 0, EncodeBytes(raw, FALSE)) =>
              /\ ReadUint32(w) # Failed
              /\ ReadUint32(w).size + ReadUint32(w).value = Len(EncodeBytes(raw, FALSE))
<1> DEFINE l == Len(raw)
           r == Power(Base, W32)
           a == Fixed(l, W32)
           b == Varint(l, W32)
<1>1. l \in Nat /\ l \in Int /\ W32 \in Nat /\ W32 \in {W32, W64} /\ r \in Nat /\ r >= 1 /\ l % r = l
  <2>1. l \in Nat /\ l \in Int /\ W32 \in Nat /\ W32 \in {W32, W64} /\ r \in Nat /\ r >= 1 /\ l < r
    BY Bases, Ranges
  <2> HIDE DEF l, r
  <2>2. l \in 0 .. r - 1
    BY <2>1
  <2>3. QED
    BY <2>1, <2>2, Small
<1> HIDE DEF l
<1>2. a \in Seq(Byte) /\ Len(a) = W32 /\ b \in Seq(Byte)
  BY <1>1, FixedBytes, VarintIs
<1>3. EncodeBytes(raw, TRUE) = a \o raw /\ EncodeBytes(raw, FALSE) = b \o raw
  BY DEF EncodeBytes, l
<1>4. ASSUME NEW w \in Seq(Byte), At(w, 0, b)
      PROVE  ReadUint32(w) = [value |-> l, size |-> Len(b)] /\ ReadUint32(w) # Failed
  <2>1. ReadUvarint(w) = [value |-> l % r, size |-> Len(b)] /\ ReadUvarint(w) # Failed
    BY <1>1, <1>4, IntegerVarint
  <2> HIDE DEF b, r
  <2>2. ReadUvarint(w) = [value |-> l, size |-> Len(b)]
    BY <1>1, <2>1
  <2>3. ReadUint32(w) = [value |-> ReadUvarint(w).value % r, size |-> ReadUvarint(w).size]
    BY <2>1 DEF ReadUint32, Then, r
  <2>4. ReadUint32(w) = [value |-> l, size |-> Len(b)]
    BY <1>1, <2>2, <2>3
  <2>5. [value |-> l, size |-> Len(b)] \in [value : Nat, size : Nat]
    BY <1>1, <1>2
  <2>6. QED
    BY <2>4, <2>5, NoValue
<1> HIDE DEF a, b, r
<1> DEFINE x == a \o raw
           y == b \o raw
<1>5. /\ x \in Seq(Byte) /\ Len(x) = W32 + l /\ y \in Seq(Byte) /\ Len(y) = Len(b) + l
      /\ Len(b) \in Nat
  BY <1>2 DEF l
<1>6. At(x, W32, raw) /\ At(y, 0, b) /\ At(y, Len(b), raw)
  <2>1. At(x, 0, x) /\ At(y, 0, y)
    BY <1>5, AtWhole
  <2>2. 0 \in Nat /\ 0 + Len(a) = W32 /\ 0 + Len(b) = Len(b)
    BY <1>1, <1>2, <1>5
  <2>3. At(x, 0 + Len(a), raw) /\ At(y, 0, b) /\ At(y, 0 + Len(b), raw)
    BY <1>2, <1>5, <2>1, <2>2, AtConcat
  <2>4. QED
    BY <2>2, <2>3
<1>7. \A w \in Seq(Byte) : At(w, 0, y) => At(w, 0, b)
  <2>1. 0 \in Nat
    OBVIOUS
  <2>2. QED
    BY <1>2, <2>1, AtConcat
<1> HIDE DEF x, y
<1>8. DecodeBytes(x, TRUE) = raw
  <2>1. SubSeq(x, W32 + 1, W32 + Len(raw)) = raw
    BY <1>1, <1>5, <1>6, AtSub
  <2>2. ~(Len(x) < W32)
    BY <1>1, <1>5
  <2>3. DecodeBytes(x, TRUE) = SubSeq(x, W32 + 1, Len(x))
    BY <2>2 DEF DecodeBytes, After
  <2>4. QED
    BY <1>5, <2>1, <2>3 DEF l
<1>9. DecodeBytes(y, FALSE) = raw
  <2>1. SubSeq(y, Len(b) + 1, Len(b) + Len(raw)) = raw
    BY <1>5, <1>6, AtSub
  <2>2. ReadUint32(y) = [value |-> l, size |-> Len(b)] /\ ReadUint32(y) # Failed
    BY <1>4, <1>5, <1>6
  <2>3. ~(Len(b) + l > Len(y))
    BY <1>1, <1>5
  <2>4. DecodeBytes(y, FALSE) = SubSeq(y, Len(b) + 1, Len(b) + l)
    <3> DEFINE q == ReadUint32(y)
    <3>1. q # Failed /\ q.size = Len(b) /\ q.value = l
      BY <2>2
    <3>2. DecodeBytes(y, FALSE) = IF q.size + q.value > Len(y) THEN Failed
                                  ELSE SubSeq(y, q.size + 1, q.size + q.value)
      BY <3>1 DEF DecodeBytes, Then
    <3> HIDE DEF q
    <3>3. QED
      BY <2>3, <3>1, <3>2
  <2>5. QED
    BY <2>1, <2>4 DEF l
<1>10. ASSUME NEW w \in Seq(Byte), At(w, 0, y)
       PROVE  ReadUint32(w) # Failed /\ ReadUint32(w).size + ReadUint32(w).value = Len(y)
  <2>1. ReadUint32(w) = [value |-> l, size |-> Len(b)] /\ ReadUint32(w) # Failed
    BY <1>4, <1>7, <1>10
  <2>2. ReadUint32(w).size = Len(b) /\ ReadUint32(w).value = l
    BY <2>1
  <2>3. QED
    BY <1>5, <2>1, <2>2
<1>11. EncodeBytes(raw, TRUE) = x /\ EncodeBytes(raw, FALSE) = y
  BY <1>3 DEF x, y
<1>12. QED
  BY <1>5, <1>8, <1>9, <1>10, <1>11

(* What a row keeps of a value: of a long decimal the magnitude, of a      *)
(* coarse timestamp the milliseconds, of an integer what its field holds.  *)
Preserved(t, v) ==
  CASE t.kind = "decimal" /\ ~ShortDecimal(t) -> Magnitudes(v)
    [] Coarse(t) -> <<v[1], 0>>
    [] OTHER -> Narrowed(t, v)

(* What bytes are of a value of a field, in a row, and what is read of     *)
(* them.                                                                   *)
Carries(part, t, v, indexed) ==
  /\ part \in Seq(Byte) /\ DecodeFieldValue(t, part, indexed) = Preserved(t, v)
  /\ indexed /\ IsFixed(t) => Len(part) = FixedSize(t)
  /\ ~indexed => \A rest \in Seq(Byte) : At(rest, 0, part) => CompactedSize(t, rest) = Len(part)

(* An integer, in either layout. *)
LEMMA IntegerCarried ==
  ASSUME NEW t \in FieldTypes, t.kind \in {"int8", "int32", "int64"}, NEW v \in Values(t),
         NEW indexed \in BOOLEAN
  PROVE  Carries(EncodeField(t, v, indexed), t, v, indexed)
<1> DEFINE a == Narrowed(t, v)
           n == FixedSize(t)
           c == EncodeField(t, v, indexed)
<1>1. v \in Ints(W64)
  BY DEF Values
<1>2. /\ a \in Ints(n) /\ n \in Nat /\ n >= 1 /\ a \in Int
      /\ (t.kind # "int8" => n \in {W32, W64})
  BY <1>1, NarrowedIs
<1>3. Preserved(t, v) = a
  BY DEF Preserved, Coarse
<1>4. Wrap(a, n) = a
  BY <1>2, WrapIs
<1>5. CASE indexed \/ t.kind = "int8"
  <2>1. c = Fixed(a, n)
    BY <1>5 DEF EncodeField, FixedSize
  <2> HIDE DEF a, n, c
  <2>2. c \in Seq(Byte) /\ Len(c) = n
    BY <1>2, <2>1, FixedBytes
  <2>3. At(c, 0, c)
    BY <2>2, AtWhole
  <2>4. Signed(First(c, n)) = a /\ DecodeInteger(c, n, TRUE) = a
    BY <1>2, <1>4, <2>1, <2>2, <2>3, IntegerFixed
  <2>5. DecodeFieldValue(t, c, indexed) = a
    <3>1. CASE t.kind = "int8"
      <4>1. n = 1 /\ c # <<>>
        <5>1. n = 1
          BY <3>1 DEF n, FixedSize
        <5>2. c # <<>>
          BY <1>2, <2>2
        <5>3. QED
          BY <5>1, <5>2
      <4>2. QED
        BY <2>4, <3>1, <4>1 DEF DecodeFieldValue
    <3>2. CASE t.kind # "int8"
      BY <1>5, <2>4, <3>2 DEF DecodeFieldValue, n
    <3>3. QED
      BY <3>1, <3>2
  <2>6. ~indexed => \A rest : CompactedSize(t, rest) = n
    BY <1>5 DEF CompactedSize, n, FixedSize, ShortDecimal, Coarse
  <2>7. QED
    BY <1>3, <2>2, <2>5, <2>6 DEF Carries, c, n
<1>6. CASE ~indexed /\ t.kind # "int8"
  <2>1. c = Varint(a, n)
    BY <1>6 DEF EncodeField
  <2>2. n \in {W32, W64}
    BY <1>2, <1>6
  <2>3. DecodeFieldValue(t, c, indexed) = DecodeInteger(c, n, FALSE)
    BY <1>6 DEF DecodeFieldValue
  <2> HIDE DEF a, n, c
  <2>4. c \in Seq(Byte)
    BY <1>2, <2>1, <2>2, VarintIs
  <2>5. At(c, 0, c)
    BY <2>4, AtWhole
  <2>6. DecodeInteger(c, n, FALSE) = a
    BY <1>2, <1>4, <2>1, <2>2, <2>4, <2>5, IntegerVarint
  <2>7. ASSUME NEW rest \in Seq(Byte), At(rest, 0, c) PROVE CompactedSize(t, rest) = Len(c)
    <3>1. ReadUvarint(rest) = [value |-> a % Power(Base, n), size |-> Len(c)] /\ ReadUvarint(rest) # Failed
      BY <1>2, <2>1, <2>2, <2>7, IntegerVarint
    <3>2. t.kind \in {"int32", "int64"}
      BY <1>6
    <3>3. CompactedSize(t, rest) = ReadUvarint(rest).size
      BY <3>1, <3>2 DEF CompactedSize, Then
    <3>4. QED
      BY <3>1, <3>3
  <2>8. QED
    BY <1>3, <1>6, <2>3, <2>4, <2>6, <2>7 DEF Carries, c
<1>7. QED
  BY <1>5, <1>6

(* Bytes, in either layout. *)
LEMMA BytesCarried ==
  ASSUME NEW t \in FieldTypes, t.kind = "bytes", NEW v \in Values(t), NEW indexed \in BOOLEAN
  PROVE  Carries(EncodeField(t, v, indexed), t, v, indexed)
<1> DEFINE c == EncodeField(t, v, indexed)
<1>1. v \in Seq(Byte) /\ Len(v) < Power(Base, W32)
  BY DEF Values
<1>2. c = EncodeBytes(v, indexed)
  BY DEF EncodeField
<1>3. Preserved(t, v) = v /\ ~IsFixed(t)
  BY DEF Preserved, Coarse, Narrowed, IsFixed, ShortDecimal
<1>4. DecodeFieldValue(t, c, indexed) = DecodeBytes(c, indexed)
  BY DEF DecodeFieldValue
<1> HIDE DEF c
<1>5. c \in Seq(Byte) /\ DecodeBytes(c, indexed) = v
  <2>1. CASE indexed
    <3>1. indexed = TRUE
      BY <2>1
    <3>2. QED
      BY <1>1, <1>2, <3>1, BytesRead
  <2>2. CASE ~indexed
    <3>1. indexed = FALSE
      BY <2>2
    <3>2. QED
      BY <1>1, <1>2, <3>1, BytesRead
  <2>3. QED
    BY <2>1, <2>2
<1>6. ASSUME ~indexed, NEW rest \in Seq(Byte), At(rest, 0, c) PROVE CompactedSize(t, rest) = Len(c)
  <2>1. c = EncodeBytes(v, FALSE)
    BY <1>2, <1>6
  <2>2. ReadUint32(rest) # Failed /\ ReadUint32(rest).size + ReadUint32(rest).value = Len(c)
    BY <1>1, <1>6, <2>1, BytesRead
  <2>3. CompactedSize(t, rest) = ReadUint32(rest).size + ReadUint32(rest).value
    BY <2>2 DEF CompactedSize, Then, ShortDecimal, Coarse
  <2>4. QED
    BY <2>2, <2>3
<1>7. QED
  BY <1>3, <1>4, <1>5, <1>6 DEF Carries, c

(* A decimal: a short one is an integer, but in the compacted layout it is *)
(* not looked for as it is written.                                        *)
LEMMA DecimalCarried ==
  ASSUME NEW t \in FieldTypes, t.kind = "decimal", NEW v \in Values(t), NEW indexed \in BOOLEAN,
         indexed \/ Compactable(t)
  PROVE  Carries(EncodeField(t, v, indexed), t, v, indexed)
<1> DEFINE c == EncodeField(t, v, indexed)
<1>1. c = EncodeDecimal(t, v, indexed)
  BY DEF EncodeField
<1>2. DecodeFieldValue(t, c, indexed) = DecodeDecimal(t, c, indexed)
  BY DEF DecodeFieldValue
<1>3. CASE ShortDecimal(t)
  <2>1. v \in Ints(W64) /\ W64 \in Nat
    BY <1>3, Bases DEF Values
  <2>2. v \in Int /\ Wrap(v, W64) = v
    <3>1. v \in Int
      BY <2>1 DEF Ints
    <3>2. QED
      BY <2>1, <3>1, WrapIs
  <2>3. indexed /\ indexed = TRUE
    BY <1>3 DEF Compactable
  <2>4. c = Fixed(v, W64) /\ Preserved(t, v) = v /\ FixedSize(t) = W64
    BY <1>1, <1>3 DEF EncodeDecimal, Preserved, Coarse, Narrowed, FixedSize
  <2> HIDE DEF c
  <2>5. c \in Seq(Byte) /\ Len(c) = W64
    BY <2>1, <2>2, <2>4, FixedBytes
  <2>6. At(c, 0, c)
    BY <2>5, AtWhole
  <2>7. DecodeInteger(c, W64, TRUE) = v
    BY <2>1, <2>2, <2>4, <2>5, <2>6, IntegerFixed
  <2>8. DecodeFieldValue(t, c, indexed) = v
    BY <1>2, <1>3, <2>3, <2>7 DEF DecodeDecimal
  <2>9. QED
    BY <2>3, <2>4, <2>5, <2>8 DEF Carries, c
<1>4. CASE ~ShortDecimal(t)
  <2> DEFINE m == Magnitude(v)
  <2>1. v \in Int /\ Len(m) < Power(Base, W32)
    BY <1>4 DEF Values
  <2>2. m \in Seq(Byte) /\ SetBytes(m) = Magnitudes(v)
    BY <2>1, MagnitudeBytes
  <2>3. c = EncodeBytes(m, indexed)
    BY <1>1, <1>4 DEF EncodeDecimal
  <2>4. Preserved(t, v) = Magnitudes(v) /\ ~IsFixed(t)
    BY <1>4 DEF Preserved, IsFixed, Coarse
  <2> HIDE DEF m, c
  <2>5. c \in Seq(Byte) /\ DecodeBytes(c, indexed) = m
    <3>1. CASE indexed
      <4>1. indexed = TRUE
        BY <3>1
      <4>2. QED
        BY <2>1, <2>2, <2>3, <4>1, BytesRead
    <3>2. CASE ~indexed
      <4>1. indexed = FALSE
        BY <3>2
      <4>2. QED
        BY <2>1, <2>2, <2>3, <4>1, BytesRead
    <3>3. QED
      BY <3>1, <3>2
  <2>6. DecodeFieldValue(t, c, indexed) = Magnitudes(v)
    <3>1. m # Failed
      BY <2>2, NoValue
    <3>2. DecodeDecimal(t, c, indexed) = SetBytes(m)
      BY <1>4, <2>5, <3>1 DEF DecodeDecimal, Then
    <3>3. QED
      BY <1>2, <2>2, <3>2
  <2>7. ASSUME ~indexed, NEW rest \in Seq(Byte), At(rest, 0, c) PROVE CompactedSize(t, rest) = Len(c)
    <3>1. c = EncodeBytes(m, FALSE)
      BY <2>3, <2>7
    <3>2. ReadUint32(rest) # Failed /\ ReadUint32(rest).size + ReadUint32(rest).value = Len(c)
      BY <2>1, <2>2, <2>7, <3>1, BytesRead
    <3>3. CompactedSize(t, rest) = ReadUint32(rest).size + ReadUint32(rest).value
      BY <1>4, <3>2 DEF CompactedSize, Then, Coarse
    <3>4. QED
      BY <3>2, <3>3
  <2>8. QED
    BY <2>4, <2>5, <2>6, <2>7 DEF Carries, c
<1>5. QED
  BY <1>3, <1>4

(* A timestamp, in the indexed layout. *)
LEMMA TimestampCarried ==
  ASSUME NEW t \in FieldTypes, t.kind = "timestamp", NEW v \in Values(t)
  PROVE  Carries(EncodeField(t, v, TRUE), t, v, TRUE)
<1> DEFINE c == EncodeField(t, v, TRUE)
           a == Fixed(v[1], W64)
           b == Fixed(v[2], W32)
<1>1. /\ v[1] \in Ints(W64) /\ v[2] \in Ints(W32) /\ v = <<v[1], v[2]>> /\ W64 \in Nat /\ W32 \in Nat
  BY Bases DEF Values
<1>2. v[1] \in Int /\ v[2] \in Int
  BY <1>1 DEF Ints
<1>3. Wrap(v[1], W64) = v[1] /\ Wrap(v[2], W32) = v[2]
  BY <1>1, <1>2, WrapIs
<1>4. a \in Seq(Byte) /\ Len(a) = W64 /\ b \in Seq(Byte) /\ Len(b) = W32 /\ Signed(b) = v[2]
  BY <1>1, <1>2, <1>3, FixedBytes, SignedFixed
<1>5. DecodeFieldValue(t, c, TRUE) = DecodeTimestamp(t, c, TRUE)
  BY DEF DecodeFieldValue
<1>6. CASE Coarse(t)
  <2>1. c = a \o <<>>
    BY <1>6 DEF EncodeField, EncodeTimestamp
  <2>2. Preserved(t, v) = <<v[1], 0>> /\ FixedSize(t) = W64
    BY <1>6 DEF Preserved, FixedSize
  <2> HIDE DEF c
  <2>3. c = a
    <3> HIDE DEF a
    <3>1. a \o <<>> = a
      BY <1>4
    <3>2. QED
      BY <2>1, <3>1
  <2>4. c \in Seq(Byte) /\ Len(c) = W64
    BY <1>4, <2>3
  <2>5. At(c, 0, c)
    BY <2>4, AtWhole
  <2>6. DecodeInteger(c, W64, TRUE) = v[1]
    BY <1>1, <1>2, <1>3, <2>3, <2>4, <2>5, IntegerFixed
  <2>7. DecodeTimestamp(t, c, TRUE) = <<v[1], 0>>
    <3>1. v[1] # Failed
      BY <1>2, NoValue
    <3>2. QED
      BY <1>6, <2>6, <3>1 DEF DecodeTimestamp, Then
  <2>8. QED
    BY <1>5, <2>2, <2>4, <2>7 DEF Carries, c
<1>7. CASE ~Coarse(t)
  <2>1. c = a \o b
    BY <1>7 DEF EncodeField, EncodeTimestamp
  <2>2. Preserved(t, v) = v /\ ~IsFixed(t)
    BY <1>7 DEF Preserved, Narrowed, IsFixed, ShortDecimal
  <2> HIDE DEF a, b, c
  <2>3. c \in Seq(Byte) /\ Len(c) = W64 + W32
    <3>1. a \in Seq(Byte) /\ b \in Seq(Byte)
      BY <1>4
    <3>2. a \o b \in Seq(Byte) /\ Len(a \o b) = Len(a) + Len(b)
      BY <3>1
    <3>3. QED
      BY <1>4, <2>1, <3>2
  <2>4. At(c, 0, a) /\ At(c, W64, b)
    <3>1. At(c, 0, a \o b)
      BY <2>1, <2>3, AtWhole
    <3>2. 0 \in Nat /\ 0 + Len(a) = W64
      BY <1>1, <1>4
    <3>3. QED
      BY <1>4, <2>3, <3>1, <3>2, AtConcat
  <2>5. Signed(First(c, W64)) = v[1]
    BY <1>1, <1>2, <1>3, <2>3, <2>4, IntegerFixed DEF a
  <2>6. SubSeq(c, W64 + 1, W64 + W32) = b
    <3>1. SubSeq(c, W64 + 1, W64 + Len(b)) = b
      BY <1>1, <1>4, <2>3, <2>4, AtSub
    <3>2. QED
      BY <1>4, <3>1
  <2>7. ~(Len(c) < W64 + W32)
    BY <1>1, <2>3
  <2>8. DecodeTimestamp(t, c, TRUE) = <<v[1], v[2]>>
    BY <1>4, <1>7, <2>5, <2>6, <2>7 DEF DecodeTimestamp
  <2>9. QED
    BY <1>1, <1>5, <2>2, <2>3, <2>8 DEF Carries, c
<1>8. QED
  BY <1>6, <1>7

(* What is encoded of a field's value is decoded as what a row keeps of it.*)
LEMMA FieldCarried ==
  ASSUME NEW t \in FieldTypes, NEW v \in Values(t), NEW indexed \in BOOLEAN,
         indexed \/ Compactable(t)
  PROVE  Carries(EncodeField(t, v, indexed), t, v, indexed)
<1>1. t.kind \in {"int8", "int32", "int64", "bytes", "decimal", "timestamp"}
  BY DEF FieldTypes
<1>2. CASE t.kind \in {"int8", "int32", "int64"}
  BY <1>2, IntegerCarried
<1>3. CASE t.kind = "bytes"
  BY <1>3, BytesCarried
<1>4. CASE t.kind = "decimal"
  BY <1>4, DecimalCarried
<1>5. CASE t.kind = "timestamp"
  <2>1. indexed = TRUE
    BY <1>5 DEF Compactable
  <2>2. QED
    BY <1>5, <2>1, TimestampCarried
<1>6. QED
  BY <1>1, <1>2, <1>3, <1>4, <1>5

(* The parts of a row of these values. *)
RowParts(fields, values, indexed) ==
  [i \in 1 .. Len(fields) |->
     IF values[i] = Null THEN Null ELSE EncodeField(fields[i], values[i], indexed)]

(* The values that a row holds: those of its fields, or null, in the       *)
(* indexed layout of a length that the table has room for, in the          *)
(* compacted one of fields that are looked for as they are written.        *)
RowValues(fields, values, indexed) ==
  \A i \in 1 .. Len(fields) : values[i] # Null =>
    /\ values[i] \in Values(fields[i])
    /\ IF indexed
       THEN \/ IsFixed(fields[i])
            \/ Len(EncodeField(fields[i], values[i], indexed)) < Power(Base, W32)
       ELSE Compactable(fields[i])

(* A row whose fields are no collections is decoded as it was encoded, but *)
(* for what its types do not hold: no field is taken for another or read   *)
(* from another's bytes, null is null, whatever the other fields are, how  *)
(* many there are, and what bytes come after the row (row.go, EncodeRow    *)
(* and DecodeRow).                                                         *)
THEOREM FlatRowsSurvive ==
  ASSUME NEW fields \in Seq(FieldTypes), NEW values, NEW indexed \in BOOLEAN,
         RowValues(fields, values, indexed), NEW w \in Seq(Byte),
         At(w, 0, JoinRow(fields, RowParts(fields, values, indexed), indexed))
  PROVE  /\ SplitRow(fields, w, indexed) # Failed
         /\ \A i \in 1 .. Len(fields) :
              IF values[i] = Null THEN SplitRow(fields, w, indexed)[i] = Null
              ELSE /\ SplitRow(fields, w, indexed)[i] # Null
                   /\ DecodeFieldValue(fields[i], SplitRow(fields, w, indexed)[i], indexed)
                        = Preserved(fields[i], values[i])
<1> DEFINE n == Len(fields)
           parts == RowParts(fields, values, indexed)
<1>1. n \in Nat /\ \A i \in 1 .. n : fields[i] \in FieldTypes
  OBVIOUS
<1>2. /\ parts = [i \in 1 .. n |-> parts[i]]
      /\ \A i \in 1 .. n : parts[i] = IF values[i] = Null THEN Null
                                      ELSE EncodeField(fields[i], values[i], indexed)
  BY DEF RowParts
<1> HIDE DEF parts
<1>3. ASSUME NEW i \in 1 .. n, values[i] # Null
      PROVE  parts[i] # Null /\ Carries(parts[i], fields[i], values[i], indexed)
  <2>1. values[i] \in Values(fields[i]) /\ (indexed \/ Compactable(fields[i]))
    BY <1>3 DEF RowValues
  <2>2. Carries(parts[i], fields[i], values[i], indexed)
    BY <1>1, <1>2, <1>3, <2>1, FieldCarried
  <2>3. parts[i] \in Seq(Byte)
    BY <2>2 DEF Carries
  <2>4. QED
    BY <2>2, <2>3, NoValue
<1>4. parts \in Seq(Seq(Byte) \cup {Null}) /\ Len(parts) = n
  <2> DEFINE S == Seq(Byte) \cup {Null}
  <2>1. \A i \in 1 .. n : parts[i] \in S
    <3>1. SUFFICES ASSUME NEW i \in 1 .. n, parts[i] # Null PROVE parts[i] \in Seq(Byte)
      OBVIOUS
    <3>2. QED
      BY <1>2, <1>3, <3>1 DEF Carries
  <2>2. parts = [i \in 1 .. n |-> parts[i]] /\ n \in Nat
    BY <1>1, <1>2
  <2> HIDE DEF S, n
  <2>3. parts \in Seq(S) /\ Len(parts) = n
    BY <2>1, <2>2
  <2>4. QED
    BY <2>3 DEF S
<1>5. Fits(fields, parts, indexed)
  <2>1. ASSUME NEW i \in 1 .. n, parts[i] # Null
        PROVE  IF indexed
               THEN IF IsFixed(fields[i]) THEN Len(parts[i]) = FixedSize(fields[i])
                    ELSE Len(parts[i]) < Power(Base, W32)
               ELSE \A rest \in Seq(Byte) : At(rest, 0, parts[i]) =>
                      CompactedSize(fields[i], rest) = Len(parts[i])
    <3>1. values[i] # Null /\ Carries(parts[i], fields[i], values[i], indexed)
      BY <1>2, <1>3, <2>1
    <3>2. CASE indexed
      <4>1. IsFixed(fields[i]) => Len(parts[i]) = FixedSize(fields[i])
        BY <3>1, <3>2 DEF Carries
      <4>2. ~IsFixed(fields[i]) => Len(parts[i]) < Power(Base, W32)
        BY <1>2, <3>1, <3>2 DEF RowValues
      <4>3. QED
        BY <3>2, <4>1, <4>2
    <3>3. CASE ~indexed
      BY <3>1, <3>3 DEF Carries
    <3>4. QED
      BY <3>2, <3>3
  <2>2. QED
    BY <1>4, <2>1 DEF Fits
<1>6. SplitRow(fields, w, indexed) = parts
  BY <1>5, RowsSplit DEF parts
<1>7. parts # Failed
  <2> DEFINE S == Seq(Byte) \cup {Null}
             I == Seq(Int) \cup {Null}
  <2>1. S \subseteq I
    BY NoValue
  <2>2. parts \in Seq(S)
    BY <1>4
  <2>3. Failed \notin Seq(I)
    BY FieldCodecAssumption
  <2> HIDE DEF S, I
  <2>4. parts \in Seq(I)
    BY <2>1, <2>2, SeqSubset
  <2>5. QED
    BY <2>3, <2>4
<1>8. ASSUME NEW i \in 1 .. n
      PROVE  IF values[i] = Null THEN parts[i] = Null
             ELSE parts[i] # Null /\ DecodeFieldValue(fields[i], parts[i], indexed) = Preserved(fields[i], values[i])
  BY <1>2, <1>3 DEF Carries
<1>9. QED
  BY <1>6, <1>7, <1>8

-------------------------------------------------------------------------------
(* Logs *)

(* Each piece ends after those before it, and no earlier than there are    *)
(* pieces.                                                                 *)
LEMMA EndsGrow ==
  ASSUME NEW m \in Nat, NEW e \in [0 .. m -> Nat], \A i \in 1 .. m : e[i - 1] < e[i]
  PROVE  m <= e[m] /\ \A i \in 0 .. m - 1 : e[i] < e[m]
<1> DEFINE T == {x \in 0 .. m : x <= e[x] /\ \A i \in 0 .. x - 1 : e[i] < e[x]}
<1>1. \A i \in 0 .. m : e[i] \in Nat
  OBVIOUS
<1>2. 0 \in T
  <2>1. 0 \in 0 .. m /\ \A i \in 0 .. 0 - 1 : FALSE
    OBVIOUS
  <2>2. QED
    BY <1>1, <2>1
<1>3. ASSUME NEW x \in 0 .. m - 1, x \in T PROVE x + 1 \in T
  <2>1. x + 1 \in 1 .. m /\ x + 1 \in 0 .. m /\ (x + 1) - 1 = x /\ x \in 0 .. m /\ x \in Nat
    OBVIOUS
  <2>2. e[x] < e[x + 1] /\ e[x] \in Nat /\ e[x + 1] \in Nat /\ x <= e[x]
    BY <1>1, <1>3, <2>1
  <2>3. ASSUME NEW i \in 0 .. x PROVE e[i] < e[x + 1]
    <3>1. CASE i = x
      BY <2>2, <3>1
    <3>2. CASE i # x
      <4>1. i \in 0 .. x - 1 /\ i \in 0 .. m
        BY <2>1, <3>2
      <4>2. e[i] < e[x] /\ e[i] \in Nat
        BY <1>1, <1>3, <4>1
      <4>3. QED
        BY <2>2, <4>2
    <3>3. QED
      BY <3>1, <3>2
  <2>4. x + 1 <= e[x + 1]
    BY <2>1, <2>2
  <2>5. QED
    BY <2>1, <2>3, <2>4
<1>4. \A x \in 0 .. m : x \in T
  <2> HIDE DEF T
  <2>1. QED
    BY <1>2, <1>3, UpTo
<1>5. m \in 0 .. m
  OBVIOUS
<1>6. QED
  BY <1>4, <1>5

(* Of size bytes the first m pieces are read one after the other, each     *)
(* where the last one ends, and what is left, if anything, cannot be.      *)
Piecewise(m, e, pieces, size, read) ==
  /\ e \in [0 .. m -> Nat] /\ e[0] = 0 /\ (\A i \in 1 .. m : e[i - 1] < e[i]) /\ e[m] <= size
  /\ pieces \in Seq(Seq(Byte)) /\ Len(pieces) = m
  /\ \A i \in 1 .. m : read[e[i - 1]] = [bytes |-> pieces[i], end |-> e[i] - e[i - 1]]
  /\ e[m] < size => read[e[m]] = Failed

(* The pieces are those read, if there is nothing left, and else nothing.  *)
LEMMA PiecesAre ==
  ASSUME NEW m \in Nat, NEW e, NEW pieces, NEW size \in Nat, NEW read,
         Piecewise(m, e, pieces, size, read)
  PROVE  Pieces(size, read) = IF e[m] = size THEN pieces ELSE Failed
<1> DEFINE q(k) == SubSeq(pieces, 1, k)
           R(k) == [off |-> e[k], pieces |-> q(k)]
           next(b) == IF b = Failed THEN Failed
                      ELSE IF b.off = size THEN b
                      ELSE IF read[b.off] = Failed THEN Failed
                      ELSE [off |-> b.off + read[b.off].end, pieces |-> Append(b.pieces, read[b.off].bytes)]
           first == [off |-> 0, pieces |-> <<>>]
           upTo == CHOOSE g : g = [k \in 0 .. size |-> IF k = 0 THEN first ELSE next(g[k - 1])]
           g == [k \in 0 .. size |-> IF k <= m THEN R(k) ELSE IF e[m] = size THEN R(m) ELSE Failed]
<1>0. /\ e \in [0 .. m -> Nat] /\ e[0] = 0 /\ (\A i \in 1 .. m : e[i - 1] < e[i]) /\ e[m] <= size
      /\ pieces \in Seq(Seq(Byte)) /\ Len(pieces) = m
      /\ \A i \in 1 .. m : read[e[i - 1]] = [bytes |-> pieces[i], end |-> e[i] - e[i - 1]]
      /\ e[m] < size => read[e[m]] = Failed
  BY DEF Piecewise
<1>1. Pieces(size, read) = IF upTo[size] = Failed THEN Failed ELSE upTo[size].pieces
  BY DEF Pieces, Then
<1>2. m <= e[m] /\ (\A i \in 0 .. m - 1 : e[i] < e[m]) /\ (\A i \in 0 .. m : e[i] \in Nat) /\ m <= size
  <2>1. m <= e[m] /\ \A i \in 0 .. m - 1 : e[i] < e[m]
    BY <1>0, EndsGrow
  <2>2. \A i \in 0 .. m : e[i] \in Nat
    BY <1>0
  <2>3. m \in 0 .. m
    OBVIOUS
  <2>4. QED
    BY <1>0, <2>1, <2>2, <2>3
<1>3. /\ q(0) = <<>> /\ q(m) = pieces
      /\ \A k \in 0 .. m : q(k) \in Seq(Seq(Byte))
      /\ \A k \in 1 .. m : Append(q(k - 1), pieces[k]) = q(k)
  <2> DEFINE B == Seq(Byte)
  <2> HIDE DEF B
  <2>1. pieces \in Seq(B) /\ Len(pieces) = m
    BY <1>0 DEF B
  <2>2. q(0) = <<>> /\ q(m) = pieces
    BY <2>1
  <2>3. \A k \in 0 .. m : q(k) \in Seq(B)
    BY <2>1
  <2>4. ASSUME NEW k \in 1 .. m PROVE Append(q(k - 1), pieces[k]) = q(k)
    <3>1. k - 1 \in 0 .. m - 1 /\ k \in 1 .. m
      OBVIOUS
    <3> DEFINE a == Append(q(k - 1), pieces[k])
    <3>2. q(k - 1) \in Seq(B) /\ Len(q(k - 1)) = k - 1 /\ \A i \in 1 .. k - 1 : q(k - 1)[i] = pieces[i]
      BY <2>1, <3>1
    <3>3. q(k) \in Seq(B) /\ Len(q(k)) = k /\ \A i \in 1 .. k : q(k)[i] = pieces[i]
      BY <2>1, <3>1
    <3>4. pieces[k] \in B
      BY <2>1
    <3> HIDE DEF q
    <3>5. a \in Seq(B) /\ Len(a) = k /\ a[k] = pieces[k] /\ \A i \in 1 .. k - 1 : a[i] = q(k - 1)[i]
      BY <3>2, <3>4
    <3>6. \A i \in 1 .. k : a[i] = q(k)[i]
      <4>1. SUFFICES ASSUME NEW i \in 1 .. k PROVE a[i] = q(k)[i]
        OBVIOUS
      <4> HIDE DEF a
      <4>2. CASE i = k
        BY <3>3, <3>5, <4>2
      <4>3. CASE i # k
        <5>1. i \in 1 .. k - 1
          BY <4>3
        <5>2. QED
          BY <3>2, <3>3, <3>5, <5>1
      <4>4. QED
        BY <4>2, <4>3
    <3> HIDE DEF a
    <3>7. a = q(k)
      BY <3>3, <3>5, <3>6
    <3>8. QED
      BY <3>7 DEF a
  <2>5. QED
    BY <2>2, <2>3, <2>4 DEF B
<1> HIDE DEF q
<1>4. \A k \in 0 .. m : R(k) # Failed
  <2>1. SUFFICES ASSUME NEW k \in 0 .. m PROVE R(k) # Failed
    OBVIOUS
  <2>2. q(k) \in Seq(Seq(Int))
    <3> DEFINE B == Seq(Byte)
               I == Seq(Int)
    <3>1. B \subseteq I
      BY NoValue
    <3>2. q(k) \in Seq(B)
      BY <1>3
    <3> HIDE DEF B, I
    <3>3. q(k) \in Seq(I)
      BY <3>1, <3>2, SeqSubset
    <3>4. QED
      BY <3>3 DEF I
  <2>3. R(k) \in [off : Nat, pieces : Seq(Seq(Int))]
    BY <1>2, <2>2
  <2> HIDE DEF R
  <2>4. QED
    BY <2>3, LogBatchesAssumption
<1>5. \A k \in 0 .. m : R(k).off = e[k] /\ R(k).pieces = q(k)
  OBVIOUS
<1>6. first = R(0)
  BY <1>0, <1>3
<1>7. ASSUME NEW k \in 1 .. m PROVE next(R(k - 1)) = R(k)
  <2>1. k - 1 \in 0 .. m /\ k - 1 \in 0 .. m - 1 /\ k \in 0 .. m
    OBVIOUS
  <2> DEFINE p == [bytes |-> pieces[k], end |-> e[k] - e[k - 1]]
  <2>2. e[k - 1] \in Nat /\ e[k] \in Nat /\ e[k - 1] < e[k] /\ e[k - 1] # size
    BY <1>0, <1>2, <2>1
  <2>3. read[e[k - 1]] = p
    BY <1>0
  <2>4. p.bytes = pieces[k] /\ p.end = e[k] - e[k - 1]
    OBVIOUS
  <2>5. p # Failed
    <3>1. pieces[k] \in Seq(Int)
      <4>1. pieces[k] \in Seq(Byte)
        BY <1>0
      <4>2. QED
        BY <4>1, NoValue
    <3>2. p \in [bytes : Seq(Int), end : Nat]
      BY <2>2, <3>1
    <3> HIDE DEF p
    <3>3. QED
      BY <3>2, NoValue
  <2> HIDE DEF p
  <2> DEFINE b == R(k - 1)
  <2>6. b # Failed /\ b.off = e[k - 1] /\ b.pieces = q(k - 1)
    BY <1>4, <1>5, <2>1
  <2> HIDE DEF b, R
  <2>7. next(b) = [off |-> e[k - 1] + p.end, pieces |-> Append(q(k - 1), p.bytes)]
    BY <2>2, <2>3, <2>5, <2>6
  <2>8. e[k - 1] + p.end = e[k] /\ Append(q(k - 1), p.bytes) = q(k)
    <3>1. e[k - 1] + (e[k] - e[k - 1]) = e[k]
      BY <2>2
    <3>2. Append(q(k - 1), pieces[k]) = q(k)
      BY <1>3
    <3>3. QED
      BY <2>4, <3>1, <3>2
  <2> HIDE DEF next
  <2>9. QED
    BY <2>7, <2>8 DEF R, b
<1>8. e[m] = size => next(R(m)) = R(m)
  <2>1. m \in 0 .. m
    OBVIOUS
  <2>2. R(m).off = e[m]
    BY <1>5, <2>1
  <2> HIDE DEF R
  <2>3. QED
    BY <1>4, <2>1, <2>2
<1>9. e[m] # size => next(R(m)) = Failed
  <2>1. m \in 0 .. m
    OBVIOUS
  <2>2. R(m).off = e[m] /\ R(m) # Failed
    BY <1>4, <1>5, <2>1
  <2>3. e[m] # size => read[e[m]] = Failed
    BY <1>0, <1>2, <2>1
  <2> HIDE DEF R
  <2>4. QED
    BY <2>2, <2>3
<1>10. next(Failed) = Failed
  OBVIOUS
<1> HIDE DEF next, R, first
<1>11. ASSUME NEW k \in 0 .. size PROVE g[k] = IF k = 0 THEN first ELSE next(g[k - 1])
  <2>1. CASE k = 0
    BY <1>6, <2>1
  <2>2. CASE k # 0 /\ k <= m
    <3>1. k \in 1 .. m /\ k - 1 \in 0 .. size /\ k - 1 <= m
      BY <2>2
    <3>2. g[k] = R(k) /\ g[k - 1] = R(k - 1)
      BY <2>2, <3>1
    <3>3. QED
      BY <1>7, <2>2, <3>1, <3>2
  <2>3. CASE k # 0 /\ ~(k <= m) /\ e[m] = size
    <3>1. k - 1 \in 0 .. size /\ (k - 1 <= m => k - 1 = m)
      BY <2>3
    <3>2. g[k] = R(m) /\ g[k - 1] = R(m)
      BY <2>3, <3>1
    <3>3. QED
      BY <1>8, <2>3, <3>2
  <2>4. CASE k # 0 /\ ~(k <= m) /\ e[m] # size
    <3>1. k - 1 \in 0 .. size /\ (k - 1 <= m => k - 1 = m)
      BY <2>4
    <3>2. g[k] = Failed /\ (g[k - 1] = R(m) \/ g[k - 1] = Failed)
      BY <2>4, <3>1
    <3>3. QED
      BY <1>9, <1>10, <2>4, <3>2
  <2>5. QED
    BY <2>1, <2>2, <2>3, <2>4
<1>12. g = [k \in 0 .. size |-> g[k]]
  OBVIOUS
<1>13. g[size] = IF e[m] = size THEN R(m) ELSE Failed
  <2>1. size \in 0 .. size
    OBVIOUS
  <2>2. CASE size <= m
    <3>1. m = size /\ e[m] = size
      <4>1. m \in 0 .. m
        OBVIOUS
      <4>2. QED
        BY <1>0, <1>2, <2>2, <4>1
    <3>2. QED
      BY <2>1, <3>1
  <2>3. CASE ~(size <= m)
    BY <2>1, <2>3
  <2>4. QED
    BY <2>2, <2>3
<1> HIDE DEF g
<1>14. g = [k \in 0 .. size |-> IF k = 0 THEN first ELSE next(g[k - 1])]
  BY <1>11, <1>12
<1>15. upTo = [k \in 0 .. size |-> IF k = 0 THEN first ELSE next(upTo[k - 1])]
  BY <1>14
<1> HIDE DEF upTo
<1>16. upTo[size] = g[size]
  <2>1. \A k \in 0 .. size : upTo[k] = IF k = 0 THEN first ELSE next(upTo[k - 1])
    BY <1>15
  <2>2. upTo[0] = g[0]
    <3>1. 0 \in 0 .. size
      OBVIOUS
    <3>2. QED
      BY <1>11, <2>1, <3>1
  <2>3. \A k \in 1 .. size : upTo[k - 1] = g[k - 1] => upTo[k] = g[k]
    <3>1. \A k \in 1 .. size : k \in 0 .. size /\ k # 0
      OBVIOUS
    <3>2. QED
      BY <1>11, <2>1, <3>1
  <2>4. Together(upTo, g, size)
    BY <2>2, <2>3 DEF Together
  <2>5. \A k \in 0 .. size : upTo[k] = g[k]
    BY <2>4, SameSteps
  <2>6. size \in 0 .. size
    OBVIOUS
  <2>7. QED
    BY <2>5, <2>6
<1>17. m \in 0 .. m
  OBVIOUS
<1>18. QED
  BY <1>1, <1>3, <1>4, <1>5, <1>13, <1>16, <1>17

(* A length that the four bytes of it hold. *)
LEMMA LengthRead ==
  ASSUME NEW l \in Nat, l < Power(Base, W32), NEW w \in Seq(Byte), At(w, 0, Fixed(l, W32))
  PROVE  SubSeq(w, 1, W32) = Fixed(l, W32) /\ Unsigned(SubSeq(w, 1, W32)) = l /\ W32 <= Len(w)
<1> DEFINE c == Fixed(l, W32)
           r == Power(Base, W32)
<1>1. W32 \in Nat /\ r \in Nat /\ r >= 1 /\ l < r
  BY Bases, Ranges
<1>2. c \in Seq(Byte) /\ Len(c) = W32 /\ Unsigned(c) = l % r
  BY <1>1, FixedBytes
<1>3. At(w, 0, c)
  OBVIOUS
<1> HIDE DEF c, r
<1>4. l % r = l
  <2>1. l \in 0 .. r - 1
    BY <1>1
  <2>2. QED
    BY <1>1, <2>1, Small
<1>5. First(w, W32) = c /\ ~(Len(w) < W32)
  BY <1>2, <1>3, FirstAt
<1>6. SubSeq(w, 1, W32) = c
  BY <1>5 DEF First
<1>7. W32 <= Len(w)
  BY <1>1, <1>5
<1>8. QED
  BY <1>2, <1>4, <1>6, <1>7 DEF c

(* A record is read back, whatever comes after it. *)
LEMMA RecordRead ==
  ASSUME NEW row \in Seq(Byte), 1 + Len(row) < Power(Base, W32)
  PROVE  /\ EncodeLogRecord(row) \in Seq(Byte) /\ Len(EncodeLogRecord(row)) = W32 + 1 + Len(row)
         /\ \A w \in Seq(Byte) : At(w, 0, EncodeLogRecord(row)) =>
              DecodeLogRecord(w) = [bytes |-> row, end |-> W32 + 1 + Len(row)]
<1> DEFINE l == 1 + Len(row)
           F == Fixed(l, W32)
           Z == <<0>>
           raw == Z \o row
<1>1. l \in Nat /\ W32 \in Nat /\ l < Power(Base, W32)
  BY Bases
<1>2. F \in Seq(Byte) /\ Len(F) = W32
  BY <1>1, FixedBytes
<1>3. Z \in Seq(Byte) /\ Len(Z) = 1
  <2>1. 0 \in Byte
    BY Bases DEF Byte
  <2>2. QED
    BY <2>1
<1>4. EncodeLogRecord(row) = (F \o Z) \o row
  BY DEF EncodeLogRecord
<1>5. Tail(raw) = row /\ raw # <<>> /\ raw[1] = 0 /\ raw \in Seq(Byte) /\ Len(raw) = l
  <2>1. raw \in Seq(Byte) /\ Len(raw) = l /\ raw[1] = 0 /\ \A i \in 1 .. Len(row) : raw[i + 1] = row[i]
    BY <1>3
  <2> HIDE DEF raw
  <2>2. raw # <<>>
    BY <1>1, <2>1
  <2>3. Tail(raw) \in Seq(Byte) /\ Len(Tail(raw)) = Len(row) /\ \A i \in 1 .. Len(row) : Tail(raw)[i] = raw[i + 1]
    BY <2>1, <2>2
  <2>4. Tail(raw) = row
    BY <2>1, <2>3
  <2>5. QED
    BY <2>1, <2>2, <2>4
<1> HIDE DEF l, F, Z
<1>6. F \o Z \in Seq(Byte) /\ Len(F \o Z) = W32 + 1
  <2>1. F \in Seq(Byte) /\ Z \in Seq(Byte)
    BY <1>2, <1>3
  <2>2. F \o Z \in Seq(Byte) /\ Len(F \o Z) = Len(F) + Len(Z)
    BY <2>1, Joined
  <2>3. QED
    BY <1>2, <1>3, <2>2
<1>7. EncodeLogRecord(row) \in Seq(Byte) /\ Len(EncodeLogRecord(row)) = W32 + 1 + Len(row)
  <2> DEFINE A == F \o Z
  <2>1. A \in Seq(Byte) /\ Len(A) = W32 + 1 /\ EncodeLogRecord(row) = A \o row
    BY <1>4, <1>6
  <2> HIDE DEF A
  <2>2. A \o row \in Seq(Byte) /\ Len(A \o row) = Len(A) + Len(row)
    BY <2>1, Joined
  <2>3. QED
    BY <2>1, <2>2
<1>8. ASSUME NEW w \in Seq(Byte), At(w, 0, EncodeLogRecord(row))
      PROVE  DecodeLogRecord(w) = [bytes |-> row, end |-> W32 + 1 + Len(row)]
  <2> DEFINE A == F \o Z
             end == W32 + l
  <2>1. A \in Seq(Byte) /\ Len(A) = W32 + 1 /\ At(w, 0, A \o row) /\ 0 \in Nat /\ 0 + (W32 + 1) = W32 + 1
    BY <1>1, <1>4, <1>6, <1>8
  <2>2. At(w, 0, A) /\ At(w, W32 + 1, row)
    <3> HIDE DEF A
    <3>1. At(w, 0, A) /\ At(w, 0 + Len(A), row)
      BY <2>1, AtConcat
    <3>2. QED
      BY <2>1, <3>1
  <2>3. At(w, 0, F) /\ At(w, W32, Z)
    <3>1. At(w, 0, F) /\ At(w, 0 + Len(F), Z)
      BY <1>2, <1>3, <2>1, <2>2, AtConcat
    <3>2. 0 + Len(F) = W32
      BY <1>1, <1>2
    <3>3. QED
      BY <3>1, <3>2
  <2>4. At(w, W32, raw)
    <3>1. W32 + Len(Z) = W32 + 1
      BY <1>3
    <3>2. QED
      BY <1>1, <1>3, <2>2, <2>3, <3>1, AtConcat
  <2> HIDE DEF A
  <2>5. Unsigned(SubSeq(w, 1, W32)) = l /\ W32 <= Len(w)
    BY <1>1, <2>3, LengthRead DEF F
  <2> HIDE DEF raw
  <2>6. SubSeq(w, W32 + 1, end) = raw
    <3>1. SubSeq(w, W32 + 1, W32 + Len(raw)) = raw
      BY <1>1, <1>5, <2>4, AtSub
    <3>2. QED
      BY <1>5, <3>1
  <2>7. end <= Len(w) /\ end \in Nat
    <3>1. W32 + Len(raw) <= Len(w)
      BY <2>4 DEF At
    <3>2. QED
      BY <1>1, <1>5, <3>1
  <2>8. Chunk(w, 0) = [bytes |-> raw, end |-> end]
    <3>1. 0 + 1 = 1 /\ 0 + W32 = W32 /\ 0 + W32 + 1 = W32 + 1 /\ 0 + W32 + l = end
      BY <1>1
    <3>2. ~(W32 > Len(w)) /\ ~(end > Len(w))
      BY <1>1, <2>5, <2>7
    <3> HIDE DEF end
    <3>3. QED
      BY <2>5, <2>6, <3>1, <3>2 DEF Chunk
  <2>9. Chunk(w, 0) # Failed
    <3>1. raw \in Seq(Int)
      BY <1>5, NoValue
    <3>2. [bytes |-> raw, end |-> end] \in [bytes : Seq(Int), end : Nat]
      BY <2>7, <3>1
    <3> HIDE DEF end
    <3>3. QED
      BY <2>8, <3>2, NoValue
  <2>10. end = W32 + 1 + Len(row)
    BY <1>1 DEF l
  <2> HIDE DEF end
  <2>11. DecodeLogRecord(w) = [bytes |-> Tail(raw), end |-> end]
    <3> DEFINE c == Chunk(w, 0)
    <3>1. c # Failed /\ c.bytes = raw /\ c.end = end
      BY <2>8, <2>9
    <3>2. DecodeLogRecord(w) = IF c.bytes = <<>> \/ c.bytes[1] # 0 THEN Failed
                               ELSE [bytes |-> Tail(c.bytes), end |-> c.end]
      BY <3>1 DEF DecodeLogRecord, Then
    <3> HIDE DEF c
    <3>3. QED
      BY <1>5, <3>1, <3>2
  <2>12. QED
    BY <1>5, <2>10, <2>11
<1>9. QED
  BY <1>7, <1>8

(* Records of rows whose lengths fit. *)
RowBytes == {rows \in Seq(Seq(Byte)) : \A i \in 1 .. Len(rows) : 1 + Len(rows[i]) < Power(Base, W32)}

(* The records of some rows, one after the other. *)
Records(rows) == FlattenSeq([i \in 1 .. Len(rows) |-> EncodeLogRecord(rows[i])])

(* The records of a batch are split into its rows, as they were. *)
LEMMA RecordsRead ==
  ASSUME NEW rows \in RowBytes
  PROVE  Records(rows) \in Seq(Byte) /\ SplitLogRecords(Records(rows)) = rows
<1> DEFINE m == Len(rows)
           seqs == [i \in 1 .. m |-> EncodeLogRecord(rows[i])]
           w == Records(rows)
           read == [off \in 0 .. Len(w) |-> DecodeLogRecord(After(w, off))]
<1>1. /\ rows \in Seq(Seq(Byte)) /\ m \in Nat
      /\ \A i \in 1 .. m : rows[i] \in Seq(Byte) /\ 1 + Len(rows[i]) < Power(Base, W32)
  BY DEF RowBytes
<1>2. \A i \in 1 .. m : EncodeLogRecord(rows[i]) \in Seq(Byte)
  BY <1>1, RecordRead
<1>3. seqs \in Seq(Seq(Byte)) /\ Len(seqs) = m
  <2> DEFINE B == Seq(Byte)
  <2> HIDE DEF B, m
  <2>1. seqs \in Seq(B) /\ Len(seqs) = m
    BY <1>1, <1>2 DEF B
  <2>2. QED
    BY <2>1 DEF B
<1>4. \A i \in 1 .. m : seqs[i] = EncodeLogRecord(rows[i])
  OBVIOUS
<1>5. w = FlattenSeq(seqs)
  BY DEF Records
<1> HIDE DEF seqs, w, m
<1>6. PICK e \in [0 .. m -> Nat] :
        /\ e[0] = 0
        /\ \A i \in 1 .. m : e[i] = e[i - 1] + Len(seqs[i])
        /\ w \in Seq(Byte) /\ Len(w) = e[m]
        /\ \A i \in 1 .. m : At(w, e[i - 1], seqs[i])
  BY <1>3, <1>5, FlattenIs
<1>7. ASSUME NEW i \in 1 .. m
      PROVE  /\ e[i - 1] \in Nat /\ e[i] \in Nat /\ e[i - 1] < e[i] /\ e[i - 1] <= Len(w)
             /\ DecodeLogRecord(After(w, e[i - 1])) = [bytes |-> rows[i], end |-> e[i] - e[i - 1]]
  <2> DEFINE c == EncodeLogRecord(rows[i])
             o == e[i - 1]
  <2>1. /\ c \in Seq(Byte) /\ Len(c) = W32 + 1 + Len(rows[i]) /\ W32 \in Nat /\ Len(rows[i]) \in Nat
        /\ \A v \in Seq(Byte) : At(v, 0, c) =>
             DecodeLogRecord(v) = [bytes |-> rows[i], end |-> W32 + 1 + Len(rows[i])]
    <3>1. rows[i] \in Seq(Byte) /\ 1 + Len(rows[i]) < Power(Base, W32)
      BY <1>1
    <3>2. W32 \in Nat /\ Len(rows[i]) \in Nat
      BY <3>1, Bases
    <3>3. QED
      BY <3>1, <3>2, RecordRead
  <2>2. o \in Nat /\ e[i] \in Nat /\ e[i] = o + Len(c) /\ At(w, o, c) /\ w \in Seq(Byte)
    <3>1. i - 1 \in 0 .. m /\ i \in 0 .. m
      BY <1>1
    <3>2. QED
      BY <1>4, <1>6, <3>1
  <2> HIDE DEF c, o
  <2>3. At(w, o + 0, c)
    BY <2>2
  <2>4. After(w, o) \in Seq(Byte) /\ At(After(w, o), 0, c)
    BY <2>1, <2>2, <2>3, AtAfter
  <2>5. o + Len(c) <= Len(w)
    BY <2>2 DEF At
  <2>6. W32 + 1 + Len(rows[i]) = e[i] - o /\ o < e[i] /\ o <= Len(w)
    <3> DEFINE k == W32 + 1 + Len(rows[i])
    <3>1. k \in Nat /\ k >= 1 /\ Len(c) = k /\ Len(w) \in Nat
      <4>1. Len(rows[i]) \in Nat /\ W32 \in Nat /\ Len(c) = k
        BY <2>1
      <4>2. Len(w) \in Nat
        BY <2>2
      <4> DEFINE x == Len(rows[i])
      <4>3. x \in Nat /\ W32 \in Nat
        BY <4>1
      <4>4. k = W32 + 1 + x
        OBVIOUS
      <4> HIDE DEF x, k
      <4>5. k \in Nat /\ k >= 1
        BY <4>3, <4>4
      <4>6. QED
        BY <4>1, <4>2, <4>5
    <3> HIDE DEF k
    <3>2. k = e[i] - o /\ o < e[i] /\ o <= Len(w)
      BY <2>2, <2>5, <3>1
    <3>3. QED
      BY <3>2 DEF k
  <2>7. DecodeLogRecord(After(w, o)) = [bytes |-> rows[i], end |-> e[i] - o]
    BY <2>1, <2>4, <2>6
  <2>8. QED
    BY <2>2, <2>6, <2>7 DEF o
<1>8. /\ m \in 0 .. m /\ Len(w) \in Nat /\ e[m] = Len(w) /\ e[m] <= Len(w)
  BY <1>1, <1>6
<1>9. \A i \in 1 .. m : read[e[i - 1]] = [bytes |-> rows[i], end |-> e[i] - e[i - 1]]
  <2>1. SUFFICES ASSUME NEW i \in 1 .. m PROVE read[e[i - 1]] = [bytes |-> rows[i], end |-> e[i] - e[i - 1]]
    OBVIOUS
  <2> DEFINE o == e[i - 1]
             size == Len(w)
  <2>5. o \in Nat /\ size \in Nat /\ o <= size
    BY <1>7, <1>8
  <2> HIDE DEF o, size
  <2>6. o \in 0 .. size
    BY <2>5
  <2>2. e[i - 1] \in 0 .. Len(w)
    BY <2>6 DEF o, size
  <2>3. read[e[i - 1]] = DecodeLogRecord(After(w, e[i - 1]))
    BY <2>2
  <2>4. QED
    BY <1>7, <2>3
<1>10. SplitLogRecords(w) = Pieces(Len(w), read)
  BY DEF SplitLogRecords
<1> HIDE DEF read
<1>11. Pieces(Len(w), read) = rows
  <2> DEFINE size == Len(w)
  <2>1. size \in Nat /\ e[m] = size /\ e[m] <= size /\ ~(e[m] < size)
    BY <1>8
  <2>2. Len(rows) = m
    BY DEF m
  <2>3. \A i \in 1 .. m : e[i - 1] < e[i]
    BY <1>7
  <2> HIDE DEF size
  <2>4. Pieces(size, read) = IF e[m] = size THEN rows ELSE Failed
    <3>1. Piecewise(m, e, rows, size, read)
      BY <1>1, <1>6, <1>9, <2>1, <2>2, <2>3 DEF Piecewise
    <3>2. m \in Nat
      BY <1>1
    <3>3. QED
      BY <2>1, <3>1, <3>2, PiecesAre
  <2>5. QED
    BY <2>1, <2>4 DEF size
<1>12. QED
  BY <1>6, <1>10, <1>11 DEF w

(* A checksum is one byte. *)
LEMMA ChecksumIs ==
  ASSUME NEW s \in Seq(Byte)
  PROVE  Checksum(s) \in Seq(Byte) /\ Len(Checksum(s)) = 1
<1> DEFINE n == Len(s)
           D == [vi \in Byte \X (1 .. n) |-> (vi[1] + s[vi[2]]) % Base]
           sum == CHOOSE g : g = [i \in 0 .. n |-> IF i = 0 THEN 0 ELSE (g[i - 1] + s[i]) % Base]
<1>1. n \in Nat /\ Base \in Nat /\ Base >= 1 /\ 0 \in Byte /\ \A i \in 1 .. n : s[i] \in Byte
  BY Bases DEF Byte
<1>2. \A v \in Byte, i \in 1 .. n : (v + s[i]) % Base \in Byte
  <2>1. SUFFICES ASSUME NEW v \in Byte, NEW i \in 1 .. n PROVE (v + s[i]) % Base \in Byte
    OBVIOUS
  <2> DEFINE x == v + s[i]
  <2>2. x \in Int
    <3>1. s[i] \in Byte
      BY <1>1
    <3>2. QED
      BY <1>1, <3>1 DEF Byte
  <2> HIDE DEF x
  <2>3. x % Base \in 0 .. Base - 1
    BY <1>1, <2>2, Division
  <2>4. QED
    BY <2>3 DEF Byte, x
<1>3. Checksum(s) = <<sum[n]>>
  BY DEF Checksum
<1> HIDE DEF n
<1>4. D \in [Byte \X (1 .. n) -> Byte]
  BY <1>2
<1>5. \A v \in Byte, i \in 1 .. n : D[<<v, i>>] = (v + s[i]) % Base
  OBVIOUS
<1> HIDE DEF D
<1>6. PICK h : h \in [0 .. n -> Byte] /\ Stepwise(h, n, 0, D)
  BY <1>1, <1>4, Recursion
<1>7. \A i \in 0 .. n : h[i] = IF i = 0 THEN 0 ELSE (h[i - 1] + s[i]) % Base
  <2>1. SUFFICES ASSUME NEW i \in 0 .. n PROVE h[i] = IF i = 0 THEN 0 ELSE (h[i - 1] + s[i]) % Base
    OBVIOUS
  <2>2. CASE i = 0
    BY <1>6, <2>2 DEF Stepwise
  <2>3. CASE i # 0
    <3>1. i \in 1 .. n /\ i - 1 \in 0 .. n
      BY <1>1, <2>3
    <3>2. h[i] = D[<<h[i - 1], i>>] /\ h[i - 1] \in Byte
      BY <1>6, <3>1 DEF Stepwise
    <3>3. QED
      BY <1>5, <2>3, <3>1, <3>2
  <2>4. QED
    BY <2>2, <2>3
<1>8. h = [i \in 0 .. n |-> h[i]]
  BY <1>6
<1>9. h = [i \in 0 .. n |-> IF i = 0 THEN 0 ELSE (h[i - 1] + s[i]) % Base]
  BY <1>7, <1>8
<1>10. sum = [i \in 0 .. n |-> IF i = 0 THEN 0 ELSE (sum[i - 1] + s[i]) % Base]
  BY <1>9
<1> HIDE DEF sum
<1>11. \A i \in 0 .. n : sum[i] = IF i = 0 THEN 0 ELSE (sum[i - 1] + s[i]) % Base
  BY <1>10
<1>12. Together(sum, h, n)
  <2>1. sum[0] = h[0]
    <3>1. 0 \in 0 .. n
      BY <1>1
    <3>2. QED
      BY <1>7, <1>11, <3>1
  <2>2. \A i \in 1 .. n : sum[i - 1] = h[i - 1] => sum[i] = h[i]
    <3>1. \A i \in 1 .. n : i \in 0 .. n /\ i # 0
      BY <1>1
    <3>2. QED
      BY <1>7, <1>11, <3>1
  <2>3. QED
    BY <2>1, <2>2 DEF Together
<1>13. \A i \in 0 .. n : sum[i] = h[i]
  <2>1. n \in Nat
    BY <1>1
  <2>2. QED
    BY <1>12, <2>1, SameSteps
<1>14. sum[n] \in Byte
  <2>1. n \in 0 .. n
    BY <1>1
  <2>2. QED
    BY <1>6, <1>13, <2>1
<1>15. QED
  BY <1>3, <1>14

(* Batches of rows, of a size that their header holds. *)
Batches == {rows \in RowBytes : 2 + Len(Records(rows)) < Power(Base, W32)}

(* A batch is read back, whatever comes after it, and not at all if some   *)
(* of it is missing.                                                       *)
LEMMA BatchRead ==
  ASSUME NEW rows \in Batches
  PROVE  /\ EncodeLogBatch(rows) \in Seq(Byte)
         /\ Records(rows) \in Seq(Byte)
         /\ Len(EncodeLogBatch(rows)) = HeaderSize + Len(Records(rows))
         /\ \A w \in Seq(Byte) : At(w, 0, EncodeLogBatch(rows)) =>
              DecodeLogBatch(w) = [bytes |-> Records(rows), end |-> HeaderSize + Len(Records(rows))]
         /\ \A w \in Seq(Byte) :
              /\ Len(w) < Len(EncodeLogBatch(rows))
              /\ \A i \in 1 .. Len(w) : w[i] = EncodeLogBatch(rows)[i]
              => DecodeLogBatch(w) = Failed
<1> DEFINE R == Records(rows)
           l == 2 + Len(R)
           F == Fixed(l, W32)
           Z == <<0>>
           C == Checksum(R)
           batch == EncodeLogBatch(rows)
           size == W32 + l
<1>1. R \in Seq(Byte) /\ l < Power(Base, W32)
  BY RecordsRead DEF Batches
<1>2. l \in Nat /\ W32 \in Nat /\ W32 >= 1 /\ size \in Nat /\ size = HeaderSize + Len(R) /\ HeaderSize = W32 + 2
  BY <1>1, Bases DEF HeaderSize
<1>3. F \in Seq(Byte) /\ Len(F) = W32
  <2>1. l \in Int /\ W32 \in Nat
    BY <1>2
  <2> HIDE DEF l
  <2>2. QED
    BY <2>1, FixedBytes
<1>4. Z \in Seq(Byte) /\ Len(Z) = 1 /\ Z[1] = 0
  <2>1. 0 \in Byte
    BY Bases DEF Byte
  <2>2. QED
    BY <2>1
<1>5. C \in Seq(Byte) /\ Len(C) = 1
  BY <1>1, ChecksumIs
<1>6. batch = ((F \o Z) \o C) \o R
  <2>1. \A r \in RowBytes : DOMAIN r = 1 .. Len(r)
    BY DEF RowBytes
  <2>2. DOMAIN rows = 1 .. Len(rows)
    BY <2>1 DEF Batches
  <2>3. QED
    BY <2>2 DEF EncodeLogBatch, Records
<1> HIDE DEF R, F, Z, C, batch, l
<1> DEFINE A == F \o Z
           B == A \o C
<1>7. A \in Seq(Byte) /\ Len(A) = W32 + 1
  <2>1. F \in Seq(Byte) /\ Z \in Seq(Byte)
    BY <1>3, <1>4
  <2>2. F \o Z \in Seq(Byte) /\ Len(F \o Z) = Len(F) + Len(Z)
    BY <2>1, Joined
  <2>3. QED
    BY <1>3, <1>4, <2>2
<1> HIDE DEF A
<1>8. B \in Seq(Byte) /\ Len(B) = W32 + 2
  <2>1. A \in Seq(Byte) /\ C \in Seq(Byte)
    BY <1>5, <1>7
  <2>2. A \o C \in Seq(Byte) /\ Len(A \o C) = Len(A) + Len(C)
    BY <2>1
  <2>3. Len(A) + Len(C) = W32 + 2
    BY <1>2, <1>5, <1>7
  <2>4. QED
    BY <2>2, <2>3
<1> HIDE DEF B
<1>9. batch \in Seq(Byte) /\ Len(batch) = HeaderSize + Len(R)
  <2>1. B \o R \in Seq(Byte) /\ Len(B \o R) = Len(B) + Len(R)
    BY <1>1, <1>8
  <2>2. batch = B \o R
    BY <1>6 DEF A, B
  <2>3. QED
    BY <1>2, <1>8, <2>1, <2>2
<1>10. ASSUME NEW w \in Seq(Byte), At(w, 0, batch)
       PROVE  At(w, 0, F) /\ At(w, W32, Z) /\ At(w, W32 + 1, C) /\ At(w, W32 + 2, R)
  <2>1. At(w, 0, B \o R)
    BY <1>6, <1>10 DEF A, B
  <2>2. 0 \in Nat /\ 0 + Len(B) = W32 + 2 /\ 0 + Len(A) = W32 + 1 /\ 0 + Len(F) = W32
    BY <1>2, <1>3, <1>7, <1>8
  <2>3. At(w, 0, B) /\ At(w, 0 + Len(B), R)
    BY <1>1, <1>8, <2>1, <2>2, AtConcat
  <2>4. At(w, 0, A) /\ At(w, 0 + Len(A), C)
    BY <1>5, <1>7, <2>2, <2>3, AtConcat DEF B
  <2>5. At(w, 0, F) /\ At(w, 0 + Len(F), Z)
    BY <1>3, <1>4, <2>2, <2>4, AtConcat DEF A
  <2>6. QED
    BY <2>2, <2>3, <2>4, <2>5
<1>11. \A w \in Seq(Byte) : At(w, 0, F) => Unsigned(First(w, W32)) = l /\ W32 <= Len(w)
  BY <1>1, <1>2, LengthRead DEF First, F
<1>12. ASSUME NEW w \in Seq(Byte), At(w, 0, batch)
       PROVE  DecodeLogBatch(w) = [bytes |-> R, end |-> size]
  <2>1. At(w, 0, F) /\ At(w, W32, Z) /\ At(w, W32 + 1, C) /\ At(w, W32 + 2, R)
    BY <1>10, <1>12
  <2>2. W32 + Unsigned(First(w, W32)) = size
    BY <1>11, <2>1
  <2>3. w[W32 + 1] = 0
    <3>1. 1 \in 1 .. Len(Z)
      BY <1>4
    <3>2. QED
      BY <1>4, <2>1, <3>1 DEF At
  <2>4. <<w[W32 + 2]>> = C
    <3>1. 1 \in 1 .. Len(C) /\ (W32 + 1) + 1 = W32 + 2
      BY <1>2, <1>5
    <3>2. w[W32 + 2] = C[1]
      BY <2>1, <3>1 DEF At
    <3>3. C = <<C[1]>>
      BY <1>5
    <3>4. QED
      BY <3>2, <3>3
  <2>5. SubSeq(w, HeaderSize + 1, size) = R
    <3>1. SubSeq(w, HeaderSize + 1, HeaderSize + Len(R)) = R
      BY <1>1, <1>2, <2>1, AtSub
    <3>2. QED
      BY <1>2, <3>1
  <2>6. ~(Len(w) < HeaderSize) /\ ~(size > Len(w))
    <3>1. HeaderSize + Len(R) <= Len(w)
      BY <1>2, <2>1 DEF At
    <3>2. Len(R) \in Nat /\ Len(w) \in Nat
      BY <1>1
    <3> HIDE DEF size
    <3>3. QED
      BY <1>2, <3>1, <3>2
  <2> HIDE DEF size
  <2>7. QED
    BY <2>2, <2>3, <2>4, <2>5, <2>6 DEF DecodeLogBatch, C
<1>13. ASSUME NEW w \in Seq(Byte), Len(w) < Len(batch), \A i \in 1 .. Len(w) : w[i] = batch[i]
       PROVE  DecodeLogBatch(w) = Failed
  <2>1. CASE Len(w) < HeaderSize
    BY <2>1 DEF DecodeLogBatch
  <2>2. CASE ~(Len(w) < HeaderSize)
    <3>1. Len(w) \in Nat /\ W32 + 2 <= Len(w)
      BY <1>2, <2>2
    <3>2. At(w, 0, F)
      <4>1. At(batch, 0, F)
        BY <1>9, <1>10, AtWhole
      <4>2. \A i \in 1 .. W32 : batch[0 + i] = F[i] /\ 0 + i = i /\ i \in 1 .. Len(w)
        BY <1>2, <1>3, <3>1, <4>1 DEF At
      <4>3. \A i \in 1 .. W32 : w[0 + i] = F[i]
        BY <1>13, <4>2
      <4>4. 0 + Len(F) <= Len(w)
        BY <1>2, <1>3, <3>1
      <4>5. QED
        BY <1>3, <4>3, <4>4 DEF At
    <3>3. W32 + Unsigned(First(w, W32)) = size
      BY <1>11, <3>2
    <3>4. size > Len(w)
      BY <1>2, <1>9, <1>13, <3>1
    <3> HIDE DEF size
    <3>5. QED
      BY <2>2, <3>3, <3>4 DEF DecodeLogBatch
  <2>3. QED
    BY <2>1, <2>2
<1>14. QED
  BY <1>1, <1>2, <1>9, <1>12, <1>13 DEF R, batch

(* The payload of a fetched log. *)
LogPayload(batches) == FlattenSeq([i \in 1 .. Len(batches) |-> EncodeLogBatch(batches[i])])

(* The batches of a payload, one after the other, and where each ends. *)
Boundaries(batches, e) ==
  /\ e \in [0 .. Len(batches) -> Nat] /\ e[0] = 0
  /\ LogPayload(batches) \in Seq(Byte) /\ Len(LogPayload(batches)) = e[Len(batches)]
  /\ \A i \in 1 .. Len(batches) :
       /\ EncodeLogBatch(batches[i]) \in Seq(Byte)
       /\ e[i - 1] \in Nat /\ e[i] \in Nat /\ e[i - 1] < e[i]
       /\ e[i] = e[i - 1] + Len(EncodeLogBatch(batches[i]))
       /\ At(LogPayload(batches), e[i - 1], EncodeLogBatch(batches[i]))

(* Every payload has such boundaries. *)
LEMMA BoundariesExist ==
  ASSUME NEW batches \in Seq(Batches)
  PROVE  \E e : Boundaries(batches, e)
<1> DEFINE m == Len(batches)
           seqs == [i \in 1 .. m |-> EncodeLogBatch(batches[i])]
           w == LogPayload(batches)
<1>1. m \in Nat /\ \A i \in 1 .. m : batches[i] \in Batches
  OBVIOUS
<1>2. ASSUME NEW i \in 1 .. m
      PROVE  EncodeLogBatch(batches[i]) \in Seq(Byte) /\ Len(EncodeLogBatch(batches[i])) >= 1
  <2> DEFINE c == EncodeLogBatch(batches[i])
             r == Records(batches[i])
  <2>1. c \in Seq(Byte) /\ Len(c) = HeaderSize + Len(r) /\ r \in Seq(Byte)
    BY <1>1, BatchRead
  <2>2. HeaderSize \in Nat /\ HeaderSize >= 1
    BY Bases DEF HeaderSize
  <2> HIDE DEF c, r
  <2>3. Len(r) \in Nat
    BY <2>1
  <2>4. Len(c) >= 1
    BY <2>1, <2>2, <2>3
  <2>5. QED
    BY <2>1, <2>4 DEF c
<1>3. seqs \in Seq(Seq(Byte)) /\ Len(seqs) = m
  <2> DEFINE B == Seq(Byte)
  <2> HIDE DEF B, m
  <2>1. seqs \in Seq(B) /\ Len(seqs) = m
    BY <1>1, <1>2 DEF B
  <2>2. QED
    BY <2>1 DEF B
<1>4. \A i \in 1 .. m : seqs[i] = EncodeLogBatch(batches[i])
  OBVIOUS
<1>5. w = FlattenSeq(seqs)
  BY DEF LogPayload
<1> HIDE DEF seqs, w, m
<1>6. PICK e \in [0 .. m -> Nat] :
        /\ e[0] = 0
        /\ \A i \in 1 .. m : e[i] = e[i - 1] + Len(seqs[i])
        /\ w \in Seq(Byte) /\ Len(w) = e[m]
        /\ \A i \in 1 .. m : At(w, e[i - 1], seqs[i])
  BY <1>3, <1>5, FlattenIs
<1>7. ASSUME NEW i \in 1 .. m
      PROVE  /\ EncodeLogBatch(batches[i]) \in Seq(Byte)
             /\ e[i - 1] \in Nat /\ e[i] \in Nat /\ e[i - 1] < e[i]
             /\ e[i] = e[i - 1] + Len(EncodeLogBatch(batches[i]))
             /\ At(w, e[i - 1], EncodeLogBatch(batches[i]))
  <2> DEFINE c == EncodeLogBatch(batches[i])
  <2>1. c \in Seq(Byte) /\ Len(c) >= 1 /\ e[i] = e[i - 1] + Len(c) /\ At(w, e[i - 1], c)
    BY <1>2, <1>4, <1>6
  <2>2. e[i - 1] \in Nat /\ e[i] \in Nat
    <3>1. i - 1 \in 0 .. m /\ i \in 0 .. m
      BY <1>1
    <3>2. QED
      BY <1>6, <3>1
  <2> HIDE DEF c
  <2>3. Len(c) \in Nat
    BY <2>1
  <2>4. e[i - 1] < e[i]
    BY <2>1, <2>2, <2>3
  <2>5. QED
    BY <2>1, <2>2, <2>4 DEF c
<1>8. Boundaries(batches, e)
  BY <1>6, <1>7 DEF Boundaries, m, w
<1>9. QED
  BY <1>8

(* No payload is what a payload that cannot be decoded is. *)
LEMMA NoFailedRows ==
  /\ Failed \notin Seq(Seq(Byte))
  /\ \A rows \in RowBytes : rows # Failed
<1> DEFINE B == Seq(Byte)
           I == Seq(Int) \cup {Null}
<1>1. B \subseteq I
  BY NoValue
<1>2. Failed \notin Seq(I)
  BY FieldCodecAssumption
<1> HIDE DEF B, I
<1>3. \A s \in Seq(B) : s \in Seq(I)
  BY <1>1, SeqSubset
<1>4. QED
  BY <1>2, <1>3 DEF B, RowBytes

(* Of a payload cut off at k, past its first j batches and before the end  *)
(* of the next: those batches if it is right after them, else nothing.     *)
LEMMA CutRead ==
  ASSUME NEW batches \in Seq(Batches), NEW e, Boundaries(batches, e),
         NEW k \in 0 .. Len(LogPayload(batches)), NEW j \in 0 .. Len(batches), e[j] <= k,
         j < Len(batches) => k < e[j + 1]
  PROVE  SplitLogBatches(First(LogPayload(batches), k))
           = IF e[j] = k THEN First(batches, j) ELSE Failed
<1> DEFINE m == Len(batches)
           payload == LogPayload(batches)
           w == First(payload, k)
           read == [off \in 0 .. Len(w) |-> DecodeLogBatch(After(w, off))]
           pieces == [i \in 1 .. j |-> Records(batches[i])]
           d == [i \in 0 .. j |-> e[i]]
<1>1. /\ m \in Nat /\ j \in 0 .. m /\ j \in Nat /\ (\A i \in 1 .. m : batches[i] \in Batches)
      /\ e \in [0 .. m -> Nat] /\ e[0] = 0 /\ payload \in Seq(Byte) /\ Len(payload) = e[m]
      /\ k \in Nat /\ k <= Len(payload) /\ e[j] \in Nat
  <2>1. m \in Nat /\ j \in 0 .. m /\ j \in Nat /\ \A i \in 1 .. m : batches[i] \in Batches
    OBVIOUS
  <2>2. e \in [0 .. m -> Nat] /\ e[0] = 0 /\ payload \in Seq(Byte) /\ Len(payload) = e[m]
    BY DEF Boundaries
  <2> HIDE DEF payload
  <2>3. Len(payload) \in Nat /\ k \in 0 .. Len(payload)
    BY <2>2 DEF payload
  <2>4. QED
    BY <2>1, <2>2, <2>3
<1>2. ASSUME NEW i \in 1 .. m
      PROVE  /\ EncodeLogBatch(batches[i]) \in Seq(Byte) /\ Len(EncodeLogBatch(batches[i])) \in Nat
             /\ e[i - 1] \in Nat /\ e[i] \in Nat /\ e[i - 1] < e[i]
             /\ e[i] = e[i - 1] + Len(EncodeLogBatch(batches[i]))
             /\ At(payload, e[i - 1], EncodeLogBatch(batches[i]))
  <2>1. EncodeLogBatch(batches[i]) \in Seq(Byte)
    BY DEF Boundaries
  <2>2. Len(EncodeLogBatch(batches[i])) \in Nat
    BY <2>1
  <2>3. QED
    BY <2>1, <2>2 DEF Boundaries
<1> HIDE DEF payload, m
<1>3. w \in Seq(Byte) /\ Len(w) = k /\ \A x \in 1 .. k : w[x] = payload[x]
  BY <1>1 DEF First
<1> HIDE DEF w
<1>4. d \in [0 .. j -> Nat] /\ d[0] = 0 /\ d[j] = e[j] /\ \A i \in 1 .. j : d[i - 1] = e[i - 1] /\ d[i] = e[i]
  <2>1. \A i \in 0 .. j : i \in 0 .. m
    BY <1>1
  <2>2. 0 \in 0 .. j /\ j \in 0 .. j
    BY <1>1
  <2>3. \A i \in 1 .. j : i \in 0 .. j /\ i - 1 \in 0 .. j
    BY <1>1
  <2>4. QED
    BY <1>1, <2>1, <2>2, <2>3
<1> HIDE DEF d
<1>5. \A i \in 1 .. j : i \in 1 .. m
  BY <1>1
<1>6. \A i \in 1 .. j : d[i - 1] < d[i]
  BY <1>2, <1>4, <1>5
<1>7. \A i \in 1 .. j : e[i] <= e[j]
  <2>1. SUFFICES ASSUME NEW i \in 1 .. j PROVE e[i] <= e[j]
    OBVIOUS
  <2>2. CASE i = j
    BY <1>1, <2>2
  <2>3. CASE i # j
    <3>1. i \in 0 .. j - 1
      BY <1>1, <2>3
    <3>2. \A x \in 0 .. j - 1 : d[x] < d[j]
      BY <1>1, <1>4, <1>6, EndsGrow
    <3>3. e[i] < e[j] /\ e[i] \in Nat
      BY <1>2, <1>4, <1>5, <3>1, <3>2
    <3>4. QED
      BY <1>1, <3>3
  <2>4. QED
    BY <2>2, <2>3
<1>8. ASSUME NEW i \in 1 .. j
      PROVE  read[d[i - 1]] = [bytes |-> pieces[i], end |-> d[i] - d[i - 1]]
  <2> DEFINE c == EncodeLogBatch(batches[i])
             r == Records(batches[i])
             o == e[i - 1]
  <2>1. i \in 1 .. m /\ batches[i] \in Batches /\ pieces[i] = r
    BY <1>1, <1>5
  <2>2. /\ c \in Seq(Byte) /\ Len(c) = HeaderSize + Len(r)
        /\ \A v \in Seq(Byte) : At(v, 0, c) => DecodeLogBatch(v) = [bytes |-> r, end |-> HeaderSize + Len(r)]
    BY <2>1, BatchRead
  <2>3. o \in Nat /\ e[i] \in Nat /\ e[i] = o + Len(c) /\ At(payload, o, c) /\ e[i] <= k /\ Len(c) \in Nat
    <3>1. e[i] <= e[j]
      BY <1>7
    <3>2. o \in Nat /\ e[i] \in Nat /\ e[i] = o + Len(c) /\ At(payload, o, c) /\ Len(c) \in Nat
      BY <1>2, <2>1
    <3> HIDE DEF c, o
    <3>3. QED
      BY <1>1, <3>1, <3>2
  <2> HIDE DEF c, r, o, read
  <2>4. At(w, o, c)
    <3>1. \A x \in 1 .. Len(c) : payload[o + x] = c[x] /\ o + x \in 1 .. k
      BY <1>1, <2>3 DEF At
    <3>2. \A x \in 1 .. Len(c) : w[o + x] = c[x]
      BY <1>3, <3>1
    <3>3. o + Len(c) <= Len(w)
      BY <1>1, <1>3, <2>3
    <3>4. QED
      BY <3>2, <3>3 DEF At
  <2>5. At(w, o + 0, c)
    BY <2>3, <2>4
  <2>6. After(w, o) \in Seq(Byte) /\ At(After(w, o), 0, c)
    BY <1>3, <2>2, <2>3, <2>5, AtAfter
  <2>7. o \in 0 .. Len(w)
    BY <1>1, <1>3, <2>3
  <2>8. read[o] = DecodeLogBatch(After(w, o))
    BY <2>7 DEF read
  <2>9. HeaderSize + Len(r) = e[i] - o
    BY <2>2, <2>3
  <2>10. read[o] = [bytes |-> r, end |-> e[i] - o]
    BY <2>2, <2>6, <2>8, <2>9
  <2>11. QED
    BY <1>4, <2>1, <2>10 DEF o
<1>9. ASSUME e[j] < k PROVE read[e[j]] = Failed
  <2> DEFINE o == e[j]
             c == EncodeLogBatch(batches[j + 1])
             v == After(w, o)
  <2>1. j < m
    <3>1. SUFFICES ASSUME ~(j < m) PROVE FALSE
      OBVIOUS
    <3>2. j = m
      BY <1>1, <3>1
    <3>3. QED
      BY <1>1, <1>9, <3>2
  <2>2. j + 1 \in 1 .. m /\ (j + 1) - 1 = j
    BY <1>1, <2>1
  <2>3. c \in Seq(Byte) /\ Len(c) \in Nat /\ e[j + 1] = o + Len(c) /\ At(payload, o, c)
    BY <1>2, <2>2
  <2>4. k < o + Len(c) /\ o \in Nat /\ o < k
    BY <1>1, <1>9, <2>1, <2>3 DEF m
  <2> HIDE DEF c, o, read
  <2>5. v \in Seq(Byte) /\ Len(v) = k - o /\ \A x \in 1 .. k - o : v[x] = w[o + x]
    <3>1. k \in Nat /\ w \in Seq(Byte) /\ Len(w) = k /\ o \in Nat /\ o < k
      BY <1>1, <1>3, <2>4
    <3>2. v = SubSeq(w, o + 1, k)
      BY <3>1 DEF After
    <3> HIDE DEF v
    <3> DEFINE s == SubSeq(w, o + 1, k)
    <3>3. s \in Seq(Byte) /\ Len(s) = k - o
      BY <3>1
    <3>4. \A x \in 1 .. k - o : s[x] = w[o + x]
      BY <3>1
    <3>5. QED
      BY <3>2, <3>3, <3>4
  <2> HIDE DEF v
  <2>6. Len(v) < Len(c)
    BY <1>1, <2>3, <2>4, <2>5
  <2>7. \A x \in 1 .. Len(v) : v[x] = c[x]
    <3>1. \A x \in 1 .. Len(v) : o + x \in 1 .. k /\ x \in 1 .. Len(c) /\ x \in 1 .. k - o
      BY <1>1, <2>3, <2>4, <2>5
    <3>2. \A x \in 1 .. Len(c) : payload[o + x] = c[x]
      BY <2>3 DEF At
    <3>3. QED
      BY <1>3, <2>5, <3>1, <3>2
  <2>8. batches[j + 1] \in Batches
    BY <1>1, <2>2
  <2>9. DecodeLogBatch(v) = Failed
    BY <2>5, <2>6, <2>7, <2>8, BatchRead DEF c
  <2>10. o \in 0 .. Len(w)
    BY <1>1, <1>3, <2>4
  <2>11. read[o] = DecodeLogBatch(v)
    BY <2>10 DEF read, v
  <2>12. QED
    BY <2>9, <2>11 DEF o
<1>10. pieces \in Seq(Seq(Byte)) /\ Len(pieces) = j /\ \A i \in 1 .. j : pieces[i] = Records(batches[i])
  <2> DEFINE B == Seq(Byte)
  <2>1. \A i \in 1 .. j : Records(batches[i]) \in B
    BY <1>1, <1>5, BatchRead
  <2> HIDE DEF B
  <2>2. pieces \in Seq(B) /\ Len(pieces) = j
    BY <1>1, <2>1
  <2>3. QED
    BY <2>2 DEF B
<1> HIDE DEF pieces
<1>11. SplitLogBatches(w) = IF Pieces(k, read) = Failed THEN Failed
                            ELSE AllOrFailed([i \in DOMAIN Pieces(k, read) |-> SplitLogRecords(Pieces(k, read)[i])])
  BY <1>3 DEF SplitLogBatches, Then
<1> HIDE DEF read
<1>12. Pieces(k, read) = IF d[j] = k THEN pieces ELSE Failed
  <2>1. d[j] <= k /\ (d[j] < k => read[d[j]] = Failed)
    BY <1>4, <1>9
  <2>2. j \in Nat /\ k \in Nat
    BY <1>1
  <2>3. QED
    <3>1. d \in [0 .. j -> Nat] /\ d[0] = 0
      BY <1>4
    <3>2. pieces \in Seq(Seq(Byte)) /\ Len(pieces) = j
      BY <1>10
    <3>3. \A i \in 1 .. j : read[d[i - 1]] = [bytes |-> pieces[i], end |-> d[i] - d[i - 1]]
      BY <1>8
    <3>4. Piecewise(j, d, pieces, k, read)
      BY <1>6, <2>1, <3>1, <3>2, <3>3 DEF Piecewise
    <3>5. QED
      BY <2>2, <3>4, PiecesAre
<1>13. CASE e[j] # k
  <2>1. SplitLogBatches(w) = Failed
    BY <1>4, <1>11, <1>12, <1>13
  <2>2. QED
    BY <1>13, <2>1 DEF w, payload
<1>14. CASE e[j] = k
  <2>1. Pieces(k, read) = pieces /\ pieces # Failed /\ DOMAIN pieces = 1 .. j
    <3>1. Pieces(k, read) = pieces
      BY <1>4, <1>12, <1>14
    <3>2. pieces # Failed
      BY <1>10, NoFailedRows
    <3> DEFINE B == Seq(Byte)
    <3> HIDE DEF B
    <3>3. pieces \in Seq(B)
      BY <1>10 DEF B
    <3>4. DOMAIN pieces = 1 .. j
      BY <1>10, <3>3
    <3>5. QED
      BY <3>1, <3>2, <3>4
  <2> DEFINE items == [i \in 1 .. j |-> SplitLogRecords(pieces[i])]
  <2>2. SplitLogBatches(w) = AllOrFailed(items)
    BY <1>11, <2>1
  <2>3. \A i \in 1 .. j : SplitLogRecords(pieces[i]) = batches[i] /\ batches[i] # Failed
    <3>1. SUFFICES ASSUME NEW i \in 1 .. j
                   PROVE  SplitLogRecords(pieces[i]) = batches[i] /\ batches[i] # Failed
      OBVIOUS
    <3>2. batches[i] \in RowBytes
      BY <1>1, <1>5 DEF Batches
    <3>3. QED
      BY <1>10, <3>2, RecordsRead, NoFailedRows
  <2>4. items = [i \in 1 .. j |-> batches[i]]
    BY <2>3
  <2>5. AllOrFailed(items) = items
    BY <2>3 DEF AllOrFailed
  <2>6. First(batches, j) = [i \in 1 .. j |-> batches[i]]
    <3>1. batches \in Seq(Batches) /\ j \in 0 .. Len(batches)
      OBVIOUS
    <3> DEFINE s == SubSeq(batches, 1, j)
    <3>2. s \in Seq(Batches) /\ Len(s) = j /\ \A i \in 1 .. j : s[i] = batches[i]
      BY <3>1
    <3>3. s = [i \in 1 .. j |-> s[i]]
      BY <3>2
    <3> HIDE DEF s
    <3>4. s = [i \in 1 .. j |-> batches[i]]
      BY <3>2, <3>3
    <3>5. QED
      BY <3>4 DEF First, s
  <2>7. SplitLogBatches(w) = First(batches, j)
    BY <2>2, <2>4, <2>5, <2>6
  <2>8. QED
    BY <1>14, <2>7 DEF w, payload
<1>15. QED
  BY <1>13, <1>14

(* What was appended to a log is what is read of it: every batch, and of   *)
(* each batch every row, in their order (row.go, DecodeLogRecordBatchRows).*)
THEOREM LogsSurvive ==
  ASSUME NEW batches \in Seq(Batches)
  PROVE  SplitLogBatches(LogPayload(batches)) = batches
<1> DEFINE m == Len(batches)
           payload == LogPayload(batches)
           k == Len(payload)
<1>1. PICK e : Boundaries(batches, e)
  BY BoundariesExist
<1>2. payload \in Seq(Byte) /\ k = e[m] /\ m \in Nat
  BY <1>1 DEF Boundaries
<1>3. First(payload, k) = payload /\ First(batches, m) = batches /\ k \in Nat
  <2>1. \A S : \A s \in Seq(S) : First(s, Len(s)) = s /\ Len(s) \in Nat
    BY DEF First
  <2>2. QED
    BY <1>2, <2>1
<1>4. k \in 0 .. Len(LogPayload(batches)) /\ m \in 0 .. Len(batches) /\ ~(m < Len(batches))
  BY <1>2, <1>3
<1> HIDE DEF k, m
<1>5. e[m] <= k
  BY <1>2, <1>3
<1>6. m < Len(batches) => k < e[m + 1]
  BY <1>4
<1>7. SplitLogBatches(First(LogPayload(batches), k)) = IF e[m] = k THEN First(batches, m) ELSE Failed
  BY <1>1, <1>4, <1>5, <1>6, CutRead
<1>8. QED
  BY <1>2, <1>3, <1>7

(* A payload that the server cut off is refused, unless what is left of it *)
(* is some of its batches, the first, each with all of its rows: no row is *)
(* read of a batch that is not there as a whole, and none is passed over.  *)
THEOREM CutLogs ==
  ASSUME NEW batches \in Seq(Batches), NEW k \in 0 .. Len(LogPayload(batches))
  PROVE  \/ SplitLogBatches(First(LogPayload(batches), k)) = Failed
         \/ \E j \in 0 .. Len(batches) :
              /\ SplitLogBatches(First(LogPayload(batches), k)) = First(batches, j)
              /\ k < Len(LogPayload(batches)) => j < Len(batches)
<1> DEFINE m == Len(batches)
           payload == LogPayload(batches)
<1>1. PICK e : Boundaries(batches, e)
  BY BoundariesExist
<1>2. /\ m \in Nat /\ e[0] = 0 /\ payload \in Seq(Byte) /\ Len(payload) = e[m]
      /\ \A i \in 1 .. m : e[i - 1] \in Nat /\ e[i] \in Nat
  BY <1>1 DEF Boundaries
<1> HIDE DEF m, payload
<1>3. k \in Nat /\ k <= e[m]
  <2>1. Len(payload) \in Nat /\ k \in 0 .. Len(payload)
    BY <1>2 DEF payload
  <2>2. QED
    BY <1>2, <2>1
<1>4. \E j \in 0 .. m : e[j] <= k /\ (j < m => k < e[j + 1])
  <2>1. SUFFICES ASSUME ~ \E j \in 0 .. m : e[j] <= k /\ (j < m => k < e[j + 1]) PROVE FALSE
    OBVIOUS
  <2> DEFINE T == {i \in 0 .. m : e[i] <= k}
  <2>2. 0 \in T
    BY <1>2, <1>3
  <2>3. ASSUME NEW i \in 0 .. m - 1, i \in T PROVE i + 1 \in T
    <3>1. i \in 0 .. m /\ i < m /\ i + 1 \in 1 .. m /\ i + 1 \in 0 .. m /\ e[i] <= k
      BY <1>2, <2>3
    <3>2. ~(k < e[i + 1])
      BY <2>1, <3>1
    <3>3. e[i + 1] \in Nat
      BY <1>2, <3>1
    <3>4. e[i + 1] <= k
      BY <1>3, <3>2, <3>3
    <3>5. QED
      BY <3>1, <3>4
  <2>4. \A i \in 0 .. m : i \in T
    <3> HIDE DEF T
    <3>1. QED
      BY <1>2, <2>2, <2>3, UpTo
  <2>5. m \in 0 .. m /\ ~(m < m)
    BY <1>2
  <2>6. e[m] <= k
    BY <2>4, <2>5
  <2>7. QED
    BY <2>1, <2>5, <2>6
<1>5. PICK j \in 0 .. m : e[j] <= k /\ (j < m => k < e[j + 1])
  BY <1>4
<1>6. SplitLogBatches(First(LogPayload(batches), k)) = IF e[j] = k THEN First(batches, j) ELSE Failed
  <2>1. j \in 0 .. Len(batches) /\ (j < Len(batches) => k < e[j + 1])
    BY <1>5 DEF m
  <2>2. QED
    BY <1>1, <1>5, <2>1, CutRead
<1>7. CASE e[j] # k
  BY <1>6, <1>7
<1>8. CASE e[j] = k
  <2>1. k < Len(payload) => j < m
    <3>1. SUFFICES ASSUME k < Len(payload), ~(j < m) PROVE FALSE
      OBVIOUS
    <3>2. j = m
      BY <1>2, <1>5, <3>1
    <3>3. QED
      BY <1>2, <1>3, <1>8, <3>1, <3>2
  <2>2. QED
    BY <1>5, <1>6, <1>8, <2>1 DEF m, payload
<1>9. QED
  BY <1>7, <1>8

-------------------------------------------------------------------------------
(* Timestamps of an Arrow log *)

(* The quotient of Go's division, towards zero, is an integer. *)
LEMMA QuotientOf ==
  ASSUME NEW a \in Int, NEW b \in Nat, b >= 1
  PROVE  Quotient(a, b) \in Int /\ Remainder(a, b) \in Int /\ Quotient(a, b) * b + Remainder(a, b) = a
<1>1. Quotient(a, b) \in Int
  <2>1. -a \in Int
    OBVIOUS
  <2> DEFINE n == -a
  <2>2. n \in Int
    BY <2>1
  <2> HIDE DEF n
  <2>3. a \div b \in Int /\ n \div b \in Int
    BY <2>2, Division
  <2>4. Quotient(a, b) = IF a < 0 THEN -(n \div b) ELSE a \div b
    BY DEF Quotient, n
  <2>5. QED
    BY <2>3, <2>4
<1> DEFINE q == Quotient(a, b)
           p == q * b
<1>2. Remainder(a, b) = a - p
  BY DEF Remainder
<1>3. p \in Int
  BY <1>1
<1> HIDE DEF p
<1>4. a - p \in Int /\ p + (a - p) = a
  BY <1>3
<1>5. QED
  BY <1>1, <1>2, <1>4 DEF p

(* The nanoseconds of a tick. *)
Unit(t) == TimestampTypeForPrecision(t.length).unit

(* What is read of a timestamp that was written to a column is no later    *)
(* than it was, and by less than a tick earlier, before 1970 as after,     *)
(* though the ticks are counted downwards and taken apart towards zero     *)
(* (arrow.go, the builder's and the reader's conversions).                 *)
THEOREM TimestampsSurvive ==
  ASSUME NEW t, t.length \in Int, NEW v, v[1] \in Int, v[2] \in Int,
         Instant(v) \div Unit(t) \in Ints(W64),
         t.length <= 0 => (Instant(v) \div Unit(t)) * Thousand \in Ints(W64)
  PROVE  LET read == Instant(TimestampParts(t, TimestampValueForField(t, v)))
         IN  /\ read = (Instant(v) \div Unit(t)) * Unit(t)
             /\ read <= Instant(v) /\ Instant(v) - read < Unit(t)
<1> DEFINE u == Unit(t)
           x == Instant(v)
           q == x \div u
           parts == TimestampParts(t, TimestampValueForField(t, v))
<1>0. Thousand \in Nat /\ Thousand >= 1 /\ W64 \in Nat
  BY ArrowTimestampsAssumption, Bases
<1>1. Million \in Nat /\ Million >= 1 /\ Million = Thousand * Thousand
  <2>1. Thousand * Thousand \in Nat /\ Thousand * Thousand >= 1
    BY <1>0
  <2>2. QED
    BY <2>1 DEF Million
<1>2. Thousand * Million \in Nat /\ Thousand * Million >= 1
  BY <1>0, <1>1
<1>3. /\ t.length <= 0 => u = Thousand * Million
      /\ t.length \in 1 .. 3 => u = Million
      /\ t.length \in 4 .. 6 => u = Thousand
      /\ t.length > 6 => u = 1
  BY DEF Unit, TimestampTypeForPrecision
<1>4. t.length <= 0 \/ t.length \in 1 .. 3 \/ t.length \in 4 .. 6 \/ t.length > 6
  OBVIOUS
<1>5. u \in Nat /\ u >= 1
  BY <1>0, <1>1, <1>2, <1>3, <1>4
<1>6. x \in Int
  <2>1. v[1] * Million \in Int
    BY <1>1
  <2>2. QED
    BY <2>1 DEF Instant
<1>7. q \in Ints(W64)
  OBVIOUS
<1>8. TimestampValueForField(t, v) = Wrap(q, W64)
  <2>1. CASE t.length <= 0
    BY <1>3, <2>1 DEF TimestampValueForField
  <2>2. CASE t.length \in 1 .. 3
    BY <1>3, <2>2 DEF TimestampValueForField
  <2>3. CASE t.length \in 4 .. 6
    BY <1>3, <2>3 DEF TimestampValueForField
  <2>4. CASE t.length > 6
    BY <1>3, <2>4 DEF TimestampValueForField
  <2>5. QED
    BY <1>4, <2>1, <2>2, <2>3, <2>4
<1> HIDE DEF u, x
<1>9. q \in Int /\ q * u <= x /\ x - q * u < u /\ q * u \in Int
  <2> DEFINE r == x % u
  <2>1. q \in Int /\ r \in 0 .. u - 1 /\ x = q * u + r
    BY <1>5, <1>6, Division
  <2> HIDE DEF q, r
  <2>2. q * u \in Int
    BY <1>5, <2>1
  <2> DEFINE p == q * u
  <2>3. p \in Int /\ x = p + r
    BY <2>1, <2>2
  <2> HIDE DEF p
  <2>4. p <= x /\ x - p < u
    BY <1>5, <2>1, <2>3
  <2>5. QED
    BY <2>1, <2>2, <2>4 DEF p
<1>10. TimestampValueForField(t, v) = q
  BY <1>0, <1>7, <1>8, <1>9, WrapIs
<1>11. t.length <= 0 => q * Thousand \in Ints(W64)
  BY DEF u, x
<1> HIDE DEF q
<1>12. Instant(parts) = q * u
  <2>1. CASE t.length <= 0
    <3> DEFINE y == q * Thousand
    <3>1. y \in Int /\ y \in Ints(W64)
      BY <1>0, <1>9, <1>11, <2>1
    <3> HIDE DEF y
    <3>2. Wrap(y, W64) = y
      BY <1>0, <3>1, WrapIs
    <3>3. parts = <<y, 0>>
      BY <1>10, <2>1, <3>2 DEF TimestampParts, y
    <3>4. Instant(parts) = y * Million
      <4>1. y * Million \in Int
        BY <1>1, <3>1
      <4>2. Instant(parts) = y * Million + 0
        BY <3>3 DEF Instant
      <4>3. QED
        BY <4>1, <4>2
    <3>5. (q * Thousand) * Million = q * (Thousand * Million)
      BY <1>0, <1>1, <1>9
    <3>6. QED
      BY <1>3, <2>1, <3>4, <3>5 DEF y
  <2>2. CASE t.length \in 1 .. 3
    <3>1. parts = <<q, 0>>
      BY <1>10, <2>2 DEF TimestampParts
    <3>2. Instant(parts) = q * Million + 0 /\ q * Million \in Int
      BY <1>1, <1>9, <3>1 DEF Instant
    <3>3. QED
      BY <1>3, <2>2, <3>2
  <2>3. CASE t.length \in 4 .. 6
    <3> DEFINE a == Quotient(q, Thousand)
               b == Remainder(q, Thousand)
    <3>1. a \in Int /\ b \in Int /\ a * Thousand + b = q
      BY <1>0, <1>9, QuotientOf
    <3>2. parts = <<a, b * Thousand>>
      BY <1>10, <2>3 DEF TimestampParts
    <3> HIDE DEF a, b
    <3>3. Instant(parts) = a * (Thousand * Thousand) + b * Thousand
      BY <1>1, <3>2 DEF Instant
    <3>4. a * (Thousand * Thousand) + b * Thousand = (a * Thousand + b) * Thousand
      BY <1>0, <3>1
    <3>5. QED
      BY <1>3, <2>3, <3>1, <3>3, <3>4
  <2>4. CASE t.length > 6
    <3> DEFINE a == Quotient(q, Million)
               b == Remainder(q, Million)
    <3>1. a \in Int /\ b \in Int /\ a * Million + b = q
      BY <1>1, <1>9, QuotientOf
    <3>2. parts = <<a, b>>
      BY <1>10, <2>4 DEF TimestampParts
    <3> HIDE DEF a, b
    <3>3. Instant(parts) = q
      BY <3>1, <3>2 DEF Instant
    <3>4. q * 1 = q /\ u = 1
      BY <1>3, <1>9, <2>4
    <3>5. QED
      BY <3>3, <3>4
  <2>5. QED
    BY <1>4, <2>1, <2>2, <2>3, <2>4
<1>13. QED
  BY <1>9, <1>12 DEF u, x, q
===============================================================================
