--------------------------- MODULE TxParser_proofs ---------------------------
(* Theorems about TxParser, for any width of a byte, any lengths and any     *)
(* buffers: what the bytes of a number, of a varint and of a transaction     *)
(* are, and what the parser makes of them.                                   *)
EXTENDS TxParser, SequenceTheorems, NaturalsInduction, WellFoundedInduction, TLAPS

-----------------------------------------------------------------------------
(* Induction, on sets of natural numbers.                                  *)

LEMMA SetInduction ==
    ASSUME NEW T, 0 \in T, \A n \in Nat : n \in T => n + 1 \in T
    PROVE  Nat \subseteq T
<1> DEFINE S == Nat \ T
           R == OpToRel(<, Nat)
<1>1. SUFFICES ASSUME S # {} PROVE FALSE
  OBVIOUS
<1>2. \A x, y \in Nat : x < y => <<x, y>> \in R
  BY DEF OpToRel
<1>3. IsWellFoundedOn(R, Nat)
  BY NatLessThanWellFounded
<1> HIDE DEF R
<1>4. PICK m \in S : \A k \in S : ~ (<<k, m>> \in R)
  BY <1>1, <1>3, WFMin
<1>5. m # 0 /\ m - 1 \in Nat /\ m - 1 \notin S
  <2>1. \A k \in S : ~ (k < m)
    BY <1>2, <1>4
  <2>2. QED BY <2>1
<1>6. m \in T
  BY <1>5
<1>7. QED BY <1>6

LEMMA Constants ==
    /\ Prefix \in Nat /\ WordLen \in Nat /\ AddressLen \in Nat /\ MaxTxLen \in Nat
    /\ MaxMemoLen \in Nat /\ SizeMod \in Nat \ {0} /\ MaxTxLen < SizeMod
    /\ ByteMod = Prefix + 3 /\ ByteMod \in Nat \ {0} /\ ByteMod >= 3
    /\ Bytes = 0 .. Prefix + 2 /\ Bytes \subseteq Nat
<1>1. \A n \in {Prefix, WordLen, AddressLen, MaxTxLen, MaxMemoLen, SizeMod} : n \in Nat
  BY TxAssumption
<1>2. ByteMod = Prefix + 3 /\ MaxTxLen < SizeMod
  BY TxAssumption
<1>3. /\ Prefix \in Nat /\ WordLen \in Nat /\ AddressLen \in Nat /\ MaxTxLen \in Nat
      /\ MaxMemoLen \in Nat /\ SizeMod \in Nat
  BY <1>1
<1>4. Bytes = 0 .. Prefix + 2
  BY <1>2, <1>3 DEF Bytes
<1>5. Bytes \subseteq Nat
  BY <1>3, <1>4
<1>6. QED BY <1>2, <1>3, <1>4, <1>5

-----------------------------------------------------------------------------
(* Arithmetic.                                                             *)

LEMMA ProductIsNat == \A x, y \in Nat : x * y \in Nat
  OBVIOUS

LEMMA Distribution == \A x, y, z \in Nat : x * (y + z) = x * y + x * z
  OBVIOUS

LEMMA ProductGrows == \A x, y, z \in Nat : y <= z => x * y <= x * z
  OBVIOUS

LEMMA Association == \A x, y, z \in Nat : (x * y) * z = x * (y * z)
  OBVIOUS

LEMMA Commutation == \A x, y \in Nat : x * y = y * x
  OBVIOUS

LEMMA Division ==
    ASSUME NEW n \in Nat, NEW p \in Nat \ {0}
    PROVE  n \div p \in Nat /\ n % p \in 0 .. p - 1 /\ n = p * (n \div p) + (n % p)
<1>1. n \in Int /\ p \in Int /\ p > 0
  OBVIOUS
<1>2. n = p * (n \div p) + (n % p)
  BY <1>1
<1>3. n % p \in 0 .. p - 1 /\ n \div p \in Nat
  BY <1>1
<1>4. QED BY <1>2, <1>3

LEMMA QuotientIs ==
    ASSUME NEW n \in Nat, NEW p \in Nat \ {0}, NEW q \in Nat, NEW r \in 0 .. p - 1, n = p * q + r
    PROVE  n \div p = q /\ n % p = r
  OBVIOUS

\* To divide by a product is to divide by one factor, then by the other.
LEMMA DividedTwice ==
    ASSUME NEW n \in Nat, NEW p \in Nat \ {0}, NEW q \in Nat \ {0}
    PROVE  n \div (p * q) = (n \div p) \div q
<1> DEFINE m == n \div p
           r == n % p
           k == m \div q
           s == m % q
<1>1. m \in Nat /\ r \in 0 .. p - 1 /\ n = p * m + r
  BY Division
<1> HIDE DEF m, r
<1>2. k \in Nat /\ s \in 0 .. q - 1 /\ m = q * k + s
  BY <1>1, Division
<1> HIDE DEF k, s
<1>3. p * q \in Nat \ {0}
  OBVIOUS
<1>4. n = (p * q) * k + (p * s + r)
  <2>1. p \in Nat /\ q \in Nat /\ k \in Nat /\ s \in Nat /\ q * k \in Nat
    BY <1>2, ProductIsNat
  <2>2. p * m = p * (q * k) + p * s
    BY <1>2, <2>1, Distribution
  <2>3. (p * q) * k = p * (q * k)
    BY <2>1, Association
  <2>4. p * (q * k) \in Nat /\ p * s \in Nat
    BY <2>1, ProductIsNat
  <2> HIDE DEF k, s
  <2>5. QED BY <1>1, <2>2, <2>3, <2>4
<1>5. p * s + r \in 0 .. p * q - 1
  <2>1. p \in Nat /\ q \in Nat /\ s \in Nat /\ s + 1 \in Nat /\ s + 1 <= q /\ 1 \in Nat
    BY <1>2
  <2>2. p * (s + 1) <= p * q /\ p * (s + 1) = p * s + p * 1
    BY <2>1, ProductGrows, Distribution
  <2>3. p * s \in Nat /\ p * q \in Nat /\ p * 1 = p
    BY <2>1, ProductIsNat
  <2>4. QED BY <1>1, <2>1, <2>2, <2>3
<1>6. n \div (p * q) = k
  <2> DEFINE d == p * q
             e == p * s + r
  <2>1. d \in Nat \ {0} /\ e \in 0 .. d - 1 /\ n = d * k + e
    BY <1>3, <1>4, <1>5
  <2> HIDE DEF d, e
  <2>2. n \div d = k
    BY <1>2, <2>1, QuotientIs
  <2>3. QED BY <2>2 DEF d
<1>7. QED BY <1>6 DEF k, m

-----------------------------------------------------------------------------
(* Numbers, byte by byte.                                                  *)

\* What n becomes as the numbers b come after it, up to the one at w.
Digits(v, n, b, w) == v[0] = n /\ \A k \in 1 .. w : v[k] = v[k - 1] * ByteMod + b[k]

LEMMA DigitsExist ==
    ASSUME NEW w \in Nat, NEW n \in Nat, NEW b \in [1 .. w -> Nat]
    PROVE  \E v \in [0 .. w -> Nat] : Digits(v, n, b, w)
<1> DEFINE T == {m \in Nat : m <= w => \E v \in [0 .. m -> Nat] : Digits(v, n, b, m)}
<1>1. 0 \in T
  <2> DEFINE v == [k \in 0 .. 0 |-> n]
  <2>1. v \in [0 .. 0 -> Nat] /\ v[0] = n /\ 1 .. 0 = {}
    OBVIOUS
  <2> HIDE DEF v
  <2>2. Digits(v, n, b, 0)
    BY <2>1 DEF Digits
  <2>3. QED BY <2>1, <2>2
<1>2. ASSUME NEW m \in Nat, m \in T, m + 1 <= w
      PROVE  \E v \in [0 .. m + 1 -> Nat] : Digits(v, n, b, m + 1)
  <2>1. m <= w /\ m \in 0 .. m /\ m + 1 \in 1 .. w
    BY <1>2
  <2>2. PICK f \in [0 .. m -> Nat] : Digits(f, n, b, m)
    BY <1>2, <2>1
  <2> DEFINE x == f[m] * ByteMod + b[m + 1]
             v == [k \in 0 .. m + 1 |-> IF k = m + 1 THEN x ELSE f[k]]
  <2>3. x \in Nat
    <3>1. f[m] \in Nat /\ b[m + 1] \in Nat /\ ByteMod \in Nat
      BY <2>1, Constants
    <3>2. f[m] * ByteMod \in Nat
      BY <3>1, ProductIsNat
    <3> DEFINE p == f[m] * ByteMod
               d == b[m + 1]
    <3>3. x = p + d /\ p \in Nat /\ d \in Nat
      BY <3>1, <3>2
    <3> HIDE DEF p, d, x
    <3>4. QED BY <3>3
  <2> HIDE DEF x
  <2>4. v \in [0 .. m + 1 -> Nat]
    <3>1. \A k \in 0 .. m + 1 : k # m + 1 => k \in 0 .. m
      OBVIOUS
    <3>2. QED BY <2>3, <3>1
  <2>5. \A k \in 0 .. m : v[k] = f[k]
    OBVIOUS
  <2>6. v[m + 1] = x
    OBVIOUS
  <2> HIDE DEF v
  <2>7. v[0] = n
    BY <2>2, <2>5 DEF Digits
  <2>8. ASSUME NEW k \in 1 .. m + 1 PROVE v[k] = v[k - 1] * ByteMod + b[k]
    <3>1. CASE k = m + 1
      <4>1. v[k] = x /\ v[k - 1] = f[m] /\ b[k] = b[m + 1]
        BY <2>1, <2>5, <2>6, <3>1
      <4>2. QED BY <4>1 DEF x
    <3>2. CASE k # m + 1
      <4>1. k \in 1 .. m /\ k \in 0 .. m /\ k - 1 \in 0 .. m
        BY <3>2
      <4>2. v[k] = f[k] /\ v[k - 1] = f[k - 1]
        BY <2>5, <4>1
      <4>3. f[k] = f[k - 1] * ByteMod + b[k]
        BY <2>2, <4>1 DEF Digits
      <4>4. QED BY <4>2, <4>3
    <3>3. QED BY <3>1, <3>2
  <2>9. Digits(v, n, b, m + 1)
    BY <2>7, <2>8 DEF Digits
  <2>10. QED BY <2>4, <2>9
<1>3. \A m \in Nat : m \in T => m + 1 \in T
  <2>1. ASSUME NEW m \in Nat, m \in T PROVE m + 1 \in T
    <3>1. m + 1 <= w => \E v \in [0 .. m + 1 -> Nat] : Digits(v, n, b, m + 1)
      BY <1>2, <2>1
    <3>2. m + 1 \in Nat
      OBVIOUS
    <3>3. QED BY <3>1, <3>2
  <2>2. QED BY <2>1
<1>4. w \in T
  <2> HIDE DEF T
  <2>1. QED BY <1>1, <1>3, SetInduction
<1>5. QED BY <1>4

LEMMA DigitsAgree ==
    ASSUME NEW w \in Nat, NEW n, NEW f, NEW g, NEW b, Digits(f, n, b, w), Digits(g, n, b, w)
    PROVE  \A k \in 0 .. w : f[k] = g[k]
<1> DEFINE T == {k \in Nat : k <= w => f[k] = g[k]}
<1>1. 0 \in T
  BY DEF Digits
<1>2. ASSUME NEW k \in Nat, k \in T, k + 1 <= w PROVE f[k + 1] = g[k + 1]
  <2>1. k + 1 \in 1 .. w /\ (k + 1) - 1 = k /\ f[k] = g[k]
    BY <1>2
  <2>2. f[k + 1] = f[(k + 1) - 1] * ByteMod + b[k + 1]
    BY <2>1 DEF Digits
  <2>3. g[k + 1] = g[(k + 1) - 1] * ByteMod + b[k + 1]
    BY <2>1 DEF Digits
  <2>4. QED BY <2>1, <2>2, <2>3
<1>3. \A k \in Nat : k \in T => k + 1 \in T
  BY <1>2
<1>4. Nat \subseteq T
  <2> HIDE DEF T
  <2>1. QED BY <1>1, <1>3, SetInduction
<1>5. QED BY <1>4

LEMMA AppendedIs ==
    ASSUME NEW n \in Nat, NEW b \in Seq(Nat)
    PROVE  \E v \in [0 .. Len(b) -> Nat] :
               Digits(v, n, b, Len(b)) /\ Appended(n, b) = v[Len(b)]
<1> DEFINE w == Len(b)
           Step(f, k) == IF k = 0 THEN n ELSE f[k - 1] * ByteMod + b[k]
           V == CHOOSE v : v = [k \in 0 .. w |-> Step(v, k)]
<1>1. w \in Nat /\ b \in [1 .. w -> Nat]
  BY LenProperties
<1>2. Appended(n, b) = V[w]
  BY DEF Appended
<1> HIDE DEF w
<1>3. PICK f \in [0 .. w -> Nat] : Digits(f, n, b, w)
  BY <1>1, DigitsExist
<1>4. f = [k \in 0 .. w |-> Step(f, k)]
  <2>1. ASSUME NEW k \in 0 .. w PROVE f[k] = Step(f, k)
    <3>1. k = 0 \/ k \in 1 .. w
      BY <1>1
    <3>2. QED BY <1>3, <3>1 DEF Digits
  <2> HIDE DEF Step
  <2>2. QED BY <2>1
<1>5. V = [k \in 0 .. w |-> Step(V, k)]
  <2> HIDE DEF Step
  <2>1. QED BY <1>4
<1>6. \A k \in 0 .. w : V[k] = Step(V, k)
  <2> HIDE DEF Step, V
  <2>1. QED BY <1>5
<1> HIDE DEF V
<1>7. Digits(V, n, b, w)
  <2>1. V[0] = n
    BY <1>1, <1>6
  <2>2. ASSUME NEW k \in 1 .. w PROVE V[k] = V[k - 1] * ByteMod + b[k]
    <3>1. k \in 0 .. w /\ k # 0
      BY <1>1
    <3>2. V[k] = Step(V, k)
      BY <1>6, <3>1
    <3>3. QED BY <3>1, <3>2
  <2>3. QED BY <2>1, <2>2 DEF Digits
<1>8. V[w] = f[w]
  <2>1. \A k \in 0 .. w : V[k] = f[k]
    BY <1>1, <1>3, <1>7, DigitsAgree
  <2>2. QED BY <1>1, <2>1
<1>9. QED BY <1>2, <1>3, <1>8 DEF w

LEMMA PowerSteps ==
    Power(0) = 1 /\ \A w \in Nat : Power(w) \in Nat \ {0} /\ Power(w + 1) = Power(w) * ByteMod
<1> DEFINE zeros(w) == [k \in 1 .. w |-> 0]
<1>1. ASSUME NEW w \in Nat
      PROVE  zeros(w) \in Seq(Nat) /\ Len(zeros(w)) = w /\ \A k \in 1 .. w : zeros(w)[k] = 0
  OBVIOUS
<1>2. \A w \in Nat : Power(w) = Appended(1, zeros(w))
  BY DEF Power
<1> HIDE DEF zeros
<1>3. ASSUME NEW w \in Nat
      PROVE  \E v \in [0 .. w -> Nat] : Digits(v, 1, zeros(w), w) /\ Power(w) = v[w]
  <2> DEFINE b == zeros(w)
  <2>1. b \in Seq(Nat) /\ Len(b) = w /\ Power(w) = Appended(1, b) /\ 1 \in Nat
    BY <1>1, <1>2
  <2> HIDE DEF b
  <2>2. \E v \in [0 .. Len(b) -> Nat] : Digits(v, 1, b, Len(b)) /\ Appended(1, b) = v[Len(b)]
    BY <2>1, AppendedIs
  <2>3. QED BY <2>1, <2>2 DEF b
<1>4. Power(0) = 1
  <2>1. PICK v \in [0 .. 0 -> Nat] : Digits(v, 1, zeros(0), 0) /\ Power(0) = v[0]
    BY <1>3
  <2>2. QED BY <2>1 DEF Digits
<1>5. ASSUME NEW w \in Nat PROVE Power(w) \in Nat /\ Power(w + 1) = Power(w) * ByteMod
  <2>1. PICK f \in [0 .. w -> Nat] : Digits(f, 1, zeros(w), w) /\ Power(w) = f[w]
    BY <1>3
  <2>2. w + 1 \in Nat /\ w + 1 \in 1 .. w + 1 /\ w \in 0 .. w /\ (w + 1) - 1 = w
    OBVIOUS
  <2>3. PICK g \in [0 .. w + 1 -> Nat] :
            Digits(g, 1, zeros(w + 1), w + 1) /\ Power(w + 1) = g[w + 1]
    BY <1>3, <2>2
  <2>4. f[w] = g[w]
    <3>1. ASSUME NEW k \in 1 .. w PROVE g[k] = g[k - 1] * ByteMod + zeros(w)[k]
      <4>1. k \in 1 .. w + 1
        OBVIOUS
      <4>2. g[k] = g[k - 1] * ByteMod + zeros(w + 1)[k]
        BY <2>3, <4>1 DEF Digits
      <4>3. zeros(w)[k] = zeros(w + 1)[k]
        BY <1>1, <2>2, <4>1
      <4>4. QED BY <4>2, <4>3
    <3>2. Digits(g, 1, zeros(w), w)
      BY <2>3, <3>1 DEF Digits
    <3> DEFINE n == 1
               b == zeros(w)
    <3>3. Digits(f, n, b, w) /\ Digits(g, n, b, w)
      BY <2>1, <3>2
    <3> HIDE DEF n, b
    <3>4. \A k \in 0 .. w : f[k] = g[k]
      BY <3>3, DigitsAgree, SMTT(30)
    <3>5. QED BY <2>2, <3>4
  <2>5. g[w + 1] = g[(w + 1) - 1] * ByteMod + zeros(w + 1)[w + 1]
    BY <2>2, <2>3 DEF Digits
  <2>6. zeros(w + 1)[w + 1] = 0
    BY <1>1, <2>2
  <2>7. f[w] \in Nat /\ f[w] * ByteMod \in Nat
    BY <2>2, Constants, ProductIsNat
  <2>8. QED BY <2>1, <2>2, <2>3, <2>4, <2>5, <2>6, <2>7
<1>6. \A w \in Nat : Power(w) # 0
  <2> DEFINE T == {w \in Nat : Power(w) # 0}
  <2>1. 0 \in T
    BY <1>4
  <2>2. ASSUME NEW w \in Nat, w \in T PROVE w + 1 \in T
    <3>1. Power(w) \in Nat \ {0} /\ Power(w + 1) = Power(w) * ByteMod /\ ByteMod \in Nat \ {0}
      BY <1>5, <2>2, Constants
    <3>2. Power(w) * ByteMod # 0
      BY <3>1
    <3>3. QED BY <3>1, <3>2
  <2> HIDE DEF T
  <2>3. Nat \subseteq T
    BY <2>1, <2>2, SetInduction
  <2>4. QED BY <2>3 DEF T
<1>7. QED BY <1>4, <1>5, <1>6

LEMMA PowerGrows == \A a, b \in Nat : a < b => Power(a) < Power(b)
<1> SUFFICES ASSUME NEW a \in Nat PROVE \A b \in Nat : a < b => Power(a) < Power(b)
  OBVIOUS
<1> DEFINE T == {b \in Nat : a < b => Power(a) < Power(b)}
<1>1. 0 \in T
  OBVIOUS
<1>2. ASSUME NEW b \in Nat, b \in T, a < b + 1 PROVE Power(a) < Power(b + 1)
  <2>1. Power(a) \in Nat /\ Power(b) \in Nat \ {0} /\ Power(b + 1) = Power(b) * ByteMod
    BY PowerSteps
  <2>2. Power(a) <= Power(b)
    <3>1. a = b \/ a < b
      BY <1>2
    <3>2. QED BY <1>2, <2>1, <3>1
  <2>3. Power(b) * 2 <= Power(b) * ByteMod
    BY <2>1, Constants, ProductGrows
  <2>4. Power(b) * ByteMod \in Nat /\ Power(b) * 2 = Power(b) + Power(b)
    BY <2>1, Constants, ProductIsNat
  <2>5. QED BY <2>1, <2>2, <2>3, <2>4
<1>3. \A b \in Nat : b \in T => b + 1 \in T
  BY <1>2
<1> HIDE DEF T
<1>4. Nat \subseteq T
  BY <1>1, <1>3, SetInduction
<1>5. QED BY <1>4 DEF T

LEMMA BigEndianIs ==
    ASSUME NEW b \in Seq(Bytes)
    PROVE  \E v \in [0 .. Len(b) -> Nat] :
               /\ Digits(v, 0, b, Len(b)) /\ BigEndian(b) = v[Len(b)]
               /\ \A k \in 0 .. Len(b) : v[k] < Power(k)
<1> DEFINE w == Len(b)
           zero == 0
<1>1. w \in Nat /\ (\A k \in 1 .. w : b[k] \in Bytes) /\ b \in Seq(Nat)
  <2>1. b \in Seq(Nat)
    BY Constants, SeqDef
  <2>2. QED BY <2>1
<1>2. zero \in Nat /\ BigEndian(b) = Appended(zero, b)
  BY DEF BigEndian
<1>3. PICK v \in [0 .. w -> Nat] : Digits(v, 0, b, w) /\ BigEndian(b) = v[w]
  <2> HIDE DEF zero
  <2>1. \E v \in [0 .. Len(b) -> Nat] :
            Digits(v, zero, b, Len(b)) /\ Appended(zero, b) = v[Len(b)]
    BY <1>1, <1>2, AppendedIs
  <2>2. QED BY <1>2, <2>1 DEF zero
<1> HIDE DEF w
<1> DEFINE T == {k \in Nat : k <= w => v[k] < Power(k)}
<1>4. 0 \in T
  BY <1>3, PowerSteps DEF Digits
<1>5. ASSUME NEW k \in Nat, k \in T, k + 1 <= w PROVE v[k + 1] < Power(k + 1)
  <2>1. k + 1 \in 1 .. w /\ k \in 0 .. w /\ (k + 1) - 1 = k
    BY <1>1, <1>5
  <2>2. v[k + 1] = v[k] * ByteMod + b[k + 1]
    BY <1>3, <2>1 DEF Digits
  <2>3. b[k + 1] \in 0 .. ByteMod - 1 /\ v[k] \in Nat /\ ByteMod \in Nat
    BY <1>1, <2>1, Constants
  <2>4. v[k] + 1 <= Power(k) /\ Power(k) \in Nat /\ Power(k + 1) = Power(k) * ByteMod
    <3>1. Power(k) \in Nat /\ Power(k + 1) = Power(k) * ByteMod
      BY PowerSteps
    <3>2. v[k] < Power(k)
      BY <1>5, <2>1
    <3>3. QED BY <2>3, <3>1, <3>2
  <2> DEFINE x == v[k]
             p == Power(k)
  <2>5. x \in Nat /\ p \in Nat /\ x + 1 <= p /\ 1 \in Nat /\ x + 1 \in Nat
    BY <2>3, <2>4
  <2> HIDE DEF x, p
  <2>6. ByteMod * (x + 1) <= ByteMod * p /\ ByteMod * (x + 1) = ByteMod * x + ByteMod * 1
    BY <2>3, <2>5, ProductGrows, Distribution
  <2>7. ByteMod * x = x * ByteMod /\ ByteMod * p = p * ByteMod /\ ByteMod * 1 = ByteMod
    BY <2>3, <2>5, Commutation
  <2>8. x * ByteMod \in Nat /\ p * ByteMod \in Nat
    BY <2>3, <2>5, ProductIsNat
  <2>9. x * ByteMod + b[k + 1] < p * ByteMod
    BY <2>3, <2>6, <2>7, <2>8
  <2>10. QED BY <2>2, <2>4, <2>9 DEF x, p
<1>6. \A k \in Nat : k \in T => k + 1 \in T
  BY <1>5
<1>7. Nat \subseteq T
  <2> HIDE DEF T
  <2>1. QED BY <1>4, <1>6, SetInduction
<1>8. QED BY <1>1, <1>3, <1>7 DEF w

\* A number of w bytes is less than one and w zeros.
LEMMA BigEndianBound ==
    ASSUME NEW b \in Seq(Bytes) PROVE BigEndian(b) \in Nat /\ BigEndian(b) < Power(Len(b))
<1>1. Len(b) \in Nat /\ Len(b) \in 0 .. Len(b)
  OBVIOUS
<1>2. QED BY <1>1, BigEndianIs

LEMMA BytesOfNumber ==
    ASSUME NEW n \in Nat, NEW w \in Nat
    PROVE  /\ BigEndianBytes(n, w) \in Seq(Bytes) /\ Len(BigEndianBytes(n, w)) = w
           /\ \A k \in 1 .. w : BigEndianBytes(n, w)[k] = (n \div Power(w - k)) % ByteMod
<1> DEFINE x(k) == (n \div Power(w - k)) % ByteMod
<1>1. ASSUME NEW k \in 1 .. w PROVE x(k) \in Bytes
  <2>1. w - k \in Nat
    OBVIOUS
  <2>2. Power(w - k) \in Nat \ {0}
    BY <2>1, PowerSteps
  <2>3. n \div Power(w - k) \in Nat
    BY <2>2, Division
  <2>4. x(k) \in 0 .. ByteMod - 1
    BY <2>3, Constants, Division
  <2>5. QED BY <2>4 DEF Bytes
<1>2. BigEndianBytes(n, w) = [k \in 1 .. w |-> x(k)]
  BY DEF BigEndianBytes
<1> HIDE DEF x
<1>3. [k \in 1 .. w |-> x(k)] \in Seq(Bytes)
  BY <1>1
<1>4. Len([k \in 1 .. w |-> x(k)]) = w
  BY <1>1
<1>5. QED BY <1>2, <1>3, <1>4 DEF x

\* What is written in enough bytes is read back.
LEMMA BytesRead ==
    ASSUME NEW n \in Nat, NEW w \in Nat, n < Power(w)
    PROVE  BigEndian(BigEndianBytes(n, w)) = n
<1> DEFINE b == BigEndianBytes(n, w)
<1>1. /\ b \in Seq(Bytes) /\ Len(b) = w
      /\ \A k \in 1 .. w : b[k] = (n \div Power(w - k)) % ByteMod
  BY BytesOfNumber
<1> HIDE DEF b
<1>2. PICK v \in [0 .. w -> Nat] : Digits(v, 0, b, w) /\ BigEndian(b) = v[w]
  BY <1>1, BigEndianIs
<1> DEFINE T == {k \in Nat : k <= w => v[k] = n \div Power(w - k)}
<1>3. 0 \in T
  <2>1. Power(w) \in Nat \ {0} /\ w - 0 = w /\ v[0] = 0
    BY <1>2, PowerSteps DEF Digits
  <2> DEFINE p == Power(w)
  <2>2. p \in Nat \ {0} /\ n \in 0 .. p - 1
    BY <2>1
  <2> HIDE DEF p
  <2>3. 0 \in Nat /\ n = p * 0 + n
    BY <2>2
  <2>4. n \div p = 0
    BY <2>2
  <2>5. QED BY <2>1, <2>4 DEF p
<1>4. ASSUME NEW k \in Nat, k \in T, k + 1 <= w PROVE v[k + 1] = n \div Power(w - (k + 1))
  <2> DEFINE j == w - (k + 1)
             p == Power(j)
             m == n \div p
  <2>1. k + 1 \in 1 .. w /\ k \in 0 .. w /\ (k + 1) - 1 = k /\ j \in Nat /\ w - k = j + 1
    BY <1>4
  <2>2. p \in Nat \ {0} /\ Power(w - k) = p * ByteMod
    BY <2>1, PowerSteps
  <2>3. v[k + 1] = v[k] * ByteMod + b[k + 1]
    BY <1>2, <2>1 DEF Digits
  <2>4. b[k + 1] = m % ByteMod
    BY <1>1, <2>1
  <2>5. v[k] = n \div (p * ByteMod)
    BY <1>4, <2>1, <2>2
  <2> HIDE DEF p
  <2>6. v[k] = m \div ByteMod
    <3>1. p \in Nat \ {0} /\ ByteMod \in Nat \ {0}
      BY <2>2, Constants
    <3>2. n \div (p * ByteMod) = (n \div p) \div ByteMod
      BY <3>1, DividedTwice
    <3>3. QED BY <2>5, <3>2
  <2>7. m \in Nat
    BY <2>2, Division
  <2> HIDE DEF m
  <2>8. m = ByteMod * (m \div ByteMod) + (m % ByteMod) /\ m \div ByteMod \in Nat
    BY <2>7, Constants, Division
  <2>9. v[k] * ByteMod = ByteMod * (m \div ByteMod)
    BY <2>6, <2>8, Constants, Commutation
  <2>10. v[k + 1] = m
    BY <2>3, <2>4, <2>8, <2>9
  <2>11. QED BY <2>10 DEF m, p
<1>5. \A k \in Nat : k \in T => k + 1 \in T
  BY <1>4
<1>6. Nat \subseteq T
  <2> HIDE DEF T
  <2>1. QED BY <1>3, <1>5, SetInduction
<1>7. v[w] = n \div Power(0)
  BY <1>6
<1>8. v[w] = n
  BY <1>7, PowerSteps
<1>9. QED BY <1>2, <1>8 DEF b

\* What is read is written back.
LEMMA NumberWritten ==
    ASSUME NEW b \in Seq(Bytes)
    PROVE  BigEndianBytes(BigEndian(b), Len(b)) = b
<1> DEFINE w == Len(b)
           n == BigEndian(b)
<1>1. w \in Nat /\ \A k \in 1 .. w : b[k] \in 0 .. ByteMod - 1
  <2>1. w \in Nat /\ \A k \in 1 .. w : b[k] \in Bytes
    OBVIOUS
  <2>2. QED BY <2>1 DEF Bytes
<1>2. PICK v \in [0 .. w -> Nat] : Digits(v, 0, b, w) /\ n = v[w]
  BY BigEndianIs
<1>3. n \in Nat
  BY BigEndianBound
<1> HIDE DEF w, n
<1> DEFINE T == {j \in Nat : j <= w => n \div Power(j) = v[w - j]}
<1>4. 0 \in T
  <2>1. n \div 1 = n /\ w - 0 = w
    BY <1>1, <1>3
  <2>2. QED BY <1>2, <2>1, PowerSteps
<1>5. \A k \in 1 .. w : v[k] \div ByteMod = v[k - 1] /\ v[k] % ByteMod = b[k]
  <2>1. TAKE k \in 1 .. w
  <2> DEFINE x == v[k]
             y == v[k - 1]
             z == b[k]
  <2>2. k \in 0 .. w /\ k - 1 \in 0 .. w
    BY <1>1
  <2>3. x \in Nat /\ y \in Nat /\ z \in 0 .. ByteMod - 1 /\ ByteMod \in Nat \ {0}
    BY <1>1, <1>2, <2>2, Constants
  <2>4. x = y * ByteMod + z
    BY <1>2 DEF Digits
  <2> HIDE DEF x, y, z
  <2>5. x = ByteMod * y + z
    BY <2>3, <2>4, Commutation
  <2>6. x \div ByteMod = y /\ x % ByteMod = z
    BY <2>3, <2>5, QuotientIs
  <2>7. QED BY <2>6 DEF x, y, z
<1>6. ASSUME NEW j \in Nat, j \in T, j + 1 <= w PROVE n \div Power(j + 1) = v[w - (j + 1)]
  <2>1. w - j \in 1 .. w /\ (w - j) - 1 = w - (j + 1) /\ n \div Power(j) = v[w - j]
    BY <1>1, <1>6
  <2>2. Power(j) \in Nat \ {0} /\ Power(j + 1) = Power(j) * ByteMod
    BY PowerSteps
  <2>3. n \div (Power(j) * ByteMod) = (n \div Power(j)) \div ByteMod
    <3> DEFINE p == Power(j)
    <3>1. p \in Nat \ {0} /\ ByteMod \in Nat \ {0}
      BY <2>2, Constants
    <3> HIDE DEF p
    <3>2. n \div (p * ByteMod) = (n \div p) \div ByteMod
      BY <1>3, <3>1, DividedTwice
    <3>3. QED BY <3>2 DEF p
  <2>4. v[w - j] \div ByteMod = v[(w - j) - 1]
    BY <1>5, <2>1
  <2>5. QED BY <2>1, <2>2, <2>3, <2>4
<1>7. \A j \in Nat : j \in T => j + 1 \in T
  BY <1>6
<1>8. Nat \subseteq T
  <2> HIDE DEF T
  <2>1. QED BY <1>4, <1>7, SetInduction
<1> DEFINE c == BigEndianBytes(n, w)
<1>9. /\ c \in Seq(Bytes) /\ Len(c) = w
      /\ \A k \in 1 .. w : c[k] = (n \div Power(w - k)) % ByteMod
  BY <1>1, <1>3, BytesOfNumber
<1>10. ASSUME NEW k \in 1 .. w PROVE c[k] = b[k]
  <2>1. w - k \in Nat /\ w - k <= w /\ w - (w - k) = k
    BY <1>1
  <2>2. n \div Power(w - k) = v[k]
    BY <1>8, <2>1
  <2> HIDE DEF c
  <2>3. QED BY <1>5, <1>9, <2>2
<1> HIDE DEF c
<1>11. c = b
  BY <1>9, <1>10, SeqEqual DEF w
<1>12. QED BY <1>11 DEF c, n, w

\* The same from the last byte.
LEMMA Reversed ==
    ASSUME NEW S, NEW s \in Seq(S)
    PROVE  Reverse(s) \in Seq(S) /\ Len(Reverse(s)) = Len(s) /\ Reverse(Reverse(s)) = s
<1> DEFINE n == Len(s)
           r == Reverse(s)
<1>1. n \in Nat /\ r = [k \in 1 .. n |-> s[(n - k) + 1]]
  BY DEF Reverse
<1>2. \A k \in 1 .. n : (n - k) + 1 \in 1 .. n /\ (n - ((n - k) + 1)) + 1 = k
  BY <1>1
<1>3. r \in Seq(S) /\ Len(r) = n
  BY <1>1, <1>2
<1>4. \A k \in 1 .. n : r[k] = s[(n - k) + 1]
  BY <1>1
<1>5. Reverse(r) = [k \in 1 .. Len(r) |-> r[(Len(r) - k) + 1]]
  BY DEF Reverse
<1> HIDE DEF n, r
<1>6. Reverse(r) = [k \in 1 .. n |-> s[k]]
  BY <1>2, <1>3, <1>4, <1>5
<1>7. s = [k \in 1 .. n |-> s[k]]
  BY LenProperties DEF n
<1>8. QED BY <1>3, <1>6, <1>7 DEF n, r

LEMMA LittleEndianBound ==
    ASSUME NEW b \in Seq(Bytes)
    PROVE  LittleEndian(b) \in Nat /\ LittleEndian(b) < Power(Len(b))
<1>1. Reverse(b) \in Seq(Bytes) /\ Len(Reverse(b)) = Len(b)
  BY Reversed
<1>2. QED BY <1>1, BigEndianBound DEF LittleEndian

LEMMA LittleEndianRead ==
    ASSUME NEW n \in Nat, NEW w \in Nat
    PROVE  /\ LittleEndianBytes(n, w) \in Seq(Bytes) /\ Len(LittleEndianBytes(n, w)) = w
           /\ n < Power(w) => LittleEndian(LittleEndianBytes(n, w)) = n
<1>1. BigEndianBytes(n, w) \in Seq(Bytes) /\ Len(BigEndianBytes(n, w)) = w
  BY BytesOfNumber
<1> DEFINE b == BigEndianBytes(n, w)
<1>2. n < Power(w) => BigEndian(b) = n
  BY BytesRead
<1>3. LittleEndianBytes(n, w) = Reverse(b)
  BY DEF LittleEndianBytes
<1>4. Reverse(b) \in Seq(Bytes) /\ Len(Reverse(b)) = w /\ Reverse(Reverse(b)) = b
  BY <1>1, Reversed
<1> HIDE DEF b
<1>5. LittleEndian(Reverse(b)) = BigEndian(b)
  BY <1>4 DEF LittleEndian
<1>6. QED BY <1>2, <1>3, <1>4, <1>5

LEMMA LittleEndianWritten ==
    ASSUME NEW b \in Seq(Bytes)
    PROVE  LittleEndianBytes(LittleEndian(b), Len(b)) = b
<1>1. Reverse(b) \in Seq(Bytes) /\ Len(Reverse(b)) = Len(b) /\ Reverse(Reverse(b)) = b
  BY Reversed
<1>2. BigEndianBytes(BigEndian(Reverse(b)), Len(b)) = Reverse(b)
  BY <1>1, NumberWritten
<1>3. QED BY <1>1, <1>2 DEF LittleEndian, LittleEndianBytes

-----------------------------------------------------------------------------
(* Varints.                                                                *)

\* The bytes of a varint whose first one is x, and the number they stand for.
SizeFrom(x) == IF x < Prefix THEN 1 ELSE 1 + Widths[x - Prefix + 1]
NumberOf(b) == IF Len(b) = 1 THEN b[1] ELSE LittleEndian(Tail(b))

LEMMA WidthsGrow ==
    /\ \A f \in 1 .. 3 : Widths[f] \in Nat \ {0} /\ Power(Widths[f]) \in Nat \ {0}
    /\ \A f, g \in 1 .. 3 : f < g => Widths[f] < Widths[g]
    /\ \A f \in 1 .. 3 : Power(Widths[f]) <= Power(Widths[3])
    /\ ByteMod < Power(Widths[3])
<1>1. Widths \in [1 .. 3 -> Nat \ {0}] /\ Widths[1] < Widths[2] /\ Widths[2] < Widths[3]
  BY TxAssumption
<1>2. \A f \in 1 .. 3 : Widths[f] \in Nat \ {0}
  BY <1>1
<1>3. \A f \in 1 .. 3 : f = 1 \/ f = 2 \/ f = 3
  OBVIOUS
<1>4. Widths[1] \in Nat \ {0} /\ Widths[2] \in Nat \ {0} /\ Widths[3] \in Nat \ {0}
  BY <1>2
<1>5. \A f, g \in 1 .. 3 : f < g => Widths[f] < Widths[g]
  BY <1>1, <1>3, <1>4
<1>6. \A f \in 1 .. 3 : Power(Widths[f]) \in Nat \ {0}
  BY <1>2, PowerSteps
<1>7. Power(Widths[1]) < Power(Widths[3]) /\ Power(Widths[2]) < Power(Widths[3])
  BY <1>1, <1>4, PowerGrows
<1>8. \A f \in 1 .. 3 : Power(Widths[f]) <= Power(Widths[3])
  <2>1. Power(Widths[1]) \in Nat /\ Power(Widths[2]) \in Nat /\ Power(Widths[3]) \in Nat
    BY <1>6
  <2>2. /\ Power(Widths[1]) <= Power(Widths[3]) /\ Power(Widths[2]) <= Power(Widths[3])
        /\ Power(Widths[3]) <= Power(Widths[3])
    BY <1>7, <2>1
  <2>3. QED BY <1>3, <2>2
<1>9. ByteMod < Power(Widths[3])
  <2>1. 0 \in Nat /\ 0 + 1 = 1
    OBVIOUS
  <2>2. Power(0 + 1) = Power(0) * ByteMod /\ Power(0) = 1
    BY <2>1, PowerSteps
  <2>3. Power(1) = ByteMod
    BY <2>1, <2>2, Constants
  <2>4. 1 \in Nat /\ 1 < Widths[3]
    BY <1>1, <1>4
  <2>5. QED BY <1>4, <2>3, <2>4, PowerGrows
<1>10. QED BY <1>2, <1>5, <1>6, <1>8, <1>9

\* The longest form holds what another one does.
LEMMA WidthsFit ==
    ASSUME NEW f \in 1 .. 3, NEW n \in Nat, n < Power(Widths[f]) PROVE n < Power(Widths[3])
<1> DEFINE p == Power(Widths[f])
           q == Power(Widths[3])
<1>1. p \in Nat /\ q \in Nat /\ p <= q
  <2>1. 3 \in 1 .. 3
    OBVIOUS
  <2>2. QED BY <2>1, WidthsGrow
<1> HIDE DEF p, q
<1>2. n < p => n < q
  BY <1>1
<1>3. QED BY <1>2 DEF p, q

\* A length is written in the shortest form that holds it.
LEMMA LongVarintIs ==
    ASSUME NEW n \in Nat, n < Power(Widths[3])
    PROVE  \E f \in 1 .. 3 :
               /\ n < Power(Widths[f]) /\ \A g \in 1 .. f - 1 : n >= Power(Widths[g])
               /\ LongVarint(n) = <<Prefix + f - 1>> \o LittleEndianBytes(n, Widths[f])
<1> DEFINE Shortest(f) == n < Power(Widths[f]) /\ \A g \in 1 .. f - 1 : n >= Power(Widths[g])
           form == CHOOSE f \in 1 .. 3 : Shortest(f)
<1>1. \E f \in 1 .. 3 : Shortest(f)
  <2> DEFINE p(f) == Power(Widths[f])
  <2>1. p(1) \in Nat /\ p(2) \in Nat /\ p(3) \in Nat /\ n < p(3)
    BY WidthsGrow
  <2> HIDE DEF p
  <2>2. CASE n < p(1)
    <3>1. 1 .. 1 - 1 = {} /\ 1 \in 1 .. 3
      OBVIOUS
    <3>2. QED BY <2>2, <3>1 DEF p
  <2>3. CASE n >= p(1) /\ n < p(2)
    <3>1. 1 .. 2 - 1 = {1} /\ 2 \in 1 .. 3
      OBVIOUS
    <3>2. QED BY <2>3, <3>1 DEF p
  <2>4. CASE n >= p(1) /\ n >= p(2)
    <3>1. 1 .. 3 - 1 = {1, 2} /\ 3 \in 1 .. 3
      OBVIOUS
    <3>2. QED BY <2>1, <2>4, <3>1 DEF p
  <2>5. QED BY <2>1, <2>2, <2>3, <2>4
<1>2. form \in 1 .. 3 /\ Shortest(form)
  <2> HIDE DEF Shortest
  <2>1. QED BY <1>1
<1>3. LongVarint(n) = <<Prefix + form - 1>> \o LittleEndianBytes(n, Widths[form])
  BY DEF LongVarint
<1> HIDE DEF form
<1>4. QED BY <1>2, <1>3

\* One byte before others.
LEMMA FirstByte ==
    ASSUME NEW x \in Bytes, NEW u \in Seq(Bytes)
    PROVE  /\ <<x>> \o u \in Seq(Bytes) /\ Len(<<x>> \o u) = 1 + Len(u)
           /\ (<<x>> \o u)[1] = x /\ Tail(<<x>> \o u) = u
<1> DEFINE s == <<x>>
           b == s \o u
           t == Tail(b)
<1>1. s \in Seq(Bytes) /\ Len(s) = 1 /\ s[1] = x
  OBVIOUS
<1> HIDE DEF s
<1>2. /\ b \in Seq(Bytes) /\ Len(b) = Len(s) + Len(u)
      /\ \A i \in 1 .. Len(s) + Len(u) : b[i] = IF i <= Len(s) THEN s[i] ELSE u[i - Len(s)]
  BY <1>1, ConcatProperties
<1>3. Len(u) \in Nat /\ Len(b) = 1 + Len(u)
  BY <1>1, <1>2
<1>4. b[1] = x /\ \A i \in 1 .. Len(u) : b[i + 1] = u[i]
  <2>1. 1 \in 1 .. Len(s) + Len(u) /\ b[1] = s[1]
    BY <1>1, <1>2, <1>3
  <2>2. ASSUME NEW i \in 1 .. Len(u) PROVE b[i + 1] = u[i]
    <3>1. i + 1 \in 1 .. Len(s) + Len(u) /\ ~ (i + 1 <= Len(s)) /\ (i + 1) - Len(s) = i
      BY <1>1, <1>3
    <3> HIDE DEF b
    <3>2. QED BY <1>2, <3>1
  <2> HIDE DEF b
  <2>3. QED BY <1>1, <2>1, <2>2
<1> HIDE DEF b
<1>5. b # <<>>
  BY <1>2, <1>3
<1>6. t \in Seq(Bytes) /\ Len(t) = Len(b) - 1 /\ \A i \in 1 .. Len(t) : t[i] = b[i + 1]
  BY <1>2, <1>5, HeadTailProperties
<1> HIDE DEF t
<1>7. t = u
  BY <1>3, <1>4, <1>6, SeqEqual
<1>8. QED BY <1>2, <1>3, <1>4, <1>7 DEF b, s, t

\* The varint of a length, by the form it takes.
LEMMA VarintIs ==
    ASSUME NEW n \in Nat, n < Power(Widths[3])
    PROVE  \/ n < Prefix /\ VarintBytes(n) = <<n>>
           \/ /\ n >= Prefix
              /\ \E f \in 1 .. 3, x \in Bytes :
                   /\ n < Power(Widths[f]) /\ \A g \in 1 .. f - 1 : n >= Power(Widths[g])
                   /\ x = Prefix + f - 1
                   /\ VarintBytes(n) = <<x>> \o LittleEndianBytes(n, Widths[f])
<1>1. CASE n < Prefix
  BY <1>1 DEF VarintBytes
<1>2. CASE n >= Prefix
  <2>1. PICK f \in 1 .. 3 :
            /\ n < Power(Widths[f]) /\ \A g \in 1 .. f - 1 : n >= Power(Widths[g])
            /\ LongVarint(n) = <<Prefix + f - 1>> \o LittleEndianBytes(n, Widths[f])
    BY LongVarintIs
  <2> DEFINE x == Prefix + f - 1
  <2>2. x \in Bytes /\ ~ (n < Prefix)
    BY <1>2, Constants
  <2>3. VarintBytes(n) = <<x>> \o LittleEndianBytes(n, Widths[f])
    BY <2>1, <2>2 DEF VarintBytes
  <2> HIDE DEF x
  <2>4. x = Prefix + f - 1
    BY DEF x
  <2>5. QED BY <1>2, <2>1, <2>2, <2>3, <2>4
<1>3. n < Prefix \/ n >= Prefix
  BY Constants
<1>4. QED BY <1>1, <1>2, <1>3

\* What varint_write writes is read back by varint_read.
LEMMA VarintRead ==
    ASSUME NEW n \in Nat, n < Power(Widths[3])
    PROVE  /\ VarintBytes(n) \in Seq(Bytes) /\ Len(VarintBytes(n)) \in Nat \ {0}
           /\ Len(VarintBytes(n)) = SizeFrom(VarintBytes(n)[1])
           /\ NumberOf(VarintBytes(n)) = n
<1> DEFINE b == VarintBytes(n)
<1>1. CASE n < Prefix /\ b = <<n>>
  <2>1. n \in Bytes
    BY <1>1, Constants
  <2>2. b \in Seq(Bytes) /\ Len(b) = 1 /\ b[1] = n
    BY <1>1, <2>1
  <2> HIDE DEF b
  <2>3. SizeFrom(b[1]) = 1 /\ NumberOf(b) = n
    BY <1>1, <2>2 DEF SizeFrom, NumberOf
  <2>4. Len(b) \in Nat \ {0} /\ Len(b) = SizeFrom(b[1])
    BY <2>2, <2>3
  <2>5. QED BY <2>2, <2>3, <2>4 DEF b
<1>2. CASE \E f \in 1 .. 3, x \in Bytes :
             /\ n < Power(Widths[f]) /\ x = Prefix + f - 1
             /\ b = <<x>> \o LittleEndianBytes(n, Widths[f])
  <2>1. PICK f \in 1 .. 3, x \in Bytes :
             /\ n < Power(Widths[f]) /\ x = Prefix + f - 1
             /\ b = <<x>> \o LittleEndianBytes(n, Widths[f])
    BY <1>2
  <2> DEFINE u == LittleEndianBytes(n, Widths[f])
  <2>2. Widths[f] \in Nat \ {0}
    BY WidthsGrow
  <2>3. u \in Seq(Bytes) /\ Len(u) = Widths[f] /\ LittleEndian(u) = n
    BY <2>1, <2>2, LittleEndianRead
  <2>4. b = <<x>> \o u
    BY <2>1
  <2> HIDE DEF b, u
  <2>5. b \in Seq(Bytes) /\ Len(b) = 1 + Len(u) /\ b[1] = x /\ Tail(b) = u
    BY <2>3, <2>4, FirstByte
  <2>6. Len(b) \in Nat \ {0} /\ Len(b) # 1 /\ Len(b) = 1 + Widths[f]
    BY <2>2, <2>3, <2>5
  <2>7. NumberOf(b) = n
    BY <2>3, <2>5, <2>6 DEF NumberOf
  <2>8. ~ (x < Prefix) /\ x - Prefix + 1 = f
    BY <2>1, Constants
  <2>9. SizeFrom(b[1]) = 1 + Widths[f]
    BY <2>5, <2>8 DEF SizeFrom
  <2>10. QED BY <2>5, <2>6, <2>7, <2>9 DEF b
<1>3. QED BY <1>1, <1>2, VarintIs

\* What varint_read reads is written again in at most as many bytes, the same
\* ones when they are as many.
LEMMA VarintWritten ==
    ASSUME NEW b \in Seq(Bytes), Len(b) >= 1, Len(b) = SizeFrom(b[1])
    PROVE  /\ NumberOf(b) \in Nat /\ NumberOf(b) < Power(Widths[3])
           /\ Len(VarintBytes(NumberOf(b))) <= Len(b)
           /\ Len(VarintBytes(NumberOf(b))) = Len(b) => VarintBytes(NumberOf(b)) = b
<1> DEFINE x == b[1]
           n == NumberOf(b)
           v == VarintBytes(n)
<1>1. x \in Bytes /\ x \in 0 .. Prefix + 2
  BY Constants
<1>2. CASE x < Prefix
  <2>1. Len(b) = 1
    BY <1>2 DEF SizeFrom
  <2>2. n = x /\ n \in Nat /\ n < Prefix
    BY <1>1, <1>2, <2>1, Constants DEF NumberOf
  <2>3. b = <<x>>
    <3> DEFINE c == <<x>>
    <3>1. c \in Seq(Bytes) /\ Len(c) = 1 /\ c[1] = x
      BY <1>1
    <3>2. \A i \in 1 .. Len(b) : b[i] = c[i]
      <4>1. \A i \in 1 .. Len(b) : i = 1
        BY <2>1
      <4>2. b[1] = c[1]
        BY <3>1
      <4> HIDE DEF c, x
      <4>3. QED BY <4>1, <4>2
    <3> HIDE DEF c
    <3>3. b = c
      BY <2>1, <3>1, <3>2, SeqEqual
    <3>4. QED BY <3>3 DEF c
  <2>4. v = b
    BY <2>2, <2>3 DEF VarintBytes
  <2>5. n < Power(Widths[3])
    <3>1. Prefix < ByteMod /\ ByteMod < Power(Widths[3]) /\ Power(Widths[3]) \in Nat
      BY Constants, WidthsGrow
    <3>2. QED BY <2>2, <3>1, Constants
  <2> HIDE DEF n, v
  <2>6. Len(v) <= Len(b)
    BY <2>1, <2>4
  <2>7. QED BY <2>2, <2>4, <2>5, <2>6 DEF n, v
<1>3. CASE ~ (x < Prefix)
  <2> DEFINE f == x - Prefix + 1
             u == Tail(b)
  <2>1. f \in 1 .. 3 /\ x = Prefix + f - 1
    <3> HIDE DEF x
    <3>1. x >= Prefix /\ x \in Nat /\ x <= Prefix + 2
      BY <1>1, <1>3, Constants
    <3>2. QED BY <3>1, Constants
  <2>2. Len(b) = 1 + Widths[f] /\ Widths[f] \in Nat \ {0}
    BY <1>3, <2>1, WidthsGrow DEF SizeFrom
  <2>3. b # <<>>
    BY <2>2
  <2>4. u \in Seq(Bytes) /\ Len(u) = Len(b) - 1 /\ \A i \in 1 .. Len(u) : u[i] = b[i + 1]
    BY <2>3, HeadTailProperties
  <2> HIDE DEF f, u, x, n
  <2>5. Len(u) = Widths[f] /\ Len(b) # 1
    BY <2>2, <2>4
  <2>6. n = LittleEndian(u)
    BY <2>5 DEF n, u, NumberOf
  <2>7. n \in Nat /\ n < Power(Widths[f])
    BY <2>4, <2>5, <2>6, LittleEndianBound
  <2>8. n < Power(Widths[3])
    BY <2>1, <2>7, WidthsFit
  <2>9. b = <<x>> \o u
    <3> DEFINE c == <<x>> \o u
    <3>1. c \in Seq(Bytes) /\ Len(c) = 1 + Len(u) /\ c[1] = x /\ Tail(c) = u
      BY <1>1, <2>4, FirstByte
    <3> HIDE DEF c
    <3>2. c # <<>> /\ Len(c) = Len(b)
      BY <2>2, <2>5, <3>1
    <3>3. \A i \in 1 .. Len(u) : u[i] = c[i + 1]
      BY <3>1, <3>2, HeadTailProperties
    <3>4. ASSUME NEW i \in 1 .. Len(b) PROVE b[i] = c[i]
      <4>1. CASE i = 1
        BY <3>1, <4>1 DEF x
      <4>2. CASE i # 1
        <5>1. i - 1 \in 1 .. Len(u) /\ (i - 1) + 1 = i
          BY <2>4, <4>2
        <5>2. QED BY <2>4, <3>3, <5>1
      <4>3. QED BY <4>1, <4>2
    <3>5. b = c
      BY <3>1, <3>2, <3>4, SeqEqual
    <3>6. QED BY <3>5 DEF c
  <2>10. CASE n < Prefix /\ v = <<n>>
    <3>1. Len(v) = 1
      BY <2>10
    <3> HIDE DEF v
    <3>2. Len(v) <= Len(b) /\ Len(v) # Len(b)
      BY <2>2, <3>1
    <3>3. QED BY <2>7, <2>8, <3>2 DEF n, v
  <2>11. CASE \E g \in 1 .. 3, y \in Bytes :
                /\ \A e \in 1 .. g - 1 : n >= Power(Widths[e])
                /\ y = Prefix + g - 1
                /\ v = <<y>> \o LittleEndianBytes(n, Widths[g])
    <3>1. PICK g \in 1 .. 3, y \in Bytes :
                /\ \A e \in 1 .. g - 1 : n >= Power(Widths[e])
                /\ y = Prefix + g - 1
                /\ v = <<y>> \o LittleEndianBytes(n, Widths[g])
      BY <2>11
    <3> DEFINE t == LittleEndianBytes(n, Widths[g])
    <3>2. Widths[g] \in Nat \ {0}
      BY WidthsGrow
    <3>3. t \in Seq(Bytes) /\ Len(t) = Widths[g] /\ v = <<y>> \o t
      BY <2>7, <3>1, <3>2, LittleEndianRead
    <3> HIDE DEF t, v
    <3>4. Len(v) = 1 + Widths[g]
      BY <3>3, FirstByte
    <3>5. ~ (f < g)
      <4>1. ASSUME f < g PROVE FALSE
        <5>1. f \in 1 .. g - 1
          BY <2>1, <4>1
        <5>2. n >= Power(Widths[f])
          BY <3>1, <5>1
        <5>3. Power(Widths[f]) \in Nat
          BY <2>1, WidthsGrow
        <5>4. QED BY <2>7, <5>2, <5>3
      <4>2. QED BY <4>1
    <3>6. CASE g < f
      <4>1. Widths[g] < Widths[f]
        BY <2>1, <3>6, WidthsGrow
      <4>2. Len(v) < Len(b) /\ Len(v) # Len(b) /\ Len(v) <= Len(b)
        BY <2>2, <3>2, <3>4, <4>1
      <4>3. QED BY <2>7, <2>8, <4>2 DEF n, v
    <3>7. CASE g = f
      <4>1. t = u
        BY <2>4, <2>5, <2>6, <3>7, LittleEndianWritten DEF t
      <4>2. y = x
        BY <2>1, <3>1, <3>7
      <4>3. v = b
        BY <2>9, <3>3, <4>1, <4>2
      <4>4. Len(v) <= Len(b)
        BY <2>2, <4>3
      <4>5. QED BY <2>7, <2>8, <4>3, <4>4 DEF n, v
    <3>8. f < g \/ g < f \/ g = f
      BY <2>1
    <3>9. QED BY <3>5, <3>6, <3>7, <3>8
  <2>12. QED BY <2>7, <2>8, <2>10, <2>11, VarintIs
<1>4. QED BY <1>2, <1>3

-----------------------------------------------------------------------------
(* Where each field stands.                                                *)

\* The bytes u are in b after the first n.
Holds(b, n, u) == n + Len(u) <= Len(b) /\ \A k \in 1 .. Len(u) : b[n + k] = u[k]

LEMMA HoldsLast ==
    ASSUME NEW s \in Seq(Bytes), NEW u \in Seq(Bytes)
    PROVE  /\ s \o u \in Seq(Bytes) /\ Len(s \o u) = Len(s) + Len(u)
           /\ Holds(s \o u, Len(s), u)
<1> DEFINE b == s \o u
<1>1. /\ b \in Seq(Bytes) /\ Len(b) = Len(s) + Len(u) /\ Len(s) \in Nat /\ Len(u) \in Nat
      /\ \A i \in 1 .. Len(s) + Len(u) : b[i] = IF i <= Len(s) THEN s[i] ELSE u[i - Len(s)]
  BY ConcatProperties
<1> HIDE DEF b
<1>2. ASSUME NEW k \in 1 .. Len(u) PROVE b[Len(s) + k] = u[k]
  <2>1. /\ Len(s) + k \in 1 .. Len(s) + Len(u) /\ ~ (Len(s) + k <= Len(s))
        /\ (Len(s) + k) - Len(s) = k
    BY <1>1
  <2>2. QED BY <1>1, <2>1
<1>3. Holds(b, Len(s), u)
  BY <1>1, <1>2 DEF Holds
<1>4. QED BY <1>1, <1>3 DEF b

LEMMA HoldsStill ==
    ASSUME NEW s \in Seq(Bytes), NEW r \in Seq(Bytes), NEW u \in Seq(Bytes), NEW n \in Nat,
           Holds(s, n, u)
    PROVE  Holds(s \o r, n, u)
<1> DEFINE b == s \o r
<1>1. /\ Len(b) = Len(s) + Len(r) /\ Len(s) \in Nat /\ Len(r) \in Nat /\ Len(u) \in Nat
      /\ \A i \in 1 .. Len(s) + Len(r) : b[i] = IF i <= Len(s) THEN s[i] ELSE r[i - Len(s)]
  BY ConcatProperties
<1> HIDE DEF b
<1>2. n + Len(u) <= Len(s) /\ \A k \in 1 .. Len(u) : s[n + k] = u[k]
  BY DEF Holds
<1>3. ASSUME NEW k \in 1 .. Len(u) PROVE b[n + k] = u[k]
  <2>1. n + k \in 1 .. Len(s) + Len(r) /\ n + k <= Len(s)
    BY <1>1, <1>2
  <2>2. QED BY <1>1, <1>2, <2>1
<1>4. n + Len(u) <= Len(b)
  BY <1>1, <1>2
<1>5. Holds(b, n, u)
  BY <1>3, <1>4 DEF Holds
<1>6. QED BY <1>5 DEF b

\* A piece of a byte string.
LEMMA PieceIs ==
    ASSUME NEW b \in Seq(Bytes), NEW i \in Nat, NEW j \in Nat, i <= j, j <= Len(b)
    PROVE  /\ SubSeq(b, i + 1, j) \in Seq(Bytes) /\ Len(SubSeq(b, i + 1, j)) = j - i
           /\ \A k \in 1 .. j - i : SubSeq(b, i + 1, j)[k] = b[i + k]
<1> DEFINE m == i + 1
<1>1. m \in Int /\ j \in Int /\ \A k \in m .. j : b[k] \in Bytes
  OBVIOUS
<1>2. (IF m <= j THEN j - m + 1 ELSE 0) = j - i /\ j - m + 1 = j - i
  OBVIOUS
<1>3. \A k \in 1 .. j - i : m + k - 1 = i + k
  OBVIOUS
<1> HIDE DEF m
<1>4. /\ SubSeq(b, m, j) \in Seq(Bytes)
      /\ Len(SubSeq(b, m, j)) = IF m <= j THEN j - m + 1 ELSE 0
      /\ \A k \in 1 .. j - m + 1 : SubSeq(b, m, j)[k] = b[m + k - 1]
  BY <1>1, SubSeqProperties
<1>5. \A k \in 1 .. j - i : SubSeq(b, m, j)[k] = b[i + k]
  BY <1>2, <1>3, <1>4
<1>6. Len(SubSeq(b, m, j)) = j - i
  BY <1>2, <1>4
<1>7. QED BY <1>4, <1>5, <1>6 DEF m

LEMMA PieceHeld ==
    ASSUME NEW b \in Seq(Bytes), NEW u \in Seq(Bytes), NEW n \in Nat, Holds(b, n, u)
    PROVE  SubSeq(b, n + 1, n + Len(u)) = u
<1> DEFINE j == n + Len(u)
           p == SubSeq(b, n + 1, j)
<1>1. j \in Nat /\ n <= j /\ j <= Len(b) /\ j - n = Len(u)
  BY DEF Holds
<1> HIDE DEF j
<1>2. p \in Seq(Bytes) /\ Len(p) = j - n /\ \A k \in 1 .. j - n : p[k] = b[n + k]
  BY <1>1, PieceIs
<1> HIDE DEF p
<1>3. \A k \in 1 .. Len(p) : p[k] = u[k]
  BY <1>1, <1>2 DEF Holds
<1>4. p = u
  BY <1>1, <1>2, <1>3, SeqEqual
<1>5. QED BY <1>4 DEF p, j

\* Five byte strings one after the other, and where each of them is.
Joined(a, c, d, e, m) == a \o c \o d \o e \o m

Laid(b, a, c, d, e, m) ==
    /\ b \in Seq(Bytes)
    /\ Len(b) = Len(a) + Len(c) + Len(d) + Len(e) + Len(m)
    /\ Holds(b, 0, a) /\ Holds(b, Len(a), c) /\ Holds(b, Len(a) + Len(c), d)
    /\ Holds(b, Len(a) + Len(c) + Len(d), e)
    /\ Holds(b, Len(a) + Len(c) + Len(d) + Len(e), m)

LEMMA FiveParts ==
    ASSUME NEW a \in Seq(Bytes), NEW c \in Seq(Bytes), NEW d \in Seq(Bytes),
           NEW e \in Seq(Bytes), NEW m \in Seq(Bytes)
    PROVE  Laid(Joined(a, c, d, e, m), a, c, d, e, m)
<1> DEFINE s2 == a \o c
           s3 == s2 \o d
           s4 == s3 \o e
           s5 == s4 \o m
           n2 == Len(a) + Len(c)
           n3 == n2 + Len(d)
           n4 == n3 + Len(e)
<1>1. Len(a) \in Nat /\ n2 \in Nat /\ n3 \in Nat /\ n4 \in Nat /\ 0 \in Nat
  OBVIOUS
<1>2. Holds(a, 0, a)
  <2>1. 0 + Len(a) <= Len(a) /\ \A k \in 1 .. Len(a) : 0 + k = k
    OBVIOUS
  <2>2. QED BY <2>1 DEF Holds
<1>3. s2 \in Seq(Bytes) /\ Len(s2) = n2 /\ Holds(s2, Len(a), c)
  BY HoldsLast
<1>4. Holds(s2, 0, a)
  BY <1>1, <1>2, HoldsStill
<1> HIDE DEF s2, n2
<1>5. s3 \in Seq(Bytes) /\ Len(s3) = n3 /\ Holds(s3, n2, d)
  <2>1. s3 \in Seq(Bytes) /\ Len(s3) = Len(s2) + Len(d) /\ Holds(s3, Len(s2), d)
    BY <1>3, HoldsLast
  <2>2. QED BY <1>3, <2>1
<1>6. Holds(s3, 0, a) /\ Holds(s3, Len(a), c)
  <2>1. Holds(s3, 0, a)
    BY <1>1, <1>3, <1>4, HoldsStill
  <2>2. Holds(s3, Len(a), c)
    BY <1>1, <1>3, HoldsStill
  <2>3. QED BY <2>1, <2>2
<1> HIDE DEF s3, n3
<1>7. s4 \in Seq(Bytes) /\ Len(s4) = n4 /\ Holds(s4, n3, e)
  <2>1. s4 \in Seq(Bytes) /\ Len(s4) = Len(s3) + Len(e) /\ Holds(s4, Len(s3), e)
    BY <1>5, HoldsLast
  <2>2. QED BY <1>5, <2>1
<1>8. Holds(s4, 0, a) /\ Holds(s4, Len(a), c) /\ Holds(s4, n2, d)
  <2>1. Holds(s4, 0, a)
    BY <1>1, <1>5, <1>6, HoldsStill
  <2>2. Holds(s4, Len(a), c)
    BY <1>1, <1>5, <1>6, HoldsStill
  <2>3. Holds(s4, n2, d)
    BY <1>1, <1>5, HoldsStill
  <2>4. QED BY <2>1, <2>2, <2>3
<1> HIDE DEF s4, n4
<1>9. s5 \in Seq(Bytes) /\ Len(s5) = n4 + Len(m) /\ Holds(s5, n4, m)
  <2>1. s5 \in Seq(Bytes) /\ Len(s5) = Len(s4) + Len(m) /\ Holds(s5, Len(s4), m)
    BY <1>7, HoldsLast
  <2>2. QED BY <1>7, <2>1
<1>10. Holds(s5, 0, a) /\ Holds(s5, Len(a), c) /\ Holds(s5, n2, d) /\ Holds(s5, n3, e)
  <2>1. Holds(s5, 0, a)
    BY <1>1, <1>7, <1>8, HoldsStill
  <2>2. Holds(s5, Len(a), c)
    BY <1>1, <1>7, <1>8, HoldsStill
  <2>3. Holds(s5, n2, d)
    BY <1>1, <1>7, <1>8, HoldsStill
  <2>4. Holds(s5, n3, e)
    BY <1>1, <1>7, HoldsStill
  <2>5. QED BY <2>1, <2>2, <2>3, <2>4
<1>11. Joined(a, c, d, e, m) = s5
  BY DEF Joined, s2, s3, s4, s5
<1> HIDE DEF s5
<1>12. Laid(s5, a, c, d, e, m)
  BY <1>9, <1>10 DEF Laid, n2, n3, n4
<1>13. QED BY <1>11, <1>12

\* Where the length of the memo begins.
Header == WordLen + AddressLen + WordLen

LEMMA TransactionIs ==
    ASSUME NEW t \in Transactions
    PROVE  /\ t = [nonce |-> t.nonce, to |-> t.to, value |-> t.value, memo |-> t.memo]
           /\ t.nonce \in Nat /\ t.nonce < Power(WordLen)
           /\ t.value \in Nat /\ t.value < Power(WordLen)
           /\ t.to \in Seq(Bytes) /\ Len(t.to) = AddressLen
           /\ t.memo \in Seq(Bytes) /\ Len(t.memo) < Power(Widths[3])
<1> DEFINE limit == Power(WordLen)
           Memos == {m \in Seq(Bytes) : Len(m) < Power(Widths[3])}
           Addresses == [1 .. AddressLen -> Bytes]
           Words == 0 .. limit - 1
<1>1. t \in [nonce : Words, to : Addresses, value : Words, memo : Memos]
  BY TxAssumption
<1>2. limit \in Nat
  BY Constants, PowerSteps
<1> HIDE DEF limit
<1>3. \A n \in Words : n \in Nat /\ n < limit
  BY <1>2
<1>4. \A u \in Addresses : u \in Seq(Bytes) /\ Len(u) = AddressLen
  BY Constants
<1>5. \A m \in Memos : m \in Seq(Bytes) /\ Len(m) < Power(Widths[3])
  OBVIOUS
<1> HIDE DEF Words, Addresses, Memos
<1>6. t = [nonce |-> t.nonce, to |-> t.to, value |-> t.value, memo |-> t.memo]
  BY <1>1
<1>7. t.nonce \in Words /\ t.to \in Addresses /\ t.value \in Words /\ t.memo \in Memos
  BY <1>1
<1>8. QED BY <1>3, <1>4, <1>5, <1>6, <1>7 DEF limit

\* The fields of a serialized transaction.
LEMMA SerializedIs ==
    ASSUME NEW t \in Transactions, NEW b, b = Serialize(t)
    PROVE  LET v == VarintBytes(Len(t.memo))
           IN  /\ b \in Seq(Bytes)
               /\ v \in Seq(Bytes) /\ Len(v) \in Nat \ {0} /\ Len(v) = SizeFrom(v[1])
               /\ NumberOf(v) = Len(t.memo)
               /\ Len(b) = Header + Len(v) + Len(t.memo)
               /\ BigEndian(SubSeq(b, 1, WordLen)) = t.nonce
               /\ SubSeq(b, WordLen + 1, WordLen + AddressLen) = t.to
               /\ BigEndian(SubSeq(b, WordLen + AddressLen + 1, Header)) = t.value
               /\ Holds(b, Header, v)
               /\ SubSeq(b, Header + Len(v) + 1, Len(b)) = t.memo
<1> DEFINE a == BigEndianBytes(t.nonce, WordLen)
           d == BigEndianBytes(t.value, WordLen)
           v == VarintBytes(Len(t.memo))
           m == t.memo
           c == t.to
<1>1. /\ t.nonce \in Nat /\ t.nonce < Power(WordLen)
      /\ t.value \in Nat /\ t.value < Power(WordLen)
      /\ c \in Seq(Bytes) /\ Len(c) = AddressLen
      /\ m \in Seq(Bytes) /\ Len(m) < Power(Widths[3]) /\ Len(m) \in Nat
  BY TransactionIs
<1>2. WordLen \in Nat /\ AddressLen \in Nat
  BY Constants
<1>3. a \in Seq(Bytes) /\ Len(a) = WordLen /\ BigEndian(a) = t.nonce
  BY <1>1, <1>2, BytesOfNumber, BytesRead
<1>4. d \in Seq(Bytes) /\ Len(d) = WordLen /\ BigEndian(d) = t.value
  BY <1>1, <1>2, BytesOfNumber, BytesRead
<1>5. /\ v \in Seq(Bytes) /\ Len(v) \in Nat \ {0} /\ Len(v) = SizeFrom(v[1])
      /\ NumberOf(v) = Len(m)
  BY <1>1, VarintRead
<1>6. b = Joined(a, c, d, v, m)
  BY DEF Serialize, Joined
<1> HIDE DEF a, c, d, v, m
<1>7. /\ b \in Seq(Bytes)
      /\ Len(b) = Len(a) + Len(c) + Len(d) + Len(v) + Len(m)
      /\ Holds(b, 0, a) /\ Holds(b, Len(a), c) /\ Holds(b, Len(a) + Len(c), d)
      /\ Holds(b, Len(a) + Len(c) + Len(d), v)
      /\ Holds(b, Len(a) + Len(c) + Len(d) + Len(v), m)
  <2>1. /\ a \in Seq(Bytes) /\ c \in Seq(Bytes) /\ d \in Seq(Bytes)
        /\ v \in Seq(Bytes) /\ m \in Seq(Bytes)
    BY <1>1, <1>3, <1>4, <1>5
  <2>2. Laid(Joined(a, c, d, v, m), a, c, d, v, m)
    BY <2>1, FiveParts
  <2>3. QED BY <1>6, <2>2 DEF Laid
<1>8. Len(b) = Header + Len(v) + Len(m) /\ Header \in Nat
  BY <1>1, <1>2, <1>3, <1>4, <1>7 DEF Header
<1>9. /\ Holds(b, WordLen, c) /\ Holds(b, WordLen + AddressLen, d) /\ Holds(b, Header, v)
      /\ Holds(b, Header + Len(v), m)
  BY <1>1, <1>3, <1>4, <1>7 DEF Header
<1>10. BigEndian(SubSeq(b, 1, WordLen)) = t.nonce
  <2>1. 0 \in Nat /\ 0 + 1 = 1 /\ 0 + Len(a) = WordLen
    BY <1>2, <1>3
  <2>2. SubSeq(b, 0 + 1, 0 + Len(a)) = a
    BY <1>3, <1>7, <2>1, PieceHeld
  <2>3. QED BY <1>3, <2>1, <2>2
<1>11. SubSeq(b, WordLen + 1, WordLen + AddressLen) = c
  BY <1>1, <1>2, <1>7, <1>9, PieceHeld
<1>12. BigEndian(SubSeq(b, WordLen + AddressLen + 1, Header)) = t.value
  <2>1. WordLen + AddressLen \in Nat /\ WordLen + AddressLen + Len(d) = Header
    BY <1>2, <1>4 DEF Header
  <2> DEFINE n == WordLen + AddressLen
  <2>2. n \in Nat /\ Holds(b, n, d) /\ n + Len(d) = Header
    BY <1>9, <2>1
  <2> HIDE DEF n
  <2>3. SubSeq(b, n + 1, n + Len(d)) = d
    BY <1>4, <1>7, <2>2, PieceHeld
  <2>4. SubSeq(b, n + 1, Header) = d
    BY <2>2, <2>3
  <2>5. QED BY <1>4, <2>4 DEF n
<1>13. SubSeq(b, Header + Len(v) + 1, Len(b)) = m
  <2> DEFINE n == Header + Len(v)
  <2>1. n \in Nat /\ Holds(b, n, m) /\ n + Len(m) = Len(b)
    BY <1>5, <1>8, <1>9
  <2> HIDE DEF n
  <2>2. SubSeq(b, n + 1, n + Len(m)) = m
    BY <1>1, <1>7, <2>1, PieceHeld
  <2>3. SubSeq(b, n + 1, Len(b)) = m
    BY <2>1, <2>2
  <2>4. QED BY <2>3 DEF n
<1>14. QED BY <1>5, <1>7, <1>8, <1>9, <1>10, <1>11, <1>12, <1>13 DEF c, m, v

-----------------------------------------------------------------------------
(* The inductive invariant.                                                *)

\* The varint after n bytes of the buffer, and its size.
SizeAt(n) == SizeFrom(buf[n + 1])
NumberAt(n) == NumberOf(SubSeq(buf, n + 1, n + SizeAt(n)))

\* What field is when a field has been read.
EncodingIsRead == {"end", "ok"}
MemoIsRead     == {"encoding"} \cup EncodingIsRead
MemoLenIsRead  == {"memo"} \cup MemoIsRead
ValueIsRead    == {"memo_len"} \cup MemoLenIsRead
ToIsRead       == {"value"} \cup ValueIsRead
NonceIsRead    == {"to"} \cup ToIsRead

\* What each field then is.
NonceRight == WordLen <= Len(buf) /\ nonce = BigEndian(SubSeq(buf, 1, WordLen))
ToRight    == WordLen + AddressLen <= Len(buf) /\ to = WordLen
ValueRight ==
    Header <= Len(buf) /\ value = BigEndian(SubSeq(buf, WordLen + AddressLen + 1, Header))
MemoLenRight ==
    lengthRead =>
        /\ Header + 1 <= Len(buf) /\ Header + SizeAt(Header) <= Len(buf)
        /\ memo_len = NumberAt(Header)
MemoOffset == IF lengthRead THEN Header + SizeAt(Header) ELSE Header
MemoRight  == memo = MemoOffset /\ offset = memo + (memo_len % SizeMod)
EncodingRight == memo + memo_len <= Len(buf) => IsAscii(MemoBytes)

Progress ==
    /\ field \in {"size", "nonce"} => offset = 0
    /\ field \in NonceIsRead => NonceRight
    /\ field = "to" => offset = WordLen
    /\ field \in ToIsRead => ToRight
    /\ field = "value" => offset = WordLen + AddressLen
    /\ field \in ValueIsRead => ValueRight
    /\ field = "memo_len" => offset = Header
    /\ field \in MemoLenIsRead => MemoLenRight
    /\ field = "memo" => offset = MemoOffset
    /\ field \in MemoIsRead => MemoRight
    /\ field \in EncodingIsRead => EncodingRight
    /\ field = "ok" => offset = Len(buf)

\* A transaction of a client is only refused for its length or its memo.
FromClient ==
    sent # Nothing =>
        /\ sent \in Transactions /\ buf = Serialize(sent)
        /\ field \in Fields \cup {"ok", "lengthError", "encodingError"}
        /\ field \in {"nonce", "encodingError"} \cup NonceIsRead => Len(buf) <= MaxTxLen
        /\ field = "lengthError" => Len(buf) > MaxTxLen
        /\ field = "encodingError" => ~ IsAscii(sent.memo)
        /\ field \in MemoLenIsRead => lengthRead

TxInv == TypeOK /\ Progress /\ FromClient

\* Nothing is said of what was read when a field is not there.
LEMMA RefusedProgress ==
    ASSUME field' \in Statuses \ {"ok"} PROVE Progress'
<1>1. /\ field' \notin {"size", "nonce"} /\ field' # "to" /\ field' # "value"
      /\ field' # "memo_len" /\ field' # "memo" /\ field' # "ok"
      /\ field' # "encoding" /\ field' # "end"
  BY DEF Statuses
<1>2. /\ field' \notin EncodingIsRead /\ field' \notin MemoIsRead /\ field' \notin MemoLenIsRead
      /\ field' \notin ValueIsRead /\ field' \notin ToIsRead /\ field' \notin NonceIsRead
  BY <1>1 DEF EncodingIsRead, MemoIsRead, MemoLenIsRead, ValueIsRead, ToIsRead, NonceIsRead
<1>3. QED BY <1>1, <1>2 DEF Progress

\* The readers.
LEMMA ReadersAre ==
    ASSUME TypeOK
    PROVE  /\ \A n \in Nat : CanRead(n) <=> offset + n <= Len(buf)
           /\ \A n \in Nat : CanRead(n) =>
                /\ Ahead(n) = SubSeq(buf, offset + 1, offset + n)
                /\ Ahead(n) \in Seq(Bytes) /\ Len(Ahead(n)) = n
           /\ Word \in Nat
           /\ CanRead(WordLen) => Word = BigEndian(SubSeq(buf, offset + 1, offset + WordLen))
<1>1. buf \in Seq(Bytes) /\ Len(buf) \in Nat /\ offset \in Nat /\ offset <= Len(buf)
  BY DEF TypeOK
<1>2. \A n \in Nat : CanRead(n) <=> offset + n <= Len(buf)
  BY <1>1 DEF CanRead
<1>3. ASSUME NEW n \in Nat, CanRead(n)
      PROVE  /\ Ahead(n) = SubSeq(buf, offset + 1, offset + n)
             /\ Ahead(n) \in Seq(Bytes) /\ Len(Ahead(n)) = n
  <2> DEFINE j == offset + n
  <2>1. j \in Nat /\ offset <= j /\ j <= Len(buf) /\ j - offset = n
    BY <1>1, <1>2, <1>3
  <2>2. Ahead(n) = SubSeq(buf, offset + 1, j)
    BY DEF Ahead
  <2> HIDE DEF j
  <2>3. SubSeq(buf, offset + 1, j) \in Seq(Bytes) /\ Len(SubSeq(buf, offset + 1, j)) = j - offset
    BY <1>1, <2>1, PieceIs
  <2>4. QED BY <2>1, <2>2, <2>3 DEF j
<1>4. CanRead(WordLen) => Word = BigEndian(SubSeq(buf, offset + 1, offset + WordLen))
  BY DEF Word, Ahead
<1>5. Word \in Nat
  <2>1. CASE CanRead(WordLen)
    <3>1. Ahead(WordLen) \in Seq(Bytes) /\ Word = BigEndian(Ahead(WordLen))
      BY <1>3, <2>1, Constants DEF Word
    <3>2. QED BY <3>1, BigEndianBound
  <2>2. CASE ~ CanRead(WordLen)
    BY <2>2 DEF Word
  <2>3. QED BY <2>1, <2>2
<1>6. QED BY <1>2, <1>3, <1>4, <1>5

\* The bytes of a varint give its size.
LEMMA SizeOfVarint ==
    ASSUME NEW x \in Bytes
    PROVE  SizeFrom(x) \in Nat \ {0} /\ (SizeFrom(x) = 1 <=> x < Prefix)
<1>1. x \in Nat /\ x <= Prefix + 2
  BY Constants
<1>2. CASE x < Prefix
  BY <1>2 DEF SizeFrom
<1>3. CASE ~ (x < Prefix)
  <2>1. x - Prefix + 1 \in 1 .. 3
    BY <1>1, <1>3, Constants
  <2>2. Widths[x - Prefix + 1] \in Nat \ {0}
    BY <2>1, WidthsGrow
  <2>3. SizeFrom(x) = 1 + Widths[x - Prefix + 1]
    BY <1>3 DEF SizeFrom
  <2>4. QED BY <1>3, <2>2, <2>3
<1>4. QED BY <1>2, <1>3

\* The varint after n bytes, whether it is read or not.
LEMMA NumberAtIs ==
    ASSUME buf \in Seq(Bytes), NEW n \in Nat, n + 1 <= Len(buf), n + SizeAt(n) <= Len(buf)
    PROVE  LET b == SubSeq(buf, n + 1, n + SizeAt(n))
           IN  /\ b \in Seq(Bytes) /\ Len(b) = SizeAt(n) /\ Len(b) >= 1
               /\ Len(b) = SizeFrom(b[1]) /\ NumberAt(n) = NumberOf(b)
               /\ NumberAt(n) \in Nat /\ SizeAt(n) \in Nat \ {0}
<1> DEFINE b == SubSeq(buf, n + 1, n + SizeAt(n))
           j == n + SizeAt(n)
<1>1. n + 1 \in 1 .. Len(buf) /\ buf[n + 1] \in Bytes
  OBVIOUS
<1>2. SizeAt(n) \in Nat \ {0}
  BY <1>1, SizeOfVarint DEF SizeAt
<1>3. j \in Nat /\ n <= j /\ j <= Len(buf) /\ j - n = SizeAt(n) /\ 1 \in 1 .. j - n
  BY <1>2
<1>4. b = SubSeq(buf, n + 1, j) /\ NumberAt(n) = NumberOf(b)
  BY DEF NumberAt
<1> HIDE DEF b, j
<1>5. b \in Seq(Bytes) /\ Len(b) = j - n /\ b[1] = buf[n + 1]
  BY <1>3, <1>4, PieceIs
<1>6. Len(b) = SizeAt(n) /\ Len(b) >= 1 /\ Len(b) = SizeFrom(b[1])
  BY <1>2, <1>3, <1>5 DEF SizeAt
<1>7. NumberOf(b) \in Nat
  BY <1>5, <1>6, VarintWritten
<1>8. QED BY <1>2, <1>4, <1>5, <1>6, <1>7 DEF b

\* buffer_read_varint.
LEMMA VarintAhead ==
    ASSUME TypeOK
    PROVE  /\ CanReadVarint <=>
                  offset + 1 <= Len(buf) /\ offset + SizeAt(offset) <= Len(buf)
           /\ CanReadVarint =>
                  /\ VarintSize = SizeAt(offset) /\ SizeAt(offset) \in Nat \ {0}
                  /\ Varint = NumberAt(offset) /\ Varint \in Nat
<1>1. buf \in Seq(Bytes) /\ Len(buf) \in Nat /\ offset \in Nat /\ offset <= Len(buf)
  BY DEF TypeOK
<1>2. CASE ~ (offset + 1 <= Len(buf))
  BY <1>2, ReadersAre DEF CanReadVarint
<1>3. CASE offset + 1 <= Len(buf)
  <2> DEFINE x == buf[offset + 1]
  <2>1. CanRead(1)
    BY <1>3, ReadersAre
  <2>2. x \in Bytes
    BY <1>1, <1>3
  <2>3. Ahead(1)[1] = x
    <3> DEFINE j == offset + 1
               i == offset
    <3>1. i \in Nat /\ j \in Nat /\ i <= j /\ j <= Len(buf) /\ 1 \in 1 .. j - i /\ i + 1 = j
      BY <1>1, <1>3
    <3>2. Ahead(1) = SubSeq(buf, i + 1, j) /\ x = buf[i + 1]
      BY DEF Ahead
    <3> HIDE DEF i, j, x
    <3>3. SubSeq(buf, i + 1, j)[1] = buf[i + 1]
      BY <1>1, <3>1, PieceIs
    <3>4. QED BY <3>2, <3>3
  <2>4. VarintSize = SizeAt(offset)
    BY <2>3 DEF VarintSize, SizeAt, SizeFrom
  <2>5. SizeAt(offset) \in Nat \ {0}
    BY <2>2, SizeOfVarint DEF SizeAt
  <2>6. CanReadVarint <=> offset + SizeAt(offset) <= Len(buf)
    BY <2>1, <2>4, <2>5, ReadersAre DEF CanReadVarint
  <2>7. ASSUME CanReadVarint PROVE Varint = NumberAt(offset) /\ Varint \in Nat
    <3> DEFINE b == SubSeq(buf, offset + 1, offset + SizeAt(offset))
    <3>1. offset + SizeAt(offset) <= Len(buf)
      BY <2>6, <2>7
    <3>2. /\ Len(b) = SizeAt(offset) /\ NumberAt(offset) = NumberOf(b)
          /\ NumberAt(offset) \in Nat /\ b[1] = x
      <4>1. /\ Len(b) = SizeAt(offset) /\ NumberAt(offset) = NumberOf(b)
            /\ NumberAt(offset) \in Nat
        BY <1>1, <1>3, <3>1, NumberAtIs
      <4>2. b[1] = x
        <5> DEFINE j == offset + SizeAt(offset)
                   i == offset
        <5>1. i \in Nat /\ j \in Nat /\ i <= j /\ j <= Len(buf) /\ 1 \in 1 .. j - i
          BY <1>1, <2>5, <3>1
        <5>2. b = SubSeq(buf, i + 1, j) /\ x = buf[i + 1]
          OBVIOUS
        <5> HIDE DEF i, j, x, b
        <5>3. SubSeq(buf, i + 1, j)[1] = buf[i + 1]
          BY <1>1, <5>1, PieceIs
        <5>4. QED BY <5>2, <5>3
      <4>3. QED BY <4>1, <4>2
    <3>3. b = Ahead(VarintSize)
      BY <2>4 DEF Ahead
    <3> HIDE DEF b
    <3>4. Varint = NumberOf(b)
      BY <2>3, <2>4, <3>2, <3>3 DEF Varint, NumberOf
    <3>5. QED BY <3>2, <3>4
  <2>8. QED BY <1>3, <2>4, <2>5, <2>6, <2>7
<1>4. QED BY <1>2, <1>3

-----------------------------------------------------------------------------
(* The steps.                                                              *)

LEMMA SizesAre ==
    /\ WordLen \in Nat /\ AddressLen \in Nat /\ Header \in Nat
    /\ Header = WordLen + AddressLen + WordLen
  BY Constants DEF Header

LEMMA CheckSizeStep == ASSUME TypeOK, Progress, CheckSize PROVE TypeOK' /\ Progress'
<1>1. /\ offset = 0 /\ offset' = offset /\ UNCHANGED <<buf, sent, tx, lengthRead>>
      /\ field' \in {"nonce", "lengthError"}
  BY SizesAre DEF CheckSize, Test, Go, Progress, TypeOK
<1>2. TypeOK'
  BY <1>1 DEF TypeOK, tx, Fields, Statuses
<1>3. CASE field' = "nonce"
  BY <1>1, <1>2, <1>3 DEF Progress, EncodingIsRead, MemoIsRead, MemoLenIsRead, ValueIsRead,
                          ToIsRead, NonceIsRead
<1>4. CASE field' = "lengthError"
  BY <1>2, <1>4, RefusedProgress DEF Statuses
<1>5. QED BY <1>1, <1>3, <1>4

LEMMA ReadNonceStep == ASSUME TypeOK, Progress, ReadNonce PROVE TypeOK' /\ Progress'
<1>1. offset = 0 /\ UNCHANGED <<buf, sent, to, value, memo_len, memo, lengthRead>> /\ nonce' = Word
  BY DEF ReadNonce, Read, Go, Progress
<1>2. nonce' \in Nat
  BY <1>1, ReadersAre
<1>3. CASE CanRead(WordLen)
  <2>1. offset' = WordLen /\ field' = "to" /\ WordLen <= Len(buf)
    BY <1>1, <1>3, SizesAre, ReadersAre DEF ReadNonce, Read, Go
  <2>2. nonce' = BigEndian(SubSeq(buf, 1, WordLen))
    BY <1>1, <1>3, SizesAre, ReadersAre
  <2>3. TypeOK'
    BY <1>1, <1>2, <2>1, SizesAre DEF TypeOK, Fields
  <2>4. NonceRight'
    BY <1>1, <2>1, <2>2 DEF NonceRight
  <2>5. Progress'
    BY <2>1, <2>4 DEF Progress, EncodingIsRead, MemoIsRead, MemoLenIsRead, ValueIsRead, ToIsRead,
                      NonceIsRead
  <2>6. QED BY <2>3, <2>5
<1>4. CASE ~ CanRead(WordLen)
  <2>1. offset' = offset /\ field' = "nonceError"
    BY <1>1, <1>4 DEF ReadNonce, Read, Go, TypeOK
  <2>2. TypeOK'
    BY <1>1, <1>2, <2>1 DEF TypeOK, Statuses
  <2>3. Progress'
    BY <2>1, RefusedProgress DEF Statuses
  <2>4. QED BY <2>2, <2>3
<1>5. QED BY <1>3, <1>4

LEMMA SkipToStep == ASSUME TypeOK, Progress, SkipTo PROVE TypeOK' /\ Progress'
<1>1. /\ offset = WordLen /\ NonceRight /\ to' = offset
      /\ UNCHANGED <<buf, sent, nonce, value, memo_len, memo, lengthRead>>
  BY DEF SkipTo, Read, Go, Progress, NonceIsRead
<1>2. CASE CanRead(AddressLen)
  <2>1. offset' = WordLen + AddressLen /\ field' = "value" /\ WordLen + AddressLen <= Len(buf)
    BY <1>1, <1>2, SizesAre, ReadersAre DEF SkipTo, Read, Go
  <2>2. TypeOK'
    BY <1>1, <2>1, SizesAre DEF TypeOK, Fields
  <2>3. NonceRight' /\ ToRight'
    BY <1>1, <2>1 DEF NonceRight, ToRight
  <2>4. Progress'
    BY <2>1, <2>3 DEF Progress, EncodingIsRead, MemoIsRead, MemoLenIsRead, ValueIsRead, ToIsRead,
                      NonceIsRead
  <2>5. QED BY <2>2, <2>4
<1>3. CASE ~ CanRead(AddressLen)
  <2>1. offset' = offset /\ field' = "toError"
    BY <1>1, <1>3, SizesAre DEF SkipTo, Read, Go
  <2>2. TypeOK'
    BY <1>1, <2>1 DEF TypeOK, Statuses
  <2>3. Progress'
    BY <2>1, RefusedProgress DEF Statuses
  <2>4. QED BY <2>2, <2>3
<1>4. QED BY <1>2, <1>3

LEMMA ReadValueStep == ASSUME TypeOK, Progress, ReadValue PROVE TypeOK' /\ Progress'
<1>1. /\ offset = WordLen + AddressLen /\ NonceRight /\ ToRight /\ value' = Word
      /\ UNCHANGED <<buf, sent, nonce, to, memo_len, memo, lengthRead>>
  BY DEF ReadValue, Read, Go, Progress, NonceIsRead, ToIsRead
<1>2. value' \in Nat
  BY <1>1, ReadersAre
<1>3. CASE CanRead(WordLen)
  <2>1. offset' = Header /\ field' = "memo_len" /\ Header <= Len(buf)
    BY <1>1, <1>3, SizesAre, ReadersAre DEF ReadValue, Read, Go
  <2>2. value' = BigEndian(SubSeq(buf, WordLen + AddressLen + 1, Header))
    <3>1. Word = BigEndian(SubSeq(buf, offset + 1, offset + WordLen))
      BY <1>3, ReadersAre
    <3>2. QED BY <1>1, <3>1, SizesAre
  <2>3. TypeOK'
    BY <1>1, <1>2, <2>1, SizesAre DEF TypeOK, Fields
  <2>4. NonceRight' /\ ToRight' /\ ValueRight'
    BY <1>1, <2>1, <2>2 DEF NonceRight, ToRight, ValueRight, Header
  <2>5. Progress'
    BY <2>1, <2>4 DEF Progress, EncodingIsRead, MemoIsRead, MemoLenIsRead, ValueIsRead, ToIsRead,
                      NonceIsRead, Header
  <2>6. QED BY <2>3, <2>5
<1>4. CASE ~ CanRead(WordLen)
  <2>1. offset' = offset /\ field' = "valueError"
    BY <1>1, <1>4, SizesAre DEF ReadValue, Read, Go
  <2>2. TypeOK'
    BY <1>1, <1>2, <2>1 DEF TypeOK, Statuses
  <2>3. Progress'
    BY <2>1, RefusedProgress DEF Statuses
  <2>4. QED BY <2>2, <2>3
<1>5. QED BY <1>3, <1>4

\* A failure to read the length is a length of zero: it is never an error.
LEMMA LengthNeverRefused == ASSUME ReadMemoLen PROVE field' = "memo"
<1>1. CASE CanReadVarint
  BY <1>1 DEF ReadMemoLen, Go
<1>2. CASE ~ CanReadVarint
  <2>1. memo_len' = 0 /\ ~ (0 > MaxMemoLen)
    BY <1>2, Constants DEF ReadMemoLen
  <2>2. ~ (memo_len' > MaxMemoLen)
    BY <2>1
  <2>3. QED BY <2>2 DEF ReadMemoLen, Go
<1>3. QED BY <1>1, <1>2

LEMMA ReadMemoLenStep == ASSUME TypeOK, Progress, ReadMemoLen PROVE TypeOK' /\ Progress'
<1>1. /\ offset = Header /\ NonceRight /\ ToRight /\ ValueRight
      /\ lengthRead' = CanReadVarint /\ UNCHANGED <<buf, sent, nonce, to, value, memo>>
  BY DEF ReadMemoLen, Go, Progress, NonceIsRead, ToIsRead, ValueIsRead
<1>2. NonceRight' /\ ToRight' /\ ValueRight'
  BY <1>1 DEF NonceRight, ToRight, ValueRight, Header
<1>3. \A n \in Nat : SizeAt(n)' = SizeAt(n) /\ NumberAt(n)' = NumberAt(n)
  BY <1>1 DEF SizeAt, NumberAt
<1>4. /\ field' = "memo" /\ lengthRead' \in BOOLEAN /\ memo_len' \in Nat
      /\ offset' = (IF lengthRead' THEN Header + SizeAt(Header) ELSE Header)
      /\ offset' \in 0 .. Len(buf)
      /\ lengthRead' => /\ Header + 1 <= Len(buf) /\ Header + SizeAt(Header) <= Len(buf)
                        /\ memo_len' = NumberAt(Header)
  <2>1. CASE CanReadVarint
    <3>1. /\ VarintSize = SizeAt(Header) /\ SizeAt(Header) \in Nat \ {0}
          /\ Varint = NumberAt(Header) /\ Varint \in Nat
          /\ Header + 1 <= Len(buf) /\ Header + SizeAt(Header) <= Len(buf)
      BY <1>1, <2>1, VarintAhead
    <3>2. lengthRead' = TRUE /\ memo_len' = Varint /\ offset' = Header + VarintSize
      BY <1>1, <2>1 DEF ReadMemoLen, Go
    <3>3. field' = "memo"
      BY LengthNeverRefused
    <3>4. Len(buf) \in Nat
      BY DEF TypeOK
    <3>5. QED BY <3>1, <3>2, <3>3, <3>4, SizesAre
  <2>2. CASE ~ CanReadVarint
    <3>1. lengthRead' = FALSE /\ memo_len' = 0 /\ offset' = Header
      BY <1>1, <2>2, SizesAre DEF ReadMemoLen, Go
    <3>2. field' = "memo"
      BY LengthNeverRefused
    <3>3. offset' \in 0 .. Len(buf)
      BY <1>1, <3>1 DEF TypeOK
    <3>4. QED BY <3>1, <3>2, <3>3
  <2>3. QED BY <2>1, <2>2
<1>5. MemoLenRight' /\ offset' = MemoOffset'
  <2>1. MemoLenRight'
    BY <1>1, <1>3, <1>4, SizesAre DEF MemoLenRight, Header
  <2>2. MemoOffset' = (IF lengthRead' THEN Header + SizeAt(Header) ELSE Header)
    BY <1>3, SizesAre DEF MemoOffset, Header
  <2>3. QED BY <1>4, <2>1, <2>2
<1>6. TypeOK'
  BY <1>1, <1>4 DEF TypeOK, Fields
<1>7. Progress'
  BY <1>2, <1>4, <1>5 DEF Progress, EncodingIsRead, MemoIsRead, MemoLenIsRead, ValueIsRead,
                          ToIsRead, NonceIsRead
<1>8. QED BY <1>6, <1>7

\* What the later steps leave as it is.
LEMMA SameFields ==
    ASSUME NonceRight, ToRight, ValueRight, MemoLenRight,
           UNCHANGED <<buf, nonce, to, value, memo_len, lengthRead>>
    PROVE  NonceRight' /\ ToRight' /\ ValueRight' /\ MemoLenRight' /\ MemoOffset' = MemoOffset
<1>1. NonceRight' /\ ToRight' /\ ValueRight'
  BY DEF NonceRight, ToRight, ValueRight, Header
<1>2. SizeAt(Header)' = SizeAt(Header)
  BY DEF SizeAt, Header
<1>3. NumberAt(Header)' = NumberAt(Header)
  BY <1>2 DEF NumberAt, Header
<1>4. MemoLenRight'
  BY <1>2, <1>3 DEF MemoLenRight, Header
<1>5. MemoOffset' = MemoOffset
  BY <1>2 DEF MemoOffset, Header
<1>6. QED BY <1>1, <1>4, <1>5

LEMMA SkipMemoStep == ASSUME TypeOK, Progress, SkipMemo PROVE TypeOK' /\ Progress'
<1> DEFINE n == memo_len % SizeMod
<1>1. /\ offset = MemoOffset /\ NonceRight /\ ToRight /\ ValueRight /\ MemoLenRight
      /\ memo' = offset /\ UNCHANGED <<buf, sent, nonce, to, value, memo_len, lengthRead>>
  BY DEF SkipMemo, Read, Go, Progress, NonceIsRead, ToIsRead, ValueIsRead, MemoLenIsRead
<1>2. /\ NonceRight' /\ ToRight' /\ ValueRight' /\ MemoLenRight'
      /\ MemoOffset' = MemoOffset
  BY <1>1, SameFields
<1>3. n \in Nat /\ offset \in Nat /\ Len(buf) \in Nat
  <2>1. memo_len \in Nat /\ offset \in Nat /\ Len(buf) \in Nat
    BY DEF TypeOK
  <2>2. memo_len % SizeMod \in Nat
    BY <2>1, Constants, Division
  <2>3. QED BY <2>1, <2>2
<1>4. CASE CanRead(n)
  <2>1. offset' = offset + n /\ field' = "encoding"
    BY <1>4 DEF SkipMemo, Read, Go
  <2>2. offset + n <= Len(buf)
    <3> HIDE DEF n
    <3>1. QED BY <1>3, <1>4, ReadersAre
  <2>3. offset' \in 0 .. Len(buf)
    <3> HIDE DEF n
    <3>1. QED BY <1>3, <2>1, <2>2
  <2>4. TypeOK'
    BY <1>1, <2>1, <2>3 DEF TypeOK, Fields
  <2>5. MemoRight'
    BY <1>1, <1>2, <2>1 DEF MemoRight
  <2>6. Progress'
    BY <1>2, <2>1, <2>5 DEF Progress, EncodingIsRead, MemoIsRead, MemoLenIsRead, ValueIsRead,
                            ToIsRead, NonceIsRead
  <2>7. QED BY <2>4, <2>6
<1>5. CASE ~ CanRead(n)
  <2>1. offset' = offset /\ field' = "memoError"
    BY <1>3, <1>5 DEF SkipMemo, Read, Go
  <2>2. TypeOK'
    BY <1>1, <2>1 DEF TypeOK, Statuses
  <2>3. Progress'
    BY <2>1, RefusedProgress DEF Statuses
  <2>4. QED BY <2>2, <2>3
<1>6. QED BY <1>4, <1>5

LEMMA CheckEncodingStep == ASSUME TypeOK, Progress, CheckEncoding PROVE TypeOK' /\ Progress'
<1>1. /\ NonceRight /\ ToRight /\ ValueRight /\ MemoLenRight /\ MemoRight
      /\ offset' = offset /\ UNCHANGED <<buf, sent, tx, lengthRead>>
  BY DEF CheckEncoding, Test, Go, Progress, NonceIsRead, ToIsRead, ValueIsRead, MemoLenIsRead,
         MemoIsRead, TypeOK
<1>2. UNCHANGED <<nonce, to, value, memo_len, memo>>
  BY <1>1 DEF tx
<1>3. /\ NonceRight' /\ ToRight' /\ ValueRight' /\ MemoLenRight'
      /\ MemoOffset' = MemoOffset
  BY <1>1, <1>2, SameFields
<1>4. MemoRight'
  BY <1>1, <1>2, <1>3 DEF MemoRight
<1>5. PICK right \in EncodingIsRight : field' = IF right THEN "end" ELSE "encodingError"
  BY DEF CheckEncoding, Test, Go
<1>6. field' \in {"end", "encodingError"}
  BY <1>5
<1>7. TypeOK'
  BY <1>1, <1>2, <1>6 DEF TypeOK, Fields, Statuses
<1>8. CASE field' = "end"
  <2>1. EncodingRight
    BY <1>5, <1>8 DEF EncodingIsRight, EncodingRight
  <2>2. EncodingRight'
    BY <1>1, <1>2, <2>1 DEF EncodingRight, IsAscii, MemoBytes
  <2>3. QED BY <1>3, <1>4, <1>7, <1>8, <2>2 DEF Progress, EncodingIsRead, MemoIsRead,
                            MemoLenIsRead, ValueIsRead, ToIsRead, NonceIsRead
<1>9. CASE field' = "encodingError"
  BY <1>7, <1>9, RefusedProgress DEF Statuses
<1>10. QED BY <1>6, <1>8, <1>9

LEMMA EndStep == ASSUME TypeOK, Progress, End PROVE TypeOK' /\ Progress'
<1>1. /\ NonceRight /\ ToRight /\ ValueRight /\ MemoLenRight /\ MemoRight /\ EncodingRight
      /\ offset' = offset /\ UNCHANGED <<buf, sent, tx, lengthRead>>
      /\ field' = IF offset = Len(buf) THEN "ok" ELSE "lengthError"
  BY DEF End, Test, Go, Progress, NonceIsRead, ToIsRead, ValueIsRead, MemoLenIsRead,
         MemoIsRead, EncodingIsRead, TypeOK
<1>2. UNCHANGED <<nonce, to, value, memo_len, memo>>
  BY <1>1 DEF tx
<1>3. /\ NonceRight' /\ ToRight' /\ ValueRight' /\ MemoLenRight'
      /\ MemoOffset' = MemoOffset
  BY <1>1, <1>2, SameFields
<1>4. MemoRight' /\ EncodingRight'
  BY <1>1, <1>2, <1>3 DEF MemoRight, EncodingRight, IsAscii, MemoBytes
<1>5. TypeOK'
  BY <1>1, <1>2 DEF TypeOK, Fields, Statuses
<1>6. CASE offset = Len(buf)
  <2>1. field' = "ok" /\ offset' = Len(buf')
    BY <1>1, <1>6
  <2>2. QED BY <1>3, <1>4, <1>5, <2>1 DEF Progress, EncodingIsRead, MemoIsRead, MemoLenIsRead,
                            ValueIsRead, ToIsRead, NonceIsRead
<1>7. CASE offset # Len(buf)
  BY <1>1, <1>5, <1>7, RefusedProgress DEF Statuses
<1>8. QED BY <1>6, <1>7

\* The parser's part of the invariant.
LEMMA ParserStep == ASSUME TypeOK, Progress, [Next]_vars PROVE TypeOK' /\ Progress'
<1>1. CASE CheckSize
  BY <1>1, CheckSizeStep
<1>2. CASE ReadNonce
  BY <1>2, ReadNonceStep
<1>3. CASE SkipTo
  BY <1>3, SkipToStep
<1>4. CASE ReadValue
  BY <1>4, ReadValueStep
<1>5. CASE ReadMemoLen
  BY <1>5, ReadMemoLenStep
<1>6. CASE SkipMemo
  BY <1>6, SkipMemoStep
<1>7. CASE CheckEncoding
  BY <1>7, CheckEncodingStep
<1>8. CASE End
  BY <1>8, EndStep
<1>9. CASE UNCHANGED vars
  <2>1. /\ UNCHANGED <<buf, sent, offset, field, lengthRead>>
        /\ UNCHANGED <<nonce, to, value, memo_len, memo>>
    BY <1>9 DEF vars, tx
  <2>2. TypeOK'
    BY <2>1 DEF TypeOK
  <2>3. SizeAt(Header)' = SizeAt(Header)
    BY <2>1 DEF SizeAt, Header
  <2>4. NumberAt(Header)' = NumberAt(Header)
    BY <2>1, <2>3 DEF NumberAt, Header
  <2>5. /\ NonceRight' = NonceRight /\ ToRight' = ToRight /\ ValueRight' = ValueRight
        /\ MemoLenRight' = MemoLenRight /\ MemoOffset' = MemoOffset /\ MemoRight' = MemoRight
        /\ EncodingRight' = EncodingRight
    BY <2>1, <2>3, <2>4 DEF NonceRight, ToRight, ValueRight, MemoLenRight, MemoOffset, MemoRight,
                            EncodingRight, IsAscii, MemoBytes, Header
  <2>6. Progress'
    BY <2>1, <2>5 DEF Progress, EncodingIsRead, MemoIsRead, MemoLenIsRead, ValueIsRead, ToIsRead,
                      NonceIsRead, Header
  <2>7. QED BY <2>2, <2>6
<1>10. QED BY <1>1, <1>2, <1>3, <1>4, <1>5, <1>6, <1>7, <1>8, <1>9 DEF Next

\* Where the fields of the transaction that was sent are in the buffer.
LEMMA SentIs ==
    ASSUME sent \in Transactions, buf = Serialize(sent)
    PROVE  /\ buf \in Seq(Bytes) /\ Len(buf) \in Nat /\ Len(sent.memo) \in Nat
           /\ SizeAt(Header) \in Nat \ {0} /\ NumberAt(Header) = Len(sent.memo)
           /\ Len(buf) = Header + SizeAt(Header) + Len(sent.memo)
           /\ BigEndian(SubSeq(buf, 1, WordLen)) = sent.nonce
           /\ SubSeq(buf, WordLen + 1, WordLen + AddressLen) = sent.to
           /\ BigEndian(SubSeq(buf, WordLen + AddressLen + 1, Header)) = sent.value
           /\ SubSeq(buf, Header + SizeAt(Header) + 1, Len(buf)) = sent.memo
<1> DEFINE v == VarintBytes(Len(sent.memo))
<1>1. /\ buf \in Seq(Bytes)
      /\ v \in Seq(Bytes) /\ Len(v) \in Nat \ {0} /\ Len(v) = SizeFrom(v[1])
      /\ NumberOf(v) = Len(sent.memo)
      /\ Len(buf) = Header + Len(v) + Len(sent.memo)
      /\ BigEndian(SubSeq(buf, 1, WordLen)) = sent.nonce
      /\ SubSeq(buf, WordLen + 1, WordLen + AddressLen) = sent.to
      /\ BigEndian(SubSeq(buf, WordLen + AddressLen + 1, Header)) = sent.value
      /\ Holds(buf, Header, v)
      /\ SubSeq(buf, Header + Len(v) + 1, Len(buf)) = sent.memo
  BY SerializedIs
<1>2. Len(sent.memo) \in Nat /\ Len(buf) \in Nat
  <2>1. sent.memo \in Seq(Bytes)
    BY TransactionIs
  <2>2. QED BY <1>1, <2>1
<1> HIDE DEF v
<1>3. SizeAt(Header) = Len(v)
  <2>1. 1 \in 1 .. Len(v)
    BY <1>1
  <2>2. buf[Header + 1] = v[1]
    BY <1>1, <2>1 DEF Holds
  <2>3. QED BY <1>1, <2>2 DEF SizeAt
<1>4. SubSeq(buf, Header + 1, Header + Len(v)) = v
  BY <1>1, SizesAre, PieceHeld
<1>5. NumberAt(Header) = Len(sent.memo)
  BY <1>1, <1>3, <1>4 DEF NumberAt
<1>6. QED BY <1>1, <1>2, <1>3, <1>5

\* Its memo is found where it is.
LEMMA SentMemo ==
    ASSUME TxInv, sent # Nothing, field \in MemoIsRead
    PROVE  /\ sent \in Transactions /\ buf = Serialize(sent) /\ Len(buf) <= MaxTxLen
           /\ memo_len = Len(sent.memo) /\ offset = Len(buf) /\ memo + memo_len = Len(buf)
           /\ MemoBytes = sent.memo
<1>1. /\ sent \in Transactions /\ buf = Serialize(sent) /\ Len(buf) <= MaxTxLen /\ lengthRead
      /\ MemoLenRight /\ MemoRight
  <2>1. field \in MemoLenIsRead /\ field \in {"nonce", "encodingError"} \cup NonceIsRead
    BY DEF MemoIsRead, MemoLenIsRead, ValueIsRead, ToIsRead, NonceIsRead
  <2>2. MemoLenRight /\ MemoRight
    BY <2>1 DEF TxInv, Progress
  <2>3. sent \in Transactions /\ buf = Serialize(sent) /\ Len(buf) <= MaxTxLen /\ lengthRead
    BY <2>1 DEF TxInv, FromClient
  <2>4. QED BY <2>2, <2>3
<1> DEFINE h == Header + SizeAt(Header)
<1>2. /\ Len(buf) \in Nat /\ Len(sent.memo) \in Nat /\ h \in Nat
      /\ NumberAt(Header) = Len(sent.memo) /\ Len(buf) = h + Len(sent.memo)
      /\ SubSeq(buf, h + 1, Len(buf)) = sent.memo
  <2>1. /\ Len(buf) \in Nat /\ Len(sent.memo) \in Nat /\ NumberAt(Header) = Len(sent.memo)
        /\ Len(buf) = h + Len(sent.memo) /\ SubSeq(buf, h + 1, Len(buf)) = sent.memo
    BY <1>1, SentIs
  <2>2. h \in Nat
    BY <1>1, SizesAre, SentIs
  <2>3. QED BY <2>1, <2>2
<1>3. memo_len = Len(sent.memo) /\ memo = h /\ offset = memo + (memo_len % SizeMod)
  <2>1. memo_len = NumberAt(Header)
    BY <1>1 DEF MemoLenRight
  <2>2. memo = h /\ offset = memo + (memo_len % SizeMod)
    BY <1>1 DEF MemoRight, MemoOffset
  <2>3. QED BY <1>2, <2>1, <2>2
<1> HIDE DEF h
<1>4. memo_len < SizeMod /\ SizeMod \in Nat \ {0} /\ memo_len \in Nat
  BY <1>1, <1>2, <1>3, Constants
<1>5. memo_len % SizeMod = memo_len
  BY <1>4
<1>6. offset = Len(buf) /\ memo + memo_len = Len(buf)
  BY <1>2, <1>3, <1>5
<1>7. MemoBytes = sent.memo
  BY <1>2, <1>3, <1>6 DEF MemoBytes
<1>8. QED BY <1>1, <1>3, <1>6, <1>7

LEMMA ClientStep == ASSUME TxInv, [Next]_vars PROVE FromClient'
<1>1. SUFFICES ASSUME sent' # Nothing
      PROVE  /\ sent' \in Transactions /\ buf' = Serialize(sent')
             /\ field' \in Fields \cup {"ok", "lengthError", "encodingError"}
             /\ field' \in {"nonce", "encodingError"} \cup NonceIsRead => Len(buf') <= MaxTxLen
             /\ field' = "lengthError" => Len(buf') > MaxTxLen
             /\ field' = "encodingError" => ~ IsAscii(sent'.memo)
             /\ field' \in MemoLenIsRead => lengthRead'
  BY DEF FromClient, Fields, NonceIsRead, ToIsRead, ValueIsRead, MemoLenIsRead, MemoIsRead,
         EncodingIsRead, IsAscii
<1>2. sent' = sent /\ buf' = buf
  BY DEF Next, CheckSize, ReadNonce, SkipTo, ReadValue, ReadMemoLen, SkipMemo, CheckEncoding, End,
         Read, Test, Go, vars
<1>3. /\ sent # Nothing /\ sent \in Transactions /\ buf = Serialize(sent)
      /\ TypeOK /\ Progress /\ FromClient
  BY <1>1, <1>2 DEF TxInv, FromClient
<1>4. /\ Len(buf) \in Nat /\ Len(sent.memo) \in Nat /\ SizeAt(Header) \in Nat \ {0}
      /\ Len(buf) = Header + SizeAt(Header) + Len(sent.memo)
      /\ MaxTxLen \in Nat
  BY <1>3, SentIs, Constants
<1> DEFINE Sets(s) == /\ s \in Fields \cup {"ok", "lengthError", "encodingError"}
                      /\ s \notin {"lengthError", "encodingError"}
<1>5. CASE CheckSize
  <2>1. field' = IF Len(buf) <= MaxTxLen THEN "nonce" ELSE "lengthError"
    BY <1>5 DEF CheckSize, Test, Go
  <2>2. QED BY <1>2, <1>3, <1>4, <2>1 DEF Fields, NonceIsRead, ToIsRead, ValueIsRead,
                            MemoLenIsRead, MemoIsRead, EncodingIsRead
<1>6. CASE ReadNonce
  <2>1. offset = 0 /\ field = "nonce"
    BY <1>3, <1>6 DEF ReadNonce, Read, Progress
  <2>2. CanRead(WordLen)
    BY <1>3, <1>4, <2>1, SizesAre, ReadersAre
  <2>3. field' = "to" /\ Len(buf) <= MaxTxLen
    BY <1>3, <1>6, <2>1, <2>2 DEF ReadNonce, Read, Go, FromClient
  <2>4. QED BY <1>2, <1>3, <2>3 DEF Fields, MemoLenIsRead, MemoIsRead, EncodingIsRead
<1>7. CASE SkipTo
  <2>1. offset = WordLen /\ field = "to"
    BY <1>3, <1>7 DEF SkipTo, Read, Progress
  <2>2. CanRead(AddressLen)
    <3>1. offset + AddressLen <= Len(buf)
      BY <1>4, <2>1, SizesAre
    <3>2. QED BY <1>3, <3>1, SizesAre, ReadersAre
  <2>3. field' = "value" /\ Len(buf) <= MaxTxLen
    BY <1>3, <1>7, <2>1, <2>2 DEF SkipTo, Read, Go, FromClient, NonceIsRead
  <2>4. QED BY <1>2, <1>3, <2>3 DEF Fields, MemoLenIsRead, MemoIsRead, EncodingIsRead
<1>8. CASE ReadValue
  <2>1. offset = WordLen + AddressLen /\ field = "value"
    BY <1>3, <1>8 DEF ReadValue, Read, Progress
  <2>2. CanRead(WordLen)
    <3>1. offset + WordLen <= Len(buf)
      BY <1>4, <2>1, SizesAre
    <3>2. QED BY <1>3, <3>1, SizesAre, ReadersAre
  <2>3. field' = "memo_len" /\ Len(buf) <= MaxTxLen
    BY <1>3, <1>8, <2>1, <2>2 DEF ReadValue, Read, Go, FromClient, NonceIsRead, ToIsRead
  <2>4. QED BY <1>2, <1>3, <2>3 DEF Fields, MemoLenIsRead, MemoIsRead, EncodingIsRead
<1>9. CASE ReadMemoLen
  <2>1. offset = Header /\ field = "memo_len"
    BY <1>3, <1>9 DEF ReadMemoLen, Progress
  <2>2. CanReadVarint
    BY <1>3, <1>4, <2>1, SizesAre, VarintAhead
  <2>3. field' = "memo" /\ lengthRead' /\ Len(buf) <= MaxTxLen
    BY <1>3, <1>9, <2>1, <2>2 DEF ReadMemoLen, Go, FromClient, NonceIsRead, ToIsRead, ValueIsRead
  <2>4. QED BY <1>2, <1>3, <2>3 DEF Fields
<1>10. CASE SkipMemo
  <2>1. /\ field = "memo" /\ offset = MemoOffset /\ MemoLenRight /\ lengthRead
        /\ Len(buf) <= MaxTxLen /\ UNCHANGED lengthRead
    BY <1>3, <1>10 DEF SkipMemo, Read, Progress, FromClient, NonceIsRead, ToIsRead, ValueIsRead,
                       MemoLenIsRead
  <2>2. offset = Header + SizeAt(Header) /\ memo_len = Len(sent.memo)
    BY <1>3, <2>1, SentIs DEF MemoOffset, MemoLenRight
  <2>3. memo_len < SizeMod /\ SizeMod \in Nat \ {0} /\ memo_len \in Nat
    BY <1>4, <2>1, <2>2, SizesAre, Constants
  <2>4. memo_len % SizeMod = memo_len
    BY <2>3
  <2>5. CanRead(memo_len)
    <3>1. offset + memo_len <= Len(buf)
      BY <1>4, <2>2, SizesAre
    <3>2. QED BY <1>3, <2>3, <3>1, ReadersAre
  <2>6. field' = "encoding"
    BY <1>10, <2>4, <2>5 DEF SkipMemo, Read, Go
  <2>7. QED BY <1>2, <1>3, <2>1, <2>6 DEF Fields
<1>11. CASE CheckEncoding
  <2>1. /\ field = "encoding" /\ lengthRead /\ UNCHANGED lengthRead
    BY <1>3, <1>11 DEF CheckEncoding, Test, FromClient, MemoLenIsRead, MemoIsRead
  <2>2. Len(buf) <= MaxTxLen /\ memo + memo_len = Len(buf) /\ MemoBytes = sent.memo
    BY <1>3, <2>1, SentMemo DEF MemoIsRead
  <2>3. field' = IF IsAscii(sent.memo) THEN "end" ELSE "encodingError"
    BY <1>4, <1>11, <2>2 DEF CheckEncoding, EncodingIsRight, Test, Go
  <2>4. QED BY <1>2, <1>3, <2>1, <2>2, <2>3 DEF Fields, MemoLenIsRead, MemoIsRead, EncodingIsRead
<1>12. CASE End
  <2>1. field = "end" /\ lengthRead /\ UNCHANGED lengthRead
    BY <1>3, <1>12 DEF End, Test, FromClient, MemoLenIsRead, MemoIsRead, EncodingIsRead
  <2>2. Len(buf) <= MaxTxLen /\ offset = Len(buf)
    BY <1>3, <2>1, SentMemo DEF MemoIsRead, EncodingIsRead
  <2>3. field' = "ok"
    BY <1>12, <2>2 DEF End, Test, Go
  <2>4. QED BY <1>2, <1>3, <2>1, <2>2, <2>3
<1>13. CASE UNCHANGED vars
  BY <1>2, <1>3, <1>13 DEF FromClient, vars
<1>14. QED BY <1>5, <1>6, <1>7, <1>8, <1>9, <1>10, <1>11, <1>12, <1>13 DEF Next

LEMMA InitInv == Init => TxInv
<1> SUFFICES ASSUME Init PROVE TxInv
  OBVIOUS
<1>1. /\ buf \in Seq(Bytes) /\ offset = 0 /\ field = "size"
      /\ nonce = 0 /\ to = 0 /\ value = 0 /\ memo_len = 0 /\ memo = 0 /\ lengthRead = FALSE
      /\ sent \in Transactions \cup {Nothing}
      /\ sent # Nothing => sent \in Transactions /\ buf = Serialize(sent)
  <2>1. CASE \E b \in Inputs : Parsing(b) /\ sent = Nothing
    BY <2>1, TxAssumption DEF Parsing
  <2>2. CASE \E t \in Transactions : Parsing(Serialize(t)) /\ sent = t
    <3>1. PICK t \in Transactions : Parsing(Serialize(t)) /\ sent = t
      BY <2>2
    <3>2. Serialize(t) \in Seq(Bytes)
      BY SerializedIs
    <3>3. QED BY <3>1, <3>2 DEF Parsing
  <2>3. QED BY <2>1, <2>2 DEF Init
<1>2. TypeOK
  <2>1. 0 \in 0 .. Len(buf) /\ 0 \in Nat /\ FALSE \in BOOLEAN /\ field \in Fields
    BY <1>1 DEF Fields
  <2>2. QED BY <1>1, <2>1 DEF TypeOK
<1>3. Progress
  BY <1>1 DEF Progress, NonceIsRead, ToIsRead, ValueIsRead, MemoLenIsRead, MemoIsRead,
              EncodingIsRead
<1>4. FromClient
  BY <1>1 DEF FromClient, Fields, NonceIsRead, ToIsRead, ValueIsRead, MemoLenIsRead, MemoIsRead,
              EncodingIsRead
<1>5. QED BY <1>2, <1>3, <1>4 DEF TxInv

LEMMA InvHolds == Spec => []TxInv
<1>1. TxInv /\ [Next]_vars => TxInv'
  <2>1. SUFFICES ASSUME TxInv, [Next]_vars PROVE TxInv'
    OBVIOUS
  <2>2. TypeOK' /\ Progress'
    BY <2>1, ParserStep DEF TxInv
  <2>3. FromClient'
    BY <2>1, ClientStep
  <2>4. QED BY <2>2, <2>3 DEF TxInv
<1>2. QED BY <1>1, InitInv, PTL DEF Spec

\* The types of the parser's state: transaction_deserialize never moves the
\* offset past the end of the buffer, whatever it reads there.
THEOREM TypeCorrect == Spec => []TypeOK
<1>1. TxInv => TypeOK
  BY DEF TxInv
<1>2. QED BY <1>1, InvHolds, PTL

\* What transaction_serialize writes, transaction_deserialize reads back, unless
\* it is too long or its memo is not ASCII.
THEOREM RoundTripCorrect == Spec => []RoundTrip
<1>1. TxInv => RoundTrip
  <2>1. SUFFICES ASSUME TxInv, sent # Nothing, field \in Statuses
        PROVE  /\ (field = "ok") <=> Len(buf) <= MaxTxLen /\ IsAscii(sent.memo)
               /\ field = "ok" => Parsed = sent
    BY DEF RoundTrip, IsAscii
  <2>2. /\ sent \in Transactions /\ buf = Serialize(sent)
        /\ field \in {"ok", "lengthError", "encodingError"}
        /\ field = "lengthError" => Len(buf) > MaxTxLen
        /\ field = "encodingError" => ~ IsAscii(sent.memo)
    BY <2>1 DEF TxInv, FromClient, Fields, Statuses
  <2>3. Len(buf) \in Nat /\ MaxTxLen \in Nat
    BY <2>2, SentIs, Constants
  <2>4. CASE field = "lengthError"
    BY <2>2, <2>3, <2>4
  <2>5. CASE field = "encodingError"
    BY <2>2, <2>5
  <2>6. CASE field = "ok"
    <3>1. Len(buf) <= MaxTxLen /\ memo + memo_len = Len(buf) /\ MemoBytes = sent.memo
      BY <2>1, <2>6, SentMemo DEF MemoIsRead, EncodingIsRead
    <3>2. NonceRight /\ ToRight /\ ValueRight /\ EncodingRight
      BY <2>1, <2>6 DEF TxInv, Progress, NonceIsRead, ToIsRead, ValueIsRead, MemoLenIsRead,
                        MemoIsRead, EncodingIsRead
    <3>3. IsAscii(sent.memo)
      BY <2>3, <3>1, <3>2 DEF EncodingRight
    <3>4. /\ nonce = sent.nonce /\ value = sent.value
          /\ SubSeq(buf, to + 1, to + AddressLen) = sent.to
      BY <2>2, <3>2, SentIs DEF NonceRight, ToRight, ValueRight
    <3>5. Parsed = sent
      BY <2>2, <3>1, <3>4, TransactionIs DEF Parsed
    <3>6. QED BY <2>6, <3>1, <3>3, <3>5
  <2>7. QED BY <2>2, <2>4, <2>5, <2>6
<1>2. QED BY <1>1, InvHolds, PTL

\* Five pieces of a byte string, one after the other.
LEMMA PiecesJoined ==
    ASSUME NEW b \in Seq(Bytes), NEW i \in Nat, NEW j \in Nat, NEW k \in Nat, NEW l \in Nat,
           i <= j, j <= k, k <= l, l <= Len(b)
    PROVE  Joined(SubSeq(b, 1, i), SubSeq(b, i + 1, j), SubSeq(b, j + 1, k), SubSeq(b, k + 1, l),
                  SubSeq(b, l + 1, Len(b))) = b
<1>1. ASSUME NEW m \in Nat, NEW n \in Nat, m <= n, n <= Len(b)
      PROVE  SubSeq(b, 1, m) \o SubSeq(b, m + 1, n) = SubSeq(b, 1, n)
  <2> DEFINE one == 1
  <2>1. one \in 1 .. Len(b) + 1 /\ m \in one - 1 .. Len(b) /\ n \in m .. Len(b)
    BY <1>1
  <2> HIDE DEF one
  <2>2. SubSeq(b, one, m) \o SubSeq(b, m + 1, n) = SubSeq(b, one, n)
    BY <2>1, ConcatAdjacentSubSeq
  <2>3. QED BY <2>2 DEF one
<1>2. SubSeq(b, 1, i) \o SubSeq(b, i + 1, j) = SubSeq(b, 1, j)
  BY <1>1
<1>3. SubSeq(b, 1, j) \o SubSeq(b, j + 1, k) = SubSeq(b, 1, k)
  BY <1>1
<1>4. SubSeq(b, 1, k) \o SubSeq(b, k + 1, l) = SubSeq(b, 1, l)
  BY <1>1
<1>5. SubSeq(b, 1, l) \o SubSeq(b, l + 1, Len(b)) = SubSeq(b, 1, Len(b))
  <2>1. Len(b) \in Nat /\ Len(b) <= Len(b)
    OBVIOUS
  <2> DEFINE n == Len(b)
  <2>2. n \in Nat /\ l <= n /\ n <= Len(b)
    BY <2>1
  <2> HIDE DEF n
  <2>3. SubSeq(b, 1, l) \o SubSeq(b, l + 1, n) = SubSeq(b, 1, n)
    BY <1>1, <2>2
  <2>4. QED BY <2>3 DEF n
<1>6. SubSeq(b, 1, Len(b)) = b
  BY SubSeqFull
<1>7. QED BY <1>2, <1>3, <1>4, <1>5, <1>6 DEF Joined

\* What is accepted with a length that was read ends with its memo, in ASCII,
\* and is what a client would have sent, but for the form of that length.
THEOREM AcceptedCorrect == Spec => []AcceptedIsExact
<1>1. TxInv => AcceptedIsExact
  <2>1. SUFFICES ASSUME TxInv, field = "ok", lengthRead, memo_len < SizeMod
        PROVE  /\ memo + memo_len = Len(buf)
               /\ \A k \in memo + 1 .. Len(buf) : buf[k] < AsciiMod
               /\ Serialize(Parsed) = buf \/ Len(Serialize(Parsed)) < Len(buf)
    BY DEF AcceptedIsExact
  <2>2. /\ buf \in Seq(Bytes) /\ Len(buf) \in Nat /\ memo_len \in Nat /\ memo \in Nat
        /\ memo <= Len(buf) /\ offset = Len(buf)
        /\ NonceRight /\ ToRight /\ ValueRight /\ MemoLenRight /\ MemoRight /\ EncodingRight
    BY <2>1 DEF TxInv, TypeOK, Progress, NonceIsRead, ToIsRead, ValueIsRead, MemoLenIsRead,
                MemoIsRead, EncodingIsRead
  <2>3. memo + memo_len = Len(buf)
    <3>1. memo_len % SizeMod = memo_len
      BY <2>1, <2>2, Constants
    <3>2. QED BY <2>2, <3>1 DEF MemoRight
  <2> DEFINE m == SubSeq(buf, memo + 1, Len(buf))
  <2>4. MemoBytes = m /\ IsAscii(m)
    BY <2>2, <2>3 DEF MemoBytes, EncodingRight
  <2>5. m \in Seq(Bytes) /\ Len(m) = memo_len /\ \A k \in 1 .. memo_len : m[k] = buf[memo + k]
    <3> DEFINE i == memo
               j == Len(buf)
    <3>1. i \in Nat /\ j \in Nat /\ i <= j /\ j <= Len(buf) /\ j - i = memo_len
      BY <2>2, <2>3
    <3>2. m = SubSeq(buf, i + 1, j)
      OBVIOUS
    <3> HIDE DEF i, j, m
    <3>3. m \in Seq(Bytes) /\ Len(m) = j - i /\ \A k \in 1 .. j - i : m[k] = buf[i + k]
      BY <2>2, <3>1, <3>2, PieceIs
    <3>4. QED BY <3>1, <3>3 DEF i
  <2> HIDE DEF m
  <2>6. ASSUME NEW k \in memo + 1 .. Len(buf) PROVE buf[k] < AsciiMod
    <3>1. k - memo \in 1 .. memo_len /\ memo + (k - memo) = k
      BY <2>2, <2>3
    <3>2. k - memo \in DOMAIN m /\ m[k - memo] = buf[k]
      BY <2>5, <3>1
    <3>3. QED BY <2>4, <3>2 DEF IsAscii
  <2> DEFINE a == SubSeq(buf, 1, WordLen)
             c == SubSeq(buf, WordLen + 1, WordLen + AddressLen)
             d == SubSeq(buf, WordLen + AddressLen + 1, Header)
             v == SubSeq(buf, Header + 1, Header + SizeAt(Header))
             w == VarintBytes(memo_len)
  <2>7. a \in Seq(Bytes) /\ Len(a) = WordLen /\ BigEndianBytes(nonce, WordLen) = a
    <3>1. 0 \in Nat /\ WordLen \in Nat /\ 0 <= WordLen /\ WordLen <= Len(buf) /\ 0 + 1 = 1
          /\ WordLen - 0 = WordLen
      BY <2>2, SizesAre DEF NonceRight
    <3>2. /\ SubSeq(buf, 0 + 1, WordLen) \in Seq(Bytes)
          /\ Len(SubSeq(buf, 0 + 1, WordLen)) = WordLen - 0
      BY <2>2, <3>1, PieceIs
    <3>3. a \in Seq(Bytes) /\ Len(a) = WordLen
      BY <3>1, <3>2
    <3>4. nonce = BigEndian(a)
      BY <2>2 DEF NonceRight
    <3> HIDE DEF a
    <3>5. QED BY <3>3, <3>4, NumberWritten
  <2>8. c \in Seq(Bytes) /\ Len(c) = AddressLen /\ SubSeq(buf, to + 1, to + AddressLen) = c
    <3> DEFINE i == WordLen
               j == WordLen + AddressLen
    <3>1. i \in Nat /\ j \in Nat /\ i <= j /\ j <= Len(buf) /\ j - i = AddressLen
      BY <2>2, SizesAre DEF ToRight
    <3>2. c = SubSeq(buf, i + 1, j)
      OBVIOUS
    <3> HIDE DEF i, j, c
    <3>3. c \in Seq(Bytes) /\ Len(c) = j - i
      BY <2>2, <3>1, <3>2, PieceIs
    <3>4. QED BY <2>2, <3>1, <3>3 DEF ToRight, c
  <2>9. d \in Seq(Bytes) /\ Len(d) = WordLen /\ BigEndianBytes(value, WordLen) = d
    <3> DEFINE i == WordLen + AddressLen
    <3>1. i \in Nat /\ Header \in Nat /\ i <= Header /\ Header <= Len(buf) /\ Header - i = WordLen
      BY <2>2, SizesAre DEF ValueRight
    <3>2. d = SubSeq(buf, i + 1, Header) /\ value = BigEndian(d)
      BY <2>2 DEF ValueRight
    <3> HIDE DEF i, d
    <3>3. d \in Seq(Bytes) /\ Len(d) = Header - i
      BY <2>2, <3>1, <3>2, PieceIs
    <3>4. QED BY <3>1, <3>2, <3>3, NumberWritten
  <2>10. /\ Header + 1 <= Len(buf) /\ Header + SizeAt(Header) <= Len(buf)
         /\ memo_len = NumberAt(Header) /\ memo = Header + SizeAt(Header)
    BY <2>1, <2>2 DEF MemoLenRight, MemoRight, MemoOffset
  <2>11. /\ v \in Seq(Bytes) /\ Len(v) = SizeAt(Header) /\ Len(v) >= 1 /\ Len(v) = SizeFrom(v[1])
         /\ memo_len = NumberOf(v) /\ SizeAt(Header) \in Nat
    BY <2>2, <2>10, SizesAre, NumberAtIs
  <2>12. w \in Seq(Bytes) /\ Len(w) <= Len(v) /\ (Len(w) = Len(v) => w = v)
    <3> HIDE DEF v
    <3>1. /\ memo_len < Power(Widths[3]) /\ Len(w) <= Len(v) /\ (Len(w) = Len(v) => w = v)
      BY <2>11, VarintWritten
    <3>2. w \in Seq(Bytes)
      BY <2>2, <3>1, VarintRead
    <3>3. QED BY <3>1, <3>2
  <2>13. Serialize(Parsed) = Joined(a, c, d, w, m)
    <3>1. /\ Parsed.nonce = nonce /\ Parsed.value = value /\ Parsed.memo = m
          /\ Parsed.to = SubSeq(buf, to + 1, to + AddressLen)
      BY <2>4 DEF Parsed
    <3> HIDE DEF a, c, d, w
    <3>2. VarintBytes(Len(Parsed.memo)) = w
      BY <2>5, <3>1 DEF w
    <3>3. QED BY <2>7, <2>8, <2>9, <3>1, <3>2 DEF Serialize, Joined
  <2>14. Joined(a, c, d, v, m) = buf
    <3> DEFINE i == WordLen
               j == WordLen + AddressLen
               k == Header
               l == Header + SizeAt(Header)
    <3>1. /\ i \in Nat /\ j \in Nat /\ k \in Nat /\ l \in Nat
          /\ i <= j /\ j <= k /\ k <= l /\ l <= Len(buf) /\ l = memo
      <4> DEFINE s == SizeAt(Header)
      <4>1. s \in Nat /\ Header + s <= Len(buf) /\ memo = Header + s
        BY <2>10, <2>11
      <4> HIDE DEF s
      <4>2. /\ Header + s \in Nat /\ WordLen + AddressLen \in Nat
            /\ WordLen <= WordLen + AddressLen /\ WordLen + AddressLen <= Header
            /\ Header <= Header + s
        BY <4>1, SizesAre
      <4>3. QED BY <4>1, <4>2, SizesAre DEF s
    <3>2. /\ a = SubSeq(buf, 1, i) /\ c = SubSeq(buf, i + 1, j) /\ d = SubSeq(buf, j + 1, k)
          /\ v = SubSeq(buf, k + 1, l)
      OBVIOUS
    <3> HIDE DEF a, c, d, v, i, j, k, l
    <3>3. m = SubSeq(buf, l + 1, Len(buf))
      BY <3>1 DEF m
    <3>4. Joined(SubSeq(buf, 1, i), SubSeq(buf, i + 1, j), SubSeq(buf, j + 1, k),
                 SubSeq(buf, k + 1, l), SubSeq(buf, l + 1, Len(buf))) = buf
      BY <2>2, <3>1, PiecesJoined
    <3>5. QED BY <3>2, <3>3, <3>4
  <2> HIDE DEF a, c, d, v, w
  <2>15. Len(Joined(a, c, d, w, m)) = WordLen + AddressLen + WordLen + Len(w) + memo_len
    <3>1. Laid(Joined(a, c, d, w, m), a, c, d, w, m)
      BY <2>5, <2>7, <2>8, <2>9, <2>12, FiveParts
    <3>2. QED BY <2>5, <2>7, <2>8, <2>9, <3>1 DEF Laid
  <2>16. CASE Len(w) = Len(v)
    <3>1. w = v
      BY <2>12, <2>16
    <3>2. Serialize(Parsed) = buf
      BY <2>13, <2>14, <3>1
    <3>3. QED BY <2>3, <2>6, <3>2
  <2>17. CASE Len(w) # Len(v)
    <3>1. Len(w) \in Nat /\ Len(w) < Len(v) /\ Len(v) \in Nat
      BY <2>11, <2>12, <2>17
    <3>2. Len(buf) = WordLen + AddressLen + WordLen + Len(v) + memo_len
      BY <2>3, <2>10, <2>11, SizesAre
    <3>3. Len(Serialize(Parsed)) < Len(buf)
      BY <2>2, <2>13, <2>15, <3>1, <3>2, SizesAre
    <3>4. QED BY <2>3, <2>6, <3>3
  <2>18. QED BY <2>16, <2>17
<1>2. QED BY <1>1, InvHolds, PTL

\* No two transactions have the same bytes: what is signed for one, serialized by
\* transaction_serialize, is the serialization of no other.
THEOREM OneTransaction ==
    \A t, u \in Transactions : Serialize(t) = Serialize(u) => t = u
<1> SUFFICES ASSUME NEW t \in Transactions, NEW u \in Transactions, Serialize(t) = Serialize(u)
             PROVE  t = u
  OBVIOUS
<1> DEFINE b == Serialize(t)
           v == VarintBytes(Len(t.memo))
           w == VarintBytes(Len(u.memo))
<1>1. /\ Len(v) \in Nat \ {0} /\ Len(v) = SizeFrom(v[1]) /\ Holds(b, Header, v)
      /\ BigEndian(SubSeq(b, 1, WordLen)) = t.nonce
      /\ SubSeq(b, WordLen + 1, WordLen + AddressLen) = t.to
      /\ BigEndian(SubSeq(b, WordLen + AddressLen + 1, Header)) = t.value
      /\ SubSeq(b, Header + Len(v) + 1, Len(b)) = t.memo
  BY SerializedIs
<1>2. b = Serialize(u)
  OBVIOUS
<1>3. /\ Len(w) \in Nat \ {0} /\ Len(w) = SizeFrom(w[1]) /\ Holds(b, Header, w)
      /\ BigEndian(SubSeq(b, 1, WordLen)) = u.nonce
      /\ SubSeq(b, WordLen + 1, WordLen + AddressLen) = u.to
      /\ BigEndian(SubSeq(b, WordLen + AddressLen + 1, Header)) = u.value
      /\ SubSeq(b, Header + Len(w) + 1, Len(b)) = u.memo
  BY <1>2, SerializedIs
<1> HIDE DEF b, v, w
<1>4. Len(v) = Len(w)
  <2>1. 1 \in 1 .. Len(v) /\ 1 \in 1 .. Len(w)
    BY <1>1, <1>3
  <2>2. b[Header + 1] = v[1] /\ b[Header + 1] = w[1]
    BY <1>1, <1>3, <2>1 DEF Holds
  <2>3. QED BY <1>1, <1>3, <2>2
<1>5. t.nonce = u.nonce /\ t.to = u.to /\ t.value = u.value /\ t.memo = u.memo
  BY <1>1, <1>3, <1>4
<1>6. /\ t = [nonce |-> t.nonce, to |-> t.to, value |-> t.value, memo |-> t.memo]
      /\ u = [nonce |-> u.nonce, to |-> u.to, value |-> u.value, memo |-> u.memo]
  BY TransactionIs
<1>7. QED BY <1>5, <1>6

\* MEMO_LENGTH_ERROR is never returned: buffer_read_varint leaves zero when it
\* fails, which is not over the limit (README, section 5).
THEOREM NoMemoLengthError == Spec => [](field # "memoLengthError")
<1>1. Init => field # "memoLengthError"
  BY DEF Init, Parsing
<1>2. TypeOK /\ Progress /\ [Next]_vars /\ field # "memoLengthError"
          => (field # "memoLengthError")'
  <2>1. SUFFICES ASSUME TypeOK, Progress, [Next]_vars, field # "memoLengthError"
                 PROVE  field' # "memoLengthError"
    OBVIOUS
  <2>2. CASE ReadMemoLen
    BY <2>1, <2>2, LengthNeverRefused
  <2>3. CASE CheckSize \/ ReadNonce \/ SkipTo \/ ReadValue
    BY <2>1, <2>3 DEF CheckSize, ReadNonce, SkipTo, ReadValue, Read, Test, Go
  <2>4. CASE SkipMemo \/ CheckEncoding \/ End
    BY <2>1, <2>4 DEF SkipMemo, CheckEncoding, End, Read, Test, Go
  <2>5. CASE UNCHANGED vars
    BY <2>1, <2>5 DEF vars
  <2>6. QED BY <2>1, <2>2, <2>3, <2>4, <2>5 DEF Next
<1>3. QED
  <2>1. TxInv => TypeOK /\ Progress
    BY DEF TxInv
  <2>2. QED BY <1>1, <1>2, <2>1, InvHolds, PTL DEF Spec

=============================================================================
