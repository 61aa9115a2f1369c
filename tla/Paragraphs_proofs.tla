------------------------- MODULE Paragraphs_proofs -------------------------
(* Theorems about Paragraphs: the text of a note is cut and joined again   *)
(* in place, for any size of the buffer, any texts and any edits.          *)
EXTENDS Paragraphs, SequenceTheorems, NaturalsInduction, WellFoundedInduction, TLAPS

-----------------------------------------------------------------------------
(* Induction, on sets of natural numbers.                                  *)

LEMMA LeastOf ==
    ASSUME NEW S \in SUBSET Nat, S # {}
    PROVE  \E m \in S : \A k \in S : m <= k
<1> DEFINE R == OpToRel(<, Nat)
<1>1. \A x, y \in Nat : x < y => <<x, y>> \in R
  BY DEF OpToRel
<1>2. IsWellFoundedOn(R, Nat)
  BY NatLessThanWellFounded
<1> HIDE DEF R
<1>3. PICK m \in S : \A k \in S : ~ (<<k, m>> \in R)
  BY <1>2, WFMin
<1>4. \A k \in S : ~ (k < m)
  BY <1>1, <1>3
<1>5. QED BY <1>4

LEMMA SetInduction ==
    ASSUME NEW T, NEW b \in Nat, b \in T,
           \A m \in Nat : m >= b /\ m \in T => m + 1 \in T
    PROVE  \A m \in Nat : m >= b => m \in T
<1> DEFINE S == {m \in Nat : m >= b /\ m \notin T}
<1>1. SUFFICES ASSUME S # {} PROVE FALSE
  OBVIOUS
<1>2. PICK m \in S : \A k \in S : m <= k
  BY <1>1, LeastOf
<1>3. m # b /\ m - 1 \in Nat /\ m - 1 >= b /\ m - 1 \notin S /\ (m - 1) + 1 = m
  BY <1>2
<1>4. m - 1 \in T
  BY <1>3
<1>5. QED BY <1>3, <1>4

\* A function given by its first value, at b, and its steps.
Stepping(f, a, h, b, n) == f[b] = a /\ \A p \in b + 1 .. n : f[p] = h[p][f[p - 1]]

LEMMA StepsFunction ==
    ASSUME NEW V, NEW b \in Nat, NEW n \in Nat, b <= n, NEW a \in V,
           NEW h \in [Nat -> [V -> V]]
    PROVE  \E f \in [b .. n -> V] : Stepping(f, a, h, b, n)
<1> DEFINE T == {m \in Nat : \E f \in [b .. m -> V] : Stepping(f, a, h, b, m)}
<1>1. b \in T
  <2> DEFINE f == [p \in b .. b |-> a]
  <2>1. f \in [b .. b -> V] /\ f[b] = a /\ b + 1 .. b = {}
    OBVIOUS
  <2>2. Stepping(f, a, h, b, b)
    BY <2>1 DEF Stepping
  <2> HIDE DEF f
  <2>3. QED BY <2>1, <2>2
<1>2. ASSUME NEW m \in Nat, m >= b, m \in T PROVE m + 1 \in T
  <2>1. PICK f \in [b .. m -> V] : Stepping(f, a, h, b, m)
    BY <1>2
  <2> DEFINE g == [p \in b .. m + 1 |-> IF p = m + 1 THEN h[m + 1][f[m]] ELSE f[p]]
  <2>2. g \in [b .. m + 1 -> V]
    <3>1. m \in b .. m /\ m + 1 \in Nat
      BY <1>2
    <3>2. f[m] \in V /\ h[m + 1] \in [V -> V]
      BY <3>1
    <3>3. h[m + 1][f[m]] \in V
      BY <3>2
    <3>4. \A p \in b .. m + 1 : p # m + 1 => p \in b .. m
      OBVIOUS
    <3>5. \A p \in b .. m + 1 : (IF p = m + 1 THEN h[m + 1][f[m]] ELSE f[p]) \in V
      BY <3>3, <3>4
    <3>6. QED BY <3>5
  <2>3. Stepping(g, a, h, b, m + 1)
    <3>1. g[b] = a
      <4>1. b \in b .. m + 1 /\ b # m + 1
        BY <1>2
      <4>2. QED BY <2>1, <4>1 DEF Stepping
    <3>2. ASSUME NEW p \in b + 1 .. m + 1 PROVE g[p] = h[p][g[p - 1]]
      <4>1. p \in b .. m + 1 /\ p - 1 \in b .. m + 1 /\ p - 1 # m + 1
        OBVIOUS
      <4>2. g[p - 1] = f[p - 1]
        BY <4>1
      <4>3. CASE p = m + 1
        <5>1. g[p] = h[m + 1][f[m]] /\ p - 1 = m
          BY <4>1, <4>3
        <5> HIDE DEF g
        <5>2. QED BY <5>1, <4>2, <4>3
      <4>4. CASE p # m + 1
        <5>1. g[p] = f[p] /\ p \in b + 1 .. m
          BY <4>1, <4>4
        <5>2. f[p] = h[p][f[p - 1]]
          BY <2>1, <5>1 DEF Stepping
        <5> HIDE DEF g
        <5>3. QED BY <5>1, <5>2, <4>2
      <4>5. QED BY <4>3, <4>4
    <3> HIDE DEF g
    <3>3. QED BY <3>1, <3>2 DEF Stepping
  <2> HIDE DEF g
  <2>4. \E e \in [b .. m + 1 -> V] : Stepping(e, a, h, b, m + 1)
    BY <2>2, <2>3
  <2>5. m + 1 \in Nat
    OBVIOUS
  <2>6. QED BY <2>4, <2>5
<1>3. n \in T
  <2>1. \A m \in Nat : m >= b => m \in T
    <3> HIDE DEF T
    <3>1. QED BY <1>1, <1>2, SetInduction
  <2> HIDE DEF T
  <2>2. QED BY <2>1
<1>4. QED BY <1>3

-----------------------------------------------------------------------------
(* The bytes of a string.                                                  *)

Views == [buf : [Offsets -> Bytes], ptr : Seq(Offsets)]

LEMMA SizeFacts ==
    /\ Size \in Nat \ {0} /\ NUL # NL /\ NUL \in Bytes /\ NL \in Bytes
    /\ 0 \in Offsets /\ Size - 1 \in Offsets
BY ParagraphsAssumption DEF Bytes, Offsets

\* A text that can be typed is a sequence of bytes other than '\0' and '\n'.
LEMMA TextFacts ==
    ASSUME NEW t \in Texts
    PROVE  /\ t \in Seq(Bytes) /\ Len(t) \in Nat
           /\ \A k \in 1 .. Len(t) : t[k] \in Bytes \ {NUL, NL}
<1>1. t \in Seq(ToSet(t) \ {NUL, NL})
  BY ParagraphsAssumption
<1>2. ToSet(t) \ {NUL, NL} \subseteq Bytes \ {NUL, NL}
  BY DEF Bytes
<1> DEFINE C == ToSet(t) \ {NUL, NL}
<1> HIDE DEF C
<1>3. Len(t) \in Nat /\ t \in [1 .. Len(t) -> C]
  BY <1>1 DEF C
<1>4. \A k \in 1 .. Len(t) : t[k] \in Bytes \ {NUL, NL}
  BY <1>2, <1>3 DEF C
<1>5. t \in [1 .. Len(t) -> Bytes]
  BY <1>3, <1>4
<1>6. t \in Seq(Bytes)
  BY <1>3, <1>5
<1>7. QED BY <1>3, <1>4, <1>6

\* strlen finds the end of the string, and no other.
LEMMA StrLenIs ==
    ASSUME NEW buf, NEW p \in Offsets, NEW n \in 0 .. Size - 1 - p,
           buf[p + n] = NUL, \A e \in 0 .. n - 1 : buf[p + e] # NUL
    PROVE  StrLen(buf, p) = n
<1> DEFINE First(d) == buf[p + d] = NUL /\ \A e \in 0 .. d - 1 : buf[p + e] # NUL
<1>1. p \in Nat /\ Size - 1 - p \in Nat /\ n \in Nat
  BY SizeFacts DEF Offsets
<1>2. First(n)
  OBVIOUS
<1>3. ASSUME NEW d \in 0 .. Size - 1 - p, First(d) PROVE d = n
  <2>1. CASE d < n
    BY <1>1, <1>3, <2>1
  <2>2. CASE n < d
    <3>1. n \in 0 .. d - 1
      BY <1>1, <2>2
    <3>2. QED BY <1>3, <3>1
  <2>3. QED BY <1>1, <2>1, <2>2
<1>4. StrLen(buf, p) = CHOOSE d \in 0 .. Size - 1 - p : First(d)
  BY DEF StrLen
<1> HIDE DEF First
<1>5. QED BY <1>2, <1>3, <1>4

\* There is one in a buffer that has a '\0'.
LEMMA StrLenExists ==
    ASSUME NEW buf, NEW p \in Offsets, NEW z \in p .. Size - 1, buf[z] = NUL
    PROVE  /\ StrLen(buf, p) \in 0 .. z - p
           /\ buf[p + StrLen(buf, p)] = NUL
           /\ \A e \in 0 .. StrLen(buf, p) - 1 : buf[p + e] # NUL
<1>1. p \in Nat /\ z \in Nat /\ Size \in Nat
  BY SizeFacts DEF Offsets
<1> DEFINE S == {d \in Nat : d <= z - p /\ buf[p + d] = NUL}
<1>2. z - p \in S
  <2>1. p + (z - p) = z
    BY <1>1
  <2>2. QED BY <1>1, <2>1
<1>3. PICK m \in S : \A k \in S : m <= k
  BY <1>2, LeastOf
<1>4. m \in 0 .. z - p /\ m \in 0 .. Size - 1 - p /\ buf[p + m] = NUL
  BY <1>1, <1>3
<1>5. \A e \in 0 .. m - 1 : buf[p + e] # NUL
  <2>1. TAKE e \in 0 .. m - 1
  <2>2. e \in Nat /\ e <= z - p /\ ~ (m <= e)
    BY <1>4, <1>1
  <2>3. e \notin S
    BY <1>3, <2>2
  <2>4. QED BY <2>2, <2>3
<1>6. StrLen(buf, p) = m
  BY <1>4, <1>5, StrLenIs
<1>7. QED BY <1>4, <1>5, <1>6

-----------------------------------------------------------------------------
(* Where a string is cut.                                                  *)

\* These are the starts of the parts of the first n bytes, which c separates.
CutAt(buf, c, ptr, n) ==
    /\ ptr \in Seq(0 .. n) /\ Len(ptr) >= 1 /\ ptr[1] = 0
    /\ \A a, b \in 1 .. Len(ptr) : a < b => ptr[a] < ptr[b]
    /\ \A j \in 2 .. Len(ptr) : buf[ptr[j] - 1] = c
    /\ \A q \in 0 .. n - 1 : buf[q] = c => \E j \in 2 .. Len(ptr) : ptr[j] = q + 1

LEMMA CutBounds ==
    ASSUME NEW buf, NEW c, NEW ptr, NEW n \in Nat, CutAt(buf, c, ptr, n)
    PROVE  /\ Len(ptr) \in Nat /\ DOMAIN ptr = 1 .. Len(ptr)
           /\ \A j \in 1 .. Len(ptr) : ptr[j] \in 0 .. n
           /\ \A j \in 2 .. Len(ptr) : ptr[j] > 0
<1>1. /\ ptr \in Seq(0 .. n) /\ Len(ptr) \in Nat /\ DOMAIN ptr = 1 .. Len(ptr)
      /\ \A j \in 1 .. Len(ptr) : ptr[j] \in 0 .. n
  BY DEF CutAt
<1>2. ASSUME NEW j \in 2 .. Len(ptr) PROVE ptr[j] > 0
  <2>1. 1 \in 1 .. Len(ptr) /\ j \in 1 .. Len(ptr) /\ 1 < j
    BY <1>1
  <2>2. ptr[1] < ptr[j] /\ ptr[1] = 0
    BY <2>1 DEF CutAt
  <2>3. QED BY <2>2
<1>3. QED BY <1>1, <1>2

\* There is one way to cut a string.
LEMMA CutUnique ==
    ASSUME NEW buf, NEW c, NEW p, NEW r, NEW n \in Nat,
           CutAt(buf, c, p, n), CutAt(buf, c, r, n)
    PROVE  p = r
<1>1. /\ Len(p) \in Nat /\ \A j \in 1 .. Len(p) : p[j] \in 0 .. n
      /\ Len(r) \in Nat /\ \A j \in 1 .. Len(r) : r[j] \in 0 .. n
  BY CutBounds
<1> DEFINE Same(m) == m <= Len(p) /\ m <= Len(r) => p[m] = r[m]
\* The next cut is not before that of the other sequence.
<1>2. ASSUME NEW x, NEW y, NEW m \in Nat \ {0}, CutAt(buf, c, x, n), CutAt(buf, c, y, n),
             m + 1 <= Len(x), m <= Len(y), x[m] = y[m]
      PROVE  m + 1 <= Len(y) /\ y[m + 1] <= x[m + 1]
  <2>1. /\ Len(x) \in Nat /\ \A j \in 1 .. Len(x) : x[j] \in 0 .. n
        /\ Len(y) \in Nat /\ \A j \in 1 .. Len(y) : y[j] \in 0 .. n
    BY <1>2, CutBounds
  <2>2. m \in 1 .. Len(x) /\ m + 1 \in 2 .. Len(x) /\ m + 1 \in 1 .. Len(x) /\ m \in 1 .. Len(y)
    BY <1>2, <2>1
  <2>3. x[m] < x[m + 1] /\ buf[x[m + 1] - 1] = c
    BY <1>2, <2>2 DEF CutAt
  <2> DEFINE q == x[m + 1] - 1
  <2>4. q \in 0 .. n - 1 /\ buf[q] = c /\ x[m] <= q /\ x[m + 1] = q + 1 /\ x[m] \in Nat
    BY <2>1, <2>2, <2>3
  <2> HIDE DEF q
  <2>5. PICK j \in 2 .. Len(y) : y[j] = q + 1
    BY <1>2, <2>4 DEF CutAt
  <2>6. j \in 1 .. Len(y) /\ j > m
    <3>1. CASE j < m
      <4>1. j \in 1 .. Len(y) /\ y[j] < y[m]
        BY <1>2, <2>2, <2>1, <3>1 DEF CutAt
      <4>2. QED BY <4>1, <1>2, <2>4, <2>5, <2>1, <2>2
    <3>2. CASE j = m
      BY <3>2, <1>2, <2>4, <2>5, <2>1, <2>2
    <3>3. QED BY <3>1, <3>2, <2>1
  <2>7. m + 1 \in 1 .. Len(y)
    BY <2>6, <2>1
  <2>8. y[m + 1] <= y[j]
    <3>1. CASE m + 1 < j
      <4>1. y[m + 1] < y[j]
        BY <1>2, <2>6, <2>7, <3>1 DEF CutAt
      <4>2. QED BY <4>1, <2>1, <2>6, <2>7
    <3>2. CASE m + 1 = j
      BY <3>2, <2>1, <2>7
    <3>3. QED BY <3>1, <3>2, <2>6
  <2>9. QED BY <2>4, <2>5, <2>7, <2>8
<1> DEFINE T == {m \in Nat : m > 0 /\ Same(m)}
<1>3. 1 \in T
  BY DEF CutAt
<1>4. ASSUME NEW m \in Nat, m >= 1, m \in T PROVE m + 1 \in T
  <2>1. SUFFICES ASSUME m + 1 <= Len(p), m + 1 <= Len(r) PROVE p[m + 1] = r[m + 1]
    OBVIOUS
  <2>2. m <= Len(p) /\ m <= Len(r) /\ m \in Nat \ {0} /\ p[m] = r[m]
    BY <1>1, <1>4, <2>1
  <2>3. r[m + 1] <= p[m + 1] /\ p[m + 1] <= r[m + 1]
    BY <1>2, <2>1, <2>2
  <2>4. p[m + 1] \in Nat /\ r[m + 1] \in Nat
    BY <1>1, <2>1, <2>2
  <2>5. QED BY <2>3, <2>4
<1>5. \A m \in Nat : m >= 1 => Same(m)
  <2>1. \A m \in Nat : m >= 1 => m \in T
    <3> HIDE DEF T
    <3>1. QED BY <1>3, <1>4, SetInduction
  <2> HIDE DEF Same
  <2>2. QED BY <2>1
<1>6. Len(p) = Len(r)
  <2>1. Len(p) \in Nat \ {0} /\ Len(r) \in Nat \ {0}
    BY <1>1 DEF CutAt
  <2>2. CASE Len(p) < Len(r)
    <3> DEFINE m == Len(p)
    <3>1. m \in Nat \ {0} /\ m + 1 <= Len(r) /\ m <= Len(p) /\ r[m] = p[m]
      BY <2>1, <2>2, <1>5
    <3>2. m + 1 <= Len(p)
      <4> HIDE DEF m
      <4>1. QED BY <1>2, <3>1
    <3>3. QED BY <3>2, <2>1
  <2>3. CASE Len(r) < Len(p)
    <3> DEFINE m == Len(r)
    <3>1. m \in Nat \ {0} /\ m + 1 <= Len(p) /\ m <= Len(r) /\ p[m] = r[m]
      BY <2>1, <2>3, <1>5
    <3>2. m + 1 <= Len(r)
      <4> HIDE DEF m
      <4>1. QED BY <1>2, <3>1
    <3>3. QED BY <3>2, <2>1
  <2>4. QED BY <2>1, <2>2, <2>3
<1> DEFINE S == 0 .. n
<1>7. p \in Seq(S) /\ r \in Seq(S)
  BY DEF CutAt
<1>8. \A j \in 1 .. Len(p) : p[j] = r[j]
  BY <1>1, <1>5, <1>6
<1> HIDE DEF S
<1>9. QED BY <1>6, <1>7, <1>8

\* One more cut, just after a separator.
LEMMA CutAppend ==
    ASSUME NEW buf, NEW new, NEW c, NEW p, NEW n \in Nat, NEW z \in Nat, z > n,
           CutAt(buf, c, p, n), \A q \in 0 .. n - 1 : new[q] = buf[q],
           new[n] = c, \A q \in n + 1 .. z - 1 : new[q] # c
    PROVE  CutAt(new, c, Append(p, n + 1), z)
<1> DEFINE r == Append(p, n + 1)
<1>1. /\ Len(p) \in Nat \ {0} /\ \A j \in 1 .. Len(p) : p[j] \in 0 .. n
      /\ \A j \in 2 .. Len(p) : p[j] > 0
  BY CutBounds DEF CutAt
<1>2. p \in Seq(0 .. z) /\ n + 1 \in 0 .. z /\ p[1] = 0
  <2>1. p \in Seq(0 .. n) /\ p[1] = 0
    BY DEF CutAt
  <2>2. 0 .. n \subseteq 0 .. z
    OBVIOUS
  <2>3. QED BY <2>1, <2>2
<1>3. /\ r \in Seq(0 .. z) /\ Len(r) = Len(p) + 1
      /\ \A j \in 1 .. Len(p) : r[j] = p[j]
      /\ r[Len(r)] = n + 1
  BY <1>1, <1>2
<1> HIDE DEF r
<1>4. \A a, b \in 1 .. Len(r) : a < b => r[a] < r[b]
  <2>1. TAKE a \in 1 .. Len(r), b \in 1 .. Len(r)
  <2>2. HAVE a < b
  <2>3. a \in 1 .. Len(p) /\ r[a] = p[a] /\ p[a] \in 0 .. n
    BY <1>1, <1>3, <2>2
  <2>4. CASE b = Len(r)
    BY <1>3, <2>3, <2>4
  <2>5. CASE b # Len(r)
    <3>1. b \in 1 .. Len(p) /\ r[b] = p[b]
      BY <1>1, <1>3, <2>5
    <3>2. QED BY <2>2, <2>3, <3>1 DEF CutAt
  <2>6. QED BY <2>4, <2>5
<1>5. \A j \in 2 .. Len(r) : new[r[j] - 1] = c
  <2>1. TAKE j \in 2 .. Len(r)
  <2>2. CASE j = Len(r)
    <3>1. r[j] - 1 = n
      BY <1>3, <2>2
    <3>2. QED BY <3>1
  <2>3. CASE j # Len(r)
    <3>1. j \in 2 .. Len(p) /\ j \in 1 .. Len(p) /\ r[j] = p[j]
      BY <1>1, <1>3, <2>3
    <3>2. buf[p[j] - 1] = c
      BY <3>1 DEF CutAt
    <3>3. p[j] - 1 \in 0 .. n - 1
      BY <1>1, <3>1
    <3>4. QED BY <3>1, <3>2, <3>3
  <2>4. QED BY <2>2, <2>3
<1>6. \A q \in 0 .. z - 1 : new[q] = c => \E j \in 2 .. Len(r) : r[j] = q + 1
  <2>1. TAKE q \in 0 .. z - 1
  <2>2. HAVE new[q] = c
  <2>3. CASE q = n
    <3>1. Len(r) \in 2 .. Len(r) /\ r[Len(r)] = q + 1
      BY <1>1, <1>3, <2>3
    <3>2. QED BY <3>1
  <2>4. CASE q < n
    <3>1. q \in 0 .. n - 1 /\ buf[q] = c
      BY <2>2, <2>4
    <3>2. PICK j \in 2 .. Len(p) : p[j] = q + 1
      BY <3>1 DEF CutAt
    <3>3. j \in 2 .. Len(r) /\ r[j] = q + 1
      BY <1>1, <1>3, <3>2
    <3>4. QED BY <3>3
  <2>5. ~ (q > n)
    <3>1. SUFFICES ASSUME q > n PROVE FALSE
      OBVIOUS
    <3>2. q \in n + 1 .. z - 1
      BY <3>1
    <3>3. QED BY <2>2, <3>2
  <2>6. QED BY <2>3, <2>4, <2>5
<1>7. r[1] = 0 /\ Len(r) >= 1
  <2>1. 1 \in 1 .. Len(p)
    BY <1>1
  <2>2. QED BY <1>1, <1>2, <1>3, <2>1
<1>8. CutAt(new, c, r, z)
  BY <1>3, <1>4, <1>5, <1>6, <1>7 DEF CutAt
<1>9. QED BY <1>8 DEF r

\* The loop of content2paragraphs sets them.
LEMMA ScanCuts ==
    ASSUME NEW buf, NEW n \in Offsets
    PROVE  CutAt(buf, NL, PointersAfter(buf)[n], n)
<1> DEFINE V == Seq(Nat)
           h == [m \in Nat |-> [v \in V |-> IF buf[m - 1] = NL THEN Append(v, m) ELSE v]]
           Step(f, m) == IF m = 0 THEN <<0>>
                         ELSE IF buf[m - 1] = NL THEN Append(f[m - 1], m) ELSE f[m - 1]
           F == CHOOSE f : f = [m \in Offsets |-> Step(f, m)]
           top == Size - 1
<1>1. top \in Nat /\ Offsets = 0 .. top
  BY SizeFacts DEF Offsets
<1>2. PICK f \in [0 .. top -> V] : Stepping(f, <<0>>, h, 0, top)
  <2>1. h \in [Nat -> [V -> V]]
    OBVIOUS
  <2>2. <<0>> \in V
    OBVIOUS
  <2>3. 0 \in Nat /\ 0 <= top
    BY <1>1
  <2> HIDE DEF h, V, top
  <2>4. QED BY <1>1, <2>1, <2>2, <2>3, StepsFunction
<1>3. ASSUME NEW m \in Offsets PROVE f[m] = Step(f, m)
  <2>1. CASE m = 0
    BY <2>1, <1>2 DEF Stepping
  <2>2. CASE m # 0
    <3>1. m \in Nat /\ m \in 0 + 1 .. top /\ m - 1 \in 0 .. top
      BY <1>1, <2>2
    <3>2. f[m] = h[m][f[m - 1]] /\ f[m - 1] \in V
      <4> HIDE DEF h
      <4>1. QED BY <1>2, <3>1 DEF Stepping
    <3>3. h[m][f[m - 1]] = IF buf[m - 1] = NL THEN Append(f[m - 1], m) ELSE f[m - 1]
      <4> HIDE DEF V
      <4>1. QED BY <3>1, <3>2
    <3>4. QED BY <3>2, <3>3, <2>2
  <2>3. QED BY <2>1, <2>2
<1>4. f = [m \in Offsets |-> Step(f, m)]
  <2> HIDE DEF Step
  <2>1. QED BY <1>1, <1>2, <1>3
<1>5. F = [m \in Offsets |-> Step(F, m)]
  <2> HIDE DEF Step
  <2>1. QED BY <1>4
<1>6. PointersAfter(buf) = F
  BY DEF PointersAfter
<1>7. \A m \in Offsets : F[m] = Step(F, m)
  <2> HIDE DEF Step, F
  <2>1. QED BY <1>5
<1> HIDE DEF F
<1> DEFINE T == {m \in Nat : m <= top => CutAt(buf, NL, F[m], m)}
<1>8. 0 \in T
  <2>1. F[0] = <<0>>
    BY <1>7, SizeFacts
  <2>2. CutAt(buf, NL, <<0>>, 0)
    BY DEF CutAt
  <2>3. QED BY <2>1, <2>2
<1>9. ASSUME NEW m \in Nat, m \in T PROVE m + 1 \in T
  <2>1. SUFFICES ASSUME m + 1 <= top PROVE CutAt(buf, NL, F[m + 1], m + 1)
    OBVIOUS
  <2> DEFINE p == F[m]
             r == F[m + 1]
  <2>2. CutAt(buf, NL, p, m)
    BY <1>1, <1>9, <2>1
  <2>3. r = IF buf[m] = NL THEN Append(p, m + 1) ELSE p
    <3>1. m + 1 \in Offsets /\ m + 1 # 0 /\ (m + 1) - 1 = m
      BY <1>1, <2>1
    <3>2. F[m + 1] = Step(F, m + 1)
      BY <1>7, <3>1
    <3>3. QED BY <3>1, <3>2
  <2>4. /\ Len(p) \in Nat \ {0} /\ \A j \in 1 .. Len(p) : p[j] \in 0 .. m
        /\ p \in Seq(0 .. m + 1) /\ p[1] = 0
    <3> HIDE DEF p
    <3>1. p \in Seq(0 .. m) /\ Len(p) >= 1 /\ p[1] = 0
      BY <2>2 DEF CutAt
    <3>2. 0 .. m \subseteq 0 .. m + 1
      OBVIOUS
    <3> HIDE DEF p
    <3>3. QED BY <3>1, <3>2
  <2> HIDE DEF p, r
  <2>5. CASE buf[m] # NL
    <3>1. r = p
      BY <2>3, <2>5
    <3>2. \A q \in 0 .. (m + 1) - 1 : buf[q] = NL => q \in 0 .. m - 1
      BY <2>5
    <3>3. CutAt(buf, NL, r, m + 1)
      BY <2>2, <2>4, <3>1, <3>2 DEF CutAt
    <3>4. QED BY <3>3 DEF r
  <2>6. CASE buf[m] = NL
    <3>1. r = Append(p, m + 1)
      BY <2>3, <2>6
    <3>2. m + 1 \in Nat /\ m + 1 > m /\ m + 1 .. (m + 1) - 1 = {}
      OBVIOUS
    <3>3. CutAt(buf, NL, Append(p, m + 1), m + 1)
      BY <2>2, <2>6, <3>2, CutAppend
    <3>4. CutAt(buf, NL, r, m + 1)
      BY <3>1, <3>3
    <3>5. QED BY <3>4 DEF r
  <2>7. QED BY <2>5, <2>6
<1>10. \A m \in Nat : m >= 0 => m \in T
  <2>1. 0 \in Nat
    OBVIOUS
  <2> HIDE DEF T
  <2>2. QED BY <1>8, <1>9, <2>1, SetInduction
<1>11. n \in Nat /\ n >= 0 /\ n <= top
  BY <1>1
<1>12. n \in T
  <2> HIDE DEF T
  <2>1. QED BY <1>10, <1>11
<1>13. QED BY <1>6, <1>11, <1>12

-----------------------------------------------------------------------------
(* The text split, and the text joined.                                    *)

\* A string that ends at n.
IsFlat(buf, n) == n \in Offsets /\ buf[n] = NUL /\ \A q \in 0 .. n - 1 : buf[q] # NUL

\* A text split: its last paragraph ends at n.
Delimited(v, n) ==
    /\ n \in Offsets /\ v.buf[n] = NUL
    /\ \A q \in 0 .. n : v.buf[q] # NL
    /\ IF v.ptr = <<>> THEN n = 0 ELSE CutAt(v.buf, NUL, v.ptr, n)

LEMMA FlatLen ==
    ASSUME NEW buf, NEW n, IsFlat(buf, n)
    PROVE  /\ StrLen(buf, 0) = n
           /\ Breaks(buf) = {q \in 0 .. n - 1 : buf[q] = NL}
<1>1. n \in 0 .. Size - 1 - 0 /\ 0 \in Offsets /\ n \in Nat
  BY SizeFacts DEF IsFlat, Offsets
<1>2. buf[0 + n] = NUL /\ \A e \in 0 .. n - 1 : buf[0 + e] # NUL
  <2>1. 0 + n = n /\ \A e \in 0 .. n - 1 : 0 + e = e
    BY <1>1
  <2>2. QED BY <2>1 DEF IsFlat
<1>3. StrLen(buf, 0) = n
  BY <1>1, <1>2, StrLenIs
<1>4. QED BY <1>3 DEF Breaks

\* content2paragraphs on any string.
LEMMA SplitBytes ==
    ASSUME NEW buf \in [Offsets -> Bytes], NEW n, IsFlat(buf, n)
    PROVE  LET v == content2paragraphs(buf)
           IN  /\ v \in Views /\ Delimited(v, n)
               /\ \A q \in Offsets : v.buf[q] = IF q < n /\ buf[q] = NL THEN NUL ELSE buf[q]
               /\ n = 0 => v.ptr = <<>>
               /\ n > 0 => v.ptr # <<>> /\ CutAt(buf, NL, v.ptr, n)
<1> DEFINE v == content2paragraphs(buf)
<1>1. n \in Offsets /\ n \in Nat /\ n <= Size - 1 /\ 0 .. n \subseteq Offsets
  BY SizeFacts DEF IsFlat, Offsets
<1>2. v = [buf |-> [i \in Offsets |-> IF i \in Breaks(buf) THEN NUL ELSE buf[i]],
           ptr |-> IF buf[0] = NUL THEN <<>> ELSE PointersAfter(buf)[n]]
  BY FlatLen DEF content2paragraphs
<1>3. n = 0 <=> buf[0] = NUL
  <2>1. n > 0 => 0 \in 0 .. n - 1
    BY <1>1
  <2>2. QED BY <1>1, <2>1 DEF IsFlat
<1>4. \A q \in Offsets : v.buf[q] = IF q < n /\ buf[q] = NL THEN NUL ELSE buf[q]
  <2>1. TAKE q \in Offsets
  <2>2. q \in Nat
    BY DEF Offsets
  <2>3. q \in Breaks(buf) <=> q < n /\ buf[q] = NL
    BY <1>1, <2>2, FlatLen
  <2>4. v.buf[q] = IF q \in Breaks(buf) THEN NUL ELSE buf[q]
    BY <1>2
  <2> HIDE DEF v
  <2>5. QED BY <2>3, <2>4
<1>5. v.buf \in [Offsets -> Bytes]
  <2>1. \A i \in Offsets : (IF i \in Breaks(buf) THEN NUL ELSE buf[i]) \in Bytes
    BY SizeFacts
  <2>2. [i \in Offsets |-> IF i \in Breaks(buf) THEN NUL ELSE buf[i]] \in [Offsets -> Bytes]
    BY <2>1
  <2>3. QED BY <1>2, <2>2
<1>6. n > 0 => CutAt(buf, NL, v.ptr, n)
  BY <1>1, <1>2, <1>3, ScanCuts
<1>7. n = 0 => v.ptr = <<>>
  BY <1>2, <1>3
<1>8. v = [buf |-> v.buf, ptr |-> v.ptr]
  BY <1>2
<1> HIDE DEF v
<1>9. n > 0 => v.ptr # <<>> /\ v.ptr \in Seq(Offsets)
  <2>1. SUFFICES ASSUME n > 0 PROVE v.ptr # <<>> /\ v.ptr \in Seq(Offsets)
    OBVIOUS
  <2>2. v.ptr \in Seq(0 .. n) /\ Len(v.ptr) >= 1
    BY <1>6, <2>1 DEF CutAt
  <2>3. QED BY <1>1, <2>2
<1>10. v \in Views
  <2>1. v.ptr \in Seq(Offsets)
    <3>1. CASE n = 0
      <4>1. <<>> \in Seq(Offsets)
        OBVIOUS
      <4>2. v.ptr = <<>>
        BY <1>7, <3>1
      <4>3. QED BY <4>1, <4>2
    <3>2. CASE n > 0
      BY <1>9, <3>2
    <3>3. QED BY <1>1, <3>1, <3>2
  <2>2. QED BY <1>5, <1>8, <2>1 DEF Views
<1>11. Delimited(v, n)
  <2>1. v.buf[n] = NUL
    BY <1>1, <1>4 DEF IsFlat
  <2>2. \A q \in 0 .. n : v.buf[q] # NL
    <3>1. TAKE q \in 0 .. n
    <3>2. q \in Offsets /\ (q < n \/ q = n)
      BY <1>1
    <3>3. v.buf[q] = IF q < n /\ buf[q] = NL THEN NUL ELSE buf[q]
      BY <1>4, <3>2
    <3>4. buf[n] = NUL
      BY DEF IsFlat
    <3> HIDE DEF v
    <3>5. QED BY <3>2, <3>3, <3>4, SizeFacts
  <2>3. ASSUME n > 0 PROVE CutAt(v.buf, NUL, v.ptr, n)
    <3>1. CutAt(buf, NL, v.ptr, n)
      BY <1>6, <2>3
    <3>2. /\ Len(v.ptr) \in Nat /\ \A j \in 1 .. Len(v.ptr) : v.ptr[j] \in 0 .. n
          /\ \A j \in 2 .. Len(v.ptr) : v.ptr[j] > 0
      BY <1>1, <3>1, CutBounds
    <3>3. \A j \in 2 .. Len(v.ptr) : v.buf[v.ptr[j] - 1] = NUL
      <4>1. TAKE j \in 2 .. Len(v.ptr)
      <4> DEFINE q == v.ptr[j] - 1
      <4>2. q \in 0 .. n - 1
        <5>1. j \in 1 .. Len(v.ptr)
          BY <3>2
        <5>2. v.ptr[j] \in 0 .. n /\ v.ptr[j] > 0
          BY <3>2, <5>1
        <5>3. QED BY <1>1, <5>2
      <4>3. buf[q] = NL
        BY <3>1 DEF CutAt
      <4> HIDE DEF q
      <4>4. q \in Offsets /\ q < n
        BY <1>1, <4>2
      <4>5. v.buf[q] = NUL
        BY <1>4, <4>3, <4>4
      <4>6. QED BY <4>5 DEF q
    <3>4. \A q \in 0 .. n - 1 : v.buf[q] = NUL => buf[q] = NL
      <4>1. TAKE q \in 0 .. n - 1
      <4>2. q \in Offsets /\ q < n /\ buf[q] # NUL
        BY <1>1 DEF IsFlat
      <4>3. QED BY <1>4, <4>2
    <3>5. QED BY <3>1, <3>3, <3>4 DEF CutAt
  <2>4. n = 0 \/ n > 0
    BY <1>1
  <2>5. IF v.ptr = <<>> THEN n = 0 ELSE CutAt(v.buf, NUL, v.ptr, n)
    BY <1>7, <1>9, <2>3, <2>4
  <2>6. QED BY <1>1, <2>1, <2>2, <2>5 DEF Delimited
<1>12. QED BY <1>4, <1>6, <1>7, <1>9, <1>10, <1>11 DEF v

\* paragraphs2content on a text split.
LEMMA JoinBytes ==
    ASSUME NEW v \in Views, NEW n, Delimited(v, n)
    PROVE  LET flat == paragraphs2content(v)
           IN  /\ flat \in [Offsets -> Bytes] /\ IsFlat(flat, n)
               /\ \A q \in Offsets :
                     flat[q] = IF q < n /\ v.buf[q] = NUL THEN NL ELSE v.buf[q]
               /\ v.ptr # <<>> => CutAt(flat, NL, v.ptr, n)
<1> DEFINE flat == paragraphs2content(v)
           Joins(i) == \E j \in 2 .. Len(v.ptr) : i = v.ptr[j] - 1
<1>1. n \in Offsets /\ n \in Nat /\ n <= Size - 1 /\ 0 .. n \subseteq Offsets /\ v.buf[n] = NUL
  BY SizeFacts DEF Delimited, Offsets
<1>2. flat = [i \in Offsets |-> IF Joins(i) THEN NL ELSE v.buf[i]]
  BY DEF paragraphs2content
<1>3. \A q \in Offsets : Joins(q) <=> q < n /\ v.buf[q] = NUL
  <2>1. CASE v.ptr = <<>>
    <3>1. Len(v.ptr) = 0 /\ n = 0
      BY <2>1 DEF Delimited
    <3>2. \A q \in Offsets : ~ Joins(q) /\ ~ (q < n)
      BY <3>1 DEF Offsets
    <3>3. QED BY <3>2
  <2>2. CASE v.ptr # <<>>
    <3>1. CutAt(v.buf, NUL, v.ptr, n)
      BY <2>2 DEF Delimited
    <3>2. /\ Len(v.ptr) \in Nat /\ \A j \in 1 .. Len(v.ptr) : v.ptr[j] \in 0 .. n
          /\ \A j \in 2 .. Len(v.ptr) : v.ptr[j] > 0
      BY <1>1, <3>1, CutBounds
    <3>3. ASSUME NEW q \in Offsets, Joins(q) PROVE q < n /\ v.buf[q] = NUL
      <4>1. PICK j \in 2 .. Len(v.ptr) : q = v.ptr[j] - 1
        BY <3>3
      <4>2. j \in 1 .. Len(v.ptr)
        BY <3>2
      <4>3. v.buf[q] = NUL
        BY <3>1, <4>1 DEF CutAt
      <4>4. q < n
        BY <3>2, <4>1, <4>2, <1>1
      <4>5. QED BY <4>3, <4>4
    <3>4. ASSUME NEW q \in Offsets, q < n, v.buf[q] = NUL PROVE Joins(q)
      <4>1. q \in 0 .. n - 1 /\ q \in Nat
        BY <1>1, <3>4 DEF Offsets
      <4>2. PICK j \in 2 .. Len(v.ptr) : v.ptr[j] = q + 1
        BY <3>1, <3>4, <4>1 DEF CutAt
      <4>3. q = v.ptr[j] - 1
        BY <4>1, <4>2
      <4>4. QED BY <4>3
    <3> HIDE DEF Joins
    <3>5. QED BY <3>3, <3>4
  <2>3. QED BY <2>1, <2>2
<1> HIDE DEF Joins
<1>4. \A q \in Offsets : flat[q] = IF q < n /\ v.buf[q] = NUL THEN NL ELSE v.buf[q]
  BY <1>2, <1>3
<1>5. flat \in [Offsets -> Bytes]
  <2>1. v.buf \in [Offsets -> Bytes]
    BY DEF Views
  <2>2. \A i \in Offsets : (IF Joins(i) THEN NL ELSE v.buf[i]) \in Bytes
    BY <2>1, SizeFacts
  <2>3. QED BY <1>2, <2>2
<1> HIDE DEF flat
<1>6. flat[n] = NUL
  BY <1>1, <1>4
<1>7. \A q \in 0 .. n - 1 : q \in Offsets /\ q < n
  BY <1>1
<1>8. \A q \in 0 .. n - 1 : flat[q] # NUL
  <2>1. TAKE q \in 0 .. n - 1
  <2>2. flat[q] = IF v.buf[q] = NUL THEN NL ELSE v.buf[q]
    BY <1>4, <1>7
  <2>3. QED BY <2>2, SizeFacts
<1>9. IsFlat(flat, n)
  BY <1>1, <1>6, <1>8 DEF IsFlat
<1>10. ASSUME v.ptr # <<>> PROVE CutAt(flat, NL, v.ptr, n)
  <2>1. CutAt(v.buf, NUL, v.ptr, n)
    BY <1>10 DEF Delimited
  <2>2. /\ Len(v.ptr) \in Nat /\ \A j \in 1 .. Len(v.ptr) : v.ptr[j] \in 0 .. n
        /\ \A j \in 2 .. Len(v.ptr) : v.ptr[j] > 0
    BY <1>1, <2>1, CutBounds
  <2>3. \A j \in 2 .. Len(v.ptr) : flat[v.ptr[j] - 1] = NL
    <3>1. TAKE j \in 2 .. Len(v.ptr)
    <3> DEFINE q == v.ptr[j] - 1
    <3>2. j \in 1 .. Len(v.ptr)
      BY <2>2
    <3>3. q \in 0 .. n - 1
      BY <1>1, <2>2, <3>2
    <3>4. v.buf[q] = NUL
      BY <2>1 DEF CutAt
    <3> HIDE DEF q
    <3>5. flat[q] = NL
      BY <1>4, <1>7, <3>3, <3>4
    <3>6. QED BY <3>5 DEF q
  <2>4. \A q \in 0 .. n - 1 : flat[q] = NL => v.buf[q] = NUL
    <3>1. TAKE q \in 0 .. n - 1
    <3>2. v.buf[q] # NL
      <4>1. q \in 0 .. n
        BY <1>1
      <4>2. QED BY <4>1 DEF Delimited
    <3>3. QED BY <1>4, <1>7, <3>2
  <2>5. QED BY <2>1, <2>3, <2>4 DEF CutAt
<1>11. QED BY <1>4, <1>5, <1>9, <1>10 DEF flat

\* A text joined and split again is the same, or has no paragraph left when it
\* had one of no character.
LEMMA JoinSplit ==
    ASSUME NEW v \in Views, NEW n, Delimited(v, n)
    PROVE  content2paragraphs(paragraphs2content(v)) =
               IF n = 0 THEN [buf |-> v.buf, ptr |-> <<>>] ELSE v
<1> DEFINE flat == paragraphs2content(v)
           w == content2paragraphs(flat)
<1>1. n \in Nat
  BY SizeFacts DEF Delimited, Offsets
<1>2. /\ flat \in [Offsets -> Bytes] /\ IsFlat(flat, n)
      /\ \A q \in Offsets : flat[q] = IF q < n /\ v.buf[q] = NUL THEN NL ELSE v.buf[q]
      /\ v.ptr # <<>> => CutAt(flat, NL, v.ptr, n)
  BY JoinBytes
<1>3. /\ w \in Views
      /\ \A q \in Offsets : w.buf[q] = IF q < n /\ flat[q] = NL THEN NUL ELSE flat[q]
      /\ n = 0 => w.ptr = <<>>
      /\ n > 0 => w.ptr # <<>> /\ CutAt(flat, NL, w.ptr, n)
  <2> HIDE DEF flat
  <2>1. QED BY <1>2, SplitBytes
<1> HIDE DEF w, flat
<1>4. \A q \in Offsets : w.buf[q] = v.buf[q]
  <2>1. TAKE q \in Offsets
  <2>2. q < n => v.buf[q] # NL
    <3>1. HAVE q < n
    <3>2. q \in 0 .. n
      BY <1>1, <3>1 DEF Offsets
    <3>3. QED BY <3>2 DEF Delimited
  <2>3. flat[q] = IF q < n /\ v.buf[q] = NUL THEN NL ELSE v.buf[q]
    BY <1>2
  <2>4. w.buf[q] = IF q < n /\ flat[q] = NL THEN NUL ELSE flat[q]
    BY <1>3
  <2>5. QED BY <2>2, <2>3, <2>4, SizeFacts
<1>5. w.buf = v.buf
  BY <1>3, <1>4 DEF Views
<1>6. w = [buf |-> w.buf, ptr |-> w.ptr] /\ v = [buf |-> v.buf, ptr |-> v.ptr]
  BY <1>3 DEF Views
<1>7. CASE n = 0
  BY <1>3, <1>5, <1>6, <1>7 DEF w, flat
<1>8. CASE n > 0
  <2>1. v.ptr # <<>>
    BY <1>8 DEF Delimited
  <2>2. w.ptr = v.ptr
    BY <1>1, <1>2, <1>3, <1>8, <2>1, CutUnique
  <2>3. w = v
    BY <1>5, <1>6, <2>2
  <2>4. QED BY <1>8, <2>3 DEF w, flat
<1>9. QED BY <1>1, <1>7, <1>8

-----------------------------------------------------------------------------
(* The paragraphs of a text split.                                         *)

\* Where the j-th paragraph ends.
EndAt(v, n, j) == IF j < Len(v.ptr) THEN v.ptr[j + 1] - 1 ELSE n

LEMMA ParagraphEnd ==
    ASSUME NEW v \in Views, NEW n, Delimited(v, n), NEW j \in 1 .. Len(v.ptr)
    PROVE  /\ v.ptr[j] \in Offsets /\ EndAt(v, n, j) \in v.ptr[j] .. n
           /\ StrLen(v.buf, v.ptr[j]) = EndAt(v, n, j) - v.ptr[j]
           /\ EndOf(v.buf, v.ptr[j]) = EndAt(v, n, j) + 1
           /\ \A q \in v.ptr[j] .. EndAt(v, n, j) - 1 : v.buf[q] \notin {NUL, NL}
<1> DEFINE e == EndAt(v, n, j)
           p == v.ptr[j]
<1>1. n \in Nat /\ n <= Size - 1 /\ Size \in Nat /\ v.buf[n] = NUL
  BY SizeFacts DEF Delimited, Offsets
<1>2. v.ptr # <<>> /\ Len(v.ptr) \in Nat
  BY DEF Views
<1>3. CutAt(v.buf, NUL, v.ptr, n)
  BY <1>2 DEF Delimited
<1>4. \A i \in 1 .. Len(v.ptr) : v.ptr[i] \in 0 .. n
  BY <1>1, <1>3, CutBounds
<1>5. p \in 0 .. n
  BY <1>4
<1>6. e \in p .. n /\ v.buf[e] = NUL
  <2>1. CASE j < Len(v.ptr)
    <3>1. j + 1 \in 1 .. Len(v.ptr) /\ j + 1 \in 2 .. Len(v.ptr)
      BY <1>2, <2>1
    <3>2. v.ptr[j] < v.ptr[j + 1] /\ v.buf[v.ptr[j + 1] - 1] = NUL
      BY <1>3, <3>1 DEF CutAt
    <3>3. e = v.ptr[j + 1] - 1
      BY <2>1 DEF EndAt
    <3>4. v.ptr[j + 1] \in 0 .. n
      BY <1>4, <3>1
    <3> HIDE DEF e
    <3>5. e \in p .. n
      BY <1>1, <1>5, <3>2, <3>3, <3>4
    <3>6. QED BY <3>2, <3>3, <3>5
  <2>2. CASE ~ (j < Len(v.ptr))
    <3>1. e = n
      BY <2>2 DEF EndAt
    <3> HIDE DEF e
    <3>2. QED BY <1>1, <1>5, <3>1
  <2>3. QED BY <2>1, <2>2
<1>7. \A q \in p .. e - 1 : v.buf[q] # NUL
  <2>1. SUFFICES ASSUME NEW q \in p .. e - 1, v.buf[q] = NUL PROVE FALSE
    OBVIOUS
  <2> HIDE DEF p, e
  <2>2. q \in 0 .. n - 1 /\ q \in Nat /\ p <= q /\ q < e
    BY <1>1, <1>5, <1>6
  <2>3. PICK i \in 2 .. Len(v.ptr) : v.ptr[i] = q + 1
    BY <1>3, <2>1, <2>2 DEF CutAt
  <2>4. i \in 1 .. Len(v.ptr)
    BY <1>2
  <2>5. i > j
    <3>1. CASE i < j
      <4>1. v.ptr[i] < p
        BY <1>3, <2>4, <3>1 DEF CutAt, p
      <4>2. QED BY <4>1, <2>2, <2>3, <1>5
    <3>2. CASE i = j
      BY <3>2, <2>2, <2>3, <1>5 DEF p
    <3>3. QED BY <3>1, <3>2, <2>4
  <2>6. j < Len(v.ptr) /\ j + 1 \in 1 .. Len(v.ptr)
    BY <1>2, <2>4, <2>5
  <2>7. e = v.ptr[j + 1] - 1 /\ v.ptr[j + 1] \in Nat
    BY <1>4, <2>6 DEF e, EndAt
  <2>8. v.ptr[j + 1] <= v.ptr[i]
    <3>1. CASE j + 1 < i
      <4>1. v.ptr[j + 1] < v.ptr[i]
        BY <1>3, <2>4, <2>6, <3>1 DEF CutAt
      <4>2. QED BY <4>1, <2>2, <2>3, <2>7
    <3>2. CASE j + 1 = i
      BY <3>2, <2>7
    <3>3. QED BY <3>1, <3>2, <2>5
  <2>9. QED BY <2>2, <2>3, <2>7, <2>8
<1>8. \A q \in p .. e - 1 : v.buf[q] # NL
  <2>1. TAKE q \in p .. e - 1
  <2> HIDE DEF p, e
  <2>2. q \in 0 .. n
    BY <1>1, <1>5, <1>6
  <2>3. QED BY <2>2 DEF Delimited
<1> HIDE DEF p, e
<1>9. p \in Offsets /\ p \in Nat /\ e \in Nat
  BY <1>1, <1>5, <1>6 DEF Offsets
<1>10. StrLen(v.buf, p) = e - p
  <2> DEFINE d == e - p
  <2>1. d \in 0 .. Size - 1 - p /\ p + d = e
    BY <1>1, <1>6, <1>9
  <2>2. \A i \in 0 .. d - 1 : v.buf[p + i] # NUL
    <3>1. TAKE i \in 0 .. d - 1
    <3>2. p + i \in p .. e - 1
      BY <1>9
    <3>3. QED BY <1>7, <3>2
  <2> HIDE DEF d
  <2>3. StrLen(v.buf, p) = d
    BY <1>6, <1>9, <2>1, <2>2, StrLenIs
  <2>4. QED BY <2>3 DEF d
<1>11. EndOf(v.buf, p) = e + 1
  BY <1>9, <1>10 DEF EndOf
<1>12. QED BY <1>6, <1>7, <1>8, <1>9, <1>10, <1>11 DEF p, e

LEMMA PtrTyped ==
    ASSUME NEW v \in Views
    PROVE  /\ v = [buf |-> v.buf, ptr |-> v.ptr] /\ v.buf \in [Offsets -> Bytes]
           /\ v.ptr \in Seq(Offsets) /\ Len(v.ptr) \in Nat /\ DOMAIN v.ptr = 1 .. Len(v.ptr)
           /\ v.ptr = <<>> <=> Len(v.ptr) = 0
BY DEF Views

Docs == Seq(Seq(Bytes))

LEMMA ParagraphsTyped ==
    ASSUME NEW v \in Views, NEW n, Delimited(v, n)
    PROVE  /\ ParagraphsOf(v) \in Docs /\ Len(ParagraphsOf(v)) = Len(v.ptr)
           /\ \A j \in 1 .. Len(v.ptr) :
                 /\ ParagraphsOf(v)[j] = StrAt(v.buf, v.ptr[j])
                 /\ ParagraphsOf(v)[j] \in Seq(Bytes)
                 /\ Len(ParagraphsOf(v)[j]) = EndAt(v, n, j) - v.ptr[j]
                 /\ \A i \in 1 .. EndAt(v, n, j) - v.ptr[j] :
                       ParagraphsOf(v)[j][i] = v.buf[v.ptr[j] + i - 1]
<1> DEFINE d == ParagraphsOf(v)
<1>1. Len(v.ptr) \in Nat /\ DOMAIN v.ptr = 1 .. Len(v.ptr) /\ v.buf \in [Offsets -> Bytes]
  BY PtrTyped
<1>2. d = [j \in 1 .. Len(v.ptr) |-> StrAt(v.buf, v.ptr[j])]
  BY <1>1 DEF ParagraphsOf
<1>3. ASSUME NEW j \in 1 .. Len(v.ptr)
      PROVE  /\ StrAt(v.buf, v.ptr[j]) \in Seq(Bytes)
             /\ Len(StrAt(v.buf, v.ptr[j])) = EndAt(v, n, j) - v.ptr[j]
             /\ \A i \in 1 .. EndAt(v, n, j) - v.ptr[j] :
                   StrAt(v.buf, v.ptr[j])[i] = v.buf[v.ptr[j] + i - 1]
  <2> DEFINE p == v.ptr[j]
             k == EndAt(v, n, j) - v.ptr[j]
  <2>1. p \in Nat /\ k \in Nat /\ p + k <= Size - 1 /\ StrLen(v.buf, p) = k
    <3>1. n \in Nat /\ n <= Size - 1 /\ Size \in Nat
      BY SizeFacts DEF Delimited, Offsets
    <3>2. /\ v.ptr[j] \in Offsets /\ EndAt(v, n, j) \in v.ptr[j] .. n
          /\ StrLen(v.buf, v.ptr[j]) = EndAt(v, n, j) - v.ptr[j]
      BY ParagraphEnd
    <3>3. QED BY <3>1, <3>2 DEF Offsets
  <2> HIDE DEF p, k
  <2>2. StrAt(v.buf, p) = [i \in 1 .. k |-> v.buf[p + i - 1]]
    BY <2>1 DEF StrAt
  <2>3. \A i \in 1 .. k : v.buf[p + i - 1] \in Bytes
    <3>1. TAKE i \in 1 .. k
    <3>2. p + i - 1 \in Offsets
      BY <2>1, SizeFacts DEF Offsets
    <3>3. QED BY <1>1, <3>2
  <2>4. StrAt(v.buf, p) \in Seq(Bytes) /\ Len(StrAt(v.buf, p)) = k
    BY <2>1, <2>2, <2>3
  <2>5. \A i \in 1 .. k : StrAt(v.buf, p)[i] = v.buf[p + i - 1]
    BY <2>2
  <2>6. QED BY <2>4, <2>5 DEF p, k
<1>4. d \in Seq(Seq(Bytes)) /\ Len(d) = Len(v.ptr)
  <2> DEFINE S == Seq(Bytes)
  <2>1. \A j \in 1 .. Len(v.ptr) : StrAt(v.buf, v.ptr[j]) \in S
    BY <1>3
  <2> HIDE DEF S, d
  <2>2. d \in Seq(S) /\ Len(d) = Len(v.ptr)
    BY <1>1, <1>2, <2>1
  <2>3. QED BY <2>2 DEF S
<1>5. \A j \in 1 .. Len(v.ptr) : d[j] = StrAt(v.buf, v.ptr[j])
  BY <1>2
<1> HIDE DEF d
<1>6. \A j \in 1 .. Len(v.ptr) :
        /\ d[j] = StrAt(v.buf, v.ptr[j])
        /\ d[j] \in Seq(Bytes)
        /\ Len(d[j]) = EndAt(v, n, j) - v.ptr[j]
        /\ \A i \in 1 .. EndAt(v, n, j) - v.ptr[j] : d[j][i] = v.buf[v.ptr[j] + i - 1]
  <2>1. TAKE j \in 1 .. Len(v.ptr)
  <2>2. QED BY <1>3, <1>5
<1>7. QED BY <1>4, <1>6 DEF d, Docs

\* Two texts with a line break between.
LEMMA Joined ==
    ASSUME NEW S, NEW a \in Seq(S), NEW c \in Seq(S), NEW x \in S
    PROVE  /\ a \o <<x>> \o c \in Seq(S)
           /\ Len(a \o <<x>> \o c) = Len(a) + 1 + Len(c)
           /\ \A i \in 1 .. Len(a) + 1 + Len(c) :
                 (a \o <<x>> \o c)[i] = IF i <= Len(a) THEN a[i]
                                        ELSE IF i = Len(a) + 1 THEN x ELSE c[i - Len(a) - 1]
<1> DEFINE b == a \o <<x>>
<1>1. <<x>> \in Seq(S) /\ Len(<<x>>) = 1 /\ <<x>>[1] = x
  OBVIOUS
<1>2. Len(a) \in Nat /\ Len(c) \in Nat
  OBVIOUS
<1>3. /\ b \in Seq(S) /\ Len(b) = Len(a) + 1
      /\ \A i \in 1 .. Len(a) + 1 : b[i] = IF i <= Len(a) THEN a[i] ELSE x
  <2> DEFINE y == <<x>>
  <2>1. y \in Seq(S) /\ Len(y) = 1 /\ y[1] = x
    BY <1>1
  <2> HIDE DEF y
  <2>2. /\ a \o y \in Seq(S) /\ Len(a \o y) = Len(a) + Len(y)
        /\ \A i \in 1 .. Len(a) + Len(y) :
              (a \o y)[i] = IF i <= Len(a) THEN a[i] ELSE y[i - Len(a)]
    BY <2>1, ConcatProperties
  <2>4. \A i \in 1 .. Len(a) + 1 : i <= Len(a) \/ i - Len(a) = 1
    BY <1>2
  <2>5. b = a \o y
    BY DEF y
  <2> HIDE DEF b
  <2>6. \A i \in 1 .. Len(a) + 1 : b[i] = IF i <= Len(a) THEN a[i] ELSE x
    BY <2>1, <2>2, <2>4, <2>5
  <2>7. QED BY <2>1, <2>2, <2>5, <2>6
<1> HIDE DEF b
<1>4. /\ b \o c \in Seq(S) /\ Len(b \o c) = Len(b) + Len(c)
      /\ \A i \in 1 .. Len(b) + Len(c) : (b \o c)[i] = IF i <= Len(b) THEN b[i] ELSE c[i - Len(b)]
  BY <1>3, ConcatProperties
<1> DEFINE r == b \o c
<1>5. /\ r \in Seq(S) /\ Len(r) = Len(b) + Len(c)
      /\ \A i \in 1 .. Len(b) + Len(c) : r[i] = IF i <= Len(b) THEN b[i] ELSE c[i - Len(b)]
  BY <1>4
<1> HIDE DEF r
<1>6. \A i \in 1 .. Len(a) + 1 + Len(c) :
        r[i] = IF i <= Len(a) THEN a[i]
                      ELSE IF i = Len(a) + 1 THEN x ELSE c[i - Len(a) - 1]
  <2>1. TAKE i \in 1 .. Len(a) + 1 + Len(c)
  <2>2. CASE i <= Len(a) + 1
    <3>1. i \in 1 .. Len(b) + Len(c) /\ i <= Len(b) /\ i \in 1 .. Len(a) + 1
      BY <1>2, <1>3, <2>2
    <3>2. r[i] = b[i] /\ b[i] = IF i <= Len(a) THEN a[i] ELSE x
      BY <1>3, <1>5, <3>1
    <3>3. ~ (i <= Len(a)) => i = Len(a) + 1
      BY <1>2, <2>2
    <3>4. QED BY <3>2, <3>3
  <2>3. CASE i > Len(a) + 1
    <3>1. r[i] = c[i - Len(b)] /\ i - Len(b) = i - Len(a) - 1
      <4>1. i \in 1 .. Len(b) + Len(c) /\ ~ (i <= Len(b)) /\ i - Len(b) = i - Len(a) - 1
        BY <1>2, <1>3, <2>3
      <4>2. r[i] = IF i <= Len(b) THEN b[i] ELSE c[i - Len(b)]
        BY <1>5, <4>1
      <4>3. QED BY <4>1, <4>2
    <3>2. QED BY <3>1, <2>3, <1>2
  <2>4. QED BY <1>2, <2>2, <2>3
<1>7. QED BY <1>2, <1>3, <1>5, <1>6 DEF b, r

-----------------------------------------------------------------------------
(* The string of a sequence of paragraphs.                                 *)

\* The loop that joins them, up to each paragraph.
FlatStep(f, d, m) ==
    IF m = 0 THEN <<>> ELSE IF m = 1 THEN d[1] ELSE f[m - 1] \o <<NL>> \o d[m]

Flattens(f, d) == \A m \in 0 .. Len(d) : f[m] = FlatStep(f, d, m)

LEMMA FlatExists ==
    ASSUME NEW d \in Docs
    PROVE  \E f \in [0 .. Len(d) -> Seq(Bytes)] : Flattens(f, d)
<1> DEFINE V == Seq(Bytes)
           Text(m) == IF m \in 1 .. Len(d) THEN d[m] ELSE <<>>
           h == [m \in Nat |-> [v \in V |-> IF m = 1 THEN Text(m) ELSE v \o <<NL>> \o Text(m)]]
           k == Len(d)
<1>1. k \in Nat /\ <<>> \in V /\ NL \in Bytes /\ \A m \in 1 .. k : d[m] \in V
  BY SizeFacts DEF Docs
<1>2. \A m \in Nat : Text(m) \in V
  <2> HIDE DEF V, k
  <2>1. QED BY <1>1 DEF k
<1>3. \A m \in Nat, v \in V : (IF m = 1 THEN Text(m) ELSE v \o <<NL>> \o Text(m)) \in V
  <2>1. TAKE m \in Nat, v \in V
  <2>2. Text(m) \in Seq(Bytes) /\ v \in Seq(Bytes)
    BY <1>2
  <2> HIDE DEF Text
  <2>3. v \o <<NL>> \o Text(m) \in V
    BY <1>1, <2>2, Joined
  <2> HIDE DEF V
  <2>4. QED BY <1>2, <2>3 DEF V
<1>4. h \in [Nat -> [V -> V]]
  <2> HIDE DEF V, Text
  <2>1. QED BY <1>3
<1>5. PICK f \in [0 .. k -> V] : Stepping(f, <<>>, h, 0, k)
  <2>1. 0 \in Nat /\ 0 <= k
    BY <1>1
  <2> HIDE DEF h, V, k
  <2>2. QED BY <1>1, <1>4, <2>1, StepsFunction
<1>6. ASSUME NEW m \in 0 .. k PROVE f[m] = FlatStep(f, d, m)
  <2>1. CASE m = 0
    BY <1>5, <2>1 DEF Stepping, FlatStep
  <2>2. CASE m # 0
    <3>1. m \in Nat /\ m \in 0 + 1 .. k /\ m - 1 \in 0 .. k
      BY <1>1, <2>2
    <3>2. f[m] = h[m][f[m - 1]] /\ f[m - 1] \in V
      <4> HIDE DEF h, V
      <4>1. QED BY <1>5, <3>1 DEF Stepping
    <3>3. Text(m) = d[m]
      BY <3>1
    <3>4. h[m][f[m - 1]] = IF m = 1 THEN Text(m) ELSE f[m - 1] \o <<NL>> \o Text(m)
      <4> HIDE DEF V, Text
      <4>1. QED BY <3>1, <3>2
    <3> HIDE DEF h, V, Text
    <3>5. QED BY <3>2, <3>3, <3>4, <2>2 DEF FlatStep
  <2>3. QED BY <2>1, <2>2
<1>7. QED BY <1>5, <1>6 DEF Flattens

LEMMA FlatAgree ==
    ASSUME NEW d \in Docs, NEW e \in Docs, NEW f, NEW g, NEW n \in 0 .. Len(d), n <= Len(e),
           Flattens(f, d), Flattens(g, e), \A m \in 1 .. n : d[m] = e[m]
    PROVE  f[n] = g[n]
<1>1. Len(d) \in Nat /\ Len(e) \in Nat /\ n \in Nat
  BY DEF Docs
<1> DEFINE T == {m \in Nat : m <= n => f[m] = g[m]}
<1>2. 0 \in T
  <2>1. 0 \in 0 .. Len(d) /\ 0 \in 0 .. Len(e)
    BY <1>1
  <2>2. f[0] = <<>> /\ g[0] = <<>>
    BY <2>1 DEF Flattens, FlatStep
  <2>3. QED BY <2>2
<1>3. ASSUME NEW m \in Nat, m \in T PROVE m + 1 \in T
  <2>1. SUFFICES ASSUME m + 1 <= n PROVE f[m + 1] = g[m + 1]
    OBVIOUS
  <2>2. f[m] = g[m] /\ m + 1 \in 0 .. Len(d) /\ m + 1 \in 0 .. Len(e) /\ d[m + 1] = e[m + 1]
    BY <1>1, <1>3, <2>1
  <2>3. f[m + 1] = FlatStep(f, d, m + 1) /\ g[m + 1] = FlatStep(g, e, m + 1)
    BY <2>2 DEF Flattens
  <2>4. m + 1 = 1 => d[1] = e[1]
    BY <2>2
  <2>5. (m + 1) - 1 = m /\ m + 1 # 0
    OBVIOUS
  <2>6. FlatStep(f, d, m + 1) = FlatStep(g, e, m + 1)
    BY <2>2, <2>4, <2>5, Zenon DEF FlatStep
  <2>7. QED BY <2>3, <2>6
<1>4. \A m \in Nat : m >= 0 => m \in T
  <2>1. 0 \in Nat
    OBVIOUS
  <2> HIDE DEF T
  <2>2. QED BY <1>2, <1>3, <2>1, SetInduction
<1>5. n \in T
  <2> HIDE DEF T
  <2>1. QED BY <1>1, <1>4
<1>6. QED BY <1>1, <1>5

LEMMA FlatIs ==
    ASSUME NEW d \in Docs, NEW f, Flattens(f, d)
    PROVE  FlatString(d) = f[Len(d)]
<1> DEFINE F == CHOOSE g : g = [m \in 0 .. Len(d) |-> FlatStep(g, d, m)]
<1>1. Len(d) \in Nat /\ Len(d) \in 0 .. Len(d)
  BY DEF Docs
<1>2. PICK g \in [0 .. Len(d) -> Seq(Bytes)] : Flattens(g, d)
  BY FlatExists
<1>3. g = [m \in 0 .. Len(d) |-> FlatStep(g, d, m)]
  BY <1>2 DEF Flattens
<1>4. F = [m \in 0 .. Len(d) |-> FlatStep(F, d, m)]
  BY <1>3
<1>5. FlatString(d) = F[Len(d)]
  BY DEF FlatString, FlatStep
<1> HIDE DEF F
<1>6. Flattens(F, d)
  BY <1>4 DEF Flattens
<1>7. F[Len(d)] = f[Len(d)]
  <2>1. Len(d) <= Len(d)
    BY <1>1
  <2>2. QED BY <1>1, <1>6, <2>1, FlatAgree
<1>8. QED BY <1>5, <1>7

\* The length of the string, once a paragraph was added and once one was replaced.
LEMMA FlatAppend ==
    ASSUME NEW d \in Docs, NEW t \in Seq(Bytes)
    PROVE  /\ Append(d, t) \in Docs /\ FlatString(d) \in Seq(Bytes)
           /\ Len(FlatString(Append(d, t))) =
                  IF d = <<>> THEN Len(t) ELSE Len(FlatString(d)) + 1 + Len(t)
<1> DEFINE e == Append(d, t)
           k == Len(d)
<1>1. k \in Nat /\ e \in Docs /\ Len(e) = k + 1 /\ e[k + 1] = t /\ \A m \in 1 .. k : e[m] = d[m]
  BY DEF Docs
<1> HIDE DEF e
<1>2. PICK f \in [0 .. Len(d) -> Seq(Bytes)] : Flattens(f, d)
  BY FlatExists
<1>3. PICK g \in [0 .. Len(e) -> Seq(Bytes)] : Flattens(g, e)
  BY <1>1, FlatExists
<1>4. FlatString(d) = f[k] /\ FlatString(e) = g[k + 1]
  BY <1>1, <1>2, <1>3, FlatIs
<1>5. f[k] = g[k] /\ f[k] \in Seq(Bytes)
  <2>1. k \in 0 .. Len(d) /\ k <= Len(e)
    BY <1>1
  <2> HIDE DEF k
  <2>2. f[k] \in Seq(Bytes)
    BY <1>2, <2>1
  <2>3. \A m \in 1 .. k : d[m] = e[m]
    BY <1>1
  <2>4. e \in Docs /\ Flattens(f, d) /\ Flattens(g, e)
    BY <1>1, <1>2, <1>3
  <2>5. f[k] = g[k]
    BY <2>1, <2>3, <2>4, FlatAgree
  <2>6. QED BY <2>2, <2>5
<1>6. g[k + 1] = IF k = 0 THEN t ELSE g[k] \o <<NL>> \o t
  <2>1. k + 1 \in 0 .. Len(e) /\ k + 1 # 0 /\ (k + 1 = 1 <=> k = 0) /\ (k + 1) - 1 = k
    BY <1>1
  <2>2. g[k + 1] = FlatStep(g, e, k + 1)
    BY <1>3, <2>1 DEF Flattens
  <2>3. k = 0 => e[1] = t
    BY <1>1
  <2> HIDE DEF k
  <2>4. QED BY <1>1, <2>1, <2>2, <2>3, Zenon DEF FlatStep
<1>7. d = <<>> <=> k = 0
  BY DEF Docs
<1>8. Len(g[k + 1]) = IF k = 0 THEN Len(t) ELSE Len(g[k]) + 1 + Len(t)
  <2>1. CASE k = 0
    BY <1>6, <2>1
  <2>2. CASE k # 0
    <3>1. g[k + 1] = g[k] \o <<NL>> \o t /\ g[k] \in Seq(Bytes)
      BY <1>5, <1>6, <2>2
    <3>2. Len(g[k] \o <<NL>> \o t) = Len(g[k]) + 1 + Len(t)
      BY <3>1, SizeFacts, Joined
    <3>3. QED BY <2>2, <3>1, <3>2
  <2>3. QED BY <2>1, <2>2
<1>9. QED BY <1>1, <1>4, <1>5, <1>7, <1>8 DEF e

LEMMA FlatReplace ==
    ASSUME NEW d \in Docs, NEW j \in 1 .. Len(d), NEW t \in Seq(Bytes)
    PROVE  /\ [d EXCEPT ![j] = t] \in Docs
           /\ Len(FlatString([d EXCEPT ![j] = t])) =
                  Len(FlatString(d)) - Len(d[j]) + Len(t)
<1> DEFINE e == [d EXCEPT ![j] = t]
           k == Len(d)
<1>1. /\ k \in Nat /\ e \in Docs /\ Len(e) = k
      /\ \A m \in 1 .. k : e[m] = IF m = j THEN t ELSE d[m]
      /\ \A m \in 1 .. k : d[m] \in Seq(Bytes)
  <2> DEFINE S == Seq(Bytes)
  <2>1. d \in Seq(S) /\ t \in S
    BY DEF Docs
  <2> HIDE DEF S
  <2>2. /\ k \in Nat /\ e \in Seq(S) /\ Len(e) = k
        /\ \A m \in 1 .. k : e[m] = IF m = j THEN t ELSE d[m]
        /\ \A m \in 1 .. k : d[m] \in S
    BY <2>1
  <2>3. QED BY <2>2 DEF S, Docs
<1> HIDE DEF e
<1>2. PICK f \in [0 .. Len(d) -> Seq(Bytes)] : Flattens(f, d)
  BY FlatExists
<1>3. PICK g \in [0 .. Len(e) -> Seq(Bytes)] : Flattens(g, e)
  BY <1>1, FlatExists
<1>4. FlatString(d) = f[k] /\ FlatString(e) = g[k]
  BY <1>1, <1>2, <1>3, FlatIs
<1> DEFINE Grown(m) == Len(g[m]) = Len(f[m]) + (IF m >= j THEN Len(t) - Len(d[j]) ELSE 0)
           T == {m \in Nat : m <= k => Grown(m)}
<1>5. /\ j \in Nat \ {0} /\ Len(t) \in Nat /\ Len(d[j]) \in Nat
      /\ \A m \in 0 .. k : f[m] \in Seq(Bytes) /\ g[m] \in Seq(Bytes)
                           /\ Len(f[m]) \in Nat /\ Len(g[m]) \in Nat
  <2>1. \A m \in 0 .. k : f[m] \in Seq(Bytes) /\ g[m] \in Seq(Bytes)
    BY <1>1, <1>2, <1>3
  <2>2. d[j] \in Seq(Bytes)
    BY <1>1
  <2>3. \A s \in Seq(Bytes) : Len(s) \in Nat
    OBVIOUS
  <2>4. QED BY <1>1, <2>1, <2>2, <2>3
<1>6. 0 \in T
  <2>1. 0 \in 0 .. k /\ 0 \in 0 .. Len(e) /\ ~ (0 >= j)
    BY <1>1, <1>5
  <2>2. f[0] = <<>> /\ g[0] = <<>>
    BY <1>2, <1>3, <2>1 DEF Flattens, FlatStep
  <2>3. Len(g[0]) = Len(f[0]) + 0
    BY <2>2
  <2>4. QED BY <2>1, <2>3
<1>7. ASSUME NEW m \in Nat, m \in T PROVE m + 1 \in T
  <2>1. SUFFICES ASSUME m + 1 <= k PROVE Grown(m + 1)
    OBVIOUS
  <2> HIDE DEF Grown
  <2>2. /\ Grown(m) /\ m + 1 \in 1 .. k /\ m + 1 \in 0 .. Len(d) /\ m + 1 \in 0 .. Len(e)
        /\ m \in 0 .. k
    <3>1. m <= k
      BY <1>1, <2>1
    <3>2. Grown(m)
      BY <1>7, <3>1
    <3>3. QED BY <1>1, <2>1, <3>1, <3>2
  <2> HIDE DEF T, k
  <2>3. f[m + 1] = FlatStep(f, d, m + 1) /\ g[m + 1] = FlatStep(g, e, m + 1)
    BY <1>2, <1>3, <2>2 DEF Flattens
  <2>4. d[m + 1] \in Seq(Bytes) /\ e[m + 1] \in Seq(Bytes)
    BY <1>1, <2>2
  <2>5. Len(e[m + 1]) = IF m + 1 = j THEN Len(t) ELSE Len(d[m + 1])
    BY <1>1, <2>2
  <2>6. Len(d[m + 1]) \in Nat /\ Len(e[m + 1]) \in Nat
    BY <2>4
  <2>7. CASE m = 0
    <3>1. m + 1 = 1
      BY <2>7
    <3>2. f[m + 1] = d[m + 1] /\ g[m + 1] = e[m + 1]
      BY <2>3, <3>1 DEF FlatStep
    <3>3. m + 1 >= j <=> m + 1 = j
      BY <1>5, <3>1
    <3>4. m + 1 = j => Len(d[m + 1]) = Len(d[j])
      OBVIOUS
    <3>5. Len(g[m + 1]) = IF m + 1 = j THEN Len(t) ELSE Len(f[m + 1])
      BY <2>5, <3>2
    <3> DEFINE lf == Len(f[m + 1])
               lt == Len(t)
               lj == Len(d[j])
    <3>6. lf \in Nat /\ lt \in Nat /\ lj \in Nat /\ (m + 1 = j => lf = lj)
      BY <1>5, <2>6, <3>2, <3>4
    <3>7. Len(g[m + 1]) = IF m + 1 = j THEN lt ELSE lf
      BY <3>5
    <3> HIDE DEF lf, lt, lj
    <3>8. Len(g[m + 1]) = lf + (IF m + 1 >= j THEN lt - lj ELSE 0)
      BY <3>3, <3>6, <3>7
    <3>9. QED BY <3>8 DEF Grown, lf, lt, lj
  <2>8. CASE m # 0
    <3>1. m + 1 # 0 /\ m + 1 # 1 /\ (m + 1) - 1 = m
      BY <2>8
    <3>2. f[m + 1] = f[m] \o <<NL>> \o d[m + 1] /\ g[m + 1] = g[m] \o <<NL>> \o e[m + 1]
      BY <2>3, <3>1, Zenon DEF FlatStep
    <3>3. /\ Len(f[m] \o <<NL>> \o d[m + 1]) = Len(f[m]) + 1 + Len(d[m + 1])
          /\ Len(g[m] \o <<NL>> \o e[m + 1]) = Len(g[m]) + 1 + Len(e[m + 1])
      BY <1>5, <2>2, <2>4, SizeFacts, Joined
    <3> DEFINE lf == Len(f[m])
               lg == Len(g[m])
               ld == Len(d[m + 1])
               le == Len(e[m + 1])
               lt == Len(t)
               lj == Len(d[j])
    <3>4. Len(f[m + 1]) = lf + 1 + ld /\ Len(g[m + 1]) = lg + 1 + le
      BY <3>2, <3>3
    <3>5. lg = lf + (IF m >= j THEN lt - lj ELSE 0)
      BY <2>2 DEF Grown
    <3>6. le = IF m + 1 = j THEN lt ELSE ld
      BY <2>5
    <3>7. m + 1 = j => ld = lj
      OBVIOUS
    <3>8. lf \in Nat /\ lg \in Nat /\ ld \in Nat /\ le \in Nat /\ lt \in Nat /\ lj \in Nat
      BY <1>5, <2>2, <2>6
    <3> HIDE DEF lf, lg, ld, le, lt, lj
    <3>9. lg + 1 + le = lf + 1 + ld + (IF m + 1 >= j THEN lt - lj ELSE 0)
      BY <1>5, <3>5, <3>6, <3>7, <3>8
    <3>10. Len(g[m + 1]) = Len(f[m + 1]) + (IF m + 1 >= j THEN lt - lj ELSE 0)
      BY <3>4, <3>9
    <3>11. QED BY <3>10 DEF Grown, lt, lj
  <2>9. QED BY <2>7, <2>8
<1>8. \A m \in Nat : m >= 0 => m \in T
  <2>1. 0 \in Nat
    OBVIOUS
  <2> HIDE DEF T
  <2>2. QED BY <1>6, <1>7, <2>1, SetInduction
<1>9. Grown(k)
  <2>1. k \in T
    <3> HIDE DEF T
    <3>1. QED BY <1>1, <1>8
  <2> HIDE DEF Grown
  <2>2. QED BY <1>1, <2>1
<1>10. Len(g[k]) = Len(f[k]) - Len(d[j]) + Len(t)
  <2>1. k >= j /\ k \in 0 .. k
    BY <1>1
  <2>2. Len(g[k]) \in Nat /\ Len(f[k]) \in Nat
    BY <1>5, <2>1
  <2>3. Len(g[k]) = Len(f[k]) + (Len(t) - Len(d[j]))
    BY <1>9, <2>1
  <2>4. QED BY <1>5, <2>2, <2>3
<1>11. QED BY <1>1, <1>4, <1>10 DEF e

LEMMA SameText ==
    ASSUME NEW S, NEW s \in Seq(S), NEW t \in Seq(S), Len(s) = Len(t),
           \A i \in 1 .. Len(s) : s[i] = t[i]
    PROVE  s = t
OBVIOUS

\* The first n bytes of a buffer.
LEMMA FirstBytes ==
    ASSUME NEW buf \in [Offsets -> Bytes], NEW k \in 0 .. Size
    PROVE  /\ [i \in 1 .. k |-> buf[i - 1]] \in Seq(Bytes)
           /\ Len([i \in 1 .. k |-> buf[i - 1]]) = k
<1>1. Size \in Nat /\ k \in Nat
  BY SizeFacts
<1>2. \A i \in 1 .. k : buf[i - 1] \in Bytes
  BY <1>1 DEF Offsets
<1>3. QED BY <1>1, <1>2

\* What is joined is the string of the paragraphs on screen.
LEMMA FlatOfView ==
    ASSUME NEW v \in Views, NEW n, Delimited(v, n)
    PROVE  /\ FlatString(ParagraphsOf(v)) = StrAt(paragraphs2content(v), 0)
           /\ Len(FlatString(ParagraphsOf(v))) = n
<1> DEFINE flat == paragraphs2content(v)
           d == ParagraphsOf(v)
           k == Len(v.ptr)
           Start(m) == [i \in 1 .. EndAt(v, n, m) |-> flat[i - 1]]
           f == [m \in 0 .. k |-> IF m = 0 THEN <<>> ELSE Start(m)]
<1>1. n \in Nat /\ n <= Size - 1 /\ Size \in Nat /\ k \in Nat
  BY SizeFacts, PtrTyped DEF Delimited, Offsets
<1>2. /\ flat \in [Offsets -> Bytes] /\ IsFlat(flat, n)
      /\ \A q \in Offsets : flat[q] = IF q < n /\ v.buf[q] = NUL THEN NL ELSE v.buf[q]
      /\ v.ptr # <<>> => CutAt(flat, NL, v.ptr, n)
  BY JoinBytes
<1>3. /\ d \in Docs /\ Len(d) = k
      /\ \A j \in 1 .. k :
            /\ d[j] \in Seq(Bytes)
            /\ Len(d[j]) = EndAt(v, n, j) - v.ptr[j]
            /\ \A i \in 1 .. EndAt(v, n, j) - v.ptr[j] : d[j][i] = v.buf[v.ptr[j] + i - 1]
  BY ParagraphsTyped
<1>4. \A j \in 1 .. k : v.ptr[j] \in Nat /\ EndAt(v, n, j) \in v.ptr[j] .. n
  <2>1. TAKE j \in 1 .. k
  <2>2. v.ptr[j] \in Offsets /\ EndAt(v, n, j) \in v.ptr[j] .. n
    BY ParagraphEnd
  <2>3. QED BY <2>2 DEF Offsets
<1> HIDE DEF flat, d
<1>5. \A m \in 1 .. k : Start(m) \in Seq(Bytes) /\ Len(Start(m)) = EndAt(v, n, m)
  <2>1. TAKE m \in 1 .. k
  <2>2. EndAt(v, n, m) \in 0 .. Size
    BY <1>1, <1>4
  <2>3. QED BY <1>2, <2>2, FirstBytes
<1>6. ASSUME NEW m \in 1 .. k, NEW i \in 1 .. EndAt(v, n, m) - v.ptr[m]
      PROVE  d[m][i] = flat[v.ptr[m] + i - 1]
  <2> DEFINE q == v.ptr[m] + i - 1
  <2>1. q \in v.ptr[m] .. EndAt(v, n, m) - 1 /\ q \in Offsets
    BY <1>1, <1>4 DEF Offsets
  <2>2. v.buf[q] # NUL
    BY <2>1, ParagraphEnd
  <2>3. d[m][i] = v.buf[q]
    BY <1>3
  <2> HIDE DEF q
  <2>4. flat[q] = v.buf[q]
    BY <1>2, <2>1, <2>2
  <2>5. QED BY <2>3, <2>4 DEF q
<1>7. ASSUME NEW m \in 0 .. k PROVE f[m] = FlatStep(f, d, m)
  <2>1. CASE m = 0
    BY <2>1 DEF FlatStep
  <2>2. CASE m = 1
    <3>1. v.ptr # <<>> /\ 1 \in 1 .. k /\ f[1] = Start(1)
      BY <2>2, PtrTyped
    <3>2. v.ptr[1] = 0
      BY <3>1 DEF Delimited, CutAt
    <3> DEFINE s == Start(1)
               t == d[1]
               e == EndAt(v, n, 1)
    <3>3. /\ s \in Seq(Bytes) /\ t \in Seq(Bytes) /\ Len(s) = e /\ Len(t) = e
          /\ e \in Nat
      <4>1. e \in Nat /\ e - 0 = e
        BY <1>1, <1>4, <3>1
      <4>2. QED BY <1>3, <1>5, <3>1, <3>2, <4>1
    <3>4. \A i \in 1 .. e : s[i] = flat[i - 1] /\ t[i] = flat[i - 1]
      <4>1. TAKE i \in 1 .. e
      <4>2. i \in 1 .. EndAt(v, n, 1) - v.ptr[1] /\ v.ptr[1] + i - 1 = i - 1
        BY <3>2, <3>3
      <4>3. QED BY <1>6, <3>1, <4>2
    <3> HIDE DEF s, t, e
    <3>5. s = t
      BY <3>3, <3>4, SameText
    <3>6. f[1] = d[1]
      BY <3>1, <3>5 DEF s, t
    <3> HIDE DEF f
    <3>7. QED BY <2>2, <3>6 DEF FlatStep
  <2>3. CASE m > 1
    <3>1. /\ m - 1 \in 1 .. k /\ m \in 1 .. k /\ m - 1 < k /\ (m - 1) + 1 = m /\ m \in 2 .. k
          /\ f[m] = Start(m) /\ f[m - 1] = Start(m - 1) /\ v.ptr # <<>>
      BY <1>1, <2>3, PtrTyped
    <3> DEFINE a == Start(m - 1)
               c == d[m]
               s == Start(m)
               ea == EndAt(v, n, m - 1)
               es == EndAt(v, n, m)
               p == v.ptr[m]
    <3>2. ea = p - 1
      BY <3>1 DEF EndAt
    <3>3. flat[p - 1] = NL
      BY <1>2, <3>1 DEF CutAt
    <3>4. /\ a \in Seq(Bytes) /\ Len(a) = ea /\ c \in Seq(Bytes) /\ Len(c) = es - p
          /\ s \in Seq(Bytes) /\ Len(s) = es
      BY <1>3, <1>5, <3>1
    <3>5. p \in Nat /\ es \in p .. n /\ ea \in Nat /\ es \in Nat
      <4>1. p \in Nat /\ es \in p .. n
        BY <1>4, <3>1
      <4>2. v.ptr[m - 1] \in Nat /\ ea \in v.ptr[m - 1] .. n
        BY <1>4, <3>1
      <4> HIDE DEF p, es, ea
      <4>3. QED BY <1>1, <4>1, <4>2
    <3>6. \A i \in 1 .. ea : a[i] = flat[i - 1]
      OBVIOUS
    <3>7. \A i \in 1 .. es : s[i] = flat[i - 1]
      OBVIOUS
    <3>8. \A i \in 1 .. es - p : c[i] = flat[p + i - 1]
      BY <1>6, <3>1
    <3>9. f[m - 1] = a /\ f[m] = s
      BY <3>1
    <3> DEFINE r == a \o <<NL>> \o c
    <3>10. FlatStep(f, d, m) = r
      <4> HIDE DEF f, a
      <4>1. m # 0 /\ m # 1
        BY <2>3
      <4>2. QED BY <3>9, <4>1, Zenon DEF FlatStep
    <3> HIDE DEF a, c, s, ea, es, p, f
    <3>11. /\ r \in Seq(Bytes) /\ Len(r) = Len(a) + 1 + Len(c)
           /\ \A i \in 1 .. Len(a) + 1 + Len(c) :
                r[i] = IF i <= Len(a) THEN a[i]
                       ELSE IF i = Len(a) + 1 THEN NL ELSE c[i - Len(a) - 1]
      <4>1. a \in Seq(Bytes) /\ c \in Seq(Bytes) /\ NL \in Bytes
        BY <3>4, SizeFacts
      <4>2. QED BY <4>1, Joined
    <3> HIDE DEF r
    <3>12. Len(r) = es
      BY <3>2, <3>4, <3>5, <3>11
    <3>13. \A i \in 1 .. es : r[i] = s[i]
      <4>1. TAKE i \in 1 .. es
      <4>2. /\ i \in 1 .. Len(a) + 1 + Len(c) /\ s[i] = flat[i - 1]
            /\ r[i] = IF i <= Len(a) THEN a[i]
                      ELSE IF i = Len(a) + 1 THEN NL ELSE c[i - Len(a) - 1]
        <5>1. i \in 1 .. Len(a) + 1 + Len(c)
          BY <3>2, <3>4, <3>5
        <5>2. QED BY <3>7, <3>11, <5>1
      <4>3. CASE i <= Len(a)
        <5>1. r[i] = a[i] /\ i \in 1 .. ea
          BY <4>2, <4>3, <3>4, <3>5
        <5>2. QED BY <3>6, <4>2, <5>1
      <4>4. CASE i = Len(a) + 1
        <5>1. ~ (i <= Len(a)) /\ i - 1 = p - 1
          BY <3>2, <3>4, <3>5, <4>4
        <5>2. r[i] = NL
          BY <4>2, <4>4, <5>1
        <5>3. QED BY <3>3, <4>2, <5>1, <5>2
      <4>5. CASE i > Len(a) + 1
        <5> DEFINE x == i - Len(a) - 1
        <5>1. ~ (i <= Len(a)) /\ i # Len(a) + 1 /\ x \in 1 .. es - p /\ p + x - 1 = i - 1
          BY <3>2, <3>4, <3>5, <4>5
        <5>2. r[i] = c[x]
          BY <4>2, <5>1
        <5> HIDE DEF x
        <5>3. c[x] = flat[i - 1]
          <6>1. c[x] = flat[p + x - 1]
            BY <3>8, <5>1
          <6>2. QED BY <5>1, <6>1
        <5>4. QED BY <4>2, <5>2, <5>3
      <4>6. QED BY <3>4, <3>5, <4>3, <4>4, <4>5
    <3>14. r = s
      BY <3>4, <3>11, <3>12, <3>13, SameText
    <3>15. QED BY <3>9, <3>10, <3>14
  <2>4. m = 0 \/ m = 1 \/ m > 1
    BY <1>1
  <2>5. QED BY <2>1, <2>2, <2>3, <2>4
<1>8. FlatString(d) = f[k]
  <2>1. Flattens(f, d)
    <3> HIDE DEF f
    <3>1. QED BY <1>3, <1>7 DEF Flattens
  <2> HIDE DEF f, k
  <2>2. QED BY <1>3, <2>1, FlatIs
<1>9. f[k] = [i \in 1 .. n |-> flat[i - 1]]
  <2>1. CASE k = 0
    <3>1. n = 0
      BY <2>1, PtrTyped DEF Delimited
    <3>2. f[k] = <<>>
      BY <2>1
    <3>3. [i \in 1 .. 0 |-> flat[i - 1]] = <<>>
      OBVIOUS
    <3>4. QED BY <3>1, <3>2, <3>3
  <2>2. CASE k # 0
    <3>1. EndAt(v, n, k) = n /\ f[k] = Start(k)
      BY <1>1, <2>2 DEF EndAt
    <3>2. QED BY <3>1
  <2>3. QED BY <2>1, <2>2
<1>10. StrAt(flat, 0) = [i \in 1 .. n |-> flat[i - 1]]
  <2>1. StrLen(flat, 0) = n
    BY <1>2, FlatLen
  <2>2. \A i \in 1 .. n : 0 + i - 1 = i - 1
    BY <1>1
  <2>3. StrAt(flat, 0) = [i \in 1 .. n |-> flat[0 + i - 1]]
    BY <2>1 DEF StrAt
  <2>4. QED BY <2>2, <2>3
<1>11. Len([i \in 1 .. n |-> flat[i - 1]]) = n
  <2>1. n \in 0 .. Size
    BY <1>1
  <2>2. QED BY <1>2, <2>1, FirstBytes
<1>12. FlatString(d) = StrAt(flat, 0) /\ Len(FlatString(d)) = n
  <2> HIDE DEF f
  <2>1. QED BY <1>8, <1>9, <1>10, <1>11
<1>13. QED BY <1>12 DEF d, flat

-----------------------------------------------------------------------------
(* The edits.                                                              *)

LEMMA CopyBytes ==
    ASSUME NEW buf \in [Offsets -> Bytes], NEW at \in Nat, NEW t \in Seq(Bytes)
    PROVE  /\ StrCpy(buf, at, t) \in [Offsets -> Bytes]
           /\ \A q \in Offsets :
                 StrCpy(buf, at, t)[q] =
                     IF q < at THEN buf[q]
                     ELSE IF q < at + Len(t) THEN t[q - at + 1]
                     ELSE IF q = at + Len(t) THEN NUL ELSE buf[q]
<1> DEFINE b == StrCpy(buf, at, t)
<1>1. Len(t) \in Nat /\ \A k \in 1 .. Len(t) : t[k] \in Bytes
  OBVIOUS
<1>2. \A q \in Offsets : q \in Nat
  BY SizeFacts DEF Offsets
<1>3. \A q \in Offsets :
        b[q] = IF q < at THEN buf[q]
               ELSE IF q < at + Len(t) THEN t[q - at + 1]
               ELSE IF q = at + Len(t) THEN NUL ELSE buf[q]
  <2>1. TAKE q \in Offsets
  <2>2. q \in Nat
    BY <1>2
  <2>3. b[q] = IF q \in at .. at + Len(t) - 1 THEN t[q - at + 1]
               ELSE IF q = at + Len(t) THEN NUL ELSE buf[q]
    BY DEF StrCpy
  <2>4. q \in at .. at + Len(t) - 1 <=> ~ (q < at) /\ q < at + Len(t)
    BY <1>1, <2>2
  <2>5. q < at => q # at + Len(t)
    BY <1>1, <2>2
  <2> HIDE DEF b
  <2>6. QED BY <2>3, <2>4, <2>5
<1>4. \A q \in Offsets : b[q] \in Bytes
  <2>1. TAKE q \in Offsets
  <2>2. ~ (q < at) /\ q < at + Len(t) => t[q - at + 1] \in Bytes
    BY <1>1, <1>2
  <2> HIDE DEF b
  <2>3. QED BY <1>3, <2>2, SizeFacts
<1>5. b = [q \in Offsets |-> b[q]]
  BY DEF StrCpy
<1> HIDE DEF b
<1>6. b \in [Offsets -> Bytes]
  BY <1>4, <1>5
<1>7. QED BY <1>3, <1>6 DEF b

\* Where a new paragraph goes.
NewAt(v, n) == IF v.ptr = <<>> THEN 0 ELSE n + 1

LEMMA AddDelimits ==
    ASSUME NEW v \in Views, NEW n, Delimited(v, n), NEW t \in Texts,
           NewAt(v, n) + Len(t) < Size
    PROVE  LET w == onNewParagraphConfirmed(v, t)
           IN  /\ w \in Views /\ w.ptr # <<>> /\ Len(w.ptr) = Len(v.ptr) + 1
               /\ Delimited(w, NewAt(v, n) + Len(t))
               /\ ParagraphsOf(w) = Append(ParagraphsOf(v), t)
               /\ v.buf[Size - 1] = NUL => w.buf[Size - 1] = NUL
<1> DEFINE w == onNewParagraphConfirmed(v, t)
           at == NewAt(v, n)
           z == at + Len(t)
           k == Len(v.ptr)
<1>1. /\ n \in Nat /\ n <= Size - 1 /\ Size \in Nat /\ k \in Nat
      /\ v.buf \in [Offsets -> Bytes] /\ v.ptr \in Seq(Offsets) /\ (v.ptr = <<>> <=> k = 0)
  BY SizeFacts, PtrTyped DEF Delimited, Offsets
<1>2. t \in Seq(Bytes) /\ Len(t) \in Nat /\ \A i \in 1 .. Len(t) : t[i] \in Bytes \ {NUL, NL}
  BY TextFacts
<1>3. at \in Nat /\ z \in Nat /\ z < Size /\ at \in Offsets /\ z \in Offsets
  <2>1. at \in Nat
    BY <1>1 DEF NewAt
  <2> HIDE DEF at
  <2>2. at + Len(t) < Size
    BY DEF at
  <2>3. QED BY <1>1, <1>2, <2>1, <2>2 DEF Offsets
<1>4. w = [buf |-> StrCpy(v.buf, at, t), ptr |-> Append(v.ptr, at)]
  <2>1. ASSUME v.ptr # <<>> PROVE EndOf(v.buf, Last(v.ptr)) = n + 1
    <3>1. k \in 1 .. Len(v.ptr)
      BY <1>1, <2>1
    <3>2. EndAt(v, n, k) = n
      BY <1>1 DEF EndAt
    <3>3. EndOf(v.buf, v.ptr[k]) = EndAt(v, n, k) + 1
      <4> HIDE DEF k
      <4>1. QED BY <3>1, ParagraphEnd
    <3>4. QED BY <3>2, <3>3 DEF Last
  <2>2. (IF v.ptr = <<>> THEN 0 ELSE EndOf(v.buf, Last(v.ptr))) = at
    BY <2>1 DEF NewAt
  <2>3. QED BY <2>2 DEF onNewParagraphConfirmed
<1> HIDE DEF at, w
<1>5. /\ w.buf \in [Offsets -> Bytes]
      /\ \A q \in Offsets :
            w.buf[q] = IF q < at THEN v.buf[q]
                       ELSE IF q < z THEN t[q - at + 1]
                       ELSE IF q = z THEN NUL ELSE v.buf[q]
  <2>1. w.buf = StrCpy(v.buf, at, t)
    BY <1>4
  <2> DEFINE b == StrCpy(v.buf, at, t)
  <2>2. /\ b \in [Offsets -> Bytes]
        /\ \A q \in Offsets :
              b[q] = IF q < at THEN v.buf[q]
                     ELSE IF q < at + Len(t) THEN t[q - at + 1]
                     ELSE IF q = at + Len(t) THEN NUL ELSE v.buf[q]
    <3>1. v.buf \in [Offsets -> Bytes] /\ t \in Seq(Bytes) /\ at \in Nat
      BY <1>1, <1>2, <1>3
    <3> DEFINE x == v.buf
    <3>2. x \in [Offsets -> Bytes]
      BY <3>1
    <3> HIDE DEF x
    <3>3. /\ StrCpy(x, at, t) \in [Offsets -> Bytes]
          /\ \A q \in Offsets :
                StrCpy(x, at, t)[q] = IF q < at THEN x[q]
                                      ELSE IF q < at + Len(t) THEN t[q - at + 1]
                                      ELSE IF q = at + Len(t) THEN NUL ELSE x[q]
      BY <3>1, <3>2, CopyBytes
    <3>4. QED BY <3>3 DEF x
  <2>3. w.buf = b
    BY <2>1
  <2> HIDE DEF b
  <2>4. QED BY <2>2, <2>3
<1>6. /\ w.ptr \in Seq(Offsets) /\ Len(w.ptr) = k + 1 /\ w.ptr[k + 1] = at
      /\ \A j \in 1 .. k : w.ptr[j] = v.ptr[j]
      /\ w.ptr = Append(v.ptr, at)
  BY <1>1, <1>3, <1>4
<1>7. w \in Views
  BY <1>4, <1>5, <1>6 DEF Views
<1>8. w.ptr # <<>>
  BY <1>1, <1>6, <1>7, PtrTyped
<1>9. \A q \in at .. z - 1 : w.buf[q] \notin {NUL, NL} /\ w.buf[q] = t[q - at + 1]
  <2>1. TAKE q \in at .. z - 1
  <2>2. q \in Offsets /\ ~ (q < at) /\ q < z /\ q - at + 1 \in 1 .. Len(t)
    BY <1>1, <1>2, <1>3 DEF Offsets
  <2>3. w.buf[q] = t[q - at + 1]
    BY <1>5, <2>2
  <2>4. QED BY <1>2, <2>2, <2>3
<1>10. w.buf[z] = NUL
  <2>1. ~ (z < at) /\ ~ (z < z)
    BY <1>2, <1>3
  <2>2. QED BY <1>3, <1>5, <2>1
<1>11. \A q \in 0 .. at - 1 : q \in Offsets /\ w.buf[q] = v.buf[q] /\ q \in 0 .. n /\ v.ptr # <<>>
  <2>1. TAKE q \in 0 .. at - 1
  <2>2. q \in Offsets /\ q < at
    BY <1>1, <1>3 DEF Offsets
  <2>3. w.buf[q] = v.buf[q]
    BY <1>5, <2>2
  <2>4. q \in 0 .. n /\ v.ptr # <<>>
    BY <1>1 DEF at, NewAt
  <2>5. QED BY <2>2, <2>3, <2>4
<1>12. \A q \in 0 .. z : w.buf[q] # NL
  <2>1. TAKE q \in 0 .. z
  <2>2. CASE q \in 0 .. at - 1
    BY <1>11, <2>2 DEF Delimited
  <2>3. CASE q \in at .. z - 1
    BY <1>9, <2>3
  <2>4. CASE q = z
    BY <1>10, <2>4, SizeFacts
  <2>5. QED BY <1>3, <2>2, <2>3, <2>4
<1>13. CutAt(w.buf, NUL, w.ptr, z)
  <2>1. CASE v.ptr = <<>>
    <3>1. at = 0 /\ k = 0
      BY <1>1, <2>1 DEF at, NewAt
    <3>2. Len(w.ptr) = 1 /\ w.ptr[1] = 0
      BY <1>6, <3>1
    <3>3. w.ptr \in Seq(0 .. z)
      <4>1. w.ptr = <<0>> /\ 0 \in 0 .. z
        BY <1>3, <1>6, <2>1, <3>1
      <4>2. QED BY <4>1
    <3>4. \A q \in 0 .. z - 1 : w.buf[q] # NUL
      BY <1>9, <3>1
    <3>5. QED BY <3>2, <3>3, <3>4 DEF CutAt
  <2>2. CASE v.ptr # <<>>
    <3>1. at = n + 1 /\ CutAt(v.buf, NUL, v.ptr, n)
      BY <2>2 DEF at, NewAt, Delimited
    <3>2. z > n /\ \A q \in 0 .. n - 1 : w.buf[q] = v.buf[q]
      BY <1>1, <1>2, <1>11, <3>1
    <3>3. w.buf[n] = NUL
      <4>1. n \in 0 .. at - 1
        BY <1>1, <3>1
      <4>2. QED BY <1>11, <4>1 DEF Delimited
    <3>4. \A q \in n + 1 .. z - 1 : w.buf[q] # NUL
      BY <1>9, <3>1
    <3>5. CutAt(w.buf, NUL, Append(v.ptr, n + 1), z)
      <4> DEFINE b == w.buf
                 ob == v.buf
      <4>1. /\ CutAt(ob, NUL, v.ptr, n) /\ z \in Nat /\ z > n /\ \A q \in 0 .. n - 1 : b[q] = ob[q]
            /\ b[n] = NUL /\ \A q \in n + 1 .. z - 1 : b[q] # NUL
        BY <1>3, <3>1, <3>2, <3>3, <3>4
      <4> HIDE DEF b, ob, z
      <4>2. CutAt(b, NUL, Append(v.ptr, n + 1), z)
        BY <1>1, <4>1, CutAppend
      <4>3. QED BY <4>2 DEF b
    <3>6. QED BY <1>6, <3>1, <3>5
  <2>3. QED BY <2>1, <2>2
<1>14. Delimited(w, z)
  BY <1>3, <1>8, <1>10, <1>12, <1>13 DEF Delimited
<1>15. v.buf[Size - 1] = NUL => w.buf[Size - 1] = NUL
  <2>1. SUFFICES ASSUME v.buf[Size - 1] = NUL PROVE w.buf[Size - 1] = NUL
    OBVIOUS
  <2>2. Size - 1 \in Offsets /\ ~ (Size - 1 < z)
    BY <1>1, <1>3, SizeFacts
  <2>3. QED BY <1>5, <2>1, <2>2
<1> DEFINE d == ParagraphsOf(v)
           e == ParagraphsOf(w)
<1>16. /\ d \in Docs /\ Len(d) = k
       /\ \A j \in 1 .. k :
             /\ d[j] \in Seq(Bytes) /\ Len(d[j]) = EndAt(v, n, j) - v.ptr[j]
             /\ \A i \in 1 .. EndAt(v, n, j) - v.ptr[j] : d[j][i] = v.buf[v.ptr[j] + i - 1]
  BY ParagraphsTyped
<1>17. /\ e \in Docs /\ Len(e) = k + 1
       /\ \A j \in 1 .. k + 1 :
             /\ e[j] \in Seq(Bytes) /\ Len(e[j]) = EndAt(w, z, j) - w.ptr[j]
             /\ \A i \in 1 .. EndAt(w, z, j) - w.ptr[j] : e[j][i] = w.buf[w.ptr[j] + i - 1]
  <2> HIDE DEF z
  <2>1. Len(w.ptr) = k + 1
    BY <1>6
  <2>2. /\ e \in Docs /\ Len(e) = Len(w.ptr)
        /\ \A j \in 1 .. Len(w.ptr) :
              /\ e[j] \in Seq(Bytes) /\ Len(e[j]) = EndAt(w, z, j) - w.ptr[j]
              /\ \A i \in 1 .. EndAt(w, z, j) - w.ptr[j] : e[j][i] = w.buf[w.ptr[j] + i - 1]
    BY <1>7, <1>14, ParagraphsTyped
  <2>3. QED BY <2>1, <2>2
<1> HIDE DEF d, e
<1>18. ASSUME NEW j \in 1 .. k PROVE e[j] = d[j]
  <2>1. k # 0 /\ v.ptr # <<>> /\ at = n + 1 /\ j \in 1 .. k + 1
    BY <1>1 DEF at, NewAt
  <2>2. EndAt(w, z, j) = EndAt(v, n, j)
    <3>1. CASE j = k
      <4>1. EndAt(w, z, j) = w.ptr[k + 1] - 1 /\ EndAt(v, n, j) = n
        BY <1>1, <1>6, <3>1 DEF EndAt
      <4>2. QED BY <1>1, <1>6, <2>1, <4>1
    <3>2. CASE j # k
      <4>1. j + 1 \in 1 .. k /\ j < k /\ j < k + 1
        BY <1>1, <3>2
      <4>2. EndAt(w, z, j) = w.ptr[j + 1] - 1 /\ EndAt(v, n, j) = v.ptr[j + 1] - 1
        BY <1>6, <4>1 DEF EndAt
      <4>3. QED BY <1>6, <4>1, <4>2
    <3>3. QED BY <3>1, <3>2
  <2> DEFINE x == EndAt(v, n, j)
             p == v.ptr[j]
  <2>3. x \in p .. n /\ p \in Offsets /\ w.ptr[j] = p
    BY <1>6, ParagraphEnd
  <2>4. /\ Len(d[j]) = x - p /\ Len(e[j]) = x - p
        /\ \A i \in 1 .. x - p : d[j][i] = v.buf[p + i - 1] /\ e[j][i] = w.buf[p + i - 1]
    BY <1>16, <1>17, <2>1, <2>2, <2>3
  <2> HIDE DEF x, p
  <2>5. \A i \in 1 .. x - p : w.buf[p + i - 1] = v.buf[p + i - 1]
    <3>1. TAKE i \in 1 .. x - p
    <3>2. p + i - 1 \in 0 .. at - 1
      BY <1>1, <2>1, <2>3 DEF Offsets
    <3>3. QED BY <1>11, <3>2
  <2>6. d[j] \in Seq(Bytes) /\ e[j] \in Seq(Bytes)
    BY <1>16, <1>17, <2>1
  <2>7. \A i \in 1 .. Len(e[j]) : e[j][i] = d[j][i]
    BY <2>4, <2>5
  <2>8. Len(e[j]) = Len(d[j])
    BY <2>4
  <2>9. QED BY <2>6, <2>7, <2>8, SameText
<1>19. e[k + 1] = t
  <2>1. k + 1 \in 1 .. k + 1 /\ EndAt(w, z, k + 1) = z /\ w.ptr[k + 1] = at /\ z - at = Len(t)
    BY <1>1, <1>2, <1>3, <1>6 DEF EndAt
  <2>2. /\ e[k + 1] \in Seq(Bytes) /\ Len(e[k + 1]) = Len(t)
        /\ \A i \in 1 .. Len(t) : e[k + 1][i] = w.buf[at + i - 1]
    BY <1>17, <2>1
  <2>3. \A i \in 1 .. Len(t) : w.buf[at + i - 1] = t[i]
    <3>1. TAKE i \in 1 .. Len(t)
    <3> DEFINE q == at + i - 1
    <3>2. q \in at .. z - 1 /\ q - at + 1 = i
      BY <1>2, <1>3
    <3> HIDE DEF q
    <3>3. w.buf[q] = t[i]
      BY <1>9, <3>2
    <3>4. QED BY <3>3 DEF q
  <2> DEFINE s == e[k + 1]
  <2>4. s \in Seq(Bytes) /\ Len(s) = Len(t) /\ \A i \in 1 .. Len(s) : s[i] = t[i]
    BY <2>2, <2>3
  <2> HIDE DEF s
  <2>5. s = t
    BY <1>2, <2>4, SameText
  <2>6. QED BY <2>5 DEF s
<1>20. e = Append(d, t)
  <2> DEFINE S == Seq(Bytes)
             a == Append(d, t)
  <2>1. d \in Seq(S) /\ e \in Seq(S) /\ t \in S
    BY <1>2, <1>16, <1>17 DEF Docs
  <2> HIDE DEF S
  <2>2. /\ a \in Seq(S) /\ Len(a) = k + 1 /\ a[k + 1] = t /\ \A j \in 1 .. k : a[j] = d[j]
    BY <1>16, <2>1
  <2> HIDE DEF a
  <2>3. \A j \in 1 .. Len(e) : e[j] = a[j]
    <3>1. TAKE j \in 1 .. Len(e)
    <3>2. j \in 1 .. k \/ j = k + 1
      BY <1>1, <1>17
    <3>3. QED BY <1>18, <1>19, <2>2, <3>2
  <2>4. Len(e) = Len(a)
    BY <1>17, <2>2
  <2>5. e = a
    BY <2>1, <2>2, <2>3, <2>4, SameText
  <2>6. QED BY <2>5 DEF a
<1>21. QED
  <2>1. w \in Views /\ w.ptr # <<>> /\ Len(w.ptr) = Len(v.ptr) + 1
    BY <1>6, <1>7, <1>8
  <2>2. Delimited(w, NewAt(v, n) + Len(t))
    BY <1>14 DEF at
  <2>3. ParagraphsOf(w) = Append(ParagraphsOf(v), t)
    BY <1>20 DEF d, e
  <2>4. QED BY <1>15, <2>1, <2>2, <2>3 DEF w

\* By how much a text grows when its k-th paragraph becomes t.
Growth(v, n, k, t) == Len(t) - (EndAt(v, n, k) - v.ptr[k])

LEMMA ReplaceBytes ==
    ASSUME NEW v \in Views, NEW n, Delimited(v, n), NEW k \in 1 .. Len(v.ptr), NEW t \in Texts,
           n + Growth(v, n, k, t) < Size
    PROVE  LET w == ReplaceParagraph(v, k, t)
               g == Growth(v, n, k, t)
               end == v.ptr[k] + Len(t)
           IN  /\ w.buf \in [Offsets -> Bytes]
               /\ \A q \in Offsets :
                     w.buf[q] = IF q < v.ptr[k] THEN v.buf[q]
                                ELSE IF q < end THEN t[q - v.ptr[k] + 1]
                                ELSE IF q = end THEN NUL
                                ELSE IF q <= n + g THEN v.buf[q - g] ELSE v.buf[q]
               /\ w = [buf |-> w.buf,
                       ptr |-> [j \in 1 .. Len(v.ptr) |->
                                   IF j > k THEN v.ptr[j] + g ELSE v.ptr[j]]]
<1> DEFINE w == ReplaceParagraph(v, k, t)
           g == Growth(v, n, k, t)
           p == v.ptr[k]
           e == EndAt(v, n, k)
           l == Len(t)
           end == p + l
           x == v.buf
           m == Len(v.ptr)
           moved == IF k = m \/ g = 0 THEN x ELSE MemMove(x, end + 1, e + 1, n - e)
<1>1. /\ n \in Nat /\ n <= Size - 1 /\ Size \in Nat /\ m \in Nat /\ k \in 1 .. m
      /\ x \in [Offsets -> Bytes] /\ v.ptr # <<>> /\ DOMAIN v.ptr = 1 .. m
      /\ \A q : q \in Offsets <=> q \in 0 .. Size - 1
  BY SizeFacts, PtrTyped DEF Delimited, Offsets
<1>2. t \in Seq(Bytes) /\ l \in Nat
  BY TextFacts
<1>3. p \in Nat /\ e \in p .. n /\ StrLen(x, p) = e - p
  <2>1. p \in Offsets /\ e \in p .. n /\ StrLen(x, p) = e - p
    BY ParagraphEnd
  <2>2. QED BY <2>1 DEF Offsets
<1>4. g = l - (e - p)
  BY DEF Growth
<1>5. n + g < Size
  OBVIOUS
<1>6. k # m => v.ptr[k + 1] = e + 1
  <2>1. HAVE k # m
  <2>2. k < m /\ k + 1 \in 1 .. m
    BY <1>1, <2>1
  <2>3. e = v.ptr[k + 1] - 1 /\ v.ptr[k + 1] \in Offsets
    BY <2>2, ParagraphEnd DEF EndAt
  <2>4. QED BY <2>3 DEF Offsets
<1>7. k = m => e = n
  BY <1>1 DEF EndAt
<1>8. EndOf(x, Last(v.ptr)) = n + 1
  <2>1. m \in 1 .. Len(v.ptr)
    BY <1>1
  <2>2. EndAt(v, n, m) = n
    BY <1>1 DEF EndAt
  <2>3. EndOf(v.buf, v.ptr[m]) = EndAt(v, n, m) + 1
    <3> HIDE DEF m
    <3>1. QED BY <2>1, ParagraphEnd
  <2>4. QED BY <2>2, <2>3 DEF Last
<1>9. w = [buf |-> StrCpy(moved, p, t),
           ptr |-> [j \in 1 .. m |-> IF j > k THEN v.ptr[j] + g ELSE v.ptr[j]]]
  <2> DEFINE diff == Len(t) - StrLen(v.buf, v.ptr[k])
             shifted == IF k = Len(v.ptr) \/ diff = 0 THEN v.buf
                        ELSE MemMove(v.buf, v.ptr[k] + Len(t) + 1, v.ptr[k + 1],
                                     EndOf(v.buf, Last(v.ptr)) - v.ptr[k + 1])
  <2>1. w = [buf |-> StrCpy(shifted, v.ptr[k], t),
             ptr |-> [j \in DOMAIN v.ptr |-> IF j > k THEN v.ptr[j] + diff ELSE v.ptr[j]]]
    BY DEF ReplaceParagraph
  <2>2. diff = g
    BY <1>3, <1>4
  <2>3. shifted = moved
    <3>1. CASE k = m \/ g = 0
      BY <2>2, <3>1
    <3>2. CASE ~ (k = m \/ g = 0)
      <4>1. v.ptr[k + 1] = e + 1 /\ EndOf(v.buf, Last(v.ptr)) - v.ptr[k + 1] = n - e
        <5>1. v.ptr[k + 1] = e + 1
          BY <1>6, <3>2
        <5>2. (n + 1) - (e + 1) = n - e
          BY <1>1, <1>3
        <5>3. QED BY <1>8, <5>1, <5>2
      <4>2. shifted = MemMove(v.buf, v.ptr[k] + Len(t) + 1, e + 1, n - e)
        BY <2>2, <3>2, <4>1
      <4>3. moved = MemMove(v.buf, v.ptr[k] + Len(t) + 1, e + 1, n - e)
        BY <3>2
      <4>4. QED BY <4>2, <4>3
    <3>3. QED BY <3>1, <3>2
  <2> HIDE DEF diff, shifted, moved, w
  <2>4. QED BY <1>1, <2>1, <2>2, <2>3
<1> HIDE DEF g, p, e, l, x, m, w
<1>10. ASSUME NEW q \in Offsets
       PROVE  moved[q] = (IF end < q /\ q <= n + g THEN x[q - g] ELSE x[q]) /\ moved[q] \in Bytes
  <2>1. q \in Nat /\ q <= Size - 1
    BY <1>1
  <2>2. end < q /\ q <= n + g => q - g \in Offsets
    BY <1>1, <1>2, <1>3, <1>4, <1>5, <2>1
  <2>3. x[q] \in Bytes /\ (end < q /\ q <= n + g => x[q - g] \in Bytes)
    BY <1>1, <2>2
  <2>4. CASE k = m
    <3>1. ~ (end < q /\ q <= n + g)
      BY <1>1, <1>2, <1>3, <1>4, <1>7, <2>1, <2>4
    <3>2. moved = x
      BY <2>4
    <3> HIDE DEF moved
    <3>3. QED BY <2>3, <3>1, <3>2
  <2>5. CASE g = 0
    <3>1. q - g = q
      BY <2>1, <2>5
    <3>2. moved = x
      BY <2>5
    <3> HIDE DEF moved
    <3>3. QED BY <2>3, <3>1, <3>2
  <2>6. CASE k # m /\ g # 0
    <3>1. moved = MemMove(x, end + 1, e + 1, n - e)
      BY <2>6
    <3>2. moved[q] = IF q \in end + 1 .. end + 1 + (n - e) - 1
                     THEN x[e + 1 + q - (end + 1)] ELSE x[q]
      BY <3>1 DEF MemMove
    <3>3. q \in end + 1 .. end + 1 + (n - e) - 1 <=> end < q /\ q <= n + g
      BY <1>1, <1>2, <1>3, <1>4, <2>1
    <3>4. e + 1 + q - (end + 1) = q - g
      BY <1>1, <1>2, <1>3, <1>4, <2>1
    <3> HIDE DEF moved, end
    <3>5. QED BY <2>3, <3>2, <3>3, <3>4
  <2>7. QED BY <2>4, <2>5, <2>6
<1>11. moved \in [Offsets -> Bytes]
  <2>1. moved = [q \in Offsets |-> moved[q]]
    <3>1. CASE k = m \/ g = 0
      BY <1>1, <3>1
    <3>2. CASE ~ (k = m \/ g = 0)
      BY <3>2 DEF MemMove
    <3>3. QED BY <3>1, <3>2
  <2> HIDE DEF moved
  <2>2. \A q \in Offsets : moved[q] \in Bytes
    BY <1>10
  <2>3. QED BY <2>1, <2>2
<1> HIDE DEF moved
<1>12. /\ w.buf \in [Offsets -> Bytes]
       /\ \A q \in Offsets :
             w.buf[q] = IF q < p THEN moved[q]
                        ELSE IF q < p + Len(t) THEN t[q - p + 1]
                        ELSE IF q = p + Len(t) THEN NUL ELSE moved[q]
  <2> DEFINE b == StrCpy(moved, p, t)
  <2>1. /\ b \in [Offsets -> Bytes]
        /\ \A q \in Offsets :
              b[q] = IF q < p THEN moved[q]
                     ELSE IF q < p + Len(t) THEN t[q - p + 1]
                     ELSE IF q = p + Len(t) THEN NUL ELSE moved[q]
    BY <1>2, <1>3, <1>11, CopyBytes
  <2>2. w.buf = b
    BY <1>9
  <2> HIDE DEF b
  <2>3. QED BY <2>1, <2>2
<1>13. \A q \in Offsets :
         w.buf[q] = IF q < p THEN x[q]
                    ELSE IF q < end THEN t[q - p + 1]
                    ELSE IF q = end THEN NUL
                    ELSE IF q <= n + g THEN x[q - g] ELSE x[q]
  <2>1. TAKE q \in Offsets
  <2>2. q \in Nat /\ end = p + Len(t)
    BY <1>1 DEF l
  <2>3. w.buf[q] = IF q < p THEN moved[q]
                   ELSE IF q < end THEN t[q - p + 1]
                   ELSE IF q = end THEN NUL ELSE moved[q]
    BY <1>12, <2>2
  <2>4. moved[q] = IF end < q /\ q <= n + g THEN x[q - g] ELSE x[q]
    BY <1>10
  <2>5. q < p => ~ (end < q)
    BY <1>2, <1>3, <2>2
  <2>6. ~ (q < end) /\ q # end => end < q
    BY <1>2, <1>3, <2>2
  <2> HIDE DEF end
  <2>7. QED BY <2>3, <2>4, <2>5, <2>6
<1>14. w = [buf |-> w.buf,
            ptr |-> [j \in 1 .. m |-> IF j > k THEN v.ptr[j] + g ELSE v.ptr[j]]]
  BY <1>9
<1>15. w.buf \in [Offsets -> Bytes]
  BY <1>12
<1>16. QED BY <1>13, <1>14, <1>15 DEF w, g, p, l, x, m

\* The other paragraphs stay, and those after the k-th move with their ends.
LEMMA ReplaceDelimits ==
    ASSUME NEW v \in Views, NEW n, Delimited(v, n), NEW k \in 1 .. Len(v.ptr), NEW t \in Texts,
           n + Growth(v, n, k, t) < Size
    PROVE  LET w == ReplaceParagraph(v, k, t)
           IN  /\ w \in Views /\ Len(w.ptr) = Len(v.ptr)
               /\ Delimited(w, n + Growth(v, n, k, t))
               /\ ParagraphsOf(w) = [ParagraphsOf(v) EXCEPT ![k] = t]
               /\ v.buf[Size - 1] = NUL => w.buf[Size - 1] = NUL
<1> DEFINE w == ReplaceParagraph(v, k, t)
           g == Growth(v, n, k, t)
           p == v.ptr[k]
           e == EndAt(v, n, k)
           end == p + Len(t)
           z == n + g
           x == v.buf
           y == w.buf
           m == Len(v.ptr)
           r == w.ptr
<1>1. /\ n \in Nat /\ n <= Size - 1 /\ Size \in Nat /\ m \in Nat /\ k \in 1 .. m
      /\ x \in [Offsets -> Bytes] /\ v.ptr # <<>> /\ x[n] = NUL
      /\ \A q : q \in Offsets <=> q \in 0 .. Size - 1
  BY SizeFacts, PtrTyped DEF Delimited, Offsets
<1>2. /\ t \in Seq(Bytes) /\ Len(t) \in Nat
      /\ \A i \in 1 .. Len(t) : t[i] \notin {NUL, NL}
  BY TextFacts
<1>3. CutAt(x, NUL, v.ptr, n) /\ \A j \in 1 .. m : v.ptr[j] \in 0 .. n
  <2>1. CutAt(x, NUL, v.ptr, n)
    BY <1>1 DEF Delimited
  <2>2. QED BY <1>1, <2>1, CutBounds
<1>4. p \in Nat /\ e \in p .. n
  <2>1. p \in Offsets /\ e \in p .. n
    BY ParagraphEnd
  <2>2. QED BY <2>1 DEF Offsets
<1>5. g = end - e
  BY <1>2, <1>4 DEF Growth
<1>6. y \in [Offsets -> Bytes] /\ w = [buf |-> y, ptr |-> r]
      /\ r = [j \in 1 .. m |-> IF j > k THEN v.ptr[j] + g ELSE v.ptr[j]]
  BY ReplaceBytes
<1>7. \A q \in Offsets :
        y[q] = IF q < p THEN x[q]
               ELSE IF q < end THEN t[q - p + 1]
               ELSE IF q = end THEN NUL
               ELSE IF q <= z THEN x[q - g] ELSE x[q]
  <2>1. n + g < Size
    OBVIOUS
  <2>2. QED BY <2>1, ReplaceBytes
<1>8. \A j \in 1 .. m : r[j] = IF j > k THEN v.ptr[j] + g ELSE v.ptr[j]
  <2> HIDE DEF r, m, g, w
  <2>1. QED BY <1>6
<1>9. z \in Nat /\ z <= Size - 1 /\ end \in Nat /\ p <= end /\ end <= z /\ z - g = n
  <2>1. n + g < Size
    OBVIOUS
  <2>2. end \in Nat /\ p <= end
    BY <1>2, <1>4
  <2> HIDE DEF g, p, e, end
  <2>3. QED BY <1>1, <1>4, <1>5, <2>1, <2>2
<1>10. k < m => v.ptr[k + 1] = e + 1 /\ k + 1 \in 1 .. m
  <2>1. HAVE k < m
  <2>2. k + 1 \in 1 .. m
    BY <1>1, <2>1
  <2>3. e = v.ptr[k + 1] - 1 /\ v.ptr[k + 1] \in 0 .. n
    BY <1>3, <2>1, <2>2 DEF EndAt
  <2>4. QED BY <1>1, <2>2, <2>3
<1>11. k = m => e = n
  BY <1>1 DEF EndAt
<1>12. \A a, b \in 1 .. m : a < b => v.ptr[a] < v.ptr[b]
  BY <1>3 DEF CutAt
<1>13. \A j \in 1 .. m : /\ j <= k => v.ptr[j] <= p
                         /\ j > k => v.ptr[j] >= e + 1
                         /\ j > k + 1 => v.ptr[j] > e + 1
  <2>1. TAKE j \in 1 .. m
  <2>2. v.ptr[j] \in Nat
    BY <1>1, <1>3
  <2>3. j <= k => v.ptr[j] <= p
    <3>1. CASE j < k
      <4>1. v.ptr[j] < p
        BY <1>1, <1>12, <3>1
      <4>2. QED BY <1>4, <2>2, <3>1, <4>1
    <3>2. CASE j = k
      BY <1>4, <3>2
    <3>3. QED BY <1>1, <3>1, <3>2
  <2>4. j > k + 1 => v.ptr[j] > e + 1
    <3>1. HAVE j > k + 1
    <3>2. k < m /\ k + 1 \in 1 .. m /\ k + 1 < j
      BY <1>1, <3>1
    <3>3. v.ptr[k + 1] < v.ptr[j] /\ v.ptr[k + 1] = e + 1
      BY <1>10, <1>12, <3>2
    <3>4. QED BY <1>1, <1>4, <2>2, <3>3
  <2>5. j = k + 1 => v.ptr[j] = e + 1
    BY <1>1, <1>10
  <2>6. j > k => j = k + 1 \/ j > k + 1
    BY <1>1
  <2> HIDE DEF p, e
  <2>7. QED BY <1>1, <1>4, <2>2, <2>3, <2>4, <2>5, <2>6
<1> HIDE DEF w, g, p, e, end, z, x, y, m, r
<1>14. /\ \A q \in Offsets : q < p => y[q] = x[q]
       /\ \A i \in 1 .. Len(t) : y[p + i - 1] = t[i] /\ p + i - 1 \in Offsets
       /\ y[end] = NUL
       /\ \A q \in Offsets : end < q /\ q <= z => y[q] = x[q - g] /\ q - g \in e + 1 .. n
  <2>1. \A q \in Offsets : q < p => y[q] = x[q]
    BY <1>7
  <2>2. \A i \in 1 .. Len(t) : y[p + i - 1] = t[i] /\ p + i - 1 \in Offsets
    <3>1. TAKE i \in 1 .. Len(t)
    <3> DEFINE q == p + i - 1
    <3>2. q \in Offsets /\ ~ (q < p) /\ q < end /\ q - p + 1 = i
      BY <1>1, <1>2, <1>4, <1>9 DEF end
    <3> HIDE DEF q
    <3>3. y[q] = t[i]
      BY <1>7, <3>2
    <3>4. QED BY <3>2, <3>3 DEF q
  <2>3. y[end] = NUL
    <3>1. end \in Offsets /\ ~ (end < p) /\ ~ (end < end)
      BY <1>1, <1>4, <1>9
    <3>2. QED BY <1>7, <3>1
  <2>4. \A q \in Offsets : end < q /\ q <= z => y[q] = x[q - g] /\ q - g \in e + 1 .. n
    <3>1. TAKE q \in Offsets
    <3>2. HAVE end < q /\ q <= z
    <3>3. q \in Nat /\ ~ (q < p) /\ ~ (q < end) /\ q # end
      BY <1>1, <1>4, <1>9, <3>2
    <3>4. y[q] = x[q - g]
      BY <1>7, <3>2, <3>3
    <3>5. q - g \in e + 1 .. n
      BY <1>1, <1>4, <1>5, <1>9, <3>2, <3>3
    <3>6. QED BY <3>4, <3>5
  <2>5. QED BY <2>1, <2>2, <2>3, <2>4
\* Each offset up to the end of the text is in one of four places.
<1>15. \A q \in 0 .. z : /\ q \in Offsets /\ q \in Nat
                         /\ \/ q < p /\ q \in 0 .. n - 1
                            \/ \E i \in 1 .. Len(t) : q = p + i - 1
                            \/ q = end
                            \/ end < q /\ q <= z
  <2>1. TAKE q \in 0 .. z
  <2>2. q \in Offsets /\ q \in Nat
    BY <1>1, <1>9
  <2>3. q < p => q \in 0 .. n - 1
    BY <1>1, <1>4, <2>2
  <2>4. ASSUME p <= q, q < end PROVE \E i \in 1 .. Len(t) : q = p + i - 1
    <3>1. q - p + 1 \in 1 .. Len(t) /\ q = p + (q - p + 1) - 1
      BY <1>2, <1>4, <2>2, <2>4 DEF end
    <3>2. QED BY <3>1
  <2>5. QED BY <1>4, <1>9, <2>2, <2>3, <2>4
<1>16. y[z] = NUL
  <2>1. CASE z = end
    BY <1>14, <2>1
  <2>2. CASE z # end
    <3>1. z \in Offsets /\ end < z /\ z <= z
      BY <1>1, <1>9, <2>2
    <3>2. QED BY <1>1, <1>9, <1>14, <3>1
  <2>3. QED BY <2>1, <2>2
<1>17. \A q \in 0 .. z : y[q] # NL
  <2>0. \A q \in 0 .. n : x[q] # NL
    BY DEF Delimited, x
  <2>1. TAKE q \in 0 .. z
  <2>2. CASE q < p /\ q \in 0 .. n - 1
    <3>1. q \in 0 .. n
      BY <1>1, <2>2
    <3>2. QED BY <1>14, <1>15, <2>0, <2>2, <3>1
  <2>3. CASE \E i \in 1 .. Len(t) : q = p + i - 1
    BY <1>2, <1>14, <2>3
  <2>4. CASE q = end
    BY <1>14, <2>4, SizeFacts
  <2>5. CASE end < q /\ q <= z
    <3>1. y[q] = x[q - g] /\ q - g \in e + 1 .. n
      BY <1>14, <1>15, <2>5
    <3>2. q - g \in 0 .. n
      BY <1>1, <1>4, <3>1
    <3>3. QED BY <2>0, <3>1, <3>2
  <2>6. QED BY <1>15, <2>2, <2>3, <2>4, <2>5
<1>18. Len(r) = m /\ r \in Seq(0 .. z)
  <2>1. \A j \in 1 .. m : (IF j > k THEN v.ptr[j] + g ELSE v.ptr[j]) \in 0 .. z
    <3>1. TAKE j \in 1 .. m
    <3>2. v.ptr[j] \in 0 .. n /\ (j <= k => v.ptr[j] <= p) /\ (j > k => v.ptr[j] >= e + 1)
      BY <1>3, <1>13
    <3>3. CASE j > k
      <4> DEFINE u == v.ptr[j]
      <4>1. u \in 0 .. n /\ u >= e + 1 /\ g \in Int
        BY <1>4, <1>5, <1>9, <3>2, <3>3
      <4> HIDE DEF u
      <4>2. u + g >= end + 1
        BY <1>1, <1>4, <1>5, <1>9, <4>1
      <4>3. u + g <= z
        BY <1>1, <1>9, <4>1
      <4>4. u + g \in 0 .. z
        BY <1>9, <4>1, <4>2, <4>3
      <4>5. QED BY <3>3, <4>4 DEF u
    <3>4. CASE ~ (j > k)
      <4>1. v.ptr[j] \in 0 .. z
        BY <1>1, <1>4, <1>9, <3>2, <3>4
      <4>2. QED BY <3>4, <4>1
    <3>5. QED BY <3>3, <3>4
  <2>2. r = [j \in 1 .. m |-> IF j > k THEN v.ptr[j] + g ELSE v.ptr[j]]
    BY <1>6
  <2>3. QED BY <1>1, <2>1, <2>2
<1>19. w \in Views /\ r # <<>>
  <2> DEFINE S == 0 .. z
  <2>1. S \subseteq Offsets
    BY <1>1, <1>9
  <2>2. r \in Seq(S)
    BY <1>18
  <2> HIDE DEF S
  <2>3. r \in Seq(Offsets)
    BY <2>1, <2>2
  <2>4. w \in Views
    BY <1>6, <2>3 DEF Views
  <2>5. Len(v.ptr) # 0
    BY <1>1, PtrTyped
  <2>6. r # <<>>
    BY <1>18, <2>5 DEF m
  <2>7. QED BY <2>4, <2>6
<1>20. CutAt(y, NUL, r, z)
  <2>1. Len(r) >= 1 /\ r[1] = 0
    <3>1. 1 \in 1 .. m /\ ~ (1 > k) /\ v.ptr[1] = 0
      BY <1>1, <1>3 DEF CutAt
    <3>2. QED BY <1>1, <1>8, <1>18, <3>1
  <2>2. \A a, b \in 1 .. Len(r) : a < b => r[a] < r[b]
    <3>1. TAKE a \in 1 .. Len(r), b \in 1 .. Len(r)
    <3>2. HAVE a < b
    <3>3. /\ a \in 1 .. m /\ b \in 1 .. m /\ v.ptr[a] < v.ptr[b]
          /\ v.ptr[a] \in 0 .. n /\ v.ptr[b] \in 0 .. n
      BY <1>3, <1>12, <1>18, <3>2
    <3>4. CASE a > k
      <4> DEFINE ta == v.ptr[a]
                 tb == v.ptr[b]
      <4>1. r[a] = ta + g /\ r[b] = tb + g
        BY <1>1, <1>8, <3>2, <3>3, <3>4
      <4>2. ta \in Nat /\ tb \in Nat /\ ta < tb
        BY <1>1, <3>3
      <4>3. g \in Int
        BY <1>4, <1>5, <1>9
      <4> HIDE DEF ta, tb
      <4>4. QED BY <4>1, <4>2, <4>3
    <3>5. CASE a <= k /\ b > k
      <4> DEFINE ta == v.ptr[a]
                 tb == v.ptr[b]
      <4>1. r[a] = ta /\ r[b] = tb + g /\ ta <= p /\ tb >= e + 1
        BY <1>1, <1>8, <1>13, <3>3, <3>5
      <4>2. ta \in Nat /\ tb \in Nat
        BY <1>1, <3>3
      <4> HIDE DEF ta, tb
      <4>3. tb + g >= end + 1
        BY <1>4, <1>5, <1>9, <4>1, <4>2
      <4>4. QED BY <1>4, <1>5, <1>9, <4>1, <4>2, <4>3
    <3>6. CASE a <= k /\ b <= k
      <4>1. r[a] = v.ptr[a] /\ r[b] = v.ptr[b]
        BY <1>1, <1>8, <3>3, <3>6
      <4>2. QED BY <3>3, <4>1
    <3>7. QED BY <1>1, <3>3, <3>4, <3>5, <3>6
  <2>3. \A j \in 2 .. Len(r) : y[r[j] - 1] = NUL
    <3>1. TAKE j \in 2 .. Len(r)
    <3>2. /\ j \in 1 .. m /\ j \in 2 .. m /\ v.ptr[j] \in 0 .. n /\ v.ptr[j] > 0
          /\ x[v.ptr[j] - 1] = NUL
      <4>1. j \in 1 .. m /\ j \in 2 .. m
        BY <1>1, <1>18
      <4>2. v.ptr[j] \in 0 .. n
        BY <1>3, <4>1
      <4>3. v.ptr[j] > 0
        BY <1>1, <1>3, <4>1, CutBounds DEF m
      <4>4. x[v.ptr[j] - 1] = NUL
        BY <1>3, <4>1 DEF CutAt, m
      <4>5. QED BY <4>1, <4>2, <4>3, <4>4
    <3> DEFINE q == r[j] - 1
               u == v.ptr[j]
    <3>3. CASE j <= k
      <4>1. r[j] = u /\ u <= p
        BY <1>1, <1>8, <1>13, <3>2, <3>3
      <4>2. q = u - 1 /\ q \in Offsets /\ q < p
        <5>1. u \in Nat /\ u > 0 /\ u <= n
          BY <1>1, <3>2
        <5>2. q = u - 1
          BY <4>1
        <5> HIDE DEF u, q
        <5>3. q \in 0 .. Size - 1 /\ q < p
          BY <1>1, <1>4, <4>1, <5>1, <5>2
        <5>4. QED BY <1>1, <5>2, <5>3
      <4>3. y[q] = x[q] /\ x[u - 1] = NUL
        <5> HIDE DEF q
        <5>1. QED BY <1>14, <3>2, <4>2
      <4> HIDE DEF u, q
      <4>4. y[q] = NUL
        BY <4>2, <4>3
      <4>5. QED BY <4>4 DEF q
    <3>4. CASE j = k + 1
      <4>1. r[j] = u + g /\ u = e + 1
        BY <1>1, <1>8, <1>10, <3>2, <3>4
      <4>2. q = end
        BY <1>4, <1>5, <1>9, <4>1
      <4> HIDE DEF u, q
      <4>3. y[q] = NUL
        BY <1>14, <4>2
      <4>4. QED BY <4>3 DEF q
    <3>5. CASE j > k + 1
      <4>1. r[j] = u + g /\ u > e + 1
        BY <1>1, <1>8, <1>13, <3>2, <3>5
      <4>2. q \in Offsets /\ end < q /\ q <= z /\ q - g = u - 1
        <5>1. r[j] = u + g /\ u > e + 1 /\ u \in Nat /\ u <= n
          BY <1>1, <3>2, <4>1
        <5> HIDE DEF u
        <5>2. q = u + g - 1 /\ q \in Int
          BY <1>4, <1>5, <1>9, <5>1
        <5> HIDE DEF q
        <5>3. end < q /\ q <= z /\ q - g = u - 1
          <6>1. g \in Int /\ q - g = u - 1
            BY <1>4, <1>5, <1>9, <5>1, <5>2
          <6>2. end < q
            BY <1>4, <1>5, <1>9, <5>1, <5>2
          <6>3. q <= z
            BY <1>1, <1>9, <5>1, <5>2, <6>1
          <6>4. QED BY <6>1, <6>2, <6>3
        <5>4. q \in Offsets
          BY <1>1, <1>9, <5>2, <5>3
        <5>5. QED BY <5>3, <5>4
      <4>3. y[q] = x[q - g] /\ x[u - 1] = NUL
        <5> HIDE DEF q
        <5>1. QED BY <1>14, <3>2, <4>2
      <4> HIDE DEF u, q
      <4>4. y[q] = NUL
        BY <4>2, <4>3
      <4>5. QED BY <4>4 DEF q
    <3>6. QED BY <1>1, <3>2, <3>3, <3>4, <3>5
  <2>4. \A q \in 0 .. z - 1 : y[q] = NUL => \E j \in 2 .. Len(r) : r[j] = q + 1
    <3>0. \A q \in 0 .. n - 1 : x[q] = NUL => \E j \in 2 .. m : v.ptr[j] = q + 1
      BY <1>3 DEF CutAt, m
    <3>1. TAKE q \in 0 .. z - 1
    <3>2. HAVE y[q] = NUL
    <3>3. q \in 0 .. z /\ q \in Offsets /\ q \in Nat /\ q < z
      BY <1>9, <1>15
    <3>4. CASE q < p /\ q \in 0 .. n - 1
      <4>1. x[q] = NUL
        BY <1>14, <3>2, <3>3, <3>4
      <4>2. PICK j \in 2 .. m : v.ptr[j] = q + 1
        BY <3>0, <3>4, <4>1
      <4>3. j \in 1 .. m /\ j <= k
        <5>1. j \in 1 .. m
          BY <1>1
        <5>2. ~ (v.ptr[j] >= e + 1)
          BY <1>4, <3>3, <3>4, <4>2
        <5>3. QED BY <1>1, <1>13, <5>1, <5>2
      <4>4. r[j] = q + 1 /\ j \in 2 .. Len(r)
        BY <1>1, <1>8, <1>18, <4>2, <4>3
      <4>5. QED BY <4>4
    <3>5. ~ \E i \in 1 .. Len(t) : q = p + i - 1
      BY <1>2, <1>14, <3>2
    <3>6. CASE q = end
      <4>1. k < m
        <5>1. k = m => z = end
          BY <1>1, <1>4, <1>5, <1>9, <1>11
        <5>2. QED BY <1>1, <3>3, <3>6, <5>1
      <4>2. k + 1 \in 2 .. Len(r) /\ k + 1 \in 1 .. m /\ k + 1 > k
        BY <1>1, <1>18, <4>1
      <4>3. r[k + 1] = v.ptr[k + 1] + g /\ v.ptr[k + 1] = e + 1
        BY <1>8, <1>10, <4>1, <4>2
      <4>4. r[k + 1] = q + 1
        BY <1>4, <1>5, <1>9, <3>6, <4>3
      <4>5. QED BY <4>2, <4>4
    <3>7. CASE end < q /\ q <= z
      <4> DEFINE u == q - g
      <4>1. y[q] = x[u] /\ u \in e + 1 .. n
        BY <1>14, <3>3, <3>7
      <4>2. u \in 0 .. n - 1 /\ u + 1 > e + 1 /\ u + g = q
        BY <1>1, <1>4, <1>5, <1>9, <3>3, <4>1
      <4> HIDE DEF u
      <4>3. PICK j \in 2 .. m : v.ptr[j] = u + 1
        BY <3>0, <3>2, <4>1, <4>2
      <4>4. j \in 1 .. m /\ j > k
        <5>1. j \in 1 .. m
          BY <1>1
        <5>2. ~ (v.ptr[j] <= p)
          BY <1>4, <4>2, <4>3
        <5>3. QED BY <1>1, <1>13, <5>1, <5>2
      <4>5. r[j] = v.ptr[j] + g /\ j \in 2 .. Len(r)
        BY <1>8, <1>18, <4>4
      <4>6. r[j] = q + 1
        BY <1>4, <1>5, <1>9, <4>2, <4>3, <4>5
      <4>7. QED BY <4>5, <4>6
    <3>8. QED BY <1>15, <3>3, <3>4, <3>5, <3>6, <3>7
  <2>5. QED BY <1>18, <2>1, <2>2, <2>3, <2>4 DEF CutAt
<1>21. Delimited(w, z)
  <2>1. z \in Offsets
    BY <1>1, <1>9
  <2>2. QED BY <1>16, <1>17, <1>19, <1>20, <2>1 DEF Delimited, y, r
<1>22. x[Size - 1] = NUL => y[Size - 1] = NUL
  <2>1. HAVE x[Size - 1] = NUL
  <2>2. CASE z = Size - 1
    BY <1>16, <2>2
  <2>3. CASE z # Size - 1
    <3> DEFINE q == Size - 1
    <3>1. q \in Offsets /\ ~ (q < p) /\ ~ (q < end) /\ q # end /\ ~ (q <= z)
      BY <1>1, <1>4, <1>9, <2>3
    <3> HIDE DEF q
    <3>2. y[q] = x[q]
      BY <1>7, <3>1
    <3>3. QED BY <2>1, <3>2 DEF q
  <2>4. QED BY <2>2, <2>3
<1> DEFINE d == ParagraphsOf(v)
           f == ParagraphsOf(w)
<1>23. /\ d \in Docs /\ Len(d) = m
       /\ \A j \in 1 .. m :
             /\ d[j] \in Seq(Bytes) /\ Len(d[j]) = EndAt(v, n, j) - v.ptr[j]
             /\ \A i \in 1 .. EndAt(v, n, j) - v.ptr[j] : d[j][i] = x[v.ptr[j] + i - 1]
  BY ParagraphsTyped DEF m, x
<1>24. /\ f \in Docs /\ Len(f) = m
       /\ \A j \in 1 .. m :
             /\ f[j] \in Seq(Bytes) /\ Len(f[j]) = EndAt(w, z, j) - r[j]
             /\ \A i \in 1 .. EndAt(w, z, j) - r[j] : f[j][i] = y[r[j] + i - 1]
  <2>1. Len(w.ptr) = m
    BY <1>18 DEF r
  <2>2. /\ f \in Docs /\ Len(f) = Len(w.ptr)
        /\ \A j \in 1 .. Len(w.ptr) :
              /\ f[j] \in Seq(Bytes) /\ Len(f[j]) = EndAt(w, z, j) - w.ptr[j]
              /\ \A i \in 1 .. EndAt(w, z, j) - w.ptr[j] : f[j][i] = w.buf[w.ptr[j] + i - 1]
    BY <1>19, <1>21, ParagraphsTyped
  <2>3. QED BY <2>1, <2>2 DEF r, y
<1> HIDE DEF d, f
<1>25. ASSUME NEW j \in 1 .. m
       PROVE  EndAt(w, z, j) = IF j < k THEN EndAt(v, n, j)
                               ELSE IF j = k THEN end ELSE EndAt(v, n, j) + g
  <2>1. CASE j < m
    <3>1. /\ EndAt(w, z, j) = r[j + 1] - 1 /\ EndAt(v, n, j) = v.ptr[j + 1] - 1
          /\ j + 1 \in 1 .. m
      BY <1>1, <1>18, <2>1 DEF EndAt, r, m
    <3>2. r[j + 1] = (IF j + 1 > k THEN v.ptr[j + 1] + g ELSE v.ptr[j + 1]) /\ v.ptr[j + 1] \in Nat
      BY <1>3, <1>8, <3>1
    <3>3. CASE j < k
      BY <1>1, <3>1, <3>2, <3>3
    <3>4. CASE j = k
      <4>1. v.ptr[j + 1] = e + 1 /\ r[j + 1] = v.ptr[j + 1] + g
        BY <1>1, <1>10, <2>1, <3>2, <3>4
      <4>2. QED BY <1>4, <1>5, <1>9, <3>1, <3>4, <4>1
    <3>5. CASE j > k
      <4>1. r[j + 1] = v.ptr[j + 1] + g
        BY <1>1, <3>2, <3>5
      <4>2. QED BY <1>1, <1>4, <1>5, <1>9, <3>1, <3>2, <3>5, <4>1
    <3>6. QED BY <1>1, <3>3, <3>4, <3>5
  <2>2. CASE j = m
    <3>1. EndAt(w, z, j) = z /\ EndAt(v, n, j) = n
      BY <1>1, <1>18, <2>2 DEF EndAt, r, m
    <3>2. k = m => z = end
      BY <1>1, <1>4, <1>5, <1>9, <1>11
    <3>3. z = n + g
      BY DEF z
    <3>4. QED BY <1>1, <2>2, <3>1, <3>2, <3>3
  <2>3. QED BY <1>1, <2>1, <2>2
<1>26. f[k] = t
  <2>1. k \in 1 .. m /\ ~ (k < k) /\ ~ (k > k)
    BY <1>1
  <2>2. EndAt(w, z, k) = end /\ r[k] = p /\ end - p = Len(t)
    BY <1>2, <1>4, <1>8, <1>25, <2>1 DEF p, end
  <2>3. /\ f[k] \in Seq(Bytes) /\ Len(f[k]) = Len(t)
        /\ \A i \in 1 .. Len(t) : f[k][i] = y[p + i - 1]
    BY <1>24, <2>1, <2>2
  <2> DEFINE s == f[k]
  <2>4. s \in Seq(Bytes) /\ Len(s) = Len(t) /\ \A i \in 1 .. Len(s) : s[i] = t[i]
    BY <1>14, <2>3
  <2> HIDE DEF s
  <2>5. s = t
    BY <1>2, <2>4, SameText
  <2>6. QED BY <2>5 DEF s
<1>27. ASSUME NEW j \in 1 .. m, j # k PROVE f[j] = d[j]
  <2> DEFINE u == v.ptr[j]
             c == EndAt(v, n, j)
  <2>1. u \in Nat /\ c \in u .. n
    <3>1. u \in Offsets /\ c \in u .. n
      BY ParagraphEnd DEF m
    <3>2. QED BY <1>1, <3>1
  <2>2. /\ d[j] \in Seq(Bytes) /\ f[j] \in Seq(Bytes)
        /\ Len(d[j]) = c - u /\ Len(f[j]) = EndAt(w, z, j) - r[j]
        /\ \A i \in 1 .. c - u : d[j][i] = x[u + i - 1]
        /\ \A i \in 1 .. EndAt(w, z, j) - r[j] : f[j][i] = y[r[j] + i - 1]
    BY <1>23, <1>24
  <2>3. CASE j < k
    <3>1. EndAt(w, z, j) = c /\ r[j] = u /\ c < p
      <4>1. EndAt(w, z, j) = c /\ r[j] = u
        BY <1>1, <1>8, <1>25, <2>3
      <4>2. j < m /\ j + 1 \in 1 .. m /\ j + 1 <= k
        BY <1>1, <2>3
      <4>3. c = v.ptr[j + 1] - 1 /\ v.ptr[j + 1] <= p /\ v.ptr[j + 1] \in Nat
        BY <1>3, <1>13, <4>2 DEF EndAt, m
      <4> HIDE DEF c, u
      <4>4. QED BY <1>4, <4>1, <4>3
    <3> HIDE DEF c, u
    <3>2. \A i \in 1 .. c - u : y[u + i - 1] = x[u + i - 1]
      <4>1. TAKE i \in 1 .. c - u
      <4> DEFINE q == u + i - 1
      <4>2. q \in Nat /\ q < c
        BY <1>1, <2>1
      <4> HIDE DEF q
      <4>3. q \in 0 .. Size - 1 /\ q < p
        BY <1>1, <1>4, <2>1, <3>1, <4>2
      <4>4. y[q] = x[q]
        BY <1>1, <1>14, <4>3
      <4>5. QED BY <4>4 DEF q
    <3>3. Len(f[j]) = Len(d[j]) /\ \A i \in 1 .. Len(f[j]) : f[j][i] = d[j][i]
      BY <2>2, <3>1, <3>2
    <3>4. QED BY <2>2, <3>3, SameText
  <2>4. CASE j > k
    <3>1. EndAt(w, z, j) = c + g /\ r[j] = u + g /\ u >= e + 1
      <4>1. EndAt(w, z, j) = c + g /\ r[j] = u + g
        BY <1>1, <1>8, <1>25, <2>4
      <4>2. u >= e + 1
        BY <1>13, <2>4
      <4>3. QED BY <4>1, <4>2
    <3> HIDE DEF c, u
    <3>2. EndAt(w, z, j) - r[j] = c - u
      BY <1>4, <1>5, <1>9, <2>1, <3>1
    <3>3. \A i \in 1 .. c - u : y[r[j] + i - 1] = x[u + i - 1]
      <4>1. TAKE i \in 1 .. c - u
      <4> DEFINE q == r[j] + i - 1
      <4>2. q = u + i - 1 + g /\ q - g = u + i - 1
        BY <1>4, <1>5, <1>9, <2>1, <3>1
      <4>3. end < q /\ q <= z /\ q \in Nat
        <5> HIDE DEF q
        <5>1. QED BY <1>1, <1>4, <1>5, <1>9, <2>1, <3>1, <4>2
      <4> HIDE DEF q
      <4>4. q \in Offsets
        BY <1>1, <1>9, <4>3
      <4>5. y[q] = x[u + i - 1]
        BY <1>14, <4>2, <4>3, <4>4
      <4>6. QED BY <4>5 DEF q
    <3>4. Len(f[j]) = Len(d[j]) /\ \A i \in 1 .. Len(f[j]) : f[j][i] = d[j][i]
      BY <2>2, <3>2, <3>3
    <3>5. QED BY <2>2, <3>4, SameText
  <2>5. QED BY <1>1, <1>27, <2>3, <2>4
<1>28. f = [d EXCEPT ![k] = t]
  <2> DEFINE S == Seq(Bytes)
             a == [d EXCEPT ![k] = t]
  <2>1. d \in Seq(S) /\ f \in Seq(S) /\ t \in S
    BY <1>2, <1>23, <1>24 DEF Docs
  <2> HIDE DEF S
  <2>2. a \in Seq(S) /\ Len(a) = m /\ \A j \in 1 .. m : a[j] = IF j = k THEN t ELSE d[j]
    BY <1>1, <1>23, <2>1
  <2> HIDE DEF a
  <2>3. \A j \in 1 .. Len(f) : f[j] = a[j]
    BY <1>24, <1>26, <1>27, <2>2
  <2>4. Len(f) = Len(a)
    BY <1>24, <2>2
  <2>5. f = a
    BY <2>1, <2>2, <2>3, <2>4, SameText
  <2>6. QED BY <2>5 DEF a
<1>29. QED
  <2>1. w \in Views /\ Len(w.ptr) = Len(v.ptr)
    BY <1>18, <1>19 DEF r, m
  <2>2. Delimited(w, n + Growth(v, n, k, t))
    BY <1>21 DEF z, g
  <2>3. ParagraphsOf(w) = [ParagraphsOf(v) EXCEPT ![k] = t]
    BY <1>28 DEF d, f
  <2>4. v.buf[Size - 1] = NUL => w.buf[Size - 1] = NUL
    BY <1>22 DEF x, y
  <2>5. QED BY <2>1, <2>2, <2>3, <2>4 DEF w

-----------------------------------------------------------------------------
(* A paragraph removed.                                                    *)

\* The buffers with the end of the text, and what follows it, of v.
Kept(v, n) ==
    {b \in [Offsets -> Bytes] :
        /\ \A q \in 0 .. n : b[q] # NL
        /\ \A q \in Offsets : q >= n => b[q] = v.buf[q]}

\* One copy of the loop is over bytes before the end of the text.
LEMMA ShiftOnce ==
    ASSUME NEW v \in Views, NEW n, Delimited(v, n), NEW i \in 2 .. Len(v.ptr),
           NEW b \in Kept(v, n)
    PROVE  MemMove(b, v.ptr[i - 1], v.ptr[i], StrLen(b, v.ptr[i]) + 1) \in Kept(v, n)
<1> DEFINE p == v.ptr[i]
           o == v.ptr[i - 1]
           l == StrLen(b, p)
           c == MemMove(b, o, p, l + 1)
<1>1. /\ n \in Nat /\ n <= Size - 1 /\ Size \in Nat /\ Len(v.ptr) \in Nat
      /\ v.ptr # <<>> /\ v.buf[n] = NUL
      /\ \A q : q \in Offsets <=> q \in 0 .. Size - 1
  BY SizeFacts, PtrTyped DEF Delimited, Offsets
<1>2. p \in 0 .. n /\ o \in 0 .. n /\ o < p
  <2>1. CutAt(v.buf, NUL, v.ptr, n)
    BY <1>1 DEF Delimited
  <2>2. i \in 1 .. Len(v.ptr) /\ i - 1 \in 1 .. Len(v.ptr) /\ i - 1 < i
    BY <1>1
  <2>3. v.ptr[i - 1] < v.ptr[i]
    BY <2>1, <2>2 DEF CutAt
  <2>4. \A j \in 1 .. Len(v.ptr) : v.ptr[j] \in 0 .. n
    BY <1>1, <2>1, CutBounds
  <2>5. QED BY <2>2, <2>3, <2>4
<1>3. /\ b \in [Offsets -> Bytes] /\ \A q \in 0 .. n : b[q] # NL
      /\ \A q \in Offsets : q >= n => b[q] = v.buf[q]
  BY DEF Kept
<1>4. b[n] = NUL
  <2>1. n \in Offsets /\ n >= n
    BY <1>1
  <2>2. QED BY <1>1, <1>3, <2>1
<1>5. l \in 0 .. n - p
  <2>1. p \in Offsets /\ n \in p .. Size - 1
    BY <1>1, <1>2
  <2> HIDE DEF p
  <2>2. QED BY <1>4, <2>1, StrLenExists
<1> HIDE DEF p, o, l
<1>6. \A q \in Offsets :
        c[q] = IF q \in o .. o + l THEN b[p + q - o] ELSE b[q]
  <2>1. o + (l + 1) - 1 = o + l
    BY <1>2, <1>5
  <2>2. QED BY <2>1 DEF MemMove
<1>7. c = [q \in Offsets |-> c[q]]
  BY DEF MemMove
<1> HIDE DEF c
<1>8. \A q \in Offsets : q \in o .. o + l => p + q - o \in 0 .. n /\ p + q - o \in Offsets /\ q < n
  BY <1>1, <1>2, <1>5
<1>9. c \in [Offsets -> Bytes]
  <2>1. \A q \in Offsets : c[q] \in Bytes
    BY <1>3, <1>6, <1>8
  <2>2. QED BY <1>7, <2>1
<1>10. \A q \in 0 .. n : c[q] # NL
  <2>1. TAKE q \in 0 .. n
  <2>2. q \in Offsets
    BY <1>1
  <2>3. QED BY <1>3, <1>6, <1>8, <2>2
<1>11. \A q \in Offsets : q >= n => c[q] = v.buf[q]
  <2>1. TAKE q \in Offsets
  <2>2. HAVE q >= n
  <2>3. ~ (q < n)
    BY <1>1, <2>2
  <2>4. QED BY <1>3, <1>6, <1>8, <2>2, <2>3
<1>12. QED BY <1>9, <1>10, <1>11 DEF Kept, c, o, p, l

\* The paragraphs of a text follow each other, and cover it.
Laid(v, n) ==
    /\ n \in Nat /\ n <= Size - 1 /\ Len(v.ptr) \in Nat \ {0} /\ v.ptr[1] = 0
    /\ EndAt(v, n, Len(v.ptr)) = n
    /\ \A j \in 1 .. Len(v.ptr) :
          /\ v.ptr[j] \in Nat /\ EndAt(v, n, j) \in Nat
          /\ v.ptr[j] <= EndAt(v, n, j) /\ EndAt(v, n, j) <= n
          /\ v.buf[EndAt(v, n, j)] = NUL
          /\ \A q \in v.ptr[j] .. EndAt(v, n, j) - 1 : v.buf[q] \notin {NUL, NL}
    /\ \A j \in 1 .. Len(v.ptr) - 1 : v.ptr[j + 1] = EndAt(v, n, j) + 1
    /\ \A i, j \in 1 .. Len(v.ptr) : i < j => EndAt(v, n, i) < v.ptr[j]
    /\ \A q \in 0 .. n : \E j \in 1 .. Len(v.ptr) : q \in v.ptr[j] .. EndAt(v, n, j)

LEMMA Places ==
    ASSUME NEW v \in Views, NEW n, Delimited(v, n), v.ptr # <<>>
    PROVE  Laid(v, n)
<1> DEFINE m == Len(v.ptr)
           P(j) == v.ptr[j]
           E(j) == EndAt(v, n, j)
<1>1. n \in Nat /\ n <= Size - 1 /\ Size \in Nat /\ m \in Nat \ {0} /\ v.buf[n] = NUL
  BY PtrTyped, SizeFacts DEF Delimited, Offsets
<1>2. CutAt(v.buf, NUL, v.ptr, n) /\ P(1) = 0
  BY DEF Delimited, CutAt
<1>3. E(m) = n
  BY <1>1 DEF EndAt
<1>4. ASSUME NEW j \in 1 .. m
      PROVE  /\ P(j) \in Nat /\ E(j) \in Nat /\ P(j) <= E(j) /\ E(j) <= n
             /\ \A q \in P(j) .. E(j) - 1 : v.buf[q] \notin {NUL, NL}
  <2>1. /\ P(j) \in Offsets /\ E(j) \in P(j) .. n
        /\ \A q \in P(j) .. E(j) - 1 : v.buf[q] \notin {NUL, NL}
    BY ParagraphEnd
  <2> HIDE DEF P, E
  <2>2. P(j) \in Nat
    BY <2>1 DEF Offsets
  <2>3. QED BY <1>1, <2>1, <2>2
<1>5. ASSUME NEW j \in 1 .. m - 1 PROVE P(j + 1) = E(j) + 1 /\ v.buf[E(j)] = NUL
  <2>1. j < m /\ j + 1 \in 2 .. m /\ j + 1 \in 1 .. m
    BY <1>1
  <2>2. E(j) = P(j + 1) - 1 /\ v.buf[P(j + 1) - 1] = NUL
    BY <1>2, <2>1 DEF EndAt, CutAt
  <2>3. P(j + 1) \in Nat
    BY <1>4, <2>1
  <2> HIDE DEF P, E
  <2>4. QED BY <2>2, <2>3
<1>6. \A j \in 1 .. m : v.buf[E(j)] = NUL
  <2>1. \A j \in 1 .. m : j = m \/ j \in 1 .. m - 1
    BY <1>1
  <2> HIDE DEF E, m
  <2>2. QED BY <1>1, <1>3, <1>5, <2>1
<1>7. ASSUME NEW i \in 1 .. m, NEW j \in 1 .. m, i < j PROVE E(i) < P(j)
  <2>1. i \in 1 .. m - 1 /\ i + 1 \in 1 .. m /\ (i + 1 = j \/ i + 1 < j)
    BY <1>1, <1>7
  <2>2. P(i + 1) = E(i) + 1 /\ P(i + 1) \in Nat /\ P(j) \in Nat /\ E(i) \in Nat
    BY <1>4, <1>5, <2>1
  <2>3. i + 1 < j => P(i + 1) < P(j)
    BY <1>2, <2>1 DEF CutAt
  <2> HIDE DEF P, E
  <2>4. QED BY <2>1, <2>2, <2>3
<1>8. ASSUME NEW q \in 0 .. n PROVE \E j \in 1 .. m : q \in P(j) .. E(j)
  <2> HIDE DEF P, E, m
  <2> DEFINE S == {j \in Nat : j \in 1 .. m /\ q <= E(j)}
  <2>1. m \in S
    BY <1>1, <1>3
  <2>2. PICK j \in S : \A i \in S : j <= i
    BY <2>1, LeastOf
  <2>3. j \in 1 .. m /\ q <= E(j) /\ P(j) \in Nat /\ E(j) \in Nat
    BY <1>4, <2>2
  <2>4. P(j) <= q
    <3>1. CASE j = 1
      BY <1>2, <3>1
    <3>2. CASE j # 1
      <4>1. j - 1 \in 1 .. m - 1 /\ j - 1 \in 1 .. m /\ (j - 1) + 1 = j /\ ~ (j <= j - 1)
        BY <1>1, <2>3, <3>2
      <4>2. ~ (q <= E(j - 1))
        BY <2>2, <4>1
      <4>3. P(j) = E(j - 1) + 1 /\ E(j - 1) \in Nat
        BY <1>4, <1>5, <4>1
      <4>4. QED BY <4>2, <4>3
    <3>3. QED BY <3>1, <3>2
  <2>5. QED BY <2>3, <2>4
<1>9. QED BY <1>1, <1>2, <1>3, <1>4, <1>5, <1>6, <1>7, <1>8 DEF m, P, E, Laid

\* After the copy of the i-th paragraph, the paragraphs after the k-th up to it
\* are at the place of the one before, and what follows it has not moved.
Moved(v, n, k, i, b) ==
    /\ \A q \in Offsets : q < v.ptr[k] => b[q] = v.buf[q]
    /\ \A q \in Offsets : q >= EndAt(v, n, i) => b[q] = v.buf[q]
    /\ \A j \in k .. i - 1, q \in Offsets :
          /\ v.ptr[j] <= q /\ q - v.ptr[j] <= EndAt(v, n, j + 1) - v.ptr[j + 1]
          /\ j < i - 1 => q < v.ptr[j + 1]
          => b[q] = v.buf[v.ptr[j + 1] + (q - v.ptr[j])]

LEMMA MoveOnce ==
    ASSUME NEW v \in Views, NEW n, Delimited(v, n), NEW k \in 1 .. Len(v.ptr),
           NEW i \in k + 1 .. Len(v.ptr), NEW b \in Kept(v, n), Moved(v, n, k, i - 1, b)
    PROVE  Moved(v, n, k, i, MemMove(b, v.ptr[i - 1], v.ptr[i], StrLen(b, v.ptr[i]) + 1))
<1> DEFINE m == Len(v.ptr)
           P(j) == v.ptr[j]
           E(j) == EndAt(v, n, j)
           l == E(i) - P(i)
           c == MemMove(b, P(i - 1), P(i), StrLen(b, P(i)) + 1)
<1>1. /\ n \in Nat /\ n <= Size - 1 /\ Size \in Nat /\ m \in Nat /\ v.ptr # <<>>
      /\ \A q : q \in Offsets <=> q \in 0 .. Size - 1
  BY SizeFacts, PtrTyped DEF Delimited, Offsets
<1>2. /\ \A j \in 1 .. m : /\ P(j) \in Nat /\ E(j) \in Nat /\ P(j) <= E(j) /\ E(j) <= n
                           /\ v.buf[E(j)] = NUL
                           /\ \A q \in P(j) .. E(j) - 1 : v.buf[q] \notin {NUL, NL}
      /\ \A j \in 1 .. m - 1 : P(j + 1) = E(j) + 1
      /\ \A h, j \in 1 .. m : h < j => E(h) < P(j)
  <2>1. Laid(v, n)
    BY <1>1, Places
  <2>2. QED BY <2>1 DEF Laid
<1>3. /\ \A q \in Offsets : q < P(k) => b[q] = v.buf[q]
      /\ \A q \in Offsets : q >= E(i - 1) => b[q] = v.buf[q]
      /\ \A j \in k .. (i - 1) - 1, q \in Offsets :
            /\ P(j) <= q /\ q - P(j) <= E(j + 1) - P(j + 1)
            /\ j < (i - 1) - 1 => q < P(j + 1)
            => b[q] = v.buf[P(j + 1) + (q - P(j))]
  BY DEF Moved
<1> HIDE DEF m, P, E, l
<1>4. /\ k \in 1 .. m /\ i \in 1 .. m /\ i - 1 \in 1 .. m - 1 /\ i - 1 \in 1 .. m /\ k <= i - 1
      /\ (i - 1) + 1 = i /\ (i - 1) - 1 = i - 2
  BY <1>1 DEF m
<1>5. /\ P(i) = E(i - 1) + 1 /\ P(i) \in Nat /\ P(i - 1) \in Nat /\ E(i) \in Nat
      /\ E(i - 1) \in Nat /\ P(i - 1) <= E(i - 1) /\ P(i) <= E(i) /\ E(i) <= n /\ l \in Nat
      /\ l = E(i) - P(i) /\ P(k) \in Nat
  BY <1>2, <1>4 DEF l
<1>6. P(k) <= P(i - 1)
  <2>1. CASE k = i - 1
    BY <1>5, <2>1
  <2>2. CASE k < i - 1
    <3>1. E(k) < P(i - 1) /\ P(k) <= E(k) /\ E(k) \in Nat
      BY <1>2, <1>4, <2>2
    <3>2. QED BY <1>5, <3>1
  <2>3. QED BY <1>4, <2>1, <2>2
<1> DEFINE o == P(i - 1)
           p == P(i)
           f == E(i - 1)
           h == E(i)
\* The two paragraphs the copy is about, from o to f and from p to h.
<1>7. /\ o \in Nat /\ p \in Nat /\ f \in Nat /\ h \in Nat /\ l \in Nat /\ n \in Nat
      /\ p = f + 1 /\ o <= f /\ p <= h /\ h = p + l /\ h <= n /\ n <= Size - 1 /\ Size \in Nat
  <2>1. /\ o \in Nat /\ p \in Nat /\ f \in Nat /\ h \in Nat /\ l \in Nat
        /\ p = f + 1 /\ o <= f /\ p <= h /\ l = h - p /\ h <= n
    BY <1>5
  <2> HIDE DEF o, p, f, h
  <2>2. QED BY <1>1, <2>1
<1> HIDE DEF o, p, f, h
<1>8. \A q \in P(i) .. E(i) : q \in Offsets /\ b[q] = v.buf[q]
  <2>1. SUFFICES ASSUME NEW q \in p .. h PROVE q \in Offsets /\ b[q] = v.buf[q]
    BY DEF p, h
  <2>2. q \in 0 .. Size - 1 /\ q >= f
    BY <1>7
  <2>3. q \in Offsets /\ q >= E(i - 1)
    BY <1>1, <2>2 DEF f
  <2>4. QED BY <1>3, <2>3
<1>9. StrLen(b, P(i)) = l
  <2>1. P(i) \in Offsets /\ l \in 0 .. Size - 1 - P(i) /\ P(i) + l = E(i) /\ E(i) \in P(i) .. E(i)
    <3>1. p \in 0 .. Size - 1 /\ l \in 0 .. Size - 1 - p /\ p + l = h /\ h \in p .. h
      BY <1>7
    <3>2. QED BY <1>1, <3>1 DEF p, h
  <2>2. b[P(i) + l] = NUL
    BY <1>2, <1>4, <1>8, <2>1
  <2>3. \A e \in 0 .. l - 1 : b[P(i) + e] # NUL
    <3>1. TAKE e \in 0 .. l - 1
    <3>2. P(i) + e \in P(i) .. E(i) - 1 /\ P(i) + e \in P(i) .. E(i)
      <4>1. p + e \in p .. h - 1 /\ p + e \in p .. h
        BY <1>7
      <4>2. QED BY <4>1 DEF p, h
    <3>3. QED BY <1>2, <1>4, <1>8, <3>2
  <2>4. QED BY <2>1, <2>2, <2>3, StrLenIs
<1>10. \A q \in Offsets :
        c[q] = IF q \in P(i - 1) .. P(i - 1) + l THEN b[P(i) + q - P(i - 1)] ELSE b[q]
  <2>1. P(i - 1) + (l + 1) - 1 = P(i - 1) + l
    <3>1. o + (l + 1) - 1 = o + l
      BY <1>7
    <3>2. QED BY <3>1 DEF o
  <2>2. QED BY <1>9, <2>1 DEF MemMove
<1> HIDE DEF c
<1>11. ASSUME NEW q \in Offsets, q \in P(i - 1) .. P(i - 1) + l
       PROVE  c[q] = v.buf[P(i) + (q - P(i - 1))]
  <2>1. q \in o .. o + l
    BY <1>11 DEF o
  <2>2. p + q - o = p + (q - o) /\ p + q - o \in p .. h
    BY <1>7, <2>1
  <2>3. QED BY <1>8, <1>10, <1>11, <2>2 DEF o, p, h
<1>12. ASSUME NEW q \in Offsets, q < P(i - 1) PROVE c[q] = b[q]
  <2>1. q \notin P(i - 1) .. P(i - 1) + l
    <3>1. q \in Nat /\ q < o
      BY <1>1, <1>12 DEF o
    <3>2. q \notin o .. o + l
      BY <1>7, <3>1
    <3>3. QED BY <3>2 DEF o
  <2>2. QED BY <1>10, <2>1
<1>13. \A q \in Offsets : q < P(k) => c[q] = v.buf[q]
  <2>1. TAKE q \in Offsets
  <2>2. HAVE q < P(k)
  <2>3. q < P(i - 1)
    <3> DEFINE x == P(k)
    <3>1. q \in Nat /\ x \in Nat /\ q < x /\ x <= o
      BY <1>1, <1>5, <1>6, <2>2 DEF o
    <3> HIDE DEF x
    <3>2. q < o
      BY <1>7, <3>1
    <3>3. QED BY <3>2 DEF o
  <2>4. QED BY <1>3, <1>12, <2>2, <2>3
<1>14. \A q \in Offsets : q >= E(i) => c[q] = v.buf[q]
  <2>1. TAKE q \in Offsets
  <2>2. HAVE q >= E(i)
  <2>3. q \in Nat /\ q >= h
    BY <1>1, <2>2 DEF h
  <2>4. q \notin o .. o + l /\ q >= f
    BY <1>7, <2>3
  <2>5. QED BY <1>3, <1>10, <2>4 DEF o, f
<1>15. ASSUME NEW j \in k .. i - 1, NEW q \in Offsets,
              P(j) <= q, q - P(j) <= E(j + 1) - P(j + 1), j < i - 1 => q < P(j + 1)
       PROVE  c[q] = v.buf[P(j + 1) + (q - P(j))]
  <2>1. CASE j = i - 1
    <3>1. q - P(i - 1) <= l /\ q \in P(i - 1) .. P(i - 1) + l
      <4>1. o <= q /\ q - o <= l /\ q \in Nat
        <5>1. P(j) = o /\ P(j + 1) = P(i) /\ E(j + 1) = E(i)
          BY <1>4, <2>1 DEF o
        <5>2. o <= q /\ q - o <= E(i) - P(i)
          BY <1>15, <5>1
        <5>3. QED BY <1>1, <1>5, <5>2
      <4>2. q - o <= l /\ q \in o .. o + l
        BY <1>7, <4>1
      <4>3. QED BY <4>2 DEF o
    <3>2. QED BY <1>4, <1>11, <2>1, <3>1
  <2>2. CASE j # i - 1
    <3>1. j \in k .. (i - 1) - 1 /\ j + 1 \in 1 .. m /\ j < i - 1 /\ (j + 1 = i - 1 \/ j + 1 < i - 1)
          /\ j \in 1 .. m
      BY <1>1, <1>4, <2>2
    <3>2. q < P(j + 1) /\ P(j + 1) \in Nat
      BY <1>2, <1>15, <3>1
    <3>3. P(j + 1) <= P(i - 1)
      <4>1. CASE j + 1 = i - 1
        BY <4>1, <1>5
      <4>2. CASE j + 1 < i - 1
        <5>1. E(j + 1) < P(i - 1) /\ P(j + 1) <= E(j + 1) /\ E(j + 1) \in Nat
          BY <1>2, <1>4, <3>1, <4>2
        <5>2. QED BY <3>2, <1>5, <5>1
      <4>3. QED BY <3>1, <4>1, <4>2
    <3>4. q < P(i - 1)
      <4> DEFINE x == P(j + 1)
      <4>1. q \in Nat /\ x \in Nat /\ q < x /\ x <= o
        BY <1>1, <3>2, <3>3 DEF o
      <4> HIDE DEF x
      <4>2. q < o
        BY <1>7, <4>1
      <4>3. QED BY <4>2 DEF o
    <3>5. b[q] = v.buf[P(j + 1) + (q - P(j))]
      BY <1>3, <1>15, <3>1, <3>2
    <3>6. QED BY <1>12, <3>4, <3>5
  <2>3. QED BY <2>1, <2>2
<1>16. QED BY <1>13, <1>14, <1>15 DEF Moved, c, P, E

LEMMA ShiftKeeps ==
    ASSUME NEW v \in Views, NEW n, Delimited(v, n), NEW k \in 1 .. Len(v.ptr)
    PROVE  /\ Shifted(v, k) \in Kept(v, n) /\ Moved(v, n, k, Len(v.ptr), Shifted(v, k))
           /\ k = Len(v.ptr) => Shifted(v, k) = v.buf
<1> DEFINE V == Kept(v, n)
           m == Len(v.ptr)
           Move(b, i) == MemMove(b, v.ptr[i - 1], v.ptr[i], StrLen(b, v.ptr[i]) + 1)
           h == [i \in Nat |-> [b \in V |-> IF i \in 2 .. m THEN Move(b, i) ELSE b]]
           Step(f, i) == IF i = k THEN v.buf ELSE Move(f[i - 1], i)
           F == CHOOSE f : f = [i \in k .. m |-> Step(f, i)]
<1>1. m \in Nat /\ k \in Nat /\ 1 <= k /\ k <= m /\ v.buf \in V
  <2>1. v.buf \in [Offsets -> Bytes] /\ m \in Nat
    BY PtrTyped
  <2>2. \A q \in 0 .. n : v.buf[q] # NL
    BY DEF Delimited
  <2>3. QED BY <2>1, <2>2 DEF Kept
<1>2. \A i \in 2 .. m, b \in V : Move(b, i) \in V
  BY ShiftOnce
<1>16. \A i \in k + 1 .. m, b \in V :
         Moved(v, n, k, i - 1, b) => Moved(v, n, k, i, Move(b, i))
  BY MoveOnce
<1>17. Moved(v, n, k, k, v.buf)
  <2>1. k .. k - 1 = {}
    BY <1>1
  <2>2. QED BY <2>1 DEF Moved
<1> HIDE DEF V, Move
<1>3. h \in [Nat -> [V -> V]]
  BY <1>2
<1>4. PICK f \in [k .. m -> V] : Stepping(f, v.buf, h, k, m)
  <2> HIDE DEF h, m
  <2>1. QED BY <1>1, <1>3, StepsFunction
<1>5. ASSUME NEW i \in k .. m PROVE f[i] = Step(f, i)
  <2>1. CASE i = k
    BY <1>4, <2>1 DEF Stepping
  <2>2. CASE i # k
    <3>1. i \in k + 1 .. m /\ i - 1 \in k .. m /\ i \in 2 .. m /\ i \in Nat
      BY <1>1, <2>2
    <3>2. f[i] = h[i][f[i - 1]] /\ f[i - 1] \in V
      <4> HIDE DEF h
      <4>1. QED BY <1>4, <3>1 DEF Stepping
    <3>3. h[i][f[i - 1]] = Move(f[i - 1], i)
      BY <3>1, <3>2
    <3> HIDE DEF h
    <3>4. QED BY <2>2, <3>2, <3>3
  <2>3. QED BY <2>1, <2>2
<1>6. f = [i \in k .. m |-> Step(f, i)]
  <2> HIDE DEF Step
  <2>1. QED BY <1>4, <1>5
<1>7. F = [i \in k .. m |-> Step(F, i)]
  <2> HIDE DEF Step
  <2>1. QED BY <1>6
<1>8. Shifted(v, k) = F[m]
  BY DEF Shifted, Move
<1>9. \A i \in k .. m : F[i] = Step(F, i)
  <2> HIDE DEF Step, F
  <2>1. QED BY <1>7
<1> HIDE DEF F, m
<1> DEFINE T == {i \in Nat : i <= m => F[i] \in V /\ Moved(v, n, k, i, F[i])}
<1>10. k \in T
  <2>1. k \in k .. m
    BY <1>1
  <2>2. F[k] = v.buf
    BY <1>9, <2>1
  <2>3. QED BY <1>1, <1>17, <2>2
<1>11. ASSUME NEW i \in Nat, i >= k, i \in T PROVE i + 1 \in T
  <2>1. SUFFICES ASSUME i + 1 <= m PROVE F[i + 1] \in V /\ Moved(v, n, k, i + 1, F[i + 1])
    OBVIOUS
  <2>2. /\ i + 1 \in k .. m /\ i + 1 # k /\ (i + 1) - 1 = i /\ i + 1 \in 2 .. m /\ i <= m
        /\ i + 1 \in k + 1 .. m
    BY <1>1, <1>11, <2>1
  <2>3. F[i + 1] = Move(F[i], i + 1) /\ F[i] \in V /\ Moved(v, n, k, i, F[i])
    BY <1>9, <1>11, <2>2
  <2>4. Move(F[i], i + 1) \in V
    BY <1>2, <2>2, <2>3
  <2>5. Moved(v, n, k, i + 1, Move(F[i], i + 1))
    BY <1>16, <2>2, <2>3
  <2>6. QED BY <2>3, <2>4, <2>5
<1>12. m \in T
  <2> HIDE DEF T
  <2>1. QED BY <1>1, <1>10, <1>11, SetInduction
<1>13. F[m] \in V /\ Moved(v, n, k, m, F[m])
  <2>1. m <= m
    BY <1>1
  <2>2. QED BY <1>12, <2>1
<1>14. k = m => F[m] = v.buf
  <2>1. m \in k .. m
    BY <1>1
  <2>2. QED BY <1>9, <2>1
<1>15. QED BY <1>8, <1>13, <1>14 DEF V, m

-----------------------------------------------------------------------------
(* The note on screen.                                                     *)

\* What the display keeps: a text split, with no pointer when it is empty.
Shown(v, n) ==
    /\ v \in Views /\ Delimited(v, n) /\ v.buf[Size - 1] = NUL
    /\ v.ptr = <<>> <=> n = 0

\* Displaying a string shows it, cut at its line breaks.
LEMMA SplitShown ==
    ASSUME NEW buf \in [Offsets -> Bytes], NEW n, IsFlat(buf, n), buf[Size - 1] = NUL
    PROVE  /\ Shown(content2paragraphs(buf), n)
           /\ StrAt(buf, 0) \in Seq(Bytes)
           /\ StrAt(buf, 0) = FlatString(ParagraphsOf(content2paragraphs(buf)))
<1> DEFINE v == content2paragraphs(buf)
           flat == paragraphs2content(v)
<1>1. n \in Nat /\ n <= Size - 1 /\ Size - 1 \in Offsets /\ n \in 0 .. Size
      /\ \A q \in Offsets : q \in Nat
  BY SizeFacts DEF IsFlat, Offsets
<1>2. /\ v \in Views /\ Delimited(v, n)
      /\ \A q \in Offsets : v.buf[q] = IF q < n /\ buf[q] = NL THEN NUL ELSE buf[q]
      /\ n = 0 => v.ptr = <<>>
      /\ n > 0 => v.ptr # <<>>
  BY SplitBytes
<1> HIDE DEF v
<1>3. v.buf[Size - 1] = NUL
  BY <1>1, <1>2
<1>4. Shown(v, n)
  BY <1>1, <1>2, <1>3 DEF Shown
<1>5. /\ flat \in [Offsets -> Bytes]
      /\ \A q \in Offsets : flat[q] = IF q < n /\ v.buf[q] = NUL THEN NL ELSE v.buf[q]
  BY <1>2, JoinBytes
<1>6. \A q \in Offsets : flat[q] = buf[q]
  <2>1. TAKE q \in Offsets
  <2>2. q < n => buf[q] # NUL
    <3>1. HAVE q < n
    <3>2. q \in 0 .. n - 1
      BY <1>1, <3>1
    <3>3. QED BY <3>2 DEF IsFlat
  <2>3. /\ v.buf[q] = IF q < n /\ buf[q] = NL THEN NUL ELSE buf[q]
        /\ flat[q] = IF q < n /\ v.buf[q] = NUL THEN NL ELSE v.buf[q]
    BY <1>2, <1>5
  <2> HIDE DEF flat
  <2>4. QED BY <2>2, <2>3
<1>7. flat = buf
  <2> HIDE DEF flat
  <2>1. QED BY <1>5, <1>6
<1>8. FlatString(ParagraphsOf(v)) = StrAt(flat, 0)
  BY <1>2, FlatOfView
<1>9. StrAt(buf, 0) \in Seq(Bytes)
  <2>1. StrLen(buf, 0) = n
    BY FlatLen
  <2>2. StrAt(buf, 0) = [i \in 1 .. n |-> buf[i - 1]]
    <3>1. \A i \in 1 .. n : 0 + i - 1 = i - 1
      BY <1>1
    <3>2. QED BY <2>1, <3>1 DEF StrAt
  <2>3. QED BY <1>1, <2>2, FirstBytes
<1>10. QED BY <1>4, <1>7, <1>8, <1>9 DEF v

\* Displaying again what is on screen changes nothing.
LEMMA JoinShown ==
    ASSUME NEW v, NEW n, Shown(v, n)
    PROVE  content2paragraphs(paragraphs2content(v)) = v
<1>1. v \in Views /\ Delimited(v, n)
  BY DEF Shown
<1>2. CASE n = 0
  <2>1. v.ptr = <<>> /\ v = [buf |-> v.buf, ptr |-> v.ptr]
    BY <1>1, <1>2, PtrTyped DEF Shown
  <2>2. content2paragraphs(paragraphs2content(v)) = [buf |-> v.buf, ptr |-> <<>>]
    BY <1>1, <1>2, JoinSplit
  <2>3. QED BY <2>1, <2>2
<1>3. CASE n # 0
  BY <1>1, <1>3, JoinSplit
<1>4. QED BY <1>2, <1>3

\* The buffer that displaying it again reads from NVRAM is the one it shows.
LEMMA ReopenShown ==
    ASSUME NEW v, NEW n, Shown(v, n)
    PROVE  StrCpy(v.buf, 0, FlatString(ParagraphsOf(v))) = paragraphs2content(v)
<1> DEFINE flat == paragraphs2content(v)
           s == FlatString(ParagraphsOf(v))
           b == StrCpy(v.buf, 0, s)
<1>1. n \in Nat /\ n <= Size - 1 /\ v.buf \in [Offsets -> Bytes] /\ v \in Views /\ Delimited(v, n)
      /\ \A q \in Offsets : q \in Nat
  BY SizeFacts, PtrTyped DEF Shown, Delimited, Offsets
<1>2. /\ flat \in [Offsets -> Bytes] /\ IsFlat(flat, n)
      /\ \A q \in Offsets : flat[q] = IF q < n /\ v.buf[q] = NUL THEN NL ELSE v.buf[q]
  BY <1>1, JoinBytes
<1>3. s = [i \in 1 .. n |-> flat[i - 1]] /\ s \in Seq(Bytes) /\ Len(s) = n
  <2> HIDE DEF flat
  <2>1. s = StrAt(flat, 0) /\ StrLen(flat, 0) = n
    BY <1>1, <1>2, FlatOfView, FlatLen DEF flat
  <2>2. StrAt(flat, 0) = [i \in 1 .. n |-> flat[i - 1]]
    <3>1. \A i \in 1 .. n : 0 + i - 1 = i - 1
      BY <1>1
    <3>2. QED BY <2>1, <3>1 DEF StrAt
  <2>3. n \in 0 .. Size
    BY <1>1, SizeFacts
  <2> HIDE DEF s
  <2>4. QED BY <1>2, <2>1, <2>2, <2>3, FirstBytes
<1> HIDE DEF flat, s
<1>4. /\ b \in [Offsets -> Bytes]
      /\ \A q \in Offsets : b[q] = IF q < 0 THEN v.buf[q]
                                   ELSE IF q < 0 + Len(s) THEN s[q - 0 + 1]
                                   ELSE IF q = 0 + Len(s) THEN NUL ELSE v.buf[q]
  <2> DEFINE x == v.buf
  <2>1. x \in [Offsets -> Bytes] /\ 0 \in Nat
    BY <1>1
  <2> HIDE DEF x
  <2>2. /\ StrCpy(x, 0, s) \in [Offsets -> Bytes]
        /\ \A q \in Offsets :
              StrCpy(x, 0, s)[q] = IF q < 0 THEN x[q]
                                   ELSE IF q < 0 + Len(s) THEN s[q - 0 + 1]
                                   ELSE IF q = 0 + Len(s) THEN NUL ELSE x[q]
    BY <1>3, <2>1, CopyBytes
  <2>3. QED BY <2>2 DEF x
<1> HIDE DEF b
<1>5. \A q \in Offsets : b[q] = flat[q]
  <2>1. TAKE q \in Offsets
  <2>2. q \in Nat
    BY <1>1
  <2>3. b[q] = IF q < n THEN s[q + 1] ELSE IF q = n THEN NUL ELSE v.buf[q]
    <3>1. ~ (q < 0) /\ 0 + Len(s) = n /\ q - 0 + 1 = q + 1
      BY <1>1, <1>3, <2>2
    <3>2. QED BY <1>4, <3>1
  <2>4. CASE q < n
    <3>1. q + 1 \in 1 .. n /\ (q + 1) - 1 = q
      BY <1>1, <2>2, <2>4
    <3>2. QED BY <1>3, <2>3, <2>4, <3>1
  <2>5. CASE q = n
    <3>1. flat[n] = NUL /\ ~ (n < n)
      BY <1>1, <1>2 DEF IsFlat
    <3>2. QED BY <2>3, <2>5, <3>1
  <2>6. CASE q > n
    <3>1. ~ (q < n) /\ q # n
      BY <1>1, <2>2, <2>6
    <3>2. QED BY <1>2, <2>3, <3>1
  <2>7. QED BY <1>1, <2>2, <2>4, <2>5, <2>6
<1>6. b = flat
  BY <1>2, <1>4, <1>5
<1>7. QED BY <1>6 DEF b, flat, s

\* What is left of the text when an empty one is confirmed for the k-th of
\* several paragraphs.
LEMMA RemovalLeaves ==
    ASSUME NEW v, NEW n, Shown(v, n), NEW k \in 1 .. Len(v.ptr), Len(v.ptr) > 1
    PROVE  LET d == ParagraphsOf(v)
               flat == paragraphs2content(WithoutParagraph(v, k))
           IN  \E e \in 1 .. Len(v.ptr) - 1, u \in Views, z \in Offsets :
                  /\ Doc!EndsAt(d, k, e)
                  /\ Delimited(u, z) /\ u.buf[Size - 1] = NUL /\ Len(u.ptr) = e
                  /\ flat = paragraphs2content(u)
                  /\ ParagraphsOf(u) = Doc!Left(d, k, e)
                  /\ z = 0 <=> Doc!Left(d, k, e) = << <<>> >>
<1> DEFINE m == Len(v.ptr)
           P(j) == v.ptr[j]
           E(j) == EndAt(v, n, j)
           b == Shifted(v, k)
           d == ParagraphsOf(v)
           front == Front(v.ptr)
           flat == paragraphs2content(WithoutParagraph(v, k))
           Joins(q) == \E j \in 2 .. m - 1 : q = P(j) - 1
<1>1. /\ v \in Views /\ Delimited(v, n) /\ v.buf[Size - 1] = NUL /\ v.ptr # <<>>
      /\ n \in Nat /\ n <= Size - 1 /\ Size \in Nat /\ m \in Nat /\ m > 1 /\ k \in 1 .. m
      /\ v.ptr \in Seq(Offsets) /\ \A q : q \in Offsets <=> q \in 0 .. Size - 1
  <2>1. v \in Views /\ Len(v.ptr) \in Nat
    BY PtrTyped DEF Shown
  <2>2. v.ptr # <<>> /\ v.ptr \in Seq(Offsets)
    BY <2>1, PtrTyped
  <2>3. QED BY <2>1, <2>2, SizeFacts DEF Shown, Delimited, Offsets
<1>2. /\ P(1) = 0 /\ E(m) = n
      /\ \A j \in 1 .. m : /\ P(j) \in Nat /\ E(j) \in Nat /\ P(j) <= E(j) /\ E(j) <= n
                           /\ v.buf[E(j)] = NUL
                           /\ \A q \in P(j) .. E(j) - 1 : v.buf[q] \notin {NUL, NL}
      /\ \A j \in 1 .. m - 1 : P(j + 1) = E(j) + 1
      /\ \A h, j \in 1 .. m : h < j => E(h) < P(j)
      /\ \A q \in 0 .. n : \E j \in 1 .. m : q \in P(j) .. E(j)
  <2>1. Laid(v, n)
    BY <1>1, Places
  <2>2. QED BY <2>1 DEF Laid
<1>3. /\ b \in [Offsets -> Bytes] /\ \A q \in 0 .. n : b[q] # NL
      /\ \A q \in Offsets : q >= n => b[q] = v.buf[q]
      /\ \A q \in Offsets : q < P(k) => b[q] = v.buf[q]
      /\ \A j \in k .. m - 1, q \in Offsets :
            /\ P(j) <= q /\ q - P(j) <= E(j + 1) - P(j + 1)
            /\ j < m - 1 => q < P(j + 1)
            => b[q] = v.buf[P(j + 1) + (q - P(j))]
  BY <1>1, ShiftKeeps DEF Kept, Moved
<1>4. /\ d \in Docs /\ Len(d) = m
      /\ \A j \in 1 .. m : /\ d[j] \in Seq(Bytes) /\ Len(d[j]) = E(j) - P(j)
                           /\ \A x \in 1 .. E(j) - P(j) : d[j][x] = v.buf[P(j) + x - 1]
  BY <1>1, ParagraphsTyped
<1>5. Len(front) = m - 1 /\ \A j \in 1 .. m - 1 : front[j] = P(j)
  <2>1. front = SubSeq(v.ptr, 1, m - 1)
    BY DEF Front
  <2>2. QED BY <1>1, <2>1
<1> HIDE DEF b, front, m, d
<1>6. flat = [q \in Offsets |-> IF Joins(q) THEN NL ELSE b[q]]
  <2> DEFINE y == WithoutParagraph(v, k)
  <2>1. y.buf = b /\ y.ptr = front
    BY DEF WithoutParagraph, b, front
  <2> HIDE DEF y
  <2>2. paragraphs2content(y) =
            [q \in Offsets |-> IF \E j \in 2 .. m - 1 : q = front[j] - 1 THEN NL ELSE b[q]]
    BY <1>5, <2>1 DEF paragraphs2content
  <2>3. \A q : (\E j \in 2 .. m - 1 : q = front[j] - 1) <=> Joins(q)
    <3>1. 2 .. m - 1 \subseteq 1 .. m - 1
      BY <1>1
    <3>2. \A j \in 2 .. m - 1 : front[j] = P(j)
      BY <1>5, <3>1
    <3>3. QED BY <3>2
  <2> HIDE DEF Joins
  <2>4. QED BY <2>2, <2>3 DEF y
<1> HIDE DEF flat, P, E
\* Where the text ends now.
<1>7. \A i \in 1 .. m - 1 : i \in 1 .. m /\ i + 1 \in 1 .. m
  BY <1>1
<1>8. PICK e \in 1 .. m - 1 : Doc!EndsAt(d, k, e)
  <2> DEFINE S == Doc!Shortened(d, k) \cup {m - 1}
  <2>1. S \in SUBSET Nat /\ S # {} /\ S \subseteq 1 .. m - 1
    <3>1. Doc!Shortened(d, k) \subseteq k .. m - 2
      BY <1>4 DEF Doc!Shortened
    <3>2. k .. m - 2 \subseteq 1 .. m - 1 /\ m - 1 \in 1 .. m - 1 /\ 1 .. m - 1 \subseteq Nat
      BY <1>1
    <3> HIDE DEF Joins
    <3>3. QED BY <3>1, <3>2
  <2>2. PICK e \in S : \A i \in S : e <= i
    BY <2>1, LeastOf
  <2>3. e \in 1 .. m - 1 /\ Doc!EndsAt(d, k, e)
    BY <1>4, <2>1, <2>2 DEF Doc!EndsAt
  <2>4. QED BY <2>3
<1> DEFINE g == Doc!Left(d, k, e)
           l == IF e < k THEN E(e) - P(e) ELSE E(e + 1) - P(e + 1)
           z == P(e) + l
<1>9. /\ e \in Nat /\ e \in 1 .. m /\ e + 1 \in 1 .. m /\ (e < k => k = m /\ e = m - 1)
      /\ e >= k => e \in k .. m - 1
  <2>1. e \in Doc!Shortened(d, k) \cup {m - 1}
    BY <1>4, <1>8 DEF Doc!EndsAt
  <2>2. e \in k .. m - 2 \/ e = m - 1
    BY <1>4, <2>1 DEF Doc!Shortened
  <2>3. QED BY <1>1, <2>2
<1>10. e >= k /\ e < m - 1 => E(e + 1) - P(e + 1) < E(e) - P(e)
  <2>1. HAVE e >= k /\ e < m - 1
  <2>2. e \in Doc!Shortened(d, k)
    BY <1>1, <1>4, <1>8, <1>9, <2>1 DEF Doc!EndsAt
  <2>3. Len(d[e + 1]) < Len(d[e])
    BY <2>2 DEF Doc!Shortened
  <2>4. QED BY <1>4, <1>9, <2>3
<1>11. \A j \in k .. e - 1 : E(j) - P(j) <= E(j + 1) - P(j + 1)
  <2>1. TAKE j \in k .. e - 1
  <2>2. j \in 1 .. m /\ j + 1 \in 1 .. m /\ j \in k .. m - 2 /\ ~ (e <= j)
    BY <1>1, <1>9
  <2>3. j \notin Doc!Shortened(d, k)
    BY <1>8, <2>2 DEF Doc!EndsAt
  <2>4. ~ (Len(d[j + 1]) < Len(d[j]))
    BY <1>4, <2>2, <2>3 DEF Doc!Shortened
  <2> DEFINE x == E(j) - P(j)
             y == E(j + 1) - P(j + 1)
  <2>5. Len(d[j]) = x /\ Len(d[j + 1]) = y
    BY <1>4, <2>2
  <2>6. x \in Int /\ y \in Int
    <3>1. P(j) \in Nat /\ E(j) \in Nat
      BY <1>2, <2>2
    <3>2. P(j + 1) \in Nat /\ E(j + 1) \in Nat
      BY <1>2, <2>2
    <3>3. QED BY <3>1, <3>2
  <2> HIDE DEF x, y
  <2>7. x <= y
    BY <2>4, <2>5, <2>6
  <2>8. QED BY <2>7 DEF x, y
<1>12. /\ l \in Nat /\ z \in Nat /\ z <= n /\ P(e) \in Nat
       /\ \A q \in P(e) .. z : ~ Joins(q)
  <2>1. /\ P(e) \in Nat /\ E(e) \in Nat /\ P(e) <= E(e) /\ E(e) <= n
        /\ P(e + 1) \in Nat /\ E(e + 1) \in Nat /\ P(e + 1) <= E(e + 1) /\ E(e + 1) <= n
        /\ P(e + 1) = E(e) + 1
    BY <1>2, <1>9
  <2>2. l \in Nat /\ z \in Nat /\ z <= n
    <3>1. l = E(e) - P(e) \/ l = E(e + 1) - P(e + 1)
      OBVIOUS
    <3> HIDE DEF l
    <3>2. QED BY <1>1, <2>1, <3>1
  <2>3. ASSUME NEW q \in P(e) .. z, Joins(q) PROVE FALSE
    <3>1. PICK j \in 2 .. m - 1 : q = P(j) - 1
      BY <2>3 DEF Joins
    <3>2. j \in 1 .. m /\ P(j) \in Nat /\ P(j) >= P(e) + 1
      <4>1. j \in 1 .. m
        BY <1>1
      <4>2. P(j) \in Nat
        BY <1>2, <4>1
      <4>3. q >= P(e)
        BY <2>1, <2>2
      <4>4. QED BY <2>1, <3>1, <4>1, <4>2, <4>3
    <3>3. j > e
      <4>1. CASE j = e
        BY <4>1, <3>2, <2>1
      <4>2. CASE j < e
        <5>1. E(j) < P(e) /\ P(j) <= E(j) /\ E(j) \in Nat
          BY <1>2, <1>9, <3>2, <4>2
        <5>2. QED BY <2>1, <3>2, <5>1
      <4>3. QED BY <1>9, <3>2, <4>1, <4>2
    <3>4. e < m - 1 /\ e >= k
      BY <1>1, <1>9, <3>3
    <3>5. z < E(e)
      BY <1>9, <1>10, <2>1, <3>4
    <3>6. E(e) < P(j)
      BY <1>2, <1>9, <3>2, <3>3
    <3> DEFINE a == P(j)
               c == E(e)
    <3> HIDE DEF l, z
    <3>7. q <= z /\ z \in Nat
      BY <2>1, <2>2
    <3>8. a \in Nat /\ c \in Nat /\ q = a - 1 /\ z < c /\ c < a
      BY <2>1, <3>1, <3>2, <3>5, <3>6
    <3> HIDE DEF a, c
    <3>9. QED BY <3>7, <3>8
  <2>4. QED BY <2>1, <2>2, <2>3
<1> HIDE DEF l, z
\* The bytes of each paragraph left.
<1>13. /\ flat \in [Offsets -> Bytes]
       /\ \A q \in Offsets : flat[q] = IF Joins(q) THEN NL ELSE b[q]
  <2>1. \A q \in Offsets : (IF Joins(q) THEN NL ELSE b[q]) \in Bytes
    BY <1>3, SizeFacts
  <2> HIDE DEF Joins
  <2>2. QED BY <1>6, <2>1
<1> DEFINE w == [q \in Offsets |-> IF \E j \in 2 .. e : q = P(j) - 1 THEN NUL ELSE flat[q]]
           G(j) == IF j < e THEN E(j) ELSE z
<1>14. \A j \in 1 .. e : /\ j \in 1 .. m /\ P(j) \in Nat /\ G(j) \in Nat
                         /\ P(j) <= G(j) /\ G(j) <= n /\ G(j) <= z
  <2>1. TAKE j \in 1 .. e
  <2>2. j \in 1 .. m /\ P(j) \in Nat /\ E(j) \in Nat /\ P(j) <= E(j) /\ E(j) <= n
    <3>1. j \in 1 .. m
      BY <1>1, <1>9
    <3>2. QED BY <1>2, <3>1
  <2>3. CASE j < e
    <3>1. E(j) < P(e)
      BY <1>2, <1>9, <2>2, <2>3
    <3>2. P(e) <= z
      BY <1>12 DEF z
    <3>3. QED BY <1>12, <2>2, <2>3, <3>1, <3>2
  <2>4. CASE ~ (j < e)
    <3>1. j = e
      BY <1>9, <2>4
    <3>2. QED BY <1>1, <1>12, <2>2, <2>4, <3>1 DEF z
  <2>5. QED BY <2>3, <2>4
<1>15. \A q : Joins(q) => \E h \in 1 .. m - 1 : q = E(h)
  <2>1. TAKE q
  <2>2. HAVE Joins(q)
  <2>3. PICK j \in 2 .. m - 1 : q = P(j) - 1
    BY <2>2 DEF Joins
  <2>4. j - 1 \in 1 .. m - 1 /\ (j - 1) + 1 = j /\ j - 1 \in 1 .. m
    BY <1>1
  <2>5. P(j) = E(j - 1) + 1 /\ E(j - 1) \in Nat
    BY <1>2, <2>4
  <2>6. q = E(j - 1)
    BY <2>3, <2>5
  <2>7. QED BY <2>4, <2>6
<1>16. \A q : (\E j \in 2 .. e : q = P(j) - 1) => Joins(q)
  <2>1. 2 .. e \subseteq 2 .. m - 1
    BY <1>1
  <2>2. QED BY <2>1 DEF Joins
<1> HIDE DEF Joins
<1>17. ASSUME NEW j \in 1 .. e, NEW q \in P(j) .. G(j), j < e => q # G(j)
       PROVE  q \in Offsets /\ w[q] = b[q]
  <2>1. q \in Offsets
    BY <1>1, <1>14
  <2>2. ~ Joins(q)
    <3>1. CASE j = e
      BY <1>12, <3>1
    <3>2. CASE j # e
      <4>1. j < e /\ j \in 1 .. m /\ q \in P(j) .. E(j) /\ q # E(j) /\ E(j) \in Nat /\ P(j) \in Nat
        BY <1>2, <1>9, <1>14, <1>17, <3>2
      <4>2. SUFFICES ASSUME NEW h \in 1 .. m - 1, q = E(h) PROVE FALSE
        BY <1>15
      <4>3. h \in 1 .. m /\ P(h) \in Nat /\ E(h) \in Nat /\ P(h) <= E(h)
        BY <1>2, <1>7
      <4>4. h < j => E(h) < P(j)
        BY <1>2, <4>1, <4>3
      <4>5. j < h => E(j) < P(h)
        BY <1>2, <4>1, <4>3
      <4>6. QED BY <4>1, <4>2, <4>3, <4>4, <4>5
    <3>3. QED BY <3>1, <3>2
  <2>3. QED BY <1>13, <1>16, <2>1, <2>2
<1> DEFINE from(j) == IF j < k THEN P(j) ELSE P(j + 1)
<1>18. ASSUME NEW j \in 1 .. e
       PROVE  /\ g[j] \in Seq(Bytes) /\ Len(g[j]) = G(j) - P(j)
              /\ \A x \in 1 .. G(j) - P(j) : g[j][x] = v.buf[from(j) + x - 1]
  <2>1. g[j] = IF j < k THEN d[j] ELSE IF j = e THEN d[j + 1] ELSE SubSeq(d[j + 1], 1, Len(d[j]))
    BY DEF Doc!Left
  <2>2. j \in 1 .. m /\ j + 1 \in 1 .. m /\ j \in Nat /\ e \in Nat /\ k \in Nat
    BY <1>1, <1>7, <1>9
  <2> HIDE DEF g
  <2>3. CASE j < k
    <3>1. G(j) = E(j)
      <4>1. CASE j < e
        BY <4>1
      <4>2. CASE ~ (j < e)
        <5>1. j = e /\ l = E(e) - P(e) /\ E(e) \in Nat
          BY <1>2, <2>2, <2>3, <4>2 DEF l
        <5>2. z = E(e)
          BY <1>12, <5>1 DEF z
        <5>3. QED BY <4>2, <5>1, <5>2
      <4>3. QED BY <4>1, <4>2
    <3>2. g[j] = d[j] /\ from(j) = P(j)
      BY <2>1, <2>3
    <3> HIDE DEF G, from
    <3>3. QED BY <1>4, <2>2, <3>1, <3>2
  <2>4. CASE ~ (j < k) /\ j = e
    <3>1. l = E(e + 1) - P(e + 1) /\ g[j] = d[e + 1] /\ from(j) = P(e + 1) /\ G(j) = z
      BY <2>1, <2>4 DEF l
    <3>2. G(j) - P(j) = E(e + 1) - P(e + 1)
      BY <1>12, <2>4, <3>1 DEF z
    <3> HIDE DEF G, from
    <3>3. QED BY <1>4, <2>2, <2>4, <3>1, <3>2
  <2>5. CASE ~ (j < k) /\ j # e
    <3> DEFINE s == d[j + 1]
               c == Len(d[j])
    <3>1. j < e /\ j \in k .. e - 1 /\ from(j) = P(j + 1) /\ G(j) = E(j)
      BY <2>2, <2>5
    <3>2. /\ s \in Seq(Bytes) /\ Len(s) = E(j + 1) - P(j + 1)
          /\ \A x \in 1 .. Len(s) : s[x] = v.buf[P(j + 1) + x - 1]
      BY <1>4, <2>2
    <3>3. c = E(j) - P(j) /\ c \in Nat /\ c <= Len(s)
      BY <1>2, <1>4, <1>11, <2>2, <3>1, <3>2
    <3>4. g[j] = SubSeq(s, 1, c)
      BY <2>1, <2>5
    <3> HIDE DEF s, c, G, from
    <3>5. SubSeq(s, 1, c) \in Seq(Bytes) /\ Len(SubSeq(s, 1, c)) = c
          /\ \A x \in 1 .. c : SubSeq(s, 1, c)[x] = s[x]
      BY <3>2, <3>3
    <3>6. \A x \in 1 .. c : g[j][x] = v.buf[from(j) + x - 1]
      <4>1. TAKE x \in 1 .. c
      <4>2. x \in 1 .. Len(s)
        BY <3>2, <3>3
      <4>3. QED BY <3>1, <3>2, <3>4, <3>5, <4>2
    <3>7. QED BY <3>1, <3>3, <3>4, <3>5, <3>6
  <2>6. QED BY <2>3, <2>4, <2>5
<1>19. ASSUME NEW j \in 1 .. e
       PROVE  /\ \A q \in P(j) .. G(j) - 1 :
                    /\ w[q] = v.buf[from(j) + (q - P(j))]
                    /\ w[q] \notin {NUL, NL}
              /\ w[G(j)] = NUL
  <2>1. /\ j \in 1 .. m /\ j + 1 \in 1 .. m /\ j \in Nat /\ e \in Nat /\ k \in Nat
        /\ P(j) \in Nat /\ E(j) \in Nat /\ P(j) <= E(j) /\ G(j) \in Nat /\ P(j) <= G(j)
        /\ P(j + 1) \in Nat /\ E(j + 1) \in Nat /\ P(j + 1) <= E(j + 1) /\ P(j + 1) = E(j) + 1
    <3>1. j \in 1 .. m /\ j \in 1 .. m - 1 /\ j + 1 \in 1 .. m /\ j \in Nat /\ k \in Nat
      BY <1>1, <1>9
    <3>2. G(j) \in Nat /\ P(j) <= G(j)
      BY <1>14
    <3>3. /\ P(j) \in Nat /\ E(j) \in Nat /\ P(j) <= E(j)
          /\ P(j + 1) \in Nat /\ E(j + 1) \in Nat /\ P(j + 1) <= E(j + 1)
      BY <1>2, <3>1
    <3>4. P(j + 1) = E(j) + 1
      BY <1>2, <3>1
    <3> HIDE DEF G
    <3>5. QED BY <1>9, <3>1, <3>2, <3>3, <3>4
  <2>2. ASSUME NEW q \in P(j) .. G(j), j < e => q # G(j)
        PROVE  /\ w[q] = v.buf[from(j) + (q - P(j))]
               /\ q # G(j) => w[q] \notin {NUL, NL}
               /\ j = e /\ q = G(j) => w[q] = NUL
    <3>1. q \in Offsets /\ w[q] = b[q]
      BY <1>17, <2>2
    <3> HIDE DEF w
    <3>2. CASE j < k
      <4>1. G(j) = E(j) /\ from(j) = P(j) /\ q \in P(j) .. E(j)
        <5>1. CASE j < e
          BY <2>2, <3>2, <5>1
        <5>2. CASE ~ (j < e)
          <6>1. j = e /\ l = E(e) - P(e)
            BY <2>1, <3>2, <5>2 DEF l
          <6>2. z = E(e)
            BY <1>12, <2>1, <6>1 DEF z
          <6>3. QED BY <2>2, <3>2, <5>2, <6>1, <6>2
        <5>3. QED BY <5>1, <5>2
      <4> HIDE DEF G, from
      <4>2. q < P(k)
        <5>1. E(j) < P(k) /\ P(k) \in Nat
          BY <1>1, <1>2, <2>1, <3>2
        <5>2. QED BY <2>1, <4>1, <5>1
      <4>3. w[q] = v.buf[q] /\ P(j) + (q - P(j)) = q
        BY <1>3, <2>1, <3>1, <4>1, <4>2
      <4>4. q # G(j) => q \in P(j) .. E(j) - 1
        BY <2>1, <4>1
      <4>5. v.buf[E(j)] = NUL /\ \A y \in P(j) .. E(j) - 1 : v.buf[y] \notin {NUL, NL}
        BY <1>2, <2>1
      <4>6. QED BY <4>1, <4>3, <4>4, <4>5
    <3>3. CASE ~ (j < k)
      <4> DEFINE y == P(j + 1) + (q - P(j))
      <4>1. from(j) = P(j + 1) /\ j \in k .. m - 1 /\ e \in k .. m - 1 /\ e >= k
        BY <1>1, <1>9, <2>1, <3>3
      <4>2. /\ q - P(j) <= E(j + 1) - P(j + 1) /\ (j < m - 1 => q < P(j + 1))
            /\ (q # G(j) => q - P(j) < E(j + 1) - P(j + 1))
            /\ (j = e /\ q = G(j) => q - P(j) = E(j + 1) - P(j + 1))
        <5>1. CASE j < e
          <6>1. q < E(j) /\ q >= P(j)
            BY <2>1, <2>2, <5>1
          <6>2. E(j) - P(j) <= E(j + 1) - P(j + 1)
            BY <1>11, <2>1, <4>1, <5>1
          <6>3. q - P(j) < E(j + 1) - P(j + 1) /\ q < P(j + 1) /\ q \in Nat
            <7> DEFINE a == P(j)
                       f == E(j)
                       c == P(j + 1)
                       h == E(j + 1)
            <7>1. /\ a \in Nat /\ f \in Nat /\ c \in Nat /\ h \in Nat /\ c = f + 1
                  /\ f - a <= h - c /\ q < f /\ q >= a
              BY <2>1, <6>1, <6>2
            <7>2. q \in Nat
              BY <2>1, <2>2
            <7> HIDE DEF G, from, a, f, c, h
            <7>3. q - a < h - c /\ q < c
              BY <7>1, <7>2
            <7>4. QED BY <7>2, <7>3 DEF a, c, h
          <6>4. q - P(j) \in Int /\ E(j + 1) - P(j + 1) \in Int /\ ~ (j = e)
            BY <2>1, <5>1, <6>3
          <6> HIDE DEF G, from
          <6>5. QED BY <6>3, <6>4
        <5>2. CASE ~ (j < e)
          <6>1. j = e /\ G(j) = z /\ l = E(e + 1) - P(e + 1)
            BY <2>1, <4>1, <5>2 DEF l
          <6>2. z = P(j) + (E(j + 1) - P(j + 1)) /\ q \in P(j) .. z
            BY <2>2, <6>1 DEF z
          <6>3. j < m - 1 => E(j + 1) - P(j + 1) < E(j) - P(j)
            BY <1>10, <4>1, <6>1
          <6> HIDE DEF G, from
          <6>4. q \in Nat
            BY <2>1, <6>2
          <6> DEFINE c == E(j + 1) - P(j + 1)
          <6>5. c \in Nat /\ z = P(j) + c /\ q >= P(j) /\ q <= z /\ P(j) \in Nat
            <7> DEFINE a == E(j + 1)
                       f == P(j + 1)
            <7>1. a \in Nat /\ f \in Nat /\ f <= a /\ c = a - f
              BY <2>1
            <7>2. P(j) \in Nat /\ z = P(j) + c
              BY <2>1, <6>2
            <7> HIDE DEF c, a, f
            <7>3. c \in Nat /\ P(j) \in Nat /\ z = P(j) + c
              BY <7>1, <7>2
            <7>4. z \in Nat
              BY <7>3
            <7>5. QED BY <6>2, <6>4, <7>3, <7>4
          <6>6. j < m - 1 => c < E(j) - P(j)
            BY <6>3
          <6> HIDE DEF c
          <6>7. q - P(j) <= c /\ (q # z => q - P(j) < c) /\ (q = z => q - P(j) = c)
            BY <6>4, <6>5
          <6>8. j < m - 1 => q < P(j + 1)
            BY <2>1, <6>4, <6>5, <6>6
          <6>9. QED BY <6>1, <6>7, <6>8 DEF c
        <5>3. QED BY <5>1, <5>2
      <4> HIDE DEF G, from
      <4>3. q >= P(j) /\ q \in Nat
        BY <2>1, <2>2
      <4>4. w[q] = v.buf[y]
        BY <1>3, <3>1, <4>1, <4>2, <4>3
      <4>5. q # G(j) => y \in P(j + 1) .. E(j + 1) - 1
        BY <2>1, <4>2, <4>3
      <4>6. j = e /\ q = G(j) => y = E(j + 1)
        BY <2>1, <4>2, <4>3
      <4>7. v.buf[E(j + 1)] = NUL /\ \A x \in P(j + 1) .. E(j + 1) - 1 : v.buf[x] \notin {NUL, NL}
        BY <1>2, <2>1
      <4> HIDE DEF y
      <4>8. w[q] = v.buf[y] /\ (q # G(j) => w[q] \notin {NUL, NL})
            /\ (j = e /\ q = G(j) => w[q] = NUL)
        BY <4>4, <4>5, <4>6, <4>7
      <4>9. QED BY <4>1, <4>8 DEF y
    <3>4. QED BY <3>2, <3>3
  <2>3. w[G(j)] = NUL
    <3>1. CASE j < e
      <4>1. G(j) = P(j + 1) - 1 /\ j + 1 \in 2 .. e /\ G(j) \in Offsets
        <5>1. G(j) = P(j + 1) - 1
          BY <2>1, <3>1
        <5>2. j + 1 \in 2 .. e
          BY <2>1, <3>1
        <5> HIDE DEF G
        <5>3. G(j) \in 0 .. Size - 1
          BY <1>1, <1>14
        <5>4. QED BY <1>1, <5>1, <5>2, <5>3
      <4> HIDE DEF G
      <4>2. QED BY <4>1
    <3>2. CASE ~ (j < e)
      <4>1. j = e /\ G(j) \in P(j) .. G(j)
        BY <2>1, <3>2
      <4> HIDE DEF G, w
      <4>2. QED BY <2>2, <3>2, <4>1
    <3>3. QED BY <3>1, <3>2
  <2>4. \A q \in P(j) .. G(j) - 1 : q \in P(j) .. G(j) /\ q # G(j)
    BY <2>1
  <2> HIDE DEF G, w, from
  <2>5. QED BY <2>2, <2>3, <2>4
<1> DEFINE s == SubSeq(v.ptr, 1, e)
           u == [buf |-> w, ptr |-> s]
<1>20. /\ s \in Seq(Offsets) /\ Len(s) = e /\ \A j \in 1 .. e : s[j] = P(j)
       /\ u.buf = w /\ u.ptr = s
  BY <1>1, <1>9 DEF m, P
<1>21. /\ w \in [Offsets -> Bytes]
       /\ \A q \in Offsets : w[q] = IF \E j \in 2 .. e : q = P(j) - 1 THEN NUL ELSE flat[q]
  BY <1>13, SizeFacts
<1>22. u \in Views
  BY <1>20, <1>21 DEF Views
<1> HIDE DEF w, s, u, g
\* Every byte of the text left is in a paragraph, or ends one.
<1>23. ASSUME NEW q \in 0 .. z
       PROVE  \E j \in 1 .. e : q \in P(j) .. G(j)
  <2>1. q \in 0 .. n
    BY <1>1, <1>12
  <2>2. PICK j \in 1 .. m : q \in P(j) .. E(j)
    BY <1>2, <2>1
  <2>3. CASE j < e
    BY <2>2, <2>3, <1>9
  <2>4. CASE ~ (j < e)
    <3>1. P(e) <= P(j)
      <4>1. CASE j = e
        BY <1>12, <4>1
      <4>2. CASE j # e
        <5>1. e < j /\ E(e) < P(j) /\ P(e) <= E(e) /\ E(e) \in Nat /\ P(j) \in Nat
          BY <1>2, <1>9, <2>4, <4>2
        <5>2. QED BY <1>12, <5>1
      <4>3. QED BY <4>1, <4>2
    <3>2. P(j) \in Nat /\ e \in 1 .. e /\ G(e) = z
      BY <1>2, <1>9
    <3>3. q \in P(e) .. G(e)
      <4> HIDE DEF G
      <4>1. QED BY <1>12, <2>2, <3>1, <3>2
    <3>4. QED BY <3>2, <3>3
  <2>5. QED BY <2>3, <2>4
<1>24. G(e) = z /\ e \in 1 .. e /\ \A j \in 1 .. e - 1 : G(j) = P(j + 1) - 1 /\ j + 1 \in 2 .. e
  <2>1. \A j \in 1 .. e - 1 : j < e /\ j \in 1 .. m - 1 /\ j \in 1 .. m /\ j + 1 \in 2 .. e
    BY <1>1, <1>9
  <2>2. \A j \in 1 .. e - 1 : E(j) = P(j + 1) - 1
    BY <1>2, <2>1
  <2>3. QED BY <1>9, <2>1, <2>2
<1> HIDE DEF G, from
<1>25. Delimited(u, z)
  <2>1. z \in Offsets /\ w[z] = NUL
    <3>1. z \in 0 .. Size - 1
      BY <1>1, <1>12
    <3>2. w[G(e)] = NUL /\ G(e) = z
      BY <1>19, <1>24
    <3>3. QED BY <1>1, <3>1, <3>2
  <2>2. ASSUME NEW q \in 0 .. z
        PROVE  w[q] # NL /\ (w[q] = NUL => q = z \/ \E j \in 2 .. e : P(j) = q + 1)
    <3>1. PICK j \in 1 .. e : q \in P(j) .. G(j)
      BY <1>23
    <3>2. P(j) \in Nat /\ G(j) \in Nat
      BY <1>14
    <3>3. CASE q # G(j)
      <4>1. q \in P(j) .. G(j) - 1
        BY <3>1, <3>2, <3>3
      <4>2. QED BY <1>19, <4>1
    <3>4. CASE q = G(j)
      <4>1. w[q] = NUL
        BY <1>19, <3>4
      <4>2. j = e \/ j \in 1 .. e - 1
        BY <1>9
      <4>3. j \in 1 .. e - 1 => P(j + 1) = q + 1
        <5>1. HAVE j \in 1 .. e - 1
        <5>2. j + 1 \in 1 .. e /\ G(j) = P(j + 1) - 1
          BY <1>24, <5>1
        <5>3. P(j + 1) \in Nat
          BY <1>14, <5>2
        <5>4. QED BY <3>4, <5>2, <5>3
      <4>4. QED BY <1>24, <3>4, <4>1, <4>2, <4>3, SizeFacts
    <3>5. QED BY <3>3, <3>4
  <2>3. CutAt(w, NUL, s, z)
    <3>1. s \in Seq(0 .. z)
      <4>1. \A j \in 1 .. e : s[j] \in 0 .. z
        <5>1. TAKE j \in 1 .. e
        <5>2. P(j) \in Nat /\ G(j) \in Nat /\ P(j) <= G(j) /\ G(j) <= z
          BY <1>14
        <5>3. QED BY <1>12, <1>20, <5>2
      <4> DEFINE S == 0 .. z
      <4>2. \A j \in 1 .. e : s[j] \in S
        BY <4>1
      <4> HIDE DEF S
      <4>3. s \in Seq(S)
        BY <1>20, <4>2
      <4>4. QED BY <4>3 DEF S
    <3>2. Len(s) >= 1 /\ s[1] = 0
      BY <1>2, <1>9, <1>20
    <3>3. \A h, j \in 1 .. Len(s) : h < j => s[h] < s[j]
      <4>1. TAKE h \in 1 .. Len(s), j \in 1 .. Len(s)
      <4>2. HAVE h < j
      <4>3. h \in 1 .. m /\ j \in 1 .. m /\ s[h] = P(h) /\ s[j] = P(j)
        BY <1>14, <1>20
      <4>4. E(h) < P(j) /\ P(h) <= E(h) /\ P(h) \in Nat /\ E(h) \in Nat /\ P(j) \in Nat
        BY <1>2, <4>2, <4>3
      <4>5. QED BY <4>3, <4>4
    <3>4. \A j \in 2 .. Len(s) : w[s[j] - 1] = NUL
      <4>1. TAKE j \in 2 .. Len(s)
      <4>2. j \in 2 .. e /\ j - 1 \in 1 .. e - 1 /\ (j - 1) + 1 = j /\ j \in 1 .. e /\ j - 1 \in 1 .. e
        BY <1>9, <1>20
      <4>3. G(j - 1) = P(j) - 1 /\ w[G(j - 1)] = NUL
        BY <1>19, <1>24, <4>2
      <4>4. QED BY <1>20, <4>2, <4>3
    <3>5. \A q \in 0 .. z - 1 : w[q] = NUL => \E j \in 2 .. Len(s) : s[j] = q + 1
      <4>1. TAKE q \in 0 .. z - 1
      <4>2. HAVE w[q] = NUL
      <4>3. q \in 0 .. z /\ q # z
        BY <1>12
      <4>4. PICK j \in 2 .. e : P(j) = q + 1
        BY <2>2, <4>2, <4>3
      <4>5. j \in 1 .. e /\ j \in 2 .. Len(s)
        BY <1>20
      <4>6. QED BY <1>20, <4>4, <4>5
    <3>6. QED BY <3>1, <3>2, <3>3, <3>4, <3>5 DEF CutAt
  <2>4. s # <<>>
    BY <1>9, <1>20
  <2>5. QED BY <1>20, <2>1, <2>2, <2>3, <2>4 DEF Delimited
<1>26. u.buf[Size - 1] = NUL
  <2>1. Size - 1 \in Offsets /\ Size - 1 >= n
    BY <1>1, SizeFacts
  <2>2. ~ Joins(Size - 1)
    <3>1. SUFFICES ASSUME NEW h \in 1 .. m - 1, Size - 1 = E(h) PROVE FALSE
      BY <1>15
    <3>2. h \in 1 .. m /\ m \in 1 .. m /\ h < m
      BY <1>1, <1>7
    <3>3. E(h) < P(m) /\ P(m) <= E(m) /\ E(m) = n /\ E(h) \in Nat /\ P(m) \in Nat
      BY <1>2, <3>2
    <3>4. QED BY <1>1, <2>1, <3>1, <3>3
  <2>3. flat[Size - 1] = NUL
    BY <1>1, <1>3, <1>13, <2>1, <2>2
  <2>4. QED BY <1>20, <1>21, <2>1, <2>3
<1>27. flat = paragraphs2content(u)
  <2>1. \A q \in Offsets :
          flat[q] = IF \E j \in 2 .. e : q = P(j) - 1 THEN NL ELSE w[q]
    <3>1. TAKE q \in Offsets
    <3>2. CASE \E j \in 2 .. e : q = P(j) - 1
      BY <1>13, <1>16, <3>2
    <3>3. CASE ~ \E j \in 2 .. e : q = P(j) - 1
      BY <1>21, <3>3
    <3>4. QED BY <3>2, <3>3
  <2>2. \A q : (\E j \in 2 .. Len(s) : q = s[j] - 1) <=> (\E j \in 2 .. e : q = P(j) - 1)
    <3>1. \A j \in 2 .. e : j \in 1 .. e
      OBVIOUS
    <3>2. QED BY <1>20, <3>1
  <2>3. paragraphs2content(u) =
            [q \in Offsets |-> IF \E j \in 2 .. Len(s) : q = s[j] - 1 THEN NL ELSE w[q]]
    BY <1>20 DEF paragraphs2content
  <2>4. flat = [q \in Offsets |-> flat[q]]
    BY <1>13
  <2>5. QED BY <2>1, <2>2, <2>3, <2>4
<1>28. ParagraphsOf(u) = g
  <2> DEFINE y == ParagraphsOf(u)
             S == Seq(Bytes)
  <2>1. /\ y \in Docs /\ Len(y) = e
        /\ \A j \in 1 .. e :
              /\ y[j] \in S /\ Len(y[j]) = EndAt(u, z, j) - P(j)
              /\ \A i \in 1 .. EndAt(u, z, j) - P(j) : y[j][i] = w[P(j) + i - 1]
    <3>1. /\ y \in Docs /\ Len(y) = Len(u.ptr)
          /\ \A j \in 1 .. Len(u.ptr) :
                /\ y[j] \in Seq(Bytes) /\ Len(y[j]) = EndAt(u, z, j) - u.ptr[j]
                /\ \A i \in 1 .. EndAt(u, z, j) - u.ptr[j] : y[j][i] = u.buf[u.ptr[j] + i - 1]
      BY <1>22, <1>25, ParagraphsTyped
    <3>2. Len(u.ptr) = e /\ u.buf = w /\ \A j \in 1 .. e : u.ptr[j] = P(j)
      BY <1>20
    <3> HIDE DEF y
    <3>3. QED BY <3>1, <3>2
  <2>2. \A j \in 1 .. e : EndAt(u, z, j) = G(j)
    <3>1. TAKE j \in 1 .. e
    <3>2. CASE j < e
      <4>1. j \in 1 .. e - 1 /\ j + 1 \in 1 .. e
        BY <1>9, <3>2
      <4>2. EndAt(u, z, j) = P(j + 1) - 1
        BY <1>20, <3>2, <4>1 DEF EndAt
      <4>3. QED BY <1>24, <4>1, <4>2
    <3>3. CASE ~ (j < e)
      <4>1. j = e
        BY <1>9, <3>3
      <4>2. EndAt(u, z, j) = z
        BY <1>20, <3>3 DEF EndAt
      <4>3. QED BY <1>24, <4>1, <4>2
    <3>4. QED BY <3>2, <3>3
  <2>3. g = [j \in 1 .. e |-> g[j]]
    BY DEF g, Doc!Left
  <2> HIDE DEF y
  <2>4. ASSUME NEW j \in 1 .. e PROVE y[j] = g[j]
    <3> DEFINE a == y[j]
               c == g[j]
               r == G(j) - P(j)
    <3>1. r \in Nat /\ P(j) \in Nat /\ G(j) \in Nat
      BY <1>14
    <3>2. /\ a \in Seq(Bytes) /\ Len(a) = r
          /\ \A i \in 1 .. r : a[i] = w[P(j) + i - 1]
      BY <2>1, <2>2
    <3>3. /\ c \in Seq(Bytes) /\ Len(c) = r
          /\ \A i \in 1 .. r : c[i] = v.buf[from(j) + i - 1]
      BY <1>18
    <3>4. ASSUME NEW i \in 1 .. r PROVE w[P(j) + i - 1] = v.buf[from(j) + i - 1]
      <4>1. P(j) + i - 1 \in P(j) .. G(j) - 1 /\ (P(j) + i - 1) - P(j) = i - 1
        BY <3>1
      <4>2. w[P(j) + i - 1] = v.buf[from(j) + (i - 1)]
        BY <1>19, <4>1
      <4>3. from(j) \in Nat
        <5>1. j \in 1 .. m /\ j + 1 \in 1 .. m
          BY <1>7, <1>14, <1>9, <1>1
        <5>2. QED BY <1>2, <5>1 DEF from
      <4>4. from(j) + (i - 1) = from(j) + i - 1
        BY <4>3
      <4>5. QED BY <4>2, <4>4
    <3>5. \A i \in 1 .. r : a[i] = c[i]
      BY <3>2, <3>3, <3>4
    <3> HIDE DEF a, c, r
    <3>6. a = c
      BY <3>1, <3>2, <3>3, <3>5, SameText
    <3>7. QED BY <3>6 DEF a, c
  <2>5. y = [j \in 1 .. e |-> y[j]]
    <3>1. y \in Seq(S)
      BY <2>1 DEF Docs
    <3> HIDE DEF S
    <3>2. QED BY <2>1, <3>1
  <2>6. y = g
    BY <2>3, <2>4, <2>5
  <2>7. QED BY <2>6 DEF y
<1>29. Len(g) = e /\ g \in Seq(Seq(Bytes))
  BY <1>20, <1>22, <1>25, <1>28, ParagraphsTyped DEF Docs
<1>30. z = 0 <=> g = << <<>> >>
  <2>1. z = 0 => e = 1
    <3>1. SUFFICES ASSUME z = 0, e # 1 PROVE FALSE
      OBVIOUS
    <3>2. 1 \in 1 .. m /\ 1 < e
      BY <1>1, <1>9, <3>1
    <3>3. E(1) < P(e) /\ E(1) \in Nat
      BY <1>2, <1>9, <3>2
    <3>4. QED BY <1>12, <3>1, <3>3 DEF z
  <2>2. e = 1 => Len(g[1]) = z /\ g[1] \in Seq(Bytes)
    <3>1. HAVE e = 1
    <3>2. Len(g[1]) = G(1) - P(1) /\ g[1] \in Seq(Bytes) /\ G(1) = z /\ P(1) = 0
      BY <1>2, <1>18, <1>24, <3>1
    <3>3. QED BY <1>12, <3>2
  <2>3. ASSUME z = 0 PROVE g = << <<>> >>
    <3>1. e = 1 /\ Len(g[1]) = 0 /\ g[1] \in Seq(Bytes)
      BY <2>1, <2>2, <2>3
    <3>2. g[1] = <<>>
      BY <3>1
    <3> DEFINE S == Seq(Bytes)
    <3>3. Len(g) = 1 /\ g \in Seq(S)
      BY <1>29, <3>1
    <3> HIDE DEF S
    <3>4. QED BY <3>2, <3>3
  <2>4. ASSUME g = << <<>> >> PROVE z = 0
    <3>1. Len(g) = 1 /\ Len(g[1]) = 0
      BY <2>4
    <3>2. QED BY <1>29, <2>2, <3>1
  <2>5. QED BY <2>3, <2>4
<1>31. /\ Doc!EndsAt(d, k, e) /\ Delimited(u, z) /\ u.buf[Size - 1] = NUL /\ Len(u.ptr) = e
       /\ flat = paragraphs2content(u) /\ ParagraphsOf(u) = g /\ (z = 0 <=> g = << <<>> >>)
  BY <1>8, <1>20, <1>25, <1>26, <1>27, <1>28, <1>30
<1>32. z \in Offsets
  BY <1>31 DEF Delimited
<1>33. QED BY <1>22, <1>31, <1>32 DEF d, flat, g, m

\* The only paragraph stays.
LEMMA RemovalOfOne ==
    ASSUME NEW v, NEW n, Shown(v, n), NEW k \in 1 .. Len(v.ptr), Len(v.ptr) = 1
    PROVE  paragraphs2content(WithoutParagraph(v, k)) = paragraphs2content(v)
<1> DEFINE y == WithoutParagraph(v, k)
<1>1. v \in Views /\ Delimited(v, n) /\ v.ptr \in Seq(Offsets) /\ v.buf \in [Offsets -> Bytes]
  BY PtrTyped DEF Shown
<1>2. y.buf = v.buf
  <2>1. k = Len(v.ptr)
    OBVIOUS
  <2>2. Shifted(v, k) = v.buf
    BY <1>1, <2>1, ShiftKeeps
  <2>3. QED BY <2>2 DEF WithoutParagraph
<1>3. Len(y.ptr) = 0
  <2>1. Front(v.ptr) = SubSeq(v.ptr, 1, 0)
    BY DEF Front
  <2>2. QED BY <1>1, <2>1 DEF WithoutParagraph
<1> HIDE DEF y
<1>4. paragraphs2content(y) = [i \in Offsets |-> v.buf[i]]
  BY <1>2, <1>3 DEF paragraphs2content
<1>5. paragraphs2content(v) = [i \in Offsets |-> v.buf[i]]
  BY DEF paragraphs2content
<1>6. QED BY <1>4, <1>5 DEF y

-----------------------------------------------------------------------------
(* The edits of the note on screen.                                        *)

\* The note on screen is v, and its string is saved.
SavedView(v, s) ==
    /\ \E n : Shown(v, n)
    /\ s \in Seq(Bytes) /\ s = FlatString(ParagraphsOf(v))

\* A text that is split, joined, saved and displayed.
LEMMA SaveShown ==
    ASSUME NEW u \in Views, NEW n, Delimited(u, n), u.buf[Size - 1] = NUL
    PROVE  LET flat == paragraphs2content(u)
               w == content2paragraphs(flat)
           IN  /\ SavedView(w, StrAt(flat, 0))
               /\ w = IF n = 0 THEN [buf |-> u.buf, ptr |-> <<>>] ELSE u
               /\ ParagraphsOf(w) = IF n = 0 THEN <<>> ELSE ParagraphsOf(u)
<1> DEFINE flat == paragraphs2content(u)
           w == content2paragraphs(flat)
<1>1. n \in Nat /\ n <= Size - 1 /\ Size - 1 \in Offsets
  BY SizeFacts DEF Delimited, Offsets
<1>2. /\ flat \in [Offsets -> Bytes] /\ IsFlat(flat, n)
      /\ \A q \in Offsets : flat[q] = IF q < n /\ u.buf[q] = NUL THEN NL ELSE u.buf[q]
  BY JoinBytes
<1>3. flat[Size - 1] = NUL
  <2>1. ~ (Size - 1 < n)
    BY <1>1, SizeFacts
  <2>2. QED BY <1>1, <1>2, <2>1
<1>4. w = IF n = 0 THEN [buf |-> u.buf, ptr |-> <<>>] ELSE u
  BY JoinSplit
<1> HIDE DEF flat
<1>5. /\ Shown(w, n) /\ StrAt(flat, 0) \in Seq(Bytes)
      /\ StrAt(flat, 0) = FlatString(ParagraphsOf(w))
  BY <1>2, <1>3, SplitShown
<1> HIDE DEF w
<1>6. SavedView(w, StrAt(flat, 0))
  BY <1>5 DEF SavedView
<1>7. n = 0 => ParagraphsOf(w) = <<>>
  <2>1. HAVE n = 0
  <2>2. w \in Views /\ Delimited(w, n) /\ w.ptr = <<>>
    BY <1>5, <2>1 DEF Shown
  <2>3. ParagraphsOf(w) \in Docs /\ Len(ParagraphsOf(w)) = 0
    BY <2>2, ParagraphsTyped
  <2> DEFINE S == Seq(Bytes)
             d == ParagraphsOf(w)
  <2>4. d \in Seq(S) /\ Len(d) = 0
    BY <2>3 DEF Docs
  <2> HIDE DEF d, S
  <2>5. d = <<>>
    BY <2>4
  <2>6. QED BY <2>5 DEF d
<1>8. ParagraphsOf(w) = IF n = 0 THEN <<>> ELSE ParagraphsOf(u)
  BY <1>4, <1>7
<1>9. QED BY <1>4, <1>6, <1>8 DEF w, flat

LEMMA ShownDoc ==
    ASSUME NEW v, NEW n, Shown(v, n)
    PROVE  /\ v \in Views /\ Delimited(v, n) /\ n \in Nat /\ v.buf[Size - 1] = NUL
           /\ Len(v.ptr) \in Nat /\ DOMAIN v.ptr = 1 .. Len(v.ptr)
           /\ ParagraphsOf(v) \in Docs /\ Len(ParagraphsOf(v)) = Len(v.ptr)
           /\ DOMAIN ParagraphsOf(v) = 1 .. Len(v.ptr)
           /\ v.ptr = <<>> <=> ParagraphsOf(v) = <<>>
           /\ FlatString(ParagraphsOf(v)) \in Seq(Bytes)
           /\ Len(FlatString(ParagraphsOf(v))) = n
<1> DEFINE d == ParagraphsOf(v)
           S == Seq(Bytes)
<1>1. v \in Views /\ Delimited(v, n) /\ v.buf[Size - 1] = NUL
  BY DEF Shown
<1>2. n \in Nat
  BY <1>1, SizeFacts DEF Delimited, Offsets
<1>3. Len(v.ptr) \in Nat /\ DOMAIN v.ptr = 1 .. Len(v.ptr) /\ (v.ptr = <<>> <=> Len(v.ptr) = 0)
  BY <1>1, PtrTyped
<1>4. d \in Docs /\ Len(d) = Len(v.ptr)
  BY <1>1, ParagraphsTyped
<1>5. Len(FlatString(d)) = n
  BY <1>1, FlatOfView
<1>6. FlatString(d) \in Seq(Bytes)
  <2>1. <<>> \in Seq(Bytes)
    OBVIOUS
  <2>2. QED BY <1>4, <2>1, FlatAppend
<1>7. d \in Seq(S)
  BY <1>4 DEF Docs
<1> HIDE DEF d, S
<1>8. d = <<>> <=> Len(d) = 0
  BY <1>7
<1>9. DOMAIN d = 1 .. Len(v.ptr)
  BY <1>4, <1>7
<1>10. QED BY <1>1, <1>2, <1>3, <1>4, <1>5, <1>6, <1>8, <1>9 DEF d

LEMMA AddShown ==
    ASSUME NEW v, NEW n, Shown(v, n), NEW t \in Texts, Fits(Append(ParagraphsOf(v), t))
    PROVE  LET flat == paragraphs2content(onNewParagraphConfirmed(v, t))
               w == content2paragraphs(flat)
           IN  /\ SavedView(w, StrAt(flat, 0)) /\ Len(w.ptr) <= Len(v.ptr) + 1
               /\ ParagraphsOf(w) = Doc!Normal(Append(ParagraphsOf(v), t))
<1> DEFINE u == onNewParagraphConfirmed(v, t)
           d == ParagraphsOf(v)
           flat == paragraphs2content(u)
           w == content2paragraphs(flat)
           z == NewAt(v, n) + Len(t)
<1>1. /\ v \in Views /\ Delimited(v, n) /\ n \in Nat /\ v.buf[Size - 1] = NUL
      /\ Len(v.ptr) \in Nat /\ d \in Docs /\ Len(d) = Len(v.ptr)
      /\ (v.ptr = <<>> <=> d = <<>>) /\ Len(FlatString(d)) = n
  BY ShownDoc
<1>2. t \in Seq(Bytes) /\ Len(t) \in Nat
  BY TextFacts
<1>3. Len(FlatString(Append(d, t))) = IF d = <<>> THEN Len(t) ELSE Len(FlatString(d)) + 1 + Len(t)
  <2> HIDE DEF d
  <2>1. QED BY <1>1, <1>2, FlatAppend
<1>4. z < Size /\ z \in Nat /\ NewAt(v, n) \in Nat
  <2>1. Len(FlatString(Append(d, t))) < Size
    BY DEF Fits
  <2>2. NewAt(v, n) = IF d = <<>> THEN 0 ELSE n + 1
    BY <1>1 DEF NewAt
  <2> HIDE DEF d
  <2>3. QED BY <1>1, <1>2, <1>3, <2>1, <2>2
<1>5. /\ u \in Views /\ Len(u.ptr) = Len(v.ptr) + 1 /\ Delimited(u, z)
      /\ ParagraphsOf(u) = Append(d, t) /\ u.buf[Size - 1] = NUL
  BY <1>1, <1>4, AddDelimits
<1> HIDE DEF u, d, z
<1>6. /\ SavedView(w, StrAt(flat, 0))
      /\ w = IF z = 0 THEN [buf |-> u.buf, ptr |-> <<>>] ELSE u
      /\ ParagraphsOf(w) = IF z = 0 THEN <<>> ELSE Append(d, t)
  BY <1>5, SaveShown
<1>7. z = 0 <=> Append(d, t) = << <<>> >>
  <2> DEFINE S == Seq(Bytes)
  <2>1. d \in Seq(S) /\ t \in S
    BY <1>1, <1>2 DEF Docs
  <2>2. z = 0 <=> d = <<>> /\ Len(t) = 0
    <3>1. z = NewAt(v, n) + Len(t) /\ NewAt(v, n) = IF d = <<>> THEN 0 ELSE n + 1
      BY <1>1 DEF NewAt, z, d
    <3>2. QED BY <1>1, <1>2, <3>1
  <2>3. Len(t) = 0 <=> t = <<>>
    BY <1>2
  <2> HIDE DEF S
  <2>4. Append(d, t) = << <<>> >> <=> d = <<>> /\ t = <<>>
    <3>1. ASSUME Append(d, t) = << <<>> >> PROVE d = <<>> /\ t = <<>>
      <4>1. Len(Append(d, t)) = Len(d) + 1 /\ Append(d, t)[Len(d) + 1] = t
        BY <2>1
      <4>2. Len(<< <<>> >>) = 1 /\ << <<>> >>[1] = <<>>
        OBVIOUS
      <4>3. Len(d) = 0
        BY <1>1, <3>1, <4>1, <4>2
      <4>4. d = <<>>
        BY <2>1, <4>3
      <4>5. t = <<>>
        BY <3>1, <4>1, <4>2, <4>3
      <4>6. QED BY <4>4, <4>5
    <3>2. Append(<<>>, <<>>) = << <<>> >>
      OBVIOUS
    <3>3. QED BY <3>1, <3>2
  <2>5. QED BY <2>2, <2>3, <2>4
<1>8. ParagraphsOf(w) = Doc!Normal(Append(d, t))
  <2> HIDE DEF w
  <2>1. QED BY <1>6, <1>7 DEF Doc!Normal
<1>9. Len(w.ptr) <= Len(v.ptr) + 1
  <2> HIDE DEF w
  <2>1. CASE z = 0
    <3>1. w.ptr = <<>>
      BY <1>6, <2>1
    <3>2. Len(w.ptr) = 0
      BY <3>1
    <3>3. QED BY <1>1, <3>2
  <2>2. CASE z # 0
    BY <1>1, <1>5, <1>6, <2>2
  <2>3. QED BY <2>1, <2>2
<1>10. QED BY <1>6, <1>8, <1>9 DEF d, u

LEMMA ReplaceShown ==
    ASSUME NEW v, NEW n, Shown(v, n), NEW k \in 1 .. Len(v.ptr), NEW t \in Texts, t # <<>>,
           Fits([ParagraphsOf(v) EXCEPT ![k] = t])
    PROVE  LET flat == paragraphs2content(ReplaceParagraph(v, k, t))
               w == content2paragraphs(flat)
           IN  /\ SavedView(w, StrAt(flat, 0)) /\ Len(w.ptr) = Len(v.ptr)
               /\ ParagraphsOf(w) = [ParagraphsOf(v) EXCEPT ![k] = t]
<1> DEFINE u == ReplaceParagraph(v, k, t)
           d == ParagraphsOf(v)
           flat == paragraphs2content(u)
           w == content2paragraphs(flat)
           z == n + Growth(v, n, k, t)
<1>1. /\ v \in Views /\ Delimited(v, n) /\ n \in Nat /\ v.buf[Size - 1] = NUL
      /\ Len(v.ptr) \in Nat /\ d \in Docs /\ Len(d) = Len(v.ptr) /\ Len(FlatString(d)) = n
  BY ShownDoc
<1>2. t \in Seq(Bytes) /\ Len(t) \in Nat /\ Len(t) # 0
  BY TextFacts
<1>3. v.ptr[k] \in Nat /\ EndAt(v, n, k) \in v.ptr[k] .. n /\ Len(d[k]) = EndAt(v, n, k) - v.ptr[k]
  <2>1. v.ptr[k] \in Offsets /\ EndAt(v, n, k) \in v.ptr[k] .. n
    BY <1>1, ParagraphEnd
  <2>2. Len(d[k]) = EndAt(v, n, k) - v.ptr[k]
    BY <1>1, ParagraphsTyped
  <2> HIDE DEF d
  <2>3. QED BY <2>1, <2>2 DEF Offsets
<1>4. Len(FlatString([d EXCEPT ![k] = t])) = n - Len(d[k]) + Len(t)
  <2> HIDE DEF d
  <2>1. k \in 1 .. Len(d)
    BY <1>1
  <2>2. Len(FlatString([d EXCEPT ![k] = t])) = Len(FlatString(d)) - Len(d[k]) + Len(t)
    BY <1>1, <1>2, <2>1, FlatReplace
  <2>3. QED BY <1>1, <2>2
<1>5. z < Size /\ z # 0
  <2>1. Len(FlatString([d EXCEPT ![k] = t])) < Size
    BY DEF Fits
  <2> DEFINE l == Len(d[k])
             c == EndAt(v, n, k)
             p == v.ptr[k]
  <2>2. n - l + Len(t) < Size /\ l = c - p /\ p \in Nat /\ c \in p .. n
    BY <1>3, <1>4, <2>1
  <2>3. z = n + (Len(t) - (c - p))
    BY DEF Growth
  <2> HIDE DEF l, c, p, z
  <2>4. QED BY <1>1, <1>2, <2>2, <2>3, SizeFacts
<1>6. /\ u \in Views /\ Len(u.ptr) = Len(v.ptr) /\ Delimited(u, z)
      /\ ParagraphsOf(u) = [d EXCEPT ![k] = t] /\ u.buf[Size - 1] = NUL
  BY <1>1, <1>5, ReplaceDelimits
<1> HIDE DEF u, d, z
<1>7. /\ SavedView(w, StrAt(flat, 0)) /\ w = u /\ ParagraphsOf(w) = [d EXCEPT ![k] = t]
  BY <1>5, <1>6, SaveShown
<1> HIDE DEF w
<1>8. QED BY <1>6, <1>7 DEF w, d, u

LEMMA RemoveShown ==
    ASSUME NEW v, NEW n, Shown(v, n), NEW k \in 1 .. Len(v.ptr)
    PROVE  LET d == ParagraphsOf(v)
               flat == paragraphs2content(WithoutParagraph(v, k))
               w == content2paragraphs(flat)
           IN  /\ SavedView(w, StrAt(flat, 0)) /\ Len(w.ptr) <= Len(v.ptr)
               /\ Len(d) = 1 => w = v
               /\ Len(d) # 1 =>
                     /\ Len(d) > 1
                     /\ \E e \in 1 .. Len(d) - 1 :
                           /\ Doc!EndsAt(d, k, e)
                           /\ ParagraphsOf(w) = Doc!Normal(Doc!Left(d, k, e))
<1> DEFINE d == ParagraphsOf(v)
           flat == paragraphs2content(WithoutParagraph(v, k))
           w == content2paragraphs(flat)
<1>1. /\ v \in Views /\ Delimited(v, n) /\ v.buf[Size - 1] = NUL
      /\ Len(v.ptr) \in Nat /\ Len(d) = Len(v.ptr) /\ Len(v.ptr) >= 1
  BY ShownDoc
<1> HIDE DEF d
<1>2. CASE Len(v.ptr) = 1
  <2>1. flat = paragraphs2content(v)
    BY <1>2, RemovalOfOne
  <2>2. w = v
    BY <2>1, JoinShown
  <2>3. SavedView(w, StrAt(flat, 0))
    BY <1>1, <2>1, SaveShown
  <2> HIDE DEF w, flat
  <2>4. Len(w.ptr) <= Len(v.ptr) /\ (Len(d) = 1 => w = v) /\ Len(d) = 1
    BY <1>1, <1>2, <2>2
  <2>5. QED BY <2>3, <2>4 DEF w, flat, d
<1>3. CASE Len(v.ptr) # 1
  <2>1. Len(v.ptr) > 1 /\ Len(d) > 1 /\ Len(d) = Len(v.ptr)
    <3> DEFINE x == Len(v.ptr)
    <3>1. x \in Nat /\ x >= 1 /\ x # 1 /\ Len(d) = x
      BY <1>1, <1>3
    <3> HIDE DEF x
    <3>2. x > 1
      BY <3>1
    <3>3. QED BY <3>1, <3>2 DEF x
  <2>2. PICK e \in 1 .. Len(v.ptr) - 1, u \in Views, z \in Offsets :
           /\ Doc!EndsAt(d, k, e)
           /\ Delimited(u, z) /\ u.buf[Size - 1] = NUL /\ Len(u.ptr) = e
           /\ flat = paragraphs2content(u)
           /\ ParagraphsOf(u) = Doc!Left(d, k, e)
           /\ z = 0 <=> Doc!Left(d, k, e) = << <<>> >>
    BY <2>1, RemovalLeaves DEF d
  <2>3. /\ SavedView(w, StrAt(flat, 0))
        /\ w = IF z = 0 THEN [buf |-> u.buf, ptr |-> <<>>] ELSE u
        /\ ParagraphsOf(w) = IF z = 0 THEN <<>> ELSE ParagraphsOf(u)
    BY <2>2, SaveShown
  <2> HIDE DEF w, flat
  <2>4. ParagraphsOf(w) = Doc!Normal(Doc!Left(d, k, e))
    BY <2>2, <2>3 DEF Doc!Normal
  <2>5. Len(w.ptr) <= Len(v.ptr)
    <3>1. CASE z = 0
      <4>1. Len(w.ptr) = 0
        BY <2>3, <3>1
      <4>2. QED BY <1>1, <4>1
    <3>2. CASE z # 0
      BY <1>1, <2>2, <2>3, <3>2
    <3>3. QED BY <3>1, <3>2
  <2>6. e \in 1 .. Len(d) - 1 /\ Len(d) # 1
    <3>1. e \in 1 .. Len(v.ptr) - 1
      BY <2>2
    <3> DEFINE x == Len(v.ptr)
               y == Len(d)
    <3>2. x > 1 /\ y = x /\ x \in Nat /\ e \in 1 .. x - 1
      BY <1>1, <2>1, <3>1
    <3> HIDE DEF x, y
    <3>3. e \in 1 .. y - 1 /\ y # 1
      BY <3>2
    <3>4. QED BY <3>3 DEF y
  <2>7. QED BY <2>1, <2>2, <2>3, <2>4, <2>5, <2>6 DEF w, flat, d
<1>4. QED BY <1>2, <1>3

\* The inductive invariant: the buffer holds the paragraphs one after the
\* other from its start, each ended by a '\0', its last byte is a '\0', and the
\* paragraphs are those of the string saved.
ViewInv == SavedView(view, stored) /\ Len(view.ptr) <= MaxParagraphs

LEMMA ViewInvTypes == ViewInv => TypeOK
<1>1. SUFFICES ASSUME ViewInv PROVE TypeOK
  OBVIOUS
<1>2. PICK n : Shown(view, n)
  BY <1>1 DEF ViewInv, SavedView
<1>3. view \in [buf : [Offsets -> Bytes], ptr : Seq(Offsets)]
  BY <1>2 DEF Shown, Views
<1>4. QED BY <1>1, <1>3 DEF ViewInv, SavedView, TypeOK

LEMMA ViewInvDelimits == ViewInv => PointersDelimit
<1>1. SUFFICES ASSUME ViewInv PROVE PointersDelimit
  OBVIOUS
<1>2. PICK n : Shown(view, n)
  BY <1>1 DEF ViewInv, SavedView
<1>3. view \in Views /\ Delimited(view, n) /\ view.buf[Size - 1] = NUL
  BY <1>2 DEF Shown
<1>4. Len(view.ptr) \in Nat /\ DOMAIN view.ptr = 1 .. Len(view.ptr)
  BY <1>3, PtrTyped
<1>5. ASSUME NEW j \in 1 .. Len(view.ptr)
      PROVE  view.ptr[j] = IF j = 1 THEN 0 ELSE EndOf(view.buf, view.ptr[j - 1])
  <2>1. view.ptr # <<>>
    BY <1>4
  <2>2. CASE j = 1
    BY <1>3, <2>1, <2>2 DEF Delimited, CutAt
  <2>3. CASE j # 1
    <3>1. j - 1 \in 1 .. Len(view.ptr) /\ j - 1 < Len(view.ptr) /\ (j - 1) + 1 = j
      BY <1>4, <2>3
    <3>2. EndOf(view.buf, view.ptr[j - 1]) = EndAt(view, n, j - 1) + 1
      BY <1>3, <3>1, ParagraphEnd
    <3>3. EndAt(view, n, j - 1) = view.ptr[j] - 1
      BY <3>1 DEF EndAt
    <3>4. view.ptr[j] \in Nat
      <4>1. view.ptr[j] \in Offsets
        BY <1>3, ParagraphEnd
      <4>2. QED BY <4>1 DEF Offsets
    <3>5. QED BY <2>3, <3>2, <3>3, <3>4
  <2>4. QED BY <2>2, <2>3
<1>6. QED BY <1>3, <1>4, <1>5 DEF PointersDelimit

LEMMA ViewInvSaved == ViewInv => ViewIsStored
<1>1. SUFFICES ASSUME ViewInv PROVE ViewIsStored
  OBVIOUS
<1>2. ShownIsStored
  BY <1>1 DEF ViewInv, SavedView, ShownIsStored, paragraphs
<1>3. QED BY <1>1, <1>2, ViewInvDelimits DEF ViewIsStored

LEMMA ViewInvInit == Init => ViewInv /\ Doc!Init
<1> DEFINE buf == BufferOf(<<>>)
           w == content2paragraphs(buf)
<1>1. SUFFICES ASSUME Init PROVE ViewInv /\ Doc!Init
  OBVIOUS
<1>2. FlatString(<<>>) = <<>> /\ <<>> \in Docs
  <2> DEFINE f == [m \in 0 .. 0 |-> <<>>]
  <2>1. <<>> \in Docs /\ Len(<<>>) = 0
    BY DEF Docs
  <2>2. Flattens(f, <<>>)
    BY <2>1 DEF Flattens, FlatStep
  <2>3. f[0] = <<>>
    OBVIOUS
  <2> HIDE DEF f
  <2>4. QED BY <2>1, <2>2, <2>3, FlatIs
<1>3. buf = [q \in Offsets |-> NUL]
  <2>1. \A q \in Offsets : ~ (q < Len(<<>>))
    BY DEF Offsets
  <2>2. QED BY <1>2, <2>1 DEF BufferOf
<1>4. buf \in [Offsets -> Bytes] /\ IsFlat(buf, 0) /\ buf[Size - 1] = NUL /\ 0 .. 0 - 1 = {}
  BY <1>3, SizeFacts DEF IsFlat
<1> HIDE DEF buf
<1>5. /\ Shown(w, 0) /\ StrAt(buf, 0) \in Seq(Bytes)
      /\ StrAt(buf, 0) = FlatString(ParagraphsOf(w))
  BY <1>4, SplitShown
<1> HIDE DEF w
<1>6. w.ptr = <<>> /\ ParagraphsOf(w) = <<>> /\ Len(w.ptr) = 0
  <2>1. w.ptr = <<>>
    BY <1>5 DEF Shown
  <2>2. QED BY <1>5, <2>1, ShownDoc
<1>7. view = w /\ stored = <<>>
  BY <1>1 DEF Init, w, buf
<1>8. ViewInv
  <2>1. <<>> \in Seq(Bytes)
    OBVIOUS
  <2>2. SavedView(w, <<>>)
    BY <1>2, <1>5, <1>6, <2>1 DEF SavedView
  <2>3. QED BY <1>6, <1>7, <2>2, SizeFacts, ParagraphsAssumption DEF ViewInv
<1>9. Doc!Init
  BY <1>6, <1>7 DEF Doc!Init, paragraphs
<1>10. QED BY <1>8, <1>9

\* Each step keeps the invariant, and is a step on the paragraphs.
LEMMA ViewInvStep == ViewInv /\ [Next]_vars => ViewInv' /\ [Doc!Next]_paragraphs
<1>1. SUFFICES ASSUME ViewInv, [Next]_vars
               PROVE  ViewInv' /\ [Doc!Next]_paragraphs
  OBVIOUS
<1>2. PICK n : Shown(view, n)
  BY <1>1 DEF ViewInv, SavedView
<1>3. /\ Len(view.ptr) \in Nat /\ DOMAIN view.ptr = 1 .. Len(view.ptr)
      /\ Len(paragraphs) = Len(view.ptr) /\ DOMAIN paragraphs = 1 .. Len(view.ptr)
      /\ Len(view.ptr) <= MaxParagraphs /\ MaxParagraphs \in Nat
  BY <1>1, <1>2, ShownDoc, ParagraphsAssumption DEF ViewInv, paragraphs
<1>4. ASSUME UNCHANGED vars PROVE ViewInv' /\ [Doc!Next]_paragraphs
  BY <1>1, <1>4 DEF vars, ViewInv, paragraphs
<1>5. ASSUME NEW t \in Texts, AddParagraph(t) PROVE ViewInv' /\ Doc!Next
  <2> DEFINE flat == paragraphs2content(onNewParagraphConfirmed(view, t))
  <2>1. /\ Len(view.ptr) < MaxParagraphs /\ Fits(Append(ParagraphsOf(view), t))
        /\ stored' = StrAt(flat, 0) /\ view' = content2paragraphs(flat)
    BY <1>5 DEF AddParagraph, SaveAndDisplay
  <2>2. /\ SavedView(view', stored') /\ Len(view'.ptr) <= Len(view.ptr) + 1
        /\ ParagraphsOf(view') = Doc!Normal(Append(ParagraphsOf(view), t))
    BY <1>2, <2>1, AddShown
  <2>3. Len(view'.ptr) \in Nat
    BY <2>2, ShownDoc DEF SavedView
  <2>4. ViewInv'
    BY <1>3, <2>1, <2>2, <2>3 DEF ViewInv
  <2>5. Doc!AppendText(t)
    BY <1>3, <2>1, <2>2 DEF Doc!AppendText, paragraphs
  <2>6. QED BY <2>4, <2>5 DEF Doc!Next
<1>6. ASSUME NEW k \in DOMAIN view.ptr, NEW t \in Texts, ModifyParagraph(k, t)
      PROVE  ViewInv' /\ [Doc!Next]_paragraphs
  <2>1. k \in 1 .. Len(view.ptr)
    BY <1>3
  <2>2. CASE t # <<>>
    <3> DEFINE flat == paragraphs2content(ReplaceParagraph(view, k, t))
    <3>1. /\ Fits([ParagraphsOf(view) EXCEPT ![k] = t])
          /\ stored' = StrAt(flat, 0) /\ view' = content2paragraphs(flat)
      BY <1>6, <2>2 DEF ModifyParagraph, SaveAndDisplay, onParagraphModified, paragraphs
    <3>2. /\ SavedView(view', stored') /\ Len(view'.ptr) = Len(view.ptr)
          /\ ParagraphsOf(view') = [ParagraphsOf(view) EXCEPT ![k] = t]
      BY <1>2, <2>1, <2>2, <3>1, ReplaceShown
    <3>3. ViewInv'
      BY <1>3, <3>2 DEF ViewInv
    <3>4. Doc!Replace(k, t)
      BY <3>2 DEF Doc!Replace, paragraphs
    <3>5. k \in DOMAIN paragraphs /\ t \in Texts \ {<<>>}
      BY <1>3, <2>1, <2>2
    <3>6. QED BY <3>3, <3>4, <3>5 DEF Doc!Next
  <2>3. CASE t = <<>>
    <3> DEFINE flat == paragraphs2content(WithoutParagraph(view, k))
    <3>1. stored' = StrAt(flat, 0) /\ view' = content2paragraphs(flat)
      BY <1>6, <2>3 DEF ModifyParagraph, SaveAndDisplay, onParagraphModified
    <3>2. /\ SavedView(view', stored') /\ Len(view'.ptr) <= Len(view.ptr)
          /\ Len(paragraphs) = 1 => view' = view
          /\ Len(paragraphs) # 1 =>
                /\ Len(paragraphs) > 1
                /\ \E e \in 1 .. Len(paragraphs) - 1 :
                      /\ Doc!EndsAt(paragraphs, k, e)
                      /\ ParagraphsOf(view') = Doc!Normal(Doc!Left(paragraphs, k, e))
      BY <1>2, <2>1, <3>1, RemoveShown DEF paragraphs
    <3>3. Len(view'.ptr) \in Nat
      BY <3>2, ShownDoc DEF SavedView
    <3>4. ViewInv'
      BY <1>3, <3>2, <3>3 DEF ViewInv
    <3>5. CASE Len(paragraphs) = 1
      <4>1. UNCHANGED paragraphs
        BY <3>2, <3>5 DEF paragraphs
      <4>2. QED BY <3>4, <4>1
    <3>6. CASE Len(paragraphs) # 1
      <4>1. Doc!Remove(k)
        BY <3>2, <3>6 DEF Doc!Remove, paragraphs
      <4>2. QED BY <1>3, <2>1, <3>4, <4>1 DEF Doc!Next
    <3>7. QED BY <3>5, <3>6
  <2>4. QED BY <2>2, <2>3
<1>7. ASSUME ModifyTitle \/ Redisplay \/ Reopen PROVE UNCHANGED vars
  <2>1. content2paragraphs(paragraphs2content(view)) = view
    BY <1>2, JoinShown
  <2>2. StrCpy(view.buf, 0, stored) = paragraphs2content(view)
    BY <1>1, <1>2, ReopenShown DEF ViewInv, SavedView
  <2>3. StrAt(paragraphs2content(view), 0) = stored
    BY <1>1, <1>2, FlatOfView DEF Shown, ViewInv, SavedView
  <2>4. QED BY <1>7, <2>1, <2>2, <2>3 DEF ModifyTitle, SaveAndDisplay, Redisplay, Reopen, vars
<1>8. QED BY <1>1, <1>4, <1>5, <1>6, <1>7 DEF Next

\* The pointers are offsets in the buffer, no more than NB_MAX_PARAGRAPHS.
THEOREM TypeCorrect == Spec => []TypeOK
<1>1. ViewInv /\ [Next]_vars => ViewInv'
  BY ViewInvStep
<1>2. QED BY <1>1, ViewInvInit, ViewInvTypes, PTL DEF Spec

\* The note on screen is the string saved, cut at the right places, whatever
\* the edits and the residue they leave in the buffer.
THEOREM ViewCorrect == Spec => []ViewIsStored
<1>1. ViewInv /\ [Next]_vars => ViewInv'
  BY ViewInvStep
<1>2. QED BY <1>1, ViewInvInit, ViewInvSaved, PTL DEF Spec

\* Every edit made in place is one of the edits of a sequence of paragraphs: one
\* more at the end, one changed alone, one removed with what that cuts from those
\* after it, and an empty text for the only paragraph changes nothing.
THEOREM EditsParagraphs == Spec => ImplementsDocument
<1>1. Init => ViewInv /\ Doc!Init
  BY ViewInvInit
<1>2. ViewInv /\ [Next]_vars => ViewInv' /\ [Doc!Next]_paragraphs
  BY ViewInvStep
<1>3. QED BY <1>1, <1>2, PTL DEF Spec, ImplementsDocument, Doc!Spec

\* Where a paragraph is as long as the one before it, whatever the length of the
\* last, confirming an empty text removes one paragraph and changes no other.
THEOREM EqualRemoval ==
    ASSUME NEW d \in Docs, NEW k \in 1 .. Len(d), NEW e, Doc!EndsAt(d, k, e),
           \A j \in k .. Len(d) - 2 : Len(d[j + 1]) = Len(d[j])
    PROVE  Doc!Left(d, k, e) = RemoveAt(d, k)
<1> DEFINE S == Seq(Bytes)
           m == Len(d)
           g == Doc!Left(d, k, e)
           r == RemoveAt(d, k)
<1>1. d \in Seq(S) /\ m \in Nat /\ k \in 1 .. m
  BY DEF Docs
<1>2. \A j \in 1 .. m : d[j] \in Seq(Bytes) /\ Len(d[j]) \in Nat
  <2>1. \A j \in 1 .. m : d[j] \in S
    <3> HIDE DEF S
    <3>1. QED BY <1>1
  <2>2. QED BY <2>1
<1>3. e = m - 1
  <2>1. Doc!Shortened(d, k) = {}
    <3>1. SUFFICES ASSUME NEW j \in k .. m - 2, Len(d[j + 1]) < Len(d[j]) PROVE FALSE
      BY DEF Doc!Shortened
    <3>2. j \in 1 .. m /\ Len(d[j + 1]) = Len(d[j])
      BY <1>1
    <3>3. QED BY <1>2, <3>1, <3>2
  <2>2. QED BY <2>1 DEF Doc!EndsAt
<1>4. \A j \in 1 .. m - 1 : g[j] = IF j < k THEN d[j] ELSE d[j + 1]
  <2>1. TAKE j \in 1 .. m - 1
  <2>2. g[j] = IF j < k THEN d[j] ELSE IF j = e THEN d[j + 1]
               ELSE SubSeq(d[j + 1], 1, Len(d[j]))
    BY <1>3 DEF Doc!Left
  <2>3. CASE j < k \/ j = e
    BY <2>2, <2>3
  <2>4. CASE ~ (j < k) /\ j # e
    <3> DEFINE c == d[j + 1]
    <3>1. j + 1 \in 1 .. m /\ j \in k .. m - 2
      BY <1>1, <1>3, <2>4
    <3>2. c \in Seq(Bytes) /\ Len(c) = Len(d[j])
      BY <1>2, <3>1
    <3> HIDE DEF c
    <3>3. SubSeq(c, 1, Len(c)) = c
      BY <3>2
    <3>4. QED BY <2>2, <2>4, <3>2, <3>3 DEF c
  <2>5. QED BY <2>3, <2>4
<1>5. g = [j \in 1 .. m - 1 |-> g[j]]
  BY <1>3 DEF Doc!Left
<1>6. /\ r \in Seq(S) /\ Len(r) = m - 1
      /\ \A j \in 1 .. m - 1 : r[j] = IF j < k THEN d[j] ELSE d[j + 1]
  <2> DEFINE x == SubSeq(d, 1, k - 1)
             y == SubSeq(d, k + 1, m)
  <2> HIDE DEF S
  <2>1. x \in Seq(S) /\ Len(x) = k - 1 /\ \A j \in 1 .. k - 1 : x[j] = d[j]
    BY <1>1
  <2>2. y \in Seq(S) /\ Len(y) = m - k /\ \A j \in 1 .. m - k : y[j] = d[k + j]
    BY <1>1
  <2>3. r = x \o y
    BY DEF RemoveAt
  <2> HIDE DEF x, y, r, m
  <2>4. x \o y \in Seq(S) /\ Len(x \o y) = m - 1
    <3>1. x \o y \in Seq(S) /\ Len(x \o y) = Len(x) + Len(y)
      BY <2>1, <2>2, ConcatProperties
    <3>2. Len(x) + Len(y) = m - 1
      BY <1>1, <2>1, <2>2
    <3>3. QED BY <3>1, <3>2
  <2>5. \A j \in 1 .. m - 1 : (x \o y)[j] = IF j <= k - 1 THEN x[j] ELSE y[j - (k - 1)]
    BY <1>1, <2>1, <2>2
  <2>6. ASSUME NEW j \in 1 .. m - 1 PROVE (x \o y)[j] = IF j < k THEN d[j] ELSE d[j + 1]
    <3>1. CASE j < k
      <4>1. j \in 1 .. k - 1
        BY <1>1, <3>1
      <4>2. QED BY <2>1, <2>5, <3>1, <4>1
    <3>2. CASE ~ (j < k)
      <4>1. j - (k - 1) \in 1 .. m - k /\ k + (j - (k - 1)) = j + 1 /\ ~ (j <= k - 1)
        BY <1>1, <3>2
      <4>2. QED BY <2>2, <2>5, <3>2, <4>1
    <3>3. QED BY <3>1, <3>2
  <2>7. QED BY <2>3, <2>4, <2>6
<1>7. r = [j \in 1 .. m - 1 |-> r[j]]
  <2> HIDE DEF S, r
  <2>1. QED BY <1>6
<1>8. \A j \in 1 .. m - 1 : g[j] = r[j]
  BY <1>4, <1>6
<1> HIDE DEF g, r
<1>9. QED BY <1>5, <1>7, <1>8 DEF g, r
=============================================================================
