---------------------------- MODULE Lists_proofs ----------------------------
(* Theorems about Lists: the pages of the two lists, for any heights and any *)
(* number of notes and contacts.                                             *)
EXTENDS Lists, FiniteSetTheorems, TLAPS

-----------------------------------------------------------------------------
(* Induction, on sets of natural numbers.                                  *)

LEMMA LeastOf ==
    ASSUME NEW S \in SUBSET Nat, S # {}
    PROVE  \E m \in S : \A k \in S : m <= k
<1> DEFINE R == OpToRel(<, Nat)
<1>1. \A x, y \in Nat : x < y => <<x, y>> \in R
  BY DEF OpToRel
<1>2. IsWellFoundedOn(R, Nat)
  BY NatLessThanWellFounded
<1> HIDE DEF R
<1>3. PICK m \in S : \A k \in S : ~ (<<k, m>> \in R)
  BY <1>2, WFMin
<1>4. \A k \in S : ~ (k < m)
  BY <1>1, <1>3
<1>5. QED BY <1>4

LEMMA SetInduction ==
    ASSUME NEW T, 0 \in T, \A n \in Nat : n \in T => n + 1 \in T
    PROVE  Nat \subseteq T
<1> DEFINE S == Nat \ T
<1>1. SUFFICES ASSUME S # {} PROVE FALSE
  OBVIOUS
<1>2. PICK m \in S : \A k \in S : m <= k
  BY <1>1, LeastOf
<1>3. m # 0 /\ m - 1 \in Nat /\ m - 1 \notin S
  BY <1>2
<1>4. m \in T
  BY <1>3
<1>5. QED BY <1>4

\* A set of numbers from a on with no hole is an interval.
LEMMA NoHole ==
    ASSUME NEW a \in Nat, NEW n \in Nat, NEW S \in SUBSET (a .. n),
           \A c \in S : \A b \in a .. c : b \in S
    PROVE  /\ Cardinality(S) \in Nat
           /\ S = a .. a + Cardinality(S) - 1
           /\ a + Cardinality(S) <= n + 1 \/ S = {}
<1> DEFINE Out == {m \in Nat : m >= a /\ m \notin S}
<1>1. n + a + 1 \in Out
  OBVIOUS
<1>2. PICK m \in Out : \A k \in Out : m <= k
  BY <1>1, LeastOf
<1>3. S = a .. m - 1
  <2>1. ASSUME NEW c \in S PROVE c \in a .. m - 1
    BY <1>2
  <2>2. ASSUME NEW c \in a .. m - 1 PROVE c \in S
    BY <1>2
  <2>3. QED BY <2>1, <2>2
<1>4. Cardinality(S) = m - a
  <2>1. a \in Int /\ m - 1 \in Int /\ m >= a
    BY <1>2
  <2> DEFINE e == m - 1
  <2>2. Cardinality(a .. e) = IF a > e THEN 0 ELSE e - a + 1
    <3>1. a \in Int /\ e \in Int
      BY <2>1
    <3> HIDE DEF e
    <3>2. QED BY <3>1, FS_Interval
  <2>3. QED BY <1>3, <2>1, <2>2
<1>5. QED BY <1>2, <1>3, <1>4

\* A function on 0 .. n given by its first value and the step h.
LEMMA StepFunction ==
    ASSUME NEW n \in Nat, NEW a \in Nat, NEW h \in [Nat -> Nat]
    PROVE  \E f \in [0 .. n -> Nat] : f[0] = a /\ \A p \in 1 .. n : f[p] = h[f[p - 1]]
<1> DEFINE Steps(f, m) == f[0] = a /\ \A p \in 1 .. m : f[p] = h[f[p - 1]]
           T == {m \in Nat : \E f \in [0 .. m -> Nat] : Steps(f, m)}
<1>1. 0 \in T
  <2> DEFINE f == [p \in 0 .. 0 |-> a]
  <2>1. f \in [0 .. 0 -> Nat] /\ Steps(f, 0)
    OBVIOUS
  <2>2. QED BY <2>1
<1>2. ASSUME NEW m \in Nat, m \in T PROVE m + 1 \in T
  <2>1. PICK f \in [0 .. m -> Nat] : Steps(f, m)
    BY <1>2
  <2> DEFINE g == [p \in 0 .. m + 1 |-> IF p = m + 1 THEN h[f[m]] ELSE f[p]]
  <2>2. g \in [0 .. m + 1 -> Nat]
    OBVIOUS
  <2>3. Steps(g, m + 1)
    <3>1. g[0] = a
      <4>1. 0 \in 0 .. m + 1 /\ 0 # m + 1
        OBVIOUS
      <4>2. QED BY <2>1, <4>1
    <3>2. ASSUME NEW p \in 1 .. m + 1 PROVE g[p] = h[g[p - 1]]
      <4>1. CASE p = m + 1
        BY <4>1
      <4>2. CASE p \in 1 .. m
        <5>1. p # m + 1 /\ p - 1 # m + 1 /\ p \in 0 .. m + 1 /\ p - 1 \in 0 .. m + 1
          BY <4>2
        <5>2. g[p] = f[p] /\ g[p - 1] = f[p - 1]
          BY <5>1
        <5>3. f[p] = h[f[p - 1]]
          BY <4>2, <2>1
        <5> HIDE DEF g
        <5>4. QED BY <5>2, <5>3
      <4>3. p = m + 1 \/ p \in 1 .. m
        OBVIOUS
      <4> HIDE DEF g
      <4>4. QED BY <4>1, <4>2, <4>3
    <3> HIDE DEF g
    <3>3. QED BY <3>1, <3>2
  <2> HIDE DEF g
  <2>4. \E e \in [0 .. m + 1 -> Nat] : Steps(e, m + 1)
    BY <2>2, <2>3
  <2>5. m + 1 \in Nat
    OBVIOUS
  <2> HIDE DEF Steps
  <2>6. QED BY <2>4, <2>5
<1>3. n \in T
  BY <1>1, <1>2, SetInduction
<1>4. QED BY <1>3

-----------------------------------------------------------------------------
(* The pages, at a height that has room for a bar.                         *)

\* The bars a page has room for are the first ones.
LEMMA RoomForBars ==
    ASSUME NEW n \in Nat, NEW max \in Nat, Bar < max
    PROVE  /\ NbNotesInPage(n, max) \in 0 .. n
           /\ n > 0 => NbNotesInPage(n, max) > 0
           /\ NbNotesInPage(n, max) * Bar < max
<1> DEFINE S == {c \in 1 .. n : c * Bar < max}
           k == NbNotesInPage(n, max)
<1>1. Bar \in Nat \ {0}
  BY BarAssumption
<1>2. \A c \in S : \A b \in 1 .. c : b \in S
  <2>1. ASSUME NEW c \in S, NEW b \in 1 .. c PROVE b * Bar < max
    <3>1. b * Bar <= c * Bar
      BY <1>1
    <3>2. b * Bar \in Nat /\ c * Bar \in Nat
      BY <1>1
    <3>3. QED BY <3>1, <3>2
  <2>2. QED BY <2>1
<1>3. k = Cardinality(S)
  BY DEF NbNotesInPage
<1>4. k \in Nat /\ S = 1 .. k /\ (k <= n \/ S = {})
  <2>1. S \in SUBSET (1 .. n) /\ 1 \in Nat
    OBVIOUS
  <2> HIDE DEF S, k
  <2>2. k \in Nat /\ S = 1 .. 1 + k - 1 /\ (1 + k <= n + 1 \/ S = {})
    BY <2>1, <1>2, <1>3, NoHole
  <2>3. QED BY <2>2
<1>5. n > 0 => 1 \in S
  BY <1>1
<1>6. k > 0 => k * Bar < max
  <2>1. k > 0 => k \in S
    BY <1>4
  <2>2. QED BY <2>1
<1>7. k = 0 => k * Bar < max
  BY <1>1
<1> HIDE DEF S, k
<1>8. k \in 0 .. n /\ (n > 0 => k > 0) /\ k * Bar < max
  BY <1>4, <1>5, <1>6, <1>7
<1>9. QED BY <1>8 DEF k

\* A page with the navigation bar has room for no more.
LEMMA LessRoom ==
    ASSUME NEW n \in Nat
    PROVE  NbNotesInPage(n, Area - Footer) <= NbNotesInPage(n, Area)
<1> DEFINE S == {c \in 1 .. n : c * Bar < Area}
           T == {c \in 1 .. n : c * Bar < Area - Footer}
<1>1. IsFiniteSet(S)
  <2>1. IsFiniteSet(1 .. n) /\ S \in SUBSET (1 .. n)
    BY FS_Interval
  <2> HIDE DEF S
  <2>2. QED BY <2>1, FS_Subset
<1>2. T \in SUBSET S
  BY BarAssumption
<1>3. Cardinality(T) <= Cardinality(S)
  BY <1>1, <1>2, FS_Subset
<1>4. QED BY <1>3 DEF NbNotesInPage

\* What a page takes from the bars left before it.
TakenFrom(max) == [l \in Nat |-> l - NbNotesInPage(l, max)]

\* The definition of Left, by recursion, is that of a function.
LEMMA LeftSteps ==
    ASSUME NEW n \in Nat, NEW max \in Nat, Bar < max
    PROVE  /\ Left(n, max) \in [0 .. n -> Nat]
           /\ Left(n, max)[0] = n
           /\ \A p \in 1 .. n :
                 Left(n, max)[p] = Left(n, max)[p - 1] - NbNotesInPage(Left(n, max)[p - 1], max)
<1> DEFINE L == Left(n, max)
           Step(f, p) == IF p = 0 THEN n ELSE f[p - 1] - NbNotesInPage(f[p - 1], max)
           h == TakenFrom(max)
<1>1. h \in [Nat -> Nat]
  <2>1. \A l \in Nat : l - NbNotesInPage(l, max) \in Nat
    <3>1. TAKE l \in Nat
    <3>2. NbNotesInPage(l, max) \in 0 .. l
      BY RoomForBars
    <3>3. QED BY <3>2
  <2>2. QED BY <2>1 DEF TakenFrom
<1>2. PICK f \in [0 .. n -> Nat] : f[0] = n /\ \A p \in 1 .. n : f[p] = h[f[p - 1]]
  <2> HIDE DEF h
  <2>1. QED BY <1>1, StepFunction
<1>3. f = [p \in 0 .. n |-> Step(f, p)]
  <2>1. ASSUME NEW p \in 0 .. n PROVE f[p] = Step(f, p)
    <3>1. CASE p = 0
      BY <3>1, <1>2
    <3>2. CASE p # 0
      <4>1. p \in 1 .. n /\ f[p - 1] \in Nat
        BY <3>2
      <4>2. QED BY <3>2, <4>1, <1>2 DEF TakenFrom
    <3>3. QED BY <3>1, <3>2
  <2>2. QED BY <2>1
<1>4. L = [p \in 0 .. n |-> Step(L, p)]
  <2>1. L = CHOOSE g : g = [p \in 0 .. n |-> Step(g, p)]
    BY DEF Left
  <2> HIDE DEF L, Step
  <2>2. QED BY <1>3, <2>1
<1>5. \A p \in 0 .. n : L[p] = Step(L, p)
  BY <1>4
<1>6. L[0] = n
  BY <1>5
<1>7. \A p \in 1 .. n : L[p] = L[p - 1] - NbNotesInPage(L[p - 1], max)
  BY <1>5
<1>8. L \in [0 .. n -> Nat]
  <2> DEFINE T == {p \in Nat : p <= n => L[p] \in Nat}
  <2>1. 0 \in T
    BY <1>6
  <2>2. ASSUME NEW p \in Nat, p \in T PROVE p + 1 \in T
    <3>1. CASE p + 1 <= n
      <4>1. L[p] \in Nat /\ L[p + 1] = L[p] - NbNotesInPage(L[p], max)
        BY <3>1, <2>2, <1>7
      <4>2. NbNotesInPage(L[p], max) \in 0 .. L[p]
        BY <4>1, RoomForBars
      <4>3. QED BY <4>1, <4>2
    <3>2. QED BY <3>1
  <2>3. Nat \subseteq T
    <3> HIDE DEF T
    <3>1. QED BY <2>1, <2>2, SetInduction
  <2>4. \A p \in 0 .. n : L[p] \in Nat
    BY <2>3
  <2>5. QED BY <2>4, <1>4
<1>9. QED BY <1>6, <1>7, <1>8

\* Each page takes some of the bars left, and no more than there are.
LEMMA LeftDecreases ==
    ASSUME NEW n \in Nat, NEW max \in Nat, Bar < max, NEW p \in 1 .. n
    PROVE  LET L == Left(n, max)
               k == NbNotesInPage(L[p - 1], max)
           IN  /\ L[p - 1] \in Nat /\ k \in 0 .. L[p - 1]
               /\ L[p - 1] > 0 => k > 0
               /\ L[p] = L[p - 1] - k /\ L[p] \in Nat
<1>1. /\ Left(n, max)[p - 1] \in Nat
      /\ Left(n, max)[p] = Left(n, max)[p - 1] - NbNotesInPage(Left(n, max)[p - 1], max)
  BY LeftSteps
<1>2. QED BY <1>1, RoomForBars

\* Later pages have fewer left, and the last possible one none.
LEMMA LeftEnds ==
    ASSUME NEW n \in Nat, NEW max \in Nat, Bar < max
    PROVE  LET L == Left(n, max)
           IN  /\ \A p \in 0 .. n : L[p] <= n - p
               /\ \A q \in 0 .. n : \A p \in 0 .. q : L[q] <= L[p]
<1> DEFINE L == Left(n, max)
<1>1. \A p \in 0 .. n : L[p] \in Nat
  BY LeftSteps
<1>2. L[0] = n
  BY LeftSteps
<1>3. \A p \in 1 .. n : L[p] <= L[p - 1] /\ (L[p - 1] > 0 => L[p] < L[p - 1])
  BY LeftDecreases
<1> HIDE DEF L
<1>4. \A p \in 0 .. n : L[p] <= n - p
  <2> DEFINE T == {p \in Nat : p <= n => L[p] <= n - p}
  <2>1. 0 \in T
    BY <1>2
  <2>2. ASSUME NEW p \in Nat, p \in T PROVE p + 1 \in T
    <3>1. CASE p + 1 <= n
      <4>1. L[p] \in Nat /\ L[p + 1] \in Nat /\ L[p] <= n - p
        BY <3>1, <2>2, <1>1
      <4>2. p + 1 \in 1 .. n /\ (p + 1) - 1 = p
        BY <3>1
      <4>3. L[p + 1] <= L[p] /\ (L[p] > 0 => L[p + 1] < L[p])
        BY <4>2, <1>3
      <4>4. QED BY <3>1, <4>1, <4>3
    <3>2. QED BY <3>1
  <2>3. Nat \subseteq T
    <3> HIDE DEF T
    <3>1. QED BY <2>1, <2>2, SetInduction
  <2>4. QED BY <2>3
<1>5. \A q \in 0 .. n : \A p \in 0 .. q : L[q] <= L[p]
  <2> DEFINE T == {q \in Nat : q <= n => \A p \in 0 .. q : L[q] <= L[p]}
  <2>1. 0 \in T
    BY <1>1
  <2>2. ASSUME NEW q \in Nat, q \in T PROVE q + 1 \in T
    <3>1. ASSUME q + 1 <= n, NEW p \in 0 .. q + 1 PROVE L[q + 1] <= L[p]
      <4>1. CASE p = q + 1
        BY <4>1, <3>1, <1>1
      <4>2. CASE p <= q
        <5>1. L[q] \in Nat /\ L[q + 1] \in Nat /\ L[p] \in Nat /\ L[q] <= L[p]
          BY <3>1, <4>2, <2>2, <1>1
        <5>2. q + 1 \in 1 .. n /\ (q + 1) - 1 = q
          BY <3>1
        <5>3. L[q + 1] <= L[q]
          BY <5>2, <1>3
        <5>4. QED BY <5>1, <5>3
      <4>3. QED BY <4>1, <4>2
    <3>2. QED BY <3>1
  <2>3. Nat \subseteq T
    <3> HIDE DEF T
    <3>1. QED BY <2>1, <2>2, SetInduction
  <2>4. QED BY <2>3
<1>6. QED BY <1>4, <1>5 DEF L

\* The pages counted are those that have bars left.
LEMMA PagesCounted ==
    ASSUME NEW n \in Nat, NEW max \in Nat, Bar < max
    PROVE  /\ PagesOf(n, max) \in 0 .. n
           /\ \A p \in 0 .. n : p < PagesOf(n, max) <=> Left(n, max)[p] > 0
<1> DEFINE L == Left(n, max)
           S == {p \in 0 .. n : L[p] > 0}
           k == PagesOf(n, max)
<1>1. \A p \in 0 .. n : L[p] \in Nat
  BY LeftSteps
<1>2. \A p \in 0 .. n : L[p] <= n - p
  BY LeftEnds
<1>3. \A q \in 0 .. n : \A p \in 0 .. q : L[q] <= L[p]
  BY LeftEnds
<1>4. k = Cardinality(S)
  BY DEF PagesOf
<1> HIDE DEF L
<1>5. n \notin S
  BY <1>1, <1>2
<1>6. \A c \in S : \A b \in 0 .. c : b \in S
  <2>1. ASSUME NEW c \in S, NEW b \in 0 .. c PROVE b \in S
    <3>1. L[c] <= L[b] /\ L[c] \in Nat /\ L[b] \in Nat /\ L[c] > 0
      BY <1>1, <1>3
    <3>2. QED BY <3>1
  <2>2. QED BY <2>1
<1>7. k \in Nat /\ S = 0 .. k - 1
  <2>1. S \in SUBSET (0 .. n) /\ 0 \in Nat
    OBVIOUS
  <2> HIDE DEF S, k
  <2>2. k \in Nat /\ S = 0 .. 0 + k - 1
    BY <2>1, <1>4, <1>6, NoHole
  <2>3. QED BY <2>2
<1> HIDE DEF k
<1>8. k <= n
  BY <1>5, <1>7
<1>9. \A p \in 0 .. n : p < k <=> L[p] > 0
  BY <1>7
<1>10. QED BY <1>7, <1>8, <1>9 DEF k, L

\* The page found for an index is one that is counted: it ends at the index or
\* after, and the page before it does not.
LEMMA PageFound ==
    ASSUME NEW n \in Nat \ {0}, NEW max \in Nat, Bar < max, NEW k \in 0 .. n
    PROVE  LET p == PageForNoteIndex(n, k, max)
           IN  /\ p \in 0 .. n - 1 /\ p < PagesOf(n, max)
               /\ FirstInPage(n, p + 1, max) >= k
               /\ p = 0 \/ FirstInPage(n, p, max) < k
<1> DEFINE L == Left(n, max)
           reach == {p \in 0 .. n - 1 : FirstInPage(n, p + 1, max) >= k}
<1>1. \A p \in 0 .. n : L[p] \in Nat /\ L[p] <= n - p
  BY LeftSteps, LeftEnds
<1>2. L[0] = n
  BY LeftSteps
<1>3. \A p : FirstInPage(n, p, max) = n - L[p]
  BY DEF FirstInPage
<1>4. \A p \in 0 .. n : p < PagesOf(n, max) <=> L[p] > 0
  BY PagesCounted
<1> HIDE DEF L
<1>5. n - 1 \in reach
  BY <1>1, <1>3
<1>6. PICK p \in reach : \A q \in reach : p <= q
  <2>1. \A q \in reach : q \in 0 .. n - 1
    OBVIOUS
  <2> HIDE DEF reach
  <2>2. \A q \in reach : q \in Nat
    BY <2>1
  <2>3. reach # {}
    BY <1>5
  <2>4. QED BY <2>2, <2>3, LeastOf
<1>7. PageForNoteIndex(n, k, max) = p
  <2>1. PageForNoteIndex(n, k, max) = CHOOSE q \in reach : \A r \in reach : q <= r
    BY <1>5 DEF PageForNoteIndex
  <2>2. \A q \in reach : (\A r \in reach : q <= r) => q = p
    BY <1>6
  <2> HIDE DEF reach
  <2>3. QED BY <1>6, <2>1, <2>2
<1>8. p \in 0 .. n - 1 /\ FirstInPage(n, p + 1, max) >= k
  BY <1>6
<1>9. p = 0 \/ FirstInPage(n, p, max) < k
  <2>1. ASSUME p # 0 PROVE FirstInPage(n, p, max) < k
    <3>1. p - 1 \in 0 .. n - 1 /\ p - 1 \notin reach /\ (p - 1) + 1 = p
      BY <2>1, <1>6
    <3>2. ~ (FirstInPage(n, p, max) >= k)
      BY <3>1
    <3>3. QED BY <3>2, <1>1, <1>3, <1>8
  <2>2. QED BY <2>1
<1>10. L[p] > 0
  <2>1. CASE p = 0
    BY <2>1, <1>2
  <2>2. CASE p # 0
    BY <2>2, <1>1, <1>3, <1>8, <1>9
  <2>3. QED BY <2>1, <2>2
<1>11. p < PagesOf(n, max)
  BY <1>4, <1>8, <1>10
<1>12. QED BY <1>7, <1>8, <1>9, <1>11, Zenon

\* A page that is counted lists some of the bars: from its first one to the one
\* before the first of the next page.
LEMMA PageLists ==
    ASSUME NEW n \in Nat, NEW max \in Nat, Bar < max,
           NEW p \in 0 .. PagesOf(n, max) - 1
    PROVE  /\ p \in 0 .. n - 1
           /\ FirstInPage(n, p, max) \in 0 .. n - 1
           /\ FirstInPage(n, p + 1, max) \in 1 .. n
           /\ FirstInPage(n, p, max) < FirstInPage(n, p + 1, max)
           /\ NotesForPage(n, p, max) = FirstInPage(n, p, max) .. FirstInPage(n, p + 1, max) - 1
           /\ Cardinality(NotesForPage(n, p, max)) * Bar < max
<1> DEFINE L == Left(n, max)
           k == NbNotesInPage(L[p], max)
           F == FirstInPage(n, p, max)
           G == FirstInPage(n, p + 1, max)
<1>1. p \in 0 .. n - 1 /\ p + 1 \in 1 .. n /\ (p + 1) - 1 = p
  BY PagesCounted
<1>2. L[p] \in Nat /\ L[p] <= n - p /\ L[p] > 0
  <2>1. p \in 0 .. n /\ p < PagesOf(n, max)
    BY PagesCounted
  <2>2. \A q \in 0 .. n : L[q] \in Nat
    BY LeftSteps
  <2>3. \A q \in 0 .. n : L[q] <= n - q
    BY LeftEnds
  <2>4. L[p] > 0
    BY <2>1, PagesCounted
  <2> HIDE DEF L
  <2>5. QED BY <2>1, <2>2, <2>3, <2>4
<1>3. /\ k \in 0 .. L[p] /\ k > 0
      /\ L[p + 1] = L[p] - k
  <2>1. L[(p + 1) - 1] = L[p]
    BY <1>1
  <2>2. QED BY <1>1, <1>2, <2>1, LeftDecreases
<1>4. k * Bar < max
  BY <1>2, RoomForBars
<1>5. F = n - L[p] /\ G = n - L[p + 1]
  BY DEF FirstInPage
<1>6. NotesForPage(n, p, max) = F .. F + k - 1
  BY DEF NotesForPage
<1> HIDE DEF L, k, F, G
<1>7. F \in 0 .. n - 1 /\ G \in 1 .. n /\ F < G /\ G = F + k
  BY <1>1, <1>2, <1>3, <1>5
<1>8. Cardinality(NotesForPage(n, p, max)) = k
  <2>1. F \in Int /\ F + k - 1 \in Int
    BY <1>3, <1>7
  <2> DEFINE e == F + k - 1
  <2>2. Cardinality(F .. e) = IF F > e THEN 0 ELSE e - F + 1
    <3> HIDE DEF e
    <3>1. QED BY <2>1, FS_Interval DEF e
  <2>3. QED BY <1>3, <1>6, <1>7, <2>2
<1>9. NotesForPage(n, p, max) = F .. G - 1
  BY <1>3, <1>6, <1>7
<1>10. Cardinality(NotesForPage(n, p, max)) * Bar < max
  BY <1>4, <1>8
<1>11. QED BY <1>1, <1>7, <1>9, <1>10 DEF F, G

\* A bar that a page has is not on another one.
LEMMA PagesApart ==
    ASSUME NEW n \in Nat, NEW max \in Nat, Bar < max,
           NEW p \in 0 .. PagesOf(n, max) - 1, NEW q \in 0 .. PagesOf(n, max) - 1, p < q,
           NEW k \in NotesForPage(n, p, max)
    PROVE  k \notin NotesForPage(n, q, max)
<1> DEFINE L == Left(n, max)
<1>1. p + 1 \in 0 .. q /\ q \in 0 .. n /\ p + 1 \in 0 .. n
  BY PagesCounted
<1>2. L[q] <= L[p + 1] /\ L[q] \in Nat /\ L[p + 1] \in Nat
  <2>1. L[q] <= L[p + 1]
    BY <1>1, LeftEnds
  <2>2. \A r \in 0 .. n : L[r] \in Nat
    BY LeftSteps
  <2> HIDE DEF L
  <2>3. QED BY <1>1, <2>1, <2>2
<1>3. FirstInPage(n, q, max) = n - L[q] /\ FirstInPage(n, p + 1, max) = n - L[p + 1]
  BY DEF FirstInPage
<1>4. NotesForPage(n, p, max) = FirstInPage(n, p, max) .. FirstInPage(n, p + 1, max) - 1
  BY PageLists
<1>5. NotesForPage(n, q, max) = FirstInPage(n, q, max) .. FirstInPage(n, q + 1, max) - 1
  BY PageLists
<1>6. /\ FirstInPage(n, p, max) \in 0 .. n - 1 /\ FirstInPage(n, p + 1, max) \in 1 .. n
      /\ FirstInPage(n, q, max) \in 0 .. n - 1 /\ FirstInPage(n, q + 1, max) \in 1 .. n
  BY PageLists
<1> HIDE DEF L
<1>7. FirstInPage(n, p + 1, max) <= FirstInPage(n, q, max)
  BY <1>2, <1>3
<1>8. k \in Int /\ k < FirstInPage(n, p + 1, max)
  BY <1>4, <1>6
<1>9. QED BY <1>5, <1>6, <1>7, <1>8

\* The page found for an index has it, or the index is the next one.
LEMMA PageIsNear ==
    ASSUME NEW n \in Nat \ {0}, NEW max \in Nat, Bar < max, NEW k \in 0 .. n
    PROVE  LET p == PageForNoteIndex(n, k, max)
           IN  k \in NotesForPage(n, p, max) \/ k - 1 \in NotesForPage(n, p, max)
<1> DEFINE p == PageForNoteIndex(n, k, max)
           F == FirstInPage(n, p, max)
           G == FirstInPage(n, p + 1, max)
<1>1. p \in 0 .. PagesOf(n, max) - 1 /\ G >= k /\ (p = 0 \/ F < k)
  <2>1. PagesOf(n, max) \in Nat
    BY PagesCounted
  <2>2. p \in 0 .. n - 1 /\ p < PagesOf(n, max) /\ G >= k /\ (p = 0 \/ F < k)
    BY PageFound
  <2> HIDE DEF p, F, G
  <2>3. QED BY <2>1, <2>2
<1> HIDE DEF p
<1>2. F \in 0 .. n - 1 /\ G \in 1 .. n /\ F < G /\ NotesForPage(n, p, max) = F .. G - 1
  BY <1>1, PageLists
<1>3. p = 0 => F = 0
  <2>1. n \in Nat /\ Left(n, max)[0] = n
    BY LeftSteps
  <2>2. QED BY <2>1 DEF FirstInPage
<1> HIDE DEF F, G
<1>4. F <= k
  BY <1>1, <1>2, <1>3
<1>5. k < G => k \in F .. G - 1
  BY <1>2, <1>4
<1>6. k = G => k - 1 \in F .. G - 1
  BY <1>2
<1>7. k \in NotesForPage(n, p, max) \/ k - 1 \in NotesForPage(n, p, max)
  BY <1>1, <1>2, <1>5, <1>6
<1>8. QED BY <1>7 DEF p

\* Each bar is on one of the pages counted, and on one only.
LEMMA OnePageEach ==
    ASSUME NEW n \in Nat, NEW max \in Nat, Bar < max, NEW k \in 0 .. n - 1
    PROVE  Cardinality({p \in 0 .. PagesOf(n, max) - 1 : k \in NotesForPage(n, p, max)}) = 1
<1> DEFINE P == 0 .. PagesOf(n, max) - 1
           r == PageForNoteIndex(n, k + 1, max)
<1>1. PagesOf(n, max) \in Nat
  BY PagesCounted
<1>2. /\ r \in 0 .. n - 1 /\ r < PagesOf(n, max)
      /\ FirstInPage(n, r + 1, max) >= k + 1
      /\ r = 0 \/ FirstInPage(n, r, max) < k + 1
  <2>1. n \in Nat \ {0} /\ k + 1 \in 0 .. n
    OBVIOUS
  <2>2. QED BY <2>1, PageFound
<1> HIDE DEF r
<1>3. r \in P
  BY <1>1, <1>2
<1>4. k \in NotesForPage(n, r, max)
  <2>1. /\ NotesForPage(n, r, max) = FirstInPage(n, r, max) .. FirstInPage(n, r + 1, max) - 1
        /\ FirstInPage(n, r, max) \in Nat /\ FirstInPage(n, r + 1, max) \in Nat
    BY <1>3, PageLists
  <2>2. r = 0 => FirstInPage(n, r, max) = 0
    BY LeftSteps DEF FirstInPage
  <2>3. QED BY <1>2, <2>1, <2>2
<1>5. \A q \in P : k \in NotesForPage(n, q, max) => q = r
  <2>1. ASSUME NEW q \in P, k \in NotesForPage(n, q, max), q < r PROVE FALSE
    BY <1>3, <1>4, <2>1, PagesApart
  <2>2. ASSUME NEW q \in P, k \in NotesForPage(n, q, max), r < q PROVE FALSE
    BY <1>3, <1>4, <2>2, PagesApart
  <2>3. \A q \in P : q < r \/ r < q \/ q = r
    BY <1>3
  <2>4. QED BY <2>1, <2>2, <2>3
<1>6. {p \in P : k \in NotesForPage(n, p, max)} = {r}
  BY <1>3, <1>4, <1>5
<1>7. QED BY <1>6, FS_Singleton

\* getNbPagesTotal counts the pages of the height they are then given.
LEMMA PagesTotal ==
    ASSUME NEW n \in Nat
    PROVE  LET pages == NbPagesTotal(n)
               max == MaxHeight(pages)
           IN  /\ max \in Nat /\ Bar < max
               /\ n = 0 => pages = 1
               /\ n > 0 => pages = PagesOf(n, max) /\ pages \in 1 .. n
<1> DEFINE pages == NbPagesTotal(n)
           a == NbNotesInPage(n, Area)
           b == NbNotesInPage(n, Area - Footer)
<1>1. /\ Area \in Nat /\ Area - Footer \in Nat
      /\ Bar < Area /\ Bar < Area - Footer
  BY BarAssumption
<1>2. a \in 0 .. n /\ b \in 0 .. n /\ b <= a
  BY <1>1, RoomForBars, LessRoom
<1>3. /\ n <= a => pages = 1
      /\ n > a => pages = PagesOf(n, Area - Footer)
  <2>1. pages = IF n <= a THEN 1 ELSE PagesOf(n, Area - Footer)
    BY DEF NbPagesTotal
  <2> HIDE DEF pages, a
  <2>2. QED BY <1>2, <2>1
<1>4. ASSUME n > 0, n <= a PROVE PagesOf(n, Area) = 1
  <2> DEFINE L == Left(n, Area)
  <2>1. L[0] = n /\ L[1] = L[0] - NbNotesInPage(L[0], Area)
    <3>1. L[0] = n
      BY <1>1, LeftSteps
    <3>2. \A p \in 1 .. n : L[p] = L[p - 1] - NbNotesInPage(L[p - 1], Area)
      BY <1>1, LeftSteps
    <3>3. 1 \in 1 .. n /\ 1 - 1 = 0
      BY <1>4
    <3> HIDE DEF L
    <3>4. QED BY <3>1, <3>2, <3>3
  <2>2. L[0] = n /\ L[1] = 0
    <3> HIDE DEF L
    <3>1. L[1] = n - a
      BY <2>1
    <3> HIDE DEF a
    <3>2. QED BY <2>1, <3>1, <1>2, <1>4
  <2>3. PagesOf(n, Area) \in 0 .. n
    BY <1>1, PagesCounted
  <2>4. 0 < PagesOf(n, Area) <=> L[0] > 0
    BY <1>1, PagesCounted
  <2>5. 1 < PagesOf(n, Area) <=> L[1] > 0
    <3>1. 1 \in 0 .. n
      BY <1>4
    <3>2. QED BY <1>1, <3>1, PagesCounted
  <2> HIDE DEF L
  <2>6. QED BY <1>4, <2>2, <2>3, <2>4, <2>5
<1>5. ASSUME n > a PROVE PagesOf(n, Area - Footer) \in 2 .. n
  <2> DEFINE L == Left(n, Area - Footer)
  <2>1. n > 0
    BY <1>2, <1>5
  <2>2. L[0] = n /\ L[1] = L[0] - NbNotesInPage(L[0], Area - Footer)
    <3>1. L[0] = n
      BY <1>1, LeftSteps
    <3>2. \A p \in 1 .. n : L[p] = L[p - 1] - NbNotesInPage(L[p - 1], Area - Footer)
      BY <1>1, LeftSteps
    <3>3. 1 \in 1 .. n /\ 1 - 1 = 0
      BY <2>1
    <3> HIDE DEF L
    <3>4. QED BY <3>1, <3>2, <3>3
  <2>3. L[1] > 0
    <3> HIDE DEF L
    <3>1. L[1] = n - b
      BY <2>2
    <3> HIDE DEF a, b
    <3>2. QED BY <3>1, <1>2, <1>5
  <2>4. PagesOf(n, Area - Footer) \in 0 .. n
    BY <1>1, PagesCounted
  <2>5. 1 < PagesOf(n, Area - Footer) <=> L[1] > 0
    <3>1. 1 \in 0 .. n
      BY <2>1
    <3>2. QED BY <1>1, <3>1, PagesCounted
  <2> HIDE DEF L
  <2>6. QED BY <2>3, <2>4, <2>5
<1> HIDE DEF pages, a, b
<1>6. CASE n <= a
  <2>1. pages = 1 /\ MaxHeight(pages) = Area
    BY <1>3, <1>6 DEF MaxHeight
  <2>2. QED BY <1>1, <1>4, <1>6, <2>1 DEF pages
<1>7. CASE n > a
  <2>1. pages = PagesOf(n, Area - Footer) /\ pages \in 2 .. n
    BY <1>3, <1>5, <1>7
  <2>2. MaxHeight(pages) = Area - Footer
    BY <2>1 DEF MaxHeight
  <2>3. n > 0 /\ pages \in 1 .. n
    BY <2>1
  <2>4. QED BY <1>1, <2>1, <2>2, <2>3 DEF pages
<1>8. QED BY <1>2, <1>6, <1>7

-----------------------------------------------------------------------------
(* A list of n bars, cut for its pages.                                    *)

Height(n) == MaxHeight(NbPagesTotal(n))

\* Any page the navigation bar offers has some of the bars.
LEMMA PageOfList ==
    ASSUME NEW n \in Nat \ {0}, NEW p \in 0 .. NbPagesTotal(n) - 1
    PROVE  /\ NbPagesTotal(n) \in 1 .. n
           /\ p \in 0 .. n - 1
           /\ FirstInPage(n, p, Height(n)) \in 0 .. n - 1
           /\ FirstInPage(n, p, Height(n)) \in NotesForPage(n, p, Height(n))
           /\ NotesForPage(n, p, Height(n)) \subseteq 0 .. n - 1
           /\ Cardinality(NotesForPage(n, p, Height(n))) * Bar < Height(n)
<1> DEFINE max == Height(n)
<1>1. /\ max \in Nat /\ Bar < max
      /\ NbPagesTotal(n) = PagesOf(n, max) /\ NbPagesTotal(n) \in 1 .. n
  BY PagesTotal DEF Height
<1> HIDE DEF max
<1>2. /\ p \in 0 .. n - 1
      /\ FirstInPage(n, p, max) \in 0 .. n - 1
      /\ FirstInPage(n, p + 1, max) \in 1 .. n
      /\ FirstInPage(n, p, max) < FirstInPage(n, p + 1, max)
      /\ NotesForPage(n, p, max) = FirstInPage(n, p, max) .. FirstInPage(n, p + 1, max) - 1
      /\ Cardinality(NotesForPage(n, p, max)) * Bar < max
  BY <1>1, PageLists
<1>3. FirstInPage(n, p, max) \in NotesForPage(n, p, max)
  BY <1>2
<1>4. NotesForPage(n, p, max) \subseteq 0 .. n - 1
  BY <1>2
<1>5. QED BY <1>1, <1>2, <1>3, <1>4 DEF max

\* The one page of an empty list has no bar.
LEMMA EmptyPage == NotesForPage(0, 0, Height(0)) = {}
<1> DEFINE max == Height(0)
<1>1. 0 \in Nat /\ max \in Nat /\ Bar < max
  BY PagesTotal DEF Height
<1> HIDE DEF max
<1>2. Left(0, max)[0] = 0
  BY <1>1, LeftSteps
<1>3. NbNotesInPage(0, max) = 0
  <2>1. NbNotesInPage(0, max) \in 0 .. 0
    BY <1>1, RoomForBars
  <2>2. QED BY <2>1
<1>4. NotesForPage(0, 0, max) = {}
  BY <1>2, <1>3 DEF NotesForPage, FirstInPage
<1>5. QED BY <1>4 DEF max

\* The page of an index up to the next one is one of them.
LEMMA PageOfIndex ==
    ASSUME NEW n \in Nat \ {0}, NEW k \in 0 .. n
    PROVE  LET p == PageForNoteIndex(n, k, Height(n))
           IN  /\ p \in 0 .. NbPagesTotal(n) - 1
               /\ \/ k \in NotesForPage(n, p, Height(n))
                  \/ k - 1 \in NotesForPage(n, p, Height(n))
<1> DEFINE max == Height(n)
<1>1. /\ max \in Nat /\ Bar < max
      /\ NbPagesTotal(n) = PagesOf(n, max) /\ NbPagesTotal(n) \in 1 .. n
  BY PagesTotal DEF Height
<1> HIDE DEF max
<1> DEFINE p == PageForNoteIndex(n, k, max)
<1>2. p \in 0 .. n - 1 /\ p < PagesOf(n, max)
  BY <1>1, PageFound
<1>3. k \in NotesForPage(n, p, max) \/ k - 1 \in NotesForPage(n, p, max)
  BY <1>1, PageIsNear
<1> HIDE DEF p
<1>4. p \in 0 .. NbPagesTotal(n) - 1
  BY <1>1, <1>2
<1>5. QED BY <1>3, <1>4 DEF max, p

-----------------------------------------------------------------------------
(* The contacts.                                                           *)

\* The page on display is one of those of the contacts stored.
ShareIsCurrent ==
    screen = "share" =>
        /\ nbUsedContacts = Len(contacts)
        /\ nbPages = NbContactPages(nbUsedContacts)
        /\ nbUsedContacts > 0 =>
              /\ currentPage \in 0 .. nbPages - 1
              /\ firstContactIndexInPage
                    = FirstInPage(nbUsedContacts, currentPage, MaxHeight(nbPages))

ContactsInv ==
    /\ TypeOK
    /\ ShareIsCurrent
    /\ selectedContactIndex <= Len(contacts)
    /\ Len(contacts) = 0 => currentPage = 0
    /\ ReceiverIsListed

LEMMA Bounds ==
    /\ SearchBound \in Nat \ {0} /\ NbMaxContacts \in Nat \ {0}
    /\ SearchBound <= NbMaxContacts
    /\ NoName \notin Names
BY ReceiversAssumption

LEMMA ShareShows == ASSUME TypeOK, ShareIsCurrent PROVE ListIsStored /\ CurrentPageExists
<1>1. ListIsStored
  BY DEF ShareIsCurrent, ListIsStored
<1>2. ASSUME Listed PROVE /\ currentPage < nbPages
                          /\ firstContactIndexInPage \in Shown
                          /\ Shown \subseteq 0 .. nbUsedContacts - 1
  <2> DEFINE n == nbUsedContacts
  <2>1. /\ n \in Nat \ {0} /\ nbPages = NbPagesTotal(n)
        /\ currentPage \in 0 .. nbPages - 1
        /\ firstContactIndexInPage = FirstInPage(n, currentPage, MaxHeight(nbPages))
    BY <1>2, Bounds DEF TypeOK, ShareIsCurrent, Listed, NbContactPages
  <2>2. MaxHeight(nbPages) = Height(n)
    BY <2>1 DEF Height
  <2>3. Shown = NotesForPage(n, currentPage, Height(n))
    BY <2>2 DEF Shown, ContactsForPage
  <2> HIDE DEF n
  <2>4. /\ NbPagesTotal(n) \in 1 .. n
        /\ FirstInPage(n, currentPage, Height(n)) \in NotesForPage(n, currentPage, Height(n))
        /\ NotesForPage(n, currentPage, Height(n)) \subseteq 0 .. n - 1
    BY <2>1, PageOfList
  <2>5. currentPage < nbPages
    BY <2>1, <2>4
  <2>6. QED BY <2>1, <2>2, <2>3, <2>4, <2>5 DEF n
<1>3. QED BY <1>1, <1>2 DEF CurrentPageExists

\* A list built at one of its pages is current.
LEMMA BuildStep ==
    ASSUME NEW n \in 0 .. SearchBound, NEW pages, NEW p,
           pages = NbContactPages(n),
           n > 0 => p \in 0 .. pages - 1,
           p \in 0 .. NbMaxContacts - 1,
           firstContactIndexInPage \in 0 .. NbMaxContacts - 1,
           nbUsedContacts' = n, nbPages' = pages, BuildScreen(n, pages, p),
           n = Len(contacts')
    PROVE  /\ ShareIsCurrent'
           /\ screen' = "share"
           /\ nbUsedContacts' \in 0 .. NbMaxContacts
           /\ nbPages' \in 0 .. NbMaxContacts
           /\ currentPage' \in 0 .. NbMaxContacts - 1
           /\ firstContactIndexInPage' \in 0 .. NbMaxContacts - 1
<1>1. n \in Nat /\ n <= SearchBound /\ pages = NbPagesTotal(n)
  BY Bounds DEF NbContactPages
<1>2. /\ screen' = "share" /\ currentPage' = p
      /\ firstContactIndexInPage' =
            IF n = 0 THEN firstContactIndexInPage ELSE FirstInPage(n, p, MaxHeight(pages))
  BY DEF BuildScreen
<1>3. CASE n = 0
  <2>1. pages = 1
    BY <1>1, <1>3, PagesTotal
  <2>2. QED BY <1>2, <1>3, <2>1, Bounds DEF ShareIsCurrent
<1>4. CASE n > 0
  <2>1. n \in Nat \ {0} /\ p \in 0 .. NbPagesTotal(n) - 1 /\ MaxHeight(pages) = Height(n)
    BY <1>1, <1>4 DEF Height
  <2>2. NbPagesTotal(n) \in 1 .. n /\ FirstInPage(n, p, Height(n)) \in 0 .. n - 1
    BY <2>1, PageOfList
  <2>3. firstContactIndexInPage' = FirstInPage(n, p, MaxHeight(pages))
    BY <1>2, <1>4
  <2>4. ShareIsCurrent'
    BY <1>1, <1>2, <1>4, <2>3 DEF ShareIsCurrent
  <2>5. QED BY <1>1, <1>2, <2>1, <2>2, <2>3, <2>4, Bounds
<1>5. QED BY <1>1, <1>3, <1>4

\* app_notesShare shows the page of the contact selected, or of the one before.
LEMMA ShareStep ==
    ASSUME ContactsInv, NEW cs \in Seq(Names \cup {NoName}),
           Len(contacts) <= Len(cs), Len(cs) <= SearchBound,
           contacts' = cs, Share(cs),
           UNCHANGED <<selectedContactIndex, currentName, newContact>>
    PROVE  /\ ContactsInv'
           /\ selectedContactIndex < Len(cs) =>
                 selectedContactIndex \in Shown' \/ selectedContactIndex - 1 \in Shown'
<1> DEFINE n == Len(cs)
           pages == NbContactPages(n)
           p == PageOfSelected(n, pages)
           k == selectedContactIndex
<1>1. n \in 0 .. SearchBound /\ n \in Nat /\ k \in Nat /\ k <= n
  BY Bounds DEF ContactsInv, TypeOK
<1>2. nbUsedContacts' = n /\ nbPages' = pages /\ BuildScreen(n, pages, p) /\ note' = TRUE
  BY DEF Share
<1>3. p = IF n = 0 THEN currentPage ELSE PageForNoteIndex(n, k, MaxHeight(pages))
  BY DEF PageOfSelected, PageForContactIndex
<1>4. pages = NbPagesTotal(n) /\ MaxHeight(pages) = Height(n)
  BY DEF Height, NbContactPages
<1>5. currentPage \in 0 .. NbMaxContacts - 1 /\ firstContactIndexInPage \in 0 .. NbMaxContacts - 1
  BY DEF ContactsInv, TypeOK
<1>6. n = Len(contacts') /\ pages = NbContactPages(n)
  OBVIOUS
<1> HIDE DEF p, n, pages
<1>7. ASSUME n > 0
      PROVE  /\ p \in 0 .. pages - 1 /\ p \in 0 .. NbMaxContacts - 1
             /\ p = PageForNoteIndex(n, k, Height(n))
             /\ k \in NotesForPage(n, p, Height(n)) \/ k - 1 \in NotesForPage(n, p, Height(n))
  <2>1. n \in Nat \ {0} /\ k \in 0 .. n
    BY <1>1, <1>7
  <2>2. p = PageForNoteIndex(n, k, Height(n))
    BY <1>3, <1>4, <1>7
  <2>3. /\ p \in 0 .. NbPagesTotal(n) - 1
        /\ k \in NotesForPage(n, p, Height(n)) \/ k - 1 \in NotesForPage(n, p, Height(n))
    BY <2>1, <2>2, PageOfIndex
  <2>4. NbPagesTotal(n) \in 1 .. n
    BY <2>1, <2>3, PageOfList
  <2>5. p \in 0 .. NbMaxContacts - 1
    BY <1>1, <2>3, <2>4, Bounds
  <2>6. QED BY <1>4, <2>2, <2>3, <2>5
<1>8. p \in 0 .. NbMaxContacts - 1
  BY <1>1, <1>3, <1>5, <1>7
<1>9. /\ ShareIsCurrent'
      /\ screen' = "share"
      /\ nbUsedContacts' \in 0 .. NbMaxContacts
      /\ nbPages' \in 0 .. NbMaxContacts
      /\ currentPage' \in 0 .. NbMaxContacts - 1
      /\ firstContactIndexInPage' \in 0 .. NbMaxContacts - 1
  BY <1>1, <1>2, <1>5, <1>6, <1>7, <1>8, BuildStep
<1>10. TypeOK'
  BY <1>2, <1>9 DEF TypeOK, ContactsInv, Screens
<1>11. selectedContactIndex' <= Len(contacts')
  BY <1>1 DEF n
<1>12. ReceiverIsListed'
  BY <1>9 DEF ReceiverIsListed
<1>13. ContactsInv'
  <2>1. Len(contacts') = 0 => currentPage' = 0
    <3>1. SUFFICES ASSUME n = 0 PROVE currentPage' = 0
      BY <1>6
    <3>2. Len(contacts) = 0 /\ p = currentPage
      BY <1>3, <3>1 DEF ContactsInv, TypeOK, n
    <3>3. QED BY <1>2, <3>2 DEF BuildScreen, ContactsInv
  <2>2. QED BY <1>9, <1>10, <1>11, <1>12, <2>1 DEF ContactsInv
<1>14. ASSUME k < n PROVE k \in Shown' \/ k - 1 \in Shown'
  <2>1. n > 0
    BY <1>1, <1>14
  <2>2. Shown' = NotesForPage(n, p, Height(n))
    BY <1>2, <1>4 DEF Shown, ContactsForPage, BuildScreen
  <2>3. QED BY <1>7, <2>1, <2>2
<1>15. QED BY <1>13, <1>14 DEF n

LEMMA ContactsInit == Init => ContactsInv
<1> SUFFICES ASSUME Init PROVE ContactsInv
  OBVIOUS
<1>1. contacts \in Seq(Names \cup {NoName}) /\ Len(contacts) = 0
  <2>1. contacts = <<>>
    BY DEF Init
  <2>2. Len(<<>>) = 0 /\ <<>> \in Seq(Names \cup {NoName})
    OBVIOUS
  <2>3. QED BY <2>1, <2>2
<1>2. /\ 0 \in 0 .. NbMaxContacts /\ 0 \in 0 .. NbMaxContacts - 1 /\ 0 <= SearchBound
  BY Bounds
<1>3. TypeOK
  BY <1>1, <1>2 DEF Init, TypeOK, Screens
<1>4. QED BY <1>1, <1>3 DEF Init, ContactsInv, ShareIsCurrent, ReceiverIsListed

LEMMA AddedFits ==
    ASSUME TypeOK
    PROVE  /\ AddContact \in Seq(Names \cup {NoName})
           /\ Len(contacts) <= Len(AddContact) /\ Len(AddContact) <= SearchBound
<1>1. /\ contacts \in Seq(Names \cup {NoName}) /\ Len(contacts) \in Nat
      /\ Len(contacts) <= SearchBound /\ currentName \in Names \cup {NoName}
  BY DEF TypeOK
<1>2. CASE Len(contacts) < SearchBound
  <2>1. AddContact = Append(contacts, currentName)
    BY <1>2 DEF AddContact
  <2>2. /\ Append(contacts, currentName) \in Seq(Names \cup {NoName})
        /\ Len(Append(contacts, currentName)) = Len(contacts) + 1
    BY <1>1
  <2>3. QED BY <1>1, <1>2, <2>1, <2>2, Bounds
<1>3. CASE ~ (Len(contacts) < SearchBound)
  BY <1>1, <1>3 DEF AddContact
<1>4. QED BY <1>2, <1>3

\* The actions that show the list of the contacts again.
ShowsList == OpenShare \/ BackOnShare \/ AddAddress

LEMMA ShowsListStep ==
    ASSUME ContactsInv, ShowsList
    PROVE  /\ ContactsInv'
           /\ selectedContactIndex < Len(contacts') =>
                 selectedContactIndex \in Shown' \/ selectedContactIndex - 1 \in Shown'
<1>1. TypeOK /\ contacts \in Seq(Names \cup {NoName}) /\ Len(contacts) \in Nat
      /\ Len(contacts) <= SearchBound
  BY DEF ContactsInv, TypeOK
<1>2. CASE OpenShare \/ BackOnShare
  <2>1. /\ Share(contacts) /\ contacts' = contacts
        /\ UNCHANGED <<selectedContactIndex, currentName, newContact>>
    BY <1>2 DEF OpenShare, BackOnShare
  <2>2. QED BY <1>1, <2>1, ShareStep
<1>3. CASE AddAddress
  <2>1. /\ contacts' = AddContact /\ Share(AddContact)
        /\ UNCHANGED <<selectedContactIndex, currentName, newContact>>
    <3>1. contacts' = AddContact /\ Share(contacts')
      BY <1>3 DEF AddAddress
    <3>2. Share(AddContact)
      BY <3>1 DEF Share, BuildScreen
    <3>3. QED BY <1>3, <3>1, <3>2 DEF AddAddress
  <2>2. QED BY <1>1, <2>1, AddedFits, ShareStep
<1>4. QED BY <1>2, <1>3 DEF ShowsList

\* The bar touched is one of the contacts listed.
LEMMA TouchBarStep ==
    ASSUME ContactsInv, NEW b \in 0 .. NbMaxContacts - 1, TouchBar(b)
    PROVE  ContactsInv'
<1> DEFINE k == firstContactIndexInPage + b
<1>1. /\ nbUsedContacts = Len(contacts) /\ Len(contacts) \in Nat
      /\ Len(contacts) <= SearchBound /\ nbPages = NbContactPages(nbUsedContacts)
      /\ contacts \in Seq(Names \cup {NoName}) /\ k \in Nat
  BY DEF TouchBar, ContactsInv, ShareIsCurrent, TypeOK
<1>2. k \in ContactsForPage(nbUsedContacts, currentPage, MaxHeight(nbPages))
  BY DEF TouchBar
<1>3. nbUsedContacts > 0
  <2>1. SUFFICES ASSUME nbUsedContacts = 0 PROVE FALSE
    BY <1>1
  <2>2. currentPage = 0 /\ nbPages = NbPagesTotal(0)
    BY <1>1, <2>1 DEF ContactsInv, NbContactPages
  <2>3. NotesForPage(0, 0, MaxHeight(nbPages)) = {}
    BY <2>2, EmptyPage DEF Height
  <2>4. QED BY <1>2, <2>1, <2>2, <2>3 DEF ContactsForPage
<1>4. k \in 0 .. nbUsedContacts - 1
  BY <1>2, <1>3, ShareShows DEF CurrentPageExists, Listed, Shown, ContactsInv, TouchBar
<1>5. contacts[k + 1] \in Names \cup {NoName} /\ k \in 0 .. NbMaxContacts - 1
  BY <1>1, <1>4, Bounds
<1>6. /\ selectedContactIndex' = k /\ currentName' = contacts[k + 1]
      /\ screen' = "waitShare" /\ UNCHANGED <<contacts, listing, links>>
  BY DEF TouchBar
<1> HIDE DEF k
<1>7. TypeOK'
  BY <1>5, <1>6 DEF TypeOK, ContactsInv, listing, links, Screens
<1>8. QED BY <1>1, <1>4, <1>6, <1>7
          DEF ContactsInv, ShareIsCurrent, ReceiverIsListed, listing, links

LEMMA NavigateStep ==
    ASSUME ContactsInv, NEW p \in 0 .. NbMaxContacts - 1, Navigate(p)
    PROVE  ContactsInv'
<1> DEFINE n == Len(contacts)
<1>1. /\ nbUsedContacts = n /\ n \in 0 .. SearchBound /\ nbPages = NbContactPages(n)
      /\ nbPages > 1 /\ p \in 0 .. nbPages - 1
      /\ firstContactIndexInPage \in 0 .. NbMaxContacts - 1
  BY DEF Navigate, ContactsInv, ShareIsCurrent, TypeOK
<1>2. n > 0
  <2>1. NbContactPages(0) = 1
    BY PagesTotal DEF NbContactPages
  <2> HIDE DEF n
  <2>2. QED BY <1>1, <2>1, Bounds
<1>3. /\ BuildScreen(n, nbPages, p) /\ nbUsedContacts' = n /\ nbPages' = nbPages
      /\ UNCHANGED <<contacts, selectedContactIndex, currentName, links>>
  BY <1>1 DEF Navigate
<1>4. n = Len(contacts')
  BY <1>3
<1> HIDE DEF n
<1>5. /\ ShareIsCurrent'
      /\ screen' = "share"
      /\ nbUsedContacts' \in 0 .. NbMaxContacts
      /\ nbPages' \in 0 .. NbMaxContacts
      /\ currentPage' \in 0 .. NbMaxContacts - 1
      /\ firstContactIndexInPage' \in 0 .. NbMaxContacts - 1
  BY <1>1, <1>3, <1>4, BuildStep
<1>6. TypeOK'
  BY <1>3, <1>5 DEF TypeOK, ContactsInv, Screens, links
<1>7. selectedContactIndex' <= Len(contacts') /\ Len(contacts') # 0
  BY <1>2, <1>3, <1>4 DEF ContactsInv
<1>8. QED BY <1>5, <1>6, <1>7 DEF ContactsInv, ReceiverIsListed

\* The other actions leave the list, and keep the contacts and its page.
LEMMA ContactsStep == ASSUME ContactsInv, [Next]_vars PROVE ContactsInv'
<1> USE DEF listing, links
<1>0. TypeOK /\ Len(contacts) \in Nat
  BY DEF ContactsInv, TypeOK
<1>1. CASE ShowsList
  BY <1>1, ShowsListStep
<1>2. CASE \E p \in 0 .. NbMaxContacts - 1 : Navigate(p) \/ TouchBar(p)
  BY <1>2, NavigateStep, TouchBarStep
<1>3. CASE Back
  <2>1. TypeOK'
    BY <1>3, Bounds DEF Back, ContactsInv, TypeOK, Screens
  <2>2. QED BY <1>0, <1>3, <2>1 DEF Back, ContactsInv, ShareIsCurrent, ReceiverIsListed
<1>4. CASE TapPlus
  <2>1. selectedContactIndex' = Len(contacts) /\ selectedContactIndex' \in 0 .. NbMaxContacts - 1
    BY <1>4, Bounds DEF TapPlus, ContactsInv, ShareIsCurrent, TypeOK
  <2>2. TypeOK'
    BY <1>4, <2>1 DEF TapPlus, ContactsInv, TypeOK, Screens
  <2>3. QED BY <1>0, <1>4, <2>1, <2>2 DEF TapPlus, ContactsInv, ShareIsCurrent, ReceiverIsListed
<1>5. CASE ConfirmName \/ GetSharedNote \/ Leave
  <2>1. /\ UNCHANGED <<contacts, listing, selectedContactIndex, currentName, links>>
        /\ screen' \in {"waitAddress", "noteSent", "elsewhere"}
    BY <1>5 DEF ConfirmName, GetSharedNote, Leave
  <2>2. TypeOK'
    BY <2>1 DEF ContactsInv, TypeOK, Screens
  <2>3. QED BY <2>1, <2>2 DEF ContactsInv, ShareIsCurrent, ReceiverIsListed
<1>6. CASE \E n \in Names \cup {NoName} : TypeName(n)
  <2>1. PICK n \in Names \cup {NoName} : TypeName(n)
    BY <1>6
  <2>2. TypeOK'
    BY <2>1 DEF TypeName, ContactsInv, TypeOK, Screens
  <2>3. QED BY <2>1, <2>2 DEF TypeName, ContactsInv, ShareIsCurrent, ReceiverIsListed
<1>7. CASE Restart
  <2>1. 0 \in 0 .. NbMaxContacts /\ 0 \in 0 .. NbMaxContacts - 1
    BY Bounds
  <2>2. TypeOK'
    BY <1>7, <2>1 DEF Restart, ContactsInv, TypeOK, Screens
  <2>3. QED BY <1>0, <1>7, <2>2 DEF Restart, ContactsInv, ShareIsCurrent, ReceiverIsListed
<1>8. CASE UNCHANGED vars
  BY <1>8 DEF vars, ContactsInv, TypeOK, ShareIsCurrent, ReceiverIsListed
<1>9. QED
  BY <1>1, <1>2, <1>3, <1>4, <1>5, <1>6, <1>7, <1>8 DEF Next, ShowsList

-----------------------------------------------------------------------------
(* The notes.                                                              *)

\* The cardinality ListPages counts with is that of the finite sets.
LEMMA SameCardinality == \A S : Notes!Cardinality(S) = Cardinality(S)
BY DEF Notes!Cardinality, Cardinality

\* ListPages cuts its pages with the same functions.
LEMMA SameCut ==
    /\ \A n : Notes!NbPagesTotal(n) = NbPagesTotal(n)
    /\ \A k : Notes!MaxHeight(k) = MaxHeight(k)
    /\ \A n, p, max : Notes!FirstInPage(n, p, max) = FirstInPage(n, p, max)
    /\ \A n, p, max : Notes!NotesForPage(n, p, max) = NotesForPage(n, p, max)
    /\ \A n, k, max : Notes!PageForNoteIndex(n, k, max) = PageForNoteIndex(n, k, max)
<1>1. \A n, max : Notes!NbNotesInPage(n, max) = NbNotesInPage(n, max)
  BY SameCardinality DEF Notes!NbNotesInPage, NbNotesInPage
<1>2. \A n, max : Notes!Left(n, max) = Left(n, max)
  BY <1>1 DEF Notes!Left, Left
<1>3. \A n, max : Notes!PagesOf(n, max) = PagesOf(n, max)
  BY <1>2, SameCardinality DEF Notes!PagesOf, PagesOf
<1>4. \A n : Notes!NbPagesTotal(n) = NbPagesTotal(n)
  BY <1>1, <1>3 DEF Notes!NbPagesTotal, NbPagesTotal
<1>5. \A k : Notes!MaxHeight(k) = MaxHeight(k)
  BY DEF Notes!MaxHeight, MaxHeight
<1>6. \A n, p, max : Notes!FirstInPage(n, p, max) = FirstInPage(n, p, max)
  BY <1>2 DEF Notes!FirstInPage, FirstInPage
<1>7. \A n, p, max : Notes!NotesForPage(n, p, max) = NotesForPage(n, p, max)
  BY <1>1, <1>2, <1>6 DEF Notes!NotesForPage, NotesForPage
<1>8. ASSUME NEW n, NEW k, NEW max
      PROVE  Notes!PageForNoteIndex(n, k, max) = PageForNoteIndex(n, k, max)
  <2> DEFINE reach == {p \in 0 .. n - 1 : FirstInPage(n, p + 1, max) >= k}
             same == {p \in 0 .. n - 1 : Notes!FirstInPage(n, p + 1, max) >= k}
             Found(r, m) == IF r = {} THEN m ELSE CHOOSE p \in r : \A q \in r : p <= q
  <2>1. same = reach
    BY <1>6
  <2>2. PageForNoteIndex(n, k, max) = Found(reach, PagesOf(n, max))
    BY DEF PageForNoteIndex
  <2>3. Notes!PageForNoteIndex(n, k, max) = Found(same, Notes!PagesOf(n, max))
    BY DEF Notes!PageForNoteIndex
  <2> HIDE DEF reach, same, Found
  <2>4. QED BY <1>3, <2>1, <2>2, <2>3
<1>9. QED BY <1>4, <1>5, <1>6, <1>7, <1>8

\* The page on display is one of those of the notes stored.
NoteListIsCurrent ==
    page = "list" =>
        /\ nbUsedNotes = stored
        /\ nbNotePages = NbPagesTotal(stored)
        /\ stored > 0 =>
              /\ currentNotePage \in 0 .. nbNotePages - 1
              /\ firstNoteIndexInPage = FirstInPage(stored, currentNotePage, MaxHeight(nbNotePages))

\* An empty list is shown at its first page, though only the pages of a list that
\* is not empty are searched: the last note is deleted from there.
EmptyAtFirstPage ==
    /\ stored = 0 => currentNotePage = 0
    /\ page = "note" /\ stored = 1 => currentNotePage = 0

NotesInv ==
    /\ Notes!TypeOK
    /\ NoteListIsCurrent
    /\ Notes!SelectedIsStored
    /\ EmptyAtFirstPage

LEMMA NoteListShows ==
    ASSUME NotesInv
    PROVE  /\ Notes!CurrentPageExists /\ Notes!EveryNoteHasItsPage /\ Notes!PageFits
<1> SUFFICES ASSUME page = "list", nbUsedNotes > 0
             PROVE  /\ currentNotePage < nbNotePages
                    /\ firstNoteIndexInPage \in Notes!Shown
                    /\ Notes!Shown \subseteq 0 .. nbUsedNotes - 1
                    /\ \A k \in 0 .. nbUsedNotes - 1 :
                          Cardinality({p \in 0 .. nbNotePages - 1 :
                              k \in Notes!NotesForPage(nbUsedNotes, p, Notes!MaxHeight(nbNotePages))}) = 1
                    /\ Cardinality(Notes!Shown) * Bar
                            < Area - (IF nbNotePages > 1 THEN Footer ELSE 0)
  BY SameCardinality
     DEF Notes!CurrentPageExists, Notes!EveryNoteHasItsPage, Notes!PageFits, Notes!Listed
<1> DEFINE n == stored
           max == Height(n)
<1>1. /\ n \in Nat \ {0} /\ nbUsedNotes = n /\ nbNotePages = NbPagesTotal(n)
      /\ currentNotePage \in 0 .. nbNotePages - 1
      /\ firstNoteIndexInPage = FirstInPage(n, currentNotePage, MaxHeight(nbNotePages))
  BY Bounds DEF NotesInv, Notes!TypeOK, NoteListIsCurrent
<1>2. MaxHeight(nbNotePages) = max
  BY <1>1 DEF Height
<1>3. Notes!Shown = NotesForPage(n, currentNotePage, max)
  BY <1>1, <1>2, SameCut DEF Notes!Shown
<1>4. /\ max \in Nat /\ Bar < max /\ nbNotePages = PagesOf(n, max) /\ nbNotePages \in 1 .. n
  BY <1>1, PagesTotal DEF Height
<1>5. max = Area - (IF nbNotePages > 1 THEN Footer ELSE 0)
  BY <1>2, BarAssumption DEF MaxHeight
<1> HIDE DEF n, max
<1>6. /\ FirstInPage(n, currentNotePage, Height(n)) \in NotesForPage(n, currentNotePage, Height(n))
      /\ NotesForPage(n, currentNotePage, Height(n)) \subseteq 0 .. n - 1
      /\ Cardinality(NotesForPage(n, currentNotePage, Height(n))) * Bar < Height(n)
  BY <1>1, PageOfList
<1>7. \A k \in 0 .. n - 1 :
        Cardinality({p \in 0 .. nbNotePages - 1 : k \in NotesForPage(n, p, max)}) = 1
  BY <1>1, <1>4, OnePageEach
<1>8. \A p : Notes!NotesForPage(nbUsedNotes, p, Notes!MaxHeight(nbNotePages)) = NotesForPage(n, p, max)
  BY <1>1, <1>2, SameCut
<1>9. currentNotePage < nbNotePages
  BY <1>1, <1>4
<1>10. QED BY <1>1, <1>2, <1>3, <1>5, <1>6, <1>7, <1>8, <1>9 DEF max

\* displayNoteList at one of the pages of the notes stored.
LEMMA ShowStep ==
    ASSUME NEW n \in 0 .. SearchBound, NEW pages, NEW p,
           pages = NbPagesTotal(n),
           n > 0 => p \in 0 .. pages - 1,
           p \in 0 .. SearchBound - 1,
           firstNoteIndexInPage \in 0 .. SearchBound - 1,
           nbUsedNotes' = n, nbNotePages' = pages, Notes!Show(n, pages, p),
           stored' = n
    PROVE  /\ NoteListIsCurrent'
           /\ page' = "list"
           /\ nbUsedNotes' \in 0 .. SearchBound
           /\ nbNotePages' \in 0 .. SearchBound
           /\ currentNotePage' = p
           /\ firstNoteIndexInPage' \in 0 .. SearchBound - 1
<1>1. n \in Nat /\ n <= SearchBound
  BY Bounds
<1>2. /\ page' = "list" /\ currentNotePage' = p
      /\ firstNoteIndexInPage' =
            IF n = 0 THEN firstNoteIndexInPage ELSE FirstInPage(n, p, MaxHeight(pages))
  BY SameCut DEF Notes!Show
<1>3. CASE n = 0
  <2>1. pages = 1
    BY <1>1, <1>3, PagesTotal
  <2>2. QED BY <1>2, <1>3, <2>1, Bounds DEF NoteListIsCurrent
<1>4. CASE n > 0
  <2>1. n \in Nat \ {0} /\ p \in 0 .. NbPagesTotal(n) - 1 /\ MaxHeight(pages) = Height(n)
    BY <1>1, <1>4 DEF Height
  <2>2. NbPagesTotal(n) \in 1 .. n /\ FirstInPage(n, p, Height(n)) \in 0 .. n - 1
    BY <2>1, PageOfList
  <2>3. firstNoteIndexInPage' = FirstInPage(n, p, MaxHeight(pages))
    BY <1>2, <1>4
  <2>4. NoteListIsCurrent'
    BY <1>1, <1>2, <1>4, <2>3 DEF NoteListIsCurrent
  <2>5. QED BY <1>1, <1>2, <2>1, <2>2, <2>3, <2>4, Bounds
<1>5. QED BY <1>1, <1>3, <1>4

\* app_notesList shows the page of the note selected, or of the one before.
LEMMA ListStep ==
    ASSUME NotesInv, Notes!List
    PROVE  /\ NotesInv'
           /\ selectedNoteIndex < stored =>
                 selectedNoteIndex \in Notes!Shown' \/ selectedNoteIndex - 1 \in Notes!Shown'
<1> DEFINE n == stored
           pages == NbPagesTotal(n)
           p == Notes!PageOfSelected(n, pages)
           k == selectedNoteIndex
<1>1. n \in 0 .. SearchBound /\ n \in Nat /\ k \in 0 .. SearchBound - 1 /\ k <= n
  BY Bounds DEF NotesInv, Notes!TypeOK, Notes!Indices, Notes!SelectedIsStored
<1>2. /\ nbUsedNotes' = n /\ nbNotePages' = pages /\ Notes!Show(n, pages, p)
      /\ UNCHANGED <<stored, selectedNoteIndex>>
  BY SameCut DEF Notes!List
<1>3. p = IF n = 0 THEN currentNotePage ELSE PageForNoteIndex(n, k, MaxHeight(pages))
  BY SameCut DEF Notes!PageOfSelected
<1>4. MaxHeight(pages) = Height(n)
  BY DEF Height
<1>5. currentNotePage \in 0 .. SearchBound - 1 /\ firstNoteIndexInPage \in 0 .. SearchBound - 1
  BY DEF NotesInv, Notes!TypeOK, Notes!Indices
<1>6. n = stored' /\ pages = NbPagesTotal(n)
  BY <1>2
<1>7. n = 0 => currentNotePage = 0
  BY DEF NotesInv, EmptyAtFirstPage
<1> HIDE DEF p, n, pages
<1>8. ASSUME n > 0
      PROVE  /\ p \in 0 .. pages - 1 /\ p \in 0 .. SearchBound - 1
             /\ k \in NotesForPage(n, p, Height(n)) \/ k - 1 \in NotesForPage(n, p, Height(n))
  <2>1. n \in Nat \ {0} /\ k \in 0 .. n
    BY <1>1, <1>8
  <2>2. p = PageForNoteIndex(n, k, Height(n))
    BY <1>3, <1>4, <1>8
  <2>3. /\ p \in 0 .. NbPagesTotal(n) - 1
        /\ k \in NotesForPage(n, p, Height(n)) \/ k - 1 \in NotesForPage(n, p, Height(n))
    BY <2>1, <2>2, PageOfIndex
  <2>4. NbPagesTotal(n) \in 1 .. n
    BY <2>1, <2>3, PageOfList
  <2>5. p \in 0 .. SearchBound - 1
    BY <1>1, <2>3, <2>4, Bounds
  <2>6. QED BY <1>6, <2>3, <2>5
<1>9. p \in 0 .. SearchBound - 1
  BY <1>1, <1>3, <1>5, <1>8
<1>10. /\ NoteListIsCurrent'
       /\ page' = "list"
       /\ nbUsedNotes' \in 0 .. SearchBound
       /\ nbNotePages' \in 0 .. SearchBound
       /\ currentNotePage' = p
       /\ firstNoteIndexInPage' \in 0 .. SearchBound - 1
  BY <1>1, <1>2, <1>5, <1>6, <1>8, <1>9, ShowStep
<1>11. Notes!TypeOK'
  BY <1>1, <1>6, <1>2, <1>9, <1>10 DEF Notes!TypeOK, Notes!Indices
<1>12. Notes!SelectedIsStored' /\ EmptyAtFirstPage'
  BY <1>1, <1>2, <1>3, <1>6, <1>7, <1>10 DEF Notes!SelectedIsStored, EmptyAtFirstPage, n
<1>13. NotesInv'
  BY <1>10, <1>11, <1>12 DEF NotesInv
<1>14. ASSUME k < n PROVE k \in Notes!Shown' \/ k - 1 \in Notes!Shown'
  <2>1. n > 0
    BY <1>1, <1>14
  <2>2. Notes!Shown' = NotesForPage(n, p, Height(n))
    BY <1>2, <1>4, <1>10, SameCut DEF Notes!Shown
  <2>3. QED BY <1>8, <2>1, <2>2
<1>15. QED BY <1>13, <1>14 DEF n

LEMMA NotesInit == Notes!Init => NotesInv
<1>1. 0 \in 0 .. SearchBound /\ 0 \in 0 .. SearchBound - 1
  BY Bounds
<1>2. QED BY <1>1 DEF Notes!Init, NotesInv, Notes!TypeOK, Notes!Indices, NoteListIsCurrent,
                      Notes!SelectedIsStored, EmptyAtFirstPage

LEMMA NavigateNotesStep ==
    ASSUME NotesInv, NEW p \in 0 .. SearchBound - 1, Notes!Navigate(p)
    PROVE  NotesInv'
<1> DEFINE n == stored
<1>1. /\ nbUsedNotes = n /\ n \in 0 .. SearchBound /\ nbNotePages = NbPagesTotal(n)
      /\ nbNotePages > 1 /\ p \in 0 .. nbNotePages - 1
      /\ firstNoteIndexInPage \in 0 .. SearchBound - 1
  BY DEF Notes!Navigate, NotesInv, NoteListIsCurrent, Notes!TypeOK, Notes!Indices
<1>2. n > 0
  <2>1. NbPagesTotal(0) = 1
    BY PagesTotal
  <2> HIDE DEF n
  <2>2. QED BY <1>1, <2>1, Bounds
<1>3. /\ Notes!Show(n, nbNotePages, p) /\ nbUsedNotes' = n /\ nbNotePages' = nbNotePages
      /\ UNCHANGED <<stored, selectedNoteIndex>>
  BY <1>1 DEF Notes!Navigate
<1>4. n = stored'
  BY <1>3
<1> HIDE DEF n
<1>5. /\ NoteListIsCurrent'
      /\ page' = "list"
      /\ nbUsedNotes' \in 0 .. SearchBound
      /\ nbNotePages' \in 0 .. SearchBound
      /\ currentNotePage' = p
      /\ firstNoteIndexInPage' \in 0 .. SearchBound - 1
  BY <1>1, <1>3, <1>4, ShowStep
<1>6. Notes!TypeOK'
  BY <1>1, <1>3, <1>4, <1>5 DEF Notes!TypeOK, NotesInv, Notes!Indices
<1>7. Notes!SelectedIsStored' /\ EmptyAtFirstPage'
  BY <1>2, <1>3, <1>4, <1>5 DEF NotesInv, Notes!SelectedIsStored, EmptyAtFirstPage
<1>8. QED BY <1>5, <1>6, <1>7 DEF NotesInv

\* The bar touched is one of the notes listed; when there is one note only, it is
\* that of the first page.
LEMMA TouchNoteStep ==
    ASSUME NotesInv, NEW b \in 0 .. SearchBound - 1, Notes!TouchBar(b)
    PROVE  NotesInv'
<1> DEFINE k == firstNoteIndexInPage + b
<1>1. /\ nbUsedNotes = stored /\ stored \in 0 .. SearchBound /\ stored \in Nat
      /\ nbNotePages = NbPagesTotal(stored) /\ k \in Nat
      /\ stored > 0 => currentNotePage \in 0 .. nbNotePages - 1
  BY Bounds DEF Notes!TouchBar, NotesInv, NoteListIsCurrent, Notes!TypeOK, Notes!Indices
<1>2. k \in NotesForPage(nbUsedNotes, currentNotePage, MaxHeight(nbNotePages))
  BY SameCut DEF Notes!TouchBar
<1>3. stored > 0
  <2>1. SUFFICES ASSUME stored = 0 PROVE FALSE
    BY <1>1
  <2>2. currentNotePage = 0
    BY <2>1 DEF NotesInv, EmptyAtFirstPage
  <2>3. QED BY <1>1, <1>2, <2>1, <2>2, EmptyPage DEF Height
<1>4. k \in 0 .. stored - 1
  <2>1. Notes!Shown = NotesForPage(nbUsedNotes, currentNotePage, MaxHeight(nbNotePages))
    BY SameCut DEF Notes!Shown
  <2>2. Notes!Shown \subseteq 0 .. nbUsedNotes - 1
    BY <1>1, <1>3, NoteListShows DEF Notes!CurrentPageExists, Notes!Listed, Notes!TouchBar
  <2>3. QED BY <1>1, <1>2, <2>1, <2>2
<1>5. stored = 1 => currentNotePage = 0
  <2>1. SUFFICES ASSUME stored = 1 PROVE currentNotePage = 0
    OBVIOUS
  <2>2. NbPagesTotal(1) \in 1 .. 1
    BY PagesTotal
  <2>3. QED BY <1>1, <2>1, <2>2
<1>6. /\ selectedNoteIndex' = k /\ page' = "note"
      /\ UNCHANGED <<stored, nbUsedNotes, nbNotePages, currentNotePage, firstNoteIndexInPage>>
  BY DEF Notes!TouchBar, Notes!listing
<1> HIDE DEF k
<1>7. Notes!TypeOK'
  <2>1. k \in 0 .. SearchBound - 1
    BY <1>1, <1>4, Bounds
  <2>2. QED BY <1>6, <2>1 DEF Notes!TypeOK, NotesInv, Notes!Indices
<1>8. QED BY <1>1, <1>3, <1>4, <1>5, <1>6, <1>7
          DEF NotesInv, NoteListIsCurrent, Notes!SelectedIsStored, EmptyAtFirstPage

\* The other actions leave the list; the last note is deleted from its first page.
LEMMA NotesStep == ASSUME NotesInv, [Notes!Next]_(Notes!vars) PROVE NotesInv'
<1> USE DEF Notes!listing
<1>0. /\ stored \in 0 .. SearchBound /\ selectedNoteIndex \in 0 .. SearchBound - 1
      /\ selectedNoteIndex <= stored /\ (page = "note" => selectedNoteIndex < stored)
      /\ Notes!TypeOK
  BY DEF NotesInv, Notes!TypeOK, Notes!Indices, Notes!SelectedIsStored
<1> USE DEF NotesInv, NoteListIsCurrent, Notes!SelectedIsStored, EmptyAtFirstPage
<1>1. CASE Notes!List
  BY <1>1, ListStep
<1>2. CASE \E p \in Notes!Indices : Notes!Navigate(p) \/ Notes!TouchBar(p)
  BY <1>2, NavigateNotesStep, TouchNoteStep DEF Notes!Indices
<1>3. CASE Notes!Back
  <2>1. Notes!TypeOK'
    BY <1>0, <1>3, Bounds DEF Notes!Back, Notes!TypeOK, Notes!Indices
  <2>2. QED BY <1>0, <1>3, Bounds, <2>1 DEF Notes!Back
<1>4. CASE Notes!TapPlus
  <2>1. selectedNoteIndex' = stored /\ stored < SearchBound
    BY <1>4 DEF Notes!TapPlus
  <2>2. Notes!TypeOK'
    BY <1>0, <1>4, Bounds, <2>1 DEF Notes!TapPlus, Notes!TypeOK, Notes!Indices
  <2>3. QED BY <1>0, <1>4, <2>1, <2>2 DEF Notes!TapPlus
<1>5. CASE Notes!Leave \/ Notes!FirstNote
  <2>1. Notes!TypeOK'
    BY <1>0, <1>5, Bounds DEF Notes!Leave, Notes!FirstNote, Notes!TypeOK, Notes!Indices
  <2>2. QED BY <1>0, <1>5, Bounds, <2>1 DEF Notes!Leave, Notes!FirstNote
<1>6. CASE Notes!ConfirmTitle
  <2>1. Notes!TypeOK'
    BY <1>0, <1>6, Bounds DEF Notes!ConfirmTitle, Notes!TypeOK, Notes!Indices
  <2>2. QED BY <1>0, <1>6, Bounds, <2>1 DEF Notes!ConfirmTitle
<1>7. CASE Notes!Delete
  <2>1. Notes!TypeOK'
    BY <1>0, <1>7, Bounds DEF Notes!Delete, Notes!TypeOK, Notes!Indices
  <2>2. QED BY <1>0, <1>7, Bounds, <2>1 DEF Notes!Delete
<1>8. CASE Notes!Receive
  <2>1. Notes!TypeOK'
    BY <1>0, <1>8, Bounds DEF Notes!Receive, Notes!TypeOK, Notes!Indices
  <2>2. QED BY <1>0, <1>8, Bounds, <2>1 DEF Notes!Receive
<1>9. CASE Notes!Restart
  <2>1. Notes!TypeOK'
    BY <1>0, <1>9, Bounds DEF Notes!Restart, Notes!TypeOK, Notes!Indices
  <2>2. QED BY <1>0, <1>9, Bounds, <2>1 DEF Notes!Restart
<1>10. CASE UNCHANGED Notes!vars
  BY <1>10 DEF Notes!vars, Notes!TypeOK
<1>11. QED
  BY <1>1, <1>2, <1>3, <1>4, <1>5, <1>6, <1>7, <1>8, <1>9, <1>10 DEF Notes!Next

-----------------------------------------------------------------------------
(* The two lists together: each step of Lists is one of the notes', of the *)
(* contacts', or of both.                                                  *)

LEMMA StepOfEach ==
    ASSUME [ListsNext]_listsVars
    PROVE  [Next]_vars /\ [Notes!Next]_(Notes!vars)
<1>1. noteVars' = noteVars => UNCHANGED Notes!vars
  BY DEF noteVars, Notes!vars, Notes!listing
<1>2. SearchBound - 1 \in Nat /\ Notes!Indices = 0 .. SearchBound - 1
  BY Bounds DEF Notes!Indices
<1>3. CASE NoteTouch
  BY <1>3 DEF NoteTouch, Notes!Next
<1>4. LeaveNotes => [Notes!Next]_(Notes!vars)
  BY <1>1 DEF LeaveNotes, Notes!Next
<1>5. LeaveContacts => [Next]_vars
  BY DEF LeaveContacts, Next
<1>6. CASE ShareNote \/ SendNote \/ AddSentAddress
  BY <1>4, <1>6 DEF ShareNote, SendNote, AddSentAddress, Next
<1>7. CASE ContactTouch
  BY <1>1, <1>7 DEF ContactTouch, Next
<1>8. CASE NoteSent
  BY <1>8 DEF NoteSent, Next, Notes!Next
<1>9. CASE OtherPage \/ ReceiveNote
  BY <1>4, <1>5, <1>9 DEF OtherPage, ReceiveNote, Notes!Next
<1>10. CASE RestartApp
  BY <1>10 DEF RestartApp, Next, Notes!Next
<1>11. CASE UNCHANGED listsVars
  BY <1>1, <1>11 DEF listsVars
<1>12. QED
  BY <1>3, <1>6, <1>7, <1>8, <1>9, <1>10, <1>11 DEF ListsNext

ListsInv == ContactsInv /\ NotesInv

LEMMA ListsInvariant == ListsSpec => []ListsInv
<1>1. ListsInit => ListsInv
  BY ContactsInit, NotesInit DEF ListsInit, ListsInv
<1>2. ListsInv /\ [ListsNext]_listsVars => ListsInv'
  BY StepOfEach, ContactsStep, NotesStep DEF ListsInv
<1>3. QED BY <1>1, <1>2, PTL DEF ListsSpec

\* The indices and pages the two lists keep stay in their bounds, whatever the
\* bounds and the heights: ListsTypeOK of Lists.
THEOREM ListsTypeCorrect == ListsSpec => []ListsTypeOK
<1>1. ListsInv => ListsTypeOK
  BY DEF ListsInv, ContactsInv, NotesInv, ListsTypeOK
<1>2. QED BY <1>1, ListsInvariant, PTL

\* The contact that is named while a note waits to be sent is the one touched, and
\* the list on display is that of the contacts stored: ContactsAreListed of
\* Receivers.
THEOREM ContactsCorrect == ListsSpec => []ContactsAreListed
<1>1. ListsInv => ContactsAreListed
  BY ShareShows DEF ListsInv, ContactsInv, ContactsAreListed
<1>2. QED BY <1>1, ListsInvariant, PTL

\* Each list is shown at one of its pages, with some of its bars, however many were
\* added or deleted since it was left: PagesExist of Lists.
THEOREM PagesCorrect == ListsSpec => []PagesExist
<1>1. ListsInv => PagesExist
  BY ShareShows, NoteListShows DEF ListsInv, ContactsInv, NotesInv, PagesExist
<1>2. QED BY <1>1, ListsInvariant, PTL

\* The pages the navigation bar offers list every note once, and fit on the screen:
\* EveryNoteHasItsPage of Lists.
THEOREM NotesHaveTheirPage == ListsSpec => []EveryNoteHasItsPage
<1>1. ListsInv => EveryNoteHasItsPage
  BY NoteListShows DEF ListsInv, EveryNoteHasItsPage
<1>2. QED BY <1>1, ListsInvariant, PTL

\* A list shown again has the bar selected before, or the one just before it:
\* SelectedAreNear of Lists.
THEOREM SelectedShown == ListsSpec => SelectedAreNear
<1>1. ASSUME ListsInv, [ListsNext]_listsVars
      PROVE  /\ [screen # "share" /\ screen' = "share" /\ selectedContactIndex < Len(contacts')
                  => selectedContactIndex \in Shown' \/ selectedContactIndex - 1 \in Shown']_vars
             /\ [Notes!List /\ selectedNoteIndex < stored
                  => selectedNoteIndex \in Notes!Shown'
                        \/ selectedNoteIndex - 1 \in Notes!Shown']_(Notes!vars)
  <2>1. [Next]_vars
    BY <1>1, StepOfEach
  <2>2. screen # "share" /\ screen' = "share" => ShowsList
    BY <2>1 DEF Next, ShowsList, Back, TapPlus, ConfirmName, Navigate, TouchBar, TypeName,
                GetSharedNote, Leave, Restart, vars
  <2>3. ShowsList /\ selectedContactIndex < Len(contacts')
          => selectedContactIndex \in Shown' \/ selectedContactIndex - 1 \in Shown'
    BY <1>1, ShowsListStep DEF ListsInv
  <2>4. Notes!List /\ selectedNoteIndex < stored
          => selectedNoteIndex \in Notes!Shown' \/ selectedNoteIndex - 1 \in Notes!Shown'
    BY <1>1, ListStep DEF ListsInv
  <2>5. QED BY <2>2, <2>3, <2>4
<1>2. QED
  BY <1>1, ListsInvariant, PTL DEF ListsSpec, SelectedAreNear, SelectedIsNear, Notes!SelectedIsNear

=============================================================================
