-------------------------- MODULE NotePages_proofs --------------------------
(* Theorems about NotePages: the pages of a note, for any paragraphs and any *)
(* heights, and the loops that count them.                                   *)
EXTENDS NotePages, FiniteSetTheorems, TLAPS

-----------------------------------------------------------------------------
(* Induction, on sets of natural numbers.                                  *)

LEMMA LeastOf ==
    ASSUME NEW S \in SUBSET Nat, S # {}
    PROVE  \E m \in S : \A k \in S : m <= k
<1> DEFINE R == OpToRel(<, Nat)
<1>1. \A x, y \in Nat : x < y => <<x, y>> \in R
  BY DEF OpToRel
<1>2. IsWellFoundedOn(R, Nat)
  BY NatLessThanWellFounded
<1> HIDE DEF R
<1>3. PICK m \in S : \A k \in S : ~ (<<k, m>> \in R)
  BY <1>2, WFMin
<1>4. \A k \in S : ~ (k < m)
  BY <1>1, <1>3
<1>5. QED BY <1>4

LEMMA SetInduction ==
    ASSUME NEW T, 0 \in T, \A n \in Nat : n \in T => n + 1 \in T
    PROVE  Nat \subseteq T
<1> DEFINE S == Nat \ T
<1>1. SUFFICES ASSUME S # {} PROVE FALSE
  OBVIOUS
<1>2. PICK m \in S : \A k \in S : m <= k
  BY <1>1, LeastOf
<1>3. m # 0 /\ m - 1 \in Nat /\ m - 1 \notin S
  BY <1>2
<1>4. m \in T
  BY <1>3
<1>5. QED BY <1>4

\* A set of numbers from a on with no hole is an interval.
LEMMA NoHole ==
    ASSUME NEW a \in Nat, NEW n \in Nat, NEW S \in SUBSET (a .. n),
           \A c \in S : \A b \in a .. c : b \in S
    PROVE  /\ Cardinality(S) \in Nat
           /\ S = a .. a + Cardinality(S) - 1
           /\ a + Cardinality(S) <= n + 1 \/ S = {}
<1> DEFINE Out == {m \in Nat : m >= a /\ m \notin S}
<1>1. n + a + 1 \in Out
  OBVIOUS
<1>2. PICK m \in Out : \A k \in Out : m <= k
  BY <1>1, LeastOf
<1>3. S = a .. m - 1
  <2>1. ASSUME NEW c \in S PROVE c \in a .. m - 1
    BY <1>2
  <2>2. ASSUME NEW c \in a .. m - 1 PROVE c \in S
    BY <1>2
  <2>3. QED BY <2>1, <2>2
<1>4. Cardinality(S) = m - a
  <2>1. a \in Int /\ m - 1 \in Int /\ m >= a
    BY <1>2
  <2> DEFINE e == m - 1
  <2>2. Cardinality(a .. e) = IF a > e THEN 0 ELSE e - a + 1
    <3>1. a \in Int /\ e \in Int
      BY <2>1
    <3> HIDE DEF e
    <3>2. QED BY <3>1, FS_Interval
  <2>3. QED BY <1>3, <2>1, <2>2
<1>5. QED BY <1>2, <1>3, <1>4

\* A function on 0 .. n given by its first value and the steps h[1], h[2] ...
Stepping(f, a, h, n) == f[0] = a /\ \A p \in 1 .. n : f[p] = h[p][f[p - 1]]

LEMMA StepsFunction ==
    ASSUME NEW n \in Nat, NEW a \in Nat, NEW h \in [Nat -> [Nat -> Nat]]
    PROVE  \E f \in [0 .. n -> Nat] : Stepping(f, a, h, n)
<1> DEFINE T == {m \in Nat : \E f \in [0 .. m -> Nat] : Stepping(f, a, h, m)}
<1>1. 0 \in T
  <2> DEFINE f == [p \in 0 .. 0 |-> a]
  <2>1. f \in [0 .. 0 -> Nat]
    OBVIOUS
  <2>2. f[0] = a /\ 1 .. 0 = {}
    OBVIOUS
  <2>3. Stepping(f, a, h, 0)
    BY <2>2 DEF Stepping
  <2> HIDE DEF f
  <2>4. QED BY <2>1, <2>3
<1>2. ASSUME NEW m \in Nat, m \in T PROVE m + 1 \in T
  <2>1. PICK f \in [0 .. m -> Nat] : Stepping(f, a, h, m)
    BY <1>2
  <2> DEFINE g == [p \in 0 .. m + 1 |-> IF p = m + 1 THEN h[m + 1][f[m]] ELSE f[p]]
  <2>2. g \in [0 .. m + 1 -> Nat]
    <3>1. m \in 0 .. m /\ m + 1 \in Nat
      OBVIOUS
    <3>2. f[m] \in Nat /\ h[m + 1] \in [Nat -> Nat]
      BY <3>1
    <3>3. h[m + 1][f[m]] \in Nat
      BY <3>2
    <3>4. \A p \in 0 .. m + 1 : p # m + 1 => p \in 0 .. m
      OBVIOUS
    <3>5. \A p \in 0 .. m + 1 : (IF p = m + 1 THEN h[m + 1][f[m]] ELSE f[p]) \in Nat
      BY <3>3, <3>4
    <3>6. QED BY <3>5
  <2>3. Stepping(g, a, h, m + 1)
    <3>1. g[0] = a
      <4>1. 0 \in 0 .. m + 1 /\ 0 # m + 1
        OBVIOUS
      <4>2. QED BY <2>1, <4>1 DEF Stepping
    <3>2. ASSUME NEW p \in 1 .. m + 1 PROVE g[p] = h[p][g[p - 1]]
      <4>1. CASE p = m + 1
        BY <4>1
      <4>2. CASE p \in 1 .. m
        <5>1. p # m + 1 /\ p - 1 # m + 1 /\ p \in 0 .. m + 1 /\ p - 1 \in 0 .. m + 1
          BY <4>2
        <5>2. g[p] = f[p] /\ g[p - 1] = f[p - 1]
          BY <5>1
        <5>3. f[p] = h[p][f[p - 1]]
          BY <4>2, <2>1 DEF Stepping
        <5> HIDE DEF g
        <5>4. QED BY <5>2, <5>3
      <4>3. p = m + 1 \/ p \in 1 .. m
        OBVIOUS
      <4> HIDE DEF g
      <4>4. QED BY <4>1, <4>2, <4>3
    <3> HIDE DEF g
    <3>3. QED BY <3>1, <3>2 DEF Stepping
  <2> HIDE DEF g
  <2>4. \E e \in [0 .. m + 1 -> Nat] : Stepping(e, a, h, m + 1)
    BY <2>2, <2>3
  <2>5. m + 1 \in Nat
    OBVIOUS
  <2>6. QED BY <2>4, <2>5
<1>3. n \in T
  BY <1>1, <1>2, SetInduction
<1>4. QED BY <1>3

\* Two such functions agree as far as both go.
LEMMA StepsAgree ==
    ASSUME NEW m \in Nat, NEW n \in Nat, m <= n, NEW a, NEW f, NEW g, NEW h,
           Stepping(f, a, h, m), Stepping(g, a, h, n)
    PROVE  \A p \in 0 .. m : f[p] = g[p]
<1> DEFINE T == {p \in Nat : p <= m => f[p] = g[p]}
<1>1. 0 \in T
  BY DEF Stepping
<1>2. ASSUME NEW p \in Nat, p \in T PROVE p + 1 \in T
  <2>1. CASE p + 1 <= m
    <3>1. p + 1 \in 1 .. m /\ p + 1 \in 1 .. n /\ (p + 1) - 1 = p /\ f[p] = g[p]
      BY <1>2, <2>1
    <3>2. f[p + 1] = h[p + 1][f[(p + 1) - 1]] /\ g[p + 1] = h[p + 1][g[(p + 1) - 1]]
      BY <3>1 DEF Stepping
    <3>3. f[p + 1] = g[p + 1]
      BY <3>1, <3>2
    <3>4. QED BY <3>3
  <2>2. QED BY <2>1
<1>3. Nat \subseteq T
  <2> HIDE DEF T
  <2>1. QED BY <1>1, <1>2, SetInduction
<1>4. QED BY <1>3

\* A function whose steps are those of h, as long as its values are numbers.
Following(f, a, h, n) ==
    f[0] = a /\ \A p \in 1 .. n : f[p - 1] \in Nat => f[p] = h[p][f[p - 1]]

LEMMA StepsFollowed ==
    ASSUME NEW n \in Nat, NEW a \in Nat, NEW h \in [Nat -> [Nat -> Nat]], NEW f,
           Following(f, a, h, n)
    PROVE  Stepping(f, a, h, n) /\ \A p \in 0 .. n : f[p] \in Nat
<1> DEFINE T == {p \in Nat : p <= n => f[p] \in Nat}
<1>1. 0 \in T
  BY DEF Following
<1>2. ASSUME NEW p \in Nat, p \in T PROVE p + 1 \in T
  <2>1. CASE p + 1 <= n
    <3>1. p + 1 \in 1 .. n /\ p + 1 \in Nat /\ (p + 1) - 1 = p /\ f[p] \in Nat
      BY <1>2, <2>1
    <3>2. f[(p + 1) - 1] \in Nat => f[p + 1] = h[p + 1][f[(p + 1) - 1]]
      BY <3>1 DEF Following
    <3>3. h[p + 1] \in [Nat -> Nat]
      BY <3>1
    <3>4. h[p + 1][f[p]] \in Nat
      BY <3>1, <3>3
    <3>5. f[p + 1] \in Nat
      BY <3>1, <3>2, <3>4
    <3>6. QED BY <3>5
  <2>2. QED BY <2>1
<1>3. Nat \subseteq T
  <2> HIDE DEF T
  <2>1. QED BY <1>1, <1>2, SetInduction
<1>4. \A p \in 0 .. n : f[p] \in Nat
  BY <1>3
<1>5. \A p \in 1 .. n : p - 1 \in 0 .. n
  OBVIOUS
<1>6. QED BY <1>4, <1>5 DEF Stepping, Following

-----------------------------------------------------------------------------
(* The heights.                                                            *)

\* A note of paragraphs.
Notes == Seq(Paragraphs)

LEMMA Heights ==
    /\ Margin \in Nat /\ Gap \in Nat /\ Area \in Nat
    /\ Bar \in Nat \ {0} /\ Bar <= Area /\ Area - Bar \in Nat
    /\ \A p \in Paragraphs, font \in BOOLEAN : TextHeight(p, font) \in Nat
<1>1. /\ Margin \in Nat /\ Gap \in Nat /\ Area \in Nat
      /\ Bar \in Nat \ {0} /\ Bar <= Area /\ Area - Bar \in Nat
  BY PagesAssumption
<1>2. \A p \in Paragraphs : p.large \in Nat /\ p.small \in Nat
  BY PagesAssumption
<1>3. QED BY <1>1, <1>2 DEF TextHeight

\* The height of a page grows with each paragraph, as the loop on them adds it.
LEMMA HeightSteps ==
    ASSUME NEW s \in Notes, NEW font \in BOOLEAN, NEW j \in 0 .. Len(s),
           NEW c \in 0 .. Len(s) - j
    PROVE  /\ HeightOf(s, font, j, c) \in Nat
           /\ HeightOf(s, font, j, 0) = Margin
           /\ c > 0 => HeightOf(s, font, j, c) =
                          HeightOf(s, font, j, c - 1) + (IF c > 1 THEN Gap ELSE 0)
                              + TextHeight(s[j + c], font)
<1> DEFINE Text(k) == IF k \in 1 .. Len(s) - j THEN TextHeight(s[j + k], font) ELSE 0
           Added(k, v) == v + (IF k > 1 THEN Gap ELSE 0) + Text(k)
           h == [k \in Nat |-> [v \in Nat |-> Added(k, v)]]
           Step(f, k) == IF k = 0 THEN Margin
                         ELSE f[k - 1] + (IF k > 1 THEN Gap ELSE 0) + TextHeight(s[j + k], font)
           H(d) == CHOOSE f : f = [k \in 0 .. d |-> Step(f, k)]
<1>1. Len(s) \in Nat /\ j \in Nat /\ Len(s) - j \in Nat
  BY DEF Notes
<1>2. \A k \in Nat : Text(k) \in Nat
  <2>1. ASSUME NEW k \in 1 .. Len(s) - j PROVE TextHeight(s[j + k], font) \in Nat
    <3>1. s[j + k] \in Paragraphs
      BY <1>1 DEF Notes
    <3>2. QED BY <3>1, Heights
  <2>2. QED BY <2>1
<1>3. h \in [Nat -> [Nat -> Nat]]
  <2>1. \A k, v \in Nat : Added(k, v) \in Nat
    <3>1. TAKE k \in Nat, v \in Nat
    <3>2. Text(k) \in Nat /\ Gap \in Nat
      BY <1>2, Heights
    <3> HIDE DEF Text
    <3>3. QED BY <3>2
  <2> HIDE DEF Added
  <2>2. QED BY <2>1
<1>4. ASSUME NEW d \in 0 .. Len(s) - j
      PROVE  /\ H(d)[0] = Margin
             /\ \A k \in 0 .. d : H(d)[k] \in Nat
             /\ \A k \in 1 .. d : H(d)[k] = Step(H(d), k)
             /\ Stepping(H(d), Margin, h, d)
  <2>1. d \in Nat /\ Margin \in Nat
    BY Heights
  <2>2. PICK f \in [0 .. d -> Nat] : Stepping(f, Margin, h, d)
    <3> HIDE DEF h
    <3>1. QED BY <1>3, <2>1, StepsFunction
  <2>3. ASSUME NEW k \in 1 .. d, NEW v \in Nat
        PROVE  h[k][v] = v + (IF k > 1 THEN Gap ELSE 0) + TextHeight(s[j + k], font)
    <3>1. k \in Nat /\ k \in 1 .. Len(s) - j
      BY <1>1
    <3>2. Text(k) = TextHeight(s[j + k], font)
      BY <3>1
    <3> HIDE DEF Text
    <3>3. h[k][v] = Added(k, v)
      BY <3>1
    <3>4. QED BY <3>2, <3>3
  <2>4. \A k \in 1 .. d : f[k] = Step(f, k)
    <3>1. TAKE k \in 1 .. d
    <3>2. k - 1 \in 0 .. d /\ k # 0
      BY <2>1
    <3> HIDE DEF h
    <3>3. f[k - 1] \in Nat /\ f[k] = h[k][f[k - 1]]
      BY <2>2, <3>2 DEF Stepping
    <3>4. QED BY <2>3, <3>2, <3>3
  <2>5. f = [k \in 0 .. d |-> Step(f, k)]
    <3>1. ASSUME NEW k \in 0 .. d PROVE f[k] = Step(f, k)
      <4>1. f[0] = Step(f, 0)
        BY <2>2 DEF Stepping
      <4>2. k = 0 \/ k \in 1 .. d
        OBVIOUS
      <4> HIDE DEF Step
      <4>3. QED BY <2>4, <4>1, <4>2
    <3> HIDE DEF Step
    <3>2. QED BY <3>1
  <2>6. H(d) = [k \in 0 .. d |-> Step(H(d), k)]
    <3> HIDE DEF Step
    <3>1. QED BY <2>5
  <2>7. \A k \in 0 .. d : H(d)[k] = Step(H(d), k)
    <3> HIDE DEF Step, H
    <3>1. QED BY <2>6
  <2> HIDE DEF H, h
  <2>8. H(d)[0] = Margin
    BY <2>7, <2>1
  <2>9. \A k \in 1 .. d : H(d)[k - 1] \in Nat => H(d)[k] = h[k][H(d)[k - 1]]
    <3>1. TAKE k \in 1 .. d
    <3>2. k # 0 /\ H(d)[k] = Step(H(d), k)
      BY <2>7
    <3>3. QED BY <2>3, <3>2
  <2> HIDE DEF Step
  <2>10. Stepping(H(d), Margin, h, d) /\ \A k \in 0 .. d : H(d)[k] \in Nat
    <3> DEFINE g == H(d)
    <3>1. Following(g, Margin, h, d)
      BY <2>8, <2>9 DEF Following
    <3> HIDE DEF g
    <3>2. Stepping(g, Margin, h, d) /\ \A k \in 0 .. d : g[k] \in Nat
      BY <1>3, <2>1, <3>1, StepsFollowed
    <3>3. QED BY <3>2 DEF g
  <2>11. QED BY <2>7, <2>8, <2>10
<1>5. \A d \in 0 .. Len(s) - j : HeightOf(s, font, j, d) = H(d)[d]
  BY DEF HeightOf
<1> HIDE DEF H, h
<1>6. HeightOf(s, font, j, c) \in Nat /\ HeightOf(s, font, j, 0) = Margin
  <2>1. 0 \in 0 .. Len(s) - j /\ c \in 0 .. c
    BY <1>1
  <2> HIDE DEF Step
  <2>2. H(c)[c] \in Nat /\ H(0)[0] = Margin
    BY <1>4, <2>1
  <2>3. QED BY <1>5, <2>1, <2>2
<1>7. ASSUME c > 0 PROVE H(c)[c - 1] = H(c - 1)[c - 1]
  <2>1. c - 1 \in Nat /\ c \in Nat /\ c - 1 <= c /\ c - 1 \in 0 .. Len(s) - j /\ c - 1 \in 0 .. c - 1
    BY <1>1, <1>7
  <2> DEFINE f == H(c - 1)
             g == H(c)
             m == c - 1
  <2>2. Stepping(f, Margin, h, m)
    <3> HIDE DEF Step
    <3>1. QED BY <1>4, <2>1
  <2>3. Stepping(g, Margin, h, c)
    <3> HIDE DEF Step
    <3>1. QED BY <1>4
  <2>4. m \in Nat /\ c \in Nat /\ m <= c
    BY <2>1
  <2> HIDE DEF f, g, m
  <2>5. \A p \in 0 .. m : f[p] = g[p]
    BY <2>2, <2>3, <2>4, StepsAgree
  <2>6. QED BY <2>1, <2>5 DEF f, g, m
<1>8. ASSUME c > 0
      PROVE  HeightOf(s, font, j, c) =
                HeightOf(s, font, j, c - 1) + (IF c > 1 THEN Gap ELSE 0)
                    + TextHeight(s[j + c], font)
  <2>1. c \in 1 .. c /\ c # 0 /\ c - 1 \in 0 .. Len(s) - j
    BY <1>1, <1>8
  <2>2. H(c)[c] = Step(H(c), c)
    <3> HIDE DEF Step
    <3>1. QED BY <1>4, <2>1
  <2>3. H(c)[c] = H(c)[c - 1] + (IF c > 1 THEN Gap ELSE 0) + TextHeight(s[j + c], font)
    BY <2>1, <2>2
  <2>4. QED BY <1>5, <1>7, <1>8, <2>1, <2>3
<1>9. QED BY <1>6, <1>8


-----------------------------------------------------------------------------
(* The paragraphs of one page.                                             *)

LEMMA FittingIs ==
    ASSUME NEW s \in Notes, NEW font \in BOOLEAN, NEW j \in 0 .. Len(s), NEW max \in Nat
    PROVE  /\ Fitting(s, font, j, max) \in 0 .. Len(s) - j
           /\ \A c \in 1 .. Len(s) - j :
                 c <= Fitting(s, font, j, max)
                     <=> \A k \in 1 .. c : HeightOf(s, font, j, k) < max
<1> DEFINE n == Len(s) - j
           Fits(c) == \A k \in 1 .. c : HeightOf(s, font, j, k) < max
           S == {c \in 1 .. n : Fits(c)}
<1>1. n \in Nat
  BY DEF Notes
<1>2. Fitting(s, font, j, max) = Cardinality(S)
  BY DEF Fitting
<1>3. S \in SUBSET (1 .. n) /\ \A c \in S : \A b \in 1 .. c : b \in S
  <2>1. ASSUME NEW c \in S, NEW b \in 1 .. c PROVE b \in S
    <3>1. Fits(b)
      OBVIOUS
    <3>2. b \in 1 .. n
      BY <1>1
    <3> HIDE DEF Fits
    <3>3. QED BY <3>1, <3>2
  <2>2. QED BY <2>1
<1>4. \A c \in 1 .. n : c \in S <=> Fits(c)
  <2> HIDE DEF Fits
  <2>1. QED OBVIOUS
<1> HIDE DEF n, Fits, S
<1>5. /\ Cardinality(S) \in Nat
      /\ S = 1 .. 1 + Cardinality(S) - 1
      /\ 1 + Cardinality(S) <= n + 1 \/ S = {}
  <2>1. 1 \in Nat
    OBVIOUS
  <2>2. QED BY <1>1, <1>3, <2>1, NoHole
<1>6. Cardinality(S) \in 0 .. n
  <2>1. CASE S = {}
    <3>1. Cardinality(S) = 0
      BY <2>1, FS_EmptySet
    <3>2. QED BY <1>1, <3>1
  <2>2. QED BY <1>1, <1>5, <2>1
<1>7. \A c \in 1 .. n : c <= Cardinality(S) <=> Fits(c)
  BY <1>1, <1>4, <1>5
<1>8. QED BY <1>2, <1>6, <1>7 DEF n, Fits

\* A page has a paragraph, and no more than what is left.
LEMMA InPageBounds ==
    ASSUME NEW s \in Notes, NEW font \in BOOLEAN, NEW j \in 0 .. Len(s), j < Len(s)
    PROVE  /\ \A max \in Nat : NbParagraphsInPage(s, font, j, max) \in 1 .. Len(s) - j
           /\ InPage(s, font, j) \in 1 .. Len(s) - j
<1>1. Len(s) \in Nat /\ Len(s) - j \in Nat \ {0}
  BY DEF Notes
<1>2. ASSUME NEW max \in Nat
      PROVE  NbParagraphsInPage(s, font, j, max) \in 1 .. Len(s) - j
  <2>1. Fitting(s, font, j, max) \in 0 .. Len(s) - j
    BY FittingIs
  <2>2. QED BY <1>1, <2>1 DEF NbParagraphsInPage
<1>3. Area \in Nat /\ Area - Bar \in Nat
  BY Heights
<1>4. QED BY <1>2, <1>3 DEF InPage

\* The paragraphs of a page end above its bars, unless there is only one.
LEMMA InPageFits ==
    ASSUME NEW s \in Notes, NEW font \in BOOLEAN, NEW j \in 0 .. Len(s), j < Len(s),
           NEW max \in Nat, NbParagraphsInPage(s, font, j, max) # 1
    PROVE  HeightOf(s, font, j, NbParagraphsInPage(s, font, j, max)) < max
<1> DEFINE m == NbParagraphsInPage(s, font, j, max)
<1>1. m \in 1 .. Len(s) - j
  BY InPageBounds
<1>2. m = Fitting(s, font, j, max)
  BY DEF NbParagraphsInPage
<1>3. \A c \in 1 .. Len(s) - j :
          c <= Fitting(s, font, j, max) <=> \A k \in 1 .. c : HeightOf(s, font, j, k) < max
  BY FittingIs
<1> HIDE DEF m
<1>4. m <= m /\ m \in 1 .. m
  BY <1>1
<1>5. \A k \in 1 .. m : HeightOf(s, font, j, k) < max
  BY <1>1, <1>2, <1>3, <1>4
<1>6. HeightOf(s, font, j, m) < max
  BY <1>4, <1>5
<1>7. QED BY <1>6 DEF m

\* More height, no fewer paragraphs.
LEMMA FittingGrows ==
    ASSUME NEW s \in Notes, NEW font \in BOOLEAN, NEW j \in 0 .. Len(s), j < Len(s)
    PROVE  NbParagraphsInPage(s, font, j, Area - Bar) <= NbParagraphsInPage(s, font, j, Area)
<1> DEFINE a == Fitting(s, font, j, Area - Bar)
           b == Fitting(s, font, j, Area)
<1>1. Area \in Nat /\ Bar \in Nat /\ Area - Bar \in Nat /\ Len(s) - j \in Nat
  BY Heights DEF Notes
<1>2. a \in 0 .. Len(s) - j /\ b \in 0 .. Len(s) - j
  BY <1>1, FittingIs
<1>3. \A max \in Nat : \A c \in 1 .. Len(s) - j :
          c <= Fitting(s, font, j, max) <=> \A k \in 1 .. c : HeightOf(s, font, j, k) < max
  BY FittingIs
<1>4. \A c \in 1 .. Len(s) - j :
          /\ c <= a <=> \A k \in 1 .. c : HeightOf(s, font, j, k) < Area - Bar
          /\ c <= b <=> \A k \in 1 .. c : HeightOf(s, font, j, k) < Area
  BY <1>1, <1>3
<1> HIDE DEF a, b
<1>5. a <= b
  <2>1. CASE a = 0
    BY <1>2, <2>1
  <2>2. CASE a > 0
    <3>1. a \in 1 .. Len(s) - j
      BY <1>1, <1>2, <2>2
    <3>2. \A k \in 1 .. a : HeightOf(s, font, j, k) < Area - Bar
      <4>1. a <= a
        BY <1>2
      <4>2. QED BY <1>4, <3>1, <4>1
    <3>3. \A k \in 1 .. a : HeightOf(s, font, j, k) \in Nat
      <4>1. \A k \in 1 .. a : k \in 0 .. Len(s) - j
        BY <3>1
      <4>2. QED BY <4>1, HeightSteps
    <3>4. \A k \in 1 .. a : HeightOf(s, font, j, k) < Area
      BY <1>1, <3>2, <3>3
    <3>5. QED BY <1>4, <3>1, <3>4
  <2>3. QED BY <1>2, <2>1, <2>2
<1>6. (IF a = 0 THEN 1 ELSE a) <= (IF b = 0 THEN 1 ELSE b)
  BY <1>2, <1>5
<1>7. QED BY <1>6 DEF NbParagraphsInPage, a, b

-----------------------------------------------------------------------------
(* Where the pages start.                                                  *)

\* Each page starts where the one before ends; a page after the last one starts
\* at the end of the note.
LEMMA StartsSteps ==
    ASSUME NEW s \in Notes, NEW font \in BOOLEAN
    PROVE  /\ DOMAIN Starts(s, font) = 0 .. Len(s)
           /\ Starts(s, font)[0] = 0
           /\ \A p \in 0 .. Len(s) : Starts(s, font)[p] \in p .. Len(s)
           /\ \A p \in 1 .. Len(s) :
                 Starts(s, font)[p] =
                     IF Starts(s, font)[p - 1] >= Len(s) THEN Len(s)
                     ELSE Starts(s, font)[p - 1] + InPage(s, font, Starts(s, font)[p - 1])
<1> DEFINE n == Len(s)
           Cut(v) == IF v >= n THEN n ELSE v + InPage(s, font, v)
           h == [p \in Nat |-> [v \in Nat |-> Cut(v)]]
           Step(f, p) == IF p = 0 THEN 0
                         ELSE IF f[p - 1] >= Len(s) THEN Len(s)
                         ELSE f[p - 1] + InPage(s, font, f[p - 1])
           F == CHOOSE f : f = [p \in 0 .. Len(s) |-> Step(f, p)]
<1>1. n \in Nat /\ 0 \in Nat
  BY DEF Notes
<1>2. \A v \in Nat : Cut(v) \in Nat /\ (v <= n => Cut(v) \in v .. n) /\ (v < n => Cut(v) > v)
  <2>1. TAKE v \in Nat
  <2>2. CASE v < n
    <3>1. v \in 0 .. Len(s) /\ v < Len(s)
      BY <1>1, <2>2
    <3>2. InPage(s, font, v) \in 1 .. Len(s) - v
      BY <3>1, InPageBounds
    <3>3. QED BY <1>1, <2>2, <3>2
  <2>3. QED BY <1>1, <2>2
<1>3. h \in [Nat -> [Nat -> Nat]]
  <2>1. \A v \in Nat : Cut(v) \in Nat
    BY <1>2
  <2> HIDE DEF Cut
  <2>2. QED BY <2>1
<1>4. \A p, v \in Nat : h[p][v] = Cut(v)
  <2> HIDE DEF Cut
  <2>1. QED OBVIOUS
<1>5. PICK f \in [0 .. n -> Nat] : Stepping(f, 0, h, n)
  <2> HIDE DEF h, n
  <2>1. QED BY <1>1, <1>3, StepsFunction
<1>6. \A p \in 1 .. n : Step(f, p) = Cut(f[p - 1])
  OBVIOUS
<1>7. f = [p \in 0 .. n |-> Step(f, p)]
  <2>1. ASSUME NEW p \in 0 .. n PROVE f[p] = Step(f, p)
    <3>1. CASE p = 0
      BY <1>5, <3>1 DEF Stepping
    <3>2. CASE p \in 1 .. n
      <4>1. p - 1 \in 0 .. n /\ p \in Nat
        BY <1>1, <3>2
      <4>2. f[p - 1] \in Nat
        BY <4>1
      <4> HIDE DEF Step, Cut, h, n
      <4>3. f[p] = h[p][f[p - 1]]
        BY <1>5, <3>2 DEF Stepping
      <4>4. QED BY <1>4, <1>6, <3>2, <4>1, <4>2, <4>3
    <3>3. p = 0 \/ p \in 1 .. n
      BY <1>1
    <3> HIDE DEF Step
    <3>4. QED BY <3>1, <3>2, <3>3
  <2> HIDE DEF Step, n
  <2>2. QED BY <2>1
<1>8. Starts(s, font) = F
  BY DEF Starts
<1>9. F = [p \in 0 .. n |-> Step(F, p)]
  <2> HIDE DEF Step
  <2>1. QED BY <1>7
<1>10. DOMAIN F = 0 .. n /\ \A p \in 0 .. n : F[p] = Step(F, p)
  <2> DEFINE g == F
  <2>1. g = [p \in 0 .. n |-> Step(g, p)]
    BY <1>9
  <2> HIDE DEF Step, F, g
  <2>2. DOMAIN g = 0 .. n /\ \A p \in 0 .. n : g[p] = Step(g, p)
    BY <2>1
  <2>3. QED BY <2>2 DEF g
<1> HIDE DEF F
<1>11. F[0] = 0
  BY <1>1, <1>10
<1>12. \A p \in 1 .. n : F[p] = Cut(F[p - 1])
  <2>1. TAKE p \in 1 .. n
  <2>2. F[p] = Step(F, p) /\ p # 0
    <3>1. p \in 0 .. n /\ p # 0
      BY <1>1
    <3> HIDE DEF Step
    <3>2. QED BY <1>10, <3>1
  <2>3. QED BY <2>2
<1>13. \A p \in 0 .. n : F[p] \in p .. n
  <2> HIDE DEF Step, Cut, n
  <2> DEFINE T == {p \in Nat : p <= n => F[p] \in p .. n}
  <2>1. 0 \in T
    BY <1>1, <1>11
  <2>2. ASSUME NEW p \in Nat, p \in T PROVE p + 1 \in T
    <3>1. CASE p + 1 <= n
      <4>1. p + 1 \in 1 .. n /\ (p + 1) - 1 = p /\ F[p] \in p .. n
        BY <1>1, <2>2, <3>1
      <4>2. F[p + 1] = Cut(F[(p + 1) - 1])
        BY <1>12, <4>1
      <4>3. F[p + 1] = Cut(F[p])
        BY <4>1, <4>2
      <4>4. F[p] \in Nat /\ F[p] <= n
        BY <1>1, <4>1
      <4>5. Cut(F[p]) \in F[p] .. n /\ (F[p] < n => Cut(F[p]) > F[p])
        BY <1>2, <4>4
      <4>6. F[p + 1] \in p + 1 .. n
        BY <1>1, <3>1, <4>1, <4>3, <4>5
      <4>7. QED BY <4>6
    <3>2. QED BY <1>1, <3>1
  <2>3. Nat \subseteq T
    <3> HIDE DEF T
    <3>1. QED BY <2>1, <2>2, SetInduction
  <2>4. QED BY <1>1, <2>3
<1>14. QED
  <2>1. \A p \in 1 .. Len(s) :
            F[p] = IF F[p - 1] >= Len(s) THEN Len(s) ELSE F[p - 1] + InPage(s, font, F[p - 1])
    BY <1>12
  <2> HIDE DEF Step, Cut
  <2>2. QED BY <1>8, <1>10, <1>11, <1>13, <2>1

LEMMA StartsGrow ==
    ASSUME NEW s \in Notes, NEW font \in BOOLEAN,
           NEW p \in 0 .. Len(s), NEW q \in 0 .. Len(s), p <= q
    PROVE  Starts(s, font)[p] <= Starts(s, font)[q]
<1> DEFINE F == Starts(s, font)
           T == {d \in Nat : p + d <= Len(s) => F[p] <= F[p + d]}
<1>1. Len(s) \in Nat /\ p \in Nat /\ q - p \in Nat
  BY DEF Notes
<1>2. \A e \in 0 .. Len(s) : F[e] \in e .. Len(s)
  BY StartsSteps
<1>3. \A e \in 1 .. Len(s) :
          F[e] = IF F[e - 1] >= Len(s) THEN Len(s) ELSE F[e - 1] + InPage(s, font, F[e - 1])
  BY StartsSteps
<1> HIDE DEF F
<1>4. 0 \in T
  BY <1>1, <1>2
<1>5. ASSUME NEW d \in Nat, d \in T PROVE d + 1 \in T
  <2>1. CASE p + (d + 1) <= Len(s)
    <3>1. /\ p + d \in 0 .. Len(s) /\ p + (d + 1) \in 1 .. Len(s)
          /\ (p + (d + 1)) - 1 = p + d /\ F[p] <= F[p + d]
      BY <1>1, <1>5, <2>1
    <3>2. F[p + d] \in 0 .. Len(s) /\ F[p] \in 0 .. Len(s)
      BY <1>1, <1>2, <3>1
    <3>3. F[p + (d + 1)] = IF F[p + d] >= Len(s) THEN Len(s)
                           ELSE F[p + d] + InPage(s, font, F[p + d])
      BY <1>3, <3>1
    <3>4. F[p + d] < Len(s) => InPage(s, font, F[p + d]) \in 1 .. Len(s) - F[p + d]
      BY <3>2, InPageBounds
    <3>5. F[p] <= F[p + (d + 1)]
      BY <1>1, <3>1, <3>2, <3>3, <3>4
    <3>6. QED BY <3>5
  <2>2. QED BY <1>1, <2>1
<1>6. Nat \subseteq T
  <2> HIDE DEF T
  <2>1. QED BY <1>4, <1>5, SetInduction
<1>7. p + (q - p) = q /\ q <= Len(s)
  BY <1>1
<1>8. F[p] <= F[q]
  <2> DEFINE d == q - p
  <2>1. d \in Nat /\ p + d = q
    BY <1>1, <1>7
  <2> HIDE DEF d
  <2>2. d \in T
    BY <1>6, <2>1
  <2>3. QED BY <1>7, <2>1, <2>2
<1>9. QED BY <1>8 DEF F

\* The pages that are counted are those that start before the end of the note.
LEMMA PagesCounted ==
    ASSUME NEW s \in Notes, NEW font \in BOOLEAN, s # <<>>
    PROVE  /\ NbPagesForArray(s, font) \in 1 .. Len(s)
           /\ \A p \in 0 .. Len(s) :
                 Starts(s, font)[p] < Len(s) <=> p < NbPagesForArray(s, font)
<1> DEFINE F == Starts(s, font)
           n == Len(s)
           S == {p \in 0 .. n : F[p] < n}
<1>1. n \in Nat \ {0}
  BY DEF Notes
<1>2. DOMAIN F = 0 .. n /\ F[0] = 0 /\ \A p \in 0 .. n : F[p] \in p .. n
  BY StartsSteps
<1>3. \A p, q \in 0 .. n : p <= q => F[p] <= F[q]
  BY StartsGrow
<1>4. NbPagesForArray(s, font) = Cardinality(S)
  BY <1>2 DEF NbPagesForArray
<1> HIDE DEF F, n
<1>5. S \in SUBSET (0 .. n) /\ \A c \in S : \A b \in 0 .. c : b \in S
  <2>1. ASSUME NEW c \in S, NEW b \in 0 .. c PROVE b \in S
    <3>1. b \in 0 .. n /\ c \in 0 .. n /\ b <= c /\ F[c] < n
      BY <1>1
    <3>2. F[b] <= F[c] /\ F[b] \in Nat /\ F[c] \in Nat
      BY <1>1, <1>2, <1>3, <3>1
    <3>3. QED BY <1>1, <3>1, <3>2
  <2>2. QED BY <2>1
<1>6. 0 \in S /\ n \notin S
  BY <1>1, <1>2
<1>7. \A p \in 0 .. n : F[p] < n <=> p \in S
  OBVIOUS
<1> HIDE DEF S
<1>8. /\ Cardinality(S) \in Nat
      /\ S = 0 .. 0 + Cardinality(S) - 1
      /\ 0 + Cardinality(S) <= n + 1 \/ S = {}
  <2>1. 0 \in Nat /\ n \in Nat
    BY <1>1
  <2>2. QED BY <1>5, <2>1, NoHole
<1>9. Cardinality(S) \in 1 .. n /\ \A p \in 0 .. n : p \in S <=> p < Cardinality(S)
  BY <1>1, <1>6, <1>8
<1>10. QED BY <1>4, <1>7, <1>9 DEF F, n

\* A page ends where the next one starts, or at the end of the note.
LEMMA PageIs ==
    ASSUME NEW s \in Notes, NEW font \in BOOLEAN, s # <<>>,
           NEW p \in 0 .. NbPagesForArray(s, font) - 1
    PROVE  /\ p \in 0 .. Len(s) /\ p + 1 \in 0 .. Len(s)
           /\ FirstInPage(s, font, p) = Starts(s, font)[p]
           /\ Starts(s, font)[p] \in 0 .. Len(s) - 1
           /\ Starts(s, font)[p + 1] \in 1 .. Len(s)
           /\ Starts(s, font)[p] < Starts(s, font)[p + 1]
           /\ InPage(s, font, Starts(s, font)[p]) = Starts(s, font)[p + 1] - Starts(s, font)[p]
           /\ ParagraphsForPage(s, font, p) = Starts(s, font)[p] .. Starts(s, font)[p + 1] - 1
<1> DEFINE F == Starts(s, font)
           n == Len(s)
<1>1. n \in Nat \ {0}
  BY DEF Notes
<1>2. NbPagesForArray(s, font) \in 1 .. n
  BY PagesCounted
<1>3. p \in 0 .. n /\ p + 1 \in 1 .. n /\ (p + 1) - 1 = p /\ p < NbPagesForArray(s, font)
  BY <1>1, <1>2
<1>4. F[p] < n
  BY <1>3, PagesCounted
<1>5. F[p] \in 0 .. n - 1
  <2>1. F[p] \in p .. n
    BY <1>3, StartsSteps
  <2> HIDE DEF F, n
  <2>2. QED BY <1>1, <1>3, <1>4, <2>1
<1>6. \A e \in 1 .. Len(s) :
          F[e] = IF F[e - 1] >= Len(s) THEN Len(s) ELSE F[e - 1] + InPage(s, font, F[e - 1])
  BY StartsSteps
<1>7. F[p + 1] = F[p] + InPage(s, font, F[p])
  <2> HIDE DEF F
  <2>1. F[p + 1] = IF F[p] >= n THEN n ELSE F[p] + InPage(s, font, F[p])
    BY <1>3, <1>6
  <2>2. QED BY <1>1, <1>4, <1>5, <2>1
<1>8. InPage(s, font, F[p]) \in 1 .. n - F[p]
  <2> DEFINE v == F[p]
  <2>1. v \in 0 .. Len(s) /\ v < Len(s)
    BY <1>1, <1>5
  <2> HIDE DEF v
  <2>2. InPage(s, font, v) \in 1 .. Len(s) - v
    BY <2>1, InPageBounds
  <2>3. QED BY <2>2 DEF v
<1>9. ParagraphsForPage(s, font, p) = F[p] .. F[p] + InPage(s, font, F[p]) - 1
  BY DEF ParagraphsForPage, FirstInPage
<1>10. FirstInPage(s, font, p) = F[p]
  BY DEF FirstInPage
<1> HIDE DEF F
<1>11. QED
  <2>1. /\ F[p + 1] \in 1 .. n /\ F[p] < F[p + 1]
        /\ InPage(s, font, F[p]) = F[p + 1] - F[p]
    BY <1>1, <1>5, <1>7, <1>8
  <2>2. ParagraphsForPage(s, font, p) = F[p] .. F[p + 1] - 1
    <3>1. F[p] + InPage(s, font, F[p]) - 1 = F[p + 1] - 1
      BY <1>1, <1>5, <1>7, <1>8
    <3> HIDE DEF n
    <3>2. QED BY <1>9, <3>1
  <2>3. QED BY <1>3, <1>5, <1>10, <2>1, <2>2 DEF F

\* Each paragraph is on one page.
LEMMA OnePageEach ==
    ASSUME NEW s \in Notes, NEW font \in BOOLEAN, s # <<>>, NEW k \in 0 .. Len(s) - 1
    PROVE  Cardinality({p \in 0 .. NbPagesForArray(s, font) - 1 :
                            k \in ParagraphsForPage(s, font, p)}) = 1
<1> DEFINE F == Starts(s, font)
           n == Len(s)
           P == NbPagesForArray(s, font)
           S == {q \in Nat : q <= n /\ F[q] > k}
<1>1. n \in Nat \ {0} /\ P \in 1 .. n /\ k \in Nat /\ k < n
  BY PagesCounted DEF Notes
<1>2. F[0] = 0 /\ \A p \in 0 .. n : F[p] \in p .. n
  BY StartsSteps
<1>3. \A p, q \in 0 .. n : p <= q => F[p] <= F[q]
  BY StartsGrow
<1>4. \A p \in 0 .. n : F[p] < n <=> p < P
  BY PagesCounted
<1>5. \A p \in 0 .. P - 1 : ParagraphsForPage(s, font, p) = F[p] .. F[p + 1] - 1
  BY PageIs
<1> HIDE DEF F, n, P
<1>6. n \in S
  BY <1>1, <1>2
<1>7. PICK m \in S : \A q \in S : m <= q
  BY <1>6, LeastOf
<1>8. m \in 1 .. n /\ F[m] > k
  BY <1>1, <1>2, <1>7
<1>9. m - 1 \in 0 .. n /\ m - 1 \notin S
  BY <1>1, <1>7, <1>8
<1>10. F[m - 1] \in Nat /\ F[m - 1] <= k
  BY <1>1, <1>2, <1>9
<1>11. m - 1 \in 0 .. P - 1
  BY <1>1, <1>4, <1>8, <1>9, <1>10
<1>12. k \in ParagraphsForPage(s, font, m - 1)
  <2>1. F[m] \in Nat /\ (m - 1) + 1 = m
    BY <1>1, <1>2, <1>8
  <2>2. ParagraphsForPage(s, font, m - 1) = F[m - 1] .. F[m] - 1
    BY <1>5, <1>11, <2>1
  <2>3. QED BY <1>1, <1>8, <1>10, <2>1, <2>2
<1>13. ASSUME NEW p \in 0 .. P - 1, k \in ParagraphsForPage(s, font, p) PROVE p = m - 1
  <2>1. p \in 0 .. n /\ p + 1 \in 0 .. n
    BY <1>1
  <2>2. F[p] \in Nat /\ F[p + 1] \in Nat /\ F[m - 1] \in Nat /\ F[m] \in Nat
    BY <1>1, <1>2, <1>8, <1>9, <2>1
  <2>3. F[p] <= k /\ k < F[p + 1]
    BY <1>5, <1>13, <2>2
  <2>4. CASE p < m - 1
    <3>1. p + 1 <= m - 1
      BY <1>8, <2>4
    <3>2. F[p + 1] <= F[m - 1]
      BY <1>3, <1>9, <2>1, <3>1
    <3>3. QED BY <1>1, <1>10, <2>2, <2>3, <3>2
  <2>5. CASE p > m - 1
    <3>1. m <= p /\ m \in 0 .. n
      BY <1>1, <1>8, <2>5
    <3>2. F[m] <= F[p]
      BY <1>3, <2>1, <3>1
    <3>3. QED BY <1>1, <1>8, <2>2, <2>3, <3>2
  <2>6. QED BY <1>8, <2>4, <2>5
<1>14. {p \in 0 .. P - 1 : k \in ParagraphsForPage(s, font, p)} = {m - 1}
  BY <1>11, <1>12, <1>13
<1>15. QED BY <1>14, FS_Singleton DEF P

\* The page that is looked for is one of those counted, although the two loops
\* do not cut alike: they do as long as the paragraph is not reached.
LEMMA PageFound ==
    ASSUME NEW s \in Notes, NEW font \in BOOLEAN, s # <<>>, NEW k \in 0 .. Len(s) - 1
    PROVE  PageForParagraphs(s, font, k) \in 0 .. NbPagesForArray(s, font) - 1
<1> DEFINE n == Len(s)
           Once(v) == NbParagraphsInPage(s, font, v, Area)
           Cut(v) == IF v >= n THEN n ELSE v + Once(v)
           h == [p \in Nat |-> [v \in Nat |-> Cut(v)]]
           Step(f, p) == IF (IF p = 0 THEN 0 ELSE f[p - 1]) >= Len(s) THEN Len(s)
                         ELSE (IF p = 0 THEN 0 ELSE f[p - 1])
                                + NbParagraphsInPage(s, font, IF p = 0 THEN 0 ELSE f[p - 1], Area)
           E == CHOOSE f : f = [p \in 0 .. Len(s) |-> Step(f, p)]
           Done(p) == E[p] >= k \/ (p > 0 /\ E[p - 1] >= Len(s))
           F == Starts(s, font)
           P == NbPagesForArray(s, font)
<1>1. n \in Nat \ {0} /\ 0 \in Nat /\ k \in Nat /\ k < n
  BY DEF Notes
<1>2. \A v \in Nat : v < n => Once(v) \in 1 .. n - v
  <2>1. TAKE v \in Nat
  <2>2. HAVE v < n
  <2>3. v \in 0 .. Len(s) /\ v < Len(s) /\ Area \in Nat
    BY <1>1, <2>2, Heights
  <2>4. \A max \in Nat : NbParagraphsInPage(s, font, v, max) \in 1 .. Len(s) - v
    BY <2>3, InPageBounds
  <2>5. QED BY <2>3, <2>4
<1> HIDE DEF Once
<1>3. \A v \in Nat : Cut(v) \in Nat /\ (v <= n => Cut(v) \in v .. n) /\ (v < n => Cut(v) > v)
  BY <1>1, <1>2
<1>4. h \in [Nat -> [Nat -> Nat]]
  <2>1. \A v \in Nat : Cut(v) \in Nat
    BY <1>3
  <2> HIDE DEF Cut
  <2>2. QED BY <2>1
<1>5. \A p, v \in Nat : h[p][v] = Cut(v)
  <2> HIDE DEF Cut
  <2>1. QED OBVIOUS
<1>6. Cut(0) \in Nat /\ Cut(0) \in 1 .. n
  BY <1>1, <1>3
<1>7. PICK f \in [0 .. n -> Nat] : Stepping(f, Cut(0), h, n)
  <2> HIDE DEF h, n, Cut
  <2>1. QED BY <1>1, <1>4, <1>6, StepsFunction
<1>8. \A g : Step(g, 0) = Cut(0) /\ \A p \in 1 .. n : Step(g, p) = Cut(g[p - 1])
  <2>1. TAKE g
  <2>2. Step(g, 0) = Cut(0)
    BY DEF Once
  <2>3. ASSUME NEW p \in 1 .. n PROVE Step(g, p) = Cut(g[p - 1])
    <3>1. p # 0
      BY <1>1
    <3>2. (IF p = 0 THEN 0 ELSE g[p - 1]) = g[p - 1]
      BY <3>1
    <3>3. QED BY <3>2 DEF Once
  <2>4. QED BY <2>2, <2>3
<1>9. f = [p \in 0 .. n |-> Step(f, p)]
  <2>1. ASSUME NEW p \in 0 .. n PROVE f[p] = Step(f, p)
    <3> HIDE DEF Step, Cut, h
    <3>1. CASE p = 0
      BY <1>7, <1>8, <3>1 DEF Stepping
    <3>2. CASE p \in 1 .. n
      <4>1. p - 1 \in 0 .. n /\ p \in Nat
        BY <1>1, <3>2
      <4>2. f[p - 1] \in Nat
        BY <4>1
      <4>3. f[p] = h[p][f[p - 1]]
        BY <1>7, <3>2 DEF Stepping
      <4> HIDE DEF n
      <4>4. QED BY <1>5, <1>8, <3>2, <4>1, <4>2, <4>3
    <3>3. p = 0 \/ p \in 1 .. n
      BY <1>1
    <3>4. QED BY <3>1, <3>2, <3>3
  <2> HIDE DEF Step, n
  <2>2. QED BY <2>1
<1>10. PageForParagraphs(s, font, k) = CHOOSE p \in 0 .. n : Done(p) /\ \A q \in 0 .. p - 1 : ~ Done(q)
  BY DEF PageForParagraphs
<1>11. E = [p \in 0 .. n |-> Step(E, p)]
  <2> HIDE DEF Step
  <2>1. QED BY <1>9
<1>12. \A p \in 0 .. n : E[p] = Step(E, p)
  <2> DEFINE g == E
  <2>1. g = [p \in 0 .. n |-> Step(g, p)]
    BY <1>11
  <2> HIDE DEF Step, E, g
  <2>2. \A p \in 0 .. n : g[p] = Step(g, p)
    BY <2>1
  <2>3. QED BY <2>2 DEF g
<1> HIDE DEF E
<1>13. E[0] = Cut(0) /\ \A p \in 1 .. n : E[p] = Cut(E[p - 1])
  <2>1. 0 \in 0 .. n /\ \A p \in 1 .. n : p \in 0 .. n
    BY <1>1
  <2>2. E[0] = Step(E, 0) /\ \A p \in 1 .. n : E[p] = Step(E, p)
    <3> HIDE DEF Step, n
    <3>1. QED BY <1>12, <2>1
  <2>3. Step(E, 0) = Cut(0) /\ \A p \in 1 .. n : Step(E, p) = Cut(E[p - 1])
    <3> HIDE DEF Step, Cut, n
    <3>1. QED BY <1>8
  <2> HIDE DEF Step, Cut, n
  <2>4. QED BY <2>2, <2>3
<1> HIDE DEF Step
<1>14. \A p \in 0 .. n : E[p] \in 1 .. n /\ E[p] >= p
  <2> DEFINE T == {p \in Nat : p <= n => E[p] \in 1 .. n /\ E[p] >= p}
  <2> HIDE DEF Cut, n
  <2>1. 0 \in T
    BY <1>1, <1>6, <1>13
  <2>2. ASSUME NEW p \in Nat, p \in T PROVE p + 1 \in T
    <3>1. CASE p + 1 <= n
      <4>1. p + 1 \in 1 .. n /\ (p + 1) - 1 = p /\ E[p] \in 1 .. n /\ E[p] >= p
        BY <1>1, <2>2, <3>1
      <4>2. E[p + 1] = Cut(E[(p + 1) - 1])
        BY <1>13, <4>1
      <4>3. E[p + 1] = Cut(E[p]) /\ E[p] \in Nat /\ E[p] <= n
        BY <1>1, <4>1, <4>2
      <4>4. Cut(E[p]) \in E[p] .. n /\ (E[p] < n => Cut(E[p]) > E[p])
        BY <1>3, <4>3
      <4>5. E[p + 1] \in 1 .. n /\ E[p + 1] >= p + 1
        BY <1>1, <3>1, <4>1, <4>3, <4>4
      <4>6. QED BY <4>5
    <3>2. QED BY <1>1, <3>1
  <2>3. Nat \subseteq T
    <3> HIDE DEF T
    <3>1. QED BY <2>1, <2>2, SetInduction
  <2>4. QED BY <1>1, <2>3
<1>15. \E p \in 0 .. n : Done(p) /\ \A q \in 0 .. p - 1 : ~ Done(q)
  <2> DEFINE S == {p \in Nat : p <= n /\ Done(p)}
  <2>1. k \in S
    <3>1. k \in 0 .. n
      BY <1>1
    <3>2. E[k] >= k
      BY <1>14, <3>1
    <3>3. QED BY <1>1, <3>2
  <2>2. PICK m \in S : \A q \in S : m <= q
    BY <2>1, LeastOf
  <2>3. m \in 0 .. n /\ Done(m)
    BY <1>1
  <2>4. ASSUME NEW q \in 0 .. m - 1, Done(q) PROVE FALSE
    <3>1. q \in Nat /\ q <= n /\ q < m
      BY <1>1, <2>3
    <3> HIDE DEF Done
    <3>2. q \in S
      BY <2>4, <3>1
    <3>3. QED BY <2>2, <3>1, <3>2
  <2>5. QED BY <2>3, <2>4
<1> HIDE DEF Done
<1>16. PICK c \in 0 .. n : /\ PageForParagraphs(s, font, k) = c
                           /\ \A q \in 0 .. c - 1 : ~ Done(q)
  <2> DEFINE d == CHOOSE p \in 0 .. n : Done(p) /\ \A q \in 0 .. p - 1 : ~ Done(q)
  <2>1. d \in 0 .. n /\ \A q \in 0 .. d - 1 : ~ Done(q)
    BY <1>15
  <2>2. PageForParagraphs(s, font, k) = d
    BY <1>10
  <2> HIDE DEF d
  <2>3. QED BY <2>1, <2>2
<1>17. \A q \in 0 .. c - 1 : E[q] < k
  <2>1. TAKE q \in 0 .. c - 1
  <2>2. ~ (E[q] >= k) /\ q \in 0 .. n
    BY <1>1, <1>16 DEF Done
  <2>3. E[q] \in Nat
    BY <1>1, <1>14, <2>2
  <2>4. QED BY <1>1, <2>2, <2>3
<1>18. \A v \in Nat : v < n => InPage(s, font, v) = Once(v) \/ v + Once(v) = n
  BY DEF InPage, Once
<1>19. InPage(s, font, 0) = Once(0)
  BY DEF InPage, Once
<1>20. /\ F[0] = 0
       /\ \A p \in 1 .. n : F[p] = IF F[p - 1] >= n THEN n ELSE F[p - 1] + InPage(s, font, F[p - 1])
  BY StartsSteps
<1>21. P \in 1 .. n /\ \A p \in 0 .. n : F[p] < n <=> p < P
  BY PagesCounted
<1> HIDE DEF F, P
<1>22. \A q \in 0 .. c - 1 : F[q + 1] = E[q]
  <2> DEFINE T == {q \in Nat : q < c => F[q + 1] = E[q]}
  <2>1. 0 \in T
    <3>1. F[1] = F[0] + InPage(s, font, F[0])
      <4>1. 1 \in 1 .. n /\ 1 - 1 = 0
        BY <1>1
      <4>2. F[1] = IF F[0] >= n THEN n ELSE F[0] + InPage(s, font, F[0])
        BY <1>20, <4>1
      <4>3. QED BY <1>1, <1>20, <4>2
    <3>2. E[0] = 0 + Once(0)
      BY <1>1, <1>13
    <3>3. 0 + InPage(s, font, 0) = 0 + Once(0)
      BY <1>19
    <3>4. F[0 + 1] = F[1]
      OBVIOUS
    <3>5. F[0 + 1] = E[0]
      BY <1>20, <3>1, <3>2, <3>3, <3>4
    <3>6. QED BY <3>5
  <2>2. ASSUME NEW q \in Nat, q \in T PROVE q + 1 \in T
    <3>1. CASE q + 1 < c
      <4>1. /\ q + 2 \in 1 .. n /\ (q + 2) - 1 = q + 1 /\ (q + 1) + 1 = q + 2
            /\ q + 1 \in 1 .. n /\ (q + 1) - 1 = q /\ q \in 0 .. n
            /\ q + 1 \in 0 .. c - 1 /\ q \in 0 .. c - 1 /\ F[q + 1] = E[q]
        BY <1>1, <2>2, <3>1
      <4>2. E[q] \in 1 .. n /\ E[q + 1] \in 1 .. n
        BY <1>1, <1>14, <4>1
      <4>3. E[q] < n /\ E[q + 1] < n
        BY <1>1, <1>17, <4>1, <4>2
      <4>4. E[q + 1] = Cut(E[(q + 1) - 1])
        BY <1>13, <4>1
      <4>5. E[q + 1] = E[q] + Once(E[q])
        BY <1>1, <4>1, <4>2, <4>3, <4>4
      <4>6. InPage(s, font, E[q]) = Once(E[q])
        BY <1>1, <1>18, <4>2, <4>3, <4>5
      <4>7. F[q + 2] = IF F[(q + 2) - 1] >= n THEN n
                       ELSE F[(q + 2) - 1] + InPage(s, font, F[(q + 2) - 1])
        BY <1>20, <4>1
      <4>8. F[q + 2] = IF E[q] >= n THEN n ELSE E[q] + InPage(s, font, E[q])
        BY <4>1, <4>7
      <4>9. F[q + 2] = E[q] + InPage(s, font, E[q])
        BY <1>1, <4>2, <4>3, <4>8
      <4>10. F[(q + 1) + 1] = E[q + 1]
        BY <4>1, <4>5, <4>6, <4>9
      <4>11. QED BY <4>10
    <3>2. QED BY <1>1, <3>1
  <2>3. Nat \subseteq T
    <3> HIDE DEF T
    <3>1. QED BY <2>1, <2>2, SetInduction
  <2>4. QED BY <1>1, <2>3
<1>23. F[c] < n
  <2>1. CASE c = 0
    BY <1>1, <1>20, <2>1
  <2>2. CASE c > 0
    <3>1. c - 1 \in 0 .. c - 1 /\ (c - 1) + 1 = c /\ c - 1 \in 0 .. n
      BY <1>1, <2>2
    <3>2. F[(c - 1) + 1] = E[c - 1] /\ E[c - 1] < k /\ E[c - 1] \in 1 .. n
      BY <1>14, <1>17, <1>22, <3>1
    <3>3. QED BY <1>1, <3>1, <3>2
  <2>3. QED BY <1>1, <2>1, <2>2
<1>24. c < P
  BY <1>21, <1>23
<1>25. QED BY <1>1, <1>16, <1>21, <1>24 DEF P

\* The last page of several leaves the height of one more bar.
LEMMA PageHeight ==
    ASSUME NEW s \in Notes, NEW font \in BOOLEAN, s # <<>>,
           NEW p \in 0 .. NbPagesForArray(s, font) - 1,
           Cardinality(ParagraphsForPage(s, font, p)) # 1
    PROVE  HeightOf(s, font, FirstInPage(s, font, p), Cardinality(ParagraphsForPage(s, font, p)))
               < IF NbPagesForArray(s, font) > 1 /\ p = NbPagesForArray(s, font) - 1
                 THEN Area - Bar ELSE Area
<1> DEFINE F == Starts(s, font)
           n == Len(s)
           P == NbPagesForArray(s, font)
           j == F[p]
           c == InPage(s, font, j)
           once == NbParagraphsInPage(s, font, j, Area)
           again == NbParagraphsInPage(s, font, j, Area - Bar)
<1>1. n \in Nat \ {0} /\ P \in 1 .. n
  BY PagesCounted DEF Notes
<1>2. /\ p \in 0 .. n /\ p + 1 \in 0 .. n /\ FirstInPage(s, font, p) = j
      /\ j \in 0 .. n - 1 /\ F[p + 1] \in 1 .. n /\ j < F[p + 1]
      /\ c = F[p + 1] - j
      /\ ParagraphsForPage(s, font, p) = j .. F[p + 1] - 1
  BY PageIs
<1>3. \A q \in 0 .. n : F[q] < n <=> q < P
  BY PagesCounted
<1>4. \A q \in 0 .. n : F[q] \in q .. n
  BY StartsSteps
<1>5. Area \in Nat /\ Area - Bar \in Nat /\ Bar \in Nat /\ Area - Bar <= Area
  BY Heights
<1>6. once \in 1 .. n - j /\ again \in 1 .. n - j /\ c \in 1 .. n - j
  <2>1. j \in 0 .. Len(s) /\ j < Len(s)
    BY <1>1, <1>2
  <2> HIDE DEF j
  <2>2. QED BY <1>5, <2>1, InPageBounds
<1>7. c = once \/ c = again
  BY DEF InPage
<1>8. p = P - 1 /\ P > 1 => c = again
  <2>1. SUFFICES ASSUME p = P - 1, P > 1 PROVE c = again
    OBVIOUS
  <2>2. F[p + 1] = n
    <3> HIDE DEF F, n, P
    <3>1. p + 1 = P /\ F[p + 1] \in 1 .. n
      BY <1>1, <1>2, <2>1
    <3>2. ~ (F[p + 1] < n)
      BY <1>1, <1>2, <1>3, <3>1
    <3>3. QED BY <1>1, <3>1, <3>2
  <2>3. j > 0
    <3>1. F[p] \in p .. n /\ p > 0
      BY <1>1, <1>2, <1>4, <2>1
    <3>2. QED BY <3>1
  <2>4. CASE j + once = n
    BY <2>3, <2>4 DEF InPage
  <2>5. CASE j + once # n
    <3>1. c = once
      BY <2>5 DEF InPage
    <3> HIDE DEF F, n, j, c, once
    <3>2. j + c = n
      BY <1>1, <1>2, <2>2
    <3>3. QED BY <2>5, <3>1, <3>2
  <2>6. QED BY <2>4, <2>5
<1>9. Cardinality(ParagraphsForPage(s, font, p)) = c
  <2> DEFINE a == j
             b == F[p + 1] - 1
  <2>1. a \in Int /\ b \in Int /\ a <= b /\ b - a + 1 = c
    <3> HIDE DEF F, j, c
    <3>1. QED BY <1>1, <1>2
  <2>2. ParagraphsForPage(s, font, p) = a .. b
    BY <1>2
  <2> HIDE DEF a, b, c
  <2>3. Cardinality(a .. b) = IF a > b THEN 0 ELSE b - a + 1
    BY <2>1, FS_Interval
  <2>4. QED BY <2>1, <2>2, <2>3
<1>10. j \in 0 .. Len(s) /\ j < Len(s)
  BY <1>1, <1>2
<1>11. c # 1
  BY <1>9
<1>12. /\ once # 1 => HeightOf(s, font, j, once) < Area
       /\ again # 1 => HeightOf(s, font, j, again) < Area - Bar
  <2> HIDE DEF j
  <2>1. QED BY <1>5, <1>10, InPageFits
<1>13. HeightOf(s, font, j, c) \in Nat
  <2>1. c \in 0 .. Len(s) - j
    BY <1>1, <1>6
  <2> HIDE DEF j, c
  <2>2. QED BY <1>10, <2>1, HeightSteps
<1> HIDE DEF F, n, j, c, once, again
<1>14. /\ HeightOf(s, font, j, c) < Area
       /\ p = P - 1 /\ P > 1 => HeightOf(s, font, j, c) < Area - Bar
  <2>1. CASE c = once /\ c # again
    BY <1>8, <1>11, <1>12, <2>1
  <2>2. CASE c = again
    <3>1. HeightOf(s, font, j, c) < Area - Bar
      BY <1>11, <1>12, <2>2
    <3>2. QED BY <1>5, <1>13, <3>1
  <2>3. QED BY <1>7, <2>1, <2>2
<1>15. QED BY <1>2, <1>9, <1>14 DEF P

-----------------------------------------------------------------------------
(* The invariant.                                                          *)

\* The page on display is one of those counted for the note, and a paragraph is
\* added only where there is room for it.
DisplayInv ==
    /\ screen = "display" =>
          /\ nbPages = IF paragraphs = <<>> THEN 1 ELSE NbPagesForArray(paragraphs, smallFont)
          /\ currentPage \in 0 .. nbPages - 1
          /\ paragraphs # <<>> =>
                firstParagraphIndexInPage = FirstInPage(paragraphs, smallFont, currentPage)
    /\ screen = "newParagraph" => N < NbMaxParagraphs

\* What getNbPagesForArray counts, it counts for the note on display.
CountsTheNote ==
    /\ loop # "none" => screen = "display" /\ paragraphs # <<>>
    /\ screen = "display" /\ paragraphs # <<>> => content = paragraphs /\ small = smallFont

\* The loop on the pages is at the start of the page it is about to count.
AtPageStart ==
    /\ loop # "none" => counted <= NbPagesForArray(content, small) /\ i = Starts(content, small)[counted]
    /\ loop = "page" => counted < NbPagesForArray(content, small)

\* The loop in a page has added paragraphs that fit, and tries again with less
\* height the last page of several only.
PageFilling ==
    IF loop = "page"
    THEN /\ \A k \in 1 .. nbParagraphsInPage : HeightOf(content, small, i, k) < maxHeight
         /\ currentHeight = HeightOf(content, small, i, nbParagraphsInPage)
         /\ maxHeight # Area =>
               i > 0 /\ i + NbParagraphsInPage(content, small, i, Area) = Len(content)
    ELSE nbParagraphsInPage = 0

\* What was counted are the pages.
PagesAreCounted ==
    loop = "none" /\ content # <<>> => result = NbPagesForArray(content, small)

CountInv == CountsTheNote /\ AtPageStart /\ PageFilling /\ PagesAreCounted

PagesInv == TypeOK /\ Count!TypeOK /\ DisplayInv /\ CountInv

-----------------------------------------------------------------------------
(* The note on display.                                                    *)

LEMMA ContentsAreNotes ==
    ASSUME NEW s
    PROVE  s \in Contents <=> s \in Notes /\ Len(s) <= NbMaxParagraphs
<1>1. NbMaxParagraphs \in Nat
  BY DisplayPagesAssumption
<1>2. ASSUME s \in Contents PROVE s \in Notes /\ Len(s) <= NbMaxParagraphs
  <2>1. PICK n \in 0 .. NbMaxParagraphs : s \in [1 .. n -> Paragraphs]
    BY <1>2 DEF Contents
  <2>2. QED BY <1>1, <2>1 DEF Notes
<1>3. ASSUME s \in Notes, Len(s) <= NbMaxParagraphs PROVE s \in Contents
  <2>1. s \in [1 .. Len(s) -> Paragraphs] /\ Len(s) \in 0 .. NbMaxParagraphs
    BY <1>1, <1>3 DEF Notes
  <2> DEFINE n == Len(s)
  <2> HIDE DEF n
  <2>2. QED BY <2>1 DEF Contents, n
<1>4. QED BY <1>2, <1>3

\* The note is displayed on one of its pages, whatever was modified before.
LEMMA Displayed ==
    ASSUME TypeOK, NEW c \in Contents, Display(c)
    PROVE  /\ TypeOK' /\ DisplayInv'
           /\ screen' = "display" /\ paragraphs' \in Contents
           /\ paragraphs' # <<>> => paragraphs' = c /\ smallFont' = SmallFont(c)
<1> DEFINE s == Split(c)
           font == SmallFont(c)
           P == NbPagesForArray(s, font)
           k == KnownIndex(modifiedParagraphIndex, Len(s))
           p == PageForParagraphs(s, font, k)
<1>0. NbMaxParagraphs \in Nat \ {0}
  BY DisplayPagesAssumption
<1>1. s \in Contents /\ s \in Notes /\ Len(s) \in 0 .. NbMaxParagraphs /\ (s # <<>> => s = c)
  <2>1. <<>> \in Notes /\ Len(<<>>) = 0
    BY DEF Notes
  <2>2. <<>> \in Contents
    BY <1>0, <2>1, ContentsAreNotes
  <2>3. s \in Contents /\ (s # <<>> => s = c)
    BY <2>2 DEF Split
  <2>4. s \in Notes /\ Len(s) <= NbMaxParagraphs
    BY <2>3, ContentsAreNotes
  <2>5. Len(s) \in Nat
    BY <2>4 DEF Notes
  <2>6. QED BY <1>0, <2>3, <2>4, <2>5
<1>2. font \in BOOLEAN
  BY DEF SmallFont
<1>3. /\ paragraphs' = s /\ smallFont' = font
      /\ nbPages' = IF s = <<>> THEN 1 ELSE P
      /\ ShowPage(s, font, IF s = <<>> THEN 0 ELSE p)
  BY DEF Display
<1>4. screen' = "display"
  BY <1>3 DEF ShowPage
<1> HIDE DEF s, font
<1>5. CASE s = <<>>
  <2>1. /\ nbPages' = 1 /\ currentPage' = 0 /\ paragraphs' = <<>>
        /\ firstParagraphIndexInPage' = firstParagraphIndexInPage
        /\ modifiedParagraphIndex' = modifiedParagraphIndex
    BY <1>3, <1>5 DEF ShowPage
  <2>2. TypeOK'
    BY <1>0, <1>1, <1>2, <1>3, <1>4, <2>1 DEF TypeOK
  <2>3. DisplayInv'
    BY <1>4, <2>1 DEF DisplayInv
  <2>4. QED BY <1>1, <1>3, <1>4, <1>5, <2>2, <2>3
<1>6. CASE s # <<>>
  <2>1. k \in 0 .. Len(s) - 1
    <3>1. Len(s) \in Nat \ {0} /\ modifiedParagraphIndex \in Nat
      BY <1>1, <1>6 DEF Notes, TypeOK
    <3>2. QED BY <3>1 DEF KnownIndex
  <2>2. P \in 1 .. Len(s)
    BY <1>1, <1>2, <1>6, PagesCounted
  <2>3. p \in 0 .. P - 1
    <3> HIDE DEF k
    <3>1. QED BY <1>1, <1>2, <1>6, <2>1, PageFound
  <2>4. /\ nbPages' = P /\ currentPage' = p
        /\ firstParagraphIndexInPage' = FirstInPage(s, font, p)
        /\ modifiedParagraphIndex' = FirstInPage(s, font, p)
    BY <1>3, <1>6 DEF ShowPage
  <2> HIDE DEF p, P
  <2>5. FirstInPage(s, font, p) \in 0 .. Len(s) - 1
    <3>1. /\ FirstInPage(s, font, p) = Starts(s, font)[p]
          /\ Starts(s, font)[p] \in 0 .. Len(s) - 1
      BY <1>1, <1>2, <1>6, <2>3, PageIs DEF P
    <3>2. QED BY <3>1
  <2>6. TypeOK'
    <3>1. /\ P \in 1 .. NbMaxParagraphs /\ p \in 0 .. NbMaxParagraphs - 1
          /\ FirstInPage(s, font, p) \in 0 .. NbMaxParagraphs - 1
      BY <1>0, <1>1, <2>2, <2>3, <2>5
    <3>2. QED BY <1>1, <1>2, <1>3, <1>4, <2>4, <3>1 DEF TypeOK
  <2>7. DisplayInv'
    BY <1>3, <1>4, <1>6, <2>3, <2>4 DEF DisplayInv, P
  <2>8. QED BY <1>1, <1>3, <1>4, <2>6, <2>7 DEF font
<1>7. QED BY <1>5, <1>6

\* Every handler leaves a note that is displayed on one of its pages.
LEMMA DisplaysStep ==
    ASSUME TypeOK, DisplayInv, Displays
    PROVE  \E c \in Contents : Display(c)
<1>1. NbMaxParagraphs \in Nat \ {0} /\ paragraphs \in Contents
  BY DisplayPagesAssumption DEF TypeOK
<1>2. paragraphs \in Notes /\ Len(paragraphs) \in Nat /\ Len(paragraphs) <= NbMaxParagraphs
  <2>1. paragraphs \in Notes /\ Len(paragraphs) <= NbMaxParagraphs
    BY <1>1, ContentsAreNotes
  <2>2. QED BY <2>1 DEF Notes
<1>3. CASE \E c \in Contents : Open(c) \/ ConfirmRemoval(c)
  BY <1>3 DEF Open, ConfirmRemoval
<1>4. ASSUME NEW p \in Paragraphs, ConfirmNew(p) PROVE \E c \in Contents : Display(c)
  <2> DEFINE c == Append(paragraphs, p)
  <2>1. c \in Seq(Paragraphs) /\ Len(c) = Len(paragraphs) + 1
    BY <1>2 DEF Notes
  <2>2. Display(c) /\ Len(paragraphs) < NbMaxParagraphs
    BY <1>4 DEF ConfirmNew, DisplayInv, N
  <2> HIDE DEF c
  <2>3. c \in Contents
    BY <1>1, <1>2, <2>1, <2>2, ContentsAreNotes DEF Notes
  <2>4. QED BY <2>2, <2>3
<1>5. ASSUME NEW p \in Paragraphs, ConfirmModified(p) PROVE \E c \in Contents : Display(c)
  <2> DEFINE c == [paragraphs EXCEPT ![modifiedParagraphIndex + 1] = p]
  <2>1. c \in Contents
    <3>1. PICK n \in 0 .. NbMaxParagraphs : paragraphs \in [1 .. n -> Paragraphs]
      BY <1>1 DEF Contents
    <3>2. c \in [1 .. n -> Paragraphs]
      BY <3>1
    <3> HIDE DEF c
    <3>3. QED BY <3>2 DEF Contents
  <2>2. Display(c)
    BY <1>5 DEF ConfirmModified
  <2> HIDE DEF c
  <2>3. QED BY <2>1, <2>2
<1>6. CASE BackToDisplay
  BY <1>1, <1>6 DEF BackToDisplay
<1>7. QED BY <1>3, <1>4, <1>5, <1>6 DEF Displays

\* A touch on the page changes the page, or leaves it.
LEMMA TouchesStep ==
    ASSUME TypeOK, DisplayInv, Touches
    PROVE  /\ TypeOK' /\ DisplayInv'
           /\ UNCHANGED <<paragraphs, smallFont, nbPages>>
           /\ screen' = "display" => screen = "display"
<1>1. NbMaxParagraphs \in Nat \ {0} /\ paragraphs \in Contents /\ smallFont \in BOOLEAN
  BY DisplayPagesAssumption DEF TypeOK
<1>2. paragraphs \in Notes /\ Len(paragraphs) \in Nat /\ Len(paragraphs) <= NbMaxParagraphs
  <2>1. paragraphs \in Notes /\ Len(paragraphs) <= NbMaxParagraphs
    BY <1>1, ContentsAreNotes
  <2>2. QED BY <2>1 DEF Notes
<1>3. ASSUME paragraphs # <<>>, NEW p \in 0 .. NbPagesForArray(paragraphs, smallFont) - 1
      PROVE  /\ FirstInPage(paragraphs, smallFont, p) \in 0 .. NbMaxParagraphs - 1
             /\ p \in 0 .. NbMaxParagraphs - 1
             /\ ParagraphsForPage(paragraphs, smallFont, p) \subseteq 0 .. NbMaxParagraphs - 1
  <2> DEFINE F == Starts(paragraphs, smallFont)
  <2>1. /\ FirstInPage(paragraphs, smallFont, p) = F[p]
        /\ p + 1 \in 0 .. Len(paragraphs)
        /\ F[p] \in 0 .. Len(paragraphs) - 1
        /\ F[p + 1] \in 1 .. Len(paragraphs)
        /\ ParagraphsForPage(paragraphs, smallFont, p) = F[p] .. F[p + 1] - 1
    BY <1>1, <1>2, <1>3, PageIs
  <2>2. p \in Nat
    <3>1. NbPagesForArray(paragraphs, smallFont) \in 1 .. Len(paragraphs)
      BY <1>1, <1>2, <1>3, PagesCounted
    <3>2. QED BY <3>1
  <2> HIDE DEF F
  <2>3. QED BY <1>1, <1>2, <2>1, <2>2
<1>4. ASSUME NEW p \in 0 .. NbMaxParagraphs - 1, Navigate(p)
      PROVE  /\ TypeOK' /\ DisplayInv'
             /\ UNCHANGED <<paragraphs, smallFont, nbPages>>
             /\ screen' = "display" => screen = "display"
  <2>1. /\ screen = "display" /\ nbPages > 1 /\ p \in 0 .. nbPages - 1
        /\ ShowPage(paragraphs, smallFont, p)
        /\ paragraphs' = paragraphs /\ smallFont' = smallFont /\ nbPages' = nbPages
    BY <1>4 DEF Navigate
  <2>2. paragraphs # <<>> /\ nbPages = NbPagesForArray(paragraphs, smallFont)
    BY <2>1 DEF DisplayInv
  <2>3. /\ currentPage' = p /\ screen' = "display"
        /\ firstParagraphIndexInPage' = FirstInPage(paragraphs, smallFont, p)
        /\ modifiedParagraphIndex' = FirstInPage(paragraphs, smallFont, p)
    BY <2>1, <2>2 DEF ShowPage
  <2>4. FirstInPage(paragraphs, smallFont, p) \in 0 .. NbMaxParagraphs - 1
    BY <1>3, <2>1, <2>2
  <2>5. TypeOK'
    BY <2>1, <2>3, <2>4 DEF TypeOK
  <2>6. DisplayInv'
    BY <2>1, <2>2, <2>3 DEF DisplayInv
  <2>7. QED BY <2>1, <2>5, <2>6
<1>5. CASE TapToAdd
  BY <1>1, <1>2, <1>5 DEF TapToAdd, TypeOK, DisplayInv, N, layout
<1>6. CASE TouchParagraph
  <2>1. /\ screen = "display" /\ Len(paragraphs) > 0 /\ screen' = "paragraph"
        /\ modifiedParagraphIndex' \in ParagraphsForPage(paragraphs, smallFont, currentPage)
        /\ UNCHANGED <<paragraphs, layout>>
    BY <1>6 DEF TouchParagraph, N
  <2>2. paragraphs # <<>> /\ currentPage \in 0 .. NbPagesForArray(paragraphs, smallFont) - 1
    <3>1. paragraphs # <<>>
      BY <1>2, <2>1 DEF Notes
    <3>2. QED BY <2>1, <3>1 DEF DisplayInv
  <2>3. modifiedParagraphIndex' \in 0 .. NbMaxParagraphs - 1
    BY <1>3, <2>1, <2>2
  <2>4. QED BY <2>1, <2>3 DEF TypeOK, DisplayInv, layout
<1>7. CASE LeavePage
  BY <1>7 DEF LeavePage, TypeOK, DisplayInv, layout
<1>8. CASE Back
  BY <1>1, <1>8 DEF Back, TypeOK, DisplayInv, layout
<1>9. CASE Abandon
  BY <1>9 DEF Abandon, TypeOK, DisplayInv, layout
<1>10. QED BY <1>4, <1>5, <1>6, <1>7, <1>8, <1>9 DEF Touches

-----------------------------------------------------------------------------
(* The loops that count.                                                   *)

\* PageCount reads the same definitions.
LEMMA SameDefinitions ==
    /\ \A s : Count!SmallFont(s) = SmallFont(s)
    /\ \A p, font : Count!TextHeight(p, font) = TextHeight(p, font)
    /\ \A s, font : Count!NbPagesForArray(s, font) = NbPagesForArray(s, font)
    /\ Count!Contents = Contents
<1>1. \A s : Count!SmallFont(s) = SmallFont(s)
  BY DEF SmallFont, Count!SmallFont, ContentLength, Count!ContentLength, SumFunction,
         Count!SumFunction, SumFunctionOnSet, Count!SumFunctionOnSet,
         FoldFunctionOnSet, Count!FoldFunctionOnSet, MapThenFoldSet, Count!MapThenFoldSet
<1>2. \A p, font : Count!TextHeight(p, font) = TextHeight(p, font)
  BY DEF TextHeight, Count!TextHeight
<1>3. \A s, font : Count!NbPagesForArray(s, font) = NbPagesForArray(s, font)
  BY DEF NbPagesForArray, Count!NbPagesForArray, Starts, Count!Starts, InPage, Count!InPage,
         NbParagraphsInPage, Count!NbParagraphsInPage, Fitting, Count!Fitting,
         HeightOf, Count!HeightOf, TextHeight, Count!TextHeight, Cardinality, Count!Cardinality
<1>4. Count!Contents = Contents
  BY DEF Contents, Count!Contents
<1>5. QED BY <1>1, <1>2, <1>3, <1>4

\* What the loops read of the note they count.
LEMMA Counting ==
    ASSUME Count!TypeOK
    PROVE  /\ content \in Notes /\ small \in BOOLEAN /\ Len(content) \in Nat
           /\ Len(content) <= NbMaxParagraphs
           /\ i \in 0 .. Len(content) /\ counted \in 0 .. Len(content)
           /\ nbParagraphsInPage \in 0 .. Len(content) - i
           /\ maxHeight \in Nat
<1>1. content \in Contents
  BY SameDefinitions DEF Count!TypeOK
<1>2. content \in Notes /\ Len(content) <= NbMaxParagraphs
  BY <1>1, ContentsAreNotes
<1>3. Len(content) \in Nat
  BY <1>2 DEF Notes
<1>4. maxHeight \in Nat
  BY Heights DEF Count!TypeOK
<1>5. QED BY <1>2, <1>3, <1>4 DEF Count!TypeOK, Count!Remaining

\* The next height is that of one more paragraph.
LEMMA NextHeightIs ==
    ASSUME Count!TypeOK, PageFilling, loop = "page", nbParagraphsInPage < Len(content) - i
    PROVE  /\ Count!NextHeight = HeightOf(content, small, i, nbParagraphsInPage + 1)
           /\ nbParagraphsInPage + 1 \in 1 .. Len(content) - i
<1> DEFINE m == nbParagraphsInPage
           c == m + 1
<1>1. /\ content \in Notes /\ small \in BOOLEAN /\ i \in 0 .. Len(content)
      /\ Len(content) \in Nat /\ m \in 0 .. Len(content) - i
  BY Counting
<1>2. c \in 1 .. Len(content) - i /\ c - 1 = m /\ c > 0 /\ c \in 0 .. Len(content) - i
  BY <1>1
<1>3. currentHeight = HeightOf(content, small, i, m)
  BY DEF PageFilling
<1>4. Count!NextHeight = currentHeight + (IF m > 0 THEN Gap ELSE 0) + TextHeight(content[i + m + 1], small)
  BY SameDefinitions DEF Count!NextHeight
<1>5. i + m + 1 = i + c /\ (m > 0 <=> c > 1)
  BY <1>1
<1> HIDE DEF c
<1>6. HeightOf(content, small, i, c) =
          HeightOf(content, small, i, c - 1) + (IF c > 1 THEN Gap ELSE 0)
              + TextHeight(content[i + c], small)
  BY <1>1, <1>2, HeightSteps
<1>7. Count!NextHeight = HeightOf(content, small, i, c)
  <2>1. HeightOf(content, small, i, c - 1) = currentHeight
    BY <1>2, <1>3
  <2>2. content[i + m + 1] = content[i + c]
    BY <1>5
  <2> HIDE DEF m
  <2>3. QED BY <1>4, <1>5, <1>6, <2>1, <2>2
<1>8. QED BY <1>2, <1>7 DEF c

\* A full page has the paragraphs that getNbParagraphsInPage returns.
LEMMA FullPageIs ==
    ASSUME Count!TypeOK, PageFilling, Count!PageIsFull, i < Len(content)
    PROVE  Count!InThisPage = NbParagraphsInPage(content, small, i, maxHeight)
<1> DEFINE m == nbParagraphsInPage
           n == Len(content) - i
           fitting == Fitting(content, small, i, maxHeight)
           Height(k) == HeightOf(content, small, i, k)
<1>1. /\ content \in Notes /\ small \in BOOLEAN /\ i \in 0 .. Len(content)
      /\ Len(content) \in Nat /\ maxHeight \in Nat /\ m \in 0 .. n
  BY Counting
<1>2. n \in Nat
  BY <1>1
<1>3. loop = "page"
  BY DEF Count!PageIsFull
<1>4. /\ fitting \in 0 .. n
      /\ \A c \in 1 .. n : c <= fitting <=> \A k \in 1 .. c : Height(k) < maxHeight
  BY <1>1, FittingIs
<1>5. \A k \in 1 .. m : Height(k) < maxHeight
  BY <1>3 DEF PageFilling
<1>6. m < n => m + 1 \in 1 .. n /\ Height(m + 1) >= maxHeight
  <2>1. SUFFICES ASSUME m < n PROVE m + 1 \in 1 .. n /\ Height(m + 1) >= maxHeight
    OBVIOUS
  <2>2. Count!NextHeight >= maxHeight
    BY <2>1 DEF Count!PageIsFull, Count!Remaining
  <2>3. Count!NextHeight = Height(m + 1) /\ m + 1 \in 1 .. n
    BY <1>3, <2>1, NextHeightIs
  <2> HIDE DEF Height, m, n
  <2>4. QED BY <2>2, <2>3
<1>7. \A k \in 0 .. n : Height(k) \in Nat
  BY <1>1, HeightSteps
<1> HIDE DEF m, n, fitting, Height
<1>8. fitting = m
  <2>1. m <= fitting
    <3>1. CASE m = 0
      BY <1>4, <3>1
    <3>2. CASE m > 0
      <4>1. m \in 1 .. n
        BY <1>1, <1>2, <3>2
      <4>2. QED BY <1>4, <1>5, <4>1
    <3>3. QED BY <1>1, <3>1, <3>2
  <2>2. CASE m < n
    <3>1. m + 1 \in 1 .. m + 1
      BY <1>1
    <3>2. Height(m + 1) \in Nat
      BY <1>2, <1>6, <1>7, <2>2
    <3>3. ~ (Height(m + 1) < maxHeight)
      BY <1>1, <1>6, <2>2, <3>2
    <3>4. ~ (m + 1 <= fitting)
      BY <1>4, <1>6, <2>2, <3>1, <3>3
    <3>5. QED BY <1>1, <1>4, <2>1, <3>4
  <2>3. CASE m = n
    BY <1>1, <1>2, <1>4, <2>1, <2>3
  <2>4. QED BY <1>1, <1>2, <2>2, <2>3
<1>9. Count!InThisPage = IF m = 0 THEN 1 ELSE m
  BY DEF Count!InThisPage, m
<1>10. QED BY <1>8, <1>9 DEF NbParagraphsInPage, fitting

\* Where the loop on the pages is.
LEMMA LoopIsAt ==
    ASSUME Count!TypeOK, CountsTheNote, AtPageStart, loop # "none"
    PROVE  /\ content # <<>>
           /\ NbPagesForArray(content, small) \in 1 .. Len(content)
           /\ i < Len(content) <=> counted < NbPagesForArray(content, small)
           /\ counted > 0 <=> i > 0
<1> DEFINE F == Starts(content, small)
           P == NbPagesForArray(content, small)
<1>1. /\ content \in Notes /\ small \in BOOLEAN /\ i \in 0 .. Len(content)
      /\ Len(content) \in Nat /\ counted \in 0 .. Len(content)
  BY Counting
<1>2. content # <<>>
  BY DEF CountsTheNote
<1>3. P \in 1 .. Len(content) /\ \A p \in 0 .. Len(content) : F[p] < Len(content) <=> p < P
  BY <1>1, <1>2, PagesCounted
<1>4. F[0] = 0 /\ \A p \in 0 .. Len(content) : F[p] \in p .. Len(content)
  BY <1>1, StartsSteps
<1>5. i = F[counted]
  BY DEF AtPageStart
<1> HIDE DEF F, P
<1>6. i < Len(content) <=> counted < P
  BY <1>1, <1>3, <1>5
<1>7. i \in counted .. Len(content) /\ (counted = 0 => i = 0)
  BY <1>1, <1>4, <1>5
<1>8. QED BY <1>1, <1>2, <1>3, <1>6, <1>7 DEF P

LEMMA IterateStep ==
    ASSUME Count!TypeOK, CountInv, Iterate
    PROVE  Count!TypeOK' /\ CountInv'
<1> DEFINE P == NbPagesForArray(content, small)
           F == Starts(content, small)
<1> USE DEF CountInv
<1>1. /\ content \in Notes /\ small \in BOOLEAN /\ Len(content) \in Nat
      /\ Len(content) <= NbMaxParagraphs
      /\ i \in 0 .. Len(content) /\ counted \in 0 .. Len(content)
      /\ nbParagraphsInPage \in 0 .. Len(content) - i
      /\ maxHeight \in Nat /\ NbMaxParagraphs \in Nat
  BY Counting, DisplayPagesAssumption
<1>2. loop # "none"
  BY DEF Iterate, Count!Step, Count!Return, Count!StartPage, Count!AddParagraph,
         Count!TryAgain, Count!EndPage, Count!PageIsFull
<1>3. /\ content # <<>> /\ P \in 1 .. Len(content) /\ (i < Len(content) <=> counted < P)
      /\ counted > 0 <=> i > 0
  BY <1>2, LoopIsAt
<1>4. UNCHANGED <<paragraphs, screen, smallFont>>
  BY DEF Iterate, vars, layout
<1>5. screen = "display" /\ paragraphs # <<>> /\ content = paragraphs /\ small = smallFont
  BY <1>2 DEF CountsTheNote
<1>6. counted <= P /\ i = F[counted] /\ (loop = "page" => counted < P)
  BY <1>2 DEF AtPageStart
<1>7. Area \in Nat /\ Area - Bar \in Nat /\ Margin \in Nat /\ Gap \in Nat /\ Area - Bar # Area
  BY Heights
<1>8. HeightOf(content, small, i, 0) = Margin
  <2>1. 0 \in 0 .. Len(content) - i
    BY <1>1
  <2>2. QED BY <1>1, <2>1, HeightSteps
<1> HIDE DEF P, F
<1>9. CASE Count!Return
  <2>1. /\ loop = "pages" /\ i = Len(content) /\ loop' = "none" /\ result' = counted
        /\ UNCHANGED <<content, small, i, counted, maxHeight, nbParagraphsInPage, currentHeight>>
    BY <1>1, <1>9 DEF Count!Return, Count!Remaining, Count!counting, Count!filling
  <2>2. counted = P
    BY <1>1, <1>3, <1>6, <2>1
  <2>3. Count!TypeOK'
    BY <1>1, <2>1 DEF Count!TypeOK, Count!Remaining, Count!Contents
  <2>4. CountInv'
    BY <1>4, <1>5, <2>1, <2>2 DEF CountsTheNote, AtPageStart, PageFilling, PagesAreCounted, P
  <2>5. QED BY <2>3, <2>4
<1>10. ASSUME NEW max \in {Area, Area - Bar}, Count!FillPage(max), i < Len(content),
              max # Area => i > 0 /\ i + NbParagraphsInPage(content, small, i, Area) = Len(content)
       PROVE  Count!TypeOK' /\ CountInv'
  <2>1. /\ loop' = "page" /\ maxHeight' = max /\ nbParagraphsInPage' = 0
        /\ currentHeight' = Margin
        /\ UNCHANGED <<content, small, i, counted, result>>
    BY <1>10 DEF Count!FillPage, Count!counting
  <2>2. counted < P
    BY <1>3, <1>10
  <2>3. Count!TypeOK'
    BY <1>1, <1>7, <2>1 DEF Count!TypeOK, Count!Remaining, Count!Contents
  <2>4. CountsTheNote' /\ PagesAreCounted'
    BY <1>4, <1>5, <2>1 DEF CountsTheNote, PagesAreCounted
  <2>5. AtPageStart'
    BY <1>6, <2>1, <2>2 DEF AtPageStart, P, F
  <2>6. PageFilling'
    <3>1. \A k \in 1 .. nbParagraphsInPage' : FALSE
      BY <2>1
    <3>2. currentHeight' = HeightOf(content, small, i, 0)
      BY <1>8, <2>1
    <3>3. QED BY <1>10, <2>1, <3>1, <3>2 DEF PageFilling
  <2>7. QED BY <2>3, <2>4, <2>5, <2>6
<1>11. CASE Count!StartPage
  <2>1. Count!FillPage(Area) /\ i < Len(content)
    BY <1>1, <1>11 DEF Count!StartPage, Count!Remaining
  <2>2. QED BY <1>10, <2>1
<1>12. CASE Count!TryAgain
  <2>1. /\ Count!PageIsFull /\ Count!FillPage(Area - Bar) /\ loop = "page"
        /\ counted > 0 /\ Len(content) - i = Count!InThisPage /\ maxHeight = Area
    BY <1>12 DEF Count!TryAgain, Count!IsToTryAgain, Count!Remaining, Count!PageIsFull
  <2>2. i < Len(content) /\ i > 0
    BY <1>3, <1>6, <2>1
  <2>3. Len(content) - i = NbParagraphsInPage(content, small, i, Area)
    BY <2>1, <2>2, FullPageIs
  <2>4. i + NbParagraphsInPage(content, small, i, Area) = Len(content)
    BY <1>1, <2>3
  <2>5. QED BY <1>10, <2>1, <2>2, <2>4
<1>13. CASE Count!AddParagraph
  <2> DEFINE m == nbParagraphsInPage
  <2>1. /\ loop = "page" /\ m < Len(content) - i /\ Count!NextHeight < maxHeight
        /\ currentHeight' = Count!NextHeight /\ nbParagraphsInPage' = m + 1
        /\ UNCHANGED <<loop, content, small, i, counted, maxHeight, result>>
    BY <1>13 DEF Count!AddParagraph, Count!Remaining, Count!counting
  <2>2. Count!NextHeight = HeightOf(content, small, i, m + 1) /\ m + 1 \in 1 .. Len(content) - i
    BY <2>1, NextHeightIs
  <2>3. HeightOf(content, small, i, m + 1) \in Nat
    <3> DEFINE c == m + 1
    <3>1. c \in 0 .. Len(content) - i
      BY <2>2
    <3> HIDE DEF c
    <3>2. HeightOf(content, small, i, c) \in Nat
      BY <1>1, <3>1, HeightSteps
    <3>3. QED BY <3>2 DEF c
  <2>4. Count!TypeOK'
    BY <1>1, <2>1, <2>2, <2>3 DEF Count!TypeOK, Count!Remaining, Count!Contents
  <2>5. CountsTheNote' /\ PagesAreCounted' /\ AtPageStart'
    BY <1>4, <1>5, <1>6, <2>1 DEF CountsTheNote, PagesAreCounted, AtPageStart, P, F
  <2>6. PageFilling'
    <3>1. ASSUME NEW k \in 1 .. m + 1 PROVE HeightOf(content, small, i, k) < maxHeight
      <4>1. CASE k \in 1 .. m
        BY <2>1, <4>1 DEF PageFilling
      <4>2. CASE k = m + 1
        BY <2>1, <2>2, <4>2
      <4>3. QED BY <1>1, <4>1, <4>2
    <3>2. maxHeight # Area =>
              i > 0 /\ i + NbParagraphsInPage(content, small, i, Area) = Len(content)
      BY <2>1 DEF PageFilling
    <3>3. currentHeight' = HeightOf(content, small, i, m + 1)
      BY <2>1, <2>2
    <3>4. QED BY <2>1, <3>1, <3>2, <3>3 DEF PageFilling
  <2>7. QED BY <2>4, <2>5, <2>6
<1>14. CASE Count!EndPage
  <2> DEFINE c == Count!InThisPage
  <2>1. /\ Count!PageIsFull /\ loop = "page" /\ ~ Count!IsToTryAgain
        /\ loop' = "pages" /\ i' = i + c /\ counted' = counted + 1
        /\ maxHeight' = Area /\ nbParagraphsInPage' = 0 /\ currentHeight' = 0
        /\ UNCHANGED <<content, small, result>>
    BY <1>14 DEF Count!EndPage, Count!PageIsFull
  <2>2. i < Len(content) /\ counted < P /\ i < Len(content)
    BY <1>3, <1>6, <2>1
  <2>3. c = NbParagraphsInPage(content, small, i, maxHeight)
    BY <2>1, <2>2, FullPageIs
  <2>4. c = InPage(content, small, i)
    <3>1. CASE maxHeight = Area
      <4>1. ~ (counted > 0 /\ Len(content) - i = c)
        BY <2>1, <3>1 DEF Count!IsToTryAgain, Count!Remaining
      <4>2. c \in 1 .. Len(content) - i
        BY <1>1, <1>7, <2>2, <2>3, <3>1, InPageBounds
      <4>3. ~ (i > 0 /\ i + c = Len(content))
        BY <1>1, <1>3, <4>1, <4>2
      <4> HIDE DEF c
      <4>4. QED BY <2>3, <3>1, <4>3 DEF InPage
    <3>2. CASE maxHeight # Area
      <4>1. i > 0 /\ i + NbParagraphsInPage(content, small, i, Area) = Len(content)
        BY <2>1, <3>2 DEF PageFilling
      <4>2. maxHeight = Area - Bar
        BY <3>2 DEF Count!TypeOK
      <4> HIDE DEF c
      <4>3. QED BY <2>3, <4>1, <4>2 DEF InPage
    <3>3. QED BY <3>1, <3>2
  <2>5. counted + 1 <= P /\ i' = F[counted + 1] /\ i' \in 0 .. Len(content)
    <3>1. counted \in 0 .. P - 1
      BY <1>1, <1>3, <2>2
    <3>2. /\ InPage(content, small, F[counted]) = F[counted + 1] - F[counted]
          /\ F[counted] \in 0 .. Len(content) - 1
          /\ F[counted + 1] \in 1 .. Len(content)
      BY <1>1, <1>3, <3>1, PageIs DEF P, F
    <3> HIDE DEF c
    <3>3. c = F[counted + 1] - F[counted]
      BY <1>6, <2>4, <3>2
    <3>4. i' = F[counted + 1]
      BY <1>6, <2>1, <3>2, <3>3
    <3>5. i' \in 0 .. Len(content)
      BY <1>1, <3>2, <3>4
    <3>6. counted + 1 <= P
      BY <1>1, <1>3, <3>1
    <3>7. QED BY <3>4, <3>5, <3>6
  <2>6. Count!TypeOK'
    <3>1. counted' \in 0 .. Len(content) /\ Len(content) - i' \in Nat
      BY <1>1, <1>3, <2>1, <2>5
    <3>2. QED BY <1>1, <1>7, <2>1, <2>5, <3>1 DEF Count!TypeOK, Count!Remaining, Count!Contents
  <2>7. CountInv'
    BY <1>4, <1>5, <2>1, <2>5 DEF CountsTheNote, PagesAreCounted, AtPageStart, PageFilling, P, F
  <2>8. QED BY <2>6, <2>7
<1>15. QED BY <1>9, <1>11, <1>12, <1>13, <1>14 DEF Iterate, Count!Step

\* The loops are called for the note that is displayed.
LEMMA DisplayAndCountStep ==
    ASSUME TypeOK, DisplayInv, Count!TypeOK, CountInv, DisplayAndCount
    PROVE  TypeOK' /\ DisplayInv' /\ Count!TypeOK' /\ CountInv'
<1>1. loop = "none" /\ Displays
  BY DEF DisplayAndCount
<1>2. PICK c \in Contents : Display(c)
  BY <1>1, DisplaysStep
<1>3. /\ TypeOK' /\ DisplayInv'
      /\ screen' = "display" /\ paragraphs' \in Contents
      /\ paragraphs' # <<>> => paragraphs' = c /\ smallFont' = SmallFont(c)
  BY <1>2, Displayed
<1>4. CASE paragraphs' = <<>>
  <2>1. UNCHANGED countVars
    BY <1>4 DEF DisplayAndCount
  <2>2. Count!TypeOK'
    BY <2>1 DEF countVars, Count!TypeOK, Count!Remaining, Count!Contents
  <2>3. CountInv'
    BY <1>1, <1>4, <2>1 DEF CountInv, countVars, CountsTheNote, AtPageStart, PageFilling,
                            PagesAreCounted
  <2>4. QED BY <1>3, <2>2, <2>3
<1>5. CASE paragraphs' # <<>>
  <2> DEFINE s == paragraphs'
  <2>1. /\ loop' = "pages" /\ content' = s /\ small' = SmallFont(s)
        /\ i' = 0 /\ counted' = 0 /\ result' = 0
        /\ UNCHANGED <<maxHeight, nbParagraphsInPage, currentHeight>>
    BY <1>5, SameDefinitions DEF DisplayAndCount, Count!Call, Count!filling
  <2>2. nbParagraphsInPage = 0
    BY <1>1 DEF CountInv, PageFilling
  <2>3. s \in Notes /\ Len(s) \in Nat /\ NbMaxParagraphs \in Nat
    <3>1. s \in Notes
      BY <1>3, ContentsAreNotes
    <3>2. QED BY <3>1, DisplayPagesAssumption DEF Notes
  <2>4. small' \in BOOLEAN
    BY <2>1 DEF SmallFont
  <2>5. s \in Count!Contents
    BY <1>3, SameDefinitions
  <2> HIDE DEF s
  <2>6. Count!TypeOK'
    <3>1. 0 \in 0 .. Len(s) /\ 0 \in 0 .. Len(s) - 0 /\ 0 \in 0 .. NbMaxParagraphs
      BY <2>3
    <3>2. s \in Count!Contents'
      BY <2>5 DEF Count!Contents
    <3>3. QED BY <2>1, <2>2, <2>4, <3>1, <3>2 DEF Count!TypeOK, Count!Remaining
  <2>7. CountsTheNote' /\ PagesAreCounted' /\ PageFilling'
    BY <1>3, <1>5, <2>1, <2>2 DEF CountsTheNote, PagesAreCounted, PageFilling, s
  <2>8. AtPageStart'
    <3>1. NbPagesForArray(s, small') \in 1 .. Len(s) /\ Starts(s, small')[0] = 0
      BY <1>5, <2>3, <2>4, PagesCounted, StartsSteps DEF s
    <3>2. 0 <= NbPagesForArray(s, small')
      BY <2>3, <3>1
    <3>3. QED BY <2>1, <3>1, <3>2 DEF AtPageStart
  <2>9. QED BY <1>3, <2>6, <2>7, <2>8 DEF CountInv
<1>6. QED BY <1>4, <1>5

-----------------------------------------------------------------------------
(* The theorems.                                                           *)

LEMMA PagesInvHolds == PagesSpec => []PagesInv
<1>1. PagesInit => PagesInv
  <2> SUFFICES ASSUME PagesInit PROVE PagesInv
    OBVIOUS
  <2>1. <<>> \in Contents /\ Len(<<>>) = 0 /\ NbMaxParagraphs \in Nat \ {0}
    <3>1. <<>> \in Notes /\ Len(<<>>) = 0 /\ NbMaxParagraphs \in Nat \ {0}
      BY DisplayPagesAssumption DEF Notes
    <3>2. QED BY <3>1, ContentsAreNotes
  <2>2. /\ 0 \in 0 .. NbMaxParagraphs /\ 0 \in 0 .. NbMaxParagraphs - 1
        /\ 1 \in 1 .. NbMaxParagraphs /\ 0 \in 0 .. 0 /\ 0 - 0 = 0 /\ 0 \in Nat
    BY <2>1
  <2>3. TypeOK /\ DisplayInv
    BY <2>1, <2>2, Zenon DEF PagesInit, Init, TypeOK, DisplayInv
  <2>4. Count!TypeOK
    <3>1. /\ loop = "none" /\ content = <<>> /\ small = FALSE /\ i = 0 /\ counted = 0
          /\ maxHeight = Area /\ nbParagraphsInPage = 0 /\ currentHeight = 0 /\ result = 0
      BY DEF PagesInit, Count!Init
    <3>2. Count!Remaining = 0
      BY <2>1, <2>2, <3>1 DEF Count!Remaining
    <3>3. QED BY <2>1, <2>2, <3>1, <3>2, SameDefinitions DEF Count!TypeOK
  <2>5. CountInv
    BY DEF PagesInit, Init, Count!Init, CountInv, CountsTheNote, AtPageStart, PageFilling,
           PagesAreCounted
  <2>6. QED BY <2>3, <2>4, <2>5 DEF PagesInv
<1>2. PagesInv /\ [PagesNext]_pagesVars => PagesInv'
  <2> SUFFICES ASSUME PagesInv, [PagesNext]_pagesVars PROVE PagesInv'
    OBVIOUS
  <2>0. TypeOK /\ Count!TypeOK /\ DisplayInv /\ CountInv
    BY DEF PagesInv
  <2>1. CASE DisplayAndCount
    BY <2>0, <2>1, DisplayAndCountStep DEF PagesInv
  <2>2. CASE TouchPage
    <3>1. loop = "none" /\ Touches /\ UNCHANGED countVars
      BY <2>2 DEF TouchPage
    <3>2. /\ TypeOK' /\ DisplayInv' /\ UNCHANGED <<paragraphs, smallFont, nbPages>>
          /\ screen' = "display" => screen = "display"
      BY <2>0, <3>1, TouchesStep
    <3>3. Count!TypeOK'
      BY <2>0, <3>1 DEF countVars, Count!TypeOK, Count!Remaining, Count!Contents
    <3>4. CountInv'
      BY <2>0, <3>1, <3>2 DEF CountInv, countVars, CountsTheNote, AtPageStart, PageFilling,
                              PagesAreCounted
    <3>5. QED BY <3>2, <3>3, <3>4 DEF PagesInv
  <2>3. CASE Iterate
    <3>1. Count!TypeOK' /\ CountInv'
      BY <2>0, <2>3, IterateStep
    <3>2. UNCHANGED vars
      BY <2>3 DEF Iterate
    <3>3. TypeOK' /\ DisplayInv'
      BY <2>0, <3>2 DEF vars, layout, TypeOK, DisplayInv, N, Contents
    <3>4. QED BY <3>1, <3>3 DEF PagesInv
  <2>4. CASE UNCHANGED pagesVars
    <3>1. TypeOK' /\ DisplayInv'
      BY <2>0, <2>4 DEF pagesVars, vars, layout, TypeOK, DisplayInv, N, Contents
    <3>2. Count!TypeOK'
      BY <2>0, <2>4 DEF pagesVars, countVars, Count!TypeOK, Count!Remaining, Count!Contents
    <3>3. CountInv'
      BY <2>0, <2>4 DEF pagesVars, vars, layout, countVars, CountInv, CountsTheNote, AtPageStart,
                        PageFilling, PagesAreCounted
    <3>4. QED BY <3>1, <3>2, <3>3 DEF PagesInv
  <2>5. QED BY <2>1, <2>2, <2>3, <2>4 DEF PagesNext
<1>3. QED BY <1>1, <1>2, PTL DEF PagesSpec

\* Every index of the display and of the loops stays in its range: whatever the
\* heights are, no loop runs past the paragraphs of the note.
THEOREM PagesTypeCorrect == PagesSpec => []PagesTypeOK
<1>1. PagesInv => PagesTypeOK
  BY DEF PagesInv, PagesTypeOK
<1>2. QED BY <1>1, PagesInvHolds, PTL

\* Whatever was edited, removed or opened before, the page on display is one of
\* those counted for the note, and starts at one of its paragraphs.
THEOREM PageIsOfTheNote == PagesSpec => []CurrentPageExists
<1>1. PagesInv => CurrentPageExists
  <2> SUFFICES ASSUME PagesInv, screen = "display"
               PROVE  /\ currentPage < nbPages
                      /\ N > 0 => firstParagraphIndexInPage \in Shown /\ Shown \subseteq 0 .. N - 1
    BY DEF CurrentPageExists
  <2>0. TypeOK /\ DisplayInv
    BY DEF PagesInv
  <2>1. currentPage < nbPages
    BY <2>0 DEF DisplayInv, TypeOK
  <2>2. ASSUME N > 0 PROVE firstParagraphIndexInPage \in Shown /\ Shown \subseteq 0 .. N - 1
    <3>1. paragraphs \in Notes /\ smallFont \in BOOLEAN
      BY <2>0, ContentsAreNotes DEF TypeOK
    <3>2. Len(paragraphs) \in Nat /\ paragraphs # <<>>
      BY <2>2, <3>1 DEF N, Notes
    <3>3. /\ currentPage \in 0 .. NbPagesForArray(paragraphs, smallFont) - 1
          /\ firstParagraphIndexInPage = FirstInPage(paragraphs, smallFont, currentPage)
      BY <2>0, <3>2 DEF DisplayInv
    <3> DEFINE F == Starts(paragraphs, smallFont)
    <3>4. /\ FirstInPage(paragraphs, smallFont, currentPage) = F[currentPage]
          /\ F[currentPage] \in 0 .. Len(paragraphs) - 1
          /\ F[currentPage + 1] \in 1 .. Len(paragraphs)
          /\ F[currentPage] < F[currentPage + 1]
          /\ Shown = F[currentPage] .. F[currentPage + 1] - 1
      BY <3>1, <3>2, <3>3, PageIs DEF Shown
    <3> HIDE DEF F
    <3>5. QED BY <3>2, <3>3, <3>4 DEF N
  <2>3. QED BY <2>1, <2>2
<1>2. QED BY <1>1, PagesInvHolds, PTL

\* Each paragraph of the note is on one of the pages offered, and those of the
\* page on display end above the bars drawn under them.
THEOREM ParagraphsAreShown == PagesSpec => []ParagraphsHaveTheirPage
<1>1. PagesInv => ParagraphsHaveTheirPage
  <2> SUFFICES ASSUME PagesInv, screen = "display" PROVE EveryParagraphHasItsPage /\ PageFits
    BY DEF ParagraphsHaveTheirPage, EveryParagraphHasItsPage, PageFits
  <2>0. TypeOK /\ DisplayInv
    BY DEF PagesInv
  <2>1. paragraphs \in Notes /\ smallFont \in BOOLEAN /\ Len(paragraphs) \in Nat
    <3>1. paragraphs \in Notes /\ smallFont \in BOOLEAN
      BY <2>0, ContentsAreNotes DEF TypeOK
    <3>2. QED BY <3>1 DEF Notes
  <2>2. EveryParagraphHasItsPage
    <3>1. ASSUME NEW k \in 0 .. N - 1
          PROVE  Cardinality({p \in 0 .. nbPages - 1 :
                                 k \in ParagraphsForPage(paragraphs, smallFont, p)}) = 1
      <4>1. paragraphs # <<>> /\ k \in 0 .. Len(paragraphs) - 1
        BY <2>1, <3>1 DEF N
      <4>2. nbPages = NbPagesForArray(paragraphs, smallFont)
        BY <2>0, <4>1 DEF DisplayInv
      <4>3. QED BY <2>1, <4>1, <4>2, OnePageEach
    <3>2. QED BY <3>1 DEF EveryParagraphHasItsPage
  <2>3. PageFits
    <3> DEFINE c == Cardinality(Shown)
               height == HeightOf(paragraphs, smallFont, firstParagraphIndexInPage, c)
               navigation == IF nbPages > 1 THEN Bar ELSE 0
               tap == IF OnLastPage THEN Bar ELSE 0
    <3>1. SUFFICES ASSUME N > 0, c # 1 PROVE height < Area + Bar - navigation - tap
      BY DEF PageFits
    <3>2. paragraphs # <<>>
      BY <2>1, <3>1 DEF N
    <3>3. /\ nbPages = NbPagesForArray(paragraphs, smallFont)
          /\ currentPage \in 0 .. nbPages - 1
          /\ firstParagraphIndexInPage = FirstInPage(paragraphs, smallFont, currentPage)
      BY <2>0, <3>2 DEF DisplayInv
    <3>4. height < IF nbPages > 1 /\ currentPage = nbPages - 1 THEN Area - Bar ELSE Area
      BY <2>1, <3>1, <3>2, <3>3, PageHeight DEF Shown
    <3>5. Area \in Nat /\ Bar \in Nat /\ nbPages \in Nat /\ currentPage \in Nat
      BY <2>0, Heights, DisplayPagesAssumption DEF TypeOK
    <3>6. Area + Bar - navigation - tap
              = IF nbPages > 1 /\ currentPage = nbPages - 1 THEN Area - Bar ELSE Area
      BY <3>3, <3>5 DEF OnLastPage
    <3> HIDE DEF height, navigation, tap
    <3>7. QED BY <3>4, <3>6
  <2>4. QED BY <2>2, <2>3
<1>2. QED BY <1>1, PagesInvHolds, PTL

\* What the loops have counted, when the page is there to be touched, is the
\* number of pages that getParagraphsForPage cuts, and of those on display.
THEOREM CountCorrect == PagesSpec => []CountIsShown
<1>1. PagesInv => CountIsShown
  <2> SUFFICES ASSUME PagesInv, loop = "none", screen = "display", paragraphs # <<>>
               PROVE  result = nbPages /\ Count!CountIsThePages
    BY DEF CountIsShown
  <2>1. content = paragraphs /\ small = smallFont
    BY DEF PagesInv, CountInv, CountsTheNote
  <2>2. result = NbPagesForArray(content, small)
    BY <2>1 DEF PagesInv, CountInv, PagesAreCounted
  <2>3. nbPages = NbPagesForArray(paragraphs, smallFont)
    BY DEF PagesInv, DisplayInv
  <2>4. Count!CountIsThePages
    BY <2>2, SameDefinitions DEF Count!CountIsThePages
  <2>5. QED BY <2>1, <2>2, <2>3, <2>4
<1>2. QED BY <1>1, PagesInvHolds, PTL

=============================================================================
