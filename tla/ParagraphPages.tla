--------------------------- MODULE ParagraphPages ---------------------------
(***************************************************************************)
(* How the paragraphs of a note are cut into pages (app_notes_display.c).  *)
(* A paragraph is what the cutting reads of it: its length, and its height *)
(* on the screen in each font.  A page is known by its first paragraph;    *)
(* paragraphs are counted from 0, as in the code.                          *)
(***************************************************************************)
EXTENDS Naturals, Sequences, FiniteSets, Functions

CONSTANTS
    Paragraphs,    \* paragraphs a user or a host may write
    NoParagraph,   \* the paragraph of no character
    Margin, Gap,   \* above the first paragraph, between two of them
    Area,          \* CONTENT_AREA_HEIGHT: the screen, less its header and one bar
    Bar,           \* SIMPLE_FOOTER_HEIGHT: the navigation or the "Tap" bar
    SmallFrom      \* a content longer than this is in the small font

ASSUME PagesAssumption ==
    /\ \A p \in Paragraphs : p.length \in Nat /\ p.large \in Nat /\ p.small \in Nat
    /\ NoParagraph \in Paragraphs
    /\ \A p \in Paragraphs : p.length = 0 <=> p = NoParagraph
    /\ Margin \in Nat /\ Gap \in Nat /\ Area \in Nat /\ SmallFrom \in Nat
    /\ Bar \in 1 .. Area

\* strlen of the content: the paragraphs and the line breaks between them.
ContentLength(s) ==
    SumFunction([k \in DOMAIN s |-> s[k].length]) + (IF s = <<>> THEN 0 ELSE Len(s) - 1)

SmallFont(s) == ContentLength(s) > SmallFrom

\* nbgl_getTextHeightInWidth
TextHeight(p, small) == IF small THEN p.small ELSE p.large

\* The height of the c paragraphs from the index i on.
HeightOf(s, small, i, c) ==
    LET height[k \in 0 .. c] ==
            IF k = 0 THEN Margin
            ELSE height[k - 1] + (IF k > 1 THEN Gap ELSE 0) + TextHeight(s[i + k], small)
    IN  height[c]

\* How many paragraphs from i on stay below max.
Fitting(s, small, i, max) ==
    Cardinality({c \in 1 .. Len(s) - i :
                    \A k \in 1 .. c : HeightOf(s, small, i, k) < max})

\* getNbParagraphsInPage: a paragraph that is too long to fit has its own page.
NbParagraphsInPage(s, small, i, max) ==
    LET n == Fitting(s, small, i, max) IN IF n = 0 THEN 1 ELSE n

\* Mutant: the last page is not tried again.
InPageOnce(s, small, i) == NbParagraphsInPage(s, small, i, Area)

\* The last page, when it is not the only one, has both bars: it is tried again.
InPage(s, small, i) ==
    LET once == NbParagraphsInPage(s, small, i, Area)
    IN  IF i > 0 /\ i + once = Len(s) THEN NbParagraphsInPage(s, small, i, Area - Bar) ELSE once

\* Where each page starts: at Len(s) and after, there is no page.
Starts(s, small) ==
    LET start[p \in 0 .. Len(s)] ==
            IF p = 0 THEN 0
            ELSE LET from == start[p - 1]
                 IN  IF from >= Len(s) THEN Len(s) ELSE from + InPage(s, small, from)
    IN  start

\* getNbPagesForArray
NbPagesForArray(s, small) ==
    LET start == Starts(s, small) IN Cardinality({p \in DOMAIN start : start[p] < Len(s)})

\* getParagraphsForPage: the first paragraph of a page, and how many it has.
FirstInPage(s, small, p) == Starts(s, small)[p]
ParagraphsForPage(s, small, p) ==
    LET first == FirstInPage(s, small, p) IN first .. first + InPage(s, small, first) - 1

\* getPageForParagraphs: the loop does not try the last page again, and ends at
\* the first page whose end is at the index k or after it.
PageForParagraphs(s, small, k) ==
    LET end[p \in 0 .. Len(s)] ==
            LET from == IF p = 0 THEN 0 ELSE end[p - 1]
            IN  IF from >= Len(s) THEN Len(s)
                ELSE from + NbParagraphsInPage(s, small, from, Area)
        done(p) == end[p] >= k \/ (p > 0 /\ end[p - 1] >= Len(s))
    IN  CHOOSE p \in 0 .. Len(s) : done(p) /\ \A q \in 0 .. p - 1 : ~done(q)

=============================================================================
