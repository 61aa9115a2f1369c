------------------------------ MODULE BarPages ------------------------------
(***************************************************************************)
(* The cutting of a list of touchable bars into pages.  The functions are  *)
(* those of app_notes_list.c; app_notes_share.c has them again, under its  *)
(* own names, for the contacts.  Bars have one height.                     *)
(***************************************************************************)
EXTENDS Naturals, FiniteSets

CONSTANTS
    Area,          \* CONTENT_AREA_HEIGHT: the screen, less its header
    Footer,        \* SIMPLE_FOOTER_HEIGHT: the navigation bar
    Bar            \* TOUCHABLE_BAR_HEIGHT

\* A page with the navigation bar has room for a bar: the loops end.
ASSUME BarAssumption ==
    /\ Area \in Nat /\ Footer \in Nat /\ Bar \in Nat \ {0}
    /\ Footer + Bar < Area

\* getNbNotesInPage
NbNotesInPage(n, max) == Cardinality({c \in 1 .. n : c * Bar < max})

\* The notes left after each page of the height max, when n are to be listed.
Left(n, max) ==
    LET left[p \in 0 .. n] ==
            IF p = 0 THEN n ELSE LET l == left[p - 1] IN l - NbNotesInPage(l, max)
    IN  left

PagesOf(n, max) == Cardinality({p \in 0 .. n : Left(n, max)[p] > 0})

\* Mutant: the first page is counted without the navigation bar.
NbPagesTotalFull(n) == IF n = 0 THEN 1 ELSE PagesOf(n, Area)

\* getNbPagesTotal: the navigation bar takes room as soon as a page is not enough.
NbPagesTotal(n) ==
    IF n <= NbNotesInPage(n, Area) THEN 1 ELSE PagesOf(n, Area - Footer)

MaxHeight(pages) == IF pages > 1 THEN Area - Footer ELSE Area

\* getNotesForPage: the first note of a page, and those it has.
FirstInPage(n, p, max) == n - Left(n, max)[p]
NotesForPage(n, p, max) ==
    FirstInPage(n, p, max) .. FirstInPage(n, p, max) + NbNotesInPage(Left(n, max)[p], max) - 1

\* getPageForNoteIndex: the first page whose end is at the index k or after it,
\* and the number of pages when there is none.
PageForNoteIndex(n, k, max) ==
    LET reach == {p \in 0 .. n - 1 : FirstInPage(n, p + 1, max) >= k}
    IN  IF reach = {} THEN PagesOf(n, max) ELSE CHOOSE p \in reach : \A q \in reach : p <= q

=============================================================================
