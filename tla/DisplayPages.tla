---------------------------- MODULE DisplayPages ----------------------------
(***************************************************************************)
(* The pages of the note on display (app_notes_display.c): which page is   *)
(* shown when the note is opened, after each edit and on the way back from *)
(* another screen, and what a touch on it designates.  The text itself is  *)
(* the matter of Paragraphs.                                               *)
(***************************************************************************)
EXTENDS ParagraphPages

CONSTANT NbMaxParagraphs

ASSUME DisplayPagesAssumption == NbMaxParagraphs \in Nat \ {0}

VARIABLES
    paragraphs,     \* context.paragraphs, of the note on display
    smallFont, nbPages, currentPage, firstParagraphIndexInPage,
    modifiedParagraphIndex,
    screen          \* the note on display, an editor or another screen over it

layout == <<smallFont, nbPages, currentPage, firstParagraphIndexInPage>>
vars == <<paragraphs, layout, modifiedParagraphIndex, screen>>

N == Len(paragraphs)
Contents == UNION {[1 .. n -> Paragraphs] : n \in 0 .. NbMaxParagraphs}

TypeOK ==
    /\ paragraphs \in Contents
    /\ smallFont \in BOOLEAN
    /\ nbPages \in 1 .. NbMaxParagraphs
    /\ currentPage \in 0 .. NbMaxParagraphs - 1
    /\ firstParagraphIndexInPage \in 0 .. NbMaxParagraphs - 1
    /\ modifiedParagraphIndex \in 0 .. NbMaxParagraphs - 1
    /\ screen \in {"away", "display", "paragraph", "newParagraph", "other"}

Init ==
    /\ paragraphs = <<>>
    /\ smallFont = FALSE /\ nbPages = 1 /\ currentPage = 0
    /\ firstParagraphIndexInPage = 0 /\ modifiedParagraphIndex = 0
    /\ screen = "away"

-----------------------------------------------------------------------------
\* content2paragraphs: the content of no character has no paragraph.
Split(s) == IF s = <<NoParagraph>> THEN <<>> ELSE s

\* Mutant: the index of another note, or of a removed paragraph, is used as is.
KnownIndexUnbounded(k, n) == k

\* MIN(context.modifiedParagraphIndex, context.nbParagraphs - 1)
KnownIndex(k, n) == IF k < n THEN k ELSE n - 1

\* displayNoteContent: the first paragraph of the page is the modified one, from
\* then on.
ShowPage(s, small, p) ==
    /\ currentPage' = p
    /\ screen' = "display"
    /\ IF s = <<>> THEN UNCHANGED <<firstParagraphIndexInPage, modifiedParagraphIndex>>
       ELSE /\ firstParagraphIndexInPage' = FirstInPage(s, small, p)
            /\ modifiedParagraphIndex' = FirstInPage(s, small, p)

\* app_notesDisplay, for the content c: the page of the modified paragraph.
Display(c) ==
    LET s == Split(c)
        small == SmallFont(c)
    IN  /\ paragraphs' = s
        /\ smallFont' = small
        /\ nbPages' = IF s = <<>> THEN 1 ELSE NbPagesForArray(s, small)
        /\ ShowPage(s, small,
                    IF s = <<>> THEN 0
                    ELSE PageForParagraphs(s, small, KnownIndex(modifiedParagraphIndex, Len(s))))

-----------------------------------------------------------------------------
(* The user.                                                               *)

Open(c) == screen = "away" /\ Display(c)

\* The navigation bar, drawn when there are several pages.
Navigate(p) ==
    /\ screen = "display"
    /\ nbPages > 1 /\ p \in 0 .. nbPages - 1
    /\ ShowPage(paragraphs, smallFont, p)
    /\ UNCHANGED <<paragraphs, smallFont, nbPages>>

\* "Tap anywhere to edit" is drawn on the last page only.
OnLastPage == nbPages > 1 => currentPage >= nbPages - 1

TapToAdd ==
    /\ screen = "display"
    /\ OnLastPage
    /\ N < NbMaxParagraphs
    /\ modifiedParagraphIndex' = N
    /\ screen' = "newParagraph"
    /\ UNCHANGED <<paragraphs, layout>>

\* A paragraph of the page is touched.
TouchParagraph ==
    /\ screen = "display"
    /\ N > 0
    /\ modifiedParagraphIndex' \in ParagraphsForPage(paragraphs, smallFont, currentPage)
    /\ screen' = "paragraph"
    /\ UNCHANGED <<paragraphs, layout>>

\* The title, or the actions on the note.
LeavePage ==
    /\ screen = "display"
    /\ screen' = "other"
    /\ UNCHANGED <<paragraphs, layout, modifiedParagraphIndex>>

\* onNewParagraphConfirmed
ConfirmNew(p) == screen = "newParagraph" /\ Display(Append(paragraphs, p))

\* onParagraphModified, with some text.
ConfirmModified(p) ==
    /\ screen = "paragraph"
    /\ p # NoParagraph
    /\ Display([paragraphs EXCEPT ![modifiedParagraphIndex + 1] = p])

\* onParagraphModified without text removes the paragraph, unless it is the sole
\* one, which stays.  What this leaves of the others is in Paragraphs: here it is
\* any content of fewer paragraphs.
ConfirmRemoval(c) ==
    /\ screen = "paragraph"
    /\ IF N = 1 THEN c = paragraphs ELSE Len(c) < N
    /\ Display(c)

\* backFromDisplay, from an editor or another screen; onTitleModified too.
BackToDisplay ==
    /\ screen \in {"paragraph", "newParagraph", "other"}
    /\ Display(paragraphs)

\* The back key of the note.
Back ==
    /\ screen = "display"
    /\ modifiedParagraphIndex' = 0
    /\ screen' = "away"
    /\ UNCHANGED <<paragraphs, layout>>

\* The note was deleted or shared, or a command of the host took the screen.
Abandon ==
    /\ screen # "away"
    /\ screen' = "away"
    /\ UNCHANGED <<paragraphs, layout, modifiedParagraphIndex>>

\* The handlers that call app_notesDisplay.
Displays ==
    \/ \E c \in Contents : Open(c) \/ ConfirmRemoval(c)
    \/ \E p \in Paragraphs : ConfirmNew(p) \/ ConfirmModified(p)
    \/ BackToDisplay

\* The others.
Touches ==
    \/ \E p \in 0 .. NbMaxParagraphs - 1 : Navigate(p)
    \/ TapToAdd \/ TouchParagraph \/ LeavePage
    \/ Back \/ Abandon

Next == Displays \/ Touches

Spec == Init /\ [][Next]_vars

-----------------------------------------------------------------------------
(* Properties.                                                             *)

Shown == ParagraphsForPage(paragraphs, smallFont, currentPage)

\* Whatever was edited, removed or opened before, the page on display is one of
\* those counted for this note, and starts at one of its paragraphs.
CurrentPageExists ==
    screen = "display" =>
        /\ currentPage < nbPages
        /\ N > 0 => firstParagraphIndexInPage \in Shown /\ Shown \subseteq 0 .. N - 1

\* The pages the navigation bar offers have every paragraph of the note, each
\* on one page (getNbPagesForArray and getParagraphsForPage cut alike).
EveryParagraphHasItsPage ==
    screen = "display" =>
        \A k \in 0 .. N - 1 :
            Cardinality({p \in 0 .. nbPages - 1 :
                            k \in ParagraphsForPage(paragraphs, smallFont, p)}) = 1

\* The paragraphs of the page on display end above the bars drawn under them,
\* the navigation's and the one to add a paragraph, except for a paragraph that
\* fills a page alone.
PageFits ==
    screen = "display" /\ N > 0 =>
        LET navigation == IF nbPages > 1 THEN Bar ELSE 0
            tap == IF OnLastPage THEN Bar ELSE 0
            count == Cardinality(Shown)
        IN  \/ count = 1
            \/ HeightOf(paragraphs, smallFont, firstParagraphIndexInPage, count)
                    < Area + Bar - navigation - tap

\* After an edit of a paragraph the page shown is the page of this paragraph
\* ("gets the page containing the given paragraph index").
\* Not so: README, section 5.
EditedIsShown ==
    [][\A p \in Paragraphs : ConfirmModified(p) => modifiedParagraphIndex \in Shown']_vars

=============================================================================
