----------------------------- MODULE PageCount -----------------------------
(***************************************************************************)
(* The two nested loops that count the pages of a note, step by step:      *)
(* getNbPagesForArray, and getNbParagraphsInPage which it calls once or    *)
(* twice for each page.  They run on a screen that waits for them; what    *)
(* they count is what ParagraphPages defines.                              *)
(***************************************************************************)
EXTENDS ParagraphPages

CONSTANT NbMaxParagraphs

VARIABLES
    loop,       \* "none", or the loop that is running: "pages" or "page"
    content,    \* the paragraphs to count
    small,
    i, nbPages,             \* of getNbPagesForArray; nbRemainingParagraphs is Len - i
    maxHeight, nbParagraphsInPage, currentHeight,   \* of getNbParagraphsInPage
    result      \* what the last call returned

counting == <<i, nbPages>>
filling == <<maxHeight, nbParagraphsInPage, currentHeight>>
vars == <<loop, content, small, counting, filling, result>>

Contents == UNION {[1 .. n -> Paragraphs] : n \in 0 .. NbMaxParagraphs}

Remaining == Len(content) - i

TypeOK ==
    /\ loop \in {"none", "pages", "page"}
    /\ content \in Contents
    /\ small \in BOOLEAN
    /\ i \in 0 .. Len(content)
    /\ nbPages \in 0 .. Len(content)
    /\ maxHeight \in {Area, Area - Bar}
    /\ nbParagraphsInPage \in 0 .. Remaining
    /\ currentHeight \in Nat
    /\ result \in 0 .. NbMaxParagraphs

Init ==
    /\ loop = "none"
    /\ content = <<>> /\ small = FALSE
    /\ i = 0 /\ nbPages = 0
    /\ maxHeight = Area /\ nbParagraphsInPage = 0 /\ currentHeight = 0
    /\ result = 0

\* app_notesDisplay calls getNbPagesForArray for a note with paragraphs.
Call(s) ==
    /\ loop = "none"
    /\ s # <<>>
    /\ loop' = "pages"
    /\ content' = s /\ small' = SmallFont(s)
    /\ i' = 0 /\ nbPages' = 0 /\ result' = 0
    /\ UNCHANGED filling

\* The head of the loop on the pages: the page is filled up to max.
FillPage(max) ==
    /\ loop' = "page"
    /\ maxHeight' = max /\ nbParagraphsInPage' = 0 /\ currentHeight' = Margin
    /\ UNCHANGED <<content, small, counting, result>>

StartPage == loop = "pages" /\ Remaining > 0 /\ FillPage(Area)

Return ==
    /\ loop = "pages" /\ Remaining = 0
    /\ loop' = "none"
    /\ result' = nbPages
    /\ UNCHANGED <<content, small, counting, filling>>

\* The height once the next paragraph is added.
NextHeight ==
    currentHeight + (IF nbParagraphsInPage > 0 THEN Gap ELSE 0)
        + TextHeight(content[i + nbParagraphsInPage + 1], small)

AddParagraph ==
    /\ loop = "page" /\ nbParagraphsInPage < Remaining
    /\ NextHeight < maxHeight
    /\ currentHeight' = NextHeight
    /\ nbParagraphsInPage' = nbParagraphsInPage + 1
    /\ UNCHANGED <<loop, content, small, counting, maxHeight, result>>

PageIsFull ==
    /\ loop = "page"
    /\ nbParagraphsInPage < Remaining => NextHeight >= maxHeight

\* Mutant: a paragraph that is too long to fit is on no page.
InThisPageOrNone == nbParagraphsInPage

\* tooLongToFit: a page has one paragraph at least.
InThisPage == IF nbParagraphsInPage = 0 THEN 1 ELSE nbParagraphsInPage

\* Mutant: the page is tried again until it is not the last one.
IsLastOfSeveral == nbPages > 0 /\ Remaining = InThisPage

\* Mutant: a single page is tried again too.
IsLast == Remaining = InThisPage /\ maxHeight = Area

\* The last page of several is tried again, once, with the bar.
IsToTryAgain == nbPages > 0 /\ Remaining = InThisPage /\ maxHeight = Area

TryAgain == PageIsFull /\ IsToTryAgain /\ FillPage(Area - Bar)

EndPage ==
    /\ PageIsFull /\ ~IsToTryAgain
    /\ loop' = "pages"
    /\ i' = i + InThisPage
    /\ nbPages' = nbPages + 1
    /\ maxHeight' = Area /\ nbParagraphsInPage' = 0 /\ currentHeight' = 0
    /\ UNCHANGED <<content, small, result>>

Step == Return \/ StartPage \/ AddParagraph \/ TryAgain \/ EndPage

Next == (\E s \in Contents : Call(s)) \/ Step

\* A function that was called runs on: the program has one thread.
Spec == Init /\ [][Next]_vars /\ WF_vars(Step)

-----------------------------------------------------------------------------
(* Properties.                                                             *)

\* The loops end, whatever the heights are, and the note is displayed: no page
\* of getNbPagesForArray is empty and none is tried again for ever.
CountEnds == loop = "pages" ~> loop = "none"

\* What the loops return is the number of pages that getParagraphsForPage cuts.
CountIsThePages ==
    loop = "none" /\ content # <<>> => result = NbPagesForArray(content, small)

=============================================================================
