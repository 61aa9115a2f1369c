----------------------------- MODULE NotePages -----------------------------
(***************************************************************************)
(* A note on display (DisplayPages) with the loops that count its pages    *)
(* (PageCount), which app_notesDisplay calls each time it is called.  The  *)
(* screen waits for them: no touch nor command is served while they run.   *)
(* DisplayPages shows at once what depends on their result; CountIsShown   *)
(* says that it is their result.                                           *)
(***************************************************************************)
EXTENDS DisplayPages

VARIABLES
    loop, content, small, i,
    counted,        \* nbPages of getNbPagesForArray
    maxHeight, nbParagraphsInPage, currentHeight, result

countVars ==
    <<loop, content, small, i, counted, maxHeight, nbParagraphsInPage, currentHeight, result>>
pagesVars == <<vars, countVars>>

Count == INSTANCE PageCount WITH nbPages <- counted

PagesInit == Init /\ Count!Init

\* app_notesDisplay counts the pages of a note that has paragraphs.
DisplayAndCount ==
    /\ loop = "none"
    /\ Displays
    /\ IF paragraphs' = <<>> THEN UNCHANGED countVars ELSE Count!Call(paragraphs')

TouchPage ==
    /\ loop = "none"
    /\ Touches
    /\ UNCHANGED countVars

\* An iteration of the loops.
Iterate == Count!Step /\ UNCHANGED vars

PagesNext == DisplayAndCount \/ TouchPage \/ Iterate

\* A function that was called runs on: the program has one thread.
PagesSpec == PagesInit /\ [][PagesNext]_pagesVars /\ WF_pagesVars(Iterate)

-----------------------------------------------------------------------------
(* Properties.                                                             *)

PagesTypeOK == TypeOK /\ Count!TypeOK

\* Each paragraph of the note is on one of the pages offered, and those of the
\* page on display end above the bars drawn under them.
ParagraphsHaveTheirPage == EveryParagraphHasItsPage /\ PageFits

\* What the loops have counted, when the page is there to be touched, is the
\* number of pages that getParagraphsForPage cuts, and of those on display.
CountIsShown ==
    loop = "none" /\ screen = "display" /\ paragraphs # <<>> =>
        result = nbPages /\ Count!CountIsThePages

\* The loops end, whatever the heights are, and the note can be touched: no page
\* is counted empty and none is tried again for ever.
CountEnds == Count!CountEnds

=============================================================================
