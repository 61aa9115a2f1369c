----------------------------- MODULE ListPages -----------------------------
(***************************************************************************)
(* The pages of the list of notes (app_notes_list.c): what is kept of the  *)
(* list while notes are added, deleted and received.  Notes are counted    *)
(* from 0 in the order listed.                                             *)
(***************************************************************************)
EXTENDS BarPages

CONSTANT NbMaxNotes    \* NB_MAX_NOTES

VARIABLES
    stored,        \* how many notes are stored
    nbUsedNotes,   \* how many were listed
    nbPages, currentPage, firstNoteIndexInPage,
    selectedNoteIndex,
    screen         \* the list, a note, the title of a new one, the status of a deletion

listing == <<nbUsedNotes, nbPages, currentPage, firstNoteIndexInPage>>
vars == <<stored, listing, selectedNoteIndex, screen>>

Indices == 0 .. NbMaxNotes - 1

TypeOK ==
    /\ stored \in 0 .. NbMaxNotes
    /\ nbUsedNotes \in 0 .. NbMaxNotes
    /\ nbPages \in 0 .. NbMaxNotes
    /\ currentPage \in Indices
    /\ firstNoteIndexInPage \in Indices
    /\ selectedNoteIndex \in Indices
    /\ screen \in {"list", "note", "newNote", "deleted", "menu"}

Init ==
    /\ stored = 0
    /\ nbUsedNotes = 0 /\ nbPages = 0 /\ currentPage = 0
    /\ firstNoteIndexInPage = 0 /\ selectedNoteIndex = 0
    /\ screen = "menu"

-----------------------------------------------------------------------------
(* displayNoteList, with what it was called with.                          *)
Show(n, pages, p) ==
    /\ screen' = "list"
    /\ currentPage' = p
    /\ firstNoteIndexInPage' =
            IF n = 0 THEN firstNoteIndexInPage ELSE FirstInPage(n, p, MaxHeight(pages))

\* Mutant: the page is searched as if there were no navigation bar.
PageOfSelectedFull(n, pages) ==
    IF n = 0 THEN currentPage ELSE PageForNoteIndex(n, selectedNoteIndex, Area)

\* The page of the selected note, or the former page of an empty list.
PageOfSelected(n, pages) ==
    IF n = 0 THEN currentPage ELSE PageForNoteIndex(n, selectedNoteIndex, MaxHeight(pages))

\* app_notesList, from the menu, on the way back from a note or after a status:
\* the store is read.
List ==
    /\ LET n == stored
           pages == NbPagesTotal(n)
       IN  /\ nbUsedNotes' = n
           /\ nbPages' = pages
           /\ Show(n, pages, PageOfSelected(n, pages))
    /\ UNCHANGED <<stored, selectedNoteIndex>>

\* The navigation bar, drawn when there are several pages.
Navigate(p) ==
    /\ screen = "list"
    /\ nbPages > 1 /\ p \in 0 .. nbPages - 1
    /\ Show(nbUsedNotes, nbPages, p)
    /\ UNCHANGED <<stored, nbUsedNotes, nbPages, selectedNoteIndex>>

Back ==
    /\ screen = "list"
    /\ selectedNoteIndex' = 0
    /\ screen' = "menu"
    /\ UNCHANGED <<stored, listing>>

\* The Plus button, inactive when the store is full: the next index is selected,
\* whether the note is added then or not.
TapPlus ==
    /\ screen = "list"
    /\ nbUsedNotes < NbMaxNotes
    /\ selectedNoteIndex' = nbUsedNotes
    /\ screen' = "newNote"
    /\ UNCHANGED <<stored, listing>>

\* The b-th bar of the page is touched.
TouchBar(b) ==
    /\ screen = "list"
    /\ firstNoteIndexInPage + b \in NotesForPage(nbUsedNotes, currentPage, MaxHeight(nbPages))
    /\ selectedNoteIndex' = firstNoteIndexInPage + b
    /\ screen' = "note"
    /\ UNCHANGED <<stored, listing>>

\* onActionButton: with no note to list, the title of the first one is asked.
FirstNote ==
    /\ screen = "menu"
    /\ stored = 0
    /\ screen' = "newNote"
    /\ UNCHANGED <<stored, listing, selectedNoteIndex>>

\* onTitleConfirmed.  There is room for the note: NotesApp!NewNoteHasRoom.
ConfirmTitle ==
    /\ screen = "newNote"
    /\ stored < NbMaxNotes
    /\ stored' = stored + 1
    /\ screen' = "note"
    /\ UNCHANGED <<listing, selectedNoteIndex>>

\* Mutant: the page of the note stays when it is deleted.
DeleteAndStay ==
    /\ screen = "note"
    /\ stored > 0
    /\ stored' = stored - 1
    /\ UNCHANGED <<listing, selectedNoteIndex, screen>>

\* The note on display is deleted; a status is shown, then the list.
Delete ==
    /\ screen = "note"
    /\ stored > 0
    /\ stored' = stored - 1
    /\ screen' = "deleted"
    /\ UNCHANGED <<listing, selectedNoteIndex>>

\* A note of the host is accepted, on the page that replaced any other one.
Receive ==
    /\ stored < NbMaxNotes
    /\ stored' = stored + 1
    /\ screen' = "menu"
    /\ UNCHANGED <<listing, selectedNoteIndex>>

\* The menu takes the screen: back from a title, a note shared or rejected.
Leave ==
    /\ screen # "menu"
    /\ screen' = "menu"
    /\ UNCHANGED <<stored, listing, selectedNoteIndex>>

\* The application ends, or the power is lost: the store is kept.
Restart ==
    /\ nbUsedNotes' = 0 /\ nbPages' = 0 /\ currentPage' = 0
    /\ firstNoteIndexInPage' = 0 /\ selectedNoteIndex' = 0
    /\ screen' = "menu"
    /\ UNCHANGED stored

Next ==
    \/ List \/ Back \/ TapPlus \/ Leave \/ Restart
    \/ FirstNote \/ ConfirmTitle \/ Delete \/ Receive
    \/ \E p \in Indices : Navigate(p) \/ TouchBar(p)

Spec == Init /\ [][Next]_vars

-----------------------------------------------------------------------------
(* Properties.                                                             *)

Listed == screen = "list" /\ nbUsedNotes > 0
Shown == NotesForPage(nbUsedNotes, currentPage, MaxHeight(nbPages))

\* The index kept while the list is left is that of a note, or the next one,
\* however many notes were deleted meanwhile: the search for its page finds one.
SelectedIsStored ==
    /\ selectedNoteIndex <= stored
    /\ screen = "note" => selectedNoteIndex < stored

\* Whatever was selected, added or deleted since the list was left, the page it
\* is shown at is one of its pages, and lists some of its notes.
CurrentPageExists ==
    Listed => /\ currentPage < nbPages
              /\ firstNoteIndexInPage \in Shown /\ Shown \subseteq 0 .. nbUsedNotes - 1

\* The pages the navigation bar offers list every note once (getNbPagesTotal,
\* and getNotesForPage at the height the screen leaves).
EveryNoteHasItsPage ==
    Listed =>
        \A k \in 0 .. nbUsedNotes - 1 :
            Cardinality({p \in 0 .. nbPages - 1 :
                            k \in NotesForPage(nbUsedNotes, p, MaxHeight(nbPages))}) = 1

\* The bars of a page end above the navigation bar, when there is one.
PageFits ==
    Listed =>
        Cardinality(Shown) * Bar < Area - (IF nbPages > 1 THEN Footer ELSE 0)

\* When the list is shown again, the note selected before is on the page, or is
\* the next one after it.
SelectedIsNear ==
    [][List /\ selectedNoteIndex < stored
        => selectedNoteIndex \in Shown' \/ selectedNoteIndex - 1 \in Shown']_vars

=============================================================================
