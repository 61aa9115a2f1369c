------------------------------- MODULE Lists -------------------------------
(***************************************************************************)
(* The list of the notes (ListPages) and that of the contacts (Receivers)  *)
(* on the one screen they share: a note opened from the first is shared    *)
(* from the second, once sent the first is shown again, and the commands   *)
(* of the host go from any page of one to a page of the other.  Each list  *)
(* keeps its own index and page meanwhile.                                 *)
(***************************************************************************)
EXTENDS Receivers

VARIABLES
    stored, nbUsedNotes, nbNotePages, currentNotePage, firstNoteIndexInPage,
    selectedNoteIndex,
    page           \* the page of the notes, "menu" while screen is not "elsewhere"

noteVars ==
    <<stored, nbUsedNotes, nbNotePages, currentNotePage, firstNoteIndexInPage,
      selectedNoteIndex, page>>
listsVars == <<vars, noteVars>>

\* The search for a place stops at NB_MAX_NOTES in both arrays.
Notes == INSTANCE ListPages WITH
            NbMaxNotes <- SearchBound, nbPages <- nbNotePages,
            currentPage <- currentNotePage, screen <- page

ListsInit == Init /\ Notes!Init

-----------------------------------------------------------------------------

\* A page of the share or of another component takes the screen of the notes.
LeaveNotes == Notes!Leave \/ (page = "menu" /\ UNCHANGED noteVars)
LeaveContacts == Leave \/ (screen = "elsewhere" /\ UNCHANGED vars)

\* A touch on a page of the notes, or the way to it from the menu.
NoteTouch ==
    /\ screen = "elsewhere"
    /\ \/ Notes!List \/ Notes!Back \/ Notes!TapPlus
       \/ Notes!FirstNote \/ Notes!ConfirmTitle \/ Notes!Delete
       \/ \E p \in Notes!Indices : Notes!Navigate(p) \/ Notes!TouchBar(p)
    /\ UNCHANGED vars

ShareNote == page = "note" /\ OpenShare /\ LeaveNotes

\* A touch on a page of the share.
ContactTouch ==
    /\ \/ BackOnShare \/ Back \/ TapPlus \/ ConfirmName
       \/ \E p \in 0 .. NbMaxContacts - 1 : Navigate(p) \/ TouchBar(p)
       \/ \E n \in Names \cup {NoName} : TypeName(n)
    /\ UNCHANGED noteVars

SendNote == GetSharedNote /\ LeaveNotes
AddSentAddress == AddAddress /\ LeaveNotes

\* The status "Note sent" ends.
NoteSent == screen = "noteSent" /\ Leave /\ Notes!List

\* Another command draws its page; a note received may be added from it.
OtherPage == LeaveContacts /\ LeaveNotes
ReceiveNote == LeaveContacts /\ Notes!Receive

RestartApp == Restart /\ Notes!Restart

ListsNext ==
    \/ NoteTouch \/ ShareNote \/ ContactTouch
    \/ SendNote \/ AddSentAddress \/ NoteSent
    \/ OtherPage \/ ReceiveNote \/ RestartApp

ListsSpec == ListsInit /\ [][ListsNext]_listsVars

-----------------------------------------------------------------------------
(* Properties.                                                             *)

ListsTypeOK == TypeOK /\ Notes!TypeOK

\* Whatever was selected, added, deleted or shared since a list was left, the
\* index it kept is that of a bar or the next one, the page it is shown at is one
\* of its pages, and this page has some of its bars.
PagesExist ==
    CurrentPageExists /\ Notes!SelectedIsStored /\ Notes!CurrentPageExists

\* The pages the navigation bar offers list every note once, and the bars of a
\* page end above it.
EveryNoteHasItsPage == Notes!EveryNoteHasItsPage /\ Notes!PageFits

\* When a list is shown again, the note or the contact selected before, or just
\* added, is on the page, or is the next one after it.
SelectedAreNear == SelectedIsNear /\ Notes!SelectedIsNear

=============================================================================
