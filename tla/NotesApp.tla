------------------------------ MODULE NotesApp ------------------------------
(***************************************************************************)
(* The Notes application: the screens of app_notes_*.c and menu_nbgl.c,    *)
(* the working copy of a note they share (currentNote), and the commands   *)
(* of the host that act on the notes.  One loop serves the touches of the  *)
(* user and the commands of the host, so each handler is one step, and a   *)
(* command may come on any screen; most commands replace the screen.       *)
(*                                                                         *)
(* The storage is taken at the level of Notebook: a slot is Free or holds  *)
(* an entry (SlotStore shows that the code gives this, and what a power    *)
(* cut inside a handler leaves).  A content is the sequence of its         *)
(* paragraphs.  The layer of passcode screens is modal: it stays over the  *)
(* other screens and takes the touches.                                    *)
(***************************************************************************)
EXTENDS Naturals, Sequences

CONSTANTS
    NbMaxNotes, NbMaxContacts,   \* NB_MAX_NOTES, NB_MAX_CONTACTS
    NbMaxParagraphs,             \* NB_MAX_PARAGRAPHS
    Texts,                       \* what may be typed as a title or a paragraph
    NoText,                      \* the empty string
    Free,                        \* the entry of a free slot
    HostNotes,                   \* notes the host may send
    Passcodes,                   \* passcodes the user may enter
    NoPasscode,                  \* the passcode in NVRAM before one is set
    RemoveParagraph(_, _)        \* what removing a paragraph makes of a content

Slots == 0 .. NbMaxNotes - 1
ContactSlots == 0 .. NbMaxContacts - 1

\* A content whose only paragraph is empty is the empty string.
Contents == (UNION {[1 .. n -> Texts] : n \in 0 .. NbMaxParagraphs}) \ {<<NoText>>}

Notes == [title : Texts, content : Contents]

ASSUME NotesAssumption ==
    /\ NbMaxNotes \in Nat \ {0}
    /\ NbMaxContacts \in Nat
    /\ NbMaxNotes <= NbMaxContacts
    /\ NbMaxParagraphs \in Nat \ {0}
    /\ NoText \in Texts
    /\ HostNotes \subseteq Notes
    /\ Free \notin Notes

\* Removing a paragraph of a content leaves a content (the removal itself is
\* the subject of Paragraphs).
ASSUME RemovalAssumption ==
    \A c \in Contents : \A k \in DOMAIN c : RemoveParagraph(c, k) \in Contents

VARIABLES
    notes,        \* NVRAM: the notes, by slot
    contacts,     \* NVRAM: usedContacts, as a set of slots
    locked,       \* NVRAM: settings.locked
    passcode,     \* NVRAM: settings.digits
    isUnlocked,   \* RAM: the session is unlocked
    working,      \* RAM: currentNote, its index, title and content
    split,        \* RAM: the content is split in place ('\0' between paragraphs)
    shared,       \* RAM: the share page was opened (its context.note is set)
    contactPage,  \* RAM: the new contact page was opened (newContact is set)
    page,         \* the base screen, with the static data of its module
    modal,        \* the passcode screen over it, and what a right code does
    reply,        \* the answer to the command just served
    pending       \* a command waits for the choice of the user to be answered

nvram == <<notes, contacts, locked, passcode>>
copy  == <<working, split>>
links == <<shared, contactPage>>
vars  == <<nvram, isUnlocked, copy, links, page, modal, reply, pending>>

-----------------------------------------------------------------------------
(* Values of the variables.                                                *)

BlankNote == [title |-> NoText, content |-> <<>>]

\* The static Note_t of a device just started.
BlankCopy == [index |-> 0, title |-> NoText, content |-> <<>>]

Plain(s) == [screen |-> s]

PlainScreens ==
    {"menu", "display", "newParagraph", "changeTitle", "action", "deleteChoice",
     "deleted", "newContact", "waitAddress", "waitShare", "noteSent", "addFailed",
     "settings", "passcodeChoice", "setPin", "review", "reviewStatus"}

\* A screen with what its module keeps for it in static variables.
Pages ==
    [screen : PlainScreens]
    \cup [screen : {"list"}, listed : SUBSET Slots]
    \cup [screen : {"share"}, listed : SUBSET ContactSlots]
    \cup [screen : {"editTitle"}, back : {"menu", "list"}]
    \cup [screen : {"editParagraph"}, paragraph : 1 .. NbMaxParagraphs]
    \cup [screen : {"receiveChoice"}, note : Notes]

NoModal == [kind |-> "none", after |-> "none"]

Modals == [kind : {"validate", "invalidPin"}, after : {"open", "remove"}]

Answer(sw, n) == [sw |-> sw, note |-> n]

\* No command was served by the last step.
Silence == Answer("none", BlankNote)

Replies == [sw : {"none", "ok", "denied", "noSharedNote", "wrongLength", "unanswered"},
            note : Notes]

TypeOK ==
    /\ notes \in [Slots -> Notes \cup {Free}]
    /\ contacts \in SUBSET ContactSlots
    /\ locked \in BOOLEAN
    /\ passcode \in Passcodes \cup {NoPasscode}
    /\ isUnlocked \in BOOLEAN
    /\ working \in [index : Slots, title : Texts, content : Contents]
    /\ split \in BOOLEAN
    /\ shared \in BOOLEAN
    /\ contactPage \in BOOLEAN
    /\ page \in Pages
    /\ modal \in Modals \cup {NoModal}
    /\ reply \in Replies
    /\ pending \in BOOLEAN

-----------------------------------------------------------------------------
(* The storage, call by call (app_notes_utils.c).                          *)

Used == {i \in Slots : notes[i] # Free}

IsFirstFree(i) ==
    /\ i \in Slots \ Used
    /\ \A j \in Slots \ Used : i <= j

ModifyNote(i, n) ==
    notes' = IF i \in Used THEN [notes EXCEPT ![i] = n] ELSE notes

DeleteNote(i) == notes' = [notes EXCEPT ![i] = Free]

\* The search loop of app_notesAddContact, with its bound NB_MAX_NOTES.
FreeContacts == {i \in 0 .. NbMaxNotes - 1 : i \notin contacts}

AddContact ==
    IF FreeContacts = {}
    THEN contacts' = contacts
    ELSE \E i \in FreeContacts :
            /\ \A j \in FreeContacts : i <= j
            /\ contacts' = contacts \cup {i}

-----------------------------------------------------------------------------
(* Contents (the byte level is in ParagraphOps).                           *)

Normal(c) == IF c = <<NoText>> THEN <<>> ELSE c

\* What a reader of the C string finds: up to the first '\0'.
CString == IF split /\ working.content # <<>>
           THEN Normal(<<working.content[1]>>)
           ELSE working.content

EntryOf(w) == [title |-> w.title, content |-> w.content]

\* onParagraphModified.
Modified(c, k, t) ==
    IF t = NoText THEN RemoveParagraph(c, k) ELSE [c EXCEPT ![k] = t]

-----------------------------------------------------------------------------
(* Screens.                                                                *)

\* app_notesList: the list is read again each time it is shown.
ListPage == [screen |-> "list", listed |-> Used]

\* app_notesShare: so is the list of contacts.
SharePage(known) == [screen |-> "share", listed |-> known]

\* A touch on the base screen s, when no passcode screen covers it.
TouchOf(s) == modal = NoModal /\ page.screen = s /\ reply' = Silence

Touch(s) == TouchOf(s) /\ UNCHANGED pending

\* The handler only shows another base screen.
Go(p) ==
    /\ page' = p
    /\ UNCHANGED <<nvram, isUnlocked, copy, links, modal>>

\* app_notesDisplay on a copy whose string is whole: it is split in place.
Display(w) ==
    /\ working' = w
    /\ split' = TRUE
    /\ page' = Plain("display")

\* app_notesNew: title and content of the copy are emptied, its index is not.
NewNote(back) ==
    /\ working' = [working EXCEPT !.title = NoText, !.content = <<>>]
    /\ split' = FALSE
    /\ page' = [screen |-> "editTitle", back |-> back]

\* onPasscodeSuccess: the list, or a first note when there is none.
OpenNotes ==
    IF Used = {}
    THEN NewNote("menu")
    ELSE page' = ListPage /\ UNCHANGED copy

\* The RAM of an application just started, on its menu.
Restart ==
    /\ isUnlocked' = FALSE
    /\ working' = BlankCopy
    /\ split' = FALSE
    /\ shared' = FALSE
    /\ contactPage' = FALSE
    /\ page' = Plain("menu")
    /\ modal' = NoModal
    /\ pending' = FALSE
    /\ UNCHANGED nvram

Init ==
    /\ notes = [i \in Slots |-> Free]
    /\ contacts = {}
    /\ locked = FALSE
    /\ passcode = NoPasscode
    /\ isUnlocked = FALSE
    /\ working = BlankCopy
    /\ split = FALSE
    /\ shared = FALSE
    /\ contactPage = FALSE
    /\ page = Plain("menu")
    /\ modal = NoModal
    /\ reply = Silence
    /\ pending = FALSE

-----------------------------------------------------------------------------
(* The menu.                                                               *)

\* onActionButton: the passcode is asked for when the notes are locked.
ActionButton ==
    /\ Touch("menu")
    /\ IF locked /\ ~isUnlocked
       THEN /\ modal' = [kind |-> "validate", after |-> "open"]
            /\ UNCHANGED <<copy, page>>
       ELSE OpenNotes /\ UNCHANGED modal
    /\ UNCHANGED <<nvram, isUnlocked, links>>

OpenSettings == Touch("menu") /\ Go(Plain("settings"))

\* app_quit: the application ends, and starts anew when it is opened again.
Quit == TouchOf("menu") /\ Restart

-----------------------------------------------------------------------------
(* The list of notes and the creation of a note.                           *)

BackFromList == Touch("list") /\ Go(Plain("menu"))

\* Mutant: the Plus button stays active on a full list.
AddFromListUnbounded ==
    /\ Touch("list")
    /\ NewNote("list")
    /\ UNCHANGED <<nvram, isUnlocked, links, modal>>

\* The Plus button is inactive when the list shows NB_MAX_NOTES notes.
AddFromList ==
    /\ Touch("list")
    /\ page.listed # Slots
    /\ NewNote("list")
    /\ UNCHANGED <<nvram, isUnlocked, links, modal>>

\* The note is copied from NVRAM to the working copy.
SelectNote(i) ==
    /\ Touch("list")
    /\ i \in page.listed
    /\ Display([index |-> i, title |-> notes[i].title, content |-> notes[i].content])
    /\ UNCHANGED <<nvram, isUnlocked, links, modal>>

\* The title of a new note is typed in place, in the working copy.
TypeTitle(t) ==
    /\ Touch("editTitle")
    /\ working' = [working EXCEPT !.title = t]
    /\ UNCHANGED <<nvram, isUnlocked, split, links, page, modal>>

BackFromTitle ==
    /\ Touch("editTitle")
    /\ Go(IF page.back = "list" THEN ListPage ELSE Plain("menu"))

\* onTitleConfirmed: when app_notesAddNote fails the index stays what it was.
\* (The Confirm button may be active on an empty text: it becomes active with
\* the first character and erasing does not deactivate it.)
ConfirmTitle ==
    /\ Touch("editTitle")
    /\ LET w == [working EXCEPT !.content = CString]
       IN  IF Used = Slots
           THEN Display(w) /\ UNCHANGED notes
           ELSE \E i \in Slots :
                   /\ IsFirstFree(i)
                   /\ notes' = [notes EXCEPT ![i] = EntryOf(w)]
                   /\ Display([w EXCEPT !.index = i])
    /\ UNCHANGED <<contacts, locked, passcode, isUnlocked, links, modal>>

-----------------------------------------------------------------------------
(* A note on screen.  Every edit saves the whole copy and displays it.     *)

BackFromDisplay == Touch("display") /\ Go(ListPage)

\* Mutant: no limit to the number of paragraphs.
TapToAddUnbounded == Touch("display") /\ Go(Plain("newParagraph"))

TapToAdd ==
    /\ Touch("display")
    /\ Len(working.content) < NbMaxParagraphs
    /\ Go(Plain("newParagraph"))

TapParagraph(k) ==
    /\ Touch("display")
    /\ k \in DOMAIN working.content
    /\ Go([screen |-> "editParagraph", paragraph |-> k])

TapTitle == Touch("display") /\ Go(Plain("changeTitle"))

TapActions == Touch("display") /\ Go(Plain("action"))

SaveAndDisplay(w) ==
    /\ ModifyNote(w.index, EntryOf(w))
    /\ Display(w)
    /\ UNCHANGED <<contacts, locked, passcode, isUnlocked, links, modal>>

\* onNewParagraphConfirmed.
ConfirmParagraph(t) ==
    /\ Touch("newParagraph")
    /\ SaveAndDisplay([working EXCEPT !.content = Normal(Append(working.content, t))])

\* onParagraphModified.
ConfirmEdit(t) ==
    /\ Touch("editParagraph")
    /\ SaveAndDisplay([working EXCEPT !.content = Modified(working.content, page.paragraph, t)])

\* Mutant: the copy is saved without joining its paragraphs.
ConfirmNewTitleUnjoined(t) ==
    /\ Touch("changeTitle")
    /\ LET w == [working EXCEPT !.title = t]
       IN  /\ ModifyNote(w.index, [title |-> t, content |-> CString])
           /\ Display(w)
    /\ UNCHANGED <<contacts, locked, passcode, isUnlocked, links, modal>>

\* onTitleModified: the paragraphs are joined before the copy is saved.
ConfirmNewTitle(t) ==
    /\ Touch("changeTitle")
    /\ SaveAndDisplay([working EXCEPT !.title = t])

\* backFromDisplay, the way back of the editors and of the actions page.
BackToNote(s) ==
    /\ Touch(s)
    /\ Display(working)
    /\ UNCHANGED <<nvram, isUnlocked, links, modal>>

-----------------------------------------------------------------------------
(* The actions on a note: delete, share.                                   *)

TapDelete == Touch("action") /\ Go(Plain("deleteChoice"))

KeepNote == Touch("deleteChoice") /\ Go(Plain("action"))

ConfirmDelete ==
    /\ Touch("deleteChoice")
    /\ DeleteNote(working.index)
    /\ page' = Plain("deleted")
    /\ UNCHANGED <<contacts, locked, passcode, isUnlocked, copy, links, modal>>

\* A status screen ends, by a touch or by itself.
DeletedShown == Touch("deleted") /\ Go(ListPage)

\* app_notesShare: from now on the host may ask for the copy.
TapShare ==
    /\ Touch("action")
    /\ shared' = TRUE
    /\ page' = SharePage(contacts)
    /\ UNCHANGED <<nvram, isUnlocked, copy, contactPage, modal>>

BackFromShare == Touch("share") /\ Go(Plain("menu"))

\* app_notesNewContact, offered while fewer than NB_MAX_CONTACTS are listed.
TapNewContact ==
    /\ Touch("share")
    /\ page.listed # ContactSlots
    /\ contactPage' = TRUE
    /\ page' = Plain("newContact")
    /\ UNCHANGED <<nvram, isUnlocked, copy, shared, modal>>

SelectContact ==
    /\ Touch("share")
    /\ page.listed # {}
    /\ Go(Plain("waitShare"))

ConfirmName == Touch("newContact") /\ Go(Plain("waitAddress"))

\* onBackOnShare, from the pages opened by the share page.
BackToShare(s) == Touch(s) /\ Go(SharePage(contacts))

SentShown == Touch("noteSent") /\ Go(ListPage)

-----------------------------------------------------------------------------
(* A note received from the host.                                          *)

\* onNoteReceptionChoice, confirmed.
AcceptNote ==
    /\ Touch("receiveChoice")
    /\ IF Used = Slots
       THEN page' = Plain("addFailed") /\ UNCHANGED notes
       ELSE \E i \in Slots :
               /\ IsFirstFree(i)
               /\ notes' = [notes EXCEPT ![i] = page.note]
               /\ page' = Plain("menu")
    /\ UNCHANGED <<contacts, locked, passcode, isUnlocked, copy, links, modal>>

RejectNote == Touch("receiveChoice") /\ Go(Plain("menu"))

FailureShown == Touch("addFailed") /\ Go(Plain("menu"))

\* The choice that ends a review answers the command, and a status is shown.
ReviewDone ==
    /\ modal = NoModal
    /\ page.screen = "review"
    /\ \E sw \in {"ok", "denied"} : reply' = Answer(sw, BlankNote)
    /\ pending' = FALSE
    /\ Go(Plain("reviewStatus"))

ReviewStatusShown == Touch("reviewStatus") /\ Go(Plain("menu"))

-----------------------------------------------------------------------------
(* Settings and passcode.                                                  *)

BackFromSettings == Touch("settings") /\ Go(Plain("menu"))

TapLockSwitch == Touch("settings") /\ Go(Plain("passcodeChoice"))

CancelChoice == Touch("passcodeChoice") /\ Go(Plain("settings"))

\* Mutant: the passcode is asked for whether there is one or not.
ConfirmChoiceUnchecked ==
    /\ Touch("passcodeChoice")
    /\ modal' = [kind |-> "validate", after |-> "remove"]
    /\ UNCHANGED <<nvram, isUnlocked, copy, links, page>>

\* onPasscodeChoice: choose a passcode, or confirm the one to remove.
ConfirmChoice ==
    /\ Touch("passcodeChoice")
    /\ IF locked
       THEN modal' = [kind |-> "validate", after |-> "remove"] /\ UNCHANGED page
       ELSE page' = Plain("setPin") /\ UNCHANGED modal
    /\ UNCHANGED <<nvram, isUnlocked, copy, links>>

BackFromSetPin == Touch("setPin") /\ Go(Plain("settings"))

\* The passcode entered twice: app_notesSettingsSetLockAndPasscode(true, ...).
SetPasscode(p) ==
    /\ Touch("setPin")
    /\ locked' = TRUE
    /\ passcode' = p
    /\ isUnlocked' = TRUE
    /\ page' = Plain("settings")
    /\ UNCHANGED <<notes, contacts, copy, links, modal>>

\* app_notesSettingsCheckPasscode, right: then the notes or, through
\* onPinSuccess, the removal of the lock.
RightPasscode ==
    /\ modal.kind = "validate"
    /\ isUnlocked' = TRUE
    /\ modal' = NoModal
    /\ reply' = Silence
    /\ UNCHANGED pending
    /\ IF modal.after = "open"
       THEN OpenNotes /\ UNCHANGED locked
       ELSE locked' = FALSE /\ page' = Plain("settings") /\ UNCHANGED copy
    /\ UNCHANGED <<notes, contacts, passcode, links>>

\* A wrong code closes the session, whoever had opened it.
WrongPasscode ==
    /\ modal.kind = "validate"
    /\ isUnlocked' = FALSE
    /\ modal' = [modal EXCEPT !.kind = "invalidPin"]
    /\ reply' = Silence
    /\ UNCHANGED pending
    /\ UNCHANGED <<nvram, copy, links, page>>

EnterPasscode(p) == IF p = passcode THEN RightPasscode ELSE WrongPasscode

\* errorTouchCallback: the passcode is asked for again.
TapInvalidPin ==
    /\ modal.kind = "invalidPin"
    /\ modal' = [modal EXCEPT !.kind = "validate"]
    /\ reply' = Silence
    /\ UNCHANGED pending
    /\ UNCHANGED <<nvram, isUnlocked, copy, links, page>>

\* Mutant: the back key runs what the right code would.
BackFromPasscodeRemoves ==
    /\ modal.kind = "validate"
    /\ modal' = NoModal
    /\ locked' = IF modal.after = "remove" THEN FALSE ELSE locked
    /\ page' = Plain(IF modal.after = "open" THEN "menu" ELSE "settings")
    /\ reply' = Silence
    /\ UNCHANGED pending
    /\ UNCHANGED <<notes, contacts, passcode, isUnlocked, copy, links>>

\* The back key of the passcode page: the menu or the settings.
BackFromPasscode ==
    /\ modal.kind = "validate"
    /\ modal' = NoModal
    /\ page' = Plain(IF modal.after = "open" THEN "menu" ELSE "settings")
    /\ reply' = Silence
    /\ UNCHANGED pending
    /\ UNCHANGED <<nvram, isUnlocked, copy, links>>

-----------------------------------------------------------------------------
(* Commands of the host, which waits for the answer to a command before it *)
(* sends another.  They replace the base screen under the modal.           *)

Command == ~pending

Serve(sw, n) ==
    /\ Command
    /\ reply' = Answer(sw, n)
    /\ UNCHANGED pending

\* Mutant: the note is stored when it comes and the choice is only shown.
PutNoteUnasked(n) ==
    /\ Serve("ok", BlankNote)
    /\ page' = [screen |-> "receiveChoice", note |-> n]
    /\ \E i \in Slots : IsFirstFree(i) /\ notes' = [notes EXCEPT ![i] = n]
    /\ UNCHANGED <<contacts, locked, passcode, isUnlocked, copy, links, modal>>

\* PUT_SHARED_NOTE: title and content are read from the shared buffer later.
PutNote(n) ==
    /\ Serve("ok", BlankNote)
    /\ Go([screen |-> "receiveChoice", note |-> n])

\* PUT_SHARED_NOTE shorter than it says.  Nothing is read when the title is;
\* when the content is, the title has replaced the former one in the buffer, and
\* a choice that is up reads it; its content is still where it was, or is the
\* end of the new title.
PutNoteTruncated(n) ==
    /\ Serve("wrongLength", BlankNote)
    /\ \/ UNCHANGED page
       \/ /\ page.screen = "receiveChoice"
          /\ \E c \in {page.note.content} \cup {Normal(<<t>>) : t \in Texts} :
                page' = [page EXCEPT !.note = [title |-> n.title, content |-> c]]
    /\ UNCHANGED <<nvram, isUnlocked, copy, links, modal>>

\* GET_SHARED_NOTE once the share page was opened: the copy, as a C string.
GetNote ==
    /\ shared
    /\ Serve("ok", [title |-> working.title, content |-> CString])
    /\ Go(Plain("noteSent"))

GetNoteRefused ==
    /\ ~shared
    /\ Serve("noSharedNote", BlankNote)
    /\ UNCHANGED <<nvram, isUnlocked, copy, links, page, modal>>

\* ADD_ADDRESS after the new contact page: the contact is added when there is
\* room and the share page is shown, whatever the screen was.
AddAddress ==
    /\ contactPage
    /\ AddContact
    /\ page' = SharePage(contacts')
    /\ Serve("ok", BlankNote)
    /\ UNCHANGED <<notes, locked, passcode, isUnlocked, copy, links, modal>>

\* ADD_ADDRESS before it: newContact and the callback are NULL.  The handler
\* does not come back and the application restarts.
AddAddressUnexpected ==
    /\ ~contactPage
    /\ Command
    /\ reply' = Answer("unanswered", BlankNote)
    /\ Restart

\* GET_PUBLIC_KEY and SIGN_TX show a review.
Review ==
    /\ Command
    /\ reply' = Silence
    /\ pending' = TRUE
    /\ Go(Plain("review"))

\* The power is lost between two handlers.
PowerCut ==
    /\ reply' = Silence
    /\ Restart

-----------------------------------------------------------------------------

MenuNext == ActionButton \/ OpenSettings \/ Quit

NoteNext ==
    \/ BackFromList \/ AddFromList
    \/ \E i \in Slots : SelectNote(i)
    \/ \E t \in Texts : TypeTitle(t)
    \/ BackFromTitle \/ ConfirmTitle
    \/ BackFromDisplay \/ TapToAdd \/ TapTitle \/ TapActions
    \/ \E k \in 1 .. NbMaxParagraphs : TapParagraph(k)
    \/ \E t \in Texts : ConfirmParagraph(t) \/ ConfirmEdit(t) \/ ConfirmNewTitle(t)
    \/ \E s \in {"newParagraph", "editParagraph", "changeTitle", "action"} : BackToNote(s)
    \/ TapDelete \/ KeepNote \/ ConfirmDelete \/ DeletedShown

ShareNext ==
    \/ TapShare \/ BackFromShare \/ TapNewContact \/ SelectContact \/ ConfirmName
    \/ \E s \in {"newContact", "waitAddress", "waitShare"} : BackToShare(s)
    \/ SentShown \/ AcceptNote \/ RejectNote \/ FailureShown
    \/ ReviewDone \/ ReviewStatusShown

LockNext ==
    \/ BackFromSettings \/ TapLockSwitch \/ CancelChoice \/ ConfirmChoice \/ BackFromSetPin
    \/ \E p \in Passcodes : SetPasscode(p) \/ EnterPasscode(p)
    \/ TapInvalidPin \/ BackFromPasscode

HostNext ==
    \/ \E n \in HostNotes : PutNote(n) \/ PutNoteTruncated(n)
    \/ GetNote \/ GetNoteRefused
    \/ AddAddress \/ AddAddressUnexpected
    \/ Review

Next == MenuNext \/ NoteNext \/ ShareNext \/ LockNext \/ HostNext \/ PowerCut

Spec == Init /\ [][Next]_vars

-----------------------------------------------------------------------------
(* Properties.                                                             *)

\* The screens on which the user sees or edits a stored note.
NoteScreens == {"display", "newParagraph", "editParagraph", "changeTitle", "action",
                "deleteChoice"}

\* On these screens the working copy, which the host's commands and the other
\* pages share, is the note of a used slot, as saved: what is edited, saved or
\* deleted is what is shown.
EditedNoteIsSaved ==
    page.screen \in NoteScreens =>
        /\ working.index \in Used
        /\ notes[working.index] = EntryOf(working)
        /\ split

\* The list shows the slots in use, so no free slot can be opened from it.
ListIsCurrent == (page.screen = "list") => (page.listed = Used)

\* While the title of a new note is typed there is a free slot for it, though
\* the Plus button relies on a count made earlier and the host sends notes.
NewNoteHasRoom ==
    (page.screen = "editTitle") => (Used # Slots /\ CString = <<>>)

\* A passcode is only asked for while the notes are locked, and no screen that
\* edits a note is under the question.
ValidateOnlyWhenLocked ==
    (modal # NoModal) => (locked /\ page.screen \notin NoteScreens \cup {"editTitle"})

\* An index kept by the editor of a paragraph is one of the paragraphs.
EditedParagraphExists ==
    (page.screen = "editParagraph") => page.paragraph \in DOMAIN working.content

\* The editor of a new paragraph is only open on a note with room for it.
NewParagraphHasRoom ==
    (page.screen = "newParagraph") => Len(working.content) < NbMaxParagraphs

\* A new passcode is only entered while there is none, so it replaces none.
SetPinOnlyWhenOpen == (page.screen = "setPin") => ~locked

\* The invariants above, which hold together: each needs the others.
ScreensMatchStore ==
    /\ EditedNoteIsSaved
    /\ ListIsCurrent
    /\ NewNoteHasRoom
    /\ ValidateOnlyWhenLocked
    /\ EditedParagraphExists
    /\ NewParagraphHasRoom
    /\ SetPinOnlyWhenOpen

\* The step is a confirmation of the user on a screen about the note of slot i:
\* its title or its reception for a new note, its deletion, or an edit.
ConfirmedByUser(i) ==
    /\ modal = NoModal
    /\ IF notes[i] = Free THEN page.screen \in {"editTitle", "receiveChoice"}
       ELSE IF notes'[i] = Free
       THEN page.screen = "deleteChoice" /\ notes[i] = EntryOf(working)
       ELSE page.screen \in {"newParagraph", "editParagraph", "changeTitle"}
            /\ i = working.index

\* Whatever the host sends, a slot changes only by such a confirmation.
NotesChangeOnlyByUser ==
    [][\A i \in Slots : notes'[i] # notes[i] => ConfirmedByUser(i)]_vars

\* While the notes are locked their passcode stays the same, and only its entry
\* for this purpose removes the lock.
LockNeedsItsPasscode ==
    [][locked => /\ passcode' = passcode
                 /\ ~locked' => modal = [kind |-> "validate", after |-> "remove"]
                                /\ isUnlocked']_vars

\* Every command is answered, or waits for the user: "Handler for ADD_ADDRESS
\* command.  Send APDU response."
\* Not so: README, section 5.
CommandsAreAnswered == reply.sw # "unanswered"

\* GET_SHARED_NOTE, "convert note title+content in a buffer", asked while the
\* user shares a stored note whose paragraphs all have some text, gives its
\* title and its content.
SharedNoteIsWhole ==
    [][(/\ page.screen = "waitShare" /\ page'.screen = "noteSent"
        /\ notes[working.index] = EntryOf(working)
        /\ \A k \in DOMAIN working.content : working.content[k] # NoText)
          => reply'.note = notes[working.index]]_vars

\* A command that waits for the choice of the user still has its review on
\* screen, so that it can be answered: "derive public key/chain code and send
\* APDU response".
\* Not so: README, section 5.
PendingIsOnScreen == pending => page.screen = "review"

\* GET_SHARED_NOTE shows "Note sent" on the page that waits for the host to take
\* the note for the chosen receiver; once the user has left that page, with its
\* button "Cancel" for one, the note is not sent.
\* Not so: README, section 5.
SentWhileWaiting ==
    [][page'.screen = "noteSent" => page.screen \in {"waitShare", "noteSent"}]_vars
=============================================================================
