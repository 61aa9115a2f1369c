----------------------------- MODULE Receivers -----------------------------
(***************************************************************************)
(* The choice of the receiver of a note (app_notes_share.c) and the entry  *)
(* of a new contact (app_notes_new_contact.c): the contacts listed, their  *)
(* pages, and the one copy, currentContact, that the two files share and   *)
(* that ADD_ADDRESS and GET_NOTE read on any screen.                       *)
(*                                                                         *)
(* Contacts are never deleted, so they are the sequence of their names, in *)
(* the order of their slots.  An address is stored and never read.         *)
(***************************************************************************)
EXTENDS BarPages, Sequences

CONSTANTS
    Names,             \* names that may be typed
    NoName,            \* the empty name
    NbMaxContacts,     \* NB_MAX_CONTACTS: where the Plus button stops
    SearchBound        \* NB_MAX_NOTES: where the search for a slot stops

ASSUME ReceiversAssumption ==
    /\ NoName \notin Names
    /\ NbMaxContacts \in Nat \ {0}
    /\ SearchBound \in 1 .. NbMaxContacts

VARIABLES
    contacts,                \* NVRAM
    nbUsedContacts,          \* how many were listed
    nbPages, currentPage, firstContactIndexInPage,
    selectedContactIndex,
    currentName,             \* currentContact.name
    note,                    \* context.note is set
    newContact,              \* newContact and its callback are set
    screen

listing == <<nbUsedContacts, nbPages, currentPage, firstContactIndexInPage>>
links == <<note, newContact>>
vars == <<contacts, listing, selectedContactIndex, currentName, links, screen>>

\* "elsewhere" is any page of another file.
Screens == {"share", "waitShare", "newContact", "waitAddress", "noteSent", "elsewhere"}

TypeOK ==
    /\ contacts \in Seq(Names \cup {NoName}) /\ Len(contacts) <= SearchBound
    /\ nbUsedContacts \in 0 .. NbMaxContacts
    /\ nbPages \in 0 .. NbMaxContacts
    /\ currentPage \in 0 .. NbMaxContacts - 1
    /\ firstContactIndexInPage \in 0 .. NbMaxContacts - 1
    /\ selectedContactIndex \in 0 .. NbMaxContacts - 1
    /\ currentName \in Names \cup {NoName}
    /\ note \in BOOLEAN /\ newContact \in BOOLEAN
    /\ screen \in Screens

Init ==
    /\ contacts = <<>>
    /\ nbUsedContacts = 0 /\ nbPages = 0 /\ currentPage = 0
    /\ firstContactIndexInPage = 0 /\ selectedContactIndex = 0
    /\ currentName = NoName
    /\ note = FALSE /\ newContact = FALSE
    /\ screen = "elsewhere"

-----------------------------------------------------------------------------
(* The cutting into pages: the functions of the list, with the names they  *)
(* have in app_notes_share.c.                                              *)

NbContactPages(n) == NbPagesTotal(n)
ContactsForPage(n, p, max) == NotesForPage(n, p, max)
PageForContactIndex(n, k, max) == PageForNoteIndex(n, k, max)

-----------------------------------------------------------------------------
(* buildScreen, with what it was called with.                              *)
BuildScreen(n, pages, p) ==
    /\ screen' = "share"
    /\ currentPage' = p
    /\ firstContactIndexInPage' =
            IF n = 0 THEN firstContactIndexInPage ELSE FirstInPage(n, p, MaxHeight(pages))

PageOfSelected(n, pages) ==
    IF n = 0 THEN currentPage
    ELSE PageForContactIndex(n, selectedContactIndex, MaxHeight(pages))

\* app_notesShare once the contacts are those of cs.
Share(cs) ==
    LET n == Len(cs)
        pages == NbContactPages(n)
    IN  /\ note' = TRUE
        /\ nbUsedContacts' = n
        /\ nbPages' = pages
        /\ BuildScreen(n, pages, PageOfSelected(n, pages))

\* The Share button of a note on display.
OpenShare ==
    /\ screen = "elsewhere"
    /\ Share(contacts)
    /\ UNCHANGED <<contacts, selectedContactIndex, currentName, newContact>>

\* onBackOnShare: Cancel on a page that waits for the host, back from a name.
BackOnShare ==
    /\ screen \in {"waitShare", "newContact", "waitAddress"}
    /\ Share(contacts)
    /\ UNCHANGED <<contacts, selectedContactIndex, currentName, newContact>>

\* The navigation bar, drawn when there are several pages.
Navigate(p) ==
    /\ screen = "share"
    /\ nbPages > 1 /\ p \in 0 .. nbPages - 1
    /\ BuildScreen(nbUsedContacts, nbPages, p)
    /\ UNCHANGED <<contacts, nbUsedContacts, nbPages, selectedContactIndex, currentName, links>>

Back ==
    /\ screen = "share"
    /\ selectedContactIndex' = 0
    /\ screen' = "elsewhere"
    /\ UNCHANGED <<contacts, listing, currentName, links>>

\* The Plus button: app_notesNewContact empties the copy, in which the name is
\* then typed.
TapPlus ==
    /\ screen = "share"
    /\ nbUsedContacts < NbMaxContacts
    /\ selectedContactIndex' = nbUsedContacts
    /\ currentName' = NoName
    /\ newContact' = TRUE
    /\ screen' = "newContact"
    /\ UNCHANGED <<contacts, listing, note>>

TypeName(n) ==
    /\ screen = "newContact"
    /\ currentName' = n
    /\ UNCHANGED <<contacts, listing, selectedContactIndex, links, screen>>

\* onNameConfirmed.  The name may have been erased: TextEdit.
ConfirmName ==
    /\ screen = "newContact"
    /\ screen' = "waitAddress"
    /\ UNCHANGED <<contacts, listing, selectedContactIndex, currentName, links>>

\* Mutant: the contact is looked for from the first one of all pages.
TouchBarOfFirstPage(b) ==
    /\ screen = "share"
    /\ firstContactIndexInPage + b
            \in ContactsForPage(nbUsedContacts, currentPage, MaxHeight(nbPages))
    /\ selectedContactIndex' = firstContactIndexInPage + b
    /\ currentName' = contacts[b + 1]
    /\ screen' = "waitShare"
    /\ UNCHANGED <<contacts, listing, links>>

\* The b-th bar of the page: the contact is copied, and the host waited for.
TouchBar(b) ==
    /\ screen = "share"
    /\ firstContactIndexInPage + b
            \in ContactsForPage(nbUsedContacts, currentPage, MaxHeight(nbPages))
    /\ selectedContactIndex' = firstContactIndexInPage + b
    /\ currentName' = contacts[selectedContactIndex' + 1]
    /\ screen' = "waitShare"
    /\ UNCHANGED <<contacts, listing, links>>

\* app_notesGetSharedNote, on any screen, once a share page was opened.
GetSharedNote ==
    /\ note
    /\ screen' = "noteSent"
    /\ UNCHANGED <<contacts, listing, selectedContactIndex, currentName, links>>

\* Mutant: the search for a slot does not stop.
AddContactAnyway == Append(contacts, currentName)

\* app_notesAddContact: the first free slot, if one is found.
AddContact ==
    IF Len(contacts) < SearchBound THEN Append(contacts, currentName) ELSE contacts

\* app_notesAddAddress, on any screen, once a name was asked for; the list is
\* shown even when there was no slot left.
AddAddress ==
    /\ newContact
    /\ contacts' = AddContact
    /\ Share(contacts')
    /\ UNCHANGED <<selectedContactIndex, currentName, newContact>>

\* Another command draws its page, or the status of a note sent ends.
Leave ==
    /\ screen # "elsewhere"
    /\ screen' = "elsewhere"
    /\ UNCHANGED <<contacts, listing, selectedContactIndex, currentName, links>>

\* The application ends (ADD_ADDRESS while newContact is not set is one way) or
\* the power is lost: the contacts are kept.
Restart ==
    /\ nbUsedContacts' = 0 /\ nbPages' = 0 /\ currentPage' = 0
    /\ firstContactIndexInPage' = 0 /\ selectedContactIndex' = 0
    /\ currentName' = NoName
    /\ note' = FALSE /\ newContact' = FALSE
    /\ screen' = "elsewhere"
    /\ UNCHANGED contacts

Next ==
    \/ OpenShare \/ BackOnShare \/ Back \/ TapPlus \/ ConfirmName
    \/ \E p \in 0 .. NbMaxContacts - 1 : Navigate(p) \/ TouchBar(p)
    \/ \E n \in Names \cup {NoName} : TypeName(n)
    \/ GetSharedNote \/ AddAddress \/ Leave \/ Restart

Spec == Init /\ [][Next]_vars

-----------------------------------------------------------------------------
(* Properties.                                                             *)

Listed == screen = "share" /\ nbUsedContacts > 0
Shown == ContactsForPage(nbUsedContacts, currentPage, MaxHeight(nbPages))

\* The list on display is that of the stored contacts, though commands add some
\* while it is: the index of a bar is that of the slot it names.
ListIsStored == screen = "share" => nbUsedContacts = Len(contacts)

\* While the user is told to have the note sent to someone, the copy holds the
\* contact whose bar was touched, from whatever page, and not a name being typed.
ReceiverIsListed ==
    screen = "waitShare" =>
        /\ selectedContactIndex < Len(contacts)
        /\ currentName = contacts[selectedContactIndex + 1]

\* The contact that is named, and the one that would be, is the one touched.
ContactsAreListed == ListIsStored /\ ReceiverIsListed

\* Whatever was selected, and whether or not the contact asked for was added, the
\* list is shown at one of its pages, with some of its contacts.
CurrentPageExists ==
    Listed => /\ currentPage < nbPages
              /\ firstContactIndexInPage \in Shown
              /\ Shown \subseteq 0 .. nbUsedContacts - 1

\* When the list is shown again after a contact was selected or added, that
\* contact is on the page, or is the next one after it.
SelectedIsNear ==
    [][screen # "share" /\ screen' = "share" /\ selectedContactIndex < Len(contacts')
        => selectedContactIndex \in Shown' \/ selectedContactIndex - 1 \in Shown']_vars

\* A contact is added only while the user is asked to have its address sent: on
\* the page whose only button is Cancel (app_notes_new_contact.c:50-77).
\* Not so: README, section 5.
AddedWhileAsked ==
    [][Len(contacts') > Len(contacts) => screen = "waitAddress"]_vars

=============================================================================
