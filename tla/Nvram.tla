------------------------------- MODULE Nvram -------------------------------
(***************************************************************************)
(* The whole NVRAM of the notes (nvram_data.h, app_notes_utils.c): the     *)
(* notes of SlotStore and, behind the same header, the contacts.  The      *)
(* functions on contacts are those on notes over another mask and another  *)
(* array, of NB_MAX_CONTACTS slots, but the search loop of                 *)
(* app_notesAddContact is bounded by NB_MAX_NOTES as well.  ModifyContact  *)
(* and DeleteContact have no caller.                                       *)
(***************************************************************************)
EXTENDS SlotStore

CONSTANTS NbMaxContacts, Names, Addresses, NoName, NoAddress

ASSUME ContactAssumption ==
    /\ NbMaxContacts \in Nat
    /\ NbSlots <= NbMaxContacts
    /\ NoName \in Names
    /\ NoAddress \in Addresses

VARIABLES usedContacts, name, address, contactCall, contactResult

contactVars == <<usedContacts, name, address, contactCall, contactResult>>
nvramVars == <<vars, contactVars>>

Contacts == INSTANCE SlotStore WITH
                NbSlots <- NbMaxContacts, SearchBound <- NbSlots,
                Titles <- Names, Contents <- Addresses,
                NoTitle <- NoName, NoContent <- NoAddress,
                used <- usedContacts, title <- name, content <- address,
                call <- contactCall, result <- contactResult

ContactEntries == [title : Names, content : Addresses]

NvramInit == Init /\ Contacts!Init

\* app_notesInit: one header, and one write that zeroes both arrays.
AppInit ==
    \/ WriteHeader /\ Contacts!WriteHeader
    \/ WipeData /\ Contacts!WipeData
    \/ SkipInit /\ Contacts!SkipInit

\* A function on notes; the program is in one function at a time.
NoteStep ==
    /\ contactCall = Contacts!Idle
    /\ \/ \E e \in Entries : AddNote(e)
       \/ AddNoteFails
       \/ WriteNewTitle
       \/ WriteContent
       \/ \E i \in Slots, e \in Entries : ModifyNote(i, e)
       \/ \E i \in Slots : DeleteNote(i)
    /\ UNCHANGED contactVars

\* app_notesAddContact, up to its first write.
AddContact(c) == Contacts!AddNote(c)

AddContactFails == Contacts!AddNoteFails

\* The two string writes that end app_notesAddContact.
WriteContact == Contacts!WriteNewTitle \/ Contacts!WriteContent

ContactStep ==
    /\ call = Idle
    /\ \/ \E c \in ContactEntries : AddContact(c)
       \/ AddContactFails
       \/ WriteContact
    /\ UNCHANGED <<used, title, content, call, result>>

LosePower == PowerCut /\ Contacts!PowerCut

NvramNext == AppInit \/ NoteStep \/ ContactStep \/ LosePower

NvramSpec == NvramInit /\ [][NvramNext]_nvramVars

-----------------------------------------------------------------------------
(* Properties.                                                             *)

\* What a reader of the contacts finds after a power cut at any instant, though
\* their header is that of the notes: at most one slot is half written.
ContactInv == Contacts!TypeOK /\ Contacts!StoreInv

\* A contact once added stays as it is: no later call, on notes or contacts,
\* takes its slot, and no write nor power cut changes a used slot but the one of
\* the call in progress, even that one only as ContactInv says.
ContactsAreKept ==
    []ContactInv /\ [][\A s \in usedContacts :
          (contactCall.op = "none" \/ s # contactCall.slot)
              => /\ s \in usedContacts'
                 /\ name'[s] = name[s]
                 /\ address'[s] = address[s]
                 /\ contactCall'.op # "none" => s # contactCall'.slot]_nvramVars

\* app_notesAddContact, "Add the new address in any available slot", fails
\* only when no slot of the array is available.  Not so: README, section 5.
AddContactFailsOnlyWhenFull == Contacts!AddFailsOnlyWhenFull
=============================================================================
