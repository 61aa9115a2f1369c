----------------------------- MODULE SlotStore -----------------------------
(***************************************************************************)
(* The notes in NVRAM (app_notes_utils.c, nvram_struct.c): a bit mask of   *)
(* the used slots and an array of slots, changed by separate nvm_write     *)
(* calls.  Each write is a step; the power may be lost between any two.    *)
(* Written contents survive, the call in progress does not.                *)
(*                                                                         *)
(* The array of contacts has the same functions with other names and       *)
(* another bound in its search loop: Nvram puts both behind one header.    *)
(***************************************************************************)
EXTENDS Naturals

CONSTANTS
    NbSlots,      \* number of slots of the array
    SearchBound,  \* bound of the loop that looks for a free slot
    Titles,       \* values of the first field
    Contents,     \* values of the second field
    NoTitle,      \* the empty string
    NoContent,    \* the empty string
    Free          \* mapped entry of a free slot (see Notebook)

Slots == 0 .. NbSlots - 1

Entries == [title : Titles, content : Contents]

ASSUME StoreAssumption ==
    /\ NbSlots \in Nat \ {0}
    /\ SearchBound \in 1 .. NbSlots
    /\ NoTitle \in Titles
    /\ NoContent \in Contents
    /\ Free \notin Entries

VARIABLES
    header,   \* NVRAM: the "NVRA" header has been written
    used,     \* NVRAM: the bit mask usedNotes, as a set of slots
    title,    \* NVRAM: notes[i].title
    content,  \* NVRAM: notes[i].content
    power,    \* RAM: "off", "wiping" (in the middle of app_notesInit) or "on"
    call,     \* RAM: the call in progress, with the write it does next
    result    \* RAM: what the last call returned, Failed for a negative value

nvram == <<header, used, title, content>>
vars  == <<nvram, power, call, result>>

BlankEntry == [title |-> NoTitle, content |-> NoContent]

\* No call in progress.
Idle == [op |-> "none", next |-> "none", slot |-> 0,
         new |-> BlankEntry, old |-> BlankEntry]

\* Value of result for the "return -1" of app_notesAddNote.
Failed == NbSlots

\* The field "old" is a history field: what the slot held when the call began.
Calls == [op : {"add", "modify"}, next : {"title", "content"}, slot : Slots,
          new : Entries, old : Entries]

TypeOK ==
    /\ header \in BOOLEAN
    /\ used \in SUBSET Slots
    /\ title \in [Slots -> Titles]
    /\ content \in [Slots -> Contents]
    /\ power \in {"off", "wiping", "on"}
    /\ call \in Calls \cup {Idle}
    /\ result \in Slots \cup {Failed}

\* The application image as it is installed: an NVRAM full of zeros.
Init ==
    /\ header = FALSE
    /\ used = {}
    /\ title = [s \in Slots |-> NoTitle]
    /\ content = [s \in Slots |-> NoContent]
    /\ power = "off"
    /\ call = Idle
    /\ result = 0

-----------------------------------------------------------------------------
(* Start of the application.                                               *)

\* app_notesInit when the header is not there: nvram_init writes the header.
WriteHeader ==
    /\ power = "off"
    /\ ~header
    /\ header' = TRUE
    /\ power' = "wiping"
    /\ UNCHANGED <<used, title, content, call, result>>

\* The second write of app_notesInit zeroes the data.
WipeData ==
    /\ power = "wiping"
    /\ used' = {}
    /\ title' = [s \in Slots |-> NoTitle]
    /\ content' = [s \in Slots |-> NoContent]
    /\ power' = "on"
    /\ UNCHANGED <<header, call, result>>

\* app_notesInit when the header is there (its version is the only one).
SkipInit ==
    /\ power = "off"
    /\ header
    /\ power' = "on"
    /\ UNCHANGED <<nvram, call, result>>

Ready == power = "on" /\ call = Idle

-----------------------------------------------------------------------------
(* app_notesAddNote: search, mask, title, content.                         *)

\* Mutant: the search stops one slot early.
FreeSlotsFoundShort == {i \in 0 .. SearchBound - 2 : i \notin used}

\* Mutant: the search does not look at the mask.
FreeSlotsFoundBlind == 0 .. SearchBound - 1

FreeSlotsFound == {i \in 0 .. SearchBound - 1 : i \notin used}

\* The first free slot in the order of the loop.
IsFirstFree(i) ==
    /\ i \in FreeSlotsFound
    /\ \A j \in FreeSlotsFound : i <= j

\* Mutant: the mask is not written before the strings.
AddNoteUnmasked(e) ==
    /\ Ready
    /\ \E i \in Slots :
         /\ IsFirstFree(i)
         /\ call' = [op |-> "add", next |-> "title", slot |-> i, new |-> e,
                     old |-> [title |-> title[i], content |-> content[i]]]
    /\ UNCHANGED <<nvram, power, result>>

AddNote(e) ==
    /\ Ready
    /\ \E i \in Slots :
         /\ IsFirstFree(i)
         /\ used' = used \cup {i}
         /\ call' = [op |-> "add", next |-> "title", slot |-> i, new |-> e,
                     old |-> [title |-> title[i], content |-> content[i]]]
    /\ UNCHANGED <<header, title, content, power, result>>

AddNoteFails ==
    /\ Ready
    /\ FreeSlotsFound = {}
    /\ result' = Failed
    /\ UNCHANGED <<nvram, power, call>>

\* Mutant: the wrong string is written.
WriteNewTitleSwapped ==
    /\ power = "on"
    /\ call.op = "add"
    /\ call.next = "title"
    /\ title' = [title EXCEPT ![call.slot] = call.new.content]
    /\ call' = [call EXCEPT !.next = "content"]
    /\ UNCHANGED <<header, used, content, power, result>>

WriteNewTitle ==
    /\ power = "on"
    /\ call.op = "add"
    /\ call.next = "title"
    /\ title' = [title EXCEPT ![call.slot] = call.new.title]
    /\ call' = [call EXCEPT !.next = "content"]
    /\ UNCHANGED <<header, used, content, power, result>>

\* The last write of app_notesAddNote and of app_notesModifyNote.
WriteContent ==
    /\ power = "on"
    /\ call.next = "content"
    /\ content' = [content EXCEPT ![call.slot] = call.new.content]
    /\ result' = call.slot
    /\ call' = Idle
    /\ UNCHANGED <<header, used, title, power>>

-----------------------------------------------------------------------------
(* app_notesModifyNote and app_notesDeleteNote.  Neither looks at the mask:*)
(* that the slot is used is an obligation of the callers (NotesApp).       *)

ModifyNote(i, e) ==
    /\ Ready
    /\ i \in used
    /\ title' = [title EXCEPT ![i] = e.title]
    /\ call' = [op |-> "modify", next |-> "content", slot |-> i, new |-> e,
                old |-> [title |-> title[i], content |-> content[i]]]
    /\ UNCHANGED <<header, used, content, power, result>>

\* Mutant: a logical not in place of the complement of the bit.
DeleteNoteLogicalNot(i) ==
    /\ Ready
    /\ i \in used
    /\ used' = {}
    /\ result' = 0
    /\ UNCHANGED <<header, title, content, power, call>>

DeleteNote(i) ==
    /\ Ready
    /\ i \in used
    /\ used' = used \ {i}
    /\ result' = 0
    /\ UNCHANGED <<header, title, content, power, call>>

-----------------------------------------------------------------------------

\* The device loses its power, possibly between two writes.
PowerCut ==
    /\ power # "off"
    /\ power' = "off"
    /\ call' = Idle
    /\ result' = 0
    /\ UNCHANGED nvram

Next ==
    \/ WriteHeader
    \/ WipeData
    \/ SkipInit
    \/ \E e \in Entries : AddNote(e)
    \/ AddNoteFails
    \/ WriteNewTitle
    \/ WriteContent
    \/ \E i \in Slots, e \in Entries : ModifyNote(i, e)
    \/ \E i \in Slots : DeleteNote(i)
    \/ PowerCut

Spec == Init /\ [][Next]_vars

-----------------------------------------------------------------------------
(* Properties.                                                             *)

\* app_notesAddNote, "Add the new note in any available slot", fails only
\* when no slot of the array is available.
AddFailsOnlyWhenFull == (result = Failed) => (used = Slots)

\* A valid header stands before the first note, so what app_notesInit zeroes
\* is never a note, wherever a power cut interrupts it.
InitErasesNothing ==
    /\ ~header => (power = "off" /\ used = {})
    /\ (power = "wiping") => used = {}

\* While a call is in progress its slot is marked used, the second field still
\* has its old value, and the first field has its new value exactly when only
\* the second write is left.
CallMatchesNvram ==
    call # Idle =>
        /\ power = "on"
        /\ call.slot \in used
        /\ content[call.slot] = call.old.content
        /\ title[call.slot] = IF call.next = "content" THEN call.new.title
                                                       ELSE call.old.title
        /\ (call.op = "modify") => (call.next = "content")

\* What a reader of the NVRAM finds after a power cut at any instant: the mask
\* is consistent with the header, and at most the slot of the call in progress
\* is half written.  (With TypeOK, the inductive invariant of the module.)
StoreInv == InitErasesNothing /\ CallMatchesNvram

-----------------------------------------------------------------------------
(* Refinement: what the notes look like to a reader that trusts the calls. *)

\* A slot being added is not there before the call returns, a slot being
\* modified holds its old entry.
bookBar ==
    [s \in Slots |->
        IF s \notin used \/ (call.op = "add" /\ call.slot = s) THEN Free
        ELSE IF call.op = "modify" /\ call.slot = s THEN call.old
        ELSE [title |-> title[s], content |-> content[s]]]

requestBar ==
    IF call = Idle THEN [op |-> "none"]
    ELSE [op |-> call.op, slot |-> call.slot, entry |-> call.new]

NB == INSTANCE Notebook WITH book <- bookBar, request <- requestBar

\* Write by write, with the power lost anywhere, the storage keeps the promise
\* of Notebook.
ImplementsNotebook == NB!Spec
=============================================================================
