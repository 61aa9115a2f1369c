---------------------------- MODULE Nvram_proofs ----------------------------
(* Proofs about SlotStore, then about Nvram, its two instances behind one  *)
(* header, for any number of slots and any strings.                        *)
EXTENDS Nvram, TLAPS

\* What the proofs need to know of the constant parts.
LEMMA StoreFacts ==
    /\ 0 \in Slots
    /\ Slots \subseteq Nat
    /\ Failed \notin Slots
    /\ FreeSlotsFound \subseteq Slots
    /\ BlankEntry \in Entries
    /\ Idle \notin Calls
BY StoreAssumption, SMT DEF Slots, Failed, FreeSlotsFound, BlankEntry, Entries, Idle, Calls

\* The variables keep their types: TypeOK of SlotStore.
THEOREM TypeCorrect == Spec => []TypeOK
<1>1. Init => TypeOK
  BY StoreFacts, StoreAssumption DEF Init, TypeOK
<1>2. TypeOK /\ [Next]_vars => TypeOK'
  <2> SUFFICES ASSUME TypeOK, [Next]_vars PROVE TypeOK'
    OBVIOUS
  <2> USE StoreFacts DEF TypeOK
  <2>1. CASE WriteHeader
    BY <2>1 DEF WriteHeader
  <2>2. CASE WipeData
    BY <2>2, StoreAssumption DEF WipeData
  <2>3. CASE SkipInit
    BY <2>3 DEF SkipInit, nvram
  <2>4. ASSUME NEW e \in Entries, AddNote(e) PROVE TypeOK'
    BY <2>4 DEF AddNote, IsFirstFree, Calls, Entries
  <2>5. CASE AddNoteFails
    BY <2>5 DEF AddNoteFails, nvram
  <2>6. CASE WriteNewTitle
    BY <2>6 DEF WriteNewTitle, Calls, Entries, Idle
  <2>7. CASE WriteContent
    BY <2>7 DEF WriteContent, Calls, Entries, Idle
  <2>8. ASSUME NEW i \in Slots, NEW e \in Entries, ModifyNote(i, e) PROVE TypeOK'
    BY <2>8 DEF ModifyNote, Calls, Entries
  <2>9. ASSUME NEW i \in Slots, DeleteNote(i) PROVE TypeOK'
    BY <2>9 DEF DeleteNote
  <2>10. CASE PowerCut
    BY <2>10 DEF PowerCut, nvram
  <2>11. CASE UNCHANGED vars
    BY <2>11 DEF vars, nvram
  <2>12. QED
    BY <2>1, <2>2, <2>3, <2>4, <2>5, <2>6, <2>7, <2>8, <2>9, <2>10, <2>11 DEF Next
<1>3. QED BY <1>1, <1>2, PTL DEF Spec

\* Wherever the power is cut, the initialisation erases no note and at most
\* the slot of the call in progress is half written: StoreInv of SlotStore.
THEOREM StoreConsistent == Spec => []StoreInv
<1>1. Init => StoreInv
  BY DEF Init, StoreInv, InitErasesNothing, CallMatchesNvram
<1>2. TypeOK /\ StoreInv /\ [Next]_vars => StoreInv'
  <2> SUFFICES ASSUME TypeOK, StoreInv, [Next]_vars PROVE StoreInv'
    OBVIOUS
  <2> USE StoreFacts DEF TypeOK, StoreInv, InitErasesNothing, CallMatchesNvram, Ready
  <2>1. CASE WriteHeader
    BY <2>1 DEF WriteHeader
  <2>2. CASE WipeData
    BY <2>2 DEF WipeData
  <2>3. CASE SkipInit
    BY <2>3 DEF SkipInit, nvram
  <2>4. ASSUME NEW e \in Entries, AddNote(e) PROVE StoreInv'
    BY <2>4 DEF AddNote, IsFirstFree
  <2>5. CASE AddNoteFails
    BY <2>5 DEF AddNoteFails, nvram
  <2>6. CASE WriteNewTitle
    BY <2>6 DEF WriteNewTitle, Calls, Idle
  <2>7. CASE WriteContent
    BY <2>7 DEF WriteContent, Calls, Idle
  <2>8. ASSUME NEW i \in Slots, NEW e \in Entries, ModifyNote(i, e) PROVE StoreInv'
    BY <2>8 DEF ModifyNote
  <2>9. ASSUME NEW i \in Slots, DeleteNote(i) PROVE StoreInv'
    BY <2>9 DEF DeleteNote
  <2>10. CASE PowerCut
    BY <2>10 DEF PowerCut, nvram
  <2>11. CASE UNCHANGED vars
    BY <2>11 DEF vars, nvram
  <2>12. QED
    BY <2>1, <2>2, <2>3, <2>4, <2>5, <2>6, <2>7, <2>8, <2>9, <2>10, <2>11 DEF Next
<1>3. QED BY <1>1, <1>2, TypeCorrect, PTL DEF Spec

\* When the search loop covers the array, as it does for the notes,
\* app_notesAddNote fails only when every slot is used.
THEOREM AddNeedsRoom == ASSUME SearchBound = NbSlots PROVE Spec => []AddFailsOnlyWhenFull
<1> USE StoreFacts DEF TypeOK, AddFailsOnlyWhenFull
<1>1. Init => AddFailsOnlyWhenFull
  BY DEF Init
<1>2. TypeOK /\ StoreInv /\ AddFailsOnlyWhenFull /\ [Next]_vars => AddFailsOnlyWhenFull'
  <2> SUFFICES ASSUME TypeOK, StoreInv, AddFailsOnlyWhenFull, [Next]_vars
               PROVE  AddFailsOnlyWhenFull'
    OBVIOUS
  <2>1. CASE WriteHeader
    BY <2>1 DEF WriteHeader
  <2>2. CASE WipeData \/ SkipInit
    BY <2>2 DEF WipeData, SkipInit, nvram, StoreInv, InitErasesNothing
  <2>3. ASSUME NEW e \in Entries, AddNote(e) PROVE AddFailsOnlyWhenFull'
    BY <2>3 DEF AddNote
  <2>4. CASE AddNoteFails
    BY <2>4 DEF AddNoteFails, FreeSlotsFound, Slots, nvram
  <2>5. CASE WriteNewTitle
    BY <2>5 DEF WriteNewTitle
  <2>6. CASE WriteContent
    <3>1. call.slot \in Slots
      BY <2>6 DEF WriteContent, Calls, Idle
    <3>2. QED BY <3>1, <2>6 DEF WriteContent
  <2>7. ASSUME NEW i \in Slots, NEW e \in Entries, ModifyNote(i, e)
        PROVE  AddFailsOnlyWhenFull'
    BY <2>7 DEF ModifyNote
  <2>8. ASSUME NEW i \in Slots, DeleteNote(i) PROVE AddFailsOnlyWhenFull'
    BY <2>8 DEF DeleteNote
  <2>9. CASE PowerCut
    BY <2>9 DEF PowerCut
  <2>10. CASE UNCHANGED vars
    BY <2>10 DEF vars, nvram
  <2>11. QED
    BY <2>1, <2>2, <2>3, <2>4, <2>5, <2>6, <2>7, <2>8, <2>9, <2>10 DEF Next
<1>3. QED BY <1>1, <1>2, TypeCorrect, StoreConsistent, PTL DEF Spec

-----------------------------------------------------------------------------
(* The storage implements Notebook: one step of the store is one step of   *)
(* the notebook, or none.                                                  *)

LEMMA InitImplements == Init => NB!Init
BY DEF Init, NB!Init, NB!None, bookBar, requestBar

\* Between two calls the notebook has an entry where the mask has a bit.
LEMMA BarsWhenIdle ==
    ASSUME TypeOK, call = Idle
    PROVE  /\ requestBar = NB!None
           /\ \A s \in Slots : bookBar[s] = Free <=> s \notin used
<1>1. requestBar = NB!None
  BY DEF requestBar, NB!None
<1>2. ASSUME NEW s \in Slots PROVE bookBar[s] = Free <=> s \notin used
  <2>1. [title |-> title[s], content |-> content[s]] \in Entries
    BY DEF TypeOK, Entries
  <2>2. Free \notin Entries
    BY StoreAssumption
  <2>3. bookBar[s] = IF s \notin used THEN Free
                     ELSE [title |-> title[s], content |-> content[s]]
    BY DEF bookBar, Idle
  <2>4. QED BY <2>1, <2>2, <2>3
<1>3. QED BY <1>1, <1>2

LEMMA BarsInCall ==
    ASSUME TypeOK, call # Idle
    PROVE  /\ call \in Calls
           /\ requestBar = [op |-> call.op, slot |-> call.slot, entry |-> call.new]
           /\ requestBar # NB!None
BY DEF TypeOK, Idle, Calls, requestBar, NB!None

LEMMA StepImplements ==
    ASSUME TypeOK, StoreInv, [Next]_vars
    PROVE  [NB!Next]_(NB!vars)
<1> USE StoreFacts DEF NB!vars
<1>1. CASE WriteHeader \/ SkipInit \/ AddNoteFails
  BY <1>1 DEF WriteHeader, SkipInit, AddNoteFails, nvram, bookBar, requestBar
<1>2. CASE WipeData
  BY <1>2 DEF WipeData, StoreInv, InitErasesNothing, bookBar, requestBar
<1>3. ASSUME NEW e \in Entries, AddNote(e) PROVE NB!Next
  <2>1. PICK i \in Slots :
           /\ i \notin used
           /\ used' = used \cup {i}
           /\ call' = [op |-> "add", next |-> "title", slot |-> i, new |-> e,
                       old |-> [title |-> title[i], content |-> content[i]]]
    BY <1>3 DEF AddNote, IsFirstFree, FreeSlotsFound
  <2>2. call = Idle /\ UNCHANGED <<title, content>>
    BY <1>3 DEF AddNote, Ready
  <2>3. call' # Idle
    BY <2>1 DEF Idle
  <2>4. requestBar = NB!None /\ bookBar[i] = Free
    BY <2>1, <2>2, BarsWhenIdle
  <2>5. requestBar' = [op |-> "add", slot |-> i, entry |-> e]
    BY <2>1, <2>3 DEF requestBar
  <2>6. bookBar' = bookBar
    BY <2>1, <2>2 DEF bookBar, Idle
  <2>7. NB!Call("add", i, e)
    BY <2>4, <2>5, <2>6 DEF NB!Call
  <2>8. QED BY <2>7, <1>3 DEF NB!Next, NB!Entries, Entries
<1>4. CASE WriteNewTitle
  <2>1. call \in Calls /\ call # Idle /\ call.op = "add"
    BY <1>4 DEF WriteNewTitle, TypeOK, Idle
  <2>2. /\ call' \in Calls /\ call' # Idle /\ call'.op = "add"
        /\ call'.slot = call.slot /\ call'.new = call.new
    BY <1>4, <2>1 DEF WriteNewTitle, Calls, Idle
  <2>3. requestBar' = requestBar
    BY <2>1, <2>2 DEF requestBar
  <2>4. bookBar' = bookBar
    BY <1>4, <2>1, <2>2 DEF WriteNewTitle, bookBar, TypeOK, Calls
  <2>5. QED BY <2>3, <2>4
<1>5. CASE WriteContent
  <2>1. call \in Calls /\ call # Idle /\ call' = Idle /\ UNCHANGED <<used, title>>
    BY <1>5 DEF WriteContent, TypeOK, Idle
  <2>2. /\ call.slot \in Slots
        /\ call.slot \in used
        /\ title[call.slot] = call.new.title
        /\ content' = [content EXCEPT ![call.slot] = call.new.content]
    BY <1>5, <2>1 DEF WriteContent, Calls, StoreInv, CallMatchesNvram
  <2>3. requestBar # NB!None /\ requestBar' = NB!None
    BY <2>1, BarsInCall DEF NB!None, requestBar
  <2>4. requestBar.slot = call.slot /\ requestBar.entry = call.new
    BY <2>1, BarsInCall
  <2>5. call.new = [title |-> call.new.title, content |-> call.new.content]
    BY <2>1 DEF Calls, Entries
  <2>6. bookBar' = [bookBar EXCEPT ![call.slot] = call.new]
    BY <2>1, <2>2, <2>5 DEF bookBar, Idle, TypeOK
  <2>7. QED BY <2>3, <2>4, <2>6 DEF NB!Next, NB!Return
<1>6. ASSUME NEW i \in Slots, NEW e \in Entries, ModifyNote(i, e) PROVE NB!Next
  <2>1. /\ i \in used /\ call = Idle /\ UNCHANGED <<used, content>>
        /\ title' = [title EXCEPT ![i] = e.title]
        /\ call' = [op |-> "modify", next |-> "content", slot |-> i, new |-> e,
                    old |-> [title |-> title[i], content |-> content[i]]]
    BY <1>6 DEF ModifyNote, Ready
  <2>2. requestBar = NB!None /\ bookBar[i] # Free
    BY <2>1, BarsWhenIdle
  <2>3. requestBar' = [op |-> "modify", slot |-> i, entry |-> e]
    BY <2>1 DEF requestBar, Idle
  <2>4. bookBar' = bookBar
    BY <2>1 DEF bookBar, Idle, TypeOK
  <2>5. NB!Call("modify", i, e)
    BY <2>2, <2>3, <2>4 DEF NB!Call
  <2>6. QED BY <2>5 DEF NB!Next, NB!Entries, Entries
<1>7. ASSUME NEW i \in Slots, DeleteNote(i) PROVE NB!Next
  <2>1. /\ i \in used /\ call = Idle /\ call' = Idle /\ used' = used \ {i}
        /\ UNCHANGED <<title, content>>
    BY <1>7 DEF DeleteNote, Ready
  <2>2. requestBar = NB!None /\ requestBar' = requestBar /\ bookBar[i] # Free
    BY <2>1, BarsWhenIdle DEF requestBar
  <2>3. bookBar' = [bookBar EXCEPT ![i] = Free]
    BY <2>1 DEF bookBar, Idle
  <2>4. QED BY <2>2, <2>3 DEF NB!Next, NB!Delete
<1>8. CASE PowerCut
  <2>1. call' = Idle /\ UNCHANGED <<used, title, content>>
    BY <1>8 DEF PowerCut, nvram
  <2>2. CASE call = Idle
    BY <2>1, <2>2 DEF bookBar, requestBar
  <2>3. CASE call # Idle
    <3> DEFINE torn == [title |-> title[call.slot], content |-> content[call.slot]]
    <3>1. call \in Calls /\ call.slot \in used /\ call.slot \in Slots
      BY <2>3, BarsInCall DEF StoreInv, CallMatchesNvram, Calls
    <3>2. requestBar # NB!None /\ requestBar' = NB!None
      BY <2>1, <2>3, BarsInCall DEF requestBar, NB!None
    <3>3. /\ requestBar.op = call.op /\ requestBar.slot = call.slot
          /\ requestBar.entry = call.new
      BY <2>3, BarsInCall
    <3>4. bookBar' = [bookBar EXCEPT ![call.slot] = torn]
      BY <2>1, <3>1 DEF bookBar, Idle
    <3>5. torn \in NB!Torn(requestBar)
      <4>1. CASE call.op = "add"
        BY <3>1, <3>3, <4>1 DEF NB!Torn, NB!Entries, TypeOK
      <4>2. CASE call.op = "modify"
        <5>1. bookBar[call.slot] = call.old
          BY <3>1, <4>2 DEF bookBar
        <5>2. /\ title[call.slot] = call.new.title
              /\ content[call.slot] = call.old.content
          BY <2>3, <4>2 DEF StoreInv, CallMatchesNvram
        <5>3. QED BY <3>3, <4>2, <5>1, <5>2 DEF NB!Torn
      <4>3. QED BY <4>1, <4>2, <3>1 DEF Calls
    <3>6. QED BY <3>2, <3>3, <3>4, <3>5 DEF NB!Next, NB!Cut
  <2>4. QED BY <2>2, <2>3
<1>9. CASE UNCHANGED vars
  BY <1>9 DEF vars, nvram, bookBar, requestBar
<1>10. QED
  BY <1>1, <1>2, <1>3, <1>4, <1>5, <1>6, <1>7, <1>8, <1>9 DEF Next, NB!Next

\* Whatever the number of slots and wherever the power is lost, the storage
\* keeps the promise of Notebook: ImplementsNotebook of SlotStore.
THEOREM StoreImplementsNotebook == Spec => ImplementsNotebook
<1>1. Spec => [][NB!Next]_(NB!vars)
  BY StepImplements, TypeCorrect, StoreConsistent, PTL DEF Spec
<1>2. QED
  BY <1>1, InitImplements, PTL DEF Spec, ImplementsNotebook, NB!Spec

-----------------------------------------------------------------------------
(* The notes and the contacts in NVRAM.                                    *)

\* A step of the NVRAM is a step of the notes, or none.
LEMMA NvramStepIsStore == NvramNext => [Next]_vars
<1> SUFFICES ASSUME NvramNext PROVE [Next]_vars
  OBVIOUS
<1>1. CASE AppInit
  BY <1>1 DEF AppInit, Next
<1>2. CASE NoteStep
  BY <1>2 DEF NoteStep, Next
<1>3. CASE ContactStep
  <2>1. UNCHANGED <<used, title, content, call, result>>
    BY <1>3 DEF ContactStep
  <2>2. UNCHANGED <<header, power>>
    BY <1>3 DEF ContactStep, AddContact, AddContactFails, WriteContact, Contacts!AddNote,
                Contacts!AddNoteFails, Contacts!WriteNewTitle, Contacts!WriteContent,
                Contacts!nvram
  <2>3. QED BY <2>1, <2>2 DEF vars, nvram
<1>4. CASE LosePower
  BY <1>4 DEF LosePower, Next
<1>5. QED BY <1>1, <1>2, <1>3, <1>4 DEF NvramNext

\* The notes of the NVRAM are a SlotStore: all that is proved of it holds of
\* them, whatever is done to the contacts behind the same header.
THEOREM NotesAreStore == NvramSpec => Spec
<1>1. [NvramNext]_nvramVars => [Next]_vars
  BY NvramStepIsStore DEF nvramVars
<1>2. NvramInit => Init
  BY DEF NvramInit
<1>3. QED BY <1>1, <1>2, PTL DEF NvramSpec, Spec

\* What the proofs need to know of the constant parts of the contacts.
LEMMA ContactFacts ==
    /\ 0 \in Contacts!Slots
    /\ Contacts!FreeSlotsFound \subseteq Contacts!Slots
    /\ Contacts!BlankEntry \in ContactEntries
    /\ Contacts!Entries = ContactEntries
    /\ Contacts!Idle \notin Contacts!Calls
    /\ Contacts!Idle.op = "none"
    /\ \A c \in Contacts!Calls : c.op # "none" /\ c.slot \in Contacts!Slots
<1>1. NbMaxContacts \in Nat \ {0} /\ NbSlots \in 1 .. NbMaxContacts
  BY StoreAssumption, ContactAssumption
<1>2. 0 \in Contacts!Slots /\ Contacts!FreeSlotsFound \subseteq Contacts!Slots
  BY <1>1 DEF Contacts!Slots, Contacts!FreeSlotsFound
<1>3. Contacts!BlankEntry \in ContactEntries /\ Contacts!Entries = ContactEntries
  BY ContactAssumption DEF Contacts!BlankEntry, Contacts!Entries, ContactEntries
<1>4. Contacts!Idle.op = "none"
  BY DEF Contacts!Idle
<1>5. \A c \in Contacts!Calls : c.op # "none" /\ c.slot \in Contacts!Slots
  BY DEF Contacts!Calls
<1>6. QED BY <1>2, <1>3, <1>4, <1>5

LEMMA ContactInvInit == NvramInit => ContactInv
BY ContactFacts, ContactAssumption
   DEF NvramInit, Contacts!Init, ContactInv, Contacts!TypeOK, Contacts!StoreInv,
       Contacts!InitErasesNothing, Contacts!CallMatchesNvram

LEMMA ContactInvStep == TypeOK /\ ContactInv /\ [NvramNext]_nvramVars => ContactInv'
<1> SUFFICES ASSUME TypeOK, ContactInv, [NvramNext]_nvramVars PROVE ContactInv'
  OBVIOUS
<1> USE ContactFacts
    DEF ContactInv, Contacts!TypeOK, Contacts!StoreInv, Contacts!InitErasesNothing,
        Contacts!CallMatchesNvram, Contacts!Ready
<1>1. CASE AppInit
  BY <1>1, ContactAssumption
     DEF AppInit, Contacts!WriteHeader, Contacts!WipeData, Contacts!SkipInit, Contacts!nvram
<1>2. CASE NoteStep
  <2>1. UNCHANGED contactVars
    BY <1>2 DEF NoteStep
  <2>2. UNCHANGED <<header, power>>
    BY <1>2 DEF NoteStep, AddNote, AddNoteFails, WriteNewTitle, WriteContent, ModifyNote,
                DeleteNote, nvram
  <2>3. QED BY <2>1, <2>2 DEF contactVars
<1>3. ASSUME NEW c \in ContactEntries, AddContact(c) PROVE ContactInv'
  <2> DEFINE CallFor(i) == [op |-> "add", next |-> "title", slot |-> i, new |-> c,
                            old |-> [title |-> name[i], content |-> address[i]]]
  <2>1. /\ power = "on" /\ contactCall = Contacts!Idle
        /\ UNCHANGED <<header, name, address, power, contactResult>>
    BY <1>3 DEF AddContact, Contacts!AddNote
  <2>2. PICK i \in Contacts!Slots :
           usedContacts' = usedContacts \cup {i} /\ contactCall' = CallFor(i)
    BY <1>3 DEF AddContact, Contacts!AddNote
  <2>3. name[i] \in Names /\ address[i] \in Addresses
    OBVIOUS
  <2>4. CallFor(i) \in Contacts!Calls
    BY <2>3 DEF Contacts!Calls, Contacts!Entries, ContactEntries
  <2>5. /\ contactCall'.op = "add" /\ contactCall'.next = "title" /\ contactCall'.slot = i
        /\ contactCall'.old.title = name[i] /\ contactCall'.old.content = address[i]
    BY <2>2
  <2> HIDE DEF CallFor
  <2>6. Contacts!TypeOK'
    BY <2>1, <2>2, <2>4
  <2>7. header /\ power # "wiping"
    BY <2>1
  <2>8. Contacts!StoreInv'
    BY <2>1, <2>2, <2>5, <2>7
  <2>9. QED BY <2>6, <2>8
<1>4. CASE AddContactFails
  BY <1>4 DEF AddContactFails, Contacts!AddNoteFails, Contacts!nvram
<1>5. CASE Contacts!WriteNewTitle
  BY <1>5 DEF Contacts!WriteNewTitle, Contacts!Calls, Contacts!Entries
<1>6. CASE Contacts!WriteContent
  BY <1>6 DEF Contacts!WriteContent, Contacts!Calls, Contacts!Entries, Contacts!Idle
<1>7. CASE LosePower
  BY <1>7 DEF LosePower, Contacts!PowerCut, Contacts!nvram
<1>8. CASE UNCHANGED nvramVars
  BY <1>8 DEF nvramVars, contactVars, vars, nvram
<1>9. QED
  BY <1>1, <1>2, <1>3, <1>4, <1>5, <1>6, <1>7, <1>8
     DEF NvramNext, ContactStep, WriteContact

\* What the second part of ContactsAreKept says of one step.
KeepsContacts ==
    \A s \in usedContacts :
        (contactCall.op = "none" \/ s # contactCall.slot)
            => /\ s \in usedContacts'
               /\ name'[s] = name[s]
               /\ address'[s] = address[s]
               /\ contactCall'.op # "none" => s # contactCall'.slot

LEMMA StepKeepsContacts == ContactInv /\ [NvramNext]_nvramVars => [KeepsContacts]_nvramVars
<1> SUFFICES ASSUME ContactInv, NvramNext,
                    NEW s \in usedContacts, contactCall.op = "none" \/ s # contactCall.slot
             PROVE  /\ s \in usedContacts'
                    /\ name'[s] = name[s]
                    /\ address'[s] = address[s]
                    /\ contactCall'.op # "none" => s # contactCall'.slot
  BY DEF KeepsContacts
<1> USE ContactFacts DEF ContactInv, Contacts!TypeOK, Contacts!StoreInv, Contacts!Ready
<1>0. s \in Contacts!Slots /\ (contactCall = Contacts!Idle \/ contactCall \in Contacts!Calls)
  OBVIOUS
<1>1. CASE AppInit
  BY <1>1 DEF AppInit, Contacts!WriteHeader, Contacts!WipeData, Contacts!SkipInit,
              Contacts!nvram, Contacts!InitErasesNothing
<1>2. CASE NoteStep
  BY <1>2 DEF NoteStep, contactVars
<1>3. ASSUME NEW c \in ContactEntries, AddContact(c) PROVE s \in usedContacts' /\ name' = name
             /\ address' = address /\ s # contactCall'.slot
  BY <1>3 DEF AddContact, Contacts!AddNote, Contacts!IsFirstFree, Contacts!FreeSlotsFound
<1>4. CASE AddContactFails
  BY <1>4 DEF AddContactFails, Contacts!AddNoteFails, Contacts!nvram
<1>5. CASE Contacts!WriteNewTitle
  BY <1>0, <1>5 DEF Contacts!WriteNewTitle, Contacts!Calls
<1>6. CASE Contacts!WriteContent
  BY <1>0, <1>6 DEF Contacts!WriteContent, Contacts!Calls, Contacts!Idle
<1>7. CASE LosePower
  BY <1>7 DEF LosePower, Contacts!PowerCut, Contacts!nvram
<1>8. QED
  BY <1>1, <1>2, <1>3, <1>4, <1>5, <1>6, <1>7 DEF NvramNext, ContactStep, WriteContact

\* The contacts share the header of the notes, and their own search loop does
\* not cover their array: all the same a contact once added stays as it is, and
\* at most the slot of the call in progress is half written.
THEOREM ContactsKept == NvramSpec => ContactsAreKept
<1>1. NvramSpec => []TypeOK
  BY NotesAreStore, TypeCorrect, PTL
<1>2. NvramSpec => []ContactInv
  BY <1>1, ContactInvInit, ContactInvStep, PTL DEF NvramSpec
<1>3. NvramSpec => [][KeepsContacts]_nvramVars
  BY <1>2, StepKeepsContacts, PTL DEF NvramSpec
<1>4. QED BY <1>2, <1>3, PTL DEF ContactsAreKept, KeepsContacts
=============================================================================
