-------------------------- MODULE NotesApp_proofs --------------------------
(***************************************************************************)
(* Proofs about NotesApp, for any number of slots, paragraphs and texts:   *)
(* the types and the invariants that tie the screens to the storage.  The  *)
(* inductive invariant is their conjunction: a note opened from the list   *)
(* is one because the list is current, a paragraph is replaced by one      *)
(* because the index kept by its editor exists, and so on.                 *)
(***************************************************************************)
EXTENDS NotesApp, SequenceTheorems, TLAPS

-----------------------------------------------------------------------------
(* Contents.                                                               *)

LEMMA ContentIsSequence ==
    ASSUME NEW c \in Contents
    PROVE  /\ c \in Seq(Texts)
           /\ Len(c) \in 0 .. NbMaxParagraphs
           /\ DOMAIN c = 1 .. Len(c)
           /\ c # <<NoText>>
<1>1. PICK n \in 0 .. NbMaxParagraphs : c \in [1 .. n -> Texts]
  BY DEF Contents
<1>2. n \in Nat
  BY <1>1, NotesAssumption
<1>3. c \in Seq(Texts)
  BY <1>1, <1>2, SeqDef
<1>4. Len(c) \in Nat /\ 1 .. Len(c) = 1 .. n
  BY <1>1, <1>3, LenProperties
<1>5. Len(c) = n
  <2>1. Len(c) \in 1 .. Len(c) \/ Len(c) = 0
    BY <1>4
  <2>2. n \in 1 .. n \/ n = 0
    BY <1>2
  <2>3. QED BY <1>2, <1>4, <2>1, <2>2
<1>6. c # <<NoText>>
  BY Zenon DEF Contents
<1>7. Len(c) \in 0 .. NbMaxParagraphs /\ DOMAIN c = 1 .. Len(c)
  BY <1>1, <1>5
<1>8. QED BY <1>3, <1>6, <1>7, Zenon

LEMMA SequenceIsContent ==
    ASSUME NEW c \in Seq(Texts), Len(c) <= NbMaxParagraphs, c # <<NoText>>
    PROVE  c \in Contents
<1>1. Len(c) \in 0 .. NbMaxParagraphs /\ c \in [1 .. Len(c) -> Texts]
  BY LenProperties, NotesAssumption
<1>2. c \in UNION {[1 .. n -> Texts] : n \in 0 .. NbMaxParagraphs}
  BY <1>1
<1>3. QED BY <1>2, Zenon DEF Contents

LEMMA EmptyContent == <<>> \in Contents
<1>1. <<>> \in Seq(Texts) /\ Len(<<>>) = 0
  BY EmptySeq
<1>2. <<>> # <<NoText>>
  OBVIOUS
<1>3. Len(<<>>) <= NbMaxParagraphs
  BY <1>1, NotesAssumption
<1>4. QED BY <1>1, <1>2, <1>3, SequenceIsContent

LEMMA NormalIsContent ==
    ASSUME NEW c \in Seq(Texts), Len(c) <= NbMaxParagraphs
    PROVE  Normal(c) \in Contents
BY EmptyContent, SequenceIsContent DEF Normal

LEMMA AppendIsContent ==
    ASSUME NEW c \in Contents, NEW t \in Texts, Len(c) < NbMaxParagraphs
    PROVE  Normal(Append(c, t)) \in Contents
<1>1. c \in Seq(Texts)
  BY ContentIsSequence
<1>2. Append(c, t) \in Seq(Texts) /\ Len(Append(c, t)) = Len(c) + 1
  BY <1>1, AppendProperties
<1>3. Len(Append(c, t)) <= NbMaxParagraphs
  BY <1>2, ContentIsSequence, NotesAssumption
<1>4. QED BY <1>2, <1>3, NormalIsContent

LEMMA ModifiedIsContent ==
    ASSUME NEW c \in Contents, NEW k \in DOMAIN c, NEW t \in Texts
    PROVE  Modified(c, k, t) \in Contents
<1>1. CASE t = NoText
  BY <1>1, RemovalAssumption DEF Modified
<1>2. CASE t # NoText
  <2>1. PICK n \in 0 .. NbMaxParagraphs : c \in [1 .. n -> Texts]
    BY DEF Contents
  <2>2. [c EXCEPT ![k] = t] \in [1 .. n -> Texts]
    BY <2>1
  <2>3. [c EXCEPT ![k] = t] # <<NoText>>
    BY <1>2, <2>1
  <2>4. QED BY <1>2, <2>1, <2>2, <2>3 DEF Modified, Contents
<1>3. QED BY <1>1, <1>2

LEMMA CStringIsContent ==
    ASSUME working.content \in Contents
    PROVE  CString \in Contents
<1>1. CASE split /\ working.content # <<>>
  <2>1. working.content \in Seq(Texts) /\ Len(working.content) >= 1
    BY <1>1, ContentIsSequence, EmptySeq
  <2>2. working.content[1] \in Texts
    BY <2>1, ElementOfSeq
  <2>3. <<working.content[1]>> \in Seq(Texts) /\ Len(<<working.content[1]>>) = 1
    BY <2>2
  <2>4. 1 <= NbMaxParagraphs
    BY NotesAssumption
  <2>5. Normal(<<working.content[1]>>) \in Contents
    BY <2>3, <2>4, NormalIsContent
  <2>6. QED BY <1>1, <2>5 DEF CString
<1>2. CASE ~(split /\ working.content # <<>>)
  BY <1>2 DEF CString
<1>3. QED BY <1>1, <1>2

-----------------------------------------------------------------------------
(* Values.                                                                 *)

Copies == [index : Slots, title : Texts, content : Contents]

\* A screen that does not show or edit a stored note, nor creates one, nor a
\* passcode.
Neutral(p) == p.screen \notin NoteScreens \cup {"editTitle", "setPin"}

LEMMA NoteScreensArePlain == NoteScreens \ {"editParagraph"} \subseteq PlainScreens
BY DEF NoteScreens, PlainScreens

LEMMA PlainIsPage ==
    ASSUME NEW s \in PlainScreens
    PROVE  Plain(s) \in Pages /\ Plain(s).screen = s
BY DEF Plain, Pages

LEMMA PageFields ==
    ASSUME page \in Pages
    PROVE  /\ page.screen = "list" => page.listed \in SUBSET Slots
           /\ page.screen = "share" => page.listed \in SUBSET ContactSlots
           /\ page.screen = "editTitle" => page.back \in {"menu", "list"}
           /\ page.screen = "editParagraph" => page.paragraph \in 1 .. NbMaxParagraphs
           /\ page.screen = "receiveChoice" => page.note \in Notes
BY DEF Pages, PlainScreens

LEMMA ListIsPage ==
    /\ ListPage \in Pages
    /\ ListPage.screen = "list"
    /\ ListPage.listed = Used
BY DEF ListPage, Pages, Used

LEMMA ShareIsPage ==
    ASSUME NEW known \in SUBSET ContactSlots
    PROVE  SharePage(known) \in Pages /\ SharePage(known).screen = "share"
BY DEF SharePage, Pages

LEMMA BlanksAreNotes ==
    /\ BlankNote \in Notes
    /\ BlankCopy \in Copies
<1>1. NoText \in Texts /\ 0 \in Slots
  BY NotesAssumption DEF Slots
<1>2. QED BY <1>1, EmptyContent DEF BlankNote, BlankCopy, Notes, Copies

LEMMA AnswerIsReply ==
    ASSUME NEW n \in Notes,
           NEW sw \in {"none", "ok", "denied", "noSharedNote", "wrongLength", "unanswered"}
    PROVE  Answer(sw, n) \in Replies
BY DEF Answer, Replies

LEMMA SilenceIsReply == Silence \in Replies
BY BlanksAreNotes, AnswerIsReply DEF Silence

LEMMA EntryIsNote ==
    ASSUME NEW w \in Copies
    PROVE  EntryOf(w) \in Notes /\ EntryOf(w) # Free
BY NotesAssumption DEF EntryOf, Copies, Notes

-----------------------------------------------------------------------------
(* The inductive invariant, and what the screens do to it.                 *)

IInv == TypeOK /\ ScreensMatchStore

\* A step to a screen that has no note, with the list read if it is the list.
LEMMA NeutralStep ==
    ASSUME TypeOK', Neutral(page'),
           page'.screen = "list" => page'.listed = Used',
           modal' # NoModal => locked'
    PROVE  IInv'
BY DEF IInv, ScreensMatchStore, Neutral, EditedNoteIsSaved, ListIsCurrent, NewNoteHasRoom,
       ValidateOnlyWhenLocked, EditedParagraphExists,
       NewParagraphHasRoom, SetPinOnlyWhenOpen, NoteScreens

\* A handler that only goes to such a screen.
LEMMA GoStep ==
    ASSUME IInv, NEW p \in Pages, Go(p), Neutral(p),
           p.screen = "list" => p.listed = Used,
           reply' \in Replies, pending' \in BOOLEAN
    PROVE  IInv'
<1>1. TypeOK'
  BY DEF IInv, TypeOK, Go, nvram, copy, links
<1>2. Used' = Used
  BY DEF Go, nvram, Used
<1>3. modal' # NoModal => locked'
  BY DEF IInv, ScreensMatchStore, ValidateOnlyWhenLocked, Go, nvram
<1>4. page' = p
  BY DEF Go
<1>5. QED BY <1>1, <1>2, <1>3, <1>4, NeutralStep

\* From a screen with a note to another one.
LEMMA NoteStep ==
    ASSUME IInv, NEW p \in Pages, Go(p), modal = NoModal,
           page.screen \in NoteScreens, p.screen \in NoteScreens,
           p.screen = "newParagraph" => Len(working.content) < NbMaxParagraphs,
           p.screen = "editParagraph" => p.paragraph \in DOMAIN working.content,
           reply' \in Replies, pending' \in BOOLEAN
    PROVE  IInv'
<1>1. TypeOK'
  BY DEF IInv, TypeOK, Go, nvram, copy, links
<1>2. QED
  BY <1>1 DEF IInv, ScreensMatchStore, EditedNoteIsSaved, ListIsCurrent, NewNoteHasRoom,
       ValidateOnlyWhenLocked, EditedParagraphExists,
       NewParagraphHasRoom, SetPinOnlyWhenOpen, NoteScreens,
       Go, nvram, copy, Used, EntryOf

\* A note is displayed, from a copy that was just read from it or saved to it.
LEMMA DisplayStep ==
    ASSUME IInv, NEW w \in Copies, Display(w), modal = NoModal,
           notes' \in [Slots -> Notes \cup {Free}], notes'[w.index] = EntryOf(w),
           UNCHANGED <<contacts, locked, passcode, isUnlocked, links, modal>>,
           reply' \in Replies, pending' \in BOOLEAN
    PROVE  IInv'
<1>1. page' = Plain("display") /\ page' \in Pages /\ page'.screen = "display"
  BY PlainIsPage DEF Display, PlainScreens
<1>2. TypeOK'
  BY <1>1 DEF IInv, TypeOK, Display, links, Copies
<1>3. w.index \in Used'
  BY EntryIsNote DEF Used, Copies
<1>4. QED
  BY <1>1, <1>2, <1>3 DEF IInv, ScreensMatchStore, EditedNoteIsSaved, ListIsCurrent,
       NewNoteHasRoom, ValidateOnlyWhenLocked, EditedParagraphExists,
       NewParagraphHasRoom, SetPinOnlyWhenOpen,
       NoteScreens, Display, EntryOf

\* The copy is emptied for a new note while a slot is free.
LEMMA NewNoteStep ==
    ASSUME IInv, NEW back \in {"menu", "list"}, NewNote(back), Used # Slots,
           UNCHANGED <<nvram, passcode, links>>,
           isUnlocked' \in BOOLEAN, modal' = NoModal,
           reply' \in Replies, pending' \in BOOLEAN
    PROVE  IInv'
<1>1. page' \in Pages /\ page'.screen = "editTitle"
  BY DEF NewNote, Pages
<1>2. working' \in Copies /\ working'.content = <<>> /\ split' = FALSE
  BY EmptyContent, NotesAssumption DEF NewNote, IInv, TypeOK, Copies
<1>3. TypeOK'
  BY <1>1, <1>2 DEF IInv, TypeOK, nvram, links, Copies
<1>4. Used' # Slots /\ CString' = <<>>
  BY <1>2 DEF Used, CString, nvram
<1>5. QED
  BY <1>1, <1>3, <1>4 DEF IInv, ScreensMatchStore, EditedNoteIsSaved, ListIsCurrent,
       NewNoteHasRoom, ValidateOnlyWhenLocked, EditedParagraphExists,
       NewParagraphHasRoom, SetPinOnlyWhenOpen,
       NoteScreens

\* The notes are opened: the list, or a first note.
LEMMA OpenStep ==
    ASSUME IInv, OpenNotes, UNCHANGED <<nvram, links>>,
           isUnlocked' \in BOOLEAN, modal' = NoModal,
           reply' \in Replies, pending' \in BOOLEAN
    PROVE  IInv'
<1>1. CASE Used = {}
  <2>1. Used # Slots
    BY <1>1, NotesAssumption DEF Slots
  <2>2. QED BY <1>1, <2>1, NewNoteStep DEF OpenNotes, nvram
<1>2. CASE Used # {}
  <2>1. page' = ListPage /\ UNCHANGED copy
    BY <1>2 DEF OpenNotes
  <2>2. TypeOK'
    BY <2>1, ListIsPage DEF IInv, TypeOK, nvram, links, copy
  <2>3. Neutral(page') /\ page'.listed = Used'
    BY <2>1, ListIsPage DEF Neutral, NoteScreens, Used, nvram
  <2>4. QED BY <2>2, <2>3, NeutralStep
<1>3. QED BY <1>1, <1>2

\* The RAM is lost.
LEMMA RestartStep ==
    ASSUME IInv, Restart, reply' \in Replies
    PROVE  IInv'
<1>1. page' \in Pages /\ page'.screen = "menu"
  BY PlainIsPage DEF Restart, PlainScreens
<1>2. TypeOK'
  BY <1>1, BlanksAreNotes DEF IInv, TypeOK, Restart, nvram, Copies
<1>3. QED BY <1>1, <1>2, NeutralStep DEF Restart, Neutral, NoteScreens

-----------------------------------------------------------------------------
(* Every action keeps the invariant.                                       *)

LEMMA StartInv == Init => IInv
<1> SUFFICES ASSUME Init PROVE IInv
  OBVIOUS
<1>1. page \in Pages /\ page.screen = "menu"
  BY PlainIsPage DEF Init, PlainScreens
<1>2. TypeOK
  BY <1>1, BlanksAreNotes, SilenceIsReply DEF Init, TypeOK, Copies
<1>3. ScreensMatchStore
  BY <1>1 DEF Init, ScreensMatchStore, EditedNoteIsSaved, ListIsCurrent, NewNoteHasRoom,
       ValidateOnlyWhenLocked, EditedParagraphExists,
       NewParagraphHasRoom, SetPinOnlyWhenOpen, NoteScreens
<1>4. QED BY <1>2, <1>3 DEF IInv

\* A touch answers no command.
LEMMA TouchQuiet ==
    ASSUME IInv, NEW s, Touch(s)
    PROVE  /\ modal = NoModal
           /\ page.screen = s
           /\ reply' \in Replies
           /\ pending' \in BOOLEAN
BY SilenceIsReply DEF IInv, TypeOK, Touch, TouchOf

\* The plain screens without a note, and the lists, as arguments of Go.
LEMMA PlainNeutral ==
    ASSUME NEW s \in PlainScreens, s \notin NoteScreens \cup {"setPin"}
    PROVE  Plain(s) \in Pages /\ Neutral(Plain(s)) /\ Plain(s).screen # "list"
BY PlainIsPage DEF Neutral, PlainScreens

LEMMA ListNeutral ==
    ListPage \in Pages /\ Neutral(ListPage) /\ ListPage.listed = Used
BY ListIsPage DEF Neutral, NoteScreens

LEMMA ShareNeutral ==
    ASSUME NEW known \in SUBSET ContactSlots
    PROVE  /\ SharePage(known) \in Pages
           /\ Neutral(SharePage(known))
           /\ SharePage(known).screen # "list"
BY ShareIsPage DEF Neutral, NoteScreens

\* A touch that goes to a plain screen without a note, or to the list.
LEMMA TouchToPlain ==
    ASSUME IInv, NEW s, Touch(s),
           NEW q \in PlainScreens \ (NoteScreens \cup {"setPin"}), Go(Plain(q))
    PROVE  IInv'
BY TouchQuiet, PlainNeutral, GoStep

LEMMA TouchToList ==
    ASSUME IInv, NEW s, Touch(s), Go(ListPage)
    PROVE  IInv'
BY TouchQuiet, ListNeutral, GoStep

\* A touch that goes from a note screen to another plain one.
LEMMA TouchToNote ==
    ASSUME IInv, NEW s \in NoteScreens, Touch(s),
           NEW q \in (PlainScreens \cap NoteScreens) \ {"newParagraph"}, Go(Plain(q))
    PROVE  IInv'
<1>1. Plain(q) \in Pages /\ Plain(q).screen = q
  BY PlainIsPage
<1>2. q # "newParagraph" /\ q # "editParagraph"
  BY DEF PlainScreens
<1>3. QED BY <1>1, <1>2, TouchQuiet, NoteStep

LEMMA MenuKeeps == IInv /\ MenuNext => IInv'
<1> SUFFICES ASSUME IInv, MenuNext PROVE IInv'
  OBVIOUS
<1>1. CASE ActionButton
  <2>1. modal = NoModal /\ page.screen = "menu" /\ reply' \in Replies /\ pending' \in BOOLEAN
    BY <1>1, TouchQuiet DEF ActionButton
  <2>2. CASE locked /\ ~isUnlocked
    <3>1. UNCHANGED <<nvram, isUnlocked, copy, links, page>>
          /\ modal' = [kind |-> "validate", after |-> "open"]
      BY <1>1, <2>2 DEF ActionButton
    <3>2. TypeOK'
      BY <2>1, <3>1 DEF IInv, TypeOK, nvram, copy, links, Modals
    <3>3. Neutral(page') /\ page'.screen # "list"
      BY <2>1, <3>1 DEF Neutral, NoteScreens
    <3>4. locked'
      BY <2>2, <3>1 DEF nvram
    <3>5. QED BY <3>2, <3>3, <3>4, NeutralStep
  <2>3. CASE ~(locked /\ ~isUnlocked)
    <3>1. OpenNotes /\ UNCHANGED <<nvram, isUnlocked, links, modal>>
      BY <1>1, <2>3 DEF ActionButton
    <3>2. isUnlocked' \in BOOLEAN /\ modal' = NoModal
      BY <2>1, <3>1 DEF IInv, TypeOK
    <3>3. QED BY <2>1, <3>1, <3>2, OpenStep
  <2>4. QED BY <2>2, <2>3
<1>2. CASE OpenSettings
  BY <1>2, TouchToPlain DEF OpenSettings, PlainScreens, NoteScreens
<1>3. CASE Quit
  BY <1>3, RestartStep, SilenceIsReply DEF Quit, TouchOf
<1>4. QED BY <1>1, <1>2, <1>3 DEF MenuNext

\* What the invariant says on a screen with a note.
LEMMA NoteOnScreen ==
    ASSUME IInv, page.screen \in NoteScreens
    PROVE  /\ working \in Copies
           /\ working.index \in Used
           /\ notes[working.index] = EntryOf(working)
           /\ notes \in [Slots -> Notes \cup {Free}]
BY DEF IInv, TypeOK, ScreensMatchStore, EditedNoteIsSaved, Copies

\* An edit is saved in the slot of the note, then displayed.
LEMMA EditStep ==
    ASSUME IInv, NEW s \in NoteScreens, Touch(s), NEW w \in Copies,
           w.index = working.index, SaveAndDisplay(w)
    PROVE  IInv'
<1>1. /\ modal = NoModal
      /\ page.screen \in NoteScreens
      /\ reply' \in Replies
      /\ pending' \in BOOLEAN
  BY TouchQuiet
<1>2. w.index \in Used /\ w.index \in Slots /\ notes \in [Slots -> Notes \cup {Free}]
  BY <1>1, NoteOnScreen DEF Used
<1>3. notes' = [notes EXCEPT ![w.index] = EntryOf(w)]
  BY <1>2 DEF SaveAndDisplay, ModifyNote
<1>4. notes' \in [Slots -> Notes \cup {Free}] /\ notes'[w.index] = EntryOf(w)
  BY <1>2, <1>3, EntryIsNote
<1>5. Display(w) /\ UNCHANGED <<contacts, locked, passcode, isUnlocked, links, modal>>
  BY DEF SaveAndDisplay
<1>6. QED BY <1>1, <1>4, <1>5, DisplayStep

LEMMA NoteKeeps == IInv /\ NoteNext => IInv'
<1> SUFFICES ASSUME IInv, NoteNext PROVE IInv'
  OBVIOUS
<1> USE DEF NoteScreens
<1>1. CASE BackFromList
  BY <1>1, TouchToPlain DEF BackFromList, PlainScreens
<1>2. CASE AddFromList
  <2>1. modal = NoModal /\ page.screen = "list" /\ reply' \in Replies /\ pending' \in BOOLEAN
    BY <1>2, TouchQuiet DEF AddFromList
  <2>2. Used # Slots
    BY <1>2, <2>1 DEF AddFromList, IInv, ScreensMatchStore, ListIsCurrent
  <2>3. /\ NewNote("list")
        /\ UNCHANGED <<nvram, passcode, links>>
        /\ isUnlocked' \in BOOLEAN /\ modal' = NoModal
    BY <1>2, <2>1 DEF AddFromList, nvram, IInv, TypeOK
  <2>4. QED BY <2>1, <2>2, <2>3, NewNoteStep
<1>3. ASSUME NEW i \in Slots, SelectNote(i) PROVE IInv'
  <2>1. modal = NoModal /\ page.screen = "list" /\ reply' \in Replies /\ pending' \in BOOLEAN
    BY <1>3, TouchQuiet DEF SelectNote
  <2>2. i \in Used
    BY <1>3, <2>1 DEF SelectNote, IInv, ScreensMatchStore, ListIsCurrent
  <2>3. notes[i] \in Notes /\ notes \in [Slots -> Notes \cup {Free}]
    BY <2>2 DEF Used, IInv, TypeOK
  <2> DEFINE w == [index |-> i, title |-> notes[i].title, content |-> notes[i].content]
  <2>4. w \in Copies /\ EntryOf(w) = notes[i] /\ w.index = i
    BY <2>3 DEF Copies, EntryOf, Notes
  <2>5. /\ Display(w)
        /\ UNCHANGED <<contacts, locked, passcode, isUnlocked, links, modal>>
        /\ notes' = notes
    BY <1>3 DEF SelectNote, nvram
  <2> HIDE DEF w
  <2>6. QED BY <2>1, <2>3, <2>4, <2>5, DisplayStep
<1>4. ASSUME NEW t \in Texts, TypeTitle(t) PROVE IInv'
  <2>1. modal = NoModal /\ page.screen = "editTitle" /\ reply' \in Replies /\ pending' \in BOOLEAN
    BY <1>4, TouchQuiet DEF TypeTitle
  <2>2. working' \in Copies /\ working'.content = working.content
    BY <1>4 DEF TypeTitle, IInv, TypeOK, Copies
  <2>3. TypeOK'
    BY <1>4, <2>1, <2>2 DEF TypeTitle, IInv, TypeOK, nvram, links, Copies
  <2>4. CString' = CString /\ Used' = Used
    BY <1>4, <2>2 DEF TypeTitle, CString, Used, nvram
  <2>5. page' = page /\ modal' = NoModal
    BY <1>4, <2>1 DEF TypeTitle
  <2>6. QED
    BY <2>1, <2>3, <2>4, <2>5 DEF IInv, ScreensMatchStore, EditedNoteIsSaved, ListIsCurrent,
       NewNoteHasRoom, ValidateOnlyWhenLocked, EditedParagraphExists, NewParagraphHasRoom,
       SetPinOnlyWhenOpen
<1>5. CASE BackFromTitle
  <2>1. CASE page.back = "list"
    BY <1>5, <2>1, TouchToList DEF BackFromTitle
  <2>2. CASE page.back # "list"
    BY <1>5, <2>2, TouchToPlain DEF BackFromTitle, PlainScreens
  <2>3. QED BY <2>1, <2>2
<1>6. CASE ConfirmTitle
  <2>1. modal = NoModal /\ page.screen = "editTitle" /\ reply' \in Replies /\ pending' \in BOOLEAN
    BY <1>6, TouchQuiet DEF ConfirmTitle
  <2>2. Used # Slots /\ working \in Copies /\ notes \in [Slots -> Notes \cup {Free}]
    BY <2>1 DEF IInv, TypeOK, ScreensMatchStore, NewNoteHasRoom, Copies
  <2> DEFINE w == [working EXCEPT !.content = CString]
  <2>3. w \in Copies
    BY <2>2, CStringIsContent DEF Copies
  <2>4. PICK i \in Slots : /\ notes' = [notes EXCEPT ![i] = EntryOf(w)]
                           /\ Display([w EXCEPT !.index = i])
    BY <1>6, <2>2 DEF ConfirmTitle
  <2>5. UNCHANGED <<contacts, locked, passcode, isUnlocked, links, modal>>
    BY <1>6 DEF ConfirmTitle
  <2> HIDE DEF w
  <2> DEFINE v == [w EXCEPT !.index = i]
  <2>6. v \in Copies /\ EntryOf(v) = EntryOf(w) /\ v.index = i
    BY <2>3 DEF Copies, EntryOf
  <2>7. notes' \in [Slots -> Notes \cup {Free}] /\ notes'[v.index] = EntryOf(v)
    BY <2>2, <2>4, <2>6, EntryIsNote
  <2>8. Display(v)
    BY <2>4
  <2> HIDE DEF v
  <2>9. QED BY <2>1, <2>5, <2>6, <2>7, <2>8, DisplayStep
<1>7. CASE BackFromDisplay
  BY <1>7, TouchToList DEF BackFromDisplay
<1>8. CASE TapToAdd
  <2>1. /\ Plain("newParagraph") \in Pages
        /\ Plain("newParagraph").screen = "newParagraph"
    BY PlainIsPage DEF PlainScreens
  <2>2. /\ modal = NoModal
        /\ page.screen \in NoteScreens
        /\ reply' \in Replies
        /\ pending' \in BOOLEAN
    BY <1>8, TouchQuiet DEF TapToAdd
  <2>3. QED BY <1>8, <2>1, <2>2, NoteStep DEF TapToAdd
<1>9. CASE TapTitle
  BY <1>9, TouchToNote DEF TapTitle, PlainScreens
<1>10. CASE TapActions
  BY <1>10, TouchToNote DEF TapActions, PlainScreens
<1>11. ASSUME NEW k \in 1 .. NbMaxParagraphs, TapParagraph(k) PROVE IInv'
  <2> DEFINE p == [screen |-> "editParagraph", paragraph |-> k]
  <2>1. p \in Pages /\ p.screen = "editParagraph" /\ p.paragraph = k
    BY DEF Pages
  <2>2. /\ modal = NoModal
        /\ page.screen \in NoteScreens
        /\ reply' \in Replies
        /\ pending' \in BOOLEAN
    BY <1>11, TouchQuiet DEF TapParagraph
  <2>3. Go(p) /\ k \in DOMAIN working.content
    BY <1>11 DEF TapParagraph
  <2> HIDE DEF p
  <2>4. QED BY <2>1, <2>2, <2>3, NoteStep
<1>12. ASSUME NEW t \in Texts, ConfirmParagraph(t) PROVE IInv'
  <2>1. page.screen = "newParagraph" /\ page.screen \in NoteScreens
    BY <1>12, TouchQuiet DEF ConfirmParagraph
  <2>2. working \in Copies /\ Len(working.content) < NbMaxParagraphs
    BY <2>1, NoteOnScreen DEF IInv, ScreensMatchStore, NewParagraphHasRoom
  <2>3. Normal(Append(working.content, t)) \in Contents
    BY <2>2, AppendIsContent DEF Copies
  <2> DEFINE w == [working EXCEPT !.content = Normal(Append(working.content, t))]
  <2>4. w \in Copies /\ w.index = working.index
    BY <2>2, <2>3 DEF Copies
  <2>5. SaveAndDisplay(w) /\ Touch("newParagraph")
    BY <1>12 DEF ConfirmParagraph
  <2> HIDE DEF w
  <2>6. QED BY <2>4, <2>5, EditStep
<1>13. ASSUME NEW t \in Texts, ConfirmEdit(t) PROVE IInv'
  <2>1. page.screen = "editParagraph" /\ page.screen \in NoteScreens
    BY <1>13, TouchQuiet DEF ConfirmEdit
  <2>2. working \in Copies /\ page.paragraph \in DOMAIN working.content
    BY <2>1, NoteOnScreen DEF IInv, ScreensMatchStore, EditedParagraphExists
  <2>3. Modified(working.content, page.paragraph, t) \in Contents
    BY <2>2, ModifiedIsContent DEF Copies
  <2> DEFINE w == [working EXCEPT !.content = Modified(working.content, page.paragraph, t)]
  <2>4. w \in Copies /\ w.index = working.index
    BY <2>2, <2>3 DEF Copies
  <2>5. SaveAndDisplay(w) /\ Touch("editParagraph")
    BY <1>13 DEF ConfirmEdit
  <2> HIDE DEF w
  <2>6. QED BY <2>4, <2>5, EditStep
<1>14. ASSUME NEW t \in Texts, ConfirmNewTitle(t) PROVE IInv'
  <2>1. working \in Copies
    BY <1>14, TouchQuiet, NoteOnScreen DEF ConfirmNewTitle
  <2> DEFINE w == [working EXCEPT !.title = t]
  <2>2. w \in Copies /\ w.index = working.index
    BY <2>1 DEF Copies
  <2>3. SaveAndDisplay(w) /\ Touch("changeTitle")
    BY <1>14 DEF ConfirmNewTitle
  <2> HIDE DEF w
  <2>4. QED BY <2>2, <2>3, EditStep
<1>15. ASSUME NEW s \in {"newParagraph", "editParagraph", "changeTitle", "action"},
              BackToNote(s)
       PROVE  IInv'
  <2>1. /\ modal = NoModal
        /\ page.screen \in NoteScreens
        /\ reply' \in Replies
        /\ pending' \in BOOLEAN
    BY <1>15, TouchQuiet DEF BackToNote
  <2>2. /\ working \in Copies
        /\ notes[working.index] = EntryOf(working)
        /\ notes \in [Slots -> Notes \cup {Free}]
    BY <2>1, NoteOnScreen
  <2>3. Display(working) /\ UNCHANGED <<nvram, isUnlocked, links, modal>>
    BY <1>15 DEF BackToNote
  <2>4. QED BY <2>1, <2>2, <2>3, DisplayStep DEF nvram
<1>16. CASE TapDelete
  BY <1>16, TouchToNote DEF TapDelete, PlainScreens
<1>17. CASE KeepNote
  BY <1>17, TouchToNote DEF KeepNote, PlainScreens
<1>18. CASE ConfirmDelete
  <2>1. page' \in Pages /\ page'.screen = "deleted"
    BY <1>18, PlainIsPage DEF ConfirmDelete, PlainScreens
  <2>2. modal = NoModal /\ reply' \in Replies /\ pending' \in BOOLEAN
    BY <1>18, TouchQuiet DEF ConfirmDelete
  <2>3. TypeOK'
    BY <1>18, <2>1, <2>2 DEF ConfirmDelete, DeleteNote, IInv, TypeOK, copy, links
  <2>4. Neutral(page') /\ page'.screen # "list" /\ modal' = NoModal
    BY <1>18, <2>1, <2>2 DEF Neutral, ConfirmDelete
  <2>5. QED BY <2>3, <2>4, NeutralStep
<1>19. CASE DeletedShown
  BY <1>19, TouchToList DEF DeletedShown
<1>20. QED
  BY <1>1, <1>2, <1>3, <1>4, <1>5, <1>6, <1>7, <1>8, <1>9, <1>10, <1>11, <1>12, <1>13,
     <1>14, <1>15, <1>16, <1>17, <1>18, <1>19 DEF NoteNext

\* A touch that shows the contacts.
LEMMA TouchToShare ==
    ASSUME IInv, NEW s, Touch(s), Go(SharePage(contacts))
    PROVE  IInv'
<1>1. contacts \in SUBSET ContactSlots
  BY DEF IInv, TypeOK
<1>2. QED BY <1>1, TouchQuiet, ShareNeutral, GoStep

LEMMA ShareKeeps == IInv /\ ShareNext => IInv'
<1> SUFFICES ASSUME IInv, ShareNext PROVE IInv'
  OBVIOUS
<1> USE DEF NoteScreens
<1>1. CASE TapShare
  <2>1. SharePage(contacts) \in Pages /\ Neutral(SharePage(contacts))
        /\ SharePage(contacts).screen # "list"
    BY ShareNeutral DEF IInv, TypeOK
  <2>2. modal' = NoModal /\ reply' \in Replies /\ pending' \in BOOLEAN
        /\ page' = SharePage(contacts)
    BY <1>1, TouchQuiet DEF TapShare
  <2>3. TypeOK'
    BY <1>1, <2>1, <2>2 DEF TapShare, IInv, TypeOK, nvram, copy
  <2>4. QED BY <2>1, <2>2, <2>3, NeutralStep
<1>2. CASE BackFromShare
  BY <1>2, TouchToPlain DEF BackFromShare, PlainScreens
<1>3. CASE TapNewContact
  <2>1. page' \in Pages /\ page'.screen = "newContact"
    BY <1>3, PlainIsPage DEF TapNewContact, PlainScreens
  <2>2. modal' = NoModal /\ reply' \in Replies /\ pending' \in BOOLEAN
    BY <1>3, TouchQuiet DEF TapNewContact
  <2>3. TypeOK'
    BY <1>3, <2>1, <2>2 DEF TapNewContact, IInv, TypeOK, nvram, copy
  <2>4. QED BY <2>1, <2>2, <2>3, NeutralStep DEF Neutral
<1>4. CASE SelectContact
  BY <1>4, TouchToPlain DEF SelectContact, PlainScreens
<1>5. CASE ConfirmName
  BY <1>5, TouchToPlain DEF ConfirmName, PlainScreens
<1>6. ASSUME NEW s \in {"newContact", "waitAddress", "waitShare"}, BackToShare(s)
      PROVE  IInv'
  BY <1>6, TouchToShare DEF BackToShare
<1>7. CASE SentShown
  BY <1>7, TouchToList DEF SentShown
<1>8. CASE AcceptNote
  <2>1. modal' = NoModal /\ reply' \in Replies /\ pending' \in BOOLEAN
        /\ page.screen = "receiveChoice"
    BY <1>8, TouchQuiet DEF AcceptNote
  <2>2. page.note \in Notes /\ notes \in [Slots -> Notes \cup {Free}]
    BY <2>1, PageFields DEF IInv, TypeOK
  <2>3. /\ notes' \in [Slots -> Notes \cup {Free}]
        /\ page' = Plain("addFailed") \/ page' = Plain("menu")
    <3>1. CASE Used = Slots
      BY <1>8, <2>2, <3>1 DEF AcceptNote
    <3>2. CASE Used # Slots
      BY <1>8, <2>2, <3>2 DEF AcceptNote
    <3>3. QED BY <3>1, <3>2
  <2>4. page' \in Pages /\ Neutral(page') /\ page'.screen # "list"
    BY <2>3, PlainNeutral DEF PlainScreens
  <2>5. TypeOK'
    BY <1>8, <2>1, <2>3, <2>4 DEF AcceptNote, IInv, TypeOK, copy, links
  <2>6. QED BY <2>1, <2>4, <2>5, NeutralStep
<1>9. CASE RejectNote
  BY <1>9, TouchToPlain DEF RejectNote, PlainScreens
<1>10. CASE FailureShown
  BY <1>10, TouchToPlain DEF FailureShown, PlainScreens
<1>11. CASE ReviewDone
  <2>1. reply' \in Replies /\ pending' \in BOOLEAN
    BY <1>11, BlanksAreNotes, AnswerIsReply DEF ReviewDone
  <2>2. Go(Plain("reviewStatus"))
    BY <1>11 DEF ReviewDone
  <2>3. QED BY <2>1, <2>2, PlainNeutral, GoStep DEF PlainScreens
<1>12. CASE ReviewStatusShown
  BY <1>12, TouchToPlain DEF ReviewStatusShown, PlainScreens
<1>13. QED
  BY <1>1, <1>2, <1>3, <1>4, <1>5, <1>6, <1>7, <1>8, <1>9, <1>10, <1>11, <1>12
     DEF ShareNext

LEMMA LockKeeps == IInv /\ LockNext => IInv'
<1> SUFFICES ASSUME IInv, LockNext PROVE IInv'
  OBVIOUS
<1> USE DEF NoteScreens
<1>0. modal = NoModal => modal.kind = "none"
  BY DEF NoModal
<1>1. CASE BackFromSettings
  BY <1>1, TouchToPlain DEF BackFromSettings, PlainScreens
<1>2. CASE TapLockSwitch
  BY <1>2, TouchToPlain DEF TapLockSwitch, PlainScreens
<1>3. CASE CancelChoice
  BY <1>3, TouchToPlain DEF CancelChoice, PlainScreens
<1>4. CASE ConfirmChoice
  <2>1. modal = NoModal /\ reply' \in Replies /\ pending' \in BOOLEAN
        /\ page.screen = "passcodeChoice"
    BY <1>4, TouchQuiet DEF ConfirmChoice
  <2>2. CASE locked
    <3>1. modal' = [kind |-> "validate", after |-> "remove"] /\ page' = page /\ locked'
      BY <1>4, <2>2 DEF ConfirmChoice, nvram
    <3>2. TypeOK'
      BY <1>4, <2>1, <3>1 DEF ConfirmChoice, IInv, TypeOK, nvram, copy, links, Modals
    <3>3. QED BY <2>1, <3>1, <3>2, NeutralStep DEF Neutral
  <2>3. CASE ~locked
    <3>1. page' = Plain("setPin") /\ modal' = NoModal
      BY <1>4, <2>1, <2>3 DEF ConfirmChoice
    <3>2. page' \in Pages /\ page'.screen = "setPin"
      BY <3>1, PlainIsPage DEF PlainScreens
    <3>3. TypeOK'
      BY <1>4, <2>1, <3>1, <3>2 DEF ConfirmChoice, IInv, TypeOK, nvram, copy, links
    <3>4. ~locked'
      BY <1>4, <2>3 DEF ConfirmChoice, nvram
    <3>5. QED
      BY <3>1, <3>2, <3>3, <3>4 DEF IInv, ScreensMatchStore, EditedNoteIsSaved, ListIsCurrent,
         NewNoteHasRoom, ValidateOnlyWhenLocked, EditedParagraphExists, NewParagraphHasRoom,
         SetPinOnlyWhenOpen
  <2>4. QED BY <2>2, <2>3
<1>5. CASE BackFromSetPin
  BY <1>5, TouchToPlain DEF BackFromSetPin, PlainScreens
<1>6. ASSUME NEW p \in Passcodes, SetPasscode(p) PROVE IInv'
  <2>1. modal' = NoModal /\ reply' \in Replies /\ pending' \in BOOLEAN
    BY <1>6, TouchQuiet DEF SetPasscode
  <2>2. page' \in Pages /\ Neutral(page') /\ page'.screen # "list"
    BY <1>6, PlainNeutral DEF SetPasscode, PlainScreens
  <2>3. TypeOK'
    BY <1>6, <2>1, <2>2 DEF SetPasscode, IInv, TypeOK, copy, links
  <2>4. QED BY <2>1, <2>2, <2>3, NeutralStep
<1>7. ASSUME NEW p \in Passcodes, EnterPasscode(p) PROVE IInv'
  <2>1. CASE RightPasscode
    <3>1. /\ isUnlocked' \in BOOLEAN
          /\ modal' = NoModal
          /\ reply' \in Replies
          /\ pending' \in BOOLEAN
          /\ UNCHANGED <<notes, contacts, passcode, links>>
      BY <2>1, SilenceIsReply DEF RightPasscode, IInv, TypeOK
    <3>2. CASE modal.after = "open"
      BY <2>1, <3>1, <3>2, OpenStep DEF RightPasscode, nvram
    <3>3. CASE modal.after # "open"
      <4>1. locked' = FALSE /\ page' = Plain("settings") /\ UNCHANGED copy
        BY <2>1, <3>3 DEF RightPasscode
      <4>2. page' \in Pages /\ Neutral(page') /\ page'.screen # "list"
        BY <4>1, PlainNeutral DEF PlainScreens
      <4>3. TypeOK'
        BY <3>1, <4>1, <4>2 DEF IInv, TypeOK, copy, links
      <4>4. QED BY <3>1, <4>2, <4>3, NeutralStep
    <3>4. QED BY <3>2, <3>3
  <2>2. CASE WrongPasscode
    <3>1. /\ modal \in Modals
          /\ modal' \in Modals
          /\ reply' \in Replies
          /\ isUnlocked' \in BOOLEAN
          /\ UNCHANGED <<nvram, copy, links, page, pending>>
      BY <1>0, <2>2, SilenceIsReply DEF WrongPasscode, IInv, TypeOK, Modals
    <3>2. TypeOK'
      BY <3>1 DEF IInv, TypeOK, nvram, copy, links
    <3>3. locked /\ Neutral(page)
      BY <1>0, <2>2 DEF WrongPasscode, IInv, ScreensMatchStore, ValidateOnlyWhenLocked,
         SetPinOnlyWhenOpen, Neutral
    <3>4. page'.screen = "list" => page'.listed = Used'
      BY <3>1 DEF IInv, ScreensMatchStore, ListIsCurrent, Used, nvram
    <3>5. Neutral(page') /\ locked'
      BY <3>1, <3>3 DEF nvram, Neutral
    <3>6. QED BY <3>2, <3>4, <3>5, NeutralStep
  <2>3. QED BY <1>7, <2>1, <2>2 DEF EnterPasscode
<1>8. CASE TapInvalidPin
  <2>1. /\ modal \in Modals
        /\ modal' \in Modals
        /\ reply' \in Replies
        /\ UNCHANGED <<nvram, isUnlocked, copy, links, page, pending>>
    BY <1>0, <1>8, SilenceIsReply DEF TapInvalidPin, IInv, TypeOK, Modals
  <2>2. TypeOK'
    BY <2>1 DEF IInv, TypeOK, nvram, copy, links
  <2>3. locked /\ Neutral(page)
    BY <1>0, <1>8 DEF TapInvalidPin, IInv, ScreensMatchStore, ValidateOnlyWhenLocked,
         SetPinOnlyWhenOpen, Neutral
  <2>4. page'.screen = "list" => page'.listed = Used'
    BY <2>1 DEF IInv, ScreensMatchStore, ListIsCurrent, Used, nvram
  <2>5. Neutral(page') /\ locked'
    BY <2>1, <2>3 DEF nvram, Neutral
  <2>6. QED BY <2>2, <2>4, <2>5, NeutralStep
<1>9. CASE BackFromPasscode
  <2>1. /\ modal' = NoModal
        /\ reply' \in Replies
        /\ UNCHANGED <<nvram, isUnlocked, copy, links, pending>>
        /\ page' = Plain("menu") \/ page' = Plain("settings")
    BY <1>9, SilenceIsReply DEF BackFromPasscode
  <2>2. page' \in Pages /\ Neutral(page') /\ page'.screen # "list"
    BY <2>1, PlainNeutral DEF PlainScreens
  <2>3. TypeOK'
    BY <2>1, <2>2 DEF IInv, TypeOK, nvram, copy, links
  <2>4. QED BY <2>1, <2>2, <2>3, NeutralStep
<1>10. QED
  BY <1>1, <1>2, <1>3, <1>4, <1>5, <1>6, <1>7, <1>8, <1>9 DEF LockNext

LEMMA HostKeeps == IInv /\ HostNext => IInv'
<1> SUFFICES ASSUME IInv, HostNext PROVE IInv'
  OBVIOUS
<1> USE DEF NoteScreens
<1>0. ASSUME NEW sw \in {"none", "ok", "denied", "noSharedNote", "wrongLength", "unanswered"},
             NEW n \in Notes, Serve(sw, n)
      PROVE  reply' \in Replies /\ pending' \in BOOLEAN
  BY <1>0, AnswerIsReply DEF Serve, IInv, TypeOK
<1>1. ASSUME NEW n \in HostNotes, PutNote(n) PROVE IInv'
  <2> DEFINE p == [screen |-> "receiveChoice", note |-> n]
  <2>1. p \in Pages /\ Neutral(p) /\ p.screen # "list"
    BY NotesAssumption DEF Pages, Neutral
  <2>2. Go(p) /\ reply' \in Replies /\ pending' \in BOOLEAN
    BY <1>0, <1>1, BlanksAreNotes DEF PutNote
  <2> HIDE DEF p
  <2>3. QED BY <2>1, <2>2, GoStep
<1>2. ASSUME NEW n \in HostNotes, PutNoteTruncated(n) PROVE IInv'
  <2>1. reply' \in Replies /\ pending' \in BOOLEAN
    BY <1>0, <1>2, BlanksAreNotes DEF PutNoteTruncated
  <2>2. ASSUME page.screen = "receiveChoice",
               NEW c \in {page.note.content} \cup {Normal(<<t>>) : t \in Texts},
               page' = [page EXCEPT !.note = [title |-> n.title, content |-> c]]
        PROVE  IInv'
    <3>1. page' = [page EXCEPT !.note = [title |-> n.title, content |-> c]]
      BY <2>2
    <3>2. c \in Contents
      <4>1. page.note.content \in Contents
        BY <2>2, PageFields DEF IInv, TypeOK, Notes
      <4>2. ASSUME NEW t \in Texts PROVE Normal(<<t>>) \in Contents
        <5>1. <<t>> \in Seq(Texts) /\ Len(<<t>>) = 1
          OBVIOUS
        <5>2. 1 <= NbMaxParagraphs
          BY NotesAssumption
        <5>3. QED BY <5>1, <5>2, NormalIsContent
      <4>3. QED BY <4>1, <4>2
    <3>3. [title |-> n.title, content |-> c] \in Notes
      BY <3>2, NotesAssumption DEF Notes
    <3>4. page \in [screen : {"receiveChoice"}, note : Notes]
      BY <2>2 DEF IInv, TypeOK, Pages, PlainScreens
    <3>5. page' \in [screen : {"receiveChoice"}, note : Notes]
      BY <3>1, <3>3, <3>4
    <3>6. page' \in Pages /\ Neutral(page') /\ page'.screen # "list"
      BY <3>5 DEF Pages, Neutral
    <3>7. Go(page')
      BY <1>2 DEF PutNoteTruncated, Go
    <3>8. TypeOK'
      BY <2>1, <3>6, <3>7 DEF Go, IInv, TypeOK, nvram, copy, links
    <3>9. modal' # NoModal => locked'
      BY <3>7 DEF Go, IInv, ScreensMatchStore, ValidateOnlyWhenLocked, nvram
    <3>10. QED BY <3>6, <3>8, <3>9, NeutralStep
  <2>3. CASE UNCHANGED page
    <3>1. UNCHANGED <<nvram, isUnlocked, copy, links, page, modal>>
      BY <1>2, <2>3 DEF PutNoteTruncated
    <3>2. TypeOK'
      BY <2>1, <3>1 DEF IInv, TypeOK, nvram, copy, links
    <3>3. QED
      BY <3>1, <3>2 DEF IInv, ScreensMatchStore, EditedNoteIsSaved, ListIsCurrent,
         NewNoteHasRoom, ValidateOnlyWhenLocked, EditedParagraphExists,
         NewParagraphHasRoom, SetPinOnlyWhenOpen,
         nvram, copy, Used, CString, EntryOf
  <2>4. QED BY <1>2, <2>2, <2>3 DEF PutNoteTruncated
<1>3. CASE GetNote
  <2>1. [title |-> working.title, content |-> CString] \in Notes
    BY CStringIsContent DEF Notes, IInv, TypeOK
  <2>2. reply' \in Replies /\ pending' \in BOOLEAN /\ Go(Plain("noteSent"))
    BY <1>0, <1>3, <2>1 DEF GetNote
  <2>3. QED BY <2>2, PlainNeutral, GoStep DEF PlainScreens
<1>4. CASE GetNoteRefused
  <2>1. /\ UNCHANGED <<nvram, isUnlocked, copy, links, page, modal>>
        /\ reply' \in Replies
        /\ pending' \in BOOLEAN
    BY <1>0, <1>4, BlanksAreNotes DEF GetNoteRefused
  <2>2. TypeOK'
    BY <2>1 DEF IInv, TypeOK, nvram, copy, links
  <2>3. QED
    BY <2>1, <2>2 DEF IInv, ScreensMatchStore, EditedNoteIsSaved, ListIsCurrent,
       NewNoteHasRoom, ValidateOnlyWhenLocked, EditedParagraphExists,
       NewParagraphHasRoom, SetPinOnlyWhenOpen,
       nvram, copy, Used, CString, EntryOf
<1>5. CASE AddAddress
  <2>1. /\ page' = SharePage(contacts')
        /\ reply' \in Replies
        /\ pending' \in BOOLEAN
        /\ UNCHANGED <<notes, locked, passcode, isUnlocked, copy, links, modal>>
    BY <1>0, <1>5, BlanksAreNotes DEF AddAddress
  <2>2. contacts' \in SUBSET ContactSlots
    <3>1. contacts \in SUBSET ContactSlots /\ FreeContacts \in SUBSET ContactSlots
      BY NotesAssumption DEF IInv, TypeOK, FreeContacts, ContactSlots
    <3>2. AddContact
      BY <1>5 DEF AddAddress
    <3>3. QED BY <3>1, <3>2 DEF AddContact
  <2>3. page' \in Pages /\ Neutral(page') /\ page'.screen # "list"
    BY <2>1, <2>2, ShareNeutral
  <2>4. TypeOK'
    BY <2>1, <2>2, <2>3 DEF IInv, TypeOK, copy, links
  <2>5. modal' # NoModal => locked'
    BY <2>1 DEF IInv, ScreensMatchStore, ValidateOnlyWhenLocked
  <2>6. QED BY <2>3, <2>4, <2>5, NeutralStep
<1>6. CASE AddAddressUnexpected
  BY <1>6, BlanksAreNotes, AnswerIsReply, RestartStep DEF AddAddressUnexpected
<1>7. CASE Review
  <2>1. Go(Plain("review")) /\ reply' \in Replies /\ pending' \in BOOLEAN
    BY <1>7, SilenceIsReply DEF Review
  <2>2. QED BY <2>1, PlainNeutral, GoStep DEF PlainScreens
<1>8. QED BY <1>1, <1>2, <1>3, <1>4, <1>5, <1>6, <1>7 DEF HostNext

LEMMA StutterKeeps == IInv /\ UNCHANGED vars => IInv'
<1> SUFFICES ASSUME IInv, UNCHANGED vars PROVE IInv'
  OBVIOUS
<1>1. TypeOK'
  BY DEF IInv, TypeOK, vars, nvram, copy, links
<1>2. QED
  BY <1>1 DEF IInv, ScreensMatchStore, EditedNoteIsSaved, ListIsCurrent, NewNoteHasRoom,
     ValidateOnlyWhenLocked, EditedParagraphExists,
     NewParagraphHasRoom, SetPinOnlyWhenOpen,
     vars, nvram, copy, Used, CString, EntryOf

LEMMA StepKeeps == IInv /\ [Next]_vars => IInv'
<1> SUFFICES ASSUME IInv, [Next]_vars PROVE IInv'
  OBVIOUS
<1>1. CASE PowerCut
  BY <1>1, SilenceIsReply, RestartStep DEF PowerCut
<1>2. QED
  BY <1>1, MenuKeeps, NoteKeeps, ShareKeeps, LockKeeps, HostKeeps, StutterKeeps DEF Next

-----------------------------------------------------------------------------
(* What a step may do to the notes and to the lock.                        *)

NotesStep == \A i \in Slots : notes'[i] # notes[i] => ConfirmedByUser(i)

LockStep ==
    locked => /\ passcode' = passcode
              /\ ~locked' => modal = [kind |-> "validate", after |-> "remove"]
                             /\ isUnlocked'

LEMMA MenuKeepsNvram == MenuNext => UNCHANGED nvram
BY DEF MenuNext, ActionButton, OpenSettings, Quit, Go, Restart

LEMMA HostKeepsNotes == HostNext => UNCHANGED <<notes, locked, passcode>>
BY DEF HostNext, PutNote, PutNoteTruncated, GetNote, GetNoteRefused, AddAddress,
       AddAddressUnexpected, Review, Go, Restart, nvram

LEMMA NoteKeepsLock == NoteNext => UNCHANGED <<locked, passcode>>
BY DEF NoteNext, BackFromList, AddFromList, SelectNote, TypeTitle, BackFromTitle,
       ConfirmTitle, BackFromDisplay, TapToAdd, TapTitle, TapActions, TapParagraph,
       ConfirmParagraph, ConfirmEdit, ConfirmNewTitle, BackToNote, TapDelete, KeepNote,
       ConfirmDelete, DeletedShown, SaveAndDisplay, Go, nvram

LEMMA ShareKeepsLock == ShareNext => UNCHANGED <<locked, passcode>>
BY DEF ShareNext, TapShare, BackFromShare, TapNewContact, SelectContact, ConfirmName,
       BackToShare, SentShown, AcceptNote, RejectNote, FailureShown, ReviewDone,
       ReviewStatusShown, Go, nvram

LEMMA LockKeepsNotes == LockNext => UNCHANGED notes
BY DEF LockNext, BackFromSettings, TapLockSwitch, CancelChoice, ConfirmChoice,
       BackFromSetPin, SetPasscode, EnterPasscode, RightPasscode, WrongPasscode,
       TapInvalidPin, BackFromPasscode, Go, nvram

\* A step that writes one slot, and has the confirmation of the user to.
LEMMA OneSlotStep ==
    ASSUME IInv, NEW i \in Slots, NEW e,
           notes' = [notes EXCEPT ![i] = e], ConfirmedByUser(i)
    PROVE  NotesStep
BY DEF IInv, TypeOK, NotesStep

\* An edit writes the slot of the note on screen, in use before and after.
LEMMA EditChanges ==
    ASSUME IInv, NEW s \in {"newParagraph", "editParagraph", "changeTitle"}, Touch(s),
           NEW w, w.index = working.index, SaveAndDisplay(w),
           NEW n \in Notes, EntryOf(w) = n
    PROVE  NotesStep
<1>1. modal = NoModal /\ page.screen = s /\ page.screen \in NoteScreens
  BY TouchQuiet DEF NoteScreens
<1>2. working.index \in Used /\ working.index \in Slots /\ notes \in [Slots -> Notes \cup {Free}]
  BY <1>1, NoteOnScreen DEF Used
<1>3. notes' = [notes EXCEPT ![working.index] = n]
  BY <1>2 DEF SaveAndDisplay, ModifyNote
<1>4. n # Free /\ notes[working.index] # Free
  BY <1>2, NotesAssumption DEF Used
<1>5. ConfirmedByUser(working.index)
  BY <1>1, <1>2, <1>3, <1>4 DEF ConfirmedByUser
<1>6. QED BY <1>2, <1>3, <1>5, OneSlotStep

LEMMA NoteChanges == IInv /\ NoteNext => NotesStep
<1> SUFFICES ASSUME IInv, NoteNext PROVE NotesStep
  OBVIOUS
<1>1. CASE ConfirmTitle
  <2>1. modal = NoModal /\ page.screen = "editTitle"
    BY <1>1, TouchQuiet DEF ConfirmTitle
  <2>2. CASE Used = Slots
    BY <1>1, <2>2 DEF ConfirmTitle, NotesStep
  <2>3. CASE Used # Slots
    <3> DEFINE w == [working EXCEPT !.content = CString]
    <3>1. PICK i \in Slots : IsFirstFree(i) /\ notes' = [notes EXCEPT ![i] = EntryOf(w)]
      BY <1>1, <2>3 DEF ConfirmTitle
    <3>2. ConfirmedByUser(i)
      BY <2>1, <3>1 DEF ConfirmedByUser, IsFirstFree, Used
    <3>3. QED BY <3>1, <3>2, OneSlotStep
  <2>4. QED BY <2>2, <2>3
<1>2. ASSUME NEW t \in Texts, ConfirmParagraph(t) PROVE NotesStep
  <2>1. working \in Copies /\ Len(working.content) < NbMaxParagraphs
    BY <1>2, TouchQuiet, NoteOnScreen
       DEF ConfirmParagraph, NoteScreens, IInv, ScreensMatchStore, NewParagraphHasRoom
  <2> DEFINE w == [working EXCEPT !.content = Normal(Append(working.content, t))]
  <2>2. w \in Copies /\ w.index = working.index
    BY <2>1, AppendIsContent DEF Copies
  <2>3. EntryOf(w) \in Notes
    BY <2>2, EntryIsNote
  <2>4. Touch("newParagraph") /\ SaveAndDisplay(w)
    BY <1>2 DEF ConfirmParagraph
  <2> HIDE DEF w
  <2>5. QED BY <2>2, <2>3, <2>4, EditChanges
<1>3. ASSUME NEW t \in Texts, ConfirmEdit(t) PROVE NotesStep
  <2>1. working \in Copies /\ page.paragraph \in DOMAIN working.content
    BY <1>3, TouchQuiet, NoteOnScreen
       DEF ConfirmEdit, NoteScreens, IInv, ScreensMatchStore, EditedParagraphExists
  <2> DEFINE w == [working EXCEPT !.content = Modified(working.content, page.paragraph, t)]
  <2>2. w \in Copies /\ w.index = working.index
    BY <2>1, ModifiedIsContent DEF Copies
  <2>3. EntryOf(w) \in Notes
    BY <2>2, EntryIsNote
  <2>4. Touch("editParagraph") /\ SaveAndDisplay(w)
    BY <1>3 DEF ConfirmEdit
  <2> HIDE DEF w
  <2>5. QED BY <2>2, <2>3, <2>4, EditChanges
<1>4. ASSUME NEW t \in Texts, ConfirmNewTitle(t) PROVE NotesStep
  <2>1. working \in Copies
    BY <1>4, TouchQuiet, NoteOnScreen DEF ConfirmNewTitle, NoteScreens
  <2> DEFINE w == [working EXCEPT !.title = t]
  <2>2. w \in Copies /\ w.index = working.index
    BY <2>1 DEF Copies
  <2>3. EntryOf(w) \in Notes
    BY <2>2, EntryIsNote
  <2>4. Touch("changeTitle") /\ SaveAndDisplay(w)
    BY <1>4 DEF ConfirmNewTitle
  <2> HIDE DEF w
  <2>5. QED BY <2>2, <2>3, <2>4, EditChanges
<1>5. CASE ConfirmDelete
  <2>1. modal = NoModal /\ page.screen = "deleteChoice"
    BY <1>5, TouchQuiet DEF ConfirmDelete
  <2>2. /\ working.index \in Used
        /\ working.index \in Slots
        /\ notes[working.index] = EntryOf(working)
        /\ notes \in [Slots -> Notes \cup {Free}]
    BY <2>1, NoteOnScreen DEF NoteScreens, Used
  <2>3. notes' = [notes EXCEPT ![working.index] = Free]
    BY <1>5 DEF ConfirmDelete, DeleteNote
  <2>4. ConfirmedByUser(working.index)
    BY <2>1, <2>2, <2>3 DEF ConfirmedByUser, Used
  <2>5. QED BY <2>2, <2>3, <2>4, OneSlotStep
<1>6. CASE UNCHANGED notes
  BY <1>6 DEF NotesStep
<1>7. QED
  BY <1>1, <1>2, <1>3, <1>4, <1>5, <1>6
     DEF NoteNext, BackFromList, AddFromList, SelectNote, TypeTitle, BackFromTitle,
         BackFromDisplay, TapToAdd, TapTitle, TapActions, TapParagraph, BackToNote,
         TapDelete, KeepNote, DeletedShown, Go, nvram

LEMMA ShareChanges == IInv /\ ShareNext => NotesStep
<1> SUFFICES ASSUME IInv, ShareNext PROVE NotesStep
  OBVIOUS
<1>1. CASE AcceptNote
  <2>1. modal = NoModal /\ page.screen = "receiveChoice"
    BY <1>1, TouchQuiet DEF AcceptNote
  <2>2. CASE Used = Slots
    BY <1>1, <2>2 DEF AcceptNote, NotesStep
  <2>3. CASE Used # Slots
    <3>1. PICK i \in Slots : IsFirstFree(i) /\ notes' = [notes EXCEPT ![i] = page.note]
      BY <1>1, <2>3 DEF AcceptNote
    <3>2. ConfirmedByUser(i)
      BY <2>1, <3>1 DEF ConfirmedByUser, IsFirstFree, Used
    <3>3. QED BY <3>1, <3>2, OneSlotStep
  <2>4. QED BY <2>2, <2>3
<1>2. CASE UNCHANGED notes
  BY <1>2 DEF NotesStep
<1>3. QED
  BY <1>1, <1>2 DEF ShareNext, TapShare, BackFromShare, TapNewContact, SelectContact,
     ConfirmName, BackToShare, SentShown, RejectNote, FailureShown, ReviewDone,
       ReviewStatusShown, Go, nvram

LEMMA LockChanges == IInv /\ LockNext => LockStep
<1> SUFFICES ASSUME IInv, LockNext, locked
             PROVE  /\ passcode' = passcode
                    /\ ~locked' => modal = [kind |-> "validate", after |-> "remove"]
                                   /\ isUnlocked'
  BY DEF LockStep
<1>1. ASSUME NEW p \in Passcodes, SetPasscode(p) PROVE FALSE
  BY <1>1, TouchQuiet DEF SetPasscode, IInv, ScreensMatchStore, SetPinOnlyWhenOpen
<1>2. CASE RightPasscode
  <2>1. modal \in Modals
    BY <1>2 DEF RightPasscode, IInv, TypeOK, NoModal
  <2>2. passcode' = passcode
    BY <1>2 DEF RightPasscode
  <2>3. CASE modal.after = "open"
    <3>1. locked' = locked
      BY <1>2, <2>3 DEF RightPasscode
    <3>2. QED BY <2>2, <3>1
  <2>4. CASE modal.after # "open"
    BY <1>2, <2>1, <2>2, <2>4 DEF RightPasscode, Modals
  <2>5. QED BY <2>3, <2>4
<1>3. CASE UNCHANGED <<locked, passcode>>
  BY <1>3
<1>4. QED
  BY <1>1, <1>2, <1>3 DEF LockNext, BackFromSettings, TapLockSwitch, CancelChoice,
     ConfirmChoice, BackFromSetPin, EnterPasscode, WrongPasscode, TapInvalidPin,
     BackFromPasscode, Go, nvram

LEMMA StepChanges == IInv /\ Next => NotesStep /\ LockStep
<1> SUFFICES ASSUME IInv, Next PROVE NotesStep /\ LockStep
  OBVIOUS
<1>1. UNCHANGED notes => NotesStep
  BY DEF NotesStep
<1>2. UNCHANGED <<locked, passcode>> => LockStep
  BY DEF LockStep
<1>3. CASE MenuNext
  BY <1>1, <1>2, <1>3, MenuKeepsNvram DEF nvram
<1>4. CASE NoteNext
  BY <1>2, <1>4, NoteChanges, NoteKeepsLock
<1>5. CASE ShareNext
  BY <1>2, <1>5, ShareChanges, ShareKeepsLock
<1>6. CASE LockNext
  BY <1>1, <1>6, LockChanges, LockKeepsNotes
<1>7. CASE HostNext
  BY <1>1, <1>2, <1>7, HostKeepsNotes
<1>8. CASE PowerCut
  BY <1>1, <1>2, <1>8 DEF PowerCut, Restart, nvram
<1>9. QED BY <1>3, <1>4, <1>5, <1>6, <1>7, <1>8 DEF Next

-----------------------------------------------------------------------------
(* Theorems.                                                               *)

LEMMA InvHolds == Spec => []IInv
BY StartInv, StepKeeps, PTL DEF Spec

\* The variables have their types; in particular no edit makes a content of
\* more than NB_MAX_PARAGRAPHS paragraphs.
THEOREM TypeCorrect == Spec => []TypeOK
<1>1. IInv => TypeOK
  BY DEF IInv
<1>2. QED BY <1>1, InvHolds, PTL

\* The screens and the storage agree: a note on screen is the stored one, the
\* list is current, a new note has a slot, a passcode is asked for only when
\* there is one, and the editors of paragraphs are within the note.
THEOREM ScreensCorrect == Spec => []ScreensMatchStore
<1>1. IInv => ScreensMatchStore
  BY DEF IInv
<1>2. QED BY <1>1, InvHolds, PTL

\* Whatever page or command comes between, what the user edits, saves or
\* deletes is the stored note that is shown.
THEOREM EditedNoteCorrect == Spec => []EditedNoteIsSaved
<1>1. IInv => EditedNoteIsSaved
  BY DEF IInv, ScreensMatchStore
<1>2. QED BY <1>1, InvHolds, PTL

\* A list on screen shows the notes stored, though commands add some under it.
THEOREM ListCorrect == Spec => []ListIsCurrent
<1>1. IInv => ListIsCurrent
  BY DEF IInv, ScreensMatchStore
<1>2. QED BY <1>1, InvHolds, PTL

\* The paragraph whose editor is open is one of those of the note.
THEOREM EditedParagraphCorrect == Spec => []EditedParagraphExists
<1>1. IInv => EditedParagraphExists
  BY DEF IInv, ScreensMatchStore
<1>2. QED BY <1>1, InvHolds, PTL

\* Typing the title of a new note never ends without a slot for it.
THEOREM NewNoteCorrect == Spec => []NewNoteHasRoom
<1>1. IInv => NewNoteHasRoom
  BY DEF IInv, ScreensMatchStore
<1>2. QED BY <1>1, InvHolds, PTL

\* A stored note changes, appears or disappears only by a confirmation of the
\* user on a screen about that note.
THEOREM NotesChangesConfirmed == Spec => NotesChangeOnlyByUser
<1>1. IInv /\ [Next]_vars => [\A i \in Slots : notes'[i] # notes[i] => ConfirmedByUser(i)]_vars
  BY StepChanges DEF NotesStep
<1>2. QED BY <1>1, InvHolds, PTL DEF Spec, NotesChangeOnlyByUser

\* The passcode of the lock never changes under it, and the lock is removed by
\* its entry only.
THEOREM LockCorrect == Spec => LockNeedsItsPasscode
<1>1. IInv /\ [Next]_vars
        => [locked => /\ passcode' = passcode
                      /\ ~locked' => modal = [kind |-> "validate", after |-> "remove"]
                                     /\ isUnlocked']_vars
  BY StepChanges DEF LockStep
<1>2. QED BY <1>1, InvHolds, PTL DEF Spec, LockNeedsItsPasscode
=============================================================================
