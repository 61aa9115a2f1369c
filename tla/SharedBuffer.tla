---------------------------- MODULE SharedBuffer ----------------------------
(***************************************************************************)
(* sharedBuffer, the static array through which three commands of the host *)
(* pass their bytes: GET_NOTE writes the shared note in it, PUT_NOTE reads *)
(* a note into it and leaves it there for the user's choice, ADD_ADDRESS   *)
(* copies an address over it.  A packet that PUT_NOTE reads is what GET_NOTE *)
(* answered on another device, relayed whole or cut short.  Bytes are      *)
(* numbers; lengths are bytes too.                                         *)
(***************************************************************************)
EXTENDS Naturals, Sequences, SequencesExt

CONSTANTS
    ByteMod,        \* 256: a length kept in a uint8_t is modulo this
    BufferSize,     \* size of sharedBuffer
    AddressSize,    \* bytes of an address
    Letters,        \* bytes texts are made of
    Notes,          \* notes a user may share
    Addresses,      \* addresses a host may send
    Nothing         \* no note, no address

Bytes == 0 .. ByteMod - 1

Text == Seq(Letters)

ASSUME SharedBufferAssumption ==
    /\ ByteMod \in Nat \ {0} /\ BufferSize \in Nat /\ ByteMod <= BufferSize
    /\ AddressSize \in Nat /\ AddressSize < BufferSize
    /\ Letters \subseteq Bytes \ {0}
    /\ \A n \in Notes : n.title \in Text /\ n.content \in Text
    /\ Addresses \subseteq Text \ {<<>>}

VARIABLES
    mem,          \* sharedBuffer, from 0
    shared,       \* context.note: the note whose share page was opened
    choice,       \* context.receivedNote, while "Add shared Note?" is on screen
    offered,      \* the note of the packet the choice was opened for (a history)
    rewritten,    \* the buffer changed under the choice (a history)
    outcome       \* what the last step answered or saved

bufferVars == <<mem, shared, choice, offered, rewritten, outcome>>

Cells == 0 .. BufferSize - 1

ChoicePointers == [title : Cells, content : Cells]

\* What GET_NOTE answered, what "Add Note" saved, what ADD_ADDRESS saved.
Outcomes ==
    [of : Notes, answer : Seq(Bytes)]
    \cup [title : Seq(Bytes), content : Seq(Bytes)]
    \cup [sent : Addresses, kept : Seq(Bytes)]

BufferTypeOK ==
    /\ mem \in [Cells -> Bytes]
    /\ shared \in Notes \cup {Nothing}
    /\ choice \in ChoicePointers \cup {Nothing}
    /\ offered \in Notes \cup {Nothing}
    /\ rewritten \in BOOLEAN
    /\ outcome \in Outcomes \cup {Nothing}

\* The memory with the bytes b written from a on; those past it are not its own.
Written(m, a, b) == [c \in Cells |-> IF c \in a .. a + Len(b) - 1 THEN b[c - a + 1] ELSE m[c]]

\* The C string that starts at a: up to the first zero, or to the end.
EndOf(a) == CHOOSE e \in a .. BufferSize :
    /\ e = BufferSize \/ mem[e] = 0
    /\ \A c \in a .. e - 1 : mem[c] # 0
StringAt(a) == [k \in 1 .. EndOf(a) - a |-> mem[a + k - 1]]

BufferInit ==
    /\ mem = [c \in Cells |-> 0]
    /\ shared = Nothing /\ choice = Nothing
    /\ offered = Nothing /\ rewritten = FALSE /\ outcome = Nothing

\* The choice leaves the screen: the pointers stay but nothing reads them.
LeaveChoice == choice' = Nothing /\ offered' = Nothing /\ rewritten' = FALSE

\* app_notesShare: the share page is opened for a note.
Share(n) ==
    /\ shared' = n
    /\ LeaveChoice
    /\ outcome' = Nothing
    /\ UNCHANGED mem

-----------------------------------------------------------------------------
(* GET_NOTE.                                                               *)

\* Mutant: the texts are copied by their lengths, not by the bytes that say them.
PackedUncut(n) ==
    <<Len(n.title) % ByteMod>> \o n.title \o <<Len(n.content) % ByteMod>> \o n.content

\* A length, as a byte, then that much of the title; the same of the content.
Packed(n) ==
    LET t == Len(n.title) % ByteMod
        c == Len(n.content) % ByteMod
    IN  <<t>> \o SubSeq(n.title, 1, t) \o <<c>> \o SubSeq(n.content, 1, c)

\* The page "Note sent" replaces whatever was on screen.
GetNote ==
    /\ shared # Nothing
    /\ mem' = Written(mem, 0, Packed(shared))
    /\ outcome' = [of |-> shared, answer |-> Packed(shared)]
    /\ LeaveChoice
    /\ UNCHANGED shared

-----------------------------------------------------------------------------
(* PUT_NOTE: the packet d, from its first byte on.                         *)

\* buffer_read_nu8 after buffer_read_u8: the bytes are there, or none is read.
CanRead(d, at) == at <= Len(d) /\ at + d[at] <= Len(d)
Field(d, at) == SubSeq(d, at + 1, at + d[at])

\* Where the length of the content is, and where its text goes.
ContentAt(d) == d[1] + 2
ContentCell(d) == d[1] + 1

\* Mutant: the terminator is written with the content's, at the end.
TitleOpen(d) == Written(mem, 0, Field(d, 1))

\* The title and its terminator.
TitleWritten(d) == Written(Written(mem, 0, Field(d, 1)), d[1], <<0>>)

\* Mutant: the content starts where the title ends, over its terminator.
NoteWrittenOver(d) == Written(TitleWritten(d), ContentCell(d) - 1, Field(d, ContentAt(d)) \o <<0>>)

NoteWritten(d) == Written(TitleWritten(d), ContentCell(d), Field(d, ContentAt(d)) \o <<0>>)

\* Refused before anything is read.
PutRefused(d) == ~CanRead(d, 1) /\ UNCHANGED <<mem, choice, offered, rewritten>>

\* Refused when the title has been read: what is on screen stays.
PutTitleOnly(d) ==
    /\ CanRead(d, 1) /\ ~CanRead(d, ContentAt(d))
    /\ mem' = TitleWritten(d)
    /\ rewritten' = (choice # Nothing)
    /\ UNCHANGED <<choice, offered>>

\* app_notesReceiveSharedNote: the choice is shown, with pointers to the buffer.
PutAccepted(d, n) ==
    /\ CanRead(d, 1) /\ CanRead(d, ContentAt(d))
    /\ mem' = NoteWritten(d)
    /\ choice' = [title |-> 0, content |-> ContentCell(d)]
    /\ offered' = n
    /\ rewritten' = FALSE

\* A packet has a length of one byte; it is what another device answered, or
\* the first bytes of it.
PutNote ==
    /\ \E n \in Notes : \E k \in 1 .. ByteMod - 1 :
          LET d == SubSeq(Packed(n), 1, k)
          IN  /\ k <= Len(Packed(n))
              /\ PutRefused(d) \/ PutTitleOnly(d) \/ PutAccepted(d, n)
    /\ outcome' = Nothing
    /\ UNCHANGED shared

\* onNoteReceptionChoice: the note is added, as the buffer has it, if a slot is
\* free, or the note is rejected.
ChooseReception ==
    /\ choice # Nothing
    /\ outcome' \in {Nothing, [title   |-> StringAt(choice.title),
                              content |-> StringAt(choice.content)]}
    /\ choice' = Nothing /\ rewritten' = FALSE
    /\ UNCHANGED <<mem, shared, offered>>

-----------------------------------------------------------------------------
(* ADD_ADDRESS, once a page for a new contact was opened.                  *)

\* buffer_copy: all of a, unless it is longer than the room it is given.
AddressWritten(a) == IF Len(a) <= AddressSize THEN Written(mem, 0, a) ELSE mem

\* The address is stored as the C string of the buffer; the share page is shown.
AddAddress(a) ==
    /\ mem' = AddressWritten(a)
    /\ outcome' = [sent |-> a, kept |-> StringAt(0)']
    /\ LeaveChoice
    /\ UNCHANGED shared

-----------------------------------------------------------------------------
BufferNext ==
    \/ \E n \in Notes : Share(n)
    \/ GetNote
    \/ PutNote
    \/ ChooseReception
    \/ \E a \in Addresses : AddAddress(a)

BufferSpec == BufferInit /\ [][BufferNext]_bufferVars

-----------------------------------------------------------------------------
(* Properties.                                                             *)

\* While the choice is on screen and no refused packet came under it, the two
\* strings it would save are the note that the other device shared (when its
\* title and its content have lengths that a byte can say): what
\* handler_get_shared_note wrote, relayed, is read back by handler_put_shared_note.
OfferIsWhole ==
    choice # Nothing /\ ~rewritten
            /\ Len(offered.title) < ByteMod /\ Len(offered.content) < ByteMod =>
        /\ StringAt(choice.title) = offered.title
        /\ StringAt(choice.content) = offered.content

\* Whatever was refused since the choice was shown, its two strings end inside
\* the buffer: no packet cut short takes the last terminator away.
StringsEnd ==
    choice # Nothing => EndOf(choice.title) < BufferSize /\ EndOf(choice.content) < BufferSize

\* b can be read by its lengths to its last byte, and has the beginnings of the
\* texts of n.
IsPacketOf(b, n) ==
    /\ CanRead(b, 1) /\ CanRead(b, ContentAt(b))
    /\ ContentAt(b) + b[ContentAt(b)] = Len(b)
    /\ IsPrefix(Field(b, 1), n.title) /\ IsPrefix(Field(b, ContentAt(b)), n.content)

\* Whatever the lengths of the note shared, also those that a byte cannot say,
\* what GET_NOTE answers is one packet that PUT_NOTE can read, with no byte that
\* is not of the note: a text is cut, never taken for a length.
AnswerIsAPacket ==
    outcome # Nothing /\ "answer" \in DOMAIN outcome =>
        IsPacketOf(outcome.answer, outcome.of)

\* The note that "Add Note" saves has the title that "Add shared Note?" showed
\* (onNoteReceptionChoice reads the buffer again).
\* Not so: README, section 5.
SavedIsShown ==
    [][ChooseReception /\ outcome' # Nothing => outcome'.title = offered.title]_bufferVars

\* The bytes GET_NOTE answers, read with their lengths, are the note shared
\* ("convert note title+content in a buffer").
\* Not so: README, section 5.
ResponseCarriesTheNote ==
    outcome # Nothing /\ "answer" \in DOMAIN outcome =>
        LET b == outcome.answer
        IN  /\ Field(b, 1) = outcome.of.title
            /\ Field(b, ContentAt(b)) = outcome.of.content

\* The address saved for a contact is the one the host sent, of the size it should
\* have ("32 bytes for address", handler_add_address).
\* Not so: README, section 5.
AddressIsKept ==
    outcome # Nothing /\ "kept" \in DOMAIN outcome /\ Len(outcome.sent) = AddressSize
        => outcome.kept = outcome.sent

=============================================================================
