----------------------------- MODULE Paragraphs -----------------------------
(***************************************************************************)
(* A note on screen: its buffer, the pointers to its paragraphs and the    *)
(* content saved in NVRAM, through the edits of app_notes_display.c.  Each *)
(* edit joins the paragraphs, saves the string and displays the note       *)
(* again, which splits the buffer.                                         *)
(***************************************************************************)
EXTENDS ParagraphOps

CONSTANTS
    Texts,         \* what may be typed as a paragraph, a set of byte sequences
    MaxParagraphs  \* NB_MAX_PARAGRAPHS

ASSUME ParagraphsAssumption ==
    /\ Size \in Nat \ {0} /\ MaxParagraphs \in Nat
    /\ NUL # NL
    /\ \A t \in Texts : t \in Seq(ToSet(t) \ {NUL, NL})

Bytes == {NUL, NL} \cup UNION {ToSet(t) : t \in Texts}

VARIABLES
    view,   \* [buf, ptr]: currentNote.content and context.paragraphs
    stored  \* NVRAM: the content of the note

vars == <<view, stored>>

TypeOK ==
    /\ view \in [buf : [Offsets -> Bytes], ptr : Seq(Offsets)]
    /\ Len(view.ptr) <= MaxParagraphs
    /\ stored \in Seq(Bytes)

\* A note just created.
Init ==
    /\ view = content2paragraphs(BufferOf(<<>>))
    /\ stored = <<>>

\* Mutant: the string is saved before the paragraphs are joined.
SaveAndDisplayUnjoined(v) ==
    /\ stored' = StrAt(v.buf, 0)
    /\ view' = content2paragraphs(paragraphs2content(v))

\* paragraphs2content, app_notesModifyNote, app_notesDisplay.
SaveAndDisplay(v) ==
    LET flat == paragraphs2content(v)
    IN  /\ stored' = StrAt(flat, 0)
        /\ view' = content2paragraphs(flat)

\* Bound of the model: the text of the note and its final '\0' fit the buffer.
Fits(doc) == Len(FlatString(doc)) < Size

\* Mutant: no limit to the number of paragraphs.
AddParagraphUnbounded(t) ==
    /\ Fits(Append(ParagraphsOf(view), t))
    /\ SaveAndDisplay(onNewParagraphConfirmed(view, t))

AddParagraph(t) ==
    /\ Len(view.ptr) < MaxParagraphs
    /\ Fits(Append(ParagraphsOf(view), t))
    /\ SaveAndDisplay(onNewParagraphConfirmed(view, t))

ModifyParagraph(k, t) ==
    /\ Fits([ParagraphsOf(view) EXCEPT ![k] = t])
    /\ SaveAndDisplay(onParagraphModified(view, k, t))

\* onTitleModified: another title, saved with the content as it is on screen.
ModifyTitle == SaveAndDisplay(view)

\* backFromDisplay: the content is joined and split again.
Redisplay ==
    /\ view' = content2paragraphs(paragraphs2content(view))
    /\ UNCHANGED stored

\* The note is selected again in the list: strcpy from NVRAM, in a buffer that
\* keeps what lies after the end of the string.
Reopen ==
    /\ view' = content2paragraphs(StrCpy(view.buf, 0, stored))
    /\ UNCHANGED stored

Next ==
    \/ \E t \in Texts : AddParagraph(t)
    \/ \E k \in DOMAIN view.ptr, t \in Texts : ModifyParagraph(k, t)
    \/ ModifyTitle
    \/ Redisplay
    \/ Reopen

Spec == Init /\ [][Next]_vars

-----------------------------------------------------------------------------

paragraphs == ParagraphsOf(view)

\* The pointers are increasing, one byte after a '\0' or at the start, and the
\* last paragraph ends inside the buffer.
PointersDelimit ==
    /\ \A j \in DOMAIN view.ptr :
          view.ptr[j] = IF j = 1 THEN 0 ELSE EndOf(view.buf, view.ptr[j - 1])
    /\ view.buf[Size - 1] = NUL

\* What is on screen is what is saved, whatever the edits and the residue they
\* leave in the buffer: leaving the note and opening it again shows the same.
ShownIsStored == stored = FlatString(paragraphs)

\* The note on screen is the string saved, cut at the right places.
ViewIsStored == PointersDelimit /\ ShownIsStored

Doc == INSTANCE Document WITH doc <- paragraphs, NoText <- <<>>

\* Every edit made in place is one of the edits of a sequence of paragraphs.
ImplementsDocument == Doc!Spec

\* onParagraphModified, "remove paragraph by shifting all paragraphs after
\* it": among paragraphs that all have some text, confirming an empty text
\* removes that paragraph and no other.
RemovalKeepsOthers ==
    Len(paragraphs) > 1 /\ (\A j \in DOMAIN paragraphs : paragraphs[j] # <<>>) =>
        \A k \in DOMAIN paragraphs :
            Redisplayed(onParagraphModified(view, k, <<>>)) = RemoveAt(paragraphs, k)

\* The same comment of the only paragraph: confirming an empty text removes it.
\* Not so, the count goes to 0 and the text stays: README, section 5.
SoleParagraphIsRemoved ==
    Len(paragraphs) = 1 => Redisplayed(onParagraphModified(view, 1, <<>>)) = <<>>

\* "content to be applied (max NOTE_CONTENT_MAX_LEN bytes)": what is typed as one
\* more paragraph, where the screen offers it, fits the note with those it has.
\* Not so: README, section 5.
AddedContentFits ==
    Len(view.ptr) < MaxParagraphs => \A t \in Texts : Fits(Append(paragraphs, t))
=============================================================================
