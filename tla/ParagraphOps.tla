---------------------------- MODULE ParagraphOps ----------------------------
(***************************************************************************)
(* The editing of a note's content in its buffer (app_notes_display.c).    *)
(* The buffer is a C string whose lines are separated by '\n'.  While the  *)
(* note is on screen it is split in place: every '\n' is a '\0' and an     *)
(* array of pointers gives the start of each paragraph.  The operators     *)
(* take and return [buf, ptr]: the bytes and the pointers (as indexes).    *)
(***************************************************************************)
EXTENDS Integers, Sequences, FiniteSets, SequencesExt

CONSTANTS
    Size,  \* NOTE_CONTENT_MAX_LEN
    NUL,   \* '\0'
    NL     \* '\n'

Offsets == 0 .. Size - 1

\* strlen(buf + p).
StrLen(buf, p) ==
    CHOOSE d \in 0 .. Size - 1 - p :
        buf[p + d] = NUL /\ \A e \in 0 .. d - 1 : buf[p + e] # NUL

\* The C string at p.
StrAt(buf, p) == [i \in 1 .. StrLen(buf, p) |-> buf[p + i - 1]]

MemMove(buf, dst, src, len) ==
    [i \in Offsets |-> IF i \in dst .. dst + len - 1 THEN buf[src + i - dst] ELSE buf[i]]

StrCpy(buf, dst, text) ==
    [i \in Offsets |->
        IF i \in dst .. dst + Len(text) - 1 THEN text[i - dst + 1]
        ELSE IF i = dst + Len(text) THEN NUL
        ELSE buf[i]]

\* The paragraphs on screen.
ParagraphsOf(v) == [j \in DOMAIN v.ptr |-> StrAt(v.buf, v.ptr[j])]

\* The line breaks of the string.
Breaks(buf) == {i \in 0 .. StrLen(buf, 0) - 1 : buf[i] = NL}

\* The pointers set by the loop once it has read n characters.
PointersAfter(buf) ==
    LET ptr[n \in Offsets] ==
            IF n = 0 THEN <<0>>
            ELSE IF buf[n - 1] = NL THEN Append(ptr[n - 1], n) ELSE ptr[n - 1]
    IN  ptr

content2paragraphs(buf) ==
    [buf |-> [i \in Offsets |-> IF i \in Breaks(buf) THEN NUL ELSE buf[i]],
     ptr |-> IF buf[0] = NUL THEN <<>>
             ELSE PointersAfter(buf)[StrLen(buf, 0)]]

\* Only the '\0' before the second and later pointers become '\n' again.
paragraphs2content(v) ==
    [i \in Offsets |-> IF \E j \in 2 .. Len(v.ptr) : i = v.ptr[j] - 1 THEN NL ELSE v.buf[i]]

\* The address just after the string at p.
EndOf(buf, p) == p + StrLen(buf, p) + 1

onNewParagraphConfirmed(v, text) ==
    LET at == IF v.ptr = <<>> THEN 0 ELSE EndOf(v.buf, Last(v.ptr))
    IN  [buf |-> StrCpy(v.buf, at, text), ptr |-> Append(v.ptr, at)]

\* The loop that copies each paragraph after the k-th over the one before it.
\* The pointers do not move.
Shifted(v, k) ==
    LET loop[i \in k .. Len(v.ptr)] ==
            IF i = k THEN v.buf
            ELSE MemMove(loop[i - 1], v.ptr[i - 1], v.ptr[i], StrLen(loop[i - 1], v.ptr[i]) + 1)
    IN  loop[Len(v.ptr)]

WithoutParagraph(v, k) == [buf |-> Shifted(v, k), ptr |-> Front(v.ptr)]

\* Mutant: the paragraphs after the k-th are not moved.
ReplaceParagraphInPlace(v, k, text) ==
    [buf |-> StrCpy(v.buf, v.ptr[k], text), ptr |-> v.ptr]

\* The paragraphs after the k-th are moved to the place the new text leaves
\* them, and their pointers with them.
ReplaceParagraph(v, k, text) ==
    LET diff == Len(text) - StrLen(v.buf, v.ptr[k])
        moved == IF k = Len(v.ptr) \/ diff = 0 THEN v.buf
                 ELSE MemMove(v.buf, v.ptr[k] + Len(text) + 1, v.ptr[k + 1],
                              EndOf(v.buf, Last(v.ptr)) - v.ptr[k + 1])
    IN  [buf |-> StrCpy(moved, v.ptr[k], text),
         ptr |-> [j \in DOMAIN v.ptr |-> IF j > k THEN v.ptr[j] + diff ELSE v.ptr[j]]]

onParagraphModified(v, k, text) ==
    IF text = <<>> THEN WithoutParagraph(v, k) ELSE ReplaceParagraph(v, k, text)

-----------------------------------------------------------------------------
(* The same content as a sequence of paragraphs, each a sequence of bytes. *)

\* The string of a note with these paragraphs, and its buffer.
FlatString(doc) ==
    LET flat[n \in 0 .. Len(doc)] ==
            IF n = 0 THEN <<>>
            ELSE IF n = 1 THEN doc[1]
            ELSE flat[n - 1] \o <<NL>> \o doc[n]
    IN  flat[Len(doc)]

BufferOf(doc) ==
    [i \in Offsets |-> IF i < Len(FlatString(doc)) THEN FlatString(doc)[i + 1] ELSE NUL]

\* What an edit makes of a note with these paragraphs, once it is displayed
\* again.
Redisplayed(v) == ParagraphsOf(content2paragraphs(paragraphs2content(v)))

Removed(doc, k) == Redisplayed(WithoutParagraph(content2paragraphs(BufferOf(doc)), k))
=============================================================================
