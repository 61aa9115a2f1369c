----------------------------- MODULE MCNotesApp -----------------------------
(* Small instances of NotesApp for TLC: texts are sequences of bytes, so   *)
(* that the removal of a paragraph is the one of the byte level.           *)
EXTENDS NotesApp, TLC

CONSTANTS p1, p2

Bytes == INSTANCE ParagraphOps WITH Size <- 8, NUL <- "nul", NL <- "nl"

MCNoText == <<>>
MCTexts == { <<>>, <<"a">> }
MCRemoveParagraph(c, k) == Bytes!Removed(c, k)

\* A note of two paragraphs from the host.
MCHostNotes == { [title |-> <<"a">>, content |-> << <<"a">>, <<"a">> >>] }
MCNoHostNotes == {}

MCPasscodes == {p1, p2}
MCNoPasscodes == {}

\* The passcodes are only compared.
Symmetry == Permutations(MCPasscodes)
=============================================================================
