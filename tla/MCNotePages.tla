---- MODULE MCNotePages ----
\* Small instance of NotePages for TLC: paragraphs of three sizes.
EXTENDS NotePages
MCEmpty == [length |-> 0, large |-> 0, small |-> 0]
MCShort == [length |-> 1, large |-> 2, small |-> 1]
\* Too long for a page in the large font, too long for the last page in the small one.
MCLong  == [length |-> 3, large |-> 7, small |-> 4]
MCParagraphs == {MCEmpty, MCShort, MCLong}
====
