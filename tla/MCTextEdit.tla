----------------------------- MODULE MCTextEdit -----------------------------
(* Small instances of TextEdit for TLC.                                    *)
EXTENDS TextEdit

\* An empty text, one to edit, and two the keyboard does not give.
MCTexts == {<<>>, <<"a">>, <<SPACE>>, <<SPACE, "a">>}
=============================================================================
