---------------------------- MODULE MCParagraphs ----------------------------
(* Small instance of Paragraphs for TLC: texts of at most two bytes.       *)
EXTENDS Paragraphs

MCTexts == { <<>>, <<"a">>, <<"b", "b">> }
=============================================================================
