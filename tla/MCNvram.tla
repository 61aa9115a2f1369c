------------------------------ MODULE MCNvram ------------------------------
(* Small instance of Nvram for TLC: the strings are model values.  Two     *)
(* contents for a note, so that one may replace another.                   *)
EXTENDS Nvram

CONSTANTS t1, c1, c2, n1, a1

MCTitles == {NoTitle, t1}
MCContents == {NoContent, c1, c2}
MCNames == {NoName, n1}
MCAddresses == {NoAddress, a1}
=============================================================================
