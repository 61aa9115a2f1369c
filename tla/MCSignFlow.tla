----------------------------- MODULE MCSignFlow -----------------------------
(* Small instances of SignFlow for TLC: transactions of two or three units, *)
(* one of them the start of the other.                                     *)
EXTENDS SignFlow

MCUnits == {"a", "b"}
MCChunks == {<<"a">>, <<"b">>, <<"a", "b">>}
MCTransactions == {<<"a", "b">>, <<"a", "b", "a">>}
=============================================================================
