------------------------------ MODULE MCLists ------------------------------
(* Small instance of Lists for TLC.  No symmetry: contacts are listed in   *)
(* the order of their slots.                                               *)
EXTENDS Lists
=============================================================================
