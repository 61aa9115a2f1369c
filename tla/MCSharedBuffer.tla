---- MODULE MCSharedBuffer ----
\* Bytes are modulo 8 and the array has as many cells.
EXTENDS SharedBuffer
MCLetters == {6, 7}
MCNotes == [title : {<<>>, <<7, 6>>}, content : {<<>>, <<7>>, <<6, 7, 7>>}]
    \cup {[title |-> <<7>>, content |-> [i \in 1 .. 9 |-> 6]],
          [title |-> <<6, 7, 7, 6, 7>>, content |-> <<6, 7>>],
          [title |-> [i \in 1 .. 10 |-> 7], content |-> <<6>>]}
MCAddresses == {<<7>>, <<6, 7>>, <<6, 7, 6>>}
====
