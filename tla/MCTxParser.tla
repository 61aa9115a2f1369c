---- MODULE MCTxParser ----
\* Bytes are modulo 8, those from 4 on are not ASCII; 5, 6 and 7 announce a
\* length of one, two or three bytes.
EXTENDS TxParser
MCWidths == <<1, 2, 3>>
MCHeader == <<0, 1, 7, 1, 0>>
MCTails == BoundedSeq({0, 1, 2, 4, 5, 7}, 5) \cup {[k \in 1 .. 14 |-> 1]}
MCInputs == {MCHeader \o t : t \in MCTails} \cup {SubSeq(MCHeader, 1, k) : k \in 0 .. 4}
MCMemos == BoundedSeq({1, 3, 4}, 2) \cup {[k \in 1 .. n |-> 2] : n \in 3 .. 11}
MCTransactions ==
    [nonce : {0, 1, 10, 63}, to : {<<7>>}, value : {0, 8, 63}, memo : MCMemos]
====
