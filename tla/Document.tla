------------------------------ MODULE Document ------------------------------
(***************************************************************************)
(* The edits of a note, on the sequence of its paragraphs: a new paragraph *)
(* comes last, a modified one changes alone, and a removed one goes, those *)
(* after it coming into the room that it and they had.  A single paragraph *)
(* is not removed: that edit is no step here.                              *)
(***************************************************************************)
EXTENDS Naturals, Sequences

CONSTANTS Texts, NoText, MaxParagraphs

VARIABLE doc

\* A content of one empty paragraph is the empty content.
Normal(d) == IF d = <<NoText>> THEN <<>> ELSE d

\* The paragraphs from k on that a shorter one takes the place of.  The last
\* one brings the end of the content with it, whatever its length.
Shortened(d, k) == {i \in k .. Len(d) - 2 : Len(d[i + 1]) < Len(d[i])}

\* e is the last paragraph left of d without the k-th: the content ends where
\* the first shorter paragraph ends.
EndsAt(d, k, e) ==
    /\ e \in Shortened(d, k) \cup {Len(d) - 1}
    /\ \A i \in Shortened(d, k) : e <= i

\* Each paragraph after the k-th is cut at the length of the one before it,
\* save the last one left, which is whole.
Left(d, k, e) ==
    [i \in 1 .. e |->
        IF i < k THEN d[i]
        ELSE IF i = e THEN d[i + 1]
        ELSE SubSeq(d[i + 1], 1, Len(d[i]))]

Init == doc = <<>>

AppendText(t) ==
    /\ Len(doc) < MaxParagraphs
    /\ doc' = Normal(Append(doc, t))

Replace(k, t) == doc' = [doc EXCEPT ![k] = t]

Remove(k) ==
    /\ Len(doc) > 1
    /\ \E e \in 1 .. Len(doc) - 1 : EndsAt(doc, k, e) /\ doc' = Normal(Left(doc, k, e))

Next ==
    \/ \E t \in Texts : AppendText(t)
    \/ \E k \in DOMAIN doc, t \in Texts \ {NoText} : Replace(k, t)
    \/ \E k \in DOMAIN doc : Remove(k)

Spec == Init /\ [][Next]_doc
=============================================================================
