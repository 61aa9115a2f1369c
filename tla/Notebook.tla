------------------------------ MODULE Notebook ------------------------------
(***************************************************************************)
(* What the storage of the notes (and of the contacts) promises to the     *)
(* screens above it: a fixed number of places, each free or holding one    *)
(* entry, and calls that each concern one place.                           *)
(*                                                                         *)
(* A call that returns has exactly its effect.  A call cut by a loss of    *)
(* power touches no other place than its own; a place that was being       *)
(* modified then holds, field by field, the old or the new value, and a    *)
(* place that was being filled is taken, whatever its fields hold.         *)
(***************************************************************************)
CONSTANTS
    Slots,     \* the places
    Titles,    \* what the first field of an entry may hold
    Contents,  \* what the second field of an entry may hold
    Free       \* stands for the entry of a free place, and is no entry

Entries == [title : Titles, content : Contents]

VARIABLES
    book,      \* what each place holds
    request    \* the call in progress

vars == <<book, request>>

\* The value of request between two calls.
None == [op |-> "none"]

Requests == [op : {"add", "modify"}, slot : Slots, entry : Entries]

TypeOK ==
    /\ book \in [Slots -> Entries \cup {Free}]
    /\ request \in Requests \cup {None}

Init ==
    /\ book = [s \in Slots |-> Free]
    /\ request = None

Call(op, s, e) ==
    /\ request = None
    /\ (op = "add") <=> (book[s] = Free)
    /\ request' = [op |-> op, slot |-> s, entry |-> e]
    /\ UNCHANGED book

Return ==
    /\ request # None
    /\ book' = [book EXCEPT ![request.slot] = request.entry]
    /\ request' = None

Delete(s) ==
    /\ request = None
    /\ book[s] # Free
    /\ book' = [book EXCEPT ![s] = Free]
    /\ UNCHANGED request

\* What the place of a call may hold when the power is lost before its end.
Torn(r) ==
    IF r.op = "add"
    THEN Entries
    ELSE [title   : {book[r.slot].title, r.entry.title},
          content : {book[r.slot].content, r.entry.content}]

Cut ==
    /\ request # None
    /\ \E e \in Torn(request) : book' = [book EXCEPT ![request.slot] = e]
    /\ request' = None

Next ==
    \/ \E op \in {"add", "modify"}, s \in Slots, e \in Entries : Call(op, s, e)
    \/ \E s \in Slots : Delete(s)
    \/ Return
    \/ Cut

Spec == Init /\ [][Next]_vars
=============================================================================
