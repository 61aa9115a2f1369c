-------------------------------- MODULE Lock --------------------------------
(***************************************************************************)
(* What the lock of the notes promises: it is set with the code that was   *)
(* typed, a session is opened by typing that code, only that code removes  *)
(* the lock, and a restart closes the session.  Power lost while the lock  *)
(* is being set leaves it shut with a code nobody chose (Torn), the one    *)
(* weakness of the code.  Passcode is shown to implement this module.      *)
(***************************************************************************)
CONSTANTS
    Codes,          \* the codes a lock may be set with
    Typed,          \* what may be typed: these codes, and shorter ones
    StoredCodes,    \* what NVRAM may hold: what may be typed, and more
    NoLock          \* no lock is set; not one of StoredCodes

VARIABLES
    lock,    \* NoLock, or the code that opens the notes
    open,    \* the session was opened
    typed    \* the digits on the keypad

vars == <<lock, open, typed>>

Init == lock = NoLock /\ open = FALSE /\ typed = <<>>

Type == typed' \in Typed /\ UNCHANGED <<lock, open>>

\* Once a code was entered the keypad may keep its digits or be cleared.
Set ==
    /\ lock = NoLock
    /\ typed \in Codes
    /\ lock' = typed
    /\ open' = TRUE
    /\ typed' \in Typed

Enter ==
    /\ lock # NoLock
    /\ open' = (typed = lock)
    /\ typed' \in Typed
    /\ UNCHANGED lock

Remove ==
    /\ lock = typed
    /\ lock' = NoLock
    /\ open' = TRUE
    /\ typed' \in Typed

Restart == open' = FALSE /\ typed' = <<>> /\ UNCHANGED lock

\* The notes are locked by whatever the interrupted writes left.
Torn ==
    /\ lock = NoLock
    /\ lock' \in StoredCodes
    /\ open' = FALSE
    /\ typed' = <<>>

Next == Type \/ Set \/ Enter \/ Remove \/ Restart \/ Torn

Spec == Init /\ [][Next]_vars
=============================================================================
