------------------------------ MODULE TextEdit ------------------------------
(***************************************************************************)
(* The text editor (app_notes_text.c) on a buffer of Capacity bytes: the   *)
(* keyboard, the icon that erases everything, and the trimming that the    *)
(* Confirm button does.  The text is the C string of the buffer; its       *)
(* length is also counted key by key.  The keyboard offers the space and   *)
(* the page the Confirm button only when they were last drawn active.      *)
(*                                                                         *)
(* The limit on the keys is that of a content, whatever the buffer: what   *)
(* is after a shorter one may hold anything when it is read.               *)
(***************************************************************************)
EXTENDS Naturals, Sequences

CONSTANTS
    Letters,     \* the characters of the keyboard, without the space
    SPACE, NUL,  \* ' ' and '\0'
    Limit,       \* NOTE_CONTENT_MAX_LEN - 1: no character is added past it
    Capacity,    \* size of the buffer that is edited
    TitleMax,    \* NOTE_TITLE_MAX_LEN
    Texts        \* texts an editor may be opened on

Chars == Letters \cup {SPACE}

ASSUME TextAssumption ==
    /\ SPACE \notin Letters /\ NUL \notin Chars
    /\ Limit \in Nat \ {0} /\ Capacity \in Nat \ {0} /\ TitleMax \in Nat
    /\ Texts \subseteq {t \in Seq(Chars) : Len(t) < Capacity}

VARIABLES
    mem,             \* the buffer
    enteredTextLen,
    spaceKey, confirmButton, eraseIcon,   \* what is active on the page
    page,            \* the editor is on screen, or how it was left
    received,        \* the text it was opened on (a history)
    outside          \* where the last step read or wrote out of the buffer

drawn == <<spaceKey, confirmButton, eraseIcon>>
textVars == <<mem, enteredTextLen, drawn, page, received, outside>>

Cells == 1 .. Capacity

TextTypeOK ==
    /\ mem \in [Cells -> Chars \cup {NUL}]
    /\ enteredTextLen \in Nat
    /\ spaceKey \in BOOLEAN /\ confirmButton \in BOOLEAN /\ eraseIcon \in BOOLEAN
    /\ page \in {"left", "editing", "confirmed"}
    /\ received \in Texts \cup {<<>>}
    /\ outside \in {"no", "before", "after"}

\* strlen, in the buffer: the first '\0' (Capacity when there is none).
Terminated(n) == n = Capacity \/ mem[n + 1] = NUL
StrLen == CHOOSE n \in 0 .. Capacity : Terminated(n) /\ \A k \in 0 .. n - 1 : ~Terminated(k)

Text == [i \in 1 .. StrLen |-> mem[i]]

\* A byte written; one past the buffer is not its own.
Stored(i, a) == [mem EXCEPT ![i] = a]

Reach(i) == IF i \in Cells THEN "no" ELSE "after"

TextInit ==
    /\ mem = [i \in Cells |-> NUL]
    /\ enteredTextLen = 0
    /\ spaceKey = FALSE /\ confirmButton = FALSE /\ eraseIcon = FALSE
    /\ page = "left"
    /\ received = <<>>
    /\ outside = "no"

\* app_notesEditText on the text t, over what the buffer held before.
EditText(t) ==
    /\ page # "editing"
    /\ mem' = [i \in Cells |-> IF i <= Len(t) THEN t[i] ELSE IF i = Len(t) + 1 THEN NUL ELSE mem[i]]
    /\ enteredTextLen' = Len(t)
    /\ spaceKey' = (t # <<>>) /\ confirmButton' = (t # <<>>) /\ eraseIcon' = (t # <<>>)
    /\ page' = "editing"
    /\ received' = t
    /\ outside' = "no"

BelowLimit == enteredTextLen < Limit

\* A character; the first one gives the space key and the button back.
AddChar(c) ==
    /\ page = "editing" /\ BelowLimit
    /\ c = SPACE => spaceKey
    /\ LET n == enteredTextLen + 1
       IN  /\ mem' = [i \in Cells |-> IF i = n THEN c ELSE IF i = n + 1 THEN NUL ELSE mem[i]]
           /\ outside' = Reach(n + 1)
           /\ enteredTextLen' = n
           /\ spaceKey' = (spaceKey \/ n = 1)
           /\ confirmButton' = (confirmButton \/ n = 1)
    /\ UNCHANGED <<eraseIcon, page, received>>

\* A character over the limit is ignored.
IgnoreChar(c) ==
    /\ page = "editing" /\ ~BelowLimit
    /\ c = SPACE => spaceKey
    /\ outside' = "no"
    /\ UNCHANGED <<mem, enteredTextLen, drawn, page, received>>

\* The Confirm button stays active when the last character is erased.
Backspace ==
    /\ page = "editing" /\ enteredTextLen > 0
    /\ mem' = Stored(enteredTextLen, NUL)
    /\ enteredTextLen' = enteredTextLen - 1
    /\ spaceKey' = (spaceKey /\ enteredTextLen' # 0)
    /\ outside' = Reach(enteredTextLen)
    /\ UNCHANGED <<confirmButton, eraseIcon, page, received>>

\* Mutant: the characters are erased and their count is not.
EraseTextUncounted ==
    /\ page = "editing" /\ eraseIcon
    /\ mem' = Stored(1, NUL)
    /\ spaceKey' = FALSE
    /\ outside' = "no"
    /\ UNCHANGED <<enteredTextLen, confirmButton, eraseIcon, page, received>>

\* Mutant: the keyboard is not drawn again.
EraseTextUndrawn ==
    /\ page = "editing" /\ eraseIcon
    /\ mem' = Stored(1, NUL)
    /\ enteredTextLen' = 0
    /\ outside' = "no"
    /\ UNCHANGED <<drawn, page, received>>

\* The icon of the header, on a page opened on some text.
EraseText ==
    /\ page = "editing" /\ eraseIcon
    /\ mem' = Stored(1, NUL)
    /\ enteredTextLen' = 0
    /\ spaceKey' = FALSE
    /\ outside' = "no"
    /\ UNCHANGED <<confirmButton, eraseIcon, page, received>>

\* KBD_TEXT_TOKEN: the text shown in gray is cleared, when nothing was entered.
TouchText ==
    /\ page = "editing"
    /\ mem' = IF enteredTextLen = 0 /\ StrLen # 0 THEN Stored(1, NUL) ELSE mem
    /\ outside' = "no"
    /\ UNCHANGED <<enteredTextLen, drawn, page, received>>

\* Mutant: the last character is not looked at.
TrailingSpacesButLast ==
    {i \in 1 .. StrLen - 1 : \A j \in i .. StrLen - 1 : mem[j] = SPACE}

\* The spaces at the end of the text.
TrailingSpaces == {i \in 1 .. StrLen : \A j \in i .. StrLen : mem[j] = SPACE}

\* What the trimming erases of the buffer: when the string does not end there,
\* this depends on the bytes after it.
Trimmings == IF StrLen < Capacity THEN {TrailingSpaces} ELSE {TrailingSpaces, {}}

\* CONFIRM_BUTTON_TOKEN: the trimming runs back from the last character until
\* one is not a space; when there is no such character it goes on before the
\* text.  Then the callback of the caller closes the editor.
Confirm ==
    /\ page = "editing" /\ confirmButton
    /\ \E spaces \in Trimmings :
          /\ mem' = [i \in Cells |-> IF i \in spaces THEN NUL ELSE mem[i]]
          /\ outside' = IF spaces = 1 .. StrLen THEN "before" ELSE Reach(StrLen + 1)
    /\ page' = "confirmed"
    /\ UNCHANGED <<enteredTextLen, drawn, received>>

LeaveEditor ==
    /\ page = "editing"
    /\ page' = "left"
    /\ outside' = "no"
    /\ UNCHANGED <<mem, enteredTextLen, drawn, received>>

TextNext ==
    \/ \E t \in Texts : EditText(t)
    \/ \E c \in Chars : AddChar(c) \/ IgnoreChar(c)
    \/ Backspace \/ EraseText \/ TouchText
    \/ Confirm \/ LeaveEditor

TextSpec == TextInit /\ [][TextNext]_textVars

-----------------------------------------------------------------------------
(* Properties.                                                             *)

\* The part in the buffer of a text of n characters.
InBuffer(n) == IF n < Capacity THEN n ELSE Capacity

\* The count of the keys is the length of the string: the next character goes
\* at its end, after any mix of characters, erasures and openings.
LenMatches == page = "editing" => StrLen = InBuffer(enteredTextLen)

\* The end of the buffer is passed by a text that fills it, and by no other: no
\* more characters are counted than the limit, or than the buffer holds.
LeavesWhenFull ==
    /\ outside = "after" => enteredTextLen >= Capacity
    /\ enteredTextLen < Capacity \/ enteredTextLen <= Limit

\* What the keys rely on at each touch, for a buffer of any size.
TextInPlace == TextTypeOK /\ LenMatches /\ LeavesWhenFull

\* No byte is read or written past the buffer.
\* Not so in the buffers of a title and of a name: README, section 5.
TextFits == outside # "after"

\* A text never starts with a space, unless the one received did: the space
\* key is only active after another character.
StartsWithALetter ==
    page = "editing" /\ Text # <<>> /\ Text[1] = SPACE =>
        received # <<>> /\ received[1] = SPACE

\* What is left of the text has no space at its end, where this is in the
\* buffer, and only spaces are missing.
TextIsTrimmed ==
    /\ StrLen' <= StrLen
    /\ \A i \in 1 .. StrLen : IF i <= StrLen' THEN mem'[i] = mem[i] ELSE mem[i] = SPACE
    /\ StrLen' \in 1 .. Capacity - 1 => mem'[StrLen'] # SPACE

\* A confirmed text is the text on screen without the spaces at its end.
ConfirmTrims == [][page' = "confirmed" /\ page # "confirmed" => TextIsTrimmed]_textVars

\* "trim trailing ' ' chars from entered name": it stays within the text.
\* Not so: README, section 5.
TrimStaysInText == outside # "before"

\* app_notesAddNote and app_notesModifyNote take a "title to be applied (max
\* NOTE_TITLE_MAX_LEN bytes)": one confirmed in the editor fits.
\* Not so: README, section 5.
ConfirmedTitleFits == page = "confirmed" => StrLen < TitleMax
=============================================================================
