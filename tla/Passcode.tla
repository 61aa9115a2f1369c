------------------------------ MODULE Passcode ------------------------------
(***************************************************************************)
(* The passcode of the notes, digit by digit: the two steps of its choice  *)
(* (app_notes_enter_passcode.c), its check (app_notes_validate_passcode.c) *)
(* and the three writes that store it (app_notes_utils.c), with a loss of  *)
(* power between any two of them.                                          *)
(*                                                                         *)
(* The handlers take the length of a code from the keys of the keypad: a   *)
(* key that is not active cannot be touched, and the keypad is drawn again *)
(* only at some lengths, to spare the screen.  The keys are therefore part *)
(* of the state.                                                           *)
(***************************************************************************)
EXTENDS Naturals, Sequences

CONSTANTS
    Digits,          \* the digits of the keypad
    Zero,            \* the byte of a memory never written
    NoLock,          \* the value of the abstract lock when none is set
    MinPin, MaxPin   \* MIN_PIN_LENGTH, MAX_PIN_LENGTH

ASSUME PasscodeAssumption ==
    /\ MinPin \in Nat /\ MaxPin \in Nat
    /\ 2 <= MinPin /\ MinPin <= MaxPin
    /\ Zero \notin Digits
    /\ NoLock \notin UNION {[1 .. n -> Digits \cup {Zero}] : n \in 0 .. MaxPin}

VARIABLES
    locked, nbDigits, digits,   \* NVRAM: the settings
    writing,                    \* the next write of the settings, if any
    isUnlocked,                 \* RAM: the session is unlocked
    screen,                     \* the page on screen
    after,                      \* RAM: what a right code does (afterPinCallback)
    step,                       \* RAM: the step of the choice
    pin,                        \* RAM: the digits typed on the page
    setPin, setPinLen,          \* RAM: the code of the first step
    keypad                      \* the keys that are active

settings == <<locked, nbDigits, digits>>
choice   == <<step, setPin, setPinLen>>
typing   == <<pin, keypad>>
vars     == <<settings, writing, isUnlocked, screen, after, choice, typing>>

Bytes == Digits \cup {Zero}
Pins  == UNION {[1 .. n -> Digits] : n \in 0 .. MaxPin}
Codes == {p \in Pins : Len(p) >= MinPin}

\* What the stored length and digits, or those of the first step, stand for.
Prefix(array, n) == [i \in 1 .. n |-> array[i]]

StoredCode == Prefix(digits, nbDigits)

Keys == [validate : BOOLEAN, backspace : BOOLEAN, digits : BOOLEAN]

TypeOK ==
    /\ locked \in BOOLEAN
    /\ nbDigits \in 0 .. MaxPin
    /\ digits \in [1 .. MaxPin -> Bytes]
    /\ writing \in {"none", "length", "digits"}
    /\ isUnlocked \in BOOLEAN
    /\ screen \in {"other", "settings", "choice", "setPin", "retry", "validate", "invalidPin"}
    /\ after \in {"open", "remove"}
    /\ step \in {"set", "confirm"}
    /\ pin \in Pins
    /\ setPin \in [1 .. MaxPin -> Bytes]
    /\ setPinLen \in 0 .. MaxPin
    /\ keypad \in Keys

-----------------------------------------------------------------------------
(* The keypad.                                                             *)

\* nbgl_layoutAddKeypad: a keypad just drawn has only its digits.
FreshKeypad == [validate |-> FALSE, backspace |-> FALSE, digits |-> TRUE]

\* Mutant: a shorter code than the first one may be validated.
BoundsOfFirstStep ==
    IF screen = "setPin" /\ step = "confirm" THEN <<MinPin, setPinLen>> ELSE <<MinPin, MaxPin>>

\* The bounds of a page: the second step takes as many digits as the first.
Bounds ==
    IF screen = "setPin" /\ step = "confirm" THEN <<setPinLen, setPinLen>> ELSE <<MinPin, MaxPin>>

KeysFor(n) == [validate |-> n >= Bounds[1], backspace |-> n > 0, digits |-> n < Bounds[2]]

\* Mutant: the validate key stays when the code gets too short.
RedrawnAtEnds(n, add) ==
    IF add THEN n \in {Bounds[1], Bounds[2], 1} ELSE n \in {0, Bounds[2] - 1}

\* setPinCodeText: the lengths at which the keypad is drawn again.
Redrawn(n, add) ==
    IF add THEN n \in {Bounds[1], Bounds[2], 1} ELSE n \in {0, Bounds[1] - 1, Bounds[2] - 1}

\* The digits typed become p.
setPinCodeText(p, add) ==
    /\ pin' = p
    /\ keypad' = IF Redrawn(Len(p), add) THEN KeysFor(Len(p)) ELSE keypad

\* buildScreen of both pages: no digit is typed yet.
BuildScreen(s) ==
    /\ screen' = s
    /\ pin' = <<>>
    /\ keypad' = FreshKeypad

OnKeypad == screen \in {"setPin", "validate"} /\ writing = "none"

KeyDigit(d) ==
    /\ OnKeypad /\ keypad.digits
    /\ setPinCodeText(IF Len(pin) < MaxPin THEN Append(pin, d) ELSE pin, TRUE)
    /\ UNCHANGED <<settings, writing, isUnlocked, screen, after, choice>>

KeyBackspace ==
    /\ OnKeypad /\ keypad.backspace
    /\ setPinCodeText(IF pin # <<>> THEN SubSeq(pin, 1, Len(pin) - 1) ELSE pin, FALSE)
    /\ UNCHANGED <<settings, writing, isUnlocked, screen, after, choice>>

-----------------------------------------------------------------------------
(* Pages.                                                                  *)

Show(s) == screen' = s /\ UNCHANGED typing

\* onActionButton: the code is asked for when the session is not unlocked.
TapNotes ==
    /\ screen = "other"
    /\ IF locked /\ ~isUnlocked
       THEN BuildScreen("validate") /\ after' = "open"
       ELSE UNCHANGED <<screen, typing, after>>
    /\ UNCHANGED <<settings, writing, isUnlocked, choice>>

TapSettings ==
    /\ screen = "other"
    /\ Show("settings")
    /\ UNCHANGED <<settings, writing, isUnlocked, after, choice>>

TapLockSwitch ==
    /\ screen = "settings"
    /\ Show("choice")
    /\ UNCHANGED <<settings, writing, isUnlocked, after, choice>>

\* onPasscodeChoice, confirmed: a code is chosen, or the one set is asked for.
ConfirmChoice ==
    /\ screen = "choice"
    /\ IF locked
       THEN BuildScreen("validate") /\ after' = "remove" /\ UNCHANGED choice
       ELSE BuildScreen("setPin") /\ step' = "set" /\ UNCHANGED <<after, setPin, setPinLen>>
    /\ UNCHANGED <<settings, writing, isUnlocked>>

\* The ways back, and the confirmation refused.
Back ==
    /\ \/ screen = "settings" /\ Show("other") /\ UNCHANGED choice
       \/ screen = "choice" /\ Show("settings") /\ UNCHANGED choice
       \/ screen = "setPin" /\ step = "set" /\ Show("settings") /\ UNCHANGED choice
       \/ /\ screen = "setPin" /\ step = "confirm"
          /\ BuildScreen("setPin")
          /\ step' = "set" /\ setPinLen' = 0 /\ UNCHANGED setPin
       \/ /\ screen = "validate"
          /\ Show(IF after = "open" THEN "other" ELSE "settings") /\ UNCHANGED choice
    /\ writing = "none"
    /\ UNCHANGED <<settings, writing, isUnlocked, after>>

\* A command of the host draws its page over any page but the modal ones.
HostPage ==
    /\ screen \in {"settings", "choice", "setPin", "retry"} /\ writing = "none"
    /\ Show("other")
    /\ UNCHANGED <<settings, writing, isUnlocked, after, choice>>

-----------------------------------------------------------------------------
(* The choice of a code.                                                   *)

KeyValidate == OnKeypad /\ keypad.validate

\* First step: the code is kept, over what an earlier choice left.
ValidateSet ==
    /\ KeyValidate /\ screen = "setPin" /\ step = "set"
    /\ setPin' = [i \in 1 .. MaxPin |-> IF i <= Len(pin) THEN pin[i] ELSE setPin[i]]
    /\ setPinLen' = Len(pin)
    /\ step' = "confirm"
    /\ BuildScreen("setPin")
    /\ UNCHANGED <<settings, writing, isUnlocked, after>>

\* Only the digits just typed are compared, however many they are.
SamePin == \A i \in 1 .. Len(pin) : setPin[i] = pin[i]

\* Second step, another code: the retry page.
ValidateMismatch ==
    /\ KeyValidate /\ screen = "setPin" /\ step = "confirm" /\ ~SamePin
    /\ Show("retry")
    /\ UNCHANGED <<settings, writing, isUnlocked, after, choice>>

TapRetry ==
    /\ screen = "retry"
    /\ step' = "set"
    /\ BuildScreen("setPin")
    /\ UNCHANGED <<settings, writing, isUnlocked, after, setPin, setPinLen>>

\* Second step, the same code: the first of the three writes.
ValidateMatch ==
    /\ KeyValidate /\ screen = "setPin" /\ step = "confirm" /\ SamePin
    /\ locked' = TRUE
    /\ writing' = "length"
    /\ UNCHANGED <<nbDigits, digits, isUnlocked, screen, after, choice, typing>>

WriteLength ==
    /\ writing = "length"
    /\ nbDigits' = setPinLen
    /\ writing' = "digits"
    /\ UNCHANGED <<locked, digits, isUnlocked, screen, after, choice, typing>>

\* nbDigits bytes are written; the rest of a longer code stays behind them.
WriteDigits ==
    /\ writing = "digits"
    /\ digits' = [i \in 1 .. MaxPin |-> IF i <= setPinLen THEN setPin[i] ELSE digits[i]]
    /\ writing' = "none"
    /\ isUnlocked' = TRUE
    /\ Show("settings")
    /\ UNCHANGED <<locked, nbDigits, after, choice>>

-----------------------------------------------------------------------------
(* The check of a code.                                                    *)

\* Mutant: the digits are compared and the lengths are not.
RightPinOfAnyLength == \A i \in 1 .. Len(pin) : digits[i] = pin[i]

\* app_notesSettingsCheckPasscode.
RightPin == nbDigits = Len(pin) /\ \A i \in 1 .. Len(pin) : digits[i] = pin[i]

\* A right code opens the notes, or removes the lock: one write.
ValidateRight ==
    /\ KeyValidate /\ screen = "validate" /\ RightPin
    /\ isUnlocked' = TRUE
    /\ locked' = (locked /\ after = "open")
    /\ Show(IF after = "open" THEN "other" ELSE "settings")
    /\ UNCHANGED <<nbDigits, digits, writing, after, choice>>

\* A wrong code also closes a session that was open.
ValidateWrong ==
    /\ KeyValidate /\ screen = "validate" /\ ~RightPin
    /\ isUnlocked' = FALSE
    /\ screen' = "invalidPin"
    /\ pin' = <<>>
    /\ UNCHANGED <<settings, writing, after, choice, keypad>>

TapInvalidPin ==
    /\ screen = "invalidPin"
    /\ BuildScreen("validate")
    /\ UNCHANGED <<settings, writing, isUnlocked, after, choice>>

-----------------------------------------------------------------------------

\* The RAM of an application just started.
StartRAM ==
    /\ writing' = "none"
    /\ isUnlocked' = FALSE
    /\ screen' = "other"
    /\ after' = "open"
    /\ step' = "set"
    /\ pin' = <<>>
    /\ setPin' = [i \in 1 .. MaxPin |-> Zero]
    /\ setPinLen' = 0
    /\ keypad' = FreshKeypad

\* The application is left, or power is lost at any instant.
Restart == StartRAM /\ UNCHANGED <<settings>>

Init ==
    /\ locked = FALSE
    /\ nbDigits = 0
    /\ digits = [i \in 1 .. MaxPin |-> Zero]
    /\ writing = "none"
    /\ isUnlocked = FALSE
    /\ screen = "other"
    /\ after = "open"
    /\ step = "set"
    /\ pin = <<>>
    /\ setPin = [i \in 1 .. MaxPin |-> Zero]
    /\ setPinLen = 0
    /\ keypad = FreshKeypad

Next ==
    \/ \E d \in Digits : KeyDigit(d)
    \/ KeyBackspace
    \/ TapNotes \/ TapSettings \/ TapLockSwitch \/ ConfirmChoice \/ Back \/ HostPage
    \/ ValidateSet \/ ValidateMismatch \/ TapRetry \/ ValidateMatch
    \/ WriteLength \/ WriteDigits
    \/ ValidateRight \/ ValidateWrong \/ TapInvalidPin
    \/ Restart

Spec == Init /\ [][Next]_vars

-----------------------------------------------------------------------------
(* Properties.                                                             *)

\* Whatever the additions and erasures, the keys of the keypad are those of
\* the number of digits typed, though setPinCodeText draws them again only at
\* some lengths and the two steps have different bounds.
KeypadMatchesLength == OnKeypad => keypad = KeysFor(Len(pin))

\* The digits typed and stored stay in their arrays, with the keys as they are.
DigitsInPlace == TypeOK /\ KeypadMatchesLength

\* A code is stored only when it was typed twice in full: the loop that
\* compares the two codes stops at the shorter one, so this rests on the keys.
ConfirmedPinIsWhole == writing # "none" => pin = Prefix(setPin, setPinLen)

\* The settings as a lock: set by the last of the three writes.
lockShown == IF locked /\ writing = "none" THEN StoredCode ELSE NoLock

AbstractLock ==
    INSTANCE Lock WITH
        Codes <- Codes,
        Typed <- Pins,
        StoredCodes <- UNION {[1 .. n -> Bytes] : n \in 0 .. MaxPin},
        NoLock <- NoLock,
        lock <- lockShown,
        open <- isUnlocked,
        typed <- pin

\* Digit by digit and write by write, the passcode is the lock of Lock: it is
\* set with the code typed twice, that code opens it and removes it, nothing
\* else does, and only power lost between the writes shuts it with another.
ImplementsLock == AbstractLock!Spec

\* What the settings page says: the code to remember is what gives access to
\* the notes ("If you forget this code, you won't be able to ever access your
\* Notes").  Locked notes can be opened with some code.
\* Not so: README, section 5.
LockedByATypableCode == locked /\ writing = "none" => StoredCode \in Codes
=============================================================================
