---------------------------- MODULE Typing_proofs ----------------------------
(* Theorems about what is typed on the device: the codes of Passcode, for    *)
(* any digits and any bounds of a code, and the texts of TextEdit, for any   *)
(* characters and texts, any limit and any size of the buffer, also those    *)
(* of a title and of a name, which are shorter than the limit.               *)
EXTENDS Passcode, TextEdit, SequenceTheorems, NaturalsInduction, WellFoundedInduction, TLAPS

-----------------------------------------------------------------------------
(* Codes.                                                                  *)

LEMMA PinBounds == MinPin \in Nat /\ MaxPin \in Nat /\ 2 <= MinPin /\ MinPin <= MaxPin
BY PasscodeAssumption

LEMMA NoLockIsNoCode == \A n \in 0 .. MaxPin : NoLock \notin [1 .. n -> Bytes]
BY PasscodeAssumption DEF Bytes

-----------------------------------------------------------------------------
(* Codes as sequences.                                                     *)

LEMMA PinFacts ==
    ASSUME NEW p \in Pins
    PROVE  /\ p \in Seq(Digits) /\ Len(p) \in 0 .. MaxPin
           /\ p \in [1 .. Len(p) -> Digits]
<1>1. PICK n \in 0 .. MaxPin : p \in [1 .. n -> Digits]
  BY DEF Pins
<1>2. n \in Nat
  BY <1>1, PinBounds
<1>3. p \in Seq(Digits)
  BY <1>1, <1>2, SeqDef
<1>4. Len(p) = n
  BY <1>1, <1>2, <1>3, LenProperties
<1>5. QED BY <1>1, <1>3, <1>4

LEMMA SeqIsPin ==
    ASSUME NEW p \in Seq(Digits), Len(p) <= MaxPin
    PROVE  p \in Pins
<1>1. Len(p) \in 0 .. MaxPin /\ p \in [1 .. Len(p) -> Digits]
  BY LenProperties, PinBounds
<1>2. QED BY <1>1 DEF Pins

LEMMA EmptyPin == <<>> \in Pins /\ Len(<<>>) = 0
<1>1. <<>> \in Seq(Digits) /\ Len(<<>>) = 0
  BY EmptySeq
<1>2. Len(<<>>) <= MaxPin
  BY <1>1, PinBounds
<1>3. QED BY <1>1, <1>2, SeqIsPin, Zenon

\* A digit added to a code that has room, and the last one erased.
LEMMA DigitAdded ==
    ASSUME NEW p \in Pins, NEW d \in Digits, Len(p) < MaxPin
    PROVE  Append(p, d) \in Pins /\ Len(Append(p, d)) = Len(p) + 1
<1>1. p \in Seq(Digits) /\ Len(p) \in Nat
  BY PinFacts
<1>2. Append(p, d) \in Seq(Digits) /\ Len(Append(p, d)) = Len(p) + 1
  BY <1>1, AppendProperties
<1>3. QED
  <2> DEFINE q == Append(p, d)
  <2>1. q \in Seq(Digits) /\ Len(q) = Len(p) + 1 /\ Len(q) <= MaxPin
    BY <1>1, <1>2, PinBounds
  <2> HIDE DEF q
  <2>2. q \in Pins
    BY <2>1, SeqIsPin
  <2>3. QED BY <2>1, <2>2 DEF q

LEMMA DigitErased ==
    ASSUME NEW p \in Pins, p # <<>>
    PROVE  /\ SubSeq(p, 1, Len(p) - 1) \in Pins
           /\ Len(SubSeq(p, 1, Len(p) - 1)) = Len(p) - 1
<1>1. p \in Seq(Digits) /\ Len(p) \in 0 .. MaxPin
  BY PinFacts
<1>2. Len(p) \in Nat \ {0}
  BY <1>1, EmptySeq
<1> DEFINE n == Len(p) - 1
           q == SubSeq(p, 1, n)
<1>3. n \in 0 .. MaxPin /\ n \in Int /\ 1 \in Int /\ \A i \in 1 .. n : p[i] \in Digits
  BY <1>1, <1>2, ElementOfSeq, PinBounds
<1> HIDE DEF n
<1>4. q \in Seq(Digits) /\ Len(q) = IF 1 <= n THEN n - 1 + 1 ELSE 0
  <2> SUFFICES SubSeq(p, 1, n) \in Seq(Digits)
               /\ Len(SubSeq(p, 1, n)) = IF 1 <= n THEN n - 1 + 1 ELSE 0
    OBVIOUS
  <2>1. \A m \in Int, k \in Int :
            (\A i \in m .. k : p[i] \in Digits) =>
                /\ SubSeq(p, m, k) \in Seq(Digits)
                /\ Len(SubSeq(p, m, k)) = IF m <= k THEN k - m + 1 ELSE 0
    BY SubSeqProperties
  <2>2. QED BY <1>3, <2>1, Zenon
<1> HIDE DEF q
<1>5. Len(q) = n /\ Len(q) <= MaxPin
  BY <1>3, <1>4, PinBounds
<1>6. q \in Pins
  BY <1>4, <1>5, SeqIsPin
<1>7. QED BY <1>5, <1>6 DEF q, n

LEMMA ZeroArray == [i \in 1 .. MaxPin |-> Zero] \in [1 .. MaxPin -> Bytes]
BY DEF Bytes

\* A code is the start of an array when it has its length and its digits.
LEMMA PinIsPrefix ==
    ASSUME NEW p \in Pins, NEW array, NEW n, n = Len(p),
           \A i \in 1 .. Len(p) : array[i] = p[i]
    PROVE  p = Prefix(array, n)
<1>1. p \in [1 .. Len(p) -> Digits]
  BY PinFacts
<1>2. QED BY <1>1 DEF Prefix

LEMMA PrefixIsStored ==
    ASSUME NEW array \in [1 .. MaxPin -> Bytes], NEW n \in 0 .. MaxPin
    PROVE  /\ Prefix(array, n) \in UNION {[1 .. k -> Bytes] : k \in 0 .. MaxPin}
           /\ Prefix(array, n) # NoLock
<1>1. \A i \in 1 .. n : array[i] \in Bytes
  BY PinBounds
<1>2. Prefix(array, n) \in [1 .. n -> Bytes]
  BY <1>1 DEF Prefix
<1>3. QED BY <1>2, NoLockIsNoCode

-----------------------------------------------------------------------------
(* The inductive invariant.                                                *)

\* A digit is only typed while its key is active.
TypedWithinBounds == OnKeypad => Len(pin) <= Bounds[2]

\* The second step has a first code of a legal length.
FirstCodeIsWhole == step = "confirm" => setPinLen \in MinPin .. MaxPin

\* The writes are those of the second step, and nothing comes between them.
WritesEndTheChoice ==
    writing # "none" =>
        /\ locked
        /\ screen = "setPin" /\ step = "confirm"
        /\ writing = "digits" => nbDigits = setPinLen

\* A code is chosen when there is no lock and asked for when there is one.
ScreensMatchLock ==
    /\ screen \in {"setPin", "retry"} /\ writing = "none" => ~locked
    /\ screen \in {"validate", "invalidPin"} => locked

IInv ==
    /\ DigitsInPlace
    /\ TypedWithinBounds
    /\ FirstCodeIsWhole
    /\ WritesEndTheChoice
    /\ ScreensMatchLock
    /\ ConfirmedPinIsWhole

\* The bounds of the page in front of the keys.
LEMMA BoundsFacts ==
    ASSUME TypeOK, FirstCodeIsWhole
    PROVE  /\ Bounds[1] \in Nat /\ Bounds[2] \in Nat
           /\ MinPin <= Bounds[1] /\ Bounds[1] <= Bounds[2] /\ Bounds[2] <= MaxPin
           /\ screen = "setPin" /\ step = "confirm" =>
                  Bounds[1] = setPinLen /\ Bounds[2] = setPinLen
BY PinBounds DEF Bounds, FirstCodeIsWhole, TypeOK

\* A keypad just drawn has the keys of an empty code.
LEMMA FreshKeys ==
    ASSUME TypeOK', FirstCodeIsWhole', keypad' = FreshKeypad, pin' = <<>>
    PROVE  KeypadMatchesLength' /\ TypedWithinBounds'
<1>1. /\ Bounds[1]' \in Nat /\ Bounds[2]' \in Nat
      /\ MinPin <= Bounds[1]' /\ Bounds[1]' <= Bounds[2]'
  BY PinBounds DEF Bounds, FirstCodeIsWhole, TypeOK
<1>2. Len(pin') = 0
  BY EmptyPin
<1>3. KeysFor(Len(pin))' = FreshKeypad
  <2>1. /\ (0 >= Bounds[1]') = FALSE
        /\ (0 > 0) = FALSE
        /\ (0 < Bounds[2]') = TRUE
    BY <1>1, PinBounds
  <2>2. QED BY <1>2, <2>1, Zenon DEF KeysFor, FreshKeypad
<1>4. QED BY <1>1, <1>2, <1>3 DEF KeypadMatchesLength, TypedWithinBounds

\* Between the lengths at which the keypad is drawn again the keys stay the same.
LEMMA SameKeysAdded ==
    ASSUME TypeOK, FirstCodeIsWhole, NEW n \in Nat, ~Redrawn(n + 1, TRUE)
    PROVE  KeysFor(n + 1) = KeysFor(n)
<1>1. n + 1 # Bounds[1] /\ n + 1 # Bounds[2] /\ n + 1 # 1
  BY DEF Redrawn
<1>2. /\ (n + 1 >= Bounds[1]) = (n >= Bounds[1])
      /\ (n + 1 > 0) = (n > 0)
      /\ (n + 1 < Bounds[2]) = (n < Bounds[2])
  BY <1>1, BoundsFacts
<1>3. QED BY <1>2, Zenon DEF KeysFor

LEMMA SameKeysErased ==
    ASSUME TypeOK, FirstCodeIsWhole, NEW n \in Nat, n > 0, ~Redrawn(n - 1, FALSE)
    PROVE  KeysFor(n - 1) = KeysFor(n)
<1>1. n - 1 # Bounds[1] - 1 /\ n - 1 # Bounds[2] - 1 /\ n - 1 # 0
  BY DEF Redrawn
<1>2. /\ (n - 1 >= Bounds[1]) = (n >= Bounds[1])
      /\ (n - 1 > 0) = (n > 0)
      /\ (n - 1 < Bounds[2]) = (n < Bounds[2])
  BY <1>1, BoundsFacts
<1>3. QED BY <1>2, Zenon DEF KeysFor

LEMMA KeysTyped == \A n \in Nat : KeysFor(n) \in Keys
BY DEF KeysFor, Keys

\* A touch of a digit, and of the backspace.
LEMMA KeyDigitStep ==
    ASSUME IInv, NEW d \in Digits, KeyDigit(d)
    PROVE  /\ pin' \in Pins /\ keypad' \in Keys
           /\ keypad' = KeysFor(Len(pin')) /\ Len(pin') <= Bounds[2]
<1> USE DEF IInv, DigitsInPlace
<1>1. pin \in Pins /\ Len(pin) \in Nat /\ keypad = KeysFor(Len(pin)) /\ OnKeypad
  BY PinFacts DEF KeyDigit, TypeOK, KeypadMatchesLength
<1>2. Len(pin) < Bounds[2]
  BY <1>1 DEF KeyDigit, KeysFor
<1>3. Len(pin) < MaxPin
  BY <1>1, <1>2, BoundsFacts, PinBounds
<1>4. pin' = Append(pin, d) /\ pin' \in Pins /\ Len(pin') = Len(pin) + 1
  BY <1>1, <1>3, DigitAdded DEF KeyDigit, setPinCodeText
<1>5. keypad' = IF Redrawn(Len(pin'), TRUE) THEN KeysFor(Len(pin')) ELSE keypad
  BY <1>3, <1>4 DEF KeyDigit, setPinCodeText
<1>6. keypad' = KeysFor(Len(pin'))
  BY <1>1, <1>4, <1>5, SameKeysAdded
<1>7. QED BY <1>1, <1>2, <1>4, <1>6, KeysTyped, BoundsFacts

LEMMA KeyBackspaceStep ==
    ASSUME IInv, KeyBackspace
    PROVE  /\ pin' \in Pins /\ keypad' \in Keys
           /\ keypad' = KeysFor(Len(pin')) /\ Len(pin') <= Bounds[2]
<1> USE DEF IInv, DigitsInPlace
<1>1. /\ pin \in Pins /\ Len(pin) \in Nat /\ keypad = KeysFor(Len(pin)) /\ OnKeypad
      /\ Len(pin) <= Bounds[2]
  BY PinFacts DEF KeyBackspace, TypeOK, KeypadMatchesLength, TypedWithinBounds
<1>2. Len(pin) > 0 /\ pin # <<>>
  <2>1. Len(pin) > 0
    BY <1>1 DEF KeyBackspace, KeysFor
  <2>2. Len(<<>>) = 0
    BY EmptyPin
  <2>3. QED BY <2>1, <2>2
<1>3. pin' = SubSeq(pin, 1, Len(pin) - 1) /\ pin' \in Pins /\ Len(pin') = Len(pin) - 1
  BY <1>1, <1>2, DigitErased DEF KeyBackspace, setPinCodeText
<1>4. keypad' = IF Redrawn(Len(pin'), FALSE) THEN KeysFor(Len(pin')) ELSE keypad
  BY <1>2, <1>3 DEF KeyBackspace, setPinCodeText
<1>5. keypad' = KeysFor(Len(pin'))
  BY <1>1, <1>2, <1>3, <1>4, SameKeysErased
<1>6. Len(pin') \in Nat /\ Len(pin') <= Bounds[2]
  BY <1>1, <1>2, <1>3, BoundsFacts
<1>7. QED BY <1>3, <1>5, <1>6, KeysTyped

\* The code validated in the first step is whole, and that of the second is the
\* one of the first, whole.
LEMMA ValidatedIsWhole ==
    ASSUME IInv, KeyValidate
    PROVE  Len(pin) \in Nat /\ Bounds[1] <= Len(pin) /\ Len(pin) <= Bounds[2]
<1>1. pin \in Pins /\ Len(pin) \in Nat /\ keypad = KeysFor(Len(pin)) /\ OnKeypad
  BY PinFacts DEF IInv, DigitsInPlace, KeyValidate, TypeOK, KeypadMatchesLength
<1>2. Len(pin) >= Bounds[1]
  BY <1>1 DEF KeyValidate, KeysFor
<1>3. QED
  BY <1>1, <1>2, BoundsFacts DEF IInv, DigitsInPlace, TypedWithinBounds

LEMMA MatchIsWhole ==
    ASSUME IInv, ValidateMatch
    PROVE  pin = Prefix(setPin, setPinLen)
<1>1. KeyValidate /\ screen = "setPin" /\ step = "confirm"
  BY DEF ValidateMatch
<1>2. Len(pin) = setPinLen
  BY <1>1, ValidatedIsWhole, BoundsFacts, PinBounds DEF IInv, DigitsInPlace, TypeOK
<1>3. pin \in Pins /\ \A i \in 1 .. Len(pin) : setPin[i] = pin[i]
  BY DEF IInv, DigitsInPlace, TypeOK, ValidateMatch, SamePin
<1>4. QED BY <1>2, <1>3, PinIsPrefix

-----------------------------------------------------------------------------
(* The invariant is preserved: first the part that does not read the keys. *)

CoreInv == TypeOK /\ FirstCodeIsWhole /\ WritesEndTheChoice /\ ScreensMatchLock

LEMMA CoreStep == ASSUME IInv, [Next]_vars PROVE CoreInv'
<1> USE PinBounds, EmptyPin
    DEF CoreInv, FirstCodeIsWhole, WritesEndTheChoice, ScreensMatchLock, settings, choice,
        typing, Show
<1>0. TypeOK /\ FirstCodeIsWhole /\ WritesEndTheChoice /\ ScreensMatchLock
  BY DEF IInv, DigitsInPlace
<1>1. FreshKeypad \in Keys
  BY DEF FreshKeypad, Keys
<1>2. ASSUME NEW d \in Digits, KeyDigit(d) PROVE CoreInv'
  BY <1>0, <1>2, KeyDigitStep DEF KeyDigit, TypeOK
<1>3. CASE KeyBackspace
  BY <1>0, <1>3, KeyBackspaceStep DEF KeyBackspace, TypeOK
<1>4. CASE TapNotes
  BY <1>0, <1>1, <1>4 DEF TapNotes, BuildScreen, TypeOK
<1>5. CASE TapSettings \/ TapLockSwitch \/ HostPage
  BY <1>0, <1>5 DEF TapSettings, TapLockSwitch, HostPage, TypeOK
<1>6. CASE ConfirmChoice
  BY <1>0, <1>1, <1>6 DEF ConfirmChoice, BuildScreen, TypeOK
<1>7. CASE Back
  BY <1>0, <1>1, <1>7 DEF Back, BuildScreen, TypeOK
<1>8. CASE ValidateSet
  <2>1. /\ Len(pin) \in MinPin .. MaxPin /\ pin \in [1 .. Len(pin) -> Digits]
        /\ screen = "setPin" /\ step = "set"
    BY <1>0, <1>8, ValidatedIsWhole, BoundsFacts, PinFacts DEF ValidateSet, TypeOK
  <2>2. setPin' \in [1 .. MaxPin -> Bytes]
    BY <1>0, <1>8, <2>1 DEF ValidateSet, TypeOK, Bytes
  <2>3. QED
    BY <1>0, <1>1, <1>8, <2>1, <2>2
       DEF ValidateSet, KeyValidate, OnKeypad, BuildScreen, TypeOK
<1>9. CASE ValidateMismatch
  BY <1>0, <1>9 DEF ValidateMismatch, KeyValidate, OnKeypad, TypeOK
<1>10. CASE TapRetry
  BY <1>0, <1>1, <1>10 DEF TapRetry, BuildScreen, TypeOK
<1>11. CASE ValidateMatch
  BY <1>0, <1>11 DEF ValidateMatch, TypeOK
<1>12. CASE WriteLength
  BY <1>0, <1>12 DEF WriteLength, TypeOK
<1>13. CASE WriteDigits
  <2>1. digits' \in [1 .. MaxPin -> Bytes]
    BY <1>0, <1>13 DEF WriteDigits, TypeOK
  <2>2. QED BY <1>0, <1>13, <2>1 DEF WriteDigits, TypeOK
<1>14. CASE ValidateRight
  BY <1>0, <1>14 DEF ValidateRight, KeyValidate, OnKeypad, TypeOK
<1>15. CASE ValidateWrong
  BY <1>0, <1>15 DEF ValidateWrong, KeyValidate, OnKeypad, TypeOK
<1>16. CASE TapInvalidPin
  BY <1>0, <1>1, <1>16 DEF TapInvalidPin, BuildScreen, TypeOK
<1>17. CASE Restart
  <2>1. setPin' \in [1 .. MaxPin -> Bytes]
    BY <1>17, ZeroArray, Zenon DEF Restart, StartRAM
  <2>2. pin' \in Pins
    BY <1>17, Zenon DEF Restart, StartRAM
  <2>3. locked' \in BOOLEAN /\ nbDigits' \in 0 .. MaxPin /\ digits' \in [1 .. MaxPin -> Bytes]
    BY <1>0, <1>17 DEF Restart, TypeOK
  <2>4. writing' = "none" /\ screen' = "other" /\ after' = "open" /\ step' = "set"
    BY <1>17 DEF Restart, StartRAM
  <2>5. isUnlocked' \in BOOLEAN /\ setPinLen' \in 0 .. MaxPin /\ keypad' \in Keys
    <3>1. isUnlocked' = FALSE /\ setPinLen' = 0 /\ keypad' = FreshKeypad
      BY <1>17 DEF Restart, StartRAM
    <3>2. keypad' \in Keys
      BY <1>1, <3>1, Zenon
    <3>3. 0 \in 0 .. MaxPin
      BY PinBounds
    <3>4. QED BY <3>1, <3>2, <3>3, Zenon
  <2>6. QED BY <2>1, <2>2, <2>3, <2>4, <2>5, Zenon DEF TypeOK
<1>18. CASE UNCHANGED vars
  BY <1>0, <1>18 DEF vars, TypeOK
<1>19. QED
  BY <1>2, <1>3, <1>4, <1>5, <1>6, <1>7, <1>8, <1>9, <1>10, <1>11, <1>12, <1>13,
     <1>14, <1>15, <1>16, <1>17, <1>18 DEF Next

\* Then the keys, which are drawn afresh on a page, or follow the digits.
LEMMA KeysStep ==
    ASSUME IInv, [Next]_vars
    PROVE  KeypadMatchesLength' /\ TypedWithinBounds'
<1>0. /\ TypeOK /\ FirstCodeIsWhole /\ WritesEndTheChoice
      /\ KeypadMatchesLength /\ TypedWithinBounds
      /\ TypeOK' /\ FirstCodeIsWhole'
  BY CoreStep DEF CoreInv, IInv, DigitsInPlace
<1> DEFINE Kept == UNCHANGED <<typing, choice, screen>>
<1>1. CASE ~OnKeypad'
  BY <1>1 DEF KeypadMatchesLength, TypedWithinBounds
<1>2. CASE \E s : BuildScreen(s)
  BY <1>0, <1>2, FreshKeys DEF BuildScreen
<1>3. ASSUME NEW d \in Digits, KeyDigit(d)
      PROVE  KeypadMatchesLength' /\ TypedWithinBounds'
  <2>1. Bounds' = Bounds /\ KeysFor(Len(pin))' = KeysFor(Len(pin'))
    BY <1>3 DEF KeyDigit, choice, Bounds, KeysFor
  <2>2. QED BY <2>1, <1>3, KeyDigitStep DEF KeypadMatchesLength, TypedWithinBounds
<1>4. CASE KeyBackspace
  <2>1. Bounds' = Bounds /\ KeysFor(Len(pin))' = KeysFor(Len(pin'))
    BY <1>4 DEF KeyBackspace, choice, Bounds, KeysFor
  <2>2. QED BY <2>1, <1>4, KeyBackspaceStep DEF KeypadMatchesLength, TypedWithinBounds
<1>5. CASE Kept /\ (OnKeypad' => OnKeypad)
  BY <1>0, <1>5
     DEF KeypadMatchesLength, TypedWithinBounds, KeysFor, Bounds, typing, choice
<1>6. CASE TapNotes
  BY <1>0, <1>2, <1>5, <1>6 DEF TapNotes, typing, OnKeypad
<1>7. CASE TapSettings \/ TapLockSwitch \/ HostPage \/ ValidateMismatch \/ WriteDigits
  BY <1>1, <1>7 DEF TapSettings, TapLockSwitch, HostPage, ValidateMismatch, WriteDigits,
                    Show, OnKeypad
<1>8. CASE ConfirmChoice \/ ValidateSet \/ TapRetry \/ TapInvalidPin
  BY <1>2, <1>8 DEF ConfirmChoice, ValidateSet, TapRetry, TapInvalidPin
<1>9. CASE Back
  BY <1>1, <1>2, <1>9 DEF Back, Show, OnKeypad
<1>10. CASE ValidateMatch \/ WriteLength \/ ValidateRight \/ ValidateWrong \/ Restart
  BY <1>1, <1>10 DEF ValidateMatch, WriteLength, ValidateRight, ValidateWrong, Restart,
                     StartRAM, Show, OnKeypad
<1>11. CASE UNCHANGED vars
  BY <1>5, <1>11 DEF vars, OnKeypad
<1>12. QED
  BY <1>3, <1>4, <1>6, <1>7, <1>8, <1>9, <1>10, <1>11 DEF Next

\* A code is kept through the writes that store it.
LEMMA ConfirmedStep == ASSUME IInv, [Next]_vars PROVE ConfirmedPinIsWhole'
<1>1. CASE writing' = "none"
  BY <1>1 DEF ConfirmedPinIsWhole
<1>2. CASE ValidateMatch
  BY <1>2, MatchIsWhole
     DEF ConfirmedPinIsWhole, ValidateMatch, choice, typing, Prefix
<1>3. CASE writing # "none" /\ UNCHANGED <<pin, setPin, setPinLen>>
  BY <1>3 DEF IInv, ConfirmedPinIsWhole, Prefix
<1>4. CASE writing # "none" /\ ~UNCHANGED <<pin, setPin, setPinLen>>
  <2>1. screen = "setPin"
    BY <1>4 DEF IInv, WritesEndTheChoice
  <2>2. writing' = "none"
    BY <1>4, <2>1
       DEF Next, KeyDigit, KeyBackspace, TapNotes, TapSettings, TapLockSwitch,
           ConfirmChoice, Back, HostPage, ValidateSet, ValidateMismatch, TapRetry,
           ValidateMatch, WriteLength, WriteDigits, ValidateRight, ValidateWrong,
           TapInvalidPin, Restart, StartRAM, KeyValidate, OnKeypad, choice, typing, vars
  <2>3. QED BY <1>1, <2>2
<1>5. CASE writing = "none" /\ ~ValidateMatch
  <2>1. writing' = "none"
    BY <1>5
       DEF Next, KeyDigit, KeyBackspace, TapNotes, TapSettings, TapLockSwitch,
           ConfirmChoice, Back, HostPage, ValidateSet, ValidateMismatch, TapRetry,
           WriteLength, WriteDigits, ValidateRight, ValidateWrong,
           TapInvalidPin, Restart, StartRAM, vars
  <2>2. QED BY <1>1, <2>1
<1>6. QED BY <1>2, <1>3, <1>4, <1>5

LEMMA InitInv == Init => IInv
<1> SUFFICES ASSUME Init PROVE IInv
  OBVIOUS
<1>1. TypeOK
  <2>1. FreshKeypad \in Keys
    BY DEF FreshKeypad, Keys
  <2>2. setPin \in [1 .. MaxPin -> Bytes] /\ digits \in [1 .. MaxPin -> Bytes]
    BY ZeroArray, Zenon DEF Init
  <2>3. pin \in Pins
    BY EmptyPin, Zenon DEF Init
  <2>4. writing = "none" /\ screen = "other" /\ after = "open" /\ step = "set"
    BY DEF Init
  <2>5. /\ locked \in BOOLEAN /\ isUnlocked \in BOOLEAN /\ keypad \in Keys
        /\ nbDigits \in 0 .. MaxPin /\ setPinLen \in 0 .. MaxPin
    <3>1. /\ locked = FALSE /\ isUnlocked = FALSE /\ keypad = FreshKeypad
          /\ nbDigits = 0 /\ setPinLen = 0
      BY DEF Init
    <3> HIDE DEF Init
    <3>2. keypad \in Keys
      BY <2>1, <3>1, Zenon
    <3>3. 0 \in 0 .. MaxPin
      BY PinBounds
    <3>4. QED BY <3>1, <3>2, <3>3, Zenon
  <2>6. QED BY <2>2, <2>3, <2>4, <2>5, Zenon DEF TypeOK
<1>2. QED
  BY <1>1 DEF Init, IInv, DigitsInPlace, KeypadMatchesLength, TypedWithinBounds, OnKeypad,
              FirstCodeIsWhole, WritesEndTheChoice, ScreensMatchLock, ConfirmedPinIsWhole

LEMMA Inductive == Spec => []IInv
<1>1. IInv /\ [Next]_vars => IInv'
  BY CoreStep, KeysStep, ConfirmedStep DEF CoreInv, IInv, DigitsInPlace
<1>2. QED BY <1>1, InitInv, PTL DEF Spec

-----------------------------------------------------------------------------

\* For any bounds, the keys are those of the digits typed, and these stay in
\* their arrays: DigitsInPlace of Passcode.
THEOREM DigitsCorrect == Spec => []DigitsInPlace
<1>1. IInv => DigitsInPlace
  BY DEF IInv
<1>2. QED BY <1>1, Inductive, PTL

\* A code is stored only when it was typed twice in full: ConfirmedPinIsWhole of
\* Passcode.
THEOREM ConfirmationCorrect == Spec => []ConfirmedPinIsWhole
<1>1. IInv => ConfirmedPinIsWhole
  BY DEF IInv
<1>2. QED BY <1>1, Inductive, PTL

-----------------------------------------------------------------------------
(* The passcode implements Lock: one step of the passcode is one step of   *)
(* the lock, or none.                                                      *)

LEMMA InitImplements == Init => AbstractLock!Init
BY DEF Init, AbstractLock!Init, lockShown

LEMMA ShownIsStored ==
    ASSUME TypeOK
    PROVE  /\ StoredCode \in UNION {[1 .. n -> Bytes] : n \in 0 .. MaxPin}
           /\ StoredCode # NoLock
BY PrefixIsStored DEF TypeOK, StoredCode

\* Two intervals from 1 that are equal end at the same number.
LEMMA SameInterval == \A m, n \in Nat : 1 .. m = 1 .. n => m = n
<1>1. ASSUME NEW m \in Nat, NEW n \in Nat, m < n PROVE 1 .. m # 1 .. n
  <2>1. n \in 1 .. n /\ n \notin 1 .. m
    BY <1>1
  <2>2. QED BY <2>1, Zenon
<1>2. TAKE m, n \in Nat
<1>3. m < n \/ n < m \/ m = n
  OBVIOUS
<1>4. CASE m = n
  BY <1>4
<1>5. CASE m < n
  BY <1>1, <1>5
<1>6. CASE n < m
  BY <1>1, <1>6
<1>7. QED BY <1>3, <1>4, <1>5, <1>6

\* A code is right when it is the one stored, whatever follows it in the array.
LEMMA RightIsStored == ASSUME TypeOK PROVE RightPin <=> pin = StoredCode
<1>1. pin \in Pins /\ pin \in [1 .. Len(pin) -> Digits] /\ Len(pin) \in 0 .. MaxPin
  BY PinFacts DEF TypeOK
<1>2. ASSUME RightPin PROVE pin = StoredCode
  <2>1. nbDigits = Len(pin) /\ \A i \in 1 .. Len(pin) : digits[i] = pin[i]
    BY <1>2 DEF RightPin
  <2>2. QED BY <1>1, <2>1, PinIsPrefix DEF StoredCode
<1>3. ASSUME pin = StoredCode PROVE RightPin
  <2>1. nbDigits \in 0 .. MaxPin /\ MaxPin \in Nat
    BY PinBounds DEF TypeOK
  <2>2. DOMAIN pin = 1 .. nbDigits /\ \A i \in 1 .. nbDigits : pin[i] = digits[i]
    BY <1>3 DEF StoredCode, Prefix
  <2>3. DOMAIN pin = 1 .. Len(pin)
    BY <1>1
  <2>4. nbDigits = Len(pin)
    <3>1. 1 .. nbDigits = 1 .. Len(pin)
      BY <2>2, <2>3, Zenon
    <3>2. nbDigits \in Nat /\ Len(pin) \in Nat
      BY <1>1, <2>1
    <3>3. QED BY <3>1, <3>2, SameInterval, Zenon
  <2>5. QED BY <2>2, <2>4 DEF RightPin
<1>4. QED BY <1>2, <1>3

\* What the third write stores is the code typed, one that may be chosen.
LEMMA StoredIsTyped ==
    ASSUME IInv, WriteDigits
    PROVE  pin \in Codes /\ StoredCode' = pin
<1>1. /\ pin = Prefix(setPin, setPinLen) /\ nbDigits = setPinLen
      /\ setPinLen \in MinPin .. MaxPin /\ pin \in Pins
  BY DEF IInv, ConfirmedPinIsWhole, WritesEndTheChoice, FirstCodeIsWhole, DigitsInPlace,
         TypeOK, WriteDigits
<1>2. Len(pin) = setPinLen
  <2>1. DOMAIN pin = 1 .. setPinLen /\ DOMAIN pin = 1 .. Len(pin) /\ Len(pin) \in 0 .. MaxPin
    BY <1>1, PinFacts DEF Prefix
  <2>2. QED BY <1>1, <2>1, PinBounds
<1>3. nbDigits' = setPinLen /\ \A i \in 1 .. setPinLen : digits'[i] = setPin[i]
  BY <1>1, PinBounds DEF WriteDigits
<1>4. StoredCode' = pin
  BY <1>1, <1>3 DEF StoredCode, Prefix
<1>5. QED BY <1>1, <1>2, <1>4, PinBounds DEF Codes

LEMMA StepImplements ==
    ASSUME IInv, [Next]_vars
    PROVE  [AbstractLock!Next]_(AbstractLock!vars)
<1>0. /\ TypeOK /\ TypeOK' /\ WritesEndTheChoice /\ ScreensMatchLock
      /\ pin' \in Pins
  BY CoreStep DEF CoreInv, IInv, DigitsInPlace, TypeOK
<1> USE DEF AbstractLock!vars, lockShown
\* Digits and pages: the lock and the session stay, whatever is typed.
<1>1. CASE UNCHANGED <<settings, isUnlocked>> /\ (writing' = "none" <=> writing = "none")
  <2>1. lockShown' = lockShown
    BY <1>1 DEF settings, StoredCode, Prefix
  <2>2. AbstractLock!Type
    BY <1>0, <1>1, <2>1 DEF AbstractLock!Type
  <2>3. QED BY <2>2 DEF AbstractLock!Next
<1>2. CASE (\E d \in Digits : KeyDigit(d)) \/ KeyBackspace \/ TapNotes \/ TapSettings
           \/ TapLockSwitch \/ ConfirmChoice \/ Back \/ HostPage \/ ValidateSet
           \/ ValidateMismatch \/ TapRetry \/ TapInvalidPin
  BY <1>1, <1>2 DEF KeyDigit, KeyBackspace, TapNotes, TapSettings, TapLockSwitch,
         ConfirmChoice, Back, HostPage, ValidateSet, ValidateMismatch, TapRetry,
         TapInvalidPin
\* The first two writes: no lock is shown yet.
<1>3. CASE ValidateMatch \/ WriteLength
  <2>1. lockShown = NoLock /\ lockShown' = NoLock
    BY <1>0, <1>3 DEF ValidateMatch, WriteLength, KeyValidate, OnKeypad, ScreensMatchLock
  <2>2. UNCHANGED <<isUnlocked, pin>>
    BY <1>3 DEF ValidateMatch, WriteLength, typing
  <2>3. QED BY <2>1, <2>2
<1>4. CASE WriteDigits
  <2>1. lockShown = NoLock /\ isUnlocked' = TRUE /\ pin' = pin
    BY <1>4 DEF WriteDigits, Show, typing
  <2>2. lockShown' = pin /\ pin \in Codes
    BY <1>0, <1>4, StoredIsTyped DEF WriteDigits, WritesEndTheChoice
  <2>3. AbstractLock!Set
    BY <1>0, <2>1, <2>2 DEF AbstractLock!Set
  <2>4. QED BY <2>3 DEF AbstractLock!Next
<1>5. CASE ValidateRight
  <2>1. locked /\ writing = "none" /\ writing' = "none"
    BY <1>0, <1>5 DEF ValidateRight, KeyValidate, OnKeypad, ScreensMatchLock
  <2>2. lockShown = StoredCode /\ StoredCode # NoLock /\ pin = StoredCode
    BY <1>0, <1>5, <2>1, RightIsStored, ShownIsStored DEF ValidateRight
  <2>3. isUnlocked' = TRUE /\ StoredCode' = StoredCode
    BY <1>5 DEF ValidateRight, StoredCode, Prefix
  <2>4. CASE after = "open"
    <3>1. locked' = TRUE
      BY <1>5, <2>1, <2>4 DEF ValidateRight
    <3>2. lockShown' = lockShown
      BY <2>1, <2>3, <3>1
    <3>3. AbstractLock!Enter
      BY <1>0, <2>2, <2>3, <3>2 DEF AbstractLock!Enter
    <3>4. QED BY <3>3 DEF AbstractLock!Next
  <2>5. CASE after # "open"
    <3>1. lockShown' = NoLock
      BY <1>5, <2>5 DEF ValidateRight
    <3>2. AbstractLock!Remove
      BY <1>0, <2>2, <2>3, <3>1 DEF AbstractLock!Remove
    <3>3. QED BY <3>2 DEF AbstractLock!Next
  <2>6. QED BY <2>4, <2>5
<1>6. CASE ValidateWrong
  <2>1. locked /\ writing = "none" /\ writing' = "none" /\ locked' = locked
    BY <1>0, <1>6 DEF ValidateWrong, KeyValidate, OnKeypad, ScreensMatchLock, settings
  <2>2. lockShown = StoredCode /\ StoredCode # NoLock /\ pin # StoredCode
    BY <1>0, <1>6, <2>1, RightIsStored, ShownIsStored DEF ValidateWrong
  <2>3. isUnlocked' = FALSE /\ StoredCode' = StoredCode
    BY <1>6 DEF ValidateWrong, settings, StoredCode, Prefix
  <2>4. lockShown' = lockShown
    BY <2>1, <2>3
  <2>5. AbstractLock!Enter
    BY <1>0, <2>2, <2>3, <2>4 DEF AbstractLock!Enter
  <2>6. QED BY <2>5 DEF AbstractLock!Next
\* Power lost between the writes is the step Torn of the lock.
<1>7. CASE Restart
  <2>1. /\ writing' = "none" /\ isUnlocked' = FALSE /\ pin' = <<>> /\ locked' = locked
        /\ StoredCode' = StoredCode
    BY <1>7 DEF Restart, StartRAM, settings, StoredCode, Prefix
  <2>2. CASE writing = "none"
    <3>1. lockShown' = lockShown
      BY <2>1, <2>2
    <3>2. AbstractLock!Restart
      BY <2>1, <3>1 DEF AbstractLock!Restart
    <3>3. QED BY <3>2 DEF AbstractLock!Next
  <2>3. CASE writing # "none"
    <3>1. lockShown = NoLock /\ lockShown' = StoredCode
      BY <1>0, <2>1, <2>3 DEF WritesEndTheChoice
    <3>2. AbstractLock!Torn
      BY <1>0, <2>1, <3>1, ShownIsStored DEF AbstractLock!Torn
    <3>3. QED BY <3>2 DEF AbstractLock!Next
  <2>4. QED BY <2>2, <2>3
<1>8. CASE UNCHANGED vars
  <2>1. lockShown' = lockShown /\ UNCHANGED <<isUnlocked, pin>>
    BY <1>8 DEF vars, settings, typing, StoredCode, Prefix
  <2>2. QED BY <2>1
<1>9. QED
  BY <1>2, <1>3, <1>4, <1>5, <1>6, <1>7, <1>8 DEF Next

\* Digit by digit and write by write, for any bounds and wherever the power is
\* lost, the passcode keeps the promise of Lock: ImplementsLock of Passcode.
THEOREM PasscodeImplementsLock == Spec => ImplementsLock
<1>1. Spec => [][AbstractLock!Next]_(AbstractLock!vars)
  BY StepImplements, Inductive, PTL DEF Spec
<1>2. QED
  BY <1>1, InitImplements, PTL DEF Spec, ImplementsLock, AbstractLock!Spec

-----------------------------------------------------------------------------
(* Texts.                                                                  *)

\* The string of the bytes m ends at n, in the buffer or with it.
EndsAt(m, n) ==
    /\ n \in 0 .. Capacity
    /\ n < Capacity => m[n + 1] = NUL
    /\ \A k \in 1 .. n : m[k] # NUL

\* The keys count the characters of the string.
CountedInPlace == page = "editing" => EndsAt(mem, InBuffer(enteredTextLen))

\* No space is offered before a first character, and the first one is a letter.
FirstIsALetter ==
    page = "editing" =>
        /\ spaceKey => enteredTextLen > 0
        /\ enteredTextLen > 0 /\ mem[1] = SPACE => received # <<>> /\ received[1] = SPACE

TextInv == TextTypeOK /\ CountedInPlace /\ FirstIsALetter /\ LeavesWhenFull

-----------------------------------------------------------------------------
LEMMA LeastOf ==
    ASSUME NEW S \in SUBSET Nat, S # {}
    PROVE  \E m \in S : \A k \in S : m <= k
<1> DEFINE R == OpToRel(<, Nat)
<1>1. \A x, y \in Nat : x < y => <<x, y>> \in R
  BY DEF OpToRel
<1>2. IsWellFoundedOn(R, Nat)
  BY NatLessThanWellFounded
<1> HIDE DEF R
<1>3. PICK m \in S : \A k \in S : ~ (<<k, m>> \in R)
  BY <1>2, WFMin
<1>4. \A k \in S : ~ (k < m)
  BY <1>1, <1>3
<1>5. QED BY <1>4

\* strlen finds that end, and no other.
LEMMA LengthIs ==
    ASSUME NEW m, NEW n, EndsAt(m, n)
    PROVE  (CHOOSE e \in 0 .. Capacity :
               /\ e = Capacity \/ m[e + 1] = NUL
               /\ \A k \in 0 .. e - 1 : ~ (k = Capacity \/ m[k + 1] = NUL)) = n
<1> DEFINE Stops(e) == e = Capacity \/ m[e + 1] = NUL
           First(e) == Stops(e) /\ \A k \in 0 .. e - 1 : ~ Stops(k)
<1>1. Capacity \in Nat \ {0} /\ n \in 0 .. Capacity
  BY TextAssumption DEF EndsAt
<1>2. Stops(n)
  BY <1>1 DEF EndsAt
<1>3. \A k \in 0 .. n - 1 : ~ Stops(k)
  <2>1. TAKE k \in 0 .. n - 1
  <2>2. k + 1 \in 1 .. n /\ k # Capacity
    BY <1>1
  <2>3. QED BY <2>2 DEF EndsAt
<1>4. \A e \in 0 .. Capacity : First(e) => e = n
  <2>1. TAKE e \in 0 .. Capacity
  <2>2. HAVE First(e)
  <2> HIDE DEF Stops
  <2>3. CASE e < n
    <3>1. e \in 0 .. n - 1
      BY <1>1, <2>3
    <3>2. QED BY <1>3, <2>2, <3>1
  <2>4. CASE n < e
    <3>1. n \in 0 .. e - 1
      BY <1>1, <2>4
    <3>2. QED BY <1>2, <2>2, <3>1
  <2>5. QED BY <1>1, <2>3, <2>4
<1> HIDE DEF Stops
<1>5. (CHOOSE e \in 0 .. Capacity : First(e)) = n
  BY <1>1, <1>2, <1>3, <1>4
<1>6. QED BY <1>5 DEF Stops

LEMMA StrLenIs ==
    /\ \A n : EndsAt(mem, n) => StrLen = n
    /\ \A n : EndsAt(mem', n) => StrLen' = n
<1>1. \A n : EndsAt(mem, n) => StrLen = n
  BY LengthIs DEF StrLen, Terminated
<1>2. \A n : EndsAt(mem', n) => StrLen' = n
  BY LengthIs DEF StrLen, Terminated
<1>3. QED BY <1>1, <1>2

LEMMA Sizes ==
    /\ Capacity \in Nat \ {0} /\ Limit \in Nat \ {0}
    /\ SPACE \in Chars /\ NUL \notin Chars
    /\ \A t \in Texts : t \in Seq(Chars) /\ Len(t) \in 0 .. Capacity - 1
<1>1. \A t \in Texts : t \in Seq(Chars) /\ Len(t) < Capacity
  BY TextAssumption
<1>2. \A t \in Texts : Len(t) \in Nat
  BY <1>1
<1>3. Capacity \in Nat \ {0} /\ Limit \in Nat \ {0} /\ SPACE \in Chars /\ NUL \notin Chars
  BY TextAssumption DEF Chars
<1>4. QED BY <1>1, <1>2, <1>3

-----------------------------------------------------------------------------
(* The steps.                                                              *)

LEMMA EditTextStep ==
    ASSUME TextInv, NEW t \in Texts, EditText(t)
    PROVE  TextInv'
<1>1. /\ Capacity \in Nat \ {0} /\ NUL \notin Chars
      /\ t \in Seq(Chars) /\ Len(t) \in 0 .. Capacity - 1
      /\ mem \in [Cells -> Chars \cup {NUL}]
  BY Sizes DEF TextInv, TextTypeOK
<1> DEFINE n == Len(t)
           Byte(i) == IF i <= n THEN t[i] ELSE IF i = n + 1 THEN NUL ELSE mem[i]
<1>2. /\ mem' = [i \in Cells |-> Byte(i)]
      /\ enteredTextLen' = n /\ page' = "editing" /\ received' = t /\ outside' = "no"
      /\ spaceKey' = (t # <<>>) /\ confirmButton' = (t # <<>>) /\ eraseIcon' = (t # <<>>)
  BY DEF EditText
<1>3. \A i \in 1 .. n : t[i] \in Chars
  BY <1>1
<1>4. n \in Nat /\ n + 1 \in Cells /\ \A i \in 1 .. n : i \in Cells
  BY <1>1 DEF Cells
<1> HIDE DEF n
<1>5. \A i \in Cells : i \in Nat /\ i >= 1
  BY <1>1 DEF Cells
<1>6. \A i \in Cells : Byte(i) \in Chars \cup {NUL}
  <2>1. TAKE i \in Cells
  <2>2. CASE i <= n
    <3>1. i \in 1 .. n
      BY <1>4, <1>5, <2>2
    <3>2. QED BY <1>3, <2>2, <3>1
  <2>3. QED BY <1>1, <2>2
<1>7. mem' \in [Cells -> Chars \cup {NUL}]
  <2> HIDE DEF Byte
  <2>1. QED BY <1>2, <1>6
<1>8. EndsAt(mem', n)
  <2>1. mem'[n + 1] = NUL
    <3>1. Byte(n + 1) = NUL
      BY <1>4
    <3> HIDE DEF Byte
    <3>2. QED BY <1>2, <1>4, <3>1
  <2>2. ASSUME NEW k \in 1 .. n PROVE mem'[k] = t[k] /\ t[k] # NUL
    <3>1. Byte(k) = t[k] /\ k \in Cells
      BY <1>4
    <3>2. t[k] \in Chars
      BY <1>3
    <3> HIDE DEF Byte
    <3>3. QED BY <1>1, <1>2, <3>1, <3>2
  <2>3. n \in 0 .. Capacity
    BY <1>1 DEF n
  <2>4. QED BY <2>1, <2>2, <2>3 DEF EndsAt
<1>9. t # <<>> <=> n > 0
  BY <1>1 DEF n
<1>10. n > 0 => mem'[1] = t[1]
  <2>1. SUFFICES ASSUME n > 0 PROVE mem'[1] = t[1]
    OBVIOUS
  <2>2. 1 \in Cells /\ Byte(1) = t[1]
    BY <1>4, <2>1
  <2> HIDE DEF Byte
  <2>3. QED BY <1>2, <2>2
<1>11. TextTypeOK'
  BY <1>2, <1>4, <1>7 DEF TextTypeOK, Cells
<1>12. n < Capacity /\ InBuffer(n) = n
  BY <1>1 DEF InBuffer, n
<1>13. CountedInPlace' /\ FirstIsALetter' /\ LeavesWhenFull'
  <2>1. InBuffer(enteredTextLen)' = n /\ enteredTextLen' = n
    BY <1>2, <1>12 DEF InBuffer
  <2>2. QED
    BY <1>2, <1>8, <1>9, <1>10, <1>12, <2>1 DEF CountedInPlace, FirstIsALetter, LeavesWhenFull
<1>14. QED BY <1>11, <1>13 DEF TextInv

LEMMA AddCharStep ==
    ASSUME TextInv, NEW c \in Chars, AddChar(c)
    PROVE  TextInv'
<1> DEFINE n == enteredTextLen + 1
           e == InBuffer(enteredTextLen)
           Byte(i) == IF i = n THEN c ELSE IF i = n + 1 THEN NUL ELSE mem[i]
<1>1. /\ Capacity \in Nat \ {0} /\ Limit \in Nat /\ NUL \notin Chars
      /\ mem \in [Cells -> Chars \cup {NUL}] /\ enteredTextLen \in Nat
  BY Sizes DEF TextInv, TextTypeOK
<1>2. /\ page = "editing" /\ enteredTextLen < Limit /\ (c = SPACE => spaceKey)
      /\ mem' = [i \in Cells |-> Byte(i)]
      /\ outside' = Reach(n + 1)
      /\ enteredTextLen' = n
      /\ spaceKey' = (spaceKey \/ n = 1) /\ confirmButton' = (confirmButton \/ n = 1)
      /\ UNCHANGED <<eraseIcon, page, received>>
  BY DEF AddChar, BelowLimit
<1>3. n \in Nat \ {0} /\ enteredTextLen = n - 1 /\ n <= Limit /\ n # n + 1
  BY <1>1, <1>2
<1>4. EndsAt(mem, e)
  BY <1>2 DEF TextInv, CountedInPlace
<1>5. /\ n <= Capacity => e = n - 1
      /\ n > Capacity => e = Capacity
  BY <1>1 DEF InBuffer
<1>6. \A k \in Cells : mem'[k] = Byte(k) /\ Byte(k) \in Chars \cup {NUL}
  <2>1. \A k \in Cells : Byte(k) \in Chars \cup {NUL}
    BY <1>1
  <2> HIDE DEF Byte
  <2>2. QED BY <1>2, <2>1
<1>7. mem' \in [Cells -> Chars \cup {NUL}]
  <2> HIDE DEF Byte
  <2>1. QED BY <1>2, <1>6
<1> HIDE DEF n, e
<1>8. \A k \in Cells : k <= n => mem'[k] # NUL
  <2>1. SUFFICES ASSUME NEW k \in Cells, k <= n PROVE mem'[k] # NUL
    OBVIOUS
  <2>2. CASE k = n
    BY <1>1, <1>6, <2>2
  <2>3. CASE k # n
    <3>1. k \in 1 .. e /\ k # n + 1
      BY <1>1, <1>3, <1>5, <2>1, <2>3 DEF Cells
    <3>2. mem[k] # NUL
      BY <1>4, <3>1 DEF EndsAt
    <3>3. QED BY <1>6, <2>3, <3>1, <3>2
  <2>4. QED BY <2>2, <2>3
<1>9. EndsAt(mem', InBuffer(n))
  <2>1. CASE n < Capacity
    <3>1. InBuffer(n) = n /\ n + 1 \in Cells /\ n \in 0 .. Capacity
      BY <1>1, <1>3, <2>1 DEF InBuffer, Cells
    <3>2. mem'[n + 1] = NUL
      BY <1>3, <1>6, <3>1
    <3>3. \A k \in 1 .. n : k \in Cells /\ k <= n
      BY <1>1, <1>3, <2>1 DEF Cells
    <3>4. QED BY <1>8, <3>1, <3>2, <3>3 DEF EndsAt
  <2>2. CASE ~ (n < Capacity)
    <3>1. InBuffer(n) = Capacity /\ Capacity \in 0 .. Capacity /\ ~ (Capacity < Capacity)
      BY <1>1, <2>2 DEF InBuffer
    <3>2. \A k \in 1 .. Capacity : k \in Cells /\ k <= n
      BY <1>1, <1>3, <2>2 DEF Cells
    <3>3. QED BY <1>8, <3>1, <3>2 DEF EndsAt
  <2>3. QED BY <2>1, <2>2
<1>10. TextTypeOK'
  BY <1>2, <1>3, <1>7 DEF TextInv, TextTypeOK, Cells, Reach
<1>11. FirstIsALetter'
  <2>1. ASSUME mem'[1] = SPACE PROVE received # <<>> /\ received[1] = SPACE
    <3>1. 1 \in Cells
      BY <1>1 DEF Cells
    <3>2. CASE enteredTextLen = 0
      <4>1. n = 1 /\ ~ spaceKey
        BY <1>1, <1>2, <1>3, <3>2 DEF TextInv, FirstIsALetter
      <4>2. c = SPACE
        BY <1>6, <2>1, <3>1, <4>1
      <4>3. QED BY <1>2, <4>1, <4>2
    <3>3. CASE enteredTextLen > 0
      <4>1. 1 # n /\ 1 # n + 1
        BY <1>1, <1>3, <3>3
      <4>2. mem[1] = SPACE
        BY <1>6, <2>1, <3>1, <4>1
      <4>3. QED BY <1>2, <3>3, <4>2 DEF TextInv, FirstIsALetter
    <3>4. QED BY <1>1, <3>2, <3>3
  <2>2. enteredTextLen' > 0 /\ received' = received
    BY <1>2, <1>3
  <2>3. QED BY <2>1, <2>2 DEF FirstIsALetter
<1>12. CountedInPlace'
  <2>1. InBuffer(enteredTextLen)' = InBuffer(n)
    BY <1>2 DEF InBuffer
  <2>2. QED BY <1>9, <2>1 DEF CountedInPlace
<1>13. LeavesWhenFull'
  BY <1>1, <1>2, <1>3 DEF LeavesWhenFull, Reach, Cells
<1>14. QED BY <1>10, <1>11, <1>12, <1>13 DEF TextInv

LEMMA BackspaceStep ==
    ASSUME TextInv, Backspace
    PROVE  TextInv'
<1> DEFINE n == enteredTextLen
<1>1. /\ Capacity \in Nat \ {0}
      /\ mem \in [Cells -> Chars \cup {NUL}] /\ n \in Nat
  BY Sizes DEF TextInv, TextTypeOK
<1>2. /\ page = "editing" /\ n > 0
      /\ mem' = [mem EXCEPT ![n] = NUL] /\ n' = n - 1
      /\ spaceKey' = (spaceKey /\ n' # 0) /\ outside' = Reach(n)
      /\ UNCHANGED <<confirmButton, eraseIcon, page, received>>
  BY DEF Backspace, Stored
<1>3. EndsAt(mem, InBuffer(n)) /\ (n < Capacity \/ n <= Limit)
  BY <1>2 DEF TextInv, CountedInPlace, LeavesWhenFull
<1>4. n - 1 \in Nat /\ (n - 1) + 1 = n
  BY <1>1, <1>2
<1>5. mem' \in [Cells -> Chars \cup {NUL}] /\ \A k \in Cells : k # n => mem'[k] = mem[k]
  BY <1>1, <1>2
<1>6. EndsAt(mem', InBuffer(n - 1))
  <2>1. CASE n <= Capacity
    <3>1. InBuffer(n) = n /\ InBuffer(n - 1) = n - 1 /\ n \in Cells /\ n - 1 \in 0 .. Capacity
      BY <1>1, <1>2, <2>1 DEF InBuffer, Cells
    <3>2. mem'[n] = NUL
      BY <1>1, <1>2, <3>1
    <3>3. \A k \in 1 .. n - 1 : k # n /\ k \in 1 .. n /\ k \in Cells
      BY <1>1, <2>1 DEF Cells
    <3>4. \A k \in 1 .. n - 1 : mem'[k] # NUL
      BY <1>3, <1>5, <3>1, <3>3 DEF EndsAt
    <3>5. QED BY <1>4, <3>1, <3>2, <3>4 DEF EndsAt
  <2>2. CASE ~ (n <= Capacity)
    <3>1. InBuffer(n) = Capacity /\ InBuffer(n - 1) = Capacity /\ ~ (Capacity < Capacity)
      BY <1>1, <2>2 DEF InBuffer
    <3>2. \A k \in 1 .. Capacity : k # n /\ k \in Cells
      BY <1>1, <2>2 DEF Cells
    <3>3. QED BY <1>3, <1>5, <3>1, <3>2 DEF EndsAt
  <2>3. QED BY <2>1, <2>2
<1>7. TextTypeOK'
  BY <1>2, <1>4, <1>5 DEF TextInv, TextTypeOK, Cells, Reach
<1>8. FirstIsALetter'
  <2>1. n - 1 > 0 => mem'[1] = mem[1]
    <3>1. 1 \in Cells /\ (n - 1 > 0 => 1 # n)
      BY <1>1 DEF Cells
    <3>2. QED BY <1>5, <3>1
  <2>2. spaceKey' => n - 1 > 0
    <3>1. SUFFICES ASSUME spaceKey' PROVE n - 1 > 0
      OBVIOUS
    <3>2. n' # 0
      BY <1>2, <3>1, Zenon
    <3>3. QED BY <1>2, <1>4, <3>2
  <2>3. QED BY <1>2, <2>1, <2>2 DEF TextInv, FirstIsALetter
<1>9. CountedInPlace'
  <2>1. InBuffer(enteredTextLen)' = InBuffer(n - 1)
    BY <1>2 DEF InBuffer
  <2>2. QED BY <1>6, <2>1 DEF CountedInPlace
<1>10. LeavesWhenFull'
  <2>1. Limit \in Nat
    BY Sizes
  <2>2. QED BY <1>1, <1>2, <1>3, <2>1 DEF LeavesWhenFull, Reach, Cells
<1>11. QED BY <1>7, <1>8, <1>9, <1>10 DEF TextInv

LEMMA EraseTextStep ==
    ASSUME TextInv, EraseText
    PROVE  TextInv'
<1>1. Capacity \in Nat \ {0} /\ mem \in [Cells -> Chars \cup {NUL}]
  BY Sizes DEF TextInv, TextTypeOK
<1>2. /\ mem' = [mem EXCEPT ![1] = NUL] /\ enteredTextLen' = 0 /\ spaceKey' = FALSE
      /\ outside' = "no" /\ page = "editing"
      /\ UNCHANGED <<confirmButton, eraseIcon, page, received>>
  BY DEF EraseText, Stored
<1>3. 1 \in Cells
  BY <1>1 DEF Cells
<1>4. mem' \in [Cells -> Chars \cup {NUL}] /\ mem'[0 + 1] = NUL
  BY <1>1, <1>2, <1>3
<1>5. EndsAt(mem', InBuffer(0)) /\ 0 < Capacity
  BY <1>1, <1>4 DEF EndsAt, InBuffer
<1>6. TextTypeOK'
  BY <1>2, <1>4 DEF TextInv, TextTypeOK, Cells
<1>7. CountedInPlace'
  <2>1. InBuffer(enteredTextLen)' = InBuffer(0)
    BY <1>2 DEF InBuffer
  <2>2. QED BY <1>5, <2>1 DEF CountedInPlace
<1>8. QED BY <1>2, <1>5, <1>6, <1>7 DEF TextInv, FirstIsALetter, LeavesWhenFull

\* The text shown in gray: the first byte is cleared, if it was not.
LEMMA TouchTextStep ==
    ASSUME TextInv, TouchText
    PROVE  TextInv'
<1>1. Capacity \in Nat \ {0} /\ mem \in [Cells -> Chars \cup {NUL}]
  BY Sizes DEF TextInv, TextTypeOK
<1>2. /\ page = "editing" /\ outside' = "no"
      /\ UNCHANGED <<enteredTextLen, drawn, page, received>>
  BY DEF TouchText
<1>3. StrLen = InBuffer(enteredTextLen)
  BY <1>2, StrLenIs DEF TextInv, CountedInPlace
<1>4. enteredTextLen = 0 => StrLen = 0
  BY <1>1, <1>3 DEF InBuffer
<1>5. mem' = mem
  BY <1>4 DEF TouchText
<1>6. QED
  BY <1>2, <1>5 DEF TextInv, TextTypeOK, Cells, CountedInPlace, InBuffer, EndsAt,
                    FirstIsALetter, LeavesWhenFull, drawn

LEMMA ConfirmStep ==
    ASSUME TextInv, Confirm
    PROVE  TextInv'
<1>1. PICK spaces \in Trimmings :
         /\ mem' = [i \in Cells |-> IF i \in spaces THEN NUL ELSE mem[i]]
         /\ outside' = IF spaces = 1 .. StrLen THEN "before" ELSE Reach(StrLen + 1)
  BY DEF Confirm
<1>2. mem' \in [Cells -> Chars \cup {NUL}]
  BY <1>1 DEF TextInv, TextTypeOK
<1>3. /\ page = "editing" /\ page' = "confirmed"
      /\ UNCHANGED <<enteredTextLen, drawn, received>>
  BY DEF Confirm
<1>4. TextTypeOK'
  BY <1>1, <1>2, <1>3 DEF TextInv, TextTypeOK, Cells, drawn, Reach
<1>5. StrLen = InBuffer(enteredTextLen)
  BY <1>3, StrLenIs DEF TextInv, CountedInPlace
<1>6. outside' = "after" => enteredTextLen >= Capacity
  <2>1. Capacity \in Nat \ {0} /\ enteredTextLen \in Nat
    BY Sizes DEF TextInv, TextTypeOK
  <2>2. enteredTextLen < Capacity => StrLen = enteredTextLen /\ StrLen + 1 \in Cells
    BY <1>5, <2>1 DEF InBuffer, Cells
  <2>3. QED BY <1>1, <2>1, <2>2 DEF Reach
<1>7. QED BY <1>3, <1>4, <1>6 DEF TextInv, CountedInPlace, FirstIsALetter, LeavesWhenFull

LEMMA TextInvHolds == TextSpec => []TextInv
<1>1. TextInit => TextInv
  <2> SUFFICES ASSUME TextInit PROVE TextInv
    OBVIOUS
  <2>1. mem \in [Cells -> Chars \cup {NUL}]
    BY DEF TextInit
  <2>2. TextTypeOK
    BY <2>1 DEF TextInit, TextTypeOK
  <2>3. 0 < Capacity
    BY Sizes
  <2>4. QED BY <2>2, <2>3 DEF TextInit, TextInv, CountedInPlace, FirstIsALetter, LeavesWhenFull
<1>2. TextInv /\ [TextNext]_textVars => TextInv'
  <2> SUFFICES ASSUME TextInv, [TextNext]_textVars PROVE TextInv'
    OBVIOUS
  <2> DEFINE Kept == UNCHANGED <<mem, enteredTextLen, drawn, received>>
  <2>1. ASSUME NEW t \in Texts, EditText(t) PROVE TextInv'
    BY <2>1, EditTextStep
  <2>2. ASSUME NEW c \in Chars, AddChar(c) PROVE TextInv'
    BY <2>2, AddCharStep
  <2>3. CASE Kept /\ outside' \in {"no", outside} /\ page' \in {"left", page}
    BY <2>3 DEF drawn, TextInv, TextTypeOK, Cells, CountedInPlace, InBuffer, EndsAt,
                FirstIsALetter, LeavesWhenFull
  <2>4. CASE Backspace
    BY <2>4, BackspaceStep
  <2>5. CASE EraseText
    BY <2>5, EraseTextStep
  <2>6. CASE TouchText
    BY <2>6, TouchTextStep
  <2>7. CASE Confirm
    BY <2>7, ConfirmStep
  <2>8. CASE LeaveEditor \/ \E c \in Chars : IgnoreChar(c)
    BY <2>3, <2>8 DEF LeaveEditor, IgnoreChar
  <2>9. CASE UNCHANGED textVars
    BY <2>3, <2>9 DEF textVars
  <2>10. QED BY <2>1, <2>2, <2>4, <2>5, <2>6, <2>7, <2>8, <2>9 DEF TextNext
<1>3. QED BY <1>1, <1>2, PTL DEF TextSpec

-----------------------------------------------------------------------------
(* The theorems.                                                           *)

\* In a buffer of any size, also one that the limit lets overflow: whatever is
\* typed, erased and opened again, the count of the keys is the length of the
\* string, and only a text that fills the buffer reaches past it.
THEOREM TextCorrect == TextSpec => []TextInPlace
<1>1. TextInv => TextInPlace
  <2>1. TextInv => LenMatches
    BY StrLenIs DEF TextInv, CountedInPlace, LenMatches
  <2>2. QED BY <2>1 DEF TextInv, TextInPlace
<1>2. QED BY <1>1, TextInvHolds, PTL

\* A buffer longer than the limit, as the one of a content, is never left:
\* TextFits of TextEdit, which a title and a name may break.
THEOREM LimitKeepsTextIn == ASSUME Limit < Capacity PROVE TextSpec => []TextFits
<1>1. TextInv => TextFits
  <2>1. ASSUME TextInv PROVE enteredTextLen \in Nat /\ Capacity \in Nat /\ Limit \in Nat
    BY <2>1, Sizes DEF TextInv, TextTypeOK
  <2>2. QED BY <2>1 DEF TextInv, LeavesWhenFull, TextFits
<1>2. QED BY <1>1, TextInvHolds, PTL

\* A text starts with a space only if the one received did: the space key is not
\* active before a first character, on any page and after any erasure.
THEOREM FirstCharacter == TextSpec => []StartsWithALetter
<1>1. TextInv => StartsWithALetter
  <2> SUFFICES ASSUME TextInv, page = "editing", Text # <<>>, Text[1] = SPACE
               PROVE  received # <<>> /\ received[1] = SPACE
    BY DEF StartsWithALetter
  <2> DEFINE n == InBuffer(enteredTextLen)
  <2>1. EndsAt(mem, n) /\ n \in Nat /\ enteredTextLen \in Nat /\ n <= enteredTextLen
    BY Sizes DEF TextInv, CountedInPlace, TextTypeOK, InBuffer
  <2>2. StrLen = n
    BY <2>1, StrLenIs
  <2>3. Text = [j \in 1 .. n |-> mem[j]]
    BY <2>2 DEF Text
  <2> HIDE DEF n
  <2>4. n # 0
    <3>1. CASE n = 0
      <4>1. Text = <<>>
        BY <2>3, <3>1
      <4>2. QED BY <4>1
    <3>2. QED BY <3>1
  <2>5. n > 0 /\ 1 \in 1 .. n /\ enteredTextLen > 0
    BY <2>1, <2>4
  <2>6. mem[1] = SPACE
    BY <2>3, <2>5
  <2>7. QED BY <2>5, <2>6 DEF TextInv, FirstIsALetter
<1>2. QED BY <1>1, TextInvHolds, PTL

\* What the trimming leaves is the text without the spaces at its end.
LEMMA ConfirmTrimsText ==
    ASSUME TextInv, Confirm,
           mem' = [j \in Cells |-> IF j \in TrailingSpaces THEN NUL ELSE mem[j]]
    PROVE  TextIsTrimmed
<1> DEFINE n == InBuffer(enteredTextLen)
           Blank(k) == \A j \in k .. n : mem[j] = SPACE
           S == {k \in Nat : k <= n /\ Blank(k + 1)}
<1>1. EndsAt(mem, n) /\ n \in Nat /\ NUL \notin Chars /\ SPACE \in Chars /\ Capacity \in Nat
  BY Sizes DEF Confirm, TextInv, CountedInPlace, TextTypeOK, InBuffer
<1>2. StrLen = n
  BY <1>1, StrLenIs
<1>3. TrailingSpaces = {k \in 1 .. n : Blank(k)}
  BY <1>2 DEF TrailingSpaces
<1>4. mem' = [j \in Cells |-> IF j \in TrailingSpaces THEN NUL ELSE mem[j]]
  OBVIOUS
<1>5. /\ n \in 0 .. Capacity /\ (n < Capacity => mem[n + 1] = NUL)
      /\ \A k \in 1 .. n : mem[k] # NUL
  BY <1>1 DEF EndsAt
<1> HIDE DEF n
<1>6. n \in S
  BY <1>1
<1>7. PICK e \in S : \A k \in S : e <= k
  <2> HIDE DEF S
  <2>1. S # {} /\ S \in SUBSET Nat
    BY <1>6 DEF S
  <2>2. QED BY <2>1, LeastOf
<1>8. e \in 0 .. n /\ Blank(e + 1)
  BY <1>1, <1>7
<1>9. e > 0 => mem[e] # SPACE
  <2>1. SUFFICES ASSUME e > 0, mem[e] = SPACE PROVE FALSE
    OBVIOUS
  <2>2. e - 1 \in Nat /\ e - 1 <= n /\ (e - 1) + 1 = e
    BY <1>1, <1>8, <2>1
  <2>3. Blank(e)
    <3>1. \A j \in e .. n : j = e \/ j \in e + 1 .. n
      BY <1>1, <1>8
    <3>2. QED BY <1>8, <2>1, <3>1
  <2> HIDE DEF Blank
  <2>4. e - 1 \in S
    BY <2>2, <2>3
  <2>5. e <= e - 1
    BY <1>7, <2>4
  <2>6. QED BY <1>1, <1>8, <2>5
<1> HIDE DEF S
<1>10. \A k \in 1 .. n : k \in TrailingSpaces <=> k > e
  <2>1. TAKE k \in 1 .. n
  <2>2. ASSUME k > e PROVE k \in TrailingSpaces
    <3>1. Blank(k)
      BY <1>1, <1>8, <2>2
    <3> HIDE DEF Blank
    <3>2. QED BY <1>3, <3>1
  <2>3. ASSUME ~ (k > e) PROVE k \notin TrailingSpaces
    <3>1. e \in k .. n /\ e > 0
      BY <1>1, <1>8, <2>3
    <3>2. ~ Blank(k)
      BY <1>9, <3>1
    <3> HIDE DEF Blank
    <3>3. QED BY <1>3, <3>2
  <2>4. QED BY <2>2, <2>3
<1>11. \A k \in 1 .. n : k \in Cells /\ mem'[k] = IF k > e THEN NUL ELSE mem[k]
  <2>1. \A k \in 1 .. n : k \in Cells
    BY <1>1, <1>5 DEF Cells
  <2>2. QED BY <1>4, <1>10, <2>1
<1>12. EndsAt(mem', e)
  <2>1. ASSUME e < Capacity PROVE mem'[e + 1] = NUL
    <3>1. CASE e < n
      <4>1. e + 1 \in 1 .. n /\ e + 1 > e
        BY <1>1, <1>8, <3>1
      <4>2. QED BY <1>11, <4>1
    <3>2. CASE e = n
      <4>1. n + 1 \in Cells /\ n + 1 \notin 1 .. n /\ mem[n + 1] = NUL
        BY <1>1, <1>5, <2>1, <3>2 DEF Cells
      <4>2. n + 1 \notin TrailingSpaces
        BY <1>3, <4>1
      <4>3. QED BY <1>4, <3>2, <4>1, <4>2
    <3>3. QED BY <1>1, <1>8, <3>1, <3>2
  <2>2. \A k \in 1 .. e : mem'[k] # NUL
    <3>1. \A k \in 1 .. e : k \in 1 .. n /\ ~ (k > e)
      BY <1>1, <1>8
    <3>2. QED BY <1>5, <1>11, <3>1
  <2>3. e \in 0 .. Capacity
    BY <1>1, <1>5, <1>8
  <2>4. QED BY <2>1, <2>2, <2>3 DEF EndsAt
<1>13. StrLen' = e
  BY <1>12, StrLenIs
<1>14. \A j \in 1 .. n : IF j <= e THEN mem'[j] = mem[j] ELSE mem[j] = SPACE
  <2>1. TAKE j \in 1 .. n
  <2>2. CASE j <= e
    <3>1. ~ (j > e)
      BY <1>1, <1>8, <2>2
    <3>2. QED BY <1>11, <2>2, <3>1
  <2>3. CASE ~ (j <= e)
    <3>1. j \in e + 1 .. n
      BY <1>1, <1>8, <2>3
    <3>2. QED BY <1>8, <2>3, <3>1
  <2>4. QED BY <2>2, <2>3
<1>15. e > 0 => mem'[e] # SPACE
  <2>1. SUFFICES ASSUME e > 0 PROVE mem'[e] # SPACE
    OBVIOUS
  <2>2. e \in 1 .. n /\ ~ (e > e)
    BY <1>1, <1>8, <2>1
  <2>3. QED BY <1>9, <1>11, <2>1, <2>2
<1> HIDE DEF Blank
<1>16. QED BY <1>1, <1>2, <1>8, <1>13, <1>14, <1>15 DEF TextIsTrimmed

\* A text that does not end in its buffer may be left as it is.
LEMMA UnendedStays ==
    ASSUME TextInv, page = "editing", ~ (StrLen < Capacity), mem' = mem
    PROVE  TextIsTrimmed
<1>1. EndsAt(mem, InBuffer(enteredTextLen))
  BY DEF TextInv, CountedInPlace
<1>2. StrLen = InBuffer(enteredTextLen) /\ StrLen' = StrLen
  BY <1>1, StrLenIs
<1>3. StrLen = Capacity /\ Capacity \in Nat
  BY <1>1, <1>2, Sizes DEF EndsAt
<1>4. QED BY <1>2, <1>3 DEF TextIsTrimmed

\* Whatever was typed, a text is confirmed without the spaces at its end, and
\* with nothing else taken from it; the part in the buffer of one that does not
\* end there is left as it is or trimmed.
THEOREM TrimCorrect == TextSpec => ConfirmTrims
<1>1. TextInv /\ [TextNext]_textVars
          => [page' = "confirmed" /\ page # "confirmed" => TextIsTrimmed]_textVars
  <2> SUFFICES ASSUME TextInv, TextNext, page' = "confirmed", page # "confirmed"
               PROVE  TextIsTrimmed
    OBVIOUS
  <2>1. Confirm
    BY DEF TextNext, EditText, AddChar, IgnoreChar, Backspace, EraseText, TouchText,
           LeaveEditor
  <2>2. PICK spaces \in Trimmings :
           mem' = [i \in Cells |-> IF i \in spaces THEN NUL ELSE mem[i]]
    BY <2>1 DEF Confirm
  <2>3. CASE spaces = TrailingSpaces
    BY <2>1, <2>2, <2>3, ConfirmTrimsText
  <2>4. CASE spaces = {} /\ ~ (StrLen < Capacity)
    <3>1. mem' = mem
      BY <2>2, <2>4 DEF TextInv, TextTypeOK
    <3>2. QED BY <2>1, <2>4, <3>1, UnendedStays DEF Confirm
  <2>5. QED BY <2>2, <2>3, <2>4 DEF Trimmings
<1>2. QED BY <1>1, TextInvHolds, PTL DEF ConfirmTrims, TextSpec

=============================================================================
