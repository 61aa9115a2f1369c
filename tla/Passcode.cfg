\* Two digits, codes of three or four.
CONSTANTS
    Digits = {1, 2}
    Zero = 0
    NoLock = NoLock
    MinPin = 3
    MaxPin = 4
SPECIFICATION Spec
INVARIANTS DigitsInPlace ConfirmedPinIsWhole
PROPERTY ImplementsLock
