\* Every tail of up to five bytes, and the transactions of a client.
CONSTANTS
    ByteMod = 8
    WordLen = 2
    AddressLen = 1
    Prefix = 5
    Widths <- MCWidths
    MaxTxLen = 18
    MaxMemoLen = 9
    AsciiMod = 4
    SizeMod = 64
    Inputs <- MCInputs
    Transactions <- MCTransactions
    Nothing = Nothing
SPECIFICATION Spec
CHECK_DEADLOCK FALSE
INVARIANTS TypeOK RoundTrip AcceptedIsExact
