\* Two paths, transactions of two and three units in chunks of one or two.
CONSTANTS
    Units <- MCUnits
    Chunks <- MCChunks
    MaxRaw = 3
    Transactions <- MCTransactions
    Paths = {p1, p2}
    Torn = Torn
SPECIFICATION Spec
INVARIANTS TypeOK ReviewIsOfContext
PROPERTIES SignedIsTheSession OneAnswerEach
