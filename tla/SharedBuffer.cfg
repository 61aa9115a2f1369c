\* Notes relayed through the shared buffer, whole and cut short.
CONSTANTS
    ByteMod = 8
    BufferSize = 8
    AddressSize = 2
    Letters <- MCLetters
    Notes <- MCNotes
    Addresses <- MCAddresses
    Nothing = Nothing
SPECIFICATION BufferSpec
INVARIANTS OfferIsWhole StringsEnd AnswerIsAPacket
