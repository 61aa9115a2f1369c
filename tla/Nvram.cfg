\* Notes whose search loop covers their array, contacts whose loop does not
\* (10 and 16 in the source).
CONSTANTS
    NbSlots = 2
    SearchBound = 2
    NbMaxContacts = 3
    NoTitle = NoTitle
    NoContent = NoContent
    NoName = NoName
    NoAddress = NoAddress
    Free = Free
    t1 = t1
    c1 = c1
    c2 = c2
    n1 = n1
    a1 = a1
    Titles <- MCTitles
    Contents <- MCContents
    Names <- MCNames
    Addresses <- MCAddresses
SPECIFICATION NvramSpec
INVARIANTS TypeOK StoreInv AddFailsOnlyWhenFull
PROPERTIES ImplementsNotebook ContactsAreKept
