\* Six places, five of them searched: three bars on a single page, two on each
\* of several.
CONSTANTS
    Names = {alice}
    NoName = NoName
    NbMaxContacts = 6
    SearchBound = 5
    Area = 13
    Footer = 4
    Bar = 4
SPECIFICATION ListsSpec
INVARIANTS ListsTypeOK ContactsAreListed PagesExist EveryNoteHasItsPage
PROPERTY SelectedAreNear
