\* Two notes, two contacts, two paragraphs, two passcodes, and the host.
CONSTANTS
    NbMaxNotes = 2
    NbMaxContacts = 2
    NbMaxParagraphs = 2
    p1 = p1
    p2 = p2
    Free = Free
    NoPasscode = NoPasscode
    NoText <- MCNoText
    Texts <- MCTexts
    HostNotes <- MCHostNotes
    Passcodes <- MCPasscodes
    RemoveParagraph <- MCRemoveParagraph
SPECIFICATION Spec
INVARIANTS TypeOK EditedNoteIsSaved NewNoteHasRoom ScreensMatchStore
PROPERTIES NotesChangeOnlyByUser LockNeedsItsPasscode
SYMMETRY Symmetry
