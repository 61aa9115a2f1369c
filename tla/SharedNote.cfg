\* What GET_SHARED_NOTE answers for the note being shared.
CONSTANTS
    NbMaxNotes = 1
    NbMaxContacts = 1
    NbMaxParagraphs = 2
    p1 = p1
    p2 = p2
    Free = Free
    NoPasscode = NoPasscode
    NoText <- MCNoText
    Texts <- MCTexts
    HostNotes <- MCNoHostNotes
    Passcodes <- MCNoPasscodes
    RemoveParagraph <- MCRemoveParagraph
SPECIFICATION Spec
PROPERTY SharedNoteIsWhole
