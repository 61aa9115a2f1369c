\* Edits of a note of three paragraphs at most.
CONSTANTS
    Size = 9
    NUL = "nul"
    NL = "nl"
    MaxParagraphs = 3
    Texts <- MCTexts
SPECIFICATION Spec
INVARIANTS TypeOK ViewIsStored
PROPERTY ImplementsDocument
