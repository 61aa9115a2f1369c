\* Removal of a paragraph against what the source says of it.
CONSTANTS
    Size = 9
    NUL = "nul"
    NL = "nl"
    MaxParagraphs = 3
    Texts <- MCTexts
SPECIFICATION Spec
INVARIANT RemovalKeepsOthers
