\* A buffer shorter than the limit, as those of a title and of a name.
CONSTANTS
    Letters = {"a", "b"}
    SPACE = "_"
    NUL = "nul"
    Limit = 5
    Capacity = 4
    TitleMax = 3
    Texts <- MCTexts
SPECIFICATION TextSpec
INVARIANTS TextInPlace StartsWithALetter
PROPERTY ConfirmTrims
