\* Notes of up to four paragraphs, on up to four pages.
CONSTANTS
    Paragraphs <- MCParagraphs
    NoParagraph <- MCEmpty
    Margin = 1
    Gap = 1
    Area = 7
    Bar = 2
    SmallFrom = 6
    NbMaxParagraphs = 4
SPECIFICATION PagesSpec
INVARIANTS PagesTypeOK CurrentPageExists ParagraphsHaveTheirPage CountIsShown
PROPERTY CountEnds
