SPECIFICATION Spec
CHECK_DEADLOCK FALSE
CONSTANTS
    WordBits = 8
    TextRows = 4
    TextCols = 5
    CellHeight = 7
    LcdRows = 36
    Blank <- MCBlank
    Menus <- MCMenus
    Kernel <- MCKernel
    KeyCodes = {2, 4, 20, 68}
    Sizes = {0, 77}
    Statuses = {0, 10}
    RuleWidth = 6
INVARIANTS
    ScreenShowsText
    MarkIsTaken
    PrintsWhatIsMeant
