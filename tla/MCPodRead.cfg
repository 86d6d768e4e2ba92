CONSTANTS
    Chars <- MCChars
    Spaces <- MCSpaces
    Width <- MCWidth
    wid = 4
    TAB = 3
    PER_LINE = 2
    GROW = 2
    screenlines = 2
    SPEED = 3
    MOD = 2
    Turns <- MCTurns
    MaxText = 7
    MaxSaved = 4
    MaxRest = 5
    MaxActs = 5
SPECIFICATION LiveSpec
INVARIANTS
    TypeOK
    WrapRight
    ScrollInText
PROPERTIES
    AutoscrollArrives
CHECK_DEADLOCK FALSE
