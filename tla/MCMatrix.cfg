SPECIFICATION Spec
CONSTANTS
    COLS = 4
    ROWS = 3
    BITS = 5
    TOP_ROW = 0
    TOP_ROWS = 2
    BOTTOM_ROW = 2
    BOTTOM_ROWS = 1
    linux_cols <- MCText
    cnc_cols <- MCSign
    SLEEP = 14
INVARIANTS
    OneLedAtATime
    TearsOnlyTheText
PROPERTIES
    PictureIsShown
    TextScrolls
