SPECIFICATION Spec
CONSTANTS
    NIBBLES = 2
    VGA_WIDTH = 3
    VGA_HEIGHT = 2
    BYTE = 4
    Prints <- PrintsMC
    Pieces <- PiecesMC
    MAX_PIECES = 2
    Sizes = {0, 1, 2, 3, 5, 9}
    PRINTF_BUFFER_SIZE = 6
    Characters = {10, 65, 127}
    ForegroundColors = {10}
    MAX_TEXT = 5
    MAX_CALLS = 3
INVARIANTS
    TypeOK
    FormatsText
    ScreenShowsText
