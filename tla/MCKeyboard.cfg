SPECIFICATION FairSpec
CONSTANTS
    CAPACITY = 3
    KEYS <- KeysMC
    REPEATING <- LetterMC
    MAX_TYPED = 3
    EARLY_KEYS = TRUE
INVARIANTS
    TypeOK
    ScreenShowsText
    FifoUnlessOverrun
    CheckStaysTrue
PROPERTIES
    StrokesArrive
