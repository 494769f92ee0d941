SPECIFICATION Spec
CONSTANTS
    CAPACITY = 3
    KEYS <- LetterMC
    REPEATING <- LetterMC
    MAX_TYPED = 6
    EARLY_KEYS = FALSE
INVARIANT DeliversInOrder
