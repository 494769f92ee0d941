SPECIFICATION Spec
CONSTANTS
    ADDRESS_SPACE = 65536
    EARLY_HEAP_START = 1000
    EARLY_HEAP_END = 1400
    MAX_ORDER = 2
    BootMaps <- HighMaps
    AllocOrders = {0, 1, 2}
    AllocPages = {}
    AllocSizes = {}
    StrayAddresses = {}
INVARIANT ManagesDetectedRam
