SPECIFICATION BootSpec
CONSTANTS
    ADDRESS_SPACE = 65536
    EARLY_HEAP_START = 1000
    EARLY_HEAP_END = 1240
    KIB = 32
    MAX_ORDER = 2
    AllocOrders = {0}
    BootInfos <- BootInfosMC
INVARIANTS
    ParsesBootInfo
    TakesItsDemand
    
PROPERTIES
    BootEnds
