SPECIFICATION FairSpec
CONSTANTS
    ADDRESS_SPACE = 65536
    EARLY_HEAP_START = 1000
    EARLY_HEAP_END = 1232
    MAX_ORDER = 2
    BootMaps <- BootMapsMC
    AllocOrders = {0, 1, 2, 3}
    AllocPages = {0, 3}
    AllocSizes = {4097, 16385}
    StrayAddresses = {5, 28672}
INVARIANTS
    TypeOK
    LiveBlocksDisjoint
    PagesConserved
    BookkeepingSound
    FullyCoalesced
    AllFreedRestores
    ManagedIsRam
    PmmInv
PROPERTIES
    CallsEnd
    ImplementsPageAllocator
