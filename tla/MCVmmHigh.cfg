SPECIFICATION FairSpec
CONSTANTS
    ENTRIES = 6
    PAGE_SIZE = 2
    KERNEL_VIRTUAL_BASE = 48
    IDENTITY = 1
    FRAMES = 10
    RAM = {2, 3, 8}
    STACK_DEPTH = 4
    WRITE_PROTECT = TRUE
    Mappings <- MappingsMC
    Unmapped = {}
    Accessed = {}
INVARIANT
    MapMeansMapped
