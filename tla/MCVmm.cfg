SPECIFICATION FairSpec
CONSTANTS
    ENTRIES = 6
    PAGE_SIZE = 2
    KERNEL_VIRTUAL_BASE = 48
    IDENTITY = 1
    FRAMES = 6
    RAM = {0, 2, 3, 4}
    STACK_DEPTH = 4
    WRITE_PROTECT = TRUE
    Mappings <- MappingsMC
    Unmapped <- UnmappedMC
    Accessed <- AccessedMC
INVARIANTS
    TypeOK
    MapMeansMapped
    TlbCoherent
    OneUsePerFrame
    FaultsDoNotNest
PROPERTIES
    ImplementsAddressSpace
    CallsReturn
