SPECIFICATION Spec
CONSTANTS
    ADDRESS_SPACE = 65536
    EARLY_HEAP_START = 1000
    EARLY_HEAP_END = 1024
    Kinds = {"uart", "open bus", "zeros"}
    Configs <- ConfigsMC
    Texts <- TextsMC
    BufferSizes = {0, 1, 3}
    PeerBytes = {10, 42}
    FIFO = 2
    MAX_CALLS = 5
    MAX_PEER = 2
INVARIANT LineAsConfigured
