CONSTANTS
    HEAP = 3
    HLIM = 13
    HDR = 2
    SIZES = {0, 1, 3, 12, 13}
SPECIFICATION Spec
INVARIANTS
    ChunksLinked
    Coalesced
    WholeAgain
PROPERTIES
    ImplementsContract
    HeldBlocksKeepTheirRoom
CHECK_DEADLOCK FALSE
