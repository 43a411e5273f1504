CONSTANTS
    HEAP = 3
    HLIM = 13
    HDR = 2
    SIZES = {0, 1, 3, 12, 13}
SPECIFICATION Spec
INVARIANT ExhaustionIsReported
CHECK_DEADLOCK FALSE
