CONSTANTS
    HEAP = 3
    HLIM = 12
    HDR = 2
    SIZES = {0, 1, 4}
    TASKS = {t1}
SPECIFICATION StepSpec
INVARIANTS
    HeapAtRest
PROPERTIES
    CallsReturn
CHECK_DEADLOCK FALSE
