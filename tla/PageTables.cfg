CONSTANTS
    LEVELS = 3
    WIDTH = 2
    FRAMES = {4, 5, 6, 7, 8, 9, 10, 11, 12, 13, 14}
    DEVICES = {20}
    KTABLES <- MCTables
    KPATH <- MCPath
    USER <- MCUser
    KERNEL <- MCKernel
    FAULTS <- HeapNear
    ACTORS = {c1}
    CACHED <- MCCached
    RESERVE = 7
    FORKS = 1
SPECIFICATION Spec
INVARIANTS
    SpacesApart
    UserPagesReachable
PROPERTIES
    ImplementsMap
    MountTakesEffect
    FaultResolved
