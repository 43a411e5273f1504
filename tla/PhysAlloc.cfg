CONSTANTS
    HALF = 2
    FIRST = 1
    UPPER = 9
    KLAST = 5
    MMAP <- MCMmap
    RELEASED <- MCReleased
    ACTORS = {c1, c2}
SYMMETRY ActorsAlike
SPECIFICATION Spec
INVARIANTS
    PagesExclusive
    KernelReserved
    NullMeansFull
