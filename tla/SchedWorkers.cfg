CONSTANTS
    T0 = T0
    T1 = T1
    T2 = T2
    BYTE = 256
    NoTask = NoTask
    CPUS = {0}
    TASKS = {T0, T1, T2}
    FIRSTCURR <- Alone
    FIRSTNEXT <- AloneRing
    SAVED = TRUE
    JOBS = {"section", "fork", "start"}
    WORKERS = {T0, T1}
    FORKSTATES = {"ACTIVE", "OTHER"}
    BEYOND = FALSE
SPECIFICATION Spec
INVARIANTS
    SemaCounts
    RingClosed
    StartRegsPrepared
    SectionsNotPreempted
    NoIntrBug
PROPERTIES
    EveryTaskRuns
    ProcessStarts
CHECK_DEADLOCK FALSE
