---------------------------- MODULE MCTaskSched ----------------------------
(* The scheduler on the boot CPU with few tasks. *)
EXTENDS TaskSched

CONSTANTS T0, T1, T2

\* The boot task alone in the ring: kernel_run before task_fork.
Alone == [c \in CPUS |-> T0]
AloneRing == [t \in TASKS |-> IF t = T0 THEN T0 ELSE NoTask]
=============================================================================
