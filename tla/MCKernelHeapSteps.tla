------------------------- MODULE MCKernelHeapSteps -------------------------
(* The statement-level heap with one or two tasks. *)
EXTENDS KernelHeapSteps
=============================================================================
