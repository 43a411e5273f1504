---------------------------- MODULE MCKernelHeap ----------------------------
(* KernelHeap on a heap of a few dozen bytes with two-byte headers. *)
EXTENDS KernelHeap
=============================================================================
