---------------------------- MODULE MCPageTables ----------------------------
(* Page tables of three levels with two entries each. *)
EXTENDS PageTables

MCTables == <<1, 2, 3>>
MCPath == <<1, 0>>

\* The kernel lives below entry 1 of the root, programs below entry 0.
MCUser == {<<0, 0, 0>>, <<0, 1, 1>>}
MCKernel == {<<1, 1, 0>>}
HeapNear == {<<1, 0, 1>>}
HeapFar == {<<1, 0, 1>>, <<1, 1, 1>>}

MCCached == {<<1, 1, 0>>, <<1, 0, 1>>}
=============================================================================
