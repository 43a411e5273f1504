----------------------------- MODULE MCPhysMem -----------------------------
(* A machine with half-words of a few bits and few words to the megabyte. *)
EXTENDS PhysMem, TLC

Entry(b, l, t) == [base |-> b, length |-> l, type |-> t]

\* Low memory, the entry the kernel was loaded into, and a reserved hole behind
\* it, as the firmware of a small machine reports them.
MCMmap == {Entry(0, HALF + 1, 1), Entry(MB, UPPER, 1), Entry(MB + UPPER, 3, 2)}

\* One page whose bit free_phys_page clears, and one whose mask is too wide.
MCReleased == {<<KernelTop + 1, 0, 0>>, <<KernelTop + 2, 0, HALF - 1>>}

\* Nothing tells the actors apart.
ActorsAlike == Permutations(ACTORS)
=============================================================================
