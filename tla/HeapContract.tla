---------------------------- MODULE HeapContract ----------------------------
(***************************************************************************)
(* What a caller of kmalloc / kfree may rely on, said without headers,     *)
(* chunks or links: a request is answered with a null pointer or with a    *)
(* block of at least the requested length that lies in the heap and meets  *)
(* no block still in use; releasing a block takes away that block only.    *)
(* KernelHeap is shown to implement this specification.                    *)
(***************************************************************************)
EXTENDS Integers

CONSTANTS Lo,      \* first byte a block may occupy
          Hi,      \* first byte after the heap
          SIZES    \* the request lengths considered

VARIABLES live,    \* set of <<address, length>> handed out and not released
          ret      \* the pointer the last kmalloc returned, 0 for a null one

vars == <<live, ret>>

Apart(b, c) == b[1] + b[2] <= c[1] \/ c[1] + c[2] <= b[1]

Init == live = {} /\ ret = 0

Alloc(n, p) ==
    /\ n > 0
    /\ Lo <= p /\ p + n <= Hi
    /\ \A b \in live : Apart(b, <<p, n>>)
    /\ live' = live \cup {<<p, n>>}
    /\ ret' = p

Refuse(n) == ret' = 0 /\ UNCHANGED live

Release(b) ==
    /\ live' = live \ {b}
    /\ UNCHANGED ret

Next == \/ \E n \in SIZES : \E p \in Lo .. Hi : Alloc(n, p)
        \/ \E n \in SIZES : Refuse(n)
        \/ \E b \in live : Release(b)

Spec == Init /\ [][Next]_vars
=============================================================================
