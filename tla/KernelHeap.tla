----------------------------- MODULE KernelHeap -----------------------------
(***************************************************************************)
(* The kernel heap of src/mm/mem.c: a first-fit allocator over one range   *)
(* of virtual addresses tiled by chunks, each a kmem_header followed by    *)
(* its payload.  A call of kmalloc or kfree is one action here;            *)
(* KernelHeapSteps splits the calls into their memory accesses.            *)
(*                                                                         *)
(* The heap reaches up to the very top of the address space: mem_init      *)
(* makes kernel_heap + kernel_hlim + sizeof(kmem_header) equal to 2^64, so *)
(* the address after the last chunk wraps to 0.  AddrSpace plays 2^64.     *)
(***************************************************************************)
EXTENDS Integers

CONSTANTS HEAP,    \* kernel_heap
          HLIM,    \* kernel_hlim: payload of the heap when it is one chunk
          HDR,     \* sizeof(kmem_header)
          SIZES    \* the request lengths callers use

ASSUME HeapAssumption ==
    /\ HEAP \in Nat \ {0}
    /\ HLIM \in Nat \ {0}
    /\ HDR \in Nat \ {0}
    /\ SIZES \subseteq Nat

VARIABLES magic,   \* the addresses whose first word is KMEM_MAGIC: the chunks
          free,    \* the addresses whose header has the free bit set
          size,    \* size[a], prev[a]: the other header fields at a
          prev,
          live,    \* <<pointer, requested length>> of the blocks in use
          ret,     \* what the last kmalloc returned
          halted   \* the CPU stopped in _page_fault

heapVars == <<magic, free, size, prev>>
vars == <<magic, free, size, prev, live, ret, halted>>

AddrSpace == HEAP + HLIM + HDR
Limit == HEAP + HLIM
Addr == 0 .. (AddrSpace - 1)

\* 64-bit addition of two in-range operands.
Plus(a, b) == IF a + b >= AddrSpace THEN a + b - AddrSpace ELSE a + b

\* The header that follows the chunk at a; 0 after the last one.
Following(a) == Plus(a, size[a] + HDR)

(***************************************************************************)
(* mem_init: the whole heap is one free chunk.                             *)
(***************************************************************************)
Init ==
    /\ magic = {HEAP}
    /\ free = {HEAP}
    /\ size = [a \in Addr |-> IF a = HEAP THEN HLIM ELSE 0]
    /\ prev = [a \in Addr |-> 0]
    /\ live = {}
    /\ ret = 0
    /\ halted = FALSE

(***************************************************************************)
(* kmalloc                                                                 *)
(***************************************************************************)
BadRequest(n) == n = 0 \/ n >= HLIM

KmallocRefused(n) ==
    /\ ~halted
    /\ BadRequest(n)
    /\ ret' = 0
    /\ UNCHANGED <<heapVars, live, halted>>

\* Mutant: the header is counted as room.
UnfitCountsHeader(a, n) == size[a] + HDR < n \/ a \notin free

\* The loop condition of the scan: this chunk cannot serve the request.
Unfit(a, n) == size[a] < n \/ a \notin free

\* The scan visits the chunks in address order from kernel_heap.
FirstFit(a, n) ==
    /\ a \in magic
    /\ ~Unfit(a, n)
    /\ \A b \in magic : b < a => Unfit(b, n)

Splits(a, n) == size[a] > n + HDR

\* The fragment is not worth splitting: it is handed out whole.
TakeWhole(a, n) ==
    /\ ~Splits(a, n)
    /\ free' = free \ {a}
    /\ UNCHANGED <<magic, size, prev>>

\* Mutant: the chunk behind the rest keeps its old back link.
TakeSplitNoBackLink(a, n) ==
    /\ Splits(a, n)
    /\ magic' = magic \cup {a + n + HDR}
    /\ size' = [size EXCEPT ![a + n + HDR] = size[a] - n - HDR, ![a] = n]
    /\ free' = (free \cup {a + n + HDR}) \ {a}
    /\ prev' = [prev EXCEPT ![a + n + HDR] = a]

\* A new header is cut out behind the block, and the chunk that used to
\* follow is told who precedes it now.
TakeSplit(a, n) ==
    /\ Splits(a, n)
    /\ LET next == a + n + HDR
           wnext == Following(a)
       IN /\ magic' = magic \cup {next}
          /\ size' = [size EXCEPT ![next] = size[a] - n - HDR, ![a] = n]
          /\ free' = (free \cup {next}) \ {a}
          /\ prev' = IF a + size[a] < Limit
                     THEN [prev EXCEPT ![next] = a, ![wnext] = next]
                     ELSE [prev EXCEPT ![next] = a]

Kmalloc(n, a) ==
    /\ ~halted
    /\ ~BadRequest(n)
    /\ FirstFit(a, n)
    /\ TakeWhole(a, n) \/ TakeSplit(a, n)
    /\ live' = live \cup {<<a + HDR, n>>}
    /\ ret' = a + HDR
    /\ UNCHANGED halted

\* No chunk fits and the scan steps past the last one.  An address at or above
\* the limit makes kmalloc return null; any other is below the limit, so the
\* scan goes on and reads a header there: nothing is mapped below the heap at
\* the addresses a wrapped sum leads to, and _page_fault stops the CPU.
KmallocExhausted(n, last) ==
    /\ ~halted
    /\ ~BadRequest(n)
    /\ \A a \in magic : a <= last /\ Unfit(a, n)
    /\ IF Following(last) >= Limit
       THEN ret' = 0 /\ UNCHANGED halted
       ELSE halted' = TRUE /\ UNCHANGED ret
    /\ UNCHANGED <<heapVars, live>>

(***************************************************************************)
(* kfree: p is null or the pointer of a block in use (no caller in the     *)
(* kernel releases anything else).                                         *)
(***************************************************************************)
KfreeNull == ~halted /\ UNCHANGED vars

\* Does the chunk whose header is at h exist and is it free?
Joinable(h) == h # 0 /\ h \in magic /\ h \in free

\* The chunk that the released one ends up in: its free predecessor, or itself.
Merged(ptr) == IF Joinable(prev[ptr]) THEN prev[ptr] ELSE ptr

\* Mutant: the room of the header that disappears is lost.
MergedSizeLeaks(ptr) ==
    IF Joinable(prev[ptr]) THEN size[prev[ptr]] + size[ptr] ELSE size[ptr]

MergedSize(ptr) ==
    IF Joinable(prev[ptr]) THEN size[prev[ptr]] + size[ptr] + HDR ELSE size[ptr]

\* Mutants: a used successor is swallowed; the last chunk is never looked at.
SwallowsUsed(next) == next # 0 /\ next < Limit /\ next \in magic
SwallowsNotLast(next) ==
    next # 0 /\ next + size[next] < Limit /\ next \in magic /\ next \in free

Swallows(next) == next # 0 /\ next < Limit /\ next \in magic /\ next \in free

Kfree(b) ==
    /\ ~halted
    /\ b \in live
    /\ LET ptr == b[1] - HDR
           m == Merged(ptr)
           next == Plus(m, MergedSize(ptr) + HDR)
           gone == (IF m # ptr THEN {ptr} ELSE {})
                     \cup (IF Swallows(next) THEN {next} ELSE {})
           total == MergedSize(ptr)
                      + (IF Swallows(next) THEN size[next] + HDR ELSE 0)
           after == Plus(m, total + HDR)
       IN /\ magic' = magic \ gone
          /\ size' = [a \in Addr |-> CASE a = m -> total
                                       [] a \in gone -> 0
                                       [] OTHER -> size[a]]
          /\ free' = free \cup {ptr}
          /\ prev' = [a \in Addr |->
                        CASE a \in gone -> 0
                          [] a = after /\ a # 0 /\ a < Limit /\ a \in magic -> m
                          [] OTHER -> prev[a]]
    /\ live' = live \ {b}
    /\ UNCHANGED <<ret, halted>>

Next == \/ \E n \in SIZES : KmallocRefused(n)
        \/ \E n \in SIZES : \E a \in magic : Kmalloc(n, a)
        \/ \E n \in SIZES : \E last \in magic : KmallocExhausted(n, last)
        \/ KfreeNull
        \/ \E b \in live : Kfree(b)

Spec == Init /\ [][Next]_vars

(***************************************************************************)
(* Properties                                                              *)
(***************************************************************************)
\* Every variable keeps its type (mem.c globals and the kmem_header fields).
TypeOK ==
    /\ magic \subseteq Addr
    /\ free \subseteq Addr
    /\ size \in [Addr -> 0 .. HLIM]
    /\ prev \in [Addr -> Addr]
    /\ live \subseteq Addr \X SIZES
    /\ ret \in Addr
    /\ halted \in BOOLEAN

\* The chunks tile the heap: the first starts at kernel_heap, each ends where
\* another starts or at the top of the address space, and none overlap.  The
\* scan of kmalloc and both merges of kfree find headers only through this.
Tiling ==
    /\ HEAP \in magic
    /\ \A a \in magic : /\ HEAP <= a
                        /\ size[a] > 0
                        /\ a + size[a] + HDR <= AddrSpace
                        /\ Following(a) \in magic \cup {0}
    /\ \A a, b \in magic : a < b => a + size[a] + HDR <= b

\* prev names the chunk just below: kfree merges backwards through it.
PrevLinks ==
    /\ prev[HEAP] = 0
    /\ \A a \in magic \ {HEAP} : /\ prev[a] \in magic
                                 /\ Following(prev[a]) = a

\* The list of chunks is whole in both directions, after any calls.
ChunksLinked == Tiling /\ PrevLinks

\* The merge idea of mem.h: after every call, no two neighbours are free.
Coalesced ==
    \A a \in magic : Following(a) # 0 => ~(a \in free /\ Following(a) \in free)

\* The used chunks are exactly the blocks the callers hold, each at least as
\* long as it was asked for: no block is lost, shared or reused while held.
UsedChunksAreLive ==
    /\ \A b \in live : /\ b[1] - HDR \in magic
                       /\ b[1] - HDR \notin free
                       /\ 0 < b[2] /\ b[2] <= size[b[1] - HDR]
    /\ \A a \in magic : a \notin free => \E b \in live : b[1] = a + HDR
    /\ \A b, c \in live : b[1] = c[1] => b = c

\* When everything has been released, the heap is again what mem_init made.
WholeAgain ==
    live = {} => /\ magic = {HEAP}
                 /\ size[HEAP] = HLIM
                 /\ HEAP \in free

\* kmalloc and kfree keep the promise of HeapContract.
Contract == INSTANCE HeapContract WITH Lo <- HEAP + HDR, Hi <- AddrSpace

ImplementsContract == Contract!Spec

\* A call may carve, merge and relink the chunks around a block in use, but
\* never moves it or shortens the room it has.
HeldBlocksKeepTheirRoom ==
    [][\A b \in live \cap live' : size'[b[1] - HDR] = size[b[1] - HDR]]_vars

\* mem.c:50 "Если кончилась память" (if memory has run out): the code after the
\* comment returns a null pointer, so exhaustion should never stop the machine.
ExhaustionIsReported == ~halted
=============================================================================
