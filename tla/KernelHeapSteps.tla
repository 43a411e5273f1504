-------------------------- MODULE KernelHeapSteps --------------------------
(***************************************************************************)
(* kmalloc and kfree of src/mm/mem.c statement by statement, called by     *)
(* the tasks of one CPU.  The timer may take the CPU from a task between   *)
(* any two statements, and neither function takes a lock or disables       *)
(* interrupts, so the statements of different tasks interleave freely.     *)
(* Variables and helpers of KernelHeap are reused; each task adds its      *)
(* locals and its place in the code.                                       *)
(***************************************************************************)
EXTENDS KernelHeap

CONSTANT TASKS

VARIABLES pc,      \* pc[t]: the statement t executes next
          req,     \* req[t]: the argument size of kmalloc
          head     \* head[t]: head of kmalloc, ptr of kfree

locals == <<pc, req, head>>
stepVars == <<vars, locals>>

StepInit ==
    /\ Init
    /\ pc = [t \in TASKS |-> "idle"]
    /\ req = [t \in TASKS |-> 0]
    /\ head = [t \in TASKS |-> 0]

At(t, label) == ~halted /\ pc[t] = label
Goto(t, label) == pc' = [pc EXCEPT ![t] = label]

(***************************************************************************)
(* kmalloc                                                                 *)
(***************************************************************************)
CallKmalloc(t, n) ==
    /\ At(t, "idle")
    /\ IF BadRequest(n)
       THEN ret' = 0 /\ UNCHANGED locals
       ELSE /\ req' = [req EXCEPT ![t] = n]
            /\ head' = [head EXCEPT ![t] = HEAP]
            /\ Goto(t, "scan")
            /\ UNCHANGED ret
    /\ UNCHANGED <<heapVars, live, halted>>

\* Mutant: the scan forgets the header when it steps to the next chunk.
ScanOnShort(t) ==
    /\ At(t, "scan")
    /\ HEAP <= head[t] /\ head[t] < Limit
    /\ Unfit(head[t], req[t])
    /\ head' = [head EXCEPT ![t] = Plus(@, size[@])]
    /\ UNCHANGED <<vars, pc, req>>

\* One evaluation of the loop condition that lets the scan go on.
ScanOn(t) ==
    /\ At(t, "scan")
    /\ HEAP <= head[t] /\ head[t] < Limit
    /\ Unfit(head[t], req[t])
    /\ head' = [head EXCEPT ![t] = Following(head[t])]
    /\ UNCHANGED <<vars, pc, req>>

\* The scan has left the heap: at or above the limit kmalloc returns null; a
\* header below the heap is not mapped and _page_fault stops the CPU.
ScanLeaves(t) ==
    /\ At(t, "scan")
    /\ head[t] < HEAP \/ Limit <= head[t]
    /\ IF Limit <= head[t]
       THEN ret' = 0 /\ Goto(t, "idle") /\ UNCHANGED halted
       ELSE halted' = TRUE /\ UNCHANGED <<ret, pc>>
    /\ UNCHANGED <<heapVars, live, req, head>>

ScanEnds(t) ==
    /\ At(t, "scan")
    /\ HEAP <= head[t] /\ head[t] < Limit
    /\ ~Unfit(head[t], req[t])
    /\ Goto(t, "carve")
    /\ UNCHANGED <<vars, req, head>>

NewHeader(t) == head[t] + req[t] + HDR

Carve(t) ==
    /\ At(t, "carve")
    /\ IF Splits(head[t], req[t])
       THEN LET next == NewHeader(t)
            IN /\ size' = [size EXCEPT ![next] = size[head[t]] - req[t] - HDR]
               /\ free' = free \cup {next}
               /\ magic' = magic \cup {next}
               /\ prev' = [prev EXCEPT ![next] = head[t]]
               /\ Goto(t, "relink")
       ELSE Goto(t, "take") /\ UNCHANGED heapVars
    /\ UNCHANGED <<live, ret, halted, req, head>>

\* Mutant: the old successor is looked up after the chunk has been shortened.
RelinkLate(t) ==
    /\ At(t, "relink")
    /\ prev' = IF head[t] + req[t] < Limit
               THEN [prev EXCEPT ![NewHeader(t)] = NewHeader(t)]
               ELSE prev
    /\ Goto(t, "shrink")
    /\ UNCHANGED <<magic, free, size, live, ret, halted, req, head>>

Relink(t) ==
    /\ At(t, "relink")
    /\ prev' = IF head[t] + size[head[t]] < Limit
               THEN [prev EXCEPT ![Following(head[t])] = NewHeader(t)]
               ELSE prev
    /\ Goto(t, "shrink")
    /\ UNCHANGED <<magic, free, size, live, ret, halted, req, head>>

Shrink(t) ==
    /\ At(t, "shrink")
    /\ size' = [size EXCEPT ![head[t]] = req[t]]
    /\ Goto(t, "take")
    /\ UNCHANGED <<magic, free, prev, live, ret, halted, req, head>>

Take(t) ==
    /\ At(t, "take")
    /\ free' = free \ {head[t]}
    /\ live' = live \cup {<<head[t] + HDR, req[t]>>}
    /\ ret' = head[t] + HDR
    /\ Goto(t, "idle")
    /\ UNCHANGED <<magic, size, prev, halted, req, head>>

(***************************************************************************)
(* kfree; the caller gives the block up when it makes the call.            *)
(***************************************************************************)
CallKfree(t, b) ==
    /\ At(t, "idle")
    /\ live' = live \ {b}
    /\ head' = [head EXCEPT ![t] = b[1] - HDR]
    /\ Goto(t, "release")
    /\ UNCHANGED <<heapVars, ret, halted, req>>

MarkFree(t) ==
    /\ At(t, "release")
    /\ free' = free \cup {head[t]}
    /\ Goto(t, "joinPrev")
    /\ UNCHANGED <<magic, size, prev, live, ret, halted, req, head>>

JoinPrev(t) ==
    /\ At(t, "joinPrev")
    /\ LET ptr == head[t]
           p == prev[ptr]
       IN IF Joinable(p)
          THEN /\ size' = [size EXCEPT ![p] = size[p] + size[ptr] + HDR, ![ptr] = 0]
               /\ magic' = magic \ {ptr}
               /\ prev' = [prev EXCEPT ![ptr] = 0]
               /\ head' = [head EXCEPT ![t] = p]
          ELSE UNCHANGED <<size, magic, prev, head>>
    /\ Goto(t, "joinNext")
    /\ UNCHANGED <<free, live, ret, halted, req>>

JoinNext(t) ==
    /\ At(t, "joinNext")
    /\ LET ptr == head[t]
           next == Following(ptr)
       IN IF Swallows(next)
          THEN /\ size' = [size EXCEPT ![ptr] = size[ptr] + size[next] + HDR,
                                       ![next] = 0]
               /\ magic' = magic \ {next}
               /\ prev' = [prev EXCEPT ![next] = 0]
          ELSE UNCHANGED <<size, magic, prev>>
    /\ Goto(t, "backLink")
    /\ UNCHANGED <<free, live, ret, halted, req, head>>

BackLink(t) ==
    /\ At(t, "backLink")
    /\ LET next == Following(head[t])
       IN prev' = IF next # 0 /\ next < Limit /\ next \in magic
                  THEN [prev EXCEPT ![next] = head[t]]
                  ELSE prev
    /\ Goto(t, "idle")
    /\ UNCHANGED <<magic, free, size, live, ret, halted, req, head>>

Step(t) ==
    \/ ScanOn(t) \/ ScanLeaves(t) \/ ScanEnds(t)
    \/ Carve(t) \/ Relink(t) \/ Shrink(t) \/ Take(t)
    \/ MarkFree(t) \/ JoinPrev(t) \/ JoinNext(t) \/ BackLink(t)

StepNext == \E t \in TASKS :
    \/ \E n \in SIZES : CallKmalloc(t, n)
    \/ \E b \in live : CallKfree(t, b)
    \/ Step(t)

\* A task that is inside a call goes on: the timer gives it the CPU again.
StepSpec == StepInit /\ [][StepNext]_stepVars /\ \A t \in TASKS : WF_stepVars(Step(t))

(***************************************************************************)
(* Properties                                                              *)
(***************************************************************************)
\* The statements of one call in a row rebuild every invariant of the atomic
\* calls: chunks tile the heap, links, coalescing and ownership are right.
HeapAtRest ==
    (~halted /\ \A t \in TASKS : pc[t] = "idle")
        => ChunksLinked /\ Coalesced /\ UsedChunksAreLive /\ WholeAgain

\* Every kmalloc and kfree comes back, unless the scan ran off the heap.
CallsReturn == \A t \in TASKS : pc[t] # "idle" ~> (pc[t] = "idle" \/ halted)

\* mem.h:12-14 "берем первый свободный кусочек, отрезаем от него столько,
\* сколько нужно, и возвращаем" (we take the first free piece, cut off as much
\* as needed and return it): a piece is returned while it is free, so no two
\* blocks in use meet.
BlocksApart == \A b, c \in live : b # c => Contract!Apart(b, c)
=============================================================================
