-------------------------- MODULE KernelHeap_proofs --------------------------
(***************************************************************************)
(* Proofs about KernelHeap and, for one task, KernelHeapSteps, for every   *)
(* heap size, header size and set of request lengths.                      *)
(*                                                                         *)
(* The inductive invariant is LinInv, the conjunction of the checked       *)
(* invariants with the wrapping address arithmetic replaced by plain sums: *)
(* below the top of the address space the two agree, and sums are what     *)
(* the provers handle.  No conjunct is inductive alone: kfree finds its    *)
(* neighbours through PrevLinks and Tiling, and leaves a tiling only       *)
(* because Coalesced bounds how many chunks it has to join.                *)
(***************************************************************************)
EXTENDS KernelHeapSteps, TLAPS

End(a) == a + size[a] + HDR

LTiling ==
    /\ HEAP \in magic
    /\ \A a \in magic : /\ HEAP <= a
                        /\ size[a] > 0
                        /\ End(a) <= AddrSpace
                        /\ End(a) = AddrSpace \/ End(a) \in magic
    /\ \A a, b \in magic : a < b => End(a) <= b

LPrev ==
    /\ prev[HEAP] = 0
    /\ \A a \in magic \ {HEAP} : prev[a] \in magic /\ End(prev[a]) = a

LCoalesced == \A a \in magic \ {HEAP} : ~(a \in free /\ prev[a] \in free)

LinInv == TypeOK /\ LTiling /\ LPrev /\ LCoalesced /\ UsedChunksAreLive

\* The constants are natural numbers.
LEMMA Consts ==
    /\ HEAP \in Nat /\ HEAP > 0
    /\ HLIM \in Nat /\ HLIM > 0
    /\ HDR \in Nat /\ HDR > 0
    /\ AddrSpace \in Nat /\ AddrSpace = HEAP + HLIM + HDR
    /\ Limit \in Nat /\ Limit = HEAP + HLIM
    /\ \A a : a \in Addr <=> a \in Nat /\ a < AddrSpace
  BY HeapAssumption DEF HeapAssumption, AddrSpace, Limit, Addr

\* An address computation that does not pass the top wraps only at the top.
LEMMA PlusInRange ==
    ASSUME NEW a \in Nat, NEW b \in Nat, a + b <= AddrSpace
    PROVE  Plus(a, b) = IF a + b = AddrSpace THEN 0 ELSE a + b
  BY Consts DEF Plus

\* What the type invariant says of one chunk, in terms the provers can add up.
LEMMA ChunkTypes ==
    ASSUME TypeOK
    PROVE  /\ \A a \in magic : a \in Addr /\ a \in Nat /\ a < AddrSpace
           /\ \A a \in Addr : size[a] \in Nat /\ prev[a] \in Addr
           /\ \A a \in magic : size[a] \in Nat /\ End(a) \in Nat
  <1>1. \A a \in magic : a \in Addr /\ a \in Nat /\ a < AddrSpace
    BY Consts DEF TypeOK
  <1>2. \A a \in Addr : size[a] \in 0 .. HLIM /\ prev[a] \in Addr
    BY DEF TypeOK
  <1>3. \A a \in Addr : size[a] \in Nat
    BY <1>2, Consts
  <1> QED BY <1>1, <1>2, <1>3, Consts DEF End

\* On a chunk, the wrapping successor is the plain sum, or 0 at the top.
LEMMA FollowingOfChunk ==
    ASSUME TypeOK, NEW a \in magic, HEAP <= a, End(a) <= AddrSpace
    PROVE  Following(a) = IF End(a) = AddrSpace THEN 0 ELSE End(a)
  BY Consts, ChunkTypes DEF Following, Plus, End

\* The back link of the chunk that follows a leads to a: two chunks that end
\* at the same address are one chunk.
LEMMA PrevOfEnd ==
    ASSUME TypeOK, LTiling, LPrev, NEW a \in magic, End(a) \in magic
    PROVE  End(a) # HEAP /\ prev[End(a)] = a
  <1>1. a < End(a) /\ HEAP <= a /\ a \in Nat
    BY ChunkTypes, Consts DEF LTiling, End
  <1>2. End(a) # HEAP
    BY <1>1, Consts
  <1>3. PICK q \in magic : q = prev[End(a)] /\ End(q) = End(a)
    BY <1>2 DEF LPrev
  <1>4. q \in Nat /\ q < End(q)
    BY ChunkTypes, Consts DEF LTiling, End
  <1>5. ~(q < a) /\ ~(a < q)
    BY <1>1, <1>3, <1>4, ChunkTypes DEF LTiling
  <1> QED BY <1>1, <1>2, <1>3, <1>4, <1>5

\* The plain form of the invariant implies the checked invariants.
LEMMA LinInvImplies ==
    LinInv => ChunksLinked /\ Coalesced /\ UsedChunksAreLive
  <1> SUFFICES ASSUME LinInv PROVE ChunksLinked /\ Coalesced
    BY DEF LinInv
  <1>0. TypeOK /\ LTiling /\ LPrev /\ LCoalesced
    BY DEF LinInv
  <1>1. \A a \in magic :
           Following(a) = IF End(a) = AddrSpace THEN 0 ELSE End(a)
    BY <1>0, FollowingOfChunk DEF LTiling
  <1>2. Tiling
    BY <1>0, <1>1 DEF LTiling, Tiling, End
  <1>3. PrevLinks
    <2> SUFFICES ASSUME NEW a \in magic \ {HEAP}
                 PROVE  prev[a] \in magic /\ Following(prev[a]) = a
      BY <1>0 DEF PrevLinks, LPrev
    <2>1. prev[a] \in magic /\ End(prev[a]) = a /\ a \in Nat /\ a < AddrSpace
      BY <1>0, ChunkTypes DEF LPrev
    <2>2. Following(prev[a]) = IF End(prev[a]) = AddrSpace THEN 0 ELSE End(prev[a])
      BY <2>1, <1>1
    <2> QED BY <2>1, <2>2, Consts
  <1>4. Coalesced
    <2> SUFFICES ASSUME NEW a \in magic, Following(a) # 0,
                        a \in free, Following(a) \in free
                 PROVE  FALSE
      BY DEF Coalesced
    <2>1. Following(a) = End(a) /\ End(a) \in magic
      BY <1>0, <1>1 DEF LTiling
    <2>2. End(a) # HEAP /\ prev[End(a)] = a
      BY <1>0, <2>1, PrevOfEnd
    <2> QED BY <1>0, <2>1, <2>2 DEF LCoalesced
  <1> QED BY <1>2, <1>3, <1>4 DEF ChunksLinked

\* mem_init establishes the invariant.
LEMMA InitLinInv == Init => LinInv
  <1> SUFFICES ASSUME Init PROVE LinInv
    OBVIOUS
  <1>1. TypeOK
    <2>1. HEAP \in Addr /\ 0 \in Addr /\ HLIM \in 0 .. HLIM /\ 0 \in 0 .. HLIM
      BY Consts
    <2> QED BY <2>1 DEF Init, TypeOK
  <1>2. magic = {HEAP} /\ size[HEAP] = HLIM /\ prev[HEAP] = 0 /\ HEAP \in free
    BY Consts DEF Init
  <1>3. LTiling /\ LPrev /\ LCoalesced
    BY <1>2, Consts DEF LTiling, LPrev, LCoalesced, End
  <1>4. UsedChunksAreLive
    BY <1>2, Consts DEF UsedChunksAreLive, Init
  <1> QED BY <1>1, <1>3, <1>4 DEF LinInv

\* Taking a chunk whole only clears its free bit and hands it to the caller.
LEMMA TakeWholeStep ==
    ASSUME LinInv, NEW n \in SIZES, NEW a \in magic,
           Kmalloc(n, a), TakeWhole(a, n)
    PROVE  LinInv'
  <1>0. TypeOK /\ LTiling /\ LPrev /\ LCoalesced /\ UsedChunksAreLive
    BY DEF LinInv
  <1>1. /\ magic' = magic /\ size' = size /\ prev' = prev
        /\ free' = free \ {a}
        /\ live' = live \cup {<<a + HDR, n>>} /\ ret' = a + HDR
        /\ halted' = halted
        /\ a \in free /\ n \in Nat /\ n > 0 /\ n <= size[a]
    BY ChunkTypes, <1>0, HeapAssumption
       DEF Kmalloc, TakeWhole, FirstFit, Unfit, BadRequest, HeapAssumption
  <1>2. a \in Nat /\ a + HDR \in Addr
    BY <1>0, ChunkTypes, Consts DEF LTiling, End
  <1>3. TypeOK'
    BY <1>0, <1>1, <1>2 DEF TypeOK, Addr, AddrSpace
  <1>4. LTiling' /\ LPrev' /\ LCoalesced'
    BY <1>0, <1>1 DEF LTiling, LPrev, LCoalesced, End, AddrSpace
  <1>5. UsedChunksAreLive'
    <2> DEFINE nb == <<a + HDR, n>>
    <2>1. nb[1] - HDR = a /\ nb[2] = n
      BY <1>2, Consts
    <2>8. nb \in live' /\ nb[1] = a + HDR
      BY <1>1
    <2>2. \A b \in live : b[1] - HDR # a
      BY <1>0, <1>1 DEF UsedChunksAreLive
    <2>3. \A b \in live : b[1] # nb[1]
      BY <2>1, <2>2
    <2>4. \A b \in live' : b \in live \/ b = nb
      BY <1>1
    <2>5. \A b \in live' : /\ b[1] - HDR \in magic'
                           /\ b[1] - HDR \notin free'
                           /\ 0 < b[2] /\ b[2] <= size'[b[1] - HDR]
      BY <2>1, <2>4, <1>0, <1>1 DEF UsedChunksAreLive
    <2>6. \A c \in magic' : c \notin free' => \E b \in live' : b[1] = c + HDR
      <3> SUFFICES ASSUME NEW c \in magic, c \notin free'
                   PROVE  \E b \in live' : b[1] = c + HDR
        BY <1>1
      <3>1. CASE c = a
        BY <3>1, <2>8
      <3>2. CASE c # a
        BY <3>2, <1>0, <1>1 DEF UsedChunksAreLive
      <3> QED BY <3>1, <3>2
    <2>7. \A b, c \in live' : b[1] = c[1] => b = c
      BY <2>3, <2>4, <1>0 DEF UsedChunksAreLive
    <2> QED BY <2>5, <2>6, <2>7 DEF UsedChunksAreLive
  <1> QED BY <1>3, <1>4, <1>5 DEF LinInv

\* Splitting puts a free chunk between the block and what followed it.
LEMMA TakeSplitStep ==
    ASSUME LinInv, NEW n \in SIZES, NEW a \in magic,
           Kmalloc(n, a), TakeSplit(a, n)
    PROVE  LinInv'
  <1>0. TypeOK /\ LTiling /\ LPrev /\ LCoalesced /\ UsedChunksAreLive
    BY DEF LinInv
  <1> DEFINE x == a + n + HDR
             e == End(a)
  <1>1. /\ a \in free /\ n \in Nat /\ n > 0 /\ size[a] > n + HDR
        /\ live' = live \cup {<<a + HDR, n>>} /\ ret' = a + HDR
        /\ halted' = halted
    BY ChunkTypes, <1>0, HeapAssumption
       DEF Kmalloc, TakeSplit, Splits, FirstFit, Unfit, BadRequest, HeapAssumption
  <1>2. /\ a \in Nat /\ a \in Addr /\ HEAP <= a /\ size[a] \in Nat
        /\ e = a + size[a] + HDR /\ e \in Nat /\ e <= AddrSpace
        /\ e = AddrSpace \/ e \in magic
    BY <1>0, ChunkTypes, Consts DEF LTiling, End
  <1>3. x \in Nat /\ a < x /\ x < e /\ x \in Addr /\ a + HDR \in Addr
    BY <1>1, <1>2, Consts
  <1>4. x \notin magic /\ x # HEAP
    BY <1>0, <1>2, <1>3, Consts DEF LTiling
  <1>5. Following(a) = IF e = AddrSpace THEN 0 ELSE e
    BY <1>0, <1>2, FollowingOfChunk
  <1>6. a + size[a] < Limit <=> e # AddrSpace
    BY <1>2, Consts
  <1>7. /\ magic' = magic \cup {x}
        /\ free' = (free \cup {x}) \ {a}
        /\ size' = [size EXCEPT ![x] = size[a] - n - HDR, ![a] = n]
        /\ prev' = IF e # AddrSpace THEN [prev EXCEPT ![x] = a, ![e] = x]
                                    ELSE [prev EXCEPT ![x] = a]
    BY <1>5, <1>6 DEF TakeSplit
  <1>8. /\ size'[a] = n /\ size'[x] = size[a] - n - HDR
        /\ \A c \in Addr : c # a /\ c # x => size'[c] = size[c]
    BY <1>0, <1>2, <1>3, <1>7 DEF TypeOK
  <1>9. /\ prev'[x] = a
        /\ e \in magic => prev'[e] = x
        /\ \A c \in Addr : c # x /\ c # e => prev'[c] = prev[c]
    BY <1>0, <1>2, <1>3, <1>7, ChunkTypes DEF TypeOK
  <1>10. TypeOK'
    <2>1. size[a] - n - HDR \in 0 .. HLIM /\ n \in 0 .. HLIM
      BY <1>1, <1>2, Consts
    <2>2. size' \in [Addr -> 0 .. HLIM]
      BY <2>1, <1>0, <1>7 DEF TypeOK
    <2>3. prev' \in [Addr -> Addr]
      BY <1>0, <1>2, <1>3, <1>7 DEF TypeOK
    <2>4. magic' \subseteq Addr /\ free' \subseteq Addr
      BY <1>0, <1>3, <1>7 DEF TypeOK
    <2>5. live' \subseteq Addr \X SIZES /\ ret' \in Addr /\ halted' \in BOOLEAN
      BY <1>0, <1>1, <1>3 DEF TypeOK
    <2> QED BY <2>2, <2>3, <2>4, <2>5 DEF TypeOK, Addr, AddrSpace
  <1>11. /\ End(a)' = x /\ End(x)' = e
         /\ \A c \in magic : c # a => End(c)' = End(c)
    <2>1. End(a)' = x
      BY <1>1, <1>2, <1>8, Consts DEF End
    <2>2. End(x)' = e
      BY <1>1, <1>2, <1>3, <1>8, Consts DEF End
    <2>3. \A c \in magic : c # a => size'[c] = size[c]
      BY <1>0, <1>4, <1>8, ChunkTypes
    <2> QED BY <2>1, <2>2, <2>3 DEF End
  <1>12. LTiling'
    <2>1. \A c \in magic' : /\ HEAP <= c
                            /\ size'[c] > 0
                            /\ End(c)' <= AddrSpace
                            /\ End(c)' = AddrSpace \/ End(c)' \in magic'
      <3> SUFFICES ASSUME NEW c \in magic'
                   PROVE  /\ HEAP <= c
                          /\ size'[c] > 0
                          /\ End(c)' <= AddrSpace
                          /\ End(c)' = AddrSpace \/ End(c)' \in magic'
        OBVIOUS
      <3>1. CASE c = a
        BY <3>1, <1>1, <1>2, <1>3, <1>7, <1>8, <1>11, Consts
      <3>2. CASE c = x
        BY <3>2, <1>1, <1>2, <1>3, <1>7, <1>8, <1>11, Consts
      <3>3. CASE c \in magic /\ c # a
        BY <3>3, <1>0, <1>4, <1>7, <1>8, <1>11, ChunkTypes DEF LTiling
      <3> QED BY <3>1, <3>2, <3>3, <1>7
    <2>2. \A c, d \in magic' : c < d => End(c)' <= d
      <3> SUFFICES ASSUME NEW c \in magic', NEW d \in magic', c < d
                   PROVE  End(c)' <= d
        OBVIOUS
      <3>1. CASE c = a /\ d = x
        BY <3>1, <1>3, <1>11
      <3>2. CASE c = a /\ d \in magic
        <4>1. e <= d
          BY <3>2, <1>0 DEF LTiling
        <4>2. d \in Nat
          BY <3>2, <1>0, ChunkTypes
        <4>3. x <= d
          BY <4>1, <4>2, <1>2, <1>3
        <4> QED BY <4>3, <3>2, <1>11
      <3>3. CASE c = x /\ d \in magic
        BY <3>3, <1>0, <1>2, <1>3, <1>11, ChunkTypes DEF LTiling
      <3>4. CASE c \in magic /\ c # a /\ d = x
        <4>1. c < a
          BY <3>4, <1>0, <1>2, <1>3, ChunkTypes DEF LTiling
        <4> QED BY <4>1, <3>4, <1>0, <1>2, <1>3, <1>11, ChunkTypes DEF LTiling
      <3>5. CASE c \in magic /\ c # a /\ d \in magic
        BY <3>5, <1>0, <1>11 DEF LTiling
      <3>6. CASE c = x /\ d = x
        BY <3>6, <1>3
      <3> QED BY <3>1, <3>2, <3>3, <3>4, <3>5, <3>6, <1>7
    <2>3. HEAP \in magic'
      BY <1>0, <1>7 DEF LTiling
    <2> QED BY <2>1, <2>2, <2>3 DEF LTiling, AddrSpace
  <1>13. \A c \in magic : c = e => c # HEAP /\ prev[c] = a
    BY <1>0, PrevOfEnd
  <1>14. LPrev'
    <2>1. prev'[HEAP] = 0
      BY <1>0, <1>2, <1>4, <1>9, <1>13, Consts DEF LPrev, LTiling
    <2> SUFFICES ASSUME NEW c \in magic' \ {HEAP}
                 PROVE  /\ prev'[c] \in magic'
                        /\ prev'[c] + size'[prev'[c]] + HDR = c
      BY <2>1 DEF LPrev, End
    <2>2. CASE c = x
      <3>1. prev'[c] = a /\ a \in magic' /\ a + size'[a] + HDR = x
        BY <2>2, <1>7, <1>9, <1>11 DEF End
      <3> QED BY <3>1, <2>2
    <2>3. CASE c \in magic /\ c = e
      <3>1. prev'[c] = x /\ x \in magic' /\ x + size'[x] + HDR = e
        BY <2>3, <1>7, <1>9, <1>11 DEF End
      <3> QED BY <3>1, <2>3
    <2>4. CASE c \in magic /\ c # e
      <3>1. prev'[c] = prev[c] /\ prev[c] \in magic /\ End(prev[c]) = c
        BY <2>4, <1>0, <1>4, <1>9, ChunkTypes DEF LPrev
      <3>2. prev[c] # a
        BY <3>1, <2>4
      <3>3. prev[c] + size'[prev[c]] + HDR = c
        BY <3>1, <3>2, <1>11 DEF End
      <3> QED BY <3>1, <3>3, <1>7
    <2> QED BY <2>2, <2>3, <2>4, <1>7
  <1>15. LCoalesced'
    <2> SUFFICES ASSUME NEW c \in magic' \ {HEAP}
                 PROVE  ~(c \in free' /\ prev'[c] \in free')
      BY DEF LCoalesced
    <2>1. CASE c = x
      BY <2>1, <1>7, <1>9
    <2>2. CASE c \in magic /\ c = e
      <3>1. c \notin free
        BY <2>2, <1>0, <1>1, <1>13 DEF LCoalesced
      <3> QED BY <3>1, <2>2, <1>3, <1>7
    <2>3. CASE c \in magic /\ c # e
      <3>1. prev'[c] = prev[c] /\ prev[c] \in magic
        BY <2>3, <1>0, <1>4, <1>9, ChunkTypes DEF LPrev
      <3> QED BY <3>1, <2>3, <1>0, <1>4, <1>7 DEF LCoalesced
    <2> QED BY <2>1, <2>2, <2>3, <1>7
  <1>16. UsedChunksAreLive'
    <2> DEFINE nb == <<a + HDR, n>>
    <2>1. nb[1] - HDR = a /\ nb[2] = n
      BY <1>2, Consts
    <2>8. nb \in live' /\ nb[1] = a + HDR
      BY <1>1
    <2>2. \A b \in live : b[1] - HDR \in magic /\ b[1] - HDR # a
      BY <1>0, <1>1 DEF UsedChunksAreLive
    <2>3. \A b \in live : b[1] # nb[1]
      BY <2>1, <2>2
    <2>4. \A b \in live' : b \in live \/ b = nb
      BY <1>1
    <2>5. \A b \in live' : /\ b[1] - HDR \in magic'
                           /\ b[1] - HDR \notin free'
                           /\ 0 < b[2] /\ b[2] <= size'[b[1] - HDR]
      <3> SUFFICES ASSUME NEW b \in live'
                   PROVE  /\ b[1] - HDR \in magic'
                          /\ b[1] - HDR \notin free'
                          /\ 0 < b[2] /\ b[2] <= size'[b[1] - HDR]
        OBVIOUS
      <3>1. CASE b = nb
        <4>1. b[1] - HDR = a /\ b[2] = n
          BY <3>1, <2>1
        <4>2. a \in magic' /\ a \notin free' /\ 0 < n /\ n <= size'[a]
          BY <1>1, <1>7, <1>8
        <4> QED BY <4>1, <4>2
      <3>2. CASE b \in live
        <4>1. /\ b[1] - HDR \in magic /\ b[1] - HDR # a /\ b[1] - HDR # x
              /\ b[1] - HDR \in Addr /\ b[1] - HDR \notin free
              /\ 0 < b[2] /\ b[2] <= size[b[1] - HDR]
          BY <3>2, <2>2, <1>0, <1>4, ChunkTypes DEF UsedChunksAreLive
        <4> QED BY <4>1, <1>7, <1>8
      <3> QED BY <3>1, <3>2, <2>4
    <2>6. \A c \in magic' : c \notin free' => \E b \in live' : b[1] = c + HDR
      <3> SUFFICES ASSUME NEW c \in magic', c \notin free'
                   PROVE  \E b \in live' : b[1] = c + HDR
        OBVIOUS
      <3>1. CASE c = a
        BY <3>1, <2>8
      <3>2. CASE c # a
        BY <3>2, <1>0, <1>1, <1>7 DEF UsedChunksAreLive
      <3> QED BY <3>1, <3>2
    <2>7. \A b, c \in live' : b[1] = c[1] => b = c
      BY <2>3, <2>4, <1>0 DEF UsedChunksAreLive
    <2> QED BY <2>5, <2>6, <2>7 DEF UsedChunksAreLive
  <1> QED BY <1>10, <1>12, <1>14, <1>15, <1>16 DEF LinInv

(***************************************************************************)
(* kfree joins the chunks between m (the released chunk or its free        *)
(* predecessor) and e (the end of the released chunk or of its free        *)
(* successor) into one: Joins says so without the four cases of the code.  *)
(***************************************************************************)
Joins(ptr, m, e) ==
    /\ m \in magic /\ ptr \in magic /\ m <= ptr /\ ptr < e
    /\ e \in Nat /\ e <= AddrSpace
    /\ e = AddrSpace \/ (e \in magic /\ e \notin free)
    /\ m # HEAP => prev[m] \notin free
    /\ m = ptr \/ m \in free
    /\ magic' = {a \in magic : ~(m < a /\ a < e)}
    /\ free' = free \cup {ptr}
    /\ m + size'[m] + HDR = e
    /\ \A a \in magic' : a # m => size'[a] = size[a]
    /\ \A a \in magic' : prev'[a] = IF a = e THEN m ELSE prev[a]
    /\ \A a \in magic : m < a /\ a < e => a \in free'
    /\ size' \in [Addr -> 0 .. HLIM]
    /\ prev' \in [Addr -> Addr]

\* The four cases of kfree, by whether the neighbours are free, all join.
LEMMA KfreeJoins ==
    ASSUME LinInv, NEW b \in live, Kfree(b)
    PROVE  \E m, e : Joins(b[1] - HDR, m, e)
  <1>0. TypeOK /\ LTiling /\ LPrev /\ LCoalesced /\ UsedChunksAreLive
    BY DEF LinInv
  <1> DEFINE ptr == b[1] - HDR
             m == Merged(ptr)
             ms == MergedSize(ptr)
             next == Plus(m, ms + HDR)
             gone == (IF m # ptr THEN {ptr} ELSE {})
                       \cup (IF Swallows(next) THEN {next} ELSE {})
             total == ms + (IF Swallows(next) THEN size[next] + HDR ELSE 0)
             after == Plus(m, total + HDR)
             p == prev[ptr]
             f == End(ptr)
  <1>1. /\ magic' = magic \ gone
        /\ size' = [a \in Addr |-> CASE a = m -> total
                                     [] a \in gone -> 0
                                     [] OTHER -> size[a]]
        /\ free' = free \cup {ptr}
        /\ prev' = [a \in Addr |->
                      CASE a \in gone -> 0
                        [] a = after /\ a # 0 /\ a < Limit /\ a \in magic -> m
                        [] OTHER -> prev[a]]
    BY DEF Kfree
  <1>2. ptr \in magic /\ ptr \notin free
    BY <1>0 DEF UsedChunksAreLive
  <1>3. /\ ptr \in Addr /\ ptr \in Nat /\ size[ptr] \in Nat /\ size[ptr] > 0
        /\ f \in Nat /\ f = ptr + size[ptr] + HDR /\ f <= AddrSpace
        /\ f = AddrSpace \/ (f \in magic /\ prev[f] = ptr /\ f # HEAP)
        /\ HEAP <= ptr
    BY <1>0, <1>2, ChunkTypes, Consts, PrevOfEnd DEF LTiling, End
  <1>4. /\ ptr = HEAP => p = 0
        /\ ptr # HEAP => /\ p \in magic /\ p \in Nat /\ size[p] \in Nat
                         /\ p \in Addr /\ HEAP <= p /\ p < ptr
                         /\ p + size[p] + HDR = ptr
    BY <1>0, <1>2, <1>3, ChunkTypes, Consts DEF LPrev, LTiling, End
  <1>5. 0 \notin magic
    BY <1>0, Consts DEF LTiling
  <1>6. Joinable(p) <=> ptr # HEAP /\ p \in free
    BY <1>4, <1>5, Consts DEF Joinable, LTiling
  <1>7. /\ m \in magic /\ m \in Nat /\ m \in Addr /\ HEAP <= m /\ m <= ptr
        /\ ms \in Nat /\ m + ms + HDR = f
        /\ m = ptr \/ (m \in free /\ m = p /\ ptr # HEAP /\ m < ptr)
        /\ m = ptr => ptr = HEAP \/ p \notin free
    <2>1. CASE Joinable(p)
      <3>1. m = p /\ ms = size[p] + size[ptr] + HDR
        BY <2>1 DEF Merged, MergedSize
      <3> QED BY <3>1, <2>1, <1>3, <1>4, <1>6, Consts
    <2>2. CASE ~Joinable(p)
      <3>1. m = ptr /\ ms = size[ptr]
        BY <2>2 DEF Merged, MergedSize
      <3> QED BY <3>1, <2>2, <1>2, <1>3, <1>6, Consts
    <2> QED BY <2>1, <2>2
  <1>8. m # HEAP => prev[m] \notin free
    <2>1. CASE m = ptr
      BY <2>1, <1>7
    <2>2. CASE m # ptr
      BY <2>2, <1>0, <1>7 DEF LCoalesced
    <2> QED BY <2>1, <2>2
  <1>9. next = IF f = AddrSpace THEN 0 ELSE f
    <2>1. m + (ms + HDR) = f /\ m \in Nat /\ ms + HDR \in Nat
      BY <1>7, <1>3, Consts
    <2> HIDE DEF m, ms, f
    <2> QED BY <2>1, <1>3, PlusInRange
  <1>10. Swallows(next) <=> f # AddrSpace /\ f \in free
    <2>1. f # AddrSpace => f \in magic /\ f < Limit /\ f # 0
      <3> SUFFICES ASSUME f # AddrSpace
                   PROVE  f \in magic /\ f < Limit /\ f # 0
        OBVIOUS
      <3>1. f \in magic
        BY <1>3
      <3>2. f + size[f] + HDR <= AddrSpace /\ size[f] > 0 /\ size[f] \in Nat
        BY <3>1, <1>0, ChunkTypes DEF LTiling, End
      <3> QED BY <3>1, <3>2, <1>3, Consts
    <2> QED BY <2>1, <1>9 DEF Swallows
  <1>11. PICK e : e = m + total + HDR
    OBVIOUS
  <1>12. /\ e \in Nat /\ e <= AddrSpace /\ f <= e /\ total \in Nat
         /\ e = AddrSpace \/ (e \in magic /\ e \notin free)
         /\ Swallows(next) => /\ next \in magic /\ next = f /\ f < e
                              /\ f \in free /\ End(next) = e
         /\ ~Swallows(next) => e = f
    <2>1. CASE Swallows(next)
      <3>1. next = f /\ f \in magic /\ f \in free /\ f # HEAP
        BY <2>1, <1>3, <1>9, <1>10
      <3>2. /\ size[f] \in Nat /\ size[f] > 0 /\ End(f) = f + size[f] + HDR
            /\ End(f) \in Nat /\ End(f) <= AddrSpace
            /\ End(f) = AddrSpace \/ (/\ End(f) \in magic
                                      /\ prev[End(f)] = f
                                      /\ End(f) # HEAP)
        BY <3>1, <1>0, ChunkTypes, PrevOfEnd DEF LTiling, End
      <3>3. total = ms + (size[f] + HDR)
        BY <2>1, <3>1
      <3>4. e = End(f) /\ total \in Nat
        BY <3>2, <3>3, <1>3, <1>7, <1>11, Consts
      <3>5. End(f) \in magic => End(f) \notin free
        BY <3>1, <3>2, <1>0, ChunkTypes DEF LCoalesced
      <3> QED BY <2>1, <3>1, <3>2, <3>4, <3>5, <1>3, Consts
    <2>2. CASE ~Swallows(next)
      <3>1. total = ms /\ e = f
        BY <2>2, <1>3, <1>7, <1>11, Consts
      <3> QED BY <3>1, <2>2, <1>3, <1>7, <1>10
    <2> QED BY <2>1, <2>2
  <1>13. after = IF e = AddrSpace THEN 0 ELSE e
    <2>1. m + (total + HDR) = e /\ m \in Nat /\ total + HDR \in Nat
      BY <1>7, <1>11, <1>12, Consts
    <2> HIDE DEF m, total
    <2> QED BY <2>1, <1>12, PlusInRange
  <1>14. gone = {a \in magic : m < a /\ a < e}
    <2>1. ASSUME NEW a \in gone PROVE a \in magic /\ m < a /\ a < e
      <3>1. CASE a = ptr /\ m # ptr
        BY <3>1, <1>2, <1>3, <1>7, <1>12, Consts
      <3>2. CASE a = next /\ Swallows(next)
        BY <3>2, <1>3, <1>7, <1>12, Consts
      <3> QED BY <3>1, <3>2, <2>1
    <2>2. ASSUME NEW a \in magic, m < a, a < e PROVE a \in gone
      <3>1. a \in Nat /\ End(m) <= a /\ End(m) = m + size[m] + HDR
        BY <2>2, <1>0, <1>7, ChunkTypes DEF LTiling, End
      <3>2. CASE a < f
        <4>1. m # ptr
          BY <3>1, <3>2, <1>3, <1>7
        <4>2. End(m) = ptr /\ End(ptr) = f
          BY <4>1, <1>4, <1>7, <3>1
        <4>3. a = ptr
          BY <4>2, <3>1, <3>2, <1>0, <1>2, <1>3 DEF LTiling
        <4> QED BY <4>1, <4>3
      <3>3. CASE ~(a < f)
        <4>1. Swallows(next) /\ next = f /\ f \in magic
          BY <3>1, <3>3, <2>2, <1>3, <1>12
        <4>2. ~(f < a)
          <5> SUFFICES ASSUME f < a PROVE FALSE
            OBVIOUS
          <5>1. End(f) <= a
            BY <4>1, <1>0 DEF LTiling
          <5> QED BY <5>1, <4>1, <3>1, <2>2, <1>12
        <4>3. a = f
          BY <4>2, <3>1, <3>3, <1>3
        <4> QED BY <4>1, <4>3
      <3> QED BY <3>2, <3>3
    <2> QED BY <2>1, <2>2
  <1> HIDE DEF m, ms, next, gone, total, after, ptr, f, p
  <1>15. magic' = {a \in magic : ~(m < a /\ a < e)}
    BY <1>1, <1>14
  <1>16. size'[m] = total /\ \A a \in magic' : a # m => size'[a] = size[a]
    <2>1. m \in Addr /\ \A a \in magic' : a \in Addr /\ a \notin gone
      BY <1>0, <1>1, <1>7, ChunkTypes
    <2>2. m \notin gone
      BY <1>7, <1>14
    <2>3. size'[m] = total
      BY <2>1, <2>2, <1>1
    <2>4. \A a \in magic' : a # m => size'[a] = size[a]
      BY <2>1, <1>1
    <2> QED BY <2>3, <2>4
  <1>17. \A a \in magic' : prev'[a] = IF a = e THEN m ELSE prev[a]
    <2> SUFFICES ASSUME NEW a \in magic'
                 PROVE  prev'[a] = IF a = e THEN m ELSE prev[a]
      OBVIOUS
    <2>1. a \in Addr /\ a \notin gone /\ a \in magic /\ a # AddrSpace
      BY <1>0, <1>1, ChunkTypes, Consts
    <2>2. CASE a = e
      <3>1. a = after /\ a # 0
        BY <2>1, <2>2, <1>5, <1>13
      <3>2. a < Limit
        <4>1. End(a) <= AddrSpace /\ size[a] > 0 /\ size[a] \in Nat /\ a \in Nat
          BY <2>1, <1>0, ChunkTypes DEF LTiling
        <4> QED BY <4>1, Consts DEF End
      <3> QED BY <2>1, <2>2, <3>1, <3>2, <1>1
    <2>3. CASE a # e
      <3>1. a # after
        BY <2>1, <2>3, <1>5, <1>13
      <3> QED BY <2>1, <2>3, <3>1, <1>1
    <2> QED BY <2>2, <2>3
  <1>18. \A a \in magic : m < a /\ a < e => a \in free'
    <2> SUFFICES ASSUME NEW a \in gone PROVE a \in free'
      BY <1>14
    <2> QED BY <1>1, <1>12 DEF gone
  <1>19. size' \in [Addr -> 0 .. HLIM]
    <2>1. total \in 0 .. HLIM /\ 0 \in 0 .. HLIM
      BY <1>7, <1>11, <1>12, Consts
    <2>2. \A a \in Addr : size[a] \in 0 .. HLIM
      BY <1>0 DEF TypeOK
    <2> QED BY <2>1, <2>2, <1>1
  <1>20. prev' \in [Addr -> Addr]
    <2>1. m \in Addr /\ 0 \in Addr
      BY <1>7, Consts
    <2>2. \A a \in Addr : prev[a] \in Addr
      BY <1>0 DEF TypeOK
    <2> QED BY <2>1, <2>2, <1>1
  <1>21. m + size'[m] + HDR = e
    BY <1>11, <1>16
  <1>22. ptr < e
    BY <1>3, <1>12, Consts
  <1>23. Joins(ptr, m, e)
    BY <1>1, <1>2, <1>7, <1>8, <1>12, <1>15, <1>16, <1>17, <1>18, <1>19, <1>20,
       <1>21, <1>22
       DEF Joins
  <1> QED BY <1>23 DEF ptr

\* Joining the chunks from m to e keeps the invariant.
LEMMA KfreeStep ==
    ASSUME LinInv, NEW b \in live, Kfree(b)
    PROVE  LinInv'
  <1>0. TypeOK /\ LTiling /\ LPrev /\ LCoalesced /\ UsedChunksAreLive
    BY DEF LinInv
  <1> DEFINE ptr == b[1] - HDR
  <1>1. PICK m, e : Joins(ptr, m, e)
    BY KfreeJoins
  <1>2. live' = live \ {b} /\ ret' = ret /\ halted' = halted
    BY DEF Kfree
  <1> HIDE DEF ptr
  <1>3. /\ m \in magic /\ m \in Nat /\ m \in Addr /\ HEAP <= m
        /\ ptr \in magic /\ ptr \in Nat /\ m <= ptr
        /\ e \in Nat /\ e <= AddrSpace /\ m < e /\ ptr < e
        /\ e = AddrSpace \/ (e \in magic /\ e \notin free /\ e # HEAP)
    BY <1>0, <1>1, ChunkTypes, Consts DEF Joins, LTiling
  <1>4. /\ magic' \subseteq magic /\ m \in magic' /\ HEAP \in magic'
        /\ e \in magic => e \in magic'
        /\ \A a \in magic : a \in magic' \/ (m < a /\ a < e)
        /\ \A a \in magic' : a <= m \/ e <= a
    <2>1. \A a \in magic : a \in Nat
      BY <1>0, ChunkTypes
    <2>2. magic' = {a \in magic : ~(m < a /\ a < e)}
      BY <1>1 DEF Joins
    <2> QED BY <1>0, <1>3, <2>1, <2>2, Consts DEF LTiling
  <1>5. End(m)' = e /\ \A a \in magic' : a # m => End(a)' = End(a)
    BY <1>1 DEF Joins, End
  <1>6. TypeOK'
    <2>1. magic' \subseteq Addr /\ free' \subseteq Addr
      BY <1>0, <1>1, <1>3, <1>4, ChunkTypes DEF Joins, TypeOK
    <2>2. size' \in [Addr -> 0 .. HLIM] /\ prev' \in [Addr -> Addr]
      BY <1>1 DEF Joins
    <2> QED BY <1>0, <1>2, <2>1, <2>2 DEF TypeOK, Addr, AddrSpace
  <1>7. End(m) <= e /\ End(m) \in Nat
    BY <1>0, <1>3, ChunkTypes DEF LTiling
  <1>8. LTiling'
    <2>1. ASSUME NEW a \in magic'
          PROVE  /\ HEAP <= a
                 /\ size'[a] > 0
                 /\ End(a)' <= AddrSpace
                 /\ End(a)' = AddrSpace \/ End(a)' \in magic'
      <3>1. CASE a = m
        <4>1. m + size'[m] + HDR = e /\ size'[m] \in Nat
          BY <1>1, <1>3, <1>6, Consts, ChunkTypes DEF Joins, TypeOK
        <4>2. End(m) = m + size[m] + HDR /\ size[m] > 0 /\ size[m] \in Nat
          BY <1>0, <1>3, ChunkTypes DEF LTiling, End
        <4>3. size'[m] > 0
          BY <4>1, <4>2, <1>3, <1>7, Consts
        <4> QED BY <3>1, <4>3, <1>3, <1>4, <1>5
      <3>2. CASE a # m
        <4>1. a \in magic /\ a \in Nat /\ size'[a] = size[a] /\ End(a)' = End(a)
          BY <3>2, <1>0, <1>1, <1>4, <1>5, ChunkTypes DEF Joins
        <4>2. End(a) \in magic => End(a) \in magic'
          <5> SUFFICES ASSUME End(a) \in magic, End(a) \notin magic'
                       PROVE  FALSE
            OBVIOUS
          <5>1. m < End(a) /\ End(a) < e /\ End(a) \in Nat /\ a < End(a)
            BY <4>1, <1>0, <1>4, ChunkTypes, Consts DEF LTiling, End
          <5>2. a < m
            BY <5>1, <4>1, <3>2, <1>3, <1>4
          <5>3. End(a) <= m
            BY <5>2, <4>1, <1>0, <1>3 DEF LTiling
          <5> QED BY <5>1, <5>3, <1>3
        <4> QED BY <4>1, <4>2, <1>0 DEF LTiling
      <3> QED BY <3>1, <3>2
    <2>2. ASSUME NEW a \in magic', NEW c \in magic', a < c
          PROVE  End(a)' <= c
      <3>1. a \in magic /\ c \in magic /\ a \in Nat /\ c \in Nat
        BY <1>0, <1>4, ChunkTypes
      <3>2. CASE a = m
        BY <3>1, <3>2, <2>2, <1>3, <1>4, <1>5
      <3>3. CASE a # m
        BY <3>1, <3>3, <2>2, <1>0, <1>5 DEF LTiling
      <3> QED BY <3>2, <3>3
    <2> QED BY <2>1, <2>2, <1>4 DEF LTiling, AddrSpace
  <1>9. \A a \in magic' : prev'[a] = IF a = e THEN m ELSE prev[a]
    BY <1>1 DEF Joins
  <1>10. \A a \in magic' : a # HEAP /\ a # e =>
            prev[a] \in magic' /\ prev[a] # m /\ prev[a] # ptr /\ End(prev[a]) = a
    <2> SUFFICES ASSUME NEW a \in magic', a # HEAP, a # e
                 PROVE  /\ prev[a] \in magic' /\ prev[a] # m /\ prev[a] # ptr
                        /\ End(prev[a]) = a
      OBVIOUS
    <2>1. PICK q : q = prev[a]
      OBVIOUS
    <2>2. /\ a \in magic /\ a \in Nat /\ q \in magic /\ q \in Nat
          /\ End(q) = a /\ q < a
      BY <2>1, <1>0, <1>4, ChunkTypes, Consts DEF LPrev, LTiling, End
    <2>3. q < e => a <= e
      BY <2>2, <1>0, <1>3, ChunkTypes DEF LTiling
    <2>4. ~(m <= q /\ q < e)
      BY <2>2, <2>3, <1>3, <1>4
    <2> QED BY <2>1, <2>2, <2>4, <1>3, <1>4
  <1>11. LPrev'
    <2>1. prev'[HEAP] = 0
      BY <1>0, <1>3, <1>4, <1>9, Consts DEF LPrev
    <2>2. ASSUME NEW a \in magic' \ {HEAP}
          PROVE  prev'[a] \in magic' /\ prev'[a] + size'[prev'[a]] + HDR = a
      <3>1. CASE a = e
        <4>1. prev'[a] = m /\ m + size'[m] + HDR = e
          BY <3>1, <1>1, <1>9 DEF Joins
        <4> QED BY <4>1, <3>1, <1>4
      <3>2. CASE a # e
        <4>1. /\ prev'[a] = prev[a] /\ prev[a] \in magic' /\ prev[a] # m
              /\ prev[a] + size[prev[a]] + HDR = a
          BY <3>2, <1>9, <1>10 DEF End
        <4>2. size'[prev[a]] = size[prev[a]]
          BY <4>1, <1>1 DEF Joins
        <4> QED BY <4>1, <4>2
      <3> QED BY <3>1, <3>2
    <2> QED BY <2>1, <2>2 DEF LPrev, End
  <1>12. LCoalesced'
    <2> SUFFICES ASSUME NEW a \in magic' \ {HEAP}
                 PROVE  ~(a \in free' /\ prev'[a] \in free')
      BY DEF LCoalesced
    <2>0. free' = free \cup {ptr}
      BY <1>1 DEF Joins
    <2>1. CASE a = e
      BY <2>0, <2>1, <1>0, <1>3, <1>4, ChunkTypes
    <2>2. CASE a # e
      <3>1. prev'[a] = prev[a] /\ prev[a] # ptr /\ a \in magic
        BY <2>2, <1>4, <1>9, <1>10
      <3>2. CASE a = ptr
        <4>1. a = m
          BY <3>2, <1>3, <1>4
        <4> QED BY <4>1, <2>0, <3>1, <1>1 DEF Joins
      <3>3. CASE a # ptr
        BY <3>1, <3>3, <2>0, <1>0 DEF LCoalesced
      <3> QED BY <3>2, <3>3
    <2> QED BY <2>1, <2>2
  <1>13. UsedChunksAreLive'
    <2>0. free' = free \cup {ptr}
      BY <1>1 DEF Joins
    <2>1. \A c \in live' : c \in live /\ c # b /\ c[1] # b[1]
      BY <1>0, <1>2 DEF UsedChunksAreLive
    <2>2. ASSUME NEW c \in live'
          PROVE  /\ c[1] - HDR \in magic'
                 /\ c[1] - HDR \notin free'
                 /\ 0 < c[2] /\ c[2] <= size'[c[1] - HDR]
      <3>1. PICK h : h = c[1] - HDR
        OBVIOUS
      <3>2. c[1] \in Nat /\ b[1] \in Nat
        BY <2>1, <1>0, Consts DEF TypeOK
      <3>3. h # ptr
        BY <3>1, <3>2, <2>1, Consts DEF ptr
      <3>4. /\ h \in magic /\ h \notin free
            /\ 0 < c[2] /\ c[2] <= size[h]
        BY <3>1, <2>1, <1>0 DEF UsedChunksAreLive
      <3>5. h \notin free'
        BY <3>3, <3>4, <2>0
      <3>6. h \in magic' /\ h # m
        BY <3>3, <3>4, <3>5, <1>1, <1>4 DEF Joins
      <3>7. size'[h] = size[h]
        BY <3>6, <1>1 DEF Joins
      <3> QED BY <3>1, <3>4, <3>5, <3>6, <3>7
    <2>3. ASSUME NEW a \in magic', a \notin free'
          PROVE  \E c \in live' : c[1] = a + HDR
      <3>1. a \in magic /\ a \notin free /\ a # ptr /\ a \in Nat
        BY <2>0, <2>3, <1>0, <1>4, ChunkTypes
      <3>2. PICK c \in live : c[1] = a + HDR
        BY <3>1, <1>0 DEF UsedChunksAreLive
      <3>3. c # b
        BY <3>1, <3>2, Consts DEF ptr
      <3> QED BY <3>2, <3>3, <1>2
    <2>4. \A c, d \in live' : c[1] = d[1] => c = d
      BY <2>1, <1>0 DEF UsedChunksAreLive
    <2> QED BY <2>2, <2>3, <2>4 DEF UsedChunksAreLive
  <1> QED BY <1>6, <1>8, <1>11, <1>12, <1>13 DEF LinInv

\* Every call, finished or fatal, keeps the invariant.
LEMMA NextLinInv == LinInv /\ [Next]_vars => LinInv'
  <1> SUFFICES ASSUME LinInv, [Next]_vars PROVE LinInv'
    OBVIOUS
  <1>1. ASSUME UNCHANGED <<heapVars, live>>, ret' \in Addr, halted' \in BOOLEAN
        PROVE  LinInv'
    <2>1. /\ magic' = magic /\ free' = free /\ size' = size /\ prev' = prev
          /\ live' = live
      BY <1>1 DEF heapVars
    <2>2. TypeOK'
      BY <1>1, <2>1 DEF LinInv, TypeOK, Addr, AddrSpace
    <2> QED BY <2>1, <2>2 DEF LinInv, LTiling, LPrev, LCoalesced,
                              UsedChunksAreLive, End, AddrSpace
  <1>2. ret \in Addr /\ halted \in BOOLEAN /\ 0 \in Addr
    BY Consts DEF LinInv, TypeOK
  <1>3. ASSUME NEW n \in SIZES, KmallocRefused(n) PROVE LinInv'
    <2>1. UNCHANGED <<heapVars, live>> /\ ret' = 0 /\ halted' = halted
      BY <1>3 DEF KmallocRefused, heapVars
    <2> QED BY <2>1, <1>1, <1>2
  <1>4. ASSUME NEW n \in SIZES, NEW a \in magic, Kmalloc(n, a) PROVE LinInv'
    BY <1>4, TakeWholeStep, TakeSplitStep DEF Kmalloc
  <1>5. ASSUME NEW n \in SIZES, NEW last \in magic, KmallocExhausted(n, last)
        PROVE  LinInv'
    <2>1. /\ UNCHANGED <<heapVars, live>>
          /\ (ret' = ret /\ halted' = TRUE) \/ (ret' = 0 /\ halted' = halted)
      BY <1>5 DEF KmallocExhausted, heapVars
    <2> QED BY <2>1, <1>1, <1>2
  <1>6. ASSUME NEW b \in live, Kfree(b) PROVE LinInv'
    BY <1>6, KfreeStep
  <1>7. ASSUME UNCHANGED vars PROVE LinInv'
    <2>1. UNCHANGED <<heapVars, live>> /\ ret' = ret /\ halted' = halted
      BY <1>7 DEF vars, heapVars
    <2> QED BY <2>1, <1>1, <1>2
  <1> QED BY <1>3, <1>4, <1>5, <1>6, <1>7 DEF Next, KfreeNull

LEMMA SpecLinInv == Spec => []LinInv
  BY InitLinInv, NextLinInv, PTL DEF Spec

\* The header fields and the bookkeeping of kmalloc / kfree keep their types.
THEOREM HeapTypes == Spec => []TypeOK
  <1>1. LinInv => TypeOK
    BY DEF LinInv
  <1> QED BY <1>1, SpecLinInv, PTL

\* Between calls the chunks tile the heap, are linked back in order, and the
\* used ones are exactly the blocks held.
THEOREM HeapStructure ==
    Spec => [](ChunksLinked /\ UsedChunksAreLive)
  BY LinInvImplies, SpecLinInv, PTL

\* Between calls no two free chunks are neighbours: kfree merges with what lies
\* on either side, and kmalloc splits only what it takes.
THEOREM HeapCoalesced == Spec => []Coalesced
  BY LinInvImplies, SpecLinInv, PTL

\* When nothing is held every chunk is free, and free chunks have no free
\* neighbour: there is one chunk.
LEMMA LinInvWhole == LinInv => WholeAgain
  <1> SUFFICES ASSUME LinInv, live = {}
               PROVE  magic = {HEAP} /\ size[HEAP] = HLIM /\ HEAP \in free
    BY DEF WholeAgain
  <1>0. TypeOK /\ LTiling /\ LPrev /\ LCoalesced /\ UsedChunksAreLive
    BY DEF LinInv
  <1>1. \A a \in magic : a \in free
    BY <1>0 DEF UsedChunksAreLive
  <1>2. \A a \in magic : a = HEAP
    BY <1>0, <1>1 DEF LCoalesced, LPrev
  <1>3. magic = {HEAP} /\ HEAP \in free
    BY <1>0, <1>1, <1>2 DEF LTiling
  <1>4. End(HEAP) = AddrSpace /\ End(HEAP) = HEAP + size[HEAP] + HDR
    BY <1>0, <1>3, ChunkTypes, Consts DEF LTiling, End
  <1>5. size[HEAP] \in Nat
    BY <1>0, <1>3, ChunkTypes
  <1>6. HEAP + size[HEAP] + HDR = HEAP + HLIM + HDR
    BY <1>4, Consts
  <1>7. size[HEAP] = HLIM
    BY <1>5, <1>6, HeapAssumption DEF HeapAssumption
  <1> QED BY <1>3, <1>7

\* Once every block is released the heap is one free chunk again: kfree loses
\* no byte to fragmentation whatever the order of the calls.
THEOREM HeapWholeAgain == Spec => []WholeAgain
  BY LinInvWhole, SpecLinInv, PTL

\* A kmalloc or kfree leaves the room of every block that stays in use alone.
THEOREM HeapHeldBlocks == Spec => HeldBlocksKeepTheirRoom
  <1> DEFINE Kept == \A b \in live \cap live' : size'[b[1] - HDR] = size[b[1] - HDR]
  <1>1. ASSUME LinInv, Next PROVE Kept
    <2>0. TypeOK /\ LTiling /\ LPrev /\ LCoalesced /\ UsedChunksAreLive
      BY <1>1 DEF LinInv
    <2>1. ASSUME NEW n \in SIZES, NEW a \in magic, Kmalloc(n, a) PROVE Kept
      <3>1. CASE TakeWhole(a, n)
        BY <3>1 DEF TakeWhole
      <3>2. CASE TakeSplit(a, n)
        <4>1. a \in free /\ size[a] > n + HDR /\ n \in Nat /\ n > 0
          BY <2>1, <3>2, HeapAssumption
             DEF Kmalloc, FirstFit, Unfit, TakeSplit, Splits, HeapAssumption, BadRequest
        <4>2. a + n + HDR \notin magic
          <5> DEFINE x == a + n + HDR
          <5>1. a \in Nat /\ size[a] \in Nat /\ x \in Nat /\ a < x /\ x < End(a)
            BY <4>1, <2>0, ChunkTypes, Consts DEF End
          <5> QED BY <5>1, <2>0, ChunkTypes DEF LTiling
        <4>3. size' = [size EXCEPT ![a + n + HDR] = size[a] - n - HDR, ![a] = n]
          BY <3>2 DEF TakeSplit
        <4>4. ASSUME NEW b \in live PROVE size'[b[1] - HDR] = size[b[1] - HDR]
          <5>1. PICK h : h = b[1] - HDR
            OBVIOUS
          <5>2. h \in magic /\ h \notin free
            BY <5>1, <2>0 DEF UsedChunksAreLive
          <5>3. h \in Addr /\ h # a /\ h # a + n + HDR
            BY <5>2, <4>1, <4>2, <2>0, ChunkTypes
          <5> QED BY <5>1, <5>3, <4>3, <2>0 DEF TypeOK
        <4> QED BY <4>4
      <3> QED BY <2>1, <3>1, <3>2 DEF Kmalloc
    <2>2. ASSUME NEW b \in live, Kfree(b) PROVE Kept
      <3> DEFINE ptr == b[1] - HDR
      <3>1. PICK m, e : Joins(ptr, m, e)
        BY <1>1, <2>2, KfreeJoins
      <3>2. live' = live \ {b}
        BY <2>2 DEF Kfree
      <3> HIDE DEF ptr
      <3> SUFFICES ASSUME NEW c \in live, c \in live'
                   PROVE  size'[c[1] - HDR] = size[c[1] - HDR]
        OBVIOUS
      <3>3. c # b /\ c[1] # b[1]
        BY <3>2, <2>0 DEF UsedChunksAreLive
      <3>4. c[1] \in Nat /\ b[1] \in Nat
        BY <2>0, Consts DEF TypeOK
      <3>5. PICK h : h = c[1] - HDR
        OBVIOUS
      <3>6. h # ptr /\ h \in magic /\ h \notin free
        BY <3>3, <3>4, <3>5, <2>0, Consts DEF ptr, UsedChunksAreLive
      <3>7. h \notin free'
        BY <3>1, <3>6 DEF Joins
      <3>8. h \in magic' /\ h # m
        BY <3>1, <3>6, <3>7 DEF Joins
      <3>9. size'[h] = size[h]
        BY <3>1, <3>8 DEF Joins
      <3> QED BY <3>5, <3>9
    <2>3. ASSUME size' = size PROVE Kept
      BY <2>3
    <2> QED BY <1>1, <2>1, <2>2, <2>3
            DEF Next, KmallocRefused, KmallocExhausted, KfreeNull, heapVars, vars
  <1>2. ASSUME LinInv, [Next]_vars PROVE [Kept]_vars
    BY <1>1, <1>2
  <1> QED BY <1>2, SpecLinInv, PTL DEF Spec, HeldBlocksKeepTheirRoom

\* kmalloc and kfree, headers, splits and merges included, do what
\* HeapContract promises a caller.
THEOREM HeapImplementsContract == Spec => ImplementsContract
  <1>1. Init => Contract!Init
    BY DEF Init, Contract!Init
  <1>2. ASSUME LinInv, [Next]_vars PROVE [Contract!Next]_(Contract!vars)
    <2>0. TypeOK /\ LTiling /\ LPrev /\ LCoalesced /\ UsedChunksAreLive
      BY <1>2 DEF LinInv
    <2>1. ASSUME NEW n \in SIZES, KmallocRefused(n) PROVE Contract!Next
      BY <2>1 DEF KmallocRefused, Contract!Next, Contract!Refuse
    <2>2. ASSUME NEW n \in SIZES, NEW a \in magic, Kmalloc(n, a)
          PROVE  Contract!Next
      <3> DEFINE q == a + HDR
      <3>1. /\ n \in Nat /\ n > 0 /\ n <= size[a] /\ a \in free
            /\ live' = live \cup {<<q, n>>} /\ ret' = q
        BY <2>0, <2>2, HeapAssumption, ChunkTypes
           DEF Kmalloc, FirstFit, Unfit, BadRequest, HeapAssumption
      <3>2. /\ a \in Nat /\ HEAP <= a /\ size[a] \in Nat
            /\ End(a) = a + size[a] + HDR /\ End(a) <= AddrSpace
        BY <2>0, ChunkTypes DEF LTiling, End
      <3>3. HEAP + HDR <= q /\ q + n <= AddrSpace /\ q \in (HEAP + HDR) .. AddrSpace
        BY <3>1, <3>2, Consts
      <3>4. ASSUME NEW b \in live PROVE Contract!Apart(b, <<q, n>>)
        <4>1. PICK h : h = b[1] - HDR
          OBVIOUS
        <4>2. b[1] \in Nat /\ b[2] \in Nat
          BY <2>0, HeapAssumption, Consts DEF TypeOK, HeapAssumption
        <4>3. /\ h \in magic /\ h # a /\ h \in Nat /\ b[2] <= size[h]
              /\ size[h] \in Nat /\ b[1] = h + HDR
          BY <4>1, <4>2, <3>1, <2>0, ChunkTypes, Consts DEF UsedChunksAreLive
        <4>4. End(h) = h + size[h] + HDR
          BY DEF End
        <4>5. CASE h < a
          <5>1. End(h) <= a
            BY <4>3, <4>5, <2>0 DEF LTiling
          <5>2. b[1] + b[2] <= q
            BY <5>1, <4>2, <4>3, <4>4, <3>2, Consts
          <5> QED BY <5>2 DEF Contract!Apart
        <4>6. CASE a < h
          <5>1. End(a) <= h
            BY <4>3, <4>6, <2>0 DEF LTiling
          <5>2. q + n <= b[1]
            BY <5>1, <4>2, <4>3, <3>1, <3>2, Consts
          <5> QED BY <5>2 DEF Contract!Apart
        <4> QED BY <4>3, <4>5, <4>6, <3>2
      <3>5. Contract!Alloc(n, q)
        BY <3>1, <3>3, <3>4 DEF Contract!Alloc
      <3> QED BY <3>3, <3>5 DEF Contract!Next
    <2>3. ASSUME NEW n \in SIZES, NEW last \in magic, KmallocExhausted(n, last)
          PROVE  [Contract!Next]_(Contract!vars)
      BY <2>3 DEF KmallocExhausted, Contract!vars, Contract!Next, Contract!Refuse
    <2>4. ASSUME NEW b \in live, Kfree(b) PROVE Contract!Next
      BY <2>4 DEF Kfree, Contract!Next, Contract!Release
    <2>5. ASSUME UNCHANGED vars PROVE UNCHANGED Contract!vars
      BY <2>5 DEF vars, Contract!vars
    <2> QED BY <1>2, <2>1, <2>2, <2>3, <2>4, <2>5 DEF Next, KfreeNull
  <1> QED BY <1>1, <1>2, SpecLinInv, PTL
          DEF Spec, ImplementsContract, Contract!Spec

(***************************************************************************)
(* The calls statement by statement, made by one task.                     *)
(*                                                                         *)
(* Inside a call the heap is not in order, so the invariant says, for each *)
(* place in the code, how far from order it is.  InOrder takes the header  *)
(* fields as arguments, to speak as well of the heap that the statements   *)
(* still to come will leave, and the exceptions that the place allows:     *)
(* stale, the chunks whose back link is out of date; torn, the free chunks *)
(* whose successor may be free too; given, the used chunks no caller holds.*)
(***************************************************************************)
EndOf(s, a) == a + s[a] + HDR

HeapTyped(m, f, s, p, l) ==
    /\ m \subseteq Addr /\ f \subseteq Addr
    /\ s \in [Addr -> 0 .. HLIM] /\ p \in [Addr -> Addr]
    /\ l \subseteq Addr \X SIZES

Tiles(m, s) ==
    /\ HEAP \in m
    /\ \A a \in m : /\ HEAP <= a
                    /\ s[a] > 0
                    /\ EndOf(s, a) <= AddrSpace
                    /\ EndOf(s, a) = AddrSpace \/ EndOf(s, a) \in m
    /\ \A a, b \in m : a < b => EndOf(s, a) <= b

Linked(m, s, p, stale) ==
    /\ p[HEAP] = 0
    /\ \A a \in m : a # HEAP /\ a \notin stale => p[a] \in m /\ EndOf(s, p[a]) = a

Joined(m, f, s, torn) ==
    \A a \in m : a \in f /\ EndOf(s, a) \in m /\ EndOf(s, a) \in f => a \in torn

Held(m, f, s, l, given) ==
    /\ \A b \in l : /\ b[1] - HDR \in m
                    /\ b[1] - HDR \notin f /\ b[1] - HDR \notin given
                    /\ 0 < b[2] /\ b[2] <= s[b[1] - HDR]
    /\ \A a \in m : a \notin f /\ a \notin given => \E b \in l : b[1] = a + HDR
    /\ \A b, c \in l : b[1] = c[1] => b = c

InOrder(m, f, s, p, l, stale, torn, given) ==
    /\ HeapTyped(m, f, s, p, l)
    /\ Tiles(m, s)
    /\ Linked(m, s, p, stale)
    /\ Joined(m, f, s, torn)
    /\ Held(m, f, s, l, given)

\* What InOrder says of one chunk, in terms the provers can add up.
LEMMA TileFacts ==
    ASSUME NEW m, NEW f, NEW s, NEW p, NEW l,
           HeapTyped(m, f, s, p, l), Tiles(m, s), NEW a \in m
    PROVE  /\ a \in Nat /\ a \in Addr /\ HEAP <= a /\ a < AddrSpace
           /\ s[a] \in Nat /\ s[a] > 0 /\ s[a] \in 0 .. HLIM
           /\ EndOf(s, a) = a + s[a] + HDR /\ EndOf(s, a) \in Nat
           /\ a < EndOf(s, a) /\ EndOf(s, a) <= AddrSpace
           /\ EndOf(s, a) = AddrSpace \/ EndOf(s, a) \in m
           /\ \A b \in m : a < b => EndOf(s, a) <= b
           /\ p[a] \in Addr
  <1>1. a \in Nat /\ a \in Addr /\ HEAP <= a /\ a < AddrSpace
    BY Consts DEF HeapTyped, Tiles
  <1>2. s[a] \in 0 .. HLIM /\ p[a] \in Addr /\ s[a] > 0
    BY <1>1 DEF HeapTyped, Tiles
  <1>3. s[a] \in Nat
    BY <1>2, Consts
  <1>4. EndOf(s, a) = a + s[a] + HDR /\ EndOf(s, a) \in Nat /\ a < EndOf(s, a)
    BY <1>1, <1>2, <1>3, Consts DEF EndOf
  <1>5. /\ EndOf(s, a) <= AddrSpace
        /\ EndOf(s, a) = AddrSpace \/ EndOf(s, a) \in m
        /\ \A b \in m : a < b => EndOf(s, a) <= b
    BY DEF Tiles
  <1> QED BY <1>1, <1>2, <1>3, <1>4, <1>5

\* Two chunks that end at the same address are one chunk.
LEMMA OneEnd ==
    ASSUME NEW m, NEW f, NEW s, NEW p, NEW l,
           HeapTyped(m, f, s, p, l), Tiles(m, s),
           NEW a \in m, NEW b \in m, EndOf(s, a) = EndOf(s, b)
    PROVE  a = b
  <1>1. a \in Nat /\ b \in Nat /\ a < EndOf(s, a) /\ b < EndOf(s, b)
        /\ EndOf(s, a) \in Nat
    BY TileFacts
  <1>2. ~(a < b) /\ ~(b < a)
    BY <1>1, TileFacts
  <1> QED BY <1>1, <1>2

\* Without exceptions it is the invariant of the atomic calls.
LEMMA InOrderIsLinInv ==
    TypeOK =>
      (LinInv <=> InOrder(magic, free, size, prev, live, {}, {}, {}))
  <1> SUFFICES ASSUME TypeOK
               PROVE  LinInv <=> InOrder(magic, free, size, prev, live, {}, {}, {})
    OBVIOUS
  <1>1. HeapTyped(magic, free, size, prev, live)
    BY DEF TypeOK, HeapTyped
  <1>2. LTiling <=> Tiles(magic, size)
    BY DEF LTiling, Tiles, End, EndOf
  <1>3. LPrev <=> Linked(magic, size, prev, {})
    BY DEF LPrev, Linked, End, EndOf
  <1>4. UsedChunksAreLive <=> Held(magic, free, size, live, {})
    BY DEF UsedChunksAreLive, Held
  <1>5. ASSUME LTiling, LPrev
        PROVE  LCoalesced <=> Joined(magic, free, size, {})
    <2>1. ASSUME LCoalesced PROVE Joined(magic, free, size, {})
      <3> SUFFICES ASSUME NEW a \in magic, a \in free,
                          EndOf(size, a) \in magic, EndOf(size, a) \in free
                   PROVE  FALSE
        BY DEF Joined
      <3>1. End(a) = EndOf(size, a)
        BY DEF End, EndOf
      <3>2. End(a) # HEAP /\ prev[End(a)] = a
        BY <3>1, <1>5, PrevOfEnd
      <3> QED BY <3>1, <3>2, <2>1 DEF LCoalesced
    <2>2. ASSUME Joined(magic, free, size, {}) PROVE LCoalesced
      BY <2>2, <1>5 DEF Joined, LCoalesced, LPrev, End, EndOf
    <2> QED BY <2>1, <2>2
  <1> QED BY <1>1, <1>2, <1>3, <1>4, <1>5 DEF LinInv, InOrder

\* A free chunk can be cut in two: only its own two parts are then free
\* neighbours.
LEMMA CutInOrder ==
    ASSUME NEW m, NEW f, NEW s, NEW p, NEW l,
           InOrder(m, f, s, p, l, {}, {}, {}),
           NEW h \in m, h \in f, NEW n \in Nat, n > 0, s[h] > n + HDR,
           NEW s2, NEW p2,
           s2 = [s EXCEPT ![h + n + HDR] = s[h] - n - HDR, ![h] = n],
           p2 = IF EndOf(s, h) # AddrSpace
                THEN [p EXCEPT ![h + n + HDR] = h, ![EndOf(s, h)] = h + n + HDR]
                ELSE [p EXCEPT ![h + n + HDR] = h]
    PROVE  InOrder(m \cup {h + n + HDR}, f \cup {h + n + HDR}, s2, p2, l, {}, {h}, {})
  <1> DEFINE x == h + n + HDR
             e == EndOf(s, h)
             m2 == m \cup {x}
             f2 == f \cup {x}
  <1>0. /\ HeapTyped(m, f, s, p, l) /\ Tiles(m, s) /\ Linked(m, s, p, {})
        /\ Joined(m, f, s, {}) /\ Held(m, f, s, l, {})
    BY DEF InOrder
  <1>1. /\ h \in Nat /\ h \in Addr /\ HEAP <= h /\ h < AddrSpace
        /\ s[h] \in Nat /\ s[h] \in 0 .. HLIM /\ e = h + s[h] + HDR /\ e \in Nat /\ e <= AddrSpace
        /\ e = AddrSpace \/ e \in m
        /\ \A b \in m : h < b => e <= b
    BY <1>0, TileFacts
  <1>2. x \in Nat /\ x \in Addr /\ h < x /\ x < e
    BY <1>1, Consts
  <1>3. x \notin m /\ x # HEAP
    BY <1>1, <1>2, Consts
  <1>4. \A a \in m : a \in Nat /\ a \in Addr
    BY <1>0, TileFacts
  <1>5. /\ s2[h] = n /\ s2[x] = s[h] - n - HDR
        /\ \A a \in Addr : a # h /\ a # x => s2[a] = s[a]
    BY <1>0, <1>1, <1>2 DEF HeapTyped
  <1>6. /\ p2[x] = h
        /\ e \in m => p2[e] = x
        /\ \A a \in Addr : a # x /\ a # e => p2[a] = p[a]
    BY <1>0, <1>1, <1>2, <1>4, Consts DEF HeapTyped
  <1>7. HeapTyped(m2, f2, s2, p2, l)
    <2>1. s[h] - n - HDR \in 0 .. HLIM /\ n \in 0 .. HLIM
      BY <1>1, Consts
    <2>2. s2 \in [Addr -> 0 .. HLIM]
      BY <2>1, <1>0 DEF HeapTyped
    <2>3. p2 \in [Addr -> Addr]
      BY <1>0, <1>1, <1>2 DEF HeapTyped
    <2> QED BY <2>2, <2>3, <1>0, <1>2 DEF HeapTyped
  <1>8. /\ EndOf(s2, h) = x /\ EndOf(s2, x) = e
        /\ \A a \in m : a # h => s2[a] = s[a] /\ EndOf(s2, a) = EndOf(s, a)
    <2>1. EndOf(s2, h) = x
      BY <1>1, <1>5, Consts DEF EndOf
    <2>2. EndOf(s2, x) = e
      BY <1>1, <1>2, <1>5, Consts DEF EndOf
    <2>3. \A a \in m : a # h => s2[a] = s[a]
      BY <1>3, <1>4, <1>5
    <2> QED BY <2>1, <2>2, <2>3 DEF EndOf
  <1> HIDE DEF x, e
  <1>9. Tiles(m2, s2)
    <2>1. ASSUME NEW a \in m2
          PROVE  /\ HEAP <= a
                 /\ s2[a] > 0
                 /\ EndOf(s2, a) <= AddrSpace
                 /\ EndOf(s2, a) = AddrSpace \/ EndOf(s2, a) \in m2
      <3>1. CASE a = h
        BY <3>1, <1>1, <1>2, <1>5, <1>8, Consts
      <3>2. CASE a = x
        <4>1. s2[x] > 0
          BY <1>1, <1>5, Consts
        <4> QED BY <4>1, <3>2, <1>1, <1>2, <1>8, Consts
      <3>3. CASE a \in m /\ a # h
        <4>1. /\ HEAP <= a /\ s[a] > 0 /\ EndOf(s, a) <= AddrSpace
              /\ EndOf(s, a) = AddrSpace \/ EndOf(s, a) \in m
          BY <3>3, <1>0, TileFacts
        <4>2. s2[a] = s[a] /\ EndOf(s2, a) = EndOf(s, a)
          BY <3>3, <1>8
        <4> QED BY <4>1, <4>2
      <3> QED BY <3>1, <3>2, <3>3
    <2>2. ASSUME NEW a \in m2, NEW b \in m2, a < b PROVE EndOf(s2, a) <= b
      <3>1. CASE a = h /\ b = x
        BY <3>1, <1>2, <1>8
      <3>2. CASE a = h /\ b \in m
        <4>1. e <= b /\ b \in Nat
          BY <3>2, <2>2, <1>1, <1>4
        <4> QED BY <4>1, <3>2, <1>1, <1>2, <1>8
      <3>3. CASE a = x /\ b \in m
        <4>1. h < b /\ b \in Nat
          BY <3>3, <2>2, <1>1, <1>2, <1>4
        <4> QED BY <4>1, <3>3, <1>1, <1>8
      <3>4. CASE a \in m /\ a # h /\ b = x
        <4>1. a < h
          BY <3>4, <2>2, <1>1, <1>2, <1>4
        <4>2. EndOf(s, a) <= h /\ EndOf(s, a) \in Nat
          BY <4>1, <3>4, <1>0, TileFacts
        <4>3. EndOf(s2, a) = EndOf(s, a)
          BY <3>4, <1>8
        <4> QED BY <4>2, <4>3, <3>4, <1>1, <1>2
      <3>5. CASE a \in m /\ a # h /\ b \in m
        BY <3>5, <2>2, <1>0, <1>8 DEF Tiles
      <3>6. CASE a = x /\ b = x
        BY <3>6, <2>2, <1>2
      <3> QED BY <3>1, <3>2, <3>3, <3>4, <3>5, <3>6
    <2>3. HEAP \in m2
      BY <1>0 DEF Tiles
    <2> QED BY <2>1, <2>2, <2>3 DEF Tiles
  <1>10. Linked(m2, s2, p2, {})
    <2>1. e # HEAP /\ HEAP \in Addr
      BY <1>1, <1>2, Consts
    <2>2. p2[HEAP] = 0
      BY <2>1, <1>0, <1>3, <1>6 DEF Linked
    <2>3. ASSUME NEW a \in m2, a # HEAP
          PROVE  p2[a] \in m2 /\ EndOf(s2, p2[a]) = a
      <3>1. CASE a = x
        BY <3>1, <1>6, <1>8
      <3>2. CASE a \in m /\ a = e
        BY <3>2, <1>6, <1>8
      <3>3. CASE a \in m /\ a # e
        <4>1. p2[a] = p[a] /\ p[a] \in m /\ EndOf(s, p[a]) = a
          BY <3>3, <2>3, <1>0, <1>3, <1>4, <1>6 DEF Linked
        <4>2. p[a] # h
          BY <4>1, <3>3 DEF e
        <4> QED BY <4>1, <4>2, <1>8
      <3> QED BY <3>1, <3>2, <3>3
    <2> QED BY <2>2, <2>3 DEF Linked
  <1>11. Joined(m2, f2, s2, {h})
    <2> SUFFICES ASSUME NEW a \in m2, a # h, a \in f2,
                        EndOf(s2, a) \in m2, EndOf(s2, a) \in f2
                 PROVE  FALSE
      BY DEF Joined
    <2>1. CASE a = x
      <3>1. e \in m /\ e \in f
        BY <2>1, <1>1, <1>2, <1>8
      <3> QED BY <3>1, <1>0 DEF Joined, e
    <2>2. CASE a \in m
      <3>1. EndOf(s2, a) = EndOf(s, a) /\ a \in f
        BY <2>2, <1>3, <1>8
      <3>2. CASE EndOf(s, a) = x
        <4>1. a \in Nat /\ a < x /\ a < h
          BY <2>2, <3>2, <1>0, <1>1, <1>2, TileFacts
        <4>2. EndOf(s, a) <= h
          BY <4>1, <2>2, <1>0, TileFacts
        <4> QED BY <4>2, <3>2, <1>1, <1>2
      <3>3. CASE EndOf(s, a) # x
        BY <3>1, <3>3, <2>2, <1>0 DEF Joined
      <3> QED BY <3>2, <3>3
    <2> QED BY <2>1, <2>2
  <1>12. Held(m2, f2, s2, l, {})
    <2>1. ASSUME NEW b \in l
          PROVE  /\ b[1] - HDR \in m2
                 /\ b[1] - HDR \notin f2
                 /\ 0 < b[2] /\ b[2] <= s2[b[1] - HDR]
      <3>1. PICK c : c = b[1] - HDR
        OBVIOUS
      <3>2. c \in m /\ c \notin f /\ 0 < b[2] /\ b[2] <= s[c]
        BY <3>1, <1>0 DEF Held
      <3>3. c # h /\ c # x
        BY <3>2, <1>3
      <3>4. s2[c] = s[c]
        BY <3>2, <3>3, <1>8
      <3> QED BY <3>1, <3>2, <3>3, <3>4
    <2> QED BY <2>1, <1>0 DEF Held
  <1> QED BY <1>7, <1>9, <1>10, <1>11, <1>12 DEF InOrder, x

\* The heap after the chunk at h, of a heap in order but for the exceptions, has
\* swallowed the free chunk at x that follows it.
Merging(m, f, s, p, l, stale, torn, h, x, m2, s2, p2, left) ==
    /\ InOrder(m, f, s, p, l, stale, torn, {})
    /\ h \in m /\ h \in f /\ x \in m /\ x \in f /\ x = EndOf(s, h)
    /\ stale \subseteq {x} /\ torn \subseteq {h, x}
    /\ m2 = m \ {x}
    /\ s2 = [s EXCEPT ![h] = s[h] + s[x] + HDR, ![x] = 0]
    /\ p2 = [p EXCEPT ![x] = 0]
    /\ x \in torn => h \in left

\* Two free neighbours can be made one: then only the chunk behind them has a
\* back link out of date, and what was torn behind the second is torn behind
\* the first.
LEMMA MergeInOrder ==
    ASSUME NEW m, NEW f, NEW s, NEW p, NEW l, NEW stale, NEW torn, NEW h, NEW x,
           NEW m2, NEW s2, NEW p2, NEW left,
           Merging(m, f, s, p, l, stale, torn, h, x, m2, s2, p2, left)
    PROVE  InOrder(m2, f, s2, p2, l, {EndOf(s2, h)}, left, {})
  <1> USE DEF Merging
  <1> DEFINE e == EndOf(s, x)
  <1>0. /\ HeapTyped(m, f, s, p, l) /\ Tiles(m, s) /\ Linked(m, s, p, stale)
        /\ Joined(m, f, s, torn) /\ Held(m, f, s, l, {})
    BY DEF InOrder
  <1>1. /\ h \in Nat /\ h \in Addr /\ HEAP <= h /\ s[h] \in Nat /\ s[h] > 0
        /\ x = h + s[h] + HDR /\ h < x
        /\ \A b \in m : h < b => x <= b
    BY <1>0, TileFacts
  <1>2. /\ x \in Nat /\ x \in Addr /\ s[x] \in Nat /\ s[x] > 0
        /\ e = x + s[x] + HDR /\ e \in Nat /\ x < e /\ e <= AddrSpace
        /\ e = AddrSpace \/ e \in m
        /\ \A b \in m : x < b => e <= b
    BY <1>0, TileFacts
  <1>3. \A a \in m : a \in Nat /\ a \in Addr
    BY <1>0, TileFacts
  <1>4. /\ s2[h] = s[h] + s[x] + HDR
        /\ \A a \in Addr : a # h /\ a # x => s2[a] = s[a]
        /\ p2[x] = 0
        /\ \A a \in Addr : a # x => p2[a] = p[a]
    BY <1>0, <1>1, <1>2 DEF HeapTyped
  <1>5. x # HEAP /\ HEAP \in Addr /\ 0 \in Addr
    BY <1>1, Consts
  <1>6. HeapTyped(m2, f, s2, p2, l)
    <2>1. s[h] + s[x] + HDR \in 0 .. HLIM /\ 0 \in 0 .. HLIM
      BY <1>1, <1>2, Consts
    <2>2. s2 \in [Addr -> 0 .. HLIM]
      BY <2>1, <1>0 DEF HeapTyped
    <2>3. p2 \in [Addr -> Addr]
      BY <1>0, <1>5 DEF HeapTyped
    <2> QED BY <2>2, <2>3, <1>0 DEF HeapTyped
  <1>7. /\ EndOf(s2, h) = e
        /\ \A a \in m2 : a # h => s2[a] = s[a] /\ EndOf(s2, a) = EndOf(s, a)
    <2>1. EndOf(s2, h) = e
      BY <1>1, <1>2, <1>4, Consts DEF EndOf
    <2> QED BY <2>1, <1>3, <1>4 DEF EndOf
  <1>8. \A a \in m2 : a # h => EndOf(s, a) # x
    BY <1>0, OneEnd
  <1> HIDE DEF e
  <1>9. Tiles(m2, s2)
    <2>1. ASSUME NEW a \in m2
          PROVE  /\ HEAP <= a
                 /\ s2[a] > 0
                 /\ EndOf(s2, a) <= AddrSpace
                 /\ EndOf(s2, a) = AddrSpace \/ EndOf(s2, a) \in m2
      <3>1. CASE a = h
        <4>1. s2[h] > 0
          BY <1>1, <1>2, <1>4, Consts
        <4>2. e \in m => e \in m2
          BY <1>2
        <4> QED BY <4>1, <4>2, <3>1, <1>1, <1>2, <1>7
      <3>2. CASE a # h
        <4>1. /\ a \in m /\ s2[a] = s[a] /\ EndOf(s2, a) = EndOf(s, a)
              /\ EndOf(s, a) # x
          BY <3>2, <1>7, <1>8
        <4>2. /\ HEAP <= a /\ s[a] > 0 /\ EndOf(s, a) <= AddrSpace
              /\ EndOf(s, a) = AddrSpace \/ EndOf(s, a) \in m
          BY <4>1, <1>0, TileFacts
        <4> QED BY <4>1, <4>2
      <3> QED BY <3>1, <3>2
    <2>2. ASSUME NEW a \in m2, NEW b \in m2, a < b PROVE EndOf(s2, a) <= b
      <3>1. CASE a = h
        <4>1. b \in Nat /\ x <= b /\ x # b
          BY <3>1, <2>2, <1>1, <1>3
        <4>2. x < b
          BY <4>1, <1>2
        <4> QED BY <4>2, <3>1, <1>2, <1>7
      <3>2. CASE a # h
        BY <3>2, <2>2, <1>0, <1>7 DEF Tiles
      <3> QED BY <3>1, <3>2
    <2>3. HEAP \in m2
      BY <1>0, <1>5 DEF Tiles
    <2> QED BY <2>1, <2>2, <2>3 DEF Tiles
  <1>10. Linked(m2, s2, p2, {e})
    <2>1. p2[HEAP] = 0
      BY <1>0, <1>4, <1>5 DEF Linked
    <2>2. ASSUME NEW a \in m2, a # HEAP, a # e
          PROVE  p2[a] \in m2 /\ EndOf(s2, p2[a]) = a
      <3>1. p2[a] = p[a] /\ p[a] \in m /\ EndOf(s, p[a]) = a
        BY <2>2, <1>0, <1>3, <1>4 DEF Linked
      <3>2. p[a] # h /\ p[a] # x
        BY <3>1, <2>2 DEF e
      <3>3. p[a] \in m2
        BY <3>1, <3>2
      <3> QED BY <3>1, <3>2, <3>3, <1>7
    <2> QED BY <2>1, <2>2 DEF Linked
  <1>11. Joined(m2, f, s2, left)
    <2> SUFFICES ASSUME NEW a \in m2, a \in f,
                        EndOf(s2, a) \in m2, EndOf(s2, a) \in f,
                        a \notin left
                 PROVE  FALSE
      BY DEF Joined
    <2>1. CASE a = h
      BY <2>1, <1>0, <1>7 DEF Joined, e
    <2>2. CASE a # h
      <3>1. a \in m /\ EndOf(s, a) \in m /\ EndOf(s, a) \in f
        BY <2>2, <1>7
      <3>2. a \in torn
        BY <3>1, <1>0 DEF Joined
      <3> QED BY <3>2, <2>2
    <2> QED BY <2>1, <2>2
  <1>12. Held(m2, f, s2, l, {})
    <2>1. ASSUME NEW b \in l
          PROVE  /\ b[1] - HDR \in m2
                 /\ b[1] - HDR \notin f
                 /\ 0 < b[2] /\ b[2] <= s2[b[1] - HDR]
      <3>1. PICK c : c = b[1] - HDR
        OBVIOUS
      <3>2. c \in m /\ c \notin f /\ 0 < b[2] /\ b[2] <= s[c]
        BY <3>1, <1>0 DEF Held
      <3>3. c # h /\ c \in m2
        BY <3>2
      <3>4. s2[c] = s[c]
        BY <3>3, <1>7
      <3> QED BY <3>1, <3>2, <3>3, <3>4
    <2> QED BY <2>1, <1>0 DEF Held
  <1> QED BY <1>6, <1>7, <1>9, <1>10, <1>11, <1>12 DEF InOrder

Labels == {"idle", "scan", "carve", "relink", "shrink", "take",
           "release", "joinPrev", "joinNext", "backLink"}

\* How far from order the heap is at each statement of kmalloc and kfree.
Stage(t) ==
    LET h == head[t]
        n == req[t]
        cut == [size EXCEPT ![h] = n]
        told == IF h + size[h] < Limit
                THEN [prev EXCEPT ![Following(h)] = NewHeader(t)]
                ELSE prev
        Asked == n \in SIZES /\ n > 0
        Found == h \in magic /\ h \in free
    IN
    /\ pc[t] = "idle" =>
         InOrder(magic, free, size, prev, live, {}, {}, {})
    /\ pc[t] = "scan" =>
         InOrder(magic, free, size, prev, live, {}, {}, {})
           /\ Asked /\ (h \in magic \/ h = 0)
    /\ pc[t] = "carve" =>
         InOrder(magic, free, size, prev, live, {}, {}, {})
           /\ Asked /\ Found /\ n <= size[h]
    /\ pc[t] = "relink" =>
         InOrder(magic, free, cut, told, live, {}, {h}, {}) /\ Asked /\ Found
    /\ pc[t] = "shrink" =>
         InOrder(magic, free, cut, prev, live, {}, {h}, {}) /\ Asked /\ Found
    /\ pc[t] = "take" =>
         InOrder(magic, free, size, prev, live, {}, {h}, {})
           /\ Asked /\ Found /\ n <= size[h]
    /\ pc[t] = "release" =>
         InOrder(magic, free, size, prev, live, {}, {}, {h})
           /\ h \in magic /\ h \notin free
    /\ pc[t] = "joinPrev" =>
         InOrder(magic, free, size, prev, live, {}, {h, prev[h]}, {}) /\ Found
    /\ pc[t] = "joinNext" =>
         InOrder(magic, free, size, prev, live, {EndOf(size, h)}, {h}, {}) /\ Found
    /\ pc[t] = "backLink" =>
         InOrder(magic, free, size, prev, live, {EndOf(size, h)}, {}, {}) /\ Found

LocalTypes ==
    /\ pc \in [TASKS -> Labels]
    /\ req \in [TASKS -> SIZES \cup {0}]
    /\ head \in [TASKS -> Addr]

StageInv(t) == TypeOK /\ LocalTypes /\ (~halted => Stage(t))

\* The wrapping successor of a chunk, and when the code takes it for one.
LEMMA SuccessorOf ==
    ASSUME NEW m, NEW f, NEW p, NEW l, HeapTyped(m, f, size, p, l),
           Tiles(m, size), NEW h \in m
    PROVE  /\ Following(h) = IF EndOf(size, h) = AddrSpace THEN 0 ELSE EndOf(size, h)
           /\ h + size[h] < Limit <=> EndOf(size, h) # AddrSpace
           /\ h < Limit
           /\ Following(h) \in m \cup {0}
  <1>1. /\ h \in Nat /\ size[h] \in Nat /\ size[h] > 0
        /\ EndOf(size, h) = h + size[h] + HDR
        /\ EndOf(size, h) <= AddrSpace
        /\ EndOf(size, h) = AddrSpace \/ EndOf(size, h) \in m
    BY TileFacts
  <1>2. Following(h) = IF EndOf(size, h) = AddrSpace THEN 0 ELSE EndOf(size, h)
    BY <1>1, Consts DEF Following, Plus
  <1> QED BY <1>1, <1>2, Consts

LEMMA InitStage ==
    ASSUME NEW t, TASKS = {t}
    PROVE  StepInit => StageInv(t)
  <1> SUFFICES ASSUME StepInit PROVE StageInv(t)
    OBVIOUS
  <1>1. LinInv /\ TypeOK
    BY InitLinInv DEF StepInit, LinInv
  <1>2. pc[t] = "idle"
    BY DEF StepInit
  <1>3. LocalTypes
    BY Consts DEF StepInit, LocalTypes, Labels
  <1>4. Stage(t)
    BY <1>1, <1>2, InOrderIsLinInv DEF Stage
  <1> QED BY <1>1, <1>3, <1>4 DEF StageInv

\* A kmalloc that is still looking, or was refused, has changed nothing.
LEMMA ScanStage ==
    ASSUME NEW t, TASKS = {t}, StageInv(t),
           \/ \E n \in SIZES : CallKmalloc(t, n)
           \/ ScanOn(t) \/ ScanLeaves(t) \/ ScanEnds(t)
    PROVE  StageInv(t)'
  <1>0. TypeOK /\ LocalTypes /\ ~halted /\ Stage(t)
    BY DEF StageInv, CallKmalloc, ScanOn, ScanLeaves, ScanEnds, At
  <1>1. /\ magic' = magic /\ free' = free /\ size' = size /\ prev' = prev
        /\ live' = live
    BY DEF CallKmalloc, ScanOn, ScanLeaves, ScanEnds, heapVars, vars
  <1>2. InOrder(magic, free, size, prev, live, {}, {}, {})
    BY <1>0 DEF Stage, CallKmalloc, ScanOn, ScanLeaves, ScanEnds, At
  <1>3. HeapTyped(magic, free, size, prev, live) /\ Tiles(magic, size)
    BY <1>2 DEF InOrder
  <1>4. HEAP \in Addr /\ 0 \in Addr /\ HEAP \in magic /\ SIZES \subseteq Nat
        /\ HEAP > 0
    BY <1>3, Consts, HeapAssumption DEF Tiles, HeapAssumption
  <1>5. ASSUME ret' \in Addr, halted' \in BOOLEAN PROVE TypeOK'
    BY <1>5, <1>0, <1>1 DEF TypeOK, Addr, AddrSpace
  <1>6. ret \in Addr /\ halted \in BOOLEAN
    BY <1>0 DEF TypeOK
  <1>7. ASSUME NEW n \in SIZES, CallKmalloc(t, n) PROVE StageInv(t)'
    <2>1. CASE BadRequest(n)
      <3>1. /\ pc' = pc /\ req' = req /\ head' = head /\ pc[t] = "idle"
            /\ ret' = 0 /\ halted' = halted
        BY <1>7, <2>1 DEF CallKmalloc, At, locals
      <3>2. LocalTypes' /\ TypeOK'
        BY <3>1, <1>0, <1>4, <1>5, <1>6 DEF LocalTypes, Addr, AddrSpace
      <3>3. Stage(t)'
        BY <3>1, <1>1, <1>2 DEF Stage
      <3> QED BY <3>2, <3>3 DEF StageInv
    <2>2. CASE ~BadRequest(n)
      <3>1. /\ pc' = [pc EXCEPT ![t] = "scan"] /\ req' = [req EXCEPT ![t] = n]
            /\ head' = [head EXCEPT ![t] = HEAP]
            /\ ret' = ret /\ halted' = halted
        BY <1>7, <2>2 DEF CallKmalloc, Goto
      <3>2. LocalTypes' /\ TypeOK'
        BY <3>1, <1>0, <1>4, <1>5, <1>6 DEF LocalTypes, Addr, AddrSpace, Labels
      <3>3. pc'[t] = "scan" /\ req'[t] = n /\ head'[t] = HEAP
        BY <3>1, <1>0 DEF LocalTypes
      <3>4. n > 0
        BY <2>2, <1>4 DEF BadRequest
      <3>5. Stage(t)'
        BY <3>3, <3>4, <1>1, <1>2, <1>4 DEF Stage
      <3> QED BY <3>2, <3>5 DEF StageInv
    <2> QED BY <2>1, <2>2
  <1>8. CASE ScanOn(t)
    <2>1. /\ pc' = pc /\ req' = req /\ pc[t] = "scan"
          /\ head' = [head EXCEPT ![t] = Following(head[t])]
          /\ ret' = ret /\ halted' = halted
          /\ HEAP <= head[t]
      BY <1>8 DEF ScanOn, At, vars
    <2>2. head[t] \in magic /\ req[t] \in SIZES /\ req[t] > 0
      BY <2>1, <1>0, <1>4, Consts DEF Stage
    <2>3. Following(head[t]) \in magic \cup {0}
      BY <2>2, <1>3, SuccessorOf
    <2>4. Following(head[t]) \in Addr
      BY <2>3, <1>3, <1>4 DEF HeapTyped
    <2>5. LocalTypes' /\ TypeOK'
      BY <2>1, <2>4, <1>0, <1>5, <1>6 DEF LocalTypes, Addr, AddrSpace
    <2>6. head'[t] = Following(head[t])
      BY <2>1, <1>0 DEF LocalTypes
    <2>7. Stage(t)'
      BY <2>1, <2>2, <2>3, <2>6, <1>1, <1>2 DEF Stage
    <2> QED BY <2>5, <2>7 DEF StageInv
  <1>9. CASE ScanLeaves(t)
    <2>1. /\ req' = req /\ head' = head
          /\ \/ ret' = 0 /\ pc' = [pc EXCEPT ![t] = "idle"] /\ halted' = halted
             \/ halted' = TRUE /\ ret' = ret /\ pc' = pc
      BY <1>9 DEF ScanLeaves, Goto
    <2>2. LocalTypes' /\ TypeOK'
      BY <2>1, <1>0, <1>4, <1>5, <1>6 DEF LocalTypes, Addr, AddrSpace, Labels
    <2>3. ~halted' => pc'[t] = "idle"
      BY <2>1, <1>0 DEF LocalTypes
    <2>4. ~halted' => Stage(t)'
      BY <2>3, <1>1, <1>2 DEF Stage
    <2> QED BY <2>2, <2>4 DEF StageInv
  <1>10. CASE ScanEnds(t)
    <2>1. /\ req' = req /\ head' = head /\ pc[t] = "scan"
          /\ pc' = [pc EXCEPT ![t] = "carve"]
          /\ ret' = ret /\ halted' = halted
          /\ HEAP <= head[t] /\ ~(size[head[t]] < req[t]) /\ head[t] \in free
      BY <1>10 DEF ScanEnds, At, vars, Goto, Unfit
    <2>2. head[t] \in magic /\ req[t] \in SIZES /\ req[t] > 0
      BY <2>1, <1>0, <1>4, Consts DEF Stage
    <2>3. LocalTypes' /\ TypeOK'
      BY <2>1, <1>0, <1>5, <1>6 DEF LocalTypes, Addr, AddrSpace, Labels
    <2>4. pc'[t] = "carve"
      BY <2>1, <1>0 DEF LocalTypes
    <2>5. size[head[t]] \in Nat /\ req[t] \in Nat
      BY <2>2, <1>3, <1>4, TileFacts
    <2>6. req[t] <= size[head[t]]
      BY <2>1, <2>5
    <2>7. Stage(t)'
      BY <2>1, <2>2, <2>4, <2>6, <1>1, <1>2 DEF Stage
    <2> QED BY <2>3, <2>7 DEF StageInv
  <1> QED BY <1>7, <1>8, <1>9, <1>10

\* Cutting the block off: the first statement commits the rest.
LEMMA CutStage ==
    ASSUME NEW t, TASKS = {t}, StageInv(t),
           Carve(t) \/ Relink(t) \/ Shrink(t)
    PROVE  StageInv(t)'
  <1>0. TypeOK /\ LocalTypes /\ ~halted /\ Stage(t)
    BY DEF StageInv, Carve, Relink, Shrink, At
  <1> DEFINE h == head[t]
             n == req[t]
             x == h + n + HDR
             cut == [size EXCEPT ![h] = n]
  <1>1. /\ live' = live /\ ret' = ret /\ halted' = halted
        /\ req' = req /\ head' = head
    BY DEF Carve, Relink, Shrink
  <1>2. n \in SIZES /\ n \in Nat /\ n > 0 /\ h \in magic /\ h \in free
    BY <1>0, HeapAssumption DEF Stage, Carve, Relink, Shrink, At, HeapAssumption
  <1>3. \A k \in Labels : pc' = [pc EXCEPT ![t] = k] => pc'[t] = k /\ LocalTypes'
    BY <1>0, <1>1 DEF LocalTypes, Addr, AddrSpace
  <1>4. CASE Carve(t) /\ Splits(h, n)
    <2>1. /\ size' = [size EXCEPT ![x] = size[h] - n - HDR]
          /\ free' = free \cup {x} /\ magic' = magic \cup {x}
          /\ prev' = [prev EXCEPT ![x] = h]
          /\ pc' = [pc EXCEPT ![t] = "relink"]
      BY <1>4 DEF Carve, NewHeader, Goto
    <2>2. InOrder(magic, free, size, prev, live, {}, {}, {}) /\ size[h] > n + HDR
      BY <1>0, <1>4 DEF Stage, Carve, At, Splits
    <2>3. HeapTyped(magic, free, size, prev, live) /\ Tiles(magic, size)
      BY <2>2 DEF InOrder
    <2>4. /\ h \in Nat /\ h \in Addr /\ size[h] \in Nat /\ size[h] \in 0 .. HLIM
          /\ EndOf(size, h) = h + size[h] + HDR
          /\ EndOf(size, h) <= AddrSpace
          /\ EndOf(size, h) = AddrSpace \/ EndOf(size, h) \in magic
      BY <1>2, <2>3, TileFacts
    <2>5. x \in Nat /\ x \in Addr /\ h < x /\ x < EndOf(size, h)
      BY <1>2, <2>2, <2>4, Consts
    <2>6. size'[h] = size[h]
      BY <2>1, <2>3, <2>4, <2>5 DEF HeapTyped
    <2>7. Following(h)' = Following(h)
      BY <1>1, <2>6 DEF Following, Plus, AddrSpace
    <2> DEFINE s2 == [size EXCEPT ![x] = size[h] - n - HDR, ![h] = n]
               p2 == IF EndOf(size, h) # AddrSpace
                     THEN [prev EXCEPT ![x] = h, ![EndOf(size, h)] = x]
                     ELSE [prev EXCEPT ![x] = h]
    <2>8. InOrder(magic \cup {x}, free \cup {x}, s2, p2, live, {}, {h}, {})
      BY <1>2, <2>2, CutInOrder
    <2>9. s2 = [size' EXCEPT ![h] = n]
      BY <2>1, <2>3, <2>4, <2>5 DEF HeapTyped
    <2>10. p2 = IF h + size'[h] < Limit
                THEN [prev' EXCEPT ![Following(h)'] = x] ELSE prev'
      <3>1. /\ Following(h) = IF EndOf(size, h) = AddrSpace THEN 0 ELSE EndOf(size, h)
            /\ h + size[h] < Limit <=> EndOf(size, h) # AddrSpace
        BY <1>2, <2>3, SuccessorOf
      <3> QED BY <3>1, <2>1, <2>3, <2>6, <2>7 DEF HeapTyped
    <2>11. TypeOK'
      <3>1. size[h] - n - HDR \in 0 .. HLIM
        BY <1>2, <2>2, <2>4, Consts
      <3> QED BY <3>1, <1>0, <1>1, <2>1, <2>4, <2>5 DEF TypeOK, Addr, AddrSpace
    <2>12. pc'[t] = "relink" /\ LocalTypes'
      BY <2>1, <1>3 DEF Labels
    <2>13. NewHeader(t)' = x /\ head'[t] = h /\ req'[t] = n
      BY <1>1 DEF NewHeader
    <2> HIDE DEF s2, p2
    <2>14. Following(head[t])' = Following(h)'
      BY <1>1 DEF Following
    <2>15. Stage(t)'
      BY <2>1, <2>8, <2>9, <2>10, <2>12, <2>13, <2>14, <1>1, <1>2 DEF Stage, Limit
    <2> QED BY <2>11, <2>12, <2>15 DEF StageInv
  <1>5. CASE Carve(t) /\ ~Splits(h, n)
    <2>1. /\ magic' = magic /\ free' = free /\ size' = size /\ prev' = prev
          /\ pc' = [pc EXCEPT ![t] = "take"]
      BY <1>5 DEF Carve, Goto, heapVars
    <2>2. InOrder(magic, free, size, prev, live, {}, {}, {}) /\ n <= size[h]
      BY <1>0, <1>5 DEF Stage, Carve, At
    <2>3. InOrder(magic, free, size, prev, live, {}, {h}, {})
      BY <2>2 DEF InOrder, Joined
    <2>4. pc'[t] = "take" /\ LocalTypes'
      BY <2>1, <1>3 DEF Labels
    <2>5. TypeOK'
      BY <1>0, <1>1, <2>1 DEF TypeOK, Addr, AddrSpace
    <2>6. Stage(t)'
      BY <2>1, <2>2, <2>3, <2>4, <1>1, <1>2 DEF Stage
    <2> QED BY <2>4, <2>5, <2>6 DEF StageInv
  <1>6. CASE Relink(t)
    <2>1. /\ magic' = magic /\ free' = free /\ size' = size
          /\ prev' = IF h + size[h] < Limit
                     THEN [prev EXCEPT ![Following(h)] = NewHeader(t)] ELSE prev
          /\ pc' = [pc EXCEPT ![t] = "shrink"]
      BY <1>6 DEF Relink, Goto
    <2>2. InOrder(magic, free, cut, prev', live, {}, {h}, {})
      BY <1>0, <1>6, <2>1 DEF Stage, Relink, At
    <2>3. pc'[t] = "shrink" /\ LocalTypes'
      BY <2>1, <1>3 DEF Labels
    <2>4. TypeOK'
      <3>1. prev' \in [Addr -> Addr]
        BY <2>2 DEF InOrder, HeapTyped
      <3> QED BY <3>1, <1>0, <1>1, <2>1 DEF TypeOK, Addr, AddrSpace
    <2>5. Stage(t)'
      BY <2>1, <2>2, <2>3, <1>1, <1>2 DEF Stage
    <2> QED BY <2>3, <2>4, <2>5 DEF StageInv
  <1>7. CASE Shrink(t)
    <2>1. /\ magic' = magic /\ free' = free /\ prev' = prev /\ size' = cut
          /\ pc' = [pc EXCEPT ![t] = "take"]
      BY <1>7 DEF Shrink, Goto
    <2>2. InOrder(magic, free, cut, prev, live, {}, {h}, {})
      BY <1>0, <1>7 DEF Stage, Shrink, At
    <2>3. pc'[t] = "take" /\ LocalTypes'
      BY <2>1, <1>3 DEF Labels
    <2>4. TypeOK'
      <3>1. size' \in [Addr -> 0 .. HLIM]
        BY <2>1, <2>2 DEF InOrder, HeapTyped
      <3> QED BY <3>1, <1>0, <1>1, <2>1 DEF TypeOK, Addr, AddrSpace
    <2>5. n <= size'[h]
      BY <1>0, <1>2, <2>1 DEF TypeOK
    <2>6. Stage(t)'
      BY <2>1, <2>2, <2>3, <2>5, <1>1, <1>2 DEF Stage
    <2> QED BY <2>3, <2>4, <2>6 DEF StageInv
  <1> QED BY <1>4, <1>5, <1>6, <1>7

\* Handing the block out, and giving it back.
LEMMA OwnerStage ==
    ASSUME NEW t, TASKS = {t}, StageInv(t),
           \/ Take(t)
           \/ \E b \in live : CallKfree(t, b)
           \/ MarkFree(t)
    PROVE  StageInv(t)'
  <1>0. TypeOK /\ LocalTypes /\ ~halted /\ Stage(t)
    BY DEF StageInv, Take, CallKfree, MarkFree, At
  <1> DEFINE h == head[t]
             n == req[t]
  <1>1. /\ magic' = magic /\ size' = size /\ prev' = prev
        /\ halted' = halted /\ req' = req
    BY DEF Take, CallKfree, MarkFree, heapVars
  <1>2. \A k \in Labels : pc' = [pc EXCEPT ![t] = k] /\ head' = head
                            => pc'[t] = k /\ LocalTypes'
    BY <1>0, <1>1 DEF LocalTypes, Addr, AddrSpace
  <1>3. CASE Take(t)
    <2> DEFINE nb == <<h + HDR, n>>
    <2>1. /\ free' = free \ {h} /\ live' = live \cup {nb} /\ ret' = h + HDR
          /\ pc' = [pc EXCEPT ![t] = "idle"] /\ head' = head
      BY <1>3 DEF Take, Goto
    <2>2. /\ InOrder(magic, free, size, prev, live, {}, {h}, {})
          /\ n \in SIZES /\ n > 0 /\ h \in magic /\ h \in free /\ n <= size[h]
      BY <1>0, <1>3 DEF Stage, Take, At
    <2>3. /\ HeapTyped(magic, free, size, prev, live) /\ Tiles(magic, size)
          /\ Linked(magic, size, prev, {}) /\ Joined(magic, free, size, {h})
          /\ Held(magic, free, size, live, {})
      BY <2>2 DEF InOrder
    <2>4. /\ h \in Nat /\ size[h] \in Nat /\ size[h] > 0
          /\ h + size[h] + HDR <= AddrSpace
      BY <2>2, <2>3, TileFacts
    <2>5. h + HDR \in Addr /\ h + HDR \in Nat
      BY <2>4, Consts
    <2>6. HeapTyped(magic, free', size, prev, live')
      BY <2>1, <2>2, <2>3, <2>5 DEF HeapTyped
    <2>7. Joined(magic, free', size, {})
      BY <2>1, <2>3 DEF Joined
    <2>8. Held(magic, free', size, live', {})
      <3>1. nb[1] - HDR = h /\ nb[2] = n /\ nb[1] = h + HDR /\ nb \in live'
        BY <2>1, <2>4, Consts
      <3>2. \A b \in live : b[1] - HDR # h /\ b[1] # nb[1]
        BY <2>2, <2>3, <3>1 DEF Held
      <3>3. \A b \in live' : b \in live \/ b = nb
        BY <2>1
      <3> HIDE DEF nb
      <3>4. ASSUME NEW b \in live'
            PROVE  /\ b[1] - HDR \in magic /\ b[1] - HDR \notin free'
                   /\ 0 < b[2] /\ b[2] <= size[b[1] - HDR]
        <4>1. CASE b = nb
          <5>1. b[1] - HDR = h /\ b[2] = n
            BY <4>1, <3>1
          <5>2. h \notin free'
            BY <2>1
          <5> QED BY <5>1, <5>2, <2>2, <2>4, HeapAssumption DEF HeapAssumption
        <4>2. CASE b \in live
          BY <4>2, <2>1, <2>3 DEF Held
        <4> QED BY <4>1, <4>2, <3>3
      <3>5. ASSUME NEW a \in magic, a \notin free'
            PROVE  \E b \in live' : b[1] = a + HDR
        <4>1. CASE a = h
          BY <4>1, <3>1
        <4>2. CASE a # h
          BY <4>2, <3>5, <2>1, <2>3 DEF Held
        <4> QED BY <4>1, <4>2
      <3>6. \A b, c \in live' : b[1] = c[1] => b = c
        BY <3>2, <3>3, <2>3 DEF Held
      <3> QED BY <3>4, <3>5, <3>6 DEF Held
    <2>9. pc'[t] = "idle" /\ LocalTypes'
      BY <2>1, <1>2 DEF Labels
    <2>10. TypeOK'
      BY <1>0, <1>1, <2>1, <2>5, <2>6 DEF TypeOK, HeapTyped, Addr, AddrSpace
    <2>11. Stage(t)'
      BY <1>1, <2>3, <2>6, <2>7, <2>8, <2>9 DEF Stage, InOrder
    <2> QED BY <2>9, <2>10, <2>11 DEF StageInv
  <1>4. ASSUME NEW b \in live, CallKfree(t, b) PROVE StageInv(t)'
    <2> DEFINE g == b[1] - HDR
    <2>1. /\ free' = free /\ live' = live \ {b} /\ ret' = ret
          /\ pc' = [pc EXCEPT ![t] = "release"]
          /\ head' = [head EXCEPT ![t] = g]
      BY <1>4 DEF CallKfree, Goto, heapVars
    <2>2. InOrder(magic, free, size, prev, live, {}, {}, {})
      BY <1>0, <1>4 DEF Stage, CallKfree, At
    <2>3. /\ HeapTyped(magic, free, size, prev, live) /\ Tiles(magic, size)
          /\ Linked(magic, size, prev, {}) /\ Joined(magic, free, size, {})
          /\ Held(magic, free, size, live, {})
      BY <2>2 DEF InOrder
    <2>4. g \in magic /\ g \notin free /\ g \in Addr
      BY <2>3 DEF Held, HeapTyped
    <2>5. pc'[t] = "release" /\ head'[t] = g /\ LocalTypes'
      BY <1>0, <1>1, <2>1, <2>4 DEF LocalTypes, Labels, Addr, AddrSpace
    <2>6. TypeOK'
      BY <1>0, <1>1, <2>1 DEF TypeOK, Addr, AddrSpace
    <2>7. \A c \in live : c[1] \in Nat
      BY <2>3, Consts DEF HeapTyped
    <2>8. \A a \in magic : a \in Nat
      BY <2>3, TileFacts
    <2>9. Held(magic, free', size, live', {g})
      <3>1. ASSUME NEW c \in live'
            PROVE  c \in live /\ c[1] - HDR # g
        BY <2>1, <2>3, <2>7, Consts DEF Held
      <3>2. ASSUME NEW a \in magic, a \notin free, a # g
            PROVE  \E c \in live' : c[1] = a + HDR
        <4>1. PICK c \in live : c[1] = a + HDR
          BY <3>2, <2>3 DEF Held
        <4>2. c # b
          BY <4>1, <3>2, <2>7, <2>8, Consts
        <4> QED BY <4>1, <4>2, <2>1
      <3> QED BY <3>1, <3>2, <2>1, <2>3 DEF Held
    <2>10. HeapTyped(magic, free', size, prev, live')
      BY <2>1, <2>3 DEF HeapTyped
    <2> HIDE DEF g
    <2>11. Stage(t)'
      BY <1>1, <2>1, <2>3, <2>4, <2>5, <2>9, <2>10 DEF Stage, InOrder
    <2> QED BY <2>5, <2>6, <2>11 DEF StageInv
  <1>5. CASE MarkFree(t)
    <2>1. /\ free' = free \cup {h} /\ live' = live /\ ret' = ret
          /\ pc' = [pc EXCEPT ![t] = "joinPrev"] /\ head' = head
      BY <1>5 DEF MarkFree, Goto
    <2>2. InOrder(magic, free, size, prev, live, {}, {}, {h}) /\ h \in magic
      BY <1>0, <1>5 DEF Stage, MarkFree, At
    <2>3. /\ HeapTyped(magic, free, size, prev, live) /\ Tiles(magic, size)
          /\ Linked(magic, size, prev, {}) /\ Joined(magic, free, size, {})
          /\ Held(magic, free, size, live, {h})
      BY <2>2 DEF InOrder
    <2>4. HeapTyped(magic, free', size, prev, live)
      BY <2>1, <2>2, <2>3 DEF HeapTyped
    <2>5. Held(magic, free', size, live, {})
      BY <2>1, <2>3 DEF Held
    <2>6. Joined(magic, free', size, {h, prev[h]})
      <3> SUFFICES ASSUME NEW a \in magic, a # h, a \in free',
                          EndOf(size, a) \in magic, EndOf(size, a) \in free'
                   PROVE  a = prev[h]
        BY DEF Joined
      <3>1. CASE EndOf(size, a) = h
        <4>1. a \in Nat /\ HEAP <= a /\ a < h
          BY <3>1, <2>3, TileFacts
        <4>2. h # HEAP /\ h \in Nat
          BY <4>1, <2>2, <2>3, TileFacts, Consts
        <4>3. prev[h] \in magic /\ EndOf(size, prev[h]) = h
          BY <4>2, <2>2, <2>3 DEF Linked
        <4> QED BY <3>1, <4>3, <2>3, OneEnd
      <3>2. CASE EndOf(size, a) # h
        BY <3>2, <2>1, <2>3 DEF Joined
      <3> QED BY <3>1, <3>2
    <2>7. pc'[t] = "joinPrev" /\ LocalTypes'
      BY <2>1, <1>2 DEF Labels
    <2>8. TypeOK'
      BY <1>0, <1>1, <2>1, <2>4 DEF TypeOK, HeapTyped, Addr, AddrSpace
    <2>9. Stage(t)'
      BY <1>1, <2>1, <2>2, <2>3, <2>4, <2>5, <2>6, <2>7 DEF Stage, InOrder
    <2> QED BY <2>7, <2>8, <2>9 DEF StageInv
  <1> QED BY <1>3, <1>4, <1>5

\* The three statements of kfree that join the chunk with its neighbours.
LEMMA JoinStage ==
    ASSUME NEW t, TASKS = {t}, StageInv(t),
           JoinPrev(t) \/ JoinNext(t) \/ BackLink(t)
    PROVE  StageInv(t)'
  <1>0. TypeOK /\ LocalTypes /\ ~halted /\ Stage(t)
    BY DEF StageInv, JoinPrev, JoinNext, BackLink, At
  <1> DEFINE h == head[t]
             q == prev[h]
             e == EndOf(size, h)
  <1>1. /\ free' = free /\ live' = live /\ ret' = ret
        /\ halted' = halted /\ req' = req
    BY DEF JoinPrev, JoinNext, BackLink
  <1>2. ASSUME NEW k \in Labels, pc' = [pc EXCEPT ![t] = k],
               NEW a \in Addr, head' = [head EXCEPT ![t] = a]
        PROVE  pc'[t] = k /\ head'[t] = a /\ LocalTypes'
    BY <1>2, <1>0, <1>1 DEF LocalTypes, Addr, AddrSpace
  <1>3. ASSUME HeapTyped(magic', free', size', prev', live') PROVE TypeOK'
    BY <1>3, <1>0, <1>1 DEF TypeOK, HeapTyped, Addr, AddrSpace
  <1>4. head' = head => head' = [head EXCEPT ![t] = h]
    BY <1>0 DEF LocalTypes
  <1>5. h \in magic /\ h \in free /\ h \in Addr
    BY <1>0 DEF Stage, JoinPrev, JoinNext, BackLink, At, LocalTypes
  <1>6. CASE JoinPrev(t)
    <2>1. InOrder(magic, free, size, prev, live, {}, {h, q}, {})
      BY <1>0, <1>6 DEF Stage, JoinPrev, At
    <2>2. /\ HeapTyped(magic, free, size, prev, live) /\ Tiles(magic, size)
          /\ Linked(magic, size, prev, {}) /\ Joined(magic, free, size, {h, q})
          /\ Held(magic, free, size, live, {})
      BY <2>1 DEF InOrder
    <2>3. pc' = [pc EXCEPT ![t] = "joinNext"]
      BY <1>6 DEF JoinPrev, Goto
    <2>4. h = HEAP => q = 0
      BY <2>2 DEF Linked
    <2>5. h # HEAP => q \in magic /\ EndOf(size, q) = h
      BY <2>2, <1>5 DEF Linked
    <2>6. CASE Joinable(q)
      <3>1. /\ size' = [size EXCEPT ![q] = size[q] + size[h] + HDR, ![h] = 0]
            /\ magic' = magic \ {h}
            /\ prev' = [prev EXCEPT ![h] = 0]
            /\ head' = [head EXCEPT ![t] = q]
        BY <1>6, <2>6 DEF JoinPrev
      <3>2. q \in magic /\ q \in free /\ h = EndOf(size, q)
        BY <2>4, <2>5, <2>6 DEF Joinable
      <3>3. q \in Addr /\ q # h
        BY <3>2, <2>2, TileFacts
      <3>4. InOrder(magic', free, size', prev', live, {EndOf(size', q)}, {q}, {})
        <4>1. {} \subseteq {h} /\ {h, q} \subseteq {q, h} /\ q \in {q}
          OBVIOUS
        <4>2. Merging(magic, free, size, prev, live, {}, {h, q}, q, h,
                      magic', size', prev', {q})
          BY <4>1, <1>5, <2>1, <3>1, <3>2 DEF Merging
        <4> HIDE DEF h, q
        <4> QED BY <4>2, MergeInOrder
      <3>5. pc'[t] = "joinNext" /\ head'[t] = q /\ LocalTypes'
        BY <1>2, <2>3, <3>1, <3>3 DEF Labels
      <3>6. TypeOK'
        BY <1>1, <1>3, <3>4 DEF InOrder
      <3>7. q \in magic'
        BY <3>1, <3>2, <3>3
      <3> HIDE DEF q
      <3>8. Stage(t)'
        BY <1>1, <3>2, <3>4, <3>5, <3>7 DEF Stage
      <3> QED BY <3>5, <3>6, <3>8 DEF StageInv
    <2>7. CASE ~Joinable(q)
      <3>1. size' = size /\ magic' = magic /\ prev' = prev /\ head' = head
        BY <1>6, <2>7 DEF JoinPrev
      <3>2. ~(q \in magic /\ q \in free)
        <4>1. 0 \notin magic
          BY <2>2, TileFacts, Consts
        <4> QED BY <4>1, <2>7 DEF Joinable
      <3>3. InOrder(magic, free, size, prev, live, {e}, {h}, {})
        <4>1. Joined(magic, free, size, {h})
          BY <2>2, <3>2 DEF Joined
        <4>2. Linked(magic, size, prev, {e})
          BY <2>2 DEF Linked
        <4> QED BY <4>1, <4>2, <2>2 DEF InOrder
      <3>4. pc'[t] = "joinNext" /\ head'[t] = h /\ LocalTypes'
        BY <1>2, <1>4, <1>5, <2>3, <3>1 DEF Labels
      <3>5. TypeOK'
        BY <1>1, <1>3, <2>2, <3>1
      <3>6. Stage(t)'
        BY <1>1, <1>5, <3>1, <3>3, <3>4 DEF Stage
      <3> QED BY <3>4, <3>5, <3>6 DEF StageInv
    <2> QED BY <2>6, <2>7
  <1>7. CASE JoinNext(t)
    <2> DEFINE x == Following(h)
    <2>1. InOrder(magic, free, size, prev, live, {e}, {h}, {})
      BY <1>0, <1>7 DEF Stage, JoinNext, At
    <2>2. /\ HeapTyped(magic, free, size, prev, live) /\ Tiles(magic, size)
          /\ Linked(magic, size, prev, {e}) /\ Joined(magic, free, size, {h})
          /\ Held(magic, free, size, live, {})
      BY <2>1 DEF InOrder
    <2>3. pc' = [pc EXCEPT ![t] = "backLink"] /\ head' = head
      BY <1>7 DEF JoinNext, Goto
    <2>4. x = IF e = AddrSpace THEN 0 ELSE e
      BY <1>5, <2>2, SuccessorOf
    <2>5. pc'[t] = "backLink" /\ head'[t] = h /\ LocalTypes'
      BY <1>2, <1>4, <1>5, <2>3 DEF Labels
    <2>6. CASE Swallows(x)
      <3>1. x \in magic /\ x \in free /\ x = e
        BY <2>4, <2>6 DEF Swallows
      <3>2. /\ size' = [size EXCEPT ![h] = size[h] + size[x] + HDR, ![x] = 0]
            /\ magic' = magic \ {x}
            /\ prev' = [prev EXCEPT ![x] = 0]
        BY <1>7, <2>6 DEF JoinNext
      <3>3. x # h
        BY <3>1, <1>5, <2>2, TileFacts
      <3>4. InOrder(magic', free, size', prev', live, {EndOf(size', h)}, {}, {})
        <4>1. {e} \subseteq {x} /\ {h} \subseteq {h, x} /\ x \notin {h}
          BY <3>1, <3>3
        <4> HIDE DEF x
        <4>2. Merging(magic, free, size, prev, live, {e}, {h}, h, x,
                      magic', size', prev', {})
          BY <4>1, <1>5, <2>1, <3>1, <3>2 DEF Merging
        <4> HIDE DEF h, e
        <4> QED BY <4>2, MergeInOrder
      <3>5. TypeOK'
        BY <1>1, <1>3, <3>4 DEF InOrder
      <3>6. h \in magic'
        BY <1>5, <3>2, <3>3
      <3>7. Stage(t)'
        BY <1>1, <1>5, <2>5, <3>4, <3>6 DEF Stage
      <3> QED BY <2>5, <3>5, <3>7 DEF StageInv
    <2>7. CASE ~Swallows(x)
      <3>1. size' = size /\ magic' = magic /\ prev' = prev
        BY <1>7, <2>7 DEF JoinNext
      <3>2. ~(e \in magic /\ e \in free)
        <4> SUFFICES ASSUME e \in magic, e \in free PROVE FALSE
          OBVIOUS
        <4>1. e < Limit /\ e \in Nat /\ HEAP <= e /\ e < AddrSpace
          BY <2>2, SuccessorOf, TileFacts
        <4>2. x = e /\ x # 0
          BY <4>1, <2>4, Consts
        <4> QED BY <4>1, <4>2, <2>7 DEF Swallows
      <3>3. InOrder(magic, free, size, prev, live, {e}, {}, {})
        BY <2>2, <3>2 DEF InOrder, Joined
      <3>4. TypeOK'
        BY <1>1, <1>3, <2>2, <3>1
      <3>5. Stage(t)'
        BY <1>1, <1>5, <2>5, <3>1, <3>3 DEF Stage
      <3> QED BY <2>5, <3>4, <3>5 DEF StageInv
    <2> QED BY <2>6, <2>7
  <1>8. CASE BackLink(t)
    <2> DEFINE x == Following(h)
    <2>1. InOrder(magic, free, size, prev, live, {e}, {}, {})
      BY <1>0, <1>8 DEF Stage, BackLink, At
    <2>2. /\ HeapTyped(magic, free, size, prev, live) /\ Tiles(magic, size)
          /\ Linked(magic, size, prev, {e}) /\ Joined(magic, free, size, {})
          /\ Held(magic, free, size, live, {})
      BY <2>1 DEF InOrder
    <2>3. /\ pc' = [pc EXCEPT ![t] = "idle"] /\ head' = head
          /\ magic' = magic /\ size' = size
          /\ prev' = IF x # 0 /\ x < Limit /\ x \in magic
                     THEN [prev EXCEPT ![x] = h] ELSE prev
      BY <1>8 DEF BackLink, Goto
    <2>4. x = IF e = AddrSpace THEN 0 ELSE e
      BY <1>5, <2>2, SuccessorOf
    <2>5. pc'[t] = "idle" /\ LocalTypes'
      BY <1>2, <1>4, <1>5, <2>3 DEF Labels
    <2>6. /\ h \in Nat /\ HEAP <= h /\ h < e /\ e \in Nat
          /\ e = AddrSpace \/ e \in magic
      BY <1>5, <2>2, TileFacts
    <2>7. prev' \in [Addr -> Addr] /\ \A a \in magic : a # e => prev'[a] = prev[a]
      BY <1>5, <2>2, <2>3, <2>4 DEF HeapTyped
    <2>8. e \in magic => prev'[e] = h
      <3> SUFFICES ASSUME e \in magic PROVE prev'[e] = h
        OBVIOUS
      <3>1. e < Limit /\ e \in Addr /\ e < AddrSpace
        BY <2>2, SuccessorOf, TileFacts
      <3>2. x = e /\ x # 0
        BY <3>1, <2>4, <2>6, Consts
      <3> QED BY <3>1, <3>2, <2>2, <2>3 DEF HeapTyped
    <2>9. Linked(magic, size, prev', {})
      <3>1. HEAP # e /\ HEAP \in magic
        BY <2>2, <2>6, Consts DEF Tiles
      <3>2. prev'[HEAP] = 0
        BY <3>1, <2>2, <2>7 DEF Linked
      <3>3. ASSUME NEW a \in magic, a # HEAP
            PROVE  prev'[a] \in magic /\ EndOf(size, prev'[a]) = a
        <4>1. CASE a = e
          BY <4>1, <2>8, <1>5
        <4>2. CASE a # e
          BY <4>2, <3>3, <2>2, <2>7 DEF Linked
        <4> QED BY <4>1, <4>2
      <3> QED BY <3>2, <3>3 DEF Linked
    <2>10. HeapTyped(magic, free, size, prev', live)
      BY <2>2, <2>7 DEF HeapTyped
    <2>11. TypeOK'
      BY <1>1, <1>3, <2>3, <2>10
    <2>12. Stage(t)'
      BY <1>1, <2>2, <2>3, <2>5, <2>9, <2>10 DEF Stage, InOrder
    <2> QED BY <2>5, <2>11, <2>12 DEF StageInv
  <1> QED BY <1>6, <1>7, <1>8

\* Every statement that one task executes keeps the place's own invariant.
LEMMA StepStage ==
    ASSUME NEW t, TASKS = {t}
    PROVE  StageInv(t) /\ [StepNext]_stepVars => StageInv(t)'
  <1> SUFFICES ASSUME StageInv(t), [StepNext]_stepVars PROVE StageInv(t)'
    OBVIOUS
  <1>1. CASE UNCHANGED stepVars
    <2>1. /\ magic' = magic /\ free' = free /\ size' = size /\ prev' = prev
          /\ live' = live /\ ret' = ret /\ halted' = halted
          /\ pc' = pc /\ req' = req /\ head' = head
      BY <1>1 DEF stepVars, vars, locals
    <2>2. TypeOK' /\ LocalTypes'
      BY <2>1 DEF StageInv, TypeOK, LocalTypes, Addr, AddrSpace
    <2>3. ~halted' => Stage(t)'
      BY <2>1 DEF StageInv, Stage, Following, NewHeader, Plus, AddrSpace, Limit
    <2> QED BY <2>2, <2>3 DEF StageInv
  <1>2. CASE StepNext
    <2>1. \/ \E n \in SIZES : CallKmalloc(t, n)
          \/ \E b \in live : CallKfree(t, b)
          \/ Step(t)
      BY <1>2 DEF StepNext
    <2> QED BY <2>1, ScanStage, CutStage, OwnerStage, JoinStage DEF Step
  <1> QED BY <1>1, <1>2

\* What the atomic calls keep, they also leave behind when they are executed
\* statement by statement: whenever the only task is outside kmalloc and kfree,
\* the chunks tile the heap, are linked and joined, and the used ones are held.
THEOREM HeapStepsAtRest ==
    ASSUME NEW t, TASKS = {t}
    PROVE  StepSpec => []HeapAtRest
  <1>1. StageInv(t) => HeapAtRest
    <2> SUFFICES ASSUME StageInv(t), ~halted, pc[t] = "idle"
                 PROVE  ChunksLinked /\ Coalesced /\ UsedChunksAreLive /\ WholeAgain
      BY DEF HeapAtRest
    <2>1. LinInv
      BY InOrderIsLinInv DEF StageInv, Stage
    <2> QED BY <2>1, LinInvImplies, LinInvWhole
  <1>2. StepInit => StageInv(t)
    BY InitStage
  <1>3. StageInv(t) /\ [StepNext]_stepVars => StageInv(t)'
    BY StepStage
  <1> QED BY <1>1, <1>2, <1>3, PTL DEF StepSpec
=============================================================================
