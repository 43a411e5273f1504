------------------------- MODULE PageTables_proofs -------------------------
(***************************************************************************)
(* Proofs about PageTables, for one caller at a time and tables of any     *)
(* depth and width, any memory and any history of calls, forks and CPUs    *)
(* that came up:                                                           *)
(*   - mount_page takes effect, in the tables and, unless the processor    *)
(*     may still keep an older translation, for it (PageMountTakesEffect); *)
(*   - a call changes the translation of the page it was made for and no   *)
(*     other, and that is as asked when it returns, i.e. the tables        *)
(*     implement AddressMap (PageImplementsMap);                           *)
(*   - the tables on the way to a program's page have r3_access            *)
(*     (PageUserReachable);                                                *)
(*   - address spaces share the kernel's page table and no other           *)
(*     (PageSpacesApart);                                                  *)
(*   - an access to the heap can go on after the page fault, whatever      *)
(*     space it was made in (PageFaultResolved).                           *)
(*                                                                         *)
(* The first to the third rest on the tables being a tree: a table is    *)
(* met on one level and on the way of the addresses with one prefix only   *)
(* (OwnPlace), and a new one comes empty from the free pages, so entering  *)
(* it changes no translation.  copy_page keeps that tree, because it only  *)
(* writes to pages it allocates; this is shown by induction on its         *)
(* recursion.  For the last two every table gets a label that says whose   *)
(* it is and how high it stands (Labelled), and the same induction shows   *)
(* that copy_page builds a tree with labels of its own (CopySpace).        *)
(***************************************************************************)
EXTENDS PageTables, FiniteSetTheorems, Induction, TLAPS

\* What the processor does by itself, it does to the translations it keeps.
LEMMA ProcessorOnly ==
  ASSUME Processor \/ UNCHANGED vars
  PROVE  UNCHANGED <<mem, avail, window, spaces, cr3, replaced, walkVars>>
<1>1. CASE Processor
  BY <1>1 DEF Processor, Keep, Drop
<1>2. CASE UNCHANGED vars
  BY <1>2 DEF vars, tlbVars
<1> QED
  BY <1>1, <1>2

(***************************************************************************)
(* copy_page.  Its recursion ends: a call is made for a smaller level or   *)
(* for a later entry, so Size decreases.                                   *)
(***************************************************************************)
CopyResult == [frame : Frames, store : Store]

\* The calls copy_page makes: for the next entry, for the table below, and for
\* the next entry once that has been copied.
NextEntry(x) == [x EXCEPT !.i = @ + 1]
TableBelow(x) == [k |-> x.k - 1, i |-> 0, f |-> x.buf[x.i].frame,
                  buf |-> ReadPage(x.s, x.buf[x.i].frame), s |-> x.s]
AfterBelow(x, sub) ==
    [x EXCEPT !.i = @ + 1, !.s = sub.store,
              !.buf = [@ EXCEPT ![x.i].frame = sub.frame]]

CopyBody(g, x) ==
    IF x.k = 0 \/ x.i = WIDTH
    THEN LET p == Lowest(x.s.avail)
         IN [frame |-> p,
             store |-> [mem |-> [x.s.mem EXCEPT ![p] = x.buf], avail |-> x.s.avail \ {p}]]
    ELSE IF x.buf[x.i].frame = 0 THEN g[NextEntry(x)]
    ELSE IF x.k = 1 /\ x.i = 0 /\ x.buf[x.i].frame = KPT THEN [frame |-> x.f, store |-> x.s]
    ELSE g[AfterBelow(x, g[TableBelow(x)])]

Size(x) == x.k * (WIDTH + 1) + (WIDTH - x.i)

\* What a copy leaves alone: page 0 and the pages it took apart, everything.
Kept(s, t) ==
    /\ t.avail \subseteq s.avail
    /\ \A f \in Frames \ {0} : f \notin s.avail \ t.avail => t.mem[f] = s.mem[f]

LEMMA LowestIn ==
  ASSUME NEW s \in SUBSET FRAMES
  PROVE  IF s = {} THEN Lowest(s) = 0 ELSE Lowest(s) \in s
<1>1. CASE s = {}
  BY <1>1 DEF Lowest
<1>2. CASE s # {}
  <2>1. s \in SUBSET Nat
    BY PageAssumption DEF PageAssumption
  <2>2. \E f \in s : \A g \in s : f <= g
    BY <1>2, <2>1, LeastNatural
  <2> QED
    BY <1>2, <2>2 DEF Lowest
<1> QED
  BY <1>1, <1>2

LEMMA LowestFrame ==
  ASSUME NEW s \in SUBSET FRAMES
  PROVE  Lowest(s) \in Frames
  BY LowestIn DEF Frames

LEMMA CallFacts ==
  ASSUME NEW x \in CopyCall, x.k # 0, x.i # WIDTH
  PROVE  /\ x.k \in 1 .. LEVELS /\ x.i \in IDX /\ x.i \in 0 .. (WIDTH - 1) /\ x.i + 1 \in 0 .. WIDTH
         /\ x.f \in Frames /\ x.s \in Store /\ x.buf \in [IDX -> Entry]
         /\ x.buf[x.i] \in Entry /\ x.buf[x.i].frame \in Frames
         /\ x.s.mem \in [Frames -> [IDX -> Entry]] /\ x.s.avail \in SUBSET FRAMES
<1>1. /\ x.k \in 0 .. LEVELS /\ x.i \in 0 .. WIDTH /\ x.f \in Frames
      /\ x.s \in Store /\ x.buf \in [IDX -> Entry]
  BY DEF CopyCall
<1>2. x.k \in 1 .. LEVELS /\ x.i \in IDX /\ x.i \in 0 .. (WIDTH - 1) /\ x.i + 1 \in 0 .. WIDTH
  BY <1>1, PageAssumption DEF PageAssumption, IDX
<1>3. x.buf[x.i] \in Entry
  BY <1>1, <1>2
<1>4. x.buf[x.i].frame \in Frames
  BY <1>3 DEF Entry
<1>5. x.s.mem \in [Frames -> [IDX -> Entry]] /\ x.s.avail \in SUBSET FRAMES
  BY <1>1 DEF Store
<1> QED
  BY <1>1, <1>2, <1>3, <1>4, <1>5

LEMMA KptFrame == /\ KPT \in Frames /\ KPT # 0 /\ 0 \in IDX /\ 0 \in Frames
                  /\ PML4 \in Frames /\ PML4 # 0 /\ LEVELS \in Nat /\ WIDTH \in Nat \ {0}
<1>1. LEVELS \in Levels /\ 1 \in Levels
  BY PageAssumption DEF PageAssumption, Levels
<1>2. KPT \in Range(KTABLES) /\ PML4 \in Range(KTABLES)
  BY <1>1, PageAssumption DEF PageAssumption, KPT, PML4, Range
<1> QED
  BY <1>1, <1>2, PageAssumption DEF PageAssumption, IDX, Frames, KPT, PML4

LEMMA ReadType ==
  ASSUME NEW s \in Store, NEW f \in Frames
  PROVE  ReadPage(s, f) \in [IDX -> Entry]
<1>1. s.mem[f] \in [IDX -> Entry]
  BY DEF Store
<1>2. Page(KPT, 0) \in Entry
  BY KptFrame DEF Page, Entry, Bit
<1> QED
  BY <1>1, <1>2, KptFrame DEF ReadPage

LEMMA NextEntryCall ==
  ASSUME NEW x \in CopyCall, x.k # 0, x.i # WIDTH
  PROVE  /\ NextEntry(x) \in CopyCall
         /\ NextEntry(x).k = x.k /\ NextEntry(x).i = x.i + 1 /\ NextEntry(x).s = x.s
  BY CallFacts DEF NextEntry, CopyCall

LEMMA TableBelowCall ==
  ASSUME NEW x \in CopyCall, x.k # 0, x.i # WIDTH
  PROVE  /\ TableBelow(x) \in CopyCall
         /\ TableBelow(x).k = x.k - 1 /\ TableBelow(x).i = 0 /\ TableBelow(x).s = x.s
<1>1. ReadPage(x.s, x.buf[x.i].frame) \in [IDX -> Entry]
  BY CallFacts, ReadType
<1>2. x.k - 1 \in 0 .. LEVELS /\ 0 \in 0 .. WIDTH
  BY CallFacts, KptFrame
<1> QED
  BY <1>1, <1>2, CallFacts DEF TableBelow, CopyCall

LEMMA AfterBelowCall ==
  ASSUME NEW x \in CopyCall, x.k # 0, x.i # WIDTH, NEW sub \in CopyResult
  PROVE  /\ AfterBelow(x, sub) \in CopyCall
         /\ AfterBelow(x, sub).k = x.k /\ AfterBelow(x, sub).i = x.i + 1
         /\ AfterBelow(x, sub).s = sub.store
<1> DEFINE b == [x.buf EXCEPT ![x.i].frame = sub.frame]
<1>1. b \in [IDX -> Entry]
  <2>1. [x.buf[x.i] EXCEPT !.frame = sub.frame] \in Entry
    BY CallFacts DEF Entry, CopyResult
  <2>2. b = [x.buf EXCEPT ![x.i] = [x.buf[x.i] EXCEPT !.frame = sub.frame]]
    OBVIOUS
  <2> QED
    BY <2>1, <2>2, CallFacts
<1>2. AfterBelow(x, sub) = [x EXCEPT !.i = @ + 1, !.s = sub.store, !.buf = b]
  BY DEF AfterBelow
<1>3. sub.store \in Store
  BY DEF CopyResult
<1> HIDE DEF b
<1> QED
  BY <1>1, <1>2, <1>3, CallFacts DEF CopyCall

LEMMA SizeDown ==
  ASSUME NEW x \in CopyCall, x.k # 0, x.i # WIDTH
  PROVE  /\ Size(x) \in Nat
         /\ Size(NextEntry(x)) \in Nat /\ Size(NextEntry(x)) < Size(x)
         /\ Size(TableBelow(x)) \in Nat /\ Size(TableBelow(x)) < Size(x)
         /\ \A sub \in CopyResult : /\ Size(AfterBelow(x, sub)) \in Nat
                                   /\ Size(AfterBelow(x, sub)) < Size(x)
<1> DEFINE P == (x.k - 1) * (WIDTH + 1)
<1>1. x.k \in Nat /\ x.k >= 1 /\ x.i \in Nat /\ x.i + 1 <= WIDTH /\ WIDTH \in Nat
  BY CallFacts, KptFrame
<1>2. \A u, v \in Nat : u * v \in Nat
  OBVIOUS
<1>3. P \in Nat
  BY <1>1, <1>2
<1>4. x.k * (WIDTH + 1) = P + (WIDTH + 1)
  BY <1>1
<1> HIDE DEF P
<1>5. Size(x) = P + (WIDTH + 1) + (WIDTH - x.i)
  BY <1>4 DEF Size
<1>6. Size(NextEntry(x)) = P + (WIDTH + 1) + (WIDTH - (x.i + 1))
  BY <1>4, NextEntryCall DEF Size
<1>7. Size(TableBelow(x)) = P + (WIDTH - 0)
  BY TableBelowCall DEF Size, P
<1>8. ASSUME NEW sub \in CopyResult
      PROVE  Size(AfterBelow(x, sub)) = P + (WIDTH + 1) + (WIDTH - (x.i + 1))
  BY <1>4, AfterBelowCall DEF Size
<1> QED
  BY <1>1, <1>3, <1>5, <1>6, <1>7, <1>8

\* Every call has a size, at most that of the call for the last entry's level.
LEMMA SizeType ==
  ASSUME NEW x \in CopyCall
  PROVE  Size(x) \in 0 .. (LEVELS * (WIDTH + 1) + WIDTH)
<1>1. x.k \in 0 .. LEVELS /\ x.i \in 0 .. WIDTH /\ WIDTH \in Nat /\ LEVELS \in Nat
  BY KptFrame DEF CopyCall
<1>2. \A u, v \in Nat : u * v \in Nat
  OBVIOUS
<1>3. x.k * (WIDTH + 1) \in Nat /\ (LEVELS - x.k) * (WIDTH + 1) \in Nat
  BY <1>1, <1>2
<1>4. \A u, v, m \in Nat : (u + v) * m = u * m + v * m
  OBVIOUS
<1>5. LEVELS * (WIDTH + 1) = x.k * (WIDTH + 1) + (LEVELS - x.k) * (WIDTH + 1)
  <2>1. LEVELS - x.k \in Nat /\ x.k \in Nat /\ WIDTH + 1 \in Nat /\ LEVELS = x.k + (LEVELS - x.k)
    BY <1>1
  <2>2. (x.k + (LEVELS - x.k)) * (WIDTH + 1) = x.k * (WIDTH + 1) + (LEVELS - x.k) * (WIDTH + 1)
    BY <1>4, <2>1
  <2> QED
    BY <2>1, <2>2
<1> QED
  BY <1>1, <1>3, <1>5 DEF Size

\* The last step of a call: the table goes to the lowest free page.
LEMMA WriteTable ==
  ASSUME NEW s \in Store, NEW b \in [IDX -> Entry]
  PROVE  LET p == Lowest(s.avail)
             t == [mem |-> [s.mem EXCEPT ![p] = b], avail |-> s.avail \ {p}]
         IN [frame |-> p, store |-> t] \in CopyResult /\ Kept(s, t)
<1> DEFINE p == Lowest(s.avail)
           t == [mem |-> [s.mem EXCEPT ![p] = b], avail |-> s.avail \ {p}]
<1>1. s.mem \in [Frames -> [IDX -> Entry]] /\ s.avail \in SUBSET FRAMES
  BY DEF Store
<1>2. p \in Frames /\ (p # 0 => p \in s.avail)
  BY <1>1, LowestIn, LowestFrame
<1> HIDE DEF p
<1>3. t \in Store
  BY <1>1, <1>2 DEF Store
<1>4. Kept(s, t)
  BY <1>1, <1>2 DEF Kept
<1> QED
  BY <1>2, <1>3, <1>4 DEF CopyResult, p

LEMMA BodyType ==
  ASSUME NEW g \in [CopyCall -> CopyResult], NEW x \in CopyCall
  PROVE  CopyBody(g, x) \in CopyResult
<1>1. CASE x.k = 0 \/ x.i = WIDTH
  BY <1>1, WriteTable DEF CopyBody, CopyCall
<1>2. CASE ~(x.k = 0 \/ x.i = WIDTH)
  <2>1. g[NextEntry(x)] \in CopyResult
    BY <1>2, NextEntryCall
  <2>2. g[TableBelow(x)] \in CopyResult
    BY <1>2, TableBelowCall
  <2>3. g[AfterBelow(x, g[TableBelow(x)])] \in CopyResult
    BY <1>2, <2>2, AfterBelowCall
  <2>4. [frame |-> x.f, store |-> x.s] \in CopyResult
    BY <1>2, CallFacts DEF CopyResult
  <2> QED
    BY <1>2, <2>1, <2>3, <2>4 DEF CopyBody
<1> QED
  BY <1>1, <1>2

\* A call needs the results of smaller calls only.
LEMMA BodyLocal ==
  ASSUME NEW g \in [CopyCall -> CopyResult], NEW h \in [CopyCall -> CopyResult],
         NEW x \in CopyCall,
         \A y \in CopyCall : Size(y) < Size(x) => g[y] = h[y]
  PROVE  CopyBody(g, x) = CopyBody(h, x)
<1>1. CASE x.k = 0 \/ x.i = WIDTH
  BY <1>1 DEF CopyBody
<1>2. CASE ~(x.k = 0 \/ x.i = WIDTH)
  <2>1. g[NextEntry(x)] = h[NextEntry(x)]
    BY <1>2, NextEntryCall, SizeDown
  <2>2. g[TableBelow(x)] = h[TableBelow(x)]
    BY <1>2, TableBelowCall, SizeDown
  <2>3. g[TableBelow(x)] \in CopyResult
    BY <1>2, TableBelowCall
  <2>4. g[AfterBelow(x, g[TableBelow(x)])] = h[AfterBelow(x, g[TableBelow(x)])]
    BY <1>2, <2>3, AfterBelowCall, SizeDown
  <2> QED
    BY <1>2, <2>1, <2>2, <2>4 DEF CopyBody
<1> QED
  BY <1>1, <1>2

\* Applied to itself often enough, the body of copy_page is the function.
LEMMA CopyExists ==
  \E g \in [CopyCall -> CopyResult] : g = [x \in CopyCall |-> CopyBody(g, x)]
<1> DEFINE V == [CopyCall -> CopyResult]
           G == [g \in V |-> [x \in CopyCall |-> CopyBody(g, x)]]
           M == LEVELS * (WIDTH + 1) + WIDTH
           h0 == [x \in CopyCall |-> [frame |-> x.f, store |-> x.s]]
<1>1. G \in [V -> V]
  BY BodyType
<1>2. h0 \in V
  BY DEF CopyCall, CopyResult
<1>3. M \in Nat
  <2>1. \A u, v \in Nat : u * v \in Nat
    OBVIOUS
  <2> QED
    BY <2>1, KptFrame
<1>4. \A x \in CopyCall : Size(x) \in 0 .. M
  BY SizeType
<1>5. \A g \in V : \A x \in CopyCall : G[g][x] = CopyBody(g, x)
  OBVIOUS
<1> HIDE DEF G, h0, M
<1>6. PICK w \in [0 .. (M + 2) -> V] : w[0] = h0 /\ \A k \in 1 .. (M + 2) : w[k] = G[w[k - 1]]
  <2> DEFINE N == M + 2
  <2>1. N \in Nat
    BY <1>3
  <2> HIDE DEF V, N
  <2>2. Iterates(V, h0, G, N)
    BY <1>1, <1>2, <2>1, WalkExists
  <2> QED
    BY <2>2 DEF N, Iterates
<1> DEFINE Settled(n) == \A x \in CopyCall : Size(x) < n => w[n + 1][x] = w[n][x]
           S == {n \in Nat : n <= M + 1 => Settled(n)}
<1>7. 0 \in S
  BY <1>4, <1>3
<1>8. ASSUME NEW n \in Nat, n \in S PROVE n + 1 \in S
  <2> SUFFICES ASSUME n + 1 <= M + 1, NEW x \in CopyCall, Size(x) < n + 1
               PROVE  w[n + 2][x] = w[n + 1][x]
    BY <1>3
  <2>1. n \in 0 .. (M + 2) /\ n + 1 \in 1 .. (M + 2) /\ n + 2 \in 1 .. (M + 2)
    BY <1>3
  <2>2. w[n] \in V /\ w[n + 1] \in V /\ w[n + 1] = G[w[n]] /\ w[n + 2] = G[w[n + 1]]
    BY <1>6, <2>1
  <2>3. \A y \in CopyCall : Size(y) < Size(x) => w[n + 1][y] = w[n][y]
    BY <1>3, <1>4, <1>8
  <2>4. CopyBody(w[n + 1], x) = CopyBody(w[n], x)
    BY <2>2, <2>3, BodyLocal
  <2> QED
    BY <1>5, <2>2, <2>4
<1> HIDE DEF S
<1>9. M + 1 \in S
  BY <1>3, <1>7, <1>8, SetInduction
<1>10. \A x \in CopyCall : w[M + 2][x] = w[M + 1][x]
  BY <1>3, <1>4, <1>9 DEF S
<1>11. w[M + 1] \in V /\ w[M + 2] = G[w[M + 1]]
  BY <1>3, <1>6
<1>12. w[M + 1] = [x \in CopyCall |-> CopyBody(w[M + 1], x)]
  BY <1>5, <1>10, <1>11
<1> QED
  BY <1>11, <1>12

LEMMA CopyPageDef == CopyPage = [x \in CopyCall |-> CopyBody(CopyPage, x)]
<1> DEFINE G(g) == [x \in CopyCall |-> CopyBody(g, x)]
<1>1. CopyPage = CHOOSE g : g = G(g)
  BY DEF CopyPage, CopyBody, NextEntry, TableBelow, AfterBelow
<1>2. \E g : g = G(g)
  BY CopyExists
<1> HIDE DEF G
<1>3. CopyPage = G(CopyPage)
  BY <1>1, <1>2, Zenon
<1> QED
  BY <1>3 DEF G

\* copy_page writes to page 0 and to pages it allocates, to no other.
LEMMA CopyPageKeeps ==
  ASSUME NEW x \in CopyCall
  PROVE  CopyPage[x] \in CopyResult /\ Kept(x.s, CopyPage[x].store)
<1> DEFINE Good(y) == CopyPage[y] \in CopyResult /\ Kept(y.s, CopyPage[y].store)
           S == {n \in Nat : \A y \in CopyCall : Size(y) < n => Good(y)}
<1>0. \A y \in CopyCall : Size(y) \in Nat /\ CopyPage[y] = CopyBody(CopyPage, y)
  BY SizeType, CopyPageDef
<1>1. 0 \in S
  BY <1>0
<1>2. ASSUME NEW n \in Nat, n \in S PROVE n + 1 \in S
  <2> SUFFICES ASSUME NEW y \in CopyCall, Size(y) < n + 1 PROVE Good(y)
    OBVIOUS
  <2>1. \A z \in CopyCall : Size(z) < Size(y) => Good(z)
    BY <1>0, <1>2
  <2>2. CopyPage[y] = CopyBody(CopyPage, y)
    BY <1>0
  <2> HIDE DEF S
  <2>3. CASE y.k = 0 \/ y.i = WIDTH
    BY <2>2, <2>3, WriteTable DEF CopyBody, CopyCall
  <2>4. CASE ~(y.k = 0 \/ y.i = WIDTH)
    <3>1. Good(NextEntry(y)) /\ NextEntry(y).s = y.s
      BY <2>1, <2>4, NextEntryCall, SizeDown
    <3>2. Good(TableBelow(y)) /\ TableBelow(y).s = y.s
      BY <2>1, <2>4, TableBelowCall, SizeDown
    <3> DEFINE sub == CopyPage[TableBelow(y)]
    <3>3. sub \in CopyResult /\ Kept(y.s, sub.store)
      BY <3>2
    <3> HIDE DEF sub
    <3>4. Good(AfterBelow(y, sub)) /\ AfterBelow(y, sub).s = sub.store
      BY <2>1, <2>4, <3>3, AfterBelowCall, SizeDown
    <3> DEFINE res == CopyPage[AfterBelow(y, sub)]
    <3>5. res \in CopyResult /\ Kept(sub.store, res.store)
      BY <3>4
    <3> HIDE DEF res
    <3>6. Kept(y.s, res.store)
      BY <3>3, <3>5 DEF Kept
    <3>7. [frame |-> y.f, store |-> y.s] \in CopyResult /\ Kept(y.s, y.s)
      BY <2>4, CallFacts DEF CopyResult, Kept
    <3> QED
      BY <2>2, <2>4, <3>1, <3>5, <3>6, <3>7 DEF CopyBody, sub, res
  <2> QED
    BY <2>3, <2>4
<1> HIDE DEF S
<1>3. Size(x) + 1 \in S
  BY <1>0, <1>1, <1>2, SetInduction
<1> QED
  BY <1>0, <1>3 DEF S

(***************************************************************************)
(* The walk of an address down the tables: the entry it meets on every     *)
(* level, Zero from the first missing one on.                              *)
(***************************************************************************)
Mem == [Frames -> [IDX -> Entry]]

Down(m, a, w) ==
    [l \in Levels |->
        IF l = 1 THEN m[PML4][a[1]]
        ELSE IF w[l - 1] = Zero THEN Zero
        ELSE m[w[l - 1].frame][a[l]]]

Walk(m, a) == CHOOSE w : w = Down(m, a, w)

LEMMA ZeroType == Zero \in Entry /\ Empty \in [IDX -> Entry] /\ Zero.frame = 0 /\ Zero.user = 0
  BY KptFrame DEF Zero, Entry, Empty, Bit

\* The same from any root.
DownFrom(m, r, a, w) ==
    [l \in Levels |->
        IF l = 1 THEN m[r][a[1]]
        ELSE IF w[l - 1] = Zero THEN Zero
        ELSE m[w[l - 1].frame][a[l]]]

LEMMA DownFromExists ==
  ASSUME NEW m \in Mem, NEW r \in Frames, NEW a \in Addr
  PROVE  \E w \in [Levels -> Entry] : w = DownFrom(m, r, a, w)
<1> DEFINE x == m[r][a[1]]
           N == LEVELS - 1
           g == [k \in 1 .. N |-> [e \in Entry |->
                    IF e = Zero THEN Zero ELSE m[e.frame][a[k + 1]]]]
<1>1. LEVELS \in Nat /\ LEVELS > 1 /\ N \in Nat /\ 1 \in Levels
      /\ \A k \in 1 .. N : k + 1 \in Levels
  BY PageAssumption DEF PageAssumption, Levels
<1>2. a \in [Levels -> IDX]
  BY DEF Addr
<1>3. x \in Entry
  BY <1>1, <1>2, KptFrame DEF Mem
<1>4. g \in [1 .. N -> [Entry -> Entry]]
  <2>1. ASSUME NEW k \in 1 .. N, NEW e \in Entry
        PROVE  (IF e = Zero THEN Zero ELSE m[e.frame][a[k + 1]]) \in Entry
    <3>1. e.frame \in Frames /\ a[k + 1] \in IDX
      BY <1>1, <1>2 DEF Entry
    <3> QED
      BY <3>1, ZeroType DEF Mem
  <2> QED
    BY <2>1
<1> HIDE DEF x, N
<1>5. Recursive(Entry, x, g, N)
  <2> HIDE DEF g
  <2> QED
    BY <1>1, <1>3, <1>4, RecursionExists
<1>6. PICK v \in [0 .. N -> Entry] : v[0] = x /\ \A k \in 1 .. N : v[k] = g[k][v[k - 1]]
  BY <1>5 DEF Recursive
<1> DEFINE w == [l \in Levels |-> v[l - 1]]
<1>7. \A l \in Levels : l - 1 \in 0 .. N
  BY <1>1 DEF N, Levels
<1>8. w \in [Levels -> Entry]
  BY <1>6, <1>7
<1>9. ASSUME NEW l \in Levels PROVE w[l] = DownFrom(m, r, a, w)[l]
  <2>1. CASE l = 1
    BY <1>6, <2>1 DEF DownFrom, x
  <2>2. CASE l # 1
    <3>1. l - 1 \in 1 .. N /\ l - 1 \in Levels /\ (l - 1) - 1 \in 0 .. N /\ (l - 1) + 1 = l
      BY <1>1, <2>2 DEF N, Levels
    <3>2. v[l - 1] = g[l - 1][v[(l - 1) - 1]] /\ v[(l - 1) - 1] \in Entry
      BY <1>6, <3>1
    <3>3. w[l] = v[l - 1] /\ w[l - 1] = v[(l - 1) - 1]
      BY <3>1
    <3> HIDE DEF w
    <3>4. w[l] = IF w[l - 1] = Zero THEN Zero ELSE m[w[l - 1].frame][a[l]]
      BY <3>1, <3>2, <3>3
    <3> QED
      BY <2>2, <3>4 DEF DownFrom
  <2> QED
    BY <2>1, <2>2
<1> HIDE DEF w
<1>10. w = DownFrom(m, r, a, w)
  BY <1>8, <1>9 DEF DownFrom
<1> QED
  BY <1>8, <1>10

LEMMA DownExists ==
  ASSUME NEW m \in Mem, NEW a \in Addr
  PROVE  \E w \in [Levels -> Entry] : w = Down(m, a, w)
<1>1. \A w : Down(m, a, w) = DownFrom(m, PML4, a, w)
  BY DEF Down, DownFrom
<1> QED
  BY <1>1, DownFromExists, KptFrame

LEMMA LevelInduction ==
  ASSUME NEW S, 1 \in S, \A l \in Levels : l \in S /\ l + 1 \in Levels => l + 1 \in S
  PROVE  Levels \subseteq S
<1> DEFINE T == {n \in Nat : n + 1 \in Levels => n + 1 \in S}
<1>1. 0 \in T
  OBVIOUS
<1>2. ASSUME NEW n \in Nat, n \in T PROVE n + 1 \in T
  <2> SUFFICES ASSUME (n + 1) + 1 \in Levels PROVE (n + 1) + 1 \in S
    OBVIOUS
  <2>1. n + 1 \in Levels
    BY PageAssumption DEF PageAssumption, Levels
  <2>2. n + 1 \in S
    BY <1>2, <2>1
  <2> QED
    BY <2>1, <2>2
<1> HIDE DEF T
<1>3. \A n \in Nat : n \in T
  BY <1>1, <1>2, SetInduction
<1>4. ASSUME NEW l \in Levels PROVE l \in S
  <2>1. l - 1 \in Nat /\ (l - 1) + 1 = l
    BY PageAssumption DEF PageAssumption, Levels
  <2>2. l - 1 \in T
    BY <1>3, <2>1
  <2> QED
    BY <2>1, <2>2 DEF T
<1> QED
  BY <1>4

LEMMA DownUnique ==
  ASSUME NEW m, NEW a, NEW v, NEW w, v = Down(m, a, v), w = Down(m, a, w)
  PROVE  v = w
<1> DEFINE S == {l \in Levels : v[l] = w[l]}
<1>0. 1 \in Levels
  BY PageAssumption DEF PageAssumption, Levels
<1>1. /\ v[1] = m[PML4][a[1]] /\ w[1] = m[PML4][a[1]]
  BY <1>0 DEF Down
<1>2. ASSUME NEW l \in Levels, l \in S, l + 1 \in Levels PROVE l + 1 \in S
  <2>1. l + 1 # 1 /\ (l + 1) - 1 = l
    BY SMTT(30) DEF Levels
  <2>2. /\ v[l + 1] = IF v[(l + 1) - 1] = Zero THEN Zero ELSE m[v[(l + 1) - 1].frame][a[l + 1]]
        /\ w[l + 1] = IF w[(l + 1) - 1] = Zero THEN Zero ELSE m[w[(l + 1) - 1].frame][a[l + 1]]
    BY <1>2, <2>1 DEF Down
  <2> QED
    BY <1>2, <2>1, <2>2
<1>3. 1 \in S
  BY <1>0, <1>1
<1> HIDE DEF S
<1>4. Levels \subseteq S
  BY <1>2, <1>3, LevelInduction
<1>5. \A l \in Levels : v[l] = w[l]
  BY <1>4 DEF S
<1>6. v = [l \in Levels |-> v[l]] /\ w = [l \in Levels |-> w[l]]
  BY DEF Down
<1> QED
  BY <1>5, <1>6

LEMMA WalkIs ==
  ASSUME NEW m \in Mem, NEW a \in Addr
  PROVE  Walk(m, a) \in [Levels -> Entry] /\ Walk(m, a) = Down(m, a, Walk(m, a))
<1>1. PICK w \in [Levels -> Entry] : w = Down(m, a, w)
  BY DownExists
<1>2. Walk(m, a) = Down(m, a, Walk(m, a))
  BY <1>1 DEF Walk
<1>3. Walk(m, a) = w
  BY <1>1, <1>2, DownUnique
<1> QED
  BY <1>2, <1>3

LEMMA WalkUnique ==
  ASSUME NEW m \in Mem, NEW a \in Addr, NEW w, w = Down(m, a, w)
  PROVE  Walk(m, a) = w
  BY WalkIs, DownUnique

\* The processor's translation is the end of the walk.
LEMMA LookupIs ==
  mem \in Mem => \A a \in Addr : Lookup(PML4, a) = Walk(mem, a)[LEVELS]
<1> SUFFICES ASSUME mem \in Mem, NEW a \in Addr
             PROVE  Lookup(PML4, a) = Walk(mem, a)[LEVELS]
  OBVIOUS
<1> QED
  BY DEF Lookup, Walk, Down

LEMMA WalkSteps ==
  ASSUME NEW m \in Mem, NEW a \in Addr
  PROVE  /\ Walk(m, a)[1] = m[PML4][a[1]]
         /\ \A l \in Levels : Walk(m, a)[l] \in Entry
         /\ \A l \in Levels : l # 1 =>
              Walk(m, a)[l] = IF Walk(m, a)[l - 1] = Zero THEN Zero
                              ELSE m[Walk(m, a)[l - 1].frame][a[l]]
<1> DEFINE w == Walk(m, a)
<1>1. w \in [Levels -> Entry] /\ w = Down(m, a, w)
  BY WalkIs
<1>2. 1 \in Levels
  BY PageAssumption, SMTT(30) DEF PageAssumption, Levels
<1> HIDE DEF w
<1>3. /\ w[1] = m[PML4][a[1]]
      /\ \A l \in Levels : w[l] \in Entry
      /\ \A l \in Levels : l # 1 =>
            w[l] = IF w[l - 1] = Zero THEN Zero ELSE m[w[l - 1].frame][a[l]]
  BY <1>1, <1>2 DEF Down
<1> QED
  BY <1>3 DEF w

\* The table an address comes to on level l; 0 when there is none.
Tab(m, a, l) == IF l = 1 THEN PML4 ELSE Walk(m, a)[l - 1].frame

\* a and b lead the same way over levels 1 to l.
Agree(a, b, l) == \A j \in 1 .. l : a[j] = b[j]

LEMMA LevelFacts ==
  /\ LEVELS \in Nat /\ LEVELS > 1 /\ 1 \in Levels /\ LEVELS \in Levels
  /\ Levels \subseteq Nat
  /\ \A l \in Levels : l # 1 => l - 1 \in Levels /\ l - 1 < LEVELS
  /\ \A l \in Levels : l # LEVELS => l + 1 \in Levels /\ l + 1 # 1 /\ (l + 1) - 1 = l
  BY PageAssumption DEF PageAssumption, Levels

LEMMA TabType ==
  ASSUME NEW m \in Mem, NEW a \in Addr, NEW l \in Levels
  PROVE  Tab(m, a, l) \in Frames
<1>1. CASE l = 1
  BY <1>1, KptFrame DEF Tab
<1>2. CASE l # 1
  <2>1. Walk(m, a)[l - 1] \in Entry
    BY <1>2, LevelFacts, WalkSteps
  <2> QED
    BY <1>2, <2>1 DEF Tab, Entry
<1> QED
  BY <1>1, <1>2

\* Addresses that lead the same way meet the same entries.
LEMMA WalkPrefix ==
  ASSUME NEW m \in Mem, NEW a \in Addr, NEW b \in Addr, NEW l \in Levels
  PROVE  /\ Agree(a, b, l) => Walk(m, a)[l] = Walk(m, b)[l]
         /\ Agree(a, b, l - 1) => Tab(m, a, l) = Tab(m, b, l)
<1> DEFINE S == {k \in Levels : Agree(a, b, k) => Walk(m, a)[k] = Walk(m, b)[k]}
<1>1. 1 \in S
  <2> SUFFICES ASSUME Agree(a, b, 1) PROVE Walk(m, a)[1] = Walk(m, b)[1]
    BY LevelFacts
  <2>1. a[1] = b[1]
    BY DEF Agree
  <2> QED
    BY <2>1, WalkSteps
<1>2. ASSUME NEW k \in Levels, k \in S, k + 1 \in Levels PROVE k + 1 \in S
  <2> SUFFICES ASSUME Agree(a, b, k + 1) PROVE Walk(m, a)[k + 1] = Walk(m, b)[k + 1]
    BY <1>2
  <2>1. Agree(a, b, k) /\ a[k + 1] = b[k + 1] /\ k + 1 # 1 /\ (k + 1) - 1 = k
    BY LevelFacts DEF Agree
  <2>2. Walk(m, a)[k] = Walk(m, b)[k]
    BY <1>2, <2>1
  <2> QED
    BY <1>2, <2>1, <2>2, WalkSteps
<1> HIDE DEF S
<1>3. Levels \subseteq S
  BY <1>1, <1>2, LevelInduction
<1>4. \A k \in Levels : Agree(a, b, k) => Walk(m, a)[k] = Walk(m, b)[k]
  BY <1>3 DEF S
<1>5. ASSUME Agree(a, b, l - 1) PROVE Tab(m, a, l) = Tab(m, b, l)
  <2>1. CASE l = 1
    BY <2>1 DEF Tab
  <2>2. CASE l # 1
    <3>1. l - 1 \in Levels
      BY <2>2, LevelFacts
    <3>2. Walk(m, a)[l - 1] = Walk(m, b)[l - 1]
      BY <1>4, <1>5, <3>1
    <3> QED
      BY <2>2, <3>2 DEF Tab
  <2> QED
    BY <2>1, <2>2
<1> QED
  BY <1>4, <1>5

\* Below a missing entry everything is missing.
LEMMA ZeroBelow ==
  ASSUME NEW m \in Mem, NEW a \in Addr, NEW l \in Levels, Walk(m, a)[l] = Zero,
         NEW k \in Levels, k >= l
  PROVE  Walk(m, a)[k] = Zero
<1> DEFINE S == {j \in Levels : j >= l => Walk(m, a)[j] = Zero}
<1>1. 1 \in S
  BY LevelFacts
<1>2. ASSUME NEW j \in Levels, j \in S, j + 1 \in Levels PROVE j + 1 \in S
  <2> SUFFICES ASSUME j + 1 >= l PROVE Walk(m, a)[j + 1] = Zero
    BY <1>2
  <2>1. CASE j + 1 = l
    BY <2>1
  <2>2. CASE j + 1 # l
    <3>1. j >= l /\ j + 1 # 1 /\ (j + 1) - 1 = j
      BY <2>2, LevelFacts
    <3>2. Walk(m, a)[j] = Zero
      BY <1>2, <3>1
    <3> QED
      BY <1>2, <3>1, <3>2, WalkSteps
  <2> QED
    BY <2>1, <2>2
<1> HIDE DEF S
<1>3. Levels \subseteq S
  BY <1>1, <1>2, LevelInduction
<1> QED
  BY <1>3 DEF S

(***************************************************************************)
(* The tables form a tree: what is entered above the last level is a table *)
(* of its own place.  Free pages are empty and no table.                   *)
(***************************************************************************)
OwnPlace(m) ==
    \A a, b \in Addr : \A l, k \in Levels :
        (Tab(m, a, l) # 0 /\ Tab(m, a, l) = Tab(m, b, k)) => (l = k /\ Agree(a, b, l - 1))

TreeInv(m, av) ==
    /\ m \in Mem /\ av \in SUBSET FRAMES
    /\ \A f \in av : m[f] = Empty
    /\ \A a \in Addr : \A l \in Levels :
          l # LEVELS /\ Walk(m, a)[l] # Zero => Walk(m, a)[l].frame # 0
    /\ \A a \in Addr : \A l \in Levels : Tab(m, a, l) \notin av
    /\ OwnPlace(m)

\* The entry of a level is read from the table of that level.
LEMMA WalkReads ==
  ASSUME NEW m, NEW av, TreeInv(m, av), NEW a \in Addr, NEW l \in Levels
  PROVE  Walk(m, a)[l] = IF Tab(m, a, l) = 0 THEN Zero ELSE m[Tab(m, a, l)][a[l]]
<1>1. CASE l = 1
  BY <1>1, WalkSteps, KptFrame DEF Tab, TreeInv
<1>2. CASE l # 1
  <2>1. l - 1 \in Levels /\ l - 1 # LEVELS
    BY <1>2, LevelFacts
  <2>2. Walk(m, a)[l - 1] # Zero <=> Walk(m, a)[l - 1].frame # 0
    BY <2>1, ZeroType DEF TreeInv
  <2> QED
    BY <1>2, <2>2, WalkSteps DEF Tab, TreeInv
<1> QED
  BY <1>1, <1>2

\* Conversely, what reads every level from its table is the walk.
IsWalk(m, a, w) ==
    /\ w = [l \in Levels |-> w[l]]
    /\ w[1] = m[PML4][a[1]]
    /\ \A l \in Levels : l # 1 =>
          w[l] = IF w[l - 1] = Zero THEN Zero ELSE m[w[l - 1].frame][a[l]]

LEMMA WalkFrom ==
  ASSUME NEW m \in Mem, NEW a \in Addr, NEW w, IsWalk(m, a, w)
  PROVE  Walk(m, a) = w
<1>1. w = Down(m, a, w)
  BY DEF Down, IsWalk
<1> QED
  BY <1>1, WalkUnique

\* Writing outside the tables changes no walk.
LEMMA WalkSame ==
  ASSUME NEW m, NEW av, TreeInv(m, av), NEW n \in Mem,
         \A a \in Addr : \A l \in Levels : Tab(m, a, l) # 0 => n[Tab(m, a, l)] = m[Tab(m, a, l)]
  PROVE  \A a \in Addr : Walk(n, a) = Walk(m, a)
<1> SUFFICES ASSUME NEW a \in Addr PROVE Walk(n, a) = Walk(m, a)
  OBVIOUS
<1> DEFINE w == Walk(m, a)
<1>1. m \in Mem
  BY DEF TreeInv
<1>2. w = [l \in Levels |-> w[l]]
  BY <1>1, WalkIs
<1>3. w[1] = n[PML4][a[1]]
  BY <1>1, WalkSteps, LevelFacts, KptFrame DEF Tab
<1>4. ASSUME NEW l \in Levels, l # 1
      PROVE  w[l] = IF w[l - 1] = Zero THEN Zero ELSE n[w[l - 1].frame][a[l]]
  <2>1. l - 1 \in Levels /\ l - 1 # LEVELS
    BY <1>4, LevelFacts
  <2>2. w[l - 1] # Zero => w[l - 1].frame # 0 /\ Tab(m, a, l) = w[l - 1].frame
    BY <1>4, <2>1 DEF TreeInv, Tab
  <2>3. w[l] = IF w[l - 1] = Zero THEN Zero ELSE m[w[l - 1].frame][a[l]]
    BY <1>1, <1>4, WalkSteps
  <2> QED
    BY <2>2, <2>3
<1> HIDE DEF w
<1>5. IsWalk(n, a, w)
  BY <1>2, <1>3, <1>4 DEF IsWalk
<1>6. Walk(n, a) = w
  BY <1>5, WalkFrom
<1> QED
  BY <1>6 DEF w

\* So it keeps the tree, when it keeps the free pages empty.
LEMMA TreeSame ==
  ASSUME NEW m, NEW av, TreeInv(m, av), NEW n \in Mem, NEW aw \in SUBSET av,
         \A a \in Addr : Walk(n, a) = Walk(m, a),
         \A f \in aw : n[f] = m[f]
  PROVE  TreeInv(n, aw)
<1>1. \A a \in Addr : \A l \in Levels : Tab(n, a, l) = Tab(m, a, l)
  BY DEF Tab
<1>2. OwnPlace(n)
  BY <1>1 DEF TreeInv, OwnPlace
<1> QED
  BY <1>1, <1>2 DEF TreeInv

\* Entering e on level l of the way of a: the addresses that lead the same way
\* up to there meet e, and nothing else changes.  Above the last level the
\* entry was missing and e leads to an empty page that is no table yet.
NewTable(m, n) == /\ n \in Frames \ {0} /\ m[n] = Empty
                  /\ \A b \in Addr : \A k \in Levels : Tab(m, b, k) # n

Written(m, n, a, l, e) ==
    \A b \in Addr : \A k \in Levels :
        Walk(n, b)[k] = IF k = l /\ Agree(a, b, l) THEN e ELSE Walk(m, b)[k]

LEMMA WriteWalk ==
  ASSUME NEW m, NEW av, TreeInv(m, av), NEW a \in Addr, NEW l \in Levels,
         NEW t, t = Tab(m, a, l), t # 0, NEW e \in Entry,
         l # LEVELS => Walk(m, a)[l] = Zero /\ NewTable(m, e.frame),
         NEW n, n = [m EXCEPT ![t][a[l]] = e]
  PROVE  n \in Mem /\ Written(m, n, a, l, e)
<1>1. m \in Mem /\ t \in Frames /\ a[l] \in IDX
  BY TabType DEF TreeInv, Addr
<1>2. n \in Mem
  BY <1>1 DEF Mem
<1>3. \A f \in Frames : \A i \in IDX : n[f][i] = IF f = t /\ i = a[l] THEN e ELSE m[f][i]
  BY <1>1 DEF Mem
<1>4. ASSUME NEW b \in Addr, ~Agree(a, b, l) PROVE Walk(n, b) = Walk(m, b)
  <2> DEFINE w == Walk(m, b)
  <2>1. w = [k \in Levels |-> w[k]] /\ b \in [Levels -> IDX]
    BY <1>1, WalkIs DEF Addr
  <2>2. ASSUME NEW k \in Levels, Tab(m, b, k) # 0
        PROVE  n[Tab(m, b, k)][b[k]] = m[Tab(m, b, k)][b[k]]
    <3>1. Tab(m, b, k) \in Frames /\ b[k] \in IDX
      BY <1>1, <2>1, TabType
    <3>2. ASSUME Tab(m, b, k) = t PROVE b[k] # a[l]
      <4>1. k = l /\ Agree(a, b, l - 1)
        BY <3>2 DEF TreeInv, OwnPlace
      <4> QED
        BY <1>4, <4>1, LevelFacts DEF Agree
    <3> QED
      BY <1>3, <3>1, <3>2
  <2>3. w[1] = n[PML4][b[1]]
    <3>1. w[1] = m[PML4][b[1]]
      BY <1>1, WalkSteps
    <3> QED
      BY <3>1, <2>2, LevelFacts, KptFrame DEF Tab
  <2>4. ASSUME NEW k \in Levels, k # 1
        PROVE  w[k] = IF w[k - 1] = Zero THEN Zero ELSE n[w[k - 1].frame][b[k]]
    <3>1. k - 1 \in Levels /\ k - 1 # LEVELS
      BY <2>4, LevelFacts
    <3>2. w[k - 1] # Zero => w[k - 1].frame # 0 /\ Tab(m, b, k) = w[k - 1].frame
      BY <2>4, <3>1 DEF TreeInv, Tab
    <3>3. w[k] = IF w[k - 1] = Zero THEN Zero ELSE m[w[k - 1].frame][b[k]]
      BY <1>1, <2>4, WalkSteps
    <3> QED
      BY <2>2, <3>2, <3>3
  <2> HIDE DEF w
  <2>5. IsWalk(n, b, w)
    BY <2>1, <2>3, <2>4 DEF IsWalk
  <2>6. Walk(n, b) = w
    BY <1>2, <2>5, WalkFrom
  <2> QED
    BY <2>6 DEF w
<1>5. ASSUME NEW b \in Addr, Agree(a, b, l)
      PROVE  \A k \in Levels : Walk(n, b)[k] = IF k = l THEN e ELSE Walk(m, b)[k]
  <2> DEFINE w == Walk(m, b)
             v == [w EXCEPT ![l] = e]
  <2>0. w \in [Levels -> Entry] /\ b \in [Levels -> IDX] /\ a[l] = b[l]
    BY <1>1, <1>5, WalkIs, LevelFacts DEF Addr, Agree
  <2>1. v = [k \in Levels |-> v[k]] /\ v[l] = e /\ \A k \in Levels : k # l => v[k] = w[k]
    BY <2>0
  <2>2. Tab(m, b, l) = t
    <3>1. Agree(a, b, l - 1)
      BY <1>5, LevelFacts DEF Agree
    <3> QED
      BY <1>1, <3>1, WalkPrefix
  \* The walk meets t on level l only.
  <2>3. ASSUME NEW k \in Levels, k # l, Tab(m, b, k) # 0
        PROVE  n[Tab(m, b, k)][b[k]] = m[Tab(m, b, k)][b[k]]
    <3>1. Tab(m, b, k) \in Frames /\ b[k] \in IDX
      BY <1>1, <2>0, TabType
    <3>2. Tab(m, b, k) # t
      BY <2>2, <2>3 DEF TreeInv, OwnPlace
    <3> QED
      BY <1>3, <3>1, <3>2
  <2>4. n[t][b[l]] = e
    BY <1>1, <1>3, <2>0
  <2>5. ASSUME l # LEVELS
        PROVE  /\ \A k \in Levels : k >= l => w[k] = Zero
               /\ e # Zero
               /\ \A i \in IDX : n[e.frame][i] = Zero
    <3>1. w[l] = Zero
      BY <1>1, <1>5, <2>5, WalkPrefix
    <3>2. \A k \in Levels : k >= l => w[k] = Zero
      BY <1>1, <3>1, ZeroBelow
    <3>3. e.frame # 0 /\ e.frame \in Frames /\ e.frame # t /\ m[e.frame] = Empty
      BY <2>5 DEF NewTable
    <3> QED
      BY <1>3, <3>2, <3>3, ZeroType DEF Empty
  <2>6. v[1] = n[PML4][b[1]]
    <3>1. CASE l = 1
      BY <2>1, <2>4, <3>1 DEF Tab
    <3>2. CASE l # 1
      <4>1. w[1] = m[PML4][b[1]]
        BY <1>1, WalkSteps
      <4>2. n[PML4][b[1]] = m[PML4][b[1]]
        BY <2>3, <3>2, LevelFacts, KptFrame DEF Tab
      <4> QED
        BY <2>1, <3>2, <4>1, <4>2, LevelFacts
    <3> QED
      BY <3>1, <3>2
  <2>7. ASSUME NEW k \in Levels, k # 1
        PROVE  v[k] = IF v[k - 1] = Zero THEN Zero ELSE n[v[k - 1].frame][b[k]]
    <3>1. k - 1 \in Levels /\ k - 1 # LEVELS /\ k - 1 # k /\ b[k] \in IDX
      BY <2>0, <2>7, LevelFacts
    <3>2. w[k - 1] # Zero => w[k - 1].frame # 0
      BY <3>1 DEF TreeInv
    <3>3. Tab(m, b, k) = w[k - 1].frame
      BY <2>7 DEF Tab
    <3>4. w[k] = IF w[k - 1] = Zero THEN Zero ELSE m[w[k - 1].frame][b[k]]
      BY <1>1, <2>7, WalkSteps
    <3> HIDE DEF v, w
    <3>5. CASE k = l
      <4>1. v[k - 1] = w[k - 1]
        BY <2>1, <3>1, <3>5
      <4>2. w[k - 1].frame = t /\ w[k - 1] # Zero
        BY <2>2, <3>3, <3>5, ZeroType
      <4> QED
        BY <2>1, <2>4, <3>5, <4>1, <4>2
    <3>6. CASE k - 1 = l
      <4>1. l # LEVELS /\ v[k - 1] = e /\ v[k] = w[k] /\ k >= l
        BY <2>1, <3>1, <3>6, LevelFacts
      <4>2. w[k] = Zero
        BY <2>5, <4>1
      <4>3. e # Zero /\ n[e.frame][b[k]] = Zero
        BY <2>5, <3>1, <4>1
      <4> QED
        BY <4>1, <4>2, <4>3
    <3>7. CASE k # l /\ k - 1 # l
      <4>1. v[k] = w[k] /\ v[k - 1] = w[k - 1]
        BY <2>1, <3>1, <3>7
      <4>2. w[k - 1] # Zero => n[w[k - 1].frame][b[k]] = m[w[k - 1].frame][b[k]]
        BY <2>3, <3>2, <3>3, <3>7
      <4> QED
        BY <3>4, <4>1, <4>2
    <3> QED
      BY <3>5, <3>6, <3>7
  <2> HIDE DEF v
  <2>8. IsWalk(n, b, v)
    BY <2>1, <2>6, <2>7 DEF IsWalk
  <2>9. Walk(n, b) = v
    BY <1>2, <2>8, WalkFrom
  <2> QED
    BY <2>1, <2>9
<1> QED
  BY <1>2, <1>4, <1>5 DEF Written

\* A new table keeps the tree.
Grown(m, n, a, l, f) ==
    \A b \in Addr : \A k \in Levels :
        Tab(n, b, k) = IF k = l + 1 /\ Agree(a, b, l) THEN f ELSE Tab(m, b, k)

LEMMA FillTree ==
  ASSUME NEW m, NEW av, TreeInv(m, av), NEW a \in Addr, NEW l \in Levels, l # LEVELS,
         NEW t, t = Tab(m, a, l), t # 0, NEW e \in Entry,
         Walk(m, a)[l] = Zero, NewTable(m, e.frame), e.frame \notin av,
         NEW n, n = [m EXCEPT ![t][a[l]] = e]
  PROVE  TreeInv(n, av) /\ Grown(m, n, a, l, e.frame)
<1>1. n \in Mem /\ m \in Mem
  BY WriteWalk DEF TreeInv
<1>2. Written(m, n, a, l, e)
  BY WriteWalk
<1>3. \A b \in Addr : \A k \in Levels :
        Walk(n, b)[k] = IF k = l /\ Agree(a, b, l) THEN e ELSE Walk(m, b)[k]
  BY <1>2 DEF Written
<1>4. ASSUME NEW b \in Addr, NEW k \in Levels
      PROVE  Tab(n, b, k) = IF k = l + 1 /\ Agree(a, b, l) THEN e.frame ELSE Tab(m, b, k)
  <2>1. CASE k = 1
    BY <2>1, LevelFacts DEF Tab
  <2>2. CASE k # 1
    <3>1. k - 1 \in Levels /\ (k - 1 = l <=> k = l + 1)
      BY <2>2, LevelFacts
    <3> QED
      BY <1>3, <2>2, <3>1 DEF Tab
  <2> QED
    BY <2>1, <2>2
<1>5. e.frame # 0 /\ \A b \in Addr : \A k \in Levels : Tab(m, b, k) # e.frame
  BY DEF NewTable
<1>6. ASSUME NEW b \in Addr, NEW c \in Addr, NEW k \in Levels, NEW j \in Levels,
             Tab(n, b, k) # 0, Tab(n, b, k) = Tab(n, c, j)
      PROVE  k = j /\ Agree(b, c, k - 1)
  <2>1. CASE (k = l + 1 /\ Agree(a, b, l)) /\ (j = l + 1 /\ Agree(a, c, l))
    <3>1. k - 1 = l
      BY <2>1, LevelFacts
    <3> QED
      BY <2>1, <3>1 DEF Agree
  <2>2. CASE ~(k = l + 1 /\ Agree(a, b, l)) /\ ~(j = l + 1 /\ Agree(a, c, l))
    <3>1. Tab(m, b, k) # 0 /\ Tab(m, b, k) = Tab(m, c, j)
      BY <1>4, <1>6, <2>2
    <3> QED
      BY <3>1 DEF TreeInv, OwnPlace
  <2> QED
    BY <1>4, <1>5, <1>6, <2>1, <2>2
<1>7. OwnPlace(n)
  BY <1>6 DEF OwnPlace
<1>8. \A f \in av : n[f] = Empty
  <2>1. t \notin av /\ av \subseteq Frames /\ t \in Frames
    BY <1>1, TabType DEF TreeInv, Frames
  <2> QED
    BY <1>1, <2>1 DEF TreeInv, Mem
<1>9. \A b \in Addr : \A k \in Levels : k # LEVELS /\ Walk(n, b)[k] # Zero => Walk(n, b)[k].frame # 0
  BY <1>3, <1>5 DEF TreeInv
<1>10. \A b \in Addr : \A k \in Levels : Tab(n, b, k) \notin av
  BY <1>4 DEF TreeInv
<1> QED
  BY <1>1, <1>4, <1>7, <1>8, <1>9, <1>10 DEF TreeInv, Grown

LEMMA AgreeAll ==
  ASSUME NEW a \in Addr, NEW b \in Addr
  PROVE  Agree(a, b, LEVELS) <=> b = a
<1>1. a = [j \in Levels |-> a[j]] /\ b = [j \in Levels |-> b[j]]
  BY DEF Addr
<1>2. Agree(a, b, LEVELS) <=> \A j \in Levels : a[j] = b[j]
  BY DEF Agree, Levels
<1>3. ASSUME \A j \in Levels : a[j] = b[j] PROVE b = a
  BY <1>1, <1>3
<1> QED
  BY <1>2, <1>3

\* An entry of the page table itself keeps the tree.
LEMMA LastTree ==
  ASSUME NEW m, NEW av, TreeInv(m, av), NEW a \in Addr,
         NEW t, t = Tab(m, a, LEVELS), t # 0, NEW e \in Entry,
         NEW n, n = [m EXCEPT ![t][a[LEVELS]] = e]
  PROVE  /\ TreeInv(n, av)
         /\ \A b \in Addr : \A k \in Levels : Tab(n, b, k) = Tab(m, b, k)
         /\ \A b \in Addr : \A k \in Levels :
               Walk(n, b)[k] = IF k = LEVELS /\ b = a THEN e ELSE Walk(m, b)[k]
<1>0. LEVELS \in Levels
  BY LevelFacts
<1>1. n \in Mem /\ m \in Mem
  BY <1>0, WriteWalk DEF TreeInv
<1>2. Written(m, n, a, LEVELS, e)
  BY <1>0, WriteWalk
<1>3. \A b \in Addr : Agree(a, b, LEVELS) <=> b = a
  BY AgreeAll
<1>4. \A b \in Addr : \A k \in Levels :
        Walk(n, b)[k] = IF k = LEVELS /\ b = a THEN e ELSE Walk(m, b)[k]
  BY <1>2, <1>3 DEF Written
<1>5. ASSUME NEW b \in Addr, NEW k \in Levels PROVE Tab(n, b, k) = Tab(m, b, k)
  <2>1. CASE k = 1
    BY <2>1 DEF Tab
  <2>2. CASE k # 1
    <3>1. k - 1 \in Levels /\ k - 1 # LEVELS
      BY <2>2, LevelFacts
    <3>2. Walk(n, b)[k - 1] = Walk(m, b)[k - 1]
      BY <1>4, <3>1
    <3> QED
      BY <2>2, <3>2 DEF Tab
  <2> QED
    BY <2>1, <2>2
<1>6. OwnPlace(n)
  BY <1>5 DEF TreeInv, OwnPlace
<1>7. \A f \in av : n[f] = Empty
  <2>1. t \notin av /\ av \subseteq Frames /\ t \in Frames
    BY <1>0, <1>1, TabType DEF TreeInv, Frames
  <2> QED
    BY <1>1, <2>1 DEF TreeInv, Mem
<1> QED
  BY <1>1, <1>4, <1>5, <1>6, <1>7, ZenonT(40) DEF TreeInv

(***************************************************************************)
(* What page_init leaves behind is a tree: the way to the kernel's page    *)
(* table.                                                                  *)
(***************************************************************************)
LEMMA KernelEntry ==
  ASSUME NEW l \in Levels, NEW i \in IDX
  PROVE  KernelMem[KTABLES[l]][i] =
            IF l # LEVELS /\ KPATH[l] = i THEN Page(KTABLES[l + 1], 0) ELSE Zero
<1>1. KTABLES \in [Levels -> Nat \ {0}] /\ \A j \in Levels : KTABLES[j] = KTABLES[l] => j = l
  BY PageAssumption DEF PageAssumption, IsInjective
<1>2. KTABLES[l] \in Frames
  BY <1>1 DEF Frames, Range
<1>3. (CHOOSE j \in Levels : KTABLES[j] = KTABLES[l]) = l
  BY <1>1
<1>4. (\E j \in 1 .. (LEVELS - 1) : KTABLES[j] = KTABLES[l] /\ KPATH[j] = i)
        <=> (l # LEVELS /\ KPATH[l] = i)
  BY <1>1, LevelFacts DEF Levels
<1> QED
  BY <1>2, <1>3, <1>4 DEF KernelMem

OnPath(a, l) == \A j \in 1 .. l : a[j] = KPATH[j]

LEMMA KernelType == KernelMem \in Mem
<1>1. ASSUME NEW f \in Frames, NEW i \in IDX,
             \E l \in 1 .. (LEVELS - 1) : KTABLES[l] = f /\ KPATH[l] = i
      PROVE  Page(KTABLES[(CHOOSE l \in Levels : KTABLES[l] = f) + 1], 0) \in Entry
  <2> DEFINE c == CHOOSE l \in Levels : KTABLES[l] = f
  <2>1. PICK l \in 1 .. (LEVELS - 1) : KTABLES[l] = f
    BY <1>1
  <2>2. l \in Levels /\ l + 1 \in Levels
    BY LevelFacts DEF Levels
  <2>3. c = l
    BY <2>1, <2>2, PageAssumption DEF PageAssumption, IsInjective
  <2>4. KTABLES[l + 1] \in Frames
    BY <2>2, PageAssumption DEF PageAssumption, Frames, Range
  <2> QED
    BY <2>3, <2>4 DEF Page, Entry, Bit
<1> QED
  BY <1>1, ZeroType DEF KernelMem, Mem

LEMMA KernelWalk ==
  ASSUME NEW a \in Addr, NEW l \in Levels
  PROVE  Walk(KernelMem, a)[l] =
            IF l # LEVELS /\ OnPath(a, l) THEN Page(KTABLES[l + 1], 0) ELSE Zero
<1> DEFINE w == [k \in Levels |->
                   IF k # LEVELS /\ OnPath(a, k) THEN Page(KTABLES[k + 1], 0) ELSE Zero]
<1>0. a \in [Levels -> IDX]
  BY DEF Addr
<1>1. \A k \in Levels : KTABLES[k] # 0
  BY PageAssumption DEF PageAssumption
<1>2. w[1] = KernelMem[PML4][a[1]]
  <2>1. KernelMem[KTABLES[1]][a[1]] =
            IF 1 # LEVELS /\ KPATH[1] = a[1] THEN Page(KTABLES[1 + 1], 0) ELSE Zero
    BY <1>0, LevelFacts, KernelEntry
  <2>2. OnPath(a, 1) <=> KPATH[1] = a[1]
    BY DEF OnPath
  <2> QED
    BY <2>1, <2>2, LevelFacts DEF PML4
<1>3. ASSUME NEW k \in Levels, k # 1
      PROVE  w[k] = IF w[k - 1] = Zero THEN Zero ELSE KernelMem[w[k - 1].frame][a[k]]
  <2>1. k - 1 \in Levels /\ k - 1 # LEVELS /\ (k - 1) + 1 = k /\ a[k] \in IDX /\ k \in Nat
    BY <1>0, <1>3, LevelFacts
  <2>2. OnPath(a, k) <=> OnPath(a, k - 1) /\ a[k] = KPATH[k]
    <3>1. \A j \in 1 .. k : j \in 1 .. (k - 1) \/ j = k
      BY <2>1
    <3>2. k \in 1 .. k /\ \A j \in 1 .. (k - 1) : j \in 1 .. k
      BY <2>1 DEF Levels
    <3> QED
      BY <3>1, <3>2 DEF OnPath
  <2>3. w[k - 1] = IF OnPath(a, k - 1) THEN Page(KTABLES[k], 0) ELSE Zero
    BY <2>1
  <2>4. Page(KTABLES[k], 0) # Zero /\ Page(KTABLES[k], 0).frame = KTABLES[k]
    BY <1>1 DEF Page, Zero
  <2>5. KernelMem[KTABLES[k]][a[k]] =
            IF k # LEVELS /\ KPATH[k] = a[k] THEN Page(KTABLES[k + 1], 0) ELSE Zero
    BY <2>1, KernelEntry
  <2> QED
    BY <2>2, <2>3, <2>4, <2>5
<1>4. w = [k \in Levels |-> w[k]]
  OBVIOUS
<1>5. w[l] = IF l # LEVELS /\ OnPath(a, l) THEN Page(KTABLES[l + 1], 0) ELSE Zero
  OBVIOUS
<1> HIDE DEF w
<1>6. IsWalk(KernelMem, a, w)
  BY <1>2, <1>3, <1>4 DEF IsWalk
<1>7. Walk(KernelMem, a) = w
  BY <1>6, KernelType, WalkFrom
<1> QED
  BY <1>5, <1>7

LEMMA KernelTree == TreeInv(KernelMem, FRAMES)
<1>1. \A l \in Levels : KTABLES[l] # 0 /\ KTABLES[l] \notin FRAMES
  BY PageAssumption DEF PageAssumption, Range
<1>2. ASSUME NEW a \in Addr, NEW l \in Levels
      PROVE  Tab(KernelMem, a, l) = IF OnPath(a, l - 1) THEN KTABLES[l] ELSE 0
  <2>1. CASE l = 1
    BY <2>1 DEF OnPath, Tab, PML4
  <2>2. CASE l # 1
    <3>1. l - 1 \in Levels /\ l - 1 # LEVELS /\ (l - 1) + 1 = l
      BY <2>2, LevelFacts
    <3>2. Walk(KernelMem, a)[l - 1] = IF OnPath(a, l - 1) THEN Page(KTABLES[l], 0) ELSE Zero
      BY <3>1, KernelWalk
    <3> QED
      BY <2>2, <3>2 DEF Tab, Page, Zero
  <2> QED
    BY <2>1, <2>2
<1>3. OwnPlace(KernelMem)
  <2> SUFFICES ASSUME NEW a \in Addr, NEW b \in Addr, NEW l \in Levels, NEW k \in Levels,
                      Tab(KernelMem, a, l) # 0, Tab(KernelMem, a, l) = Tab(KernelMem, b, k)
               PROVE  l = k /\ Agree(a, b, l - 1)
    BY DEF OwnPlace
  <2>1. OnPath(a, l - 1) /\ OnPath(b, k - 1) /\ KTABLES[l] = KTABLES[k]
    BY <1>2
  <2>2. l = k
    BY <2>1, PageAssumption DEF PageAssumption, IsInjective
  <2> QED
    BY <2>1, <2>2 DEF OnPath, Agree
<1>4. \A a \in Addr : \A l \in Levels :
        l # LEVELS /\ Walk(KernelMem, a)[l] # Zero => Walk(KernelMem, a)[l].frame # 0
  <2> SUFFICES ASSUME NEW a \in Addr, NEW l \in Levels, l # LEVELS, Walk(KernelMem, a)[l] # Zero
               PROVE  Walk(KernelMem, a)[l].frame # 0
    OBVIOUS
  <2>1. Walk(KernelMem, a)[l] = Page(KTABLES[l + 1], 0) /\ l + 1 \in Levels
    BY KernelWalk, LevelFacts
  <2> QED
    BY <1>1, <2>1 DEF Page
<1>5. \A a \in Addr : \A l \in Levels : Tab(KernelMem, a, l) \notin FRAMES
  BY <1>1, <1>2, PageAssumption DEF PageAssumption
<1>6. \A f \in FRAMES : KernelMem[f] = Empty
  <2> SUFFICES ASSUME NEW f \in FRAMES PROVE KernelMem[f] = Empty
    OBVIOUS
  <2>1. f \in Frames /\ ~(\E l \in 1 .. (LEVELS - 1) : KTABLES[l] = f)
    BY <1>1, LevelFacts DEF Frames, Levels
  <2> QED
    BY <2>1 DEF KernelMem, Empty
<1> QED
  BY <1>3, <1>4, <1>5, <1>6, KernelType DEF TreeInv

(***************************************************************************)
(* One caller walking down the tables                                      *)
(***************************************************************************)
\* Calls are made while there is a page for every level (RESERVE).
Roomy == IsFiniteSet(FRAMES) /\ RESERVE \in Nat /\ RESERVE >= LEVELS

WalkTypes ==
    /\ pc \in [ACTORS -> {"idle", "open", "look", "fill", "close", "missing"}]
    /\ op \in [ACTORS -> {"none", "mount", "umount", "remap", "fault"}]
    /\ addr \in [ACTORS -> Addr] /\ to \in [ACTORS -> Addr]
    /\ pte \in [ACTORS -> Entry]
    /\ level \in [ACTORS -> Levels]
    /\ table \in [ACTORS -> Frames]
    /\ spaces \subseteq Frames /\ cr3 \in Frames

\* The table in hand is the one the address comes to, a new one is in nobody's
\* way, and what was mounted is there when the call is about to return.
Walking(c) ==
    /\ pc[c] \in {"open", "look"} =>
          table[c] # 0 /\ table[c] = Tab(mem, addr[c], level[c])
    /\ pc[c] = "look" => window = table[c]
    /\ pc[c] = "fill" =>
          /\ level[c] # LEVELS /\ Mounting(c)
          /\ window # 0 /\ window = Tab(mem, addr[c], level[c])
          /\ Walk(mem, addr[c])[level[c]] = Zero
          /\ NewTable(mem, table[c]) /\ table[c] \notin avail
    /\ pc[c] = "close" /\ level[c] # LEVELS =>
          table[c] # 0 /\ table[c] = Tab(mem, addr[c], level[c] + 1)
    /\ pc[c] = "close" /\ level[c] = LEVELS /\ Mounting(c) =>
          Walk(mem, addr[c])[LEVELS] = pte[c]
    /\ pc[c] = "missing" => ~Mounting(c)
    /\ pc[c] # "idle" /\ Mounting(c) => pte[c].exists = 1

\* Pages the call may still take.
Needed(c) ==
    IF op[c] = "remap" THEN LEVELS - 1
    ELSE IF Mounting(c)
    THEN LEVELS - level[c] - (IF pc[c] \in {"fill", "close"} THEN 1 ELSE 0)
    ELSE 0

PageInv ==
    /\ WalkTypes
    /\ TreeInv(mem, avail)
    /\ \A c \in ACTORS : Walking(c) /\ (pc[c] # "idle" => Cardinality(avail) >= Needed(c))

\* What a step may do to the walks: nothing, or one entry on the caller's way.
Change ==
    \/ \A a \in Addr : Walk(mem', a) = Walk(mem, a)
    \/ \E c \in ACTORS, l \in Levels, e \in Entry :
          /\ Written(mem, mem', addr[c], l, e)
          /\ IF l = LEVELS
             THEN /\ pc[c] = "look"
                  /\ e = IF Mounting(c) THEN pte[c]
                         ELSE [Walk(mem, addr[c])[LEVELS] EXCEPT !.exists = 0]
             ELSE pc[c] = "fill" /\ e.user = pte[c].user

LEMMA InitPage == ASSUME NEW d, ACTORS = {d} PROVE Init => PageInv
<1> SUFFICES ASSUME Init PROVE PageInv
  OBVIOUS
<1>1. TreeInv(mem, avail)
  BY KernelTree DEF Init
<1>2. WalkTypes
  <2>1. [l \in Levels |-> 0] \in Addr
    BY KptFrame DEF Addr
  <2> QED
    BY <2>1, KptFrame, LevelFacts, ZeroType DEF Init, WalkTypes
<1>3. \A c \in ACTORS : pc[c] = "idle"
  BY DEF Init
<1> QED
  BY <1>1, <1>2, <1>3 DEF PageInv, Walking

LEMMA PageType == ASSUME NEW f \in Frames, NEW u \in Bit
                  PROVE  Page(f, u) \in Entry /\ Page(f, u).exists = 1 /\ Page(f, u).user = u
                         /\ Page(f, u).frame = f
  BY DEF Page, Entry, Bit

\* Taking the lowest free page.
LEMMA TakeLowest ==
  ASSUME Roomy, NEW m, NEW av, TreeInv(m, av), NEW k \in Nat, Cardinality(av) >= k + 1
  PROVE  /\ Lowest(av) \in av /\ Lowest(av) \in Frames \ {0}
         /\ Cardinality(av \ {Lowest(av)}) >= k
         /\ av \ {Lowest(av)} \in SUBSET av
         /\ TreeInv(m, av \ {Lowest(av)})
         /\ NewTable(m, Lowest(av))
<1>1. av \in SUBSET FRAMES /\ IsFiniteSet(av)
  BY FS_Subset DEF Roomy, TreeInv
<1>2. Cardinality(av) \in Nat /\ av # {}
  BY <1>1, FS_CardinalityType, FS_EmptySet
<1>3. Lowest(av) \in av
  BY <1>1, <1>2, LowestIn
<1>4. Cardinality(av \ {Lowest(av)}) = Cardinality(av) - 1
  BY <1>1, <1>3, FS_RemoveElement
<1>5. Lowest(av) \in Frames \ {0}
  BY <1>1, <1>3, PageAssumption DEF PageAssumption, Frames
<1>6. TreeInv(m, av \ {Lowest(av)})
  BY <1>1 DEF TreeInv
<1>7. NewTable(m, Lowest(av))
  BY <1>3, <1>5 DEF TreeInv, NewTable
<1> QED
  BY <1>2, <1>3, <1>4, <1>5, <1>6, <1>7

\* A call begins at the root.
LEMMA BeginPage ==
  ASSUME NEW d, ACTORS = {d}, Roomy, PageInv, Ready(d),
         NEW o \in {"mount", "umount", "remap", "fault"}, NEW a \in Addr, NEW e \in Entry,
         o \in {"mount", "fault"} => e.exists = 1,
         Begin(d, o, a, e), mem' = mem, window' = window, to' \in [ACTORS -> Addr],
         UNCHANGED <<spaces, cr3>>,
         avail' = avail \/ avail' = avail \ {Lowest(avail)}
  PROVE  PageInv' /\ Change
<1>0. LEVELS - 1 \in Nat /\ Cardinality(avail) >= (LEVELS - 1) + 1
  <2>1. IsFiniteSet(avail)
    BY FS_Subset DEF Roomy, PageInv, TreeInv
  <2> QED
    BY <2>1, FS_CardinalityType, LevelFacts DEF Ready, Roomy
<1>1. TreeInv(mem, avail) /\ TreeInv(mem, avail \ {Lowest(avail)})
      /\ Cardinality(avail \ {Lowest(avail)}) >= LEVELS - 1
  BY <1>0, TakeLowest DEF PageInv
<1>2. TreeInv(mem', avail')
  BY <1>1
<1>3. Cardinality(avail') >= LEVELS - 1
  <2>1. Cardinality(avail) \in Nat
    BY FS_CardinalityType, FS_Subset DEF Roomy, PageInv, TreeInv
  <2> QED
    BY <1>0, <1>1, <2>1
<1>4. /\ pc' = [pc EXCEPT ![d] = "open"] /\ op' = [op EXCEPT ![d] = o]
      /\ addr' = [addr EXCEPT ![d] = a] /\ pte' = [pte EXCEPT ![d] = e]
      /\ level' = [level EXCEPT ![d] = 1] /\ table' = [table EXCEPT ![d] = PML4]
  BY DEF Begin
<1>5. WalkTypes'
  BY <1>4, KptFrame, LevelFacts DEF PageInv, WalkTypes
<1>6. /\ pc'[d] = "open" /\ op'[d] = o /\ addr'[d] = a /\ pte'[d] = e /\ level'[d] = 1
      /\ table'[d] = PML4
  BY <1>4 DEF PageInv, WalkTypes
<1>7. Walking(d)'
  BY <1>6, KptFrame DEF Walking, Tab, Mounting
<1>8. (Cardinality(avail) >= Needed(d))'
  <2>1. Cardinality(avail') \in Nat
    BY <1>2, FS_CardinalityType, FS_Subset DEF Roomy, TreeInv
  <2> QED
    BY <1>0, <1>3, <1>6, <2>1 DEF Needed, Mounting
<1>9. Change
  BY DEF Change
<1> QED
  BY <1>2, <1>5, <1>7, <1>8, <1>9 DEF PageInv

LEMMA AvailCount ==
  ASSUME Roomy, NEW m, NEW av, TreeInv(m, av)
  PROVE  Cardinality(av) \in Nat
  BY FS_CardinalityType, FS_Subset DEF Roomy, TreeInv

LEMMA CallPage ==
  ASSUME NEW d, ACTORS = {d}, Roomy, PageInv,
         \/ \E f \in DEVICES, a \in KERNEL : MountPage(d, f, a)
         \/ \E a \in KERNEL : AllocPages(d, a, 0)
         \/ \E a \in USER : AllocPages(d, a, 1)
         \/ \E a \in KERNEL : UmountPage(d, a)
         \/ \E a \in FAULTS, b \in KERNEL : RemapPages(d, a, b)
         \/ \E a \in FAULTS : PageFault(d, a)
  PROVE  PageInv' /\ Change
<1>0. /\ USER \subseteq Addr /\ KERNEL \subseteq Addr /\ FAULTS \subseteq Addr
      /\ DEVICES \subseteq Frames /\ Lowest(avail) \in Frames
      /\ to \in [ACTORS -> Addr] /\ 0 \in Bit /\ 1 \in Bit
  BY PageAssumption, LowestFrame DEF PageAssumption, Frames, PageInv, TreeInv, WalkTypes, Bit
<1>1. ASSUME NEW f \in DEVICES, NEW a \in KERNEL, MountPage(d, f, a) PROVE PageInv' /\ Change
  BY <1>0, <1>1, PageType, BeginPage DEF MountPage
<1>2. ASSUME NEW a \in Addr, NEW u \in Bit, AllocPages(d, a, u) PROVE PageInv' /\ Change
  BY <1>0, <1>2, PageType, BeginPage DEF AllocPages
<1>3. ASSUME NEW a \in KERNEL, UmountPage(d, a) PROVE PageInv' /\ Change
  BY <1>0, <1>3, ZeroType, BeginPage DEF UmountPage
<1>4. ASSUME NEW a \in FAULTS, NEW b \in KERNEL, RemapPages(d, a, b) PROVE PageInv' /\ Change
  <2>1. to' \in [ACTORS -> Addr]
    BY <1>0, <1>4 DEF RemapPages
  <2> QED
    BY <1>0, <1>4, <2>1, ZeroType, BeginPage DEF RemapPages
<1>5. ASSUME NEW a \in FAULTS, PageFault(d, a) PROVE PageInv' /\ Change
  BY <1>0, <1>5, PageType, BeginPage DEF PageFault
<1> QED
  BY <1>0, <1>1, <1>2, <1>3, <1>4, <1>5

\* fork and the start of a CPU write to free pages only.
LEMMA IdlePage ==
  ASSUME NEW d, ACTORS = {d}, PageInv, pc[d] = "idle", UNCHANGED walkVars,
         TreeInv(mem', avail'), (spaces \subseteq Frames)', (cr3 \in Frames)'
  PROVE  PageInv'
  BY DEF PageInv, WalkTypes, walkVars, Walking

LEMMA CopyPagesPage ==
  ASSUME NEW d, ACTORS = {d}, Roomy, PageInv, CopyPages(d)
  PROVE  PageInv' /\ Change
<1> DEFINE s == [mem |-> mem, avail |-> avail]
           x == [k |-> LEVELS, i |-> 0, f |-> cr3, buf |-> ReadPage(s, cr3), s |-> s]
<1>1. s \in Store /\ cr3 \in Frames /\ TreeInv(mem, avail) /\ spaces \subseteq Frames
  BY DEF Store, PageInv, TreeInv, Mem, WalkTypes
<1>2. ReadPage(s, cr3) \in [IDX -> Entry]
  BY <1>1, ReadType
<1>3. x \in CopyCall /\ x.s = s /\ s.mem = mem /\ s.avail = avail
  BY <1>1, <1>2, LevelFacts, KptFrame DEF CopyCall
<1>4. /\ mem' = CopyPage[x].store.mem /\ avail' = CopyPage[x].store.avail
      /\ spaces' = spaces \cup {CopyPage[x].frame}
  BY DEF CopyPages
<1> HIDE DEF s, x
<1>5. CopyPage[x] \in CopyResult /\ Kept(s, CopyPage[x].store)
  BY <1>3, CopyPageKeeps
<1>6. mem' \in Mem /\ avail' \subseteq avail /\ (spaces \subseteq Frames)'
      /\ \A f \in Frames \ {0} : f \notin avail \ avail' => mem'[f] = mem[f]
  <2>1. CopyPage[x].store.mem \in Mem /\ CopyPage[x].frame \in Frames
    BY <1>5 DEF CopyResult, Store, Mem
  <2> QED
    BY <1>1, <1>3, <1>4, <1>5, <2>1 DEF Kept
<1>7. \A a \in Addr : Walk(mem', a) = Walk(mem, a)
  <2>1. \A a \in Addr : \A l \in Levels :
           Tab(mem, a, l) # 0 => mem'[Tab(mem, a, l)] = mem[Tab(mem, a, l)]
    BY <1>1, <1>6, TabType DEF TreeInv
  <2> QED
    BY <1>1, <1>6, <2>1, WalkSame
<1>8. \A f \in avail' : mem'[f] = mem[f]
  BY <1>1, <1>6, PageAssumption DEF PageAssumption, TreeInv, Frames
<1>9. TreeInv(mem', avail')
  BY <1>1, <1>6, <1>7, <1>8, TreeSame
<1>10. pc[d] = "idle" /\ UNCHANGED walkVars /\ (cr3 \in Frames)'
  BY <1>1 DEF CopyPages, Ready, At
<1>11. PageInv'
  BY <1>6, <1>9, <1>10, IdlePage
<1> QED
  BY <1>7, <1>11 DEF Change

LEMMA PageInitApPage ==
  ASSUME NEW d, ACTORS = {d}, Roomy, PageInv, PageInitAp(d)
  PROVE  PageInv' /\ Change
<1>1. TreeInv(mem, avail) /\ cr3 \in Frames /\ spaces \subseteq Frames /\ mem \in Mem
      /\ avail \subseteq Frames \ {0}
  BY PageAssumption DEF PageAssumption, PageInv, TreeInv, WalkTypes, Frames
<1>2. PICK new \in [1 .. (LEVELS - 1) -> avail] :
          /\ mem' = [f \in Frames |->
                       IF f \in Range(new)
                       THEN LET l == CHOOSE l \in DOMAIN new : new[l] = f
                            IN [Empty EXCEPT ![KPATH[l]] =
                                  Page(IF l = LEVELS - 1 THEN KPT ELSE new[l + 1], 0)]
                       ELSE mem[f]]
          /\ avail' = avail \ Range(new)
          /\ spaces' = spaces \cup {new[1]}
  BY DEF PageInitAp
<1>3. Range(new) \subseteq avail /\ new[1] \in avail
  BY <1>2, LevelFacts DEF Range
<1>4. ASSUME NEW f \in Range(new)
      PROVE  LET l == CHOOSE l \in DOMAIN new : new[l] = f
             IN [Empty EXCEPT ![KPATH[l]] =
                    Page(IF l = LEVELS - 1 THEN KPT ELSE new[l + 1], 0)] \in [IDX -> Entry]
  <2> DEFINE l == CHOOSE l \in DOMAIN new : new[l] = f
  <2>1. l \in 1 .. (LEVELS - 1)
    BY <1>2, <1>4 DEF Range
  <2> HIDE DEF l
  <2>2. KPATH[l] \in IDX
    BY <2>1, PageAssumption DEF PageAssumption
  <2>3. (IF l = LEVELS - 1 THEN KPT ELSE new[l + 1]) \in Frames
    <3>1. l # LEVELS - 1 => l + 1 \in 1 .. (LEVELS - 1)
      BY <2>1, LevelFacts
    <3> QED
      BY <1>1, <1>2, <3>1, KptFrame
  <2>4. [Empty EXCEPT ![KPATH[l]] = Page(IF l = LEVELS - 1 THEN KPT ELSE new[l + 1], 0)] \in [IDX -> Entry]
    BY <2>2, <2>3, PageType, ZeroType DEF Bit
  <2> QED
    BY <2>4 DEF l
<1>5. mem' \in Mem
  BY <1>1, <1>2, <1>4, ZenonT(40) DEF Mem
<1>6. \A f \in Frames : f \notin Range(new) => mem'[f] = mem[f]
  BY <1>2
<1>7. \A a \in Addr : Walk(mem', a) = Walk(mem, a)
  <2>1. \A a \in Addr : \A l \in Levels :
           Tab(mem, a, l) # 0 => mem'[Tab(mem, a, l)] = mem[Tab(mem, a, l)]
    BY <1>1, <1>3, <1>6, TabType DEF TreeInv
  <2> QED
    BY <1>1, <1>5, <2>1, WalkSame
<1>8. avail' \in SUBSET avail /\ \A f \in avail' : mem'[f] = mem[f]
  BY <1>1, <1>2, <1>6
<1>9. TreeInv(mem', avail')
  BY <1>1, <1>5, <1>7, <1>8, TreeSame
<1>10. pc[d] = "idle" /\ UNCHANGED walkVars /\ (cr3 \in Frames)' /\ (spaces \subseteq Frames)'
  BY <1>1, <1>2, <1>3 DEF PageInitAp, Ready, At
<1>11. PageInv'
  BY <1>9, <1>10, IdlePage
<1> QED
  BY <1>7, <1>11 DEF Change

\* A step of the walk that leaves memory alone.
LEMMA QuietPage ==
  ASSUME NEW d, ACTORS = {d}, PageInv, mem' = mem, avail' \in SUBSET avail, WalkTypes',
         Walking(d)', (pc[d] # "idle" => Cardinality(avail) >= Needed(d))'
  PROVE  PageInv' /\ Change
<1>1. TreeInv(mem', avail')
  BY DEF PageInv, TreeInv
<1> QED
  BY <1>1 DEF PageInv, Change

LEMMA OpenPage ==
  ASSUME NEW d, ACTORS = {d}, Roomy, PageInv, Open(d)
  PROVE  PageInv' /\ Change
<1>1. WalkTypes /\ Walking(d) /\ Cardinality(avail) >= Needed(d) /\ pc[d] = "open"
  BY DEF PageInv, Open, At
<1>2. WalkTypes' /\ pc'[d] = "look"
  BY <1>1 DEF Open, WalkTypes
<1>3. Walking(d)'
  BY <1>1, <1>2 DEF Open, Walking, Mounting
<1>4. (pc[d] # "idle" => Cardinality(avail) >= Needed(d))'
  BY <1>1, <1>2 DEF Open, Needed, Mounting
<1>5. mem' = mem /\ avail' \in SUBSET avail
  BY DEF Open
<1> QED
  BY <1>2, <1>3, <1>4, <1>5, QuietPage

LEMMA LevelNext ==
  ASSUME NEW l \in Levels, l < LEVELS
  PROVE  /\ l \in Nat /\ l # LEVELS /\ l + 1 \in Levels /\ l + 1 # 1 /\ (l + 1) - 1 = l
         /\ LEVELS \in Nat /\ LEVELS - l - 1 \in Nat
  BY LevelFacts

LEMMA LookFacts ==
  ASSUME NEW d, ACTORS = {d}, PageInv, pc[d] = "look", level[d] < LEVELS
  PROVE  /\ WalkTypes /\ Walking(d) /\ Cardinality(avail) >= Needed(d)
         /\ TreeInv(mem, avail) /\ mem \in Mem /\ addr[d] \in Addr /\ level[d] \in Levels
         /\ level[d] # LEVELS /\ level[d] + 1 \in Levels /\ level[d] + 1 # 1
         /\ (level[d] + 1) - 1 = level[d]
         /\ window # 0 /\ window = Tab(mem, addr[d], level[d])
         /\ Walk(mem, addr[d])[level[d]] = mem[window][Index(d)]
<1>1. /\ WalkTypes /\ Walking(d) /\ Cardinality(avail) >= Needed(d)
      /\ TreeInv(mem, avail) /\ mem \in Mem /\ addr[d] \in Addr /\ level[d] \in Levels
  BY DEF PageInv, WalkTypes, TreeInv
<1>2. window # 0 /\ window = Tab(mem, addr[d], level[d])
  BY <1>1 DEF Walking
<1>3. Walk(mem, addr[d])[level[d]] = mem[window][Index(d)]
  BY <1>1, <1>2, WalkReads DEF Index
<1> QED
  BY <1>1, <1>2, <1>3, LevelNext

LEMMA FollowPage ==
  ASSUME NEW d, ACTORS = {d}, Roomy, PageInv, Follow(d)
  PROVE  PageInv' /\ Change
<1> DEFINE e == mem[window][Index(d)]
<1>1. pc[d] = "look" /\ level[d] < LEVELS /\ (Mounting(d) => e # Zero)
      /\ table' = [table EXCEPT ![d] = e.frame]
      /\ pc' = [pc EXCEPT ![d] = IF e = Zero THEN "missing" ELSE "close"]
      /\ UNCHANGED <<mem, avail, window, spaces, cr3, op, addr, pte, level, to>>
  BY DEF Follow, At
<1>2. /\ WalkTypes /\ Walking(d) /\ Cardinality(avail) >= Needed(d)
      /\ TreeInv(mem, avail) /\ mem \in Mem /\ addr[d] \in Addr /\ level[d] \in Levels
      /\ level[d] # LEVELS /\ level[d] + 1 \in Levels /\ level[d] + 1 # 1
      /\ (level[d] + 1) - 1 = level[d]
      /\ Walk(mem, addr[d])[level[d]] = e
  BY <1>1, LookFacts
<1> HIDE DEF e
<1>3. e \in Entry /\ e.frame \in Frames /\ (e # Zero => e.frame # 0)
      /\ Tab(mem, addr[d], level[d] + 1) = e.frame
  <2>1. e \in Entry
    BY <1>2, WalkSteps
  <2> QED
    BY <1>2, <2>1 DEF Entry, TreeInv, Tab
<1>4. WalkTypes' /\ pc'[d] = (IF e = Zero THEN "missing" ELSE "close") /\ table'[d] = e.frame
  BY <1>1, <1>2, <1>3 DEF WalkTypes
<1>5. Walking(d)'
  BY <1>1, <1>2, <1>3, <1>4 DEF Walking, Mounting
<1>6. (pc[d] # "idle" => Cardinality(avail) >= Needed(d))'
  <2>1. Cardinality(avail) \in Nat /\ level[d] \in Nat /\ LEVELS \in Nat /\ op'[d] = op[d]
        /\ level'[d] = level[d] /\ avail' = avail
    BY <1>1, <1>2, AvailCount, LevelNext
  <2>2. CASE Mounting(d)
    BY <1>1, <1>2, <1>4, <2>1, <2>2 DEF Needed, Mounting
  <2>3. CASE ~Mounting(d)
    BY <1>1, <1>2, <1>4, <2>1, <2>3 DEF Needed, Mounting
  <2> QED
    BY <2>2, <2>3
<1>7. mem' = mem /\ avail' \in SUBSET avail
  BY <1>1
<1> QED
  BY <1>4, <1>5, <1>6, <1>7, QuietPage

LEMMA CreatePage ==
  ASSUME NEW d, ACTORS = {d}, Roomy, PageInv, Create(d)
  PROVE  PageInv' /\ Change
<1> DEFINE n == Lowest(avail)
<1>1. pc[d] = "look" /\ level[d] < LEVELS /\ Mounting(d) /\ mem[window][Index(d)] = Zero
      /\ table' = [table EXCEPT ![d] = n] /\ avail' = avail \ {n}
      /\ pc' = [pc EXCEPT ![d] = "fill"]
      /\ UNCHANGED <<mem, window, spaces, cr3, op, addr, pte, level, to>>
  BY DEF Create, At
<1>2. /\ WalkTypes /\ Walking(d) /\ Cardinality(avail) >= Needed(d)
      /\ TreeInv(mem, avail) /\ level[d] \in Levels /\ level[d] # LEVELS
      /\ window # 0 /\ window = Tab(mem, addr[d], level[d])
      /\ Walk(mem, addr[d])[level[d]] = Zero
  BY <1>1, LookFacts
<1> DEFINE k == LEVELS - level[d] - 1
<1>3. k \in Nat /\ Cardinality(avail) >= k + 1
  <2>1. Cardinality(avail) \in Nat /\ level[d] \in Nat /\ LEVELS \in Nat /\ k \in Nat
    BY <1>1, <1>2, AvailCount, LevelNext
  <2>2. Needed(d) = LEVELS - level[d]
    BY <1>1, <2>1 DEF Needed, Mounting
  <2> QED
    BY <1>2, <2>1, <2>2
<1> HIDE DEF k
<1>4. /\ n \in avail /\ n \in Frames \ {0} /\ Cardinality(avail \ {n}) >= k
      /\ NewTable(mem, n)
  BY <1>2, <1>3, TakeLowest
<1> HIDE DEF n
<1>5. WalkTypes' /\ pc'[d] = "fill" /\ table'[d] = n
  BY <1>1, <1>2, <1>4 DEF WalkTypes
<1>6. Walking(d)'
  BY <1>1, <1>2, <1>4, <1>5 DEF Walking, Mounting
<1>7. (pc[d] # "idle" => Cardinality(avail) >= Needed(d))'
  BY <1>1, <1>3, <1>4, <1>5 DEF Needed, Mounting, k
<1>8. mem' = mem /\ avail' \in SUBSET avail
  BY <1>1
<1> QED
  BY <1>5, <1>6, <1>7, <1>8, QuietPage

LEMMA FillPage ==
  ASSUME NEW d, ACTORS = {d}, Roomy, PageInv, Fill(d)
  PROVE  PageInv' /\ Change
<1> DEFINE e == Page(table[d], pte[d].user)
           l == level[d]
           a == addr[d]
<1>1. pc[d] = "fill" /\ mem' = [mem EXCEPT ![window][a[l]] = e]
      /\ pc' = [pc EXCEPT ![d] = "close"]
      /\ UNCHANGED <<avail, window, spaces, cr3, op, addr, pte, level, table, to>>
  BY DEF Fill, At, Index
<1>2. /\ WalkTypes /\ TreeInv(mem, avail) /\ Cardinality(avail) >= Needed(d)
      /\ a \in Addr /\ l \in Levels /\ l # LEVELS /\ table[d] \in Frames /\ pte[d].user \in Bit
      /\ window # 0 /\ window = Tab(mem, a, l) /\ Walk(mem, a)[l] = Zero
      /\ NewTable(mem, table[d]) /\ table[d] \notin avail /\ Mounting(d) /\ pte[d].exists = 1
  <2>1. WalkTypes /\ TreeInv(mem, avail) /\ Cardinality(avail) >= Needed(d) /\ Walking(d)
    BY <1>1 DEF PageInv
  <2>2. pte[d] \in Entry
    BY <2>1 DEF WalkTypes
  <2>3. pte[d].user \in Bit
    BY <2>2 DEF Entry
  <2> QED
    BY <1>1, <2>1, <2>3 DEF WalkTypes, Walking
<1>3. e \in Entry /\ e.frame = table[d] /\ e.user = pte[d].user
  BY <1>2, PageType
<1> HIDE DEF e
<1>4. TreeInv(mem', avail)
  BY <1>1, <1>2, <1>3, FillTree
<1>5. Tab(mem', a, l + 1) = table[d]
  <2>1. l + 1 \in Levels /\ Agree(a, a, l)
    BY <1>2, LevelFacts DEF Agree
  <2>2. Grown(mem, mem', a, l, e.frame)
    BY <1>1, <1>2, <1>3, FillTree
  <2> QED
    BY <1>2, <1>3, <2>1, <2>2 DEF Grown
<1>6. Written(mem, mem', a, l, e)
  BY <1>1, <1>2, <1>3, WriteWalk
<1>7. WalkTypes' /\ pc'[d] = "close"
  BY <1>1, <1>2 DEF WalkTypes
<1>8. Walking(d)'
  BY <1>1, <1>2, <1>5, <1>7 DEF Walking, Mounting, NewTable
<1>9. (pc[d] # "idle" => Cardinality(avail) >= Needed(d))'
  BY <1>1, <1>2, <1>7 DEF Needed, Mounting
<1>10. Change
  BY <1>1, <1>2, <1>3, <1>6 DEF Change
<1> QED
  BY <1>1, <1>4, <1>7, <1>8, <1>9, <1>10 DEF PageInv

LEMMA LastPage ==
  ASSUME NEW d, ACTORS = {d}, Roomy, PageInv, Last(d)
  PROVE  PageInv' /\ Change
<1> DEFINE a == addr[d]
           old == mem[window][a[LEVELS]]
           e == IF Mounting(d) THEN pte[d] ELSE [old EXCEPT !.exists = 0]
<1>1. pc[d] = "look" /\ level[d] = LEVELS
      /\ mem' = (IF Mounting(d) THEN [mem EXCEPT ![window][a[LEVELS]] = pte[d]]
                 ELSE [mem EXCEPT ![window][a[LEVELS]].exists = 0])
      /\ pte' = (IF Mounting(d) THEN pte ELSE [pte EXCEPT ![d] = old])
      /\ pc' = [pc EXCEPT ![d] = "close"]
      /\ UNCHANGED <<avail, window, spaces, cr3, op, addr, level, table, to>>
  BY DEF Last, At, Index
<1>2. /\ WalkTypes /\ TreeInv(mem, avail) /\ Cardinality(avail) >= Needed(d) /\ Walking(d)
      /\ a \in Addr /\ LEVELS \in Levels /\ pte[d] \in Entry /\ mem \in Mem
  BY <1>1, LevelFacts DEF PageInv, WalkTypes, TreeInv
<1>3. window # 0 /\ window = Tab(mem, a, LEVELS)
  BY <1>1, <1>2 DEF Walking
<1>4. old = Walk(mem, a)[LEVELS] /\ old \in Entry
  BY <1>2, <1>3, WalkReads, WalkSteps
<1> HIDE DEF old
<1>5. e \in Entry /\ [old EXCEPT !.exists = 0] \in Entry
  BY <1>2, <1>4 DEF Entry, Bit
<1>6. mem' = [mem EXCEPT ![window][a[LEVELS]] = e]
  BY <1>1 DEF old
<1> HIDE DEF e
<1>7. TreeInv(mem', avail)
  BY <1>2, <1>3, <1>5, <1>6, LastTree
<1>8. Written(mem, mem', a, LEVELS, e)
  BY <1>2, <1>3, <1>5, <1>6, WriteWalk
<1>9. Walk(mem', a)[LEVELS] = e
  BY <1>2, <1>8 DEF Written, Agree
<1>10. WalkTypes' /\ pc'[d] = "close"
  BY <1>1, <1>2, <1>4 DEF WalkTypes
<1>11. Walking(d)'
  BY <1>1, <1>2, <1>9, <1>10 DEF Walking, Mounting, e
<1>12. (pc[d] # "idle" => Cardinality(avail) >= Needed(d))'
  <2>1. Cardinality(avail) \in Nat
    BY <1>2, AvailCount
  <2> QED
    BY <1>1, <1>2, <1>10, <2>1, LevelFacts DEF Needed, Mounting
<1>13. Change
  <2>1. e = IF Mounting(d) THEN pte[d] ELSE [Walk(mem, a)[LEVELS] EXCEPT !.exists = 0]
    BY <1>4 DEF e
  <2> QED
    BY <1>1, <1>2, <1>5, <1>8, <2>1 DEF Change
<1> QED
  BY <1>1, <1>7, <1>10, <1>11, <1>12, <1>13 DEF PageInv

LEMMA ClosePage ==
  ASSUME NEW d, ACTORS = {d}, Roomy, PageInv, Close(d)
  PROVE  PageInv' /\ Change
<1>1. pc[d] = "close" /\ level[d] < LEVELS
      /\ level' = [level EXCEPT ![d] = @ + 1] /\ pc' = [pc EXCEPT ![d] = "open"]
      /\ UNCHANGED <<mem, avail, spaces, cr3, op, addr, pte, table, to>>
  BY DEF Close, At
<1>2. WalkTypes /\ Walking(d) /\ Cardinality(avail) >= Needed(d) /\ level[d] \in Levels
      /\ level[d] + 1 \in Levels /\ level[d] # LEVELS
  <2>1. WalkTypes /\ Walking(d) /\ Cardinality(avail) >= Needed(d) /\ level[d] \in Levels
    BY <1>1 DEF PageInv, WalkTypes
  <2> QED
    BY <1>1, <2>1, LevelNext
<1>3. WalkTypes' /\ pc'[d] = "open" /\ level'[d] = level[d] + 1
  BY <1>1, <1>2 DEF WalkTypes
<1>4. Walking(d)'
  BY <1>1, <1>2, <1>3 DEF Walking, Mounting
<1>5. (pc[d] # "idle" => Cardinality(avail) >= Needed(d))'
  <2>1. level[d] \in Nat /\ LEVELS \in Nat /\ op'[d] = op[d]
    BY <1>1, <1>2, LevelNext
  <2> QED
    BY <1>1, <1>2, <1>3, <2>1 DEF Needed, Mounting
<1>6. mem' = mem /\ avail' \in SUBSET avail
  BY <1>1
<1> QED
  BY <1>3, <1>4, <1>5, <1>6, QuietPage

LEMMA ReturnPage ==
  ASSUME NEW d, ACTORS = {d}, Roomy, PageInv, Return(d)
  PROVE  PageInv' /\ Change
<1>1. UNCHANGED <<mem, avail, spaces, cr3, to>>
  BY DEF Return
<1>2. WalkTypes /\ Walking(d) /\ (pc[d] # "idle" => Cardinality(avail) >= Needed(d)) /\ TreeInv(mem, avail)
  BY DEF PageInv
<1>3. CASE op[d] = "remap"
  <2> DEFINE e == Page(pte[d].frame, 0)
  <2>1. /\ op' = [op EXCEPT ![d] = "mount"] /\ addr' = [addr EXCEPT ![d] = to[d]]
        /\ pte' = [pte EXCEPT ![d] = e] /\ level' = [level EXCEPT ![d] = 1]
        /\ table' = [table EXCEPT ![d] = PML4] /\ pc' = [pc EXCEPT ![d] = "open"]
        /\ pc[d] # "idle"
    BY <1>3 DEF Return, Begin, At
  <2>2. e \in Entry /\ e.exists = 1
    <3>1. pte[d] \in Entry
      BY <1>2 DEF WalkTypes
    <3>2. pte[d].frame \in Frames
      BY <3>1 DEF Entry
    <3> QED
      BY <3>2, PageType DEF Bit
  <2> HIDE DEF e
  <2>3. WalkTypes'
    BY <1>1, <1>2, <2>1, <2>2, KptFrame, LevelFacts DEF WalkTypes
  <2>4. /\ op'[d] = "mount" /\ pte'[d] = e /\ level'[d] = 1 /\ table'[d] = PML4 /\ pc'[d] = "open"
    BY <1>2, <2>1 DEF WalkTypes
  <2>5. Walking(d)'
    BY <1>1, <2>2, <2>4, KptFrame DEF Walking, Mounting, Tab
  <2>6. (pc[d] # "idle" => Cardinality(avail) >= Needed(d))'
    <3>1. LEVELS \in Nat /\ Needed(d) = LEVELS - 1 /\ Cardinality(avail) >= LEVELS - 1
      BY <1>2, <1>3, <2>1, LevelFacts DEF Needed
    <3>2. Needed(d)' = LEVELS - 1
      BY <2>4, <3>1 DEF Needed, Mounting
    <3> QED
      BY <1>1, <3>1, <3>2
  <2> QED
    BY <1>1, <2>3, <2>5, <2>6, QuietPage
<1>4. CASE op[d] # "remap"
  <2>1. pc' = [pc EXCEPT ![d] = "idle"] /\ UNCHANGED <<op, addr, pte, level, table>>
    BY <1>4 DEF Return
  <2>2. WalkTypes' /\ pc'[d] = "idle"
    BY <1>1, <1>2, <2>1 DEF WalkTypes
  <2>3. Walking(d)'
    BY <2>2 DEF Walking
  <2> QED
    BY <1>1, <2>2, <2>3, QuietPage
<1> QED
  BY <1>3, <1>4

LEMMA NextPage ==
  ASSUME NEW d, ACTORS = {d}, Roomy, PageInv, [Next]_vars
  PROVE  PageInv' /\ Change
<1>1. CASE Call(d)
  BY <1>1, CallPage, CopyPagesPage, PageInitApPage DEF Call
<1>2. CASE Step(d)
  BY <1>2, OpenPage, FollowPage, CreatePage, FillPage, LastPage, ClosePage, ReturnPage DEF Step
<1>3. ASSUME NEW r \in spaces, SwitchSpace(r) PROVE PageInv' /\ Change
  <2>1. pc[d] = "idle" /\ UNCHANGED walkVars /\ UNCHANGED <<mem, avail, spaces>> /\ cr3' = r
    BY <1>3 DEF SwitchSpace
  <2>2. TreeInv(mem', avail') /\ (spaces \subseteq Frames)' /\ (cr3 \in Frames)'
    BY <2>1 DEF PageInv, WalkTypes
  <2>3. PageInv'
    BY <2>1, <2>2, IdlePage
  <2> QED
    BY <2>1, <2>3 DEF Change
<1>4. CASE Processor \/ UNCHANGED vars
  BY <1>4, ProcessorOnly DEF walkVars, PageInv, WalkTypes, Walking, Needed, Mounting, Change
<1> QED
  BY <1>1, <1>2, <1>3, <1>4 DEF Next

LEMMA SpecPage ==
  ASSUME NEW CONSTANT d, ACTORS = {d}, Roomy
  PROVE  Spec => []PageInv
<1>1. Init => PageInv
  BY InitPage
<1>2. PageInv /\ [Next]_vars => PageInv'
  BY NextPage
<1> QED
  BY <1>1, <1>2, PTL DEF Spec

\* A mount returns from the page table.
LEMMA ReturnsAtEnd ==
  ASSUME NEW d, ACTORS = {d}, PageInv, [Next]_vars, op[d] \in {"mount", "fault"},
         pc[d] # "idle", pc'[d] = "idle"
  PROVE  pc[d] = "close" /\ level[d] = LEVELS
<1>1. Walking(d) /\ pc \in [ACTORS -> {"idle", "open", "look", "fill", "close", "missing"}]
  BY DEF PageInv, WalkTypes
<1>2. Return(d)
  <2>1. ~Call(d)
    BY DEF Call, MountPage, AllocPages, UmountPage, RemapPages, PageFault, CopyPages, PageInitAp,
           Ready, At
  <2>2. ASSUME NEW r \in spaces PROVE ~SwitchSpace(r)
    BY DEF SwitchSpace
  <2>3. ~(Processor \/ UNCHANGED vars)
    BY ProcessorOnly DEF walkVars
  <2>4. Step(d)
    BY <2>1, <2>2, <2>3 DEF Next
  <2> QED
    BY <1>1, <2>4 DEF Step, Open, Follow, Create, Fill, Last, Close
<1> QED
  BY <1>1, <1>2 DEF Return, At, Walking, Mounting

\* The entries the walks come to in the end, and what a call enters there.
Entries(m) == [a \in Addr |-> Walk(m, a)[LEVELS]]
Asked(c) == IF Mounting(c) THEN pte[c]
            ELSE [Walk(mem, addr[c])[LEVELS] EXCEPT !.exists = 0]

LEMMA LastFacts ==
  ASSUME NEW d, ACTORS = {d}, PageInv, Last(d)
  PROVE  /\ mem[window][Index(d)] = Walk(mem, addr[d])[LEVELS]
         /\ Asked(d) \in Entry
         /\ Entries(mem') = [Entries(mem) EXCEPT ![addr[d]] = Asked(d)]
<1> DEFINE a == addr[d]
           old == Walk(mem, a)[LEVELS]
           e == Asked(d)
<1>1. /\ WalkTypes /\ TreeInv(mem, avail) /\ Walking(d) /\ pc[d] = "look" /\ level[d] = LEVELS
      /\ a \in Addr /\ LEVELS \in Levels /\ pte[d] \in Entry /\ mem \in Mem
  BY LevelFacts DEF PageInv, WalkTypes, TreeInv, Last, At
<1>2. window # 0 /\ window = Tab(mem, a, LEVELS)
  BY <1>1 DEF Walking
<1>3. mem[window][Index(d)] = old /\ old \in Entry /\ Index(d) = a[LEVELS]
  BY <1>1, <1>2, WalkReads, WalkSteps DEF Index
<1>4. e \in Entry
  <2>1. [old EXCEPT !.exists = 0] \in Entry
    BY <1>3 DEF Entry, Bit
  <2> QED
    BY <1>1, <2>1 DEF Asked
<1>5. mem' = [mem EXCEPT ![window][a[LEVELS]] = e]
  <2>1. CASE Mounting(d)
    BY <1>3, <2>1 DEF Last, Asked
  <2>2. CASE ~Mounting(d)
    BY <1>3, <2>2 DEF Last, Asked
  <2> QED
    BY <2>1, <2>2
<1> HIDE DEF e
<1>6. Written(mem, mem', a, LEVELS, e)
  BY <1>1, <1>2, <1>4, <1>5, WriteWalk
<1>7. \A b \in Addr : Walk(mem', b)[LEVELS] = IF b = a THEN e ELSE Walk(mem, b)[LEVELS]
  BY <1>1, <1>6, AgreeAll DEF Written
<1>8. Entries(mem') = [Entries(mem) EXCEPT ![a] = e]
  BY <1>1, <1>7 DEF Entries
<1> QED
  BY <1>3, <1>4, <1>8 DEF e

LEMMA OtherEntries ==
  ASSUME NEW d, ACTORS = {d}, Roomy, PageInv, [Next]_vars, ~Last(d)
  PROVE  Entries(mem') = Entries(mem)
<1>1. CASE mem' = mem
  BY <1>1
<1>2. CASE pc[d] # "look"
  <2>1. CASE \A a \in Addr : Walk(mem', a) = Walk(mem, a)
    BY <2>1 DEF Entries
  <2>2. CASE \E l \in Levels, e \in Entry : l # LEVELS /\ Written(mem, mem', addr[d], l, e)
    BY <2>2, LevelFacts DEF Entries, Written
  <2> QED
    BY <1>2, <2>1, <2>2, NextPage DEF Change
<1>3. pc[d] = "look" => mem' = mem
  <2> SUFFICES ASSUME pc[d] = "look" PROVE mem' = mem
    OBVIOUS
  <2>1. ~Call(d)
    BY DEF Call, MountPage, AllocPages, UmountPage, RemapPages, PageFault, CopyPages, PageInitAp,
           Ready, At
  <2>2. CASE Step(d)
    BY <2>2 DEF Step, Open, Follow, Create, Fill, Close, Return, At
  <2>3. CASE \E r \in spaces : SwitchSpace(r)
    BY <2>3 DEF SwitchSpace
  <2>4. CASE Processor \/ UNCHANGED vars
    BY <2>4, ProcessorOnly
  <2> QED
    BY <2>1, <2>2, <2>3, <2>4 DEF Next
<1> QED
  BY <1>1, <1>2, <1>3

(***************************************************************************)
(* The translations the processor keeps.  While the boot task's tables are *)
(* loaded, a kept one is that of the tables unless the page had another    *)
(* one since CR3 was loaded.                                               *)
(***************************************************************************)
TlbInv ==
    /\ DOMAIN tlb = CACHED
    /\ \A a \in CACHED : tlb[a] = Zero \/ tlb[a].exists = 1
    /\ cr3 = PML4 => \A a \in CACHED : a \in replaced \/ tlb[a] \in {Zero, Entries(mem)[a]}

\* A call that begins with a fault has shown that nothing is kept for its page.
LEMMA CallReplaced ==
  ASSUME NEW d, ACTORS = {d}, TlbInv, Call(d)
  PROVE  /\ tlb' = tlb /\ cr3' = cr3
         /\ \A a \in CACHED : a \in replaced => a \in replaced' \/ tlb[a] = Zero
<1>1. CASE \E a \in FAULTS : PageFault(d, a)
  <2>1. PICK a \in FAULTS : PageFault(d, a)
    BY <1>1
  <2>2. Translated(a).exists = 0 /\ replaced' = replaced \ {a} /\ tlb' = tlb /\ cr3' = cr3
    BY <2>1 DEF PageFault
  <2>3. ASSUME a \in CACHED, tlb[a] # Zero PROVE FALSE
    <3>1. Translated(a) = tlb[a] /\ tlb[a].exists = 1
      BY <2>3, Zenon DEF TlbInv, Translated, Cached
    <3> QED
      BY <2>2, <3>1
  <2> QED
    BY <2>2, <2>3
<1>2. CASE ~\E a \in FAULTS : PageFault(d, a)
  BY <1>2 DEF Call, MountPage, AllocPages, UmountPage, RemapPages, CopyPages, PageInitAp, tlbVars
<1> QED
  BY <1>1, <1>2

LEMMA NextTlb ==
  ASSUME NEW d, ACTORS = {d}, Roomy, PageInv, TlbInv, [Next]_vars
  PROVE  TlbInv'
<1>0. CACHED \subseteq Addr /\ mem \in Mem /\ Zero.exists = 0
  BY PageAssumption DEF PageAssumption, PageInv, TreeInv, Zero
<1>1. CASE Call(d)
  <2>1. ~Last(d)
    BY <1>1 DEF Last, Call, MountPage, AllocPages, UmountPage, RemapPages, PageFault, CopyPages,
               PageInitAp, Ready, At
  <2> QED
    BY <1>1, <2>1, OtherEntries, CallReplaced DEF TlbInv
<1>2. CASE Step(d) /\ ~Last(d)
  <2>1. UNCHANGED tlbVars /\ cr3' = cr3
    BY <1>2 DEF Step, Open, Follow, Create, Fill, Close, Return
  <2> QED
    BY <1>2, <2>1, OtherEntries DEF TlbInv, tlbVars
<1>3. CASE Last(d)
  <2> DEFINE a == addr[d]
             n == Entries(mem)
  <2>1. /\ tlb' = tlb /\ cr3' = cr3
        /\ replaced' = IF mem[window][Index(d)].exists = 1 THEN replaced \cup {a} ELSE replaced
    BY <1>3 DEF Last
  <2>2. mem[window][Index(d)] = n[a] /\ Entries(mem') = [n EXCEPT ![a] = Asked(d)]
    BY <1>3, LastFacts DEF Entries, PageInv, WalkTypes
  <2> HIDE DEF n
  <2>3. ASSUME cr3 = PML4, NEW b \in CACHED, b \notin replaced'
        PROVE  tlb[b] \in {Zero, Entries(mem')[b]}
    <3>1. b \notin replaced /\ tlb[b] \in {Zero, n[b]}
      BY <2>1, <2>3 DEF TlbInv, n
    <3>2. CASE b # a
      BY <1>0, <2>2, <3>1, <3>2 DEF Entries, n
    <3>3. CASE b = a
      <4>1. n[b].exists # 1
        BY <2>1, <2>2, <2>3, <3>3
      <4> QED
        BY <3>1, <4>1 DEF TlbInv
    <3> QED
      BY <3>2, <3>3
  <2> QED
    BY <2>1, <2>3 DEF TlbInv
<1>4. CASE \E r \in spaces : SwitchSpace(r)
  BY <1>4 DEF SwitchSpace, TlbInv
<1>5. CASE Processor
  <2>1. UNCHANGED <<mem, cr3, replaced>>
    BY <1>5, ProcessorOnly
  <2>2. PICK a \in CACHED : Keep(a) \/ Drop(a)
    BY <1>5 DEF Processor
  <2>3. CASE Keep(a)
    <3>1. cr3 = PML4 => Lookup(cr3, a) = Entries(mem)[a]
      BY <1>0, LookupIs DEF Entries
    <3> QED
      BY <2>1, <2>3, <3>1 DEF Keep, TlbInv
  <2>4. CASE Drop(a)
    BY <2>1, <2>4 DEF Drop, TlbInv
  <2> QED
    BY <2>2, <2>3, <2>4
<1>6. CASE UNCHANGED vars
  BY <1>6 DEF vars, tlbVars, TlbInv
<1> QED
  BY <1>1, <1>2, <1>3, <1>4, <1>5, <1>6 DEF Next

\* When mount_page, alloc_pages or the page-fault handler returns, the page has
\* the entry it was given, and unless it had been translated otherwise since CR3
\* was loaded, the processor translates it so: for any depth and width of the
\* tables and whatever was mounted, unmounted, forked and kept before.
THEOREM PageMountTakesEffect ==
  ASSUME NEW CONSTANT d, ACTORS = {d}, Roomy
  PROVE  Spec => MountTakesEffect
<1>1. Init => TlbInv
  BY DEF Init, TlbInv
<1>2. PageInv /\ TlbInv /\ [Next]_vars => TlbInv'
  BY NextTlb
<1>3. PageInv /\ TlbInv /\ [Next]_vars =>
        [\A c \in ACTORS : (op[c] \in {"mount", "fault"} /\ pc[c] # "idle" /\ pc'[c] = "idle")
           => /\ Lookup(PML4, addr[c]) = pte[c]
              /\ (cr3 = PML4 /\ addr[c] \notin replaced) => Translated(addr[c]) = pte[c]]_vars
  <2> SUFFICES ASSUME PageInv, TlbInv, [Next]_vars, op[d] \in {"mount", "fault"},
                      pc[d] # "idle", pc'[d] = "idle"
               PROVE  /\ Lookup(PML4, addr[d]) = pte[d]
                      /\ (cr3 = PML4 /\ addr[d] \notin replaced) => Translated(addr[d]) = pte[d]
    OBVIOUS
  <2>1. Walking(d) /\ addr[d] \in Addr /\ mem \in Mem
    BY DEF PageInv, WalkTypes, TreeInv
  <2>2. pc[d] = "close" /\ level[d] = LEVELS
    BY ReturnsAtEnd
  <2>3. Walk(mem, addr[d])[LEVELS] = pte[d]
    BY <2>1, <2>2 DEF Walking, Mounting
  <2>4. Lookup(PML4, addr[d]) = pte[d] /\ Entries(mem)[addr[d]] = pte[d]
    BY <2>1, <2>3, LookupIs DEF Entries
  <2>5. ASSUME cr3 = PML4, addr[d] \notin replaced PROVE Translated(addr[d]) = pte[d]
    <3>1. CASE Cached(addr[d])
      <4>1. tlb[addr[d]] \in {Zero, pte[d]} /\ tlb[addr[d]] # Zero
        BY <2>4, <2>5, <3>1 DEF TlbInv, Cached
      <4> QED
        BY <3>1, <4>1 DEF Translated
    <3>2. CASE ~Cached(addr[d])
      BY <2>4, <2>5, <3>2 DEF Translated
    <3> QED
      BY <3>1, <3>2
  <2> QED
    BY <2>4, <2>5
<1> QED
  BY <1>1, <1>2, <1>3, SpecPage, PTL DEF Spec, MountTakesEffect

(***************************************************************************)
(* The page tables implement AddressMap.  A call that unmounts has read    *)
(* nothing before it comes to the page table, and afterwards what it read  *)
(* is what is on record there; one that met a missing table has nothing to *)
(* switch off.                                                             *)
(***************************************************************************)
Unmounting(c) ==
    /\ pc[c] # "idle" => op[c] # "none"
    /\ pc[c] # "idle" /\ ~Mounting(c) =>
          IF pc[c] = "close" /\ level[c] = LEVELS
          THEN Entries(mem)[addr[c]] = [pte[c] EXCEPT !.exists = 0]
          ELSE pte[c] = Zero
    /\ pc[c] = "missing" => Entries(mem)[addr[c]] = Zero

UnmountInv == \A c \in ACTORS : Unmounting(c)

LEMMA CallUnmount ==
  ASSUME NEW d, ACTORS = {d}, PageInv, UnmountInv, Call(d)
  PROVE  UnmountInv'
<1>1. WalkTypes
  BY DEF PageInv
<1>2. ASSUME NEW o, NEW a, NEW e, Begin(d, o, a, e), o # "none",
             o \in {"mount", "fault"} \/ e = Zero
      PROVE  UnmountInv'
  <2>1. pc'[d] = "open" /\ op'[d] = o /\ pte'[d] = e
    BY <1>1, <1>2 DEF Begin, WalkTypes
  <2> QED
    BY <1>2, <2>1 DEF UnmountInv, Unmounting, Mounting
<1>3. CASE \E f \in DEVICES, a \in KERNEL : MountPage(d, f, a)
  BY <1>2, <1>3 DEF MountPage
<1>4. ASSUME NEW a, NEW u, AllocPages(d, a, u) PROVE UnmountInv'
  BY <1>2, <1>4 DEF AllocPages
<1>5. CASE \E a \in KERNEL : UmountPage(d, a)
  BY <1>2, <1>5 DEF UmountPage
<1>6. CASE \E a \in FAULTS, b \in KERNEL : RemapPages(d, a, b)
  BY <1>2, <1>6 DEF RemapPages
<1>7. CASE \E a \in FAULTS : PageFault(d, a)
  BY <1>2, <1>7 DEF PageFault
<1>8. CASE CopyPages(d) \/ PageInitAp(d)
  <2>1. UNCHANGED walkVars /\ pc[d] = "idle"
    BY <1>8 DEF CopyPages, PageInitAp, Ready, At
  <2> QED
    BY <2>1 DEF walkVars, UnmountInv, Unmounting
<1> QED
  BY <1>3, <1>4, <1>5, <1>6, <1>7, <1>8 DEF Call

LEMMA StepUnmount ==
  ASSUME NEW d, ACTORS = {d}, Roomy, PageInv, UnmountInv, Step(d)
  PROVE  UnmountInv'
<1>1. WalkTypes /\ Walking(d) /\ Unmounting(d) /\ mem \in Mem
  BY DEF PageInv, UnmountInv, TreeInv
<1> USE DEF UnmountInv, Unmounting, Mounting
<1>2. CASE Open(d)
  BY <1>1, <1>2 DEF Open, At, WalkTypes
<1>3. CASE Follow(d)
  <2>1. pc[d] = "look" /\ level[d] < LEVELS
    BY <1>3 DEF Follow, At
  <2>2. mem[window][Index(d)] = Zero => Entries(mem)[addr[d]] = Zero
    <3>1. /\ Walk(mem, addr[d])[level[d]] = mem[window][Index(d)] /\ addr[d] \in Addr
          /\ level[d] \in Levels /\ LEVELS >= level[d]
      BY <1>3, <2>1, LookFacts, LevelNext
    <3> QED
      BY <1>1, <3>1, ZeroBelow, LevelFacts DEF Entries
  <2>3. level[d] # LEVELS
    BY <1>1, <2>1, LevelNext DEF WalkTypes
  <2> QED
    BY <1>1, <1>3, <2>1, <2>2, <2>3 DEF Follow, WalkTypes
<1>4. CASE Create(d)
  BY <1>1, <1>4 DEF Create, At, WalkTypes
<1>5. CASE Fill(d)
  BY <1>1, <1>5 DEF Fill, At, WalkTypes, Walking
<1>6. CASE Last(d)
  <2>1. CASE Mounting(d)
    BY <1>1, <1>6, <2>1 DEF Last, At, WalkTypes
  <2>2. CASE ~Mounting(d)
    <3>1. /\ pc' = [pc EXCEPT ![d] = "close"] /\ UNCHANGED <<op, addr, level>> /\ pc[d] = "look"
          /\ pte' = [pte EXCEPT ![d] = mem[window][Index(d)]]
      BY <1>6, <2>2 DEF Last, At
    <3>2. /\ pte'[d] = Entries(mem)[addr[d]]
          /\ Entries(mem')[addr[d]] = [Entries(mem)[addr[d]] EXCEPT !.exists = 0]
      BY <1>1, <1>6, <2>2, <3>1, LastFacts DEF WalkTypes, Entries, Asked
    <3>3. Entries(mem')[addr[d]] = [pte'[d] EXCEPT !.exists = 0]
      BY <3>2
    <3>4. level[d] = LEVELS
      BY <1>6 DEF Last
    <3> QED
      BY <1>1, <2>2, <3>1, <3>3, <3>4 DEF WalkTypes
  <2> QED
    BY <2>1, <2>2
<1>7. CASE Close(d)
  <2>1. level[d] # LEVELS
    BY <1>1, <1>7, LevelNext DEF Close, WalkTypes
  <2> QED
    BY <1>1, <1>7, <2>1 DEF Close, At, WalkTypes
<1>8. CASE Return(d)
  BY <1>1, <1>8 DEF Return, Begin, WalkTypes
<1> QED
  BY <1>2, <1>3, <1>4, <1>5, <1>6, <1>7, <1>8 DEF Step

LEMMA NextUnmount ==
  ASSUME NEW d, ACTORS = {d}, Roomy, PageInv, UnmountInv, [Next]_vars
  PROVE  UnmountInv'
<1>1. CASE \E r \in spaces : SwitchSpace(r)
  BY <1>1 DEF SwitchSpace, walkVars, UnmountInv, Unmounting, Mounting
<1>2. CASE Processor \/ UNCHANGED vars
  BY <1>2, ProcessorOnly DEF walkVars, UnmountInv, Unmounting, Mounting
<1> QED
  BY <1>1, <1>2, CallUnmount, StepUnmount DEF Next

LEMMA VmapIs ==
  PageInv => Vmap = Entries(mem) /\ Vmap \in [Addr -> Entry]
<1> SUFFICES ASSUME PageInv PROVE Vmap = Entries(mem) /\ Vmap \in [Addr -> Entry]
  OBVIOUS
<1>1. mem \in Mem
  BY DEF PageInv, TreeInv
<1> QED
  BY <1>1, LookupIs, WalkSteps, LevelFacts DEF Vmap, Entries

LEMMA CallMaps ==
  ASSUME NEW d, ACTORS = {d}, PageInv, Call(d), Vmap' = Vmap
  PROVE  [Map!Start(d)]_(Map!vars)
<1>0. WalkTypes /\ pc[d] = "idle" /\ Entry = Map!Entry /\ Zero \in Entry
  BY ZeroType DEF PageInv, Call, MountPage, AllocPages, UmountPage, RemapPages, PageFault, CopyPages,
                  PageInitAp, Ready, At, Entry, Map!Entry, Bit
<1>1. ASSUME NEW o \in {"mount", "umount", "remap", "fault"}, NEW a \in Addr, NEW e \in Entry,
             NEW b \in Addr, Begin(d, o, a, e), to' = [to EXCEPT ![d] = b],
             IF o \in {"mount", "fault"} THEN e.exists = 1 ELSE e = Zero
      PROVE  Map!Start(d)
  <2> DEFINE k == IF o = "fault" THEN "mount" ELSE o
  <2>1. CallOf[d] = "idle"
    BY <1>0 DEF CallOf
  <2>2. pc'[d] = "open" /\ op'[d] = o /\ pte'[d] = e
    BY <1>0, <1>1 DEF Begin, WalkTypes
  <2>3. CallOf' = [CallOf EXCEPT ![d] = k] /\ CallOf'[d] = k
    BY <2>2 DEF CallOf, Mounting
  <2>4. EntryOf' = [EntryOf EXCEPT ![d] = e]
    BY <1>1, <2>2 DEF EntryOf, Mounting
  <2>5. addr' = [addr EXCEPT ![d] = a]
    BY <1>1 DEF Begin
  <2>6. k \in {"mount", "umount", "remap"} /\ (k = "mount" => e.exists = 1)
    BY <1>1
  <2> HIDE DEF k
  <2> QED
    BY <1>0, <1>1, <2>1, <2>3, <2>4, <2>5, <2>6 DEF Map!Start
<1>2. ASSUME NEW o \in {"mount", "umount", "fault"}, NEW a \in Addr, NEW e \in Entry,
             Begin(d, o, a, e), to' = to,
             IF o \in {"mount", "fault"} THEN e.exists = 1 ELSE e = Zero
      PROVE  Map!Start(d)
  <2>1. to[d] \in Addr /\ to' = [to EXCEPT ![d] = to[d]]
    BY <1>0, <1>2 DEF WalkTypes
  <2> QED
    BY <1>1, <1>2, <2>1, ZenonT(40)
<1>3. /\ USER \subseteq Addr /\ KERNEL \subseteq Addr /\ FAULTS \subseteq Addr
      /\ DEVICES \subseteq Frames /\ Lowest(avail) \in Frames /\ 0 \in Bit /\ 1 \in Bit
  BY PageAssumption, LowestFrame DEF PageAssumption, Frames, PageInv, TreeInv, Bit
<1>4. CASE \E f \in DEVICES, a \in KERNEL : MountPage(d, f, a)
  BY <1>2, <1>3, <1>4, PageType DEF MountPage
<1>5. ASSUME NEW a \in Addr, NEW u \in Bit, AllocPages(d, a, u) PROVE Map!Start(d)
  BY <1>2, <1>3, <1>5, PageType DEF AllocPages
<1>6. CASE \E a \in KERNEL : UmountPage(d, a)
  BY <1>0, <1>2, <1>3, <1>6 DEF UmountPage
<1>7. CASE \E a \in FAULTS, b \in KERNEL : RemapPages(d, a, b)
  BY <1>0, <1>1, <1>3, <1>7 DEF RemapPages
<1>8. CASE \E a \in FAULTS : PageFault(d, a)
  BY <1>2, <1>3, <1>8, PageType DEF PageFault
<1>9. CASE CopyPages(d) \/ PageInitAp(d)
  <2>1. UNCHANGED walkVars
    BY <1>9 DEF CopyPages, PageInitAp
  <2> QED
    BY <2>1 DEF walkVars, Map!vars, CallOf, EntryOf, Mounting
<1> QED
  BY <1>3, <1>4, <1>5, <1>6, <1>7, <1>8, <1>9 DEF Call

LEMMA LastMaps ==
  ASSUME NEW d, ACTORS = {d}, PageInv, UnmountInv, Last(d), Vmap = Entries(mem),
         Vmap' = Entries(mem')
  PROVE  Map!Mount(d) \/ Map!Unmount(d)
<1>1. /\ WalkTypes /\ Unmounting(d) /\ pc[d] = "look" /\ pc' = [pc EXCEPT ![d] = "close"]
      /\ UNCHANGED <<op, addr, to>> /\ pc'[d] = "close"
  BY DEF PageInv, WalkTypes, UnmountInv, Last, At
<1>2. Vmap' = [Vmap EXCEPT ![addr[d]] = Asked(d)]
  BY LastFacts
<1>3. CallOf' = CallOf /\ CallOf[d] = IF Mounting(d) THEN "mount" ELSE op[d]
  BY <1>1 DEF CallOf, Mounting
<1>4. CASE Mounting(d)
  <2>1. EntryOf' = EntryOf /\ Asked(d) = EntryOf[d]
    BY <1>1, <1>4 DEF Last, EntryOf, Mounting, Asked
  <2> QED
    BY <1>1, <1>2, <1>3, <1>4, <2>1 DEF Map!Mount
<1>5. CASE ~Mounting(d)
  <2>1. EntryOf' = EntryOf /\ op[d] \in {"umount", "remap"}
    BY <1>1, <1>5 DEF EntryOf, Mounting, Unmounting, WalkTypes
  <2>2. Asked(d) = [Vmap[addr[d]] EXCEPT !.exists = 0]
    BY <1>1, <1>5 DEF Asked, Entries, WalkTypes
  <2>3. Vmap' = [Vmap EXCEPT ![addr[d]].exists = 0]
    BY <1>2, <2>2
  <2> QED
    BY <1>1, <1>3, <1>5, <2>1, <2>3 DEF Map!Unmount
<1> QED
  BY <1>4, <1>5

LEMMA ReturnMaps ==
  ASSUME NEW d, ACTORS = {d}, PageInv, UnmountInv, Return(d), Vmap = Entries(mem), Vmap' = Vmap
  PROVE  Map!Move(d) \/ Map!Finish(d)
<1>1. /\ WalkTypes /\ Unmounting(d) /\ Walking(d) /\ to' = to /\ addr[d] \in Addr /\ pte[d] \in Entry
      /\ \/ pc[d] = "close" /\ level[d] = LEVELS
         \/ pc[d] = "missing" /\ ~Mounting(d)
  BY DEF PageInv, WalkTypes, UnmountInv, Return, At, Walking
<1>2. CallOf[d] = IF Mounting(d) THEN "mount" ELSE op[d]
  BY <1>1 DEF CallOf
<1>3. ~Mounting(d) => /\ Vmap[addr[d]].exists = 0 /\ Vmap[addr[d]].frame = pte[d].frame
  <2> SUFFICES ASSUME ~Mounting(d)
               PROVE  Vmap[addr[d]].exists = 0 /\ Vmap[addr[d]].frame = pte[d].frame
    OBVIOUS
  <2>1. CASE pc[d] = "close" /\ level[d] = LEVELS
    <3>1. Vmap[addr[d]] = [pte[d] EXCEPT !.exists = 0]
      BY <2>1 DEF UnmountInv, Unmounting
    <3> QED
      BY <1>1, <3>1 DEF Entry
  <2>2. CASE pc[d] = "missing"
    <3>1. Vmap[addr[d]] = Zero /\ pte[d] = Zero
      BY <2>2 DEF UnmountInv, Unmounting
    <3> QED
      BY <3>1 DEF Zero
  <2> QED
    BY <1>1, <2>1, <2>2
<1>4. CASE op[d] = "remap"
  <2> DEFINE e == Page(pte[d].frame, 0)
  <2>1. Begin(d, "mount", to[d], e)
    BY <1>4 DEF Return
  <2>2. pc'[d] = "open" /\ op'[d] = "mount" /\ pte'[d] = e /\ addr' = [addr EXCEPT ![d] = to[d]]
    BY <1>1, <2>1 DEF Begin, WalkTypes
  <2>3. ~Mounting(d) /\ e = [frame |-> Vmap[addr[d]].frame, exists |-> 1, user |-> 0]
    BY <1>3, <1>4 DEF Mounting, Page
  <2> HIDE DEF e
  <2>4. /\ CallOf' = [CallOf EXCEPT ![d] = "mount"] /\ EntryOf' = [EntryOf EXCEPT ![d] = e]
        /\ CallOf[d] = "remap"
    BY <1>2, <1>4, <2>2, <2>3 DEF CallOf, EntryOf, Mounting
  <2> QED
    BY <1>1, <1>3, <2>2, <2>3, <2>4 DEF Map!Move
<1>5. CASE op[d] # "remap"
  <2>1. pc' = [pc EXCEPT ![d] = "idle"] /\ UNCHANGED <<op, addr, pte>>
    BY <1>5 DEF Return
  <2>2. pc'[d] = "idle"
    BY <1>1, <2>1 DEF WalkTypes
  <2>3. CallOf' = [CallOf EXCEPT ![d] = "idle"] /\ EntryOf' = EntryOf
    BY <2>1, <2>2 DEF CallOf, EntryOf, Mounting
  <2>4. CASE Mounting(d)
    <3>1. Vmap[addr[d]] = pte[d] /\ EntryOf[d] = pte[d] /\ CallOf[d] = "mount"
      BY <1>1, <1>2, <2>4 DEF Walking, Entries, EntryOf
    <3> QED
      BY <1>1, <2>1, <2>3, <3>1 DEF Map!Finish
  <2>5. CASE ~Mounting(d)
    <3>1. CallOf[d] = "umount"
      BY <1>1, <1>2, <1>5, <2>5 DEF Mounting, Unmounting, WalkTypes
    <3> QED
      BY <1>1, <1>3, <2>1, <2>3, <2>5, <3>1 DEF Map!Finish
  <2> QED
    BY <2>4, <2>5
<1> QED
  BY <1>4, <1>5

\* The page tables implement AddressMap: a call changes the translation of the
\* page it was made for and of no other, that translation is as asked when the
\* call returns, and creating the tables on the way, fork and the start of a CPU
\* change none.
THEOREM PageImplementsMap ==
  ASSUME NEW CONSTANT d, ACTORS = {d}, Roomy
  PROVE  Spec => ImplementsMap
<1>1. Init => UnmountInv
  BY DEF Init, UnmountInv, Unmounting
<1>2. PageInv /\ UnmountInv /\ [Next]_vars => UnmountInv'
  BY NextUnmount
<1>3. Init => Map!Init
  <2> SUFFICES ASSUME Init PROVE Map!Init
    OBVIOUS
  <2>1. PageInv /\ Entry = Map!Entry
    BY InitPage DEF Entry, Map!Entry, Bit
  <2>2. CallOf = [c \in ACTORS |-> "idle"] /\ EntryOf \in [ACTORS -> Entry]
    BY <2>1, ZeroType DEF Init, CallOf, EntryOf, PageInv, WalkTypes
  <2> QED
    BY <2>1, <2>2, VmapIs DEF Map!Init, PageInv, WalkTypes
<1>4. (PageInv => Vmap = Entries(mem) /\ Vmap \in [Addr -> Entry])'
  BY VmapIs, PTL
<1>5. PageInv /\ UnmountInv /\ [Next]_vars => [Map!Next]_(Map!vars)
  <2> SUFFICES ASSUME PageInv, UnmountInv, [Next]_vars PROVE [Map!Next]_(Map!vars)
    OBVIOUS
  <2>1. Vmap = Entries(mem) /\ Vmap' = Entries(mem')
    BY <1>4, VmapIs, NextPage
  <2>2. ~Last(d) => Vmap' = Vmap
    BY <2>1, OtherEntries
  <2>3. CASE Last(d)
    BY <2>1, <2>3, LastMaps DEF Map!Next
  <2>4. CASE Return(d)
    <3>1. ~Last(d)
      BY <2>4 DEF Return, Last, At
    <3> QED
      BY <2>1, <2>2, <2>4, <3>1, ReturnMaps DEF Map!Next
  <2>5. CASE Open(d) \/ Follow(d) \/ Create(d) \/ Fill(d) \/ Close(d)
    <3>1. /\ UNCHANGED <<op, addr, pte, to>> /\ pc[d] # "idle" /\ pc'[d] # "idle" /\ ~Last(d)
      <4>1. WalkTypes
        BY DEF PageInv
      <4>2. CASE Open(d)
        BY <4>1, <4>2 DEF Open, Last, At, WalkTypes
      <4>3. CASE Follow(d)
        BY <4>1, <4>3, LevelFacts DEF Follow, Last, At, WalkTypes
      <4>4. CASE Create(d)
        BY <4>1, <4>4, LevelFacts DEF Create, Last, At, WalkTypes
      <4>5. CASE Fill(d)
        BY <4>1, <4>5 DEF Fill, Last, At, WalkTypes
      <4>6. CASE Close(d)
        BY <4>1, <4>6 DEF Close, Last, At, WalkTypes
      <4> QED
        BY <2>5, <4>2, <4>3, <4>4, <4>5, <4>6
    <3>2. CallOf' = CallOf /\ EntryOf' = EntryOf
      BY <3>1 DEF CallOf, EntryOf, Mounting
    <3> QED
      BY <2>2, <3>1, <3>2 DEF Map!vars
  <2>6. CASE Call(d)
    <3>1. ~Last(d)
      BY <2>6 DEF Call, MountPage, AllocPages, UmountPage, RemapPages, PageFault, CopyPages,
                  PageInitAp, Ready, Last, At
    <3> QED
      BY <2>2, <2>6, <3>1, CallMaps DEF Map!Next
  <2>7. CASE (\E r \in spaces : SwitchSpace(r)) \/ Processor \/ UNCHANGED vars
    <3>1. UNCHANGED walkVars /\ mem' = mem
      BY <2>7, ProcessorOnly DEF SwitchSpace
    <3> QED
      BY <2>1, <3>1 DEF walkVars, Map!vars, CallOf, EntryOf, Mounting
  <2> QED
    BY <2>3, <2>4, <2>5, <2>6, <2>7 DEF Next, Step
<1> QED
  BY <1>1, <1>2, <1>3, <1>5, SpecPage, PTL DEF Spec, ImplementsMap, Map!Spec

(***************************************************************************)
(* Programs live below other entries of the root than the kernel, so the   *)
(* tables on their way are created by alloc_pages_user.                    *)
(***************************************************************************)
UserApart ==
    \A u \in USER : /\ u[1] # KPATH[1]
                    /\ \A k \in KERNEL \cup FAULTS : u[1] # k[1]

UserTables(m) ==
    \A a \in USER : \A l \in Levels :
        l # LEVELS /\ Walk(m, a)[l] # Zero => Walk(m, a)[l].user = 1

UserWalking(c) ==
    /\ pc[c] # "idle" /\ op[c] = "remap" => to[c] \in KERNEL
    /\ pc[c] # "idle" /\ Mounting(c) =>
          addr[c] \in KERNEL \cup FAULTS \/ pte[c].user = 1

UserInv == UserTables(mem) /\ \A c \in ACTORS : UserWalking(c)

LEMMA InitUser == ASSUME NEW d, ACTORS = {d}, UserApart PROVE Init => UserInv
<1> SUFFICES ASSUME Init PROVE UserInv
  OBVIOUS
<1>1. ASSUME NEW a \in USER, NEW l \in Levels PROVE Walk(mem, a)[l] = Zero
  <2>1. a \in Addr /\ mem = KernelMem
    BY PageAssumption DEF PageAssumption, Init
  <2>2. ~OnPath(a, l)
    BY LevelFacts DEF OnPath, UserApart, Levels
  <2> QED
    BY <2>1, <2>2, KernelWalk
<1> QED
  BY <1>1 DEF UserInv, UserTables, UserWalking, Init

LEMMA UserWalkingStep ==
  ASSUME NEW d, ACTORS = {d}, PageInv, UserWalking(d), Call(d) \/ Step(d)
  PROVE  UserWalking(d)'
<1>0. /\ pc \in [ACTORS -> {"idle", "open", "look", "fill", "close", "missing"}]
      /\ op \in [ACTORS -> {"none", "mount", "umount", "remap", "fault"}]
      /\ DOMAIN addr = ACTORS /\ DOMAIN to = ACTORS /\ DOMAIN pte = ACTORS
  BY DEF PageInv, WalkTypes
<1> USE DEF UserWalking, Mounting, At, Ready
<1>1. CASE \E f \in DEVICES, a \in KERNEL : MountPage(d, f, a)
  BY <1>0, <1>1 DEF MountPage, Begin
<1>2. CASE \E a \in KERNEL : AllocPages(d, a, 0)
  BY <1>0, <1>2 DEF AllocPages, Begin
<1>3. CASE \E a \in USER : AllocPages(d, a, 1)
  BY <1>0, <1>3 DEF AllocPages, Begin, Page
<1>4. CASE \E a \in KERNEL : UmountPage(d, a)
  BY <1>0, <1>4 DEF UmountPage, Begin
<1>5. CASE \E a \in FAULTS, b \in KERNEL : RemapPages(d, a, b)
  BY <1>0, <1>5 DEF RemapPages, Begin
<1>6. CASE \E a \in FAULTS : PageFault(d, a)
  BY <1>0, <1>6 DEF PageFault, Begin
<1>7. CASE CopyPages(d) \/ PageInitAp(d)
  <2>1. UNCHANGED walkVars
    BY <1>7, Zenon DEF CopyPages, PageInitAp
  <2> QED
    BY <2>1 DEF walkVars
<1>8. CASE Open(d) \/ Follow(d) \/ Create(d) \/ Fill(d) \/ Close(d)
  BY <1>0, <1>8 DEF Open, Follow, Create, Fill, Close
<1>9. CASE Last(d)
  BY <1>0, <1>9 DEF Last
<1>10. CASE Return(d)
  BY <1>0, <1>10 DEF Return, Begin
<1> QED
  BY <1>1, <1>2, <1>3, <1>4, <1>5, <1>6, <1>7, <1>8, <1>9, <1>10 DEF Call, Step

LEMMA NextUser ==
  ASSUME NEW d, ACTORS = {d}, Roomy, UserApart, PageInv, UserInv, [Next]_vars
  PROVE  UserInv'
<1>1. UserWalking(d)'
  <2>1. CASE Call(d) \/ Step(d)
    BY <2>1, UserWalkingStep DEF UserInv
  <2>2. CASE \E r \in spaces : SwitchSpace(r)
    BY <2>2 DEF SwitchSpace, walkVars, UserInv, UserWalking, Mounting
  <2>3. CASE Processor \/ UNCHANGED vars
    BY <2>3, ProcessorOnly DEF walkVars, UserInv, UserWalking, Mounting
  <2> QED
    BY <2>1, <2>2, <2>3 DEF Next
<1>2. UserTables(mem')
  <2>0. Change
    BY NextPage
  <2>1. USER \subseteq Addr
    BY PageAssumption DEF PageAssumption
  <2>2. CASE \A a \in Addr : Walk(mem', a) = Walk(mem, a)
    BY <2>1, <2>2 DEF UserInv, UserTables
  <2>3. ASSUME NEW l \in Levels, NEW e \in Entry, Written(mem, mem', addr[d], l, e),
               l # LEVELS => pc[d] = "fill" /\ e.user = pte[d].user
        PROVE  UserTables(mem')
    <3> SUFFICES ASSUME NEW a \in USER, NEW k \in Levels, k # LEVELS, Walk(mem', a)[k] # Zero
                 PROVE  Walk(mem', a)[k].user = 1
      BY DEF UserTables
    <3>1. Walk(mem', a)[k] = IF k = l /\ Agree(addr[d], a, l) THEN e ELSE Walk(mem, a)[k]
      BY <2>1, <2>3 DEF Written
    <3>2. CASE k = l /\ Agree(addr[d], a, l)
      <4>1. addr[d][1] = a[1]
        BY <3>2 DEF Agree, Levels
      <4>2. addr[d] \notin KERNEL \cup FAULTS
        BY <4>1 DEF UserApart
      <4>3. pc[d] = "fill" /\ Mounting(d)
        BY <2>3, <3>2 DEF PageInv, Walking
      <4>4. pte[d].user = 1
        BY <4>2, <4>3 DEF UserInv, UserWalking
      <4> QED
        BY <2>3, <3>1, <3>2, <4>4
    <3>3. CASE ~(k = l /\ Agree(addr[d], a, l))
      BY <3>1, <3>3 DEF UserInv, UserTables
    <3> QED
      BY <3>2, <3>3
  <2> QED
    BY <2>0, <2>2, <2>3 DEF Change
<1> QED
  BY <1>1, <1>2 DEF UserInv

LEMMA UserReach == PageInv /\ UserInv => UserPagesReachable
<1> SUFFICES ASSUME PageInv, UserInv, NEW a \in USER, Lookup(PML4, a).user = 1
             PROVE  LET walk[l \in Levels] == IF l = 1 THEN mem[PML4][a[1]]
                                              ELSE mem[walk[l - 1].frame][a[l]]
                    IN \A l \in Levels : walk[l].user = 1
  BY DEF UserPagesReachable
<1> DEFINE D(u) == [l \in Levels |-> IF l = 1 THEN mem[PML4][a[1]]
                                     ELSE mem[u[l - 1].frame][a[l]]]
           w == Walk(mem, a)
           walk == CHOOSE u : u = D(u)
<1>1. a \in Addr /\ mem \in Mem
  BY PageAssumption DEF PageAssumption, PageInv, TreeInv
<1>2. w[LEVELS].user = 1 /\ w = [l \in Levels |-> w[l]]
  BY <1>1, LookupIs, WalkIs
<1>3. \A l \in Levels : w[l] # Zero
  <2> SUFFICES ASSUME NEW l \in Levels, w[l] = Zero PROVE FALSE
    OBVIOUS
  <2>1. w[LEVELS] = Zero
    BY <1>1, ZeroBelow, LevelFacts DEF Levels
  <2> QED
    BY <1>2, <2>1, ZeroType
<1>4. /\ w[1] = mem[PML4][a[1]]
      /\ \A l \in Levels : l # 1 => w[l] = mem[w[l - 1].frame][a[l]]
  BY <1>1, <1>3, WalkSteps, LevelFacts
<1>5. \A l \in Levels : w[l].user = 1
  BY <1>2, <1>3 DEF UserInv, UserTables
<1> HIDE DEF w
<1>6. w = D(w)
  BY <1>2, <1>4
<1>7. walk = D(walk)
  <2> HIDE DEF D
  <2> QED
    BY <1>6, Zenon
<1> HIDE DEF walk
<1>8. \A l \in Levels : walk[l] = w[l]
  <2> DEFINE S == {l \in Levels : walk[l] = w[l]}
  <2>1. 1 \in S
    BY <1>4, <1>7, LevelFacts
  <2>2. ASSUME NEW l \in Levels, l \in S, l + 1 \in Levels PROVE l + 1 \in S
    <3>1. l + 1 # 1 /\ (l + 1) - 1 = l
      BY SMTT(30) DEF Levels
    <3>2. walk[l + 1] = mem[walk[(l + 1) - 1].frame][a[l + 1]]
      BY <1>7, <2>2, <3>1
    <3>3. w[l + 1] = mem[w[(l + 1) - 1].frame][a[l + 1]]
      BY <1>4, <2>2, <3>1
    <3> QED
      BY <2>2, <3>1, <3>2, <3>3
  <2> HIDE DEF S
  <2>3. Levels \subseteq S
    BY <2>1, <2>2, LevelInduction
  <2> QED
    BY <2>3 DEF S
<1>9. \A l \in Levels : walk[l].user = 1
  BY <1>5, <1>8
<1> QED
  BY <1>9 DEF walk

\* A page that a program may use can be reached by it: the tables on the way
\* have r3_access too, whatever else was mounted, unmounted or forked.
THEOREM PageUserReachable ==
  ASSUME NEW CONSTANT d, ACTORS = {d}, Roomy, UserApart
  PROVE  Spec => []UserPagesReachable
<1>1. Init => UserInv
  BY InitUser
<1>2. PageInv /\ UserInv /\ [Next]_vars => UserInv'
  BY NextUser
<1> QED
  BY <1>1, <1>2, UserReach, SpecPage, PTL DEF Spec


(***************************************************************************)
(* Address spaces.  Below every root hang tables of its own, and one path  *)
(* of them leads to the kernel's page table, which all spaces share.  This *)
(* is described by labels: T[r] are the own tables of the space r, h[f] is *)
(* the height of table f (a page table has height 1), and o is the set of  *)
(* tables on the way to the kernel's page table.                           *)
(***************************************************************************)
Ptr(m, f, i) == m[f][i].frame

\* The entry that leads to the kernel, in a table of height k.
KernelIndex(k) == KPATH[LEVELS - k + 1]

\* What entry i of a table f above the page tables may point to.
Points(N, h, o, f, i, g) ==
    IF f \in o /\ i = KernelIndex(h[f])
    THEN IF h[f] = 2 THEN g = KPT ELSE g \in N /\ h[g] = h[f] - 1 /\ g \in o
    ELSE g = 0 \/ (g \in N /\ h[g] = h[f] - 1 /\ g \notin o)

\* N is a tree of tables with top p of height k.  The top has been done from
\* entry e on; 0 when it is complete.
Subtree(m, N, h, o, p, k, e) ==
    /\ p \in N /\ h[p] = k
    /\ \A f \in N : h[f] \in 1 .. k /\ (f # p => h[f] < k)
    /\ \A f \in N : \A i \in IDX :
          h[f] > 1 /\ (f # p \/ i >= e) => Points(N, h, o, f, i, Ptr(m, f, i))
    /\ \A f, g \in N : \A i, j \in IDX :
          /\ h[f] > 1 /\ (f # p \/ i >= e)
          /\ h[g] > 1 /\ (g # p \/ j >= e)
          /\ Ptr(m, f, i) \in N /\ Ptr(m, f, i) = Ptr(m, g, j)
          => f = g /\ i = j
    /\ \A f \in N : f \in o => h[f] > 1
    /\ \A f, g \in N : f \in o /\ g \in o /\ h[f] = h[g] => f = g
    /\ (\E f \in N : f \in o /\ f # p) => p \in o /\ KernelIndex(k) >= e

\* A page table of N points to pages outside N.
DataBelow(m, N, h, p, e, D) ==
    \A f \in N : \A i \in IDX :
        h[f] = 1 /\ (f # p \/ i >= e) => Ptr(m, f, i) \in D

LEMMA SubtreeSame ==
  ASSUME NEW m, NEW n, NEW N, NEW h, NEW g, NEW o, NEW q, NEW p, NEW k, NEW e,
         Subtree(m, N, h, o, p, k, e),
         \A f \in N : \A i \in IDX : h[f] > 1 => Ptr(n, f, i) = Ptr(m, f, i),
         \A f \in N : g[f] = h[f] /\ (f \in q <=> f \in o)
  PROVE  Subtree(n, N, g, q, p, k, e)
<1>1. ASSUME NEW f \in N, NEW i \in IDX, h[f] > 1, Points(N, h, o, f, i, Ptr(m, f, i))
      PROVE  Points(N, g, q, f, i, Ptr(n, f, i))
  BY <1>1 DEF Points
<1>2. /\ p \in N /\ g[p] = k
      /\ \A f \in N : g[f] \in 1 .. k /\ (f # p => g[f] < k)
  BY DEF Subtree
<1>3. \A f \in N : \A i \in IDX :
          g[f] > 1 /\ (f # p \/ i >= e) => Points(N, g, q, f, i, Ptr(n, f, i))
  BY <1>1 DEF Subtree
<1>4. \A f, a \in N : \A i, j \in IDX :
          /\ g[f] > 1 /\ (f # p \/ i >= e)
          /\ g[a] > 1 /\ (a # p \/ j >= e)
          /\ Ptr(n, f, i) \in N /\ Ptr(n, f, i) = Ptr(n, a, j)
          => f = a /\ i = j
  BY DEF Subtree
<1>5. /\ \A f \in N : f \in q => g[f] > 1
      /\ \A f, a \in N : f \in q /\ a \in q /\ g[f] = g[a] => f = a
      /\ (\E f \in N : f \in q /\ f # p) => p \in q /\ KernelIndex(k) >= e
  BY DEF Subtree
<1> QED
  BY <1>2, <1>3, <1>4, <1>5 DEF Subtree

\* One entry more of the top, that points to no table of its own: it is 0, the
\* kernel's page table or a page of data.
LEMMA SubtreeExtend ==
  ASSUME NEW m, NEW N, NEW h, NEW o, NEW p, NEW k \in Nat, NEW e \in IDX,
         Subtree(m, N, h, o, p, k, e + 1),
         Ptr(m, p, e) \notin N,
         k > 1 => Points(N, h, o, p, e, Ptr(m, p, e)),
         KernelIndex(k) \in Nat \/ o \cap N \subseteq {p}
  PROVE  Subtree(m, N, h, o, p, k, e)
<1>1. e \in Nat /\ \A i \in IDX : i \in Nat /\ (i >= e => i = e \/ i >= e + 1)
  BY KptFrame DEF IDX
<1>2. /\ p \in N /\ h[p] = k
      /\ \A f \in N : h[f] \in 1 .. k /\ (f # p => h[f] < k)
      /\ \A f \in N : f \in o => h[f] > 1
      /\ \A f, g \in N : f \in o /\ g \in o /\ h[f] = h[g] => f = g
  BY DEF Subtree
<1>3. ASSUME NEW f \in N, NEW i \in IDX, h[f] > 1, f # p \/ i >= e
      PROVE  Points(N, h, o, f, i, Ptr(m, f, i))
  BY <1>1, <1>2, <1>3 DEF Subtree
<1>4. ASSUME NEW f \in N, NEW g \in N, NEW i \in IDX, NEW j \in IDX,
             h[f] > 1, f # p \/ i >= e, h[g] > 1, g # p \/ j >= e,
             Ptr(m, f, i) \in N, Ptr(m, f, i) = Ptr(m, g, j)
      PROVE  f = g /\ i = j
  <2>1. (f # p \/ i >= e + 1) /\ (g # p \/ j >= e + 1)
    BY <1>1, <1>4
  <2> QED
    BY <1>4, <2>1 DEF Subtree
<1>5. (\E f \in N : f \in o /\ f # p) => p \in o /\ KernelIndex(k) >= e
  BY <1>1 DEF Subtree
<1> QED
  BY <1>2, <1>3, <1>4, <1>5 DEF Subtree

\* One entry more of the top, that points to the top of a tree of its own.
LEMMA SubtreeMerge ==
  ASSUME NEW m, NEW M, NEW N, NEW g, NEW h, NEW o, NEW p, NEW q,
         NEW k \in Nat, k > 1, NEW e \in IDX,
         Subtree(m, M, h, o, q, k - 1, 0), Subtree(m, N, h, o, p, k, e + 1),
         M \cap N = {}, KPT \notin M \cup N, 0 \notin M \cup N,
         Ptr(m, p, e) = q, q \in o <=> p \in o /\ e = KernelIndex(k),
         KernelIndex(k) \in IDX
  PROVE  Subtree(m, M \cup N, h, o, p, k, e)
<1> DEFINE U == M \cup N
<1>1. e \in Nat /\ \A i \in IDX : i \in Nat /\ i >= 0 /\ (i >= e => i = e \/ i >= e + 1)
  BY KptFrame DEF IDX
<1>2. /\ p \in N /\ h[p] = k /\ q \in M /\ h[q] = k - 1 /\ p \notin M /\ q \notin N
      /\ \A f \in M : h[f] \in 1 .. (k - 1) /\ (f # q => h[f] < k - 1)
      /\ \A f \in N : h[f] \in 1 .. k /\ (f # p => h[f] < k)
  BY DEF Subtree
<1>3. \A f \in U : h[f] \in 1 .. k /\ (f # p => h[f] < k)
  BY <1>2
\* Where the entries that are done point to.
<1>4. ASSUME NEW f \in M, NEW i \in IDX, h[f] > 1
      PROVE  /\ Points(M, h, o, f, i, Ptr(m, f, i))
             /\ Ptr(m, f, i) \in U => Ptr(m, f, i) \in M /\ h[Ptr(m, f, i)] < k - 1
  <2>1. Points(M, h, o, f, i, Ptr(m, f, i))
    BY <1>1, <1>4 DEF Subtree
  <2>2. h[f] \in Nat /\ h[f] <= k - 1
    BY <1>2
  <2> QED
    BY <2>1, <2>2 DEF Points
<1>5. ASSUME NEW f \in N, NEW i \in IDX, h[f] > 1, f # p \/ i >= e + 1
      PROVE  /\ Points(N, h, o, f, i, Ptr(m, f, i))
             /\ Ptr(m, f, i) \in U => Ptr(m, f, i) \in N
  <2>1. Points(N, h, o, f, i, Ptr(m, f, i))
    BY <1>5 DEF Subtree
  <2> QED
    BY <2>1 DEF Points
<1>6. ASSUME NEW f \in U, NEW i \in IDX, h[f] > 1, f # p \/ i >= e
      PROVE  Points(U, h, o, f, i, Ptr(m, f, i))
  <2>1. CASE f \in M
    BY <1>4, <1>6, <2>1 DEF Points
  <2>2. CASE f \in N /\ (f # p \/ i >= e + 1)
    BY <1>5, <1>6, <2>2 DEF Points
  <2>3. CASE f = p /\ i = e
    <3>1. p \in o /\ e = KernelIndex(k) => k # 2
      <4>1. q \in o => h[q] > 1
        BY <1>2 DEF Subtree
      <4> QED
        BY <1>2, <4>1
    <3> QED
      BY <1>2, <2>3, <3>1 DEF Points
  <2> QED
    BY <1>1, <1>6, <2>1, <2>2, <2>3
<1>7. ASSUME NEW f \in U, NEW a \in U, NEW i \in IDX, NEW j \in IDX,
             h[f] > 1, f # p \/ i >= e, h[a] > 1, a # p \/ j >= e,
             Ptr(m, f, i) \in U, Ptr(m, f, i) = Ptr(m, a, j)
      PROVE  f = a /\ i = j
  <2> DEFINE Old(b, l) == b \in N /\ (b # p \/ l >= e + 1)
             New(b, l) == b = p /\ l = e
  <2>1. (f \in M \/ Old(f, i) \/ New(f, i)) /\ (a \in M \/ Old(a, j) \/ New(a, j))
    BY <1>1, <1>7
  <2>2. CASE f \in M /\ a \in M
    <3>1. Ptr(m, f, i) \in M
      BY <1>4, <1>7, <2>2
    <3> QED
      BY <1>1, <1>7, <2>2, <3>1 DEF Subtree
  <2>3. CASE Old(f, i) /\ Old(a, j)
    <3>1. Ptr(m, f, i) \in N
      BY <1>5, <1>7, <2>3
    <3> QED
      BY <1>7, <2>3, <3>1 DEF Subtree
  <2>4. f \in M => Ptr(m, f, i) \in M /\ h[Ptr(m, f, i)] # k - 1
    BY <1>2, <1>4, <1>7
  <2>5. a \in M => Ptr(m, a, j) \in M /\ h[Ptr(m, a, j)] # k - 1
    BY <1>2, <1>4, <1>7
  <2>6. Old(f, i) => Ptr(m, f, i) \in N
    BY <1>5, <1>7
  <2>7. Old(a, j) => Ptr(m, a, j) \in N
    BY <1>5, <1>7
  <2>8. (New(f, i) => Ptr(m, f, i) = q) /\ (New(a, j) => Ptr(m, a, j) = q)
    OBVIOUS
  <2>9. M \cap N = {} /\ q \in M /\ h[q] = k - 1
    BY <1>2
  <2> QED
    BY <1>7, <2>1, <2>2, <2>3, <2>4, <2>5, <2>6, <2>7, <2>8, <2>9
<1>8. \A f \in U : f \in o => h[f] > 1
  BY DEF Subtree
\* The way to the kernel goes through q or through another entry of p.
<1>9. ASSUME NEW f \in M, f \in o PROVE p \in o /\ e = KernelIndex(k)
  BY <1>9 DEF Subtree
<1>10. ASSUME NEW f \in N, f \in o, f # p PROVE p \in o /\ KernelIndex(k) >= e + 1
  BY <1>10 DEF Subtree
<1>11. KernelIndex(k) \in Nat
  BY <1>1
<1>12. ASSUME NEW f \in U, NEW a \in U, f \in o, a \in o, h[f] = h[a] PROVE f = a
  <2>1. CASE f \in M /\ a \in M
    BY <1>12, <2>1 DEF Subtree
  <2>2. CASE f \in N /\ a \in N
    BY <1>12, <2>2 DEF Subtree
  <2>3. CASE f \in M /\ a \in N
    BY <1>1, <1>2, <1>9, <1>10, <1>11, <1>12, <2>3
  <2>4. CASE f \in N /\ a \in M
    BY <1>1, <1>2, <1>9, <1>10, <1>11, <1>12, <2>4
  <2> QED
    BY <2>1, <2>2, <2>3, <2>4
<1>13. (\E f \in U : f \in o /\ f # p) => p \in o /\ KernelIndex(k) >= e
  BY <1>1, <1>9, <1>10, <1>11
<1> HIDE DEF U
<1>14. p \in U
  BY <1>2 DEF U
<1>15. Subtree(m, U, h, o, p, k, e)
  BY <1>2, <1>3, <1>6, <1>7, <1>8, <1>12, <1>13, <1>14 DEF Subtree
<1> QED
  BY <1>15 DEF U

LEMMA SubtreeTop ==
  ASSUME NEW m, NEW h, NEW o, NEW p, NEW k \in Nat \ {0}, h[p] = k, p \in o => k > 1
  PROVE  Subtree(m, {p}, h, o, p, k, WIDTH)
<1>1. \A i \in IDX : ~(i >= WIDTH)
  BY KptFrame DEF IDX
<1> QED
  BY <1>1 DEF Subtree

\* A new, empty table is entered where nothing was.
LEMMA SubtreeGrow ==
  ASSUME NEW m, NEW n, NEW N, NEW h, NEW o, NEW p, NEW k \in Nat, Subtree(m, N, h, o, p, k, 0),
         NEW w \in N, h[w] > 1, NEW i \in IDX, Ptr(m, w, i) = 0,
         NEW t, t \notin N, t # KPT, t # 0, t \notin o, h[t] = h[w] - 1, KPT \notin N, 0 \notin N,
         \A j \in IDX : Ptr(n, t, j) = 0,
         \A f \in N : \A j \in IDX : Ptr(n, f, j) = IF f = w /\ j = i THEN t ELSE Ptr(m, f, j)
  PROVE  Subtree(n, N \cup {t}, h, o, p, k, 0)
<1> DEFINE U == N \cup {t}
<1>1. /\ p \in N /\ h[p] = k /\ p # t /\ w # t
      /\ \A f \in N : h[f] \in 1 .. k /\ (f # p => h[f] < k)
      /\ \A f \in N : f \in o => h[f] > 1
  BY DEF Subtree
<1>2. \A f \in U : h[f] \in 1 .. k /\ (f # p => h[f] < k)
  <2>1. h[w] \in 2 .. k
    BY <1>1
  <2> QED
    BY <1>1, <2>1
<1>3. \A j \in IDX : j >= 0
  BY KptFrame DEF IDX
<1>4. ASSUME NEW f \in N, NEW j \in IDX, h[f] > 1 PROVE Points(N, h, o, f, j, Ptr(m, f, j))
  BY <1>3, <1>4 DEF Subtree
<1>0. \A f, a \in N : \A j, l \in IDX :
        h[f] > 1 /\ h[a] > 1 /\ Ptr(m, f, j) \in N /\ Ptr(m, f, j) = Ptr(m, a, l)
        => f = a /\ j = l
  BY <1>3 DEF Subtree
<1>5. ~(w \in o /\ i = KernelIndex(h[w]))
  BY <1>4, KptFrame DEF Points
<1>6. ASSUME NEW f \in U, NEW j \in IDX, h[f] > 1 PROVE Points(U, h, o, f, j, Ptr(n, f, j))
  <2>1. CASE f = t
    BY <2>1 DEF Points
  <2>2. CASE f = w /\ j = i
    BY <1>5, <2>2 DEF Points
  <2>3. CASE f \in N /\ ~(f = w /\ j = i)
    BY <1>4, <1>6, <2>3 DEF Points
  <2> QED
    BY <2>1, <2>2, <2>3
\* No other entry points to the new table.
<1>7. ASSUME NEW f \in N, NEW j \in IDX, h[f] > 1 PROVE Ptr(m, f, j) # t
  BY <1>4, <1>7 DEF Points
<1>8. ASSUME NEW f \in U, NEW a \in U, NEW j \in IDX, NEW l \in IDX, h[f] > 1, h[a] > 1,
             Ptr(n, f, j) \in U, Ptr(n, f, j) = Ptr(n, a, l)
      PROVE  f = a /\ j = l
  <2>1. f \in N /\ a \in N
    BY <1>8
  <2>2. CASE Ptr(n, f, j) = t
    BY <1>7, <1>8, <2>1, <2>2, ZenonT(40)
  <2>3. CASE Ptr(n, f, j) # t
    <3>1. Ptr(n, f, j) = Ptr(m, f, j) /\ Ptr(n, a, l) = Ptr(m, a, l) /\ Ptr(m, f, j) \in N
      BY <1>8, <2>1, <2>3
    <3>2. h[f] > 1 /\ h[a] > 1 /\ Ptr(m, f, j) = Ptr(m, a, l)
      BY <1>8, <3>1
    <3> QED
      BY <1>0, <2>1, <3>1, <3>2
  <2> QED
    BY <2>2, <2>3
<1>9. /\ \A f \in U : f \in o => h[f] > 1
      /\ \A f, a \in U : f \in o /\ a \in o /\ h[f] = h[a] => f = a
      /\ (\E f \in U : f \in o /\ f # p) => p \in o /\ KernelIndex(k) >= 0
  BY DEF Subtree
<1> HIDE DEF U
<1>10. p \in U
  BY <1>1 DEF U
<1>11. Subtree(n, U, h, o, p, k, 0)
  BY <1>1, <1>2, <1>6, <1>8, <1>9, <1>10 DEF Subtree
<1> QED
  BY <1>11 DEF U

\* All spaces: their trees are apart from each other, from the free pages and
\* from the pages of data, and each one leads to the kernel's page table.
TablePages == FRAMES \cup Range(KTABLES)

IsLeaf(sp, T, h, f) == f = KPT \/ \E r \in sp : f \in T[r] /\ h[f] = 1

IsData(av, sp, T, g) == g # KPT /\ g \notin av /\ \A r \in sp : g \notin T[r]

Labelled(m, av, sp, T, h, o) ==
    /\ T = [r \in sp |-> T[r]] /\ h \in [Frames -> 0 .. LEVELS]
    /\ \A r \in sp : Subtree(m, T[r], h, o, r, LEVELS, 0) /\ r \in o
    /\ \A r, s \in sp : r # s => T[r] \cap T[s] = {}
    /\ \A r \in sp : T[r] \subseteq TablePages \ (av \cup {KPT})
    /\ \A f : IsLeaf(sp, T, h, f) => \A i \in IDX : IsData(av, sp, T, Ptr(m, f, i))

LEMMA PageFacts == /\ TablePages \subseteq Frames \ {0} /\ KPT \in TablePages
                   /\ FRAMES \subseteq Frames \ {0} /\ KPT \notin FRAMES
<1>1. LEVELS \in Levels
  BY LevelFacts
<1> QED
  BY <1>1, PageAssumption DEF PageAssumption, TablePages, Frames, Range, KPT

\* A tree of pages nothing points to becomes an address space.
NewSpace(m, av, sp, T, h, n, aw, N, g, q, p) ==
    /\ aw \in SUBSET av /\ N \in SUBSET (TablePages \ {KPT}) /\ g \in [Frames -> 0 .. LEVELS]
    /\ Subtree(n, N, g, q, p, LEVELS, 0) /\ p \in q
    /\ N \cap aw = {} /\ \A r \in sp : N \cap T[r] = {}
    /\ \A f : IsLeaf(sp, T, h, f) => \A i \in IDX : Ptr(m, f, i) \notin N
    /\ \A f : f = KPT \/ (\E r \in sp : f \in T[r]) => n[f] = m[f]
    /\ \A f \in N : \A i \in IDX : g[f] = 1 =>
          IsData(aw, sp, T, Ptr(n, f, i)) /\ Ptr(n, f, i) \notin N

LEMMA AddSpace ==
  ASSUME NEW m, NEW av, NEW sp, NEW T, NEW h, NEW o, Labelled(m, av, sp, T, h, o),
         NEW n, NEW aw, NEW N, NEW g, NEW q, NEW p,
         NewSpace(m, av, sp, T, h, n, aw, N, g, q, p)
  PROVE  \E U, k, l : Labelled(n, aw, sp \cup {p}, U, k, l)
<1>0. /\ aw \in SUBSET av /\ N \in SUBSET (TablePages \ {KPT}) /\ g \in [Frames -> 0 .. LEVELS]
      /\ Subtree(n, N, g, q, p, LEVELS, 0) /\ p \in q
      /\ N \cap aw = {} /\ \A r \in sp : N \cap T[r] = {}
      /\ \A f : IsLeaf(sp, T, h, f) => \A i \in IDX : Ptr(m, f, i) \notin N
      /\ \A f : f = KPT \/ (\E r \in sp : f \in T[r]) => n[f] = m[f]
      /\ \A f \in N : \A i \in IDX : g[f] = 1 =>
            IsData(aw, sp, T, Ptr(n, f, i)) /\ Ptr(n, f, i) \notin N
  BY DEF NewSpace
<1> USE <1>0
<1> DEFINE sq == sp \cup {p}
           U == [r \in sq |-> IF r = p THEN N ELSE T[r]]
           k == [f \in Frames |-> IF f \in N THEN g[f] ELSE h[f]]
           l == (o \ N) \cup (q \cap N)
<1>1. p \in N /\ \A r \in sp : r \in T[r] /\ T[r] \subseteq TablePages \ (av \cup {KPT})
  BY DEF Subtree, Labelled
<1>2. p \notin sp
  BY <1>1
<1>3. U[p] = N /\ \A r \in sp : U[r] = T[r]
  BY <1>2
<1>4. k \in [Frames -> 0 .. LEVELS]
  BY DEF Labelled
<1>5. \A f \in N : k[f] = g[f] /\ (f \in l <=> f \in q)
  BY PageFacts
<1>6. \A r \in sp : \A f \in T[r] : k[f] = h[f] /\ (f \in l <=> f \in o) /\ n[f] = m[f]
  BY <1>1, PageFacts
<1>7. U = [r \in sq |-> U[r]]
  OBVIOUS
<1> HIDE DEF U, k, l
<1>8. Subtree(n, N, k, l, p, LEVELS, 0) /\ p \in l
  BY <1>1, <1>5, SubtreeSame
<1>9. ASSUME NEW r \in sp PROVE Subtree(n, T[r], k, l, r, LEVELS, 0) /\ r \in l
  <2>1. Subtree(m, T[r], h, o, r, LEVELS, 0) /\ r \in o /\ r \in T[r]
    BY <1>1 DEF Labelled
  <2>2. \A f \in T[r] : \A i \in IDX : Ptr(n, f, i) = Ptr(m, f, i)
    BY <1>6 DEF Ptr
  <2> QED
    BY <1>6, <2>1, <2>2, SubtreeSame
<1>10. \A r \in sq : Subtree(n, U[r], k, l, r, LEVELS, 0) /\ r \in l
  BY <1>3, <1>8, <1>9
<1>11. \A r, s \in sq : r # s => U[r] \cap U[s] = {}
  BY <1>3 DEF Labelled
<1>12. \A r \in sq : U[r] \subseteq TablePages \ (aw \cup {KPT})
  BY <1>1, <1>3
<1>13. ASSUME NEW f, IsLeaf(sq, U, k, f), NEW i \in IDX PROVE IsData(aw, sq, U, Ptr(n, f, i))
  <2>1. CASE f \in N
    <3>1. g[f] = 1
      <4>1. CASE f = KPT
        BY <2>1, <4>1
      <4>2. CASE \E r \in sq : f \in U[r] /\ k[f] = 1
        BY <1>5, <2>1, <4>2
      <4> QED
        BY <1>13, <4>1, <4>2 DEF IsLeaf
    <3> QED
      BY <1>3, <2>1, <3>1 DEF IsData
  <2>2. CASE f \notin N
    <3>1. IsLeaf(sp, T, h, f) /\ Ptr(n, f, i) = Ptr(m, f, i)
      BY <1>3, <1>6, <1>13, <2>2 DEF IsLeaf, Ptr
    <3>2. IsData(av, sp, T, Ptr(m, f, i)) /\ Ptr(m, f, i) \notin N
      BY <3>1 DEF Labelled
    <3> QED
      BY <1>3, <3>1, <3>2 DEF IsData
  <2> QED
    BY <2>1, <2>2
<1>14. Labelled(n, aw, sq, U, k, l)
  BY <1>4, <1>7, <1>10, <1>11, <1>12, <1>13 DEF Labelled
<1> QED
  BY <1>14

\* One path of tables from a root to the kernel's page table, as page_init and
\* page_init_ap build it.
Path(m, new) ==
    /\ new \in [1 .. (LEVELS - 1) -> TablePages \ {KPT}] /\ IsInjective(new)
    /\ \A l \in 1 .. (LEVELS - 1) : \A i \in IDX :
          Ptr(m, new[l], i) = IF i # KPATH[l] THEN 0
                              ELSE IF l = LEVELS - 1 THEN KPT ELSE new[l + 1]

LEMMA PathTree ==
  ASSUME NEW m, NEW new, Path(m, new)
  PROVE  \E g \in [Frames -> 0 .. LEVELS] :
            /\ Subtree(m, Range(new), g, Range(new), new[1], LEVELS, 0)
            /\ \A f \in Range(new) : g[f] > 1
<1> DEFINE N == Range(new)
           At0(f) == CHOOSE l \in 1 .. (LEVELS - 1) : new[l] = f
           g == [f \in Frames |-> IF f \in N THEN LEVELS - At0(f) + 1 ELSE 0]
<1>1. LEVELS \in Nat /\ LEVELS > 1 /\ 1 \in 1 .. (LEVELS - 1)
  BY LevelFacts
<1>2. \A l \in 1 .. (LEVELS - 1) : new[l] \in N /\ new[l] \in Frames \ {0} /\ new[l] # KPT
  BY PageFacts DEF Path, Range
<1>3. \A f \in N : \E l \in 1 .. (LEVELS - 1) : new[l] = f
  BY DEF Path, Range
<1>4. \A l, j \in 1 .. (LEVELS - 1) : new[l] = new[j] => l = j
  BY DEF Path, IsInjective
<1>5. \A l \in 1 .. (LEVELS - 1) : At0(new[l]) = l
  BY <1>4
<1>6. \A l \in 1 .. (LEVELS - 1) : g[new[l]] = LEVELS - l + 1
  BY <1>2, <1>5
<1>7. g \in [Frames -> 0 .. LEVELS]
  <2>1. \A f \in N : LEVELS - At0(f) + 1 \in 0 .. LEVELS
    BY <1>1, <1>3, <1>5
  <2>2. 0 \in 0 .. LEVELS
    BY <1>1
  <2> HIDE DEF At0
  <2> QED
    BY <2>1, <2>2
<1>8. KPT \notin N /\ 0 \notin N
  BY <1>2, <1>3
<1> HIDE DEF N, g
<1>9. new[1] \in N /\ g[new[1]] = LEVELS
  BY <1>1, <1>2, <1>6
<1>10. \A f \in N : g[f] \in 2 .. LEVELS /\ g[f] \in 1 .. LEVELS /\ (f # new[1] => g[f] < LEVELS)
  <2> SUFFICES ASSUME NEW f \in N
               PROVE  g[f] \in 2 .. LEVELS /\ g[f] \in 1 .. LEVELS /\ (f # new[1] => g[f] < LEVELS)
    OBVIOUS
  <2>1. PICK l \in 1 .. (LEVELS - 1) : new[l] = f
    BY <1>3
  <2> QED
    BY <1>1, <1>6, <2>1
<1>11. ASSUME NEW f \in N, NEW i \in IDX PROVE Points(N, g, N, f, i, Ptr(m, f, i))
  <2>1. PICK l \in 1 .. (LEVELS - 1) : new[l] = f
    BY <1>3
  <2>2. g[f] = LEVELS - l + 1 /\ l \in Nat
    BY <1>6, <2>1
  <2>3. LEVELS - g[f] + 1 = l /\ (g[f] = 2 <=> l = LEVELS - 1)
    BY <1>1, <2>2
  <2>4. KernelIndex(g[f]) = KPATH[l]
    BY <2>3 DEF KernelIndex
  <2>5. Ptr(m, f, i) = IF i # KPATH[l] THEN 0 ELSE IF l = LEVELS - 1 THEN KPT ELSE new[l + 1]
    BY <2>1 DEF Path
  <2>6. l # LEVELS - 1 => new[l + 1] \in N /\ g[new[l + 1]] = g[f] - 1
    <3>1. l # LEVELS - 1 => l + 1 \in 1 .. (LEVELS - 1)
      BY <1>1
    <3> QED
      BY <1>1, <1>2, <1>6, <2>2, <3>1
  <2> QED
    BY <2>3, <2>4, <2>5, <2>6 DEF Points
<1>12. ASSUME NEW f \in N, NEW a \in N, NEW i \in IDX, NEW j \in IDX,
              Ptr(m, f, i) \in N, Ptr(m, f, i) = Ptr(m, a, j)
       PROVE  f = a /\ i = j
  <2>1. PICK l \in 1 .. (LEVELS - 1) : new[l] = f
    BY <1>3
  <2>2. PICK k \in 1 .. (LEVELS - 1) : new[k] = a
    BY <1>3
  <2>3. /\ i = KPATH[l] /\ l # LEVELS - 1 /\ Ptr(m, f, i) = new[l + 1]
        /\ j = KPATH[k] /\ k # LEVELS - 1 /\ Ptr(m, a, j) = new[k + 1]
    BY <1>8, <1>12, <2>1, <2>2 DEF Path
  <2>4. l + 1 \in 1 .. (LEVELS - 1) /\ k + 1 \in 1 .. (LEVELS - 1)
    BY <1>1, <2>3
  <2>5. l + 1 = k + 1
    BY <1>4, <1>12, <2>3, <2>4
  <2> QED
    BY <2>1, <2>2, <2>3, <2>5
<1>13. ASSUME NEW f \in N, NEW a \in N, g[f] = g[a] PROVE f = a
  <2>1. PICK l \in 1 .. (LEVELS - 1) : new[l] = f
    BY <1>3
  <2>2. PICK k \in 1 .. (LEVELS - 1) : new[k] = a
    BY <1>3
  <2> QED
    BY <1>1, <1>6, <1>13, <2>1, <2>2
<1>14. KernelIndex(LEVELS) \in IDX
  BY <1>1, PageAssumption DEF PageAssumption, KernelIndex
<1>15. KernelIndex(LEVELS) >= 0
  BY <1>14, KptFrame DEF IDX
<1>16. Subtree(m, N, g, N, new[1], LEVELS, 0)
  BY <1>9, <1>10, <1>11, <1>12, <1>13, <1>15 DEF Subtree
<1>17. \A f \in N : g[f] > 1
  BY <1>10
<1> QED
  BY <1>7, <1>16, <1>17 DEF N

LEMMA InitLabelled ==
  \E T, h, o : Labelled(KernelMem, FRAMES, {PML4}, T, h, o)
<1> DEFINE new == [l \in 1 .. (LEVELS - 1) |-> KTABLES[l]]
           T0 == [r \in {} |-> {}]
           h0 == [f \in Frames |-> 0]
<1>1. LEVELS \in Nat /\ LEVELS > 1 /\ LEVELS \in Levels
      /\ \A l \in 1 .. (LEVELS - 1) : l \in Levels /\ l # LEVELS /\ l + 1 \in Levels
  BY LevelFacts DEF Levels
<1>2. KTABLES \in [Levels -> Nat \ {0}] /\ \A l, j \in Levels : KTABLES[l] = KTABLES[j] => l = j
  BY PageAssumption DEF PageAssumption, IsInjective
<1>3. Path(KernelMem, new)
  <2>1. \A l \in 1 .. (LEVELS - 1) : KTABLES[l] \in TablePages \ {KPT}
    BY <1>1, <1>2 DEF TablePages, Range, KPT
  <2>2. new \in [1 .. (LEVELS - 1) -> TablePages \ {KPT}] /\ IsInjective(new)
    BY <1>1, <1>2, <2>1 DEF IsInjective
  <2>3. ASSUME NEW l \in 1 .. (LEVELS - 1), NEW i \in IDX
        PROVE  Ptr(KernelMem, new[l], i) = IF i # KPATH[l] THEN 0
                              ELSE IF l = LEVELS - 1 THEN KPT ELSE new[l + 1]
    <3>1. KernelMem[KTABLES[l]][i] = IF KPATH[l] = i THEN Page(KTABLES[l + 1], 0) ELSE Zero
      BY <1>1, KernelEntry
    <3>2. KTABLES[l + 1] = IF l = LEVELS - 1 THEN KPT ELSE new[l + 1]
      BY <1>1 DEF KPT
    <3>3. new[l] = KTABLES[l]
      OBVIOUS
    <3>4. Page(KTABLES[l + 1], 0).frame = KTABLES[l + 1] /\ Zero.frame = 0
      BY DEF Page, Zero
    <3> HIDE DEF new
    <3> QED
      BY <3>1, <3>2, <3>3, <3>4 DEF Ptr
  <2> HIDE DEF new
  <2> QED
    BY <2>2, <2>3 DEF Path
<1>4. new[1] = PML4 /\ Range(new) \subseteq TablePages \ {KPT}
  <2>1. 1 \in 1 .. (LEVELS - 1)
    BY <1>1
  <2>2. new[1] = PML4
    BY <2>1 DEF PML4
  <2> HIDE DEF new
  <2>3. Range(new) \subseteq TablePages \ {KPT}
    BY <1>3 DEF Path, Range
  <2> QED
    BY <2>2, <2>3
<1>5. Range(new) \cap FRAMES = {}
  BY <1>1, <1>2, PageAssumption DEF PageAssumption, Range
<1> HIDE DEF new
<1>6. PICK g \in [Frames -> 0 .. LEVELS] :
            /\ Subtree(KernelMem, Range(new), g, Range(new), PML4, LEVELS, 0)
            /\ \A f \in Range(new) : g[f] > 1
  BY <1>3, <1>4, PathTree
<1>7. \A i \in IDX : Ptr(KernelMem, KPT, i) = 0
  BY <1>1, KernelEntry DEF KPT, Ptr, Zero
<1>8. Labelled(KernelMem, FRAMES, {}, T0, h0, {})
  <2>1. h0 \in [Frames -> 0 .. LEVELS]
    BY <1>1
  <2> QED
    BY <1>7, <2>1, KptFrame, PageFacts DEF Labelled, IsLeaf, IsData
<1> HIDE DEF T0, h0
<1>9. PML4 \in Range(new)
  BY <1>6 DEF Subtree
<1>10. \A f : IsLeaf({}, T0, h0, f) => \A i \in IDX : Ptr(KernelMem, f, i) \notin Range(new)
  BY <1>4, <1>7, PageFacts DEF IsLeaf
<1>11. \A f \in Range(new) : \A i \in IDX : g[f] = 1 =>
            IsData(FRAMES, {}, T0, Ptr(KernelMem, f, i)) /\ Ptr(KernelMem, f, i) \notin Range(new)
  BY <1>6
<1>12. \E U, k, l : Labelled(KernelMem, FRAMES, {} \cup {PML4}, U, k, l)
  <2>1. NewSpace(KernelMem, FRAMES, {}, T0, h0, KernelMem, FRAMES, Range(new), g, Range(new), PML4)
    BY <1>4, <1>5, <1>6, <1>9, <1>10, <1>11 DEF NewSpace
  <2> QED
    BY <1>8, <2>1, AddSpace
<1> QED
  BY <1>12

(***************************************************************************)
(* copy_page copies a space: every table of its own to a new page, with    *)
(* the kernel's page table entered where it was.                           *)
(***************************************************************************)
LEMMA KernelIndexType == ASSUME NEW k \in 2 .. LEVELS PROVE KernelIndex(k) \in IDX
<1>1. LEVELS - k + 1 \in 1 .. (LEVELS - 1)
  BY LevelFacts
<1> QED
  BY <1>1, PageAssumption DEF PageAssumption, KernelIndex

\* The calls copy_page is made with: for a page of data, for the kernel's page
\* table as it shows in the window, and for the rest of a table of a space.
KptCall(x) == x.k = 1 /\ x.i = 0 /\ x.f = KPT /\ x.buf[0].frame = KPT

TableCall(m, sp, T, h, x) ==
    /\ x.k # 0
    /\ \E r \in sp :
         /\ x.f \in T[r] /\ h[x.f] = x.k
         /\ \A j \in IDX : j >= x.i => x.buf[j].frame = Ptr(m, x.f, j)

\* The tree of the pages a call took.
CopyTree(x, y, o, N, g, q) ==
    /\ N \subseteq x.s.avail \ y.store.avail /\ g \in [Frames -> 0 .. LEVELS]
    /\ Subtree(y.store.mem, N, g, q, y.frame, x.k, x.i)
    /\ DataBelow(y.store.mem, N, g, y.frame, x.i, {0} \cup ((x.s.avail \ y.store.avail) \ N))
    /\ y.frame \in q <=> x.k > 1 /\ x.f \in o
    /\ \A j \in IDX : j < x.i => y.store.mem[y.frame][j] = x.buf[j]

CopyPost(m, sp, T, h, o, x, y) ==
    /\ x.k = 0 => y.frame \in x.s.avail \ y.store.avail
    /\ KptCall(x) => y = [frame |-> KPT, store |-> x.s]
    /\ TableCall(m, sp, T, h, x) => \E N, g, q : CopyTree(x, y, o, N, g, q)

\* The entry just done points to no table of its own.
LEMMA CopyOver ==
  ASSUME NEW x \in CopyCall, x.k # 0, x.i # WIDTH,
         NEW z \in CopyCall, z.k = x.k, z.i = x.i + 1, z.f = x.f,
         \A j \in IDX : j < x.i => z.buf[j] = x.buf[j],
         z.s.avail \subseteq x.s.avail,
         NEW y \in CopyResult, y.store.avail \subseteq z.s.avail,
         NEW o, NEW N, NEW g, NEW q, CopyTree(z, y, o, N, g, q),
         NEW e, e = z.buf[x.i].frame, e \notin N,
         x.k > 1 => Points(N, g, q, y.frame, x.i, e),
         x.k = 1 => e = 0 \/ e \in x.s.avail \ z.s.avail
  PROVE  CopyTree(x, y, o, N, g, q)
<1> DEFINE m == y.store.mem
           p == y.frame
           D(v) == {0} \cup ((v \ y.store.avail) \ N)
<1>1. /\ x.k \in 1 .. LEVELS /\ x.k \in Nat /\ x.i \in IDX /\ x.i \in Nat
      /\ \A i \in IDX : i \in Nat /\ (i >= x.i => i = x.i \/ i >= x.i + 1)
                     /\ (i < x.i => i < x.i + 1)
  BY CallFacts, KptFrame DEF IDX
<1>2. /\ N \subseteq z.s.avail \ y.store.avail /\ g \in [Frames -> 0 .. LEVELS]
      /\ Subtree(m, N, g, q, p, x.k, x.i + 1)
      /\ DataBelow(m, N, g, p, x.i + 1, D(z.s.avail))
      /\ p \in q <=> x.k > 1 /\ x.f \in o
      /\ \A j \in IDX : j < x.i + 1 => m[p][j] = z.buf[j]
  BY DEF CopyTree
<1>3. Ptr(m, p, x.i) = e
  BY <1>1, <1>2 DEF Ptr
<1>4. \A j \in IDX : j < x.i => m[p][j] = x.buf[j]
  BY <1>1, <1>2
<1>5. Subtree(m, N, g, q, p, x.k, x.i)
  <2>1. KernelIndex(x.k) \in Nat \/ q \cap N \subseteq {p}
    <3>1. CASE x.k = 1
      BY <1>2, <3>1 DEF Subtree
    <3>2. CASE x.k # 1
      BY <1>1, <3>2, KernelIndexType
    <3> QED
      BY <3>1, <3>2
  <2>2. Ptr(m, p, x.i) \notin N /\ (x.k > 1 => Points(N, g, q, p, x.i, Ptr(m, p, x.i)))
    BY <1>3
  <2> HIDE DEF m, p
  <2> QED
    BY <1>1, <1>2, <2>1, <2>2, SubtreeExtend
<1>6. DataBelow(m, N, g, p, x.i, D(x.s.avail))
  <2> SUFFICES ASSUME NEW f \in N, NEW i \in IDX, g[f] = 1, f # p \/ i >= x.i
               PROVE  Ptr(m, f, i) \in D(x.s.avail)
    BY DEF DataBelow
  <2>1. CASE f = p /\ i = x.i
    <3>1. x.k = 1
      BY <1>2, <2>1 DEF Subtree
    <3> QED
      BY <1>2, <1>3, <2>1, <3>1
  <2>2. CASE ~(f = p /\ i = x.i)
    <3>1. Ptr(m, f, i) \in D(z.s.avail)
      BY <1>1, <1>2, <2>2 DEF DataBelow
    <3> QED
      BY <3>1
  <2> QED
    BY <2>1, <2>2
<1> QED
  BY <1>2, <1>4, <1>5, <1>6 DEF CopyTree

\* The entry just done points to the copy y of a table, which took the pages M.
LEMMA CopyDown ==
  ASSUME NEW x \in CopyCall, x.k \in 2 .. LEVELS, x.i # WIDTH,
         NEW w \in CopyCall, w.k = x.k - 1, w.i = 0, w.s = x.s,
         NEW u \in CopyResult, NEW o, NEW M, NEW b, NEW t, CopyTree(w, u, o, M, b, t),
         w.f \in o => w.k > 1,
         NEW z \in CopyCall, z.k = x.k, z.i = x.i + 1, z.f = x.f, z.s = u.store,
         \A j \in IDX : j < x.i => z.buf[j] = x.buf[j],
         z.buf[x.i].frame = u.frame,
         NEW y \in CopyResult, Kept(z.s, y.store), Kept(x.s, u.store),
         NEW N, NEW g, NEW q, CopyTree(z, y, o, N, g, q),
         w.f \in o <=> x.f \in o /\ x.i = KernelIndex(x.k)
  PROVE  \E P, c, r : CopyTree(x, y, o, P, c, r)
<1> DEFINE m == y.store.mem
           p == y.frame
           P == M \cup N
           c == [f \in Frames |-> IF f \in M THEN b[f] ELSE g[f]]
           r == (t \cap M) \cup (q \cap N)
           D(v) == {0} \cup ((v \ y.store.avail) \ P)
<1>1. /\ x.k \in Nat /\ x.k > 1 /\ x.i \in IDX /\ x.i \in Nat
      /\ \A i \in IDX : i \in Nat /\ i >= 0 /\ (i >= x.i => i = x.i \/ i >= x.i + 1)
                     /\ (i < x.i => i < x.i + 1)
      /\ KernelIndex(x.k) \in IDX
  BY CallFacts, KptFrame, KernelIndexType, SMTT(30) DEF IDX
<1>2. x.s.avail \subseteq FRAMES /\ u.store.avail \subseteq x.s.avail
      /\ y.store.avail \subseteq u.store.avail
  <2>1. x.s \in Store
    BY DEF CopyCall
  <2> QED
    BY <2>1 DEF Kept, Store
<1>3. /\ M \subseteq x.s.avail \ u.store.avail /\ b \in [Frames -> 0 .. LEVELS]
      /\ Subtree(u.store.mem, M, b, t, u.frame, x.k - 1, 0)
      /\ DataBelow(u.store.mem, M, b, u.frame, 0, {0} \cup ((x.s.avail \ u.store.avail) \ M))
      /\ u.frame \in t <=> x.k - 1 > 1 /\ w.f \in o
  BY DEF CopyTree
<1>4. /\ N \subseteq u.store.avail \ y.store.avail /\ g \in [Frames -> 0 .. LEVELS]
      /\ Subtree(m, N, g, q, p, x.k, x.i + 1)
      /\ DataBelow(m, N, g, p, x.i + 1, {0} \cup ((u.store.avail \ y.store.avail) \ N))
      /\ p \in q <=> x.f \in o
      /\ \A j \in IDX : j < x.i + 1 => m[p][j] = z.buf[j]
  BY <1>1 DEF CopyTree
<1>5. M \cap N = {} /\ P \subseteq FRAMES /\ KPT \notin P /\ 0 \notin P /\ P \subseteq Frames
  BY <1>2, <1>3, <1>4, PageFacts
<1>6. \A f \in M : m[f] = u.store.mem[f]
  <2>1. \A f \in M : f \in Frames \ {0} /\ f \notin z.s.avail \ y.store.avail
    BY <1>3, <1>5
  <2> QED
    BY <2>1 DEF Kept
<1>7. u.frame \in M /\ p \in N
  BY <1>3, <1>4 DEF Subtree
<1>8. \A f \in M : c[f] = b[f] /\ (f \in r <=> f \in t)
  BY <1>5
<1>9. \A f \in N : c[f] = g[f] /\ (f \in r <=> f \in q)
  BY <1>5
<1>10. c \in [Frames -> 0 .. LEVELS]
  BY <1>3, <1>4
<1> HIDE DEF c, r
<1>11. Subtree(m, M, c, r, u.frame, x.k - 1, 0)
  <2>1. \A f \in M : \A i \in IDX : Ptr(m, f, i) = Ptr(u.store.mem, f, i)
    BY <1>6 DEF Ptr
  <2> HIDE DEF m
  <2> QED
    BY <1>3, <1>8, <2>1, SubtreeSame
<1>12. Subtree(m, N, c, r, p, x.k, x.i + 1)
  <2> HIDE DEF m, p
  <2> QED
    BY <1>4, <1>9, SubtreeSame
<1>13. Ptr(m, p, x.i) = u.frame
  BY <1>1, <1>4 DEF Ptr
<1>14. u.frame \in r <=> p \in r /\ x.i = KernelIndex(x.k)
  BY <1>3, <1>4, <1>7, <1>8, <1>9
<1>15. Subtree(m, P, c, r, p, x.k, x.i)
  <2> HIDE DEF m, p
  <2> QED
    BY <1>1, <1>5, <1>11, <1>12, <1>13, <1>14, SubtreeMerge
<1>16. DataBelow(m, P, c, p, x.i, D(x.s.avail))
  <2> SUFFICES ASSUME NEW f \in P, NEW i \in IDX, c[f] = 1, f # p \/ i >= x.i
               PROVE  Ptr(m, f, i) \in D(x.s.avail)
    BY DEF DataBelow
  <2>1. CASE f \in M
    <3>1. Ptr(u.store.mem, f, i) \in {0} \cup ((x.s.avail \ u.store.avail) \ M)
      BY <1>1, <1>3, <1>8, <2>1 DEF DataBelow
    <3>2. Ptr(m, f, i) = Ptr(u.store.mem, f, i)
      BY <1>6, <2>1 DEF Ptr
    <3> QED
      BY <1>2, <1>4, <3>1, <3>2
  <2>2. CASE f \in N
    <3>1. f # p
      BY <1>4, <1>9, <2>2, <1>1 DEF Subtree
    <3>2. Ptr(m, f, i) \in {0} \cup ((u.store.avail \ y.store.avail) \ N)
      BY <1>4, <1>9, <2>2, <3>1 DEF DataBelow
    <3> QED
      BY <1>2, <1>3, <3>2
  <2> QED
    BY <2>1, <2>2
<1>17. \A j \in IDX : j < x.i => m[p][j] = x.buf[j]
  BY <1>1, <1>4
<1>18. P \subseteq x.s.avail \ y.store.avail
  BY <1>2, <1>3, <1>4
<1>19. p \in r <=> x.k > 1 /\ x.f \in o
  BY <1>1, <1>4, <1>7, <1>9
<1>20. CopyTree(x, y, o, P, c, r)
  BY <1>10, <1>15, <1>16, <1>17, <1>18, <1>19 DEF CopyTree
<1> QED
  BY <1>20

LEMMA KeptTrans == ASSUME NEW s, NEW t, NEW u, Kept(s, t), Kept(t, u) PROVE Kept(s, u)
  BY DEF Kept

CopyDone(m, av, sp, T, h, o, x) ==
    Kept([mem |-> m, avail |-> av], x.s) /\ CopyPage[x].store.avail # {}
        => CopyPost(m, sp, T, h, o, x, CopyPage[x])

\* A turn of the loop of copy_page over the entries of a table.
LEMMA CopyTurn ==
  ASSUME NEW m \in Mem, NEW av \in SUBSET FRAMES, NEW sp, NEW T, NEW h, NEW o,
         Labelled(m, av, sp, T, h, o),
         NEW x \in CopyCall, TableCall(m, sp, T, h, x), x.i # WIDTH,
         Kept([mem |-> m, avail |-> av], x.s), CopyPage[x].store.avail # {},
         \A z \in CopyCall : Size(z) < Size(x) => CopyDone(m, av, sp, T, h, o, z)
  PROVE  \E N, g, q : CopyTree(x, CopyPage[x], o, N, g, q)
<1> DEFINE s == [mem |-> m, avail |-> av]
           e == x.buf[x.i].frame
           y == CopyPage[x]
           w == TableBelow(x)
           u == CopyPage[w]
           z == AfterBelow(x, u)
<1>0. x.k # 0 /\ x.k \in 1 .. LEVELS /\ x.i \in IDX /\ x.f \in Frames /\ e \in Frames
      /\ x.s \in Store /\ x.s.avail \subseteq FRAMES
      /\ \A j \in IDX : j \in Nat /\ (j >= x.i + 1 => j >= x.i /\ j # x.i)
                     /\ (j < x.i => j # x.i)
      /\ x.i \in Nat
  <2>1. x.k # 0
    BY DEF TableCall
  <2> QED
    BY <2>1, CallFacts, KptFrame DEF IDX
<1>1. PICK r \in sp :
         /\ x.f \in T[r] /\ h[x.f] = x.k
         /\ \A j \in IDX : j >= x.i => x.buf[j].frame = Ptr(m, x.f, j)
  BY DEF TableCall
<1>2. e = Ptr(m, x.f, x.i)
  BY <1>0, <1>1
<1>3. /\ Subtree(m, T[r], h, o, r, LEVELS, 0)
      /\ T[r] \subseteq TablePages \ (av \cup {KPT})
      /\ T[r] \subseteq Frames \ {0}
  BY PageFacts DEF Labelled
\* Where the entry of the source points to.
<1>4. x.k = 1 => IsData(av, sp, T, e)
  BY <1>0, <1>1, <1>2 DEF Labelled, IsLeaf
<1>5. x.k > 1 => Points(T[r], h, o, x.f, x.i, e)
  BY <1>0, <1>1, <1>2, <1>3 DEF Subtree
<1>6. y = CopyBody(CopyPage, x)
  BY CopyPageDef
<1>7. CASE e = 0
  <2> DEFINE v == NextEntry(x)
  <2>1. y = CopyPage[v]
    BY <1>0, <1>6, <1>7 DEF CopyBody
  <2>2. v \in CopyCall /\ v.k = x.k /\ v.i = x.i + 1 /\ v.s = x.s /\ Size(v) < Size(x)
    BY <1>0, NextEntryCall, SizeDown
  <2>3. v.f = x.f /\ v.buf = x.buf
    BY <1>0 DEF NextEntry, CopyCall
  <2> HIDE DEF v
  <2>4. TableCall(m, sp, T, h, v)
    BY <1>0, <1>1, <2>2, <2>3 DEF TableCall
  <2>5. CopyPost(m, sp, T, h, o, v, y)
    BY <2>1, <2>2 DEF CopyDone
  <2>6. PICK N, g, q : CopyTree(v, y, o, N, g, q)
    BY <2>4, <2>5 DEF CopyPost
  <2>7. y \in CopyResult /\ Kept(v.s, y.store)
    BY <2>1, <2>2, CopyPageKeeps
  <2>8. 0 \notin N /\ y.frame \in N /\ g[y.frame] = x.k /\ (y.frame \in q <=> x.k > 1 /\ x.f \in o)
    BY <1>0, <2>2, <2>3, <2>6, PageFacts DEF CopyTree, Subtree
  <2>9. x.k > 1 => ~(x.f \in o /\ x.i = KernelIndex(x.k))
    BY <1>1, <1>3, <1>5, <1>7, KptFrame DEF Points
  <2>10. x.k > 1 => Points(N, g, q, y.frame, x.i, 0)
    BY <2>8, <2>9 DEF Points
  <2>11. v.buf[x.i].frame = 0
    BY <1>7, <2>3
  <2> HIDE DEF y
  <2>12. CopyTree(x, y, o, N, g, q)
    BY <1>0, <2>2, <2>3, <2>6, <2>7, <2>8, <2>10, <2>11, CopyOver DEF Kept
  <2> QED
    BY <2>12 DEF y
<1>8. CASE e # 0
  <2>1. ~(x.k = 1 /\ x.i = 0 /\ e = KPT)
    BY <1>4 DEF IsData
  <2>2. y = CopyPage[z]
    BY <1>0, <1>6, <1>8, <2>1 DEF CopyBody
  <2>3. w \in CopyCall /\ w.k = x.k - 1 /\ w.i = 0 /\ w.s = x.s /\ Size(w) < Size(x)
    BY <1>0, TableBelowCall, SizeDown
  <2>4. w.f = e /\ w.buf = ReadPage(x.s, e)
    BY DEF TableBelow
  <2> HIDE DEF w
  <2>5. u \in CopyResult /\ Kept(x.s, u.store)
    BY <2>3, CopyPageKeeps
  <2> HIDE DEF u
  <2>6. z \in CopyCall /\ z.k = x.k /\ z.i = x.i + 1 /\ z.s = u.store /\ Size(z) < Size(x)
    BY <1>0, <2>5, AfterBelowCall, SizeDown
  <2>7. z.f = x.f /\ z.buf = [x.buf EXCEPT ![x.i].frame = u.frame]
    BY <1>0 DEF AfterBelow, CopyCall
  <2>8. x.buf \in [IDX -> Entry] /\ x.buf[x.i] \in Entry
    BY <1>0, CallFacts
  <2>9. z.buf[x.i].frame = u.frame /\ \A j \in IDX : j # x.i => z.buf[j] = x.buf[j]
    BY <1>0, <2>7, <2>8 DEF Entry
  <2> HIDE DEF z
  <2>10. TableCall(m, sp, T, h, z)
    BY <1>0, <1>1, <2>6, <2>7, <2>9 DEF TableCall
  <2>11. y \in CopyResult /\ Kept(u.store, y.store) /\ Kept(s, u.store)
    BY <2>2, <2>5, <2>6, CopyPageKeeps, KeptTrans
  <2>12. u.store.avail # {} /\ y.store.avail \subseteq u.store.avail /\ u.store.avail \subseteq x.s.avail
    BY <2>5, <2>11 DEF Kept
  <2>13. CopyPost(m, sp, T, h, o, w, u)
    BY <2>3, <2>12 DEF CopyDone, u
  <2>14. CopyPost(m, sp, T, h, o, z, y)
    BY <2>2, <2>6, <2>11 DEF CopyDone
  <2>15. PICK N, g, q : CopyTree(z, y, o, N, g, q)
    BY <2>10, <2>14 DEF CopyPost
  <2>16. N \subseteq u.store.avail /\ 0 \notin N /\ KPT \notin N /\ y.frame \in N
         /\ g[y.frame] = x.k /\ (y.frame \in q <=> x.k > 1 /\ x.f \in o)
    <3>1. N \subseteq FRAMES
      BY <1>0, <2>6, <2>12, <2>15 DEF CopyTree
    <3> QED
      BY <2>6, <2>7, <2>15, <3>1, PageFacts DEF CopyTree, Subtree
  <2>17. \A j \in IDX : j < x.i => z.buf[j] = x.buf[j]
    BY <1>0, <2>9
  <2> HIDE DEF y
  <2>18. CASE x.k = 1
    <3>1. u.frame \in x.s.avail \ u.store.avail
      BY <2>3, <2>13, <2>18 DEF CopyPost
    <3>2. CopyTree(x, y, o, N, g, q)
      <4>1. PICK c : c = z.buf[x.i].frame
        OBVIOUS
      <4>2. c \notin N /\ (x.k > 1 => Points(N, g, q, y.frame, x.i, c))
        BY <2>9, <2>16, <2>18, <3>1, <4>1
      <4>3. z.s.avail \subseteq x.s.avail /\ y.store.avail \subseteq z.s.avail
            /\ (x.k = 1 => c = 0 \/ c \in x.s.avail \ z.s.avail)
        BY <2>6, <2>9, <2>12, <3>1, <4>1
      <4> QED
        BY <1>0, <2>6, <2>7, <2>11, <2>15, <2>17, <4>1, <4>2, <4>3, CopyOver
    <3> QED
      BY <3>2 DEF y
  <2>19. CASE x.k = 2 /\ x.f \in o /\ x.i = KernelIndex(x.k)
    <3>1. e = KPT
      BY <1>1, <1>5, <2>19 DEF Points
    <3>2. KptCall(w)
      <4>1. x.s.mem \in Mem
        BY <1>0 DEF Store, Mem
      <4>2. x.s.mem[KPT] \in [IDX -> Entry]
        BY <4>1, KptFrame DEF Mem
      <4>3. ReadPage(x.s, KPT)[0] = Page(KPT, 0)
        BY <4>2, KptFrame DEF ReadPage
      <4> QED
        BY <2>3, <2>4, <2>19, <3>1, <4>3 DEF KptCall, Page
    <3>3. u = [frame |-> KPT, store |-> x.s]
      BY <2>3, <2>13, <3>2 DEF CopyPost
    <3>4. u.frame = KPT /\ u.store = x.s
      BY <3>3
    <3>5. Points(N, g, q, y.frame, x.i, KPT)
      BY <2>16, <2>19 DEF Points
    <3>6. CopyTree(x, y, o, N, g, q)
      <4>1. PICK c : c = z.buf[x.i].frame
        OBVIOUS
      <4>2. c \notin N /\ (x.k > 1 => Points(N, g, q, y.frame, x.i, c))
        BY <2>9, <2>16, <3>4, <3>5, <4>1
      <4>3. z.s.avail \subseteq x.s.avail /\ y.store.avail \subseteq z.s.avail
            /\ (x.k = 1 => c = 0 \/ c \in x.s.avail \ z.s.avail)
        BY <2>6, <2>12, <2>19, <3>4
      <4> QED
        BY <1>0, <2>6, <2>7, <2>11, <2>15, <2>17, <4>1, <4>2, <4>3, CopyOver
    <3> QED
      BY <3>6 DEF y
  <2>20. CASE x.k # 1 /\ ~(x.k = 2 /\ x.f \in o /\ x.i = KernelIndex(x.k))
    <3>1. x.k \in 2 .. LEVELS /\ x.k > 1
      BY <1>0, <2>20
    <3>2. e \in T[r] /\ h[e] = x.k - 1 /\ (e \in o <=> x.f \in o /\ x.i = KernelIndex(x.k))
      BY <1>1, <1>5, <1>8, <2>20, <3>1 DEF Points
    <3>3. e # KPT /\ e \notin av /\ e \in Frames \ {0} /\ (e \in o => h[e] > 1)
      BY <1>3, <3>2 DEF Subtree
    <3>4. w.buf = m[e]
      <4>1. x.s.mem[e] = m[e]
        BY <3>3 DEF Kept
      <4> QED
        BY <2>4, <3>3, <4>1 DEF ReadPage
    <3>5. TableCall(m, sp, T, h, w)
      <4>1. w.k # 0
        BY <2>3, <3>1
      <4> QED
        BY <2>3, <2>4, <3>2, <3>4, <4>1 DEF TableCall, Ptr
    <3>6. PICK M, b, t : CopyTree(w, u, o, M, b, t)
      BY <2>13, <3>5 DEF CopyPost
    <3>7. (w.f \in o => w.k > 1) /\ (w.f \in o <=> x.f \in o /\ x.i = KernelIndex(x.k))
      BY <2>3, <2>4, <3>2, <3>3
    <3>8. Kept(z.s, y.store)
      BY <2>6, <2>11
    <3>9. \E P, c, a : CopyTree(x, y, o, P, c, a)
      BY <2>3, <2>5, <2>6, <2>7, <2>9, <2>11, <2>15, <2>17, <3>1, <3>6, <3>7, <3>8, CopyDown
    <3> QED
      BY <3>9 DEF y
  <2> QED
    BY <2>18, <2>19, <2>20
<1> QED
  BY <1>7, <1>8

\* All entries of a table are done: it goes to the lowest free page.
LEMMA CopyEnd ==
  ASSUME NEW x \in CopyCall, x.k # 0, x.i = WIDTH, NEW o,
         NEW p, p = Lowest(x.s.avail), x.s.avail # {},
         NEW y, y = [frame |-> p, store |-> [mem |-> [x.s.mem EXCEPT ![p] = x.buf],
                                             avail |-> x.s.avail \ {p}]]
  PROVE  \E N, g, q : CopyTree(x, y, o, N, g, q)
<1> DEFINE N == {p}
           g == [f \in Frames |-> x.k]
           q == IF x.k > 1 /\ x.f \in o THEN {p} ELSE {}
<1>1. x.k \in 0 .. LEVELS /\ x.k \in Nat \ {0} /\ x.s \in Store /\ x.buf \in [IDX -> Entry]
      /\ x.s.mem \in [Frames -> [IDX -> Entry]] /\ x.s.avail \in SUBSET FRAMES
  <2>1. x.k \in 0 .. LEVELS /\ x.s \in Store /\ x.buf \in [IDX -> Entry]
    BY DEF CopyCall
  <2> QED
    BY <2>1, LevelFacts DEF Store
<1>2. p \in x.s.avail /\ p \in Frames
  BY <1>1, LowestIn, PageFacts
<1>3. y.frame = p /\ y.store.mem[p] = x.buf /\ y.store.avail = x.s.avail \ {p}
  BY <1>1, <1>2
<1>4. g \in [Frames -> 0 .. LEVELS] /\ g[p] = x.k /\ (p \in q <=> x.k > 1 /\ x.f \in o)
  BY <1>1, <1>2
<1>5. \A i \in IDX : ~(i >= WIDTH)
  BY KptFrame DEF IDX
<1> HIDE DEF g, q
<1>6. Subtree(y.store.mem, {p}, g, q, p, x.k, WIDTH)
  BY <1>1, <1>4, SubtreeTop
<1>7. DataBelow(y.store.mem, {p}, g, p, WIDTH, {0} \cup ((x.s.avail \ y.store.avail) \ N))
  BY <1>5 DEF DataBelow
<1>8. CopyTree(x, y, o, N, g, q)
  BY <1>2, <1>3, <1>4, <1>6, <1>7 DEF CopyTree
<1> QED
  BY <1>8

\* copy_page does what it should, by induction on what is left to do.
LEMMA CopySpace ==
  ASSUME NEW m \in Mem, NEW av \in SUBSET FRAMES, NEW sp, NEW T, NEW h, NEW o,
         Labelled(m, av, sp, T, h, o), NEW x \in CopyCall
  PROVE  CopyDone(m, av, sp, T, h, o, x)
<1> DEFINE Good(y) == CopyDone(m, av, sp, T, h, o, y)
           S == {n \in Nat : \A y \in CopyCall : Size(y) < n => Good(y)}
<1>0. \A y \in CopyCall : Size(y) \in Nat /\ CopyPage[y] = CopyBody(CopyPage, y)
  BY SizeType, CopyPageDef
<1>1. 0 \in S
  BY <1>0
<1>2. ASSUME NEW n \in Nat, n \in S PROVE n + 1 \in S
  <2> SUFFICES ASSUME NEW y \in CopyCall, Size(y) < n + 1 PROVE Good(y)
    OBVIOUS
  <2>1. \A z \in CopyCall : Size(z) < Size(y) => Good(z)
    BY <1>0, <1>2
  <2> DEFINE c == CopyPage[y]
  <2>2. c = CopyBody(CopyPage, y)
    BY <1>0
  <2> SUFFICES ASSUME Kept([mem |-> m, avail |-> av], y.s), c.store.avail # {}
               PROVE  CopyPost(m, sp, T, h, o, y, c)
    BY DEF CopyDone
  <2>3. ASSUME y.k = 0 \/ y.i = WIDTH
        PROVE  /\ y.s.avail # {} /\ Lowest(y.s.avail) \in y.s.avail
               /\ c = [frame |-> Lowest(y.s.avail),
                       store |-> [mem |-> [y.s.mem EXCEPT ![Lowest(y.s.avail)] = y.buf],
                                  avail |-> y.s.avail \ {Lowest(y.s.avail)}]]
    <3>1. c = [frame |-> Lowest(y.s.avail),
                       store |-> [mem |-> [y.s.mem EXCEPT ![Lowest(y.s.avail)] = y.buf],
                                  avail |-> y.s.avail \ {Lowest(y.s.avail)}]]
      BY <2>2, <2>3 DEF CopyBody
    <3>2. c.store.avail = y.s.avail \ {Lowest(y.s.avail)}
      BY <3>1
    <3>3. y.s.avail \in SUBSET FRAMES
      BY DEF CopyCall, Store
    <3> QED
      BY <3>1, <3>2, <3>3, LowestIn
  <2>4. ASSUME y.k = 0 PROVE c.frame \in y.s.avail \ c.store.avail
    <3>1. PICK a : a = Lowest(y.s.avail)
      OBVIOUS
    <3>2. c.frame = a /\ c.store.avail = y.s.avail \ {a} /\ a \in y.s.avail
      BY <2>3, <2>4, <3>1
    <3> QED
      BY <3>2
  <2>5. ASSUME KptCall(y) PROVE c = [frame |-> KPT, store |-> y.s]
    BY <2>2, <2>5, KptFrame DEF CopyBody, KptCall
  <2>6. ASSUME TableCall(m, sp, T, h, y) PROVE \E N, g, q : CopyTree(y, c, o, N, g, q)
    <3>1. CASE y.i = WIDTH
      <4>1. y.k # 0
        BY <2>6 DEF TableCall
      <4>2. PICK a : a = Lowest(y.s.avail)
        OBVIOUS
      <4>3. y.s.avail # {}
            /\ c = [frame |-> a, store |-> [mem |-> [y.s.mem EXCEPT ![a] = y.buf],
                                            avail |-> y.s.avail \ {a}]]
        BY <2>3, <3>1, <4>2
      <4> HIDE DEF c
      <4> QED
        BY <3>1, <4>1, <4>2, <4>3, CopyEnd
    <3>2. CASE y.i # WIDTH
      BY <2>1, <2>6, <3>2, CopyTurn
    <3> QED
      BY <3>1, <3>2
  <2> HIDE DEF c
  <2> QED
    BY <2>4, <2>5, <2>6 DEF CopyPost
<1> HIDE DEF S
<1>3. Size(x) + 1 \in S
  BY <1>0, <1>1, <1>2, SetInduction
<1> QED
  BY <1>0, <1>3 DEF S

(***************************************************************************)
(* Every step keeps the spaces apart.                                      *)
(***************************************************************************)
\* Drivers mount pages that are neither free nor tables of the kernel.
DevicesApart == DEVICES \cap TablePages = {}

\* The page to be mounted is no table, and a table about to be entered is in
\* nobody's hands.
InHand(c, T, h) ==
    pc[c] # "idle" =>
        /\ IsData(avail, spaces, T, pte[c].frame)
        /\ pc[c] = "fill" =>
             /\ table[c] \in FRAMES /\ table[c] # pte[c].frame
             /\ IsData(avail, spaces, T, table[c])
             /\ \A f : IsLeaf(spaces, T, h, f) => \A i \in IDX : Ptr(mem, f, i) # table[c]

SpaceInv ==
    /\ cr3 \in spaces /\ PML4 \in spaces
    /\ \E T, h, o : /\ Labelled(mem, avail, spaces, T, h, o)
                    /\ \A c \in ACTORS : InHand(c, T, h)

LEMMA InitSpaces == ASSUME NEW d, ACTORS = {d} PROVE Init => SpaceInv
<1> SUFFICES ASSUME Init PROVE SpaceInv
  OBVIOUS
<1>1. PICK T, h, o : Labelled(KernelMem, FRAMES, {PML4}, T, h, o)
  BY InitLabelled
<1>2. mem = KernelMem /\ avail = FRAMES /\ spaces = {PML4} /\ cr3 = PML4 /\ pc[d] = "idle"
  BY DEF Init
<1>3. Labelled(mem, avail, spaces, T, h, o) /\ \A c \in ACTORS : InHand(c, T, h)
  BY <1>1, <1>2 DEF InHand
<1> QED
  BY <1>2, <1>3 DEF SpaceInv

\* The walk of an address goes through tables of the first space.
LEMMA TabLabel ==
  ASSUME NEW m, NEW av, NEW sp, NEW T, NEW h, NEW o, Labelled(m, av, sp, T, h, o),
         PML4 \in sp, TreeInv(m, av), NEW a \in Addr, NEW l \in Levels, Tab(m, a, l) # 0
  PROVE  \/ Tab(m, a, l) \in T[PML4] /\ h[Tab(m, a, l)] = LEVELS - l + 1
         \/ l = LEVELS /\ Tab(m, a, l) = KPT
<1> DEFINE N == T[PML4]
           t(k) == Tab(m, a, k)
           Good(k) == \/ t(k) = 0
                      \/ t(k) \in N /\ h[t(k)] = LEVELS - k + 1
                      \/ k = LEVELS /\ t(k) = KPT
           S == {k \in Levels : Good(k)}
<1>1. Subtree(m, N, h, o, PML4, LEVELS, 0) /\ N \subseteq Frames \ {0} /\ KPT \notin N
  BY PageFacts DEF Labelled
<1>2. 1 \in S
  BY <1>1, LevelFacts DEF Tab, Subtree
<1>3. ASSUME NEW k \in Levels, k \in S, k + 1 \in Levels PROVE k + 1 \in S
  <2>1. k # LEVELS /\ k + 1 # 1 /\ (k + 1) - 1 = k /\ k \in Nat /\ LEVELS \in Nat /\ k + 1 <= LEVELS
        /\ k >= 1
    BY <1>3, LevelFacts DEF Levels
  <2>2. t(k + 1) = Walk(m, a)[k].frame
    BY <2>1 DEF Tab
  <2>3. Walk(m, a)[k] = IF t(k) = 0 THEN Zero ELSE m[t(k)][a[k]]
    BY WalkReads
  <2>4. Good(k)
    BY <1>3
  <2>5. CASE t(k) = 0
    BY <1>3, <2>2, <2>3, <2>5, ZeroType
  <2>6. CASE t(k) # 0
    <3>1. t(k) \in N /\ h[t(k)] = LEVELS - k + 1 /\ h[t(k)] > 1
      BY <2>1, <2>4, <2>6
    <3>2. a[k] \in IDX /\ a[k] >= 0
      BY KptFrame DEF Addr, IDX
    <3>3. t(k + 1) = Ptr(m, t(k), a[k])
      BY <2>2, <2>3, <2>6 DEF Ptr
    <3>4. PICK f : f = t(k)
      OBVIOUS
    <3>5. PICK g : g = t(k + 1)
      OBVIOUS
    <3>6. f \in N /\ h[f] = LEVELS - k + 1 /\ h[f] > 1 /\ g = Ptr(m, f, a[k])
      BY <3>1, <3>3, <3>4, <3>5
    <3>7. Points(N, h, o, f, a[k], g)
      BY <1>1, <3>2, <3>6 DEF Subtree
    <3>8. g = 0 \/ (g \in N /\ h[g] = h[f] - 1) \/ (g = KPT /\ h[f] = 2)
      BY <3>7 DEF Points
    <3>9. g = 0 \/ (g \in N /\ h[g] = LEVELS - (k + 1) + 1) \/ (k + 1 = LEVELS /\ g = KPT)
      BY <2>1, <3>6, <3>8
    <3> QED
      BY <1>3, <3>5, <3>9
  <2> QED
    BY <2>5, <2>6
<1> HIDE DEF S
<1>4. Levels \subseteq S
  BY <1>2, <1>3, LevelInduction
<1> QED
  BY <1>4 DEF S

\* Taking free pages.
LEMMA LessFree ==
  ASSUME NEW m, NEW av, NEW sp, NEW T, NEW h, NEW o, Labelled(m, av, sp, T, h, o),
         NEW aw \in SUBSET av
  PROVE  Labelled(m, aw, sp, T, h, o)
<1>1. \A g : IsData(av, sp, T, g) => IsData(aw, sp, T, g)
  BY DEF IsData
<1> QED
  BY <1>1 DEF Labelled

LEMMA FreeIsData ==
  ASSUME NEW m, NEW av \in SUBSET FRAMES, NEW sp, NEW T, NEW h, NEW o, Labelled(m, av, sp, T, h, o),
         NEW g \in av, NEW aw, g \notin aw
  PROVE  IsData(aw, sp, T, g)
  BY PageFacts DEF Labelled, IsData

\* A step that leaves tables and spaces alone.
LEMMA QuietSpaces ==
  ASSUME NEW d, ACTORS = {d}, SpaceInv, mem' = mem, avail' \in SUBSET avail, UNCHANGED <<spaces, cr3>>,
         \A T, h, o : Labelled(mem, avail, spaces, T, h, o) /\ InHand(d, T, h) => InHand(d, T, h)'
  PROVE  SpaceInv'
<1>1. PICK T, h, o : Labelled(mem, avail, spaces, T, h, o) /\ InHand(d, T, h)
  BY DEF SpaceInv
<1>2. Labelled(mem', avail', spaces', T, h, o)
  BY <1>1, LessFree
<1> QED
  BY <1>1, <1>2 DEF SpaceInv

LEMMA ZeroIsData ==
  ASSUME NEW m, NEW av \in SUBSET FRAMES, NEW sp, NEW T, NEW h, NEW o, Labelled(m, av, sp, T, h, o)
  PROVE  IsData(av, sp, T, 0)
  BY PageFacts, KptFrame DEF Labelled, IsData

\* A call begins: the page to be mounted is the device's, just allocated, or none.
LEMMA BeginSpaces ==
  ASSUME NEW d, ACTORS = {d}, PageInv, SpaceInv, NEW o, NEW a, NEW e,
         Begin(d, o, a, e), mem' = mem, avail' \in SUBSET avail, UNCHANGED <<spaces, cr3>>,
         \/ e.frame = 0
         \/ e.frame \in DEVICES /\ DevicesApart
         \/ e.frame \in avail \ avail'
  PROVE  SpaceInv'
<1>1. pc'[d] = "open" /\ pte'[d] = e
  BY DEF Begin, PageInv, WalkTypes
<1>2. avail \in SUBSET FRAMES /\ avail' \in SUBSET FRAMES
  BY DEF PageInv, TreeInv
<1>3. ASSUME NEW T, NEW h, NEW q, Labelled(mem, avail, spaces, T, h, q)
      PROVE  IsData(avail', spaces, T, e.frame)
  <2>1. CASE e.frame = 0
    <3>1. Labelled(mem, avail', spaces, T, h, q)
      BY <1>3, LessFree
    <3> QED
      BY <1>2, <2>1, <3>1, ZeroIsData
  <2>2. CASE e.frame \in DEVICES /\ DevicesApart
    <3>1. e.frame \notin TablePages /\ FRAMES \subseteq TablePages /\ KPT \in TablePages
      BY <2>2, PageFacts DEF DevicesApart, TablePages
    <3> QED
      BY <1>2, <1>3, <3>1 DEF Labelled, IsData
  <2>3. CASE e.frame \in avail \ avail'
    BY <1>2, <1>3, <2>3, FreeIsData
  <2> QED
    BY <2>1, <2>2, <2>3
<1>4. ASSUME NEW T, NEW h, NEW q, Labelled(mem, avail, spaces, T, h, q)
      PROVE  InHand(d, T, h)'
  BY <1>1, <1>3, <1>4 DEF InHand
<1> QED
  BY <1>4, QuietSpaces

LEMMA CallSpaces ==
  ASSUME NEW d, ACTORS = {d}, Roomy, DevicesApart, PageInv, SpaceInv,
         \/ \E f \in DEVICES, a \in KERNEL : MountPage(d, f, a)
         \/ \E a \in KERNEL : AllocPages(d, a, 0)
         \/ \E a \in USER : AllocPages(d, a, 1)
         \/ \E a \in KERNEL : UmountPage(d, a)
         \/ \E a \in FAULTS, b \in KERNEL : RemapPages(d, a, b)
         \/ \E a \in FAULTS : PageFault(d, a)
  PROVE  SpaceInv'
<1>1. ASSUME Ready(d) PROVE Lowest(avail) \in avail
  <2>1. LEVELS - 1 \in Nat /\ Cardinality(avail) >= (LEVELS - 1) + 1
    <3>1. Cardinality(avail) \in Nat
      BY AvailCount DEF PageInv
    <3> QED
      BY <1>1, <3>1, LevelFacts DEF Ready, Roomy
  <2> QED
    BY <2>1, TakeLowest DEF PageInv
<1>2. Zero.frame = 0 /\ \A f, u : Page(f, u).frame = f
  BY ZeroType DEF Page
<1>3. ASSUME NEW f \in DEVICES, NEW a \in KERNEL, MountPage(d, f, a) PROVE SpaceInv'
  <2>1. Page(f, 0).frame \in DEVICES
    BY <1>2
  <2> QED
    BY <1>3, <2>1, BeginSpaces DEF MountPage
<1>4. ASSUME NEW o, NEW a, NEW u, Ready(d), Begin(d, o, a, Page(Lowest(avail), u)),
             avail' = avail \ {Lowest(avail)}, UNCHANGED <<mem, spaces, cr3>>
      PROVE  SpaceInv'
  <2>1. Page(Lowest(avail), u).frame \in avail \ avail'
    BY <1>1, <1>2, <1>4
  <2> QED
    BY <1>4, <2>1, BeginSpaces
<1>5. ASSUME NEW o, NEW a, Begin(d, o, a, Zero), UNCHANGED <<mem, avail, spaces, cr3>>
      PROVE  SpaceInv'
  BY <1>2, <1>5, BeginSpaces
<1> QED
  BY <1>3, <1>4, <1>5 DEF AllocPages, UmountPage, RemapPages, PageFault

\* The steps of a walk that write nothing.
LEMMA WalkSpaces ==
  ASSUME NEW d, ACTORS = {d}, PageInv, SpaceInv, Open(d) \/ Follow(d) \/ Close(d) \/ Return(d)
  PROVE  SpaceInv'
<1>0. WalkTypes
  BY DEF PageInv
<1>1. mem' = mem /\ avail' = avail /\ UNCHANGED <<spaces, cr3>>
  BY DEF Open, Follow, Close, Return
<1>2. pc[d] # "idle" /\ pc'[d] # "fill" /\ (pc'[d] # "idle" => pte'[d].frame = pte[d].frame)
  <2>1. CASE Open(d)
    BY <1>0, <2>1 DEF Open, At, WalkTypes
  <2>2. CASE Follow(d)
    <3>1. pc'[d] \in {"missing", "close"}
      BY <1>0, <2>2 DEF Follow, WalkTypes
    <3> QED
      BY <2>2, <3>1 DEF Follow, At
  <2>3. CASE Close(d)
    BY <1>0, <2>3 DEF Close, At, WalkTypes
  <2>4. CASE Return(d)
    BY <1>0, <2>4 DEF Return, Begin, At, WalkTypes, Page
  <2> QED
    BY <2>1, <2>2, <2>3, <2>4
<1>3. ASSUME NEW T, NEW h, InHand(d, T, h) PROVE InHand(d, T, h)'
  BY <1>1, <1>2, <1>3 DEF InHand
<1> QED
  BY <1>1, <1>3, QuietSpaces

\* A new table: it was free, so no entry points to it.
LEMMA CreateSpaces ==
  ASSUME NEW d, ACTORS = {d}, Roomy, PageInv, SpaceInv, Create(d)
  PROVE  SpaceInv'
<1> DEFINE n == Lowest(avail)
<1>1. pc[d] = "look" /\ level[d] < LEVELS /\ Mounting(d)
      /\ table' = [table EXCEPT ![d] = n] /\ avail' = avail \ {n}
      /\ pc' = [pc EXCEPT ![d] = "fill"]
      /\ UNCHANGED <<mem, spaces, cr3, pte>>
  BY DEF Create, At
<1>2. WalkTypes /\ Cardinality(avail) >= Needed(d) /\ TreeInv(mem, avail) /\ level[d] \in Levels
  BY <1>1, LookFacts
<1> DEFINE k == LEVELS - level[d] - 1
<1>3. k \in Nat /\ Cardinality(avail) >= k + 1
  <2>1. Cardinality(avail) \in Nat /\ level[d] \in Nat /\ LEVELS \in Nat /\ k \in Nat
    BY <1>1, <1>2, AvailCount, LevelNext
  <2>2. Needed(d) = LEVELS - level[d]
    BY <1>1, <2>1 DEF Needed, Mounting
  <2> QED
    BY <1>2, <2>1, <2>2
<1> HIDE DEF k
<1>4. n \in avail /\ avail \in SUBSET FRAMES
  BY <1>2, <1>3, TakeLowest DEF TreeInv
<1> HIDE DEF n
<1>5. pc'[d] = "fill" /\ table'[d] = n /\ n \notin avail' /\ avail' \in SUBSET avail
  BY <1>1, <1>2 DEF WalkTypes
<1>6. ASSUME NEW T, NEW h, NEW o, Labelled(mem, avail, spaces, T, h, o), InHand(d, T, h)
      PROVE  InHand(d, T, h)'
  <2>1. IsData(avail, spaces, T, pte[d].frame)
    BY <1>1, <1>6 DEF InHand
  <2>2. IsData(avail', spaces, T, pte[d].frame) /\ pte[d].frame # n
    BY <1>4, <1>5, <2>1 DEF IsData
  <2>3. IsData(avail', spaces, T, n)
    BY <1>4, <1>5, <1>6, FreeIsData
  <2>4. \A f : IsLeaf(spaces, T, h, f) => \A i \in IDX : Ptr(mem, f, i) # n
    BY <1>4, <1>6 DEF Labelled, IsData
  <2>5. Ptr(mem', 0, 0) = Ptr(mem, 0, 0) /\ mem' = mem /\ spaces' = spaces /\ pte' = pte
    BY <1>1
  <2> QED
    BY <1>4, <1>5, <2>2, <2>3, <2>4, <2>5 DEF InHand
<1> QED
  BY <1>1, <1>5, <1>6, QuietSpaces

\* The step at a page table changes what that table maps, to a page of data.
LEMMA LastSpaces ==
  ASSUME NEW d, ACTORS = {d}, PageInv, SpaceInv, Last(d)
  PROVE  SpaceInv'
<1> DEFINE a == addr[d]
           old == mem[window][a[LEVELS]]
<1>1. pc[d] = "look" /\ level[d] = LEVELS
      /\ mem' = (IF Mounting(d) THEN [mem EXCEPT ![window][a[LEVELS]] = pte[d]]
                 ELSE [mem EXCEPT ![window][a[LEVELS]].exists = 0])
      /\ pte' = (IF Mounting(d) THEN pte ELSE [pte EXCEPT ![d] = old])
      /\ pc' = [pc EXCEPT ![d] = "close"]
      /\ UNCHANGED <<avail, spaces, cr3>>
  BY DEF Last, At, Index
<1>2. /\ WalkTypes /\ TreeInv(mem, avail) /\ Walking(d)
      /\ a \in Addr /\ LEVELS \in Levels /\ pte[d] \in Entry /\ mem \in Mem
  BY <1>1, LevelFacts DEF PageInv, WalkTypes, TreeInv
<1>3. window # 0 /\ window = Tab(mem, a, LEVELS) /\ window \in Frames /\ a[LEVELS] \in IDX
  BY <1>1, <1>2, TabType DEF Walking, Addr
<1>4. PICK T, h, o : Labelled(mem, avail, spaces, T, h, o) /\ InHand(d, T, h)
  BY DEF SpaceInv
<1>5. PML4 \in spaces /\ cr3 \in spaces
  BY DEF SpaceInv
<1>6. window = KPT \/ (window \in T[PML4] /\ h[window] = 1)
  <2>1. LEVELS - LEVELS + 1 = 1
    BY LevelFacts
  <2> QED
    BY <1>2, <1>3, <1>4, <1>5, <2>1, TabLabel
<1>7. IsLeaf(spaces, T, h, window)
  BY <1>5, <1>6 DEF IsLeaf
<1>8. IsData(avail, spaces, T, pte[d].frame) /\ IsData(avail, spaces, T, old.frame)
  BY <1>1, <1>3, <1>4, <1>7 DEF InHand, Labelled, Ptr
<1>9. PICK g : /\ IsData(avail, spaces, T, g)
               /\ \A f \in Frames : \A i \in IDX :
                     Ptr(mem', f, i) = IF f = window /\ i = a[LEVELS] THEN g ELSE Ptr(mem, f, i)
  <2>1. CASE Mounting(d)
    <3>1. mem' = [mem EXCEPT ![window][a[LEVELS]] = pte[d]]
      BY <1>1, <2>1
    <3>2. \A f \in Frames : \A i \in IDX :
            Ptr(mem', f, i) = IF f = window /\ i = a[LEVELS] THEN pte[d].frame ELSE Ptr(mem, f, i)
      BY <1>2, <1>3, <3>1 DEF Mem, Ptr
    <3> QED
      BY <1>8, <3>2
  <2>2. CASE ~Mounting(d)
    <3>1. mem' = [mem EXCEPT ![window][a[LEVELS]] = [old EXCEPT !.exists = 0]]
      BY <1>1, <2>2
    <3>2. old \in Entry
      BY <1>2, <1>3 DEF Mem
    <3>3. PICK e : e = [old EXCEPT !.exists = 0]
      OBVIOUS
    <3>4. e.frame = old.frame
      BY <3>2, <3>3 DEF Entry
    <3>5. \A f \in Frames : \A i \in IDX :
            Ptr(mem', f, i) = IF f = window /\ i = a[LEVELS] THEN e.frame ELSE Ptr(mem, f, i)
      BY <1>2, <1>3, <3>1, <3>3 DEF Mem, Ptr
    <3> QED
      BY <1>8, <3>4, <3>5
  <2> QED
    BY <2>1, <2>2
<1>10. /\ T = [r \in spaces |-> T[r]] /\ h \in [Frames -> 0 .. LEVELS]
       /\ \A r \in spaces : Subtree(mem, T[r], h, o, r, LEVELS, 0) /\ r \in o
       /\ \A r, s \in spaces : r # s => T[r] \cap T[s] = {}
       /\ \A r \in spaces : T[r] \subseteq TablePages \ (avail \cup {KPT})
       /\ \A f : IsLeaf(spaces, T, h, f) => \A i \in IDX : IsData(avail, spaces, T, Ptr(mem, f, i))
  BY <1>4 DEF Labelled
<1>11. \A r \in spaces : T[r] \subseteq Frames
  BY <1>10, PageFacts
<1>12. ASSUME NEW r \in spaces PROVE Subtree(mem', T[r], h, o, r, LEVELS, 0)
  <2>1. \A f \in T[r] : h[f] > 1 => f # window
    BY <1>5, <1>6, <1>10
  <2>2. \A f \in T[r] : \A i \in IDX : h[f] > 1 => Ptr(mem', f, i) = Ptr(mem, f, i)
    BY <1>9, <1>11, <2>1
  <2> QED
    BY <1>10, <2>2, SubtreeSame
<1>13. ASSUME NEW f, IsLeaf(spaces, T, h, f), NEW i \in IDX
       PROVE  IsData(avail, spaces, T, Ptr(mem', f, i))
  <2>1. f \in Frames
    BY <1>11, <1>13, KptFrame DEF IsLeaf
  <2> QED
    BY <1>9, <1>10, <1>13, <2>1
<1>14. Labelled(mem', avail, spaces, T, h, o)
  BY <1>10, <1>12, <1>13 DEF Labelled
<1>15. pc'[d] = "close" /\ (pte'[d] = pte[d] \/ pte'[d] = old)
  BY <1>1, <1>2 DEF WalkTypes
<1> HIDE DEF old
<1>16. InHand(d, T, h)'
  BY <1>1, <1>8, <1>15 DEF InHand
<1> QED
  BY <1>1, <1>5, <1>14, <1>16 DEF SpaceInv

\* A new table is entered into the first space.
LEMMA FillSpaces ==
  ASSUME NEW d, ACTORS = {d}, PageInv, SpaceInv, Fill(d)
  PROVE  SpaceInv'
<1> DEFINE l == level[d]
           a == addr[d]
<1>1. pc[d] = "fill" /\ mem' = [mem EXCEPT ![window][a[l]] = Page(table[d], pte[d].user)]
      /\ pc' = [pc EXCEPT ![d] = "close"]
      /\ UNCHANGED <<avail, spaces, cr3, pte>>
  BY DEF Fill, At, Index
<1>2. /\ WalkTypes /\ TreeInv(mem, avail) /\ mem \in Mem
      /\ a \in Addr /\ l \in Levels /\ l # LEVELS
      /\ window # 0 /\ window = Tab(mem, a, l) /\ Walk(mem, a)[l] = Zero
      /\ NewTable(mem, table[d]) /\ table[d] \notin avail
  <2>1. WalkTypes /\ TreeInv(mem, avail) /\ Walking(d)
    BY <1>1 DEF PageInv
  <2> QED
    BY <1>1, <2>1 DEF WalkTypes, Walking, TreeInv
<1>3. PICK T, h, o : Labelled(mem, avail, spaces, T, h, o) /\ InHand(d, T, h)
  BY DEF SpaceInv
<1>4. PML4 \in spaces /\ cr3 \in spaces
  BY DEF SpaceInv
<1>5. PICK t : t = table[d]
  OBVIOUS
<1>6. PICK w : w = window
  OBVIOUS
<1>7. PICK i : i = a[l]
  OBVIOUS
<1>8. /\ t \in FRAMES /\ t # pte[d].frame /\ IsData(avail, spaces, T, t)
      /\ \A f : IsLeaf(spaces, T, h, f) => \A j \in IDX : Ptr(mem, f, j) # t
      /\ IsData(avail, spaces, T, pte[d].frame)
  BY <1>1, <1>3, <1>5 DEF InHand
<1>9. /\ t \in Frames \ {0} /\ t \notin avail /\ t # KPT /\ \A r \in spaces : t \notin T[r]
      /\ \A j \in IDX : Ptr(mem, t, j) = 0
  <2>1. mem[t] = Empty
    BY <1>2, <1>5 DEF NewTable
  <2> QED
    BY <1>8, <2>1, PageFacts DEF IsData, Ptr, Empty, Zero
<1>10. l \in Nat /\ LEVELS \in Nat /\ l < LEVELS /\ l >= 1
  BY <1>2, LevelFacts DEF Levels
<1>11. w \in T[PML4] /\ h[w] = LEVELS - l + 1 /\ h[w] > 1
  <2>1. window \in T[PML4] /\ h[window] = LEVELS - l + 1
    BY <1>2, <1>3, <1>4, TabLabel
  <2> QED
    BY <1>6, <1>10, <2>1
<1>12. i \in IDX /\ Ptr(mem, w, i) = 0
  <2>1. i \in IDX
    BY <1>2, <1>7 DEF Addr
  <2>2. mem[window][a[l]] = Zero
    BY <1>2, WalkReads
  <2> QED
    BY <1>6, <1>7, <2>1, <2>2, ZeroType DEF Ptr
<1>13. /\ T = [r \in spaces |-> T[r]] /\ h \in [Frames -> 0 .. LEVELS]
       /\ \A r \in spaces : Subtree(mem, T[r], h, o, r, LEVELS, 0) /\ r \in o
       /\ \A r, s \in spaces : r # s => T[r] \cap T[s] = {}
       /\ \A r \in spaces : T[r] \subseteq TablePages \ (avail \cup {KPT})
       /\ \A f : IsLeaf(spaces, T, h, f) => \A j \in IDX : IsData(avail, spaces, T, Ptr(mem, f, j))
  BY <1>3 DEF Labelled
<1>14. \A r \in spaces : T[r] \subseteq Frames \ {0, KPT}
  BY <1>13, PageFacts
<1>15. \A f \in Frames : \A j \in IDX :
          Ptr(mem', f, j) = IF f = w /\ j = i THEN t ELSE Ptr(mem, f, j)
  <2>1. PICK e : e = Page(table[d], pte[d].user)
    OBVIOUS
  <2>2. e.frame = t /\ mem' = [mem EXCEPT ![w][i] = e] /\ w \in Frames
    BY <1>1, <1>4, <1>5, <1>6, <1>7, <1>11, <1>14, <2>1 DEF Page
  <2> QED
    BY <1>2, <1>12, <2>2 DEF Ptr, Mem
<1>16. PICK U : /\ U = [r \in spaces |-> U[r]]
                /\ \A r \in spaces : U[r] = IF r = PML4 THEN T[PML4] \cup {t} ELSE T[r]
  <2> DEFINE U == [r \in spaces |-> IF r = PML4 THEN T[PML4] \cup {t} ELSE T[r]]
  <2>1. /\ U = [r \in spaces |-> U[r]]
        /\ \A r \in spaces : U[r] = IF r = PML4 THEN T[PML4] \cup {t} ELSE T[r]
    OBVIOUS
  <2> QED
    BY <2>1
<1>17. PICK g : g \in [Frames -> 0 .. LEVELS] /\ g[t] = h[w] - 1
                /\ \A f \in Frames : f # t => g[f] = h[f]
  <2> DEFINE g == [h EXCEPT ![t] = LEVELS - l]
  <2>1. LEVELS - l \in 0 .. LEVELS /\ LEVELS - l = h[w] - 1
    BY <1>10, <1>11
  <2>2. g \in [Frames -> 0 .. LEVELS] /\ g[t] = h[w] - 1 /\ \A f \in Frames : f # t => g[f] = h[f]
    BY <1>9, <1>13, <2>1
  <2> QED
    BY <2>2
<1>18. PICK q : q = o \ {t}
  OBVIOUS
<1>19. ASSUME NEW r \in spaces PROVE \A f \in T[r] : g[f] = h[f] /\ (f \in q <=> f \in o)
  BY <1>9, <1>14, <1>17, <1>18, <1>19
<1>20. ASSUME NEW r \in spaces, r # PML4 PROVE Subtree(mem', U[r], g, q, r, LEVELS, 0)
  <2>1. U[r] = T[r] /\ w \notin T[r]
    BY <1>4, <1>11, <1>13, <1>16, <1>20
  <2>2. \A f \in T[r] : \A j \in IDX : h[f] > 1 => Ptr(mem', f, j) = Ptr(mem, f, j)
    BY <1>14, <1>15, <2>1
  <2>3. Subtree(mem', T[r], g, q, r, LEVELS, 0)
    BY <1>13, <1>19, <2>2, SubtreeSame
  <2> QED
    BY <2>1, <2>3
<1>21. Subtree(mem', U[PML4], g, q, PML4, LEVELS, 0)
  <2>1. PICK N : N = T[PML4]
    OBVIOUS
  <2>2. Subtree(mem, N, g, q, PML4, LEVELS, 0)
    BY <1>4, <1>13, <1>19, <2>1, SubtreeSame
  <2>3. w \in N /\ g[w] > 1 /\ g[t] = g[w] - 1 /\ t \notin N /\ t # KPT /\ t # 0 /\ t \notin q
        /\ KPT \notin N /\ 0 \notin N
    BY <1>4, <1>9, <1>11, <1>14, <1>17, <1>18, <1>19, <2>1
  <2>4. \A j \in IDX : Ptr(mem', t, j) = 0
    BY <1>9, <1>15, <2>3
  <2>5. \A f \in N : \A j \in IDX : Ptr(mem', f, j) = IF f = w /\ j = i THEN t ELSE Ptr(mem, f, j)
    BY <1>4, <1>14, <1>15, <2>1
  <2>6. Subtree(mem', N \cup {t}, g, q, PML4, LEVELS, 0)
    BY <1>10, <1>12, <2>2, <2>3, <2>4, <2>5, SubtreeGrow
  <2> QED
    BY <1>4, <1>16, <2>1, <2>6
<1>22. \A r \in spaces : r \in q /\ U[r] \subseteq TablePages \ (avail \cup {KPT})
  <2>1. \A r \in spaces : r \in T[r]
    BY <1>13 DEF Subtree
  <2>2. t \in TablePages
    BY <1>8 DEF TablePages
  <2> QED
    BY <1>4, <1>9, <1>13, <1>16, <1>18, <2>1, <2>2
<1>23. \A r, s \in spaces : r # s => U[r] \cap U[s] = {}
  BY <1>4, <1>9, <1>13, <1>16
<1>24. \A x : IsData(avail, spaces, T, x) /\ x # t => IsData(avail, spaces, U, x)
  BY <1>4, <1>16 DEF IsData
<1>25. ASSUME NEW f, IsLeaf(spaces, U, g, f), NEW j \in IDX
       PROVE  IsData(avail, spaces, U, Ptr(mem', f, j))
  <2>1. CASE f = t
    <3>1. Ptr(mem', f, j) = 0
      BY <1>4, <1>9, <1>11, <1>15, <2>1
    <3>2. avail \in SUBSET FRAMES
      BY <1>2 DEF TreeInv
    <3>3. IsData(avail, spaces, T, 0)
      BY <1>3, <3>2, ZeroIsData
    <3> QED
      BY <1>9, <1>24, <3>1, <3>3
  <2>2. CASE f # t
    <3>1. IsLeaf(spaces, T, h, f) /\ f \in Frames /\ f # w
      <4>1. CASE f = KPT
        BY <1>4, <1>11, <1>14, <4>1, KptFrame DEF IsLeaf
      <4>2. CASE \E r \in spaces : f \in U[r] /\ g[f] = 1
        <5>1. PICK r \in spaces : f \in U[r] /\ g[f] = 1
          BY <4>2
        <5>2. f \in T[r]
          BY <1>16, <2>2, <5>1
        <5>3. h[f] = 1 /\ f \in Frames
          BY <1>14, <1>19, <5>1, <5>2
        <5> QED
          BY <1>11, <5>2, <5>3 DEF IsLeaf
      <4> QED
        BY <1>25, <4>1, <4>2 DEF IsLeaf
    <3>2. Ptr(mem', f, j) = Ptr(mem, f, j)
      BY <1>15, <3>1
    <3>3. IsData(avail, spaces, T, Ptr(mem, f, j)) /\ Ptr(mem, f, j) # t
      BY <1>8, <1>13, <3>1
    <3> QED
      BY <1>24, <3>2, <3>3
  <2> QED
    BY <2>1, <2>2
<1>26. Labelled(mem', avail, spaces, U, g, q)
  BY <1>13, <1>16, <1>17, <1>20, <1>21, <1>22, <1>23, <1>25 DEF Labelled
<1>27. pc'[d] = "close" /\ pte' = pte
  BY <1>1, <1>2 DEF WalkTypes
<1>28. InHand(d, U, g)'
  BY <1>1, <1>8, <1>24, <1>27 DEF InHand
<1> QED
  BY <1>1, <1>4, <1>26, <1>28 DEF SpaceInv

\* fork: the copy takes free pages only, so it is a space of its own.
LEMMA CopyPagesSpaces ==
  ASSUME NEW d, ACTORS = {d}, PageInv, SpaceInv, CopyPages(d), avail' # {}
  PROVE  SpaceInv'
<1> DEFINE s == [mem |-> mem, avail |-> avail]
           x == [k |-> LEVELS, i |-> 0, f |-> cr3, buf |-> ReadPage(s, cr3), s |-> s]
           y == CopyPage[x]
<1>1. s \in Store /\ cr3 \in Frames /\ mem \in Mem /\ avail \in SUBSET FRAMES
  BY DEF Store, PageInv, TreeInv, Mem, WalkTypes
<1>2. ReadPage(s, cr3) \in [IDX -> Entry]
  BY <1>1, ReadType
<1>3. x \in CopyCall /\ x.s = s /\ s.mem = mem /\ s.avail = avail
      /\ x.k = LEVELS /\ x.i = 0 /\ x.f = cr3 /\ x.buf = ReadPage(s, cr3)
  BY <1>1, <1>2, LevelFacts, KptFrame DEF CopyCall
<1>4. /\ mem' = y.store.mem /\ avail' = y.store.avail /\ spaces' = spaces \cup {y.frame}
      /\ pc[d] = "idle" /\ pc' = pc /\ cr3' = cr3
  BY DEF CopyPages, Ready, At, walkVars
<1>5. PICK T, h, o : Labelled(mem, avail, spaces, T, h, o)
  BY DEF SpaceInv
<1>6. PML4 \in spaces /\ cr3 \in spaces
  BY DEF SpaceInv
<1>7. /\ \A r \in spaces : T[r] \subseteq Frames \ {0, KPT} /\ T[r] \cap avail = {}
      /\ cr3 \in T[cr3] /\ h[cr3] = LEVELS /\ cr3 \in o
      /\ \A f : IsLeaf(spaces, T, h, f) => \A i \in IDX : Ptr(mem, f, i) \notin avail
  BY <1>5, <1>6, PageFacts DEF Labelled, Subtree, IsData
<1>8. x.buf = mem[cr3]
  BY <1>3, <1>6, <1>7 DEF ReadPage
<1> HIDE DEF s, x
<1>9. Kept([mem |-> mem, avail |-> avail], x.s)
  BY <1>3 DEF Kept, s
<1>10. TableCall(mem, spaces, T, h, x)
  BY <1>3, <1>6, <1>7, <1>8, LevelFacts DEF TableCall, Ptr
<1>11. y \in CopyResult /\ Kept(x.s, y.store)
  BY <1>3, CopyPageKeeps
<1>12. CopyDone(mem, avail, spaces, T, h, o, x)
  BY <1>1, <1>3, <1>5, CopySpace
<1>13. PICK N, g, q : CopyTree(x, y, o, N, g, q)
  BY <1>4, <1>9, <1>10, <1>12 DEF CopyDone, CopyPost
<1>14. PICK p : p = y.frame
  OBVIOUS
<1> HIDE DEF y
<1>15. avail' \in SUBSET avail /\ \A f \in Frames \ {0} : f \notin avail => mem'[f] = mem[f]
  BY <1>3, <1>4, <1>11 DEF Kept
<1>16. /\ N \subseteq avail \ avail' /\ g \in [Frames -> 0 .. LEVELS]
       /\ Subtree(mem', N, g, q, p, LEVELS, 0) /\ p \in q
       /\ DataBelow(mem', N, g, p, 0, {0} \cup ((avail \ avail') \ N))
  BY <1>3, <1>4, <1>7, <1>13, <1>14, LevelFacts DEF CopyTree
<1>17. N \in SUBSET (TablePages \ {KPT}) /\ 0 \notin N
  BY <1>1, <1>16, PageFacts DEF TablePages
<1>18. N \cap avail' = {} /\ \A r \in spaces : N \cap T[r] = {}
  BY <1>7, <1>16
<1>19. \A f : IsLeaf(spaces, T, h, f) => \A i \in IDX : Ptr(mem, f, i) \notin N
  BY <1>7, <1>16
<1>20. \A f : f = KPT \/ (\E r \in spaces : f \in T[r]) => mem'[f] = mem[f]
  BY <1>1, <1>7, <1>15, KptFrame, PageFacts
<1>21. ASSUME NEW f \in N, NEW i \in IDX, g[f] = 1
       PROVE  IsData(avail', spaces, T, Ptr(mem', f, i)) /\ Ptr(mem', f, i) \notin N
  <2>1. i >= 0
    BY KptFrame DEF IDX
  <2>2. Ptr(mem', f, i) \in {0} \cup ((avail \ avail') \ N)
    BY <1>16, <1>21, <2>1 DEF DataBelow
  <2>3. avail' \in SUBSET FRAMES /\ Labelled(mem, avail', spaces, T, h, o)
    BY <1>1, <1>5, <1>15, LessFree
  <2>4. CASE Ptr(mem', f, i) = 0
    BY <1>17, <2>3, <2>4, ZeroIsData
  <2>5. CASE Ptr(mem', f, i) \in (avail \ avail') \ N
    <3>1. PICK c : c = Ptr(mem', f, i)
      OBVIOUS
    <3>2. c \in avail /\ c \notin avail' /\ c \notin N
      BY <2>5, <3>1
    <3>3. IsData(avail', spaces, T, c)
      BY <1>1, <1>5, <3>2, FreeIsData
    <3> QED
      BY <3>1, <3>2, <3>3
  <2> QED
    BY <2>2, <2>4, <2>5
<1>22. \A f \in N : \A i \in IDX : g[f] = 1 =>
            IsData(avail', spaces, T, Ptr(mem', f, i)) /\ Ptr(mem', f, i) \notin N
  BY <1>21
<1>23. PICK n : n = mem'
  OBVIOUS
<1>24. PICK aw : aw = avail'
  OBVIOUS
<1>25. PICK U, k, l : Labelled(n, aw, spaces \cup {p}, U, k, l)
  <2>1. aw \in SUBSET avail /\ Subtree(n, N, g, q, p, LEVELS, 0) /\ N \cap aw = {}
    BY <1>15, <1>16, <1>18, <1>23, <1>24
  <2>2. \A f : f = KPT \/ (\E r \in spaces : f \in T[r]) => n[f] = mem[f]
    BY <1>20, <1>23
  <2>3. \A f \in N : \A i \in IDX : g[f] = 1 =>
            IsData(aw, spaces, T, Ptr(n, f, i)) /\ Ptr(n, f, i) \notin N
    BY <1>22, <1>23, <1>24
  <2>4. NewSpace(mem, avail, spaces, T, h, n, aw, N, g, q, p)
    BY <1>16, <1>17, <1>18, <1>19, <2>1, <2>2, <2>3 DEF NewSpace
  <2> QED
    BY <1>5, <2>4, AddSpace
<1>26. Labelled(mem', avail', spaces', U, k, l)
  BY <1>4, <1>14, <1>23, <1>24, <1>25
<1>27. InHand(d, U, k)'
  BY <1>4 DEF InHand
<1> QED
  BY <1>4, <1>6, <1>26, <1>27 DEF SpaceInv

\* page_init_ap: a path of free pages.
LEMMA PageInitApSpaces ==
  ASSUME NEW d, ACTORS = {d}, PageInv, SpaceInv, PageInitAp(d)
  PROVE  SpaceInv'
<1>1. mem \in Mem /\ avail \in SUBSET FRAMES
  BY DEF PageInv, TreeInv
<1>2. PICK new \in [1 .. (LEVELS - 1) -> avail] :
          /\ IsInjective(new)
          /\ mem' = [f \in Frames |->
                       IF f \in Range(new)
                       THEN LET l == CHOOSE l \in DOMAIN new : new[l] = f
                            IN [Empty EXCEPT ![KPATH[l]] =
                                  Page(IF l = LEVELS - 1 THEN KPT ELSE new[l + 1], 0)]
                       ELSE mem[f]]
          /\ avail' = avail \ Range(new)
          /\ spaces' = spaces \cup {new[1]}
  BY DEF PageInitAp
<1>3. pc[d] = "idle" /\ pc' = pc /\ cr3' = cr3
  BY DEF PageInitAp, Ready, At, walkVars
<1>4. PICK T, h, o : Labelled(mem, avail, spaces, T, h, o)
  BY DEF SpaceInv
<1>5. PML4 \in spaces /\ cr3 \in spaces
  BY DEF SpaceInv
<1>6. Range(new) \subseteq avail /\ DOMAIN new = 1 .. (LEVELS - 1)
      /\ \A j \in 1 .. (LEVELS - 1) : new[j] \in Range(new)
  BY <1>2 DEF Range
<1>7. FRAMES \subseteq TablePages \ {KPT} /\ FRAMES \subseteq Frames \ {0}
  BY PageFacts DEF TablePages
<1>8. ASSUME NEW j \in 1 .. (LEVELS - 1), NEW i \in IDX
      PROVE  Ptr(mem', new[j], i) = IF i # KPATH[j] THEN 0
                              ELSE IF j = LEVELS - 1 THEN KPT ELSE new[j + 1]
  <2> DEFINE l == CHOOSE l \in DOMAIN new : new[l] = new[j]
  <2>1. l = j
    BY <1>2, <1>6 DEF IsInjective
  <2>2. new[j] \in Frames /\ new[j] \in Range(new)
    BY <1>1, <1>6, <1>7
  <2>3. mem'[new[j]] = [Empty EXCEPT ![KPATH[l]] =
                                  Page(IF l = LEVELS - 1 THEN KPT ELSE new[l + 1], 0)]
    BY <1>2, <2>2
  <2> HIDE DEF l
  <2>4. PICK g : g = IF j = LEVELS - 1 THEN KPT ELSE new[j + 1]
    OBVIOUS
  <2>5. mem'[new[j]] = [Empty EXCEPT ![KPATH[j]] = Page(g, 0)]
    BY <2>1, <2>3, <2>4
  <2>6. KPATH[j] \in IDX
    BY PageAssumption DEF PageAssumption
  <2>7. mem'[new[j]][i] = IF i = KPATH[j] THEN Page(g, 0) ELSE Zero
    BY <2>5, <2>6 DEF Empty
  <2>8. Page(g, 0).frame = g /\ Zero.frame = 0
    BY DEF Page, Zero
  <2>9. Ptr(mem', new[j], i) = IF i = KPATH[j] THEN g ELSE 0
    BY <2>7, <2>8 DEF Ptr
  <2> QED
    BY <2>4, <2>9
<1>9. PICK n : n = mem'
  OBVIOUS
<1>10. Path(n, new)
  <2>1. new \in [1 .. (LEVELS - 1) -> TablePages \ {KPT}]
    BY <1>1, <1>2, <1>7
  <2> QED
    BY <1>2, <1>8, <1>9, <2>1 DEF Path
<1>11. PICK g \in [Frames -> 0 .. LEVELS] :
            /\ Subtree(n, Range(new), g, Range(new), new[1], LEVELS, 0)
            /\ \A f \in Range(new) : g[f] > 1
  BY <1>10, PathTree
<1>12. PICK N : N = Range(new)
  OBVIOUS
<1>13. PICK p : p = new[1]
  OBVIOUS
<1>14. PICK aw : aw = avail'
  OBVIOUS
<1>15. /\ Subtree(n, N, g, N, p, LEVELS, 0) /\ p \in N /\ \A f \in N : g[f] # 1
       /\ aw \in SUBSET avail /\ N \cap aw = {} /\ N \subseteq avail
  <2>1. Subtree(n, N, g, N, p, LEVELS, 0) /\ \A f \in N : g[f] # 1
    BY <1>11, <1>12, <1>13
  <2> QED
    BY <1>2, <1>6, <1>12, <1>14, <2>1 DEF Subtree
<1>16. N \in SUBSET (TablePages \ {KPT}) /\ \A r \in spaces : N \cap T[r] = {}
  BY <1>1, <1>4, <1>7, <1>15 DEF Labelled
<1>17. \A f : IsLeaf(spaces, T, h, f) => \A i \in IDX : Ptr(mem, f, i) \notin N
  BY <1>4, <1>15 DEF Labelled, IsData
<1>18. \A f : f = KPT \/ (\E r \in spaces : f \in T[r]) => n[f] = mem[f]
  <2> SUFFICES ASSUME NEW f, f = KPT \/ (\E r \in spaces : f \in T[r]) PROVE n[f] = mem[f]
    OBVIOUS
  <2>1. f \in Frames /\ f \notin N
    BY <1>4, <1>16, PageFacts, KptFrame DEF Labelled
  <2> QED
    BY <1>2, <1>9, <1>12, <2>1
<1>19. \A f \in N : \A i \in IDX : g[f] = 1 =>
            IsData(aw, spaces, T, Ptr(n, f, i)) /\ Ptr(n, f, i) \notin N
  BY <1>15
<1>20. PICK U, k, l : Labelled(n, aw, spaces \cup {p}, U, k, l)
  <2>1. NewSpace(mem, avail, spaces, T, h, n, aw, N, g, N, p)
    BY <1>11, <1>15, <1>16, <1>17, <1>18, <1>19 DEF NewSpace
  <2> QED
    BY <1>4, <2>1, AddSpace
<1>21. Labelled(mem', avail', spaces', U, k, l)
  BY <1>2, <1>9, <1>13, <1>14, <1>20
<1>22. InHand(d, U, k)'
  BY <1>3 DEF InHand
<1> QED
  BY <1>2, <1>3, <1>5, <1>21, <1>22 DEF SpaceInv

LEMMA NextSpaces ==
  ASSUME NEW d, ACTORS = {d}, Roomy, DevicesApart, PageInv, SpaceInv, [Next]_vars, avail' # {}
  PROVE  SpaceInv'
<1>1. CASE Call(d)
  BY <1>1, CallSpaces, CopyPagesSpaces, PageInitApSpaces DEF Call
<1>2. CASE Step(d)
  BY <1>2, WalkSpaces, CreateSpaces, FillSpaces, LastSpaces DEF Step
<1>3. CASE \E r \in spaces : SwitchSpace(r)
  <2>1. PICK r \in spaces : SwitchSpace(r)
    BY <1>3
  <2>2. cr3' \in spaces' /\ UNCHANGED <<mem, avail, spaces, walkVars>>
    BY <2>1 DEF SwitchSpace
  <2>3. \A c, T, h : InHand(c, T, h) => InHand(c, T, h)'
    BY <2>2 DEF InHand, walkVars
  <2> QED
    BY <2>2, <2>3 DEF SpaceInv
<1>4. CASE Processor \/ UNCHANGED vars
  <2>1. UNCHANGED <<mem, avail, spaces, cr3, walkVars>>
    BY <1>4, ProcessorOnly
  <2>2. \A c, T, h : InHand(c, T, h) => InHand(c, T, h)'
    BY <2>1 DEF InHand, walkVars
  <2> QED
    BY <2>1, <2>2 DEF SpaceInv
<1> QED
  BY <1>1, <1>2, <1>3, <1>4 DEF Next

\* The spaces stay apart as long as fork leaves a page free: copy_page does not
\* look whether alloc_phys_page found one.
LEMMA SpecSpaces ==
  ASSUME NEW CONSTANT d, ACTORS = {d}, Roomy, DevicesApart
  PROVE  Spec /\ [](avail # {}) => [](PageInv /\ SpaceInv)
<1>1. Init => SpaceInv
  BY InitSpaces
<1>2. PageInv /\ SpaceInv /\ (avail # {})' /\ [Next]_vars => SpaceInv'
  BY NextSpaces
<1>3. Spec => []PageInv
  BY SpecPage, PTL
<1> QED
  BY <1>1, <1>2, <1>3, PTL DEF Spec

(***************************************************************************)
(* The labels tell what hangs below a root.                                *)
(***************************************************************************)
PointedTo(m, S) == {m[f][i].frame : f \in S, i \in IDX} \ {0}

LevelsBelow(m, r, w) == [l \in 0 .. LEVELS |-> IF l = 0 THEN {r} ELSE PointedTo(m, w[l - 1])]

LEMMA LevelsBelowExists ==
  ASSUME NEW m \in Mem, NEW r \in Frames
  PROVE  \E w : w = LevelsBelow(m, r, w)
<1> DEFINE V == SUBSET Frames
           G == [S \in V |-> PointedTo(m, S)]
<1>1. {r} \in V /\ LEVELS \in Nat
  BY LevelFacts
<1>2. G \in [V -> V]
  <2>1. \A f \in Frames : \A i \in IDX : m[f][i].frame \in Frames
    BY DEF Mem, Entry
  <2>2. \A S \in V : PointedTo(m, S) \in V
    BY <2>1 DEF PointedTo
  <2> QED
    BY <2>2
<1>3. \A S \in V : G[S] = PointedTo(m, S)
  OBVIOUS
<1> HIDE DEF V, G
<1>4. Iterates(V, {r}, G, LEVELS)
  BY <1>1, <1>2, WalkExists
<1>5. PICK w \in [0 .. LEVELS -> V] : w[0] = {r} /\ \A k \in 1 .. LEVELS : w[k] = G[w[k - 1]]
  BY <1>4 DEF Iterates
<1>6. ASSUME NEW l \in 0 .. LEVELS PROVE w[l] = IF l = 0 THEN {r} ELSE PointedTo(m, w[l - 1])
  <2>1. CASE l = 0
    BY <1>5, <2>1
  <2>2. CASE l # 0
    <3>1. l \in 1 .. LEVELS /\ l - 1 \in 0 .. LEVELS
      BY <1>1, <2>2
    <3> QED
      BY <1>3, <1>5, <2>2, <3>1
  <2> QED
    BY <2>1, <2>2
<1>7. w = LevelsBelow(m, r, w)
  BY <1>5, <1>6 DEF LevelsBelow
<1> QED
  BY <1>7

LEMMA BelowIs ==
  ASSUME mem \in Mem, NEW r \in Frames
  PROVE  /\ Below(r)[0] = {r}
         /\ \A l \in 1 .. LEVELS : Below(r)[l] = PointedTo(mem, Below(r)[l - 1])
<1> DEFINE G(w) == LevelsBelow(mem, r, w)
<1>1. Below(r) = CHOOSE w : w = G(w)
  BY DEF Below, LevelsBelow, PointedTo
<1>2. \E w : w = G(w)
  BY LevelsBelowExists
<1> HIDE DEF G
<1>3. PICK w : w = Below(r)
  OBVIOUS
<1>4. w = G(w)
  BY <1>1, <1>2, <1>3, Zenon
<1>5. w = LevelsBelow(mem, r, w)
  BY <1>4 DEF G
<1>6. \A l \in 0 .. LEVELS : w[l] = IF l = 0 THEN {r} ELSE PointedTo(mem, w[l - 1])
  BY <1>5 DEF LevelsBelow
<1>7. 0 \in 0 .. LEVELS /\ \A l \in 1 .. LEVELS : l \in 0 .. LEVELS /\ l # 0
  BY LevelFacts
<1> QED
  BY <1>3, <1>6, <1>7

\* On level l the tables of the space of that height, and on the last one the
\* kernel's page table besides.
LEMMA BelowLabel ==
  ASSUME mem \in Mem, NEW av, NEW sp, NEW T, NEW h, NEW o, Labelled(mem, av, sp, T, h, o),
         NEW r \in sp, NEW l \in 0 .. (LEVELS - 1), NEW f \in Below(r)[l]
  PROVE  \/ f \in T[r] /\ h[f] = LEVELS - l
         \/ f = KPT /\ l = LEVELS - 1
<1> DEFINE N == T[r]
           Good(k) == \A g \in Below(r)[k] : \/ g \in N /\ h[g] = LEVELS - k
                                             \/ g = KPT /\ k = LEVELS - 1
           S == {k \in Nat : k <= LEVELS - 1 => Good(k)}
<1>1. Subtree(mem, N, h, o, r, LEVELS, 0) /\ N \subseteq Frames \ {0} /\ r \in Frames
  <2>1. Subtree(mem, N, h, o, r, LEVELS, 0) /\ N \subseteq Frames \ {0}
    BY PageFacts DEF Labelled
  <2> QED
    BY <2>1 DEF Subtree
<1>2. LEVELS \in Nat /\ LEVELS > 1
  BY LevelFacts
<1>3. Below(r)[0] = {r} /\ \A k \in 1 .. LEVELS : Below(r)[k] = PointedTo(mem, Below(r)[k - 1])
  BY <1>1, BelowIs
<1>4. 0 \in S
  BY <1>1, <1>2, <1>3 DEF Subtree
<1>5. ASSUME NEW k \in Nat, k \in S PROVE k + 1 \in S
  <2> SUFFICES ASSUME k + 1 <= LEVELS - 1, NEW g \in Below(r)[k + 1]
               PROVE  (g \in N /\ h[g] = LEVELS - (k + 1)) \/ (g = KPT /\ k + 1 = LEVELS - 1)
    OBVIOUS
  <2>1. k + 1 \in 1 .. LEVELS /\ (k + 1) - 1 = k /\ k # LEVELS - 1 /\ k <= LEVELS - 1
    BY <1>2
  <2>2. Below(r)[k + 1] = PointedTo(mem, Below(r)[k])
    BY <1>3, <2>1
  <2>3. PICK a \in Below(r)[k], i \in IDX : g = mem[a][i].frame /\ g # 0
    BY <2>2 DEF PointedTo
  <2>4. a \in N /\ h[a] = LEVELS - k /\ h[a] > 1
    BY <1>2, <1>5, <2>1
  <2>5. i >= 0
    BY KptFrame DEF IDX
  <2>6. Points(N, h, o, a, i, g)
    BY <1>1, <2>3, <2>4, <2>5 DEF Subtree, Ptr
  <2>7. (g \in N /\ h[g] = h[a] - 1) \/ (g = KPT /\ h[a] = 2)
    BY <2>3, <2>6 DEF Points
  <2> QED
    BY <1>2, <2>4, <2>7
<1> HIDE DEF S
<1>6. l \in S /\ l \in Nat /\ l <= LEVELS - 1
  BY <1>2, <1>4, <1>5, SetInduction
<1> QED
  BY <1>6 DEF S

\* Every space leads to the kernel's page table.
LEMMA KptBelow ==
  ASSUME mem \in Mem, NEW av, NEW sp, NEW T, NEW h, NEW o, Labelled(mem, av, sp, T, h, o),
         NEW r \in sp
  PROVE  KPT \in Below(r)[LEVELS - 1]
<1> DEFINE N == T[r]
           Good(k) == \E g \in Below(r)[k] : g \in N /\ g \in o /\ h[g] = LEVELS - k
           S == {k \in Nat : k <= LEVELS - 2 => Good(k)}
<1>1. Subtree(mem, N, h, o, r, LEVELS, 0) /\ N \subseteq Frames \ {0} /\ r \in Frames /\ r \in o
  <2>1. Subtree(mem, N, h, o, r, LEVELS, 0) /\ N \subseteq Frames \ {0} /\ r \in o
    BY PageFacts DEF Labelled
  <2> QED
    BY <2>1 DEF Subtree
<1>2. LEVELS \in Nat /\ LEVELS > 1
  BY LevelFacts
<1>3. Below(r)[0] = {r} /\ \A k \in 1 .. LEVELS : Below(r)[k] = PointedTo(mem, Below(r)[k - 1])
  BY <1>1, BelowIs
<1>4. 0 \in S
  BY <1>1, <1>2, <1>3 DEF Subtree
\* What a table on the way points to with its entry for the kernel.
<1>5. ASSUME NEW k \in Nat, k + 1 <= LEVELS - 1, NEW a \in Below(r)[k],
             a \in N, a \in o, h[a] = LEVELS - k
      PROVE  \E g \in Below(r)[k + 1] :
                IF h[a] = 2 THEN g = KPT ELSE g \in N /\ h[g] = h[a] - 1 /\ g \in o
  <2>1. k + 1 \in 1 .. LEVELS /\ (k + 1) - 1 = k /\ h[a] \in 2 .. LEVELS
    BY <1>2, <1>5
  <2>2. PICK i \in IDX : i = KernelIndex(h[a])
    BY <2>1, KernelIndexType
  <2>3. i >= 0 /\ h[a] > 1
    BY <2>1, KptFrame DEF IDX
  <2>4. PICK g : g = Ptr(mem, a, i)
    OBVIOUS
  <2>5. Points(N, h, o, a, i, g)
    BY <1>1, <1>5, <2>3, <2>4 DEF Subtree
  <2>6. IF h[a] = 2 THEN g = KPT ELSE g \in N /\ h[g] = h[a] - 1 /\ g \in o
    BY <1>5, <2>2, <2>5 DEF Points
  <2>7. g # 0
    BY <1>1, <2>6, KptFrame
  <2>8. Below(r)[k + 1] = PointedTo(mem, Below(r)[k])
    BY <1>3, <2>1
  <2>9. g \in Below(r)[k + 1]
    BY <1>5, <2>4, <2>7, <2>8 DEF PointedTo, Ptr
  <2> QED
    BY <2>6, <2>9
<1>6. ASSUME NEW k \in Nat, k \in S PROVE k + 1 \in S
  <2> SUFFICES ASSUME k + 1 <= LEVELS - 2 PROVE Good(k + 1)
    OBVIOUS
  <2>1. k <= LEVELS - 2 /\ k + 1 <= LEVELS - 1 /\ LEVELS - k # 2
    BY <1>2
  <2>2. PICK a \in Below(r)[k] : a \in N /\ a \in o /\ h[a] = LEVELS - k
    BY <1>6, <2>1
  <2>3. PICK g \in Below(r)[k + 1] : g \in N /\ h[g] = h[a] - 1 /\ g \in o
    BY <1>5, <2>1, <2>2
  <2>4. h[g] = LEVELS - (k + 1)
    BY <1>2, <2>2, <2>3
  <2> QED
    BY <2>3, <2>4
<1>7. \A k \in Nat : k \in S
  <2> HIDE DEF S
  <2> QED
    BY <1>4, <1>6, SetInduction
<1>8. LEVELS - 2 \in Nat /\ (LEVELS - 2) + 1 = LEVELS - 1 /\ LEVELS - (LEVELS - 2) = 2
  BY <1>2
<1>9. PICK a \in Below(r)[LEVELS - 2] : a \in N /\ a \in o /\ h[a] = 2
  BY <1>2, <1>7, <1>8
<1>10. PICK k \in Nat : k = LEVELS - 2
  BY <1>8
<1>11. \E g \in Below(r)[k + 1] : IF h[a] = 2 THEN g = KPT ELSE g \in N /\ h[g] = h[a] - 1 /\ g \in o
  BY <1>2, <1>5, <1>8, <1>9, <1>10
<1> QED
  BY <1>8, <1>9, <1>10, <1>11

LEMMA LabelsApart ==
  ASSUME mem \in Mem, NEW av, NEW T, NEW h, NEW o, Labelled(mem, av, spaces, T, h, o)
  PROVE  SpacesApart
<1>1. LEVELS \in Nat /\ LEVELS > 1 /\ LEVELS - 1 \in 0 .. (LEVELS - 1)
  BY LevelFacts
<1>2. /\ \A r \in spaces : Subtree(mem, T[r], h, o, r, LEVELS, 0) /\ KPT \notin T[r]
      /\ \A r, s \in spaces : r # s => T[r] \cap T[s] = {}
      /\ \A f : IsLeaf(spaces, T, h, f) => \A i \in IDX : IsData(av, spaces, T, Ptr(mem, f, i))
  BY DEF Labelled
<1>3. \A r \in spaces : \A l \in 0 .. (LEVELS - 1) : \A f \in Below(r)[l] :
         \/ f \in T[r] /\ h[f] = LEVELS - l
         \/ f = KPT /\ l = LEVELS - 1
  BY BelowLabel
<1>4. \A r \in spaces : Tables(r) \subseteq T[r] \cup {KPT}
  BY <1>3 DEF Tables
<1>5. \A r \in spaces : KPT \in Tables(r)
  <2>1. \A r \in spaces : KPT \in Below(r)[LEVELS - 1]
    BY KptBelow
  <2> QED
    BY <1>1, <2>1 DEF Tables
<1>6. \A r, s \in spaces : r # s => Tables(r) \cap Tables(s) = {KPT}
  BY <1>2, <1>4, <1>5
<1>7. ASSUME NEW r \in spaces, NEW l \in 0 .. (LEVELS - 1), NEW k \in 0 .. (LEVELS - 1), l # k
      PROVE  Below(r)[l] \cap Below(r)[k] = {}
  <2> SUFFICES ASSUME NEW f \in Below(r)[l], f \in Below(r)[k] PROVE FALSE
    OBVIOUS
  <2>1. /\ (f \in T[r] /\ h[f] = LEVELS - l) \/ (f = KPT /\ l = LEVELS - 1)
        /\ (f \in T[r] /\ h[f] = LEVELS - k) \/ (f = KPT /\ k = LEVELS - 1)
    BY <1>3
  <2> QED
    BY <1>1, <1>2, <1>7, <2>1
<1>8. ASSUME NEW r \in spaces, NEW f \in Tables(r), NEW i \in IDX, Ptr(mem, f, i) \in Tables(r)
      PROVE  f \in T[r] /\ h[f] > 1 /\ Points(T[r], h, o, f, i, Ptr(mem, f, i))
  <2>1. ~IsLeaf(spaces, T, h, f)
    BY <1>2, <1>4, <1>8 DEF IsData
  <2>2. f \in T[r] /\ h[f] # 1
    BY <1>4, <2>1 DEF IsLeaf
  <2>3. h[f] \in 1 .. LEVELS
    BY <1>2, <2>2 DEF Subtree
  <2>4. h[f] > 1 /\ i >= 0
    BY <2>2, <2>3, KptFrame DEF IDX
  <2> QED
    BY <1>2, <2>2, <2>4 DEF Subtree
<1>9. ASSUME NEW r \in spaces, NEW f \in Tables(r), NEW g \in Tables(r), NEW i \in IDX, NEW j \in IDX,
             Ptr(mem, f, i) \in Tables(r), Ptr(mem, f, i) = Ptr(mem, g, j)
      PROVE  f = g /\ i = j
  <2>1. f \in T[r] /\ h[f] > 1 /\ Points(T[r], h, o, f, i, Ptr(mem, f, i))
    BY <1>8, <1>9
  <2>2. g \in T[r] /\ h[g] > 1 /\ Points(T[r], h, o, g, j, Ptr(mem, g, j))
    BY <1>8, <1>9
  <2>3. CASE Ptr(mem, f, i) \in T[r]
    <3>1. i >= 0 /\ j >= 0
      BY KptFrame DEF IDX
    <3> QED
      BY <1>2, <1>9, <2>1, <2>2, <2>3, <3>1 DEF Subtree
  <2>4. CASE Ptr(mem, f, i) \notin T[r]
    <3>1. Ptr(mem, f, i) = KPT /\ Ptr(mem, g, j) = KPT
      BY <1>4, <1>9, <2>4
    <3>2. f \in o /\ i = KernelIndex(h[f]) /\ h[f] = 2
      BY <1>2, <2>1, <3>1, KptFrame DEF Points
    <3>3. g \in o /\ j = KernelIndex(h[g]) /\ h[g] = 2
      BY <1>2, <2>2, <3>1, KptFrame DEF Points
    <3>4. f = g
      BY <1>2, <2>1, <2>2, <3>2, <3>3 DEF Subtree
    <3> QED
      BY <3>2, <3>3, <3>4
  <2> QED
    BY <2>3, <2>4
<1> QED
  BY <1>6, <1>7, <1>9 DEF SpacesApart, Ptr

\* Address spaces share the kernel's page table and nothing else, and below a
\* root every table has one place, for any depth and width of the tables and
\* any history of calls, forks and CPUs that came up, as long as one physical
\* page stays free: copy_page does not see that alloc_phys_page found none.
THEOREM PageSpacesApart ==
  ASSUME NEW CONSTANT d, ACTORS = {d}, Roomy, DevicesApart
  PROVE  Spec /\ [](avail # {}) => []SpacesApart
<1>1. PageInv /\ SpaceInv => SpacesApart
  BY LabelsApart DEF PageInv, TreeInv, SpaceInv
<1> QED
  BY <1>1, SpecSpaces, PTL

(***************************************************************************)
(* The page-fault handler mounts in the first space, whatever space the    *)
(* CPU uses.  Below the kernel's page table that is the same.              *)
(***************************************************************************)
NearHeap == \A a \in FAULTS : OnPath(a, LEVELS - 1)

\* From every root the way of such an address leads to the kernel's page table.
LEMMA PathLookup ==
  ASSUME mem \in Mem, NEW av, NEW sp, NEW T, NEW h, NEW o, Labelled(mem, av, sp, T, h, o),
         NEW r \in sp, NEW a \in Addr, OnPath(a, LEVELS - 1)
  PROVE  Lookup(r, a) = mem[KPT][a[LEVELS]]
<1> DEFINE N == T[r]
           G(w) == DownFrom(mem, r, a, w)
<1>1. Subtree(mem, N, h, o, r, LEVELS, 0) /\ N \subseteq Frames \ {0} /\ r \in Frames /\ r \in o
      /\ r \in N /\ h[r] = LEVELS
  <2>1. Subtree(mem, N, h, o, r, LEVELS, 0) /\ N \subseteq Frames \ {0} /\ r \in o
    BY PageFacts DEF Labelled
  <2> QED
    BY <2>1 DEF Subtree
<1>2. LEVELS \in Nat /\ LEVELS > 1 /\ 1 \in Levels /\ LEVELS \in Levels
  BY LevelFacts
<1>3. PICK w : w = CHOOSE v : v = G(v)
  OBVIOUS
<1>4. Lookup(r, a) = w[LEVELS]
  BY <1>3 DEF Lookup, DownFrom
<1>5. w = G(w)
  <2>1. \E v : v = G(v)
    BY <1>1, DownFromExists, SMTT(30)
  <2> HIDE DEF G
  <2> QED
    BY <1>3, <2>1, Zenon
<1>6. /\ w[1] = mem[r][a[1]]
      /\ \A l \in Levels : l # 1 =>
            w[l] = IF w[l - 1] = Zero THEN Zero ELSE mem[w[l - 1].frame][a[l]]
  BY <1>2, <1>5 DEF DownFrom
\* What the table on the way points to.
<1>7. ASSUME NEW l \in Levels, l < LEVELS, NEW f \in N, f \in o, h[f] = LEVELS - l + 1
      PROVE  /\ Ptr(mem, f, a[l]) # 0
             /\ IF l = LEVELS - 1 THEN Ptr(mem, f, a[l]) = KPT
                ELSE /\ Ptr(mem, f, a[l]) \in N /\ Ptr(mem, f, a[l]) \in o
                     /\ h[Ptr(mem, f, a[l])] = LEVELS - l
  <2>1. l \in Nat /\ l >= 1 /\ h[f] > 1 /\ LEVELS - h[f] + 1 = l /\ (h[f] = 2 <=> l = LEVELS - 1)
        /\ l \in 1 .. (LEVELS - 1) /\ h[f] - 1 = LEVELS - l
    BY <1>2, <1>7 DEF Levels
  <2>2. a[l] = KernelIndex(h[f]) /\ a[l] \in IDX
    BY <2>1 DEF OnPath, KernelIndex, Addr
  <2>3. a[l] >= 0
    BY <2>2, KptFrame DEF IDX
  <2>4. PICK g : g = Ptr(mem, f, a[l])
    OBVIOUS
  <2>5. Points(N, h, o, f, a[l], g)
    BY <1>1, <1>7, <2>1, <2>2, <2>3, <2>4 DEF Subtree
  <2>6. IF h[f] = 2 THEN g = KPT ELSE g \in N /\ h[g] = h[f] - 1 /\ g \in o
    BY <1>7, <2>2, <2>5 DEF Points
  <2>7. g # 0
    BY <1>1, <2>6, KptFrame
  <2> QED
    BY <2>1, <2>4, <2>6, <2>7
<1> DEFINE Good(l) == /\ w[l].frame # 0
                      /\ IF l = LEVELS - 1 THEN w[l].frame = KPT
                         ELSE w[l].frame \in N /\ w[l].frame \in o /\ h[w[l].frame] = LEVELS - l
           S == {l \in Levels : l < LEVELS => Good(l)}
<1>8. 1 \in S
  <2>1. LEVELS - 1 + 1 = LEVELS
    BY <1>2
  <2> QED
    BY <1>1, <1>2, <1>6, <1>7, <2>1 DEF Ptr
<1>9. ASSUME NEW l \in Levels, l \in S, l + 1 \in Levels PROVE l + 1 \in S
  <2> SUFFICES ASSUME l + 1 < LEVELS PROVE Good(l + 1)
    BY <1>9
  <2>1. l \in Nat /\ l < LEVELS /\ l # LEVELS - 1 /\ l + 1 # 1 /\ (l + 1) - 1 = l
        /\ LEVELS - (l + 1) + 1 = LEVELS - l
    BY <1>2, <1>9, LevelFacts
  <2>2. PICK f : f = w[l].frame
    OBVIOUS
  <2>3. f \in N /\ f \in o /\ h[f] = LEVELS - (l + 1) + 1 /\ f # 0
    BY <1>9, <2>1, <2>2
  <2>4. w[l] # Zero
    BY <2>2, <2>3, ZeroType
  <2>5. w[l + 1] = mem[f][a[l + 1]]
    BY <1>6, <1>9, <2>1, <2>2, <2>4
  <2>6. w[l + 1].frame = Ptr(mem, f, a[l + 1])
    BY <2>5 DEF Ptr
  <2>7. PICK k \in Levels : k = l + 1
    BY <1>9
  <2>8. k < LEVELS /\ h[f] = LEVELS - k + 1
    BY <2>3, <2>7
  <2>9. Good(k)
    BY <1>7, <2>3, <2>6, <2>7, <2>8
  <2> QED
    BY <2>7, <2>9
<1>10. Levels \subseteq S
  <2> HIDE DEF S
  <2> QED
    BY <1>8, <1>9, LevelInduction
<1>11. LEVELS # 1 /\ LEVELS - 1 \in Levels /\ LEVELS - 1 < LEVELS
  BY <1>2 DEF Levels
<1>12. w[LEVELS - 1].frame = KPT
  BY <1>10, <1>11
<1>13. w[LEVELS - 1] # Zero
  BY <1>12, KptFrame, ZeroType
<1> QED
  BY <1>2, <1>4, <1>6, <1>11, <1>12, <1>13

\* The handler is at work on a page of the heap.
FaultInv == \A c \in ACTORS : op[c] = "fault" /\ pc[c] # "idle" => addr[c] \in FAULTS

LEMMA NextFault ==
  ASSUME NEW d, ACTORS = {d}, PageInv, FaultInv, [Next]_vars
  PROVE  FaultInv'
<1>1. WalkTypes
  BY DEF PageInv
<1>2. ASSUME NEW o, NEW a, NEW e, Begin(d, o, a, e), o = "fault" => a \in FAULTS
      PROVE  FaultInv'
  BY <1>1, <1>2 DEF Begin, FaultInv, WalkTypes
<1>3. CASE Call(d)
  <2>1. CASE \E f \in DEVICES, a \in KERNEL : MountPage(d, f, a)
    BY <1>2, <2>1 DEF MountPage
  <2>2. ASSUME NEW a, NEW u, AllocPages(d, a, u) PROVE FaultInv'
    BY <1>2, <2>2 DEF AllocPages
  <2>3. CASE \E a \in KERNEL : UmountPage(d, a)
    BY <1>2, <2>3 DEF UmountPage
  <2>4. CASE \E a \in FAULTS, b \in KERNEL : RemapPages(d, a, b)
    BY <1>2, <2>4 DEF RemapPages
  <2>5. CASE \E a \in FAULTS : PageFault(d, a)
    BY <1>2, <2>5 DEF PageFault
  <2>6. CASE CopyPages(d) \/ PageInitAp(d)
    <3>1. UNCHANGED walkVars
      BY <2>6 DEF CopyPages, PageInitAp
    <3> QED
      BY <3>1 DEF walkVars, FaultInv
  <2> QED
    BY <1>3, <2>1, <2>2, <2>3, <2>4, <2>5, <2>6 DEF Call
<1>4. CASE Step(d)
  <2>1. CASE Open(d) \/ Follow(d) \/ Create(d) \/ Fill(d) \/ Last(d) \/ Close(d)
    <3>1. pc[d] # "idle" /\ UNCHANGED <<op, addr>>
      BY <2>1 DEF Open, Follow, Create, Fill, Last, Close, At
    <3> QED
      BY <3>1 DEF FaultInv
  <2>2. CASE Return(d)
    <3>1. CASE op[d] = "remap"
      BY <1>2, <2>2, <3>1 DEF Return
    <3>2. CASE op[d] # "remap"
      BY <1>1, <2>2, <3>2 DEF Return, FaultInv, WalkTypes
    <3> QED
      BY <3>1, <3>2
  <2> QED
    BY <1>4, <2>1, <2>2 DEF Step
<1>5. CASE \E r \in spaces : SwitchSpace(r)
  BY <1>5 DEF SwitchSpace, walkVars, FaultInv
<1>6. CASE Processor \/ UNCHANGED vars
  BY <1>6, ProcessorOnly DEF walkVars, FaultInv
<1> QED
  BY <1>3, <1>4, <1>5, <1>6 DEF Next

\* When the page-fault handler returns, the access to the heap can go on under
\* the root in use, though the handler enters the page in the first space: this
\* is so for the pages of the heap below the kernel's page table, which all spaces
\* share; the run fault_after_fork shows what becomes of the others.
THEOREM PageFaultResolved ==
  ASSUME NEW CONSTANT d, ACTORS = {d}, Roomy, DevicesApart, NearHeap
  PROVE  Spec /\ [](avail # {}) => FaultResolved
<1>1. Init => FaultInv
  BY DEF Init, FaultInv
<1>2. PageInv /\ FaultInv /\ [Next]_vars => FaultInv'
  BY NextFault
<1>3. PageInv /\ SpaceInv /\ FaultInv /\ [Next]_vars =>
        [\A c \in ACTORS : (op[c] = "fault" /\ pc[c] # "idle" /\ pc'[c] = "idle")
             => Lookup(cr3, addr[c]).exists = 1]_vars
  <2> SUFFICES ASSUME PageInv, SpaceInv, FaultInv, [Next]_vars, op[d] = "fault",
                      pc[d] # "idle", pc'[d] = "idle"
               PROVE  Lookup(cr3, addr[d]).exists = 1
    OBVIOUS
  <2>1. Walking(d) /\ addr[d] \in Addr /\ mem \in Mem /\ addr[d] \in FAULTS
    BY DEF PageInv, WalkTypes, TreeInv, FaultInv
  <2>2. pc[d] = "close" /\ level[d] = LEVELS
    BY ReturnsAtEnd
  <2>3. Walk(mem, addr[d])[LEVELS] = pte[d] /\ pte[d].exists = 1
    BY <2>1, <2>2 DEF Walking, Mounting
  <2>4. PICK T, h, o : Labelled(mem, avail, spaces, T, h, o)
    BY DEF SpaceInv
  <2>5. \A r \in spaces : Lookup(r, addr[d]) = mem[KPT][addr[d][LEVELS]]
    BY <2>1, <2>4, PathLookup DEF NearHeap
  <2>6. Lookup(cr3, addr[d]) = Lookup(PML4, addr[d])
    BY <2>5 DEF SpaceInv
  <2> QED
    BY <2>1, <2>3, <2>6, LookupIs
<1> QED
  BY <1>1, <1>2, <1>3, SpecSpaces, PTL DEF Spec, FaultResolved
=============================================================================
