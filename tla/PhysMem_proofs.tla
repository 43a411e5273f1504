--------------------------- MODULE PhysMem_proofs ---------------------------
(***************************************************************************)
(* Proofs about PhysMem.  KernelReserved holds for any number of actors    *)
(* and with free_phys_page in use: it needs only that every write to the   *)
(* bitmap stays inside a word phys_init opened (ReserveInv).  The          *)
(* exclusive use of pages holds while the history is serial: the half read *)
(* by the search is then still what the map holds when it is written back  *)
(* (SerialInv).                                                            *)
(***************************************************************************)
EXTENDS PhysMem, TLAPS

ReserveInv ==
    /\ TypeOK
    /\ \A p \in Pages : p[1] \notin OpenWords => p \in busy
    /\ \A c \in ACTORS : pc[c] \in {"pick", "mark"} =>
          word[c] \in OpenWords /\ FIRST <= word[c]
    /\ \A h \in held : h[2][1] \in OpenWords /\ FIRST <= h[2][1]

\* phys_init opens no word that holds the kernel.
LEMMA OpenWordsApart == \A i \in OpenWords : i \notin KernelWords
  <1> SUFFICES ASSUME NEW i \in OpenWords, i \in KernelWords PROVE FALSE
    OBVIOUS
  <1>1. PICK e \in MMAP : e.type = 1 /\ FirstWord(e) <= i /\ i < EndWord(e)
    BY DEF OpenWords
  <1>2. i \in Int /\ FIRST <= i /\ i <= KernelTop
    BY DEF KernelWords, Words
  <1>3. FIRST \in Int /\ KernelTop \in Int /\ EndWord(e) \in Int
    <2>1. HALF \in Nat \ {0} /\ FIRST \in Nat /\ KLAST \in Nat
          /\ e.base \in Nat /\ e.length \in Nat
      BY PhysAssumption DEF PhysAssumption
    <2>2. WORD \in Nat \ {0}
      BY <2>1 DEF WORD
    <2>3. KernelTop \in Int
      BY <2>1, <2>2 DEF KernelTop
    <2>4. Base(e) \in Int
      BY <2>1, <2>2, <2>3 DEF Base
    <2>5. EndWord(e) \in Int
      BY <2>1, <2>2, <2>4 DEF EndWord
    <2> QED BY <2>1, <2>3, <2>5
  <1>4. CASE e.base = MB
    <2>1. FirstWord(e) = KernelTop + 1
      BY <1>4 DEF FirstWord
    <2> QED BY <2>1, <1>1, <1>2, <1>3
  <1>5. CASE e.base # MB
    <2>1. EndWord(e) <= FIRST \/ FirstWord(e) > KernelTop
      BY <1>1, <1>5, PhysAssumption DEF PhysAssumption
    <2>2. FirstWord(e) \in Int
      BY <1>3, <1>5, PhysAssumption DEF PhysAssumption, FirstWord, WORD
    <2> QED BY <2>1, <2>2, <1>1, <1>2, <1>3
  <1> QED BY <1>4, <1>5

\* A word with a clear bit was opened by phys_init.
LEMMA NotFullIsOpen ==
    ASSUME ReserveInv, NEW i \in Words, ~WordFull(i)
    PROVE  i \in OpenWords
  <1>1. PICK k \in Halves, j \in Bits : <<i, k, j>> \notin busy
    BY DEF WordFull, SetBits
  <1>2. <<i, k, j>> \in Pages /\ <<i, k, j>>[1] = i
    BY DEF Pages
  <1> QED BY <1>1, <1>2 DEF ReserveInv

\* The initial values of the locals are of their types.
LEMMA Zeros == 0 \in Words /\ 0 \in Halves /\ 0 \in Bits
  <1>1. HALF \in Nat /\ HALF > 0 /\ FIRST \in Nat /\ FIRST > 0 /\ UPPER \in Nat
    BY PhysAssumption DEF PhysAssumption
  <1>2. MB \in Nat /\ MB > 0
    BY <1>1, SMTT(30) DEF MB, WORD
  <1>3. UPPER \div MB \in Nat
    BY <1>1, <1>2, SMTT(30)
  <1>4. PHYS_SIZE \in Nat /\ PHYS_SIZE > 0
    BY <1>1, <1>3, SMTT(30) DEF PHYS_SIZE
  <1> QED BY <1>1, <1>4 DEF Words, Halves, Bits

\* phys_init leaves the closed words busy.
LEMMA InitReserve == Init => ReserveInv
  <1> SUFFICES ASSUME Init PROVE ReserveInv
    OBVIOUS
  <1>1. TypeOK
    BY Zeros DEF Init, TypeOK
  <1> QED BY <1>1 DEF Init, ReserveInv

\* Every write to the bitmap, stale or too wide, stays inside an open word.
LEMMA NextReserve == ReserveInv /\ [Next]_vars => ReserveInv'
  <1> SUFFICES ASSUME ReserveInv, [Next]_vars PROVE ReserveInv'
    OBVIOUS
  <1>0. TypeOK
    BY DEF ReserveInv
  <1>1. ASSUME NEW c \in ACTORS, NEW i \in Words, AllocScan(c, i)
        PROVE  ReserveInv'
    <2>1. i \in OpenWords /\ FIRST <= i
      BY <1>1, NotFullIsOpen DEF AllocScan
    <2>2. TypeOK'
      BY <1>0, <1>1 DEF AllocScan, TypeOK
    <2> QED BY <1>0, <1>1, <2>1, <2>2 DEF AllocScan, ReserveInv, TypeOK
  <1>2. ASSUME NEW c \in ACTORS, AllocNone(c) \/ AllocLate(c) \/ TakeNull(c)
        PROVE  ReserveInv'
    <2>1. TypeOK'
      <3>1. CASE AllocNone(c)
        BY <1>0, <3>1, Zeros DEF AllocNone, Return, TypeOK
      <3>2. CASE AllocLate(c)
        BY <1>0, <3>2, Zeros DEF AllocLate, Return, TypeOK
      <3>3. CASE TakeNull(c)
        BY <1>0, <3>3, Zeros DEF TakeNull, Return, TypeOK
      <3> QED BY <1>2, <3>1, <3>2, <3>3
    <2> QED BY <1>0, <1>2, <2>1
            DEF AllocNone, AllocLate, TakeNull, Return, ReserveInv, TypeOK
  <1>3. ASSUME NEW c \in ACTORS, NEW k \in Halves, NEW j \in Bits,
               AllocPick(c, k, j)
        PROVE  ReserveInv'
    <2>1. SetBits(word[c], k) \subseteq Bits
      BY DEF SetBits
    <2>2. TypeOK'
      BY <1>0, <1>3, <2>1 DEF AllocPick, TypeOK
    <2> QED BY <1>0, <1>3, <2>2 DEF AllocPick, ReserveInv, TypeOK
  <1>4. ASSUME NEW c \in ACTORS, AllocMark(c) PROVE ReserveInv'
    <2>1. word[c] \in OpenWords /\ FIRST <= word[c]
      BY <1>4 DEF AllocMark, ReserveInv
    <2>2. Target(c) \in Pages /\ Target(c)[1] = word[c]
      BY <1>0 DEF Target, TypeOK, Pages
    <2>3. busy' \subseteq Pages /\ held' = held \cup {<<c, Target(c)>>}
      BY <1>4 DEF AllocMark
    <2>4. TypeOK'
      BY <1>0, <1>4, <2>2, <2>3, Zeros DEF AllocMark, Return, TypeOK
    <2>5. \A p \in Pages : p[1] \notin OpenWords => p \in busy'
      BY <1>4, <2>1 DEF AllocMark, ReserveInv
    <2>6. \A d \in ACTORS : pc'[d] \in {"pick", "mark"} =>
             word'[d] \in OpenWords /\ FIRST <= word'[d]
      BY <1>0, <1>4 DEF AllocMark, Return, ReserveInv, TypeOK
    <2>7. ASSUME NEW h \in held'
          PROVE  h[2][1] \in OpenWords /\ FIRST <= h[2][1]
      <3>1. CASE h \in held
        BY <3>1 DEF ReserveInv
      <3>2. CASE h = <<c, Target(c)>>
        BY <3>2, <2>1, <2>2
      <3> QED BY <2>3, <2>7, <3>1, <3>2
    <2> QED BY <2>4, <2>5, <2>6, <2>7 DEF ReserveInv, OpenWords, Words
  <1>5. ASSUME NEW c \in ACTORS, NEW p \in Pages, Free(c, p) PROVE ReserveInv'
    <2>1. p[1] \in OpenWords
      <3>1. <<c, p>> \in held /\ <<c, p>>[2] = p
        BY <1>5 DEF Free
      <3> QED BY <3>1 DEF ReserveInv
    <2>2. \A q \in Cleared(p) : q[1] = p[1]
      BY DEF Cleared
    <2>3. busy' = busy \ Cleared(p) /\ held' \subseteq held
          /\ UNCHANGED <<pc, word, half, bit, itmp>> /\ serial' \in BOOLEAN
      BY <1>5 DEF Free
    <2>4. TypeOK'
      BY <1>0, <2>3 DEF TypeOK
    <2>5. \A q \in Pages : q[1] \notin OpenWords => q \in busy'
      BY <2>1, <2>2, <2>3 DEF ReserveInv
    <2> QED BY <2>3, <2>4, <2>5 DEF ReserveInv, OpenWords, Words
  <1>6. CASE UNCHANGED vars
    BY <1>0, <1>6 DEF vars, ReserveInv, TypeOK, OpenWords, Words
  <1> QED BY <1>1, <1>2, <1>3, <1>4, <1>5, <1>6 DEF Next, Alloc

\* The bitmap and the locals keep their types, races and frees included.
THEOREM PhysTypes == Spec => []TypeOK
  <1>1. ReserveInv => TypeOK
    BY DEF ReserveInv
  <1> QED BY <1>1, InitReserve, NextReserve, PTL DEF Spec

\* However many CPUs and tasks race in alloc_phys_page, and although
\* free_phys_page clears the wrong bits, no page of the kernel image, of the
\* bitmap or of the first megabyte is ever handed out.
THEOREM PhysKernelReserved == Spec => []KernelReserved
  <1>1. ReserveInv => KernelReserved
    BY OpenWordsApart DEF ReserveInv, KernelReserved
  <1> QED BY <1>1, InitReserve, NextReserve, PTL DEF Spec

-----------------------------------------------------------------------------
\* What holds while the history is serial: at most one call is under way, and
\* what it knows of its word is true.
Serial ==
    /\ \A c, d \in ACTORS : pc[c] # "idle" /\ pc[d] # "idle" => c = d
    /\ \A h \in held : h[2] \in busy
    /\ \A g, h \in held : g[2] = h[2] => g = h
    /\ \A c \in ACTORS : pc[c] = "pick" => ~WordFull(word[c])
    /\ \A c \in ACTORS : pc[c] = "mark" =>
          itmp[c] = SetBits(word[c], half[c]) /\ bit[c] \notin itmp[c]
    /\ \A c \in ACTORS : pc[c] = "null" =>
          \A p \in Pages : FIRST <= p[1] => p \in busy

SerialInv == serial => Serial

\* A word is full when all its pages are busy.
LEMMA FullWord ==
    ASSUME NEW i \in Words
    PROVE  WordFull(i) <=> \A p \in Pages : p[1] = i => p \in busy
  <1>1. ASSUME WordFull(i), NEW p \in Pages, p[1] = i PROVE p \in busy
    <2>1. p = <<p[1], p[2], p[3]>> /\ p[2] \in Halves /\ p[3] \in Bits
      BY DEF Pages
    <2> QED BY <1>1, <2>1 DEF WordFull, SetBits
  <1>2. ASSUME \A p \in Pages : p[1] = i => p \in busy PROVE WordFull(i)
    <2>1. \A k \in Halves, j \in Bits : <<i, k, j>> \in Pages /\ <<i, k, j>>[1] = i
      BY DEF Pages
    <2> QED BY <1>2, <2>1 DEF WordFull, SetBits
  <1> QED BY <1>1, <1>2

\* While calls do not overlap the search works on the map as it is.
LEMMA NextSerial == ReserveInv /\ SerialInv /\ [Next]_vars => SerialInv'
  <1> SUFFICES ASSUME ReserveInv, SerialInv, [Next]_vars, serial'
               PROVE  Serial'
    BY DEF SerialInv
  <1>0. TypeOK
    BY DEF ReserveInv
  <1>00. serial => Serial
    BY DEF SerialInv
  <1>1. ASSUME NEW c \in ACTORS, NEW i \in Words, AllocScan(c, i)
        PROVE  Serial'
    <2>0. Serial
      BY <1>00, <1>1, Zenon DEF AllocScan
    <2>1. /\ busy' = busy /\ held' = held
          /\ pc' = [pc EXCEPT ![c] = "pick"]
          /\ pc \in [ACTORS -> {"idle", "pick", "mark", "null"}]
          /\ word'[c] = i /\ ~WordFull(i)
      BY <1>0, <1>1 DEF AllocScan, TypeOK
    <2>2. \A d \in ACTORS : pc[d] = "idle"
      BY <1>1 DEF AllocScan, Quiet
    <2>3. pc'[c] = "pick" /\ \A d \in ACTORS : d # c => pc'[d] = "idle"
      BY <2>1, <2>2
    <2> QED BY <2>0, <2>1, <2>3 DEF Serial, WordFull, SetBits
  <1>2. ASSUME NEW c \in ACTORS, AllocNone(c) PROVE Serial'
    <2>0. Serial
      BY <1>00, <1>2, Zenon DEF AllocNone
    <2>1. /\ busy' = busy /\ held' = held
          /\ pc' = [pc EXCEPT ![c] = "null"]
          /\ pc \in [ACTORS -> {"idle", "pick", "mark", "null"}]
      BY <1>0, <1>2 DEF AllocNone, TypeOK
    <2>2. \A d \in ACTORS : pc[d] = "idle"
      BY <1>2 DEF AllocNone, Quiet
    <2>3. pc'[c] = "null" /\ \A d \in ACTORS : d # c => pc'[d] = "idle"
      BY <2>1, <2>2
    <2>4. \A p \in Pages : FIRST <= p[1] => p \in busy
      <3> SUFFICES ASSUME NEW p \in Pages, FIRST <= p[1] PROVE p \in busy
        OBVIOUS
      <3>1. p[1] \in Words
        BY DEF Pages
      <3> QED BY <3>1, <1>2, FullWord DEF AllocNone
    <2> QED BY <2>0, <2>1, <2>3, <2>4 DEF Serial
  <1>3. ASSUME NEW c \in ACTORS, NEW k \in Halves, NEW j \in Bits,
               AllocPick(c, k, j)
        PROVE  Serial'
    <2>0. Serial
      BY <1>00, <1>3, Zenon DEF AllocPick
    <2>1. /\ busy' = busy /\ held' = held
          /\ pc' = [pc EXCEPT ![c] = "mark"]
          /\ pc \in [ACTORS -> {"idle", "pick", "mark", "null"}]
          /\ pc[c] = "pick" /\ word'[c] = word[c] /\ half'[c] = k
          /\ bit'[c] = j /\ itmp'[c] = SetBits(word[c], k)
          /\ j \notin SetBits(word[c], k)
      BY <1>0, <1>3 DEF AllocPick, TypeOK
    <2>2. pc'[c] = "mark" /\ \A d \in ACTORS : d # c => pc'[d] = "idle"
      BY <2>0, <2>1 DEF Serial
    <2> QED BY <2>0, <2>1, <2>2 DEF Serial, SetBits
  <1>4. ASSUME NEW c \in ACTORS, AllocLate(c) PROVE FALSE
    BY <1>00, <1>4 DEF AllocLate, Serial
  <1>5. ASSUME NEW c \in ACTORS, AllocMark(c) PROVE Serial'
    <2>0. Serial
      BY <1>00, <1>5, Zenon DEF AllocMark
    <2>1. /\ held' = held \cup {<<c, Target(c)>>}
          /\ pc' = [pc EXCEPT ![c] = "idle"]
          /\ pc \in [ACTORS -> {"idle", "pick", "mark", "null"}]
          /\ pc[c] = "mark"
      BY <1>0, <1>5 DEF AllocMark, Return, TypeOK
    <2>2. /\ itmp[c] = SetBits(word[c], half[c]) /\ bit[c] \notin itmp[c]
          /\ \A d \in ACTORS : pc'[d] = "idle"
      BY <2>0, <2>1 DEF Serial
    <2>3. Target(c) \in Pages /\ Target(c) = <<word[c], half[c], bit[c]>>
          /\ bit[c] \in Bits
      BY <1>0 DEF Target, TypeOK, Pages
    <2>4. Target(c) \in busy'
      BY <1>5, <2>3 DEF AllocMark
    <2>5. Target(c) \notin busy
      BY <2>2, <2>3 DEF SetBits
    <2>6. ASSUME NEW p \in busy PROVE p \in busy'
      <3>1. p \in Pages /\ p = <<p[1], p[2], p[3]>> /\ p[3] \in Bits
        BY <1>0 DEF TypeOK, Pages
      <3>2. p[1] = word[c] /\ p[2] = half[c] => p[3] \in itmp[c]
        BY <3>1, <2>2 DEF SetBits
      <3> QED BY <3>1, <3>2, <1>5 DEF AllocMark
    <2>7. \A h \in held' : h[2] \in busy'
      BY <2>0, <2>1, <2>4, <2>6 DEF Serial
    <2>8. \A g, h \in held' : g[2] = h[2] => g = h
      BY <2>0, <2>1, <2>5 DEF Serial
    <2> QED BY <2>0, <2>2, <2>7, <2>8 DEF Serial
  <1>6. ASSUME NEW c \in ACTORS, TakeNull(c) PROVE Serial'
    <2>0. Serial
      BY <1>00, <1>6, Zenon DEF TakeNull
    <2>1. /\ busy' = busy /\ held' = held
          /\ pc' = [pc EXCEPT ![c] = "idle"]
          /\ pc \in [ACTORS -> {"idle", "pick", "mark", "null"}]
          /\ pc[c] = "null"
      BY <1>0, <1>6 DEF TakeNull, Return, TypeOK
    <2>2. \A d \in ACTORS : pc'[d] = "idle"
      BY <2>0, <2>1 DEF Serial
    <2> QED BY <2>0, <2>1, <2>2 DEF Serial
  <1>7. ASSUME NEW c \in ACTORS, NEW p \in Pages, Free(c, p) PROVE Serial'
    <2>0. Serial
      BY <1>00, <1>7, Zenon DEF Free
    <2>1. /\ busy' = busy \ {p} /\ held' = held \ {<<c, p>>}
          /\ pc' = pc /\ \A d \in ACTORS : pc[d] = "idle"
          /\ <<c, p>> \in held
      BY <1>7 DEF Free, Quiet
    <2>2. \A h \in held' : h[2] # p
      BY <2>0, <2>1 DEF Serial
    <2> QED BY <2>0, <2>1, <2>2 DEF Serial
  <1>8. CASE UNCHANGED vars
    BY <1>00, <1>8 DEF vars, Serial, WordFull, SetBits
  <1> QED BY <1>1, <1>2, <1>3, <1>4, <1>5, <1>6, <1>7, <1>8 DEF Next, Alloc

LEMMA SpecSerial == Spec => [](ReserveInv /\ SerialInv)
  <1>1. Init => ReserveInv /\ SerialInv
    BY InitReserve DEF Init, SerialInv, Serial
  <1>2. ReserveInv /\ SerialInv /\ [Next]_vars => (ReserveInv /\ SerialInv)'
    BY NextReserve, NextSerial
  <1> QED BY <1>1, <1>2, PTL DEF Spec

\* For any number of CPUs and tasks: until two calls overlap, or a page is freed
\* whose bit the mask of free_phys_page misses, every page handed out is marked
\* busy and has one user.
THEOREM PhysExclusive == Spec => []PagesExclusive
  <1>1. SerialInv => PagesExclusive
    BY DEF SerialInv, Serial, PagesExclusive
  <1> QED BY <1>1, SpecSerial, PTL

\* Under the same proviso alloc_phys_page gives up only when memory is full.
THEOREM PhysNullMeansFull == Spec => []NullMeansFull
  <1>1. SerialInv => NullMeansFull
    BY DEF SerialInv, Serial, NullMeansFull
  <1> QED BY <1>1, SpecSerial, PTL
=============================================================================
