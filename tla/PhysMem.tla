------------------------------ MODULE PhysMem ------------------------------
(***************************************************************************)
(* The physical page allocator of src/mm/phys.c: a bitmap with one bit per *)
(* page, read as 64-bit words by the scan of alloc_phys_page and as two    *)
(* 32-bit halves by the search inside a word.  A page is the triple        *)
(* <<word, half, bit>>; HALF plays 32.                                     *)
(*                                                                         *)
(* alloc_phys_page is called by the page-fault handler and by the paging   *)
(* code of every CPU and task without a lock, so its scan, its read of a   *)
(* half and its write of that half are separate steps of each actor.       *)
(***************************************************************************)
EXTENDS Integers, FiniteSets

CONSTANTS HALF,      \* bits of a half-word
          FIRST,     \* words of the bitmap that cover the first megabyte
          UPPER,     \* mem_upper: pages from 1 MB to the first hole
          KLAST,     \* *last after the bitmap: first page behind the kernel
          MMAP,      \* the multiboot map: set of [base, length, type], in pages
          ACTORS,    \* CPUs and tasks that allocate pages
          RELEASED   \* the pages their callers may give back

WORD == 2 * HALF
MB == FIRST * WORD

\* kernel.c passes (mem_upper >> 10) + 2 megabytes; the map has 4 words for each.
PHYS_SIZE == (UPPER \div MB + 2) * FIRST

Words == 0 .. (PHYS_SIZE - 1)
Halves == {0, 1}
Bits == 0 .. (HALF - 1)
Pages == Words \X Halves \X Bits

PageNo(p) == WORD * p[1] + HALF * p[2] + p[3]

(***************************************************************************)
(* phys_init                                                               *)
(***************************************************************************)
\* The last word that holds a page of the kernel or of the bitmap.
KernelTop == KLAST \div WORD

\* An entry that starts at 1 MB is moved behind the kernel; its length stays.
Base(e) == IF e.base = MB THEN (KernelTop + 1) * WORD ELSE e.base

\* Mutant: the word that still holds pages of the kernel is opened.
FirstWordTooLow(e) == IF e.base = MB THEN KernelTop ELSE e.base \div WORD

FirstWord(e) == IF e.base = MB THEN KernelTop + 1 ELSE e.base \div WORD
EndWord(e) == (Base(e) + e.length) \div WORD

\* The words whose pages phys_init declares free.
OpenWords == {i \in Words : \E e \in MMAP : /\ e.type = 1
                                            /\ FirstWord(e) <= i
                                            /\ i < EndWord(e)}

KernelWords == {i \in Words : FIRST <= i /\ i <= KernelTop}

\* The map a boot loader delivers: the kernel was loaded at 1 MB into an entry
\* that starts there, and no other available entry covers it.
ASSUME PhysAssumption ==
    /\ HALF \in Nat \ {0} /\ FIRST \in Nat \ {0}
    /\ UPPER \in Nat /\ KLAST \in Nat
    /\ \A e \in MMAP : e.base \in Nat /\ e.length \in Nat
    /\ \A e \in MMAP : e.type = 1 /\ e.base # MB =>
          EndWord(e) <= FIRST \/ FirstWord(e) > KernelTop

VARIABLES busy,      \* the pages whose bit is set
          held,      \* <<actor, page>>: pages handed out and not released
          pc,        \* where each actor is in alloc_phys_page
          word,      \* its locals: i,
          half,      \* k,
          bit,       \* j,
          itmp,      \* the half as it was read
          serial     \* history: no two calls overlapped so far, and every page
                     \* freed was one that free_phys_page finds

vars == <<busy, held, pc, word, half, bit, itmp, serial>>

Init ==
    /\ busy = {p \in Pages : p[1] \notin OpenWords}
    /\ held = {}
    /\ pc = [c \in ACTORS |-> "idle"]
    /\ word = [c \in ACTORS |-> 0]
    /\ half = [c \in ACTORS |-> 0]
    /\ bit = [c \in ACTORS |-> 0]
    /\ itmp = [c \in ACTORS |-> {}]
    /\ serial = TRUE

(***************************************************************************)
(* alloc_phys_page                                                         *)
(***************************************************************************)
SetBits(i, k) == {j \in Bits : <<i, k, j>> \in busy}

WordFull(i) == \A k \in Halves : SetBits(i, k) = Bits

\* No call is under way.
Quiet == \A c \in ACTORS : pc[c] = "idle"

\* The scan from the first megabyte stops at word i.
AllocScan(c, i) ==
    /\ pc[c] = "idle"
    /\ FIRST <= i
    /\ ~WordFull(i)
    /\ \A h \in Words : FIRST <= h /\ h < i => WordFull(h)
    /\ word' = [word EXCEPT ![c] = i]
    /\ pc' = [pc EXCEPT ![c] = "pick"]
    /\ serial' = (serial /\ Quiet)
    /\ UNCHANGED <<busy, held, half, bit, itmp>>

\* All memory is taken: the caller gets a null pointer.
AllocNone(c) ==
    /\ pc[c] = "idle"
    /\ \A h \in Words : FIRST <= h => WordFull(h)
    /\ pc' = [pc EXCEPT ![c] = "null"]
    /\ serial' = (serial /\ Quiet)
    /\ UNCHANGED <<busy, held, word, half, bit, itmp>>

\* The locals of a call end with it.
Return(c) ==
    /\ pc' = [pc EXCEPT ![c] = "idle"]
    /\ word' = [word EXCEPT ![c] = 0]
    /\ half' = [half EXCEPT ![c] = 0]
    /\ bit' = [bit EXCEPT ![c] = 0]
    /\ itmp' = [itmp EXCEPT ![c] = {}]

\* The lowest clear bit of the first half that has one.
AllocPick(c, k, j) ==
    /\ pc[c] = "pick"
    /\ k = 1 => SetBits(word[c], 0) = Bits
    /\ j \notin SetBits(word[c], k)
    /\ \A b \in Bits : b < j => b \in SetBits(word[c], k)
    /\ half' = [half EXCEPT ![c] = k]
    /\ bit' = [bit EXCEPT ![c] = j]
    /\ itmp' = [itmp EXCEPT ![c] = SetBits(word[c], k)]
    /\ pc' = [pc EXCEPT ![c] = "mark"]
    /\ UNCHANGED <<busy, held, word, serial>>

\* Mutant: the search inside the word gives up after the lower half.
AllocLateLow(c) ==
    /\ pc[c] = "pick"
    /\ SetBits(word[c], 0) = Bits
    /\ pc' = [pc EXCEPT ![c] = "null"]
    /\ UNCHANGED <<busy, held, word, half, bit, itmp, serial>>

\* The word filled up since the scan saw it.
AllocLate(c) ==
    /\ pc[c] = "pick"
    /\ WordFull(word[c])
    /\ pc' = [pc EXCEPT ![c] = "null"]
    /\ UNCHANGED <<busy, held, word, half, bit, itmp, serial>>

Target(c) == <<word[c], half[c], bit[c]>>

\* Mutant: the lower half is written whichever half was read.
AllocMarkLow(c) ==
    /\ pc[c] = "mark"
    /\ busy' = {p \in Pages : IF p[1] = word[c] /\ p[2] = 0
                              THEN p[3] \in itmp[c] \cup {bit[c]}
                              ELSE p \in busy}
    /\ held' = held \cup {<<c, Target(c)>>}
    /\ Return(c)
    /\ UNCHANGED serial

\* The half is written back as it was read, with one more bit.
AllocMark(c) ==
    /\ pc[c] = "mark"
    /\ busy' = {p \in Pages :
                  IF p[1] = word[c] /\ p[2] = half[c]
                  THEN p[3] \in itmp[c] \cup {bit[c]}
                  ELSE p \in busy}
    /\ held' = held \cup {<<c, Target(c)>>}
    /\ Return(c)
    /\ UNCHANGED serial

\* The caller takes note of the null pointer and may try again.
TakeNull(c) ==
    /\ pc[c] = "null"
    /\ Return(c)
    /\ UNCHANGED <<busy, held, serial>>

(***************************************************************************)
(* free_phys_page: the mask ~(1 << (page % 64)) is computed in a 32-bit    *)
(* int.  The shift count is taken modulo 32, and the mask is sign-extended *)
(* to the word: its upper half is all ones unless bit 31 was the one       *)
(* shifted to, when the upper half is all zeros.                           *)
(***************************************************************************)
Cleared(p) ==
    IF p[3] = HALF - 1
    THEN {q \in Pages : q[1] = p[1] /\ (q[2] = 1 \/ q[3] = HALF - 1)}
    ELSE {<<p[1], 0, p[3]>>}

Free(c, p) ==
    /\ pc[c] = "idle"
    /\ p \in RELEASED
    /\ <<c, p>> \in held
    /\ busy' = busy \ Cleared(p)
    /\ held' = held \ {<<c, p>>}
    /\ serial' = (serial /\ Quiet /\ Cleared(p) = {p})
    /\ UNCHANGED <<pc, word, half, bit, itmp>>

Alloc(c) ==
    \/ \E i \in Words : AllocScan(c, i)
    \/ AllocNone(c)
    \/ \E k \in Halves, j \in Bits : AllocPick(c, k, j)
    \/ AllocLate(c)
    \/ AllocMark(c)
    \/ TakeNull(c)

Next == \E c \in ACTORS : Alloc(c) \/ \E p \in Pages : Free(c, p)
Spec == Init /\ [][Next]_vars

(***************************************************************************)
(* Properties                                                              *)
(***************************************************************************)
\* The bitmap and the locals of alloc_phys_page keep their types.
TypeOK ==
    /\ busy \subseteq Pages
    /\ held \subseteq ACTORS \X Pages
    /\ pc \in [ACTORS -> {"idle", "pick", "mark", "null"}]
    /\ word \in [ACTORS -> Words]
    /\ half \in [ACTORS -> Halves]
    /\ bit \in [ACTORS -> Bits]
    /\ itmp \in [ACTORS -> SUBSET Bits]
    /\ serial \in BOOLEAN

\* A page in use is marked busy and has one user: the reason for the bitmap.
\* phys.c:17 "помечая в ней занятые области" (marking the busy areas in it).
\* alloc_phys_page takes no lock and the mask of free_phys_page is too narrow,
\* so the code promises it as long as calls do not overlap and the pages freed
\* are ones whose bit the mask reaches.
PagesExclusive ==
    serial =>
        /\ \A h \in held : h[2] \in busy
        /\ \A g, h \in held : g[2] = h[2] => g = h

\* The kernel image and the bitmap behind it, at 1 MB, are never given away:
\* neither stale writes of a half nor the wide mask of free_phys_page reach
\* the words phys_init kept closed.
KernelReserved ==
    \A h \in held : h[2][1] \notin KernelWords /\ FIRST <= h[2][1]

\* A null pointer means that no page above 1 MB is free, with the same proviso:
\* a call that others overtook may answer null although other words have room.
NullMeansFull ==
    serial =>
        \A c \in ACTORS : pc[c] = "null" =>
            \A p \in Pages : FIRST <= p[1] => p \in busy

\* phys.c:113-114 "Помечаем всю карту как занятую, за исключением явно
\* указанных в mmap свободных мест" (we mark the whole map busy except the free
\* places mmap names): a page the map leaves free lies in an available entry.
FreePagesAreRam ==
    \A p \in Pages \ busy : FIRST <= p[1] =>
        \E e \in MMAP : /\ e.type = 1
                        /\ e.base <= PageNo(p)
                        /\ PageNo(p) < e.base + e.length
=============================================================================
