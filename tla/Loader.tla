------------------------------- MODULE Loader -------------------------------
(***************************************************************************)
(* The ELF loader (src/elf/elf.c) as start_process and fs_test_main drive  *)
(* it: header checks, then for an executable the segments (stage 3) and    *)
(* the relocations (stage 2), for a relocatable file stages 1 and 2.  Its  *)
(* messages go to the console, one character standing for each.            *)
(*                                                                         *)
(* The program's memory is seen through the translation buffer of the      *)
(* processor: alloc_pages_user replaces a page that is already there and   *)
(* does not invalidate the old translation, which lasts until the          *)
(* processor drops it.  A cell is one long; HALF stands for 2^32.          *)
(***************************************************************************)
EXTENDS Console

CONSTANTS FILES,    \* what vfs_read may bring
          PAGE,     \* cells of a page
          PAGES,    \* bound: pages of the program's address space
          HALF, BUF,\* 2^32 and the address of the buffer
          UNDEF     \* what a function without a return statement may return

ELF_LOAD_ERR == -1
ELF_REL_ERR == -2
JUNK == -9          \* what a fresh page holds

\* The tables of a file are arrays of unsigned numbers.
IsArray(s) == Len(s) \in Nat /\ DOMAIN s = 1 .. Len(s)

ASSUME LoaderAssumption ==
    /\ PAGE \in Nat \ {0} /\ PAGES \in Nat
    /\ HALF \in Nat \ {0} /\ HALF % 2 = 0
    /\ \A f \in FILES :
         /\ f.type \in {"NONE", "REL", "EXEC", "DYN"}
         /\ IsArray(f.secs) /\ IsArray(f.segs)
         /\ \A i \in DOMAIN f.secs : IsArray(f.secs[i].rels)
         /\ \A i \in DOMAIN f.secs : \A k \in DOMAIN f.secs[i].rels :
              f.secs[i].rels[k].off \in Nat /\ f.secs[i].rels[k].addend \in Int
         /\ \A i \in DOMAIN f.segs : LET s == f.segs[i] IN
              /\ s.vaddr \in Nat /\ s.memsz \in Nat
              /\ IsArray(s.data) /\ Len(s.data) <= s.memsz
              /\ \A j \in DOMAIN s.data : s.data[j] \in Int

VARIABLES file, stage,
          seg, sec, rel,     \* loop counters of stages 3 and 2
          page_table, tlb,   \* frame of each page, 0 for none
          frames,            \* contents of the frames allocated so far
          body               \* contents of the buffer's sections

loaderVars == <<file, stage, seg, sec, rel, page_table, tlb, frames, body>>

LoaderInit ==
    /\ file \in FILES
    /\ stage = "found" /\ seg = 1 /\ sec = 1 /\ rel = 1
    /\ page_table = [p \in 0 .. (PAGES - 1) |-> 0]
    /\ tlb = page_table
    /\ frames = <<>>
    /\ body = file.body

Say(t) == Puts(t) /\ UNCHANGED IF_on
Silent == Quiet /\ UNCHANGED consoleVars
Message == <<CHOOSE ch \in CHARS : TRUE>>

GoOn(from, to) == stage = from /\ stage' = to

(***************************************************************************)
(* The header                                                              *)
(***************************************************************************)
\* elf64_check_magic and elf64_is_supported.
Supported(f) ==
    /\ f.magic = "ELF" /\ f.class = 64 /\ f.data = "LSB" /\ f.machine = "AMD64"
    /\ f.version = 1 /\ f.ident_version = 1
    /\ f.type \in {"EXEC", "REL"}

\* fs_test_main finds the file and reads it.
Read ==
    /\ GoOn("found", "check")
    /\ Say(Message \o <<NL>>)
    /\ UNCHANGED <<file, seg, sec, rel, page_table, tlb, frames, body>>

\* start_process and elf64_load_file, which checks once more.
CheckHeader ==
    /\ GoOn("check", IF ~Supported(file) THEN "refused"
                     ELSE IF file.type = "EXEC" THEN "segments" ELSE "stage1")
    /\ Say(Message)
    /\ UNCHANGED <<file, seg, sec, rel, page_table, tlb, frames, body>>

\* elf64_load_stage1 is empty and returns what is in the register.
Stage1(u) ==
    /\ GoOn("stage1", IF u = ELF_LOAD_ERR THEN "failed" ELSE "relocs")
    /\ Say(IF u = ELF_LOAD_ERR THEN Message ELSE <<>>)
    /\ UNCHANGED <<file, seg, sec, rel, page_table, tlb, frames, body>>

(***************************************************************************)
(* Memory                                                                  *)
(***************************************************************************)
PageOf(x) == x \div PAGE
Frame(p) == IF tlb[p] # 0 THEN tlb[p] ELSE page_table[p]
Mapped(x) == PageOf(x) \in DOMAIN page_table /\ Frame(PageOf(x)) # 0

\* Store f[x] at every address x of f's domain.
WriteAll(f) ==
    /\ frames' = [k \in DOMAIN frames |-> [o \in 0 .. (PAGE - 1) |->
          LET hit == {x \in DOMAIN f : Frame(PageOf(x)) = k /\ x % PAGE = o}
          IN IF hit = {} THEN frames[k][o] ELSE f[CHOOSE x \in hit : TRUE]]]
    /\ tlb' = [p \in DOMAIN tlb |->
          IF \E x \in DOMAIN f : PageOf(x) = p THEN Frame(p) ELSE tlb[p]]

\* The processor forgets a translation.
Evict(p) ==
    /\ tlb[p] # 0
    /\ tlb' = [tlb EXCEPT ![p] = 0]
    /\ UNCHANGED <<consoleVars, file, stage, seg, sec, rel, page_table, frames, body>>

(***************************************************************************)
(* Stage 3: the segments                                                   *)
(***************************************************************************)
Segment == file.segs[seg]
InSegment(s) == s.vaddr .. (s.vaddr + s.memsz - 1)

SkipSegment ==
    /\ stage = "segments" /\ seg <= Len(file.segs) /\ ~Segment.load
    /\ seg' = seg + 1
    /\ Silent
    /\ UNCHANGED <<file, stage, sec, rel, page_table, tlb, frames, body>>

\* Mutant: the part of the first page before the segment is not counted.
PagesNoTail(s) ==
    {PageOf(s.vaddr) + i : i \in {j \in 0 .. (PAGES - 1) : (j * PAGE) < s.memsz}}

\* The loop of alloc_pages_user over memsz + tail bytes from the page's start.
PagesOf(s) ==
    {PageOf(s.vaddr) + i : i \in {j \in 0 .. (PAGES - 1) : (j * PAGE) < s.memsz + (s.vaddr % PAGE)}}

AllocSegment ==
    /\ seg <= Len(file.segs) /\ Segment.load
    /\ GoOn("segments", "zero")
    /\ LET n == Len(frames)
           at == PagesOf(Segment)
           first == PageOf(Segment.vaddr)
       IN /\ page_table' = [p \in DOMAIN page_table |->
                               IF p \in at THEN n + 1 + (p - first) ELSE page_table[p]]
          /\ frames' = frames \o [i \in {p - first + 1 : p \in at} |->
                                     [o \in 0 .. (PAGE - 1) |-> JUNK]]
    /\ Silent
    /\ UNCHANGED <<file, seg, sec, rel, tlb, body>>

\* Mutant: nothing is cleared.
ZeroNothing ==
    /\ GoOn("zero", "copy")
    /\ Silent
    /\ UNCHANGED <<file, seg, sec, rel, page_table, tlb, frames, body>>

\* A store to a page that is not there ends in _page_fault's loop of hlt.
ZeroSegment ==
    /\ GoOn("zero", IF \A x \in InSegment(Segment) : Mapped(x) THEN "copy" ELSE "fault")
    /\ IF stage' = "copy" THEN WriteAll([x \in InSegment(Segment) |-> 0])
                          ELSE UNCHANGED <<tlb, frames>>
    /\ Silent
    /\ UNCHANGED <<file, seg, sec, rel, page_table, body>>

CopySegment ==
    /\ GoOn("copy", "segments")
    /\ WriteAll([x \in Segment.vaddr .. (Segment.vaddr + Len(Segment.data) - 1) |->
                    Segment.data[x - Segment.vaddr + 1]])
    /\ seg' = seg + 1
    /\ Silent
    /\ UNCHANGED <<file, sec, rel, page_table, body>>

SegmentsDone ==
    /\ seg > Len(file.segs)
    /\ GoOn("segments", "relocs")
    /\ Silent
    /\ UNCHANGED <<file, seg, sec, rel, page_table, tlb, frames, body>>

(***************************************************************************)
(* Stage 2: the relocations                                                *)
(***************************************************************************)
Section == file.secs[sec]
HasRels(s) == s.type \in {"REL", "RELA"}

\* A section that is no table of relocations is only reported.
NextSection ==
    /\ stage = "relocs" /\ sec <= Len(file.secs)
    /\ HasRels(Section) => rel > Len(Section.rels)
    /\ sec' = sec + 1
    /\ rel' = 1
    /\ Say(IF HasRels(Section) THEN <<>> ELSE Message)
    /\ UNCHANGED <<file, stage, seg, page_table, tlb, frames, body>>

\* An int in two's complement.
ToInt(x) == ((x + (HALF \div 2)) % HALF) - (HALF \div 2)

\* elf64_get_baseaddr: the first loadable segment.
Base(f) ==
    LET loads == {i \in DOMAIN f.segs : f.segs[i].load}
        s == f.segs[CHOOSE i \in loads : \A j \in loads : i <= j]
    IN IF f.type # "EXEC" \/ loads = {} THEN 0 ELSE ToInt(s.vaddr - (s.vaddr % PAGE))

\* What elf64_do_rela stores: old is the value at ref, S the symbol's.
Relocated(r, ref, old, S, A) ==
    CASE r.type = "64" -> S + A
      [] r.type = "PC32" -> old - (old % HALF) + ((S + A - ref) % HALF)
      [] r.type = "RELATIVE" -> Base(file) + A
      [] r.type = "IRELATIVE" -> r.ifunc  \* the function at A is called
      [] OTHER -> old

KnownTypes == {"NONE", "64", "PC32", "RELATIVE", "IRELATIVE"}

\* elf64_get_symval is empty too: u is the value of a symbol.
Relocate(u) ==
    LET r == Section.rels[rel]
        at == IF file.type = "REL" THEN file.secs[Section.info + 1].off + r.off ELSE r.off
        there == file.type = "REL" \/ Mapped(at)
        old == IF file.type = "REL" THEN body[at] ELSE frames[Frame(PageOf(at))][at % PAGE]
        A == IF Section.type = "REL" THEN old ELSE r.addend
        S == IF r.sym # 0 THEN u ELSE 0
        ref == IF file.type = "REL" THEN BUF + at ELSE at
        stops == IF Section.info >= Len(file.secs) THEN "fault"
                 ELSE IF ~there /\ Section.type = "REL" THEN "fault"
                 ELSE IF S = ELF_REL_ERR \/ r.type \notin KnownTypes THEN "failed"
                 ELSE IF ~there /\ r.type # "NONE" THEN "fault"
                 ELSE "relocs"
    IN /\ stage = "relocs" /\ sec <= Len(file.secs) /\ HasRels(Section)
       /\ rel <= Len(Section.rels)
       /\ stage' = stops
       /\ rel' = rel + 1
       /\ Say(IF stops = "relocs" THEN <<>> ELSE Message)
       /\ IF stops # "relocs" \/ r.type = "NONE"
          THEN UNCHANGED <<body, tlb, frames>>
          ELSE IF file.type = "REL"
          THEN /\ body' = [body EXCEPT ![at] = Relocated(r, ref, old, S, A)]
               /\ UNCHANGED <<tlb, frames>>
          ELSE /\ WriteAll([x \in {at} |-> Relocated(r, ref, old, S, A)])
               /\ UNCHANGED body
       /\ UNCHANGED <<file, seg, sec, page_table>>

\* Mutant: the entry point is not looked at.
RelocsDoneAny ==
    /\ sec > Len(file.secs)
    /\ GoOn("relocs", "loaded")
    /\ Silent
    /\ UNCHANGED <<file, seg, sec, rel, page_table, tlb, frames, body>>

\* The loader returns e_entry, and start_process goes on unless it is NULL.
RelocsDone ==
    /\ sec > Len(file.secs)
    /\ GoOn("relocs", IF file.entry = 0 THEN "failed" ELSE "loaded")
    /\ Silent
    /\ UNCHANGED <<file, seg, sec, rel, page_table, tlb, frames, body>>

LoadStep == Read \/ CheckHeader \/ (\E u \in UNDEF : Stage1(u))
            \/ SkipSegment \/ AllocSegment \/ ZeroSegment \/ CopySegment \/ SegmentsDone
            \/ NextSection \/ (\E u \in UNDEF : Relocate(u)) \/ RelocsDone
=============================================================================
