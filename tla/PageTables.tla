----------------------------- MODULE PageTables -----------------------------
(***************************************************************************)
(* The page tables of src/mm/page.c and the heap part of the page-fault    *)
(* handler of src/mm/pagefault.h.                                          *)
(*                                                                         *)
(* Tables lie in physical memory and are reached through one window: entry *)
(* 0 of the kernel's page table, which mount_page_t points at a table and  *)
(* umount_page_t clears.  mount_page_do and umount_page are modelled at    *)
(* that grain, one level of the walk at a time.  LEVELS plays 4.           *)
(*                                                                         *)
(* A page-table entry keeps its physical page and the bits "exists" and    *)
(* "r3_access"; the cache bit by which mount_page_hw differs from          *)
(* mount_page is left out.  0 is the entry 0 and physical page 0.          *)
(*                                                                         *)
(* The processor keeps translations it has looked up.  mount_page_t and    *)
(* umount_page_t drop the one of the window (invlpg); mount_page_do and    *)
(* umount_page drop none, so the one of the page they change stays in use  *)
(* until CR3 is loaded or the processor drops it by itself.                *)
(***************************************************************************)
EXTENDS Integers, FiniteSets, Functions

CONSTANTS LEVELS,    \* depth of the tables
          WIDTH,     \* entries of a table
          FRAMES,    \* pages alloc_phys_page can hand out
          DEVICES,   \* pages drivers mount: frame buffer, APIC, MP tables
          KTABLES,   \* KTABLES[l]: the table of level l that page_init builds
          KPATH,     \* KPATH[l]: its entry that leads to level l + 1
          USER,      \* pages programs use
          KERNEL,    \* pages of the kernel outside the heap
          FAULTS,    \* pages of the kernel heap
          ACTORS,    \* tasks that call
          CACHED,    \* pages whose kept translations are followed
          RESERVE,   \* calls are made while so many physical pages are free
          FORKS      \* bound on the address spaces made

IDX == 0 .. (WIDTH - 1)
Levels == 1 .. LEVELS
Addr == [Levels -> IDX]
PML4 == KTABLES[1]
KPT == KTABLES[LEVELS]
Frames == {0} \cup FRAMES \cup DEVICES \cup Range(KTABLES)

ASSUME PageAssumption ==
    /\ LEVELS \in Nat /\ LEVELS > 1 /\ WIDTH \in Nat \ {0}
    /\ FRAMES \subseteq Nat \ {0} /\ DEVICES \subseteq Nat \ {0}
    /\ KTABLES \in [Levels -> Nat \ {0}] /\ IsInjective(KTABLES)
    /\ Range(KTABLES) \cap FRAMES = {}
    /\ KPATH \in [1 .. (LEVELS - 1) -> IDX]
    /\ USER \subseteq Addr /\ KERNEL \subseteq Addr /\ FAULTS \subseteq Addr
    /\ CACHED \subseteq Addr

Bit == {0, 1}
Entry == [frame : Frames, exists : Bit, user : Bit]
Zero == [frame |-> 0, exists |-> 0, user |-> 0]
Empty == [i \in IDX |-> Zero]

\* create_page, create_page_user and calc_page differ in these bits.
Page(f, u) == [frame |-> f, exists |-> 1, user |-> u]

VARIABLES mem,       \* mem[f]: the entries in page f, when it is a table
          avail,     \* the pages alloc_phys_page has not handed out
          window,    \* what the window shows, -1 when it is clear
          spaces,    \* the roots of the address spaces
          cr3,       \* the root in use
          tlb,       \* tlb[a]: the entry kept as the translation of a, or Zero
          replaced,  \* history: the pages a present entry of which was changed
                     \* since the processor last certainly had no translation
          pc,        \* per actor: the place in mount_page_do or umount_page
          op,        \* which of them, and for whom
          addr, pte, \* log_addr and ph
          level,     \* level of the walk
          table,     \* the table of that level: PML4 or the entry _p
          to         \* where remap_pages mounts the page

walkVars == <<pc, op, addr, pte, level, table, to>>
tlbVars == <<tlb, replaced>>
vars == <<mem, avail, window, spaces, cr3, tlbVars, walkVars>>

NoWindow == -1

(***************************************************************************)
(* page_init: one path to the page table of the kernel.                    *)
(***************************************************************************)
KernelMem ==
    [f \in Frames |->
        [i \in IDX |->
            IF \E l \in 1 .. (LEVELS - 1) : KTABLES[l] = f /\ KPATH[l] = i
            THEN Page(KTABLES[(CHOOSE l \in Levels : KTABLES[l] = f) + 1], 0)
            ELSE Zero]]

Init ==
    /\ mem = KernelMem
    /\ avail = FRAMES
    /\ window = NoWindow
    /\ spaces = {PML4}
    /\ cr3 = PML4
    /\ tlb = [a \in CACHED |-> Zero]
    /\ replaced = {}
    /\ pc = [c \in ACTORS |-> "idle"]
    /\ op = [c \in ACTORS |-> "none"]
    /\ addr = [c \in ACTORS |-> [l \in Levels |-> 0]]
    /\ pte = [c \in ACTORS |-> Zero]
    /\ level = [c \in ACTORS |-> 1]
    /\ table = [c \in ACTORS |-> PML4]
    /\ to = [c \in ACTORS |-> [l \in Levels |-> 0]]

\* alloc_phys_page: the lowest free page, 0 when there is none.
Lowest(s) == IF s = {} THEN 0 ELSE CHOOSE f \in s : \A g \in s : f <= g

At(c, place) == pc[c] = place
Ready(c) == At(c, "idle") /\ Cardinality(avail) >= RESERVE

(***************************************************************************)
(* The calls                                                               *)
(***************************************************************************)
Begin(c, o, a, e) ==
    /\ op' = [op EXCEPT ![c] = o]
    /\ addr' = [addr EXCEPT ![c] = a]
    /\ pte' = [pte EXCEPT ![c] = e]
    /\ level' = [level EXCEPT ![c] = 1]
    /\ table' = [table EXCEPT ![c] = PML4]
    /\ pc' = [pc EXCEPT ![c] = "open"]

\* mount_page and mount_page_hw.
MountPage(c, f, a) ==
    /\ Ready(c)
    /\ Begin(c, "mount", a, Page(f, 0))
    /\ UNCHANGED <<mem, avail, window, spaces, cr3, tlbVars, to>>

\* A turn of the loop of alloc_pages or alloc_pages_user.
AllocPages(c, a, u) ==
    /\ Ready(c)
    /\ avail' = avail \ {Lowest(avail)}
    /\ Begin(c, "mount", a, Page(Lowest(avail), u))
    /\ UNCHANGED <<mem, window, spaces, cr3, tlbVars, to>>

UmountPage(c, a) ==
    /\ Ready(c)
    /\ Begin(c, "umount", a, Zero)
    /\ UNCHANGED <<mem, avail, window, spaces, cr3, tlbVars, to>>

\* A turn of the loop of remap_pages: umount_page, then mount_page.
RemapPages(c, a, b) ==
    /\ Ready(c)
    /\ Begin(c, "remap", a, Zero)
    /\ to' = [to EXCEPT ![c] = b]
    /\ UNCHANGED <<mem, avail, window, spaces, cr3, tlbVars>>

\* The translation the processor finds for a under a root.
Lookup(root, a) ==
    LET walk[l \in Levels] ==
          IF l = 1 THEN mem[root][a[1]]
          ELSE IF walk[l - 1] = Zero THEN Zero
          ELSE mem[walk[l - 1].frame][a[l]]
    IN walk[LEVELS]

\* What the processor does with an access: a kept translation comes first.
Cached(a) == a \in CACHED /\ tlb[a] # Zero
Translated(a) == IF Cached(a) THEN tlb[a] ELSE Lookup(cr3, a)

\* _page_fault for an access to a page of the heap that is not there.
PageFault(c, a) ==
    /\ Ready(c)
    /\ Translated(a).exists = 0
    /\ avail' = avail \ {Lowest(avail)}
    /\ replaced' = replaced \ {a}
    /\ Begin(c, "fault", a, Page(Lowest(avail), 0))
    /\ UNCHANGED <<mem, window, spaces, cr3, tlb, to>>

(***************************************************************************)
(* mount_page_do and umount_page                                           *)
(***************************************************************************)
Mounting(c) == op[c] \in {"mount", "fault"}
Index(c) == addr[c][level[c]]

\* mount_page_t
Open(c) ==
    /\ At(c, "open")
    /\ window' = table[c]
    /\ pc' = [pc EXCEPT ![c] = "look"]
    /\ UNCHANGED <<mem, avail, spaces, cr3, tlbVars, op, addr, pte, level, table, to>>

\* An access while the window is clear is a fault below the heap, and the CPU
\* stops in _page_fault: Follow, Create, Fill and Last need the window.

\* An upper level: the entry is there, or umount_page will find it missing.
Follow(c) ==
    /\ At(c, "look")
    /\ window # NoWindow
    /\ level[c] < LEVELS
    /\ Mounting(c) => mem[window][Index(c)] # Zero
    /\ table' = [table EXCEPT ![c] = mem[window][Index(c)].frame]
    /\ pc' = [pc EXCEPT ![c] =
                IF mem[window][Index(c)] = Zero THEN "missing" ELSE "close"]
    /\ UNCHANGED <<mem, avail, window, spaces, cr3, tlbVars, op, addr, pte, level, to>>

\* Mutant: the page stays free in the map of physical memory.
CreateUnmarked(c) ==
    /\ At(c, "look")
    /\ window # NoWindow
    /\ level[c] < LEVELS
    /\ Mounting(c) /\ mem[window][Index(c)] = Zero
    /\ table' = [table EXCEPT ![c] = Lowest(avail)]
    /\ pc' = [pc EXCEPT ![c] = "fill"]
    /\ UNCHANGED <<mem, avail, window, spaces, cr3, tlbVars, op, addr, pte, level, to>>

\* An upper level that mount_page_do has to create; alloc_phys_page first.
Create(c) ==
    /\ At(c, "look")
    /\ window # NoWindow
    /\ level[c] < LEVELS
    /\ Mounting(c) /\ mem[window][Index(c)] = Zero
    /\ table' = [table EXCEPT ![c] = Lowest(avail)]
    /\ avail' = avail \ {Lowest(avail)}
    /\ pc' = [pc EXCEPT ![c] = "fill"]
    /\ UNCHANGED <<mem, window, spaces, cr3, tlbVars, op, addr, pte, level, to>>

\* Mutant: r3_access is not passed on.
FillKernelOnly(c) ==
    /\ At(c, "fill")
    /\ window # NoWindow
    /\ mem' = [mem EXCEPT ![window][Index(c)] = Page(table[c], 0)]
    /\ pc' = [pc EXCEPT ![c] = "close"]
    /\ UNCHANGED <<avail, window, spaces, cr3, tlbVars, op, addr, pte, level, table, to>>

Fill(c) ==
    /\ At(c, "fill")
    /\ window # NoWindow
    /\ mem' = [mem EXCEPT ![window][Index(c)] = Page(table[c], pte[c].user)]
    /\ pc' = [pc EXCEPT ![c] = "close"]
    /\ UNCHANGED <<avail, window, spaces, cr3, tlbVars, op, addr, pte, level, table, to>>

\* The page table: the entry is written, or read and switched off.  There is
\* no invlpg for the page.
Last(c) ==
    /\ At(c, "look")
    /\ window # NoWindow
    /\ level[c] = LEVELS
    /\ IF Mounting(c)
       THEN /\ mem' = [mem EXCEPT ![window][Index(c)] = pte[c]]
            /\ UNCHANGED pte
       ELSE /\ mem' = [mem EXCEPT ![window][Index(c)].exists = 0]
            /\ pte' = [pte EXCEPT ![c] = mem[window][Index(c)]]
    /\ replaced' = IF mem[window][Index(c)].exists = 1 THEN replaced \cup {addr[c]}
                   ELSE replaced
    /\ pc' = [pc EXCEPT ![c] = "close"]
    /\ UNCHANGED <<avail, window, spaces, cr3, tlb, op, addr, level, table, to>>

\* umount_page_t, and on to the next level.
Close(c) ==
    /\ At(c, "close")
    /\ level[c] < LEVELS
    /\ window' = NoWindow
    /\ level' = [level EXCEPT ![c] = @ + 1]
    /\ pc' = [pc EXCEPT ![c] = "open"]
    /\ UNCHANGED <<mem, avail, spaces, cr3, tlbVars, op, addr, pte, table, to>>

\* The call returns: after the page table, or when umount_page met a missing
\* table.  remap_pages mounts what it was given at the new place.
Return(c) ==
    /\ \/ At(c, "close") /\ level[c] = LEVELS
       \/ At(c, "missing")
    /\ window' = NoWindow
    /\ IF op[c] = "remap"
       THEN Begin(c, "mount", to[c], Page(pte[c].frame, 0))
       ELSE /\ pc' = [pc EXCEPT ![c] = "idle"]
            /\ UNCHANGED <<op, addr, pte, level, table>>
    /\ UNCHANGED <<mem, avail, spaces, cr3, tlbVars, to>>

(***************************************************************************)
(* copy_pages, from task_fork with interrupts disabled: the whole tree is  *)
(* copied depth first, a table being allocated after all below it.  The    *)
(* kernel's page table is recognised by its entry 0: seen through the      *)
(* window, that entry is the window and shows the table itself.            *)
(***************************************************************************)
Store == [mem : [Frames -> [IDX -> Entry]], avail : SUBSET FRAMES]

\* Mutant: the table is read as if the window were not an entry of it.
ReadPageUnseen(s, f) == s.mem[f]

ReadPage(s, f) == IF f = KPT THEN [s.mem[f] EXCEPT ![0] = Page(KPT, 0)] ELSE s.mem[f]

\* A call of copy_page: level k, entry i of the table f, which is read into buf.
CopyCall == [k : 0 .. LEVELS, i : 0 .. WIDTH, f : Frames, buf : [IDX -> Entry], s : Store]

CopyPage[x \in CopyCall] ==
    IF x.k = 0 \/ x.i = WIDTH
    THEN LET p == Lowest(x.s.avail)
         IN [frame |-> p,
             store |-> [mem |-> [x.s.mem EXCEPT ![p] = x.buf], avail |-> x.s.avail \ {p}]]
    ELSE LET f == x.buf[x.i].frame
         IN IF f = 0 THEN CopyPage[[x EXCEPT !.i = @ + 1]]
            ELSE IF x.k = 1 /\ x.i = 0 /\ f = KPT THEN [frame |-> x.f, store |-> x.s]
            ELSE LET sub == CopyPage[[k |-> x.k - 1, i |-> 0, f |-> f,
                                      buf |-> ReadPage(x.s, f), s |-> x.s]]
                 IN CopyPage[[x EXCEPT !.i = @ + 1, !.s = sub.store,
                                       !.buf = [@ EXCEPT ![x.i].frame = sub.frame]]]

\* Mutant: only the root is copied.
CopyPagesShallow(c) ==
    /\ Ready(c)
    /\ Cardinality(spaces) <= FORKS
    /\ mem' = [mem EXCEPT ![Lowest(avail)] = mem[cr3]]
    /\ avail' = avail \ {Lowest(avail)}
    /\ spaces' = spaces \cup {Lowest(avail)}
    /\ window' = NoWindow
    /\ UNCHANGED <<cr3, tlbVars, walkVars>>

CopyPages(c) ==
    /\ Ready(c)
    /\ Cardinality(spaces) <= FORKS
    /\ LET s == [mem |-> mem, avail |-> avail]
           copy == CopyPage[[k |-> LEVELS, i |-> 0, f |-> cr3,
                              buf |-> ReadPage(s, cr3), s |-> s]]
       IN /\ mem' = copy.store.mem
          /\ avail' = copy.store.avail
          /\ spaces' = spaces \cup {copy.frame}
    /\ window' = NoWindow
    /\ UNCHANGED <<cr3, tlbVars, walkVars>>

\* page_init_ap: a new path from a root of its own to the kernel's page table.
PageInitAp(c) ==
    /\ Ready(c)
    /\ Cardinality(spaces) <= FORKS
    /\ \E new \in [1 .. (LEVELS - 1) -> avail] :
          /\ \A l \in DOMAIN new : \A f \in avail :
                f < new[l] => \E k \in 1 .. (l - 1) : new[k] = f
          /\ IsInjective(new)
          /\ mem' = [f \in Frames |->
                       IF f \in Range(new)
                       THEN LET l == CHOOSE l \in DOMAIN new : new[l] = f
                            IN [Empty EXCEPT ![KPATH[l]] =
                                  Page(IF l = LEVELS - 1 THEN KPT ELSE new[l + 1], 0)]
                       ELSE mem[f]]
          /\ avail' = avail \ Range(new)
          /\ spaces' = spaces \cup {new[1]}
    /\ window' = NoWindow
    /\ UNCHANGED <<cr3, tlbVars, walkVars>>

\* Mutant: translations outlive the load of CR3, as those of global pages do.
SwitchSpaceGlobal(r) ==
    /\ \A c \in ACTORS : pc[c] = "idle"
    /\ cr3' = r
    /\ replaced' = {}
    /\ UNCHANGED <<mem, avail, window, spaces, tlb, walkVars>>

\* The timer's handler loads the root of the next task; no page is global, so
\* the processor drops all translations.
SwitchSpace(r) ==
    /\ \A c \in ACTORS : pc[c] = "idle"
    /\ cr3' = r
    /\ tlb' = [a \in CACHED |-> Zero]
    /\ replaced' = {}
    /\ UNCHANGED <<mem, avail, window, spaces, walkVars>>

(***************************************************************************)
(* The processor: it may look up a page at any time, for an access of the  *)
(* program or ahead of one, and keep what is present; and it may drop what *)
(* it keeps.                                                               *)
(***************************************************************************)
Keep(a) ==
    /\ ~Cached(a)
    /\ Lookup(cr3, a).exists = 1
    /\ tlb' = [tlb EXCEPT ![a] = Lookup(cr3, a)]
    /\ UNCHANGED <<mem, avail, window, spaces, cr3, replaced, walkVars>>

Drop(a) ==
    /\ Cached(a)
    /\ tlb' = [tlb EXCEPT ![a] = Zero]
    /\ UNCHANGED <<mem, avail, window, spaces, cr3, replaced, walkVars>>

Processor == \E a \in CACHED : Keep(a) \/ Drop(a)

Call(c) ==
    \/ \E f \in DEVICES, a \in KERNEL : MountPage(c, f, a)
    \/ \E a \in KERNEL : AllocPages(c, a, 0)
    \/ \E a \in USER : AllocPages(c, a, 1)
    \/ \E a \in KERNEL : UmountPage(c, a)
    \/ \E a \in FAULTS, b \in KERNEL : RemapPages(c, a, b)
    \/ \E a \in FAULTS : PageFault(c, a)
    \/ CopyPages(c)
    \/ PageInitAp(c)

Step(c) ==
    \/ Open(c) \/ Follow(c) \/ Create(c) \/ Fill(c) \/ Last(c)
    \/ Close(c) \/ Return(c)

Next ==
    \/ \E c \in ACTORS : Call(c) \/ Step(c)
    \/ \E r \in spaces : SwitchSpace(r)
    \/ Processor

Spec == Init /\ [][Next]_vars /\ \A c \in ACTORS : WF_vars(Step(c))

(***************************************************************************)
(* Properties                                                              *)
(***************************************************************************)
\* Every call is one of AddressMap: it changes the translation of the page it
\* was made for and of no other, and when it returns that is as asked.  Fork,
\* the start of a CPU and the tables made on the way change none.
Vmap == [a \in Addr |-> Lookup(PML4, a)]
CallOf ==
    [c \in ACTORS |-> IF pc[c] = "idle" THEN "idle" ELSE IF Mounting(c) THEN "mount" ELSE op[c]]
EntryOf == [c \in ACTORS |-> IF Mounting(c) THEN pte[c] ELSE Zero]

Map == INSTANCE AddressMap WITH
         Addr <- Addr, Frame <- Frames, Caller <- ACTORS,
         vmap <- Vmap, call <- CallOf, page <- addr, entry <- EntryOf, dest <- to

ImplementsMap == Map!Spec

\* When mount_page or the fault handler returns, the page it was called for has
\* the entry it was given; and when the boot task's tables are loaded, the
\* processor translates it so, unless the page was translated otherwise since
\* CR3 was loaded last: then an old translation may still be in use.
MountTakesEffect ==
    [][\A c \in ACTORS : (op[c] \in {"mount", "fault"} /\ pc[c] # "idle" /\ pc'[c] = "idle")
         => /\ Lookup(PML4, addr[c]) = pte[c]
            /\ (cr3 = PML4 /\ addr[c] \notin replaced) => Translated(addr[c]) = pte[c]]_vars

\* The tables and pages at level l + 1 below a root, by level.
Below(root) ==
    LET at[l \in 0 .. LEVELS] ==
          IF l = 0 THEN {root}
          ELSE {mem[f][i].frame : f \in at[l - 1], i \in IDX} \ {0}
    IN at

Tables(root) == UNION {Below(root)[l] : l \in 0 .. (LEVELS - 1)}

\* Address spaces share the kernel's page table and no other table, and below
\* one root every table has one place: what is mounted in a task's own pages
\* cannot show up in another task or at another address.
SpacesApart ==
    /\ \A r, s \in spaces : r # s => Tables(r) \cap Tables(s) = {KPT}
    /\ \A r \in spaces : \A l, k \in 0 .. (LEVELS - 1) :
          l # k => Below(r)[l] \cap Below(r)[k] = {}
    /\ \A r \in spaces : \A f, g \in Tables(r), i, j \in IDX :
          (mem[f][i].frame \in Tables(r) /\ mem[f][i].frame = mem[g][j].frame)
              => (f = g /\ i = j)

\* The processor lets a program use a page only when the tables on the way to it
\* have r3_access as well: mount_page_do passes the bit on to what it creates.
UserPagesReachable ==
    \A a \in USER : Lookup(PML4, a).user = 1 =>
        LET walk[l \in Levels] == IF l = 1 THEN mem[PML4][a[1]]
                                  ELSE mem[walk[l - 1].frame][a[l]]
        IN \A l \in Levels : walk[l].user = 1

\* pagefault.h:33-34 "Если произошла ошибка при обращении к несуществующей
\* странице внутри кучи ядра, выделим страницу" (on an access to a page of the
\* heap that is not there we allocate one): the access can then go on.
FaultResolved ==
    [][\A c \in ACTORS : (op[c] = "fault" /\ pc[c] # "idle" /\ pc'[c] = "idle")
         => Lookup(cr3, addr[c]).exists = 1]_vars
=============================================================================
