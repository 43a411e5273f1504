# OS_64 in TLA+

OS_64 is a small 64-bit kernel in C and assembler: physical and virtual memory,
a heap, preemptive tasks on several CPUs, a read-only file system on an ATA disk,
and a loader and system calls for programs. This directory holds TLA+ models of
its core, TLC configurations that check them on small instances, and TLAPS proofs
of what matters most for every value of the constants. `PROJECT.json` maps every definition to the source
lines it models.

Run TLC as `tlc -config KernelHeap.cfg MCKernelHeap`, TLAPS as
`tlapm KernelHeap_proofs.tla`.

## The system

| Part | State | Operations | Met by |
|---|---|---|---|
| physical pages, `mm/phys.c` | bitmap, read as 64-bit words and 32-bit halves | `phys_init`, `alloc_phys_page`, `free_phys_page` (never called) | paging, page faults |
| paging, `mm/page.c`, `mm/pagefault.h` | page tables, one temporary window, CR3 | mount, unmount, remap, copy for a fork, page-fault handler | everything that touches new memory |
| kernel heap, `mm/mem.c` | chunk headers in one address range | `mem_init`, `kmalloc`, `kfree` | all of the kernel |
| tasks, `kernel/task.c`, `x86_64/timer.S`, `elf/start.c` | ring of descriptors, saved registers, `curr[]` | `task_fork`, `task_init_cpu`, `task_switch`, `start_process` | timer interrupt of every CPU |
| interrupt masking, `x86_64/intr.c` | `intr_sema[]`, IF | `intr_disable`, `intr_enable` | tasks, paging |
| devices, `fs/devfs`, `fs/mdpart`, `fs/ata`, `fs/initrd`, `fs/tty` | table of nodes, windows into the disk | `devfs_add`, `mdpart_init`, reads, look-up | file system |
| ext2, `fs/ext2/ext2.c` | superblock per mount | read, readdir, finddir | vfs |
| vfs, `fs/vfs/vfs.c`, `fs/fs.c` | two directories and their mounts | `fs_init`, mount, umount, dispatch | programs, loader |
| start-up, `x86_64/boot.S`, `kernel/kernel.c`, `x86_64/smp.c`, `apic.c`, `gdt.c` | descriptor table, what is ready, `cpu_nr` | `kernel_start`, `smp_init`, `ap_init`, `kernel_ap_start` | every processor |
| console, `kernel/ktty.c`, `x86_64/kbd.h` | characters and position | `ktty_putc`, `ktty_shift`, keyboard handler | all of the kernel |
| ELF loader, `elf/elf.c`, `elf/start.c` | pages of the program, loop counters | header checks, three stages, `start_process` | boot task, timer |
| system calls, `sys/`, `x86_64/regs.S` | saved registers, files of the task | handler of interrupt 0x80, 19 calls | programs |

The parts meet through shared memory and interrupts, not through messages. The
heap takes address ranges whose pages appear on the first access: a page fault,
handled with a walk through the window that every task shares, which takes pages
from the bitmap. The timer interrupt may come between any two statements while
IF is set, and on a machine with several CPUs all of this runs at once without
locks; the spin lock in `x86_64/spinlock.S` has no caller. Nothing is persistent,
so crash recovery does not arise. The one message that may get lost and is sent
again is the start-up message of an application processor.

What is hard here, and what has to be right:

- *heap*: splits and merges keep a doubly linked tiling of an address range that
  ends exactly at 2^64. Chunks must tile it, links must agree, live blocks must
  stay apart, and a full heap must say so;
- *physical pages*: scan, read and write of a word are separate steps. One page,
  one user; never a page of the kernel; null only when nothing is left;
- *paging*: four levels through one window, with directories created on the way.
  A mount changes its own page only; forked spaces share only what they must;
  a resolved fault stays resolved;
- *scheduling*: a counter that says when interrupts may come on again, loaded and
  stored on both sides of `cli` and counted up and down again inside a section; a
  ring changed while other CPUs walk it. Every task must run, sections must not be
  torn, the switch must end;
- *file system*: recursion through partition tables read from the disk, nested
  windows cut by one another, block chains of three kinds, mounts and umounts in
  any order;
- *start-up*: processors come up on what the boot processor has prepared, without
  waiting for one another. What they use must be there, their descriptors must
  be their own, no interrupt may come before its handler;
- *console*: a position shared with an interrupt handler, stored through before it
  is tested. Stores must stay near the screen and the rows must be right after
  any scrolling;
- *programs*: pages replaced under a translation buffer, relocations that may be
  refused half way, an entry through the timer, calls with interrupts off. A
  program that is entered must be whole, and must get results and interrupts back.

`PROJECT.json` lists the hazards one by one at their lines.

## Modules

| Module | Models | Grain |
|---|---|---|
| `HeapContract` | what callers of the heap may rely on | a call |
| `KernelHeap` | `mm/mem.c` | a call |
| `KernelHeapSteps` | the same, for several tasks | a statement |
| `PhysMem` | `mm/phys.c` | scan, read of a half, write of a half |
| `AddressMap` | what mount, unmount and remap promise | start, effect and return of a call |
| `PageTables` | `mm/page.c`, heap branch of `_page_fault` | a level of a walk |
| `TaskSched` | `kernel/task.c`, `x86_64/intr.c`, `timer_intr`, hand-over in `elf/start.c` | a statement |
| `Devices` | devfs, partitions, disk and ram disk reads | a turn of a loop |
| `Ext2` | `fs/ext2/ext2.c`, as operators | a call |
| `FileSystem` | `fs_init`, `fs/vfs/vfs.c`; extends `Ext2`, which extends `Devices` | a call |
| `SmpBoot` | boot and application processors up to their idle loops | a call, a descriptor half, a message |
| `Console` | `kernel/ktty.c` and the keyboard handler | an access to the position |
| `Loader` | `elf/elf.c`; extends `Console`, where its messages go | a segment's page table, clearing, copying; a relocation |
| `Program` | `start_process`, entry through the timer, `sys/`; extends `Loader` | a call |

`MC...` modules give the constants their small values; `..._proofs` modules hold
the theorems, `Induction` what they share. A definition named for a mistake (`FreeSegFixed`) under a
comment "Mutant" is a wrong variant of the one that follows it; put in its place
it makes one of the properties fail.

**Heap.** A chunk is the address of its header; `magic` is the set of addresses
that carry `KMEM_MAGIC`, `size`, `prev` and `free` are the header's fields.
`AddrSpace` plays 2^64, and `Plus` wraps there, which is what makes exhaustion
go wrong. `KernelHeapSteps` splits the calls where a second task could see the
difference. The bytes in the blocks are left out.

**Physical pages.** A page is `<<word, half, bit>>`. `HALF` plays 32, so that
`free_phys_page`, which computes its mask in a 32-bit int, can be modelled by
what its mask clears. `RELEASED` are the pages callers give back (in the kernel as
it is, none). The history variable `serial` stays true until two calls overlap
or a page is freed whose bit that mask misses.

**Paging.** `AddressMap` ties every change of the map to a call: `Mount`, `Unmount`
and `Move` touch the page the call was made for, and `Finish` waits until its entry
is as asked. `PageTables` implements it with `call`, `page` and `entry` mapped to the
walk's own `op`, `addr` and `pte`. `mem[f]` are the entries in physical page `f`. `window` is what
entry 0 of the kernel's page table shows. Each walk is `Open`, then `Follow` or
`Create` and `Fill`, then `Close`, per level; `Last` and `Return` end it.
`copy_pages` is one action: its recursion does not depend on anything others
change while interrupts are off, and its result is computed level by level.
`Lookup` is the walk the processor would do, `Translated` what it uses: for the
pages in `CACHED` it keeps translations (`tlb`), taken and dropped at any time (`Keep`,
`Drop`) and all dropped when CR3 is loaded. The code has no `invlpg`, so `replaced`
records the pages whose present entry was changed since then. A new directory is taken to be zero (the
code never clears one, see below).

**Scheduler.** A context is a place in the code, its locals and IF. `ctx[c]` is
what CPU `c` executes, `r[t]` what the timer saved for task `t`. Every statement
of `intr_disable` and `intr_enable` is an action, and `intr_sema[id]++` is three: the
id, a load, a store of the sum, with IF still set, as the build without `-O` does it.
`stale` records that an update was stored over one made since its load. `Torn` names a
task that lost the CPU between the increment and `cli`. `Begin` starts one of three jobs
done with interrupts off: any section, `task_fork`, `start_process`; while its body
runs, `Nested` begins the pair of `intr_disable` and `intr_enable` of a
`mount_page_t`, as often as pages are mounted. `JoinSpec` adds CPUs that come up and
run `task_init_cpu`.

**File system.** A byte of the disk is its address. What the kernel interprets is
given by the image: functions from the address of a structure to its fields. So
a read is right when it returns the right addresses, and a structure is found
only when the bytes read begin at its address; an address the image says nothing
about holds zeros (`Decoded`). `truth` of an image gives, where a file system
begins whose structures are in order, what was put there: names, blocks and sizes
of the files, and the bytes it takes. `TruthAssumption` says what "in order" is
(`Ext2Image`): blocks are whole sectors that one disk command can read, superblock,
descriptors, inodes and indirect blocks lie inside and lead to exactly those blocks,
files have no holes, the root directory lies in direct blocks and its entries
name files of the truth. TLC evaluates it for the disks of the run. `Holds(n)` are
the devices that begin with such a file system and have room for it, as have the
devices around them; about others `FilesRead` and `DirectoryAnswers` say nothing,
`ReadsWindow` does. The lengths and offsets the driver keeps in ints are cut to 32
bits (`AsInt`): a double indirect block of a file system with 4 kB blocks stands for
2^32 bytes, which is 0, so `Reach` ends in front of those. `stack` is the stack of running
`mdpart_init` calls; `Adding` is one turn of one of them, and `DEPTH` is how many
calls, one in the other, the kernel stack has room for (a buffer of 512 bytes each on a
stack of 16 kB). `phase` follows `fs_init`; `hung` and `wild` are its bad ends: waiting
for a sector that never comes, and using memory nobody initialised or behind the end
of the stack.

**Start-up.** `bpc` and `apc[a]` are the next call of the boot processor and of
application processor `a`; `ready` is what the boot processor has prepared. `fw`
is what loader and BIOS hand over: a multiboot magic or not, no table, a default
configuration, or a list of entries. `rom` is the nibble `apic_get_id` reads
until the register page is mapped. `GDT_smartaput` is search, lower half, upper
half. `SendSipi1` may lose the first start-up message. Statements of
`task_init_cpu` are in `TaskSched`, those of `mount_page_t` in `PageTables`; here
they count with what they do to IF and `intr_sema`. From `task_init_cpu` on a tick may
give the processor to another processor's task (`HandOver`, which sets `taken`): from
there on the module follows the machine no further, and `TaskSched` takes over.

**Console, loader, programs.** One state, three modules. `text` is what the running
code still has to print, so the next step of loader or handler waits until
`ktty_putc` is through; the keyboard handler runs as a whole, between any two
accesses, while `IF_on`. `Spin` is a store of the two tasks of `kernel_run` that turn a
digit in the corners of the first row: the forked one may come to its store with any
`Tick`, the other one when no program was started (`SpinRight`). The loader's memory is `page_table`, `frames` and `tlb`:
`alloc_pages_user` changes the first and leaves the last, `Evict` is the processor
forgetting a translation, `Tick` a switch away and back, which empties it. A
function without a `return` (`elf64_load_stage1`, `elf64_get_symval`, `test_out`)
returns any member of `UNDEF`: the build is `-O0`, so what is left in the register.
`rax`, `r9` and `rflags` are the registers the handler's stack layout decides
about. A system call with a number below 0 gets past the signed comparison and jumps
to what memory holds in front of the table: `CallBefore` ends in `wild`. One character stands for each message of the loader.

## Runs

| Run | Shows |
|---|---|
| `heap_calls` | any sequence of calls leaves chunks tiled, linked and merged (`ChunksLinked`, `Coalesced`), a released heap is whole (`WholeAgain`), held blocks keep their room; implements `HeapContract` |
| `heap_statements` | the statements in program order do the same for one task (`HeapAtRest`), and calls return |
| `heap_exhaustion` (violation) | when nothing fits the machine stops instead of returning null |
| `phys_alloc` | two actors in every interleaving, with frees: no page of the kernel is given away; while the history is `serial`, pages in use are marked and have one user, and null means that nothing is left |
| `page_tables` | one caller, with a translation buffer: a call changes its own page only (`ImplementsMap`), what the processor uses is as asked when it returns, unless the page was translated otherwise before (`MountTakesEffect`), separate address spaces, user access, faults resolved |
| `fault_after_fork` (violation) | a heap fault outside the kernel's first page table, taken in a forked space, is never resolved |
| `sched_workers` | three tasks, two of them doing kernel work with nested pairs: as long as no update of the counter was lost, it counts exactly, the ring stays closed, sections are never saved half done and no "Bug: intr_enable!" comes; started programs can be interrupted; every ready task runs again and programs get the CPU unless a task stays torn or an update was lost |
| `file_system` | nine disks: partition search ends inside the table or at the end of the stack, the root is mounted, reads stay in their windows, file data and directory entries are right, mounts are owned |
| `smp_boot` | nine machines: everything a processor uses is ready (`ReadyBeforeUse`), its descriptors are its own (`TssOwn`), it is started once and only if listed although messages get lost, it takes no interrupt too early, and it is counted if it gets through and no tick took it away |
| `smp_intr_bug` (violation) | an application processor ends in the "Bug: intr_enable!" of `intr_enable` |
| `program` | sixteen files with keys, ticks and evictions at any time: what is entered is whole and in memory as file and relocations say, plain programs are entered, the screen shows the output but for two digits, interrupts come back after calls |
| `syscall_result` (violation) | the result of a system call comes back in r9, not in rax |

### Bounds

- *Heap*: 13 bytes of payload and headers of 2 give up to four splits, chunks
  that are exactly used up, one byte too large to split and merged on both
  sides; requests of 0, of the limit and above are among `SIZES`.
- *Physical pages*: half-words of 2 bits and two open words, so the scan crosses
  words and the search crosses halves. Two actors race for the last page of a
  word. Two pages may be freed, one with a mask that is right and one with a mask
  that clears half a word; freeing any page multiplies the states and adds no
  other case. The actors are symmetric.
- *Paging*: three levels of two entries: an inner level exists, user and kernel
  halves differ, the heap has a page inside and one outside the kernel's first
  page table. One fork gives two spaces. `CACHED` is a page that drivers mount
  and one of the heap: more add no case, for pages do not share translations.
  `RESERVE` keeps as many pages free as the longest call takes, because an exhausted
  `alloc_phys_page` is not handled.
- *Scheduler*: three tasks make a ring in which insertion, removal and order
  differ. Two of them do kernel work (`WORKERS`), which is what a lost update takes; with
  `BEYOND = FALSE` no new section begins after one, since the safety properties are
  about the time before (with `BEYOND = TRUE`, below, they fail without that
  proviso). A forked child is ready or not (`FORKSTATES`), whatever the heap held. A
  fork begins only while descriptors are left (`ForkRoom`). CPUs that join are left
  to the proof of `SchedStartRegs`.
- *File system*: sectors of 2 bytes, blocks of 4, two direct pointers, two
  pointers to a block: a file of 8 blocks uses direct, single and double indirect
  ones. The disks include a table that contains itself, nested tables, a
  partition cut by the disk's end, one that ends inside the superblock, one
  without sectors, no table, one with more partitions than `MAXNODES` = 5 leaves room for.
  With `DEPTH` = 3 the table that contains itself comes to the end of the stack first, as it
  does in the kernel. `W` = 1024 plays 2^32: a file system of blocks of 16 bytes has double
  indirect blocks for 1024 bytes, which are 0 as an int, and a disk is longer than an
  int can count, with requests of 512 bytes and more among `SIZES`.
- *Start-up*: one application processor, because all of them share the one boot
  stack and a second one would corrupt the first (below). The lists have the
  processor before and behind other entries, one that is not there, one that is
  marked as the boot processor, an unknown entry, none; the ROM shows the boot
  processor's id, the processor's own or another.
- *Programs*: a screen of two rows of 3 cells has corners and a cell between them and
  scrolls with the texts that are printed, `KEYS` 1 is one keypress at any of the
  places. Pages of two cells let a segment begin in the middle of a page and take
  three; the files meet every check of the header, every relocation type, a symbol, an unknown type, an unmapped address, a
  missing section and a page shared by two segments. `CALLS` 1: calls do not
  depend on one another but for the descriptors, which none changes.

`CHECK_DEADLOCK FALSE` is set where the program may stop: a halted CPU after a
full heap, the two bad ends of `fs_init`, and CPUs that spin with interrupts off.
Elsewhere a loop of `hlt` is an action (`Idle`).

### Fairness

- `TaskSched`: a CPU goes on executing (weak fairness of `Execute` and of
  `SwitchPick`); the timer ticks again and again, so a CPU that keeps enabling
  interrupts is interrupted some time (strong fairness of `Tick`, since IF goes on
  and off). Beginning a new section is not fair: a task need not do kernel work. The
  body of a section maps finitely many pages, so it comes to its end although nested
  pairs come in between (strong fairness of `Finish`).
- `KernelHeapSteps`, `PageTables`: a call that has begun goes on, as its caller
  gets the CPU.
- `FileSystem`: `fs_init` is straight-line code (weak fairness of `Boot`); no
  call is ever required to be made.
- `SmpBoot`: every processor goes on executing (weak fairness of `Bsp` and of each
  `Ap`). The first start-up message may be lost, the second is delivered, which is
  what the protocol of `ap_init` relies on. No tick is required to take a processor
  away (`HandOver`), and none is excluded.
- `Program`: the boot task goes on (weak fairness of `Run`; `EnterProgram` in it is
  the next tick, which the APIC timer brings). Keys, evictions and the program's
  own calls are not required.

## Proofs

All are for every value of the constants under the named assumptions of the
modules, which state types and, for `PhysMem`, that no available entry of the
memory map other than the one at 1 MB covers the kernel. What a theorem assumes
besides is written in its ASSUME and named here.

- **`KernelHeap_proofs`**: `HeapStructure`, `HeapCoalesced`, `HeapWholeAgain`,
  `HeapHeldBlocks`, `HeapImplementsContract`. The inductive invariant `LinInv` is
  the conjunction of all structural invariants with wrapping sums replaced by
  plain ones. None is inductive alone: `kfree` finds its neighbours through the
  back links and the tiling, and because free neighbours are always merged it
  joins at most three chunks. One lemma per way to take and to release a chunk.
  `HeapStepsAtRest` carries this to the statements, for one task: `Stage` says for
  every place inside `kmalloc` and `kfree` how far the heap is from a tiled one.
- **`PhysMem_proofs`**: `PhysKernelReserved` for any number of actors, races and
  frees included: the invariant says that words `phys_init` closed stay full and
  that nobody's locals point into them. `PhysExclusive` and `PhysNullMeansFull`
  hold while the history is `serial`, for any number of actors; they need that the
  half read is still the half in memory when it is written.
- **`TaskSched_proofs`**: `SchedStartRegs`, for any number of CPUs and tasks, saved by
  the timer before or not: no step clears IF in the RFLAGS of a descriptor
  (`FlagsKept`). `StartRegsPrepared`, which needs that they were saved before, is left to
  TLC: that is an assumption `kernel_run` does nothing to guarantee. On one CPU, with
  fewer open calls than the byte counts (`OneCpu`), until an update of the counter is
  lost: `SchedSemaCounts`, the counter is the number of open calls of `intr_disable`,
  nested ones and those of preempted tasks included. It is not inductive without
  what the registers between load and store hold, and without `SchedSections` and
  `SchedNoIntrBug`: because the counter is at least 1 inside a section, the pairs
  nested in it do not set IF, so nobody saves a task there, so the counter is exact.
  `SchedRingClosed`, where `RingInv` carries an enumeration of the ring and the child
  that points into it and is not yet pointed to.
- **`PageTables_proofs`**, for any depth and width and a single caller, with a page left
  for every level when a call begins (`Roomy`): `PageMountTakesEffect`, for any set of
  pages whose translations are kept, where `TlbInv` says that a kept entry differs from
  the table's only for pages in `replaced`; `PageImplementsMap`, by which a call
  changes the translation of its own page and of no other; and, when programs use
  other entries of the root than the kernel (`UserApart`), `PageUserReachable`. `PageInv` says that the tables form
  a tree: two walks that meet in a table came the same way (`OwnPlace`), a free
  page is in no walk and empty. `copy_pages` keeps that, by induction on the size
  of what is left to copy. `PageSpacesApart` says the same of all spaces at once:
  `Labelled` gives every table a space, a height and a mark when it lies on the way
  to the kernel's page table, and `CopySpace` shows, again by induction, that a copy
  is a tree with labels of its own. It assumes that drivers mount no page of RAM
  (`DevicesApart`) and that one physical page stays free, `[](avail # {})`:
  `copy_page` does not test what `alloc_phys_page` returns, and a copy that runs
  dry writes to page 0. From it `PageFaultResolved`, for the pages of the heap that
  lie below the kernel's page table (`NearHeap`).
- **`FileSystem_proofs`**: `FsDeviceTable`, `FsMountsOwned`, for every disk contents
  and sequence of calls. `DevInv` follows the running `mdpart_init` calls: nodes
  on the stack are distinct and increasing, and a call at entry `i` has made only
  partitions numbered below `i`, so names stay unique. `MountInv` adds the types
  of mounts to `MountsOwned`. `FsReadsWindow`: `DeviceWindow` and `DeviceComplete`
  follow a request down the partitions, by induction on the number of the device (that
  all bytes come is said of requests whose length fits the int it is passed on as),
  and `Filled` says that every byte of a buffer the ext2 driver puts together was
  left alone or comes from such a read. The inodes, block pointers and directory
  entries on the disk may be anything of their types (`Ext2Assumption`).
  `FsFilesRead` and `FsDirectoryAnswers` say what is read where a device holds a
  file system in order (`TruthAssumption`), for every block size, number of pointers
  and file length below 2^63, as far as the driver gets (`Reach`): `SmallInt` and
  `DoubleFits` say which of its int products are what they stand for, and `BytesBehind`
  that the others are 0. `ReadExact` is the core: a request is cut into the parts behind
  direct, single and double indirect pointers (`PartsOf`), each part is the bytes of
  the file from its offset on (`ChainBytes`, `DoubleBytes`, by induction on the
  blocks), and the parts join without gap or overlap (`DataSpelled`); every device
  read in between is complete by `DeviceComplete`. `EntriesExact` does the same for
  the directory walk, `FinddirExact` for the comparison of names. `AnswerInv` carries
  this to all states: mounted nodes and found files keep the superblock that stands
  at their device's start (`MountOrigin`, `FileOrigin`), although devfs grows in
  between, and a found file has an inode of the truth.
- **`SmpBoot_proofs`**: `SmpReadyBeforeUse` and `SmpNoEarlyInterrupts`, for any set of
  application processors and any firmware. The first needs that whoever has left
  "off" did so when everything was ready, and that nothing is ever taken back; the
  second follows task register and IDT through the places (`CpuInv`), since INIT
  takes both away together with IF. `SmpStartedAsListed`, for any number of them,
  when a list names a processor once, as the MultiProcessor Specification asks
  (`EntriesOnce`); `SmpTssOwn` for one application processor and a descriptor table
  with room for it (`OneAp`): nobody fills an entry between search and stores.
- **`Program_proofs`**: `ConsoleStoresNearScreen`, for any size of the screen, any text
  and keys: `CursorInv` bounds position and register at every place, because a
  key between two accesses leaves the position behind the register or in front.
  `ConsoleShowsOutput`: the screen shows the last rows of the text, by induction on
  its length, but for the digits in the corners: `Like` says that a screen is what it
  should be otherwise, and that storing, putting and shifting keep that. `ProgramImplementsConsole` (every step of loader and handler is
  a step of the console or leaves it alone) carries both to the composed system,
  `ProgramStoresNearScreen` and `ProgramShowsOutput`. `ProgramStartedWhole`, for any
  files: `WholeInv` says that the relocations left of the loop counters had known
  types. `ProgramImageLoaded`: a plain program is entered with every cell as
  segments and relocations say. `PlainInv` follows which pages, cells and
  relocations are done at each stage, and that the translation buffer never
  disagrees with the table for them.

**Induction.** The induction theorems of the library take an operator as a
parameter, which the provers cannot instantiate. `Induction` states them with sets
instead: what contains 0 and, with every `n`, `n + 1`, contains `Nat`
(`SetInduction`), from the least element of a set of naturals; and that a sequence
computed step by step exists (`RecursionExists`), and a function whose values
depend on smaller arguments only (`FixpointExists`), which is what turns a recursive
function into its equations. A proof by induction then defines the set of numbers
it holds for. This needs functions of one argument, so a call of `copy_page` is a
record (`CopyCall`).

Only model-checked: the liveness properties `EveryTaskRuns`, `ProcessStarts`,
`CallsReturn`, `SearchEnds`, `BootMounts`, `EveryCpuCounted`, `ProgramStarts` and
`InterruptsComeBack`, which are out of the prover's reach, and the four runs that
expect a violation, and `StartRegsPrepared`, for the reason given above. Every other
invariant and action property of the passing runs is proved.

## Where the code falls short

Four disagreements with the code's own comments and messages are runs:
`heap_exhaustion`, `fault_after_fork`, `smp_intr_bug`, `syscall_result`. The
others were met while modelling. Where constants are given, TLC shows the
failure with them.

Heap and memory:
- `BlocksApart` (`KernelHeapSteps`) fails with two `TASKS`, `HLIM` 10: `kmalloc`
  is not protected against a task switch (`mm/mem.c:73`).
- `PagesExclusive` (`PhysMem`) fails without `serial`: two actors get one page, and
  `mm/phys.c:93` computes its mask in a 32-bit int, the trap that the comment at
  `mm/phys.c:56-59` describes.
- `FreePagesAreRam` fails at once: the entry at 1 MB is moved behind the kernel
  with its length unchanged (`mm/phys.c:139,147`), against `mm/phys.c:113-114`.
- the window is one for all tasks, and `mount_page_t` gives interrupts back before it
  is used (`mm/page.c:138`): a task switched in moves it. All of `PageTables` is about
  one caller;
- nothing does `invlpg`: a page mounted anew while the processor keeps its translation
  goes on showing the old one. `MountTakesEffect` fails without `replaced`, and
  `x86_64/apic.c:83` is such a mount: the register page over the BIOS ROM that
  `apic_get_id` has just read.
- With `RESERVE` 0 the null page of an exhausted allocator is mapped.
- Directories are never cleared (`mm/page.c:161-192`); the model assumes zeroed
  memory.
- `copy_pages` copies the kernel's page tables other than the first, although
  `mm/page.c:336-341` says the kernel is shared.
- The heap buffer of `copy_page` may fault while the window is in use
  (`mm/page.c:296`).

Tasks, with two CPUs unless said otherwise:
- without its second alternative `EveryTaskRuns` fails on one CPU: `intr_disable`
  increments before `cli` (`x86_64/intr.c:171`), so a task preempted in between
  leaves the counter at 1 and the next task never gets to `sti`;
- the increment is a load and a store: a task preempted between them stores over what
  the others did meanwhile. `SemaCounts`, `NoIntrBug`, `SectionsNotPreempted` and `RingClosed`
  fail on one CPU without `stale` in them (`WORKERS` of two, `BEYOND = TRUE`): two open
  sections are counted once, the first to end sets IF in the other's, and the second one's
  `intr_enable` prints "Bug: intr_enable!" and halts for good;
- a child whose state field is not 0 in the heap never runs: `task_fork` does not
  set it (`kernel/task.c:212`).
- `StartRegsPrepared` fails with `SAVED = FALSE`: a program started before the
  first tick runs with interrupts off (`kernel/task.c:232`).
- `OneCpuPerTask` (both CPUs with a task in a ring of three): the picked task is
  not marked (`kernel/task.c:243`).
- `NoIntrBug`: after a migration another CPU's counter is changed
  (`x86_64/intr.c:170`).
- `start_process` reads the id before `intr_disable` and may rewrite another task
  (`elf/start.c:90`).
- `NoWildTask` (`JoinSpec`, two tasks, `Alone`, `AloneRing`): a new task is
  linked before its own link is set (`kernel/task.c:98`).
- `RingClosed` (`JoinSpec`, three tasks, `Alone`, two of them in the ring): `curr[0]`
  is read twice (`kernel/task.c:97`).

File system:
- a file read from the middle of a block runs into the next block of the disk
  (`fs/ext2/ext2.c:168` does not shorten the first piece), and a device read from
  the middle of a sector copies bytes behind its buffer (`fs/ata/ata.c:60-68`);
- a request of no bytes, as at the exact end of a device, never returns from
  `ata_pio_read`; `fs_init` meets it with an empty partition (inside a call of the
  ext2 driver the model goes on with the bytes the buffer held);
- `finddir` takes an entry whose name begins the name asked for
  (`fs/ext2/ext2.c:494`); `DirectoryAnswers` allows it, and a look-up in the run
  is answered that way;
- after umount a directory is neither usable nor mountable: its flag stays set;
- without a first partition `ENOENT` is mounted as a node (`fs/fs.c:63-64`);
- read results are ignored, so a cut superblock is old heap contents
  (`fs/ext2/ext2.c:44`);
- `active&(~MDPART_ACTIVE) != 0` tests the lowest bit only (`fs/mdpart/mdpart.c:40`);
- products of 32-bit fields wrap beyond 4 GB (`fs/mdpart/mdpart.c:79`,
  `fs/ext2/ext2.c:145`); `W` stands for 2^32 and the disks of the run stay below;
- with blocks of 4 kB the bytes behind a double indirect block are 2^32, 0 as an
  int, and are never read (`fs/ext2/ext2.c:196`); `ext2_read` reports them as read;
- a read of 2^31 bytes or more becomes one of a negative number on its way down
  (`fs/mdpart/mdpart.c:110`, `fs/ata/ata.c:57`);
- a partition table that contains itself nests `mdpart_init` with 512 bytes of buffer
  each (`fs/mdpart/mdpart.c:26`) until the stack of 16 kB is used up, long before
  `nodes[]` is full;
- a hole in a file ends the read with old bytes in the buffer, and triple
  indirect blocks are missing (`fs/ext2/ext2.c:165,260`);
- every `ext2_read` keeps its inode buffer (`fs/ext2/ext2.c:342`);
- files found outlive their superblock after umount; callers give them up first,
  and the model assumes so;
- nodes of found files have no flags, so subdirectories cannot be searched.

Start-up:
- the counter `page_init_ap` increments is the one whose number the BIOS ROM shows
  (`mm/page.c:466`); unless that is the processor's own, it stops at line 494;
- all application processors run on the one boot stack (`x86_64/boot.S:231`), and
  `ap_init` does not wait for one before it starts the next;
- with two of them `TssOwn` fails: search and store of a descriptor are apart; five
  processors fill the 16 entries of `GDT_addr`, although `MAX_CPU_NR` is 16 and the
  search goes on to 8192 (`x86_64/gdt.c:148`); `cpu_nr++` and `next_pid++` may lose
  an update;
- the "enabled" flag of a processor entry is printed and not looked at;
- from `intr_enable` of `task_init_cpu` on (`kernel/task.c:104`) the APIC timer may take the
  processor to a task of another one before it has counted itself, and leave it there
  (`HandOver`; `EveryCpuCounted` says nothing then);
- while the processor comes up it shares window, heap and page bitmap with the
  boot processor, without a lock.

Console and programs:
- with a second processor printing, each can move the position past the other's
  test, and no bound holds; `StoresNearScreen` is about one processor;
- a key inside `ktty_putc` may be overwritten or cost a row (`torn`);
- segments that share a page lose what the first one put there: the page is
  replaced (`elf/elf.c:345`); `Plain` excludes them, and two relocations of one
  address, of which the file does not say which one counts;
- the base address is an `int` (`elf/elf.c:142`), wrong from 2^31 on;
- `elf64_load_stage1` and `elf64_get_symval` are empty: a relocatable file may be
  refused or relocated with whatever the register held;
- a program loaded before the first tick runs with interrupts off for ever
  (`elf/start.c:94` sets no flags), and `exit` stops its CPU for good
  (`sys/sys_exit.c:17`);
- `write` accepts file number `MAX_OPEN_FILES` (`sys/sys_write.c:17`) and returns
  `EBADF` as a positive number;
- system call numbers are compared as signed ones (`sys/syscall.c:39`): one below 0 is
  called through whatever stands in front of the table (`CallBefore`);
- the two tasks of `kernel_run` store into the screen behind the console's back
  (`kernel/kernel.c:101`, 123), and a digit stays until the rows move up;
- an entry size of 0 divides by zero (`elf/elf.c:288`); such files are not among
  those of the run.

## Not modelled

The spin lock has no caller. The old ext2 tool, the fat32 stub, VESA, the hosted
build of the loader and the test programs carry nothing the kernel rests on. Of
the boot code the stop of a processor without long mode is left out, of the APIC
the registers, delays and calibration. Writes of the file system drivers return a
constant. Pointers a program hands to a call are taken to be valid; the messages
of the boot task after a refused program are left out. The library is an empty
submodule here; `memcpy`, `memset` and `strncmp` are used as their names say.

## Plan

1. `KernelMemory`: heap, page fault and physical pages composed: an access to a
   fresh block faults, is answered and goes on.
2. A second application processor in `SmpBoot`, with properties that survive it.
3. Images beyond `Ext2Image`: files with holes and directories behind indirect
   blocks, where the code returns old bytes or stops early.
