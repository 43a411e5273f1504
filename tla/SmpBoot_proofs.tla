--------------------------- MODULE SmpBoot_proofs ---------------------------
(***************************************************************************)
(* The start-up for any number of application processors: what a processor *)
(* uses has been prepared, interrupts come on only behind a loaded IDT and *)
(* task register, and a list that names a processor once starts it once.   *)
(* With one application processor, every task register has its own TSS.    *)
(***************************************************************************)
EXTENDS SmpBoot, TLAPS

\* A step is one of the processors, or only hands over a task, or stutters.
LEMMA NextCases ==
  ASSUME [Next]_vars PROVE Bsp \/ (\E b \in APS : Ap(b)) \/ UNCHANGED machine
BY DEF Next, BspStep, ApStep, HandOver, Idle, vars

(***************************************************************************)
(* ReadyBeforeUse: no processor leaves "off" before the boot processor     *)
(* sends a message, which it does only when everything is prepared.        *)
(***************************************************************************)
Everything == {"trampoline", "gdt", "stacks", "idt", "pml4", "boot_stack", "curr0", "lapic"}
Sending == {"walk", "init", "sipi1", "sipi2"}

\* What has been prepared at each place of the boot processor.
Prepared(p) ==
    CASE p = "boot" -> {}
      [] p = "gdt" -> {"trampoline"}
      [] p = "tss" -> {"trampoline", "gdt"}
      [] p = "magic" -> {"trampoline", "gdt", "stacks"}
      [] p = "mem" -> {"trampoline", "gdt", "stacks", "idt"}
      [] p = "stack" -> {"trampoline", "gdt", "stacks", "idt", "pml4"}
      [] p = "task" -> {"trampoline", "gdt", "stacks", "idt", "pml4", "boot_stack"}
      [] p \in {"smp", "apic"} -> Everything \ {"lapic"}
      [] p \in Sending -> Everything
      [] OTHER -> {}

ReadyInv ==
    /\ apc \in [APS -> Places \cup {"again"}]
    /\ Prepared(bpc) \subseteq ready
    /\ (\E a \in APS : apc[a] # "off") => Everything \subseteq ready

LEMMA ReadyInit == Init => ReadyInv
BY DEF Init, ReadyInv, Prepared, Everything, Sending, Places

LEMMA ReadyBsp == ReadyInv /\ Bsp => ReadyInv'
<1> SUFFICES ASSUME ReadyInv, Bsp PROVE ReadyInv'
  OBVIOUS
<1> USE DEF Sending, Everything
<1>1. CASE Boot \/ SmpSearch \/ ApicInit \/ WalkProc \/ WalkOther \/ WalkEnd
  <2>1. apc' = apc
    BY <1>1 DEF Boot, BspBoot, BspGdt, BspTss, BspRefuse, BspIntr, BspMem, BspStack, BspTask,
       SmpSearch, ApicInit, WalkProc, WalkOther, WalkEnd, apVars
  <2>2. ready \subseteq ready'
    BY <1>1 DEF Boot, BspBoot, BspGdt, BspTss, BspRefuse, BspIntr, BspMem, BspStack, BspTask,
       SmpSearch, ApicInit, WalkProc, WalkOther, WalkEnd, Prepare
  <2>3. Prepared(bpc') \subseteq ready'
    <3>1. CASE Boot
      BY <3>1 DEF ReadyInv, Prepared, Boot, BspBoot, BspGdt, BspTss, BspRefuse, BspIntr,
         BspMem, BspStack, BspTask, Prepare
    <3>2. CASE SmpSearch \/ ApicInit
      BY <3>2 DEF ReadyInv, Prepared, SmpSearch, ApicInit, Prepare
    <3>3. CASE WalkProc \/ WalkOther \/ WalkEnd
      BY <3>3 DEF ReadyInv, Prepared, WalkProc, WalkOther, WalkEnd, More
    <3>4. QED
      BY <1>1, <3>1, <3>2, <3>3
  <2>4. QED
    BY <2>1, <2>2, <2>3 DEF ReadyInv
<1>2. CASE SendInit \/ SendSipi1 \/ SendSipi2
  <2>1. bpc \in Sending /\ bpc' \in Sending /\ ready' = ready
    BY <1>2 DEF SendInit, SendSipi1, SendSipi2
  <2>2. Everything \subseteq ready
    BY <2>1 DEF ReadyInv, Prepared
  <2>3. apc' \in [APS -> Places \cup {"again"}]
    BY <1>2, ZenonT(40) DEF ReadyInv, SendInit, SendSipi1, SendSipi2, Deliver, Places
  <2>4. QED
    BY <2>1, <2>2, <2>3 DEF ReadyInv, Prepared
<1>3. QED
  BY <1>1, <1>2 DEF Bsp, Smp

\* An application processor moves only when it has been started.
LEMMA ApMoves ==
    ASSUME ReadyInv, NEW b \in APS, Ap(b)
    PROVE /\ bpc' = bpc /\ ready' = ready /\ apc[b] # "off"
          /\ \E p \in Places : apc' = [apc EXCEPT ![b] = p]
BY DEF Ap, ApBoot, ApGdt, ApScan, ApLow, ApHigh, ApLtr, ApIdt, ApPages, ApMount, ApEnable,
   ApBug, ApApic, ApTask, ApSti, ApLoad, ApStore, Goto, bspVars, Places

LEMMA ReadyStep == ReadyInv /\ [Next]_vars => ReadyInv'
<1> SUFFICES ASSUME ReadyInv, [Next]_vars PROVE ReadyInv'
  OBVIOUS
<1>1. CASE Bsp
  BY <1>1, ReadyBsp
<1>2. CASE \E b \in APS : Ap(b)
  <2>1. PICK b \in APS : Ap(b)
    BY <1>2
  <2>2. PICK p \in Places : apc' = [apc EXCEPT ![b] = p]
    BY <2>1, ApMoves
  <2>3. bpc' = bpc /\ ready' = ready /\ Everything \subseteq ready
    BY <2>1, ApMoves DEF ReadyInv
  <2>4. QED
    BY <2>2, <2>3 DEF ReadyInv
<1>3. CASE UNCHANGED machine
  BY <1>3 DEF machine, ReadyInv
<1>4. QED
  BY <1>1, <1>2, <1>3, NextCases

LEMMA ReadyUse == ReadyInv => ReadyBeforeUse
<1> SUFFICES ASSUME ReadyInv, NEW a \in APS PROVE Uses(apc[a]) \subseteq ready
  BY DEF ReadyBeforeUse
<1>1. CASE apc[a] = "off"
  BY <1>1 DEF Uses
<1>2. CASE apc[a] # "off"
  <2>1. Everything \subseteq ready
    BY <1>2 DEF ReadyInv
  <2>2. Uses(apc[a]) \subseteq Everything
    BY DEF Uses, Everything
  <2>3. QED
    BY <2>1, <2>2
<1>3. QED
  BY <1>1, <1>2

\* kernel.c:62 and the order of the calls in kernel_start and kernel_run: the
\* boot stack is free and every table is built before a processor uses it.
THEOREM SmpReadyBeforeUse == Spec => []ReadyBeforeUse
BY ReadyInit, ReadyStep, ReadyUse, PTL DEF Spec

(***************************************************************************)
(* NoEarlyInterrupts                                                       *)
(***************************************************************************)
HasSeg == {"lo", "hi", "ltr"}
HasTss == {"idt"}
HasIdt == {"pages", "mount", "enable", "bug", "apic", "task", "sti", "load", "store", "idle"}
MayEnable == HasIdt \ {"pages", "mount"}

CpuInv(a) ==
    /\ apc[a] \in HasSeg => seg[a] \in 1 .. LAST_SEG
    /\ apc[a] \in HasTss \cup HasIdt => tr[a] # 0
    /\ apc[a] \in HasIdt => idtr[a]
    /\ iff[a] = 1 => apc[a] \in MayEnable

EarlyInv ==
    /\ apc \in [APS -> Places \cup {"again"}]
    /\ seg \in [APS -> Int] /\ iff \in [APS -> {0, 1}]
    /\ idtr \in [APS -> BOOLEAN] /\ tr \in [CPUS -> Int]
    /\ \A a \in APS : CpuInv(a)

LEMMA EarlyInit == Init => EarlyInv
BY DEF Init, EarlyInv, CpuInv, HasSeg, HasTss, HasIdt, MayEnable, Places, CPUS

LEMMA EarlyBsp == EarlyInv /\ Bsp => EarlyInv'
<1> SUFFICES ASSUME EarlyInv, Bsp PROVE EarlyInv'
  OBVIOUS
<1> USE BootAssumption DEF EarlyInv, CpuInv, HasSeg, HasTss, HasIdt, MayEnable, Places, CPUS
<1>1. CASE BspBoot \/ BspGdt \/ BspRefuse \/ BspIntr \/ BspMem \/ BspStack \/ BspTask
           \/ SmpSearch \/ ApicInit \/ WalkProc \/ WalkOther \/ WalkEnd
  BY <1>1 DEF BspBoot, BspGdt, BspRefuse, BspIntr, BspMem, BspStack, BspTask,
     SmpSearch, ApicInit, WalkProc, WalkOther, WalkEnd, apVars
<1>2. CASE \E s \in 1 .. LAST_SEG : BspTss(s)
  BY <1>2 DEF BspTss, apVars
<1>3. CASE SendInit
  <2>1. /\ apc' \in [APS -> Places \cup {"again"}] /\ iff' \in [APS -> {0, 1}]
        /\ tr' \in [CPUS -> Int] /\ seg' = seg
    BY <1>3 DEF SendInit
  <2>2. idtr' \in [APS -> BOOLEAN]
    BY <1>3, Zenon DEF SendInit
  <2>3. ASSUME NEW a \in APS PROVE CpuInv(a)'
    <3>1. CASE a = Entry.id
      <4>1. apc'[a] = "wait" /\ iff'[a] = 0
        BY <1>3, <3>1 DEF SendInit
      <4>2. QED
        BY <4>1
    <3>2. CASE a # Entry.id
      <4>1. apc'[a] = apc[a] /\ iff'[a] = iff[a] /\ tr'[a] = tr[a] /\ seg'[a] = seg[a]
        BY <1>3, <3>2 DEF SendInit
      <4>2. idtr'[a] = idtr[a]
        BY <1>3, <3>2, Zenon DEF SendInit
      <4>3. CpuInv(a)
        OBVIOUS
      <4>4. QED
        BY <4>1, <4>2, <4>3
    <3>3. QED
      BY <3>1, <3>2
  <2>4. QED
    BY <2>1, <2>2, <2>3
<1>4. CASE SendSipi1 \/ SendSipi2
  BY <1>4 DEF SendSipi1, SendSipi2, Deliver
<1>5. QED
  BY <1>1, <1>2, <1>3, <1>4 DEF Bsp, Boot, Smp

LEMMA EarlyAp == ASSUME EarlyInv, NEW b \in APS, Ap(b) PROVE EarlyInv'
<1> USE DEF EarlyInv, CpuInv, HasSeg, HasTss, HasIdt, MayEnable, Places, CPUS, Goto
<1>1. CASE ApBoot(b)
  BY <1>1 DEF ApBoot
<1>2. CASE ApGdt(b) \/ ApLow(b) \/ ApHigh(b)
  BY <1>2 DEF ApGdt, ApLow, ApHigh
<1>3. CASE \E s \in 1 .. LAST_SEG : ApScan(b, s)
  BY <1>3 DEF ApScan
<1>4. CASE ApLtr(b)
  BY <1>4 DEF ApLtr
<1>5. CASE ApIdt(b)
  BY <1>5 DEF ApIdt
<1>6. CASE ApPages(b)
  BY <1>6 DEF ApPages
<1>7. CASE ApMount(b)
  BY <1>7 DEF ApMount
<1>8. CASE ApEnable(b)
  BY <1>8 DEF ApEnable
<1>9. CASE ApBug(b)
  BY <1>9 DEF ApBug
<1>10. CASE ApApic(b) \/ ApTask(b) \/ ApSti(b)
  BY <1>10 DEF ApApic, ApTask, ApSti
<1>11. CASE ApLoad(b) \/ ApStore(b)
  BY <1>11 DEF ApLoad, ApStore
<1>12. QED
  BY <1>1, <1>2, <1>3, <1>4, <1>5, <1>6, <1>7, <1>8, <1>9, <1>10, <1>11 DEF Ap

\* A processor's interrupts stay off until its IDT and its TSS are loaded,
\* although page_init_ap turns them on as early as its first mount_page_t.
THEOREM SmpNoEarlyInterrupts == Spec => []NoEarlyInterrupts
<1>1. EarlyInv /\ [Next]_vars => EarlyInv'
  <2>1. EarlyInv /\ UNCHANGED machine => EarlyInv'
    BY DEF EarlyInv, CpuInv, machine
  <2>2. QED
    BY <2>1, EarlyBsp, EarlyAp, NextCases
<1>2. EarlyInv => NoEarlyInterrupts
  BY DEF EarlyInv, CpuInv, NoEarlyInterrupts, MayEnable, HasIdt
<1>3. QED
  BY <1>1, <1>2, EarlyInit, PTL DEF Spec

(***************************************************************************)
(* StartedAsListed: smp_init walks the list once, and ap_init makes every  *)
(* processor it meets run from its reset to the trampoline exactly once.   *)
(***************************************************************************)
Waking == {"init", "sipi1", "sipi2"}
ProcEntry(a) == [kind |-> "proc", id |-> a, bsp |-> FALSE]
InFront(es, j) == \A k \in 1 .. (j - 1) : es[k].kind # "unknown"
SeenIn(es, m, a) == \E j \in DOMAIN es : j < m /\ es[j] = ProcEntry(a) /\ InFront(es, j)

\* The list is finite, a processor has its three fields and appears once, as the
\* MultiProcessor Specification asks of a BIOS.
EntriesOnce ==
    \A f \in FIRMWARE :
        /\ Len(f.entries) \in Nat
        /\ \A j \in DOMAIN f.entries :
             LET e == f.entries[j]
             IN e.kind = "proc" => e.bsp \in BOOLEAN /\ e = [kind |-> "proc", id |-> e.id, bsp |-> e.bsp]
        /\ \A j, k \in DOMAIN f.entries :
             f.entries[j].kind = "proc" /\ f.entries[k].kind = "proc"
               /\ f.entries[j].id = f.entries[k].id => j = k

StartOf(a) ==
    /\ apc[a] = "wait" => bpc \in {"sipi1", "sipi2"} /\ Entry.id = a
    /\ bpc \in Sending =>
         IF SeenIn(fw.entries, i, a) THEN started[a] = 1
         ELSE IF bpc \in {"sipi1", "sipi2"} /\ Entry.id = a
              THEN started[a] = IF apc[a] = "wait" THEN 0 ELSE 1
              ELSE started[a] = 0 /\ apc[a] = "off"
    /\ bpc = "sipi1" /\ Entry.id = a => apc[a] = "wait"
    /\ bpc = "done" => started[a] = IF a \in Listed THEN 1 ELSE 0
    /\ bpc \notin Sending \cup {"done"} => started[a] = 0 /\ apc[a] = "off"

StartInv ==
    /\ fw \in FIRMWARE
    /\ apc \in [APS -> Places] /\ started \in [APS -> Nat]
    /\ bpc \in {"mem", "stack", "task", "smp", "apic"} \cup Sending => fw.multiboot
    /\ bpc \in {"apic"} \cup Sending => fw.found = "table"
    /\ bpc \in Sending => /\ i \in 1 .. (Len(fw.entries) + 1)
                          /\ i <= Len(fw.entries) => InFront(fw.entries, i)
    /\ bpc \in Waking => i <= Len(fw.entries) /\ Wakes(Entry)
    /\ \A a \in APS : StartOf(a)

LEMMA StartInit == Init => StartInv
BY DEF Init, StartInv, StartOf, Places, Sending, Waking

\* The entry ap_init works on is that of the processor it names, and not one of
\* the entries passed before.
LEMMA WakesOne ==
  ASSUME EntriesOnce, NEW es, NEW m, NEW f \in FIRMWARE, es = f.entries,
         m \in DOMAIN es, Wakes(es[m]), NEW a, a = es[m].id
  PROVE  es[m] = ProcEntry(a) /\ ~SeenIn(es, m, a)
<1>1. DOMAIN es = 1 .. Len(es) /\ Len(es) \in Nat /\ m \in Int
  BY BootAssumption DEF BootAssumption, EntriesOnce
<1>2. es[m] = ProcEntry(a)
  <2>1. es[m].kind = "proc" /\ m \in DOMAIN f.entries
    BY DEF Wakes
  <2>2. es[m] = [kind |-> "proc", id |-> a, bsp |-> es[m].bsp]
    BY <2>1 DEF EntriesOnce
  <2>3. es[m].bsp = FALSE
    BY <2>1, Zenon DEF EntriesOnce, Wakes
  <2> QED
    BY <2>2, <2>3 DEF ProcEntry
<1>3. ASSUME NEW j \in DOMAIN es, j < m, es[j] = ProcEntry(a) PROVE FALSE
  <2>1. es[j].kind = "proc" /\ es[j].id = a
    BY <1>3 DEF ProcEntry
  <2>2. j = m
    BY <2>1 DEF EntriesOnce, Wakes
  <2> QED
    BY <1>1, <1>3, <2>2
<1> QED
  BY <1>2, <1>3 DEF SeenIn

\* An entry that is none of a's adds nothing to what was seen of a.
LEMMA SeenNext ==
  ASSUME EntriesOnce, NEW f \in FIRMWARE, NEW es, es = f.entries, NEW m \in DOMAIN es,
         InFront(es, m), NEW a
  PROVE  /\ es[m] # ProcEntry(a) => (SeenIn(es, m + 1, a) <=> SeenIn(es, m, a))
         /\ es[m] = ProcEntry(a) => SeenIn(es, m + 1, a)
         /\ es[m].kind = "unknown" => (SeenIn(es, Len(es) + 1, a) <=> SeenIn(es, m, a))
<1>1. DOMAIN es = 1 .. Len(es) /\ Len(es) \in Nat /\ m \in Int
  BY BootAssumption DEF BootAssumption, EntriesOnce
<1>2. \A j \in DOMAIN es : j < m + 1 <=> j < m \/ j = m
  BY <1>1
<1>3. \A j \in DOMAIN es : j < m => j < Len(es) + 1
  BY <1>1
<1>4. ASSUME es[m].kind = "unknown", NEW j \in DOMAIN es, es[j] = ProcEntry(a), InFront(es, j)
      PROVE  j < m
  <2>1. j # m
    BY <1>4 DEF ProcEntry
  <2>2. ~(m \in 1 .. (j - 1))
    BY <1>4 DEF InFront
  <2> QED
    BY <1>1, <2>1, <2>2
<1> QED
  BY <1>2, <1>3, <1>4 DEF SeenIn

\* At the end of the list the seen processors are the listed ones.
LEMMA SeenAll ==
  ASSUME EntriesOnce, fw \in FIRMWARE, fw.multiboot, fw.found = "table", NEW a \in APS
  PROVE  a \in Listed <=> SeenIn(fw.entries, Len(fw.entries) + 1, a)
<1>1. DOMAIN fw.entries = 1 .. Len(fw.entries) /\ Len(fw.entries) \in Nat
  BY BootAssumption DEF BootAssumption, EntriesOnce
<1>2. \A j \in DOMAIN fw.entries : j < Len(fw.entries) + 1
  BY <1>1
<1> QED
  BY <1>2 DEF Listed, SeenIn, ProcEntry, InFront

LEMMA StartBsp == ASSUME EntriesOnce, StartInv, Bsp PROVE StartInv'
<1> USE DEF Sending, Waking
<1>1. CASE Boot
  <2>1. /\ fw' = fw /\ apc' = apc /\ started' = started
        /\ bpc' \in {"gdt", "tss", "magic", "halt", "mem", "stack", "task", "smp"}
        /\ bpc \in {"boot", "gdt", "tss", "magic", "mem", "stack", "task"}
    BY <1>1 DEF Boot, BspBoot, BspGdt, BspTss, BspRefuse, BspIntr, BspMem, BspStack, BspTask,
       Prepare, apVars
  <2>2. bpc' \in {"mem", "stack", "task", "smp"} => fw.multiboot
    BY <1>1, Zenon DEF Boot, BspBoot, BspGdt, BspTss, BspRefuse, BspIntr, BspMem, BspStack, BspTask,
       Prepare, StartInv
  <2> QED
    BY <2>1, <2>2 DEF StartInv, StartOf
<1>2. CASE SmpSearch
  <2>1. /\ fw' = fw /\ apc' = apc /\ started' = started /\ bpc = "smp"
        /\ bpc' = IF fw.found = "table" THEN "apic" ELSE "done"
    BY <1>2 DEF SmpSearch, Prepare, apVars
  <2>2. bpc' = "done" => Listed' = {}
    BY <2>1 DEF Listed
  <2> QED
    BY <2>1, <2>2 DEF StartInv, StartOf
<1>3. CASE ApicInit
  <2>1. /\ fw' = fw /\ apc' = apc /\ started' = started /\ bpc = "apic" /\ bpc' = "walk" /\ i' = 1
    BY <1>3 DEF ApicInit, Prepare, apVars
  <2>2. Len(fw.entries) \in Nat /\ DOMAIN fw.entries = 1 .. Len(fw.entries)
    BY BootAssumption DEF BootAssumption, EntriesOnce, StartInv
  <2>3. InFront(fw.entries, 1) /\ \A a \in APS : ~SeenIn(fw.entries, 1, a)
    BY <2>2 DEF InFront, SeenIn
  <2> QED
    BY <2>1, <2>2, <2>3 DEF StartInv, StartOf
<1>4. CASE WalkProc
  <2>1. /\ fw' = fw /\ apc' = apc /\ started' = started /\ bpc = "walk" /\ bpc' = "init" /\ i' = i
        /\ i <= Len(fw.entries) /\ Wakes(Entry)
    BY <1>4 DEF WalkProc, More, apVars
  <2>2. Wakes(Entry)'
    BY <2>1 DEF Wakes, Entry
  <2>3. ASSUME NEW a \in APS PROVE StartOf(a)'
    BY <2>1 DEF StartInv, StartOf
  <2> QED
    BY <2>1, <2>2, <2>3 DEF StartInv
<1>5. CASE WalkOther
  <2> DEFINE es == fw.entries
  <2>1. /\ fw' = fw /\ apc' = apc /\ started' = started /\ bpc = "walk" /\ bpc' = "walk"
        /\ i <= Len(es) /\ ~Wakes(es[i])
        /\ i' = IF es[i].kind = "unknown" THEN Len(es) + 1 ELSE i + 1
    BY <1>5 DEF WalkOther, More, apVars, Entry
  <2>2. /\ Len(es) \in Nat /\ DOMAIN es = 1 .. Len(es) /\ i \in DOMAIN es /\ InFront(es, i)
        /\ fw \in FIRMWARE
    BY <2>1, BootAssumption DEF BootAssumption, EntriesOnce, StartInv
  <2>3. ASSUME NEW a \in APS PROVE es[i] # ProcEntry(a)
    BY <2>1, BootAssumption DEF BootAssumption, BSP, Wakes, ProcEntry
  <2>4. ASSUME NEW a \in APS PROVE SeenIn(es, i', a) <=> SeenIn(es, i, a)
    <3> HIDE DEF es
    <3>1. /\ es[i].kind = "unknown" => (SeenIn(es, Len(es) + 1, a) <=> SeenIn(es, i, a))
          /\ SeenIn(es, i + 1, a) <=> SeenIn(es, i, a)
      BY <2>2, <2>3, SeenNext DEF es
    <3> QED
      BY <2>1, <3>1
  <2>5. i' \in 1 .. (Len(es) + 1) /\ (i' <= Len(es) => InFront(es, i'))
    BY <2>1, <2>2 DEF InFront
  <2>6. ASSUME NEW a \in APS PROVE StartOf(a)'
    BY <2>1, <2>4 DEF StartInv, StartOf
  <2> QED
    BY <2>1, <2>2, <2>5, <2>6 DEF StartInv
<1>6. CASE WalkEnd
  <2>1. /\ fw' = fw /\ apc' = apc /\ started' = started /\ bpc = "walk" /\ bpc' = "done" /\ i' = i
        /\ i > Len(fw.entries) /\ Len(fw.entries) \in Nat /\ i \in 1 .. (Len(fw.entries) + 1)
    BY <1>6 DEF WalkEnd, apVars, StartInv, EntriesOnce
  <2>2. i = Len(fw.entries) + 1
    BY <2>1
  <2>3. Listed' = Listed
    BY <2>1 DEF Listed
  <2>4. ASSUME NEW a \in APS PROVE a \in Listed <=> SeenIn(fw.entries, i, a)
    BY <2>1, <2>2, SeenAll DEF StartInv
  <2>5. ASSUME NEW a \in APS PROVE StartOf(a)'
    BY <2>1, <2>3, <2>4 DEF StartInv, StartOf
  <2> QED
    BY <2>1, <2>5 DEF StartInv
<1>7. ASSUME bpc \in Waking, fw' = fw
      PROVE  /\ i \in DOMAIN fw.entries /\ InFront(fw.entries, i) /\ Len(fw.entries) \in Nat
             /\ DOMAIN fw.entries = 1 .. Len(fw.entries) /\ fw \in FIRMWARE
             /\ ~SeenIn(fw.entries, i, Entry.id)
             /\ \A a : a = Entry.id => fw.entries[i] = ProcEntry(a)
  <2>1. /\ Len(fw.entries) \in Nat /\ DOMAIN fw.entries = 1 .. Len(fw.entries)
        /\ i \in DOMAIN fw.entries /\ InFront(fw.entries, i) /\ fw \in FIRMWARE
        /\ Wakes(fw.entries[i])
    BY <1>7, BootAssumption DEF BootAssumption, EntriesOnce, StartInv, Entry
  <2> QED
    BY <2>1, WakesOne, ZenonT(40) DEF Entry
<1>8. CASE SendInit
  <2>1. /\ fw' = fw /\ i' = i /\ started' = started /\ bpc = "init" /\ bpc' = "sipi1" /\ Entry' = Entry
        /\ apc' = [a \in APS |-> IF a = Entry.id THEN "wait" ELSE apc[a]]
    BY <1>8 DEF SendInit, Entry
  <2>2. ~SeenIn(fw.entries, i, Entry.id) /\ Wakes(Entry)'
    BY <1>7, <2>1 DEF StartInv, Wakes
  <2>3. ASSUME NEW a \in APS PROVE StartOf(a)'
    <3>1. StartOf(a)
      BY DEF StartInv
    <3> QED
      BY <2>1, <2>2, <3>1 DEF StartOf
  <2>4. apc' \in [APS -> Places]
    BY <2>1 DEF StartInv, Places
  <2> QED
    BY <2>1, <2>2, <2>3, <2>4 DEF StartInv
<1>9. CASE SendSipi1
  <2>1. /\ fw' = fw /\ i' = i /\ bpc = "sipi1" /\ bpc' = "sipi2" /\ Entry' = Entry
    BY <1>9 DEF SendSipi1, Entry
  <2>2. ~SeenIn(fw.entries, i, Entry.id) /\ Wakes(Entry)'
    BY <1>7, <2>1 DEF StartInv, Wakes
  <2>3. ASSUME NEW a \in APS
        PROVE  /\ a # Entry.id => apc'[a] = apc[a] /\ started'[a] = started[a]
               /\ a = Entry.id => \/ apc'[a] = "wait" /\ started'[a] = 0
                                  \/ apc'[a] = "tramp" /\ started'[a] = 1
    <3>1. StartOf(a) /\ started[a] \in Nat
      BY DEF StartInv
    <3> QED
      BY <1>9, <2>1, <2>2, <3>1 DEF StartOf, SendSipi1, Deliver
  <2>4. ASSUME NEW a \in APS PROVE StartOf(a)'
    <3>1. StartOf(a)
      BY DEF StartInv
    <3> QED
      BY <2>1, <2>2, <2>3, <3>1 DEF StartOf
  <2>5. apc' \in [APS -> Places] /\ started' \in [APS -> Nat]
    BY <1>9 DEF StartInv, Places, SendSipi1, Deliver
  <2> QED
    BY <2>1, <2>2, <2>4, <2>5 DEF StartInv
<1>10. CASE SendSipi2
  <2> DEFINE es == fw.entries
  <2>1. /\ fw' = fw /\ i' = i + 1 /\ bpc = "sipi2" /\ bpc' = "walk"
    BY <1>10 DEF SendSipi2
  <2>2. /\ i \in DOMAIN es /\ InFront(es, i) /\ Len(es) \in Nat
        /\ DOMAIN es = 1 .. Len(es) /\ fw \in FIRMWARE
        /\ ~SeenIn(es, i, Entry.id)
        /\ \A a : a = Entry.id => es[i] = ProcEntry(a)
    BY <1>7, <2>1
  <2>3. i + 1 \in 1 .. (Len(es) + 1) /\ (i + 1 <= Len(es) => InFront(es, i + 1))
    <3>1. es[i].kind = "proc"
      <4>1. es[i] = ProcEntry(Entry.id)
        BY <2>2
      <4> QED
        BY <4>1 DEF ProcEntry
    <3> QED
      BY <2>2, <3>1 DEF InFront
  <2>4. ASSUME NEW a \in APS
        PROVE  /\ a # Entry.id => apc'[a] = apc[a] /\ started'[a] = started[a]
               /\ a = Entry.id => apc'[a] # "wait" /\ started'[a] = 1
    <3>1. StartOf(a) /\ started[a] \in Nat
      BY DEF StartInv
    <3> QED
      BY <1>10, <2>1, <2>2, <3>1 DEF StartOf, SendSipi2, Deliver
  <2>5. ASSUME NEW a \in APS
        PROVE  SeenIn(es, i + 1, a) <=> SeenIn(es, i, a) \/ a = Entry.id
    <3>1. a # Entry.id => es[i] # ProcEntry(a)
      BY DEF Entry, ProcEntry
    <3>2. /\ es[i] # ProcEntry(a) => (SeenIn(es, i + 1, a) <=> SeenIn(es, i, a))
          /\ es[i] = ProcEntry(a) => SeenIn(es, i + 1, a)
      <4> HIDE DEF es
      <4> QED
        BY <2>2, SeenNext DEF es
    <3> QED
      BY <2>2, <3>1, <3>2
  <2>6. ASSUME NEW a \in APS PROVE StartOf(a)'
    <3>1. StartOf(a)
      BY DEF StartInv
    <3> QED
      BY <2>1, <2>2, <2>4, <2>5, <3>1 DEF StartOf
  <2>7. apc' \in [APS -> Places] /\ started' \in [APS -> Nat]
    BY <1>10 DEF StartInv, Places, SendSipi2, Deliver
  <2> QED
    BY <2>1, <2>2, <2>3, <2>6, <2>7 DEF StartInv
<1> QED
  BY <1>1, <1>2, <1>3, <1>4, <1>5, <1>6, <1>8, <1>9, <1>10 DEF Bsp, Smp

\* What an application processor does is behind its start.
LEMMA StartAp == ASSUME StartInv, NEW b \in APS, Ap(b) PROVE StartInv'
<1>1. /\ bpc' = bpc /\ i' = i /\ fw' = fw /\ started' = started /\ apc[b] \notin {"off", "wait"}
      /\ \E p \in Places \ {"off", "wait"} : apc' = [apc EXCEPT ![b] = p]
  BY DEF Ap, ApBoot, ApGdt, ApScan, ApLow, ApHigh, ApLtr, ApIdt, ApPages, ApMount, ApEnable,
     ApBug, ApApic, ApTask, ApSti, ApLoad, ApStore, Goto, bspVars, Places
<1>2. Entry' = Entry /\ Listed' = Listed /\ (Wakes(Entry) => Wakes(Entry)')
  BY <1>1 DEF Entry, Listed, Wakes
<1>3. PICK p \in Places \ {"off", "wait"} : apc' = [apc EXCEPT ![b] = p]
  BY <1>1
<1>4. ASSUME NEW a \in APS PROVE StartOf(a)'
  <2>1. StartOf(a) /\ StartOf(b) /\ apc \in [APS -> Places]
    BY DEF StartInv
  <2>2. CASE a = b
    BY <1>1, <1>2, <1>3, <2>1, <2>2 DEF StartOf, Sending
  <2>3. CASE a # b
    BY <1>1, <1>2, <1>3, <2>1, <2>3 DEF StartOf
  <2> QED
    BY <2>2, <2>3
<1> QED
  BY <1>1, <1>2, <1>3, <1>4 DEF StartInv

LEMMA StartStep == ASSUME EntriesOnce, StartInv, [Next]_vars PROVE StartInv'
<1>1. CASE UNCHANGED machine
  <2>1. fw' = fw /\ bpc' = bpc /\ i' = i /\ apc' = apc /\ started' = started
    BY <1>1 DEF machine
  <2>2. Entry' = Entry /\ Listed' = Listed /\ (Wakes(Entry) => Wakes(Entry)')
    BY <2>1 DEF Entry, Listed, Wakes
  <2>3. ASSUME NEW a \in APS PROVE StartOf(a)'
    BY <2>1, <2>2 DEF StartInv, StartOf
  <2> QED
    BY <2>1, <2>2, <2>3 DEF StartInv
<1> QED
  BY <1>1, StartBsp, StartAp, NextCases

LEMMA StartListed == ASSUME EntriesOnce, StartInv PROVE StartedAsListed
<1> SUFFICES ASSUME NEW a \in APS
             PROVE  /\ started[a] \in (IF a \in Listed THEN {0, 1} ELSE {0})
                    /\ bpc = "done" /\ a \in Listed => started[a] = 1
  BY DEF StartedAsListed, Listed
<1>1. StartOf(a)
  BY DEF StartInv
<1>2. CASE bpc \in Sending
  <2> DEFINE es == fw.entries
  <2>1. /\ Len(es) \in Nat /\ DOMAIN es = 1 .. Len(es) /\ fw \in FIRMWARE
        /\ i \in 1 .. (Len(es) + 1) /\ fw.multiboot /\ fw.found = "table"
        /\ i <= Len(es) => InFront(es, i)
    BY <1>2, BootAssumption DEF BootAssumption, EntriesOnce, StartInv
  <2>2. a \in Listed <=> SeenIn(es, Len(es) + 1, a)
    BY <2>1, SeenAll
  <2>3. SeenIn(es, i, a) => SeenIn(es, Len(es) + 1, a)
    BY <2>1 DEF SeenIn
  <2>4. ASSUME bpc \in {"sipi1", "sipi2"}, Entry.id = a PROVE SeenIn(es, Len(es) + 1, a)
    <3>1. i \in DOMAIN es /\ Wakes(es[i]) /\ a = es[i].id
      BY <2>1, <2>4 DEF StartInv, Waking, Entry
    <3>2. es[i] = ProcEntry(a)
      BY <2>1, <3>1, WakesOne
    <3>3. i \in DOMAIN es /\ i < Len(es) + 1 /\ InFront(es, i)
      BY <2>1, <3>1
    <3> QED
      BY <3>2, <3>3 DEF SeenIn
  <2> QED
    BY <1>1, <1>2, <2>2, <2>3, <2>4 DEF StartOf, Sending
<1>3. CASE bpc \notin Sending
  BY <1>1, <1>3 DEF StartOf, Sending
<1> QED
  BY <1>2, <1>3

\* apic.c:250-304, ap_init: the INIT and the two start-up messages, the first of which may
\* get lost, take every listed processor through the trampoline exactly once,
\* and nobody else, for any number of processors and any list.
THEOREM SmpStartedAsListed == ASSUME EntriesOnce PROVE Spec => []StartedAsListed
<1>1. StartInv /\ [Next]_vars => StartInv'
  BY StartStep
<1>2. StartInv => StartedAsListed
  BY StartListed
<1> QED
  BY <1>1, <1>2, StartInit, PTL DEF Spec

(***************************************************************************)
(* TssOwn with one application processor: nobody fills the table between   *)
(* its search and its two stores.  (Two processors may find the same entry;*)
(* a second INIT would let one processor take a second entry.)             *)
(***************************************************************************)
OneAp == (\A a, b \in APS : a = b) /\ GDT_SIZE >= 9

NoTss == {"off", "wait", "tramp", "again", "gdt", "scan"}

KernelPart ==
    /\ bpc \in {"boot", "gdt"} => \A s \in 1 .. 8 : gdt[s] = Zero
    /\ bpc \notin {"boot", "gdt"} => \A s \in 1 .. 4 : gdt[s] = <<"segment">>
    /\ bpc = "tss" => \A s \in 5 .. 8 : gdt[s] = Zero
    /\ IF bpc \in {"boot", "gdt", "tss"} THEN tr[BSP] = 0
       ELSE tr[BSP] = 5 /\ gdt[5] = <<"low", BSP>> /\ gdt[6] = <<"high", BSP>>

ApPart(a) ==
    /\ apc[a] \in NoTss \cup {"lo"} => gdt[7] = Zero /\ gdt[8] = Zero
    /\ apc[a] \in HasSeg => seg[a] = 7
    /\ apc[a] = "hi" => gdt[7] = <<"low", a>> /\ gdt[8] = Zero
    /\ apc[a] \notin NoTss \cup {"lo", "hi"} => gdt[7] = <<"low", a>> /\ gdt[8] = <<"high", a>>
    /\ tr[a] = IF apc[a] \in NoTss \cup HasSeg THEN 0 ELSE 7

TssInv ==
    /\ DOMAIN gdt = 0 .. (GDT_SIZE - 1)
    /\ tr \in [CPUS -> Int] /\ seg \in [APS -> Int]
    /\ KernelPart
    /\ \A a \in APS : ApPart(a)

LEMMA EntriesNotZero ==
  /\ <<"segment">> # Zero
  /\ \A a : <<"low", a>> # Zero /\ <<"high", a>> # Zero
BY DEF Zero

\* GDT_smartaput finds the first free entry.
LEMMA FreeSegIs ==
  ASSUME NEW g, NEW m \in Nat, DOMAIN g = 0 .. m, NEW k \in 1 .. m, g[k] = Zero,
         \A t \in 1 .. (k - 1) : g[t] # Zero, NEW s \in 1 .. LAST_SEG, FreeSeg(g, s)
  PROVE  s = k
<1>1. s >= k
  BY DEF FreeSeg
<1>2. ~(k \in 1 .. (s - 1))
  BY DEF FreeSeg
<1> QED
  BY <1>1, <1>2, BootAssumption DEF BootAssumption

LEMMA TssInit == ASSUME OneAp PROVE Init => TssInv
<1> SUFFICES ASSUME Init PROVE TssInv
  OBVIOUS
<1>1. \A s \in 1 .. 8 : s \in 0 .. (GDT_SIZE - 1)
  BY BootAssumption DEF BootAssumption, OneAp
<1> QED
  BY <1>1 DEF Init, TssInv, KernelPart, ApPart, NoTss, HasSeg, CPUS, Zero

LEMMA TssBsp == ASSUME OneAp, StartInv, TssInv, EntriesOnce, Bsp PROVE TssInv'
<1>0. /\ DOMAIN gdt = 0 .. (GDT_SIZE - 1) /\ tr \in [CPUS -> Int] /\ BSP \in CPUS /\ APS \subseteq CPUS
      /\ GDT_SIZE \in Nat /\ GDT_SIZE >= 9 /\ LAST_SEG \in Nat /\ BSP \notin APS
  BY BootAssumption DEF BootAssumption, OneAp, TssInv, CPUS
<1>01. \A s \in 0 .. 8 : s \in DOMAIN gdt
  BY <1>0
<1>02. ASSUME gdt' = gdt, tr' = tr, seg' = seg, apc' = apc,
              bpc \notin {"boot", "gdt", "tss"}, bpc' \notin {"boot", "gdt", "tss"}
       PROVE  TssInv'
  BY <1>02 DEF TssInv, KernelPart, ApPart
<1>1. CASE BspBoot
  <2>1. gdt' = gdt /\ tr' = tr /\ seg' = seg /\ apc' = apc /\ bpc = "boot" /\ bpc' = "gdt"
    BY <1>1 DEF BspBoot, Prepare, apVars
  <2> QED
    BY <2>1 DEF TssInv, KernelPart, ApPart
<1>2. CASE BspGdt
  <2>1. /\ gdt' = [s \in DOMAIN gdt |-> IF s \in 1 .. 4 THEN <<"segment">> ELSE gdt[s]]
        /\ tr' = tr /\ seg' = seg /\ apc' = apc /\ bpc = "gdt" /\ bpc' = "tss"
    BY <1>2 DEF BspGdt, Prepare, apVars
  <2>2. \A a \in APS : apc[a] = "off"
    BY <2>1 DEF StartInv, StartOf, Sending
  <2>3. /\ DOMAIN gdt' = DOMAIN gdt /\ \A s \in 1 .. 4 : gdt'[s] = <<"segment">>
        /\ \A s \in 5 .. 8 : gdt'[s] = gdt[s]
    BY <1>01, <2>1
  <2>4. \A s \in 5 .. 8 : gdt[s] = Zero
    BY <2>1 DEF TssInv, KernelPart
  <2> QED
    BY <1>0, <2>1, <2>2, <2>3, <2>4 DEF TssInv, KernelPart, ApPart, NoTss, HasSeg
<1>3. ASSUME NEW s \in 1 .. LAST_SEG, BspTss(s) PROVE TssInv'
  <2>1. /\ FreeSeg(gdt, s) /\ tr' = [tr EXCEPT ![BSP] = s]
        /\ gdt' = Put(Put(gdt, s, <<"low", BSP>>), s + 1, <<"high", BSP>>)
        /\ seg' = seg /\ apc' = apc /\ bpc = "tss" /\ bpc' = "magic"
    BY <1>3 DEF BspTss, Prepare, apVars
  <2>2. \A t \in 5 .. 8 : gdt[t] = Zero
    BY <2>1 DEF TssInv, KernelPart
  <2>3. \A t \in 1 .. 4 : gdt[t] = <<"segment">>
    BY <2>1 DEF TssInv, KernelPart
  <2>4. s = 5
    <3>1. GDT_SIZE - 1 \in Nat /\ 5 \in 1 .. (GDT_SIZE - 1) /\ gdt[5] = Zero
      BY <1>0, <2>2
    <3>2. \A t \in 1 .. (5 - 1) : gdt[t] # Zero
      BY <2>3, EntriesNotZero
    <3> QED
      BY <1>0, <2>1, <3>1, <3>2, FreeSegIs
  <2>5. /\ DOMAIN gdt' = DOMAIN gdt /\ gdt'[5] = <<"low", BSP>> /\ gdt'[6] = <<"high", BSP>>
        /\ \A t \in 1 .. 4 : gdt'[t] = gdt[t]
        /\ gdt'[7] = gdt[7] /\ gdt'[8] = gdt[8]
    BY <1>01, <2>1, <2>4 DEF Put
  <2>6. \A a \in APS : apc[a] = "off"
    BY <2>1 DEF StartInv, StartOf, Sending
  <2>7. tr'[BSP] = 5 /\ \A a \in APS : tr'[a] = tr[a]
    BY <1>0, <2>1, <2>4
  <2>8. tr' \in [CPUS -> Int]
    BY <1>0, <2>1, <2>4
  <2>9. KernelPart'
    BY <2>1, <2>3, <2>5, <2>7 DEF KernelPart
  <2>10. ASSUME NEW a \in APS PROVE ApPart(a)'
    <3>1. gdt'[7] = Zero /\ gdt'[8] = Zero
      BY <2>2, <2>5
    <3>2. apc'[a] = "off" /\ tr'[a] = tr[a] /\ tr[a] = 0
      BY <2>1, <2>6, <2>7 DEF TssInv, ApPart, NoTss
    <3> QED
      BY <3>1, <3>2 DEF ApPart, NoTss, HasSeg
  <2> QED
    BY <2>1, <2>5, <2>8, <2>9, <2>10 DEF TssInv
<1>4. CASE BspRefuse \/ BspIntr \/ BspMem \/ BspStack \/ BspTask \/ SmpSearch \/ ApicInit
           \/ WalkProc \/ WalkOther \/ WalkEnd
  BY <1>02, <1>4 DEF BspRefuse, BspIntr, BspMem, BspStack, BspTask, SmpSearch, ApicInit,
     WalkProc, WalkOther, WalkEnd, More, Prepare, apVars
<1>5. CASE SendInit
  <2>1. /\ fw' = fw /\ gdt' = gdt /\ seg' = seg /\ bpc = "init" /\ bpc' = "sipi1"
        /\ apc' = [a \in APS |-> IF a = Entry.id THEN "wait" ELSE apc[a]]
        /\ tr' = [x \in CPUS |-> IF x \in APS /\ x = Entry.id THEN 0 ELSE tr[x]]
    BY <1>5 DEF SendInit
  <2>2. ASSUME NEW a \in APS, a = Entry.id PROVE apc[a] = "off" /\ tr[a] = 0
    <3>1. /\ fw \in FIRMWARE /\ i \in DOMAIN fw.entries /\ Wakes(fw.entries[i])
      BY <2>1, BootAssumption DEF BootAssumption, StartInv, Sending, Waking, Entry, EntriesOnce
    <3>2. ~SeenIn(fw.entries, i, a)
      BY <2>2, <3>1, WakesOne DEF Entry
    <3>3. apc[a] = "off"
      BY <2>1, <3>2 DEF StartInv, StartOf, Sending
    <3> QED
      BY <3>3 DEF TssInv, ApPart, NoTss
  <2>3. tr' = tr
    BY <1>0, <2>1, <2>2
  <2>4. ASSUME NEW a \in APS PROVE ApPart(a)'
    BY <2>1, <2>2, <2>3 DEF TssInv, ApPart, NoTss, HasSeg
  <2> QED
    BY <2>1, <2>3, <2>4 DEF TssInv, KernelPart
<1>6. CASE SendSipi1 \/ SendSipi2
  <2>1. /\ gdt' = gdt /\ seg' = seg /\ tr' = tr
        /\ bpc \notin {"boot", "gdt", "tss"} /\ bpc' \notin {"boot", "gdt", "tss"}
    BY <1>6 DEF SendSipi1, SendSipi2
  <2>2. \A a \in APS : apc'[a] = apc[a] \/ (apc[a] = "wait" /\ apc'[a] = "tramp")
    <3>1. Deliver \/ apc' = apc
      BY <1>6 DEF SendSipi1, SendSipi2
    <3>2. ASSUME Deliver, NEW a \in APS
          PROVE  apc'[a] = apc[a] \/ (apc[a] = "wait" /\ apc'[a] = "tramp")
      BY <3>2 DEF Deliver
    <3> QED
      BY <3>1, <3>2
  <2> QED
    BY <2>1, <2>2, SMTT(30) DEF TssInv, KernelPart, ApPart, NoTss, HasSeg
<1> QED
  BY <1>1, <1>2, <1>3, <1>4, <1>5, <1>6 DEF Bsp, Boot, Smp

LEMMA TssAp == ASSUME OneAp, StartInv, TssInv, NEW b \in APS, Ap(b) PROVE TssInv'
<1>0. /\ DOMAIN gdt = 0 .. (GDT_SIZE - 1) /\ tr \in [CPUS -> Int] /\ APS = {b} /\ b \in CPUS
      /\ seg \in [APS -> Int] /\ apc \in [APS -> Places]
      /\ GDT_SIZE \in Nat /\ GDT_SIZE >= 9 /\ LAST_SEG \in Nat /\ BSP # b /\ BSP \in CPUS
  BY BootAssumption DEF BootAssumption, OneAp, TssInv, StartInv, CPUS
<1>01. 7 \in DOMAIN gdt /\ 8 \in DOMAIN gdt
  BY <1>0
<1>02. bpc' = bpc /\ bpc \notin {"boot", "gdt", "tss"}
  <2>1. bpc' = bpc /\ apc[b] # "off"
    BY DEF Ap, ApBoot, ApGdt, ApScan, ApLow, ApHigh, ApLtr, ApIdt, ApPages, ApMount, ApEnable,
       ApBug, ApApic, ApTask, ApSti, ApLoad, ApStore, Goto, bspVars
  <2> QED
    BY <2>1 DEF StartInv, StartOf, Sending
<1>03. ApPart(b) /\ KernelPart
  BY DEF TssInv
<1>04. ASSUME \A s \in 1 .. 6 : gdt'[s] = gdt[s], DOMAIN gdt' = DOMAIN gdt,
              tr' \in [CPUS -> Int], tr'[BSP] = tr[BSP], seg' \in [APS -> Int], ApPart(b)'
       PROVE  TssInv'
  BY <1>0, <1>02, <1>03, <1>04 DEF TssInv, KernelPart
<1>1. CASE ApBoot(b) \/ ApGdt(b)
  BY <1>0, <1>03, <1>04, <1>1 DEF ApBoot, ApGdt, Goto, ApPart, NoTss, HasSeg, bspVars
<1>2. ASSUME NEW s \in 1 .. LAST_SEG, ApScan(b, s) PROVE TssInv'
  <2>1. /\ gdt' = gdt /\ tr' = tr /\ seg' = [seg EXCEPT ![b] = s] /\ FreeSeg(gdt, s)
        /\ apc[b] = "scan" /\ apc'[b] = "lo"
    BY <1>0, <1>2 DEF ApScan, Goto
  <2>2. gdt[7] = Zero
    BY <1>03, <2>1 DEF ApPart, NoTss
  <2>3. \A t \in 1 .. 6 : gdt[t] # Zero
    <3>1. \A t \in 1 .. 4 : gdt[t] = <<"segment">>
      BY <1>02, <1>03 DEF KernelPart
    <3>2. gdt[5] = <<"low", BSP>> /\ gdt[6] = <<"high", BSP>>
      BY <1>02, <1>03 DEF KernelPart
    <3>3. \A t \in 1 .. 6 : t \in 1 .. 4 \/ t = 5 \/ t = 6
      OBVIOUS
    <3> QED
      BY <3>1, <3>2, <3>3, EntriesNotZero
  <2>4. s = 7
    <3>1. GDT_SIZE - 1 \in Nat /\ 7 \in 1 .. (GDT_SIZE - 1) /\ 7 - 1 = 6
      BY <1>0
    <3>2. \A t \in 1 .. (7 - 1) : gdt[t] # Zero
      BY <2>3, <3>1
    <3> HIDE DEF Zero
    <3>3. DOMAIN gdt = 0 .. (GDT_SIZE - 1) /\ FreeSeg(gdt, s) /\ gdt[7] = Zero
      BY <1>0, <2>1, <2>2
    <3> QED
      BY <3>1, <3>2, <3>3, FreeSegIs
  <2> QED
    BY <1>0, <1>03, <1>04, <2>1, <2>4 DEF ApPart, NoTss, HasSeg
<1>3. CASE ApLow(b)
  <2>1. /\ apc[b] = "lo" /\ apc'[b] = "hi" /\ seg[b] = 7 /\ tr' = tr /\ seg' = seg
        /\ gdt' = [gdt EXCEPT ![7] = <<"low", b>>]
    BY <1>0, <1>03, <1>3 DEF ApLow, Goto, Put, ApPart, HasSeg
  <2>2. /\ gdt'[7] = <<"low", b>> /\ gdt'[8] = gdt[8] /\ DOMAIN gdt' = DOMAIN gdt
        /\ \A s \in 1 .. 6 : gdt'[s] = gdt[s]
    BY <1>0, <1>01, <2>1
  <2> QED
    BY <1>0, <1>03, <1>04, <2>1, <2>2 DEF ApPart, NoTss, HasSeg
<1>4. CASE ApHigh(b)
  <2>1. /\ apc[b] = "hi" /\ apc'[b] = "ltr" /\ seg[b] = 7 /\ tr' = tr /\ seg' = seg
        /\ gdt' = [gdt EXCEPT ![8] = <<"high", b>>]
    BY <1>0, <1>03, <1>4 DEF ApHigh, Goto, Put, ApPart, HasSeg
  <2>2. /\ gdt'[8] = <<"high", b>> /\ gdt'[7] = gdt[7] /\ DOMAIN gdt' = DOMAIN gdt
        /\ \A s \in 1 .. 6 : gdt'[s] = gdt[s]
    BY <1>0, <1>01, <2>1
  <2> QED
    BY <1>0, <1>03, <1>04, <2>1, <2>2 DEF ApPart, NoTss, HasSeg
<1>5. CASE ApLtr(b)
  <2>1. /\ apc[b] = "ltr" /\ apc'[b] = "idt" /\ seg[b] = 7 /\ tr' = [tr EXCEPT ![b] = 7] /\ seg' = seg
        /\ gdt' = gdt
    BY <1>0, <1>03, <1>5 DEF ApLtr, Goto, ApPart, HasSeg
  <2> QED
    BY <1>0, <1>03, <1>04, <2>1 DEF ApPart, NoTss, HasSeg
<1>6. CASE ApIdt(b) \/ ApPages(b) \/ ApMount(b) \/ ApEnable(b) \/ ApBug(b)
           \/ ApApic(b) \/ ApTask(b) \/ ApSti(b) \/ ApLoad(b) \/ ApStore(b)
  <2>1. gdt' = gdt /\ tr' = tr /\ seg' = seg
    BY <1>6 DEF ApIdt, ApPages, ApMount, ApEnable, ApBug, ApApic, ApTask, ApSti, ApLoad, ApStore
  <2>2. apc[b] \notin NoTss \cup HasSeg /\ apc'[b] \notin NoTss \cup HasSeg
    BY <1>0, <1>6 DEF ApIdt, ApPages, ApMount, ApEnable, ApBug, ApApic, ApTask, ApSti, ApLoad,
       ApStore, Goto, NoTss, HasSeg
  <2> QED
    BY <1>0, <1>03, <1>04, <2>1, <2>2 DEF ApPart, NoTss, HasSeg
<1> QED
  BY <1>1, <1>2, <1>3, <1>4, <1>5, <1>6 DEF Ap

LEMMA TssIsOwn == ASSUME OneAp, StartInv, TssInv PROVE TssOwn
<1> SUFFICES ASSUME NEW c \in CPUS, tr[c] # 0
             PROVE  /\ {tr[c], tr[c] + 1} \subseteq DOMAIN gdt
                    /\ gdt[tr[c]] = <<"low", c>> /\ gdt[tr[c] + 1] = <<"high", c>>
  BY DEF TssOwn
<1>1. \A s \in 0 .. 8 : s \in DOMAIN gdt
  BY BootAssumption DEF BootAssumption, OneAp, TssInv
<1>2. CASE c = BSP
  BY <1>1, <1>2 DEF TssInv, KernelPart
<1>3. CASE c \in APS
  BY <1>1, <1>3 DEF TssInv, ApPart, NoTss, HasSeg
<1> QED
  BY <1>2, <1>3 DEF CPUS

\* task.c:54-63, tss_init_cpu and GDT_smartaput: with one application processor, listed once,
\* every loaded task register selects the complete descriptor of its own TSS,
\* inside the table of nine entries, whenever the processors interleave.
THEOREM SmpTssOwn == ASSUME OneAp, EntriesOnce PROVE Spec => []TssOwn
<1>1. StartInv /\ TssInv /\ [Next]_vars => TssInv'
  <2>1. TssInv /\ UNCHANGED machine => TssInv'
    BY DEF TssInv, KernelPart, ApPart, machine
  <2> QED
    BY <2>1, TssBsp, TssAp, NextCases
<1>2. StartInv /\ [Next]_vars => StartInv'
  BY StartStep
<1>3. StartInv /\ TssInv => TssOwn
  BY TssIsOwn
<1>4. Init => TssInv
  BY TssInit
<1> QED
  BY <1>1, <1>2, <1>3, <1>4, StartInit, PTL DEF Spec
=============================================================================
