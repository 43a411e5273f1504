------------------------------ MODULE SmpBoot ------------------------------
(***************************************************************************)
(* Start-up of the machine: the boot processor through src/x86_64/boot.S,  *)
(* kernel_start, kernel_run and smp_init, the start-up messages of ap_init *)
(* and every application processor through the trampoline and              *)
(* kernel_ap_start.  Shared are the descriptor tables, the page tables,    *)
(* the boot stack, cpu_nr and intr_sema.                                   *)
(*                                                                         *)
(* ready names what the boot processor has prepared for the others; a      *)
(* processor's place is the next call it makes.  Until the register page   *)
(* of the local APIC is mapped, apic_get_id reads the byte of the BIOS ROM *)
(* at the same address: rom is that byte's lower half.                     *)
(***************************************************************************)
EXTENDS Integers, Sequences

CONSTANTS APS,        \* APIC ids of the application processors present
          ROM,        \* what the ROM may hold at the address of the id
          FIRMWARE,   \* what the boot loader and the BIOS may hand over
          GDT_SIZE,   \* entries of GDT_addr
          LAST_SEG    \* the search for a free entry ends here: 8192

BSP == 0
CPUS == {BSP} \cup APS
IDS == CPUS \cup ROM
Zero == <<>>  \* an entry of GDT_addr that is 0

\* multiboot: the magic of the loader; found: whether the BIOS has no tables,
\* one of the default configurations, or a list of entries.
ASSUME BootAssumption ==
    /\ BSP \notin APS
    /\ GDT_SIZE \in Nat /\ LAST_SEG \in Nat /\ GDT_SIZE < LAST_SEG
    /\ \A f \in FIRMWARE : /\ f.multiboot \in BOOLEAN
                           /\ f.found \in {"nothing", "default", "table"}
                           /\ DOMAIN f.entries = 1 .. Len(f.entries)

VARIABLES fw, rom,        \* the machine
          bpc, i,         \* place of the boot processor, entry it looks at
          ready,          \* what it has prepared
          bsp_on,         \* the flag a processor exchanges in boot.S
          gdt,            \* GDT_addr
          tr,             \* loaded task register, 0 before that
          apc,            \* places of the application processors
          seg,            \* local of GDT_smartaput
          idtr, iff,      \* is the IDT loaded, is IF set
          sema,           \* intr_sema
          started,        \* how often the trampoline was entered
          cpu_nr, n,      \* the shared count and its copy in a register
          taken           \* has a tick handed a processor another one's task?

bspVars == <<bpc, i, ready>>
apVars == <<apc, seg, idtr, iff, started, n>>
machine == <<fw, rom, bpc, i, ready, bsp_on, gdt, tr, apc, seg, idtr, iff, sema,
             started, cpu_nr, n>>
vars == <<machine, taken>>

Places == {"off", "wait", "tramp", "again", "gdt", "scan", "lo", "hi", "ltr",
           "idt", "pages", "mount", "enable", "bug", "apic", "task", "sti",
           "load", "store", "idle"}

Init ==
    /\ fw \in FIRMWARE
    /\ rom \in ROM
    /\ bpc = "boot" /\ i = 0 /\ ready = {} /\ bsp_on = 0
    /\ gdt = [s \in 0 .. (GDT_SIZE - 1) |-> Zero]
    /\ tr = [c \in CPUS |-> 0]
    /\ apc = [a \in APS |-> "off"]
    /\ seg = [a \in APS |-> 0]
    /\ idtr = [a \in APS |-> FALSE]
    /\ iff = [a \in APS |-> 0]
    /\ sema = [d \in IDS |-> 0]
    /\ started = [a \in APS |-> 0]
    /\ cpu_nr = 0
    /\ n = [a \in APS |-> 0]
    /\ taken = FALSE

(***************************************************************************)
(* The descriptor table                                                    *)
(***************************************************************************)
\* GDT_put: a store into the array; behind its end it hits another variable.
Put(g, s, d) == [g EXCEPT ![s] = d]

\* Mutant: the search begins behind the segments of the kernel.
FreeSegFixed(g, s) == s = 5

\* The loop of GDT_smartaput stops at the first entry that is zero; the two
\* halves of a TSS descriptor, its upper address bits too, are not zero.
FreeSeg(g, s) ==
    /\ 1 <= s /\ s <= LAST_SEG
    /\ s \in DOMAIN g => g[s] = Zero
    /\ \A t \in 1 .. (s - 1) : t \in DOMAIN g => g[t] # Zero

(***************************************************************************)
(* The boot processor                                                      *)
(***************************************************************************)
Prepare(from, to, what) ==
    /\ bpc = from
    /\ bpc' = to
    /\ ready' = ready \cup what

\* startLongMode: interrupts off, the boot stack, and the exchange of bsp_on.
\* The processor that finds it clear goes on to kernel_start, any other one to
\* kernel_ap_start.
StartLongMode == bsp_on' = 1

\* boot.S up to there: temporary tables, the trampoline copied to 0x8000, long
\* mode.
BspBoot ==
    /\ Prepare("boot", "gdt", {"trampoline"})
    /\ StartLongMode
    /\ UNCHANGED <<fw, rom, i, gdt, tr, apVars, sema, cpu_nr>>

\* GDT_init: four segments.
BspGdt ==
    /\ Prepare("gdt", "tss", {"gdt"})
    /\ gdt' = [s \in DOMAIN gdt |-> IF s \in 1 .. 4 THEN <<"segment">> ELSE gdt[s]]
    /\ UNCHANGED <<fw, rom, i, bsp_on, tr, apVars, sema, cpu_nr>>

\* tss_init: the stacks of all processors, then the descriptor of this one.
BspTss(s) ==
    /\ Prepare("tss", "magic", {"stacks"})
    /\ FreeSeg(gdt, s)
    /\ gdt' = Put(Put(gdt, s, <<"low", BSP>>), s + 1, <<"high", BSP>>)
    /\ tr' = [tr EXCEPT ![BSP] = s]
    /\ UNCHANGED <<fw, rom, i, bsp_on, apVars, sema, cpu_nr>>

\* kernel_start returns to a loop of hlt when the loader is not multiboot.
BspRefuse ==
    /\ ~fw.multiboot
    /\ Prepare("magic", "halt", {})
    /\ UNCHANGED <<fw, rom, i, bsp_on, gdt, tr, apVars, sema, cpu_nr>>

BspIntr ==
    /\ fw.multiboot
    /\ Prepare("magic", "mem", {"idt"})
    /\ UNCHANGED <<fw, rom, i, bsp_on, gdt, tr, apVars, sema, cpu_nr>>

BspMem ==
    /\ Prepare("mem", "stack", {"pml4"})
    /\ UNCHANGED <<fw, rom, i, bsp_on, gdt, tr, apVars, sema, cpu_nr>>

\* Mutant: the boot processor stays on its first stack.
BspStackKept ==
    /\ Prepare("stack", "task", {})
    /\ UNCHANGED <<fw, rom, i, bsp_on, gdt, tr, apVars, sema, cpu_nr>>

\* The rest of the boot runs on a stack of its own, so that the application
\* processors find the boot stack free.
BspStack ==
    /\ Prepare("stack", "task", {"boot_stack"})
    /\ UNCHANGED <<fw, rom, i, bsp_on, gdt, tr, apVars, sema, cpu_nr>>

\* kernel_run: fs_init, then task_init makes curr[0] the ring's first task.
BspTask ==
    /\ Prepare("task", "smp", {"curr0"})
    /\ UNCHANGED <<fw, rom, i, bsp_on, gdt, tr, apVars, sema, cpu_nr>>

\* smp_init looks for the signature; only a list of entries is followed.
SmpSearch ==
    /\ Prepare("smp", IF fw.found = "table" THEN "apic" ELSE "done", {})
    /\ cpu_nr' = 1
    /\ UNCHANGED <<fw, rom, i, bsp_on, gdt, tr, apVars, sema>>

ApicInit ==
    /\ Prepare("apic", "walk", {"lapic"})
    /\ i' = 1
    /\ UNCHANGED <<fw, rom, bsp_on, gdt, tr, apVars, sema, cpu_nr>>

More == bpc = "walk" /\ i <= Len(fw.entries)
Entry == fw.entries[i]

\* Mutant: the boot processor is started like the others.
WakesAll(e) == e.kind = "proc"

\* A processor entry other than the boot processor's; the flag that says
\* whether the processor may be used is only printed.
Wakes(e) == e.kind = "proc" /\ ~e.bsp /\ e.id # 0

WalkProc ==
    /\ More
    /\ Wakes(Entry)
    /\ bpc' = "init"
    /\ UNCHANGED <<fw, rom, i, ready, bsp_on, gdt, tr, apVars, sema, cpu_nr>>

WalkOther ==
    /\ More
    /\ ~Wakes(Entry)
    /\ i' = IF Entry.kind = "unknown" THEN Len(fw.entries) + 1 ELSE i + 1
    /\ ready' = ready \cup (IF Entry.kind = "ioapic" /\ Entry.enabled THEN {"ioapic"} ELSE {})
    /\ UNCHANGED <<fw, rom, bpc, bsp_on, gdt, tr, apVars, sema, cpu_nr>>

WalkEnd ==
    /\ bpc = "walk" /\ i > Len(fw.entries)
    /\ bpc' = "done"
    /\ UNCHANGED <<fw, rom, i, ready, bsp_on, gdt, tr, apVars, sema, cpu_nr>>

\* ap_init: INIT resets the processor, if there is one, and lets it wait for
\* the start-up message.
SendInit ==
    /\ bpc = "init"
    /\ bpc' = "sipi1"
    /\ apc' = [a \in APS |-> IF a = Entry.id THEN "wait" ELSE apc[a]]
    /\ iff' = [a \in APS |-> IF a = Entry.id THEN 0 ELSE iff[a]]
    /\ idtr' = [a \in APS |-> IF a = Entry.id THEN FALSE ELSE idtr[a]]
    /\ tr' = [x \in CPUS |-> IF x \in APS /\ x = Entry.id THEN 0 ELSE tr[x]]
    /\ UNCHANGED <<fw, rom, i, ready, bsp_on, gdt, seg, sema, started, cpu_nr, n>>

\* A processor that waits for it answers a start-up message, others do not.
Deliver ==
    LET woken == {a \in APS : a = Entry.id /\ apc[a] = "wait"}
    IN /\ apc' = [a \in APS |-> IF a \in woken THEN "tramp" ELSE apc[a]]
       /\ started' = [a \in APS |-> IF a \in woken THEN started[a] + 1 ELSE started[a]]

\* The first message may get lost, which is why there is a second one.
SendSipi1 ==
    /\ bpc = "sipi1"
    /\ bpc' = "sipi2"
    /\ Deliver \/ UNCHANGED <<apc, started>>
    /\ UNCHANGED <<fw, rom, i, ready, bsp_on, gdt, tr, seg, idtr, iff, sema,
                   cpu_nr, n>>

\* Nobody waits for the processor to come up.
SendSipi2 ==
    /\ bpc = "sipi2"
    /\ bpc' = "walk"
    /\ i' = i + 1
    /\ Deliver
    /\ UNCHANGED <<fw, rom, ready, bsp_on, gdt, tr, seg, idtr, iff, sema,
                   cpu_nr, n>>

(***************************************************************************)
(* An application processor                                                *)
(***************************************************************************)
Goto(a, from, to) == apc[a] = from /\ apc' = [apc EXCEPT ![a] = to]

\* The trampoline: interrupts off, protected mode, then long mode as above.
ApBoot(a) ==
    /\ Goto(a, "tramp", IF bsp_on = 1 THEN "gdt" ELSE "again")
    /\ StartLongMode
    /\ iff' = [iff EXCEPT ![a] = 0]
    /\ UNCHANGED <<fw, rom, bspVars, gdt, tr, seg, idtr, sema, started, cpu_nr, n>>

ApGdt(a) ==
    /\ Goto(a, "gdt", "scan")
    /\ UNCHANGED <<fw, rom, bspVars, bsp_on, gdt, tr, seg, idtr, iff, sema, started, cpu_nr, n>>

\* tss_init_cpu: find an entry, fill it and the one behind it, load it.
ApScan(a, s) ==
    /\ Goto(a, "scan", "lo")
    /\ FreeSeg(gdt, s)
    /\ seg' = [seg EXCEPT ![a] = s]
    /\ UNCHANGED <<fw, rom, bspVars, bsp_on, gdt, tr, idtr, iff, sema, started, cpu_nr, n>>

ApLow(a) ==
    /\ Goto(a, "lo", "hi")
    /\ gdt' = Put(gdt, seg[a], <<"low", a>>)
    /\ UNCHANGED <<fw, rom, bspVars, bsp_on, tr, seg, idtr, iff, sema, started, cpu_nr, n>>

ApHigh(a) ==
    /\ Goto(a, "hi", "ltr")
    /\ gdt' = Put(gdt, seg[a] + 1, <<"high", a>>)
    /\ UNCHANGED <<fw, rom, bspVars, bsp_on, tr, seg, idtr, iff, sema, started, cpu_nr, n>>

ApLtr(a) ==
    /\ Goto(a, "ltr", "idt")
    /\ tr' = [tr EXCEPT ![a] = seg[a]]
    /\ UNCHANGED <<fw, rom, bspVars, bsp_on, gdt, seg, idtr, iff, sema, started, cpu_nr, n>>

\* Mutant: intr_init_ap forgets lidt.
ApIdtNotLoaded(a) ==
    /\ Goto(a, "idt", "pages")
    /\ UNCHANGED <<fw, rom, bspVars, bsp_on, gdt, tr, seg, idtr, iff, sema, started, cpu_nr, n>>

ApIdt(a) ==
    /\ Goto(a, "idt", "pages")
    /\ idtr' = [idtr EXCEPT ![a] = TRUE]
    /\ UNCHANGED <<fw, rom, bspVars, bsp_on, gdt, tr, seg, iff, sema, started, cpu_nr, n>>

\* page_init_ap: intr_disable while the boot page tables still show the ROM
\* where the register page will be, then the tables of the kernel.
ApPages(a) ==
    /\ Goto(a, "pages", "mount")
    /\ sema' = [sema EXCEPT ![rom] = (@ + 1) % 256]
    /\ iff' = [iff EXCEPT ![a] = 0]
    /\ UNCHANGED <<fw, rom, bspVars, bsp_on, gdt, tr, seg, idtr, started, cpu_nr, n>>

\* Its three calls of mount_page_t, each a pair of intr_disable and
\* intr_enable with the processor's own id.
ApMount(a) ==
    /\ Goto(a, "mount", "enable")
    /\ iff' = [iff EXCEPT ![a] = IF sema[a] = 0 THEN 1 ELSE 0]
    /\ UNCHANGED <<fw, rom, bspVars, bsp_on, gdt, tr, seg, idtr, sema, started, cpu_nr, n>>

\* The last intr_enable of page_init_ap.
ApEnable(a) ==
    /\ sema[a] # 0
    /\ Goto(a, "enable", "apic")
    /\ sema' = [sema EXCEPT ![a] = @ - 1]
    /\ iff' = [iff EXCEPT ![a] = IF sema[a] = 1 THEN 1 ELSE @]
    /\ UNCHANGED <<fw, rom, bspVars, bsp_on, gdt, tr, seg, idtr, started, cpu_nr, n>>

\* The counter is 0: a message and hlt, which no interrupt ends because the
\* local APIC of this processor is still disabled.
ApBug(a) ==
    /\ sema[a] = 0
    /\ Goto(a, "enable", "bug")
    /\ UNCHANGED <<fw, rom, bspVars, bsp_on, gdt, tr, seg, idtr, iff, sema, started, cpu_nr, n>>

\* apic_init_ap: mount_page_hw with its pairs, then the local APIC is enabled.
ApApic(a) ==
    /\ Goto(a, "apic", "task")
    /\ iff' = [iff EXCEPT ![a] = IF sema[a] = 0 THEN 1 ELSE 0]
    /\ UNCHANGED <<fw, rom, bspVars, bsp_on, gdt, tr, seg, idtr, sema, started, cpu_nr, n>>

\* task_init_cpu puts the task into the ring behind curr[0], between an
\* intr_disable and an intr_enable (TaskSched has its statements).  From its
\* intr_enable on a tick may take the task away, see HandOver.
ApTask(a) ==
    /\ Goto(a, "task", "sti")
    /\ iff' = [iff EXCEPT ![a] = IF sema[a] = 0 THEN 1 ELSE 0]
    /\ UNCHANGED <<fw, rom, bspVars, bsp_on, gdt, tr, seg, idtr, sema, started, cpu_nr, n>>

ApSti(a) ==
    /\ Goto(a, "sti", "load")
    /\ iff' = [iff EXCEPT ![a] = 1]
    /\ UNCHANGED <<fw, rom, bspVars, bsp_on, gdt, tr, seg, idtr, sema, started, cpu_nr, n>>

\* cpu_nr++ is a load and a store.
ApLoad(a) ==
    /\ Goto(a, "load", "store")
    /\ n' = [n EXCEPT ![a] = cpu_nr]
    /\ UNCHANGED <<fw, rom, bspVars, bsp_on, gdt, tr, seg, idtr, iff, sema, started, cpu_nr>>

\* Mutant: the count is not stored.
ApStoreNothing(a) ==
    /\ Goto(a, "store", "idle")
    /\ UNCHANGED <<fw, rom, bspVars, bsp_on, gdt, tr, seg, idtr, iff, sema, started, cpu_nr, n>>

ApStore(a) ==
    /\ Goto(a, "store", "idle")
    /\ cpu_nr' = (n[a] + 1) % 256
    /\ UNCHANGED <<fw, rom, bspVars, bsp_on, gdt, tr, seg, idtr, iff, sema, started, n>>

(***************************************************************************)
(* The machine                                                             *)
(***************************************************************************)
Boot == BspBoot \/ BspGdt \/ (\E s \in 1 .. LAST_SEG : BspTss(s)) \/ BspRefuse
        \/ BspIntr \/ BspMem \/ BspStack \/ BspTask
Smp == SmpSearch \/ ApicInit \/ WalkProc \/ WalkOther \/ WalkEnd
       \/ SendInit \/ SendSipi1 \/ SendSipi2
Bsp == Boot \/ Smp

Ap(a) ==
    \/ ApBoot(a) \/ ApGdt(a) \/ (\E s \in 1 .. LAST_SEG : ApScan(a, s))
    \/ ApLow(a) \/ ApHigh(a) \/ ApLtr(a) \/ ApIdt(a)
    \/ ApPages(a) \/ ApMount(a) \/ ApEnable(a) \/ ApBug(a)
    \/ ApApic(a) \/ ApTask(a) \/ ApSti(a) \/ ApLoad(a) \/ ApStore(a)

\* task_switch on a processor that accepts interrupts and has joined the ring:
\* the timer of its local APIC runs, it marks the task ACTIVE and may pick that
\* of another processor, or another one may pick this one afterwards.  Then a
\* task runs on two processors; what comes of it is left to TaskSched, and this
\* module follows the machine no further.  A tick that finds only the task it
\* interrupts changes nothing here, and neither does one before the task is in
\* the ring, for curr[id] is still 0.
HandOver(a) ==
    /\ apc[a] \in {"sti", "load", "store", "idle"} /\ iff[a] = 1
    /\ ~taken
    /\ taken' = TRUE
    /\ UNCHANGED machine

BspStep == ~taken /\ Bsp /\ UNCHANGED taken
ApStep(a) == ~taken /\ Ap(a) /\ UNCHANGED taken

\* The loops of hlt the processors end in.
Idle == (taken \/ bpc \in {"done", "halt"}) /\ UNCHANGED vars

Next == BspStep \/ (\E a \in APS : ApStep(a) \/ HandOver(a)) \/ Idle

\* Nothing makes a tick hand over a task, and nothing keeps it from doing so.
Fairness == WF_vars(BspStep) /\ \A a \in APS : WF_vars(ApStep(a))

Spec == Init /\ [][Next]_vars /\ Fairness

(***************************************************************************)
(* Properties                                                              *)
(***************************************************************************)
\* What a processor at a place relies on.
Uses(p) ==
    CASE p \in {"off", "wait"} -> {}
      [] p = "tramp" -> {"trampoline", "boot_stack"}
      [] p \in {"gdt", "scan", "lo", "hi", "ltr"} -> {"gdt", "stacks"}
      [] p = "idt" -> {"idt"}
      [] p \in {"pages", "mount", "enable"} -> {"pml4", "lapic"}
      [] p = "apic" -> {"lapic"}
      [] p = "task" -> {"curr0", "pml4", "lapic"}
      [] OTHER -> {}

\* kernel.c:62 "Чтобы AP не испортил нам стек" (so that the AP does not spoil our
\* stack), and the order of kernel_start, kernel_run and smp_init: whatever an
\* application processor takes from the boot processor is there when it does.
ReadyBeforeUse == \A a \in APS : Uses(apc[a]) \subseteq ready

\* Every loaded task register selects a complete descriptor of the processor's
\* own TSS inside the table, so its interrupts use its own stacks.
TssOwn ==
    \A c \in CPUS : tr[c] # 0 =>
        /\ {tr[c], tr[c] + 1} \subseteq DOMAIN gdt
        /\ gdt[tr[c]] = <<"low", c>>
        /\ gdt[tr[c] + 1] = <<"high", c>>

\* The processors the BIOS lists in front of the first entry smp_init does not
\* know.
Listed ==
    IF fw.multiboot /\ fw.found = "table"
    THEN {a \in APS : \E j \in DOMAIN fw.entries :
            /\ fw.entries[j] = [kind |-> "proc", id |-> a, bsp |-> FALSE]
            /\ \A k \in 1 .. (j - 1) : fw.entries[k].kind # "unknown"}
    ELSE {}

\* Two start-up messages, the first of which may get lost, start every listed
\* processor once and no other one.
StartedAsListed ==
    /\ \A a \in APS : started[a] \in (IF a \in Listed THEN {0, 1} ELSE {0})
    /\ bpc = "done" => \A a \in Listed : started[a] = 1

\* A processor accepts interrupts only once it has its IDT and, for the stacks
\* of the handlers, its TSS: intr_enable sets IF early in page_init_ap.
NoEarlyInterrupts == \A a \in APS : iff[a] = 1 => idtr[a] /\ tr[a] # 0

\* intr.c:158-163: intr_enable prints "Bug: intr_enable!" and halts when it is
\* called without a matching intr_disable.
NoIntrBug == \A a \in APS : apc[a] # "bug"

\* Unless a tick hands a processor the task of another one, the boot ends; a
\* started processor whose number the ROM happens to show gets into its idle
\* loop, any other one stops in intr_enable; cpu_nr is the number of processors
\* that got through (smp.h:103 "Количество процессоров в системе", the number of
\* processors in the system).
EveryCpuCounted ==
    <>[](\/ taken
         \/ /\ bpc \in {"done", "halt"}
            /\ \A a \in APS : started[a] = 1 => apc[a] = (IF rom = a THEN "idle" ELSE "bug")
            /\ bpc = "done" => cpu_nr = 1 + (IF \E a \in APS : apc[a] = "idle" THEN 1 ELSE 0))
=============================================================================
