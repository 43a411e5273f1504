----------------------------- MODULE TaskSched -----------------------------
(***************************************************************************)
(* Tasks, the timer-driven switch between them and the nesting counter of  *)
(* disabled interrupts: src/kernel/task.c, src/x86_64/intr.c, timer_intr   *)
(* of src/x86_64/timer.S and the hand-over of start_process in             *)
(* src/elf/start.c.                                                        *)
(*                                                                         *)
(* A context is what a CPU executes and what the timer saves: a place in   *)
(* the code, the locals that matter there and the interrupt flag.  ctx[c]  *)
(* is being executed by CPU c, r[t] is the copy in the descriptor of task  *)
(* t.  Every statement that another CPU or the timer can come between is   *)
(* an action.  The handler of the timer runs with interrupts off; its scan *)
(* of the ring still interleaves with the other CPUs.                      *)
(***************************************************************************)
EXTENDS Integers, FiniteSets

CONSTANTS CPUS,        \* APIC ids; 0 is the boot CPU
          BYTE,        \* values an element of intr_sema can take: 256
          TASKS,       \* task descriptors the heap has room for
          NoTask,      \* a null or uninitialised task pointer
          FIRSTCURR,   \* curr when the model starts
          FIRSTNEXT,   \* next of every descriptor when the model starts
          SAVED,       \* has the timer saved the running tasks before?
          JOBS,        \* what kernel code does with interrupts disabled
          WORKERS,     \* the tasks that do it
          FORKSTATES,  \* what kmalloc may leave in the state field
          BEYOND       \* bound: do sections begin after a stale update?

ASSUME SchedAssumption ==
    /\ 0 \in CPUS
    /\ BYTE \in Nat /\ BYTE > 1
    /\ NoTask \notin TASKS
    /\ FIRSTCURR \in [CPUS -> TASKS \cup {NoTask}]
    /\ FIRSTNEXT \in [TASKS -> TASKS \cup {NoTask}]
    /\ SAVED \in BOOLEAN /\ BEYOND \in BOOLEAN
    /\ JOBS \subseteq {"section", "fork", "start"}
    /\ FORKSTATES \subseteq {"ACTIVE", "RUNNING", "STARTING", "OTHER"}

VARIABLES next, state, r,   \* fields of the task descriptors
          curr,             \* curr[c]: the task of CPU c
          ctx,              \* ctx[c]: the context CPU c executes
          switching,        \* CPUs inside the loop of task_switch
          sema,             \* intr_sema, one byte for each CPU
          made,             \* descriptors that have been allocated
          stale             \* history: has an update of intr_sema overwritten
                            \* another one made since its load?

vars == <<next, state, r, curr, ctx, switching, sema, made, stale>>

Places == {"run", "dis", "inc", "sto", "cli", "body", "prep", "tmp", "ins", "close",
           "en", "dec", "dst", "chk", "sti", "bug", "spin", "user", "none"}

Context == [pc : Places,
            job : {"section", "fork", "start", "join", "none"},
            nest : BOOLEAN,                      \* in a mount_page_t of the section
            id : CPUS, sid : CPUS,               \* results of apic_get_id
            val : 0 .. (BYTE - 1),               \* the register an update goes through
            new : TASKS \cup {NoTask}, tmp : TASKS \cup {NoTask},
            iff : {0, 1}]                        \* IF of RFLAGS

Fresh(p, j, i) == [pc |-> p, job |-> j, nest |-> FALSE, id |-> 0, sid |-> 0,
                   val |-> 0, new |-> NoTask, tmp |-> NoTask, iff |-> i]

\* The registers as task_init clears them: RFLAGS is 0 as well.
Zeroed == Fresh("none", "none", 0)
Running == Fresh("run", "none", 1)

\* Following a pointer that was never initialised leads to another such pointer.
NextOf(t) == IF t = NoTask THEN NoTask ELSE next[t]

\* An application CPU without a task is on its way to task_init_cpu.
Init ==
    /\ next = FIRSTNEXT
    /\ curr = FIRSTCURR
    /\ made = {t \in TASKS : FIRSTNEXT[t] # NoTask}
    /\ state = [t \in TASKS |-> IF \E c \in CPUS : FIRSTCURR[c] = t
                                THEN "RUNNING" ELSE "ACTIVE"]
    /\ r = [t \in TASKS |-> IF SAVED \/ \A c \in CPUS : FIRSTCURR[c] # t
                            THEN Running ELSE Zeroed]
    /\ ctx = [c \in CPUS |-> IF FIRSTCURR[c] # NoTask
                             THEN Running ELSE Fresh("dis", "join", 1)]
    /\ switching = {}
    /\ sema = [c \in CPUS |-> 0]
    /\ stale = FALSE

At(c, place) == c \notin switching /\ ctx[c].pc = place
AtJob(c, place, job) == At(c, place) /\ ctx[c].job = job
Goto(c, place) == ctx' = [ctx EXCEPT ![c].pc = place]
taskVars == <<next, state, r, made>>

\* The contexts of the tasks: the executed one for a task on a CPU.
Live(t) == IF \E c \in CPUS : curr[c] = t /\ c \notin switching
           THEN ctx[CHOOSE c \in CPUS : curr[c] = t /\ c \notin switching]
           ELSE r[t]

\* The bound on the descriptors: a fork begins while one is left for it.
ForkRoom == Cardinality(made)
            + Cardinality({t \in made : /\ Live(t).job = "fork"
                                        /\ \/ Live(t).nest
                                           \/ Live(t).pc \in {"dis", "inc", "sto", "cli", "body"}})
            < Cardinality(TASKS)

(***************************************************************************)
(* intr_disable: read the APIC id, count, then clear IF.  The build has no *)
(* -O: the count is a load, an addition and a store, with IF still set.    *)
(***************************************************************************)
\* Kernel code of a worker calls intr_disable; start_process has read the id
\* of its CPU before that.
Begin(c, j) ==
    /\ At(c, "run")
    /\ curr[c] \in WORKERS
    /\ j = "fork" => ForkRoom
    /\ stale => BEYOND
    /\ ctx' = [ctx EXCEPT ![c] = [@ EXCEPT !.pc = "dis", !.job = j, !.sid = c]]
    /\ UNCHANGED <<taskVars, curr, switching, sema, stale>>

DisableReadId(c) ==
    /\ At(c, "dis")
    /\ ctx' = [ctx EXCEPT ![c] = [@ EXCEPT !.pc = "inc", !.id = c]]
    /\ UNCHANGED <<taskVars, curr, switching, sema, stale>>

DisableLoad(c) ==
    /\ At(c, "inc")
    /\ ctx' = [ctx EXCEPT ![c] = [@ EXCEPT !.pc = "sto", !.val = sema[ctx[c].id]]]
    /\ UNCHANGED <<taskVars, curr, switching, sema, stale>>

\* The store of an update: what it puts over the loaded value, which may no
\* longer be there.  The register is dead afterwards.
Store(c, v, place) ==
    /\ sema' = [sema EXCEPT ![ctx[c].id] = v % BYTE]
    /\ stale' = (stale \/ sema[ctx[c].id] # ctx[c].val)
    /\ ctx' = [ctx EXCEPT ![c] = [@ EXCEPT !.pc = place, !.val = 0]]
    /\ UNCHANGED <<taskVars, curr, switching>>

\* Mutant: the counter is a flag.
DisableFlag(c) == At(c, "sto") /\ Store(c, 1, "cli")

DisableStore(c) == At(c, "sto") /\ Store(c, ctx[c].val + 1, "cli")

\* Mutant: interrupts are left on.
DisableNoCli(c) ==
    /\ At(c, "cli")
    /\ Goto(c, IF ctx[c].nest THEN "en" ELSE "body")
    /\ UNCHANGED <<taskVars, curr, switching, sema, stale>>

\* What mount_page_t does between its two calls touches none of this state.
DisableCli(c) ==
    /\ At(c, "cli")
    /\ ctx' = [ctx EXCEPT ![c] = [@ EXCEPT !.pc = IF ctx[c].nest THEN "en" ELSE "body", !.iff = 0]]
    /\ UNCHANGED <<taskVars, curr, switching, sema, stale>>

(***************************************************************************)
(* intr_enable: read the id, complain when the count is 0, count down, and *)
(* set IF when the count, read again, is 0.                                *)
(***************************************************************************)
\* Where intr_enable returns to: inside the section from a nested call, else
\* behind it.  start_process does not return but spins until the timer
\* replaces it.
Back(x) == IF x.nest
           THEN CASE x.job = "start" -> "prep" [] x.job = "join" -> "tmp" [] OTHER -> "body"
           ELSE IF x.job = "start" THEN "spin" ELSE "run"

EnableReadId(c) ==
    /\ At(c, "en")
    /\ ctx' = [ctx EXCEPT ![c] = [@ EXCEPT !.id = c, !.pc = IF sema[c] = 0 THEN "bug" ELSE "dec"]]
    /\ UNCHANGED <<taskVars, curr, switching, sema, stale>>

EnableLoad(c) ==
    /\ At(c, "dec")
    /\ ctx' = [ctx EXCEPT ![c] = [@ EXCEPT !.pc = "dst", !.val = sema[ctx[c].id]]]
    /\ UNCHANGED <<taskVars, curr, switching, sema, stale>>

EnableStore(c) == At(c, "dst") /\ Store(c, ctx[c].val - 1, "chk")

Return(c, i) ==
    /\ ctx' = [ctx EXCEPT ![c] = [@ EXCEPT !.pc = Back(ctx[c]), !.nest = FALSE, !.iff = i]]
    /\ UNCHANGED <<taskVars, curr, switching, sema, stale>>

\* Mutant: IF is not set when 0 is reached.
EnableNever(c) == At(c, "chk") /\ Return(c, ctx[c].iff)

\* Mutant: every intr_enable sets IF, a nested one too.
EnableAlways(c) == At(c, "chk") /\ Return(c, 1)

EnableTest(c) ==
    /\ At(c, "chk")
    /\ IF sema[ctx[c].id] = 0
       THEN Goto(c, "sti") /\ UNCHANGED <<taskVars, curr, switching, sema, stale>>
       ELSE Return(c, ctx[c].iff)

EnableSti(c) == At(c, "sti") /\ Return(c, 1)

(***************************************************************************)
(* What is done with interrupts disabled.                                  *)
(***************************************************************************)
\* Mapping a page inside a section runs a pair of intr_disable and intr_enable
\* of its own (mount_page_t): copy_pages of task_fork, alloc_pages_user of
\* start_process and task_init_cpu, any other code.
Nested(c) ==
    /\ AtJob(c, "body", "section") \/ AtJob(c, "body", "fork") \/ At(c, "prep") \/ At(c, "tmp")
    /\ ctx' = [ctx EXCEPT ![c] = [@ EXCEPT !.pc = "dis", !.nest = TRUE]]
    /\ UNCHANGED <<taskVars, curr, switching, sema, stale>>

\* Any other pair of intr_disable and intr_enable (mount_page_t, page_init...).
Section(c) ==
    /\ AtJob(c, "body", "section")
    /\ Goto(c, "en")
    /\ UNCHANGED <<taskVars, curr, switching, sema, stale>>

\* Mutant: the child points at the boot task instead of at its successor.
ForkChildShortens(c, t, s) ==
    /\ AtJob(c, "body", "fork")
    /\ t \notin made
    /\ made' = made \cup {t}
    /\ state' = [state EXCEPT ![t] = s]
    /\ r' = [r EXCEPT ![t] = Running]
    /\ next' = [next EXCEPT ![t] = curr[0]]
    /\ ctx' = [ctx EXCEPT ![c] = [@ EXCEPT !.pc = "ins", !.new = t]]
    /\ UNCHANGED <<curr, switching, sema, stale>>

\* task_fork: the child gets a copy of the stack with IF set and return value
\* 0; its state field is whatever kmalloc returned.
ForkChild(c, t, s) ==
    /\ AtJob(c, "body", "fork")
    /\ t \notin made
    /\ made' = made \cup {t}
    /\ state' = [state EXCEPT ![t] = s]
    /\ r' = [r EXCEPT ![t] = Running]
    /\ next' = [next EXCEPT ![t] = NextOf(curr[0])]
    /\ ctx' = [ctx EXCEPT ![c] = [@ EXCEPT !.pc = "ins", !.new = t]]
    /\ UNCHANGED <<curr, switching, sema, stale>>

ForkInsert(c) ==
    /\ AtJob(c, "ins", "fork")
    /\ next' = [next EXCEPT ![curr[0]] = ctx[c].new]
    /\ Goto(c, "en")
    /\ UNCHANGED <<state, r, made, curr, switching, sema, stale>>

\* Mutant: the whole register record is cleared first.
StartProcessCleared(c) ==
    /\ AtJob(c, "body", "start")
    /\ LET t == curr[ctx[c].sid]
       IN /\ state' = [state EXCEPT ![t] = "STARTING"]
          /\ r' = [r EXCEPT ![t] = Fresh("user", "none", 0)]
    /\ Goto(c, "prep")
    /\ UNCHANGED <<next, made, curr, switching, sema, stale>>

\* start_process: the saved registers of the calling task are replaced by the
\* entry of the program; RFLAGS keeps what was saved there before.
StartProcess(c) ==
    /\ AtJob(c, "body", "start")
    /\ LET t == curr[ctx[c].sid]
       IN /\ state' = [state EXCEPT ![t] = "STARTING"]
          /\ r' = [r EXCEPT ![t] = Fresh("user", "none", @.iff)]
    /\ Goto(c, "prep")
    /\ UNCHANGED <<next, made, curr, switching, sema, stale>>

\* The rest, once the pages of its stack are mapped: RSP, SS and the files.
StartFiles(c) ==
    /\ At(c, "prep")
    /\ Goto(c, "en")
    /\ UNCHANGED <<taskVars, curr, switching, sema, stale>>

\* task_init_cpu, statement by statement.
JoinTask(c, t) ==
    /\ AtJob(c, "body", "join")
    /\ t \notin made
    /\ made' = made \cup {t}
    /\ curr' = [curr EXCEPT ![c] = t]
    /\ state' = [state EXCEPT ![t] = "RUNNING"]
    /\ r' = [r EXCEPT ![t] = Zeroed]
    /\ Goto(c, "tmp")
    /\ UNCHANGED <<next, switching, sema, stale>>

JoinRead(c) ==
    /\ At(c, "tmp")
    /\ ctx' = [ctx EXCEPT ![c] = [@ EXCEPT !.pc = "ins", !.tmp = NextOf(curr[0])]]
    /\ UNCHANGED <<taskVars, curr, switching, sema, stale>>

JoinInsert(c) ==
    /\ AtJob(c, "ins", "join")
    /\ next' = [next EXCEPT ![curr[0]] = curr[c]]
    /\ Goto(c, "close")
    /\ UNCHANGED <<state, r, made, curr, switching, sema, stale>>

JoinClose(c) ==
    /\ At(c, "close")
    /\ next' = [next EXCEPT ![curr[c]] = ctx[c].tmp]
    /\ Goto(c, "en")
    /\ UNCHANGED <<state, r, made, curr, switching, sema, stale>>

(***************************************************************************)
(* timer_intr and task_switch                                              *)
(***************************************************************************)
\* The interrupt is taken between two statements while IF is set; a CPU that
\* has no task yet goes on where it was.
Interrupted(c) == c \notin switching /\ ctx[c].iff = 1 /\ curr[c] # NoTask

\* The registers a halted CPU resumes from are those after the hlt.
Resumed(x) == IF x.pc = "bug" THEN [x EXCEPT !.pc = "dec"] ELSE x

SwitchToStarted(c) ==
    /\ Interrupted(c)
    /\ state[curr[c]] = "STARTING"
    /\ state' = [state EXCEPT ![curr[c]] = "RUNNING"]
    /\ ctx' = [ctx EXCEPT ![c] = r[curr[c]]]
    /\ UNCHANGED <<next, r, made, curr, switching, sema, stale>>

\* Mutant: the registers of a starting task are overwritten.
SwitchSaveAlways(c) ==
    /\ Interrupted(c)
    /\ r' = [r EXCEPT ![curr[c]] = Resumed(ctx[c])]
    /\ state' = [state EXCEPT ![curr[c]] = "ACTIVE"]
    /\ switching' = switching \cup {c}
    /\ UNCHANGED <<next, made, curr, ctx, sema, stale>>

SwitchSave(c) ==
    /\ Interrupted(c)
    /\ state[curr[c]] # "STARTING"
    /\ r' = [r EXCEPT ![curr[c]] = Resumed(ctx[c])]
    /\ state' = [state EXCEPT ![curr[c]] = "ACTIVE"]
    /\ switching' = switching \cup {c}
    /\ UNCHANGED <<next, made, curr, ctx, sema, stale>>

\* One turn of the do-while loop.  Following an uninitialised next leaves the
\* CPU with a wild pointer for good.
SwitchPick(c) ==
    /\ c \in switching
    /\ curr[c] # NoTask
    /\ LET t == next[curr[c]]
       IN /\ curr' = [curr EXCEPT ![c] = t]
          /\ IF t # NoTask /\ state[t] = "ACTIVE"
             THEN /\ switching' = switching \ {c}
                  /\ ctx' = [ctx EXCEPT ![c] = r[t]]
             ELSE UNCHANGED <<switching, ctx>>
    /\ UNCHANGED <<taskVars, sema, stale>>

Tick(c) == SwitchToStarted(c) \/ SwitchSave(c)

\* The end of a body, which maps finitely many pages.
Finish(c) ==
    \/ Section(c)
    \/ \E t \in TASKS, s \in FORKSTATES : ForkChild(c, t, s)
    \/ StartFiles(c)

Execute(c) ==
    \/ DisableReadId(c) \/ DisableLoad(c) \/ DisableStore(c) \/ DisableCli(c)
    \/ EnableReadId(c) \/ EnableLoad(c) \/ EnableStore(c) \/ EnableTest(c) \/ EnableSti(c)
    \/ ForkInsert(c)
    \/ StartProcess(c)
    \/ Finish(c)

Join(c) ==
    \/ \E t \in TASKS : JoinTask(c, t)
    \/ JoinRead(c) \/ JoinInsert(c) \/ JoinClose(c)

Fairness == \A c \in CPUS : /\ WF_vars(Execute(c))
                            /\ SF_vars(Finish(c))
                            /\ SF_vars(Tick(c))
                            /\ WF_vars(SwitchPick(c))

\* The boot CPU and the CPUs that have joined.
Next == \E c \in CPUS :
    \/ \E j \in JOBS : Begin(c, j)
    \/ Execute(c)
    \/ Nested(c)
    \/ Tick(c)
    \/ SwitchPick(c)

Spec == Init /\ [][Next]_vars /\ Fairness

\* The same while application CPUs come up.
JoinNext == Next \/ \E c \in CPUS : Join(c)
JoinSpec == Init /\ [][JoinNext]_vars /\ Fairness

(***************************************************************************)
(* Properties                                                              *)
(***************************************************************************)
\* Descriptors, contexts and counters keep their types.
TypeOK ==
    /\ next \in [TASKS -> TASKS \cup {NoTask}]
    /\ state \in [TASKS -> {"ACTIVE", "RUNNING", "STARTING", "OTHER"}]
    /\ r \in [TASKS -> Context]
    /\ curr \in [CPUS -> TASKS \cup {NoTask}]
    /\ ctx \in [CPUS -> Context]
    /\ switching \subseteq CPUS
    /\ sema \in [CPUS -> 0 .. (BYTE - 1)]
    /\ made \subseteq TASKS
    /\ stale \in BOOLEAN

\* A context between the cli of a section's intr_disable and the return of its
\* intr_enable, in a nested pair or not.
InSection(x) == \/ x.nest
                \/ x.pc \in {"body", "prep", "tmp", "ins", "close", "en", "dec", "dst",
                             "chk", "sti", "bug"}

\* On one CPU the timer never saves a task in the middle of a section: the
\* nested pairs of mount_page_t (page.c:132,138) count from 1, not from 0, and
\* so do not set IF inside it.  This is lost with the first stale update.
SectionsNotPreempted == stale \/ \A t \in TASKS : ~InSection(r[t])

\* Between the store of intr_disable and that of intr_enable: of the section, and
\* of a nested pair.
HoldsOuter(x) == \/ x.nest
                 \/ x.pc \in {"cli", "body", "prep", "tmp", "ins", "close", "en", "dec", "dst"}
HoldsNested(x) == x.nest /\ x.pc \in {"cli", "en", "dec", "dst"}

\* On one CPU intr_sema counts the open calls of intr_disable, those of preempted
\* tasks included, until an update is lost: one task loads the counter, is
\* preempted before its store, and the others leave another value meanwhile.
SemaCounts ==
    stale \/ sema[0] = Cardinality({t \in made : HoldsOuter(Live(t))})
                       + Cardinality({t \in made : HoldsNested(Live(t))})

\* intr.c:158-163: intr_enable prints "Bug: intr_enable!" and halts when it is
\* called without a matching intr_disable; kernel code always pairs them, and
\* on one CPU only a stale update brings the complaint.
NoIntrBug == stale \/ \A c \in CPUS : ctx[c].pc # "bug"

\* task.c:77,98 "Закольцовываем" (we close the ring): outside the insertions the
\* next pointers form one cycle through every task, so no task is lost and the
\* loop of task_switch cannot leave the ring, as long as sections hold.
Walk == LET w[n \in 0 .. Cardinality(TASKS)] ==
              IF n = 0 THEN FIRSTCURR[0]
              ELSE NextOf(w[n - 1])
        IN w

Inserting == \E c \in CPUS : ctx[c].pc \in {"tmp", "ins", "close"}

RingClosed ==
    ~Inserting /\ ~stale =>
                  /\ made = {Walk[n] : n \in 0 .. (Cardinality(made) - 1)}
                  /\ Walk[Cardinality(made)] = FIRSTCURR[0]

\* The loop of task_switch only meets initialised descriptors.
NoWildTask == \A c \in switching : curr[c] # NoTask

OnCpu(t) == \E c \in CPUS : curr[c] = t /\ c \notin switching

\* A task that lost the CPU between the increment of intr_disable and its cli.
Torn == \E t \in made : r[t].pc = "cli" /\ ~OnCpu(t)

\* kernel.c:90-126, the test of multitasking: parent and child both turn their
\* digit ("Крутим циферку") for ever, so every task that is ready gets the CPU
\* again; task_fork leaves it to the heap whether its child is.  It fails in two
\* ways only, both through intr.c:171 counting with IF set: a task stays torn,
\* and the increment it left behind keeps the other tasks' intr_enable from
\* reaching sti; or an update was stale, and a later intr_enable halts with IF
\* clear or never reaches 0.
EveryTaskRuns ==
    \A t \in TASKS : \/ (t \in made /\ state[t] = "ACTIVE") ~> OnCpu(t)
                     \/ <>[]Torn
                     \/ <>stale

\* start_process takes effect: the program gets the CPU, with the same exceptions.
ProcessStarts ==
    \/ \A t \in TASKS : state[t] = "STARTING" ~> \E c \in CPUS : ctx[c].pc = "user"
    \/ <>[]Torn
    \/ <>stale

\* task.c:232 "Если задача запускается, для нее подготовлены регистры" (if a task
\* is starting, its registers have been prepared): they include RFLAGS, and the
\* program can be interrupted.
StartRegsPrepared == \A t \in made : state[t] = "STARTING" => r[t].iff = 1

\* The half of it that holds for any CPUs, saved before or not: once the RFLAGS in
\* a descriptor have IF set, by the timer or by task_fork, no step clears it, the
\* preparation by start_process included.
FlagsKept == [][\A t \in made : r[t].iff = 1 => r'[t].iff = 1]_vars

\* task.h:55-63 lists TASK_RUNNING beside TASK_ACTIVE, and task_switch looks for
\* TASK_ACTIVE only, so that a task some CPU runs is not taken by another.
OneCpuPerTask ==
    \A c, d \in CPUS \ switching : curr[c] = curr[d] /\ curr[c] # NoTask => c = d
=============================================================================
