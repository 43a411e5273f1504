-------------------------- MODULE TaskSched_proofs --------------------------
(***************************************************************************)
(* Proofs about TaskSched.  For every number of CPUs and tasks, while CPUs *)
(* join: contexts keep their types, and saved RFLAGS keep IF.  On one CPU, *)
(* for any number of tasks, until the first stale update of intr_sema: the *)
(* counter is the number of open calls of intr_disable, no section is      *)
(* saved by the timer, intr_enable never finds the counter 0, and          *)
(* task_fork keeps the tasks in one ring.                                  *)
(***************************************************************************)
EXTENDS TaskSched, FiniteSetTheorems, Induction, TLAPS

Pointer == TASKS \cup {NoTask}
States == {"ACTIVE", "RUNNING", "STARTING", "OTHER"}
Jobs == {"section", "fork", "start", "join", "none"}

LEMMA FreshType ==
  ASSUME NEW p \in Places, NEW j \in Jobs, NEW i \in {0, 1}
  PROVE  Fresh(p, j, i) \in Context
  BY SchedAssumption DEF SchedAssumption, Fresh, Context, Jobs

LEMMA InitType == Init => TypeOK
<1> SUFFICES ASSUME Init PROVE TypeOK
  OBVIOUS
<1>1. Running \in Context /\ Zeroed \in Context
  BY FreshType DEF Running, Zeroed, Places, Jobs
<1>2. Fresh("dis", "join", 1) \in Context
  BY FreshType DEF Places, Jobs
<1>3. 0 \in 0 .. (BYTE - 1)
  BY SchedAssumption DEF SchedAssumption
<1>4. ctx \in [CPUS -> Context] /\ r \in [TASKS -> Context]
  BY <1>1, <1>2 DEF Init
<1>5. /\ next \in [TASKS -> TASKS \cup {NoTask}] /\ curr \in [CPUS -> TASKS \cup {NoTask}]
      /\ state \in [TASKS -> {"ACTIVE", "RUNNING", "STARTING", "OTHER"}]
      /\ made \subseteq TASKS /\ switching \subseteq CPUS /\ stale \in BOOLEAN
  BY SchedAssumption DEF SchedAssumption, Init
<1>6. sema \in [CPUS -> 0 .. (BYTE - 1)]
  BY <1>3 DEF Init
<1> QED
  BY <1>4, <1>5, <1>6 DEF TypeOK

LEMMA ByteType ==
  ASSUME NEW n \in Int
  PROVE  n % BYTE \in 0 .. (BYTE - 1)
  BY SchedAssumption DEF SchedAssumption

\* A context stays one when the place and what an action changes with it do.
LEMMA ContextUpdates ==
  ASSUME NEW x \in Context, NEW p \in Places
  PROVE  /\ [x EXCEPT !.pc = p] \in Context
         /\ \A k \in CPUS : [x EXCEPT !.pc = p, !.id = k] \in Context
         /\ \A k \in CPUS : [x EXCEPT !.id = k, !.pc = p] \in Context
         /\ \A j \in Jobs, k \in CPUS :
              [x EXCEPT !.pc = p, !.job = j, !.sid = k] \in Context
         /\ \A v \in 0 .. (BYTE - 1) : [x EXCEPT !.pc = p, !.val = v] \in Context
         /\ \A b \in BOOLEAN : [x EXCEPT !.pc = p, !.nest = b] \in Context
         /\ \A b \in BOOLEAN, i \in {0, 1} :
              [x EXCEPT !.pc = p, !.nest = b, !.iff = i] \in Context
         /\ \A i \in {0, 1} : [x EXCEPT !.pc = p, !.iff = i] \in Context
         /\ \A t \in Pointer : [x EXCEPT !.pc = p, !.new = t] \in Context
         /\ \A t \in Pointer : [x EXCEPT !.pc = p, !.tmp = t] \in Context
  BY ZenonT(40) DEF Context, Jobs, Pointer

LEMMA PlaceNames ==
  /\ {"dis", "inc", "sto", "cli", "body", "prep", "tmp", "ins", "close"} \subseteq Places
  /\ {"en", "dec", "dst", "chk", "sti", "bug", "spin", "run"} \subseteq Places
  BY DEF Places

LEMMA GotoType ==
  ASSUME TypeOK, NEW c \in CPUS, NEW p \in Places, Goto(c, p)
  PROVE  ctx' \in [CPUS -> Context]
  BY ContextUpdates DEF TypeOK, Goto

LEMMA StoreType ==
  ASSUME TypeOK, NEW c \in CPUS, NEW v \in Int, NEW p \in Places, Store(c, v, p)
  PROVE  TypeOK'
<1> USE SchedAssumption DEF SchedAssumption
<1>1. ctx[c].id \in CPUS /\ ctx[c] \in Context
  BY SMTT(30) DEF TypeOK, Context
<1>2. v % BYTE \in 0 .. (BYTE - 1) /\ 0 \in 0 .. (BYTE - 1)
  BY ByteType, SMTT(30)
<1>3. [ctx[c] EXCEPT !.pc = p, !.val = 0] \in Context
  BY <1>1, <1>2, ContextUpdates
<1>4. stale' \in BOOLEAN
  BY DEF Store, TypeOK
<1>5. sema' \in [CPUS -> 0 .. (BYTE - 1)] /\ ctx' \in [CPUS -> Context]
  BY <1>1, <1>2, <1>3 DEF Store, TypeOK
<1> QED
  BY <1>4, <1>5 DEF Store, TypeOK, taskVars

LEMMA ReturnType ==
  ASSUME TypeOK, NEW c \in CPUS, NEW i \in {0, 1}, Return(c, i)
  PROVE  TypeOK'
<1>1. Back(ctx[c]) \in Places
  BY SMTT(30) DEF Back, Places
<1>2. [ctx[c] EXCEPT !.pc = Back(ctx[c]), !.nest = FALSE, !.iff = i] \in Context
  BY <1>1, ContextUpdates DEF TypeOK
<1> QED
  BY <1>2 DEF Return, TypeOK, taskVars

LEMMA StepType == TypeOK /\ [JoinNext]_vars => TypeOK'
<1> SUFFICES ASSUME TypeOK, [JoinNext]_vars PROVE TypeOK'
  OBVIOUS
<1> USE SchedAssumption DEF SchedAssumption
<1>1. ASSUME NEW c \in CPUS, NEW j \in JOBS, Begin(c, j) PROVE TypeOK'
  <2>1. [ctx[c] EXCEPT !.pc = "dis", !.job = j, !.sid = c] \in Context
    BY ContextUpdates, PlaceNames, ZenonT(40) DEF TypeOK, Jobs, Pointer
  <2> QED
    BY <1>1, <2>1, SMTT(30) DEF Begin, TypeOK, taskVars
<1>2. ASSUME NEW c \in CPUS, DisableReadId(c) PROVE TypeOK'
  <2>1. [ctx[c] EXCEPT !.pc = "inc", !.id = c] \in Context
    BY ContextUpdates, PlaceNames DEF TypeOK, Jobs, Pointer
  <2> QED
    BY <1>2, <2>1 DEF DisableReadId, TypeOK, taskVars
<1>3. ASSUME NEW c \in CPUS, DisableLoad(c) \/ EnableLoad(c) PROVE TypeOK'
  <2>1. sema[ctx[c].id] \in 0 .. (BYTE - 1)
    BY DEF TypeOK, Context
  <2>2. ctx[c] \in Context /\ "sto" \in Places /\ "dst" \in Places
    BY PlaceNames, SMTT(30) DEF TypeOK
  <2>3. /\ [ctx[c] EXCEPT !.pc = "sto", !.val = sema[ctx[c].id]] \in Context
        /\ [ctx[c] EXCEPT !.pc = "dst", !.val = sema[ctx[c].id]] \in Context
    BY <2>1, <2>2, ContextUpdates, ZenonT(40)
  <2> QED
    BY <1>3, <2>3 DEF DisableLoad, EnableLoad, TypeOK, taskVars
<1>31. ASSUME NEW c \in CPUS, DisableStore(c) \/ EnableStore(c) PROVE TypeOK'
  <2>1. ctx[c].val \in Int
    BY DEF TypeOK, Context
  <2>2. "cli" \in Places /\ "chk" \in Places
    BY PlaceNames
  <2> QED
    BY <1>31, <2>1, <2>2, StoreType DEF DisableStore, EnableStore
<1>4. ASSUME NEW c \in CPUS, DisableCli(c) PROVE TypeOK'
  <2>1. [ctx[c] EXCEPT !.pc = IF ctx[c].nest THEN "en" ELSE "body", !.iff = 0] \in Context
    BY ContextUpdates, PlaceNames, ZenonT(40) DEF TypeOK
  <2> QED
    BY <1>4, <2>1 DEF DisableCli, TypeOK, taskVars
<1>5. ASSUME NEW c \in CPUS, EnableReadId(c) PROVE TypeOK'
  <2>1. [ctx[c] EXCEPT !.id = c, !.pc = IF sema[c] = 0 THEN "bug" ELSE "dec"] \in Context
    BY ContextUpdates, PlaceNames, ZenonT(40) DEF TypeOK, Jobs, Pointer
  <2> QED
    BY <1>5, <2>1 DEF EnableReadId, TypeOK, taskVars
<1>6. ASSUME NEW c \in CPUS, EnableTest(c) PROVE TypeOK'
  <2>1. CASE Goto(c, "sti") /\ UNCHANGED <<taskVars, curr, switching, sema, stale>>
    BY <2>1, GotoType, PlaceNames DEF TypeOK, taskVars
  <2>2. CASE Return(c, ctx[c].iff)
    <3>1. ctx[c].iff \in {0, 1}
      BY DEF TypeOK, Context
    <3> QED
      BY <2>2, <3>1, ReturnType
  <2> QED
    BY <1>6, <2>1, <2>2 DEF EnableTest
<1>7. ASSUME NEW c \in CPUS, EnableSti(c) PROVE TypeOK'
  BY <1>7, ReturnType DEF EnableSti
<1>71. ASSUME NEW c \in CPUS, Nested(c) PROVE TypeOK'
  <2>1. [ctx[c] EXCEPT !.pc = "dis", !.nest = TRUE] \in Context
    BY ContextUpdates, PlaceNames DEF TypeOK
  <2> QED
    BY <1>71, <2>1, SMTT(30) DEF Nested, TypeOK, taskVars
<1>72. ASSUME NEW c \in CPUS, StartFiles(c) PROVE TypeOK'
  BY <1>72, GotoType, PlaceNames DEF StartFiles, TypeOK, taskVars
<1>8. ASSUME NEW c \in CPUS, Section(c) PROVE TypeOK'
  BY <1>8, GotoType DEF Section, TypeOK, taskVars, Places
<1>9. ASSUME NEW c \in CPUS, NEW t \in TASKS, NEW s \in FORKSTATES, ForkChild(c, t, s)
      PROVE TypeOK'
  <2>1. Running \in Context
    BY FreshType, SMTT(30) DEF Running, Places, Jobs
  <2>2. [ctx[c] EXCEPT !.pc = "ins", !.new = t] \in Context
    BY ContextUpdates, PlaceNames DEF TypeOK, Jobs, Pointer
  <2>3. NextOf(curr[0]) \in TASKS \cup {NoTask}
    BY DEF TypeOK, NextOf
  <2> QED
    BY <1>9, <2>1, <2>2, <2>3 DEF ForkChild, TypeOK
<1>10. ASSUME NEW c \in CPUS, ForkInsert(c) PROVE TypeOK'
  <2>1. ctx' \in [CPUS -> Context]
    BY <1>10, GotoType DEF ForkInsert, Places
  <2>2. ctx[c].new \in TASKS \cup {NoTask}
    BY DEF TypeOK, Context
  <2> QED
    BY <1>10, <2>1, <2>2 DEF ForkInsert, TypeOK
<1>11. ASSUME NEW c \in CPUS, StartProcess(c) PROVE TypeOK'
  <2>1. ctx' \in [CPUS -> Context]
    BY <1>11, GotoType DEF StartProcess, Places
  <2>2. \A t \in TASKS : Fresh("user", "none", r[t].iff) \in Context
    <3>1. \A t \in TASKS : r[t].iff \in {0, 1}
      BY DEF TypeOK, Context
    <3> QED
      BY <3>1, FreshType DEF Places, Jobs
  <2>3. r' \in [TASKS -> Context]
    BY <1>11, <2>2 DEF StartProcess, TypeOK
  <2> QED
    BY <1>11, <2>1, <2>3 DEF StartProcess, TypeOK
<1>12. ASSUME NEW c \in CPUS, NEW t \in TASKS, JoinTask(c, t) PROVE TypeOK'
  <2>1. ctx' \in [CPUS -> Context]
    BY <1>12, GotoType DEF JoinTask, Places
  <2>2. Zeroed \in Context
    BY FreshType DEF Zeroed, Places, Jobs
  <2> QED
    BY <1>12, <2>1, <2>2 DEF JoinTask, TypeOK
<1>13. ASSUME NEW c \in CPUS, JoinRead(c) PROVE TypeOK'
  <2>1. NextOf(curr[0]) \in TASKS \cup {NoTask}
    BY SMTT(30) DEF TypeOK, NextOf
  <2>2. [ctx[c] EXCEPT !.pc = "ins", !.tmp = NextOf(curr[0])] \in Context
    BY <2>1, ContextUpdates, PlaceNames DEF TypeOK, Jobs, Pointer
  <2> QED
    BY <1>13, <2>2 DEF JoinRead, TypeOK, taskVars
<1>14. ASSUME NEW c \in CPUS, JoinInsert(c) PROVE TypeOK'
  <2>1. ctx' \in [CPUS -> Context]
    BY <1>14, GotoType DEF JoinInsert, Places
  <2> QED
    BY <1>14, <2>1 DEF JoinInsert, TypeOK
<1>15. ASSUME NEW c \in CPUS, JoinClose(c) PROVE TypeOK'
  <2>1. ctx' \in [CPUS -> Context]
    BY <1>15, GotoType DEF JoinClose, Places
  <2>2. ctx[c].tmp \in TASKS \cup {NoTask}
    BY DEF TypeOK, Context
  <2> QED
    BY <1>15, <2>1, <2>2 DEF JoinClose, TypeOK
<1>16. ASSUME NEW c \in CPUS, SwitchToStarted(c) PROVE TypeOK'
  BY <1>16 DEF SwitchToStarted, Interrupted, TypeOK
<1>17. ASSUME NEW c \in CPUS, SwitchSave(c) PROVE TypeOK'
  <2>1. Resumed(ctx[c]) \in Context
    <3>1. ctx[c] \in Context /\ "dec" \in Places
      BY PlaceNames DEF TypeOK
    <3> QED
      BY <3>1, ContextUpdates DEF Resumed
  <2> QED
    BY <1>17, <2>1, SMTT(30) DEF SwitchSave, Interrupted, TypeOK
<1>18. ASSUME NEW c \in CPUS, SwitchPick(c) PROVE TypeOK'
  BY <1>18 DEF SwitchPick, taskVars, TypeOK
<1>19. CASE UNCHANGED vars
  BY <1>19 DEF vars, TypeOK
<1> QED
  BY <1>1, <1>2, <1>3, <1>4, <1>5, <1>31, <1>6, <1>7, <1>71, <1>72, <1>8, <1>9, <1>10, <1>11,
     <1>12, <1>13, <1>14, <1>15, <1>16, <1>17, <1>18, <1>19
     DEF JoinNext, Next, Execute, Finish, Join, Tick

\* Descriptors, contexts and intr_sema keep their types for any CPUs and tasks,
\* also while application CPUs run task_init_cpu.
THEOREM SchedTypes == JoinSpec => []TypeOK
<1>1. Init => TypeOK
  BY InitType
<1>2. TypeOK /\ [JoinNext]_vars => TypeOK'
  BY StepType
<1> QED
  BY <1>1, <1>2, PTL DEF JoinSpec

(***************************************************************************)
(* RFLAGS in a descriptor: the timer saves only what it could interrupt,   *)
(* task_fork sets IF, and start_process keeps the field.                   *)
(***************************************************************************)
KeepsIF == \A t \in made : r[t].iff = 1 => r'[t].iff = 1

LEMMA FlagsStep == TypeOK /\ [JoinNext]_vars => KeepsIF \/ UNCHANGED vars
<1> SUFFICES ASSUME TypeOK, [JoinNext]_vars PROVE KeepsIF \/ UNCHANGED vars
  OBVIOUS
<1> USE DEF KeepsIF
<1>0. r \in [TASKS -> Context] /\ ctx \in [CPUS -> Context] /\ made \subseteq TASKS
  BY DEF TypeOK
<1>1. ASSUME NEW c \in CPUS, NEW t \in TASKS, NEW s \in FORKSTATES, ForkChild(c, t, s)
      PROVE KeepsIF
  BY <1>0, <1>1 DEF ForkChild
<1>2. ASSUME NEW c \in CPUS, StartProcess(c) PROVE KeepsIF
  BY <1>0, <1>2 DEF StartProcess, Fresh
<1>3. ASSUME NEW c \in CPUS, SwitchSave(c) PROVE KeepsIF
  <2>1. Resumed(ctx[c]).iff = 1
    BY <1>0, <1>3 DEF SwitchSave, Interrupted, Resumed, Context
  <2> QED
    BY <1>0, <1>3, <2>1 DEF SwitchSave
<1>4. ASSUME NEW c \in CPUS, NEW t \in TASKS, JoinTask(c, t) PROVE KeepsIF
  BY <1>0, <1>4 DEF JoinTask
<1>5. ASSUME UNCHANGED r PROVE KeepsIF
  BY <1>5
<1>6. ASSUME NEW c \in CPUS, Execute(c) PROVE KeepsIF
  BY <1>1, <1>2, <1>5, <1>6 DEF Execute, Finish, DisableReadId, DisableLoad, DisableStore,
     DisableCli, EnableReadId, EnableLoad, EnableStore, EnableTest, EnableSti, Store, Return,
     Section, StartFiles, ForkInsert, taskVars
<1>7. ASSUME NEW c \in CPUS, Tick(c) \/ SwitchPick(c) PROVE KeepsIF
  BY <1>3, <1>5, <1>7 DEF Tick, SwitchToStarted, SwitchPick, taskVars
<1>8. ASSUME NEW c \in CPUS, Join(c) PROVE KeepsIF
  BY <1>4, <1>5, <1>8 DEF Join, JoinRead, JoinInsert, JoinClose, taskVars
<1>9. ASSUME NEW c \in CPUS, NEW j \in JOBS, Begin(c, j) PROVE KeepsIF
  BY <1>5, <1>9 DEF Begin, taskVars
<1>10. ASSUME NEW c \in CPUS, Nested(c) PROVE KeepsIF
  BY <1>5, <1>10 DEF Nested, taskVars
<1> QED
  BY <1>6, <1>7, <1>8, <1>9, <1>10 DEF JoinNext, Next, vars

\* For any CPUs and tasks, whether the timer has saved them before or not, and
\* while CPUs join: no step takes IF from the RFLAGS of a descriptor, so what
\* start_process hands over can be interrupted once the timer has saved the task.
THEOREM SchedStartRegs == JoinSpec => FlagsKept
<1>1. TypeOK /\ [JoinNext]_vars => [\A t \in made : r[t].iff = 1 => r'[t].iff = 1]_vars
  BY FlagsStep DEF KeepsIF
<1> QED
  BY <1>1, SchedTypes, PTL DEF JoinSpec, FlagsKept

(***************************************************************************)
(* One CPU, from the state task_init leaves: the boot task alone in the    *)
(* ring.  Until an update of intr_sema is lost, intr_sema[0] counts the    *)
(* open calls of intr_disable, however the tasks are preempted and forked. *)
(* That, in turn, is why the intr_enable of a nested pair never sets IF,   *)
(* and so why sections are not preempted: the facts are proved together.   *)
(***************************************************************************)
OneCpu ==
    /\ CPUS = {0}
    /\ IsFiniteSet(TASKS) /\ Cardinality(TASKS) + 1 < BYTE
    /\ FIRSTCURR[0] \in TASKS
    /\ FIRSTNEXT = [t \in TASKS |-> IF t = FIRSTCURR[0] THEN t ELSE NoTask]

ContextOf(t) == IF curr[0] = t /\ 0 \notin switching THEN ctx[0] ELSE r[t]

Outer == {t \in made : HoldsOuter(ContextOf(t))}
Inner == {t \in made : HoldsNested(ContextOf(t))}

\* That a saved context is outside every section rests on a section being
\* executed with IF clear.
MaskInv ==
    /\ \A t \in TASKS : ~InSection(r[t])
    /\ InSection(ctx[0]) => ctx[0].iff = 0
    /\ 0 \in switching => ~InSection(ctx[0])

\* The places of a nested pair; IF would be set at "sti".
Pair == {"dis", "inc", "sto", "cli", "en", "dec", "dst", "chk"}

\* The tasks a walk along next can meet are allocated ones, and a task that is
\* about to start waits for the timer behind its section.
RunInv ==
    /\ curr[0] \in made
    /\ \A t \in made : next[t] \in made
    /\ 0 \notin switching /\ ctx[0].pc = "ins" => ctx[0].new \in made
    /\ 0 \notin switching /\ state[curr[0]] = "STARTING" =>
         /\ ctx[0].nest \/ ctx[0].pc \in {"prep", "en", "dec", "dst", "chk", "sti", "bug", "spin"}
         /\ ctx[0].job = "start"
         /\ ~HoldsOuter(r[curr[0]])
    /\ ctx[0].job # "join" /\ \A t \in TASKS : r[t].job # "join"

CountInv ==
    /\ sema[0] = Cardinality(Outer) + Cardinality(Inner)
    /\ ctx[0].nest => ctx[0].pc \in Pair
    /\ ctx[0].pc = "dst" => ctx[0].val = sema[0]

LEMMA LiveIs == ASSUME OneCpu, NEW t PROVE Live(t) = ContextOf(t)
<1>1. CASE curr[0] = t /\ 0 \notin switching
  <2>1. (CHOOSE c \in CPUS : curr[c] = t /\ c \notin switching) = 0
    BY <1>1 DEF OneCpu
  <2>2. \E c \in CPUS : curr[c] = t /\ c \notin switching
    BY <1>1 DEF OneCpu
  <2> QED
    BY <1>1, <2>1, <2>2 DEF Live, ContextOf
<1>2. CASE ~(curr[0] = t /\ 0 \notin switching)
  <2>1. ~\E c \in CPUS : curr[c] = t /\ c \notin switching
    BY <1>2 DEF OneCpu
  <2> QED
    BY <1>2, <2>1 DEF Live, ContextOf
<1> QED
  BY <1>1, <1>2

LEMMA SemaIs ==
  ASSUME OneCpu, stale \/ CountInv PROVE SemaCounts
<1>1. /\ Outer = {t \in made : HoldsOuter(Live(t))}
      /\ Inner = {t \in made : HoldsNested(Live(t))}
  BY LiveIs DEF Outer, Inner
<1> QED
  BY <1>1 DEF SemaCounts, CountInv

\* Only the running task can be in a nested pair.
LEMMA InsideFinite ==
  ASSUME OneCpu, TypeOK, MaskInv
  PROVE  /\ IsFiniteSet(Outer) /\ Cardinality(Outer) \in Nat
         /\ IsFiniteSet(Inner) /\ Cardinality(Inner) \in Nat
         /\ Cardinality(Outer) + Cardinality(Inner) < BYTE
         /\ Inner \subseteq {curr[0]}
<1>1. Outer \in SUBSET TASKS /\ made \subseteq TASKS
  BY DEF Outer, TypeOK
<1>2. IsFiniteSet(Outer) /\ Cardinality(Outer) <= Cardinality(TASKS)
  BY <1>1, FS_Subset DEF OneCpu
<1>3. Inner \in SUBSET {curr[0]}
  BY <1>1 DEF Inner, ContextOf, MaskInv, HoldsNested, InSection
<1>4. IsFiniteSet({curr[0]}) /\ Cardinality({curr[0]}) = 1
  BY FS_Singleton
<1>5. IsFiniteSet(Inner) /\ Cardinality(Inner) <= 1
  BY <1>3, <1>4, FS_Subset
<1>6. Cardinality(Outer) \in Nat /\ Cardinality(Inner) \in Nat /\ Cardinality(TASKS) \in Nat
  BY <1>2, <1>5, FS_CardinalityType DEF OneCpu
<1> QED
  BY <1>2, <1>3, <1>5, <1>6, SchedAssumption DEF OneCpu, SchedAssumption

LEMMA InsideBound ==
  ASSUME OneCpu
  PROVE  TypeOK /\ MaskInv => /\ Cardinality(Outer) \in Nat /\ Cardinality(Inner) \in Nat
                              /\ Cardinality(Outer) + Cardinality(Inner) < BYTE
BY InsideFinite

\* intr_enable is called with the counter above 0.
LEMMA CountPositive ==
  ASSUME OneCpu, TypeOK, MaskInv, CountInv, curr[0] \in made, 0 \notin switching, HoldsOuter(ctx[0])
  PROVE  sema[0] # 0
<1>1. curr[0] \in Outer
  BY DEF Outer, ContextOf
<1>2. Cardinality(Outer) # 0
  BY <1>1, InsideFinite, FS_EmptySet
<1> QED
  BY <1>2, InsideFinite DEF CountInv

LEMMA StaleStays == ASSUME [Next]_vars, stale PROVE stale'
<1>1. ASSUME NEW c \in CPUS, Execute(c) PROVE stale'
  BY <1>1 DEF Execute, Finish, DisableReadId, DisableLoad, DisableStore, DisableCli, EnableReadId,
     EnableLoad, EnableStore, EnableTest, EnableSti, Store, Return, Section, ForkChild, ForkInsert,
     StartProcess, StartFiles
<1>2. ASSUME NEW c \in CPUS, NEW j \in JOBS, Begin(c, j) PROVE stale'
  BY <1>2 DEF Begin
<1>3. ASSUME NEW c \in CPUS, Nested(c) \/ Tick(c) \/ SwitchPick(c) PROVE stale'
  BY <1>3 DEF Nested, Tick, SwitchToStarted, SwitchSave, SwitchPick
<1> QED
  BY <1>1, <1>2, <1>3, ZenonT(40) DEF Next, vars

(***************************************************************************)
(* The steps that change only the executed context, or also the counter.   *)
(***************************************************************************)
OnlyCtx(x) ==
    /\ 0 \notin switching
    /\ ctx' = [ctx EXCEPT ![0] = x]
    /\ UNCHANGED <<taskVars, curr, switching>>

\* The executed context becomes x and the counter n; nothing else changes.
CtxStep(x, n) == OnlyCtx(x) /\ sema' = [sema EXCEPT ![0] = n]

LEMMA SemaSame == TypeOK => sema = [sema EXCEPT ![0] = sema[0]]
BY DEF TypeOK

LEMMA CtxOuter ==
  ASSUME OneCpu, TypeOK, curr[0] \in made, NEW x, OnlyCtx(x)
  PROVE  /\ Outer' = IF HoldsOuter(x) THEN Outer \cup {curr[0]} ELSE Outer \ {curr[0]}
         /\ Inner' = IF HoldsNested(x) THEN Inner \cup {curr[0]} ELSE Inner \ {curr[0]}
         /\ curr[0] \in Outer <=> HoldsOuter(ctx[0])
         /\ curr[0] \in Inner <=> HoldsNested(ctx[0])
<1>1. ctx'[0] = x /\ r' = r /\ made' = made /\ curr' = curr /\ switching' = switching
  BY DEF OnlyCtx, taskVars, TypeOK, OneCpu
<1>2. \A t \in made : ContextOf(t)' = IF t = curr[0] THEN x ELSE ContextOf(t)
  BY <1>1 DEF ContextOf, OnlyCtx
<1>3. ContextOf(curr[0]) = ctx[0]
  BY DEF ContextOf, OnlyCtx
<1>4. /\ Outer' = {t \in made : HoldsOuter(ContextOf(t)')}
      /\ Inner' = {t \in made : HoldsNested(ContextOf(t)')}
  BY <1>1 DEF Outer, Inner, HoldsOuter, HoldsNested
<1> QED
  BY <1>2, <1>3, <1>4 DEF Outer, Inner

Bit(P) == IF P THEN 1 ELSE 0

\* The change of the counter is that of the two sets.
Counts(x, n) ==
    n = (sema[0] + Bit(HoldsOuter(x)) - Bit(HoldsOuter(ctx[0]))
                 + Bit(HoldsNested(x)) - Bit(HoldsNested(ctx[0]))) % BYTE

LEMMA CtxCount ==
  ASSUME OneCpu, TypeOK, TypeOK', MaskInv, MaskInv', CountInv, curr[0] \in made,
         NEW x, NEW n, CtxStep(x, n), Counts(x, n)
  PROVE  sema'[0] = Cardinality(Outer') + Cardinality(Inner')
<1> DEFINE dO == Bit(HoldsOuter(x)) - Bit(HoldsOuter(ctx[0]))
           dI == Bit(HoldsNested(x)) - Bit(HoldsNested(ctx[0]))
<1>1. IsFiniteSet(Outer) /\ Cardinality(Outer) \in Nat /\ IsFiniteSet(Inner) /\ Cardinality(Inner) \in Nat
  BY InsideFinite
<1>2. (TypeOK /\ MaskInv => /\ Cardinality(Outer) \in Nat /\ Cardinality(Inner) \in Nat
                          /\ Cardinality(Outer) + Cardinality(Inner) < BYTE)'
  BY InsideBound, PTL
<1>3. /\ Cardinality(Outer') \in Nat /\ Cardinality(Inner') \in Nat
      /\ Cardinality(Outer') + Cardinality(Inner') < BYTE
  BY <1>2
<1>4. Cardinality(Outer') = Cardinality(Outer) + dO
  <2>1. OnlyCtx(x)
    BY DEF CtxStep
  <2>2. CASE HoldsOuter(x) /\ ~HoldsOuter(ctx[0])
    BY <1>1, <2>1, <2>2, CtxOuter, FS_AddElement DEF Bit
  <2>3. CASE ~HoldsOuter(x) /\ HoldsOuter(ctx[0])
    BY <1>1, <2>1, <2>3, CtxOuter, FS_RemoveElement DEF Bit
  <2>4. CASE HoldsOuter(x) <=> HoldsOuter(ctx[0])
    <3>1. Outer' = Outer
      BY <2>1, <2>4, CtxOuter
    <3> QED
      BY <1>1, <2>4, <3>1 DEF Bit
  <2> QED
    BY <2>2, <2>3, <2>4
<1>5. Cardinality(Inner') = Cardinality(Inner) + dI
  <2>1. OnlyCtx(x)
    BY DEF CtxStep
  <2>2. CASE HoldsNested(x) /\ ~HoldsNested(ctx[0])
    BY <1>1, <2>1, <2>2, CtxOuter, FS_AddElement, SMTT(30) DEF Bit
  <2>3. CASE ~HoldsNested(x) /\ HoldsNested(ctx[0])
    BY <1>1, <2>1, <2>3, CtxOuter, FS_RemoveElement DEF Bit
  <2>4. CASE HoldsNested(x) <=> HoldsNested(ctx[0])
    <3>1. Inner' = Inner
      BY <2>1, <2>4, CtxOuter
    <3> QED
      BY <1>1, <2>4, <3>1 DEF Bit
  <2> QED
    BY <2>2, <2>3, <2>4
<1>6. dO \in Int /\ dI \in Int /\ n = (sema[0] + dO + dI) % BYTE
  <2>1. /\ Bit(HoldsOuter(x)) \in Int /\ Bit(HoldsOuter(ctx[0])) \in Int
        /\ Bit(HoldsNested(x)) \in Int /\ Bit(HoldsNested(ctx[0])) \in Int
    BY DEF Bit
  <2>2. sema[0] \in Int
    BY SchedAssumption DEF SchedAssumption, TypeOK
  <2>3. dO \in Int /\ dI \in Int
    BY <2>1
  <2>4. sema[0] + dO + dI = sema[0] + Bit(HoldsOuter(x)) - Bit(HoldsOuter(ctx[0]))
                           + Bit(HoldsNested(x)) - Bit(HoldsNested(ctx[0]))
    BY <2>1, <2>2
  <2> QED
    BY <2>3, <2>4 DEF Counts
<1> HIDE DEF dO, dI
<1>7. sema[0] + dO + dI = Cardinality(Outer') + Cardinality(Inner')
  BY <1>1, <1>4, <1>5, <1>6 DEF CountInv
<1>8. (sema[0] + dO + dI) % BYTE = sema[0] + dO + dI
  BY <1>3, <1>7, SchedAssumption DEF SchedAssumption
<1>9. sema'[0] = n
  BY SchedAssumption DEF SchedAssumption, CtxStep, TypeOK
<1> QED
  BY <1>6, <1>7, <1>8, <1>9

\* What a step of the executed context has to respect.
Sound(x, n) ==
    /\ InSection(x) => x.iff = 0
    /\ x.pc # "ins" /\ x.job # "join"
    /\ state[curr[0]] = "STARTING" =>
         /\ x.nest \/ x.pc \in {"prep", "en", "dec", "dst", "chk", "sti", "bug", "spin"}
         /\ x.job = "start"
    /\ x.nest => x.pc \in Pair
    /\ x.pc = "dst" => x.val = n
    /\ Counts(x, n)

Invs == MaskInv /\ RunInv /\ CountInv

LEMMA CtxInv ==
  ASSUME OneCpu, TypeOK, TypeOK', Invs, NEW x, NEW n, CtxStep(x, n), Sound(x, n)
  PROVE  Invs'
<1>1. /\ ctx'[0] = x /\ r' = r /\ made' = made /\ curr' = curr /\ switching' = switching
      /\ state' = state /\ next' = next /\ 0 \notin switching /\ sema'[0] = n
  BY SchedAssumption DEF SchedAssumption, CtxStep, OnlyCtx, taskVars, TypeOK, OneCpu
<1>2. MaskInv'
  BY <1>1 DEF MaskInv, Invs, Sound, InSection
<1>3. RunInv'
  BY <1>1 DEF RunInv, Invs, Sound, HoldsOuter
<1>4. CountInv'
  <2>1. sema'[0] = Cardinality(Outer') + Cardinality(Inner')
    BY <1>2, CtxCount DEF Invs, RunInv, Sound
  <2> QED
    BY <1>1, <2>1 DEF CountInv, Sound
<1> QED
  BY <1>2, <1>3, <1>4 DEF Invs

\* Steps that leave the counter: the places do not differ in what they hold.
LEMMA SameCount ==
  ASSUME OneCpu, TypeOK, NEW x, HoldsOuter(x) <=> HoldsOuter(ctx[0]),
         HoldsNested(x) <=> HoldsNested(ctx[0])
  PROVE  Counts(x, sema[0])
<1>1. sema[0] \in 0 .. (BYTE - 1)
  BY SchedAssumption DEF SchedAssumption, TypeOK
<1>2. /\ Bit(HoldsOuter(x)) = Bit(HoldsOuter(ctx[0])) /\ Bit(HoldsNested(x)) = Bit(HoldsNested(ctx[0]))
      /\ Bit(HoldsOuter(x)) \in Int /\ Bit(HoldsNested(x)) \in Int
  BY DEF Bit
<1>3. sema[0] % BYTE = sema[0]
  BY <1>1, SchedAssumption DEF SchedAssumption
<1> QED
  BY <1>1, <1>2, <1>3 DEF Counts

LEMMA CountsBy ==
  ASSUME NEW x, NEW k \in Int, sema[0] \in Int, NEW n, n = (sema[0] + k) % BYTE,
         Bit(HoldsOuter(x)) - Bit(HoldsOuter(ctx[0])) + Bit(HoldsNested(x)) - Bit(HoldsNested(ctx[0])) = k
  PROVE  Counts(x, n)
<1>1. /\ Bit(HoldsOuter(x)) \in Int /\ Bit(HoldsOuter(ctx[0])) \in Int
      /\ Bit(HoldsNested(x)) \in Int /\ Bit(HoldsNested(ctx[0])) \in Int
  BY DEF Bit
<1>2. sema[0] + Bit(HoldsOuter(x)) - Bit(HoldsOuter(ctx[0]))
        + Bit(HoldsNested(x)) - Bit(HoldsNested(ctx[0])) = sema[0] + k
  BY <1>1
<1> QED
  BY <1>2 DEF Counts

LEMMA CtxActions ==
  ASSUME OneCpu, TypeOK, Invs, ~stale', NEW c \in CPUS,
         \/ \E j \in JOBS : Begin(c, j)
         \/ DisableReadId(c) \/ DisableLoad(c) \/ DisableStore(c) \/ DisableCli(c)
         \/ EnableReadId(c) \/ EnableLoad(c) \/ EnableStore(c) \/ EnableTest(c) \/ EnableSti(c)
         \/ Nested(c) \/ Section(c) \/ StartFiles(c)
  PROVE  \E x, n : CtxStep(x, n) /\ Sound(x, n)
<1> DEFINE y == ctx[0]
<1>0. /\ c = 0 /\ y \in Context /\ sema[0] \in 0 .. (BYTE - 1) /\ y.id = 0
      /\ JOBS \subseteq {"section", "fork", "start"}
      /\ curr[0] \in made /\ ctx \in [CPUS -> Context]
  BY SchedAssumption DEF SchedAssumption, TypeOK, OneCpu, Context, Invs, RunInv
<1>00. sema = [sema EXCEPT ![0] = sema[0]]
  BY SemaSame
<1>01. ASSUME NEW x, OnlyCtx(x), sema' = sema,
              InSection(x) => x.iff = 0, x.pc # "ins", x.job # "join",
              state[curr[0]] = "STARTING" =>
                /\ x.nest \/ x.pc \in {"prep", "en", "dec", "dst", "chk", "sti", "bug", "spin"}
                /\ x.job = "start",
              x.nest => x.pc \in Pair, x.pc = "dst" => x.val = sema[0],
              HoldsOuter(x) <=> HoldsOuter(y), HoldsNested(x) <=> HoldsNested(y)
       PROVE  \E z, n : CtxStep(z, n) /\ Sound(z, n)
  BY <1>00, <1>01, SameCount DEF CtxStep, Sound
<1>02. 0 \notin switching =>
         /\ InSection(y) => y.iff = 0
         /\ y.job # "join"
         /\ state[curr[0]] = "STARTING" =>
              /\ y.nest \/ y.pc \in {"prep", "en", "dec", "dst", "chk", "sti", "bug", "spin"}
              /\ y.job = "start"
         /\ y.nest => y.pc \in Pair
         /\ y.pc = "dst" => y.val = sema[0]
  BY DEF Invs, MaskInv, RunInv, CountInv
<1> HIDE DEF y
<1> USE DEF InSection, HoldsOuter, HoldsNested, Pair, At, OnlyCtx
<1>1. ASSUME NEW j \in JOBS, Begin(c, j) PROVE \E x, n : CtxStep(x, n) /\ Sound(x, n)
  <2> DEFINE x == [y EXCEPT !.pc = "dis", !.job = j, !.sid = 0]
  <2>1. OnlyCtx(x) /\ sema' = sema /\ y.pc = "run"
    BY <1>0, <1>1 DEF Begin, y
  <2>2. x.pc = "dis" /\ x.job = j /\ x.nest = y.nest /\ x.iff = y.iff
    BY <1>0 DEF Context
  <2> HIDE DEF x
  <2> QED
    BY <1>0, <1>01, <1>02, <2>1, <2>2
<1>2. CASE DisableReadId(c)
  <2> DEFINE x == [y EXCEPT !.pc = "inc", !.id = 0]
  <2>1. OnlyCtx(x) /\ sema' = sema /\ y.pc = "dis"
    BY <1>0, <1>2 DEF DisableReadId, y
  <2>2. x.pc = "inc" /\ x.job = y.job /\ x.nest = y.nest /\ x.iff = y.iff
    BY <1>0 DEF Context
  <2> HIDE DEF x
  <2> QED
    BY <1>0, <1>01, <1>02, <2>1, <2>2
<1>3. CASE DisableLoad(c)
  <2> DEFINE x == [y EXCEPT !.pc = "sto", !.val = sema[0]]
  <2>1. OnlyCtx(x) /\ sema' = sema /\ y.pc = "inc"
    BY <1>0, <1>3 DEF DisableLoad, y
  <2>2. x.pc = "sto" /\ x.job = y.job /\ x.nest = y.nest /\ x.iff = y.iff
    BY <1>0 DEF Context
  <2> HIDE DEF x
  <2> QED
    BY <1>0, <1>01, <1>02, <2>1, <2>2
<1>4. CASE DisableStore(c)
  <2> DEFINE x == [y EXCEPT !.pc = "cli", !.val = 0]
             n == (y.val + 1) % BYTE
  <2>1. OnlyCtx(x) /\ sema' = [sema EXCEPT ![0] = n] /\ y.pc = "sto" /\ y.val = sema[0]
    BY <1>0, <1>4 DEF DisableStore, Store, y
  <2>2. x.pc = "cli" /\ x.job = y.job /\ x.nest = y.nest /\ x.iff = y.iff
    BY <1>0 DEF Context
  <2> HIDE DEF x
  <2>3. y.nest \in BOOLEAN
    BY <1>0 DEF Context
  <2>4. Counts(x, n)
    <3>1. /\ Bit(HoldsOuter(x)) - Bit(HoldsOuter(y)) + Bit(HoldsNested(x)) - Bit(HoldsNested(y)) = 1
          /\ Bit(HoldsOuter(x)) \in Int /\ Bit(HoldsOuter(y)) \in Int
          /\ Bit(HoldsNested(x)) \in Int /\ Bit(HoldsNested(y)) \in Int
      BY <2>1, <2>2, <2>3 DEF Bit
    <3>2. n = (sema[0] + (1)) % BYTE
      <4>1. sema[0] + (1) = sema[0] + 1
        BY <1>0
      <4> QED
        BY <2>1, <4>1
    <3> HIDE DEF n, HoldsOuter, HoldsNested
    <3> QED
      BY <1>0, <3>1, <3>2, CountsBy DEF y
  <2> QED
    BY <1>0, <1>02, <2>1, <2>2, <2>4 DEF CtxStep, Sound
<1>5. CASE DisableCli(c)
  <2> DEFINE x == [y EXCEPT !.pc = IF y.nest THEN "en" ELSE "body", !.iff = 0]
  <2>1. OnlyCtx(x) /\ sema' = sema /\ y.pc = "cli"
    BY <1>0, <1>5 DEF DisableCli, y
  <2>2. x.pc = (IF y.nest THEN "en" ELSE "body") /\ x.job = y.job /\ x.nest = y.nest /\ x.iff = 0
    BY <1>0 DEF Context
  <2> HIDE DEF x
  <2> QED
    BY <1>0, <1>01, <1>02, <2>1, <2>2
<1>6. CASE EnableReadId(c)
  <2> DEFINE x == [y EXCEPT !.id = 0, !.pc = IF sema[0] = 0 THEN "bug" ELSE "dec"]
  <2>1. OnlyCtx(x) /\ sema' = sema /\ y.pc = "en"
    BY <1>0, <1>6 DEF EnableReadId, y
  <2>2. sema[0] # 0
    BY <1>0, <2>1, CountPositive DEF y, Invs
  <2>3. x.pc = "dec" /\ x.job = y.job /\ x.nest = y.nest /\ x.iff = y.iff
    BY <1>0, <2>2 DEF Context
  <2> HIDE DEF x
  <2> QED
    BY <1>0, <1>01, <1>02, <2>1, <2>3
<1>7. CASE EnableLoad(c)
  <2> DEFINE x == [y EXCEPT !.pc = "dst", !.val = sema[0]]
  <2>1. OnlyCtx(x) /\ sema' = sema /\ y.pc = "dec"
    BY <1>0, <1>7 DEF EnableLoad, y
  <2>2. x.pc = "dst" /\ x.val = sema[0] /\ x.job = y.job /\ x.nest = y.nest /\ x.iff = y.iff
    BY <1>0 DEF Context
  <2> HIDE DEF x
  <2> QED
    BY <1>0, <1>01, <1>02, <2>1, <2>2
<1>8. CASE EnableStore(c)
  <2> DEFINE x == [y EXCEPT !.pc = "chk", !.val = 0]
             n == (y.val - 1) % BYTE
  <2>1. OnlyCtx(x) /\ sema' = [sema EXCEPT ![0] = n] /\ y.pc = "dst" /\ y.val = sema[0]
    BY <1>0, <1>02, <1>8 DEF EnableStore, Store, y
  <2>2. x.pc = "chk" /\ x.job = y.job /\ x.nest = y.nest /\ x.iff = y.iff
    BY <1>0 DEF Context
  <2> HIDE DEF x
  <2>3. y.nest \in BOOLEAN
    BY <1>0 DEF Context
  <2>4. Counts(x, n)
    <3>1. /\ Bit(HoldsOuter(x)) - Bit(HoldsOuter(y)) + Bit(HoldsNested(x)) - Bit(HoldsNested(y)) = -1
          /\ Bit(HoldsOuter(x)) \in Int /\ Bit(HoldsOuter(y)) \in Int
          /\ Bit(HoldsNested(x)) \in Int /\ Bit(HoldsNested(y)) \in Int
      BY <2>1, <2>2, <2>3 DEF Bit
    <3>2. n = (sema[0] + (-1)) % BYTE
      <4>1. sema[0] + (-1) = sema[0] - 1
        BY <1>0
      <4> QED
        BY <2>1, <4>1
    <3> HIDE DEF n, HoldsOuter, HoldsNested
    <3> QED
      BY <1>0, <3>1, <3>2, CountsBy DEF y
  <2> QED
    BY <1>0, <1>02, <2>1, <2>2, <2>4 DEF CtxStep, Sound
<1>9. CASE EnableTest(c)
  <2>0. y.pc = "chk" /\ 0 \notin switching
    BY <1>0, <1>9 DEF EnableTest, y
  <2>1. CASE sema[0] = 0
    <3> DEFINE x == [y EXCEPT !.pc = "sti"]
    <3>1. OnlyCtx(x) /\ sema' = sema
      BY <1>0, <1>9, <2>0, <2>1 DEF EnableTest, Goto, y
    <3>2. ~y.nest
      BY <1>0, <2>0, <2>1, CountPositive DEF y, Invs
    <3>3. x.pc = "sti" /\ x.job = y.job /\ x.nest = y.nest /\ x.iff = y.iff
      BY <1>0 DEF Context
    <3> HIDE DEF x
    <3> QED
      BY <1>0, <1>01, <1>02, <2>0, <3>1, <3>2, <3>3
  <2>2. CASE sema[0] # 0
    <3> DEFINE x == [y EXCEPT !.pc = Back(y), !.nest = FALSE, !.iff = y.iff]
    <3>1. OnlyCtx(x) /\ sema' = sema
      BY <1>0, <1>9, <2>0, <2>2 DEF EnableTest, Return, y
    <3>2. x.pc = Back(y) /\ x.job = y.job /\ x.nest = FALSE /\ x.iff = y.iff
      BY <1>0 DEF Context
    <3> HIDE DEF x
    <3>3. /\ y.nest /\ y.job = "start" => Back(y) = "prep"
          /\ y.nest /\ y.job # "start" => Back(y) = "body"
          /\ ~y.nest /\ y.job = "start" => Back(y) = "spin"
          /\ ~y.nest /\ y.job # "start" => Back(y) = "run"
      BY <1>02, <2>0 DEF Back
    <3> QED
      BY <1>0, <1>01, <1>02, <2>0, <3>1, <3>2, <3>3
  <2> QED
    BY <2>1, <2>2
<1>10. CASE EnableSti(c)
  <2> DEFINE x == [y EXCEPT !.pc = Back(y), !.nest = FALSE, !.iff = 1]
  <2>0. y.pc = "sti" /\ 0 \notin switching /\ ~y.nest
    BY <1>0, <1>02, <1>10 DEF EnableSti, y
  <2>1. OnlyCtx(x) /\ sema' = sema
    BY <1>0, <1>10, <2>0 DEF EnableSti, Return, y
  <2>2. x.pc = Back(y) /\ x.job = y.job /\ x.nest = FALSE /\ x.iff = 1
    BY <1>0 DEF Context
  <2> HIDE DEF x
  <2>3. Back(y) = IF y.job = "start" THEN "spin" ELSE "run"
    BY <2>0 DEF Back
  <2> QED
    BY <1>0, <1>01, <1>02, <2>0, <2>1, <2>2, <2>3
<1>11. CASE Nested(c)
  <2> DEFINE x == [y EXCEPT !.pc = "dis", !.nest = TRUE]
  <2>1. OnlyCtx(x) /\ sema' = sema /\ y.pc \in {"body", "prep", "tmp"}
    BY <1>0, <1>11 DEF Nested, AtJob, y
  <2>2. x.pc = "dis" /\ x.job = y.job /\ x.nest = TRUE /\ x.iff = y.iff
    BY <1>0 DEF Context
  <2> HIDE DEF x
  <2> QED
    BY <1>0, <1>01, <1>02, <2>1, <2>2
<1>12. CASE Section(c) \/ StartFiles(c)
  <2> DEFINE x == [y EXCEPT !.pc = "en"]
  <2>1. OnlyCtx(x) /\ sema' = sema /\ y.pc \in {"body", "prep"}
    BY <1>0, <1>12 DEF Section, StartFiles, AtJob, Goto, y
  <2>2. x.pc = "en" /\ x.job = y.job /\ x.nest = y.nest /\ x.iff = y.iff
    BY <1>0 DEF Context
  <2> HIDE DEF x
  <2> QED
    BY <1>0, <1>01, <1>02, <2>1, <2>2
<1> QED
  BY <1>1, <1>2, <1>3, <1>4, <1>5, <1>6, <1>7, <1>8, <1>9, <1>10, <1>11, <1>12

(***************************************************************************)
(* The other steps.  None changes the counter; the two sets stay.          *)
(***************************************************************************)
LEMMA SetsSame ==
  ASSUME CountInv, sema' = sema, Outer' = Outer, Inner' = Inner,
         ctx'[0].nest => ctx'[0].pc \in Pair, ctx'[0].pc # "dst"
  PROVE  CountInv'
BY DEF CountInv

LEMMA ForkChildInv ==
  ASSUME OneCpu, TypeOK, Invs, NEW c \in CPUS, NEW t \in TASKS, NEW s \in FORKSTATES,
         ForkChild(c, t, s)
  PROVE  Invs'
<1>0. /\ c = 0 /\ ctx \in [CPUS -> Context] /\ r \in [TASKS -> Context] /\ 0 \in CPUS
      /\ next \in [TASKS -> TASKS \cup {NoTask}] /\ made \subseteq TASKS
      /\ state \in [TASKS -> States] /\ curr[0] \in TASKS /\ curr[0] \in made
  BY SchedAssumption DEF SchedAssumption, TypeOK, OneCpu, States, Invs, RunInv
<1> DEFINE x == [ctx[0] EXCEPT !.pc = "ins", !.new = t]
<1>1. /\ 0 \notin switching /\ ctx[0].pc = "body" /\ ctx[0].job = "fork" /\ t \notin made
      /\ made' = made \cup {t} /\ curr' = curr /\ switching' = switching /\ sema' = sema
      /\ r' = [r EXCEPT ![t] = Running] /\ state' = [state EXCEPT ![t] = s]
      /\ next' = [next EXCEPT ![t] = NextOf(curr[0])]
      /\ ctx' = [ctx EXCEPT ![0] = x]
  BY <1>0 DEF ForkChild, AtJob, At
<1>2. /\ x.pc = "ins" /\ x.new = t /\ x.job = ctx[0].job /\ x.nest = ctx[0].nest /\ x.iff = ctx[0].iff
      /\ ctx'[0] = x
  BY <1>0, <1>1 DEF Context
<1>3. /\ Running.pc = "run" /\ ~Running.nest /\ Running.job = "none"
      /\ r'[t] = Running /\ \A u \in TASKS \ {t} : r'[u] = r[u]
  BY <1>0, <1>1 DEF Running, Fresh
<1> HIDE DEF x
<1>4. ~ctx[0].nest /\ ctx[0].iff = 0
  BY <1>1 DEF Invs, CountInv, Pair, MaskInv, InSection
<1>5. MaskInv'
  BY <1>1, <1>2, <1>3, <1>4 DEF Invs, MaskInv, InSection
<1>6. RunInv'
  <2>1. state'[curr[0]] = state[curr[0]] /\ state[curr[0]] # "STARTING"
    BY <1>0, <1>1, <1>4 DEF Invs, RunInv
  <2>2. NextOf(curr[0]) \in made
    BY <1>0, SchedAssumption DEF SchedAssumption, NextOf, Invs, RunInv
  <2> QED
    BY <1>0, <1>1, <1>2, <1>3, <2>1, <2>2 DEF Invs, RunInv
<1>7. \A u \in made : /\ HoldsOuter(ContextOf(u)') <=> HoldsOuter(ContextOf(u))
                      /\ HoldsNested(ContextOf(u)') <=> HoldsNested(ContextOf(u))
  BY <1>0, <1>1, <1>2, <1>3, <1>4 DEF ContextOf, HoldsOuter, HoldsNested
<1>8. ~HoldsOuter(ContextOf(t)') /\ ~HoldsNested(ContextOf(t)')
  BY <1>0, <1>1, <1>3 DEF ContextOf, HoldsOuter, HoldsNested
<1>9. Outer' = Outer /\ Inner' = Inner
  <2>1. /\ Outer' = {u \in made' : HoldsOuter(ContextOf(u)')}
        /\ Inner' = {u \in made' : HoldsNested(ContextOf(u)')}
    BY DEF Outer, Inner, HoldsOuter, HoldsNested
  <2> QED
    BY <1>1, <1>7, <1>8, <2>1 DEF Outer, Inner
<1>10. CountInv'
  BY <1>1, <1>2, <1>4, <1>9, SetsSame DEF Invs
<1> QED
  BY <1>5, <1>6, <1>10 DEF Invs

\* A step keeps the two sets when it keeps what each task holds.
LEMMA SetsBy ==
  ASSUME made' = made,
         \A u \in made : /\ HoldsOuter(ContextOf(u)') <=> HoldsOuter(ContextOf(u))
                         /\ HoldsNested(ContextOf(u)') <=> HoldsNested(ContextOf(u))
  PROVE  Outer' = Outer /\ Inner' = Inner
<1>1. /\ Outer' = {u \in made' : HoldsOuter(ContextOf(u)')}
      /\ Inner' = {u \in made' : HoldsNested(ContextOf(u)')}
  BY DEF Outer, Inner, HoldsOuter, HoldsNested
<1> QED
  BY <1>1 DEF Outer, Inner

LEMMA ForkInsertInv ==
  ASSUME OneCpu, TypeOK, Invs, NEW c \in CPUS, ForkInsert(c)
  PROVE  Invs'
<1>0. /\ c = 0 /\ ctx \in [CPUS -> Context] /\ 0 \in CPUS
      /\ next \in [TASKS -> TASKS \cup {NoTask}] /\ made \subseteq TASKS
      /\ curr[0] \in TASKS /\ curr[0] \in made
  BY SchedAssumption DEF SchedAssumption, TypeOK, OneCpu, Invs, RunInv
<1> DEFINE x == [ctx[0] EXCEPT !.pc = "en"]
<1>1. /\ 0 \notin switching /\ ctx[0].pc = "ins" /\ ctx[0].job = "fork" /\ made' = made
      /\ curr' = curr /\ switching' = switching /\ sema' = sema /\ r' = r /\ state' = state
      /\ next' = [next EXCEPT ![curr[0]] = ctx[0].new]
      /\ ctx' = [ctx EXCEPT ![0] = x]
  BY <1>0 DEF ForkInsert, AtJob, At, Goto
<1>2. /\ x.pc = "en" /\ x.job = ctx[0].job /\ x.nest = ctx[0].nest /\ x.iff = ctx[0].iff
      /\ ctx'[0] = x
  BY <1>0, <1>1 DEF Context
<1> HIDE DEF x
<1>4. ~ctx[0].nest /\ ctx[0].iff = 0
  BY <1>1 DEF Invs, CountInv, Pair, MaskInv, InSection
<1>5. MaskInv'
  BY <1>1, <1>2, <1>4 DEF Invs, MaskInv, InSection
<1>6. RunInv'
  BY <1>0, <1>1, <1>2, <1>4 DEF Invs, RunInv
<1>7. \A u \in made : /\ HoldsOuter(ContextOf(u)') <=> HoldsOuter(ContextOf(u))
                      /\ HoldsNested(ContextOf(u)') <=> HoldsNested(ContextOf(u))
  BY <1>0, <1>1, <1>2, <1>4 DEF ContextOf, HoldsOuter, HoldsNested
<1>8. CountInv'
  BY <1>1, <1>2, <1>4, <1>7, SetsBy, SetsSame DEF Invs
<1> QED
  BY <1>5, <1>6, <1>8 DEF Invs

LEMMA StartInv ==
  ASSUME OneCpu, TypeOK, Invs, NEW c \in CPUS, StartProcess(c)
  PROVE  Invs'
<1>0. /\ c = 0 /\ ctx \in [CPUS -> Context] /\ r \in [TASKS -> Context] /\ 0 \in CPUS
      /\ state \in [TASKS -> States] /\ made \subseteq TASKS /\ ctx[0].sid = 0
      /\ curr[0] \in TASKS /\ curr[0] \in made
  BY SchedAssumption DEF SchedAssumption, TypeOK, OneCpu, Context, States, Invs, RunInv
<1> DEFINE x == [ctx[0] EXCEPT !.pc = "prep"]
           u == Fresh("user", "none", r[curr[0]].iff)
<1>1. /\ 0 \notin switching /\ ctx[0].pc = "body" /\ ctx[0].job = "start" /\ made' = made
      /\ curr' = curr /\ switching' = switching /\ sema' = sema /\ next' = next
      /\ state' = [state EXCEPT ![curr[0]] = "STARTING"]
      /\ r' = [r EXCEPT ![curr[0]] = u]
      /\ ctx' = [ctx EXCEPT ![0] = x]
  BY <1>0 DEF StartProcess, AtJob, At, Goto
<1>2. /\ x.pc = "prep" /\ x.job = ctx[0].job /\ x.nest = ctx[0].nest /\ x.iff = ctx[0].iff
      /\ ctx'[0] = x
  BY <1>0, <1>1 DEF Context
<1>3. u.pc = "user" /\ ~u.nest /\ u.job = "none"
  BY DEF Fresh
<1> HIDE DEF x, u
<1>4. ~ctx[0].nest /\ ctx[0].iff = 0
  BY <1>1 DEF Invs, CountInv, Pair, MaskInv, InSection
<1>5. MaskInv'
  BY <1>0, <1>1, <1>2, <1>3, <1>4 DEF Invs, MaskInv, InSection
<1>6. RunInv'
  <2>1. r'[curr[0]] = u /\ \A t \in TASKS \ {curr[0]} : r'[t] = r[t]
    BY <1>0, <1>1
  <2>2. ~HoldsOuter(r'[curr[0]])
    BY <1>3, <2>1 DEF HoldsOuter
  <2>3. \A t \in TASKS : r'[t].job # "join"
    BY <1>3, <2>1 DEF Invs, RunInv
  <2> QED
    BY <1>1, <1>2, <2>2, <2>3 DEF Invs, RunInv
<1>7. \A t \in made : /\ HoldsOuter(ContextOf(t)') <=> HoldsOuter(ContextOf(t))
                      /\ HoldsNested(ContextOf(t)') <=> HoldsNested(ContextOf(t))
  BY <1>0, <1>1, <1>2, <1>4 DEF ContextOf, HoldsOuter, HoldsNested
<1>8. CountInv'
  BY <1>1, <1>2, <1>4, <1>7, SetsBy, SetsSame DEF Invs
<1> QED
  BY <1>5, <1>6, <1>8 DEF Invs

LEMMA SwitchInv ==
  ASSUME OneCpu, TypeOK, Invs, NEW c \in CPUS, Tick(c) \/ SwitchPick(c)
  PROVE  Invs'
<1>0. /\ c = 0 /\ ctx \in [CPUS -> Context] /\ r \in [TASKS -> Context] /\ 0 \in CPUS
      /\ state \in [TASKS -> States] /\ made \subseteq TASKS /\ switching \subseteq CPUS
      /\ next \in [TASKS -> TASKS \cup {NoTask}] /\ curr \in [CPUS -> TASKS \cup {NoTask}]
      /\ curr[0] \in TASKS /\ curr[0] \in made /\ CPUS = {0}
  BY SchedAssumption DEF SchedAssumption, TypeOK, OneCpu, States, Invs, RunInv
<1>1. CASE SwitchToStarted(c)
  <2>1. /\ 0 \notin switching /\ ctx[0].iff = 1 /\ state[curr[0]] = "STARTING" /\ made' = made
        /\ curr' = curr /\ switching' = switching /\ sema' = sema /\ next' = next /\ r' = r
        /\ state' = [state EXCEPT ![curr[0]] = "RUNNING"] /\ ctx'[0] = r[curr[0]]
    BY <1>0, <1>1 DEF SwitchToStarted, Interrupted
  <2>2. ctx[0].pc = "spin" /\ ~ctx[0].nest /\ ~HoldsOuter(r[curr[0]]) /\ ~InSection(r[curr[0]])
    BY <1>0, <2>1 DEF Invs, MaskInv, RunInv, InSection
  <2>3. MaskInv' /\ RunInv'
    BY <1>0, <2>1, <2>2 DEF Invs, MaskInv, RunInv, InSection, HoldsOuter
  <2>4. \A t \in made : /\ HoldsOuter(ContextOf(t)') <=> HoldsOuter(ContextOf(t))
                        /\ HoldsNested(ContextOf(t)') <=> HoldsNested(ContextOf(t))
    BY <2>1, <2>2 DEF ContextOf, HoldsOuter, HoldsNested
  <2>5. CountInv'
    BY <2>1, <2>2, <2>4, SetsBy, SetsSame DEF Invs, InSection
  <2> QED
    BY <2>3, <2>5 DEF Invs
<1>2. CASE SwitchSave(c)
  <2>1. /\ 0 \notin switching /\ ctx[0].iff = 1 /\ state[curr[0]] # "STARTING" /\ made' = made
        /\ curr' = curr /\ switching' = {0} /\ sema' = sema /\ next' = next /\ ctx' = ctx
        /\ r' = [r EXCEPT ![curr[0]] = Resumed(ctx[0])]
        /\ state' = [state EXCEPT ![curr[0]] = "ACTIVE"]
    BY <1>0, <1>2 DEF SwitchSave, Interrupted
  <2>2. ~InSection(ctx[0]) /\ Resumed(ctx[0]) = ctx[0]
    BY <2>1 DEF Invs, MaskInv, InSection, Resumed
  <2>3. r'[curr[0]] = ctx[0] /\ \A t \in TASKS \ {curr[0]} : r'[t] = r[t]
    BY <1>0, <2>1, <2>2
  <2>4. MaskInv' /\ RunInv'
    BY <1>0, <2>1, <2>2, <2>3 DEF Invs, MaskInv, RunInv, InSection
  <2>5. \A t \in made : ContextOf(t)' = ContextOf(t)
    BY <1>0, <2>1, <2>3 DEF ContextOf
  <2>6. CountInv'
    BY <2>1, <2>2, <2>5, SetsBy, SetsSame DEF Invs, InSection
  <2> QED
    BY <2>4, <2>6 DEF Invs
<1>3. CASE SwitchPick(c)
  <2> DEFINE t == next[curr[0]]
  <2>1. /\ 0 \in switching /\ made' = made /\ sema' = sema /\ next' = next /\ r' = r
        /\ state' = state /\ curr'[0] = t /\ t \in made
        /\ \/ 0 \notin switching' /\ ctx'[0] = r[t] /\ state[t] = "ACTIVE"
           \/ switching' = switching /\ ctx' = ctx
    BY <1>0, <1>3 DEF SwitchPick, taskVars, Invs, RunInv
  <2> HIDE DEF t
  <2>2. ~InSection(ctx[0]) /\ ~InSection(r[t]) /\ t \in TASKS
    BY <1>0, <2>1 DEF Invs, MaskInv
  <2>3. MaskInv' /\ RunInv'
    BY <1>0, <2>1, <2>2 DEF Invs, MaskInv, RunInv, InSection
  <2>4. \A u \in made : ContextOf(u)' = ContextOf(u)
    BY <2>1 DEF ContextOf
  <2>5. CountInv'
    BY <2>1, <2>2, <2>4, SetsBy, SetsSame DEF Invs, InSection
  <2> QED
    BY <2>3, <2>5 DEF Invs
<1> QED
  BY <1>1, <1>2, <1>3 DEF Tick

LEMMA InvsStep ==
  ASSUME OneCpu, TypeOK, Invs, [Next]_vars, ~stale'
  PROVE  Invs'
<1>0. TypeOK'
  BY StepType DEF JoinNext
<1>1. ASSUME NEW c \in CPUS, NEW j \in JOBS, Begin(c, j) PROVE Invs'
  BY <1>0, <1>1, CtxActions, CtxInv
<1>2. ASSUME NEW c \in CPUS,
             \/ DisableReadId(c) \/ DisableLoad(c) \/ DisableStore(c) \/ DisableCli(c)
             \/ EnableReadId(c) \/ EnableLoad(c) \/ EnableStore(c) \/ EnableTest(c)
             \/ EnableSti(c) \/ Nested(c) \/ Section(c) \/ StartFiles(c)
      PROVE Invs'
  BY <1>0, <1>2, CtxActions, CtxInv
<1>3. CASE UNCHANGED vars
  <2>1. \A t : ContextOf(t)' = ContextOf(t)
    BY <1>3 DEF vars, ContextOf
  <2>2. Outer' = Outer /\ Inner' = Inner
    BY <1>3, <2>1, SetsBy DEF vars
  <2> QED
    BY <1>3, <2>2 DEF vars, Invs, MaskInv, RunInv, CountInv
<1> QED
  BY <1>1, <1>2, <1>3, ForkChildInv, ForkInsertInv, StartInv, SwitchInv DEF Next, Execute, Finish

LEMMA InvsInit == ASSUME OneCpu PROVE Init => Invs
<1> SUFFICES ASSUME Init PROVE Invs
  OBVIOUS
<1>0. 0 \in CPUS
  BY SchedAssumption DEF SchedAssumption
<1>1. made = {FIRSTCURR[0]} /\ curr[0] = FIRSTCURR[0] /\ next[curr[0]] = curr[0]
  BY SchedAssumption DEF SchedAssumption, OneCpu, Init
<1>2. /\ ctx[0] = Running /\ state[curr[0]] = "RUNNING" /\ switching = {} /\ sema[0] = 0
      /\ \A t \in TASKS : r[t] \in {Running, Zeroed}
  <2>1. FIRSTCURR[0] \in TASKS /\ FIRSTCURR[0] # NoTask /\ \E c \in CPUS : FIRSTCURR[c] = FIRSTCURR[0]
    BY <1>0, SchedAssumption DEF SchedAssumption, OneCpu
  <2>2. state[FIRSTCURR[0]] = "RUNNING"
    BY <2>1 DEF Init
  <2>3. ctx[0] = Running
    BY <1>0, <2>1 DEF Init
  <2> QED
    BY <1>0, <1>1, <2>2, <2>3 DEF Init
<1>3. /\ Running.pc = "run" /\ ~Running.nest /\ Running.job = "none"
      /\ Zeroed.pc = "none" /\ ~Zeroed.nest /\ Zeroed.job = "none"
  BY DEF Running, Zeroed, Fresh
<1>4. MaskInv /\ RunInv
  BY <1>1, <1>2, <1>3 DEF MaskInv, RunInv, InSection, OneCpu
<1>5. Outer = {} /\ Inner = {}
  BY <1>1, <1>2, <1>3 DEF Outer, Inner, ContextOf, HoldsOuter, HoldsNested
<1>6. CountInv
  BY <1>2, <1>3, <1>5, FS_EmptySet DEF CountInv
<1> QED
  BY <1>4, <1>6 DEF Invs

LEMMA OneCpuInv == ASSUME OneCpu PROVE Spec => [](TypeOK /\ (stale \/ Invs))
<1> DEFINE I == TypeOK /\ (stale \/ Invs)
<1>1. Init => I
  BY InitType, InvsInit
<1>2. I /\ [Next]_vars => I'
  BY StepType, InvsStep, StaleStays DEF JoinNext
<1> QED
  BY <1>1, <1>2, PTL DEF Spec

\* On one CPU, with fewer tasks than a byte can count, intr_sema[0] is the number
\* of calls of intr_disable that are open, nested ones and those of preempted
\* tasks included, until an update is computed from a value no longer there.
THEOREM SchedSemaCounts == ASSUME OneCpu PROVE Spec => []SemaCounts
<1>1. Spec => [](TypeOK /\ (stale \/ Invs))
  BY OneCpuInv
<1>2. stale \/ Invs => SemaCounts
  BY SemaIs DEF Invs
<1> QED
  BY <1>1, <1>2, PTL

\* The pairs that mount_page_t nests in a section count from 1, so their
\* intr_enable does not set IF, and task_switch never stores a context that is
\* inside a section; again until an update of the counter is lost.
THEOREM SchedSections == ASSUME OneCpu PROVE Spec => []SectionsNotPreempted
<1>1. Spec => [](TypeOK /\ (stale \/ Invs))
  BY OneCpuInv
<1>2. stale \/ Invs => SectionsNotPreempted
  BY DEF Invs, MaskInv, SectionsNotPreempted
<1> QED
  BY <1>1, <1>2, PTL

\* intr.c:158-163: on one CPU intr_enable finds its counter at 0, complains and
\* halts only after an update of the counter was lost.
THEOREM SchedNoIntrBug == ASSUME OneCpu PROVE Spec => []NoIntrBug
<1> DEFINE I == TypeOK /\ (stale \/ Invs)
<1>1. Spec => []I
  BY OneCpuInv
<1>2. Init => NoIntrBug
  BY SchedAssumption DEF SchedAssumption, Init, NoIntrBug, Running, Fresh
<1>3. I /\ NoIntrBug /\ [Next]_vars => NoIntrBug'
  <2> SUFFICES ASSUME TypeOK, ~stale, ~stale', Invs, NoIntrBug, [Next]_vars PROVE ctx'[0].pc # "bug"
    BY InvsStep, StaleStays DEF NoIntrBug, OneCpu
  <2>0. /\ ctx \in [CPUS -> Context] /\ CPUS = {0} /\ ctx[0].pc # "bug" /\ curr[0] \in TASKS
        /\ sema[0] \in 0 .. (BYTE - 1)
    BY SchedAssumption DEF SchedAssumption, TypeOK, OneCpu, Invs, RunInv, NoIntrBug
  <2>1. ASSUME NEW c \in CPUS, EnableReadId(c) PROVE ctx'[0].pc # "bug"
    <3>1. sema[0] # 0
      BY <2>0, <2>1, CountPositive DEF EnableReadId, At, HoldsOuter, Invs, RunInv
    <3> QED
      BY <2>0, <2>1, <3>1 DEF EnableReadId
  <2>2. ASSUME NEW c \in CPUS, NEW j \in JOBS, Begin(c, j) PROVE ctx'[0].pc # "bug"
    BY <2>0, <2>2 DEF Begin, Context
  <2>3. ASSUME NEW c \in CPUS, DisableReadId(c) \/ DisableCli(c) PROVE ctx'[0].pc # "bug"
    <3>1. CASE DisableReadId(c)
      BY <2>0, <3>1 DEF DisableReadId, Context
    <3>2. CASE DisableCli(c)
      BY <2>0, <3>2 DEF DisableCli, Context
    <3> QED
      BY <2>3, <3>1, <3>2
  <2>31. ASSUME NEW c \in CPUS, DisableLoad(c) \/ EnableLoad(c) PROVE ctx'[0].pc # "bug"
    BY <2>0, <2>31, ZenonT(40) DEF DisableLoad, EnableLoad, Context
  <2>4. ASSUME NEW c \in CPUS, DisableStore(c) \/ EnableStore(c) PROVE ctx'[0].pc # "bug"
    BY <2>0, <2>4, ZenonT(40) DEF DisableStore, EnableStore, Store, Context
  <2>5. ASSUME NEW c \in CPUS, EnableTest(c) \/ EnableSti(c) PROVE ctx'[0].pc # "bug"
    <3>1. c = 0 /\ Back(ctx[0]) # "bug"
      BY <2>0 DEF Back
    <3>2. CASE Goto(0, "sti")
      BY <2>0, <3>2 DEF Goto, Context
    <3>3. ASSUME NEW i, Return(0, i) PROVE ctx'[0].pc # "bug"
      BY <2>0, <3>1, <3>3 DEF Return, Context
    <3> QED
      BY <2>5, <3>1, <3>2, <3>3 DEF EnableTest, EnableSti
  <2>6. ASSUME NEW c \in CPUS, Section(c) \/ StartFiles(c) \/ ForkInsert(c) PROVE ctx'[0].pc # "bug"
    BY <2>0, <2>6 DEF Section, StartFiles, ForkInsert, Goto, Context
  <2>61. ASSUME NEW c \in CPUS, Nested(c) PROVE ctx'[0].pc # "bug"
    BY <2>0, <2>61 DEF Nested, Context
  <2>7. ASSUME NEW c \in CPUS, NEW t \in TASKS, NEW s \in FORKSTATES, ForkChild(c, t, s)
        PROVE  ctx'[0].pc # "bug"
    BY <2>0, <2>7 DEF ForkChild, Context
  <2>8. ASSUME NEW c \in CPUS, StartProcess(c) PROVE ctx'[0].pc # "bug"
    BY <2>0, <2>8 DEF StartProcess, Goto, Context
  <2>9. ASSUME NEW c \in CPUS, Tick(c) PROVE ctx'[0].pc # "bug"
    BY <2>0, <2>9 DEF Tick, SwitchToStarted, SwitchSave, Invs, MaskInv, InSection
  <2>10. ASSUME NEW c \in CPUS, SwitchPick(c) PROVE ctx'[0].pc # "bug"
    <3>1. next[curr[0]] \in TASKS
      BY <2>0 DEF Invs, RunInv, TypeOK
    <3> QED
      BY <2>0, <2>10, <3>1 DEF SwitchPick, Invs, MaskInv, InSection
  <2>11. CASE UNCHANGED vars
    BY <2>0, <2>11 DEF vars
  <2> QED
    BY <2>1, <2>2, <2>3, <2>31, <2>4, <2>5, <2>6, <2>61, <2>7, <2>8, <2>9, <2>10, <2>11
       DEF Next, Execute, Finish
<1> QED
  BY <1>1, <1>2, <1>3, PTL DEF Spec

(***************************************************************************)
(* The ring                                                                *)
(***************************************************************************)
LEMMA WalkDef ==
  ASSUME OneCpu, TypeOK
  PROVE  /\ Walk[0] = FIRSTCURR[0]
         /\ \A k \in 1 .. Cardinality(TASKS) : Walk[k] = NextOf(Walk[k - 1])
<1> DEFINE N == Cardinality(TASKS)
           Def(w) == [n \in 0 .. N |-> IF n = 0 THEN FIRSTCURR[0] ELSE NextOf(w[n - 1])]
           g == [t \in Pointer |-> NextOf(t)]
<1>1. N \in Nat
  BY FS_CardinalityType DEF OneCpu
<1>2. g \in [Pointer -> Pointer] /\ FIRSTCURR[0] \in Pointer
  BY DEF Pointer, NextOf, TypeOK, OneCpu
<1> HIDE DEF N
<1>3. \E w : w = Def(w)
  <2> HIDE DEF g
  <2>1. PICK w \in [0 .. N -> Pointer] : w[0] = FIRSTCURR[0] /\ \A k \in 1 .. N : w[k] = g[w[k - 1]]
    BY <1>1, <1>2, WalkExists DEF Iterates
  <2> USE DEF g
  <2>2. ASSUME NEW n \in 0 .. N PROVE w[n] = Def(w)[n]
    <3>1. CASE n = 0
      BY <2>1, <3>1
    <3>2. CASE n # 0
      <4>1. n \in 1 .. N /\ n - 1 \in 0 .. N
        BY <1>1, <3>2
      <4>2. w[n - 1] \in Pointer /\ w[n] = NextOf(w[n - 1])
        BY <2>1, <4>1
      <4> QED
        BY <3>2, <4>2
    <3> QED
      BY <3>1, <3>2
  <2> QED
    BY <2>1, <2>2
<1>4. Walk = CHOOSE w : w = Def(w)
  BY DEF Walk, N
<1>5. Walk = Def(Walk)
  BY <1>3, <1>4
<1> QED
  BY <1>1, <1>5 DEF N

\* f lists the tasks of S in the order of next, the boot task first.
IsRing(nx, f, n, S) ==
    /\ n \in Nat \ {0}
    /\ f \in [0 .. (n - 1) -> S]
    /\ f[0] = FIRSTCURR[0]
    /\ \A s \in S : \E k \in 0 .. (n - 1) : f[k] = s
    /\ \A j, k \in 0 .. (n - 1) : f[j] = f[k] => j = k
    /\ \A k \in 0 .. (n - 2) : nx[f[k]] = f[k + 1]
    /\ nx[f[n - 1]] = f[0]

\* Between the two stores of task_fork the child points into the ring, but the
\* ring is still the one without it.
Pending == IF ctx[0].pc = "ins" THEN {ctx[0].new} ELSE {}

RingInv ==
    /\ curr[0] \in made \ Pending
    /\ ctx[0].pc = "ins" => ctx[0].new \in made /\ next[ctx[0].new] = next[curr[0]]
    /\ ctx[0].pc \notin {"tmp", "close"}
    /\ \E n, f : IsRing(next, f, n, made \ Pending)

\* next stays in the ring.
LEMMA RingNext ==
  ASSUME NEW nx, NEW n, NEW f, NEW S, IsRing(nx, f, n, S), NEW s \in S
  PROVE  nx[s] \in S
<1>1. PICK k \in 0 .. (n - 1) : f[k] = s
  BY DEF IsRing
<1>2. CASE k = n - 1
  BY <1>1, <1>2 DEF IsRing
<1>3. CASE k # n - 1
  <2>1. k \in 0 .. (n - 2) /\ k + 1 \in 0 .. (n - 1)
    BY <1>1, <1>3 DEF IsRing
  <2> QED
    BY <1>1, <2>1 DEF IsRing
<1> QED
  BY <1>2, <1>3

\* Putting t behind s.
LEMMA RingInsert ==
  ASSUME NEW nx \in [TASKS -> Pointer], NEW n, NEW f, NEW S, IsRing(nx, f, n, S),
         S \subseteq TASKS,
         NEW s \in S, NEW t \in TASKS \ S, nx[t] = nx[s],
         NEW nxt, nxt = [nx EXCEPT ![s] = t]
  PROVE  \E m, h : IsRing(nxt, h, m, S \cup {t})
<1> USE DEF IsRing
<1>1. PICK p \in 0 .. (n - 1) : f[p] = s
  OBVIOUS
<1> DEFINE h == [k \in 0 .. n |-> IF k <= p THEN f[k] ELSE IF k = p + 1 THEN t ELSE f[k - 1]]
<1>2. n + 1 \in Nat \ {0} /\ (n + 1) - 1 = n /\ (n + 1) - 2 = n - 1 /\ n \in Nat /\ n > 0 /\ p \in Nat
  BY <1>1
<1>3. /\ \A k \in 0 .. p : h[k] = f[k] /\ k \in 0 .. (n - 1)
      /\ h[p + 1] = t
      /\ \A k \in (p + 2) .. n : h[k] = f[k - 1] /\ k - 1 \in 0 .. (n - 1)
  BY <1>1, <1>2
<1>4. h \in [0 .. n -> S \cup {t}]
  BY <1>1, <1>2
<1>5. h[0] = FIRSTCURR[0]
  BY <1>2, <1>3
<1> HIDE DEF h
<1>6. ASSUME NEW q \in S \cup {t} PROVE \E k \in 0 .. n : h[k] = q
  <2>1. CASE q = t
    BY <1>1, <1>2, <1>3, <2>1
  <2>2. CASE q \in S
    <3>1. PICK j \in 0 .. (n - 1) : f[j] = q
      BY <2>2
    <3>2. CASE j <= p
      BY <1>2, <1>3, <3>1, <3>2
    <3>3. CASE j > p
      <4>1. j + 1 \in (p + 2) .. n /\ (j + 1) - 1 = j /\ j + 1 \in 0 .. n
        BY <1>2, <3>1, <3>3
      <4>2. h[j + 1] = f[(j + 1) - 1]
        BY <1>3, <4>1
      <4> QED
        BY <3>1, <4>1, <4>2
    <3> QED
      BY <1>2, <3>1, <3>2, <3>3
  <2> QED
    BY <2>1, <2>2
<1>7. ASSUME NEW j \in 0 .. n, NEW k \in 0 .. n, h[j] = h[k] PROVE j = k
  <2>1. \A i \in 0 .. n : i \in 0 .. p \/ i = p + 1 \/ i \in (p + 2) .. n
    BY <1>2
  <2>2. \A i \in 0 .. (n - 1) : f[i] # t
    OBVIOUS
  <2>3. CASE j = p + 1
    BY <1>2, <1>3, <1>7, <2>1, <2>2, <2>3
  <2>4. CASE j \in 0 .. p
    <3>1. h[j] = f[j] /\ j \in 0 .. (n - 1)
      BY <1>3, <2>4
    <3>2. CASE k \in 0 .. p
      <4>1. h[k] = f[k] /\ k \in 0 .. (n - 1)
        BY <1>3, <3>2
      <4>2. f[j] = f[k]
        BY <1>7, <3>1, <4>1
      <4> QED
        BY <3>1, <4>1, <4>2
    <3>3. CASE k = p + 1
      BY <1>3, <1>7, <2>2, <3>1, <3>3
    <3>4. CASE k \in (p + 2) .. n
      <4>1. h[k] = f[k - 1] /\ k - 1 \in 0 .. (n - 1)
        BY <1>3, <3>4
      <4>2. j = k - 1
        BY <1>7, <3>1, <4>1
      <4> QED
        BY <1>2, <2>4, <3>4, <4>2
    <3> QED
      BY <2>1, <3>2, <3>3, <3>4
  <2>5. CASE j \in (p + 2) .. n
    <3>1. h[j] = f[j - 1] /\ j - 1 \in 0 .. (n - 1)
      BY <1>3, <2>5
    <3>2. CASE k \in 0 .. p
      <4>1. h[k] = f[k] /\ k \in 0 .. (n - 1)
        BY <1>3, <3>2
      <4>2. k = j - 1
        BY <1>7, <3>1, <4>1
      <4> QED
        BY <1>2, <2>5, <3>2, <4>2
    <3>3. CASE k = p + 1
      BY <1>3, <1>7, <2>2, <3>1, <3>3, ZenonT(40)
    <3>4. CASE k \in (p + 2) .. n
      <4>1. h[k] = f[k - 1] /\ k - 1 \in 0 .. (n - 1)
        BY <1>3, <3>4
      <4>2. j - 1 = k - 1
        BY <1>7, <3>1, <4>1, ZenonT(40)
      <4> QED
        BY <4>2
    <3> QED
      BY <2>1, <3>2, <3>3, <3>4
  <2> QED
    BY <2>1, <2>3, <2>4, <2>5
<1>8. ASSUME NEW k \in 0 .. (n - 1) PROVE nxt[h[k]] = h[k + 1]
  <2>1. \A j \in 0 .. (n - 1) : j # p => nxt[f[j]] = nx[f[j]]
    BY <1>1
  <2>2. nxt[s] = t /\ nxt[t] = nx[s]
    OBVIOUS
  <2>3. CASE k < p
    BY <1>2, <1>3, <2>1, <2>3
  <2>4. CASE k = p
    BY <1>1, <1>2, <1>3, <2>2, <2>4
  <2>5. CASE k = p + 1
    <3>1. p \in 0 .. (n - 2) /\ nx[s] = f[p + 1] /\ k + 1 \in (p + 2) .. n
      BY <1>1, <1>2, <2>5
    <3> QED
      BY <1>2, <1>3, <2>2, <2>5, <3>1
  <2>6. CASE k > p + 1
    <3>1. k - 1 \in 0 .. (n - 2) /\ k - 1 # p /\ k \in (p + 2) .. n /\ k + 1 \in (p + 2) .. n
      BY <1>2, <2>6
    <3>2. h[k] = f[k - 1] /\ h[k + 1] = f[(k + 1) - 1] /\ (k + 1) - 1 = (k - 1) + 1
      BY <1>2, <1>3, <3>1, SMTT(30)
    <3> QED
      BY <2>1, <3>1, <3>2
  <2> QED
    BY <1>2, <2>3, <2>4, <2>5, <2>6
<1>9. nxt[h[n]] = h[0]
  <2>1. CASE p = n - 1
    BY <1>1, <1>2, <1>3, <1>5, <2>1
  <2>2. CASE p < n - 1
    <3>1. n \in (p + 2) .. n /\ h[n] = f[n - 1] /\ n - 1 # p
      BY <1>2, <1>3, <2>2
    <3>2. f[n - 1] # s
      BY <1>1, <3>1
    <3> QED
      BY <1>5, <3>1, <3>2
  <2> QED
    BY <1>2, <2>1, <2>2
<1>10. IsRing(nxt, h, n + 1, S \cup {t})
  BY <1>2, <1>4, <1>5, <1>6, <1>7, <1>8, <1>9
<1> HIDE DEF IsRing
<1> QED
  BY <1>10

LEMMA RingStep ==
  ASSUME OneCpu, TypeOK, Invs, RingInv, [Next]_vars
  PROVE  RingInv'
<1>0. /\ ctx \in [CPUS -> Context] /\ r \in [TASKS -> Context] /\ CPUS = {0}
      /\ next \in [TASKS -> Pointer] /\ made \subseteq TASKS
      /\ curr \in [CPUS -> Pointer] /\ switching \subseteq CPUS
      /\ curr[0] \in made /\ curr[0] \in TASKS /\ ctx[0].job # "join"
  BY DEF TypeOK, OneCpu, Pointer, Invs, RunInv
<1>01. PICK n, f : IsRing(next, f, n, made \ Pending)
  BY DEF RingInv
<1>02. next[curr[0]] \in made \ Pending /\ next[curr[0]] \in TASKS
  BY <1>0, <1>01, RingNext DEF RingInv
<1>03. ASSUME ctx[0].pc \notin {"ins", "tmp", "close"}, ctx'[0].pc \notin {"ins", "tmp", "close"},
              made' = made, next' = next, curr'[0] \in {curr[0], next[curr[0]]}
       PROVE  RingInv'
  <2>1. Pending = {} /\ Pending' = {}
    BY <1>03 DEF Pending
  <2> QED
    BY <1>01, <1>02, <1>03, <2>1 DEF RingInv
<1>04. ASSUME Pending' = Pending, ctx'[0].pc = ctx[0].pc, ctx[0].pc # "ins" \/ ctx'[0].new = ctx[0].new,
              made' = made, next' = next, curr' = curr
       PROVE  RingInv'
  BY <1>04 DEF RingInv
<1>1. ASSUME NEW c \in CPUS, NEW j \in JOBS, Begin(c, j) PROVE RingInv'
  BY <1>0, <1>03, <1>1 DEF Begin, At, taskVars, Context
<1>2. ASSUME NEW c \in CPUS, DisableReadId(c) \/ DisableCli(c) PROVE RingInv'
  <2>1. CASE DisableReadId(c)
    BY <1>0, <1>03, <2>1 DEF DisableReadId, At, taskVars, Context
  <2>2. CASE DisableCli(c)
    BY <1>0, <1>03, <2>2 DEF DisableCli, At, taskVars, Context
  <2> QED
    BY <1>2, <2>1, <2>2
<1>3. ASSUME NEW c \in CPUS, DisableLoad(c) \/ EnableLoad(c) PROVE RingInv'
  <2>1. CASE DisableLoad(c)
    BY <1>0, <1>03, <2>1 DEF DisableLoad, At, taskVars, Context
  <2>2. CASE EnableLoad(c)
    BY <1>0, <1>03, <2>2 DEF EnableLoad, At, taskVars, Context
  <2> QED
    BY <1>3, <2>1, <2>2
<1>4. ASSUME NEW c \in CPUS, DisableStore(c) \/ EnableStore(c) PROVE RingInv'
  <2>1. CASE DisableStore(c)
    BY <1>0, <1>03, <2>1 DEF DisableStore, Store, At, taskVars, Context
  <2>2. CASE EnableStore(c)
    BY <1>0, <1>03, <2>2 DEF EnableStore, Store, At, taskVars, Context
  <2> QED
    BY <1>4, <2>1, <2>2
<1>5. ASSUME NEW c \in CPUS, EnableReadId(c) PROVE RingInv'
  BY <1>0, <1>03, <1>5 DEF EnableReadId, At, taskVars, Context
<1>6. ASSUME NEW c \in CPUS, EnableTest(c) \/ EnableSti(c) PROVE RingInv'
  <2>1. c = 0 /\ Back(ctx[0]) \in {"prep", "body", "spin", "run"}
    BY <1>0 DEF Back
  <2>2. ctx[0].pc \in {"chk", "sti"} /\ UNCHANGED <<taskVars, curr, switching>>
    BY <1>6, <2>1 DEF EnableTest, EnableSti, Return, At
  <2>3. CASE Goto(0, "sti")
    BY <1>0, <1>03, <2>2, <2>3 DEF Goto, taskVars, Context
  <2>4. ASSUME NEW i, Return(0, i) PROVE RingInv'
    <3>1. ctx'[0].pc \notin {"ins", "tmp", "close"}
      BY <1>0, <2>1, <2>4 DEF Return, Context
    <3> QED
      BY <1>0, <1>03, <2>2, <3>1 DEF taskVars
  <2> QED
    BY <1>6, <2>1, <2>3, <2>4 DEF EnableTest, EnableSti
<1>7. ASSUME NEW c \in CPUS, Nested(c) PROVE RingInv'
  BY <1>0, <1>03, <1>7 DEF Nested, AtJob, At, taskVars, RingInv, Context
<1>8. ASSUME NEW c \in CPUS, Section(c) \/ StartFiles(c) PROVE RingInv'
  BY <1>0, <1>03, <1>8 DEF Section, StartFiles, AtJob, At, Goto, taskVars, Context
<1>9. ASSUME NEW c \in CPUS, NEW t \in TASKS, NEW s \in FORKSTATES, ForkChild(c, t, s)
      PROVE  RingInv'
  <2>0. c = 0 /\ NextOf(curr[0]) = next[curr[0]]
    BY <1>0, SchedAssumption DEF SchedAssumption, NextOf
  <2>00. /\ ctx[0].pc = "body" /\ made' = made \cup {t} /\ t \notin made /\ curr' = curr
         /\ next' = [next EXCEPT ![t] = NextOf(curr[0])]
         /\ ctx' = [ctx EXCEPT ![0] = [@ EXCEPT !.pc = "ins", !.new = t]]
    BY <1>9, <2>0 DEF ForkChild, AtJob, At
  <2>000. ctx'[0].pc = "ins" /\ ctx'[0].new = t
    BY <1>0, <2>00 DEF Context
  <2>1. /\ c = 0 /\ ctx[0].pc = "body" /\ ctx'[0].pc = "ins" /\ ctx'[0].new = t
        /\ made' = made \cup {t} /\ t \notin made /\ curr' = curr
        /\ next' = [next EXCEPT ![t] = next[curr[0]]]
    BY <2>0, <2>00, <2>000
  <2>2. Pending = {} /\ made' \ Pending' = made
    BY <2>1 DEF Pending
  <2>3. \A u \in made : next'[u] = next[u]
    BY <1>0, <2>1
  <2>4. IsRing(next', f, n, made)
    <3>1. IsRing(next, f, n, made)
      BY <1>01, <2>2
    <3>2. n \in Nat /\ n > 0 /\ \A k \in 0 .. (n - 1) : f[k] \in made
      BY <3>1 DEF IsRing
    <3>3. n - 1 \in 0 .. (n - 1) /\ \A k \in 0 .. (n - 2) : k \in 0 .. (n - 1)
      BY <3>2
    <3> QED
      BY <2>3, <3>1, <3>2, <3>3 DEF IsRing
  <2>5. next'[t] = next'[curr[0]]
    BY <1>0, <2>1
  <2>6. \E m, h : IsRing(next', h, m, made' \ Pending')
    BY <2>2, <2>4
  <2>7. /\ curr'[0] \in made' \ Pending'
        /\ ctx'[0].new \in made' /\ next'[ctx'[0].new] = next'[curr'[0]]
        /\ ctx'[0].pc \notin {"tmp", "close"}
    BY <1>0, <2>1, <2>2, <2>5
  <2> QED
    BY <2>6, <2>7 DEF RingInv
<1>10. ASSUME NEW c \in CPUS, ForkInsert(c) PROVE RingInv'
  <2> DEFINE t == ctx[0].new
             S == made \ {t}
  <2>1. /\ c = 0 /\ ctx[0].pc = "ins" /\ ctx'[0].pc = "en"
        /\ made' = made /\ curr' = curr /\ next' = [next EXCEPT ![curr[0]] = t]
    BY <1>0, <1>10 DEF ForkInsert, AtJob, At, Goto, Context
  <2>2. Pending = {t} /\ Pending' = {}
    BY <2>1 DEF Pending
  <2>3. t \in made /\ next[t] = next[curr[0]] /\ curr[0] \in S /\ S \subseteq TASKS
        /\ t \in TASKS \ S /\ S \cup {t} = made
    BY <1>0, <2>1, <2>2 DEF RingInv
  <2>4. IsRing(next, f, n, S)
    BY <1>01, <2>2
  <2> HIDE DEF t, S
  <2>5. \E m, h : IsRing(next', h, m, S \cup {t})
    BY <1>0, <2>1, <2>3, <2>4, RingInsert
  <2> QED
    BY <2>1, <2>2, <2>3, <2>5, <1>0, SMTT(30) DEF RingInv
<1>11. ASSUME NEW c \in CPUS, StartProcess(c) PROVE RingInv'
  BY <1>0, <1>03, <1>11 DEF StartProcess, AtJob, At, Goto, Context
<1>12. ASSUME NEW c \in CPUS, SwitchToStarted(c) PROVE RingInv'
  BY <1>0, <1>03, <1>12 DEF SwitchToStarted, Interrupted, Invs, MaskInv, InSection
<1>13. ASSUME NEW c \in CPUS, SwitchSave(c) PROVE RingInv'
  BY <1>0, <1>03, <1>13 DEF SwitchSave, Interrupted, Invs, MaskInv, InSection
<1>14. ASSUME NEW c \in CPUS, SwitchPick(c) PROVE RingInv'
  BY <1>0, <1>02, <1>03, <1>14 DEF SwitchPick, taskVars, Invs, RunInv, MaskInv, InSection
<1>15. CASE UNCHANGED vars
  BY <1>04, <1>15 DEF vars, Pending
<1> QED
  BY <1>1, <1>2, <1>3, <1>4, <1>5, <1>6, <1>7, <1>8, <1>9, <1>10, <1>11, <1>12,
     <1>13, <1>14, <1>15 DEF Next, Execute, Finish, Tick

LEMMA RingInit == ASSUME OneCpu PROVE Init => RingInv
<1> SUFFICES ASSUME Init PROVE RingInv
  OBVIOUS
<1> DEFINE f == [k \in 0 .. 0 |-> FIRSTCURR[0]]
<1>1. made = {FIRSTCURR[0]} /\ curr[0] = FIRSTCURR[0] /\ next[FIRSTCURR[0]] = FIRSTCURR[0]
  BY SchedAssumption DEF SchedAssumption, OneCpu, Init
<1>2. ctx[0].pc = "run"
  BY SchedAssumption DEF SchedAssumption, OneCpu, Init, Running, Fresh
<1>3. /\ 1 - 1 = 0 /\ f \in [0 .. 0 -> made] /\ f[0] = FIRSTCURR[0]
      /\ \A k \in 0 .. (1 - 2) : FALSE
      /\ \A k \in 0 .. 0 : k = 0
  BY <1>1
<1> HIDE DEF f
<1>4. IsRing(next, f, 1, made)
  BY <1>1, <1>3 DEF IsRing
<1> QED
  BY <1>1, <1>2, <1>4 DEF RingInv, Pending

\* The walk of RingClosed follows the list.
LEMMA RingIsClosed == ASSUME OneCpu, TypeOK, RingInv PROVE RingClosed
<1> SUFFICES ASSUME ~Inserting, ~stale
             PROVE  /\ made = {Walk[k] : k \in 0 .. (Cardinality(made) - 1)}
                    /\ Walk[Cardinality(made)] = FIRSTCURR[0]
  BY DEF RingClosed
<1> DEFINE N == Cardinality(TASKS)
<1>1. PICK n, f : IsRing(next, f, n, made)
  BY DEF RingInv, Pending, Inserting, OneCpu
<1>2. n \in Nat /\ n > 0 /\ f \in [0 .. (n - 1) -> made]
  BY <1>1 DEF IsRing
<1>3. Cardinality(made) = n
  <2>1. f \in Bijection(0 .. (n - 1), made)
    BY <1>1, <1>2 DEF IsRing, Bijection, Injection, Surjection, IsInjective
  <2>2. IsFiniteSet(0 .. (n - 1)) /\ Cardinality(0 .. (n - 1)) = n
    BY <1>2, FS_Interval
  <2> QED
    BY <2>1, <2>2, FS_Bijection DEF ExistsBijection
<1>4. N \in Nat /\ n <= N
  <2>1. made \in SUBSET TASKS
    BY DEF TypeOK
  <2> QED
    BY <1>3, <2>1, FS_Subset, FS_CardinalityType DEF OneCpu
<1> HIDE DEF N
<1>5. Walk[0] = FIRSTCURR[0] /\ \A k \in 1 .. N : Walk[k] = NextOf(Walk[k - 1])
  BY WalkDef DEF N
<1>6. \A k \in 0 .. (n - 1) : NextOf(f[k]) = next[f[k]]
  BY <1>2, SchedAssumption DEF SchedAssumption, TypeOK, NextOf
<1> DEFINE S == {k \in Nat : k <= n - 1 => Walk[k] = f[k]}
<1>7. 0 \in S
  BY <1>1, <1>5 DEF IsRing
<1>8. ASSUME NEW k \in Nat, k \in S PROVE k + 1 \in S
  <2>1. SUFFICES ASSUME k + 1 <= n - 1 PROVE Walk[k + 1] = f[k + 1]
    OBVIOUS
  <2>2. Walk[k] = f[k] /\ k \in 0 .. (n - 2) /\ k + 1 \in 1 .. N /\ (k + 1) - 1 = k /\ k \in 0 .. (n - 1)
    BY <1>2, <1>4, <1>8, <2>1
  <2> QED
    BY <1>1, <1>5, <1>6, <2>2, SMTT(30) DEF IsRing
<1> HIDE DEF S
<1>9. \A k \in Nat : k \in S
  BY <1>7, <1>8, SetInduction
<1>10. \A k \in 0 .. (n - 1) : Walk[k] = f[k]
  BY <1>2, <1>9 DEF S
<1>11. made = {Walk[k] : k \in 0 .. (n - 1)}
  <2>1. \A s \in made : \E k \in 0 .. (n - 1) : f[k] = s
    BY <1>1 DEF IsRing
  <2>2. \A k \in 0 .. (n - 1) : f[k] \in made
    BY <1>2
  <2> QED
    BY <1>10, <2>1, <2>2
<1>12. Walk[n] = FIRSTCURR[0]
  <2>1. n \in 1 .. N /\ n - 1 \in 0 .. (n - 1)
    BY <1>2, <1>4
  <2> QED
    BY <1>1, <1>5, <1>6, <1>10, <2>1 DEF IsRing
<1> QED
  BY <1>3, <1>11, <1>12

\* task.c:77: on one CPU, from the ring of one task that task_init makes, every
\* task_fork leaves the next pointers one cycle through all tasks, whichever
\* task runs when it inserts behind curr[0], until an update of intr_sema is lost.
THEOREM SchedRingClosed == ASSUME OneCpu PROVE Spec => []RingClosed
<1> DEFINE I == TypeOK /\ (stale \/ Invs)
           R == stale \/ RingInv
<1>1. Spec => []I
  BY OneCpuInv
<1>2. Init => R
  BY RingInit
<1>3. I /\ R /\ [Next]_vars => R'
  BY RingStep, StaleStays
<1>4. I /\ R => RingClosed
  BY RingIsClosed DEF RingClosed
<1> QED
  BY <1>1, <1>2, <1>3, <1>4, PTL DEF Spec
=============================================================================
