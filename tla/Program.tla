------------------------------ MODULE Program ------------------------------
(***************************************************************************)
(* A program from the file to its system calls: the loader, the end of     *)
(* start_process with the switch that enters the program, and the handler  *)
(* of interrupt 0x80 with its table of calls (src/sys), on one processor   *)
(* with the keyboard and the timer.  What write prints goes to the         *)
(* console with interrupts off, since the gate clears IF.                  *)
(***************************************************************************)
EXTENDS Loader

CONSTANTS MAX_OPEN_FILES,
          TABLE,        \* the address of syscall_fs
          BUFFERS,      \* texts the program may write
          CALLS         \* bound: system calls of the program

VARIABLES rax, r9,      \* registers of the program
          rflags,       \* is IF set in the flags kept for the task
          files, errno, status,
          calls, res, last

programVars == <<rax, r9, rflags, files, errno, status, calls, res, last>>
vars == <<consoleVars, loaderVars, programVars>>

None == "none"

Init ==
    /\ ConsoleInit
    /\ LoaderInit
    /\ rax = 0 /\ r9 = 0 /\ rflags = FALSE
    /\ files = [i \in 0 .. (MAX_OPEN_FILES - 1) |-> None]
    /\ errno = None /\ status = None
    /\ calls = 0 /\ res = 0 /\ last = <<>>

\* A timer tick switches the running task out and later in again: its flags
\* are kept, and the reload of cr3 empties the translation buffer.  In between
\* the forked task may come to store its digit before the next tick.
Tick ==
    /\ IF_on /\ stage \notin {"starting", "call", "exited", "fault", "wild"}
    /\ rflags' = TRUE
    /\ tlb' = [p \in DOMAIN tlb |-> 0]
    /\ Spin(0) \/ UNCHANGED consoleVars
    /\ UNCHANGED <<file, stage, seg, sec, rel, page_table, frames, body,
                   rax, r9, files, errno, status, calls, res, last>>

\* With no program to start, kernel_run comes to its own digit.
SpinRight ==
    /\ stage \in {"refused", "failed"} /\ Quiet
    /\ Spin(WIDTH - 1)
    /\ UNCHANGED <<loaderVars, programVars>>

\* start_process between intr_disable and intr_enable: cleared registers, two
\* pages of stack, one descriptor of the terminal three times; the flags kept
\* for the task stay as they are.
StartProcess ==
    /\ GoOn("loaded", "starting")
    /\ Silent
    /\ rax' = 0 /\ r9' = 0
    /\ files' = [i \in DOMAIN files |-> IF i < 3 THEN "tty" ELSE files[i]]
    /\ UNCHANGED <<file, seg, sec, rel, page_table, tlb, frames, body,
                   rflags, errno, status, calls, res, last>>

\* The next tick finds TASK_STARTING and leaves with the prepared registers.
EnterProgram ==
    /\ GoOn("starting", "user")
    /\ tlb' = [p \in DOMAIN tlb |-> 0]
    /\ IF_on' = rflags
    /\ Puts(<<>>)
    /\ UNCHANGED <<file, seg, sec, rel, page_table, frames, body, programVars>>

(***************************************************************************)
(* System calls                                                            *)
(***************************************************************************)
\* syscall_fs.
Calls == <<"test_out", "exit", "close", "execve", "fork", "fstat", "getpid",
           "isatty", "kill", "link", "lseek", "open", "read", "sbrk", "stat",
           "times", "unlink", "wait", "write">>

\* The calls that only return: result and, unless none, errno.
sys_close == <<-1, "EBADF">>
sys_execve == <<-1, "ENOMEM">>
sys_fork == <<-1, "EAGAIN">>
sys_fstat == <<-1, "ENOMEM">>
sys_getpid == <<1, None>>
sys_isatty == <<1, None>>
sys_kill == <<-1, "EINVAL">>
sys_link == <<-1, "EMLINK">>
sys_lseek == <<0, None>>
sys_open == <<-1, "ENOMEM">>
sys_read == <<0, None>>
sys_sbrk == <<-1, "ENOMEM">>
sys_stat == <<-1, "ENOMEM">>
sys_times == <<-1, None>>
sys_unlink == <<-1, "ENOENT">>
sys_wait == <<-1, "ECHILD">>

Stubs == [close |-> sys_close, execve |-> sys_execve, fork |-> sys_fork,
          fstat |-> sys_fstat, getpid |-> sys_getpid, isatty |-> sys_isatty,
          kill |-> sys_kill, link |-> sys_link, lseek |-> sys_lseek,
          open |-> sys_open, read |-> sys_read, sbrk |-> sys_sbrk,
          stat |-> sys_stat, times |-> sys_times, unlink |-> sys_unlink,
          wait |-> sys_wait]
EBADF == 9

\* The handler up to the call: the number is multiplied in rax, and the
\* registers are saved with the address of the table's entry in it.
Enter(nr) ==
    /\ stage = "user" /\ Quiet
    /\ calls < CALLS
    /\ calls' = calls + 1
    /\ rax' = TABLE + 8 * nr
    /\ IF_on' = FALSE
    /\ UNCHANGED <<file, seg, sec, rel, page_table, tlb, frames, body, r9, rflags,
                   files, last>>

\* The numbers are compared as signed ones: one below 0 passes.  Those whose
\* product wraps at 2^64 to an entry of the table are calls of that entry, the
\* others jump to what memory holds in front of the table.
CallBefore ==
    /\ Enter(-1)
    /\ stage' = "wild" /\ Puts(<<>>)
    /\ UNCHANGED <<errno, status, res>>

\* A number behind the table: back at once.
CallUnknown ==
    /\ stage = "user" /\ Silent
    /\ calls < CALLS
    /\ calls' = calls + 1
    /\ rax' = Len(Calls)
    /\ last' = <<>>
    /\ UNCHANGED <<loaderVars, r9, rflags, files, errno, status, res>>

CallStub(nr) ==
    /\ Calls[nr + 1] \in DOMAIN Stubs
    /\ Enter(nr)
    /\ LET s == Stubs[Calls[nr + 1]]
       IN res' = s[1] /\ errno' = IF s[2] = None THEN errno ELSE s[2]
    /\ stage' = "call" /\ Puts(<<>>)
    /\ UNCHANGED status

\* kprintf; its caller gets what is left in the register.
CallTestOut(t, u) ==
    /\ Enter(0)
    /\ res' = u
    /\ stage' = "call" /\ Puts(t)
    /\ UNCHANGED <<errno, status>>

\* sys_exit keeps the code and loops, with interrupts still off.
CallExit ==
    /\ Enter(1)
    /\ status' = "set"
    /\ stage' = "exited" /\ Puts(<<>>)
    /\ UNCHANGED <<errno, res>>

\* sys_write: a number up to MAX_OPEN_FILES, and something in its entry.
Writable(fd) == fd \in DOMAIN files /\ files[fd] # None

\* tty_write, behind vfs_write, prints it all; the offset of a terminal does
\* not change.
TtyWrite(t) == Puts(t) /\ res' = Len(t)

CallWrite(fd, t) ==
    /\ Enter(18)
    /\ stage' = "call"
    /\ IF Writable(fd) THEN TtyWrite(t) ELSE Puts(<<>>) /\ res' = EBADF
    /\ UNCHANGED <<errno, status>>

\* The entry behind the array is whatever follows the task in the heap.
CallWriteWild ==
    /\ Enter(18)
    /\ stage' \in {"call", "fault"} /\ Puts(<<>>)
    /\ res' = EBADF
    /\ UNCHANGED <<errno, status>>

\* Mutant: interrupts stay off.
ReturnQuietly ==
    /\ GoOn("call", "user")
    /\ Puts(<<>>) /\ IF_on' = FALSE
    /\ r9' = res /\ last' = <<res>>
    /\ UNCHANGED <<file, seg, sec, rel, page_table, tlb, frames, body, rax, rflags,
                   files, errno, status, calls, res>>

\* Back from the call: the exchange with the top of the stack puts the result
\* into the place of r9, and rest_regs brings back the saved rax.
Return ==
    /\ GoOn("call", "user")
    /\ Puts(<<>>) /\ IF_on' = rflags
    /\ r9' = res /\ last' = <<res>>
    /\ UNCHANGED <<file, seg, sec, rel, page_table, tlb, frames, body, rax, rflags,
                   files, errno, status, calls, res>>

SystemCall ==
    \/ CallBefore \/ CallUnknown \/ CallExit \/ CallWriteWild
    \/ \E nr \in 0 .. 18 : CallStub(nr)
    \/ \E t \in BUFFERS : \/ \E u \in UNDEF : CallTestOut(t, u)
                          \/ \E fd \in -1 .. (MAX_OPEN_FILES - 1) : CallWrite(fd, t)

(***************************************************************************)
(* The machine                                                             *)
(***************************************************************************)
Pressed == (\E ch \in CHARS \cup {NL} : Key(ch)) /\ UNCHANGED <<loaderVars, programVars>>
Printing == Putc /\ UNCHANGED <<loaderVars, programVars>>
Loading == LoadStep /\ UNCHANGED programVars
Forget == (\E p \in 0 .. (PAGES - 1) : Evict(p)) /\ UNCHANGED programVars

Run == Printing \/ Loading \/ StartProcess \/ EnterProgram \/ Return

\* The program computes or is done, or the kernel stands still.
Idle ==
    /\ stage \in {"user", "exited", "refused", "failed", "fault", "wild"} /\ Quiet
    /\ UNCHANGED vars

Next == Run \/ SystemCall \/ Pressed \/ Tick \/ SpinRight \/ Forget \/ Idle

Spec == Init /\ [][Next]_vars /\ WF_vars(Run)

(***************************************************************************)
(* Properties                                                              *)
(***************************************************************************)
Loads(f) == {i \in DOMAIN f.segs : f.segs[i].load}

\* The entries <<section, index>> of the tables of relocations.
Entries(f) ==
    UNION {{<<i, k>> : k \in DOMAIN f.secs[i].rels} :
              i \in {j \in DOMAIN f.secs : HasRels(f.secs[j])}}
EntryAt(f, q) == f.secs[q[1]].rels[q[2]]

\* Executables the loader is made for: segments in the order of their
\* addresses that share no page, below 2^31, no symbols to look up and no two
\* relocations of one address.
Plain(f) ==
    /\ Supported(f) /\ f.type = "EXEC" /\ f.entry # 0
    /\ \A i, j \in Loads(f) : i < j =>
         PageOf(f.segs[i].vaddr + f.segs[i].memsz - 1) < PageOf(f.segs[j].vaddr)
    /\ \A i \in Loads(f) : f.segs[i].vaddr + f.segs[i].memsz <= HALF \div 2
    /\ \A q \in Entries(f) :
         /\ f.secs[q[1]].info < Len(f.secs)
         /\ EntryAt(f, q).type \in KnownTypes /\ EntryAt(f, q).sym = 0
         /\ \E s \in Loads(f) : EntryAt(f, q).off \in InSegment(f.segs[s])
    /\ \A q, r \in Entries(f) : EntryAt(f, q).off = EntryAt(f, r).off => q = r

\* What the file says address x holds before relocation.
Linked(f, x) ==
    LET s == f.segs[CHOOSE i \in Loads(f) : x \in InSegment(f.segs[i])]
    IN IF x - s.vaddr < Len(s.data) THEN s.data[x - s.vaddr + 1] ELSE 0

\* The page of the lowest segment: the base address of the specification.
LowestPage(f) ==
    CHOOSE b \in {PageOf(f.segs[i].vaddr) * PAGE : i \in Loads(f)} :
        \A i \in Loads(f) : b <= f.segs[i].vaddr

\* What relocation q makes of x, by the table of elf.h (S = 0).
Calculated(f, q, x) ==
    LET r == EntryAt(f, q)
        A == IF f.secs[q[1]].type = "REL" THEN Linked(f, x) ELSE r.addend
    IN CASE r.type = "64" -> A
         [] r.type = "PC32" -> (Linked(f, x) \div HALF) * HALF + ((A - x) % HALF)
         [] r.type = "RELATIVE" -> LowestPage(f) + A
         [] r.type = "IRELATIVE" -> r.ifunc
         [] OTHER -> Linked(f, x)

\* And after it.
Expected(f, x) ==
    LET sites == {q \in Entries(f) : EntryAt(f, q).off = x}
    IN IF sites = {} THEN Linked(f, x) ELSE Calculated(f, CHOOSE q \in sites : TRUE, x)

\* elf64_load_exec: when a plain program is entered every address of its
\* segments holds what file and relocations say, cleared where the file has
\* nothing, whatever translations the processor had kept.
ImageLoaded ==
    stage = "user" /\ Plain(file) =>
        \A i \in Loads(file) : \A x \in InSegment(file.segs[i]) :
            Mapped(x) /\ frames[Frame(PageOf(x))][x % PAGE] = Expected(file, x)

\* Every entry of a section of relocations has a type elf64_do_rela handles.
KnownOnly(s) == HasRels(s) => \A k \in DOMAIN s.rels : s.rels[k].type \in KnownTypes

\* A file the checks of elf64_is_supported refuse leaves no page behind, and
\* no program is entered of which a relocation was refused or that has no
\* entry point.
StartedWhole ==
    /\ ~Supported(file) => frames = <<>> /\ stage \in {"found", "check", "refused"}
    /\ stage \in {"starting", "user", "call", "exited", "wild"} =>
         /\ file.entry # 0
         /\ \A i \in DOMAIN file.secs : KnownOnly(file.secs[i])

\* Every plain program gets to run, whatever keys, ticks and evictions do.
ProgramStarts == Plain(file) => <>(stage = "user")

\* The gate of a system call turns interrupts off; every entry of the table but
\* exit, which never ends its loop (sys_exit.c:16), gives them back to a program
\* that had them.  A task that was never switched out has none: start_process
\* leaves its saved flags at 0.  Nothing is said of a number below 0, which
\* gets past the comparison (syscall.c:39) and goes anywhere.
InterruptsComeBack == (stage = "call" /\ rflags) ~> IF_on

\* syscall.c:47 "Подменяем возвращаемое значение на вершине стека" (we put the
\* returned value in place on top of the stack): after a call its result is
\* in rax.
ResultReturned == stage = "user" /\ last # <<>> => rax = last[1]
=============================================================================
