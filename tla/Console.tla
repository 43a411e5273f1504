------------------------------ MODULE Console ------------------------------
(***************************************************************************)
(* The kernel console (src/kernel/ktty.c) on one processor: the code that  *)
(* runs prints its text through ktty_putc, of which every access to        *)
(* screen_pos is a step, and while interrupts are on the keyboard handler  *)
(* (src/x86_64/kbd.h) comes in between with a whole ktty_putc of its own.  *)
(* No lock protects screen_pos.  Two tasks of kernel_run turn a digit in   *)
(* the corners of the first row and store into the screen themselves.      *)
(*                                                                         *)
(* screen holds the visible characters; a store behind them changes        *)
(* nothing that is shown.  out and torn are history: what was printed, and *)
(* whether a key ever came in the middle of another ktty_putc.             *)
(***************************************************************************)
EXTENDS Integers, Sequences

CONSTANTS WIDTH, HEIGHT,  \* SCREEN_WIDTH and SCREEN_HEIGHT
          CHARS,          \* characters that are shown
          NL, BLANK,      \* '\n' and the cleared cell
          DIGIT,          \* the number of the processor, as a character
          KEYS            \* bound: how many keys are pressed

ASSUME ConsoleAssumption ==
    /\ WIDTH \in Nat \ {0}
    /\ HEIGHT \in Nat /\ HEIGHT >= 2
    /\ NL \notin CHARS

SIZE == HEIGHT * WIDTH
Cells == 0 .. (SIZE - 1)

VARIABLES screen, screen_pos,
          text,     \* what the running code still has to print
          place,    \* its place in ktty_putc
          c, a,     \* the character in hand and a register
          IF_on,    \* are interrupts on
          keys,     \* keys pressed
          out, torn

consoleVars == <<screen, screen_pos, text, place, c, a, IF_on, keys, out, torn>>

Stored(s, p, ch) == IF p \in Cells THEN [s EXCEPT ![p] = ch] ELSE s

\* Mutant: the last row is not cleared.
ShiftedNotCleared(s) ==
    [p \in Cells |-> IF p < SIZE - WIDTH THEN s[p + WIDTH] ELSE s[p]]

\* ktty_shift: every row moves up, the last one is cleared.
Shifted(s) ==
    [p \in Cells |-> IF p < SIZE - WIDTH THEN s[p + WIDTH] ELSE BLANK]

\* ktty_clear, which ktty_init calls.
ConsoleInit ==
    /\ screen = [p \in Cells |-> BLANK]
    /\ screen_pos = 0
    /\ text = <<>> /\ place = "next" /\ c = NL /\ a = 0
    /\ IF_on = TRUE
    /\ keys = 0 /\ out = <<>> /\ torn = FALSE

(***************************************************************************)
(* ktty_putc, called for each character of the text                        *)
(***************************************************************************)
Step(from, to) ==
    /\ place = from
    /\ place' = to
    /\ UNCHANGED <<IF_on, keys, torn>>

Fetch ==
    /\ text # <<>>
    /\ Step("next", IF Head(text) = NL THEN "nl_load" ELSE "store")
    /\ c' = Head(text)
    /\ text' = Tail(text)
    /\ out' = Append(out, Head(text))
    /\ UNCHANGED <<screen, screen_pos, a>>

Store ==
    /\ Step("store", "inc_load")
    /\ screen' = Stored(screen, screen_pos, c)
    /\ UNCHANGED <<screen_pos, text, c, a, out>>

Load(from, to, v) ==
    /\ Step(from, to)
    /\ a' = v
    /\ UNCHANGED <<screen, screen_pos, text, c, out>>

SetPos(from, to, v) ==
    /\ Step(from, to)
    /\ screen_pos' = v
    /\ UNCHANGED <<screen, text, c, a, out>>

\* screen_pos++
IncLoad == Load("inc_load", "inc_store", screen_pos)
IncStore == SetPos("inc_store", "check", a + 1)

\* screen_pos += SCREEN_WIDTH; screen_pos -= screen_pos%SCREEN_WIDTH, which
\* reads it twice.
NlLoad == Load("nl_load", "nl_store", screen_pos)
NlStore == SetPos("nl_store", "nl_first", a + WIDTH)
NlFirst == Load("nl_first", "nl_second", screen_pos)
NlSecond == Load("nl_second", "nl_round", a - (screen_pos % WIDTH))
NlRound == SetPos("nl_round", "check", a)

\* Mutant: the test lets the position behind the last cell pass.
CheckLate ==
    /\ Step("check", IF screen_pos > SIZE THEN "copy" ELSE "next")
    /\ UNCHANGED <<screen, screen_pos, text, c, a, out>>

Check ==
    /\ Step("check", IF screen_pos >= SIZE THEN "copy" ELSE "next")
    /\ UNCHANGED <<screen, screen_pos, text, c, a, out>>

\* The copying of ktty_shift is one step: a key in its middle only changes
\* which row shows it.
ShiftCopy ==
    /\ Step("copy", "reset")
    /\ screen' = Shifted(screen)
    /\ UNCHANGED <<screen_pos, text, c, a, out>>

ShiftReset == SetPos("reset", "next", SIZE - WIDTH)

Putc == Fetch \/ Store \/ IncLoad \/ IncStore \/ NlLoad \/ NlStore \/ NlFirst
        \/ NlSecond \/ NlRound \/ Check \/ ShiftCopy \/ ShiftReset

(***************************************************************************)
(* kbd_intr prints the scan code, which may be that of '\n'                *)
(***************************************************************************)
After(p, ch) == IF ch = NL THEN (p + WIDTH) - ((p + WIDTH) % WIDTH) ELSE p + 1

Key(ch) ==
    LET s == IF ch = NL THEN screen ELSE Stored(screen, screen_pos, ch)
        p == After(screen_pos, ch)
    IN /\ IF_on /\ keys < KEYS
       /\ keys' = keys + 1
       /\ screen' = IF p >= SIZE THEN Shifted(s) ELSE s
       /\ screen_pos' = IF p >= SIZE THEN SIZE - WIDTH ELSE p
       /\ out' = Append(out, ch)
       /\ torn' = (torn \/ place # "next")
       /\ UNCHANGED <<text, place, c, a, IF_on>>

\* kernel_run: text_video[0] and text_video[158] are the characters of the first
\* and of the last cell of the first row.  The colour beside them is left out.
Corners == {0, WIDTH - 1}

Spin(p) ==
    /\ screen' = Stored(screen, p, DIGIT)
    /\ UNCHANGED <<screen_pos, text, place, c, a, IF_on, keys, out, torn>>

\* What the rest of the kernel does: it gives the console a text, and turns
\* interrupts off and on.
Puts(t) ==
    /\ place = "next" /\ text = <<>>
    /\ text' = t
    /\ UNCHANGED <<screen, screen_pos, place, c, a, keys, out, torn>>

Quiet == place = "next" /\ text = <<>>

ConsoleNext ==
    \/ Putc
    \/ \E ch \in CHARS \cup {NL} : Key(ch)
    \/ \E p \in Corners : Spin(p)
    \/ Puts(text')

ConsoleSpec == ConsoleInit /\ [][ConsoleNext]_consoleVars

(***************************************************************************)
(* Properties                                                              *)
(***************************************************************************)
\* ktty_putc stores at screen_pos before it tests it, and a key may come
\* between the increment and the test: no store goes further than one row
\* behind the screen.
StoresNearScreen == screen_pos \in 0 .. (SIZE + WIDTH - 1)

\* Where a text without end of the paper would have its cursor.
Cursor(t) ==
    LET cur[n \in 0 .. Len(t)] ==
            IF n = 0 THEN 0
            ELSE IF t[n] = NL THEN (cur[n - 1] \div WIDTH + 1) * WIDTH
            ELSE cur[n - 1] + 1
    IN cur

\* The last HEIGHT rows of that paper.
Top(t) ==
    LET row == Cursor(t)[Len(t)] \div WIDTH
    IN IF row < HEIGHT THEN 0 ELSE row - (HEIGHT - 1)

Shown(t) ==
    [p \in Cells |->
        LET here == {n \in 1 .. Len(t) : t[n] # NL /\ Cursor(t)[n - 1] = Top(t) * WIDTH + p}
        IN IF here = {} THEN BLANK ELSE t[CHOOSE n \in here : TRUE]]

\* As long as no key fell into the middle of a ktty_putc the screen shows
\* the last rows of all that was printed, by whomever, and the cursor stands
\* behind it.  A corner of the first row may show the digit instead; when the
\* rows move up it does not move with them.
ScreenShowsOutput ==
    place = "next" /\ ~torn =>
        /\ \A p \in Cells : screen[p] = Shown(out)[p] \/ (p \in Corners /\ screen[p] = DIGIT)
        /\ screen_pos = Cursor(out)[Len(out)] - Top(out) * WIDTH
=============================================================================
