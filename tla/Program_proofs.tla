--------------------------- MODULE Program_proofs ---------------------------
(***************************************************************************)
(* Console, loader and system calls, for every size of screen and pages,   *)
(* every file and text, and any keys, ticks and evictions.                 *)
(*                                                                         *)
(* 1. No store of ktty_putc goes further than a row behind the screen.  A  *)
(*    key leaves the cursor on the screen wherever it stood; the code it   *)
(*    interrupts may find the cursor moved back, never out.                *)
(* 2. The screen shows the last rows of what was printed, by induction     *)
(*    over the text: what one more character does to the rows.             *)
(* 3. Every step of the loader, of a system call or of the machine is, for *)
(*    the console, a step of the console or none.                          *)
(* 4. A program that is entered passed every check of the loader.          *)
(* 5. A plain program is entered with its image complete.                  *)
(***************************************************************************)
EXTENDS Program, Induction, TLAPS

Limit == SIZE + WIDTH

OnScreen == {"next", "store", "inc_load", "inc_store", "nl_load", "nl_store"}
Rounding == {"nl_first", "nl_second"}

\* What holds of the cursor and the register at each place of ktty_putc.
CursorInv ==
    /\ screen_pos \in 0 .. (Limit - 1)
    /\ a \in Int
    /\ place \in OnScreen => screen_pos < SIZE
    /\ place \in {"inc_store", "nl_store"} => a \in 0 .. (SIZE - 1)
    /\ place \in Rounding => screen_pos >= WIDTH
    /\ place = "nl_second" => a \in WIDTH .. (Limit - 1)
    /\ place = "nl_round" => a \in 0 .. (Limit - 1)

\* SCREEN_SIZE has room for two rows.
LEMMA SizeFacts == /\ SIZE \in Nat /\ WIDTH \in Nat /\ WIDTH >= 1
                   /\ SIZE - WIDTH >= WIDTH
<1>1. WIDTH \in Nat /\ WIDTH >= 1 /\ HEIGHT \in Nat /\ HEIGHT - 2 \in Nat
  BY ConsoleAssumption
<1>2. \A x, y \in Nat : x * y \in Nat
  OBVIOUS
<1>3. (HEIGHT - 2) * WIDTH \in Nat
  BY <1>1, <1>2
<1>4. HEIGHT * WIDTH = (HEIGHT - 2) * WIDTH + 2 * WIDTH
  BY <1>1
<1>5. QED
  BY <1>1, <1>3, <1>4 DEF SIZE

\* The remainder of a row's width.
LEMMA ModFact == ASSUME NEW x \in Nat PROVE (x % WIDTH) \in 0 .. (WIDTH - 1)
BY SizeFacts

\* The whole ktty_putc of the keyboard handler leaves the cursor on the
\* screen, and not before the second row if it was not there.
LEMMA KeyCursor ==
    ASSUME CursorInv, NEW ch, Key(ch)
    PROVE /\ screen_pos' \in 0 .. (SIZE - 1)
          /\ screen_pos >= WIDTH => screen_pos' >= WIDTH
<1> DEFINE p == After(screen_pos, ch)
<1>1. screen_pos \in Nat /\ screen_pos + WIDTH \in Nat
  BY SizeFacts DEF CursorInv, Limit
<1>2. ((screen_pos + WIDTH) % WIDTH) \in 0 .. (WIDTH - 1)
  BY <1>1, ModFact
<1>3. p \in Nat /\ (screen_pos >= WIDTH => p >= WIDTH)
  BY <1>1, <1>2, SizeFacts DEF After
<1>4. screen_pos' = IF p >= SIZE THEN SIZE - WIDTH ELSE p
  BY DEF Key
<1>5. QED
  BY <1>3, <1>4, SizeFacts

\* Every statement of ktty_putc, and every key, keeps CursorInv.
LEMMA CursorStep == CursorInv /\ [ConsoleNext]_consoleVars => CursorInv'
<1> SUFFICES ASSUME CursorInv, [ConsoleNext]_consoleVars PROVE CursorInv'
  OBVIOUS
<1> USE SizeFacts DEF Limit, OnScreen, Rounding
<1>1. CASE Fetch
  BY <1>1 DEF CursorInv, Fetch, Step
<1>2. CASE Store
  BY <1>2 DEF CursorInv, Store, Step
<1>3. CASE IncLoad
  BY <1>3 DEF CursorInv, IncLoad, Load, Step
<1>4. CASE IncStore
  BY <1>4 DEF CursorInv, IncStore, SetPos, Step
<1>5. CASE NlLoad
  BY <1>5 DEF CursorInv, NlLoad, Load, Step
<1>6. CASE NlStore
  BY <1>6 DEF CursorInv, NlStore, SetPos, Step
<1>7. CASE NlFirst
  BY <1>7 DEF CursorInv, NlFirst, Load, Step
<1>8. CASE NlSecond
  <2>1. place = "nl_second" /\ place' = "nl_round" /\ screen_pos' = screen_pos
        /\ a' = a - (screen_pos % WIDTH)
    BY <1>8 DEF NlSecond, Load, Step
  <2>2. (screen_pos % WIDTH) \in 0 .. (WIDTH - 1)
    BY ModFact DEF CursorInv
  <2>3. a' \in 0 .. (Limit - 1)
    BY <2>1, <2>2 DEF CursorInv
  <2>4. QED
    BY <2>1, <2>3 DEF CursorInv
<1>9. CASE NlRound
  BY <1>9 DEF CursorInv, NlRound, SetPos, Step
<1>10. CASE Check
  BY <1>10 DEF CursorInv, Check, Step
<1>11. CASE ShiftCopy
  BY <1>11 DEF CursorInv, ShiftCopy, Step
<1>12. CASE ShiftReset
  BY <1>12 DEF CursorInv, ShiftReset, SetPos, Step
<1>13. CASE \E ch \in CHARS \cup {NL} : Key(ch)
  <2>1. PICK ch \in CHARS \cup {NL} : Key(ch)
    BY <1>13
  <2>2. place' = place /\ a' = a
    BY <2>1 DEF Key
  <2>3. /\ screen_pos' \in 0 .. (SIZE - 1)
        /\ screen_pos >= WIDTH => screen_pos' >= WIDTH
    BY <2>1, KeyCursor
  <2>4. QED
    BY <2>2, <2>3 DEF CursorInv
<1>14. CASE Puts(text')
  BY <1>14 DEF CursorInv, Puts
<1>15. CASE (\E p \in Corners : Spin(p)) \/ UNCHANGED consoleVars
  BY <1>15 DEF CursorInv, Spin, consoleVars
<1>16. QED
  BY <1>1, <1>2, <1>3, <1>4, <1>5, <1>6, <1>7, <1>8, <1>9, <1>10, <1>11, <1>12,
     <1>13, <1>14, <1>15 DEF ConsoleNext, Putc

LEMMA CursorInit == ConsoleInit => CursorInv
BY SizeFacts DEF ConsoleInit, CursorInv, Limit, OnScreen, Rounding

\* ktty_putc stores at most one row behind the screen, whatever is printed
\* and whenever keys come (ktty.c stores before it tests screen_pos).
THEOREM ConsoleStoresNearScreen == ConsoleSpec => []StoresNearScreen
<1>1. CursorInv => StoresNearScreen
  BY SizeFacts DEF CursorInv, StoresNearScreen, Limit
<1>2. QED
  BY <1>1, CursorInit, CursorStep, PTL DEF ConsoleSpec

(***************************************************************************)
(* What the screen shows.                                                  *)
(***************************************************************************)
\* Where the cursor of the endless paper goes from x.
Advance(x, ch) == IF ch = NL THEN (x \div WIDTH + 1) * WIDTH ELSE x + 1

\* Rows of the paper: x stands in row x \div WIDTH, and in no other.
LEMMA RowOf ==
    ASSUME NEW x \in Nat
    PROVE  /\ x \div WIDTH \in Nat /\ (x \div WIDTH) * WIDTH \in Nat
           /\ (x \div WIDTH) * WIDTH <= x
           /\ x < (x \div WIDTH) * WIDTH + WIDTH
           /\ (x \div WIDTH + 1) * WIDTH = (x \div WIDTH) * WIDTH + WIDTH
           /\ x % WIDTH = x - (x \div WIDTH) * WIDTH
BY SizeFacts

LEMMA RowsApart ==
    ASSUME NEW q \in Nat, NEW r \in Nat, q < r
    PROVE  /\ q * WIDTH \in Nat /\ r * WIDTH \in Nat
           /\ q * WIDTH + WIDTH <= r * WIDTH
<1>1. r - q - 1 \in Nat
  OBVIOUS
<1>2. (r - q - 1) * WIDTH \in Nat /\ q * WIDTH \in Nat /\ r * WIDTH \in Nat
  <2>1. \A y, z \in Nat : y * z \in Nat
    OBVIOUS
  <2> QED BY <1>1, <2>1, SizeFacts
<1>3. r * WIDTH = q * WIDTH + WIDTH + (r - q - 1) * WIDTH
  BY SizeFacts
<1> QED BY <1>2, <1>3, SizeFacts

LEMMA RowIs ==
    ASSUME NEW x \in Nat, NEW q \in Nat, q * WIDTH <= x, x < q * WIDTH + WIDTH
    PROVE  x \div WIDTH = q
<1>1. PICK r : r = x \div WIDTH
  OBVIOUS
<1>2. r \in Nat /\ r * WIDTH \in Nat /\ r * WIDTH <= x /\ x < r * WIDTH + WIDTH
  BY <1>1, RowOf
<1>3. ~(q < r) /\ ~(r < q)
  BY <1>2, RowsApart, SizeFacts
<1> QED BY <1>1, <1>2, <1>3

\* The cursor of the paper never stays and never goes back.
LEMMA AdvanceFact ==
    ASSUME NEW x \in Nat, NEW ch
    PROVE  Advance(x, ch) \in Nat /\ x < Advance(x, ch)
BY RowOf, SizeFacts DEF Advance

\* A sequence, of whatever.
IsText(t) == \E S : t \in Seq(S)

\* Cursor follows the text character by character.
LEMMA CursorFollows ==
    ASSUME NEW t, IsText(t)
    PROVE  /\ Cursor(t) \in [0 .. Len(t) -> Nat]
           /\ Cursor(t)[0] = 0
           /\ \A n \in 1 .. Len(t) : Cursor(t)[n] = Advance(Cursor(t)[n - 1], t[n])
<1> DEFINE N == Len(t)
           g == [n \in 1 .. N |-> [x \in Nat |-> Advance(x, t[n])]]
           F(w) == [n \in 0 .. N |-> IF n = 0 THEN 0
                                    ELSE IF t[n] = NL THEN (w[n - 1] \div WIDTH + 1) * WIDTH
                                    ELSE w[n - 1] + 1]
<1>1. N \in Nat
  BY DEF IsText
<1>2. g \in [1 .. N -> [Nat -> Nat]]
  BY AdvanceFact
<1>3. \A n \in 1 .. N : \A x \in Nat : g[n][x] = Advance(x, t[n])
  OBVIOUS
<1> HIDE DEF g
<1>4. Recursive(Nat, 0, g, N)
  BY <1>1, <1>2, RecursionExists
<1>5. PICK w \in [0 .. N -> Nat] : w[0] = 0 /\ \A n \in 1 .. N : w[n] = g[n][w[n - 1]]
  BY <1>4 DEF Recursive
<1>6. ASSUME NEW n \in 1 .. N PROVE w[n] = Advance(w[n - 1], t[n])
  <2>1. n - 1 \in 0 .. N /\ w[n - 1] \in Nat
    BY <1>1, <1>5
  <2> QED BY <2>1, <1>3, <1>5
<1>7. w = F(w)
  <2>1. w = [n \in 0 .. N |-> w[n]]
    BY <1>5
  <2>2. ASSUME NEW n \in 0 .. N
        PROVE  w[n] = IF n = 0 THEN 0
                      ELSE IF t[n] = NL THEN (w[n - 1] \div WIDTH + 1) * WIDTH
                      ELSE w[n - 1] + 1
    <3>1. CASE n = 0
      BY <3>1, <1>5
    <3>2. CASE n # 0
      <4>1. n \in 1 .. N
        BY <3>2, <1>1
      <4> QED BY <4>1, <3>2, <1>6 DEF Advance
    <3> QED BY <3>1, <3>2
  <2> QED BY <2>1, <2>2
<1>8. Cursor(t) = CHOOSE v : v = F(v)
  BY DEF Cursor
<1>9. Cursor(t) = F(Cursor(t))
  <2> DEFINE G == CHOOSE v : v = F(v)
  <2> HIDE DEF F
  <2>1. \E v : v = F(v)
    BY <1>7
  <2>2. G = F(G)
    BY <2>1
  <2> QED BY <2>2, <1>8
<1> DEFINE C == Cursor(t)
<1>10. C = F(C)
  BY <1>9
<1> HIDE DEF C, N
<1>11. C[0] = 0 /\ DOMAIN C = 0 .. N
  BY <1>1, <1>10
<1>12. ASSUME NEW n \in 1 .. N PROVE C[n] = Advance(C[n - 1], t[n])
  <2>1. n \in 0 .. N /\ n # 0
    BY <1>1
  <2> QED BY <2>1, <1>10 DEF Advance
<1>13. \A n \in Nat : n \in 0 .. N => C[n] \in Nat
  <2> DEFINE P == {n \in Nat : n \in 0 .. N => C[n] \in Nat}
  <2>1. 0 \in P
    BY <1>11
  <2>2. ASSUME NEW n \in Nat, n \in P PROVE n + 1 \in P
    <3> SUFFICES ASSUME n + 1 \in 0 .. N PROVE C[n + 1] \in Nat
      OBVIOUS
    <3>1. n \in 0 .. N /\ C[n] \in Nat /\ n + 1 \in 1 .. N /\ (n + 1) - 1 = n
      BY <2>2, <1>1
    <3> QED BY <3>1, <1>12, AdvanceFact
  <2> HIDE DEF P
  <2>3. \A n \in Nat : n \in P
    BY <2>1, <2>2, SetInduction
  <2> QED BY <2>3 DEF P
<1>14. C \in [0 .. N -> Nat]
  <2>1. C = [n \in 0 .. N |-> C[n]]
    BY <1>10
  <2> QED BY <2>1, <1>13, <1>1
<1> QED BY <1>11, <1>12, <1>14 DEF C, N

\* Of the cells before the end, none is further than the cursor.
LEMMA CursorGrows ==
    ASSUME NEW t, IsText(t), NEW m \in 0 .. Len(t), m < Len(t)
    PROVE  Cursor(t)[m] < Cursor(t)[Len(t)]
<1> DEFINE N == Len(t)
           C == Cursor(t)
           P == {n \in Nat : m < n /\ n <= N => C[m] < C[n]}
<1>1. N \in Nat /\ C \in [0 .. N -> Nat]
      /\ \A n \in 1 .. N : C[n] = Advance(C[n - 1], t[n])
  BY CursorFollows
<1>2. m \in Nat /\ m < N
  BY <1>1
<1> HIDE DEF N, C
<1>3. 0 \in P
  BY <1>2
<1>4. ASSUME NEW n \in Nat, n \in P PROVE n + 1 \in P
  <2> SUFFICES ASSUME m < n + 1, n + 1 <= N PROVE C[m] < C[n + 1]
    OBVIOUS
  <2>1. n \in 0 .. N /\ n + 1 \in 1 .. N /\ (n + 1) - 1 = n /\ m \in 0 .. N
    BY <1>1, <1>2
  <2>2. C[n] \in Nat /\ C[m] \in Nat /\ C[n + 1] \in Nat /\ C[n] < C[n + 1]
    BY <2>1, <1>1, AdvanceFact
  <2>3. CASE m = n
    BY <2>3, <2>2
  <2>4. CASE m < n
    BY <2>4, <2>1, <2>2, <1>4
  <2> QED BY <2>3, <2>4, <1>2
<1> HIDE DEF P
<1>5. \A n \in Nat : n \in P
  BY <1>3, <1>4, SetInduction
<1>6. N \in P
  BY <1>1, <1>5
<1> QED BY <1>1, <1>2, <1>6 DEF P, N, C

\* One more character leaves the cursor's way so far alone.
Extends(u, t, ch) ==
    /\ IsText(u) /\ Len(t) \in Nat /\ Len(u) = Len(t) + 1
    /\ u[Len(u)] = ch /\ \A n \in 1 .. Len(t) : u[n] = t[n]
    /\ \A n \in 0 .. Len(t) : Cursor(u)[n] = Cursor(t)[n]
    /\ Cursor(u)[Len(u)] = Advance(Cursor(t)[Len(t)], ch)

LEMMA CursorAppend ==
    ASSUME NEW t, IsText(t), NEW ch
    PROVE  Extends(Append(t, ch), t, ch)
<1> DEFINE u == Append(t, ch)
<1>0. PICK S : t \in Seq(S)
  BY DEF IsText
<1>1. t \in Seq(S \cup {ch}) /\ ch \in S \cup {ch}
  BY <1>0
<1>2. /\ u \in Seq(S \cup {ch}) /\ Len(u) = Len(t) + 1 /\ Len(t) \in Nat
      /\ u[Len(u)] = ch /\ \A n \in 1 .. Len(t) : u[n] = t[n]
  BY <1>1
<1>10. IsText(u)
  BY <1>2 DEF IsText
<1> HIDE DEF u
<1> DEFINE N == Len(t)
           P == {n \in Nat : n <= N => Cursor(u)[n] = Cursor(t)[n]}
<1>3. /\ Cursor(t)[0] = 0 /\ Cursor(u)[0] = 0
      /\ \A n \in 1 .. N : Cursor(t)[n] = Advance(Cursor(t)[n - 1], t[n])
      /\ \A n \in 1 .. (N + 1) : Cursor(u)[n] = Advance(Cursor(u)[n - 1], u[n])
  BY <1>2, <1>10, CursorFollows
<1> HIDE DEF N
<1>4. N \in Nat /\ \A n \in 1 .. N : u[n] = t[n]
  BY <1>2 DEF N
<1>5. 0 \in P
  BY <1>3
<1>6. ASSUME NEW n \in Nat, n \in P PROVE n + 1 \in P
  <2> SUFFICES ASSUME n + 1 <= N PROVE Cursor(u)[n + 1] = Cursor(t)[n + 1]
    OBVIOUS
  <2>1. n + 1 \in 1 .. N /\ n + 1 \in 1 .. (N + 1) /\ (n + 1) - 1 = n
    BY <1>4
  <2>2. Cursor(u)[n] = Cursor(t)[n]
    BY <1>4, <1>6
  <2> QED BY <2>1, <2>2, <1>3, <1>4
<1> HIDE DEF P
<1>7. \A n \in Nat : n \in P
  BY <1>5, <1>6, SetInduction
<1>8. \A n \in 0 .. N : Cursor(u)[n] = Cursor(t)[n]
  BY <1>4, <1>7 DEF P
<1>9. Cursor(u)[N + 1] = Advance(Cursor(t)[N], ch)
  <2>1. N + 1 \in 1 .. (N + 1) /\ (N + 1) - 1 = N /\ N \in 0 .. N
    BY <1>4
  <2>2. u[N + 1] = ch
    BY <1>2 DEF N
  <2> QED BY <2>1, <2>2, <1>3, <1>8
<1> QED BY <1>2, <1>8, <1>9, <1>10 DEF N, u, Extends

\* Where ktty_putc keeps the cursor of the paper: in screen_pos.
Pos(t) == Cursor(t)[Len(t)] - Top(t) * WIDTH

LEMMA TopFact ==
    ASSUME NEW t, IsText(t), NEW C, C = Cursor(t)[Len(t)],
           NEW r, r = C \div WIDTH, NEW T, T = Top(t)
    PROVE  /\ C \in Nat /\ r \in Nat /\ T \in Nat /\ T * WIDTH \in Nat
           /\ T = IF r < HEIGHT THEN 0 ELSE r - (HEIGHT - 1)
           /\ Pos(t) = C - T * WIDTH /\ Pos(t) \in 0 .. (SIZE - 1)
<1>1. Len(t) \in 0 .. Len(t) /\ C \in Nat
  BY CursorFollows DEF IsText
<1>2. T = IF r < HEIGHT THEN 0 ELSE r - (HEIGHT - 1)
  BY DEF Top
<1>3. r \in Nat /\ r * WIDTH \in Nat /\ r * WIDTH <= C /\ C < r * WIDTH + WIDTH
  BY <1>1, RowOf
<1>4. HEIGHT \in Nat /\ HEIGHT >= 2
  BY ConsoleAssumption
<1>5. T \in Nat /\ T <= r /\ r < T + HEIGHT
  BY <1>2, <1>3, <1>4
<1>6. T * WIDTH \in Nat /\ T * WIDTH <= r * WIDTH
  <2>1. CASE T = r
    BY <2>1, <1>3
  <2>2. CASE T < r
    BY <2>2, <1>3, <1>5, RowsApart, SizeFacts
  <2> QED BY <2>1, <2>2, <1>3, <1>5
<1>7. r * WIDTH + WIDTH <= (T + HEIGHT) * WIDTH
  BY <1>3, <1>4, <1>5, RowsApart
<1>8. (T + HEIGHT) * WIDTH = T * WIDTH + SIZE
  BY <1>4, <1>5, SizeFacts DEF SIZE
<1>9. Pos(t) = C - T * WIDTH
  BY DEF Pos
<1>10. Pos(t) \in 0 .. (SIZE - 1)
  <2>1. PICK tw, rw : tw = T * WIDTH /\ rw = r * WIDTH
    OBVIOUS
  <2>2. tw \in Nat /\ tw <= rw /\ rw <= C /\ C < rw + WIDTH /\ rw + WIDTH <= tw + SIZE
        /\ Pos(t) = C - tw /\ rw \in Nat
    BY <2>1, <1>3, <1>6, <1>7, <1>8, <1>9
  <2> QED BY <2>2, <1>1, SizeFacts
<1> QED BY <1>1, <1>2, <1>3, <1>5, <1>6, <1>9, <1>10

\* One more character moves the paper up by one row when, and only when, the
\* position that ktty_putc reaches is behind the screen.
LEMMA TopAppend ==
    ASSUME NEW t, IsText(t), NEW ch, NEW u, Extends(u, t, ch)
    PROVE  LET p == After(Pos(t), ch)
           IN /\ Top(u) = IF p >= SIZE THEN Top(t) + 1 ELSE Top(t)
              /\ Pos(u) = IF p >= SIZE THEN SIZE - WIDTH ELSE p
<1> DEFINE p == After(Pos(t), ch)
<1>1. PICK C, r, T : C = Cursor(t)[Len(t)] /\ r = C \div WIDTH /\ T = Top(t)
  OBVIOUS
<1>2. /\ C \in Nat /\ r \in Nat /\ T \in Nat /\ T * WIDTH \in Nat
      /\ T = IF r < HEIGHT THEN 0 ELSE r - (HEIGHT - 1)
      /\ Pos(t) = C - T * WIDTH /\ Pos(t) \in 0 .. (SIZE - 1)
  BY <1>1, TopFact
<1>3. IsText(u) /\ Cursor(u)[Len(u)] = Advance(Cursor(t)[Len(t)], ch)
  BY DEF Extends
<1>4. PICK D, q : D = Advance(C, ch) /\ D = Cursor(u)[Len(u)] /\ q = D \div WIDTH
  BY <1>1, <1>3
<1>5. /\ D \in Nat /\ q \in Nat
      /\ Top(u) = IF q < HEIGHT THEN 0 ELSE q - (HEIGHT - 1)
      /\ Pos(u) = D - Top(u) * WIDTH
  BY <1>3, <1>4, TopFact, SMTT(30)
<1>6. HEIGHT \in Nat /\ HEIGHT >= 2 /\ r < T + HEIGHT /\ T <= r
  BY <1>2, ConsoleAssumption
<1>7. /\ r * WIDTH \in Nat /\ r * WIDTH <= C /\ C < r * WIDTH + WIDTH
      /\ (r + 1) * WIDTH = r * WIDTH + WIDTH
  BY <1>1, <1>2, RowOf
<1>8. \/ q = r /\ D < r * WIDTH + WIDTH
      \/ q = r + 1 /\ D = r * WIDTH + WIDTH
  <2>1. CASE ch = NL
    <3>1. D = (r + 1) * WIDTH
      BY <2>1, <1>1, <1>4 DEF Advance
    <3>2. D \div WIDTH = r + 1
      BY <3>1, <1>2, <1>5, RowIs, SizeFacts
    <3> QED BY <3>1, <3>2, <1>4, <1>7
  <2>2. CASE ch # NL
    <3>1. D = C + 1
      BY <2>2, <1>4 DEF Advance
    <3>2. CASE D < r * WIDTH + WIDTH
      BY <3>1, <3>2, <1>2, <1>4, <1>5, <1>7, RowIs
    <3>3. CASE D >= r * WIDTH + WIDTH
      <4>1. D = (r + 1) * WIDTH
        BY <3>1, <3>3, <1>2, <1>7, SizeFacts
      <4>2. D \div WIDTH = r + 1
        BY <4>1, <1>2, <1>5, RowIs, SizeFacts
      <4> QED BY <4>1, <4>2, <1>4, <1>7
    <3> QED BY <3>2, <3>3, <1>5, <1>7, SizeFacts
  <2> QED BY <2>1, <2>2
<1>9. p = D - T * WIDTH
  <2>1. CASE ch # NL
    BY <2>1, <1>2, <1>4 DEF After, Advance
  <2>2. CASE ch = NL
    <3>1. D = (r + 1) * WIDTH
      BY <2>2, <1>1, <1>4 DEF Advance
    <3>2. PICK x, k : x = Pos(t) + WIDTH /\ k = r - T + 1
      OBVIOUS
    <3>3. x \in Nat /\ k \in Nat
      BY <3>2, <1>2, <1>6, SizeFacts
    <3>4. k * WIDTH = r * WIDTH - T * WIDTH + WIDTH
      BY <3>2, <1>2, SizeFacts
    <3>5. PICK kw, rw, tw : kw = k * WIDTH /\ rw = r * WIDTH /\ tw = T * WIDTH
      OBVIOUS
    <3>6. /\ kw = rw - tw + WIDTH /\ rw \in Nat /\ tw \in Nat
          /\ rw <= C /\ C < rw + WIDTH /\ x = C - tw + WIDTH /\ D = rw + WIDTH
      BY <3>1, <3>2, <3>4, <3>5, <1>2, <1>7
    <3>7. kw <= x /\ x < kw + WIDTH /\ kw \in Int
      BY <3>6, <1>2, SizeFacts
    <3>8. x \div WIDTH = k
      BY <3>3, <3>5, <3>7, RowIs
    <3>9. x % WIDTH = x - kw
      BY <3>3, <3>5, <3>8, RowOf
    <3>10. p = x - (x % WIDTH)
      BY <2>2, <3>2 DEF After
    <3>11. p = kw
      BY <3>3, <3>7, <3>9, <3>10
    <3> QED BY <3>5, <3>6, <3>11, SizeFacts
  <2> QED BY <2>1, <2>2
<1>10. (T + HEIGHT) * WIDTH = T * WIDTH + SIZE
  BY <1>2, <1>6, SizeFacts DEF SIZE
<1>11. r * WIDTH + WIDTH <= (T + HEIGHT) * WIDTH
  BY <1>2, <1>6, RowsApart
<1>12. (T + 1) * WIDTH = T * WIDTH + WIDTH
  BY <1>2, SizeFacts
<1> HIDE DEF p
<1>13. PICK rw, tw : rw = r * WIDTH /\ tw = T * WIDTH
  OBVIOUS
<1>14. /\ rw \in Nat /\ tw \in Nat /\ rw + WIDTH <= tw + SIZE
       /\ p = D - tw /\ p \in Int
       /\ (q = r /\ D < rw + WIDTH) \/ (q = r + 1 /\ D = rw + WIDTH)
  BY <1>2, <1>5, <1>7, <1>8, <1>9, <1>10, <1>11, <1>13
<1>15. CASE p >= SIZE
  <2>1. q = r + 1 /\ D = r * WIDTH + WIDTH /\ D = T * WIDTH + SIZE
    <3>1. q = r + 1 /\ D = rw + WIDTH /\ D = tw + SIZE
      BY <1>15, <1>5, <1>14, SizeFacts
    <3> QED BY <3>1, <1>13
  <2>2. r = T + HEIGHT - 1
    <3>1. ~(r + 1 < T + HEIGHT)
      <4> SUFFICES ASSUME r + 1 < T + HEIGHT PROVE FALSE
        OBVIOUS
      <4>1. (r + 1) * WIDTH + WIDTH <= (T + HEIGHT) * WIDTH
        BY <1>2, <1>6, RowsApart
      <4> QED BY <4>1, <2>1, <1>2, <1>7, <1>10, SizeFacts
    <3> QED BY <3>1, <1>2, <1>6
  <2>3. Top(u) = T + 1
    BY <2>1, <2>2, <1>2, <1>5, <1>6
  <2>4. Pos(u) = SIZE - WIDTH
    <3>1. Pos(u) = D - (tw + WIDTH) /\ D = tw + SIZE
      BY <2>1, <2>3, <1>5, <1>12, <1>13
    <3> QED BY <3>1, <1>14, SizeFacts
  <2> QED BY <2>3, <2>4, <1>1, <1>15 DEF p
<1>16. CASE p < SIZE
  <2>1. D < T * WIDTH + SIZE
    <3>1. D < tw + SIZE
      BY <1>16, <1>5, <1>14, SizeFacts
    <3> QED BY <3>1, <1>13
  <2>2. q < T + HEIGHT
    <3>1. CASE q = r
      BY <3>1, <1>6
    <3>2. CASE q = r + 1 /\ D = (r + 1) * WIDTH
      <4>1. r + 1 # T + HEIGHT
        BY <3>2, <2>1, <1>10, <1>2, <1>5
      <4> QED BY <4>1, <3>2, <1>2, <1>6
    <3> QED BY <3>1, <3>2, <1>7, <1>8
  <2>3. Top(u) = T
    BY <2>2, <1>2, <1>5, <1>6, <1>8
  <2>4. Pos(u) = p
    BY <2>3, <1>5, <1>9
  <2>5. ~(p >= SIZE)
    BY <1>16, <1>14, SizeFacts
  <2> QED BY <2>3, <2>4, <2>5, <1>1 DEF p
<1> QED BY <1>15, <1>16, <1>14, SizeFacts

\* The characters of t that stand in cell p, and what is shown there.
Here(t, p) == {n \in 1 .. Len(t) : t[n] # NL /\ Cursor(t)[n - 1] = Top(t) * WIDTH + p}
Cell(t, p) == IF Here(t, p) = {} THEN BLANK ELSE t[CHOOSE n \in Here(t, p) : TRUE]

\* Where every character of t stands is before its cursor.
LEMMA HereBefore ==
    ASSUME NEW t, IsText(t), NEW n \in 1 .. Len(t)
    PROVE  Cursor(t)[n - 1] \in Nat /\ Cursor(t)[n - 1] < Cursor(t)[Len(t)]
<1>1. Len(t) \in Nat
  BY DEF IsText
<1>2. n - 1 \in 0 .. Len(t) /\ n - 1 < Len(t)
  BY <1>1
<1> QED BY <1>2, CursorGrows, CursorFollows

\* The new character stands at the old cursor; the others move up with the
\* paper, by w cells.
LEMMA CellAppend ==
    ASSUME NEW t, IsText(t), NEW ch, NEW u, Extends(u, t, ch),
           NEW w \in Nat, Top(u) * WIDTH = Top(t) * WIDTH + w,
           NEW p \in Nat
    PROVE  Cell(u, p) = IF ch # NL /\ p + w = Pos(t) THEN ch ELSE Cell(t, p + w)
<1>1. PICK N, C, tw : N = Len(t) /\ C = Cursor(t)[Len(t)] /\ tw = Top(t) * WIDTH
  OBVIOUS
<1>2. N \in Nat /\ Len(u) = N + 1 /\ u[N + 1] = ch
      /\ \A n \in 1 .. N : u[n] = t[n] /\ Cursor(u)[n - 1] = Cursor(t)[n - 1]
  <2>1. N \in Nat /\ Len(u) = N + 1 /\ u[N + 1] = ch
        /\ (\A n \in 1 .. N : u[n] = t[n])
        /\ \A n \in 0 .. N : Cursor(u)[n] = Cursor(t)[n]
    BY <1>1 DEF Extends
  <2>2. \A n \in 1 .. N : n - 1 \in 0 .. N
    BY <2>1
  <2> QED BY <2>1, <2>2
<1>3. Cursor(u)[(N + 1) - 1] = C /\ C \in Nat /\ tw \in Nat /\ Pos(t) = C - tw
  <2>1. N \in 0 .. N /\ (N + 1) - 1 = N
    BY <1>2
  <2>2. Cursor(u)[N] = C
    BY <2>1, <1>1 DEF Extends
  <2>3. C \in Nat /\ tw \in Nat /\ Pos(t) = C - tw
    BY <1>1, TopFact
  <2> QED BY <2>1, <2>2, <2>3
<1>4. \A n \in 1 .. N : Cursor(t)[n - 1] \in Nat /\ Cursor(t)[n - 1] < C
  BY <1>1, HereBefore
<1>5. Here(u, p) = {n \in 1 .. (N + 1) : u[n] # NL /\ Cursor(u)[n - 1] = (tw + w) + p}
  BY <1>1, <1>2 DEF Here
<1>6. Here(t, p + w) = {n \in 1 .. N : t[n] # NL /\ Cursor(t)[n - 1] = tw + (p + w)}
  BY <1>1 DEF Here
<1>7. (tw + w) + p = tw + (p + w) /\ (C = tw + (p + w) <=> p + w = Pos(t))
  BY <1>3
<1>8. CASE ch # NL /\ p + w = Pos(t)
  <2>1. Here(u, p) = {N + 1}
    <3>1. N + 1 \in Here(u, p)
      BY <1>2, <1>3, <1>5, <1>7, <1>8, SMTT(30)
    <3>2. ASSUME NEW n \in Here(u, p) PROVE n = N + 1
      <4>1. n \in 1 .. (N + 1) /\ Cursor(u)[n - 1] = C
        BY <3>2, <1>5, <1>7, <1>8
      <4>2. n \notin 1 .. N
        <5> SUFFICES ASSUME n \in 1 .. N PROVE FALSE
          OBVIOUS
        <5>1. Cursor(t)[n - 1] = C
          BY <4>1, <1>2
        <5> QED BY <5>1, <1>3, <1>4
      <4> QED BY <4>1, <4>2, <1>2
    <3> QED BY <3>1, <3>2
  <2>2. (CHOOSE n \in Here(u, p) : TRUE) = N + 1
    BY <2>1
  <2> QED BY <2>1, <2>2, <1>2, <1>8 DEF Cell
<1>9. CASE ~(ch # NL /\ p + w = Pos(t))
  <2>1. ASSUME NEW n \in Here(u, p) PROVE n \in Here(t, p + w)
    <3>1. n \in 1 .. (N + 1) /\ u[n] # NL /\ Cursor(u)[n - 1] = tw + (p + w)
      BY <2>1, <1>5, <1>7
    <3>2. n # N + 1
      BY <3>1, <1>2, <1>3, <1>7, <1>9
    <3>3. n \in 1 .. N
      BY <3>1, <3>2, <1>2
    <3> QED BY <3>1, <3>3, <1>2, <1>6
  <2>2. ASSUME NEW n \in Here(t, p + w) PROVE n \in Here(u, p)
    <3>1. n \in 1 .. N /\ t[n] # NL /\ Cursor(t)[n - 1] = tw + (p + w)
      BY <2>2, <1>6
    <3>2. n \in 1 .. (N + 1)
      BY <3>1, <1>2
    <3> QED BY <3>1, <3>2, <1>2, <1>5, <1>7
  <2>3. Here(u, p) = Here(t, p + w)
    BY <2>1, <2>2
  <2>4. Here(t, p + w) # {} => u[CHOOSE n \in Here(t, p + w) : TRUE]
                               = t[CHOOSE n \in Here(t, p + w) : TRUE]
    <3> SUFFICES ASSUME Here(t, p + w) # {}
                 PROVE  u[CHOOSE n \in Here(t, p + w) : TRUE]
                        = t[CHOOSE n \in Here(t, p + w) : TRUE]
      OBVIOUS
    <3>1. (CHOOSE n \in Here(t, p + w) : TRUE) \in Here(t, p + w)
      OBVIOUS
    <3>2. (CHOOSE n \in Here(t, p + w) : TRUE) \in 1 .. N
      BY <3>1, <1>6
    <3> QED BY <3>2, <1>2
  <2> QED BY <2>3, <2>4, <1>9 DEF Cell
<1> QED BY <1>8, <1>9

\* Nothing stands behind the screen.
LEMMA CellBehind ==
    ASSUME NEW t, IsText(t), NEW p \in Nat, p >= SIZE PROVE Cell(t, p) = BLANK
<1>1. PICK C, tw : C = Cursor(t)[Len(t)] /\ tw = Top(t) * WIDTH
  OBVIOUS
<1>2. C \in Nat /\ tw \in Nat /\ C - tw \in 0 .. (SIZE - 1)
  BY <1>1, TopFact
<1>3. ASSUME NEW n \in Here(t, p) PROVE FALSE
  <2>1. n \in 1 .. Len(t) /\ Cursor(t)[n - 1] = tw + p
    BY <1>1, <1>3 DEF Here
  <2>2. Cursor(t)[n - 1] < C
    BY <2>1, <1>1, HereBefore
  <2> QED BY <2>1, <2>2, <1>2, SizeFacts
<1>4. Here(t, p) = {}
  BY <1>3
<1> QED BY <1>4 DEF Cell

\* The character goes to the cell of the cursor, unless it ends the row.
PutOn(s, p, ch) == IF ch = NL THEN s ELSE Stored(s, p, ch)

\* ktty_putc: store, advance, and shift when behind the screen, shows one more
\* character of the paper.
LEMMA ShownAppend ==
    ASSUME NEW t, IsText(t), NEW ch, NEW u, Extends(u, t, ch)
    PROVE  LET s == PutOn(Shown(t), Pos(t), ch)
           IN Shown(u) = IF After(Pos(t), ch) >= SIZE THEN Shifted(s) ELSE s
<1> DEFINE s == PutOn(Shown(t), Pos(t), ch)
<1>1. \A x : Shown(x) = [p \in Cells |-> Cell(x, p)]
  BY DEF Shown, Cell, Here
<1>2. Pos(t) \in Cells
  BY TopFact DEF Cells
<1>3. s = [p \in Cells |-> IF ch # NL /\ p = Pos(t) THEN ch ELSE Cell(t, p)]
  BY <1>1, <1>2 DEF PutOn, Stored
<1> HIDE DEF s
<1>4. \A p : p \in Cells <=> p \in Nat /\ p < SIZE
  BY SizeFacts DEF Cells
<1>5. CASE After(Pos(t), ch) >= SIZE
  <2>1. Top(u) = Top(t) + 1
    BY <1>5, TopAppend
  <2>2. Top(u) * WIDTH = Top(t) * WIDTH + WIDTH
    BY <2>1, TopFact, SizeFacts
  <2>3. \A p \in Nat : Cell(u, p) = IF ch # NL /\ p + WIDTH = Pos(t) THEN ch
                                     ELSE Cell(t, p + WIDTH)
    BY <2>2, CellAppend, SizeFacts
  <2>4. ASSUME NEW p \in Cells
        PROVE  Cell(u, p) = IF p < SIZE - WIDTH THEN s[p + WIDTH] ELSE BLANK
    <3>1. CASE p < SIZE - WIDTH
      <4>1. p + WIDTH \in Cells
        BY <3>1, <1>4, SizeFacts
      <4> QED BY <4>1, <3>1, <2>3, <1>3, <1>4
    <3>2. CASE ~(p < SIZE - WIDTH)
      <4>1. p \in Nat /\ p + WIDTH \in Nat /\ p + WIDTH >= SIZE
        BY <3>2, <1>4, SizeFacts
      <4>2. p + WIDTH # Pos(t)
        BY <4>1, <1>2, <1>4, SizeFacts
      <4>3. Cell(t, p + WIDTH) = BLANK
        BY <4>1, CellBehind
      <4> QED BY <3>2, <4>1, <4>2, <4>3, <2>3
    <3> QED BY <3>1, <3>2
  <2>5. Shown(u) = Shifted(s)
    BY <2>4, <1>1 DEF Shifted
  <2> QED BY <2>5, <1>5 DEF s
<1>6. CASE ~(After(Pos(t), ch) >= SIZE)
  <2>1. Top(u) * WIDTH = Top(t) * WIDTH + 0
    BY <1>6, TopAppend, TopFact
  <2>2. \A p \in Nat : p + 0 = p
    OBVIOUS
  <2>3. \A p \in Nat : Cell(u, p) = IF ch # NL /\ p = Pos(t) THEN ch ELSE Cell(t, p)
    BY <2>1, <2>2, CellAppend
  <2>4. Shown(u) = s
    BY <2>3, <1>1, <1>3, <1>4
  <2> QED BY <2>4, <1>6 DEF s
<1> QED BY <1>5, <1>6

(***************************************************************************)
(* The screen is f but for the digits in the corners, and stays so when    *)
(* both go through the same.                                               *)
(***************************************************************************)
Like(s, f) ==
    /\ DOMAIN s = Cells /\ DOMAIN f = Cells
    /\ \A p \in Cells : s[p] = f[p] \/ (p \in Corners /\ s[p] = DIGIT)

LEMMA LikeItself == ASSUME NEW f, DOMAIN f = Cells PROVE Like(f, f)
BY DEF Like

\* Both take the same character.
LEMMA LikeStored ==
    ASSUME NEW s, NEW f, Like(s, f), NEW p, NEW ch
    PROVE  Like(Stored(s, p, ch), Stored(f, p, ch))
BY DEF Like, Stored

LEMMA LikePut ==
    ASSUME NEW s, NEW f, Like(s, f), NEW p, NEW ch
    PROVE  Like(PutOn(s, p, ch), PutOn(f, p, ch))
BY LikeStored DEF PutOn

\* No corner is in a row that moves up.
LEMMA LikeShifted ==
    ASSUME NEW s, NEW f, Like(s, f)
    PROVE  Like(Shifted(s), Shifted(f))
<1>1. ASSUME NEW p \in Cells, p < SIZE - WIDTH
      PROVE  p + WIDTH \in Cells /\ p + WIDTH \notin Corners
  BY <1>1, SizeFacts DEF Cells, Corners
<1>2. DOMAIN Shifted(s) = Cells /\ DOMAIN Shifted(f) = Cells
  BY DEF Shifted
<1>3. ASSUME NEW p \in Cells PROVE Shifted(s)[p] = Shifted(f)[p]
  BY <1>1 DEF Like, Shifted
<1> QED BY <1>2, <1>3 DEF Like

\* The digit changes nothing else.
LEMMA LikeSpun ==
    ASSUME NEW s, NEW f, Like(s, f), NEW p \in Corners
    PROVE  Like(Stored(s, p, DIGIT), f)
BY DEF Like, Stored

LEMMA ShownCells == ASSUME NEW t PROVE DOMAIN Shown(t) = Cells
BY DEF Shown

(***************************************************************************)
(* In the middle of ktty_putc, undisturbed, the screen is on its way from  *)
(* what was printed before, o, to what has been printed with c.            *)
(***************************************************************************)
Places == {"next", "store", "inc_load", "inc_store", "nl_load", "nl_store", "nl_first",
           "nl_second", "nl_round", "check", "copy", "reset"}
NlPlaces == {"nl_load", "nl_store", "nl_first", "nl_second", "nl_round"}

Underway(o) ==
    /\ place \in {"store", "inc_load", "inc_store"} => c # NL
    /\ place \in NlPlaces => c = NL
    /\ place \in {"store"} \cup NlPlaces => Like(screen, Shown(o))
    /\ place \in {"inc_load", "inc_store", "check", "copy"} =>
         Like(screen, PutOn(Shown(o), Pos(o), c))
    /\ place = "reset" => Like(screen, Shifted(PutOn(Shown(o), Pos(o), c)))
    /\ place \in {"store", "inc_load", "inc_store", "nl_load", "nl_store"} =>
         screen_pos = Pos(o)
    /\ place \in {"inc_store", "nl_store"} => a = Pos(o)
    /\ place \in {"nl_first", "nl_second"} => screen_pos = Pos(o) + WIDTH
    /\ place = "nl_second" => a = Pos(o) + WIDTH
    /\ place = "nl_round" => a = After(Pos(o), c)
    /\ place \in {"check", "copy"} => screen_pos = After(Pos(o), c)
    /\ place \in {"copy", "reset"} => After(Pos(o), c) >= SIZE

Middle == \E o : IsText(o) /\ Extends(out, o, c) /\ Underway(o)

Matches == Like(screen, Shown(out)) /\ screen_pos = Pos(out)

ScreenInv ==
    /\ place \in Places
    /\ IsText(out)
    /\ ~torn /\ place = "next" => Matches
    /\ ~torn /\ place # "next" => Middle

\* ktty_clear shows the empty paper.
LEMMA ScreenInit == ConsoleInit => ScreenInv
<1> SUFFICES ASSUME ConsoleInit PROVE ScreenInv
  OBVIOUS
<1>1. out = <<>> /\ place = "next" /\ screen_pos = 0
      /\ screen = [p \in Cells |-> BLANK]
  BY DEF ConsoleInit
<1>2. IsText(out) /\ Len(out) = 0
  <2>1. <<>> \in Seq({}) /\ Len(<<>>) = 0
    OBVIOUS
  <2> QED BY <2>1, <1>1 DEF IsText
<1>3. Cursor(out)[0] = 0
  BY <1>2, CursorFollows
<1>4. 0 \div WIDTH = 0
  <2>1. 0 * WIDTH = 0
    BY SizeFacts
  <2> QED BY <2>1, RowIs, SizeFacts
<1>5. Top(out) = 0
  BY <1>2, <1>3, <1>4, ConsoleAssumption DEF Top
<1>6. Pos(out) = 0
  BY <1>2, <1>3, <1>5, SizeFacts DEF Pos
<1>7. \A p : Here(out, p) = {}
  BY <1>2 DEF Here
<1>8. Shown(out) = [p \in Cells |-> BLANK]
  <2>1. Shown(out) = [p \in Cells |-> Cell(out, p)]
    BY DEF Shown, Cell, Here
  <2>2. \A p : Cell(out, p) = BLANK
    BY <1>7 DEF Cell
  <2> QED BY <2>1, <2>2
<1>9. Like(screen, Shown(out))
  BY <1>1, <1>8, LikeItself
<1> QED BY <1>1, <1>2, <1>6, <1>9 DEF ScreenInv, Places, Matches

\* ktty_putc as a whole, from a screen that shows t to one that shows t with ch.
LEMMA PutcShows ==
    ASSUME NEW t, IsText(t), NEW ch, NEW u, Extends(u, t, ch),
           NEW s, s = PutOn(Shown(t), Pos(t), ch)
    PROVE  /\ After(Pos(t), ch) >= SIZE => Shown(u) = Shifted(s) /\ Pos(u) = SIZE - WIDTH
           /\ ~(After(Pos(t), ch) >= SIZE) => Shown(u) = s /\ Pos(u) = After(Pos(t), ch)
BY ShownAppend, TopAppend

LEMMA PutcScreen == ScreenInv /\ Putc => ScreenInv'
<1> SUFFICES ASSUME ScreenInv, Putc PROVE ScreenInv'
  OBVIOUS
<1>0. torn' = torn
  BY DEF Putc, Fetch, Store, IncLoad, Load, IncStore, SetPos, NlLoad, NlStore, NlFirst,
         NlSecond, NlRound, Check, ShiftCopy, ShiftReset, Step
<1>1. CASE Fetch
  <2>1. /\ place = "next" /\ place' = IF c' = NL THEN "nl_load" ELSE "store"
        /\ out' = Append(out, c') /\ screen' = screen /\ screen_pos' = screen_pos
    BY <1>1 DEF Fetch, Step
  <2>2. IsText(out) /\ Extends(out', out, c')
    BY <2>1, CursorAppend DEF ScreenInv
  <2>3. IsText(out')
    BY <2>2 DEF Extends
  <2>4. ASSUME ~torn PROVE Middle'
    <3>1. Like(screen', Shown(out)) /\ screen_pos' = Pos(out)
      BY <2>1, <2>4 DEF ScreenInv, Matches
    <3>2. PICK o : o = out
      OBVIOUS
    <3>3. Underway(o)'
      BY <2>1, <3>1, <3>2 DEF Underway, NlPlaces
    <3> QED BY <2>2, <3>2, <3>3 DEF Middle
  <2> QED BY <2>1, <2>3, <2>4, <1>0 DEF ScreenInv, Places
<1>2. ASSUME out' = out, c' = c, place # "next", place' \in Places,
             \A o : IsText(o) /\ Extends(out, o, c) /\ Underway(o) =>
                      IF place' = "next" THEN Matches' ELSE Underway(o)'
      PROVE  ScreenInv'
  <2>1. IsText(out')
    BY <1>2 DEF ScreenInv
  <2>2. ASSUME ~torn PROVE IF place' = "next" THEN Matches' ELSE Middle'
    <3>1. PICK o : IsText(o) /\ Extends(out, o, c) /\ Underway(o)
      BY <2>2, <1>2 DEF ScreenInv, Middle
    <3> QED BY <3>1, <1>2 DEF Middle
  <2> QED BY <2>1, <2>2, <1>0, <1>2 DEF ScreenInv
<1>3. CASE Store
  <2>1. /\ place = "store" /\ place' = "inc_load" /\ out' = out /\ c' = c
        /\ screen' = Stored(screen, screen_pos, c) /\ screen_pos' = screen_pos
    BY <1>3 DEF Store, Step
  <2>2. ASSUME NEW o, Underway(o) PROVE Underway(o)'
    <3>1. /\ Like(screen, Shown(o)) /\ screen_pos = Pos(o) /\ c # NL
      BY <2>1, <2>2 DEF Underway, NlPlaces
    <3>2. Like(screen', PutOn(Shown(o), Pos(o), c))
      BY <3>1, <2>1, LikeStored DEF PutOn
    <3> QED BY <3>1, <3>2, <2>1 DEF Underway, NlPlaces
  <2> QED BY <2>1, <2>2, <1>2 DEF Places
<1>4. CASE IncLoad \/ IncStore \/ NlLoad \/ NlStore \/ NlFirst
  <2>1. out' = out /\ c' = c /\ screen' = screen /\ place # "next"
    BY <1>4 DEF IncLoad, Load, IncStore, SetPos, NlLoad, NlStore, NlFirst, Step
  <2>2. place' \in Places \ {"next"}
    BY <1>4 DEF IncLoad, Load, IncStore, SetPos, NlLoad, NlStore, NlFirst, Step, Places
  <2>3. ASSUME NEW o, Underway(o) PROVE Underway(o)'
    <3>1. CASE IncLoad \/ IncStore
      BY <3>1, <2>1, <2>3 DEF Underway, NlPlaces, IncLoad, Load, IncStore, SetPos, Step, After
    <3>2. CASE NlLoad \/ NlStore \/ NlFirst
      BY <3>2, <2>1, <2>3 DEF Underway, NlPlaces, NlLoad, NlStore, NlFirst, Load, SetPos, Step
    <3> QED BY <1>4, <3>1, <3>2
  <2> QED BY <2>1, <2>2, <2>3, <1>2
<1>5. CASE NlSecond \/ NlRound
  <2>1. out' = out /\ c' = c /\ screen' = screen /\ place # "next"
    BY <1>5 DEF NlSecond, NlRound, Load, SetPos, Step
  <2>2. place' \in Places \ {"next"}
    BY <1>5 DEF NlSecond, NlRound, Load, SetPos, Step, Places
  <2>3. ASSUME NEW o, Underway(o) PROVE Underway(o)'
    <3>1. CASE NlSecond
      BY <3>1, <2>1, <2>3 DEF Underway, NlPlaces, NlSecond, Load, Step, After
    <3>2. CASE NlRound
      BY <3>2, <2>1, <2>3 DEF Underway, NlPlaces, NlRound, SetPos, Step, PutOn
    <3> QED BY <1>5, <3>1, <3>2
  <2> QED BY <2>1, <2>2, <2>3, <1>2
<1>6. CASE Check
  <2>1. /\ place = "check" /\ place' = IF screen_pos >= SIZE THEN "copy" ELSE "next"
        /\ out' = out /\ c' = c /\ screen' = screen /\ screen_pos' = screen_pos
    BY <1>6 DEF Check, Step
  <2>2. ASSUME NEW o, IsText(o), Extends(out, o, c), Underway(o)
        PROVE  IF place' = "next" THEN Matches' ELSE Underway(o)'
    <3>1. Like(screen, PutOn(Shown(o), Pos(o), c)) /\ screen_pos = After(Pos(o), c)
      BY <2>1, <2>2 DEF Underway
    <3>2. CASE screen_pos >= SIZE
      BY <3>1, <3>2, <2>1 DEF Underway, NlPlaces
    <3>3. CASE ~(screen_pos >= SIZE)
      <4>1. Shown(out) = PutOn(Shown(o), Pos(o), c) /\ Pos(out) = screen_pos
        BY <3>1, <3>3, <2>2, PutcShows
      <4> QED BY <4>1, <3>1, <3>3, <2>1 DEF Matches
    <3> QED BY <3>2, <3>3
  <2> QED BY <2>1, <2>2, <1>2 DEF Places
<1>7. CASE ShiftCopy
  <2>1. /\ place = "copy" /\ place' = "reset" /\ screen' = Shifted(screen)
        /\ out' = out /\ c' = c
    BY <1>7 DEF ShiftCopy, Step
  <2>2. ASSUME NEW o, Underway(o) PROVE Underway(o)'
    <3>1. /\ Like(screen, PutOn(Shown(o), Pos(o), c)) /\ After(Pos(o), c) >= SIZE
      BY <2>1, <2>2 DEF Underway
    <3>2. Like(screen', Shifted(PutOn(Shown(o), Pos(o), c)))
      BY <3>1, <2>1, LikeShifted
    <3> QED BY <3>1, <3>2, <2>1 DEF Underway, NlPlaces
  <2> QED BY <2>1, <2>2, <1>2 DEF Places
<1>8. CASE ShiftReset
  <2>1. /\ place = "reset" /\ place' = "next" /\ screen_pos' = SIZE - WIDTH
        /\ out' = out /\ c' = c /\ screen' = screen
    BY <1>8 DEF ShiftReset, SetPos, Step
  <2>2. ASSUME NEW o, IsText(o), Extends(out, o, c), Underway(o)
        PROVE  Matches'
    <3>1. /\ Like(screen, Shifted(PutOn(Shown(o), Pos(o), c)))
          /\ After(Pos(o), c) >= SIZE
      BY <2>1, <2>2 DEF Underway
    <3>2. /\ Shown(out) = Shifted(PutOn(Shown(o), Pos(o), c))
          /\ Pos(out) = SIZE - WIDTH
      BY <3>1, <2>2, PutcShows
    <3> QED BY <3>1, <3>2, <2>1 DEF Matches
  <2> QED BY <2>1, <2>2, <1>2 DEF Places
<1> QED BY <1>1, <1>3, <1>4, <1>5, <1>6, <1>7, <1>8 DEF Putc

LEMMA ScreenStep == ScreenInv /\ [ConsoleNext]_consoleVars => ScreenInv'
<1> SUFFICES ASSUME ScreenInv, [ConsoleNext]_consoleVars PROVE ScreenInv'
  OBVIOUS
<1>1. CASE Putc
  BY <1>1, PutcScreen
<1>2. ASSUME NEW ch, Key(ch) PROVE ScreenInv'
  <2> DEFINE s == PutOn(screen, screen_pos, ch)
             p == After(screen_pos, ch)
  <2>1. /\ place' = place /\ out' = Append(out, ch)
        /\ torn' = (torn \/ place # "next")
        /\ screen' = IF p >= SIZE THEN Shifted(s) ELSE s
        /\ screen_pos' = IF p >= SIZE THEN SIZE - WIDTH ELSE p
    BY <1>2 DEF Key, PutOn
  <2>2. IsText(out) /\ Extends(out', out, ch)
    BY <2>1, CursorAppend DEF ScreenInv
  <2>3. IsText(out')
    BY <2>2 DEF Extends
  <2>4. ASSUME ~torn' PROVE place = "next" /\ Matches'
    <3>1. ~torn /\ place = "next"
      BY <2>1, <2>4
    <3>2. Like(screen, Shown(out)) /\ screen_pos = Pos(out)
      BY <3>1 DEF ScreenInv, Matches
    <3> DEFINE shown == PutOn(Shown(out), Pos(out), ch)
    <3>3. /\ Shown(out') = IF p >= SIZE THEN Shifted(shown) ELSE shown
          /\ Pos(out') = screen_pos'
      BY <3>2, <2>1, <2>2, PutcShows
    <3>4. Like(s, shown) /\ Like(Shifted(s), Shifted(shown))
      BY <3>2, LikePut, LikeShifted
    <3>5. Matches'
      BY <3>3, <3>4, <2>1 DEF Matches
    <3> QED BY <3>1, <3>5
  <2> QED BY <2>1, <2>3, <2>4 DEF ScreenInv
<1>3. CASE Puts(text') \/ UNCHANGED consoleVars
  <2>1. /\ screen' = screen /\ screen_pos' = screen_pos /\ place' = place /\ c' = c
        /\ a' = a /\ out' = out /\ torn' = torn
    BY <1>3 DEF Puts, consoleVars
  <2>2. \A o : Underway(o)' <=> Underway(o)
    BY <2>1 DEF Underway
  <2>3. (Middle' <=> Middle) /\ (Matches' <=> Matches)
    BY <2>1, <2>2 DEF Middle, Matches
  <2> QED BY <2>1, <2>3 DEF ScreenInv
<1>4. ASSUME NEW p \in Corners, Spin(p) PROVE ScreenInv'
  <2>1. /\ screen' = Stored(screen, p, DIGIT)
        /\ screen_pos' = screen_pos /\ place' = place /\ c' = c
        /\ a' = a /\ out' = out /\ torn' = torn
    BY <1>4 DEF Spin
  <2>2. \A f : Like(screen, f) => Like(screen', f)
    BY <2>1, LikeSpun
  <2>3. \A o : Underway(o) => Underway(o)'
    BY <2>1, <2>2 DEF Underway
  <2>4. (Middle => Middle') /\ (Matches => Matches')
    BY <2>1, <2>2, <2>3 DEF Middle, Matches
  <2> QED BY <2>1, <2>4 DEF ScreenInv
<1> QED BY <1>1, <1>2, <1>3, <1>4 DEF ConsoleNext

\* Unless a key fell into the middle of a ktty_putc, the screen shows the last
\* rows of all that was printed, on screens of every size, but for the digits
\* that two tasks store in the corners (ktty.c: storing, counting and shifting,
\* with the position tested only after the store; kernel.c:101, 123).
THEOREM ConsoleShowsOutput == ConsoleSpec => []ScreenShowsOutput
<1>1. ScreenInv => ScreenShowsOutput
  BY DEF ScreenInv, ScreenShowsOutput, Matches, Like, Pos
<1> QED BY <1>1, ScreenInit, ScreenStep, PTL DEF ConsoleSpec

(***************************************************************************)
(* The program on the console                                              *)
(***************************************************************************)
LEMMA LoadIsConsoleStep == LoadStep => [ConsoleNext]_consoleVars
<1> USE DEF ConsoleNext, Say, Silent
<1>1. CASE Read
  BY <1>1 DEF Read, Puts
<1>2. CASE CheckHeader
  BY <1>2 DEF CheckHeader, Puts
<1>3. CASE \E u \in UNDEF : Stage1(u)
  BY <1>3 DEF Stage1, Puts
<1>4. CASE SkipSegment \/ AllocSegment \/ ZeroSegment \/ CopySegment \/ SegmentsDone
  BY <1>4 DEF SkipSegment, AllocSegment, ZeroSegment, CopySegment, SegmentsDone
<1>5. CASE NextSection
  BY <1>5, SMTT(30) DEF NextSection, Puts
<1>6. CASE \E u \in UNDEF : Relocate(u)
  BY <1>6 DEF Relocate, Puts
<1>7. CASE RelocsDone
  BY <1>7 DEF RelocsDone
<1>8. QED
  BY <1>1, <1>2, <1>3, <1>4, <1>5, <1>6, <1>7 DEF LoadStep

LEMMA CallIsConsoleStep == SystemCall => [ConsoleNext]_consoleVars
<1> USE DEF ConsoleNext
<1>1. CASE CallUnknown \/ CallBefore
  BY <1>1 DEF CallUnknown, CallBefore, Silent, Puts
<1>2. CASE CallExit \/ CallWriteWild
  BY <1>2 DEF CallExit, CallWriteWild, Puts
<1>3. CASE \E nr \in 0 .. 18 : CallStub(nr)
  BY <1>3 DEF CallStub, Puts
<1>4. CASE \E t \in BUFFERS : \E u \in UNDEF : CallTestOut(t, u)
  BY <1>4 DEF CallTestOut, Puts
<1>5. CASE \E t \in BUFFERS : \E fd \in -1 .. (MAX_OPEN_FILES - 1) : CallWrite(fd, t)
  BY <1>5 DEF CallWrite, TtyWrite, Puts
<1>6. QED
  BY <1>1, <1>2, <1>3, <1>4, <1>5 DEF SystemCall

LEMMA StepIsConsoleStep == [Next]_vars => [ConsoleNext]_consoleVars
<1> SUFFICES ASSUME [Next]_vars PROVE [ConsoleNext]_consoleVars
  OBVIOUS
<1>1. CASE Printing
  BY <1>1 DEF Printing, ConsoleNext
<1>2. CASE Loading
  BY <1>2, LoadIsConsoleStep DEF Loading
<1>3. CASE StartProcess
  BY <1>3 DEF StartProcess, Silent
<1>4. CASE EnterProgram \/ Return
  BY <1>4 DEF EnterProgram, Return, Puts, ConsoleNext
<1>5. CASE SystemCall
  BY <1>5, CallIsConsoleStep
<1>6. CASE Pressed
  BY <1>6 DEF Pressed, ConsoleNext
<1>7. CASE Tick \/ SpinRight
  BY <1>7 DEF Tick, SpinRight, ConsoleNext, Corners
<1>8. CASE Forget
  BY <1>8 DEF Forget, Evict
<1>9. CASE Idle \/ UNCHANGED vars
  BY <1>9 DEF Idle, vars
<1>10. QED
  BY <1>1, <1>2, <1>3, <1>4, <1>5, <1>6, <1>7, <1>8, <1>9 DEF Next, Run

\* The loader's messages, the calls of the program and the keyboard use the
\* console only as ktty.c offers it; what else is stored into the screen are the
\* digits in two corners (kernel.c:101, 123).
THEOREM ProgramImplementsConsole == Spec => ConsoleSpec
<1>1. Init => ConsoleInit
  BY DEF Init
<1>2. QED
  BY <1>1, StepIsConsoleStep, PTL DEF Spec, ConsoleSpec

\* While programs are loaded and run no store goes further than a row behind
\* the screen.
THEOREM ProgramStoresNearScreen == Spec => []StoresNearScreen
BY ProgramImplementsConsole, ConsoleStoresNearScreen, PTL

\* While programs are loaded and run the screen shows what was printed, but for
\* the digits of the two tasks of kernel_run.
THEOREM ProgramShowsOutput == Spec => []ScreenShowsOutput
BY ProgramImplementsConsole, ConsoleShowsOutput, PTL

(***************************************************************************)
(* StartedWhole.  The relocations left of the loop counters of stage 2     *)
(* have been handled, so all of them have when the loop ends.              *)
(***************************************************************************)
Before == {"found", "check", "stage1", "segments", "zero", "copy"}
Running == {"loaded", "starting", "user", "call", "exited", "wild"}
Stopped == {"refused", "failed", "fault"}

Handled ==
    /\ sec \in Nat /\ rel \in Nat
    /\ \A i \in DOMAIN file.secs : i < sec => KnownOnly(file.secs[i])
    /\ \A i \in DOMAIN file.secs : i = sec /\ HasRels(file.secs[i]) =>
         \A k \in DOMAIN file.secs[i].rels : k < rel => file.secs[i].rels[k].type \in KnownTypes

WholeInv ==
    /\ file \in FILES
    /\ stage \in Before \cup {"relocs"} \cup Running \cup Stopped
    /\ ~Supported(file) => frames = <<>> /\ stage \in {"found", "check", "refused"}
    /\ stage \in Before => sec = 1 /\ rel = 1
    /\ stage = "relocs" => Handled
    /\ stage \in Running => /\ file.entry # 0
                            /\ \A i \in DOMAIN file.secs : KnownOnly(file.secs[i])

\* The tables of a file are sequences.
LEMMA FileFacts ==
    ASSUME NEW f \in FILES
    PROVE /\ Len(f.secs) \in Nat /\ DOMAIN f.secs = 1 .. Len(f.secs)
          /\ \A i \in DOMAIN f.secs : /\ Len(f.secs[i].rels) \in Nat
                                      /\ DOMAIN f.secs[i].rels = 1 .. Len(f.secs[i].rels)
BY LoaderAssumption DEF LoaderAssumption, IsArray

LEMMA WholeInit == Init => WholeInv
BY DEF Init, LoaderInit, WholeInv, Before, Running, Stopped

\* Before the loop of stage 2 nothing is left of its counters.
LEMMA HandledNone ==
    ASSUME file \in FILES, sec = 1, rel = 1 PROVE Handled
BY FileFacts DEF Handled

LEMMA WholeLoad == WholeInv /\ LoadStep => WholeInv'
<1> SUFFICES ASSUME WholeInv, LoadStep PROVE WholeInv'
  OBVIOUS
<1> USE DEF WholeInv, Before, Running, Stopped, GoOn
<1>1. CASE Read \/ CheckHeader \/ (\E u \in UNDEF : Stage1(u))
  <2>1. file' = file /\ sec' = sec /\ rel' = rel /\ frames' = frames
        /\ stage \in {"found", "check", "stage1"}
        /\ stage' \in {"check", "refused", "segments", "stage1", "failed", "relocs"}
        /\ (stage' # "check" /\ ~Supported(file) => stage' = "refused" \/ stage = "stage1")
    BY <1>1 DEF Read, CheckHeader, Stage1
  <2>2. Handled
    BY <2>1, HandledNone
  <2>3. Handled'
    BY <2>1, <2>2 DEF Handled
  <2>4. Supported(file') = Supported(file)
    BY <2>1
  <2>5. QED
    BY <2>1, <2>3, <2>4
<1>2. CASE SkipSegment \/ AllocSegment \/ ZeroSegment \/ CopySegment \/ SegmentsDone
  <2>1. file' = file /\ sec' = sec /\ rel' = rel
        /\ stage \in {"segments", "zero", "copy"}
        /\ stage' \in {"segments", "zero", "copy", "relocs", "fault"}
    BY <1>2 DEF SkipSegment, AllocSegment, ZeroSegment, CopySegment, SegmentsDone
  <2>2. Handled
    BY <2>1, HandledNone
  <2>3. Handled'
    BY <2>1, <2>2 DEF Handled
  <2>4. Supported(file)
    BY <2>1
  <2>5. QED
    BY <2>1, <2>3, <2>4
<1>3. CASE NextSection
  <2>1. /\ stage = "relocs" /\ stage' = stage /\ file' = file
        /\ sec <= Len(file.secs) /\ sec' = sec + 1 /\ rel' = 1
        /\ HasRels(file.secs[sec]) => rel > Len(file.secs[sec].rels)
    BY <1>3 DEF NextSection, Section
  <2>2. Supported(file) /\ Handled
    BY <2>1
  <2>3. sec \in DOMAIN file.secs => KnownOnly(file.secs[sec])
    BY <2>1, <2>2, FileFacts DEF Handled, KnownOnly
  <2>4. \A i \in DOMAIN file.secs : i < sec + 1 => KnownOnly(file.secs[i])
    BY <2>2, <2>3, FileFacts DEF Handled
  <2>5. Handled'
    BY <2>1, <2>2, <2>4, FileFacts, SMTT(30) DEF Handled
  <2>6. QED
    BY <2>1, <2>2, <2>5
<1>4. CASE \E u \in UNDEF : Relocate(u)
  <2>1. /\ stage = "relocs" /\ stage' \in {"relocs", "failed", "fault"}
        /\ file' = file /\ sec' = sec /\ rel' = rel + 1
        /\ stage' = "relocs" => file.secs[sec].rels[rel].type \in KnownTypes
    BY <1>4 DEF Relocate, Section
  <2>2. Supported(file) /\ Handled
    BY <2>1
  <2>3. stage' = "relocs" => Handled'
    BY <2>1, <2>2, FileFacts DEF Handled
  <2>4. QED
    BY <2>1, <2>2, <2>3
<1>5. CASE RelocsDone
  <2>1. /\ stage = "relocs" /\ file' = file /\ sec > Len(file.secs)
        /\ stage' = IF file.entry = 0 THEN "failed" ELSE "loaded"
    BY <1>5 DEF RelocsDone
  <2>2. Supported(file) /\ Handled
    BY <2>1
  <2>3. \A i \in DOMAIN file.secs : KnownOnly(file.secs[i])
    BY <2>1, <2>2, FileFacts DEF Handled
  <2>4. QED
    BY <2>1, <2>2, <2>3
<1>6. QED
  BY <1>1, <1>2, <1>3, <1>4, <1>5 DEF LoadStep

LEMMA WholeStep == WholeInv /\ [Next]_vars => WholeInv'
<1> SUFFICES ASSUME WholeInv, [Next]_vars PROVE WholeInv'
  OBVIOUS
<1>1. CASE Loading
  BY <1>1, WholeLoad DEF Loading
<1>2. CASE Printing \/ Pressed \/ Tick \/ SpinRight \/ Forget \/ Idle \/ UNCHANGED vars
  <2>1. file' = file /\ stage' = stage /\ sec' = sec /\ rel' = rel /\ frames' = frames
    BY <1>2 DEF Printing, Pressed, Tick, SpinRight, Forget, Evict, Idle, vars, loaderVars
  <2>2. QED
    BY <2>1 DEF WholeInv, Handled
<1>3. CASE StartProcess \/ EnterProgram \/ Return \/ SystemCall
  <2>1. file' = file /\ stage \in Running /\ stage' \in Running \cup {"fault"}
    BY <1>3 DEF StartProcess, EnterProgram, Return, SystemCall, CallBefore, CallUnknown,
       CallExit, CallWriteWild, CallStub, CallTestOut, CallWrite, TtyWrite, Enter, GoOn, loaderVars, Running
  <2>2. Supported(file)
    BY <2>1 DEF WholeInv, Running
  <2>3. QED
    BY <2>1, <2>2 DEF WholeInv, Running, Before, Stopped
<1>4. QED
  BY <1>1, <1>2, <1>3 DEF Next, Run

\* start_process enters a program only if its header was accepted, all its
\* relocations were of known types and it has an entry point, for every file.
THEOREM ProgramStartedWhole == Spec => []StartedWhole
<1>1. WholeInv => StartedWhole
  BY DEF WholeInv, StartedWhole, Running
<1>2. QED
  BY <1>1, WholeInit, WholeStep, PTL DEF Spec

(***************************************************************************)
(* The image of a program.                                                 *)
(***************************************************************************)
\* Pages: x lies in page PageOf(x), and in no other.
LEMMA PageFacts ==
    ASSUME NEW x \in Nat
    PROVE  /\ PageOf(x) \in Nat /\ PageOf(x) * PAGE \in Nat
           /\ PageOf(x) * PAGE <= x /\ x < PageOf(x) * PAGE + PAGE
           /\ x % PAGE = x - PageOf(x) * PAGE /\ x % PAGE \in 0 .. (PAGE - 1)
BY LoaderAssumption DEF LoaderAssumption, PageOf

LEMMA PagesApart ==
    ASSUME NEW q \in Nat, NEW r \in Nat, q < r
    PROVE  /\ q * PAGE \in Nat /\ r * PAGE \in Nat
           /\ q * PAGE + PAGE <= r * PAGE
<1>0. PAGE \in Nat /\ PAGE > 0
  BY LoaderAssumption DEF LoaderAssumption
<1>1. r - q - 1 \in Nat
  OBVIOUS
<1>2. (r - q - 1) * PAGE \in Nat /\ q * PAGE \in Nat /\ r * PAGE \in Nat
  <2>1. \A y, z \in Nat : y * z \in Nat
    OBVIOUS
  <2> QED BY <1>0, <1>1, <2>1
<1>3. r * PAGE = q * PAGE + PAGE + (r - q - 1) * PAGE
  BY <1>0
<1> QED BY <1>0, <1>2, <1>3

\* A page that starts at or before x is not behind x's page.
LEMMA PageBefore ==
    ASSUME NEW x \in Nat, NEW q \in Nat, q * PAGE <= x
    PROVE  q <= PageOf(x)
<1>1. PICK r : r = PageOf(x)
  OBVIOUS
<1>2. r \in Nat /\ r * PAGE \in Nat /\ x < r * PAGE + PAGE
  BY <1>1, PageFacts
<1>3. ~(r < q)
  <2> SUFFICES ASSUME r < q PROVE FALSE
    OBVIOUS
  <2>1. q * PAGE \in Nat /\ r * PAGE + PAGE <= q * PAGE
    BY <1>2, PagesApart
  <2>2. PICK qw, rw : qw = q * PAGE /\ rw = r * PAGE
    OBVIOUS
  <2>3. qw \in Nat /\ rw \in Nat /\ rw + PAGE <= qw /\ qw <= x /\ x < rw + PAGE
    BY <2>1, <2>2, <1>2
  <2> QED BY <2>3, LoaderAssumption DEF LoaderAssumption
<1> QED BY <1>1, <1>2, <1>3

LEMMA PageMonotone ==
    ASSUME NEW x \in Nat, NEW y \in Nat, x <= y
    PROVE  PageOf(x) <= PageOf(y)
<1>1. PageOf(x) \in Nat /\ PageOf(x) * PAGE \in Nat /\ PageOf(x) * PAGE <= y
  BY PageFacts
<1> QED BY <1>1, PageBefore

\* Page and offset determine the address.
LEMMA SameCell ==
    ASSUME NEW x \in Nat, NEW y \in Nat, PageOf(x) = PageOf(y), x % PAGE = y % PAGE
    PROVE  x = y
<1>1. PICK w : w = PageOf(x) * PAGE
  OBVIOUS
<1>2. w \in Nat /\ x % PAGE = x - w /\ y % PAGE = y - w
  BY <1>1, PageFacts
<1> QED BY <1>2

\* A segment whose fields are numbers.
IsSegment(s) ==
    /\ s.vaddr \in Nat /\ s.memsz \in Nat
    /\ Len(s.data) \in Nat /\ DOMAIN s.data = 1 .. Len(s.data)
    /\ Len(s.data) <= s.memsz
    /\ \A j \in DOMAIN s.data : s.data[j] \in Int

LEMMA SegmentFacts ==
    ASSUME NEW f \in FILES
    PROVE  /\ Len(f.segs) \in Nat /\ DOMAIN f.segs = 1 .. Len(f.segs)
           /\ \A i \in DOMAIN f.segs : IsSegment(f.segs[i])
           /\ Loads(f) \subseteq 1 .. Len(f.segs)
<1>1. IsArray(f.segs) /\ \A i \in DOMAIN f.segs : LET s == f.segs[i] IN
              /\ s.vaddr \in Nat /\ s.memsz \in Nat
              /\ IsArray(s.data) /\ Len(s.data) <= s.memsz
              /\ \A j \in DOMAIN s.data : s.data[j] \in Int
  BY LoaderAssumption DEF LoaderAssumption
<1> QED BY <1>1 DEF IsArray, IsSegment, Loads

\* The pages that hold a segment: those alloc_pages_user asks for lie there.
Around(s) == {p \in Nat : PageOf(s.vaddr) <= p /\ p <= PageOf(s.vaddr + s.memsz - 1)}

LEMMA InSegmentAround ==
    ASSUME NEW s, IsSegment(s), NEW x \in InSegment(s)
    PROVE  x \in Nat /\ PageOf(x) \in Around(s)
<1>1. x \in Nat /\ s.vaddr \in Nat /\ s.vaddr <= x /\ s.vaddr + s.memsz - 1 \in Nat
      /\ x <= s.vaddr + s.memsz - 1
  BY DEF IsSegment, InSegment
<1> QED BY <1>1, PageMonotone, PageFacts DEF Around

LEMMA PagesOfAround ==
    ASSUME NEW s, IsSegment(s), NEW p \in PagesOf(s)
    PROVE  p \in Around(s)
<1>1. PICK j \in 0 .. (PAGES - 1) :
         p = PageOf(s.vaddr) + j /\ (j * PAGE) < s.memsz + (s.vaddr % PAGE)
  BY DEF PagesOf
<1>2. PICK v, q, r : v = s.vaddr /\ q = PageOf(v) /\ r = v % PAGE
  OBVIOUS
<1>3. v \in Nat /\ s.memsz \in Nat /\ q \in Nat /\ r \in Nat /\ j \in Nat
      /\ q * PAGE \in Nat /\ r = v - q * PAGE /\ PAGE \in Nat
  <2>1. PAGES \in Nat /\ PAGE \in Nat
    BY LoaderAssumption DEF LoaderAssumption
  <2>2. v \in Nat /\ s.memsz \in Nat
    BY <1>2 DEF IsSegment
  <2>3. j \in Nat
    BY <2>1
  <2>4. q \in Nat /\ r = v - q * PAGE /\ q * PAGE \in Nat /\ r \in 0 .. (PAGE - 1)
    BY <2>2, <1>2, PageFacts
  <2> QED BY <2>1, <2>2, <2>3, <2>4
<1>4. PICK jw, qw : jw = j * PAGE /\ qw = q * PAGE
  OBVIOUS
<1>5. (q + j) * PAGE = qw + jw
  BY <1>3, <1>4
<1>6. jw \in Nat
  <2>1. \A y, z \in Nat : y * z \in Nat
    OBVIOUS
  <2> QED BY <1>3, <1>4, <2>1
<1>7. qw + jw < v + s.memsz /\ qw \in Nat
  BY <1>1, <1>2, <1>3, <1>4, <1>6
<1>8. v + s.memsz - 1 \in Nat /\ (q + j) * PAGE <= v + s.memsz - 1 /\ q + j \in Nat
  BY <1>3, <1>5, <1>6, <1>7
<1>9. q + j <= PageOf(v + s.memsz - 1)
  BY <1>8, PageBefore
<1> QED BY <1>1, <1>2, <1>3, <1>9 DEF Around

\* The pages asked for are consecutive.
LEMMA PagesOfInRow ==
    ASSUME NEW s, IsSegment(s)
    PROVE  \E k \in Nat : PagesOf(s) = {PageOf(s.vaddr) + i : i \in 0 .. (k - 1)}
<1> DEFINE L == s.memsz + (s.vaddr % PAGE)
           J == {j \in 0 .. (PAGES - 1) : (j * PAGE) < L}
           T == {j \in 0 .. (PAGES - 1) : ~((j * PAGE) < L)}
<1>1. PAGES \in Nat /\ PAGE \in Nat /\ L \in Nat
  <2>1. PAGES \in Nat /\ PAGE \in Nat
    BY LoaderAssumption DEF LoaderAssumption
  <2>2. s.vaddr \in Nat /\ s.memsz \in Nat
    BY DEF IsSegment
  <2>3. PICK v, r : v = s.vaddr /\ r = v % PAGE
    OBVIOUS
  <2>4. r \in 0 .. (PAGE - 1)
    BY <2>2, <2>3, PageFacts
  <2> QED BY <2>1, <2>2, <2>3, <2>4
<1> HIDE DEF L
<1>2. \E k \in Nat : J = 0 .. (k - 1)
  <2>1. CASE T = {}
    BY <2>1, <1>1
  <2>2. CASE T # {}
    <3>1. T \in SUBSET Nat
      BY <1>1
    <3> HIDE DEF T
    <3>2. PICK k \in T : \A j \in T : k <= j
      BY <3>1, <2>2, LeastNatural
    <3>3. k \in Nat /\ k \in 0 .. (PAGES - 1) /\ ~((k * PAGE) < L)
      BY <3>1, <3>2 DEF T
    <3>4. ASSUME NEW j \in 0 .. (PAGES - 1) PROVE j \in J <=> j < k
      <4>1. CASE j < k
        <5>1. j \notin T
          BY <4>1, <3>2, <3>3, <1>1
        <5> QED BY <5>1, <4>1 DEF T
      <4>2. CASE k <= j
        <5>1. k * PAGE \in Nat /\ j * PAGE \in Nat /\ k * PAGE <= j * PAGE
          <6>1. CASE k = j
            <7>1. \A y, z \in Nat : y * z \in Nat
              OBVIOUS
            <7>2. k * PAGE \in Nat
              BY <7>1, <3>3, <1>1
            <7> QED BY <7>2, <6>1
          <6>2. CASE k < j
            <7>1. k \in Nat /\ j \in Nat
              BY <3>3, <1>1
            <7>2. k * PAGE \in Nat /\ j * PAGE \in Nat /\ k * PAGE + PAGE <= j * PAGE
              BY <7>1, <6>2, PagesApart
            <7>3. PICK x, y : x = k * PAGE /\ y = j * PAGE
              OBVIOUS
            <7>4. x \in Nat /\ y \in Nat /\ x + PAGE <= y
              BY <7>2, <7>3
            <7> QED BY <7>3, <7>4, <1>1
          <6> QED BY <6>1, <6>2, <4>2, <3>3, <1>1
        <5>2. ~((j * PAGE) < L)
          <6>1. PICK x, y : x = k * PAGE /\ y = j * PAGE
            OBVIOUS
          <6>2. x \in Nat /\ y \in Nat /\ x <= y /\ ~(x < L)
            BY <5>1, <6>1, <3>3
          <6> QED BY <6>1, <6>2, <1>1
        <5> QED BY <5>2, <4>2, <3>3, <1>1
      <4> QED BY <4>1, <4>2, <3>3, <1>1
    <3> HIDE DEF J
    <3>5. J \subseteq 0 .. (PAGES - 1)
      BY DEF J
    <3>6. J = 0 .. (k - 1)
      <4>1. ASSUME NEW j \in J PROVE j \in 0 .. (k - 1)
        BY <3>3, <3>4, <3>5, <1>1
      <4>2. ASSUME NEW j \in 0 .. (k - 1) PROVE j \in J
        <5>1. j \in 0 .. (PAGES - 1) /\ j < k
          BY <3>3, <1>1
        <5> QED BY <5>1, <3>4
      <4> QED BY <4>1, <4>2
    <3> QED BY <3>3, <3>6
  <2> QED BY <2>1, <2>2
<1>3. PagesOf(s) = {PageOf(s.vaddr) + i : i \in J}
  BY DEF PagesOf, L
<1> QED BY <1>2, <1>3

\* In a plain program no page belongs to two segments.
LEMMA SegmentsApart ==
    ASSUME NEW f \in FILES, Plain(f), NEW i \in Loads(f), NEW j \in Loads(f), i # j,
           NEW p \in Around(f.segs[i])
    PROVE  p \notin Around(f.segs[j])
<1>1. i \in Nat /\ j \in Nat /\ i \in DOMAIN f.segs /\ j \in DOMAIN f.segs
  BY SegmentFacts
<1>2. \A k, l \in Loads(f) : k < l =>
         PageOf(f.segs[k].vaddr + f.segs[k].memsz - 1) < PageOf(f.segs[l].vaddr)
  BY DEF Plain
<1>3. ASSUME NEW k \in DOMAIN f.segs, NEW q \in Around(f.segs[k])
      PROVE  /\ q \in Nat /\ PageOf(f.segs[k].vaddr) <= q
             /\ q <= PageOf(f.segs[k].vaddr + f.segs[k].memsz - 1)
             /\ PageOf(f.segs[k].vaddr) \in Nat
             /\ PageOf(f.segs[k].vaddr + f.segs[k].memsz - 1) \in Int
  <2>1. f.segs[k].vaddr \in Nat /\ f.segs[k].memsz \in Nat
    BY SegmentFacts DEF IsSegment
  <2>2. PageOf(f.segs[k].vaddr) \in Nat
    BY <2>1, PageFacts
  <2>3. PageOf(f.segs[k].vaddr + f.segs[k].memsz - 1) \in Int
    BY <2>1, LoaderAssumption DEF PageOf, LoaderAssumption
  <2> QED BY <2>2, <2>3, <1>3 DEF Around
<1> SUFFICES ASSUME p \in Around(f.segs[j]) PROVE FALSE
  OBVIOUS
<1>4. PICK vi, vj, ei, ej : /\ vi = PageOf(f.segs[i].vaddr) /\ vj = PageOf(f.segs[j].vaddr)
                            /\ ei = PageOf(f.segs[i].vaddr + f.segs[i].memsz - 1)
                            /\ ej = PageOf(f.segs[j].vaddr + f.segs[j].memsz - 1)
  OBVIOUS
<1>5. vi \in Nat /\ vj \in Nat /\ ei \in Int /\ ej \in Int /\ p \in Nat
      /\ vi <= p /\ vj <= p /\ p <= ei /\ p <= ej
  BY <1>1, <1>3, <1>4
<1>6. ei < vj \/ ej < vi
  BY <1>1, <1>2, <1>4
<1> QED BY <1>5, <1>6

\* So an address belongs to one segment, and Linked reads it there.
LEMMA LinkedIs ==
    ASSUME NEW f \in FILES, Plain(f), NEW i \in Loads(f), NEW x \in InSegment(f.segs[i])
    PROVE  /\ Linked(f, x) = LET s == f.segs[i]
                             IN IF x - s.vaddr < Len(s.data) THEN s.data[x - s.vaddr + 1] ELSE 0
           /\ Linked(f, x) \in Int
<1> DEFINE k == CHOOSE j \in Loads(f) : x \in InSegment(f.segs[j])
<1>1. k \in Loads(f) /\ x \in InSegment(f.segs[k])
  OBVIOUS
<1>2. i \in DOMAIN f.segs /\ k \in DOMAIN f.segs
  BY <1>1 DEF Loads
<1>3. IsSegment(f.segs[i]) /\ IsSegment(f.segs[k])
  BY <1>2, SegmentFacts
<1>4. PageOf(x) \in Around(f.segs[i]) /\ PageOf(x) \in Around(f.segs[k])
  BY <1>1, <1>3, InSegmentAround
<1>5. k = i
  BY <1>1, <1>4, SegmentsApart
<1>6. Linked(f, x) = LET s == f.segs[k]
                     IN IF x - s.vaddr < Len(s.data) THEN s.data[x - s.vaddr + 1] ELSE 0
  BY DEF Linked
<1> HIDE DEF k
<1>7. PICK s : s = f.segs[i]
  OBVIOUS
<1>8. Linked(f, x) = IF x - s.vaddr < Len(s.data) THEN s.data[x - s.vaddr + 1] ELSE 0
  BY <1>5, <1>6, <1>7
<1>9. (IF x - s.vaddr < Len(s.data) THEN s.data[x - s.vaddr + 1] ELSE 0) \in Int
  <2>1. /\ s.vaddr \in Nat /\ x \in Int /\ s.vaddr <= x /\ Len(s.data) \in Nat
        /\ \A j \in 1 .. Len(s.data) : s.data[j] \in Int
    BY <1>3, <1>7 DEF IsSegment, InSegment
  <2>2. x - s.vaddr < Len(s.data) => x - s.vaddr + 1 \in 1 .. Len(s.data)
    BY <2>1
  <2> QED BY <2>1, <2>2
<1> QED BY <1>7, <1>8, <1>9

(***************************************************************************)
(* The base address.                                                       *)
(***************************************************************************)
\* Segments start in the order of the table, those before the last below 2^31.
LEMMA SegmentsInOrder ==
    ASSUME NEW f \in FILES, Plain(f), NEW i \in Loads(f), NEW j \in Loads(f), i < j
    PROVE  f.segs[i].vaddr <= f.segs[j].vaddr
<1>1. PICK v, m, w : v = f.segs[i].vaddr /\ m = f.segs[i].memsz /\ w = f.segs[j].vaddr
  OBVIOUS
<1>2. v \in Nat /\ m \in Nat /\ w \in Nat
  BY <1>1, SegmentFacts DEF IsSegment
<1>3. PageOf(v + m - 1) < PageOf(w)
  BY <1>1 DEF Plain
<1>4. ~(w < v)
  <2> SUFFICES ASSUME w < v PROVE FALSE
    OBVIOUS
  <2>1. v + m - 1 \in Nat /\ w <= v + m - 1
    BY <1>2
  <2>2. PageOf(w) <= PageOf(v + m - 1) /\ PageOf(w) \in Nat /\ PageOf(v + m - 1) \in Nat
    BY <2>1, <1>2, PageMonotone, PageFacts
  <2> QED BY <2>2, <1>3
<1> QED BY <1>1, <1>2, <1>4

LEMMA BaseIs ==
    ASSUME NEW f \in FILES, Plain(f), NEW j \in Loads(f), NEW x \in InSegment(f.segs[j])
    PROVE  Base(f) = LowestPage(f) /\ Base(f) \in Int
<1> DEFINE first == CHOOSE i \in Loads(f) : \A k \in Loads(f) : i <= k
           b == PageOf(f.segs[first].vaddr) * PAGE
<1>1. first \in Loads(f) /\ \A k \in Loads(f) : first <= k
  <2>1. Loads(f) \in SUBSET Nat
    BY SegmentFacts
  <2>2. \E i \in Loads(f) : \A k \in Loads(f) : i <= k
    BY <2>1, LeastNatural
  <2> QED BY <2>2
<1> HIDE DEF first
<1>2. ASSUME NEW k \in Loads(f) PROVE f.segs[first].vaddr <= f.segs[k].vaddr /\ k \in Nat
  <2>1. k \in Nat /\ first \in Nat /\ first <= k /\ f.segs[k].vaddr \in Nat
    BY <1>1, SegmentFacts DEF IsSegment, Loads
  <2>2. CASE first = k
    BY <2>1, <2>2
  <2>3. CASE first < k
    BY <2>1, <2>3, <1>1, SegmentsInOrder
  <2> QED BY <2>1, <2>2, <2>3
<1>3. PICK v : v = f.segs[first].vaddr
  OBVIOUS
<1>4. v \in Nat /\ b = v - (v % PAGE) /\ b \in Nat /\ b <= v
  <2>1. v \in Nat
    BY <1>1, <1>3, SegmentFacts DEF IsSegment, Loads
  <2>2. PICK r, w : r = v % PAGE /\ w = PageOf(v) * PAGE
    OBVIOUS
  <2>3. w \in Nat /\ w <= v /\ r = v - w
    BY <2>1, <2>2, PageFacts
  <2> QED BY <2>1, <2>2, <2>3, <1>3
<1>5. v < HALF \div 2
  <2>1. /\ f.segs[j].vaddr \in Nat /\ f.segs[j].memsz \in Nat
        /\ f.segs[j].vaddr <= x /\ x < f.segs[j].vaddr + f.segs[j].memsz /\ x \in Nat
    BY SegmentFacts DEF IsSegment, Loads, InSegment
  <2>2. f.segs[j].vaddr + f.segs[j].memsz <= HALF \div 2
    BY DEF Plain
  <2>3. HALF \div 2 \in Int
    BY LoaderAssumption DEF LoaderAssumption
  <2>4. v <= f.segs[j].vaddr
    BY <1>2, <1>3
  <2> QED BY <2>1, <2>2, <2>3, <2>4, <1>4
<1>6. Base(f) = ToInt(b)
  <2>1. f.type = "EXEC" /\ Loads(f) # {}
    BY DEF Plain
  <2>2. Base(f) = ToInt(f.segs[first].vaddr - (f.segs[first].vaddr % PAGE))
    BY <2>1 DEF Base, Loads, first
  <2> QED BY <2>2, <1>3, <1>4
<1>7. ToInt(b) = b
  <2>1. PICK h : h = HALF \div 2
    OBVIOUS
  <2>2. h \in Nat /\ HALF = 2 * h /\ HALF \in Nat /\ HALF > 0
    BY <2>1, LoaderAssumption DEF LoaderAssumption
  <2>3. PICK bb : bb = b
    OBVIOUS
  <2>4. bb \in Nat /\ bb < h
    BY <2>1, <2>2, <2>3, <1>4, <1>5
  <2>5. (bb + h) % HALF = bb + h
    <3>1. bb + h \in 0 .. (HALF - 1)
      BY <2>2, <2>4
    <3> QED BY <3>1, <2>2
  <2> QED BY <2>1, <2>2, <2>3, <2>4, <2>5 DEF ToInt
<1> DEFINE B == {PageOf(f.segs[i].vaddr) * PAGE : i \in Loads(f)}
           Low(c0) == \A i \in Loads(f) : c0 <= f.segs[i].vaddr
<1>8. b \in B /\ Low(b)
  <2>1. ASSUME NEW k \in Loads(f) PROVE b <= f.segs[k].vaddr
    <3>1. f.segs[k].vaddr \in Nat
      BY SegmentFacts DEF IsSegment, Loads
    <3>2. v <= f.segs[k].vaddr
      BY <1>2, <1>3
    <3>3. PICK bb : bb = b
      OBVIOUS
    <3>4. bb \in Nat /\ bb <= v
      BY <3>3, <1>4
    <3> QED BY <3>1, <3>2, <3>3, <3>4, <1>4
  <2> QED BY <1>1, <2>1
<1>9. ASSUME NEW c0 \in B, Low(c0) PROVE c0 = b
  <2>1. PICK k \in Loads(f) : c0 = PageOf(f.segs[k].vaddr) * PAGE
    BY <1>9
  <2>2. f.segs[k].vaddr \in Nat /\ v <= f.segs[k].vaddr /\ c0 <= v
    BY <1>1, <1>2, <1>3, <1>9, SegmentFacts DEF IsSegment, Loads
  <2>3. PICK q, r : q = PageOf(f.segs[k].vaddr) /\ r = PageOf(v)
    OBVIOUS
  <2>4. q \in Nat /\ r \in Nat /\ r <= q
    BY <2>2, <2>3, <1>4, PageFacts, PageMonotone
  <2>5. q <= r
    BY <2>1, <2>2, <2>3, <2>4, <1>4, PageBefore
  <2>6. q = r
    BY <2>4, <2>5
  <2> QED BY <2>1, <2>3, <2>6, <1>3
<1>10. LowestPage(f) = CHOOSE c0 \in B : Low(c0)
  BY DEF LowestPage
<1> HIDE DEF B, Low, b
<1>11. (CHOOSE c0 \in B : Low(c0)) = b
  BY <1>8, <1>9
<1> QED BY <1>4, <1>6, <1>7, <1>10, <1>11

(***************************************************************************)
(* The relocations.                                                        *)
(***************************************************************************)
LEMMA EntryFacts ==
    ASSUME NEW f \in FILES, NEW q \in Entries(f)
    PROVE  /\ q = <<q[1], q[2]>>
           /\ q[1] \in 1 .. Len(f.secs) /\ HasRels(f.secs[q[1]])
           /\ q[2] \in 1 .. Len(f.secs[q[1]].rels)
           /\ EntryAt(f, q).off \in Nat /\ EntryAt(f, q).addend \in Int
<1>1. PICK i \in {j \in DOMAIN f.secs : HasRels(f.secs[j])} :
         \E k \in DOMAIN f.secs[i].rels : q = <<i, k>>
  BY DEF Entries
<1>2. PICK k \in DOMAIN f.secs[i].rels : q = <<i, k>>
  BY <1>1
<1>3. i \in 1 .. Len(f.secs) /\ k \in 1 .. Len(f.secs[i].rels)
  BY <1>1, <1>2, FileFacts
<1>4. f.secs[i].rels[k].off \in Nat /\ f.secs[i].rels[k].addend \in Int
  BY <1>1, <1>2, LoaderAssumption DEF LoaderAssumption
<1> QED BY <1>1, <1>2, <1>3, <1>4 DEF EntryAt

LEMMA EntryIs ==
    ASSUME NEW f \in FILES, NEW n \in DOMAIN f.secs, HasRels(f.secs[n]),
           NEW k \in DOMAIN f.secs[n].rels
    PROVE  <<n, k>> \in Entries(f) /\ EntryAt(f, <<n, k>>) = f.secs[n].rels[k]
BY DEF Entries, EntryAt

\* The one relocation of an address decides what is expected there.
LEMMA ExpectedIs ==
    ASSUME NEW f \in FILES, Plain(f), NEW q \in Entries(f)
    PROVE  Expected(f, EntryAt(f, q).off) = Calculated(f, q, EntryAt(f, q).off)
<1>1. PICK x : x = EntryAt(f, q).off
  OBVIOUS
<1> DEFINE sites == {r \in Entries(f) : EntryAt(f, r).off = x}
<1>2. q \in sites
  BY <1>1
<1>3. \A r \in sites : r = q
  BY <1>1 DEF Plain
<1>4. Expected(f, x) = IF sites = {} THEN Linked(f, x)
                       ELSE Calculated(f, CHOOSE r \in sites : TRUE, x)
  BY DEF Expected
<1> HIDE DEF sites
<1>5. (CHOOSE r \in sites : TRUE) = q
  BY <1>2, <1>3
<1> QED BY <1>1, <1>2, <1>4, <1>5

LEMMA UpperHalf ==
    ASSUME NEW y \in Int
    PROVE  y - (y % HALF) = (y \div HALF) * HALF
BY LoaderAssumption DEF LoaderAssumption

\* elf64_do_rela stores what the table of elf.h says.
LEMMA RelocatedIs ==
    ASSUME file \in FILES, Plain(file), NEW q \in Entries(file),
           NEW x, x = EntryAt(file, q).off,
           NEW A, A = IF file.secs[q[1]].type = "REL" THEN Linked(file, x)
                      ELSE EntryAt(file, q).addend
    PROVE  /\ Relocated(EntryAt(file, q), x, Linked(file, x), 0, A) = Expected(file, x)
           /\ EntryAt(file, q).type = "NONE" => Expected(file, x) = Linked(file, x)
<1>1. PICK f : f = file
  OBVIOUS
<1>2. f \in FILES /\ Plain(f) /\ q \in Entries(f) /\ x = EntryAt(f, q).off
  BY <1>1
<1>3. PICK i \in Loads(f) : x \in InSegment(f.segs[i])
  BY <1>2 DEF Plain
<1>4. Linked(f, x) \in Int
  BY <1>2, <1>3, LinkedIs
<1>5. Base(f) = LowestPage(f) /\ Base(f) \in Int
  BY <1>2, <1>3, BaseIs
<1>6. x \in Nat /\ EntryAt(f, q).addend \in Int
  BY <1>2, EntryFacts
<1>7. A \in Int
  BY <1>1, <1>4, <1>6
<1>8. PICK L, r : L = Linked(f, x) /\ r = EntryAt(f, q)
  OBVIOUS
<1>9. Expected(f, x) = Calculated(f, q, x)
  BY <1>2, ExpectedIs
<1>10. Calculated(f, q, x) =
         CASE r.type = "64" -> A
           [] r.type = "PC32" -> (L \div HALF) * HALF + ((A - x) % HALF)
           [] r.type = "RELATIVE" -> LowestPage(f) + A
           [] r.type = "IRELATIVE" -> r.ifunc
           [] OTHER -> L
  BY <1>1, <1>8 DEF Calculated
<1>11. Relocated(r, x, L, 0, A) =
         CASE r.type = "64" -> 0 + A
           [] r.type = "PC32" -> L - (L % HALF) + ((0 + A - x) % HALF)
           [] r.type = "RELATIVE" -> Base(f) + A
           [] r.type = "IRELATIVE" -> r.ifunc
           [] OTHER -> L
  BY <1>1 DEF Relocated
<1>12. 0 + A = A /\ 0 + A - x = A - x
  BY <1>6, <1>7
<1>13. L - (L % HALF) = (L \div HALF) * HALF
  BY <1>4, <1>8, UpperHalf
<1>14. Relocated(r, x, L, 0, A) = Calculated(f, q, x)
  <2>1. r.type = "64" \/ r.type = "PC32" \/ r.type = "RELATIVE" \/ r.type = "IRELATIVE"
        \/ r.type \notin {"64", "PC32", "RELATIVE", "IRELATIVE"}
    OBVIOUS
  <2> QED BY <1>5, <1>10, <1>11, <1>12, <1>13, <2>1
<1>15. r.type = "NONE" => Calculated(f, q, x) = L
  BY <1>10
<1> QED BY <1>1, <1>8, <1>9, <1>14, <1>15

(***************************************************************************)
(* The invariant.  Every page in use has a frame of its own, which the     *)
(* translation buffer does not contradict; segments left of seg are        *)
(* complete; of the relocations those left of <<sec, rel>> are done.       *)
(***************************************************************************)
Pages == 0 .. (PAGES - 1)

MapInv ==
    /\ page_table \in [Pages -> Nat] /\ tlb \in [Pages -> Nat]
    /\ IsText(frames)
    /\ \A p \in Pages : tlb[p] \in {0, page_table[p]} /\ page_table[p] <= Len(frames)
    /\ \A p, q \in Pages : page_table[p] = page_table[q] /\ page_table[p] # 0 => p = q

InMemory(x, v) ==
    /\ PageOf(x) \in Pages /\ page_table[PageOf(x)] # 0
    /\ frames[page_table[PageOf(x)]][x % PAGE] = v

\* Every page in use belongs to a segment before the n-th.
UsedBelow(n) ==
    \A p \in Pages : page_table[p] # 0 =>
        \E i \in Loads(file) : i < n /\ p \in Around(file.segs[i])

Copied(n) ==
    \A i \in Loads(file) : i < n =>
        \A x \in InSegment(file.segs[i]) : InMemory(x, Linked(file, x))

\* Is there a relocation of x left of entry k of section n?
IsDone(n, k, x) ==
    \E q \in Entries(file) : EntryAt(file, q).off = x /\ (q[1] < n \/ (q[1] = n /\ q[2] < k))

RelocatedUpTo(n, k) ==
    \A i \in Loads(file) : \A x \in InSegment(file.segs[i]) :
        InMemory(x, IF IsDone(n, k, x) THEN Expected(file, x) ELSE Linked(file, x))

Complete ==
    \A i \in Loads(file) : \A x \in InSegment(file.segs[i]) : InMemory(x, Expected(file, x))

PlainInv ==
    /\ MapInv
    /\ seg \in Nat \ {0}
    /\ stage # "stage1"
    /\ stage \in {"found", "check"} => seg = 1
    /\ stage \in {"found", "check", "segments"} => UsedBelow(seg)
    /\ stage \in {"zero", "copy"} => seg \in Loads(file) /\ UsedBelow(seg + 1)
    /\ stage \in {"found", "check", "segments", "zero", "copy"} => Copied(seg)
    /\ stage = "copy" => \A x \in InSegment(Segment) : InMemory(x, 0)
    /\ stage = "relocs" => sec > 0 /\ rel > 0 /\ RelocatedUpTo(sec, rel)
    /\ stage \in {"loaded", "starting", "user", "call"} => Complete

ImageInv == WholeInv /\ (Plain(file) => PlainInv)
\* The processor reaches the frame the table names.
LEMMA FrameIs ==
    ASSUME MapInv, NEW p \in Pages
    PROVE  Frame(p) = page_table[p] /\ page_table[p] \in Nat
BY DEF MapInv, Frame

LEMMA MappedIs ==
    ASSUME MapInv, NEW x
    PROVE  Mapped(x) <=> PageOf(x) \in Pages /\ page_table[PageOf(x)] # 0
<1>1. DOMAIN page_table = Pages
  BY DEF MapInv
<1> QED BY <1>1, FrameIs DEF Mapped

\* Stores reach the cells they are meant for and no other.
LEMMA WriteAllIs ==
    ASSUME MapInv, NEW D \in SUBSET Nat, NEW g, DOMAIN g = D,
           \A x \in D : PageOf(x) \in Pages /\ page_table[PageOf(x)] # 0,
           WriteAll(g), page_table' = page_table
    PROVE  /\ MapInv'
           /\ \A x \in D : InMemory(x, g[x])'
           /\ \A x \in Nat \ D : \A v : InMemory(x, v) => InMemory(x, v)'
<1> DEFINE hit(k, o) == {x \in D : Frame(PageOf(x)) = k /\ x % PAGE = o}
           W(k, o) == IF hit(k, o) = {} THEN frames[k][o] ELSE g[CHOOSE x \in hit(k, o) : TRUE]
<1>1. frames' = [k \in DOMAIN frames |-> [o \in 0 .. (PAGE - 1) |-> W(k, o)]]
  BY DEF WriteAll
<1>2. tlb' = [p \in DOMAIN tlb |-> IF \E x \in D : PageOf(x) = p THEN Frame(p) ELSE tlb[p]]
  BY DEF WriteAll
<1>3. DOMAIN frames = 1 .. Len(frames) /\ Len(frames) \in Nat
  BY DEF MapInv, IsText
<1> HIDE DEF W
<1>4. IsText(frames') /\ Len(frames') = Len(frames)
  <2>1. frames' \in [1 .. Len(frames) -> {[o \in 0 .. (PAGE - 1) |-> W(k, o)] : k \in DOMAIN frames}]
    BY <1>1, <1>3
  <2>2. frames' \in Seq({[o \in 0 .. (PAGE - 1) |-> W(k, o)] : k \in DOMAIN frames})
        /\ Len(frames') = Len(frames)
    BY <1>3, <2>1
  <2> QED BY <2>2 DEF IsText
<1>5. MapInv'
  <2>1. \A p \in Pages : tlb'[p] \in {0, page_table[p]}
    BY <1>2, FrameIs DEF MapInv
  <2>2. tlb' \in [Pages -> Nat]
    BY <1>2, FrameIs DEF MapInv
  <2> QED BY <1>4, <2>1, <2>2 DEF MapInv, Pages
<1>6. ASSUME NEW x \in Nat, PageOf(x) \in Pages, page_table[PageOf(x)] # 0
      PROVE  frames'[page_table[PageOf(x)]][x % PAGE] = W(page_table[PageOf(x)], x % PAGE)
  <2>1. page_table[PageOf(x)] \in DOMAIN frames
    BY <1>3, <1>6 DEF MapInv
  <2>2. x % PAGE \in 0 .. (PAGE - 1)
    BY PageFacts
  <2> QED BY <1>1, <2>1, <2>2
<1>7. ASSUME NEW x \in Nat, PageOf(x) \in Pages, page_table[PageOf(x)] # 0,
             NEW y \in hit(page_table[PageOf(x)], x % PAGE)
      PROVE  y = x
  <2>1. y \in D /\ Frame(PageOf(y)) = page_table[PageOf(x)] /\ y % PAGE = x % PAGE
    BY <1>7
  <2>2. PageOf(y) \in Pages /\ page_table[PageOf(y)] = page_table[PageOf(x)] /\ y \in Nat
    BY <2>1, FrameIs
  <2>3. PageOf(y) = PageOf(x)
    BY <2>2, <1>7 DEF MapInv
  <2> QED BY <2>1, <2>2, <2>3, SameCell
<1>8. ASSUME NEW x \in D PROVE InMemory(x, g[x])'
  <2>1. PageOf(x) \in Pages /\ page_table[PageOf(x)] # 0 /\ x \in Nat
    OBVIOUS
  <2>2. PICK H : H = hit(page_table[PageOf(x)], x % PAGE)
    OBVIOUS
  <2>3. x \in H
    BY <2>1, <2>2, FrameIs
  <2>4. \A y \in H : y = x
    BY <2>1, <2>2, <1>7
  <2>5. (CHOOSE y \in H : TRUE) = x
    BY <2>3, <2>4
  <2>6. W(page_table[PageOf(x)], x % PAGE) = g[x]
    BY <2>2, <2>3, <2>5 DEF W
  <2>7. frames'[page_table[PageOf(x)]][x % PAGE] = g[x]
    BY <2>1, <2>6, <1>6
  <2> QED BY <2>1, <2>7 DEF InMemory, Pages, PageOf
<1>9. ASSUME NEW x \in Nat \ D, NEW v, InMemory(x, v) PROVE InMemory(x, v)'
  <2>1. PageOf(x) \in Pages /\ page_table[PageOf(x)] # 0 /\ x \in Nat
        /\ frames[page_table[PageOf(x)]][x % PAGE] = v
    BY <1>9 DEF InMemory
  <2>2. hit(page_table[PageOf(x)], x % PAGE) = {}
    BY <2>1, <1>7
  <2>3. W(page_table[PageOf(x)], x % PAGE) = v
    BY <2>1, <2>2 DEF W
  <2>4. frames'[page_table[PageOf(x)]][x % PAGE] = v
    BY <2>1, <2>3, <1>6
  <2> QED BY <2>1, <2>4 DEF InMemory, Pages, PageOf
<1> QED BY <1>5, <1>8, <1>9

\* No address belongs to two segments.
LEMMA CellsApart ==
    ASSUME NEW f \in FILES, Plain(f), NEW i \in Loads(f), NEW j \in Loads(f), i # j,
           NEW x \in InSegment(f.segs[i])
    PROVE  x \notin InSegment(f.segs[j]) /\ x \in Nat
<1>1. IsSegment(f.segs[i]) /\ IsSegment(f.segs[j])
  BY SegmentFacts DEF Loads
<1>2. x \in Nat /\ PageOf(x) \in Around(f.segs[i])
  BY <1>1, InSegmentAround
<1>3. PageOf(x) \notin Around(f.segs[j])
  BY <1>2, SegmentsApart
<1> QED BY <1>1, <1>2, <1>3, InSegmentAround

\* A step that only drops translations leaves the memory as it is.
LEMMA SameMemory ==
    ASSUME MapInv, file' = file, page_table' = page_table, frames' = frames,
           tlb' \in [Pages -> Nat], \A p \in Pages : tlb'[p] \in {0, tlb[p]}
    PROVE  /\ MapInv'
           /\ \A n : UsedBelow(n) => UsedBelow(n)'
           /\ \A n : Copied(n) => Copied(n)'
           /\ \A n, k : RelocatedUpTo(n, k) => RelocatedUpTo(n, k)'
           /\ Complete => Complete'
           /\ \A x, v : InMemory(x, v) => InMemory(x, v)'
<1>1. MapInv'
  BY DEF MapInv, Pages
<1>2. \A x, v : InMemory(x, v) => InMemory(x, v)'
  BY DEF InMemory, Pages, PageOf
<1>3. \A n : UsedBelow(n) => UsedBelow(n)'
  BY DEF UsedBelow, Pages
<1>4. \A n : Copied(n) => Copied(n)'
  BY <1>2 DEF Copied
<1>5. \A n, k : RelocatedUpTo(n, k) => RelocatedUpTo(n, k)'
  BY <1>2 DEF RelocatedUpTo, IsDone
<1>6. Complete => Complete'
  BY <1>2 DEF Complete
<1> QED BY <1>1, <1>2, <1>3, <1>4, <1>5, <1>6

LEMMA PlainInit == ASSUME Init, Plain(file) PROVE PlainInv
<1>1. /\ page_table = [p \in Pages |-> 0] /\ tlb = page_table /\ frames = <<>>
      /\ seg = 1 /\ stage = "found" /\ file \in FILES
  BY DEF Init, LoaderInit, Pages
<1>2. IsText(frames) /\ Len(frames) = 0
  BY <1>1 DEF IsText
<1>3. MapInv
  BY <1>1, <1>2 DEF MapInv
<1>4. UsedBelow(seg)
  BY <1>1 DEF UsedBelow
<1>5. Copied(seg)
  BY <1>1, SegmentFacts DEF Copied
<1> QED BY <1>1, <1>3, <1>4, <1>5 DEF PlainInv

\* Everything but the loader.
LEMMA PlainOutside ==
    ASSUME WholeInv, PlainInv, Plain(file),
           Printing \/ Pressed \/ Tick \/ SpinRight \/ Forget \/ Idle \/ UNCHANGED vars
    PROVE  PlainInv'
<1>1. /\ file' = file /\ stage' = stage /\ seg' = seg /\ sec' = sec /\ rel' = rel
      /\ page_table' = page_table /\ frames' = frames
  BY DEF Printing, Pressed, Tick, SpinRight, Forget, Evict, Idle, vars, loaderVars
<1>2. MapInv /\ tlb \in [Pages -> Nat]
  BY DEF PlainInv, MapInv
<1>3. tlb' \in [Pages -> Nat] /\ \A p \in Pages : tlb'[p] \in {0, tlb[p]}
  <2>1. CASE Printing \/ Pressed \/ SpinRight \/ Idle \/ UNCHANGED vars
    <3>1. tlb' = tlb
      BY <2>1 DEF Printing, Pressed, SpinRight, Idle, vars, loaderVars
    <3> QED BY <3>1, <1>2
  <2>2. CASE Tick
    BY <2>2, <1>2 DEF Tick
  <2>3. CASE Forget
    <3>1. PICK p \in Pages : tlb' = [tlb EXCEPT ![p] = 0]
      BY <2>3 DEF Forget, Evict, Pages
    <3> QED BY <3>1, <1>2
  <2> QED BY <2>1, <2>2, <2>3
<1>4. PICK n, k, l : n = seg /\ k = sec /\ l = rel
  OBVIOUS
<1>5. /\ MapInv' /\ (UsedBelow(n) => UsedBelow(n)') /\ (UsedBelow(n + 1) => UsedBelow(n + 1)')
      /\ (Copied(n) => Copied(n)') /\ (RelocatedUpTo(k, l) => RelocatedUpTo(k, l)')
      /\ (Complete => Complete') /\ \A x, v : InMemory(x, v) => InMemory(x, v)'
  BY <1>1, <1>2, <1>3, SameMemory
<1>6. Segment' = Segment
  BY <1>1 DEF Segment
<1> QED BY <1>1, <1>4, <1>5, <1>6 DEF PlainInv

\* Start, entry and calls.
LEMMA PlainRunning ==
    ASSUME WholeInv, PlainInv, Plain(file),
           StartProcess \/ EnterProgram \/ Return \/ SystemCall
    PROVE  PlainInv'
<1>1. /\ file' = file /\ seg' = seg /\ page_table' = page_table /\ frames' = frames
      /\ stage \in {"loaded", "starting", "user", "call"}
      /\ stage' \in Running \cup {"fault"}
  BY DEF StartProcess, EnterProgram, Return, SystemCall, CallBefore, CallUnknown,
     CallExit, CallWriteWild, CallStub, CallTestOut, CallWrite, TtyWrite, Enter, GoOn, loaderVars, Running
<1>2. MapInv /\ tlb \in [Pages -> Nat] /\ seg \in Nat /\ Complete
  BY <1>1 DEF PlainInv, MapInv
<1>3. tlb' \in [Pages -> Nat] /\ \A p \in Pages : tlb'[p] \in {0, tlb[p]}
  <2>1. CASE EnterProgram
    BY <2>1, <1>2 DEF EnterProgram
  <2>2. CASE StartProcess \/ Return \/ SystemCall
    <3>1. tlb' = tlb
      BY <2>2 DEF StartProcess, Return, SystemCall, CallBefore, CallUnknown,
         CallExit, CallWriteWild, CallStub, CallTestOut, CallWrite, TtyWrite, Enter, loaderVars
    <3> QED BY <3>1, <1>2, SMTT(30)
  <2> QED BY <2>1, <2>2
<1>4. MapInv' /\ Complete'
  BY <1>1, <1>2, <1>3, SameMemory
<1> QED BY <1>1, <1>2, <1>4 DEF PlainInv, Running

\* Steps of the loader that do not touch the memory.
LEMMA PlainWalk ==
    ASSUME WholeInv, PlainInv, Plain(file),
           Read \/ CheckHeader \/ (\E u \in UNDEF : Stage1(u)) \/ SkipSegment \/ SegmentsDone
           \/ NextSection \/ RelocsDone
    PROVE  PlainInv'
<1>1. file' = file /\ page_table' = page_table /\ frames' = frames /\ tlb' = tlb
  BY DEF Read, CheckHeader, Stage1, SkipSegment, SegmentsDone, NextSection, RelocsDone
<1>2. MapInv /\ tlb \in [Pages -> Nat] /\ seg \in Nat /\ file \in FILES
  BY DEF PlainInv, MapInv, WholeInv
<1>3. tlb' \in [Pages -> Nat] /\ \A p \in Pages : tlb'[p] \in {0, tlb[p]}
  BY <1>1, <1>2
<1>4. /\ MapInv' /\ (\A n : UsedBelow(n) => UsedBelow(n)')
      /\ (\A n : Copied(n) => Copied(n)')
      /\ (\A n, k : RelocatedUpTo(n, k) => RelocatedUpTo(n, k)')
      /\ (Complete => Complete')
  BY <1>1, <1>2, <1>3, SameMemory
<1>5. Supported(file) /\ file.type = "EXEC"
  BY DEF Plain
<1>6. CASE Read \/ CheckHeader
  <2>1. seg' = seg /\ seg = 1 /\ stage' \in {"check", "segments"} /\ UsedBelow(1) /\ Copied(1)
    BY <1>5, <1>6 DEF Read, CheckHeader, GoOn, PlainInv
  <2>2. UsedBelow(1)' /\ Copied(1)'
    BY <2>1, <1>4
  <2>3. UsedBelow(seg)' /\ Copied(seg)'
    BY <2>1, <2>2 DEF UsedBelow, Copied
  <2> QED BY <2>1, <2>3, <1>4 DEF PlainInv
<1>7. CASE \E u \in UNDEF : Stage1(u)
  BY <1>7 DEF Stage1, GoOn, PlainInv
<1>8. CASE SkipSegment
  <2>1. /\ stage = "segments" /\ stage' = "segments" /\ seg' = seg + 1
        /\ seg \notin Loads(file) /\ UsedBelow(seg) /\ Copied(seg)
    BY <1>8 DEF SkipSegment, Segment, Loads, PlainInv
  <2>2. UsedBelow(seg + 1)
    BY <2>1, <1>2, SegmentFacts DEF UsedBelow
  <2>3. Copied(seg + 1)
    BY <2>1, <1>2, SegmentFacts DEF Copied
  <2>4. PICK n : n = seg + 1
    OBVIOUS
  <2>5. UsedBelow(n)' /\ Copied(n)'
    BY <2>2, <2>3, <2>4, <1>4
  <2>6. UsedBelow(seg)' /\ Copied(seg)'
    BY <2>1, <2>4, <2>5 DEF UsedBelow, Copied
  <2> QED BY <2>1, <2>6, <1>2, <1>4 DEF PlainInv
<1>9. CASE SegmentsDone
  <2>1. /\ stage = "segments" /\ stage' = "relocs" /\ seg > Len(file.segs) /\ seg' = seg
        /\ sec = 1 /\ rel = 1 /\ sec' = sec /\ rel' = rel /\ Copied(seg)
    BY <1>9 DEF SegmentsDone, GoOn, PlainInv, WholeInv, Before
  <2>2. \A x : ~IsDone(1, 1, x)
    <3> SUFFICES ASSUME NEW q \in Entries(file), q[1] < 1 \/ (q[1] = 1 /\ q[2] < 1) PROVE FALSE
      BY DEF IsDone
    <3>1. q[1] \in 1 .. Len(file.secs) /\ q[2] \in 1 .. Len(file.secs[q[1]].rels)
      BY <1>2, EntryFacts
    <3>2. Len(file.secs) \in Nat /\ Len(file.secs[q[1]].rels) \in Nat
      BY <1>2, <3>1, FileFacts
    <3> QED BY <3>1, <3>2
  <2>3. RelocatedUpTo(1, 1)
    BY <2>1, <2>2, <1>2, SegmentFacts DEF Copied, RelocatedUpTo
  <2>4. RelocatedUpTo(1, 1)'
    BY <2>3, <1>4
  <2>5. RelocatedUpTo(sec, rel)'
    BY <2>1, <2>4 DEF RelocatedUpTo, IsDone
  <2> QED BY <2>1, <2>5, <1>2, <1>4 DEF PlainInv
<1>10. CASE NextSection
  <2>1. /\ stage = "relocs" /\ stage' = "relocs" /\ sec <= Len(file.secs) /\ seg' = seg
        /\ HasRels(file.secs[sec]) => rel > Len(file.secs[sec].rels)
        /\ sec' = sec + 1 /\ rel' = 1 /\ RelocatedUpTo(sec, rel) /\ sec \in Nat /\ rel \in Nat
        /\ sec' > 0
    BY <1>10 DEF NextSection, Section, PlainInv, WholeInv, Handled
  <2>2. ASSUME NEW x PROVE IsDone(sec, rel, x) <=> IsDone(sec + 1, 1, x)
    <3>1. ASSUME NEW q \in Entries(file)
          PROVE  (q[1] < sec \/ (q[1] = sec /\ q[2] < rel))
                 <=> (q[1] < sec + 1 \/ (q[1] = sec + 1 /\ q[2] < 1))
      <4>1. /\ q[1] \in 1 .. Len(file.secs) /\ q[2] \in 1 .. Len(file.secs[q[1]].rels)
            /\ HasRels(file.secs[q[1]])
        BY <1>2, EntryFacts
      <4>2. Len(file.secs) \in Nat /\ Len(file.secs[q[1]].rels) \in Nat
        BY <1>2, <4>1, FileFacts
      <4> QED BY <4>1, <4>2, <2>1, SMTT(30)
    <3> QED BY <3>1 DEF IsDone
  <2>3. RelocatedUpTo(sec + 1, 1)
    BY <2>1, <2>2 DEF RelocatedUpTo
  <2>4. PICK n : n = sec + 1
    OBVIOUS
  <2>5. RelocatedUpTo(n, 1)'
    BY <2>3, <2>4, <1>4
  <2>6. RelocatedUpTo(sec, rel)'
    BY <2>1, <2>4, <2>5 DEF RelocatedUpTo, IsDone
  <2> QED BY <2>1, <2>6, <1>2, <1>4 DEF PlainInv
<1>11. CASE RelocsDone
  <2>1. /\ stage = "relocs" /\ stage' \in {"loaded", "failed"} /\ sec > Len(file.secs)
        /\ RelocatedUpTo(sec, rel) /\ sec \in Nat /\ rel \in Nat /\ seg' = seg
    BY <1>11 DEF RelocsDone, GoOn, PlainInv, WholeInv, Handled
  <2>2. ASSUME NEW x, ~IsDone(sec, rel, x) PROVE Expected(file, x) = Linked(file, x)
    <3>1. ASSUME NEW q \in Entries(file) PROVE EntryAt(file, q).off # x
      <4>1. q[1] \in 1 .. Len(file.secs) /\ Len(file.secs) \in Nat
        BY <1>2, EntryFacts, FileFacts
      <4>2. q[1] < sec
        BY <4>1, <2>1
      <4> QED BY <4>2, <2>2 DEF IsDone
    <3> QED BY <3>1 DEF Expected
  <2>3. Complete
    BY <2>1, <2>2 DEF RelocatedUpTo, Complete
  <2>4. Complete'
    BY <2>3, <1>4
  <2> QED BY <2>1, <2>4, <1>2, <1>4 DEF PlainInv
<1> QED BY <1>6, <1>7, <1>8, <1>9, <1>10, <1>11

\* Pages for the next segment: none of them is in use.
LEMMA PlainAlloc ==
    ASSUME WholeInv, PlainInv, Plain(file), AllocSegment
    PROVE  PlainInv'
<1>1. PICK s, n, at, first : /\ s = file.segs[seg] /\ n = Len(frames) /\ at = PagesOf(s)
                             /\ first = PageOf(s.vaddr)
  OBVIOUS
<1> DEFINE blank == [o \in 0 .. (PAGE - 1) |-> JUNK]
           fresh == [i \in {p - first + 1 : p \in at} |-> blank]
<1>2. /\ stage = "segments" /\ stage' = "zero" /\ seg <= Len(file.segs) /\ s.load
      /\ file' = file /\ seg' = seg /\ tlb' = tlb
      /\ page_table' = [p \in DOMAIN page_table |->
                           IF p \in at THEN n + 1 + (p - first) ELSE page_table[p]]
      /\ frames' = frames \o fresh
  BY <1>1 DEF AllocSegment, GoOn, Segment
<1>3. /\ MapInv /\ seg \in Nat /\ file \in FILES /\ UsedBelow(seg) /\ Copied(seg)
  BY <1>2 DEF PlainInv, WholeInv
<1>4. seg \in Loads(file) /\ IsSegment(s)
  <2>1. seg # 0
    BY DEF PlainInv
  <2> QED BY <2>1, <1>1, <1>2, <1>3, SegmentFacts DEF Loads
<1>5. first \in Nat /\ n \in Nat /\ DOMAIN frames = 1 .. n
  <2>1. s.vaddr \in Nat
    BY <1>4 DEF IsSegment
  <2>2. first \in Nat
    BY <2>1, <1>1, PageFacts
  <2> QED BY <2>2, <1>1, <1>3 DEF MapInv, IsText
<1>6. PICK k \in Nat : at = {first + i : i \in 0 .. (k - 1)}
  <2>1. PICK k \in Nat : PagesOf(s) = {PageOf(s.vaddr) + i : i \in 0 .. (k - 1)}
    BY <1>4, PagesOfInRow
  <2>2. at = {first + i : i \in 0 .. (k - 1)}
    BY <2>1, <1>1
  <2> QED BY <2>2
<1>7. {p - first + 1 : p \in at} = 1 .. k
  <2>1. ASSUME NEW p \in at PROVE p - first + 1 \in 1 .. k
    BY <1>5, <1>6
  <2>2. ASSUME NEW i \in 1 .. k PROVE \E p \in at : i = p - first + 1
    <3>1. i - 1 \in 0 .. (k - 1) /\ i = (first + (i - 1)) - first + 1
      BY <1>5, <1>6
    <3>2. first + (i - 1) \in at
      BY <3>1, <1>6
    <3> QED BY <3>1, <3>2
  <2> QED BY <2>1, <2>2
<1>8. fresh \in Seq({blank}) /\ Len(fresh) = k
  <2>1. fresh \in [1 .. k -> {blank}]
    BY <1>7
  <2> HIDE DEF fresh, blank
  <2> QED BY <2>1
<1> HIDE DEF fresh, blank
<1>9. /\ IsText(frames') /\ Len(frames') = n + k
      /\ \A j \in 1 .. n : frames'[j] = frames[j]
  <2>1. PICK S : frames \in Seq(S)
    BY <1>3 DEF MapInv, IsText
  <2>2. PICK T : T = S \cup {blank}
    OBVIOUS
  <2>3. frames \in Seq(T) /\ fresh \in Seq(T)
    BY <2>1, <2>2, <1>8
  <2>4. frames' \in Seq(T) /\ Len(frames') = n + k
    <3>1. frames \o fresh \in Seq(T) /\ Len(frames \o fresh) = Len(frames) + Len(fresh)
      BY <2>3
    <3> QED BY <3>1, <1>1, <1>2, <1>8
  <2>5. \A j \in 1 .. n : frames'[j] = frames[j]
    BY <2>3, <1>1, <1>2
  <2> QED BY <2>4, <2>5 DEF IsText
<1>10. ASSUME NEW p \in at PROVE p \in Around(s) /\ p - first \in 0 .. (k - 1)
                                 /\ (p \in Pages => page_table[p] = 0)
  <2>1. p \in Around(s)
    BY <1>1, <1>4, <1>10, PagesOfAround
  <2>2. p - first \in 0 .. (k - 1)
    BY <1>5, <1>6
  <2>3. ASSUME p \in Pages, page_table[p] # 0 PROVE FALSE
    <3>1. PICK i \in Loads(file) : i < seg /\ p \in Around(file.segs[i])
      BY <2>3, <1>3 DEF UsedBelow
    <3>2. i # seg
      BY <3>1, <1>3
    <3> QED BY <2>1, <3>1, <3>2, <1>1, <1>3, <1>4, SegmentsApart
  <2> QED BY <2>1, <2>2, <2>3
<1>11. ASSUME NEW p \in Pages
       PROVE  /\ p \in at => /\ page_table'[p] = n + 1 + (p - first) /\ p - first \in 0 .. (k - 1)
                             /\ page_table[p] = 0
              /\ p \notin at => page_table'[p] = page_table[p]
              /\ page_table[p] \in Nat /\ page_table[p] <= n /\ p \in Nat
              /\ tlb[p] \in {0, page_table[p]}
  <2>1. /\ DOMAIN page_table = Pages /\ page_table[p] \in Nat /\ page_table[p] <= n
        /\ tlb[p] \in {0, page_table[p]}
    BY <1>1, <1>3 DEF MapInv
  <2>2. p \in Nat
    BY LoaderAssumption DEF LoaderAssumption, Pages
  <2> QED BY <2>1, <2>2, <1>2, <1>10
<1>12. MapInv'
  <2>1. page_table' \in [Pages -> Nat]
    <3>1. ASSUME NEW p \in Pages PROVE page_table'[p] \in Nat
      BY <1>5, <1>11
    <3>2. DOMAIN page_table = Pages
      BY <1>3 DEF MapInv
    <3> QED BY <3>1, <3>2, <1>2
  <2>2. ASSUME NEW p \in Pages
        PROVE  tlb[p] \in {0, page_table'[p]} /\ page_table'[p] <= n + k
    BY <1>5, <1>11
  <2>3. ASSUME NEW p \in Pages, NEW q \in Pages, page_table'[p] = page_table'[q], page_table'[p] # 0
        PROVE  p = q
    <3>1. CASE p \in at /\ q \in at
      BY <3>1, <2>3, <1>5, <1>11, SMTT(30)
    <3>2. CASE p \in at /\ q \notin at
      BY <3>2, <2>3, <1>5, <1>11
    <3>3. CASE p \notin at /\ q \in at
      <4>1. page_table'[q] = n + 1 + (q - first) /\ q - first \in Nat
        BY <3>3, <1>6, <1>11
      <4>2. page_table'[p] \in Nat /\ page_table'[p] <= n
        BY <3>3, <1>11
      <4> QED BY <4>1, <4>2, <2>3, <1>5
    <3>4. CASE p \notin at /\ q \notin at
      BY <3>4, <2>3, <1>3, <1>11 DEF MapInv
    <3> QED BY <3>1, <3>2, <3>3, <3>4
  <2> QED BY <2>1, <2>2, <2>3, <1>2, <1>3, <1>9 DEF MapInv, Pages
<1>13. ASSUME NEW x, NEW v, InMemory(x, v) PROVE InMemory(x, v)'
  <2>1. PageOf(x) \in Pages /\ page_table[PageOf(x)] # 0
        /\ frames[page_table[PageOf(x)]][x % PAGE] = v
    BY <1>13 DEF InMemory
  <2>2. page_table'[PageOf(x)] = page_table[PageOf(x)] /\ page_table[PageOf(x)] \in 1 .. n
    BY <2>1, <1>5, <1>11
  <2>3. frames'[page_table[PageOf(x)]] = frames[page_table[PageOf(x)]]
    BY <2>2, <1>9
  <2> QED BY <2>1, <2>2, <2>3 DEF InMemory, Pages, PageOf
<1>14. ASSUME NEW p \in Pages, page_table'[p] # 0
       PROVE  \E i \in Loads(file) : i < seg + 1 /\ p \in Around(file.segs[i])
  <2>1. CASE p \in at
    BY <2>1, <1>1, <1>3, <1>4, <1>10
  <2>2. CASE p \notin at
    <3>1. page_table[p] # 0
      BY <2>2, <1>11, <1>14
    <3>2. PICK i \in Loads(file) : i < seg /\ p \in Around(file.segs[i])
      BY <3>1, <1>3 DEF UsedBelow
    <3>3. i \in Nat
      BY <3>2, <1>3, SegmentFacts
    <3> QED BY <3>2, <3>3, <1>3
  <2> QED BY <2>1, <2>2
<1>15. UsedBelow(seg + 1)'
  BY <1>2, <1>14 DEF UsedBelow, Pages, Around, PageOf, Loads
<1>16. Copied(seg)'
  BY <1>2, <1>3, <1>13 DEF Copied
<1> QED BY <1>2, <1>3, <1>4, <1>12, <1>15, <1>16 DEF PlainInv

\* bzero.
LEMMA PlainZero ==
    ASSUME WholeInv, PlainInv, Plain(file), ZeroSegment
    PROVE  PlainInv'
<1>1. PICK s : s = file.segs[seg]
  OBVIOUS
<1>2. /\ stage = "zero" /\ file' = file /\ seg' = seg /\ page_table' = page_table
      /\ stage' = IF \A x \in InSegment(s) : Mapped(x) THEN "copy" ELSE "fault"
      /\ stage' = "copy" => WriteAll([x \in InSegment(s) |-> 0])
      /\ stage' # "copy" => tlb' = tlb /\ frames' = frames
  BY <1>1 DEF ZeroSegment, GoOn, Segment
<1>3. /\ MapInv /\ tlb \in [Pages -> Nat] /\ seg \in Nat /\ file \in FILES
      /\ seg \in Loads(file) /\ UsedBelow(seg + 1) /\ Copied(seg)
  BY <1>2 DEF PlainInv, WholeInv, MapInv
<1>4. CASE stage' # "copy"
  <2>1. MapInv'
    BY <1>2, <1>3, <1>4, SameMemory
  <2> QED BY <1>2, <1>3, <1>4, <2>1 DEF PlainInv
<1>5. CASE stage' = "copy"
  <2>1. PICK D, g : D = InSegment(s) /\ g = [x \in D |-> 0]
    OBVIOUS
  <2>2. DOMAIN g = D /\ (\A x \in D : g[x] = 0) /\ WriteAll(g)
    BY <1>2, <1>5, <2>1
  <2>3. D \in SUBSET Nat
    <3>1. IsSegment(s)
      BY <1>1, <1>3, SegmentFacts DEF Loads
    <3> QED BY <2>1, <3>1 DEF IsSegment, InSegment
  <2>4. \A x \in D : PageOf(x) \in Pages /\ page_table[PageOf(x)] # 0
    BY <1>2, <1>3, <1>5, <2>1, MappedIs
  <2>5. /\ MapInv' /\ (\A x \in D : InMemory(x, g[x])')
        /\ \A x \in Nat \ D : \A v : InMemory(x, v) => InMemory(x, v)'
    BY <1>2, <1>3, <2>2, <2>3, <2>4, WriteAllIs
  <2>6. \A x \in InSegment(Segment)' : InMemory(x, 0)'
    BY <1>1, <1>2, <2>1, <2>2, <2>5 DEF Segment, InSegment
  <2>7. Copied(seg)'
    <3>1. ASSUME NEW i \in Loads(file), i < seg, NEW x \in InSegment(file.segs[i])
          PROVE  InMemory(x, Linked(file, x))'
      <4>1. x \in Nat \ D
        <5>1. i # seg
          BY <1>3, <3>1
        <5> QED BY <5>1, <1>1, <1>3, <2>1, CellsApart
      <4>2. InMemory(x, Linked(file, x))
        BY <1>3, <3>1 DEF Copied
      <4>3. PICK v : v = Linked(file, x)
        OBVIOUS
      <4>4. InMemory(x, v)'
        BY <4>1, <4>2, <4>3, <2>5
      <4>5. v = Linked(file, x)'
        BY <4>3, <1>2
      <4> QED BY <4>4, <4>5 DEF InMemory
    <3> QED BY <3>1, <1>2 DEF Copied
  <2>8. UsedBelow(seg + 1)'
    BY <1>2, <1>3 DEF UsedBelow
  <2> QED BY <1>2, <1>3, <1>5, <2>5, <2>6, <2>7, <2>8 DEF PlainInv
<1> QED BY <1>4, <1>5

\* memcpy.
LEMMA PlainCopy ==
    ASSUME WholeInv, PlainInv, Plain(file), CopySegment
    PROVE  PlainInv'
<1>1. PICK s : s = file.segs[seg]
  OBVIOUS
<1>2. PICK D, g : /\ D = s.vaddr .. (s.vaddr + Len(s.data) - 1)
                  /\ g = [x \in D |-> s.data[x - s.vaddr + 1]]
  OBVIOUS
<1>3. /\ stage = "copy" /\ stage' = "segments" /\ file' = file /\ seg' = seg + 1
      /\ page_table' = page_table /\ WriteAll(g)
  BY <1>1, <1>2 DEF CopySegment, GoOn, Segment
<1>4. /\ MapInv /\ seg \in Nat /\ file \in FILES /\ seg \in Loads(file)
      /\ UsedBelow(seg + 1) /\ Copied(seg) /\ \A x \in InSegment(s) : InMemory(x, 0)
  BY <1>1, <1>3 DEF PlainInv, WholeInv, Segment
<1>5. IsSegment(s)
  BY <1>1, <1>4, SegmentFacts DEF Loads
<1>6. D \subseteq InSegment(s) /\ InSegment(s) \subseteq Nat
  BY <1>2, <1>5, SMTT(30) DEF IsSegment, InSegment
<1>7. /\ MapInv' /\ (\A x \in D : InMemory(x, g[x])')
      /\ \A x \in Nat \ D : \A v : InMemory(x, v) => InMemory(x, v)'
  <2>1. DOMAIN g = D /\ D \in SUBSET Nat
    BY <1>2, <1>6
  <2>2. \A x \in D : PageOf(x) \in Pages /\ page_table[PageOf(x)] # 0
    BY <1>4, <1>6 DEF InMemory
  <2> QED BY <1>3, <1>4, <2>1, <2>2, WriteAllIs
<1>8. ASSUME NEW i \in Loads(file), i < seg + 1, NEW x \in InSegment(file.segs[i])
      PROVE  InMemory(x, Linked(file, x))'
  <2>1. PICK v : v = Linked(file, x)
    OBVIOUS
  <2>2. InMemory(x, v)'
    <3>1. CASE i = seg
      <4>1. x \in InSegment(s) /\ x \in Nat
        BY <3>1, <1>1, <1>6, <1>8
      <4>2. v = IF x - s.vaddr < Len(s.data) THEN s.data[x - s.vaddr + 1] ELSE 0
        BY <2>1, <3>1, <1>1, <1>4, <4>1, LinkedIs
      <4>3. x \in D <=> x - s.vaddr < Len(s.data)
        BY <4>1, <1>2, <1>5 DEF IsSegment, InSegment
      <4>4. CASE x \in D
        <5>1. v = g[x]
          BY <4>2, <4>3, <4>4, <1>2
        <5> QED BY <5>1, <4>4, <1>7
      <4>5. CASE x \notin D
        <5>1. v = 0 /\ InMemory(x, 0)
          BY <4>1, <4>2, <4>3, <4>5, <1>4
        <5> QED BY <5>1, <4>1, <4>5, <1>7
      <4> QED BY <4>4, <4>5
    <3>2. CASE i # seg
      <4>1. i < seg
        BY <3>2, <1>4, <1>8, SegmentFacts
      <4>2. InMemory(x, v)
        BY <4>1, <2>1, <1>4, <1>8 DEF Copied
      <4>3. x \notin InSegment(s) /\ x \in Nat
        BY <3>2, <1>1, <1>4, <1>8, CellsApart
      <4> QED BY <4>2, <4>3, <1>6, <1>7
    <3> QED BY <3>1, <3>2
  <2>3. v = Linked(file, x)'
    BY <2>1, <1>3
  <2> QED BY <2>2, <2>3 DEF InMemory
<1>9. Copied(seg)'
  BY <1>3, <1>8 DEF Copied
<1>10. UsedBelow(seg)'
  BY <1>3, <1>4 DEF UsedBelow
<1> QED BY <1>3, <1>4, <1>7, <1>9, <1>10 DEF PlainInv

\* One more relocation: the address still holds what the file says, since no
\* other relocation touches it.
LEMMA PlainRelocate ==
    ASSUME WholeInv, PlainInv, Plain(file), NEW u, Relocate(u)
    PROVE  PlainInv'
<1>1. PICK f, n, k : f = file /\ n = sec /\ k = rel
  OBVIOUS
<1>2. PICK r, x, q : r = f.secs[n].rels[k] /\ x = r.off /\ q = <<n, k>>
  OBVIOUS
<1>3. PICK old, A : /\ old = frames[Frame(PageOf(x))][x % PAGE]
                    /\ A = IF f.secs[n].type = "REL" THEN old ELSE r.addend
  OBVIOUS
<1>4. file \in FILES /\ f \in FILES /\ Plain(f) /\ f.type = "EXEC"
  BY <1>1 DEF WholeInv, Plain
<1>5. stage = "relocs" /\ n <= Len(f.secs) /\ HasRels(f.secs[n]) /\ k <= Len(f.secs[n].rels)
  BY <1>1 DEF Relocate, Section
<1>6. n \in Nat \ {0} /\ k \in Nat \ {0}
  BY <1>1, <1>5 DEF WholeInv, Handled, PlainInv
<1>7. n \in DOMAIN f.secs /\ k \in DOMAIN f.secs[n].rels
  BY <1>4, <1>5, <1>6, FileFacts
<1>8. q \in Entries(f) /\ EntryAt(f, q) = r /\ q[1] = n /\ q[2] = k
  BY <1>2, <1>4, <1>5, <1>7, EntryIs
<1>9. r.sym = 0 /\ r.type \in KnownTypes
  BY <1>4, <1>8 DEF Plain
<1>10. PICK j \in Loads(f) : x \in InSegment(f.segs[j])
  BY <1>2, <1>4, <1>8 DEF Plain
<1>11. x \in Nat
  BY <1>2, <1>4, <1>8, EntryFacts
<1>12. MapInv /\ seg \in Nat \ {0} /\ RelocatedUpTo(n, k) /\ tlb \in [Pages -> Nat]
  BY <1>1, <1>5 DEF PlainInv, MapInv
<1>13. ~IsDone(n, k, x)
  <2> SUFFICES ASSUME NEW t \in Entries(f), EntryAt(f, t).off = x,
                      t[1] < n \/ (t[1] = n /\ t[2] < k)
               PROVE  FALSE
    BY <1>1 DEF IsDone
  <2>1. t = q
    BY <1>2, <1>4, <1>8 DEF Plain
  <2> QED BY <2>1, <1>6, <1>8
<1>14. InMemory(x, Linked(f, x))
  BY <1>1, <1>10, <1>12, <1>13 DEF RelocatedUpTo
<1>15. /\ PageOf(x) \in Pages /\ page_table[PageOf(x)] # 0 /\ old = Linked(f, x)
  BY <1>3, <1>12, <1>14, FrameIs, SMTT(30) DEF InMemory
<1>16. Relocated(r, x, old, 0, A) = Expected(f, x)
       /\ (r.type = "NONE" => Expected(f, x) = Linked(f, x))
  BY <1>1, <1>2, <1>3, <1>4, <1>8, <1>15, RelocatedIs, SMTT(30)
<1>17. /\ file' = file /\ sec' = sec /\ seg' = seg /\ rel' = rel + 1 /\ page_table' = page_table
       /\ stage' \in {"relocs", "fault", "failed"}
       /\ stage' # "relocs" \/ r.type = "NONE" => tlb' = tlb /\ frames' = frames
       /\ stage' = "relocs" /\ r.type # "NONE" =>
            WriteAll([y \in {x} |-> Relocated(r, x, old, 0, A)])
  BY <1>1, <1>2, <1>3, <1>4, <1>9 DEF Relocate, Section
<1>18. ASSUME NEW i \in Loads(f), NEW y \in InSegment(f.segs[i])
       PROVE  /\ y \in Nat
              /\ y # x => (IsDone(n, k, y) <=> IsDone(n, k + 1, y))
              /\ IsDone(n, k + 1, x)
              /\ InMemory(y, IF IsDone(n, k, y) THEN Expected(f, y) ELSE Linked(f, y))
  <2>1. y \in Nat
    <3>1. IsSegment(f.segs[i])
      BY <1>4, SegmentFacts DEF Loads
    <3> QED BY <3>1, InSegmentAround
  <2>2. IsDone(n, k + 1, x)
    BY <1>1, <1>2, <1>6, <1>8 DEF IsDone
  <2>3. ASSUME y # x PROVE IsDone(n, k, y) <=> IsDone(n, k + 1, y)
    <3>1. ASSUME NEW t \in Entries(f), EntryAt(f, t).off = y
          PROVE  (t[1] < n \/ (t[1] = n /\ t[2] < k)) <=> (t[1] < n \/ (t[1] = n /\ t[2] < k + 1))
      <4>1. t # q
        BY <2>3, <3>1, <1>2, <1>8
      <4>2. /\ t[1] \in 1 .. Len(f.secs) /\ t[2] \in 1 .. Len(f.secs[t[1]].rels)
            /\ t = <<t[1], t[2]>>
        BY <1>4, EntryFacts
      <4>3. Len(f.secs) \in Nat /\ Len(f.secs[t[1]].rels) \in Nat
        BY <1>4, <4>2, FileFacts
      <4>4. t[1] \in Nat /\ t[2] \in Nat /\ ~(t[1] = n /\ t[2] = k)
        BY <4>1, <4>2, <4>3, <1>2
      <4> QED BY <4>4, <1>6
    <3> QED BY <3>1, <1>1 DEF IsDone
  <2>4. InMemory(y, IF IsDone(n, k, y) THEN Expected(f, y) ELSE Linked(f, y))
    BY <1>1, <1>12 DEF RelocatedUpTo
  <2> QED BY <2>1, <2>2, <2>3, <2>4
<1>19. CASE stage' # "relocs"
  <2>1. MapInv'
    BY <1>12, <1>17, <1>19, SameMemory
  <2> QED BY <1>12, <1>17, <1>19, <2>1 DEF PlainInv
<1>20. CASE stage' = "relocs"
  <2>1. /\ MapInv' /\ InMemory(x, Expected(f, x))'
        /\ \A y \in Nat : \A v : y # x /\ InMemory(y, v) => InMemory(y, v)'
    <3>1. CASE r.type = "NONE"
      <4>1. MapInv' /\ \A y, v : InMemory(y, v) => InMemory(y, v)'
        BY <1>12, <1>17, <3>1, SameMemory
      <4>2. PICK v : v = Expected(f, x)
        OBVIOUS
      <4>3. InMemory(x, v)
        BY <1>14, <1>16, <3>1, <4>2
      <4>4. InMemory(x, v)'
        BY <4>1, <4>3
      <4> QED BY <4>1, <4>2, <4>4 DEF InMemory
    <3>2. CASE r.type # "NONE"
      <4>1. PICK g, v : v = Expected(f, x) /\ g = [y \in {x} |-> v]
        OBVIOUS
      <4>2. WriteAll(g) /\ DOMAIN g = {x} /\ g[x] = v /\ {x} \in SUBSET Nat
        BY <1>11, <1>16, <1>17, <1>20, <3>2, <4>1
      <4>3. \A y \in {x} : PageOf(y) \in Pages /\ page_table[PageOf(y)] # 0
        BY <1>15
      <4>4. /\ MapInv' /\ (\A y \in {x} : InMemory(y, g[y])')
            /\ \A y \in Nat \ {x} : \A w : InMemory(y, w) => InMemory(y, w)'
        BY <1>12, <1>17, <4>2, <4>3, WriteAllIs
      <4>5. InMemory(x, v)'
        BY <4>2, <4>4 DEF InMemory
      <4> QED BY <4>1, <4>4, <4>5 DEF InMemory
    <3> QED BY <3>1, <3>2
  <2>2. ASSUME NEW i \in Loads(f), NEW y \in InSegment(f.segs[i])
        PROVE  InMemory(y, IF IsDone(n, k + 1, y) THEN Expected(f, y) ELSE Linked(f, y))'
    <3>1. PICK v : v = IF IsDone(n, k + 1, y) THEN Expected(f, y) ELSE Linked(f, y)
      OBVIOUS
    <3>2. InMemory(y, v)'
      <4>1. CASE y = x
        <5>1. v = Expected(f, x)
          BY <3>1, <4>1, <1>18
        <5> QED BY <5>1, <4>1, <2>1 DEF InMemory
      <4>2. CASE y # x
        BY <3>1, <4>2, <1>18, <2>1
      <4> QED BY <4>1, <4>2
    <3>3. (v = IF IsDone(n, k + 1, y) THEN Expected(f, y) ELSE Linked(f, y))'
      BY <3>1, <1>17 DEF IsDone
    <3> QED BY <3>2, <3>3 DEF InMemory
  <2>3. RelocatedUpTo(sec, rel)'
    BY <2>2, <1>1, <1>17 DEF RelocatedUpTo, IsDone
  <2>4. sec' > 0 /\ rel' > 0
    BY <1>1, <1>6, <1>17
  <2> QED BY <1>12, <1>17, <1>20, <2>1, <2>3, <2>4 DEF PlainInv
<1> QED BY <1>19, <1>20

LEMMA ImageStep == ImageInv /\ [Next]_vars => ImageInv'
<1> SUFFICES ASSUME ImageInv, [Next]_vars PROVE ImageInv'
  OBVIOUS
<1>1. WholeInv /\ WholeInv'
  BY WholeStep, SMTT(30) DEF ImageInv
<1>2. file' = file
  BY DEF Next, Run, Printing, Loading, LoadStep, Read, CheckHeader, Stage1, SkipSegment,
     AllocSegment, ZeroSegment, CopySegment, SegmentsDone, NextSection, Relocate, RelocsDone,
     StartProcess, EnterProgram, Return, SystemCall, CallBefore, CallUnknown, CallExit,
     CallWriteWild, CallStub, CallTestOut, CallWrite, Enter, Pressed, Tick, SpinRight, Forget,
     Evict, Idle, vars, loaderVars
<1>3. SUFFICES ASSUME Plain(file) PROVE PlainInv'
  <2>1. Plain(file)' <=> Plain(file)
    BY <1>2
  <2> QED BY <1>1, <1>3, <2>1 DEF ImageInv
<1>4. PlainInv
  BY <1>3 DEF ImageInv
<1>5. CASE Loading
  <2>1. CASE AllocSegment
    BY <1>1, <1>3, <1>4, <2>1, PlainAlloc
  <2>2. CASE ZeroSegment
    BY <1>1, <1>3, <1>4, <2>2, PlainZero
  <2>3. CASE CopySegment
    BY <1>1, <1>3, <1>4, <2>3, PlainCopy
  <2>4. CASE \E u \in UNDEF : Relocate(u)
    BY <1>1, <1>3, <1>4, <2>4, PlainRelocate
  <2>5. CASE Read \/ CheckHeader \/ (\E u \in UNDEF : Stage1(u)) \/ SkipSegment
             \/ SegmentsDone \/ NextSection \/ RelocsDone
    BY <1>1, <1>3, <1>4, <2>5, PlainWalk
  <2> QED BY <1>5, <2>1, <2>2, <2>3, <2>4, <2>5 DEF Loading, LoadStep
<1>6. CASE StartProcess \/ EnterProgram \/ Return \/ SystemCall
  BY <1>1, <1>3, <1>4, <1>6, PlainRunning
<1>7. CASE Printing \/ Pressed \/ Tick \/ SpinRight \/ Forget \/ Idle \/ UNCHANGED vars
  BY <1>1, <1>3, <1>4, <1>7, PlainOutside
<1> QED BY <1>5, <1>6, <1>7 DEF Next, Run

\* elf64_load_exec builds the image the file describes: a plain program is
\* entered with every address of its segments mapped and holding what the file
\* and its relocations say, for every file, page size and order of keys, ticks
\* and evictions.
THEOREM ProgramImageLoaded == Spec => []ImageLoaded
<1>1. Init => ImageInv
  BY WholeInit, PlainInit DEF ImageInv
<1>2. ImageInv => ImageLoaded
  <2> SUFFICES ASSUME ImageInv, stage = "user", Plain(file),
                      NEW i \in Loads(file), NEW x \in InSegment(file.segs[i])
               PROVE  Mapped(x) /\ frames[Frame(PageOf(x))][x % PAGE] = Expected(file, x)
    BY DEF ImageLoaded
  <2>1. MapInv /\ InMemory(x, Expected(file, x))
    BY DEF ImageInv, PlainInv, Complete
  <2> QED BY <2>1, MappedIs, FrameIs DEF InMemory
<1> QED BY <1>1, <1>2, ImageStep, PTL DEF Spec
=============================================================================
