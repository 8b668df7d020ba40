----------------------------- MODULE ShellProofs -----------------------------
(***************************************************************************)
(* Proofs about the shell and the terminal, for every size of the terminal *)
(* and of the buffer, every set of keys and every text written before: the *)
(* functions of tio.c leave cursor and view inside the full buffer, or say *)
(* that they have left it at its last page; what is rendered keeps showing *)
(* the view; the line kbGetLine edits is the one LineBuffer promises, and  *)
(* the row of the cursor shows it.                                         *)
(*                                                                         *)
(* The first sections are about the record of the terminal and say what    *)
(* each operator of Terminal does to it; then come the line in the buffer  *)
(* and the invariant ShellInv that ties the two together.                  *)
(***************************************************************************)
EXTENDS Shell, NumberLemmas

-----------------------------------------------------------------------------
(* The sizes of the terminal *)

Rows == FVB_PAGES * TERM_HEIGHT

LEMMA Dimensions ==
  /\ TERM_WIDTH \in Nat /\ TERM_WIDTH >= 3
  /\ TERM_HEIGHT \in Nat /\ TERM_HEIGHT >= 3
  /\ FVB_PAGES \in Nat /\ FVB_PAGES >= 2 /\ FVB_PAGES <= TERM_HEIGHT
  /\ Rows \in Nat /\ 2 * TERM_HEIGHT <= Rows /\ FVB_PAGES < Rows
  /\ (FVB_PAGES - 1) * TERM_HEIGHT = Rows - TERM_HEIGHT
  /\ VB_SIZE = TERM_HEIGHT * TERM_WIDTH /\ FVB_SIZE = Rows * TERM_WIDTH
<1>1. /\ TERM_WIDTH \in Nat /\ TERM_WIDTH >= 3
      /\ TERM_HEIGHT \in Nat /\ TERM_HEIGHT >= 3
      /\ FVB_PAGES \in Nat /\ FVB_PAGES >= 2 /\ FVB_PAGES <= TERM_HEIGHT
  BY TerminalAssumption
<1> DEFINE w == TERM_WIDTH
           h == TERM_HEIGHT
           p == FVB_PAGES
<1>2. w \in Nat /\ h \in Nat /\ h >= 3 /\ p \in Nat /\ p >= 2
  BY <1>1
<1> HIDE DEF w, h, p
<1>3. p * h \in Nat
  BY <1>2
<1>4. 2 * h <= p * h
  BY <1>2
<1>5. p * 3 <= p * h
  BY <1>2
<1>6. (p - 1) * h = p * h - h
  BY <1>2
<1>7. w * h = h * w /\ p * (w * h) = (p * h) * w
  BY <1>2
<1>8. p < p * h
  BY <1>2, <1>3, <1>5
<1> QED BY <1>1, <1>3, <1>4, <1>6, <1>7, <1>8 DEF Rows, VB_SIZE, FVB_SIZE, w, h, p

LEMMA Sizes ==
  /\ BUFFER_SIZE \in Nat /\ MaxLine \in Nat /\ MaxLine < BUFFER_SIZE
  /\ Letters \subseteq Chars /\ Enders \subseteq Chars /\ NUL \notin Chars
BY ShellAssumption DEF NUL

\* The places of a row, in front of those of the rows behind it.
LEMMA RowOrder ==
  ASSUME NEW r \in Int, NEW s \in Int
  PROVE  /\ r * TERM_WIDTH \in Int
         /\ (r + s) * TERM_WIDTH = r * TERM_WIDTH + s * TERM_WIDTH
         /\ (r + 1) * TERM_WIDTH = r * TERM_WIDTH + TERM_WIDTH
         /\ r < s => r * TERM_WIDTH + TERM_WIDTH <= s * TERM_WIDTH
         /\ r <= s => r * TERM_WIDTH <= s * TERM_WIDTH
         /\ r >= 0 => r * TERM_WIDTH >= 0
<1> DEFINE w == TERM_WIDTH
<1>1. w \in Nat
  BY Dimensions
<1> HIDE DEF w
<1>2. r * w \in Int /\ s * w \in Int
  BY <1>1
<1>3. (r + s) * w = r * w + s * w /\ (r + 1) * w = r * w + w
  BY <1>1
<1>4. ASSUME r < s PROVE r * w + w <= s * w
  <2>1. (r + 1) * w <= s * w
    BY <1>1, <1>4
  <2> QED BY <1>3, <2>1
<1>5. ASSUME r <= s PROVE r * w <= s * w
  BY <1>1, <1>5
<1>6. r >= 0 => r * w >= 0
  BY <1>1
<1> QED BY <1>2, <1>3, <1>4, <1>5, <1>6 DEF w

\* Where the place in column x of row r is.
LEMMA Places ==
  ASSUME NEW r \in Int, NEW x \in 0 .. TERM_WIDTH - 1
  PROVE  /\ r * TERM_WIDTH + x \in Cells <=> r >= 0 /\ r < Rows
         /\ r * TERM_WIDTH + x \in Screen <=> r >= 0 /\ r < TERM_HEIGHT
<1> USE Dimensions
<1>1. 0 * TERM_WIDTH = 0
  OBVIOUS
<1>2. r * TERM_WIDTH \in Int /\ Rows * TERM_WIDTH \in Int /\ TERM_HEIGHT * TERM_WIDTH \in Int
  BY RowOrder
<1>3. r < 0 => r * TERM_WIDTH + TERM_WIDTH <= 0
  <2>1. r < 0 => r * TERM_WIDTH + TERM_WIDTH <= 0 * TERM_WIDTH
    BY RowOrder
  <2> QED BY <1>1, <2>1
<1>4. r >= 0 => r * TERM_WIDTH >= 0
  BY RowOrder
<1>5. r < Rows => r * TERM_WIDTH + TERM_WIDTH <= Rows * TERM_WIDTH
  BY RowOrder
<1>6. Rows <= r => Rows * TERM_WIDTH <= r * TERM_WIDTH
  BY RowOrder
<1>7. r < TERM_HEIGHT => r * TERM_WIDTH + TERM_WIDTH <= TERM_HEIGHT * TERM_WIDTH
  BY RowOrder
<1>8. TERM_HEIGHT <= r => TERM_HEIGHT * TERM_WIDTH <= r * TERM_WIDTH
  BY RowOrder
<1> DEFINE a == r * TERM_WIDTH
           b == Rows * TERM_WIDTH
           d == TERM_HEIGHT * TERM_WIDTH
<1>9. Cells = 0 .. b - 1 /\ Screen = 0 .. d - 1
  BY DEF Cells, Screen
<1> HIDE DEF a, b, d
<1>10. a \in Int /\ b \in Int /\ d \in Int
  BY <1>2 DEF a, b, d
<1>11. a + x \in 0 .. b - 1 <=> r >= 0 /\ r < Rows
  BY <1>3, <1>4, <1>5, <1>6, <1>10 DEF a, b
<1>12. a + x \in 0 .. d - 1 <=> r >= 0 /\ r < TERM_HEIGHT
  BY <1>3, <1>4, <1>7, <1>8, <1>10 DEF a, d
<1> QED BY <1>9, <1>11, <1>12 DEF a

-----------------------------------------------------------------------------
(* The view *)

Value == Chars \union {Blank, Other}

LEMMA TermFields ==
  ASSUME NEW t \in TerminalState
  PROVE  /\ t.fvb \in [Cells -> Value] /\ t.vb \in [Screen -> Value]
         /\ t.row \in Int /\ t.x \in Int /\ t.x >= 0 /\ t.x < TERM_WIDTH /\ t.y \in Int
         /\ t.on_screen \in BOOLEAN /\ t.drawn \in BOOLEAN
         /\ t.x \in 0 .. TERM_WIDTH - 1
BY Dimensions DEF TerminalState, Value

LEMMA LostIs ==
  ASSUME NEW t
  PROVE  Lost(t) <=> t.row < 0 \/ t.row + t.y >= Rows
BY DEF Lost, Rows

\* The view does not reach the end of the buffer.
HasRoom(t) == t.row < 0 \/ t.row + TERM_HEIGHT < Rows

\* What a round of __view_shift changes.
LEMMA ShiftedUpIs ==
  ASSUME NEW t \in TerminalState
  PROVE  LET u == ShiftedUp(t)
         IN  /\ u \in TerminalState
             /\ u.x = t.x /\ u.y = t.y - 1 /\ u.vb = t.vb
             /\ u.on_screen = t.on_screen /\ u.drawn = FALSE
             /\ t.row + 1 + TERM_HEIGHT < Rows => u.row = t.row + 1 /\ u.fvb = t.fvb
             /\ t.row + 1 + TERM_HEIGHT >= Rows => u.row = FVB_PAGES - 2 * TERM_HEIGHT + 1
<1> DEFINE f == IF t.row + 1 + TERM_HEIGHT >= Rows THEN vb_shift_pages(t.fvb) ELSE t.fvb
           r == IF t.row + 1 + TERM_HEIGHT >= Rows THEN FVB_PAGES - 2 * TERM_HEIGHT + 1
                ELSE t.row + 1
           y == t.y - 1
           u == ShiftedUp(t)
<1>1. f \in [Cells -> Value]
  BY TermFields DEF vb_shift_pages, Value
<1>2. r \in Int /\ y \in Int
  BY TermFields, Dimensions
<1>3. u = [t EXCEPT !.y = y, !.drawn = FALSE, !.fvb = f, !.row = r]
  BY DEF ShiftedUp, Rows, TerminalState
<1>4. /\ t.row + 1 + TERM_HEIGHT < Rows => r = t.row + 1 /\ f = t.fvb
      /\ t.row + 1 + TERM_HEIGHT >= Rows => r = FVB_PAGES - 2 * TERM_HEIGHT + 1
  BY TermFields, Dimensions
<1>5. y = t.y - 1
  OBVIOUS
<1>6. t \in TerminalState
  OBVIOUS
<1> HIDE DEF f, r, y, u
<1>7. u \in TerminalState
  BY <1>1, <1>2, <1>3, <1>6 DEF TerminalState, Value
<1>8. /\ u.x = t.x /\ u.y = y /\ u.vb = t.vb
      /\ u.on_screen = t.on_screen /\ u.drawn = FALSE
      /\ u.row = r /\ u.fvb = f
  BY <1>3, <1>6 DEF TerminalState
<1> QED BY <1>4, <1>5, <1>7, <1>8 DEF u

LEMMA RenderedIs ==
  ASSUME NEW t \in TerminalState, HasRoom(t)
  PROVE  LET u == render_screen(t)
         IN  /\ u \in TerminalState
             /\ u.fvb = t.fvb /\ u.row = t.row /\ u.x = t.x /\ u.y = t.y
             /\ u.on_screen = t.on_screen
             /\ ~ Lost(t) => u.drawn /\ ScreenIsView(u)
<1> USE TermFields
<1>1. CASE Lost(t)
  BY <1>1 DEF render_screen
<1>2. CASE ~ Lost(t)
  <2> DEFINE v == [i \in Screen |-> t.fvb[t.row * TERM_WIDTH + i]]
  <2>1. render_screen(t) = [t EXCEPT !.vb = v, !.drawn = TRUE]
    BY <1>2 DEF render_screen, view_get_buffer_start_index
  <2>2. ASSUME NEW i \in Screen PROVE t.row * TERM_WIDTH + i \in Cells
    <3>1. t.row \in Int /\ t.row >= 0 /\ t.row + TERM_HEIGHT < Rows
      BY <1>2, LostIs DEF HasRoom
    <3> DEFINE a == t.row * TERM_WIDTH
               d == TERM_HEIGHT * TERM_WIDTH
               b == Rows * TERM_WIDTH
    <3>2. a \in Int /\ a >= 0
      BY <3>1, RowOrder
    <3>3. (t.row + TERM_HEIGHT) * TERM_WIDTH = a + d
      BY <3>1, RowOrder, Dimensions
    <3>4. (t.row + TERM_HEIGHT) * TERM_WIDTH + TERM_WIDTH <= b
      BY <3>1, RowOrder, Dimensions
    <3>5. b \in Int /\ d \in Int
      BY RowOrder, Dimensions
    <3>6. i \in 0 .. d - 1 /\ Cells = 0 .. b - 1
      BY Dimensions DEF Screen, Cells
    <3> HIDE DEF a, b, d
    <3>7. a + i \in 0 .. b - 1
      BY <3>2, <3>3, <3>4, <3>5, <3>6, Dimensions
    <3> QED BY <3>6, <3>7 DEF a
  <2>3. v \in [Screen -> Value]
    BY <2>2
  <2> HIDE DEF v
  <2> DEFINE u == render_screen(t)
  <2>4. /\ u \in TerminalState
        /\ u.fvb = t.fvb /\ u.row = t.row /\ u.x = t.x /\ u.y = t.y
        /\ u.on_screen = t.on_screen /\ u.drawn = TRUE /\ u.vb = v
    BY <2>1, <2>3 DEF TerminalState, Value
  <2> HIDE DEF u
  <2>5. ScreenIsView(u)
    BY <2>4 DEF ScreenIsView, view_get_buffer_start_index, v
  <2> QED BY <1>2, <2>4, <2>5 DEF u
<1> QED BY <1>1, <1>2

\* The end of __view_shift.
LEMMA ViewShiftedIs ==
  ASSUME NEW t \in TerminalState, HasRoom(t)
  PROVE  LET u == ViewShifted(t)
         IN  /\ u \in TerminalState
             /\ u.fvb = t.fvb /\ u.row = t.row /\ u.x = t.x /\ u.y = t.y
             /\ ~ Lost(t) => u.drawn /\ ScreenIsView(u)
<1> DEFINE s == [t EXCEPT !.on_screen = t.y > 0 /\ t.y < TERM_HEIGHT]
<1>1. (t.y > 0 /\ t.y < TERM_HEIGHT) \in BOOLEAN
  OBVIOUS
<1>2. s \in TerminalState /\ s.fvb = t.fvb /\ s.row = t.row /\ s.x = t.x /\ s.y = t.y
  BY <1>1 DEF TerminalState
<1>3. ViewShifted(t) = render_screen(s)
  BY DEF ViewShifted
<1> HIDE DEF s
<1>4. HasRoom(s) /\ (Lost(s) <=> Lost(t))
  BY <1>2 DEF HasRoom, Lost
<1> QED BY <1>2, <1>3, <1>4, RenderedIs

\* The rounds of the loop, one after the other.
LEMMA RoundsUp ==
  ASSUME NEW t, NEW n \in Nat
  PROVE  \E f : /\ f = [i \in 0 .. n |-> IF i = 0 THEN t ELSE ShiftedUp(f[i - 1])]
                /\ ShiftedUpTimes(t, n) = f[n]
<1> DEFINE Rounds(m, f) == f = [i \in 0 .. m |-> IF i = 0 THEN t ELSE ShiftedUp(f[i - 1])]
           S == {m \in Nat : \E f : Rounds(m, f)}
<1>1. 0 \in S
  <2> DEFINE g == [i \in 0 .. 0 |-> t]
  <2>1. Rounds(0, g)
    OBVIOUS
  <2> QED BY <2>1
<1>2. ASSUME NEW m \in S PROVE m + 1 \in S
  <2>1. PICK f : Rounds(m, f)
    OBVIOUS
  <2> DEFINE g == [i \in 0 .. m + 1 |-> IF i = m + 1 THEN ShiftedUp(f[m]) ELSE f[i]]
  <2>2. ASSUME NEW i \in 0 .. m + 1
        PROVE  g[i] = IF i = 0 THEN t ELSE ShiftedUp(g[i - 1])
    <3>1. CASE i = 0
      BY <2>1, <3>1
    <3>2. CASE i \in 1 .. m
      BY <2>1, <3>2
    <3>3. CASE i = m + 1
      BY <3>3
    <3> QED BY <3>1, <3>2, <3>3
  <2>3. Rounds(m + 1, g)
    BY <2>2
  <2> HIDE DEF Rounds
  <2> QED BY <2>3
<1>3. n \in S
  <2>1. S \subseteq Nat
    OBVIOUS
  <2> HIDE DEF S
  <2> QED BY <1>1, <1>2, <2>1, Induction
<1> DEFINE U == CHOOSE f : Rounds(n, f)
<1>4. Rounds(n, U)
  BY <1>3
<1>5. ShiftedUpTimes(t, n) = U[n]
  BY DEF ShiftedUpTimes
<1> QED BY <1>4, <1>5

\* The terminal after i of the rounds: nothing is lost but at the end of the buffer,
\* where the view is put in front of it.
AfterRounds(t, i, u) ==
  /\ u \in TerminalState
  /\ u.x = t.x /\ u.y = t.y - i /\ u.vb = t.vb /\ u.on_screen = t.on_screen
  /\ IF i = 0 THEN u = t ELSE u.drawn = FALSE
  /\ t.row + i + TERM_HEIGHT < Rows => u.row = t.row + i /\ u.fvb = t.fvb
  /\ t.row + i + TERM_HEIGHT >= Rows =>
       u.row = FVB_PAGES - 2 * TERM_HEIGHT + 1 + (t.row + i + TERM_HEIGHT - Rows)

LEMMA NextRound ==
  ASSUME NEW t \in TerminalState, t.row >= 0, t.row + TERM_HEIGHT < Rows,
         NEW i \in Nat, t.row + i + 1 < Rows, NEW u, AfterRounds(t, i, u)
  PROVE  AfterRounds(t, i + 1, ShiftedUp(u))
<1> DEFINE v == ShiftedUp(u)
<1>1. /\ t.row \in Int /\ t.y \in Int
      /\ u \in TerminalState /\ u.row \in Int
  BY TermFields DEF AfterRounds
<1>2. /\ v \in TerminalState
      /\ v.x = u.x /\ v.y = u.y - 1 /\ v.vb = u.vb
      /\ v.on_screen = u.on_screen /\ v.drawn = FALSE
  BY <1>1, ShiftedUpIs
<1>3. /\ u.row + 1 + TERM_HEIGHT < Rows => v.row = u.row + 1 /\ v.fvb = u.fvb
      /\ u.row + 1 + TERM_HEIGHT >= Rows => v.row = FVB_PAGES - 2 * TERM_HEIGHT + 1
  BY <1>1, ShiftedUpIs
<1> HIDE DEF v
<1>4. v.x = t.x /\ v.vb = t.vb /\ v.on_screen = t.on_screen
  BY <1>2 DEF AfterRounds
<1>5. v.y = t.y - (i + 1) /\ i + 1 # 0
  BY <1>1, <1>2 DEF AfterRounds
<1>6. ASSUME t.row + (i + 1) + TERM_HEIGHT < Rows
      PROVE  v.row = t.row + (i + 1) /\ v.fvb = t.fvb
  <2>1. u.row = t.row + i /\ u.fvb = t.fvb
    BY <1>1, <1>6, Dimensions DEF AfterRounds
  <2>2. u.row + 1 + TERM_HEIGHT < Rows
    BY <1>1, <1>6, <2>1, Dimensions
  <2> QED BY <1>1, <1>3, <2>1, <2>2
<1>7. ASSUME t.row + (i + 1) + TERM_HEIGHT >= Rows
      PROVE  v.row = FVB_PAGES - 2 * TERM_HEIGHT + 1 + (t.row + (i + 1) + TERM_HEIGHT - Rows)
  <2>1. CASE t.row + i + TERM_HEIGHT < Rows
    <3>1. u.row = t.row + i
      BY <2>1 DEF AfterRounds
    <3> QED BY <1>1, <1>3, <1>7, <2>1, <3>1, Dimensions
  <2>2. CASE t.row + i + TERM_HEIGHT >= Rows
    <3>1. u.row = FVB_PAGES - 2 * TERM_HEIGHT + 1 + (t.row + i + TERM_HEIGHT - Rows)
      BY <2>2 DEF AfterRounds
    <3>2. u.row + 1 + TERM_HEIGHT < Rows
      BY <1>1, <3>1, Dimensions
    <3> QED BY <1>1, <1>3, <3>1, <3>2, Dimensions
  <2> QED BY <1>1, <2>1, <2>2, Dimensions
<1>8. AfterRounds(t, i + 1, v)
  BY <1>2, <1>4, <1>5, <1>6, <1>7 DEF AfterRounds
<1> QED BY <1>8 DEF v

LEMMA ShiftedUpTimesIs ==
  ASSUME NEW t \in TerminalState, t.row >= 0, t.row + TERM_HEIGHT < Rows,
         NEW n \in Nat, t.row + n < Rows
  PROVE  AfterRounds(t, n, ShiftedUpTimes(t, n))
<1>1. PICK f : /\ f = [i \in 0 .. n |-> IF i = 0 THEN t ELSE ShiftedUp(f[i - 1])]
               /\ ShiftedUpTimes(t, n) = f[n]
  BY RoundsUp
<1>2. t.row \in Int
  BY TermFields
<1> DEFINE S == {i \in Nat : i <= n => AfterRounds(t, i, f[i])}
<1>3. 0 \in S
  <2>1. f[0] = t
    BY <1>1
  <2>2. t.y - 0 = t.y /\ t.row + 0 = t.row
    BY TermFields
  <2>3. AfterRounds(t, 0, t)
    BY <1>2, <2>2, Dimensions DEF AfterRounds
  <2> QED BY <2>1, <2>3
<1>4. ASSUME NEW i \in S PROVE i + 1 \in S
  <2>1. i \in Nat /\ (i <= n => AfterRounds(t, i, f[i]))
    OBVIOUS
  <2>2. ASSUME i + 1 <= n PROVE AfterRounds(t, i + 1, f[i + 1])
    <3>1. f[i + 1] = ShiftedUp(f[i])
      <4>1. i + 1 \in 0 .. n /\ i + 1 # 0 /\ (i + 1) - 1 = i
        BY <2>1, <2>2
      <4> QED BY <1>1, <4>1
    <3>2. AfterRounds(t, i, f[i]) /\ t.row + i + 1 < Rows
      BY <1>2, <2>1, <2>2, Dimensions
    <3> QED BY <2>1, <3>1, <3>2, NextRound
  <2>3. i + 1 \in Nat
    BY <2>1
  <2> QED BY <2>2, <2>3
<1>5. n \in S
  <2>1. S \subseteq Nat
    OBVIOUS
  <2> HIDE DEF S
  <2> QED BY <1>3, <1>4, <2>1, Induction
<1> QED BY <1>1, <1>5

LEMMA OneRoundUp ==
  ASSUME NEW t
  PROVE  ShiftedUpTimes(t, 1) = ShiftedUp(t)
<1>1. PICK f : /\ f = [i \in 0 .. 1 |-> IF i = 0 THEN t ELSE ShiftedUp(f[i - 1])]
               /\ ShiftedUpTimes(t, 1) = f[1]
  BY RoundsUp
<1>2. f[0] = t /\ f[1] = ShiftedUp(f[0])
  BY <1>1
<1> QED BY <1>1, <1>2

\* The view moves a row up, with the cursor.
LEMMA UpOneIs ==
  ASSUME NEW t \in TerminalState, HasRoom(t), t.y >= 1
  PROVE  LET u == view_shift_up(t, 1)
         IN  /\ u \in TerminalState /\ u.y = t.y - 1 /\ u.x = t.x
             /\ t.row + 1 + TERM_HEIGHT < Rows =>
                  /\ u.row = t.row + 1 /\ u.fvb = t.fvb
                  /\ ~ Lost(u) => u.drawn /\ ScreenIsView(u)
             /\ t.row + 1 + TERM_HEIGHT >= Rows => u.row = FVB_PAGES - 2 * TERM_HEIGHT + 1
<1> DEFINE s == ShiftedUp(t)
           u == view_shift_up(t, 1)
<1>1. /\ s \in TerminalState /\ s.x = t.x /\ s.y = t.y - 1
      /\ t.row + 1 + TERM_HEIGHT < Rows => s.row = t.row + 1 /\ s.fvb = t.fvb
      /\ t.row + 1 + TERM_HEIGHT >= Rows => s.row = FVB_PAGES - 2 * TERM_HEIGHT + 1
  BY ShiftedUpIs
<1>2. u = ViewShifted(s)
  <2>1. ~ (1 < 0) /\ ~ (1 > t.y)
    BY TermFields
  <2> QED BY <2>1, OneRoundUp DEF view_shift_up
<1> HIDE DEF s, u
<1>3. HasRoom(s)
  BY <1>1, TermFields, Dimensions DEF HasRoom
<1>4. /\ u \in TerminalState
      /\ u.fvb = s.fvb /\ u.row = s.row /\ u.x = s.x /\ u.y = s.y
      /\ ~ Lost(s) => u.drawn /\ ScreenIsView(u)
  BY <1>1, <1>2, <1>3, ViewShiftedIs
<1>5. Lost(u) <=> Lost(s)
  BY <1>4 DEF Lost
<1> QED BY <1>1, <1>4, <1>5 DEF u

\* What every function of tio.c leaves behind: unless view or cursor have left the
\* buffer, they are inside it, and what was rendered still shows.
TermOK(t) ==
  /\ t \in TerminalState
  /\ ~ Lost(t) => /\ t.y >= 0 /\ t.row + TERM_HEIGHT < Rows
                  /\ t.drawn => ScreenIsView(t)

\* The cursor is where it was in the text.
Kept(t, u) == u.x = t.x /\ u.fvb = t.fvb /\ CursorRow(u) = CursorRow(t)

\* The cursor is at the next place of the text.
Advanced(t, u) ==
  /\ u.fvb = t.fvb
  /\ IF t.x + 1 < TERM_WIDTH THEN u.x = t.x + 1 /\ CursorRow(u) = CursorRow(t)
     ELSE u.x = 0 /\ CursorRow(u) = CursorRow(t) + 1

LEMMA StepIs ==
  ASSUME NEW t \in TerminalState, t.row >= 0, t.row + TERM_HEIGHT < Rows, t.y >= 0,
         t.y < TERM_HEIGHT - 1 /\ t.drawn => ScreenIsView(t)
  PROVE  LET u == StepOffLastRow(t)
         IN  /\ TermOK(u)
             /\ ~ Lost(u) => Kept(t, u)
             /\ Lost(u) => CursorRow(t) >= Rows - 2
<1> DEFINE u == StepOffLastRow(t)
<1>1. t.row \in Int /\ t.y \in Int
  BY TermFields
<1>2. CASE t.y < TERM_HEIGHT - 1
  <2>1. u = t
    BY <1>1, <1>2, Dimensions DEF StepOffLastRow
  <2>2. ~ Lost(t)
    BY <1>1, <1>2, LostIs, Dimensions
  <2> QED BY <1>2, <2>1, <2>2 DEF TermOK, Kept
<1>3. CASE t.y >= TERM_HEIGHT - 1
  <2>1. u = view_shift_up(t, 1)
    BY <1>3 DEF StepOffLastRow
  <2>2. HasRoom(t) /\ t.y >= 1
    BY <1>1, <1>3, Dimensions DEF HasRoom
  <2>3. /\ u \in TerminalState /\ u.y = t.y - 1 /\ u.x = t.x
        /\ t.row + 1 + TERM_HEIGHT < Rows =>
             /\ u.row = t.row + 1 /\ u.fvb = t.fvb
             /\ ~ Lost(u) => u.drawn /\ ScreenIsView(u)
        /\ t.row + 1 + TERM_HEIGHT >= Rows => u.row = FVB_PAGES - 2 * TERM_HEIGHT + 1
    BY <2>1, <2>2, UpOneIs
  <2> HIDE DEF u
  <2>4. CASE t.row + 1 + TERM_HEIGHT < Rows
    <3>1. CursorRow(u) = CursorRow(t)
      BY <1>1, <2>3, <2>4 DEF CursorRow
    <3>2. u.row >= 0 /\ u.y >= 0 /\ u.row + TERM_HEIGHT < Rows
      BY <1>1, <2>2, <2>3, <2>4, Dimensions
    <3>3. Lost(u) <=> u.row < 0 \/ u.row + u.y >= Rows
      BY LostIs
    <3>4. Lost(u) => CursorRow(t) >= Rows - 2
      BY <1>1, <2>3, <2>4, <3>3, Dimensions DEF CursorRow
    <3> QED BY <2>3, <2>4, <3>1, <3>2, <3>4 DEF TermOK, Kept, u
  <2>5. CASE t.row + 1 + TERM_HEIGHT >= Rows
    <3>1. Lost(u)
      BY <2>3, <2>5, LostIs, Dimensions
    <3>2. CursorRow(t) >= Rows - 2
      BY <1>1, <1>3, <2>5, Dimensions DEF CursorRow
    <3> QED BY <2>3, <3>1, <3>2 DEF TermOK, u
  <2> QED BY <1>1, <2>4, <2>5, Dimensions
<1> QED BY <1>1, <1>2, <1>3, Dimensions

\* The cursor moves on, the view does not.
OneOn(t) == IF t.x + 1 >= TERM_WIDTH THEN [t EXCEPT !.x = 0, !.y = t.y + 1]
            ELSE [t EXCEPT !.x = t.x + 1]

LEMMA MovedOn ==
  ASSUME NEW t \in TerminalState
  PROVE  /\ OneOn(t) \in TerminalState
         /\ OneOn(t).row = t.row /\ OneOn(t).fvb = t.fvb /\ OneOn(t).vb = t.vb
         /\ OneOn(t).drawn = t.drawn
         /\ IF t.x + 1 < TERM_WIDTH THEN OneOn(t).x = t.x + 1 /\ OneOn(t).y = t.y
            ELSE OneOn(t).x = 0 /\ OneOn(t).y = t.y + 1
<1> DEFINE u == OneOn(t)
<1>1. /\ t.x \in Int /\ t.x >= 0 /\ t.x < TERM_WIDTH /\ TERM_WIDTH \in Nat
      /\ TERM_WIDTH >= 3 /\ t.y \in Int
  BY TermFields, Dimensions
<1>2. CASE t.x + 1 >= TERM_WIDTH
  <2>1. u = [t EXCEPT !.x = 0, !.y = t.y + 1]
    BY <1>2 DEF OneOn
  <2>2. 0 \in 0 .. TERM_WIDTH - 1 /\ t.y + 1 \in Int
    BY <1>1
  <2> HIDE DEF u
  <2>3. u \in TerminalState
    BY <2>1, <2>2 DEF TerminalState
  <2>4. /\ u.row = t.row /\ u.fvb = t.fvb /\ u.vb = t.vb /\ u.drawn = t.drawn
        /\ u.x = 0 /\ u.y = t.y + 1
    BY <2>1 DEF TerminalState
  <2> QED BY <1>1, <1>2, <2>3, <2>4 DEF u
<1>3. CASE t.x + 1 < TERM_WIDTH
  <2>1. u = [t EXCEPT !.x = t.x + 1]
    BY <1>1, <1>3 DEF OneOn
  <2>2. t.x + 1 \in 0 .. TERM_WIDTH - 1
    BY <1>1, <1>3
  <2> HIDE DEF u
  <2>3. u \in TerminalState
    BY <2>1, <2>2 DEF TerminalState
  <2>4. /\ u.row = t.row /\ u.fvb = t.fvb /\ u.vb = t.vb /\ u.drawn = t.drawn
        /\ u.x = t.x + 1 /\ u.y = t.y
    BY <2>1 DEF TerminalState
  <2> QED BY <1>1, <1>3, <2>3, <2>4 DEF u
<1> QED BY <1>1, <1>2, <1>3

LEMMA IncIs ==
  ASSUME NEW t \in TerminalState, t.row >= 0, t.row + TERM_HEIGHT < Rows, t.y >= 0,
         t.y < TERM_HEIGHT - 1 /\ t.drawn => ScreenIsView(t)
  PROVE  LET u == tio_cursor_inc(t)
         IN  /\ TermOK(u)
             /\ ~ Lost(u) => Advanced(t, u)
             /\ Lost(u) => CursorRow(t) >= Rows - 3
<1> DEFINE s == OneOn(t)
           u == StepOffLastRow(s)
<1>1. tio_cursor_inc(t) = u
  BY DEF tio_cursor_inc, OneOn
<1>2. t.row \in Int /\ t.y \in Int /\ t.x \in 0 .. TERM_WIDTH - 1 /\ TERM_WIDTH \in Nat
  BY TermFields, Dimensions
<1>3. /\ s \in TerminalState
      /\ s.row = t.row /\ s.fvb = t.fvb /\ s.vb = t.vb /\ s.drawn = t.drawn
  BY MovedOn
<1>4. IF t.x + 1 < TERM_WIDTH THEN s.x = t.x + 1 /\ s.y = t.y
      ELSE s.x = 0 /\ s.y = t.y + 1
  BY MovedOn
<1> HIDE DEF s, u
<1>5. s.y >= 0 /\ s.y >= t.y /\ s.y <= t.y + 1 /\ s.y \in Int
  BY <1>2, <1>4
<1>6. s.y < TERM_HEIGHT - 1 /\ s.drawn => ScreenIsView(s)
  <2>1. ScreenIsView(s) <=> ScreenIsView(t)
    BY <1>3 DEF ScreenIsView, view_get_buffer_start_index
  <2>2. s.y < TERM_HEIGHT - 1 => t.y < TERM_HEIGHT - 1
    BY <1>2, <1>5, Dimensions
  <2> QED BY <1>3, <2>1, <2>2
<1>7. /\ TermOK(u)
      /\ ~ Lost(u) => Kept(s, u)
      /\ Lost(u) => CursorRow(s) >= Rows - 2
  BY <1>3, <1>5, <1>6, StepIs DEF u
<1>8. Kept(s, u) => Advanced(t, u)
  BY <1>2, <1>3, <1>4 DEF Kept, Advanced, CursorRow
<1>9. CursorRow(s) >= Rows - 2 => CursorRow(t) >= Rows - 3
  BY <1>2, <1>3, <1>5, Dimensions DEF CursorRow
<1> QED BY <1>1, <1>7, <1>8, <1>9

\* When the view has left the buffer, moving the cursor on does not bring it back.
LEMMA LostInc ==
  ASSUME NEW t \in TerminalState, t.row < 0, t.row + 1 < 0 \/ t.y = 0
  PROVE  tio_cursor_inc(t) \in TerminalState /\ Lost(tio_cursor_inc(t))
<1> DEFINE s == OneOn(t)
           u == StepOffLastRow(s)
<1>1. tio_cursor_inc(t) = u
  BY DEF tio_cursor_inc, OneOn
<1>2. t.row \in Int /\ t.y \in Int /\ t.x \in 0 .. TERM_WIDTH - 1 /\ TERM_WIDTH \in Nat
  BY TermFields, Dimensions
<1>3. s \in TerminalState /\ s.row = t.row
  BY MovedOn
<1>4. s.y = t.y \/ s.y = t.y + 1
  BY MovedOn
<1> HIDE DEF s
<1>5. CASE s.y >= TERM_HEIGHT - 1
  <2>1. u = view_shift_up(s, 1)
    BY <1>5 DEF StepOffLastRow
  <2>2. HasRoom(s) /\ s.y >= 1 /\ t.row + 1 < 0 /\ s.row + 1 + TERM_HEIGHT < Rows
    BY <1>2, <1>3, <1>4, <1>5, Dimensions DEF HasRoom
  <2> HIDE DEF u
  <2>3. u \in TerminalState /\ u.row = s.row + 1
    BY <1>3, <2>1, <2>2, UpOneIs
  <2>4. Lost(u)
    BY <1>3, <2>2, <2>3, LostIs
  <2> QED BY <1>1, <2>3, <2>4
<1>6. CASE ~ (s.y >= TERM_HEIGHT - 1)
  <2>1. u = s
    BY <1>6 DEF StepOffLastRow
  <2> QED BY <1>1, <1>3, <2>1, LostIs
<1> QED BY <1>5, <1>6

-----------------------------------------------------------------------------
(* Writing *)

\* The place of the cursor in the buffer.
Index(t) == CursorRow(t) * TERM_WIDTH + t.x

\* Position and view, and what else is neither buffer nor display.
SamePlace(t, u) ==
  /\ u.row = t.row /\ u.x = t.x /\ u.y = t.y
  /\ u.on_screen = t.on_screen /\ u.drawn = t.drawn

LEMMA ShownIs ==
  ASSUME NEW t \in TerminalState, NEW c \in Value
  PROVE  LET u == platform_set(t, cursor_get_index(t), c)
         IN  /\ u \in TerminalState /\ SamePlace(t, u) /\ u.fvb = t.fvb
             /\ \A i \in Screen :
                  u.vb[i] = IF i = t.y * TERM_WIDTH + t.x THEN c ELSE t.vb[i]
<1> DEFINE k == t.y * TERM_WIDTH + t.x
           u == platform_set(t, cursor_get_index(t), c)
<1>1. u = IF k \in Screen THEN [t EXCEPT !.vb[k] = c] ELSE t
  BY DEF platform_set, cursor_get_index
<1>2. t.vb \in [Screen -> Value]
  BY TermFields
<1> HIDE DEF k, u
<1>3. CASE k \in Screen
  <2> DEFINE g == [t.vb EXCEPT ![k] = c]
  <2>1. u = [t EXCEPT !.vb = g]
    BY <1>1, <1>3
  <2>2. g \in [Screen -> Value] /\ \A i \in Screen : g[i] = IF i = k THEN c ELSE t.vb[i]
    BY <1>2, <1>3
  <2> HIDE DEF g
  <2>3. u \in TerminalState
    BY <2>1, <2>2 DEF TerminalState, Value
  <2>4. SamePlace(t, u) /\ u.fvb = t.fvb /\ u.vb = g
    BY <2>1 DEF TerminalState, SamePlace
  <2> QED BY <2>2, <2>3, <2>4 DEF u, k
<1>4. CASE k \notin Screen
  BY <1>1, <1>4 DEF SamePlace, u, k
<1> QED BY <1>3, <1>4

LEMMA PutIs ==
  ASSUME NEW t \in TerminalState, NEW c \in Value
  PROVE  LET u == vb_set_value(t, cursor_get_index_in_buffer(t), c)
         IN  /\ u \in TerminalState /\ SamePlace(t, u) /\ u.vb = t.vb
             /\ \A i \in Cells : u.fvb[i] = IF i = Index(t) THEN c ELSE t.fvb[i]
<1> DEFINE k == Index(t)
           u == vb_set_value(t, cursor_get_index_in_buffer(t), c)
<1>1. u = IF k \in Cells THEN [t EXCEPT !.fvb[k] = c] ELSE t
  BY DEF vb_set_value, cursor_get_index_in_buffer, Index, CursorRow
<1>2. t.fvb \in [Cells -> Value]
  BY TermFields
<1> HIDE DEF k, u
<1>3. CASE k \in Cells
  <2> DEFINE g == [t.fvb EXCEPT ![k] = c]
  <2>1. u = [t EXCEPT !.fvb = g]
    BY <1>1, <1>3
  <2>2. g \in [Cells -> Value] /\ \A i \in Cells : g[i] = IF i = k THEN c ELSE t.fvb[i]
    BY <1>2, <1>3
  <2> HIDE DEF g
  <2>3. u \in TerminalState
    BY <2>1, <2>2 DEF TerminalState, Value
  <2>4. SamePlace(t, u) /\ u.vb = t.vb /\ u.fvb = g
    BY <2>1 DEF TerminalState, SamePlace
  <2> QED BY <2>2, <2>3, <2>4 DEF u, k
<1>4. CASE k \notin Cells
  BY <1>1, <1>4 DEF SamePlace, u, k
<1> QED BY <1>3, <1>4

\* A view inside the buffer.
LEMMA ViewInBuffer ==
  ASSUME NEW r \in Int, r >= 0, r + TERM_HEIGHT < Rows, NEW i \in Screen
  PROVE  r * TERM_WIDTH + i \in Cells
<1> DEFINE a == r * TERM_WIDTH
           d == TERM_HEIGHT * TERM_WIDTH
           b == Rows * TERM_WIDTH
<1>1. a \in Int /\ a >= 0
  BY RowOrder
<1>2. (r + TERM_HEIGHT) * TERM_WIDTH = a + d
  BY RowOrder, Dimensions
<1>3. (r + TERM_HEIGHT) * TERM_WIDTH + TERM_WIDTH <= b
  BY RowOrder, Dimensions
<1>4. b \in Int /\ d \in Int
  BY RowOrder, Dimensions
<1>5. i \in 0 .. d - 1 /\ Cells = 0 .. b - 1
  BY Dimensions DEF Screen, Cells
<1> HIDE DEF a, b, d
<1>6. a + i \in 0 .. b - 1
  BY <1>1, <1>2, <1>3, <1>4, <1>5, Dimensions
<1> QED BY <1>5, <1>6 DEF a

\* The place of the cursor on the display and in the buffer.
LEMMA SameCell ==
  ASSUME NEW t \in TerminalState, NEW i \in Screen
  PROVE  i = t.y * TERM_WIDTH + t.x <=> t.row * TERM_WIDTH + i = Index(t)
<1>1. t.row \in Int /\ t.y \in Int /\ t.x \in Int
  BY TermFields
<1> DEFINE a == t.row * TERM_WIDTH
           b == t.y * TERM_WIDTH
           d == (t.row + t.y) * TERM_WIDTH
<1>2. a \in Int /\ b \in Int /\ d = a + b
  BY <1>1, RowOrder
<1>3. i \in Int
  <2>1. TERM_HEIGHT * TERM_WIDTH \in Int
    BY RowOrder, Dimensions
  <2> QED BY <2>1, Dimensions DEF Screen
<1>4. Index(t) = d + t.x
  BY DEF Index, CursorRow
<1> HIDE DEF a, b, d
<1>5. i = b + t.x <=> a + i = Index(t)
  BY <1>1, <1>2, <1>3, <1>4
<1> QED BY <1>5 DEF a, b

\* The display shows the view as it will be when c is put at the cursor, unless the
\* cursor has to move the view anyhow.
ShowsNext(t, c) ==
  t.y < TERM_HEIGHT - 1 /\ t.drawn =>
    \A i \in Screen :
      t.vb[i] = IF t.row * TERM_WIDTH + i = Index(t) THEN c
                ELSE t.fvb[t.row * TERM_WIDTH + i]

\* The terminal when the cursor is back in view: the view may have left the buffer.
Gone(t, u) ==
  /\ u.row < 0 /\ (u.row + 1 < 0 \/ u.y = 0)
  /\ CursorRow(t) >= Rows - TERM_HEIGHT

Ready(t, c, u) ==
  /\ u.row >= 0 /\ u.row + TERM_HEIGHT < Rows /\ u.y >= 0
  /\ Kept(t, u) /\ ShowsNext(u, c)

BackInView(t, c, u) == u \in TerminalState /\ (Gone(t, u) \/ Ready(t, c, u))

Back(t, c) ==
  LET shown == platform_set(t, cursor_get_index(t), c)
  IN  IF t.on_screen THEN shown ELSE view_shift_up(shown, t.y - TERM_HEIGHT + 1)

LEMMA BackIs ==
  ASSUME NEW t, TermOK(t), ~ Lost(t), NEW c \in Value
  PROVE  BackInView(t, c, Back(t, c))
<1> DEFINE s == platform_set(t, cursor_get_index(t), c)
           u == Back(t, c)
<1> SUFFICES BackInView(t, c, u)
  OBVIOUS
<1>1. /\ t \in TerminalState /\ t.row >= 0 /\ t.y >= 0
      /\ t.row + TERM_HEIGHT < Rows /\ t.row + t.y < Rows
      /\ t.drawn => ScreenIsView(t)
  BY LostIs, TermFields, Dimensions DEF TermOK
<1>2. t.row \in Int /\ t.y \in Int
  BY <1>1, TermFields
<1>3. /\ s \in TerminalState /\ s.fvb = t.fvb
      /\ \A i \in Screen : s.vb[i] = IF i = t.y * TERM_WIDTH + t.x THEN c ELSE t.vb[i]
  BY <1>1, ShownIs
<1>4. SamePlace(t, s)
  BY <1>1, ShownIs
<1>5. u = IF t.on_screen THEN s ELSE view_shift_up(s, t.y - TERM_HEIGHT + 1)
  BY DEF Back
<1> HIDE DEF s, u
<1>6. s.row = t.row /\ s.x = t.x /\ s.y = t.y /\ s.drawn = t.drawn
  BY <1>4 DEF SamePlace
<1>7. Kept(t, s) /\ Index(s) = Index(t)
  BY <1>3, <1>6 DEF Kept, CursorRow, Index
<1>8. ShowsNext(s, c)
  <2> SUFFICES ASSUME t.drawn, NEW i \in Screen
               PROVE  s.vb[i] = IF t.row * TERM_WIDTH + i = Index(t) THEN c
                                ELSE t.fvb[t.row * TERM_WIDTH + i]
    BY <1>3, <1>6, <1>7 DEF ShowsNext
  <2>1. i = t.y * TERM_WIDTH + t.x <=> t.row * TERM_WIDTH + i = Index(t)
    BY <1>1, SameCell
  <2>2. t.vb[i] = t.fvb[t.row * TERM_WIDTH + i]
    BY <1>1 DEF ScreenIsView, view_get_buffer_start_index
  <2> QED BY <1>3, <2>1, <2>2
<1>9. CASE t.on_screen
  <2>1. Ready(t, c, s)
    BY <1>1, <1>6, <1>7, <1>8 DEF Ready
  <2> QED BY <1>3, <1>5, <1>9, <2>1 DEF BackInView
<1>10. CASE ~ t.on_screen /\ t.y >= TERM_HEIGHT - 1
  <2> DEFINE n == t.y - TERM_HEIGHT + 1
             r == ShiftedUpTimes(s, n)
  <2>1. n \in Nat /\ n <= t.y /\ t.row + n < Rows /\ ~ (n < 0) /\ ~ (n > t.y)
    BY <1>1, <1>2, <1>10, Dimensions
  <2>2. u = ViewShifted(r)
    BY <1>5, <1>6, <1>10, <2>1 DEF view_shift_up
  <2>3. AfterRounds(s, n, r)
    BY <1>1, <1>3, <1>6, <2>1, ShiftedUpTimesIs
  <2>4. n = t.y - TERM_HEIGHT + 1
    OBVIOUS
  <2> HIDE DEF n, r
  <2>5. r \in TerminalState /\ r.x = t.x /\ r.y = TERM_HEIGHT - 1
    BY <1>2, <1>6, <2>3, <2>4, Dimensions DEF AfterRounds
  <2>6. CASE t.row + n + TERM_HEIGHT < Rows
    <3>1. r.row = t.row + n /\ r.fvb = t.fvb
      BY <1>3, <1>6, <2>3, <2>6 DEF AfterRounds
    <3>2. HasRoom(r) /\ r.row >= 0 /\ r.row + TERM_HEIGHT < Rows
      BY <1>1, <1>2, <2>1, <2>6, <3>1, Dimensions DEF HasRoom
    <3>3. /\ u \in TerminalState
          /\ u.fvb = r.fvb /\ u.row = r.row /\ u.x = r.x /\ u.y = r.y
      BY <2>2, <2>5, <3>2, ViewShiftedIs
    <3>4. CursorRow(u) = CursorRow(t)
      BY <1>2, <2>4, <2>5, <3>1, <3>3, Dimensions DEF CursorRow
    <3>5. Kept(t, u) /\ ShowsNext(u, c)
      BY <2>5, <3>1, <3>3, <3>4, Dimensions DEF Kept, ShowsNext
    <3>6. u.row >= 0 /\ u.row + TERM_HEIGHT < Rows /\ u.y >= 0
      BY <2>5, <3>2, <3>3, Dimensions
    <3>7. Ready(t, c, u)
      BY <3>5, <3>6 DEF Ready
    <3> QED BY <3>3, <3>7 DEF BackInView
  <2>7. CASE t.row + n + TERM_HEIGHT >= Rows
    <3>1. t.row + t.y = Rows - 1
      BY <1>1, <1>2, <2>4, <2>7, Dimensions
    <3>2. r.row = FVB_PAGES - 2 * TERM_HEIGHT + 1 + (t.row + n + TERM_HEIGHT - Rows)
      BY <1>6, <2>3, <2>7 DEF AfterRounds
    <3>3. r.row + 1 < 0
      BY <1>2, <2>4, <3>1, <3>2, Dimensions
    <3>4. HasRoom(r)
      BY <2>5, <3>3, TermFields DEF HasRoom
    <3>5. u \in TerminalState /\ u.row = r.row /\ u.y = r.y
      BY <2>2, <2>5, <3>4, ViewShiftedIs
    <3>6. u.row + 1 < 0 /\ u.row \in Int
      BY <2>5, <3>3, <3>5, TermFields
    <3>7. CursorRow(t) >= Rows - TERM_HEIGHT
      BY <3>1, Dimensions DEF CursorRow
    <3>8. Gone(t, u)
      BY <3>6, <3>7 DEF Gone
    <3> QED BY <3>5, <3>8 DEF BackInView
  <2> QED BY <1>2, <2>1, <2>6, <2>7, Dimensions
<1>11. CASE ~ t.on_screen /\ t.y < TERM_HEIGHT - 1
  <2> DEFINE n == t.y
             r == ShiftedUpTimes(s, n)
  <2>1. n \in Nat /\ t.row + n < Rows /\ t.y - TERM_HEIGHT + 1 < 0 /\ n = t.y
    BY <1>1, <1>2, <1>11, Dimensions
  <2>2. u = [r EXCEPT !.y = 0, !.on_screen = TRUE]
    BY <1>5, <1>6, <1>11, <2>1 DEF view_shift_up
  <2>3. AfterRounds(s, n, r)
    BY <1>1, <1>3, <1>6, <2>1, ShiftedUpTimesIs
  <2> HIDE DEF n, r
  <2>4. r \in TerminalState /\ r.x = t.x /\ r.vb = s.vb
    BY <1>6, <2>3 DEF AfterRounds
  <2>5. u.y = 0 /\ u.row = r.row /\ u.x = r.x /\ u.fvb = r.fvb /\ u.vb = r.vb
    BY <2>2, <2>4 DEF TerminalState
  <2>9. u \in TerminalState
    <3>1. 0 \in Int /\ TRUE \in BOOLEAN
      OBVIOUS
    <3> QED BY <2>2, <2>4, <3>1 DEF TerminalState
  <2>6. u.drawn = r.drawn
    BY <2>2, <2>4 DEF TerminalState
  <2>7. CASE t.row + n + TERM_HEIGHT < Rows
    <3>1. r.row = t.row + n /\ r.fvb = t.fvb
      BY <1>3, <1>6, <2>3, <2>7 DEF AfterRounds
    <3>2. u.row >= 0 /\ u.row + TERM_HEIGHT < Rows
      BY <1>1, <1>2, <2>1, <2>5, <2>7, <3>1, Dimensions
    <3>3. CursorRow(u) = CursorRow(t)
      BY <1>2, <2>1, <2>5, <3>1 DEF CursorRow
    <3>4. Kept(t, u)
      BY <2>4, <2>5, <3>1, <3>3 DEF Kept
    <3>5. CASE n = 0
      <4>1. r = s
        BY <2>3, <3>5 DEF AfterRounds
      <4>2. u.row = s.row /\ u.y = s.y /\ u.x = s.x /\ u.drawn = s.drawn
            /\ u.fvb = s.fvb /\ u.vb = s.vb
        BY <1>6, <2>1, <2>5, <2>6, <3>5, <4>1
      <4>3. ShowsNext(u, c)
        BY <1>8, <4>2 DEF ShowsNext, Index, CursorRow
      <4>4. Ready(t, c, u)
        BY <2>5, <3>2, <3>4, <4>3 DEF Ready
      <4> QED BY <2>9, <4>4 DEF BackInView
    <3>6. CASE n # 0
      <4>1. u.drawn = FALSE
        BY <2>3, <2>6, <3>6 DEF AfterRounds
      <4>2. ShowsNext(u, c)
        BY <4>1 DEF ShowsNext
      <4>3. Ready(t, c, u)
        BY <2>5, <3>2, <3>4, <4>2 DEF Ready
      <4> QED BY <2>9, <4>3 DEF BackInView
    <3> QED BY <3>5, <3>6
  <2>8. CASE t.row + n + TERM_HEIGHT >= Rows
    <3>1. r.row = FVB_PAGES - 2 * TERM_HEIGHT + 1 + (t.row + n + TERM_HEIGHT - Rows)
      BY <1>6, <2>3, <2>8 DEF AfterRounds
    <3>2. u.row < 0
      BY <1>1, <1>2, <1>11, <2>1, <2>5, <3>1, Dimensions
    <3>3. CursorRow(t) >= Rows - TERM_HEIGHT
      BY <1>2, <2>1, <2>8, Dimensions DEF CursorRow
    <3>4. Gone(t, u)
      BY <2>5, <3>2, <3>3 DEF Gone
    <3> QED BY <2>9, <3>4 DEF BackInView
  <2> QED BY <1>2, <2>1, <2>7, <2>8, Dimensions
<1> QED BY <1>2, <1>9, <1>10, <1>11, Dimensions

\* A character was put at the cursor, which has moved on.
PutAtCursor(t, c, u) ==
  /\ \A i \in Cells : u.fvb[i] = IF i = Index(t) THEN c ELSE t.fvb[i]
  /\ IF t.x + 1 < TERM_WIDTH THEN u.x = t.x + 1 /\ CursorRow(u) = CursorRow(t)
     ELSE u.x = 0 /\ CursorRow(u) = CursorRow(t) + 1

LEMMA WrittenIs ==
  ASSUME NEW t, TermOK(t), ~ Lost(t), NEW c \in Value
  PROVE  LET u == Written(t, c)
         IN  /\ TermOK(u)
             /\ ~ Lost(u) => PutAtCursor(t, c, u)
             /\ Lost(u) => CursorRow(t) >= Rows - TERM_HEIGHT
<1> DEFINE b == Back(t, c)
           v == vb_set_value(b, cursor_get_index_in_buffer(b), c)
           u == tio_cursor_inc(v)
<1>1. Written(t, c) = u
  BY DEF Written, Back
<1>2. b \in TerminalState /\ (Gone(t, b) \/ Ready(t, c, b))
  BY BackIs DEF BackInView
<1> HIDE DEF b
<1>3. /\ v \in TerminalState /\ v.vb = b.vb
      /\ \A i \in Cells : v.fvb[i] = IF i = Index(b) THEN c ELSE b.fvb[i]
  BY <1>2, PutIs
<1>4. v.row = b.row /\ v.x = b.x /\ v.y = b.y /\ v.drawn = b.drawn
  BY <1>2, PutIs DEF SamePlace
<1> HIDE DEF v
<1>5. CASE Gone(t, b)
  <2>1. v.row < 0 /\ (v.row + 1 < 0 \/ v.y = 0)
    BY <1>4, <1>5 DEF Gone
  <2>2. u \in TerminalState /\ Lost(u)
    BY <1>3, <2>1, LostInc
  <2> HIDE DEF u
  <2> QED BY <1>1, <1>5, <2>2 DEF TermOK, Gone
<1>6. CASE Ready(t, c, b)
  <2>1. v.row \in Int /\ v.row >= 0 /\ v.row + TERM_HEIGHT < Rows /\ v.y >= 0
    BY <1>3, <1>4, <1>6, TermFields DEF Ready
  <2>2. v.y < TERM_HEIGHT - 1 /\ v.drawn => ScreenIsView(v)
    <3> SUFFICES ASSUME v.y < TERM_HEIGHT - 1, v.drawn, NEW i \in Screen
                 PROVE  v.vb[i] = v.fvb[v.row * TERM_WIDTH + i]
      BY DEF ScreenIsView, view_get_buffer_start_index
    <3>1. v.row * TERM_WIDTH + i \in Cells
      BY <2>1, ViewInBuffer
    <3>2. b.vb[i] = IF b.row * TERM_WIDTH + i = Index(b) THEN c
                    ELSE b.fvb[b.row * TERM_WIDTH + i]
      BY <1>4, <1>6 DEF Ready, ShowsNext
    <3> QED BY <1>3, <1>4, <3>1, <3>2
  <2>3. /\ TermOK(u)
        /\ ~ Lost(u) => Advanced(v, u)
        /\ Lost(u) => CursorRow(v) >= Rows - 3
    BY <1>3, <2>1, <2>2, IncIs
  <2>4. b.x = t.x /\ b.fvb = t.fvb /\ CursorRow(b) = CursorRow(t) /\ Index(b) = Index(t)
    BY <1>6 DEF Ready, Kept, Index
  <2>5. CursorRow(v) = CursorRow(t) /\ v.x = t.x
    BY <1>4, <2>4 DEF CursorRow
  <2> HIDE DEF u
  <2>6. Advanced(v, u) => PutAtCursor(t, c, u)
    BY <1>3, <2>4, <2>5 DEF Advanced, PutAtCursor
  <2>7. CursorRow(t) \in Int
    BY TermFields DEF CursorRow, TermOK
  <2>8. CursorRow(t) >= Rows - 3 => CursorRow(t) >= Rows - TERM_HEIGHT
    BY <2>7, Dimensions
  <2> QED BY <1>1, <2>3, <2>5, <2>6, <2>8
<1> QED BY <1>2, <1>5, <1>6

\* The cursor is at the start of the next row.
AtNextRow(t, u) == u.fvb = t.fvb /\ u.x = 0 /\ CursorRow(u) = CursorRow(t) + 1

LEMMA NewLineIs ==
  ASSUME NEW t, TermOK(t), ~ Lost(t)
  PROVE  LET u == tio_write_char(t, NL)
         IN  /\ TermOK(u)
             /\ ~ Lost(u) => AtNextRow(t, u)
             /\ Lost(u) => CursorRow(t) >= Rows - TERM_HEIGHT
<1> DEFINE s == [t EXCEPT !.x = 0, !.y = t.y + 1]
           u == StepOffLastRow(s)
<1>1. tio_write_char(t, NL) = u
  BY DEF tio_write_char
<1>2. /\ t \in TerminalState /\ t.y >= 0 /\ t.row >= 0 /\ t.row + TERM_HEIGHT < Rows
      /\ t.drawn => ScreenIsView(t)
  BY LostIs, TermFields, Dimensions DEF TermOK
<1>3. t.row \in Int /\ t.y \in Int
  BY <1>2, TermFields
<1>4. s.row = t.row /\ s.x = 0 /\ s.y = t.y + 1 /\ s.fvb = t.fvb /\ s.vb = t.vb
  BY <1>2 DEF TerminalState
<1>5. s.drawn = t.drawn
  BY <1>2 DEF TerminalState
<1>6. s \in TerminalState
  <2>1. 0 \in 0 .. TERM_WIDTH - 1 /\ t.y + 1 \in Int
    BY <1>3, Dimensions
  <2> QED BY <1>2, <2>1 DEF TerminalState
<1> HIDE DEF s
<1>7. ScreenIsView(s) <=> ScreenIsView(t)
  BY <1>4 DEF ScreenIsView, view_get_buffer_start_index
<1>8. s.row >= 0 /\ s.row + TERM_HEIGHT < Rows /\ s.y >= 0
  BY <1>2, <1>3, <1>4
<1>9. /\ TermOK(u)
      /\ ~ Lost(u) => Kept(s, u)
      /\ Lost(u) => CursorRow(s) >= Rows - 2
  BY <1>2, <1>5, <1>6, <1>7, <1>8, StepIs
<1> HIDE DEF u
<1>10. CursorRow(s) = CursorRow(t) + 1 /\ CursorRow(t) \in Int
  BY <1>3, <1>4 DEF CursorRow
<1>11. CursorRow(s) >= Rows - 2 => CursorRow(t) >= Rows - TERM_HEIGHT
  BY <1>10, Dimensions
<1>12. Kept(s, u) => AtNextRow(t, u)
  BY <1>4, <1>10 DEF Kept, AtNextRow
<1> QED BY <1>1, <1>9, <1>11, <1>12

LEMMA ReturnIs ==
  ASSUME NEW t, TermOK(t), ~ Lost(t)
  PROVE  LET u == tio_write_char(t, CR)
         IN  TermOK(u) /\ ~ Lost(u)
<1> DEFINE u == [t EXCEPT !.x = 0]
<1>1. tio_write_char(t, CR) = u
  BY DEF tio_write_char, NL, CR
<1>2. t \in TerminalState /\ 0 \in 0 .. TERM_WIDTH - 1
  BY Dimensions DEF TermOK
<1>3. u \in TerminalState
  BY <1>2 DEF TerminalState
<1>4. u.row = t.row /\ u.y = t.y /\ u.fvb = t.fvb /\ u.vb = t.vb
  BY <1>2 DEF TerminalState
<1>5. u.drawn = t.drawn
  BY <1>2 DEF TerminalState
<1> HIDE DEF u
<1>6. (Lost(u) <=> Lost(t)) /\ (ScreenIsView(u) <=> ScreenIsView(t))
  BY <1>4 DEF Lost, ScreenIsView, view_get_buffer_start_index
<1> QED BY <1>1, <1>3, <1>4, <1>5, <1>6 DEF TermOK

LEMMA LetterIs ==
  ASSUME NEW t, TermOK(t), ~ Lost(t), NEW c \in Chars
  PROVE  LET u == tio_write_char(t, c)
         IN  /\ TermOK(u)
             /\ ~ Lost(u) => PutAtCursor(t, c, u)
             /\ Lost(u) => CursorRow(t) >= Rows - TERM_HEIGHT
<1>1. c # NL /\ c # CR /\ c \in Value
  BY ShellAssumption DEF Value
<1>2. tio_write_char(t, c) = Written(t, c)
  BY <1>1 DEF tio_write_char
<1> QED BY <1>1, <1>2, WrittenIs

LEMMA CharOK ==
  ASSUME NEW t, TermOK(t), NEW c \in Chars \union {NL, CR}
  PROVE  /\ TermOK(tio_write_char(t, c))
         /\ Lost(t) => tio_write_char(t, c) = t
         /\ ~ Lost(t) /\ Lost(tio_write_char(t, c)) => CursorRow(t) >= Rows - TERM_HEIGHT
<1>1. Lost(t) => tio_write_char(t, c) = t
  BY DEF tio_write_char
<1>2. CASE ~ Lost(t) /\ c \in Chars
  BY <1>2, LetterIs
<1>3. CASE ~ Lost(t) /\ c = NL
  BY <1>3, NewLineIs
<1>4. CASE ~ Lost(t) /\ c = CR
  BY <1>4, ReturnIs
<1> QED BY <1>1, <1>2, <1>3, <1>4

-----------------------------------------------------------------------------
(* Keys *)

LEMMA Inside ==
  ASSUME NEW t, TermOK(t), ~ Lost(t)
  PROVE  /\ t \in TerminalState /\ t.row \in Int /\ t.y \in Int
         /\ t.y >= 0 /\ t.row >= 0 /\ t.row + TERM_HEIGHT < Rows /\ t.row + t.y < Rows
         /\ t.drawn => ScreenIsView(t)
         /\ CursorRow(t) \in Int /\ CursorRow(t) >= 0 /\ CursorRow(t) < Rows
BY LostIs, TermFields, Dimensions DEF TermOK, CursorRow

LEMMA UpIs ==
  ASSUME NEW t, TermOK(t), ~ Lost(t)
  PROVE  LET u == view_shift_up(t, 1)
         IN  /\ TermOK(u)
             /\ ~ Lost(u) => Kept(t, u)
             /\ Lost(u) => CursorRow(t) >= Rows - TERM_HEIGHT
<1> DEFINE u == view_shift_up(t, 1)
<1>1. /\ t \in TerminalState /\ t.row \in Int /\ t.y \in Int
      /\ t.y >= 0 /\ t.row >= 0 /\ t.row + TERM_HEIGHT < Rows /\ t.row + t.y < Rows
      /\ t.drawn => ScreenIsView(t)
  BY Inside
<1>2. CASE t.y = 0
  <2> DEFINE r == ShiftedUpTimes(t, 0)
  <2>1. u = [r EXCEPT !.y = 0, !.on_screen = TRUE]
    BY <1>2 DEF view_shift_up
  <2>2. 0 \in Nat /\ t.row + 0 < Rows
    BY <1>1, Dimensions
  <2>3. AfterRounds(t, 0, r)
    BY <1>1, <2>2, ShiftedUpTimesIs
  <2>4. r = t
    BY <2>3 DEF AfterRounds
  <2> HIDE DEF r, u
  <2>5. u = [t EXCEPT !.y = 0, !.on_screen = TRUE]
    BY <2>1, <2>4
  <2>6. u \in TerminalState
    <3>1. 0 \in Int /\ TRUE \in BOOLEAN
      OBVIOUS
    <3> QED BY <1>1, <2>5, <3>1 DEF TerminalState
  <2>7. u.row = t.row /\ u.y = t.y /\ u.fvb = t.fvb /\ u.vb = t.vb /\ u.x = t.x
    BY <1>1, <1>2, <2>5 DEF TerminalState
  <2>8. u.drawn = t.drawn
    BY <1>1, <2>5 DEF TerminalState
  <2>9. (Lost(u) <=> Lost(t)) /\ (ScreenIsView(u) <=> ScreenIsView(t)) /\ Kept(t, u)
    BY <2>7 DEF Lost, ScreenIsView, view_get_buffer_start_index, Kept, CursorRow
  <2> QED BY <1>1, <2>6, <2>7, <2>8, <2>9 DEF TermOK, u
<1>3. CASE t.y # 0
  <2>1. HasRoom(t) /\ t.y >= 1
    BY <1>1, <1>3 DEF HasRoom
  <2>2. /\ u \in TerminalState /\ u.y = t.y - 1 /\ u.x = t.x
        /\ t.row + 1 + TERM_HEIGHT < Rows =>
             /\ u.row = t.row + 1 /\ u.fvb = t.fvb
             /\ ~ Lost(u) => u.drawn /\ ScreenIsView(u)
        /\ t.row + 1 + TERM_HEIGHT >= Rows => u.row = FVB_PAGES - 2 * TERM_HEIGHT + 1
    BY <1>1, <2>1, UpOneIs
  <2> HIDE DEF u
  <2>3. CASE t.row + 1 + TERM_HEIGHT < Rows
    <3>1. u.row >= 0 /\ u.y >= 0 /\ u.row + TERM_HEIGHT < Rows /\ u.row + u.y = t.row + t.y
      BY <1>1, <2>1, <2>2, <2>3, Dimensions
    <3>2. Kept(t, u)
      BY <2>2, <2>3, <3>1 DEF Kept, CursorRow
    <3>3. Lost(u) <=> u.row < 0 \/ u.row + u.y >= Rows
      BY LostIs
    <3>4. ~ Lost(u)
      BY <1>1, <2>2, <2>3, <3>1, <3>3, Dimensions
    <3> QED BY <2>2, <2>3, <3>1, <3>2, <3>4 DEF TermOK, u
  <2>4. CASE t.row + 1 + TERM_HEIGHT >= Rows
    <3>1. Lost(u)
      BY <2>2, <2>4, LostIs, Dimensions
    <3>2. CursorRow(t) >= Rows - TERM_HEIGHT
      BY <1>1, <2>1, <2>4, Dimensions DEF CursorRow
    <3> QED BY <2>2, <3>1, <3>2 DEF TermOK, u
  <2> QED BY <1>1, <2>3, <2>4, Dimensions
<1> QED BY <1>2, <1>3

LEMMA OneRoundDown ==
  ASSUME NEW t
  PROVE  ShiftedDownTimes(t, 1) = ShiftedDown(t)
<1> DEFINE Rounds(f) == f = [i \in 0 .. 1 |-> IF i = 0 THEN t ELSE ShiftedDown(f[i - 1])]
           g == [i \in 0 .. 1 |-> IF i = 0 THEN t ELSE ShiftedDown(t)]
           D == CHOOSE f : Rounds(f)
<1>1. Rounds(g)
  <2>1. \A i \in 0 .. 1 : g[i] = IF i = 0 THEN t ELSE ShiftedDown(g[i - 1])
    OBVIOUS
  <2> QED BY <2>1
<1>2. Rounds(D)
  <2> HIDE DEF g, Rounds
  <2> QED BY <1>1
<1>3. ShiftedDownTimes(t, 1) = D[1]
  BY DEF ShiftedDownTimes
<1> HIDE DEF D
<1>4. D[0] = t /\ D[1] = ShiftedDown(D[0])
  BY <1>2
<1> QED BY <1>3, <1>4

LEMMA DownIs ==
  ASSUME NEW t, TermOK(t), ~ Lost(t)
  PROVE  LET u == view_shift_down(t, 1)
         IN  TermOK(u) /\ ~ Lost(u) /\ Kept(t, u)
<1> DEFINE s == ShiftedDown(t)
           u == view_shift_down(t, 1)
<1>1. /\ t \in TerminalState /\ t.row \in Int /\ t.y \in Int
      /\ t.y >= 0 /\ t.row >= 0 /\ t.row + TERM_HEIGHT < Rows /\ t.row + t.y < Rows
  BY Inside
<1>2. u = ViewShifted(s)
  BY OneRoundDown DEF view_shift_down
<1>3. s \in TerminalState /\ s.x = t.x /\ s.fvb = t.fvb
  <2>1. t.row - 1 \in Int /\ t.y + 1 \in Int /\ FALSE \in BOOLEAN /\ 0 \in Int
    BY <1>1
  <2>2. s = [t EXCEPT !.row = 0] \/ s = [t EXCEPT !.row = t.row - 1, !.drawn = FALSE, !.y = t.y + 1]
    BY DEF ShiftedDown
  <2> HIDE DEF s
  <2>3. s \in TerminalState
    BY <1>1, <2>1, <2>2 DEF TerminalState
  <2>4. s.x = t.x /\ s.fvb = t.fvb
    BY <1>1, <2>2 DEF TerminalState
  <2> QED BY <2>3, <2>4
<1>4. s.row + s.y = t.row + t.y /\ s.row >= 0 /\ s.row <= t.row /\ s.y >= 0
      /\ s.row \in Int /\ s.y \in Int
  <2>1. CASE t.row - 1 < 0
    <3>1. s.row = 0 /\ s.y = t.y
      BY <1>1, <2>1 DEF ShiftedDown, TerminalState
    <3> HIDE DEF s
    <3> QED BY <1>1, <2>1, <3>1
  <2>2. CASE ~ (t.row - 1 < 0)
    <3>1. s.row = t.row - 1 /\ s.y = t.y + 1
      BY <1>1, <2>2 DEF ShiftedDown, TerminalState
    <3> HIDE DEF s
    <3> QED BY <1>1, <2>2, <3>1
  <2> QED BY <2>1, <2>2
<1> HIDE DEF s, u
<1>5. HasRoom(s) /\ ~ Lost(s)
  BY <1>1, <1>4, LostIs, Dimensions DEF HasRoom
<1>6. /\ u \in TerminalState
      /\ u.fvb = s.fvb /\ u.row = s.row /\ u.x = s.x /\ u.y = s.y
      /\ u.drawn /\ ScreenIsView(u)
  BY <1>2, <1>3, <1>5, ViewShiftedIs
<1>7. ~ Lost(u) /\ Kept(t, u)
  BY <1>3, <1>4, <1>5, <1>6 DEF Lost, Kept, CursorRow
<1>8. u.y >= 0 /\ u.row + TERM_HEIGHT < Rows
  BY <1>1, <1>4, <1>6, Dimensions
<1> QED BY <1>6, <1>7, <1>8 DEF TermOK, u

\* The cursor goes one to the left.
LEMMA DecIs ==
  ASSUME NEW t, TermOK(t), ~ Lost(t)
  PROVE  LET u == tio_cursor_dec(t)
         IN  /\ TermOK(u) /\ ~ Lost(u)
             /\ u.row = t.row /\ u.fvb = t.fvb /\ u.vb = t.vb /\ u.drawn = t.drawn
             /\ t.x > 0 => u.x = t.x - 1 /\ u.y = t.y /\ CursorRow(u) = CursorRow(t)
             /\ CursorRow(u) <= CursorRow(t)
<1> DEFINE u == tio_cursor_dec(t)
           y == IF t.x > 0 THEN t.y ELSE IF t.y > 0 THEN t.y - 1 ELSE 0
           x == IF t.x > 0 THEN t.x - 1 ELSE TERM_WIDTH - 1
<1>1. /\ t \in TerminalState /\ t.row \in Int /\ t.y \in Int
      /\ t.y >= 0 /\ t.row >= 0 /\ t.row + TERM_HEIGHT < Rows /\ t.row + t.y < Rows
      /\ t.drawn => ScreenIsView(t)
  BY Inside
<1>2. x \in 0 .. TERM_WIDTH - 1 /\ y \in Int /\ y >= 0 /\ y <= t.y
      /\ (t.x > 0 => x = t.x - 1 /\ y = t.y)
  BY <1>1, TermFields, Dimensions
<1>3. u = [t EXCEPT !.x = x, !.y = y]
  BY <1>1 DEF tio_cursor_dec, TerminalState
<1> HIDE DEF u, x, y
<1>4. u \in TerminalState
  BY <1>1, <1>2, <1>3 DEF TerminalState
<1>5. u.row = t.row /\ u.fvb = t.fvb /\ u.vb = t.vb /\ u.x = x /\ u.y = y
  BY <1>1, <1>3 DEF TerminalState
<1>6. u.drawn = t.drawn
  BY <1>1, <1>3 DEF TerminalState
<1>7. ScreenIsView(u) <=> ScreenIsView(t)
  BY <1>5 DEF ScreenIsView, view_get_buffer_start_index
<1>8. ~ Lost(u)
  BY <1>1, <1>2, <1>5, LostIs, Dimensions
<1>9. TermOK(u)
  BY <1>1, <1>2, <1>4, <1>5, <1>6, <1>7 DEF TermOK
<1>10. CursorRow(u) <= CursorRow(t) /\ (t.x > 0 => CursorRow(u) = CursorRow(t))
  BY <1>1, <1>2, <1>5 DEF CursorRow
<1> QED BY <1>2, <1>5, <1>6, <1>8, <1>9, <1>10 DEF u

\* Another buffer, rendered.
LEMMA Redrawn ==
  ASSUME NEW t, TermOK(t), ~ Lost(t), NEW f \in [Cells -> Value], NEW u,
         u = render_screen([t EXCEPT !.fvb = f])
  PROVE  /\ TermOK(u) /\ ~ Lost(u) /\ u.drawn
         /\ u.row = t.row /\ u.x = t.x /\ u.y = t.y /\ u.fvb = f
<1> DEFINE s == [t EXCEPT !.fvb = f]
<1>1. t \in TerminalState /\ t.y >= 0 /\ t.row + TERM_HEIGHT < Rows
  BY Inside
<1>2. s.row = t.row /\ s.x = t.x /\ s.y = t.y /\ s.fvb = f
  BY <1>1 DEF TerminalState
<1>3. s \in TerminalState
  BY <1>1 DEF TerminalState, Value
<1>4. u = render_screen(s)
  OBVIOUS
<1> HIDE DEF s
<1>5. HasRoom(s) /\ ~ Lost(s)
  BY <1>1, <1>2 DEF HasRoom, Lost
<1>6. /\ u \in TerminalState
      /\ u.fvb = s.fvb /\ u.row = s.row /\ u.x = s.x /\ u.y = s.y
      /\ u.drawn /\ ScreenIsView(u)
  BY <1>3, <1>4, <1>5, RenderedIs
<1>7. ~ Lost(u)
  BY <1>2, <1>5, <1>6 DEF Lost
<1> QED BY <1>1, <1>2, <1>6, <1>7 DEF TermOK

\* The place of the cursor, and the end of its row, in the view.
LEMMA RowInView ==
  ASSUME NEW t, TermOK(t), ~ Lost(t)
  PROVE  /\ cursor_get_index_in_buffer(t) = Index(t) /\ Index(t) \in Cells
         /\ Index(t) \in Int /\ Index(t) >= 0
         /\ view_get_buffer_end_index(t) \in Int
         /\ view_get_buffer_end_index(t) + TERM_WIDTH <= FVB_SIZE
         /\ t.y < TERM_HEIGHT =>
              CursorRow(t) * TERM_WIDTH + TERM_WIDTH <= view_get_buffer_end_index(t)
<1>1. /\ t \in TerminalState /\ t.row \in Int /\ t.y \in Int
      /\ t.y >= 0 /\ t.row >= 0 /\ t.row + TERM_HEIGHT < Rows /\ t.row + t.y < Rows
      /\ CursorRow(t) \in Int /\ CursorRow(t) >= 0 /\ CursorRow(t) < Rows
      /\ t.x \in 0 .. TERM_WIDTH - 1
  BY Inside, TermFields
<1>2. cursor_get_index_in_buffer(t) = Index(t)
  BY DEF cursor_get_index_in_buffer, Index, CursorRow
<1>3. Index(t) \in Cells
  BY <1>1, Places DEF Index
<1>4. CursorRow(t) * TERM_WIDTH \in Int /\ CursorRow(t) * TERM_WIDTH >= 0
  BY <1>1, RowOrder
<1>5. Index(t) \in Int /\ Index(t) >= 0
  BY <1>1, <1>4, Dimensions DEF Index
<1> DEFINE r == t.row + TERM_HEIGHT
<1>6. r \in Int /\ r < Rows /\ (t.y < TERM_HEIGHT => CursorRow(t) < r)
  BY <1>1, Dimensions DEF CursorRow
<1>7. view_get_buffer_end_index(t) = r * TERM_WIDTH
  BY DEF view_get_buffer_end_index
<1> HIDE DEF r
<1>8. r * TERM_WIDTH \in Int /\ r * TERM_WIDTH + TERM_WIDTH <= Rows * TERM_WIDTH
  BY <1>6, RowOrder, Dimensions
<1>9. CursorRow(t) < r => CursorRow(t) * TERM_WIDTH + TERM_WIDTH <= r * TERM_WIDTH
  BY <1>1, <1>6, RowOrder
<1> QED BY <1>2, <1>3, <1>5, <1>6, <1>7, <1>8, <1>9, Dimensions

\* The character in front of the cursor's cell stays where it is.
LEMMA ShiftLeftIs ==
  ASSUME NEW t, TermOK(t), ~ Lost(t)
  PROVE  LET u == tio_shift_left(t)
         IN  /\ TermOK(u) /\ ~ Lost(u) /\ u.drawn
             /\ u.row = t.row /\ u.x = t.x /\ u.y = t.y
             /\ \A i \in Cells : i < Index(t) => u.fvb[i] = t.fvb[i]
<1> DEFINE here == cursor_get_index_in_buffer(t) + (IF t.x = 0 THEN 1 ELSE 0)
           end == view_get_buffer_end_index(t)
           f == [j \in Cells |-> IF here <= j /\ j < end THEN t.fvb[j + 1] ELSE t.fvb[j]]
           u == tio_shift_left(t)
<1>1. t \in TerminalState /\ t.fvb \in [Cells -> Value] /\ t.x \in Int
  BY Inside, TermFields
<1>2. u = render_screen([t EXCEPT !.fvb = f])
  BY DEF tio_shift_left
<1>3. here \in Int /\ here >= Index(t) /\ Index(t) \in Int /\ end \in Int
      /\ end + TERM_WIDTH <= FVB_SIZE
  BY RowInView
<1> HIDE DEF here, end, u
<1>4. FVB_SIZE \in Int /\ Cells = 0 .. FVB_SIZE - 1
  <2>1. Rows * TERM_WIDTH \in Int
    BY RowOrder, Dimensions
  <2> QED BY <2>1, Dimensions DEF Cells
<1>5. ASSUME NEW j \in Cells, j < end PROVE j + 1 \in Cells
  BY <1>3, <1>4, <1>5, Dimensions
<1>6. f \in [Cells -> Value]
  BY <1>1, <1>5
<1>7. \A i \in Cells : i < Index(t) => f[i] = t.fvb[i]
  BY <1>3, <1>4
<1> HIDE DEF f
<1>8. /\ TermOK(u) /\ ~ Lost(u) /\ u.drawn
      /\ u.row = t.row /\ u.x = t.x /\ u.y = t.y /\ u.fvb = f
  BY <1>2, <1>6, Redrawn
<1> QED BY <1>7, <1>8 DEF u

LEMMA RecordedIs ==
  ASSUME NEW t \in TerminalState
  PROVE  LET u == Recorded(t)
         IN  /\ u \in TerminalState /\ SamePlace(t, u) /\ u.vb = t.vb
             /\ \A i \in Cells : i # Index(t) => u.fvb[i] = t.fvb[i]
             /\ \A i \in Cells :
                  i = Index(t) => u.fvb[i] = platform_get(t, cursor_get_index(t))
<1>1. platform_get(t, cursor_get_index(t)) \in Value
  BY TermFields DEF platform_get, Value
<1> QED BY <1>1, PutIs DEF Recorded

\* The rest of the row makes room; what is in the cursor's own cell is not said.
LEMMA ShiftRightIs ==
  ASSUME NEW t, TermOK(t), ~ Lost(t)
  PROVE  LET u == tio_shift_right(t)
             end == view_get_buffer_end_index(t)
         IN  /\ TermOK(u) /\ ~ Lost(u)
             /\ u.row = t.row /\ u.x = t.x /\ u.y = t.y
             /\ \A i \in Cells : i < Index(t) => u.fvb[i] = t.fvb[i]
             /\ \A i \in Cells : Index(t) < i /\ i <= end => u.fvb[i] = t.fvb[i - 1]
<1> DEFINE here == cursor_get_index_in_buffer(t)
           end == view_get_buffer_end_index(t)
           f == [j \in Cells |-> IF here < j /\ j <= end THEN t.fvb[j - 1] ELSE t.fvb[j]]
           s == [t EXCEPT !.fvb = f]
           v == Recorded(s)
           u == tio_shift_right(t)
<1>1. t \in TerminalState /\ t.fvb \in [Cells -> Value]
  BY Inside, TermFields
<1>2. u = render_screen(v)
  BY DEF tio_shift_right
<1>3. here = Index(t) /\ Index(t) \in Int /\ Index(t) >= 0 /\ end \in Int
  BY RowInView
<1> HIDE DEF here, end, u
<1>4. FVB_SIZE \in Int /\ Cells = 0 .. FVB_SIZE - 1
  <2>1. Rows * TERM_WIDTH \in Int
    BY RowOrder, Dimensions
  <2> QED BY <2>1, Dimensions DEF Cells
<1>5. ASSUME NEW j \in Cells, here < j PROVE j - 1 \in Cells
  BY <1>3, <1>4, <1>5
<1>6. f \in [Cells -> Value]
  BY <1>1, <1>5
<1>7. /\ \A i \in Cells : i < Index(t) => f[i] = t.fvb[i]
      /\ \A i \in Cells : Index(t) < i /\ i <= end => f[i] = t.fvb[i - 1]
  BY <1>3, <1>4
<1> HIDE DEF f
<1>8. s \in TerminalState
  BY <1>1, <1>6 DEF TerminalState, Value
<1>9. s.row = t.row /\ s.x = t.x /\ s.y = t.y /\ s.fvb = f
  BY <1>1 DEF TerminalState
<1>10. Index(s) = Index(t)
  BY <1>9 DEF Index, CursorRow
<1> HIDE DEF s
<1>11. /\ v \in TerminalState
       /\ \A i \in Cells : i # Index(t) => v.fvb[i] = f[i]
  BY <1>8, <1>9, <1>10, RecordedIs
<1>12. v.row = t.row /\ v.x = t.x /\ v.y = t.y
  BY <1>8, <1>9, RecordedIs DEF SamePlace
<1> HIDE DEF v
<1>13. HasRoom(v) /\ ~ Lost(v) /\ t.y >= 0 /\ t.row + TERM_HEIGHT < Rows
  BY <1>12, Inside DEF HasRoom, Lost
<1>14. /\ u \in TerminalState
       /\ u.fvb = v.fvb /\ u.row = v.row /\ u.x = v.x /\ u.y = v.y
       /\ u.drawn /\ ScreenIsView(u)
  BY <1>2, <1>11, <1>13, RenderedIs
<1>15. ~ Lost(u)
  BY <1>13, <1>14 DEF Lost
<1>16. TermOK(u)
  BY <1>12, <1>13, <1>14 DEF TermOK
<1>17. \A i \in Cells : i < Index(t) => u.fvb[i] = t.fvb[i]
  BY <1>3, <1>4, <1>7, <1>11, <1>14
<1>18. \A i \in Cells : Index(t) < i /\ i <= end => u.fvb[i] = t.fvb[i - 1]
  BY <1>3, <1>4, <1>7, <1>11, <1>14
<1> QED BY <1>12, <1>14, <1>15, <1>16, <1>17, <1>18 DEF u, end

\* Erasing: what is shown where the cursor goes is kept in the buffer, which is what
\* was there already, or is out of the view.
LEMMA BackspaceIs ==
  ASSUME NEW t, TermOK(t), ~ Lost(t), t.drawn
  PROVE  LET u == tio_backspace(t)
         IN  /\ TermOK(u) /\ ~ Lost(u) /\ CursorRow(u) <= CursorRow(t)
             /\ t.x > 0 =>
                  /\ u.x = t.x - 1 /\ CursorRow(u) = CursorRow(t)
                  /\ \A i \in Cells : i # Index(t) - 1 => u.fvb[i] = t.fvb[i]
<1> DEFINE s == tio_cursor_dec(t)
           u == Recorded(s)
<1>1. /\ TermOK(s) /\ ~ Lost(s)
      /\ s.row = t.row /\ s.fvb = t.fvb /\ s.vb = t.vb /\ s.drawn = t.drawn
      /\ t.x > 0 => s.x = t.x - 1 /\ s.y = t.y /\ CursorRow(s) = CursorRow(t)
      /\ CursorRow(s) <= CursorRow(t)
  BY DecIs
<1>2. tio_backspace(t) = u
  BY DEF tio_backspace
<1> HIDE DEF s
<1>3. /\ s \in TerminalState /\ s.row \in Int /\ s.row >= 0 /\ s.y >= 0
      /\ s.row + TERM_HEIGHT < Rows /\ ScreenIsView(s)
  BY <1>1, Inside
<1>4. /\ u \in TerminalState /\ u.vb = s.vb
      /\ \A i \in Cells : i # Index(s) => u.fvb[i] = s.fvb[i]
      /\ \A i \in Cells : i = Index(s) => u.fvb[i] = platform_get(s, cursor_get_index(s))
  BY <1>3, RecordedIs
<1>5. u.row = s.row /\ u.x = s.x /\ u.y = s.y /\ u.drawn = s.drawn
  BY <1>3, RecordedIs DEF SamePlace
<1> HIDE DEF u
<1>6. ScreenIsView(u)
  <2> SUFFICES ASSUME NEW i \in Screen
               PROVE  u.vb[i] = u.fvb[s.row * TERM_WIDTH + i]
    BY <1>5 DEF ScreenIsView, view_get_buffer_start_index
  <2>1. s.row * TERM_WIDTH + i \in Cells
    BY <1>3, ViewInBuffer
  <2>2. s.vb[i] = s.fvb[s.row * TERM_WIDTH + i]
    BY <1>3 DEF ScreenIsView, view_get_buffer_start_index
  <2>3. i = s.y * TERM_WIDTH + s.x <=> s.row * TERM_WIDTH + i = Index(s)
    BY <1>3, SameCell
  <2>4. CASE i = s.y * TERM_WIDTH + s.x
    <3>1. platform_get(s, cursor_get_index(s)) = s.vb[i]
      BY <2>4 DEF platform_get, cursor_get_index
    <3> QED BY <1>4, <2>1, <2>3, <2>4, <3>1
  <2>5. CASE i # s.y * TERM_WIDTH + s.x
    BY <1>4, <2>1, <2>2, <2>3, <2>5
  <2> QED BY <2>4, <2>5
<1>7. Lost(u) <=> Lost(s)
  BY <1>5 DEF Lost
<1>8. TermOK(u) /\ ~ Lost(u)
  BY <1>1, <1>3, <1>4, <1>5, <1>6, <1>7 DEF TermOK
<1>9. CursorRow(u) = CursorRow(s)
  BY <1>5 DEF CursorRow
<1>10. t.x > 0 => Index(s) = Index(t) - 1
  <2>1. t.x \in Int /\ CursorRow(t) * TERM_WIDTH \in Int
    BY Inside, TermFields, RowOrder
  <2> QED BY <1>1, <2>1 DEF Index
<1> QED BY <1>1, <1>2, <1>4, <1>5, <1>8, <1>9, <1>10

-----------------------------------------------------------------------------
(* Strings *)

\* The terminal after each of the characters of a string.
Writing(t, s, f) ==
  /\ f[0] = t
  /\ \A i \in 1 .. Len(s) : f[i] = tio_write_char(f[i - 1], s[i])
  /\ tio_write(t, s) = f[Len(s)]

LEMMA WritingIs ==
  ASSUME NEW t, NEW s, Len(s) \in Nat
  PROVE  \E f : Writing(t, s, f)
<1> DEFINE Rounds(m, f) ==
             f = [i \in 0 .. m |-> IF i = 0 THEN t ELSE tio_write_char(f[i - 1], s[i])]
           S == {m \in Nat : \E f : Rounds(m, f)}
           n == Len(s)
<1>1. 0 \in S
  <2> DEFINE g == [i \in 0 .. 0 |-> t]
  <2>1. Rounds(0, g)
    OBVIOUS
  <2> QED BY <2>1
<1>2. ASSUME NEW m \in S PROVE m + 1 \in S
  <2>1. PICK f : Rounds(m, f)
    OBVIOUS
  <2> DEFINE g == [i \in 0 .. m + 1 |->
                     IF i = m + 1 THEN tio_write_char(f[m], s[m + 1]) ELSE f[i]]
  <2>2. ASSUME NEW i \in 0 .. m + 1
        PROVE  g[i] = IF i = 0 THEN t ELSE tio_write_char(g[i - 1], s[i])
    <3>1. CASE i = 0
      BY <2>1, <3>1
    <3>2. CASE i \in 1 .. m
      BY <2>1, <3>2
    <3>3. CASE i = m + 1
      BY <3>3
    <3> QED BY <3>1, <3>2, <3>3
  <2>3. Rounds(m + 1, g)
    BY <2>2
  <2> HIDE DEF Rounds
  <2> QED BY <2>3
<1>3. n \in S
  <2>1. S \subseteq Nat /\ n \in Nat
    OBVIOUS
  <2> HIDE DEF S, n
  <2> QED BY <1>1, <1>2, <2>1, Induction
<1> DEFINE W == CHOOSE f : Rounds(n, f)
<1>4. Rounds(n, W)
  BY <1>3
<1>5. tio_write(t, s) = W[n]
  BY DEF tio_write
<1> HIDE DEF W
<1>6. W[0] = t /\ \A i \in 1 .. n : W[i] = tio_write_char(W[i - 1], s[i])
  BY <1>4
<1> QED BY <1>5, <1>6 DEF Writing

\* What is written leaves the terminal in order after each of its characters.
LEMMA WritingOK ==
  ASSUME NEW t, TermOK(t), NEW s \in Seq(Chars \union {NL, CR}), NEW f, Writing(t, s, f)
  PROVE  \A i \in 0 .. Len(s) : TermOK(f[i])
<1> DEFINE n == Len(s)
           S == {i \in Nat : i <= n => TermOK(f[i])}
<1>1. n \in Nat /\ \A i \in 1 .. n : s[i] \in Chars \union {NL, CR}
  OBVIOUS
<1>2. f[0] = t /\ \A i \in 1 .. n : f[i] = tio_write_char(f[i - 1], s[i])
  BY DEF Writing
<1> HIDE DEF n
<1>3. 0 \in S
  BY <1>2
<1>4. ASSUME NEW i \in S PROVE i + 1 \in S
  <2>1. i + 1 \in Nat /\ (i + 1) - 1 = i
    OBVIOUS
  <2>2. ASSUME i + 1 <= n PROVE TermOK(f[i + 1])
    <3>1. TermOK(f[i])
      BY <1>1, <2>2
    <3>2. i + 1 \in 1 .. n
      BY <1>1, <2>1, <2>2
    <3>3. s[i + 1] \in Chars \union {NL, CR} /\ f[i + 1] = tio_write_char(f[i], s[i + 1])
      BY <1>1, <1>2, <2>1, <3>2
    <3> QED BY <3>1, <3>3, CharOK
  <2> QED BY <2>1, <2>2
<1>5. S = Nat
  <2>1. S \subseteq Nat
    OBVIOUS
  <2> HIDE DEF S
  <2> QED BY <1>3, <1>4, <2>1, Induction
<1> QED BY <1>1, <1>5 DEF n

\* A terminal that is not lost after a character was not before.
LEMMA WritingOn ==
  ASSUME NEW t, TermOK(t), NEW s \in Seq(Chars \union {NL, CR}), NEW f, Writing(t, s, f),
         NEW i \in 1 .. Len(s)
  PROVE  /\ TermOK(f[i - 1]) /\ TermOK(f[i]) /\ f[i] = tio_write_char(f[i - 1], s[i])
         /\ s[i] \in Chars \union {NL, CR}
         /\ ~ Lost(f[i]) => ~ Lost(f[i - 1])
         /\ ~ Lost(f[i - 1]) /\ Lost(f[i]) => CursorRow(f[i - 1]) >= Rows - TERM_HEIGHT
<1>1. i - 1 \in 0 .. Len(s) /\ i \in 0 .. Len(s) /\ s[i] \in Chars \union {NL, CR}
  OBVIOUS
<1>2. TermOK(f[i - 1]) /\ TermOK(f[i]) /\ f[i] = tio_write_char(f[i - 1], s[i])
  BY <1>1, WritingOK DEF Writing
<1> QED BY <1>1, <1>2, CharOK

\* The prompt, written at the start of a row.
PromptIn(t, row) ==
  /\ CursorRow(t) = row /\ t.x = PADDING
  /\ \A i \in 1 .. PADDING : t.fvb[row * TERM_WIDTH + (i - 1)] = Prompt[i]

LEMMA Pair ==
  ASSUME NEW S, NEW a \in S, NEW b \in S
  PROVE  <<a, b>> \in Seq(S) /\ Len(<<a, b>>) = 2 /\ <<a, b>>[1] = a /\ <<a, b>>[2] = b
OBVIOUS

LEMMA PromptIs ==
  /\ Prompt \in Seq(Chars) /\ Len(Prompt) = 2 /\ PADDING = 2
  /\ Prompt[1] \in Chars /\ Prompt[2] \in Chars
<1>1. {">", " "} \subseteq Chars
  BY ShellAssumption, Zenon
<1>2. ">" \in Chars /\ " " \in Chars
  BY <1>1, Zenon
<1>3. Prompt \in Seq(Chars) /\ Len(Prompt) = 2 /\ Prompt[1] = ">" /\ Prompt[2] = " "
  BY <1>2, Pair, Zenon DEF Prompt
<1> QED BY <1>2, <1>3, Zenon DEF PADDING

LEMMA PromptShown ==
  ASSUME NEW t, TermOK(t), ~ Lost(t), t.x = 0,
         NEW u, u = tio_write_char(t, Prompt[1]), ~ Lost(u),
         NEW v, v = tio_write_char(u, Prompt[2]), ~ Lost(v)
  PROVE  PromptIn(v, CursorRow(t))
<1> DEFINE p == Prompt[1]
           q == Prompt[2]
<1>1. p \in Chars /\ q \in Chars
  BY PromptIs
<1> HIDE DEF p, q
<1>2. TermOK(u) /\ PutAtCursor(t, p, u)
  BY <1>1, LetterIs DEF p
<1>3. TermOK(v) /\ PutAtCursor(u, q, v)
  BY <1>1, <1>2, LetterIs DEF q
<1>4. CursorRow(t) \in Int /\ CursorRow(t) >= 0 /\ CursorRow(t) < Rows
  BY Inside
<1>5. 0 + 1 < TERM_WIDTH /\ 1 + 1 < TERM_WIDTH /\ 0 + 1 = 1 /\ 1 + 1 = 2
      /\ 0 \in 0 .. TERM_WIDTH - 1 /\ 1 \in 0 .. TERM_WIDTH - 1
  BY Dimensions
<1>6. u.x = 1 /\ CursorRow(u) = CursorRow(t)
  BY <1>2, <1>5 DEF PutAtCursor
<1>7. v.x = 2 /\ CursorRow(v) = CursorRow(t)
  BY <1>3, <1>5, <1>6 DEF PutAtCursor
<1> DEFINE a == CursorRow(t) * TERM_WIDTH
<1>8. Index(t) = a + 0 /\ Index(u) = a + 1
  BY <1>6 DEF Index
<1>9. a + 0 \in Cells /\ a + 1 \in Cells /\ a \in Int
  BY <1>4, <1>5, Places, RowOrder
<1> HIDE DEF a
<1>10. a + 0 # a + 1
  BY <1>9
<1>11. v.fvb[a + 1] = q /\ v.fvb[a + 0] = u.fvb[a + 0]
  BY <1>3, <1>8, <1>9, <1>10 DEF PutAtCursor
<1>12. u.fvb[a + 0] = p
  BY <1>2, <1>8, <1>9 DEF PutAtCursor
<1>13. ASSUME NEW i \in 1 .. PADDING PROVE v.fvb[a + (i - 1)] = Prompt[i]
  <2>1. i = 1 \/ i = 2
    BY PromptIs
  <2>2. (i = 1 => i - 1 = 0) /\ (i = 2 => i - 1 = 1)
    OBVIOUS
  <2> QED BY <1>11, <1>12, <2>1, <2>2 DEF p, q
<1> QED BY <1>6, <1>7, <1>13, PromptIs DEF PromptIn, a

\* What is written after a line: the line again, and the prompt, each in a new row.
Reply(line) == <<NL>> \o line \o <<NL>> \o Prompt

LEMMA Joined ==
  ASSUME NEW S, NEW s \in Seq(S), NEW t \in Seq(S)
  PROVE  /\ s \o t \in Seq(S) /\ Len(s \o t) = Len(s) + Len(t)
         /\ \A i \in 1 .. Len(s) : (s \o t)[i] = s[i]
         /\ \A i \in 1 .. Len(t) : (s \o t)[Len(s) + i] = t[i]
OBVIOUS

LEMMA ReplyIs ==
  ASSUME NEW line \in Seq(Chars), NEW n, n = Len(line)
  PROVE  /\ n \in Nat /\ Reply(line) \in Seq(Chars \union {NL, CR})
         /\ Len(Reply(line)) = n + 4
         /\ Reply(line)[1] = NL /\ Reply(line)[n + 2] = NL
         /\ \A i \in 2 .. n + 1 : Reply(line)[i] \in Chars
         /\ Reply(line)[n + 3] = Prompt[1] /\ Reply(line)[n + 4] = Prompt[2]
<1> DEFINE C == Chars \union {NL, CR}
           a == <<NL>> \o line
           b == a \o <<NL>>
           r == b \o Prompt
<1>1. /\ line \in Seq(C) /\ n \in Nat /\ Prompt \in Seq(C) /\ Len(Prompt) = 2
      /\ \A i \in 1 .. n : line[i] \in Chars
  BY PromptIs
<1>2. <<NL>> \in Seq(C) /\ Len(<<NL>>) = 1 /\ <<NL>>[1] = NL
  OBVIOUS
<1>3. Reply(line) = r
  BY DEF Reply
<1> HIDE DEF C
<1>4. a \in Seq(C) /\ Len(a) = n + 1 /\ a[1] = NL
  BY <1>1, <1>2
<1>5. ASSUME NEW i \in 2 .. n + 1 PROVE a[i] \in Chars
  <2>1. i - 1 \in 1 .. n /\ a[i] = line[i - 1]
    BY <1>1, <1>2
  <2> QED BY <1>1, <2>1
<1> HIDE DEF a
<1>6. b \in Seq(C) /\ Len(b) = n + 2 /\ b[n + 2] = NL
  BY <1>1, <1>2, <1>4
<1>7. \A i \in 1 .. n + 1 : b[i] = a[i]
  BY <1>2, <1>4, Joined
<1> HIDE DEF b
<1>8. r \in Seq(C) /\ Len(r) = n + 4
  <2>1. r \in Seq(C) /\ Len(r) = Len(b) + Len(Prompt)
    BY <1>1, <1>6, Joined
  <2> HIDE DEF r
  <2> QED BY <1>1, <1>6, <2>1
<1>9. r[n + 3] = Prompt[1] /\ r[n + 4] = Prompt[2]
  <2>1. \A i \in 1 .. Len(Prompt) : r[Len(b) + i] = Prompt[i]
    <3>1. b \in Seq(C) /\ Prompt \in Seq(C)
      BY <1>1, <1>6
    <3> QED BY <3>1, Joined
  <2> HIDE DEF r
  <2>2. 1 \in 1 .. Len(Prompt) /\ 2 \in 1 .. Len(Prompt)
        /\ Len(b) + 1 = n + 3 /\ Len(b) + 2 = n + 4
    BY <1>1, <1>6
  <2> QED BY <2>1, <2>2
<1>10. \A i \in 1 .. n + 2 : r[i] = b[i]
  BY <1>1, <1>6, Joined
<1> HIDE DEF r
<1>11. r[1] = NL
  <2>1. 1 \in 1 .. n + 2 /\ 1 \in 1 .. n + 1
    BY <1>1
  <2> QED BY <1>4, <1>7, <1>10, <2>1
<1>12. r[n + 2] = NL
  <2>1. n + 2 \in 1 .. n + 2
    BY <1>1
  <2> QED BY <1>6, <1>10, <2>1
<1>13. ASSUME NEW i \in 2 .. n + 1 PROVE r[i] \in Chars
  <2>1. i \in 1 .. n + 2 /\ i \in 1 .. n + 1
    BY <1>1
  <2> QED BY <1>5, <1>7, <1>10, <2>1
<1> QED BY <1>1, <1>3, <1>8, <1>9, <1>11, <1>12, <1>13 DEF C

\* A letter takes the next place of the text, and a new line the start of the next row.
LEMMA OnePlace ==
  ASSUME NEW t, TermOK(t), ~ Lost(t), NEW c \in Chars, NEW u,
         u = tio_write_char(t, c), ~ Lost(u)
  PROVE  Index(u) = Index(t) + 1 /\ CursorRow(u) <= CursorRow(t) + 1
<1>1. PutAtCursor(t, c, u)
  BY LetterIs
<1>2. CursorRow(t) \in Int /\ t.x \in Int /\ t.x >= 0 /\ t.x < TERM_WIDTH
  BY Inside, TermFields
<1> DEFINE a == CursorRow(t) * TERM_WIDTH
           b == (CursorRow(t) + 1) * TERM_WIDTH
<1>3. a \in Int /\ b = a + TERM_WIDTH
  BY <1>2, RowOrder
<1>4. CASE t.x + 1 < TERM_WIDTH
  <2>1. u.x = t.x + 1 /\ CursorRow(u) = CursorRow(t)
    BY <1>1, <1>4 DEF PutAtCursor
  <2>2. Index(t) = a + t.x /\ Index(u) = a + (t.x + 1)
    BY <2>1 DEF Index
  <2> HIDE DEF a
  <2> QED BY <1>2, <1>3, <2>1, <2>2
<1>5. CASE ~ (t.x + 1 < TERM_WIDTH)
  <2>1. u.x = 0 /\ CursorRow(u) = CursorRow(t) + 1
    BY <1>1, <1>5 DEF PutAtCursor
  <2>2. Index(t) = a + t.x /\ Index(u) = b + 0
    BY <2>1 DEF Index
  <2> HIDE DEF a, b
  <2> QED BY <1>2, <1>3, <1>5, <2>1, <2>2, Dimensions
<1> QED BY <1>4, <1>5

LEMMA RowOfPlace ==
  ASSUME NEW u \in TerminalState, NEW r \in Int, NEW i \in Nat, i <= MaxLine,
         Index(u) = r * TERM_WIDTH + i
  PROVE  CursorRow(u) <= r + MaxLine \div TERM_WIDTH
<1> DEFINE c == CursorRow(u)
           q == MaxLine \div TERM_WIDTH
           m == MaxLine % TERM_WIDTH
<1>1. c \in Int /\ u.x \in Int /\ u.x >= 0
  BY TermFields DEF CursorRow
<1>2. MaxLine \in Nat /\ TERM_WIDTH \in Nat \ {0}
  BY Dimensions, Sizes
<1>3. q * TERM_WIDTH + m = MaxLine /\ m \in 0 .. TERM_WIDTH - 1
  BY <1>2, DivMod
<1>4. q \in Int
  BY <1>2
<1>5. Index(u) = c * TERM_WIDTH + u.x
  BY DEF Index
<1> HIDE DEF c, q, m
<1>6. c * TERM_WIDTH \in Int /\ r * TERM_WIDTH \in Int /\ q * TERM_WIDTH \in Int
      /\ (r + q) * TERM_WIDTH = r * TERM_WIDTH + q * TERM_WIDTH
  BY <1>1, <1>4, RowOrder
<1>7. r + q < c => (r + q) * TERM_WIDTH + TERM_WIDTH <= c * TERM_WIDTH
  BY <1>1, <1>4, RowOrder
<1> DEFINE cw == c * TERM_WIDTH
           rw == r * TERM_WIDTH
           qw == q * TERM_WIDTH
           sw == (r + q) * TERM_WIDTH
<1>8. cw \in Int /\ rw \in Int /\ qw \in Int /\ sw = rw + qw
  BY <1>6
<1>9. r + q < c => sw + TERM_WIDTH <= cw
  BY <1>7
<1>10. rw + i = cw + u.x /\ qw + m = MaxLine
  BY <1>3, <1>5
<1> HIDE DEF cw, rw, qw, sw
<1>11. ~ (r + q < c)
  BY <1>1, <1>2, <1>3, <1>8, <1>9, <1>10
<1> QED BY <1>1, <1>4, <1>11 DEF c, q

\* The most a row of the text moves the cursor down.
LineRows == MaxLine \div TERM_WIDTH

\* While the line is repeated, the i-th place behind the start of its row is written,
\* unless view or cursor have left the buffer.
LEMMA ReplyPlaces ==
  ASSUME NEW t, TermOK(t), ~ Lost(t), NEW line \in Seq(Chars), Len(line) <= MaxLine,
         NEW f, Writing(t, Reply(line), f),
         CursorRow(t) + 2 + LineRows < Rows - TERM_HEIGHT
  PROVE  \A i \in 1 .. Len(line) + 1 :
           /\ ~ Lost(f[i])
           /\ Index(f[i]) = (CursorRow(t) + 1) * TERM_WIDTH + (i - 1)
           /\ CursorRow(f[i]) <= CursorRow(t) + 1 + LineRows
<1> DEFINE n == Len(line)
           s == Reply(line)
           c == CursorRow(t)
           a == (c + 1) * TERM_WIDTH
           P(i) == /\ ~ Lost(f[i])
                   /\ Index(f[i]) = a + (i - 1)
                   /\ CursorRow(f[i]) <= c + 1 + LineRows
           S == {k \in Nat : k + 1 <= n + 1 => P(k + 1)}
<1>1. /\ n \in Nat /\ n <= MaxLine /\ s \in Seq(Chars \union {NL, CR}) /\ Len(s) = n + 4
      /\ s[1] = NL /\ \A i \in 2 .. n + 1 : s[i] \in Chars
  BY ReplyIs
<1>2. \A i \in 1 .. n + 4 :
        /\ TermOK(f[i - 1]) /\ TermOK(f[i]) /\ f[i] = tio_write_char(f[i - 1], s[i])
        /\ ~ Lost(f[i - 1]) /\ Lost(f[i]) => CursorRow(f[i - 1]) >= Rows - TERM_HEIGHT
  BY <1>1, WritingOn
<1>3. f[0] = t
  BY DEF Writing
<1>4. LineRows \in Int /\ LineRows >= 0 /\ c \in Int /\ a \in Int /\ Rows \in Int
      /\ TERM_HEIGHT \in Int
  <2>1. c \in Int /\ MaxLine \in Nat /\ TERM_WIDTH \in Nat \ {0}
    BY Inside, Sizes, Dimensions
  <2>2. LineRows \in Int /\ LineRows >= 0
    BY <2>1 DEF LineRows
  <2> QED BY <2>1, <2>2, RowOrder, Dimensions
<1>5. c + 2 + LineRows < Rows - TERM_HEIGHT
  OBVIOUS
<1> HIDE DEF n, s, c
<1>6. 0 \in S
  <2>1. 1 \in 1 .. n + 4 /\ 1 - 1 = 0
    BY <1>1
  <2>2. TermOK(f[1]) /\ f[1] = tio_write_char(t, NL)
        /\ (Lost(f[1]) => c >= Rows - TERM_HEIGHT)
    BY <1>1, <1>2, <1>3, <2>1 DEF c
  <2>3. ~ Lost(f[1])
    BY <1>4, <1>5, <2>2
  <2>4. AtNextRow(t, f[1])
    BY <2>2, <2>3, NewLineIs
  <2>5. Index(f[1]) = a + 0 /\ CursorRow(f[1]) = c + 1
    BY <2>4 DEF AtNextRow, Index, c
  <2>6. CursorRow(f[1]) <= c + 1 + LineRows
    BY <1>4, <2>5
  <2> QED BY <2>3, <2>5, <2>6
<1>7. ASSUME NEW k \in S PROVE k + 1 \in S
  <2> SUFFICES ASSUME k + 2 <= n + 1 PROVE P(k + 2)
    OBVIOUS
  <2>1. k \in Nat /\ k + 2 \in 1 .. n + 4 /\ k + 2 \in 2 .. n + 1 /\ (k + 2) - 1 = k + 1
        /\ k + 1 \in 1 .. n + 4
    BY <1>1
  <2>2. P(k + 1)
    BY <1>1
  <2>3. /\ TermOK(f[k + 1]) /\ TermOK(f[k + 2])
        /\ f[k + 2] = tio_write_char(f[k + 1], s[k + 2]) /\ s[k + 2] \in Chars
        /\ ~ Lost(f[k + 1]) /\ Lost(f[k + 2]) => CursorRow(f[k + 1]) >= Rows - TERM_HEIGHT
    BY <1>1, <1>2, <2>1
  <2>4. CursorRow(f[k + 1]) \in Int
    BY <2>2, <2>3, Inside
  <2>5. ~ Lost(f[k + 2])
    BY <1>4, <1>5, <2>2, <2>3, <2>4
  <2>6. Index(f[k + 2]) = Index(f[k + 1]) + 1
    BY <2>2, <2>3, <2>5, OnePlace
  <2>7. Index(f[k + 2]) = a + (k + 1)
    <3>1. Index(f[k + 1]) = a + ((k + 1) - 1)
      BY <2>2
    <3> HIDE DEF a
    <3> QED BY <1>4, <2>1, <2>6, <3>1
  <2>8. CursorRow(f[k + 2]) <= (c + 1) + LineRows
    <3>1. f[k + 2] \in TerminalState
      BY <2>3 DEF TermOK
    <3>2. c + 1 \in Int /\ k + 1 \in Nat /\ k + 1 <= MaxLine
      BY <1>1, <1>4, <2>1, Sizes
    <3> QED BY <2>7, <3>1, <3>2, RowOfPlace DEF LineRows
  <2> QED BY <1>4, <2>1, <2>5, <2>7, <2>8
<1>8. S = Nat
  <2>1. S \subseteq Nat
    OBVIOUS
  <2> HIDE DEF S
  <2> QED BY <1>6, <1>7, <2>1, Induction
<1>9. ASSUME NEW i \in 1 .. n + 1 PROVE P(i)
  <2>1. i - 1 \in Nat /\ (i - 1) + 1 = i /\ i <= n + 1
    BY <1>1
  <2>2. i - 1 \in S
    BY <1>8, <2>1
  <2> QED BY <2>1, <2>2
<1> QED BY <1>9 DEF n, c

\* The reply leaves the prompt behind, and view and cursor leave the buffer only when
\* the text has come to its last page.
LEMMA ReplyShown ==
  ASSUME NEW t, TermOK(t), ~ Lost(t), NEW line \in Seq(Chars), Len(line) <= MaxLine,
         NEW u, u = tio_write(t, Reply(line))
  PROVE  /\ TermOK(u)
         /\ ~ Lost(u) => PromptIn(u, CursorRow(u))
         /\ Lost(u) => CursorRow(t) + 2 + LineRows >= Rows - TERM_HEIGHT
<1> DEFINE n == Len(line)
           s == Reply(line)
<1>1. /\ n \in Nat /\ s \in Seq(Chars \union {NL, CR}) /\ Len(s) = n + 4
      /\ s[n + 2] = NL /\ s[n + 3] = Prompt[1] /\ s[n + 4] = Prompt[2]
  BY ReplyIs
<1>2. PICK f : Writing(t, s, f)
  <2>1. Len(s) \in Nat
    BY <1>1
  <2> HIDE DEF s, n
  <2> QED BY <2>1, WritingIs
<1>3. u = f[n + 4]
  BY <1>1, <1>2 DEF Writing
<1>4. \A i \in 1 .. n + 4 :
        /\ TermOK(f[i - 1]) /\ TermOK(f[i]) /\ f[i] = tio_write_char(f[i - 1], s[i])
        /\ ~ Lost(f[i]) => ~ Lost(f[i - 1])
        /\ ~ Lost(f[i - 1]) /\ Lost(f[i]) => CursorRow(f[i - 1]) >= Rows - TERM_HEIGHT
  BY <1>1, <1>2, WritingOn
<1>5. \A i \in 1 .. n + 1 : CursorRow(t) + 2 + LineRows < Rows - TERM_HEIGHT =>
        ~ Lost(f[i]) /\ CursorRow(f[i]) <= CursorRow(t) + 1 + LineRows
  BY <1>2, ReplyPlaces
<1> HIDE DEF n, s
<1> DEFINE a == f[n + 1]
           b == f[n + 2]
           d == f[n + 3]
<1>6. /\ n + 2 \in 1 .. n + 4 /\ (n + 2) - 1 = n + 1
      /\ n + 3 \in 1 .. n + 4 /\ (n + 3) - 1 = n + 2
      /\ n + 4 \in 1 .. n + 4 /\ (n + 4) - 1 = n + 3
      /\ n + 1 \in 1 .. n + 1
  BY <1>1
<1>7. /\ TermOK(a) /\ TermOK(b) /\ b = tio_write_char(a, NL)
      /\ ~ Lost(b) => ~ Lost(a)
      /\ ~ Lost(a) /\ Lost(b) => CursorRow(a) >= Rows - TERM_HEIGHT
  BY <1>1, <1>4, <1>6
<1>8. /\ TermOK(d) /\ d = tio_write_char(b, Prompt[1])
      /\ ~ Lost(d) => ~ Lost(b)
      /\ ~ Lost(b) /\ Lost(d) => CursorRow(b) >= Rows - TERM_HEIGHT
  BY <1>1, <1>4, <1>6
<1>9. /\ TermOK(u) /\ u = tio_write_char(d, Prompt[2])
      /\ ~ Lost(u) => ~ Lost(d)
      /\ ~ Lost(d) /\ Lost(u) => CursorRow(d) >= Rows - TERM_HEIGHT
  BY <1>1, <1>3, <1>4, <1>6
<1>10. CursorRow(t) + 2 + LineRows < Rows - TERM_HEIGHT =>
         ~ Lost(a) /\ CursorRow(a) <= CursorRow(t) + 1 + LineRows
  BY <1>5, <1>6
<1> HIDE DEF a, b, d
<1>11. ~ Lost(b) => AtNextRow(a, b)
  BY <1>7, NewLineIs
<1>12. ~ Lost(u) => PromptIn(u, CursorRow(u))
  <2> SUFFICES ASSUME ~ Lost(u) PROVE PromptIn(u, CursorRow(u))
    OBVIOUS
  <2>1. ~ Lost(d) /\ ~ Lost(b) /\ b.x = 0
    BY <1>8, <1>9, <1>11 DEF AtNextRow
  <2>2. PromptIn(u, CursorRow(b))
    BY <1>7, <1>8, <1>9, <2>1, PromptShown
  <2> QED BY <2>2 DEF PromptIn
<1>13. ASSUME CursorRow(t) + 2 + LineRows < Rows - TERM_HEIGHT PROVE ~ Lost(u)
  <2>1. /\ LineRows \in Int /\ CursorRow(t) \in Int /\ Rows \in Int /\ TERM_HEIGHT \in Int
    <3>1. MaxLine \in Nat /\ TERM_WIDTH \in Nat \ {0}
      BY Sizes, Dimensions
    <3> QED BY <3>1, Inside, Dimensions DEF LineRows
  <2>2. ~ Lost(a) /\ CursorRow(a) <= CursorRow(t) + 1 + LineRows
    BY <1>10, <1>13
  <2>3. CursorRow(a) \in Int
    BY <1>7, <2>2, Inside
  <2>4. ~ Lost(b)
    BY <1>7, <1>13, <2>1, <2>2, <2>3
  <2>5. CursorRow(b) = CursorRow(a) + 1 /\ b.x = 0
    BY <1>11, <2>4 DEF AtNextRow
  <2>6. ~ Lost(d)
    BY <1>8, <1>13, <2>1, <2>2, <2>3, <2>4, <2>5
  <2>7. CursorRow(d) = CursorRow(b)
    <3>1. Prompt[1] \in Chars
      BY PromptIs
    <3>2. PutAtCursor(b, Prompt[1], d)
      BY <1>7, <1>8, <2>4, <2>6, <3>1, LetterIs
    <3>3. 0 + 1 < TERM_WIDTH
      BY Dimensions
    <3> QED BY <2>5, <3>2, <3>3 DEF PutAtCursor
  <2> QED BY <1>9, <1>13, <2>1, <2>2, <2>3, <2>5, <2>6, <2>7
<1>14. CursorRow(t) \in Int /\ LineRows \in Int /\ Rows \in Int /\ TERM_HEIGHT \in Int
  <2>1. MaxLine \in Nat /\ TERM_WIDTH \in Nat \ {0}
    BY Sizes, Dimensions
  <2> QED BY <2>1, Inside, Dimensions DEF LineRows
<1> QED BY <1>9, <1>12, <1>13, <1>14

\* What the kernel has written before.
LEMMA BannerIs ==
  Banner \in Seq(Chars \union {NL}) /\ (Banner = <<>> \/ Banner[Len(Banner)] = NL)
BY ShellAssumption, Zenon

LEMMA StartIs == TermOK(tio_init) /\ ~ Lost(tio_init) /\ tio_init.x = 0
<1> DEFINE t == tio_init
<1>1. t.row = 0 /\ t.x = 0 /\ t.y = 0 /\ t.drawn = FALSE
  BY DEF tio_init
<1>2. t \in TerminalState
  <2>1. 0 \in 0 .. TERM_WIDTH - 1 /\ 0 \in Int /\ TRUE \in BOOLEAN /\ FALSE \in BOOLEAN
    BY Dimensions
  <2> QED BY <2>1 DEF tio_init, TerminalState
<1> HIDE DEF t
<1>3. ~ Lost(t) /\ t.y >= 0 /\ t.row + TERM_HEIGHT < Rows
  BY <1>1, LostIs, Dimensions
<1> QED BY <1>1, <1>2, <1>3 DEF TermOK, t

LEMMA FirstPrompt ==
  ASSUME NEW u, u = tio_write(tio_init, Banner \o Prompt)
  PROVE  TermOK(u) /\ (~ Lost(u) => PromptIn(u, CursorRow(u)))
<1> DEFINE C == Chars \union {NL, CR}
           n == Len(Banner)
           s == Banner \o Prompt
<1>1. /\ n \in Nat /\ Banner \in Seq(C) /\ Prompt \in Seq(C) /\ Len(Prompt) = 2
      /\ n > 0 => Banner[n] = NL
  BY BannerIs, PromptIs
<1> HIDE DEF C, n
<1>2. s \in Seq(C) /\ Len(s) = n + 2
  <2>1. s \in Seq(C) /\ Len(s) = Len(Banner) + Len(Prompt)
    BY <1>1, Joined
  <2> HIDE DEF s
  <2> QED BY <1>1, <2>1 DEF n
<1>3. /\ \A i \in 1 .. n : s[i] = Banner[i]
      /\ \A i \in 1 .. 2 : s[n + i] = Prompt[i]
  BY <1>1, Joined DEF n
<1> HIDE DEF s
<1>4. PICK f : Writing(tio_init, s, f)
  <2>1. Len(s) \in Nat
    BY <1>1, <1>2
  <2> QED BY <2>1, WritingIs
<1>5. u = f[n + 2] /\ f[0] = tio_init
  BY <1>2, <1>4 DEF Writing, s
<1>6. \A i \in 1 .. n + 2 :
        /\ TermOK(f[i - 1]) /\ TermOK(f[i]) /\ f[i] = tio_write_char(f[i - 1], s[i])
        /\ ~ Lost(f[i]) => ~ Lost(f[i - 1])
  <2>1. s \in Seq(Chars \union {NL, CR}) /\ TermOK(tio_init)
    BY <1>2, StartIs DEF C
  <2> QED BY <1>2, <1>4, <2>1, WritingOn
<1> DEFINE a == f[n]
           b == f[n + 1]
<1>7. TermOK(b) /\ TermOK(a) /\ b = tio_write_char(a, Prompt[1]) /\ (~ Lost(b) => ~ Lost(a))
  <2>1. n + 1 \in 1 .. n + 2 /\ (n + 1) - 1 = n /\ 1 \in 1 .. 2
    BY <1>1
  <2> QED BY <1>3, <1>6, <2>1
<1>8. TermOK(u) /\ u = tio_write_char(b, Prompt[2]) /\ (~ Lost(u) => ~ Lost(b))
  <2>1. n + 2 \in 1 .. n + 2 /\ (n + 2) - 1 = n + 1 /\ 2 \in 1 .. 2
    BY <1>1
  <2> QED BY <1>3, <1>5, <1>6, <2>1
<1>9. ~ Lost(a) => a.x = 0
  <2>1. CASE n = 0
    BY <1>5, <2>1, StartIs
  <2>2. CASE n > 0
    <3>1. n \in 1 .. n + 2 /\ n \in 1 .. n
      BY <1>1, <2>2
    <3>2. TermOK(f[n - 1]) /\ a = tio_write_char(f[n - 1], NL) /\ (~ Lost(a) => ~ Lost(f[n - 1]))
      BY <1>1, <1>3, <1>6, <2>2, <3>1
    <3> HIDE DEF a
    <3> QED BY <3>2, NewLineIs DEF AtNextRow
  <2> QED BY <1>1, <2>1, <2>2
<1> HIDE DEF a, b
<1>10. ~ Lost(u) => PromptIn(u, CursorRow(a))
  BY <1>7, <1>8, <1>9, PromptShown
<1> QED BY <1>8, <1>10 DEF PromptIn

-----------------------------------------------------------------------------
(* The line in the buffer *)

\* A buffer with a line of n - 1 characters.
IsLine(b, n) ==
  /\ b \in [0 .. BUFFER_SIZE - 1 -> Chars \union {NUL}]
  /\ n \in 1 .. BUFFER_SIZE
  /\ \A i \in 0 .. BUFFER_SIZE - 1 : b[i] = NUL <=> i >= n - 1

LineInv == IsLine(buffer, size) /\ index \in 0 .. size - 1

\* The string in a buffer is what is in front of the first zero.
LEMMA StringIs ==
  ASSUME NEW b, NEW n, IsLine(b, n)
  PROVE  /\ CString(b) = [i \in 1 .. n - 1 |-> b[i - 1]]
         /\ CString(b) \in Seq(Chars) /\ Len(CString(b)) = n - 1
         /\ \A i \in 1 .. n - 1 : CString(b)[i] = b[i - 1]
<1> DEFINE P(i) == b[i] = NUL /\ \A j \in 0 .. i - 1 : b[j] # NUL
           end == CHOOSE i \in DOMAIN b : P(i)
<1>1. /\ n \in Nat /\ n >= 1 /\ n <= BUFFER_SIZE /\ BUFFER_SIZE \in Nat
      /\ DOMAIN b = 0 .. BUFFER_SIZE - 1 /\ n - 1 \in DOMAIN b
  BY Sizes DEF IsLine
<1>2. P(n - 1)
  BY <1>1 DEF IsLine
<1>3. ASSUME NEW i \in DOMAIN b, P(i) PROVE i = n - 1
  <2>1. i \in Nat /\ i >= n - 1
    BY <1>1, <1>3 DEF IsLine
  <2>2. n - 1 \notin 0 .. i - 1
    BY <1>1, <1>2, <1>3
  <2> QED BY <1>1, <2>1, <2>2
<1>4. end = n - 1
  <2> HIDE DEF P
  <2>1. P(end) /\ end \in DOMAIN b
    BY <1>1, <1>2
  <2> QED BY <1>3, <2>1
<1>5. CString(b) = [i \in 1 .. end |-> b[i - 1]]
  BY DEF CString
<1> HIDE DEF end
<1>6. ASSUME NEW i \in 1 .. n - 1 PROVE b[i - 1] \in Chars
  BY <1>1 DEF IsLine
<1> QED BY <1>1, <1>4, <1>5, <1>6

LEMMA ZeroedIs == IsLine(Zeroed, 1) /\ CString(Zeroed) = <<>>
<1>1. IsLine(Zeroed, 1)
  BY Sizes DEF IsLine, Zeroed
<1>2. CString(Zeroed) \in Seq(Chars) /\ Len(CString(Zeroed)) = 1 - 1
  BY <1>1, StringIs
<1> QED BY <1>1, <1>2

\* A character put in at the index is inserted into the string behind as many characters.
LEMMA OpenedIs ==
  ASSUME LineInv, NEW c \in Chars, size < BUFFER_SIZE
  PROVE  /\ IsLine(Opened(buffer, c), size + 1)
         /\ CString(Opened(buffer, c)) = InsertAt(CString(buffer), index + 1, c)
<1> DEFINE s == CString(buffer)
           b == Opened(buffer, c)
           r == CString(b)
<1>1. /\ size \in Nat /\ size >= 1 /\ index \in 0 .. size - 1 /\ BUFFER_SIZE \in Nat
      /\ buffer \in [0 .. BUFFER_SIZE - 1 -> Chars \union {NUL}]
      /\ \A i \in 0 .. BUFFER_SIZE - 1 : buffer[i] = NUL <=> i >= size - 1
      /\ c # NUL
  BY Sizes DEF LineInv, IsLine
<1>2. b = [i \in 0 .. BUFFER_SIZE - 1 |->
             IF i = index THEN c
             ELSE IF i = size THEN NUL
             ELSE IF i > index /\ i < size THEN buffer[i - 1] ELSE buffer[i]]
  BY <1>1 DEF Opened
<1>3. IsLine(b, size + 1)
  <2> HIDE DEF b
  <2>1. b \in [0 .. BUFFER_SIZE - 1 -> Chars \union {NUL}]
    BY <1>1, <1>2
  <2>2. ASSUME NEW i \in 0 .. BUFFER_SIZE - 1 PROVE b[i] = NUL <=> i >= size
    BY <1>1, <1>2
  <2> QED BY <1>1, <2>1, <2>2 DEF IsLine
<1>4. /\ s \in Seq(Chars) /\ Len(s) = size - 1
      /\ \A i \in 1 .. size - 1 : s[i] = buffer[i - 1]
  BY StringIs DEF LineInv
<1>5. /\ r \in Seq(Chars) /\ Len(r) = size
      /\ \A i \in 1 .. size : r[i] = b[i - 1]
  <2> HIDE DEF b
  <2>1. (size + 1) - 1 = size
    BY <1>1
  <2> QED BY <1>3, <2>1, StringIs
<1> HIDE DEF s, b, r
<1> DEFINE front == SubSeq(s, 1, index)
           back  == SubSeq(s, index + 1, Len(s))
           t == front \o <<c>> \o back
<1>6. /\ front \in Seq(Chars) /\ Len(front) = index
      /\ \A i \in 1 .. index : front[i] = s[i]
      /\ back \in Seq(Chars) /\ Len(back) = size - 1 - index
      /\ \A i \in 1 .. size - 1 - index : back[i] = s[index + i]
  BY <1>1, <1>4
<1> HIDE DEF front, back
<1>7. /\ t \in Seq(Chars) /\ Len(t) = size
      /\ \A i \in 1 .. size : t[i] = IF i <= index THEN front[i]
                                     ELSE IF i = index + 1 THEN c ELSE back[i - index - 1]
  BY <1>1, <1>6
<1> HIDE DEF t
<1>8. ASSUME NEW i \in 1 .. size PROVE r[i] = t[i]
  <2>1. r[i] = b[i - 1] /\ i - 1 \in 0 .. BUFFER_SIZE - 1
    BY <1>1, <1>5
  <2>2. CASE i <= index
    <3>1. b[i - 1] = buffer[i - 1]
      BY <1>1, <1>2, <2>1, <2>2
    <3>2. t[i] = s[i] /\ s[i] = buffer[i - 1]
      BY <1>1, <1>4, <1>6, <1>7, <2>2
    <3> QED BY <2>1, <3>1, <3>2
  <2>3. CASE i = index + 1
    BY <1>1, <1>2, <1>7, <2>1, <2>3
  <2>4. CASE i > index + 1
    <3>1. b[i - 1] = buffer[i - 2]
      BY <1>1, <1>2, <2>1, <2>4
    <3>2. i - index - 1 \in 1 .. size - 1 - index /\ index + (i - index - 1) = i - 1
          /\ i - 1 \in 1 .. size - 1 /\ (i - 1) - 1 = i - 2
      BY <1>1, <2>4
    <3>3. t[i] = back[i - index - 1]
      BY <1>1, <1>7, <2>4
    <3>4. back[i - index - 1] = s[i - 1]
      BY <1>6, <3>2
    <3>5. s[i - 1] = buffer[i - 2]
      BY <1>4, <3>2
    <3> QED BY <2>1, <3>1, <3>3, <3>4, <3>5
  <2> QED BY <1>1, <2>2, <2>3, <2>4
<1>9. r = t
  BY <1>5, <1>7, <1>8
<1>10. InsertAt(s, index + 1, c) = t
  <2>1. (index + 1) - 1 = index
    BY <1>1
  <2> QED BY <2>1 DEF InsertAt, t, front, back
<1> QED BY <1>3, <1>9, <1>10 DEF s, b, r

\* A character taken out in front of the index is removed from the string.
LEMMA ClosedIs ==
  ASSUME LineInv, index > 0
  PROVE  /\ IsLine(Closed(buffer), size - 1) /\ index - 1 \in 0 .. (size - 1) - 1
         /\ CString(Closed(buffer)) = RemoveAt(CString(buffer), index)
<1> DEFINE s == CString(buffer)
           b == Closed(buffer)
           r == CString(b)
<1>1. /\ size \in Nat /\ size >= 2 /\ size <= BUFFER_SIZE /\ index \in 1 .. size - 1
      /\ BUFFER_SIZE \in Nat
      /\ buffer \in [0 .. BUFFER_SIZE - 1 -> Chars \union {NUL}]
      /\ \A i \in 0 .. BUFFER_SIZE - 1 : buffer[i] = NUL <=> i >= size - 1
  BY Sizes DEF LineInv, IsLine
<1>2. b = [i \in 0 .. BUFFER_SIZE - 1 |->
             IF i = size - 2 \/ i = size - 1 THEN NUL
             ELSE IF i >= index - 1 /\ i < size - 1 THEN buffer[i + 1] ELSE buffer[i]]
  BY <1>1 DEF Closed
<1>3. IsLine(b, size - 1)
  <2> HIDE DEF b
  <2>1. b \in [0 .. BUFFER_SIZE - 1 -> Chars \union {NUL}]
    <3>1. ASSUME NEW i \in 0 .. BUFFER_SIZE - 1, i < size - 1
          PROVE  i + 1 \in 0 .. BUFFER_SIZE - 1
      BY <1>1, <3>1
    <3> QED BY <1>1, <1>2, <3>1
  <2>2. ASSUME NEW i \in 0 .. BUFFER_SIZE - 1 PROVE b[i] = NUL <=> i >= (size - 1) - 1
    BY <1>1, <1>2
  <2> QED BY <1>1, <2>1, <2>2 DEF IsLine
<1>4. /\ s \in Seq(Chars) /\ Len(s) = size - 1
      /\ \A i \in 1 .. size - 1 : s[i] = buffer[i - 1]
  BY StringIs DEF LineInv
<1>5. /\ r \in Seq(Chars) /\ Len(r) = size - 2
      /\ \A i \in 1 .. size - 2 : r[i] = b[i - 1]
  <2> HIDE DEF b
  <2>1. (size - 1) - 1 = size - 2
    BY <1>1
  <2> QED BY <1>3, <2>1, StringIs
<1> HIDE DEF s, b, r
<1> DEFINE front == SubSeq(s, 1, index - 1)
           back  == SubSeq(s, index + 1, Len(s))
           t == front \o back
<1>6. /\ front \in Seq(Chars) /\ Len(front) = index - 1
      /\ \A i \in 1 .. index - 1 : front[i] = s[i]
      /\ back \in Seq(Chars) /\ Len(back) = size - 1 - index
      /\ \A i \in 1 .. size - 1 - index : back[i] = s[index + i]
  BY <1>1, <1>4
<1> HIDE DEF front, back
<1>7. /\ t \in Seq(Chars) /\ Len(t) = size - 2
      /\ \A i \in 1 .. size - 2 : t[i] = IF i < index THEN front[i] ELSE back[i - index + 1]
  <2>1. t \in Seq(Chars) /\ Len(t) = Len(front) + Len(back)
    BY <1>6
  <2>2. ASSUME NEW i \in 1 .. size - 2
        PROVE  t[i] = IF i < index THEN front[i] ELSE back[i - index + 1]
    <3>1. i \in 1 .. Len(front) + Len(back) /\ (i <= Len(front) <=> i < index)
      BY <1>1, <1>6
    <3>2. t[i] = IF i <= Len(front) THEN front[i] ELSE back[i - Len(front)]
      BY <1>6, <3>1
    <3>3. i - Len(front) = i - index + 1
      BY <1>1, <1>6
    <3> QED BY <3>1, <3>2, <3>3
  <2> HIDE DEF t
  <2>3. Len(front) + Len(back) = size - 2
    <3>1. Len(front) = index - 1 /\ Len(back) = size - 1 - index
      BY <1>6
    <3>2. size \in Int /\ index \in Int
      BY <1>1
    <3> QED BY <3>1, <3>2
  <2> QED BY <2>1, <2>2, <2>3
<1> HIDE DEF t
<1>8. ASSUME NEW i \in 1 .. size - 2 PROVE r[i] = t[i]
  <2>1. r[i] = b[i - 1] /\ i - 1 \in 0 .. BUFFER_SIZE - 1
    BY <1>1, <1>5
  <2>2. CASE i < index
    <3>1. b[i - 1] = buffer[i - 1]
      BY <1>1, <1>2, <2>1, <2>2
    <3>2. t[i] = s[i] /\ s[i] = buffer[i - 1]
      BY <1>1, <1>4, <1>6, <1>7, <2>2
    <3> QED BY <2>1, <3>1, <3>2
  <2>3. CASE i >= index
    <3>1. b[i - 1] = buffer[i]
      BY <1>1, <1>2, <2>1, <2>3
    <3>2. i - index + 1 \in 1 .. size - 1 - index /\ index + (i - index + 1) = i + 1
          /\ i + 1 \in 1 .. size - 1 /\ (i + 1) - 1 = i
      BY <1>1, <2>3
    <3>3. t[i] = back[i - index + 1]
      BY <1>1, <1>7, <2>3
    <3>4. back[i - index + 1] = s[i + 1]
      BY <1>6, <3>2
    <3>5. s[i + 1] = buffer[i]
      BY <1>4, <3>2
    <3> QED BY <2>1, <3>1, <3>3, <3>4, <3>5
  <2> QED BY <1>1, <2>2, <2>3
<1>9. r = t
  BY <1>5, <1>7, <1>8
<1>10. RemoveAt(s, index) = t
  BY DEF RemoveAt, t, front, back
<1> QED BY <1>1, <1>3, <1>9, <1>10 DEF s, b, r

-----------------------------------------------------------------------------
(* The keys *)

\* After Enter the buffer is empty, whatever was handed over.
LEMMA RepeatedLine ==
  ASSUME NEW t, NEW line, Repeated(t, line)
  PROVE  LineInv' /\ CString(buffer)' = <<>> /\ index' = 0 /\ said' = line
<1>1. buffer' = Zeroed /\ index' = 0 /\ size' = 1 /\ said' = line
  BY DEF Repeated
<1>2. CString(buffer') = <<>> /\ IsLine(buffer', size')
  BY <1>1, ZeroedIs
<1> QED BY <1>1, <1>2 DEF LineInv, IsLine, CString

LEMMA StepRefines ==
  ASSUME LineInv, [Next]_vars
  PROVE  LineInv' /\ [Line!LNext]_(Line!lvars)
<1>1. /\ size \in 1 .. BUFFER_SIZE /\ index \in 0 .. size - 1
      /\ Len(CString(buffer)) = size - 1
  BY StringIs DEF LineInv, IsLine
<1>2. CASE UNCHANGED <<buffer, index, size, said>>
  BY <1>2 DEF LineInv, IsLine, Line!lvars, CString
<1>3. ASSUME NEW c \in Chars, Printable(c)
      PROVE  LineInv' /\ Line!LNext
  <2>1. /\ buffer' = Opened(buffer, c) /\ index' = index + 1 /\ size' = size + 1
        /\ said' = said /\ c \in Letters /\ size < BUFFER_SIZE
    BY <1>1, <1>3, Sizes DEF Printable
  <2>2. /\ IsLine(buffer', size')
        /\ CString(buffer') = InsertAt(CString(buffer), index + 1, c)
    BY <2>1, OpenedIs
  <2>3. index' \in 0 .. size' - 1
    BY <1>1, <2>1
  <2>4. Line!Insert(c)
    BY <2>1, <2>2 DEF Line!Insert, CString, InsertAt, Line!InsertAt
  <2> QED BY <2>1, <2>2, <2>3, <2>4 DEF LineInv, IsLine, Line!LNext
<1>4. ASSUME NEW c \in Chars, PrintableEnter(c)
      PROVE  LineInv' /\ Line!LNext
  <2> DEFINE line == CString(Opened(buffer, c))
  <2>1. /\ c \in Enders /\ size < BUFFER_SIZE /\ Repeated(Shown(c), line)
    BY <1>1, <1>4, Sizes DEF PrintableEnter
  <2>2. line = InsertAt(CString(buffer), index + 1, c)
    BY <2>1, OpenedIs
  <2>3. LineInv' /\ CString(buffer)' = <<>> /\ index' = 0 /\ said' = line
    BY <2>1, RepeatedLine
  <2> HIDE DEF line
  <2>4. Line!InsertAndEnter(c)
    BY <2>2, <2>3 DEF Line!InsertAndEnter, Line!HandOver, InsertAt, Line!InsertAt
  <2> QED BY <2>1, <2>3, <2>4 DEF Line!LNext
<1>5. CASE Backspace
  <2>1. /\ buffer' = Closed(buffer) /\ index' = index - 1 /\ size' = size - 1 /\ index > 0
        /\ said' = said
    BY <1>5 DEF Backspace
  <2>2. /\ IsLine(buffer', size') /\ index' \in 0 .. size' - 1
        /\ CString(buffer') = RemoveAt(CString(buffer), index)
    BY <2>1, ClosedIs
  <2>3. Line!Erase
    BY <2>1, <2>2 DEF Line!Erase, CString, RemoveAt, Line!RemoveAt
  <2> QED BY <2>2, <2>3 DEF LineInv, IsLine, Line!LNext
<1>6. CASE ArrowLeft
  <2>1. index' = (IF index > 0 THEN index - 1 ELSE 0) /\ UNCHANGED <<buffer, size, said>>
    BY <1>6 DEF ArrowLeft
  <2>2. LineInv' /\ CString(buffer)' = CString(buffer)
    BY <1>1, <2>1 DEF LineInv, IsLine, CString
  <2>3. Line!Left \/ UNCHANGED <<CString(buffer), index, said>>
    BY <1>1, <2>1, <2>2 DEF Line!Left
  <2> QED BY <2>2, <2>3 DEF Line!LNext, Line!lvars
<1>7. CASE ArrowRight
  <2>1. /\ index' = (IF index + 1 > size - 1 THEN size - 1 ELSE index + 1)
        /\ UNCHANGED <<buffer, size, said>>
    BY <1>7 DEF ArrowRight
  <2>2. LineInv' /\ CString(buffer)' = CString(buffer)
    BY <1>1, <2>1 DEF LineInv, IsLine, CString
  <2>3. Line!Right \/ UNCHANGED <<CString(buffer), index, said>>
    BY <1>1, <2>1, <2>2 DEF Line!Right
  <2> QED BY <2>2, <2>3 DEF Line!LNext, Line!lvars
<1>8. CASE Enter
  <2>1. Repeated(term, CString(buffer))
    BY <1>8 DEF Enter
  <2>2. LineInv' /\ CString(buffer)' = <<>> /\ index' = 0 /\ said' = CString(buffer)
    BY <2>1, RepeatedLine
  <2> QED BY <2>2 DEF Line!Enter, Line!HandOver, Line!LNext
<1> QED BY <1>2, <1>3, <1>4, <1>5, <1>6, <1>7, <1>8
        DEF Next, ArrowUp, ArrowDown, Undefined, vars, edited

LEMMA InitRefines == ASSUME Init PROVE LineInv /\ Line!LInit
<1>1. buffer = Zeroed /\ index = 0 /\ size = 1 /\ said = <<>>
  BY DEF Init
<1> QED BY <1>1, ZeroedIs DEF LineInv, Line!LInit

\* Typing, erasing and passing over are what a line editor promises, for every size of
\* the buffer and every set of keys, however the display looks; nothing is ever written
\* behind the buffer's end, and the line in it is ended by a zero.
THEOREM Refinement == Spec => ImplementsLineBuffer
<1> QED BY InitRefines, StepRefines, PTL DEF Spec, ImplementsLineBuffer, Line!LSpec

-----------------------------------------------------------------------------
(* The line and its row *)

\* A cell of the row the cursor is in.
Cell(t, k) == t.fvb[CursorRow(t) * TERM_WIDTH + k]

\* The row of the cursor shows the prompt and the line in b, which leaves room in it,
\* and the cursor is behind the first i characters.
RowShown(t, b, n, i) ==
  /\ PADDING + n <= TERM_WIDTH
  /\ t.x = PADDING + i
  /\ \A k \in 1 .. PADDING : Cell(t, k - 1) = Prompt[k]
  /\ \A k \in 0 .. n - 2 : Cell(t, PADDING + k) = b[k]

ShellInv ==
  /\ LineInv /\ size <= MaxLine + 1
  /\ TermOK(term)
  /\ said \in Seq(Chars) /\ spoiled \in BOOLEAN /\ edits \in 0 .. MaxEdits
  /\ ~ Lost(term) /\ ~ spoiled => RowShown(term, buffer, size, index)

\* Nothing has been typed behind a prompt.
LEMMA PromptRow ==
  ASSUME NEW t, PromptIn(t, CursorRow(t)), NEW b
  PROVE  RowShown(t, b, 1, 0)
<1>1. PADDING = 2 /\ TERM_WIDTH \in Nat /\ TERM_WIDTH >= 3
  BY PromptIs, Dimensions
<1>2. PADDING + 1 <= TERM_WIDTH /\ PADDING + 0 = PADDING /\ 0 .. 1 - 2 = {}
  BY <1>1
<1>3. t.x = PADDING /\ \A k \in 1 .. PADDING : Cell(t, k - 1) = Prompt[k]
  BY DEF PromptIn, Cell
<1> QED BY <1>2, <1>3 DEF RowShown

\* Where the cells of the row are.
LEMMA RowCells ==
  ASSUME NEW t, TermOK(t), ~ Lost(t), NEW k \in 0 .. TERM_WIDTH - 1
  PROVE  /\ CursorRow(t) * TERM_WIDTH + k \in Cells
         /\ CursorRow(t) * TERM_WIDTH \in Int
         /\ k < t.x <=> CursorRow(t) * TERM_WIDTH + k < Index(t)
         /\ k = t.x <=> CursorRow(t) * TERM_WIDTH + k = Index(t)
<1>1. CursorRow(t) \in Int /\ CursorRow(t) >= 0 /\ CursorRow(t) < Rows /\ t.x \in Int
  BY Inside, TermFields
<1>2. CursorRow(t) * TERM_WIDTH + k \in Cells /\ CursorRow(t) * TERM_WIDTH \in Int
  BY <1>1, Places, RowOrder
<1> DEFINE a == CursorRow(t) * TERM_WIDTH
<1>3. Index(t) = a + t.x /\ a \in Int /\ k \in Int
  BY <1>2, Dimensions DEF Index
<1> HIDE DEF a
<1>4. (k < t.x <=> a + k < Index(t)) /\ (k = t.x <=> a + k = Index(t))
  BY <1>1, <1>3
<1> QED BY <1>2, <1>4 DEF a

\* The row is the same one, with the cells the line needs.
LEMMA SameRow ==
  ASSUME NEW t, NEW u, CursorRow(u) = CursorRow(t),
         NEW b, NEW n \in Nat, NEW i, RowShown(t, b, n, i),
         NEW d, NEW m \in Nat, NEW j, PADDING + m <= TERM_WIDTH, u.x = PADDING + j,
         \A k \in 0 .. PADDING - 1 : Cell(u, k) = Cell(t, k),
         \A k \in 0 .. m - 2 : Cell(u, PADDING + k) = d[k]
  PROVE  RowShown(u, d, m, j)
<1>1. \A k \in 1 .. PADDING : k - 1 \in 0 .. PADDING - 1
  BY PromptIs
<1> QED BY <1>1 DEF RowShown

\* A character typed behind the line, which is not yet at the end of the row.
LEMMA TypedAtEnd ==
  ASSUME NEW t, TermOK(t), ~ Lost(t), NEW b, NEW n \in Nat, RowShown(t, b, n, n - 1),
         n >= 1, PADDING + n < TERM_WIDTH, NEW c \in Chars,
         NEW u, u = tio_write_char(t, c), ~ Lost(u),
         NEW d, d[n - 1] = c, \A k \in 0 .. n - 2 : d[k] = b[k]
  PROVE  RowShown(u, d, n + 1, n)
<1>1. PutAtCursor(t, c, u)
  BY LetterIs
<1>2. PADDING = 2 /\ TERM_WIDTH \in Nat /\ t.x = PADDING + (n - 1)
  BY PromptIs, Dimensions DEF RowShown
<1>3. t.x + 1 < TERM_WIDTH /\ t.x + 1 = PADDING + n
  BY <1>2
<1>4. u.x = PADDING + n /\ CursorRow(u) = CursorRow(t)
  BY <1>1, <1>3 DEF PutAtCursor
<1>5. ASSUME NEW k \in 0 .. TERM_WIDTH - 1
      PROVE  Cell(u, k) = IF k = t.x THEN c ELSE Cell(t, k)
  BY <1>1, <1>4, RowCells DEF Cell, PutAtCursor
<1>6. \A k \in 0 .. PADDING - 1 : Cell(u, k) = Cell(t, k)
  BY <1>2, <1>3, <1>5
<1>7. ASSUME NEW k \in 0 .. (n + 1) - 2 PROVE Cell(u, PADDING + k) = d[k]
  <2>1. PADDING + k \in 0 .. TERM_WIDTH - 1
    BY <1>2
  <2>2. CASE k = n - 1
    BY <1>2, <1>5, <2>1, <2>2
  <2>3. CASE k \in 0 .. n - 2
    <3>1. PADDING + k # t.x
      BY <1>2, <2>3
    <3>2. Cell(t, PADDING + k) = b[k]
      BY <2>3 DEF RowShown
    <3> QED BY <1>5, <2>1, <2>3, <3>1, <3>2
  <2> QED BY <2>2, <2>3
<1>8. PADDING + (n + 1) <= TERM_WIDTH /\ n + 1 \in Nat
  BY <1>2
<1> QED BY <1>4, <1>6, <1>7, <1>8, SameRow

\* A character put in inside the line: the rest of the row makes room for it, if it is
\* in view.
LEMMA TypedInside ==
  ASSUME NEW t, TermOK(t), ~ Lost(t), NEW b, NEW n \in Nat, NEW i \in Nat,
         RowShown(t, b, n, i), i < n - 1, t.y < TERM_HEIGHT, PADDING + n < TERM_WIDTH,
         NEW c \in Chars, NEW u, u = tio_write_char(tio_shift_right(t), c), ~ Lost(u),
         NEW d, d[i] = c, \A k \in 0 .. i - 1 : d[k] = b[k],
         \A k \in i + 1 .. n - 1 : d[k] = b[k - 1]
  PROVE  RowShown(u, d, n + 1, i + 1)
<1> DEFINE v == tio_shift_right(t)
           end == view_get_buffer_end_index(t)
<1>1. /\ TermOK(v) /\ ~ Lost(v) /\ v.row = t.row /\ v.x = t.x /\ v.y = t.y
      /\ \A j \in Cells : j < Index(t) => v.fvb[j] = t.fvb[j]
      /\ \A j \in Cells : Index(t) < j /\ j <= end => v.fvb[j] = t.fvb[j - 1]
  BY ShiftRightIs
<1>2. u = tio_write_char(v, c)
  OBVIOUS
<1>3. CursorRow(t) * TERM_WIDTH + TERM_WIDTH <= end /\ end \in Int
  BY RowInView
<1> HIDE DEF v, end
<1>4. CursorRow(v) = CursorRow(t) /\ Index(v) = Index(t)
  BY <1>1 DEF CursorRow, Index
<1>5. PutAtCursor(v, c, u)
  BY <1>1, <1>2, LetterIs
<1>6. PADDING = 2 /\ TERM_WIDTH \in Nat /\ t.x = PADDING + i
  BY PromptIs, Dimensions DEF RowShown
<1>7. t.x + 1 < TERM_WIDTH /\ t.x + 1 = PADDING + (i + 1)
  BY <1>6
<1>8. u.x = PADDING + (i + 1) /\ CursorRow(u) = CursorRow(t)
  BY <1>1, <1>4, <1>5, <1>7 DEF PutAtCursor
<1>9. ASSUME NEW k \in 0 .. TERM_WIDTH - 1
      PROVE  Cell(u, k) = IF k < t.x THEN Cell(t, k)
                          ELSE IF k = t.x THEN c ELSE Cell(t, k - 1)
  <2> DEFINE a == CursorRow(t) * TERM_WIDTH
  <2>1. /\ a + k \in Cells /\ a \in Int
        /\ k < t.x <=> a + k < Index(t)
        /\ k = t.x <=> a + k = Index(t)
    BY RowCells
  <2>2. Cell(u, k) = u.fvb[a + k] /\ Cell(t, k) = t.fvb[a + k]
        /\ Cell(t, k - 1) = t.fvb[a + (k - 1)]
    BY <1>8 DEF Cell
  <2>3. u.fvb[a + k] = IF a + k = Index(t) THEN c ELSE v.fvb[a + k]
    BY <1>4, <1>5, <2>1 DEF PutAtCursor
  <2>4. a + k <= end
    BY <1>3, <1>6, <2>1
  <2>5. Index(t) \in Int /\ t.x \in Int /\ k \in Int
    BY <1>6, RowInView
  <2> HIDE DEF a
  <2>6. CASE k < t.x
    <3>1. a + k < Index(t) /\ a + k # Index(t)
      BY <2>1, <2>5, <2>6
    <3> QED BY <1>1, <2>1, <2>2, <2>3, <2>6, <3>1
  <2>7. CASE k = t.x
    <3>1. ~ (k < t.x)
      BY <2>5, <2>7
    <3> QED BY <2>1, <2>2, <2>3, <2>7, <3>1
  <2>8. CASE k > t.x
    <3>1. Index(t) < a + k /\ a + k # Index(t) /\ (a + k) - 1 = a + (k - 1)
          /\ ~ (k < t.x) /\ k # t.x
      BY <2>1, <2>5, <2>8
    <3> QED BY <1>1, <2>1, <2>2, <2>3, <2>4, <3>1
  <2> QED BY <2>5, <2>6, <2>7, <2>8
<1>10. \A k \in 0 .. PADDING - 1 : Cell(u, k) = Cell(t, k)
  BY <1>6, <1>7, <1>9
<1>11. ASSUME NEW k \in 0 .. (n + 1) - 2 PROVE Cell(u, PADDING + k) = d[k]
  <2>1. PADDING + k \in 0 .. TERM_WIDTH - 1
    BY <1>6
  <2>2. CASE k = i
    <3>1. PADDING + k = t.x /\ ~ (PADDING + k < t.x)
      BY <1>6, <2>2
    <3> QED BY <1>9, <2>1, <2>2, <3>1
  <2>3. CASE k \in 0 .. i - 1
    <3>1. PADDING + k < t.x /\ k \in 0 .. n - 2
      BY <1>6, <2>3
    <3>2. Cell(t, PADDING + k) = b[k]
      BY <3>1 DEF RowShown
    <3> QED BY <1>9, <2>1, <2>3, <3>1, <3>2
  <2>4. CASE k \in i + 1 .. n - 1
    <3>1. ~ (PADDING + k < t.x) /\ PADDING + k # t.x /\ k - 1 \in 0 .. n - 2
          /\ (PADDING + k) - 1 = PADDING + (k - 1)
      BY <1>6, <2>4
    <3>2. Cell(t, PADDING + (k - 1)) = b[k - 1]
      BY <3>1 DEF RowShown
    <3> QED BY <1>9, <2>1, <2>4, <3>1, <3>2
  <2> QED BY <2>2, <2>3, <2>4
<1>12. PADDING + (n + 1) <= TERM_WIDTH /\ n + 1 \in Nat
  BY <1>6
<1> QED BY <1>8, <1>10, <1>11, <1>12, SameRow

\* The last character of the line is erased.
LEMMA ErasedAtEnd ==
  ASSUME NEW t, TermOK(t), ~ Lost(t), NEW b, NEW n \in Nat, RowShown(t, b, n, n - 1),
         n >= 2, NEW u, u = tio_backspace(tio_shift_left(t)),
         NEW d, \A k \in 0 .. n - 3 : d[k] = b[k]
  PROVE  RowShown(u, d, n - 1, n - 2)
<1> DEFINE v == tio_shift_left(t)
<1>1. /\ TermOK(v) /\ ~ Lost(v) /\ v.drawn
      /\ v.row = t.row /\ v.x = t.x /\ v.y = t.y
      /\ \A i \in Cells : i < Index(t) => v.fvb[i] = t.fvb[i]
  BY ShiftLeftIs
<1>2. u = tio_backspace(v)
  OBVIOUS
<1> HIDE DEF v
<1>3. CursorRow(v) = CursorRow(t) /\ Index(v) = Index(t)
  BY <1>1 DEF CursorRow, Index
<1>4. PADDING = 2 /\ TERM_WIDTH \in Nat /\ t.x = PADDING + (n - 1) /\ PADDING + n <= TERM_WIDTH
  BY PromptIs, Dimensions DEF RowShown
<1>5. v.x > 0
  BY <1>1, <1>4
<1>6. /\ TermOK(u) /\ ~ Lost(u)
      /\ u.x = t.x - 1 /\ CursorRow(u) = CursorRow(t)
      /\ \A i \in Cells : i # Index(t) - 1 => u.fvb[i] = v.fvb[i]
  BY <1>1, <1>2, <1>3, <1>5, BackspaceIs
<1>7. u.x = PADDING + (n - 2)
  BY <1>4, <1>6
<1>8. ASSUME NEW k \in 0 .. TERM_WIDTH - 1, k < t.x - 1
      PROVE  Cell(u, k) = Cell(t, k)
  <2> DEFINE a == CursorRow(t) * TERM_WIDTH
  <2>1. a + k \in Cells /\ a \in Int
    BY RowCells
  <2>2. Index(t) = a + t.x
    BY DEF Index
  <2>3. u.fvb[a + k] = t.fvb[a + k]
    <3> HIDE DEF a
    <3>1. a + k < Index(t) /\ a + k # Index(t) - 1
      BY <1>4, <1>8, <2>1, <2>2
    <3> QED BY <1>1, <1>6, <2>1, <3>1
  <2> QED BY <1>6, <2>3 DEF Cell
<1>9. \A k \in 0 .. PADDING - 1 : Cell(u, k) = Cell(t, k)
  <2>1. \A k \in 0 .. PADDING - 1 : k \in 0 .. TERM_WIDTH - 1 /\ k < t.x - 1
    BY <1>4
  <2> QED BY <1>8, <2>1
<1>10. ASSUME NEW k \in 0 .. (n - 1) - 2 PROVE Cell(u, PADDING + k) = d[k]
  <2>1. k \in 0 .. n - 3 /\ k \in 0 .. n - 2
        /\ PADDING + k \in 0 .. TERM_WIDTH - 1 /\ PADDING + k < t.x - 1
    BY <1>4
  <2>2. Cell(t, PADDING + k) = b[k]
    BY <2>1 DEF RowShown
  <2> QED BY <1>8, <2>1, <2>2
<1>11. PADDING + (n - 1) <= TERM_WIDTH /\ n - 1 \in Nat
  BY <1>4
<1> QED BY <1>6, <1>7, <1>9, <1>10, <1>11, SameRow

\* The cursor has moved in a row that is the same.
LEMMA Moved ==
  ASSUME NEW t, NEW u, CursorRow(u) = CursorRow(t), u.fvb = t.fvb,
         NEW b, NEW n, NEW i, NEW j, RowShown(t, b, n, i), u.x = PADDING + j
  PROVE  RowShown(u, b, n, j)
BY DEF RowShown, Cell

-----------------------------------------------------------------------------
(* What a key does to the terminal *)

\* The terminal is in order, the row shows the line, and a view or a cursor that has
\* left the buffer was on its last page.
InOrder(t, u, b, n, i, wrong) ==
  /\ TermOK(u)
  /\ ~ Lost(u) /\ ~ wrong => RowShown(u, b, n, i)
  /\ Lost(u) => CursorRow(t) + RowsPerKey >= Rows - TERM_HEIGHT

LEMMA RowsIs ==
  /\ RowsPerKey = 3 + LineRows /\ LineRows \in Int /\ LineRows >= 0 /\ Rows \in Int
  /\ TERM_HEIGHT \in Int
<1>1. MaxLine \in Nat /\ TERM_WIDTH \in Nat \ {0}
  BY Sizes, Dimensions
<1> QED BY <1>1, Dimensions DEF LineRows, RowsPerKey

LEMMA OnLastPage ==
  ASSUME NEW t, TermOK(t), ~ Lost(t), CursorRow(t) >= Rows - TERM_HEIGHT
  PROVE  CursorRow(t) + RowsPerKey >= Rows - TERM_HEIGHT
BY RowsIs, Inside

LEMMA LineFacts ==
  ASSUME LineInv
  PROVE  /\ size \in Nat /\ size >= 1 /\ size <= BUFFER_SIZE /\ BUFFER_SIZE \in Nat
         /\ index \in Nat /\ index <= size - 1 /\ DOMAIN buffer = 0 .. BUFFER_SIZE - 1
BY Sizes DEF LineInv, IsLine

\* A character that is typed.
LEMMA ShownOK ==
  ASSUME TermOK(term), ~ Lost(term), NEW c \in Chars
  PROVE  /\ TermOK(Shown(c))
         /\ Lost(Shown(c)) => CursorRow(term) >= Rows - TERM_HEIGHT
         /\ ~ Lost(Shown(c)) => CursorRow(Shown(c)) <= CursorRow(term) + 1
<1> DEFINE v == IF AtEnd THEN term ELSE tio_shift_right(term)
           u == Shown(c)
<1>1. TermOK(v) /\ ~ Lost(v) /\ CursorRow(v) = CursorRow(term)
  <2>1. CASE AtEnd
    BY <2>1
  <2>2. CASE ~ AtEnd
    <3> DEFINE w == tio_shift_right(term)
    <3>1. TermOK(w) /\ ~ Lost(w) /\ w.row = term.row /\ w.y = term.y
      BY ShiftRightIs
    <3> HIDE DEF w
    <3> QED BY <2>2, <3>1 DEF CursorRow, w
  <2> QED BY <2>1, <2>2
<1>2. u = tio_write_char(v, c)
  BY DEF Shown
<1> HIDE DEF u, v
<1>3. /\ TermOK(u)
      /\ Lost(u) => CursorRow(v) >= Rows - TERM_HEIGHT
  BY <1>1, <1>2, LetterIs
<1>4. ~ Lost(u) => CursorRow(u) <= CursorRow(v) + 1
  BY <1>1, <1>2, OnePlace
<1> QED BY <1>1, <1>3, <1>4 DEF u

LEMMA PrintableOK ==
  ASSUME ShellInv, NEW c \in Chars, Printable(c)
  PROVE  InOrder(term, term', buffer', size', index', spoiled')
<1>1. /\ LineInv /\ TermOK(term) /\ ~ Lost(term) /\ size <= MaxLine
      /\ ~ spoiled => RowShown(term, buffer, size, index)
      /\ spoiled \in BOOLEAN
  BY DEF ShellInv, Printable
<1>2. /\ term' = Shown(c) /\ buffer' = Opened(buffer, c) /\ index' = index + 1
      /\ size' = size + 1 /\ spoiled' = (spoiled \/ Wraps \/ (~ AtEnd /\ BelowView))
  BY DEF Printable
<1>3. /\ size \in Nat /\ size >= 1 /\ size <= BUFFER_SIZE /\ BUFFER_SIZE \in Nat
      /\ index \in Nat /\ index <= size - 1 /\ DOMAIN buffer = 0 .. BUFFER_SIZE - 1
      /\ size < BUFFER_SIZE
  BY <1>1, LineFacts, Sizes
<1>4. TermOK(term') /\ (Lost(term') => CursorRow(term) >= Rows - TERM_HEIGHT)
  BY <1>1, <1>2, ShownOK
<1> DEFINE b == buffer'
<1>5. /\ b[index] = c
      /\ \A k \in 0 .. index - 1 : b[k] = buffer[k]
      /\ \A k \in index + 1 .. size - 1 : b[k] = buffer[k - 1]
  BY <1>2, <1>3 DEF Opened
<1> HIDE DEF b
<1>6. ASSUME ~ Lost(term'), ~ spoiled' PROVE RowShown(term', b, size', index')
  <2>1. RowShown(term, buffer, size, index) /\ ~ Wraps /\ (AtEnd \/ ~ BelowView)
    BY <1>1, <1>2, <1>6
  <2>2. PADDING + size < TERM_WIDTH
    BY <1>3, <2>1, PromptIs, Dimensions DEF Wraps
  <2>3. CASE AtEnd
    <3>1. index = size - 1 /\ term' = tio_write_char(term, c)
      BY <1>2, <2>3 DEF AtEnd, Shown
    <3>2. b[size - 1] = c /\ \A k \in 0 .. size - 2 : b[k] = buffer[k]
      BY <1>3, <1>5, <3>1
    <3>3. RowShown(term, buffer, size, size - 1) /\ index' = size /\ size' = size + 1
      BY <1>2, <1>3, <2>1, <3>1
    <3>4. RowShown(term', b, size + 1, size)
      BY <1>1, <1>3, <1>6, <2>2, <3>1, <3>2, <3>3, TypedAtEnd
    <3> QED BY <3>3, <3>4
  <2>4. CASE ~ AtEnd
    <3>1. index < size - 1 /\ term' = tio_write_char(tio_shift_right(term), c)
      BY <1>2, <1>3, <2>4 DEF AtEnd, Shown
    <3>2. term.y < TERM_HEIGHT
      BY <1>1, <2>1, <2>4, Inside, Dimensions DEF BelowView
    <3>3. RowShown(term', b, size + 1, index + 1)
      BY <1>1, <1>3, <1>5, <1>6, <2>1, <2>2, <3>1, <3>2, TypedInside
    <3> QED BY <1>2, <3>3
  <2> QED BY <2>3, <2>4
<1> QED BY <1>1, <1>4, <1>6, OnLastPage DEF InOrder, b

LEMMA BackspaceOK ==
  ASSUME ShellInv, Backspace
  PROVE  InOrder(term, term', buffer', size', index', spoiled')
<1>1. /\ LineInv /\ TermOK(term) /\ ~ Lost(term) /\ index > 0
      /\ ~ spoiled => RowShown(term, buffer, size, index)
      /\ spoiled \in BOOLEAN
  BY DEF ShellInv, Backspace
<1>2. /\ term' = tio_backspace(tio_shift_left(term)) /\ buffer' = Closed(buffer)
      /\ index' = index - 1 /\ size' = size - 1 /\ spoiled' = (spoiled \/ ~ AtEnd)
  BY DEF Backspace
<1>3. /\ size \in Nat /\ size >= 2 /\ size <= BUFFER_SIZE /\ BUFFER_SIZE \in Nat
      /\ index \in Nat /\ index <= size - 1 /\ DOMAIN buffer = 0 .. BUFFER_SIZE - 1
  BY <1>1, LineFacts
<1>4. TermOK(term') /\ ~ Lost(term')
  <2>1. TermOK(tio_shift_left(term)) /\ ~ Lost(tio_shift_left(term)) /\ tio_shift_left(term).drawn
    BY <1>1, ShiftLeftIs
  <2> QED BY <1>2, <2>1, BackspaceIs
<1> DEFINE b == buffer'
<1>5. AtEnd => \A k \in 0 .. size - 3 : b[k] = buffer[k]
  BY <1>2, <1>3 DEF Closed, AtEnd
<1> HIDE DEF b
<1>6. ASSUME ~ spoiled' PROVE RowShown(term', b, size', index')
  <2>1. RowShown(term, buffer, size, index) /\ index = size - 1 /\ AtEnd
    BY <1>1, <1>2, <1>6 DEF AtEnd
  <2>2. index' = size - 2 /\ size' = size - 1
    BY <1>2, <1>3, <2>1
  <2>3. RowShown(term, buffer, size, size - 1) /\ \A k \in 0 .. size - 3 : b[k] = buffer[k]
    BY <1>5, <2>1
  <2>4. RowShown(term', b, size - 1, size - 2)
    BY <1>1, <1>2, <1>3, <2>3, ErasedAtEnd
  <2> QED BY <2>2, <2>4
<1> QED BY <1>4, <1>6 DEF InOrder, b

LEMMA ArrowsOK ==
  ASSUME ShellInv, ArrowLeft \/ ArrowRight
  PROVE  InOrder(term, term', buffer', size', index', spoiled')
<1>1. /\ LineInv /\ TermOK(term) /\ ~ Lost(term)
      /\ ~ spoiled => RowShown(term, buffer, size, index)
      /\ buffer' = buffer /\ size' = size /\ spoiled' = spoiled
  BY DEF ShellInv, ArrowLeft, ArrowRight, edited, record
<1>2. /\ size \in Nat /\ size >= 1 /\ index \in Nat /\ index <= size - 1
      /\ PADDING = 2 /\ TERM_WIDTH \in Nat
  BY <1>1, LineFacts, PromptIs, Dimensions
<1>3. ~ spoiled => term.x = PADDING + index /\ PADDING + size <= TERM_WIDTH
  BY <1>1 DEF RowShown
<1>4. CASE ArrowLeft
  <2>1. /\ term' = tio_cursor_dec(term) /\ MayDec(term, PADDING)
        /\ index' = IF index > 0 THEN index - 1 ELSE 0
    BY <1>4 DEF ArrowLeft
  <2>2. term.x > PADDING /\ term.x > 0
    <3>1. term.x > PADDING /\ term.x \in Int
      BY <1>1, <2>1, TermFields DEF MayDec, TermOK
    <3> QED BY <1>2, <3>1
  <2>3. /\ TermOK(term') /\ ~ Lost(term') /\ term'.fvb = term.fvb
        /\ term'.x = term.x - 1 /\ CursorRow(term') = CursorRow(term)
    BY <1>1, <2>1, <2>2, DecIs
  <2>4. ASSUME ~ spoiled PROVE RowShown(term', buffer, size, index')
    <3>1. term'.x = PADDING + index'
      BY <1>2, <1>3, <2>1, <2>2, <2>3, <2>4
    <3> QED BY <1>1, <2>3, <2>4, <3>1, Moved
  <2> QED BY <1>1, <2>3, <2>4 DEF InOrder
<1>5. CASE ArrowRight
  <2>1. /\ term' = tio_cursor_inc(term) /\ MayInc(term, size, PADDING)
        /\ index' = IF index + 1 > size - 1 THEN size - 1 ELSE index + 1
    BY <1>5 DEF ArrowRight
  <2>2. /\ TermOK(term')
        /\ ~ Lost(term') => Advanced(term, term')
        /\ Lost(term') => CursorRow(term) >= Rows - 3
    BY <1>1, <2>1, Inside, IncIs
  <2>3. Lost(term') => CursorRow(term) >= Rows - TERM_HEIGHT
    BY <1>1, <2>2, Inside, Dimensions
  <2>4. ASSUME ~ spoiled, ~ Lost(term') PROVE RowShown(term', buffer, size, index')
    <3>1. term.x < PADDING + size - 1
      BY <2>1 DEF MayInc
    <3>2. term.x + 1 < TERM_WIDTH
      BY <1>2, <1>3, <2>4, <3>1
    <3>3. term'.fvb = term.fvb /\ term'.x = term.x + 1 /\ CursorRow(term') = CursorRow(term)
      BY <2>2, <2>4, <3>2 DEF Advanced
    <3>4. term'.x = PADDING + index'
      BY <1>2, <1>3, <2>1, <2>4, <3>1, <3>3
    <3> QED BY <1>1, <2>4, <3>3, <3>4, Moved
  <2> QED BY <1>1, <2>2, <2>3, <2>4, OnLastPage DEF InOrder
<1> QED BY <1>4, <1>5

\* Up and down: the cursor keeps its place in the text.
LEMMA ViewKeys ==
  ASSUME TermOK(term), ArrowUp \/ ArrowDown
  PROVE  /\ TermOK(term') /\ ~ Lost(term)
         /\ ~ Lost(term') => Kept(term, term')
         /\ Lost(term') => CursorRow(term) >= Rows - TERM_HEIGHT
<1>1. CASE ArrowUp
  <2>1. ~ Lost(term) /\ term' = view_shift_down(term, 1)
    BY <1>1 DEF ArrowUp
  <2> QED BY <2>1, DownIs
<1>2. CASE ArrowDown
  <2>1. ~ Lost(term) /\ term' = view_shift_up(term, 1)
    BY <1>2 DEF ArrowDown
  <2> QED BY <2>1, UpIs
<1> QED BY <1>1, <1>2

LEMMA ViewKeysOK ==
  ASSUME ShellInv, ArrowUp \/ ArrowDown
  PROVE  InOrder(term, term', buffer', size', index', spoiled')
<1>1. /\ TermOK(term) /\ ~ Lost(term)
      /\ ~ spoiled => RowShown(term, buffer, size, index)
      /\ buffer' = buffer /\ size' = size /\ index' = index /\ spoiled' = spoiled
  BY DEF ShellInv, ArrowUp, ArrowDown, edited, record
<1>2. /\ TermOK(term')
      /\ ~ Lost(term') => Kept(term, term')
      /\ Lost(term') => CursorRow(term) >= Rows - TERM_HEIGHT
  BY <1>1, ViewKeys
<1>3. ASSUME ~ Lost(term'), ~ spoiled PROVE RowShown(term', buffer, size, index)
  <2>1. term'.fvb = term.fvb /\ term'.x = term.x /\ CursorRow(term') = CursorRow(term)
    BY <1>2, <1>3 DEF Kept
  <2>2. RowShown(term, buffer, size, index) /\ term'.x = PADDING + index
    BY <1>1, <1>3, <2>1 DEF RowShown
  <2> QED BY <2>1, <2>2, Moved
<1> QED BY <1>1, <1>2, <1>3, OnLastPage DEF InOrder

\* The line is repeated and the next one begun.
LEMMA RepeatedOK ==
  ASSUME NEW t, TermOK(t), ~ Lost(t), NEW line \in Seq(Chars), Len(line) <= MaxLine,
         Repeated(t, line)
  PROVE  /\ TermOK(term')
         /\ ~ Lost(term') => RowShown(term', buffer', size', index')
         /\ Lost(term') => CursorRow(t) + 2 + LineRows >= Rows - TERM_HEIGHT
<1>1. /\ term' = tio_write(t, Reply(line)) /\ size' = 1 /\ index' = 0
  BY DEF Repeated, Reply
<1>2. /\ TermOK(term')
      /\ ~ Lost(term') => PromptIn(term', CursorRow(term'))
      /\ Lost(term') => CursorRow(t) + 2 + LineRows >= Rows - TERM_HEIGHT
  BY <1>1, ReplyShown
<1>3. ~ Lost(term') => RowShown(term', buffer', 1, 0)
  BY <1>2, PromptRow
<1> QED BY <1>1, <1>2, <1>3

LEMMA EnterOK ==
  ASSUME ShellInv, Enter
  PROVE  InOrder(term, term', buffer', size', index', spoiled') /\ said' \in Seq(Chars)
<1> DEFINE line == CString(buffer)
<1>1. LineInv /\ TermOK(term) /\ ~ Lost(term) /\ size <= MaxLine + 1 /\ Repeated(term, line)
  BY DEF ShellInv, Enter
<1>2. line \in Seq(Chars) /\ Len(line) <= MaxLine
  <2>1. line \in Seq(Chars) /\ Len(line) = size - 1
    BY <1>1, StringIs DEF LineInv
  <2> HIDE DEF line
  <2> QED BY <1>1, <2>1, LineFacts, Sizes
<1> HIDE DEF line
<1>3. /\ TermOK(term')
      /\ ~ Lost(term') => RowShown(term', buffer', size', index')
      /\ Lost(term') => CursorRow(term) + 2 + LineRows >= Rows - TERM_HEIGHT
  BY <1>1, <1>2, RepeatedOK
<1>4. Lost(term') => CursorRow(term) + RowsPerKey >= Rows - TERM_HEIGHT
  BY <1>1, <1>3, RowsIs, Inside
<1>5. said' = line
  BY <1>1 DEF Repeated
<1> QED BY <1>2, <1>3, <1>4, <1>5 DEF InOrder

LEMMA PrintableEnterOK ==
  ASSUME ShellInv, NEW c \in Chars, PrintableEnter(c), ~ Lost(Shown(c))
  PROVE  InOrder(term, term', buffer', size', index', spoiled') /\ said' \in Seq(Chars)
<1> DEFINE line == CString(Opened(buffer, c))
           t == Shown(c)
<1>1. LineInv /\ TermOK(term) /\ ~ Lost(term) /\ size <= MaxLine /\ Repeated(t, line)
  BY DEF ShellInv, PrintableEnter
<1>2. line \in Seq(Chars) /\ Len(line) <= MaxLine
  <2>1. IsLine(Opened(buffer, c), size + 1)
    BY <1>1, LineFacts, Sizes, OpenedIs
  <2>2. line \in Seq(Chars) /\ Len(line) = (size + 1) - 1
    BY <2>1, StringIs
  <2> HIDE DEF line
  <2> QED BY <1>1, <2>2, LineFacts
<1>3. TermOK(t) /\ CursorRow(t) <= CursorRow(term) + 1 /\ ~ Lost(t)
  BY <1>1, ShownOK
<1> HIDE DEF line, t
<1>4. /\ TermOK(term')
      /\ ~ Lost(term') => RowShown(term', buffer', size', index')
      /\ Lost(term') => CursorRow(t) + 2 + LineRows >= Rows - TERM_HEIGHT
  BY <1>1, <1>2, <1>3, RepeatedOK
<1>5. CursorRow(t) \in Int /\ CursorRow(term) \in Int
  BY <1>1, <1>3, Inside
<1>6. Lost(term') => CursorRow(term) + RowsPerKey >= Rows - TERM_HEIGHT
  BY <1>3, <1>4, <1>5, RowsIs
<1>7. said' = line
  BY <1>1 DEF Repeated
<1> QED BY <1>2, <1>4, <1>6, <1>7 DEF InOrder

\* Nothing is said of what is written once view or cursor have left the buffer.
LEMMA LostWrite ==
  ASSUME NEW t, Lost(t), NEW s, Len(s) \in Nat
  PROVE  tio_write(t, s) = t
<1> DEFINE n == Len(s)
<1>1. PICK f : Writing(t, s, f)
  BY WritingIs
<1>2. /\ n \in Nat /\ f[0] = t /\ tio_write(t, s) = f[n]
      /\ \A i \in 1 .. n : f[i] = tio_write_char(f[i - 1], s[i])
  BY <1>1 DEF Writing
<1> HIDE DEF n
<1> DEFINE S == {i \in Nat : i <= n => f[i] = t}
<1>3. 0 \in S
  BY <1>2
<1>4. ASSUME NEW i \in S PROVE i + 1 \in S
  <2> SUFFICES ASSUME i + 1 <= n PROVE f[i + 1] = t
    OBVIOUS
  <2>1. i + 1 \in 1 .. n /\ (i + 1) - 1 = i /\ f[i] = t
    BY <1>2
  <2>2. f[i + 1] = tio_write_char(t, s[i + 1])
    BY <1>2, <2>1
  <2> QED BY <2>2 DEF tio_write_char
<1>5. S = Nat
  <2>1. S \subseteq Nat
    OBVIOUS
  <2> HIDE DEF S
  <2> QED BY <1>3, <1>4, <2>1, Induction
<1> QED BY <1>2, <1>5

LEMMA PrintableEnterLost ==
  ASSUME ShellInv, NEW c \in Chars, PrintableEnter(c), Lost(Shown(c))
  PROVE  InOrder(term, term', buffer', size', index', spoiled') /\ said' \in Seq(Chars)
<1> DEFINE line == CString(Opened(buffer, c))
           t == Shown(c)
<1>1. LineInv /\ TermOK(term) /\ ~ Lost(term) /\ size <= MaxLine /\ Repeated(t, line)
  BY DEF ShellInv, PrintableEnter
<1>2. line \in Seq(Chars)
  <2>1. IsLine(Opened(buffer, c), size + 1)
    BY <1>1, LineFacts, Sizes, OpenedIs
  <2> QED BY <2>1, StringIs
<1>3. TermOK(t) /\ Lost(t) /\ CursorRow(term) >= Rows - TERM_HEIGHT
  BY <1>1, ShownOK
<1> HIDE DEF line, t
<1>4. term' = t
  <2>1. term' = tio_write(t, Reply(line)) /\ Len(Reply(line)) \in Nat
    BY <1>1, <1>2, ReplyIs DEF Repeated, Reply
  <2> QED BY <1>3, <2>1, LostWrite
<1>5. said' = line
  BY <1>1 DEF Repeated
<1> QED BY <1>1, <1>2, <1>3, <1>4, <1>5, OnLastPage DEF InOrder

-----------------------------------------------------------------------------
(* The screen and the line together *)

LEMMA FirstShell == ASSUME Init PROVE ShellInv
<1>1. LineInv /\ size = 1 /\ index = 0 /\ said = <<>> /\ spoiled = FALSE /\ edits = 0
  BY InitRefines DEF Init
<1>2. TermOK(term) /\ (~ Lost(term) => PromptIn(term, CursorRow(term)))
  BY FirstPrompt DEF Init
<1>3. ~ Lost(term) => RowShown(term, buffer, 1, 0)
  BY <1>2, PromptRow
<1>4. size <= MaxLine + 1 /\ 0 \in 0 .. MaxEdits
  <2>1. MaxEdits \in Nat /\ MaxLine \in Nat
    BY ShellAssumption, Sizes, Zenon
  <2>2. 1 <= MaxLine + 1 /\ 0 \in 0 .. MaxEdits
    BY <2>1
  <2> QED BY <1>1, <2>2
<1>5. said \in Seq(Chars)
  <2>1. <<>> \in Seq(Chars)
    OBVIOUS
  <2> QED BY <1>1, <2>1
<1> QED BY <1>1, <1>2, <1>3, <1>4, <1>5 DEF ShellInv

\* The step of every key, but for the line, which StepRefines is about.
LEMMA KeyOK ==
  ASSUME ShellInv, Next
  PROVE  /\ vars' = vars \/ InOrder(term, term', buffer', size', index', spoiled')
         /\ said' \in Seq(Chars) /\ spoiled' \in BOOLEAN
         /\ size' <= MaxLine + 1 /\ edits' \in 0 .. MaxEdits
<1>1. /\ said \in Seq(Chars) /\ spoiled \in BOOLEAN /\ size \in Nat /\ size <= MaxLine + 1
      /\ edits \in 0 .. MaxEdits /\ MaxEdits \in Nat /\ MaxLine \in Nat
  <2>1. MaxEdits \in Nat
    BY ShellAssumption, Zenon
  <2> QED BY <2>1, LineFacts, Sizes DEF ShellInv
<1>2. ASSUME NEW c \in Chars, Printable(c)
      PROVE  /\ said' = said /\ spoiled' \in BOOLEAN
             /\ size' <= MaxLine + 1 /\ edits' \in 0 .. MaxEdits
  BY <1>1, <1>2 DEF Printable
<1>3. ASSUME Backspace
      PROVE  /\ said' = said /\ spoiled' \in BOOLEAN
             /\ size' <= MaxLine + 1 /\ edits' \in 0 .. MaxEdits
  BY <1>1, <1>3 DEF Backspace
<1>4. ASSUME ArrowLeft \/ ArrowRight \/ ArrowUp \/ ArrowDown
      PROVE  /\ said' = said /\ spoiled' = spoiled /\ size' = size /\ edits' = edits
  BY <1>4 DEF ArrowLeft, ArrowRight, ArrowUp, ArrowDown, edited, record
<1>5. ASSUME Enter
      PROVE  spoiled' \in BOOLEAN /\ size' <= MaxLine + 1 /\ edits' \in 0 .. MaxEdits
  <2>1. spoiled' = FALSE /\ size' = 1 /\ edits' = edits
    BY <1>5 DEF Enter, Repeated
  <2>2. FALSE \in BOOLEAN /\ 1 <= MaxLine + 1
    BY <1>1
  <2> QED BY <1>1, <2>1, <2>2
<1>6. ASSUME NEW c \in Chars, PrintableEnter(c)
      PROVE  spoiled' \in BOOLEAN /\ size' <= MaxLine + 1 /\ edits' \in 0 .. MaxEdits
  <2>1. spoiled' = FALSE /\ size' = 1 /\ edits' = edits + 1 /\ edits < MaxEdits
    BY <1>6 DEF PrintableEnter, Repeated
  <2>2. FALSE \in BOOLEAN /\ 1 <= MaxLine + 1 /\ edits + 1 \in 0 .. MaxEdits
    BY <1>1, <2>1
  <2> QED BY <1>1, <2>1, <2>2
<1>7. CASE \E c \in Chars : Printable(c)
  BY <1>1, <1>2, <1>7, PrintableOK
<1>8. CASE Backspace
  BY <1>1, <1>3, <1>8, BackspaceOK
<1>9. CASE ArrowLeft \/ ArrowRight
  BY <1>1, <1>4, <1>9, ArrowsOK
<1>10. CASE ArrowUp \/ ArrowDown
  BY <1>1, <1>4, <1>10, ViewKeysOK
<1>11. CASE Enter
  BY <1>1, <1>5, <1>11, EnterOK
<1>12. CASE \E c \in Chars : PrintableEnter(c)
  BY <1>1, <1>6, <1>12, PrintableEnterOK, PrintableEnterLost
<1>13. CASE Undefined
  <2>1. vars' = vars
    BY <1>13 DEF Undefined
  <2>2. said' = said /\ spoiled' = spoiled /\ size' = size /\ edits' = edits
    BY <2>1 DEF vars, edited, record
  <2> QED BY <1>1, <2>1, <2>2
<1> QED BY <1>7, <1>8, <1>9, <1>10, <1>11, <1>12, <1>13 DEF Next

LEMMA NextShell == ASSUME ShellInv, [Next]_vars PROVE ShellInv'
<1>1. CASE Next /\ vars' # vars
  <2>1. /\ InOrder(term, term', buffer', size', index', spoiled')
        /\ said' \in Seq(Chars) /\ spoiled' \in BOOLEAN
        /\ size' <= MaxLine + 1 /\ edits' \in 0 .. MaxEdits
    BY <1>1, KeyOK
  <2>2. LineInv'
    BY <1>1, StepRefines DEF ShellInv
  <2>3. TermOK(term') /\ (~ Lost(term') /\ ~ spoiled' => RowShown(term', buffer', size', index'))
    BY <2>1 DEF InOrder
  <2> QED BY <2>1, <2>2, <2>3 DEF ShellInv
<1>2. CASE vars' = vars
  <2>1. /\ term' = term /\ buffer' = buffer /\ index' = index /\ size' = size
        /\ said' = said /\ spoiled' = spoiled /\ edits' = edits
    BY <1>2 DEF vars, edited, record
  <2> QED BY <2>1 DEF ShellInv, LineInv
<1> QED BY <1>1, <1>2

\* Nothing the terminal does before it has lost its place reaches outside its buffers,
\* and the line is always ended by a zero inside kShellStart's buffer: for every size of
\* the terminal and of the buffer, and every text written before the shell.
THEOREM Types == Spec => []TypeOK
<1>1. ShellInv => TypeOK
  <2> SUFFICES ASSUME ShellInv PROVE TypeOK
    OBVIOUS
  <2>1. TermOK(term) /\ IsLine(buffer, size) /\ index \in 0 .. size - 1
    BY DEF ShellInv, LineInv
  <2>2. said \in Seq(Chars) /\ spoiled \in BOOLEAN /\ edits \in 0 .. MaxEdits
    BY DEF ShellInv
  <2>3. term \in TerminalState
        /\ (~ Lost(term) => term.y >= 0 /\ term.row + TERM_HEIGHT < FVB_PAGES * TERM_HEIGHT)
    BY <2>1 DEF TermOK, Rows
  <2> QED BY <2>1, <2>2, <2>3 DEF TypeOK, IsLine
<1> QED BY <1>1, FirstShell, NextShell, PTL DEF Spec

\* The two copies kbGetLine keeps of the line, the buffer and the row of the display,
\* agree, and the cursor stands at the index, whatever was typed and however the view
\* was moved, but for the cases the code gets wrong.
THEOREM LineIsShown == Spec => []LineShown
<1>1. ShellInv => LineShown
  BY DEF ShellInv, RowShown, Cell, LineShown, InRow
<1> QED BY <1>1, FirstShell, NextShell, PTL DEF Spec

\* What the functions of tio.c write to the display and to the full buffer, each in its
\* own way, is the same in the view once it has been rendered.
THEOREM ScreenIsFollowed == Spec => []ScreenFollows
<1>1. ShellInv => ScreenFollows
  BY DEF ShellInv, TermOK, ScreenFollows
<1> QED BY <1>1, FirstShell, NextShell, PTL DEF Spec

\* The arrows up and down (__view_shift) move the view under the cursor, which keeps its
\* place in the text, and change nothing of the text.
THEOREM PlaceKept == Spec => ViewKeepsPlace
<1>1. ASSUME ShellInv, [Next]_vars
      PROVE  [ (ArrowUp \/ ArrowDown) /\ ~ Lost(term') =>
                 /\ CursorRow(term') = CursorRow(term)
                 /\ term'.x = term.x
                 /\ term'.fvb = term.fvb ]_vars
  <2> SUFFICES ASSUME ArrowUp \/ ArrowDown, ~ Lost(term')
               PROVE  /\ CursorRow(term') = CursorRow(term)
                      /\ term'.x = term.x
                      /\ term'.fvb = term.fvb
    OBVIOUS
  <2>1. TermOK(term)
    BY <1>1 DEF ShellInv
  <2> QED BY <2>1, ViewKeys DEF Kept
<1> QED BY <1>1, FirstShell, NextShell, PTL DEF Spec, ViewKeepsPlace

\* View and cursor leave the terminal's buffer only once the text has come to its last
\* page, the rows a single key may add counted in (the pages are moved one at a time, but
\* the view is put in front of the buffer).
THEOREM BufferUsed == Spec => BufferUsedFirst
<1>1. ASSUME ShellInv, [Next]_vars
      PROVE  [ ~ Lost(term) /\ Lost(term') =>
                 CursorRow(term) + RowsPerKey >= (FVB_PAGES - 1) * TERM_HEIGHT ]_vars
  <2> SUFFICES ASSUME Next, ~ (vars' = vars), Lost(term')
               PROVE  CursorRow(term) + RowsPerKey >= (FVB_PAGES - 1) * TERM_HEIGHT
    BY <1>1
  <2>1. InOrder(term, term', buffer', size', index', spoiled')
    BY <1>1, KeyOK
  <2> QED BY <2>1, Dimensions DEF InOrder
<1> QED BY <1>1, FirstShell, NextShell, PTL DEF Spec, BufferUsedFirst

=============================================================================
