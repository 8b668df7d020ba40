------------------------------ MODULE Terminal ------------------------------
(***************************************************************************)
(* The terminal (src/src/stdlib/tio.c): a full video buffer of FVB_PAGES   *)
(* pages, a view of TERM_HEIGHT rows of it, the memory of the display and  *)
(* the cursor.  What tio.c keeps in globals is one record here, and each   *)
(* function of tio.c an operator from the record to the record after it.   *)
(*                                                                         *)
(* A character is what is shown in a cell; colours are left out, except    *)
(* that the blank of tio_init is not the space somebody wrote.             *)
(***************************************************************************)
EXTENDS Integers, SequencesExt

CONSTANTS
  TERM_WIDTH, TERM_HEIGHT,   \* the size of the view (80 and 24)
  FVB_PAGES,                 \* pages of the full video buffer (10)
  Chars                      \* the characters somebody writes

ASSUME TerminalAssumption ==
  /\ TERM_WIDTH \in Nat \ {0, 1, 2}
  /\ TERM_HEIGHT \in Nat \ {0, 1, 2}
  /\ FVB_PAGES \in 2 .. TERM_HEIGHT

Blank == "blank"    \* what tio_init fills the buffer with
Other == "other"    \* what else there is in the memory of the display
NL    == "newline"
CR    == "return"

VB_SIZE  == TERM_WIDTH * TERM_HEIGHT
FVB_SIZE == FVB_PAGES * VB_SIZE

Cells  == 0 .. FVB_SIZE - 1
Screen == 0 .. VB_SIZE - 1

\* fvb is the full video buffer and vb the part of the display's memory that is
\* shown.  The code writes and reads the memory behind it as well, when the cursor is
\* below the view; what is there is not followed: it is Other.  drawn is no variable
\* of the code: it says whether the display has been rendered since the view was last
\* moved or set up.
TerminalState ==
  [fvb : [Cells -> Chars \union {Blank, Other}], vb : [Screen -> Chars \union {Blank, Other}],
   row : Int, x : 0 .. TERM_WIDTH - 1, y : Int, on_screen : BOOLEAN, drawn : BOOLEAN]

\* tio_init fills the buffer and leaves the display as it is.
tio_init ==
  [fvb |-> [i \in Cells |-> Blank], vb |-> [i \in Screen |-> Other],
   row |-> 0, x |-> 0, y |-> 0, on_screen |-> TRUE, drawn |-> FALSE]

\* The view has left the buffer at the front, or the cursor at the end: from here on
\* the code reads and writes other memory, and nothing more is said of what it does.
Lost(t) == t.row < 0 \/ t.row + t.y >= FVB_PAGES * TERM_HEIGHT

-----------------------------------------------------------------------------
(* Buffers *)

cursor_get_index(t) == t.y * TERM_WIDTH + t.x

cursor_get_index_in_buffer(t) == (t.row + t.y) * TERM_WIDTH + t.x

view_get_buffer_end_index(t) == (t.row + TERM_HEIGHT) * TERM_WIDTH

view_get_buffer_start_index(t) == t.row * TERM_WIDTH

vb_set_value(t, index, value) ==
  IF index \in Cells THEN [t EXCEPT !.fvb[index] = value] ELSE t

\* Every page is replaced by the next one and the last by a blank one.
vb_shift_pages(fvb) ==
  [i \in Cells |-> IF i + VB_SIZE \in Cells THEN fvb[i + VB_SIZE] ELSE Blank]

platform_get(t, index) == IF index \in Screen THEN t.vb[index] ELSE Other

platform_set(t, index, value) ==
  IF index \in Screen THEN [t EXCEPT !.vb[index] = value] ELSE t

\* mutated form: the first row is not drawn
render_screen_Late(t) ==
  IF Lost(t) THEN t
  ELSE [t EXCEPT !.vb = [i \in Screen |->
                           IF i < TERM_WIDTH THEN @[i]
                           ELSE t.fvb[view_get_buffer_start_index(t) + i]],
                 !.drawn = TRUE]

render_screen(t) ==
  IF Lost(t) THEN t
  ELSE [t EXCEPT !.vb = [i \in Screen |-> t.fvb[view_get_buffer_start_index(t) + i]],
                 !.drawn = TRUE]

-----------------------------------------------------------------------------
(* The view *)

\* mutated form: the pages move a row too late
ShiftedUp_Late(t) ==
  IF t.row + 1 + TERM_HEIGHT > FVB_PAGES * TERM_HEIGHT
  THEN [t EXCEPT !.y = @ - 1, !.drawn = FALSE, !.fvb = vb_shift_pages(@),
                 !.row = FVB_PAGES - 2 * TERM_HEIGHT + 1]
  ELSE [t EXCEPT !.y = @ - 1, !.drawn = FALSE, !.row = @ + 1]

\* mutated form: the pages move a page too early
ShiftedUp_Early(t) ==
  IF t.row + 1 + TERM_HEIGHT >= (FVB_PAGES - 1) * TERM_HEIGHT
  THEN [t EXCEPT !.y = @ - 1, !.drawn = FALSE, !.fvb = vb_shift_pages(@),
                 !.row = FVB_PAGES - 2 * TERM_HEIGHT + 1]
  ELSE [t EXCEPT !.y = @ - 1, !.drawn = FALSE, !.row = @ + 1]

\* One round of the loop of __view_shift upwards.  At the end of the buffer the
\* pages move, and the view goes to the row the code computes (its comment says
\* "second to last page").
ShiftedUp(t) ==
  IF t.row + 1 + TERM_HEIGHT >= FVB_PAGES * TERM_HEIGHT
  THEN [t EXCEPT !.y = @ - 1, !.drawn = FALSE, !.fvb = vb_shift_pages(@),
                 !.row = FVB_PAGES - 2 * TERM_HEIGHT + 1]
  ELSE [t EXCEPT !.y = @ - 1, !.drawn = FALSE, !.row = @ + 1]

\* mutated form: the cursor stays where it is on the screen
ShiftedDown_Stay(t) == IF t.row - 1 < 0 THEN [t EXCEPT !.row = 0]
                       ELSE [t EXCEPT !.row = @ - 1, !.drawn = FALSE]

ShiftedDown(t) == IF t.row - 1 < 0 THEN [t EXCEPT !.row = 0]
                  ELSE [t EXCEPT !.row = @ - 1, !.drawn = FALSE, !.y = @ + 1]

\* n rounds.
ShiftedUpTimes(t, n) ==
  LET after[i \in 0 .. n] == IF i = 0 THEN t ELSE ShiftedUp(after[i - 1]) IN after[n]

ShiftedDownTimes(t, n) ==
  LET after[i \in 0 .. n] == IF i = 0 THEN t ELSE ShiftedDown(after[i - 1]) IN after[n]

\* The end of __view_shift.  A cursor in the first row counts as off the screen.
ViewShifted(t) == render_screen([t EXCEPT !.on_screen = t.y > 0 /\ t.y < TERM_HEIGHT])

\* Upwards the loop ends early when the cursor would leave the view at the top, and
\* then nothing is rendered.  amt is unsigned: a negative one is as good as endless.
view_shift_up(t, amt) ==
  IF amt < 0 \/ amt > t.y
  THEN [ShiftedUpTimes(t, t.y) EXCEPT !.y = 0, !.on_screen = TRUE]
  ELSE ViewShifted(ShiftedUpTimes(t, amt))

view_shift_down(t, amt) == ViewShifted(ShiftedDownTimes(t, amt))

-----------------------------------------------------------------------------
(* The cursor *)

\* The last row of the view is never written: reaching it moves the view.
StepOffLastRow(t) == IF t.y >= TERM_HEIGHT - 1 THEN view_shift_up(t, 1) ELSE t

tio_cursor_inc(t) ==
  StepOffLastRow(IF t.x + 1 >= TERM_WIDTH THEN [t EXCEPT !.x = 0, !.y = @ + 1]
                 ELSE [t EXCEPT !.x = @ + 1])

tio_cursor_dec(t) ==
  IF t.x > 0 THEN [t EXCEPT !.x = @ - 1]
  ELSE [t EXCEPT !.x = TERM_WIDTH - 1, !.y = IF @ > 0 THEN @ - 1 ELSE 0]

\* Whether tio_try_cursor_inc and tio_try_cursor_dec move.
MayInc(t, chars_typed, padding_front) == t.x < padding_front + chars_typed - 1

MayDec(t, padding_size) == t.x > padding_size

-----------------------------------------------------------------------------
(* Characters *)

\* What is shown at the cursor goes to the buffer.
Recorded(t) == vb_set_value(t, cursor_get_index_in_buffer(t), platform_get(t, cursor_get_index(t)))

tio_backspace(t) == Recorded(tio_cursor_dec(t))

\* The cells of the view from the cursor on move one to the right.
tio_shift_right(t) ==
  LET here == cursor_get_index_in_buffer(t)
      end  == view_get_buffer_end_index(t)
  IN  render_screen(Recorded(
        [t EXCEPT !.fvb = [j \in Cells |-> IF here < j /\ j <= end THEN @[j-1] ELSE @[j]]]))

\* The cells behind the cursor move one to the left, on the cursor's own cell.
tio_shift_left(t) ==
  LET here == cursor_get_index_in_buffer(t) + (IF t.x = 0 THEN 1 ELSE 0)
      end  == view_get_buffer_end_index(t)
  IN  render_screen(
        [t EXCEPT !.fvb = [j \in Cells |-> IF here <= j /\ j < end THEN @[j+1] ELSE @[j]]])

\* A character goes to the display, then, with the cursor back in view, to the
\* buffer: the display does not follow when it is the view that has moved.
Written(t, c) ==
  LET shown == platform_set(t, cursor_get_index(t), c)
      back  == IF t.on_screen THEN shown ELSE view_shift_up(shown, t.y - TERM_HEIGHT + 1)
  IN  tio_cursor_inc(vb_set_value(back, cursor_get_index_in_buffer(back), c))

tio_write_char(t, c) ==
  IF Lost(t) THEN t
  ELSE IF c = NL THEN StepOffLastRow([t EXCEPT !.x = 0, !.y = @ + 1])
  ELSE IF c = CR THEN [t EXCEPT !.x = 0]
  ELSE Written(t, c)

tio_write(t, string) ==
  LET after[i \in 0 .. Len(string)] ==
        IF i = 0 THEN t ELSE tio_write_char(after[i - 1], string[i])
  IN  after[Len(string)]

-----------------------------------------------------------------------------
(* What is seen *)

\* The display shows the view.
ScreenIsView(t) ==
  \A i \in Screen : t.vb[i] = t.fvb[view_get_buffer_start_index(t) + i]

\* The row of the buffer the cursor is in.
CursorRow(t) == t.row + t.y
=============================================================================
