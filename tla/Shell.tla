------------------------------- MODULE Shell -------------------------------
(***************************************************************************)
(* The shell (kShellStart of src/src/kshell.c) and the line it reads with  *)
(* kbGetLine (src/src/keyboard_io.c): the keys edit a buffer and, by the   *)
(* functions of Terminal, the row of the display that shows it.  The two   *)
(* are kept in step by hand.                                               *)
(*                                                                         *)
(* A key is what kbNextMappedKey has made of the bytes of the keyboard     *)
(* (module Keyboard); releases, and keys kbGetLine makes nothing of, are   *)
(* left out.                                                               *)
(***************************************************************************)
EXTENDS Terminal

CONSTANTS
  BUFFER_SIZE,   \* the size of kShellStart's buffer (512)
  MaxLine,       \* the longest line the user types: kbGetLine does not check
  Letters,       \* what the printable keys write
  Enders,        \* those of keys whose mapped code is that of Enter (0x52)
  Banner,        \* what the kernel has written before the shell starts
  MaxEdits       \* bound on the characters typed and erased in a behaviour

ASSUME ShellAssumption ==
  /\ MaxEdits \in Nat
  /\ BUFFER_SIZE \in Nat /\ MaxLine \in Nat /\ MaxLine < BUFFER_SIZE
  /\ Letters \subseteq Chars /\ Enders \subseteq Chars /\ {">", " "} \subseteq Chars
  /\ Banner \in Seq(Chars \union {NL})
  /\ Banner = <<>> \/ Banner[Len(Banner)] = NL
  /\ {"nul", Blank, Other, NL, CR} \intersect Chars = {}

VARIABLES
  term,      \* the globals of tio.c
  buffer,    \* kShellStart's buffer
  index,     \* kbGetLine's index: the cursor's place in the buffer
  size,      \* and size: the characters of the buffer, its zero included
  said,      \* the line the shell has repeated last
  spoiled,   \* record: something happened to this line that the display gets wrong
  edits      \* characters typed and erased so far

edited == <<buffer, index, size>>
record == <<spoiled, edits>>
vars   == <<term, edited, said, record>>

NUL == "nul"

Prompt == <<">", " ">>

PADDING == Len(Prompt)

Zeroed == [i \in 0 .. BUFFER_SIZE - 1 |-> NUL]

\* The C string at the start of a buffer.
CString(b) == LET end == CHOOSE i \in DOMAIN b : b[i] = NUL /\ \A j \in 0 .. i - 1 : b[j] # NUL
              IN  [i \in 1 .. end |-> b[i - 1]]

-----------------------------------------------------------------------------
(* Editing *)

\* mutated form: the loop starts one character too late
Closed_Late(b) ==
  [i \in DOMAIN b |-> IF i = size - 2 \/ i = size - 1 THEN NUL
                      ELSE IF i >= index /\ i < size - 1 THEN b[i + 1] ELSE b[i]]

\* The character in front of the cursor is taken out of the buffer.
Closed(b) ==
  [i \in DOMAIN b |-> IF i = size - 2 \/ i = size - 1 THEN NUL
                      ELSE IF i >= index - 1 /\ i < size - 1 THEN b[i + 1] ELSE b[i]]

\* A character is put in at the cursor.
Opened(b, c) ==
  [i \in DOMAIN b |-> IF i = index THEN c
                      ELSE IF i = size THEN NUL
                      ELSE IF i > index /\ i < size THEN b[i - 1] ELSE b[i]]

AtEnd == index = size - 1

\* The part of the row the cursor is in is below the view.
BelowView == term.y >= TERM_HEIGHT

\* mutated form: the rest of the row is not moved
Shown_Over(c) == tio_write_char(term, c)

\* kprintf("%c"), after the rest of the row has made room.
Shown(c) == tio_write_char(IF AtEnd THEN term ELSE tio_shift_right(term), c)

\* With one more character the line fills its row: its end is in another row, and the
\* columns kbGetLine compares no longer tell places in the line apart.
Wraps == PADDING + size >= TERM_WIDTH

\* A printable key.
Printable(c) ==
  /\ ~ Lost(term)
  /\ edits < MaxEdits /\ size <= MaxLine
  /\ c \in Letters
  /\ term' = Shown(c)
  /\ buffer' = Opened(buffer, c)
  /\ index' = index + 1
  /\ size' = size + 1
  /\ spoiled' = (spoiled \/ Wraps \/ (~ AtEnd /\ BelowView))
  /\ edits' = edits + 1
  /\ UNCHANGED said

\* Nothing in front of the cursor: the key is passed over.
Backspace ==
  /\ ~ Lost(term)
  /\ edits < MaxEdits
  /\ index > 0
  /\ term' = tio_backspace(tio_shift_left(term))
  /\ buffer' = Closed(buffer)
  /\ index' = index - 1
  /\ size' = size - 1
  /\ spoiled' = (spoiled \/ ~ AtEnd)
  /\ edits' = edits + 1
  /\ UNCHANGED said

ArrowLeft ==
  /\ ~ Lost(term)
  /\ MayDec(term, PADDING)
  /\ term' = tio_cursor_dec(term)
  /\ index' = IF index > 0 THEN index - 1 ELSE 0
  /\ UNCHANGED <<buffer, size, said, record>>

\* The index is cut to the line, whether or not the cursor moves.
ArrowRight ==
  /\ ~ Lost(term)
  /\ MayInc(term, size, PADDING)
  /\ term' = tio_cursor_inc(term)
  /\ index' = IF index + 1 > size - 1 THEN size - 1 ELSE index + 1
  /\ UNCHANGED <<buffer, size, said, record>>

\* Up and down move the view, not the cursor.
ArrowUp ==
  /\ ~ Lost(term)
  /\ term' = view_shift_down(term, 1)
  /\ UNCHANGED <<edited, said, record>>

ArrowDown ==
  /\ ~ Lost(term)
  /\ term' = view_shift_up(term, 1)
  /\ UNCHANGED <<edited, said, record>>

-----------------------------------------------------------------------------
(* The loop of the shell *)

\* kbGetLine returns, the line is repeated, and the next one is begun.
Repeated(t, line) ==
  /\ term' = tio_write(t, <<NL>> \o line \o <<NL>> \o Prompt)
  /\ said' = line
  /\ buffer' = Zeroed
  /\ index' = 0
  /\ size' = 1
  /\ spoiled' = FALSE

Enter == ~ Lost(term) /\ Repeated(term, CString(buffer)) /\ UNCHANGED edits

\* A printable key that kbGetLine's loop takes for Enter: the character is put in,
\* and the line ends.
PrintableEnter(c) ==
  /\ ~ Lost(term)
  /\ edits < MaxEdits /\ size <= MaxLine
  /\ c \in Enders
  /\ edits' = edits + 1
  /\ Repeated(Shown(c), CString(Opened(buffer, c)))

\* View or cursor have left the buffer of the terminal.
Undefined == Lost(term) /\ UNCHANGED vars

Init == /\ term = tio_write(tio_init, Banner \o Prompt)
        /\ buffer = Zeroed
        /\ index = 0
        /\ size = 1
        /\ said = <<>>
        /\ spoiled = FALSE
        /\ edits = 0

Next == \/ \E c \in Chars : Printable(c) \/ PrintableEnter(c)
        \/ Backspace \/ ArrowLeft \/ ArrowRight \/ ArrowUp \/ ArrowDown
        \/ Enter \/ Undefined

Spec == Init /\ [][Next]_vars

-----------------------------------------------------------------------------
(* Properties *)

\* The buffer is never written behind its end, as long as nobody types a line that
\* does not fit, and the line in it is ended by a zero.  Unless the view has left
\* the buffer of the terminal, the view and the cursor are inside it.
TypeOK ==
  /\ buffer \in [0 .. BUFFER_SIZE - 1 -> Chars \union {NUL}]
  /\ size \in 1 .. BUFFER_SIZE
  /\ index \in 0 .. size - 1
  /\ \A i \in 0 .. BUFFER_SIZE - 1 : buffer[i] = NUL <=> i >= size - 1
  /\ said \in Seq(Chars)
  /\ spoiled \in BOOLEAN
  /\ edits \in 0 .. MaxEdits
  /\ term \in TerminalState
  /\ ~ Lost(term) => term.y >= 0 /\ term.row + TERM_HEIGHT < FVB_PAGES * TERM_HEIGHT

\* The cell of the row of the cursor, in the buffer of the terminal.
InRow(column) == term.fvb[CursorRow(term) * TERM_WIDTH + column]

\* The row of the cursor shows the prompt and the line, and the cursor stands at the
\* index, however the line was typed and the view was moved meanwhile: unless a
\* character was erased inside the line, or put in while its row was below the
\* view, or the line has reached the end of the row.
LineShown ==
  ~ Lost(term) /\ ~ spoiled =>
    /\ term.x = PADDING + index
    /\ \A i \in 1 .. PADDING : InRow(i - 1) = Prompt[i]
    /\ \A i \in 0 .. size - 2 : InRow(PADDING + i) = buffer[i]

\* Once the view has been rendered, everything that is written, moved or erased
\* afterwards shows, until the view is next moved without being rendered (the early
\* return of __view_shift).
ScreenFollows == ~ Lost(term) /\ term.drawn => ScreenIsView(term)

\* Moving the view up and down leaves the cursor at its place in the text, even when
\* that place is not in view, and changes nothing of what has been written.
ViewKeepsPlace ==
  [][ (ArrowUp \/ ArrowDown) /\ ~ Lost(term') =>
        /\ CursorRow(term') = CursorRow(term)
        /\ term'.x = term.x
        /\ term'.fvb = term.fvb ]_vars

\* The most rows a key adds: the row a last character runs into, the new line, the line
\* repeated, the row of the prompt.
RowsPerKey == 3 + MaxLine \div TERM_WIDTH

\* View and cursor leave the buffer of the terminal only when the text has come to the
\* last page of it.
BufferUsedFirst ==
  [][ ~ Lost(term) /\ Lost(term') =>
        CursorRow(term) + RowsPerKey >= (FVB_PAGES - 1) * TERM_HEIGHT ]_vars

\* What is typed, erased and passed over is what a line editor promises, however the
\* display looks.
Line == INSTANCE LineBuffer
  WITH Chars <- Letters, text <- CString(buffer), place <- index

ImplementsLineBuffer == Line!LSpec
=============================================================================
