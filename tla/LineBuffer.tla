----------------------------- MODULE LineBuffer -----------------------------
(***************************************************************************)
(* What editing a line promises: a text and a place in it.  Typing inserts *)
(* at the place, erasing takes the character in front of it, the arrows    *)
(* move it by one character, and Enter hands over the whole text, wherever *)
(* the place is.  A few keys insert a character and hand over the text.    *)
(***************************************************************************)
EXTENDS Integers, SequencesExt

CONSTANTS Chars,    \* what can be typed
          Enders    \* the characters that end the line as well

VARIABLES text,     \* what has been typed
          place,    \* how many characters are in front of the cursor
          said      \* the line handed over last

lvars == <<text, place, said>>

LInit == text = <<>> /\ place = 0 /\ said = <<>>

Insert(c) == /\ text' = InsertAt(text, place + 1, c)
             /\ place' = place + 1
             /\ UNCHANGED said

Erase == /\ place > 0
         /\ text' = RemoveAt(text, place)
         /\ place' = place - 1
         /\ UNCHANGED said

Left == place > 0 /\ place' = place - 1 /\ UNCHANGED <<text, said>>

Right == place < Len(text) /\ place' = place + 1 /\ UNCHANGED <<text, said>>

HandOver(line) == said' = line /\ text' = <<>> /\ place' = 0

Enter == HandOver(text)

InsertAndEnter(c) == HandOver(InsertAt(text, place + 1, c))

LNext == \/ \E c \in Chars : Insert(c)
         \/ Erase \/ Left \/ Right \/ Enter
         \/ \E c \in Enders : InsertAndEnter(c)

LSpec == LInit /\ [][LNext]_lvars
=============================================================================
