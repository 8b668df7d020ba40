-------------------------------- MODULE KStd --------------------------------
(***************************************************************************)
(* The kernel's string and print library (src/src/stdlib/kstdlib.c and     *)
(* src/src/stdlib/kstdio.c).  A string is the memory a pointer leads to: a *)
(* sequence of bytes that has a NUL somewhere.  A loop that looks for a    *)
(* place is the first place where it stops; loops that build something are *)
(* recursive functions of what they step over.                             *)
(***************************************************************************)
EXTENDS Integers, SequencesExt

NUL == 0

\* Codes of the characters the library knows.
MINUS == 45
PERCENT == 37
DIGIT_ZERO == 48
LETTER_A == 97

INT_MIN == -2147483647 - 1

-----------------------------------------------------------------------------
(* Strings *)

\* Where a loop stops that counts up: S is where its condition is false.
First(S) == CHOOSE i \in S : \A j \in S : i <= j

kstrlen(str) == First({i \in DOMAIN str : str[i] = NUL}) - 1

\* A byte as a char, which has a sign.
AsChar(byte) == IF byte >= 128 THEN byte - 256 ELSE byte

\* The difference of the first two characters that differ; 0 also when one string
\* ends where the other goes on.  What is returned is a size_t, and never less than 0:
\* this is what its bits are as an int.
kstrcmp(str1, str2) ==
  LET i == First({j \in DOMAIN str1 \intersect DOMAIN str2 :
                    str1[j] = NUL \/ str2[j] = NUL \/ str1[j] # str2[j]})
  IN  IF str1[i] = NUL \/ str2[i] = NUL THEN 0 ELSE AsChar(str1[i]) - AsChar(str2[i])

\* What is at dest afterwards.
Overwritten(dest, text) == [i \in 1 .. Len(dest) |-> IF i <= Len(text) THEN text[i] ELSE dest[i]]

\* At most max - 1 characters, and a NUL behind them.
kstrncpy(dest, src, max) ==
  LET num_written == First({i \in DOMAIN src : src[i] = NUL \/ i - 1 >= max - 1}) - 1
  IN  Overwritten(dest, Append(SubSeq(src, 1, num_written), NUL))

kstrcpy(dest, src) == Overwritten(dest, SubSeq(src, 1, kstrlen(src) + 1))

-----------------------------------------------------------------------------
(* Memory: a function from addresses to bytes *)

\* The difference of the first bytes that differ among num, of a size_t as well.
kmemcmp(mem, ptr1, ptr2, num) ==
  LET i == First({j \in 0 .. num : j = num \/ mem[ptr1 + j] # mem[ptr2 + j]})
  IN  IF i = num THEN 0 ELSE mem[ptr1 + i] - mem[ptr2 + i]

\* Byte by byte and upwards: a byte that was written is read again when dest is just
\* above src.
kmemcpy(mem, dest, src, num) ==
  LET after[i \in 0 .. num] ==
        IF i = 0 THEN mem
        ELSE [after[i - 1] EXCEPT ![dest + i - 1] = after[i - 1][src + i - 1]]
  IN  after[num]

kmemset(mem, dest, value, num) ==
  [a \in DOMAIN mem |-> IF a \in dest .. dest + num - 1 THEN value ELSE mem[a]]

\* The low byte of a value comes first.
kmemset_u16(mem, dest, value, num) ==
  [a \in DOMAIN mem |-> IF a \notin dest .. dest + 2 * num - 1 THEN mem[a]
                        ELSE IF (a - dest) % 2 = 0 THEN value % 256 ELSE value \div 256]

-----------------------------------------------------------------------------
(* Printing *)

\* The digits of a number, the last one first, as they are found.
DigitsFound(base, number) ==
  LET buffer[iter \in Nat] ==
        IF iter \div base = 0 THEN <<iter % base>>
        ELSE <<iter % base>> \o buffer[iter \div base]
  IN  buffer[number]

\* A digit's character.
DigitChar(d) == IF d < 10 THEN DIGIT_ZERO + d ELSE LETTER_A + d - 10

DigitChars(base, number) ==
  LET buffer == DigitsFound(base, number)
  IN  [j \in 1 .. Len(buffer) |-> DigitChar(Reverse(buffer)[j])]

render_unsigned_integer(to_render) == DigitChars(10, to_render)

render_hexadecimal(to_render) == DigitChars(16, to_render)

render_binary(to_render) == DigitChars(2, to_render)

\* The smallest number has no counterpart to be rendered in its place.
render_integer(to_render) ==
  IF to_render = INT_MIN
  THEN <<MINUS>> \o [i \in 1 .. 10 |-> DIGIT_ZERO + <<2, 1, 4, 7, 4, 8, 3, 6, 4, 8>>[i]]
  ELSE IF to_render < 0 THEN <<MINUS>> \o DigitChars(10, -to_render)
  ELSE DigitChars(10, to_render)

render_string(to_render) == SubSeq(to_render, 1, kstrlen(to_render))

\* The directives: the letter behind the percent sign, and what it makes of an argument.
Directives == [d |-> 100, u |-> 117, x |-> 120, b |-> 98, s |-> 115, c |-> 99]

Rendered(directive, arg) ==
  CASE directive = Directives.d -> render_integer(arg)
    [] directive = Directives.u -> render_unsigned_integer(arg)
    [] directive = Directives.x -> render_hexadecimal(arg)
    [] directive = Directives.b -> render_binary(arg)
    [] directive = Directives.s -> render_string(arg)
    [] directive = Directives.c -> <<arg>>

\* What is written to result.  At a directive that is not known the function returns
\* and puts no NUL behind what it wrote.
kvsprintf(format, args) ==
  LET written[i \in 1 .. Len(format), k \in 1 .. Len(args) + 1] ==
        IF format[i] = NUL THEN <<NUL>>
        ELSE IF format[i] # PERCENT THEN <<format[i]>> \o written[i + 1, k]
        ELSE IF format[i + 1] \notin {Directives[d] : d \in DOMAIN Directives} THEN <<>>
        ELSE Rendered(format[i + 1], args[k]) \o written[i + 2, k + 1]
  IN  written[1, 1]

=============================================================================
