----------------------------- MODULE KStdChecks -----------------------------
(***************************************************************************)
(* What the operators of KStd compute, against definitions of what they    *)
(* are for, over small strings, memories and numbers.                      *)
(***************************************************************************)
EXTENDS KStd

\* Texts of up to three characters, as strings, with something behind the NUL.
Texts   == SeqOf({65, 66}, 3)
Str(t)  == t \o <<NUL, 67>>

IsBeginning(t, u) == Len(t) <= Len(u) /\ SubSeq(u, 1, Len(t)) = t

Behind(r, from) == SubSeq(r, from, Len(r))

\* The length of a string is that of its text, and two strings compare equal when one
\* is the beginning of the other; otherwise the sign tells which comes first, to who
\* takes the result for an int.
ASSUME StringsCompared ==
  \A t, u \in Texts :
    /\ kstrlen(Str(t)) = Len(t)
    /\ (kstrcmp(Str(t), Str(u)) = 0) <=> (IsBeginning(t, u) \/ IsBeginning(u, t))
    /\ kstrcmp(Str(t), Str(u)) < 0 <=>
         \E i \in 1 .. Len(t) : /\ i <= Len(u)
                                /\ SubSeq(t, 1, i - 1) = SubSeq(u, 1, i - 1)
                                /\ t[i] < u[i]

\* A copy is the text, as much of it as there is room for, and a NUL; the rest of the
\* memory stays.
ASSUME StringsCopied ==
  \A t \in Texts, max \in 1 .. 5 :
    LET dest == <<71, 72, 73, 74, 75, 76>>
        kept == SubSeq(t, 1, IF Len(t) < max THEN Len(t) ELSE max - 1)
        copy == kstrncpy(dest, Str(t), max)
    IN  /\ SubSeq(copy, 1, Len(kept) + 1) = Append(kept, NUL)
        /\ Behind(copy, Len(kept) + 2) = Behind(dest, Len(kept) + 2)
        /\ kstrcpy(dest, Str(t)) = kstrncpy(dest, Str(t), 6)

\* A block is copied as it was, unless it is copied upwards onto itself, which repeats
\* its beginning.  Nothing else changes.
ASSUME MemoryCopied ==
  LET mem == [a \in 0 .. 7 |-> a + 10]
  IN  \A dest, src \in 0 .. 7 : \A num \in 0 .. 8 :
        (dest + num <= 8 /\ src + num <= 8) =>
          kmemcpy(mem, dest, src, num) =
            [a \in 0 .. 7 |->
               IF a \notin dest .. dest + num - 1 THEN mem[a]
               ELSE IF dest <= src \/ src + num <= dest THEN mem[a - dest + src]
               ELSE mem[src + ((a - dest) % (dest - src))]]

\* Blocks compare equal when all their bytes are, NUL bytes too.
ASSUME MemoryCompared ==
  \A mem \in [0 .. 3 -> {0, 1}] : \A num \in 0 .. 2 :
    (kmemcmp(mem, 0, 2, num) = 0) <=> \A i \in 0 .. num - 1 : mem[i] = mem[2 + i]

\* Setting bytes and half words: as many as asked for, and nothing behind them.
ASSUME MemorySet ==
  LET mem == [a \in 0 .. 7 |-> 9]
  IN  \A dest \in 0 .. 3, num \in 0 .. 2 :
        /\ kmemset_u16(mem, dest, 257 * 5, num) = kmemset(mem, dest, 5, 2 * num)
        /\ Cardinality({a \in 0 .. 7 : kmemset(mem, dest, 5, num)[a] = 5}) = num
        /\ kmemset_u16(mem, dest, 258, 1)[dest] = 2

\* The number that characters stand for.
ValueOf(chars, base) ==
  FoldLeft(LAMBDA v, c : v * base + (IF c >= LETTER_A THEN c - LETTER_A + 10 ELSE c - DIGIT_ZERO),
           0, chars)

Plain(chars) == Len(chars) >= 1 /\ (chars[1] = DIGIT_ZERO => Len(chars) = 1)

\* Numbers at the ends of the range and of each number of digits.
CheckedNumbers == (0 .. 300) \union {999, 1000, 4095, 4096, 65535, 65536, 2147483646, 2147483647}

\* A rendered number reads back as itself and has no leading zero, the smallest
\* integer, which is a special case, too.
ASSUME NumbersRendered ==
  /\ \A n \in CheckedNumbers :
       /\ \A r \in {<<render_unsigned_integer(n), 10>>, <<render_hexadecimal(n), 16>>,
                    <<render_binary(n), 2>>, <<render_integer(n), 10>>} :
            Plain(r[1]) /\ ValueOf(r[1], r[2]) = n
       /\ n > 0 => render_integer(-n) = <<MINUS>> \o render_integer(n)
  /\ LET r == render_integer(INT_MIN)
     IN  r[1] = MINUS /\ ValueOf(SubSeq(r, 2, 10), 10) = 214748364 /\ r[11] = DIGIT_ZERO + 8

\* Every directive takes the next argument, what is around it is copied, and the
\* result ends with a NUL, unless a directive is not known: even a percent sign.
ASSUME FormatsPrinted ==
  LET p(f) == kvsprintf(f \o <<NUL>>, <<7, Str(<<65, 66>>), 255>>)
      d == Directives
  IN  /\ p(<<65, PERCENT, d.d, 66, PERCENT, d.s, PERCENT, d.x>>) =
           <<65, DIGIT_ZERO + 7, 66, 65, 66, 102, 102, NUL>>
      /\ p(<<PERCENT, d.b, PERCENT, d.s>>) =
           <<DIGIT_ZERO + 1, DIGIT_ZERO + 1, DIGIT_ZERO + 1, 65, 66, NUL>>
      /\ p(<<PERCENT, d.u, PERCENT, d.s, PERCENT, d.c>>) = <<DIGIT_ZERO + 7, 65, 66, 255, NUL>>
      /\ p(<<>>) = <<NUL>>
      /\ p(<<65, PERCENT, PERCENT, 66>>) = <<65>>
=============================================================================
