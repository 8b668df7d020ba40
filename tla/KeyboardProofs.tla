--------------------------- MODULE KeyboardProofs ---------------------------
(***************************************************************************)
(* Proofs about keyboard input, for every size of the ring, every set of   *)
(* keys and every bound on what is typed: the types, and, when the ring is *)
(* larger than the backlog and as long as reading has not been disturbed,  *)
(* that the bytes are read in their order, that a waiting byte is seen,    *)
(* that a special key is the one typed and that the modifiers follow their *)
(* keys; and that it is never disturbed where only kbGetChar reads and no  *)
(* special key is typed.                                                   *)
(***************************************************************************)
EXTENDS Keyboard, NumberLemmas, SequenceTheorems

-----------------------------------------------------------------------------
(* The invariant *)

\* Where the kernel is in its reading: the bytes it has taken the index of.
Indexed == IF pc \in {"load_byte", "store_byte"} THEN Len(fetched) + 1 ELSE Len(fetched)

\* The indices count what was written and read, modulo the size, and the cells
\* between them hold the bytes that wait.
RingInv ==
  /\ Len(fetched) <= taken
  /\ taken <= Len(typed)
  /\ Len(typed) - Len(fetched) <= MaxBacklog
  /\ \A i \in 1 .. Len(fetched) : fetched[i] = typed[i]
  /\ queue_widx = taken % QUEUE_SIZE
  /\ queue_ridx = Indexed % QUEUE_SIZE
  /\ \A i \in Len(fetched) + 1 .. taken :
       scancode_queue[(i - 1) % QUEUE_SIZE] = typed[i]

\* What the register holds on the way, and that there is a byte to take out.
FetchInv ==
  /\ pc \in {"store_index", "load_byte"} => al = Len(fetched) % QUEUE_SIZE
  /\ pc = "store_byte" => al = typed[Len(fetched) + 1]
  /\ pc \in Holding => Len(fetched) < taken
  /\ pc = "decode" => Len(fetched) > 0 /\ curr_code = fetched[Len(fetched)]

\* after_e0 is set only behind an E0, and a special key is decoded from the byte
\* behind it.
PrefixInv ==
  /\ after_e0 => pc \in Fetching \union {"decode"}
  /\ after_e0 /\ pc \in Fetching => Len(fetched) > 0 /\ fetched[Len(fetched)] = E0
  /\ after_e0 /\ pc = "decode" => Len(fetched) > 1 /\ fetched[Len(fetched) - 1] = E0
  /\ pc = "key" /\ key.e0_key =>
       /\ Len(fetched) > 1
       /\ fetched[Len(fetched) - 1] = E0
       /\ key.mapped_code = specialToMapped(CodeOf(fetched[Len(fetched)]))

Inv == RingInv /\ FetchInv /\ PrefixInv

\* No key has the code whose release would be the byte E0 (set 1 has none).
NoKeyIsPrefix == \A code \in Codes \union SpecialCodes : Break(code) # E0

\* Who reads, and that kbGetChar reads with interrupts disabled.
CliInv ==
  /\ pc # "idle" => reader \in Readers \union {"shell"}
  /\ reader = "shell" => pc \in Commands \union {"ready", "idle"}
  /\ reader = "char" /\ pc \in Fetching \union {"decode"} => flag = FALSE

\* Without special keys no E0 is typed.
OrdinaryInv ==
  SpecialCodes = {} /\ NoKeyIsPrefix => \A i \in 1 .. Len(typed) : typed[i] # E0

\* What rules a disturbance out where only kbGetChar reads and no special key is
\* typed: interrupts are disabled while AL is in use, and the ring is read only
\* behind a look at it.
CharInv == /\ ~ disturbed
           /\ CliInv
           /\ OrdinaryInv
           /\ pc = "load_index" => kbHasNewInput

\* Every E0 typed is followed by another byte, and after_e0 is exact.
E0Inv ==
  /\ \A i \in 1 .. Len(typed) : typed[i] = E0 => i < Len(typed) /\ typed[i + 1] # E0
  /\ pc \in Fetching => (after_e0 <=> Len(fetched) > 0 /\ fetched[Len(fetched)] = E0)
  /\ pc = "decode" => (after_e0 <=> Len(fetched) > 1 /\ fetched[Len(fetched) - 1] = E0)
  /\ pc \notin Fetching \union {"decode"} =>
       Len(fetched) = 0 \/ fetched[Len(fetched)] # E0

\* The bytes whose effect key_states shows: not the one that is being decoded.
Applied == IF pc = "decode" THEN Len(fetched) - 1 ELSE Len(fetched)

\* The events of a key among the bytes taken out.
FetchedEvents(byte) ==
  {i \in DOMAIN fetched : fetched[i] = byte /\ (i = 1 \/ fetched[i - 1] # E0)}

EventsUpTo(byte, n) == {i \in FetchedEvents(byte) : i <= n}

ModifierInv ==
  /\ key_states[KEY_CAPS] <=> Cardinality(EventsUpTo(58, Applied)) % 2 = 1
  /\ key_states[KEY_L_SHIFT] <=>
       \E i \in EventsUpTo(42, Applied) : \A j \in EventsUpTo(Break(42), Applied) : j < i

KeyInv == E0Inv /\ ModifierInv

-----------------------------------------------------------------------------
(* Types *)

\* The two kinds of bytes, what the tables give and what a decoded key is.
LEMMA Values ==
  /\ Index \subseteq Byte
  /\ \A i \in Nat : Successor(i) \in Index
  /\ \A i \in Nat : i % QUEUE_SIZE \in Index
  /\ \A b \in Byte : CodeOf(b) \in 0 .. 127 /\ IsMake(b) \in BOOLEAN
  /\ \A c \in 0 .. 127 : /\ set1ToMapped(c) \in Nat \union {Unremarkable}
                         /\ specialToMapped(c) \in Nat \union {Unremarkable}
<1>1. /\ Index \subseteq Byte
      /\ \A i \in Nat : Successor(i) \in Index
      /\ \A i \in Nat : i % QUEUE_SIZE \in Index
  BY KeyboardAssumption DEF Index, Byte, Successor
<1>2. \A b \in Byte : CodeOf(b) \in 0 .. 127 /\ IsMake(b) \in BOOLEAN
  BY DEF Byte, CodeOf, IsMake
<1>3. \A c \in 0 .. 127 : /\ set1ToMapped(c) \in Nat \union {Unremarkable}
                          /\ specialToMapped(c) \in Nat \union {Unremarkable}
  BY DEF set1ToMapped, specialToMapped, Unremarkable, KEY_ENTER, KEY_L_SHIFT,
         KEY_R_SHIFT, KEY_CAPS
<1> QED BY <1>1, <1>2, <1>3

\* What a key sends is bytes, one or two of them.
LEMMA Strokes ==
  ASSUME KeyStroke
  PROVE  \E bytes \in Seq(Byte) :
           /\ Type(bytes)
           /\ \/ \E c \in Codes : bytes = <<c>> \/ bytes = <<Break(c)>>
              \/ \E c \in SpecialCodes : bytes = <<E0, c>> \/ bytes = <<E0, Break(c)>>
<1>1. ASSUME NEW c \in Codes \union SpecialCodes
      PROVE  /\ <<c>> \in Seq(Byte) /\ <<Break(c)>> \in Seq(Byte)
             /\ <<E0, c>> \in Seq(Byte) /\ <<E0, Break(c)>> \in Seq(Byte)
  BY KeyboardAssumption DEF Break, Byte, E0
<1>2. CASE \E c \in Codes : Type(<<c>>) \/ Type(<<Break(c)>>)
  BY <1>1, <1>2, Zenon
<1>3. CASE \E c \in SpecialCodes : Type(<<E0, c>>) \/ Type(<<E0, Break(c)>>)
  BY <1>1, <1>3, Zenon
<1> QED BY <1>2, <1>3 DEF KeyStroke

LEMMA DecodeType ==
  ASSUME TypeOK,
         NEW mapped \in Nat \union {Unremarkable}, NEW is_e0 \in BOOLEAN,
         NEW printable \in BOOLEAN, NEW states \in [Modifiers -> BOOLEAN],
         Decode(mapped, is_e0, printable, states)
  PROVE  TypeOK'
<1>1. key' \in MappedKey
  <2>1. CodeOf(curr_code) \in 0 .. 127 /\ IsMake(curr_code) \in BOOLEAN
    BY Values DEF TypeOK
  <2>2. (printable /\ IsMake(curr_code) /\ \E m \in Modifiers : states[m]) \in BOOLEAN
    BY <2>1
  <2> QED BY <2>1, <2>2, Zenon DEF Decode, MappedKey
<1>2. /\ key_states' = states /\ after_e0' = FALSE /\ pc' = "key"
      /\ UNCHANGED <<disturbed, typed, taken, flag, keyboard_initialized, ring, al, reader,
                     curr_code, fetched>>
  BY DEF Decode
<1> QED BY <1>1, <1>2 DEF TypeOK, ring, Points

\* The state of the modifiers stays a table of them.
LEMMA ModifiersAfterType ==
  ASSUME TypeOK, NEW mapped, NEW down \in BOOLEAN
  PROVE  ModifiersAfter(mapped, down) \in [Modifiers -> BOOLEAN]
BY DEF TypeOK, ModifiersAfter, Modifiers

LEMMA NextType == ASSUME TypeOK, [Next]_vars PROVE TypeOK'
<1>1. CASE KeyStroke
  <2>1. PICK bytes \in Seq(Byte) : Type(bytes)
    BY <1>1, Strokes
  <2>2. typed' \in Seq(Byte)
    BY <2>1 DEF Type, TypeOK
  <2> QED BY <2>1, <2>2 DEF Type, TypeOK, ring, decoded
<1>2. CASE keyboardIsr
  <2>1. typed[taken + 1] \in Byte /\ taken + 1 \in Nat
    BY <1>2 DEF keyboardIsr, TypeOK
  <2>2. scancode_queue' \in [Index -> Byte] /\ queue_widx' \in Index
    BY <1>2, <2>1, Values DEF keyboardIsr, keyboardInterruptHandler, TypeOK, Index
  <2>3. al' \in Byte /\ disturbed' \in BOOLEAN
    BY <1>2 DEF keyboardIsr, AL_EOI, Byte, TypeOK
  <2> QED BY <1>2, <2>1, <2>2, <2>3 DEF keyboardIsr, TypeOK, decoded
<1>3. CASE kShellStart \/ \E r \in Readers : Call(r)
  <2>1. /\ pc' \in Points /\ reader' \in {"none", "shell", "line", "char"}
        /\ flag' \in BOOLEAN /\ keyboard_initialized' \in BOOLEAN
    BY <1>3, KeyboardAssumption DEF kShellStart, Call, TypeOK, Points, Commands
  <2>2. UNCHANGED <<disturbed, typed, taken, ring, al, decoded>>
    BY <1>3 DEF kShellStart, Call
  <2> QED BY <2>1, <2>2 DEF TypeOK, ring, decoded
<1>4. CASE CommandAnswered \/ CommandIgnored \/ InitReady
  BY <1>4 DEF CommandAnswered, CommandIgnored, InitReady, AfterInit, Following, Commands,
              TypeOK, ring, decoded, Points
<1>5. CASE Poll \/ LoadIndex
  BY <1>5, Values DEF Poll, LoadIndex, TypeOK, ring, decoded, Points, Fetching, Holding
<1>6. CASE StoreIndex
  <2>1. al \in Nat
    BY DEF TypeOK, Byte
  <2>2. Successor(al) \in Index
    BY <2>1, Values
  <2> QED BY <1>6, <2>2 DEF StoreIndex, TypeOK, decoded, Points, Fetching, Holding
<1>7. CASE LoadByte
  <2>1. al \in Nat
    BY DEF TypeOK, Byte
  <2>2. al % QUEUE_SIZE \in Index
    BY <2>1, Values
  <2>3. scancode_queue[al % QUEUE_SIZE] \in Byte
    BY <2>2 DEF TypeOK
  <2> QED BY <1>7, <2>3 DEF LoadByte, TypeOK, ring, decoded, Points, Fetching, Holding
<1>8. CASE StoreByte
  BY <1>8 DEF StoreByte, TypeOK, ring, Points
<1>9. CASE E0Prefix
  BY <1>9 DEF E0Prefix, TypeOK, ring, Points, Fetching, Holding
<1>10. CASE handleE0Key
  <2>1. CodeOf(curr_code) \in 0 .. 127 /\ key_states \in [Modifiers -> BOOLEAN]
    BY Values DEF TypeOK
  <2> QED BY <1>10, <2>1, Values, DecodeType DEF handleE0Key
<1>11. CASE handleUnknownKey
  <2> DEFINE mapped == set1ToMapped(CodeOf(curr_code))
  <2>1. mapped \in Nat \union {Unremarkable} /\ IsMake(curr_code) \in BOOLEAN
    BY Values DEF TypeOK
  <2>2. ModifiersAfter(mapped, IsMake(curr_code)) \in [Modifiers -> BOOLEAN]
    BY <2>1, ModifiersAfterType
  <2>3. Decode(mapped, FALSE, FALSE, ModifiersAfter(mapped, IsMake(curr_code)))
    BY <1>11 DEF handleUnknownKey
  <2> HIDE DEF mapped
  <2> QED BY <2>1, <2>2, <2>3, DecodeType
<1>12. CASE PrintableKey
  <2>1. CodeOf(curr_code) \in 0 .. 127 /\ key_states \in [Modifiers -> BOOLEAN]
    BY Values DEF TypeOK
  <2> QED BY <1>12, <2>1, Values, DecodeType DEF PrintableKey
<1>13. CASE KeyForChar \/ KeyForLine
  BY <1>13 DEF KeyForChar, KeyForLine, TypeOK, ring, decoded, Points
<1>14. CASE UNCHANGED vars
  BY <1>14 DEF vars, TypeOK, ring, decoded
<1> QED BY <1>1, <1>2, <1>3, <1>4, <1>5, <1>6, <1>7, <1>8, <1>9, <1>10, <1>11, <1>12,
           <1>13, <1>14 DEF Next, Kernel

\* The variables of keyboard_io.c keep their types, whatever is typed and
\* whenever the handler of IRQ 1 comes in between.
THEOREM TypeCorrect == Spec => []TypeOK
<1>1. ASSUME Init PROVE TypeOK
  <2>1. NoKey \in MappedKey
    BY DEF NoKey, MappedKey
  <2>2. 0 \in Index /\ 0 \in Byte
    BY KeyboardAssumption DEF Index, Byte
  <2>3. scancode_queue \in [Index -> Byte] /\ key_states \in [Modifiers -> BOOLEAN]
    BY <1>1, <2>2 DEF Init
  <2>4. typed = <<>> /\ fetched = <<>> /\ <<>> \in Seq(Byte)
    BY <1>1 DEF Init
  <2>5. /\ disturbed \in BOOLEAN /\ taken \in Nat
        /\ flag \in BOOLEAN /\ keyboard_initialized \in BOOLEAN
        /\ queue_widx = 0 /\ queue_ridx = 0 /\ al = 0 /\ curr_code = 0
        /\ pc \in Points /\ reader \in {"none", "shell", "line", "char"}
        /\ after_e0 \in BOOLEAN /\ key = NoKey
    BY <1>1 DEF Init, Points
  <2> QED BY <2>1, <2>2, <2>3, <2>4, <2>5 DEF TypeOK
<1> QED BY <1>1, NextType, PTL DEF Spec

-----------------------------------------------------------------------------
(* The ring *)

\* The cells of consecutive positions follow each other, and as many positions as
\* there are cells have different ones.
LEMMA Cells ==
  /\ \A n \in Nat : /\ n % QUEUE_SIZE \in Index
                    /\ (n % QUEUE_SIZE) % QUEUE_SIZE = n % QUEUE_SIZE
                    /\ Successor(n % QUEUE_SIZE) = (n + 1) % QUEUE_SIZE
  /\ \A m, n \in Nat : m < n /\ n - m < QUEUE_SIZE => m % QUEUE_SIZE # n % QUEUE_SIZE
<1>1. QUEUE_SIZE \in Nat \ {0}
  BY KeyboardAssumption
<1>2. ASSUME NEW n \in Nat
      PROVE  /\ n % QUEUE_SIZE \in Index
             /\ (n % QUEUE_SIZE) % QUEUE_SIZE = n % QUEUE_SIZE
             /\ Successor(n % QUEUE_SIZE) = (n + 1) % QUEUE_SIZE
  <2>1. /\ ((n % QUEUE_SIZE) + 0) % QUEUE_SIZE = (n + 0) % QUEUE_SIZE
        /\ ((n % QUEUE_SIZE) + 1) % QUEUE_SIZE = (n + 1) % QUEUE_SIZE
    <3>1. n \in Int /\ 0 \in Int /\ 1 \in Int
      OBVIOUS
    <3> QED BY <1>1, <3>1, ModOfSum, Zenon
  <2>2. n % QUEUE_SIZE \in Index
    BY <1>1 DEF Index
  <2>3. n + 0 = n /\ (n % QUEUE_SIZE) + 0 = n % QUEUE_SIZE
    BY <1>1
  <2> QED BY <2>1, <2>2, <2>3, Zenon DEF Successor
<1>3. ASSUME NEW m \in Nat, NEW n \in Nat, m < n, n - m < QUEUE_SIZE
      PROVE  m % QUEUE_SIZE # n % QUEUE_SIZE
  <2>1. m \in Int /\ n \in Int
    OBVIOUS
  <2> QED BY <1>1, <1>3, <2>1, ModDistinct, Zenon
<1> QED BY <1>2, <1>3

\* Steps that do not touch the ring, nor what was typed and taken out of it.
LEMMA RingFrame ==
  ASSUME RingInv, Indexed' = Indexed, UNCHANGED <<typed, taken, ring, fetched>>
  PROVE  RingInv'
BY DEF RingInv, ring

LEMMA TypeInv ==
  ASSUME TypeOK, Inv, KeyStroke
  PROVE  Inv'
<1>1. PICK bytes \in Seq(Byte) : Type(bytes)
  BY Strokes
<1>2. /\ typed' = typed \o bytes
      /\ Len(typed') - Len(fetched) <= MaxBacklog
  BY <1>1 DEF Type, Unread, TypeOK
<1>3. /\ Len(typed') = Len(typed) + Len(bytes) /\ Len(bytes) \in Nat
      /\ Len(typed) \in Nat /\ Len(fetched) \in Nat
      /\ \A i \in 1 .. Len(typed) : typed'[i] = typed[i]
  BY <1>2 DEF TypeOK
<1>4. UNCHANGED <<taken, ring, al, pc, curr_code, after_e0, key, fetched>>
  BY <1>1 DEF Type, decoded
<1>5. RingInv'
  BY <1>2, <1>3, <1>4 DEF Inv, RingInv, Indexed, ring, TypeOK
<1>6. FetchInv'
  <2>1. pc \in Holding => typed'[Len(fetched) + 1] = typed[Len(fetched) + 1]
    <3>1. pc \in Holding => Len(fetched) + 1 \in 1 .. Len(typed)
      BY <1>3 DEF Inv, RingInv, FetchInv, TypeOK
    <3> QED BY <1>3, <3>1
  <2>2. pc = "store_byte" => pc \in Holding
    BY DEF Holding
  <2> QED BY <1>4, <2>1, <2>2 DEF Inv, FetchInv
<1>7. PrefixInv'
  BY <1>4 DEF Inv, PrefixInv
<1> QED BY <1>5, <1>6, <1>7 DEF Inv

\* The handler writes a cell of which nothing waits to be read, and AL while it
\* holds nothing.
LEMMA IsrInv ==
  ASSUME TypeOK, Inv, ~ disturbed', MaxBacklog < QUEUE_SIZE, keyboardIsr
  PROVE  Inv'
<1> DEFINE f == Len(fetched)
<1>1. /\ taken < Len(typed) /\ taken' = taken + 1 /\ pc \notin Holding
      /\ scancode_queue' = [scancode_queue EXCEPT ![queue_widx] = typed[taken + 1]]
      /\ queue_widx' = Successor(queue_widx)
      /\ UNCHANGED <<typed, queue_ridx, pc, decoded>>
  BY DEF keyboardIsr, keyboardInterruptHandler
<1>2. /\ f \in Nat /\ Len(typed) \in Nat /\ taken \in Nat
      /\ f <= taken /\ Len(typed) - f <= MaxBacklog
      /\ queue_widx = taken % QUEUE_SIZE
  BY DEF TypeOK, Inv, RingInv
<1>3. taken - f < QUEUE_SIZE
  BY <1>1, <1>2, KeyboardAssumption
<1>4. queue_widx' = taken' % QUEUE_SIZE
  BY <1>1, <1>2, Cells
<1>5. ASSUME NEW i \in f + 1 .. taken'
      PROVE  scancode_queue'[(i - 1) % QUEUE_SIZE] = typed[i]
  <2>1. i - 1 \in Nat /\ i - 1 <= taken /\ taken - (i - 1) <= taken - f
    BY <1>1, <1>2
  <2>2. (i - 1) % QUEUE_SIZE \in Index /\ taken % QUEUE_SIZE \in Index
    BY <1>2, <2>1, Cells
  <2>3. CASE i - 1 = taken
    BY <1>1, <1>2, <2>1, <2>2, <2>3 DEF TypeOK
  <2>4. CASE i - 1 < taken
    <3>1. (i - 1) % QUEUE_SIZE # taken % QUEUE_SIZE
      <4>1. taken - (i - 1) < QUEUE_SIZE
        BY <1>2, <1>3, <2>1, KeyboardAssumption
      <4> QED BY <1>2, <2>1, <2>4, <4>1, Cells
    <3>2. scancode_queue[(i - 1) % QUEUE_SIZE] = typed[i]
      <4>1. i \in f + 1 .. taken
        BY <1>1, <1>2, <2>4
      <4> QED BY <4>1 DEF Inv, RingInv
    <3> QED BY <1>1, <1>2, <2>2, <3>1, <3>2 DEF TypeOK
  <2> QED BY <1>2, <2>1, <2>3, <2>4
<1>6. RingInv'
  <2>1. f' = f /\ Indexed' = Indexed
    BY <1>1 DEF decoded, Indexed
  <2> QED BY <1>1, <1>2, <1>4, <1>5, <2>1 DEF Inv, RingInv, decoded
<1>7. FetchInv' /\ PrefixInv'
  <2>1. pc' \notin {"store_index", "load_byte", "store_byte"}
    BY <1>1 DEF Holding
  <2> QED BY <1>1, <1>2, <2>1 DEF Inv, FetchInv, PrefixInv, decoded
<1> QED BY <1>6, <1>7 DEF Inv

\* The four instructions that take a byte out, and the test before them.
LEMMA FetchStepInv ==
  ASSUME TypeOK, Inv, ~ disturbed', Poll \/ LoadIndex \/ StoreIndex \/ LoadByte
  PROVE  Inv'
<1> DEFINE f == Len(fetched)
<1>1. /\ f \in Nat /\ Len(typed) \in Nat /\ taken \in Nat /\ QUEUE_SIZE \in Nat \ {0}
      /\ f <= taken /\ taken <= Len(typed)
  BY KeyboardAssumption DEF TypeOK, Inv, RingInv
<1>2. UNCHANGED <<typed, taken, scancode_queue, queue_widx, decoded>>
  BY DEF Poll, LoadIndex, StoreIndex, LoadByte, ring
<1>3. CASE Poll
  <2>1. RingInv'
    BY <1>2, <1>3, RingFrame DEF Poll, Inv, Indexed, decoded
  <2>2. ~ after_e0
    BY <1>3 DEF Poll, Inv, PrefixInv, Fetching, Holding
  <2> QED BY <1>2, <1>3, <2>1, <2>2
          DEF Poll, Inv, FetchInv, PrefixInv, Fetching, Holding, decoded
<1>4. CASE LoadIndex
  <2>1. queue_ridx = f % QUEUE_SIZE /\ queue_widx = taken % QUEUE_SIZE
    BY <1>4 DEF LoadIndex, Inv, RingInv, Indexed
  <2>2. f < taken
    <3>1. kbHasNewInput
      BY <1>4, Zenon DEF LoadIndex
    <3> QED BY <1>1, <2>1, <3>1 DEF kbHasNewInput
  <2>3. RingInv'
    BY <1>2, <1>4, RingFrame DEF LoadIndex, Inv, Indexed, decoded
  <2> QED BY <1>2, <1>4, <2>1, <2>2, <2>3
          DEF LoadIndex, Inv, FetchInv, PrefixInv, Fetching, Holding, decoded
<1>5. CASE StoreIndex
  <2>1. al = f % QUEUE_SIZE
    BY <1>5 DEF StoreIndex, Inv, FetchInv
  <2>2. queue_ridx' = (f + 1) % QUEUE_SIZE
    BY <1>1, <1>5, <2>1, Cells DEF StoreIndex
  <2>3. RingInv'
    BY <1>2, <1>5, <2>2 DEF StoreIndex, Inv, RingInv, Indexed, decoded
  <2> QED BY <1>2, <1>5, <2>1, <2>3
          DEF StoreIndex, Inv, FetchInv, PrefixInv, Fetching, Holding, decoded
<1>6. CASE LoadByte
  <2>1. al = f % QUEUE_SIZE /\ f < taken
    BY <1>6 DEF LoadByte, Inv, FetchInv, Fetching, Holding
  <2>2. al % QUEUE_SIZE = f % QUEUE_SIZE
    BY <1>1, <2>1, Cells
  <2>3. scancode_queue[f % QUEUE_SIZE] = typed[f + 1]
    <3>1. f + 1 \in f + 1 .. taken /\ (f + 1) - 1 = f
      BY <1>1, <2>1
    <3> QED BY <3>1 DEF Inv, RingInv
  <2>4. RingInv'
    BY <1>2, <1>6, RingFrame DEF LoadByte, Inv, Indexed, decoded
  <2> QED BY <1>2, <1>6, <2>2, <2>3, <2>4
          DEF LoadByte, Inv, FetchInv, PrefixInv, Fetching, Holding, decoded
<1> QED BY <1>3, <1>4, <1>5, <1>6

\* The byte that leaves the ring is the next one typed.
LEMMA StoreByteInv ==
  ASSUME TypeOK, Inv, StoreByte
  PROVE  Inv'
<1> DEFINE f == Len(fetched)
<1>1. /\ f \in Nat /\ Len(typed) \in Nat /\ taken \in Nat
      /\ f < taken /\ taken <= Len(typed) /\ al = typed[f + 1]
      /\ pc = "store_byte"
  BY DEF StoreByte, TypeOK, Inv, RingInv, FetchInv, Fetching, Holding
<1>2. /\ fetched' = Append(fetched, al) /\ curr_code' = al /\ pc' = "decode"
      /\ UNCHANGED <<typed, taken, ring, after_e0>>
  BY DEF StoreByte
<1>3. /\ f' = f + 1 /\ fetched'[f + 1] = al
      /\ \A i \in 1 .. f : fetched'[i] = fetched[i]
  BY <1>1, <1>2 DEF TypeOK
<1>4. Indexed' = Indexed
  BY <1>1, <1>2, <1>3 DEF Indexed
<1>5. RingInv'
  <2>1. queue_widx' = queue_widx /\ queue_ridx' = queue_ridx
    BY <1>2 DEF ring
  <2>2. scancode_queue' = scancode_queue
    BY <1>2 DEF ring
  <2>3. \A i \in 1 .. Len(fetched') : fetched'[i] = typed[i]
    BY <1>1, <1>2, <1>3 DEF Inv, RingInv
  <2>4. \A i \in Len(fetched') + 1 .. taken :
          scancode_queue[(i - 1) % QUEUE_SIZE] = typed[i]
    BY <1>1, <1>3 DEF Inv, RingInv
  <2>5. Len(typed) - Len(fetched') <= MaxBacklog
    BY <1>1, <1>3, KeyboardAssumption DEF Inv, RingInv
  <2> QED BY <1>1, <1>2, <1>3, <1>4, <2>1, <2>2, <2>3, <2>4, <2>5 DEF Inv, RingInv
<1>6. FetchInv'
  BY <1>1, <1>2, <1>3 DEF FetchInv, Fetching, Holding
<1>7. PrefixInv'
  BY <1>1, <1>2, <1>3 DEF Inv, PrefixInv, Fetching, Holding
<1> QED BY <1>5, <1>6, <1>7 DEF Inv

\* The steps that work on the byte, or on nothing.
LEMMA OtherInv ==
  ASSUME TypeOK, Inv,
         \/ kShellStart \/ \E r \in Readers : Call(r)
         \/ CommandAnswered \/ CommandIgnored \/ InitReady
         \/ E0Prefix \/ handleE0Key \/ handleUnknownKey \/ PrintableKey
         \/ KeyForChar \/ KeyForLine \/ UNCHANGED vars
  PROVE  Inv'
<1>1. CASE \/ kShellStart \/ \E r \in Readers : Call(r)
           \/ CommandAnswered \/ CommandIgnored \/ InitReady
           \/ KeyForChar \/ KeyForLine
  <2>1. /\ pc' \notin Fetching \union {"decode", "key"}
        /\ pc \notin Fetching \union {"decode"}
        /\ UNCHANGED <<typed, taken, ring, decoded>>
    BY <1>1 DEF kShellStart, Call, CommandAnswered, CommandIgnored, InitReady, KeyForChar,
                KeyForLine, AfterInit, Following, Commands, Fetching, Holding
  <2>2. RingInv'
    BY <2>1, RingFrame DEF Inv, Indexed, Fetching, Holding, decoded
  <2> QED BY <2>1, <2>2 DEF Inv, FetchInv, PrefixInv, Fetching, Holding, decoded
<1>2. CASE E0Prefix
  <2>1. RingInv'
    BY <1>2, RingFrame DEF E0Prefix, Inv, Indexed
  <2> QED BY <1>2, <2>1 DEF E0Prefix, Inv, FetchInv, PrefixInv, Fetching, Holding
<1>3. CASE handleE0Key
  <2>1. RingInv'
    BY <1>3, RingFrame DEF handleE0Key, Decode, Inv, Indexed
  <2>2. key'.mapped_code = specialToMapped(CodeOf(curr_code)) /\ pc' = "key"
    BY <1>3 DEF handleE0Key, Decode
  <2> QED BY <1>3, <2>1, <2>2
          DEF handleE0Key, Decode, Inv, FetchInv, PrefixInv, Fetching, Holding
<1>4. CASE handleUnknownKey \/ PrintableKey
  <2>1. /\ pc = "decode" /\ pc' = "key" /\ after_e0' = FALSE /\ key'.e0_key = FALSE
        /\ UNCHANGED <<typed, taken, ring, fetched>>
    BY <1>4 DEF handleUnknownKey, PrintableKey, NextIsKey, Decode
  <2>2. RingInv'
    BY <2>1, RingFrame DEF Inv, Indexed
  <2> QED BY <2>1, <2>2 DEF Inv, FetchInv, PrefixInv, Fetching, Holding
<1>5. CASE UNCHANGED vars
  <2>1. RingInv'
    BY <1>5, RingFrame DEF vars, decoded, Inv, Indexed
  <2> QED BY <1>5, <2>1 DEF vars, decoded, Inv, FetchInv, PrefixInv
<1> QED BY <1>1, <1>2, <1>3, <1>4, <1>5

\* What was disturbed stays so.
LEMMA DisturbedForEver == ASSUME disturbed, [Next]_vars PROVE disturbed'
<1>1. CASE KeyStroke
  BY <1>1, Strokes DEF Type
<1>2. CASE keyboardIsr \/ LoadIndex
  BY <1>2 DEF keyboardIsr, LoadIndex
<1>3. CASE ~ (KeyStroke \/ keyboardIsr \/ LoadIndex)
  BY <1>3 DEF Next, Kernel, vars, kShellStart, Call, CommandAnswered, CommandIgnored,
              InitReady, Poll, StoreIndex, LoadByte, StoreByte, E0Prefix, handleE0Key,
              handleUnknownKey, PrintableKey, Decode, KeyForChar, KeyForLine
<1> QED BY <1>1, <1>2, <1>3

LEMMA NextInv ==
  ASSUME TypeOK, Inv, ~ disturbed', MaxBacklog < QUEUE_SIZE, [Next]_vars
  PROVE  Inv'
BY TypeInv, IsrInv, FetchStepInv, StoreByteInv, OtherInv DEF Next, Kernel

LEMMA InitInv == ASSUME Init PROVE Inv
<1>1. 0 % QUEUE_SIZE = 0
  BY KeyboardAssumption
<1> QED BY <1>1, KeyboardAssumption
        DEF Init, Inv, RingInv, FetchInv, PrefixInv, Indexed, Fetching, Holding, NoKey

LEMMA InvCorrect == ASSUME MaxBacklog < QUEUE_SIZE PROVE Spec => [](disturbed \/ Inv)
BY InitInv, NextInv, DisturbedForEver, TypeCorrect, PTL DEF Spec

LEMMA InvFIFO == ASSUME TypeOK, Inv PROVE FIFO
<1> DEFINE n == Len(fetched)
<1>1. /\ typed \in Seq(Byte) /\ fetched \in Seq(Byte)
      /\ n \in 0 .. taken /\ n <= Len(typed)
      /\ \A i \in 1 .. n : fetched[i] = typed[i]
  BY DEF TypeOK, Inv, RingInv
<1>2. /\ SubSeq(typed, 1, n) \in Seq(Byte)
      /\ Len(SubSeq(typed, 1, n)) = n
      /\ \A i \in 1 .. n : SubSeq(typed, 1, n)[i] = typed[i]
  BY <1>1
<1>3. fetched = SubSeq(typed, 1, n)
  BY <1>1, <1>2, SeqEqual
<1> QED BY <1>1, <1>3 DEF FIFO

\* The bytes taken out of the ring by scancode_queue[queue_ridx++] are those the
\* keyboard sent, each once and in their order, whatever instructions of the readers
\* they come between, as long as the ring is larger than what waits in it: until the
\* handler has changed AL in use or an empty ring was read.
THEOREM InOrder ==
  ASSUME MaxBacklog < QUEUE_SIZE PROVE Spec => []UndisturbedFIFO
<1>1. ASSUME TypeOK, disturbed \/ Inv PROVE UndisturbedFIFO
  BY <1>1, InvFIFO DEF UndisturbedFIFO
<1> QED BY <1>1, TypeCorrect, InvCorrect, PTL

\* kbHasNewInput sees every byte that waits, under the same conditions: the
\* indices do not meet while the ring holds something.
THEOREM WaitingSeen ==
  ASSUME MaxBacklog < QUEUE_SIZE PROVE Spec => []InputVisible
<1>1. ASSUME TypeOK, disturbed \/ Inv PROVE InputVisible
  <2> SUFFICES ASSUME Inv, pc \notin {"load_byte", "store_byte"}
               PROVE  kbHasNewInput <=> Len(fetched) < taken
    BY <1>1 DEF InputVisible
  <2>1. /\ Len(fetched) \in Nat /\ taken \in Nat /\ Len(typed) \in Nat
        /\ Len(fetched) <= taken /\ taken <= Len(typed)
        /\ Len(typed) - Len(fetched) <= MaxBacklog
        /\ queue_widx = taken % QUEUE_SIZE /\ queue_ridx = Len(fetched) % QUEUE_SIZE
    BY <1>1 DEF TypeOK, Inv, RingInv, Indexed
  <2>2. taken - Len(fetched) < QUEUE_SIZE
    BY <2>1, KeyboardAssumption
  <2>3. CASE Len(fetched) < taken
    BY <2>1, <2>2, <2>3, Cells DEF kbHasNewInput
  <2>4. CASE Len(fetched) = taken
    BY <2>1, <2>4 DEF kbHasNewInput
  <2> QED BY <2>1, <2>3, <2>4
<1> QED BY <1>1, TypeCorrect, InvCorrect, PTL

LEMMA InvSpecial == ASSUME TypeOK, Inv PROVE SpecialKeysMapped
<1> DEFINE n == Len(fetched)
<1> SUFFICES ASSUME pc = "key", key.e0_key
             PROVE  /\ n <= Len(typed)
                    /\ typed[n - 1] = E0
                    /\ key.mapped_code = specialToMapped(CodeOf(typed[n]))
  BY DEF SpecialKeysMapped
<1>1. /\ n \in Nat /\ taken \in Nat /\ Len(typed) \in Nat
      /\ n <= taken /\ taken <= Len(typed)
      /\ \A i \in 1 .. n : fetched[i] = typed[i]
  BY DEF TypeOK, Inv, RingInv
<1>2. /\ n > 1 /\ fetched[n - 1] = E0
      /\ key.mapped_code = specialToMapped(CodeOf(fetched[n]))
  BY DEF Inv, PrefixInv
<1>3. fetched[n - 1] = typed[n - 1] /\ fetched[n] = typed[n]
  BY <1>1, <1>2
<1> QED BY <1>1, <1>2, <1>3

\* handleE0Key decodes the two bytes of a special key that was typed, as long as
\* the second was in the ring whenever it took it out, and under the conditions
\* of InOrder.
THEOREM SpecialKeysTyped ==
  ASSUME MaxBacklog < QUEUE_SIZE PROVE Spec => []UndisturbedSpecialKeys
<1>1. ASSUME TypeOK, disturbed \/ Inv PROVE UndisturbedSpecialKeys
  BY <1>1, InvSpecial DEF UndisturbedSpecialKeys
<1> QED BY <1>1, TypeCorrect, InvCorrect, PTL

-----------------------------------------------------------------------------
(* Reading that is never disturbed *)

LEMMA NextCli == ASSUME TypeOK, CliInv, [Next]_vars PROVE CliInv'
<1> USE DEF CliInv
<1>1. CASE KeyStroke
  BY <1>1, Strokes DEF Type
<1>2. CASE keyboardIsr
  BY <1>2 DEF keyboardIsr
<1>3. CASE kShellStart \/ \E r \in Readers : Call(r)
  BY <1>3, KeyboardAssumption DEF kShellStart, Call, Commands, Fetching, Holding
<1>4. CASE CommandAnswered \/ CommandIgnored \/ InitReady
  BY <1>4 DEF CommandAnswered, CommandIgnored, InitReady, AfterInit, Following, Commands,
              Fetching, Holding
<1>5. CASE Poll \/ LoadIndex \/ StoreIndex \/ LoadByte \/ StoreByte \/ E0Prefix
  BY <1>5 DEF Poll, LoadIndex, StoreIndex, LoadByte, StoreByte, E0Prefix, Commands,
              Fetching, Holding
<1>6. CASE handleE0Key \/ handleUnknownKey \/ PrintableKey
  BY <1>6 DEF handleE0Key, handleUnknownKey, PrintableKey, NextIsKey, Decode, Commands,
              Fetching, Holding
<1>7. CASE KeyForChar \/ KeyForLine
  BY <1>7 DEF KeyForChar, KeyForLine, Commands, Fetching, Holding
<1>8. CASE UNCHANGED vars
  BY <1>8 DEF vars
<1> QED BY <1>1, <1>2, <1>3, <1>4, <1>5, <1>6, <1>7, <1>8 DEF Next, Kernel

LEMMA NextOrdinary == ASSUME TypeOK, OrdinaryInv, [Next]_vars PROVE OrdinaryInv'
<1>1. CASE KeyStroke
  <2> SUFFICES ASSUME SpecialCodes = {}, NoKeyIsPrefix
               PROVE  \A i \in 1 .. Len(typed') : typed'[i] # E0
    BY DEF OrdinaryInv
  <2>1. PICK c \in Codes : Type(<<c>>) \/ Type(<<Break(c)>>)
    BY <1>1 DEF KeyStroke
  <2>2. c # E0 /\ Break(c) # E0
    BY KeyboardAssumption DEF NoKeyIsPrefix, E0
  <2>3. PICK b \in {c, Break(c)} : typed' = typed \o <<b>>
    BY <2>1 DEF Type
  <2> QED BY <2>2, <2>3 DEF OrdinaryInv, TypeOK
<1>2. CASE UNCHANGED typed
  BY <1>2 DEF OrdinaryInv
<1>3. [Next]_vars => KeyStroke \/ UNCHANGED typed
  BY DEF Next, Kernel, vars, keyboardIsr, kShellStart, Call, CommandAnswered,
         CommandIgnored, InitReady, Poll, LoadIndex, StoreIndex, LoadByte, StoreByte,
         E0Prefix, handleE0Key, handleUnknownKey, PrintableKey, Decode, KeyForChar, KeyForLine
<1> QED BY <1>1, <1>2, <1>3

LEMMA InitChar == ASSUME Init PROVE CharInv
BY KeyboardAssumption DEF Init, CharInv, CliInv, OrdinaryInv, Fetching, Holding, Commands

LEMMA NextChar ==
  ASSUME TypeOK, Inv, CharInv, [Next]_vars,
         Readers \subseteq {"char"}, SpecialCodes = {}, NoKeyIsPrefix
  PROVE  CharInv'
<1>1. CliInv' /\ OrdinaryInv'
  BY NextCli, NextOrdinary DEF CharInv
<1>2. flag => pc \notin Fetching \union {"decode"}
  BY DEF CharInv, CliInv, Fetching, Holding, Commands
<1>3. CASE KeyStroke
  BY <1>1, <1>3, Strokes DEF Type, CharInv, ring, kbHasNewInput
<1>4. CASE keyboardIsr
  BY <1>1, <1>2, <1>4 DEF keyboardIsr, CharInv, Fetching, Holding
<1>5. CASE Poll \/ LoadIndex
  <2>1. kbHasNewInput /\ ~ disturbed'
    <3>1. CASE Poll
      BY <3>1 DEF Poll, CharInv
    <3>2. CASE LoadIndex
      BY <3>2, Zenon DEF LoadIndex, CharInv
    <3> QED BY <1>5, <3>1, <3>2
  <2>2. UNCHANGED ring
    BY <1>5 DEF Poll, LoadIndex
  <2> QED BY <1>1, <2>1, <2>2 DEF CharInv, ring, kbHasNewInput
<1>6. CASE E0Prefix
  <2>1. /\ Len(fetched) \in 1 .. Len(typed) /\ curr_code = typed[Len(fetched)]
        /\ curr_code = E0
    BY <1>6 DEF E0Prefix, TypeOK, Inv, RingInv, FetchInv
  <2> QED BY <2>1 DEF CharInv, OrdinaryInv
<1>7. CASE ~ (KeyStroke \/ keyboardIsr \/ Poll \/ LoadIndex \/ E0Prefix)
  <2>1. /\ UNCHANGED disturbed
        /\ pc' = "load_index" => pc = "load_index" /\ UNCHANGED ring
    BY <1>7 DEF Next, Kernel, vars, kShellStart, Call, CommandAnswered, CommandIgnored,
                InitReady, StoreIndex, LoadByte, StoreByte, handleE0Key, handleUnknownKey,
                PrintableKey, Decode, KeyForChar, KeyForLine, AfterInit, Following, Commands
  <2> QED BY <1>1, <2>1 DEF CharInv, ring, kbHasNewInput
<1> QED BY <1>3, <1>4, <1>5, <1>6, <1>7

\* kbGetChar is never disturbed, because it holds interrupts off while it takes a
\* key out: where nobody else reads, no special key is typed and the ring is larger
\* than what waits in it, the bytes are read in their order without condition.
THEOREM CharInOrder ==
  ASSUME Readers \subseteq {"char"}, SpecialCodes = {}, NoKeyIsPrefix,
         MaxBacklog < QUEUE_SIZE
  PROVE  Spec => [](~ disturbed /\ FIFO)
<1>1. ASSUME Init PROVE Inv /\ CharInv
  BY <1>1, InitInv, InitChar
<1>2. ASSUME TypeOK, Inv /\ CharInv, [Next]_vars PROVE (Inv /\ CharInv)'
  BY <1>2, NextChar, NextInv DEF CharInv
<1>3. ASSUME TypeOK, Inv /\ CharInv PROVE ~ disturbed /\ FIFO
  BY <1>3, InvFIFO DEF CharInv
<1> QED BY <1>1, <1>2, <1>3, TypeCorrect, PTL DEF Spec

-----------------------------------------------------------------------------
(* The modifier keys *)

LEMMA EventsFinite ==
  ASSUME TypeOK, NEW byte, NEW n \in Nat
  PROVE  IsFiniteSet(EventsUpTo(byte, n)) /\ EventsUpTo(byte, n) \subseteq 1 .. n
<1>1. EventsUpTo(byte, n) \subseteq 1 .. n
  BY DEF EventsUpTo, FetchedEvents, TypeOK
<1>2. IsFiniteSet(1 .. n)
  BY FS_Interval
<1> QED BY <1>1, <1>2, FS_Subset

\* The byte taken out last is an event of its key when no E0 is before it.
LEMMA LastEvent ==
  ASSUME TypeOK, Len(fetched) > 0, NEW byte
  PROVE  EventsUpTo(byte, Len(fetched)) =
           EventsUpTo(byte, Len(fetched) - 1) \union
             {i \in {Len(fetched)} : fetched[i] = byte /\ (i = 1 \/ fetched[i - 1] # E0)}
<1>1. Len(fetched) \in Nat /\ DOMAIN fetched = 1 .. Len(fetched)
  BY DEF TypeOK
<1> QED BY <1>1 DEF EventsUpTo, FetchedEvents

\* Steps that decode nothing.
LEMMA ModifierFrame ==
  ASSUME ModifierInv, Applied' = Applied, UNCHANGED <<key_states, fetched>>
  PROVE  ModifierInv'
BY DEF ModifierInv, EventsUpTo, FetchedEvents

\* A byte that is no event of Shift or Caps Lock leaves their counts alone.
LEMMA NoEvent ==
  ASSUME TypeOK, ModifierInv, Len(fetched) > 0,
         Applied = Len(fetched) - 1, Applied' = Len(fetched),
         UNCHANGED <<key_states, fetched>>,
         \A byte \in {58, 42, Break(42)} :
           ~ (fetched[Len(fetched)] = byte
              /\ (Len(fetched) = 1 \/ fetched[Len(fetched) - 1] # E0))
  PROVE  ModifierInv'
<1>1. ASSUME NEW byte \in {58, 42, Break(42)}
      PROVE  EventsUpTo(byte, Len(fetched)) = EventsUpTo(byte, Len(fetched) - 1)
  BY LastEvent
<1>2. /\ EventsUpTo(58, Applied)' = EventsUpTo(58, Applied)
      /\ EventsUpTo(42, Applied)' = EventsUpTo(42, Applied)
      /\ EventsUpTo(Break(42), Applied)' = EventsUpTo(Break(42), Applied)
  BY <1>1 DEF EventsUpTo, FetchedEvents
<1>3. key_states'[KEY_CAPS] = key_states[KEY_CAPS]
      /\ key_states'[KEY_L_SHIFT] = key_states[KEY_L_SHIFT]
  OBVIOUS
<1>4. /\ key_states'[KEY_CAPS] <=> Cardinality(EventsUpTo(58, Applied)') % 2 = 1
      /\ key_states'[KEY_L_SHIFT] <=>
           \E i \in EventsUpTo(42, Applied)' : \A j \in EventsUpTo(Break(42), Applied)' : j < i
  <2> HIDE DEF Applied, EventsUpTo
  <2> QED BY <1>2, <1>3, Zenon DEF ModifierInv
<1> QED BY <1>4, Zenon DEF ModifierInv

\* Caps Lock has changed once more, or not: a set of events that grows by one.
LEMMA Parity ==
  ASSUME NEW S, IsFiniteSet(S), NEW x, x \notin S
  PROVE  Cardinality(S \union {x}) % 2 = 1 <=> ~ (Cardinality(S) % 2 = 1)
<1>1. Cardinality(S) \in Nat
  BY FS_CardinalityType
<1>2. Cardinality(S \union {x}) = Cardinality(S) + 1
  BY FS_AddElement
<1> QED BY <1>1, <1>2

\* What handleUnknownKey does to the modifiers.
LEMMA UnknownKeyEffect ==
  ASSUME TypeOK, handleUnknownKey
  PROVE  /\ curr_code = 58 => key_states'[KEY_CAPS] = ~ key_states[KEY_CAPS]
         /\ curr_code # 58 => key_states'[KEY_CAPS] = key_states[KEY_CAPS]
         /\ curr_code = 42 => key_states'[KEY_L_SHIFT] = TRUE
         /\ curr_code = Break(42) => key_states'[KEY_L_SHIFT] = FALSE
         /\ curr_code \notin {42, Break(42)} =>
              key_states'[KEY_L_SHIFT] = key_states[KEY_L_SHIFT]
<1> DEFINE code == CodeOf(curr_code)
           mapped == set1ToMapped(code)
           down == IsMake(curr_code)
<1>1. key_states' = ModifiersAfter(mapped, down)
  BY DEF handleUnknownKey, Decode
<1>2. /\ mapped = KEY_CAPS <=> code = 58
      /\ mapped = KEY_L_SHIFT <=> code = 42
  BY DEF set1ToMapped, KEY_CAPS, KEY_L_SHIFT, KEY_R_SHIFT, KEY_ENTER, Unremarkable
<1>3. /\ code = 58 /\ down <=> curr_code = 58
      /\ code = 42 /\ down <=> curr_code = 42
      /\ code = 42 /\ ~ down <=> curr_code = Break(42)
      /\ Break(42) # 42 /\ Break(42) # 58
  <2>1. curr_code \in 0 .. 255
    BY DEF TypeOK, Byte
  <2> HIDE DEF mapped
  <2>2. CASE curr_code < 128
    <3>1. curr_code % 128 = curr_code
      BY <2>1, <2>2
    <3> QED BY <2>1, <2>2, <3>1 DEF CodeOf, IsMake, Break
  <2>3. CASE ~ (curr_code < 128)
    <3>1. curr_code % 128 = curr_code - 128
      BY <2>1, <2>3
    <3> QED BY <2>1, <2>3, <3>1 DEF CodeOf, IsMake, Break
  <2> QED BY <2>2, <2>3
<1>4. /\ KEY_CAPS \in Modifiers /\ KEY_L_SHIFT \in Modifiers /\ KEY_CAPS # KEY_L_SHIFT
      /\ key_states \in [Modifiers -> BOOLEAN] /\ down \in BOOLEAN
  BY DEF Modifiers, KEY_CAPS, KEY_L_SHIFT, KEY_R_SHIFT, TypeOK, IsMake
<1>5. CASE mapped = KEY_CAPS
  <2>1. /\ key_states'[KEY_CAPS] = IF down THEN ~ key_states[KEY_CAPS] ELSE key_states[KEY_CAPS]
        /\ key_states'[KEY_L_SHIFT] = key_states[KEY_L_SHIFT]
    <3> HIDE DEF mapped, down
    <3> QED BY <1>1, <1>4, <1>5 DEF ModifiersAfter
  <2>2. code = 58
    BY <1>2, <1>5
  <2> HIDE DEF code, mapped, down
  <2> QED BY <1>3, <2>1, <2>2
<1>6. CASE mapped # KEY_CAPS
  <2>1. /\ key_states'[KEY_CAPS] = key_states[KEY_CAPS]
        /\ key_states'[KEY_L_SHIFT] = IF mapped = KEY_L_SHIFT THEN down
                                                              ELSE key_states[KEY_L_SHIFT]
    <3> HIDE DEF mapped, down
    <3> QED BY <1>1, <1>4, <1>6 DEF ModifiersAfter
  <2>2. code # 58
    BY <1>2, <1>6
  <2> HIDE DEF code, mapped, down
  <2> QED BY <1>2, <1>3, <1>4, <2>1, <2>2
<1> QED BY <1>5, <1>6

\* An ordinary key changes the modifiers as its event changes the counts.
LEMMA UnknownKeyInv ==
  ASSUME TypeOK, Inv, E0Inv, ModifierInv, handleUnknownKey
  PROVE  ModifierInv'
<1> DEFINE n == Len(fetched)
           Old(byte) == EventsUpTo(byte, n - 1)
           New(byte) == EventsUpTo(byte, n)
<1>1. /\ pc = "decode" /\ pc' = "key" /\ ~ after_e0 /\ UNCHANGED fetched
  BY DEF handleUnknownKey, NextIsKey, Decode
<1>2. /\ n \in Nat /\ n > 0 /\ curr_code = fetched[n]
      /\ n = 1 \/ fetched[n - 1] # E0
  <2>1. n \in Nat /\ n > 0 /\ curr_code = fetched[n]
    BY <1>1 DEF Inv, FetchInv, TypeOK
  <2>2. ~ (n > 1 /\ fetched[n - 1] = E0)
    BY <1>1 DEF E0Inv
  <2> QED BY <2>1, <2>2
<1>3. Applied = n - 1 /\ Applied' = n
  BY <1>1 DEF Applied
<1>4. ASSUME NEW byte
      PROVE  /\ curr_code = byte => New(byte) = Old(byte) \union {n}
             /\ curr_code # byte => New(byte) = Old(byte)
  BY <1>2, LastEvent
<1>5. ASSUME NEW byte
      PROVE  IsFiniteSet(Old(byte)) /\ Old(byte) \subseteq 1 .. n - 1 /\ n \notin Old(byte)
  <2>1. n - 1 \in Nat
    BY <1>2
  <2> QED BY <1>2, <2>1, EventsFinite
<1>6. /\ key_states[KEY_CAPS] <=> Cardinality(Old(58)) % 2 = 1
      /\ key_states[KEY_L_SHIFT] <=> \E i \in Old(42) : \A j \in Old(Break(42)) : j < i
  BY <1>3 DEF ModifierInv
<1>7. ASSUME NEW byte PROVE EventsUpTo(byte, Applied)' = New(byte)
  BY <1>1, <1>3 DEF EventsUpTo, FetchedEvents
<1>8. /\ key_states[KEY_CAPS] \in BOOLEAN /\ key_states[KEY_L_SHIFT] \in BOOLEAN
      /\ key_states'[KEY_CAPS] \in BOOLEAN /\ key_states'[KEY_L_SHIFT] \in BOOLEAN
  BY NextType, UnknownKeyEffect DEF TypeOK, Modifiers
<1> HIDE DEF Old, New
<1>9. key_states'[KEY_CAPS] <=> Cardinality(New(58)) % 2 = 1
  <2>1. CASE curr_code = 58
    <3>1. key_states'[KEY_CAPS] = ~ key_states[KEY_CAPS]
      BY <2>1, UnknownKeyEffect
    <3>2. New(58) = Old(58) \union {n}
      BY <1>4, <2>1
    <3>3. Cardinality(Old(58) \union {n}) % 2 = 1 <=> ~ (Cardinality(Old(58)) % 2 = 1)
      BY <1>5, Parity
    <3> QED BY <1>6, <3>1, <3>2, <3>3, Zenon
  <2>2. CASE curr_code # 58
    <3>1. key_states'[KEY_CAPS] = key_states[KEY_CAPS]
      BY <2>2, UnknownKeyEffect
    <3>2. New(58) = Old(58)
      BY <1>4, <2>2
    <3> QED BY <1>6, <3>1, <3>2, Zenon
  <2> QED BY <2>1, <2>2
<1>10. key_states'[KEY_L_SHIFT] <=> \E i \in New(42) : \A j \in New(Break(42)) : j < i
  <2>1. 42 # Break(42)
    BY DEF Break
  <2>2. CASE curr_code = 42
    <3>1. key_states'[KEY_L_SHIFT] = TRUE
      BY <2>2, UnknownKeyEffect
    <3>2. New(42) = Old(42) \union {n} /\ New(Break(42)) = Old(Break(42))
      BY <1>4, <2>1, <2>2
    <3>3. \A j \in Old(Break(42)) : j < n
      BY <1>2, <1>5
    <3> QED BY <3>1, <3>2, <3>3
  <2>3. CASE curr_code = Break(42)
    <3>1. key_states'[KEY_L_SHIFT] = FALSE
      BY <2>3, UnknownKeyEffect
    <3>2. New(42) = Old(42) /\ New(Break(42)) = Old(Break(42)) \union {n}
      BY <1>4, <2>1, <2>3
    <3>3. \A i \in Old(42) : ~ (n < i)
      BY <1>2, <1>5
    <3> QED BY <3>1, <3>2, <3>3
  <2>4. CASE curr_code \notin {42, Break(42)}
    <3>1. key_states'[KEY_L_SHIFT] = key_states[KEY_L_SHIFT]
      BY <2>4, UnknownKeyEffect
    <3>2. New(42) = Old(42) /\ New(Break(42)) = Old(Break(42))
      BY <1>4, <2>4
    <3> QED BY <1>6, <3>1, <3>2, Zenon
  <2> QED BY <2>2, <2>3, <2>4
<1>11. /\ EventsUpTo(58, Applied)' = New(58) /\ EventsUpTo(42, Applied)' = New(42)
       /\ EventsUpTo(Break(42), Applied)' = New(Break(42))
  BY <1>7
<1> QED BY <1>9, <1>10, <1>11, Zenon DEF ModifierInv

\* A key sends E0 only in front of another byte.
LEMMA StrokeE0 ==
  ASSUME TypeOK, NoKeyIsPrefix, E0Inv, KeyStroke
  PROVE  \A i \in 1 .. Len(typed') : typed'[i] = E0 => i < Len(typed') /\ typed'[i + 1] # E0
<1>1. PICK bytes \in Seq(Byte) :
        /\ Type(bytes)
        /\ \/ \E c \in Codes : bytes = <<c>> \/ bytes = <<Break(c)>>
           \/ \E c \in SpecialCodes : bytes = <<E0, c>> \/ bytes = <<E0, Break(c)>>
  BY Strokes
<1>2. ASSUME NEW c \in Codes \union SpecialCodes PROVE c # E0 /\ Break(c) # E0
  BY KeyboardAssumption DEF NoKeyIsPrefix, E0
<1>3. /\ Len(bytes) > 0
      /\ \A i \in 1 .. Len(bytes) : bytes[i] = E0 => i < Len(bytes) /\ bytes[i + 1] # E0
  <2>1. CASE \E c \in Codes : bytes = <<c>> \/ bytes = <<Break(c)>>
    BY <1>2, <2>1
  <2>2. CASE \E c \in SpecialCodes : bytes = <<E0, c>> \/ bytes = <<E0, Break(c)>>
    BY <1>2, <2>2
  <2> QED BY <1>1, <2>1, <2>2
<1>4. /\ Len(typed) \in Nat /\ Len(bytes) \in Nat
      /\ Len(typed') = Len(typed) + Len(bytes)
      /\ \A i \in 1 .. Len(typed) : typed'[i] = typed[i]
      /\ \A i \in 1 .. Len(bytes) : typed'[Len(typed) + i] = bytes[i]
  <2>1. typed' = typed \o bytes /\ typed \in Seq(Byte)
    BY <1>1 DEF Type, TypeOK
  <2> QED BY <2>1
<1> SUFFICES ASSUME NEW i \in 1 .. Len(typed'), typed'[i] = E0
             PROVE  i < Len(typed') /\ typed'[i + 1] # E0
  OBVIOUS
<1>5. CASE i <= Len(typed)
  <2>1. i < Len(typed) /\ typed[i + 1] # E0
    BY <1>4, <1>5 DEF E0Inv
  <2> QED BY <1>4, <2>1
<1>6. CASE i > Len(typed)
  <2> DEFINE j == i - Len(typed)
  <2>1. j \in 1 .. Len(bytes) /\ i = Len(typed) + j
    BY <1>4, <1>6
  <2> HIDE DEF j
  <2>2. j < Len(bytes) /\ bytes[j + 1] # E0
    BY <1>3, <1>4, <2>1
  <2>3. typed'[Len(typed) + (j + 1)] = bytes[j + 1] /\ Len(typed) + (j + 1) = i + 1
    BY <1>4, <2>1, <2>2
  <2> QED BY <1>4, <2>1, <2>2, <2>3
<1> QED BY <1>4, <1>5, <1>6

LEMMA StoreByteKey ==
  ASSUME TypeOK, KeyInv, StoreByte
  PROVE  KeyInv'
<1> DEFINE f == Len(fetched)
<1>1. /\ f \in Nat /\ pc = "store_byte" /\ pc' = "decode"
      /\ fetched' = Append(fetched, al) /\ UNCHANGED <<typed, after_e0, key_states>>
  BY DEF StoreByte, TypeOK
<1>2. /\ f' = f + 1 /\ DOMAIN fetched = 1 .. f /\ DOMAIN fetched' = 1 .. f + 1
      /\ \A i \in 1 .. f : fetched'[i] = fetched[i]
  BY <1>1 DEF TypeOK
<1>3. E0Inv'
  <2>1. after_e0 <=> f > 0 /\ fetched[f] = E0
    BY <1>1 DEF KeyInv, E0Inv, Fetching, Holding
  <2>2. after_e0' <=> f' > 1 /\ fetched'[f' - 1] = E0
    <3>1. ASSUME f > 0 PROVE fetched'[f] = fetched[f]
      <4>1. f \in 1 .. f
        BY <1>1, <3>1
      <4> QED BY <1>2, <4>1, Zenon
    <3>2. f' - 1 = f /\ (f > 0 <=> f' > 1)
      <4> HIDE DEF f
      <4> QED BY <1>1, <1>2
    <3> QED BY <1>1, <2>1, <3>1, <3>2, Zenon
  <2> QED BY <1>1, <2>2 DEF KeyInv, E0Inv, Fetching, Holding
<1>4. Applied = f /\ Applied' = f
  BY <1>1, <1>2 DEF Applied
<1>5. ASSUME NEW byte PROVE EventsUpTo(byte, Applied)' = EventsUpTo(byte, Applied)
  <2>1. ASSUME NEW i \in 1 .. f
        PROVE  (fetched'[i] = byte /\ (i = 1 \/ fetched'[i - 1] # E0))
                 <=> (fetched[i] = byte /\ (i = 1 \/ fetched[i - 1] # E0))
    <3>1. i = 1 \/ i - 1 \in 1 .. f
      BY <1>1
    <3> QED BY <1>2, <3>1
  <2> QED BY <1>1, <1>2, <1>4, <2>1 DEF EventsUpTo, FetchedEvents
<1>6. /\ EventsUpTo(58, Applied)' = EventsUpTo(58, Applied)
      /\ EventsUpTo(42, Applied)' = EventsUpTo(42, Applied)
      /\ EventsUpTo(Break(42), Applied)' = EventsUpTo(Break(42), Applied)
  BY <1>5
<1>7. ModifierInv'
  BY <1>1, <1>6, Zenon DEF KeyInv, ModifierInv
<1> QED BY <1>3, <1>7 DEF KeyInv

\* A byte is decoded: as the announcement of another, as a special key, as a
\* modifier or as a key that is none.
LEMMA DecodeKey ==
  ASSUME TypeOK, Inv, KeyInv, E0Prefix \/ handleE0Key \/ handleUnknownKey \/ PrintableKey
  PROVE  KeyInv'
<1> DEFINE f == Len(fetched)
<1>1. /\ pc = "decode" /\ f \in Nat /\ f > 0 /\ curr_code = fetched[f]
      /\ UNCHANGED <<typed, fetched>>
  BY DEF E0Prefix, handleE0Key, handleUnknownKey, PrintableKey, NextIsKey, Decode,
         TypeOK, Inv, FetchInv
<1>2. after_e0 <=> f > 1 /\ fetched[f - 1] = E0
  BY <1>1 DEF KeyInv, E0Inv
<1>3. pc' # "decode" /\ Applied = f - 1 /\ Applied' = f
  BY <1>1 DEF E0Prefix, handleE0Key, handleUnknownKey, PrintableKey, Decode, Applied
<1>4. CASE E0Prefix
  <2>1. /\ curr_code = E0 /\ after_e0' = TRUE /\ pc' = "load_index" /\ UNCHANGED key_states
    BY <1>4 DEF E0Prefix
  <2>2. E0Inv'
    BY <1>1, <2>1 DEF KeyInv, E0Inv, Fetching, Holding
  <2>3. ModifierInv'
    <3>1. E0 \notin {58, 42, Break(42)}
      BY DEF E0, Break
    <3> QED BY <1>1, <1>3, <2>1, <3>1, NoEvent DEF KeyInv
  <2> QED BY <2>2, <2>3 DEF KeyInv
<1>5. CASE handleE0Key
  <2>1. /\ pc' = "key" /\ after_e0 /\ after_e0' = FALSE /\ UNCHANGED key_states
    BY <1>5 DEF handleE0Key, Decode
  <2>2. fetched[f] # E0
    <3>1. /\ f - 1 \in 1 .. Len(typed) /\ typed[f - 1] = E0
          /\ typed[f] = fetched[f]
      <4>1. /\ taken \in Nat /\ Len(typed) \in Nat /\ f <= taken /\ taken <= Len(typed)
            /\ \A i \in 1 .. f : fetched[i] = typed[i]
        BY DEF TypeOK, Inv, RingInv
      <4> QED BY <1>1, <1>2, <2>1, <4>1
    <3>2. typed[(f - 1) + 1] # E0
      BY <3>1 DEF KeyInv, E0Inv
    <3> QED BY <1>1, <3>1, <3>2
  <2>3. E0Inv'
    BY <1>1, <2>1, <2>2 DEF KeyInv, E0Inv, Fetching, Holding
  <2>4. ModifierInv'
    BY <1>1, <1>2, <1>3, <2>1, NoEvent DEF KeyInv
  <2> QED BY <2>3, <2>4 DEF KeyInv
<1>6. CASE handleUnknownKey \/ PrintableKey
  <2>1. /\ pc' = "key" /\ ~ after_e0 /\ after_e0' = FALSE /\ curr_code # E0
    BY <1>6 DEF handleUnknownKey, PrintableKey, NextIsKey, Decode
  <2>2. E0Inv'
    BY <1>1, <2>1 DEF KeyInv, E0Inv, Fetching, Holding
  <2>3. CASE handleUnknownKey
    BY <2>2, <2>3, UnknownKeyInv DEF KeyInv
  <2>4. CASE PrintableKey
    <3>1. CodeOf(curr_code) \in Printable /\ UNCHANGED key_states
      BY <2>4 DEF PrintableKey, Decode
    <3>2. CodeOf(58) \notin Printable /\ CodeOf(42) \notin Printable
          /\ CodeOf(Break(42)) \notin Printable
      BY DEF CodeOf, Break, Printable
    <3>3. curr_code \notin {58, 42, Break(42)}
      BY <3>1, <3>2
    <3>4. ModifierInv'
      BY <1>1, <1>3, <3>1, <3>3, NoEvent DEF KeyInv
    <3> QED BY <2>2, <3>4 DEF KeyInv
  <2> QED BY <1>6, <2>3, <2>4
<1> QED BY <1>4, <1>5, <1>6

LEMMA NextKey ==
  ASSUME TypeOK, Inv, KeyInv, NoKeyIsPrefix, [Next]_vars
  PROVE  KeyInv'
<1>1. CASE KeyStroke
  <2>1. UNCHANGED <<pc, decoded>>
    BY <1>1, Strokes DEF Type
  <2>2. E0Inv'
    BY <1>1, <2>1, StrokeE0 DEF KeyInv, E0Inv, decoded
  <2>3. ModifierInv'
    BY <2>1, ModifierFrame DEF KeyInv, decoded, Applied
  <2> QED BY <2>2, <2>3 DEF KeyInv
<1>2. CASE keyboardIsr \/ LoadIndex \/ StoreIndex \/ LoadByte \/ UNCHANGED vars
  <2>1. UNCHANGED <<typed, decoded>> /\ (pc' = pc \/ {pc, pc'} \subseteq Fetching)
    BY <1>2 DEF keyboardIsr, LoadIndex, StoreIndex, LoadByte, vars, Fetching, Holding
  <2>2. E0Inv'
    BY <2>1 DEF KeyInv, E0Inv, decoded, Fetching, Holding
  <2>3. ModifierInv'
    BY <2>1, ModifierFrame DEF KeyInv, decoded, Applied, Fetching, Holding
  <2> QED BY <2>2, <2>3 DEF KeyInv
<1>3. CASE Poll
  <2>1. UNCHANGED <<typed, decoded>> /\ pc = "poll" /\ pc' = "load_index" /\ ~ after_e0
    BY <1>3 DEF Poll, Inv, PrefixInv, Fetching, Holding
  <2>2. E0Inv'
    <3>1. Len(fetched) = 0 \/ fetched[Len(fetched)] # E0
      BY <2>1 DEF KeyInv, E0Inv, Fetching, Holding
    <3> QED BY <2>1, <3>1 DEF KeyInv, E0Inv, decoded, Fetching, Holding, TypeOK
  <2>3. ModifierInv'
    BY <2>1, ModifierFrame DEF KeyInv, decoded, Applied
  <2> QED BY <2>2, <2>3 DEF KeyInv
<1>4. CASE StoreByte
  BY <1>4, StoreByteKey
<1>5. CASE E0Prefix \/ handleE0Key \/ handleUnknownKey \/ PrintableKey
  BY <1>5, DecodeKey
<1>6. CASE \/ kShellStart \/ \E r \in Readers : Call(r)
           \/ CommandAnswered \/ CommandIgnored \/ InitReady \/ KeyForChar \/ KeyForLine
  <2>1. /\ UNCHANGED <<typed, decoded>>
        /\ pc \notin Fetching \union {"decode"} /\ pc' \notin Fetching \union {"decode"}
    BY <1>6 DEF kShellStart, Call, CommandAnswered, CommandIgnored, InitReady, KeyForChar,
                KeyForLine, AfterInit, Following, Commands, Fetching, Holding
  <2>2. E0Inv'
    BY <2>1 DEF KeyInv, E0Inv, decoded
  <2>3. ModifierInv'
    BY <2>1, ModifierFrame DEF KeyInv, decoded, Applied
  <2> QED BY <2>2, <2>3 DEF KeyInv
<1> QED BY <1>1, <1>2, <1>3, <1>4, <1>5, <1>6 DEF Next, Kernel

LEMMA InitKey == ASSUME Init PROVE KeyInv
<1>1. Len(typed) = 0 /\ Len(fetched) = 0 /\ DOMAIN fetched = {} /\ pc = "idle" /\ ~ after_e0
  BY DEF Init
<1>2. \A byte : EventsUpTo(byte, Applied) = {}
  BY <1>1 DEF EventsUpTo, FetchedEvents
<1>3. Cardinality({}) % 2 # 1
  BY FS_EmptySet
<1>4. ~ key_states[KEY_CAPS] /\ ~ key_states[KEY_L_SHIFT]
  BY DEF Init, Modifiers
<1>5. ModifierInv
  BY <1>2, <1>3, <1>4, Zenon DEF ModifierInv
<1> QED BY <1>1, <1>5 DEF KeyInv, E0Inv, Fetching, Holding

\* What holds until reading is disturbed.
KeyMeaning == disturbed \/ (Inv /\ KeyInv)

LEMMA KeyMeaningCorrect ==
  ASSUME MaxBacklog < QUEUE_SIZE, NoKeyIsPrefix PROVE Spec => []KeyMeaning
<1>1. ASSUME Init PROVE KeyMeaning
  BY <1>1, InitInv, InitKey DEF KeyMeaning
<1>2. ASSUME TypeOK, KeyMeaning, [Next]_vars PROVE KeyMeaning'
  <2>1. CASE disturbed \/ disturbed'
    BY <1>2, <2>1, DisturbedForEver DEF KeyMeaning
  <2>2. CASE ~ disturbed /\ ~ disturbed'
    BY <1>2, <2>2, NextInv, NextKey DEF KeyMeaning
  <2> QED BY <2>1, <2>2
<1> QED BY <1>1, <1>2, TypeCorrect, PTL DEF Spec

\* What was fetched is what was typed.
LEMMA EventsTyped == ASSUME TypeOK, Inv, NEW byte PROVE FetchedEvents(byte) = Events(byte)
<1>1. DOMAIN fetched = 1 .. Len(fetched) /\ Len(fetched) \in Nat
  BY DEF TypeOK
<1>2. ASSUME NEW i \in 1 .. Len(fetched)
      PROVE  fetched[i] = typed[i] /\ (i # 1 => fetched[i - 1] = typed[i - 1])
  BY <1>1 DEF Inv, RingInv
<1> QED BY <1>1, <1>2 DEF FetchedEvents, Events

\* Shift and Caps Lock follow their keys: no press and no release is lost, counted
\* twice or made up by handleUnknownKey, whichever reader takes the bytes out, when
\* the ring is larger than what waits in it and no release looks like the byte E0,
\* until the handler has changed AL in use or an empty ring was read.
THEOREM ModifiersExact ==
  ASSUME MaxBacklog < QUEUE_SIZE, NoKeyIsPrefix
  PROVE  Spec => []ModifiersFollowKeys
<1>1. ASSUME TypeOK, KeyMeaning PROVE ModifiersFollowKeys
  <2> SUFFICES ASSUME Inv, KeyInv, pc # "decode"
               PROVE  /\ key_states[KEY_CAPS] <=> Cardinality(Events(58)) % 2 = 1
                      /\ key_states[KEY_L_SHIFT] <=>
                           \E i \in Events(42) : \A j \in Events(Break(42)) : j < i
    BY <1>1 DEF ModifiersFollowKeys, KeyMeaning
  <2>1. ASSUME NEW byte PROVE EventsUpTo(byte, Applied) = Events(byte)
    <3>1. Applied = Len(fetched) /\ DOMAIN fetched = 1 .. Len(fetched) /\ Len(fetched) \in Nat
      BY <1>1 DEF Applied, TypeOK
    <3>2. EventsUpTo(byte, Applied) = FetchedEvents(byte)
      BY <3>1 DEF EventsUpTo, FetchedEvents
    <3> QED BY <1>1, <3>2, EventsTyped
  <2>2. /\ EventsUpTo(58, Applied) = Events(58) /\ EventsUpTo(42, Applied) = Events(42)
        /\ EventsUpTo(Break(42), Applied) = Events(Break(42))
    BY <2>1
  <2> QED BY <2>2, Zenon DEF KeyInv, ModifierInv
<1> QED BY <1>1, TypeCorrect, KeyMeaningCorrect, PTL

=============================================================================
