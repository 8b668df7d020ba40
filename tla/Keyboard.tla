------------------------------ MODULE Keyboard ------------------------------
(***************************************************************************)
(* Keyboard input (src/src/keyboard_io.c with keyboardIsr of src/src/isr.s *)
(* and the loop of src/src/kshell.c): the interrupt handler of IRQ 1 puts  *)
(* scancodes into a ring, the kernel takes them out, one or two per key,   *)
(* and keeps the state of the modifier keys.                               *)
(*                                                                         *)
(* Taking a byte out of the ring is four instructions, and keyboardIsr     *)
(* changes the register AL under them when it comes in between.  kbGetChar *)
(* holds interrupts off while it takes a key out, kbGetLine does not.  And *)
(* the second byte of a special key is taken out whether or not it has     *)
(* come.  The variable disturbed records that one of the two has happened: *)
(* it decides nothing, and what holds until then is stated with its help.  *)
(***************************************************************************)
EXTENDS Integers, Sequences, FiniteSets

CONSTANTS
  QUEUE_SIZE,   \* cells of scancode_queue (256: an index is a uint8_t)
  Codes,        \* the scancodes of the keys typed ...
  SpecialCodes, \* ... and of those that follow the byte E0
  Readers,      \* who reads: "line" (kbGetLine), "char" (kbGetChar)
  MaxBytes,     \* bound on the bytes of a behaviour
  MaxBacklog    \* bound on the bytes typed and not read

ASSUME KeyboardAssumption ==
  /\ QUEUE_SIZE \in 2 .. 256
  /\ Codes \subseteq 0 .. 127
  /\ SpecialCodes \subseteq 0 .. 127
  /\ Readers \subseteq {"line", "char"}
  /\ MaxBytes \in Nat
  /\ MaxBacklog \in Nat

VARIABLES
  disturbed,            \* whether AL was changed in use or an empty ring was read
  typed,                \* every byte the keyboard has sent
  taken,                \* how many of them the handler has taken
  flag,                 \* the interrupt flag
  keyboard_initialized,
  scancode_queue, queue_widx, queue_ridx,
  al,                   \* the register
  pc, reader,           \* where the kernel is, and for whom
  curr_code,            \* the byte taken out of the ring
  after_e0,             \* whether it follows an E0
  key_states,           \* of the modifier keys, the only ones that are read
  key,                  \* the key decoded last
  fetched               \* every byte taken out of the ring so far

ring    == <<scancode_queue, queue_widx, queue_ridx>>
decoded == <<curr_code, after_e0, key_states, key, fetched>>
vars    == <<disturbed, typed, taken, flag, keyboard_initialized, ring, al, pc, reader, decoded>>

Byte  == 0 .. 255
Index == 0 .. QUEUE_SIZE - 1

KEY_L_SHIFT == 128
KEY_R_SHIFT == 139
KEY_CAPS    == 96
KEY_ENTER   == 108

Modifiers == {KEY_L_SHIFT, KEY_R_SHIFT, KEY_CAPS}

\* A mapped code that the code compares with nothing.
Unremarkable == -1

\* The byte that announces a special key, and what keyboardIsr leaves in AL.
E0     == 224
AL_EOI == 160

Break(code) == code + 128

IsMake(byte) == byte < 128

CodeOf(byte) == byte % 128

-----------------------------------------------------------------------------
(* Tables *)

\* The scancodes for which scancode_set1 has a character other than '?'.
Printable == (2 .. 13) \union (16 .. 27) \union (30 .. 41) \union (43 .. 53)
               \union {55, 57} \union (71 .. 83)

\* Row 0x52 of the table, the 0 of the keypad, is the same as Enter's.
set1ToMapped(code) ==
  CASE code \in {28, 82} -> KEY_ENTER
    [] code = 42         -> KEY_L_SHIFT
    [] code = 54         -> KEY_R_SHIFT
    [] code = 58         -> KEY_CAPS
    [] OTHER             -> Unremarkable

\* Up, left, right and down have rows of their own.
specialToMapped(code) ==
  CASE code = 72 -> 140
    [] code = 75 -> 168
    [] code = 77 -> 170
    [] code = 80 -> 169
    [] OTHER     -> Unremarkable

MappedKey == [mapped_code : Nat \union {Unremarkable}, scancode : 0 .. 127,
              e0_key : BOOLEAN, printable : BOOLEAN, down_stroke : BOOLEAN,
              capitalized : BOOLEAN]

NoKey == [mapped_code |-> 0, scancode |-> 0, e0_key |-> FALSE, printable |-> FALSE,
          down_stroke |-> FALSE, capitalized |-> FALSE]

-----------------------------------------------------------------------------
(* The keyboard *)

\* mutated form: the index is wider than a byte
Successor_Wide(index) == index + 1

\* mutated form: one cell of the ring is not used
Successor_Short(index) == (index + 1) % (QUEUE_SIZE - 1)

Successor(index) == (index + 1) % QUEUE_SIZE

Unread == Len(typed) - Len(fetched)

\* A key goes down or up: one byte, or two for a special key.
Type(bytes) ==
  /\ keyboard_initialized
  /\ Len(typed) + Len(bytes) <= MaxBytes
  /\ Unread + Len(bytes) <= MaxBacklog
  /\ typed' = typed \o bytes
  /\ UNCHANGED <<disturbed, taken, flag, keyboard_initialized, ring, al, pc, reader, decoded>>

KeyStroke == \/ \E code \in Codes : Type(<<code>>) \/ Type(<<Break(code)>>)
             \/ \E code \in SpecialCodes : Type(<<E0, code>>) \/ Type(<<E0, Break(code)>>)

\* The instructions that find in AL what the one before them put there.
Holding == {"store_index", "load_byte", "store_byte"}

Fetching == {"load_index"} \union Holding

\* mutated form: the index is advanced before the byte is stored
keyboardInterruptHandler_AdvanceFirst(byte) ==
  /\ scancode_queue' = [scancode_queue EXCEPT ![Successor(queue_widx)] = byte]
  /\ queue_widx' = Successor(queue_widx)

keyboardInterruptHandler(byte) ==
  /\ scancode_queue' = [scancode_queue EXCEPT ![queue_widx] = byte]
  /\ queue_widx' = Successor(queue_widx)

\* AL is restored by popal and then used for the end of interrupt.
keyboardIsr ==
  /\ flag
  /\ taken < Len(typed)
  /\ taken' = taken + 1
  /\ keyboardInterruptHandler(typed[taken + 1])
  /\ al' = AL_EOI
  /\ disturbed' = (disturbed \/ pc \in Holding)
  /\ UNCHANGED <<typed, flag, keyboard_initialized, queue_ridx, pc, reader, decoded>>

-----------------------------------------------------------------------------
(* Initialisation *)

\* What follows when kbInit returns: a reader that called it goes on to read.
AfterInit == IF reader = "shell" THEN "idle" ELSE "poll"

Commands == {"reset", "echo", "set", "get"}

Following(command) == CASE command = "reset" -> "echo"
                        [] command = "echo"  -> "set"
                        [] command = "set"   -> "get"
                        [] command = "get"   -> "ready"

\* kbGetLine or kbGetChar is called.
Call(r) ==
  /\ pc = "idle"
  /\ reader' = r
  /\ IF keyboard_initialized THEN pc' = "poll" /\ UNCHANGED flag
                             ELSE pc' = "reset" /\ flag' = FALSE
  /\ UNCHANGED <<disturbed, typed, taken, keyboard_initialized, ring, al, decoded>>

\* kShellStart calls kbInit before anything is read.
kShellStart ==
  /\ pc = "idle"
  /\ reader = "none"
  /\ reader' = "shell"
  /\ pc' = "reset"
  /\ flag' = FALSE
  /\ UNCHANGED <<disturbed, typed, taken, keyboard_initialized, ring, al, decoded>>

\* ps2SendSubCommand enables interrupts when the keyboard has answered ...
CommandAnswered ==
  /\ pc \in Commands
  /\ flag' = TRUE
  /\ pc' = Following(pc)
  /\ UNCHANGED <<disturbed, typed, taken, keyboard_initialized, ring, al, reader, decoded>>

\* ... and not when it has not; kbInit gives up when there is no echo.
CommandIgnored ==
  /\ pc \in Commands
  /\ flag' = FALSE
  /\ pc' = IF pc = "echo" THEN AfterInit ELSE Following(pc)
  /\ UNCHANGED <<disturbed, typed, taken, keyboard_initialized, ring, al, reader, decoded>>

InitReady ==
  /\ pc = "ready"
  /\ keyboard_initialized' = TRUE
  /\ flag' = TRUE
  /\ pc' = AfterInit
  /\ UNCHANGED <<disturbed, typed, taken, ring, al, reader, decoded>>

-----------------------------------------------------------------------------
(* Taking a byte out of the ring: scancode_queue[queue_ridx++] *)

kbHasNewInput == queue_ridx # queue_widx

\* kbGetChar disables interrupts before it takes a key out.
Poll ==
  /\ pc = "poll"
  /\ kbHasNewInput
  /\ flag' = IF reader = "char" THEN FALSE ELSE flag
  /\ pc' = "load_index"
  /\ UNCHANGED <<disturbed, typed, taken, keyboard_initialized, ring, al, reader, decoded>>

\* Behind E0 the ring is not looked at, and may be empty.
LoadIndex ==
  /\ pc = "load_index"
  /\ al' = queue_ridx
  /\ disturbed' = (disturbed \/ ~ kbHasNewInput)
  /\ pc' = "store_index"
  /\ UNCHANGED <<typed, taken, flag, keyboard_initialized, ring, reader, decoded>>

StoreIndex ==
  /\ pc = "store_index"
  /\ queue_ridx' = Successor(al)
  /\ pc' = "load_byte"
  /\ UNCHANGED <<disturbed, typed, taken, flag, keyboard_initialized, scancode_queue,
                 queue_widx, al, reader, decoded>>

LoadByte ==
  /\ pc = "load_byte"
  /\ al' = scancode_queue[al % QUEUE_SIZE]
  /\ pc' = "store_byte"
  /\ UNCHANGED <<disturbed, typed, taken, flag, keyboard_initialized, ring, reader, decoded>>

StoreByte ==
  /\ pc = "store_byte"
  /\ curr_code' = al
  /\ fetched' = Append(fetched, al)
  /\ pc' = "decode"
  /\ UNCHANGED <<disturbed, typed, taken, flag, keyboard_initialized, ring, al, reader,
                 after_e0, key_states, key>>

-----------------------------------------------------------------------------
(* From bytes to keys *)

\* The key is decoded: mapped says which it is, states what it does to the
\* modifiers.
Decode(mapped, is_e0, printable, states) ==
  /\ key_states' = states
  /\ key' = [mapped_code |-> mapped,
             scancode    |-> CodeOf(curr_code),
             e0_key      |-> is_e0,
             printable   |-> printable,
             down_stroke |-> IsMake(curr_code),
             capitalized |-> printable /\ IsMake(curr_code) /\ \E m \in Modifiers : states[m]]
  /\ after_e0' = FALSE
  /\ pc' = "key"
  /\ UNCHANGED <<disturbed, typed, taken, flag, keyboard_initialized, ring, al, reader,
                 curr_code, fetched>>

\* The byte behind E0 is taken out at once, whether or not it has come.
E0Prefix ==
  /\ pc = "decode"
  /\ ~ after_e0
  /\ curr_code = E0
  /\ after_e0' = TRUE
  /\ pc' = "load_index"
  /\ UNCHANGED <<disturbed, typed, taken, flag, keyboard_initialized, ring, al, reader,
                 curr_code, key_states, key, fetched>>

\* mutated form: the table of the ordinary keys is used
handleE0Key_Unmapped ==
  /\ pc = "decode"
  /\ after_e0
  /\ Decode(set1ToMapped(CodeOf(curr_code)), TRUE, FALSE, key_states)

\* No special key is a modifier.
handleE0Key ==
  /\ pc = "decode"
  /\ after_e0
  /\ Decode(specialToMapped(CodeOf(curr_code)), TRUE, FALSE, key_states)

\* mutated form: Caps Lock changes on its way up as well
ModifiersAfter_BothWays(mapped, down) ==
  IF mapped = KEY_CAPS THEN [key_states EXCEPT ![KEY_CAPS] = ~ @]
  ELSE [m \in Modifiers |-> IF m = mapped THEN down ELSE key_states[m]]

\* Caps Lock changes on its way down, Shift follows its key.
ModifiersAfter(mapped, down) ==
  IF mapped = KEY_CAPS
  THEN [key_states EXCEPT ![KEY_CAPS] = IF down THEN ~ @ ELSE @]
  ELSE [m \in Modifiers |-> IF m = mapped THEN down ELSE key_states[m]]

NextIsKey == pc = "decode" /\ ~ after_e0 /\ curr_code # E0

handleUnknownKey ==
  /\ NextIsKey
  /\ CodeOf(curr_code) \notin Printable
  /\ LET mapped == set1ToMapped(CodeOf(curr_code))
     IN  Decode(mapped, FALSE, FALSE, ModifiersAfter(mapped, IsMake(curr_code)))

\* The table gives no printable key the code of a modifier.
PrintableKey ==
  /\ NextIsKey
  /\ CodeOf(curr_code) \in Printable
  /\ Decode(set1ToMapped(CodeOf(curr_code)), FALSE, TRUE, key_states)

-----------------------------------------------------------------------------
(* The readers' loops; what kbGetLine does to its buffer is left out *)

\* mutated form: interrupts stay disabled
KeyForChar_NoSti ==
  /\ pc = "key"
  /\ reader = "char"
  /\ pc' = IF key.printable /\ key.down_stroke THEN "idle" ELSE "poll"
  /\ UNCHANGED <<disturbed, typed, taken, flag, keyboard_initialized, ring, al, reader, decoded>>

KeyForChar ==
  /\ pc = "key"
  /\ reader = "char"
  /\ flag' = TRUE
  /\ pc' = IF key.printable /\ key.down_stroke THEN "idle" ELSE "poll"
  /\ UNCHANGED <<disturbed, typed, taken, keyboard_initialized, ring, al, reader, decoded>>

KeyForLine ==
  /\ pc = "key"
  /\ reader = "line"
  /\ pc' = IF key.down_stroke /\ key.mapped_code = KEY_ENTER THEN "idle" ELSE "poll"
  /\ UNCHANGED <<disturbed, typed, taken, flag, keyboard_initialized, ring, al, reader, decoded>>

-----------------------------------------------------------------------------

Init == /\ disturbed = FALSE
        /\ typed = <<>>
        /\ taken = 0
        /\ flag \in BOOLEAN
        /\ keyboard_initialized = FALSE
        /\ scancode_queue = [i \in Index |-> 0]
        /\ queue_widx = 0
        /\ queue_ridx = 0
        /\ al = 0
        /\ pc = "idle"
        /\ reader = "none"
        /\ curr_code = 0
        /\ after_e0 = FALSE
        /\ key_states = [m \in Modifiers |-> FALSE]
        /\ key = NoKey
        /\ fetched = <<>>

Kernel == \/ kShellStart
          \/ \E r \in Readers : Call(r)
          \/ CommandAnswered \/ CommandIgnored \/ InitReady
          \/ Poll \/ LoadIndex \/ StoreIndex \/ LoadByte \/ StoreByte
          \/ E0Prefix \/ handleE0Key \/ handleUnknownKey \/ PrintableKey
          \/ KeyForChar \/ KeyForLine

Next == KeyStroke \/ keyboardIsr \/ Kernel

Spec == Init /\ [][Next]_vars

\* Interrupts are taken, and the kernel, whose shell reads line after line, goes
\* on.  Nothing makes anybody type.
Fairness == WF_vars(keyboardIsr) /\ WF_vars(Kernel)

FairSpec == Spec /\ Fairness

-----------------------------------------------------------------------------
(* Properties *)

Points == {"idle", "poll", "decode", "key", "ready"} \union Commands \union Fetching

\* The variables of keyboard_io.c keep their types.
TypeOK ==
  /\ disturbed \in BOOLEAN
  /\ typed \in Seq(Byte)
  /\ taken \in Nat
  /\ flag \in BOOLEAN
  /\ keyboard_initialized \in BOOLEAN
  /\ scancode_queue \in [Index -> Byte]
  /\ queue_widx \in Index
  /\ queue_ridx \in Index
  /\ al \in Byte
  /\ pc \in Points
  /\ reader \in {"none", "shell", "line", "char"}
  /\ curr_code \in Byte
  /\ after_e0 \in BOOLEAN
  /\ key_states \in [Modifiers -> BOOLEAN]
  /\ key \in MappedKey
  /\ fetched \in Seq(Byte)

\* The bytes taken out of the ring are those the keyboard sent, each once and in
\* their order, however the interrupts fall.
FIFO == \E n \in 0 .. taken : fetched = SubSeq(typed, 1, n)

\* They are, whichever instructions of kbGetChar and kbGetLine the bytes come
\* between, until keyboardIsr has changed AL in use or an empty ring was read.
UndisturbedFIFO == ~ disturbed => FIFO

\* Until then, kbHasNewInput says whether there is a byte in the ring that was not
\* taken out: the indices never meet while bytes are waiting.
InputVisible ==
  ~ disturbed /\ pc \notin {"load_byte", "store_byte"} =>
    (kbHasNewInput <=> Len(fetched) < taken)

\* The bytes sent so far that are the event of an ordinary key, of those whose
\* turn to be decoded has come.
Events(byte) ==
  {i \in DOMAIN fetched : typed[i] = byte /\ (i = 1 \/ typed[i - 1] # E0)}

\* Until then, and between keys, Caps Lock is on when its key has sent an odd
\* number of presses, and Shift is held when its key has gone down since it last
\* went up: no event of theirs was lost, counted twice or made up.
ModifiersFollowKeys ==
  ~ disturbed /\ pc \in {"idle", "poll", "key"} =>
    /\ key_states[KEY_CAPS] <=> Cardinality(Events(58)) % 2 = 1
    /\ key_states[KEY_L_SHIFT] <=>
         \E i \in Events(42) : \A j \in Events(Break(42)) : j < i

\* A special key is the key whose two bytes the keyboard sent (keyboard_io.c:115:
\* keys from all scancode sets will map to a byte).
SpecialKeysMapped ==
  pc = "key" /\ key.e0_key =>
    /\ Len(fetched) <= Len(typed)
    /\ typed[Len(fetched) - 1] = E0
    /\ key.mapped_code = specialToMapped(CodeOf(typed[Len(fetched)]))

\* It is, also when the handler comes between the fetches of its two bytes, as long
\* as the second is in the ring when handleE0Key takes it out.
UndisturbedSpecialKeys == ~ disturbed => SpecialKeysMapped

\* Every byte the keyboard sends is read in the end, or reading was disturbed: the
\* cli of kbGetChar, of kbInit and of the commands is always undone.
EveryByteRead ==
  \A n \in 1 .. MaxBytes : Len(typed) >= n ~> Len(fetched) >= n \/ disturbed
=============================================================================
