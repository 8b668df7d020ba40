# A verification project for PalleyOS

PalleyOS is a 32-bit x86 kernel of about 4000 lines of C and assembly. It runs
on one processor, has no processes yet, and meets concurrency in one form only:
an interrupt may come between any two instructions while the interrupt flag is
set. What makes it hard is

* code and interrupt handlers that share tables, counters, a ring and even a
  register, protected by `cli`/`sti` pairs that are not always pairs;
* arithmetic on addresses and sizes of 8, 31 and 32 bits;
* data structures that are only right after a sequence of calls of a certain
  kind: the frame map, the heap's list, the ring of scancodes.

All paths below are relative to the repository (`src/memory.c` is the kernel's
`src/` directory).

## 1. Inventory

| Component | State | Operations | Talks to | What makes it correct |
|---|---|---|---|---|
| Demand paging, `src/memory.c`, `src/boot.s` | page directory, frame map, table of RAM regions | load the memory map, set up paging, handle a page fault | the processor (fault, retry), GRUB (map) | no two pages share a frame, frames are real memory, nothing moves, a store that faulted is performed; a page is a private cell |
| System timer, `src/timer/timer.c`, `PIT.s` | 50 counters, sleep counter, `pit_initialized` | the IRQ 0 handler; add, read, reset, deactivate a counter; sleep; initialise | interrupt table, interrupt controller, interrupt flag | counts are exact, sleeps lose a tick at most and end, ticks are served, no tick reaches a vector that is not ready |
| Kernel heap, `src/stdlib/kheap.c` | list of headers in memory | alloc, aligned alloc, realloc, free, compaction | its callers, paging (first touch of a page) | blocks and headers are disjoint, allocated nodes are the blocks in use, free neighbours are merged, calls return |
| Keyboard, `src/keyboard_io.c`, `src/isr.s` | ring of 256 scancodes, two indices, modifier states | the IRQ 1 handler; decode a key; read a character or a line; initialise | interrupt flag, controller, terminal, shell | bytes are read once and in order, a full ring loses nothing, keys are decoded from their own bytes, modifiers follow their keys |
| Shell and line editor, `kshell.c`, `kbGetLine` | line buffer, index, size | insert, delete, move, hand over the line | keyboard, terminal | buffer and screen agree, the buffer is not overrun, Enter hands over what was typed |
| Terminal, `src/stdlib/tio.c` | ten pages of cells, cursor, view, the display's memory | write, scroll, shift a line, move the cursor | VGA memory | the display shows the view, moving the view moves no text, the view stays in the buffer |
| Interrupt table, `src/idt.c`, `src/pic.c` | 256 vectors, masks | install a handler, remap, mask | every driver | what is unmasked has a handler |
| Disk driver, `src/ata.c` | table of drives, registers of the drive | identify, read, write | ports, timer (`pitSleep`), file system | a word is moved only when the drive asks for it, the drive knows how many blocks are meant, what is written is read again, polling ends |
| File system, `src/sknyfs.c` (not built) | allocation map, file map | format, create, search | disk driver | no chunk belongs to two files or to none, a file that is there is not touched, files are found by name |
| Strings and printing, `kstdlib.c`, `kstdio.c` | none | pure functions | everybody | they compute what their comments say |
| Boot order, `src/kernel.c` | - | initialise all of the above | all | nothing is used before it is ready |
| Exceptions, GDT, system call, user mode, serial port, CPUID, ACPI, PCI | static tables, ports | print, stop, load registers | - | - |

`ide.c` is an older copy of `ata.c` that `build-project` does not compile.

The hard behaviours, each with its line and the property that watches it, are
the hazards of `PROJECT.json`. How the parts meet: interrupts come between the
instructions of the timer's and the keyboard's functions (`PitTimer`, `Keyboard`);
a store of a program meets the page fault handler (`Paging`); the shell's line
editor drives the terminal by calls (`Shell` composes `Terminal`); the driver and
the drive work side by side (`Ata`); the file system calls a disk that may fail or
a machine that may stop (`SknyFS`).

## 2. Modules

| Module | Models |
|---|---|
| `VirtualMemory` | the promise of paging: a page is a cell, a store changes one cell |
| `Paging`, `MCPaging`, `PagingProofs` | `memory.c` with the processor's faults; its instances; its proofs |
| `PitTimer` | `timer.c`, the entry of `idt.c` for IRQ 0, the interrupt flag |
| `PitTimerHistory`, `MCPitTimer`, `PitTimerProofs` | `PitTimer` with a record of the ticks served; its instance; the proofs of both |
| `Allocator` | the promise of the heap: the blocks handed out share no byte, and come and go one at a time |
| `KHeap`, `MCKHeap`, `KHeapProofs` | `kheap.c`; its instances; its proofs |
| `Keyboard`, `MCKeyboard`, `KeyboardProofs` | the ring, the decoding and the readers of `keyboard_io.c`, `keyboardIsr`; its instances; its proofs |
| `LineBuffer` | the promise of a line editor: a text and a place in it |
| `Terminal` | `tio.c` as operators on a record of its globals |
| `Shell`, `MCShell`, `ShellProofs` | `kShellStart` with `kbGetLine` over `Terminal`; its instance; its proofs |
| `ExtentStore` | the promise of the disk driver: what is put under a number is read there |
| `Ata`, `MCAta`, `AtaProofs` | `ata.c` with the drive it talks to; its instance; its proofs |
| `SknyFS`, `MCSknyFS`, `SknyFSProofs` | `sknyfs.c` over a disk that fails and a machine that stops; its instance; its proofs |
| `KStd`, `KStdChecks` | `kstdlib.c` and `kstdio.c` as operators; what they compute, compared with reference definitions |
| `NumberLemmas` | facts about division, remainders and least numbers, and induction over the rounds of a loop, that the proofs share |

Names of the code are kept. A definition `X_Word` whose comment begins with
"mutated form" is `X` with a plausible mistake; it is used by nothing in the
module, and serves to confirm that a property notices the mistake.

### 2.1 Paging

Addresses are numbers modulo `AddrMod` (2^32), a frame is `FRAME_SIZE` of them,
and the content of a frame is one value. `multiboot_info` is the map of this
boot; `LoadDescriptor` is one turn of the loop that copies its RAM entries, and
drops their high words (`RegionOf`). `setupPaging` maps frame 0 only. From then on
`Issue` is a program arriving at a store, `Commit` the store itself when its page
is present, and `handle_page_fault` what happens when it is not; the processor
then executes the same store again. The nested loops of the handler are the
first free slot in the lexicographic order of region and frame (`FirstFreeSlot`),
over the slots that the handler's own arithmetic yields (`FrameStart`,
`FitsNoFrame`, `FrameCount`). The handler is one step, although its gate is
a trap gate (`exceptions.c:154`) and leaves interrupts enabled: the handlers of interrupts touch
counters and the ring of scancodes, which are mapped, and nothing of paging. Loading, which nothing else
watches, is a step per descriptor. `RunOutOfMemory` is `while (1)`.

The refinement mapping to `VirtualMemory` takes a page to the content of the
frame it is mapped to, and to `Garbage` when it has none: frames are not cleared,
and a page shows what the frame held before, which is `Garbage` as long as no
frame is handed out twice. That last clause is where the refinement needs
`UnusedUntouched`.

Bounds of the run: 8 frames of 8 addresses; five pages, page 0 among them;
two values; `frame_count` counts modulo 4. Four maps: none, one piece of memory, two
pieces with a hole, and memory above the 32-bit space, whose low words alias
low addresses. Frames run out in every one of them, so that each fault takes
place with any number of frames used.

`HaltsOnlyWhenExhausted` holds on these maps and not on every map: `paging_large` is a boot on a region with exactly
four frames, as many as `frame_count` has values there (section 4).

### 2.2 Timer

`flag` is the interrupt flag with the one-instruction shadow of `sti`; `irr0`
says that IRQ 0 is requested, `in_service` that the controller waits for the end
of interrupt. `PITIRQ` preempts: while it is `Deliverable` no instruction of the
kernel is executed (`Instruction`). The kernel's functions are cut at every
instruction that touches the flag, the table or the sleep counter;
`pitDeactivateCounter` for instance is two stores. `vector` is what entry 0x20
points to: `idtInit` installs the C function `PITIRQ`, which would return with `ret`,
and `initPITTimer` replaces it by `PITIRQHandler`.

The functions take ids in the table and one beyond what their check refuses;
the id that the check wrongly accepts is in `Cell` but not in the instance
(section 4). `OtherSti` stands for kernel code that enables interrupts
(`kbGetChar`).

Fairness: the device ticks (`WF Tick`), the processor takes an interrupt it can
take (`WF PITIRQ`), and the kernel's code, once inside a function, goes on
although ticks preempt it (`SF Inside`): ticks are 1 ms apart, the handler takes
some microseconds. Strong fairness is needed because each tick disables the next
instruction for a moment. Callers are not fair: nothing makes them call.

`PitTimerHistory` adds a record and takes no step away: the ticks served, on a
clock as wide as a word (`served`), what it showed when each counter was added or reset
(`startedAt`), and the milliseconds since `pitSleep` was entered, that is, the ticks of the device, served or not,
`WordMod` and more counted alike (`slept`). The record being finite, the ticks need no bound, and the
run that checks the meaning of the counts checks liveness too.

A tick that is requested when `pitSleep` is entered is served during the sleep and counted by it. `SleepLosesOneTick` says that no
more than this one is lost. That none is, as `timer.h` promises, does not hold (section 4). Ticks also come
between the `sti` in `idt_add_isr` and the store to `pit_initialized`, which `InitIsrSti` and `InitSti` leave room for.

Bounds: two counters (first, last, full), words of six values, so that counts
wrap many times; sleeps of 0 and 2 ticks, the longest
an `int32_t` of that width holds. Longer ones never end (section 4).

### 2.3 Heap

`heap` maps the address of a header to its fields. Addresses and
sizes are words, modulo `WordMod`; a header takes `HDR` addresses (11 in the
code). The pointer arithmetic is the code's: `NODE_TO_CONTENTS(node) + size`
in `kheapRealloc` moves by `size` headers (`Remainder`). The search and the
compaction are a step per turn of their loops, so that a loop that does not end
is a behaviour. `live` is what callers hold: pointer and size.

With any sequence of calls the heap goes wrong (section 4). With `Careful = TRUE`
the callers are those for which it works, and the run shows that it then works
throughout, which is not obvious: the sizes in the list are wrong (the last node
claims memory to the end of the address space), the aligned allocation leaves
empty nodes, and reallocation moves, shrinks into, grows into and swallows the
node behind it. `SafeAlloc`, `SafeAligned` and `SafeResize` say what careful
means: nothing is asked for that fits in a hole between two blocks, and a block
is split in place only in front of the free end of the list, where the header
for what remains must miss the one that is there. The last node being larger than
the memory behind it, there must also be room for one more header below the end of
the address space. Taking the whole of a hole by `kheapRealloc` needs no care.

`ImplementsAllocator` says the same from the callers' side. The refinement mapping takes `live` to the blocks handed
out: each call that returns a block hands out one that shares no byte with the others, `kheapFree` takes one back, and
`kheapRealloc` exchanges one for another that keeps its place or, since the contents are copied with `kmemcpy`, shares no byte
with it. The steps in between, of search, compaction and reallocation, are stutters.

Bounds: a heap of 16 addresses, headers of 2, requests of 2, 6 and 20, alignment
4, three blocks at a time and five calls: enough for a hole with blocks on both
sides, for three free neighbours, and for every branch of `kheapRealloc`.

The magic numbers are left out: they only matter once a header is overwritten,
which `BytesDisjoint` excludes. `CHECK_DEADLOCK FALSE`: the kernel stops when the
heap is full, and behaviours end after `MaxCalls`. Fairness: the kernel executes
the function it is in.

### 2.4 Keyboard

`typed` is every byte the keyboard has sent, `taken` how many of them the handler
has moved to the ring, `fetched` the bytes the kernel has taken out. A special key
is two bytes, E0 first. Taking a byte out of the ring (`scancode_queue[queue_ridx++]`) is
the four instructions that `-O0` makes of it: load the index, store its
successor, load the byte, store it. They go through the register `al`, which `keyboardIsr`
changes after `popal`. `kbGetChar` runs them with interrupts disabled, `kbGetLine`
does not. The tables are reduced to what the code compares: which codes
are printable, which are Enter, Shift and Caps Lock.

The handler may come between any two instructions that have interrupts enabled. Two things then go
wrong (section 4): it changes `al` while an instruction is still to find there what an earlier one put (`Holding`),
or the second byte of a special key is taken out of an empty ring. `disturbed` records that one of them has
happened. It is a history variable like `typed` and `fetched`: no guard reads it. `FIFO` and `SpecialKeysMapped`, which
say nothing of it, are violated in the runs `keyboard_race` and `keyboard_e0`; the run `keyboard` checks what holds until
then, for both readers, and does not go on behind a disturbance (the constraint `Undisturbed`). `MaxBacklog` is one
less than `QUEUE_SIZE`: the ring is filled to its limit, not beyond; with one
byte more the indices meet and `kbHasNewInput` says no.

`kbInit` is the sequence of its four commands, each answered, which leaves
interrupts enabled, or not, which leaves them disabled. Nothing is typed before
it is done; `ps2Init`'s dialogue with the controller is left out.

Fairness: interrupts are taken, and the kernel goes on; that it reads again after a
line is the loop of `kShellStart`. Nobody is made to type. `CHECK_DEADLOCK FALSE`:
behaviours end after `MaxBytes`.

Bounds: a ring of 3 cells, so that the indices wrap within the 4 bytes typed; Enter, a letter,
Shift, Caps Lock and one arrow key, up and down.

### 2.5 Terminal and shell

What `tio.c` keeps in globals is one record, `term`, and its functions are operators from
the record before to the record after: `fvb` is the buffer of ten pages, `vb` the
part of the display's memory that is shown, `row` the view, `x`, `y` and `on_screen` the cursor. No
interrupt touches any of it, so a key is one step. Pages are shifted, views moved and cells
copied as in the code, the early return of `__view_shift` included. When the view leaves the
buffer at the front, or the cursor at the end (`Lost`), the code reads and writes other memory,
and the model stops saying anything (`Undefined`).

`Shell` has an action per key of `kbGetLine`. Each changes the buffer with its index and size,
and the terminal, as the code does it, by separate statements that have to agree. Bytes
become keys in `Keyboard`; here a key is what `kbNextMappedKey` returns. Enter, and the printable key
that has Enter's mapped code (`Enders`), return the line, which the loop of `kShellStart` repeats. The
refinement mapping to `LineBuffer` takes the C string in the buffer as the text and `index` as the
place in it; nothing of the display enters it.

The loops of `tio.c` (rounds of `__view_shift`, characters of `tio_write`) are recursive functions of the number of rounds. `RowsPerKey`
is the most rows a key can add, from the row a last character runs into to the row of the next prompt;
`BufferUsedFirst` counts them in.

`spoiled` records that something happened to this line which the display is known to get
wrong (section 4); `LineShown` says that these are the only cases. `drawn` records that the
display has been rendered since the view was last moved.

Bounds: a view of three rows of five cells in three pages, so that the prompt and two letters
fill a row but for one cell, and the third letter wraps; four characters typed or erased; any
number of arrows and of empty lines, which use the buffer of the terminal up. A longer line than the buffer is not
typed (`MaxLine`): `kbGetLine` has no check.

### 2.6 Disk driver

The driver and the primary drive are two actors. The drive is modelled by what the driver relies on
(external): it is busy after a command until `DriveReady`, then asks for data, reports an error, or has
nothing to do; it takes a block when the last word of it has arrived; a reset ends its command
and loses no block it has taken. A `prompt` drive has the next block ready at once, another is
busy first. `Machines` is what may be attached to the two channels, including nothing that answers and
nothing that answers 0xFF.

The driver's functions are cut at every access to the status and at every word. `pitSleep(1)`, called to
wait 400 ns, is part of the step it belongs to. `ataIdentify` is one sequence of steps for both channels, and
polls the primary's control port for both, as the code does. `Lba` and `ToWrite` are what the code does to sector numbers
and bytes on their way to the drive. The number of sectors does not get there: it is written to the port of
`ATA_REG_SECCOUNT` (0x08, `ata.c:111`), where the drive has no register, and the drive's own count (0x02) stays
what the last reset made it, one, or before a first write what the BIOS left, which `Init` leaves open.

Hence `MaxSectors`, the most sectors that a careful caller asks for at once. The run `ata` has transfers of one sector and
of none, to a drive that may expect more: the reset behind every transfer ends its command, and that nothing is moved unasked
and nothing is lost is what `PortOnlyWhenRequested` and `ImplementsExtentStore` say. With `MaxSectors = 2`
TLC refutes both (section 4).

`Careful` says for which callers transfers work at all (section 4 lists why): the drive is there and has the blocks, the
address fits the registers, and `MaxSectors`. Refused transfers may ask for anything. For careful ones, `ImplementsExtentStore`
says that a sector number names an extent of `SECTOR_SIZE` blocks (the address sent is the sector number times 512, and drives
count in blocks), and that what was written there is read there. The last extent may end behind the drive;
`BlockAt` is blank there.

Fairness: a busy drive becomes ready, and the processor executes what it can. Nobody has to call.
`CHECK_DEADLOCK FALSE`, since on a machine outside `Supported` the driver polls for ever; so it does in
the model, where a poll that does not succeed is no step. The run has those machines too, and
`InitReturns` promises nothing about them.

Bounds: sectors of two words, three extents of four blocks, of which the last has an address above the low
registers; words of two bytes of four values, of which careful callers write those that stand for seven bit characters
as low bytes; two contents besides the blank one; every value of the count register at the start.
The remains on the stack that become the table's `num_sectors` are one number that refuses almost everything and one
that lets all but the largest sector number through.

### 2.7 File system

`used` is the set of chunks whose bit is set in the allocation map, `files` the file map. Formatting
clears the maps sector by sector; creating a file is a search, then `markChunkAsUsed`, which writes a chunk
of the allocation map, then `writeFileMetadata`, which writes a chunk of the file map, sector by sector each.
The searches read a disk nobody else writes, and are operators; `kstrcmp` and `kstrncpy`, on
which they stand, are those of `KStd`. A read or write may fail with some sectors written; the
machine may stop between any two sectors (`Crash`), and the caller makes a new handle then, since there is no
function that mounts. The disk (`ideReadSectors`, `ideWriteSectors`, which no file of the repository defines) is
external: sectors are written whole or not at all, and in order.

Nothing checks the name a file is given. Under the empty one a chunk is marked and an entry is written that counts as empty:
the chunk is lost, though nothing failed and `SKNY_STATUS_OK` is returned. `unnamed` counts such creations since the last formatting.

`DamageBounded` relates both maps to the faults and the empty names so far: each costs one chunk at most, and without
any, every file has its own. `FoundByName` says that without faults a name is found in its own entry, not in an empty one and not in
another file's, unless the name of another file agrees with it as far as both go, in the bytes an entry has for them. The exception is
`kstrcmp`'s (section 4).

Bounds: maps of two chunks of two sectors, each with one bit or one entry, so that every index arithmetic of
chunk, sector and entry has two values to tell apart; four chunks and four files, which fill up; four names,
one cut, one the beginning of another, one different from the others, one empty; two faults since the last formatting. The run takes
all orders of creations, failures and stops.

### 2.8 Library

`KStd` has the loops of `kstdlib.c` and `kstdio.c` over strings that are memory with a NUL somewhere: a loop
that looks for a place is the first place where it stops (`First`), one that builds something a recursive function. `KStdChecks` states what they compute as assumptions, which TLC evaluates: strings of up to
three characters, all overlaps of blocks of eight bytes, numbers around the ends of the
32-bit range and around each change of the number of digits, and formats with every directive. The 1024 bytes into which
`kvprintf` renders, whatever the length, and what the copying functions return are left out. `kprintf` and the terminal
are joined in `Shell`, where `kprintf("%c")` writes a character.

## 3. Runs that pass

| Run | Distinct states | Shows |
|---|---|---|
| `paging` | 23 000 | `TypeOK`, `NoSharedFrame`, `FramesBackedByRAM`, `HaltsOnlyWhenExhausted`; `MappingStable`; `StoreEventuallyDone`; `ImplementsVirtualMemory` |
| `timer` | 1 023 000 | `TypeOK`, `NoRawDelivery`, `CounterExact`; `SleepReturns`, `SleepLosesOneTick` |
| `heap` | 112 000 | `TypeOK`, `ExtentsDisjoint`, `BytesDisjoint`, `LiveAllocated`, `FullyCompacted`; `CallsReturn`; `ImplementsAllocator` |
| `keyboard` | 359 000 | `TypeOK`, `UndisturbedFIFO`, `InputVisible`, `ModifiersFollowKeys`, `UndisturbedSpecialKeys`; `EveryByteRead` |
| `shell` | 202 000 | `TypeOK`, `LineShown`, `ScreenFollows`; `ViewKeepsPlace`, `BufferUsedFirst`; `ImplementsLineBuffer` |
| `ata` | 59 000 | `TypeOK`; `PortOnlyWhenRequested`; `TransfersReturn`, `InitReturns`; `ImplementsExtentStore` |
| `skny` | 1 114 000 | `TypeOK`, `DamageBounded`, `FoundByName`; `FilesKept`; and the assumptions of `KStdChecks` |

Every property has a mutated form of a definition under which TLC finds it
violated (`mutants` in `PROJECT.json`).

## 4. Runs that find the code at odds with its comments

| Run | What happens |
|---|---|
| `paging_large` | A region with exactly 256 whole frames (1 GiB): `frame_count`, a `uint8_t`, is 0, none of the frames is used, and the kernel halts with "Ran out of physical memory!". |
| `timer_ticks` | `pitSleep` breaks out of its loop after `cli`; a second `initPITTimer` returns after `cli`. Ticks are lost until other code enables interrupts. |
| `heap_reuse` | `consumeEmptySpace` adds where it should subtract. A smaller block in a hole leaves a node that manages bytes of the block behind it. |
| `keyboard_race` | `keyboardIsr` returns with `al` = 0xa0. In the middle of `kbGetLine`'s fetch, the key typed becomes the release of D. |
| `keyboard_e0` | The byte behind E0 is taken out of the ring before it has come; `kbGetChar` has even disabled the interrupt that would bring it. |

Seen while modelling, and not the subject of a run:

* `handle_page_fault` never uses the first frame of a region that starts on a
  frame boundary (`memory.c:129`); with such a region in `MemoryMaps`
  `HaltsOnlyWhenExhausted` is violated as well.
* A tick requested when `pitSleep` is entered is counted as its first millisecond, so that the sleep "for num_millis
  milliseconds" (`timer.h:39`) may end a tick early: with `slept >= call.arg` `SleepLosesOneTick` is violated.
* A sleep of 2^31 ms or more never ends (`timer.c:70`): put `WordMod \div 2` in
  `SleepTimes` and `SleepReturns` is violated.
* The range check of three timer functions lets the id 50 through (`timer.c:114`,
  `132`, `147`).
* A hole allocated again at its own size makes, after a free, a node that is its own
  successor: with `Sizes = {2}` and `Careful = FALSE`, `CallsReturn` is violated.
* The heap does not end at `KHEAP_END`, since the last node's size reaches to the end of
  the address space; and `kheapAlignedAlloc` aligns the header, not the contents
  it returns.
* The 0 of the keypad has Enter's mapped code (`keyboard_io.c:63`): it is put into the line and ends it.
* Terminal and shell. When the view reaches the last page, it is moved to
  `num_pages-2 * TERM_HEIGHT + 1`, a negative row ("second to last page", `tio.c:128`);
  `BufferUsedFirst` says when, and the model ends there. In a line that wraps, the right
  arrow walks on without limit, since columns are compared. A character erased at the end of the line
  stays on the display, and erasing inside the line leaves wrong text ("replaces it with a blank",
  `tio.c:257`); a character put in while its row is below the view overwrites the display. A cursor in
  the first row counts as off the screen (`y > 0`). The early return of
  `__view_shift` renders nothing. A line of more than 511 characters is written behind the buffer.
* Disk driver. The address sent is `sector * 512`, where a drive counts in blocks: with the low 28 bits only,
  distant sector numbers meet (`Careful` keeps them apart, and `ExtentStore` promises extents). The table
  of drives is copied before they are identified, so that `num_sectors` is whatever was on the stack. The "sector count
  register" (`ata.c:421`) that is written is `ATA_REG_SECCOUNT`, 0x08, where the drive has none: it transfers as many blocks as its own
  register (0x02) happens to say, one after a reset, and the words of a second sector are moved without its asking.
  With `MaxSectors = 2` `PortOnlyWhenRequested` and `ImplementsExtentStore` are violated. A transfer of several
  sectors polls for data once and then moves all the words, which would suit prompt drives only, were they told the number.
  Errors are cleared by the reset before they are read, and a drive that answers a command with an error is waited for
  for ever. `to_write` takes the sign of its low byte into the high one. The reset of a
  read clears the address bits sent just before. A transfer of no sectors is a command all the same.
  The secondary drive is polled on the primary's control port: with a second disk `ideInit` does not
  return (`Supported`). The guard against ATAPI looks at the copy that is always ATA.
* File system. `ideReadSectors` and `ideWriteSectors` do not exist, nor does a function that mounts. The
  results of `markChunkAsUsed` and `writeFileMetadata` are ignored and `SKNY_STATUS_OK` is returned. `kstrcmp`
  "returns 0 on equal" (`kstdlib.c:18`) and for beginnings too, so that the search for a file ends at an older one whose name is
  the beginning of its own or a longer form (without its exception `FoundByName` is violated by "A" and then "AC"), and `searchForFile` finds every name in the first empty entry at the latest; when
  there is none the answer is `SKNY_FILESYSTEM_FULL`, never `SKNY_FILE_NOT_FOUND`. `sknyWriteFile` ends without
  a result. A creation under the empty name loses a chunk (`sknyfs.c:163-197`), and repeated ones fill the disk. `STORAGE_BEGIN` multiplies where it should add (`sknyfs.c:36`). There are five statuses and four strings.
* Library. `kstrcmp` and `kmemcmp` return a `size_t`, which is never "<0" (`kstdlib.c:19`), and
  `kstrcmp` "returns 0 on equal" and on beginnings. An unknown directive, `%%` among them, ends
  `kvsprintf` without a NUL, and `kvprintf` has room for 1024 bytes and does not look.
* A RAM region that begins in the last frame of the address space makes the handler's address wrap to 0,
  so that it hands out frames from 0 on, RAM or not.
* `idtInit` leaves the lines 6 and 7 of the controller open with nothing in their vectors.
* `kernel.c` does not compile as committed: a comment is opened in the middle of line 46. The call of
  `kShellStart` is commented out.

## 5. Proofs

All of them hold for every value of the constants that satisfies the named
assumptions of the modules, which TLC evaluates on the instances.

The inductive invariants below were checked by TLC on the instances before they were proved.

### 5.1 Paging

`IInv` of `PagingProofs` is the conjunction of

* `TypeOK`;
* `NoSharedFrame`, where the clause that mapped frames are marked is what makes the
  other clause inductive: the handler takes an unmarked frame;
* `BeforePaging`: until `setupPaging` nothing is stored and nobody waits;
* `UnusedUntouched`: a frame that is not marked holds `Garbage`.

The lemmas about addresses (`AddressInFrame`, `WrapRange`, `FrameAtRange`) show that
the handler's arithmetic, whatever the map, ends in a frame of the address space.
From `IInv` follow `TypeCorrect`, `NoSharing`, `MappingsStable` and `Refinement`. In the
refinement, `handle_page_fault` is a stutter of `VirtualMemory` because the new frame is
unmarked and hence untouched; `Commit` changes one cell because no other page has
the frame. Assumptions: sizes are positive, pages are in the address space,
`Garbage` is not a value, maps have at most 16 RAM regions.

What the handler takes for RAM is proved from the further invariant `Loaded`: every row of the
table is a RAM entry of the map that was traversed, with its high words dropped. The slots the
handler goes through are then compared with the frames of the map (`SlotIsFrame`, `FrameHasSlot`). It
finds what it should on some maps only, and the theorems say on which:

* `HandsOutRAM` (`FramesBackedByRAM`) for maps that satisfy `KeepsRAM`: each RAM region, as the table
  keeps it, ends in the address space, does not begin in its last frame, and its frames are RAM.
  Memory above 4 GiB is aliased to low addresses that have to be RAM too.
* `HaltsExhausted` (`HaltsOnlyWhenExhausted`) for maps that satisfy `SearchesAll`: each RAM region is out of
  reach, or it ends within the address space, does not begin on the boundary of a frame other than 0, and has
  fewer frames than a `uint8_t` counts.

Both hold on every map of the run `paging`. That they are needed is what `paging_large` and section 4
show; without the clause on the boundary `HaltsExhausted` cannot be proved.

### 5.2 Timer

`NeverRaw` rests on `BootOrder`: until the vector is `PITIRQHandler`
the flag is off and only the code up to `idt_add_isr`'s store is executed. `UnownedZeroed`
rests on `Zeroed`, which adds to the property that the counter of a half-done
`pitDeactivateCounter` is already inactive, so that a tick there does not count it.
(`ZeroedWhenIdle` is no property of a run: a counter that is given out with a count left
in it breaks `CounterExact`, which is.)
For `HSpec`, whose steps are steps of the timer (`HNextIsNext`), `CountsExact` rests on
`Exact`, with the uniqueness of remainders (`ModUnique`) for a tick and
`Zeroed` for a counter that is added; `SleepsAlmostThrough` rests on `SleepInv`: while
`pitSleep` runs its counter is negative, and stays so, or is at least what was asked for
less the ticks of the device since, where a tick that waits to be served (`Waiting`) has not been counted down, and the one
that waited at the start is granted. The record counts modulo the word; `ModOfSum` and `ModDistance`
say what that does to a distance between two counts. Assumptions:
the table and the words are not empty, ids are naturals, times fit a word.

### 5.3 Keyboard

`TypeCorrect` needs nothing. The others are about a ring that does not overflow (`MaxBacklog < QUEUE_SIZE`) and
about what holds until reading is disturbed (section 2.4), for the code is wrong without either: the
runs `keyboard_race` and `keyboard_e0` show the latter. `CharInOrder` says where it never is: when only
`kbGetChar` reads and no special key is typed, interrupts are disabled whenever `al` is in use (`CliInv`) and the ring is read
only behind a look at it, so that bytes may come at any time.

`Inv` is kept by every step that disturbs nothing: the indices count, modulo the size, what the handler wrote and the kernel took, and the
cells between them hold the bytes that wait (`RingInv`); at each of the four instructions of a fetch the
register holds what the next one needs (`FetchInv`); a special key is decoded from the byte behind E0 (`PrefixInv`).
`InOrder`, `WaitingSeen` and `SpecialKeysTyped` follow. `ModifiersExact` needs `KeyInv` too: `after_e0` is exact
and the modifiers are what the bytes before the one in hand make them; it assumes that no key's
release is the byte E0, as in the scancodes the code uses.

### 5.4 Line editor and terminal

`ShellProofs` proves `Refinement`: whatever the display looks like, typing, erasing, moving and Enter do to the
buffer what `LineBuffer` promises. The invariant `LineInv` says that the buffer holds a line of `size - 1`
characters ended by zeros and that the index is in it. `OpenedIs` and `ClosedIs` relate the loops that move the rest of the
line by one place to insertion into and removal from a sequence. The size of the buffer and the keys are
arbitrary; that nobody types a longer line is the guard of `Printable` (`MaxLine`).

The five other properties of the run follow from `ShellInv`, which ties the line to the terminal: `LineInv`; `TermOK` of
the terminal's record, that is, unless it is `Lost` the cursor and the view are in the buffer, the view at least a row in front
of its end, and what is rendered shows the view; and, unless the line is `spoiled`, `RowShown`: prompt and
line stand in the row of the cursor with room for the cursor behind them, and the cursor is behind the characters in front of the index.

The proof goes through `tio.c` function by function. Each operator has a lemma of three parts: it keeps `TermOK`; if
the terminal is not lost afterwards, what has become of the cells and of the cursor's row and column (`Kept`, `Advanced`,
`PutAtCursor`, `AtNextRow`); if it is lost, that the cursor was on the last page before. `BackIs` is the crux: a character
is shown with the cursor of the old view and recorded with that of the new one, and in each case (the view stays, is rendered anew, or
leaves early by the `return` of `__view_shift`) display and buffer agree or the display does not count as drawn. `ShiftRightIs`
and `ShiftLeftIs` say how far the rest of the row is moved: to the end of the view, so that a row below the view is not, which
is why such a line is `spoiled`. For a string, `Writing` gives the terminal after each of its characters, and
`ReplyPlaces` counts: the i-th character of a repeated line is i places behind the start of its row, so that the line takes
`MaxLine \div TERM_WIDTH` rows more at most. `RowsPerKey` comes from this count, and the proof changed it: the row
into which a last character runs is counted whatever the length of the line, since the cursor of a spoiled line may
stand anywhere.

A recursive function is a `CHOOSE` of its equation, so that there must first be a function that satisfies it: `RoundsUp` and
`WritingIs` build it by induction over the rounds. The library's induction theorems cannot be used (they take an operator), but
`Induction` of `NumberLemmas` can, which is about a set of numbers and follows from its having a least element.

Assumptions: the view has three rows and columns or more (a prompt, a character and the cursor in a
row), there are no more pages than rows, so that the row the view is moved to at the end is negative as with the code's 10 and 24,
and what the kernel has written before ends a line, as every `kprintf` of `kernelMain` does.

### 5.5 Disk driver

`Inv` of `AtaProofs` is `TypeOK` with `JobInv` (a job is there while the driver works on it, and behind the range
check it is a careful one), `LeftInv` (a drive that asks for data has a block left) and `DriveInv`. The last is about transfers of
one sector at most: what an ATA drive is about at each point of the driver, that between transfers it has no command and no data, and,
while words are moved, that it asks for the block of the job and has as many words of it as the driver has moved. Hence `TypeCorrect`,
for transfers of any length, and `MovesRequested`, under `MaxSectors <= 1`: although the drive is asked once, it asks for every
word, whatever its count register held. The reset behind a transfer is what `BeforeTransferInv` needs, for the drive may then ask for
another block, or be in error about it. `CarefulJob` shows where each clause of `Careful` is used.

`Refinement`, under `MaxSectors <= 1` too, adds `DataInv`: what was read is what the disk holds, and what the drive has of a
block is the caller's. A word that fills its block is `Put` of `ExtentStore`, the return a `Written` or `Read`, a
refused call a `Refused`. Its hypothesis `SevenBit` is that the low bytes written are those of seven bit
characters; others do not survive `to_write` (section 4). Assumptions: sizes are positive, a sector has a word, the count
register counts beyond 1, the registers fit in one another. For longer transfers nothing is proved: the code moves words of which
the drive knows nothing (section 4).

### 5.6 File system

All for every geometry, every number of failures and stops of the machine. `Inv` of `SknyFSProofs` has `TypeOK`,
`FormatInv` (the maps are clear up to the sector that was reached) and `CreateInv` (a creation works on the first
empty entry, its name and chunk are what was asked for, its chunk is marked before its entry is
written). It gives `CreationKeepsFiles`. `DamageCorrect` rests on `DamageInv`, which counts what a
creation has done halfway: a chunk that is marked and has no entry yet is damage until the entry
is written. What is allowed are the faults and the creations under the empty name (`Allowed`), which no assumption excludes: names are
any strings. `CreatedFound` rests on `NamesInv` (without faults the entries in use are those of the names given to files, and
each has one) and on what `kstrcmp` and `kstrncpy` do. A name compares equal to its own entry (`ComparesEqual`), and where it
compares equal to another's the two names agree as far as both go, in the bytes of an entry (`EqualAgree`): so when no
other name given agrees with it, the first match is its own entry, since empty ones come later. The proof showed that the remains
`Init` puts on an unformatted disk named chunks the disk need not have; they name chunk 0 now.

### 5.7 Heap

`KHeapProofs` is about careful callers (`Careful = TRUE`), any sizes and alignments they ask for, and any
number of calls and of turns of the loops. Without care the code is wrong, which `heap_reuse` shows;
care enters in `kheapAllocStep`, `kheapAlignedAllocStep`, `ReallocMoveStep`, `ReallocGrowStep` and `ReallocShrinkStep`,
where a call begins, and nowhere else. The invariant `HeapInv` has

* `ListInv`: the list is `Ordered`, that is, the successor of a header is the next one in memory and lies behind
  the bytes the header manages. The one exception is `Pending`: a block was shrunk, and the node for what is
  left may lie before or behind the free end it is linked to, and manage bytes of it. Apart from the last
  node the list is still ordered, and when `compactHeap` has come to the pair it makes one node of it, the last;
* `CompactInv`: no two free neighbours in front of `iter`; nothing else makes one pass of `compactHeap` enough;
* `SearchInv`: while the list is searched no hole is large enough, so that what is taken is the free end, whose
  size does not matter (`Resized`) and behind which `consumeEmptySpace` computes a distance from `NULL`;
* `LiveInv`: the allocated headers and the blocks that callers hold correspond one to one, but for the block a call
  has taken and not yet returned and the one `kheapRealloc` has freed and not yet given up;
* `OldInv`: that freed block keeps its bytes until the caller has the new one;
* `CallInv`: what the arguments of a call are at each point of it.

Each action has a lemma (`...Step`). Those about lists (`Swallow`, `Appended`, `ReplaceEnd`, `BodyFacts`) say which
changes of two headers keep a list ordered. Five properties follow: `Types`, `DisjointExtents`, `DisjointBytes`,
`AllocatedLive`, and `Compact`.

`Refinement` (`ImplementsAllocator`) needs `HeapInv` at both ends of a step: `live` changes only where a call takes or returns
a block, and there `LiveInv` and `ListInv` say that the bytes of the new one belong to no other. When `kheapRealloc` moves
a block, `OldInv` still keeps the bytes of the old one, which is what makes its copy right. `HeapInv` was checked on the instance of the run `heap` first. The proof showed that addresses
have to wrap like sizes in the model, and that the free end has to stay below the end of the address space.

### 5.8 What is only model-checked

* All liveness properties: fairness and `ENABLED` are out of the prover's reach.
* What the library computes, over small strings and numbers: what a recursive definition computes for every input needs
  induction over data. Every other invariant and action property of the runs that pass, and every refinement, is proved.

## 6. Not modelled

* Exceptions other than the page fault print and stop. The GDT and the TSS are static tables, written once.
* The system call prints a string; the jump to user mode does not come back.
* The serial port waits for a status bit and writes a byte. CPUID, ACPI and PCI print what the machine
  reports; `acpiTesting` is never called, and `pciCheckAllBuses` only from a comment.
* Interrupts on lines without a driver, and the registers that `PITIRQHandler` does not save (`PIT.s:32`):
  what interrupted C code makes of changed registers depends on the compiler.
* What lies behind a table or a buffer that is overrun: the 51st counter, the 17th region, the 513th
  character of a line, the rows in front of the terminal's buffer, the 1025th byte of a `kvprintf`.
* The magic numbers of the heap, the dialogue of `ps2Init`, colours, the registers of the hardware cursor.
* `ide.c`, an older copy of `ata.c` that is not compiled; `ata_helper.s`, `ideIRQHandler` (its vector is
  masked) and the part of `atapiSetup` behind its `return`; `init_PIT`, `readPITCount` and
  `setPITCount`, which nobody calls.

## 7. Plan

Done are 1 to 9 with the theorems of section 5; 10 is left.

1. `VirtualMemory`, `Paging`, `PagingProofs`: memory first, everything stands on it.
2. `PitTimer`, `PitTimerHistory`, `PitTimerProofs`: the one concurrent table.
3. `KHeap`.
4. `Keyboard`.
5. `Terminal`, `Shell` and its promise `LineBuffer`.
6. `Ata` and its promise `ExtentStore`.
7. `SknyFS` over a disk that fails and a machine that stops.
8. `KStd`, `KStdChecks`.
9. `Allocator`, which `KHeap` with careful callers implements.
10. `Interrupts`: masks, vectors and the boot order of `kernelMain`, composed with the
   timer's and the keyboard's view of the flag; spurious interrupts.
