-------------------------------- MODULE Ata --------------------------------
(***************************************************************************)
(* The disk driver (src/src/ata.c): identification of what is attached,    *)
(* and programmed input and output on the primary drive, with no           *)
(* interrupts and by polling.                                              *)
(*                                                                         *)
(* The drive is not part of the kernel.  It is modelled by what the driver *)
(* relies on: it is busy for a while after a command, asks for the data of *)
(* one block at a time, takes a block when its last word has arrived, and  *)
(* gives up its command, but no block it has taken, when it is reset.  A   *)
(* prompt drive has the next block ready at once; another is busy first.   *)
(***************************************************************************)
EXTENDS Integers, SequencesExt

CONSTANTS
  SECTOR_SIZE,   \* bytes of a sector (512)
  WordMod,       \* values of a uint32_t (2^32)
  ByteMod,       \* values of a byte (2^8)
  LBA_MOD,       \* values of the address of a block (2^28)
  LOW_MOD,       \* values of the three registers that hold its low part (2^24)
  COUNT_MOD,     \* values of the register that counts blocks (2^8)
  CAPACITY,      \* blocks of the primary drive
  Blocks,        \* the contents of a block that are written, as sequences of words
  Blank,         \* what the blocks hold at first
  Sectors,       \* the sector numbers callers pass
  Counts,        \* the numbers of sectors callers pass
  MaxSectors,    \* the most of them that a careful caller asks for at once
  Machines,      \* what may be attached: records of primary, secondary and prompt
  Leftovers      \* what an uninitialised word of the stack may hold

WORDS == SECTOR_SIZE \div 2

Byte == 0 .. ByteMod - 1
Word == [lo : Byte, hi : Byte]

\* What is not there, and answers nothing (0x00) or everything (0xFF).
Attached == {"ata", "atapi", "none", "floating"}

ASSUME AtaAssumption ==
  /\ {WordMod, ByteMod, LBA_MOD, LOW_MOD, CAPACITY} \subseteq Nat \ {0}
  /\ {SECTOR_SIZE, COUNT_MOD} \subseteq Nat \ {0, 1} /\ MaxSectors \in Nat
  /\ LOW_MOD <= LBA_MOD /\ LBA_MOD <= WordMod
  /\ Blocks \subseteq [1 .. WORDS -> Word] /\ Blank \in [1 .. WORDS -> Word]
  /\ Sectors \subseteq 0 .. WordMod - 1 /\ Counts \subseteq 0 .. WordMod - 1
  /\ Leftovers \subseteq 0 .. WordMod - 1
  /\ Machines \subseteq [primary : Attached, secondary : Attached, prompt : BOOLEAN]

VARIABLES
  machine,       \* what is attached
  disk,          \* the blocks of the primary drive
  drive,         \* its registers, and the block it is transferring
  num_sectors,   \* the field of ata_drives[0]
  pc,            \* where the driver is
  job,           \* the transfer it makes
  moved,         \* words moved so far
  got,           \* words read so far
  answer         \* what the last transfer returned

vars == <<machine, disk, drive, num_sectors, pc, job, moved, got, answer>>

NoJob == [op |-> "none", sector |-> 0, n |-> 0, data |-> <<>>]

Refused   == [ok |-> FALSE, data |-> <<>>]
NoAnswer  == [ok |-> TRUE, data |-> <<>>]

-----------------------------------------------------------------------------
(* The drive *)

Idle == [bsy |-> FALSE, drq |-> FALSE, err |-> FALSE, cmd |-> "none",
         high |-> 0, low |-> 0, count |-> 1, left |-> 0, words |-> <<>>]

\* The status register read on the primary control port.
Status == CASE machine.primary = "none"     -> [bsy |-> FALSE, drq |-> FALSE, err |-> FALSE]
            [] machine.primary = "floating" -> [bsy |-> TRUE, drq |-> TRUE, err |-> TRUE]
            [] OTHER -> [bsy |-> drive.bsy, drq |-> drive.drq, err |-> drive.err]

Here(d) == d.high * LOW_MOD + d.low

\* A command is taken when the drive is not busy; it clears the error.
Commanded(d, cmd) ==
  IF d.bsy THEN d
  ELSE [d EXCEPT !.bsy = TRUE, !.drq = FALSE, !.err = FALSE, !.cmd = cmd,
                 !.left = IF d.count = 0 THEN COUNT_MOD ELSE d.count, !.words = <<>>]

\* A reset ends the command, clears the error and the device register, and leaves the
\* drive's signature in the others: the count is one.
Reset(d) == [d EXCEPT !.bsy = TRUE, !.drq = FALSE, !.err = FALSE, !.cmd = "reset",
                      !.high = 0, !.low = 1, !.count = 1, !.words = <<>>]

\* The present block is done: the next one is asked for, at once or after a while.
NextBlock(d) ==
  IF d.left = 1 THEN [d EXCEPT !.drq = FALSE, !.bsy = ~ machine.prompt, !.cmd = "none",
                               !.left = 0, !.words = <<>>]
  ELSE [d EXCEPT !.drq = machine.prompt, !.bsy = ~ machine.prompt, !.low = @ + 1,
                 !.left = @ - 1, !.words = <<>>]

\* The drive becomes ready: for data, with an error, or with nothing to do.
DriveReady ==
  /\ machine.primary \in {"ata", "atapi"}
  /\ drive.bsy
  /\ drive' = [drive EXCEPT
       !.bsy = FALSE,
       !.drq = machine.primary = "ata"
               /\ \/ drive.cmd = "identify"
                  \/ drive.cmd \in {"read", "write"} /\ Here(drive) < CAPACITY,
       !.err = IF machine.primary = "atapi" THEN drive.cmd \in {"identify", "read", "write"}
               ELSE drive.cmd \in {"read", "write"} /\ Here(drive) >= CAPACITY]
  /\ UNCHANGED <<machine, disk, num_sectors, pc, job, moved, got, answer>>

-----------------------------------------------------------------------------
(* Identification *)

\* ideInit: neither channel answers; the table stays as it is.
FloatingBus ==
  /\ pc = "boot"
  /\ machine.primary = "floating" /\ machine.secondary = "floating"
  /\ pc' = "idle"
  /\ UNCHANGED <<machine, disk, drive, num_sectors, job, moved, got, answer>>

\* The two drives are copied to the table before they are identified: their number
\* of sectors is what was on the stack.  Then the primary is sent IDENTIFY.  The zero
\* that is meant for the count goes to ATA_REG_SECCOUNT, where the drive has no register.
ideInit ==
  /\ pc = "boot"
  /\ ~ (machine.primary = "floating" /\ machine.secondary = "floating")
  /\ num_sectors' \in Leftovers
  /\ drive' = Commanded([drive EXCEPT !.high = 0, !.low = 0], "identify")
  /\ pc' = "primary_status"
  /\ UNCHANGED <<machine, disk, job, moved, got, answer>>

\* Each of the steps of ataIdentify is taken for the primary, then for the secondary.
Channel == [primary |-> [status |-> "primary_status", busy |-> "primary_busy", data |-> "primary_data"],
            secondary |-> [status |-> "secondary_status", busy |-> "secondary_busy",
                           data |-> "secondary_data"]]

\* After the primary comes the secondary; nothing is done with the results.
Identified(c) == pc' = IF c = "primary" THEN "secondary_status" ELSE "idle"

\* mutated form: a drive that is not there is waited for
NotThere_Ignored(c) == FALSE

\* Status 0 after IDENTIFY: there is no drive.
NotThere(c) == machine[c] = "none"

ReadStatus(c) ==
  /\ pc = Channel[c].status
  /\ IF NotThere(c) THEN Identified(c) ELSE pc' = Channel[c].busy
  /\ UNCHANGED <<machine, disk, drive, num_sectors, job, moved, got, answer>>

\* Both channels poll the control port of the primary.
WaitBusy(c) ==
  /\ pc = Channel[c].busy
  /\ ~ Status.bsy
  /\ IF machine[c] = "atapi" THEN Identified(c) ELSE pc' = Channel[c].data
  /\ UNCHANGED <<machine, disk, drive, num_sectors, job, moved, got, answer>>

\* The identification is read from the channel itself; it goes to a variable that is
\* gone when ideInit returns.
WaitIdentification(c) ==
  /\ pc = Channel[c].data
  /\ Status.drq \/ Status.err
  /\ drive' = IF c = "primary" /\ ~ Status.err THEN [drive EXCEPT !.drq = FALSE, !.cmd = "none"]
              ELSE drive
  /\ Identified(c)
  /\ UNCHANGED <<machine, disk, num_sectors, job, moved, got, answer>>

-----------------------------------------------------------------------------
(* Transfers *)

\* The two range checks; the sum is a uint32_t.
OutOfRange(sector, n) ==
  sector > num_sectors \/ (sector + n) % WordMod > num_sectors

\* The address that is sent: that of a byte, where the drive expects a block.
Lba(sector) == (sector * SECTOR_SIZE) % LBA_MOD

\* What callers have to see to, since the driver does not: that there is a drive, that
\* it has the blocks, that no more sectors are asked for at once than the drive, which
\* is not told their number, expects, and that what is read has an address that fits the
\* low registers, for the reset of a read clears the other one.
Careful(op, sector, n) ==
  /\ machine.primary = "ata"
  /\ n <= MaxSectors
  /\ sector * SECTOR_SIZE < LBA_MOD
  /\ sector * SECTOR_SIZE + n <= CAPACITY /\ sector * SECTOR_SIZE < CAPACITY
  /\ op = "read" => sector * SECTOR_SIZE + n <= LOW_MOD

Call(op, sector, n, data) ==
  /\ pc = "idle"
  /\ Careful(op, sector, n) \/ OutOfRange(sector, n)
  /\ job' = [op |-> op, sector |-> sector, n |-> n, data |-> data]
  /\ pc' = "check"
  /\ UNCHANGED <<machine, disk, drive, num_sectors, moved, got, answer>>

ataRead == \E s \in Sectors, n \in Counts : Call("read", s, n, <<>>)

ataWrite == \E s \in Sectors, n \in Counts : \E data \in [1 .. n -> Blocks] :
              Call("write", s, n, data)

Return(a) == /\ answer' = a
             /\ job' = NoJob
             /\ moved' = 0
             /\ got' = <<>>
             /\ pc' = "idle"

RangeError ==
  /\ pc = "check"
  /\ OutOfRange(job.sector, job.n)
  /\ Return(Refused)
  /\ UNCHANGED <<machine, disk, drive, num_sectors>>

\* The drive and the top of the address are selected; a read resets the bus, a write
\* only disables the drive's interrupts.
Select ==
  /\ pc = "check"
  /\ ~ OutOfRange(job.sector, job.n)
  /\ LET selected == [drive EXCEPT !.high = Lba(job.sector) \div LOW_MOD]
     IN  drive' = IF job.op = "read" THEN Reset(selected) ELSE selected
  /\ pc' = "wait_idle"
  /\ UNCHANGED <<machine, disk, num_sectors, job, moved, got, answer>>

\* The drive is idle: the address is written and the command is sent.  The number of
\* sectors goes to ATA_REG_SECCOUNT (0x08), where the drive has no register: its count
\* (ATA_REG_SECCOUNT0, 0x02) stays what the last reset, or the BIOS, made it.
Command ==
  /\ pc = "wait_idle"
  /\ ~ Status.bsy /\ ~ Status.drq
  /\ drive' = Commanded([drive EXCEPT !.low = Lba(job.sector) % LOW_MOD], job.op)
  /\ pc' = "wait_data"
  /\ UNCHANGED <<machine, disk, num_sectors, job, moved, got, answer>>

\* mutated form: the drive's request for data is not waited for
DataRequested_NotWaited == TRUE

DataRequested == ~ Status.bsy /\ Status.drq

WaitData ==
  /\ pc = "wait_data"
  /\ DataRequested
  /\ pc' = "move"
  /\ UNCHANGED <<machine, disk, drive, num_sectors, job, moved, got, answer>>

\* mutated form: the loop of a read makes a step too many
Moving_OneMore(op) == /\ pc = "move" /\ job.op = op
                      /\ moved < job.n * WORDS \/ (op = "read" /\ moved = job.n * WORDS)

\* All the words of all the sectors are moved, whatever the drive says meanwhile.
Moving(op) == pc = "move" /\ job.op = op /\ moved < job.n * WORDS

\* The word the drive shows; another one when it shows none.
WordShown ==
  IF drive.drq /\ Here(drive) < CAPACITY THEN disk[Here(drive)][Len(drive.words) + 1]
  ELSE [lo |-> ByteMod - 1, hi |-> ByteMod - 1]

ReadWord ==
  /\ Moving("read")
  /\ got' = Append(got, WordShown)
  /\ drive' = IF ~ drive.drq THEN drive
              ELSE IF Len(drive.words) + 1 = WORDS THEN NextBlock(drive)
              ELSE [drive EXCEPT !.words = Append(@, WordShown)]
  /\ moved' = moved + 1
  /\ UNCHANGED <<machine, disk, num_sectors, pc, job, answer>>

\* mutated form: the bytes are put together the other way round
ToWrite_Swapped(lo, hi) == [lo |-> hi, hi |-> lo]

\* data is an array of char, which has a sign: it is extended over the high byte.
ToWrite(lo, hi) == IF lo >= ByteMod \div 2 THEN [lo |-> lo, hi |-> ByteMod - 1]
                   ELSE [lo |-> lo, hi |-> hi]

WordToWrite == LET w == job.data[moved \div WORDS + 1][(moved % WORDS) + 1]
               IN  ToWrite(w.lo, w.hi)

WriteWord ==
  /\ Moving("write")
  /\ LET words == Append(drive.words, WordToWrite)
         full  == drive.drq /\ Len(words) = WORDS
     IN  /\ disk' = IF full /\ Here(drive) < CAPACITY THEN [disk EXCEPT ![Here(drive)] = words]
                    ELSE disk
         /\ drive' = IF full THEN NextBlock(drive)
                     ELSE IF drive.drq THEN [drive EXCEPT !.words = words]
                     ELSE drive
  /\ moved' = moved + 1
  /\ UNCHANGED <<machine, num_sectors, pc, job, got, answer>>

\* mutated form: the bus is not reset after the flush
FlushedAndReset_NoReset(d) == IF d.drq THEN d ELSE Commanded(d, "flush")

\* The flush is sent, even to a drive that still asks for data, and the bus is reset
\* at once: what the drive has to say of the transfer is cleared before it is read.
FlushedAndReset(d) == Reset(d)

FlushAndReset ==
  /\ pc = "move"
  /\ moved = job.n * WORDS
  /\ drive' = FlushedAndReset(drive)
  /\ pc' = "wait_end"
  /\ UNCHANGED <<machine, disk, num_sectors, job, moved, got, answer>>

\* The words read, block by block.
BlocksGot == [b \in 1 .. job.n |-> SubSeq(got, (b - 1) * WORDS + 1, b * WORDS)]

WaitEnd ==
  /\ pc = "wait_end"
  /\ ~ Status.bsy
  /\ job.op = "write" => ~ Status.drq
  /\ Return(IF Status.err THEN Refused
            ELSE [ok |-> TRUE, data |-> IF job.op = "read" THEN BlocksGot ELSE <<>>])
  /\ UNCHANGED <<machine, disk, drive, num_sectors>>

-----------------------------------------------------------------------------

\* The drive is idle; its count is what the BIOS left there.
Init == /\ machine \in Machines
        /\ disk = [b \in 0 .. CAPACITY - 1 |-> Blank]
        /\ drive \in {[Idle EXCEPT !.count = c] : c \in 0 .. COUNT_MOD - 1}
        /\ num_sectors = 0
        /\ pc = "boot"
        /\ job = NoJob
        /\ moved = 0
        /\ got = <<>>
        /\ answer = NoAnswer

\* What the driver does by itself once it was called.
Driver == \/ FloatingBus \/ ideInit
          \/ \E c \in {"primary", "secondary"} :
               ReadStatus(c) \/ WaitBusy(c) \/ WaitIdentification(c)
          \/ RangeError \/ Select \/ Command \/ WaitData \/ ReadWord \/ WriteWord
          \/ FlushAndReset \/ WaitEnd

Next == DriveReady \/ Driver \/ ataRead \/ ataWrite

Spec == Init /\ [][Next]_vars

\* The drive is not busy for ever, and the processor executes what it can.  Nothing
\* makes a caller call.
FairSpec == Spec /\ WF_vars(DriveReady) /\ WF_vars(Driver)

-----------------------------------------------------------------------------
(* Properties *)

InitPoints == {"boot", "primary_status", "primary_busy", "primary_data",
               "secondary_status", "secondary_busy", "secondary_data"}

Points == InitPoints \union {"idle", "check", "wait_idle", "wait_data", "move", "wait_end"}

\* Registers hold what fits them, and no more words are moved than belong to the
\* transfer.
TypeOK ==
  /\ machine \in Machines
  /\ disk \in [0 .. CAPACITY - 1 -> [1 .. WORDS -> Word]]
  /\ drive \in [bsy : BOOLEAN, drq : BOOLEAN, err : BOOLEAN,
                cmd : {"none", "identify", "read", "write", "flush", "reset"},
                high : Nat, low : Nat, count : 0 .. COUNT_MOD - 1, left : 0 .. COUNT_MOD,
                words : Seq(Word)]
  /\ Len(drive.words) < WORDS
  /\ num_sectors \in 0 .. WordMod - 1
  /\ pc \in Points
  /\ moved \in 0 .. job.n * WORDS
  /\ got \in Seq(Word)
  /\ job.op = "read" => Len(got) = moved

\* In transfers of one block the driver moves no word that the drive does not ask for,
\* although it looks only before the first of them and may have been understood to ask
\* for more blocks: a word moved at another time is lost, or read from nowhere.
PortOnlyWhenRequested ==
  [][moved' = moved + 1 => ~ drive.bsy /\ drive.drq]_vars

\* What callers put under a sector number is what they read there later, whatever was
\* written under other numbers, after any number of transfers that were refused or moved
\* nothing, and although the drive may wait for more blocks than it is given.
Extent == 0 .. (CAPACITY - 1) \div SECTOR_SIZE

\* The last extent may end behind the drive.
BlockAt(b) == IF b < CAPACITY THEN disk[b] ELSE Blank

Store == INSTANCE ExtentStore
  WITH Extents <- Extent, ExtentSize <- SECTOR_SIZE,
       store <- [e \in Extent |-> [i \in 0 .. SECTOR_SIZE - 1 |-> BlockAt(e * SECTOR_SIZE + i)]],
       put <- IF job.op = "write" THEN moved \div WORDS ELSE 0

ImplementsExtentStore == Store!SSpec

\* Every transfer comes to an end, one of no sectors too, and one that is shorter than
\* what the drive understood: both leave it asking for data, until it is reset.
TransfersReturn == job # NoJob ~> job = NoJob

\* What ideInit copes with: a primary channel with a control port that answers, and
\* no second disk on the secondary one.  With one, or with a secondary channel that
\* answers everything, it polls the primary for ever, unless that is in error.
Supported == \/ machine.primary # "floating" /\ machine.secondary \in {"none", "atapi"}
             \/ machine.primary = "atapi"
             \/ machine.primary = "floating" /\ machine.secondary = "floating"

\* ideInit comes to an end on the machines it copes with.
InitReturns == Supported ~> pc \notin InitPoints
=============================================================================
