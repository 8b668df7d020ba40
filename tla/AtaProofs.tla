------------------------------ MODULE AtaProofs ------------------------------
(***************************************************************************)
(* Proofs about the disk driver, for every drive and every size of sectors *)
(* and registers: the types of its registers and variables, whatever       *)
(* careful callers ask for, and, when they ask for one sector at a time    *)
(* (MaxSectors <= 1), that no word is moved that the drive does not ask    *)
(* for, and that the driver implements ExtentStore.                        *)
(***************************************************************************)
EXTENDS Ata, NumberLemmas

-----------------------------------------------------------------------------
(* The invariant *)

\* Where a transfer is under way, at first and when the drive has part in it.
JobPoints   == {"check", "wait_idle", "wait_data", "move", "wait_end"}
DrivePoints == JobPoints \ {"check"}

IsJob(j) ==
  /\ j.op \in {"read", "write"}
  /\ j.sector \in Sectors /\ j.n \in Counts
  /\ j.op = "write" => j.data \in [1 .. j.n -> Blocks]

\* The address of the first block; the blocks that were moved, and the words of the
\* present one.
Base        == job.sector * SECTOR_SIZE
BlocksMoved == moved \div WORDS
WordsMoved  == moved % WORDS

\* A job is there while the driver works on it, and only a careful one goes past the
\* range check.
JobInv ==
  /\ pc \in InitPoints \union {"idle"} => job = NoJob
  /\ pc \in JobPoints => IsJob(job)
  /\ pc = "check" => Careful(job.op, job.sector, job.n) \/ OutOfRange(job.sector, job.n)
  /\ pc \in DrivePoints => Careful(job.op, job.sector, job.n)
  /\ pc \notin {"move", "wait_end"} => moved = 0 /\ got = <<>>
  /\ pc = "wait_end" => moved = job.n * WORDS

\* What the drive is about at each point of the driver.
Busy == drive.bsy /\ ~ drive.drq
Asks == ~ drive.bsy /\ drive.drq

Done(cmds) == ~ drive.drq /\ drive.cmd \in cmds

BeforeTransferInv ==
  /\ pc \in {"primary_status", "primary_busy", "primary_data"} =>
       drive.cmd = "identify" /\ (Busy \/ Asks)
  /\ pc \in {"boot", "secondary_status", "secondary_busy", "secondary_data", "idle", "check"} =>
       Done({"none", "reset"}) /\ ~ drive.bsy
  /\ pc = "wait_idle" =>
       /\ Done({"none", "reset"})
       /\ drive.high = IF job.op = "read" THEN 0 ELSE Lba(job.sector) \div LOW_MOD
  /\ pc # "move" => drive.words = <<>>

\* A transfer of one block: the drive has asked for it, and for no other one, when the
\* first of its words is moved.  Once the last is moved the drive may ask for another
\* block, or be in error about it, until it is reset.
TransferInv ==
  /\ pc = "wait_data" =>
       /\ drive.cmd = job.op /\ (Busy \/ Asks)
       /\ Here(drive) < CAPACITY
       /\ job.n # 0 => Here(drive) = Base
  /\ pc = "move" /\ moved < job.n * WORDS =>
       /\ drive.cmd = job.op /\ Asks
       /\ Here(drive) = Base + BlocksMoved
       /\ Len(drive.words) = WordsMoved
  /\ pc = "wait_end" => Done({"reset"})

NoError == pc # "move" \/ moved < job.n * WORDS => ~ drive.err

\* What an ATA drive is about while callers ask for one sector at a time, which is what the
\* drive counts after a reset, and the least it may count before the first.
DriveInv ==
  MaxSectors <= 1 /\ machine.primary = "ata" => NoError /\ BeforeTransferInv /\ TransferInv

\* Whatever callers ask for, a drive that asks for data has a block left.
Transferring == {"identify", "read", "write"}

LeftInv ==
  /\ drive.drq => drive.cmd \in Transferring
  /\ drive.cmd \in Transferring => drive.left # 0

Inv == TypeOK /\ JobInv /\ LeftInv /\ DriveInv

\* What was read is what is on the disk, and what the drive was given of a block is
\* what the caller passed.
DataInv ==
  /\ pc \in {"move", "wait_end"} /\ job.op = "read" =>
       \A i \in 0 .. moved - 1 : got[i + 1] = disk[Base + (i \div WORDS)][(i % WORDS) + 1]
  /\ pc = "move" /\ job.op = "write" /\ moved < job.n * WORDS =>
       \A i \in 1 .. Len(drive.words) : drive.words[i] = job.data[BlocksMoved + 1][i]

-----------------------------------------------------------------------------
(* Types *)

Drive == [bsy : BOOLEAN, drq : BOOLEAN, err : BOOLEAN,
          cmd : {"none", "identify", "read", "write", "flush", "reset"},
          high : Nat, low : Nat, count : 0 .. COUNT_MOD - 1, left : 0 .. COUNT_MOD,
          words : Seq(Word)]

LEMMA Sizes ==
  /\ WORDS \in Nat \ {0} /\ SECTOR_SIZE \in Nat \ {0}
  /\ WordMod \in Nat \ {0} /\ ByteMod \in Nat \ {0} /\ LBA_MOD \in Nat \ {0}
  /\ LOW_MOD \in Nat \ {0} /\ CAPACITY \in Nat \ {0}
  /\ COUNT_MOD \in Nat /\ COUNT_MOD >= 2
<1>1. SECTOR_SIZE \in Nat \ {0, 1} /\ COUNT_MOD \in Nat \ {0, 1}
  BY AtaAssumption
<1>2. WORDS \in Nat \ {0}
  BY <1>1 DEF WORDS
<1> QED BY <1>1, <1>2, AtaAssumption

LEMMA Words ==
  /\ ByteMod - 1 \in Byte
  /\ Blank \in [1 .. WORDS -> Word]
  /\ [lo |-> ByteMod - 1, hi |-> ByteMod - 1] \in Word
BY Sizes, AtaAssumption DEF Byte, Word

\* A job, or none, asks for a number of words.
LEMMA JobTypes ==
  ASSUME job = NoJob \/ IsJob(job)
  PROVE  /\ job.n \in Nat /\ job.sector \in Nat /\ job.n * WORDS \in Nat /\ Base \in Nat
         /\ job.op \in {"none", "read", "write"}
<1>1. job.n \in Nat /\ job.sector \in Nat
  <2>1. \A x \in Sectors \union Counts : x \in Nat
    BY AtaAssumption
  <2>2. ASSUME IsJob(job) PROVE job.n \in Nat /\ job.sector \in Nat
    BY <2>1, <2>2 DEF IsJob
  <2>3. ASSUME job = NoJob PROVE job.n \in Nat /\ job.sector \in Nat
    BY <2>3 DEF NoJob
  <2> QED BY <2>2, <2>3
<1>2. job.op \in {"none", "read", "write"}
  BY DEF NoJob, IsJob
<1> QED BY <1>1, <1>2, Sizes DEF Base

LEMMA Jobs ==
  ASSUME TypeOK, JobInv
  PROVE  /\ job = NoJob \/ IsJob(job)
         /\ moved \in Nat /\ moved <= job.n * WORDS
<1>1. job = NoJob \/ IsJob(job)
  BY DEF TypeOK, JobInv, Points, JobPoints
<1>2. moved \in 0 .. job.n * WORDS /\ job.n * WORDS \in Nat
  BY <1>1, JobTypes DEF TypeOK
<1> QED BY <1>1, <1>2

\* What a careful job is.
LEMMA CarefulJob ==
  ASSUME TypeOK, JobInv, pc \in DrivePoints
  PROVE  /\ machine.primary = "ata" /\ IsJob(job)
         /\ job.n \in Nat /\ job.sector \in Nat /\ Base \in Nat
         /\ MaxSectors <= 1 => job.n <= 1
         /\ Base + job.n <= CAPACITY /\ Base < CAPACITY
         /\ Lba(job.sector) = Base
         /\ Base \div LOW_MOD \in Nat /\ Base % LOW_MOD \in 0 .. LOW_MOD - 1
         /\ ((Base \div LOW_MOD) * LOW_MOD) + (Base % LOW_MOD) = Base
         /\ job.op = "read" /\ job.n # 0 => Base % LOW_MOD = Base
         /\ job.op = "read" => Base % LOW_MOD < CAPACITY
<1>1. IsJob(job) /\ Careful(job.op, job.sector, job.n)
  BY DEF JobInv, DrivePoints
<1>2. job.n \in Nat /\ job.sector \in Nat /\ Base \in Nat
  BY <1>1, JobTypes
<1>3. /\ machine.primary = "ata"
      /\ Base < LBA_MOD
      /\ Base + job.n <= CAPACITY /\ Base < CAPACITY
      /\ job.n <= MaxSectors /\ MaxSectors \in Nat
      /\ job.op = "read" => Base + job.n <= LOW_MOD
  BY <1>1, AtaAssumption DEF Careful, Base
<1>4. Lba(job.sector) = Base % LBA_MOD
  BY DEF Lba, Base
<1> HIDE DEF Base
<1>5. Base % LBA_MOD = Base
  <2>1. Base \in 0 .. LBA_MOD - 1 /\ Base = (0 * LBA_MOD) + Base /\ 0 \in Int /\ Base \in Int
    BY <1>2, <1>3, Sizes
  <2> QED BY <2>1, Sizes, DivModUnique
<1>6. /\ Base \div LOW_MOD \in Nat /\ Base % LOW_MOD \in 0 .. LOW_MOD - 1
      /\ ((Base \div LOW_MOD) * LOW_MOD) + (Base % LOW_MOD) = Base
  BY <1>2, Sizes, NextPlace
<1>7. ASSUME job.op = "read", job.n # 0 PROVE Base % LOW_MOD = Base
  <2>1. Base \in 0 .. LOW_MOD - 1 /\ Base = (0 * LOW_MOD) + Base /\ 0 \in Int /\ Base \in Int
    BY <1>2, <1>3, <1>7, Sizes
  <2> QED BY <2>1, Sizes, DivModUnique
<1>8. ASSUME job.op = "read" PROVE Base % LOW_MOD < CAPACITY
  <2>1. CASE Base < LOW_MOD
    <3>1. Base \in 0 .. LOW_MOD - 1 /\ Base = (0 * LOW_MOD) + Base /\ 0 \in Int /\ Base \in Int
      BY <1>2, <2>1, Sizes
    <3>2. Base % LOW_MOD = Base
      BY <3>1, Sizes, DivModUnique
    <3> QED BY <1>3, <3>2
  <2>2. CASE Base = LOW_MOD
    <3>1. 0 \in 0 .. LOW_MOD - 1 /\ Base = (1 * LOW_MOD) + 0 /\ 1 \in Int /\ Base \in Int
      BY <1>2, <2>2, Sizes
    <3>2. Base % LOW_MOD = 0
      BY <3>1, Sizes, DivModUnique
    <3> QED BY <3>2, Sizes
  <2> QED BY <1>2, <1>3, <1>8, <2>1, <2>2, Sizes
<1>9. MaxSectors <= 1 => job.n <= 1
  BY <1>2, <1>3
<1> QED BY <1>1, <1>2, <1>3, <1>4, <1>5, <1>6, <1>7, <1>8, <1>9

\* The place in a transfer: the next word is in the same block, or the first of the
\* next one, and the last word of the last block is the last.
LEMMA Place ==
  ASSUME TypeOK, JobInv, pc = "move", moved < job.n * WORDS
  PROVE  /\ BlocksMoved \in Nat /\ BlocksMoved < job.n
         /\ WordsMoved \in 0 .. WORDS - 1
         /\ (BlocksMoved * WORDS) + WordsMoved = moved
         /\ WordsMoved + 1 < WORDS =>
              /\ (moved + 1) \div WORDS = BlocksMoved /\ (moved + 1) % WORDS = WordsMoved + 1
              /\ moved + 1 < job.n * WORDS
         /\ WordsMoved + 1 = WORDS =>
              /\ (moved + 1) \div WORDS = BlocksMoved + 1 /\ (moved + 1) % WORDS = 0
              /\ moved + 1 <= job.n * WORDS
              /\ moved + 1 < job.n * WORDS => BlocksMoved + 1 < job.n
              /\ moved + 1 = job.n * WORDS <=> BlocksMoved + 1 = job.n
<1> DEFINE b == BlocksMoved
           w == WordsMoved
           n == job.n
<1>1. moved \in Nat /\ n \in Nat /\ n * WORDS \in Nat /\ WORDS \in Nat \ {0}
  BY Jobs, JobTypes, Sizes
<1>2. /\ b \in Nat /\ w \in 0 .. WORDS - 1 /\ (b * WORDS) + w = moved
      /\ w + 1 < WORDS => (moved + 1) \div WORDS = b /\ (moved + 1) % WORDS = w + 1
      /\ w + 1 = WORDS => (moved + 1) \div WORDS = b + 1 /\ (moved + 1) % WORDS = 0
  BY <1>1, NextPlace DEF BlocksMoved, WordsMoved
<1>3. moved < n * WORDS
  OBVIOUS
<1> HIDE DEF b, w, n
<1>4. /\ b * WORDS \in Nat /\ (b + 1) * WORDS = (b * WORDS) + WORDS
      /\ n <= b => n * WORDS <= b * WORDS
      /\ b + 1 <= n => (b + 1) * WORDS <= n * WORDS
      /\ n <= b + 1 => n * WORDS <= (b + 1) * WORDS
      /\ b + 2 <= n => (b + 2) * WORDS <= n * WORDS
      /\ (b + 2) * WORDS = (b * WORDS) + WORDS + WORDS
  BY <1>1, <1>2
<1>5. b < n
  BY <1>1, <1>2, <1>3, <1>4
<1>6. /\ w + 1 < WORDS => moved + 1 < n * WORDS
      /\ w + 1 = WORDS =>
           /\ moved + 1 <= n * WORDS
           /\ moved + 1 < n * WORDS => b + 1 < n
           /\ moved + 1 = n * WORDS <=> b + 1 = n
  BY <1>1, <1>2, <1>3, <1>4, <1>5
<1> QED BY <1>2, <1>5, <1>6 DEF b, w, n

-----------------------------------------------------------------------------
(* What the drive makes of a command, a reset and the end of a block *)

LEMMA AtaStatus ==
  ASSUME machine.primary = "ata"
  PROVE  Status = [bsy |-> drive.bsy, drq |-> drive.drq, err |-> drive.err]
BY DEF Status

LEMMA HereIs ==
  ASSUME NEW d \in Drive
  PROVE  /\ Here(d) \in Nat /\ Here(d) = (d.high * LOW_MOD) + d.low
         /\ d.high * LOW_MOD \in Nat /\ d.low \in Nat
<1> DEFINE h == d.high
<1>1. h \in Nat /\ LOW_MOD \in Nat /\ d.low \in Nat
  BY Sizes DEF Drive
<1> HIDE DEF h
<1>2. h * LOW_MOD \in Nat
  BY <1>1
<1>3. (h * LOW_MOD) + d.low \in Nat
  BY <1>1, <1>2
<1> QED BY <1>1, <1>2, <1>3 DEF Here, h

LEMMA CommandedEffect ==
  ASSUME NEW d \in Drive, NEW cmd \in {"identify", "read", "write"}, ~ d.bsy
  PROVE  LET c == Commanded(d, cmd)
         IN  /\ c \in Drive /\ c.cmd = cmd
             /\ c.bsy /\ ~ c.drq /\ ~ c.err
             /\ c.high = d.high /\ c.low = d.low /\ c.words = <<>>
             /\ c.left # 0
<1>1. (IF d.count = 0 THEN COUNT_MOD ELSE d.count) \in (0 .. COUNT_MOD) \ {0}
  BY Sizes DEF Drive
<1>2. <<>> \in Seq(Word)
  OBVIOUS
<1> QED BY <1>1, <1>2 DEF Commanded, Drive

LEMMA ResetEffect ==
  ASSUME NEW d \in Drive
  PROVE  LET r == Reset(d)
         IN  /\ r \in Drive /\ r.cmd = "reset"
             /\ r.bsy /\ ~ r.drq /\ ~ r.err
             /\ r.high = 0 /\ r.words = <<>>
<1>1. <<>> \in Seq(Word) /\ 1 \in 0 .. COUNT_MOD - 1 /\ 0 \in Nat /\ 1 \in Nat
  BY Sizes
<1> QED BY <1>1 DEF Reset, Drive

LEMMA NextBlockEffect ==
  ASSUME NEW d \in Drive, d.left # 0, machine \in Machines
  PROVE  LET b == NextBlock(d)
         IN  /\ b \in Drive /\ b.words = <<>> /\ b.err = d.err /\ b.high = d.high
             /\ d.left = 1 => ~ b.drq /\ b.cmd = "none"
             /\ d.left # 1 => b.cmd = d.cmd /\ b.left # 0
<1>1. machine.prompt \in BOOLEAN /\ (~ machine.prompt) \in BOOLEAN
  <2>1. machine \in [primary : Attached, secondary : Attached, prompt : BOOLEAN]
    BY AtaAssumption
  <2>2. machine.prompt \in BOOLEAN
    BY <2>1
  <2>3. (~ machine.prompt) \in BOOLEAN
    <3>1. CASE machine.prompt = TRUE
      BY <3>1
    <3>2. CASE machine.prompt = FALSE
      BY <3>2
    <3> QED BY <2>2, <3>1, <3>2
  <2> QED BY <2>2, <2>3
<1>2. /\ d.left - 1 \in 0 .. COUNT_MOD /\ (d.left # 1 => d.left - 1 # 0)
      /\ d.low + 1 \in Nat /\ <<>> \in Seq(Word)
  BY Sizes DEF Drive
<1>3. CASE d.left = 1
  <2> DEFINE busy == ~ machine.prompt
  <2>1. NextBlock(d) = [d EXCEPT !.drq = FALSE, !.bsy = busy, !.cmd = "none",
                                 !.left = 0, !.words = <<>>]
    BY <1>3 DEF NextBlock
  <2>2. busy \in BOOLEAN /\ 0 \in 0 .. COUNT_MOD /\ <<>> \in Seq(Word)
    BY <1>1, <1>2, Sizes
  <2> HIDE DEF busy
  <2>3. [d EXCEPT !.drq = FALSE, !.bsy = busy, !.cmd = "none", !.left = 0, !.words = <<>>]
          \in Drive
    BY <2>2 DEF Drive
  <2> QED BY <1>3, <2>1, <2>3 DEF Drive
<1>4. CASE d.left # 1
  <2> DEFINE busy == ~ machine.prompt
             left == d.left - 1
  <2>1. NextBlock(d) = [d EXCEPT !.drq = machine.prompt, !.bsy = busy,
                                 !.low = d.low + 1, !.left = left, !.words = <<>>]
    BY <1>4 DEF NextBlock, Drive
  <2>2. busy \in BOOLEAN /\ left \in 0 .. COUNT_MOD /\ left # 0
    BY <1>1, <1>2, <1>4
  <2> HIDE DEF busy, left
  <2> QED BY <1>1, <1>2, <1>4, <2>1, <2>2 DEF Drive
<1> QED BY <1>3, <1>4

-----------------------------------------------------------------------------
(* The drive's own step *)

LEMMA JobFrame ==
  ASSUME JobInv, UNCHANGED <<machine, num_sectors, pc, job, moved, got>>
  PROVE  JobInv'
BY DEF JobInv, Careful, OutOfRange

LEMMA ReadyStep ==
  ASSUME Inv, DriveReady
  PROVE  Inv'
<1>1. /\ machine.primary \in {"ata", "atapi"} /\ drive.bsy
      /\ UNCHANGED <<machine, disk, num_sectors, pc, job, moved, got, answer>>
      /\ drive \in Drive
  BY DEF DriveReady, Inv, TypeOK, Drive
<1> DEFINE drq == /\ machine.primary = "ata"
                  /\ \/ drive.cmd = "identify"
                     \/ drive.cmd \in {"read", "write"} /\ Here(drive) < CAPACITY
           err == IF machine.primary = "atapi" THEN drive.cmd \in {"identify", "read", "write"}
                  ELSE drive.cmd \in {"read", "write"} /\ Here(drive) >= CAPACITY
<1>2. drive' = [drive EXCEPT !.bsy = FALSE, !.drq = drq, !.err = err]
  BY DEF DriveReady
<1>3. drq \in BOOLEAN /\ err \in BOOLEAN
  <2>1. CASE machine.primary = "atapi"
    BY <2>1
  <2>2. CASE machine.primary # "atapi"
    BY <2>2
  <2> QED BY <2>1, <2>2
<1> HIDE DEF drq, err
<1>4. /\ drive' \in Drive /\ drive'.bsy = FALSE /\ drive'.drq = drq /\ drive'.err = err
      /\ drive'.cmd = drive.cmd /\ drive'.high = drive.high /\ drive'.low = drive.low
      /\ drive'.left = drive.left /\ drive'.words = drive.words
  BY <1>1, <1>2, <1>3 DEF Drive
<1>5. TypeOK'
  BY <1>1, <1>4 DEF Inv, TypeOK, Drive
<1>6. JobInv'
  BY <1>1, JobFrame DEF Inv
<1>7. ASSUME MaxSectors <= 1, machine.primary = "ata"
      PROVE  NoError /\ BeforeTransferInv /\ TransferInv
  BY <1>7 DEF Inv, DriveInv
<1>8. ASSUME MaxSectors <= 1, machine.primary = "ata"
      PROVE  (NoError /\ BeforeTransferInv /\ TransferInv)'
  <2>1. Here(drive)' = Here(drive) /\ Here(drive') = Here(drive)
    BY <1>4 DEF Here
  <2>2. drq = (drive.cmd = "identify"
               \/ (drive.cmd \in {"read", "write"} /\ Here(drive) < CAPACITY))
    BY <1>8 DEF drq
  <2>3. pc # "move" \/ moved < job.n * WORDS => ~ err
    <3> SUFFICES ASSUME pc # "move" \/ moved < job.n * WORDS PROVE ~ err
      OBVIOUS
    <3>1. ASSUME drive.cmd \in {"read", "write"} PROVE Here(drive) < CAPACITY
      <4>1. pc \in Points /\ BeforeTransferInv /\ TransferInv /\ drive.bsy
        BY <1>1, <1>7, <1>8 DEF Inv, TypeOK
      <4>2. pc \in {"wait_data"}
        BY <3>1, <4>1 DEF Points, InitPoints, BeforeTransferInv, TransferInv, Done, Asks
      <4> QED BY <4>1, <4>2 DEF TransferInv
    <3>2. Here(drive) \in Int /\ CAPACITY \in Int
      BY <1>1, HereIs, Sizes
    <3> QED BY <1>8, <3>1, <3>2 DEF err
  <2>4. UNCHANGED <<Base, BlocksMoved, WordsMoved>>
    BY <1>1 DEF Base, BlocksMoved, WordsMoved
  <2>5. drive.cmd \in {"none", "reset"} => ~ drq
    BY <2>2
  <2>6. drive.cmd \in {"read", "write"} /\ Here(drive) < CAPACITY => drq
    BY <2>2
  <2>7. drive.cmd = "identify" => drq
    BY <2>2
  <2>8. BeforeTransferInv'
    BY <1>1, <1>4, <1>7, <1>8, <2>5, <2>7 DEF BeforeTransferInv, Done, Busy, Asks, Lba
  <2>9. job.op \in {"read", "write"} \/ pc # "wait_data"
    BY DEF Inv, JobInv, JobPoints, IsJob
  <2>10. TransferInv'
    BY <1>1, <1>4, <1>7, <1>8, <2>1, <2>4, <2>5, <2>6, <2>9 DEF TransferInv, Done, Busy, Asks
  <2>11. NoError'
    BY <1>1, <1>4, <2>3 DEF NoError
  <2> QED BY <2>8, <2>10, <2>11
<1>9. LeftInv'
  <2>1. drq => drive.cmd \in Transferring
    BY DEF drq, Transferring
  <2> QED BY <1>4, <2>1 DEF Inv, LeftInv
<1> QED BY <1>5, <1>6, <1>8, <1>9, <1>1 DEF Inv, DriveInv

-----------------------------------------------------------------------------
(* Identification *)

LEMMA CommandedType ==
  ASSUME NEW d \in Drive, NEW cmd \in {"identify", "read", "write"}
  PROVE  Commanded(d, cmd) \in Drive
<1>1. CASE d.bsy
  BY <1>1 DEF Commanded
<1>2. CASE ~ d.bsy
  BY <1>2, CommandedEffect
<1> QED BY <1>1, <1>2

LEMMA TypeFrame ==
  ASSUME TypeOK, UNCHANGED <<machine, disk, num_sectors, job, moved, got>>,
         drive' \in Drive, Len(drive'.words) < WORDS, pc' \in Points
  PROVE  TypeOK'
BY DEF TypeOK, Drive

LEMMA NoJobFrame ==
  ASSUME JobInv, pc \in InitPoints, pc' \in InitPoints \union {"idle"},
         UNCHANGED <<job, moved, got>>
  PROVE  JobInv'
BY DEF JobInv, InitPoints, JobPoints, DrivePoints

LEMMA InitSteps ==
  ASSUME Inv,
         \/ FloatingBus \/ ideInit
         \/ \E c \in {"primary", "secondary"} :
              ReadStatus(c) \/ WaitBusy(c) \/ WaitIdentification(c)
  PROVE  Inv'
<1>1. /\ TypeOK /\ JobInv /\ LeftInv /\ DriveInv
      /\ drive \in Drive /\ Len(drive.words) < WORDS
  BY DEF Inv, TypeOK, Drive
<1>2. ASSUME MaxSectors <= 1, machine.primary = "ata", pc \in InitPoints
      PROVE  /\ ~ drive.err /\ BeforeTransferInv
             /\ Status.bsy = drive.bsy /\ Status.drq = drive.drq /\ Status.err = drive.err
  BY <1>1, <1>2, AtaStatus DEF DriveInv, NoError, InitPoints
<1>3. CASE FloatingBus
  <2>1. /\ pc = "boot" /\ pc' = "idle" /\ machine.primary = "floating"
        /\ UNCHANGED <<machine, disk, drive, num_sectors, job, moved, got>>
    BY <1>3 DEF FloatingBus
  <2>2. TypeOK' /\ JobInv'
    BY <1>1, <2>1, TypeFrame, NoJobFrame DEF Points, InitPoints
  <2> QED BY <1>1, <2>1, <2>2 DEF Inv, LeftInv, DriveInv
<1>4. CASE ideInit
  <2> DEFINE d == [drive EXCEPT !.high = 0, !.low = 0]
  <2>1. /\ pc = "boot" /\ pc' = "primary_status" /\ num_sectors' \in Leftovers
        /\ drive' = Commanded(d, "identify")
        /\ UNCHANGED <<machine, disk, job, moved, got>>
    BY <1>4 DEF ideInit
  <2>2. /\ d \in Drive /\ d.bsy = drive.bsy /\ d.words = drive.words
        /\ d.drq = drive.drq /\ d.cmd = drive.cmd /\ d.left = drive.left
    BY <1>1 DEF Drive
  <2> HIDE DEF d
  <2>3. drive' \in Drive
    BY <2>1, <2>2, CommandedType
  <2>4. Len(drive'.words) < WORDS
    <3>1. CASE d.bsy
      BY <1>1, <2>1, <2>2, <3>1 DEF Commanded
    <3>2. CASE ~ d.bsy
      <4>1. drive'.words = <<>>
        BY <2>1, <2>2, <3>2, CommandedEffect
      <4> QED BY <4>1, Sizes
    <3> QED BY <3>1, <3>2
  <2>5. TypeOK'
    <3>1. num_sectors' \in 0 .. WordMod - 1
      BY <2>1, AtaAssumption
    <3> QED BY <1>1, <2>1, <2>3, <2>4, <3>1 DEF TypeOK, Drive, Points, InitPoints
  <2>6. JobInv'
    BY <1>1, <2>1, NoJobFrame DEF InitPoints
  <2>7. ASSUME MaxSectors <= 1, machine.primary = "ata"
        PROVE  (NoError /\ BeforeTransferInv /\ TransferInv)'
    <3>1. ~ d.bsy
      BY <1>2, <2>1, <2>2, <2>7 DEF BeforeTransferInv, InitPoints
    <3>2. drive'.cmd = "identify" /\ drive'.bsy /\ ~ drive'.drq /\ ~ drive'.err
          /\ drive'.words = <<>>
      BY <2>1, <2>2, <3>1, CommandedEffect
    <3> QED BY <2>1, <3>2 DEF NoError, BeforeTransferInv, TransferInv, Busy
  <2>8. LeftInv'
    <3>1. CASE d.bsy
      BY <1>1, <2>1, <2>2, <3>1 DEF Commanded, LeftInv
    <3>2. CASE ~ d.bsy
      BY <2>1, <2>2, <3>2, CommandedEffect DEF LeftInv, Transferring
    <3> QED BY <3>1, <3>2
  <2> QED BY <2>1, <2>5, <2>6, <2>7, <2>8 DEF Inv, DriveInv
<1>5. ASSUME NEW c \in {"primary", "secondary"}, ReadStatus(c) \/ WaitBusy(c)
      PROVE  Inv'
  <2>1. /\ UNCHANGED <<machine, disk, drive, num_sectors, job, moved, got>>
        /\ pc \in InitPoints /\ pc' \in InitPoints \union {"idle"}
        /\ c = "primary" => pc \in {"primary_status", "primary_busy"}
        /\ c = "secondary" => pc \in {"secondary_status", "secondary_busy"}
        /\ c = "primary" /\ machine.primary = "ata" => pc' \in {"primary_busy", "primary_data"}
        /\ c = "secondary" => pc' \in {"secondary_busy", "secondary_data", "idle"}
    <3>1. CASE c = "primary"
      <4>1. /\ Channel[c].status = "primary_status" /\ Channel[c].busy = "primary_busy"
            /\ Channel[c].data = "primary_data"
        BY <3>1 DEF Channel
      <4>2. machine[c] = machine.primary
        BY <3>1
      <4>3. Identified(c) <=> pc' = "secondary_status"
        BY <3>1 DEF Identified
      <4> QED BY <1>5, <3>1, <4>1, <4>2, <4>3 DEF ReadStatus, WaitBusy, NotThere, InitPoints
    <3>2. CASE c = "secondary"
      <4>1. /\ Channel[c].status = "secondary_status" /\ Channel[c].busy = "secondary_busy"
            /\ Channel[c].data = "secondary_data"
        BY <3>2 DEF Channel
      <4>2. Identified(c) <=> pc' = "idle"
        BY <3>2 DEF Identified
      <4> QED BY <1>5, <3>2, <4>1, <4>2 DEF ReadStatus, WaitBusy, InitPoints
    <3> QED BY <3>1, <3>2
  <2>2. TypeOK' /\ JobInv'
    BY <1>1, <2>1, TypeFrame, NoJobFrame DEF Points
  <2>3. ASSUME MaxSectors <= 1, machine.primary = "ata"
        PROVE  (NoError /\ BeforeTransferInv /\ TransferInv)'
    BY <1>2, <1>5, <2>1, <2>3
       DEF NoError, BeforeTransferInv, TransferInv, Busy, Asks, Done, InitPoints
  <2> QED BY <1>1, <2>1, <2>2, <2>3 DEF Inv, LeftInv, DriveInv
<1>6. ASSUME NEW c \in {"primary", "secondary"}, WaitIdentification(c)
      PROVE  Inv'
  <2>1. /\ UNCHANGED <<machine, disk, num_sectors, job, moved, got>>
        /\ pc \in InitPoints /\ pc' \in InitPoints \union {"idle"}
        /\ c = "primary" => pc = "primary_data" /\ pc' = "secondary_status"
        /\ c = "secondary" => pc = "secondary_data" /\ pc' = "idle" /\ drive' = drive
        /\ drive' = drive \/ drive' = [drive EXCEPT !.drq = FALSE, !.cmd = "none"]
        /\ c = "primary" /\ ~ Status.err =>
             drive' = [drive EXCEPT !.drq = FALSE, !.cmd = "none"]
        /\ Status.drq \/ Status.err
    BY <1>6 DEF WaitIdentification, Channel, Identified, InitPoints
  <2>2. drive' \in Drive /\ drive'.words = drive.words
    BY <1>1, <2>1 DEF Drive
  <2>3. TypeOK' /\ JobInv'
    BY <1>1, <2>1, <2>2, TypeFrame, NoJobFrame DEF Points
  <2>4. ASSUME MaxSectors <= 1, machine.primary = "ata"
        PROVE  (NoError /\ BeforeTransferInv /\ TransferInv)'
    <3>1. CASE c = "secondary"
      BY <1>2, <2>1, <2>4, <3>1 DEF NoError, BeforeTransferInv, TransferInv, Done
    <3>2. CASE c = "primary"
      <4>1. /\ ~ drive'.drq /\ drive'.cmd = "none" /\ drive'.bsy = drive.bsy
            /\ drive'.err = drive.err
        BY <1>1, <1>2, <2>1, <2>4, <3>2 DEF Drive
      <4>2. ~ drive.bsy /\ drive.words = <<>>
        BY <1>2, <2>1, <2>4, <3>2 DEF BeforeTransferInv, Busy, Asks
      <4> QED BY <1>2, <2>1, <2>2, <2>4, <3>2, <4>1, <4>2
              DEF NoError, BeforeTransferInv, TransferInv, Done
    <3> QED BY <3>1, <3>2
  <2>5. LeftInv'
    <3>1. CASE drive' = drive
      BY <1>1, <3>1 DEF LeftInv
    <3>2. CASE drive' = [drive EXCEPT !.drq = FALSE, !.cmd = "none"]
      <4>1. ~ drive'.drq /\ drive'.cmd = "none"
        BY <1>1, <3>2 DEF Drive
      <4> QED BY <4>1 DEF LeftInv, Transferring
    <3> QED BY <2>1, <3>1, <3>2
  <2> QED BY <2>1, <2>3, <2>4, <2>5 DEF Inv, DriveInv
<1> QED BY <1>3, <1>4, <1>5, <1>6

-----------------------------------------------------------------------------
(* The steps of a transfer *)

LEMMA CallStep ==
  ASSUME Inv, NEW op \in {"read", "write"}, NEW sector \in Sectors, NEW n \in Counts, NEW data,
         op = "write" => data \in [1 .. n -> Blocks],
         Call(op, sector, n, data)
  PROVE  Inv'
<1> DEFINE called == [op |-> op, sector |-> sector, n |-> n, data |-> data]
<1>1. /\ pc = "idle" /\ pc' = "check" /\ job' = called
      /\ Careful(op, sector, n) \/ OutOfRange(sector, n)
      /\ UNCHANGED <<machine, disk, drive, num_sectors, moved, got>>
  BY DEF Call
<1>2. TypeOK /\ JobInv /\ LeftInv /\ DriveInv /\ moved = 0 /\ got = <<>>
  BY <1>1 DEF Inv, JobInv
<1>3. /\ called.op = op /\ called.sector = sector /\ called.n = n /\ called.data = data
      /\ n \in Nat /\ n * WORDS \in Nat
  BY AtaAssumption, Sizes
<1> HIDE DEF called
<1>4. TypeOK'
  <2>1. moved' \in 0 .. job'.n * WORDS /\ Len(got') = moved'
    BY <1>1, <1>2, <1>3
  <2> QED BY <1>1, <1>2, <2>1 DEF TypeOK, Points
<1>5. IsJob(job)'
  BY <1>1, <1>3 DEF IsJob
<1>6. (Careful(job.op, job.sector, job.n) \/ OutOfRange(job.sector, job.n))'
  BY <1>1, <1>3 DEF Careful, OutOfRange
<1>7. JobInv'
  BY <1>1, <1>2, <1>5, <1>6 DEF JobInv, InitPoints, JobPoints, DrivePoints
<1>8. DriveInv'
  BY <1>1, <1>2 DEF DriveInv, NoError, BeforeTransferInv, TransferInv, Done
<1>9. LeftInv'
  BY <1>1, <1>2 DEF LeftInv
<1> QED BY <1>4, <1>7, <1>8, <1>9 DEF Inv

\* Where a transfer returns from, the drive has nothing to do.
LEMMA ReturnStep ==
  ASSUME Inv, NEW a, Return(a), UNCHANGED <<machine, disk, drive, num_sectors>>,
         pc \in {"check", "wait_end"},
         MaxSectors <= 1 /\ machine.primary = "ata" => ~ drive.bsy
  PROVE  Inv'
<1>1. /\ pc' = "idle" /\ job' = NoJob /\ moved' = 0 /\ got' = <<>>
      /\ UNCHANGED <<machine, disk, drive, num_sectors>>
  BY DEF Return
<1>2. TypeOK /\ LeftInv /\ DriveInv
  BY DEF Inv
<1>3. TypeOK'
  <2>1. moved' \in 0 .. job'.n * WORDS /\ job'.op # "read" /\ got' \in Seq(Word)
    BY <1>1, Sizes DEF NoJob
  <2> QED BY <1>1, <1>2, <2>1 DEF TypeOK, Points
<1>4. JobInv'
  BY <1>1 DEF JobInv, InitPoints, JobPoints, DrivePoints
<1>5. DriveInv'
  BY <1>1, <1>2 DEF DriveInv, NoError, BeforeTransferInv, TransferInv, Done
<1>6. LeftInv'
  BY <1>1, <1>2 DEF LeftInv
<1> QED BY <1>3, <1>4, <1>5, <1>6 DEF Inv

LEMMA RangeErrorStep ==
  ASSUME Inv, RangeError
  PROVE  Inv'
<1>1. /\ pc = "check" /\ Return(Refused) /\ UNCHANGED <<machine, disk, drive, num_sectors>>
  BY DEF RangeError
<1>2. MaxSectors <= 1 /\ machine.primary = "ata" => ~ drive.bsy
  BY <1>1 DEF Inv, DriveInv, BeforeTransferInv
<1> QED BY <1>1, <1>2, ReturnStep

LEMMA WaitEndStep ==
  ASSUME Inv, WaitEnd
  PROVE  Inv'
<1> DEFINE a == IF Status.err THEN Refused
                ELSE [ok |-> TRUE, data |-> IF job.op = "read" THEN BlocksGot ELSE <<>>]
<1>1. pc = "wait_end" /\ Return(a) /\ UNCHANGED <<machine, disk, drive, num_sectors>>
  BY DEF WaitEnd
<1>2. machine.primary = "ata" => ~ drive.bsy
  BY AtaStatus DEF WaitEnd
<1> HIDE DEF a
<1> QED BY <1>1, <1>2, ReturnStep

LEMMA SelectStep ==
  ASSUME Inv, Select
  PROVE  Inv'
<1> DEFINE selected == [drive EXCEPT !.high = Lba(job.sector) \div LOW_MOD]
<1>1. /\ pc = "check" /\ pc' = "wait_idle" /\ ~ OutOfRange(job.sector, job.n)
      /\ drive' = IF job.op = "read" THEN Reset(selected) ELSE selected
      /\ UNCHANGED <<machine, disk, num_sectors, job, moved, got>>
  BY DEF Select
<1>2. /\ TypeOK /\ JobInv /\ LeftInv /\ DriveInv
      /\ drive \in Drive /\ Len(drive.words) < WORDS
      /\ IsJob(job) /\ Careful(job.op, job.sector, job.n) /\ machine.primary = "ata"
  BY <1>1 DEF Inv, TypeOK, Drive, JobInv, JobPoints, Careful
<1>3. MaxSectors <= 1 => ~ drive.err /\ Done({"none", "reset"}) /\ drive.words = <<>>
  BY <1>1, <1>2 DEF DriveInv, NoError, BeforeTransferInv
<1>4. /\ selected \in Drive /\ selected.high = Lba(job.sector) \div LOW_MOD
      /\ selected.drq = drive.drq /\ selected.err = drive.err /\ selected.cmd = drive.cmd
      /\ selected.words = drive.words /\ selected.left = drive.left
  <2>1. job.sector * SECTOR_SIZE \in Nat
    BY <1>2, JobTypes, Sizes DEF Base
  <2>2. Lba(job.sector) \in Nat
    <3> DEFINE x == job.sector * SECTOR_SIZE
    <3>1. x \in Nat /\ LBA_MOD \in Nat \ {0}
      BY <2>1, Sizes
    <3> HIDE DEF x
    <3>2. x % LBA_MOD \in 0 .. LBA_MOD - 1
      BY <3>1, NextPlace
    <3>3. x % LBA_MOD \in Nat
      BY <3>1, <3>2
    <3> QED BY <3>3 DEF x, Lba
  <2>3. Lba(job.sector) \div LOW_MOD \in Nat
    BY <2>2, Sizes, NextPlace
  <2> QED BY <1>2, <2>3 DEF Drive
<1> HIDE DEF selected
<1>5. /\ drive' \in Drive /\ LeftInv' /\ Len(drive'.words) < WORDS
      /\ MaxSectors <= 1 =>
           /\ ~ drive'.drq /\ ~ drive'.err /\ drive'.words = <<>>
           /\ drive'.cmd \in {"none", "reset"}
      /\ drive'.high = IF job.op = "read" THEN 0 ELSE Lba(job.sector) \div LOW_MOD
  <2>1. CASE job.op = "read"
    <3>1. /\ drive' \in Drive /\ ~ drive'.drq /\ ~ drive'.err /\ drive'.words = <<>>
          /\ drive'.cmd = "reset" /\ drive'.high = 0
      BY <1>1, <1>4, <2>1, ResetEffect
    <3>2. Len(drive'.words) < WORDS
      BY <3>1, Sizes
    <3> QED BY <2>1, <3>1, <3>2 DEF LeftInv, Transferring
  <2>2. CASE job.op # "read"
    BY <1>1, <1>2, <1>3, <1>4, <2>2 DEF Done, LeftInv
  <2> QED BY <2>1, <2>2
<1>6. TypeOK'
  <2>1. Len(drive'.words) < WORDS
    BY <1>5
  <2> QED BY <1>1, <1>2, <1>5, <2>1, TypeFrame DEF Points
<1>7. JobInv'
  BY <1>1, <1>2 DEF JobInv, InitPoints, JobPoints, DrivePoints, Careful, OutOfRange, IsJob
<1>8. DriveInv'
  BY <1>1, <1>5 DEF DriveInv, NoError, BeforeTransferInv, TransferInv, Done, Lba
<1> QED BY <1>5, <1>6, <1>7, <1>8 DEF Inv

\* From one point of a transfer to the next, before a word is moved.
LEMMA PointFrame ==
  ASSUME JobInv, pc \in {"wait_idle", "wait_data"}, pc' \in {"wait_data", "move"},
         UNCHANGED <<machine, num_sectors, job, moved, got>>
  PROVE  JobInv'
BY DEF JobInv, InitPoints, JobPoints, DrivePoints, Careful, OutOfRange, IsJob

LEMMA CommandStep ==
  ASSUME Inv, Command
  PROVE  Inv'
<1> DEFINE d == [drive EXCEPT !.low = Lba(job.sector) % LOW_MOD]
<1>1. /\ pc = "wait_idle" /\ pc' = "wait_data" /\ ~ Status.bsy /\ ~ Status.drq
      /\ drive' = Commanded(d, job.op)
      /\ UNCHANGED <<machine, disk, num_sectors, job, moved, got>>
  BY DEF Command
<1>2. /\ TypeOK /\ JobInv /\ DriveInv /\ drive \in Drive /\ pc \in DrivePoints
  BY <1>1 DEF Inv, TypeOK, Drive, DrivePoints, JobPoints
<1>3. /\ machine.primary = "ata" /\ job.op \in {"read", "write"}
      /\ job.n \in Nat /\ Base \in Nat
      /\ Lba(job.sector) = Base
      /\ Base < CAPACITY /\ Base \div LOW_MOD \in Nat /\ Base % LOW_MOD \in 0 .. LOW_MOD - 1
      /\ ((Base \div LOW_MOD) * LOW_MOD) + (Base % LOW_MOD) = Base
      /\ job.op = "read" /\ job.n # 0 => Base % LOW_MOD = Base
      /\ job.op = "read" => Base % LOW_MOD < CAPACITY
  BY <1>2, CarefulJob DEF IsJob
<1>4. /\ ~ drive.bsy /\ ~ drive.drq
      /\ MaxSectors <= 1 => drive.high = IF job.op = "read" THEN 0 ELSE Base \div LOW_MOD
  BY <1>1, <1>2, <1>3, AtaStatus DEF DriveInv, BeforeTransferInv
<1>6. d \in Drive /\ d.bsy = drive.bsy /\ d.high = drive.high /\ d.low = Base % LOW_MOD
  <2>1. Base % LOW_MOD \in Nat
    BY <1>3, Sizes
  <2>2. d = [drive EXCEPT !.low = Base % LOW_MOD]
    BY <1>3
  <2> HIDE DEF d
  <2> QED BY <1>2, <2>1, <2>2 DEF Drive
<1> HIDE DEF d
<1>7. /\ drive' \in Drive /\ drive'.cmd = job.op /\ drive'.bsy /\ ~ drive'.drq /\ ~ drive'.err
      /\ drive'.high = drive.high /\ drive'.low = Base % LOW_MOD /\ drive'.words = <<>>
      /\ drive'.left # 0
  BY <1>1, <1>3, <1>4, <1>6, CommandedEffect
<1>8. ASSUME MaxSectors <= 1
      PROVE  Here(drive)' < CAPACITY /\ (job.n # 0 => Here(drive)' = Base)
  <2>1. Here(drive)' = (drive.high * LOW_MOD) + (Base % LOW_MOD)
    BY <1>7 DEF Here
  <2>2. CASE job.op = "read"
    <3>1. Here(drive)' = Base % LOW_MOD
      BY <1>3, <1>4, <1>8, <2>1, <2>2, Sizes
    <3> QED BY <1>3, <2>2, <3>1
  <2>3. CASE job.op # "read"
    BY <1>3, <1>4, <1>8, <2>1, <2>3
  <2> QED BY <2>2, <2>3
<1>9. TypeOK'
  <2>1. Len(drive'.words) < WORDS
    BY <1>7, Sizes
  <2> QED BY <1>1, <1>2, <1>7, <2>1, TypeFrame DEF Points
<1>10. JobInv'
  BY <1>1, <1>2, PointFrame
<1>11. DriveInv'
  <2>1. Base' = Base
    BY <1>1 DEF Base
  <2> QED BY <1>1, <1>7, <1>8, <2>1 DEF DriveInv, NoError, BeforeTransferInv, TransferInv, Busy
<1>12. LeftInv'
  BY <1>7 DEF LeftInv
<1> QED BY <1>9, <1>10, <1>11, <1>12 DEF Inv

LEMMA WaitDataStep ==
  ASSUME Inv, WaitData
  PROVE  Inv'
<1>1. /\ pc = "wait_data" /\ pc' = "move" /\ DataRequested
      /\ UNCHANGED <<machine, disk, drive, num_sectors, job, moved, got>>
  BY DEF WaitData
<1>2. /\ TypeOK /\ JobInv /\ LeftInv /\ DriveInv
      /\ drive \in Drive /\ Len(drive.words) < WORDS
      /\ pc \in DrivePoints /\ moved = 0
  BY <1>1 DEF Inv, TypeOK, Drive, DrivePoints, JobPoints, JobInv
<1>3. machine.primary = "ata" /\ job.n \in Nat /\ Base \in Nat
  BY <1>2, CarefulJob
<1>4. ASSUME MaxSectors <= 1
      PROVE  /\ Asks /\ ~ drive.err /\ drive.cmd = job.op /\ drive.words = <<>>
             /\ job.n # 0 => Here(drive) = Base
  BY <1>1, <1>2, <1>3, <1>4, AtaStatus
     DEF DriveInv, NoError, BeforeTransferInv, TransferInv, DataRequested, Asks
<1>5. /\ job.n # 0 <=> moved < job.n * WORDS
      /\ job.n = 0 <=> moved = job.n * WORDS
      /\ moved \div WORDS = 0 /\ moved % WORDS = 0
  <2>1. 0 \in 0 .. WORDS - 1 /\ 0 = (0 * WORDS) + 0 /\ 0 \in Int /\ WORDS \in Nat \ {0}
    BY Sizes
  <2>2. 0 \div WORDS = 0 /\ 0 % WORDS = 0
    BY <2>1, DivModUnique
  <2>3. job.n * WORDS \in Nat /\ (job.n * WORDS = 0 <=> job.n = 0)
    BY <1>3, Sizes
  <2> QED BY <1>2, <1>3, <2>2, <2>3
<1>6. TypeOK'
  BY <1>1, <1>2, TypeFrame DEF Points
<1>7. JobInv'
  BY <1>1, <1>2, PointFrame
<1>8. DriveInv'
  <2>1. UNCHANGED <<Base, BlocksMoved, WordsMoved>> /\ BlocksMoved = 0 /\ WordsMoved = 0
    BY <1>1, <1>5 DEF Base, BlocksMoved, WordsMoved
  <2>2. BeforeTransferInv'
    BY <1>1 DEF BeforeTransferInv
  <2>3. ASSUME MaxSectors <= 1 PROVE TransferInv'
    <3>1. UNCHANGED <<Here(drive), Asks>>
      BY <1>1 DEF Here, Asks
    <3>2. Len(drive.words) = 0 /\ Base + 0 = Base
      BY <1>3, <1>4, <2>3
    <3> QED BY <1>1, <1>2, <1>4, <1>5, <2>1, <2>3, <3>1, <3>2 DEF TransferInv
  <2> QED BY <1>1, <1>4, <2>2, <2>3 DEF DriveInv, NoError
<1>9. LeftInv'
  BY <1>1, <1>2 DEF LeftInv
<1> QED BY <1>6, <1>7, <1>8, <1>9 DEF Inv

\* What is known while there are words to move.
LEMMA Moves ==
  ASSUME Inv, pc = "move", moved < job.n * WORDS
  PROVE  /\ TypeOK /\ JobInv /\ LeftInv /\ DriveInv
         /\ drive \in Drive /\ Len(drive.words) < WORDS /\ pc \in DrivePoints
         /\ machine.primary = "ata" /\ machine \in Machines
         /\ Base \in Nat /\ job.n \in Nat
<1>1. /\ TypeOK /\ JobInv /\ LeftInv /\ DriveInv
      /\ drive \in Drive /\ Len(drive.words) < WORDS /\ pc \in DrivePoints
      /\ machine \in Machines
  BY DEF Inv, TypeOK, Drive, DrivePoints, JobPoints
<1> QED BY <1>1, CarefulJob

\* What is known of the drive then, when callers ask for one sector at a time.
LEMMA MovesBlock ==
  ASSUME MaxSectors <= 1, Inv, pc = "move", moved < job.n * WORDS
  PROVE  /\ drive.cmd = job.op /\ Asks /\ ~ drive.err
         /\ job.n = 1 /\ BlocksMoved = 0
         /\ Here(drive) = Base + BlocksMoved
         /\ Len(drive.words) = WordsMoved
         /\ Here(drive) \in 0 .. CAPACITY - 1
<1>1. /\ TypeOK /\ JobInv /\ DriveInv /\ pc \in DrivePoints
      /\ machine.primary = "ata" /\ Base \in Nat /\ job.n \in Nat
  BY Moves
<1>2. Base + job.n <= CAPACITY /\ job.n <= 1
  BY <1>1, CarefulJob
<1>3. /\ drive.cmd = job.op /\ Asks /\ ~ drive.err
      /\ Here(drive) = Base + BlocksMoved
      /\ Len(drive.words) = WordsMoved
  BY <1>1 DEF DriveInv, NoError, TransferInv
<1>4. BlocksMoved \in Nat /\ BlocksMoved < job.n
  BY <1>1, Place
<1>5. BlocksMoved = 0 /\ job.n = 1
  BY <1>1, <1>2, <1>4
<1>6. Here(drive) \in 0 .. CAPACITY - 1
  BY <1>1, <1>2, <1>3, <1>5, Sizes
<1> QED BY <1>3, <1>5, <1>6

\* A word is moved to or from the drive, which takes or shows the next one if it asks.
LEMMA MoveStep ==
  ASSUME Inv, pc = "move", moved < job.n * WORDS, NEW x \in Word,
         drive' = IF ~ drive.drq THEN drive
                  ELSE IF Len(drive.words) + 1 = WORDS THEN NextBlock(drive)
                  ELSE [drive EXCEPT !.words = Append(@, x)],
         moved' = moved + 1, UNCHANGED <<machine, num_sectors, pc, job>>
  PROVE  /\ drive' \in Drive /\ Len(drive'.words) < WORDS
         /\ moved' \in 0 .. job'.n * WORDS
         /\ JobInv' /\ LeftInv' /\ DriveInv'
<1> DEFINE w == WordsMoved
<1>1. /\ TypeOK /\ JobInv /\ LeftInv /\ DriveInv
      /\ drive \in Drive /\ Len(drive.words) < WORDS /\ pc \in DrivePoints
      /\ machine.primary = "ata" /\ machine \in Machines
      /\ Base \in Nat /\ job.n \in Nat
  BY Moves
<1>2. moved \in Nat /\ job.n * WORDS \in Nat /\ WORDS \in Nat \ {0}
  BY <1>1, Jobs, JobTypes, Sizes
<1>3. moved' \in 0 .. job'.n * WORDS
  <2> DEFINE total == job.n * WORDS
  <2>1. total \in Nat /\ moved \in Nat /\ moved < total /\ job'.n * WORDS = total
    BY <1>2
  <2> HIDE DEF total
  <2> QED BY <2>1
<1>4. JobInv'
  BY <1>1 DEF JobInv, InitPoints, JobPoints, DrivePoints, Careful, OutOfRange, IsJob
<1>5. ASSUME drive.drq, Len(drive.words) + 1 = WORDS
      PROVE  drive' \in Drive /\ Len(drive'.words) < WORDS /\ LeftInv'
  <2>1. drive' = NextBlock(drive) /\ drive.left # 0 /\ drive.cmd \in Transferring
    BY <1>1, <1>5 DEF LeftInv
  <2>2. /\ drive' \in Drive /\ drive'.words = <<>>
        /\ drive.left = 1 => ~ drive'.drq /\ drive'.cmd = "none"
        /\ drive.left # 1 => drive'.cmd = drive.cmd /\ drive'.left # 0
    BY <1>1, <2>1, NextBlockEffect
  <2>3. Len(drive'.words) < WORDS
    BY <2>2, Sizes
  <2>4. LeftInv'
    BY <2>1, <2>2 DEF LeftInv, Transferring
  <2> QED BY <2>2, <2>3, <2>4
<1>6. ASSUME drive.drq, Len(drive.words) + 1 # WORDS
      PROVE  /\ drive' \in Drive /\ Len(drive'.words) < WORDS /\ LeftInv'
             /\ Len(drive'.words) = Len(drive.words) + 1
             /\ drive'.cmd = drive.cmd /\ drive'.bsy = drive.bsy /\ drive'.drq = drive.drq
             /\ drive'.err = drive.err /\ drive'.high = drive.high /\ drive'.low = drive.low
  <2>1. drive' = [drive EXCEPT !.words = Append(drive.words, x)]
    BY <1>1, <1>6
  <2>2. /\ Append(drive.words, x) \in Seq(Word)
        /\ Len(Append(drive.words, x)) = Len(drive.words) + 1 /\ Len(drive.words) \in Nat
    BY <1>1 DEF Drive
  <2>3. /\ drive' \in Drive /\ drive'.words = Append(drive.words, x)
        /\ drive'.cmd = drive.cmd /\ drive'.bsy = drive.bsy /\ drive'.drq = drive.drq
        /\ drive'.err = drive.err /\ drive'.left = drive.left
        /\ drive'.high = drive.high /\ drive'.low = drive.low
    BY <1>1, <2>1, <2>2 DEF Drive
  <2>4. LeftInv'
    BY <1>1, <2>3 DEF LeftInv
  <2>5. Len(drive'.words) < WORDS
    BY <1>1, <1>2, <1>6, <2>2, <2>3
  <2> QED BY <2>2, <2>3, <2>4, <2>5
<1>7. ASSUME ~ drive.drq PROVE drive' \in Drive /\ Len(drive'.words) < WORDS /\ LeftInv'
  BY <1>1, <1>7 DEF LeftInv
<1>8. ASSUME MaxSectors <= 1 PROVE (NoError /\ BeforeTransferInv /\ TransferInv)'
  <2>1. /\ drive.cmd = job.op /\ Asks /\ ~ drive.err
        /\ job.n = 1 /\ BlocksMoved = 0 /\ Here(drive) = Base + BlocksMoved
        /\ Len(drive.words) = w
    BY <1>8, MovesBlock
  <2>2. /\ w \in 0 .. WORDS - 1
        /\ w + 1 < WORDS =>
             /\ (moved + 1) \div WORDS = BlocksMoved /\ (moved + 1) % WORDS = w + 1
             /\ moved + 1 < job.n * WORDS
        /\ w + 1 = WORDS => (moved + 1 = job.n * WORDS <=> BlocksMoved + 1 = job.n)
    BY <1>1, Place
  <2>3. UNCHANGED <<Base, machine, job, pc>> /\ BlocksMoved' = (moved + 1) \div WORDS
        /\ WordsMoved' = (moved + 1) % WORDS
    BY DEF Base, BlocksMoved, WordsMoved
  <2>4. BeforeTransferInv'
    BY <2>3 DEF BeforeTransferInv
  <2> HIDE DEF w
  <2>5. CASE w + 1 < WORDS
    <3>1. /\ Len(drive'.words) = w + 1
          /\ drive'.cmd = drive.cmd /\ drive'.bsy = drive.bsy /\ drive'.drq = drive.drq
          /\ drive'.err = drive.err /\ drive'.high = drive.high /\ drive'.low = drive.low
      <4>1. drive.drq /\ Len(drive.words) + 1 # WORDS
        BY <1>2, <2>1, <2>2, <2>5 DEF Asks
      <4> QED BY <1>6, <2>1, <4>1
    <3>2. Here(drive)' = Here(drive) /\ Asks'
      BY <2>1, <3>1 DEF Here, Asks
    <3>3. TransferInv'
      BY <2>1, <2>2, <2>3, <2>5, <3>1, <3>2, <1>2 DEF TransferInv
    <3> QED BY <2>1, <2>4, <3>1, <3>3 DEF NoError
  <2>6. CASE w + 1 = WORDS
    <3>1. moved + 1 = job.n * WORDS
      BY <2>1, <2>2, <2>6
    <3>2. ~ (moved < job.n * WORDS)'
      BY <1>2, <3>1
    <3> QED BY <2>3, <2>4, <3>2 DEF NoError, TransferInv
  <2> QED BY <1>2, <2>2, <2>5, <2>6
<1> QED BY <1>3, <1>4, <1>5, <1>6, <1>7, <1>8 DEF DriveInv

\* The word the drive shows is one of the disk's.
LEMMA Shown ==
  ASSUME TypeOK
  PROVE  WordShown \in Word
<1>1. CASE drive.drq /\ Here(drive) < CAPACITY
  <2>1. /\ Here(drive) \in 0 .. CAPACITY - 1 /\ Len(drive.words) + 1 \in 1 .. WORDS
        /\ disk \in [0 .. CAPACITY - 1 -> [1 .. WORDS -> Word]]
    <3>1. drive \in Drive /\ Len(drive.words) \in Nat /\ Len(drive.words) < WORDS
      BY DEF TypeOK, Drive
    <3>2. Here(drive) \in Nat
      BY <3>1, HereIs
    <3> QED BY <1>1, <3>1, <3>2, Sizes DEF TypeOK
  <2> QED BY <1>1, <2>1 DEF WordShown
<1>2. CASE ~ (drive.drq /\ Here(drive) < CAPACITY)
  BY <1>2, Words DEF WordShown
<1> QED BY <1>1, <1>2

LEMMA ReadWordStep ==
  ASSUME Inv, ReadWord
  PROVE  Inv'
<1>1. /\ pc = "move" /\ job.op = "read" /\ moved < job.n * WORDS
      /\ got' = Append(got, WordShown) /\ moved' = moved + 1
      /\ UNCHANGED <<machine, disk, num_sectors, pc, job>>
  BY DEF ReadWord, Moving
<1>2. TypeOK
  BY DEF Inv
<1>3. WordShown \in Word
  BY <1>2, Shown
<1>4. drive' = IF ~ drive.drq THEN drive
               ELSE IF Len(drive.words) + 1 = WORDS THEN NextBlock(drive)
               ELSE [drive EXCEPT !.words = Append(@, WordShown)]
  BY DEF ReadWord
<1>5. /\ drive' \in Drive /\ Len(drive'.words) < WORDS
      /\ moved' \in 0 .. job'.n * WORDS
      /\ JobInv' /\ LeftInv' /\ DriveInv'
  BY <1>1, <1>3, <1>4, MoveStep
<1>6. got' \in Seq(Word) /\ Len(got') = moved'
  BY <1>1, <1>2, <1>3 DEF TypeOK
<1> QED BY <1>1, <1>2, <1>5, <1>6 DEF Inv, TypeOK, Drive

\* The word that is written is one the drive can take.
LEMMA ToWriteType ==
  ASSUME NEW w \in Word
  PROVE  ToWrite(w.lo, w.hi) \in Word
BY Words DEF ToWrite, Word

LEMMA WordToWriteType ==
  ASSUME Inv, pc = "move", job.op = "write", moved < job.n * WORDS
  PROVE  /\ BlocksMoved + 1 \in 1 .. job.n /\ WordsMoved + 1 \in 1 .. WORDS
         /\ job.data[BlocksMoved + 1] \in Blocks
         /\ job.data[BlocksMoved + 1][WordsMoved + 1] \in Word
         /\ WordToWrite = ToWrite(job.data[BlocksMoved + 1][WordsMoved + 1].lo,
                                  job.data[BlocksMoved + 1][WordsMoved + 1].hi)
         /\ WordToWrite \in Word
<1>1. BlocksMoved + 1 \in 1 .. job.n /\ WordsMoved + 1 \in 1 .. WORDS
  <2>1. TypeOK /\ JobInv /\ job.n \in Nat
    BY Moves
  <2>2. BlocksMoved \in Nat /\ BlocksMoved < job.n /\ WordsMoved \in 0 .. WORDS - 1
    BY <2>1, Place
  <2> QED BY <2>1, <2>2, Sizes
<1>2. job.data \in [1 .. job.n -> Blocks]
  BY Moves, CarefulJob DEF IsJob
<1>3. job.data[BlocksMoved + 1] \in Blocks /\ Blocks \subseteq [1 .. WORDS -> Word]
  BY <1>1, <1>2, AtaAssumption
<1>4. job.data[BlocksMoved + 1][WordsMoved + 1] \in Word
  BY <1>1, <1>3
<1>5. WordToWrite = ToWrite(job.data[BlocksMoved + 1][WordsMoved + 1].lo,
                            job.data[BlocksMoved + 1][WordsMoved + 1].hi)
  BY DEF WordToWrite, BlocksMoved, WordsMoved
<1> QED BY <1>1, <1>3, <1>4, <1>5, ToWriteType

LEMMA WriteWordStep ==
  ASSUME Inv, WriteWord
  PROVE  Inv'
<1> DEFINE x == WordToWrite
           words == Append(drive.words, x)
           full == drive.drq /\ Len(words) = WORDS
<1>1. /\ pc = "move" /\ job.op = "write" /\ moved < job.n * WORDS
      /\ disk' = IF full /\ Here(drive) < CAPACITY THEN [disk EXCEPT ![Here(drive)] = words]
                 ELSE disk
      /\ drive' = IF full THEN NextBlock(drive)
                  ELSE IF drive.drq THEN [drive EXCEPT !.words = words]
                  ELSE drive
      /\ moved' = moved + 1
      /\ UNCHANGED <<machine, num_sectors, pc, job, got>>
  BY DEF WriteWord, Moving
<1>2. TypeOK /\ drive \in Drive /\ Here(drive) \in Nat
  BY <1>1, Moves, HereIs
<1>3. x \in Word
  BY <1>1, WordToWriteType
<1> HIDE DEF x
<1>4. words \in Seq(Word) /\ Len(words) = Len(drive.words) + 1
  BY <1>2, <1>3 DEF Drive
<1>5. drive' = IF ~ drive.drq THEN drive
               ELSE IF Len(drive.words) + 1 = WORDS THEN NextBlock(drive)
               ELSE [drive EXCEPT !.words = Append(@, x)]
  BY <1>1, <1>2, <1>4
<1>6. /\ drive' \in Drive /\ Len(drive'.words) < WORDS
      /\ moved' \in 0 .. job'.n * WORDS
      /\ JobInv' /\ LeftInv' /\ DriveInv'
  BY <1>1, <1>3, <1>5, MoveStep
<1>7. disk' \in [0 .. CAPACITY - 1 -> [1 .. WORDS -> Word]]
  <2>1. disk \in [0 .. CAPACITY - 1 -> [1 .. WORDS -> Word]]
    BY <1>2 DEF TypeOK
  <2>2. CASE full /\ Here(drive) < CAPACITY
    <3>1. words \in [1 .. WORDS -> Word] /\ Here(drive) \in 0 .. CAPACITY - 1
      <4>0. Here(drive) \in 0 .. CAPACITY - 1
        BY <1>2, <2>2, Sizes
      <4>1. words \in Seq(Word) /\ Len(words) = WORDS
        BY <1>4, <2>2
      <4> HIDE DEF words
      <4>2. words \in [1 .. Len(words) -> Word]
        BY <4>1
      <4> QED BY <4>0, <4>1, <4>2
    <3> HIDE DEF words
    <3> QED BY <1>1, <1>2, <2>1, <2>2, <3>1
  <2>3. CASE ~ (full /\ Here(drive) < CAPACITY)
    BY <1>1, <2>1, <2>3
  <2> QED BY <2>2, <2>3
<1> QED BY <1>1, <1>2, <1>6, <1>7 DEF Inv, TypeOK, Drive

LEMMA FlushStep ==
  ASSUME Inv, FlushAndReset
  PROVE  Inv'
<1>1. /\ pc = "move" /\ pc' = "wait_end" /\ moved = job.n * WORDS
      /\ drive' = Reset(drive)
      /\ UNCHANGED <<machine, disk, num_sectors, job, moved, got>>
  BY DEF FlushAndReset, FlushedAndReset
<1>2. TypeOK /\ JobInv /\ DriveInv /\ drive \in Drive
  BY DEF Inv, TypeOK, Drive
<1>3. /\ drive' \in Drive /\ drive'.cmd = "reset" /\ drive'.bsy /\ ~ drive'.drq /\ ~ drive'.err
      /\ drive'.words = <<>>
  BY <1>1, <1>2, ResetEffect
<1>4. TypeOK'
  <2>1. Len(drive'.words) < WORDS
    BY <1>3, Sizes
  <2> QED BY <1>1, <1>2, <1>3, <2>1, TypeFrame DEF Points
<1>5. JobInv'
  BY <1>1, <1>2 DEF JobInv, InitPoints, JobPoints, DrivePoints, Careful, OutOfRange, IsJob
<1>6. DriveInv'
  BY <1>1, <1>3 DEF DriveInv, NoError, BeforeTransferInv, TransferInv, Done
<1>7. LeftInv'
  BY <1>3 DEF LeftInv, Transferring
<1> QED BY <1>4, <1>5, <1>6, <1>7 DEF Inv

-----------------------------------------------------------------------------
(* The invariant holds *)

LEMMA InitInv ==
  ASSUME Init
  PROVE  Inv
<1>1. /\ machine \in Machines /\ disk = [b \in 0 .. CAPACITY - 1 |-> Blank]
      /\ drive \in {[Idle EXCEPT !.count = c] : c \in 0 .. COUNT_MOD - 1}
      /\ num_sectors = 0 /\ pc = "boot" /\ job = NoJob
      /\ moved = 0 /\ got = <<>>
  BY DEF Init
<1>2. /\ drive \in Drive /\ drive.words = <<>> /\ Len(drive.words) < WORDS /\ ~ drive.bsy
      /\ ~ drive.drq /\ ~ drive.err /\ drive.cmd = "none"
  <2>1. <<>> \in Seq(Word) /\ Len(<<>>) = 0
    OBVIOUS
  <2>2. 0 \in 0 .. COUNT_MOD /\ 0 \in Nat
    BY Sizes
  <2>3. PICK c \in 0 .. COUNT_MOD - 1 : drive = [Idle EXCEPT !.count = c]
    BY <1>1
  <2>4. 1 \in 0 .. COUNT_MOD - 1
    BY Sizes
  <2>5. /\ Idle \in Drive /\ Idle.words = <<>> /\ ~ Idle.bsy /\ ~ Idle.drq /\ ~ Idle.err
        /\ Idle.cmd = "none"
    BY <2>1, <2>2, <2>4 DEF Idle, Drive
  <2>6. /\ drive \in Drive /\ drive.words = Idle.words /\ drive.bsy = Idle.bsy
        /\ drive.drq = Idle.drq /\ drive.err = Idle.err /\ drive.cmd = Idle.cmd
    BY <2>3, <2>5 DEF Drive
  <2> QED BY <2>1, <2>5, <2>6, Sizes
<1>3. TypeOK
  <2>1. disk \in [0 .. CAPACITY - 1 -> [1 .. WORDS -> Word]]
    BY <1>1, Words
  <2>2. moved \in 0 .. job.n * WORDS /\ num_sectors \in 0 .. WordMod - 1 /\ job.op # "read"
    BY <1>1, Sizes DEF NoJob
  <2> QED BY <1>1, <1>2, <2>1, <2>2 DEF TypeOK, Drive, Points, InitPoints
<1>4. JobInv
  BY <1>1 DEF JobInv, InitPoints, JobPoints, DrivePoints
<1>5. DriveInv
  BY <1>1, <1>2 DEF DriveInv, NoError, BeforeTransferInv, TransferInv, Done
<1>6. LeftInv
  BY <1>2 DEF LeftInv, Transferring
<1> QED BY <1>3, <1>4, <1>5, <1>6 DEF Inv

LEMMA NextInv ==
  ASSUME Inv, [Next]_vars
  PROVE  Inv'
<1>1. CASE DriveReady
  BY <1>1, ReadyStep
<1>2. ASSUME \/ FloatingBus \/ ideInit
             \/ \E c \in {"primary", "secondary"} :
                  ReadStatus(c) \/ WaitBusy(c) \/ WaitIdentification(c)
      PROVE  Inv'
  BY <1>2, InitSteps
<1>3. CASE RangeError
  BY <1>3, RangeErrorStep
<1>4. CASE Select
  BY <1>4, SelectStep
<1>5. CASE Command
  BY <1>5, CommandStep
<1>6. CASE WaitData
  BY <1>6, WaitDataStep
<1>7. CASE ReadWord
  BY <1>7, ReadWordStep
<1>8. CASE WriteWord
  BY <1>8, WriteWordStep
<1>9. CASE FlushAndReset
  BY <1>9, FlushStep
<1>10. CASE WaitEnd
  BY <1>10, WaitEndStep
<1>11. CASE ataRead
  BY <1>11, CallStep DEF ataRead
<1>12. CASE ataWrite
  BY <1>12, CallStep DEF ataWrite
<1>13. CASE UNCHANGED vars
  BY <1>13 DEF vars, Inv, TypeOK, JobInv, LeftInv, DriveInv, NoError, BeforeTransferInv,
               TransferInv, Busy, Asks, Done, Here, Base, BlocksMoved, WordsMoved, IsJob, Careful, OutOfRange, Lba
<1> QED BY <1>1, <1>2, <1>3, <1>4, <1>5, <1>6, <1>7, <1>8, <1>9, <1>10, <1>11, <1>12, <1>13
        DEF Next, Driver

LEMMA InvCorrect == Spec => []Inv
BY InitInv, NextInv, PTL DEF Spec

\* What the drive's registers hold fits them, whatever sizes they have and however many
\* sectors callers ask for, and no more words are moved than belong to the transfer.
THEOREM TypeCorrect == Spec => []TypeOK
<1>1. Inv => TypeOK
  BY DEF Inv
<1> QED BY <1>1, InvCorrect, PTL

\* The driver looks at the drive only before the first word.  In transfers of one block the
\* drive asks for every word that is moved, whatever its count was at first; in longer ones
\* it is the count, which the driver does not send, that decides.
THEOREM MovesRequested == ASSUME MaxSectors <= 1 PROVE Spec => PortOnlyWhenRequested
<1>1. ASSUME Inv, Next, moved' = moved + 1
      PROVE  ~ drive.bsy /\ drive.drq
  <2>1. moved \in Nat
    BY <1>1, Jobs DEF Inv
  <2>2. CASE moved' = moved
    BY <1>1, <2>1, <2>2
  <2>3. CASE moved' = 0
    BY <1>1, <2>1, <2>3
  <2>4. CASE ReadWord \/ WriteWord
    BY <1>1, <2>4, MovesBlock DEF ReadWord, WriteWord, Moving, Asks
  <2> QED BY <1>1, <2>2, <2>3, <2>4
          DEF Next, Driver, DriveReady, FloatingBus, ideInit, ReadStatus, WaitBusy,
              WaitIdentification, RangeError, Select, Command, WaitData, FlushAndReset, WaitEnd,
              Return, ataRead, ataWrite, Call
<1>2. Inv /\ [Next]_vars => [moved' = moved + 1 => ~ drive.bsy /\ drive.drq]_vars
  BY <1>1
<1> QED BY <1>2, InvCorrect, PTL DEF Spec, PortOnlyWhenRequested

-----------------------------------------------------------------------------
(* What is moved *)

\* The low bytes that are written are those of seven bit characters, of which the sign is
\* not extended over the high byte.
SevenBit == \A b \in Blocks, i \in 1 .. WORDS : b[i].lo < ByteMod \div 2

LEMMA WordSurvives ==
  ASSUME SevenBit, Inv, pc = "move", job.op = "write", moved < job.n * WORDS
  PROVE  WordToWrite = job.data[BlocksMoved + 1][WordsMoved + 1]
<1> DEFINE w == job.data[BlocksMoved + 1][WordsMoved + 1]
<1>1. w \in Word /\ WordToWrite = ToWrite(w.lo, w.hi)
  BY WordToWriteType
<1>2. w.lo < ByteMod \div 2
  BY WordToWriteType DEF SevenBit
<1> HIDE DEF w
<1>3. w.lo \in Nat /\ ByteMod \div 2 \in Nat
  BY <1>1, Sizes DEF Word, Byte
<1>4. WordToWrite = [lo |-> w.lo, hi |-> w.hi]
  BY <1>1, <1>2, <1>3 DEF ToWrite
<1> QED BY <1>1, <1>4 DEF w, Word

LEMMA DataFrame ==
  ASSUME DataInv, UNCHANGED <<disk, job, moved, got>>, drive'.words = drive.words,
         pc' = pc \/ (pc = "move" /\ pc' = "wait_end")
  PROVE  DataInv'
BY DEF DataInv, Base, BlocksMoved

LEMMA ReadWordData ==
  ASSUME MaxSectors <= 1, Inv, DataInv, ReadWord
  PROVE  DataInv'
<1>1. /\ pc = "move" /\ job.op = "read" /\ moved < job.n * WORDS
      /\ got' = Append(got, WordShown) /\ moved' = moved + 1
      /\ UNCHANGED <<disk, pc, job>>
  BY DEF ReadWord, Moving
<1>2. /\ drive.drq /\ TypeOK /\ JobInv /\ Here(drive) = Base + BlocksMoved
      /\ Len(drive.words) = WordsMoved /\ Here(drive) \in 0 .. CAPACITY - 1
  BY <1>1, Moves, MovesBlock DEF Asks
<1>3. WordShown = disk[Base + BlocksMoved][WordsMoved + 1]
  <2>1. Here(drive) < CAPACITY
    BY <1>2, Sizes
  <2> QED BY <1>2, <2>1 DEF WordShown
<1>4. got \in Seq(Word) /\ Len(got) = moved /\ moved \in Nat /\ WordShown \in Word
  BY <1>1, <1>2, Jobs, Shown DEF TypeOK
<1>5. ASSUME NEW i \in 0 .. moved
      PROVE  got'[i + 1] = disk[Base + (i \div WORDS)][(i % WORDS) + 1]
  <2>1. CASE i = moved
    <3>1. got'[i + 1] = WordShown
      BY <1>1, <1>4, <2>1
    <3> QED BY <1>3, <2>1, <3>1 DEF BlocksMoved, WordsMoved
  <2>2. CASE i # moved
    <3>1. i \in 0 .. moved - 1 /\ got'[i + 1] = got[i + 1]
      BY <1>1, <1>4, <2>2
    <3>2. got[i + 1] = disk[Base + (i \div WORDS)][(i % WORDS) + 1]
      BY <1>1, <3>1 DEF DataInv
    <3> QED BY <3>1, <3>2
  <2> QED BY <2>1, <2>2
<1>6. moved' - 1 = moved /\ Base' = Base /\ disk' = disk
  BY <1>1, <1>4 DEF Base
<1> QED BY <1>1, <1>5, <1>6 DEF DataInv

LEMMA WriteWordData ==
  ASSUME SevenBit, MaxSectors <= 1, Inv, DataInv, WriteWord
  PROVE  DataInv'
<1> DEFINE x == WordToWrite
           words == Append(drive.words, x)
           full == drive.drq /\ Len(words) = WORDS
<1>1. /\ pc = "move" /\ job.op = "write" /\ moved < job.n * WORDS
      /\ drive' = IF full THEN NextBlock(drive)
                  ELSE IF drive.drq THEN [drive EXCEPT !.words = words]
                  ELSE drive
      /\ moved' = moved + 1
      /\ UNCHANGED <<machine, pc, job>>
  BY DEF WriteWord, Moving
<1>2. /\ drive.drq /\ TypeOK /\ JobInv /\ drive \in Drive /\ machine \in Machines
      /\ Len(drive.words) = WordsMoved /\ drive.left # 0
      /\ job.n \in Nat
  <2>1. job.op \in Transferring
    BY <1>1 DEF Transferring
  <2> QED BY <1>1, <2>1, Moves, MovesBlock DEF Asks, LeftInv
<1>3. x \in Word /\ x = job.data[BlocksMoved + 1][WordsMoved + 1]
  BY <1>1, WordToWriteType, WordSurvives
<1> HIDE DEF x
<1>4. /\ words \in Seq(Word) /\ Len(words) = WordsMoved + 1 /\ drive.words \in Seq(Word)
      /\ Len(drive.words) \in Nat
  BY <1>2, <1>3 DEF Drive
<1>5. ASSUME NEW i \in 1 .. WordsMoved + 1
      PROVE  words[i] = job.data[BlocksMoved + 1][i]
  <2>1. CASE i = WordsMoved + 1
    BY <1>2, <1>3, <1>4, <2>1
  <2>2. CASE i # WordsMoved + 1
    <3>1. i \in 1 .. Len(drive.words) /\ words[i] = drive.words[i]
      BY <1>2, <1>3, <1>4, <2>2
    <3> QED BY <1>1, <3>1 DEF DataInv
  <2> QED BY <2>1, <2>2
<1>6. CASE full
  <2>2. drive'.words = <<>>
    BY <1>1, <1>2, <1>6, NextBlockEffect
  <2> QED BY <1>1, <2>2 DEF DataInv
<1>7. CASE ~ full
  <2>1. drive'.words = words
    BY <1>1, <1>2, <1>7 DEF Drive
  <2>2. WordsMoved + 1 < WORDS /\ WordsMoved \in 0 .. WORDS - 1
    BY <1>1, <1>2, <1>4, <1>7, Place, Sizes
  <2>3. BlocksMoved' = BlocksMoved
    BY <1>1, <1>2, <2>2, Place DEF BlocksMoved
  <2> HIDE DEF words
  <2> QED BY <1>1, <1>4, <1>5, <2>1, <2>3 DEF DataInv
<1> QED BY <1>6, <1>7

LEMMA InitData == ASSUME Init PROVE DataInv
BY DEF Init, DataInv

LEMMA NextData ==
  ASSUME SevenBit, MaxSectors <= 1, Inv, Inv', DataInv, [Next]_vars
  PROVE  DataInv'
<1>1. CASE pc' \notin {"move", "wait_end"}
  BY <1>1 DEF DataInv
<1>2. CASE DriveReady
  <2>1. drive'.words = drive.words
    BY <1>2 DEF DriveReady, Inv, TypeOK
  <2> QED BY <1>2, <2>1, DataFrame DEF DriveReady
<1>3. CASE WaitData
  <2>1. pc = "wait_data" /\ UNCHANGED <<drive, moved, got, machine, job>>
    BY <1>3 DEF WaitData
  <2>2. moved = 0 /\ machine.primary = "ata" /\ drive.words = <<>>
    <3>1. machine.primary = "ata" /\ moved = 0
      BY <2>1, CarefulJob DEF Inv, JobInv, DrivePoints, JobPoints
    <3> QED BY <2>1, <3>1 DEF Inv, DriveInv, BeforeTransferInv
  <2>3. (0 .. moved' - 1) = {} /\ 1 .. Len(drive'.words) = {}
    <3>1. Len(<<>>) = 0 /\ 0 .. 0 - 1 = {} /\ 1 .. 0 = {}
      OBVIOUS
    <3> QED BY <2>1, <2>2, <3>1
  <2> QED BY <2>3 DEF DataInv
<1>4. CASE ReadWord
  BY <1>4, ReadWordData
<1>5. CASE WriteWord
  BY <1>5, WriteWordData
<1>6. CASE FlushAndReset
  <2>1. /\ pc = "move" /\ pc' = "wait_end" /\ drive' = Reset(drive)
        /\ UNCHANGED <<disk, job, moved, got>>
    BY <1>6 DEF FlushAndReset, FlushedAndReset
  <2> QED BY <2>1 DEF DataInv, Base
<1>7. CASE UNCHANGED vars
  BY <1>7, DataFrame DEF vars
<1> QED BY <1>1, <1>2, <1>3, <1>4, <1>5, <1>6, <1>7
        DEF Next, Driver, FloatingBus, ideInit, ReadStatus, WaitBusy, WaitIdentification,
            Identified, Channel, RangeError, Select, Command, WaitEnd, Return, ataRead, ataWrite,
            Call

-----------------------------------------------------------------------------
(* The driver implements ExtentStore *)

\* The extents and the blocks put into them, as Ata maps them.
Contents == [e \in Extent |-> [i \in 0 .. SECTOR_SIZE - 1 |-> BlockAt((e * SECTOR_SIZE) + i)]]
Puts     == IF job.op = "write" THEN moved \div WORDS ELSE 0

LEMMA NothingPut == moved = 0 => Puts = 0
<1>1. 0 \in 0 .. WORDS - 1 /\ 0 = (0 * WORDS) + 0 /\ 0 \in Int /\ WORDS \in Nat \ {0}
  BY Sizes
<1>2. 0 \div WORDS = 0
  BY <1>1, DivModUnique
<1> QED BY <1>2 DEF Puts

LEMMA InitRefines == ASSUME Init PROVE Store!SInit
<1>1. \A b : BlockAt(b) = IF b < CAPACITY THEN disk[b] ELSE Blank
  BY DEF BlockAt
<1>2. ASSUME NEW e \in Extent, NEW i \in 0 .. SECTOR_SIZE - 1
      PROVE  BlockAt((e * SECTOR_SIZE) + i) = Blank
  <2> DEFINE b == (e * SECTOR_SIZE) + i
  <2>1. b \in Nat
    <3>1. e \in Nat /\ e * SECTOR_SIZE \in Nat /\ i \in Nat
      <4>1. (CAPACITY - 1) \div SECTOR_SIZE \in Nat
        BY Sizes, NextPlace
      <4> QED BY <4>1, Sizes DEF Extent
    <3> QED BY <3>1
  <2> HIDE DEF b
  <2>2. disk = [c \in 0 .. CAPACITY - 1 |-> Blank]
    BY DEF Init
  <2>3. b < CAPACITY => disk[b] = Blank
    BY <2>1, <2>2, Sizes
  <2>4. BlockAt(b) = Blank
    BY <2>3 DEF BlockAt
  <2> QED BY <2>4 DEF b
<1>3. Contents = [e \in Extent |-> [i \in 0 .. SECTOR_SIZE - 1 |-> Blank]]
  BY <1>2 DEF Contents
<1>4. Puts = 0
  BY NothingPut DEF Init
<1> QED BY <1>3, <1>4 DEF Init, Store!SInit, Contents, Puts, NoAnswer, NoJob, Store!NoJob

\* Steps that change neither the disk nor the job nor the number of blocks put.
LEMMA Stutters ==
  ASSUME UNCHANGED <<disk, job, answer>>, Puts' = Puts
  PROVE  UNCHANGED Store!svars
<1>1. Contents' = Contents
  BY DEF Contents, BlockAt
<1> QED BY <1>1 DEF Store!svars, Contents, Puts

LEMMA CallAsks ==
  ASSUME Inv, NEW op \in {"read", "write"}, NEW sector \in Sectors, NEW n \in Counts, NEW data,
         op = "write" => data \in [1 .. n -> Blocks],
         Call(op, sector, n, data)
  PROVE  Store!Ask
<1>1. /\ pc = "idle" /\ job' = [op |-> op, sector |-> sector, n |-> n, data |-> data]
      /\ UNCHANGED <<disk, moved, answer>>
  BY DEF Call
<1>2. job = NoJob /\ moved = 0
  BY <1>1 DEF Inv, JobInv
<1>3. n \in Nat
  BY AtaAssumption
<1>4. op = "write" => Len(data) = n
  <2>1. ASSUME op = "write" PROVE Len(data) = n
    <3>1. data \in Seq(Blocks)
      BY <1>3, <2>1
    <3>2. DOMAIN data = 1 .. n
      BY <2>1
    <3> QED BY <1>3, <3>1, <3>2
  <2> QED BY <2>1
<1>5. Contents' = Contents
  BY <1>1 DEF Contents, BlockAt
<1>6. Puts' = Puts
  <2>1. Puts = 0
    BY <1>2, NothingPut
  <2>2. (moved = 0 => Puts = 0)'
    BY NothingPut, PTL
  <2> QED BY <1>1, <1>2, <2>1, <2>2
<1> QED BY <1>1, <1>2, <1>4, <1>5, <1>6 DEF Store!Ask, Contents, Puts, NoJob, Store!NoJob

\* The job that has gone past the range check has an extent, in the drive.
LEMMA JobFits ==
  ASSUME MaxSectors <= 1, Inv, pc \in DrivePoints
  PROVE  /\ Store!Fits
         /\ \A i \in 0 .. job.n - 1 :
              /\ i \in 0 .. SECTOR_SIZE - 1
              /\ Contents[job.sector][i] = disk[Base + i]
<1>1. /\ job.sector \in Nat /\ job.n \in Nat /\ job.n <= SECTOR_SIZE
      /\ Base + job.n <= CAPACITY /\ Base < CAPACITY /\ Base \in Nat
  <2>1. /\ job.sector \in Nat /\ job.n \in Nat /\ job.n <= 1
        /\ Base + job.n <= CAPACITY /\ Base < CAPACITY /\ Base \in Nat
    BY CarefulJob DEF Inv
  <2>2. job.n <= SECTOR_SIZE
    BY <2>1, Sizes
  <2> QED BY <2>1, <2>2
<1>2. job.sector \in Extent
  <2> DEFINE q == (CAPACITY - 1) \div SECTOR_SIZE
             r == (CAPACITY - 1) % SECTOR_SIZE
             s == job.sector
  <2>1. /\ q \in Nat /\ r \in 0 .. SECTOR_SIZE - 1 /\ (q * SECTOR_SIZE) + r = CAPACITY - 1
        /\ s \in Nat /\ s * SECTOR_SIZE <= CAPACITY - 1 /\ SECTOR_SIZE \in Nat \ {0}
    <3>1. CAPACITY - 1 \in Nat /\ SECTOR_SIZE \in Nat \ {0}
      BY Sizes
    <3>2. q \in Nat /\ r \in 0 .. SECTOR_SIZE - 1 /\ (q * SECTOR_SIZE) + r = CAPACITY - 1
      BY <3>1, NextPlace
    <3> HIDE DEF q, r
    <3> QED BY <1>1, <3>1, <3>2, Sizes DEF Base
  <2> HIDE DEF q, r, s
  <2>2. s <= q
    <3>1. (q + 1) * SECTOR_SIZE = (q * SECTOR_SIZE) + SECTOR_SIZE
      BY <2>1
    <3>2. s >= q + 1 => s * SECTOR_SIZE >= (q + 1) * SECTOR_SIZE
      BY <2>1
    <3>3. s * SECTOR_SIZE < (q + 1) * SECTOR_SIZE
      BY <2>1, <3>1
    <3> QED BY <2>1, <3>2, <3>3
  <2>3. s \in 0 .. q
    BY <2>1, <2>2
  <2> QED BY <2>3 DEF s, q, Extent
<1>3. ASSUME NEW i \in 0 .. job.n - 1
      PROVE  /\ i \in 0 .. SECTOR_SIZE - 1
             /\ Contents[job.sector][i] = disk[Base + i]
  <2>1. i \in 0 .. SECTOR_SIZE - 1
    BY <1>1, Sizes
  <2>2. Contents[job.sector][i] = BlockAt(Base + i)
    BY <1>2, <2>1 DEF Contents, Base
  <2>3. Base + i < CAPACITY
    BY <1>1, Sizes
  <2> QED BY <2>1, <2>2, <2>3 DEF BlockAt
<1> QED BY <1>1, <1>2, <1>3 DEF Store!Fits

\* A word that fills its block puts that block, and no other one, into the extent.
LEMMA WriteWordPuts ==
  ASSUME SevenBit, MaxSectors <= 1, Inv, DataInv, WriteWord
  PROVE  Store!Put \/ UNCHANGED Store!svars
<1> DEFINE x == WordToWrite
           words == Append(drive.words, x)
           full == drive.drq /\ Len(words) = WORDS
           b == BlocksMoved
<1>1. /\ pc = "move" /\ job.op = "write" /\ moved < job.n * WORDS
      /\ disk' = IF full /\ Here(drive) < CAPACITY THEN [disk EXCEPT ![Here(drive)] = words]
                 ELSE disk
      /\ moved' = moved + 1
      /\ UNCHANGED <<job, answer>>
  BY DEF WriteWord, Moving
<1>2. /\ drive.drq /\ TypeOK /\ JobInv /\ drive \in Drive /\ pc \in DrivePoints
      /\ Here(drive) = Base + b /\ Here(drive) \in 0 .. CAPACITY - 1
      /\ Len(drive.words) = WordsMoved /\ Base \in Nat /\ job.n \in Nat
  BY <1>1, Moves, MovesBlock DEF Asks
<1>3. /\ x \in Word /\ x = job.data[b + 1][WordsMoved + 1]
      /\ b + 1 \in 1 .. job.n /\ job.data[b + 1] \in Blocks
      /\ WordsMoved + 1 \in 1 .. WORDS
  BY <1>1, WordToWriteType, WordSurvives
<1> HIDE DEF x
<1>4. /\ words \in Seq(Word) /\ Len(words) = WordsMoved + 1 /\ drive.words \in Seq(Word)
  BY <1>2, <1>3 DEF Drive
<1>5. /\ b \in Nat /\ b < job.n
      /\ WordsMoved + 1 < WORDS => (moved + 1) \div WORDS = b
      /\ WordsMoved + 1 = WORDS => (moved + 1) \div WORDS = b + 1
  BY <1>1, <1>2, Place
<1>6. Puts = b /\ Puts' = (moved + 1) \div WORDS
  BY <1>1 DEF Puts, BlocksMoved
<1>7. CASE ~ full
  <2>1. WordsMoved + 1 < WORDS
    BY <1>2, <1>3, <1>4, <1>7, Sizes
  <2>2. Puts' = Puts /\ disk' = disk
    BY <1>1, <1>5, <1>6, <1>7, <2>1
  <2> QED BY <1>1, <2>2, Stutters
<1>8. CASE full
  <2> DEFINE v == job.data[b + 1]
  <2>1. words = v
    <3>1. v \in [1 .. WORDS -> Word]
      BY <1>3, AtaAssumption
    <3>2. words \in [1 .. WORDS -> Word]
      <4>1. words \in Seq(Word) /\ Len(words) = WORDS
        BY <1>4, <1>8
      <4> HIDE DEF words
      <4>2. words \in [1 .. Len(words) -> Word]
        BY <4>1
      <4> QED BY <4>1, <4>2
    <3>3. WordsMoved + 1 = WORDS /\ WordsMoved \in Nat
      BY <1>2, <1>4, <1>8
    <3>4. ASSUME NEW i \in 1 .. WORDS PROVE words[i] = v[i]
      <4>1. CASE i = WORDS
        <5>1. words[Len(drive.words) + 1] = x
          BY <1>3, <1>4
        <5> QED BY <1>2, <1>3, <3>3, <4>1, <5>1
      <4>2. CASE i # WORDS
        <5>1. i \in 1 .. Len(drive.words)
          BY <1>2, <3>3, <4>2, Sizes
        <5>2. words[i] = drive.words[i]
          BY <1>3, <1>4, <5>1
        <5>3. \A k \in 1 .. Len(drive.words) :
                 drive.words[k] = job.data[BlocksMoved + 1][k]
          BY <1>1 DEF DataInv
        <5> QED BY <5>1, <5>2, <5>3
      <4> QED BY <4>1, <4>2
    <3>5. \A i \in 1 .. WORDS : words[i] = v[i]
      BY <3>4
    <3> DEFINE D == 1 .. WORDS
    <3>6. /\ v = [i \in D |-> v[i]] /\ words = [i \in D |-> words[i]]
          /\ \A i \in D : words[i] = v[i]
      BY <3>1, <3>2, <3>5
    <3> HIDE DEF words, v, D
    <3> QED BY <3>6
  <2>2. disk' = [disk EXCEPT ![Base + b] = v] /\ Puts' = b + 1
    <3>1. Here(drive) < CAPACITY /\ WordsMoved + 1 = WORDS
      BY <1>2, <1>4, <1>8, Sizes
    <3> HIDE DEF full, words
    <3> QED BY <1>1, <1>2, <1>5, <1>6, <1>8, <2>1, <3>1
  <2> HIDE DEF words, full, v
  <2> DEFINE s == job.sector
  <2>3. /\ Store!Fits /\ s \in Extent /\ b \in 0 .. SECTOR_SIZE - 1 /\ s \in Nat
        /\ Base = s * SECTOR_SIZE
    <3>1. b \in 0 .. job.n - 1
      BY <1>2, <1>5
    <3> QED BY <1>2, <3>1, JobFits, CarefulJob DEF Store!Fits, Base
  <2>4. ASSUME NEW e \in Extent, NEW i \in 0 .. SECTOR_SIZE - 1
        PROVE  BlockAt((e * SECTOR_SIZE) + i)' =
                 IF e = s /\ i = b THEN v ELSE BlockAt((e * SECTOR_SIZE) + i)
    <3> DEFINE y == (e * SECTOR_SIZE) + i
               z == (s * SECTOR_SIZE) + b
    <3>1. e \in Nat /\ SECTOR_SIZE \in Nat \ {0} /\ i \in Nat /\ y \in Nat /\ z \in Nat
      <4>1. (CAPACITY - 1) \div SECTOR_SIZE \in Nat
        BY Sizes, NextPlace
      <4>2. e \in Nat /\ i \in Nat /\ SECTOR_SIZE \in Nat \ {0}
        BY <4>1, Sizes DEF Extent
      <4>3. e * SECTOR_SIZE \in Nat /\ s * SECTOR_SIZE \in Nat
        BY <2>3, <4>2
      <4> QED BY <1>5, <4>2, <4>3
    <3>2. y = z => e = s /\ i = b
      <4>1. y = (e * SECTOR_SIZE) + i /\ z = (s * SECTOR_SIZE) + b
        OBVIOUS
      <4>2. y \in Int /\ z \in Int /\ e \in Int /\ s \in Int
        BY <2>3, <3>1
      <4> HIDE DEF y, z, s, b
      <4>3. y \div SECTOR_SIZE = e /\ y % SECTOR_SIZE = i
        BY <3>1, <4>1, <4>2, DivModUnique
      <4>4. z \div SECTOR_SIZE = s /\ z % SECTOR_SIZE = b
        BY <2>3, <3>1, <4>1, <4>2, DivModUnique
      <4> QED BY <4>3, <4>4
    <3>3. e = s /\ i = b => y = z
      OBVIOUS
    <3>4. z \in 0 .. CAPACITY - 1 /\ disk' = [disk EXCEPT ![z] = v]
          /\ DOMAIN disk = 0 .. CAPACITY - 1
      BY <1>2, <2>2, <2>3 DEF TypeOK
    <3>5. BlockAt(y)' = IF y < CAPACITY THEN disk'[y] ELSE Blank
      BY DEF BlockAt
    <3>6. BlockAt(y) = IF y < CAPACITY THEN disk[y] ELSE Blank
      BY DEF BlockAt
    <3>7. BlockAt(y)' = IF y = z THEN v ELSE BlockAt(y)
      <4> HIDE DEF y, z
      <4> QED BY <3>1, <3>4, <3>5, <3>6, Sizes
    <3> QED BY <3>2, <3>3, <3>7
  <2>5. Contents' = [Contents EXCEPT ![s][b] = v]
    <3>1. Contents' = [e \in Extent |-> [i \in 0 .. SECTOR_SIZE - 1 |->
                         IF e = s /\ i = b THEN v ELSE BlockAt((e * SECTOR_SIZE) + i)]]
      BY <2>4 DEF Contents
    <3> HIDE DEF s, b
    <3> QED BY <2>3, <3>1 DEF Contents
  <2>6. Puts < job.n
    BY <1>5, <1>6
  <2> QED BY <1>1, <1>6, <2>2, <2>3, <2>5, <2>6 DEF Store!Put, Contents, Puts, v
<1> QED BY <1>7, <1>8

\* The end of a transfer: a write has put all its blocks, a read is answered with the
\* blocks of its extent.
LEMMA WaitEndAnswers ==
  ASSUME MaxSectors <= 1, Inv, DataInv, WaitEnd
  PROVE  Store!Written \/ Store!Read
<1> DEFINE n == job.n
<1>1. pc = "wait_end" /\ ~ Status.bsy /\ UNCHANGED disk
  BY DEF WaitEnd
<1>2. /\ pc \in DrivePoints /\ TypeOK /\ JobInv /\ moved = n * WORDS
      /\ job.op \in {"read", "write"}
  BY <1>1 DEF Inv, JobInv, DrivePoints, JobPoints, IsJob
<1>3. machine.primary = "ata" /\ n \in Nat /\ Base \in Nat /\ ~ drive.err
  BY <1>1, <1>2, CarefulJob DEF Inv, DriveInv, NoError
<1>4. ~ Status.err
  BY <1>3, AtaStatus
<1>5. Return([ok |-> TRUE, data |-> IF job.op = "read" THEN BlocksGot ELSE <<>>])
  BY <1>4 DEF WaitEnd
<1>6. Contents' = Contents
  BY <1>1 DEF Contents, BlockAt
<1>7. Puts' = 0 /\ job' = NoJob
  BY <1>5 DEF Return, Puts, NoJob
<1>8. CASE job.op = "write"
  <2>1. Puts = n
    <3>1. 0 \in 0 .. WORDS - 1 /\ moved = (n * WORDS) + 0 /\ n \in Int /\ moved \in Int
          /\ WORDS \in Nat \ {0}
      BY <1>2, <1>3, Sizes
    <3> HIDE DEF n
    <3>2. moved \div WORDS = n
      BY <3>1, DivModUnique
    <3> QED BY <1>8, <3>2 DEF Puts
  <2>2. answer' = [ok |-> TRUE, data |-> <<>>]
    BY <1>5, <1>8 DEF Return
  <2> QED BY <1>6, <1>7, <1>8, <2>1, <2>2
          DEF Store!Written, Store!Answer, Contents, Puts, NoJob, Store!NoJob
<1>9. CASE job.op = "read"
  <2>1. got \in Seq(Word) /\ Len(got) = n * WORDS
    BY <1>2, <1>9 DEF TypeOK
  <2>2. /\ Store!Fits
        /\ \A i \in 0 .. n - 1 : Contents[job.sector][i] = disk[Base + i]
        /\ disk \in [0 .. CAPACITY - 1 -> [1 .. WORDS -> Word]]
        /\ Base + n <= CAPACITY
    BY <1>2, JobFits, CarefulJob DEF TypeOK
  <2>3. ASSUME NEW b \in 1 .. n
        PROVE  SubSeq(got, ((b - 1) * WORDS) + 1, b * WORDS) = Contents[job.sector][b - 1]
    <3> DEFINE first == (b - 1) * WORDS
               words == SubSeq(got, first + 1, b * WORDS)
               block == disk[Base + (b - 1)]
    <3>1. /\ first \in Nat /\ b * WORDS = first + WORDS /\ first + WORDS <= Len(got)
          /\ b - 1 \in 0 .. n - 1 /\ WORDS \in Nat \ {0}
      <4>1. b \in Nat /\ b >= 1 /\ b <= n /\ n \in Nat /\ WORDS \in Nat \ {0}
        BY <1>3, Sizes
      <4> HIDE DEF n
      <4>2. b * WORDS <= n * WORDS /\ b * WORDS \in Nat /\ n * WORDS \in Nat
            /\ (b - 1) * WORDS = (b * WORDS) - WORDS /\ (b - 1) * WORDS \in Nat
        BY <4>1
      <4> QED BY <2>1, <4>1, <4>2
    <3> HIDE DEF first
    <3>2. /\ words \in Seq(Word) /\ Len(words) = WORDS
          /\ \A k \in 1 .. WORDS : words[k] = got[first + k]
      <4>1. words = SubSeq(got, first + 1, first + WORDS)
        BY <3>1
      <4> HIDE DEF words
      <4> QED BY <2>1, <3>1, <4>1
    <3> HIDE DEF words
    <3>3. words \in [1 .. WORDS -> Word] /\ block \in [1 .. WORDS -> Word]
      <4>1. Base + (b - 1) \in 0 .. CAPACITY - 1
        BY <1>3, <2>2, <3>1, Sizes
      <4>2. words \in [1 .. Len(words) -> Word]
        BY <3>2
      <4> QED BY <2>2, <3>2, <4>1, <4>2
    <3>4. ASSUME NEW k \in 1 .. WORDS
          PROVE  words[k] = block[k]
      <4> DEFINE i == first + (k - 1)
      <4>1. i \in 0 .. moved - 1 /\ i + 1 = first + k
        BY <1>2, <2>1, <3>1
      <4>2. got[i + 1] = disk[Base + (i \div WORDS)][(i % WORDS) + 1]
        BY <1>1, <1>9, <4>1 DEF DataInv
      <4>3. i \div WORDS = b - 1 /\ i % WORDS = k - 1
        <5> DEFINE q == b - 1
                   r == k - 1
        <5>1. i = (q * WORDS) + r /\ r \in 0 .. WORDS - 1 /\ q \in Int /\ i \in Int
          BY <3>1, <4>1, Sizes DEF first
        <5> HIDE DEF q, r, i
        <5>2. i \div WORDS = q /\ i % WORDS = r
          BY <5>1, Sizes, DivModUnique
        <5> QED BY <5>2 DEF q, r
      <4> HIDE DEF i
      <4>4. (k - 1) + 1 = k
        BY <3>1
      <4> QED BY <3>2, <4>1, <4>2, <4>3, <4>4
    <3>5. words = block
      <4> DEFINE D == 1 .. WORDS
      <4> HIDE DEF block
      <4>1. /\ block = [k \in D |-> block[k]] /\ words = [k \in D |-> words[k]]
            /\ \A k \in D : words[k] = block[k]
        BY <3>3, <3>4
      <4> HIDE DEF D
      <4> QED BY <4>1
    <3> QED BY <2>2, <3>1, <3>5 DEF words, first
  <2>4. BlocksGot = [i \in 1 .. n |-> Contents[job.sector][i - 1]]
    BY <2>3 DEF BlocksGot
  <2>5. answer' = [ok |-> TRUE, data |-> [i \in 1 .. n |-> Contents[job.sector][i - 1]]]
    BY <1>5, <1>9, <2>4 DEF Return
  <2> QED BY <1>6, <1>7, <1>9, <2>2, <2>5
          DEF Store!Read, Store!Answer, Contents, Puts, NoJob, Store!NoJob
<1> QED BY <1>2, <1>8, <1>9

LEMMA RangeErrorRefuses ==
  ASSUME Inv, RangeError
  PROVE  Store!Refused
<1>1. pc = "check" /\ Return(Refused) /\ UNCHANGED disk
  BY DEF RangeError
<1>2. moved = 0 /\ job.op \in {"read", "write"}
  BY <1>1 DEF Inv, JobInv, JobPoints, IsJob
<1>3. Puts = 0
  BY <1>2, NothingPut
<1>4. Puts' = 0 /\ job' = NoJob /\ answer' = [ok |-> FALSE, data |-> <<>>]
  BY <1>1 DEF Return, Puts, NoJob, Refused
<1>5. Contents' = Contents
  BY <1>1 DEF Contents, BlockAt
<1> QED BY <1>2, <1>3, <1>4, <1>5
        DEF Store!Refused, Store!Answer, Contents, Puts, NoJob, Store!NoJob

LEMMA NextRefines ==
  ASSUME SevenBit, MaxSectors <= 1, Inv, DataInv, [Next]_vars
  PROVE  [Store!SNext]_(Store!svars)
<1>1. CASE UNCHANGED <<disk, job, answer, moved>>
  <2>1. Puts' = Puts
    BY <1>1 DEF Puts
  <2> QED BY <1>1, <2>1, Stutters
<1>2. CASE ReadWord
  <2>1. job.op = "read" /\ UNCHANGED <<disk, job, answer>>
    BY <1>2 DEF ReadWord, Moving
  <2>2. Puts' = Puts
    BY <2>1 DEF Puts
  <2> QED BY <2>1, <2>2, Stutters
<1>3. CASE WriteWord
  BY <1>3, WriteWordPuts DEF Store!SNext
<1>4. CASE WaitEnd
  BY <1>4, WaitEndAnswers DEF Store!SNext
<1>5. CASE RangeError
  BY <1>5, RangeErrorRefuses DEF Store!SNext
<1>6. CASE ataRead
  BY <1>6, CallAsks DEF ataRead, Store!SNext
<1>7. CASE ataWrite
  BY <1>7, CallAsks DEF ataWrite, Store!SNext
<1> QED BY <1>1, <1>2, <1>3, <1>4, <1>5, <1>6, <1>7
        DEF Next, Driver, vars, DriveReady, FloatingBus, ideInit, ReadStatus, WaitBusy,
            WaitIdentification, Select, Command, WaitData, FlushAndReset

\* What was put under a sector number is what is read there, for every drive, every size of
\* sectors and registers, and callers who transfer one block at a time to an address that
\* fits the registers.  The first hypothesis is about what they write: data is an array of
\* char, whose sign would be written too.
THEOREM Refinement == ASSUME SevenBit, MaxSectors <= 1 PROVE Spec => ImplementsExtentStore
<1>1. SevenBit /\ MaxSectors <= 1
  OBVIOUS
<1>2. Inv /\ Inv' /\ DataInv /\ [Next]_vars => DataInv'
  BY <1>1, NextData
<1>3. Inv /\ DataInv /\ [Next]_vars => [Store!SNext]_(Store!svars)
  BY <1>1, NextRefines
<1> QED BY <1>2, <1>3, InitData, InitRefines, InvCorrect, PTL
        DEF Spec, ImplementsExtentStore, Store!SSpec

=============================================================================
