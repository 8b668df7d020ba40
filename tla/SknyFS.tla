------------------------------- MODULE SknyFS -------------------------------
(***************************************************************************)
(* The file system driver (src/src/sknyfs.c), with the disk under it       *)
(* failing and the machine stopping between any two sectors.               *)
(*                                                                         *)
(* The disk is not part of the driver: ideReadSectors and ideWriteSectors  *)
(* are modelled by what the driver expects of them, namely that a sector   *)
(* is written as a whole or not at all, that the sectors of one call are   *)
(* written in their order, and that a call that fails may have written     *)
(* some of them.                                                           *)
(***************************************************************************)
EXTENDS Integers, KStd

CONSTANTS
  SECTORS_PER_CHUNK,         \* sectors of a chunk
  BITS_PER_SECTOR,           \* chunks an allocation map sector speaks of
  FILES_PER_SECTOR,          \* entries in a file map sector
  CHUNKS_IN_ALLOCATION_MAP,  \* chunks of the allocation map
  CHUNKS_IN_FILE_MAP,        \* chunks of the file map
  NAME_SIZE,                 \* bytes of a name in an entry (252)
  Names,                     \* the strings callers pass as names
  MaxFaults                  \* bound: faults after a disk was formatted

SECTORS_IN_ALLOCATION_MAP == CHUNKS_IN_ALLOCATION_MAP * SECTORS_PER_CHUNK
SECTORS_IN_MAPS == SECTORS_IN_ALLOCATION_MAP + CHUNKS_IN_FILE_MAP * SECTORS_PER_CHUNK

BITS_PER_CHUNK  == BITS_PER_SECTOR * SECTORS_PER_CHUNK
FILES_PER_CHUNK == FILES_PER_SECTOR * SECTORS_PER_CHUNK

Chunk == 0 .. CHUNKS_IN_ALLOCATION_MAP * BITS_PER_CHUNK - 1
File  == 0 .. CHUNKS_IN_FILE_MAP * FILES_PER_CHUNK - 1

ASSUME SknyAssumption ==
  /\ {SECTORS_PER_CHUNK, BITS_PER_SECTOR, FILES_PER_SECTOR, CHUNKS_IN_ALLOCATION_MAP,
      CHUNKS_IN_FILE_MAP} \subseteq Nat \ {0}
  /\ NAME_SIZE \in Nat \ {0, 1}
  /\ \A n \in Names : n \in Seq(0 .. 255) /\ NUL \in Range(n)
  /\ MaxFaults \in Nat

VARIABLES
  used,        \* the allocation map: the chunks whose bit is set
  files,       \* the file map
  pc,          \* where the driver is
  sector,      \* the sector it writes next
  file,        \* the entry it makes: an index, a name and a location, and what was asked for
  status,      \* what the last call returned
  formatted,   \* whether a call has formatted the disk from end to end
  faults,      \* what went wrong since, between the two writes of a creation or in one
  created,     \* the names whose creation was answered with SKNY_STATUS_OK
  unnamed      \* how often the name was empty

disk == <<used, files>>
vars == <<used, files, pc, sector, file, status, formatted, faults, created, unnamed>>

SknyStatus == {"SKNY_STATUS_OK", "SKNY_WRITE_FAILURE", "SKNY_READ_FAILURE",
               "SKNY_FILESYSTEM_FULL", "SKNY_FILE_NOT_FOUND"}

NoName == [i \in 1 .. NAME_SIZE |-> NUL]
NoFile == [name |-> NoName, location |-> 0]
NoEntry == [index |-> 0, name |-> NoName, location |-> 0, asked |-> <<>>]

-----------------------------------------------------------------------------
(* Formatting *)

\* A sector of either map, cleared.
Cleared(s) ==
  IF s < SECTORS_IN_ALLOCATION_MAP
  THEN /\ used' = used \ {c \in Chunk : c \div BITS_PER_SECTOR = s}
       /\ UNCHANGED files
  ELSE /\ files' = [f \in File |->
                      IF f \div FILES_PER_SECTOR = s - SECTORS_IN_ALLOCATION_MAP
                      THEN NoFile ELSE files[f]]
       /\ UNCHANGED used

sknyCreateFilesystem ==
  /\ pc = "idle"
  /\ pc' = "format"
  /\ sector' = 0
  /\ formatted' = FALSE /\ faults' = 0 /\ created' = {} /\ unnamed' = 0
  /\ UNCHANGED <<disk, file, status>>

\* Allocation map first, chunk by chunk and sector by sector.
clearChunk ==
  /\ pc = "format"
  /\ Cleared(sector)
  /\ IF sector = SECTORS_IN_MAPS - 1
     THEN pc' = "idle" /\ sector' = 0 /\ formatted' = TRUE /\ status' = "SKNY_STATUS_OK"
     ELSE pc' = "format" /\ sector' = sector + 1 /\ UNCHANGED <<formatted, status>>
  /\ UNCHANGED <<file, faults, created, unnamed>>

ClearFailed ==
  /\ pc = "format"
  /\ pc' = "idle" /\ sector' = 0 /\ status' = "SKNY_WRITE_FAILURE"
  /\ UNCHANGED <<disk, file, formatted, faults, created, unnamed>>

-----------------------------------------------------------------------------
(* Searching: nothing else writes the maps meanwhile *)

FreeChunks == Chunk \ used

EmptyFiles == {f \in File : files[f].name[1] = NUL}

\* mutated form: the result of the comparison is taken for its truth
Matches_AsTruth(name) == {f \in File : kstrcmp(name, files[f].name) # 0}

\* The entries that compare equal to a name, empty ones among them.
Matches(name) == {f \in File : kstrcmp(name, files[f].name) = 0}

\* Any of the reads of any call may fail, and the call with it.
ReadFailed ==
  /\ pc = "idle" /\ formatted
  /\ status' = "SKNY_READ_FAILURE"
  /\ UNCHANGED <<disk, pc, sector, file, formatted, faults, created, unnamed>>

\* Without a free chunk the file map is not searched.
CreateFull ==
  /\ pc = "idle" /\ formatted
  /\ FreeChunks = {} \/ EmptyFiles = {}
  /\ status' = "SKNY_FILESYSTEM_FULL"
  /\ UNCHANGED <<disk, pc, sector, file, formatted, faults, created, unnamed>>

\* A file that is found is not written: the function ends without a result.
sknyWriteFile(name) ==
  /\ pc = "idle" /\ formatted
  /\ status' \in IF Matches(name) = {} THEN {"SKNY_FILESYSTEM_FULL"} ELSE SknyStatus
  /\ UNCHANGED <<disk, pc, sector, file, formatted, faults, created, unnamed>>

-----------------------------------------------------------------------------
(* Creating a file *)

\* mutated form: the bits of the map are not looked at
searchAllocationMap_NotLooked == First(Chunk)

searchAllocationMap == First(FreeChunks)

\* mutated form: the first entry is passed over
searchFileMap_PassedOver == First(EmptyFiles \ {0})

searchFileMap == First(EmptyFiles)

sknyCreateFile(name) ==
  /\ pc = "idle" /\ formatted
  /\ FreeChunks # {} /\ EmptyFiles # {}
  /\ file' = [index |-> searchFileMap, name |-> kstrncpy(NoName, name, NAME_SIZE),
              location |-> searchAllocationMap, asked |-> name]
  /\ pc' = "mark" /\ sector' = 0
  /\ UNCHANGED <<disk, status, formatted, faults, created, unnamed>>

\* The chunk of the map that holds the bit is read and written back, one sector after
\* the other; the sectors that do not hold the bit are written as they are.
MarkSector ==
  /\ pc = "mark"
  /\ used' = IF (file.location % BITS_PER_CHUNK) \div BITS_PER_SECTOR = sector
             THEN used \union {file.location} ELSE used
  /\ IF sector = SECTORS_PER_CHUNK - 1 THEN pc' = "write" /\ sector' = 0
     ELSE pc' = "mark" /\ sector' = sector + 1
  /\ UNCHANGED <<files, file, status, formatted, faults, created, unnamed>>

Fault == faults < MaxFaults /\ faults' = faults + 1

\* markChunkAsUsed fails, in its read or in its write, which goes unnoticed.
MarkFailed ==
  /\ pc = "mark"
  /\ Fault
  /\ pc' = "write" /\ sector' = 0
  /\ UNCHANGED <<disk, file, status, formatted, created, unnamed>>

\* sknyCreateFile returns.  It does not look at the name it is given: under an empty one
\* the entry it has written is empty still, and the chunk it has marked has no file.
Created == /\ pc' = "idle" /\ sector' = 0 /\ file' = NoEntry
           /\ status' = "SKNY_STATUS_OK"
           /\ created' = created \union {file.asked}
           /\ unnamed' = unnamed + IF file.asked[1] = NUL THEN 1 ELSE 0

\* mutated form: it is always the first chunk of the file map
MapChunk_First(index) == 0

\* The chunk of the file map that holds an entry.
MapChunk(index) == index \div FILES_PER_CHUNK

\* The entry is written with its chunk.
WriteSector ==
  /\ pc = "write"
  /\ LET entry == file.index % FILES_PER_CHUNK
     IN  files' = IF entry \div FILES_PER_SECTOR # sector THEN files
                  ELSE [files EXCEPT ![MapChunk(file.index) * FILES_PER_CHUNK + entry] =
                          [name |-> file.name, location |-> file.location]]
  /\ IF sector = SECTORS_PER_CHUNK - 1 THEN Created
     ELSE sector' = sector + 1 /\ UNCHANGED <<pc, file, status, created, unnamed>>
  /\ UNCHANGED <<used, formatted, faults>>

\* writeFileMetadata fails, which goes unnoticed too.
WriteFailed ==
  /\ pc = "write"
  /\ Fault
  /\ Created
  /\ UNCHANGED <<disk, formatted>>

-----------------------------------------------------------------------------

\* The machine stops and starts again; the disk is as it was, and the caller makes a
\* new handle for it.  A disk that was being formatted has to be formatted again.
Crash ==
  /\ pc # "idle"
  /\ IF pc = "format" THEN UNCHANGED faults ELSE Fault
  /\ pc' = "idle" /\ sector' = 0 /\ file' = NoEntry
  /\ UNCHANGED <<disk, status, formatted, created, unnamed>>

\* A disk that was used for something else.
Init == /\ used = Chunk
        /\ files = [f \in File |-> [name |-> [i \in 1 .. NAME_SIZE |-> 255], location |-> 0]]
        /\ pc = "idle"
        /\ sector = 0
        /\ file = NoEntry
        /\ status = "SKNY_STATUS_OK"
        /\ formatted = FALSE
        /\ faults = 0
        /\ created = {}
        /\ unnamed = 0

Next == \/ sknyCreateFilesystem \/ clearChunk \/ ClearFailed
        \/ ReadFailed \/ CreateFull
        \/ \E name \in Names : sknyCreateFile(name) \/ sknyWriteFile(name)
        \/ MarkSector \/ MarkFailed \/ WriteSector \/ WriteFailed
        \/ Crash

Spec == Init /\ [][Next]_vars

-----------------------------------------------------------------------------
(* Properties *)

InUse == {f \in File : files[f].name[1] # NUL}

LocationsOf(F) == {files[f].location : f \in F}

\* The maps hold what fits them, and the entries in use come before the empty ones,
\* which is what makes the first empty entry a new one.
TypeOK ==
  /\ used \subseteq Chunk
  /\ files \in [File -> [name : [1 .. NAME_SIZE -> 0 .. 255], location : Chunk]]
  /\ pc \in {"idle", "format", "mark", "write"}
  /\ sector \in 0 .. SECTORS_IN_MAPS - 1
  /\ file \in [index : File, name : [1 .. NAME_SIZE -> 0 .. 255], location : Chunk,
               asked : Names \union {<<>>}]
  /\ status \in SknyStatus
  /\ faults \in 0 .. MaxFaults
  /\ unnamed \in Nat
  /\ formatted => InUse = 0 .. Cardinality(InUse) - 1
                  /\ \A f \in InUse : NUL \in Range(files[f].name)

\* A creation that is interrupted, or whose writes fail, costs one chunk at most: one
\* that is marked and belongs to no file, or one that belongs to two files.  So does a
\* creation under the empty name, though nothing fails.  Apart from these every file
\* has a chunk of its own.
Leaked == used \ LocationsOf(InUse)
Shared == Cardinality(InUse) - Cardinality(LocationsOf(InUse))

DamageBounded ==
  formatted =>
    Cardinality(Leaked) + Shared <= faults + unnamed + IF pc \in {"mark", "write"} THEN 1 ELSE 0

\* A creation, whether it goes well or not, touches no file that is there: an entry in
\* use stays as it is until the disk is formatted, and an entry that comes into use
\* has the name and the chunk of the creation that is made.
FilesKept ==
  [][pc # "format" =>
       \A f \in File : files'[f] # files[f] =>
         /\ f \notin InUse
         /\ files'[f] = [name |-> file.name, location |-> file.location]]_vars

\* Two names agree as far as both of them go, in the bytes an entry has for them.
Agree(m, n) == \A i \in 1 .. NAME_SIZE - 1 :
                 i <= kstrlen(m) /\ i <= kstrlen(n) => m[i] = n[i]

\* The names that were given to files; sknyCreateFile answers with SKNY_STATUS_OK to
\* the empty one too.
Given == {n \in created : n[1] # NUL}

\* The search for a name ends at the entry that was made for it.
Found(n) == /\ Matches(n) # {}
            /\ files[First(Matches(n))].name = kstrncpy(NoName, n, NAME_SIZE)

\* When nothing went wrong, a name whose creation was reported is found again in its
\* own entry, not in an empty one and not in that of another file, as long as no other
\* name begins like it.  (kstrcmp takes the end of either name for equality, so that a
\* file is hidden by an older one whose name is the beginning of its own or a longer form.)
FoundByName ==
  formatted /\ faults = 0 =>
    \A n \in Given : (\A m \in Given : Agree(m, n) => m = n) => Found(n)
=============================================================================
