---------------------------- MODULE SknyFSProofs ----------------------------
(***************************************************************************)
(* Proofs about the file system, for every geometry of the disk, every set *)
(* of names and every number of faults: the types, among them that the     *)
(* files in use come first; that no creation touches a file that is there; *)
(* that a fault, or an empty name, costs one chunk at most; and that a     *)
(* name whose creation was reported is found again, unless another name    *)
(* begins like it.                                                         *)
(***************************************************************************)
EXTENDS SknyFS, NumberLemmas

-----------------------------------------------------------------------------
(* The invariant *)

\* The sectors of their chunks that hold the bit and the entry of a creation.
BitSector   == (file.location % BITS_PER_CHUNK) \div BITS_PER_SECTOR
EntrySector == (file.index % FILES_PER_CHUNK) \div FILES_PER_SECTOR

Creating == pc \in {"mark", "write"}

\* The entry of the creation is on the disk and in use, which it is under a name only.
Written == pc = "write" /\ sector > EntrySector /\ file.asked[1] # NUL

\* The sectors of both maps are cleared one after the other.
FormatInv ==
  pc = "format" =>
    /\ formatted = FALSE /\ faults = 0 /\ created = {} /\ unnamed = 0
    /\ \A c \in used : c \div BITS_PER_SECTOR >= sector
    /\ \A f \in File :
         SECTORS_IN_ALLOCATION_MAP + (f \div FILES_PER_SECTOR) < sector => files[f] = NoFile

\* A creation works on the first empty entry, and knows what it has written.
CreateInv ==
  Creating =>
    /\ formatted = TRUE
    /\ sector < SECTORS_PER_CHUNK
    /\ file.asked \in Names
    /\ file.name = kstrncpy(NoName, file.asked, NAME_SIZE)
    /\ pc = "mark" /\ sector > BitSector => file.location \in used
    /\ ~ Written => InUse = 0 .. file.index - 1
    /\ Written =>
         /\ InUse = 0 .. file.index
         /\ files[file.index] = [name |-> file.name, location |-> file.location]

Inv == TypeOK /\ FormatInv /\ CreateInv

Locations == LocationsOf(InUse)

\* How far two sets are from each other.
Distance(A, B) == Cardinality(A \ B) + Cardinality(B \ A)

\* Chunks marked and of no file, chunks of a file and not marked, and chunks of
\* more than one file.
Damage == Distance(used, Locations) + Cardinality(InUse) - Cardinality(Locations)

\* Every fault and every creation under the empty name has done its damage once,
\* beside what the creation has done halfway: a chunk that was marked is damage until its
\* entry is in use, and an entry whose chunk is not marked, or belongs to another file,
\* will be.
Allowed == faults + unnamed

DamageInv ==
  formatted =>
    /\ pc = "idle" \/ Written => Damage <= Allowed
    /\ Creating /\ ~ Written =>
         /\ file.location \in used \ Locations => Damage <= Allowed + 1
         /\ file.location \in used \intersect Locations => Damage + 1 <= Allowed
         /\ file.location \notin used =>
              Damage <= Allowed - IF pc = "write" THEN 1 ELSE 0

\* Without faults the entries in use are those of the names that were reported, and the
\* one that the creation has written.
Reported(f) == \E m \in Given : files[f].name = kstrncpy(NoName, m, NAME_SIZE)

NamesInv ==
  /\ created \subseteq Names
  /\ formatted /\ faults = 0 =>
       /\ \A n \in Given : \E f \in InUse : files[f].name = kstrncpy(NoName, n, NAME_SIZE)
       /\ \A f \in InUse : Reported(f) \/ (Written /\ f = file.index)

-----------------------------------------------------------------------------
(* Where loops stop *)

LEMMA FirstOf ==
  ASSUME NEW S, S \subseteq Nat, S # {}
  PROVE  First(S) \in S /\ \A j \in S : First(S) <= j
<1>1. \E i \in S : \A j \in S : i <= j
  BY Least
<1> QED BY <1>1 DEF First

\* The first place is the only one with no other before it.
LEMMA FirstIs ==
  ASSUME NEW S, S \subseteq Nat, NEW i \in S, \A j \in S : i <= j
  PROVE  First(S) = i
<1>1. First(S) \in S /\ \A j \in S : First(S) <= j
  BY FirstOf
<1>2. First(S) \in Nat /\ i \in Nat /\ First(S) <= i /\ i <= First(S)
  BY <1>1
<1> QED BY <1>2

LEMMA NameTypes ==
  /\ NAME_SIZE \in Nat /\ NAME_SIZE >= 2
  /\ NoName \in [1 .. NAME_SIZE -> 0 .. 255]
  /\ Len(NoName) = NAME_SIZE
<1>1. NAME_SIZE \in Nat /\ NAME_SIZE >= 2
  BY SknyAssumption
<1>2. NoName \in [1 .. NAME_SIZE -> 0 .. 255] /\ DOMAIN NoName = 1 .. NAME_SIZE
  BY DEF NoName, NUL
<1>3. NoName \in Seq(0 .. 255)
  BY <1>1, <1>2
<1>4. Len(NoName) = NAME_SIZE
  BY <1>1, <1>2, <1>3
<1> QED BY <1>1, <1>2, <1>4

\* What kstrncpy leaves in an entry: the characters of the name up to its end or
\* to the end of the entry, and a NUL behind them.
LEMMA StoredName ==
  ASSUME NEW n \in Names
  PROVE  LET r == kstrncpy(NoName, n, NAME_SIZE)
         IN  /\ r \in [1 .. NAME_SIZE -> 0 .. 255]
             /\ \E p \in 1 .. NAME_SIZE :
                  /\ p <= Len(n)
                  /\ p = NAME_SIZE \/ n[p] = NUL
                  /\ r[p] = NUL
                  /\ \A i \in 1 .. p - 1 : n[i] # NUL /\ r[i] = n[i]
<1> DEFINE S == {i \in DOMAIN n : n[i] = NUL \/ i - 1 >= NAME_SIZE - 1}
           p == First(S)
           r == kstrncpy(NoName, n, NAME_SIZE)
<1>1. n \in Seq(0 .. 255) /\ DOMAIN n = 1 .. Len(n) /\ Len(n) \in Nat
  BY SknyAssumption
<1>2. PICK z \in 1 .. Len(n) : n[z] = NUL
  BY <1>1, SknyAssumption DEF Range
<1>3. S \subseteq Nat /\ S # {}
  BY <1>1, <1>2
<1>4. p \in S /\ \A j \in S : p <= j
  <2> HIDE DEF S
  <2> QED BY <1>3, FirstOf
<1>5. p \in 1 .. Len(n) /\ (n[p] = NUL \/ p >= NAME_SIZE)
  BY <1>1, <1>4, NameTypes
<1> HIDE DEF p
<1>6. \A i \in 1 .. p - 1 : n[i] # NUL /\ i < NAME_SIZE
  <2> SUFFICES ASSUME NEW i \in 1 .. p - 1 PROVE n[i] # NUL /\ i < NAME_SIZE
    OBVIOUS
  <2>1. i \notin S /\ i \in DOMAIN n
    BY <1>1, <1>4, <1>5
  <2> QED BY <1>1, <1>5, <2>1, NameTypes
<1>7. p \in 1 .. NAME_SIZE /\ (p = NAME_SIZE \/ n[p] = NUL)
  <2>1. CASE p = 1
    BY <1>5, <2>1, NameTypes
  <2>2. CASE p # 1
    <3>1. p - 1 \in 1 .. p - 1
      BY <1>5, <2>2
    <3>2. p - 1 < NAME_SIZE
      BY <1>6, <3>1
    <3> QED BY <1>1, <1>5, <3>2, NameTypes
  <2> QED BY <2>1, <2>2
<1> DEFINE text == Append(SubSeq(n, 1, p - 1), NUL)
<1>8. r = Overwritten(NoName, text)
  BY DEF kstrncpy, p
<1>9. /\ text \in Seq(0 .. 255) /\ Len(text) = p
      /\ text[p] = NUL
      /\ \A i \in 1 .. p - 1 : text[i] = n[i]
  <2>1. /\ SubSeq(n, 1, p - 1) \in Seq(0 .. 255) /\ Len(SubSeq(n, 1, p - 1)) = p - 1
        /\ \A i \in 1 .. p - 1 : SubSeq(n, 1, p - 1)[i] = n[i]
    BY <1>1, <1>5, <1>7
  <2> HIDE DEF S
  <2> QED BY <1>7, <2>1, NameTypes DEF NUL
<1> HIDE DEF text, S
<1>10. r = [i \in 1 .. NAME_SIZE |-> IF i <= p THEN text[i] ELSE NUL]
  BY <1>8, <1>9, NameTypes DEF Overwritten, NoName
<1> HIDE DEF r
<1>11. r \in [1 .. NAME_SIZE -> 0 .. 255]
  <2>1. ASSUME NEW i \in 1 .. p PROVE text[i] \in 0 .. 255
    <3>1. i = p \/ i \in 1 .. p - 1
      BY <1>7, NameTypes
    <3>2. ASSUME i \in 1 .. p - 1 PROVE text[i] = n[i] /\ n[i] \in 0 .. 255
      BY <1>1, <1>5, <1>9, <3>2
    <3>3. text[p] \in 0 .. 255
      <4>1. text[p] = 0 /\ 0 \in 0 .. 255
        BY <1>9 DEF NUL
      <4> QED BY <4>1, Zenon
    <3> QED BY <3>1, <3>2, <3>3, Zenon
  <2> QED BY <1>7, <1>10, <2>1, NameTypes DEF NUL
<1>12. r[p] = NUL /\ \A i \in 1 .. p - 1 : r[i] = n[i]
  BY <1>7, <1>9, <1>10, NameTypes
<1>13. /\ p \in 1 .. NAME_SIZE /\ p <= Len(n) /\ r[p] = NUL /\ (p = NAME_SIZE \/ n[p] = NUL)
       /\ \A i \in 1 .. p - 1 : n[i] # NUL /\ r[i] = n[i]
  BY <1>1, <1>5, <1>6, <1>7, <1>12
<1> QED BY <1>11, <1>13 DEF r

-----------------------------------------------------------------------------
(* The geometry of the disk *)

LEMMA Sizes ==
  /\ SECTORS_PER_CHUNK \in Nat \ {0} /\ BITS_PER_SECTOR \in Nat \ {0}
  /\ FILES_PER_SECTOR \in Nat \ {0}
  /\ BITS_PER_CHUNK \in Nat \ {0} /\ FILES_PER_CHUNK \in Nat \ {0}
  /\ SECTORS_IN_ALLOCATION_MAP \in Nat /\ SECTORS_IN_MAPS \in Nat
  /\ SECTORS_PER_CHUNK <= SECTORS_IN_ALLOCATION_MAP
  /\ SECTORS_IN_ALLOCATION_MAP < SECTORS_IN_MAPS
  /\ 0 \in Chunk /\ 0 \in File /\ Chunk \subseteq Nat /\ File \subseteq Nat
  /\ \A f \in File, n \in Nat : n <= f => n \in File
<1>1. /\ SECTORS_PER_CHUNK \in Nat \ {0} /\ BITS_PER_SECTOR \in Nat \ {0}
      /\ FILES_PER_SECTOR \in Nat \ {0}
      /\ CHUNKS_IN_ALLOCATION_MAP \in Nat \ {0} /\ CHUNKS_IN_FILE_MAP \in Nat \ {0}
  BY SknyAssumption
<1>2. BITS_PER_CHUNK \in Nat \ {0} /\ FILES_PER_CHUNK \in Nat \ {0}
  BY <1>1, Product DEF BITS_PER_CHUNK, FILES_PER_CHUNK
<1>3. /\ SECTORS_IN_ALLOCATION_MAP \in Nat \ {0}
      /\ SECTORS_PER_CHUNK <= SECTORS_IN_ALLOCATION_MAP
  BY <1>1, Product DEF SECTORS_IN_ALLOCATION_MAP
<1>4. CHUNKS_IN_FILE_MAP * SECTORS_PER_CHUNK \in Nat \ {0}
  BY <1>1, Product
<1>5. SECTORS_IN_MAPS \in Nat /\ SECTORS_IN_ALLOCATION_MAP < SECTORS_IN_MAPS
  BY <1>3, <1>4 DEF SECTORS_IN_MAPS
<1>6. /\ CHUNKS_IN_ALLOCATION_MAP * BITS_PER_CHUNK \in Nat \ {0}
      /\ CHUNKS_IN_FILE_MAP * FILES_PER_CHUNK \in Nat \ {0}
  BY <1>1, <1>2, Product
<1>7. /\ 0 \in Chunk /\ 0 \in File /\ Chunk \subseteq Nat /\ File \subseteq Nat
      /\ \A f \in File, n \in Nat : n <= f => n \in File
  BY <1>6 DEF Chunk, File
<1> QED BY <1>1, <1>2, <1>3, <1>5, <1>7

\* The sectors of a bit and of an entry, in their map and in their chunk.
LEMMA BitSectors ==
  ASSUME NEW c \in Chunk
  PROVE  /\ c \div BITS_PER_SECTOR \in 0 .. SECTORS_IN_ALLOCATION_MAP - 1
         /\ (c % BITS_PER_CHUNK) \div BITS_PER_SECTOR \in 0 .. SECTORS_PER_CHUNK - 1
<1>1. /\ c \in Nat /\ c < CHUNKS_IN_ALLOCATION_MAP * BITS_PER_CHUNK
      /\ CHUNKS_IN_ALLOCATION_MAP \in Nat
  BY Sizes, SknyAssumption DEF Chunk
<1>2. CHUNKS_IN_ALLOCATION_MAP * BITS_PER_CHUNK = BITS_PER_SECTOR * SECTORS_IN_ALLOCATION_MAP
  BY <1>1, Sizes DEF BITS_PER_CHUNK, SECTORS_IN_ALLOCATION_MAP
<1>3. c \div BITS_PER_SECTOR \in 0 .. SECTORS_IN_ALLOCATION_MAP - 1
  BY <1>1, <1>2, Sizes, DivBound
<1>4. c % BITS_PER_CHUNK \in 0 .. BITS_PER_CHUNK - 1
  BY <1>1, Sizes, DivMod
<1>5. (c % BITS_PER_CHUNK) \div BITS_PER_SECTOR \in 0 .. SECTORS_PER_CHUNK - 1
  <2>1. c % BITS_PER_CHUNK \in Nat /\ c % BITS_PER_CHUNK < BITS_PER_SECTOR * SECTORS_PER_CHUNK
    BY <1>4, Sizes DEF BITS_PER_CHUNK
  <2> QED BY <2>1, Sizes, DivBound
<1> QED BY <1>3, <1>5

LEMMA EntrySectors ==
  ASSUME NEW f \in File
  PROVE  /\ f \div FILES_PER_SECTOR \in 0 .. SECTORS_IN_MAPS - SECTORS_IN_ALLOCATION_MAP - 1
         /\ (f % FILES_PER_CHUNK) \div FILES_PER_SECTOR \in 0 .. SECTORS_PER_CHUNK - 1
         /\ MapChunk(f) * FILES_PER_CHUNK + (f % FILES_PER_CHUNK) = f
<1>1. /\ f \in Nat /\ f < CHUNKS_IN_FILE_MAP * FILES_PER_CHUNK
      /\ CHUNKS_IN_FILE_MAP \in Nat
  BY Sizes, SknyAssumption DEF File
<1>2. /\ CHUNKS_IN_FILE_MAP * FILES_PER_CHUNK
           = FILES_PER_SECTOR * (CHUNKS_IN_FILE_MAP * SECTORS_PER_CHUNK)
      /\ CHUNKS_IN_FILE_MAP * SECTORS_PER_CHUNK \in Nat
  BY <1>1, Sizes DEF FILES_PER_CHUNK
<1>3. SECTORS_IN_MAPS - SECTORS_IN_ALLOCATION_MAP = CHUNKS_IN_FILE_MAP * SECTORS_PER_CHUNK
  BY <1>2, Sizes DEF SECTORS_IN_MAPS
<1>4. f \div FILES_PER_SECTOR \in 0 .. SECTORS_IN_MAPS - SECTORS_IN_ALLOCATION_MAP - 1
  BY <1>1, <1>2, <1>3, Sizes, DivBound
<1>5. /\ f % FILES_PER_CHUNK \in 0 .. FILES_PER_CHUNK - 1
      /\ MapChunk(f) * FILES_PER_CHUNK + (f % FILES_PER_CHUNK) = f
  BY <1>1, Sizes, DivMod DEF MapChunk
<1>6. (f % FILES_PER_CHUNK) \div FILES_PER_SECTOR \in 0 .. SECTORS_PER_CHUNK - 1
  <2>1. /\ f % FILES_PER_CHUNK \in Nat
        /\ f % FILES_PER_CHUNK < FILES_PER_SECTOR * SECTORS_PER_CHUNK
    BY <1>5, Sizes DEF FILES_PER_CHUNK
  <2> QED BY <2>1, Sizes, DivBound
<1> QED BY <1>4, <1>5, <1>6

-----------------------------------------------------------------------------
(* Types and the order of the entries *)

LEMMA NoEntryType ==
  /\ NoFile \in [name : [1 .. NAME_SIZE -> 0 .. 255], location : Chunk]
  /\ NoFile.name[1] = NUL
  /\ NoEntry \in [index : File, name : [1 .. NAME_SIZE -> 0 .. 255], location : Chunk,
                  asked : Names \union {<<>>}]
<1>1. NoName[1] = NUL
  BY NameTypes DEF NoName
<1> QED BY <1>1, NameTypes, Sizes, Zenon DEF NoFile, NoEntry

LEMMA InUseFinite ==
  ASSUME TypeOK
  PROVE  /\ IsFiniteSet(InUse) /\ Cardinality(InUse) \in Nat
         /\ InUse \subseteq File /\ EmptyFiles = File \ InUse
<1>1. IsFiniteSet(File)
  BY FS_Interval, Sizes, SknyAssumption DEF File
<1>2. InUse \subseteq File /\ EmptyFiles = File \ InUse
  BY DEF InUse, EmptyFiles
<1> QED BY <1>1, <1>2, FS_Subset, FS_CardinalityType

\* What searchFileMap returns is the entry behind those in use.
LEMMA FirstEmpty ==
  ASSUME TypeOK, formatted, EmptyFiles # {}
  PROVE  searchFileMap \in File /\ InUse = 0 .. searchFileMap - 1
<1> DEFINE n == Cardinality(InUse)
           x == searchFileMap
<1>1. InUse = 0 .. n - 1 /\ n \in Nat /\ EmptyFiles = File \ InUse
  BY InUseFinite DEF TypeOK
<1>2. EmptyFiles \subseteq Nat
  BY <1>1, Sizes
<1>3. x \in EmptyFiles /\ \A j \in EmptyFiles : x <= j
  BY <1>2, FirstOf DEF searchFileMap
<1> HIDE DEF n, x
<1>4. x \in Nat /\ x >= n
  BY <1>1, <1>2, <1>3
<1>5. n \in EmptyFiles
  <2>1. n \in File
    BY <1>1, <1>3, <1>4, Sizes
  <2>2. n \notin InUse
    BY <1>1
  <2> QED BY <1>1, <2>1, <2>2
<1>6. x = n
  BY <1>1, <1>3, <1>4, <1>5
<1> QED BY <1>1, <1>3, <1>6 DEF x

LEMMA Positions ==
  ASSUME TypeOK
  PROVE  /\ sector \in Nat /\ file.index \in File /\ file.location \in Chunk
         /\ BitSector \in 0 .. SECTORS_PER_CHUNK - 1
         /\ EntrySector \in 0 .. SECTORS_PER_CHUNK - 1
<1>1. file.index \in File /\ file.location \in Chunk
  BY DEF TypeOK
<1>2. sector \in Nat
  BY Sizes DEF TypeOK
<1> QED BY <1>1, <1>2, BitSectors, EntrySectors DEF BitSector, EntrySector

\* What is stored of a name is empty when the name is.
LEMMA StoredNamed ==
  ASSUME NEW n \in Names
  PROVE  kstrncpy(NoName, n, NAME_SIZE)[1] = NUL <=> n[1] = NUL
<1> DEFINE r == kstrncpy(NoName, n, NAME_SIZE)
<1>1. PICK p \in 1 .. NAME_SIZE :
        /\ p = NAME_SIZE \/ n[p] = NUL
        /\ r[p] = NUL
        /\ \A i \in 1 .. p - 1 : n[i] # NUL /\ r[i] = n[i]
  BY StoredName
<1> HIDE DEF r
<1>2. CASE p = 1
  BY <1>1, <1>2, NameTypes DEF r
<1>3. CASE p # 1
  <2>1. 1 \in 1 .. p - 1
    BY <1>3
  <2> QED BY <1>1, <2>1 DEF r
<1> QED BY <1>2, <1>3

\* The entry of a creation has its end, and a name when one was asked for.
LEMMA EntryName ==
  ASSUME Inv, Creating
  PROVE  /\ file.name \in [1 .. NAME_SIZE -> 0 .. 255]
         /\ file.name[1] = NUL <=> file.asked[1] = NUL
         /\ NUL \in Range(file.name)
<1>1. file.asked \in Names /\ file.name = kstrncpy(NoName, file.asked, NAME_SIZE)
  BY DEF Inv, CreateInv
<1>2. file.name \in [1 .. NAME_SIZE -> 0 .. 255]
  <2>1. kstrncpy(NoName, file.asked, NAME_SIZE) \in [1 .. NAME_SIZE -> 0 .. 255]
    BY <1>1, StoredName
  <2> QED BY <1>1, <2>1
<1>3. \E p \in 1 .. NAME_SIZE : file.name[p] = NUL
  BY <1>1, StoredName
<1>4. file.name[1] = NUL <=> file.asked[1] = NUL
  BY <1>1, StoredNamed
<1> QED BY <1>2, <1>3, <1>4 DEF Range

\* The sector with the entry brings it into use, unless the name is empty; the others
\* change nothing.
LEMMA WriteEffect ==
  ASSUME Inv, WriteSector
  PROVE  \/ /\ sector # EntrySector
            /\ files' = files /\ InUse' = InUse
         \/ /\ sector = EntrySector /\ ~ Written /\ file.asked[1] = NUL
            /\ file.index \in File \ InUse
            /\ InUse = 0 .. file.index - 1
            /\ files' = [files EXCEPT ![file.index] =
                           [name |-> file.name, location |-> file.location]]
            /\ InUse' = InUse /\ Locations' = Locations
         \/ /\ sector = EntrySector /\ ~ Written /\ file.asked[1] # NUL
            /\ file.index \in File \ InUse
            /\ InUse = 0 .. file.index - 1
            /\ files' = [files EXCEPT ![file.index] =
                           [name |-> file.name, location |-> file.location]]
            /\ InUse' = InUse \union {file.index}
<1> DEFINE new == [name |-> file.name, location |-> file.location]
<1>1. /\ pc = "write" /\ file.index \in File /\ file.location \in Chunk
      /\ sector \in Nat /\ EntrySector \in 0 .. SECTORS_PER_CHUNK - 1
  BY Positions DEF WriteSector, Inv
<1>2. MapChunk(file.index) * FILES_PER_CHUNK + (file.index % FILES_PER_CHUNK) = file.index
  BY <1>1, EntrySectors
<1>3. files' = IF EntrySector # sector THEN files ELSE [files EXCEPT ![file.index] = new]
  BY <1>2 DEF WriteSector, EntrySector
<1>4. CASE sector # EntrySector
  BY <1>3, <1>4 DEF InUse
<1>5. CASE sector = EntrySector
  <2>1. ~ Written
    BY <1>1, <1>5 DEF Written
  <2>2. InUse = 0 .. file.index - 1
    BY <1>1, <2>1 DEF Inv, CreateInv, Creating
  <2>3. files' = [files EXCEPT ![file.index] = new]
    BY <1>3, <1>5
  <2>4. file.index \notin InUse
    BY <1>1, <2>2, Sizes
  <2>5. files'[file.index].name[1] = NUL <=> file.asked[1] = NUL
    <3>1. file.name[1] = NUL <=> file.asked[1] = NUL
      BY <1>1, EntryName DEF Creating
    <3>2. files'[file.index] = new
      BY <1>1, <2>3 DEF Inv, TypeOK
    <3> QED BY <3>1, <3>2
  <2>6. \A f \in File \ {file.index} : files'[f] = files[f]
    BY <2>3 DEF Inv, TypeOK
  <2>7. CASE file.asked[1] # NUL
    <3>1. InUse' = InUse \union {file.index}
      BY <1>1, <2>5, <2>6, <2>7 DEF InUse
    <3> QED BY <1>1, <1>5, <2>1, <2>2, <2>3, <2>4, <2>7, <3>1
  <2>8. CASE file.asked[1] = NUL
    <3>1. InUse' = InUse
      BY <1>1, <2>4, <2>5, <2>6, <2>8 DEF InUse
    <3>2. \A f \in InUse : files'[f] = files[f]
      BY <2>4, <2>6 DEF InUse
    <3>3. Locations' = Locations
      BY <3>1, <3>2 DEF Locations, LocationsOf
    <3> QED BY <1>1, <1>5, <2>1, <2>2, <2>3, <2>4, <2>8, <3>1, <3>3
  <2> QED BY <2>7, <2>8
<1> QED BY <1>4, <1>5

\* Steps that leave both maps as they are leave the entries in use as they are.
LEMMA InUseFrame ==
  ASSUME UNCHANGED files
  PROVE  InUse' = InUse /\ Locations' = Locations
BY DEF InUse, Locations, LocationsOf

\* When the last sector is cleared, both maps are empty.
LEMMA FormatStep ==
  ASSUME Inv, clearChunk
  PROVE  Inv' /\ (formatted' => used' = {} /\ InUse' = {})
<1>1. /\ pc = "format" /\ formatted = FALSE /\ faults = 0 /\ created = {} /\ unnamed = 0
      /\ \A c \in used : c \div BITS_PER_SECTOR >= sector
      /\ \A f \in File :
           SECTORS_IN_ALLOCATION_MAP + (f \div FILES_PER_SECTOR) < sector => files[f] = NoFile
      /\ UNCHANGED <<file, faults, created, unnamed>>
  BY DEF clearChunk, Inv, FormatInv
<1>2. sector \in 0 .. SECTORS_IN_MAPS - 1 /\ sector \in Nat
  BY Positions DEF Inv, TypeOK
<1>3. CASE sector < SECTORS_IN_ALLOCATION_MAP
  <2>1. /\ used' = used \ {c \in Chunk : c \div BITS_PER_SECTOR = sector}
        /\ files' = files /\ InUse' = InUse
    BY <1>3, InUseFrame DEF clearChunk, Cleared
  <2>2. sector # SECTORS_IN_MAPS - 1 /\ sector + 1 \in 0 .. SECTORS_IN_MAPS - 1
    BY <1>2, <1>3, Sizes
  <2>3. pc' = "format" /\ sector' = sector + 1 /\ UNCHANGED <<formatted, status>>
    BY <2>2 DEF clearChunk
  <2>4. TypeOK'
    BY <1>1, <2>1, <2>2, <2>3 DEF Inv, TypeOK
  <2>5. \A c \in used' : c \div BITS_PER_SECTOR >= sector'
    <3>1. ASSUME NEW c \in used' PROVE c \div BITS_PER_SECTOR >= sector'
      <4>1. c \in used /\ c \in Chunk /\ c \div BITS_PER_SECTOR # sector
        BY <2>1 DEF Inv, TypeOK
      <4>2. c \div BITS_PER_SECTOR \in Int
        BY <4>1, BitSectors
      <4> QED BY <1>1, <1>2, <2>3, <4>1, <4>2
    <3> QED BY <3>1
  <2>6. \A f \in File :
          ~ (SECTORS_IN_ALLOCATION_MAP + (f \div FILES_PER_SECTOR) < sector')
    BY <1>2, <1>3, <2>3, EntrySectors, Sizes
  <2>7. FormatInv' /\ CreateInv'
    BY <1>1, <2>3, <2>5, <2>6 DEF FormatInv, CreateInv, Creating
  <2> QED BY <1>1, <2>3, <2>4, <2>7 DEF Inv
<1>4. CASE ~ (sector < SECTORS_IN_ALLOCATION_MAP)
  <2>1. used' = used /\
        files' = [f \in File |-> IF f \div FILES_PER_SECTOR = sector - SECTORS_IN_ALLOCATION_MAP
                                 THEN NoFile ELSE files[f]]
    BY <1>4 DEF clearChunk, Cleared
  <2>2. used = {}
    <3>1. ASSUME NEW c \in used PROVE FALSE
      <4>1. c \in Chunk
        BY DEF Inv, TypeOK
      <4>2. c \div BITS_PER_SECTOR \in 0 .. SECTORS_IN_ALLOCATION_MAP - 1
        BY <4>1, BitSectors
      <4> QED BY <1>1, <1>2, <1>4, <4>2, Sizes
    <3> QED BY <3>1
  <2>3. files' \in [File -> [name : [1 .. NAME_SIZE -> 0 .. 255], location : Chunk]]
    BY <2>1, NoEntryType DEF Inv, TypeOK
  <2>4. ASSUME NEW f \in File,
               SECTORS_IN_ALLOCATION_MAP + (f \div FILES_PER_SECTOR) <= sector
        PROVE  files'[f] = NoFile
    <3>1. f \div FILES_PER_SECTOR \in Int
      BY EntrySectors
    <3>2. CASE f \div FILES_PER_SECTOR = sector - SECTORS_IN_ALLOCATION_MAP
      BY <2>1, <3>2
    <3>3. CASE f \div FILES_PER_SECTOR # sector - SECTORS_IN_ALLOCATION_MAP
      <4>1. SECTORS_IN_ALLOCATION_MAP + (f \div FILES_PER_SECTOR) < sector
        BY <1>2, <2>4, <3>1, <3>3, Sizes
      <4> QED BY <1>1, <2>1, <3>3, <4>1
    <3> QED BY <3>2, <3>3
  <2>5. CASE sector = SECTORS_IN_MAPS - 1
    <3>1. pc' = "idle" /\ sector' = 0 /\ formatted' = TRUE /\ status' = "SKNY_STATUS_OK"
      BY <2>5 DEF clearChunk
    <3>2. \A f \in File : files'[f] = NoFile
      <4>1. ASSUME NEW f \in File
            PROVE  SECTORS_IN_ALLOCATION_MAP + (f \div FILES_PER_SECTOR) <= sector
        <5>1. f \div FILES_PER_SECTOR \in 0 .. SECTORS_IN_MAPS - SECTORS_IN_ALLOCATION_MAP - 1
          BY EntrySectors
        <5> QED BY <2>5, <5>1, Sizes
      <4> QED BY <2>4, <4>1
    <3>3. InUse' = {}
      BY <3>2, NoEntryType DEF InUse
    <3>4. Cardinality(InUse') = 0 /\ 0 .. 0 - 1 = {}
      BY <3>3, FS_EmptySet
    <3>5. /\ used' \subseteq Chunk /\ sector' \in 0 .. SECTORS_IN_MAPS - 1
          /\ status' \in SknyStatus /\ pc' \in {"idle", "format", "mark", "write"}
      BY <2>1, <2>2, <3>1, Sizes DEF SknyStatus
    <3>6. InUse' = 0 .. Cardinality(InUse') - 1 /\ \A f \in InUse' : NUL \in Range(files'[f].name)
      BY <3>3, <3>4
    <3>7. TypeOK'
      BY <1>1, <2>3, <3>5, <3>6 DEF Inv, TypeOK
    <3>8. Inv'
      BY <3>1, <3>7 DEF Inv, FormatInv, CreateInv, Creating
    <3> QED BY <2>1, <2>2, <3>3, <3>8
  <2>6. CASE sector # SECTORS_IN_MAPS - 1
    <3>1. pc' = "format" /\ sector' = sector + 1 /\ UNCHANGED <<formatted, status>>
      BY <2>6 DEF clearChunk
    <3>2. sector' \in 0 .. SECTORS_IN_MAPS - 1
      BY <1>2, <2>6, <3>1, Sizes
    <3>3. TypeOK'
      BY <1>1, <2>1, <2>3, <3>1, <3>2 DEF Inv, TypeOK
    <3>4. \A f \in File : SECTORS_IN_ALLOCATION_MAP + (f \div FILES_PER_SECTOR) < sector'
                            => files'[f] = NoFile
      <4>1. ASSUME NEW f \in File,
                   SECTORS_IN_ALLOCATION_MAP + (f \div FILES_PER_SECTOR) < sector'
            PROVE  SECTORS_IN_ALLOCATION_MAP + (f \div FILES_PER_SECTOR) <= sector
        <5>1. f \div FILES_PER_SECTOR \in Int
          BY EntrySectors
        <5> QED BY <1>2, <3>1, <4>1, <5>1, Sizes
      <4> QED BY <2>4, <4>1
    <3>5. FormatInv' /\ CreateInv'
      BY <1>1, <2>1, <2>2, <3>1, <3>4 DEF FormatInv, CreateInv, Creating
    <3> QED BY <1>1, <3>1, <3>3, <3>5 DEF Inv
  <2> QED BY <2>5, <2>6
<1> QED BY <1>3, <1>4

LEMMA MarkStep ==
  ASSUME Inv, MarkSector
  PROVE  Inv'
<1>1. /\ pc = "mark" /\ Creating /\ ~ Written
      /\ used' = IF BitSector = sector THEN used \union {file.location} ELSE used
      /\ UNCHANGED <<files, file, status, formatted, faults, created, unnamed>>
  BY DEF MarkSector, BitSector, Creating, Written
<1>2. InUse' = InUse /\ BitSector' = BitSector /\ EntrySector' = EntrySector
  BY <1>1, InUseFrame DEF BitSector, EntrySector
<1>3. /\ sector \in Nat /\ sector < SECTORS_PER_CHUNK /\ file.location \in Chunk
      /\ BitSector \in 0 .. SECTORS_PER_CHUNK - 1
      /\ EntrySector \in 0 .. SECTORS_PER_CHUNK - 1
  BY <1>1, Positions DEF Inv, CreateInv
<1>4. \/ sector = SECTORS_PER_CHUNK - 1 /\ pc' = "write" /\ sector' = 0
      \/ sector # SECTORS_PER_CHUNK - 1 /\ pc' = "mark" /\ sector' = sector + 1
  BY DEF MarkSector
<1>5. sector' \in Nat /\ sector' < SECTORS_PER_CHUNK /\ sector' \in 0 .. SECTORS_IN_MAPS - 1
  BY <1>3, <1>4, Sizes
<1>6. pc' \in {"mark", "write"} /\ ~ Written'
  <2>1. pc' = "write" => sector' = 0
    BY <1>4
  <2> QED BY <1>2, <1>3, <1>4, <2>1 DEF Written
<1>7. TypeOK'
  BY <1>1, <1>2, <1>3, <1>5, <1>6 DEF Inv, TypeOK
<1>8. pc' = "mark" /\ sector' > BitSector' => file.location \in used'
  BY <1>1, <1>2, <1>3, <1>4 DEF Inv, CreateInv
<1>9. CreateInv'
  BY <1>1, <1>2, <1>5, <1>6, <1>8 DEF Inv, CreateInv
<1> QED BY <1>6, <1>7, <1>9 DEF Inv, FormatInv

LEMMA WriteStep ==
  ASSUME Inv, WriteSector
  PROVE  Inv'
<1>1. /\ pc = "write" /\ Creating /\ UNCHANGED <<used, formatted, faults>>
      /\ sector \in Nat /\ sector < SECTORS_PER_CHUNK
      /\ file.index \in File /\ file.location \in Chunk
      /\ EntrySector \in 0 .. SECTORS_PER_CHUNK - 1
      /\ formatted = TRUE
  BY Positions DEF WriteSector, Creating, Inv, CreateInv
<1> DEFINE new == [name |-> file.name, location |-> file.location]
<1>2. new \in [name : [1 .. NAME_SIZE -> 0 .. 255], location : Chunk]
  BY <1>1, EntryName
<1>3. /\ files' \in [File -> [name : [1 .. NAME_SIZE -> 0 .. 255], location : Chunk]]
      /\ InUse' = 0 .. Cardinality(InUse') - 1
      /\ \A f \in InUse' : NUL \in Range(files'[f].name)
  <2>1. CASE files' = files /\ InUse' = InUse
    BY <1>1, <2>1 DEF Inv, TypeOK
  <2>2. CASE /\ file.index \in File \ InUse
             /\ InUse = 0 .. file.index - 1
             /\ files' = [files EXCEPT ![file.index] = new]
             /\ InUse' = InUse \union {file.index}
    <3>1. file.index \in Nat
      BY <1>1, Sizes
    <3>2. InUse' = 0 .. file.index
      BY <2>2, <3>1
    <3>3. Cardinality(0 .. file.index) = file.index + 1
      BY <3>1, FS_Interval
    <3>4. InUse' = 0 .. Cardinality(InUse') - 1
      BY <3>1, <3>2, <3>3
    <3>5. files' \in [File -> [name : [1 .. NAME_SIZE -> 0 .. 255], location : Chunk]]
      BY <1>2, <2>2 DEF Inv, TypeOK
    <3>6. ASSUME NEW f \in InUse' PROVE NUL \in Range(files'[f].name)
      <4>1. CASE f = file.index
        <5>1. files'[f] = new
          BY <1>1, <2>2, <4>1 DEF Inv, TypeOK
        <5> QED BY <1>1, <5>1, EntryName
      <4>2. CASE f \in InUse
        <5>1. files'[f] = files[f]
          BY <2>2, <4>2, InUseFinite DEF Inv, TypeOK
        <5> QED BY <1>1, <4>2, <5>1 DEF Inv, TypeOK
      <4> QED BY <2>2, <4>1, <4>2
    <3> QED BY <3>4, <3>5, <3>6
  <2>3. CASE /\ file.index \in File \ InUse
             /\ files' = [files EXCEPT ![file.index] = new]
             /\ InUse' = InUse
    <3>1. files' \in [File -> [name : [1 .. NAME_SIZE -> 0 .. 255], location : Chunk]]
      BY <1>2, <2>3 DEF Inv, TypeOK
    <3>2. \A f \in InUse : files'[f] = files[f]
      BY <2>3, InUseFinite DEF Inv, TypeOK
    <3> QED BY <1>1, <2>3, <3>1, <3>2 DEF Inv, TypeOK
  <2> QED BY <2>1, <2>2, <2>3, WriteEffect
<1>4. CASE sector = SECTORS_PER_CHUNK - 1
  <2>1. /\ pc' = "idle" /\ sector' = 0 /\ file' = NoEntry /\ status' = "SKNY_STATUS_OK"
        /\ unnamed' = unnamed + IF file.asked[1] = NUL THEN 1 ELSE 0
    BY <1>4 DEF WriteSector, Created
  <2>2. /\ unnamed' \in Nat /\ used' \subseteq Chunk /\ faults' \in 0 .. MaxFaults
        /\ pc' \in {"idle", "format", "mark", "write"}
        /\ status' \in SknyStatus
    BY <1>1, <2>1 DEF Inv, TypeOK, SknyStatus
  <2>3. sector' \in 0 .. SECTORS_IN_MAPS - 1
    BY <2>1, Sizes
  <2>4. TypeOK'
    BY <1>3, <2>1, <2>2, <2>3, NoEntryType DEF TypeOK
  <2> QED BY <2>1, <2>4 DEF Inv, FormatInv, CreateInv, Creating
<1>5. CASE sector # SECTORS_PER_CHUNK - 1
  <2>1. sector' = sector + 1 /\ UNCHANGED <<pc, file, status, created, unnamed>>
    BY <1>5 DEF WriteSector
  <2>2. sector' \in Nat /\ sector' < SECTORS_PER_CHUNK /\ sector' \in 0 .. SECTORS_IN_MAPS - 1
    BY <1>1, <1>5, <2>1, Sizes
  <2>3. TypeOK'
    BY <1>1, <1>3, <2>1, <2>2 DEF Inv, TypeOK
  <2>4. EntrySector' = EntrySector /\ (Written' <=> sector >= EntrySector /\ file.asked[1] # NUL)
    BY <1>1, <2>1 DEF EntrySector, Written
  <2>5. ~ Written' => InUse' = 0 .. file.index - 1
    <3>1. ~ Written' => ~ Written /\ (sector # EntrySector \/ file.asked[1] = NUL)
      BY <1>1, <2>4 DEF Written
    <3> QED BY <1>1, <3>1, WriteEffect DEF Inv, CreateInv
  <2>6. ASSUME Written' PROVE InUse' = 0 .. file.index /\ files'[file.index] = new
    <3>1. file.asked[1] # NUL /\ sector >= EntrySector
      BY <2>4, <2>6
    <3>2. CASE sector = EntrySector
      <4>1. /\ InUse = 0 .. file.index - 1 /\ InUse' = InUse \union {file.index}
            /\ files' = [files EXCEPT ![file.index] = new]
        BY <3>1, <3>2, WriteEffect
      <4>2. file.index \in Nat
        BY <1>1, Sizes
      <4> QED BY <1>1, <4>1, <4>2 DEF Inv, TypeOK
    <3>3. CASE sector # EntrySector
      <4>1. files' = files /\ InUse' = InUse
        BY <3>3, WriteEffect
      <4>2. Written
        BY <1>1, <3>1, <3>3 DEF Written
      <4> QED BY <1>1, <4>1, <4>2 DEF Inv, CreateInv
    <3> QED BY <3>2, <3>3
  <2>7. CreateInv'
    BY <1>1, <2>1, <2>2, <2>5, <2>6 DEF Inv, CreateInv
  <2> QED BY <1>1, <2>1, <2>3, <2>7 DEF Inv, FormatInv
<1> QED BY <1>4, <1>5

LEMMA NextInv == ASSUME Inv, [Next]_vars PROVE Inv'
<1>1. CASE sknyCreateFilesystem
  <2>1. /\ pc' = "format" /\ sector' = 0 /\ formatted' = FALSE /\ faults' = 0
        /\ created' = {} /\ unnamed' = 0
        /\ UNCHANGED <<used, files, file, status>>
    BY <1>1 DEF sknyCreateFilesystem, disk
  <2>2. faults' \in 0 .. MaxFaults /\ sector' \in 0 .. SECTORS_IN_MAPS - 1
    BY <2>1, Sizes, SknyAssumption
  <2>3. TypeOK'
    BY <2>1, <2>2 DEF Inv, TypeOK
  <2>4. ASSUME NEW c \in used PROVE c \div BITS_PER_SECTOR >= 0
    <3>1. c \in Chunk
      BY DEF Inv, TypeOK
    <3>2. c \div BITS_PER_SECTOR \in 0 .. SECTORS_IN_ALLOCATION_MAP - 1
      BY <3>1, BitSectors
    <3> QED BY <3>2, Sizes
  <2>5. ASSUME NEW f \in File
        PROVE  ~ (SECTORS_IN_ALLOCATION_MAP + (f \div FILES_PER_SECTOR) < 0)
    <3>1. f \div FILES_PER_SECTOR \in 0 .. SECTORS_IN_MAPS - SECTORS_IN_ALLOCATION_MAP - 1
      BY EntrySectors
    <3> QED BY <3>1, Sizes
  <2> QED BY <2>1, <2>3, <2>4, <2>5 DEF Inv, FormatInv, CreateInv, Creating
<1>2. CASE clearChunk
  BY <1>2, FormatStep
<1>3. CASE ClearFailed
  <2>1. /\ pc' = "idle" /\ sector' = 0 /\ status' = "SKNY_WRITE_FAILURE" /\ formatted = FALSE
        /\ UNCHANGED <<used, files, file, formatted, faults, created, unnamed>>
    BY <1>3 DEF ClearFailed, disk, Inv, FormatInv
  <2>2. sector' \in 0 .. SECTORS_IN_MAPS - 1 /\ status' \in SknyStatus
    BY <2>1, Sizes DEF SknyStatus
  <2>3. TypeOK'
    BY <2>1, <2>2 DEF Inv, TypeOK
  <2> QED BY <2>1, <2>3 DEF Inv, FormatInv, CreateInv, Creating
<1>4. CASE ReadFailed \/ CreateFull \/ \E name \in Names : sknyWriteFile(name)
  <2>1. /\ pc = "idle" /\ pc' = "idle" /\ status' \in SknyStatus
        /\ UNCHANGED <<used, files, sector, file, formatted, faults, created, unnamed>>
    BY <1>4 DEF ReadFailed, CreateFull, sknyWriteFile, disk, SknyStatus
  <2>2. InUse' = InUse
    BY <2>1, InUseFrame
  <2>3. TypeOK'
    BY <2>1, <2>2 DEF Inv, TypeOK
  <2> QED BY <2>1, <2>3 DEF Inv, FormatInv, CreateInv, Creating
<1>5. ASSUME NEW name \in Names, sknyCreateFile(name) PROVE Inv'
  <2>1. /\ formatted /\ FreeChunks # {} /\ EmptyFiles # {}
        /\ file' = [index |-> searchFileMap, name |-> kstrncpy(NoName, name, NAME_SIZE),
                    location |-> searchAllocationMap, asked |-> name]
        /\ pc' = "mark" /\ sector' = 0
        /\ UNCHANGED <<used, files, status, formatted, faults, created, unnamed>>
    BY <1>5 DEF sknyCreateFile, disk
  <2>2. searchFileMap \in File /\ InUse = 0 .. searchFileMap - 1
    BY <2>1, FirstEmpty DEF Inv
  <2>3. searchAllocationMap \in Chunk
    <3>1. FreeChunks \subseteq Chunk /\ FreeChunks \subseteq Nat
      BY Sizes DEF FreeChunks
    <3> QED BY <2>1, <3>1, FirstOf DEF searchAllocationMap
  <2>4. kstrncpy(NoName, name, NAME_SIZE) \in [1 .. NAME_SIZE -> 0 .. 255]
    BY StoredName
  <2>5. file' \in [index : File, name : [1 .. NAME_SIZE -> 0 .. 255], location : Chunk,
                   asked : Names \union {<<>>}]
    BY <2>1, <2>2, <2>3, <2>4
  <2>6. InUse' = InUse
    BY <2>1, InUseFrame
  <2>7. TypeOK'
    BY <2>1, <2>5, <2>6, Sizes DEF Inv, TypeOK
  <2>8. BitSector' \in Nat
    <3>1. file'.location \in Chunk
      BY <2>5
    <3>2. BitSector' = (file'.location % BITS_PER_CHUNK) \div BITS_PER_SECTOR
      BY DEF BitSector
    <3> QED BY <3>1, <3>2, BitSectors
  <2>9. CreateInv'
    <3>1. /\ file'.asked = name /\ file'.name = kstrncpy(NoName, name, NAME_SIZE)
          /\ file'.index = searchFileMap
      BY <2>1
    <3>2. ~ (sector' > BitSector') /\ sector' < SECTORS_PER_CHUNK
      BY <2>1, <2>8, Sizes
    <3>3. formatted' = TRUE
      BY <2>1 DEF Inv, TypeOK
    <3> QED BY <2>1, <2>2, <2>6, <3>1, <3>2, <3>3 DEF CreateInv, Written
  <2> QED BY <2>1, <2>7, <2>9 DEF Inv, FormatInv
<1>6. CASE MarkSector
  BY <1>6, MarkStep
<1>7. CASE MarkFailed
  <2>1. /\ Creating /\ ~ Written
        /\ pc' = "write" /\ sector' = 0 /\ faults' \in 0 .. MaxFaults
        /\ UNCHANGED <<used, files, file, status, formatted, created, unnamed>>
    BY <1>7, SknyAssumption DEF MarkFailed, Fault, disk, Creating, Written, Inv, TypeOK
  <2>2. InUse' = InUse
    BY <2>1, InUseFrame
  <2>3. TypeOK'
    BY <2>1, <2>2, Sizes DEF Inv, TypeOK
  <2>4. ~ Written' /\ sector' < SECTORS_PER_CHUNK
    <3>1. EntrySector' = EntrySector /\ EntrySector \in Nat
      BY <2>1, Positions DEF EntrySector, Inv
    <3> QED BY <2>1, <3>1, Sizes DEF Written
  <2>5. CreateInv'
    BY <2>1, <2>2, <2>4 DEF Inv, CreateInv
  <2> QED BY <2>1, <2>3, <2>5 DEF Inv, FormatInv
<1>8. CASE WriteSector
  BY <1>8, WriteStep
<1>9. CASE WriteFailed \/ Crash
  <2>1. /\ pc' = "idle" /\ sector' = 0 /\ file' = NoEntry /\ faults' \in 0 .. MaxFaults
        /\ status' \in SknyStatus /\ unnamed' \in Nat
        /\ UNCHANGED <<used, files, formatted>>
    BY <1>9, SknyAssumption
       DEF WriteFailed, Crash, Created, Fault, disk, Inv, TypeOK, SknyStatus
  <2>2. InUse' = InUse
    BY <2>1, InUseFrame
  <2>3. sector' \in 0 .. SECTORS_IN_MAPS - 1 /\ pc' \in {"idle", "format", "mark", "write"}
    BY <2>1, Sizes
  <2>4. TypeOK'
    BY <2>1, <2>2, <2>3, NoEntryType DEF Inv, TypeOK
  <2> QED BY <2>1, <2>4 DEF Inv, FormatInv, CreateInv, Creating
<1>10. CASE UNCHANGED vars
  <2>1. InUse' = InUse /\ BitSector' = BitSector /\ EntrySector' = EntrySector
    BY <1>10, InUseFrame DEF vars, disk, BitSector, EntrySector
  <2> QED BY <1>10, <2>1
          DEF vars, disk, Inv, TypeOK, FormatInv, CreateInv, Creating, Written
<1> QED BY <1>1, <1>2, <1>3, <1>4, <1>5, <1>6, <1>7, <1>8, <1>9, <1>10 DEF Next

LEMMA InitInv == ASSUME Init PROVE Inv
<1>1. files \in [File -> [name : [1 .. NAME_SIZE -> 0 .. 255], location : Chunk]]
  <2>1. [name |-> [i \in 1 .. NAME_SIZE |-> 255], location |-> 0]
           \in [name : [1 .. NAME_SIZE -> 0 .. 255], location : Chunk]
    BY Sizes
  <2> QED BY <2>1 DEF Init
<1> QED BY <1>1, NoEntryType, Sizes, SknyAssumption
        DEF Init, Inv, TypeOK, FormatInv, CreateInv, Creating, SknyStatus

LEMMA InvCorrect == Spec => []Inv
BY InitInv, NextInv, PTL DEF Spec

\* The variables of the driver and the maps on the disk keep their types, and the
\* entries in use come before the empty ones, whatever fails and whenever the machine
\* stops.
THEOREM TypeCorrect == Spec => []TypeOK
<1>1. Inv => TypeOK
  BY DEF Inv
<1> QED BY <1>1, InvCorrect, PTL

\* Only formatting and writeFileMetadata write the file map.
LEMMA FilesUnchanged ==
  ASSUME [Next]_vars
  PROVE  clearChunk \/ WriteSector \/ UNCHANGED files
BY DEF Next, vars, disk, sknyCreateFilesystem, ClearFailed, ReadFailed, CreateFull,
       sknyCreateFile, sknyWriteFile, MarkSector, MarkFailed, WriteFailed, Crash

\* A creation writes an entry that was empty, with the name and the chunk it was made
\* for, and touches no other.
THEOREM CreationKeepsFiles == Spec => FilesKept
<1> DEFINE A == pc # "format" =>
                  \A f \in File : files'[f] # files[f] =>
                    /\ f \notin InUse
                    /\ files'[f] = [name |-> file.name, location |-> file.location]
<1>1. ASSUME Inv, [Next]_vars PROVE A
  <2>1. CASE clearChunk
    BY <2>1 DEF clearChunk
  <2>2. CASE UNCHANGED files
    BY <2>2
  <2>3. CASE WriteSector
    BY <1>1, <2>3, WriteEffect DEF Inv, TypeOK
  <2> QED BY <1>1, <2>1, <2>2, <2>3, FilesUnchanged
<1>2. ASSUME Inv, [Next]_vars PROVE [A]_vars
  BY <1>1, <1>2
<1> QED BY <1>2, InvCorrect, PTL DEF Spec, FilesKept

-----------------------------------------------------------------------------
(* Damage *)

\* A set that grows by one element comes nearer to another set, or goes farther
\* from it.
LEMMA Grow ==
  ASSUME NEW A, NEW B, IsFiniteSet(A), IsFiniteSet(B), NEW x, x \notin A
  PROVE  /\ Distance(A, B) \in Nat
         /\ x \in B => Distance(A \union {x}, B) = Distance(A, B) - 1
         /\ x \notin B => Distance(A \union {x}, B) = Distance(A, B) + 1
<1>1. /\ IsFiniteSet(A \ B) /\ IsFiniteSet(B \ A)
      /\ Cardinality(A \ B) \in Nat /\ Cardinality(B \ A) \in Nat
  BY FS_Difference, FS_CardinalityType
<1>4. Distance(A, B) \in Nat
  BY <1>1 DEF Distance
<1>2. CASE x \in B
  <2>1. (A \union {x}) \ B = A \ B /\ B \ (A \union {x}) = (B \ A) \ {x} /\ x \in B \ A
    BY <1>2
  <2>2. Cardinality((B \ A) \ {x}) = Cardinality(B \ A) - 1
    BY <1>1, <2>1, FS_RemoveElement
  <2>3. Distance(A \union {x}, B) = Cardinality(A \ B) + Cardinality((B \ A) \ {x})
    BY <2>1, Zenon DEF Distance
  <2>4. Distance(A \union {x}, B) = Distance(A, B) - 1
    BY <1>1, <2>2, <2>3 DEF Distance
  <2> QED BY <1>4, <1>2, <2>4
<1>3. CASE x \notin B
  <2>1. (A \union {x}) \ B = (A \ B) \union {x} /\ B \ (A \union {x}) = B \ A /\ x \notin A \ B
    BY <1>3
  <2>2. Cardinality((A \ B) \union {x}) = Cardinality(A \ B) + 1
    BY <1>1, <2>1, FS_AddElement
  <2>3. Distance(A \union {x}, B) = Cardinality((A \ B) \union {x}) + Cardinality(B \ A)
    BY <2>1, Zenon DEF Distance
  <2>4. Distance(A \union {x}, B) = Distance(A, B) + 1
    BY <1>1, <2>2, <2>3 DEF Distance
  <2> QED BY <1>4, <1>3, <2>4
<1> QED BY <1>2, <1>3

LEMMA DistanceSymmetric ==
  ASSUME NEW A, NEW B, IsFiniteSet(A), IsFiniteSet(B)
  PROVE  Distance(A, B) = Distance(B, A) /\ Distance(A, B) \in Nat
<1>1. Cardinality(A \ B) \in Nat /\ Cardinality(B \ A) \in Nat
  BY FS_Difference, FS_CardinalityType
<1> QED BY <1>1 DEF Distance

LEMMA Finite ==
  ASSUME TypeOK
  PROVE  /\ IsFiniteSet(used) /\ IsFiniteSet(InUse) /\ IsFiniteSet(Locations)
         /\ Cardinality(InUse) \in Nat /\ Cardinality(Locations) \in Nat
         /\ Distance(used, Locations) \in Nat
         /\ faults \in Nat /\ MaxFaults \in Nat
<1>1. IsFiniteSet(used)
  <2>1. IsFiniteSet(Chunk)
    BY FS_Interval, Sizes, SknyAssumption DEF Chunk
  <2> QED BY <2>1, FS_Subset DEF TypeOK
<1>2. IsFiniteSet(InUse) /\ Cardinality(InUse) \in Nat
  BY InUseFinite
<1>3. IsFiniteSet(Locations)
  <2>1. Locations \subseteq Chunk
    BY InUseFinite DEF Locations, LocationsOf, TypeOK
  <2>2. IsFiniteSet(Chunk)
    BY FS_Interval, Sizes, SknyAssumption DEF Chunk
  <2> QED BY <2>1, <2>2, FS_Subset
<1>4. Cardinality(Locations) \in Nat
  BY <1>3, FS_CardinalityType
<1>5. faults \in Nat /\ MaxFaults \in Nat
  BY SknyAssumption DEF TypeOK
<1> QED BY <1>1, <1>2, <1>3, <1>4, <1>5, DistanceSymmetric

LEMMA DamageType == TypeOK => Damage \in Int /\ Allowed \in Nat
BY Finite DEF Damage, Allowed, TypeOK

LEMMA DamageTypeNext == ASSUME TypeOK' PROVE Damage' \in Int /\ Allowed' \in Nat
<1>1. TypeOK' => (Damage \in Int /\ Allowed \in Nat)'
  BY DamageType, PTL
<1> QED BY <1>1

\* A chunk is marked.
LEMMA MarkDamage ==
  ASSUME TypeOK, file.location \notin used, used' = used \union {file.location},
         UNCHANGED files
  PROVE  /\ file.location \in Locations => Damage' = Damage - 1
         /\ file.location \notin Locations => Damage' = Damage + 1
<1> DEFINE loc == file.location
           U == used
           L == Locations
<1>1. IsFiniteSet(U) /\ IsFiniteSet(L) /\ loc \notin U
  BY Finite
<1>2. /\ loc \in L => Distance(U \union {loc}, L) = Distance(U, L) - 1
      /\ loc \notin L => Distance(U \union {loc}, L) = Distance(U, L) + 1
  <2> HIDE DEF loc, U, L
  <2> QED BY <1>1, Grow
<1>3. InUse' = InUse /\ Locations' = Locations
  BY InUseFrame
<1>4. Damage' = Distance(U \union {loc}, L) + Cardinality(InUse) - Cardinality(L)
  BY <1>3 DEF Damage, Distance
<1>5. /\ Distance(U, L) \in Nat /\ Cardinality(InUse) \in Nat /\ Cardinality(L) \in Nat
  BY Finite
<1> QED BY <1>2, <1>4, <1>5 DEF Damage

\* An entry comes into use.
LEMMA EntryDamage ==
  ASSUME TypeOK, file.index \in File \ InUse, UNCHANGED used,
         files' = [files EXCEPT ![file.index] =
                     [name |-> file.name, location |-> file.location]],
         InUse' = InUse \union {file.index}
  PROVE  Damage' = IF file.location \in used \ Locations THEN Damage - 1 ELSE Damage + 1
<1> DEFINE loc == file.location
           U == used
           L == Locations
<1>1. Locations' = L \union {loc}
  <2>1. files'[file.index].location = loc
    BY DEF TypeOK
  <2>2. \A f \in InUse : files'[f] = files[f]
    BY InUseFinite DEF TypeOK
  <2>3. LocationsOf(InUse)' = {files'[f].location : f \in InUse'}
    BY DEF LocationsOf
  <2>4. {files'[f].location : f \in InUse \union {file.index}}
          = {files[f].location : f \in InUse} \union {loc}
    BY <2>1, <2>2
  <2> QED BY <2>3, <2>4 DEF Locations, LocationsOf
<1>2. /\ IsFiniteSet(U) /\ IsFiniteSet(L) /\ IsFiniteSet(InUse)
      /\ Distance(U, L) \in Nat /\ Cardinality(InUse) \in Nat /\ Cardinality(L) \in Nat
  BY Finite
<1>3. Cardinality(InUse') = Cardinality(InUse) + 1
  BY <1>2, FS_AddElement
<1>4. Damage = Distance(U, L) + Cardinality(InUse) - Cardinality(L)
  BY DEF Damage
<1>5. Damage' = Distance(U, L \union {loc}) + Cardinality(InUse') - Cardinality(L \union {loc})
  BY <1>1 DEF Damage, Distance
<1>6. CASE loc \in L
  <2>1. L \union {loc} = L
    BY <1>6
  <2>2. /\ Distance(U, L \union {loc}) = Distance(U, L)
        /\ Cardinality(L \union {loc}) = Cardinality(L)
    BY <2>1, Zenon
  <2>3. Damage' = Damage + 1
    <3> HIDE DEF loc, U, L
    <3> QED BY <1>2, <1>3, <1>4, <1>5, <2>2
  <2> QED BY <1>6, <2>3
<1>7. CASE loc \notin L
  <2> HIDE DEF loc, U, L
  <2>1. Cardinality(L \union {loc}) = Cardinality(L) + 1 /\ IsFiniteSet(L \union {loc})
    BY <1>2, <1>7, FS_AddElement
  <2>2. /\ loc \in U => Distance(L \union {loc}, U) = Distance(L, U) - 1
        /\ loc \notin U => Distance(L \union {loc}, U) = Distance(L, U) + 1
    BY <1>2, <1>7, Grow
  <2>3. Distance(L \union {loc}, U) = Distance(U, L \union {loc})
        /\ Distance(L, U) = Distance(U, L)
    BY <1>2, <2>1, DistanceSymmetric
  <2>4. /\ loc \in U => Damage' = Damage - 1
        /\ loc \notin U => Damage' = Damage + 1
    BY <1>2, <1>3, <1>4, <1>5, <2>1, <2>2, <2>3
  <2>5. Damage' = IF loc \in U \ L THEN Damage - 1 ELSE Damage + 1
    BY <1>7, <2>4
  <2> QED BY <2>5 DEF loc, U, L
<1> QED BY <1>6, <1>7

\* Every step keeps the damage within what the faults have done.
LEMMA NextDamage == ASSUME Inv, DamageInv, [Next]_vars PROVE DamageInv'
<1> DEFINE loc == file.location
<1>1. TypeOK /\ TypeOK' /\ Inv'
  BY NextInv DEF Inv
<1>2. /\ Damage \in Int /\ Allowed \in Nat
      /\ Damage' \in Int /\ Allowed' \in Nat
  BY <1>1, DamageType, DamageTypeNext
<1>3. ASSUME UNCHANGED <<used, files>>
      PROVE  Damage' = Damage /\ Locations' = Locations
  <2>1. InUse' = InUse /\ Locations' = Locations
    BY <1>3, InUseFrame
  <2> QED BY <1>3, <2>1, Zenon DEF Damage, Distance
<1>14. ASSUME UNCHANGED <<faults, unnamed>> PROVE Allowed' = Allowed
  BY <1>14 DEF Allowed
<1>4. CASE sknyCreateFilesystem \/ ClearFailed
  <2>1. formatted' = FALSE
    BY <1>4 DEF sknyCreateFilesystem, ClearFailed, Inv, FormatInv
  <2> QED BY <2>1 DEF DamageInv
<1>5. CASE clearChunk
  <2> SUFFICES ASSUME formatted' PROVE DamageInv'
    BY DEF DamageInv
  <2>2. pc' = "idle" /\ sector = SECTORS_IN_MAPS - 1
    BY <1>5 DEF clearChunk, Inv, FormatInv
  <2>3. used' = {} /\ InUse' = {}
    BY <1>5, FormatStep
  <2>4. Damage' = 0
    <3>1. Locations' = {}
      BY <2>3 DEF Locations, LocationsOf
    <3>2. Damage' = Cardinality({} \ {}) + Cardinality({} \ {}) + Cardinality({}) - Cardinality({})
      BY <2>3, <3>1, Zenon DEF Damage, Distance
    <3>3. {} \ {} = {} /\ Cardinality({}) = 0
      BY FS_EmptySet
    <3> QED BY <3>2, <3>3
  <2> QED BY <1>2, <2>2, <2>4 DEF DamageInv, Creating
<1>6. CASE ReadFailed \/ CreateFull \/ \E name \in Names : sknyWriteFile(name)
  <2>1. /\ pc = "idle" /\ pc' = "idle"
        /\ UNCHANGED <<used, files, formatted, faults, unnamed>>
    BY <1>6 DEF ReadFailed, CreateFull, sknyWriteFile, disk
  <2> QED BY <1>3, <1>14, <2>1 DEF DamageInv, Creating, Written
<1>7. CASE \E name \in Names : sknyCreateFile(name)
  <2>1. /\ pc = "idle" /\ pc' = "mark" /\ FreeChunks # {}
        /\ file'.location = searchAllocationMap
        /\ UNCHANGED <<used, files, formatted, faults, unnamed>>
    BY <1>7 DEF sknyCreateFile, disk
  <2>2. searchAllocationMap \in FreeChunks
    <3>1. FreeChunks \subseteq Nat
      BY Sizes DEF FreeChunks
    <3> QED BY <2>1, <3>1, FirstOf DEF searchAllocationMap
  <2>3. file'.location \notin used'
    BY <2>1, <2>2 DEF FreeChunks
  <2> QED BY <1>2, <1>3, <1>14, <2>1, <2>3 DEF DamageInv, Creating, Written
<1>8. CASE MarkSector
  <2>1. /\ pc = "mark" /\ pc' \in {"mark", "write"} /\ formatted
        /\ UNCHANGED <<files, file, formatted, faults, unnamed>>
        /\ used' = IF BitSector = sector THEN used \union {loc} ELSE used
        /\ pc' = "write" => sector = SECTORS_PER_CHUNK - 1 /\ sector' = 0
    BY <1>8 DEF MarkSector, BitSector, Inv, CreateInv, Creating
  <2>2. ~ Written /\ ~ Written' /\ Creating /\ Creating'
    <3>1. EntrySector' = EntrySector /\ EntrySector \in Nat
      BY <1>1, <2>1, Positions DEF EntrySector
    <3> QED BY <2>1, <3>1 DEF Written, Creating
  <2>3. /\ loc \in used \ Locations => Damage <= Allowed + 1
        /\ loc \in used \intersect Locations => Damage + 1 <= Allowed
        /\ loc \notin used => Damage <= Allowed
    BY <1>2, <2>1, <2>2 DEF DamageInv
  <2>4. Locations' = Locations
    BY <2>1, InUseFrame
  <2>5. CASE used' = used
    <3>1. pc' = "write" => loc \in used
      <4>1. sector \in Nat /\ BitSector \in 0 .. SECTORS_PER_CHUNK - 1
        BY <1>1, Positions
      <4>2. pc' = "write" => sector = BitSector \/ sector > BitSector
        BY <2>1, <4>1, Sizes
      <4>3. sector > BitSector => loc \in used
        BY <2>1 DEF Inv, CreateInv, Creating
      <4> QED BY <2>1, <2>5, <4>2, <4>3
    <3> QED BY <1>2, <1>3, <1>14, <2>1, <2>2, <2>3, <2>4, <2>5, <3>1 DEF DamageInv
  <2>6. CASE used' = used \union {loc} /\ loc \notin used
    <3>1. /\ loc \in Locations => Damage' = Damage - 1
          /\ loc \notin Locations => Damage' = Damage + 1
      BY <1>1, <2>1, <2>6, MarkDamage
    <3>2. file'.location = loc /\ loc \in used' /\ Damage <= Allowed /\ Allowed' = Allowed
      BY <1>14, <2>1, <2>3, <2>6
    <3>3. /\ loc \in Locations => Damage' + 1 <= Allowed'
          /\ loc \notin Locations => Damage' <= Allowed' + 1
      <4>1. Damage <= Allowed /\ Allowed' = Allowed
        BY <3>2
      <4>2. ASSUME Damage' = Damage - 1 PROVE Damage' + 1 <= Allowed'
        BY <1>2, <4>1, <4>2
      <4>3. ASSUME Damage' = Damage + 1 PROVE Damage' <= Allowed' + 1
        BY <1>2, <4>1, <4>3
      <4> QED BY <3>1, <4>2, <4>3, Zenon
    <3>4. /\ loc \in used' \ Locations' => Damage' <= Allowed' + 1
          /\ loc \in used' \intersect Locations' => Damage' + 1 <= Allowed'
      BY <2>4, <3>3, Zenon
    <3> QED BY <2>1, <2>2, <3>2, <3>4 DEF DamageInv
  <2> QED BY <2>1, <2>5, <2>6
<1>9. CASE MarkFailed
  <2>1. /\ pc = "mark" /\ pc' = "write" /\ sector' = 0 /\ faults' = faults + 1 /\ formatted
        /\ UNCHANGED <<used, files, file, formatted, unnamed>>
    BY <1>9 DEF MarkFailed, Fault, disk, Inv, CreateInv, Creating
  <2>2. ~ Written /\ ~ Written' /\ Creating /\ Creating'
    <3>1. EntrySector' = EntrySector /\ EntrySector \in Nat
      BY <1>1, <2>1, Positions DEF EntrySector
    <3> QED BY <2>1, <3>1 DEF Written, Creating
  <2>3. Allowed' = Allowed + 1
    BY <1>1, <2>1 DEF Allowed, TypeOK
  <2> QED BY <1>2, <1>3, <2>1, <2>2, <2>3 DEF DamageInv
<1>10. CASE WriteSector
  <2>1. /\ pc = "write" /\ Creating /\ formatted /\ UNCHANGED <<used, formatted, faults>>
        /\ sector \in Nat /\ sector < SECTORS_PER_CHUNK
        /\ EntrySector \in 0 .. SECTORS_PER_CHUNK - 1
    BY <1>1, <1>10, Positions DEF WriteSector, Inv, CreateInv, Creating
  <2>2. \/ /\ pc' = "idle" /\ sector = SECTORS_PER_CHUNK - 1
           /\ unnamed' = unnamed + IF file.asked[1] = NUL THEN 1 ELSE 0
        \/ pc' = "write" /\ sector' = sector + 1 /\ UNCHANGED <<file, unnamed>>
    BY <1>10, <2>1 DEF WriteSector, Created
  <2>3. pc' = "write" => EntrySector' = EntrySector
    BY <2>2 DEF EntrySector
  <2>4. CASE sector < EntrySector
    <3>1. ~ Written /\ ~ Written' /\ Creating' /\ pc' = "write" /\ UNCHANGED <<file, unnamed>>
      BY <2>1, <2>2, <2>3, <2>4, Sizes DEF Written, Creating
    <3>2. UNCHANGED files
      BY <1>10, <2>1, <2>4, WriteEffect
    <3> QED BY <1>2, <1>3, <1>14, <2>1, <3>1, <3>2 DEF DamageInv
  <2>5. CASE sector >= EntrySector /\ file.asked[1] # NUL
    <3>1. pc' = "idle" \/ Written'
      BY <2>1, <2>2, <2>3, <2>5 DEF Written
    <3>2. Allowed' = Allowed
      BY <1>1, <1>14, <2>1, <2>2, <2>5 DEF TypeOK
    <3>3. CASE sector = EntrySector
      <4>1. ~ Written
        BY <2>1, <3>3 DEF Written
      <4>2. Damage' = IF loc \in used \ Locations THEN Damage - 1 ELSE Damage + 1
        BY <1>1, <1>10, <2>1, <2>5, <3>3, WriteEffect, EntryDamage
      <4>3. Damage' <= Allowed'
        BY <1>2, <2>1, <3>2, <4>1, <4>2 DEF DamageInv
      <4> QED BY <3>1, <4>3 DEF DamageInv, Written, Creating
    <3>4. CASE sector > EntrySector
      <4>1. Written
        BY <2>1, <2>5, <3>4 DEF Written
      <4>2. UNCHANGED files
        BY <1>10, <2>1, <3>4, WriteEffect
      <4>3. Damage' <= Allowed'
        BY <1>2, <1>3, <2>1, <3>2, <4>1, <4>2 DEF DamageInv
      <4> QED BY <3>1, <4>3 DEF DamageInv, Written, Creating
    <3> QED BY <2>1, <2>5, <3>3, <3>4
  <2>6. CASE file.asked[1] = NUL
    <3>1. ~ Written
      BY <2>6 DEF Written
    <3>2. InUse' = InUse /\ Locations' = Locations
      BY <1>10, <2>6, WriteEffect, InUseFrame
    <3>3. Damage' = Damage
      BY <2>1, <3>2, Zenon DEF Damage, Distance
    <3>4. CASE pc' = "write"
      <4>1. ~ Written' /\ Creating' /\ UNCHANGED <<file, unnamed>>
        BY <2>2, <2>6, <3>4 DEF Written, Creating
      <4> QED BY <1>2, <1>14, <2>1, <3>1, <3>2, <3>3, <3>4, <4>1 DEF DamageInv
    <3>5. CASE pc' = "idle"
      <4>1. Allowed' = Allowed + 1
        BY <1>1, <2>1, <2>2, <2>6, <3>5 DEF Allowed, TypeOK
      <4>2. Damage <= Allowed + 1
        BY <1>2, <2>1, <3>1 DEF DamageInv
      <4> QED BY <1>2, <3>3, <3>5, <4>1, <4>2 DEF DamageInv, Written, Creating
    <3> QED BY <2>2, <3>4, <3>5
  <2> QED BY <2>1, <2>4, <2>5, <2>6
<1>11. CASE WriteFailed \/ Crash
  <2>1. /\ pc' = "idle" /\ UNCHANGED <<used, files, formatted>>
        /\ unnamed' >= unnamed /\ unnamed' \in Nat
        /\ formatted => Creating /\ faults' = faults + 1
    BY <1>1, <1>11
       DEF WriteFailed, Crash, Created, Fault, disk, Creating, Inv, TypeOK, FormatInv
  <2>2. formatted => Damage <= Allowed + 1
    BY <1>2, <2>1 DEF DamageInv
  <2>3. ASSUME formatted PROVE Allowed' >= Allowed + 1
    <3>1. faults \in Nat /\ unnamed \in Nat
      BY <1>1, Finite DEF TypeOK
    <3>2. faults' = faults + 1 /\ unnamed' >= unnamed /\ unnamed' \in Nat
      BY <2>1, <2>3
    <3>3. Allowed = faults + unnamed /\ Allowed' = faults' + unnamed'
      BY DEF Allowed
    <3>4. \A a, b, c \in Nat : c >= b => (a + 1) + c >= (a + b) + 1
      OBVIOUS
    <3>5. Allowed' = (faults + 1) + unnamed'
      BY <3>2, <3>3
    <3> QED BY <3>1, <3>2, <3>3, <3>4, <3>5, Zenon
  <2> QED BY <1>2, <1>3, <2>1, <2>2, <2>3 DEF DamageInv, Creating, Written
<1>12. CASE UNCHANGED vars
  <2>1. UNCHANGED <<used, files, pc, sector, file, formatted, faults, unnamed>>
    BY <1>12 DEF vars, disk
  <2>2. Written' = Written /\ Creating' = Creating
    BY <2>1 DEF Written, Creating, EntrySector
  <2> QED BY <1>2, <1>3, <1>14, <2>1, <2>2 DEF DamageInv
<1> QED BY <1>4, <1>5, <1>6, <1>7, <1>8, <1>9, <1>10, <1>11, <1>12 DEF Next

\* A creation that is interrupted, or whose writes fail, or that is given the empty name,
\* costs one chunk at most, over any number of creations and whatever fails in them.
THEOREM DamageCorrect == Spec => []DamageBounded
<1>1. ASSUME Init PROVE DamageInv
  BY <1>1 DEF Init, DamageInv
<1>2. ASSUME Inv, DamageInv PROVE DamageBounded
  <2>1. /\ Damage \in Int /\ faults \in Nat /\ unnamed \in Nat
        /\ Cardinality(used \ Locations) \in Nat /\ Cardinality(Locations \ used) \in Nat
        /\ Cardinality(InUse) \in Nat /\ Cardinality(Locations) \in Nat
    <3>1. IsFiniteSet(used \ Locations) /\ IsFiniteSet(Locations \ used)
      BY <1>2, Finite, FS_Difference DEF Inv
    <3> QED BY <1>2, <3>1, Finite, FS_CardinalityType DEF Inv, Damage, TypeOK
  <2>2. formatted => pc = "idle" \/ Creating
    BY <1>2 DEF Inv, TypeOK, FormatInv, Creating
  <2>3. formatted => Damage <= faults + unnamed + IF Creating THEN 1 ELSE 0
    BY <1>2, <2>1, <2>2 DEF DamageInv, Allowed, Written, Creating
  <2>4. Cardinality(Leaked) + Shared <= Damage
    BY <2>1 DEF Leaked, Shared, Damage, Distance, Locations
  <2>5. Leaked = used \ Locations /\ Shared = Cardinality(InUse) - Cardinality(Locations)
    BY DEF Leaked, Shared, Locations
  <2>6. Cardinality(Leaked) + Shared \in Int
    BY <2>1, <2>5
  <2> QED BY <2>1, <2>3, <2>4, <2>6 DEF DamageBounded, Creating
<1> QED BY <1>1, <1>2, NextDamage, InvCorrect, PTL DEF Spec

-----------------------------------------------------------------------------
(* Finding files *)

\* A name compares equal to what is stored of it: the end of either ends the comparison.
LEMMA ComparesEqual ==
  ASSUME NEW n \in Names
  PROVE  kstrcmp(n, kstrncpy(NoName, n, NAME_SIZE)) = 0
<1> DEFINE r == kstrncpy(NoName, n, NAME_SIZE)
           S == {j \in DOMAIN n \intersect DOMAIN r : n[j] = NUL \/ r[j] = NUL \/ n[j] # r[j]}
<1>1. n \in Seq(0 .. 255) /\ DOMAIN n = 1 .. Len(n) /\ Len(n) \in Nat
  BY SknyAssumption
<1>2. DOMAIN r = 1 .. NAME_SIZE
  BY StoredName
<1>3. PICK p \in 1 .. NAME_SIZE :
        /\ p <= Len(n) /\ r[p] = NUL
        /\ \A i \in 1 .. p - 1 : n[i] # NUL /\ r[i] = n[i]
  BY StoredName
<1> HIDE DEF r
<1>4. p \in Nat /\ p \in DOMAIN n \intersect DOMAIN r
  BY <1>1, <1>2, <1>3, NameTypes
<1>5. S \subseteq Nat /\ p \in S
  BY <1>1, <1>3, <1>4
<1>6. \A j \in S : p <= j
  <2> SUFFICES ASSUME NEW j \in S, j < p PROVE FALSE
    BY <1>4, <1>5
  <2>1. j \in 1 .. p - 1
    BY <1>1, <1>4
  <2> QED BY <1>3, <2>1
<1>7. First(S) = p
  <2> HIDE DEF S
  <2> QED BY <1>5, <1>6, FirstIs
<1>8. kstrcmp(n, r) = 0
  BY <1>3, <1>7 DEF kstrcmp
<1> QED BY <1>8 DEF r

LEMMA AsCharDistinguishes ==
  ASSUME NEW a \in 0 .. 255, NEW b \in 0 .. 255, AsChar(a) - AsChar(b) = 0
  PROVE  a = b
BY DEF AsChar

LEMMA LengthBound ==
  ASSUME NEW str, DOMAIN str \subseteq Nat \ {0}, NEW s \in DOMAIN str, str[s] = NUL
  PROVE  kstrlen(str) \in Nat /\ kstrlen(str) < s
<1> DEFINE S == {i \in DOMAIN str : str[i] = NUL}
<1>1. S \subseteq Nat \ {0} /\ S \subseteq Nat /\ s \in S
  OBVIOUS
<1>2. First(S) \in S /\ First(S) <= s
  <2> HIDE DEF S
  <2> QED BY <1>1, FirstOf
<1>3. First(S) \in Nat \ {0} /\ s \in Nat
  <2> HIDE DEF S
  <2> QED BY <1>1, <1>2
<1>4. kstrlen(str) = First(S) - 1
  BY DEF kstrlen
<1> HIDE DEF S
<1> QED BY <1>2, <1>3, <1>4

\* A name that compares equal to what is stored of another agrees with it.
LEMMA EqualAgree ==
  ASSUME NEW n \in Names, NEW m \in Names,
         kstrcmp(n, kstrncpy(NoName, m, NAME_SIZE)) = 0
  PROVE  Agree(m, n)
<1> DEFINE r == kstrncpy(NoName, m, NAME_SIZE)
           S == {j \in DOMAIN n \intersect DOMAIN r : n[j] = NUL \/ r[j] = NUL \/ n[j] # r[j]}
           s == First(S)
<1>1. /\ n \in Seq(0 .. 255) /\ DOMAIN n = 1 .. Len(n) /\ Len(n) \in Nat
      /\ m \in Seq(0 .. 255) /\ DOMAIN m = 1 .. Len(m) /\ Len(m) \in Nat
      /\ r \in [1 .. NAME_SIZE -> 0 .. 255] /\ DOMAIN r = 1 .. NAME_SIZE /\ NAME_SIZE \in Nat
  BY SknyAssumption, StoredName
<1>2. PICK p \in 1 .. NAME_SIZE :
        /\ p <= Len(m) /\ r[p] = NUL /\ (p = NAME_SIZE \/ m[p] = NUL)
        /\ \A i \in 1 .. p - 1 : m[i] # NUL /\ r[i] = m[i]
  BY StoredName
<1>3. kstrcmp(n, r) = 0
  OBVIOUS
<1> HIDE DEF r
<1>4. S # {}
  <2>1. PICK z \in 1 .. Len(n) : n[z] = NUL
    BY <1>1, SknyAssumption DEF Range
  <2>2. z \in S \/ p \in S
    BY <1>1, <1>2, <2>1
  <2> QED BY <2>2
<1>5. s \in S /\ \A j \in S : s <= j
  <2>1. S \subseteq Nat
    BY <1>1
  <2> HIDE DEF S
  <2> QED BY <1>4, <2>1, FirstOf
<1>6. s \in 1 .. Len(n) /\ s \in 1 .. NAME_SIZE /\ (n[s] = NUL \/ r[s] = NUL \/ n[s] # r[s])
  BY <1>1, <1>5
<1>7. 0 = IF n[s] = NUL \/ r[s] = NUL THEN 0 ELSE AsChar(n[s]) - AsChar(r[s])
  BY <1>3 DEF kstrcmp
<1> HIDE DEF s
<1>8. n[s] = NUL \/ r[s] = NUL
  <2>1. n[s] \in 0 .. 255 /\ r[s] \in 0 .. 255
    BY <1>1, <1>6
  <2> QED BY <1>6, <1>7, <2>1, AsCharDistinguishes
<1>9. ASSUME NEW i \in 1 .. NAME_SIZE - 1, i <= kstrlen(m), i <= kstrlen(n)
      PROVE  m[i] = n[i]
  <2>1. i < p
    <3>1. CASE p = NAME_SIZE
      BY <1>1, <3>1
    <3>2. CASE m[p] = NUL
      <4>1. kstrlen(m) \in Nat /\ kstrlen(m) < p
        BY <1>1, <1>2, <3>2, LengthBound
      <4> QED BY <1>1, <1>9, <4>1
    <3> QED BY <1>2, <3>1, <3>2
  <2>2. i < s
    <3>1. CASE n[s] = NUL
      <4>1. kstrlen(n) \in Nat /\ kstrlen(n) < s
        BY <1>1, <1>6, <3>1, LengthBound
      <4> QED BY <1>1, <1>6, <1>9, <4>1
    <3>2. CASE r[s] = NUL
      <4>1. ~ (s < p)
        <5>1. s < p => s \in 1 .. p - 1 /\ r[s] = m[s] /\ m[s] # NUL
          BY <1>1, <1>2, <1>6
        <5> QED BY <3>2, <5>1
      <4> QED BY <1>1, <1>2, <1>6, <2>1, <4>1
    <3> QED BY <1>8, <3>1, <3>2
  <2>3. i \in DOMAIN n \intersect DOMAIN r
    BY <1>1, <1>6, <2>2
  <2>4. n[i] = r[i]
    <3>1. i \notin S
      <4> HIDE DEF S
      <4> QED BY <1>1, <1>5, <1>6, <2>2
    <3> QED BY <2>3, <3>1
  <2>5. r[i] = m[i]
    BY <1>1, <1>2, <2>1
  <2> QED BY <2>4, <2>5
<1> QED BY <1>9 DEF Agree

\* Names stay in their entries until the disk is formatted, and without faults nothing
\* else comes into the entries in use.
LEMMA NextNames == ASSUME Inv, NamesInv, [Next]_vars PROVE NamesInv'
<1> DEFINE Stored(n) == kstrncpy(NoName, n, NAME_SIZE)
<1>1. TypeOK /\ faults \in Nat
  BY Finite DEF Inv
<1>2. ASSUME UNCHANGED <<files, formatted, faults, created>>, Written => UNCHANGED file,
             Written' <=> Written
      PROVE  NamesInv'
  <2>1. InUse' = InUse /\ Given' = Given
    BY <1>2, InUseFrame DEF Given
  <2>2. \A f \in InUse : Reported(f)' <=> Reported(f)
    BY <1>2, <2>1 DEF Reported
  <2> QED BY <1>2, <2>1, <2>2 DEF NamesInv
<1>3. CASE sknyCreateFilesystem
  BY <1>3 DEF sknyCreateFilesystem, NamesInv
<1>4. CASE clearChunk
  <2>1. created' = {} /\ (formatted' => InUse' = {})
    BY <1>4, FormatStep DEF clearChunk, Inv, FormatInv
  <2> QED BY <2>1 DEF NamesInv, Given
<1>5. CASE ClearFailed \/ ReadFailed \/ CreateFull
           \/ \E name \in Names : sknyCreateFile(name) \/ sknyWriteFile(name)
  <2>1. /\ UNCHANGED <<files, formatted, faults, created>>
        /\ pc # "write" /\ pc' # "write"
    BY <1>5
       DEF ClearFailed, ReadFailed, CreateFull, sknyCreateFile, sknyWriteFile, disk
  <2> QED BY <1>2, <2>1 DEF Written
<1>6. CASE MarkSector
  <2>1. /\ UNCHANGED <<files, formatted, faults, created>> /\ pc = "mark"
        /\ pc' = "write" => sector' = 0 /\ UNCHANGED file
    BY <1>6 DEF MarkSector
  <2>2. ~ Written /\ ~ Written'
    <3>1. pc' = "write" => EntrySector' = EntrySector /\ EntrySector \in Nat
      BY <1>1, <2>1, Positions DEF EntrySector
    <3> QED BY <2>1, <3>1 DEF Written
  <2> QED BY <1>2, <2>1, <2>2
<1>7. CASE MarkFailed \/ WriteFailed
  <2>1. /\ faults' = faults + 1 /\ Creating
        /\ created' \subseteq created \union {file.asked}
    BY <1>7 DEF MarkFailed, WriteFailed, Fault, Created, Creating
  <2>2. file.asked \in Names
    BY <2>1 DEF Inv, CreateInv
  <2> QED BY <1>1, <2>1, <2>2 DEF NamesInv
<1>8. CASE Crash
  <2>1. /\ UNCHANGED <<formatted, created>>
        /\ pc = "format" \/ faults' = faults + 1
    BY <1>8 DEF Crash, Fault
  <2>2. formatted' => faults' # 0
    BY <1>1, <2>1 DEF Inv, FormatInv
  <2> QED BY <2>1, <2>2 DEF NamesInv
<1>9. CASE WriteSector
  <2>1. /\ pc = "write" /\ Creating /\ sector < SECTORS_PER_CHUNK /\ file.asked \in Names
        /\ file.name = Stored(file.asked) /\ file.index \in File
        /\ EntrySector \in 0 .. SECTORS_PER_CHUNK - 1 /\ sector \in Nat
        /\ UNCHANGED <<formatted, faults>>
    BY <1>1, <1>9, Positions DEF WriteSector, Creating, Inv, CreateInv
  <2>2. \/ /\ created' = created /\ sector # SECTORS_PER_CHUNK - 1
           /\ sector' = sector + 1 /\ UNCHANGED <<pc, file>>
        \/ /\ created' = created \union {file.asked} /\ sector = SECTORS_PER_CHUNK - 1
           /\ pc' = "idle"
    BY <1>9 DEF WriteSector, Created
  <2>3. ASSUME NEW f \in InUse PROVE f \in InUse' /\ files'[f] = files[f]
    BY <1>1, <1>9, <2>3, WriteEffect, InUseFinite DEF TypeOK
  <2>4. ASSUME NEW f \in InUse' PROVE f \in InUse \/ (f = file.index /\ sector = EntrySector)
    BY <1>9, <2>4, WriteEffect
  <2>5. Given \subseteq Given' /\ created' \subseteq Names
    BY <2>1, <2>2 DEF Given, NamesInv
  <2>6. ASSUME sector >= EntrySector, file.asked[1] # NUL
        PROVE  /\ file.index \in InUse' /\ files'[file.index].name = file.name
               /\ \/ sector # SECTORS_PER_CHUNK - 1 /\ Written' /\ UNCHANGED file
                  \/ sector = SECTORS_PER_CHUNK - 1 /\ file.asked \in Given'
    <3>1. file.index \in InUse' /\ files'[file.index].name = file.name
      <4>1. CASE sector = EntrySector
        BY <1>1, <1>9, <2>6, <4>1, WriteEffect DEF TypeOK
      <4>2. CASE sector > EntrySector
        <5>1. file.index \in InUse /\ files[file.index].name = file.name
          <6>1. Written
            BY <2>1, <2>6, <4>2 DEF Written
          <6>2. InUse = 0 .. file.index /\ files[file.index].name = file.name
            BY <2>1, <6>1 DEF Inv, CreateInv
          <6>3. file.index \in Nat
            BY <2>1, Sizes
          <6>4. \A i \in Nat : i \in 0 .. i
            OBVIOUS
          <6> QED BY <6>2, <6>3, <6>4
        <5> QED BY <2>3, <5>1
      <4> QED BY <2>1, <2>6, <4>1, <4>2
    <3>2. CASE sector # SECTORS_PER_CHUNK - 1
      <4>1. sector' = sector + 1 /\ UNCHANGED <<pc, file>> /\ EntrySector' = EntrySector
        BY <2>2, <3>2 DEF EntrySector
      <4> QED BY <2>1, <2>6, <3>1, <3>2, <4>1 DEF Written
    <3>3. CASE sector = SECTORS_PER_CHUNK - 1
      <4>1. file.asked \in Given'
        BY <2>2, <2>6, <3>3 DEF Given
      <4> QED BY <3>1, <3>3, <4>1
    <3> QED BY <3>2, <3>3
  <2>7. ASSUME formatted', faults' = 0, NEW n \in Given'
        PROVE  \E f \in InUse' : files'[f].name = Stored(n)
    <3>1. CASE n \in created
      <4>1. n \in Given
        BY <3>1 DEF Given
      <4>2. PICK f \in InUse : files[f].name = Stored(n)
        BY <2>1, <2>7, <4>1 DEF NamesInv
      <4> QED BY <2>3, <4>2
    <3>2. CASE n \notin created
      <4>1. n = file.asked /\ sector = SECTORS_PER_CHUNK - 1 /\ file.asked[1] # NUL
        BY <2>2, <2>7, <3>2 DEF Given
      <4>2. sector >= EntrySector
        BY <2>1, <4>1, Sizes
      <4> QED BY <2>1, <2>6, <4>1, <4>2
    <3> QED BY <3>1, <3>2
  <2>10. ASSUME NEW f \in InUse', f = file.index, sector >= EntrySector, file.asked[1] # NUL
         PROVE  Reported(f)' \/ (Written /\ f = file.index)'
    <3>1. CASE sector # SECTORS_PER_CHUNK - 1
      BY <2>6, <2>10, <3>1
    <3>2. CASE sector = SECTORS_PER_CHUNK - 1
      <4>1. files'[f].name = Stored(file.asked) /\ file.asked \in Given'
        BY <2>1, <2>6, <2>10, <3>2
      <4> QED BY <4>1 DEF Reported
    <3> QED BY <3>1, <3>2
  <2>8. ASSUME formatted', faults' = 0, NEW f \in InUse'
        PROVE  Reported(f)' \/ (Written /\ f = file.index)'
    <3>1. CASE f \in InUse /\ Reported(f)
      <4>1. PICK m \in Given : files[f].name = Stored(m)
        BY <3>1 DEF Reported
      <4>2. files'[f].name = Stored(m) /\ m \in Given'
        BY <2>3, <2>5, <3>1, <4>1
      <4> QED BY <4>2 DEF Reported
    <3>2. CASE f \in InUse /\ Written /\ f = file.index
      <4>1. sector >= EntrySector /\ file.asked[1] # NUL
        BY <2>1, <3>2 DEF Written
      <4> QED BY <2>10, <3>2, <4>1
    <3>3. CASE f \notin InUse
      <4>1. f = file.index /\ sector = EntrySector
        BY <2>4, <3>3
      <4>2. file.asked[1] # NUL
        BY <1>9, <2>8, <3>3, WriteEffect
      <4> QED BY <2>1, <2>10, <4>1, <4>2
    <3> QED BY <2>1, <2>8, <3>1, <3>2, <3>3 DEF NamesInv
  <2> QED BY <2>1, <2>5, <2>7, <2>8 DEF NamesInv
<1>10. CASE UNCHANGED vars
  <2>1. UNCHANGED <<files, pc, sector, file, formatted, faults, created>>
    BY <1>10 DEF vars, disk
  <2>2. Written' <=> Written
    BY <2>1 DEF Written, EntrySector
  <2> QED BY <1>2, <2>1, <2>2
<1> QED BY <1>3, <1>4, <1>5, <1>6, <1>7, <1>8, <1>9, <1>10 DEF Next

\* A name whose creation was reported is found in its own entry, unless another begins
\* like it: the entries before it are of other names, and the empty ones, which compare
\* equal to every name, come later.
THEOREM CreatedFound == Spec => []FoundByName
<1>1. ASSUME Init PROVE NamesInv
  BY <1>1 DEF Init, NamesInv, Given
<1>2. ASSUME Inv, NamesInv PROVE FoundByName
  <2> SUFFICES ASSUME formatted, faults = 0, NEW n \in Given,
                      \A m \in Given : Agree(m, n) => m = n
               PROVE  Found(n)
    BY DEF FoundByName
  <2> DEFINE Stored(m) == kstrncpy(NoName, m, NAME_SIZE)
  <2>1. TypeOK /\ n \in Names /\ Given \subseteq Names
    BY <1>2 DEF Inv, NamesInv, Given
  <2>2. PICK f \in InUse : files[f].name = Stored(n)
    BY <1>2 DEF NamesInv
  <2>3. f \in Matches(n)
    BY <2>1, <2>2, InUseFinite, ComparesEqual DEF Matches
  <2> DEFINE g == First(Matches(n))
  <2>4. g \in Matches(n) /\ g <= f
    <3>1. Matches(n) \subseteq Nat
      BY Sizes DEF Matches
    <3> QED BY <2>3, <3>1, FirstOf
  <2>5. g \in File /\ kstrcmp(n, files[g].name) = 0
    BY <2>4 DEF Matches
  <2> HIDE DEF g
  <2>6. g \in InUse
    <3>1. /\ InUse = 0 .. Cardinality(InUse) - 1
          /\ Cardinality(InUse) \in Nat /\ g \in Nat
      BY <2>1, <2>5, InUseFinite, Sizes DEF TypeOK
    <3> HIDE DEF InUse
    <3> QED BY <2>4, <3>1
  <2>7. ASSUME Reported(g) PROVE files[g].name = Stored(n)
    <3>1. PICK m \in Given : files[g].name = Stored(m)
      BY <2>7 DEF Reported
    <3>2. Agree(m, n)
      BY <2>1, <2>5, <3>1, EqualAgree
    <3> QED BY <3>1, <3>2
  <2>8. ASSUME Written, g = file.index PROVE files[g].name = Stored(n)
    <3>1. InUse = 0 .. file.index /\ file.index \in Nat /\ f \in Nat
      BY <1>2, <2>1, <2>8, Positions, Sizes, InUseFinite DEF Inv, CreateInv, Creating, Written
    <3>2. f = g
      BY <2>4, <2>5, <2>8, <3>1, Sizes
    <3> QED BY <2>2, <3>2
  <2>9. files[g].name = Stored(n)
    BY <1>2, <2>6, <2>7, <2>8 DEF NamesInv
  <2> QED BY <2>3, <2>9 DEF Found, g
<1> QED BY <1>1, <1>2, NextNames, InvCorrect, PTL DEF Spec

=============================================================================
