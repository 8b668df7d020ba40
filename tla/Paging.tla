------------------------------- MODULE Paging -------------------------------
(***************************************************************************)
(* Demand paging (src/src/memory.c): the map GRUB hands over becomes the   *)
(* table of physical memory regions, setupPaging maps low memory, and from *)
(* then on every first touch of a page faults into handle_page_fault,      *)
(* which gives the page the first 4 MiB frame that is not yet in use.      *)
(*                                                                         *)
(* Addresses are numbers modulo AddrMod (2^32), a frame is FRAME_SIZE      *)
(* addresses, and what a frame holds is one value: the last one stored.    *)
(***************************************************************************)
EXTENDS Integers, Sequences, FiniteSets

CONSTANTS
  FRAME_SIZE,     \* addresses in a frame (4 MiB)
  NumFrames,      \* frames in the address space (1024), and page directory entries
  FrameCountMod,  \* values of the uint8_t frame_count (256)
  MemoryMaps,     \* the memory maps GRUB may pass
  Page,           \* the pages the kernel and its programs touch
  Value,          \* what they store
  Garbage         \* what a frame holds before anything is stored in it

MAX_PHYSICAL_MEMORY_REGIONS == 16

AddrMod == NumFrames * FRAME_SIZE

Frame == 0 .. NumFrames - 1

Descriptor == [region_type : Nat, base : Nat, length : Nat]

ASSUME SizesAssumption ==
  /\ FRAME_SIZE \in Nat \ {0}
  /\ NumFrames \in Nat \ {0}
  /\ FrameCountMod \in Nat \ {0}

ASSUME PageAssumption == Page \subseteq Frame

ASSUME ValueAssumption == Garbage \notin Value

\* A map is present (flag bit 6 of the multiboot header) or not; the table has
\* room for the RAM regions of every map the kernel is booted with.
ASSUME MapsAssumption ==
  \A map \in MemoryMaps :
     /\ map.present \in BOOLEAN
     /\ map.entries \in Seq(Descriptor)
     /\ Cardinality({i \in DOMAIN map.entries : map.entries[i].region_type = 1})
          <= MAX_PHYSICAL_MEMORY_REGIONS

VARIABLES
  multiboot_info,          \* the map of this boot
  phase,                   \* "loading", "loaded", "paged" or "halted" (while(1))
  cursor,                  \* descriptors of the map traversed so far
  physical_memory_regions, \* the table built from it
  page_directory,          \* for each page its frame, or NotPresent
  page_frame_map,          \* the frames marked used
  frames,                  \* contents of physical memory
  request                  \* the store the processor is executing, or NoRequest

vars == <<multiboot_info, phase, cursor, physical_memory_regions,
          page_directory, page_frame_map, frames, request>>

NotPresent == -1

NoRequest == [page |-> 0, value |-> Garbage]

-----------------------------------------------------------------------------
(* Address arithmetic of uint32_t *)

Wrap(address) == address % AddrMod

get_physical_frame_number(address) == address \div FRAME_SIZE

\* mutated form: the words are joined, and no longer fit the table
RegionOf_Wide(descriptor) == [address |-> descriptor.base, size |-> descriptor.length]

\* The high words of base and length are dropped.
RegionOf(descriptor) == [address |-> Wrap(descriptor.base),
                         size    |-> Wrap(descriptor.length)]

\* The frames handle_page_fault looks at in a region: their first address ...
FrameStart(region) ==
  Wrap(region.address - (region.address % FRAME_SIZE) + FRAME_SIZE)

\* ... and their number, kept in a uint8_t.
FitsNoFrame(region) == FrameStart(region) > Wrap(region.address + region.size)

RemainingSize(region) == Wrap(region.size - (FrameStart(region) - region.address))

\* mutated form: a frame that only begins inside the region is counted too
FrameCount_PartialFrame(region) ==
  IF FitsNoFrame(region) THEN 0
  ELSE (RemainingSize(region) \div FRAME_SIZE + 1) % FrameCountMod

\* mutated form: the last frame of the region is forgotten
FrameCount_OneShort(region) ==
  IF FitsNoFrame(region) \/ RemainingSize(region) < FRAME_SIZE THEN 0
  ELSE (RemainingSize(region) \div FRAME_SIZE - 1) % FrameCountMod

FrameCount(region) ==
  IF FitsNoFrame(region) THEN 0
  ELSE (RemainingSize(region) \div FRAME_SIZE) % FrameCountMod

FrameAt(region, n) ==
  get_physical_frame_number(Wrap(FrameStart(region) + n * FRAME_SIZE))

\* mutated form: the bit of the frame is never set
setFrameUsed_Forgotten(map, pfn) == map

\* mutated form: the word of the bitfield is assigned, not or-ed
setFrameUsed_Assigned(map, pfn) == {pfn}

setFrameUsed(map, pfn) == map \union {pfn}

MapPage(directory, vpn, pfn) == [directory EXCEPT ![vpn] = pfn]

-----------------------------------------------------------------------------
(* The search of handle_page_fault: regions in order, frames in order *)

FrameOf(s) == FrameAt(physical_memory_regions[s[1]], s[2])

is_frame_used(pfn) == pfn \in page_frame_map

Slots == {s \in (DOMAIN physical_memory_regions) \X (0 .. FrameCountMod - 1) :
            s[2] < FrameCount(physical_memory_regions[s[1]])}

Precedes(s, t) == s[1] < t[1] \/ (s[1] = t[1] /\ s[2] < t[2])

FreeSlots == {s \in Slots : ~ is_frame_used(FrameOf(s))}

FirstFreeSlot(s) == /\ s \in FreeSlots
                    /\ \A t \in FreeSlots : t = s \/ Precedes(s, t)

-----------------------------------------------------------------------------

Init == /\ multiboot_info \in MemoryMaps
        /\ phase = "loading"
        /\ cursor = 0
        /\ physical_memory_regions = <<>>
        /\ page_directory = [vpn \in Frame |-> NotPresent]
        /\ page_frame_map = {}
        /\ frames = [pfn \in Frame |-> Garbage]
        /\ request = NoRequest

\* The kernel stops when GRUB passed no memory map.
NoMemoryMap ==
  /\ phase = "loading"
  /\ ~ multiboot_info.present
  /\ phase' = "halted"
  /\ UNCHANGED <<multiboot_info, cursor, physical_memory_regions, page_directory,
                 page_frame_map, frames, request>>

\* One turn of the loop of loadPhysicalMemoryRegionDescriptors: only RAM is kept.
LoadDescriptor ==
  /\ phase = "loading"
  /\ multiboot_info.present
  /\ cursor < Len(multiboot_info.entries)
  /\ cursor' = cursor + 1
  /\ LET descriptor == multiboot_info.entries[cursor + 1]
     IN  physical_memory_regions' =
           IF descriptor.region_type = 1
           THEN Append(physical_memory_regions, RegionOf(descriptor))
           ELSE physical_memory_regions
  /\ UNCHANGED <<multiboot_info, phase, page_directory, page_frame_map, frames, request>>

LoadDone ==
  /\ phase = "loading"
  /\ multiboot_info.present
  /\ cursor = Len(multiboot_info.entries)
  /\ phase' = "loaded"
  /\ UNCHANGED <<multiboot_info, cursor, physical_memory_regions, page_directory,
                 page_frame_map, frames, request>>

\* Only low memory is mapped, one to one.
setupPaging ==
  /\ phase = "loaded"
  /\ phase' = "paged"
  /\ page_directory' = [vpn \in Frame |-> IF vpn = 0 THEN 0 ELSE NotPresent]
  /\ page_frame_map' = {0}
  /\ UNCHANGED <<multiboot_info, cursor, physical_memory_regions, frames, request>>

\* The program reaches an instruction that stores v in page p.
Issue(p, v) ==
  /\ phase = "paged"
  /\ request = NoRequest
  /\ request' = [page |-> p, value |-> v]
  /\ UNCHANGED <<multiboot_info, phase, cursor, physical_memory_regions,
                 page_directory, page_frame_map, frames>>

\* The page is present and the store is performed.
Commit ==
  /\ phase = "paged"
  /\ request # NoRequest
  /\ page_directory[request.page] # NotPresent
  /\ frames' = [frames EXCEPT ![page_directory[request.page]] = request.value]
  /\ request' = NoRequest
  /\ UNCHANGED <<multiboot_info, phase, cursor, physical_memory_regions,
                 page_directory, page_frame_map>>

\* The page is not present: the processor enters the handler, and executes the
\* same instruction again when it returns.
Faulting == /\ phase = "paged"
            /\ request # NoRequest
            /\ page_directory[request.page] = NotPresent

handle_page_fault ==
  /\ Faulting
  /\ \E s \in Slots :
       /\ FirstFreeSlot(s)
       /\ page_frame_map' = setFrameUsed(page_frame_map, FrameOf(s))
       /\ page_directory' = MapPage(page_directory, request.page, FrameOf(s))
  /\ UNCHANGED <<multiboot_info, phase, cursor, physical_memory_regions, frames, request>>

\* mutated form: the handler returns after its message
RunOutOfMemory_Returns == Faulting /\ FreeSlots = {} /\ UNCHANGED vars

RunOutOfMemory ==
  /\ Faulting
  /\ FreeSlots = {}
  /\ phase' = "halted"
  /\ UNCHANGED <<multiboot_info, cursor, physical_memory_regions, page_directory,
                 page_frame_map, frames, request>>

Boot == NoMemoryMap \/ LoadDescriptor \/ LoadDone \/ setupPaging

Next == \/ Boot
        \/ \E p \in Page, v \in Value : Issue(p, v)
        \/ Commit
        \/ handle_page_fault
        \/ RunOutOfMemory

Spec == Init /\ [][Next]_vars

\* The processor executes the kernel: nothing but an interrupt, which returns,
\* comes between a fault and its handler or a handler and the faulting store.
Fairness == WF_vars(Commit) /\ WF_vars(handle_page_fault) /\ WF_vars(RunOutOfMemory)

FairSpec == Spec /\ Fairness

-----------------------------------------------------------------------------
(* Properties *)

Region == [address : 0 .. AddrMod - 1, size : 0 .. AddrMod - 1]

\* The variables of memory.c keep their shape: the directory and the frame map
\* speak of frames of the address space only.
TypeOK ==
  /\ multiboot_info \in MemoryMaps
  /\ phase \in {"loading", "loaded", "paged", "halted"}
  /\ cursor \in Nat
  /\ physical_memory_regions \in Seq(Region)
  /\ page_directory \in [Frame -> Frame \union {NotPresent}]
  /\ page_frame_map \subseteq Frame
  /\ frames \in [Frame -> Value \union {Garbage}]
  /\ request \in [page : Page, value : Value] \union {NoRequest}

Present(vpn) == page_directory[vpn] # NotPresent

\* Two pages never share a frame, and a frame the directory names is marked
\* used, so that no later fault hands it out again (handle_page_fault with
\* is_frame_used and setFrameUsed).  Frame 0 holds the kernel and is page 0's.
NoSharedFrame ==
  /\ \A p, q \in Frame :
        Present(p) /\ page_directory[p] = page_directory[q] => p = q
  /\ \A p \in Frame : Present(p) => page_directory[p] \in page_frame_map

FitsIn(pfn, descriptor) ==
  /\ descriptor.region_type = 1
  /\ descriptor.base <= pfn * FRAME_SIZE
  /\ (pfn + 1) * FRAME_SIZE <= descriptor.base + descriptor.length

BackedByRAM(pfn) ==
  \E i \in DOMAIN multiboot_info.entries : FitsIn(pfn, multiboot_info.entries[i])

\* Every page beyond low memory sits on a frame that is real memory from end to
\* end, although the table forgets the high words of the map and the search
\* computes with 32 bits.
FramesBackedByRAM ==
  \A p \in Frame \ {0} : Present(p) => BackedByRAM(page_directory[p])

\* The kernel gives up with "Ran out of physical memory" only when every frame
\* that a region of RAM holds in full is in use: memory.c:123 computes "the
\* maximum number of blocks that it can fit".
HaltsOnlyWhenExhausted ==
  phase = "halted" /\ multiboot_info.present =>
     \A pfn \in Frame : BackedByRAM(pfn) => pfn \in page_frame_map

\* A page that is mapped stays on its frame, and the frame stays marked, for as
\* long as the kernel runs: nothing ever moves or frees a page.
MappingStable ==
  [][/\ \A p \in Frame : Present(p) => page_directory'[p] = page_directory[p]
     /\ phase = "paged" => page_frame_map \subseteq page_frame_map']_vars

\* The store that faulted is performed in the end, or the kernel has said that
\* memory is exhausted: no store faults for ever.
StoreEventuallyDone ==
  request # NoRequest ~> request = NoRequest \/ phase = "halted"

\* Paged memory is the virtual memory of VirtualMemory.tla.
VM == INSTANCE VirtualMemory
        WITH mem <- [p \in Page |-> IF Present(p) THEN frames[page_directory[p]]
                                    ELSE Garbage]

ImplementsVirtualMemory == VM!Spec
=============================================================================
