---------------------------- MODULE PagingProofs ----------------------------
(***************************************************************************)
(* Proofs about Paging, for every memory map, frame size and set of pages: *)
(* the shape of the state, that no frame is shared, that mappings never    *)
(* change, and that paged memory behaves as VirtualMemory; and, for the    *)
(* maps with which the search works, that only RAM is handed out and all   *)
(* of it is.                                                               *)
(***************************************************************************)
EXTENDS Paging, NumberLemmas

-----------------------------------------------------------------------------
(* Addresses *)

\* An address of the address space lies in one of its frames, whatever the
\* frame size: the shift of get_physical_frame_number indexes page_frame_map
\* and never reaches beyond it.
LEMMA AddressInFrame ==
  ASSUME NEW address \in 0 .. AddrMod - 1
  PROVE  get_physical_frame_number(address) \in Frame
<1> DEFINE q == address \div FRAME_SIZE
<1>1. /\ FRAME_SIZE \in Nat /\ FRAME_SIZE > 0
      /\ NumFrames \in Nat /\ NumFrames > 0
      /\ AddrMod = NumFrames * FRAME_SIZE
  BY SizesAssumption DEF AddrMod
<1>2. /\ q \in Nat
      /\ q * FRAME_SIZE <= address
  BY <1>1
<1>3. q < NumFrames
  <2> SUFFICES ASSUME q >= NumFrames PROVE FALSE
    BY <1>1, <1>2
  <2>1. q * FRAME_SIZE >= NumFrames * FRAME_SIZE
    BY <1>1, <1>2
  <2> QED BY <1>1, <1>2, <2>1
<1> QED BY <1>1, <1>2, <1>3 DEF Frame, get_physical_frame_number

\* A 32-bit result is an address.
LEMMA WrapRange ==
  ASSUME NEW x \in Int
  PROVE  Wrap(x) \in 0 .. AddrMod - 1
<1>1. AddrMod \in Nat /\ AddrMod > 0
  BY SizesAssumption DEF AddrMod
<1> QED BY <1>1 DEF Wrap

\* Every frame the search looks at is a frame.
LEMMA FrameAtRange ==
  ASSUME NEW region \in Region, NEW n \in Nat
  PROVE  FrameAt(region, n) \in Frame
<1>1. /\ FRAME_SIZE \in Nat /\ FRAME_SIZE > 0
      /\ region.address \in Nat
  BY SizesAssumption DEF Region
<1>2. FrameStart(region) \in 0 .. AddrMod - 1
  <2>1. region.address - (region.address % FRAME_SIZE) + FRAME_SIZE \in Int
    BY <1>1
  <2> QED BY <2>1, WrapRange DEF FrameStart
<1>3. FrameStart(region) + n * FRAME_SIZE \in Int
  <2>1. n * FRAME_SIZE \in Int
    BY <1>1
  <2> QED BY <1>2, <2>1
<1> QED BY <1>3, WrapRange, AddressInFrame DEF FrameAt

\* A RAM descriptor, whatever its 64-bit base and length, becomes a region.
LEMMA RegionOfRange ==
  ASSUME NEW descriptor \in Descriptor
  PROVE  RegionOf(descriptor) \in Region
<1>1. descriptor.base \in Int /\ descriptor.length \in Int
  BY DEF Descriptor
<1> QED BY <1>1, WrapRange DEF RegionOf, Region

-----------------------------------------------------------------------------
(* The inductive invariant *)

\* Nothing is mapped, stored or asked before setupPaging has run.
BeforePaging ==
  phase \in {"loading", "loaded"} =>
    /\ \A p \in Frame : ~ Present(p)
    /\ \A f \in Frame : frames[f] = Garbage
    /\ request = NoRequest

\* No store reaches a frame that is not marked used: the next page that is
\* given such a frame starts with its contents.
UnusedUntouched ==
  \A f \in Frame : f \notin page_frame_map => frames[f] = Garbage

IInv == TypeOK /\ NoSharedFrame /\ BeforePaging /\ UnusedUntouched

LEMMA InitIInv == Init => IInv
<1> SUFFICES ASSUME Init PROVE IInv
  OBVIOUS
<1>1. TypeOK
  <2>1. <<>> \in Seq(Region)
    OBVIOUS
  <2> QED BY <2>1 DEF Init, TypeOK
<1>2. NoSharedFrame /\ BeforePaging /\ UnusedUntouched
  BY DEF Init, NoSharedFrame, BeforePaging, UnusedUntouched, Present, NotPresent
<1> QED BY <1>1, <1>2 DEF IInv

LEMMA LoadDescriptorStep == ASSUME IInv, LoadDescriptor PROVE IInv'
<1> USE DEF LoadDescriptor
<1>1. TypeOK'
  <2> DEFINE descriptor == multiboot_info.entries[cursor + 1]
  <2>1. /\ multiboot_info \in MemoryMaps
        /\ multiboot_info.entries \in Seq(Descriptor)
    BY MapsAssumption DEF IInv, TypeOK
  <2>2. cursor + 1 \in 1 .. Len(multiboot_info.entries)
    BY <2>1 DEF IInv, TypeOK
  <2>3. descriptor \in Descriptor
    BY <2>1, <2>2
  <2>4. RegionOf(descriptor) \in Region
    BY <2>3, RegionOfRange
  <2>5. physical_memory_regions' \in Seq(Region)
    BY <2>4 DEF IInv, TypeOK
  <2> QED BY <2>5 DEF IInv, TypeOK
<1>2. NoSharedFrame' /\ BeforePaging' /\ UnusedUntouched'
  BY DEF IInv, NoSharedFrame, BeforePaging, UnusedUntouched, Present
<1> QED BY <1>1, <1>2 DEF IInv

LEMMA SetupPagingStep == ASSUME IInv, setupPaging PROVE IInv'
<1> USE DEF setupPaging
<1>1. 0 \in Frame
  BY SizesAssumption DEF Frame
<1>2. TypeOK'
  BY <1>1 DEF IInv, TypeOK
<1>3. NoSharedFrame'
  BY <1>1 DEF NoSharedFrame, Present, NotPresent
<1>4. BeforePaging' /\ UnusedUntouched'
  BY DEF IInv, BeforePaging, UnusedUntouched
<1> QED BY <1>2, <1>3, <1>4 DEF IInv

LEMMA CommitStep == ASSUME IInv, Commit PROVE IInv'
<1> USE DEF Commit
<1>1. /\ request \in [page : Page, value : Value]
      /\ request.page \in Frame
      /\ page_directory[request.page] \in Frame
      /\ page_directory[request.page] \in page_frame_map
  BY PageAssumption DEF IInv, TypeOK, NoSharedFrame, Present
<1>2. TypeOK'
  BY <1>1 DEF IInv, TypeOK
<1>3. NoSharedFrame' /\ BeforePaging'
  BY DEF IInv, NoSharedFrame, BeforePaging, Present
<1>4. UnusedUntouched'
  BY <1>1 DEF IInv, TypeOK, UnusedUntouched
<1> QED BY <1>2, <1>3, <1>4 DEF IInv

\* What a served fault has done: the page got a frame that nobody had.
LEMMA FaultServed ==
  ASSUME IInv, handle_page_fault
  PROVE  \E f \in Frame :
            /\ f \notin page_frame_map
            /\ request.page \in Page
            /\ ~ Present(request.page)
            /\ page_frame_map' = page_frame_map \union {f}
            /\ page_directory' = [page_directory EXCEPT ![request.page] = f]
<1>1. PICK s \in Slots : /\ FirstFreeSlot(s)
                         /\ page_frame_map' = setFrameUsed(page_frame_map, FrameOf(s))
                         /\ page_directory' = MapPage(page_directory, request.page, FrameOf(s))
  BY DEF handle_page_fault
<1>2. FrameOf(s) \in Frame
  <2>1. s[1] \in DOMAIN physical_memory_regions /\ s[2] \in Nat
    BY SizesAssumption DEF Slots
  <2>2. physical_memory_regions[s[1]] \in Region
    BY <2>1 DEF IInv, TypeOK
  <2> QED BY <2>1, <2>2, FrameAtRange DEF FrameOf
<1>3. FrameOf(s) \notin page_frame_map
  BY <1>1 DEF FirstFreeSlot, FreeSlots, is_frame_used
<1>4. request.page \in Page /\ ~ Present(request.page)
  BY DEF handle_page_fault, Faulting, Present, IInv, TypeOK
<1> QED BY <1>1, <1>2, <1>3, <1>4 DEF setFrameUsed, MapPage

LEMMA PageFaultStep == ASSUME IInv, handle_page_fault PROVE IInv'
<1>1. PICK f \in Frame :
            /\ f \notin page_frame_map
            /\ request.page \in Page
            /\ ~ Present(request.page)
            /\ page_frame_map' = page_frame_map \union {f}
            /\ page_directory' = [page_directory EXCEPT ![request.page] = f]
  BY FaultServed
<1>2. request.page \in Frame
  BY <1>1, PageAssumption
<1>3. TypeOK'
  BY <1>1, <1>2 DEF IInv, TypeOK, handle_page_fault
<1>4. NoSharedFrame'
  <2>1. \A p \in Frame : page_directory[p] # f
    BY <1>1 DEF IInv, NoSharedFrame, Present, NotPresent, Frame
  <2>2. \A p \in Frame :
           page_directory'[p] = IF p = request.page THEN f ELSE page_directory[p]
    BY <1>1, <1>2 DEF IInv, TypeOK
  <2> QED BY <1>1, <2>1, <2>2 DEF IInv, NoSharedFrame, Present
<1>5. BeforePaging' /\ UnusedUntouched'
  BY <1>1 DEF IInv, BeforePaging, UnusedUntouched, handle_page_fault, Faulting
<1> QED BY <1>3, <1>4, <1>5 DEF IInv

LEMMA NextIInv == IInv /\ [Next]_vars => IInv'
<1> SUFFICES ASSUME IInv, [Next]_vars PROVE IInv'
  OBVIOUS
<1>1. CASE NoMemoryMap
  BY <1>1 DEF NoMemoryMap, IInv, TypeOK, NoSharedFrame, BeforePaging, UnusedUntouched, Present
<1>2. CASE LoadDescriptor
  BY <1>2, LoadDescriptorStep
<1>3. CASE LoadDone
  BY <1>3 DEF LoadDone, IInv, TypeOK, NoSharedFrame, BeforePaging, UnusedUntouched, Present
<1>4. CASE setupPaging
  BY <1>4, SetupPagingStep
<1>5. ASSUME NEW p \in Page, NEW v \in Value, Issue(p, v) PROVE IInv'
  BY <1>5 DEF Issue, IInv, TypeOK, NoSharedFrame, BeforePaging, UnusedUntouched, Present
<1>6. CASE Commit
  BY <1>6, CommitStep
<1>7. CASE handle_page_fault
  BY <1>7, PageFaultStep
<1>8. CASE RunOutOfMemory
  BY <1>8 DEF RunOutOfMemory, Faulting, IInv, TypeOK, NoSharedFrame, BeforePaging,
              UnusedUntouched, Present
<1>9. CASE UNCHANGED vars
  BY <1>9 DEF vars, IInv, TypeOK, NoSharedFrame, BeforePaging, UnusedUntouched, Present
<1> QED BY <1>1, <1>2, <1>3, <1>4, <1>5, <1>6, <1>7, <1>8, <1>9 DEF Next, Boot

\* The invariant holds in every state of the kernel, whatever memory map it
\* is booted with.
THEOREM IInvAlways == Spec => []IInv
<1> QED BY InitIInv, NextIInv, PTL DEF Spec

-----------------------------------------------------------------------------
(* Results *)

\* The state of memory.c keeps its shape: in particular a page is never mapped
\* to a frame number beyond the directory and the frame map.
THEOREM TypeCorrect == Spec => []TypeOK
<1>1. IInv => TypeOK
  BY DEF IInv
<1> QED BY <1>1, IInvAlways, PTL

\* handle_page_fault never gives one frame to two pages.
THEOREM NoSharing == Spec => []NoSharedFrame
<1>1. IInv => NoSharedFrame
  BY DEF IInv
<1> QED BY <1>1, IInvAlways, PTL

\* No step of the kernel moves a mapped page or releases a frame.
THEOREM MappingsStable == Spec => MappingStable
<1> DEFINE Stable == /\ \A p \in Frame : Present(p) => page_directory'[p] = page_directory[p]
                     /\ phase = "paged" => page_frame_map \subseteq page_frame_map'
<1>1. IInv /\ [Next]_vars => [Stable]_vars
  <2> SUFFICES ASSUME IInv, Next PROVE Stable
    OBVIOUS
  <2>1. CASE setupPaging
    BY <2>1 DEF setupPaging, IInv, BeforePaging
  <2>2. CASE handle_page_fault
    <3>1. PICK f \in Frame :
            /\ ~ Present(request.page)
            /\ page_frame_map' = page_frame_map \union {f}
            /\ page_directory' = [page_directory EXCEPT ![request.page] = f]
      BY <2>2, FaultServed
    <3> QED BY <3>1 DEF IInv, TypeOK, Present
  <2>3. CASE NoMemoryMap \/ LoadDescriptor \/ LoadDone \/ Commit \/ RunOutOfMemory
    BY <2>3 DEF NoMemoryMap, LoadDescriptor, LoadDone, Commit, RunOutOfMemory
  <2>4. CASE \E p \in Page, v \in Value : Issue(p, v)
    BY <2>4 DEF Issue
  <2> QED BY <2>1, <2>2, <2>3, <2>4 DEF Next, Boot
<1> QED BY <1>1, IInvAlways, PTL DEF Spec, MappingStable

-----------------------------------------------------------------------------
(* The refinement *)

\* The contents of the pages, as VirtualMemory sees them.
Contents == [p \in Page |-> IF Present(p) THEN frames[page_directory[p]] ELSE Garbage]

LEMMA InitRefines == ASSUME Init PROVE VM!Init
BY PageAssumption DEF Init, VM!Init, Present, VM!NoRequest, NoRequest

LEMMA CommitRefines == ASSUME IInv, Commit PROVE VM!Commit
<1>1. /\ request \in [page : Page, value : Value]
      /\ page_directory[request.page] \in Frame
  BY PageAssumption DEF Commit, IInv, TypeOK
<1>2. Contents' = [Contents EXCEPT ![request.page] = request.value]
  <2>1. ASSUME NEW p \in Page
        PROVE  Contents'[p] = IF p = request.page THEN request.value ELSE Contents[p]
    <3>1. p \in Frame /\ request.page \in Frame
      BY <1>1, PageAssumption
    <3>2. page_directory' = page_directory
      BY DEF Commit
    <3>3. CASE p = request.page
      BY <1>1, <3>1, <3>2, <3>3 DEF Commit, Contents, Present, IInv, TypeOK
    <3>4. CASE p # request.page
      <4>1. Present(p) => page_directory[p] # page_directory[request.page]
        BY <3>1, <3>4 DEF Commit, IInv, NoSharedFrame
      <4>2. Present(p) => frames'[page_directory[p]] = frames[page_directory[p]]
        BY <1>1, <3>1, <4>1 DEF Commit, IInv, TypeOK, Present
      <4> QED BY <3>2, <3>4, <4>2 DEF Contents, Present
    <3> QED BY <3>3, <3>4
  <2> QED BY <1>1, <2>1 DEF Contents
<1> QED BY <1>2 DEF Commit, VM!Commit, Contents, VM!NoRequest, NoRequest

LEMMA PageFaultStutters == ASSUME IInv, handle_page_fault PROVE Contents' = Contents
<1>1. PICK f \in Frame :
            /\ f \notin page_frame_map
            /\ request.page \in Page
            /\ ~ Present(request.page)
            /\ page_directory' = [page_directory EXCEPT ![request.page] = f]
  BY FaultServed
<1>2. frames' = frames /\ frames[f] = Garbage
  BY <1>1 DEF handle_page_fault, IInv, UnusedUntouched
<1>3. ASSUME NEW p \in Page PROVE Contents'[p] = Contents[p]
  <2>1. p \in Frame /\ request.page \in Frame
    BY <1>1, PageAssumption
  <2>2. page_directory'[p] = IF p = request.page THEN f ELSE page_directory[p]
    BY <1>1, <2>1 DEF IInv, TypeOK
  <2>3. CASE p = request.page
    BY <1>1, <1>2, <2>2, <2>3 DEF Contents, Present
  <2>4. CASE p # request.page
    BY <1>2, <2>2, <2>4 DEF Contents, Present
  <2> QED BY <2>3, <2>4
<1> QED BY <1>3 DEF Contents

LEMMA SetupStutters == ASSUME IInv, setupPaging PROVE Contents' = Contents
<1>1. \A p \in Page : Contents[p] = Garbage
  BY PageAssumption DEF setupPaging, IInv, BeforePaging, Contents
<1>2. \A p \in Page : Contents'[p] = Garbage
  BY PageAssumption, SizesAssumption
     DEF setupPaging, IInv, BeforePaging, Contents, Present, NotPresent, Frame
<1> QED BY <1>1, <1>2 DEF Contents

LEMMA NextRefines == ASSUME IInv, [Next]_vars PROVE [VM!Next]_(VM!vmVars)
<1> USE DEF VM!vmVars
<1>1. ASSUME UNCHANGED <<frames, page_directory>> PROVE Contents' = Contents
  BY <1>1 DEF Contents, Present
<1>2. CASE NoMemoryMap \/ LoadDescriptor \/ LoadDone \/ RunOutOfMemory \/ UNCHANGED vars
  BY <1>1, <1>2 DEF NoMemoryMap, LoadDescriptor, LoadDone, RunOutOfMemory, vars, Contents
<1>3. CASE setupPaging
  BY <1>3, SetupStutters DEF Contents, setupPaging
<1>4. ASSUME NEW p \in Page, NEW v \in Value, Issue(p, v) PROVE VM!Next
  <2>1. VM!Issue(p, v)
    BY <1>1, <1>4 DEF Issue, VM!Issue, Contents, VM!NoRequest, NoRequest
  <2> QED BY <2>1 DEF VM!Next
<1>5. CASE Commit
  BY <1>5, CommitRefines DEF VM!Next
<1>6. CASE handle_page_fault
  BY <1>6, PageFaultStutters DEF Contents, handle_page_fault
<1> QED BY <1>2, <1>3, <1>4, <1>5, <1>6 DEF Next, Boot

\* Demand paging gives every page a private cell: the detailed kernel
\* implements the abstract virtual memory, for every memory map.
THEOREM Refinement == Spec => ImplementsVirtualMemory
<1> QED BY InitRefines, NextRefines, IInvAlways, PTL DEF Spec, ImplementsVirtualMemory, VM!Spec

-----------------------------------------------------------------------------
(* Physical memory *)

IsRAM(descriptor) == descriptor.region_type = 1

\* The table keeps a region that ends in the address space and does not begin in its
\* last frame, and whose frames, behind the first of all, are RAM from end to end.
KeptAsRAM(map, descriptor) ==
  LET region == RegionOf(descriptor)
  IN  /\ region.address + region.size <= AddrMod
      /\ region.address + FRAME_SIZE < AddrMod
      /\ \A pfn \in Frame \ {0} :
           region.address <= pfn * FRAME_SIZE
             /\ (pfn + 1) * FRAME_SIZE <= region.address + region.size
           => \E i \in DOMAIN map.entries : FitsIn(pfn, map.entries[i])

KeepsRAM ==
  \A map \in MemoryMaps : \A i \in DOMAIN map.entries :
    IsRAM(map.entries[i]) => KeptAsRAM(map, map.entries[i])

\* A region that has no frame of the address space, or that ends within it, does not
\* begin on the boundary of a frame other than the first, and is too small to have as
\* many frames as frame_count has values.
Searchable(descriptor) ==
  \/ descriptor.base + FRAME_SIZE > AddrMod
  \/ /\ descriptor.base + descriptor.length < AddrMod
     /\ descriptor.base % FRAME_SIZE = 0 => descriptor.base = 0
     /\ descriptor.length < FrameCountMod * FRAME_SIZE

SearchesAll ==
  \A map \in MemoryMaps : \A i \in DOMAIN map.entries :
    IsRAM(map.entries[i]) => Searchable(map.entries[i])

\* The table is what was traversed of the map.
Loaded ==
  /\ cursor <= Len(multiboot_info.entries)
  /\ \A r \in DOMAIN physical_memory_regions :
       \E i \in 1 .. cursor :
         /\ IsRAM(multiboot_info.entries[i])
         /\ physical_memory_regions[r] = RegionOf(multiboot_info.entries[i])
  /\ \A i \in 1 .. cursor :
       IsRAM(multiboot_info.entries[i]) =>
         \E r \in DOMAIN physical_memory_regions :
           physical_memory_regions[r] = RegionOf(multiboot_info.entries[i])
  /\ phase \in {"loaded", "paged"} => cursor = Len(multiboot_info.entries)
  /\ phase = "paged" => 0 \in page_frame_map

LEMMA Entries ==
  ASSUME TypeOK
  PROVE  /\ multiboot_info \in MemoryMaps /\ multiboot_info.entries \in Seq(Descriptor)
         /\ Len(multiboot_info.entries) \in Nat /\ cursor \in Nat
         /\ DOMAIN multiboot_info.entries = 1 .. Len(multiboot_info.entries)
<1>1. /\ multiboot_info \in MemoryMaps /\ cursor \in Nat
      /\ multiboot_info.entries \in Seq(Descriptor)
  BY MapsAssumption DEF TypeOK
<1> QED BY <1>1

LEMMA NextLoaded == ASSUME IInv, Loaded, [Next]_vars PROVE Loaded'
<1> DEFINE E == multiboot_info.entries
           R == physical_memory_regions
<1>1. /\ TypeOK /\ E \in Seq(Descriptor) /\ Len(E) \in Nat /\ cursor \in Nat
      /\ R \in Seq(Region) /\ Len(R) \in Nat /\ DOMAIN R = 1 .. Len(R)
  <2>1. TypeOK /\ R \in Seq(Region)
    BY DEF IInv, TypeOK
  <2> QED BY <2>1, Entries
<1>2. CASE LoadDescriptor
  <2> DEFINE d == E[cursor + 1]
  <2>1. /\ UNCHANGED <<multiboot_info, phase>> /\ phase = "loading"
        /\ cursor < Len(E) /\ cursor' = cursor + 1
        /\ R' = IF IsRAM(d) THEN Append(R, RegionOf(d)) ELSE R
    BY <1>2 DEF LoadDescriptor, IsRAM
  <2>2. cursor' <= Len(E')
    BY <1>1, <2>1
  <2>3. /\ Len(Append(R, RegionOf(d))) = Len(R) + 1
        /\ Append(R, RegionOf(d))[Len(R) + 1] = RegionOf(d)
        /\ \A r \in 1 .. Len(R) : Append(R, RegionOf(d))[r] = R[r]
        /\ DOMAIN Append(R, RegionOf(d)) = 1 .. Len(R) + 1
    <3>1. RegionOf(d) \in Region
      <4>1. d \in Descriptor
        BY <1>1, <2>1
      <4> QED BY <4>1, RegionOfRange
    <3> HIDE DEF d, R
    <3> QED BY <1>1, <3>1
  <2>4. \A r \in DOMAIN R : r \in DOMAIN R' /\ R'[r] = R[r]
    BY <1>1, <2>1, <2>3
  <2>5. \A r \in DOMAIN R' : r \in DOMAIN R \/ (IsRAM(d) /\ R'[r] = RegionOf(d))
    BY <1>1, <2>1, <2>3
  <2>6. IsRAM(d) => \E r \in DOMAIN R' : R'[r] = RegionOf(d)
    BY <1>1, <2>1, <2>3
  <2>7. E' = E /\ \A i \in 1 .. cursor' : i \in 1 .. cursor \/ i = cursor + 1
    BY <1>1, <2>1
  <2>8. cursor + 1 \in 1 .. cursor' /\ \A i \in 1 .. cursor : i \in 1 .. cursor'
    BY <1>1, <2>1
  <2> HIDE DEF E, R
  <2>9. ASSUME NEW r \in DOMAIN R'
        PROVE  \E i \in 1 .. cursor' : IsRAM(E'[i]) /\ R'[r] = RegionOf(E'[i])
    <3>1. CASE r \in DOMAIN R
      <4>1. PICK i \in 1 .. cursor : IsRAM(E[i]) /\ R[r] = RegionOf(E[i])
        BY <3>1 DEF Loaded, E, R
      <4> QED BY <2>4, <2>7, <2>8, <3>1, <4>1
    <3>2. CASE IsRAM(d) /\ R'[r] = RegionOf(d)
      BY <2>7, <2>8, <3>2
    <3> QED BY <2>5, <2>9, <3>1, <3>2
  <2>10. ASSUME NEW i \in 1 .. cursor', IsRAM(E'[i])
         PROVE  \E r \in DOMAIN R' : R'[r] = RegionOf(E'[i])
    <3>1. CASE i \in 1 .. cursor
      <4>1. PICK r \in DOMAIN R : R[r] = RegionOf(E[i])
        BY <2>7, <2>10, <3>1 DEF Loaded, E, R
      <4> QED BY <2>4, <2>7, <4>1
    <3>2. CASE i = cursor + 1
      BY <2>6, <2>7, <2>10, <3>2
    <3> QED BY <2>7, <2>10, <3>1, <3>2
  <2> QED BY <2>1, <2>2, <2>9, <2>10 DEF Loaded, E, R
<1>3. ASSUME UNCHANGED <<multiboot_info, cursor, physical_memory_regions>>,
             phase' \in {"loaded", "paged"} => cursor = Len(E),
             phase' = "paged" => 0 \in page_frame_map'
      PROVE  Loaded'
  BY <1>3 DEF Loaded
<1>4. CASE NoMemoryMap \/ RunOutOfMemory
  BY <1>3, <1>4 DEF NoMemoryMap, RunOutOfMemory
<1>5. CASE LoadDone \/ setupPaging
  BY <1>3, <1>5 DEF LoadDone, setupPaging, Loaded
<1>6. CASE Commit \/ \E p \in Page, v \in Value : Issue(p, v)
  BY <1>3, <1>6 DEF Commit, Issue, Loaded
<1>7. CASE handle_page_fault
  BY <1>3, <1>7 DEF handle_page_fault, setFrameUsed, Loaded
<1>8. CASE UNCHANGED vars
  BY <1>8 DEF vars, Loaded
<1> QED BY <1>2, <1>4, <1>5, <1>6, <1>7, <1>8 DEF Next, Boot

LEMMA LoadedAlways == Spec => [](IInv /\ Loaded)
<1>1. ASSUME Init PROVE Loaded
  <2>1. TypeOK
    BY <1>1, InitIInv DEF IInv
  <2> QED BY <1>1, <2>1, Entries DEF Init, Loaded
<1> QED BY <1>1, NextLoaded, IInvAlways, PTL DEF Spec

LEMMA WrapSmall ==
  ASSUME NEW x \in 0 .. AddrMod - 1
  PROVE  Wrap(x) = x
<1>1. AddrMod \in Nat \ {0}
  BY SizesAssumption, Product DEF AddrMod
<1>2. (AddrMod * 0 + x) % AddrMod = x
  BY <1>1, ModUnique
<1>3. AddrMod * 0 + x = x
  BY <1>1
<1> QED BY <1>2, <1>3 DEF Wrap

\* Multiplying keeps the order, and nothing lies between two neighbours.
LEMMA Ordered ==
  ASSUME NEW a \in Nat, NEW b \in Nat, NEW f \in Nat \ {0}
  PROVE  /\ a * f \in Nat
         /\ a <= b <=> a * f <= b * f
         /\ a * f < (b + 1) * f => a <= b
         /\ (a + 1) * f = (a * f) + f
<1>1. a * f \in Nat /\ b * f \in Nat /\ (a + 1) * f = (a * f) + f /\ (b + 1) * f = (b * f) + f
  OBVIOUS
<1>2. a <= b => a * f <= b * f
  OBVIOUS
<1>3. a >= b + 1 => a * f >= (b + 1) * f
  OBVIOUS
<1> QED BY <1>1, <1>2, <1>3

LEMMA FrameNumber ==
  ASSUME NEW k \in Nat
  PROVE  get_physical_frame_number(k * FRAME_SIZE) = k
<1>1. FRAME_SIZE \in Nat \ {0}
  BY SizesAssumption
<1> DEFINE f == FRAME_SIZE
           d == (k * f) \div f
<1>2. k * f \in Int
  BY <1>1
<1>3. (d * f) + ((k * f) % f) = k * f
  BY <1>1, <1>2, DivMod
<1>4. (k * f) % f = 0
  <2>1. (f * k + 0) % f = 0
    BY <1>1, ModUnique
  <2>2. f * k + 0 = k * f
    BY <1>1
  <2> QED BY <2>1, <2>2
<1>5. d \in Nat
  BY <1>1, <1>2
<1>6. d * f = k * f
  <2>1. d * f \in Int
    BY <1>1, <1>5
  <2> HIDE DEF d
  <2> QED BY <1>1, <1>2, <1>3, <1>4, <2>1
<1> HIDE DEF d
<1>7. d = k
  BY <1>1, <1>5, <1>6, Ordered
<1> QED BY <1>7 DEF d, get_physical_frame_number

\* The search begins with the frame behind the one in which the region begins.
LEMMA Start ==
  ASSUME NEW region \in Region
  PROVE  LET k == (region.address \div FRAME_SIZE) + 1
         IN  /\ k \in Nat \ {0}
             /\ region.address < k * FRAME_SIZE
             /\ k * FRAME_SIZE <= region.address + FRAME_SIZE
             /\ region.address % FRAME_SIZE # 0 \/ region.address = 0 =>
                  \A n \in Nat \ {0} : region.address <= n * FRAME_SIZE => k <= n
             /\ k * FRAME_SIZE < AddrMod => FrameStart(region) = k * FRAME_SIZE
<1> DEFINE a == region.address
           f == FRAME_SIZE
           q == a \div f
           k == q + 1
<1>1. a \in Nat /\ f \in Nat \ {0}
  BY SizesAssumption DEF Region
<1>2. /\ (q * f) + (a % f) = a /\ a % f \in 0 .. f - 1
      /\ q \in Nat
  <2>1. (q * f) + (a % f) = a /\ a % f \in 0 .. f - 1
    <3>1. a \in Int /\ f \in Nat \ {0}
      BY <1>1
    <3> QED BY <3>1, DivMod, Zenon
  <2>2. q \in Nat
    BY <1>1
  <2> QED BY <2>1, <2>2
<1>3. k * f = (q * f) + f /\ q * f \in Nat
  <2> HIDE DEF q
  <2> QED BY <1>1, <1>2
<1>4. k \in Nat \ {0} /\ a < k * f /\ k * f <= a + f
  <2> HIDE DEF q
  <2> QED BY <1>1, <1>2, <1>3
<1>5. ASSUME a % f # 0 \/ a = 0, NEW n \in Nat \ {0}, a <= n * f
      PROVE  k <= n
  <2>1. CASE a % f # 0
    <3>1. q * f < a
      BY <1>1, <1>2, <1>3, <2>1
    <3>2. n * f \in Nat
      BY <1>1
    <3>3. q * f < n * f
      BY <1>1, <1>3, <1>5, <3>1, <3>2
    <3>4. ~ (n <= q)
      BY <1>1, <1>2, <1>3, <3>2, <3>3, Ordered
    <3> HIDE DEF q
    <3> QED BY <1>2, <3>4
  <2>2. CASE a = 0
    <3>1. q * f = 0
      BY <1>1, <1>2, <1>3, <2>2
    <3>2. q = 0
      <4> HIDE DEF q
      <4> QED BY <1>1, <1>2, <3>1
    <3> HIDE DEF q
    <3> QED BY <3>2
  <2> QED BY <1>5, <2>1, <2>2
<1>6. ASSUME k * f < AddrMod PROVE FrameStart(region) = k * f
  <2>1. a - (a % f) + f = k * f
    <3> HIDE DEF q
    <3> QED BY <1>1, <1>2, <1>3
  <2>2. k * f \in 0 .. AddrMod - 1
    <3>1. AddrMod \in Nat /\ k * f \in Nat
      BY <1>1, <1>3, SizesAssumption DEF AddrMod
    <3> HIDE DEF k
    <3> QED BY <1>6, <3>1
  <2>3. Wrap(a - (a % f) + f) = k * f
    BY <2>1, <2>2, WrapSmall
  <2> QED BY <2>3 DEF FrameStart
<1> QED BY <1>4, <1>5, <1>6

\* In a region that ends in the address space the slots are frames of the region.
LEMMA SlotIsFrame ==
  ASSUME NEW region \in Region, NEW n \in Nat, n < FrameCount(region),
         region.address + region.size <= AddrMod,
         region.address + FRAME_SIZE < AddrMod
  PROVE  LET pfn == FrameAt(region, n)
         IN  /\ pfn \in Frame \ {0}
             /\ region.address <= pfn * FRAME_SIZE
             /\ (pfn + 1) * FRAME_SIZE <= region.address + region.size
<1> DEFINE a == region.address
           l == region.size
           f == FRAME_SIZE
           k == (a \div f) + 1
           s == k * f
           rem == RemainingSize(region)
<1>1. /\ a \in Nat /\ l \in Nat /\ f \in Nat \ {0} /\ AddrMod \in Nat \ {0}
      /\ FrameCountMod \in Nat \ {0} /\ a + l <= AddrMod /\ a + f < AddrMod
      /\ a + l \in Nat
  BY SizesAssumption, Product DEF Region, AddrMod
<1>2. k \in Nat \ {0} /\ a < s /\ s <= a + f /\ (s < AddrMod => FrameStart(region) = s)
  BY Start
<1> HIDE DEF k
<1>3. s \in Nat
  BY <1>1, <1>2
<1> HIDE DEF s
<1>4. FrameStart(region) = s /\ s < AddrMod
  BY <1>1, <1>2, <1>3
<1>5. ~ FitsNoFrame(region)
  BY <1>1 DEF FrameCount
<1>6. a + l < AddrMod /\ s <= a + l
  <2>1. s <= Wrap(a + l)
    <3>1. Wrap(a + l) \in Int
      BY <1>1, WrapRange
    <3> QED BY <1>3, <1>4, <1>5, <3>1 DEF FitsNoFrame
  <2>2. ASSUME a + l = AddrMod PROVE FALSE
    <3>1. Wrap(a + l) = 0
      <4>1. (AddrMod * 1 + 0) % AddrMod = 0
        BY <1>1, ModUnique
      <4>2. AddrMod * 1 + 0 = a + l
        BY <1>1, <2>2
      <4> QED BY <4>1, <4>2 DEF Wrap
    <3> QED BY <1>1, <1>2, <1>3, <2>1, <3>1
  <2>3. a + l < AddrMod
    BY <1>1, <2>2
  <2>4. Wrap(a + l) = a + l
    <3>1. a + l \in 0 .. AddrMod - 1
      BY <1>1, <2>3
    <3> QED BY <3>1, WrapSmall
  <2> QED BY <2>1, <2>3, <2>4
<1>7. rem = a + l - s /\ rem \in Nat
  <2>1. l - (s - a) = a + l - s /\ a + l - s \in 0 .. AddrMod - 1
    BY <1>1, <1>2, <1>3, <1>6
  <2>2. Wrap(l - (s - a)) = a + l - s
    BY <2>1, WrapSmall
  <2> QED BY <1>4, <2>1, <2>2 DEF RemainingSize
<1> HIDE DEF rem
<1>8. n + 1 <= rem \div f
  <2>1. FrameCount(region) = (rem \div f) % FrameCountMod
    BY <1>5 DEF FrameCount, rem
  <2>2. rem \div f \in Nat
    BY <1>1, <1>7
  <2>3. (rem \div f) % FrameCountMod <= rem \div f /\ (rem \div f) % FrameCountMod \in Nat
    <3> DEFINE x == rem \div f
    <3> HIDE DEF x
    <3>1. x \in Nat => x % FrameCountMod <= x /\ x % FrameCountMod \in Nat
      BY <1>1
    <3> QED BY <2>2, <3>1 DEF x
  <2> QED BY <2>1, <2>2, <2>3
<1>9. (n + 1) * f <= rem
  <2> DEFINE x == rem \div f
  <2>1. x \in Nat /\ (x * f) + (rem % f) = rem /\ rem % f \in 0 .. f - 1
    <3>1. x \in Nat /\ rem \in Int /\ f \in Nat \ {0}
      BY <1>1, <1>7
    <3> QED BY <3>1, DivMod, Zenon
  <2> HIDE DEF x
  <2>2. (n + 1) * f <= x * f
    BY <1>1, <1>8, <2>1, Ordered DEF x
  <2>3. (n + 1) * f \in Nat /\ x * f \in Nat
    BY <1>1, <2>1
  <2> QED BY <1>1, <1>7, <2>1, <2>2, <2>3
<1> DEFINE m == k + n
<1>10. /\ m \in Nat \ {0} /\ m * f = s + (n * f) /\ (m + 1) * f = s + ((n + 1) * f)
       /\ n * f \in Nat /\ (n + 1) * f = (n * f) + f
  BY <1>1, <1>2 DEF s
<1>11. m * f < AddrMod /\ m * f \in Nat /\ a <= m * f /\ (m + 1) * f <= a + l
  BY <1>1, <1>2, <1>3, <1>6, <1>7, <1>9, <1>10
<1> HIDE DEF m
<1>12. FrameAt(region, n) = m
  <2>1. Wrap(s + (n * f)) = m * f
    <3>1. m * f \in 0 .. AddrMod - 1
      BY <1>1, <1>11
    <3> QED BY <1>10, <3>1, WrapSmall
  <2> QED BY <1>4, <1>10, <2>1, FrameNumber DEF FrameAt
<1>13. m \in Frame \ {0}
  <2>1. m * f < NumFrames * f /\ NumFrames \in Nat
    BY <1>11, SizesAssumption DEF AddrMod
  <2>2. ~ (NumFrames <= m)
    <3>1. m * f \in Nat /\ NumFrames * f \in Nat
      BY <1>1, <1>11, <2>1
    <3> QED BY <1>1, <1>10, <2>1, <3>1, Ordered
  <2> QED BY <1>10, <2>1, <2>2 DEF Frame
<1> QED BY <1>11, <1>12, <1>13

\* The slots of a region reach each of its frames but the first of the address space.
LEMMA FrameHasSlot ==
  ASSUME NEW region \in Region, NEW pfn \in Frame \ {0},
         region.address + region.size < AddrMod,
         region.address % FRAME_SIZE # 0 \/ region.address = 0,
         region.size < FrameCountMod * FRAME_SIZE,
         region.address <= pfn * FRAME_SIZE,
         (pfn + 1) * FRAME_SIZE <= region.address + region.size
  PROVE  \E n \in 0 .. FrameCountMod - 1 :
           n < FrameCount(region) /\ FrameAt(region, n) = pfn
<1> DEFINE a == region.address
           l == region.size
           f == FRAME_SIZE
           k == (a \div f) + 1
           s == k * f
           rem == RemainingSize(region)
           n == pfn - k
<1>1. /\ a \in Nat /\ l \in Nat /\ f \in Nat \ {0} /\ AddrMod \in Nat \ {0}
      /\ FrameCountMod \in Nat \ {0} /\ a + l < AddrMod /\ l < FrameCountMod * f
      /\ FrameCountMod * f \in Nat
      /\ pfn \in Nat \ {0} /\ a <= pfn * f /\ (pfn + 1) * f <= a + l
      /\ pfn * f \in Nat /\ (pfn + 1) * f = (pfn * f) + f
  BY SizesAssumption, Product DEF Region, AddrMod, Frame
<1>2. /\ k \in Nat \ {0} /\ a < s /\ s <= a + f /\ (s < AddrMod => FrameStart(region) = s)
      /\ k <= pfn
  BY <1>1, Start
<1> HIDE DEF k
<1>3. s \in Nat /\ s <= pfn * f
  BY <1>1, <1>2, Ordered
<1>4. n \in Nat /\ n * f \in Nat /\ s + (n * f) = pfn * f /\ (n + 1) * f = (n * f) + f
  BY <1>1, <1>2
<1> HIDE DEF s, n
<1>5. FrameStart(region) = s /\ pfn * f < AddrMod
  BY <1>1, <1>2, <1>3
<1>6. ~ FitsNoFrame(region)
  <2>1. a + l \in 0 .. AddrMod - 1
    BY <1>1
  <2>2. Wrap(a + l) = a + l
    BY <2>1, WrapSmall
  <2> QED BY <1>1, <1>3, <1>5, <2>2 DEF FitsNoFrame
<1>7. rem = a + l - s /\ rem \in Nat
  <2>1. l - (s - a) = a + l - s /\ a + l - s \in 0 .. AddrMod - 1
    BY <1>1, <1>2, <1>3
  <2>2. Wrap(l - (s - a)) = a + l - s
    BY <2>1, WrapSmall
  <2> QED BY <1>5, <2>1, <2>2 DEF RemainingSize
<1> HIDE DEF rem
<1> DEFINE x == rem \div f
<1>8. x \in Nat /\ (x * f) + (rem % f) = rem /\ rem % f \in 0 .. f - 1
  <2>1. x \in Nat /\ rem \in Int /\ f \in Nat \ {0}
    BY <1>1, <1>7
  <2> QED BY <2>1, DivMod, Zenon
<1> HIDE DEF x
<1>9. x * f \in Nat /\ (x + 1) * f = (x * f) + f
  BY <1>1, <1>8
<1>10. n < x
  <2>1. (n + 1) * f <= rem
    BY <1>1, <1>3, <1>4, <1>7
  <2>2. (n + 1) * f < (x + 1) * f
    BY <1>1, <1>4, <1>7, <1>8, <1>9, <2>1
  <2>3. n + 1 <= x
    <3>1. n + 1 \in Nat
      BY <1>4
    <3> QED BY <1>1, <1>8, <2>2, <3>1, Ordered
  <2> QED BY <1>4, <1>8, <2>3
<1>11. x < FrameCountMod
  <2>1. x * f < FrameCountMod * f
    <3> DEFINE y == x * f
               z == FrameCountMod * f
    <3>1. y \in Nat /\ z \in Nat /\ l < z /\ y + (rem % f) = rem /\ rem % f \in Nat
      BY <1>1, <1>8, <1>9
    <3> HIDE DEF y, z
    <3>2. rem < l
      BY <1>1, <1>2, <1>3, <1>7
    <3>3. y < z
      BY <1>1, <1>7, <3>1, <3>2
    <3> QED BY <3>3 DEF y, z
  <2>2. ~ (FrameCountMod <= x)
    BY <1>1, <1>8, <1>9, <2>1, Ordered
  <2> QED BY <1>1, <1>8, <2>2
<1>12. FrameCount(region) = x
  <2>1. FrameCount(region) = x % FrameCountMod
    BY <1>6 DEF FrameCount, rem, x
  <2>2. (FrameCountMod * 0 + x) % FrameCountMod = x
    <3>1. x \in 0 .. FrameCountMod - 1
      BY <1>1, <1>8, <1>11
    <3> QED BY <1>1, <3>1, ModUnique
  <2>3. FrameCountMod * 0 + x = x
    BY <1>1, <1>8
  <2> QED BY <2>1, <2>2, <2>3
<1>13. FrameAt(region, n) = pfn
  <2>1. Wrap(s + (n * f)) = pfn * f
    <3>1. pfn * f \in 0 .. AddrMod - 1
      BY <1>1, <1>5
    <3> QED BY <1>4, <3>1, WrapSmall
  <2> QED BY <1>1, <1>5, <2>1, FrameNumber DEF FrameAt
<1>14. n \in 0 .. FrameCountMod - 1
  BY <1>1, <1>4, <1>8, <1>10, <1>11
<1> QED BY <1>10, <1>12, <1>13, <1>14

LEMMA SlotTypes ==
  ASSUME TypeOK, NEW s \in Slots
  PROVE  /\ s[1] \in DOMAIN physical_memory_regions
         /\ physical_memory_regions[s[1]] \in Region
         /\ s[2] \in Nat /\ s[2] < FrameCount(physical_memory_regions[s[1]])
<1>1. /\ s[1] \in DOMAIN physical_memory_regions /\ s[2] \in 0 .. FrameCountMod - 1
      /\ s[2] < FrameCount(physical_memory_regions[s[1]])
  BY DEF Slots
<1>2. s[2] \in Nat
  BY <1>1, SizesAssumption
<1>3. physical_memory_regions[s[1]] \in Region
  BY <1>1 DEF TypeOK
<1> QED BY <1>1, <1>2, <1>3

\* What a slot of the search names is RAM from end to end.
LEMMA SlotIsRAM ==
  ASSUME KeepsRAM, IInv, Loaded, NEW s \in Slots
  PROVE  FrameOf(s) \in Frame \ {0} /\ BackedByRAM(FrameOf(s))
<1> DEFINE region == physical_memory_regions[s[1]]
           pfn == FrameAt(region, s[2])
<1>1. TypeOK
  BY DEF IInv
<1>2. s[1] \in DOMAIN physical_memory_regions /\ region \in Region
      /\ s[2] \in Nat /\ s[2] < FrameCount(region)
  BY <1>1, SlotTypes
<1>3. PICK i \in 1 .. cursor : /\ IsRAM(multiboot_info.entries[i])
                               /\ region = RegionOf(multiboot_info.entries[i])
  BY <1>2 DEF Loaded
<1>4. multiboot_info \in MemoryMaps /\ i \in DOMAIN multiboot_info.entries
  BY <1>1, <1>3, Entries DEF Loaded
<1>5. KeptAsRAM(multiboot_info, multiboot_info.entries[i])
  BY <1>3, <1>4 DEF KeepsRAM
<1>6. /\ region.address + region.size <= AddrMod
      /\ region.address + FRAME_SIZE < AddrMod
      /\ \A p \in Frame \ {0} :
           region.address <= p * FRAME_SIZE
             /\ (p + 1) * FRAME_SIZE <= region.address + region.size
           => BackedByRAM(p)
  BY <1>3, <1>5, Zenon DEF KeptAsRAM, BackedByRAM
<1> HIDE DEF region
<1>7. /\ pfn \in Frame \ {0}
      /\ region.address <= pfn * FRAME_SIZE
      /\ (pfn + 1) * FRAME_SIZE <= region.address + region.size
  BY <1>2, <1>6, SlotIsFrame
<1>8. BackedByRAM(pfn)
  <2> HIDE DEF pfn
  <2> QED BY <1>6, <1>7
<1> QED BY <1>7, <1>8 DEF FrameOf, region

\* A page beyond low memory is never given anything but RAM, although the table forgets
\* the high words of the map and the search computes modulo 2^32, for every map whose RAM
\* the table keeps.
THEOREM HandsOutRAM == ASSUME KeepsRAM PROVE Spec => []FramesBackedByRAM
<1>1. ASSUME Init PROVE FramesBackedByRAM
  BY <1>1 DEF Init, FramesBackedByRAM, Present
<1>2. ASSUME FramesBackedByRAM, IInv, Loaded, [Next]_vars PROVE FramesBackedByRAM'
  <2>1. UNCHANGED multiboot_info
    BY <1>2 DEF Next, Boot, vars, NoMemoryMap, LoadDescriptor, LoadDone, setupPaging, Issue,
                Commit, handle_page_fault, RunOutOfMemory
  <2>2. UNCHANGED page_directory \/ setupPaging \/ handle_page_fault
    BY <1>2 DEF Next, Boot, vars, NoMemoryMap, LoadDescriptor, LoadDone, Issue, Commit,
                RunOutOfMemory
  <2>3. ASSUME NEW p \in Frame \ {0}, page_directory'[p] # NotPresent
        PROVE  BackedByRAM(page_directory'[p])
    <3>1. CASE UNCHANGED page_directory
      BY <1>2, <2>3, <3>1 DEF FramesBackedByRAM, Present
    <3>2. CASE setupPaging
      BY <2>3, <3>2 DEF setupPaging
    <3>3. CASE handle_page_fault
      <4>1. PICK s \in Slots :
              page_directory' = MapPage(page_directory, request.page, FrameOf(s))
        BY <3>3 DEF handle_page_fault
      <4>2. BackedByRAM(FrameOf(s))
        BY <1>2, SlotIsRAM
      <4>3. page_directory'[p] = FrameOf(s) \/ page_directory'[p] = page_directory[p]
        BY <1>2, <4>1 DEF MapPage, IInv, TypeOK
      <4> QED BY <1>2, <2>3, <4>2, <4>3 DEF FramesBackedByRAM, Present
    <3> QED BY <2>2, <3>1, <3>2, <3>3
  <2> QED BY <2>1, <2>3 DEF FramesBackedByRAM, Present, BackedByRAM
<1> QED BY <1>1, <1>2, LoadedAlways, PTL DEF Spec

\* Every frame of RAM but the first has a slot.
LEMMA RAMHasSlot ==
  ASSUME SearchesAll, IInv, Loaded, phase = "paged", NEW pfn \in Frame \ {0}, BackedByRAM(pfn)
  PROVE  \E s \in Slots : FrameOf(s) = pfn
<1> DEFINE E == multiboot_info.entries
<1>1. PICK i \in DOMAIN E : FitsIn(pfn, E[i])
  BY DEF BackedByRAM
<1> DEFINE d == E[i]
<1>2. multiboot_info \in MemoryMaps /\ i \in 1 .. cursor /\ d \in Descriptor
  BY Entries DEF IInv, Loaded
<1>3. /\ IsRAM(d) /\ d.base \in Nat /\ d.length \in Nat
      /\ d.base <= pfn * FRAME_SIZE /\ (pfn + 1) * FRAME_SIZE <= d.base + d.length
  BY <1>1, <1>2 DEF FitsIn, IsRAM, Descriptor
<1>4. /\ FRAME_SIZE \in Nat \ {0} /\ AddrMod \in Nat \ {0} /\ FrameCountMod \in Nat \ {0}
  BY SizesAssumption, Product DEF AddrMod
<1>5. Searchable(d)
  BY <1>2, <1>3 DEF SearchesAll
<1>6. PICK r \in DOMAIN physical_memory_regions : physical_memory_regions[r] = RegionOf(d)
  BY <1>2, <1>3 DEF Loaded
<1> HIDE DEF d
<1>7. ~ (d.base + FRAME_SIZE > AddrMod)
  <2>1. pfn + 1 \in Nat /\ pfn + 1 <= NumFrames /\ NumFrames \in Nat /\ pfn \in Nat
    BY SizesAssumption DEF Frame
  <2>2. (pfn + 1) * FRAME_SIZE <= AddrMod /\ (pfn + 1) * FRAME_SIZE = (pfn * FRAME_SIZE) + FRAME_SIZE
        /\ pfn * FRAME_SIZE \in Nat
    BY <1>4, <2>1, Ordered DEF AddrMod
  <2> QED BY <1>3, <1>4, <2>2
<1>8. /\ d.base + d.length < AddrMod
      /\ d.base % FRAME_SIZE = 0 => d.base = 0
      /\ d.length < FrameCountMod * FRAME_SIZE
  BY <1>5, <1>7 DEF Searchable
<1>9. RegionOf(d) = [address |-> d.base, size |-> d.length]
  <2>1. d.base \in 0 .. AddrMod - 1 /\ d.length \in 0 .. AddrMod - 1
    BY <1>3, <1>4, <1>8
  <2> QED BY <2>1, WrapSmall DEF RegionOf
<1> DEFINE region == physical_memory_regions[r]
<1>10. region \in Region /\ region.address = d.base /\ region.size = d.length
  BY <1>6, <1>9 DEF IInv, TypeOK
<1> HIDE DEF region
<1>11. PICK n \in 0 .. FrameCountMod - 1 : n < FrameCount(region) /\ FrameAt(region, n) = pfn
  BY <1>3, <1>8, <1>10, FrameHasSlot
<1>12. <<r, n>> \in Slots /\ FrameOf(<<r, n>>) = pfn
  BY <1>6, <1>11 DEF Slots, FrameOf, region
<1> QED BY <1>12

\* The kernel gives up only when every frame of RAM is in use, for every map that the
\* search sees in full.
THEOREM HaltsExhausted == ASSUME SearchesAll PROVE Spec => []HaltsOnlyWhenExhausted
<1>1. ASSUME Init PROVE HaltsOnlyWhenExhausted
  BY <1>1 DEF Init, HaltsOnlyWhenExhausted
<1>2. ASSUME HaltsOnlyWhenExhausted, IInv, Loaded, [Next]_vars PROVE HaltsOnlyWhenExhausted'
  <2>1. CASE RunOutOfMemory
    <3>1. /\ phase = "paged" /\ FreeSlots = {}
          /\ UNCHANGED <<multiboot_info, page_frame_map>>
      BY <2>1 DEF RunOutOfMemory, Faulting
    <3>2. ASSUME NEW pfn \in Frame, BackedByRAM(pfn) PROVE pfn \in page_frame_map
      <4>1. CASE pfn = 0
        BY <1>2, <3>1, <4>1 DEF Loaded
      <4>2. CASE pfn # 0
        <5>1. PICK s \in Slots : FrameOf(s) = pfn
          BY <1>2, <3>1, <3>2, <4>2, RAMHasSlot
        <5> QED BY <3>1, <5>1 DEF FreeSlots, is_frame_used
      <4> QED BY <4>1, <4>2
    <3> QED BY <3>1, <3>2 DEF HaltsOnlyWhenExhausted, BackedByRAM
  <2>2. CASE NoMemoryMap
    BY <2>2 DEF NoMemoryMap, HaltsOnlyWhenExhausted
  <2>3. CASE UNCHANGED vars
    BY <1>2, <2>3 DEF vars, HaltsOnlyWhenExhausted, BackedByRAM
  <2>4. ASSUME phase' # "halted" PROVE HaltsOnlyWhenExhausted'
    BY <2>4 DEF HaltsOnlyWhenExhausted
  <2>5. RunOutOfMemory \/ NoMemoryMap \/ UNCHANGED vars \/ phase' # "halted"
    BY <1>2 DEF Next, Boot, LoadDescriptor, LoadDone, setupPaging, Issue, Commit,
                handle_page_fault, Faulting
  <2> QED BY <2>1, <2>2, <2>3, <2>4, <2>5
<1> QED BY <1>1, <1>2, LoadedAlways, PTL DEF Spec
=============================================================================
