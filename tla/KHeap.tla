------------------------------- MODULE KHeap -------------------------------
(***************************************************************************)
(* The kernel heap (src/src/stdlib/kheap.c): a list of headers, each in    *)
(* front of the bytes it manages, searched first fit.  Addresses are       *)
(* numbers, sizes are size_t and wrap at WordMod (2^32), a header takes    *)
(* HDR addresses (11), and adding n to a HeapNode* moves it n headers on.  *)
(* The loops of the code are steps, so that a loop that never ends shows.  *)
(***************************************************************************)
EXTENDS Integers, FiniteSets

CONSTANTS
  KHEAP_START, KHEAP_END,
  HDR,          \* sizeof(HeapNode)
  WordMod,      \* values of size_t and of an address
  Sizes,        \* the sizes callers ask for
  Alignments,   \* the alignments callers ask for
  MaxLive,      \* bound on the blocks in use
  MaxCalls,     \* bound on the calls of a behaviour
  Careful       \* callers ask for nothing that fits in a hole (see SafeAlloc, SafeResize)

ASSUME HeapAssumption ==
  /\ HDR \in Nat \ {0}
  /\ KHEAP_START \in Nat \ {0} /\ KHEAP_END \in Nat /\ WordMod \in Nat
  /\ KHEAP_START + HDR < KHEAP_END
  /\ KHEAP_END < WordMod
  /\ Sizes \subseteq Nat \ {0}
  /\ Alignments \subseteq Nat \ {0}
  /\ MaxCalls \in Nat
  /\ Careful \in BOOLEAN

VARIABLES
  heap,    \* the headers of the list, by address
  live,    \* the blocks in use: what callers were given and asked for
  pc,      \* where in the code the kernel is
  iter,    \* the code's loop variable
  call,    \* the function executed and its arguments
  calls    \* calls made so far

vars == <<heap, live, pc, iter, call, calls>>

NULL == 0

root_node == KHEAP_START

NODE_TO_CONTENTS(node) == node + HDR

CONTENTS_TO_NODE(ptr) == ptr - HDR

\* mutated form: sizes are signed
Word_Signed(x) == x

Word(x) == x % WordMod

NoCall == [op |-> "none", size |-> 0, alignment |-> 1, ptr |-> NULL, new |-> NULL]

-----------------------------------------------------------------------------
(* Headers *)

createNode(h, place, size, next, allocated) ==
  [a \in DOMAIN h \union {place} |->
     IF a = place THEN [size |-> size, next_node |-> next, allocated |-> allocated]
     ELSE h[a]]

Linked(h, node, next) == [h EXCEPT ![node].next_node = next]

Relinked(h, node, size, next) ==
  [h EXCEPT ![node] = [@ EXCEPT !.size = size, !.next_node = next]]

\* The nodes of a set leave the list.
Unlinked(h, nodes) == [a \in DOMAIN h \ nodes |-> h[a]]

\* The distance to the next node and the size are added, not subtracted; at the
\* end of the list the next node is NULL.
UnaccountedSpace(h, node) == Word(h[node].next_node - node + h[node].size)

\* mutated form: the new node is placed as if the block had no header
consumeEmptySpace_NoHeader(h, node) ==
  IF UnaccountedSpace(h, node) > HDR
  THEN Linked(createNode(h, Word(node + h[node].size), UnaccountedSpace(h, node) - HDR,
                         h[node].next_node, FALSE),
              node, Word(node + h[node].size))
  ELSE [h EXCEPT ![node].size = Word(@ + UnaccountedSpace(h, node))]

consumeEmptySpace(h, node) ==
  LET place == Word(NODE_TO_CONTENTS(node) + h[node].size)
  IN  IF UnaccountedSpace(h, node) > HDR
      THEN Linked(createNode(h, place, UnaccountedSpace(h, node) - HDR,
                             h[node].next_node, FALSE),
                  node, place)
      ELSE [h EXCEPT ![node].size = Word(@ + UnaccountedSpace(h, node))]

\* mutated form: any node that is large enough will do
Suitable_IfLarge(node, size) == heap[node].size >= size

Suitable(node, size) == ~ heap[node].allocated /\ heap[node].size >= size

-----------------------------------------------------------------------------
(* What callers do *)

Holes == {n \in DOMAIN heap : ~ heap[n].allocated /\ heap[n].next_node # NULL}

FreeEnd == {n \in DOMAIN heap : ~ heap[n].allocated /\ heap[n].next_node = NULL}

LastIsFree(node) == heap[node].next_node \in FreeEnd

\* Where kheapRealloc puts the node for what is left behind a resized block: the
\* pointer arithmetic is in headers, so that it lies size headers behind the
\* start of the contents.
Remainder(node, size) == Word(NODE_TO_CONTENTS(node) + size * HDR)

\* The use of the heap under which its bookkeeping is right: nothing is asked
\* for that fits in a hole between blocks, and a block is resized in place only
\* in front of the free end of the list, when the node for the remainder misses
\* the header that is there, or so that it takes the whole of a hole.  There is
\* always room for one more header below the end of the address space.
SafeAlloc(size) ==
  /\ \A n \in Holes : heap[n].size < size
  /\ \A n \in FreeEnd : NODE_TO_CONTENTS(n) + size + HDR <= WordMod

SafeAligned(size, alignment) ==
  /\ \A n \in Holes : heap[n].size < size + HDR
  /\ \A n \in FreeEnd : NODE_TO_CONTENTS(n) + alignment + HDR + size + HDR <= WordMod

SafeResize(node, size) ==
  /\ LastIsFree(node)
  /\ NODE_TO_CONTENTS(node) + size * HDR + HDR <= WordMod
  /\ size < heap[node].size =>
       \/ Remainder(node, size) + HDR <= heap[node].next_node
       \/ heap[node].next_node + HDR <= Remainder(node, size)

\* A function of the heap is called.
Enter(op, size, alignment, ptr) ==
  /\ pc = "idle"
  /\ calls < MaxCalls
  /\ calls' = calls + 1
  /\ call' = [op |-> op, size |-> size, alignment |-> alignment, ptr |-> ptr, new |-> NULL]

\* The function returns, and the caller holds the block new instead of old.
Return(old, new) ==
  /\ pc' = "idle"
  /\ iter' = NULL
  /\ call' = NoCall
  /\ live' = {b \in live : b.ptr # old} \union new

Block(ptr, size) == {[ptr |-> ptr, size |-> size]}

StartCompaction == pc' = "compact" /\ iter' = root_node

-----------------------------------------------------------------------------
(* kheapInit *)

kheapInit ==
  /\ pc = "boot"
  /\ heap' = createNode(heap, root_node, (KHEAP_END - KHEAP_START) - HDR, NULL, FALSE)
  /\ pc' = "idle"
  /\ UNCHANGED <<live, iter, call, calls>>

-----------------------------------------------------------------------------
(* kheapAlloc *)

kheapAlloc(size) ==
  /\ Enter("alloc", size, 1, NULL)
  /\ Careful => SafeAlloc(size)
  /\ Cardinality(live) < MaxLive
  /\ pc' = "search"
  /\ iter' = root_node
  /\ UNCHANGED <<heap, live>>

SearchNext ==
  /\ pc = "search"
  /\ iter # NULL
  /\ ~ Suitable(iter, call.size)
  /\ iter' = heap[iter].next_node
  /\ UNCHANGED <<heap, live, pc, call, calls>>

\* "Kernel heap ran out of space!": while (true).
OutOfSpace ==
  /\ pc \in {"search", "search_aligned"}
  /\ iter = NULL
  /\ pc' = "halted"
  /\ UNCHANGED <<heap, live, iter, call, calls>>

Allocate ==
  /\ pc = "search"
  /\ iter # NULL
  /\ Suitable(iter, call.size)
  /\ heap' = consumeEmptySpace(
               [heap EXCEPT ![iter] = [@ EXCEPT !.size = call.size, !.allocated = TRUE]],
               iter)
  /\ call' = [call EXCEPT !.new = NODE_TO_CONTENTS(iter)]
  /\ StartCompaction
  /\ UNCHANGED <<live, calls>>

-----------------------------------------------------------------------------
(* kheapAlignedAlloc: the header, not the contents, is put on the boundary *)

Offset(node, alignment) ==
  (alignment - (NODE_TO_CONTENTS(node) % alignment)) % alignment

\* iter->size - offset is a difference of size_t.
SuitableAligned(node, size, alignment) ==
  /\ Suitable(node, HDR + size)
  /\ Word(heap[node].size - Offset(node, alignment)) >= HDR + size

kheapAlignedAlloc(size, alignment) ==
  /\ Enter("alloc_aligned", size, alignment, NULL)
  /\ Careful => SafeAligned(size, alignment)
  /\ Cardinality(live) < MaxLive
  /\ pc' = "search_aligned"
  /\ iter' = root_node
  /\ UNCHANGED <<heap, live>>

SearchAlignedNext ==
  /\ pc = "search_aligned"
  /\ iter # NULL
  /\ ~ SuitableAligned(iter, call.size, call.alignment)
  /\ iter' = heap[iter].next_node
  /\ UNCHANGED <<heap, live, pc, call, calls>>

AllocateAligned ==
  /\ pc = "search_aligned"
  /\ iter # NULL
  /\ SuitableAligned(iter, call.size, call.alignment)
  /\ LET chosen == Word(NODE_TO_CONTENTS(iter) + Offset(iter, call.alignment))
         placed == createNode(heap, chosen, call.size, heap[iter].next_node, TRUE)
         linked == Relinked(placed, iter, chosen - iter - HDR, chosen)
     IN  /\ heap' = consumeEmptySpace(linked, chosen)
         /\ call' = [call EXCEPT !.new = NODE_TO_CONTENTS(chosen)]
  /\ StartCompaction
  /\ UNCHANGED <<live, calls>>

-----------------------------------------------------------------------------
(* kheapFree *)

\* The caller gives the block up by calling.
kheapFree(block) ==
  /\ Enter("free", 0, 1, block.ptr)
  /\ heap' = [heap EXCEPT ![CONTENTS_TO_NODE(block.ptr)].allocated = FALSE]
  /\ live' = live \ {block}
  /\ StartCompaction

-----------------------------------------------------------------------------
(* compactHeap, one turn of its loop at a time *)

BothFree == /\ ~ heap[iter].allocated
            /\ ~ heap[heap[iter].next_node].allocated

\* mutated form: the swallowed node stays in the list
CompactMerge_StillLinked ==
  /\ pc = "compact"
  /\ heap[iter].next_node # NULL
  /\ BothFree
  /\ heap' = [heap EXCEPT ![iter].size = Word(@ + HDR + heap[heap[iter].next_node].size)]
  /\ UNCHANGED <<live, pc, iter, call, calls>>

\* mutated form: the loop goes on behind the node it has enlarged
CompactMerge_Advances ==
  /\ pc = "compact"
  /\ heap[iter].next_node # NULL
  /\ BothFree
  /\ LET next == heap[iter].next_node
         behind == heap[next].next_node
     IN  /\ heap' = Unlinked(Relinked(heap, iter, Word(heap[iter].size + HDR + heap[next].size),
                                      behind),
                             {next} \ {iter})
         /\ iter' = IF behind = NULL THEN iter ELSE behind
  /\ UNCHANGED <<live, pc, call, calls>>

CompactMerge ==
  /\ pc = "compact"
  /\ heap[iter].next_node # NULL
  /\ BothFree
  /\ LET next == heap[iter].next_node
     IN  heap' = Unlinked(Relinked(heap, iter, Word(heap[iter].size + HDR + heap[next].size),
                                   heap[next].next_node),
                          {next} \ {iter})
  /\ UNCHANGED <<live, pc, iter, call, calls>>

CompactNext ==
  /\ pc = "compact"
  /\ heap[iter].next_node # NULL
  /\ ~ BothFree
  /\ iter' = heap[iter].next_node
  /\ UNCHANGED <<heap, live, pc, call, calls>>

Compacted == pc = "compact" /\ heap[iter].next_node = NULL

FreeDone ==
  /\ Compacted
  /\ call.op = "free"
  /\ Return(call.ptr, {})
  /\ UNCHANGED <<heap, calls>>

AllocDone ==
  /\ Compacted
  /\ call.op \in {"alloc", "alloc_aligned"}
  /\ Return(NULL, Block(call.new, call.size))
  /\ UNCHANGED <<heap, calls>>

ResizeDone ==
  /\ Compacted
  /\ call.op = "resize"
  /\ Return(call.ptr, Block(call.ptr, call.size))
  /\ UNCHANGED <<heap, calls>>

\* mutated form: the old block is not freed
MoveFreesOld_Forgotten ==
  /\ Compacted
  /\ call.op = "move"
  /\ call' = [call EXCEPT !.op = "moved"]
  /\ StartCompaction
  /\ UNCHANGED <<heap, live, calls>>

\* The naive case of kheapRealloc: the new block was allocated, its contents
\* copied, and the old one is freed.
MoveFreesOld ==
  /\ Compacted
  /\ call.op = "move"
  /\ heap' = [heap EXCEPT ![CONTENTS_TO_NODE(call.ptr)].allocated = FALSE]
  /\ call' = [call EXCEPT !.op = "moved"]
  /\ StartCompaction
  /\ UNCHANGED <<live, calls>>

MoveDone ==
  /\ Compacted
  /\ call.op = "moved"
  /\ Return(call.ptr, Block(call.new, call.size))
  /\ UNCHANGED <<heap, calls>>

-----------------------------------------------------------------------------
(* kheapRealloc *)

\* The same size, or so little less that a new node would have no contents.
ReallocInPlace(block, size) ==
  LET node == CONTENTS_TO_NODE(block.ptr)
  IN  /\ pc = "idle"
      /\ calls < MaxCalls
      /\ size <= heap[node].size
      /\ heap[node].size - size <= HDR
      /\ calls' = calls + 1
      /\ live' = (live \ {block}) \union Block(block.ptr, size)
      /\ UNCHANGED <<heap, pc, iter, call>>

\* What is left behind a resized block becomes a node.
SplitOff(h, node, size, left, next) ==
  Relinked(createNode(h, Remainder(node, size), left - HDR, next, FALSE),
           node, size, Remainder(node, size))

ReallocShrink(block, size) ==
  LET node == CONTENTS_TO_NODE(block.ptr)
  IN  /\ Enter("resize", size, 1, block.ptr)
      /\ size < heap[node].size
      /\ heap[node].size - size > HDR
      /\ Careful => SafeResize(node, size)
      /\ heap' = SplitOff(heap, node, size, heap[node].size - size, heap[node].next_node)
      /\ live' = (live \ {block}) \union Block(block.ptr, size)
      /\ StartCompaction

\* mutated form: the node behind may be in use
NextIsFree_Any(node) == heap[node].next_node # NULL

\* The free nodes behind the block, which the code adds up in a loop: there is at most
\* one, since every call leaves the list compacted (FullyCompacted).
NextIsFree(node) == /\ heap[node].next_node # NULL
                    /\ ~ heap[heap[node].next_node].allocated

PossibleSize(node) ==
  IF NextIsFree(node) THEN Word(HDR + heap[heap[node].next_node].size) ELSE 0

Behind(node) ==
  IF NextIsFree(node) THEN heap[heap[node].next_node].next_node ELSE heap[node].next_node

Absorbed(node) == IF NextIsFree(node) THEN {heap[node].next_node} ELSE {}

ReallocGrow(block, size) ==
  LET node == CONTENTS_TO_NODE(block.ptr)
  IN  /\ Enter("resize", size, 1, block.ptr)
      /\ size > heap[node].size
      /\ size <= PossibleSize(node)
      /\ PossibleSize(node) - size > HDR
      /\ Careful => SafeResize(node, size)
      /\ heap' = SplitOff(Unlinked(heap, Absorbed(node)), node, size,
                          PossibleSize(node) - size, Behind(node))
      /\ StartCompaction
      /\ UNCHANGED live

\* The space behind is taken as a whole.
ReallocConsume(block, size) ==
  LET node == CONTENTS_TO_NODE(block.ptr)
  IN  /\ pc = "idle"
      /\ calls < MaxCalls
      /\ size > heap[node].size
      /\ size <= PossibleSize(node)
      /\ PossibleSize(node) - size <= HDR
      /\ heap' = Unlinked(Relinked(heap, node, PossibleSize(node), Behind(node)),
                          Absorbed(node))
      /\ calls' = calls + 1
      /\ live' = (live \ {block}) \union Block(block.ptr, size)
      /\ UNCHANGED <<pc, iter, call>>

ReallocMove(block, size) ==
  LET node == CONTENTS_TO_NODE(block.ptr)
  IN  /\ Enter("move", size, 1, block.ptr)
      /\ size > heap[node].size
      /\ size > PossibleSize(node)
      /\ Careful => SafeAlloc(size)
      /\ pc' = "search"
      /\ iter' = root_node
      /\ UNCHANGED <<heap, live>>

kheapRealloc(block, size) ==
  \/ size = 0 /\ kheapFree(block)
  \/ size > 0 /\ ReallocInPlace(block, size)
  \/ size > 0 /\ ReallocShrink(block, size)
  \/ size > 0 /\ ReallocGrow(block, size)
  \/ size > 0 /\ ReallocConsume(block, size)
  \/ size > 0 /\ ReallocMove(block, size)

-----------------------------------------------------------------------------

Init == /\ heap = [a \in {} |-> NoCall]
        /\ live = {}
        /\ pc = "boot"
        /\ iter = NULL
        /\ call = NoCall
        /\ calls = 0

Caller == \/ \E size \in Sizes : kheapAlloc(size)
          \/ \E size \in Sizes, alignment \in Alignments : kheapAlignedAlloc(size, alignment)
          \/ \E block \in live : kheapFree(block)
          \/ \E block \in live, size \in Sizes \union {0} : kheapRealloc(block, size)

Inside == \/ SearchNext \/ SearchAlignedNext \/ OutOfSpace
          \/ Allocate \/ AllocateAligned
          \/ CompactMerge \/ CompactNext
          \/ FreeDone \/ AllocDone \/ ResizeDone \/ MoveFreesOld \/ MoveDone

Next == kheapInit \/ Caller \/ Inside

Spec == Init /\ [][Next]_vars

\* The kernel executes the function it has called.
FairSpec == Spec /\ WF_vars(kheapInit \/ Inside)

-----------------------------------------------------------------------------
(* Properties *)

\* The list consists of headers, and the code's variables point at them.
TypeOK ==
  /\ \A a \in DOMAIN heap :
       /\ heap[a].size \in 0 .. WordMod - 1
       /\ heap[a].allocated \in BOOLEAN
       /\ heap[a].next_node \in DOMAIN heap \union {NULL}
  /\ pc \in {"boot", "idle", "search", "search_aligned", "compact", "halted"}
  /\ iter \in DOMAIN heap \union {NULL}
  /\ calls \in 0 .. MaxCalls

\* When a function returns, a node and the bytes it manages end where the next
\* node begins, or before it (kheap.c:56: a new node is allocated to manage the
\* empty space, no more).
ExtentsDisjoint ==
  pc = "idle" =>
    \A n \in DOMAIN heap :
       heap[n].next_node # NULL =>
          NODE_TO_CONTENTS(n) + heap[n].size <= heap[n].next_node

Bytes(ptr, size) == ptr .. ptr + size - 1

\* Blocks in use share no byte with one another and none with a header, and
\* headers share none with headers, at any time: what is written in a block or a
\* header changes nothing else.
BytesDisjoint ==
  /\ \A b, c \in live :
       b # c => Bytes(b.ptr, b.size) \intersect Bytes(c.ptr, c.size) = {}
  /\ \A b \in live, n \in DOMAIN heap :
       Bytes(b.ptr, b.size) \intersect Bytes(n, HDR) = {}
  /\ \A m, n \in DOMAIN heap :
       m # n => Bytes(m, HDR) \intersect Bytes(n, HDR) = {}

\* The blocks in use are the allocated nodes, and no smaller than asked for.
LiveAllocated ==
  pc = "idle" =>
    /\ \A b \in live : LET node == CONTENTS_TO_NODE(b.ptr)
                       IN  node \in DOMAIN heap /\ heap[node].allocated
                           /\ heap[node].size >= b.size
    /\ Cardinality(live) = Cardinality({n \in DOMAIN heap : heap[n].allocated})

\* No two free nodes are neighbours when a function returns: one pass of compactHeap
\* has combined them, however many there were.
FullyCompacted ==
  pc = "idle" =>
    \A n \in DOMAIN heap : ~ (~ heap[n].allocated /\ NextIsFree(n))

\* The blocks come and go as the calls of kheapAlloc, kheapAlignedAlloc, kheapFree
\* and kheapRealloc promise, one block at a time; nothing inside a call, no search,
\* split or compaction, takes a block from its holder or gives its bytes to another.
Alloc == INSTANCE Allocator WITH held <- live

ImplementsAllocator == Alloc!ASpec

\* A call returns, or says that the heap is full.
CallsReturn == pc # "idle" ~> pc \in {"idle", "halted"}
=============================================================================
