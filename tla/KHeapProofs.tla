---------------------------- MODULE KHeapProofs ----------------------------
(***************************************************************************)
(* Proofs about the kernel heap (KHeap), for heaps, headers and words of   *)
(* any size and any number of calls of careful callers (Careful = TRUE).   *)
(* The list is kept in the order of the addresses and each node ends in    *)
(* front of the next, except for a while after a block was shrunk in front *)
(* of the free end of the list: then the new node and the old end may      *)
(* overlap, and may be in the wrong order, until compactHeap has made one  *)
(* node of them.                                                           *)
(***************************************************************************)
EXTENDS KHeap, NumberLemmas

-----------------------------------------------------------------------------
(* The invariant *)

Header == [size : 0 .. WordMod - 1, next_node : Nat, allocated : BOOLEAN]

IsHeap(h) == h \in [DOMAIN h -> Header] /\ DOMAIN h \subseteq Nat \ {0}

\* The list: the successor of a node is the first header behind it, and lies
\* behind the bytes the node manages.
Ordered(h) ==
  /\ root_node \in DOMAIN h
  /\ \A n \in DOMAIN h : root_node <= n
  /\ \A m, n \in DOMAIN h : m < n => h[m].next_node # NULL /\ h[m].next_node <= n
  /\ \A n \in DOMAIN h :
       h[n].next_node # NULL =>
         h[n].next_node \in DOMAIN h /\ NODE_TO_CONTENTS(n) + h[n].size <= h[n].next_node

\* The list without its last node, which follows r.
Body(h, r, last) == Unlinked(Linked(h, r, NULL), {last})

\* A block was shrunk: r is the node for what is left behind it, last the free
\* end of the list, before or behind r.
Pending(r, last) ==
  /\ pc = "compact" /\ call.op = "resize"
  /\ r # last /\ iter # last
  /\ heap[r].next_node = last /\ heap[last].next_node = NULL
  /\ ~ heap[r].allocated /\ ~ heap[last].allocated
  /\ Ordered(Body(heap, r, last))
  /\ r + HDR <= last \/ last + HDR <= r
  /\ \A n \in DOMAIN heap \ {r, last} : NODE_TO_CONTENTS(n) + heap[n].size <= last
  /\ \A n \in DOMAIN heap \ {r} : ~ (~ heap[n].allocated /\ NextIsFree(n))

ListInv == pc # "boot" => Ordered(heap) \/ \E r, last \in DOMAIN heap : Pending(r, last)

\* What compactHeap has passed is compacted.
CompactInv ==
  /\ pc = "compact" =>
       /\ iter \in DOMAIN heap
       /\ \A n \in DOMAIN heap : n < iter => ~ (~ heap[n].allocated /\ NextIsFree(n))
  /\ FullyCompacted

\* The search finds nothing but the free end.
SearchInv ==
  /\ pc = "search" => SafeAlloc(call.size)
  /\ pc = "search_aligned" => SafeAligned(call.size, call.alignment)

\* The blocks that have a node: all but the one kheapRealloc has freed already.
Owned == {b \in live : ~ (call.op = "moved" /\ b.ptr = call.ptr)}

\* A node was allocated that is not yet a block of the caller.
NewlyAllocated ==
  pc = "compact" /\ call.op \in {"alloc", "alloc_aligned", "move", "moved"}

Holds(ptr, size) ==
  LET node == CONTENTS_TO_NODE(ptr)
  IN  node \in DOMAIN heap /\ heap[node].allocated /\ heap[node].size >= size

LiveInv ==
  /\ IsFiniteSet(live)
  /\ live \subseteq [ptr : Nat, size : Nat \ {0}]
  /\ \A b, c \in live : b.ptr = c.ptr => b = c
  /\ \A b \in Owned : Holds(b.ptr, b.size)
  /\ NewlyAllocated => /\ Holds(call.new, call.size)
                       /\ \A b \in Owned : b.ptr # call.new
  /\ \A n \in DOMAIN heap : heap[n].allocated =>
       \/ \E b \in Owned : b.ptr = NODE_TO_CONTENTS(n)
       \/ NewlyAllocated /\ call.new = NODE_TO_CONTENTS(n)

\* The block that was moved is gone from the list; its bytes are not used yet.
OldInv ==
  call.op = "moved" =>
    \A b \in live, n \in DOMAIN heap :
       b.ptr = call.ptr =>
         \/ NODE_TO_CONTENTS(n) + (IF heap[n].allocated THEN heap[n].size ELSE 0) <= b.ptr
         \/ b.ptr + b.size <= n

Calls == [op : {"none", "free", "alloc", "alloc_aligned", "resize", "move", "moved"},
          size : Nat, alignment : Nat \ {0}, ptr : Nat, new : Nat]

CallInv ==
  /\ pc \in {"boot", "idle", "search", "search_aligned", "compact", "halted"}
  /\ pc = "boot" => DOMAIN heap = {} /\ live = {}
  /\ pc \in {"boot", "idle"} => call = NoCall /\ iter = NULL
  /\ pc = "search" => call.op \in {"alloc", "move"}
  /\ pc = "search_aligned" => call.op = "alloc_aligned"
  /\ pc = "halted" => call.op \in {"alloc", "alloc_aligned", "move"}
  /\ pc = "compact" =>
       call.op \in {"free", "alloc", "alloc_aligned", "resize", "move", "moved"}
  /\ call \in Calls
  /\ call.op \in {"alloc", "alloc_aligned", "resize", "move", "moved"} => call.size > 0
  /\ call.op \in {"resize", "move", "moved"} => \E b \in live : b.ptr = call.ptr
  /\ call.op = "resize" => Holds(call.ptr, call.size)
  /\ call.op = "free" => \A b \in live : b.ptr # call.ptr
  /\ call.op \in {"alloc", "alloc_aligned"} => call.ptr = NULL

TypeInv ==
  /\ IsHeap(heap)
  /\ iter \in DOMAIN heap \union {NULL}
  /\ calls \in 0 .. MaxCalls

HeapInv ==
  /\ TypeInv /\ CallInv
  /\ ListInv /\ CompactInv /\ SearchInv
  /\ LiveInv /\ OldInv

-----------------------------------------------------------------------------
(* Lists of headers *)

\* The constants, as the proofs use them.
LEMMA Constants ==
  /\ HDR \in Nat \ {0} /\ root_node \in Nat \ {0} /\ NULL = 0
  /\ WordMod \in Nat \ {0} /\ KHEAP_END - KHEAP_START - HDR \in 0 .. WordMod - 1
  /\ root_node < WordMod /\ MaxCalls \in Nat
BY HeapAssumption DEF root_node, NULL

\* A word is what was computed, when that fits.
LEMMA WordRange ==
  ASSUME NEW x \in Int
  PROVE  /\ Word(x) \in 0 .. WordMod - 1
         /\ x \in 0 .. WordMod - 1 => Word(x) = x
         /\ x \in Nat => Word(x) <= x
<1>1. WordMod \in Nat \ {0}
  BY Constants
<1>2. x % WordMod \in 0 .. WordMod - 1
  BY <1>1, DivMod
<1>3. ASSUME x \in 0 .. WordMod - 1 PROVE x % WordMod = x
  <2>1. x = (0 * WordMod) + x /\ 0 \in Int
    BY <1>1
  <2> QED BY <1>1, <1>3, <2>1, DivModUnique
<1>4. ASSUME x \in Nat PROVE x % WordMod <= x
  BY <1>1, <1>2, <1>3, <1>4
<1> QED BY <1>2, <1>3, <1>4 DEF Word

\* The fields of a header are numbers.
LEMMA Fields ==
  ASSUME NEW h, IsHeap(h), NEW n \in DOMAIN h
  PROVE  /\ n \in Nat /\ n > 0
         /\ h[n] = [size |-> h[n].size, next_node |-> h[n].next_node,
                    allocated |-> h[n].allocated]
         /\ h[n].size \in 0 .. WordMod - 1 /\ h[n].size \in Nat
         /\ h[n].next_node \in Nat
         /\ h[n].allocated \in BOOLEAN
BY Constants DEF IsHeap, Header

\* The last node of an ordered list is the one without a successor, and every
\* node but the last ends in front of those behind it.
LEMMA OrderedFacts ==
  ASSUME NEW h, IsHeap(h), Ordered(h)
  PROVE  /\ \A m, n \in DOMAIN h :
              m < n => /\ NODE_TO_CONTENTS(m) + h[m].size <= n
                       /\ NODE_TO_CONTENTS(m) <= n
         /\ \A m, n \in DOMAIN h : h[m].next_node = NULL => n <= m
         /\ \A n \in DOMAIN h : h[n].next_node # NULL => n < h[n].next_node
<1> USE Constants, Fields
<1>1. ASSUME NEW m \in DOMAIN h, NEW n \in DOMAIN h, m < n
      PROVE  NODE_TO_CONTENTS(m) + h[m].size <= n /\ NODE_TO_CONTENTS(m) <= n
  BY <1>1 DEF Ordered, NODE_TO_CONTENTS
<1>2. ASSUME NEW m \in DOMAIN h, NEW n \in DOMAIN h, h[m].next_node = NULL
      PROVE  n <= m
  BY <1>2 DEF Ordered
<1>3. ASSUME NEW n \in DOMAIN h, h[n].next_node # NULL PROVE n < h[n].next_node
  BY <1>3 DEF Ordered, NODE_TO_CONTENTS
<1> QED BY <1>1, <1>2, <1>3

\* The end of a list may be given any size, and any node a smaller one.
LEMMA Resized ==
  ASSUME NEW h, NEW g, IsHeap(h), IsHeap(g), Ordered(h), DOMAIN g = DOMAIN h,
         \A n \in DOMAIN h : /\ g[n].next_node = h[n].next_node
                             /\ h[n].next_node # NULL => g[n].size <= h[n].size
  PROVE  Ordered(g)
<1> USE Constants, Fields
<1>1. ASSUME NEW n \in DOMAIN g, g[n].next_node # NULL
      PROVE  NODE_TO_CONTENTS(n) + g[n].size <= g[n].next_node
  <2>1. NODE_TO_CONTENTS(n) + h[n].size <= h[n].next_node
    BY <1>1 DEF Ordered
  <2>2. g[n].size <= h[n].size /\ g[n].size \in Nat /\ h[n].size \in Nat
    BY <1>1
  <2> QED BY <2>1, <2>2, Fields DEF NODE_TO_CONTENTS
<1> QED BY <1>1 DEF Ordered

\* A node takes over the one behind it.
LEMMA Swallow ==
  ASSUME NEW h, NEW g, IsHeap(h), IsHeap(g), Ordered(h),
         NEW node \in DOMAIN h, NEW next, next = h[node].next_node, next # NULL,
         DOMAIN g = DOMAIN h \ {next},
         \A n \in DOMAIN g \ {node} : g[n] = h[n],
         g[node].next_node = h[next].next_node,
         g[node].size <= h[node].size + HDR + h[next].size
  PROVE  Ordered(g)
<1> USE Constants
<1>1. next \in DOMAIN h /\ node < next /\ node \in DOMAIN g
      /\ NODE_TO_CONTENTS(node) + h[node].size <= next
  BY OrderedFacts, Fields DEF Ordered
<1>2. root_node \in DOMAIN g /\ \A n \in DOMAIN g : root_node <= n
  <2>1. root_node \in DOMAIN h /\ root_node <= node
    BY DEF Ordered
  <2>2. root_node # next
    BY <1>1, <2>1, Fields
  <2> QED BY <2>1, <2>2 DEF Ordered
<1>3. ASSUME NEW m \in DOMAIN g, NEW n \in DOMAIN g, m < n
      PROVE  g[m].next_node # NULL /\ g[m].next_node <= n
  <2>1. m \in DOMAIN h /\ n \in DOMAIN h /\ n # next
    OBVIOUS
  <2>2. CASE m = node
    <3>1. next <= n
      BY <1>3, <2>2 DEF Ordered
    <3>2. next < n
      BY <2>1, <3>1, <1>1, Fields
    <3> QED BY <1>1, <2>1, <2>2, <3>2 DEF Ordered
  <2>3. CASE m # node
    BY <1>3, <2>1, <2>3 DEF Ordered
  <2> QED BY <2>2, <2>3
<1>4. ASSUME NEW n \in DOMAIN g, g[n].next_node # NULL
      PROVE  g[n].next_node \in DOMAIN g
             /\ NODE_TO_CONTENTS(n) + g[n].size <= g[n].next_node
  <2>1. CASE n = node
    <3>1. g[n].next_node \in DOMAIN h /\ next < g[n].next_node
          /\ NODE_TO_CONTENTS(next) + h[next].size <= g[n].next_node
      BY <1>1, <1>4, <2>1, OrderedFacts DEF Ordered
    <3>2. g[n].size \in Nat /\ h[node].size \in Nat /\ h[next].size \in Nat
          /\ node \in Nat /\ next \in Nat /\ g[n].next_node \in Nat
      BY <1>1, Fields
    <3>3. NODE_TO_CONTENTS(n) + g[n].size <= g[n].next_node
      BY <1>1, <2>1, <3>1, <3>2 DEF NODE_TO_CONTENTS
    <3> QED BY <3>1, <3>2, <3>3
  <2>2. CASE n # node
    <3>1. h[n].next_node \in DOMAIN h
          /\ NODE_TO_CONTENTS(n) + h[n].size <= h[n].next_node
      BY <1>4, <2>2 DEF Ordered
    <3>2. h[n].next_node # next
      <4>1. n < node => h[n].next_node <= node
        BY DEF Ordered
      <4>2. node < n => next <= n
        BY DEF Ordered
      <4>3. n < h[n].next_node
        BY <1>4, <2>2, OrderedFacts
      <4> QED BY <1>1, <2>2, <4>1, <4>2, <4>3, Fields
    <3> QED BY <2>2, <3>1, <3>2
  <2> QED BY <2>1, <2>2
<1> QED BY <1>2, <1>3, <1>4 DEF Ordered

\* A new node at the end of the list.
LEMMA Appended ==
  ASSUME NEW h, NEW g, IsHeap(h), IsHeap(g), Ordered(h),
         NEW node \in DOMAIN h, h[node].next_node = NULL,
         NEW place, DOMAIN g = DOMAIN h \union {place},
         NODE_TO_CONTENTS(node) + g[node].size <= place,
         \A n \in DOMAIN h \ {node} : g[n] = h[n],
         g[node].next_node = place,
         g[place].next_node = NULL
  PROVE  Ordered(g)
<1> USE Constants
<1>1. node < place /\ place \in Nat /\ node \in Nat
  BY Fields DEF NODE_TO_CONTENTS
<1>2. \A n \in DOMAIN h : n <= node /\ n \in Nat
  BY OrderedFacts, Fields
<1>3. root_node \in DOMAIN g /\ \A n \in DOMAIN g : root_node <= n
  BY <1>1, <1>2 DEF Ordered
<1>4. ASSUME NEW m \in DOMAIN g, NEW n \in DOMAIN g, m < n
      PROVE  g[m].next_node # NULL /\ g[m].next_node <= n
  <2>1. m \in DOMAIN h
    BY <1>1, <1>2, <1>4
  <2>2. CASE m = node
    BY <1>1, <1>2, <1>4, <2>2
  <2>3. CASE m # node
    <3>1. m < node /\ g[m] = h[m]
      BY <1>2, <2>1, <2>3
    <3>2. h[m].next_node # NULL /\ h[m].next_node <= node
      BY <2>1, <3>1 DEF Ordered
    <3>3. n = place => h[m].next_node <= n
      BY <1>1, <2>1, <3>2, Fields
    <3>4. n # place => h[m].next_node <= n
      BY <1>4, <2>1 DEF Ordered
    <3> QED BY <3>1, <3>2, <3>3, <3>4
  <2> QED BY <2>2, <2>3
<1>5. ASSUME NEW n \in DOMAIN g, g[n].next_node # NULL
      PROVE  g[n].next_node \in DOMAIN g
             /\ NODE_TO_CONTENTS(n) + g[n].size <= g[n].next_node
  <2>1. n # place
    BY <1>5
  <2>2. CASE n = node
    BY <2>2
  <2>3. CASE n # node
    <3>1. n \in DOMAIN h /\ g[n] = h[n]
      BY <2>1, <2>3
    <3> QED BY <1>5, <3>1 DEF Ordered
  <2> QED BY <2>2, <2>3
<1> QED BY <1>3, <1>4, <1>5 DEF Ordered

\* The end of the list is taken out and a new one put behind the node before it.
LEMMA ReplaceEnd ==
  ASSUME NEW h, NEW g, IsHeap(h), IsHeap(g), Ordered(h),
         NEW node \in DOMAIN h, NEW last \in DOMAIN h, last = h[node].next_node,
         h[last].next_node = NULL,
         NEW place, DOMAIN g = (DOMAIN h \ {last}) \union {place},
         NODE_TO_CONTENTS(node) + g[node].size <= place,
         \A n \in DOMAIN h \ {node, last} : g[n] = h[n],
         g[node].next_node = place,
         g[place].next_node = NULL
  PROVE  Ordered(g)
<1> USE Constants
<1>1. node < last /\ last # NULL
  BY OrderedFacts, Fields
<1>2. node < place /\ place \in Nat /\ node \in Nat
  BY <1>1, Fields DEF NODE_TO_CONTENTS
<1>3. \A n \in DOMAIN h \ {last} : n <= node /\ n \in Nat
  <2>1. ASSUME NEW n \in DOMAIN h, n # last PROVE n <= node /\ n \in Nat
    <3>1. n <= last /\ n \in Nat /\ node \in Nat /\ last \in Nat
      BY OrderedFacts, Fields
    <3>2. node < n => last <= n
      BY DEF Ordered
    <3> QED BY <2>1, <3>1, <3>2
  <2> QED BY <2>1
<1>4. root_node \in DOMAIN g /\ \A n \in DOMAIN g : root_node <= n
  <2>1. root_node \in DOMAIN h /\ root_node <= node
    BY DEF Ordered
  <2>2. root_node # last
    BY <1>1, <2>1, Fields
  <2> QED BY <1>2, <2>1, <2>2 DEF Ordered
<1>5. ASSUME NEW m \in DOMAIN g, NEW n \in DOMAIN g, m < n
      PROVE  g[m].next_node # NULL /\ g[m].next_node <= n
  <2>1. m \in DOMAIN h \ {last}
    BY <1>2, <1>3, <1>5
  <2>2. CASE m = node
    BY <1>2, <1>3, <1>5, <2>2
  <2>3. CASE m # node
    <3>1. m < node /\ g[m] = h[m]
      BY <1>3, <2>1, <2>3
    <3>2. h[m].next_node # NULL /\ h[m].next_node <= node
      BY <2>1, <3>1 DEF Ordered
    <3>3. n = place => h[m].next_node <= n
      BY <1>2, <2>1, <3>2, Fields
    <3>4. n # place => h[m].next_node <= n
      BY <1>5, <2>1 DEF Ordered
    <3> QED BY <3>1, <3>2, <3>3, <3>4
  <2> QED BY <2>2, <2>3
<1>6. ASSUME NEW n \in DOMAIN g, g[n].next_node # NULL
      PROVE  g[n].next_node \in DOMAIN g
             /\ NODE_TO_CONTENTS(n) + g[n].size <= g[n].next_node
  <2>1. CASE n = node
    BY <2>1
  <2>2. CASE n # node
    <3>1. n \in DOMAIN h \ {node, last} /\ g[n] = h[n] /\ n < node
      BY <1>3, <1>6, <2>2
    <3>2. h[n].next_node \in DOMAIN h /\ h[n].next_node <= node
          /\ NODE_TO_CONTENTS(n) + h[n].size <= h[n].next_node
      BY <1>6, <3>1 DEF Ordered
    <3>3. h[n].next_node # last
      BY <1>1, <3>1, <3>2, Fields
    <3> QED BY <3>1, <3>2, <3>3
  <2> QED BY <2>1, <2>2
<1> QED BY <1>4, <1>5, <1>6 DEF Ordered

-----------------------------------------------------------------------------
(* What the invariant says of a state *)

\* The list without its last node: r is its last, the others are as they were.
IsBody(b, h, r, last) ==
  /\ IsHeap(b)
  /\ DOMAIN b = DOMAIN h \ {last}
  /\ \A n \in DOMAIN b : b[n].size = h[n].size /\ b[n].allocated = h[n].allocated
  /\ \A n \in DOMAIN b \ {r} : b[n] = h[n]
  /\ b[r].next_node = NULL

LEMMA BodyFacts ==
  ASSUME NEW h, IsHeap(h), NEW r \in DOMAIN h, NEW last \in DOMAIN h, r # last
  PROVE  IsBody(Body(h, r, last), h, r, last)
<1> DEFINE l == [h EXCEPT ![r].next_node = NULL]
           b == [a \in DOMAIN h \ {last} |-> l[a]]
<1>1. Body(h, r, last) = b
  BY DEF Body, Unlinked, Linked
<1>2. \A n \in DOMAIN h : /\ l[n] \in Header
                          /\ l[n].size = h[n].size /\ l[n].allocated = h[n].allocated
                          /\ n # r => l[n] = h[n]
  BY Constants DEF IsHeap, Header
<1>3. l[r].next_node = NULL
  BY DEF IsHeap, Header
<1> HIDE DEF l
<1>4. DOMAIN b = DOMAIN h \ {last} /\ \A n \in DOMAIN b : b[n] = l[n]
  OBVIOUS
<1>5. b \in [DOMAIN b -> Header]
  BY <1>2
<1> HIDE DEF b
<1>6. DOMAIN b \subseteq Nat \ {0}
  BY <1>4 DEF IsHeap
<1>7. /\ \A n \in DOMAIN b : b[n].size = h[n].size /\ b[n].allocated = h[n].allocated
      /\ \A n \in DOMAIN b \ {r} : b[n] = h[n]
      /\ b[r].next_node = NULL
  BY <1>2, <1>3, <1>4
<1> QED BY <1>1, <1>4, <1>5, <1>6, <1>7 DEF IsHeap, IsBody

\* Headers are apart from one another and from the bytes of allocated nodes, also
\* while a shrunk block waits for the compaction.
LEMMA NodesApart ==
  ASSUME TypeInv, ListInv, pc # "boot",
         NEW m \in DOMAIN heap, NEW n \in DOMAIN heap, m # n
  PROVE  \/ NODE_TO_CONTENTS(m) + (IF heap[m].allocated THEN heap[m].size ELSE 0) <= n
         \/ NODE_TO_CONTENTS(n) <= m
<1> USE Constants
<1>1. IsHeap(heap)
  BY DEF TypeInv
<1>2. m \in Nat /\ n \in Nat /\ heap[m].size \in Nat /\ heap[n].size \in Nat
      /\ heap[m].allocated \in BOOLEAN
  BY <1>1, Fields
<1>3. ASSUME NEW h, IsHeap(h), Ordered(h), m \in DOMAIN h, n \in DOMAIN h,
             h[m].size = heap[m].size
      PROVE  NODE_TO_CONTENTS(m) + heap[m].size <= n \/ NODE_TO_CONTENTS(n) <= m
  BY <1>2, <1>3, OrderedFacts
<1>4. ASSUME NODE_TO_CONTENTS(m) + heap[m].size <= n \/ NODE_TO_CONTENTS(n) <= m
      PROVE  \/ NODE_TO_CONTENTS(m) + (IF heap[m].allocated THEN heap[m].size ELSE 0) <= n
             \/ NODE_TO_CONTENTS(n) <= m
  BY <1>2, <1>4 DEF NODE_TO_CONTENTS
<1>5. CASE Ordered(heap)
  BY <1>1, <1>3, <1>4, <1>5
<1>6. ASSUME NEW r \in DOMAIN heap, NEW last \in DOMAIN heap, Pending(r, last)
      PROVE  \/ NODE_TO_CONTENTS(m) + (IF heap[m].allocated THEN heap[m].size ELSE 0) <= n
             \/ NODE_TO_CONTENTS(n) <= m
  <2>1. CASE m # last /\ n # last
    <3>1. r # last /\ Ordered(Body(heap, r, last))
      BY <1>6 DEF Pending
    <3>2. IsHeap(Body(heap, r, last)) /\ m \in DOMAIN Body(heap, r, last)
          /\ n \in DOMAIN Body(heap, r, last)
          /\ Body(heap, r, last)[m].size = heap[m].size
      <4>1. IsBody(Body(heap, r, last), heap, r, last)
        BY <1>1, <3>1, BodyFacts
      <4> QED BY <2>1, <4>1 DEF IsBody
    <3> QED BY <1>3, <1>4, <3>1, <3>2
  <2>2. CASE m = last
    <3>1. ~ heap[m].allocated /\ (n = r => (r + HDR <= last \/ last + HDR <= r))
          /\ (n # r => NODE_TO_CONTENTS(n) + heap[n].size <= last)
      BY <1>6, <2>2 DEF Pending
    <3> QED BY <1>2, <2>2, <3>1 DEF NODE_TO_CONTENTS
  <2>3. CASE n = last
    <3>1. CASE m = r
      <4>1. ~ heap[m].allocated /\ (r + HDR <= last \/ last + HDR <= r)
        BY <1>6, <3>1 DEF Pending
      <4> QED BY <1>2, <2>3, <3>1, <4>1 DEF NODE_TO_CONTENTS
    <3>2. CASE m # r
      <4>1. NODE_TO_CONTENTS(m) + heap[m].size <= last
        BY <1>6, <2>3, <3>2 DEF Pending
      <4> QED BY <1>4, <2>3, <4>1
    <3> QED BY <3>1, <3>2
  <2> QED BY <2>1, <2>2, <2>3
<1> QED BY <1>5, <1>6 DEF ListInv

\* A block that has a node, and the headers.
LEMMA BlockApart ==
  ASSUME TypeInv, ListInv, pc # "boot",
         NEW ptr \in Nat, NEW size \in Nat, Holds(ptr, size), NEW n \in DOMAIN heap
  PROVE  NODE_TO_CONTENTS(n) <= ptr \/ ptr + size <= n
<1> DEFINE m == CONTENTS_TO_NODE(ptr)
<1>1. m \in DOMAIN heap /\ heap[m].allocated /\ heap[m].size >= size
  BY DEF Holds
<1>2. IsHeap(heap)
  BY DEF TypeInv
<1>3. m \in Nat /\ n \in Nat /\ heap[m].size \in Nat /\ HDR \in Nat \ {0}
  BY <1>1, <1>2, Fields, Constants
<1>4. NODE_TO_CONTENTS(m) = ptr
  BY <1>3 DEF NODE_TO_CONTENTS, CONTENTS_TO_NODE
<1> HIDE DEF m
<1>5. CASE n = m
  BY <1>3, <1>4, <1>5
<1>6. CASE n # m
  <2>1. ptr + heap[m].size <= n \/ NODE_TO_CONTENTS(n) <= m
    BY <1>1, <1>4, <1>6, NodesApart
  <2> QED BY <1>1, <1>3, <1>4, <2>1 DEF NODE_TO_CONTENTS
<1> QED BY <1>5, <1>6

\* Two blocks that have nodes.
LEMMA BlocksApart ==
  ASSUME TypeInv, ListInv, pc # "boot",
         NEW p \in Nat, NEW s \in Nat, Holds(p, s),
         NEW q \in Nat, NEW t \in Nat, Holds(q, t), p # q
  PROVE  p + s <= q \/ q + t <= p
<1> DEFINE m == CONTENTS_TO_NODE(p)
           n == CONTENTS_TO_NODE(q)
<1>1. m \in DOMAIN heap /\ n \in DOMAIN heap
  BY DEF Holds
<1>2. m \in Nat /\ n \in Nat /\ HDR \in Nat \ {0}
  <2>1. IsHeap(heap)
    BY DEF TypeInv
  <2> QED BY <1>1, <2>1, Fields, Constants
<1>3. m = p - HDR /\ n = q - HDR
  BY DEF CONTENTS_TO_NODE
<1> HIDE DEF m, n
<1>4. NODE_TO_CONTENTS(n) <= p \/ p + s <= n
  BY <1>1, BlockApart
<1>5. NODE_TO_CONTENTS(m) <= q \/ q + t <= m
  BY <1>1, BlockApart
<1>6. NODE_TO_CONTENTS(n) = q /\ NODE_TO_CONTENTS(m) = p
  BY <1>2, <1>3 DEF NODE_TO_CONTENTS
<1>7. CASE p < q
  BY <1>2, <1>3, <1>4, <1>6, <1>7
<1>8. CASE q < p
  BY <1>2, <1>3, <1>5, <1>6, <1>8
<1> QED BY <1>7, <1>8

LEMMA OrderedOutside ==
  ASSUME ListInv, pc \notin {"boot", "compact"}
  PROVE  Ordered(heap)
BY DEF ListInv, Pending

\* The list, one way or the other: successors are headers.
LEMMA Successors ==
  ASSUME TypeInv, ListInv, pc # "boot", NEW n \in DOMAIN heap, heap[n].next_node # NULL
  PROVE  heap[n].next_node \in DOMAIN heap
<1>1. CASE Ordered(heap)
  BY <1>1 DEF Ordered
<1>2. ASSUME NEW r \in DOMAIN heap, NEW last \in DOMAIN heap, Pending(r, last)
      PROVE  heap[n].next_node \in DOMAIN heap
  <2>1. heap[r].next_node = last /\ heap[last].next_node = NULL
        /\ Ordered(Body(heap, r, last))
    BY <1>2 DEF Pending
  <2>2. IsBody(Body(heap, r, last), heap, r, last)
    <3>1. IsHeap(heap) /\ r # last
      BY <1>2 DEF Pending, TypeInv
    <3> QED BY <3>1, BodyFacts
  <2>3. CASE n \in {r, last}
    BY <2>1, <2>3
  <2>4. CASE n \notin {r, last}
    BY <2>1, <2>2, <2>4 DEF Ordered, IsBody
  <2> QED BY <2>3, <2>4
<1> QED BY <1>1, <1>2 DEF ListInv

LEMMA InvTypeOK == HeapInv => TypeOK
<1> SUFFICES ASSUME HeapInv PROVE TypeOK
  OBVIOUS
<1>1. TypeInv /\ CallInv /\ ListInv
  BY DEF HeapInv
<1>2. ASSUME NEW a \in DOMAIN heap
      PROVE  /\ heap[a].size \in 0 .. WordMod - 1
             /\ heap[a].allocated \in BOOLEAN
             /\ heap[a].next_node \in DOMAIN heap \union {NULL}
  <2>1. pc # "boot"
    BY <1>1 DEF CallInv
  <2>2. heap[a].next_node # NULL => heap[a].next_node \in DOMAIN heap
    BY <1>1, <2>1, Successors
  <2> QED BY <1>1, <2>2, Fields DEF TypeInv
<1> QED BY <1>1, <1>2 DEF TypeOK, TypeInv, CallInv

LEMMA InvExtentsDisjoint == HeapInv => ExtentsDisjoint
<1> SUFFICES ASSUME HeapInv, pc = "idle", NEW n \in DOMAIN heap, heap[n].next_node # NULL
             PROVE  NODE_TO_CONTENTS(n) + heap[n].size <= heap[n].next_node
  BY DEF ExtentsDisjoint
<1>1. Ordered(heap)
  BY OrderedOutside DEF HeapInv
<1> QED BY <1>1 DEF Ordered

\* Intervals of addresses.
LEMMA Intervals ==
  ASSUME NEW p \in Nat, NEW s \in Nat, NEW q \in Nat, NEW t \in Nat,
         p + s <= q \/ q + t <= p
  PROVE  Bytes(p, s) \intersect Bytes(q, t) = {}
BY DEF Bytes

\* The bytes of a block in use and of a header.
LEMMA LiveApart ==
  ASSUME HeapInv, NEW b \in live, NEW n \in DOMAIN heap
  PROVE  n + HDR <= b.ptr \/ b.ptr + b.size <= n
<1> USE Constants
<1>1. TypeInv /\ CallInv /\ ListInv /\ LiveInv /\ OldInv /\ pc # "boot"
  BY DEF HeapInv, CallInv
<1>2. b.ptr \in Nat /\ b.size \in Nat
  BY <1>1 DEF LiveInv
<1>3. n \in Nat /\ heap[n].size \in Nat
  BY <1>1, Fields DEF TypeInv
<1>4. CASE b \in Owned
  <2>1. Holds(b.ptr, b.size)
    BY <1>1, <1>4 DEF LiveInv
  <2>2. NODE_TO_CONTENTS(n) <= b.ptr \/ b.ptr + b.size <= n
    BY <1>1, <1>2, <2>1, BlockApart
  <2> QED BY <2>2 DEF NODE_TO_CONTENTS
<1>5. CASE b \notin Owned
  <2>1. \/ NODE_TO_CONTENTS(n) + (IF heap[n].allocated THEN heap[n].size ELSE 0) <= b.ptr
        \/ b.ptr + b.size <= n
    BY <1>1, <1>5 DEF Owned, OldInv
  <2> QED BY <1>2, <1>3, <2>1 DEF NODE_TO_CONTENTS
<1> QED BY <1>4, <1>5

\* A block that was moved and is still in use, and a block with a node.
LEMMA OldApart ==
  ASSUME HeapInv, NEW b \in live, b \notin Owned, NEW p \in Nat, NEW s \in Nat, Holds(p, s)
  PROVE  p + s <= b.ptr \/ b.ptr + b.size <= p
<1> USE Constants
<1> DEFINE n == CONTENTS_TO_NODE(p)
<1>1. TypeInv /\ OldInv /\ n \in DOMAIN heap /\ heap[n].allocated /\ heap[n].size >= s
  BY DEF HeapInv, Holds
<1>2. n \in Nat /\ heap[n].size \in Nat /\ n = p - HDR
  BY <1>1, Fields DEF TypeInv, CONTENTS_TO_NODE
<1> HIDE DEF n
<1>3. \/ NODE_TO_CONTENTS(n) + heap[n].size <= b.ptr
      \/ b.ptr + b.size <= n
  BY <1>1 DEF Owned, OldInv
<1>4. b.ptr \in Nat /\ b.size \in Nat
  BY DEF HeapInv, LiveInv
<1> QED BY <1>1, <1>2, <1>3, <1>4 DEF NODE_TO_CONTENTS

LEMMA InvBytesDisjoint == HeapInv => BytesDisjoint
<1> SUFFICES ASSUME HeapInv PROVE BytesDisjoint
  OBVIOUS
<1> USE Constants
<1>1. TypeInv /\ CallInv /\ ListInv /\ LiveInv
  BY DEF HeapInv
<1>2. ASSUME NEW b \in live, NEW c \in live, b # c
      PROVE  Bytes(b.ptr, b.size) \intersect Bytes(c.ptr, c.size) = {}
  <2>1. b.ptr \in Nat /\ b.size \in Nat /\ c.ptr \in Nat /\ c.size \in Nat
        /\ b.ptr # c.ptr /\ pc # "boot"
    BY <1>1, <1>2 DEF LiveInv, CallInv
  <2>2. ASSUME NEW d \in Owned PROVE Holds(d.ptr, d.size)
    BY <1>1, <2>2 DEF LiveInv
  <2>3. CASE b \in Owned /\ c \in Owned
    <3>1. Holds(b.ptr, b.size) /\ Holds(c.ptr, c.size)
      BY <2>2, <2>3
    <3> QED BY <1>1, <2>1, <3>1, BlocksApart, Intervals
  <2>4. CASE b \notin Owned /\ c \in Owned
    <3>1. Holds(c.ptr, c.size)
      BY <2>2, <2>4
    <3>2. c.ptr + c.size <= b.ptr \/ b.ptr + b.size <= c.ptr
      BY <2>1, <2>4, <3>1, OldApart
    <3> QED BY <2>1, <3>2, Intervals
  <2>5. CASE b \in Owned /\ c \notin Owned
    <3>1. Holds(b.ptr, b.size)
      BY <2>2, <2>5
    <3>2. b.ptr + b.size <= c.ptr \/ c.ptr + c.size <= b.ptr
      BY <2>1, <2>5, <3>1, OldApart
    <3> QED BY <2>1, <3>2, Intervals
  <2>6. CASE b \notin Owned /\ c \notin Owned
    BY <2>1, <2>6 DEF Owned
  <2> QED BY <2>3, <2>4, <2>5, <2>6
<1>3. ASSUME NEW b \in live, NEW n \in DOMAIN heap
      PROVE  Bytes(b.ptr, b.size) \intersect Bytes(n, HDR) = {}
  <2>1. b.ptr \in Nat /\ b.size \in Nat /\ n \in Nat
    BY <1>1, Fields DEF LiveInv, TypeInv
  <2>2. n + HDR <= b.ptr \/ b.ptr + b.size <= n
    BY LiveApart
  <2> QED BY <2>1, <2>2, Intervals
<1>4. ASSUME NEW m \in DOMAIN heap, NEW n \in DOMAIN heap, m # n
      PROVE  Bytes(m, HDR) \intersect Bytes(n, HDR) = {}
  <2>1. m \in Nat /\ n \in Nat /\ heap[m].size \in Nat /\ pc # "boot"
    BY <1>1, Fields DEF TypeInv, CallInv
  <2>2. \/ NODE_TO_CONTENTS(m) + (IF heap[m].allocated THEN heap[m].size ELSE 0) <= n
        \/ NODE_TO_CONTENTS(n) <= m
    BY <1>1, <1>4, <2>1, NodesApart
  <2>3. m + HDR <= n \/ n + HDR <= m
    BY <2>1, <2>2 DEF NODE_TO_CONTENTS
  <2> QED BY <2>1, <2>3, Intervals
<1> QED BY <1>2, <1>3, <1>4 DEF BytesDisjoint

\* Blocks and allocated nodes correspond one to one.
LEMMA InvLiveAllocated == HeapInv => LiveAllocated
<1> SUFFICES ASSUME HeapInv, pc = "idle" PROVE LiveAllocated
  BY DEF LiveAllocated
<1> USE Constants
<1> DEFINE N == {n \in DOMAIN heap : heap[n].allocated}
           f == [b \in live |-> CONTENTS_TO_NODE(b.ptr)]
<1>1. LiveInv /\ TypeInv /\ call = NoCall
  BY DEF HeapInv, CallInv
<1>2. Owned = live /\ ~ NewlyAllocated
  BY <1>1 DEF Owned, NewlyAllocated, NoCall
<1>3. ASSUME NEW b \in live
      PROVE  LET node == CONTENTS_TO_NODE(b.ptr)
             IN  node \in DOMAIN heap /\ heap[node].allocated /\ heap[node].size >= b.size
  BY <1>1, <1>2, <1>3 DEF LiveInv, Holds
<1>4. \A b \in live : b.ptr \in Nat
  BY <1>1 DEF LiveInv
<1>5. f \in [live -> N]
  BY <1>3
<1>6. ASSUME NEW b \in live, NEW c \in live, f[b] = f[c] PROVE b = c
  <2>1. b.ptr = c.ptr
    BY <1>4, <1>6 DEF CONTENTS_TO_NODE
  <2> QED BY <1>1, <2>1 DEF LiveInv
<1>7. ASSUME NEW n \in N PROVE \E b \in live : f[b] = n
  <2>1. PICK b \in live : b.ptr = NODE_TO_CONTENTS(n)
    BY <1>1, <1>2 DEF LiveInv
  <2>2. n \in Nat
    BY <1>1, Fields DEF TypeInv
  <2>3. f[b] = n
    BY <2>1, <2>2 DEF NODE_TO_CONTENTS, CONTENTS_TO_NODE
  <2> QED BY <2>3
<1> HIDE DEF f, N
<1>8. f \in Bijection(live, N)
  BY <1>5, <1>6, <1>7 DEF Bijection, Injection, Surjection, IsInjective
<1>9. Cardinality(N) = Cardinality(live)
  <2>1. IsFiniteSet(live)
    BY <1>1 DEF LiveInv
  <2>2. ExistsBijection(live, N)
    BY <1>8 DEF ExistsBijection
  <2> QED BY <2>1, <2>2, FS_Bijection
<1> QED BY <1>3, <1>9 DEF LiveAllocated, N

-----------------------------------------------------------------------------
(* The operators on the list *)

\* The header at place is new, or new in what it says.
IsSet(g, h, place, size, next, allocated) ==
  /\ IsHeap(g)
  /\ DOMAIN g = DOMAIN h \union {place}
  /\ g[place].size = size /\ g[place].next_node = next /\ g[place].allocated = allocated
  /\ \A n \in DOMAIN g \ {place} : g[n] = h[n]

LEMMA Creation ==
  ASSUME NEW h, IsHeap(h), NEW place \in Nat \ {0}, NEW size \in 0 .. WordMod - 1,
         NEW next \in Nat, NEW allocated \in BOOLEAN
  PROVE  IsSet(createNode(h, place, size, next, allocated), h,
               place, size, next, allocated)
<1> DEFINE rec == [size |-> size, next_node |-> next, allocated |-> allocated]
           D == DOMAIN h \union {place}
           g == [a \in D |-> IF a = place THEN rec ELSE h[a]]
<1>1. rec \in Header /\ rec.size = size /\ rec.next_node = next /\ rec.allocated = allocated
  BY DEF Header
<1>2. createNode(h, place, size, next, allocated) = g
  BY DEF createNode
<1> HIDE DEF rec
<1>3. DOMAIN g = D /\ g \in [D -> Header] /\ g[place] = rec
      /\ \A n \in D \ {place} : g[n] = h[n]
  BY <1>1 DEF IsHeap
<1>4. D \subseteq Nat \ {0}
  BY DEF IsHeap
<1> HIDE DEF g
<1> QED BY <1>1, <1>2, <1>3, <1>4 DEF IsSet, IsHeap

LEMMA Change ==
  ASSUME NEW h, IsHeap(h), NEW node \in DOMAIN h, NEW rec \in Header
  PROVE  IsSet([h EXCEPT ![node] = rec], h, node, rec.size, rec.next_node, rec.allocated)
BY DEF IsSet, IsHeap

LEMMA Relinking ==
  ASSUME NEW h, IsHeap(h), NEW node \in DOMAIN h,
         NEW size \in 0 .. WordMod - 1, NEW next \in Nat
  PROVE  IsSet(Relinked(h, node, size, next), h, node, size, next, h[node].allocated)
<1> DEFINE rec == [h[node] EXCEPT !.size = size, !.next_node = next]
<1>1. Relinked(h, node, size, next) = [h EXCEPT ![node] = rec]
  BY DEF Relinked
<1>2. rec \in Header /\ rec.size = size /\ rec.next_node = next
      /\ rec.allocated = h[node].allocated
  <2>1. h[node] \in Header
    BY DEF IsHeap
  <2> QED BY <2>1 DEF Header
<1> HIDE DEF rec
<1>3. IsSet([h EXCEPT ![node] = rec], h, node, rec.size, rec.next_node, rec.allocated)
  BY <1>2, Change
<1> QED BY <1>1, <1>2, <1>3 DEF IsSet

\* Nodes are removed.
IsWithout(g, h, nodes) ==
  /\ IsHeap(g)
  /\ DOMAIN g = DOMAIN h \ nodes
  /\ \A n \in DOMAIN g : g[n] = h[n]

LEMMA Removal ==
  ASSUME NEW h, IsHeap(h), NEW nodes
  PROVE  IsWithout(Unlinked(h, nodes), h, nodes)
BY DEF IsWithout, Unlinked, IsHeap

\* What the end of the list becomes when a block is allocated there: the rest of
\* the space is a new node behind it, or part of it.
Consumed(g, h, node) ==
  /\ IsHeap(g) /\ Ordered(g)
  /\ DOMAIN h \subseteq DOMAIN g
  /\ \A n \in DOMAIN h \ {node} : g[n] = h[n]
  /\ g[node].allocated = h[node].allocated /\ g[node].size >= h[node].size
  /\ \A n \in DOMAIN g \ DOMAIN h : ~ g[n].allocated

LEMMA ConsumeLast ==
  ASSUME NEW h, IsHeap(h), Ordered(h), NEW node \in DOMAIN h, h[node].next_node = NULL,
         NODE_TO_CONTENTS(node) + h[node].size + HDR <= WordMod
  PROVE  Consumed(consumeEmptySpace(h, node), h, node)
<1> USE Constants
<1> DEFINE U == UnaccountedSpace(h, node)
           x == NODE_TO_CONTENTS(node) + h[node].size
           y == h[node].size + U
<1>1. node \in Nat /\ node > 0 /\ h[node].size \in 0 .. WordMod - 1
      /\ h[node].allocated \in BOOLEAN /\ h[node] \in Header
  BY Fields DEF IsHeap
<1>2. U \in 0 .. WordMod - 1
  <2>1. h[node].next_node - node + h[node].size \in Int
    BY <1>1
  <2> QED BY <2>1, WordRange DEF UnaccountedSpace
<1>3. Word(x) = x /\ x \in Nat \ {0} /\ x > node
  <2>1. x \in 0 .. WordMod - 1 /\ x \in Int /\ x > node
    BY <1>1 DEF NODE_TO_CONTENTS
  <2> HIDE DEF x
  <2> QED BY <1>1, <2>1, WordRange
<1>4. \A n \in DOMAIN h : n <= node /\ n \in Nat
  BY OrderedFacts, Fields
<1>5. x \notin DOMAIN h
  BY <1>1, <1>3, <1>4
<1>6. CASE U > HDR
  <2> DEFINE c == createNode(h, x, U - HDR, NULL, FALSE)
             rec == [c[node] EXCEPT !.next_node = x]
             g == [c EXCEPT ![node] = rec]
  <2>1. consumeEmptySpace(h, node) = g
    BY <1>3, <1>6 DEF consumeEmptySpace, Linked
  <2>2. IsSet(c, h, x, U - HDR, NULL, FALSE)
    <3>1. U - HDR \in 0 .. WordMod - 1
      BY <1>2, <1>6
    <3> HIDE DEF U, x
    <3> QED BY <1>3, <3>1, Creation
  <2> HIDE DEF c, U
  <2>3. c[node] = h[node] /\ node \in DOMAIN c /\ IsHeap(c)
    BY <1>1, <1>3, <2>2 DEF IsSet
  <2>4. rec \in Header /\ rec.size = h[node].size /\ rec.next_node = x
        /\ rec.allocated = h[node].allocated
    <3> HIDE DEF x
    <3> QED BY <1>1, <1>3, <2>3 DEF Header
  <2> HIDE DEF rec, x
  <2>5. IsSet(g, c, node, h[node].size, x, h[node].allocated)
    BY <2>3, <2>4, Change
  <2> HIDE DEF g
  <2>6. /\ IsHeap(g) /\ DOMAIN g = DOMAIN h \union {x}
        /\ \A n \in DOMAIN h \ {node} : g[n] = h[n]
        /\ g[node].size = h[node].size /\ g[node].next_node = x
        /\ g[node].allocated = h[node].allocated
        /\ g[x].next_node = NULL /\ ~ g[x].allocated
    BY <1>1, <1>3, <1>5, <2>2, <2>5 DEF IsSet
  <2>7. NODE_TO_CONTENTS(node) + g[node].size <= x
    BY <1>1, <2>6 DEF x, NODE_TO_CONTENTS
  <2>8. Ordered(g)
    BY <2>6, <2>7, Appended
  <2>9. g[node].size >= h[node].size
    BY <1>1, <2>6
  <2> QED BY <2>1, <2>6, <2>8, <2>9 DEF Consumed
<1>7. CASE ~ (U > HDR)
  <2> DEFINE rec == [h[node] EXCEPT !.size = y]
             g == [h EXCEPT ![node] = rec]
  <2>1. y \in 0 .. WordMod - 1 /\ y \in Int /\ y >= h[node].size
    <3> HIDE DEF U
    <3> QED BY <1>1, <1>2, <1>7 DEF NODE_TO_CONTENTS
  <2>2. Word(y) = y
    <3> HIDE DEF y
    <3> QED BY <2>1, WordRange
  <2>3. consumeEmptySpace(h, node) = g
    BY <1>7, <2>2 DEF consumeEmptySpace
  <2>4. rec \in Header /\ rec.size = y /\ rec.next_node = h[node].next_node
        /\ rec.allocated = h[node].allocated
    <3> HIDE DEF y
    <3> QED BY <1>1, <2>1 DEF Header
  <2> HIDE DEF rec
  <2>5. IsSet(g, h, node, y, h[node].next_node, h[node].allocated)
    <3> HIDE DEF y
    <3> QED BY <2>4, Change
  <2> HIDE DEF g, y
  <2>6. /\ IsHeap(g) /\ DOMAIN g = DOMAIN h
        /\ \A n \in DOMAIN h \ {node} : g[n] = h[n]
        /\ g[node].size = y /\ g[node].next_node = h[node].next_node
        /\ g[node].allocated = h[node].allocated
    BY <2>5 DEF IsSet
  <2>7. Ordered(g)
    <3>1. ASSUME NEW n \in DOMAIN h
          PROVE  /\ g[n].next_node = h[n].next_node
                 /\ h[n].next_node # NULL => g[n].size <= h[n].size
      BY <2>6, Fields
    <3> QED BY <2>6, <3>1, Resized
  <2> QED BY <2>1, <2>3, <2>6, <2>7 DEF Consumed
<1> QED BY <1>6, <1>7

-----------------------------------------------------------------------------
(* The steps *)

LEMMA InitInv == Init => HeapInv
<1> SUFFICES ASSUME Init PROVE HeapInv
  OBVIOUS
<1> USE Constants DEF Init
<1>1. DOMAIN heap = {} /\ heap \in [DOMAIN heap -> Header]
  OBVIOUS
<1>2. call = NoCall /\ live = {} /\ pc = "boot" /\ IsFiniteSet(live)
  BY FS_EmptySet
<1>3. TypeInv
  BY <1>1 DEF TypeInv, IsHeap
<1>4. CallInv
  <2>1. NoCall \in Calls /\ NoCall.op = "none"
    BY DEF NoCall, Calls
  <2> QED BY <1>1, <1>2, <2>1 DEF CallInv
<1>5. LiveInv /\ OldInv
  BY <1>1, <1>2 DEF LiveInv, OldInv, Owned, NewlyAllocated, NoCall
<1>6. ListInv /\ CompactInv /\ SearchInv
  BY <1>2 DEF ListInv, CompactInv, SearchInv, FullyCompacted
<1> QED BY <1>3, <1>4, <1>5, <1>6 DEF HeapInv

\* Before a call every block has a node, and no node waits to be given out.
LEMMA AtRest ==
  ASSUME HeapInv, pc = "idle"
  PROVE  /\ Owned = live /\ ~ NewlyAllocated /\ Ordered(heap) /\ IsHeap(heap)
         /\ call = NoCall
         /\ \A b \in live : Holds(b.ptr, b.size) /\ b.ptr \in Nat /\ b.size \in Nat
         /\ \A n \in DOMAIN heap :
              heap[n].allocated => \E b \in live : b.ptr = NODE_TO_CONTENTS(n)
<1>1. call = NoCall /\ LiveInv /\ ListInv /\ TypeInv
  BY DEF HeapInv, CallInv
<1>2. Owned = live /\ ~ NewlyAllocated
  BY <1>1 DEF Owned, NewlyAllocated, NoCall
<1>3. Ordered(heap) /\ IsHeap(heap)
  BY <1>1, OrderedOutside DEF TypeInv
<1> QED BY <1>1, <1>2, <1>3 DEF LiveInv

\* Which fields of the invariant speak of what: a step that changes neither the
\* list nor the blocks.
LEMMA Untouched ==
  ASSUME HeapInv, UNCHANGED <<heap, live>>, ~ NewlyAllocated, ~ NewlyAllocated',
         call.op # "moved", call'.op # "moved"
  PROVE  LiveInv' /\ OldInv'
<1>1. Owned = live /\ Owned' = live
  BY DEF Owned
<1>2. LiveInv
  BY DEF HeapInv
<1>3. \A p, s : Holds(p, s)' <=> Holds(p, s)
  BY DEF Holds
<1> QED BY <1>1, <1>2, <1>3 DEF LiveInv, OldInv

LEMMA kheapInitStep ==
  ASSUME HeapInv, kheapInit
  PROVE  HeapInv'
<1> USE Constants
<1> DEFINE size == (KHEAP_END - KHEAP_START) - HDR
<1>1. IsHeap(heap) /\ DOMAIN heap = {} /\ live = {} /\ call = NoCall
      /\ iter = NULL /\ calls \in 0 .. MaxCalls /\ pc = "boot"
  BY DEF HeapInv, TypeInv, CallInv, kheapInit
<1>2. IsSet(heap', heap, root_node, size, NULL, FALSE)
  <2>1. size \in 0 .. WordMod - 1 /\ NULL \in Nat
    OBVIOUS
  <2>2. heap' = createNode(heap, root_node, size, NULL, FALSE)
    BY DEF kheapInit
  <2> HIDE DEF size
  <2> QED BY <1>1, <2>1, <2>2, Creation
<1> HIDE DEF size
<1>3. IsHeap(heap') /\ DOMAIN heap' = {root_node}
      /\ heap'[root_node].next_node = NULL /\ ~ heap'[root_node].allocated
  BY <1>1, <1>2 DEF IsSet
<1>4. pc' = "idle" /\ live' = {} /\ call' = NoCall /\ iter' = NULL
      /\ calls' \in 0 .. MaxCalls
  BY <1>1 DEF kheapInit
<1>5. TypeInv' /\ CallInv'
  <2>1. NoCall \in Calls /\ NoCall.op = "none"
    BY DEF NoCall, Calls
  <2> QED BY <1>3, <1>4, <2>1 DEF TypeInv, CallInv
<1>6. ListInv'
  <2>1. Ordered(heap')
    BY <1>3 DEF Ordered
  <2> QED BY <2>1 DEF ListInv
<1>7. CompactInv' /\ SearchInv'
  BY <1>3, <1>4 DEF CompactInv, FullyCompacted, NextIsFree, SearchInv
<1>8. LiveInv' /\ OldInv'
  BY <1>3, <1>4, FS_EmptySet DEF LiveInv, OldInv, Owned, NewlyAllocated, NoCall
<1> QED BY <1>5, <1>6, <1>7, <1>8 DEF HeapInv

\* The functions that search are called.
LEMMA SearchCalled ==
  ASSUME HeapInv, pc = "idle", UNCHANGED <<heap, live>>, calls' = calls + 1,
         calls < MaxCalls, iter' = root_node,
         pc' \in {"search", "search_aligned"},
         call' \in Calls,
         call'.size > 0,
         call'.op \in {"alloc", "alloc_aligned", "move"},
         pc' = "search" => call'.op \in {"alloc", "move"},
         pc' = "search_aligned" => call'.op = "alloc_aligned",
         call'.op \in {"alloc", "alloc_aligned"} => call'.ptr = NULL,
         call'.op = "move" => \E b \in live : b.ptr = call'.ptr,
         SearchInv'
  PROVE  HeapInv'
<1> USE Constants
<1>1. Ordered(heap) /\ ~ NewlyAllocated /\ call = NoCall
  BY AtRest
<1>2. TypeInv'
  BY <1>1 DEF HeapInv, TypeInv, Ordered
<1>3. CallInv'
  BY DEF CallInv
<1>4. ListInv' /\ CompactInv'
  BY <1>1 DEF ListInv, CompactInv, FullyCompacted
<1>5. LiveInv' /\ OldInv'
  <2>1. call.op # "moved" /\ call'.op # "moved" /\ ~ NewlyAllocated'
    BY <1>1 DEF NoCall, NewlyAllocated
  <2> QED BY <1>1, <2>1, Untouched
<1> QED BY <1>2, <1>3, <1>4, <1>5 DEF HeapInv

LEMMA kheapAllocStep ==
  ASSUME HeapInv, Careful, NEW size \in Sizes, kheapAlloc(size)
  PROVE  HeapInv'
<1>1. size \in Nat \ {0}
  BY HeapAssumption
<1>2. call' = [op |-> "alloc", size |-> size, alignment |-> 1, ptr |-> NULL, new |-> NULL]
      /\ pc = "idle" /\ calls < MaxCalls /\ calls' = calls + 1
      /\ UNCHANGED <<heap, live>> /\ iter' = root_node /\ pc' = "search" /\ SafeAlloc(size)
  BY DEF kheapAlloc, Enter
<1>3. SearchInv'
  BY <1>2 DEF SearchInv, SafeAlloc, Holes, FreeEnd
<1>4. call' \in Calls
  BY <1>1, <1>2, Constants DEF Calls
<1> QED BY <1>1, <1>2, <1>3, <1>4, SearchCalled

LEMMA kheapAlignedAllocStep ==
  ASSUME HeapInv, Careful, NEW size \in Sizes, NEW alignment \in Alignments,
         kheapAlignedAlloc(size, alignment)
  PROVE  HeapInv'
<1>1. size \in Nat \ {0} /\ alignment \in Nat \ {0}
  BY HeapAssumption
<1>2. call' = [op |-> "alloc_aligned", size |-> size, alignment |-> alignment,
               ptr |-> NULL, new |-> NULL]
      /\ pc = "idle" /\ calls < MaxCalls /\ calls' = calls + 1
      /\ UNCHANGED <<heap, live>> /\ iter' = root_node /\ pc' = "search_aligned"
      /\ SafeAligned(size, alignment)
  BY DEF kheapAlignedAlloc, Enter
<1>3. SearchInv'
  BY <1>2 DEF SearchInv, SafeAligned, Holes, FreeEnd
<1>4. call' \in Calls
  BY <1>1, <1>2, Constants DEF Calls
<1> QED BY <1>1, <1>2, <1>3, <1>4, SearchCalled

LEMMA ReallocMoveStep ==
  ASSUME HeapInv, Careful, NEW block \in live, NEW size \in Sizes, ReallocMove(block, size)
  PROVE  HeapInv'
<1>1. size \in Nat \ {0} /\ block.ptr \in Nat
  BY HeapAssumption DEF HeapInv, LiveInv
<1>2. call' = [op |-> "move", size |-> size, alignment |-> 1, ptr |-> block.ptr, new |-> NULL]
      /\ pc = "idle" /\ calls < MaxCalls /\ calls' = calls + 1
      /\ UNCHANGED <<heap, live>> /\ iter' = root_node /\ pc' = "search" /\ SafeAlloc(size)
  BY DEF ReallocMove, Enter
<1>3. SearchInv'
  BY <1>2 DEF SearchInv, SafeAlloc, Holes, FreeEnd
<1>4. call' \in Calls
  BY <1>1, <1>2, Constants DEF Calls
<1> QED BY <1>1, <1>2, <1>3, <1>4, SearchCalled

LEMMA SearchNextStep ==
  ASSUME HeapInv, SearchNext \/ SearchAlignedNext
  PROVE  HeapInv'
<1>1. pc \in {"search", "search_aligned"} /\ iter # NULL /\ iter' = heap[iter].next_node
      /\ UNCHANGED <<heap, live, pc, call, calls>>
  BY DEF SearchNext, SearchAlignedNext
<1>2. TypeInv /\ CallInv /\ ListInv /\ CompactInv /\ SearchInv
  BY DEF HeapInv
<1>3. Ordered(heap)
  BY <1>1, <1>2, OrderedOutside
<1>4. TypeInv'
  <2>1. iter \in DOMAIN heap
    BY <1>1, <1>2 DEF TypeInv
  <2>2. heap[iter].next_node \in DOMAIN heap \union {NULL}
    BY <1>3, <2>1 DEF Ordered
  <2> QED BY <1>1, <1>2, <2>2 DEF TypeInv
<1>5. CallInv'
  BY <1>1, <1>2 DEF CallInv, Holds
<1>6. ListInv' /\ CompactInv'
  BY <1>1, <1>3 DEF ListInv, CompactInv, FullyCompacted
<1>7. SearchInv'
  BY <1>1, <1>2 DEF SearchInv, SafeAlloc, SafeAligned, Holes, FreeEnd
<1>8. LiveInv' /\ OldInv'
  <2>1. call.op # "moved" /\ ~ NewlyAllocated /\ ~ NewlyAllocated'
    BY <1>1, <1>2 DEF CallInv, NewlyAllocated
  <2> QED BY <1>1, <2>1, Untouched
<1> QED BY <1>4, <1>5, <1>6, <1>7, <1>8 DEF HeapInv

LEMMA OutOfSpaceStep ==
  ASSUME HeapInv, OutOfSpace
  PROVE  HeapInv'
<1>1. pc \in {"search", "search_aligned"} /\ pc' = "halted"
      /\ UNCHANGED <<heap, live, iter, call, calls>>
  BY DEF OutOfSpace
<1>2. TypeInv /\ CallInv /\ ListInv
  BY DEF HeapInv
<1>3. Ordered(heap)
  BY <1>1, <1>2, OrderedOutside
<1>4. TypeInv'
  BY <1>1, <1>2 DEF TypeInv
<1>5. CallInv'
  BY <1>1, <1>2 DEF CallInv, Holds
<1>6. ListInv' /\ CompactInv' /\ SearchInv'
  BY <1>1, <1>3 DEF ListInv, CompactInv, FullyCompacted, SearchInv
<1>7. LiveInv' /\ OldInv'
  <2>1. call.op # "moved" /\ ~ NewlyAllocated /\ ~ NewlyAllocated'
    BY <1>1, <1>2 DEF CallInv, NewlyAllocated
  <2> QED BY <1>1, <2>1, Untouched
<1> QED BY <1>4, <1>5, <1>6, <1>7 DEF HeapInv

LEMMA CompactNextStep ==
  ASSUME HeapInv, CompactNext
  PROVE  HeapInv'
<1> USE Constants
<1>1. pc = "compact" /\ heap[iter].next_node # NULL /\ ~ BothFree
      /\ iter' = heap[iter].next_node /\ UNCHANGED <<heap, live, pc, call, calls>>
  BY DEF CompactNext
<1>2. TypeInv /\ CallInv /\ ListInv /\ CompactInv /\ LiveInv /\ OldInv
  BY DEF HeapInv
<1>3. iter \in DOMAIN heap /\ IsHeap(heap)
  BY <1>1, <1>2 DEF CompactInv, TypeInv
<1>4. iter' \in DOMAIN heap
  BY <1>1, <1>2, <1>3, Successors
<1>5. TypeInv'
  BY <1>1, <1>2, <1>4 DEF TypeInv
<1>6. CallInv'
  BY <1>1, <1>2 DEF CallInv, Holds
<1>7. ~ (~ heap[iter].allocated /\ NextIsFree(iter))
  BY <1>1 DEF BothFree, NextIsFree
<1>8. SearchInv'
  BY <1>1 DEF SearchInv
<1>9. LiveInv' /\ OldInv'
  <2>1. Owned' = Owned /\ (NewlyAllocated' <=> NewlyAllocated)
    BY <1>1 DEF Owned, NewlyAllocated
  <2>2. \A p, s : Holds(p, s)' <=> Holds(p, s)
    BY <1>1 DEF Holds
  <2> QED BY <1>1, <1>2, <2>1, <2>2 DEF LiveInv, OldInv
<1>10. ListInv' /\ CompactInv'
  <2>1. CASE Ordered(heap)
    <3>1. ListInv'
      BY <1>1, <2>1 DEF ListInv
    <3>2. ASSUME NEW n \in DOMAIN heap, n < iter'
          PROVE  ~ (~ heap[n].allocated /\ NextIsFree(n))
      <4>1. n \in Nat /\ iter \in Nat
        BY <1>3, Fields
      <4>2. iter < n => iter' <= n
        BY <1>1, <1>3, <2>1 DEF Ordered
      <4>3. n < iter \/ n = iter
        BY <3>2, <4>1, <4>2, <1>3, <1>4, Fields
      <4> QED BY <1>1, <1>2, <1>7, <4>3 DEF CompactInv
    <3>3. CompactInv'
      BY <1>1, <1>4, <3>2 DEF CompactInv, FullyCompacted, NextIsFree
    <3> QED BY <3>1, <3>3
  <2>2. ASSUME NEW r \in DOMAIN heap, NEW last \in DOMAIN heap, Pending(r, last)
        PROVE  ListInv' /\ CompactInv'
    <3>1. iter # r
      <4>1. last # NULL
        BY <1>3, Fields
      <4> QED BY <1>7, <2>2, <4>1 DEF Pending, NextIsFree
    <3>5. IsBody(Body(heap, r, last), heap, r, last)
      <4>1. r # last
        BY <2>2 DEF Pending
      <4> QED BY <1>3, <4>1, BodyFacts
    <3>2. iter' # last
      <4>1. r # last /\ heap[r].next_node = last /\ iter # last
            /\ Ordered(Body(heap, r, last))
        BY <2>2 DEF Pending
      <4> QED BY <1>1, <1>3, <3>1, <3>5, <4>1 DEF Ordered, IsBody
    <3>3. Pending(r, last)'
      BY <1>1, <2>2, <3>2 DEF Pending, NextIsFree
    <3>4. ListInv'
      BY <1>1, <3>3 DEF ListInv
    <3>6. ASSUME NEW n \in DOMAIN heap, n < iter'
          PROVE  ~ (~ heap[n].allocated /\ NextIsFree(n))
      <4>1. CASE n # r
        BY <2>2, <4>1 DEF Pending
      <4>2. CASE n = r
        <5>1. Ordered(Body(heap, r, last)) /\ r # last
          BY <2>2 DEF Pending
        <5>2. iter' <= r
          BY <1>4, <3>2, <3>5, <5>1, OrderedFacts DEF IsBody
        <5>3. iter' \in Nat /\ r \in Nat
          BY <1>3, <1>4, Fields
        <5> QED BY <3>6, <4>2, <5>2, <5>3
      <4> QED BY <4>1, <4>2
    <3>7. CompactInv'
      BY <1>1, <1>4, <3>6 DEF CompactInv, FullyCompacted, NextIsFree
    <3> QED BY <3>4, <3>7
  <2> QED BY <1>1, <1>2, <2>1, <2>2 DEF ListInv
<1> QED BY <1>5, <1>6, <1>8, <1>9, <1>10 DEF HeapInv

\* Two free neighbours become one node.
LEMMA CompactMergeStep ==
  ASSUME HeapInv, CompactMerge
  PROVE  HeapInv'
<1> USE Constants
<1> DEFINE next == heap[iter].next_node
           behind == heap[next].next_node
           size == Word(heap[iter].size + HDR + heap[next].size)
           h == Relinked(heap, iter, size, behind)
<1>1. pc = "compact" /\ next # NULL /\ ~ heap[iter].allocated /\ ~ heap[next].allocated
      /\ heap' = Unlinked(h, {next} \ {iter})
      /\ UNCHANGED <<live, pc, iter, call, calls>>
  <2>1. pc = "compact" /\ next # NULL /\ ~ heap[iter].allocated /\ ~ heap[next].allocated
        /\ UNCHANGED <<live, pc, iter, call, calls>>
    BY DEF CompactMerge, BothFree
  <2>2. heap' = Unlinked(h, {next} \ {iter})
    BY DEF CompactMerge
  <2> QED BY <2>1, <2>2
<1>2. TypeInv /\ CallInv /\ ListInv /\ CompactInv /\ LiveInv /\ OldInv
  BY DEF HeapInv
<1>3. iter \in DOMAIN heap /\ IsHeap(heap)
  BY <1>1, <1>2 DEF CompactInv, TypeInv
<1>4. next \in DOMAIN heap
  BY <1>1, <1>2, <1>3, Successors
<1>5. ASSUME NEW r \in DOMAIN heap, NEW last \in DOMAIN heap, Pending(r, last)
      PROVE  iter = r /\ next = last /\ r # last /\ behind = NULL
  <2>1. NextIsFree(iter)
    BY <1>1 DEF NextIsFree
  <2> QED BY <1>1, <1>3, <1>5, <2>1 DEF Pending
<1>6. next # iter
  <2>1. CASE Ordered(heap)
    <3>1. iter < next
      BY <1>1, <1>3, <2>1, OrderedFacts
    <3>2. iter \in Nat
      BY <1>3, Fields
    <3> HIDE DEF next
    <3> QED BY <3>1, <3>2
  <2>2. ASSUME NEW r \in DOMAIN heap, NEW last \in DOMAIN heap, Pending(r, last)
        PROVE  next # iter
    BY <1>5, <2>2
  <2> QED BY <1>1, <1>2, <2>1, <2>2 DEF ListInv
<1>7. size \in 0 .. WordMod - 1 /\ behind \in Nat
  <2>1. heap[iter].size + HDR + heap[next].size \in Int
    BY <1>3, <1>4, Fields
  <2> QED BY <1>4, <1>3, <2>1, WordRange, Fields
<1>8. size <= heap[iter].size + HDR + heap[next].size
  <2>1. heap[iter].size + HDR + heap[next].size \in Nat
    BY <1>3, <1>4, Fields
  <2> HIDE DEF next
  <2> QED BY <2>1, WordRange
<1> HIDE DEF size, behind, next
<1>9. IsSet(h, heap, iter, size, behind, heap[iter].allocated)
  BY <1>3, <1>7, Relinking
<1> HIDE DEF h
<1>10. /\ IsHeap(heap') /\ DOMAIN heap' = DOMAIN heap \ {next}
       /\ \A n \in DOMAIN heap' \ {iter} : heap'[n] = heap[n]
       /\ heap'[iter].size = size /\ heap'[iter].next_node = behind
       /\ ~ heap'[iter].allocated /\ iter \in DOMAIN heap'
  <2>1. IsHeap(h) /\ DOMAIN h = DOMAIN heap /\ {next} \ {iter} = {next}
    BY <1>3, <1>6, <1>9 DEF IsSet
  <2>2. IsWithout(heap', h, {next})
    BY <1>1, <2>1, Removal
  <2>3. /\ IsHeap(heap') /\ DOMAIN heap' = DOMAIN heap \ {next}
        /\ \A n \in DOMAIN heap' : heap'[n] = h[n]
    BY <2>1, <2>2 DEF IsWithout
  <2>4. \A n \in DOMAIN heap' \ {iter} : heap'[n] = heap[n]
    BY <1>9, <2>1, <2>3 DEF IsSet
  <2>5. iter \in DOMAIN heap' /\ heap'[iter] = h[iter]
    BY <1>3, <1>6, <2>3
  <2>6. h[iter].size = size /\ h[iter].next_node = behind /\ ~ h[iter].allocated
    BY <1>1, <1>9 DEF IsSet
  <2> QED BY <2>3, <2>4, <2>5, <2>6
<1>11. \A n \in DOMAIN heap' : heap'[n].allocated = heap[n].allocated
  <2>1. heap'[iter].allocated \in BOOLEAN /\ heap[iter].allocated \in BOOLEAN
    BY <1>3, <1>10, Fields
  <2>2. heap'[iter].allocated = heap[iter].allocated
    BY <1>1, <1>10, <2>1
  <2> QED BY <1>10, <2>2
<1>12. Ordered(heap')
  <2>1. CASE Ordered(heap)
    <3>1. behind = heap[next].next_node /\ next = heap[iter].next_node
      BY DEF behind, next
    <3>2. /\ IsHeap(heap) /\ IsHeap(heap') /\ iter \in DOMAIN heap
          /\ next = heap[iter].next_node /\ next # NULL
          /\ DOMAIN heap' = DOMAIN heap \ {next}
          /\ \A n \in DOMAIN heap' \ {iter} : heap'[n] = heap[n]
          /\ heap'[iter].next_node = heap[next].next_node
          /\ heap'[iter].size <= heap[iter].size + HDR + heap[next].size
      BY <1>1, <1>3, <1>8, <1>10, <3>1
    <3> QED BY <2>1, <3>2, Swallow
  <2>2. ASSUME NEW r \in DOMAIN heap, NEW last \in DOMAIN heap, Pending(r, last)
        PROVE  Ordered(heap')
    <3> DEFINE b == Body(heap, r, last)
    <3>1. iter = r /\ next = last /\ r # last /\ behind = NULL
      BY <1>5, <2>2
    <3>2. Ordered(b)
      BY <2>2 DEF Pending
    <3>3. IsBody(b, heap, r, last)
      BY <1>3, <3>1, BodyFacts
    <3> HIDE DEF b
    <3>4. IsHeap(b) /\ DOMAIN heap' = DOMAIN b
      BY <1>10, <3>1, <3>3 DEF IsBody
    <3>5. ASSUME NEW n \in DOMAIN b
          PROVE  /\ heap'[n].next_node = b[n].next_node
                 /\ b[n].next_node # NULL => heap'[n].size <= b[n].size
      <4>1. CASE n = r
        BY <1>10, <3>1, <3>3, <4>1 DEF IsBody
      <4>2. CASE n # r
        <5>1. heap'[n] = b[n]
          BY <1>10, <3>1, <3>3, <3>4, <4>2 DEF IsBody
        <5> QED BY <3>4, <5>1, Fields
      <4> QED BY <4>1, <4>2
    <3> QED BY <1>10, <3>2, <3>4, <3>5, Resized
  <2> QED BY <1>1, <1>2, <2>1, <2>2 DEF ListInv
<1>13. TypeInv' /\ ListInv' /\ SearchInv'
  BY <1>1, <1>2, <1>10, <1>12 DEF TypeInv, ListInv, SearchInv
<1>14. CompactInv'
  <2>1. ASSUME NEW n \in DOMAIN heap', n < iter, ~ heap'[n].allocated, NextIsFree(n)'
        PROVE  FALSE
    <3>1. n \in DOMAIN heap /\ n # iter /\ heap'[n] = heap[n]
      BY <1>3, <1>10, <2>1, Fields
    <3>2. heap[n].next_node # NULL /\ ~ heap'[heap[n].next_node].allocated
      BY <2>1, <3>1 DEF NextIsFree
    <3>3. heap[n].next_node \in DOMAIN heap'
      BY <1>12, <3>1, <3>2 DEF Ordered
    <3>4. ~ heap[n].allocated /\ NextIsFree(n)
      BY <1>11, <2>1, <3>1, <3>2, <3>3 DEF NextIsFree
    <3> QED BY <1>1, <1>2, <2>1, <3>1, <3>4 DEF CompactInv
  <2> QED BY <1>1, <1>10, <2>1 DEF CompactInv, FullyCompacted
<1>15. ASSUME NEW p, NEW s, Holds(p, s) PROVE Holds(p, s)'
  <2> DEFINE n == CONTENTS_TO_NODE(p)
  <2>1. n \in DOMAIN heap /\ heap[n].allocated /\ heap[n].size >= s
    BY <1>15 DEF Holds
  <2>2. n # iter /\ n # next
    BY <1>1, <2>1 DEF next
  <2>3. n \in DOMAIN heap' /\ heap'[n] = heap[n]
    BY <1>10, <2>1, <2>2
  <2> QED BY <2>1, <2>3 DEF Holds, CONTENTS_TO_NODE
<1>16. Owned' = Owned /\ (NewlyAllocated' <=> NewlyAllocated)
  BY <1>1 DEF Owned, NewlyAllocated
<1>17. CallInv'
  BY <1>1, <1>2, <1>15 DEF CallInv
<1>18. LiveInv'
  <2>1. \A n \in DOMAIN heap' : n \in DOMAIN heap
    BY <1>10
  <2> QED BY <1>1, <1>2, <1>11, <1>15, <1>16, <2>1 DEF LiveInv
<1>19. OldInv'
  <2>1. ASSUME call.op = "moved", NEW b \in live, NEW n \in DOMAIN heap', b.ptr = call.ptr
        PROVE  \/ NODE_TO_CONTENTS(n)
                    + (IF heap'[n].allocated THEN heap'[n].size ELSE 0) <= b.ptr
               \/ b.ptr + b.size <= n
    <3>1. \/ NODE_TO_CONTENTS(n) + (IF heap[n].allocated THEN heap[n].size ELSE 0) <= b.ptr
          \/ b.ptr + b.size <= n
      BY <1>2, <1>10, <2>1 DEF OldInv
    <3>2. CASE n = iter
      BY <1>1, <1>10, <3>1, <3>2
    <3>3. CASE n # iter
      BY <1>10, <3>1, <3>3
    <3> QED BY <3>2, <3>3
  <2> QED BY <1>1, <2>1 DEF OldInv, NODE_TO_CONTENTS
<1> QED BY <1>13, <1>14, <1>17, <1>18, <1>19 DEF HeapInv

\* At the end of the loop the list is in order and compacted.
LEMMA CompactionEnds ==
  ASSUME HeapInv, Compacted
  PROVE  /\ Ordered(heap)
         /\ \A n \in DOMAIN heap : ~ (~ heap[n].allocated /\ NextIsFree(n))
<1> USE Constants
<1>1. IsHeap(heap) /\ ListInv /\ pc = "compact" /\ iter \in DOMAIN heap
      /\ heap[iter].next_node = NULL
      /\ \A n \in DOMAIN heap : n < iter => ~ (~ heap[n].allocated /\ NextIsFree(n))
  BY DEF HeapInv, TypeInv, CompactInv, Compacted
<1>2. ASSUME NEW r \in DOMAIN heap, NEW last \in DOMAIN heap, Pending(r, last)
      PROVE  FALSE
  <2> DEFINE b == Body(heap, r, last)
  <2>1. r # last /\ iter # last /\ heap[r].next_node = last /\ Ordered(b)
    BY <1>2 DEF Pending
  <2>2. r # last
    BY <2>1
  <2>3. IsBody(b, heap, r, last)
    BY <1>1, <2>2, BodyFacts
  <2>4. iter # r
    <3>1. last # NULL
      BY <1>1, Fields
    <3> QED BY <1>1, <2>1, <3>1
  <2> HIDE DEF b
  <2>5. IsHeap(b) /\ iter \in DOMAIN b /\ r \in DOMAIN b
        /\ b[iter].next_node = NULL /\ b[r].next_node = NULL
    BY <1>1, <2>1, <2>3, <2>4 DEF IsBody
  <2>6. iter <= r /\ r <= iter /\ iter \in Nat /\ r \in Nat
    BY <2>1, <2>5, OrderedFacts, Fields
  <2> QED BY <2>4, <2>6
<1>3. Ordered(heap)
  BY <1>1, <1>2 DEF ListInv
<1>4. ASSUME NEW n \in DOMAIN heap PROVE ~ (~ heap[n].allocated /\ NextIsFree(n))
  <2>1. n <= iter /\ n \in Nat /\ iter \in Nat
    BY <1>1, <1>3, OrderedFacts, Fields
  <2>2. CASE n = iter
    BY <1>1, <2>2 DEF NextIsFree
  <2>3. CASE n < iter
    BY <1>1, <2>3
  <2> QED BY <2>1, <2>2, <2>3
<1> QED BY <1>3, <1>4

\* A call returns: what is left to show is that the blocks are right.
LEMMA Returned ==
  ASSUME HeapInv, Compacted, pc' = "idle", iter' = NULL, call' = NoCall,
         UNCHANGED <<heap, calls>>, LiveInv', OldInv'
  PROVE  HeapInv'
<1>1. Ordered(heap) /\ \A n \in DOMAIN heap : ~ (~ heap[n].allocated /\ NextIsFree(n))
  BY CompactionEnds
<1>2. TypeInv'
  BY DEF HeapInv, TypeInv
<1>3. CallInv'
  <2>1. NoCall \in Calls /\ NoCall.op = "none"
    BY Constants DEF NoCall, Calls
  <2> QED BY <2>1 DEF CallInv
<1>4. ListInv' /\ CompactInv' /\ SearchInv'
  BY <1>1 DEF ListInv, CompactInv, FullyCompacted, NextIsFree, SearchInv
<1> QED BY <1>2, <1>3, <1>4 DEF HeapInv

\* A block takes the place of others.
LEMMA LiveReplaced ==
  ASSUME LiveInv, NEW S, S \subseteq live, NEW p \in Nat, NEW s \in Nat \ {0},
         live' = S \union Block(p, s),
         call'.op # "moved", ~ NewlyAllocated',
         \A b \in S : b.ptr # p /\ Holds(b.ptr, b.size)',
         Holds(p, s)',
         \A n \in DOMAIN heap' : heap'[n].allocated =>
            (\E b \in S : b.ptr = NODE_TO_CONTENTS(n)) \/ p = NODE_TO_CONTENTS(n)
  PROVE  LiveInv' /\ OldInv'
<1> DEFINE blk == [ptr |-> p, size |-> s]
<1>1. live' = S \union {blk}
  BY DEF Block
<1>2. blk.ptr = p /\ blk.size = s /\ blk \in [ptr : Nat, size : Nat \ {0}]
  OBVIOUS
<1> HIDE DEF blk
<1>3. Owned' = live'
  BY DEF Owned
<1>4. IsFiniteSet(live')
  <2>1. IsFiniteSet(S)
    BY FS_Subset DEF LiveInv
  <2> QED BY <1>1, <2>1, FS_AddElement
<1>5. live' \subseteq [ptr : Nat, size : Nat \ {0}]
  BY <1>1, <1>2 DEF LiveInv
<1>6. ASSUME NEW b \in live', NEW c \in live', b.ptr = c.ptr PROVE b = c
  BY <1>1, <1>2, <1>6 DEF LiveInv
<1>7. ASSUME NEW b \in live' PROVE Holds(b.ptr, b.size)'
  <2>1. CASE b \in S
    BY <2>1
  <2>2. CASE b = blk
    BY <1>2, <2>2
  <2> QED BY <1>1, <2>1, <2>2
<1>8. ASSUME NEW n \in DOMAIN heap', heap'[n].allocated
      PROVE  \E b \in live' : b.ptr = NODE_TO_CONTENTS(n)
  BY <1>1, <1>2, <1>8
<1>9. OldInv'
  BY DEF OldInv
<1>10. \A n \in DOMAIN heap' : heap'[n].allocated =>
         \E b \in Owned' : b.ptr = NODE_TO_CONTENTS(n)
  BY <1>3, <1>8
<1> QED BY <1>3, <1>4, <1>5, <1>6, <1>7, <1>9, <1>10 DEF LiveInv, NODE_TO_CONTENTS

LEMMA DoneSteps ==
  ASSUME HeapInv, FreeDone \/ AllocDone \/ ResizeDone \/ MoveDone
  PROVE  HeapInv'
<1> USE Constants
<1>1. Compacted /\ pc = "compact" /\ pc' = "idle" /\ iter' = NULL /\ call' = NoCall
      /\ UNCHANGED <<heap, calls>>
  BY DEF FreeDone, AllocDone, ResizeDone, MoveDone, Return, Compacted
<1>2. CallInv /\ LiveInv /\ TypeInv
  BY DEF HeapInv
<1>3. call'.op # "moved" /\ ~ NewlyAllocated'
  BY <1>1 DEF NewlyAllocated, NoCall
<1>4. \A p, s : Holds(p, s)' <=> Holds(p, s)
  BY <1>1 DEF Holds
<1>5. PICK old \in Nat, new \in Nat, size \in Nat :
        old = call.ptr /\ new = call.new /\ size = call.size
  BY <1>2 DEF CallInv, Calls
<1>6. CASE FreeDone
  <2>1. call.op = "free" /\ ~ NewlyAllocated
    BY <1>6 DEF FreeDone, NewlyAllocated
  <2>2. live' = live
    BY <1>2, <1>6, <2>1 DEF FreeDone, Return, CallInv
  <2> QED BY <1>1, <1>3, <2>1, <2>2, Untouched, Returned
<1>7. CASE AllocDone
  <2>1. call.op \in {"alloc", "alloc_aligned"} /\ Owned = live /\ NewlyAllocated
        /\ size > 0
    BY <1>1, <1>2, <1>5, <1>7 DEF AllocDone, NewlyAllocated, Owned, CallInv
  <2>2. \A b \in live : b.ptr # NULL
    <3>1. ASSUME NEW b \in live PROVE b.ptr # NULL
      <4>1. Holds(b.ptr, b.size) /\ b.ptr \in Nat
        BY <1>2, <2>1 DEF LiveInv
      <4>2. CONTENTS_TO_NODE(b.ptr) > 0
        BY <1>2, <4>1, Fields DEF Holds, TypeInv
      <4> QED BY <4>1, <4>2 DEF CONTENTS_TO_NODE
    <3> QED BY <3>1
  <2>3. live' = live \union Block(new, size)
    BY <1>5, <1>7, <2>2 DEF AllocDone, Return
  <2>4. Holds(new, size)'
        /\ \A b \in live : b.ptr # new /\ Holds(b.ptr, b.size)'
    BY <1>2, <1>4, <1>5, <2>1 DEF LiveInv
  <2>5. \A n \in DOMAIN heap' : heap'[n].allocated =>
           (\E b \in live : b.ptr = NODE_TO_CONTENTS(n)) \/ new = NODE_TO_CONTENTS(n)
    BY <1>1, <1>2, <1>5, <2>1 DEF LiveInv
  <2>6. LiveInv' /\ OldInv'
    BY <1>2, <1>3, <1>5, <2>1, <2>3, <2>4, <2>5, LiveReplaced
  <2> QED BY <1>1, <2>6, Returned
<1>8. CASE ResizeDone
  <2> DEFINE S == {b \in live : b.ptr # old}
  <2>1. call.op = "resize" /\ Owned = live /\ ~ NewlyAllocated /\ size > 0
        /\ Holds(old, size)
    BY <1>1, <1>2, <1>5, <1>8 DEF ResizeDone, NewlyAllocated, Owned, CallInv
  <2>2. live' = S \union Block(old, size)
    BY <1>5, <1>8 DEF ResizeDone, Return
  <2>3. S \subseteq live /\ \A b \in S : b.ptr # old /\ Holds(b.ptr, b.size)'
    BY <1>2, <1>4, <1>5, <2>1 DEF LiveInv
  <2>4. \A n \in DOMAIN heap' : heap'[n].allocated =>
           (\E b \in S : b.ptr = NODE_TO_CONTENTS(n)) \/ old = NODE_TO_CONTENTS(n)
    BY <1>1, <1>2, <1>5, <2>1 DEF LiveInv
  <2>5. Holds(old, size)'
    BY <1>4, <2>1
  <2> HIDE DEF S
  <2>6. LiveInv' /\ OldInv'
    BY <1>2, <1>3, <1>5, <2>1, <2>2, <2>3, <2>4, <2>5, LiveReplaced
  <2> QED BY <1>1, <2>6, Returned
<1>9. CASE MoveDone
  <2> DEFINE S == {b \in live : b.ptr # old}
  <2>1. call.op = "moved" /\ Owned = S /\ NewlyAllocated /\ size > 0
    BY <1>1, <1>2, <1>5, <1>9 DEF MoveDone, NewlyAllocated, Owned, CallInv
  <2>2. live' = S \union Block(new, size)
    BY <1>5, <1>9 DEF MoveDone, Return
  <2>3. S \subseteq live /\ \A b \in S : b.ptr # new /\ Holds(b.ptr, b.size)'
    BY <1>2, <1>4, <1>5, <2>1 DEF LiveInv
  <2> HIDE DEF S
  <2>4. \A n \in DOMAIN heap' : heap'[n].allocated =>
           (\E b \in S : b.ptr = NODE_TO_CONTENTS(n)) \/ new = NODE_TO_CONTENTS(n)
    BY <1>1, <1>2, <1>5, <2>1 DEF LiveInv
  <2>5. Holds(new, size)'
    BY <1>2, <1>4, <1>5, <2>1 DEF LiveInv
  <2>6. LiveInv' /\ OldInv'
    BY <1>2, <1>3, <1>5, <2>1, <2>2, <2>3, <2>4, <2>5, LiveReplaced
  <2> QED BY <1>1, <2>6, Returned
<1> QED BY <1>6, <1>7, <1>8, <1>9

\* The compaction is started.
LEMMA CompactionStarts ==
  ASSUME IsHeap(heap'), Ordered(heap'), pc' = "compact", iter' = root_node,
         calls' \in 0 .. MaxCalls, CallInv', LiveInv', OldInv'
  PROVE  HeapInv'
<1>1. TypeInv'
  BY DEF TypeInv, Ordered
<1>2. ListInv' /\ SearchInv'
  BY DEF ListInv, SearchInv
<1>3. CompactInv'
  <2>1. ASSUME NEW n \in DOMAIN heap' PROVE ~ (n < root_node)
    <3>1. root_node <= n
      BY DEF Ordered
    <3> QED BY <3>1, Fields, Constants
  <2>2. root_node \in DOMAIN heap'
    BY DEF Ordered
  <2> QED BY <2>1, <2>2 DEF CompactInv, FullyCompacted
<1> QED BY <1>1, <1>2, <1>3 DEF HeapInv

\* A node is freed.
LEMMA Freed ==
  ASSUME IsHeap(heap), Ordered(heap), NEW p \in Nat, CONTENTS_TO_NODE(p) \in DOMAIN heap,
         heap' = [heap EXCEPT ![CONTENTS_TO_NODE(p)].allocated = FALSE]
  PROVE  /\ IsHeap(heap') /\ Ordered(heap')
         /\ DOMAIN heap' = DOMAIN heap
         /\ \A n \in DOMAIN heap : n # CONTENTS_TO_NODE(p) => heap'[n] = heap[n]
         /\ ~ heap'[CONTENTS_TO_NODE(p)].allocated
         /\ \A q \in Nat, s \in Nat : Holds(q, s) /\ q # p => Holds(q, s)'
<1> DEFINE node == CONTENTS_TO_NODE(p)
           rec == [heap[node] EXCEPT !.allocated = FALSE]
<1>1. heap' = [heap EXCEPT ![node] = rec]
  OBVIOUS
<1>2. rec \in Header /\ rec.size = heap[node].size /\ rec.next_node = heap[node].next_node
      /\ rec.allocated = FALSE
  <2>1. heap[node] \in Header
    BY DEF IsHeap
  <2> QED BY <2>1 DEF Header
<1> HIDE DEF rec
<1>3. IsSet(heap', heap, node, rec.size, rec.next_node, rec.allocated)
  <2>1. node \in DOMAIN heap
    OBVIOUS
  <2> DEFINE g == [heap EXCEPT ![node] = rec]
  <2> HIDE DEF node
  <2>2. IsSet(g, heap, node, rec.size, rec.next_node, rec.allocated)
    BY <1>2, <2>1, Change
  <2>3. heap' = g
    BY <1>1
  <2> HIDE DEF g
  <2> QED BY <2>2, <2>3
<1>4. node \in DOMAIN heap /\ node = p - HDR
  BY DEF CONTENTS_TO_NODE
<1> HIDE DEF node
<1>5. /\ IsHeap(heap') /\ DOMAIN heap' = DOMAIN heap
      /\ \A n \in DOMAIN heap : n # node => heap'[n] = heap[n]
      /\ heap'[node].size = heap[node].size /\ heap'[node].next_node = heap[node].next_node
      /\ ~ heap'[node].allocated
  BY <1>2, <1>3, <1>4 DEF IsSet
<1>6. Ordered(heap')
  <2>1. ASSUME NEW n \in DOMAIN heap
        PROVE  /\ heap'[n].next_node = heap[n].next_node
               /\ heap[n].next_node # NULL => heap'[n].size <= heap[n].size
    BY <1>5, Fields
  <2> QED BY <1>5, <2>1, Resized
<1>7. ASSUME NEW q \in Nat, NEW s \in Nat, Holds(q, s), q # p PROVE Holds(q, s)'
  <2>1. CONTENTS_TO_NODE(q) # node
    BY <1>4, <1>7, Constants DEF CONTENTS_TO_NODE
  <2> QED BY <1>5, <1>7, <2>1 DEF Holds, CONTENTS_TO_NODE
<1> QED BY <1>5, <1>6, <1>7 DEF node

LEMMA kheapFreeStep ==
  ASSUME HeapInv, NEW block \in live, kheapFree(block)
  PROVE  HeapInv'
<1> USE Constants
<1> DEFINE node == CONTENTS_TO_NODE(block.ptr)
<1>1. /\ pc = "idle" /\ calls < MaxCalls /\ calls' = calls + 1
      /\ call' = [op |-> "free", size |-> 0, alignment |-> 1, ptr |-> block.ptr, new |-> NULL]
      /\ heap' = [heap EXCEPT ![node].allocated = FALSE]
      /\ live' = live \ {block} /\ pc' = "compact" /\ iter' = root_node
  BY DEF kheapFree, Enter, StartCompaction
<1>2. /\ Ordered(heap) /\ IsHeap(heap) /\ LiveInv /\ CallInv /\ TypeInv
      /\ \A b \in live : Holds(b.ptr, b.size) /\ b.ptr \in Nat /\ b.size \in Nat
      /\ \A n \in DOMAIN heap : heap[n].allocated => \E b \in live : b.ptr = NODE_TO_CONTENTS(n)
  BY <1>1, AtRest DEF HeapInv
<1>3. block.ptr \in Nat /\ node \in DOMAIN heap
  BY <1>2 DEF Holds
<1>4. /\ IsHeap(heap') /\ Ordered(heap')
      /\ DOMAIN heap' = DOMAIN heap
      /\ \A n \in DOMAIN heap : n # node => heap'[n] = heap[n]
      /\ ~ heap'[node].allocated
      /\ \A q \in Nat, s \in Nat : Holds(q, s) /\ q # block.ptr => Holds(q, s)'
  BY <1>1, <1>2, <1>3, Freed
<1>5. \A b \in live' : b \in live /\ b.ptr # block.ptr
  BY <1>1, <1>2 DEF LiveInv
<1>6. call'.op = "free" /\ call'.ptr = block.ptr /\ call' \in Calls
  BY <1>1, <1>3 DEF Calls
<1>7. CallInv'
  BY <1>1, <1>5, <1>6 DEF CallInv
<1>8. Owned' = live' /\ ~ NewlyAllocated'
  BY <1>6 DEF Owned, NewlyAllocated
<1>9. ASSUME NEW n \in DOMAIN heap', heap'[n].allocated
      PROVE  \E b \in live' : b.ptr = NODE_TO_CONTENTS(n)
  <2>1. n \in DOMAIN heap /\ n # node /\ heap[n].allocated
    BY <1>4, <1>9
  <2>2. PICK b \in live : b.ptr = NODE_TO_CONTENTS(n)
    BY <1>2, <2>1
  <2>3. b # block
    BY <1>2, <2>1, <2>2, Fields DEF NODE_TO_CONTENTS, CONTENTS_TO_NODE
  <2> QED BY <1>1, <2>2, <2>3
<1>10. IsFiniteSet(live')
  BY <1>1, <1>2, FS_RemoveElement DEF LiveInv
<1>11. \A b \in live' : Holds(b.ptr, b.size)'
  BY <1>2, <1>4, <1>5
<1>12. LiveInv'
  <2>1. live' \subseteq [ptr : Nat, size : Nat \ {0}]
        /\ \A b, c \in live' : b.ptr = c.ptr => b = c
    BY <1>1, <1>2 DEF LiveInv
  <2> QED BY <1>8, <1>9, <1>10, <1>11, <2>1 DEF LiveInv, NODE_TO_CONTENTS
<1>13. OldInv'
  BY <1>6 DEF OldInv
<1>14. calls' \in 0 .. MaxCalls
  BY <1>1, <1>2 DEF TypeInv
<1> QED BY <1>1, <1>4, <1>7, <1>12, <1>13, <1>14, CompactionStarts

LEMMA MoveFreesOldStep ==
  ASSUME HeapInv, MoveFreesOld
  PROVE  HeapInv'
<1> USE Constants
<1>1. /\ Compacted /\ pc = "compact" /\ call.op = "move"
      /\ heap' = [heap EXCEPT ![CONTENTS_TO_NODE(call.ptr)].allocated = FALSE]
      /\ call' = [call EXCEPT !.op = "moved"]
      /\ pc' = "compact" /\ iter' = root_node /\ UNCHANGED <<live, calls>>
  BY DEF MoveFreesOld, Compacted, StartCompaction
<1>2. IsHeap(heap) /\ Ordered(heap) /\ LiveInv /\ CallInv /\ calls \in 0 .. MaxCalls
  BY <1>1, CompactionEnds DEF HeapInv, TypeInv
<1>3. Owned = live /\ NewlyAllocated
  BY <1>1 DEF Owned, NewlyAllocated
<1>4. PICK old \in live : old.ptr = call.ptr
  BY <1>1, <1>2 DEF CallInv
<1>5. call.ptr \in Nat /\ call.new \in Nat /\ call.size \in Nat /\ call.size > 0
      /\ old.ptr \in Nat /\ old.size \in Nat /\ call \in Calls
  BY <1>1, <1>2 DEF CallInv, Calls, LiveInv
<1> DEFINE node == CONTENTS_TO_NODE(old.ptr)
<1>6. Holds(old.ptr, old.size) /\ node \in DOMAIN heap
      /\ heap[node].size >= old.size /\ call.new # old.ptr
  BY <1>2, <1>3 DEF LiveInv, Holds
<1>7. /\ IsHeap(heap') /\ Ordered(heap')
      /\ DOMAIN heap' = DOMAIN heap
      /\ \A n \in DOMAIN heap : n # node => heap'[n] = heap[n]
      /\ ~ heap'[node].allocated
      /\ \A q \in Nat, s \in Nat : Holds(q, s) /\ q # old.ptr => Holds(q, s)'
  BY <1>1, <1>2, <1>4, <1>5, <1>6, Freed
<1>8. /\ call' \in Calls /\ call'.op = "moved" /\ call'.ptr = call.ptr
      /\ call'.new = call.new /\ call'.size = call.size
  BY <1>1, <1>5 DEF Calls
<1>9. CallInv'
  BY <1>1, <1>4, <1>5, <1>8 DEF CallInv
<1>10. \A b \in live : b \in Owned' <=> b # old
  BY <1>1, <1>2, <1>4, <1>8 DEF Owned, LiveInv
<1>11. Owned' \subseteq live /\ NewlyAllocated'
  BY <1>1, <1>8 DEF Owned, NewlyAllocated
<1>12. ASSUME NEW b \in Owned' PROVE Holds(b.ptr, b.size)' /\ b.ptr # call.new
  <2>1. b \in live /\ b # old
    BY <1>10, <1>11
  <2>2. b.ptr # old.ptr /\ b.ptr \in Nat /\ b.size \in Nat /\ Holds(b.ptr, b.size)
        /\ b.ptr # call.new
    BY <1>2, <1>3, <2>1 DEF LiveInv
  <2> QED BY <1>7, <2>2
<1>13. PICK new \in Nat, size \in Nat : new = call.new /\ size = call.size
  BY <1>5
<1>14. Holds(new, size)'
  BY <1>2, <1>3, <1>6, <1>7, <1>13 DEF LiveInv
<1>15. ASSUME NEW n \in DOMAIN heap', heap'[n].allocated
       PROVE  (\E b \in Owned' : b.ptr = NODE_TO_CONTENTS(n)) \/ new = NODE_TO_CONTENTS(n)
  <2>1. n \in DOMAIN heap /\ n # node /\ heap[n].allocated
    BY <1>7, <1>15
  <2>2. CASE new = NODE_TO_CONTENTS(n)
    BY <2>2
  <2>3. CASE new # NODE_TO_CONTENTS(n)
    <3>1. PICK b \in live : b.ptr = NODE_TO_CONTENTS(n)
      BY <1>2, <1>3, <1>13, <2>1, <2>3 DEF LiveInv
    <3>2. b # old
      BY <1>2, <2>1, <3>1, Fields DEF NODE_TO_CONTENTS, CONTENTS_TO_NODE
    <3> QED BY <1>10, <3>1, <3>2
  <2> QED BY <2>2, <2>3
<1>16. LiveInv'
  <2>1. IsFiniteSet(live') /\ live' \subseteq [ptr : Nat, size : Nat \ {0}]
        /\ \A b, c \in live' : b.ptr = c.ptr => b = c
    BY <1>1, <1>2 DEF LiveInv
  <2>2. new = call'.new /\ size = call'.size
    BY <1>8, <1>13
  <2> QED BY <1>11, <1>12, <1>13, <1>14, <1>15, <2>1, <2>2
          DEF LiveInv, NODE_TO_CONTENTS, Holds, CONTENTS_TO_NODE
<1>17. OldInv'
  <2>1. ASSUME NEW b \in live, NEW n \in DOMAIN heap', b.ptr = call.ptr
        PROVE  \/ NODE_TO_CONTENTS(n)
                    + (IF heap'[n].allocated THEN heap'[n].size ELSE 0) <= b.ptr
               \/ b.ptr + b.size <= n
    <3>1. b = old /\ n \in DOMAIN heap
      BY <1>2, <1>4, <1>7, <2>1 DEF LiveInv
    <3>2. n \in Nat /\ node \in Nat /\ heap[n].size \in Nat /\ heap[node].size \in Nat
          /\ heap'[n].allocated \in BOOLEAN
      BY <1>2, <1>6, <1>7, <3>1, Fields
    <3>3. NODE_TO_CONTENTS(node) = old.ptr /\ node = old.ptr - HDR
      BY <1>5 DEF NODE_TO_CONTENTS, CONTENTS_TO_NODE
    <3> HIDE DEF node
    <3>4. CASE n = node
      BY <1>5, <1>7, <3>1, <3>3, <3>4
    <3>5. CASE n < node
      <4>1. heap'[n] = heap[n] /\ NODE_TO_CONTENTS(n) + heap[n].size <= node
        BY <1>2, <1>6, <1>7, <3>1, <3>2, <3>5, OrderedFacts
      <4> QED BY <1>5, <3>1, <3>2, <3>3, <4>1 DEF NODE_TO_CONTENTS
    <3>6. CASE n > node
      <4>1. NODE_TO_CONTENTS(node) + heap[node].size <= n
        BY <1>2, <1>6, <3>1, <3>2, <3>6, OrderedFacts
      <4> QED BY <1>5, <1>6, <3>1, <3>2, <3>3, <4>1 DEF NODE_TO_CONTENTS
    <3> QED BY <3>2, <3>4, <3>5, <3>6
  <2> QED BY <1>1, <1>8, <2>1 DEF OldInv, NODE_TO_CONTENTS
<1> QED BY <1>1, <1>2, <1>7, <1>9, <1>16, <1>17, CompactionStarts

\* A node was allocated, at the address new of its contents.
LEMMA Allocation ==
  ASSUME HeapInv, pc \in {"search", "search_aligned"}, NEW new \in Nat,
         IsHeap(heap'), Ordered(heap'),
         call' = [call EXCEPT !.new = new],
         pc' = "compact", iter' = root_node, UNCHANGED <<live, calls>>,
         \A n \in DOMAIN heap : heap[n].allocated =>
            n \in DOMAIN heap' /\ heap'[n] = heap[n] /\ n # CONTENTS_TO_NODE(new),
         \A n \in DOMAIN heap' :
            heap'[n].allocated /\ n # CONTENTS_TO_NODE(new) =>
               n \in DOMAIN heap /\ heap[n].allocated,
         CONTENTS_TO_NODE(new) \in DOMAIN heap',
         heap'[CONTENTS_TO_NODE(new)].allocated,
         heap'[CONTENTS_TO_NODE(new)].size >= call.size
  PROVE  HeapInv'
<1> USE Constants
<1>1. LiveInv /\ CallInv /\ TypeInv
  BY DEF HeapInv
<1>2. call.op \in {"alloc", "alloc_aligned", "move"} /\ call.size > 0 /\ call \in Calls
  BY <1>1 DEF CallInv
<1>3. /\ call' \in Calls /\ call'.op = call.op /\ call'.ptr = call.ptr
      /\ call'.new = new /\ call'.size = call.size
  BY <1>2 DEF Calls
<1>4. Owned = live /\ Owned' = live /\ ~ NewlyAllocated /\ NewlyAllocated'
  BY <1>2, <1>3 DEF Owned, NewlyAllocated
<1>5. CallInv'
  BY <1>1, <1>2, <1>3 DEF CallInv
<1>6. ASSUME NEW b \in live PROVE Holds(b.ptr, b.size)' /\ b.ptr # new
  <2> DEFINE n == CONTENTS_TO_NODE(b.ptr)
  <2>1. n \in DOMAIN heap /\ heap[n].allocated /\ heap[n].size >= b.size
    BY <1>1, <1>4 DEF LiveInv, Holds
  <2>2. n \in DOMAIN heap' /\ heap'[n] = heap[n] /\ n # CONTENTS_TO_NODE(new)
    BY <2>1
  <2> QED BY <2>1, <2>2 DEF Holds, CONTENTS_TO_NODE
<1>7. PICK size \in Nat : size = call.size
  BY <1>2 DEF Calls
<1>8. Holds(new, size)'
  BY <1>7 DEF Holds, CONTENTS_TO_NODE
<1>9. ASSUME NEW n \in DOMAIN heap', heap'[n].allocated
      PROVE  (\E b \in live : b.ptr = NODE_TO_CONTENTS(n)) \/ new = NODE_TO_CONTENTS(n)
  <2>1. CASE n = CONTENTS_TO_NODE(new)
    BY <2>1 DEF NODE_TO_CONTENTS, CONTENTS_TO_NODE
  <2>2. CASE n # CONTENTS_TO_NODE(new)
    BY <1>1, <1>4, <1>9, <2>2 DEF LiveInv
  <2> QED BY <2>1, <2>2
<1>10. LiveInv'
  <2>1. IsFiniteSet(live') /\ live' \subseteq [ptr : Nat, size : Nat \ {0}]
        /\ \A b, c \in live' : b.ptr = c.ptr => b = c
    BY <1>1 DEF LiveInv
  <2>2. new = call'.new /\ size = call'.size
    BY <1>3, <1>7
  <2> QED BY <1>4, <1>6, <1>8, <1>9, <2>1, <2>2
          DEF LiveInv, NODE_TO_CONTENTS, Holds, CONTENTS_TO_NODE
<1>11. OldInv'
  BY <1>2, <1>3 DEF OldInv
<1>12. calls' \in 0 .. MaxCalls
  BY <1>1 DEF TypeInv
<1> QED BY <1>5, <1>10, <1>11, <1>12, CompactionStarts

LEMMA AllocateStep ==
  ASSUME HeapInv, Allocate
  PROVE  HeapInv'
<1> USE Constants
<1> DEFINE size == call.size
           rec == [heap[iter] EXCEPT !.size = size, !.allocated = TRUE]
           h == [heap EXCEPT ![iter] = rec]
<1>1. /\ pc = "search" /\ iter # NULL /\ ~ heap[iter].allocated /\ heap[iter].size >= size
      /\ call' = [call EXCEPT !.new = NODE_TO_CONTENTS(iter)]
      /\ pc' = "compact" /\ iter' = root_node /\ UNCHANGED <<live, calls>>
  BY DEF Allocate, Suitable, StartCompaction
<1>2. heap' = consumeEmptySpace(h, iter)
  BY DEF Allocate
<1>3. IsHeap(heap) /\ iter \in DOMAIN heap /\ Ordered(heap) /\ SafeAlloc(size) /\ size \in Nat
  <2>1. TypeInv /\ CallInv /\ ListInv /\ SearchInv
    BY DEF HeapInv
  <2> QED BY <1>1, <2>1, OrderedOutside DEF TypeInv, CallInv, Calls, SearchInv
<1>4. iter \in Nat /\ iter > 0 /\ heap[iter].size \in Nat /\ heap[iter] \in Header
  BY <1>3, Fields DEF IsHeap
<1>5. heap[iter].next_node = NULL /\ NODE_TO_CONTENTS(iter) + size + HDR <= WordMod
  <2>1. iter \notin Holes
    BY <1>1, <1>3, <1>4 DEF SafeAlloc
  <2>2. iter \in FreeEnd
    BY <1>1, <1>3, <2>1 DEF Holes, FreeEnd
  <2> QED BY <1>3, <2>2 DEF SafeAlloc, FreeEnd
<1>6. IsSet(h, heap, iter, size, NULL, TRUE)
  <2>1. size \in 0 .. WordMod - 1
    BY <1>3, <1>4, <1>5 DEF NODE_TO_CONTENTS
  <2> HIDE DEF size
  <2>2. rec \in Header /\ rec.size = size /\ rec.next_node = NULL /\ rec.allocated = TRUE
    BY <1>4, <1>5, <2>1 DEF Header
  <2> HIDE DEF rec
  <2>3. IsSet(h, heap, iter, rec.size, rec.next_node, rec.allocated)
    BY <1>3, <2>2, Change
  <2> HIDE DEF h
  <2> QED BY <2>2, <2>3 DEF IsSet
<1> HIDE DEF rec, h, size
<1>7. IsHeap(h) /\ DOMAIN h = DOMAIN heap /\ h[iter].size = size /\ h[iter].next_node = NULL
      /\ h[iter].allocated /\ \A n \in DOMAIN heap \ {iter} : h[n] = heap[n]
  BY <1>3, <1>6 DEF IsSet
<1>8. Ordered(h)
  <2>1. ASSUME NEW n \in DOMAIN heap
        PROVE  /\ h[n].next_node = heap[n].next_node
               /\ heap[n].next_node # NULL => h[n].size <= heap[n].size
    <3>1. CASE n = iter
      BY <1>5, <1>7, <3>1
    <3>2. CASE n # iter
      BY <1>3, <1>7, <3>2, Fields
    <3> QED BY <3>1, <3>2
  <2> QED BY <1>3, <1>7, <2>1, Resized
<1>9. Consumed(heap', h, iter)
  BY <1>2, <1>3, <1>5, <1>7, <1>8, ConsumeLast
<1> DEFINE new == NODE_TO_CONTENTS(iter)
<1>10. CONTENTS_TO_NODE(new) = iter /\ new \in Nat
  BY <1>4 DEF NODE_TO_CONTENTS, CONTENTS_TO_NODE
<1>11. call' = [call EXCEPT !.new = new]
  BY <1>1
<1> HIDE DEF new
<1>12. /\ IsHeap(heap') /\ Ordered(heap')
       /\ \A n \in DOMAIN heap : heap[n].allocated =>
            n \in DOMAIN heap' /\ heap'[n] = heap[n] /\ n # iter
       /\ \A n \in DOMAIN heap' :
            heap'[n].allocated /\ n # iter => n \in DOMAIN heap /\ heap[n].allocated
       /\ iter \in DOMAIN heap' /\ heap'[iter].allocated /\ heap'[iter].size >= size
  <2>1. /\ IsHeap(heap') /\ Ordered(heap') /\ DOMAIN heap \subseteq DOMAIN heap'
        /\ \A n \in DOMAIN heap \ {iter} : heap'[n] = heap[n]
        /\ heap'[iter].allocated /\ heap'[iter].size >= size
        /\ \A n \in DOMAIN heap' \ DOMAIN heap : ~ heap'[n].allocated
    BY <1>7, <1>9 DEF Consumed
  <2> QED BY <1>1, <1>3, <2>1
<1> QED BY <1>1, <1>10, <1>11, <1>12, Allocation DEF size

LEMMA AllocateAlignedStep ==
  ASSUME HeapInv, AllocateAligned
  PROVE  HeapInv'
<1> USE Constants
<1> DEFINE size == call.size
           offset == Offset(iter, call.alignment)
           chosen == NODE_TO_CONTENTS(iter) + offset
           placed == createNode(heap, chosen, size, heap[iter].next_node, TRUE)
           h == Relinked(placed, iter, chosen - iter - HDR, chosen)
<1>1. /\ pc = "search_aligned" /\ iter # NULL
      /\ ~ heap[iter].allocated /\ heap[iter].size >= HDR + size
      /\ UNCHANGED <<live, calls>> /\ pc' = "compact" /\ iter' = root_node
  BY DEF AllocateAligned, SuitableAligned, Suitable, StartCompaction
<1>2. IsHeap(heap) /\ iter \in DOMAIN heap /\ Ordered(heap) /\ size \in Nat
      /\ SafeAligned(size, call.alignment) /\ call.alignment \in Nat \ {0}
  <2>1. TypeInv /\ CallInv /\ ListInv /\ SearchInv
    BY DEF HeapInv
  <2> QED BY <1>1, <2>1, OrderedOutside DEF TypeInv, CallInv, Calls, SearchInv
<1>3. iter \in Nat /\ iter > 0 /\ heap[iter].size \in Nat /\ heap[iter].allocated \in BOOLEAN
  BY <1>2, Fields
<1>4. offset \in 0 .. call.alignment - 1
  <2>1. PICK a \in Nat \ {0} : a = call.alignment
    BY <1>2
  <2>2. NODE_TO_CONTENTS(iter) % a \in 0 .. a - 1
    <3>1. NODE_TO_CONTENTS(iter) \in Int
      BY <1>3 DEF NODE_TO_CONTENTS
    <3> QED BY <3>1, DivMod
  <2>3. a - (NODE_TO_CONTENTS(iter) % a) \in Int
    BY <2>2
  <2>4. (a - (NODE_TO_CONTENTS(iter) % a)) % a \in 0 .. a - 1
    BY <2>3, DivMod
  <2> QED BY <2>1, <2>4 DEF Offset
<1>5. heap[iter].next_node = NULL
      /\ NODE_TO_CONTENTS(iter) + call.alignment + HDR + size + HDR <= WordMod
  <2>1. iter \notin Holes
    BY <1>1, <1>2, <1>3 DEF SafeAligned
  <2>2. iter \in FreeEnd
    BY <1>1, <1>2, <2>1 DEF Holes, FreeEnd
  <2> QED BY <1>2, <2>2 DEF SafeAligned, FreeEnd
<1> HIDE DEF offset, size
<1>6. chosen \in Nat \ {0} /\ chosen > iter /\ chosen \in 0 .. WordMod - 1
      /\ NODE_TO_CONTENTS(chosen) + size + HDR <= WordMod
      /\ chosen - iter - HDR \in 0 .. WordMod - 1 /\ size \in 0 .. WordMod - 1
      /\ NODE_TO_CONTENTS(iter) + (chosen - iter - HDR) = chosen
  BY <1>2, <1>3, <1>4, <1>5 DEF NODE_TO_CONTENTS
<1> DEFINE left == chosen - iter - HDR
<1>7. /\ heap' = consumeEmptySpace(h, chosen)
      /\ call' = [call EXCEPT !.new = NODE_TO_CONTENTS(chosen)]
  <2>1. Word(chosen) = chosen
    <3> HIDE DEF chosen
    <3> QED BY <1>6, WordRange
  <2> QED BY <2>1 DEF AllocateAligned, size, offset
<1> HIDE DEF chosen
<1>8. chosen \notin DOMAIN heap
  BY <1>2, <1>3, <1>5, <1>6, OrderedFacts, Fields
<1>9. IsSet(placed, heap, chosen, size, NULL, TRUE)
  BY <1>2, <1>5, <1>6, Creation
<1> HIDE DEF placed
<1>10. iter \in DOMAIN placed /\ placed[iter] = heap[iter] /\ IsHeap(placed)
  BY <1>2, <1>6, <1>9 DEF IsSet
<1>11. IsSet(h, placed, iter, left, chosen, placed[iter].allocated)
  <2>1. left \in 0 .. WordMod - 1 /\ chosen \in Nat
    BY <1>6
  <2>2. h = Relinked(placed, iter, left, chosen)
    OBVIOUS
  <2> HIDE DEF left, h
  <2> QED BY <1>10, <2>1, <2>2, Relinking
<1>12. NODE_TO_CONTENTS(iter) + left = chosen
  BY <1>6
<1> HIDE DEF h, left
<1>13. /\ IsHeap(h) /\ DOMAIN h = DOMAIN heap \union {chosen}
       /\ \A n \in DOMAIN heap \ {iter} : h[n] = heap[n]
       /\ h[iter].size = left /\ h[iter].next_node = chosen /\ ~ h[iter].allocated
       /\ h[chosen].size = size /\ h[chosen].next_node = NULL /\ h[chosen].allocated
  <2>1. iter # chosen
    BY <1>3, <1>6
  <2> QED BY <1>1, <1>2, <1>8, <1>9, <1>10, <1>11, <2>1 DEF IsSet
<1>14. Ordered(h)
  <2>1. NODE_TO_CONTENTS(iter) + h[iter].size <= chosen
    BY <1>6, <1>12, <1>13
  <2> QED BY <1>2, <1>5, <1>13, <2>1, Appended
<1>15. Consumed(heap', h, chosen)
  <2>1. chosen \in DOMAIN h /\ NODE_TO_CONTENTS(chosen) + h[chosen].size + HDR <= WordMod
    BY <1>6, <1>13
  <2> QED BY <1>7, <1>13, <1>14, <2>1, ConsumeLast
<1> DEFINE new == NODE_TO_CONTENTS(chosen)
<1>16. CONTENTS_TO_NODE(new) = chosen /\ new \in Nat /\ call' = [call EXCEPT !.new = new]
  BY <1>6, <1>7 DEF NODE_TO_CONTENTS, CONTENTS_TO_NODE
<1> HIDE DEF new
<1>17. /\ IsHeap(heap') /\ Ordered(heap')
       /\ \A n \in DOMAIN heap : heap[n].allocated =>
            n \in DOMAIN heap' /\ heap'[n] = heap[n] /\ n # chosen
       /\ \A n \in DOMAIN heap' :
            heap'[n].allocated /\ n # chosen => n \in DOMAIN heap /\ heap[n].allocated
       /\ chosen \in DOMAIN heap' /\ heap'[chosen].allocated /\ heap'[chosen].size >= size
  <2>1. /\ IsHeap(heap') /\ Ordered(heap') /\ DOMAIN h \subseteq DOMAIN heap'
        /\ \A n \in DOMAIN h \ {chosen} : heap'[n] = h[n]
        /\ heap'[chosen].allocated /\ heap'[chosen].size >= size
        /\ \A n \in DOMAIN heap' \ DOMAIN h : ~ heap'[n].allocated
    BY <1>13, <1>15 DEF Consumed
  <2>2. ASSUME NEW n \in DOMAIN heap, heap[n].allocated
        PROVE  n \in DOMAIN heap' /\ heap'[n] = heap[n] /\ n # chosen
    BY <1>1, <1>8, <1>13, <2>1, <2>2
  <2>3. ASSUME NEW n \in DOMAIN heap', heap'[n].allocated, n # chosen
        PROVE  n \in DOMAIN heap /\ heap[n].allocated
    <3>1. n \in DOMAIN heap /\ heap'[n] = h[n]
      BY <1>13, <2>1, <2>3
    <3>2. n # iter
      BY <1>13, <2>3, <3>1
    <3> QED BY <1>13, <2>3, <3>1, <3>2
  <2> QED BY <1>13, <2>1, <2>2, <2>3
<1> QED BY <1>1, <1>16, <1>17, Allocation DEF size

-----------------------------------------------------------------------------
(* The steps of kheapRealloc *)

\* A block and its node before a call.
LEMMA BlockNode ==
  ASSUME HeapInv, pc = "idle", NEW block \in live
  PROVE  LET node == CONTENTS_TO_NODE(block.ptr)
         IN  /\ node \in DOMAIN heap /\ heap[node].allocated
             /\ heap[node].size >= block.size
             /\ block.ptr \in Nat /\ block.size \in Nat \ {0}
             /\ block.ptr = NODE_TO_CONTENTS(node)
<1>1. Holds(block.ptr, block.size) /\ LiveInv /\ IsHeap(heap)
  BY AtRest DEF HeapInv
<1>2. block.ptr \in Nat /\ block.size \in Nat \ {0}
  BY <1>1 DEF LiveInv
<1> QED BY <1>1, <1>2, Constants DEF Holds, NODE_TO_CONTENTS, CONTENTS_TO_NODE

\* A block is given another size; the other nodes in use stay as they are.
LEMMA BlockResized ==
  ASSUME HeapInv, pc = "idle", NEW block \in live, NEW s \in Nat \ {0},
         live' = (live \ {block}) \union Block(block.ptr, s),
         call'.op # "moved", ~ NewlyAllocated',
         Holds(block.ptr, s)',
         \A n \in DOMAIN heap : heap[n].allocated /\ n # CONTENTS_TO_NODE(block.ptr) =>
            n \in DOMAIN heap' /\ heap'[n] = heap[n],
         \A n \in DOMAIN heap' : heap'[n].allocated =>
            n \in DOMAIN heap /\ heap[n].allocated
  PROVE  LiveInv' /\ OldInv'
<1> USE Constants
<1> DEFINE S == live \ {block}
<1>1. LiveInv /\ \A n \in DOMAIN heap :
                    heap[n].allocated => \E b \in live : b.ptr = NODE_TO_CONTENTS(n)
  BY AtRest DEF HeapInv
<1>2. PICK p \in Nat : p = block.ptr
  BY <1>1 DEF LiveInv
<1>3. ASSUME NEW b \in S PROVE b.ptr # p /\ Holds(b.ptr, b.size)'
  <2>1. b.ptr # p /\ b.ptr \in Nat /\ Holds(b.ptr, b.size)
    BY <1>1, <1>2, AtRest DEF LiveInv
  <2> DEFINE n == CONTENTS_TO_NODE(b.ptr)
  <2>2. n \in DOMAIN heap /\ heap[n].allocated /\ heap[n].size >= b.size
        /\ n # CONTENTS_TO_NODE(p)
    BY <2>1 DEF Holds, CONTENTS_TO_NODE
  <2>3. n \in DOMAIN heap' /\ heap'[n] = heap[n]
    BY <1>2, <2>2
  <2> QED BY <2>1, <2>2, <2>3 DEF Holds, CONTENTS_TO_NODE
<1>4. ASSUME NEW n \in DOMAIN heap', heap'[n].allocated
      PROVE  (\E b \in S : b.ptr = NODE_TO_CONTENTS(n)) \/ p = NODE_TO_CONTENTS(n)
  BY <1>1, <1>2, <1>4
<1>5. Holds(p, s)'
  BY <1>2 DEF Holds, CONTENTS_TO_NODE
<1>6. live' = S \union Block(p, s) /\ S \subseteq live
  BY <1>2
<1> HIDE DEF S
<1> QED BY <1>1, <1>3, <1>4, <1>5, <1>6, LiveReplaced

\* A reallocation that is over at once.
LEMMA StaysIdle ==
  ASSUME HeapInv, pc = "idle", pc' = "idle", UNCHANGED <<iter, call>>,
         calls < MaxCalls, calls' = calls + 1,
         IsHeap(heap'), Ordered(heap'), LiveInv', OldInv',
         \A n \in DOMAIN heap' : ~ (~ heap'[n].allocated /\ NextIsFree(n)')
  PROVE  HeapInv'
<1>1. call' = NoCall /\ iter' = NULL
  BY AtRest DEF HeapInv, CallInv
<1>2. CallInv'
  <2>1. NoCall \in Calls /\ NoCall.op = "none"
    BY Constants DEF NoCall, Calls
  <2> QED BY <1>1, <2>1 DEF CallInv
<1>3. TypeInv'
  BY <1>1, Constants DEF HeapInv, TypeInv
<1>4. ListInv' /\ CompactInv' /\ SearchInv'
  BY DEF ListInv, CompactInv, FullyCompacted, SearchInv
<1> QED BY <1>2, <1>3, <1>4 DEF HeapInv

LEMMA ReallocInPlaceStep ==
  ASSUME HeapInv, NEW block \in live, NEW size \in Nat \ {0}, ReallocInPlace(block, size)
  PROVE  HeapInv'
<1> DEFINE node == CONTENTS_TO_NODE(block.ptr)
<1>1. /\ pc = "idle" /\ pc' = "idle" /\ UNCHANGED <<heap, iter, call>>
      /\ calls < MaxCalls /\ calls' = calls + 1 /\ size <= heap[node].size
      /\ live' = (live \ {block}) \union Block(block.ptr, size)
  BY DEF ReallocInPlace
<1>2. node \in DOMAIN heap /\ heap[node].allocated
      /\ Ordered(heap) /\ IsHeap(heap) /\ call = NoCall
  BY <1>1, BlockNode, AtRest
<1>3. Holds(block.ptr, size)'
  <2>1. PICK p : p = block.ptr
    OBVIOUS
  <2>2. Holds(p, size)'
    <3>1. heap[node].size \in Nat
      BY <1>2, Fields
    <3> QED BY <1>1, <1>2, <2>1, <3>1 DEF Holds
  <2> QED BY <2>1, <2>2 DEF Holds, CONTENTS_TO_NODE
<1>4. call'.op # "moved" /\ ~ NewlyAllocated'
  BY <1>1, <1>2 DEF NewlyAllocated, NoCall
<1>5. LiveInv' /\ OldInv'
  BY <1>1, <1>3, <1>4, BlockResized
<1>6. \A n \in DOMAIN heap' : ~ (~ heap'[n].allocated /\ NextIsFree(n)')
  BY <1>1 DEF HeapInv, CompactInv, FullyCompacted, NextIsFree
<1> QED BY <1>1, <1>2, <1>5, <1>6, StaysIdle

\* What follows a block that can grow.
LEMMA Following ==
  ASSUME IsHeap(heap), Ordered(heap), NEW node \in DOMAIN heap, NEW size \in Nat \ {0},
         size <= PossibleSize(node)
  PROVE  LET next == heap[node].next_node
         IN  /\ NextIsFree(node)
             /\ next \in DOMAIN heap /\ next # NULL /\ next # node
             /\ ~ heap[next].allocated
             /\ Absorbed(node) = {next} /\ Behind(node) = heap[next].next_node
             /\ PossibleSize(node) \in 0 .. WordMod - 1
             /\ PossibleSize(node) <= HDR + heap[next].size
<1> USE Constants
<1> DEFINE next == heap[node].next_node
<1>1. NextIsFree(node)
  BY DEF PossibleSize
<1>2. next \in DOMAIN heap /\ next # NULL /\ ~ heap[next].allocated /\ node < next
  BY <1>1, OrderedFacts DEF NextIsFree, Ordered
<1>3. node \in Nat /\ heap[next].size \in Nat
  BY <1>2, Fields
<1>4. PossibleSize(node) = Word(HDR + heap[next].size)
  BY <1>1 DEF PossibleSize
<1>5. PossibleSize(node) \in 0 .. WordMod - 1 /\ PossibleSize(node) <= HDR + heap[next].size
  <2> DEFINE x == HDR + heap[next].size
  <2>1. x \in Nat /\ x \in Int
    BY <1>3
  <2>2. PossibleSize(node) = Word(x)
    BY <1>4
  <2> HIDE DEF x
  <2>3. PossibleSize(node) \in 0 .. WordMod - 1 /\ PossibleSize(node) <= x
    BY <2>1, <2>2, WordRange
  <2> QED BY <2>3 DEF x
<1>6. Absorbed(node) = {next} /\ Behind(node) = heap[next].next_node
  BY <1>1 DEF Absorbed, Behind
<1>7. next # node
  <2> HIDE DEF next
  <2> QED BY <1>2, <1>3
<1> QED BY <1>1, <1>2, <1>5, <1>6, <1>7

LEMMA ReallocConsumeStep ==
  ASSUME HeapInv, NEW block \in live, NEW size \in Nat \ {0}, ReallocConsume(block, size)
  PROVE  HeapInv'
<1> USE Constants
<1> DEFINE node == CONTENTS_TO_NODE(block.ptr)
           next == heap[node].next_node
           all == PossibleSize(node)
           h == Relinked(heap, node, all, Behind(node))
<1>1. /\ pc = "idle" /\ pc' = "idle" /\ UNCHANGED <<iter, call>>
      /\ calls < MaxCalls /\ calls' = calls + 1
      /\ size > heap[node].size /\ size <= all
      /\ heap' = Unlinked(h, Absorbed(node))
      /\ live' = (live \ {block}) \union Block(block.ptr, size)
  BY DEF ReallocConsume
<1>2. node \in DOMAIN heap /\ heap[node].allocated
      /\ Ordered(heap) /\ IsHeap(heap) /\ call = NoCall
  BY <1>1, BlockNode, AtRest
<1>3. /\ next \in DOMAIN heap /\ next # NULL /\ next # node /\ ~ heap[next].allocated
      /\ Absorbed(node) = {next} /\ Behind(node) = heap[next].next_node
      /\ all \in 0 .. WordMod - 1 /\ all <= HDR + heap[next].size
  <2> HIDE DEF node
  <2> QED BY <1>1, <1>2, Following
<1>4. /\ heap[node].size \in Nat /\ heap[next].size \in Nat /\ heap[next].next_node \in Nat
      /\ heap[node].allocated \in BOOLEAN
  BY <1>2, <1>3, Fields
<1>5. IsSet(h, heap, node, all, heap[next].next_node, heap[node].allocated)
  <2> HIDE DEF node, next, all
  <2> QED BY <1>2, <1>3, <1>4, Relinking
<1>6. heap[node].next_node = next
  OBVIOUS
<1> HIDE DEF h, all, node, next
<1>7. IsWithout(heap', h, {next})
  <2>1. IsHeap(h)
    BY <1>5 DEF IsSet
  <2> QED BY <1>1, <1>3, <2>1, Removal
<1>8. /\ IsHeap(heap') /\ DOMAIN heap' = DOMAIN heap \ {next}
      /\ \A n \in DOMAIN heap' \ {node} : heap'[n] = heap[n]
      /\ heap'[node].size = all /\ heap'[node].next_node = heap[next].next_node
      /\ heap'[node].allocated /\ node \in DOMAIN heap'
  BY <1>2, <1>3, <1>5, <1>7 DEF IsSet, IsWithout
<1>9. Ordered(heap')
  <2>1. heap'[node].size <= heap[node].size + HDR + heap[next].size
    BY <1>3, <1>4, <1>8
  <2>2. next = heap[node].next_node
    BY <1>6
  <2> QED BY <1>2, <1>3, <1>8, <2>1, <2>2, Swallow
<1>10. ASSUME NEW n \in DOMAIN heap', ~ heap'[n].allocated, NextIsFree(n)'
       PROVE  FALSE
  <2>1. n # node /\ n \in DOMAIN heap /\ heap'[n] = heap[n]
    BY <1>8, <1>10
  <2>2. heap[n].next_node # NULL /\ ~ heap'[heap[n].next_node].allocated
    BY <1>10, <2>1 DEF NextIsFree
  <2>3. heap[n].next_node \in DOMAIN heap'
    BY <1>9, <2>1, <2>2 DEF Ordered
  <2>4. ~ heap[heap[n].next_node].allocated
    BY <1>8, <2>2, <2>3
  <2> QED BY <1>1, <1>10, <2>1, <2>2, <2>4 DEF HeapInv, CompactInv, FullyCompacted, NextIsFree
<1>11. LiveInv' /\ OldInv'
  <2>1. call'.op # "moved" /\ ~ NewlyAllocated'
    BY <1>1, <1>2 DEF NewlyAllocated, NoCall
  <2>2. Holds(block.ptr, size)'
    <3>1. PICK p : p = block.ptr
      OBVIOUS
    <3>2. CONTENTS_TO_NODE(p) = node
      BY <3>1 DEF node
    <3>3. Holds(p, size)'
      BY <1>1, <1>8, <3>2 DEF Holds, CONTENTS_TO_NODE
    <3> QED BY <3>1, <3>3 DEF Holds, CONTENTS_TO_NODE
  <2>3. ASSUME NEW n \in DOMAIN heap, heap[n].allocated, n # node
        PROVE  n \in DOMAIN heap' /\ heap'[n] = heap[n]
    BY <1>3, <1>8, <2>3
  <2>4. ASSUME NEW n \in DOMAIN heap', heap'[n].allocated
        PROVE  n \in DOMAIN heap /\ heap[n].allocated
    BY <1>2, <1>8, <2>4
  <2> QED BY <1>1, <2>1, <2>2, <2>3, <2>4, BlockResized DEF node
<1> QED BY <1>1, <1>8, <1>9, <1>10, <1>11, StaysIdle

\* A node r for what is left is put behind a resized one.
IsSplit(g, h, node, size, r, next) ==
  /\ IsHeap(g) /\ DOMAIN g = DOMAIN h \union {r}
  /\ g[node].size = size /\ g[node].next_node = r /\ g[node].allocated = h[node].allocated
  /\ g[r].next_node = next /\ ~ g[r].allocated
  /\ \A n \in DOMAIN h \ {node} : g[n] = h[n]

\* Where the remainder goes when that is below the end of the address space.
LEMMA RemainderPlace ==
  ASSUME NEW node \in Nat, NEW size \in Nat \ {0},
         NODE_TO_CONTENTS(node) + size * HDR + HDR <= WordMod
  PROVE  /\ Remainder(node, size) = NODE_TO_CONTENTS(node) + size * HDR
         /\ Remainder(node, size) \in Nat \ {0}
         /\ NODE_TO_CONTENTS(node) + size <= Remainder(node, size)
         /\ NODE_TO_CONTENTS(node) < Remainder(node, size)
<1> USE Constants
<1> DEFINE prod == size * HDR
<1>1. prod \in Nat /\ prod >= size
  BY Product
<1>2. Remainder(node, size) = Word(NODE_TO_CONTENTS(node) + prod)
  BY DEF Remainder
<1>3. NODE_TO_CONTENTS(node) + prod + HDR <= WordMod
  OBVIOUS
<1> HIDE DEF prod
<1> DEFINE x == NODE_TO_CONTENTS(node) + prod
<1>4. x \in 0 .. WordMod - 1 /\ x \in Int
  BY <1>1, <1>3 DEF NODE_TO_CONTENTS
<1>5. Word(x) = x
  <2> HIDE DEF x
  <2> QED BY <1>4, WordRange
<1>6. Remainder(node, size) = NODE_TO_CONTENTS(node) + prod
  BY <1>2, <1>5
<1>7. NODE_TO_CONTENTS(node) + prod \in Nat \ {0}
      /\ NODE_TO_CONTENTS(node) + size <= NODE_TO_CONTENTS(node) + prod
      /\ NODE_TO_CONTENTS(node) < NODE_TO_CONTENTS(node) + prod
  BY <1>1 DEF NODE_TO_CONTENTS
<1> QED BY <1>6, <1>7 DEF prod

LEMMA Splitting ==
  ASSUME NEW h, IsHeap(h), NEW node \in DOMAIN h, NEW size \in 0 .. WordMod - 1,
         NEW left \in 0 .. WordMod - 1, left > HDR, NEW next \in Nat,
         Remainder(node, size) \in Nat \ {0}, Remainder(node, size) \notin DOMAIN h
  PROVE  IsSplit(SplitOff(h, node, size, left, next), h, node, size,
                 Remainder(node, size), next)
<1> USE Constants
<1> DEFINE r == Remainder(node, size)
           c == createNode(h, r, left - HDR, next, FALSE)
           g == Relinked(c, node, size, r)
<1>1. SplitOff(h, node, size, left, next) = g
  BY DEF SplitOff
<1>2. r \in Nat \ {0} /\ r \notin DOMAIN h /\ left - HDR \in 0 .. WordMod - 1
  OBVIOUS
<1> HIDE DEF r
<1>3. IsSet(c, h, r, left - HDR, next, FALSE)
  BY <1>2, Creation
<1> HIDE DEF c
<1>4. IsHeap(c) /\ node \in DOMAIN c /\ c[node] = h[node] /\ node # r
  BY <1>2, <1>3 DEF IsSet
<1>5. IsSet(g, c, node, size, r, c[node].allocated)
  BY <1>2, <1>4, Relinking
<1> HIDE DEF g
<1>6. IsSplit(g, h, node, size, r, next)
  BY <1>2, <1>3, <1>4, <1>5 DEF IsSet, IsSplit
<1> QED BY <1>1, <1>6 DEF r

\* The nodes of a list are in front of its end, and those behind a node behind the
\* next one.
LEMMA LastFacts ==
  ASSUME IsHeap(heap), Ordered(heap), NEW node \in DOMAIN heap,
         LastIsFree(node), NEW last, last = heap[node].next_node
  PROVE  /\ last \in DOMAIN heap /\ last # NULL /\ last # node /\ node < last
         /\ ~ heap[last].allocated /\ heap[last].next_node = NULL
         /\ \A n \in DOMAIN heap \ {last} :
              n <= node /\ NODE_TO_CONTENTS(n) + heap[n].size <= last
<1> USE Constants
<1>1. last \in DOMAIN heap /\ ~ heap[last].allocated /\ heap[last].next_node = NULL
  BY DEF LastIsFree, FreeEnd
<1>2. last # NULL /\ last \in Nat /\ node \in Nat
  BY <1>1, Fields
<1>3. node < last
  BY <1>2, OrderedFacts
<1>4. ASSUME NEW n \in DOMAIN heap, n # last
      PROVE  n <= node /\ NODE_TO_CONTENTS(n) + heap[n].size <= last
  <2>1. n <= last /\ n \in Nat
    BY <1>1, <1>4, OrderedFacts, Fields
  <2>2. n < last
    BY <1>2, <1>4, <2>1
  <2>3. NODE_TO_CONTENTS(n) + heap[n].size <= last
    BY <1>1, <2>2, OrderedFacts
  <2>4. node < n => last <= n
    BY DEF Ordered
  <2> QED BY <1>2, <2>1, <2>2, <2>3, <2>4
<1> QED BY <1>1, <1>2, <1>3, <1>4

LEMMA ReallocGrowStep ==
  ASSUME HeapInv, Careful, NEW block \in live, NEW size \in Nat \ {0},
         ReallocGrow(block, size)
  PROVE  HeapInv'
<1> USE Constants
<1> DEFINE node == CONTENTS_TO_NODE(block.ptr)
           last == heap[node].next_node
           r == Remainder(node, size)
           left == PossibleSize(node) - size
           h == Unlinked(heap, Absorbed(node))
<1>1. /\ pc = "idle" /\ calls < MaxCalls /\ calls' = calls + 1
      /\ call' = [op |-> "resize", size |-> size, alignment |-> 1, ptr |-> block.ptr,
                  new |-> NULL]
      /\ size > heap[node].size /\ size <= PossibleSize(node)
      /\ PossibleSize(node) - size > HDR
      /\ SafeResize(node, size)
      /\ heap' = SplitOff(h, node, size, left, Behind(node))
      /\ pc' = "compact" /\ iter' = root_node /\ live' = live
  BY DEF ReallocGrow, Enter, StartCompaction
<1>2. /\ node \in DOMAIN heap /\ heap[node].allocated /\ heap[node].size >= block.size
      /\ block.ptr \in Nat /\ block.size \in Nat \ {0} /\ block.ptr = NODE_TO_CONTENTS(node)
      /\ Ordered(heap) /\ IsHeap(heap) /\ call = NoCall
  BY <1>1, BlockNode, AtRest
<1>3. /\ Absorbed(node) = {last} /\ Behind(node) = heap[last].next_node
      /\ PossibleSize(node) \in 0 .. WordMod - 1
  <2> HIDE DEF node
  <2> QED BY <1>1, <1>2, Following
<1>4. LastIsFree(node) /\ NODE_TO_CONTENTS(node) + size * HDR + HDR <= WordMod
  BY <1>1 DEF SafeResize
<1>5. last = heap[node].next_node
  OBVIOUS
<1> HIDE DEF node, last
<1>6. /\ last \in DOMAIN heap /\ last # NULL /\ last # node /\ node < last
      /\ ~ heap[last].allocated /\ heap[last].next_node = NULL
      /\ \A n \in DOMAIN heap \ {last} :
           n <= node /\ NODE_TO_CONTENTS(n) + heap[n].size <= last
  BY <1>2, <1>4, <1>5, LastFacts
<1>7. node \in Nat /\ heap[node].size \in Nat
  BY <1>2, Fields
<1>8. r \in Nat \ {0} /\ NODE_TO_CONTENTS(node) + size <= r /\ node < r
  <2>1. r \in Nat \ {0} /\ NODE_TO_CONTENTS(node) + size <= r
    BY <1>4, <1>7, RemainderPlace
  <2> HIDE DEF r
  <2> QED BY <1>7, <2>1 DEF NODE_TO_CONTENTS
<1>9. /\ IsHeap(h) /\ DOMAIN h = DOMAIN heap \ {last} /\ \A n \in DOMAIN h : h[n] = heap[n]
  <2>1. IsWithout(h, heap, Absorbed(node))
    BY <1>2, Removal
  <2> HIDE DEF h
  <2> QED BY <1>3, <2>1 DEF IsWithout
<1>10. r \notin DOMAIN h
  BY <1>6, <1>7, <1>8, <1>9
<1>11. IsSplit(heap', h, node, size, r, NULL)
  <2>1. node \in DOMAIN h
    BY <1>2, <1>6, <1>9
  <2>2. left \in 0 .. WordMod - 1 /\ left > HDR /\ size \in 0 .. WordMod - 1
    <3> HIDE DEF h
    <3> QED BY <1>1, <1>3
  <2>3. heap' = SplitOff(h, node, size, left, NULL)
    BY <1>1, <1>3, <1>6
  <2>4. Remainder(node, size) \in Nat \ {0} /\ Remainder(node, size) \notin DOMAIN h
    BY <1>8, <1>10
  <2> HIDE DEF h, left
  <2>5. IsSplit(SplitOff(h, node, size, left, NULL), h, node, size,
                Remainder(node, size), NULL)
    BY <1>9, <2>1, <2>2, <2>4, Splitting
  <2> QED BY <2>3, <2>5
<1> HIDE DEF h, left, r
<1>12. /\ IsHeap(heap') /\ DOMAIN heap' = (DOMAIN heap \ {last}) \union {r}
       /\ \A n \in DOMAIN heap \ {node, last} : heap'[n] = heap[n]
       /\ heap'[node].size = size /\ heap'[node].next_node = r /\ heap'[node].allocated
       /\ heap'[r].next_node = NULL /\ ~ heap'[r].allocated
  BY <1>2, <1>6, <1>9, <1>11 DEF IsSplit
<1>13. Ordered(heap')
  <2>1. NODE_TO_CONTENTS(node) + heap'[node].size <= r
    BY <1>8, <1>12
  <2> QED BY <1>2, <1>5, <1>6, <1>12, <2>1, ReplaceEnd
<1>14. call'.op = "resize" /\ call'.size = size /\ call'.ptr = block.ptr /\ call' \in Calls
  BY <1>1, <1>2 DEF Calls
<1>15. ~ NewlyAllocated' /\ call'.op # "moved"
  BY <1>14 DEF NewlyAllocated
<1>16. PICK p \in Nat : p = block.ptr
  BY <1>2
<1>17. CONTENTS_TO_NODE(p) = node
  BY <1>16 DEF node
<1>18. Holds(p, size)' /\ Holds(p, block.size)'
  <2>1. node \in DOMAIN heap' /\ heap'[node].allocated
    BY <1>2, <1>6, <1>12
  <2>2. heap'[node].size >= size /\ heap'[node].size >= block.size
    BY <1>1, <1>2, <1>7, <1>12
  <2> QED BY <1>17, <2>1, <2>2 DEF Holds, CONTENTS_TO_NODE
<1>19. LiveInv' /\ OldInv'
  <2>1. live' = (live \ {block}) \union Block(block.ptr, block.size)
    <3>1. block = [ptr |-> block.ptr, size |-> block.size]
      BY DEF HeapInv, LiveInv
    <3> QED BY <1>1, <3>1 DEF Block
  <2>2. Holds(block.ptr, block.size)'
    BY <1>16, <1>18 DEF Holds, CONTENTS_TO_NODE
  <2>3. ASSUME NEW n \in DOMAIN heap, heap[n].allocated, n # node
        PROVE  n \in DOMAIN heap' /\ heap'[n] = heap[n]
    BY <1>6, <1>12, <2>3
  <2>4. ASSUME NEW n \in DOMAIN heap', heap'[n].allocated
        PROVE  n \in DOMAIN heap /\ heap[n].allocated
    BY <1>2, <1>12, <2>4
  <2> QED BY <1>1, <1>2, <1>15, <2>1, <2>2, <2>3, <2>4, BlockResized DEF node
<1>20. CallInv'
  <2>1. \E b \in live' : b.ptr = call'.ptr
    BY <1>1, <1>14
  <2>2. Holds(call.ptr, call.size)'
    BY <1>14, <1>16, <1>18 DEF Holds, CONTENTS_TO_NODE
  <2> QED BY <1>1, <1>14, <2>1, <2>2 DEF CallInv
<1>21. calls' \in 0 .. MaxCalls
  BY <1>1 DEF HeapInv, TypeInv
<1> QED BY <1>1, <1>12, <1>13, <1>19, <1>20, <1>21, CompactionStarts

LEMMA ReallocShrinkStep ==
  ASSUME HeapInv, Careful, NEW block \in live, NEW size \in Nat \ {0},
         ReallocShrink(block, size)
  PROVE  HeapInv'
<1> USE Constants
<1> DEFINE node == CONTENTS_TO_NODE(block.ptr)
           last == heap[node].next_node
           r == Remainder(node, size)
           left == heap[node].size - size
<1>1. /\ pc = "idle" /\ calls < MaxCalls /\ calls' = calls + 1
      /\ call' = [op |-> "resize", size |-> size, alignment |-> 1, ptr |-> block.ptr,
                  new |-> NULL]
      /\ size < heap[node].size /\ heap[node].size - size > HDR
      /\ SafeResize(node, size)
      /\ heap' = SplitOff(heap, node, size, left, last)
      /\ pc' = "compact" /\ iter' = root_node
      /\ live' = (live \ {block}) \union Block(block.ptr, size)
  BY DEF ReallocShrink, Enter, StartCompaction
<1>2. /\ node \in DOMAIN heap /\ heap[node].allocated
      /\ block.ptr \in Nat /\ block.ptr = NODE_TO_CONTENTS(node)
      /\ Ordered(heap) /\ IsHeap(heap) /\ call = NoCall
  BY <1>1, BlockNode, AtRest
<1>3. LastIsFree(node) /\ NODE_TO_CONTENTS(node) + size * HDR + HDR <= WordMod
      /\ (r + HDR <= last \/ last + HDR <= r)
  BY <1>1 DEF SafeResize
<1>4. last = heap[node].next_node
  OBVIOUS
<1> HIDE DEF node, last
<1>5. /\ last \in DOMAIN heap /\ last # NULL /\ last # node /\ node < last
      /\ ~ heap[last].allocated /\ heap[last].next_node = NULL
      /\ \A n \in DOMAIN heap \ {last} :
           n <= node /\ NODE_TO_CONTENTS(n) + heap[n].size <= last
  BY <1>2, <1>3, <1>4, LastFacts
<1>6. node \in Nat /\ heap[node].size \in 0 .. WordMod - 1 /\ last \in Nat
  BY <1>2, <1>5, Fields
<1>7. r \in Nat \ {0} /\ NODE_TO_CONTENTS(node) + size <= r /\ node < r
  <2>1. r \in Nat \ {0} /\ NODE_TO_CONTENTS(node) + size <= r
    BY <1>3, <1>6, RemainderPlace
  <2> HIDE DEF r
  <2> QED BY <1>6, <2>1 DEF NODE_TO_CONTENTS
<1>8. r # last
  <2> HIDE DEF r
  <2> QED BY <1>3, <1>6, <1>7
<1>9. r \notin DOMAIN heap
  <2> HIDE DEF r
  <2> QED BY <1>5, <1>6, <1>7, <1>8
<1>10. IsSplit(heap', heap, node, size, r, last)
  <2>1. left \in 0 .. WordMod - 1 /\ left > HDR /\ size \in 0 .. WordMod - 1
    BY <1>1, <1>6
  <2> HIDE DEF left
  <2>2. IsSplit(SplitOff(heap, node, size, left, last), heap, node, size,
                Remainder(node, size), last)
    BY <1>2, <1>6, <1>7, <1>9, <2>1, Splitting
  <2> QED BY <1>1, <2>2
<1> HIDE DEF left, r
<1>11. /\ IsHeap(heap') /\ DOMAIN heap' = DOMAIN heap \union {r}
       /\ \A n \in DOMAIN heap \ {node} : heap'[n] = heap[n]
       /\ heap'[node].size = size /\ heap'[node].next_node = r /\ heap'[node].allocated
       /\ heap'[r].next_node = last /\ ~ heap'[r].allocated
  BY <1>2, <1>10 DEF IsSplit
<1>12. call'.op = "resize" /\ call'.size = size /\ call'.ptr = block.ptr /\ call' \in Calls
  BY <1>1, <1>2 DEF Calls
<1>13. ~ NewlyAllocated' /\ call'.op # "moved"
  BY <1>12 DEF NewlyAllocated
<1>14. PICK p \in Nat : p = block.ptr
  BY <1>2
<1>15. CONTENTS_TO_NODE(p) = node
  BY <1>14 DEF node
<1>16. Holds(p, size)'
  BY <1>2, <1>11, <1>15 DEF Holds, CONTENTS_TO_NODE
<1>17. LiveInv' /\ OldInv'
  <2>1. Holds(block.ptr, size)'
    BY <1>14, <1>16 DEF Holds, CONTENTS_TO_NODE
  <2>2. ASSUME NEW n \in DOMAIN heap, heap[n].allocated, n # node
        PROVE  n \in DOMAIN heap' /\ heap'[n] = heap[n]
    BY <1>11, <2>2
  <2>3. ASSUME NEW n \in DOMAIN heap', heap'[n].allocated
        PROVE  n \in DOMAIN heap /\ heap[n].allocated
    BY <1>2, <1>11, <2>3
  <2> QED BY <1>1, <1>13, <2>1, <2>2, <2>3, BlockResized DEF node
<1>18. CallInv'
  <2>1. \E b \in live' : b.ptr = call'.ptr
    <3>1. [ptr |-> block.ptr, size |-> size] \in live'
      BY <1>1 DEF Block
    <3>2. [ptr |-> block.ptr, size |-> size].ptr = call'.ptr
      BY <1>12
    <3> QED BY <3>1, <3>2
  <2>2. Holds(call.ptr, call.size)'
    BY <1>12, <1>14, <1>16 DEF Holds, CONTENTS_TO_NODE
  <2> QED BY <1>1, <1>12, <2>1, <2>2 DEF CallInv
<1>19. root_node \in DOMAIN heap /\ root_node <= node /\ \A n \in DOMAIN heap' : root_node <= n
  <2>1. root_node \in DOMAIN heap /\ root_node <= node
        /\ \A n \in DOMAIN heap : root_node <= n
    BY <1>2 DEF Ordered
  <2> QED BY <1>6, <1>7, <1>11, <2>1
<1>20. Ordered(Body(heap', r, last))
  <2> DEFINE b == Body(heap', r, last)
  <2>1. IsBody(b, heap', r, last)
    <3>1. r \in DOMAIN heap' /\ last \in DOMAIN heap'
      BY <1>5, <1>11
    <3> QED BY <1>8, <1>11, <3>1, BodyFacts
  <2> HIDE DEF b
  <2>2. /\ IsHeap(b) /\ DOMAIN b = (DOMAIN heap \ {last}) \union {r}
        /\ \A n \in DOMAIN heap \ {node, last} : b[n] = heap[n]
        /\ b[node].size = size /\ b[node].next_node = r /\ b[r].next_node = NULL
    <3>1. IsHeap(b) /\ DOMAIN b = (DOMAIN heap \ {last}) \union {r} /\ b[r].next_node = NULL
      BY <1>8, <1>11, <2>1 DEF IsBody
    <3>2. \A n \in DOMAIN heap \ {last} : b[n] = heap'[n]
      BY <1>9, <1>11, <2>1 DEF IsBody
    <3> QED BY <1>2, <1>5, <1>11, <3>1, <3>2
  <2>3. NODE_TO_CONTENTS(node) + b[node].size <= r
    BY <1>7, <2>2
  <2>4. Ordered(b)
    BY <1>2, <1>4, <1>5, <2>2, <2>3, ReplaceEnd
  <2> QED BY <2>4 DEF b
<1>21. ASSUME NEW n \in DOMAIN heap' \ {r, last}
       PROVE  NODE_TO_CONTENTS(n) + heap'[n].size <= last
  <2>1. CASE n = node
    <3>1. NODE_TO_CONTENTS(node) + heap[node].size <= last
      BY <1>2, <1>5
    <3> QED BY <1>1, <1>6, <1>11, <2>1, <3>1 DEF NODE_TO_CONTENTS, node
  <2>2. CASE n # node
    BY <1>5, <1>11, <2>2
  <2> QED BY <2>1, <2>2
<1>22. ASSUME NEW n \in DOMAIN heap' \ {r}, ~ heap'[n].allocated, NextIsFree(n)'
       PROVE  FALSE
  <2>1. n # node /\ n \in DOMAIN heap /\ heap'[n] = heap[n]
    BY <1>11, <1>22
  <2>2. heap[n].next_node # NULL /\ ~ heap'[heap[n].next_node].allocated
    BY <1>22, <2>1 DEF NextIsFree
  <2>3. heap[n].next_node \in DOMAIN heap
    BY <1>2, <2>1, <2>2 DEF Ordered
  <2>4. ~ heap[heap[n].next_node].allocated
    BY <1>11, <2>2, <2>3
  <2> QED BY <1>1, <1>22, <2>1, <2>2, <2>4 DEF HeapInv, CompactInv, FullyCompacted, NextIsFree
<1>23. PICK a \in Nat, z \in Nat : a = r /\ z = last
  BY <1>6, <1>7
<1>24. Pending(a, z)'
  <2>1. root_node # last /\ heap'[last] = heap[last]
    BY <1>5, <1>6, <1>11, <1>19
  <2>2. /\ pc' = "compact" /\ call'.op = "resize"
        /\ a # z /\ iter' # z
        /\ heap'[a].next_node = z /\ heap'[z].next_node = NULL
        /\ ~ heap'[a].allocated /\ ~ heap'[z].allocated
    BY <1>1, <1>5, <1>8, <1>11, <1>12, <1>23, <2>1
  <2>3. Ordered(Body(heap', a, z))
    BY <1>20, <1>23
  <2>4. a + HDR <= z \/ z + HDR <= a
    BY <1>3, <1>23
  <2>5. \A n \in DOMAIN heap' \ {a, z} : NODE_TO_CONTENTS(n) + heap'[n].size <= z
    BY <1>21, <1>23
  <2>6. \A n \in DOMAIN heap' \ {a} : ~ (~ heap'[n].allocated /\ NextIsFree(n)')
    BY <1>22, <1>23
  <2> QED BY <2>2, <2>3, <2>4, <2>5, <2>6 DEF Pending
<1>25. TypeInv'
  BY <1>1, <1>11, <1>19 DEF HeapInv, TypeInv
<1>26. ListInv'
  <2>1. a \in DOMAIN heap' /\ z \in DOMAIN heap'
    BY <1>5, <1>11, <1>23
  <2> QED BY <1>24, <2>1 DEF ListInv
<1>27. CompactInv' /\ SearchInv'
  <2>1. \A n \in DOMAIN heap' : ~ (n < root_node)
    BY <1>11, <1>19, Fields
  <2> QED BY <1>1, <1>11, <1>19, <2>1 DEF CompactInv, FullyCompacted, SearchInv
<1> QED BY <1>17, <1>18, <1>25, <1>26, <1>27 DEF HeapInv

-----------------------------------------------------------------------------
(* The theorems *)

LEMMA InsideStep == HeapInv /\ Inside => HeapInv'
<1> SUFFICES ASSUME HeapInv, Inside PROVE HeapInv'
  OBVIOUS
<1>1. CASE SearchNext \/ SearchAlignedNext
  BY <1>1, SearchNextStep
<1>2. CASE OutOfSpace
  BY <1>2, OutOfSpaceStep
<1>3. CASE Allocate
  BY <1>3, AllocateStep
<1>4. CASE AllocateAligned
  BY <1>4, AllocateAlignedStep
<1>5. CASE CompactMerge
  BY <1>5, CompactMergeStep
<1>6. CASE CompactNext
  BY <1>6, CompactNextStep
<1>7. CASE FreeDone \/ AllocDone \/ ResizeDone \/ MoveDone
  BY <1>7, DoneSteps
<1>8. CASE MoveFreesOld
  BY <1>8, MoveFreesOldStep
<1> QED BY <1>1, <1>2, <1>3, <1>4, <1>5, <1>6, <1>7, <1>8 DEF Inside

LEMMA kheapReallocStep ==
  ASSUME HeapInv, Careful, NEW block \in live, NEW size \in Sizes \union {0},
         kheapRealloc(block, size)
  PROVE  HeapInv'
<1>1. CASE size = 0 /\ kheapFree(block)
  BY <1>1, kheapFreeStep
<1>2. ASSUME size > 0 PROVE size \in Sizes /\ size \in Nat \ {0}
  BY <1>2, HeapAssumption
<1>3. CASE size > 0 /\ ReallocInPlace(block, size)
  BY <1>2, <1>3, ReallocInPlaceStep
<1>4. CASE size > 0 /\ ReallocShrink(block, size)
  BY <1>2, <1>4, ReallocShrinkStep
<1>5. CASE size > 0 /\ ReallocGrow(block, size)
  BY <1>2, <1>5, ReallocGrowStep
<1>6. CASE size > 0 /\ ReallocConsume(block, size)
  BY <1>2, <1>6, ReallocConsumeStep
<1>7. CASE size > 0 /\ ReallocMove(block, size)
  BY <1>2, <1>7, ReallocMoveStep
<1> QED BY <1>1, <1>3, <1>4, <1>5, <1>6, <1>7 DEF kheapRealloc

LEMMA CallerStep ==
  ASSUME HeapInv, Careful, Caller
  PROVE  HeapInv'
<1>1. CASE \E size \in Sizes : kheapAlloc(size)
  BY <1>1, kheapAllocStep
<1>2. CASE \E size \in Sizes, alignment \in Alignments : kheapAlignedAlloc(size, alignment)
  BY <1>2, kheapAlignedAllocStep
<1>3. CASE \E block \in live : kheapFree(block)
  BY <1>3, kheapFreeStep
<1>4. CASE \E block \in live, size \in Sizes \union {0} : kheapRealloc(block, size)
  BY <1>4, kheapReallocStep
<1> QED BY <1>1, <1>2, <1>3, <1>4 DEF Caller

\* Between two steps nothing changes.
LEMMA StutteringStep == HeapInv /\ UNCHANGED vars => HeapInv'
<1> SUFFICES ASSUME HeapInv, UNCHANGED <<heap, live, pc, iter, call, calls>> PROVE HeapInv'
  BY DEF vars
<1>1. TypeInv' /\ CallInv'
  BY DEF HeapInv, TypeInv, CallInv, Holds
<1>2. ListInv'
  BY DEF HeapInv, ListInv, Pending, NextIsFree
<1>3. CompactInv' /\ SearchInv'
  BY DEF HeapInv, CompactInv, FullyCompacted, NextIsFree, SearchInv, SafeAlloc, SafeAligned,
         Holes, FreeEnd
<1>4. LiveInv' /\ OldInv'
  BY DEF HeapInv, LiveInv, OldInv, Owned, NewlyAllocated, Holds
<1> QED BY <1>1, <1>2, <1>3, <1>4 DEF HeapInv

\* For careful callers the list stays well formed: each call, and each turn of the
\* loops of kheap.c, leaves the headers in order, or a shrunk block's remainder
\* beside the free end that compactHeap will merge it with.
THEOREM WellFormed == ASSUME Careful PROVE Spec => []HeapInv
<1>1. HeapInv /\ [Next]_vars => HeapInv'
  <2> SUFFICES ASSUME HeapInv, [Next]_vars PROVE HeapInv'
    OBVIOUS
  <2>1. CASE kheapInit
    BY <2>1, kheapInitStep
  <2>2. CASE Caller
    BY <2>2, CallerStep
  <2>3. CASE Inside
    BY <2>3, InsideStep
  <2>4. CASE UNCHANGED vars
    BY <2>4, StutteringStep
  <2> QED BY <2>1, <2>2, <2>3, <2>4 DEF Next
<1> QED BY <1>1, InitInv, PTL DEF Spec

\* Every next_node leads to a header of the list or is NULL, sizes are words, and
\* the loop variable of kheap.c points at a header or is NULL.
THEOREM Types == ASSUME Careful PROVE Spec => []TypeOK
BY WellFormed, InvTypeOK, PTL

\* When kheapAlloc, kheapAlignedAlloc, kheapFree or kheapRealloc returns, no node
\* manages bytes that belong to the next one: consumeEmptySpace, and the split
\* behind a resized block, hand out the space between two nodes once.
THEOREM DisjointExtents == ASSUME Careful PROVE Spec => []ExtentsDisjoint
BY WellFormed, InvExtentsDisjoint, PTL

\* At every step inside a call, too, blocks in use share no byte with one another
\* or with a header, the old and the new block of a kheapRealloc that moves
\* included, and no header is written across another.
THEOREM DisjointBytes == ASSUME Careful PROVE Spec => []BytesDisjoint
BY WellFormed, InvBytesDisjoint, PTL

\* When a call returns, each block in use has an allocated header in front of it,
\* with at least the size asked for, and no other header is allocated: no function
\* of kheap.c loses the header of a block, or leaks one it has taken.
THEOREM AllocatedLive == ASSUME Careful PROVE Spec => []LiveAllocated
BY WellFormed, InvLiveAllocated, PTL

\* When a call returns, no two neighbouring headers are free: the one pass of
\* compactHeap is enough, and the loop of kheapRealloc over the free nodes behind a
\* block makes one turn at most.
THEOREM Compact == ASSUME Careful PROVE Spec => []FullyCompacted
<1>1. HeapInv => FullyCompacted
  BY DEF HeapInv, CompactInv
<1> QED BY <1>1, WellFormed, PTL

-----------------------------------------------------------------------------
(* What callers rely on *)

LEMMA DisjointAfterwards == HeapInv' => BytesDisjoint'
BY InvBytesDisjoint, PTL

\* A block that is in use after a step shares no byte with others that are.
LEMMA FitsAfterwards ==
  ASSUME HeapInv', NEW c \in live', NEW S, \A b \in S : b \in live' /\ b # c
  PROVE  Alloc!Fits(c, S)
<1>1. BytesDisjoint'
  BY DisjointAfterwards
<1>2. c.ptr \in Nat /\ c.size \in Nat \ {0}
  BY DEF HeapInv, LiveInv
<1>3. ASSUME NEW b \in S PROVE Alloc!Apart(c, b)
  <2>1. b \in live' /\ c # b
    OBVIOUS
  <2>2. Bytes(c.ptr, c.size) \intersect Bytes(b.ptr, b.size) = {}
    BY <1>1, <2>1 DEF BytesDisjoint
  <2> QED BY <2>2 DEF Alloc!Apart, Alloc!BytesOf, Bytes
<1> QED BY <1>2, <1>3 DEF Alloc!Fits

\* One block is exchanged for another.
LEMMA Exchanged ==
  ASSUME HeapInv, HeapInv', NEW b \in live, NEW c, live' = (live \ {b}) \union {c},
         \/ c.ptr = b.ptr
         \/ Alloc!Apart(c, b) /\ \A d \in live \ {b} : d.ptr # c.ptr
  PROVE  Alloc!ANext
<1>1. \A d \in live \ {b} : d.ptr # b.ptr
  BY DEF HeapInv, LiveInv
<1>2. c \in live' /\ \A d \in live \ {b} : d \in live' /\ d # c
  BY <1>1
<1>3. Alloc!Fits(c, live \ {b})
  BY <1>2, FitsAfterwards
<1>4. Alloc!Exchange(b, c)
  BY <1>3 DEF Alloc!Exchange
<1> QED BY <1>2, <1>4 DEF Alloc!ANext

\* A block gets another size where it is.
LEMMA Resizing ==
  ASSUME HeapInv, HeapInv', NEW b \in live, NEW s,
         live' = (live \ {b}) \union Block(b.ptr, s)
  PROVE  Alloc!ANext
<1> DEFINE c == [ptr |-> b.ptr, size |-> s]
<1>1. live' = (live \ {b}) \union {c} /\ c.ptr = b.ptr
  BY DEF Block
<1> HIDE DEF c
<1> QED BY <1>1, Exchanged

LEMMA AllocDoneRefines == ASSUME HeapInv, HeapInv', AllocDone PROVE Alloc!ANext
<1> USE Constants
<1>1. CallInv /\ LiveInv /\ TypeInv
  BY DEF HeapInv
<1>2. pc = "compact" /\ call.op \in {"alloc", "alloc_aligned"}
      /\ live' = {b \in live : b.ptr # NULL} \union Block(call.new, call.size)
  BY DEF AllocDone, Compacted, Return
<1>3. Owned = live /\ NewlyAllocated
  BY <1>2 DEF Owned, NewlyAllocated
<1>4. ASSUME NEW b \in live PROVE b.ptr # NULL /\ b.ptr # call.new
  <2>1. Holds(b.ptr, b.size) /\ b.ptr \in Nat /\ b.ptr # call.new
    BY <1>1, <1>3 DEF LiveInv
  <2>2. CONTENTS_TO_NODE(b.ptr) > 0
    BY <1>1, <2>1, Fields DEF Holds, TypeInv
  <2> QED BY <2>1, <2>2 DEF CONTENTS_TO_NODE
<1> DEFINE c == [ptr |-> call.new, size |-> call.size]
<1>5. live' = live \union {c} /\ c.ptr = call.new
  BY <1>2, <1>4 DEF Block
<1> HIDE DEF c
<1>6. c \in live' /\ \A b \in live : b \in live' /\ b # c
  BY <1>4, <1>5
<1>7. Alloc!Fits(c, live)
  BY <1>6, FitsAfterwards
<1> QED BY <1>5, <1>6, <1>7 DEF Alloc!HandOut, Alloc!ANext

LEMMA ResizeDoneRefines == ASSUME HeapInv, HeapInv', ResizeDone PROVE Alloc!ANext
<1>1. CallInv /\ LiveInv
  BY DEF HeapInv
<1>2. call.op = "resize"
      /\ live' = {b \in live : b.ptr # call.ptr} \union Block(call.ptr, call.size)
  BY DEF ResizeDone, Return
<1>3. PICK b \in live : b.ptr = call.ptr
  BY <1>1, <1>2 DEF CallInv
<1>4. {d \in live : d.ptr # call.ptr} = live \ {b}
  BY <1>1, <1>3 DEF LiveInv
<1> QED BY <1>2, <1>3, <1>4, Resizing

\* The block that was copied, and the one it was copied to.
LEMMA MoveDoneRefines == ASSUME HeapInv, HeapInv', MoveDone PROVE Alloc!ANext
<1>1. CallInv /\ LiveInv
  BY DEF HeapInv
<1>2. pc = "compact" /\ call.op = "moved"
      /\ live' = {b \in live : b.ptr # call.ptr} \union Block(call.new, call.size)
  BY DEF MoveDone, Compacted, Return
<1>3. PICK b \in live : b.ptr = call.ptr
  BY <1>1, <1>2 DEF CallInv
<1>4. {d \in live : d.ptr # call.ptr} = live \ {b} /\ Owned = live \ {b}
  BY <1>1, <1>2, <1>3 DEF LiveInv, Owned
<1>5. Holds(call.new, call.size) /\ \A d \in live \ {b} : d.ptr # call.new
  BY <1>1, <1>2, <1>4 DEF LiveInv, NewlyAllocated
<1> DEFINE c == [ptr |-> call.new, size |-> call.size]
<1>6. c.ptr = call.new /\ c.size = call.size /\ live' = (live \ {b}) \union {c}
  BY <1>2, <1>4 DEF Block
<1> HIDE DEF c
<1>7. c.ptr \in Nat /\ c.size \in Nat /\ b.ptr \in Nat /\ b.size \in Nat
  BY <1>1, <1>6 DEF CallInv, Calls, LiveInv
<1>8. b \notin Owned /\ Holds(c.ptr, c.size)
  BY <1>4, <1>5, <1>6
<1>9. c.ptr + c.size <= b.ptr \/ b.ptr + b.size <= c.ptr
  BY <1>7, <1>8, OldApart
<1>10. Alloc!Apart(c, b)
  BY <1>7, <1>9 DEF Alloc!Apart, Alloc!BytesOf
<1> QED BY <1>5, <1>6, <1>10, Exchanged

LEMMA InsideRefines == ASSUME HeapInv, HeapInv', Inside PROVE Alloc!ANext \/ UNCHANGED live
<1>1. CASE FreeDone
  <2>1. call.op = "free" /\ live' = {b \in live : b.ptr # call.ptr} \union {}
    BY <1>1 DEF FreeDone, Return
  <2> QED BY <2>1 DEF HeapInv, CallInv
<1>2. CASE AllocDone
  BY <1>2, AllocDoneRefines
<1>3. CASE ResizeDone
  BY <1>3, ResizeDoneRefines
<1>4. CASE MoveDone
  BY <1>4, MoveDoneRefines
<1> QED BY <1>1, <1>2, <1>3, <1>4
        DEF Inside, SearchNext, SearchAlignedNext, OutOfSpace, Allocate, AllocateAligned,
            CompactMerge, CompactNext, MoveFreesOld

LEMMA CallerRefines == ASSUME HeapInv, HeapInv', Caller PROVE Alloc!ANext \/ UNCHANGED live
<1>1. ASSUME NEW block \in live, kheapFree(block) PROVE Alloc!ANext
  BY <1>1 DEF kheapFree, Alloc!TakeBack, Alloc!ANext
<1>2. ASSUME NEW block \in live, NEW size,
             ReallocInPlace(block, size) \/ ReallocShrink(block, size)
             \/ ReallocConsume(block, size)
      PROVE  Alloc!ANext
  <2>1. live' = (live \ {block}) \union Block(block.ptr, size)
    BY <1>2 DEF ReallocInPlace, ReallocShrink, ReallocConsume
  <2> QED BY <2>1, Resizing
<1>3. ASSUME NEW block \in live, NEW size,
             ReallocGrow(block, size) \/ ReallocMove(block, size)
      PROVE  UNCHANGED live
  BY <1>3 DEF ReallocGrow, ReallocMove
<1>4. ASSUME NEW block \in live, NEW size, kheapRealloc(block, size)
      PROVE  Alloc!ANext \/ UNCHANGED live
  BY <1>1, <1>2, <1>3, <1>4 DEF kheapRealloc
<1>5. ASSUME NEW size, kheapAlloc(size) PROVE UNCHANGED live
  BY <1>5 DEF kheapAlloc
<1>6. ASSUME NEW size, NEW alignment, kheapAlignedAlloc(size, alignment)
      PROVE  UNCHANGED live
  BY <1>6 DEF kheapAlignedAlloc
<1> QED BY <1>1, <1>4, <1>5, <1>6 DEF Caller

\* For careful callers the heap is an allocator: a block is given only the bytes of
\* no other block, stays its holder's until kheapFree or kheapRealloc is called for
\* it, and is moved by kheapRealloc to bytes that are not its own.
THEOREM Refinement == ASSUME Careful PROVE Spec => ImplementsAllocator
<1>1. Init => Alloc!AInit
  BY DEF Init, Alloc!AInit
<1>2. HeapInv /\ HeapInv' /\ [Next]_vars => [Alloc!ANext]_live
  <2> SUFFICES ASSUME HeapInv, HeapInv', [Next]_vars PROVE Alloc!ANext \/ UNCHANGED live
    OBVIOUS
  <2>1. CASE kheapInit
    BY <2>1 DEF kheapInit
  <2>2. CASE Caller
    BY <2>2, CallerRefines
  <2>3. CASE Inside
    BY <2>3, InsideRefines
  <2>4. CASE UNCHANGED vars
    BY <2>4 DEF vars
  <2> QED BY <2>1, <2>2, <2>3, <2>4 DEF Next
<1> QED BY <1>1, <1>2, WellFormed, PTL DEF Spec, ImplementsAllocator, Alloc!ASpec
=============================================================================
