------------------------------ MODULE Allocator ------------------------------
(***************************************************************************)
(* What a heap promises to the code that uses it: the blocks it has handed *)
(* out share no byte, and each stays what it is, with what was written in  *)
(* it, until its holder calls for it.  A block that gets another size      *)
(* keeps its place, or is copied to a place that shares no byte with its   *)
(* old one.  Where a block is put, and when there is no room for it, is    *)
(* left open.                                                              *)
(***************************************************************************)
EXTENDS Integers

VARIABLE held      \* the blocks handed out

BytesOf(b) == b.ptr .. b.ptr + b.size - 1

Apart(b, c) == BytesOf(b) \intersect BytesOf(c) = {}

Fits(b, blocks) == /\ b.ptr \in Nat /\ b.size \in Nat \ {0}
                   /\ \A c \in blocks : Apart(b, c)

AInit == held = {}

HandOut(b) == Fits(b, held) /\ held' = held \union {b}

TakeBack(b) == held' = held \ {b}

Exchange(b, c) == /\ Fits(c, held \ {b})
                  /\ c.ptr = b.ptr \/ Apart(c, b)
                  /\ held' = (held \ {b}) \union {c}

\* The new block is one of those that are held afterwards.
ANext == \/ \E b \in held' : HandOut(b)
         \/ \E b \in held : TakeBack(b)
         \/ \E b \in held, c \in held' : Exchange(b, c)

ASpec == AInit /\ [][ANext]_held
=============================================================================
