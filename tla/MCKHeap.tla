------------------------------- MODULE MCKHeap -------------------------------
(***************************************************************************)
(* An instance of KHeap for TLC: 16 addresses between the start and the    *)
(* end of the heap, headers of 2, words of 10 bits.  Three blocks of the   *)
(* smaller sizes fit and leave a hole when the one between is freed; the   *)
(* largest request only fits because the last node is taken for larger     *)
(* than the heap.                                                          *)
(***************************************************************************)
EXTENDS KHeap

Small  == 2
Medium == 6
Large  == 20

AllSizes   == {Small, Medium, Large}
SmallSizes == {Small, Medium}
=============================================================================
