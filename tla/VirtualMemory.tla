--------------------------- MODULE VirtualMemory ---------------------------
(***************************************************************************)
(* What demand paging promises to the code that runs on top of it: every   *)
(* page of the virtual address space is a private cell.  A store changes   *)
(* the cell it names and no other, whatever happened before, and a store   *)
(* that faults takes effect once, after the fault has been served.         *)
(***************************************************************************)

CONSTANTS
  Page,     \* the virtual pages the program uses
  Value,    \* what a store may write
  Garbage   \* what a cell holds before its first store

VARIABLES
  mem,      \* contents of every page
  request   \* the store the processor is executing, or NoRequest

vmVars == <<mem, request>>

NoRequest == [page |-> 0, value |-> Garbage]

Init == /\ mem = [p \in Page |-> Garbage]
        /\ request = NoRequest

Issue(p, v) == /\ request = NoRequest
               /\ request' = [page |-> p, value |-> v]
               /\ UNCHANGED mem

Commit == /\ request # NoRequest
          /\ mem' = [mem EXCEPT ![request.page] = request.value]
          /\ request' = NoRequest

Next == Commit \/ \E p \in Page, v \in Value : Issue(p, v)

Spec == Init /\ [][Next]_vmVars
=============================================================================
