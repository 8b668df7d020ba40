------------------------------ MODULE MCPaging ------------------------------
(***************************************************************************)
(* Instances of Paging for TLC.  A frame is 8 addresses, so that one       *)
(* address stands for 512 KiB, and there are 8 frames; frame_count counts  *)
(* modulo 4, less than the number of frames as 256 is less than 1024.      *)
(***************************************************************************)
EXTENDS Paging

RAM(base, length)    == [region_type |-> 1, base |-> base, length |-> length]
NotRAM(base, length) == [region_type |-> 2, base |-> base, length |-> length]

Given(entries) == [present |-> TRUE, entries |-> entries]

NoMap == [present |-> FALSE, entries |-> <<>>]

\* The first megabyte of a PC: conventional memory, then the BIOS.
LowMegabyte == <<RAM(0, 1), NotRAM(1, 1)>>

\* 8 MiB of memory in one piece.
SmallPC == Given(LowMegabyte \o <<RAM(2, 24)>>)

\* Memory in two pieces, with a hole for devices between them.
HolePC == Given(LowMegabyte \o <<RAM(2, 16), NotRAM(18, 2), RAM(20, 21), NotRAM(56, 8)>>)

\* Memory above 4 GiB: base and length lose their high words.
HighPC == Given(LowMegabyte \o <<RAM(2, 31), NotRAM(60, 4), RAM(64, 36), RAM(128, 100)>>)

\* A region with exactly as many frames as frame_count has values.
LargePC == Given(LowMegabyte \o <<RAM(2, 38)>>)

PCMaps == {NoMap, SmallPC, HolePC, HighPC}

LargeMaps == {LargePC}

MCPages == {0, 2, 4, 5, 7}
=============================================================================
