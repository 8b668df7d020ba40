------------------------------- MODULE MCAta -------------------------------
(***************************************************************************)
(* An instance of Ata for TLC: sectors of two words, three extents of four *)
(* blocks, of which the last one has an address that does not fit the low  *)
(* registers, and what may be attached.                                    *)
(***************************************************************************)
EXTENDS Ata

Letter(lo, hi) == [lo |-> lo, hi |-> hi]

\* The low bytes are those of seven bit characters.
CheckedBlank  == <<Letter(0, 0), Letter(0, 0)>>
CheckedBlocks == {<<Letter(0, 1), Letter(1, 3)>>, <<Letter(1, 0), Letter(1, 2)>>}

\* Whether the primary drive is prompt matters to transfers, the secondary to ideInit.
CheckedMachines ==
  {m \in [primary : Attached, secondary : Attached, prompt : BOOLEAN] :
     m.prompt => m.primary = "ata" /\ m.secondary = "none"}
=============================================================================
