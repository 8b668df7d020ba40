------------------------------ MODULE MCShell ------------------------------
(***************************************************************************)
(* An instance of Shell for TLC: a view of a few rows of five cells, two   *)
(* letters, and lines of up to three of them, the third of which reaches   *)
(* the end of the row.                                                     *)
(***************************************************************************)
EXTENDS Shell

\* Something was written before the shell started.
CheckedBanner == <<"a", NL>>
=============================================================================
