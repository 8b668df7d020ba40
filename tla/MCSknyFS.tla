------------------------------ MODULE MCSknyFS ------------------------------
(***************************************************************************)
(* An instance of SknyFS for TLC: maps of two chunks of two sectors, with  *)
(* room for four chunks and four files, and four names: one is the         *)
(* beginning of another, which is too long, one is different, and one is   *)
(* empty.  The checks of the library it uses are evaluated with it.        *)
(***************************************************************************)
EXTENDS SknyFS, KStdChecks

CheckedNames == {<<65, NUL>>, <<65, 66, 66, NUL>>, <<65, 67, NUL>>, <<NUL>>}
=============================================================================
