----------------------------- MODULE MCPitTimer -----------------------------
(***************************************************************************)
(* The timer and its record for TLC: two counters, words of six values.    *)
(***************************************************************************)
EXTENDS PitTimerHistory

\* Ids in the table, and one that even the check of the code refuses.
CheckedIds == Counter \union {PIT_NUM_COUNTERS + 1}
=============================================================================
