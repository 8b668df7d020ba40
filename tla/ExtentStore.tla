---------------------------- MODULE ExtentStore ----------------------------
(***************************************************************************)
(* What the disk driver promises.  A sector number names an extent of      *)
(* blocks; a job writes or reads the first of them.  A write puts its      *)
(* blocks one after the other, a read is answered with what the extent     *)
(* holds, and a job that is refused has changed nothing.                   *)
(***************************************************************************)
EXTENDS Integers, Sequences

CONSTANTS Extents,      \* the sector numbers that have an extent
          ExtentSize,   \* blocks in an extent
          Blocks,       \* what a block holds
          Blank         \* what it holds at first

VARIABLES store,    \* the blocks of each extent
          job,      \* the job that was asked for
          put,      \* how many blocks of a write are in the store
          answer    \* the answer to the last job

svars == <<store, job, put, answer>>

NoJob == [op |-> "none", sector |-> 0, n |-> 0, data |-> <<>>]

SInit == /\ store = [e \in Extents |-> [i \in 0 .. ExtentSize - 1 |-> Blank]]
         /\ job = NoJob
         /\ put = 0
         /\ answer = [ok |-> TRUE, data |-> <<>>]

Ask == /\ job = NoJob
       /\ job'.op \in {"read", "write"}
       /\ job'.op = "write" => Len(job'.data) = job'.n
       /\ UNCHANGED <<store, put, answer>>

Fits == job.sector \in Extents /\ job.n <= ExtentSize

Put == /\ job.op = "write" /\ put < job.n
       /\ Fits
       /\ store' = [store EXCEPT ![job.sector][put] = job.data[put + 1]]
       /\ put' = put + 1
       /\ UNCHANGED <<job, answer>>

Answer(a) == answer' = a /\ job' = NoJob /\ put' = 0 /\ UNCHANGED store

Written == job.op = "write" /\ put = job.n /\ Answer([ok |-> TRUE, data |-> <<>>])

Read == /\ job.op = "read"
        /\ Fits
        /\ Answer([ok |-> TRUE, data |-> [i \in 1 .. job.n |-> store[job.sector][i - 1]]])

Refused == job # NoJob /\ put = 0 /\ Answer([ok |-> FALSE, data |-> <<>>])

SNext == Ask \/ Put \/ Written \/ Read \/ Refused

SSpec == SInit /\ [][SNext]_svars
=============================================================================
