-------------------------- MODULE PitTimerHistory --------------------------
(***************************************************************************)
(* PitTimer with a record of what has happened: the ticks served, as a     *)
(* clock of the width of a word, what it showed when each counter was last *)
(* added or reset, and the milliseconds of the present sleep.  It says     *)
(* what the counts mean.                                                   *)
(***************************************************************************)
EXTENDS PitTimer

VARIABLES
  served,      \* ticks served since the kernel started, modulo WordMod
  startedAt,   \* for each counter, served when it was added or last reset
  slept        \* milliseconds since pitSleep was entered: the ticks of the device
               \* since then, WordMod and more alike

history == <<served, startedAt, slept>>
hvars   == <<vars, history>>

HInit == /\ Init
         /\ served = 0
         /\ startedAt = [i \in Counter |-> 0]
         /\ slept = 0

HTick == /\ Tick
         /\ slept' = IF call.op = "sleep" /\ slept < WordMod THEN slept + 1 ELSE slept
         /\ UNCHANGED <<served, startedAt>>

HPITIRQ ==
  /\ PITIRQ
  /\ served' = (served + 1) % WordMod
  /\ UNCHANGED <<startedAt, slept>>

HAddCounter ==
  /\ pitAddCounter
  /\ startedAt' = [startedAt EXCEPT ![result'.value] = served]
  /\ UNCHANGED <<served, slept>>

HResetCounter ==
  /\ pitResetCounter
  /\ startedAt' = [i \in Counter |-> IF i = call.arg THEN served ELSE startedAt[i]]
  /\ UNCHANGED <<served, slept>>

HSleep == /\ \E n \in SleepTimes : pitSleep(n)
          /\ slept' = 0
          /\ UNCHANGED <<served, startedAt>>

\* The end of a sleep; its length need not be remembered any longer.
HSleepBreak == SleepBreak /\ slept' = 0 /\ UNCHANGED <<served, startedAt>>

\* A counter that is given up forgets when it was started.
HDeactivate ==
  /\ Deactivate
  /\ startedAt' = [i \in Counter |-> IF i = call.arg THEN 0 ELSE startedAt[i]]
  /\ UNCHANGED <<served, slept>>

\* The steps the record says nothing of.
Other == \/ idtInit \/ InitCli \/ InitSetup \/ InitIsrSti \/ InitFlag \/ InitSti
         \/ CountersFull \/ RangeError \/ DeactivateCount
         \/ pitGetCounterCount \/ pitGetFrequency
         \/ SleepCli \/ SleepAgain \/ SleepSti \/ SleepNops
         \/ (\E op \in {"init", "add", "frequency"} : Call(op, 0))
         \/ (\E op \in CounterOps, id \in CounterIds : Call(op, id))
         \/ OtherSti

HOther == Other /\ UNCHANGED history

HNext == \/ HTick \/ HPITIRQ \/ HAddCounter \/ HResetCounter \/ HSleep
         \/ HSleepBreak \/ HDeactivate \/ HOther

HSpec == HInit /\ [][HNext]_hvars

\* The record stands in no step's way: what is fair of the timer is fair here.
HFairSpec == HSpec /\ Fairness

-----------------------------------------------------------------------------
(* Properties *)

\* The count of an active counter is exactly the number of ticks served since it
\* was added or reset, modulo the width of the field, however the calls of the
\* kernel and the interrupts fall.
CounterExact ==
  \A i \in Counter :
     active[i] => count[i] = (served - startedAt[i]) % WordMod

SleepEnds == call.op = "sleep" /\ call'.op # "sleep"

\* A sleep ends one tick early at most, whatever ticks come while it starts and ends:
\* the tick that waited when pitSleep was entered is counted as the first.
SleepLosesOneTick == [][SleepEnds => slept >= call.arg - 1]_hvars
=============================================================================
