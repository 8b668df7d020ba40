--------------------------- MODULE PitTimerProofs ---------------------------
(***************************************************************************)
(* Proofs about the timer, for every number of counters, word width, set   *)
(* of ids and of sleeping times: the types, that no interrupt reaches the  *)
(* raw vector, that unowned counters stand at zero, that an active counter *)
(* counts exactly the ticks served, and that a sleep loses one tick at     *)
(* most.                                                                   *)
(***************************************************************************)
EXTENDS PitTimerHistory, NumberLemmas

-----------------------------------------------------------------------------
(* Types *)

\* What the functions return.
LEMMA Results == /\ Done \in Result
                 /\ Error \in Result
                 /\ \A n \in Nat : [isError |-> FALSE, value |-> n] \in Result
<1>1. ASSUME NEW b \in BOOLEAN, NEW n \in Nat
      PROVE  [isError |-> b, value |-> n] \in Result
  BY DEF Result
<1>2. FALSE \in BOOLEAN /\ TRUE \in BOOLEAN /\ 0 \in Nat
  OBVIOUS
<1>3. Done \in Result
  BY <1>1, <1>2, Zenon DEF Done
<1>4. Error \in Result
  BY <1>1, <1>2, Zenon DEF Error
<1>5. ASSUME NEW n \in Nat PROVE [isError |-> FALSE, value |-> n] \in Result
  BY <1>1, <1>2, Zenon
<1> QED BY <1>3, <1>4, <1>5

LEMMA InitType == ASSUME Init PROVE TypeOK
<1>1. active \in [Cell -> BOOLEAN]
  BY DEF Init
<1>2. count \in [Cell -> 0 .. WordMod - 1] /\ sleep_counter \in (-WordMod) .. (WordMod - 1)
  BY SizesAssumption DEF Init
<1>3. result \in Result
  BY Results, Zenon DEF Init
<1>4. /\ flag = "off" /\ irr0 = FALSE /\ in_service = FALSE /\ vector = "none"
      /\ pit_initialized = FALSE /\ pc = "boot" /\ call = NoCall
  BY DEF Init
<1> QED BY <1>1, <1>2, <1>3, <1>4 DEF TypeOK, Points

\* The handler's counts keep their width.
LEMMA AdvanceType ==
  ASSUME NEW act \in [Cell -> BOOLEAN], NEW cnt \in [Cell -> 0 .. WordMod - 1]
  PROVE  Advance(act, cnt) \in [Cell -> 0 .. WordMod - 1]
<1>1. ASSUME NEW x \in 0 .. WordMod - 1 PROVE (x + 1) % WordMod \in 0 .. WordMod - 1
  BY SizesAssumption
<1> QED BY <1>1 DEF Advance

LEMMA ToInt32Type ==
  ASSUME NEW n \in SleepTimes
  PROVE  ToInt32(n) \in (-WordMod) .. (WordMod - 1)
BY SizesAssumption DEF ToInt32

LEMMA NextType == ASSUME TypeOK, [Next]_vars PROVE TypeOK'
<1> USE DEF TypeOK, Points
<1>1. CASE Tick
  BY <1>1 DEF Tick, table
<1>2. CASE PITIRQ
  <2>1. count' \in [Cell -> 0 .. WordMod - 1]
    BY <1>2, AdvanceType DEF PITIRQ
  <2>2. sleep_counter' \in (-WordMod) .. (WordMod - 1)
    BY <1>2, SizesAssumption DEF PITIRQ
  <2> QED BY <1>2, <2>1, <2>2 DEF PITIRQ, EndOfInterrupt
<1>3. CASE idtInit
  BY <1>3 DEF idtInit, table
<1>4. CASE InitCli
  BY <1>4 DEF InitCli, table
<1>5. CASE InitSetup
  <2>1. 0 \in 0 .. WordMod - 1
    BY SizesAssumption
  <2> QED BY <1>5, <2>1 DEF InitSetup
<1>6. CASE InitIsrSti \/ InitSti
  BY <1>6 DEF InitIsrSti, InitSti, Sti, table
<1>7. CASE InitFlag
  BY <1>7 DEF InitFlag, Plain, AfterInstruction, table
<1>8. ASSUME NEW op \in Ops, NEW arg \in Nat, Call(op, arg) PROVE TypeOK'
  BY <1>8 DEF Call, Plain, AfterInstruction, table
<1>9. CASE pitAddCounter
  <2>1. Counter \subseteq Nat
    BY SizesAssumption DEF Counter
  <2> QED BY <1>9, <2>1, Results DEF pitAddCounter, Body, Plain, AfterInstruction, Return
<1>10. CASE CountersFull \/ RangeError \/ pitGetFrequency
  BY <1>10, Results DEF CountersFull, RangeError, pitGetFrequency, Body, Plain,
                        AfterInstruction, Return, table
<1>11. CASE Deactivate
  BY <1>11 DEF Deactivate, Body, Plain, AfterInstruction
<1>12. CASE DeactivateCount \/ pitResetCounter
  <2>1. 0 \in 0 .. WordMod - 1
    BY SizesAssumption
  <2> QED BY <1>12, <2>1, Results DEF DeactivateCount, pitResetCounter, Body, Plain,
                                      AfterInstruction, Return
<1>13. CASE pitGetCounterCount
  <2>1. call.arg \in Cell
    BY <1>13, SizesAssumption DEF pitGetCounterCount, Body, OutOfRange, Cell, CounterOps, Ops, NoCall
  <2>2. count[call.arg] \in Nat
    BY <2>1, SizesAssumption
  <2> QED BY <1>13, <2>2, Results DEF pitGetCounterCount, Body, Plain, AfterInstruction, Return, table
<1>14. ASSUME NEW n \in SleepTimes, pitSleep(n) PROVE TypeOK'
  <2>1. n \in Nat
    BY SizesAssumption
  <2> QED BY <1>14, <2>1, ToInt32Type DEF pitSleep, Plain, AfterInstruction, Ops, table
<1>15. CASE SleepCli
  BY <1>15 DEF SleepCli, table
<1>16. CASE SleepBreak \/ SleepAgain \/ SleepNops
  BY <1>16, Results DEF SleepBreak, SleepAgain, SleepNops, Plain, AfterInstruction, Return, table
<1>17. CASE SleepSti \/ OtherSti
  BY <1>17 DEF SleepSti, OtherSti, Sti, table
<1>18. CASE UNCHANGED vars
  BY <1>18 DEF vars, hardware, table
<1>19. CASE Caller
  <2>1. {"init", "add", "frequency"} \subseteq Ops /\ CounterOps \subseteq Ops
    BY DEF Ops
  <2> QED BY <1>8, <1>14, <1>17, <1>19, <2>1, SizesAssumption DEF Caller
<1> QED BY <1>1, <1>2, <1>3, <1>4, <1>5, <1>6, <1>7, <1>9, <1>10, <1>11, <1>12, <1>13,
           <1>15, <1>16, <1>17, <1>18, <1>19
        DEF Next, Inside

THEOREM TypeCorrect == Spec => []TypeOK
<1> QED BY InitType, NextType, PTL DEF Spec

-----------------------------------------------------------------------------
(* The order of initialisation *)

\* Interrupts stay off, and only idtInit and initPITTimer's start are executed,
\* until the vector is PITIRQHandler.
BootOrder ==
  /\ vector # "PITIRQHandler" =>
        flag = "off" /\ pc \in {"boot", "idle", "init_cli", "init_setup"}
  /\ pit_initialized => vector = "PITIRQHandler"
  /\ pc = "boot" => ~ pit_initialized
  /\ pc # "crashed"

LEMMA InitBootOrder == ASSUME Init PROVE BootOrder
BY DEF Init, BootOrder

LEMMA NextBootOrder == ASSUME TypeOK, BootOrder, [Next]_vars PROVE BootOrder'
<1> USE DEF BootOrder
<1>1. CASE Tick
  BY <1>1 DEF Tick
<1>2. CASE PITIRQ
  BY <1>2 DEF PITIRQ, Deliverable
<1>3. CASE idtInit
  BY <1>3 DEF idtInit, Instruction
<1>4. CASE InitCli
  BY <1>4, pit_initialized \in BOOLEAN DEF InitCli, Instruction, TypeOK
<1>5. CASE InitIsrSti \/ InitFlag \/ InitSti
  BY <1>5 DEF InitIsrSti, InitFlag, InitSti, Plain, Instruction
<1>6. ASSUME NEW op, NEW arg, Call(op, arg) PROVE BootOrder'
  BY <1>6 DEF Call, Plain, Instruction, AfterInstruction
<1>7. CASE pitAddCounter \/ CountersFull \/ RangeError
  BY <1>7 DEF pitAddCounter, CountersFull, RangeError, Body, Plain, Instruction, Return
<1>8. CASE Deactivate \/ DeactivateCount
  BY <1>8 DEF Deactivate, DeactivateCount, Body, Plain, Instruction, Return
<1>9. CASE pitGetCounterCount \/ pitResetCounter \/ pitGetFrequency
  BY <1>9 DEF pitGetCounterCount, pitResetCounter, pitGetFrequency, Body, Plain, Instruction, Return
<1>10. ASSUME NEW n, pitSleep(n) PROVE BootOrder'
  BY <1>10 DEF pitSleep, Plain, Instruction
<1>11. CASE SleepCli \/ SleepBreak \/ SleepAgain \/ SleepSti \/ SleepNops
  BY <1>11 DEF SleepCli, SleepBreak, SleepAgain, SleepSti, SleepNops, Plain, Instruction, Return
<1>12. CASE OtherSti
  BY <1>12 DEF OtherSti, Instruction
<1>13. CASE InitSetup
  BY <1>13 DEF InitSetup, Instruction
<1>14. CASE UNCHANGED vars
  BY <1>14 DEF vars, hardware
<1> QED BY <1>1, <1>2, <1>3, <1>4, <1>5, <1>6, <1>7, <1>8, <1>9, <1>10, <1>11, <1>12, <1>13,
           <1>14
        DEF Next, Inside, Caller

\* No interrupt is ever delivered to the C function idtInit registers.
THEOREM NeverRaw == Spec => []NoRawDelivery
<1>1. BootOrder => NoRawDelivery
  BY DEF BootOrder, NoRawDelivery
<1> QED BY <1>1, InitType, NextType, InitBootOrder, NextBootOrder, PTL DEF Spec

-----------------------------------------------------------------------------
(* Counters that nobody owns *)

\* Between the two stores of pitDeactivateCounter the counter is already inactive:
\* an interrupt there does not count it.
HalfDeactivated ==
  pc = "deactivate_count" => /\ call.arg \in Cell
                             /\ ~ active[call.arg]

Zeroed == ZeroedWhenIdle /\ HalfDeactivated

LEMMA CounterIsCell == Counter \subseteq Cell
BY SizesAssumption DEF Counter, Cell

LEMMA InitZeroed == ASSUME Init PROVE Zeroed
BY CounterIsCell DEF Init, Zeroed, ZeroedWhenIdle, HalfDeactivated

LEMMA NextZeroed == ASSUME TypeOK, BootOrder, Zeroed, [Next]_vars PROVE Zeroed'
<1> USE DEF Zeroed, ZeroedWhenIdle, HalfDeactivated
<1>1. CASE Tick
  BY <1>1 DEF Tick, table
<1>2. CASE PITIRQ
  <2>1. pc' = pc
    BY <1>2 DEF PITIRQ, Deliverable, BootOrder
  <2>2. \A i \in Counter : ~ active[i] => count'[i] = count[i]
    BY <1>2, CounterIsCell DEF PITIRQ, Advance, TypeOK
  <2> QED BY <1>2, <2>1, <2>2 DEF PITIRQ
<1>3. CASE idtInit \/ InitCli \/ InitIsrSti \/ InitFlag \/ InitSti
  BY <1>3 DEF idtInit, InitCli, InitIsrSti, InitFlag, InitSti, Plain, Instruction, table
<1>4. CASE InitSetup
  BY <1>4, CounterIsCell DEF InitSetup
<1>5. ASSUME NEW op, NEW arg, Call(op, arg) PROVE Zeroed'
  BY <1>5 DEF Call, Plain, Instruction, table
<1>6. CASE pitAddCounter
  BY <1>6, CounterIsCell DEF pitAddCounter, Body, Plain, Instruction, Return, TypeOK
<1>7. CASE CountersFull \/ RangeError \/ pitGetCounterCount \/ pitGetFrequency
  BY <1>7 DEF CountersFull, RangeError, pitGetCounterCount, pitGetFrequency, Body, Plain,
              Instruction, Return, table
<1>8. CASE Deactivate
  <2>1. /\ call.arg \in Cell
        /\ active' = [active EXCEPT ![call.arg] = FALSE]
        /\ call' = call /\ count' = count /\ pc' = "deactivate_count" /\ pc = "body"
    <3>1. call.op = "deactivate" /\ call.arg \in Nat
      BY <1>8 DEF Deactivate, Body, TypeOK, NoCall
    <3> QED BY <1>8, <3>1, SizesAssumption
            DEF Deactivate, Body, Plain, Instruction, OutOfRange, Cell
  <2> QED BY <2>1, CounterIsCell DEF TypeOK
<1>9. CASE DeactivateCount
  BY <1>9, CounterIsCell DEF DeactivateCount, Plain, Instruction, Return, TypeOK
<1>10. CASE pitResetCounter
  BY <1>10, CounterIsCell DEF pitResetCounter, Body, Plain, Instruction, Return, TypeOK
<1>11. ASSUME NEW n, pitSleep(n) PROVE Zeroed'
  BY <1>11 DEF pitSleep, Plain, Instruction, table
<1>12. CASE SleepCli \/ SleepBreak \/ SleepAgain \/ SleepSti \/ SleepNops
  BY <1>12 DEF SleepCli, SleepBreak, SleepAgain, SleepSti, SleepNops, Plain, Instruction,
               Return, table
<1>13. CASE OtherSti
  BY <1>13 DEF OtherSti, Instruction, table
<1>14. CASE UNCHANGED vars
  BY <1>14 DEF vars, table
<1> QED BY <1>1, <1>2, <1>3, <1>4, <1>5, <1>6, <1>7, <1>8, <1>9, <1>10, <1>11, <1>12, <1>13,
           <1>14
        DEF Next, Inside, Caller

\* However interrupts fall between the stores of the kernel, a counter that is
\* not in use stands at zero.
THEOREM UnownedZeroed == Spec => []ZeroedWhenIdle
<1>1. Zeroed => ZeroedWhenIdle
  BY DEF Zeroed
<1> QED BY <1>1, InitType, NextType, InitBootOrder, NextBootOrder, InitZeroed, NextZeroed,
           PTL DEF Spec

-----------------------------------------------------------------------------
(* The recorded timer *)

Base == TypeOK /\ BootOrder /\ Zeroed

HistoryType ==
  /\ served \in Nat
  /\ startedAt \in [Counter -> Nat]
  /\ slept \in Nat

\* Every recorded step is a step of the timer.
LEMMA HNextIsNext == ASSUME [HNext]_hvars PROVE [Next]_vars
<1>1. CASE HTick \/ HPITIRQ
  BY <1>1 DEF HTick, HPITIRQ, Next
<1>2. CASE HAddCounter \/ HResetCounter
  BY <1>2 DEF HAddCounter, HResetCounter, Next, Inside
<1>3. CASE HSleep \/ HSleepBreak \/ HDeactivate
  BY <1>3 DEF HSleep, HSleepBreak, HDeactivate, Next, Inside, Caller
<1>4. CASE HOther
  BY <1>4 DEF HOther, Other, Next, Inside, Caller
<1>5. CASE UNCHANGED hvars
  BY <1>5 DEF hvars
<1> QED BY <1>1, <1>2, <1>3, <1>4, <1>5 DEF HNext

LEMMA InitBase == ASSUME HInit PROVE Base
BY InitType, InitBootOrder, InitZeroed DEF HInit, Base

LEMMA NextBase == ASSUME Base, [HNext]_hvars PROVE Base'
BY HNextIsNext, NextType, NextBootOrder, NextZeroed DEF Base

LEMMA InitHistoryType == ASSUME HInit PROVE HistoryType
BY DEF HInit, HistoryType

LEMMA NextHistoryType == ASSUME HistoryType, [HNext]_hvars PROVE HistoryType'
<1> USE DEF HistoryType, history
<1>1. CASE HTick \/ HOther
  BY <1>1 DEF HTick, HOther
<1>2. CASE HPITIRQ
  BY <1>2, SizesAssumption DEF HPITIRQ
<1>3. CASE HAddCounter \/ HResetCounter \/ HDeactivate
  BY <1>3 DEF HAddCounter, HResetCounter, HDeactivate
<1>4. CASE HSleep \/ HSleepBreak
  BY <1>4 DEF HSleep, HSleepBreak
<1>5. CASE UNCHANGED hvars
  BY <1>5 DEF hvars
<1> QED BY <1>1, <1>2, <1>3, <1>4, <1>5 DEF HNext

-----------------------------------------------------------------------------
(* Counts are exact *)

Exact == HistoryType /\ CounterExact

LEMMA InitExact == ASSUME HInit PROVE Exact
BY InitHistoryType, CounterIsCell DEF HInit, Init, Exact, CounterExact

LEMMA NextExact == ASSUME Base, Exact, [HNext]_hvars PROVE Exact'
<1>1. HistoryType'
  BY NextHistoryType DEF Exact
<1> USE DEF Exact, CounterExact
<1>2. CASE HTick
  BY <1>1, <1>2 DEF HTick, Tick, table, history
<1>3. CASE HPITIRQ
  <2> SUFFICES ASSUME NEW i \in Counter, active'[i]
               PROVE  count'[i] = (served' - startedAt'[i]) % WordMod
    BY <1>1
  <2>1. /\ active' = active /\ startedAt' = startedAt /\ served' = (served + 1) % WordMod
        /\ count' = Advance(active, count)
    BY <1>3 DEF HPITIRQ, PITIRQ
  <2>2. count'[i] = (count[i] + 1) % WordMod
    BY <2>1, CounterIsCell DEF Advance
  <2>3. count[i] = (served - startedAt[i]) % WordMod
    BY <2>1
  <2>4. (((served - startedAt[i]) % WordMod) + 1) % WordMod
          = (((served + 1) % WordMod) - startedAt[i]) % WordMod
    <3>1. served \in Int /\ startedAt[i] \in Int
      BY DEF HistoryType
    <3> QED BY <3>1, ModDistance, SizesAssumption
  <2> QED BY <2>1, <2>2, <2>3, <2>4
<1>4. ASSUME NEW n \in Nat PROVE (n - n) % WordMod = 0
  BY SizesAssumption
<1>5. CASE HAddCounter
  <2>1. PICK j \in Counter :
          /\ ~ active[j] /\ pc = "body"
          /\ active' = [active EXCEPT ![j] = TRUE]
          /\ count' = count /\ served' = served
          /\ startedAt' = [startedAt EXCEPT ![j] = served]
    <3>1. PICK j \in Counter :
            /\ ~ active[j] /\ pc = "body"
            /\ active' = [active EXCEPT ![j] = TRUE]
            /\ result' = [isError |-> FALSE, value |-> j]
      BY <1>5 DEF HAddCounter, pitAddCounter, Body, Plain, Instruction, Return
    <3>2. result'.value = j
      BY <3>1
    <3>3. /\ count' = count /\ served' = served
          /\ startedAt' = [startedAt EXCEPT ![result'.value] = served]
      BY <1>5 DEF HAddCounter, pitAddCounter
    <3> QED BY <3>1, <3>2, <3>3
  <2>2. count[j] = 0
    BY <2>1 DEF Base, Zeroed, ZeroedWhenIdle
  <2> SUFFICES ASSUME NEW i \in Counter, active'[i]
               PROVE  count'[i] = (served' - startedAt'[i]) % WordMod
    BY <1>1
  <2>3. CASE i = j
    BY <1>4, <2>1, <2>2, <2>3 DEF HistoryType
  <2>4. CASE i # j
    BY <2>1, <2>4, CounterIsCell DEF HistoryType, Base, TypeOK
  <2> QED BY <2>3, <2>4
<1>6. CASE HResetCounter
  <2>1. /\ count' = [count EXCEPT ![call.arg] = 0]
        /\ active' = active /\ served' = served
        /\ startedAt' = [i \in Counter |-> IF i = call.arg THEN served ELSE startedAt[i]]
    BY <1>6 DEF HResetCounter, pitResetCounter
  <2> SUFFICES ASSUME NEW i \in Counter, active'[i]
               PROVE  count'[i] = (served' - startedAt'[i]) % WordMod
    BY <1>1
  <2>2. CASE i = call.arg
    BY <1>4, <2>1, <2>2, CounterIsCell DEF HistoryType, Base, TypeOK
  <2>3. CASE i # call.arg
    BY <2>1, <2>3, CounterIsCell DEF Base, TypeOK
  <2> QED BY <2>2, <2>3
<1>7. CASE HSleep \/ HSleepBreak
  BY <1>1, <1>7 DEF HSleep, HSleepBreak, pitSleep, SleepBreak, table
<1>10. CASE HDeactivate
  BY <1>1, <1>10, CounterIsCell DEF HDeactivate, Deactivate, Base, TypeOK, HistoryType
<1>8. CASE HOther
  <2>1. UNCHANGED history
    BY <1>8 DEF HOther
  <2>2. CASE UNCHANGED table
    BY <1>1, <2>1, <2>2 DEF history, table
  <2>3. CASE InitSetup
    BY <1>1, <2>1, <2>3, CounterIsCell DEF InitSetup
  <2>5. CASE DeactivateCount
    BY <1>1, <2>1, <2>5, CounterIsCell
       DEF DeactivateCount, Plain, Instruction, history, Base, TypeOK, Zeroed, HalfDeactivated
  <2>6. CASE idtInit \/ InitCli \/ InitIsrSti \/ InitFlag \/ InitSti \/ OtherSti
    BY <2>2, <2>6 DEF idtInit, InitCli, InitIsrSti, InitFlag, InitSti, OtherSti
  <2>7. CASE CountersFull \/ RangeError \/ pitGetCounterCount \/ pitGetFrequency
    BY <2>2, <2>7 DEF CountersFull, RangeError, pitGetCounterCount, pitGetFrequency
  <2>8. CASE SleepCli \/ SleepAgain \/ SleepSti \/ SleepNops
    BY <2>2, <2>8 DEF SleepCli, SleepAgain, SleepSti, SleepNops
  <2>9. ASSUME NEW op, NEW arg, Call(op, arg) PROVE Exact'
    BY <2>2, <2>9 DEF Call
  <2> QED BY <1>8, <2>3, <2>5, <2>6, <2>7, <2>8, <2>9 DEF HOther, Other
<1>9. CASE UNCHANGED hvars
  BY <1>1, <1>9 DEF hvars, vars, table, history
<1> QED BY <1>2, <1>3, <1>5, <1>6, <1>7, <1>8, <1>9, <1>10 DEF HNext

\* The count of an active counter is the number of ticks served since it was
\* added or reset, for every interleaving of kernel and interrupts.
THEOREM CountsExact == HSpec => []CounterExact
<1>1. Exact => CounterExact
  BY DEF Exact
<1> QED BY <1>1, InitBase, NextBase, InitExact, NextExact, PTL DEF HSpec

-----------------------------------------------------------------------------
(* Sleeps *)

SleepPoints == {"sleep_cli", "sleep_test", "sleep_sti", "sleep_nops"}

Waiting == IF irr0 THEN 1 ELSE 0

\* pitSleep is entered and left at its ends only, and its counter is either
\* negative, and stays so, or has lost one for every tick of the device since then and
\* one more, which waited at the start; a tick that waits now has not been taken off.
SleepInv ==
  /\ HistoryType
  /\ call.op = "sleep" <=> pc \in SleepPoints
  /\ call.op = "sleep" => call.arg < WordMod
  /\ call.op = "sleep" =>
       \/ sleep_counter < 0
       \/ sleep_counter >= call.arg - slept - 1 + Waiting
       \/ slept >= WordMod

LEMMA InitSleep == ASSUME HInit PROVE SleepInv
BY InitHistoryType DEF HInit, Init, SleepInv, SleepPoints, NoCall

LEMMA NextSleep == ASSUME Base, SleepInv, [HNext]_hvars PROVE SleepInv'
<1>1. HistoryType'
  BY NextHistoryType DEF SleepInv
<1>2. sleep_counter \in Int /\ call.arg \in Int /\ slept \in Nat /\ WordMod \in Nat
  BY SizesAssumption DEF Base, TypeOK, NoCall, SleepInv, HistoryType
<1> USE DEF SleepInv, SleepPoints
<1>3. CASE HTick
  <2>1. /\ pc' = pc /\ call' = call /\ sleep_counter' = sleep_counter
        /\ slept' = IF call.op = "sleep" /\ slept < WordMod THEN slept + 1 ELSE slept
    BY <1>3 DEF HTick, Tick
  <2>2. Waiting' = 1 /\ Waiting \in 0 .. 1
    BY <1>3 DEF HTick, Tick, Waiting
  <2> QED BY <1>1, <1>2, <2>1, <2>2
<1>4. CASE HPITIRQ
  <2>1. pc' = pc /\ call' = call /\ slept' = slept
    BY <1>4 DEF HPITIRQ, PITIRQ, Deliverable, Base, BootOrder
  <2>2. sleep_counter' = IF sleep_counter > 0 THEN sleep_counter - 1 ELSE sleep_counter
    BY <1>4 DEF HPITIRQ, PITIRQ
  <2>3. Waiting = 1 /\ Waiting' = 0
    BY <1>4 DEF HPITIRQ, PITIRQ, Deliverable, Waiting
  <2> QED BY <1>1, <1>2, <2>1, <2>2, <2>3
<1>5. CASE HAddCounter \/ HResetCounter \/ HDeactivate
  BY <1>1, <1>5 DEF HAddCounter, HResetCounter, HDeactivate, pitAddCounter, pitResetCounter,
                    Deactivate, Body, Plain, Instruction, Return, NoCall
<1>9. CASE HSleepBreak
  BY <1>1, <1>9 DEF HSleepBreak, SleepBreak, Plain, Instruction, Return, NoCall
<1>6. CASE HSleep
  <2>1. PICK n \in SleepTimes : /\ call' = [op |-> "sleep", arg |-> n]
                                /\ sleep_counter' = ToInt32(n)
                                /\ pc' = "sleep_cli"
                                /\ slept' = 0 /\ Waiting' \in 0 .. 1
    BY <1>6 DEF HSleep, pitSleep, Waiting
  <2>2. ToInt32(n) < 0 \/ ToInt32(n) = n
    BY SizesAssumption DEF ToInt32
  <2>3. n \in Nat /\ n < WordMod
    BY SizesAssumption
  <2> QED BY <1>1, <1>2, <2>1, <2>2, <2>3
<1>7. CASE HOther
  <2>1. UNCHANGED history
    BY <1>7 DEF HOther
  <2>2. CASE idtInit \/ InitSetup \/ InitIsrSti \/ InitFlag
    BY <1>1, <2>1, <2>2 DEF idtInit, InitSetup, InitIsrSti, InitFlag, Plain,
                            Instruction, NoCall, history
  <2>3. CASE InitSti
    BY <1>1, <2>1, <2>3 DEF InitSti, Instruction, NoCall, history
  <2>4. CASE CountersFull \/ RangeError \/ pitGetCounterCount \/ pitGetFrequency
    BY <1>1, <2>1, <2>4 DEF CountersFull, RangeError, pitGetCounterCount, pitGetFrequency,
                            Body, Plain, Instruction, Return, NoCall, history
  <2>5. CASE DeactivateCount
    BY <1>1, <2>1, <2>5 DEF DeactivateCount, Waiting, Plain, Instruction, Return, NoCall, history
  <2>6. CASE SleepCli \/ SleepAgain \/ SleepSti \/ SleepNops
    BY <1>1, <2>1, <2>6 DEF SleepCli, SleepAgain, SleepSti, SleepNops, Plain,
                                Instruction, Waiting, history
  <2>8. ASSUME NEW op \in {"init", "add", "frequency"} \union CounterOps, NEW arg, Call(op, arg)
        PROVE  SleepInv'
    BY <1>1, <2>1, <2>8 DEF Call, Plain, Instruction, CounterOps, Waiting, history
  <2>9. CASE OtherSti
    BY <1>1, <2>1, <2>9 DEF OtherSti, Waiting, history
  <2>10. CASE InitCli
    <3>1. /\ pc = "init_cli"
          /\ \/ pc' = "idle" /\ call' = NoCall
             \/ pc' = "init_setup" /\ call' = call
      BY <2>10 DEF InitCli, Instruction
    <3> QED BY <1>1, <2>1, <3>1 DEF NoCall, history
  <2> QED BY <1>7, <2>10, <2>2, <2>3, <2>4, <2>5, <2>6, <2>8, <2>9 DEF HOther, Other
<1>8. CASE UNCHANGED hvars
  BY <1>1, <1>8 DEF hvars, vars, hardware, Waiting, history
<1> QED BY <1>3, <1>4, <1>5, <1>6, <1>7, <1>8, <1>9 DEF HNext

\* pitSleep never comes back more than one tick early.
THEOREM SleepsAlmostThrough == HSpec => SleepLosesOneTick
<1> DEFINE Long == SleepEnds => slept >= call.arg - 1
<1>1. Base /\ SleepInv /\ [HNext]_hvars => [Long]_hvars
  <2> SUFFICES ASSUME Base, SleepInv, HNext, call.op = "sleep", call'.op # "sleep"
               PROVE  slept >= call.arg - 1
    BY DEF SleepEnds
  <2>1. pc \in SleepPoints /\ pc # "crashed"
    BY DEF SleepInv, Base, BootOrder
  <2>2. sleep_counter = 0
    <3> USE DEF SleepPoints
    <3>1. CASE HTick \/ HPITIRQ
      BY <3>1 DEF HTick, HPITIRQ, Tick, PITIRQ
    <3>2. CASE HAddCounter \/ HResetCounter \/ HSleep \/ HDeactivate
      BY <2>1, <3>2 DEF HAddCounter, HResetCounter, HSleep, HDeactivate, pitAddCounter,
                        pitResetCounter, pitSleep, Deactivate, Body, Plain, Instruction
    <3>3. CASE idtInit \/ InitCli \/ InitSetup \/ InitIsrSti \/ InitFlag \/ InitSti \/ OtherSti
      BY <2>1, <3>3 DEF idtInit, InitCli, InitSetup, InitIsrSti, InitFlag, InitSti, OtherSti,
                        Plain, Instruction
    <3>4. CASE CountersFull \/ RangeError \/ pitGetCounterCount \/ pitGetFrequency
               \/ DeactivateCount
      BY <2>1, <3>4 DEF CountersFull, RangeError, pitGetCounterCount, pitGetFrequency,
                        DeactivateCount, Body, Plain, Instruction
    <3>5. CASE SleepCli \/ SleepAgain \/ SleepSti \/ SleepNops
      BY <3>5 DEF SleepCli, SleepAgain, SleepSti, SleepNops
    <3>6. CASE HSleepBreak
      BY <3>6 DEF HSleepBreak, SleepBreak, SleepIsOver
    <3>7. ASSUME NEW op, NEW arg, Call(op, arg) PROVE FALSE
      BY <2>1, <3>7 DEF Call, Plain, Instruction
    <3> QED BY <3>1, <3>2, <3>3, <3>4, <3>5, <3>6, <3>7 DEF HNext, HOther, Other
  <2>3. slept \in Nat /\ call.arg \in Int /\ WordMod \in Nat
    BY SizesAssumption DEF Base, TypeOK, NoCall, SleepInv, HistoryType
  <2>4. call.arg < WordMod
    BY DEF SleepInv
  <2>5. Waiting \in 0 .. 1
    BY DEF Waiting
  <2> QED BY <2>2, <2>3, <2>4, <2>5 DEF SleepInv
<1> QED BY <1>1, InitBase, NextBase, InitSleep, NextSleep, PTL DEF HSpec, SleepLosesOneTick
=============================================================================
