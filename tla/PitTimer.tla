------------------------------ MODULE PitTimer ------------------------------
(***************************************************************************)
(* The system timer (src/src/timer/timer.c with the vector table of        *)
(* src/src/idt.c): the interrupt handler of IRQ 0 advances the counters    *)
(* and the sleep counter, while the kernel, one instruction that matters   *)
(* at a time, adds, reads, resets and drops counters, or sleeps.           *)
(*                                                                         *)
(* A tick of the hardware is latched by the interrupt controller (irr0)    *)
(* and taken at the next instruction boundary at which the interrupt flag  *)
(* is set; sti sets it only after the instruction that follows.            *)
(***************************************************************************)
EXTENDS Integers

CONSTANTS
  PIT_NUM_COUNTERS,  \* counters in the table (50)
  WordMod,           \* values of a uint32_t (2^32)
  CounterIds,        \* the ids callers pass
  SleepTimes         \* the times callers sleep for

ASSUME SizesAssumption ==
  /\ PIT_NUM_COUNTERS \in Nat \ {0}
  /\ WordMod \in Nat \ {0}
  /\ CounterIds \subseteq Nat
  /\ SleepTimes \subseteq 0 .. WordMod - 1

VARIABLES
  flag,             \* the interrupt flag: "off", "shadow" (after sti) or "on"
  irr0,             \* IRQ 0 is requested and not yet taken
  in_service,       \* IRQ 0 was taken and the controller awaits the EOI
  vector,           \* what entry 0x20 of the vector table points to
  pit_initialized,
  active, count,    \* the fields of pit_counters, by index
  sleep_counter,    \* an int32_t
  pc,               \* where the kernel is
  call,             \* the timer function it is in, and its argument
  result            \* what the last call returned

hardware == <<flag, irr0, in_service, vector>>
table    == <<active, count>>
vars     == <<hardware, pit_initialized, table, sleep_counter, pc, call, result>>

Counter == 0 .. PIT_NUM_COUNTERS - 1

\* The index check admits one index too many: its cell is whatever the linker
\* put behind the table.
Cell == 0 .. PIT_NUM_COUNTERS

CounterOps == {"deactivate", "get", "reset"}
Ops        == CounterOps \union {"init", "add", "frequency", "sleep"}

Result == [isError : BOOLEAN, value : Nat]

NoCall == [op |-> "none", arg |-> 0]
Done   == [isError |-> FALSE, value |-> 0]
Error  == [isError |-> TRUE, value |-> 0]

-----------------------------------------------------------------------------
(* The processor *)

AfterInstruction(f) == IF f = "shadow" THEN "on" ELSE f

Sti(f) == IF f = "off" THEN "shadow" ELSE "on"

Deliverable == flag = "on" /\ irr0 /\ ~ in_service

\* A requested interrupt is taken before the next instruction.
Instruction(from) == pc = from /\ ~ Deliverable

\* An instruction that leaves the flag alone.
Plain(from) == Instruction(from) /\ flag' = AfterInstruction(flag)

\* The hardware asks for an interrupt, again if it has asked already.
Tick == /\ irr0' = TRUE
        /\ UNCHANGED <<flag, in_service, vector, pit_initialized, table,
                       sleep_counter, pc, call, result>>

-----------------------------------------------------------------------------
(* Small steps of the code *)

ToInt32(n) == IF n < WordMod \div 2 THEN n ELSE n - WordMod

\* mutated form: sleeping ends one tick early
SleepIsOver_Early(counter) == counter <= 1

SleepIsOver(counter) == counter = 0

\* mutated form: the count is wider than its field
Advance_Wide(act, cnt) ==
  [i \in Cell |-> IF i \in Counter /\ act[i] THEN cnt[i] + 1 ELSE cnt[i]]

Advance(act, cnt) ==
  [i \in Cell |-> IF i \in Counter /\ act[i] THEN (cnt[i] + 1) % WordMod ELSE cnt[i]]

\* mutated form: the interrupt controller is not told
EndOfInterrupt_Forgotten(serving) == TRUE

EndOfInterrupt(serving) == FALSE

OutOfRange(id) == id > PIT_NUM_COUNTERS

-----------------------------------------------------------------------------
(* Interrupts *)

\* PITIRQHandler is entered with the flag cleared and left by iret, which sets it
\* again: nothing comes between its instructions.  Before initPITTimer the vector
\* is the C function PITIRQ itself, which returns with ret and not with iret: the
\* interrupted code does not survive it.
PITIRQ ==
  /\ Deliverable
  /\ irr0' = FALSE
  /\ in_service' = EndOfInterrupt(TRUE)
  /\ count' = Advance(active, count)
  /\ sleep_counter' = IF sleep_counter > 0 THEN sleep_counter - 1 ELSE sleep_counter
  /\ pc' = IF vector = "PITIRQHandler" THEN pc ELSE "crashed"
  /\ UNCHANGED <<flag, vector, pit_initialized, active, call, result>>

-----------------------------------------------------------------------------
(* Initialisation *)

\* mutated form: interrupts are enabled at the end of idtInit
idtInit_Sti ==
  /\ Instruction("boot")
  /\ vector' = "PITIRQ"
  /\ flag' = "on"
  /\ pc' = "idle"
  /\ UNCHANGED <<irr0, in_service, pit_initialized, table, sleep_counter, call, result>>

\* The kernel is entered with the flag cleared; idtInit unmasks IRQ 0.
idtInit ==
  /\ Instruction("boot")
  /\ vector' = "PITIRQ"
  /\ flag' = "off"
  /\ pc' = "idle"
  /\ UNCHANGED <<irr0, in_service, pit_initialized, table, sleep_counter, call, result>>

\* cli, and the early return that leaves it at that.
InitCli ==
  /\ Instruction("init_cli")
  /\ flag' = "off"
  /\ IF pit_initialized
     THEN /\ pc' = "idle"
          /\ call' = NoCall
     ELSE /\ pc' = "init_setup"
          /\ UNCHANGED call
  /\ UNCHANGED <<irr0, in_service, vector, pit_initialized, table, sleep_counter, result>>

\* The table is zeroed, the device programmed and the vector replaced.
InitSetup ==
  /\ Instruction("init_setup")
  /\ flag' = "off"
  /\ active' = [i \in Cell |-> IF i \in Counter THEN FALSE ELSE active[i]]
  /\ count' = [i \in Cell |-> IF i \in Counter THEN 0 ELSE count[i]]
  /\ vector' = "PITIRQHandler"
  /\ pc' = "init_isr_sti"
  /\ UNCHANGED <<irr0, in_service, pit_initialized, sleep_counter, call, result>>

\* idt_add_isr enables interrupts before it returns: they can come before
\* pit_initialized is set.
InitIsrSti ==
  /\ Instruction("init_isr_sti")
  /\ flag' = "on"
  /\ pc' = "init_flag"
  /\ UNCHANGED <<irr0, in_service, vector, pit_initialized, table, sleep_counter, call, result>>

InitFlag ==
  /\ Plain("init_flag")
  /\ pit_initialized' = TRUE
  /\ pc' = "init_sti"
  /\ UNCHANGED <<irr0, in_service, vector, table, sleep_counter, call, result>>

\* The end of initPITTimer: back to the caller, or to the function that
\* initialised the timer because nobody had.
InitSti ==
  /\ Instruction("init_sti")
  /\ flag' = "on"
  /\ IF call.op = "init"
     THEN pc' = "idle" /\ call' = NoCall
     ELSE pc' = "body" /\ UNCHANGED call
  /\ UNCHANGED <<irr0, in_service, vector, pit_initialized, table, sleep_counter, result>>

-----------------------------------------------------------------------------
(* Counters *)

\* Every function on counters first sees to it that the timer is initialised.
Call(op, arg) ==
  /\ Plain("idle")
  /\ call' = [op |-> op, arg |-> arg]
  /\ pc' = IF op = "init" \/ ~ pit_initialized THEN "init_cli" ELSE "body"
  /\ UNCHANGED <<irr0, in_service, vector, pit_initialized, table, sleep_counter, result>>

\* A call of op has arrived at its own code.
Body(op) == Plain("body") /\ call.op = op

Return(r) == /\ result' = r
             /\ pc' = "idle"
             /\ call' = NoCall

\* The first counter that is not active; the handler only reads active, so that
\* search and store act as one.
pitAddCounter ==
  /\ Body("add")
  /\ \E i \in Counter :
       /\ ~ active[i]
       /\ \A j \in Counter : j < i => active[j]
       /\ active' = [active EXCEPT ![i] = TRUE]
       /\ Return([isError |-> FALSE, value |-> i])
  /\ UNCHANGED <<irr0, in_service, vector, pit_initialized, count, sleep_counter>>

CountersFull ==
  /\ Body("add")
  /\ \A i \in Counter : active[i]
  /\ Return(Error)
  /\ UNCHANGED <<irr0, in_service, vector, pit_initialized, table, sleep_counter>>

RangeError ==
  /\ \E op \in CounterOps : Body(op)
  /\ OutOfRange(call.arg)
  /\ Return(Error)
  /\ UNCHANGED <<irr0, in_service, vector, pit_initialized, table, sleep_counter>>

\* pitDeactivateCounter is two stores, first to active ...
Deactivate ==
  /\ Body("deactivate")
  /\ ~ OutOfRange(call.arg)
  /\ active' = [active EXCEPT ![call.arg] = FALSE]
  /\ pc' = "deactivate_count"
  /\ UNCHANGED <<irr0, in_service, vector, pit_initialized, count, sleep_counter, call, result>>

\* mutated form: the second store is missing
DeactivateCount_Forgotten ==
  /\ Plain("deactivate_count")
  /\ Return(Done)
  /\ UNCHANGED <<irr0, in_service, vector, pit_initialized, table, sleep_counter>>

\* ... then to count.
DeactivateCount ==
  /\ Plain("deactivate_count")
  /\ count' = [count EXCEPT ![call.arg] = 0]
  /\ Return(Done)
  /\ UNCHANGED <<irr0, in_service, vector, pit_initialized, active, sleep_counter>>

pitGetCounterCount ==
  /\ Body("get")
  /\ ~ OutOfRange(call.arg)
  /\ Return([isError |-> FALSE, value |-> count[call.arg]])
  /\ UNCHANGED <<irr0, in_service, vector, pit_initialized, table, sleep_counter>>

pitResetCounter ==
  /\ Body("reset")
  /\ ~ OutOfRange(call.arg)
  /\ count' = [count EXCEPT ![call.arg] = 0]
  /\ Return(Done)
  /\ UNCHANGED <<irr0, in_service, vector, pit_initialized, active, sleep_counter>>

pitGetFrequency ==
  /\ Body("frequency")
  /\ Return(Done)
  /\ UNCHANGED <<irr0, in_service, vector, pit_initialized, table, sleep_counter>>

-----------------------------------------------------------------------------
(* Sleeping *)

\* Only code that runs after initPITTimer sleeps (ataIdentify, from ideInit).
pitSleep(n) ==
  /\ Plain("idle")
  /\ pit_initialized
  /\ call' = [op |-> "sleep", arg |-> n]
  /\ sleep_counter' = ToInt32(n)
  /\ pc' = "sleep_cli"
  /\ UNCHANGED <<irr0, in_service, vector, pit_initialized, table, result>>

SleepCli ==
  /\ Instruction("sleep_cli")
  /\ flag' = "off"
  /\ pc' = "sleep_test"
  /\ UNCHANGED <<irr0, in_service, vector, pit_initialized, table, sleep_counter, call, result>>

\* The break is between cli and sti: the function returns with the flag cleared.
SleepBreak ==
  /\ Plain("sleep_test")
  /\ SleepIsOver(sleep_counter)
  /\ Return(Done)
  /\ UNCHANGED <<irr0, in_service, vector, pit_initialized, table, sleep_counter>>

SleepAgain ==
  /\ Plain("sleep_test")
  /\ ~ SleepIsOver(sleep_counter)
  /\ pc' = "sleep_sti"
  /\ UNCHANGED <<irr0, in_service, vector, pit_initialized, table, sleep_counter, call, result>>

\* mutated form: cli follows sti at once, and no interrupt is ever taken
SleepSti_NoNops ==
  /\ Instruction("sleep_sti")
  /\ flag' = Sti(flag)
  /\ pc' = "sleep_cli"
  /\ UNCHANGED <<irr0, in_service, vector, pit_initialized, table, sleep_counter, call, result>>

SleepSti ==
  /\ Instruction("sleep_sti")
  /\ flag' = Sti(flag)
  /\ pc' = "sleep_nops"
  /\ UNCHANGED <<irr0, in_service, vector, pit_initialized, table, sleep_counter, call, result>>

\* The nops of pitSleep, the first of which ends the shadow of sti.
SleepNops ==
  /\ Plain("sleep_nops")
  /\ pc' = "sleep_cli"
  /\ UNCHANGED <<irr0, in_service, vector, pit_initialized, table, sleep_counter, call, result>>

-----------------------------------------------------------------------------

\* Other code of the running kernel that ends in sti (kbGetChar).
OtherSti ==
  /\ Instruction("idle")
  /\ pit_initialized
  /\ flag = "off"
  /\ flag' = "on"
  /\ UNCHANGED <<irr0, in_service, vector, pit_initialized, table, sleep_counter, pc, call, result>>

Init == /\ flag = "off"
        /\ irr0 = FALSE
        /\ in_service = FALSE
        /\ vector = "none"
        /\ pit_initialized = FALSE
        /\ active = [i \in Cell |-> FALSE]
        /\ count = [i \in Cell |-> 0]
        /\ sleep_counter = 0
        /\ pc = "boot"
        /\ call = NoCall
        /\ result = Done

\* What the kernel does by itself once it is inside a timer function.
Inside == \/ idtInit \/ InitCli \/ InitSetup \/ InitIsrSti \/ InitFlag \/ InitSti
          \/ pitAddCounter \/ CountersFull \/ RangeError
          \/ Deactivate \/ DeactivateCount
          \/ pitGetCounterCount \/ pitResetCounter \/ pitGetFrequency
          \/ SleepCli \/ SleepBreak \/ SleepAgain \/ SleepSti \/ SleepNops

\* What callers choose to do.
Caller == \/ \E op \in {"init", "add", "frequency"} : Call(op, 0)
          \/ \E op \in CounterOps, id \in CounterIds : Call(op, id)
          \/ \E n \in SleepTimes : pitSleep(n)
          \/ OtherSti

Next == Tick \/ PITIRQ \/ Inside \/ Caller

Spec == Init /\ [][Next]_vars

\* The device keeps ticking, and the processor takes what it can take.  The code
\* it is in makes progress although every tick interrupts it: ticks are 1 ms
\* apart, so that an instruction that can be executed again and again, between
\* them, is executed.  Nothing makes a caller call.
Fairness == WF_vars(Tick) /\ WF_vars(PITIRQ) /\ SF_vars(Inside)

FairSpec == Spec /\ Fairness

-----------------------------------------------------------------------------
(* Properties *)

Points == {"boot", "idle", "crashed", "init_cli", "init_setup", "init_isr_sti",
           "init_flag", "init_sti", "body", "deactivate_count",
           "sleep_cli", "sleep_test", "sleep_sti", "sleep_nops"}

\* The variables of timer.c keep their types, the counts their width.
TypeOK ==
  /\ flag \in {"off", "shadow", "on"}
  /\ irr0 \in BOOLEAN
  /\ in_service \in BOOLEAN
  /\ vector \in {"none", "PITIRQ", "PITIRQHandler"}
  /\ pit_initialized \in BOOLEAN
  /\ active \in [Cell -> BOOLEAN]
  /\ count \in [Cell -> 0 .. WordMod - 1]
  /\ sleep_counter \in (-WordMod) .. (WordMod - 1)
  /\ pc \in Points
  /\ call \in [op : Ops, arg : Nat] \union {NoCall}
  /\ result \in Result

\* A counter that nobody owns stands at zero, except between the two stores of
\* pitDeactivateCounter: pitAddCounter does not zero the count of the counter
\* it gives out, and relies on this.
ZeroedWhenIdle ==
  \A i \in Counter :
     ~ active[i] /\ ~ (pc = "deactivate_count" /\ call.arg = i) => count[i] = 0

\* IRQ 0 never reaches the C function that idtInit leaves in the table: it would
\* return to the interrupted code with ret.
NoRawDelivery == pc # "crashed"

\* pitSleep comes to an end, whenever it is called and whatever the state of the
\* interrupt flag then is.
SleepReturns == call.op = "sleep" ~> call.op # "sleep"

\* Once the timer runs, a tick that has arrived is taken ("each tick is 1ms").
TicksTaken == pit_initialized /\ irr0 ~> ~ irr0
=============================================================================
