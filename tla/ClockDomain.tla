------------------------------ MODULE ClockDomain ------------------------------
(***************************************************************************)
(* The clock domain crosser of MCsim (src/ClockDomain.cpp) as the          *)
(* multi-channel memory system uses it: one call of update() per CPU cycle *)
(* must run the memory controller clock1/clock2 times on average.  The     *)
(* loop of update() is a step of its own because every iteration calls     *)
(* back into the memory system (actual_update) before the counters are     *)
(* compared again.                                                         *)
(***************************************************************************)
EXTENDS Integers

CONSTANTS
    McsimFreq,   \* clock1: the memory clock, 1/tCK
    CpuFreqs,    \* the frequencies setCPUClockSpeed may be called with
    MaxTicks     \* bound on the number of CPU cycles explored

ASSUME ClockAssumption ==
    /\ McsimFreq \in Nat \ {0}
    /\ CpuFreqs \subseteq Nat
    /\ MaxTicks \in Nat

VARIABLES
    clock2,      \* the CPU frequency the crosser was given
    counter1,    \* memory-clock units owed
    counter2,    \* memory-clock units already delivered
    pc,          \* "idle" between calls of update(), "loop" inside its while
    ticks,       \* calls of update() so far
    clockCycle   \* MultiChannelMemorySystem::clockCycle, callbacks so far

crosserVars == <<clock2, counter1, counter2, pc, ticks, clockCycle>>

\* The constructor makes a 1:1 crosser.
CrosserInit ==
    /\ clock2 = McsimFreq
    /\ counter1 = 0 /\ counter2 = 0
    /\ pc = "idle"
    /\ ticks = 0 /\ clockCycle = 0

\* Mutants: a remainder is thrown away; counters that are never folded back to zero.
UpdateEndResetAlways ==
    /\ pc = "loop" /\ ~(counter2 < counter1)
    /\ pc' = "idle"
    /\ counter1' = 0 /\ counter2' = 0
    /\ UNCHANGED <<clock2, ticks, clockCycle>>

UpdateEndNoReset ==
    /\ pc = "loop" /\ ~(counter2 < counter1)
    /\ pc' = "idle"
    /\ UNCHANGED <<clock2, counter1, counter2, ticks, clockCycle>>

\* The client configures the ratio before it starts clocking; 0 means 1:1.
setCPUClockSpeed(cpuClkFreqHz) ==
    /\ pc = "idle" /\ ticks = 0
    /\ clock2' = IF cpuClkFreqHz = 0 THEN McsimFreq ELSE cpuClkFreqHz
    /\ UNCHANGED <<counter1, counter2, pc, ticks, clockCycle>>

\* actual_update: every channel is clocked once, then the cycle is counted.
actual_update == clockCycle' = clockCycle + 1

\* update() with equal clocks: one callback, the counters are not touched.
UpdateOneToOne ==
    /\ pc = "idle" /\ ticks < MaxTicks
    /\ McsimFreq = clock2
    /\ actual_update
    /\ ticks' = ticks + 1
    /\ UNCHANGED <<clock2, counter1, counter2, pc>>

\* update() with different clocks, up to the test of its loop.
UpdateBegin ==
    /\ pc = "idle" /\ ticks < MaxTicks
    /\ McsimFreq # clock2
    /\ counter1' = counter1 + McsimFreq
    /\ pc' = "loop"
    /\ ticks' = ticks + 1
    /\ UNCHANGED <<clock2, counter2, clockCycle>>

\* One iteration of the loop.
UpdateLoop ==
    /\ pc = "loop" /\ counter2 < counter1
    /\ counter2' = counter2 + clock2
    /\ actual_update
    /\ UNCHANGED <<clock2, counter1, pc, ticks>>

\* The loop ends; equal counters are both reset.
UpdateEnd ==
    /\ pc = "loop" /\ ~(counter2 < counter1)
    /\ pc' = "idle"
    /\ IF counter1 = counter2
       THEN counter1' = 0 /\ counter2' = 0
       ELSE UNCHANGED <<counter1, counter2>>
    /\ UNCHANGED <<clock2, ticks, clockCycle>>

update == UpdateOneToOne \/ UpdateBegin \/ UpdateLoop \/ UpdateEnd

CrosserNext ==
    \/ \E f \in CpuFreqs : setCPUClockSpeed(f)
    \/ update

CrosserSpec == CrosserInit /\ [][CrosserNext]_crosserVars

--------------------------------------------------------------------------------

CrosserTypeOK ==
    /\ clock2 \in Nat \ {0}
    /\ counter1 \in Nat /\ counter2 \in Nat
    /\ pc \in {"idle", "loop"}
    /\ ticks \in Nat /\ clockCycle \in Nat

\* What the counters mean: their difference is the exact difference of the
\* two clocks since the start, although update() resets them now and then.
CountersTrackTime ==
    clockCycle * clock2 - ticks * McsimFreq = counter2 - counter1

\* ClockDomainCrosser::update: between two CPU cycles the memory has been
\* clocked exactly as often as the ratio demands, rounded up: it is never behind
\* the CPU and never a whole memory cycle ahead, however long the run.
NoDrift ==
    pc = "idle" =>
        /\ ticks * McsimFreq <= clockCycle * clock2
        /\ clockCycle * clock2 < ticks * McsimFreq + clock2

\* The 64-bit counters of the crosser cannot run away: both return to zero at
\* the latest when they meet, at the least common multiple of the clocks.
CountersBounded ==
    /\ counter1 <= McsimFreq * clock2
    /\ counter2 <= McsimFreq * clock2

================================================================================
