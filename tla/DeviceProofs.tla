------------------------------ MODULE DeviceProofs ------------------------------
(***************************************************************************)
(* The clock domain crosser never drifts, for every pair of clock          *)
(* frequencies and every length of run.                                    *)
(*                                                                         *)
(* The device keeps its timing tables between any two commands.  Timers    *)
(* and device together keep every bank-level timing, the one before        *)
(* an activate included, and the window of four activates; for DDR3 and    *)
(* for DDR4, whose scheduler has weaker timers and a stronger check, and   *)
(* for every choice of timing parameters.                                  *)
(*                                                                         *)
(* Data finds its owner although it is matched by address only, for any    *)
(* number of requestors, addresses and requests, any latencies and any     *)
(* scheduler that implements RequestService.                               *)
(***************************************************************************)
EXTENDS ClockDomain, Ddr4Device, DataPath, ListLemmas

--------------------------------------------------------------------------------
(* The clock domain crosser. *)

\* Between two calls the delivered time is ahead of the owed time by less than
\* one CPU-clock unit; inside the loop it has not yet overtaken it by more.
Lag ==
    /\ counter2 < counter1 + clock2
    /\ pc = "idle" => counter1 <= counter2

\* The inductive invariant: the counters' meaning and their lag.
CrosserInv == CrosserTypeOK /\ CountersTrackTime /\ Lag

\* Adding one to the number of cycles adds one clock to the time they make.
LEMMA OneCycleMore ==
    ASSUME NEW n \in Int, NEW c \in Int
    PROVE  (n + 1) * c = n * c + c
  OBVIOUS

\* The constructor establishes the invariant.
LEMMA CrosserInvInit == CrosserInit => CrosserInv
  BY ClockAssumption, SMT
     DEF CrosserInit, CrosserInv, CrosserTypeOK, CountersTrackTime, Lag

\* Every step of update() and of setCPUClockSpeed preserves it.
LEMMA CrosserInvNext == CrosserInv /\ [CrosserNext]_crosserVars => CrosserInv'
<1> SUFFICES ASSUME CrosserInv, [CrosserNext]_crosserVars PROVE CrosserInv'
  OBVIOUS
<1> USE ClockAssumption
<1>1. ASSUME NEW f \in CpuFreqs, setCPUClockSpeed(f) PROVE CrosserInv'
  <2>1. f \in Nat
    OBVIOUS
  <2>2. QED
    BY <1>1, <2>1
       DEF CrosserInv, CrosserTypeOK, CountersTrackTime, Lag, setCPUClockSpeed
<1>2. CASE UpdateOneToOne
  <2>1. (clockCycle + 1) * clock2 = clockCycle * clock2 + clock2
    BY OneCycleMore DEF CrosserInv, CrosserTypeOK
  <2>2. (ticks + 1) * McsimFreq = ticks * McsimFreq + McsimFreq
    BY OneCycleMore DEF CrosserInv, CrosserTypeOK
  <2>3. QED
    BY <1>2, <2>1, <2>2
       DEF CrosserInv, CrosserTypeOK, CountersTrackTime, Lag, UpdateOneToOne, actual_update
<1>3. CASE UpdateBegin
  <2>1. (ticks + 1) * McsimFreq = ticks * McsimFreq + McsimFreq
    BY OneCycleMore DEF CrosserInv, CrosserTypeOK
  <2>2. QED
    BY <1>3, <2>1
       DEF CrosserInv, CrosserTypeOK, CountersTrackTime, Lag, UpdateBegin
<1>4. CASE UpdateLoop
  <2>1. (clockCycle + 1) * clock2 = clockCycle * clock2 + clock2
    BY OneCycleMore DEF CrosserInv, CrosserTypeOK
  <2>2. QED
    BY <1>4, <2>1
       DEF CrosserInv, CrosserTypeOK, CountersTrackTime, Lag, UpdateLoop, actual_update
<1>5. CASE UpdateEnd
  BY <1>5 DEF CrosserInv, CrosserTypeOK, CountersTrackTime, Lag, UpdateEnd
<1>6. CASE UNCHANGED crosserVars
  BY <1>6 DEF CrosserInv, CrosserTypeOK, CountersTrackTime, Lag, crosserVars
<1> QED
  BY <1>1, <1>2, <1>3, <1>4, <1>5, <1>6 DEF CrosserNext, update

\* The invariant gives the property the runs check.
LEMMA IInvNoDrift == CrosserInv => NoDrift
  BY ClockAssumption
     DEF CrosserInv, CrosserTypeOK, CountersTrackTime, Lag, NoDrift

\* ClockDomainCrosser::update clocks the memory exactly as often as the ratio
\* of the two clocks demands, after any number of CPU cycles.
THEOREM CrosserNeverDrifts == CrosserSpec => []NoDrift
<1>1. CrosserSpec => []CrosserInv
  BY CrosserInvInit, CrosserInvNext, PTL DEF CrosserSpec
<1>2. QED
  BY <1>1, IInvNoDrift, PTL

\* The counters' difference is always the exact difference of the two clocks.
THEOREM CountersAreTime == CrosserSpec => []CountersTrackTime
<1>1. CrosserSpec => []CrosserInv
  BY CrosserInvInit, CrosserInvNext, PTL DEF CrosserSpec
<1>2. CrosserInv => CountersTrackTime
  BY DEF CrosserInv
<1>3. QED
  BY <1>1, <1>2, PTL

--------------------------------------------------------------------------------
(* The counters stay below the product of the clocks. *)

\* A product grows with its factors.
LEMMA ProductGrows ==
    ASSUME NEW a \in Nat, NEW b \in Nat, NEW c \in Nat, a <= b
    PROVE  a * c <= b * c
<1>1. PICK d \in Nat : b = a + d
  <2>1. b - a \in Nat /\ b = a + (b - a)
    OBVIOUS
  <2>2. QED
    BY <2>1
<1>2. (a + d) * c = a * c + d * c
  OBVIOUS
<1>3. d * c \in Nat /\ a * c \in Nat
  OBVIOUS
<1>4. QED
  BY <1>1, <1>2, <1>3

\* The counters are whole cycles of their clocks: a of the memory, b of the CPU, not
\* more than the other clock has units; when update returns, the first is less.
Whole(a, b) ==
    /\ counter1 = a * McsimFreq /\ counter2 = b * clock2
    /\ a <= clock2 /\ b <= McsimFreq
    /\ pc = "idle" => a < clock2
WholeCycles ==
    /\ \E a, b \in Nat : Whole(a, b)
    /\ ticks = 0 => pc = "idle" /\ counter1 = 0 /\ counter2 = 0

\* Nothing has been counted in the beginning.
LEMMA NothingCounted ==
    ASSUME clock2 \in Nat \ {0}, counter1 = 0, counter2 = 0
    PROVE  Whole(0, 0)
<1>1. 0 * McsimFreq = 0 /\ 0 * clock2 = 0
  BY ClockAssumption
<1>2. QED
  BY <1>1, ClockAssumption DEF Whole

\* The constructor starts with no cycles.
LEMMA InitWhole == CrosserInit => WholeCycles
<1> SUFFICES ASSUME CrosserInit PROVE WholeCycles
  OBVIOUS
<1>1. clock2 \in Nat \ {0} /\ counter1 = 0 /\ counter2 = 0 /\ pc = "idle"
  BY ClockAssumption DEF CrosserInit
<1>2. Whole(0, 0)
  BY <1>1, NothingCounted
<1>3. 0 \in Nat
  OBVIOUS
<1>4. QED
  BY <1>1, <1>2, <1>3 DEF WholeCycles

\* Every step keeps them: the loop adds a CPU cycle only while fewer than
\* McsimFreq have been counted, and when clock2 memory cycles have been counted it
\* ends with equal counters, which are reset.
LEMMA NextWhole == CrosserInv /\ WholeCycles /\ [CrosserNext]_crosserVars => WholeCycles'
<1> SUFFICES ASSUME CrosserInv, WholeCycles, [CrosserNext]_crosserVars PROVE WholeCycles'
  OBVIOUS
<1>t. /\ clock2 \in Nat \ {0} /\ McsimFreq \in Nat \ {0}
      /\ counter1 \in Nat /\ counter2 \in Nat /\ ticks \in Nat
  BY ClockAssumption DEF CrosserInv, CrosserTypeOK
<1>w. PICK a \in Nat, b \in Nat : Whole(a, b)
  BY DEF WholeCycles
<1>z. a + 1 \in Nat /\ b + 1 \in Nat /\ 0 \in Nat
  OBVIOUS
<1>1. ASSUME NEW f \in CpuFreqs, setCPUClockSpeed(f) PROVE WholeCycles'
  <2>1. /\ clock2' \in Nat \ {0} /\ counter1' = 0 /\ counter2' = 0
        /\ pc' = "idle" /\ ticks' = 0
    BY <1>1, <1>t, ClockAssumption DEF setCPUClockSpeed, WholeCycles
  <2>2. Whole(0, 0)'
    <3>1. PICK c \in Nat \ {0} : clock2' = c
      BY <2>1
    <3>2. 0 * McsimFreq = 0 /\ 0 * c = 0
      BY <1>t
    <3>3. McsimFreq \in Nat \ {0} /\ 0 <= c /\ 0 < c /\ 0 <= McsimFreq
      BY <1>t
    <3>4. QED
      BY <3>1, <3>2, <3>3, <2>1 DEF Whole
  <2>3. QED
    BY <2>1, <2>2, <1>z DEF WholeCycles
<1>2. CASE UpdateOneToOne
  <2>1. Whole(a, b)' /\ ticks' # 0
    BY <1>2, <1>w, <1>t DEF Whole, UpdateOneToOne
  <2>2. QED
    BY <2>1 DEF WholeCycles
<1>3. CASE UpdateBegin
  <2>1. (a + 1) * McsimFreq = a * McsimFreq + McsimFreq
    BY OneCycleMore, <1>t
  <2>2. Whole(a + 1, b)' /\ ticks' # 0
    BY <1>3, <1>w, <1>t, <2>1 DEF Whole, UpdateBegin
  <2>3. QED
    BY <2>2, <1>z DEF WholeCycles
<1>4. CASE UpdateLoop
  <2>1. (b + 1) * clock2 = b * clock2 + clock2
    BY OneCycleMore, <1>t
  <2>2. a * McsimFreq <= clock2 * McsimFreq
    BY ProductGrows, <1>w, <1>t DEF Whole
  <2>3. b < McsimFreq
    <3>1. SUFFICES ASSUME McsimFreq <= b PROVE FALSE
      BY <1>t
    <3>2. McsimFreq * clock2 <= b * clock2
      BY <3>1, ProductGrows, <1>t
    <3>3. McsimFreq * clock2 = clock2 * McsimFreq
      BY <1>t
    <3>4. QED
      BY <3>2, <3>3, <2>2, <1>4, <1>w, <1>t DEF Whole, UpdateLoop
  <2>4. Whole(a, b + 1)'
    BY <1>4, <1>w, <1>t, <2>1, <2>3 DEF Whole, UpdateLoop
  <2>5. ticks' # 0
    BY <1>4, <1>t DEF UpdateLoop, WholeCycles
  <2>6. QED
    BY <2>4, <2>5, <1>z DEF WholeCycles
<1>5. CASE UpdateEnd
  <2>0. ticks' # 0
    BY <1>5, <1>t DEF UpdateEnd, WholeCycles
  <2>1. CASE counter1 = counter2
    <3>1. Whole(0, 0)'
      <4>1. 0 * McsimFreq = 0 /\ 0 * clock2 = 0
        BY <1>t
      <4>2. QED
        BY <4>1, <2>1, <1>5, <1>t DEF Whole, UpdateEnd
    <3>2. QED
      BY <3>1, <2>0, <1>z DEF WholeCycles
  <2>2. CASE counter1 # counter2
    <3>1. a < clock2
      <4>1. SUFFICES ASSUME a = clock2 PROVE FALSE
        BY <1>w, <1>t DEF Whole
      <4>2. b * clock2 <= McsimFreq * clock2
        BY ProductGrows, <1>w, <1>t DEF Whole
      <4>3. clock2 * McsimFreq = McsimFreq * clock2
        BY <1>t
      <4>4. QED
        BY <4>1, <4>2, <4>3, <2>2, <1>5, <1>w, <1>t DEF Whole, UpdateEnd
    <3>2. Whole(a, b)'
      BY <3>1, <2>2, <1>5, <1>w, <1>t DEF Whole, UpdateEnd
    <3>3. QED
      BY <3>2, <2>0 DEF WholeCycles
  <2>3. QED
    BY <2>1, <2>2
<1>6. CASE UNCHANGED crosserVars
  <2>1. Whole(a, b)'
    BY <1>6, <1>w DEF Whole, crosserVars
  <2>2. QED
    BY <2>1, <1>6 DEF WholeCycles, crosserVars
<1> QED
  BY <1>1, <1>2, <1>3, <1>4, <1>5, <1>6 DEF CrosserNext, update

\* Whole cycles of one clock, at most as many as the other clock has units, are at
\* most the product of the clocks.
LEMMA WholeBounds == CrosserInv /\ WholeCycles => CountersBounded
<1> SUFFICES ASSUME CrosserInv, WholeCycles PROVE CountersBounded
  OBVIOUS
<1>1. clock2 \in Nat /\ McsimFreq \in Nat
  BY ClockAssumption DEF CrosserInv, CrosserTypeOK
<1>2. PICK a \in Nat, b \in Nat : Whole(a, b)
  BY DEF WholeCycles
<1>3. a * McsimFreq <= clock2 * McsimFreq
  BY ProductGrows, <1>1, <1>2 DEF Whole
<1>4. b * clock2 <= McsimFreq * clock2
  BY ProductGrows, <1>1, <1>2 DEF Whole
<1>5. clock2 * McsimFreq = McsimFreq * clock2
  BY <1>1
<1>6. QED
  BY <1>2, <1>3, <1>4, <1>5 DEF Whole, CountersBounded

\* The counters of ClockDomainCrosser::update never exceed the product of the
\* clocks, although only equal counters are ever reset.
THEOREM CountersStayBounded == CrosserSpec => []CountersBounded
<1>1. CrosserSpec => [](CrosserInv /\ WholeCycles)
  BY CrosserInvInit, CrosserInvNext, InitWhole, NextWhole, PTL DEF CrosserSpec
<1>2. QED
  BY <1>1, WholeBounds, PTL

--------------------------------------------------------------------------------
(* The tree of the DDR3 device. *)

\* Every command of the past has left its bound on the future in each node it
\* passed: this is what the maximum in update_timing maintains.
ChannelBound ==
    \A e \in trace, c \in Cmds : ChannelGap(e.cmd, c) # 0 =>
        next_channel[c] >= e.at + ChannelGap(e.cmd, c)
RankBound ==
    \A e \in trace, c \in Cmds : RankGap(e.cmd, c) # 0 =>
        next_rank[c] >= e.at + RankGap(e.cmd, c)
BankBound ==
    \A e \in trace, c \in Cmds : BankGap(e.cmd, c) # 0 =>
        next_bank[e.bank][c] >= e.at + BankGap(e.cmd, c)

\* The past is over.
Past == \A e \in trace : e.at < clk

\* The command on its way to the device passed the check for this very cycle,
\* and nothing has touched the tree since.
BusChecked ==
    bus # NoCmd => check(next_channel, next_rank, next_bank, bus, clk)

\* The inductive invariant.
IInv ==
    /\ TypeOK
    /\ ChannelBound /\ RankBound /\ BankBound
    /\ Past
    /\ BusChecked
    /\ TimingRespected

--------------------------------------------------------------------------------
(* What the tables and the helpers return. *)

\* Every entry of the channel's table is a number of cycles.
LEMMA ChannelGapType ==
    ASSUME NEW p \in Cmds, NEW c \in Cmds
    PROVE  ChannelGap(p, c) \in Nat
  BY DramAssumption DEF ChannelGap, Params

\* Every entry of the rank's table is a number of cycles.
LEMMA RankGapType ==
    ASSUME NEW p \in Cmds, NEW c \in Cmds
    PROVE  RankGap(p, c) \in Nat
  BY DramAssumption, SMTT(30) DEF RankGap, Params

\* Every entry of the bank's table is a number of cycles.
LEMMA BankGapType ==
    ASSUME NEW p \in Cmds, NEW c \in Cmds
    PROVE  BankGap(p, c) \in Nat
  BY DramAssumption, SMTT(30) DEF BankGap, Params

\* Applying an entry never brings a bound forward, and makes it at least the
\* entry's own.
LEMMA LaterBound ==
    ASSUME NEW n \in Times, NEW g \in Nat, NEW at \in Nat
    PROVE  /\ Later(n, g, at) \in Times
           /\ Later(n, g, at) >= n
           /\ g # 0 => Later(n, g, at) >= at + g
  BY DEF Later, Max2, Times

\* Pushing on the activate history keeps its shape.
LEMMA RememberType ==
    ASSUME prev \in [Acts -> Times \X Times \X Times \X Times],
           NEW p \in Packets, NEW at \in Nat
    PROVE  Remember(p, at) \in [Acts -> Times \X Times \X Times \X Times]
  BY DEF Remember, Packets, Times

\* The four-activate window never brings a bound forward.
LEMMA FawBound ==
    ASSUME prev \in [Acts -> Times \X Times \X Times \X Times],
           NEW n \in Times, NEW p \in Packets, NEW c \in Cmds, NEW at \in Nat
    PROVE  /\ FawLater(n, p, c, at) \in Times
           /\ FawLater(n, p, c, at) >= n
<1>1. CASE FawEntry(p.cmd, c)
  <2>1. p.cmd \in Acts
    BY <1>1 DEF FawEntry, Acts
  <2>2. Remember(p, at)[p.cmd][4] \in Times
    BY <2>1, RememberType DEF Times
  <2>3. S["nFAW"] \in Nat
    BY DramAssumption DEF Params
  <2>4. QED
    BY <2>2, <2>3 DEF FawLater, Max2, Times
<1>2. CASE ~FawEntry(p.cmd, c)
  BY <1>2 DEF FawLater, Times
<1>3. QED
  BY <1>1, <1>2

--------------------------------------------------------------------------------

\* The freshly built tree satisfies the invariant.
LEMMA InitIInv == Init => IInv
<1> SUFFICES ASSUME Init PROVE IInv
  OBVIOUS
<1>1. TypeOK
  BY DEF Init, TypeOK, Times, Events
<1>2. QED
  BY <1>1 DEF Init, IInv, ChannelBound, RankBound, BankBound, Past, BusChecked,
              TimingRespected

\* What a cycle does to the tree when a command is received.
LEMMA ReceiveBounds ==
    ASSUME IInv, bus # NoCmd, update_timing(bus, clk)
    PROVE  /\ next_channel' \in [Cmds -> Times]
           /\ next_rank' \in [Cmds -> Times]
           /\ next_bank' \in [Banks -> [Cmds -> Times]]
           /\ \A c \in Cmds :
                /\ next_channel'[c] >= next_channel[c]
                /\ next_rank'[c] >= next_rank[c]
                /\ \A b \in Banks : next_bank'[b][c] >= next_bank[b][c]
                /\ ChannelGap(bus.cmd, c) # 0 =>
                     next_channel'[c] >= clk + ChannelGap(bus.cmd, c)
                /\ RankGap(bus.cmd, c) # 0 =>
                     next_rank'[c] >= clk + RankGap(bus.cmd, c)
                /\ BankGap(bus.cmd, c) # 0 =>
                     next_bank'[bus.bank][c] >= clk + BankGap(bus.cmd, c)
<1>1. /\ bus \in Packets /\ bus.cmd \in Cmds /\ bus.bank \in Banks
      /\ clk \in Nat
      /\ next_channel \in [Cmds -> Times]
      /\ next_rank \in [Cmds -> Times]
      /\ next_bank \in [Banks -> [Cmds -> Times]]
      /\ prev \in [Acts -> Times \X Times \X Times \X Times]
  BY DramAssumption DEF IInv, TypeOK, Packets
<1>2. ASSUME NEW c \in Cmds
      PROVE  /\ next_channel'[c] \in Times
             /\ next_channel'[c] >= next_channel[c]
             /\ ChannelGap(bus.cmd, c) # 0 =>
                  next_channel'[c] >= clk + ChannelGap(bus.cmd, c)
  <2>1. next_channel'[c] = Later(next_channel[c], ChannelGap(bus.cmd, c), clk)
    BY <1>2 DEF update_timing
  <2>2. ChannelGap(bus.cmd, c) \in Nat /\ next_channel[c] \in Times
    BY <1>1, <1>2, ChannelGapType
  <2>3. QED
    BY <1>1, <2>1, <2>2, LaterBound
<1>3. ASSUME NEW c \in Cmds
      PROVE  /\ next_rank'[c] \in Times
             /\ next_rank'[c] >= next_rank[c]
             /\ RankGap(bus.cmd, c) # 0 =>
                  next_rank'[c] >= clk + RankGap(bus.cmd, c)
  <2> DEFINE l == Later(next_rank[c], RankGap(bus.cmd, c), clk)
  <2>1. next_rank'[c] = FawLater(l, bus, c, clk)
    BY <1>3 DEF update_timing
  <2>2. RankGap(bus.cmd, c) \in Nat /\ next_rank[c] \in Times
    BY <1>1, <1>3, RankGapType
  <2>3. /\ l \in Times /\ l >= next_rank[c]
        /\ RankGap(bus.cmd, c) # 0 => l >= clk + RankGap(bus.cmd, c)
    BY <1>1, <2>2, LaterBound
  <2> HIDE DEF l
  <2>4. FawLater(l, bus, c, clk) \in Times /\ FawLater(l, bus, c, clk) >= l
    BY <1>1, <1>3, <2>3, FawBound
  <2>5. QED
    BY <1>1, <2>1, <2>2, <2>3, <2>4 DEF Times
<1>4. ASSUME NEW c \in Cmds, NEW b \in Banks
      PROVE  /\ next_bank'[b][c] \in Times
             /\ next_bank'[b][c] >= next_bank[b][c]
             /\ (b = bus.bank /\ BankGap(bus.cmd, c) # 0) =>
                  next_bank'[b][c] >= clk + BankGap(bus.cmd, c)
  <2>1. CASE b = bus.bank
    <3>1. next_bank'[b][c] = Later(next_bank[b][c], BankGap(bus.cmd, c), clk)
      BY <1>1, <1>4, <2>1 DEF update_timing
    <3>2. BankGap(bus.cmd, c) \in Nat /\ next_bank[b][c] \in Times
      BY <1>1, <1>4, BankGapType
    <3>3. QED
      BY <1>1, <2>1, <3>1, <3>2, LaterBound
  <2>2. CASE b # bus.bank
    BY <1>1, <1>4, <2>2 DEF update_timing, Times
  <2>3. QED
    BY <2>1, <2>2
<1>5. next_channel' \in [Cmds -> Times] /\ next_rank' \in [Cmds -> Times]
  <2>1. DOMAIN next_channel' = Cmds /\ DOMAIN next_rank' = Cmds
    BY DEF update_timing
  <2>2. /\ next_channel' = [c \in Cmds |-> next_channel'[c]]
        /\ next_rank' = [c \in Cmds |-> next_rank'[c]]
    BY DEF update_timing
  <2>3. QED
    BY <1>2, <1>3, <2>2
<1>6. next_bank' \in [Banks -> [Cmds -> Times]]
  <2>1. \A b \in Banks : next_bank'[b] = [c \in Cmds |-> next_bank'[b][c]]
    BY <1>1 DEF update_timing
  <2>2. \A b \in Banks : next_bank'[b] \in [Cmds -> Times]
    BY <1>4, <2>1
  <2>3. next_bank' = [b \in Banks |-> next_bank'[b]]
    BY <1>1 DEF update_timing
  <2>4. QED
    BY <2>2, <2>3
<1>7. QED
  BY <1>1, <1>2, <1>3, <1>4, <1>5, <1>6

\* The command that is received respects every earlier one: it passed the check,
\* and the check compares it with the bounds the earlier ones left.
LEMMA ReceivedRespects ==
    ASSUME IInv, bus # NoCmd, NEW e \in trace
    PROVE  /\ clk - e.at >= ChannelGap(e.cmd, bus.cmd)
           /\ scope(bus.cmd) # Channel => clk - e.at >= RankGap(e.cmd, bus.cmd)
           /\ (scope(bus.cmd) \notin {Channel, Rank} /\ e.bank = bus.bank)
                => clk - e.at >= BankGap(e.cmd, bus.cmd)
<1>1. /\ bus \in Packets /\ bus.cmd \in Cmds /\ bus.bank \in Banks
      /\ clk \in Nat /\ e.at \in Nat /\ e.cmd \in Cmds /\ e.bank \in Banks
      /\ e.at < clk
      /\ next_channel[bus.cmd] \in Times
      /\ next_rank[bus.cmd] \in Times
      /\ next_bank[bus.bank][bus.cmd] \in Times
  BY DramAssumption DEF IInv, TypeOK, Packets, Events, Past
<1>2. /\ ChannelGap(e.cmd, bus.cmd) \in Nat
      /\ RankGap(e.cmd, bus.cmd) \in Nat
      /\ BankGap(e.cmd, bus.cmd) \in Nat
  BY <1>1, ChannelGapType, RankGapType, BankGapType
<1>3. check(next_channel, next_rank, next_bank, bus, clk)
  BY DEF IInv, BusChecked
<1>4. clk - e.at >= ChannelGap(e.cmd, bus.cmd)
  <2>1. CASE ChannelGap(e.cmd, bus.cmd) = 0
    BY <1>1, <2>1
  <2>2. CASE ChannelGap(e.cmd, bus.cmd) # 0
    <3>1. next_channel[bus.cmd] >= e.at + ChannelGap(e.cmd, bus.cmd)
      BY <1>1, <2>2 DEF IInv, ChannelBound
    <3>2. Ready(next_channel[bus.cmd], clk)
      BY <1>3 DEF check
    <3>3. QED
      BY <1>1, <1>2, <3>1, <3>2 DEF Ready, Times
  <2>3. QED
    BY <2>1, <2>2
<1>5. ASSUME scope(bus.cmd) # Channel
      PROVE  clk - e.at >= RankGap(e.cmd, bus.cmd)
  <2>1. CASE RankGap(e.cmd, bus.cmd) = 0
    BY <1>1, <2>1
  <2>2. CASE RankGap(e.cmd, bus.cmd) # 0
    <3>1. next_rank[bus.cmd] >= e.at + RankGap(e.cmd, bus.cmd)
      BY <1>1, <2>2 DEF IInv, RankBound
    <3>2. Ready(next_rank[bus.cmd], clk)
      BY <1>3, <1>5 DEF check
    <3>3. QED
      BY <1>1, <1>2, <3>1, <3>2 DEF Ready, Times
  <2>3. QED
    BY <2>1, <2>2
<1>6. ASSUME scope(bus.cmd) \notin {Channel, Rank}, e.bank = bus.bank
      PROVE  clk - e.at >= BankGap(e.cmd, bus.cmd)
  <2>1. CASE BankGap(e.cmd, bus.cmd) = 0
    BY <1>1, <2>1
  <2>2. CASE BankGap(e.cmd, bus.cmd) # 0
    <3>1. next_bank[bus.bank][bus.cmd] >= e.at + BankGap(e.cmd, bus.cmd)
      BY <1>1, <1>6, <2>2 DEF IInv, BankBound
    <3>2. Ready(next_bank[bus.bank][bus.cmd], clk)
      BY <1>3, <1>6 DEF check
    <3>3. QED
      BY <1>1, <1>2, <3>1, <3>2 DEF Ready, Times
  <2>3. QED
    BY <2>1, <2>2
<1>7. QED
  BY <1>4, <1>5, <1>6

\* Receiving a command and deciding the next one, whoever decides, preserves the
\* invariant as long as what is decided passes the check for the cycle to come.
LEMMA ReceiveIInv ==
    ASSUME IInv, receiveFromBus, clk' = clk + 1,
           bus' \in Packets \cup {NoCmd}, BusChecked'
    PROVE  IInv'
<1> DEFINE new == [cmd |-> bus.cmd, bank |-> bus.bank, at |-> clk]
<1>1. clk \in Nat /\ clk' = clk + 1
  BY DEF IInv, TypeOK
<1>2. bus' \in Packets \cup {NoCmd} /\ BusChecked'
  OBVIOUS
<1>3. CASE bus = NoCmd
  <2>1. UNCHANGED <<next_channel, next_rank, next_bank, prev, state, row_state,
                    trace>>
    BY <1>3 DEF receiveFromBus
  <2>2. TypeOK'
    BY <1>1, <1>2, <2>1 DEF IInv, TypeOK
  <2>3. /\ ChannelBound' /\ RankBound' /\ BankBound' /\ TimingRespected'
    BY <2>1 DEF IInv, ChannelBound, RankBound, BankBound, TimingRespected
  <2>4. Past'
    BY <1>1, <2>1 DEF IInv, TypeOK, Events, Past
  <2>5. QED
    BY <1>2, <2>2, <2>3, <2>4 DEF IInv
<1>4. CASE bus # NoCmd
  <2>1. /\ update_state(bus) /\ update_timing(bus, clk)
        /\ trace' = trace \cup {new}
    BY <1>4 DEF receiveFromBus
  <2>2. /\ bus \in Packets /\ bus.cmd \in Cmds /\ bus.bank \in Banks
        /\ bus.row \in Rows
        /\ trace \subseteq Events /\ Past
    BY <1>4, DramAssumption DEF IInv, TypeOK, Packets
  <2>3. new \in Events /\ new.cmd = bus.cmd /\ new.bank = bus.bank /\ new.at = clk
    BY <1>1, <2>2 DEF Events
  <2> HIDE DEF new
  <2>4. TypeOK'
    <3>1. /\ next_channel' \in [Cmds -> Times]
          /\ next_rank' \in [Cmds -> Times]
          /\ next_bank' \in [Banks -> [Cmds -> Times]]
      BY <1>4, <2>1, ReceiveBounds
    <3>2. prev' \in [Acts -> Times \X Times \X Times \X Times]
      BY <1>1, <2>1, <2>2, RememberType DEF IInv, TypeOK, update_timing
    <3>3. state' \in [Banks -> {"Opened", "Closed"}]
      BY <2>1 DEF IInv, TypeOK, update_state
    <3>4. row_state' \in [Banks -> SUBSET Rows]
      BY <2>1, <2>2 DEF IInv, TypeOK, update_state
    <3>5. QED
      BY <1>1, <1>2, <2>1, <2>2, <2>3, <3>1, <3>2, <3>3, <3>4 DEF TypeOK
  <2>5. Past'
    BY <1>1, <2>1, <2>2, <2>3 DEF Past, Events
  <2>6. ASSUME NEW e \in trace', NEW c \in Cmds
        PROVE  /\ ChannelGap(e.cmd, c) # 0 =>
                    next_channel'[c] >= e.at + ChannelGap(e.cmd, c)
               /\ RankGap(e.cmd, c) # 0 =>
                    next_rank'[c] >= e.at + RankGap(e.cmd, c)
               /\ BankGap(e.cmd, c) # 0 =>
                    next_bank'[e.bank][c] >= e.at + BankGap(e.cmd, c)
    <3>1. CASE e = new
      BY <1>4, <2>1, <2>3, <2>6, <3>1, ReceiveBounds
    <3>2. CASE e \in trace
      <4>1. /\ e.cmd \in Cmds /\ e.bank \in Banks /\ e.at \in Nat
        BY <2>2, <3>2 DEF Events
      <4>2. /\ ChannelGap(e.cmd, c) \in Nat
            /\ RankGap(e.cmd, c) \in Nat
            /\ BankGap(e.cmd, c) \in Nat
        BY <2>6, <4>1, ChannelGapType, RankGapType, BankGapType
      <4>3. /\ next_channel[c] \in Times /\ next_rank[c] \in Times
            /\ next_bank[e.bank][c] \in Times
            /\ next_channel'[c] \in Times /\ next_rank'[c] \in Times
            /\ next_bank'[e.bank][c] \in Times
        BY <2>4, <2>6, <4>1 DEF IInv, TypeOK
      <4>4. /\ next_channel'[c] >= next_channel[c]
            /\ next_rank'[c] >= next_rank[c]
            /\ next_bank'[e.bank][c] >= next_bank[e.bank][c]
        BY <1>4, <2>1, <2>6, <4>1, ReceiveBounds
      <4>5. /\ ChannelGap(e.cmd, c) # 0 =>
                 next_channel[c] >= e.at + ChannelGap(e.cmd, c)
            /\ RankGap(e.cmd, c) # 0 =>
                 next_rank[c] >= e.at + RankGap(e.cmd, c)
            /\ BankGap(e.cmd, c) # 0 =>
                 next_bank[e.bank][c] >= e.at + BankGap(e.cmd, c)
        BY <2>6, <3>2 DEF IInv, ChannelBound, RankBound, BankBound
      <4>6. QED
        BY <4>1, <4>2, <4>3, <4>4, <4>5 DEF Times
    <3>3. QED
      BY <2>1, <2>6, <3>1, <3>2
  <2>7. ChannelBound' /\ RankBound' /\ BankBound'
    BY <2>6 DEF ChannelBound, RankBound, BankBound
  <2>8. TimingRespected'
    <3> SUFFICES ASSUME NEW e \in trace', NEW f \in trace', e.at < f.at
                 PROVE  /\ f.at - e.at >= ChannelGap(e.cmd, f.cmd)
                        /\ scope(f.cmd) # Channel
                             => f.at - e.at >= RankGap(e.cmd, f.cmd)
                        /\ (scope(f.cmd) \notin {Channel, Rank}
                                /\ e.bank = f.bank)
                             => f.at - e.at >= BankGap(e.cmd, f.cmd)
      BY DEF TimingRespected
    <3>1. CASE f \in trace
      <4>1. e \in trace
        BY <1>1, <2>1, <2>2, <2>3, <3>1 DEF Past, Events
      <4>2. QED
        BY <3>1, <4>1 DEF IInv, TimingRespected
    <3>2. CASE f = new
      <4>1. e \in trace
        BY <1>1, <2>1, <2>3, <3>2
      <4>2. QED
        BY <1>4, <2>3, <3>2, <4>1, ReceivedRespects
    <3>3. QED
      BY <2>1, <3>1, <3>2
  <2>9. QED
    BY <1>2, <2>4, <2>5, <2>7, <2>8 DEF IInv
<1>5. QED
  BY <1>3, <1>4

\* A memory cycle of the DDR3 device preserves the invariant.
LEMMA CycleIInv == ASSUME IInv, Cycle PROVE IInv'
<1>1. clk' = clk + 1 /\ receiveFromBus
  BY DEF Cycle
<1>2. bus' \in Packets \cup {NoCmd} /\ BusChecked'
  BY <1>1 DEF Cycle, Decide, BusChecked
<1>3. QED
  BY <1>1, <1>2, ReceiveIInv

\* Steps that change nothing keep the invariant.
LEMMA StutterIInv == ASSUME IInv, UNCHANGED vars PROVE IInv'
  BY DEF vars, IInv, TypeOK, ChannelBound, RankBound, BankBound, Past,
         BusChecked, check, TimingRespected

\* The invariant holds throughout.
THEOREM DeviceInvariant == Spec => []IInv
<1>1. IInv /\ [Next]_vars => IInv'
  BY CycleIInv, StutterIInv DEF Next
<1>2. QED
  BY <1>1, InitIInv, PTL DEF Spec

\* Types: the bounds in the tree are cycles or -1, and the history of activates that
\* update_timing shifts always has four entries.
THEOREM DeviceTypes == Spec => []TypeOK
<1>1. IInv => TypeOK
  BY DEF IInv
<1>2. QED
  BY <1>1, DeviceInvariant, PTL

\* DRAM::check and DRAM::update together keep any two commands of the channel as
\* far apart as the DDR3 tables demand, down to the level the check visits, for
\* every choice of timing parameters and any number of banks.
THEOREM DeviceRespectsTiming == Spec => []TimingRespected
<1>1. IInv => TimingRespected
  BY DEF IInv
<1>2. QED
  BY <1>1, DeviceInvariant, PTL

--------------------------------------------------------------------------------

(* The timers.  Those for a precharge are left out: DDR4 does not keep them, *)
(* and for both devices the check of the bank is enough.                     *)
Timed == Cmds \ Closes

\* What is left of a timer reaches at least as far as the command that set it.
TimerBound ==
    \A e \in trace, c \in Timed :
        clk + timer[e.bank][c] >= e.at + command_timing(e.cmd, c)

\* The command on its way was ready when it was decided.
BusReady ==
    bus # NoCmd /\ bus.cmd \in Timed => \A e \in trace : e.bank = bus.bank =>
        clk >= e.at + command_timing(e.cmd, bus.cmd)

(* The history of activates. *)

\* The device receives at most one command per cycle.
OnePerCycle == \A e, f \in trace : e.at = f.at => e = f

\* The entries are past times, newest first, -1 where there was no activate yet.
Descending(h) ==
    /\ h[2] = -1 \/ h[2] < h[1]
    /\ h[3] = -1 \/ h[3] < h[2]
    /\ h[4] = -1 \/ h[4] < h[3]

\* An activate is one of the last four or older than the oldest of them.
Remembered(h) ==
    \A e \in trace : e.cmd = "ACT" =>
        e.at \in {h[1], h[2], h[3], h[4]} \/ e.at < h[4]

\* The oldest of the four bounds the next activate.
HistoryExact ==
    /\ Descending(prev["ACT"]) /\ Remembered(prev["ACT"])
    /\ prev["ACT"][1] < clk
    /\ prev["ACT"][4] >= 0 => next_rank["ACT"] >= prev["ACT"][4] + S["nFAW"]

\* The inductive invariant of scheduler and device.
CInv ==
    /\ IInv
    /\ timer \in [Banks -> [Cmds -> Nat]]
    /\ TimerBound
    /\ BusReady
    /\ BankTimingComplete
    /\ OnePerCycle
    /\ HistoryExact
    /\ FourActivateWindow

--------------------------------------------------------------------------------
(* What the tables return. *)

\* Every delay the scheduler asks for is a number of cycles.
LEMMA CommandTimingType ==
    ASSUME NEW p \in Cmds, NEW c \in Cmds
    PROVE  command_timing(p, c) \in Nat
  BY DramAssumption, SMTT(60) DEF command_timing, Params

\* The levels down to which the device checks: an activate down to the rank, a
\* precharge and the two special activates down to the bank, and no command of the
\* controller stops at the channel.
LEMMA Scopes ==
    /\ scope("ACT") = Rank
    /\ \A c \in {"ACT_R", "ACT_W", "PRE"} : scope(c) \notin {Channel, Rank}
    /\ \A c \in Cmds : scope(c) # Channel
<1> DEFINE place(c) == CHOOSE j \in 1..Len(Command) : Command[j] = c
<1>1. Len(Command) = 14 /\ Len(ScopeInitialisers) = 12
  BY DEF Command, ScopeInitialisers
<1>2. \A i, j \in 1..14 : Command[i] = Command[j] => i = j
  BY SMTT(60) DEF Command
<1>3. ASSUME NEW i \in 1..10
      PROVE  scope(Command[i]) = ScopeInitialisers[i]
  <2>1. scope(Command[i]) = IF place(Command[i]) <= Len(ScopeInitialisers)
                            THEN ScopeInitialisers[place(Command[i])] ELSE Channel
    BY Zenon DEF scope
  <2>2. i \in 1..14 /\ i <= 12
    OBVIOUS
  <2>3. place(Command[i]) = i
    BY <1>1, <1>2, <2>2
  <2> HIDE DEF place
  <2>4. QED
    BY <1>1, <2>1, <2>2, <2>3
<1>4. /\ Command[1] = "ACT_R" /\ Command[2] = "ACT_W" /\ Command[3] = "ACT"
      /\ Command[4] = "PRE" /\ Command[5] = "PREA" /\ Command[6] = "RD"
      /\ Command[7] = "WR" /\ Command[8] = "RDA" /\ Command[9] = "WRA"
      /\ Command[10] = "REF"
  BY DEF Command
<1>5. /\ ScopeInitialisers[1] = Row /\ ScopeInitialisers[2] = Bank
      /\ ScopeInitialisers[3] = Rank /\ ScopeInitialisers[4] = Column
      /\ ScopeInitialisers[5] = Column /\ ScopeInitialisers[6] = Column
      /\ ScopeInitialisers[7] = Column /\ ScopeInitialisers[8] = Rank
      /\ ScopeInitialisers[9] = Rank /\ ScopeInitialisers[10] = Rank
  BY DEF ScopeInitialisers
<1>6. /\ scope("ACT_R") = Row /\ scope("ACT_W") = Bank /\ scope("ACT") = Rank
      /\ scope("PRE") = Column /\ scope("PREA") = Column /\ scope("RD") = Column
      /\ scope("WR") = Column /\ scope("RDA") = Rank /\ scope("WRA") = Rank
      /\ scope("REF") = Rank
  <2>1. /\ 1 \in 1..10 /\ 2 \in 1..10 /\ 3 \in 1..10 /\ 4 \in 1..10 /\ 5 \in 1..10
        /\ 6 \in 1..10 /\ 7 \in 1..10 /\ 8 \in 1..10 /\ 9 \in 1..10 /\ 10 \in 1..10
    OBVIOUS
  <2>2. /\ scope(Command[1]) = ScopeInitialisers[1]
        /\ scope(Command[2]) = ScopeInitialisers[2]
        /\ scope(Command[3]) = ScopeInitialisers[3]
        /\ scope(Command[4]) = ScopeInitialisers[4]
        /\ scope(Command[5]) = ScopeInitialisers[5]
        /\ scope(Command[6]) = ScopeInitialisers[6]
        /\ scope(Command[7]) = ScopeInitialisers[7]
        /\ scope(Command[8]) = ScopeInitialisers[8]
        /\ scope(Command[9]) = ScopeInitialisers[9]
        /\ scope(Command[10]) = ScopeInitialisers[10]
    BY <1>3, <2>1
  <2>3. QED
    BY <2>2, <1>4, <1>5
<1>7. QED
  BY <1>6 DEF Row, Bank, Channel, Rank, Column, Cmds, Acts, Closes, Reads, Writes

\* For every other command the scheduler's delay covers the bank's table.
LEMMA TimersCoverBank ==
    ASSUME NEW p \in Cmds, NEW c \in Cmds \ {"ACT_R", "ACT_W"}
    PROVE  command_timing(p, c) >= BankGap(p, c)
<1>1. /\ \A q \in Params : S[q] \in Nat
      /\ S["nBL"] <= 4
      /\ command_timing(p, c) \in Nat
  BY DramAssumption, BurstAssumption, CommandTimingType
<1>2. CASE c \in Reads \cup Writes
  <2>1. CASE p \in Acts
    <3>1. BankGap(p, c) = S["nRCD"]
      BY <1>2, <2>1, SMT DEF BankGap, Acts, Reads, Writes
    <3>2. command_timing(p, c) = S["nRCD"]
      BY <1>2, <2>1, SMT
         DEF command_timing, Acts, Closes, Reads, Writes
    <3>3. QED
      BY <1>1, <3>1, <3>2 DEF Params
  <2>2. CASE p \notin Acts
    <3>1. BankGap(p, c) = 0
      BY <1>2, <2>2, SMT DEF BankGap, Acts, Reads, Writes
    <3>2. QED
      BY <1>1, <3>1
  <2>3. QED
    BY <2>1, <2>2
<1>3. CASE c = "PRE"
  <2>1. CASE p \in Acts
    BY <1>1, <1>3, <2>1, SMT
       DEF BankGap, command_timing, Params, Acts, Closes, Reads, Writes
  <2>2. CASE p \in {"RD", "WR"}
    BY <1>1, <1>3, <2>2, SMT
       DEF BankGap, command_timing, Params, Acts, Closes, Reads, Writes
  <2>3. CASE p \notin Acts \cup {"RD", "WR"}
    <3>1. BankGap(p, c) = 0
      BY <1>3, <2>3, SMT DEF BankGap, Acts, Reads, Writes
    <3>2. QED
      BY <1>1, <3>1
  <2>4. QED
    BY <2>1, <2>2, <2>3
<1>4. CASE c \in {"PREA", "REF"}
  <2>1. BankGap(p, c) = 0
    BY <1>4, SMT DEF BankGap, Acts, Reads, Writes
  <2>2. QED
    BY <1>1, <2>1
<1>5. CASE c = "ACT"
  <2>1. CASE p \in {"RDA", "WRA"}
    BY <1>1, <1>5, <2>1, SMT
       DEF BankGap, command_timing, Params, Acts, Closes, Reads, Writes
  <2>2. CASE p \in {"ACT", "PRE"}
    BY <1>1, <1>5, <2>2, SMT
       DEF BankGap, command_timing, Params, Acts, Closes, Reads, Writes
  <2>3. CASE p \notin {"RDA", "WRA", "ACT", "PRE"}
    <3>1. BankGap(p, c) = 0
      BY <1>5, <2>3, SMT DEF BankGap, Acts, Reads, Writes
    <3>2. QED
      BY <1>1, <3>1
  <2>4. QED
    BY <2>1, <2>2, <2>3
<1>6. QED
  BY <1>2, <1>3, <1>4, <1>5 DEF Cmds, Acts, Closes

--------------------------------------------------------------------------------
(* Sending a command. *)

\* What both schedulers do to the timers: raise them, those of the bank that gets a
\* command at least to its delays.
Raised(t) ==
    /\ t \in [Banks -> [Cmds -> Nat]]
    /\ \A b \in Banks, c \in Cmds : t[b][c] >= timer[b][c]
    /\ bus # NoCmd => \A c \in Timed : t[bus.bank][c] >= command_timing(bus.cmd, c)

\* Raising the timers of one bank by any table that has the delays of DDR3 for the
\* commands that are not precharges.
LEMMA RaisedBy ==
    ASSUME IInv, timer \in [Banks -> [Cmds -> Nat]], bus # NoCmd,
           NEW delay \in [Cmds -> Nat],
           \A c \in Timed : delay[c] = command_timing(bus.cmd, c),
           NEW t, t = [timer EXCEPT ![bus.bank] = [c \in Cmds |->
                            Max2(timer[bus.bank][c], delay[c])]]
    PROVE  Raised(t)
<1>1. bus.cmd \in Cmds /\ bus.bank \in Banks
  BY DramAssumption DEF IInv, TypeOK, Packets
<1>2. \A c \in Cmds : /\ timer[bus.bank][c] \in Nat /\ delay[c] \in Nat
                      /\ t[bus.bank][c] = Max2(timer[bus.bank][c], delay[c])
  BY <1>1
<1>3. \A c \in Cmds : /\ t[bus.bank][c] \in Nat
                      /\ t[bus.bank][c] >= timer[bus.bank][c]
                      /\ t[bus.bank][c] >= delay[c]
  BY <1>2 DEF Max2
<1>4. \A b \in Banks : b # bus.bank => t[b] = timer[b]
  BY <1>1
<1>5. t \in [Banks -> [Cmds -> Nat]]
  <2>1. [c \in Cmds |-> Max2(timer[bus.bank][c], delay[c])] \in [Cmds -> Nat]
    BY <1>2 DEF Max2
  <2>2. QED
    BY <1>1, <2>1
<1>6. ASSUME NEW b \in Banks, NEW c \in Cmds
      PROVE  t[b][c] >= timer[b][c]
  <2>1. timer[b][c] \in Nat
    OBVIOUS
  <2>2. QED
    BY <1>3, <1>4, <2>1
<1>7. Timed \subseteq Cmds
  BY DEF Timed
<1>8. QED
  BY <1>3, <1>5, <1>6, <1>7 DEF Raised

\* sendCommand with the delays of DDR3.
LEMMA SentTimerRaised ==
    ASSUME IInv, timer \in [Banks -> [Cmds -> Nat]]
    PROVE  Raised(SentTimer)
<1>1. CASE bus = NoCmd
  BY <1>1 DEF SentTimer, Raised
<1>2. CASE bus # NoCmd
  <2> DEFINE delay == [c \in Cmds |-> command_timing(bus.cmd, c)]
  <2>1. bus.cmd \in Cmds /\ bus.bank \in Banks /\ Timed \subseteq Cmds
    BY <1>2, DramAssumption DEF IInv, TypeOK, Packets, Timed
  <2>2. delay \in [Cmds -> Nat]
    BY <2>1, CommandTimingType
  <2>3. \A c \in Cmds : delay[c] = command_timing(bus.cmd, c)
    OBVIOUS
  <2> HIDE DEF delay
  <2>4. SentTimer = [timer EXCEPT ![bus.bank] = [c \in Cmds |->
                            Max2(timer[bus.bank][c], delay[c])]]
    BY <1>2, <2>3 DEF SentTimer
  <2>5. QED
    BY <1>2, <2>1, <2>2, <2>3, <2>4, RaisedBy
<1>3. QED
  BY <1>1, <1>2

\* sendCommand with the delays of DDR4, which differ before a precharge only.
LEMMA SentTimer4Raised ==
    ASSUME IInv, timer \in [Banks -> [Cmds -> Nat]]
    PROVE  Raised(SentTimer4)
<1>1. CASE bus = NoCmd
  BY <1>1 DEF SentTimer4, Raised
<1>2. CASE bus # NoCmd
  <2> DEFINE delay == [c \in Cmds |-> command_timing4(bus.cmd, c)]
  <2>1. bus.cmd \in Cmds /\ bus.bank \in Banks
    BY <1>2, DramAssumption DEF IInv, TypeOK, Packets
  <2>2. delay \in [Cmds -> Nat]
    BY <2>1, CommandTimingType DEF command_timing4
  <2>3. \A c \in Cmds : delay[c] = command_timing4(bus.cmd, c)
    OBVIOUS
  <2> HIDE DEF delay
  <2>4. \A c \in Timed : delay[c] = command_timing(bus.cmd, c)
    BY <2>3 DEF Timed, command_timing4
  <2>5. SentTimer4 = [timer EXCEPT ![bus.bank] = [c \in Cmds |->
                            Max2(timer[bus.bank][c], delay[c])]]
    BY <1>2, <2>3 DEF SentTimer4
  <2>6. QED
    BY <1>2, <2>1, <2>2, <2>4, <2>5, RaisedBy
<1>3. QED
  BY <1>1, <1>2

\* A cycle adds at most the command that was on its way to the history.
LEMMA CycleTrace ==
    ASSUME receiveFromBus, NEW e \in trace'
    PROVE  \/ e \in trace
           \/ /\ bus # NoCmd
              /\ e = [cmd |-> bus.cmd, bank |-> bus.bank, at |-> clk]
  BY DEF receiveFromBus

\* After the send, each timer of a bank reaches as far as every command the bank
\* has received, the newest included.
LEMMA SentTimerReaches ==
    ASSUME CInv, receiveFromBus, NEW e \in trace', NEW c \in Timed,
           NEW t, Raised(t)
    PROVE  clk + t[e.bank][c] >= e.at + command_timing(e.cmd, c)
<1>1. clk \in Nat /\ trace \subseteq Events /\ IInv /\ c \in Cmds
  BY DEF CInv, IInv, TypeOK, Timed
<1>2. CASE e \in trace
  <2>1. /\ e.cmd \in Cmds /\ e.bank \in Banks /\ e.at \in Nat
    BY <1>1, <1>2 DEF Events
  <2>2. /\ timer[e.bank][c] \in Nat /\ t[e.bank][c] \in Nat
        /\ t[e.bank][c] >= timer[e.bank][c]
    BY <1>1, <2>1 DEF CInv, Raised
  <2>3. clk + timer[e.bank][c] >= e.at + command_timing(e.cmd, c)
    BY <1>2 DEF CInv, TimerBound
  <2>4. command_timing(e.cmd, c) \in Nat
    BY <1>1, <2>1, CommandTimingType
  <2>5. QED
    BY <1>1, <2>1, <2>2, <2>3, <2>4
<1>3. CASE bus # NoCmd /\ e = [cmd |-> bus.cmd, bank |-> bus.bank, at |-> clk]
  <2>1. bus.cmd \in Cmds /\ bus.bank \in Banks
    BY <1>1, <1>3, DramAssumption DEF IInv, TypeOK, Packets
  <2>2. t[bus.bank][c] \in Nat /\ command_timing(bus.cmd, c) \in Nat
    BY <1>1, <2>1, CommandTimingType DEF Raised
  <2>3. t[bus.bank][c] >= command_timing(bus.cmd, c)
    BY <1>3 DEF Raised
  <2>4. QED
    BY <1>1, <1>3, <2>2, <2>3
<1>4. QED
  BY <1>2, <1>3, CycleTrace

\* The command that is received now has waited for its bank: its timer had run
\* down when it was decided, or the device has checked the bank itself.
LEMMA ReceivedComplete ==
    ASSUME CInv, bus # NoCmd, NEW e \in trace, e.bank = bus.bank
    PROVE  clk - e.at >= BankGap(e.cmd, bus.cmd)
<1>1. /\ IInv /\ clk \in Nat /\ e.at \in Nat /\ e.cmd \in Cmds
      /\ bus.cmd \in Cmds /\ e.at < clk
  BY DramAssumption DEF CInv, IInv, TypeOK, Packets, Events, Past
<1>2. CASE bus.cmd \in {"ACT_R", "ACT_W", "PRE"}
  BY <1>1, <1>2, Scopes, ReceivedRespects
<1>3. CASE bus.cmd = "PREA"
  <2>1. BankGap(e.cmd, bus.cmd) = 0
    BY <1>3, SMT DEF BankGap, Acts, Reads, Writes
  <2>2. QED
    BY <1>1, <2>1
<1>4. CASE bus.cmd \notin {"ACT_R", "ACT_W", "PRE", "PREA"}
  <2>1. bus.cmd \in Timed /\ bus.cmd \in Cmds \ {"ACT_R", "ACT_W"}
    BY <1>1, <1>4 DEF Timed, Closes
  <2>2. command_timing(e.cmd, bus.cmd) >= BankGap(e.cmd, bus.cmd)
    BY <1>1, <2>1, TimersCoverBank
  <2>3. clk >= e.at + command_timing(e.cmd, bus.cmd)
    BY <2>1 DEF CInv, BusReady
  <2>4. BankGap(e.cmd, bus.cmd) \in Nat /\ command_timing(e.cmd, bus.cmd) \in Nat
    BY <1>1, BankGapType, CommandTimingType
  <2>5. QED
    BY <1>1, <2>2, <2>3, <2>4
<1>5. QED
  BY <1>2, <1>3, <1>4

--------------------------------------------------------------------------------
(* The history of activates and its window. *)

\* A set of commands received in different cycles has at most as many members as
\* there are cycles they were received in, here four.
LEMMA AtMostFour ==
    ASSUME NEW W, NEW h1, NEW h2, NEW h3, NEW h4,
           \A e \in W : e.at \in {h1, h2, h3, h4},
           \A e, f \in W : e.at = f.at => e = f
    PROVE  IsFiniteSet(W) /\ Cardinality(W) <= 4
<1> DEFINE T == {h1, h2, h3, h4}
           at == [e \in W |-> e.at]
<1>1. IsFiniteSet({}) /\ Cardinality({}) = 0
  BY FS_EmptySet
<1>2. IsFiniteSet({h1}) /\ Cardinality({h1}) = 1
  BY FS_Singleton
<1>3. IsFiniteSet({h1, h2}) /\ Cardinality({h1, h2}) <= 2
  <2>1. {h1, h2} = {h1} \cup {h2}
    OBVIOUS
  <2>2. QED
    BY <1>2, <2>1, FS_AddElement
<1>4. /\ IsFiniteSet({h1, h2, h3}) /\ Cardinality({h1, h2, h3}) <= 3
      /\ Cardinality({h1, h2}) \in Nat
  <2>1. {h1, h2, h3} = {h1, h2} \cup {h3}
    OBVIOUS
  <2>2. Cardinality({h1, h2}) \in Nat
    BY <1>3, FS_CardinalityType
  <2> DEFINE U == {h1, h2}
             V == {h1, h2, h3}
  <2>3. IsFiniteSet(U) /\ Cardinality(U) <= 2 /\ V = U \cup {h3} /\ Cardinality(U) \in Nat
    BY <1>3, <2>1, <2>2
  <2> HIDE DEF U, V
  <2>4. IsFiniteSet(V) /\ Cardinality(V) <= 3
    BY <2>3, FS_AddElement
  <2>5. QED
    BY <2>2, <2>4 DEF V
<1>5. IsFiniteSet(T) /\ Cardinality(T) <= 4 /\ Cardinality(T) \in Nat
  <2>1. T = {h1, h2, h3} \cup {h4}
    OBVIOUS
  <2>2. Cardinality({h1, h2, h3}) \in Nat
    BY <1>4, FS_CardinalityType
  <2> DEFINE U == {h1, h2, h3}
  <2> HIDE DEF T, U
  <2>3. /\ IsFiniteSet(U \cup {h4})
        /\ Cardinality(U \cup {h4}) = IF h4 \in U THEN Cardinality(U)
                                      ELSE Cardinality(U) + 1
    BY <1>4, FS_AddElement DEF U
  <2>4. IsFiniteSet(T) /\ Cardinality(T) <= 4
    <3>1. T = U \cup {h4} /\ Cardinality(U) <= 3 /\ Cardinality(U) \in Nat
      BY <1>4, <2>1, <2>2 DEF U
    <3>2. QED
      BY <2>3, <3>1
  <2>5. QED
    BY <2>4, FS_CardinalityType
<1>6. at \in Injection(W, T)
  <2>1. at \in [W -> T]
    OBVIOUS
  <2>2. \A e, f \in W : at[e] = at[f] => e = f
    OBVIOUS
  <2>3. QED
    BY <2>1, <2>2 DEF Injection, IsInjective
<1> HIDE DEF T, at
<1>7. IsFiniteSet(W) /\ Cardinality(W) <= Cardinality(T)
  BY <1>5, <1>6, FS_Injection
<1>8. Cardinality(W) \in Nat
  BY <1>7, FS_CardinalityType
<1>9. QED
  BY <1>5, <1>7, <1>8

\* The history is kept exact: an activate is pushed on it, and the entry that becomes
\* the oldest bounds the activates to come.
LEMMA HistoryKept ==
    ASSUME CInv, receiveFromBus, clk' = clk + 1, IInv'
    PROVE  HistoryExact'
<1> DEFINE h == prev["ACT"]
<1>1. /\ clk \in Nat /\ IInv /\ trace \subseteq Events
      /\ prev \in [Acts -> Times \X Times \X Times \X Times]
  BY DEF CInv, IInv, TypeOK
<1>2. "ACT" \in Acts /\ "ACT" \in Cmds
  BY DEF Acts, Cmds
<1>3. h[1] \in Times /\ h[2] \in Times /\ h[3] \in Times /\ h[4] \in Times
  BY <1>1, <1>2
<1>4. /\ Descending(h) /\ Remembered(h) /\ h[1] < clk
      /\ h[4] >= 0 => next_rank["ACT"] >= h[4] + S["nFAW"]
  BY DEF CInv, HistoryExact
<1>5. S["nFAW"] \in Nat
  BY DramAssumption DEF Params
<1>6. next_rank["ACT"] \in Times /\ next_rank'["ACT"] \in Times
  BY <1>1, <1>2 DEF IInv, TypeOK
<1>7. CASE bus = NoCmd
  <2>1. UNCHANGED <<prev, next_rank, trace>>
    BY <1>7 DEF receiveFromBus
  <2>2. h[1] < clk'
    BY <1>1, <1>3, <1>4 DEF Times
  <2>3. QED
    BY <1>4, <2>1, <2>2 DEF HistoryExact, Remembered
<1>8. CASE bus # NoCmd
  <2>1. /\ update_timing(bus, clk)
        /\ trace' = trace \cup {[cmd |-> bus.cmd, bank |-> bus.bank, at |-> clk]}
    BY <1>8 DEF receiveFromBus
  <2>2. prev' = Remember(bus, clk) /\ bus.cmd \in Cmds
    BY <1>1, <1>8, <2>1, DramAssumption DEF update_timing, IInv, TypeOK, Packets
  <2>3. CASE bus.cmd = "ACT"
    <3> DEFINE g == <<clk, h[1], h[2], h[3]>>
               l == Later(next_rank["ACT"], RankGap(bus.cmd, "ACT"), clk)
    <3>1. prev'["ACT"] = g
      BY <1>1, <1>2, <2>2, <2>3 DEF Remember
    <3>2. g[1] = clk /\ g[2] = h[1] /\ g[3] = h[2] /\ g[4] = h[3]
      OBVIOUS
    <3>3. Descending(g)
      BY <1>4, <3>2 DEF Descending
    <3>4. ASSUME NEW e \in trace', e.cmd = "ACT"
          PROVE  e.at \in {g[1], g[2], g[3], g[4]} \/ e.at < g[4]
      <4>1. CASE e \in trace
        <5>1. e.at \in Nat
          BY <1>1, <4>1 DEF Events
        <5>2. e.at \in {h[1], h[2], h[3], h[4]} \/ e.at < h[4]
          BY <1>4, <3>4, <4>1 DEF Remembered
        <5>3. h[4] = -1 \/ h[4] < h[3]
          BY <1>4 DEF Descending
        <5> HIDE DEF h, g
        <5>4. QED
          BY <1>3, <3>2, <5>1, <5>2, <5>3 DEF Times
      <4>2. CASE e = [cmd |-> bus.cmd, bank |-> bus.bank, at |-> clk]
        BY <3>2, <4>2
      <4>3. QED
        BY <2>1, <4>1, <4>2
    <3>5. g[4] >= 0 => next_rank'["ACT"] >= g[4] + S["nFAW"]
      <4>1. next_rank'["ACT"] = FawLater(l, bus, "ACT", clk)
        BY <1>2, <2>1 DEF update_timing
      <4>2. Remember(bus, clk)["ACT"][4] = g[4]
        BY <2>2, <3>1
      <4>3. FawEntry(bus.cmd, "ACT")
        BY <2>3 DEF FawEntry
      <4>4. RankGap(bus.cmd, "ACT") \in Nat
        BY <1>2, <2>2, RankGapType
      <4>5. l \in Times
        BY <1>1, <1>6, <4>4, LaterBound
      <4> HIDE DEF l, g
      <4>6. FawLater(l, bus, "ACT", clk) =
                IF g[4] >= 0 THEN Max2(l, g[4] + S["nFAW"]) ELSE l
        BY <2>3, <4>2, <4>3 DEF FawLater
      <4>7. g[4] \in Times
        BY <1>3, <3>2
      <4>8. QED
        BY <1>5, <4>1, <4>5, <4>6, <4>7 DEF Max2, Times
    <3>6. g[1] < clk'
      BY <1>1, <3>2
    <3> HIDE DEF g
    <3>7. QED
      BY <3>1, <3>3, <3>4, <3>5, <3>6 DEF HistoryExact, Remembered
  <2>4. CASE bus.cmd # "ACT"
    <3>1. prev'["ACT"] = h
      BY <1>1, <1>2, <2>2, <2>4 DEF Remember
    <3>2. next_rank'["ACT"] >= next_rank["ACT"]
      BY <1>1, <1>2, <1>8, <2>1, ReceiveBounds
    <3>3. Remembered(h)'
      BY <1>4, <2>1, <2>4, <3>1 DEF Remembered
    <3>4. h[1] < clk'
      BY <1>1, <1>3, <1>4 DEF Times
    <3>5. h[4] >= 0 => next_rank'["ACT"] >= h[4] + S["nFAW"]
      BY <1>3, <1>4, <1>5, <1>6, <3>2 DEF Times
    <3>6. QED
      BY <1>4, <3>1, <3>3, <3>4, <3>5 DEF HistoryExact
  <2>5. QED
    BY <2>3, <2>4
<1>9. QED
  BY <1>7, <1>8

\* The window: the device checks an activate down to the rank, whose bound the oldest
\* of the four activates before it has set.
LEMMA WindowKept ==
    ASSUME CInv, receiveFromBus, OnePerCycle'
    PROVE  FourActivateWindow'
<1> DEFINE Window(T, f) == {e \in T : /\ e.cmd = "ACT" /\ e.at <= f.at
                                      /\ f.at < e.at + S["nFAW"]}
           h == prev["ACT"]
<1>1. /\ clk \in Nat /\ IInv /\ trace \subseteq Events /\ Past
      /\ prev \in [Acts -> Times \X Times \X Times \X Times]
  BY DEF CInv, IInv, TypeOK
<1>2. "ACT" \in Acts /\ "ACT" \in Cmds
  BY DEF Acts, Cmds
<1>3. h[1] \in Times /\ h[2] \in Times /\ h[3] \in Times /\ h[4] \in Times
  BY <1>1, <1>2
<1>4. /\ Remembered(h)
      /\ h[4] >= 0 => next_rank["ACT"] >= h[4] + S["nFAW"]
  BY DEF CInv, HistoryExact
<1>5. S["nFAW"] \in Nat /\ next_rank["ACT"] \in Times
  BY <1>1, <1>2, DramAssumption DEF Params, IInv, TypeOK
<1>6. ASSUME NEW f \in trace', f.cmd = "ACT"
      PROVE  Cardinality(Window(trace', f)) <= 4
  <2>1. CASE f \in trace
    <3>1. f.at < clk /\ f.at \in Nat
      BY <1>1, <2>1 DEF Past, Events
    <3>2. \A e \in trace' : e.at <= f.at => e \in trace
      BY <1>1, <3>1, CycleTrace
    <3>3. trace \subseteq trace'
      BY DEF receiveFromBus
    <3>4. Window(trace', f) = Window(trace, f)
      BY <3>2, <3>3
    <3>5. QED
      BY <1>6, <2>1, <3>4 DEF CInv, FourActivateWindow
  <2>2. CASE /\ bus # NoCmd
             /\ f = [cmd |-> bus.cmd, bank |-> bus.bank, at |-> clk]
    <3>1. bus.cmd = "ACT" /\ f.at = clk
      BY <1>6, <2>2
    <3>2. Ready(next_rank["ACT"], clk)
      BY <1>1, <2>2, <3>1, Scopes DEF IInv, BusChecked, check, Rank, Channel
    <3>3. h[4] >= 0 => h[4] + S["nFAW"] <= clk
      BY <1>1, <1>3, <1>4, <1>5, <3>2 DEF Ready, Times
    <3>4. ASSUME NEW e \in Window(trace', f)
          PROVE  e.at \in {clk, h[1], h[2], h[3]}
      <4>1. e \in trace' /\ e.cmd = "ACT" /\ clk < e.at + S["nFAW"]
        BY <3>1, <3>4
      <4>2. CASE e \in trace
        <5>1. e.at \in Nat
          BY <1>1, <4>2 DEF Events
        <5>2. e.at \in {h[1], h[2], h[3], h[4]} \/ e.at < h[4]
          BY <1>4, <4>1, <4>2 DEF Remembered
        <5> HIDE DEF h
        <5>3. QED
          BY <1>1, <1>3, <1>5, <3>3, <4>1, <5>1, <5>2 DEF Times
      <4>3. CASE e = [cmd |-> bus.cmd, bank |-> bus.bank, at |-> clk]
        BY <4>3
      <4>4. QED
        BY <4>1, <4>2, <4>3, CycleTrace
    <3>5. \A e, g \in Window(trace', f) : e.at = g.at => e = g
      BY DEF OnePerCycle
    <3> DEFINE W == Window(trace', f)
               h1 == h[1]
               h2 == h[2]
               h3 == h[3]
    <3>6. /\ \A e \in W : e.at \in {clk, h1, h2, h3}
          /\ \A e, g \in W : e.at = g.at => e = g
      BY <3>4, <3>5
    <3> HIDE DEF W, h1, h2, h3
    <3>7. Cardinality(W) <= 4
      BY <3>6, AtMostFour
    <3>8. QED
      BY <3>7 DEF W
  <2>3. QED
    BY <1>6, <2>1, <2>2, CycleTrace
<1>7. QED
  BY <1>6 DEF FourActivateWindow

--------------------------------------------------------------------------------
(* A cycle of scheduler and device. *)

\* Before the first cycle no timer runs and nothing has been received.
LEMMA InitCInv == IssueInit => CInv
<1> SUFFICES ASSUME IssueInit PROVE CInv
  OBVIOUS
<1>1. IInv /\ trace = {} /\ bus = NoCmd /\ clk = 0
  BY InitIInv DEF IssueInit, Init
<1>2. timer \in [Banks -> [Cmds -> Nat]]
  BY DEF IssueInit
<1>3. prev["ACT"] = <<-1, -1, -1, -1>>
  BY DEF IssueInit, Init, Acts
<1>4. HistoryExact
  BY <1>1, <1>3 DEF HistoryExact, Descending, Remembered
<1>5. QED
  BY <1>1, <1>2, <1>4 DEF CInv, TimerBound, BusReady, BankTimingComplete, OnePerCycle,
                           FourActivateWindow

\* A cycle in which the timers are raised and counted down, and in which the command
\* that is decided is ready and passes the check, preserves the invariant.
LEMMA StepCInv ==
    ASSUME CInv, receiveFromBus, clk' = clk + 1,
           bus' \in Packets \cup {NoCmd}, BusChecked',
           NEW t, Raised(t),
           timer' = [b \in Banks |-> [c \in Cmds |-> Ticked(t[b][c])]],
           bus' # NoCmd => t[bus'.bank][bus'.cmd] = 0
    PROVE  CInv'
<1>1. IInv /\ IInv'
  BY ReceiveIInv DEF CInv
<1>2. clk \in Nat
  BY <1>1 DEF IInv, TypeOK
<1>3. \A e \in trace' : e.cmd \in Cmds /\ e.bank \in Banks /\ e.at \in Nat
  BY <1>1 DEF IInv, TypeOK, Events
<1>4. t \in [Banks -> [Cmds -> Nat]] /\ Timed \subseteq Cmds
  BY DEF Raised, Timed
<1>5. timer' \in [Banks -> [Cmds -> Nat]]
  BY <1>4 DEF Ticked
<1>6. TimerBound'
  <2> SUFFICES ASSUME NEW e \in trace', NEW c \in Timed
               PROVE  clk' + timer'[e.bank][c] >= e.at + command_timing(e.cmd, c)
    BY DEF TimerBound
  <2>1. timer'[e.bank][c] = Ticked(t[e.bank][c])
    BY <1>3, <1>4
  <2>2. clk + t[e.bank][c] >= e.at + command_timing(e.cmd, c)
    BY SentTimerReaches
  <2>3. /\ t[e.bank][c] \in Nat /\ command_timing(e.cmd, c) \in Nat
        /\ e.at \in Nat
    BY <1>3, <1>4, CommandTimingType
  <2>4. QED
    BY <1>2, <2>1, <2>2, <2>3 DEF Ticked
<1>7. BusReady'
  <2> SUFFICES ASSUME bus' # NoCmd, bus'.cmd \in Timed,
                      NEW e \in trace', e.bank = bus'.bank
               PROVE  clk' >= e.at + command_timing(e.cmd, bus'.cmd)
    BY DEF BusReady
  <2>1. clk + t[e.bank][bus'.cmd] >= e.at + command_timing(e.cmd, bus'.cmd)
    BY SentTimerReaches
  <2>2. command_timing(e.cmd, bus'.cmd) \in Nat /\ e.at \in Nat
    BY <1>3, <1>4, CommandTimingType
  <2>3. QED
    BY <1>2, <2>1, <2>2
<1>8. BankTimingComplete'
  <2> SUFFICES ASSUME NEW e \in trace', NEW f \in trace', e.at < f.at,
                      e.bank = f.bank
               PROVE  f.at - e.at >= BankGap(e.cmd, f.cmd)
    BY DEF BankTimingComplete
  <2>1. CASE f \in trace
    <3>1. f.at < clk
      BY <1>1, <2>1 DEF IInv, Past
    <3>2. e \in trace
      BY <1>2, <1>3, <3>1, CycleTrace
    <3>3. QED
      BY <2>1, <3>2 DEF CInv, BankTimingComplete
  <2>2. CASE bus # NoCmd /\ f = [cmd |-> bus.cmd, bank |-> bus.bank, at |-> clk]
    <3>1. e \in trace
      BY <1>2, <1>3, <2>2, CycleTrace
    <3>2. QED
      BY <2>2, <3>1, ReceivedComplete
  <2>3. QED
    BY <2>1, <2>2, CycleTrace
<1>9. OnePerCycle'
  <2>1. \A e \in trace : e.at < clk
    BY <1>1 DEF IInv, Past
  <2>2. QED
    BY <1>2, <1>3, <2>1, CycleTrace DEF CInv, OnePerCycle
<1>10. HistoryExact'
  BY <1>1, HistoryKept
<1>11. FourActivateWindow'
  BY <1>9, WindowKept
<1>12. QED
  BY <1>1, <1>5, <1>6, <1>7, <1>8, <1>9, <1>10, <1>11 DEF CInv

\* A cycle with the DDR3 device.
LEMMA IssueCInv == ASSUME CInv, IssueNext PROVE CInv'
<1>1. /\ receiveFromBus /\ clk' = clk + 1
      /\ timer' = [b \in Banks |-> [c \in Cmds |-> Ticked(SentTimer[b][c])]]
  BY DEF IssueNext, Cycle, tick
<1>2. bus' \in Packets \cup {NoCmd} /\ BusChecked'
  BY <1>1 DEF IssueNext, Cycle, Decide, BusChecked
<1>3. bus' # NoCmd => SentTimer[bus'.bank][bus'.cmd] = 0
  BY DEF IssueNext, isReady
<1>4. Raised(SentTimer)
  BY SentTimerRaised DEF CInv
<1>5. QED
  BY <1>1, <1>2, <1>3, <1>4, StepCInv

\* Steps that change nothing keep the invariant.
LEMMA StutterCInv == ASSUME CInv, UNCHANGED issueVars PROVE CInv'
<1>1. UNCHANGED vars /\ timer' = timer
  BY DEF issueVars
<1>2. IInv'
  BY <1>1, StutterIInv DEF CInv
<1>3. QED
  BY <1>1, <1>2 DEF vars, CInv, TimerBound, BusReady, BankTimingComplete, OnePerCycle,
                    HistoryExact, Remembered, FourActivateWindow

\* The timers of CommandScheduler and the check of the device together keep every
\* bank-level entry of DDR3::init_timing, those before an activate included, for
\* every choice of timing parameters with a burst of at most four cycles.
THEOREM BankTimingHolds == IssueSpec => []BankTimingComplete
<1>1. CInv /\ [IssueNext]_issueVars => CInv'
  BY IssueCInv, StutterCInv
<1>2. CInv => BankTimingComplete
  BY DEF CInv
<1>3. QED
  BY <1>1, <1>2, InitCInv, PTL DEF IssueSpec

--------------------------------------------------------------------------------
(* Both devices. *)

\* Every command of the past has left its bound in the bank group.
GroupBound ==
    \A e \in trace, c \in Cmds : GroupGap(e.cmd, c) # 0 =>
        next_group[c] >= e.at + GroupGap(e.cmd, c)

\* The command on its way has passed the check of DDR4 for the cycle before.
SpareChecked ==
    bus # NoCmd =>
        /\ check(next_channel, next_rank, next_bank, bus, clk - 1)
        /\ scope(bus.cmd) \notin {Channel, Rank} => Ready(next_group[bus.cmd], clk - 1)

\* The inductive invariant of the device that was built.
DInv ==
    /\ CInv
    /\ next_group \in [Cmds -> Times]
    /\ gene \in {"DDR3", "DDR4"}
    /\ gene = "DDR4" => GroupBound /\ SpareChecked
    /\ GroupTimingRespected

\* Every entry of the table of the bank group is a number of cycles.
LEMMA GroupGapType ==
    ASSUME NEW p \in Cmds, NEW c \in Cmds
    PROVE  GroupGap(p, c) \in Nat
  BY DramAssumption, LongAssumption, SMTT(30) DEF GroupGap, Params

\* A bound that has passed by the cycle before leaves a cycle to spare.
LEMMA Spare ==
    ASSUME NEW n \in Times, NEW past \in Nat, NEW g \in Nat, NEW at \in Nat,
           g # 0, n >= past + g, Ready(n, at - 1)
    PROVE  at - past > g
  BY DEF Ready, Times

\* What has passed in a cycle has passed in the next one.
LEMMA StillReady ==
    ASSUME NEW n \in Times, NEW at \in Nat, Ready(n, at)
    PROVE  Ready(n, at + 1)
  BY DEF Ready, Times

\* The command that DDR4 receives is behind every bound its check consults, by more
\* than the entry of the table.
LEMMA ReceivedSpared ==
    ASSUME CInv, next_group \in [Cmds -> Times], GroupBound, SpareChecked,
           bus # NoCmd, NEW e \in trace
    PROVE  /\ ChannelGap4(e.cmd, bus.cmd) # 0 => clk - e.at > ChannelGap4(e.cmd, bus.cmd)
           /\ RankGap4(e.cmd, bus.cmd) # 0 => clk - e.at > RankGap4(e.cmd, bus.cmd)
           /\ scope(bus.cmd) \notin {Channel, Rank} =>
                /\ GroupGap(e.cmd, bus.cmd) # 0 => clk - e.at > GroupGap(e.cmd, bus.cmd)
                /\ e.bank = bus.bank /\ BankGap4(e.cmd, bus.cmd) # 0
                        => clk - e.at > BankGap4(e.cmd, bus.cmd)
<1>1. /\ IInv /\ bus.cmd \in Cmds /\ bus.bank \in Banks
      /\ clk \in Nat /\ e.at \in Nat /\ e.cmd \in Cmds /\ e.bank \in Banks
  BY DramAssumption DEF CInv, IInv, TypeOK, Packets, Events
<1>2. /\ next_channel[bus.cmd] \in Times /\ next_rank[bus.cmd] \in Times
      /\ next_bank[bus.bank][bus.cmd] \in Times /\ next_group[bus.cmd] \in Times
  BY <1>1 DEF IInv, TypeOK
<1>3. /\ ChannelGap(e.cmd, bus.cmd) \in Nat /\ RankGap(e.cmd, bus.cmd) \in Nat
      /\ BankGap(e.cmd, bus.cmd) \in Nat /\ GroupGap(e.cmd, bus.cmd) \in Nat
  BY <1>1, ChannelGapType, RankGapType, BankGapType, GroupGapType
<1>4. /\ Ready(next_channel[bus.cmd], clk - 1)
      /\ Ready(next_rank[bus.cmd], clk - 1)
      /\ scope(bus.cmd) \notin {Channel, Rank} =>
            /\ Ready(next_group[bus.cmd], clk - 1)
            /\ Ready(next_bank[bus.bank][bus.cmd], clk - 1)
  BY <1>1, Scopes DEF SpareChecked, check
<1>5. /\ ChannelGap(e.cmd, bus.cmd) # 0 =>
            next_channel[bus.cmd] >= e.at + ChannelGap(e.cmd, bus.cmd)
      /\ RankGap(e.cmd, bus.cmd) # 0 =>
            next_rank[bus.cmd] >= e.at + RankGap(e.cmd, bus.cmd)
      /\ GroupGap(e.cmd, bus.cmd) # 0 =>
            next_group[bus.cmd] >= e.at + GroupGap(e.cmd, bus.cmd)
      /\ BankGap(e.cmd, bus.cmd) # 0 =>
            next_bank[e.bank][bus.cmd] >= e.at + BankGap(e.cmd, bus.cmd)
  BY <1>1 DEF IInv, ChannelBound, RankBound, BankBound, GroupBound
<1>6. ChannelGap(e.cmd, bus.cmd) # 0 => clk - e.at > ChannelGap(e.cmd, bus.cmd)
  BY <1>1, <1>2, <1>3, <1>4, <1>5, Spare
<1>7. RankGap(e.cmd, bus.cmd) # 0 => clk - e.at > RankGap(e.cmd, bus.cmd)
  BY <1>1, <1>2, <1>3, <1>4, <1>5, Spare
<1>8. ASSUME scope(bus.cmd) \notin {Channel, Rank}
      PROVE  GroupGap(e.cmd, bus.cmd) # 0 => clk - e.at > GroupGap(e.cmd, bus.cmd)
  BY <1>1, <1>2, <1>3, <1>4, <1>5, <1>8, Spare
<1>9. ASSUME scope(bus.cmd) \notin {Channel, Rank}, e.bank = bus.bank
      PROVE  BankGap(e.cmd, bus.cmd) # 0 => clk - e.at > BankGap(e.cmd, bus.cmd)
  BY <1>1, <1>2, <1>3, <1>4, <1>5, <1>9, Spare
<1>10. QED
  BY <1>6, <1>7, <1>8, <1>9 DEF ChannelGap4, RankGap4, BankGap4

\* Before the first cycle the group has no bounds.
LEMMA InitDInv == DeviceInit => DInv
  BY InitCInv DEF DeviceInit, IssueInit, Init, DInv, GroupBound, SpareChecked,
                  GroupTimingRespected, Times

\* A cycle of the DDR4 device preserves the invariant.
LEMMA Cycle4DInv == ASSUME DInv, Cycle4, gene = "DDR4", gene' = gene PROVE DInv'
<1>1. /\ CInv /\ IInv /\ receiveFromBus /\ clk' = clk + 1 /\ clk \in Nat
      /\ next_group \in [Cmds -> Times] /\ GroupBound /\ SpareChecked
      /\ GroupTimingRespected
  BY DEF DInv, Cycle4, receiveFromBus4, CInv, IInv, TypeOK
<1>2. /\ next_channel' \in [Cmds -> Times] /\ next_rank' \in [Cmds -> Times]
      /\ next_bank' \in [Banks -> [Cmds -> Times]]
  <2>1. CASE bus = NoCmd
    BY <1>1, <2>1 DEF receiveFromBus, IInv, TypeOK
  <2>2. CASE bus # NoCmd
    BY <1>1, <2>2, ReceiveBounds DEF receiveFromBus
  <2>3. QED
    BY <2>1, <2>2
<1>3. \/ bus' = NoCmd
      \/ /\ bus' \in Packets /\ check4(bus')
         /\ SentTimer4[bus'.bank][bus'.cmd] = 0
  BY DEF Cycle4
<1>4. SpareChecked'
  <2>1. clk' - 1 = clk
    BY <1>1
  <2>2. QED
    BY <1>3, <2>1 DEF SpareChecked, check4
<1>5. bus' \in Packets \cup {NoCmd} /\ BusChecked'
  <2>1. CASE bus' = NoCmd
    BY <2>1 DEF BusChecked
  <2>2. CASE bus' \in Packets /\ check4(bus')
    <3> DEFINE p == bus'
    <3>1. p.cmd \in Cmds /\ p.bank \in Banks
      BY <2>2, DramAssumption DEF Packets
    <3>2. check(next_channel', next_rank', next_bank', p, clk)
      BY <2>2 DEF check4
    <3>3. /\ next_channel'[p.cmd] \in Times /\ next_rank'[p.cmd] \in Times
          /\ next_bank'[p.bank][p.cmd] \in Times
      BY <1>2, <3>1
    <3> HIDE DEF p
    <3>4. check(next_channel', next_rank', next_bank', p, clk + 1)
      BY <1>1, <3>2, <3>3, StillReady DEF check
    <3>5. QED
      BY <1>1, <2>2, <3>4 DEF BusChecked, p
  <2>3. QED
    BY <1>3, <2>1, <2>2
<1>6. CInv'
  <2>1. Raised(SentTimer4)
    BY <1>1, SentTimer4Raised DEF CInv
  <2>2. timer' = [b \in Banks |-> [c \in Cmds |-> Ticked(SentTimer4[b][c])]]
    BY DEF Cycle4
  <2>3. bus' # NoCmd => SentTimer4[bus'.bank][bus'.cmd] = 0
    BY <1>3
  <2>4. QED
    BY <1>1, <1>5, <2>1, <2>2, <2>3, StepCInv
<1>7. /\ next_group' \in [Cmds -> Times]
      /\ \A c \in Cmds :
            /\ next_group'[c] >= next_group[c]
            /\ bus # NoCmd /\ GroupGap(bus.cmd, c) # 0 =>
                 next_group'[c] >= clk + GroupGap(bus.cmd, c)
  <2>1. CASE bus = NoCmd
    BY <1>1, <2>1 DEF Cycle4, receiveFromBus4, Times
  <2>2. CASE bus # NoCmd
    <3>1. bus.cmd \in Cmds
      BY <1>1, <2>2, DramAssumption DEF IInv, TypeOK, Packets
    <3>2. next_group' = [c \in Cmds |-> Later(next_group[c], GroupGap(bus.cmd, c), clk)]
      BY <2>2 DEF Cycle4, receiveFromBus4
    <3>3. \A c \in Cmds : GroupGap(bus.cmd, c) \in Nat /\ next_group[c] \in Times
      BY <1>1, <3>1, GroupGapType
    <3>4. QED
      BY <1>1, <3>2, <3>3, LaterBound
  <2>3. QED
    BY <2>1, <2>2
<1>8. \A e \in trace' : e.cmd \in Cmds /\ e.at \in Nat
  BY <1>6 DEF CInv, IInv, TypeOK, Events
<1>9. GroupBound'
  <2> SUFFICES ASSUME NEW e \in trace', NEW c \in Cmds, GroupGap(e.cmd, c) # 0
               PROVE  next_group'[c] >= e.at + GroupGap(e.cmd, c)
    BY DEF GroupBound
  <2>1. CASE e \in trace
    <3>1. next_group[c] >= e.at + GroupGap(e.cmd, c)
      BY <1>1, <2>1 DEF GroupBound
    <3>2. /\ GroupGap(e.cmd, c) \in Nat /\ e.at \in Nat
          /\ next_group[c] \in Times /\ next_group'[c] \in Times
      BY <1>1, <1>7, <1>8, GroupGapType
    <3>3. QED
      BY <1>7, <3>1, <3>2 DEF Times
  <2>2. CASE bus # NoCmd /\ e = [cmd |-> bus.cmd, bank |-> bus.bank, at |-> clk]
    BY <1>7, <2>2
  <2>3. QED
    BY <1>1, <2>1, <2>2, CycleTrace
<1>10. GroupTimingRespected'
  <2> SUFFICES ASSUME NEW e \in trace', NEW f \in trace', e.at < f.at
               PROVE  /\ ChannelGap4(e.cmd, f.cmd) # 0
                            => f.at - e.at > ChannelGap4(e.cmd, f.cmd)
                      /\ RankGap4(e.cmd, f.cmd) # 0
                            => f.at - e.at > RankGap4(e.cmd, f.cmd)
                      /\ scope(f.cmd) \notin {Channel, Rank} =>
                            /\ GroupGap(e.cmd, f.cmd) # 0
                                => f.at - e.at > GroupGap(e.cmd, f.cmd)
                            /\ e.bank = f.bank /\ BankGap4(e.cmd, f.cmd) # 0
                                => f.at - e.at > BankGap4(e.cmd, f.cmd)
    BY DEF GroupTimingRespected
  <2>1. CASE f \in trace
    <3>1. f.at < clk
      BY <1>1, <2>1 DEF IInv, Past
    <3>2. e \in trace
      BY <1>1, <1>8, <3>1, CycleTrace
    <3>3. QED
      BY <1>1, <2>1, <3>2 DEF GroupTimingRespected
  <2>2. CASE bus # NoCmd /\ f = [cmd |-> bus.cmd, bank |-> bus.bank, at |-> clk]
    <3>1. e \in trace
      BY <1>1, <1>8, <2>2, CycleTrace
    <3>2. f.cmd = bus.cmd /\ f.bank = bus.bank /\ f.at = clk
      BY <2>2
    <3>3. QED
      BY <1>1, <2>2, <3>1, <3>2, ReceivedSpared
  <2>3. QED
    BY <1>1, <2>1, <2>2, CycleTrace
<1>11. QED
  BY <1>4, <1>6, <1>7, <1>9, <1>10 DEF DInv

\* Every step of the device that was built preserves the invariant.
LEMMA NextDInv == DInv /\ [DeviceNext]_deviceVars => DInv'
<1> SUFFICES ASSUME DInv, [DeviceNext]_deviceVars PROVE DInv'
  OBVIOUS
<1>1. CASE gene = "DDR3" /\ IssueNext /\ UNCHANGED <<gene, next_group>>
  <2>1. CInv'
    BY <1>1, IssueCInv DEF DInv
  <2>2. QED
    BY <1>1, <2>1 DEF DInv, GroupTimingRespected
<1>2. CASE gene = "DDR4" /\ Cycle4 /\ UNCHANGED gene
  BY <1>2, Cycle4DInv
<1>3. CASE UNCHANGED deviceVars
  <2>1. UNCHANGED issueVars /\ gene' = gene /\ next_group' = next_group
    BY <1>3 DEF deviceVars
  <2>2. CInv'
    BY <2>1, StutterCInv DEF DInv
  <2>3. QED
    BY <2>1, <2>2 DEF DInv, GroupBound, SpareChecked, check, GroupTimingRespected,
                      issueVars, vars
<1>4. QED
  BY <1>1, <1>2, <1>3 DEF DeviceNext

\* Whichever device MemorySystem builds, its invariant holds throughout.
THEOREM BothDevices == DeviceSpec => []DInv
  BY InitDInv, NextDInv, PTL DEF DeviceSpec

\* Both devices keep all distances of the tables down to the level the check visits.
THEOREM BothRespectTiming == DeviceSpec => []TimingRespected
<1>1. DInv => TimingRespected
  BY DEF DInv, CInv, IInv
<1>2. QED
  BY <1>1, BothDevices, PTL

\* Both schedulers keep the bank-level timing, although the timers of DDR4 before a
\* precharge are lost in a missing break.
THEOREM BothKeepBankTiming == DeviceSpec => []BankTimingComplete
<1>1. DInv => BankTimingComplete
  BY DEF DInv, CInv
<1>2. QED
  BY <1>1, BothDevices, PTL

\* No five activates in any window of tFAW cycles, and in DDR4 the long distances of
\* the bank group with a cycle to spare, for every choice of timing parameters.
THEOREM WindowHolds == DeviceSpec => []WindowAndGroupTiming
<1>1. DInv => WindowAndGroupTiming
  BY DEF DInv, CInv, WindowAndGroupTiming
<1>2. QED
  BY <1>1, BothDevices, PTL

--------------------------------------------------------------------------------
(* The data path of controller and device.  The two directions (reads in   *)
(* the device, writes in the controller) have the same invariant, stated   *)
(* over the values of a pending list P, a buffer B of transfers, the queues *)
(* w and the request s being served.                                       *)

Entry    == [requestor : Requestors, req : Requests]
Transfer == [requestor : Requestors, req : Requests, counter : Int]
Services == {NoService} \cup Entry

Is(b, p) == b.requestor = p.requestor /\ b.req = p.req

PathTypes(P, B, w, s) ==
    /\ P \in Seq(Entry) /\ B \in Seq(Transfer)
    /\ w \in [Requestors -> Seq(Requests)] /\ s \in Services

\* No two objects of one type share an identity, wherever they are.
Distinct(P, B, w, s) ==
    /\ \A i, j \in 1..Len(P) : P[i].req.id = P[j].req.id => i = j
    /\ \A k, l \in 1..Len(B) : B[k].req.id = B[l].req.id => k = l
    /\ \A q, r \in Requestors : \A k \in 1..Len(w[q]), l \in 1..Len(w[r]) :
            w[q][k].id = w[r][l].id => q = r /\ k = l
    /\ \A r \in Requestors : \A k \in 1..Len(w[r]), l \in 1..Len(B) : w[r][k].id # B[l].req.id
    /\ s # NoService =>
        /\ \A l \in 1..Len(B) : B[l].req.id # s.req.id
        /\ \A r \in Requestors : \A k \in 1..Len(w[r]) : w[r][k].id # s.req.id

\* Every pending request waits, is served or is in flight, and the other way round.
Located(P, B, type, w, s) ==
    /\ \A i \in 1..Len(P) :
            /\ P[i].req.type = type
            /\ \/ \E k \in 1..Len(B) : Is(B[k], P[i])
               \/ s = P[i]
               \/ \E k \in 1..Len(w[P[i].requestor]) : w[P[i].requestor][k] = P[i].req
    /\ \A k \in 1..Len(B) : \E i \in 1..Len(P) : Is(B[k], P[i])
    /\ s # NoService /\ s.req.type = type => \E i \in 1..Len(P) : s = P[i]
    /\ \A r \in Requestors : \A k \in 1..Len(w[r]) :
            w[r][k].type = type => \E i \in 1..Len(P) : P[i] = [requestor |-> r, req |-> w[r][k]]

\* p, of the same requestor and address as q, is further on its way than q.
InFront(B, n, p) == \E k \in 1..Len(B) : k < n /\ Is(B[k], p)
Ahead(B, w, s, p, q) ==
    /\ \A l \in 1..Len(B) : Is(B[l], q) => InFront(B, l, p)
    /\ s = q => InFront(B, Len(B) + 1, p)
    /\ \A l \in 1..Len(w[q.requestor]) : w[q.requestor][l] = q.req =>
            \/ InFront(B, Len(B) + 1, p)
            \/ s = p
            \/ \E k \in 1..Len(w[q.requestor]) : k < l /\ w[q.requestor][k] = p.req

\* Requests of one requestor for one address pass through in the order of the list.
SameTarget(p, q) == p.requestor = q.requestor /\ p.req.addr = q.req.addr
Ordered(P, B, w, s) ==
    \A i, j \in 1..Len(P) : i < j /\ SameTarget(P[i], P[j]) => Ahead(B, w, s, P[i], P[j])

PathInv(P, B, type, w, s) ==
    /\ PathTypes(P, B, w, s)
    /\ Distinct(P, B, w, s)
    /\ Located(P, B, type, w, s)
    /\ Ordered(P, B, w, s)

\* The counters: spaced, and at least lo and at most hi.
Spaced(B, lo, hi) ==
    /\ \A k \in 1..Len(B) : B[k].counter \in lo..hi
    /\ \A k \in 1..(Len(B) - 1) : B[k].counter < B[k + 1].counter

\* The inductive invariant.
PathIInv ==
    /\ PathInv(pendingReadRequest, pendingReadData, "RD", waiting, serving)
    /\ PathInv(pendingWriteRequest, sendDataBuffer, "WR", waiting, serving)
    /\ \A i \in 1..Len(pendingReadRequest), j \in 1..Len(pendingWriteRequest) :
            pendingReadRequest[i].req.id # pendingWriteRequest[j].req.id
    /\ Spaced(pendingReadData, 1, ReadLatency - 1)
    /\ Spaced(sendDataBuffer, 0, WriteLatency - 1)

--------------------------------------------------------------------------------

LEMMA ServiceOrNot == NoService \notin Entry
  <1>1. DOMAIN NoService = {"requestor"}
    BY DEF NoService
  <1>2. \A e \in Entry : DOMAIN e = {"requestor", "req"}
    BY DEF Entry
  <1> QED BY <1>1, <1>2

\* The command of the request being served starts its transfer (Started).
LEMMA StartStep ==
    ASSUME NEW P, NEW B, NEW type, NEW w, NEW s, NEW c \in Int,
           PathInv(P, B, type, w, s),
           NEW B2, B2 = IF s # NoService /\ s.req.type = type
                        THEN Append(B, [requestor |-> s.requestor, req |-> s.req, counter |-> c])
                        ELSE B
    PROVE  PathInv(P, B2, type, w, NoService)
  <1> DEFINE starts == s # NoService /\ s.req.type = type
  <1>1. /\ PathTypes(P, B, w, s) /\ Distinct(P, B, w, s)
        /\ Located(P, B, type, w, s) /\ Ordered(P, B, w, s)
    BY DEF PathInv
  <1>2. /\ Len(B) \in Nat /\ B2 \in Seq(Transfer)
        /\ Len(B2) = IF starts THEN Len(B) + 1 ELSE Len(B)
        /\ \A k \in 1..Len(B) : B2[k] = B[k]
        /\ starts => B2[Len(B) + 1] = [requestor |-> s.requestor, req |-> s.req, counter |-> c]
    <2>1. B \in Seq(Transfer)
      BY <1>1 DEF PathTypes
    <2>2. CASE starts
      <3> DEFINE e == [requestor |-> s.requestor, req |-> s.req, counter |-> c]
      <3>1. s \in Entry
        BY <2>2, <1>1 DEF PathTypes, Services
      <3>2. e \in Transfer
        BY <3>1 DEF Entry, Transfer
      <3> HIDE DEF e
      <3>3. B2 = Append(B, e)
        BY <2>2 DEF e
      <3> QED BY <2>1, <2>2, <3>2, <3>3, AppendProperties, LenProperties DEF e
    <2>3. CASE ~starts
      BY <2>1, <2>3, LenProperties
    <2> QED BY <2>2, <2>3
  <1>3. PathTypes(P, B2, w, NoService)
    BY <1>1, <1>2 DEF PathTypes, Services
  <1>4. Distinct(P, B2, w, NoService)
    BY <1>1, <1>2 DEF Distinct
  <1>5. starts => \A p : Is(B2[Len(B) + 1], p) <=> s.requestor = p.requestor /\ s.req = p.req
    BY <1>2 DEF Is
  <1>6. \A i \in 1..Len(P) : /\ P[i] \in Entry /\ P[i].req.type = type /\ P[i] # NoService
                             /\ s = P[i] => starts /\ Is(B2[Len(B) + 1], P[i])
    BY SMTT(30), <1>1, <1>5, ElementOfSeq, ServiceOrNot DEF Located, PathTypes
  <1>7. Located(P, B2, type, w, NoService)
    <2>1. \A k \in 1..Len(B2) : \E i \in 1..Len(P) : Is(B2[k], P[i])
      <3> SUFFICES ASSUME NEW k \in 1..Len(B2) PROVE \E i \in 1..Len(P) : Is(B2[k], P[i])
        OBVIOUS
      <3>1. CASE k \in 1..Len(B)
        BY <3>1, <1>1, <1>2 DEF Located
      <3>2. CASE k = Len(B) + 1
        BY <3>2, <1>1, <1>2, <1>6 DEF Located
      <3> QED BY <3>1, <3>2, <1>2
    <2>2. ASSUME NEW i \in 1..Len(P)
          PROVE  \/ \E k \in 1..Len(B2) : Is(B2[k], P[i])
                 \/ \E k \in 1..Len(w[P[i].requestor]) : w[P[i].requestor][k] = P[i].req
      <3>1. CASE \E k \in 1..Len(B) : Is(B[k], P[i])
        BY <3>1, <1>2
      <3>2. CASE s = P[i]
        BY <3>2, <1>2, <1>6
      <3> QED BY <3>1, <3>2, <1>1 DEF Located
    <2> QED BY <2>1, <2>2, <1>1, <1>6 DEF Located
  <1>8. Ordered(P, B2, w, NoService)
    <2> SUFFICES ASSUME NEW i \in 1..Len(P), NEW j \in 1..Len(P), i < j, SameTarget(P[i], P[j])
                 PROVE  Ahead(B2, w, NoService, P[i], P[j])
      BY DEF Ordered
    <2> DEFINE r == P[j].requestor
    <2>1. Ahead(B, w, s, P[i], P[j])
      BY <1>1 DEF Ordered
    <2>2. ASSUME NEW l \in 1..Len(B2), Is(B2[l], P[j])
          PROVE  InFront(B2, l, P[i])
      <3>1. CASE l \in 1..Len(B)
        BY <3>1, <2>1, <2>2, <1>2 DEF Ahead, InFront, Is
      <3>2. CASE l = Len(B) + 1
        <4>1. starts
          BY <3>2, <1>2
        <4>2. s \in Entry /\ P[j] \in Entry
          BY <4>1, <1>1, <1>6 DEF PathTypes, Services
        <4>3. s.requestor = P[j].requestor /\ s.req = P[j].req
          BY <2>2, <3>2, <4>1, <1>5
        <4>4. s = P[j]
          BY <4>2, <4>3 DEF Entry
        <4> QED BY <4>4, <3>2, <2>1, <1>2 DEF Ahead, InFront, Is
      <3> QED BY <3>1, <3>2, <1>2
    <2>3. ASSUME NEW l \in 1..Len(w[r]), w[r][l] = P[j].req
          PROVE  \/ InFront(B2, Len(B2) + 1, P[i])
                 \/ \E k \in 1..Len(w[r]) : k < l /\ w[r][k] = P[i].req
      <3>1. CASE s = P[i]
        BY <3>1, <1>6, <1>2 DEF InFront
      <3>2. CASE InFront(B, Len(B) + 1, P[i])
        <4>1. PICK k \in 1..Len(B) : Is(B[k], P[i])
          BY <3>2 DEF InFront
        <4>2. k \in 1..Len(B2) /\ k < Len(B2) + 1 /\ B2[k] = B[k]
          BY <1>2, <4>1
        <4> QED BY <4>1, <4>2 DEF InFront
      <3> QED BY <3>1, <3>2, <2>1, <2>3 DEF Ahead
    <2> QED BY <2>2, <2>3, <1>6 DEF Ahead
  <1> QED BY <1>3, <1>4, <1>7, <1>8 DEF PathInv

\* The scheduler chooses the k-th waiting request of r, the first of its kind for its
\* address (Serve).
LEMMA ServeStep ==
    ASSUME NEW P, NEW B, NEW type, NEW w, NEW r \in Requestors, NEW k \in 1..Len(w[r]),
           PathInv(P, B, type, w, NoService),
           \A j \in 1..(k - 1) :
               <<w[r][j].addr, w[r][j].type>> # <<w[r][k].addr, w[r][k].type>>,
           NEW w2, w2 = [w EXCEPT ![r] = RemoveAt(w[r], k)],
           NEW s2, s2 = [requestor |-> r, req |-> w[r][k]]
    PROVE  PathInv(P, B, type, w2, s2)
  <1>1. /\ PathTypes(P, B, w, NoService) /\ Distinct(P, B, w, NoService)
        /\ Located(P, B, type, w, NoService) /\ Ordered(P, B, w, NoService)
    BY DEF PathInv
  <1>2. /\ w \in [Requestors -> Seq(Requests)]
        /\ w[r] \in Seq(Requests) /\ w[r][k] \in Requests /\ Len(w[r]) \in Nat
    <2>1. w \in [Requestors -> Seq(Requests)] /\ w[r] \in Seq(Requests)
      BY <1>1 DEF PathTypes
    <2> QED BY <2>1, ElementOfSeq, LenProperties
  <1>a. /\ RemoveAt(w[r], k) \in Seq(Requests)
        /\ Len(RemoveAt(w[r], k)) = Len(w[r]) - 1
        /\ \A l \in 1..(Len(w[r]) - 1) :
              RemoveAt(w[r], k)[l] = IF l < k THEN w[r][l] ELSE w[r][l + 1]
    BY <1>2, RemoveAtProperties
  <1>3. /\ w2 \in [Requestors -> Seq(Requests)]
        /\ \A q \in Requestors \ {r} : w2[q] = w[q]
        /\ Len(w2[r]) = Len(w[r]) - 1
        /\ \A l \in 1..Len(w2[r]) : w2[r][l] = IF l < k THEN w[r][l] ELSE w[r][l + 1]
    BY <1>2, <1>a
  <1>4. s2 \in Entry /\ s2 # NoService /\ s2.requestor = r /\ s2.req = w[r][k]
    BY <1>2, ServiceOrNot DEF Entry
  <1>5. PathTypes(P, B, w2, s2)
    BY <1>1, <1>3, <1>4 DEF PathTypes, Services
  \* What waits has waited before, in another place than k.
  <1> DEFINE place(q, l) == IF q = r /\ l >= k THEN l + 1 ELSE l
  <1>6. ASSUME NEW q \in Requestors, NEW l \in 1..Len(w2[q])
        PROVE  /\ place(q, l) \in 1..Len(w[q]) /\ w2[q][l] = w[q][place(q, l)]
               /\ q = r => place(q, l) # k
               /\ place(q, l) \in Nat
    <2>1. CASE q # r
      <3>1. w2[q] = w[q] /\ l \in 1..Len(w[q]) /\ Len(w[q]) \in Nat
        BY <2>1, <1>1, <1>3, LenProperties DEF PathTypes
      <3> QED BY <2>1, <3>1
    <2>2. CASE q = r
      <3>1. l \in 1..(Len(w[r]) - 1) /\ w2[r][l] = IF l < k THEN w[r][l] ELSE w[r][l + 1]
        BY <2>2, <1>3
      <3> QED BY <2>2, <3>1, <1>2
    <2> QED BY <2>1, <2>2
  <1>7. \A q \in Requestors : \A m \in 1..Len(w[q]) :
            (q = r /\ m = k) \/ \E l \in 1..Len(w2[q]) : w2[q][l] = w[q][m]
    <2> SUFFICES ASSUME NEW q \in Requestors, NEW m \in 1..Len(w[q]), ~(q = r /\ m = k)
                 PROVE  \E l \in 1..Len(w2[q]) : w2[q][l] = w[q][m]
      OBVIOUS
    <2>1. CASE q # r
      BY <2>1, <1>3
    <2>2. CASE q = r /\ m < k
      BY <2>2, <1>2, <1>3, m \in 1..Len(w2[r])
    <2>3. CASE q = r /\ m > k
      <3>1. m - 1 \in 1..Len(w2[r]) /\ ~(m - 1 < k) /\ (m - 1) + 1 = m
        BY <2>3, <1>2, <1>3
      <3> QED BY <2>3, <3>1, <1>3, w2[r][m - 1] = w[r][m]
    <2> QED BY <2>1, <2>2, <2>3, <1>2
  <1>8. Distinct(P, B, w2, s2)
    <2>1. ASSUME NEW p \in Requestors, NEW q \in Requestors,
                 NEW l \in 1..Len(w2[p]), NEW m \in 1..Len(w2[q]), w2[p][l].id = w2[q][m].id
          PROVE  p = q /\ l = m
      <3>1. p = q /\ place(p, l) = place(q, m)
        <4> HIDE DEF place
        <4>1. place(p, l) \in 1..Len(w[p]) /\ w2[p][l] = w[p][place(p, l)]
          BY <1>6
        <4>2. place(q, m) \in 1..Len(w[q]) /\ w2[q][m] = w[q][place(q, m)]
          BY <1>6
        <4> QED BY SMTT(30), <2>1, <1>1, <4>1, <4>2 DEF Distinct
      <3> QED BY <3>1, <1>2, <1>6
    <2>2. ASSUME NEW q \in Requestors, NEW l \in 1..Len(w2[q])
          PROVE  /\ \A m \in 1..Len(B) : w2[q][l].id # B[m].req.id
                 /\ w2[q][l].id # s2.req.id
      <3> HIDE DEF place
      <3>1. place(q, l) \in 1..Len(w[q]) /\ w2[q][l] = w[q][place(q, l)]
        BY <1>6
      <3>2. ~(q = r /\ place(q, l) = k)
        BY <1>6
      <3> QED BY <3>1, <3>2, <1>1, <1>4 DEF Distinct
    <2>3. \A m \in 1..Len(B) : B[m].req.id # s2.req.id
      BY <1>1, <1>4 DEF Distinct
    <2> QED BY SMTT(30), <2>1, <2>2, <2>3, <1>1 DEF Distinct
  \* A pending request is never NoService, and is the served one just when it was k-th.
  <1>9. ASSUME NEW i \in 1..Len(P)
        PROVE  /\ P[i] \in Entry /\ P[i] # NoService
               /\ P[i].requestor \in Requestors /\ P[i].req.type = type
               /\ s2 = P[i] <=> P[i].requestor = r /\ P[i].req = w[r][k]
    <2>1. P[i] \in Entry
      BY <1>1, ElementOfSeq DEF PathTypes
    <2> QED BY <2>1, <1>1, <1>4, ServiceOrNot DEF Located, Entry
  <1>10. Located(P, B, type, w2, s2)
    <2>1. ASSUME NEW i \in 1..Len(P)
          PROVE  \/ \E l \in 1..Len(B) : Is(B[l], P[i])
                 \/ s2 = P[i]
                 \/ \E l \in 1..Len(w2[P[i].requestor]) : w2[P[i].requestor][l] = P[i].req
      <3>1. \/ \E l \in 1..Len(B) : Is(B[l], P[i])
            \/ \E l \in 1..Len(w[P[i].requestor]) : w[P[i].requestor][l] = P[i].req
        BY <1>1, <1>9 DEF Located
      <3> QED BY <3>1, <1>7, <1>9
    <2>2. s2.req.type = type => \E i \in 1..Len(P) : s2 = P[i]
      BY <1>1, <1>4 DEF Located
    <2>3. ASSUME NEW q \in Requestors, NEW l \in 1..Len(w2[q]), w2[q][l].type = type
          PROVE  \E i \in 1..Len(P) : P[i] = [requestor |-> q, req |-> w2[q][l]]
      <3>1. place(q, l) \in 1..Len(w[q]) /\ w2[q][l] = w[q][place(q, l)]
        BY <1>6
      <3> HIDE DEF place
      <3> QED BY <2>3, <1>1, <3>1 DEF Located
    <2>4. \A i \in 1..Len(P) : P[i].req.type = type
      BY <1>9
    <2>5. \A l \in 1..Len(B) : \E i \in 1..Len(P) : Is(B[l], P[i])
      BY <1>1 DEF Located
    <2> QED BY <2>1, <2>2, <2>3, <2>4, <2>5 DEF Located
  <1>11. Ordered(P, B, w2, s2)
    <2> SUFFICES ASSUME NEW i \in 1..Len(P), NEW j \in 1..Len(P), i < j, SameTarget(P[i], P[j])
                 PROVE  Ahead(B, w2, s2, P[i], P[j])
      BY DEF Ordered
    <2> DEFINE q == P[j].requestor
    <2>1. Ahead(B, w, NoService, P[i], P[j])
      BY <1>1 DEF Ordered
    <2>2. ASSUME s2 = P[j]
          PROVE  InFront(B, Len(B) + 1, P[i])
      <3>1. q = r /\ w[r][k] = P[j].req
        BY <2>2, <1>9
      <3>2. \A m \in 1..Len(w[r]) : m < k /\ w[r][m] = P[i].req => FALSE
        <4> SUFFICES ASSUME NEW m \in 1..Len(w[r]), m < k, w[r][m] = P[i].req PROVE FALSE
          OBVIOUS
        <4>1. m \in 1..(k - 1)
          BY <1>2
        <4>2. w[r][m].addr = w[r][k].addr
          BY <3>1 DEF SameTarget
        <4>3. w[r][m].type = w[r][k].type
          BY <3>1, <1>9
        <4> QED BY <4>1, <4>2, <4>3
      <3> QED BY <2>1, <3>1, <3>2, <1>9 DEF Ahead
    <2>3. ASSUME NEW l \in 1..Len(w2[q]), w2[q][l] = P[j].req
          PROVE  \/ InFront(B, Len(B) + 1, P[i])
                 \/ s2 = P[i]
                 \/ \E m \in 1..Len(w2[q]) : m < l /\ w2[q][m] = P[i].req
      <3>1. q \in Requestors /\ P[i].requestor = q
        BY <1>9 DEF SameTarget
      <3>2. place(q, l) \in 1..Len(w[q]) /\ w[q][place(q, l)] = P[j].req
        <4> HIDE DEF place, q
        <4> QED BY <2>3, <3>1, <1>6
      <3>3. \/ InFront(B, Len(B) + 1, P[i])
            \/ \E m \in 1..Len(w[q]) : m < place(q, l) /\ w[q][m] = P[i].req
        <4> HIDE DEF place
        <4> QED BY <2>1, <3>2, <1>9 DEF Ahead
      <3>4. ASSUME NEW m \in 1..Len(w[q]), m < place(q, l), w[q][m] = P[i].req
            PROVE  s2 = P[i] \/ \E n \in 1..Len(w2[q]) : n < l /\ w2[q][n] = P[i].req
        <4>1. CASE q # r
          BY <4>1, <3>1, <3>4, <1>3
        <4>2. CASE q = r /\ m = k
          BY <4>2, <3>1, <3>4, <1>9
        <4>3. CASE q = r /\ m < k
          <5>1. /\ m \in 1..Len(w2[r]) /\ l \in Nat
                /\ w2[r][m] = w[r][m]
            BY <4>3, <3>4, <1>2, <1>3
          <5>2. m < l
            BY <4>3, <3>4, <5>1
          <5> QED BY <5>1, <5>2, <4>3, <3>4
        <4>4. CASE q = r /\ m > k
          <5>1. m - 1 \in 1..Len(w2[q]) /\ m - 1 < l /\ w2[q][m - 1] = w[q][m]
            BY <4>4, <3>4, <1>2, <1>3
          <5> QED BY <5>1, <3>4
        <4> QED BY <4>1, <4>2, <4>3, <4>4
      <3> QED BY <3>3, <3>4
    <2>4. \A l \in 1..Len(B) : Is(B[l], P[j]) => InFront(B, l, P[i])
      BY <2>1 DEF Ahead
    <2> QED BY <2>2, <2>3, <2>4 DEF Ahead
  <1> QED BY <1>5, <1>8, <1>10, <1>11 DEF PathInv

\* The first pending request that matches the transfer in front is its own: an earlier
\* match would be in front of the front.
LEMMA FinishRemoves ==
    ASSUME NEW P, NEW B, NEW type, NEW w, NEW s,
           PathInv(P, B, type, w, s), B # <<>>
    PROVE  \E m \in 1..Len(P) : Is(B[1], P[m]) /\ Finish(P, Head(B)) = RemoveAt(P, m)
  <1>1. /\ P \in Seq(Entry) /\ B \in Seq(Transfer) /\ Len(P) \in Nat
        /\ 1 \in 1..Len(B) /\ Head(B) = B[1] /\ Len(B) \in Nat
    <2>1. P \in Seq(Entry) /\ B \in Seq(Transfer)
      BY DEF PathInv, PathTypes
    <2> QED BY <2>1, LenProperties, EmptySeq
  <1>2. PICK m \in 1..Len(P) : Is(B[1], P[m])
    BY <1>1 DEF PathInv, Located
  <1>3. m \in Matches(P, Head(B))
    BY <1>1, <1>2 DEF Matches, Is
  <1>4. ASSUME NEW j \in Matches(P, Head(B))
        PROVE  j \in 1..Len(P) /\ m <= j
    <2>1. j \in 1..Len(P) /\ SameTarget(P[j], P[m])
      BY <1>1, <1>2 DEF Matches, Is, SameTarget
    <2>2. ASSUME j < m PROVE FALSE
      <3>1. Ahead(B, w, s, P[j], P[m])
        BY <2>1, <2>2 DEF PathInv, Ordered
      <3> QED BY <3>1, <1>1, <1>2 DEF Ahead, InFront
    <2> QED BY <2>1, <2>2
  <1> DEFINE first(k) == \A j \in Matches(P, Head(B)) : k <= j
  <1>5. (CHOOSE k \in Matches(P, Head(B)) : first(k)) = m
    <2>1. first(m)
      BY <1>4
    <2>2. ASSUME NEW k \in Matches(P, Head(B)), first(k) PROVE k = m
      <3>1. k <= m /\ m <= k /\ k \in 1..Len(P)
        BY <2>2, <1>3, <1>4
      <3> QED BY <3>1, <1>1
    <2> HIDE DEF first
    <2> QED BY <2>1, <2>2, <1>3
  <1>6. Finish(P, Head(B)) = RemoveAt(P, m)
    BY <1>3, <1>5 DEF Finish
  <1> QED BY <1>2, <1>6

\* A transfer ends: it leaves the buffer, its request the pending list (Finish).
LEMMA FinishStep ==
    ASSUME NEW P, NEW B, NEW type, NEW w, NEW s,
           PathInv(P, B, type, w, s), B # <<>>
    PROVE  PathInv(Finish(P, Head(B)), Tail(B), type, w, s)
  <1>1. /\ PathTypes(P, B, w, s) /\ Distinct(P, B, w, s)
        /\ Located(P, B, type, w, s) /\ Ordered(P, B, w, s)
    BY DEF PathInv
  <1>2. PICK m \in 1..Len(P) : Is(B[1], P[m]) /\ Finish(P, Head(B)) = RemoveAt(P, m)
    BY FinishRemoves
  <1> DEFINE P2 == RemoveAt(P, m)
             B2 == Tail(B)
             old(i) == IF i < m THEN i ELSE i + 1
  <1>3. /\ P \in Seq(Entry) /\ B \in Seq(Transfer) /\ Len(P) \in Nat /\ Len(B) \in Nat
        /\ w \in [Requestors -> Seq(Requests)] /\ 1 \in 1..Len(B)
    <2>1. P \in Seq(Entry) /\ B \in Seq(Transfer) /\ w \in [Requestors -> Seq(Requests)]
      BY <1>1 DEF PathTypes
    <2> QED BY <2>1, LenProperties, EmptySeq
  <1>4. /\ P2 \in Seq(Entry) /\ Len(P2) = Len(P) - 1
        /\ \A i \in 1..(Len(P) - 1) : P2[i] = IF i < m THEN P[i] ELSE P[i + 1]
    BY <1>3, RemoveAtProperties
  <1>5. /\ B2 \in Seq(Transfer) /\ Len(B2) = Len(B) - 1
        /\ \A k \in 1..Len(B2) : B2[k] = B[k + 1]
    BY <1>3, HeadTailProperties
  <1> HIDE DEF P2, B2
  <1>6. PathTypes(P2, B2, w, s)
    BY <1>1, <1>4, <1>5 DEF PathTypes
  <1>7. ASSUME NEW i \in 1..Len(P2)
        PROVE  old(i) \in 1..Len(P) /\ old(i) # m /\ P2[i] = P[old(i)]
    <2>1. i \in 1..(Len(P) - 1) /\ P2[i] = IF i < m THEN P[i] ELSE P[i + 1]
      BY <1>4
    <2>2. CASE i < m
      BY <2>1, <2>2, <1>3
    <2>3. CASE ~(i < m)
      BY <2>1, <2>3, <1>3
    <2> QED BY <2>2, <2>3
  <1>8. ASSUME NEW i \in 1..Len(P2), NEW j \in 1..Len(P2)
        PROVE  /\ old(i) = old(j) => i = j
               /\ i < j => old(i) < old(j)
    <2>1. i \in Nat /\ j \in Nat /\ m \in Nat
      BY <1>3, <1>4
    <2> QED BY <2>1
  <1>9. \A j \in 1..Len(P) : j # m => \E i \in 1..Len(P2) : P2[i] = P[j]
    <2> SUFFICES ASSUME NEW j \in 1..Len(P), j # m PROVE \E i \in 1..Len(P2) : P2[i] = P[j]
      OBVIOUS
    <2>1. CASE j < m
      BY <2>1, <1>3, <1>4, j \in 1..Len(P2)
    <2>2. CASE j > m
      <3>1. j - 1 \in 1..Len(P2) /\ P2[j - 1] = P[j]
        BY <2>2, <1>3, <1>4
      <3> QED BY <3>1
    <2> QED BY <2>1, <2>2
  <1> HIDE DEF old
  <1>10. Distinct(P2, B2, w, s)
    <2>1. ASSUME NEW i \in 1..Len(P2), NEW j \in 1..Len(P2), P2[i].req.id = P2[j].req.id
          PROVE  i = j
      <3>1. P[old(i)].req.id = P[old(j)].req.id /\ old(i) \in 1..Len(P) /\ old(j) \in 1..Len(P)
        BY <2>1, <1>7
      <3> QED BY <3>1, <1>1, <1>8 DEF Distinct
    <2>2. \A k \in 1..Len(B2) : k + 1 \in 1..Len(B) /\ B2[k] = B[k + 1]
      BY <1>3, <1>5
    <2>3. ASSUME NEW k \in 1..Len(B2), NEW l \in 1..Len(B2), B2[k].req.id = B2[l].req.id
          PROVE  k = l
      <3>1. k + 1 = l + 1
        BY <2>2, <2>3, <1>1 DEF Distinct
      <3> QED BY <3>1
    <2>4. \A r \in Requestors : \A k \in 1..Len(w[r]), l \in 1..Len(B2) : w[r][k].id # B2[l].req.id
      BY SMTT(30), <2>2, <1>1 DEF Distinct
    <2>5. s # NoService => \A l \in 1..Len(B2) : B2[l].req.id # s.req.id
      BY <2>2, <1>1 DEF Distinct
    <2> QED BY <2>1, <2>3, <2>4, <2>5, <1>1 DEF Distinct
  \* A pending request is in front of the buffer only if it is the removed one.
  <1>11. ASSUME NEW i \in 1..Len(P), i # m
         PROVE  ~Is(B[1], P[i])
    BY <1>11, <1>1, <1>2 DEF Distinct, Is
  <1>12. ASSUME NEW i \in 1..Len(P), i # m, NEW n \in Nat \ {0}, InFront(B, n + 1, P[i])
         PROVE  InFront(B2, n, P[i])
    <2>1. PICK k \in 1..Len(B) : k < n + 1 /\ Is(B[k], P[i])
      BY <1>12 DEF InFront
    <2>2. k # 1
      BY <2>1, <1>11, <1>12
    <2>3. k - 1 \in 1..Len(B2) /\ B2[k - 1] = B[k] /\ k - 1 < n
      BY <2>1, <2>2, <1>3, <1>5
    <2> QED BY <2>1, <2>3 DEF InFront
  <1>13. Located(P2, B2, type, w, s)
    <2>1. ASSUME NEW i \in 1..Len(P2)
          PROVE  /\ P2[i].req.type = type
                 /\ \/ \E k \in 1..Len(B2) : Is(B2[k], P2[i])
                    \/ s = P2[i]
                    \/ \E k \in 1..Len(w[P2[i].requestor]) : w[P2[i].requestor][k] = P2[i].req
      <3>1. old(i) \in 1..Len(P) /\ old(i) # m /\ P2[i] = P[old(i)]
        BY <1>7
      <3>2. CASE \E k \in 1..Len(B) : Is(B[k], P[old(i)])
        <4>1. InFront(B, Len(B2) + 2, P[old(i)])
          BY <3>2, <1>3, <1>5 DEF InFront
        <4>2. Len(B2) + 1 \in Nat \ {0} /\ Len(B2) + 2 = (Len(B2) + 1) + 1
          BY <1>3, <1>5
        <4>3. InFront(B2, Len(B2) + 1, P[old(i)])
          BY <4>1, <4>2, <3>1, <1>12
        <4> QED BY <4>3, <3>1, <1>1 DEF InFront, Located
      <3>3. /\ P[old(i)].req.type = type
            /\ \/ \E k \in 1..Len(B) : Is(B[k], P[old(i)])
               \/ s = P[old(i)]
               \/ \E k \in 1..Len(w[P[old(i)].requestor]) :
                    w[P[old(i)].requestor][k] = P[old(i)].req
        BY <3>1, <1>1 DEF Located
      <3>4. CASE ~\E k \in 1..Len(B) : Is(B[k], P[old(i)])
        BY <3>1, <3>3, <3>4
      <3> QED BY <3>2, <3>4
    <2>2. ASSUME NEW k \in 1..Len(B2)
          PROVE  \E i \in 1..Len(P2) : Is(B2[k], P2[i])
      <3>1. k + 1 \in 1..Len(B) /\ B2[k] = B[k + 1] /\ k + 1 # 1
        BY <1>3, <1>5
      <3>2. PICK j \in 1..Len(P) : Is(B2[k], P[j])
        BY <3>1, <1>1 DEF Located
      <3>3. j = m => B[k + 1].req.id = B[1].req.id
        BY <3>1, <3>2, <1>2 DEF Is
      <3>4. j # m
        BY <3>1, <3>3, <1>1, <1>3 DEF Distinct
      <3> QED BY <3>2, <3>4, <1>9
    <2>3. s # NoService /\ s.req.type = type => \E i \in 1..Len(P2) : s = P2[i]
      <3> SUFFICES ASSUME s # NoService, s.req.type = type PROVE \E i \in 1..Len(P2) : s = P2[i]
        OBVIOUS
      <3>1. PICK j \in 1..Len(P) : s = P[j]
        BY <1>1 DEF Located
      <3>2. j # m
        BY <3>1, <1>1, <1>2, <1>3 DEF Is, Distinct
      <3> QED BY <3>1, <3>2, <1>9
    <2>4. ASSUME NEW r \in Requestors, NEW k \in 1..Len(w[r]), w[r][k].type = type
          PROVE  \E i \in 1..Len(P2) : P2[i] = [requestor |-> r, req |-> w[r][k]]
      <3>1. PICK j \in 1..Len(P) : P[j] = [requestor |-> r, req |-> w[r][k]]
        BY <2>4, <1>1 DEF Located
      <3>2. w[r][k].id # B[1].req.id
        BY <1>1, <1>3 DEF Distinct
      <3>3. P[j].req.id = w[r][k].id
        BY <3>1
      <3>4. j = m => P[j].req.id = B[1].req.id
        BY <1>2 DEF Is
      <3>5. j # m
        BY <3>2, <3>3, <3>4
      <3> QED BY <3>1, <3>5, <1>9
    <2> QED BY <2>1, <2>2, <2>3, <2>4 DEF Located
  <1>14. Ordered(P2, B2, w, s)
    <2> SUFFICES ASSUME NEW i \in 1..Len(P2), NEW j \in 1..Len(P2), i < j, SameTarget(P2[i], P2[j])
                 PROVE  Ahead(B2, w, s, P2[i], P2[j])
      BY DEF Ordered
    <2>1. /\ old(i) \in 1..Len(P) /\ old(i) # m /\ P2[i] = P[old(i)]
          /\ old(j) \in 1..Len(P) /\ P2[j] = P[old(j)] /\ old(i) < old(j)
      BY <1>7, <1>8
    <2>2. Ahead(B, w, s, P2[i], P2[j])
      BY <2>1, <1>1 DEF Ordered
    <2>3. Len(B2) + 1 = Len(B) /\ Len(B2) \in Nat /\ Len(B) \in Nat
      BY <1>3, <1>5, LenProperties
    <2>4. InFront(B, Len(B) + 1, P2[i]) => InFront(B2, Len(B2) + 1, P2[i])
      <3>1. Len(B2) + 1 \in Nat \ {0} /\ Len(B) + 1 = (Len(B2) + 1) + 1
        BY <2>3
      <3> QED BY <2>1, <3>1, <1>12
    <2>5. ASSUME NEW l \in 1..Len(B2), Is(B2[l], P2[j])
          PROVE  InFront(B2, l, P2[i])
      <3>1. l + 1 \in 1..Len(B) /\ B2[l] = B[l + 1] /\ l \in Nat \ {0}
        BY <1>3, <1>5
      <3>2. InFront(B, l + 1, P2[i])
        BY <3>1, <2>2, <2>5 DEF Ahead
      <3> QED BY <3>1, <3>2, <2>1, <1>12
    <2> QED BY <2>2, <2>4, <2>5 DEF Ahead
  <1>15. PathInv(P2, B2, type, w, s)
    BY <1>6, <1>10, <1>13, <1>14 DEF PathInv
  <1> QED BY <1>2, <1>15 DEF P2, B2

\* Counting does not move a transfer (Counted, DeviceCounted).
LEMMA CountStep ==
    ASSUME NEW P, NEW B, NEW type, NEW w, NEW s, PathInv(P, B, type, w, s),
           NEW B2 \in Seq(Transfer), Len(B2) = Len(B),
           \A k \in 1..Len(B) : B2[k].requestor = B[k].requestor /\ B2[k].req = B[k].req
    PROVE  PathInv(P, B2, type, w, s)
  <1>1. \A k \in 1..Len(B) : \A p : Is(B2[k], p) <=> Is(B[k], p)
    BY DEF Is
  <1>2. PathTypes(P, B2, w, s)
    BY DEF PathInv, PathTypes
  <1>3. Distinct(P, B2, w, s)
    BY DEF PathInv, Distinct
  <1>4. Located(P, B2, type, w, s)
    BY <1>1 DEF PathInv, Located
  <1>5. Ordered(P, B2, w, s)
    <2>1. \A n, p : InFront(B2, n, p) <=> InFront(B, n, p)
      BY <1>1 DEF InFront
    <2> QED BY <1>1, <2>1 DEF PathInv, Ordered, Ahead
  <1> QED BY <1>2, <1>3, <1>4, <1>5 DEF PathInv

\* A new request comes last everywhere (addRequest).
LEMMA AcceptStep ==
    ASSUME NEW P, NEW B, NEW type, NEW w, NEW s, PathInv(P, B, type, w, s),
           NEW r \in Requestors, NEW q \in Requests,
           \A i \in 1..Len(P) : P[i].req.id # q.id,
           \A k \in 1..Len(B) : B[k].req.id # q.id,
           s # NoService => s.req.id # q.id,
           \A p \in Requestors : \A k \in 1..Len(w[p]) : w[p][k].id # q.id,
           NEW w2, w2 = [w EXCEPT ![r] = Append(w[r], q)],
           NEW P2, P2 = IF q.type = type THEN Append(P, [requestor |-> r, req |-> q]) ELSE P
    PROVE  PathInv(P2, B, type, w2, s)
  <1> DEFINE e == [requestor |-> r, req |-> q]
  <1>1. /\ PathTypes(P, B, w, s) /\ Distinct(P, B, w, s)
        /\ Located(P, B, type, w, s) /\ Ordered(P, B, w, s)
    BY DEF PathInv
  <1>2. P \in Seq(Entry) /\ w \in [Requestors -> Seq(Requests)] /\ w[r] \in Seq(Requests) /\ e \in Entry
    BY <1>1 DEF PathTypes, Entry
  <1>3. /\ w2 \in [Requestors -> Seq(Requests)]
        /\ \A p \in Requestors \ {r} : w2[p] = w[p]
        /\ Len(w[r]) \in Nat /\ Len(w2[r]) = Len(w[r]) + 1
        /\ \A k \in 1..Len(w[r]) : w2[r][k] = w[r][k]
        /\ w2[r][Len(w[r]) + 1] = q
    BY <1>2, AppendProperties, LenProperties
  <1>4. /\ e.requestor = r /\ e.req = q
        /\ P2 \in Seq(Entry) /\ Len(P) \in Nat
        /\ Len(P2) = IF q.type = type THEN Len(P) + 1 ELSE Len(P)
        /\ \A i \in 1..Len(P) : P2[i] = P[i]
        /\ q.type = type => P2[Len(P) + 1] = e
    <2>1. Len(P) \in Nat
      BY <1>2, LenProperties
    <2> HIDE DEF e
    <2>2. /\ Append(P, e) \in Seq(Entry) /\ Len(Append(P, e)) = Len(P) + 1
          /\ \A i \in 1..Len(P) : Append(P, e)[i] = P[i]
          /\ Append(P, e)[Len(P) + 1] = e
      BY <1>2, AppendProperties
    <2> QED BY <1>2, <2>1, <2>2 DEF e
  \* The other requests keep their places.
  <1>5. ASSUME NEW p \in Requestors
        PROVE  /\ Len(w[p]) \in Nat
               /\ \A k \in 1..Len(w[p]) : k \in 1..Len(w2[p]) /\ w2[p][k] = w[p][k]
               /\ \A k \in 1..Len(w2[p]) :
                    k \in 1..Len(w[p]) \/ (p = r /\ k = Len(w[r]) + 1 /\ w2[p][k] = q)
    <2>1. Len(w[p]) \in Nat
      BY <1>2, LenProperties
    <2> QED BY <1>3, <2>1
  <1>6. PathTypes(P2, B, w2, s)
    BY <1>1, <1>3, <1>4 DEF PathTypes
  <1>7. Distinct(P2, B, w2, s)
    <2>1. ASSUME NEW i \in 1..Len(P2), NEW j \in 1..Len(P2), P2[i].req.id = P2[j].req.id
          PROVE  i = j
      BY <2>1, <1>1, <1>4 DEF Distinct
    <2>2. ASSUME NEW p \in Requestors, NEW u \in Requestors,
                 NEW k \in 1..Len(w2[p]), NEW l \in 1..Len(w2[u]), w2[p][k].id = w2[u][l].id
          PROVE  p = u /\ k = l
      BY <2>2, <1>1, <1>5 DEF Distinct
    <2>3. ASSUME NEW p \in Requestors, NEW k \in 1..Len(w2[p])
          PROVE  /\ \A l \in 1..Len(B) : w2[p][k].id # B[l].req.id
                 /\ s # NoService => w2[p][k].id # s.req.id
      BY <1>1, <1>5 DEF Distinct
    <2> QED BY SMTT(30), <2>1, <2>2, <2>3, <1>1 DEF Distinct
  <1>8. Located(P2, B, type, w2, s)
    <2>1. ASSUME NEW i \in 1..Len(P)
          PROVE  /\ i \in 1..Len(P2) /\ P2[i] = P[i]
                 /\ P[i].requestor \in Requestors
      <3>1. P[i] \in Entry
        BY <1>2, ElementOfSeq
      <3> QED BY <3>1, <1>4 DEF Entry
    <2>2. ASSUME NEW i \in 1..Len(P2)
          PROVE  /\ P2[i].req.type = type
                 /\ \/ \E k \in 1..Len(B) : Is(B[k], P2[i])
                    \/ s = P2[i]
                    \/ \E k \in 1..Len(w2[P2[i].requestor]) : w2[P2[i].requestor][k] = P2[i].req
      <3>1. CASE i \in 1..Len(P)
        BY <3>1, <2>1, <1>1, <1>5 DEF Located
      <3>2. CASE i \notin 1..Len(P)
        <4>1. P2[i] = e /\ q.type = type
          BY <3>2, <1>4
        <4>2. Len(w[r]) + 1 \in 1..Len(w2[r]) /\ w2[r][Len(w[r]) + 1] = q
          BY <1>3
        <4>3. \E k \in 1..Len(w2[r]) : w2[r][k] = q
          BY <4>2
        <4> QED BY <4>1, <4>3, <1>4
      <3> QED BY <3>1, <3>2
    <2>3. ASSUME NEW p \in Requestors, NEW k \in 1..Len(w2[p]), w2[p][k].type = type
          PROVE  \E i \in 1..Len(P2) : P2[i] = [requestor |-> p, req |-> w2[p][k]]
      <3>1. CASE k \in 1..Len(w[p])
        BY <3>1, <2>1, <2>3, <1>1, <1>5 DEF Located
      <3>2. CASE p = r /\ w2[p][k] = q
        <4>1. Len(P) + 1 \in 1..Len(P2) /\ P2[Len(P) + 1] = e
          BY <2>3, <3>2, <1>4
        <4> QED BY <4>1, <3>2
      <3> QED BY <3>1, <3>2, <1>5
    <2>4. \A k \in 1..Len(B) : \E i \in 1..Len(P2) : Is(B[k], P2[i])
      BY <2>1, <1>1 DEF Located
    <2>5. s # NoService /\ s.req.type = type => \E i \in 1..Len(P2) : s = P2[i]
      BY <2>1, <1>1 DEF Located
    <2> QED BY <2>2, <2>3, <2>4, <2>5 DEF Located
  <1>9. Ordered(P2, B, w2, s)
    <2> SUFFICES ASSUME NEW i \in 1..Len(P2), NEW j \in 1..Len(P2), i < j, SameTarget(P2[i], P2[j])
                 PROVE  Ahead(B, w2, s, P2[i], P2[j])
      BY DEF Ordered
    <2>1. i \in 1..Len(P) /\ P2[i] = P[i]
      BY <1>4
    <2>2. P[i] \in Entry /\ P[i].requestor \in Requestors
      <3>1. P[i] \in Entry
        BY <2>1, <1>2, ElementOfSeq
      <3> QED BY <3>1 DEF Entry
    <2>3. CASE j \in 1..Len(P)
      <3>1. Ahead(B, w, s, P[i], P[j]) /\ P2[j] = P[j]
        BY <2>1, <2>3, <1>1, <1>4 DEF Ordered
      <3>2. P[j].requestor \in Requestors /\ P[j].req.id # q.id
        BY <2>2, <2>1, <2>3, <3>1 DEF SameTarget
      <3>3. ASSUME NEW l \in 1..Len(w2[P[j].requestor]), w2[P[j].requestor][l] = P[j].req
            PROVE  \/ InFront(B, Len(B) + 1, P[i])
                   \/ s = P[i]
                   \/ \E k \in 1..Len(w2[P[j].requestor]) : k < l /\ w2[P[j].requestor][k] = P[i].req
        <4>1. l \in 1..Len(w[P[j].requestor]) /\ w[P[j].requestor][l] = P[j].req
          BY <3>2, <3>3, <1>5
        <4> QED BY <4>1, <3>1, <3>2, <1>5 DEF Ahead
      <3>4. /\ \A l \in 1..Len(B) : Is(B[l], P[j]) => InFront(B, l, P[i])
            /\ s = P[j] => InFront(B, Len(B) + 1, P[i])
        BY <3>1 DEF Ahead
      <3>5. Ahead(B, w2, s, P[i], P[j])
        BY <3>3, <3>4 DEF Ahead
      <3> QED BY <3>1, <3>5, <2>1
    <2>4. CASE j \notin 1..Len(P)
      <3>1. q.type = type /\ P2[j] = e
        BY <2>4, <1>4
      <3>2. /\ \A l \in 1..Len(B) : ~Is(B[l], P2[j])
            /\ s # P2[j]
        BY <3>1, <1>2, <1>4, ServiceOrNot DEF Is
      <3>3. ASSUME NEW l \in 1..Len(w2[r]), w2[r][l] = q
            PROVE  l = Len(w[r]) + 1
        BY <3>3, <1>5
      <3>4. P[i].requestor = r
        BY <2>1, <3>1, <1>4 DEF SameTarget
      <3>5. \/ InFront(B, Len(B) + 1, P[i])
            \/ s = P[i]
            \/ \E k \in 1..Len(w2[r]) : k < Len(w[r]) + 1 /\ w2[r][k] = P[i].req
        <4>1. CASE \E k \in 1..Len(B) : Is(B[k], P[i])
          <5>1. B \in Seq(Transfer)
            BY <1>1 DEF PathTypes
          <5>2. Len(B) \in Nat
            BY <5>1, LenProperties
          <5> QED BY <4>1, <5>2 DEF InFront
        <4>2. CASE \E k \in 1..Len(w[r]) : w[r][k] = P[i].req
          BY <4>2, <1>5
        <4> QED BY <4>1, <4>2, <2>1, <3>4, <1>1 DEF Located
      <3> QED BY <3>1, <3>2, <3>3, <3>5, <2>1, <1>4 DEF Ahead
    <2> QED BY <2>3, <2>4
  <1> QED BY <1>6, <1>7, <1>8, <1>9 DEF PathInv

\* What is left in the list was in it.
LEMMA FinishKeeps ==
    ASSUME NEW P, NEW B, NEW type, NEW w, NEW s,
           PathInv(P, B, type, w, s), B # <<>>
    PROVE  \A i \in 1..Len(Finish(P, Head(B))) : \E j \in 1..Len(P) : Finish(P, Head(B))[i] = P[j]
  <1>1. PICK m \in 1..Len(P) : Finish(P, Head(B)) = RemoveAt(P, m)
    BY FinishRemoves
  <1>2. P \in Seq(Entry) /\ Len(P) \in Nat
    <2>1. P \in Seq(Entry)
      BY DEF PathInv, PathTypes
    <2> QED BY <2>1, LenProperties
  <1>3. /\ Len(RemoveAt(P, m)) = Len(P) - 1
        /\ \A k \in 1..(Len(P) - 1) : RemoveAt(P, m)[k] = IF k < m THEN P[k] ELSE P[k + 1]
    BY <1>2, RemoveAtProperties
  <1>4. ASSUME NEW i \in 1..(Len(P) - 1)
        PROVE  \E j \in 1..Len(P) : RemoveAt(P, m)[i] = P[j]
    <2>1. i \in 1..Len(P) /\ i + 1 \in 1..Len(P)
      BY <1>2
    <2> QED BY <1>3, <2>1
  <1> QED BY <1>1, <1>3, <1>4

\* A transfer that starts ends after all the others (Started).
LEMMA StartSpaced ==
    ASSUME NEW B \in Seq(Transfer), NEW lo \in Nat, NEW n \in Nat, lo <= n, Spaced(B, lo, n - 1),
           NEW x \in Transfer, x.counter = n
    PROVE  Spaced(Append(B, x), lo, n)
  <1> DEFINE A == Append(B, x)
  <1>1. /\ Len(A) = Len(B) + 1 /\ Len(B) \in Nat
        /\ \A k \in 1..Len(B) : A[k] = B[k]
        /\ A[Len(B) + 1] = x
    BY AppendProperties, LenProperties
  <1> HIDE DEF A
  <1>2. \A k \in 1..Len(B) : B[k].counter \in lo..(n - 1)
    BY DEF Spaced
  <1>3. ASSUME NEW k \in 1..Len(A) PROVE A[k].counter \in lo..n
    <2>1. CASE k \in 1..Len(B)
      BY <2>1, <1>1, <1>2
    <2>2. CASE k = Len(B) + 1
      BY <2>2, <1>1
    <2> QED BY <2>1, <2>2, <1>1
  <1>4. ASSUME NEW k \in 1..(Len(A) - 1) PROVE A[k].counter < A[k + 1].counter
    <2>1. k \in 1..Len(B) /\ A[k] = B[k] /\ B[k].counter \in lo..(n - 1)
      BY <1>1, <1>2
    <2>2. CASE k \in 1..(Len(B) - 1)
      BY <2>1, <2>2, <1>1, k + 1 \in 1..Len(B) DEF Spaced
    <2>3. CASE k = Len(B)
      BY <2>1, <2>3, <1>1
    <2> QED BY <2>1, <2>2, <2>3, <1>1
  <1> QED BY <1>3, <1>4 DEF Spaced, A

\* Counters above 0 are counted down, the distances stay.
LEMMA CountSpaced ==
    ASSUME NEW B \in Seq(Transfer), NEW n \in Nat, Spaced(B, 1, n),
           NEW C \in Seq(Transfer), Len(C) = Len(B),
           \A k \in 1..Len(B) : C[k].counter = B[k].counter - 1
    PROVE  Spaced(C, 0, n - 1)
  <1>1. Len(B) \in Nat
    BY LenProperties
  <1>2. ASSUME NEW k \in 1..Len(C) PROVE C[k].counter \in 0..(n - 1)
    <2>1. B[k].counter \in 1..n /\ C[k].counter = B[k].counter - 1
      BY DEF Spaced
    <2> QED BY <2>1
  <1>3. ASSUME NEW k \in 1..(Len(C) - 1) PROVE C[k].counter < C[k + 1].counter
    <2>1. k \in 1..Len(B) /\ k + 1 \in 1..Len(B)
      BY <1>1
    <2>2. B[k].counter \in 1..n /\ B[k + 1].counter \in 1..n /\ B[k].counter < B[k + 1].counter
      BY <2>1 DEF Spaced
    <2> QED BY <2>1, <2>2
  <1> QED BY <1>2, <1>3 DEF Spaced

\* Only the front can be at 0, and when it is it leaves.
LEMMA DueSpaced ==
    ASSUME NEW B \in Seq(Transfer), NEW n \in Nat, Spaced(B, 0, n),
           NEW C, C = IF B # <<>> /\ Head(B).counter = 0 THEN Tail(B) ELSE B
    PROVE  Spaced(C, 1, n)
  <1>1. Len(B) \in Nat
    BY LenProperties
  <1>2. ASSUME NEW k \in 1..Len(B), k # 1 PROVE B[k].counter \in 1..n
    <2>1. k - 1 \in 1..Len(B) /\ k - 1 \in 1..(Len(B) - 1) /\ (k - 1) + 1 = k
      BY <1>1, <1>2
    <2>2. B[k - 1].counter \in 0..n /\ B[k].counter \in 0..n /\ B[k - 1].counter < B[(k - 1) + 1].counter
      BY <2>1 DEF Spaced
    <2> QED BY <2>1, <2>2
  <1>3. CASE B # <<>> /\ Head(B).counter = 0
    <2>1. /\ Len(C) = Len(B) - 1
          /\ \A k \in 1..Len(C) : C[k] = B[k + 1]
      BY <1>3, HeadTailProperties
    <2>2. \A k \in 1..Len(C) : k + 1 \in 1..Len(B) /\ k + 1 # 1
      BY <2>1, <1>1
    <2>3. \A k \in 1..Len(C) : C[k].counter \in 1..n
      BY <2>1, <2>2, <1>2
    <2>4. ASSUME NEW k \in 1..(Len(C) - 1) PROVE C[k].counter < C[k + 1].counter
      <3>1. k \in 1..Len(C) /\ k + 1 \in 1..Len(C) /\ k + 1 \in 1..(Len(B) - 1)
        BY <2>1, <1>1
      <3>2. C[k] = B[k + 1] /\ C[k + 1] = B[(k + 1) + 1]
        BY <2>1, <3>1
      <3>3. B[k + 1].counter < B[(k + 1) + 1].counter
        BY <3>1 DEF Spaced
      <3> QED BY <3>2, <3>3
    <2> QED BY <2>3, <2>4 DEF Spaced
  <1>4. CASE ~(B # <<>> /\ Head(B).counter = 0)
    <2>1. ASSUME NEW k \in 1..Len(B) PROVE B[k].counter \in 1..n
      <3>1. CASE k = 1
        <4>1. B # <<>> /\ Head(B) = B[1]
          BY <3>1, <1>1, EmptySeq
        <4>2. B[k].counter \in 0..n
          BY DEF Spaced
        <4> QED BY <3>1, <4>1, <4>2, <1>4
      <3> QED BY <3>1, <1>2
    <2> QED BY <2>1, <1>4 DEF Spaced
  <1> QED BY <1>3, <1>4

\* Counting is done in place (Counted, DeviceCounted).
LEMMA CountingProperties ==
    ASSUME NEW B \in Seq(Transfer)
    PROVE  /\ Counted(B) \in Seq(Transfer) /\ Len(Counted(B)) = Len(B)
           /\ DeviceCounted(B) \in Seq(Transfer) /\ Len(DeviceCounted(B)) = Len(B)
           /\ \A k \in 1..Len(B) :
                /\ Counted(B)[k].requestor = B[k].requestor /\ Counted(B)[k].req = B[k].req
                /\ Counted(B)[k].counter = B[k].counter - 1
                /\ DeviceCounted(B)[k].requestor = B[k].requestor
                /\ DeviceCounted(B)[k].req = B[k].req
                /\ B[k].counter > 0 => DeviceCounted(B)[k].counter = B[k].counter - 1
  <1>1. Len(B) \in Nat /\ DOMAIN B = 1..Len(B) /\ \A k \in 1..Len(B) : B[k] \in Transfer
    BY LenProperties, ElementOfSeq
  <1>2. ASSUME NEW x \in Transfer
        PROVE  /\ [x EXCEPT !.counter = @ - 1] \in Transfer
               /\ [x EXCEPT !.counter = IF @ > 0 THEN @ - 1 ELSE @] \in Transfer
    BY DEF Transfer
  <1>3. Counted(B) \in [1..Len(B) -> Transfer] /\ DeviceCounted(B) \in [1..Len(B) -> Transfer]
    BY <1>1, <1>2 DEF Counted, DeviceCounted
  <1>4. \A C \in [1..Len(B) -> Transfer] : C \in Seq(Transfer) /\ Len(C) = Len(B)
    BY <1>1
  <1>5. ASSUME NEW k \in 1..Len(B)
        PROVE  /\ Counted(B)[k] = [B[k] EXCEPT !.counter = B[k].counter - 1]
               /\ B[k].counter > 0 =>
                    DeviceCounted(B)[k] = [B[k] EXCEPT !.counter = B[k].counter - 1]
               /\ DeviceCounted(B)[k].requestor = B[k].requestor
               /\ DeviceCounted(B)[k].req = B[k].req
    BY <1>1 DEF Counted, DeviceCounted, Transfer
  <1>6. ASSUME NEW x \in Transfer
        PROVE  /\ [x EXCEPT !.counter = x.counter - 1].requestor = x.requestor
               /\ [x EXCEPT !.counter = x.counter - 1].req = x.req
               /\ [x EXCEPT !.counter = x.counter - 1].counter = x.counter - 1
    BY DEF Transfer
  <1> QED BY <1>1, <1>3, <1>4, <1>5, <1>6

\* What the schedulers choose next, a request or none (Serve, Pause).
LEMMA ScheduleStep ==
    ASSUME NEW P, NEW B, NEW type, PathInv(P, B, type, waiting, NoService),
           (\E r \in Requestors : \E k \in 1..Len(waiting[r]) : Serve(r, k)) \/ Pause
    PROVE  PathInv(P, B, type, waiting', serving')
  <1>1. CASE Pause
    BY <1>1 DEF Pause
  <1>2. ASSUME NEW r \in Requestors, NEW k \in 1..Len(waiting[r]), Serve(r, k)
        PROVE  PathInv(P, B, type, waiting', serving')
    <2>1. /\ \A j \in 1..(k - 1) : <<waiting[r][j].addr, waiting[r][j].type>>
                                     # <<waiting[r][k].addr, waiting[r][k].type>>
          /\ waiting' = [waiting EXCEPT ![r] = RemoveAt(waiting[r], k)]
          /\ serving' = [requestor |-> r, req |-> waiting[r][k]]
      BY <1>2 DEF Serve
    <2> QED BY <2>1, ServeStep
  <1> QED BY <1>1, <1>2

\* The buffer after the command was sent.
LEMMA StartedProperties ==
    ASSUME NEW B \in Seq(Transfer), NEW type, NEW lo \in Nat, NEW n \in Nat \ {0}, lo <= n,
           serving \in Services, Spaced(B, lo, n - 1)
    PROVE  /\ Started(B, type, n) \in Seq(Transfer)
           /\ Spaced(Started(B, type, n), lo, n)
  <1>1. CASE serving # NoService /\ serving.req.type = type
    <2> DEFINE x == [requestor |-> serving.requestor, req |-> serving.req, counter |-> n]
    <2>1. serving \in Entry
      BY <1>1 DEF Services
    <2>2. x \in Transfer /\ x.counter = n
      BY <2>1 DEF Entry, Transfer
    <2>3. Started(B, type, n) = Append(B, x)
      BY <1>1 DEF Started
    <2> HIDE DEF x
    <2>4. Spaced(Append(B, x), lo, n) /\ Append(B, x) \in Seq(Transfer)
      BY <2>2, StartSpaced, AppendProperties
    <2> QED BY <2>3, <2>4
  <1>2. CASE ~(serving # NoService /\ serving.req.type = type)
    <2>1. Started(B, type, n) = B
      BY <1>2 DEF Started
    <2>2. \A k \in 1..Len(B) : B[k].counter \in lo..n
      BY DEF Spaced
    <2> QED BY <2>1, <2>2 DEF Spaced
  <1> QED BY <1>1, <1>2

\* A memory cycle of the controller's direction (SendWriteData).
LEMMA WriteCycle ==
    ASSUME PathInv(pendingWriteRequest, sendDataBuffer, "WR", waiting, serving),
           Spaced(sendDataBuffer, 0, WriteLatency - 1), DataCycle
    PROVE  /\ PathInv(pendingWriteRequest', sendDataBuffer', "WR", waiting', serving')
           /\ Spaced(sendDataBuffer', 0, WriteLatency - 1)
           /\ \A i \in 1..Len(pendingWriteRequest') :
                \E j \in 1..Len(pendingWriteRequest) : pendingWriteRequest'[i] = pendingWriteRequest[j]
  <1> DEFINE P == pendingWriteRequest
             buffer == Started(sendDataBuffer, "WR", WriteLatency)
             due == buffer # <<>> /\ Head(buffer).counter = 0
             rest == IF due THEN Tail(buffer) ELSE buffer
  <1>1. WriteLatency \in Nat \ {0} /\ WriteLatency \in Int /\ 0 <= WriteLatency
    BY DataPathAssumption
  <1>2. /\ sendDataBuffer' = Counted(rest)
        /\ pendingWriteRequest' = IF due THEN Finish(P, Head(buffer)) ELSE P
        /\ (\E r \in Requestors : \E k \in 1..Len(waiting[r]) : Serve(r, k)) \/ Pause
    BY DEF DataCycle, SendWriteData
  <1>3. sendDataBuffer \in Seq(Transfer) /\ serving \in Services
    BY DEF PathInv, PathTypes
  <1>4. buffer \in Seq(Transfer) /\ Spaced(buffer, 0, WriteLatency)
    BY <1>1, <1>3, StartedProperties
  <1>a. buffer = IF serving # NoService /\ serving.req.type = "WR"
                 THEN Append(sendDataBuffer, [requestor |-> serving.requestor, req |-> serving.req,
                                              counter |-> WriteLatency])
                 ELSE sendDataBuffer
    BY DEF Started
  <1> HIDE DEF buffer
  <1>5. PathInv(P, buffer, "WR", waiting, NoService)
    BY <1>1, <1>a, StartStep
  <1>6. PathInv(P, buffer, "WR", waiting', serving')
    BY <1>2, <1>5, ScheduleStep
  <1>7. PathInv(pendingWriteRequest', rest, "WR", waiting', serving')
    BY <1>2, <1>6, FinishStep
  <1>8. \A i \in 1..Len(pendingWriteRequest') : \E j \in 1..Len(P) : pendingWriteRequest'[i] = P[j]
    BY <1>2, <1>6, FinishKeeps
  <1>9. rest \in Seq(Transfer) /\ Spaced(rest, 1, WriteLatency)
    BY <1>1, <1>4, DueSpaced, HeadTailProperties
  <1> HIDE DEF rest
  <1>10. /\ Counted(rest) \in Seq(Transfer) /\ Len(Counted(rest)) = Len(rest)
         /\ \A k \in 1..Len(rest) :
                /\ Counted(rest)[k].requestor = rest[k].requestor
                /\ Counted(rest)[k].req = rest[k].req
                /\ Counted(rest)[k].counter = rest[k].counter - 1
    BY <1>9, CountingProperties
  <1>11. PathInv(pendingWriteRequest', Counted(rest), "WR", waiting', serving')
    BY <1>7, <1>10, CountStep
  <1>12. Spaced(Counted(rest), 0, WriteLatency - 1)
    BY <1>1, <1>9, <1>10, CountSpaced
  <1> QED BY <1>2, <1>8, <1>11, <1>12

\* A memory cycle of the device's direction (ReturnReadData).
LEMMA ReadCycle ==
    ASSUME PathInv(pendingReadRequest, pendingReadData, "RD", waiting, serving),
           Spaced(pendingReadData, 1, ReadLatency - 1), DataCycle
    PROVE  /\ PathInv(pendingReadRequest', pendingReadData', "RD", waiting', serving')
           /\ Spaced(pendingReadData', 1, ReadLatency - 1)
           /\ \A i \in 1..Len(pendingReadRequest') :
                \E j \in 1..Len(pendingReadRequest) : pendingReadRequest'[i] = pendingReadRequest[j]
  <1> DEFINE P == pendingReadRequest
             started == Started(pendingReadData, "RD", ReadLatency)
             buffer == DeviceCounted(started)
             due == buffer # <<>> /\ Head(buffer).counter = 0
             rest == IF due THEN Tail(buffer) ELSE buffer
  <1>1. ReadLatency \in Nat \ {0} /\ ReadLatency \in Int /\ 1 <= ReadLatency /\ ReadLatency - 1 \in Nat
    BY DataPathAssumption
  <1>2. /\ pendingReadData' = rest
        /\ pendingReadRequest' = IF due THEN Finish(P, Head(buffer)) ELSE P
        /\ (\E r \in Requestors : \E k \in 1..Len(waiting[r]) : Serve(r, k)) \/ Pause
    BY DEF DataCycle, ReturnReadData
  <1>3. pendingReadData \in Seq(Transfer) /\ serving \in Services
    BY DEF PathInv, PathTypes
  <1>4. started \in Seq(Transfer) /\ Spaced(started, 1, ReadLatency)
    BY <1>1, <1>3, StartedProperties
  <1>a. started = IF serving # NoService /\ serving.req.type = "RD"
                  THEN Append(pendingReadData, [requestor |-> serving.requestor,
                                                req |-> serving.req, counter |-> ReadLatency])
                  ELSE pendingReadData
    BY DEF Started
  <1> HIDE DEF started
  <1>5. PathInv(P, started, "RD", waiting, NoService)
    BY <1>1, <1>a, StartStep
  <1>6. PathInv(P, started, "RD", waiting', serving')
    BY <1>2, <1>5, ScheduleStep
  <1>7. /\ buffer \in Seq(Transfer) /\ Len(buffer) = Len(started)
        /\ \A k \in 1..Len(started) :
                /\ buffer[k].requestor = started[k].requestor
                /\ buffer[k].req = started[k].req
                /\ started[k].counter > 0 => buffer[k].counter = started[k].counter - 1
    BY <1>4, CountingProperties
  <1> HIDE DEF buffer
  <1>8. PathInv(P, buffer, "RD", waiting', serving')
    BY <1>6, <1>7, CountStep
  <1>9. Spaced(buffer, 0, ReadLatency - 1)
    <2>1. \A k \in 1..Len(started) : started[k].counter \in 1..ReadLatency
      BY <1>4 DEF Spaced
    <2>2. \A k \in 1..Len(started) : buffer[k].counter = started[k].counter - 1
      BY <2>1, <1>1, <1>7
    <2> QED BY <2>2, <1>1, <1>4, <1>7, CountSpaced
  <1>10. PathInv(pendingReadRequest', rest, "RD", waiting', serving')
    BY <1>2, <1>8, FinishStep
  <1>11. \A i \in 1..Len(pendingReadRequest') : \E j \in 1..Len(P) : pendingReadRequest'[i] = P[j]
    BY <1>2, <1>8, FinishKeeps
  <1>12. Spaced(rest, 1, ReadLatency - 1)
    BY <1>1, <1>7, <1>9, DueSpaced
  <1> QED BY <1>2, <1>10, <1>11, <1>12

LEMMA PathIInvInit == DataInit => PathIInv
  <1> SUFFICES ASSUME DataInit PROVE PathIInv
    OBVIOUS
  <1>1. /\ pendingReadRequest = <<>> /\ pendingWriteRequest = <<>>
        /\ sendDataBuffer = <<>> /\ pendingReadData = <<>>
        /\ waiting = [r \in Requestors |-> <<>>] /\ serving = NoService
    BY DEF DataInit, ServiceInit
  <1>2. Len(<<>>) = 0 /\ 1..0 = {} /\ \A r \in Requestors : Len(waiting[r]) = 0
    BY <1>1
  <1>3. \A lo, hi : Spaced(<<>>, lo, hi)
    BY DEF Spaced
  <1>4. ASSUME NEW type PROVE PathInv(<<>>, <<>>, type, waiting, NoService)
    <2>1. PathTypes(<<>>, <<>>, waiting, NoService)
      BY <1>1 DEF PathTypes, Services
    <2>2. Distinct(<<>>, <<>>, waiting, NoService)
      BY <1>2 DEF Distinct
    <2>3. Located(<<>>, <<>>, type, waiting, NoService)
      BY <1>2 DEF Located
    <2>4. Ordered(<<>>, <<>>, waiting, NoService)
      BY <1>2 DEF Ordered
    <2> QED BY <2>1, <2>2, <2>3, <2>4 DEF PathInv
  <1> QED BY <1>1, <1>2, <1>3, <1>4 DEF PathIInv

\* The identity of a new request is that of no object anywhere.
LEMMA FreshEverywhere ==
    ASSUME PathIInv, FreeIds # {}
    PROVE  /\ FreshId \in Ids
           /\ \A i \in 1..Len(pendingReadRequest) : pendingReadRequest[i].req.id # FreshId
           /\ \A i \in 1..Len(pendingWriteRequest) : pendingWriteRequest[i].req.id # FreshId
           /\ \A k \in 1..Len(pendingReadData) : pendingReadData[k].req.id # FreshId
           /\ \A k \in 1..Len(sendDataBuffer) : sendDataBuffer[k].req.id # FreshId
           /\ serving # NoService => serving.req.id # FreshId
           /\ \A r \in Requestors : \A k \in 1..Len(waiting[r]) : waiting[r][k].id # FreshId
  <1>1. FreshId \in Ids /\ \A p \in Live : p.req.id # FreshId
    BY DEF FreshId, FreeIds
  <1>2. /\ Located(pendingReadRequest, pendingReadData, "RD", waiting, serving)
        /\ Located(pendingWriteRequest, sendDataBuffer, "WR", waiting, serving)
        /\ PathTypes(pendingReadRequest, pendingReadData, waiting, serving)
        /\ PathTypes(pendingWriteRequest, sendDataBuffer, waiting, serving)
    BY DEF PathIInv, PathInv
  <1>3. /\ \A i \in 1..Len(pendingReadRequest) : pendingReadRequest[i] \in Live
        /\ \A i \in 1..Len(pendingWriteRequest) : pendingWriteRequest[i] \in Live
    <2>1. pendingReadRequest \in Seq(Entry) /\ pendingWriteRequest \in Seq(Entry)
      BY <1>2 DEF PathTypes
    <2>2. /\ DOMAIN pendingReadRequest = 1..Len(pendingReadRequest)
          /\ DOMAIN pendingWriteRequest = 1..Len(pendingWriteRequest)
      BY <2>1, LenProperties
    <2> QED BY <2>2 DEF Live, ToSet
  <1>4. /\ \A i \in 1..Len(pendingReadRequest) : pendingReadRequest[i].req.id # FreshId
        /\ \A i \in 1..Len(pendingWriteRequest) : pendingWriteRequest[i].req.id # FreshId
    BY <1>1, <1>3
  <1>5. /\ \A k \in 1..Len(pendingReadData) : pendingReadData[k].req.id # FreshId
        /\ \A k \in 1..Len(sendDataBuffer) : sendDataBuffer[k].req.id # FreshId
    <2>1. ASSUME NEW k \in 1..Len(pendingReadData) PROVE pendingReadData[k].req.id # FreshId
      <3>1. PICK i \in 1..Len(pendingReadRequest) : Is(pendingReadData[k], pendingReadRequest[i])
        BY <1>2 DEF Located
      <3> QED BY <3>1, <1>4 DEF Is
    <2>2. ASSUME NEW k \in 1..Len(sendDataBuffer) PROVE sendDataBuffer[k].req.id # FreshId
      <3>1. PICK i \in 1..Len(pendingWriteRequest) : Is(sendDataBuffer[k], pendingWriteRequest[i])
        BY <1>2 DEF Located
      <3> QED BY <3>1, <1>4 DEF Is
    <2> QED BY <2>1, <2>2
  <1>6. \A q \in Requests : q.type \in {"RD", "WR"}
    BY DataPathAssumption
  <1>7. serving # NoService => serving.req.id # FreshId
    <2> SUFFICES ASSUME serving # NoService PROVE serving.req.id # FreshId
      OBVIOUS
    <2>1. serving.req \in Requests
      BY <1>2 DEF PathTypes, Services, Entry
    <2> QED BY <2>1, <1>2, <1>4, <1>6 DEF Located
  <1>8. ASSUME NEW r \in Requestors, NEW k \in 1..Len(waiting[r])
        PROVE  waiting[r][k].id # FreshId
    <2>1. waiting[r] \in Seq(Requests)
      BY <1>2 DEF PathTypes
    <2>2. waiting[r][k].type \in {"RD", "WR"}
      BY <2>1, <1>6, ElementOfSeq
    <2>3. CASE waiting[r][k].type = "RD"
      <3>1. PICK i \in 1..Len(pendingReadRequest) :
                pendingReadRequest[i] = [requestor |-> r, req |-> waiting[r][k]]
        BY <2>3, <1>2 DEF Located
      <3> QED BY <3>1, <1>4
    <2>4. CASE waiting[r][k].type = "WR"
      <3>1. PICK i \in 1..Len(pendingWriteRequest) :
                pendingWriteRequest[i] = [requestor |-> r, req |-> waiting[r][k]]
        BY <2>4, <1>2 DEF Located
      <3> QED BY <3>1, <1>4
    <2> QED BY <2>2, <2>3, <2>4
  <1> QED BY <1>1, <1>4, <1>5, <1>7, <1>8

\* addRequest keeps the invariant.
LEMMA AddRequestKeeps ==
    ASSUME PathIInv, NEW r \in Requestors, NEW a \in Addrs, NEW t \in {"RD", "WR"},
           addRequest(r, a, t)
    PROVE  PathIInv'
  <1> DEFINE q == [id |-> FreshId, addr |-> a, type |-> t]
             e == [requestor |-> r, req |-> q]
  <1>1. /\ FreeIds # {}
        /\ waiting' = [waiting EXCEPT ![r] = Append(waiting[r], q)] /\ serving' = serving
        /\ pendingReadRequest' = IF t = "RD" THEN Append(pendingReadRequest, e)
                                 ELSE pendingReadRequest
        /\ pendingWriteRequest' = IF t = "WR" THEN Append(pendingWriteRequest, e)
                                  ELSE pendingWriteRequest
        /\ sendDataBuffer' = sendDataBuffer /\ pendingReadData' = pendingReadData
    BY DEF addRequest, Accept
  <1>2. q \in Requests /\ q.type = t /\ q.id = FreshId
    BY <1>1, FreshEverywhere, DataPathAssumption
  <1>3. e.req = q
    OBVIOUS
  <1> HIDE DEF q
  <1>4. PathInv(pendingReadRequest', pendingReadData', "RD", waiting', serving')
    <2>1. PathInv(pendingReadRequest, pendingReadData, "RD", waiting, serving)
      BY DEF PathIInv
    <2> QED BY <2>1, <1>1, <1>2, FreshEverywhere, AcceptStep
  <1>5. PathInv(pendingWriteRequest', sendDataBuffer', "WR", waiting', serving')
    <2>1. PathInv(pendingWriteRequest, sendDataBuffer, "WR", waiting, serving)
      BY DEF PathIInv
    <2> QED BY <2>1, <1>1, <1>2, FreshEverywhere, AcceptStep
  <1>6. ASSUME NEW i \in 1..Len(pendingReadRequest'), NEW j \in 1..Len(pendingWriteRequest')
        PROVE  pendingReadRequest'[i].req.id # pendingWriteRequest'[j].req.id
    <2>1. pendingReadRequest \in Seq(Entry) /\ pendingWriteRequest \in Seq(Entry) /\ e \in Entry
      BY <1>2 DEF PathIInv, PathInv, PathTypes, Entry
    <2> HIDE DEF e
    <2>2. t = "RD" /\ i \notin 1..Len(pendingReadRequest) => pendingReadRequest'[i] = e
      BY <2>1, <1>1, AppendProperties, LenProperties
    <2>3. i \in 1..Len(pendingReadRequest) => pendingReadRequest'[i] = pendingReadRequest[i]
      BY <2>1, <1>1, AppendProperties, LenProperties
    <2>4. t = "WR" /\ j \notin 1..Len(pendingWriteRequest) => pendingWriteRequest'[j] = e
      BY <2>1, <1>1, AppendProperties, LenProperties
    <2>5. j \in 1..Len(pendingWriteRequest) => pendingWriteRequest'[j] = pendingWriteRequest[j]
      BY <2>1, <1>1, AppendProperties, LenProperties
    <2>6. /\ t = "RD" => pendingWriteRequest' = pendingWriteRequest
          /\ t = "WR" => pendingReadRequest' = pendingReadRequest
      BY <1>1
    <2>7. i \in 1..Len(pendingReadRequest) /\ j \in 1..Len(pendingWriteRequest) =>
            pendingReadRequest[i].req.id # pendingWriteRequest[j].req.id
      BY DEF PathIInv
    <2> QED BY <2>2, <2>3, <2>4, <2>5, <2>6, <2>7, <1>1, <1>2, <1>3, FreshEverywhere
  <1>7. Spaced(pendingReadData, 1, ReadLatency - 1)' /\ Spaced(sendDataBuffer, 0, WriteLatency - 1)'
    BY <1>1 DEF PathIInv, Spaced
  <1> QED BY <1>4, <1>5, <1>6, <1>7 DEF PathIInv

LEMMA CycleKeeps == PathIInv /\ DataCycle => PathIInv'
  <1> SUFFICES ASSUME PathIInv, DataCycle PROVE PathIInv'
    OBVIOUS
  <1>1. /\ PathInv(pendingWriteRequest', sendDataBuffer', "WR", waiting', serving')
        /\ Spaced(sendDataBuffer', 0, WriteLatency - 1)
        /\ \A i \in 1..Len(pendingWriteRequest') :
              \E j \in 1..Len(pendingWriteRequest) : pendingWriteRequest'[i] = pendingWriteRequest[j]
    BY WriteCycle DEF PathIInv
  <1>2. /\ PathInv(pendingReadRequest', pendingReadData', "RD", waiting', serving')
        /\ Spaced(pendingReadData', 1, ReadLatency - 1)
        /\ \A i \in 1..Len(pendingReadRequest') :
              \E j \in 1..Len(pendingReadRequest) : pendingReadRequest'[i] = pendingReadRequest[j]
    BY ReadCycle DEF PathIInv
  <1>3. ASSUME NEW i \in 1..Len(pendingReadRequest'), NEW j \in 1..Len(pendingWriteRequest')
        PROVE  pendingReadRequest'[i].req.id # pendingWriteRequest'[j].req.id
    <2>1. PICK k \in 1..Len(pendingReadRequest) : pendingReadRequest'[i] = pendingReadRequest[k]
      BY <1>2
    <2>2. PICK l \in 1..Len(pendingWriteRequest) : pendingWriteRequest'[j] = pendingWriteRequest[l]
      BY <1>1
    <2> QED BY <2>1, <2>2 DEF PathIInv
  <1> QED BY <1>1, <1>2, <1>3 DEF PathIInv

\* Every step keeps the invariant.
LEMMA PathIInvNext == PathIInv /\ [DataNext]_allVars => PathIInv'
  <1>1. PathIInv /\ UNCHANGED allVars => PathIInv'
    BY DEF allVars, serviceVars, dataVars, PathIInv, Spaced
  <1> QED BY <1>1, CycleKeeps, AddRequestKeeps DEF DataNext

\* One direction of PendingExact.
LEMMA ReferencedExactly ==
    ASSUME NEW P, NEW B, NEW type, PathInv(P, B, type, waiting, serving)
    PROVE  ToSet(P) = Referenced(type, B) /\ IsInjective(P)
  <1>1. /\ PathTypes(P, B, waiting, serving) /\ Distinct(P, B, waiting, serving)
        /\ Located(P, B, type, waiting, serving)
    BY DEF PathInv
  <1>2. /\ P \in Seq(Entry) /\ B \in Seq(Transfer)
        /\ waiting \in [Requestors -> Seq(Requests)] /\ serving \in Services
    BY <1>1 DEF PathTypes
  <1>3. DOMAIN P = 1..Len(P) /\ DOMAIN B = 1..Len(B) /\ \A i \in 1..Len(P) : P[i] \in Entry
    BY <1>2, LenProperties, ElementOfSeq
  <1>4. IsInjective(P)
    BY <1>1, <1>3 DEF Distinct, IsInjective
  <1>5. \A e \in Entry : e = [requestor |-> e.requestor, req |-> e.req] /\ e # NoService
    BY ServiceOrNot DEF Entry
  <1> DEFINE Waiting == UNION {{[requestor |-> r, req |-> waiting[r][k]] :
                            k \in {j \in 1..Len(waiting[r]) : waiting[r][j].type = type}} :
                        r \in Requestors}
             Served == IF serving # NoService /\ serving.req.type = type THEN {serving} ELSE {}
             Moving == {[requestor |-> B[k].requestor, req |-> B[k].req] : k \in DOMAIN B}
  <1>6. Referenced(type, B) = (Waiting \cup Served) \cup Moving
    BY Zenon DEF Referenced
  <1>7. ASSUME NEW i \in 1..Len(P) PROVE P[i] \in (Waiting \cup Served) \cup Moving
    <2>1. /\ P[i] \in Entry /\ P[i].requestor \in Requestors /\ P[i].req.type = type
          /\ P[i] = [requestor |-> P[i].requestor, req |-> P[i].req] /\ P[i] # NoService
      BY <1>1, <1>3, <1>5 DEF Located, Entry
    <2>2. CASE \E k \in 1..Len(B) : Is(B[k], P[i])
      BY <2>1, <2>2 DEF Is
    <2>3. CASE serving = P[i]
      BY <2>1, <2>3
    <2>4. CASE \E k \in 1..Len(waiting[P[i].requestor]) : waiting[P[i].requestor][k] = P[i].req
      <3>1. P[i] \in Waiting
        BY <2>1, <2>4
      <3> QED BY <3>1
    <2> QED BY <2>2, <2>3, <2>4, <1>1 DEF Located
  <1>8. ASSUME NEW e \in (Waiting \cup Served) \cup Moving PROVE \E i \in 1..Len(P) : P[i] = e
    <2>1. CASE e \in Waiting
      BY <2>1, <1>1 DEF Located
    <2>2. CASE e \in Served
      BY <2>2, <1>1 DEF Located
    <2>3. CASE e \in Moving
      <3>1. PICK k \in 1..Len(B) : e = [requestor |-> B[k].requestor, req |-> B[k].req]
        BY <2>3
      <3>2. PICK i \in 1..Len(P) : Is(B[k], P[i])
        BY <1>1 DEF Located
      <3>3. P[i] = [requestor |-> P[i].requestor, req |-> P[i].req]
        BY <1>3, <1>5
      <3> QED BY <3>1, <3>2, <3>3 DEF Is
    <2> QED BY <2>1, <2>2, <2>3
  <1> HIDE DEF Waiting, Served, Moving
  <1>9. ToSet(P) = (Waiting \cup Served) \cup Moving
    BY <1>3, <1>7, <1>8 DEF ToSet
  <1> QED BY <1>4, <1>6, <1>9

\* Data finds its owner: receiveData and sendData call back and delete the request whose
\* transfer ended, although they look for it by requestor and address, whatever order
\* the schedulers choose as long as they keep that of equal accesses of a requestor.
THEOREM PendingIsExact == DataSpec => []PendingExact
  <1>1. PathIInv => PendingExact
    <2> SUFFICES ASSUME PathIInv PROVE PendingExact
      OBVIOUS
    <2>1. /\ PathInv(pendingReadRequest, pendingReadData, "RD", waiting, serving)
          /\ PathInv(pendingWriteRequest, sendDataBuffer, "WR", waiting, serving)
      BY DEF PathIInv
    <2>2. ASSUME NEW p \in Live, NEW q \in Live, p.req.id = q.req.id
          PROVE  p = q
      <3>1. /\ DOMAIN pendingReadRequest = 1..Len(pendingReadRequest)
            /\ DOMAIN pendingWriteRequest = 1..Len(pendingWriteRequest)
        BY <2>1, LenProperties DEF PathInv, PathTypes
      <3>2. \/ \E i \in 1..Len(pendingReadRequest) : p = pendingReadRequest[i]
            \/ \E i \in 1..Len(pendingWriteRequest) : p = pendingWriteRequest[i]
        BY <3>1 DEF Live, ToSet
      <3>3. \/ \E i \in 1..Len(pendingReadRequest) : q = pendingReadRequest[i]
            \/ \E i \in 1..Len(pendingWriteRequest) : q = pendingWriteRequest[i]
        BY <3>1 DEF Live, ToSet
      <3>4. /\ Distinct(pendingReadRequest, pendingReadData, waiting, serving)
            /\ Distinct(pendingWriteRequest, sendDataBuffer, waiting, serving)
        BY <2>1 DEF PathInv
      <3>5. /\ \A i, j \in 1..Len(pendingReadRequest) :
                    pendingReadRequest[i].req.id = pendingReadRequest[j].req.id => i = j
            /\ \A i, j \in 1..Len(pendingWriteRequest) :
                    pendingWriteRequest[i].req.id = pendingWriteRequest[j].req.id => i = j
        BY <3>4 DEF Distinct
      <3> QED BY SMTT(30), <2>2, <3>2, <3>3, <3>5 DEF PathIInv
    <2> QED BY <2>1, <2>2, ReferencedExactly DEF PendingExact
  <1> QED BY <1>1, PathIInvInit, PathIInvNext, PTL DEF DataSpec

\* Two transfers never end in one cycle and no unsigned counter of SendWriteData or of
\* the device passes 0, for every latency.
THEOREM TransfersSpaced == DataSpec => []BurstsSpaced
  <1>1. PathIInv => BurstsSpaced
    BY DEF PathIInv, Spaced, BurstsSpaced
  <1> QED BY <1>1, PathIInvInit, PathIInvNext, PTL DEF DataSpec

\* What DataPath adds leaves the schedulers their freedom and no more: accepting a
\* request and a memory cycle are steps of RequestService.
THEOREM PathUsesService == DataSpec => ServiceSpec
  <1>1. DataInit => ServiceInit
    BY DEF DataInit
  <1>2. PathIInv /\ [DataNext]_allVars => [ServiceNext]_serviceVars
    <2> SUFFICES ASSUME PathIInv, [DataNext]_allVars PROVE [ServiceNext]_serviceVars
      OBVIOUS
    <2>1. ASSUME NEW r \in Requestors, NEW a \in Addrs, NEW t \in {"RD", "WR"},
                 addRequest(r, a, t)
          PROVE  ServiceNext
      <3> DEFINE q == [id |-> FreshId, addr |-> a, type |-> t]
      <3>1. FreeIds # {} /\ Accept(r, q)
        BY <2>1 DEF addRequest
      <3>2. q \in Requests
        BY <3>1, FreshEverywhere, DataPathAssumption
      <3> QED BY <3>1, <3>2 DEF ServiceNext
    <2>2. CASE DataCycle
      BY <2>2 DEF DataCycle, ServiceNext
    <2>3. CASE UNCHANGED allVars
      BY <2>3 DEF allVars
    <2> QED BY <2>1, <2>2, <2>3 DEF DataNext
  <1> QED BY <1>1, <1>2, PathIInvInit, PathIInvNext, PTL DEF DataSpec, ServiceSpec

================================================================================
