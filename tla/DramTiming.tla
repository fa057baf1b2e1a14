------------------------------- MODULE DramTiming -------------------------------
(***************************************************************************)
(* The DDR3 device of MCsim: the tree Channel -> Rank -> Bank of           *)
(* dram/DRAM.h with the tables of dram/DDR3.h and dram/DDR3.cpp, driven as *)
(* src/Ramulator.h and the command scheduler drive it.  In every cycle the *)
(* command decided one cycle before is received (channel->update at clk),  *)
(* and then the next command is decided by checking it against the updated *)
(* tree for the cycle to come (command_check: clockCycle+1).               *)
(*                                                                         *)
(* convert_addr addresses rank 0 only, so the tree has one rank; the       *)
(* sibling-rank entries write nodes that no command ever consults.         *)
(* A history of depth one always holds the current clock when it is read,  *)
(* so only the depth-four history of activates (tFAW) is kept.             *)
(***************************************************************************)
EXTENDS Integers, Sequences, FiniteSets

CONSTANTS
    Banks,       \* banks of the rank
    Rows,        \* rows of a bank
    S,           \* speed_entry: the timing parameters in cycles
    IssuedCmds,  \* the commands the controller sends
    MaxClk       \* bound on the cycles explored

Reads    == {"RD", "RDA"}
Writes   == {"WR", "WRA"}
Acts     == {"ACT", "ACT_R", "ACT_W"}
Closes   == {"PRE", "PREA"}

\* The commands Ramulator::convert_cmd accepts; for any other it aborts.
Cmds == Acts \cup Closes \cup Reads \cup Writes \cup {"REF"}

Params == {"nBL", "nCCD", "nCL", "nCWL", "nRCD", "nRP", "nRAS", "nRC",
           "nRTP", "nWTR", "nWR", "nRRD", "nFAW", "nRFC"}

ASSUME DramAssumption ==
    /\ S \in [Params -> Nat]
    /\ S["nCWL"] <= S["nCL"]
    /\ IssuedCmds \subseteq Cmds
    /\ MaxClk \in Nat

(* Levels of the tree. *)
Channel == 0
Rank    == 1
Bank    == 2
Row     == 3
Column  == 4

\* DDR3::Command in declaration order, and the initialisers of DDR3::scope.
Command == <<"ACT_R", "ACT_W", "ACT", "PRE", "PREA", "RD", "WR", "RDA", "WRA",
             "REF", "PDE", "PDX", "SRE", "SRX">>
ScopeInitialisers ==
    <<Row, Bank, Rank, Column, Column, Column, Column,
      Rank, Rank, Rank, Rank, Rank>>

\* scope[cmd]: an array element without initialiser is Level 0, the channel.
scope(cmd) ==
    LET i == CHOOSE j \in 1..Len(Command) : Command[j] = cmd
    IN  IF i <= Len(ScopeInitialisers) THEN ScopeInitialisers[i] ELSE Channel

(***************************************************************************)
(* DDR3::init_timing.  Gap(l, p, c) is the number of cycles that must pass *)
(* at a node of level l between p and a later c; 0 stands for no entry.    *)
(***************************************************************************)
ChannelGap(p, c) ==
    IF (p \in Reads /\ c \in Reads) \/ (p \in Writes /\ c \in Writes)
    THEN S["nBL"] ELSE 0

RankGap(p, c) ==
    CASE (p \in Reads /\ c \in Reads) \/ (p \in Writes /\ c \in Writes) -> S["nCCD"]
      [] p \in Reads /\ c \in Writes -> S["nCL"] + S["nCCD"] + 2 - S["nCWL"]
      [] p \in Writes /\ c \in Reads -> S["nCWL"] + S["nBL"] + S["nWTR"]
      [] p = "RD" /\ c = "PREA" -> S["nRTP"]
      [] p = "WR" /\ c = "PREA" -> S["nCWL"] + S["nBL"] + S["nWR"]
      [] p = "ACT" /\ c = "ACT" -> S["nRRD"]
      [] p \in Acts \ {"ACT"} /\ c \in Acts \ {"ACT"} -> S["nRRD"]
      [] p \in Acts /\ c = "PREA" -> S["nRAS"]
      [] p = "PREA" /\ c \in Acts -> S["nRP"]
      [] p \in Closes /\ c = "REF" -> S["nRP"]
      [] p = "REF" /\ c \in Acts \cup {"REF"} -> S["nRFC"]
      [] OTHER -> 0

BankGap(p, c) ==
    CASE p \in Acts /\ c \in Reads \cup Writes -> S["nRCD"]
      [] p = "RD" /\ c = "PRE" -> S["nRTP"]
      [] p = "WR" /\ c = "PRE" -> S["nCWL"] + S["nBL"] + S["nWR"]
      [] p = "RDA" /\ c \in Acts -> S["nRTP"] + S["nRP"]
      [] p = "WRA" /\ c \in Acts -> S["nCWL"] + S["nBL"] + S["nWR"] + S["nRP"]
      [] p = "ACT" /\ c = "ACT" -> S["nRC"]
      [] p \in Acts \ {"ACT"} /\ c \in Acts \ {"ACT"} -> S["nRC"]
      [] p \in Acts /\ c = "PRE" -> S["nRAS"]
      [] p = "PRE" /\ c \in Acts -> S["nRP"]
      [] OTHER -> 0

\* The depth-four entries of the rank: a fifth activate waits for the first one.
FawEntry(p, c) ==
    \/ p = "ACT" /\ c = "ACT"
    \/ p \in Acts \ {"ACT"} /\ c \in Acts \ {"ACT"}

--------------------------------------------------------------------------------

VARIABLES
    clk,          \* the device's clockCycle
    next_channel, \* next[cmd] of the channel: earliest cycle cmd may be issued
    next_rank,    \* next[cmd] of the rank
    next_bank,    \* next[cmd] of every bank
    prev,         \* prev[act] of the rank: its last four issue times, newest first
    state,        \* state of every bank
    row_state,    \* the rows a bank has open
    bus,          \* the command decided for this cycle, or NoCmd
    trace         \* history: every command received, with its cycle

vars == <<clk, next_channel, next_rank, next_bank, prev, state, row_state,
          bus, trace>>

NoCmd   == [cmd |-> "none"]
Packets == [cmd : IssuedCmds, bank : Banks, row : Rows]

\* The constructor: no command is known to the future or to the past.
Init ==
    /\ clk = 0
    /\ next_channel = [c \in Cmds |-> -1]
    /\ next_rank = [c \in Cmds |-> -1]
    /\ next_bank = [b \in Banks |-> [c \in Cmds |-> -1]]
    /\ prev = [a \in Acts |-> <<-1, -1, -1, -1>>]
    /\ state = [b \in Banks |-> "Closed"]
    /\ row_state = [b \in Banks |-> {}]
    /\ bus = NoCmd
    /\ trace = {}

(* Reading the tree. *)

Ready(next, at) == ~(next # -1 /\ at < next)

\* Mutant: the command is decided against the tree of the cycle before.
checkStale(nc, nr, nb, p, at) ==
    /\ Ready(next_channel[p.cmd], at)
    /\ scope(p.cmd) # Channel => Ready(next_rank[p.cmd], at)
    /\ scope(p.cmd) \notin {Channel, Rank} => Ready(next_bank[p.bank][p.cmd], at)

\* check: from the channel down to the level scope[cmd].
check(nc, nr, nb, p, at) ==
    /\ Ready(nc[p.cmd], at)
    /\ scope(p.cmd) # Channel => Ready(nr[p.cmd], at)
    /\ scope(p.cmd) \notin {Channel, Rank} => Ready(nb[p.bank][p.cmd], at)

Max2(a, b) == IF a < b THEN b ELSE a

(* Updating the tree. *)

\* Pushing the clock on the history of activates drops the oldest of the four.
Remember(p, at) ==
    IF p.cmd \in Acts
    THEN [prev EXCEPT ![p.cmd] = <<at, @[1], @[2], @[3]>>]
    ELSE prev

\* One entry of the table applied to one element of next.
Later(next, gap, at) == IF gap = 0 THEN next ELSE Max2(next, at + gap)

\* Mutant: the history is read before the current activate is pushed on it.
FawLaterEarly(next, p, c, at) ==
    LET past == prev[p.cmd][4]
    IN  IF FawEntry(p.cmd, c) /\ past >= 0
        THEN Max2(next, past + S["nFAW"])
        ELSE next

\* The fifth activate waits for the first of the last four.
FawLater(next, p, c, at) ==
    LET past == Remember(p, at)[p.cmd][4]
    IN  IF FawEntry(p.cmd, c) /\ past >= 0
        THEN Max2(next, past + S["nFAW"])
        ELSE next

\* update_timing: the channel, the rank and the addressed bank; the banks that
\* are not addressed only take sibling entries, of which their level has none.
update_timing(p, at) ==
    /\ next_channel' = [c \in Cmds |->
            Later(next_channel[c], ChannelGap(p.cmd, c), at)]
    /\ next_rank' = [c \in Cmds |->
            FawLater(Later(next_rank[c], RankGap(p.cmd, c), at), p, c, at)]
    /\ next_bank' = [next_bank EXCEPT ![p.bank] = [c \in Cmds |->
            Later(next_bank[p.bank][c], BankGap(p.cmd, c), at)]]
    /\ prev' = Remember(p, at)

\* update_state: the lambdas on the way down, no deeper than scope[cmd].
update_state(p) ==
    LET reaches(l) == scope(p.cmd) >= l
        closed == IF p.cmd = "PREA" /\ reaches(Rank) THEN Banks
                  ELSE IF p.cmd \in {"PRE", "RDA", "WRA"} /\ reaches(Bank)
                       THEN {p.bank} ELSE {}
        opened == IF p.cmd \in Acts /\ reaches(Bank) THEN {p.bank} ELSE {}
    IN  /\ state' = [b \in Banks |-> IF b \in opened THEN "Opened"
                                     ELSE IF b \in closed THEN "Closed"
                                     ELSE state[b]]
        /\ row_state' = [b \in Banks |->
                IF b \in opened THEN row_state[b] \cup {p.row}
                ELSE IF b \in closed THEN {} ELSE row_state[b]]

\* receiveFromBus: the command decided one cycle ago reaches the device.
receiveFromBus ==
    IF bus = NoCmd
    THEN UNCHANGED <<next_channel, next_rank, next_bank, prev, state,
                     row_state, trace>>
    ELSE /\ update_state(bus)
         /\ update_timing(bus, clk)
         /\ trace' = trace \cup {[cmd |-> bus.cmd, bank |-> bus.bank, at |-> clk]}

\* command_check for the coming cycle, on the tree as it is after the update.
Decide ==
    \/ bus' = NoCmd
    \/ \E p \in Packets :
        /\ check(next_channel', next_rank', next_bank', p, clk + 1)
        /\ bus' = p

\* One memory cycle.
Cycle ==
    /\ clk < MaxClk
    /\ receiveFromBus
    /\ Decide
    /\ clk' = clk + 1

Next == Cycle

Spec == Init /\ [][Next]_vars

--------------------------------------------------------------------------------

Times == Nat \cup {-1}

Events == [cmd : Cmds, bank : Banks, at : Nat]

TypeOK ==
    /\ clk \in Nat
    /\ next_channel \in [Cmds -> Times]
    /\ next_rank \in [Cmds -> Times]
    /\ next_bank \in [Banks -> [Cmds -> Times]]
    /\ prev \in [Acts -> Times \X Times \X Times \X Times]
    /\ state \in [Banks -> {"Opened", "Closed"}]
    /\ row_state \in [Banks -> SUBSET Rows]
    /\ bus \in Packets \cup {NoCmd}
    /\ trace \subseteq Events

\* DRAM::check as the controllers use it: however the commands of all banks
\* interleave, two commands received in either order are at least as far apart as
\* the channel's table and, where the check goes that deep, the rank's and the
\* bank's tables demand, and this for any two, not only for neighbours.
TimingRespected ==
    \A e, f \in trace : e.at < f.at =>
        /\ f.at - e.at >= ChannelGap(e.cmd, f.cmd)
        /\ scope(f.cmd) # Channel => f.at - e.at >= RankGap(e.cmd, f.cmd)
        /\ (scope(f.cmd) \notin {Channel, Rank} /\ e.bank = f.bank)
                => f.at - e.at >= BankGap(e.cmd, f.cmd)

\* The rank's history of four activates: no window of tFAW cycles holds more
\* than four of them, whichever banks they open.
FourActivateWindow ==
    \A f \in trace : f.cmd = "ACT" =>
        Cardinality({e \in trace : /\ e.cmd = "ACT"
                                   /\ e.at <= f.at
                                   /\ f.at < e.at + S["nFAW"]}) <= 4

================================================================================
