------------------------------ MODULE CommandIssue ------------------------------
(***************************************************************************)
(* The command timers of the scheduler (src/CommandScheduler.cpp) composed *)
(* with the DDR3 device of DramTiming.  A command leaves the scheduler     *)
(* only if the timer its requestor keeps for it has run down (isReady) and *)
(* the device accepts it for the next cycle (isIssuable).  Banks are       *)
(* private to requestors (AddressMapping), so a bank's queue has one       *)
(* requestor and its timers are indexed by the bank.                       *)
(***************************************************************************)
EXTENDS DramTiming

\* The literal burst length of command_timing covers the device's.
ASSUME BurstAssumption == S["nBL"] <= 4

VARIABLE timer    \* reqCmdQueueTimer[bank][requestor][type]

issueVars == <<vars, timer>>

\* Ramulator::command_timing(command, type); the burst length and the
\* write-to-read delay of the column commands are literals there.
command_timing(p, c) ==
    CASE p \in Closes -> IF c \in Acts THEN S["nRP"] ELSE 0
      [] p = "ACT" /\ c = "ACT" -> S["nRC"]
      [] p \in Acts \ {"ACT"} /\ c \in Acts \ {"ACT"} -> S["nRC"]
      [] p \in Acts /\ c \in Closes -> S["nRAS"]
      [] p \in Acts /\ c \in Reads \cup Writes -> S["nRCD"]
      [] p = "RD" /\ c \in Reads -> 4
      [] p = "RD" /\ c \in Writes -> S["nCL"] + S["nBL"] + 2 - S["nCWL"]
      [] p = "RD" /\ c \in Closes -> S["nRTP"]
      [] p = "RDA" /\ c = "ACT" -> S["nRTP"] + S["nRP"]
      [] p = "WR" /\ c \in Reads -> S["nCWL"] + 4 + 6
      [] p = "WR" /\ c \in Writes -> 4
      [] p = "WR" /\ c \in Closes -> S["nCWL"] + 4 + S["nWR"]
      [] p = "WRA" /\ c = "ACT" -> S["nCWL"] + 4 + S["nWR"] + S["nRP"]
      [] OTHER -> 1

IssueInit == Init /\ timer = [b \in Banks |-> [c \in Cmds |-> 0]]

\* Mutant: the timer of the last command replaces what was left of another one.
SentTimerOverwrite ==
    IF bus = NoCmd THEN timer
    ELSE [timer EXCEPT ![bus.bank] = [c \in Cmds |-> command_timing(bus.cmd, c)]]

\* sendCommand: the timers of the command's queue are raised, never lowered.
SentTimer ==
    IF bus = NoCmd THEN timer
    ELSE [timer EXCEPT ![bus.bank] = [c \in Cmds |->
            Max2(timer[bus.bank][c], command_timing(bus.cmd, c))]]

isReady(p) == SentTimer[p.bank][p.cmd] = 0

\* tick: every timer that still runs is counted down.
Ticked(t) == IF t > 0 THEN t - 1 ELSE 0

tick == timer' = [b \in Banks |-> [c \in Cmds |-> Ticked(SentTimer[b][c])]]

\* A cycle of the controller: send, decide among the ready commands, tick.
IssueNext ==
    /\ Cycle
    /\ tick
    /\ bus' # NoCmd => isReady(bus')

IssueSpec == IssueInit /\ [][IssueNext]_issueVars

--------------------------------------------------------------------------------

\* DDR3::init_timing, bank level: the device's own check of an activate stops at
\* the rank, and still every bank-level entry of the table holds between any two
\* commands of a bank, tRP and tRC before an activate included: the timers of
\* the scheduler make up for what the check leaves out.
BankTimingComplete ==
    \A e, f \in trace :
        e.at < f.at /\ e.bank = f.bank => f.at - e.at >= BankGap(e.cmd, f.cmd)
================================================================================
