------------------------------- MODULE Ddr4Device -------------------------------
(***************************************************************************)
(* The device MemorySystem builds for deviceGene: DDR3, as CommandIssue    *)
(* has it, or DDR4 (dram/DDR4.h, dram/DDR4.cpp, src/Ramulator_DDR4.h).     *)
(* DDR4 has the levels Channel -> Rank -> BankGroup -> Bank; its channel,  *)
(* rank and bank tables are those of DDR3 with the short parameters tCCD_S,*)
(* tWTR_S and tRRD_S, which S holds here as nCCD, nWTR and nRRD.           *)
(* convert_addr addresses bank group 0 only, so the tree has one group.    *)
(* command_check asks for the current cycle, although the command reaches  *)
(* the device one cycle later, as it does with DDR3.                       *)
(***************************************************************************)
EXTENDS CommandIssue

CONSTANT Long    \* the long parameters: nCCDL, nWTRL, nRRDL

ASSUME LongAssumption == Long \in [{"nCCDL", "nWTRL", "nRRDL"} -> Nat]

VARIABLES
    gene,         \* deviceGene of the configuration
    next_group    \* next[cmd] of the bank group

deviceVars == <<issueVars, gene, next_group>>

(* DDR4::init_timing. *)
ChannelGap4(p, c) == ChannelGap(p, c)
RankGap4(p, c)    == RankGap(p, c)
BankGap4(p, c)    == BankGap(p, c)
GroupGap(p, c) ==
    CASE (p \in Reads /\ c \in Reads) \/ (p \in Writes /\ c \in Writes) -> Long["nCCDL"]
      [] p \in Writes /\ c \in Reads -> S["nCWL"] + S["nBL"] + Long["nWTRL"]
      [] p = "ACT" /\ c = "ACT" -> Long["nRRDL"]
      [] p \in Acts \ {"ACT"} /\ c \in Acts \ {"ACT"} -> Long["nRRDL"]
      [] OTHER -> 0

\* Ramulator_DDR4::command_timing: where a break is missing, the case falls through
\* to the default.
command_timing4(p, c) ==
    IF p \in {"RD", "WR"} /\ c \in Closes THEN 1 ELSE command_timing(p, c)

SentTimer4 ==
    IF bus = NoCmd THEN timer
    ELSE [timer EXCEPT ![bus.bank] = [c \in Cmds |->
            Max2(timer[bus.bank][c], command_timing4(bus.cmd, c))]]

DeviceInit ==
    /\ IssueInit
    /\ gene \in {"DDR3", "DDR4"}
    /\ next_group = [c \in Cmds |-> -1]

\* update on the tree with the bank group between the rank and the bank.
receiveFromBus4 ==
    /\ receiveFromBus
    /\ next_group' = IF bus = NoCmd THEN next_group
                     ELSE [c \in Cmds |-> Later(next_group[c], GroupGap(bus.cmd, c), clk)]

\* Mutant: the walk down the tree passes over the bank group.
check4NoGroup(p) == check(next_channel', next_rank', next_bank', p, clk)

\* command_check: scope[cmd] names the same levels as with DDR3.
check4(p) ==
    /\ check(next_channel', next_rank', next_bank', p, clk)
    /\ scope(p.cmd) \notin {Channel, Rank} => Ready(next_group'[p.cmd], clk)

Cycle4 ==
    /\ clk < MaxClk
    /\ receiveFromBus4
    /\ \/ bus' = NoCmd
       \/ \E p \in Packets : /\ check4(p) /\ SentTimer4[p.bank][p.cmd] = 0
                             /\ bus' = p
    /\ timer' = [b \in Banks |-> [c \in Cmds |-> Ticked(SentTimer4[b][c])]]
    /\ clk' = clk + 1

DeviceNext ==
    \/ gene = "DDR3" /\ IssueNext /\ UNCHANGED <<gene, next_group>>
    \/ gene = "DDR4" /\ Cycle4 /\ UNCHANGED gene

DeviceSpec == DeviceInit /\ [][DeviceNext]_deviceVars

--------------------------------------------------------------------------------

\* DDR4::init_timing, tables of all levels: column commands of the group keep the
\* long distances, and every bound the check consults is kept with a cycle to spare,
\* because the check is made for the cycle before the command arrives.  (An activate
\* is not checked below the rank: tRRD_L is in the table and never consulted.)
GroupTimingRespected ==
    gene = "DDR4" => \A e, f \in trace : e.at < f.at =>
        /\ ChannelGap4(e.cmd, f.cmd) # 0 => f.at - e.at > ChannelGap4(e.cmd, f.cmd)
        /\ RankGap4(e.cmd, f.cmd) # 0 => f.at - e.at > RankGap4(e.cmd, f.cmd)
        /\ scope(f.cmd) \notin {Channel, Rank} =>
                /\ GroupGap(e.cmd, f.cmd) # 0 => f.at - e.at > GroupGap(e.cmd, f.cmd)
                /\ e.bank = f.bank /\ BankGap4(e.cmd, f.cmd) # 0
                        => f.at - e.at > BankGap4(e.cmd, f.cmd)

\* What no pair of neighbouring commands shows: the window of four activates, and
\* the distances in a bank group of DDR4.
WindowAndGroupTiming == FourActivateWindow /\ GroupTimingRespected
================================================================================
