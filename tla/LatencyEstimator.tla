---------------------------- MODULE LatencyEstimator ----------------------------
(***************************************************************************)
(* The arithmetic of WCLator, the worst-case latency estimator of the DUET *)
(* command scheduler: how long the oldest real-time command of a requestor *)
(* may still take until its data has been transferred, if the high         *)
(* performance scheduler sends one more command first.                     *)
(*                                                                         *)
(* A situation s holds what the estimate depends on: the oldest command    *)
(* (old), its timer, the inter-CAS counters CInterR and CInterW, and how   *)
(* many requestors in front still need a PRE, an ACT or a RD.  A choice h  *)
(* is the command HPA sends (type "none" if it sends nothing) and whether  *)
(* it belongs to the requestor itself.                                     *)
(*                                                                         *)
(* The code computes with unsigned numbers, (front_has_rd - 2) * tCCD      *)
(* wraps around for fewer than two reads in front and the sum comes back,  *)
(* because no estimate is negative: the integers here are the values.      *)
(***************************************************************************)
EXTENDS Integers, FiniteSetsExt

CONSTANTS
    tCCD, tRL, tWL, tBUS, tRTW, tWTR, tRP, tRCD, tRTP, tWR,
    REQ_count,     \* the number of requestors the bound is made for
    LPRE, LACT     \* interference tables, from 0 requestors in front

ASSUME EstimatorAssumption ==
    /\ {tCCD, tRL, tWL, tBUS, tRTW, tRP, tRCD, tRTP, tWR, REQ_count} \subseteq Nat \ {0}
    /\ tWTR \in Nat
    /\ LPRE \in [0..(REQ_count - 1) -> Nat] /\ LACT \in [0..(REQ_count - 1) -> Nat]
    /\ \A m, n \in 0..(REQ_count - 1) : m <= n => LPRE[m] <= LPRE[n] /\ LACT[m] <= LACT[n]

Larger(a, b) == IF a >= b THEN a ELSE b

\* Write CAS to read CAS.
tWtoR == tBUS + tWTR + tWL

None == [type |-> "none", own |-> FALSE]
Sendable == [type : {"PRE", "ACT", "RD", "WR"}, own : BOOLEAN] \cup {None}

\* From the moment the row is open: the reads in front, one switch to a write and
\* back, and the transfer.
Column(s) == (s.rd - 2) * tCCD + Larger(tRTW, 2 * tCCD) + tWtoR - 1 + tRL + tBUS
Row(s)    == LACT[s.act] + tRCD + Column(s)

ReadAfter(s, gap) ==
    IF s.timer <= 1 THEN gap + s.rd * tCCD + tRL + tBUS ELSE s.timer + Column(s)
WriteAfter(s, gap) ==
    IF s.timer <= 1 THEN gap + (REQ_count - 1) * tCCD + tRTW + tWL + tBUS
    ELSE s.timer + (REQ_count - 1) * tCCD + tRTW + 1 + tWL + tBUS

AtLeastOne(n) == IF n = 0 THEN 1 ELSE n

\* The gap a command of another requestor (or none) leaves in front of a read or write.
ReadGap(s, h) ==
    CASE h.type = "RD" -> tCCD
      [] h.type = "WR" -> tWtoR
      [] OTHER -> AtLeastOne(s.CInterR)
WriteGap(s, h, behind) ==
    CASE h.type = "RD" -> tRTW + behind
      [] h.type = "WR" -> tCCD
      [] OTHER -> AtLeastOne(s.CInterW)

\* The estimates are sets, empty if the code has no case for the combination.
Read(s, h) ==
    CASE ~h.own -> {ReadAfter(s, ReadGap(s, h))}
      [] h.own /\ h.type = "RD" -> {tRL + tBUS}
      [] OTHER -> {}
Write(s, h, behind) ==
    CASE ~h.own -> {WriteAfter(s, WriteGap(s, h, behind))}
      [] h.own /\ h.type = "WR" -> {tWL + tBUS}
      [] OTHER -> {}
Precharge(s, h) ==
    CASE h = None -> {s.timer + LPRE[s.pre] + tRP + Row(s) + (IF s.timer = 0 THEN 1 ELSE 0)}
      [] h # None /\ ~h.own -> {s.timer + LPRE[s.pre] + tRP + Row(s)}
      [] h.own /\ h.type = "RD" -> {Larger(s.timer, tRTP) + LPRE[s.pre] + tRP + Row(s)}
      [] h.own /\ h.type = "WR" -> {Larger(s.timer, tWR) + LPRE[s.pre] + tRP + Row(s)}
      [] OTHER -> {tRP + Row(s)}
Activate(s, h) == IF h.own THEN {tRCD + Column(s)} ELSE {s.timer + Row(s)}

--------------------------------------------------------------------------------
(* The three branches: a request that was a row hit when it was first seen, one *)
(* that was not, and one that is seen for the first time.                       *)

Open(s, h) ==
    CASE s.old = "RD" -> Read(s, h)
      [] s.old = "WR" -> Write(s, h, 0)
      [] OTHER -> {}
Closed(s, h) ==
    CASE s.old = "PRE" -> Precharge(s, h)
      [] s.old = "ACT" -> Activate(s, h)
      [] s.old = "RD" -> Read(s, h)
      [] s.old = "WR" -> Write(s, h, s.rd * tCCD)
      [] OTHER -> {}
New(s, h) ==
    CASE s.old = "PRE" -> Precharge(s, h)
      [] s.old = "RD" -> Read(s, h)
      [] s.old = "WR" -> Write(s, h, 0)
      [] OTHER -> {}

\* Mutant: a write of another requestor is left out.
OpenANoWrite(s) == UNION {Open(s, h) : h \in {g \in Sendable : g.type # "WR"}}

\* Implementation A: whatever HPA sends.
OpenA(s)   == UNION {Open(s, h) : h \in Sendable}
ClosedA(s) == UNION {Closed(s, h) : h \in Sendable}
NewA(s)    == UNION {New(s, h) : h \in Sendable}

\* Implementation B: nothing, or one of the commands HPA has ready.
OpenB(s, ready)   == UNION {Open(s, h) : h \in ready \cup {None}}
ClosedB(s, ready) == UNION {Closed(s, h) : h \in ready \cup {None}}
NewB(s, ready)    == UNION {New(s, h) : h \in ready \cup {None}}

\* Implementation C: the command HPA has chosen.  A read of the requestor itself
\* in front of a precharge takes the branch of an ACT or PRE: an else is missing.
Seen(s, h) ==
    IF s.old = "PRE" /\ h.own /\ h.type = "RD" THEN [h EXCEPT !.type = "ACT"] ELSE h
OpenC(s, h)   == Open(s, h)
ClosedC(s, h) == Closed(s, Seen(s, h))
NewC(s, h)    == New(s, Seen(s, h))

\* tempLatency is the largest estimate, 0 if there is none.
Worst(S) == Max(S \cup {0})

================================================================================
