----------------------------- MODULE MCDuetEstimate -----------------------------
(* Two cores, one of which reads and writes two rows, with timings of a cycle   *)
(* or two.  The deadline is the estimate of a precharge and two cycles, so that *)
(* both schedulers decide.                                                      *)
EXTENDS DuetEstimate

MCRowOf == [a0 |-> "rowA", b0 |-> "rowB"]
MCWorkloads ==
    {[sends |-> [r \in Requestors |->
        IF r = 0 THEN {<<"a0", "RD">>, <<"b0", "WR">>} ELSE {<<"a0", "RD">>, <<"b0", "RD">>}],
      bound |-> 1, deadline |-> 8]}
MCArrivals == [r \in Requestors |-> IF r = 0 THEN 1 ELSE 2]
MCTable == [n \in 0..1 |-> n]
================================================================================
