---------------------------- MODULE MCDuetController ----------------------------
(* Small instances of the controller: a row with two addresses and one with a   *)
(* single address, so that row hits out of order, repeated addresses and row    *)
(* conflicts all occur.                                                         *)
EXTENDS DuetController

MCRowOf == [a0 |-> "rowA", a1 |-> "rowA", b0 |-> "rowB"]

\* One core whose accesses hit, miss and repeat, for the two schedulers of one bank.
OneCore == [sends |-> [r \in Requestors |->
                IF r = 0 THEN {<<"a0", "RD">>, <<"a1", "WR">>, <<"b0", "RD">>} ELSE {}],
            bound |-> 2, deadline |-> 3]

\* Two cores: one reads and writes two rows, the other always hits its own.
TwoCores == [sends |-> [r \in Requestors |->
                IF r = 0 THEN {<<"a0", "RD">>, <<"b0", "WR">>} ELSE {<<"a0", "RD">>}],
             bound |-> 1, deadline |-> 2]

MCWorkloads == {OneCore, TwoCores}

================================================================================
