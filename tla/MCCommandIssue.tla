----------------------------- MODULE MCCommandIssue -----------------------------
(* Scheduler timers and device with small timing parameters; tRC is larger than *)
(* tRAS + tRP, so that each of the three bounds an activate by itself, and five  *)
(* banks can take five activates within tFAW.                                    *)
EXTENDS Ddr4Device, TLC

MCSpeed ==
    [nBL |-> 1, nCCD |-> 1, nCL |-> 1, nCWL |-> 1, nRCD |-> 1, nRP |-> 1,
     nRAS |-> 1, nRC |-> 5, nRTP |-> 1, nWTR |-> 1, nWR |-> 1, nRRD |-> 1,
     nFAW |-> 6, nRFC |-> 4]

MCLong == [nCCDL |-> 2, nWTRL |-> 2, nRRDL |-> 2]

\* The banks of a rank are interchangeable.
BankSymmetry == Permutations(Banks)
================================================================================
