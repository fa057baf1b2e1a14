----------------------------- MODULE MCNativeDram -----------------------------
(* Four requests for two rows of one bank and one of another; two share an address.  *)
EXTENDS NativeDram

MCAddrOf == [q1 |-> "a", q2 |-> "a", q3 |-> "b", q4 |-> "c"]
MCBankOf == [a |-> 0, b |-> 0, c |-> 1]
MCRowOf == [a |-> 0, b |-> 1, c |-> 0]
MCTypeOf == [q1 |-> "read", q2 |-> "wb", q3 |-> "prefetch", q4 |-> "read"]
MCSizeOf == [q1 |-> 3, q2 |-> 3, q3 |-> 1, q4 |-> 1]
=============================================================================
