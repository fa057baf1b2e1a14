------------------------------- MODULE MCDataPath -------------------------------
(* One address, reads and writes of different latency, and as many identities   *)
(* as can be live: the waiting ones and one per cycle of each latency.          *)
EXTENDS DataPath

MCRequests == [id : Ids, addr : Addrs, type : {"RD", "WR"}]

================================================================================
