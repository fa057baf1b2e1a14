----------------------------- MODULE MCRingNetwork ------------------------------
(* Four routers and buffers of two flits.  Every client sends a burst of packets: *)
(* two hops to the right, so that they close a circle, or round about, in both    *)
(* directions.  Clients start together or one cycle apart, and the network has    *)
(* the clock of the simulation or a slower one.  The layers are two cores, a      *)
(* cache and a memory controller, which send more than a side takes at once.      *)
EXTENDS SimpleNetwork

Burst(hops, sizes) ==
    [i \in Routers |-> [n \in 1..Len(sizes) |->
        [src |-> i, n |-> n, dst |-> (i + hops[n]) % N, size |-> sizes[n]]]]

Circle == Burst(<<2, 2, 2, 2, 2>>, <<2, 1, 2, 1, 2>>)
Around == Burst(<<1, 3, 2, 2, 3>>, <<1, 2, 2, 1, 1>>)

Layers == [i \in Routers |-> IF i < 2 THEN 0 ELSE i - 1]
Send(src, n, dst, size) == [src |-> src, n |-> n, dst |-> dst, size |-> size]
Misses == [i \in Routers |->
    CASE i = 0 -> <<Send(0, 1, 2, 2), Send(0, 2, 2, 1)>>
      [] i = 1 -> <<Send(1, 1, 2, 1), Send(1, 2, 2, 2)>>
      [] i = 2 -> <<Send(2, 1, 3, 1), Send(2, 2, 0, 2), Send(2, 3, 1, 2), Send(2, 4, 0, 1)>>
      [] i = 3 -> <<Send(3, 1, 2, 2)>>]

MCScenarios ==
    [num_vc : {2}, link_latency : {1}, ratio : {1, 3}, sends : {Misses},
     hold : {[i \in Routers |-> 0]}]
    \cup
    [num_vc : {2}, link_latency : {1}, ratio : {1}, sends : {Circle},
     hold : {h \in [Routers -> {0, 1}] : h[0] = 0 /\ h[1] = 0}]
    \cup [num_vc : {2}, link_latency : {1, 2}, ratio : {1}, sends : {Circle, Around},
          hold : {[i \in Routers |-> i]}]
    \cup [num_vc : {3}, link_latency : {2}, ratio : {1}, sends : {Circle, Around},
          hold : {[i \in Routers |-> i]}]
    \cup [num_vc : {2}, link_latency : {2}, ratio : {3}, sends : {Circle, Around},
          hold : {[i \in Routers |-> i]}]

MCPackets == UNION {UNION {ToSet(s.sends[i]) : i \in Routers} : s \in MCScenarios}

================================================================================
