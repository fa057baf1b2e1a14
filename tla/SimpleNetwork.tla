----------------------------- MODULE SimpleNetwork ------------------------------
(***************************************************************************)
(* The network MacSim builds: the ring of RingNetwork, or the topology     *)
(* simple_noc, in which every core reaches every cache and every cache     *)
(* every memory controller directly, downstream, and back upstream.        *)
(*                                                                         *)
(* A router of simple_noc keeps the packets it sends and the packets it    *)
(* receives apart by side.  A packet enters the receiver at once and is    *)
(* ready after as many cycles of the receiver as it has flits; in between  *)
(* the receiver accepts no other packet from that side.  The receiver may  *)
(* or may not have run in this cycle, so its cycles are counted with it.   *)
(* Clients, offered packets and the order of the routers are those of the  *)
(* ring, but a client here may refuse a packet and get it again.           *)
(***************************************************************************)
EXTENDS RingNetwork, FiniteSetsExt, Lists

CONSTANTS
    Layer,           \* router -> 0 (core), 1 (cache) or 2 (memory controller)
    SideBufferMax,   \* m_ds_injection_buffer_max_size, m_us_injection_buffer_max_size
    MaxPending,      \* m_max_pending_flits_from_us, m_max_pending_flits_from_ds
    MaxRefusals      \* bound on how often clients refuse a packet

ASSUME LayerAssumption ==
    /\ Layer \in [Routers -> 0..2]
    /\ \A i, j \in Routers : i < j => Layer[i] <= Layer[j]
    /\ SideBufferMax \in Nat \ {0} /\ MaxPending \in Nat /\ MaxRefusals \in Nat

Sides == {"us", "ds"}
Ways  == Routers \X Sides

VARIABLES
    topology,    \* KNOB_NOC_TOPOLOGY
    sending,     \* m_us_injection_buffer, m_ds_injection_buffer
    received,    \* m_packets_from_us, m_packets_from_ds, with the cycles until m_rdy_cycle
    pending,     \* m_pending_flits_from_us, m_pending_flits_from_ds
    recv_avail,  \* cycles until m_recv_from_us_avail, m_recv_from_ds_avail
    refusals     \* how often the clients still refuse

simple == <<sending, received, pending, recv_avail, refusals>>
networkVars == <<vars, topology, simple>>

\* Packets of simple_noc go from one layer to the next; other traffic takes the ring.
Layered(sends) ==
    \A i \in Routers : \A p \in ToSet(sends[i]) : Layer[p.dst] - Layer[i] \in {-1, 1}

NetworkInit ==
    /\ Init
    /\ topology = IF Layered(offered) THEN "simple_noc" ELSE "ring"
    /\ sending = [w \in Ways |-> <<>>] /\ received = [w \in Ways |-> <<>>]
    /\ pending = [w \in Ways |-> 0] /\ recv_avail = [w \in Ways |-> 0]
    /\ refusals = MaxRefusals

--------------------------------------------------------------------------------

\* init_simple_topology: the routers of a layer (m_cores, m_caches, m_mcs), those of the
\* next layer down and up, and the id of the first of them.
OfLayer(l) == Kept([k \in 1..N |-> k - 1], {j \in Routers : Layer[j] = l})
dstream(i) == OfLayer(Layer[i] + 1)
ustream(i) == OfLayer(Layer[i] - 1)
ds_start(i) == Cardinality({j \in Routers : Layer[j] <= Layer[i]})
us_start(i) == Cardinality({j \in Routers : Layer[j] < Layer[i] - 1})

\* Where the packet in front of a side arrives: downstream it comes from upstream.
Receiver(i, side) ==
    LET dst == Head(sending[<<i, side>>]).dst
    IN  IF side = "ds" THEN <<dstream(i)[dst - ds_start(i) + 1], "us">>
        ELSE <<ustream(i)[dst - us_start(i) + 1], "ds">>

try_packet_insert(w, p) ==
    /\ recv_avail[w] = 0
    /\ pending[w] + p.size <= MaxPending

\* One router: it tries the front packet of both sides, and its own cycle ends.
packet_injection ==
    LET i == Running
        goes == {side \in Sides :
                    /\ sending[<<i, side>>] # <<>>
                    /\ try_packet_insert(Receiver(i, side), Head(sending[<<i, side>>]))}
        into(w) == {Head(sending[<<i, side>>]) : side \in {s \in goes : Receiver(i, s) = w}}
        size(w) == MapThenSumSet(LAMBDA p : p.size, into(w))
    IN  /\ topology = "simple_noc" /\ stage = "credit"
        /\ sending' = [w \in Ways |->
                IF w[1] = i /\ w[2] \in goes THEN Tail(sending[w]) ELSE sending[w]]
        /\ received' = [w \in Ways |->
                IF w[1] = i THEN [k \in DOMAIN received[w] |->
                                    [received[w][k] EXCEPT !.wait = CountDown(@)]]
                ELSE received[w] \o SetToSeq({[pkt |-> p, wait |-> p.size] : p \in into(w)})]
        /\ pending' = [w \in Ways |-> pending[w] + size(w)]
        /\ recv_avail' = [w \in Ways |->
                IF w[1] = i THEN CountDown(recv_avail[w])
                ELSE IF into(w) # {} THEN size(w) ELSE recv_avail[w]]
        /\ stage' = IF turn = N - 1 THEN "clients" ELSE "credit"
        /\ turn' = (turn + 1) % N
        /\ UNCHANGED <<ends, input, output, channels, flow, num_vc, latency, ratio, busy, now,
                       clock, topology, refusals>>

\* The packets a client can take: receive_req.
receive_req == {w \in Ways : received[w] # <<>> /\ Head(received[w]).wait = 0}

popped_flitsOne(w) == 1
\* What pop_req takes off the pending flits.
popped_flits(w) == Head(received[w]).pkt.size

\* inject_packet: which side a packet takes, and how many of a client's packets fit.
SideOf(p) == IF p.src < p.dst THEN "ds" ELSE "us"
OnSide(i, side, n) == Kept(SubSeq(offered[i], 1, n), {p \in Packets : SideOf(p) = side})
Injected(i) ==
    IF hold[i] > 0 THEN 0
    ELSE Max({n \in 0..Len(offered[i]) : \A side \in Sides :
                Len(sending[<<i, side>>]) + Len(OnSide(i, side, n)) <= SideBufferMax})

\* The end of a cycle: of what is ready the clients take some (pop_req) and refuse the
\* rest, and inject what fits.
SimpleEndOfCycle(takes) ==
    /\ topology = "simple_noc" /\ Proceed("clients", "credit")
    /\ refusals' = refusals - Cardinality(receive_req \ takes) /\ refusals' >= 0
    /\ received' = [w \in Ways |-> IF w \in takes THEN Tail(received[w]) ELSE received[w]]
    /\ pending' = [w \in Ways |-> IF w \in takes THEN pending[w] - popped_flits(w) ELSE pending[w]]
    /\ arrived' = arrived \cup {Head(received[w]).pkt : w \in takes}
    /\ sending' = [w \in Ways |-> sending[w] \o OnSide(w[1], w[2], Injected(w[1]))]
    /\ offered' = [i \in Routers |-> SubSeq(offered[i], Injected(i) + 1, Len(offered[i]))]
    /\ hold' = [i \in Routers |-> CountDown(hold[i])]
    /\ clock' = (clock + 1) % (N * num_vc)
    /\ UNCHANGED <<injection, reqs, stamp, input, output, channels, flow, num_vc, latency,
                   ratio, busy, now, turn, topology, recv_avail>>

Clients == \E takes \in SUBSET receive_req : SimpleEndOfCycle(takes)
Ring == topology = "ring" /\ Next /\ UNCHANGED <<topology, simple>>

NetworkNext == Ring \/ packet_injection \/ Clients

\* Network cycles go on.
NetworkSpec == NetworkInit /\ [][NetworkNext]_networkVars /\ WF_networkVars(NetworkNext)

--------------------------------------------------------------------------------

Waiting(w) == {received[w][k].pkt : k \in DOMAIN received[w]}
Copies(p) == Cardinality({w \in Ways : p \in Waiting(w)})
             + Cardinality({w \in Ways : p \in ToSet(sending[w])})

\* Packets travel whole in both topologies.  On the ring they are not mixed and are
\* delivered once; in simple_noc a packet is in one place and ends at its destination,
\* and the flits a side is charged with are those of the packets it holds, so that the
\* room for later packets neither shrinks nor grows.
TravelWhole ==
    /\ PacketsWhole
    /\ \A w \in Ways :
            /\ \A p \in Waiting(w) : p.dst = w[1] /\ p \notin arrived /\ Copies(p) = 1
            /\ pending[w] = FoldLeft(LAMBDA n, r : n + r.pkt.size, 0, received[w])
            /\ pending[w] <= MaxPending

\* The packets that the clients still have to send, and those on their way.
Undelivered ==
    Underway \cup UNION {Waiting(w) \cup ToSet(sending[w]) : w \in Ways}
    \cup UNION {ToSet(offered[i]) : i \in Routers}

\* Every packet arrives.  On the ring packets never wait for each other in a circle, and
\* none is passed by others for ever; in simple_noc a full side of a receiver holds back
\* the packets for others behind the first one, but only until its client takes one.
EveryPacketDelivered == Undelivered # {} ~> Undelivered = {}
================================================================================
