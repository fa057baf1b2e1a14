------------------------------ MODULE RingNetwork -------------------------------
(***************************************************************************)
(* MacSim's interconnection network: the routers of router_c connected to  *)
(* a ring.  A packet is cut into flits, which cross every router in the    *)
(* stages RC, VCA, SA, ST and LT; an output virtual channel belongs to one *)
(* packet from VCA until its tail has left, and credits count the free     *)
(* places of the next input buffer.  Nothing but the last two channels of  *)
(* a link, each reserved for one side of the ring's origin, keeps packets  *)
(* from waiting for each other in a circle.                                *)
(*                                                                         *)
(* In every network cycle the routers run one after the other, starting    *)
(* from another one each time; every stage is an action.  Between two      *)
(* cycles the clients (cores, caches, memory controllers) take what has    *)
(* arrived and inject what they have to send.  All routers count cycles    *)
(* from 0; the simulation counts ratio cycles in each of theirs.           *)
(***************************************************************************)
EXTENDS Integers, Sequences, FiniteSets, SequencesExt

CONSTANTS
    N,              \* number of routers
    MaxVC,          \* bound on KNOB_NUM_VC
    BufferSize,     \* m_buffer_max_size
    Credits,        \* the value m_credit is filled with
    InjectionMax,   \* m_injection_buffer_max_size
    Packets,        \* packets [src, n, dst, size], size in flits
    Scenarios       \* the knobs num_vc and link_latency, the clock divisor of the network,
                    \* what every client sends and for how many cycles it holds it back

Routers == 0..(N - 1)
Ports   == {"LOCAL", "LEFT", "RIGHT"}
VCs     == 0..(MaxVC - 1)
Buffers == Routers \X Ports \X VCs

ASSUME RingAssumption ==
    /\ N \in Nat \ {0, 1}
    /\ MaxVC \in Nat \ {0, 1}
    /\ BufferSize \in Nat \ {0} /\ Credits = BufferSize
    /\ InjectionMax \in Nat \ {0}
    /\ \A p \in Packets : /\ p.src \in Routers /\ p.dst \in Routers \ {p.src}
                          /\ p.size \in 1..BufferSize
    /\ \A s \in Scenarios :
            /\ s.num_vc \in 2..MaxVC /\ s.link_latency \in Nat \ {0} /\ s.ratio \in Nat \ {0}
            /\ s.sends \in [Routers -> Seq(Packets)] /\ s.hold \in [Routers -> Nat]
            /\ \A i \in Routers : \A m, n \in 1..Len(s.sends[i]) :
                    s.sends[i][m].src = i /\ (s.sends[i][m] = s.sends[i][n] => m = n)

States == {"IB", "RC", "VCA", "SA", "ST"}
Stages == <<"credit", "lt", "st", "sa", "vca", "rc", "inject", "clients">>
NoChannel == <<"none", 0>>

VARIABLES
    num_vc,         \* m_num_vc
    latency,        \* m_link_latency
    ratio,          \* m_clock_divisor[CLOCK_NOC]
    offered, hold,  \* what the clients still have to inject, and not before hold cycles
    injection,      \* m_injection_buffer
    input, output,  \* m_input_buffer, m_output_buffer
    holds,          \* m_output_port_id (m_route_fixed) and m_output_vc_id of an input channel
    avail,          \* m_output_vc_avail
    credit,         \* m_credit
    due, fresh,     \* m_pending_credit: those that are ready, those of the next cycle
    busy,           \* cycles until m_link_avail
    reqs,           \* m_req_buffer
    arrived,        \* history: the packets the clients have received
    stamp,          \* m_timestamp of a packet's flits, without the cycles between two
    now,            \* the stamp of this cycle
    clock,          \* m_cycle, as far as arbitration depends on it
    turn, stage     \* how many routers have run in this cycle, and the next stage

channels == <<holds, avail>>
flow == <<credit, due, fresh>>
ends == <<offered, hold, injection, reqs, arrived, stamp>>
time == <<num_vc, latency, ratio, busy, now, clock, turn>>
vars == <<ends, input, output, channels, flow, time, stage>>

Init ==
    /\ \E s \in Scenarios :
            /\ num_vc = s.num_vc /\ latency = s.link_latency /\ ratio = s.ratio
            /\ offered = s.sends /\ hold = s.hold
    /\ injection = [i \in Routers |-> <<>>] /\ reqs = [i \in Routers |-> <<>>]
    /\ input = [b \in Buffers |-> <<>>] /\ output = [b \in Buffers |-> <<>>]
    /\ holds = [b \in Buffers |-> NoChannel]
    /\ avail = [b \in Buffers |-> TRUE]
    /\ credit = [b \in Buffers |-> Credits]
    /\ due = [b \in Buffers |-> 0] /\ fresh = [b \in Buffers |-> 0]
    /\ busy = [l \in Routers \X Ports |-> 0]
    /\ arrived = {}
    /\ stamp = [p \in Packets |-> 0] /\ now = 1
    /\ clock = 0 /\ turn = 0 /\ stage = "credit"

--------------------------------------------------------------------------------

\* The simulation cycle decides which router runs first.
Running == (ratio * clock + turn) % N

\* Order in which the loops meet the ports.
Rank(port) == IF port = "LOCAL" THEN 0 ELSE IF port = "LEFT" THEN 1 ELSE 2

opposite_dir(port) == IF port = "LEFT" THEN "RIGHT"
                      ELSE IF port = "RIGHT" THEN "LEFT" ELSE "LOCAL"
link(i, port) == IF port = "LEFT" THEN IF i = 0 THEN N - 1 ELSE i - 1
                 ELSE IF i = N - 1 THEN 0 ELSE i + 1

\* The input channel at the other end of an output channel, and back.
Other(b) == <<link(b[1], b[2]), opposite_dir(b[2]), b[3]>>

IsHead(f) == f.k = 1
IsTailEarly(f) == f.k >= f.pkt.size - 1
IsTail(f) == f.k = f.pkt.size

\* Flit f in another state, and for how many cycles it has to wait there.
Becomes(f, s, wait) == [pkt |-> f.pkt, k |-> f.k, state |-> s, wait |-> wait]
WithFront(buffer, s) == [buffer EXCEPT ![1] = Becomes(@, s, @.wait)]

\* Oldest first; equals in the order of the loops over ports and channels.
Winner(i, candidates) ==
    CHOOSE c \in candidates : \A d \in candidates \ {c} :
        LET s == stamp[Head(input[<<i, c[1], c[2]>>]).pkt]
            t == stamp[Head(input[<<i, d[1], d[2]>>]).pkt]
        IN  \/ s < t
            \/ s = t /\ Rank(c[1]) < Rank(d[1])
            \/ s = t /\ c[1] = d[1] /\ c[2] < d[2]

Proceed(from, to) == stage = from /\ stage' = to

--------------------------------------------------------------------------------

process_pending_credit ==
    /\ Proceed("credit", "lt")
    /\ credit' = [b \in Buffers |-> IF b[1] = Running THEN credit[b] + due[b] ELSE credit[b]]
    /\ due' = [b \in Buffers |-> IF b[1] = Running THEN 0 ELSE due[b]]
    /\ UNCHANGED <<ends, input, output, channels, fresh, time>>

\* The loop over the ports ends at the first link that is still busy.
Reached(i, port) == \A q \in Ports : Rank(q) <= Rank(port) => busy[<<i, q>>] = 0

\* The channel that uses the link of its port: the first one with a flit and a credit,
\* starting from another one in every cycle.
Able(b) == output[b] # <<>> /\ credit[b] # 0
LinkWinner(b) ==
    /\ Able(b)
    /\ \A v \in 0..(num_vc - 1) :
            Able(<<b[1], b[2], v>>) => (b[3] - clock) % num_vc <= (v - clock) % num_vc

KeepCredit(b) == credit[b]
TakeCredit(b) == credit[b] - 1

stage_lt ==
    LET i == Running
        goes == {b \in Buffers : b[1] = i /\ Reached(i, b[2]) /\ LinkWinner(b)}
        hops == {b \in goes : b[2] # "LOCAL"}
        tail(b) == IsTail(Head(output[b]))
    IN  /\ Proceed("lt", "st")
        /\ output' = [b \in Buffers |-> IF b \in goes THEN Tail(output[b]) ELSE output[b]]
        /\ input' = [b \in Buffers |->
                IF b[2] # "LOCAL" /\ Other(b) \in hops
                THEN Append(input[b], Becomes(Head(output[Other(b)]), "IB", latency + 1))
                ELSE input[b]]
        /\ credit' = [b \in Buffers |-> IF b \in hops THEN TakeCredit(b) ELSE credit[b]]
        /\ busy' = [l \in Routers \X Ports |->
                IF \E b \in hops : <<b[1], b[2]>> = l THEN latency ELSE busy[l]]
        /\ avail' = [b \in Buffers |-> avail[b] \/ (b \in goes /\ tail(b))]
        /\ reqs' = [reqs EXCEPT ![i] =
                @ \o SetToSeq({Head(output[b]).pkt : b \in {c \in goes \ hops : tail(c)}})]
        /\ UNCHANGED <<offered, hold, injection, arrived, stamp, holds, due, fresh, num_vc,
                       latency, ratio, now, clock, turn>>

\* The input channel whose front was given the switch to port op.
Switched(i, op) ==
    {b \in Buffers : /\ b[1] = i /\ b[2] # op /\ holds[b][1] = op
                     /\ input[b] # <<>> /\ Head(input[b]).state = "SA"}

\* A credit is ready in the next network cycle, by the simulation cycle: unless both
\* clocks are the same, it is ready at once.
stage_st ==
    LET i == Running
        moves == UNION {Switched(i, op) : op \in Ports}
        sent(b) == b[2] # "LOCAL" /\ Other(b) \in moves
        into(b) == {c \in moves : <<i, holds[c][1], holds[c][2]>> = b}
    IN  /\ Proceed("st", "sa")
        /\ input' = [b \in Buffers |-> IF b \in moves THEN Tail(input[b]) ELSE input[b]]
        /\ output' = [b \in Buffers |->
                IF into(b) = {} THEN output[b]
                ELSE LET c == CHOOSE c \in into(b) : TRUE
                     IN  Append(output[b], Becomes(Head(input[c]), "ST", 0))]
        /\ holds' = [b \in Buffers |->
                IF b \in moves /\ IsTail(Head(input[b])) THEN NoChannel ELSE holds[b]]
        /\ due' = [b \in Buffers |-> IF sent(b) /\ ratio # 1 THEN due[b] + 1 ELSE due[b]]
        /\ fresh' = [b \in Buffers |-> IF sent(b) /\ ratio = 1 THEN fresh[b] + 1 ELSE fresh[b]]
        /\ UNCHANGED <<ends, avail, credit, time>>

stage_sa ==
    LET i == Running
        able(op) == {c \in Ports \X VCs :
            LET b == <<i, c[1], c[2]>>
            IN  /\ c[1] # op /\ holds[b][1] = op /\ input[b] # <<>>
                /\ Head(input[b]).state = IF IsHead(Head(input[b])) THEN "VCA" ELSE "IB"}
        winners == {Winner(i, able(op)) : op \in {o \in Ports : able(o) # {}}}
    IN  /\ Proceed("sa", "vca")
        /\ input' = [b \in Buffers |->
                IF b[1] = i /\ <<b[2], b[3]>> \in winners THEN WithFront(input[b], "SA")
                ELSE input[b]]
        /\ UNCHANGED <<ends, output, channels, flow, time>>

\* rc_ring at the source: the shorter way, to the right if both are equal.  The flit
\* keeps the direction.
Direction(p) ==
    LET left == (p.src - p.dst + N) % N
        right == (p.dst - p.src + N) % N
    IN  IF left < right THEN "LEFT" ELSE "RIGHT"
Route(i, p) == IF p.dst = i THEN "LOCAL" ELSE Direction(p)

AnyChannel(i, p, v) == TRUE

\* The last two channels are reserved: one for the packets that still have to pass the
\* origin of the ring, one for the others (which is which depends on the direction).
MayUse(i, p, v) == /\ v = num_vc - 2 => i <= p.dst
                   /\ v = num_vc - 1 => i >= p.dst

\* The input channels that compete for output channel v of port op.
Wants(i, op, v) == {c \in Ports \X VCs :
    LET b == <<i, c[1], c[2]>>
    IN  /\ c[1] # op /\ input[b] # <<>>
        /\ IsHead(Head(input[b])) /\ Head(input[b]).state = "RC"
        /\ Route(i, Head(input[b]).pkt) = op
        /\ MayUse(i, Head(input[b]).pkt, v)}

\* One that has got a channel already is past the stage and does not compete again.
Give(i, op, granted, v) ==
    LET open == {c \in Wants(i, op, v) : \A g \in granted : g.from # <<i, c[1], c[2]>>}
    IN  IF ~avail[<<i, op, v>>] \/ open = {} THEN granted
        ELSE LET c == Winner(i, open)
             IN  granted \cup {[from |-> <<i, c[1], c[2]>>, to |-> <<op, v>>]}

\* The output channels of port op are given away in turn.
Grants(i, op) ==
    FoldLeft(LAMBDA granted, v : Give(i, op, granted, v), {}, [v \in 1..num_vc |-> v - 1])

GrantTwice(b, to) == avail[b]
Taken(b, to) == avail[b] /\ <<b[2], b[3]>> \notin to

stage_vca ==
    LET i == Running
        grants == UNION {Grants(i, op) : op \in Ports}
        given(b) == {g \in grants : g.from = b}
        to == {g.to : g \in grants}
    IN  /\ Proceed("vca", "rc")
        /\ input' = [b \in Buffers |->
                IF given(b) # {} THEN WithFront(input[b], "VCA") ELSE input[b]]
        /\ holds' = [b \in Buffers |->
                IF given(b) # {} THEN (CHOOSE g \in given(b) : TRUE).to ELSE holds[b]]
        /\ avail' = [b \in Buffers |-> IF b[1] = i THEN Taken(b, to) ELSE avail[b]]
        /\ UNCHANGED <<ends, output, flow, time>>

stage_rc ==
    /\ Proceed("rc", "inject")
    /\ input' = [b \in Buffers |->
            IF /\ b[1] = Running /\ holds[b] = NoChannel /\ input[b] # <<>>
               /\ LET f == Head(input[b]) IN IsHead(f) /\ f.state = "IB" /\ f.wait = 0
            THEN WithFront(input[b], "RC") ELSE input[b]]
    /\ UNCHANGED <<ends, output, channels, flow, time>>

--------------------------------------------------------------------------------

Flits(p) == [k \in 1..p.size |-> [pkt |-> p, k |-> k, state |-> "IB", wait |-> 0]]

\* The channels of the local port with room for the whole packet in front.
Roomy(i) ==
    {v \in 0..(num_vc - 1) :
        /\ injection[i] # <<>>
        /\ Len(input[<<i, "LOCAL", v>>]) + Head(injection[i]).size <= BufferSize}

\* One round of the loop: the packet in front goes to the first channel with room.
local_packet_injection ==
    LET i == Running
        p == Head(injection[i])
    IN  /\ stage = "inject" /\ Roomy(i) # {}
        /\ injection' = [injection EXCEPT ![i] = Tail(@)]
        /\ LET v == CHOOSE v \in Roomy(i) : \A w \in Roomy(i) : v <= w
           IN  input' = [input EXCEPT ![<<i, "LOCAL", v>>] = @ \o Flits(p)]
        /\ stamp' = [stamp EXCEPT ![p] = now]
        /\ UNCHANGED <<offered, hold, reqs, arrived, output, channels, flow, time, stage>>

\* Nothing more can be injected; the next router runs.
EndOfRun ==
    /\ stage = "inject" /\ Roomy(Running) = {}
    /\ stage' = IF turn = N - 1 THEN "clients" ELSE "credit"
    /\ turn' = (turn + 1) % N
    /\ UNCHANGED <<ends, input, output, channels, flow, num_vc, latency, ratio, busy,
                   now, clock>>

\* How many packets inject_packet accepts before the injection buffer is full.
inject_packet(i) ==
    LET room == InjectionMax - Len(injection[i])
    IN  IF room < Len(offered[i]) THEN room ELSE Len(offered[i])

CountDown(n) == IF n = 0 THEN 0 ELSE n - 1

\* The end of a cycle: every client takes the packet in front (receive_req, pop_req),
\* those that hold nothing back inject, and the cycle counters advance.
EndOfCycle ==
    /\ Proceed("clients", "credit")
    /\ LET n(i) == IF hold[i] = 0 THEN inject_packet(i) ELSE 0
       IN  /\ injection' = [i \in Routers |-> injection[i] \o SubSeq(offered[i], 1, n(i))]
           /\ offered' = [i \in Routers |-> SubSeq(offered[i], n(i) + 1, Len(offered[i]))]
    /\ hold' = [i \in Routers |-> CountDown(hold[i])]
    /\ reqs' = [i \in Routers |-> IF reqs[i] = <<>> THEN <<>> ELSE Tail(reqs[i])]
    /\ arrived' = arrived \cup {Head(reqs[i]) : i \in {j \in Routers : reqs[j] # <<>>}}
    /\ due' = [b \in Buffers |-> due[b] + fresh[b]] /\ fresh' = [b \in Buffers |-> 0]
    /\ busy' = [l \in Routers \X Ports |-> CountDown(busy[l])]
    /\ input' = [b \in Buffers |-> [k \in DOMAIN input[b] |->
            LET f == input[b][k] IN Becomes(f, f.state, CountDown(f.wait))]]
    /\ now' = IF \E p \in Packets : stamp[p] = now THEN now + 1 ELSE now
    /\ clock' = (clock + 1) % (N * num_vc)
    /\ UNCHANGED <<stamp, output, channels, credit, num_vc, latency, ratio, turn>>

Next ==
    \/ process_pending_credit \/ stage_lt \/ stage_st \/ stage_sa \/ stage_vca \/ stage_rc
    \/ local_packet_injection \/ EndOfRun \/ EndOfCycle

Spec == Init /\ [][Next]_vars

--------------------------------------------------------------------------------

FlitSet == [pkt : Packets, k : 1..BufferSize, state : States, wait : Nat]

TypeOK ==
    /\ num_vc \in 2..MaxVC /\ latency \in Nat \ {0} /\ ratio \in Nat \ {0}
    /\ offered \in [Routers -> Seq(Packets)] /\ hold \in [Routers -> Nat]
    /\ injection \in [Routers -> Seq(Packets)] /\ reqs \in [Routers -> Seq(Packets)]
    /\ input \in [Buffers -> Seq(FlitSet)] /\ output \in [Buffers -> Seq(FlitSet)]
    /\ holds \in [Buffers -> (Ports \X VCs) \cup {NoChannel}]
    /\ avail \in [Buffers -> BOOLEAN]
    /\ credit \in [Buffers -> 0..Credits]
    /\ due \in [Buffers -> Nat] /\ fresh \in [Buffers -> Nat]
    /\ busy \in [Routers \X Ports -> 0..latency]
    /\ arrived \subseteq Packets
    /\ stamp \in [Packets -> Nat] /\ now \in Nat \ {0}
    /\ clock \in 0..(N * num_vc - 1) /\ turn \in Routers
    /\ stage \in ToSet(Stages)

\* No credit is lost or made up, wherever it is on its way: the credits of a channel
\* and the flits in the buffer behind it always add up to the size of that buffer.
CreditsConserved ==
    \A b \in Buffers : b[2] # "LOCAL" =>
        credit[b] + due[b] + fresh[b] + Len(input[Other(b)]) = BufferSize

\* Flits in the order in which packets are sent: the next one of the same packet, or
\* the head of another one behind a tail.
Follows(f, g) == \/ g.pkt = f.pkt /\ g.k = f.k + 1
                 \/ IsTail(f) /\ IsHead(g)
InOrder(flits) == \A k \in 1..(Len(flits) - 1) : Follows(flits[k], flits[k + 1])

\* Packets are never mixed: what is in the buffer behind a link, what waits for the
\* link, and what still waits for the switch to that channel are whole packets, one
\* after the other.
WormholeOrder ==
    \A b \in Buffers :
        LET holders == {c \in Buffers : c[1] = b[1] /\ holds[c] = <<b[2], b[3]>>}
            behind  == IF b[2] = "LOCAL" THEN <<>> ELSE input[Other(b)]
        IN  IF holders = {} THEN InOrder(behind \o output[b])
            ELSE \A c \in holders : InOrder(behind \o output[b] \o input[c])

\* An output channel belongs to one packet at a time: it is available again exactly
\* when no input channel holds it and the last flit, a tail, has left.
ChannelOwner ==
    \A b \in Buffers :
        LET holders == {c \in Buffers : c[1] = b[1] /\ holds[c] = <<b[2], b[3]>>}
        IN  /\ avail[b] <=> (holders = {} /\ output[b] = <<>>)
            /\ Cardinality(holders) <= 1
            /\ holders = {} /\ output[b] # <<>> => IsTail(Last(output[b]))

\* A packet only gets to the client it was sent to, once, and after all of its flits.
DeliveredOnce ==
    \A i \in Routers : \A k \in 1..Len(reqs[i]) :
        LET p == reqs[i][k]
            gone(flits) == \A j \in 1..Len(flits) : flits[j].pkt # p
        IN  /\ p.dst = i /\ p \notin arrived
            /\ \A j \in 1..Len(reqs[i]) : reqs[i][j] = p => j = k
            /\ \A b \in Buffers : gone(input[b]) /\ gone(output[b])

\* Packets travel whole: they are not mixed on the way, a channel has one owner, and
\* the client gets its packet once and complete.
PacketsWhole == WormholeOrder /\ ChannelOwner /\ DeliveredOnce

\* The packets that have been injected and not yet received.
Underway == {p \in Packets : /\ p \notin ToSet(offered[p.src]) /\ p \notin arrived
                             /\ p \in ToSet(injection[p.src]) \/ stamp[p] # 0}
================================================================================
