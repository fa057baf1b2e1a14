--------------------------- MODULE RingNetworkProofs ----------------------------
(***************************************************************************)
(* The network, for any number of routers and channels, any buffer size,   *)
(* any packets and any arbitration.  Flow control is exact: credits and    *)
(* flits add up to the size of the buffer, so no input buffer overflows.   *)
(* Packets travel whole: on the ring their flits are never mixed, and in   *)
(* both topologies a packet reaches its client once and nobody else.       *)
(***************************************************************************)
EXTENDS SimpleNetwork, ListLemmas, SequenceTheorems, TLAPS

\* The part of the types that flow control depends on.
FlowTypes ==
    /\ input \in [Buffers -> Seq(FlitSet)] /\ output \in [Buffers -> Seq(FlitSet)]
    /\ credit \in [Buffers -> Nat] /\ due \in [Buffers -> Nat] /\ fresh \in [Buffers -> Nat]
    /\ latency \in Nat

\* Clients inject packets only, and no more than the injection buffer takes.
InjectionTypes ==
    /\ injection \in [Routers -> Seq(Packets)] /\ offered \in [Routers -> Seq(Packets)]
    /\ \A i \in Routers : Len(injection[i]) <= InjectionMax

\* The inductive invariant.
FlowInv == FlowTypes /\ InjectionTypes /\ CreditsConserved

--------------------------------------------------------------------------------

\* The two ends of a link: set_link connects every router to its neighbours.
LEMMA OtherEnd ==
    ASSUME NEW b \in Buffers, b[2] # "LOCAL"
    PROVE  Other(b) \in Buffers /\ Other(b)[2] # "LOCAL" /\ Other(Other(b)) = b
  <1>1. PICK i \in Routers, q \in Ports, v \in VCs : b = <<i, q, v>>
    BY DEF Buffers
  <1>2. q = "LEFT" \/ q = "RIGHT"
    BY <1>1 DEF Ports
  <1>3. N \in Nat /\ N > 1
    BY RingAssumption
  <1>4. CASE q = "LEFT"
    <2>1. Other(b) = <<IF i = 0 THEN N - 1 ELSE i - 1, "RIGHT", v>>
      BY <1>1, <1>4 DEF Other, link, opposite_dir
    <2>2. (IF i = 0 THEN N - 1 ELSE i - 1) \in Routers
      BY <1>3 DEF Routers
    <2>3. Other(Other(b)) = <<i, "LEFT", v>>
      BY <2>1, <1>3 DEF Other, link, opposite_dir, Routers
    <2> QED BY <2>1, <2>2, <2>3, <1>1, <1>4 DEF Buffers, Ports
  <1>5. CASE q = "RIGHT"
    <2>1. Other(b) = <<IF i = N - 1 THEN 0 ELSE i + 1, "LEFT", v>>
      BY <1>1, <1>5 DEF Other, link, opposite_dir
    <2>2. (IF i = N - 1 THEN 0 ELSE i + 1) \in Routers
      BY <1>3 DEF Routers
    <2>3. Other(Other(b)) = <<i, "RIGHT", v>>
      BY <2>1, <1>3 DEF Other, link, opposite_dir, Routers
    <2> QED BY <2>1, <2>2, <2>3, <1>1, <1>5 DEF Buffers, Ports
  <1> QED BY <1>2, <1>4, <1>5

\* A flit stays one when a stage changes its state.
LEMMA FlitBecomes ==
    ASSUME NEW f \in FlitSet, NEW s \in States, NEW w \in Nat
    PROVE  Becomes(f, s, w) \in FlitSet /\ f.wait \in Nat /\ f.state \in States
  BY DEF Becomes, FlitSet

\* Changing the state of the flit in front neither adds nor removes one.
LEMMA FrontKeepsLength ==
    ASSUME NEW s \in Seq(FlitSet), NEW t \in States
    PROVE  WithFront(s, t) \in Seq(FlitSet) /\ Len(WithFront(s, t)) = Len(s)
  <1>1. CASE s = <<>>
    <2>1. WithFront(s, t) = s
      BY <1>1 DEF WithFront
    <2> QED BY <2>1
  <1>2. CASE s # <<>>
    <2>1. 1 \in 1..Len(s) /\ s[1] \in FlitSet
      BY <1>2, LenProperties, ElementOfSeq, EmptySeq
    <2>2. s[1].wait \in Nat
      BY <2>1 DEF FlitSet
    <2>3. Becomes(s[1], t, s[1].wait) \in FlitSet
      BY <2>1, <2>2, FlitBecomes
    <2>4. WithFront(s, t) = [s EXCEPT ![1] = Becomes(s[1], t, s[1].wait)]
      BY DEF WithFront
    <2> QED BY <2>1, <2>3, <2>4, ExceptSeq
  <1> QED BY <1>1, <1>2

\* Waiting neither adds nor removes a flit.
LEMMA WaitingKeepsLength ==
    ASSUME NEW s \in Seq(FlitSet)
    PROVE  LET t == [k \in DOMAIN s |-> LET f == s[k]
                                        IN  Becomes(f, f.state, CountDown(f.wait))]
           IN  t \in Seq(FlitSet) /\ Len(t) = Len(s)
  <1>1. Len(s) \in Nat /\ DOMAIN s = 1..Len(s)
    BY LenProperties
  <1>2. ASSUME NEW k \in 1..Len(s)
        PROVE  Becomes(s[k], s[k].state, CountDown(s[k].wait)) \in FlitSet
    <2>1. s[k] \in FlitSet
      BY ElementOfSeq
    <2>2. s[k].wait \in Nat /\ s[k].state \in States
      BY <2>1 DEF FlitSet
    <2>3. CountDown(s[k].wait) \in Nat
      BY <2>2 DEF CountDown
    <2> QED BY <2>1, <2>2, <2>3, FlitBecomes
  <1> QED BY <1>1, <1>2

\* What local_packet_injection puts into a channel are flits.
LEMMA PacketIntoFlits ==
    ASSUME NEW p \in Packets
    PROVE  Flits(p) \in Seq(FlitSet)
  <1>1. BufferSize \in Nat /\ p.size \in 1..BufferSize
    BY RingAssumption
  <1>2. \A k \in 1..p.size :
            [pkt |-> p, k |-> k, state |-> "IB", wait |-> 0] \in FlitSet
    BY <1>1 DEF FlitSet, States
  <1> QED BY <1>1, <1>2 DEF Flits

--------------------------------------------------------------------------------

\* The constructor fills the credits with the size of the empty buffers.
LEMMA FlowInit == Init => FlowInv
  <1> SUFFICES ASSUME Init PROVE FlowInv
    OBVIOUS
  <1> USE RingAssumption
  <1>1. <<>> \in Seq(FlitSet) /\ <<>> \in Seq(Packets) /\ Len(<<>>) = 0
    BY EmptySeq
  <1>2. FlowTypes
    BY <1>1 DEF Init, FlowTypes
  <1>3. InjectionTypes
    BY <1>1 DEF Init, InjectionTypes
  <1>4. CreditsConserved
    <2> SUFFICES ASSUME NEW b \in Buffers, b[2] # "LOCAL"
                 PROVE  credit[b] + due[b] + fresh[b] + Len(input[Other(b)]) = BufferSize
      BY DEF CreditsConserved
    <2> QED BY <1>1, OtherEnd DEF Init
  <1> QED BY <1>2, <1>3, <1>4 DEF FlowInv

\* A step that leaves credits alone and keeps the length of every buffer behind a link.
LEMMA SameFlow ==
    ASSUME FlowInv, UNCHANGED flow, UNCHANGED latency, UNCHANGED <<injection, offered>>,
           input' \in [Buffers -> Seq(FlitSet)], output' \in [Buffers -> Seq(FlitSet)],
           \A b \in Buffers : b[2] # "LOCAL" => Len(input'[b]) = Len(input[b])
    PROVE  FlowInv'
  <1>1. FlowTypes' /\ InjectionTypes'
    BY DEF FlowInv, FlowTypes, InjectionTypes, flow
  <1>2. CreditsConserved'
    BY OtherEnd DEF FlowInv, CreditsConserved, flow
  <1> QED BY <1>1, <1>2 DEF FlowInv

\* A credit that is ready only changes its place.
LEMMA CreditStep == FlowInv /\ process_pending_credit => FlowInv'
  <1> SUFFICES ASSUME FlowInv, process_pending_credit PROVE FlowInv'
    OBVIOUS
  <1> USE DEF process_pending_credit, ends, time
  <1>1. FlowTypes' /\ InjectionTypes'
    BY DEF FlowInv, FlowTypes, InjectionTypes
  <1>2. CreditsConserved'
    <2> SUFFICES ASSUME NEW b \in Buffers, b[2] # "LOCAL"
                 PROVE  credit'[b] + due'[b] + fresh'[b] + Len(input'[Other(b)]) = BufferSize
      BY DEF CreditsConserved
    <2>1. credit[b] \in Nat /\ due[b] \in Nat /\ fresh[b] \in Nat
      BY DEF FlowInv, FlowTypes
    <2>2. credit'[b] + due'[b] = credit[b] + due[b] /\ fresh' = fresh /\ input' = input
      BY <2>1
    <2> QED BY <2>1, <2>2 DEF FlowInv, CreditsConserved
  <1> QED BY <1>1, <1>2 DEF FlowInv

\* A flit takes a credit with it when it crosses a link.
LEMMA LinkStep == FlowInv /\ stage_lt => FlowInv'
  <1> SUFFICES ASSUME FlowInv, stage_lt PROVE FlowInv'
    OBVIOUS
  <1> DEFINE goes == {b \in Buffers : b[1] = Running /\ Reached(Running, b[2]) /\ LinkWinner(b)}
             hops == {b \in goes : b[2] # "LOCAL"}
             flit(b) == Becomes(Head(output[b]), "IB", latency + 1)
  <1>1. /\ output' = [b \in Buffers |-> IF b \in goes THEN Tail(output[b]) ELSE output[b]]
        /\ input' = [b \in Buffers |->
                IF b[2] # "LOCAL" /\ Other(b) \in hops THEN Append(input[b], flit(Other(b)))
                ELSE input[b]]
        /\ credit' = [b \in Buffers |-> IF b \in hops THEN TakeCredit(b) ELSE credit[b]]
        /\ UNCHANGED <<injection, offered, due, fresh, latency>>
    BY DEF stage_lt
  <1>2. ASSUME NEW b \in goes
        PROVE  output[b] # <<>> /\ credit[b] # 0
    BY DEF LinkWinner, Able
  <1>3. \A b \in goes : Tail(output[b]) \in Seq(FlitSet) /\ flit(b) \in FlitSet
    <2> TAKE b \in goes
    <2>1. output[b] \in Seq(FlitSet) /\ output[b] # <<>> /\ latency + 1 \in Nat
      BY <1>2 DEF FlowInv, FlowTypes
    <2>2. Tail(output[b]) \in Seq(FlitSet) /\ Head(output[b]) \in FlitSet
      BY <2>1, HeadTailProperties
    <2>3. "IB" \in States
      BY DEF States
    <2>4. flit(b) \in FlitSet
      BY <2>1, <2>2, <2>3, FlitBecomes
    <2> QED BY <2>2, <2>4
  <1>4. \A b \in Buffers :
            /\ input'[b] \in Seq(FlitSet)
            /\ Len(input'[b]) = IF b[2] # "LOCAL" /\ Other(b) \in hops THEN Len(input[b]) + 1
                                ELSE Len(input[b])
    <2> TAKE b \in Buffers
    <2>1. input[b] \in Seq(FlitSet)
      BY DEF FlowInv, FlowTypes
    <2>2. CASE b[2] # "LOCAL" /\ Other(b) \in hops
      <3>1. flit(Other(b)) \in FlitSet
        BY <2>2, <1>3
      <3>2. input'[b] = Append(input[b], flit(Other(b)))
        BY <1>1, <2>2
      <3> HIDE DEF flit
      <3> QED BY <2>1, <2>2, <3>1, <3>2, AppendProperties
    <2>3. CASE ~(b[2] # "LOCAL" /\ Other(b) \in hops)
      BY <1>1, <2>1, <2>3
    <2> QED BY <2>2, <2>3
  <1> HIDE DEF goes, hops
  <1>5. FlowTypes'
    <2>1. credit' \in [Buffers -> Nat]
      BY <1>1, <1>2 DEF TakeCredit, FlowInv, FlowTypes, hops
    <2>2. output' \in [Buffers -> Seq(FlitSet)]
      BY <1>1, <1>3 DEF FlowInv, FlowTypes
    <2>3. input' \in [Buffers -> Seq(FlitSet)]
      <3>1. DOMAIN input' = Buffers /\ input' = [b \in Buffers |-> input'[b]]
        BY <1>1
      <3> QED BY <3>1, <1>4
    <2> QED BY <1>1, <2>1, <2>2, <2>3 DEF FlowInv, FlowTypes
  <1>6. CreditsConserved'
    <2> SUFFICES ASSUME NEW b \in Buffers, b[2] # "LOCAL"
                 PROVE  credit'[b] + due'[b] + fresh'[b] + Len(input'[Other(b)]) = BufferSize
      BY DEF CreditsConserved
    <2>1. /\ credit[b] \in Nat /\ due[b] \in Nat /\ fresh[b] \in Nat
          /\ credit[b] + due[b] + fresh[b] + Len(input[Other(b)]) = BufferSize
          /\ BufferSize \in Nat
      BY RingAssumption DEF FlowInv, FlowTypes, CreditsConserved
    <2>2. Other(b) \in Buffers /\ Other(b)[2] # "LOCAL" /\ Other(Other(b)) = b
      BY OtherEnd
    <2>3. Len(input'[Other(b)]) = IF b \in hops THEN Len(input[Other(b)]) + 1
                                  ELSE Len(input[Other(b)])
      BY <2>2, <1>4
    <2>4. credit'[b] = IF b \in hops THEN credit[b] - 1 ELSE credit[b]
      BY <1>1 DEF TakeCredit
    <2>5. Len(input[Other(b)]) \in Nat
      BY <2>2, LenProperties DEF FlowInv, FlowTypes
    <2>6. due'[b] = due[b] /\ fresh'[b] = fresh[b]
      BY <1>1
    <2>7. CASE b \in hops
      <3>1. credit'[b] = credit[b] - 1 /\ Len(input'[Other(b)]) = Len(input[Other(b)]) + 1
        BY <2>3, <2>4, <2>7
      <3> DEFINE c == credit[b]  d == due[b]  f == fresh[b]  n == Len(input[Other(b)])
      <3>2. c \in Nat /\ d \in Nat /\ f \in Nat /\ n \in Nat /\ c + d + f + n = BufferSize
        BY <2>1, <2>5
      <3>3. (c - 1) + d + f + (n + 1) = BufferSize
        <4> HIDE DEF c, d, f, n
        <4> QED BY <2>1, <3>2
      <3> QED BY <2>6, <3>1, <3>3
    <2>8. CASE ~(b \in hops)
      BY <2>1, <2>3, <2>4, <2>5, <2>6, <2>8
    <2> QED BY <2>7, <2>8
  <1> QED BY <1>1, <1>5, <1>6 DEF FlowInv, InjectionTypes

\* A flit that leaves an input buffer sends a credit back.
LEMMA SwitchStep == FlowInv /\ stage_st => FlowInv'
  <1> SUFFICES ASSUME FlowInv, stage_st PROVE FlowInv'
    OBVIOUS
  <1> DEFINE moves == UNION {Switched(Running, op) : op \in Ports}
             sent(b) == b[2] # "LOCAL" /\ Other(b) \in moves
             into(b) == {c \in moves : <<Running, holds[c][1], holds[c][2]>> = b}
             flit(c) == Becomes(Head(input[c]), "ST", 0)
  <1>1. /\ input' = [b \in Buffers |-> IF b \in moves THEN Tail(input[b]) ELSE input[b]]
        /\ output' = [b \in Buffers |->
                IF into(b) = {} THEN output[b]
                ELSE Append(output[b], flit(CHOOSE c \in into(b) : TRUE))]
        /\ due' = [b \in Buffers |-> IF sent(b) /\ ratio # 1 THEN due[b] + 1 ELSE due[b]]
        /\ fresh' = [b \in Buffers |-> IF sent(b) /\ ratio = 1 THEN fresh[b] + 1 ELSE fresh[b]]
        /\ UNCHANGED <<injection, offered, credit, latency>>
    BY DEF stage_st, ends, time
  <1>2. \A c \in moves : c \in Buffers /\ input[c] # <<>>
    BY DEF Switched
  <1>3. \A c \in moves : /\ Tail(input[c]) \in Seq(FlitSet)
                         /\ Len(Tail(input[c])) = Len(input[c]) - 1
                         /\ flit(c) \in FlitSet
    <2> TAKE c \in moves
    <2>1. input[c] \in Seq(FlitSet) /\ input[c] # <<>>
      BY <1>2 DEF FlowInv, FlowTypes
    <2>2. /\ Tail(input[c]) \in Seq(FlitSet) /\ Head(input[c]) \in FlitSet
          /\ Len(Tail(input[c])) = Len(input[c]) - 1
      BY <2>1, HeadTailProperties
    <2>3. "ST" \in States /\ 0 \in Nat
      BY DEF States
    <2>4. flit(c) \in FlitSet
      BY <2>2, <2>3, FlitBecomes
    <2> QED BY <2>2, <2>4
  <1> HIDE DEF moves
  <1>4. \A b \in Buffers : output'[b] \in Seq(FlitSet)
    <2> TAKE b \in Buffers
    <2>1. output[b] \in Seq(FlitSet)
      BY DEF FlowInv, FlowTypes
    <2>2. CASE into(b) = {}
      BY <1>1, <2>1, <2>2
    <2>3. CASE into(b) # {}
      <3> DEFINE c == CHOOSE c \in into(b) : TRUE
      <3>1. c \in moves
        BY <2>3
      <3>2. flit(c) \in FlitSet
        BY <3>1, <1>3
      <3>3. output'[b] = Append(output[b], flit(c))
        BY <1>1, <2>3
      <3> HIDE DEF c, flit
      <3> QED BY <2>1, <3>2, <3>3, AppendProperties
    <2> QED BY <2>2, <2>3
  <1>5. FlowTypes'
    <2>1. DOMAIN output' = Buffers /\ output' = [b \in Buffers |-> output'[b]]
      BY <1>1
    <2>2. output' \in [Buffers -> Seq(FlitSet)]
      BY <2>1, <1>4
    <2>3. input' \in [Buffers -> Seq(FlitSet)]
      BY <1>1, <1>3 DEF FlowInv, FlowTypes
    <2>4. fresh' \in [Buffers -> Nat] /\ due' \in [Buffers -> Nat]
      BY <1>1 DEF FlowInv, FlowTypes
    <2> QED BY <1>1, <2>2, <2>3, <2>4 DEF FlowInv, FlowTypes
  <1>6. CreditsConserved'
    <2> SUFFICES ASSUME NEW b \in Buffers, b[2] # "LOCAL"
                 PROVE  credit'[b] + due'[b] + fresh'[b] + Len(input'[Other(b)]) = BufferSize
      BY DEF CreditsConserved
    <2>1. /\ credit[b] \in Nat /\ due[b] \in Nat /\ fresh[b] \in Nat
          /\ credit[b] + due[b] + fresh[b] + Len(input[Other(b)]) = BufferSize
          /\ BufferSize \in Nat
      BY RingAssumption DEF FlowInv, FlowTypes, CreditsConserved
    <2>2. Other(b) \in Buffers
      BY OtherEnd
    <2>3. Len(input'[Other(b)]) = IF Other(b) \in moves THEN Len(input[Other(b)]) - 1
                                  ELSE Len(input[Other(b)])
      BY <2>2, <1>1, <1>3
    <2>4. due'[b] + fresh'[b] = IF Other(b) \in moves THEN due[b] + fresh[b] + 1
                                ELSE due[b] + fresh[b]
      <3>1. CASE Other(b) \in moves /\ ratio = 1
        <4>1. due'[b] = due[b] /\ fresh'[b] = fresh[b] + 1
          BY <1>1, <3>1
        <4> QED BY <2>1, <3>1, <4>1
      <3>2. CASE Other(b) \in moves /\ ratio # 1
        <4>1. due'[b] = due[b] + 1 /\ fresh'[b] = fresh[b]
          BY <1>1, <3>2
        <4> QED BY <2>1, <3>2, <4>1
      <3>3. CASE Other(b) \notin moves
        BY <1>1, <3>3
      <3> QED BY <3>1, <3>2, <3>3
    <2>5. Len(input[Other(b)]) \in Nat
      BY <2>2, LenProperties DEF FlowInv, FlowTypes
    <2>6. credit'[b] = credit[b] /\ due'[b] \in Nat /\ fresh'[b] \in Nat
      BY <1>1, <1>5 DEF FlowTypes
    <2> DEFINE c == credit[b]  d == due[b]  f == fresh[b]  n == Len(input[Other(b)])
               e == due'[b]  g == fresh'[b]  m == Len(input'[Other(b)])
    <2>7. /\ c \in Nat /\ d \in Nat /\ f \in Nat /\ n \in Nat /\ e \in Nat /\ g \in Nat
          /\ c + d + f + n = BufferSize /\ BufferSize \in Nat
          /\ (e + g = d + f /\ m = n) \/ (e + g = d + f + 1 /\ m = n - 1)
      BY <2>1, <2>3, <2>4, <2>5, <2>6
    <2>8. c + e + g + m = BufferSize
      <3> HIDE DEF c, d, e, f, g, m, n
      <3> QED BY <2>7
    <2> QED BY <2>6, <2>8
  <1> QED BY <1>1, <1>5, <1>6 DEF FlowInv, InjectionTypes

\* A step that only changes the states of flits in front of input buffers.
LEMMA FrontStep ==
    ASSUME FlowInv, UNCHANGED <<flow, latency, injection, offered, output>>,
           NEW A, NEW t \in States,
           input' = [b \in Buffers |-> IF b \in A THEN WithFront(input[b], t) ELSE input[b]]
    PROVE  FlowInv'
  <1>1. \A b \in Buffers : /\ WithFront(input[b], t) \in Seq(FlitSet)
                           /\ Len(WithFront(input[b], t)) = Len(input[b])
    BY FrontKeepsLength DEF FlowInv, FlowTypes
  <1>2. input' \in [Buffers -> Seq(FlitSet)]
    BY <1>1 DEF FlowInv, FlowTypes
  <1>3. \A b \in Buffers : Len(input'[b]) = Len(input[b])
    BY <1>1
  <1> QED BY <1>2, <1>3, SameFlow DEF FlowInv, FlowTypes

\* stage_sa, stage_vca and rc_ring move no flit.
LEMMA AllocationSteps == FlowInv /\ (stage_sa \/ stage_vca \/ stage_rc) => FlowInv'
  <1> SUFFICES ASSUME FlowInv, stage_sa \/ stage_vca \/ stage_rc PROVE FlowInv'
    OBVIOUS
  <1>1. "SA" \in States /\ "VCA" \in States /\ "RC" \in States
    BY DEF States
  <1>2. CASE stage_sa
    <2> DEFINE able(op) == {c \in Ports \X VCs :
                   LET b == <<Running, c[1], c[2]>>
                   IN  /\ c[1] # op /\ holds[b][1] = op /\ input[b] # <<>>
                       /\ Head(input[b]).state = IF IsHead(Head(input[b])) THEN "VCA" ELSE "IB"}
               winners == {Winner(Running, able(op)) : op \in {o \in Ports : able(o) # {}}}
               A == {b \in Buffers : b[1] = Running /\ <<b[2], b[3]>> \in winners}
    <2>1. /\ input' = [b \in Buffers |->
                IF b[1] = Running /\ <<b[2], b[3]>> \in winners THEN WithFront(input[b], "SA")
                ELSE input[b]]
          /\ UNCHANGED <<flow, latency, injection, offered, output>>
      BY <1>2 DEF stage_sa, ends, time
    <2> HIDE DEF winners
    <2>2. input' = [b \in Buffers |-> IF b \in A THEN WithFront(input[b], "SA") ELSE input[b]]
      BY <2>1
    <2> HIDE DEF A
    <2> QED BY <1>1, <2>1, <2>2, FrontStep
  <1>3. CASE stage_vca
    <2> DEFINE grants == UNION {Grants(Running, op) : op \in Ports}
               given(b) == {g \in grants : g.from = b}
               A == {b \in Buffers : given(b) # {}}
    <2>1. /\ input' = [b \in Buffers |->
                IF given(b) # {} THEN WithFront(input[b], "VCA") ELSE input[b]]
          /\ UNCHANGED <<flow, latency, injection, offered, output>>
      BY <1>3 DEF stage_vca, ends, time
    <2> HIDE DEF grants
    <2>2. input' = [b \in Buffers |-> IF b \in A THEN WithFront(input[b], "VCA") ELSE input[b]]
      BY <2>1
    <2> HIDE DEF A
    <2> QED BY <1>1, <2>1, <2>2, FrontStep
  <1>4. CASE stage_rc
    <2> DEFINE A == {b \in Buffers :
                   /\ b[1] = Running /\ holds[b] = NoChannel /\ input[b] # <<>>
                   /\ LET f == Head(input[b]) IN IsHead(f) /\ f.state = "IB" /\ f.wait = 0}
    <2>1. /\ input' = [b \in Buffers |-> IF b \in A THEN WithFront(input[b], "RC") ELSE input[b]]
          /\ UNCHANGED <<flow, latency, injection, offered, output>>
      BY <1>4 DEF stage_rc, ends, time
    <2> HIDE DEF A
    <2> QED BY <1>1, <2>1, FrontStep
  <1> QED BY <1>2, <1>3, <1>4

\* Packets enter at local channels, which have no link and no credits behind them.
LEMMA InjectionStep == FlowInv /\ local_packet_injection => FlowInv'
  <1> SUFFICES ASSUME FlowInv, local_packet_injection PROVE FlowInv'
    OBVIOUS
  <1> DEFINE i == Running
             p == Head(injection[i])
             v == CHOOSE v \in Roomy(i) : \A w \in Roomy(i) : v <= w
             l == <<i, "LOCAL", v>>
  <1>1. /\ Roomy(i) # {} /\ injection[i] # <<>>
        /\ injection' = [injection EXCEPT ![i] = Tail(@)]
        /\ input' = [input EXCEPT ![l] = @ \o Flits(p)]
        /\ UNCHANGED <<flow, latency, offered, output>>
    BY DEF local_packet_injection, Roomy, time
  <1>2. \A j \in Routers : injection[j] # <<>> =>
            /\ Tail(injection[j]) \in Seq(Packets) /\ Head(injection[j]) \in Packets
            /\ Len(Tail(injection[j])) <= Len(injection[j])
    <2> SUFFICES ASSUME NEW j \in Routers, injection[j] # <<>>
                 PROVE  /\ Tail(injection[j]) \in Seq(Packets) /\ Head(injection[j]) \in Packets
                        /\ Len(Tail(injection[j])) <= Len(injection[j])
      OBVIOUS
    <2>1. injection[j] \in Seq(Packets) /\ Len(injection[j]) \in Nat
      BY LenProperties DEF FlowInv, InjectionTypes
    <2> QED BY <2>1, HeadTailProperties
  <1> HIDE DEF i
  <1>3. InjectionTypes'
    <2>1. \A j \in Routers : /\ injection'[j] \in Seq(Packets)
                             /\ Len(injection'[j]) <= InjectionMax
      <3> TAKE j \in Routers
      <3>1. /\ injection[j] \in Seq(Packets) /\ Len(injection[j]) <= InjectionMax
            /\ Len(injection[j]) \in Nat /\ InjectionMax \in Nat
        BY LenProperties, RingAssumption DEF FlowInv, InjectionTypes
      <3>2. CASE j = i
        <4>1. injection'[j] = Tail(injection[j])
          BY <1>1, <3>2 DEF FlowInv, InjectionTypes
        <4>2. Len(Tail(injection[j])) \in Nat
          BY <1>1, <1>2, <3>2, LenProperties
        <4> QED BY <3>1, <1>1, <1>2, <3>2, <4>1, <4>2
      <3>3. CASE j # i
        BY <3>1, <1>1, <3>3 DEF FlowInv, InjectionTypes
      <3> QED BY <3>2, <3>3
    <2>2. injection' \in [Routers -> Seq(Packets)]
      <3>1. DOMAIN injection' = Routers /\ injection' = [j \in Routers |-> injection'[j]]
        BY <1>1 DEF FlowInv, InjectionTypes
      <3> QED BY <3>1, <2>1
    <2> QED BY <1>1, <2>1, <2>2 DEF FlowInv, InjectionTypes
  <1>4. input' \in [Buffers -> Seq(FlitSet)]
    <2>1. CASE l \in Buffers
      <3>1. i \in Routers
        BY <2>1 DEF Buffers
      <3>2. Flits(p) \in Seq(FlitSet)
        BY <3>1, <1>1, <1>2, PacketIntoFlits
      <3>3. input[l] \in Seq(FlitSet)
        BY <2>1 DEF FlowInv, FlowTypes
      <3>4. input[l] \o Flits(p) \in Seq(FlitSet)
        BY <3>2, <3>3, ConcatProperties
      <3> HIDE DEF p, l
      <3> QED BY <1>1, <3>4 DEF FlowInv, FlowTypes
    <2>2. CASE l \notin Buffers
      <3> HIDE DEF p, l
      <3> QED BY <1>1, <2>2 DEF FlowInv, FlowTypes
    <2> QED BY <2>1, <2>2
  <1>5. \A b \in Buffers : b[2] # "LOCAL" => input'[b] = input[b]
    <2>1. l[2] = "LOCAL"
      OBVIOUS
    <2> HIDE DEF p, l
    <2> QED BY <1>1, <2>1 DEF FlowInv, FlowTypes
  <1>6. FlowTypes'
    BY <1>1, <1>4 DEF FlowInv, FlowTypes, flow
  <1>7. CreditsConserved'
    BY <1>1, <1>5, OtherEnd DEF FlowInv, CreditsConserved, flow
  <1> QED BY <1>3, <1>6, <1>7 DEF FlowInv

\* Credits made in a cycle are ready in the next one.
LEMMA CycleStep == FlowInv /\ EndOfCycle => FlowInv'
  <1> SUFFICES ASSUME FlowInv, EndOfCycle PROVE FlowInv'
    OBVIOUS
  <1>1. InjectionTypes'
    <2> DEFINE n(i) == IF hold[i] = 0 THEN inject_packet(i) ELSE 0
               more(i) == SubSeq(offered[i], 1, n(i))
               rest(i) == SubSeq(offered[i], n(i) + 1, Len(offered[i]))
    <2>1. /\ injection' = [i \in Routers |-> injection[i] \o more(i)]
          /\ offered' = [i \in Routers |-> rest(i)]
      BY DEF EndOfCycle
    <2>2. ASSUME NEW i \in Routers
          PROVE  /\ injection[i] \o more(i) \in Seq(Packets) /\ rest(i) \in Seq(Packets)
                 /\ Len(injection[i] \o more(i)) <= InjectionMax
      <3>1. /\ injection[i] \in Seq(Packets) /\ offered[i] \in Seq(Packets)
            /\ Len(injection[i]) <= InjectionMax /\ InjectionMax \in Nat
        BY RingAssumption DEF FlowInv, InjectionTypes
      <3>2. Len(injection[i]) \in Nat /\ Len(offered[i]) \in Nat
        BY <3>1, LenProperties
      <3>3. n(i) \in 0..Len(offered[i]) /\ n(i) + Len(injection[i]) <= InjectionMax
        <4> DEFINE a == Len(injection[i])  o == Len(offered[i])
        <4>1. a \in Nat /\ o \in Nat /\ InjectionMax \in Nat /\ a <= InjectionMax
          BY <3>1, <3>2
        <4>2. \/ n(i) = 0
              \/ n(i) = IF InjectionMax - a < o THEN InjectionMax - a ELSE o
          BY DEF inject_packet
        <4> HIDE DEF a, o, n
        <4>3. n(i) \in 0..o /\ n(i) + a <= InjectionMax
          BY <4>1, <4>2
        <4> QED BY <4>3 DEF a, o
      <3> HIDE DEF n
      <3>4. \A k \in 1..Len(offered[i]) : offered[i][k] \in Packets
        BY <3>1, ElementOfSeq
      <3>5. more(i) \in Seq(Packets) /\ Len(more(i)) = n(i)
        <4>1. \A k \in 1..n(i) : offered[i][k] \in Packets
          BY <3>2, <3>3, <3>4
        <4>2. n(i) \in Int /\ 1 \in Int /\ (IF 1 <= n(i) THEN n(i) - 1 + 1 ELSE 0) = n(i)
          BY <3>2, <3>3
        <4> QED BY <4>1, <4>2, SubSeqProperties
      <3>6. rest(i) \in Seq(Packets)
        <4>1. \A k \in (n(i) + 1)..Len(offered[i]) : offered[i][k] \in Packets
          BY <3>2, <3>3, <3>4
        <4>2. n(i) + 1 \in Int /\ Len(offered[i]) \in Int
          BY <3>2, <3>3
        <4> QED BY <4>1, <4>2, SubSeqProperties
      <3> HIDE DEF more
      <3>7. /\ injection[i] \o more(i) \in Seq(Packets)
            /\ Len(injection[i] \o more(i)) = Len(injection[i]) + n(i)
        BY <3>1, <3>5, ConcatProperties
      <3> QED BY <3>1, <3>2, <3>3, <3>6, <3>7
    <2> HIDE DEF more, rest
    <2> QED BY <2>1, <2>2 DEF InjectionTypes
  <1> DEFINE older(s) == [k \in DOMAIN s |-> LET f == s[k]
                                             IN  Becomes(f, f.state, CountDown(f.wait))]
  <1>2. /\ input' = [b \in Buffers |-> older(input[b])]
        /\ due' = [b \in Buffers |-> due[b] + fresh[b]] /\ fresh' = [b \in Buffers |-> 0]
        /\ UNCHANGED <<credit, output, latency>>
    BY DEF EndOfCycle
  <1>3. \A b \in Buffers : /\ older(input[b]) \in Seq(FlitSet)
                           /\ Len(older(input[b])) = Len(input[b])
    BY WaitingKeepsLength DEF FlowInv, FlowTypes
  <1> HIDE DEF older
  <1>4. FlowTypes'
    BY <1>2, <1>3 DEF FlowInv, FlowTypes
  <1>5. CreditsConserved'
    <2> SUFFICES ASSUME NEW b \in Buffers, b[2] # "LOCAL"
                 PROVE  credit'[b] + due'[b] + fresh'[b] + Len(input'[Other(b)]) = BufferSize
      BY DEF CreditsConserved
    <2>1. /\ credit[b] \in Nat /\ due[b] \in Nat /\ fresh[b] \in Nat
          /\ credit[b] + due[b] + fresh[b] + Len(input[Other(b)]) = BufferSize
      BY DEF FlowInv, FlowTypes, CreditsConserved
    <2>2. Len(input'[Other(b)]) = Len(input[Other(b)])
      BY <1>2, <1>3, OtherEnd
    <2>3. credit'[b] + due'[b] + fresh'[b] = credit[b] + due[b] + fresh[b]
      BY <2>1, <1>2
    <2> QED BY <2>1, <2>2, <2>3
  <1> QED BY <1>1, <1>4, <1>5 DEF FlowInv

\* Every stage of every router keeps the invariant.
LEMMA FlowNext == FlowInv /\ [Next]_vars => FlowInv'
  <1> SUFFICES ASSUME FlowInv, [Next]_vars PROVE FlowInv'
    OBVIOUS
  <1>1. CASE stage_sa \/ stage_vca \/ stage_rc
    BY <1>1, AllocationSteps
  <1>2. CASE EndOfRun
    BY <1>2 DEF EndOfRun, FlowInv, FlowTypes, InjectionTypes, CreditsConserved, ends, flow
  <1>3. CASE UNCHANGED vars
    BY <1>3 DEF vars, FlowInv, FlowTypes, InjectionTypes, CreditsConserved, ends, flow, time
  <1> QED
    BY <1>1, <1>2, <1>3, CreditStep, LinkStep, SwitchStep, InjectionStep, CycleStep DEF Next

\* With simple_noc in its place the buffers and credits of the ring stay as they are.
NetInv == FlowTypes /\ CreditsConserved /\ (topology = "ring" => InjectionTypes)

LEMMA NetInit == NetworkInit => NetInv
  BY FlowInit DEF NetworkInit, NetInv, FlowInv

LEMMA NetNext == NetInv /\ [NetworkNext]_networkVars => NetInv'
  <1> SUFFICES ASSUME NetInv, [NetworkNext]_networkVars PROVE NetInv'
    OBVIOUS
  <1>1. CASE Ring
    <2>1. FlowInv /\ [Next]_vars /\ topology' = topology
      BY <1>1 DEF Ring, NetInv, FlowInv
    <2> QED BY <2>1, FlowNext DEF NetInv, FlowInv
  <1>2. ASSUME UNCHANGED <<input, output, credit, due, fresh, latency>>,
               topology' = topology, topology = "simple_noc"
        PROVE  NetInv'
    BY <1>2 DEF NetInv, FlowTypes, CreditsConserved
  <1>3. CASE packet_injection
    BY <1>2, <1>3 DEF packet_injection, flow
  <1>4. ASSUME NEW takes \in SUBSET receive_req, SimpleEndOfCycle(takes)
        PROVE  NetInv'
    BY <1>2, <1>4 DEF SimpleEndOfCycle, flow
  <1>5. CASE UNCHANGED networkVars
    BY <1>5 DEF networkVars, vars, NetInv, FlowTypes, InjectionTypes, CreditsConserved, ends,
                flow, time
  <1> QED BY <1>1, <1>3, <1>4, <1>5 DEF NetworkNext, Clients

\* Flow control is exact: wherever credits are on their way (process_pending_credit,
\* stage_lt, stage_st), those of a channel and the flits behind its link add up to the
\* size of the buffer, for every ring, traffic and number of channels.
THEOREM CreditsExact == Spec => []CreditsConserved
  <1>1. FlowInv => CreditsConserved
    BY DEF FlowInv
  <1> QED BY <1>1, FlowInit, FlowNext, PTL DEF Spec

\* It stays exact in the network MacSim builds, whichever topology the traffic takes.
THEOREM NetworkCredits == NetworkSpec => []CreditsConserved
  <1>1. NetInv => CreditsConserved
    BY DEF NetInv
  <1> QED BY <1>1, NetInit, NetNext, PTL DEF NetworkSpec

\* The clients are held back in time: inject_packet never lets an injection buffer grow
\* past its limit, and stage_lt never lets an input buffer behind a link.
THEOREM BuffersBounded ==
    Spec => [](/\ \A i \in Routers : Len(injection[i]) <= InjectionMax
               /\ \A b \in Buffers : b[2] # "LOCAL" => Len(input[b]) <= BufferSize)
  <1> DEFINE Bounded == /\ \A i \in Routers : Len(injection[i]) <= InjectionMax
                        /\ \A b \in Buffers : b[2] # "LOCAL" => Len(input[b]) <= BufferSize
  <1>1. FlowInv => Bounded
    <2> SUFFICES ASSUME FlowInv PROVE Bounded
      OBVIOUS
    <2>1. ASSUME NEW b \in Buffers, b[2] # "LOCAL"
          PROVE  Len(input[b]) <= BufferSize
      <3> DEFINE o == Other(b)
      <3>1. o \in Buffers /\ o[2] # "LOCAL" /\ Other(o) = b
        BY <2>1, OtherEnd
      <3> HIDE DEF o
      <3>2. credit[o] \in Nat /\ due[o] \in Nat /\ fresh[o] \in Nat
        BY <3>1 DEF FlowInv, FlowTypes
      <3>3. credit[o] + due[o] + fresh[o] + Len(input[b]) = BufferSize
        BY <3>1 DEF FlowInv, CreditsConserved
      <3>4. Len(input[b]) \in Nat /\ BufferSize \in Nat
        BY <2>1, LenProperties, RingAssumption DEF FlowInv, FlowTypes
      <3> DEFINE c == credit[o] + due[o] + fresh[o]
                 n == Len(input[b])
      <3>5. c \in Nat /\ n \in Nat /\ c + n = BufferSize
        BY <3>2, <3>3, <3>4
      <3> HIDE DEF c, n
      <3>6. n <= BufferSize
        BY <3>4, <3>5
      <3> QED BY <3>6 DEF n
    <2> QED BY <2>1 DEF FlowInv, InjectionTypes
  <1> HIDE DEF Bounded
  <1>2. Spec => []Bounded
    BY <1>1, FlowInit, FlowNext, PTL DEF Spec
  <1> QED BY <1>2 DEF Bounded

--------------------------------------------------------------------------------

\* A flit by its packet and its place in it, and where flits are: in the buffer of an
\* input channel or of an output channel.
Id(f) == <<f.pkt, f.k>>
IdsOf(s) == [k \in 1..Len(s) |-> Id(s[k])]
FlitIds == {x \in Packets \X Nat : x[2] \in 1..x[1].size}
In(c) == <<"in", c>>
Out(b) == <<"out", b>>
Places == {"in", "out"} \X Buffers
Net(ins, outs) == [w \in Places |-> IdsOf(IF w[1] = "in" THEN ins[w[2]] ELSE outs[w[2]])]

--------------------------------------------------------------------------------

\* Input channel c holds the output channel To(h, c).
Held(h, c) == h[c] # NoChannel
To(h, c) == <<c[1], h[c][1], h[c][2]>>
Holders(h, b) == {c \in Buffers : Held(h, c) /\ To(h, c) = b}

\* The flits, at most one, that enter an output channel next, leave it next, enter an
\* input channel next and leave it next; own[c] is what the holder c still has to send.
Coming(h, own, b) == {own[c] : c \in Holders(h, b)}
After(n, h, own, b) == IF n[Out(b)] # <<>> THEN {Head(n[Out(b)])} ELSE Coming(h, own, b)
Behind(n, h, own, c) == IF c[2] = "LOCAL" THEN {} ELSE After(n, h, own, Other(c))
Ahead(n, h, own, c) == IF n[In(c)] # <<>> THEN {Head(n[In(c)])} ELSE Behind(n, h, own, c)

\* What may follow flit x: the next one of its packet, or the head of another one if it
\* is a tail, but not if both are in a channel that belongs to one packet.
Next1(x, y) == y[1] = x[1] /\ y[2] = x[2] + 1
Tail1(x) == x[2] = x[1].size
Meets(x, Y, one) ==
    /\ Y = {} => Tail1(x)
    /\ \A y \in Y : Next1(x, y) \/ (~one /\ Tail1(x) /\ y[2] = 1)
Linked(s, Y, one) ==
    \A k \in 1..Len(s) : Meets(s[k], IF k = Len(s) THEN Y ELSE {s[k + 1]}, one)

\* Every buffer and what comes next is in order, and every holder waits for the flit
\* that really comes next.
Chain(n, h, own) ==
    /\ \A b \in Buffers : Linked(n[Out(b)], Coming(h, own, b), TRUE)
    /\ \A c \in Buffers : Linked(n[In(c)], Behind(n, h, own, c), FALSE)
    /\ \A c \in Buffers : Held(h, c) => /\ Ahead(n, h, own, c) = {own[c]}
                                        /\ own[c][2] = 1 => n[In(c)] # <<>>
    /\ \A c \in Buffers : ~Held(h, c) => \A x \in Ahead(n, h, own, c) : x[2] = 1

\* An output channel is available when nobody holds it and it is empty.
Owners(n, h, a) ==
    /\ \A c, d \in Buffers : Held(h, c) /\ Held(h, d) /\ To(h, c) = To(h, d) => c = d
    /\ \A b \in Buffers : a[b] <=> Holders(h, b) = {} /\ n[Out(b)] = <<>>

WholeTypes(n, h, own, a) ==
    /\ n \in [Places -> Seq(FlitIds)]
    /\ h \in [Buffers -> (Ports \X VCs) \cup {NoChannel}]
    /\ \A c \in Buffers : Held(h, c) => own[c] \in FlitIds
    /\ a \in [Buffers -> BOOLEAN]

--------------------------------------------------------------------------------

\* How far a packet still has to go from router i, and a flit from a buffer.
Far(p, i) ==
    IF Direction(p) = "RIGHT" THEN IF i <= p.dst THEN p.dst - i ELSE p.dst - i + N
    ELSE IF i >= p.dst THEN i - p.dst ELSE i - p.dst + N
Left(x, w) == 2 * Far(x[1], w[2][1]) + (IF w[1] = "in" THEN 1 ELSE 0)

\* No flit is in two places, and none has overtaken an earlier one of its packet.
OnePlace(n) ==
    /\ \A w \in Places : OnceEach(n[w])
    /\ \A w, v \in Places : \A x : Occurs(x, n[w]) /\ Occurs(x, n[v]) => w = v
NoPassing(n) ==
    \A w, v \in Places : \A x, y :
        Occurs(x, n[w]) /\ Occurs(y, n[v]) /\ x[1] = y[1] /\ x[2] < y[2] => Left(x, w) <= Left(y, v)

\* Packets leave a router on their route, and all flits of one by the same channel.
OnRoute(n) ==
    /\ \A b \in Buffers : \A x : Occurs(x, n[Out(b)]) => Route(b[1], x[1]) = b[2]
    /\ \A b, d \in Buffers : \A x, y :
            Occurs(x, n[Out(b)]) /\ Occurs(y, n[Out(d)]) /\ x[1] = y[1] /\ b[1] = d[1] => b = d

\* A holder is a gate: what its packet has sent is past the router, the rest is not, and
\* no other channel of the router has to do with the packet.
Gates(n, h, own) ==
    \A c \in Buffers : Held(h, c) =>
        /\ Route(c[1], own[c][1]) = h[c][1]
        /\ \A d \in Buffers : Held(h, d) /\ c[1] = d[1] /\ own[c][1] = own[d][1] => c = d
        /\ \A w \in Places : \A x : Occurs(x, n[w]) /\ x[1] = own[c][1] =>
                /\ x[2] < own[c][2] <=> Left(x, w) <= 2 * Far(x[1], c[1])
                /\ w[1] = "out" /\ w[2][1] = c[1] => w[2] = To(h, c)

--------------------------------------------------------------------------------

\* Where a packet is, as a whole: still with its client, in the network, with the
\* client it was sent to, or received.
Moving(n) == {x[1] : x \in UNION {ToSet(n[w]) : w \in Places}}
StageTypes(off, inj, rq, arr) ==
    /\ off \in [Routers -> Seq(Packets)] /\ inj \in [Routers -> Seq(Packets)]
    /\ rq \in [Routers -> Seq(Packets)] /\ arr \subseteq Packets
StillUnsent(p, i, n, h, own, rq, arr) ==
    /\ p.src = i /\ p \notin Moving(n) /\ p \notin arr
    /\ \A j \in Routers : ~Occurs(p, rq[j])
    /\ \A c \in Buffers : Held(h, c) => own[c][1] # p
OneStage(n, h, own, off, inj, rq, arr) ==
    /\ StageTypes(off, inj, rq, arr)
    /\ \A i \in Routers :
            /\ OnceEach(off[i]) /\ OnceEach(inj[i]) /\ OnceEach(rq[i])
            /\ \A p : ~(Occurs(p, off[i]) /\ Occurs(p, inj[i]))
            /\ \A p : Occurs(p, off[i]) \/ Occurs(p, inj[i]) => StillUnsent(p, i, n, h, own, rq, arr)
            /\ \A p : Occurs(p, rq[i]) => p.dst = i /\ p \notin Moving(n) /\ p \notin arr
    /\ arr \cap Moving(n) = {}

\* A flit is routed in front of its buffer only, and not when the channel is held.
StatesRight ==
    \A c \in Buffers : \A k \in 1..Len(input[c]) :
        /\ input[c][k].state # "IB" => k = 1
        /\ input[c][k].state = "RC" => ~Held(holds, c)

KnobsRight == /\ num_vc \in 1..MaxVC /\ stamp \in [Packets -> Nat] /\ now \in Nat
              /\ ratio \in Nat /\ clock \in Nat /\ turn \in Nat

WholeNet(n, h, own, a) ==
    /\ WholeTypes(n, h, own, a) /\ Chain(n, h, own) /\ Owners(n, h, a)
    /\ OnePlace(n) /\ NoPassing(n) /\ OnRoute(n) /\ Gates(n, h, own)
Whole(n, h, own, a) ==
    WholeNet(n, h, own, a) /\ OneStage(n, h, own, offered, injection, reqs, arrived)
WholeInv ==
    KnobsRight /\ StatesRight /\ \E own : Whole(Net(input, output), holds, own, avail)

--------------------------------------------------------------------------------

\* What stays in order when the first flit leaves.
LEMMA LinkedTail ==
    ASSUME NEW s \in Seq(FlitIds), s # <<>>, NEW Y, NEW one, Linked(s, Y, one)
    PROVE  /\ Linked(Tail(s), Y, one)
           /\ Meets(Head(s), IF Tail(s) # <<>> THEN {Head(Tail(s))} ELSE Y, one)
  <1> DEFINE t == Tail(s)
  <1>1. /\ Len(s) \in Nat /\ Len(s) > 0 /\ Head(s) = s[1] /\ Len(t) = Len(s) - 1
        /\ t \in Seq(FlitIds) /\ \A k \in 1..Len(t) : t[k] = s[k + 1]
    BY HeadTailProperties, EmptySeq, LenProperties
  <1>2. t # <<>> <=> Len(s) # 1
    BY <1>1, EmptySeq
  <1>3. t # <<>> => Head(t) = s[2]
    BY <1>1, <1>2
  <1>4. \A k \in 1..Len(s) : Meets(s[k], IF k = Len(s) THEN Y ELSE {s[k + 1]}, one)
    BY DEF Linked
  <1> HIDE DEF t
  <1>5. Meets(Head(s), IF t # <<>> THEN {Head(t)} ELSE Y, one)
    <2>1. 1 \in 1..Len(s) /\ (t = <<>> <=> 1 = Len(s)) /\ 1 + 1 = 2
      BY <1>1, <1>2
    <2>2. Meets(s[1], IF 1 = Len(s) THEN Y ELSE {s[1 + 1]}, one)
      BY <1>4, <2>1
    <2>3. CASE t = <<>>
      BY <1>1, <2>1, <2>2, <2>3
    <2>4. CASE t # <<>>
      BY <1>1, <1>3, <2>1, <2>2, <2>4
    <2> QED BY <2>3, <2>4
  <1>6. ASSUME NEW k \in 1..Len(t)
        PROVE  Meets(t[k], IF k = Len(t) THEN Y ELSE {t[k + 1]}, one)
    <2>1. k + 1 \in 1..Len(s) /\ t[k] = s[k + 1] /\ (k = Len(t) <=> k + 1 = Len(s))
      BY <1>1
    <2>2. k # Len(t) => t[k + 1] = s[(k + 1) + 1]
      <3>1. k # Len(t) => k + 1 \in 1..Len(t)
        BY <1>1
      <3> QED BY <1>1, <3>1
    <2> QED BY <1>4, <2>1, <2>2
  <1> QED BY <1>5, <1>6 DEF Linked, t

\* Two runs of flits, one behind the other.
LEMMA LinkedJoin ==
    ASSUME NEW s \in Seq(FlitIds), NEW t \in Seq(FlitIds), t # <<>>, NEW Y, NEW one,
           Linked(s, {Head(t)}, one), Linked(t, Y, one)
    PROVE  Linked(s \o t, Y, one)
  <1> DEFINE u == s \o t
  <1>1. /\ Len(s) \in Nat /\ Len(t) \in Nat /\ Len(t) > 0 /\ Head(t) = t[1]
        /\ Len(u) = Len(s) + Len(t)
        /\ \A k \in 1..Len(u) : u[k] = IF k <= Len(s) THEN s[k] ELSE t[k - Len(s)]
    BY ConcatProperties, EmptySeq, LenProperties
  <1>2. ASSUME NEW k \in 1..Len(u)
        PROVE  Meets(u[k], IF k = Len(u) THEN Y ELSE {u[k + 1]}, one)
    <2>1. CASE k <= Len(s)
      <3>1. k \in 1..Len(s) /\ u[k] = s[k] /\ k # Len(u) /\ k + 1 \in 1..Len(u)
        BY <1>1, <2>1
      <3>2. u[k + 1] = IF k = Len(s) THEN Head(t) ELSE s[k + 1]
        BY <1>1, <3>1
      <3> QED BY <3>1, <3>2 DEF Linked
    <2>2. CASE k > Len(s)
      <3> DEFINE m == k - Len(s)
      <3>1. m \in 1..Len(t) /\ u[k] = t[m] /\ (k = Len(u) <=> m = Len(t))
        BY <1>1, <2>2
      <3>2. k # Len(u) => u[k + 1] = t[m + 1]
        BY <1>1, <2>2
      <3>3. Meets(t[m], IF m = Len(t) THEN Y ELSE {t[m + 1]}, one)
        BY <3>1 DEF Linked
      <3> HIDE DEF m, u
      <3> QED BY <3>1, <3>2, <3>3
    <2>3. k <= Len(s) \/ k > Len(s)
      BY <1>1
    <2> QED BY ONLY <2>1, <2>2, <2>3
  <1> QED BY <1>2 DEF Linked

LEMMA LinkedOne ==
    ASSUME NEW y \in FlitIds, NEW Y, NEW one, Meets(y, Y, one)
    PROVE  Linked(<<y>>, Y, one)
  BY DEF Linked

\* A flit that comes next goes behind the others.
LEMMA LinkedAppend ==
    ASSUME NEW s \in Seq(FlitIds), NEW y \in FlitIds, NEW Y, NEW one,
           Linked(s, {y}, one), Meets(y, Y, one)
    PROVE  Linked(Append(s, y), Y, one) /\ Append(s, y) \in Seq(FlitIds)
  <1> DEFINE t == <<y>>
  <1>1. t \in Seq(FlitIds) /\ t # <<>> /\ Head(t) = y /\ Append(s, y) = s \o t
    BY LenProperties
  <1>2. Linked(t, Y, one)
    BY LinkedOne
  <1> HIDE DEF t
  <1>3. Linked(s \o t, Y, one)
    BY <1>1, <1>2, LinkedJoin
  <1> QED BY <1>1, <1>3, AppendProperties

\* Where packets may follow each other, a head may follow whatever is complete, and the
\* flits of one packet are in order.
LEMMA LinkedHead ==
    ASSUME NEW s \in Seq(FlitIds), NEW y, y[2] = 1, Linked(s, {}, FALSE)
    PROVE  Linked(s, {y}, FALSE)
  BY DEF Linked, Meets

LEMMA LinkedWeaker ==
    ASSUME NEW s, NEW Y, NEW one \in BOOLEAN, Linked(s, Y, one)
    PROVE  Linked(s, Y, FALSE)
  BY DEF Linked, Meets

\* In a channel that belongs to one packet the numbers of the flits go up.
LEMMA LinkedAscends ==
    ASSUME NEW s \in Seq(FlitIds), NEW Y, Linked(s, Y, TRUE)
    PROVE  \A k \in 1..Len(s) : s[k][1] = s[1][1] /\ s[k][2] = s[1][2] + k - 1
  <1> DEFINE P(k) == k = 0 \/ (s[k][1] = s[1][1] /\ s[k][2] = s[1][2] + k - 1)
             T == {k \in 0..Len(s) : P(k)}
  <1>1. Len(s) \in Nat /\ \A k \in 1..Len(s) : s[k][2] \in Nat
    BY LenProperties, ElementOfSeq DEF FlitIds
  <1>2. ASSUME NEW k \in 1..Len(s), k - 1 \in T PROVE k \in T
    <2>1. CASE k = 1
      BY <1>1, <2>1
    <2>2. CASE k > 1
      <3> DEFINE j == k - 1
      <3>1. j \in 1..Len(s) /\ j # Len(s) /\ j + 1 = k /\ P(j) /\ j # 0
        BY <1>1, <1>2, <2>2
      <3>2. Next1(s[j], s[k])
        BY <3>1 DEF Linked, Meets
      <3> HIDE DEF j
      <3>3. s[k][1] = s[1][1] /\ s[k][2] = s[1][2] + k - 1
        <4> DEFINE a == s[1][2]  b == s[j][2]  e == s[k][2]
        <4>1. a \in Nat /\ b \in Nat /\ e \in Nat /\ j \in Nat /\ k \in Nat
          BY <1>1, <3>1
        <4>2. b = a + j - 1 /\ e = b + 1 /\ s[k][1] = s[j][1] /\ s[j][1] = s[1][1]
          BY <3>1, <3>2 DEF Next1
        <4> HIDE DEF a, b, e
        <4>3. e = a + k - 1
          BY <3>1, <4>1, <4>2
        <4> QED BY <4>2, <4>3 DEF a, e
      <3> QED BY <3>3
    <2> QED BY <1>1, <2>1, <2>2
  <1>3. 0..Len(s) \subseteq T
    <2>1. 0 \in T
      BY <1>1
    <2> HIDE DEF T
    <2> QED BY <1>1, <1>2, <2>1, UpTo
  <1>4. \A k \in 1..Len(s) : k \in 0..Len(s) /\ k # 0
    BY <1>1
  <1>5. \A k \in 1..Len(s) : P(k)
    BY <1>3, <1>4
  <1> QED BY <1>4, <1>5

--------------------------------------------------------------------------------

\* What Far says of the ring: it is 0 at the end of the way only, differs from router to
\* router, and goes down by one along the route.
LEMMA FarFacts ==
    ASSUME NEW p \in Packets, NEW i \in Routers
    PROVE  /\ Far(p, i) \in Nat /\ (Far(p, i) = 0 <=> p.dst = i)
           /\ \A j \in Routers : Far(p, j) = Far(p, i) => j = i
  <1>1. N \in Nat /\ N > 1 /\ p.dst \in 0..(N - 1)
    BY RingAssumption DEF Routers
  <1> QED BY <1>1 DEF Far, Routers

LEMMA FarGoesDown ==
    ASSUME NEW p \in Packets, NEW b \in Buffers, b[2] # "LOCAL", Route(b[1], p) = b[2]
    PROVE  Far(p, Other(b)[1]) = Far(p, b[1]) - 1
  <1> DEFINE i == b[1]  j == Other(b)[1]
  <1>1. N \in Nat /\ N > 1 /\ p.dst \in 0..(N - 1) /\ i \in 0..(N - 1)
    BY RingAssumption DEF Routers, Buffers
  <1>2. p.dst # i /\ b[2] = Direction(p) /\ (Direction(p) = "LEFT" \/ Direction(p) = "RIGHT")
    BY DEF Route, Direction
  <1>3. j = IF Direction(p) = "LEFT" THEN IF i = 0 THEN N - 1 ELSE i - 1
            ELSE IF i = N - 1 THEN 0 ELSE i + 1
    BY <1>2 DEF Other, link
  <1> HIDE DEF i, j
  <1>4. CASE Direction(p) = "LEFT"
    BY <1>1, <1>2, <1>3, <1>4 DEF Far, i, j
  <1>5. CASE Direction(p) = "RIGHT"
    BY <1>1, <1>2, <1>3, <1>5 DEF Far, i, j
  <1> QED BY <1>2, <1>4, <1>5

\* The route ends at the client of the destination, and nowhere else.
LEMMA RouteEnds ==
    ASSUME NEW p \in Packets, NEW i \in Routers
    PROVE  Route(i, p) \in Ports /\ (Route(i, p) = "LOCAL" <=> Far(p, i) = 0)
  <1>1. Direction(p) \in Ports /\ Direction(p) # "LOCAL"
    BY DEF Direction, Ports
  <1> QED BY <1>1, FarFacts DEF Route, Ports

--------------------------------------------------------------------------------

\* A packet that moves has a flit somewhere.
LEMMA MovingFlit ==
    ASSUME NEW n \in [Places -> Seq(FlitIds)], NEW p
    PROVE  p \in Moving(n) <=> \E w \in Places : \E x : Occurs(x, n[w]) /\ x[1] = p
  <1>1. \A w \in Places : \A x : x \in ToSet(n[w]) <=> Occurs(x, n[w])
    BY DEF ToSet, Occurs
  <1> QED BY <1>1 DEF Moving

\* Some flits in front of buffers go to the end of others or leave the network: those
\* in G, each to its own place in D.
Carried(n, n2, G, D) ==
    /\ G \subseteq Places /\ n2 = [w \in Places |-> n2[w]]
    /\ \A w \in G : n[w] # <<>> /\ n2[w] = Tail(n[w])
    /\ \A w \in G : D[w] \in Places =>
            /\ D[w] \notin G /\ n2[D[w]] = Append(n[D[w]], Head(n[w]))
            /\ \A v \in G : D[v] = D[w] => v = w
    /\ \A v \in Places : v \notin G /\ (\A w \in G : D[w] # v) => n2[v] = n[v]

\* A flit in n2 is where it was, or has come from the front of a buffer.
Stayed(n, G, v, x) == Occurs(x, n[v]) /\ (v \in G => x # Head(n[v]))
CameFrom(n, D, v, x, w) == D[w] = v /\ x = Head(n[w]) /\ Occurs(x, n[w])

LEMMA CarriedOne ==
    ASSUME NEW n \in [Places -> Seq(FlitIds)], NEW n2, NEW G, NEW D, Carried(n, n2, G, D),
           OnePlace(n), NEW v \in Places
    PROVE  /\ n2[v] \in Seq(FlitIds) /\ OnceEach(n2[v])
           /\ \A x : Occurs(x, n2[v]) =>
                    Stayed(n, G, v, x) \/ \E w \in G : CameFrom(n, D, v, x, w)
  <1>1. n[v] \in Seq(FlitIds) /\ OnceEach(n[v])
    BY DEF OnePlace
  <1>2. CASE v \in G
    <2> DEFINE s == n[v]  t == n2[v]
    <2>1. s # <<>> /\ t = Tail(s)
      BY <1>2 DEF Carried
    <2> HIDE DEF s, t
    <2>2. t \in Seq(FlitIds) /\ OnceEach(t) /\ \A x : Occurs(x, t) <=> Occurs(x, s) /\ x # Head(s)
      BY <1>1, <2>1, OneLess DEF s
    <2> QED BY <2>2 DEF Stayed, s, t
  <1>3. CASE v \notin G /\ \E w \in G : D[w] = v
    <2>1. PICK w \in G : D[w] = v
      BY <1>3
    <2> DEFINE s == n[v]  t == n2[v]  r == n[w]  y == Head(r)
    <2>2. w \in Places /\ r \in Seq(FlitIds) /\ r # <<>> /\ t = Append(s, y) /\ w # v
      BY <1>3, <2>1 DEF Carried
    <2> HIDE DEF s, t, r
    <2>3. y \in FlitIds /\ Occurs(y, r)
      BY <2>2, OneLess
    <2> HIDE DEF y
    <2>4. ~Occurs(y, s)
      BY <2>2, <2>3 DEF OnePlace, s, r
    <2>5. t \in Seq(FlitIds) /\ OnceEach(t) /\ \A x : Occurs(x, t) <=> Occurs(x, s) \/ x = y
      <3>1. s \in Seq(FlitIds) /\ OnceEach(s)
        BY <1>1 DEF s
      <3>2. t = Append(s, y)
        BY <2>2
      <3>3. /\ t \in Seq(FlitIds) /\ Len(t) = Len(s) + 1
            /\ \A x : Occurs(x, t) <=> Occurs(x, s) \/ x = y
            /\ OnceEach(s) /\ ~Occurs(y, s) => OnceEach(t)
        <4>1. s \in Seq(FlitIds) /\ y \in FlitIds
          BY <2>3, <3>1
        <4>2. \A z : z = Append(s, y) =>
                /\ z \in Seq(FlitIds) /\ Len(z) = Len(s) + 1
                /\ \A x : Occurs(x, z) <=> Occurs(x, s) \/ x = y
                /\ OnceEach(s) /\ ~Occurs(y, s) => OnceEach(z)
          BY ONLY <4>1, OneMore
        <4> QED BY ONLY <4>2, <3>2
      <3> QED BY <2>4, <3>1, <3>3
    <2>6. \A x : x = y => CameFrom(n, D, v, x, w)
      BY <2>1, <2>3 DEF CameFrom, y, r
    <2> QED BY <1>3, <2>1, <2>5, <2>6 DEF Stayed, s, t
  <1>4. CASE v \notin G /\ ~\E w \in G : D[w] = v
    <2>1. n2[v] = n[v]
      BY <1>4 DEF Carried
    <2> QED BY <1>1, <1>4, <2>1 DEF Stayed
  <1> QED BY <1>2, <1>3, <1>4

LEMMA CarriedAll ==
    ASSUME NEW n \in [Places -> Seq(FlitIds)], NEW n2, NEW G, NEW D, Carried(n, n2, G, D),
           OnePlace(n)
    PROVE  /\ n2 \in [Places -> Seq(FlitIds)] /\ OnePlace(n2)
           /\ \A v \in Places : \A x : Occurs(x, n2[v]) =>
                    Stayed(n, G, v, x) \/ \E w \in G : CameFrom(n, D, v, x, w)
  <1>1. \A v \in Places : n2[v] \in Seq(FlitIds) /\ OnceEach(n2[v])
    BY CarriedOne
  <1>2. \A v \in Places : \A x : Occurs(x, n2[v]) =>
                Stayed(n, G, v, x) \/ \E w \in G : CameFrom(n, D, v, x, w)
    BY CarriedOne
  <1>3. n2 \in [Places -> Seq(FlitIds)]
    BY <1>1 DEF Carried
  <1>4. ASSUME NEW v \in Places, NEW w \in Places, NEW x, Occurs(x, n2[v]), Occurs(x, n2[w])
        PROVE  v = w
    <2>1. CASE Stayed(n, G, v, x) /\ Stayed(n, G, w, x)
      BY <2>1 DEF OnePlace, Stayed
    <2>2. ASSUME NEW a \in Places, NEW b \in Places, Stayed(n, G, a, x),
                 NEW g \in G, CameFrom(n, D, b, x, g)
          PROVE  FALSE
      <3>1. g \in Places /\ a = g
        BY <2>2 DEF Stayed, CameFrom, OnePlace, Carried
      <3> QED BY <2>2, <3>1 DEF Stayed, CameFrom
    <2>3. ASSUME NEW f \in G, CameFrom(n, D, v, x, f), NEW g \in G, CameFrom(n, D, w, x, g)
          PROVE  v = w
      BY <2>3 DEF CameFrom, OnePlace, Carried
    <2> QED BY <1>2, <1>4, <2>1, <2>2, <2>3
  <1> QED BY <1>1, <1>2, <1>3, <1>4 DEF OnePlace

\* Nothing is overtaken if each flit that moves gets one closer to its destination and
\* those in front of it in its packet are closer already.
OneCloser(n, G, D) ==
    \A w \in G : D[w] \in Places =>
        LET x == Head(n[w])
        IN  /\ Left(x, D[w]) = Left(x, w) - 1
            /\ \A v \in Places : \A y : Occurs(y, n[v]) /\ y[1] = x[1] /\ y[2] < x[2] =>
                    Left(y, v) <= Left(x, w) - 1

LEMMA LeftFacts ==
    ASSUME NEW x \in FlitIds, NEW w \in Places
    PROVE  /\ Left(x, w) \in Nat /\ Far(x[1], w[2][1]) \in Nat /\ w[2][1] \in Routers
           /\ x[1] \in Packets /\ x[2] \in Nat /\ x[2] >= 1 /\ x[2] <= x[1].size
           /\ x[1].size \in Nat
  <1>1. w[2][1] \in Routers
    BY DEF Places, Buffers
  <1>2. x[1] \in Packets /\ x[2] \in Nat /\ x[2] \in 1..x[1].size /\ x[1].size \in Nat
    BY RingAssumption DEF FlitIds
  <1>3. Far(x[1], w[2][1]) \in Nat
    BY <1>1, <1>2, FarFacts
  <1> QED BY <1>1, <1>2, <1>3 DEF Left

LEMMA NothingPasses ==
    ASSUME NEW n \in [Places -> Seq(FlitIds)], NEW n2, NEW G, NEW D, Carried(n, n2, G, D),
           OnePlace(n), NoPassing(n), OneCloser(n, G, D)
    PROVE  NoPassing(n2)
  <1> SUFFICES ASSUME NEW w \in Places, NEW v \in Places, NEW x, NEW y, Occurs(x, n2[w]),
                      Occurs(y, n2[v]), x[1] = y[1], x[2] < y[2]
               PROVE  Left(x, w) <= Left(y, v)
    BY DEF NoPassing
  <1>1. /\ Stayed(n, G, w, x) \/ \E g \in G : CameFrom(n, D, w, x, g)
        /\ Stayed(n, G, v, y) \/ \E g \in G : CameFrom(n, D, v, y, g)
    BY CarriedAll
  <1>2. \A s \in Seq(FlitIds) : \A z : Occurs(z, s) => z \in FlitIds
    BY ElementOfSeq DEF Occurs
  <1>3. G \subseteq Places
    BY DEF Carried
  <1>4. x \in FlitIds /\ y \in FlitIds
    BY <1>1, <1>2, <1>3 DEF Stayed, CameFrom
  <1>5. \A u \in Places : Left(x, u) \in Nat /\ Left(y, u) \in Nat
    BY <1>4, LeftFacts
  <1>6. ASSUME Stayed(n, G, w, x), Stayed(n, G, v, y) PROVE Left(x, w) <= Left(y, v)
    BY <1>6 DEF Stayed, NoPassing
  <1>7. ASSUME NEW g \in G, CameFrom(n, D, w, x, g), Stayed(n, G, v, y)
        PROVE  Left(x, w) <= Left(y, v)
    <2>1. Left(x, g) <= Left(y, v) /\ Left(x, w) = Left(x, g) - 1
      BY <1>3, <1>7 DEF Stayed, NoPassing, CameFrom, OneCloser
    <2> QED BY <1>3, <1>5, <2>1
  <1>8. ASSUME NEW g \in G, CameFrom(n, D, v, y, g), Stayed(n, G, w, x)
        PROVE  Left(x, w) <= Left(y, v)
    <2>1. Left(y, v) = Left(y, g) - 1 /\ Left(x, w) <= Left(y, g) - 1
      BY <1>8 DEF Stayed, CameFrom, OneCloser
    <2> QED BY <2>1
  <1>9. ASSUME NEW f \in G, CameFrom(n, D, w, x, f), NEW g \in G, CameFrom(n, D, v, y, g)
        PROVE  Left(x, w) <= Left(y, v)
    <2>1. Left(y, v) = Left(y, g) - 1 /\ Left(x, w) = Left(x, f) - 1 /\ Left(x, f) <= Left(y, g)
      BY <1>3, <1>9 DEF CameFrom, OneCloser, NoPassing
    <2> QED BY <1>3, <1>5, <2>1
  <1> QED BY <1>1, <1>6, <1>7, <1>8, <1>9

--------------------------------------------------------------------------------

\* The place of a holder's output channel.
LEMMA ToBuffer ==
    ASSUME NEW h \in [Buffers -> (Ports \X VCs) \cup {NoChannel}], NEW c \in Buffers, Held(h, c)
    PROVE  /\ To(h, c) \in Buffers /\ To(h, c)[1] = c[1] /\ To(h, c)[2] = h[c][1]
           /\ h[c] \in Ports \X VCs
  <1>1. h[c] \in Ports \X VCs
    BY DEF Held
  <1> QED BY <1>1 DEF To, Buffers

LEMMA InOutPlaces ==
    /\ \A b \in Buffers : In(b) \in Places /\ Out(b) \in Places
    /\ \A b : In(b)[1] = "in" /\ In(b)[2] = b /\ Out(b)[1] = "out" /\ Out(b)[2] = b
    /\ \A b, d : In(b) # Out(d) /\ (In(b) = In(d) => b = d) /\ (Out(b) = Out(d) => b = d)
    /\ \A w \in Places : w[2] \in Buffers /\ (w = In(w[2]) \/ w = Out(w[2]))
  BY DEF In, Out, Places

\* The other end of a link is at another router.
LEMMA OtherRouter ==
    ASSUME NEW b \in Buffers, b[2] # "LOCAL"
    PROVE  Other(b)[1] # b[1] /\ Other(b)[1] \in Routers
  <1>1. b[1] \in 0..(N - 1) /\ N \in Nat /\ N > 1
    BY RingAssumption DEF Buffers, Routers
  <1>2. Other(b)[1] = link(b[1], b[2])
    BY DEF Other
  <1> QED BY <1>1, <1>2 DEF link, Routers

\* stage_st in the terms of flits: the flits in front of the channels M of router i go to
\* the output channels these hold; a holder that has sent a tail gives its channel up.
Succ(x) == <<x[1], x[2] + 1>>
Switching(n, h, own, n2, h2, own2, M, i) ==
    /\ M \subseteq Buffers /\ n2 = [w \in Places |-> n2[w]]
    /\ \A c \in M : c[1] = i /\ Held(h, c) /\ n[In(c)] # <<>>
    /\ \A c \in M : /\ n2[In(c)] = Tail(n[In(c)])
                    /\ n2[Out(To(h, c))] = Append(n[Out(To(h, c))], Head(n[In(c)]))
    /\ \A c \in Buffers : c \notin M => n2[In(c)] = n[In(c)]
    /\ \A b \in Buffers : (\A c \in M : To(h, c) # b) => n2[Out(b)] = n[Out(b)]
    /\ h2 = [c \in Buffers |-> IF c \in M /\ Tail1(Head(n[In(c)])) THEN NoChannel ELSE h[c]]
    /\ own2 = [c \in Buffers |-> IF c \in M THEN Succ(own[c]) ELSE own[c]]

InSwitch(n, h, own, a, n2, h2, own2, M, i) ==
    /\ WholeTypes(n, h, own, a) /\ Chain(n, h, own) /\ Owners(n, h, a)
    /\ Switching(n, h, own, n2, h2, own2, M, i)

SwitchedOut(n, h, own, n2, h2, own2, b) ==
    /\ n2[Out(b)] \in Seq(FlitIds) /\ Linked(n2[Out(b)], Coming(h2, own2, b), TRUE)
    /\ After(n2, h2, own2, b) = After(n, h, own, b)
    /\ Holders(h2, b) \subseteq Holders(h, b)
    /\ Holders(h2, b) = {} /\ n2[Out(b)] = <<>> <=> Holders(h, b) = {} /\ n[Out(b)] = <<>>
InRight(n, h, own, c) ==
    /\ n[In(c)] \in Seq(FlitIds) /\ Linked(n[In(c)], Behind(n, h, own, c), FALSE)
    /\ Held(h, c) => /\ Ahead(n, h, own, c) = {own[c]} /\ own[c] \in FlitIds
                     /\ own[c][2] = 1 => n[In(c)] # <<>>
    /\ ~Held(h, c) => \A x \in Ahead(n, h, own, c) : x[2] = 1

\* What the switch does to one output channel.
LEMMA SwitchOut ==
    ASSUME NEW n, NEW h, NEW own, NEW a, NEW n2, NEW h2, NEW own2, NEW M, NEW i,
           InSwitch(n, h, own, a, n2, h2, own2, M, i), NEW b \in Buffers
    PROVE  SwitchedOut(n, h, own, n2, h2, own2, b)
  <1>0. /\ WholeTypes(n, h, own, a) /\ Chain(n, h, own) /\ Owners(n, h, a)
        /\ Switching(n, h, own, n2, h2, own2, M, i)
    BY DEF InSwitch
  <1> DEFINE s == n[Out(b)]  t == n2[Out(b)]
  <1>1. s \in Seq(FlitIds) /\ Linked(s, Coming(h, own, b), TRUE)
    BY InOutPlaces, <1>0 DEF WholeTypes, Chain
  <1>2. Holders(h2, b) = {d \in Holders(h, b) : ~(d \in M /\ Tail1(Head(n[In(d)])))}
    BY <1>0 DEF Holders, Switching, Held, To
  <1>3. CASE \E c \in M : To(h, c) = b
    <2>1. PICK c \in M : To(h, c) = b
      BY <1>3
    <2> DEFINE x == Head(n[In(c)])
    <2>2. c \in Buffers /\ Held(h, c) /\ n[In(c)] # <<>> /\ t = Append(s, x) /\ own2[c] = Succ(own[c])
      BY <2>1, <1>0 DEF Switching
    <2>3. own[c] = x
      BY <2>2, <1>0 DEF Chain, Ahead
    <2>4. own[c] \in FlitIds
      BY <2>2, <1>0 DEF WholeTypes
    <2>5. Holders(h, b) = {c}
      BY <2>1, <2>2, <1>0 DEF Holders, Owners
    <2>6. Coming(h, own, b) = {x}
      BY <2>3, <2>5 DEF Coming
    <2>7. Holders(h2, b) = IF Tail1(x) THEN {} ELSE {c}
      BY <1>2, <2>1, <2>5
    <2>8. Coming(h2, own2, b) = IF Tail1(x) THEN {} ELSE {Succ(x)}
      BY <2>2, <2>3, <2>7 DEF Coming
    <2> HIDE DEF x, s, t
    <2>9. Meets(x, Coming(h2, own2, b), TRUE)
      <3>1. CASE Tail1(x)
        BY <2>8, <3>1 DEF Meets
      <3>2. CASE ~Tail1(x)
        <4>1. Coming(h2, own2, b) = {Succ(x)}
          BY <2>8, <3>2
        <4>2. Next1(x, Succ(x))
          BY DEF Next1, Succ
        <4> QED BY <4>1, <4>2 DEF Meets
      <3> QED BY <3>1, <3>2
    <2>10. x \in FlitIds
      BY <2>3, <2>4
    <2>11. Linked(s, {x}, TRUE)
      BY <1>1, <2>6
    <2>12. Linked(t, Coming(h2, own2, b), TRUE) /\ t \in Seq(FlitIds)
      <3>1. t = Append(s, x)
        BY <2>2
      <3> QED BY ONLY <1>1, <2>9, <2>10, <2>11, <3>1, LinkedAppend
    <2>13. t # <<>> /\ Head(t) = IF s = <<>> THEN x ELSE Head(s)
      <3>1. t = Append(s, x)
        BY <2>2
      <3> QED BY <1>1, <2>10, <3>1, AppendProperties
    <2>14. After(n2, h2, own2, b) = After(n, h, own, b)
      BY <2>6, <2>13 DEF After, s, t
    <2> QED BY <1>2, <2>5, <2>12, <2>13, <2>14 DEF SwitchedOut, s, t
  <1>4. CASE ~\E c \in M : To(h, c) = b
    <2>1. t = s
      BY <1>4, <1>0 DEF Switching
    <2>2. \A d \in Holders(h, b) : d \in Buffers /\ d \notin M
      BY <1>4 DEF Holders
    <2>3. Holders(h2, b) = Holders(h, b)
      BY <1>2, <2>2
    <2>4. Coming(h2, own2, b) = Coming(h, own, b)
      <3>1. \A d \in Holders(h, b) : own2[d] = own[d]
        BY <2>2, <1>0 DEF Switching
      <3> QED BY <2>3, <3>1 DEF Coming
    <2> QED BY <1>1, <2>1, <2>3, <2>4 DEF SwitchedOut, After
  <1> QED BY <1>3, <1>4

\* And to one input channel.
LEMMA SwitchIn ==
    ASSUME NEW n, NEW h, NEW own, NEW a, NEW n2, NEW h2, NEW own2, NEW M, NEW i,
           InSwitch(n, h, own, a, n2, h2, own2, M, i), NEW c \in Buffers
    PROVE  InRight(n2, h2, own2, c)
  <1>0. /\ WholeTypes(n, h, own, a) /\ Chain(n, h, own) /\ Owners(n, h, a)
        /\ Switching(n, h, own, n2, h2, own2, M, i)
    BY DEF InSwitch
  <1> DEFINE s == n[In(c)]  t == n2[In(c)]  B == Behind(n, h, own, c)
  <1>1. s \in Seq(FlitIds) /\ Linked(s, B, FALSE)
    BY InOutPlaces, <1>0 DEF WholeTypes, Chain
  <1>2. Behind(n2, h2, own2, c) = B
    <2>1. CASE c[2] # "LOCAL"
      <3> DEFINE o == Other(c)
      <3>1. o \in Buffers
        BY <2>1, OtherEnd
      <3> HIDE DEF o
      <3>2. After(n2, h2, own2, o) = After(n, h, own, o)
        <4>1. SwitchedOut(n, h, own, n2, h2, own2, o)
          BY <3>1, SwitchOut
        <4> QED BY <4>1 DEF SwitchedOut
      <3> QED BY <2>1, <3>2 DEF Behind, o
    <2> QED BY <2>1 DEF Behind
  <1>3. CASE c \notin M
    <2>1. t = s /\ (Held(h2, c) <=> Held(h, c)) /\ own2[c] = own[c]
      BY <1>3, <1>0 DEF Switching, Held
    <2>2. Ahead(n2, h2, own2, c) = Ahead(n, h, own, c)
      BY <1>2, <2>1 DEF Ahead
    <2> QED BY <1>1, <1>2, <2>1, <2>2, <1>0 DEF InRight, Chain, WholeTypes
  <1>4. CASE c \in M
    <2> DEFINE x == Head(s)
    <2>1. /\ s # <<>> /\ t = Tail(s) /\ own2[c] = Succ(own[c]) /\ Held(h, c)
          /\ Held(h2, c) <=> ~Tail1(x)
      BY <1>4, <1>0 DEF Switching, Held
    <2>2. own[c] = x
      BY <2>1, <1>0 DEF Chain, Ahead
    <2>3. x \in FlitIds
      BY <2>1, <2>2, <1>0 DEF WholeTypes
    <2> DEFINE A == Ahead(n2, h2, own2, c)
    <2>4. A = IF t # <<>> THEN {Head(t)} ELSE B
      BY <1>2 DEF Ahead
    <2> HIDE DEF s, t, B, x
    <2>5. /\ Linked(t, B, FALSE) /\ t \in Seq(FlitIds)
          /\ Meets(x, IF t # <<>> THEN {Head(t)} ELSE B, FALSE)
      <3>1. /\ Linked(Tail(s), B, FALSE) /\ Tail(s) \in Seq(FlitIds)
            /\ Meets(Head(s), IF Tail(s) # <<>> THEN {Head(Tail(s))} ELSE B, FALSE)
        BY ONLY <1>1, <2>1, LinkedTail, HeadTailProperties
      <3> QED BY <2>1, <3>1 DEF x
    <2>6. Meets(x, A, FALSE)
      BY <2>4, <2>5
    <2>7. (\A y \in A : y \in FlitIds) /\ \A y, z \in A : y = z
      <3>1. CASE t # <<>>
        BY <2>4, <2>5, <3>1, HeadTailProperties
      <3>2. CASE t = <<>>
        <4>1. A = B
          BY <2>4, <3>2
        <4>2. CASE c[2] = "LOCAL"
          BY <4>1, <4>2 DEF B, Behind
        <4>3. CASE c[2] # "LOCAL"
          <5> DEFINE o == Other(c)
          <5>1. o \in Buffers
            BY <4>3, OtherEnd
          <5>2. A = After(n, h, own, o)
            BY <4>1, <4>3 DEF B, Behind
          <5>3. n[Out(o)] \in Seq(FlitIds)
            BY <5>1, InOutPlaces, <1>0 DEF WholeTypes
          <5> HIDE DEF o, A
          <5>4. CASE n[Out(o)] # <<>>
            BY <5>2, <5>3, <5>4, HeadTailProperties DEF After
          <5>5. CASE n[Out(o)] = <<>>
            BY <5>1, <5>2, <5>5, <1>0 DEF After, Coming, Holders, Owners, WholeTypes
          <5> QED BY <5>4, <5>5
        <4> QED BY <4>2, <4>3
      <3> QED BY <3>1, <3>2
    <2> HIDE DEF A
    <2>8. CASE Tail1(x)
      <3>1. \A y \in A : y[2] = 1
        <4> TAKE y \in A
        <4>1. y \in FlitIds /\ (Next1(x, y) \/ y[2] = 1)
          BY <2>6, <2>7 DEF Meets
        <4>2. ~Next1(x, y)
          <5>1. y[2] \in 1..y[1].size /\ y[1].size \in Nat /\ x[2] = x[1].size
            BY <2>8, <4>1, RingAssumption DEF FlitIds, Tail1
          <5> QED BY <5>1 DEF Next1
        <4> QED BY <4>1, <4>2
      <3> QED BY <1>2, <2>1, <2>5, <2>8, <3>1 DEF InRight, A, t
    <2>9. CASE ~Tail1(x)
      <3>1. A # {} /\ \A y \in A : Next1(x, y)
        BY <2>6, <2>9 DEF Meets
      <3>2. \A y \in A : y \in FlitIds /\ y = Succ(x)
        BY <2>3, <2>7, <3>1 DEF Next1, Succ, FlitIds
      <3>3. A = {Succ(x)} /\ Succ(x) \in FlitIds
        BY <3>1, <3>2
      <3>4. Succ(x)[2] # 1
        BY <2>3 DEF Succ, FlitIds
      <3> QED BY <1>2, <2>1, <2>2, <2>5, <2>9, <3>3, <3>4 DEF InRight, A, t
    <2> QED BY <2>8, <2>9
  <1> QED BY <1>3, <1>4

LEMMA SwitchChain ==
    ASSUME NEW n, NEW h, NEW own, NEW a, NEW n2, NEW h2, NEW own2, NEW M, NEW i,
           InSwitch(n, h, own, a, n2, h2, own2, M, i)
    PROVE  WholeTypes(n2, h2, own2, a) /\ Chain(n2, h2, own2) /\ Owners(n2, h2, a)
  <1>0. /\ WholeTypes(n, h, own, a) /\ Chain(n, h, own) /\ Owners(n, h, a)
        /\ Switching(n, h, own, n2, h2, own2, M, i)
    BY DEF InSwitch
  <1>1. \A b \in Buffers : SwitchedOut(n, h, own, n2, h2, own2, b)
    BY SwitchOut
  <1>2. \A c \in Buffers : InRight(n2, h2, own2, c)
    BY SwitchIn
  <1>3. n2 \in [Places -> Seq(FlitIds)]
    <2>1. \A w \in Places : n2[w] \in Seq(FlitIds)
      BY <1>1, <1>2, InOutPlaces DEF SwitchedOut, InRight
    <2>2. n2 = [w \in Places |-> n2[w]]
      BY <1>0 DEF Switching
    <2> QED BY <2>1, <2>2
  <1>4. h2 \in [Buffers -> (Ports \X VCs) \cup {NoChannel}]
    BY <1>0 DEF Switching, WholeTypes
  <1>5. WholeTypes(n2, h2, own2, a)
    BY <1>2, <1>3, <1>4, <1>0 DEF InRight, WholeTypes
  <1>6. Chain(n2, h2, own2)
    BY <1>1, <1>2 DEF SwitchedOut, InRight, Chain
  <1>7. Owners(n2, h2, a)
    <2>1. \A c \in Buffers : Held(h2, c) => Held(h, c) /\ To(h2, c) = To(h, c)
      BY <1>0 DEF Switching, Held, To
    <2> QED BY <1>1, <2>1, <1>0 DEF SwitchedOut, Owners
  <1> QED BY <1>5, <1>6, <1>7

\* The switch as a movement of flits.
LEMMA SwitchCarries ==
    ASSUME NEW n, NEW h, NEW own, NEW a, NEW n2, NEW h2, NEW own2, NEW M, NEW i,
           InSwitch(n, h, own, a, n2, h2, own2, M, i),
           NEW G, G = {In(c) : c \in M}, NEW D, D = [w \in G |-> Out(To(h, w[2]))]
    PROVE  /\ Carried(n, n2, G, D)
           /\ \A w \in G : /\ w[2] \in M /\ w = In(w[2]) /\ D[w] = Out(To(h, w[2]))
                           /\ Head(n[w]) = own[w[2]] /\ own[w[2]] \in FlitIds
  <1>0. /\ WholeTypes(n, h, own, a) /\ Chain(n, h, own) /\ Owners(n, h, a)
        /\ Switching(n, h, own, n2, h2, own2, M, i)
    BY DEF InSwitch
  <1>1. \A c \in M : /\ c \in Buffers /\ Held(h, c) /\ n[In(c)] # <<>> /\ To(h, c) \in Buffers
                     /\ n2[In(c)] = Tail(n[In(c)])
                     /\ n2[Out(To(h, c))] = Append(n[Out(To(h, c))], Head(n[In(c)]))
    BY <1>0, ToBuffer DEF Switching, WholeTypes
  <1>2. \A w \in G : w[2] \in M /\ w = In(w[2]) /\ D[w] = Out(To(h, w[2]))
    BY InOutPlaces
  <1>3. \A w \in G : Head(n[w]) = own[w[2]] /\ own[w[2]] \in FlitIds
    <2> SUFFICES ASSUME NEW c \in M PROVE Head(n[In(c)]) = own[c] /\ own[c] \in FlitIds
      BY <1>2
    <2>1. Ahead(n, h, own, c) = {own[c]}
      BY <1>0, <1>1 DEF Chain
    <2> QED BY <1>0, <1>1, <2>1 DEF Ahead, WholeTypes
  <1>4. \A w \in G : n[w] # <<>> /\ n2[w] = Tail(n[w])
    BY <1>1, <1>2
  <1>5. \A w \in G : /\ D[w] \notin G /\ n2[D[w]] = Append(n[D[w]], Head(n[w]))
                     /\ \A v \in G : D[v] = D[w] => v = w
    <2> SUFFICES ASSUME NEW w \in G
                 PROVE  /\ D[w] \notin G /\ n2[D[w]] = Append(n[D[w]], Head(n[w]))
                        /\ \A v \in G : D[v] = D[w] => v = w
      OBVIOUS
    <2>1. D[w] \notin G
      BY <1>2, InOutPlaces
    <2>2. n2[D[w]] = Append(n[D[w]], Head(n[w]))
      BY <1>1, <1>2
    <2>3. ASSUME NEW v \in G, D[v] = D[w] PROVE v = w
      <3>1. To(h, v[2]) = To(h, w[2])
        BY <1>2, <2>3, InOutPlaces
      <3>2. v[2] = w[2]
        BY <1>0, <1>1, <1>2, <3>1 DEF Owners
      <3> QED BY <1>2, <3>2
    <2> QED BY <2>1, <2>2, <2>3
  <1>6. ASSUME NEW v \in Places, v \notin G, \A w \in G : D[w] # v PROVE n2[v] = n[v]
    <2>1. CASE v = In(v[2])
      <3>1. v[2] \in Buffers /\ v[2] \notin M
        BY <1>6, <2>1, InOutPlaces
      <3>2. n2[In(v[2])] = n[In(v[2])]
        BY <1>0, <3>1 DEF Switching
      <3> QED BY <2>1, <3>2
    <2>2. CASE v = Out(v[2])
      <3>1. \A c \in M : To(h, c) # v[2]
        <4> SUFFICES ASSUME NEW c \in M, To(h, c) = v[2] PROVE FALSE
          OBVIOUS
        <4>1. In(c) \in G /\ D[In(c)] = Out(To(h, c))
          BY InOutPlaces
        <4> QED BY <1>6, <2>2, <4>1
      <3> QED BY <1>0, <2>2, <3>1, InOutPlaces DEF Switching
    <2> QED BY <2>1, <2>2, InOutPlaces
  <1>7. G \subseteq Places /\ n2 = [w \in Places |-> n2[w]]
    BY <1>0, <1>1, InOutPlaces DEF Switching
  <1> QED BY <1>2, <1>3, <1>4, <1>5, <1>6, <1>7 DEF Carried

\* Where a flit is after the switch: where it was, or behind the gate it has passed.
Switched1(n, h, own, M, v, x) ==
    \E c \in M : v = Out(To(h, c)) /\ x = own[c] /\ Occurs(x, n[In(c)])
Kept1(n, own, M, v, x) == Occurs(x, n[v]) /\ \A c \in M : v = In(c) => x # own[c]

LEMMA SwitchTravel ==
    ASSUME NEW n, NEW h, NEW own, NEW a, NEW n2, NEW h2, NEW own2, NEW M, NEW i,
           InSwitch(n, h, own, a, n2, h2, own2, M, i),
           OnePlace(n), NoPassing(n), OnRoute(n), Gates(n, h, own)
    PROVE  /\ OnePlace(n2) /\ NoPassing(n2)
           /\ \A v \in Places : \A x : Occurs(x, n2[v]) =>
                    Kept1(n, own, M, v, x) \/ Switched1(n, h, own, M, v, x)
  <1>0. /\ WholeTypes(n, h, own, a) /\ Chain(n, h, own) /\ Owners(n, h, a)
        /\ Switching(n, h, own, n2, h2, own2, M, i)
    BY DEF InSwitch
  <1> DEFINE G == {In(c) : c \in M}  D == [w \in G |-> Out(To(h, w[2]))]
  <1>1. n \in [Places -> Seq(FlitIds)]
    BY <1>0 DEF WholeTypes
  <1> HIDE DEF D, G
  <1>2. /\ Carried(n, n2, G, D)
        /\ \A w \in G : /\ w[2] \in M /\ w = In(w[2]) /\ D[w] = Out(To(h, w[2]))
                        /\ Head(n[w]) = own[w[2]] /\ own[w[2]] \in FlitIds
    BY SwitchCarries DEF D, G
  <1>3. /\ OnePlace(n2)
        /\ \A v \in Places : \A x : Occurs(x, n2[v]) =>
                Stayed(n, G, v, x) \/ \E w \in G : CameFrom(n, D, v, x, w)
    BY <1>1, <1>2, CarriedAll
  <1>4. OneCloser(n, G, D)
    <2> SUFFICES ASSUME NEW w \in G, NEW x, x = Head(n[w])
                 PROVE  /\ Left(x, D[w]) = Left(x, w) - 1
                        /\ \A v \in Places : \A y : Occurs(y, n[v]) /\ y[1] = x[1] /\ y[2] < x[2] =>
                                Left(y, v) <= Left(x, w) - 1
      BY DEF OneCloser
    <2> DEFINE c == w[2]
    <2>1. c \in M /\ w = In(c) /\ D[w] = Out(To(h, c)) /\ x = own[c] /\ x \in FlitIds
      BY <1>2
    <2>2. c \in Buffers /\ Held(h, c)
      BY <1>0, <2>1 DEF Switching
    <2>3. To(h, c)[1] = c[1] /\ In(c) \in Places /\ Out(To(h, c)) \in Places
      BY <1>0, <2>2, ToBuffer, InOutPlaces DEF WholeTypes
    <2>4. Far(x[1], c[1]) \in Nat
      BY <2>1, <2>3, LeftFacts, InOutPlaces
    <2>5. Left(x, w) = 2 * Far(x[1], c[1]) + 1 /\ Left(x, D[w]) = 2 * Far(x[1], c[1]) + 0
      BY <2>1, <2>3, InOutPlaces DEF Left
    <2>6. ASSUME NEW v \in Places, NEW y, Occurs(y, n[v]), y[1] = x[1], y[2] < x[2]
          PROVE  Left(y, v) <= 2 * Far(x[1], c[1])
      BY <2>1, <2>2, <2>6 DEF Gates
    <2> HIDE DEF c
    <2> DEFINE f == Far(x[1], c[1])
    <2>7. f \in Nat /\ 2 * f + 1 - 1 = 2 * f /\ 2 * f + 0 = 2 * f
      BY <2>4
    <2> QED BY <2>5, <2>6, <2>7
  <1>5. NoPassing(n2)
    BY <1>1, <1>2, <1>4, NothingPasses
  <1>6. ASSUME NEW v \in Places, NEW x, Occurs(x, n2[v])
        PROVE  Kept1(n, own, M, v, x) \/ Switched1(n, h, own, M, v, x)
    <2>1. CASE Stayed(n, G, v, x)
      <3>1. \A c \in M : v = In(c) => x # own[c]
        <4> SUFFICES ASSUME NEW c \in M, v = In(c) PROVE x # own[c]
          OBVIOUS
        <4>1. v \in G /\ v[2] = c
          BY InOutPlaces DEF G
        <4> QED BY <1>2, <2>1, <4>1 DEF Stayed
      <3> QED BY <2>1, <3>1 DEF Stayed, Kept1
    <2>2. ASSUME NEW w \in G, CameFrom(n, D, v, x, w) PROVE Switched1(n, h, own, M, v, x)
      BY <1>2, <2>2 DEF CameFrom, Switched1
    <2> QED BY <1>3, <1>6, <2>1, <2>2
  <1> QED BY <1>3, <1>5, <1>6

LEMMA SuccFacts == \A x : Succ(x)[1] = x[1] /\ Succ(x)[2] = x[2] + 1
  BY DEF Succ

LEMMA SwitchGates ==
    ASSUME NEW n, NEW h, NEW own, NEW a, NEW n2, NEW h2, NEW own2, NEW M, NEW i,
           InSwitch(n, h, own, a, n2, h2, own2, M, i),
           OnePlace(n), NoPassing(n), OnRoute(n), Gates(n, h, own)
    PROVE  OnRoute(n2) /\ Gates(n2, h2, own2)
  <1>0. /\ WholeTypes(n, h, own, a) /\ Chain(n, h, own) /\ Owners(n, h, a)
        /\ Switching(n, h, own, n2, h2, own2, M, i)
    BY DEF InSwitch
  <1>1. \A v \in Places : \A x : Occurs(x, n2[v]) =>
            Kept1(n, own, M, v, x) \/ Switched1(n, h, own, M, v, x)
    BY SwitchTravel
  <1>2. \A c \in M : /\ c \in Buffers /\ Held(h, c) /\ c[1] = i /\ To(h, c) \in Buffers
                     /\ To(h, c)[1] = c[1] /\ To(h, c)[2] = h[c][1] /\ own[c] \in FlitIds
    BY <1>0, ToBuffer DEF Switching, WholeTypes
  <1>3. \A c, d \in M : own[c][1] = own[d][1] => c = d
    BY <1>2 DEF Gates
  <1>4. \A c \in Buffers : Held(h2, c) =>
            /\ Held(h, c) /\ To(h2, c) = To(h, c) /\ h2[c] = h[c]
            /\ own2[c] = IF c \in M THEN Succ(own[c]) ELSE own[c]
    BY <1>0 DEF Switching, Held, To
  <1>5. \A c \in Buffers : Held(h2, c) => own2[c][1] = own[c][1]
    <2> SUFFICES ASSUME NEW c \in Buffers, Held(h2, c) PROVE own2[c][1] = own[c][1]
      OBVIOUS
    <2>1. CASE c \in M
      BY <1>4, <2>1, SuccFacts
    <2>2. CASE c \notin M
      BY <1>4, <2>2
    <2> QED BY <2>1, <2>2
  <1>6. OnRoute(n2)
    <2>1. ASSUME NEW b \in Buffers, NEW x, Occurs(x, n2[Out(b)])
          PROVE  Route(b[1], x[1]) = b[2]
      <3>1. CASE Kept1(n, own, M, Out(b), x)
        BY <3>1 DEF Kept1, OnRoute
      <3>2. CASE Switched1(n, h, own, M, Out(b), x)
        BY <1>2, <3>2, InOutPlaces DEF Switched1, Gates
      <3> QED BY <1>1, <2>1, <3>1, <3>2, InOutPlaces
    <2>2. ASSUME NEW b \in Buffers, NEW d \in Buffers, NEW x, NEW y, Occurs(x, n2[Out(b)]),
                 Kept1(n, own, M, Out(d), y), x[1] = y[1], b[1] = d[1]
          PROVE  b = d
      <3>1. CASE Kept1(n, own, M, Out(b), x)
        BY <2>2, <3>1 DEF Kept1, OnRoute
      <3>2. CASE Switched1(n, h, own, M, Out(b), x)
        <4>1. PICK c \in M : Out(b) = Out(To(h, c)) /\ x = own[c]
          BY <3>2 DEF Switched1
        <4>2. b = To(h, c) /\ y[1] = own[c][1] /\ Occurs(y, n[Out(d)]) /\ d[1] = c[1]
          BY <1>2, <2>2, <4>1, InOutPlaces DEF Kept1
        <4> QED BY <1>2, <4>2, InOutPlaces DEF Gates
      <3> QED BY <1>1, <2>2, <3>1, <3>2, InOutPlaces
    <2>3. ASSUME NEW b \in Buffers, NEW d \in Buffers, NEW x, NEW y,
                 Switched1(n, h, own, M, Out(b), x), Switched1(n, h, own, M, Out(d), y),
                 x[1] = y[1]
          PROVE  b = d
      BY <1>2, <1>3, <2>3, InOutPlaces DEF Switched1
    <2>4. ASSUME NEW b \in Buffers, NEW d \in Buffers, NEW x, NEW y, Occurs(x, n2[Out(b)]),
                 Occurs(y, n2[Out(d)]), x[1] = y[1], b[1] = d[1]
          PROVE  b = d
      BY <1>1, <2>2, <2>3, <2>4, InOutPlaces
    <2> QED BY <2>1, <2>4 DEF OnRoute
  <1>7. Gates(n2, h2, own2)
    <2> SUFFICES ASSUME NEW c \in Buffers, Held(h2, c)
                 PROVE  /\ Route(c[1], own2[c][1]) = h2[c][1]
                        /\ \A d \in Buffers :
                             Held(h2, d) /\ c[1] = d[1] /\ own2[c][1] = own2[d][1] => c = d
                        /\ \A w \in Places : \A x : Occurs(x, n2[w]) /\ x[1] = own2[c][1] =>
                             /\ x[2] < own2[c][2] <=> Left(x, w) <= 2 * Far(x[1], c[1])
                             /\ w[1] = "out" /\ w[2][1] = c[1] => w[2] = To(h2, c)
      BY DEF Gates
    <2>1. /\ Held(h, c) /\ To(h2, c) = To(h, c) /\ h2[c] = h[c] /\ own2[c][1] = own[c][1]
          /\ own[c] \in FlitIds /\ c[1] \in Routers
      BY <1>0, <1>4, <1>5 DEF WholeTypes, Buffers
    <2>2. Route(c[1], own2[c][1]) = h2[c][1]
      BY <2>1 DEF Gates
    <2>3. \A d \in Buffers : Held(h2, d) /\ c[1] = d[1] /\ own2[c][1] = own2[d][1] => c = d
      BY <1>4, <1>5, <2>1 DEF Gates
    <2>4. ASSUME NEW w \in Places, NEW x, Occurs(x, n2[w]), x[1] = own[c][1]
          PROVE  /\ x[2] < own2[c][2] <=> Left(x, w) <= 2 * Far(x[1], c[1])
                 /\ w[1] = "out" /\ w[2][1] = c[1] => w[2] = To(h, c)
      <3>1. CASE Kept1(n, own, M, w, x)
        <4>1. /\ x[2] < own[c][2] <=> Left(x, w) <= 2 * Far(x[1], c[1])
              /\ w[1] = "out" /\ w[2][1] = c[1] => w[2] = To(h, c)
          BY <2>1, <2>4, <3>1 DEF Kept1, Gates
        <4>2. CASE c \notin M
          BY <1>4, <4>1, <4>2
        <4>3. CASE c \in M
          <5>1. x \in FlitIds
            <6>1. n[w] \in Seq(FlitIds)
              BY <1>0 DEF WholeTypes
            <6> QED BY <3>1, <6>1, ElementOfSeq DEF Kept1, Occurs
          <5>2. x # own[c]
            <6>1. own[c] = Head(n[In(c)]) /\ n[In(c)] # <<>> /\ n[In(c)] \in Seq(FlitIds)
              <7>1. n[In(c)] # <<>>
                BY <1>0, <4>3 DEF Switching
              <7>2. Ahead(n, h, own, c) = {own[c]}
                BY <1>0, <2>1 DEF Chain
              <7>3. n[In(c)] \in Seq(FlitIds)
                BY <1>0, InOutPlaces DEF WholeTypes
              <7> QED BY <7>1, <7>2, <7>3 DEF Ahead
            <6>2. Occurs(own[c], n[In(c)])
              BY <6>1, OneLess
            <6> QED BY <3>1, <4>3, <6>2, InOutPlaces DEF Kept1, OnePlace
          <5>3. x[2] # own[c][2] /\ x[2] \in Nat /\ own[c][2] \in Nat
            BY <2>1, <2>4, <5>1, <5>2 DEF FlitIds
          <5>4. own2[c][2] = own[c][2] + 1
            BY <1>4, <4>3, SuccFacts
          <5>5. x[2] < own2[c][2] <=> x[2] < own[c][2]
            <6> DEFINE k == x[2]  m == own[c][2]
            <6>1. k \in Nat /\ m \in Nat /\ k # m /\ own2[c][2] = m + 1
              BY <5>3, <5>4
            <6> HIDE DEF k, m
            <6>2. k < m + 1 <=> k < m
              BY <6>1
            <6> QED BY <6>1, <6>2 DEF k, m
          <5> QED BY <4>1, <5>5
        <4> QED BY <4>2, <4>3
      <3>2. CASE Switched1(n, h, own, M, w, x)
        <4>1. PICK d \in M : w = Out(To(h, d)) /\ x = own[d] /\ Occurs(x, n[In(d)])
          BY <3>2 DEF Switched1
        <4>2. /\ d \in Buffers /\ Held(h, d) /\ d[1] \in Routers /\ x \in FlitIds
              /\ w[1] = "out" /\ w[2] = To(h, d) /\ w[2][1] = d[1]
          BY <1>2, <4>1, InOutPlaces DEF Buffers
        <4> DEFINE f == Far(x[1], c[1])  g == Far(x[1], d[1])
        <4>3. f \in Nat /\ g \in Nat /\ (f = g => c[1] = d[1])
          BY <2>1, <4>2, FarFacts DEF FlitIds
        <4>4. Left(x, w) = 2 * g + 0 /\ Left(x, In(d)) = 2 * g + 1
          BY <4>2, InOutPlaces DEF Left
        <4>5. CASE c = d
          <5>1. own2[c][2] = own[c][2] + 1 /\ own[c][2] \in Nat
            BY <1>4, <2>1, <4>5, SuccFacts DEF FlitIds
          <5>2. x[2] < own2[c][2]
            BY <4>1, <4>5, <5>1
          <5>3. Left(x, w) <= 2 * f
            <6> HIDE DEF f, g
            <6>1. f = g
              BY <4>5 DEF f, g
            <6> QED BY <4>3, <4>4, <6>1
          <5> QED BY <4>2, <4>5, <5>2, <5>3
        <4>6. CASE c # d
          <5>1. c[1] # d[1]
            BY <2>1, <2>4, <4>1, <4>2, <4>6 DEF Gates
          <5>2. c \notin M
            BY <1>2, <4>1, <5>1
          <5>3. x[2] < own[c][2] <=> Left(x, In(d)) <= 2 * f
            BY <2>1, <2>4, <4>1, <4>2, InOutPlaces DEF Gates
          <5>4. Left(x, In(d)) <= 2 * f <=> Left(x, w) <= 2 * f
            <6>1. f # g
              BY <4>3, <5>1
            <6> HIDE DEF f, g
            <6> QED BY <4>3, <4>4, <6>1
          <5> QED BY <1>4, <4>2, <5>1, <5>2, <5>3, <5>4
        <4> QED BY <4>5, <4>6
      <3> QED BY <1>1, <2>4, <3>1, <3>2
    <2> QED BY <2>1, <2>2, <2>3, <2>4
  <1> QED BY <1>6, <1>7

--------------------------------------------------------------------------------

\* stage_lt in the same terms: the flits in front of the output channels L cross the link,
\* or leave the network at their client.
Linking(n, a, n2, a2, L) ==
    /\ L \subseteq Buffers /\ n2 = [w \in Places |-> n2[w]]
    /\ \A b \in L : n[Out(b)] # <<>> /\ n2[Out(b)] = Tail(n[Out(b)])
    /\ \A b \in L : b[2] # "LOCAL" =>
            n2[In(Other(b))] = Append(n[In(Other(b))], Head(n[Out(b)]))
    /\ \A b \in Buffers : b \notin L => n2[Out(b)] = n[Out(b)]
    /\ \A c \in Buffers : c[2] = "LOCAL" \/ Other(c) \notin L => n2[In(c)] = n[In(c)]
    /\ a2 = [b \in Buffers |-> a[b] \/ (b \in L /\ Tail1(Head(n[Out(b)])))]
OnLink(n, h, own, a, n2, a2, L) ==
    /\ WholeTypes(n, h, own, a) /\ Chain(n, h, own) /\ Owners(n, h, a)
    /\ Linking(n, a, n2, a2, L)
LinkedOut(n, h, own, n2, a2, L, b) ==
    /\ n2[Out(b)] \in Seq(FlitIds) /\ Linked(n2[Out(b)], Coming(h, own, b), TRUE)
    /\ a2[b] <=> Holders(h, b) = {} /\ n2[Out(b)] = <<>>
    /\ b \in L => /\ After(n, h, own, b) = {Head(n[Out(b)])} /\ Head(n[Out(b)]) \in FlitIds
                  /\ Meets(Head(n[Out(b)]), After(n2, h, own, b), TRUE)
    /\ b \notin L => After(n2, h, own, b) = After(n, h, own, b)

\* What may come next to a channel are flits.
LEMMA ComingFlits ==
    ASSUME NEW n, NEW h, NEW own, NEW a, WholeTypes(n, h, own, a), NEW b
    PROVE  \A y \in Coming(h, own, b) : y \in FlitIds
  BY DEF Coming, Holders, WholeTypes

\* Nothing of the same packet follows a tail.
LEMMA TailEnds ==
    ASSUME NEW x \in FlitIds, Tail1(x), NEW y \in FlitIds
    PROVE  ~Next1(x, y)
  <1>1. y[2] \in 1..y[1].size /\ y[1].size \in Nat /\ x[2] = x[1].size
    BY RingAssumption DEF FlitIds, Tail1
  <1> QED BY <1>1 DEF Next1

LEMMA LinkOut ==
    ASSUME NEW n, NEW h, NEW own, NEW a, NEW n2, NEW a2, NEW L,
           OnLink(n, h, own, a, n2, a2, L), NEW b \in Buffers
    PROVE  LinkedOut(n, h, own, n2, a2, L, b)
  <1>0. /\ WholeTypes(n, h, own, a) /\ Chain(n, h, own) /\ Owners(n, h, a)
        /\ Linking(n, a, n2, a2, L)
    BY DEF OnLink
  <1> DEFINE s == n[Out(b)]  t == n2[Out(b)]  C == Coming(h, own, b)
  <1>1. s \in Seq(FlitIds) /\ Linked(s, C, TRUE)
    BY <1>0, InOutPlaces DEF WholeTypes, Chain
  <1>2. a[b] <=> Holders(h, b) = {} /\ s = <<>>
    BY <1>0 DEF Owners
  <1>3. C = {} <=> Holders(h, b) = {}
    BY DEF Coming
  <1>4. CASE b \in L
    <2> DEFINE x == Head(s)
    <2>1. s # <<>> /\ t = Tail(s) /\ (a2[b] <=> a[b] \/ Tail1(x))
      BY <1>0, <1>4 DEF Linking
    <2>2. After(n2, h, own, b) = IF t # <<>> THEN {Head(t)} ELSE C
      BY DEF After
    <2>3. After(n, h, own, b) = {x}
      BY <2>1 DEF After
    <2> HIDE DEF s, t, x
    <2>4. /\ x \in FlitIds /\ t \in Seq(FlitIds) /\ Linked(t, C, TRUE)
          /\ Meets(x, IF t # <<>> THEN {Head(t)} ELSE C, TRUE)
      <3>1. /\ Linked(Tail(s), C, TRUE) /\ Tail(s) \in Seq(FlitIds) /\ Head(s) \in FlitIds
            /\ Meets(Head(s), IF Tail(s) # <<>> THEN {Head(Tail(s))} ELSE C, TRUE)
        BY ONLY <1>1, <2>1, LinkedTail, HeadTailProperties
      <3> QED BY <2>1, <3>1 DEF x
    <2>5. a2[b] <=> Holders(h, b) = {} /\ t = <<>>
      <3>1. CASE Tail1(x)
        <4>1. t = <<>>
          <5> SUFFICES ASSUME t # <<>> PROVE FALSE
            OBVIOUS
          <5>1. Head(t) \in FlitIds /\ Next1(x, Head(t))
            BY <2>4, HeadTailProperties DEF Meets
          <5> QED BY <2>4, <3>1, <5>1, TailEnds
        <4>2. C = {}
          <5> SUFFICES ASSUME NEW y \in C PROVE FALSE
            OBVIOUS
          <5>1. y \in FlitIds /\ Next1(x, y)
            BY <1>0, <2>4, <4>1, ComingFlits DEF Meets
          <5> QED BY <2>4, <3>1, <5>1, TailEnds
        <4> QED BY <1>3, <2>1, <3>1, <4>1, <4>2
      <3>2. CASE ~Tail1(x)
        <4>1. ~(t = <<>> /\ C = {})
          BY <2>4, <3>2 DEF Meets
        <4> QED BY <1>2, <1>3, <2>1, <3>2, <4>1
      <3> QED BY <3>1, <3>2
    <2> HIDE DEF C
    <2> QED BY <1>4, <2>2, <2>3, <2>4, <2>5 DEF LinkedOut, s, t, x, C
  <1>5. CASE b \notin L
    <2>1. t = s /\ (a2[b] <=> a[b])
      BY <1>0, <1>5 DEF Linking, WholeTypes
    <2> QED BY <1>1, <1>2, <1>5, <2>1 DEF LinkedOut, After
  <1> QED BY <1>4, <1>5

LEMMA LinkIn ==
    ASSUME NEW n, NEW h, NEW own, NEW a, NEW n2, NEW a2, NEW L,
           OnLink(n, h, own, a, n2, a2, L), NEW c \in Buffers
    PROVE  InRight(n2, h, own, c)
  <1>0. /\ WholeTypes(n, h, own, a) /\ Chain(n, h, own) /\ Owners(n, h, a)
        /\ Linking(n, a, n2, a2, L)
    BY DEF OnLink
  <1> DEFINE s == n[In(c)]  t == n2[In(c)]  B == Behind(n, h, own, c)  b == Other(c)
  <1>1. s \in Seq(FlitIds) /\ Linked(s, B, FALSE)
    BY <1>0, InOutPlaces DEF WholeTypes, Chain
  <1>2. /\ t \in Seq(FlitIds) /\ Linked(t, Behind(n2, h, own, c), FALSE)
        /\ Ahead(n2, h, own, c) = Ahead(n, h, own, c) /\ (s # <<>> => t # <<>>)
    <2>1. CASE c[2] # "LOCAL" /\ b \in L
      <3>1. b \in Buffers /\ b[2] # "LOCAL" /\ Other(b) = c
        BY <2>1, OtherEnd
      <3>2. LinkedOut(n, h, own, n2, a2, L, b)
        BY <3>1, LinkOut
      <3> DEFINE x == Head(n[Out(b)])  A == After(n2, h, own, b)
      <3>3. t = Append(s, x)
        BY <1>0, <2>1, <3>1 DEF Linking
      <3>4. x \in FlitIds /\ B = {x} /\ Meets(x, A, TRUE)
        BY <2>1, <3>2 DEF LinkedOut, Behind
      <3>5. Behind(n2, h, own, c) = A
        BY <2>1 DEF Behind
      <3>6. Ahead(n, h, own, c) = IF s # <<>> THEN {Head(s)} ELSE B
        BY DEF Ahead
      <3>7. Ahead(n2, h, own, c) = IF t # <<>> THEN {Head(t)} ELSE A
        BY <3>5 DEF Ahead
      <3> HIDE DEF x, A, s, t, B, b
      <3>8. Meets(x, A, FALSE)
        BY <3>4 DEF Meets
      <3>9. Linked(s, {x}, FALSE)
        BY <1>1, <3>4
      <3>10. Linked(t, A, FALSE) /\ t \in Seq(FlitIds)
        BY ONLY <1>1, <3>3, <3>4, <3>8, <3>9, LinkedAppend
      <3>11. t # <<>> /\ Head(t) = IF s = <<>> THEN x ELSE Head(s)
        BY ONLY <1>1, <3>3, <3>4, AppendProperties
      <3> QED BY <3>4, <3>5, <3>6, <3>7, <3>10, <3>11
    <2>2. CASE ~(c[2] # "LOCAL" /\ b \in L)
      <3>1. t = s
        BY <1>0, <2>2 DEF Linking
      <3>2. Behind(n2, h, own, c) = B
        <4>1. CASE c[2] # "LOCAL"
          <5>1. b \in Buffers /\ b \notin L
            BY <2>2, <4>1, OtherEnd
          <5>2. LinkedOut(n, h, own, n2, a2, L, b)
            BY <5>1, LinkOut
          <5> QED BY <4>1, <5>1, <5>2 DEF LinkedOut, Behind
        <4> QED BY <4>1 DEF Behind
      <3> QED BY <1>1, <3>1, <3>2 DEF Ahead
    <2> QED BY <2>1, <2>2
  <1> QED BY <1>0, <1>2 DEF InRight, Chain, WholeTypes

LEMMA LinkChain ==
    ASSUME NEW n, NEW h, NEW own, NEW a, NEW n2, NEW a2, NEW L,
           OnLink(n, h, own, a, n2, a2, L)
    PROVE  WholeTypes(n2, h, own, a2) /\ Chain(n2, h, own) /\ Owners(n2, h, a2)
  <1>0. /\ WholeTypes(n, h, own, a) /\ Chain(n, h, own) /\ Owners(n, h, a)
        /\ Linking(n, a, n2, a2, L)
    BY DEF OnLink
  <1>1. \A b \in Buffers : LinkedOut(n, h, own, n2, a2, L, b)
    BY LinkOut
  <1>2. \A c \in Buffers : InRight(n2, h, own, c)
    BY LinkIn
  <1>3. n2 \in [Places -> Seq(FlitIds)]
    <2>1. \A w \in Places : n2[w] \in Seq(FlitIds)
      <3>1. \A b \in Buffers : n2[Out(b)] \in Seq(FlitIds)
        BY <1>1 DEF LinkedOut
      <3>2. \A b \in Buffers : n2[In(b)] \in Seq(FlitIds)
        BY <1>2 DEF InRight
      <3> QED BY <3>1, <3>2, InOutPlaces
    <2>2. n2 = [w \in Places |-> n2[w]]
      BY <1>0 DEF Linking
    <2> QED BY <2>1, <2>2
  <1>4. a2 \in [Buffers -> BOOLEAN]
    BY <1>0 DEF Linking, WholeTypes
  <1>5. WholeTypes(n2, h, own, a2)
    BY <1>0, <1>3, <1>4 DEF WholeTypes
  <1>6. Chain(n2, h, own)
    BY <1>1, <1>2 DEF LinkedOut, InRight, Chain
  <1>7. Owners(n2, h, a2)
    BY <1>0, <1>1 DEF LinkedOut, Owners
  <1> QED BY <1>5, <1>6, <1>7

\* The link as a movement of flits.
Beyond1(b) == IF b[2] = "LOCAL" THEN <<"client", b>> ELSE In(Other(b))
Links(L) == {Out(b) : b \in L}
Ways1(L) == [w \in Links(L) |-> Beyond1(w[2])]
LinkMoves(n, n2, L, G, D) ==
    /\ Carried(n, n2, G, D)
    /\ \A w \in G : /\ w[2] \in L /\ w[2] \in Buffers /\ w = Out(w[2])
                    /\ D[w] = Beyond1(w[2]) /\ Head(n[w]) \in FlitIds
                    /\ D[w] \in Places <=> w[2][2] # "LOCAL"

LEMMA LinkCarries ==
    ASSUME NEW n, NEW h, NEW own, NEW a, NEW n2, NEW a2, NEW L,
           OnLink(n, h, own, a, n2, a2, L)
    PROVE  LinkMoves(n, n2, L, Links(L), Ways1(L))
  <1> DEFINE G == Links(L)  D == Ways1(L)
  <1>g. G = {Out(b) : b \in L} /\ D = [w \in G |-> Beyond1(w[2])]
    BY DEF Links, Ways1
  <1> HIDE DEF G, D
  <1>0. /\ WholeTypes(n, h, own, a) /\ Chain(n, h, own) /\ Owners(n, h, a)
        /\ Linking(n, a, n2, a2, L)
    BY DEF OnLink
  <1>1. \A w \in G : w[2] \in L /\ w[2] \in Buffers /\ w = Out(w[2]) /\ D[w] = Beyond1(w[2])
    BY <1>0, <1>g, InOutPlaces DEF Linking
  <1>2. \A b \in Buffers : Beyond1(b) \in Places <=> b[2] # "LOCAL"
    <2> SUFFICES ASSUME NEW b \in Buffers PROVE Beyond1(b) \in Places <=> b[2] # "LOCAL"
      OBVIOUS
    <2>1. CASE b[2] = "LOCAL"
      BY <2>1 DEF Beyond1, Places
    <2>2. CASE b[2] # "LOCAL"
      BY <2>2, OtherEnd, InOutPlaces DEF Beyond1
    <2> QED BY <2>1, <2>2
  <1>3. \A b \in Buffers : b[2] # "LOCAL" =>
            Beyond1(b) = In(Other(b)) /\ Other(b) \in Buffers /\ Other(Other(b)) = b
            /\ Other(b)[2] # "LOCAL"
    BY OtherEnd DEF Beyond1
  <1>4. \A w \in G : n[w] # <<>> /\ n2[w] = Tail(n[w]) /\ Head(n[w]) \in FlitIds
    <2> SUFFICES ASSUME NEW w \in G
                 PROVE  n[w] # <<>> /\ n2[w] = Tail(n[w]) /\ Head(n[w]) \in FlitIds
      OBVIOUS
    <2> DEFINE b == w[2]
    <2>1. b \in L /\ b \in Buffers /\ w = Out(b)
      BY <1>1
    <2>2. n[Out(b)] # <<>> /\ n2[Out(b)] = Tail(n[Out(b)])
      BY <1>0, <2>1 DEF Linking
    <2>3. n[w] \in Seq(FlitIds)
      BY <1>0, <2>1, InOutPlaces DEF WholeTypes
    <2> QED BY <2>1, <2>2, <2>3, HeadTailProperties
  <1>5. \A w \in G : D[w] \in Places =>
            /\ D[w] \notin G /\ n2[D[w]] = Append(n[D[w]], Head(n[w]))
            /\ \A v \in G : D[v] = D[w] => v = w
    <2> SUFFICES ASSUME NEW w \in G, D[w] \in Places
                 PROVE  /\ D[w] \notin G /\ n2[D[w]] = Append(n[D[w]], Head(n[w]))
                        /\ \A v \in G : D[v] = D[w] => v = w
      OBVIOUS
    <2>1. w[2][2] # "LOCAL" /\ D[w] = In(Other(w[2])) /\ Other(Other(w[2])) = w[2]
      BY <1>1, <1>2, <1>3
    <2>2. D[w] \notin G
      BY <1>1, <2>1, InOutPlaces
    <2>3. n2[D[w]] = Append(n[D[w]], Head(n[w]))
      <3>1. w[2] \in L /\ w = Out(w[2])
        BY <1>1
      <3> QED BY <1>0, <2>1, <3>1 DEF Linking
    <2>4. ASSUME NEW v \in G, D[v] = D[w] PROVE v = w
      <3>1. v[2][2] # "LOCAL" /\ D[v] = In(Other(v[2])) /\ Other(Other(v[2])) = v[2]
        BY <1>1, <1>2, <1>3, <2>4
      <3>2. Other(v[2]) = Other(w[2])
        <4>1. In(Other(v[2])) = In(Other(w[2]))
          BY <2>1, <2>4, <3>1
        <4> QED BY ONLY <4>1, InOutPlaces
      <3>3. v[2] = w[2]
        BY <2>1, <3>1, <3>2
      <3> QED BY <1>1, <3>3
    <2> QED BY <2>2, <2>3, <2>4
  <1>6. ASSUME NEW v \in Places, v \notin G, \A w \in G : D[w] # v PROVE n2[v] = n[v]
    <2>1. CASE v = Out(v[2])
      <3>1. v[2] \in Buffers /\ v[2] \notin L
        BY <1>6, <1>g, <2>1, InOutPlaces
      <3>2. n2[Out(v[2])] = n[Out(v[2])]
        BY <1>0, <3>1 DEF Linking
      <3> QED BY <2>1, <3>2
    <2>2. CASE v = In(v[2])
      <3> DEFINE c == v[2]  b == Other(c)
      <3>1. c \in Buffers
        BY InOutPlaces
      <3>2. ~(c[2] # "LOCAL" /\ b \in L)
        <4> SUFFICES ASSUME c[2] # "LOCAL", b \in L PROVE FALSE
          OBVIOUS
        <4>1. b \in Buffers /\ b[2] # "LOCAL" /\ Other(b) = c
          BY <3>1, OtherEnd
        <4>2. Beyond1(b) = v
          BY <2>2, <4>1 DEF Beyond1
        <4>3. Out(b) \in G /\ Out(b)[2] = b
          BY <1>g, InOutPlaces
        <4>4. D[Out(b)] = v
          BY <1>1, <4>2, <4>3
        <4> QED BY <1>6, <4>3, <4>4
      <3>3. n2[In(c)] = n[In(c)]
        BY <1>0, <3>1, <3>2 DEF Linking
      <3> QED BY <2>2, <3>3
    <2> QED BY <2>1, <2>2, InOutPlaces
  <1>7. G \subseteq Places /\ n2 = [w \in Places |-> n2[w]]
    BY <1>0, <1>g, InOutPlaces DEF Linking
  <1>8. Carried(n, n2, G, D)
    BY <1>4, <1>5, <1>6, <1>7 DEF Carried
  <1>9. LinkMoves(n, n2, L, G, D)
    BY <1>1, <1>2, <1>4, <1>8 DEF LinkMoves
  <1> QED BY <1>9 DEF G, D

\* The flits of a packet are in a channel in their order: none before the one in front.
LEMMA FrontFirst ==
    ASSUME NEW n, NEW h, NEW own, NEW a, WholeTypes(n, h, own, a), Chain(n, h, own),
           NEW b \in Buffers, NEW y, Occurs(y, n[Out(b)])
    PROVE  LET x == Head(n[Out(b)]) IN y[1] = x[1] /\ y[2] >= x[2]
  <1> DEFINE s == n[Out(b)]
  <1>1. s \in Seq(FlitIds) /\ Linked(s, Coming(h, own, b), TRUE)
    BY InOutPlaces DEF WholeTypes, Chain
  <1>2. PICK k \in 1..Len(s) : s[k] = y
    BY DEF Occurs
  <1> HIDE DEF s
  <1>3. \A j \in 1..Len(s) : s[j][1] = s[1][1] /\ s[j][2] = s[1][2] + j - 1
    BY <1>1, LinkedAscends
  <1>4. s[k][1] = s[1][1] /\ s[k][2] = s[1][2] + k - 1
    BY <1>3
  <1>5. s # <<>> /\ Head(s) = s[1] /\ Len(s) \in Nat /\ 1 \in 1..Len(s)
    BY <1>1, <1>2, LenProperties, HeadTailProperties, EmptySeq
  <1>6. s[1][2] \in Nat
    BY <1>1, <1>5, ElementOfSeq DEF FlitIds
  <1> DEFINE m == s[1][2]
  <1>7. m \in Nat /\ y[2] = m + k - 1 /\ k \in Nat /\ k >= 1
    BY <1>2, <1>4, <1>6, <1>5
  <1> HIDE DEF m
  <1>8. y[2] >= m
    BY <1>7
  <1> QED BY <1>2, <1>4, <1>5, <1>8 DEF m, s

\* Where a flit is after the link: where it was, or one link further.
Linked1(n, L, v, x) ==
    \E b \in L : b[2] # "LOCAL" /\ v = In(Other(b)) /\ x = Head(n[Out(b)]) /\ Occurs(x, n[Out(b)])
Kept2(n, L, v, x) == Occurs(x, n[v]) /\ \A b \in L : v = Out(b) => x # Head(n[Out(b)])

LEMMA LinkTravel ==
    ASSUME NEW n, NEW h, NEW own, NEW a, NEW n2, NEW a2, NEW L,
           OnLink(n, h, own, a, n2, a2, L), OnePlace(n), NoPassing(n), OnRoute(n)
    PROVE  /\ OnePlace(n2) /\ NoPassing(n2)
           /\ \A v \in Places : \A x : Occurs(x, n2[v]) =>
                    Kept2(n, L, v, x) \/ Linked1(n, L, v, x)
  <1>0. /\ WholeTypes(n, h, own, a) /\ Chain(n, h, own) /\ Owners(n, h, a)
        /\ Linking(n, a, n2, a2, L)
    BY DEF OnLink
  <1> DEFINE G == Links(L)  D == Ways1(L)
  <1>1. n \in [Places -> Seq(FlitIds)]
    BY <1>0 DEF WholeTypes
  <1>m. LinkMoves(n, n2, L, G, D)
    BY LinkCarries
  <1>g. G = {Out(b) : b \in L}
    BY DEF Links
  <1> HIDE DEF D, G
  <1>2. /\ Carried(n, n2, G, D)
        /\ \A w \in G : /\ w[2] \in L /\ w[2] \in Buffers /\ w = Out(w[2])
                        /\ D[w] = Beyond1(w[2]) /\ Head(n[w]) \in FlitIds
                        /\ D[w] \in Places <=> w[2][2] # "LOCAL"
    BY <1>m DEF LinkMoves
  <1>3. /\ OnePlace(n2)
        /\ \A v \in Places : \A x : Occurs(x, n2[v]) =>
                Stayed(n, G, v, x) \/ \E w \in G : CameFrom(n, D, v, x, w)
    BY <1>1, <1>2, CarriedAll
  <1>4. OneCloser(n, G, D)
    <2> SUFFICES ASSUME NEW w \in G, NEW x, x = Head(n[w]), D[w] \in Places
                 PROVE  /\ Left(x, D[w]) = Left(x, w) - 1
                        /\ \A v \in Places : \A y : Occurs(y, n[v]) /\ y[1] = x[1] /\ y[2] < x[2] =>
                                Left(y, v) <= Left(x, w) - 1
      BY DEF OneCloser
    <2> DEFINE b == w[2]  f == Far(x[1], b[1])
    <2>1. b \in L /\ b \in Buffers /\ w = Out(b) /\ D[w] = In(Other(b)) /\ x \in FlitIds /\ b[2] # "LOCAL"
      BY <1>2 DEF Beyond1
    <2>2. Occurs(x, n[w]) /\ w \in Places
      <3>1. n[w] \in Seq(FlitIds) /\ n[w] # <<>> /\ w \in Places
        BY <1>1, <1>2 DEF Carried
      <3> QED BY <3>1, OneLess
    <2>3. Other(b) \in Buffers /\ In(Other(b)) \in Places /\ Out(b) \in Places
      BY <2>1, OtherEnd, InOutPlaces
    <2>4. Far(x[1], Other(b)[1]) = f - 1
      <3>1. x[1] \in Packets /\ Route(b[1], x[1]) = b[2]
        BY <2>1, <2>2 DEF OnRoute, FlitIds
      <3> QED BY <2>1, <3>1, FarGoesDown
    <2>5. f \in Nat
      BY <2>1, <2>3, LeftFacts, InOutPlaces
    <2>6. Left(x, w) = 2 * f + 0 /\ Left(x, D[w]) = 2 * (f - 1) + 1
      BY <2>1, <2>3, <2>4, InOutPlaces DEF Left
    <2>7. ASSUME NEW v \in Places, NEW y, Occurs(y, n[v]), y[1] = x[1], y[2] < x[2]
          PROVE  Left(y, v) <= 2 * f - 1
      <3>1. Left(y, v) <= Left(x, w)
        BY <2>2, <2>7 DEF NoPassing
      <3>2. y \in FlitIds
        BY <1>1, <2>7, ElementOfSeq DEF Occurs
      <3>3. Left(y, v) # 2 * f
        <4> SUFFICES ASSUME Left(y, v) = 2 * f PROVE FALSE
          OBVIOUS
        <4> DEFINE g == Far(y[1], v[2][1])
        <4>1. g \in Nat /\ v[2][1] \in Routers /\ x[1] \in Packets
          BY <3>2, <2>7, LeftFacts
        <4>2. Left(y, v) = 2 * g + (IF v[1] = "in" THEN 1 ELSE 0)
          BY DEF Left
        <4>3. v[1] # "in" /\ g = f
          <5> HIDE DEF f, g
          <5> QED BY <2>5, <4>1, <4>2
        <4>4. v[2][1] = b[1]
          <5>1. b[1] \in Routers
            BY <2>1 DEF Buffers
          <5> QED BY <2>7, <4>1, <4>3, <5>1, FarFacts
        <4>5. v = Out(v[2]) /\ v[2] \in Buffers
          BY <4>3, InOutPlaces
        <4>6. v[2] = b
          BY <2>1, <2>2, <2>7, <4>4, <4>5 DEF OnRoute
        <4>7. y[2] >= x[2]
          BY <1>0, <2>1, <2>7, <4>5, <4>6, FrontFirst
        <4>8. y[2] \in Nat /\ x[2] \in Nat
          BY <2>1, <3>2 DEF FlitIds
        <4> QED BY <2>7, <4>7, <4>8
      <3>4. Left(y, v) \in Nat
        BY <3>2, LeftFacts
      <3> HIDE DEF f
      <3> QED BY <2>5, <2>6, <3>1, <3>3, <3>4
    <2> HIDE DEF b, f
    <2>8. 2 * (f - 1) + 1 = (2 * f + 0) - 1 /\ 2 * f - 1 = (2 * f + 0) - 1
      BY <2>5
    <2> QED BY <2>6, <2>7, <2>8
  <1>5. NoPassing(n2)
    BY <1>1, <1>2, <1>3, <1>4, NothingPasses
  <1>6. ASSUME NEW v \in Places, NEW x, Occurs(x, n2[v])
        PROVE  Kept2(n, L, v, x) \/ Linked1(n, L, v, x)
    <2>1. CASE Stayed(n, G, v, x)
      <3>1. \A b \in L : v = Out(b) => x # Head(n[Out(b)])
        <4> SUFFICES ASSUME NEW b \in L, v = Out(b) PROVE x # Head(n[Out(b)])
          OBVIOUS
        <4>1. v \in G
          BY <1>g
        <4> QED BY <2>1, <4>1 DEF Stayed
      <3> QED BY <2>1, <3>1 DEF Stayed, Kept2
    <2>2. ASSUME NEW w \in G, CameFrom(n, D, v, x, w) PROVE Linked1(n, L, v, x)
      <3>1. w[2] \in L /\ w[2][2] # "LOCAL" /\ v = In(Other(w[2])) /\ w = Out(w[2])
        BY <1>2, <2>2 DEF CameFrom, Beyond1
      <3> QED BY <2>2, <3>1 DEF CameFrom, Linked1
    <2> QED BY <1>3, <1>6, <2>1, <2>2
  <1> QED BY <1>3, <1>5, <1>6

LEMMA LinkGates ==
    ASSUME NEW n, NEW h, NEW own, NEW a, NEW n2, NEW a2, NEW L,
           OnLink(n, h, own, a, n2, a2, L), OnePlace(n), NoPassing(n), OnRoute(n),
           Gates(n, h, own)
    PROVE  OnRoute(n2) /\ Gates(n2, h, own)
  <1>0. /\ WholeTypes(n, h, own, a) /\ Chain(n, h, own) /\ Owners(n, h, a)
        /\ Linking(n, a, n2, a2, L)
    BY DEF OnLink
  <1>1. \A v \in Places : \A x : Occurs(x, n2[v]) => Kept2(n, L, v, x) \/ Linked1(n, L, v, x)
    BY LinkTravel
  <1>2. \A b \in Buffers : \A x : Occurs(x, n2[Out(b)]) => Occurs(x, n[Out(b)])
    <2> SUFFICES ASSUME NEW b \in Buffers, NEW x, Occurs(x, n2[Out(b)])
                 PROVE  Occurs(x, n[Out(b)])
      OBVIOUS
    <2>1. Out(b) \in Places /\ ~Linked1(n, L, Out(b), x)
      BY InOutPlaces DEF Linked1
    <2> QED BY <1>1, <2>1 DEF Kept2
  <1>3. OnRoute(n2)
    BY <1>2 DEF OnRoute
  <1>4. ASSUME NEW c \in Buffers, Held(h, c), NEW w \in Places, NEW x, Occurs(x, n2[w]),
               x[1] = own[c][1]
        PROVE  /\ x[2] < own[c][2] <=> Left(x, w) <= 2 * Far(x[1], c[1])
               /\ w[1] = "out" /\ w[2][1] = c[1] => w[2] = To(h, c)
    <2>1. CASE Kept2(n, L, w, x)
      BY <1>4, <2>1 DEF Kept2, Gates
    <2>2. CASE Linked1(n, L, w, x)
      <3>1. PICK b \in L : b[2] # "LOCAL" /\ w = In(Other(b)) /\ Occurs(x, n[Out(b)])
        BY <2>2 DEF Linked1
      <3>2. b \in Buffers /\ w[1] = "in" /\ w[2] = Other(b) /\ Out(b) \in Places
        BY <1>0, <3>1, InOutPlaces DEF Linking
      <3>3. x[2] < own[c][2] <=> Left(x, Out(b)) <= 2 * Far(x[1], c[1])
        BY <1>4, <3>1, <3>2 DEF Gates
      <3>4. x \in FlitIds /\ c[1] \in Routers
        <4>1. n[Out(b)] \in Seq(FlitIds)
          BY <1>0, <3>2 DEF WholeTypes
        <4> QED BY <3>1, <4>1, ElementOfSeq DEF Occurs, Buffers
      <3> DEFINE f == Far(x[1], c[1])  g == Far(x[1], b[1])
      <3>5. f \in Nat /\ g \in Nat
        <4>1. b[1] \in Routers /\ x[1] \in Packets
          BY <3>2, <3>4 DEF Buffers, FlitIds
        <4> QED BY <3>4, <4>1, FarFacts
      <3>6. Far(x[1], Other(b)[1]) = g - 1
        <4>1. x[1] \in Packets /\ Route(b[1], x[1]) = b[2]
          BY <3>1, <3>2, <3>4 DEF OnRoute, FlitIds
        <4> QED BY <3>1, <3>2, <4>1, FarGoesDown
      <3>7. Left(x, Out(b)) = 2 * g + 0 /\ Left(x, w) = 2 * (g - 1) + 1
        BY <3>2, <3>6, InOutPlaces DEF Left
      <3> HIDE DEF f, g
      <3>8. 2 * g + 0 <= 2 * f <=> 2 * (g - 1) + 1 <= 2 * f
        BY <3>5
      <3> QED BY <3>2, <3>3, <3>7, <3>8 DEF f
    <2> QED BY <1>1, <1>4, <2>1, <2>2
  <1>5. Gates(n2, h, own)
    BY <1>4 DEF Gates
  <1> QED BY <1>3, <1>5

\* With its tail the whole packet has left the network.
LEMMA LinkEmpties ==
    ASSUME NEW n, NEW h, NEW own, NEW a, NEW n2, NEW a2, NEW L,
           OnLink(n, h, own, a, n2, a2, L), OnePlace(n), NoPassing(n), OnRoute(n),
           NEW b \in L, b[2] = "LOCAL", NEW x, x = Head(n[Out(b)]), Tail1(x)
    PROVE  /\ x \in FlitIds /\ Occurs(x, n[Out(b)]) /\ Route(b[1], x[1]) = "LOCAL"
           /\ x[1] \notin Moving(n2)
  <1>0. /\ WholeTypes(n, h, own, a) /\ Chain(n, h, own) /\ Owners(n, h, a)
        /\ Linking(n, a, n2, a2, L)
    BY DEF OnLink
  <1>1. \A v \in Places : \A y : Occurs(y, n2[v]) => Kept2(n, L, v, y) \/ Linked1(n, L, v, y)
    BY LinkTravel
  <1>2. b \in Buffers /\ Out(b) \in Places /\ n[Out(b)] \in Seq(FlitIds) /\ n[Out(b)] # <<>>
    BY <1>0, InOutPlaces DEF Linking, WholeTypes
  <1>3. x \in FlitIds /\ Occurs(x, n[Out(b)])
    BY <1>2, OneLess, HeadTailProperties
  <1>4. Route(b[1], x[1]) = "LOCAL"
    BY <1>2, <1>3 DEF OnRoute
  <1>5. ASSUME NEW v \in Places, NEW y, Occurs(y, n2[v]), y[1] = x[1] PROVE FALSE
    <2>1. PICK w \in Places : Occurs(y, n[w])
      <3>1. ASSUME NEW d \in L, Occurs(y, n[Out(d)]) PROVE \E w \in Places : Occurs(y, n[w])
        BY <1>0, <3>1, InOutPlaces DEF Linking
      <3> QED BY <1>1, <1>5, <3>1 DEF Kept2, Linked1
    <2>2. y \in FlitIds
      <3>1. n[w] \in Seq(FlitIds)
        BY <1>0 DEF WholeTypes
      <3> QED BY <2>1, <3>1, ElementOfSeq DEF Occurs
    <2>3. y # x
      <3> SUFFICES ASSUME y = x PROVE FALSE
        OBVIOUS
      <3>1. CASE Kept2(n, L, v, y)
        BY <1>2, <1>3, <3>1, InOutPlaces DEF Kept2, OnePlace
      <3>2. CASE Linked1(n, L, v, y)
        <4>1. PICK d \in L : d[2] # "LOCAL" /\ Occurs(x, n[Out(d)])
          BY <3>2 DEF Linked1
        <4>2. Out(d) \in Places
          BY <1>0, InOutPlaces DEF Linking
        <4>3. Out(d) = Out(b)
          BY <1>2, <1>3, <4>1, <4>2 DEF OnePlace
        <4> QED BY <4>1, <4>3, InOutPlaces
      <3> QED BY <1>1, <1>5, <3>1, <3>2
    <2>4. y[2] < x[2]
      <3>1. y[2] # x[2]
        BY <1>3, <1>5, <2>2, <2>3 DEF FlitIds
      <3>2. y[2] \in 1..y[1].size /\ y[1].size \in Nat /\ x[2] = x[1].size
        BY <2>2, RingAssumption DEF FlitIds, Tail1
      <3> QED BY <1>5, <3>1, <3>2
    <2>5. Left(y, w) <= Left(x, Out(b))
      BY <1>2, <1>3, <1>5, <2>1, <2>4 DEF NoPassing
    <2>6. Left(x, Out(b)) = 0
      <3>1. x[1] \in Packets /\ b[1] \in Routers
        BY <1>2, <1>3 DEF FlitIds, Buffers
      <3>2. Far(x[1], b[1]) = 0
        BY <1>4, <3>1, RouteEnds
      <3> QED BY <3>2, InOutPlaces DEF Left
    <2> DEFINE g == Far(y[1], w[2][1])
    <2>7. g \in Nat /\ w[2][1] \in Routers /\ y[1] \in Packets
      BY <2>2, LeftFacts
    <2>8. w[1] # "in" /\ g = 0
      <3>1. 2 * g + (IF w[1] = "in" THEN 1 ELSE 0) <= 0
        BY <2>5, <2>6 DEF Left
      <3> HIDE DEF g
      <3> QED BY <2>7, <3>1
    <2>9. w[2][1] = b[1] /\ w = Out(w[2]) /\ w[2] \in Buffers
      <3>1. b[1] \in Routers
        BY <1>2 DEF Buffers
      <3>2. Far(x[1], b[1]) = 0
        BY <1>4, <1>5, <2>7, <3>1, RouteEnds
      <3> QED BY <1>5, <2>7, <2>8, <3>1, <3>2, FarFacts, InOutPlaces
    <2>10. w[2] = b
      BY <1>2, <1>3, <1>5, <2>1, <2>9 DEF OnRoute
    <2>11. y[2] >= x[2]
      BY <1>0, <1>2, <2>1, <2>9, <2>10, FrontFirst
    <2>12. y[2] \in Nat /\ x[2] \in Nat
      BY <1>3, <2>2 DEF FlitIds
    <2> QED BY <2>4, <2>11, <2>12
  <1>6. n2 \in [Places -> Seq(FlitIds)]
    <2>1. WholeTypes(n2, h, own, a2)
      BY LinkChain
    <2> QED BY <2>1 DEF WholeTypes
  <1>7. x[1] \notin Moving(n2)
    BY <1>5, <1>6, MovingFlit
  <1> QED BY <1>3, <1>4, <1>7

--------------------------------------------------------------------------------

\* What the switch and the link leave of the invariant.
LEMMA SwitchWhole ==
    ASSUME NEW n, NEW h, NEW own, NEW a, NEW n2, NEW h2, NEW own2, NEW M, NEW i,
           WholeNet(n, h, own, a), Switching(n, h, own, n2, h2, own2, M, i)
    PROVE  /\ WholeNet(n2, h2, own2, a) /\ Moving(n2) \subseteq Moving(n)
           /\ \A c \in Buffers : Held(h2, c) => Held(h, c) /\ own2[c][1] = own[c][1]
  <1>1. InSwitch(n, h, own, a, n2, h2, own2, M, i)
    BY DEF InSwitch, WholeNet
  <1>2. OnePlace(n) /\ NoPassing(n) /\ OnRoute(n) /\ Gates(n, h, own) /\ WholeTypes(n, h, own, a)
    BY DEF WholeNet
  <1>3. WholeTypes(n2, h2, own2, a) /\ Chain(n2, h2, own2) /\ Owners(n2, h2, a)
    BY <1>1, SwitchChain
  <1>4. /\ OnePlace(n2) /\ NoPassing(n2)
        /\ \A v \in Places : \A x : Occurs(x, n2[v]) =>
                Kept1(n, own, M, v, x) \/ Switched1(n, h, own, M, v, x)
    BY <1>1, <1>2, SwitchTravel
  <1>5. OnRoute(n2) /\ Gates(n2, h2, own2)
    BY <1>1, <1>2, SwitchGates
  <1>6. Moving(n2) \subseteq Moving(n)
    <2>1. n \in [Places -> Seq(FlitIds)] /\ n2 \in [Places -> Seq(FlitIds)]
      BY <1>2, <1>3 DEF WholeTypes
    <2>2. \A v \in Places : \A x : Occurs(x, n2[v]) => \E w \in Places : Occurs(x, n[w])
      <3> SUFFICES ASSUME NEW v \in Places, NEW x, Occurs(x, n2[v])
                   PROVE  \E w \in Places : Occurs(x, n[w])
        OBVIOUS
      <3>1. ASSUME NEW c \in M, Occurs(x, n[In(c)]) PROVE \E w \in Places : Occurs(x, n[w])
        BY <3>1, InOutPlaces DEF Switching
      <3> QED BY <1>4, <3>1 DEF Kept1, Switched1
    <2> SUFFICES ASSUME NEW p \in Moving(n2) PROVE p \in Moving(n)
      OBVIOUS
    <2>3. PICK v \in Places : \E x : Occurs(x, n2[v]) /\ x[1] = p
      BY <2>1, MovingFlit
    <2>4. \E w \in Places : \E x : Occurs(x, n[w]) /\ x[1] = p
      BY <2>2, <2>3
    <2> QED BY <2>1, <2>4, MovingFlit
  <1>7. \A c \in Buffers : Held(h2, c) => Held(h, c) /\ own2[c][1] = own[c][1]
    <2> SUFFICES ASSUME NEW c \in Buffers, Held(h2, c)
                 PROVE  Held(h, c) /\ own2[c][1] = own[c][1]
      OBVIOUS
    <2>1. Held(h, c)
      BY DEF Switching, Held
    <2>2. own2[c] = IF c \in M THEN Succ(own[c]) ELSE own[c]
      BY DEF Switching
    <2> QED BY <2>1, <2>2, SuccFacts
  <1> QED BY <1>3, <1>4, <1>5, <1>6, <1>7 DEF WholeNet

LEMMA LinkWhole ==
    ASSUME NEW n, NEW h, NEW own, NEW a, NEW n2, NEW a2, NEW L,
           WholeNet(n, h, own, a), Linking(n, a, n2, a2, L)
    PROVE  /\ WholeNet(n2, h, own, a2) /\ Moving(n2) \subseteq Moving(n)
           /\ \A b \in L : LET x == Head(n[Out(b)])
                           IN  b[2] = "LOCAL" /\ Tail1(x) =>
                                /\ x[1] \in Moving(n) /\ x[1] \notin Moving(n2)
                                /\ x[1] \in Packets /\ x[1].dst = b[1]
  <1>1. OnLink(n, h, own, a, n2, a2, L)
    BY DEF OnLink, WholeNet
  <1>2. OnePlace(n) /\ NoPassing(n) /\ OnRoute(n) /\ Gates(n, h, own) /\ WholeTypes(n, h, own, a)
    BY DEF WholeNet
  <1>3. WholeTypes(n2, h, own, a2) /\ Chain(n2, h, own) /\ Owners(n2, h, a2)
    BY <1>1, LinkChain
  <1>4. /\ OnePlace(n2) /\ NoPassing(n2)
        /\ \A v \in Places : \A x : Occurs(x, n2[v]) => Kept2(n, L, v, x) \/ Linked1(n, L, v, x)
    BY <1>1, <1>2, LinkTravel
  <1>5. OnRoute(n2) /\ Gates(n2, h, own)
    BY <1>1, <1>2, LinkGates
  <1>6. n \in [Places -> Seq(FlitIds)] /\ n2 \in [Places -> Seq(FlitIds)]
    BY <1>2, <1>3 DEF WholeTypes
  <1>7. Moving(n2) \subseteq Moving(n)
    <2>2. \A v \in Places : \A x : Occurs(x, n2[v]) => \E w \in Places : Occurs(x, n[w])
      <3> SUFFICES ASSUME NEW v \in Places, NEW x, Occurs(x, n2[v])
                   PROVE  \E w \in Places : Occurs(x, n[w])
        OBVIOUS
      <3>1. ASSUME NEW c \in L, Occurs(x, n[Out(c)]) PROVE \E w \in Places : Occurs(x, n[w])
        BY <3>1, InOutPlaces DEF Linking
      <3> QED BY <1>4, <3>1 DEF Kept2, Linked1
    <2> SUFFICES ASSUME NEW p \in Moving(n2) PROVE p \in Moving(n)
      OBVIOUS
    <2>3. PICK v \in Places : \E x : Occurs(x, n2[v]) /\ x[1] = p
      BY <1>6, MovingFlit
    <2>4. \E w \in Places : \E x : Occurs(x, n[w]) /\ x[1] = p
      BY <2>2, <2>3
    <2> QED BY <1>6, <2>4, MovingFlit
  <1>8. ASSUME NEW b \in L, b[2] = "LOCAL", NEW x, x = Head(n[Out(b)]), Tail1(x)
        PROVE  x[1] \in Moving(n) /\ x[1] \notin Moving(n2) /\ x[1] \in Packets /\ x[1].dst = b[1]
    <2>1. /\ x \in FlitIds /\ Occurs(x, n[Out(b)]) /\ Route(b[1], x[1]) = "LOCAL"
          /\ x[1] \notin Moving(n2)
      BY <1>1, <1>2, <1>8, LinkEmpties
    <2>2. b \in Buffers /\ Out(b) \in Places
      BY InOutPlaces DEF Linking
    <2>3. x[1] \in Packets /\ b[1] \in Routers
      BY <2>1, <2>2 DEF FlitIds, Buffers
    <2>4. x[1] \in Moving(n)
      BY <1>6, <2>1, <2>2, MovingFlit
    <2>5. x[1].dst = b[1]
      BY <2>1, <2>3, RouteEnds, FarFacts
    <2> QED BY <2>1, <2>3, <2>4, <2>5
  <1> QED BY <1>3, <1>4, <1>5, <1>7, <1>8 DEF WholeNet

--------------------------------------------------------------------------------

\* Where packets are as a whole stays right while flits only move on and leave.
LEMMA StagesFollow ==
    ASSUME NEW n, NEW h, NEW own, NEW n2, NEW h2, NEW own2,
           NEW off, NEW inj, NEW rq, NEW arr,
           OneStage(n, h, own, off, inj, rq, arr), Moving(n2) \subseteq Moving(n),
           \A c \in Buffers : Held(h2, c) =>
                own2[c][1] \in Moving(n) \/ (Held(h, c) /\ own2[c][1] = own[c][1])
    PROVE  OneStage(n2, h2, own2, off, inj, rq, arr)
  <1>1. \A p, i : StillUnsent(p, i, n, h, own, rq, arr) => StillUnsent(p, i, n2, h2, own2, rq, arr)
    BY DEF StillUnsent
  <1> QED BY <1>1 DEF OneStage

\* A client gets the packets whose last flit has left the network.
Arriving(rq, rq2, s, i, n, n2) ==
    /\ s \in Seq(Packets) /\ OnceEach(s) /\ i \in Routers
    /\ \A p : Occurs(p, s) => p \in Moving(n) /\ p \notin Moving(n2) /\ p.dst = i
    /\ rq2 = [rq EXCEPT ![i] = rq[i] \o s]

LEMMA StagesArrive ==
    ASSUME NEW n, NEW h, NEW own, NEW n2, NEW h2, NEW own2,
           NEW off, NEW inj, NEW rq, NEW arr, NEW rq2, NEW s, NEW i,
           OneStage(n, h, own, off, inj, rq, arr), Moving(n2) \subseteq Moving(n),
           \A c \in Buffers : Held(h2, c) => Held(h, c) /\ own2[c][1] = own[c][1],
           Arriving(rq, rq2, s, i, n, n2)
    PROVE  OneStage(n2, h2, own2, off, inj, rq2, arr)
  <1>1. /\ i \in Routers /\ s \in Seq(Packets) /\ OnceEach(s)
        /\ \A p : Occurs(p, s) => p \in Moving(n) /\ p \notin Moving(n2) /\ p.dst = i
        /\ rq2 = [rq EXCEPT ![i] = rq[i] \o s]
    BY DEF Arriving
  <1>2. rq \in [Routers -> Seq(Packets)] /\ rq[i] \in Seq(Packets) /\ OnceEach(rq[i])
    BY <1>1 DEF OneStage, StageTypes
  <1>3. \A j \in Routers : \A p : Occurs(p, rq[j]) =>
            p.dst = j /\ p \notin Moving(n) /\ p \notin arr
    BY DEF OneStage
  <1> DEFINE u == rq[i] \o s
  <1>4. /\ u \in Seq(Packets) /\ OnceEach(u)
        /\ \A x : Occurs(x, u) <=> Occurs(x, rq[i]) \/ Occurs(x, s)
    <2>1. \A x : ~(Occurs(x, rq[i]) /\ Occurs(x, s))
      BY <1>1, <1>3
    <2> QED BY <1>1, <1>2, <2>1, Joined
  <1>5. rq2[i] = u /\ \A j \in Routers : j # i => rq2[j] = rq[j]
    BY <1>1, <1>2
  <1> HIDE DEF u
  <1>6. rq2 \in [Routers -> Seq(Packets)]
    BY <1>1, <1>2, <1>4 DEF u
  <1>7. \A j \in Routers : \A x : Occurs(x, rq2[j]) => Occurs(x, rq[j]) \/ (j = i /\ Occurs(x, s))
    BY <1>4, <1>5
  <1>8. \A p, j : StillUnsent(p, j, n, h, own, rq, arr) => StillUnsent(p, j, n2, h2, own2, rq2, arr)
    BY <1>1, <1>7 DEF StillUnsent
  <1>9. \A j \in Routers : OnceEach(rq2[j])
    BY <1>4, <1>5 DEF OneStage
  <1>10. arr \cap Moving(n) = {}
    BY DEF OneStage
  <1>11. \A j \in Routers : \A p : Occurs(p, rq2[j]) =>
            p.dst = j /\ p \notin Moving(n2) /\ p \notin arr
    BY <1>1, <1>3, <1>7, <1>10
  <1> QED BY <1>6, <1>8, <1>9, <1>10, <1>11 DEF OneStage, StageTypes

--------------------------------------------------------------------------------

\* stage_vca in the same terms: the input channels M of router i, each with a head in
\* front, get the available output channels T of its route.
Granting(n, h, own, a, h2, own2, a2, M, T, i) ==
    /\ M \subseteq Buffers
    /\ \A c \in M : /\ c[1] = i /\ ~Held(h, c) /\ n[In(c)] # <<>> /\ Head(n[In(c)])[2] = 1
                    /\ T[c] \in Ports \X VCs /\ T[c][1] = Route(i, Head(n[In(c)])[1])
                    /\ a[<<i, T[c][1], T[c][2]>>]
    /\ \A c, d \in M : T[c] = T[d] => c = d
    /\ h2 = [c \in Buffers |-> IF c \in M THEN T[c] ELSE h[c]]
    /\ own2 = [c \in Buffers |-> IF c \in M THEN Head(n[In(c)]) ELSE own[c]]
    /\ a2 = [b \in Buffers |-> a[b] /\ \A c \in M : To(h2, c) # b]

InGrant(n, h, own, a, h2, own2, a2, M, T, i) ==
    WholeNet(n, h, own, a) /\ Granting(n, h, own, a, h2, own2, a2, M, T, i)

\* What an input channel has and gets.
GrantedTo(n, h, own, a, h2, own2, M, i, c) ==
    /\ c \in M => /\ c \in Buffers /\ c[1] = i /\ ~Held(h, c) /\ Held(h2, c)
                  /\ n[In(c)] # <<>> /\ own2[c] = Head(n[In(c)]) /\ own2[c] \in FlitIds
                  /\ own2[c][2] = 1 /\ Occurs(own2[c], n[In(c)])
                  /\ h2[c] \in Ports \X VCs /\ h2[c][1] = Route(i, own2[c][1])
                  /\ To(h2, c) \in Buffers /\ a[To(h2, c)]
    /\ c \notin M => h2[c] = h[c] /\ own2[c] = own[c] /\ (Held(h2, c) <=> Held(h, c))
                     /\ To(h2, c) = To(h, c)

LEMMA GrantFacts ==
    ASSUME NEW n, NEW h, NEW own, NEW a, NEW h2, NEW own2, NEW a2, NEW M, NEW T, NEW i,
           InGrant(n, h, own, a, h2, own2, a2, M, T, i), NEW c \in Buffers
    PROVE  GrantedTo(n, h, own, a, h2, own2, M, i, c)
  <1>0. Granting(n, h, own, a, h2, own2, a2, M, T, i) /\ n \in [Places -> Seq(FlitIds)]
    BY DEF InGrant, WholeNet, WholeTypes
  <1>1. h2[c] = (IF c \in M THEN T[c] ELSE h[c])
        /\ own2[c] = (IF c \in M THEN Head(n[In(c)]) ELSE own[c])
    BY <1>0 DEF Granting
  <1>2. CASE c \in M
    <2>1. /\ c[1] = i /\ ~Held(h, c) /\ n[In(c)] # <<>> /\ Head(n[In(c)])[2] = 1
          /\ T[c] \in Ports \X VCs /\ T[c][1] = Route(i, Head(n[In(c)])[1])
          /\ a[<<i, T[c][1], T[c][2]>>]
      BY <1>0, <1>2 DEF Granting
    <2>2. h2[c] = T[c] /\ own2[c] = Head(n[In(c)])
      BY <1>1, <1>2
    <2>3. Held(h2, c)
      <3>1. "none" \notin Ports
        BY DEF Ports
      <3>2. T[c][1] \in Ports
        BY <2>1
      <3> QED BY <2>2, <3>1, <3>2 DEF Held, NoChannel
    <2>4. To(h2, c) = <<i, T[c][1], T[c][2]>>
      BY <2>1, <2>2 DEF To
    <2>5. To(h2, c) \in Buffers
      BY <2>1, <2>4 DEF Buffers
    <2>6. In(c) \in Places /\ n[In(c)] \in Seq(FlitIds)
      BY <1>0, InOutPlaces
    <2>7. Head(n[In(c)]) \in FlitIds /\ Occurs(Head(n[In(c)]), n[In(c)])
      BY <2>1, <2>6, OneLess
    <2> QED BY <1>2, <2>1, <2>2, <2>3, <2>4, <2>5, <2>7 DEF GrantedTo
  <1>3. CASE c \notin M
    BY <1>1, <1>3 DEF GrantedTo, Held, To
  <1> QED BY <1>2, <1>3

\* An output channel is given away if it is free; what comes next to it is a head.
GrantedFrom(n, h, own, h2, own2, M, b) ==
    \/ /\ Holders(h2, b) = Holders(h, b) /\ Coming(h2, own2, b) = Coming(h, own, b)
       /\ \A c \in M : To(h2, c) # b
    \/ \E c \in M : /\ To(h2, c) = b /\ Holders(h, b) = {} /\ n[Out(b)] = <<>>
                    /\ Holders(h2, b) = {c} /\ Coming(h, own, b) = {}
                    /\ Coming(h2, own2, b) = {own2[c]} /\ own2[c][2] = 1

LEMMA GrantOut ==
    ASSUME NEW n, NEW h, NEW own, NEW a, NEW h2, NEW own2, NEW a2, NEW M, NEW T, NEW i,
           InGrant(n, h, own, a, h2, own2, a2, M, T, i), NEW b \in Buffers
    PROVE  GrantedFrom(n, h, own, h2, own2, M, b)
  <1>0. /\ Granting(n, h, own, a, h2, own2, a2, M, T, i) /\ Owners(n, h, a)
        /\ M \subseteq Buffers
    BY DEF InGrant, WholeNet, Granting
  <1>1. \A c \in Buffers : GrantedTo(n, h, own, a, h2, own2, M, i, c)
    BY GrantFacts
  <1>2. CASE \A c \in M : To(h2, c) # b
    <2>1. \A c \in Buffers : Held(h2, c) /\ To(h2, c) = b <=> Held(h, c) /\ To(h, c) = b
      <3> TAKE c \in Buffers
      <3>1. CASE c \in M
        BY <1>1, <1>2, <3>1 DEF GrantedTo
      <3>2. CASE c \notin M
        BY <1>1, <3>2 DEF GrantedTo
      <3> QED BY <3>1, <3>2
    <2>2. Holders(h2, b) = Holders(h, b)
      BY <2>1 DEF Holders
    <2>3. \A c \in Holders(h, b) : own2[c] = own[c]
      <3> TAKE c \in Holders(h, b)
      <3>1. c \in Buffers /\ Held(h, c)
        BY DEF Holders
      <3> QED BY <1>1, <3>1 DEF GrantedTo
    <2>4. Coming(h2, own2, b) = Coming(h, own, b)
      BY <2>2, <2>3 DEF Coming
    <2> QED BY <1>2, <2>2, <2>4 DEF GrantedFrom
  <1>3. ASSUME NEW c \in M, To(h2, c) = b PROVE GrantedFrom(n, h, own, h2, own2, M, b)
    <2>1. c \in Buffers /\ Held(h2, c) /\ a[b] /\ own2[c][2] = 1 /\ c[1] = i
      BY <1>0, <1>1, <1>3 DEF GrantedTo
    <2>2. Holders(h, b) = {} /\ n[Out(b)] = <<>>
      BY <1>0, <2>1 DEF Owners
    <2>3. \A d \in Buffers : Held(h2, d) /\ To(h2, d) = b => d = c
      <3> SUFFICES ASSUME NEW d \in Buffers, Held(h2, d), To(h2, d) = b PROVE d = c
        OBVIOUS
      <3>1. CASE d \in M
        <4>1. T[c] \in Ports \X VCs /\ T[d] \in Ports \X VCs /\ (T[c] = T[d] => c = d)
          BY <1>0, <3>1 DEF Granting
        <4>2. h2[c] = T[c] /\ h2[d] = T[d]
          BY <1>0, <2>1, <3>1 DEF Granting
        <4>3. T[c][1] = T[d][1] /\ T[c][2] = T[d][2]
          BY <1>3, <4>2 DEF To
        <4>4. T[c] = T[d]
          BY <4>1, <4>3
        <4> QED BY <4>1, <4>4
      <3>2. CASE d \notin M
        <4>1. Held(h, d) /\ To(h, d) = b
          BY <1>1, <3>2 DEF GrantedTo
        <4> QED BY <2>2, <4>1 DEF Holders
      <3> QED BY <3>1, <3>2
    <2>4. Holders(h2, b) = {c}
      BY <1>3, <2>1, <2>3 DEF Holders
    <2>5. Coming(h2, own2, b) = {own2[c]} /\ Coming(h, own, b) = {}
      BY <2>2, <2>4 DEF Coming
    <2> QED BY <1>3, <2>1, <2>2, <2>4, <2>5 DEF GrantedFrom
  <1> QED BY <1>2, <1>3

\* So what comes next to a place only changes from nothing to a head.
FirstHead(Y, Y2) == Y2 = Y \/ (Y = {} /\ \E y : Y2 = {y} /\ y[2] = 1)

LEMMA GrantNext ==
    ASSUME NEW n, NEW h, NEW own, NEW a, NEW h2, NEW own2, NEW a2, NEW M, NEW T, NEW i,
           InGrant(n, h, own, a, h2, own2, a2, M, T, i)
    PROVE  /\ \A b \in Buffers : FirstHead(After(n, h, own, b), After(n, h2, own2, b))
           /\ \A c \in Buffers : FirstHead(Behind(n, h, own, c), Behind(n, h2, own2, c))
           /\ \A c \in Buffers : FirstHead(Ahead(n, h, own, c), Ahead(n, h2, own2, c))
           /\ \A c \in Buffers : n[In(c)] # <<>> => Ahead(n, h2, own2, c) = {Head(n[In(c)])}
  <1>1. ASSUME NEW b \in Buffers
        PROVE  FirstHead(After(n, h, own, b), After(n, h2, own2, b))
    <2>1. GrantedFrom(n, h, own, h2, own2, M, b)
      BY GrantOut
    <2>2. FirstHead(Coming(h, own, b), Coming(h2, own2, b))
      BY <2>1 DEF GrantedFrom, FirstHead
    <2> QED BY <2>2 DEF After, FirstHead
  <1>2. ASSUME NEW c \in Buffers
        PROVE  FirstHead(Behind(n, h, own, c), Behind(n, h2, own2, c))
    <2>1. CASE c[2] = "LOCAL"
      BY <2>1 DEF Behind, FirstHead
    <2>2. CASE c[2] # "LOCAL"
      <3>1. Other(c) \in Buffers
        BY <2>2, OtherEnd
      <3> QED BY <1>1, <2>2, <3>1 DEF Behind
    <2> QED BY <2>1, <2>2
  <1>3. \A c \in Buffers : FirstHead(Ahead(n, h, own, c), Ahead(n, h2, own2, c))
    <2> TAKE c \in Buffers
    <2>1. FirstHead(Behind(n, h, own, c), Behind(n, h2, own2, c))
      BY <1>2
    <2>2. CASE n[In(c)] # <<>>
      BY <2>2 DEF Ahead, FirstHead
    <2>3. CASE n[In(c)] = <<>>
      BY <2>1, <2>3 DEF Ahead
    <2> QED BY <2>2, <2>3
  <1>4. \A c \in Buffers : n[In(c)] # <<>> => Ahead(n, h2, own2, c) = {Head(n[In(c)])}
    BY DEF Ahead
  <1> QED BY <1>1, <1>2, <1>3, <1>4

LEMMA GrantChain ==
    ASSUME NEW n, NEW h, NEW own, NEW a, NEW h2, NEW own2, NEW a2, NEW M, NEW T, NEW i,
           InGrant(n, h, own, a, h2, own2, a2, M, T, i)
    PROVE  WholeTypes(n, h2, own2, a2) /\ Chain(n, h2, own2) /\ Owners(n, h2, a2)
  <1>0. /\ Granting(n, h, own, a, h2, own2, a2, M, T, i) /\ Owners(n, h, a)
        /\ WholeTypes(n, h, own, a) /\ Chain(n, h, own) /\ M \subseteq Buffers
    BY DEF InGrant, WholeNet, Granting
  <1>1. \A c \in Buffers : GrantedTo(n, h, own, a, h2, own2, M, i, c)
    BY GrantFacts
  <1>2. \A b \in Buffers : GrantedFrom(n, h, own, h2, own2, M, b)
    BY GrantOut
  <1>3. /\ \A c \in Buffers : FirstHead(Behind(n, h, own, c), Behind(n, h2, own2, c))
        /\ \A c \in Buffers : FirstHead(Ahead(n, h, own, c), Ahead(n, h2, own2, c))
        /\ \A c \in Buffers : n[In(c)] # <<>> => Ahead(n, h2, own2, c) = {Head(n[In(c)])}
    BY GrantNext
  <1>4. WholeTypes(n, h2, own2, a2)
    <2>1. \A c \in Buffers : Held(h2, c) => own2[c] \in FlitIds
      BY <1>0, <1>1 DEF GrantedTo, WholeTypes
    <2>2. h2 \in [Buffers -> (Ports \X VCs) \cup {NoChannel}]
      <3>1. \A c \in Buffers : h2[c] \in (Ports \X VCs) \cup {NoChannel}
        BY <1>0, <1>1 DEF GrantedTo, WholeTypes
      <3>2. h2 = [c \in Buffers |-> h2[c]]
        BY <1>0 DEF Granting
      <3> QED BY <3>1, <3>2
    <2>3. a2 \in [Buffers -> BOOLEAN]
      <3>1. \A b \in Buffers : a[b] \in BOOLEAN
        BY <1>0 DEF WholeTypes
      <3> QED BY <1>0, <3>1 DEF Granting
    <2> QED BY <1>0, <2>1, <2>2, <2>3 DEF WholeTypes
  <1>5. Chain(n, h2, own2)
    <2>1. ASSUME NEW b \in Buffers PROVE Linked(n[Out(b)], Coming(h2, own2, b), TRUE)
      <3>1. CASE n[Out(b)] = <<>>
        BY <3>1 DEF Linked
      <3>2. CASE n[Out(b)] # <<>>
        <4>1. Coming(h2, own2, b) = Coming(h, own, b)
          BY <1>2, <3>2 DEF GrantedFrom
        <4> QED BY <1>0, <4>1 DEF Chain
      <3> QED BY <3>1, <3>2
    <2>2. ASSUME NEW c \in Buffers PROVE Linked(n[In(c)], Behind(n, h2, own2, c), FALSE)
      <3>1. /\ FirstHead(Behind(n, h, own, c), Behind(n, h2, own2, c))
            /\ Linked(n[In(c)], Behind(n, h, own, c), FALSE) /\ n[In(c)] \in Seq(FlitIds)
        BY <1>0, <1>3, InOutPlaces DEF Chain, WholeTypes
      <3> QED BY <3>1, LinkedHead DEF FirstHead
    <2>3. ASSUME NEW c \in Buffers, Held(h2, c)
          PROVE  Ahead(n, h2, own2, c) = {own2[c]} /\ (own2[c][2] = 1 => n[In(c)] # <<>>)
      <3>1. CASE c \in M
        BY <1>1, <1>3, <3>1 DEF GrantedTo
      <3>2. CASE c \notin M
        <4>1. Held(h, c) /\ own2[c] = own[c]
          BY <1>1, <2>3, <3>2 DEF GrantedTo
        <4>2. Ahead(n, h, own, c) = {own[c]} /\ (own[c][2] = 1 => n[In(c)] # <<>>)
          BY <1>0, <4>1 DEF Chain
        <4>3. Ahead(n, h2, own2, c) = Ahead(n, h, own, c)
          BY <1>3, <4>2 DEF FirstHead
        <4> QED BY <4>1, <4>2, <4>3
      <3> QED BY <3>1, <3>2
    <2>4. ASSUME NEW c \in Buffers, ~Held(h2, c), NEW x \in Ahead(n, h2, own2, c)
          PROVE  x[2] = 1
      <3>1. ~Held(h, c)
        BY <1>1, <2>4 DEF GrantedTo
      <3>2. \A y \in Ahead(n, h, own, c) : y[2] = 1
        BY <1>0, <3>1 DEF Chain
      <3> QED BY <1>3, <2>4, <3>2 DEF FirstHead
    <2> QED BY <2>1, <2>2, <2>3, <2>4 DEF Chain
  <1>6. Owners(n, h2, a2)
    <2>1. ASSUME NEW c \in Buffers, NEW d \in Buffers, Held(h2, c), Held(h2, d),
                 To(h2, c) = To(h2, d)
          PROVE  c = d
      <3> DEFINE b == To(h2, c)
      <3>1. b \in Buffers
        <4>1. h2 \in [Buffers -> (Ports \X VCs) \cup {NoChannel}]
          BY <1>4 DEF WholeTypes
        <4> QED BY <2>1, <4>1, ToBuffer
      <3>2. c \in Holders(h2, b) /\ d \in Holders(h2, b)
        BY <2>1 DEF Holders
      <3> HIDE DEF b
      <3>3. CASE Holders(h2, b) = Holders(h, b)
        BY <1>0, <3>2, <3>3 DEF Owners, Holders
      <3>4. CASE \E e \in M : Holders(h2, b) = {e}
        BY <3>2, <3>4
      <3> QED BY <1>2, <3>1, <3>3, <3>4 DEF GrantedFrom
    <2>2. ASSUME NEW b \in Buffers
          PROVE  a2[b] <=> Holders(h2, b) = {} /\ n[Out(b)] = <<>>
      <3>1. a2[b] <=> a[b] /\ \A c \in M : To(h2, c) # b
        BY <1>0 DEF Granting
      <3>2. a[b] <=> Holders(h, b) = {} /\ n[Out(b)] = <<>>
        BY <1>0 DEF Owners
      <3> QED BY <1>2, <3>1, <3>2 DEF GrantedFrom
    <2> QED BY <2>1, <2>2 DEF Owners
  <1> QED BY <1>4, <1>5, <1>6

LEMMA GrantGates ==
    ASSUME NEW n, NEW h, NEW own, NEW a, NEW h2, NEW own2, NEW a2, NEW M, NEW T, NEW i,
           InGrant(n, h, own, a, h2, own2, a2, M, T, i)
    PROVE  Gates(n, h2, own2)
  <1>0. /\ Chain(n, h, own) /\ M \subseteq Buffers /\ OnePlace(n) /\ NoPassing(n)
        /\ Gates(n, h, own) /\ n \in [Places -> Seq(FlitIds)]
        /\ \A c \in Buffers : Held(h, c) => own[c] \in FlitIds
    BY DEF InGrant, WholeNet, Granting, WholeTypes
  <1>1. \A c \in Buffers : GrantedTo(n, h, own, a, h2, own2, M, i, c)
    BY GrantFacts
  <1>2. ASSUME NEW c \in M, NEW w \in Places, NEW x, Occurs(x, n[w]), x[1] = own2[c][1]
        PROVE  /\ x \in FlitIds /\ Left(x, w) \in Nat /\ Far(x[1], c[1]) \in Nat
               /\ x[2] \in Nat /\ x[2] >= 1 /\ Left(x, w) > 2 * Far(x[1], c[1])
               /\ x[2] = 1 => x = own2[c] /\ w = In(c)
    <2>1. /\ c \in Buffers /\ c[1] = i /\ own2[c] \in FlitIds /\ own2[c][2] = 1
          /\ Occurs(own2[c], n[In(c)]) /\ In(c) \in Places /\ In(c)[1] = "in" /\ In(c)[2] = c
      BY <1>0, <1>1, InOutPlaces DEF GrantedTo
    <2>2. x \in FlitIds
      BY <1>0, <1>2, ElementOfSeq DEF Occurs
    <2>3. /\ Left(x, w) \in Nat /\ x[2] \in Nat /\ x[2] >= 1 /\ Far(x[1], c[1]) \in Nat
          /\ Left(own2[c], In(c)) \in Nat
      BY <2>1, <2>2, LeftFacts
    <2>4. Left(own2[c], In(c)) = 2 * Far(x[1], c[1]) + 1
      BY <1>2, <2>1 DEF Left
    <2>5. CASE x[2] = 1
      <3>1. x = own2[c]
        BY <1>2, <2>1, <2>2, <2>5 DEF FlitIds
      <3>2. w = In(c)
        BY <1>0, <1>2, <2>1, <3>1 DEF OnePlace
      <3> QED BY <2>2, <2>3, <2>4, <3>1, <3>2
    <2>6. CASE x[2] # 1
      <3>1. own2[c][2] < x[2]
        BY <2>1, <2>3, <2>6
      <3>2. Left(own2[c], In(c)) <= Left(x, w)
        BY <1>0, <1>2, <2>1, <3>1 DEF NoPassing
      <3> QED BY <2>2, <2>3, <2>4, <2>6, <3>2
    <2> QED BY <2>5, <2>6
  <1>3. ASSUME NEW c \in Buffers, Held(h2, c) PROVE Route(c[1], own2[c][1]) = h2[c][1]
    <2>1. CASE c \in M
      BY <1>1, <2>1 DEF GrantedTo
    <2>2. CASE c \notin M
      <3>1. Held(h, c) /\ own2[c] = own[c] /\ h2[c] = h[c]
        BY <1>1, <1>3, <2>2 DEF GrantedTo
      <3> QED BY <1>0, <3>1 DEF Gates
    <2> QED BY <2>1, <2>2
  <1>4. ASSUME NEW c \in M, NEW d \in Buffers, Held(h2, d), c[1] = d[1],
               own2[c][1] = own2[d][1]
        PROVE  c = d
    <2>1. c \in Buffers /\ c[1] = i /\ own2[c][2] = 1
      BY <1>0, <1>1 DEF GrantedTo
    <2>2. CASE d \in M
      <3>1. /\ own2[d][2] = 1 /\ Occurs(own2[d], n[In(d)]) /\ In(d) \in Places
        BY <1>1, <2>2, InOutPlaces DEF GrantedTo
      <3>2. In(d) = In(c)
        BY <1>2, <1>4, <3>1
      <3> QED BY <3>2, InOutPlaces
    <2>3. CASE d \notin M
      <3>1. Held(h, d) /\ own2[d] = own[d]
        BY <1>1, <1>4, <2>3 DEF GrantedTo
      <3>2. /\ Occurs(own2[c], n[In(c)]) /\ In(c) \in Places /\ ~Held(h, c)
            /\ own2[c] \in FlitIds
        BY <1>1, <2>1, InOutPlaces DEF GrantedTo
      <3>3. own2[c][2] < own[d][2] <=> Left(own2[c], In(c)) <= 2 * Far(own2[c][1], d[1])
        BY <1>0, <1>4, <3>1, <3>2 DEF Gates
      <3>4. /\ Left(own2[c], In(c)) > 2 * Far(own2[c][1], c[1])
            /\ Left(own2[c], In(c)) \in Nat /\ Far(own2[c][1], c[1]) \in Nat
        BY <1>2, <3>2
      <3>5. own[d] \in FlitIds /\ own[d][2] \in Nat /\ own[d][2] >= 1
        <4>1. own[d] \in FlitIds
          BY <1>0, <3>1
        <4>2. own[d][1].size \in Nat
          BY <4>1, RingAssumption DEF FlitIds
        <4> QED BY <4>1, <4>2 DEF FlitIds
      <3>6. own[d][2] = 1
        BY <1>4, <2>1, <3>3, <3>4, <3>5
      <3>7. n[In(d)] # <<>> /\ Ahead(n, h, own, d) = {own[d]}
        BY <1>0, <3>1, <3>6 DEF Chain
      <3>8. Head(n[In(d)]) = own[d]
        BY <3>7 DEF Ahead
      <3>9. In(d) \in Places /\ n[In(d)] \in Seq(FlitIds)
        BY <1>0, InOutPlaces
      <3>10. Occurs(own[d], n[In(d)])
        BY <3>7, <3>8, <3>9, OneLess
      <3>11. In(d) = In(c)
        BY <1>2, <1>4, <3>1, <3>6, <3>9, <3>10
      <3>12. d = c
        BY <3>11, InOutPlaces
      <3> QED BY <3>1, <3>2, <3>12
    <2> QED BY <2>2, <2>3
  <1>5. ASSUME NEW c \in Buffers, Held(h2, c), NEW d \in Buffers, Held(h2, d), c[1] = d[1],
               own2[c][1] = own2[d][1]
        PROVE  c = d
    <2>1. CASE c \in M
      BY <1>4, <1>5, <2>1
    <2>2. CASE d \in M
      BY <1>4, <1>5, <2>2
    <2>3. CASE c \notin M /\ d \notin M
      <3>1. Held(h, c) /\ own2[c] = own[c] /\ Held(h, d) /\ own2[d] = own[d]
        BY <1>1, <1>5, <2>3 DEF GrantedTo
      <3> QED BY <1>0, <1>5, <3>1 DEF Gates
    <2> QED BY <2>1, <2>2, <2>3
  <1>6. ASSUME NEW c \in Buffers, Held(h2, c), NEW w \in Places, NEW x, Occurs(x, n[w]),
               x[1] = own2[c][1]
        PROVE  /\ x[2] < own2[c][2] <=> Left(x, w) <= 2 * Far(x[1], c[1])
               /\ w[1] = "out" /\ w[2][1] = c[1] => w[2] = To(h2, c)
    <2>1. CASE c \in M
      <3>1. /\ x \in FlitIds /\ Left(x, w) \in Nat /\ Far(x[1], c[1]) \in Nat
            /\ x[2] \in Nat /\ x[2] >= 1 /\ Left(x, w) > 2 * Far(x[1], c[1])
        BY <1>2, <1>6, <2>1
      <3>2. own2[c][2] = 1
        BY <1>1, <2>1 DEF GrantedTo
      <3>3. ~(w[1] = "out" /\ w[2][1] = c[1])
        <4> SUFFICES ASSUME w[1] = "out", w[2][1] = c[1] PROVE FALSE
          OBVIOUS
        <4>1. Left(x, w) = 2 * Far(x[1], c[1]) + 0
          BY DEF Left
        <4> QED BY <3>1, <4>1
      <3> QED BY <3>1, <3>2, <3>3
    <2>2. CASE c \notin M
      <3>1. Held(h, c) /\ own2[c] = own[c] /\ To(h2, c) = To(h, c)
        BY <1>1, <1>6, <2>2 DEF GrantedTo
      <3> QED BY <1>0, <1>6, <3>1 DEF Gates
    <2> QED BY <2>1, <2>2
  <1> QED BY <1>3, <1>5, <1>6 DEF Gates

LEMMA GrantWhole ==
    ASSUME NEW n, NEW h, NEW own, NEW a, NEW h2, NEW own2, NEW a2, NEW M, NEW T, NEW i,
           WholeNet(n, h, own, a), Granting(n, h, own, a, h2, own2, a2, M, T, i)
    PROVE  /\ WholeNet(n, h2, own2, a2)
           /\ \A c \in Buffers : Held(h2, c) =>
                    own2[c][1] \in Moving(n) \/ (Held(h, c) /\ own2[c][1] = own[c][1])
  <1>1. InGrant(n, h, own, a, h2, own2, a2, M, T, i)
    BY DEF InGrant
  <1>2. OnePlace(n) /\ NoPassing(n) /\ OnRoute(n) /\ n \in [Places -> Seq(FlitIds)]
    BY DEF WholeNet, WholeTypes
  <1>3. WholeTypes(n, h2, own2, a2) /\ Chain(n, h2, own2) /\ Owners(n, h2, a2)
    BY <1>1, GrantChain
  <1>4. Gates(n, h2, own2)
    BY <1>1, GrantGates
  <1>5. ASSUME NEW c \in Buffers, Held(h2, c)
        PROVE  own2[c][1] \in Moving(n) \/ (Held(h, c) /\ own2[c][1] = own[c][1])
    <2>1. GrantedTo(n, h, own, a, h2, own2, M, i, c)
      BY <1>1, GrantFacts
    <2>2. CASE c \in M
      <3>1. Occurs(own2[c], n[In(c)]) /\ In(c) \in Places
        BY <2>1, <2>2, InOutPlaces DEF GrantedTo
      <3> QED BY <1>2, <3>1, MovingFlit
    <2>3. CASE c \notin M
      BY <1>5, <2>1, <2>3 DEF GrantedTo
    <2> QED BY <2>2, <2>3
  <1> QED BY <1>2, <1>3, <1>4, <1>5 DEF WholeNet

--------------------------------------------------------------------------------

\* local_packet_injection in the same terms: all flits of a packet nobody has seen yet go
\* to the end of an input channel of the local port.
Cut(p) == [k \in 1..p.size |-> <<p, k>>]
Injecting(n, h, own, n2, p, l) ==
    /\ p \in Packets /\ p \notin Moving(n) /\ (\A c \in Buffers : Held(h, c) => own[c][1] # p)
    /\ l \in Buffers /\ l[2] = "LOCAL"
    /\ n2 = [n EXCEPT ![In(l)] = n[In(l)] \o Cut(p)]

LEMMA CutFacts ==
    ASSUME NEW p \in Packets
    PROVE  /\ Cut(p) \in Seq(FlitIds) /\ Cut(p) # <<>> /\ Head(Cut(p)) = <<p, 1>>
           /\ OnceEach(Cut(p)) /\ (\A x : Occurs(x, Cut(p)) => x[1] = p)
           /\ Linked(Cut(p), {}, FALSE) /\ <<p, 1>> \in FlitIds
           /\ Occurs(<<p, 1>>, Cut(p))
  <1>1. p.size \in Nat /\ p.size >= 1
    BY RingAssumption
  <1>2. \A k \in 1..p.size : <<p, k>> \in FlitIds
    BY <1>1 DEF FlitIds
  <1>3. /\ Cut(p) \in Seq(FlitIds) /\ Len(Cut(p)) = p.size
        /\ \A k \in 1..p.size : Cut(p)[k] = <<p, k>>
    BY <1>1, <1>2 DEF Cut
  <1> DEFINE s == Cut(p)
  <1> HIDE DEF s
  <1>4. s # <<>> /\ Head(s) = s[1]
    BY <1>1, <1>3, EmptySeq DEF s
  <1>5. OnceEach(s)
    BY <1>3 DEF OnceEach, s
  <1>6. \A x : Occurs(x, s) => x[1] = p
    BY <1>3 DEF Occurs, s
  <1>7. Linked(s, {}, FALSE)
    <2> SUFFICES ASSUME NEW k \in 1..p.size
                 PROVE  Meets(s[k], IF k = p.size THEN {} ELSE {s[k + 1]}, FALSE)
      BY <1>3 DEF Linked, s
    <2>1. CASE k = p.size
      BY <1>3, <2>1 DEF Meets, Tail1, s
    <2>2. CASE k # p.size
      <3>1. k + 1 \in 1..p.size
        BY <1>1, <2>2
      <3>2. s[k] = <<p, k>> /\ s[k + 1] = <<p, k + 1>>
        BY <1>3, <3>1 DEF s
      <3>3. Next1(s[k], s[k + 1])
        BY <3>2 DEF Next1
      <3> QED BY <2>2, <3>3 DEF Meets
    <2> QED BY <2>1, <2>2
  <1>8. s[1] = <<p, 1>> /\ <<p, 1>> \in FlitIds /\ Occurs(<<p, 1>>, s)
    BY <1>1, <1>2, <1>3 DEF s, Occurs
  <1> QED BY <1>3, <1>4, <1>5, <1>6, <1>7, <1>8 DEF s

\* The buffers after that, and which flits are in them.
LEMMA InjectPlaces ==
    ASSUME NEW n, NEW h, NEW own, NEW a, NEW n2, NEW p, NEW l,
           WholeNet(n, h, own, a), Injecting(n, h, own, n2, p, l)
    PROVE  /\ n2 \in [Places -> Seq(FlitIds)] /\ OnePlace(n2)
           /\ n2[In(l)] = n[In(l)] \o Cut(p) /\ \A w \in Places : w # In(l) => n2[w] = n[w]
           /\ \A w \in Places : \A x : Occurs(x, n2[w]) =>
                    (Occurs(x, n[w]) /\ x[1] # p) \/ (w = In(l) /\ x[1] = p)
           /\ Moving(n2) = Moving(n) \cup {p}
  <1>0. /\ n \in [Places -> Seq(FlitIds)] /\ OnePlace(n) /\ In(l) \in Places
        /\ p \in Packets /\ p \notin Moving(n)
    BY InOutPlaces DEF WholeNet, WholeTypes, Injecting
  <1>1. n2[In(l)] = n[In(l)] \o Cut(p) /\ \A w \in Places : w # In(l) => n2[w] = n[w]
    BY <1>0 DEF Injecting
  <1>2. \A w \in Places : \A x : Occurs(x, n[w]) => x[1] # p
    BY <1>0, MovingFlit
  <1> DEFINE u == n[In(l)] \o Cut(p)
  <1>3. /\ u \in Seq(FlitIds) /\ OnceEach(u)
        /\ \A x : Occurs(x, u) <=> Occurs(x, n[In(l)]) \/ Occurs(x, Cut(p))
    <2>1. /\ Cut(p) \in Seq(FlitIds) /\ OnceEach(Cut(p))
          /\ \A x : Occurs(x, Cut(p)) => x[1] = p
      BY <1>0, CutFacts
    <2>2. n[In(l)] \in Seq(FlitIds) /\ OnceEach(n[In(l)])
      BY <1>0 DEF OnePlace
    <2>3. \A x : ~(Occurs(x, n[In(l)]) /\ Occurs(x, Cut(p)))
      BY <1>0, <1>2, <2>1
    <2> DEFINE s == n[In(l)]  t == Cut(p)
    <2>4. s \in Seq(FlitIds) /\ t \in Seq(FlitIds) /\ OnceEach(s) /\ OnceEach(t) /\ u = s \o t
      BY <2>1, <2>2
    <2>5. \A x : ~(Occurs(x, s) /\ Occurs(x, t))
      BY <2>3
    <2> HIDE DEF s, t, u
    <2>6. u \in Seq(FlitIds) /\ OnceEach(u) /\ \A x : Occurs(x, u) <=> Occurs(x, s) \/ Occurs(x, t)
      BY ONLY <2>4, <2>5, Joined
    <2> QED BY <2>6 DEF s, t
  <1> HIDE DEF u
  <1>4. n2 \in [Places -> Seq(FlitIds)]
    <2>1. n2 = [n EXCEPT ![In(l)] = u]
      BY DEF Injecting, u
    <2> QED BY <1>0, <1>3, <2>1
  <1>5. \A w \in Places : \A x : Occurs(x, n2[w]) =>
            (Occurs(x, n[w]) /\ x[1] # p) \/ (w = In(l) /\ x[1] = p)
    <2> SUFFICES ASSUME NEW w \in Places, NEW x, Occurs(x, n2[w])
                 PROVE  (Occurs(x, n[w]) /\ x[1] # p) \/ (w = In(l) /\ x[1] = p)
      OBVIOUS
    <2>1. CASE w = In(l)
      <3>1. Occurs(x, n[In(l)]) \/ Occurs(x, Cut(p))
        BY <1>1, <1>3, <2>1 DEF u
      <3>2. Occurs(x, Cut(p)) => x[1] = p
        BY <1>0, CutFacts
      <3> QED BY <1>2, <2>1, <3>1, <3>2
    <2>2. CASE w # In(l)
      BY <1>1, <1>2, <2>2
    <2> QED BY <2>1, <2>2
  <1>6. OnePlace(n2)
    <2>1. \A w \in Places : OnceEach(n2[w])
      BY <1>0, <1>1, <1>3 DEF OnePlace, u
    <2>2. ASSUME NEW w \in Places, NEW v \in Places, NEW x, Occurs(x, n2[w]), Occurs(x, n2[v])
          PROVE  w = v
      BY <1>0, <1>5, <2>2 DEF OnePlace
    <2> QED BY <2>1, <2>2 DEF OnePlace
  <1>7. Moving(n2) = Moving(n) \cup {p}
    <2>1. ASSUME NEW q \in Moving(n2) PROVE q \in Moving(n) \cup {p}
      <3>1. PICK w \in Places : \E x : Occurs(x, n2[w]) /\ x[1] = q
        BY <1>4, <2>1, MovingFlit
      <3>2. q = p \/ \E x : Occurs(x, n[w]) /\ x[1] = q
        BY <1>5, <3>1
      <3> QED BY <1>0, <3>2, MovingFlit
    <2>2. ASSUME NEW q \in Moving(n) PROVE q \in Moving(n2)
      <3>1. PICK w \in Places : \E x : Occurs(x, n[w]) /\ x[1] = q
        BY <1>0, <2>2, MovingFlit
      <3>2. \A x : Occurs(x, n[w]) => Occurs(x, n2[w])
        BY <1>1, <1>3 DEF u
      <3> QED BY <1>4, <3>1, <3>2, MovingFlit
    <2>3. p \in Moving(n2)
      <3>1. Occurs(<<p, 1>>, Cut(p)) /\ <<p, 1>>[1] = p
        BY <1>0, CutFacts
      <3>2. Occurs(<<p, 1>>, n2[In(l)])
        BY <1>1, <1>3, <3>1 DEF u
      <3> QED BY <1>0, <1>4, <3>1, <3>2, MovingFlit
    <2> QED BY <2>1, <2>2, <2>3
  <1> QED BY <1>1, <1>4, <1>5, <1>6, <1>7

LEMMA InjectChain ==
    ASSUME NEW n, NEW h, NEW own, NEW a, NEW n2, NEW p, NEW l,
           WholeNet(n, h, own, a), Injecting(n, h, own, n2, p, l)
    PROVE  Chain(n2, h, own)
  <1>0. /\ Chain(n, h, own) /\ n \in [Places -> Seq(FlitIds)] /\ l \in Buffers
        /\ l[2] = "LOCAL" /\ p \in Packets /\ In(l) \in Places
    BY InOutPlaces DEF WholeNet, WholeTypes, Injecting
  <1>1. n2[In(l)] = n[In(l)] \o Cut(p) /\ \A w \in Places : w # In(l) => n2[w] = n[w]
    BY InjectPlaces
  <1>2. \A b \in Buffers : n2[Out(b)] = n[Out(b)] /\ After(n2, h, own, b) = After(n, h, own, b)
    <2> TAKE b \in Buffers
    <2>1. Out(b) \in Places /\ Out(b) # In(l)
      BY InOutPlaces
    <2>2. n2[Out(b)] = n[Out(b)]
      BY <1>1, <2>1
    <2> QED BY <2>2 DEF After
  <1>3. \A c \in Buffers : Behind(n2, h, own, c) = Behind(n, h, own, c)
    <2> TAKE c \in Buffers
    <2>1. c[2] # "LOCAL" => Other(c) \in Buffers
      BY OtherEnd
    <2> QED BY <1>2, <2>1 DEF Behind
  <1>4. Behind(n, h, own, l) = {}
    BY <1>0 DEF Behind
  <1>5. /\ n[In(l)] \in Seq(FlitIds) /\ Cut(p) \in Seq(FlitIds) /\ Cut(p) # <<>>
        /\ Head(Cut(p)) = <<p, 1>> /\ Linked(Cut(p), {}, FALSE) /\ <<p, 1>>[2] = 1
    BY <1>0, CutFacts
  <1>6. Linked(n2[In(l)], {}, FALSE)
    <2>1. Linked(n[In(l)], {}, FALSE)
      BY <1>0, <1>4 DEF Chain
    <2>2. Linked(n[In(l)], {<<p, 1>>}, FALSE)
      BY <1>5, <2>1, LinkedHead
    <2>3. Linked(n[In(l)] \o Cut(p), {}, FALSE)
      BY <1>5, <2>2, LinkedJoin
    <2> QED BY <1>1, <2>3
  <1>7. /\ n2[In(l)] # <<>>
        /\ Head(n2[In(l)]) = IF n[In(l)] = <<>> THEN <<p, 1>> ELSE Head(n[In(l)])
    <2> DEFINE s == n[In(l)]  t == Cut(p)  u == s \o t
    <2>1. s \in Seq(FlitIds) /\ t \in Seq(FlitIds) /\ t # <<>> /\ Head(t) = <<p, 1>>
      BY <1>5
    <2> HIDE DEF s, t
    <2>2. u # <<>> /\ Head(u) = IF s = <<>> THEN Head(t) ELSE Head(s)
      <3>1. /\ Len(s) \in Nat /\ Len(t) \in Nat /\ Len(t) > 0 /\ Len(u) = Len(s) + Len(t)
            /\ u \in Seq(FlitIds)
            /\ \A k \in 1..Len(u) : u[k] = IF k <= Len(s) THEN s[k] ELSE t[k - Len(s)]
        BY <2>1, ConcatProperties, EmptySeq, LenProperties
      <3> HIDE DEF u
      <3>2. u # <<>> /\ Head(u) = u[1] /\ Head(t) = t[1]
        BY <2>1, <3>1, EmptySeq
      <3>3. s # <<>> => Head(s) = s[1] /\ Len(s) > 0
        BY <2>1, <3>1, EmptySeq
      <3>4. s = <<>> => Len(s) = 0
        BY EmptySeq
      <3> QED BY <3>1, <3>2, <3>3, <3>4
    <2> QED BY <1>1, <2>1, <2>2 DEF s, t
  <1>8. \A c \in Buffers : Held(h, c) =>
            Ahead(n, h, own, c) = {own[c]} /\ (own[c][2] = 1 => n[In(c)] # <<>>)
    BY <1>0 DEF Chain
  <1>9. ASSUME NEW c \in Buffers
        PROVE  /\ Linked(n2[In(c)], Behind(n2, h, own, c), FALSE)
               /\ Held(h, c) => Ahead(n2, h, own, c) = {own[c]} /\ (own[c][2] = 1 => n2[In(c)] # <<>>)
               /\ ~Held(h, c) => \A x \in Ahead(n2, h, own, c) : x[2] = 1
    <2>0. \A x \in Ahead(n, h, own, c) : ~Held(h, c) => x[2] = 1
      BY <1>0 DEF Chain
    <2>1. CASE c = l
      <3>1. Ahead(n2, h, own, c) = {Head(n2[In(l)])}
        BY <1>7, <2>1 DEF Ahead
      <3>2. CASE n[In(l)] = <<>>
        <4>1. Ahead(n, h, own, c) = {}
          BY <1>4, <2>1, <3>2 DEF Ahead
        <4>2. ~Held(h, c)
          BY <1>8, <4>1
        <4> QED BY <1>3, <1>4, <1>5, <1>6, <1>7, <2>1, <3>1, <3>2, <4>2
      <3>3. CASE n[In(l)] # <<>>
        <4>1. Ahead(n2, h, own, c) = Ahead(n, h, own, c)
          BY <1>7, <2>1, <3>1, <3>3 DEF Ahead
        <4> QED BY <1>3, <1>4, <1>6, <1>7, <1>8, <2>0, <2>1, <4>1
      <3> QED BY <3>2, <3>3
    <2>2. CASE c # l
      <3>1. n2[In(c)] = n[In(c)]
        BY <1>1, <2>2, InOutPlaces
      <3>2. Ahead(n2, h, own, c) = Ahead(n, h, own, c)
        BY <1>3, <3>1 DEF Ahead
      <3>3. Linked(n[In(c)], Behind(n, h, own, c), FALSE)
        BY <1>0 DEF Chain
      <3> QED BY <1>3, <1>8, <2>0, <3>1, <3>2, <3>3
    <2> QED BY <2>1, <2>2
  <1>10. \A b \in Buffers : Linked(n2[Out(b)], Coming(h, own, b), TRUE)
    BY <1>0, <1>2 DEF Chain
  <1> QED BY <1>9, <1>10 DEF Chain

LEMMA InjectWhole ==
    ASSUME NEW n, NEW h, NEW own, NEW a, NEW n2, NEW p, NEW l,
           WholeNet(n, h, own, a), Injecting(n, h, own, n2, p, l)
    PROVE  WholeNet(n2, h, own, a) /\ Moving(n2) = Moving(n) \cup {p}
  <1>0. /\ WholeTypes(n, h, own, a) /\ Owners(n, h, a) /\ OnePlace(n) /\ NoPassing(n)
        /\ OnRoute(n) /\ Gates(n, h, own) /\ l \in Buffers /\ In(l) \in Places
        /\ \A c \in Buffers : Held(h, c) => own[c][1] # p
    BY InOutPlaces DEF WholeNet, Injecting
  <1>1. /\ n2 \in [Places -> Seq(FlitIds)] /\ OnePlace(n2)
        /\ n2[In(l)] = n[In(l)] \o Cut(p) /\ \A w \in Places : w # In(l) => n2[w] = n[w]
        /\ \A w \in Places : \A x : Occurs(x, n2[w]) =>
                (Occurs(x, n[w]) /\ x[1] # p) \/ (w = In(l) /\ x[1] = p)
        /\ Moving(n2) = Moving(n) \cup {p}
    BY InjectPlaces
  <1>2. Chain(n2, h, own)
    BY InjectChain
  <1>3. WholeTypes(n2, h, own, a)
    BY <1>0, <1>1 DEF WholeTypes
  <1>4. \A b \in Buffers : n2[Out(b)] = n[Out(b)] /\ Out(b) \in Places
    BY <1>1, InOutPlaces
  <1>5. Owners(n2, h, a) /\ OnRoute(n2)
    BY <1>0, <1>4 DEF Owners, OnRoute
  <1>6. NoPassing(n2)
    <2> SUFFICES ASSUME NEW w \in Places, NEW v \in Places, NEW x, NEW y, Occurs(x, n2[w]),
                        Occurs(y, n2[v]), x[1] = y[1], x[2] < y[2]
                 PROVE  Left(x, w) <= Left(y, v)
      BY DEF NoPassing
    <2>1. CASE x[1] # p
      BY <1>0, <1>1, <2>1 DEF NoPassing
    <2>2. CASE x[1] = p
      <3>1. w = In(l) /\ v = In(l)
        BY <1>1, <2>2
      <3>2. x \in FlitIds
        BY <1>1, ElementOfSeq DEF Occurs
      <3>3. Left(x, w) \in Nat
        BY <3>2, LeftFacts
      <3>4. Left(x, w) = Left(y, v)
        BY <3>1 DEF Left
      <3> QED BY <3>3, <3>4
    <2> QED BY <2>1, <2>2
  <1>7. Gates(n2, h, own)
    <2>1. \A c \in Buffers : Held(h, c) => \A w \in Places : \A x :
              Occurs(x, n2[w]) /\ x[1] = own[c][1] => Occurs(x, n[w])
      BY <1>0, <1>1
    <2> QED BY <1>0, <2>1 DEF Gates
  <1> QED BY <1>1, <1>2, <1>3, <1>5, <1>6, <1>7 DEF WholeNet

--------------------------------------------------------------------------------

\* How the flits of a buffer by packet and place follow the buffer.
AnyId == Packets \X Nat

LEMMA IdsBasics ==
    ASSUME NEW s \in Seq(FlitSet)
    PROVE  /\ IdsOf(s) \in Seq(AnyId) /\ Len(IdsOf(s)) = Len(s)
           /\ \A k \in 1..Len(s) : IdsOf(s)[k] = Id(s[k]) /\ Id(s[k]) \in AnyId
           /\ (IdsOf(s) = <<>> <=> s = <<>>)
           /\ s # <<>> => Head(IdsOf(s)) = Id(Head(s))
  <1>1. Len(s) \in Nat /\ \A k \in 1..Len(s) : s[k] \in FlitSet
    BY LenProperties, ElementOfSeq
  <1>2. BufferSize \in Nat
    BY RingAssumption
  <1>3. \A k \in 1..Len(s) : Id(s[k]) \in AnyId
    BY <1>1, <1>2 DEF Id, AnyId, FlitSet
  <1>4. IdsOf(s) = [k \in 1..Len(s) |-> Id(s[k])]
    BY DEF IdsOf
  <1>5. IdsOf(s) \in Seq(AnyId) /\ Len(IdsOf(s)) = Len(s)
    BY <1>1, <1>3, <1>4
  <1>6. IdsOf(s) = <<>> <=> s = <<>>
    BY <1>5, EmptySeq
  <1>7. ASSUME s # <<>> PROVE Head(IdsOf(s)) = Id(Head(s))
    <2>1. Head(s) = s[1] /\ 1 \in 1..Len(s)
      BY <1>1, <1>7, EmptySeq
    <2>2. Head(IdsOf(s)) = IdsOf(s)[1]
      BY <1>5, <1>6, <1>7
    <2> QED BY <1>4, <2>1, <2>2
  <1> QED BY <1>3, <1>4, <1>5, <1>6, <1>7

LEMMA IdsSame ==
    ASSUME NEW s \in Seq(FlitSet), NEW t \in Seq(FlitSet), Len(s) = Len(t),
           \A k \in 1..Len(s) : Id(s[k]) = Id(t[k])
    PROVE  IdsOf(s) = IdsOf(t)
  BY DEF IdsOf

LEMMA IdsTail ==
    ASSUME NEW s \in Seq(FlitSet), s # <<>>
    PROVE  IdsOf(Tail(s)) = Tail(IdsOf(s))
  <1> DEFINE a == IdsOf(Tail(s))  b == Tail(IdsOf(s))
  <1>1. /\ Tail(s) \in Seq(FlitSet) /\ Len(Tail(s)) = Len(s) - 1 /\ Len(s) \in Nat
        /\ \A k \in 1..(Len(s) - 1) : Tail(s)[k] = s[k + 1]
    BY HeadTailProperties, LenProperties
  <1>2. /\ IdsOf(s) \in Seq(AnyId) /\ Len(IdsOf(s)) = Len(s) /\ IdsOf(s) # <<>>
        /\ \A k \in 1..Len(s) : IdsOf(s)[k] = Id(s[k])
    BY IdsBasics
  <1>3. /\ b \in Seq(AnyId) /\ Len(b) = Len(s) - 1
        /\ \A k \in 1..(Len(s) - 1) : b[k] = IdsOf(s)[k + 1]
    BY <1>2, HeadTailProperties
  <1>4. /\ a \in Seq(AnyId) /\ Len(a) = Len(s) - 1
        /\ \A k \in 1..(Len(s) - 1) : a[k] = Id(Tail(s)[k])
    BY <1>1, IdsBasics
  <1>5. \A k \in 1..(Len(s) - 1) : a[k] = b[k]
    BY <1>1, <1>2, <1>3, <1>4
  <1> HIDE DEF a, b
  <1>6. a = b
    BY <1>3, <1>4, <1>5, SeqEqual
  <1> QED BY <1>6 DEF a, b

LEMMA IdsAppend ==
    ASSUME NEW s \in Seq(FlitSet), NEW f \in FlitSet
    PROVE  IdsOf(Append(s, f)) = Append(IdsOf(s), Id(f))
  <1> DEFINE t == Append(s, f)  a == IdsOf(t)  b == Append(IdsOf(s), Id(f))
  <1>1. /\ t \in Seq(FlitSet) /\ Len(t) = Len(s) + 1 /\ Len(s) \in Nat
        /\ \A k \in 1..Len(s) : t[k] = s[k]
        /\ t[Len(s) + 1] = f
    BY AppendProperties, LenProperties
  <1>2. /\ IdsOf(s) \in Seq(AnyId) /\ Len(IdsOf(s)) = Len(s)
        /\ \A k \in 1..Len(s) : IdsOf(s)[k] = Id(s[k])
    BY IdsBasics
  <1> HIDE DEF t
  <1>3. /\ a \in Seq(AnyId) /\ Len(a) = Len(t)
        /\ \A k \in 1..Len(t) : a[k] = Id(t[k]) /\ Id(t[k]) \in AnyId
    BY <1>1, IdsBasics
  <1>4. Id(f) \in AnyId
    <2>1. Len(s) + 1 \in 1..Len(t)
      BY <1>1
    <2> QED BY <1>1, <1>3, <2>1
  <1>5. /\ b \in Seq(AnyId) /\ Len(b) = Len(s) + 1
        /\ \A k \in 1..Len(s) : b[k] = IdsOf(s)[k]
        /\ b[Len(s) + 1] = Id(f)
    BY <1>2, <1>4, AppendProperties
  <1> HIDE DEF a, b
  <1>6. \A k \in 1..(Len(s) + 1) : a[k] = b[k]
    <2> TAKE k \in 1..(Len(s) + 1)
    <2>1. CASE k \in 1..Len(s)
      BY <1>1, <1>2, <1>3, <1>5, <2>1
    <2>2. CASE k = Len(s) + 1
      BY <1>1, <1>3, <1>5, <2>2
    <2> QED BY <1>1, <2>1, <2>2
  <1>7. a = b
    BY <1>1, <1>3, <1>5, <1>6, SeqEqual
  <1> QED BY <1>7 DEF a, b, t

LEMMA IdsJoin ==
    ASSUME NEW s \in Seq(FlitSet), NEW t \in Seq(FlitSet)
    PROVE  IdsOf(s \o t) = IdsOf(s) \o IdsOf(t)
  <1> DEFINE u == s \o t  a == IdsOf(u)  b == IdsOf(s) \o IdsOf(t)
  <1>1. /\ Len(s) \in Nat /\ Len(t) \in Nat /\ Len(u) = Len(s) + Len(t) /\ u \in Seq(FlitSet)
        /\ \A k \in 1..(Len(s) + Len(t)) : u[k] = IF k <= Len(s) THEN s[k] ELSE t[k - Len(s)]
    BY ConcatProperties, LenProperties
  <1>2. /\ IdsOf(s) \in Seq(AnyId) /\ Len(IdsOf(s)) = Len(s)
        /\ \A k \in 1..Len(s) : IdsOf(s)[k] = Id(s[k])
    BY IdsBasics
  <1>3. /\ IdsOf(t) \in Seq(AnyId) /\ Len(IdsOf(t)) = Len(t)
        /\ \A k \in 1..Len(t) : IdsOf(t)[k] = Id(t[k])
    BY IdsBasics
  <1> HIDE DEF u
  <1>4. a \in Seq(AnyId) /\ Len(a) = Len(u) /\ \A k \in 1..Len(u) : a[k] = Id(u[k])
    BY <1>1, IdsBasics
  <1>5. /\ b \in Seq(AnyId) /\ Len(b) = Len(s) + Len(t)
        /\ \A k \in 1..(Len(s) + Len(t)) :
                b[k] = IF k <= Len(s) THEN IdsOf(s)[k] ELSE IdsOf(t)[k - Len(s)]
    <2> DEFINE x == IdsOf(s)  y == IdsOf(t)
    <2>1. x \in Seq(AnyId) /\ y \in Seq(AnyId) /\ Len(x) = Len(s) /\ Len(y) = Len(t)
      BY <1>2, <1>3
    <2> HIDE DEF x, y
    <2>2. /\ x \o y \in Seq(AnyId) /\ Len(x \o y) = Len(x) + Len(y)
          /\ \A k \in 1..(Len(x) + Len(y)) :
                (x \o y)[k] = IF k <= Len(x) THEN x[k] ELSE y[k - Len(x)]
      BY ONLY <2>1, ConcatProperties
    <2> QED BY <2>1, <2>2 DEF x, y
  <1> HIDE DEF a, b
  <1>6. \A k \in 1..(Len(s) + Len(t)) : a[k] = b[k]
    <2> TAKE k \in 1..(Len(s) + Len(t))
    <2>1. CASE k <= Len(s)
      BY <1>1, <1>2, <1>4, <1>5, <2>1
    <2>2. CASE ~(k <= Len(s))
      <3>1. k - Len(s) \in 1..Len(t)
        BY <1>1, <2>2
      <3> QED BY <1>1, <1>3, <1>4, <1>5, <2>2, <3>1
    <2> QED BY <2>1, <2>2
  <1>7. a = b
    BY <1>1, <1>4, <1>5, <1>6, SeqEqual
  <1> QED BY <1>7 DEF a, b, u

\* A change of its state does not change a flit otherwise.
LEMMA IdBecomes == \A f, s, w : Id(Becomes(f, s, w)) = Id(f)
  BY DEF Id, Becomes

LEMMA FrontFacts ==
    ASSUME NEW s \in Seq(FlitSet), NEW t \in States
    PROVE  /\ WithFront(s, t) \in Seq(FlitSet) /\ Len(WithFront(s, t)) = Len(s)
           /\ \A k \in 1..Len(s) : k # 1 => WithFront(s, t)[k] = s[k]
           /\ s # <<>> => WithFront(s, t)[1] = Becomes(s[1], t, s[1].wait)
           /\ IdsOf(WithFront(s, t)) = IdsOf(s)
  <1> DEFINE u == WithFront(s, t)
  <1>1. u \in Seq(FlitSet) /\ Len(u) = Len(s)
    BY FrontKeepsLength
  <1>2. u = [s EXCEPT ![1] = Becomes(s[1], t, s[1].wait)]
    BY DEF WithFront
  <1>3. Len(s) \in Nat /\ DOMAIN s = 1..Len(s)
    BY LenProperties
  <1>4. \A k \in 1..Len(s) : k # 1 => u[k] = s[k]
    BY <1>2, <1>3
  <1>5. s # <<>> => 1 \in 1..Len(s) /\ u[1] = Becomes(s[1], t, s[1].wait)
    BY <1>2, <1>3, EmptySeq
  <1> HIDE DEF u
  <1>6. \A k \in 1..Len(s) : Id(u[k]) = Id(s[k])
    <2> TAKE k \in 1..Len(s)
    <2>1. s # <<>>
      BY <1>3, EmptySeq
    <2>2. CASE k = 1
      BY <1>5, <2>1, <2>2, IdBecomes
    <2>3. CASE k # 1
      BY <1>4, <2>3
    <2> QED BY <2>2, <2>3
  <1>7. IdsOf(u) = IdsOf(s)
    BY <1>1, <1>6, IdsSame
  <1> QED BY <1>1, <1>4, <1>5, <1>7 DEF u

LEMMA IdsFlits ==
    ASSUME NEW p \in Packets
    PROVE  IdsOf(Flits(p)) = Cut(p)
  <1>1. p.size \in Nat
    BY RingAssumption
  <1>2. Len(Flits(p)) = p.size /\ \A k \in 1..p.size : Id(Flits(p)[k]) = <<p, k>>
    BY <1>1 DEF Flits, Id
  <1> QED BY <1>2 DEF IdsOf, Cut

--------------------------------------------------------------------------------

LEMMA NetFacts ==
    ASSUME NEW ins, NEW outs
    PROVE  /\ Net(ins, outs) = [w \in Places |-> Net(ins, outs)[w]]
           /\ \A b \in Buffers : /\ Net(ins, outs)[In(b)] = IdsOf(ins[b])
                                 /\ Net(ins, outs)[Out(b)] = IdsOf(outs[b])
  <1>1. \A b \in Buffers : /\ In(b) \in Places /\ In(b)[1] = "in" /\ In(b)[2] = b
                           /\ Out(b) \in Places /\ Out(b)[1] = "out" /\ Out(b)[2] = b
    BY InOutPlaces
  <1> QED BY <1>1 DEF Net

\* A flit is a tail, or a head, by its packet and place.
LEMMA TailId == \A f : (IsTail(f) <=> Tail1(Id(f))) /\ (IsHead(f) <=> Id(f)[2] = 1)
                       /\ Id(f)[1] = f.pkt
  BY DEF IsTail, IsHead, Tail1, Id

\* A channel is held when a port is written in it.
LEMMA HeldPort == \A h, c : h[c][1] \in Ports => Held(h, c)
  <1>1. "none" \notin Ports
    BY DEF Ports
  <1> QED BY <1>1 DEF Held, NoChannel

LEMMA KnobsSame == KnobsRight /\ UNCHANGED <<num_vc, stamp, now, ratio, clock, turn>> => KnobsRight'
  BY DEF KnobsRight

LEMMA RunningRouter == KnobsRight => Running \in Routers
  BY RingAssumption DEF KnobsRight, Running, Routers

\* The invariant after a step, by what the steps show of it.
LEMMA WholeAgain ==
    ASSUME KnobsRight', StatesRight', NEW own,
           WholeNet(Net(input', output'), holds', own, avail'),
           OneStage(Net(input', output'), holds', own, offered', injection', reqs', arrived')
    PROVE  WholeInv'
  BY DEF WholeInv, Whole

\* A flit that leaves the front of a buffer leaves the others in state IB.
LEMMA StatesTail ==
    ASSUME NEW s \in Seq(FlitSet), s # <<>>, \A k \in 1..Len(s) : s[k].state # "IB" => k = 1
    PROVE  \A k \in 1..Len(Tail(s)) : Tail(s)[k].state = "IB"
  <1>1. /\ Len(s) \in Nat /\ Len(Tail(s)) = Len(s) - 1
        /\ \A k \in 1..(Len(s) - 1) : Tail(s)[k] = s[k + 1]
    BY HeadTailProperties, LenProperties
  <1> SUFFICES ASSUME NEW k \in 1..(Len(s) - 1) PROVE Tail(s)[k].state = "IB"
    BY <1>1
  <1>2. k + 1 \in 1..Len(s) /\ k + 1 # 1 /\ Tail(s)[k] = s[k + 1]
    BY <1>1
  <1> QED BY <1>2

LEMMA SwitchKeeps == WholeInv /\ FlowInv /\ stage_st => WholeInv'
  <1> SUFFICES ASSUME WholeInv, FlowInv, stage_st PROVE WholeInv'
    OBVIOUS
  <1> DEFINE M == UNION {Switched(Running, op) : op \in Ports}
             n == Net(input, output)
             n2 == Net(input', output')
  <1>1. PICK own : Whole(n, holds, own, avail)
    BY DEF WholeInv
  <1>2. /\ WholeNet(n, holds, own, avail) /\ Owners(n, holds, avail)
        /\ OneStage(n, holds, own, offered, injection, reqs, arrived)
    BY <1>1 DEF Whole, WholeNet
  <1>3. /\ input \in [Buffers -> Seq(FlitSet)] /\ output \in [Buffers -> Seq(FlitSet)]
        /\ StatesRight /\ KnobsRight
    BY DEF FlowInv, FlowTypes, WholeInv
  <1>4. \A c \in M : c \in Buffers /\ c[1] = Running /\ Held(holds, c) /\ input[c] # <<>>
    BY HeldPort DEF Switched
  <1>5. /\ input' = [b \in Buffers |-> IF b \in M THEN Tail(input[b]) ELSE input[b]]
        /\ \A b \in Buffers :
                LET into == {c \in M : <<Running, holds[c][1], holds[c][2]>> = b}
                IN  output'[b] = IF into = {} THEN output[b]
                                 ELSE LET c == CHOOSE c \in into : TRUE
                                      IN  Append(output[b], Becomes(Head(input[c]), "ST", 0))
        /\ holds' = [b \in Buffers |->
                IF b \in M /\ IsTail(Head(input[b])) THEN NoChannel ELSE holds[b]]
        /\ UNCHANGED <<offered, injection, reqs, arrived, stamp, avail, num_vc, now, ratio, clock, turn>>
    BY DEF stage_st, ends, time
  <1> HIDE DEF M
  <1>6. \A c \in M : /\ IdsOf(input'[c]) = Tail(IdsOf(input[c])) /\ IdsOf(input[c]) # <<>>
                     /\ Head(IdsOf(input[c])) = Id(Head(input[c])) /\ Head(input[c]) \in FlitSet
    <2> TAKE c \in M
    <2>1. input[c] \in Seq(FlitSet) /\ input[c] # <<>> /\ input'[c] = Tail(input[c])
      BY <1>3, <1>4, <1>5
    <2> QED BY <2>1, IdsBasics, IdsTail, HeadTailProperties
  <1>7. \A c \in M : output'[To(holds, c)]
                        = Append(output[To(holds, c)], Becomes(Head(input[c]), "ST", 0))
    <2> TAKE c \in M
    <2> DEFINE b == To(holds, c)
               into == {d \in M : <<Running, holds[d][1], holds[d][2]>> = b}
    <2>1. b \in Buffers
      BY <1>2, <1>4, ToBuffer DEF WholeNet, WholeTypes
    <2>2. into = {c}
      <3>1. c \in into
        BY <1>4 DEF To
      <3>2. ASSUME NEW d \in into PROVE d = c
        <4>1. d \in Buffers /\ c \in Buffers /\ Held(holds, d) /\ Held(holds, c)
              /\ To(holds, d) = To(holds, c)
          BY <1>4 DEF To
        <4> QED BY <1>2, <4>1 DEF Owners
      <3> QED BY <3>1, <3>2
    <2>3. (CHOOSE d \in into : TRUE) = c /\ into # {}
      BY <2>2
    <2> HIDE DEF into
    <2>4. output'[b] = IF into = {} THEN output[b]
                       ELSE LET d == CHOOSE d \in into : TRUE
                            IN  Append(output[b], Becomes(Head(input[d]), "ST", 0))
      BY <1>5, <2>1 DEF into
    <2> QED BY <2>3, <2>4
  <1>8. \A b \in Buffers : (\A c \in M : To(holds, c) # b) => output'[b] = output[b]
    <2> SUFFICES ASSUME NEW b \in Buffers, \A c \in M : To(holds, c) # b
                 PROVE  output'[b] = output[b]
      OBVIOUS
    <2>1. {c \in M : <<Running, holds[c][1], holds[c][2]>> = b} = {}
      BY <1>4 DEF To
    <2> QED BY <1>5, <2>1
  <1> DEFINE own2 == [c \in Buffers |-> IF c \in M THEN Succ(own[c]) ELSE own[c]]
  <1>9. Switching(n, holds, own, n2, holds', own2, M, Running)
    <2>1. n2 = [w \in Places |-> n2[w]]
      BY NetFacts
    <2>2. \A b \in Buffers : /\ n[In(b)] = IdsOf(input[b]) /\ n[Out(b)] = IdsOf(output[b])
                             /\ n2[In(b)] = IdsOf(input'[b]) /\ n2[Out(b)] = IdsOf(output'[b])
      BY NetFacts
    <2> HIDE DEF n, n2
    <2>3. ASSUME NEW c \in M
          PROVE  /\ c[1] = Running /\ Held(holds, c) /\ n[In(c)] # <<>>
                 /\ n2[In(c)] = Tail(n[In(c)])
                 /\ n2[Out(To(holds, c))] = Append(n[Out(To(holds, c))], Head(n[In(c)]))
      <3>1. c \in Buffers /\ To(holds, c) \in Buffers
        BY <1>2, <1>4, ToBuffer DEF WholeNet, WholeTypes
      <3>2. Becomes(Head(input[c]), "ST", 0) \in FlitSet
        BY <1>6, FlitBecomes DEF States
      <3>3. IdsOf(output'[To(holds, c)]) = Append(IdsOf(output[To(holds, c)]), Id(Head(input[c])))
        <4> DEFINE s == output[To(holds, c)]  f == Becomes(Head(input[c]), "ST", 0)
        <4>1. s \in Seq(FlitSet) /\ f \in FlitSet /\ Id(f) = Id(Head(input[c]))
          BY <1>3, <3>1, <3>2, IdBecomes
        <4>2. output'[To(holds, c)] = Append(s, f)
          BY <1>7
        <4> HIDE DEF s, f
        <4>3. IdsOf(Append(s, f)) = Append(IdsOf(s), Id(f))
          BY ONLY <4>1, IdsAppend
        <4> QED BY <4>1, <4>2, <4>3 DEF s
      <3> QED BY <1>4, <1>6, <2>2, <3>1, <3>3
    <2>4. \A c \in Buffers : c \notin M => n2[In(c)] = n[In(c)]
      BY <1>5, <2>2
    <2>5. \A b \in Buffers : (\A c \in M : To(holds, c) # b) => n2[Out(b)] = n[Out(b)]
      BY <1>8, <2>2
    <2>6. holds' = [c \in Buffers |->
                        IF c \in M /\ Tail1(Head(n[In(c)])) THEN NoChannel ELSE holds[c]]
      <3>1. \A c \in M : IsTail(Head(input[c])) <=> Tail1(Head(n[In(c)]))
        <4> TAKE c \in M
        <4>1. c \in Buffers
          BY <1>4
        <4>2. Head(n[In(c)]) = Id(Head(input[c]))
          BY <1>6, <2>2, <4>1
        <4> QED BY <4>2, TailId
      <3> QED BY <1>5, <3>1
    <2> HIDE DEF own2
    <2>7. own2 = [c \in Buffers |-> IF c \in M THEN Succ(own[c]) ELSE own[c]]
      BY DEF own2
    <2> QED BY <1>4, <2>1, <2>3, <2>4, <2>5, <2>6, <2>7 DEF Switching
  <1> HIDE DEF own2, n, n2
  <1>10. /\ WholeNet(n2, holds', own2, avail) /\ Moving(n2) \subseteq Moving(n)
         /\ \A c \in Buffers : Held(holds', c) => Held(holds, c) /\ own2[c][1] = own[c][1]
    BY <1>2, <1>9, SwitchWhole
  <1>11. OneStage(n2, holds', own2, offered, injection, reqs, arrived)
    BY <1>2, <1>10, StagesFollow
  <1>12. StatesRight'
    <2> SUFFICES ASSUME NEW c \in Buffers, NEW k \in 1..Len(input'[c])
                 PROVE  /\ input'[c][k].state # "IB" => k = 1
                        /\ input'[c][k].state = "RC" => ~Held(holds', c)
      BY DEF StatesRight
    <2>1. \A j \in 1..Len(input[c]) : /\ input[c][j].state # "IB" => j = 1
                                      /\ input[c][j].state = "RC" => ~Held(holds, c)
      BY <1>3 DEF StatesRight
    <2>2. CASE c \in M
      <3>1. input[c] \in Seq(FlitSet) /\ input[c] # <<>> /\ input'[c] = Tail(input[c])
        BY <1>3, <1>4, <1>5, <2>2
      <3>2. \A j \in 1..Len(Tail(input[c])) : Tail(input[c])[j].state = "IB"
        BY <2>1, <3>1, StatesTail
      <3> QED BY <3>1, <3>2
    <2>3. CASE c \notin M
      <3>1. input'[c] = input[c] /\ holds'[c] = holds[c]
        BY <1>5, <2>3
      <3> QED BY <2>1, <3>1 DEF Held
    <2> QED BY <2>2, <2>3
  <1>13. KnobsRight'
    BY <1>3, <1>5, KnobsSame
  <1>14. /\ WholeNet(n2, holds', own2, avail')
         /\ OneStage(n2, holds', own2, offered', injection', reqs', arrived')
    BY <1>5, <1>10, <1>11
  <1> QED BY <1>12, <1>13, <1>14, WholeAgain DEF n2

LEMMA BuffersFinite == IsFiniteSet(Buffers)
  <1>1. IsFiniteSet(Routers) /\ IsFiniteSet(VCs)
    BY RingAssumption, FS_Interval DEF Routers, VCs
  <1>2. IsFiniteSet(Ports)
    <2>1. IsFiniteSet({}) /\ Ports = {} \cup {"LOCAL"} \cup {"LEFT"} \cup {"RIGHT"}
      BY FS_EmptySet DEF Ports
    <2> QED BY <2>1, FS_AddElement
  <1>3. IsFiniteSet(Ports \X VCs)
    BY <1>1, <1>2, FS_Product
  <1>4. IsFiniteSet(Routers \X (Ports \X VCs))
    BY <1>1, <1>3, FS_Product
  <1> DEFINE f == [x \in Routers \X (Ports \X VCs) |-> <<x[1], x[2][1], x[2][2]>>]
  <1>5. f \in Surjection(Routers \X (Ports \X VCs), Buffers)
    <2>1. f \in [Routers \X (Ports \X VCs) -> Buffers]
      BY DEF Buffers
    <2>2. ASSUME NEW b \in Buffers PROVE \E x \in Routers \X (Ports \X VCs) : f[x] = b
      <3>1. b = <<b[1], b[2], b[3]>> /\ <<b[1], <<b[2], b[3]>>>> \in Routers \X (Ports \X VCs)
        BY DEF Buffers
      <3>2. f[<<b[1], <<b[2], b[3]>>>>] = <<b[1], b[2], b[3]>>
        BY <3>1
      <3> QED BY <3>1, <3>2
    <2> QED BY <2>1, <2>2 DEF Surjection
  <1> QED BY <1>4, <1>5, FS_Surjection

\* The packets whose tails leave the network at a router, as stage_lt lists them.
InFront(outs, K) == {Head(outs[b]).pkt : b \in K}

LEMMA LeavingListed ==
    ASSUME NEW K, K \subseteq Buffers, NEW outs, NEW s, s = SetToSeq(InFront(outs, K)),
           \A b \in K : Head(outs[b]).pkt \in Packets
    PROVE  /\ s \in Seq(Packets) /\ OnceEach(s)
           /\ \A p : Occurs(p, s) => \E b \in K : p = Head(outs[b]).pkt
  <1> DEFINE f == [b \in K |-> Head(outs[b]).pkt]
             S == InFront(outs, K)
  <1>1. IsFiniteSet(K)
    BY BuffersFinite, FS_Subset
  <1>2. f \in Surjection(K, S)
    BY DEF Surjection, InFront
  <1>3. IsFiniteSet(S)
    BY <1>1, <1>2, FS_Surjection
  <1> HIDE DEF f
  <1>4. S \subseteq Packets /\ \A p \in S : \E b \in K : p = Head(outs[b]).pkt
    BY DEF InFront
  <1>5. s = SetToSeq(S)
    OBVIOUS
  <1> HIDE DEF S
  <1>6. s \in Seq(S) /\ OnceEach(s) /\ \A x : Occurs(x, s) <=> x \in S
    BY <1>3, <1>5, SetListed
  <1>7. s \in Seq(Packets)
    <2>1. Len(s) \in Nat /\ s \in [1..Len(s) -> S]
      BY <1>6, LenProperties
    <2>2. s \in [1..Len(s) -> Packets]
      BY <1>4, <2>1
    <2> QED BY <2>1, <2>2
  <1> QED BY <1>4, <1>6, <1>7

LEMMA LinkKeeps == WholeInv /\ FlowInv /\ stage_lt => WholeInv'
  <1> SUFFICES ASSUME WholeInv, FlowInv, stage_lt PROVE WholeInv'
    OBVIOUS
  <1>0. Running \in Routers
    BY RunningRouter DEF WholeInv
  <1> DEFINE i == Running
             L == {b \in Buffers : b[1] = i /\ Reached(i, b[2]) /\ LinkWinner(b)}
             K == {c \in L \ {b \in L : b[2] # "LOCAL"} : IsTail(Head(output[c]))}
             s == SetToSeq({Head(output[b]).pkt : b \in K})
             n == Net(input, output)
             n2 == Net(input', output')
             flit(b) == Becomes(Head(output[b]), "IB", latency + 1)
  <1>1. PICK own : Whole(n, holds, own, avail)
    BY DEF WholeInv
  <1>2. /\ WholeNet(n, holds, own, avail) /\ Owners(n, holds, avail)
        /\ OneStage(n, holds, own, offered, injection, reqs, arrived)
    BY <1>1 DEF Whole, WholeNet
  <1>3. /\ input \in [Buffers -> Seq(FlitSet)] /\ output \in [Buffers -> Seq(FlitSet)]
        /\ StatesRight /\ KnobsRight /\ latency \in Nat
    BY DEF FlowInv, FlowTypes, WholeInv
  <1>4. \A b \in L : b \in Buffers /\ b[1] = i /\ output[b] # <<>>
    BY DEF LinkWinner, Able
  <1>5. /\ output' = [b \in Buffers |-> IF b \in L THEN Tail(output[b]) ELSE output[b]]
        /\ input' = [b \in Buffers |->
                IF b[2] # "LOCAL" /\ Other(b) \in L /\ Other(b)[2] # "LOCAL"
                THEN Append(input[b], flit(Other(b))) ELSE input[b]]
        /\ avail' = [b \in Buffers |-> avail[b] \/ (b \in L /\ IsTail(Head(output[b])))]
        /\ reqs' = [reqs EXCEPT ![i] = reqs[i] \o s]
        /\ UNCHANGED <<offered, injection, arrived, stamp, holds, num_vc, now, ratio, clock, turn>>
    BY DEF stage_lt
  <1>6. K \subseteq L /\ \A b \in K : b[2] = "LOCAL" /\ IsTail(Head(output[b]))
    OBVIOUS
  <1> HIDE DEF L, K, i, s
  <1>7. \A b \in L : /\ IdsOf(output'[b]) = Tail(IdsOf(output[b])) /\ IdsOf(output[b]) # <<>>
                     /\ Head(IdsOf(output[b])) = Id(Head(output[b])) /\ Head(output[b]) \in FlitSet
                     /\ flit(b) \in FlitSet /\ Id(flit(b)) = Id(Head(output[b]))
                     /\ flit(b).state = "IB"
    <2> TAKE b \in L
    <2>1. output[b] \in Seq(FlitSet) /\ output[b] # <<>> /\ output'[b] = Tail(output[b])
      BY <1>3, <1>4, <1>5
    <2>2. Head(output[b]) \in FlitSet
      BY <2>1, HeadTailProperties
    <2>3. flit(b) \in FlitSet
      BY <1>3, <2>2, FlitBecomes DEF States
    <2>4. flit(b).state = "IB"
      BY DEF Becomes
    <2> QED BY <2>1, <2>2, <2>3, <2>4, IdsBasics, IdsTail, IdBecomes
  <1> HIDE DEF flit
  <1>8. \A c \in Buffers : \/ /\ c[2] # "LOCAL" /\ Other(c) \in L
                              /\ input'[c] = Append(input[c], flit(Other(c)))
                           \/ /\ c[2] = "LOCAL" \/ Other(c) \notin L
                              /\ input'[c] = input[c]
    <2> TAKE c \in Buffers
    <2>1. c[2] # "LOCAL" => Other(c)[2] # "LOCAL"
      BY OtherEnd
    <2> QED BY <1>5, <2>1
  <1>9. Linking(n, avail, n2, avail', L)
    <2>1. n2 = [w \in Places |-> n2[w]]
      BY NetFacts
    <2>2. \A b \in Buffers : /\ n[In(b)] = IdsOf(input[b]) /\ n[Out(b)] = IdsOf(output[b])
                             /\ n2[In(b)] = IdsOf(input'[b]) /\ n2[Out(b)] = IdsOf(output'[b])
      BY NetFacts
    <2> HIDE DEF n, n2
    <2>3. \A b \in L : n[Out(b)] # <<>> /\ n2[Out(b)] = Tail(n[Out(b)])
      BY <1>4, <1>7, <2>2
    <2>4. ASSUME NEW b \in L, b[2] # "LOCAL"
          PROVE  n2[In(Other(b))] = Append(n[In(Other(b))], Head(n[Out(b)]))
      <3> DEFINE c == Other(b)  t == input[c]  f == flit(b)
      <3>1. c \in Buffers /\ c[2] # "LOCAL" /\ Other(c) = b /\ b \in Buffers
        BY <1>4, <2>4, OtherEnd
      <3>2. input'[c] = Append(t, f)
        BY <1>8, <3>1
      <3>3. t \in Seq(FlitSet) /\ f \in FlitSet /\ Id(f) = Head(n[Out(b)])
        BY <1>3, <1>7, <2>2, <3>1
      <3> HIDE DEF t, f, c
      <3>4. IdsOf(Append(t, f)) = Append(IdsOf(t), Id(f))
        BY ONLY <3>3, IdsAppend
      <3>5. n2[In(c)] = IdsOf(input'[c]) /\ n[In(c)] = IdsOf(t)
        BY <2>2, <3>1 DEF t
      <3> QED BY <3>2, <3>3, <3>4, <3>5 DEF c
    <2>5. \A b \in Buffers : b \notin L => n2[Out(b)] = n[Out(b)]
      BY <1>5, <2>2
    <2>6. \A c \in Buffers : c[2] = "LOCAL" \/ Other(c) \notin L => n2[In(c)] = n[In(c)]
      BY <1>8, <2>2
    <2>7. avail' = [b \in Buffers |-> avail[b] \/ (b \in L /\ Tail1(Head(n[Out(b)])))]
      <3>1. \A b \in L : IsTail(Head(output[b])) <=> Tail1(Head(n[Out(b)]))
        <4> TAKE b \in L
        <4>1. Head(n[Out(b)]) = Id(Head(output[b]))
          BY <1>4, <1>7, <2>2
        <4> QED BY <4>1, TailId
      <3> QED BY <1>5, <3>1
    <2>8. L \subseteq Buffers
      BY <1>4
    <2> QED BY <2>1, <2>3, <2>4, <2>5, <2>6, <2>7, <2>8 DEF Linking
  <1>10. \A b \in L : Head(n[Out(b)]) = Id(Head(output[b]))
    <2> TAKE b \in L
    <2>1. n[Out(b)] = IdsOf(output[b])
      BY <1>4, NetFacts
    <2> QED BY <1>7, <2>1
  <1> HIDE DEF n, n2
  <1>11. /\ WholeNet(n2, holds, own, avail') /\ Moving(n2) \subseteq Moving(n)
         /\ \A b \in L : LET x == Head(n[Out(b)])
                         IN  b[2] = "LOCAL" /\ Tail1(x) =>
                                /\ x[1] \in Moving(n) /\ x[1] \notin Moving(n2)
                                /\ x[1] \in Packets /\ x[1].dst = b[1]
    BY <1>2, <1>9, LinkWhole
  <1>12. \A b \in K : LET p == Head(output[b]).pkt
                      IN  p \in Moving(n) /\ p \notin Moving(n2) /\ p \in Packets /\ p.dst = i
    <2> TAKE b \in K
    <2>1. b \in L /\ b[2] = "LOCAL" /\ b[1] = i
      BY <1>4, <1>6
    <2>2. /\ Tail1(Head(n[Out(b)])) /\ Head(n[Out(b)])[1] = Head(output[b]).pkt
      BY <1>6, <1>10, <2>1, TailId
    <2> QED BY <1>11, <2>1, <2>2
  <1>13. Arriving(reqs, reqs', s, i, n, n2)
    <2>1. /\ s \in Seq(Packets) /\ OnceEach(s)
          /\ \A p : Occurs(p, s) => \E b \in K : p = Head(output[b]).pkt
      <3>1. K \subseteq Buffers /\ \A b \in K : Head(output[b]).pkt \in Packets
        BY <1>4, <1>6, <1>12
      <3>2. s = SetToSeq(InFront(output, K))
        BY DEF s, InFront
      <3> QED BY ONLY <3>1, <3>2, LeavingListed
    <2>2. \A p : Occurs(p, s) => p \in Moving(n) /\ p \notin Moving(n2) /\ p.dst = i
      BY <1>12, <2>1
    <2> QED BY <1>0, <1>5, <2>1, <2>2 DEF Arriving, i
  <1>14. OneStage(n2, holds, own, offered, injection, reqs', arrived)
    <2>1. \A c \in Buffers : Held(holds, c) => Held(holds, c) /\ own[c][1] = own[c][1]
      OBVIOUS
    <2> QED BY ONLY <1>2, <1>11, <1>13, <2>1, StagesArrive
  <1>15. StatesRight'
    <2> SUFFICES ASSUME NEW c \in Buffers, NEW k \in 1..Len(input'[c])
                 PROVE  /\ input'[c][k].state # "IB" => k = 1
                        /\ input'[c][k].state = "RC" => ~Held(holds', c)
      BY DEF StatesRight
    <2>1. \A j \in 1..Len(input[c]) : /\ input[c][j].state # "IB" => j = 1
                                      /\ input[c][j].state = "RC" => ~Held(holds, c)
      BY <1>3 DEF StatesRight
    <2>2. holds' = holds
      BY <1>5
    <2>3. CASE c[2] # "LOCAL" /\ Other(c) \in L
      <3> DEFINE t == input[c]  f == flit(Other(c))
      <3>1. t \in Seq(FlitSet) /\ f \in FlitSet /\ f.state = "IB" /\ input'[c] = Append(t, f)
        BY <1>3, <1>7, <1>8, <2>3
      <3> HIDE DEF t, f
      <3>2. /\ Len(Append(t, f)) = Len(t) + 1 /\ Len(t) \in Nat
            /\ (\A j \in 1..Len(t) : Append(t, f)[j] = t[j]) /\ Append(t, f)[Len(t) + 1] = f
        BY <3>1, AppendProperties, LenProperties
      <3>3. CASE k \in 1..Len(t)
        BY <2>1, <2>2, <3>1, <3>2, <3>3 DEF t
      <3>4. CASE k = Len(t) + 1
        BY <3>1, <3>2, <3>4
      <3>5. k \in 1..(Len(t) + 1)
        BY <3>1, <3>2
      <3> QED BY <3>2, <3>3, <3>4, <3>5
    <2>4. CASE c[2] = "LOCAL" \/ Other(c) \notin L
      BY <1>8, <2>1, <2>2, <2>4
    <2> QED BY <2>3, <2>4
  <1>16. KnobsRight'
    BY <1>3, <1>5, KnobsSame
  <1>17. /\ WholeNet(n2, holds', own, avail')
         /\ OneStage(n2, holds', own, offered', injection', reqs', arrived')
    BY <1>5, <1>11, <1>14
  <1> QED BY <1>15, <1>16, <1>17, WholeAgain DEF n2

--------------------------------------------------------------------------------

\* Of the flits that compete there is one that is older than the others.
LEMMA WinnerIn ==
    ASSUME input \in [Buffers -> Seq(FlitSet)], stamp \in [Packets -> Nat], NEW i \in Routers,
           NEW C, C \subseteq Ports \X VCs, C # {},
           \A c \in C : input[<<i, c[1], c[2]>>] # <<>>
    PROVE  Winner(i, C) \in C
  <1> DEFINE S(c) == stamp[Head(input[<<i, c[1], c[2]>>]).pkt]
             S1 == {S(c) : c \in C}
  <1>1. \A c \in C : S(c) \in Nat /\ c[2] \in Nat /\ Rank(c[1]) \in Nat /\ c = <<c[1], c[2]>>
                     /\ c[1] \in Ports
    <2> TAKE c \in C
    <2>1. <<i, c[1], c[2]>> \in Buffers /\ c[1] \in Ports /\ c[2] \in VCs /\ c = <<c[1], c[2]>>
      BY DEF Buffers
    <2>2. Head(input[<<i, c[1], c[2]>>]) \in FlitSet
      BY <2>1, HeadTailProperties
    <2>3. Head(input[<<i, c[1], c[2]>>]).pkt \in Packets
      BY <2>2 DEF FlitSet
    <2> QED BY <2>1, <2>3 DEF Rank, VCs
  <1>2. \A q, r \in Ports : Rank(q) = Rank(r) => q = r
    BY DEF Rank, Ports
  <1> HIDE DEF S
  <1>3. PICK s \in S1 : \A t \in S1 : s <= t
    <2>1. S1 \subseteq Nat /\ S1 # {}
      BY <1>1
    <2> QED BY <2>1, Least
  <1> DEFINE C2 == {c \in C : S(c) = s}
             S2 == {Rank(c[1]) : c \in C2}
  <1>4. PICK r \in S2 : \A t \in S2 : r <= t
    <2>1. S2 \subseteq Nat /\ S2 # {}
      BY <1>1, <1>3
    <2> QED BY <2>1, Least
  <1> DEFINE C3 == {c \in C2 : Rank(c[1]) = r}
             S3 == {c[2] : c \in C3}
  <1>5. PICK v \in S3 : \A t \in S3 : v <= t
    <2>1. S3 \subseteq Nat /\ S3 # {}
      BY <1>1, <1>4
    <2> QED BY <2>1, Least
  <1>6. PICK c \in C3 : c[2] = v
    BY <1>5
  <1>7. c \in C /\ S(c) = s /\ Rank(c[1]) = r
    BY <1>6
  <1>8. ASSUME NEW d \in C \ {c}
        PROVE  \/ S(c) < S(d)
               \/ S(c) = S(d) /\ Rank(c[1]) < Rank(d[1])
               \/ S(c) = S(d) /\ c[1] = d[1] /\ c[2] < d[2]
    <2>1. S(c) \in Nat /\ S(d) \in Nat /\ S(c) <= S(d)
      BY <1>1, <1>3, <1>7
    <2>2. S(c) = S(d) => /\ Rank(c[1]) \in Nat /\ Rank(d[1]) \in Nat /\ Rank(c[1]) <= Rank(d[1])
      <3> SUFFICES ASSUME S(c) = S(d)
                   PROVE  Rank(c[1]) \in Nat /\ Rank(d[1]) \in Nat /\ Rank(c[1]) <= Rank(d[1])
        OBVIOUS
      <3>1. d \in C2
        BY <1>7
      <3>2. Rank(d[1]) \in S2
        BY <3>1
      <3> QED BY <1>1, <1>4, <1>7, <3>2
    <2>3. S(c) = S(d) /\ Rank(c[1]) = Rank(d[1]) => c[1] = d[1] /\ c[2] < d[2]
      <3> SUFFICES ASSUME S(c) = S(d), Rank(c[1]) = Rank(d[1])
                   PROVE  c[1] = d[1] /\ c[2] < d[2]
        OBVIOUS
      <3>1. c[1] = d[1]
        BY <1>1, <1>2, <1>7
      <3>2. d \in C3
        BY <1>7
      <3>3. c[2] <= d[2]
        BY <1>5, <1>6, <3>2
      <3>4. c[2] # d[2]
        BY <1>1, <1>7, <3>1
      <3>5. c[2] \in Nat /\ d[2] \in Nat
        BY <1>1, <1>7
      <3> QED BY <3>1, <3>3, <3>4, <3>5
    <2> QED BY <2>1, <2>2, <2>3
  <1>9. \E x \in C : \A d \in C \ {x} :
            LET a == stamp[Head(input[<<i, x[1], x[2]>>]).pkt]
                t == stamp[Head(input[<<i, d[1], d[2]>>]).pkt]
            IN  \/ a < t
                \/ a = t /\ Rank(x[1]) < Rank(d[1])
                \/ a = t /\ x[1] = d[1] /\ x[2] < d[2]
    BY <1>7, <1>8 DEF S
  <1> QED BY <1>9 DEF Winner

\* What a grant is, and the grants of the first k channels of a port.
AnyGrant == [from : Buffers, to : Ports \X VCs]
GoodGrant(i, op, k, g) ==
    /\ g \in AnyGrant /\ g.from[1] = i /\ g.to[1] = op /\ g.to[2] < k
    /\ avail[<<i, g.to[1], g.to[2]>>] /\ input[g.from] # <<>>
    /\ IsHead(Head(input[g.from])) /\ Head(input[g.from]).state = "RC"
    /\ Route(i, Head(input[g.from]).pkt) = op
GoodGrants(i, op, k, G) ==
    /\ \A g \in G : GoodGrant(i, op, k, g)
    /\ \A g, e \in G : g.from = e.from \/ g.to = e.to => g = e
Buffered ==
    input \in [Buffers -> Seq(FlitSet)] /\ stamp \in [Packets -> Nat] /\ num_vc \in 1..MaxVC

LEMMA GiveFacts ==
    ASSUME Buffered, NEW i \in Routers, NEW op \in Ports, NEW v \in 0..(num_vc - 1),
           NEW G \in SUBSET AnyGrant
    PROVE  \/ Give(i, op, G, v) = G
           \/ \E g \in AnyGrant : /\ Give(i, op, G, v) = G \cup {g}
                                  /\ g.to[2] = v /\ \A e \in G : e.from # g.from
                                  /\ GoodGrant(i, op, v + 1, g)
  <1> DEFINE open == {c \in Wants(i, op, v) : \A g \in G : g.from # <<i, c[1], c[2]>>}
             c == Winner(i, open)
             b == <<i, c[1], c[2]>>
             g == [from |-> b, to |-> <<op, v>>]
  <1>1. Give(i, op, G, v) = IF ~avail[<<i, op, v>>] \/ open = {} THEN G ELSE G \cup {g}
    BY DEF Give
  <1>2. CASE avail[<<i, op, v>>] /\ open # {}
    <2>1. /\ open \subseteq Ports \X VCs
          /\ \A d \in open : input[<<i, d[1], d[2]>>] # <<>>
      BY DEF Wants
    <2> HIDE DEF open
    <2>2. c \in open
      BY <1>2, <2>1, WinnerIn DEF Buffered
    <2> HIDE DEF c
    <2>3. /\ c \in Ports \X VCs /\ input[b] # <<>> /\ IsHead(Head(input[b]))
          /\ Head(input[b]).state = "RC" /\ Route(i, Head(input[b]).pkt) = op
          /\ \A e \in G : e.from # b
      BY <2>2 DEF open, Wants
    <2>4. b \in Buffers /\ b[1] = i
      BY <2>3 DEF Buffers
    <2>5. v \in VCs /\ v < v + 1
      BY RingAssumption DEF VCs, Buffered
    <2>6. <<op, v>> \in Ports \X VCs
      BY <2>5
    <2> HIDE DEF b
    <2>7. g \in AnyGrant /\ g.from = b /\ g.to = <<op, v>> /\ g.to[1] = op /\ g.to[2] = v
      BY <2>4, <2>6 DEF AnyGrant
    <2> HIDE DEF g
    <2>8. GoodGrant(i, op, v + 1, g)
      BY <1>2, <2>3, <2>4, <2>5, <2>7 DEF GoodGrant
    <2> QED BY <1>1, <1>2, <2>3, <2>7, <2>8
  <1> QED BY <1>1, <1>2

LEMMA GiveGood ==
    ASSUME Buffered, NEW i \in Routers, NEW op \in Ports, NEW v \in 0..(num_vc - 1),
           NEW G, GoodGrants(i, op, v, G)
    PROVE  GoodGrants(i, op, v + 1, Give(i, op, G, v))
  <1>1. G \in SUBSET AnyGrant
    BY DEF GoodGrants, GoodGrant
  <1>2. \A g \in G : g.to[2] < v /\ g.to[2] \in Nat /\ GoodGrant(i, op, v + 1, g)
    <2> TAKE g \in G
    <2>1. GoodGrant(i, op, v, g)
      BY DEF GoodGrants
    <2>2. g.to \in Ports \X VCs /\ g.to[2] < v
      BY <2>1 DEF GoodGrant, AnyGrant
    <2>3. g.to[2] \in Nat /\ v \in Nat
      BY <2>2 DEF VCs
    <2>4. g.to[2] < v + 1
      BY <2>2, <2>3
    <2> QED BY <2>1, <2>2, <2>3, <2>4 DEF GoodGrant
  <1>3. CASE Give(i, op, G, v) = G
    BY <1>2, <1>3 DEF GoodGrants
  <1>4. ASSUME NEW g \in AnyGrant, Give(i, op, G, v) = G \cup {g}, g.to[2] = v,
               \A e \in G : e.from # g.from, GoodGrant(i, op, v + 1, g)
        PROVE  GoodGrants(i, op, v + 1, Give(i, op, G, v))
    <2>1. \A e \in G : e.to # g.to
      BY <1>2, <1>4
    <2> QED BY <1>2, <1>4, <2>1 DEF GoodGrants
  <1> QED BY <1>1, <1>3, <1>4, GiveFacts

LEMMA GrantsGood ==
    ASSUME Buffered, NEW i \in Routers, NEW op \in Ports
    PROVE  GoodGrants(i, op, num_vc, Grants(i, op))
  <1> DEFINE n == num_vc
             q == [v \in 1..num_vc |-> v - 1]
             D == DOMAIN q
             X == SUBSET AnyGrant
             c == [t \in SUBSET D |-> Max(t)]
             none == {}
             h == [y \in X \X D |-> Give(i, op, y[1], q[y[2]])]
             iter == CHOOSE it : it = [t \in SUBSET D |->
                        IF t = {} THEN {} ELSE Give(i, op, it[t \ {Max(t)}], q[Max(t)])]
  <1>1. /\ n \in Nat /\ D = 1..n /\ IsFiniteSet(D)
        /\ \A k \in D : q[k] = k - 1 /\ q[k] \in 0..(num_vc - 1)
    <2>1. n \in Nat
      BY RingAssumption DEF Buffered
    <2>2. D = 1..n /\ \A k \in D : q[k] = k - 1
      OBVIOUS
    <2>3. \A k \in 1..n : k - 1 \in 0..(n - 1)
      BY <2>1
    <2>4. IsFiniteSet(1..n)
      BY <2>1, FS_Interval
    <2> HIDE DEF D, q
    <2> QED BY <2>1, <2>2, <2>3, <2>4
  <1>2. Grants(i, op) = iter[D]
    BY DEF Grants, FoldLeft, MapThenFoldSet
  <1>3. \A t \in SUBSET D : t # {} => c[t] \in t /\ c[t] = Max(t)
    <2> HIDE DEF n, D
    <2>1. ASSUME NEW t \in SUBSET D, t # {} PROVE Max(t) \in t
      BY <1>1, <2>1, LargestIn
    <2> QED BY <2>1
  <1> HIDE DEF D, q
  <1>4. \A x \in X, k \in D : /\ h[<<x, k>>] \in X /\ h[<<x, k>>] = Give(i, op, x, q[k])
    <2> TAKE x \in X, k \in D
    <2>1. h[<<x, k>>] = Give(i, op, x, q[k])
      OBVIOUS
    <2>2. q[k] \in 0..(num_vc - 1)
      BY <1>1
    <2>3. Give(i, op, x, q[k]) \in X
      BY <2>2, GiveFacts
    <2> QED BY <2>1, <2>3
  <1>5. none \in X /\ none = {}
    OBVIOUS
  <1> HIDE DEF n, c, h, none, X
  <1>6. PICK g \in [SUBSET D -> X] : Folds(g, D, none, c, h)
    BY <1>1, <1>3, <1>4, <1>5, FoldExists DEF Picks, Keeps
  <1>7. g = [t \in SUBSET D |->
                IF t = {} THEN {} ELSE Give(i, op, g[t \ {Max(t)}], q[Max(t)])]
    <2>1. ASSUME NEW t \in SUBSET D
          PROVE  g[t] = IF t = {} THEN {} ELSE Give(i, op, g[t \ {Max(t)}], q[Max(t)])
      <3>1. CASE t = {}
        BY <3>1, <1>5, <1>6 DEF Folds
      <3>2. CASE t # {}
        <4>1. /\ c[t] = Max(t) /\ Max(t) \in D /\ t \ {Max(t)} \in SUBSET D
              /\ g[t \ {Max(t)}] \in X
          BY <1>3, <1>6, <3>2
        <4>2. g[t] = h[<<g[t \ {c[t]}], c[t]>>]
          BY <1>6, <3>2 DEF Folds
        <4> QED BY <1>4, <3>2, <4>1, <4>2
      <3> QED BY <3>1, <3>2
    <2> QED BY <2>1
  <1>8. iter = [t \in SUBSET D |->
                IF t = {} THEN {} ELSE Give(i, op, iter[t \ {Max(t)}], q[Max(t)])]
    BY <1>7
  <1> HIDE DEF iter
  <1>9. iter[{}] = none /\ \A t \in SUBSET D : t # {} /\ iter[t \ {c[t]}] \in X =>
                iter[t] = h[<<iter[t \ {c[t]}], c[t]>>]
    <2>1. iter[{}] = none
      BY <1>5, <1>8
    <2>2. ASSUME NEW t \in SUBSET D, t # {}, iter[t \ {c[t]}] \in X
          PROVE  iter[t] = h[<<iter[t \ {c[t]}], c[t]>>]
      <3>1. c[t] = Max(t) /\ c[t] \in D
        BY <1>3, <2>2
      <3>2. iter[t] = Give(i, op, iter[t \ {c[t]}], q[c[t]])
        BY <1>8, <2>2, <3>1
      <3> DEFINE v == iter[t \ {c[t]}]
                 j == c[t]
      <3>3. v \in X /\ j \in D /\ iter[t] = Give(i, op, v, q[j])
        BY <2>2, <3>1, <3>2
      <3> HIDE DEF v, j
      <3>4. iter[t] = h[<<v, j>>]
        BY <1>4, <3>3
      <3> QED BY <3>4 DEF v, j
    <2> QED BY <2>1, <2>2
  <1>10. (\A t \in SUBSET D : iter[t] \in X) /\ Folds(iter, D, none, c, h)
    <2>1. Picks(c, D) /\ Keeps(h, X, D)
      BY <1>3, <1>4 DEF Picks, Keeps
    <2>2. Recurs(iter, D, X, none, c, h)
      BY <1>9 DEF Recurs
    <2> QED BY <1>1, <1>5, <2>1, <2>2, FoldStays
  <1>11. iter[1..0] = none /\ \A k \in 1..n : iter[1..k] = h[<<iter[1..(k - 1)], k>>]
    <2>1. \A t \in SUBSET (1..n) : c[t] = Max(t)
      BY <1>1 DEF c
    <2>2. n \in Nat /\ Folds(iter, 1..n, none, c, h)
      BY <1>1, <1>10
    <2> QED BY <2>1, <2>2, PrefixFold
  <1> DEFINE P(k) == GoodGrants(i, op, k, iter[1..k])
             T == {k \in 0..n : P(k)}
  <1>12. 0 \in T
    <2>1. GoodGrants(i, op, 0, {})
      BY DEF GoodGrants
    <2>2. iter[1..0] = {}
      BY <1>5, <1>11
    <2>3. P(0) /\ 0 \in 0..n
      BY <1>1, <2>1, <2>2
    <2> HIDE DEF P
    <2> QED BY <2>3
  <1>13. \A k \in 1..n : k - 1 \in T => k \in T
    <2> SUFFICES ASSUME NEW k \in 1..n, P(k - 1) PROVE P(k)
      <3>1. \A k \in 1..n : k \in 0..n
        BY <1>1
      <3> HIDE DEF P
      <3> QED BY <3>1
    <2>1. iter[1..(k - 1)] \in X /\ k \in D
      BY <1>1, <1>10
    <2>2. iter[1..k] = Give(i, op, iter[1..(k - 1)], k - 1)
      BY <1>1, <1>4, <1>11, <2>1
    <2>3. k - 1 \in 0..(num_vc - 1) /\ (k - 1) + 1 = k
      BY <1>1 DEF n
    <2> DEFINE v == k - 1
               G == iter[1..v]
    <2> HIDE DEF v, G
    <2>4. GoodGrants(i, op, v + 1, Give(i, op, G, v))
      BY <2>3, GiveGood DEF v, G
    <2> QED BY <2>2, <2>3, <2>4 DEF v, G
  <1>14. 0..n \subseteq T
    <2> HIDE DEF T
    <2> QED BY <1>1, <1>12, <1>13, UpTo
  <1>15. P(n)
    BY <1>1, <1>14
  <1> QED BY <1>1, <1>2, <1>15 DEF n

--------------------------------------------------------------------------------

LEMMA NetSame ==
    ASSUME NEW ins, NEW outs, NEW ins2,
           \A b \in Buffers : IdsOf(ins2[b]) = IdsOf(ins[b])
    PROVE  Net(ins2, outs) = Net(ins, outs)
  <1>1. \A w \in Places : w[2] \in Buffers
    BY InOutPlaces
  <1>2. \A w \in Places : IdsOf(IF w[1] = "in" THEN ins2[w[2]] ELSE outs[w[2]])
                            = IdsOf(IF w[1] = "in" THEN ins[w[2]] ELSE outs[w[2]])
    <2> TAKE w \in Places
    <2>1. CASE w[1] = "in"
      BY <1>1, <2>1
    <2>2. CASE w[1] # "in"
      BY <2>2
    <2> QED BY <2>1, <2>2
  <1> QED BY <1>2 DEF Net

\* The stages of the pipeline that only change the state of the flits in front.
Fronts(A, s) == [b \in Buffers |-> IF b \in A THEN WithFront(input[b], s) ELSE input[b]]

LEMMA FrontsNet ==
    ASSUME input \in [Buffers -> Seq(FlitSet)], NEW A, NEW s \in States,
           input' = Fronts(A, s), output' = output
    PROVE  Net(input', output') = Net(input, output)
  <1>1. \A b \in Buffers : IdsOf(input'[b]) = IdsOf(input[b])
    <2> TAKE b \in Buffers
    <2>1. input[b] \in Seq(FlitSet)
      OBVIOUS
    <2>2. input'[b] = IF b \in A THEN WithFront(input[b], s) ELSE input[b]
      BY DEF Fronts
    <2>3. IdsOf(WithFront(input[b], s)) = IdsOf(input[b])
      BY <2>1, FrontFacts
    <2> QED BY <2>2, <2>3
  <1>2. Net(input', output) = Net(input, output)
    BY <1>1, NetSame
  <1> QED BY <1>2

LEMMA FrontsStates ==
    ASSUME input \in [Buffers -> Seq(FlitSet)], StatesRight, NEW A, NEW s \in States,
           input' = Fronts(A, s), s = "RC" => \A b \in A \cap Buffers : ~Held(holds', b),
           \A b \in Buffers \ A : Held(holds', b) => Held(holds, b)
    PROVE  StatesRight'
  <1> SUFFICES ASSUME NEW c \in Buffers, NEW k \in 1..Len(input'[c])
               PROVE  /\ input'[c][k].state # "IB" => k = 1
                      /\ input'[c][k].state = "RC" => ~Held(holds', c)
    BY DEF StatesRight
  <1>1. \A j \in 1..Len(input[c]) : /\ input[c][j].state # "IB" => j = 1
                                    /\ input[c][j].state = "RC" => ~Held(holds, c)
    BY DEF StatesRight
  <1>2. CASE c \in A
    <2> DEFINE q == input[c]  u == WithFront(input[c], s)
    <2>1. input'[c] = u /\ q \in Seq(FlitSet)
      BY <1>2 DEF Fronts
    <2>2. /\ Len(u) = Len(q) /\ (\A j \in 1..Len(q) : j # 1 => u[j] = q[j])
          /\ q # <<>> => u[1] = Becomes(q[1], s, q[1].wait)
      BY <2>1, FrontFacts
    <2>3. k \in 1..Len(q) /\ Len(q) \in Nat /\ q # <<>>
      BY <2>1, <2>2, EmptySeq, LenProperties
    <2>4. u[1].state = s
      BY <2>2, <2>3 DEF Becomes
    <2> HIDE DEF u
    <2>5. CASE k = 1
      BY <1>2, <2>1, <2>4, <2>5
    <2>6. CASE k # 1
      <3>1. u[k] = q[k] /\ u[k].state = "IB"
        BY <1>1, <2>2, <2>3, <2>6
      <3> QED BY <2>1, <3>1
    <2> QED BY <2>5, <2>6
  <1>3. CASE c \notin A
    <2>1. input'[c] = input[c]
      BY <1>3 DEF Fronts
    <2> QED BY <1>1, <1>3, <2>1
  <1> QED BY <1>2, <1>3

\* All grants of a router, each for another channel and another packet.
AllGrants(i) == UNION {Grants(i, op) : op \in Ports}

LEMMA GrantsAll ==
    ASSUME Buffered, NEW i \in Routers
    PROVE  /\ \A g \in AllGrants(i) :
                    GoodGrant(i, g.to[1], num_vc, g) /\ g.from \in Buffers /\ g.to \in Ports \X VCs
           /\ \A g, e \in AllGrants(i) : g.from = e.from \/ g.to = e.to => g = e
  <1>1. \A op \in Ports : GoodGrants(i, op, num_vc, Grants(i, op))
    BY GrantsGood
  <1>2. \A op \in Ports : \A g \in Grants(i, op) :
            /\ GoodGrant(i, op, num_vc, g) /\ g.from \in Buffers /\ g.to \in Ports \X VCs
            /\ g.to[1] = op /\ op = Route(i, Head(input[g.from]).pkt)
    BY <1>1 DEF GoodGrants, GoodGrant, AnyGrant
  <1>3. ASSUME NEW g \in AllGrants(i), NEW e \in AllGrants(i), g.from = e.from \/ g.to = e.to
        PROVE  g = e
    <2>1. PICK op \in Ports : g \in Grants(i, op)
      BY DEF AllGrants
    <2>2. PICK po \in Ports : e \in Grants(i, po)
      BY DEF AllGrants
    <2>3. op = po
      BY <1>2, <1>3, <2>1, <2>2
    <2> QED BY <1>1, <1>3, <2>1, <2>2, <2>3 DEF GoodGrants
  <1>4. \A g \in AllGrants(i) :
            GoodGrant(i, g.to[1], num_vc, g) /\ g.from \in Buffers /\ g.to \in Ports \X VCs
    BY <1>2 DEF AllGrants
  <1> QED BY <1>3, <1>4

LEMMA VcaKeeps == WholeInv /\ FlowInv /\ stage_vca => WholeInv'
  <1> SUFFICES ASSUME WholeInv, FlowInv, stage_vca PROVE WholeInv'
    OBVIOUS
  <1> DEFINE i == Running
             grants == AllGrants(i)
             given(b) == {g \in grants : g.from = b}
             to == {g.to : g \in grants}
             M == {b \in Buffers : given(b) # {}}
             G(b) == CHOOSE g \in given(b) : TRUE
             T == [b \in M |-> G(b).to]
             n == Net(input, output)
  <1>0. i \in Routers
    BY RunningRouter DEF WholeInv
  <1>1. PICK own : Whole(n, holds, own, avail)
    BY DEF WholeInv
  <1>2. /\ WholeNet(n, holds, own, avail)
        /\ OneStage(n, holds, own, offered, injection, reqs, arrived)
    BY <1>1 DEF Whole
  <1>3. /\ input \in [Buffers -> Seq(FlitSet)] /\ output \in [Buffers -> Seq(FlitSet)]
        /\ StatesRight /\ KnobsRight /\ Buffered
    BY DEF FlowInv, FlowTypes, WholeInv, KnobsRight, Buffered
  <1>4. /\ input' = [b \in Buffers |->
                IF given(b) # {} THEN WithFront(input[b], "VCA") ELSE input[b]]
        /\ holds' = [b \in Buffers |-> IF given(b) # {} THEN G(b).to ELSE holds[b]]
        /\ avail' = [b \in Buffers |-> IF b[1] = i THEN Taken(b, to) ELSE avail[b]]
        /\ output' = output
        /\ UNCHANGED <<offered, injection, reqs, arrived, stamp, num_vc, now, ratio, clock, turn>>
    BY DEF stage_vca, ends, time, AllGrants
  <1>5. \A g \in grants : GoodGrant(i, g.to[1], num_vc, g) /\ g.from \in Buffers
                          /\ g.to \in Ports \X VCs
    BY <1>0, <1>3, GrantsAll
  <1>6. \A g, e \in grants : g.from = e.from \/ g.to = e.to => g = e
    BY <1>0, <1>3, GrantsAll
  <1> HIDE DEF grants, i
  <1>7. \A b \in M : G(b) \in grants /\ G(b).from = b /\ T[b] = G(b).to
    <2> TAKE b \in M
    <2>1. G(b) \in given(b)
      OBVIOUS
    <2> QED BY <2>1
  <1>8. \A g \in grants : g.from \in M /\ G(g.from) = g
    <2> TAKE g \in grants
    <2>1. g.from \in M
      BY <1>5
    <2> HIDE DEF G, M
    <2> QED BY <1>6, <1>7, <2>1
  <1> HIDE DEF G
  <1>9. input' = Fronts(M, "VCA") /\ holds' = [b \in Buffers |-> IF b \in M THEN T[b] ELSE holds[b]]
    BY <1>4 DEF Fronts
  <1>10. M \subseteq Buffers
    OBVIOUS
  <1>11. \A b \in Buffers : avail'[b] <=> avail[b] /\ \A c \in M : To(holds', c) # b
    <2> TAKE b \in Buffers
    <2>1. avail'[b] <=> avail[b] /\ (b[1] = i => <<b[2], b[3]>> \notin to)
      BY <1>4 DEF Taken
    <2>2. \A c \in M : c[1] = i /\ holds'[c] = G(c).to /\ G(c) \in grants
      <3> TAKE c \in M
      <3>1. G(c) \in grants /\ G(c).from = c /\ T[c] = G(c).to
        BY <1>7
      <3>2. c[1] = i
        BY <1>5, <3>1 DEF GoodGrant
      <3> QED BY <1>9, <1>10, <3>1, <3>2
    <2>3. (b[1] = i => <<b[2], b[3]>> \notin to) <=> \A c \in M : To(holds', c) # b
      <3>1. ASSUME NEW c \in M, To(holds', c) = b
            PROVE  b[1] = i /\ <<b[2], b[3]>> \in to
        <4>1. b = <<i, G(c).to[1], G(c).to[2]>> /\ G(c).to \in Ports \X VCs
          BY <1>5, <2>2, <3>1 DEF To
        <4>2. <<b[2], b[3]>> = G(c).to /\ b[1] = i
          BY <4>1
        <4> QED BY <2>2, <4>2
      <3>2. ASSUME b[1] = i, <<b[2], b[3]>> \in to
            PROVE  \E c \in M : To(holds', c) = b
        <4>1. PICK g \in grants : g.to = <<b[2], b[3]>>
          BY <3>2
        <4>2. g.from \in M /\ holds'[g.from] = <<b[2], b[3]>> /\ g.from[1] = i
          BY <1>8, <2>2, <4>1
        <4>3. b = <<b[1], b[2], b[3]>>
          BY DEF Buffers
        <4>4. To(holds', g.from) = b
          BY <3>2, <4>2, <4>3 DEF To
        <4> QED BY <4>2, <4>4
      <3> QED BY <3>1, <3>2
    <2> QED BY <2>1, <2>3
  <1> DEFINE own2 == [c \in Buffers |-> IF c \in M THEN Head(n[In(c)]) ELSE own[c]]
  <1>12. Granting(n, holds, own, avail, holds', own2, avail', M, T, i)
    <2>1. ASSUME NEW c \in M
          PROVE  /\ c[1] = i /\ ~Held(holds, c) /\ n[In(c)] # <<>> /\ Head(n[In(c)])[2] = 1
                 /\ T[c] \in Ports \X VCs /\ T[c][1] = Route(i, Head(n[In(c)])[1])
                 /\ avail[<<i, T[c][1], T[c][2]>>]
      <3>1. G(c) \in grants /\ G(c).from = c /\ T[c] = G(c).to /\ c \in Buffers
        BY <1>7
      <3>2. GoodGrant(i, T[c][1], num_vc, G(c)) /\ T[c] \in Ports \X VCs
        BY <1>5, <3>1
      <3>3. /\ c[1] = i /\ avail[<<i, T[c][1], T[c][2]>>] /\ input[c] # <<>>
            /\ IsHead(Head(input[c])) /\ Head(input[c]).state = "RC"
            /\ Route(i, Head(input[c]).pkt) = T[c][1]
        BY <3>1, <3>2 DEF GoodGrant
      <3>4. input[c] \in Seq(FlitSet) /\ 1 \in 1..Len(input[c]) /\ Head(input[c]) = input[c][1]
        <4>1. input[c] \in Seq(FlitSet) /\ Len(input[c]) \in Nat \ {0}
          BY <1>3, <3>1, <3>3, EmptySeq
        <4> QED BY <4>1
      <3>5. ~Held(holds, c)
        BY <1>3, <3>1, <3>3, <3>4 DEF StatesRight
      <3>6. n[In(c)] = IdsOf(input[c])
        BY <3>1, NetFacts
      <3>7. n[In(c)] # <<>> /\ Head(n[In(c)]) = Id(Head(input[c]))
        BY <3>3, <3>4, <3>6, IdsBasics
      <3>8. Head(n[In(c)])[2] = 1 /\ Head(n[In(c)])[1] = Head(input[c]).pkt
        BY <3>3, <3>7, TailId
      <3> QED BY <3>2, <3>3, <3>5, <3>7, <3>8
    <2>2. \A c, d \in M : T[c] = T[d] => c = d
      <3> TAKE c, d \in M
      <3>1. /\ G(c) \in grants /\ G(c).from = c /\ T[c] = G(c).to
            /\ G(d) \in grants /\ G(d).from = d /\ T[d] = G(d).to
        BY <1>7
      <3> QED BY <1>6, <3>1
    <2>3. avail' = [b \in Buffers |-> avail[b] /\ \A c \in M : To(holds', c) # b]
      <3>1. avail' = [b \in Buffers |-> avail'[b]] /\ \A b \in Buffers : avail'[b] \in BOOLEAN
        <4>1. avail \in [Buffers -> BOOLEAN]
          BY <1>2 DEF WholeNet, WholeTypes
        <4> QED BY <1>4, <4>1 DEF Taken
      <3> HIDE DEF M
      <3> QED BY <1>11, <3>1
    <2> HIDE DEF M, T, n
    <2>4. own2 = [c \in Buffers |-> IF c \in M THEN Head(n[In(c)]) ELSE own[c]]
      OBVIOUS
    <2> HIDE DEF own2
    <2> QED BY <1>9, <1>10, <2>1, <2>2, <2>3, <2>4 DEF Granting
  <1> HIDE DEF M, T, own2
  <1>13. "VCA" \in States /\ "VCA" # "RC"
    BY DEF States
  <1>14. Net(input', output') = n
    BY <1>3, <1>4, <1>9, <1>13, FrontsNet
  <1>15. StatesRight'
    <2>1. \A b \in Buffers \ M : Held(holds', b) => Held(holds, b)
      BY <1>9 DEF Held
    <2> QED BY <1>3, <1>9, <1>13, <2>1, FrontsStates
  <1> HIDE DEF n
  <1>16. /\ WholeNet(n, holds', own2, avail')
         /\ \A c \in Buffers : Held(holds', c) =>
                own2[c][1] \in Moving(n) \/ (Held(holds, c) /\ own2[c][1] = own[c][1])
    BY <1>2, <1>12, GrantWhole
  <1>17. OneStage(n, holds', own2, offered, injection, reqs, arrived)
    BY <1>2, <1>16, StagesFollow
  <1>18. KnobsRight'
    BY <1>3, <1>4, KnobsSame
  <1>19. OneStage(n, holds', own2, offered', injection', reqs', arrived')
    BY <1>4, <1>17
  <1> QED BY <1>14, <1>15, <1>16, <1>18, <1>19, WholeAgain

--------------------------------------------------------------------------------

\* The steps that move no flit: none, or they only change the state of flits in front.
Still == UNCHANGED <<output, holds, avail, offered, injection, reqs, arrived,
                     stamp, num_vc, now, ratio, clock>>

LEMMA StillKeeps ==
    ASSUME WholeInv, FlowInv, NEW A, NEW s \in States, input' = Fronts(A, s), Still,
           turn' \in Nat, s = "RC" => \A b \in A \cap Buffers : ~Held(holds, b)
    PROVE  WholeInv'
  <1>1. PICK own : Whole(Net(input, output), holds, own, avail)
    BY DEF WholeInv
  <1>2. /\ WholeNet(Net(input, output), holds, own, avail)
        /\ OneStage(Net(input, output), holds, own, offered, injection, reqs, arrived)
    BY <1>1 DEF Whole
  <1>3. input \in [Buffers -> Seq(FlitSet)] /\ StatesRight /\ KnobsRight
    BY DEF FlowInv, FlowTypes, WholeInv
  <1>4. /\ output' = output /\ holds' = holds /\ avail' = avail /\ offered' = offered
        /\ injection' = injection /\ reqs' = reqs /\ arrived' = arrived
    BY DEF Still
  <1>5. Net(input', output') = Net(input, output)
    BY <1>3, <1>4, FrontsNet
  <1>6. StatesRight'
    <2>1. \A b \in Buffers \ A : Held(holds', b) => Held(holds, b)
      BY <1>4
    <2>2. s = "RC" => \A b \in A \cap Buffers : ~Held(holds', b)
      BY <1>4
    <2> QED BY <1>3, <2>1, <2>2, FrontsStates
  <1>7. KnobsRight'
    BY <1>3 DEF Still, KnobsRight
  <1>8. /\ WholeNet(Net(input', output'), holds', own, avail')
        /\ OneStage(Net(input', output'), holds', own, offered', injection', reqs', arrived')
    BY <1>2, <1>4, <1>5
  <1> QED BY <1>6, <1>7, <1>8, WholeAgain

LEMMA NoFronts ==
    ASSUME input \in [Buffers -> Seq(FlitSet)], input' = input, NEW s
    PROVE  input' = Fronts({}, s)
  BY DEF Fronts

LEMMA CreditKeeps == WholeInv /\ FlowInv /\ process_pending_credit => WholeInv'
  <1> SUFFICES ASSUME WholeInv, FlowInv, process_pending_credit PROVE WholeInv'
    OBVIOUS
  <1>1. Still /\ turn' \in Nat /\ input' = input
    BY DEF process_pending_credit, ends, channels, time, Still, WholeInv, KnobsRight
  <1>2. input' = Fronts({}, "IB") /\ "IB" \in States /\ "IB" # "RC"
    BY <1>1, NoFronts DEF FlowInv, FlowTypes, States
  <1> QED BY <1>1, <1>2, StillKeeps

LEMMA EndOfRunKeeps == WholeInv /\ FlowInv /\ EndOfRun => WholeInv'
  <1> SUFFICES ASSUME WholeInv, FlowInv, EndOfRun PROVE WholeInv'
    OBVIOUS
  <1>1. Still /\ input' = input
    BY DEF EndOfRun, ends, channels, Still
  <1>2. turn' \in Nat
    BY RingAssumption DEF EndOfRun, WholeInv, KnobsRight
  <1>3. input' = Fronts({}, "IB") /\ "IB" \in States /\ "IB" # "RC"
    BY <1>1, NoFronts DEF FlowInv, FlowTypes, States
  <1> QED BY <1>1, <1>2, <1>3, StillKeeps

LEMMA SwitchAllocationKeeps == WholeInv /\ FlowInv /\ stage_sa => WholeInv'
  <1> SUFFICES ASSUME WholeInv, FlowInv, stage_sa PROVE WholeInv'
    OBVIOUS
  <1> DEFINE able(op) == {c \in Ports \X VCs :
                   LET b == <<Running, c[1], c[2]>>
                   IN  /\ c[1] # op /\ holds[b][1] = op /\ input[b] # <<>>
                       /\ Head(input[b]).state = IF IsHead(Head(input[b])) THEN "VCA" ELSE "IB"}
             winners == {Winner(Running, able(op)) : op \in {o \in Ports : able(o) # {}}}
             A == {b \in Buffers : b[1] = Running /\ <<b[2], b[3]>> \in winners}
  <1>1. input' = [b \in Buffers |->
                IF b[1] = Running /\ <<b[2], b[3]>> \in winners THEN WithFront(input[b], "SA")
                ELSE input[b]]
    BY DEF stage_sa
  <1>2. Still /\ turn' \in Nat
    BY DEF stage_sa, ends, channels, time, Still, WholeInv, KnobsRight
  <1> HIDE DEF winners
  <1>3. input' = Fronts(A, "SA") /\ "SA" \in States /\ "SA" # "RC"
    BY <1>1 DEF Fronts, States
  <1> HIDE DEF A
  <1> QED BY <1>2, <1>3, StillKeeps

LEMMA RouteKeeps == WholeInv /\ FlowInv /\ stage_rc => WholeInv'
  <1> SUFFICES ASSUME WholeInv, FlowInv, stage_rc PROVE WholeInv'
    OBVIOUS
  <1> DEFINE A == {b \in Buffers :
                   /\ b[1] = Running /\ holds[b] = NoChannel /\ input[b] # <<>>
                   /\ LET f == Head(input[b]) IN IsHead(f) /\ f.state = "IB" /\ f.wait = 0}
  <1>1. Still /\ turn' \in Nat
    BY DEF stage_rc, ends, channels, time, Still, WholeInv, KnobsRight
  <1>2. input' = Fronts(A, "RC") /\ "RC" \in States
    BY DEF stage_rc, Fronts, States
  <1>3. \A b \in A \cap Buffers : ~Held(holds, b)
    BY DEF Held
  <1> HIDE DEF A
  <1> QED BY <1>1, <1>2, <1>3, StillKeeps

--------------------------------------------------------------------------------

\* At the end of a cycle clients inject and receive packets.
Served(off, inj, rq, arr, u, off2, inj2, rq2, arr2) ==
    /\ \A i \in Routers : u[i] \in 0..Len(off[i])
    /\ off2 = [i \in Routers |-> Beyond(off[i], u[i])]
    /\ inj2 = [i \in Routers |-> inj[i] \o Upto(off[i], u[i])]
    /\ rq2 = [i \in Routers |-> IF rq[i] = <<>> THEN <<>> ELSE Tail(rq[i])]
    /\ arr2 = arr \cup {Head(rq[i]) : i \in {j \in Routers : rq[j] # <<>>}}
SendsLess(q, t, q2, t2) ==
    /\ q2 \in Seq(Packets) /\ OnceEach(q2) /\ t2 \in Seq(Packets) /\ OnceEach(t2)
    /\ \A p : ~(Occurs(p, q2) /\ Occurs(p, t2))
    /\ \A p : Occurs(p, q2) \/ Occurs(p, t2) => Occurs(p, q) \/ Occurs(p, t)

LEMMA ServedSends ==
    ASSUME NEW n, NEW h, NEW own, NEW off, NEW inj, NEW rq, NEW arr,
           OneStage(n, h, own, off, inj, rq, arr),
           NEW u, NEW off2, NEW inj2, NEW rq2, NEW arr2,
           Served(off, inj, rq, arr, u, off2, inj2, rq2, arr2), NEW i \in Routers
    PROVE  SendsLess(off[i], inj[i], off2[i], inj2[i])
  <1> DEFINE q == off[i]  t == inj[i]  k == u[i]  a == Upto(q, k)  b == Beyond(q, k)
  <1>1. q \in Seq(Packets) /\ t \in Seq(Packets) /\ OnceEach(q) /\ OnceEach(t)
    BY DEF OneStage, StageTypes
  <1>2. \A p : ~(Occurs(p, q) /\ Occurs(p, t))
    BY DEF OneStage
  <1>3. k \in 0..Len(q) /\ off2[i] = b /\ inj2[i] = t \o a
    BY DEF Served
  <1> HIDE DEF q, t, k
  <1>4. /\ a \in Seq(Packets) /\ b \in Seq(Packets) /\ OnceEach(a) /\ OnceEach(b)
        /\ \A x : ~(Occurs(x, a) /\ Occurs(x, b))
        /\ \A x : Occurs(x, q) <=> Occurs(x, a) \/ Occurs(x, b)
    BY <1>1, <1>3, TwoParts
  <1> HIDE DEF a, b
  <1>5. \A x : ~(Occurs(x, t) /\ Occurs(x, a))
    BY <1>2, <1>4
  <1> DEFINE z == t \o a
  <1> HIDE DEF z
  <1>6. z \in Seq(Packets) /\ OnceEach(z) /\ \A x : Occurs(x, z) <=> Occurs(x, t) \/ Occurs(x, a)
    BY <1>1, <1>4, <1>5, Joined DEF z
  <1>7. inj2[i] = z
    BY <1>3 DEF z
  <1>8. \A x : ~(Occurs(x, b) /\ Occurs(x, z))
    BY <1>2, <1>4, <1>6
  <1>9. \A x : Occurs(x, b) \/ Occurs(x, z) => Occurs(x, q) \/ Occurs(x, t)
    BY <1>4, <1>6
  <1> QED BY <1>3, <1>4, <1>6, <1>7, <1>8, <1>9 DEF q, t, SendsLess

LEMMA StagesServed ==
    ASSUME NEW n, NEW h, NEW own, NEW off, NEW inj, NEW rq, NEW arr,
           OneStage(n, h, own, off, inj, rq, arr),
           NEW u, NEW off2, NEW inj2, NEW rq2, NEW arr2,
           Served(off, inj, rq, arr, u, off2, inj2, rq2, arr2)
    PROVE  OneStage(n, h, own, off2, inj2, rq2, arr2)
  <1>1. \A i \in Routers :
            /\ off2[i] \in Seq(Packets) /\ OnceEach(off2[i])
            /\ inj2[i] \in Seq(Packets) /\ OnceEach(inj2[i])
            /\ \A p : ~(Occurs(p, off2[i]) /\ Occurs(p, inj2[i]))
            /\ \A p : Occurs(p, off2[i]) \/ Occurs(p, inj2[i]) =>
                        Occurs(p, off[i]) \/ Occurs(p, inj[i])
    <2> SUFFICES ASSUME NEW i \in Routers
                 PROVE  SendsLess(off[i], inj[i], off2[i], inj2[i])
      BY DEF SendsLess
    <2> QED BY ServedSends
  <1>2. \A i \in Routers : /\ rq[i] \in Seq(Packets) /\ OnceEach(rq[i])
                           /\ \A p : Occurs(p, rq[i]) => /\ p.dst = i /\ p \notin Moving(n)
                                                         /\ p \notin arr
    BY DEF OneStage, StageTypes
  <1>3. \A i \in Routers :
            /\ rq2[i] \in Seq(Packets) /\ OnceEach(rq2[i])
            /\ \A p : Occurs(p, rq2[i]) => Occurs(p, rq[i])
            /\ rq[i] # <<>> => /\ Head(rq[i]) \in Packets /\ Occurs(Head(rq[i]), rq[i])
                               /\ ~Occurs(Head(rq[i]), rq2[i])
    <2> TAKE i \in Routers
    <2> DEFINE q == rq[i]  t == Tail(q)
    <2>1. q \in Seq(Packets) /\ OnceEach(q) /\ rq2[i] = IF q = <<>> THEN <<>> ELSE t
      BY <1>2 DEF Served
    <2> HIDE DEF q
    <2>2. CASE q = <<>>
      <3>1. <<>> \in Seq(Packets) /\ OnceEach(<<>>) /\ \A p : ~Occurs(p, <<>>)
        BY DEF OnceEach, Occurs
      <3> QED BY <2>1, <2>2, <3>1 DEF q
    <2>3. CASE q # <<>>
      <3>1. /\ t \in Seq(Packets) /\ OnceEach(t) /\ Head(q) \in Packets /\ Occurs(Head(q), q)
            /\ \A x : Occurs(x, t) <=> Occurs(x, q) /\ x # Head(q)
        BY <2>1, <2>3, OneLess
      <3> HIDE DEF t
      <3> QED BY <2>1, <2>3, <3>1 DEF q
    <2> QED BY <2>2, <2>3
  <1>4. \A p : p \in arr2 <=> p \in arr \/ \E i \in Routers : rq[i] # <<>> /\ p = Head(rq[i])
    BY DEF Served
  <1>5. StageTypes(off2, inj2, rq2, arr2)
    <2>1. off2 = [i \in Routers |-> off2[i]] /\ inj2 = [i \in Routers |-> inj2[i]]
          /\ rq2 = [i \in Routers |-> rq2[i]]
      BY DEF Served
    <2>2. arr2 \subseteq Packets
      BY <1>3, <1>4 DEF OneStage, StageTypes
    <2> QED BY <1>1, <1>3, <2>1, <2>2 DEF StageTypes
  <1>6. ASSUME NEW i \in Routers, NEW p, StillUnsent(p, i, n, h, own, rq, arr)
        PROVE  StillUnsent(p, i, n, h, own, rq2, arr2)
    <2>1. \A j \in Routers : ~Occurs(p, rq[j])
      BY <1>6 DEF StillUnsent
    <2>2. p \notin arr2
      BY <1>3, <1>4, <1>6, <2>1 DEF StillUnsent
    <2>3. \A j \in Routers : ~Occurs(p, rq2[j])
      BY <1>3, <2>1
    <2> QED BY <1>6, <2>2, <2>3 DEF StillUnsent
  <1>7. ASSUME NEW i \in Routers, NEW p, Occurs(p, rq2[i])
        PROVE  p.dst = i /\ p \notin Moving(n) /\ p \notin arr2
    <2>1. Occurs(p, rq[i]) /\ p.dst = i /\ p \notin Moving(n) /\ p \notin arr
      BY <1>2, <1>3, <1>7
    <2>2. ASSUME NEW j \in Routers, rq[j] # <<>>, p = Head(rq[j]) PROVE FALSE
      <3>1. p.dst = j
        BY <1>2, <1>3, <2>2
      <3>2. j = i
        BY <2>1, <3>1
      <3> QED BY <1>3, <1>7, <2>2, <3>2
    <2> QED BY <1>4, <2>1, <2>2
  <1>8. arr2 \cap Moving(n) = {}
    <2>1. arr \cap Moving(n) = {}
      BY DEF OneStage
    <2> QED BY <1>2, <1>3, <1>4, <2>1
  <1>9. \A i \in Routers : \A p : Occurs(p, off2[i]) \/ Occurs(p, inj2[i]) =>
            StillUnsent(p, i, n, h, own, rq2, arr2)
    BY <1>1, <1>6 DEF OneStage
  <1> QED BY <1>1, <1>3, <1>5, <1>7, <1>8, <1>9 DEF OneStage

LEMMA EndOfCycleKeeps == WholeInv /\ FlowInv /\ EndOfCycle => WholeInv'
  <1> SUFFICES ASSUME WholeInv, FlowInv, EndOfCycle PROVE WholeInv'
    OBVIOUS
  <1> DEFINE u == [i \in Routers |-> IF hold[i] = 0 THEN inject_packet(i) ELSE 0]
             waited(s) == [k \in DOMAIN s |->
                               LET f == s[k] IN Becomes(f, f.state, CountDown(f.wait))]
  <1>1. PICK own : Whole(Net(input, output), holds, own, avail)
    BY DEF WholeInv
  <1>2. /\ WholeNet(Net(input, output), holds, own, avail)
        /\ OneStage(Net(input, output), holds, own, offered, injection, reqs, arrived)
    BY <1>1 DEF Whole
  <1>3. /\ input \in [Buffers -> Seq(FlitSet)] /\ StatesRight /\ KnobsRight
        /\ injection \in [Routers -> Seq(Packets)] /\ offered \in [Routers -> Seq(Packets)]
        /\ \A i \in Routers : Len(injection[i]) <= InjectionMax
    BY DEF FlowInv, FlowTypes, InjectionTypes, WholeInv
  <1>4. /\ \A b \in Buffers : input'[b] = waited(input[b])
        /\ output' = output /\ holds' = holds /\ avail' = avail /\ stamp' = stamp
        /\ num_vc' = num_vc /\ ratio' = ratio /\ turn' = turn
        /\ now' = (IF \E p \in Packets : stamp[p] = now THEN now + 1 ELSE now)
        /\ clock' = (clock + 1) % (N * num_vc)
    BY DEF EndOfCycle, channels
  <1>5. /\ injection' = [i \in Routers |-> injection[i] \o Upto(offered[i], u[i])]
        /\ offered' = [i \in Routers |-> Beyond(offered[i], u[i])]
        /\ reqs' = [i \in Routers |-> IF reqs[i] = <<>> THEN <<>> ELSE Tail(reqs[i])]
        /\ arrived' = arrived \cup {Head(reqs[i]) : i \in {j \in Routers : reqs[j] # <<>>}}
    BY DEF EndOfCycle, Upto, Beyond
  <1>6. \A i \in Routers : u[i] \in 0..Len(offered[i])
    <2> TAKE i \in Routers
    <2>1. Len(injection[i]) \in Nat /\ Len(offered[i]) \in Nat /\ InjectionMax \in Nat
          /\ Len(injection[i]) <= InjectionMax
      BY <1>3, LenProperties, RingAssumption
    <2>2. inject_packet(i) \in 0..Len(offered[i])
      BY <2>1 DEF inject_packet
    <2> QED BY <2>1, <2>2
  <1> HIDE DEF u
  <1>7. Served(offered, injection, reqs, arrived, u, offered', injection', reqs', arrived')
    BY <1>5, <1>6 DEF Served
  <1>8. OneStage(Net(input, output), holds, own, offered', injection', reqs', arrived')
    BY <1>2, <1>7, StagesServed
  <1>9. \A b \in Buffers : /\ Len(input'[b]) = Len(input[b]) /\ input'[b] \in Seq(FlitSet)
                           /\ \A k \in 1..Len(input[b]) :
                                    /\ Id(input'[b][k]) = Id(input[b][k])
                                    /\ input'[b][k].state = input[b][k].state
    <2> TAKE b \in Buffers
    <2>1. input[b] \in Seq(FlitSet) /\ DOMAIN input[b] = 1..Len(input[b])
      BY <1>3, LenProperties
    <2>2. waited(input[b]) \in Seq(FlitSet) /\ Len(waited(input[b])) = Len(input[b])
      BY <2>1, WaitingKeepsLength
    <2>3. \A k \in 1..Len(input[b]) :
            waited(input[b])[k] = Becomes(input[b][k], input[b][k].state,
                                          CountDown(input[b][k].wait))
      BY <2>1
    <2> HIDE DEF waited
    <2>4. \A k \in 1..Len(input[b]) : /\ Id(waited(input[b])[k]) = Id(input[b][k])
                                      /\ waited(input[b])[k].state = input[b][k].state
      <3> TAKE k \in 1..Len(input[b])
      <3> DEFINE f == input[b][k]  w == CountDown(input[b][k].wait)
      <3>1. waited(input[b])[k] = Becomes(f, f.state, w)
        BY <2>3
      <3> HIDE DEF f, w
      <3>2. Id(Becomes(f, f.state, w)) = Id(f) /\ Becomes(f, f.state, w).state = f.state
        BY IdBecomes DEF Becomes
      <3> QED BY <3>1, <3>2 DEF f
    <2> QED BY <1>4, <2>2, <2>4
  <1>10. Net(input', output') = Net(input, output)
    <2>1. \A b \in Buffers : IdsOf(input'[b]) = IdsOf(input[b])
      BY <1>3, <1>9, IdsSame
    <2>2. Net(input', output) = Net(input, output)
      BY <2>1, NetSame
    <2> QED BY <1>4, <2>2
  <1>11. StatesRight'
    <2> SUFFICES ASSUME NEW c \in Buffers, NEW k \in 1..Len(input'[c])
                 PROVE  /\ input'[c][k].state # "IB" => k = 1
                        /\ input'[c][k].state = "RC" => ~Held(holds', c)
      BY DEF StatesRight
    <2>1. k \in 1..Len(input[c]) /\ input'[c][k].state = input[c][k].state
      BY <1>9
    <2>2. Held(holds', c) <=> Held(holds, c)
      BY <1>4
    <2> QED BY <1>3, <2>1, <2>2 DEF StatesRight
  <1>12. KnobsRight'
    <2>1. clock' \in Nat
      <3>1. N \in Nat /\ N > 0 /\ num_vc \in Nat /\ num_vc > 0 /\ clock \in Nat
        BY <1>3, RingAssumption DEF KnobsRight
      <3>2. N * num_vc \in Nat /\ N * num_vc > 0
        BY <3>1
      <3> DEFINE m == N * num_vc
      <3>3. m \in Nat /\ m > 0
        BY <3>2
      <3> HIDE DEF m
      <3>4. (clock + 1) % m \in Nat
        BY <3>1, <3>3
      <3> QED BY <1>4, <3>4 DEF m
    <2> QED BY <1>3, <1>4, <2>1 DEF KnobsRight
  <1>13. /\ WholeNet(Net(input', output'), holds', own, avail')
         /\ OneStage(Net(input', output'), holds', own, offered', injection', reqs', arrived')
    BY <1>2, <1>4, <1>8, <1>10
  <1> QED BY <1>11, <1>12, <1>13, WholeAgain

--------------------------------------------------------------------------------

\* The packet in front of an injection buffer goes from the client into the network.
LEMMA FirstUnsent ==
    ASSUME NEW n, NEW h, NEW own, NEW off, NEW inj, NEW rq, NEW arr,
           OneStage(n, h, own, off, inj, rq, arr), NEW i \in Routers, inj[i] # <<>>
    PROVE  Head(inj[i]) \in Packets /\ StillUnsent(Head(inj[i]), i, n, h, own, rq, arr)
  <1>1. inj[i] \in Seq(Packets)
    BY DEF OneStage, StageTypes
  <1> DEFINE q == inj[i]
  <1>2. q \in Seq(Packets) /\ q # <<>>
    BY <1>1
  <1> HIDE DEF q
  <1>3. Head(q) \in Packets /\ Occurs(Head(q), q)
    BY <1>2, OneLess
  <1> QED BY <1>3 DEF q, OneStage

LEMMA StagesInject ==
    ASSUME NEW n, NEW h, NEW own, NEW off, NEW inj, NEW rq, NEW arr,
           OneStage(n, h, own, off, inj, rq, arr), NEW i \in Routers, inj[i] # <<>>,
           NEW n2, Moving(n2) = Moving(n) \cup {Head(inj[i])},
           NEW inj2, inj2 = [inj EXCEPT ![i] = Tail(inj[i])]
    PROVE  OneStage(n2, h, own, off, inj2, rq, arr)
  <1> DEFINE q == inj[i]  t == Tail(q)  p == Head(q)
  <1>1. StageTypes(off, inj, rq, arr) /\ q \in Seq(Packets) /\ OnceEach(q) /\ q # <<>>
    BY DEF OneStage, StageTypes
  <1>2. p \in Packets /\ StillUnsent(p, i, n, h, own, rq, arr)
    BY FirstUnsent
  <1>3. inj2[i] = t /\ \A j \in Routers : j # i => inj2[j] = inj[j]
    BY <1>1 DEF StageTypes
  <1>4. Moving(n2) = Moving(n) \cup {p}
    OBVIOUS
  <1>5. inj2 = [inj EXCEPT ![i] = t]
    OBVIOUS
  <1>6. \A x : ~(Occurs(x, off[i]) /\ Occurs(x, q))
    BY DEF OneStage
  <1> HIDE DEF q
  <1>7. /\ t \in Seq(Packets) /\ OnceEach(t) /\ Occurs(p, q)
        /\ \A x : Occurs(x, t) <=> Occurs(x, q) /\ x # p
    BY <1>1, OneLess
  <1> HIDE DEF t, p
  <1>8. inj2 \in [Routers -> Seq(Packets)]
    BY <1>1, <1>5, <1>7 DEF StageTypes
  <1>9. \A j \in Routers : /\ OnceEach(inj2[j])
                           /\ \A x : Occurs(x, inj2[j]) => Occurs(x, inj[j])
    BY <1>3, <1>7 DEF q, OneStage
  <1>10. ASSUME NEW j \in Routers, NEW x, Occurs(x, off[j]) \/ Occurs(x, inj2[j])
         PROVE  StillUnsent(x, j, n2, h, own, rq, arr)
    <2>1. StillUnsent(x, j, n, h, own, rq, arr)
      BY <1>9, <1>10 DEF OneStage
    <2>2. CASE j # i
      <3>1. x # p
        BY <1>2, <2>1, <2>2 DEF StillUnsent
      <3> QED BY <1>4, <2>1, <3>1 DEF StillUnsent
    <2>3. CASE j = i
      <3>1. x # p
        BY <1>3, <1>6, <1>7, <1>10, <2>3
      <3> QED BY <1>4, <2>1, <3>1 DEF StillUnsent
    <2> QED BY <2>2, <2>3
  <1>11. ASSUME NEW j \in Routers, NEW x, Occurs(x, rq[j])
         PROVE  x.dst = j /\ x \notin Moving(n2) /\ x \notin arr
    <2>1. x # p
      BY <1>2, <1>11 DEF StillUnsent
    <2> QED BY <1>4, <1>11, <2>1 DEF OneStage
  <1>12. arr \cap Moving(n2) = {}
    BY <1>2, <1>4 DEF StillUnsent, OneStage
  <1>13. \A j \in Routers : /\ OnceEach(off[j]) /\ OnceEach(rq[j])
                            /\ \A x : ~(Occurs(x, off[j]) /\ Occurs(x, inj2[j]))
    BY <1>9 DEF OneStage
  <1>14. StageTypes(off, inj2, rq, arr)
    BY <1>1, <1>8 DEF StageTypes
  <1> QED BY <1>9, <1>10, <1>11, <1>12, <1>13, <1>14 DEF OneStage

LEMMA InjectionKeeps == WholeInv /\ FlowInv /\ local_packet_injection => WholeInv'
  <1> SUFFICES ASSUME WholeInv, FlowInv, local_packet_injection PROVE WholeInv'
    OBVIOUS
  <1> DEFINE i == Running
             p == Head(injection[i])
             v == CHOOSE v \in Roomy(i) : \A w \in Roomy(i) : v <= w
             l == <<i, "LOCAL", v>>
  <1>1. /\ Roomy(i) # {} /\ injection[i] # <<>>
        /\ injection' = [injection EXCEPT ![i] = Tail(injection[i])]
        /\ input' = [input EXCEPT ![l] = input[l] \o Flits(p)]
        /\ stamp' = [stamp EXCEPT ![p] = now]
        /\ output' = output /\ holds' = holds /\ avail' = avail /\ offered' = offered
        /\ reqs' = reqs /\ arrived' = arrived
        /\ UNCHANGED <<num_vc, now, ratio, clock, turn>>
    BY DEF local_packet_injection, Roomy, channels, time
  <1>2. PICK own : Whole(Net(input, output), holds, own, avail)
    BY DEF WholeInv
  <1>3. /\ WholeNet(Net(input, output), holds, own, avail)
        /\ OneStage(Net(input, output), holds, own, offered, injection, reqs, arrived)
    BY <1>2 DEF Whole
  <1>4. input \in [Buffers -> Seq(FlitSet)] /\ StatesRight /\ KnobsRight
    BY DEF FlowInv, FlowTypes, WholeInv
  <1>5. i \in Routers
    BY <1>4, RunningRouter
  <1>6. l \in Buffers /\ l[1] = i /\ l[2] = "LOCAL"
    <2>1. Roomy(i) \subseteq 0..(num_vc - 1) /\ num_vc \in 1..MaxVC
      BY <1>4 DEF Roomy, KnobsRight
    <2>2. Roomy(i) \subseteq Nat
      BY <2>1
    <2>3. \E x \in Roomy(i) : \A w \in Roomy(i) : x <= w
      BY <1>1, <2>2, Least
    <2>4. v \in Roomy(i)
      BY <2>3
    <2>5. v \in VCs
      BY <2>1, <2>4, RingAssumption DEF VCs
    <2> HIDE DEF v
    <2> QED BY <1>5, <2>5 DEF Buffers, Ports
  <1> HIDE DEF i
  <1>7. /\ p \in Packets /\ StillUnsent(p, i, Net(input, output), holds, own, reqs, arrived)
    BY <1>1, <1>3, <1>5, FirstUnsent
  <1> HIDE DEF v
  <1>8. Flits(p) \in Seq(FlitSet) /\ IdsOf(Flits(p)) = Cut(p)
    BY <1>7, PacketIntoFlits, IdsFlits
  <1> DEFINE s == input[l]  t == Flits(p)  u == s \o t
  <1>9. s \in Seq(FlitSet) /\ t \in Seq(FlitSet) /\ IdsOf(t) = Cut(p)
    BY <1>4, <1>6, <1>8
  <1>10. \A k \in 1..Len(t) : t[k].state = "IB"
    <2>1. p.size \in Nat
      BY <1>7, RingAssumption
    <2> QED BY <2>1 DEF Flits
  <1>11. input' = [input EXCEPT ![l] = u]
    BY <1>1
  <1> HIDE DEF p, l, s, t
  <1>12. /\ u \in Seq(FlitSet) /\ Len(u) = Len(s) + Len(t) /\ Len(s) \in Nat /\ Len(t) \in Nat
         /\ \A k \in 1..(Len(s) + Len(t)) : u[k] = IF k <= Len(s) THEN s[k] ELSE t[k - Len(s)]
    BY <1>9, ConcatProperties, LenProperties
  <1>13. IdsOf(u) = IdsOf(s) \o Cut(p)
    BY <1>9, IdsJoin
  <1> HIDE DEF u
  <1>14. input'[l] = u /\ \A c \in Buffers : c # l => input'[c] = input[c]
    BY <1>4, <1>6, <1>11
  <1> DEFINE n == Net(input, output)  n2 == Net(input', output')
  <1>15. n2 = [n EXCEPT ![In(l)] = n[In(l)] \o Cut(p)]
    <2>1. /\ n2[In(l)] = IdsOf(u) /\ n[In(l)] = IdsOf(s)
          /\ \A w \in Places : w # In(l) => n2[w] = n[w]
      <3>1. n2[In(l)] = IdsOf(input'[l]) /\ n[In(l)] = IdsOf(input[l])
        BY <1>6, NetFacts
      <3>2. ASSUME NEW w \in Places, w # In(l) PROVE n2[w] = n[w]
        <4>1. PICK c \in Buffers : w = In(c) \/ w = Out(c)
          BY InOutPlaces DEF Places, In, Out
        <4>2. CASE w = In(c)
          <5>1. c # l
            BY <3>2, <4>2
          <5> QED BY <1>14, <4>2, <5>1, NetFacts
        <4>3. CASE w = Out(c)
          BY <1>1, <4>3, NetFacts
        <4> QED BY <4>1, <4>2, <4>3
      <3> QED BY <1>14, <3>1, <3>2 DEF s
    <2>2. n = [w \in Places |-> n[w]] /\ n2 = [w \in Places |-> n2[w]] /\ In(l) \in Places
      BY <1>6, NetFacts, InOutPlaces
    <2> HIDE DEF n, n2
    <2> QED BY <1>13, <2>1, <2>2
  <1>16. Injecting(n, holds, own, n2, p, l)
    BY <1>6, <1>7, <1>15 DEF Injecting, StillUnsent
  <1>17. WholeNet(n2, holds, own, avail) /\ Moving(n2) = Moving(n) \cup {p}
    BY <1>3, <1>16, InjectWhole
  <1>18. OneStage(n2, holds, own, offered, injection', reqs, arrived)
    <2>1. p = Head(injection[i])
      BY DEF p
    <2> HIDE DEF n, n2
    <2>2. OneStage(n, holds, own, offered, injection, reqs, arrived)
      BY <1>3 DEF n
    <2> QED BY <1>1, <1>5, <1>17, <2>1, <2>2, StagesInject
  <1>19. StatesRight'
    <2> SUFFICES ASSUME NEW c \in Buffers, NEW k \in 1..Len(input'[c])
                 PROVE  /\ input'[c][k].state # "IB" => k = 1
                        /\ input'[c][k].state = "RC" => ~Held(holds', c)
      BY DEF StatesRight
    <2>1. CASE c # l
      BY <1>1, <1>4, <1>14, <2>1 DEF StatesRight
    <2>2. CASE c = l /\ k <= Len(s)
      <3>1. k \in 1..Len(s) /\ input'[c][k] = input[l][k]
        BY <1>12, <1>14, <2>2 DEF s
      <3> QED BY <1>1, <1>4, <1>6, <2>2, <3>1 DEF StatesRight, s
    <2>3. CASE c = l /\ ~(k <= Len(s))
      <3>1. k - Len(s) \in 1..Len(t) /\ input'[c][k] = t[k - Len(s)]
        BY <1>12, <1>14, <2>3
      <3> QED BY <1>10, <3>1
    <2> QED BY <2>1, <2>2, <2>3
  <1>20. KnobsRight'
    <2>1. stamp' \in [Packets -> Nat]
      BY <1>1, <1>4 DEF KnobsRight
    <2> QED BY <1>1, <1>4, <2>1 DEF KnobsRight
  <1>21. /\ WholeNet(Net(input', output'), holds', own, avail')
         /\ OneStage(Net(input', output'), holds', own, offered', injection', reqs', arrived')
    BY <1>1, <1>17, <1>18
  <1> QED BY <1>19, <1>20, <1>21, WholeAgain

--------------------------------------------------------------------------------

\* Nothing is on its way at first.
LEMMA EmptyWhole ==
    ASSUME NEW n, NEW h, NEW own, NEW a, n = [w \in Places |-> <<>>],
           h = [b \in Buffers |-> NoChannel], a = [b \in Buffers |-> TRUE]
    PROVE  WholeNet(n, h, own, a) /\ Moving(n) = {}
  <1>1. /\ \A c \in Buffers : /\ In(c) \in Places /\ Out(c) \in Places /\ ~Held(h, c)
                              /\ n[In(c)] = <<>> /\ n[Out(c)] = <<>>
        /\ \A w \in Places : n[w] = <<>>
    BY InOutPlaces DEF Held
  <1>2. <<>> \in Seq(FlitIds) /\ Len(<<>>) = 0 /\ \A x : ~Occurs(x, <<>>)
    BY DEF Occurs
  <1>3. \A b \in Buffers : Holders(h, b) = {} /\ Coming(h, own, b) = {}
    BY <1>1 DEF Holders, Coming
  <1>4. \A c \in Buffers : Ahead(n, h, own, c) = {}
    <2> TAKE c \in Buffers
    <2>1. CASE c[2] = "LOCAL"
      BY <1>1, <2>1 DEF Ahead, Behind
    <2>2. CASE c[2] # "LOCAL"
      <3>1. Other(c) \in Buffers
        BY <2>2, OtherEnd
      <3> QED BY <1>1, <1>3, <2>2, <3>1 DEF Ahead, Behind, After
    <2> QED BY <2>1, <2>2
  <1>5. Chain(n, h, own)
    <2>1. \A Y, one : Linked(<<>>, Y, one)
      BY <1>2 DEF Linked
    <2>2. /\ \A b \in Buffers : Linked(n[Out(b)], Coming(h, own, b), TRUE)
          /\ \A c \in Buffers : Linked(n[In(c)], Behind(n, h, own, c), FALSE)
      BY <1>1, <2>1
    <2> QED BY <1>1, <1>4, <2>2 DEF Chain
  <1>6. Owners(n, h, a)
    BY <1>1, <1>3 DEF Owners
  <1>7. WholeTypes(n, h, own, a)
    BY <1>1, <1>2 DEF WholeTypes
  <1>8. \A w \in Places : \A x : ~Occurs(x, n[w])
    BY <1>1, <1>2
  <1>9. OnePlace(n)
    BY <1>1, <1>2, <1>8 DEF OnePlace, OnceEach
  <1>10. NoPassing(n) /\ OnRoute(n) /\ Gates(n, h, own)
    BY <1>1, <1>8 DEF NoPassing, OnRoute, Gates
  <1>11. Moving(n) = {}
    <2>1. \A w \in Places : ToSet(n[w]) = {}
      BY <1>1 DEF ToSet
    <2> QED BY <2>1 DEF Moving
  <1> QED BY <1>5, <1>6, <1>7, <1>9, <1>10, <1>11 DEF WholeNet

LEMMA WholeInit == Init => WholeInv
  <1> SUFFICES ASSUME Init PROVE WholeInv
    OBVIOUS
  <1> DEFINE n == Net(input, output)
             own == [c \in Buffers |-> <<>>]
  <1>1. PICK s \in Scenarios : num_vc = s.num_vc /\ ratio = s.ratio /\ offered = s.sends
    BY DEF Init
  <1>2. /\ injection = [i \in Routers |-> <<>>] /\ reqs = [i \in Routers |-> <<>>]
        /\ input = [b \in Buffers |-> <<>>] /\ output = [b \in Buffers |-> <<>>]
        /\ holds = [b \in Buffers |-> NoChannel] /\ avail = [b \in Buffers |-> TRUE]
        /\ arrived = {} /\ stamp = [p \in Packets |-> 0] /\ now = 1
        /\ clock = 0 /\ turn = 0
    BY DEF Init
  <1>3. n = [w \in Places |-> <<>>]
    <2>1. \A w \in Places : n[w] = <<>>
      <3> TAKE w \in Places
      <3>1. PICK c \in Buffers : w = In(c) \/ w = Out(c)
        BY InOutPlaces DEF Places, In, Out
      <3>2. n[In(c)] = IdsOf(<<>>) /\ n[Out(c)] = IdsOf(<<>>)
        BY <1>2, NetFacts
      <3>3. IdsOf(<<>>) = <<>>
        BY EmptySeq, IdsBasics
      <3> QED BY <3>1, <3>2, <3>3
    <2>2. n = [w \in Places |-> n[w]]
      BY NetFacts
    <2> HIDE DEF n
    <2> QED BY <2>1, <2>2
  <1> HIDE DEF n, own
  <1>4. WholeNet(n, holds, own, avail) /\ Moving(n) = {}
    BY <1>2, <1>3, EmptyWhole
  <1>5. OneStage(n, holds, own, offered, injection, reqs, arrived)
    <2>1. <<>> \in Seq(Packets) /\ OnceEach(<<>>) /\ \A x : ~Occurs(x, <<>>)
      BY DEF OnceEach, Occurs
    <2>2. offered \in [Routers -> Seq(Packets)]
      BY <1>1, RingAssumption
    <2>3. StageTypes(offered, injection, reqs, arrived)
      BY <1>2, <2>1, <2>2 DEF StageTypes
    <2>4. \A i \in Routers : OnceEach(offered[i]) /\ \A p : Occurs(p, offered[i]) => p.src = i
      <3> TAKE i \in Routers
      <3>1. \A m, k \in 1..Len(s.sends[i]) :
                s.sends[i][m].src = i /\ (s.sends[i][m] = s.sends[i][k] => m = k)
        BY RingAssumption
      <3> QED BY <1>1, <3>1 DEF OnceEach, Occurs
    <2>5. \A c \in Buffers : ~Held(holds, c)
      BY <1>2 DEF Held
    <2>6. \A i \in Routers : injection[i] = <<>> /\ reqs[i] = <<>>
      BY <1>2
    <2>7. \A i \in Routers : \A p : Occurs(p, offered[i]) =>
              StillUnsent(p, i, n, holds, own, reqs, arrived)
      BY <1>2, <1>4, <2>1, <2>4, <2>5, <2>6 DEF StillUnsent
    <2> QED BY <1>2, <1>4, <2>1, <2>3, <2>4, <2>6, <2>7 DEF OneStage
  <1>6. StatesRight
    <2>1. \A c \in Buffers : Len(input[c]) = 0
      BY <1>2
    <2> QED BY <2>1 DEF StatesRight
  <1>7. KnobsRight
    BY <1>1, <1>2, RingAssumption DEF KnobsRight
  <1> QED BY <1>4, <1>5, <1>6, <1>7 DEF WholeInv, Whole, n

\* Every stage of every router keeps the invariant.
LEMMA WholeNext == WholeInv /\ FlowInv /\ [Next]_vars => WholeInv'
  <1> SUFFICES ASSUME WholeInv, FlowInv, [Next]_vars PROVE WholeInv'
    OBVIOUS
  <1>1. CASE UNCHANGED vars
    <2>1. Still /\ input' = input /\ turn' = turn
      BY <1>1 DEF vars, ends, channels, flow, time, Still
    <2>2. input' = Fronts({}, "IB") /\ "IB" \in States /\ "IB" # "RC"
      BY <2>1, NoFronts DEF FlowInv, FlowTypes, States
    <2>3. turn' \in Nat
      BY <2>1 DEF WholeInv, KnobsRight
    <2> QED BY <2>1, <2>2, <2>3, StillKeeps
  <1> QED
    BY <1>1, CreditKeeps, LinkKeeps, SwitchKeeps, SwitchAllocationKeeps, VcaKeeps, RouteKeeps,
       InjectionKeeps, EndOfRunKeeps, EndOfCycleKeeps DEF Next

--------------------------------------------------------------------------------

\* Flits that are linked are in order.
LEMMA LinkedInOrder ==
    ASSUME NEW s \in Seq(FlitSet), NEW Y, NEW one, Linked(IdsOf(s), Y, one)
    PROVE  InOrder(s)
  <1>1. /\ Len(IdsOf(s)) = Len(s) /\ Len(s) \in Nat
        /\ \A k \in 1..Len(s) : IdsOf(s)[k] = Id(s[k])
    BY IdsBasics, LenProperties
  <1> SUFFICES ASSUME NEW k \in 1..(Len(s) - 1) PROVE Follows(s[k], s[k + 1])
    BY DEF InOrder
  <1>2. k \in 1..Len(s) /\ k + 1 \in 1..Len(s) /\ k # Len(s)
    BY <1>1
  <1>3. Meets(Id(s[k]), {Id(s[k + 1])}, one)
    BY <1>1, <1>2 DEF Linked
  <1>4. Next1(Id(s[k]), Id(s[k + 1])) \/ (Tail1(Id(s[k])) /\ Id(s[k + 1])[2] = 1)
    BY <1>3 DEF Meets
  <1> QED BY <1>4 DEF Next1, Tail1, Id, Follows, IsTail, IsHead

\* What waits for the link behind a run of flits, and what waits for the switch.
LEMMA RunInOrder ==
    ASSUME NEW s \in Seq(FlitSet), NEW t \in Seq(FlitSet), NEW Y,
           IdsOf(s) \in Seq(FlitIds), IdsOf(t) \in Seq(FlitIds),
           Linked(IdsOf(t), Y, FALSE),
           Linked(IdsOf(s), IF IdsOf(t) # <<>> THEN {Head(IdsOf(t))} ELSE Y, FALSE)
    PROVE  /\ s \o t \in Seq(FlitSet) /\ IdsOf(s \o t) \in Seq(FlitIds)
           /\ Linked(IdsOf(s \o t), Y, FALSE)
           /\ IdsOf(s \o t) # <<>> => Head(IdsOf(s \o t)) = Head(IF s # <<>> THEN IdsOf(s)
                                                                 ELSE IdsOf(t))
  <1> DEFINE a == IdsOf(s)  b == IdsOf(t)  u == s \o t
  <1>1. u \in Seq(FlitSet) /\ IdsOf(u) = a \o b
    BY ConcatProperties, IdsJoin
  <1>2. a \in Seq(FlitIds) /\ b \in Seq(FlitIds) /\ Linked(b, Y, FALSE)
        /\ Linked(a, IF b # <<>> THEN {Head(b)} ELSE Y, FALSE)
    OBVIOUS
  <1>3. s = <<>> <=> a = <<>>
    BY IdsBasics
  <1> HIDE DEF a, b
  <1>4. a \o b \in Seq(FlitIds)
    BY <1>2, ConcatProperties
  <1>5. CASE b = <<>>
    <2>1. a \o b = a
      BY <1>2, <1>5, ConcatEmptySeq
    <2> QED BY <1>1, <1>2, <1>3, <1>4, <1>5, <2>1 DEF a, b
  <1>6. CASE b # <<>>
    <2>1. Linked(a \o b, Y, FALSE)
      BY <1>2, <1>6, LinkedJoin
    <2>2. Head(a \o b) = Head(IF s # <<>> THEN a ELSE b)
      <3>1. CASE a = <<>>
        BY <1>2, <1>3, <3>1, ConcatEmptySeq
      <3>2. CASE a # <<>>
        <4>1. (a \o b)[1] = a[1] /\ Len(a \o b) = Len(a) + Len(b) /\ Len(a) > 0
          BY <1>2, <3>2, ConcatProperties, EmptySeq, LenProperties
        <4>2. a \o b # <<>>
          BY <1>2, <1>4, <4>1, EmptySeq, LenProperties
        <4> QED BY <1>2, <1>3, <1>4, <3>2, <4>1, <4>2, HeadTailProperties
      <3> QED BY <3>1, <3>2
    <2> QED BY <1>1, <1>4, <2>1, <2>2 DEF a, b
  <1> QED BY <1>5, <1>6

\* The input channels that hold output channel b.
LEMMA HoldersOf ==
    ASSUME NEW h, NEW b \in Buffers
    PROVE  {c \in Buffers : c[1] = b[1] /\ h[c] = <<b[2], b[3]>>} \subseteq Holders(h, b)
  <1>1. b = <<b[1], b[2], b[3]>> /\ b[2] \in Ports
    BY DEF Buffers
  <1>2. "none" \notin Ports
    BY DEF Ports
  <1> SUFFICES ASSUME NEW c \in Buffers, c[1] = b[1], h[c] = <<b[2], b[3]>>
               PROVE  Held(h, c) /\ To(h, c) = b
    BY DEF Holders
  <1>3. h[c][1] = b[2] /\ h[c][2] = b[3]
    OBVIOUS
  <1>4. Held(h, c)
    BY <1>1, <1>3, HeldPort
  <1> QED BY <1>1, <1>3, <1>4 DEF To

LEMMA HoldersAre ==
    ASSUME NEW h \in [Buffers -> (Ports \X VCs) \cup {NoChannel}], NEW b \in Buffers
    PROVE  {c \in Buffers : c[1] = b[1] /\ h[c] = <<b[2], b[3]>>} = Holders(h, b)
  <1>1. ASSUME NEW c \in Holders(h, b)
        PROVE  c \in Buffers /\ c[1] = b[1] /\ h[c] = <<b[2], b[3]>>
    <2>1. c \in Buffers /\ Held(h, c) /\ b = <<c[1], h[c][1], h[c][2]>>
      BY DEF Holders, To
    <2>2. h[c] \in Ports \X VCs
      BY <2>1 DEF Held
    <2>3. b[1] = c[1] /\ b[2] = h[c][1] /\ b[3] = h[c][2]
      BY <2>1
    <2> QED BY <2>1, <2>2, <2>3
  <1> QED BY <1>1, HoldersOf

LEMMA WormholeFollows == WholeInv /\ FlowInv => WormholeOrder
  <1> SUFFICES ASSUME WholeInv, FlowInv, NEW b \in Buffers
               PROVE  LET holders == {c \in Buffers : c[1] = b[1] /\ holds[c] = <<b[2], b[3]>>}
                          behind  == IF b[2] = "LOCAL" THEN <<>> ELSE input[Other(b)]
                      IN  IF holders = {} THEN InOrder(behind \o output[b])
                          ELSE \A c \in holders : InOrder(behind \o output[b] \o input[c])
    BY DEF WormholeOrder
  <1> DEFINE n == Net(input, output)
             s == IF b[2] = "LOCAL" THEN <<>> ELSE input[Other(b)]
             t == output[b]
             u == s \o t
  <1>1. PICK own : Whole(n, holds, own, avail)
    BY DEF WholeInv
  <1>2. /\ WholeTypes(n, holds, own, avail) /\ Chain(n, holds, own)
        /\ Owners(n, holds, avail)
    BY <1>1 DEF Whole, WholeNet
  <1>3. input \in [Buffers -> Seq(FlitSet)] /\ output \in [Buffers -> Seq(FlitSet)]
    BY DEF FlowInv, FlowTypes
  <1>4. \A c \in Buffers : /\ n[In(c)] = IdsOf(input[c]) /\ n[In(c)] \in Seq(FlitIds)
                           /\ n[Out(c)] = IdsOf(output[c]) /\ n[Out(c)] \in Seq(FlitIds)
    BY <1>2, NetFacts, InOutPlaces DEF WholeTypes
  <1> HIDE DEF n
  <1>5. t \in Seq(FlitSet) /\ IdsOf(t) \in Seq(FlitIds)
        /\ Linked(IdsOf(t), Coming(holds, own, b), TRUE)
    BY <1>2, <1>3, <1>4 DEF Chain
  <1>6. /\ s \in Seq(FlitSet) /\ IdsOf(s) \in Seq(FlitIds)
        /\ Linked(IdsOf(s), After(n, holds, own, b), FALSE)
    <2>1. CASE b[2] = "LOCAL"
      <3>1. s = <<>> /\ IdsOf(<<>>) = <<>> /\ <<>> \in Seq(FlitSet) /\ <<>> \in Seq(FlitIds)
            /\ Len(<<>>) = 0
        BY <2>1, EmptySeq, IdsBasics
      <3>2. Linked(<<>>, After(n, holds, own, b), FALSE)
        BY <3>1 DEF Linked
      <3> HIDE DEF s
      <3> QED BY <3>1, <3>2
    <2>2. CASE b[2] # "LOCAL"
      <3>1. Other(b) \in Buffers /\ Other(b)[2] # "LOCAL" /\ Other(Other(b)) = b
        BY <2>2, OtherEnd
      <3>2. Behind(n, holds, own, Other(b)) = After(n, holds, own, b)
        BY <3>1 DEF Behind
      <3> QED BY <1>2, <1>3, <1>4, <2>2, <3>1, <3>2 DEF Chain
    <2> QED BY <2>1, <2>2
  <1>7. After(n, holds, own, b) = IF IdsOf(t) # <<>> THEN {Head(IdsOf(t))}
                                  ELSE Coming(holds, own, b)
    BY <1>4 DEF After
  <1>8. {c \in Buffers : c[1] = b[1] /\ holds[c] = <<b[2], b[3]>>} = Holders(holds, b)
    BY <1>2, HoldersAre DEF WholeTypes
  <1> HIDE DEF s, t
  <1>9. u \in Seq(FlitSet) /\ IdsOf(u) \in Seq(FlitIds)
        /\ Linked(IdsOf(u), Coming(holds, own, b), FALSE)
    <2>1. Linked(IdsOf(t), Coming(holds, own, b), FALSE)
      BY <1>5, LinkedWeaker
    <2> QED BY <1>5, <1>6, <1>7, <2>1, RunInOrder
  <1> HIDE DEF u
  <1>10. InOrder(u)
    BY <1>9, LinkedInOrder
  <1>11. ASSUME NEW c \in Holders(holds, b) PROVE InOrder(u \o input[c])
    <2>1. c \in Buffers /\ Held(holds, c)
      BY DEF Holders
    <2>2. Holders(holds, b) = {c}
      BY <1>2 DEF Holders, Owners
    <2>3. Coming(holds, own, b) = {own[c]}
      BY <2>2 DEF Coming
    <2> DEFINE v == input[c]  Y == Behind(n, holds, own, c)
    <2>4. v \in Seq(FlitSet) /\ IdsOf(v) \in Seq(FlitIds) /\ Linked(IdsOf(v), Y, FALSE)
      BY <1>2, <1>3, <1>4, <2>1 DEF Chain
    <2>5. {own[c]} = IF IdsOf(v) # <<>> THEN {Head(IdsOf(v))} ELSE Y
      BY <1>2, <1>4, <2>1 DEF Chain, Ahead
    <2> HIDE DEF v, Y
    <2>6. u \o v \in Seq(FlitSet) /\ Linked(IdsOf(u \o v), Y, FALSE)
      BY <1>9, <2>3, <2>4, <2>5, RunInOrder
    <2>7. InOrder(u \o v)
      BY <2>6, LinkedInOrder
    <2> QED BY <2>7 DEF v
  <1> QED BY <1>8, <1>10, <1>11 DEF u, s, t

LEMMA OwnerFollows == WholeInv /\ FlowInv => ChannelOwner
  <1> SUFFICES ASSUME WholeInv, FlowInv, NEW b \in Buffers
               PROVE  LET holders == {c \in Buffers : c[1] = b[1] /\ holds[c] = <<b[2], b[3]>>}
                      IN  /\ avail[b] <=> (holders = {} /\ output[b] = <<>>)
                          /\ Cardinality(holders) <= 1
                          /\ holders = {} /\ output[b] # <<>> => IsTail(Last(output[b]))
    BY DEF ChannelOwner
  <1> DEFINE n == Net(input, output)
             t == output[b]
  <1>1. PICK own : Whole(n, holds, own, avail)
    BY DEF WholeInv
  <1>2. /\ WholeTypes(n, holds, own, avail) /\ Chain(n, holds, own)
        /\ Owners(n, holds, avail)
    BY <1>1 DEF Whole, WholeNet
  <1>3. t \in Seq(FlitSet)
    BY DEF FlowInv, FlowTypes
  <1>4. n[Out(b)] = IdsOf(t)
    BY NetFacts
  <1> HIDE DEF n, t
  <1>5. {c \in Buffers : c[1] = b[1] /\ holds[c] = <<b[2], b[3]>>} = Holders(holds, b)
    BY <1>2, HoldersAre DEF WholeTypes
  <1>6. avail[b] <=> Holders(holds, b) = {} /\ t = <<>>
    BY <1>2, <1>3, <1>4, IdsBasics DEF Owners
  <1>7. Cardinality(Holders(holds, b)) <= 1
    <2>1. CASE Holders(holds, b) = {}
      BY <2>1, FS_EmptySet
    <2>2. CASE Holders(holds, b) # {}
      <3>1. PICK c : c \in Holders(holds, b)
        BY <2>2
      <3>2. Holders(holds, b) = {c}
        BY <1>2, <3>1 DEF Holders, Owners
      <3> QED BY <3>2, FS_Singleton
    <2> QED BY <2>1, <2>2
  <1>8. ASSUME Holders(holds, b) = {}, t # <<>> PROVE IsTail(Last(t))
    <2>1. Coming(holds, own, b) = {}
      BY <1>8 DEF Coming
    <2>2. Linked(IdsOf(t), {}, TRUE)
      BY <1>2, <1>4, <2>1 DEF Chain
    <2>3. /\ Len(t) \in 1..Len(t) /\ Len(IdsOf(t)) = Len(t)
          /\ IdsOf(t)[Len(t)] = Id(t[Len(t)])
      BY <1>3, <1>8, IdsBasics, EmptySeq, LenProperties
    <2>4. Tail1(Id(t[Len(t)]))
      BY <2>2, <2>3 DEF Linked, Meets
    <2> QED BY <2>4, TailId DEF Last
  <1> QED BY <1>5, <1>6, <1>7, <1>8 DEF t

LEMMA DeliveryFollows == WholeInv /\ FlowInv => DeliveredOnce
  <1> SUFFICES ASSUME WholeInv, FlowInv, NEW i \in Routers, NEW k \in 1..Len(reqs[i])
               PROVE  LET p == reqs[i][k]
                          gone(flits) == \A j \in 1..Len(flits) : flits[j].pkt # p
                      IN  /\ p.dst = i /\ p \notin arrived
                          /\ \A j \in 1..Len(reqs[i]) : reqs[i][j] = p => j = k
                          /\ \A b \in Buffers : gone(input[b]) /\ gone(output[b])
    BY DEF DeliveredOnce
  <1> DEFINE n == Net(input, output)
             p == reqs[i][k]
  <1>1. PICK own : Whole(n, holds, own, avail)
    BY DEF WholeInv
  <1>2. OneStage(n, holds, own, offered, injection, reqs, arrived)
    BY <1>1 DEF Whole
  <1>3. Occurs(p, reqs[i])
    BY DEF Occurs
  <1>4. p.dst = i /\ p \notin Moving(n) /\ p \notin arrived /\ OnceEach(reqs[i])
    BY <1>2, <1>3 DEF OneStage
  <1>5. ASSUME NEW s \in Seq(FlitSet), NEW w \in Places, n[w] = IdsOf(s),
               NEW j \in 1..Len(s), s[j].pkt = p
        PROVE  FALSE
    <2>1. Len(n[w]) = Len(s) /\ n[w][j] = Id(s[j]) /\ n[w] \in Seq(AnyId)
      BY <1>5, IdsBasics
    <2>2. n[w][j] \in ToSet(n[w]) /\ n[w][j][1] = p
      <3>1. j \in DOMAIN n[w]
        BY <2>1, LenProperties
      <3> QED BY <1>5, <2>1, <3>1 DEF ToSet, Id
    <2>3. p \in Moving(n)
      BY <2>2 DEF Moving
    <2> QED BY <1>4, <2>3
  <1>6. \A b \in Buffers : /\ n[In(b)] = IdsOf(input[b]) /\ In(b) \in Places
                           /\ n[Out(b)] = IdsOf(output[b]) /\ Out(b) \in Places
                           /\ input[b] \in Seq(FlitSet) /\ output[b] \in Seq(FlitSet)
    BY NetFacts, InOutPlaces DEF FlowInv, FlowTypes
  <1> HIDE DEF n
  <1>7. \A b \in Buffers : /\ \A j \in 1..Len(input[b]) : input[b][j].pkt # p
                           /\ \A j \in 1..Len(output[b]) : output[b][j].pkt # p
    BY <1>5, <1>6
  <1>8. \A j \in 1..Len(reqs[i]) : reqs[i][j] = p => j = k
    BY <1>4 DEF OnceEach
  <1> QED BY <1>4, <1>7, <1>8

LEMMA WholeFollows == WholeInv /\ FlowInv => PacketsWhole
  BY WormholeFollows, OwnerFollows, DeliveryFollows DEF PacketsWhole

\* Packets cross the ring whole (stage_lt, stage_st, stage_vca, local_packet_injection,
\* receive_req), for every ring, traffic and arbitration: their flits are never mixed, an
\* output channel belongs to one packet at a time, and a client gets a packet that was
\* sent to it, once, and after the last of its flits.
THEOREM RingKeepsPackets == Spec => []PacketsWhole
  <1> QED
    BY WholeInit, WholeNext, WholeFollows, FlowInit, FlowNext, PTL DEF Spec

--------------------------------------------------------------------------------

\* The routers up to a layer are the first ones.
Below(l) == {j \in Routers : Layer[j] <= l}

LEMMA BelowFirst ==
    ASSUME NEW l \in Int
    PROVE  Cardinality(Below(l)) \in Nat /\ Below(l) = 0..(Cardinality(Below(l)) - 1)
  <1> DEFINE T == {x \in 0..N : x = N \/ (x \in Routers /\ Layer[x] > l)}
  <1>1. N \in Nat /\ Routers = 0..(N - 1)
    BY RingAssumption DEF Routers
  <1>2. T \subseteq Nat /\ T # {} /\ \A x \in T : x <= N
    <2>1. N \in T
      BY <1>1
    <2> QED BY <1>1, <2>1
  <1>3. PICK c \in T : \A y \in T : c <= y
    <2> HIDE DEF T
    <2> QED BY <1>2, Least
  <1>4. c \in Nat /\ c <= N
    BY <1>2, <1>3
  <1>5. \A j \in Routers : Layer[j] \in Int
    BY LayerAssumption
  <1>6. ASSUME NEW j \in 0..(c - 1) PROVE j \in Below(l)
    <2>1. j \notin T /\ j \in 0..N /\ j \in Routers
      BY <1>1, <1>3, <1>4
    <2>2. ~(Layer[j] > l)
      BY <2>1
    <2> QED BY <1>5, <2>1, <2>2 DEF Below
  <1>7. ASSUME NEW j \in Below(l) PROVE j \in 0..(c - 1)
    <2>1. j \in Routers /\ Layer[j] <= l /\ j \in 0..(N - 1)
      BY <1>1 DEF Below
    <2>2. ASSUME ~(j < c) PROVE FALSE
      <3>1. c \in Routers /\ c # N
        BY <1>1, <1>4, <2>1, <2>2
      <3>2. Layer[c] > l
        BY <1>3, <3>1
      <3>3. Layer[c] <= Layer[j]
        <4>1. c = j \/ c < j
          BY <1>4, <2>1, <2>2
        <4> QED BY <1>5, <2>1, <3>1, <4>1, LayerAssumption
      <3> QED BY <1>5, <2>1, <3>1, <3>2, <3>3
    <2> QED BY <1>4, <2>1, <2>2
  <1>8. Below(l) = 0..(c - 1)
    BY <1>6, <1>7
  <1>9. Cardinality(0..(c - 1)) = c
    <2>1. IF 0 > c - 1 THEN c = 0 ELSE c = (c - 1) - 0 + 1
      BY <1>4
    <2>2. 0 \in Int /\ c - 1 \in Int
      BY <1>4
    <2>3. Cardinality(0..(c - 1)) = IF 0 > c - 1 THEN 0 ELSE (c - 1) - 0 + 1
      BY <2>2, FS_Interval
    <2> QED BY <1>4, <2>1, <2>3
  <1> QED BY <1>4, <1>8, <1>9

\* A router finds another one of the next layer at the place it looks for it.
LEMMA FoundInLayer ==
    ASSUME NEW l \in Int, NEW d \in Routers, Layer[d] = l + 1
    PROVE  OfLayer(l + 1)[d - Cardinality(Below(l)) + 1] = d
  <1> DEFINE S == {j \in Routers : Layer[j] = l + 1}
             r == [k \in 1..N |-> k - 1]
             a == Cardinality(Below(l))
             b == Cardinality(Below(l + 1)) - 1
             q == Kept(r, S)
  <1>1. N \in Nat /\ Routers = 0..(N - 1)
    BY RingAssumption DEF Routers
  <1>2. /\ a \in Nat /\ Below(l) = 0..(a - 1)
        /\ b \in Int /\ Below(l + 1) = 0..b
    <2>1. l + 1 \in Int
      OBVIOUS
    <2>2. /\ Cardinality(Below(l + 1)) \in Nat
          /\ Below(l + 1) = 0..(Cardinality(Below(l + 1)) - 1)
      BY <2>1, BelowFirst
    <2>3. Cardinality(Below(l)) \in Nat /\ Below(l) = 0..(Cardinality(Below(l)) - 1)
      BY BelowFirst
    <2> QED BY <2>2, <2>3
  <1>3. S = a..b
    <2>1. \A j \in Routers : Layer[j] \in Int
      BY LayerAssumption
    <2>2. S = Below(l + 1) \ Below(l)
      BY <2>1 DEF Below
    <2> HIDE DEF S
    <2> QED BY <1>2, <2>2
  <1>4. r \in Seq(Nat) /\ Len(r) = N /\ \A k \in 1..N : r[k] = k - 1
    BY <1>1
  <1> HIDE DEF a, b, S, r
  <1>5. OnceEach(r) /\ \A x : Occurs(x, r) <=> x \in Routers
    <2>1. OnceEach(r)
      BY <1>1, <1>4 DEF OnceEach
    <2>2. ASSUME NEW x \in Routers PROVE Occurs(x, r)
      <3>1. x + 1 \in 1..N /\ r[x + 1] = x
        BY <1>1, <1>4
      <3> QED BY <1>4, <3>1 DEF Occurs
    <2>3. ASSUME NEW x, Occurs(x, r) PROVE x \in Routers
      BY <1>1, <1>4, <2>3 DEF Occurs
    <2> QED BY <2>1, <2>2, <2>3
  <1>6. ASSUME NEW x \in Routers, NEW y \in Routers, x < y PROVE Precedes(x, y, r)
    <2>1. x + 1 \in 1..N /\ y + 1 \in 1..N /\ x + 1 < y + 1 /\ r[x + 1] = x /\ r[y + 1] = y
      BY <1>1, <1>4, <1>6
    <2> QED BY <1>4, <2>1 DEF Precedes
  <1>7. /\ q \in Seq(Nat) /\ OnceEach(q)
        /\ \A x : Occurs(x, q) <=> Occurs(x, r) /\ x \in S
        /\ \A x, y \in S : Precedes(x, y, r) => Precedes(x, y, q)
    BY <1>4, <1>5, KeptProperties
  <1>8. S \subseteq Routers /\ d \in S
    BY DEF S
  <1> HIDE DEF q
  <1>9. \A x : Occurs(x, q) <=> x \in a..b
    BY <1>3, <1>5, <1>7, <1>8
  <1>10. \A x, y \in a..b : x < y => Precedes(x, y, q)
    BY <1>3, <1>6, <1>7, <1>8
  <1>11. q[d - a + 1] = d
    BY <1>2, <1>3, <1>7, <1>8, <1>9, <1>10, InItsPlace
  <1> QED BY <1>11 DEF q, a, S, r, OfLayer

\* A packet arrives where it has to: the receiver is the router it is sent to.
Crosses(p, i) == p \in Packets /\ p.src = i /\ Layer[p.dst] - Layer[i] \in {-1, 1}
OtherSide(side) == IF side = "ds" THEN "us" ELSE "ds"

LEMMA RightReceiver ==
    ASSUME NEW i \in Routers, NEW side \in Sides,
           Crosses(Head(sending[<<i, side>>]), i), SideOf(Head(sending[<<i, side>>])) = side
    PROVE  LET d == Head(sending[<<i, side>>]).dst
           IN  Receiver(i, side) = <<d, OtherSide(side)>> /\ d \in Routers /\ d # i
  <1> DEFINE p == Head(sending[<<i, side>>])  d == p.dst
  <1>1. /\ d \in Routers \ {p.src} /\ p.src = i /\ Layer[d] - Layer[i] \in {-1, 1}
        /\ SideOf(p) = side
    BY RingAssumption DEF Crosses
  <1>2. /\ \A j \in Routers : Layer[j] \in Int /\ j \in Nat
        /\ \A j, k \in Routers : j < k => Layer[j] <= Layer[k]
    BY LayerAssumption, RingAssumption DEF Routers
  <1>3. side = "ds" \/ side = "us"
    BY DEF Sides
  <1>4. p.src < p.dst <=> side = "ds"
    BY <1>1, <1>3 DEF SideOf
  <1>5. Receiver(i, side) = IF side = "ds" THEN <<dstream(i)[d - ds_start(i) + 1], "us">>
                            ELSE <<ustream(i)[d - us_start(i) + 1], "ds">>
    BY DEF Receiver
  <1> HIDE DEF p, d
  <1>6. CASE side = "ds"
    <2>1. i < d
      BY <1>1, <1>4, <1>6 DEF d
    <2>2. Layer[d] = Layer[i] + 1
      BY <1>1, <1>2, <2>1
    <2>3. OfLayer(Layer[i] + 1)[d - Cardinality(Below(Layer[i])) + 1] = d
      BY <1>1, <1>2, <2>2, FoundInLayer
    <2>4. dstream(i)[d - ds_start(i) + 1] = d
      BY <2>3 DEF dstream, ds_start, Below
    <2> QED BY <1>1, <1>5, <1>6, <2>4 DEF OtherSide, p, d
  <1>7. CASE side # "ds"
    <2>1. ~(i < d)
      BY <1>1, <1>4, <1>7 DEF d
    <2>2. d < i
      BY <1>1, <1>2, <2>1
    <2>3. Layer[d] = Layer[i] - 1
      BY <1>1, <1>2, <2>2
    <2> DEFINE l == Layer[i] - 2
    <2>4. l \in Int /\ Layer[d] = l + 1 /\ l + 1 = Layer[i] - 1
      BY <1>2, <2>3
    <2>5. {j \in Routers : Layer[j] < Layer[i] - 1} = Below(l)
      BY <1>2, <2>4 DEF Below
    <2> HIDE DEF l
    <2>6. OfLayer(l + 1)[d - Cardinality(Below(l)) + 1] = d
      BY <1>1, <2>4, FoundInLayer
    <2>7. ustream(i)[d - us_start(i) + 1] = d
      BY <2>4, <2>5, <2>6 DEF ustream, us_start
    <2> QED BY <1>1, <1>5, <1>7, <2>7 DEF OtherSide, p, d
  <1> QED BY <1>6, <1>7

--------------------------------------------------------------------------------

\* The flits of the packets in a list, as TravelWhole adds them up: one after the other.
Entries == [pkt : Packets, wait : Nat]
Total(s) == FoldLeft(LAMBDA n, r : n + r.pkt.size, 0, s)
AddsUp(g, s) == /\ g[0] = 0
                /\ \A k \in 1..Len(s) : g[k] \in Nat /\ g[k] = g[k - 1] + s[k].pkt.size

LEMMA TotalSteps ==
    ASSUME NEW s \in Seq(Entries)
    PROVE  \E g : AddsUp(g, s) /\ Total(s) = g[Len(s)]
  <1> DEFINE n == Len(s)
             D == DOMAIN s
             X == Nat
             c == [t \in SUBSET D |-> Max(t)]
             none == 0
             h == [y \in X \X D |-> y[1] + s[y[2]].pkt.size]
             iter == CHOOSE it : it = [t \in SUBSET D |->
                        IF t = {} THEN 0 ELSE it[t \ {Max(t)}] + s[Max(t)].pkt.size]
  <1>1. /\ n \in Nat /\ D = 1..n /\ IsFiniteSet(D)
        /\ \A k \in D : s[k].pkt.size \in Nat
    <2>1. n \in Nat /\ D = 1..n
      BY LenProperties
    <2>2. \A k \in D : s[k] \in Entries
      BY ElementOfSeq
    <2>3. \A p \in Packets : p.size \in Nat
      BY RingAssumption
    <2> QED BY <2>1, <2>2, <2>3, FS_Interval DEF Entries
  <1>2. Total(s) = iter[D]
    BY DEF Total, FoldLeft, MapThenFoldSet
  <1>3. \A t \in SUBSET D : t # {} => c[t] \in t /\ c[t] = Max(t)
    <2> HIDE DEF n, D
    <2>1. ASSUME NEW t \in SUBSET D, t # {} PROVE Max(t) \in t
      BY <1>1, <2>1, LargestIn
    <2> QED BY <2>1
  <1> HIDE DEF D
  <1>4. \A x \in X, k \in D : h[<<x, k>>] \in X /\ h[<<x, k>>] = x + s[k].pkt.size
    BY <1>1
  <1>5. none \in X /\ none = 0
    OBVIOUS
  <1> HIDE DEF n, c, h, none, X
  <1>6. PICK g \in [SUBSET D -> X] : Folds(g, D, none, c, h)
    BY <1>1, <1>3, <1>4, <1>5, FoldExists DEF Picks, Keeps
  <1>7. g = [t \in SUBSET D |-> IF t = {} THEN 0 ELSE g[t \ {Max(t)}] + s[Max(t)].pkt.size]
    <2>1. ASSUME NEW t \in SUBSET D
          PROVE  g[t] = IF t = {} THEN 0 ELSE g[t \ {Max(t)}] + s[Max(t)].pkt.size
      <3>1. CASE t = {}
        BY <3>1, <1>5, <1>6 DEF Folds
      <3>2. CASE t # {}
        <4>1. /\ c[t] = Max(t) /\ Max(t) \in D /\ t \ {Max(t)} \in SUBSET D
              /\ g[t \ {Max(t)}] \in X
          BY <1>3, <1>6, <3>2
        <4>2. g[t] = h[<<g[t \ {c[t]}], c[t]>>]
          BY <1>6, <3>2 DEF Folds
        <4> QED BY <1>4, <3>2, <4>1, <4>2
      <3> QED BY <3>1, <3>2
    <2> QED BY <2>1
  <1>8. iter = [t \in SUBSET D |->
                IF t = {} THEN 0 ELSE iter[t \ {Max(t)}] + s[Max(t)].pkt.size]
    BY <1>7
  <1> HIDE DEF iter
  <1>9. iter[{}] = none /\ \A t \in SUBSET D : t # {} /\ iter[t \ {c[t]}] \in X =>
                iter[t] = h[<<iter[t \ {c[t]}], c[t]>>]
    <2>1. iter[{}] = none
      BY <1>5, <1>8
    <2>2. ASSUME NEW t \in SUBSET D, t # {}, iter[t \ {c[t]}] \in X
          PROVE  iter[t] = h[<<iter[t \ {c[t]}], c[t]>>]
      <3>1. c[t] = Max(t) /\ c[t] \in D
        BY <1>3, <2>2
      <3>2. iter[t] = iter[t \ {c[t]}] + s[c[t]].pkt.size
        BY <1>8, <2>2, <3>1
      <3> DEFINE v == iter[t \ {c[t]}]
                 j == c[t]
      <3>3. v \in X /\ j \in D /\ iter[t] = v + s[j].pkt.size
        BY <2>2, <3>1, <3>2
      <3> HIDE DEF v, j
      <3>4. iter[t] = h[<<v, j>>]
        BY <1>4, <3>3
      <3> QED BY <3>4 DEF v, j
    <2> QED BY <2>1, <2>2
  <1>10. (\A t \in SUBSET D : iter[t] \in X) /\ Folds(iter, D, none, c, h)
    <2>1. Picks(c, D) /\ Keeps(h, X, D)
      BY <1>3, <1>4 DEF Picks, Keeps
    <2>2. Recurs(iter, D, X, none, c, h)
      BY <1>9 DEF Recurs
    <2> QED BY <1>1, <1>5, <2>1, <2>2, FoldStays
  <1>11. iter[1..0] = none /\ \A k \in 1..n : iter[1..k] = h[<<iter[1..(k - 1)], k>>]
    <2>1. \A t \in SUBSET (1..n) : c[t] = Max(t)
      BY <1>1 DEF c
    <2>2. n \in Nat /\ Folds(iter, 1..n, none, c, h)
      BY <1>1, <1>10
    <2> QED BY <2>1, <2>2, PrefixFold
  <1> DEFINE f == [k \in 0..n |-> iter[1..k]]
  <1>12. f[0] = 0 /\ f[n] = iter[D] /\ \A k \in 1..n : f[k] \in Nat /\ f[k] = f[k - 1] + s[k].pkt.size
    <2>1. f[0] = iter[1..0] /\ f[n] = iter[1..n]
      BY <1>1
    <2>2. ASSUME NEW k \in 1..n PROVE f[k] \in Nat /\ f[k] = f[k - 1] + s[k].pkt.size
      <3>1. k \in 0..n /\ k - 1 \in 0..n /\ k \in D
        BY <1>1
      <3>2. iter[1..(k - 1)] \in X /\ iter[1..k] \in X
        <4>1. 1..(k - 1) \in SUBSET D /\ 1..k \in SUBSET D
          BY <1>1
        <4> QED BY <1>10, <4>1
      <3>3. iter[1..k] = iter[1..(k - 1)] + s[k].pkt.size
        BY <1>4, <1>11, <3>1, <3>2
      <3> QED BY <3>1, <3>2, <3>3 DEF X
    <2> QED BY <1>1, <1>5, <1>11, <2>1, <2>2
  <1> HIDE DEF f
  <1>13. AddsUp(f, s)
    BY <1>12 DEF AddsUp, n
  <1> QED BY <1>2, <1>12, <1>13 DEF n

\* Two lists with the same packets add up to the same.
LEMMA TotalSame ==
    ASSUME NEW s \in Seq(Entries), NEW t \in Seq(Entries), Len(t) = Len(s),
           \A k \in 1..Len(s) : t[k].pkt = s[k].pkt
    PROVE  Total(t) = Total(s)
  <1>1. PICK f : AddsUp(f, s) /\ Total(s) = f[Len(s)]
    BY TotalSteps
  <1>2. PICK g : AddsUp(g, t) /\ Total(t) = g[Len(t)]
    BY TotalSteps
  <1> DEFINE n == Len(s)
             T == {k \in 0..n : g[k] = f[k]}
  <1>3. n \in Nat
    BY LenProperties
  <1>4. 0 \in T
    BY <1>1, <1>2, <1>3 DEF AddsUp
  <1>5. \A k \in 1..n : k - 1 \in T => k \in T
    BY <1>1, <1>2, <1>3 DEF AddsUp
  <1>6. 0..n \subseteq T
    <2> HIDE DEF T, n
    <2> QED BY <1>3, <1>4, <1>5, UpTo
  <1> QED BY <1>1, <1>2, <1>3, <1>6

\* One more packet, and one less.
LEMMA TotalMore ==
    ASSUME NEW s \in Seq(Entries), NEW e \in Entries
    PROVE  Total(Append(s, e)) = Total(s) + e.pkt.size /\ Total(s) \in Nat
  <1> DEFINE n == Len(s)
             t == Append(s, e)
  <1>1. /\ n \in Nat /\ t \in Seq(Entries) /\ Len(t) = n + 1 /\ t[n + 1] = e
        /\ \A k \in 1..n : t[k] = s[k]
    BY AppendProperties, LenProperties
  <1> HIDE DEF t
  <1>2. PICK f : AddsUp(f, s) /\ Total(s) = f[n]
    BY TotalSteps
  <1>3. PICK g : AddsUp(g, t) /\ Total(t) = g[Len(t)]
    BY <1>1, TotalSteps
  <1> DEFINE T == {k \in 0..n : g[k] = f[k]}
  <1>4. 0 \in T
    BY <1>1, <1>2, <1>3 DEF AddsUp
  <1>5. \A k \in 1..n : k - 1 \in T => k \in T
    <2> SUFFICES ASSUME NEW k \in 1..n, g[k - 1] = f[k - 1] PROVE g[k] = f[k]
      BY <1>1
    <2>1. k \in 1..Len(t) /\ t[k] = s[k]
      BY <1>1
    <2> QED BY <1>2, <1>3, <2>1 DEF AddsUp
  <1>6. 0..n \subseteq T
    <2> HIDE DEF T, n
    <2> QED BY <1>1, <1>4, <1>5, UpTo
  <1>7. g[n] = f[n]
    BY <1>1, <1>6
  <1>8. n + 1 \in 1..Len(t) /\ (n + 1) - 1 = n
    BY <1>1
  <1>9. g[n + 1] = g[n] + e.pkt.size
    BY <1>1, <1>3, <1>8 DEF AddsUp
  <1>10. f[n] \in Nat
    BY <1>1, <1>2 DEF AddsUp
  <1> QED BY <1>1, <1>2, <1>3, <1>7, <1>9, <1>10 DEF t

LEMMA TotalLess ==
    ASSUME NEW s \in Seq(Entries), s # <<>>
    PROVE  Total(Tail(s)) = Total(s) - Head(s).pkt.size /\ Total(s) \in Nat
  <1> DEFINE n == Len(s)
             t == Tail(s)
             z == Head(s).pkt.size
  <1>1. /\ n \in Nat /\ n > 0 /\ t \in Seq(Entries) /\ Len(t) = n - 1 /\ Head(s) = s[1]
        /\ \A k \in 1..(n - 1) : t[k] = s[k + 1]
    BY HeadTailProperties, LenProperties, EmptySeq
  <1>2. z \in Nat
    <2>1. s[1] \in Entries
      BY <1>1, ElementOfSeq
    <2> QED BY <1>1, <2>1, RingAssumption DEF Entries
  <1>3. z = s[1].pkt.size
    BY <1>1
  <1> HIDE DEF t, z
  <1>4. PICK f : AddsUp(f, s) /\ Total(s) = f[n]
    BY TotalSteps
  <1>5. PICK g : AddsUp(g, t) /\ Total(t) = g[Len(t)]
    BY <1>1, TotalSteps
  <1> DEFINE m == n - 1
             T == {k \in 0..m : g[k] \in Nat /\ f[k + 1] = g[k] + z}
  <1>6. 0 \in T
    <2>1. f[1] = f[0] + s[1].pkt.size
      BY <1>1, <1>4 DEF AddsUp
    <2> QED BY <1>1, <1>2, <1>3, <1>4, <1>5, <2>1 DEF AddsUp
  <1>7. \A k \in 1..m : k - 1 \in T => k \in T
    <2> SUFFICES ASSUME NEW k \in 1..m, g[k - 1] \in Nat, f[k] = g[k - 1] + z
                 PROVE  g[k] \in Nat /\ f[k + 1] = g[k] + z
      BY <1>1
    <2>1. k \in 1..Len(t) /\ t[k] = s[k + 1] /\ k + 1 \in 1..n /\ (k + 1) - 1 = k
      BY <1>1
    <2>2. g[k] \in Nat /\ g[k] = g[k - 1] + s[k + 1].pkt.size
      BY <1>5, <2>1 DEF AddsUp
    <2>3. f[k + 1] = f[k] + s[k + 1].pkt.size
      BY <1>4, <2>1 DEF AddsUp
    <2>4. s[k + 1].pkt.size \in Nat
      <3>1. s[k + 1] \in Entries
        BY <2>1, ElementOfSeq
      <3> QED BY <3>1, RingAssumption DEF Entries
    <2> QED BY <1>2, <2>2, <2>3, <2>4
  <1>8. m \in Nat
    BY <1>1
  <1>9. 0..m \subseteq T
    <2> HIDE DEF T, m
    <2> QED BY <1>6, <1>7, <1>8, UpTo
  <1>10. g[m] \in Nat /\ f[n] = g[m] + z
    BY <1>1, <1>8, <1>9
  <1> QED BY <1>1, <1>2, <1>4, <1>5, <1>10 DEF t, z

\* What a side is charged for the packets that enter it, of which there is at most one.
LEMMA ChargedNone == MapThenSumSet(LAMBDA p : p.size, {}) = 0
  <1> DEFINE c(t) == CHOOSE x \in t : TRUE
             iter == CHOOSE it : it = [t \in SUBSET {} |->
                        IF t = {} THEN 0 ELSE c(t).size + it[t \ {c(t)}]]
             g == [t \in SUBSET {} |-> 0]
  <1>1. MapThenSumSet(LAMBDA p : p.size, {}) = iter[{}]
    BY DEF MapThenSumSet, MapThenFoldSet
  <1>2. g = [t \in SUBSET {} |-> IF t = {} THEN 0 ELSE c(t).size + g[t \ {c(t)}]]
    OBVIOUS
  <1>3. iter = [t \in SUBSET {} |-> IF t = {} THEN 0 ELSE c(t).size + iter[t \ {c(t)}]]
    BY <1>2
  <1> QED BY <1>1, <1>3

LEMMA ChargedOne ==
    ASSUME NEW q \in Packets
    PROVE  MapThenSumSet(LAMBDA p : p.size, {q}) = q.size
  <1> DEFINE c(t) == CHOOSE x \in t : TRUE
             iter == CHOOSE it : it = [t \in SUBSET {q} |->
                        IF t = {} THEN 0 ELSE c(t).size + it[t \ {c(t)}]]
             g == [t \in SUBSET {q} |-> IF t = {} THEN 0 ELSE q.size]
  <1>1. MapThenSumSet(LAMBDA p : p.size, {q}) = iter[{q}]
    BY DEF MapThenSumSet, MapThenFoldSet
  <1>2. q.size \in Nat
    BY RingAssumption
  <1>3. \A t \in SUBSET {q} : t # {} => t = {q} /\ c(t) = q /\ t \ {c(t)} = {}
    OBVIOUS
  <1>4. g = [t \in SUBSET {q} |-> IF t = {} THEN 0 ELSE c(t).size + g[t \ {c(t)}]]
    BY <1>2, <1>3
  <1>5. iter = [t \in SUBSET {q} |-> IF t = {} THEN 0 ELSE c(t).size + iter[t \ {c(t)}]]
    BY <1>4
  <1> HIDE DEF iter
  <1>6. iter[{}] = 0 /\ iter[{q}] = c({q}).size + iter[{}]
    BY <1>3, <1>5
  <1> QED BY <1>1, <1>2, <1>3, <1>6

--------------------------------------------------------------------------------

\* simple_noc: where a packet is, by the packets in the lists of the two sides.
Has(p, s) == \E k \in 1..Len(s) : s[k].pkt = p
ListedOnce(s) == \A j, k \in 1..Len(s) : s[j].pkt = s[k].pkt => j = k
SamePackets(s, t) == /\ t \in Seq(Entries) /\ Len(t) = Len(s)
                     /\ \A k \in 1..Len(s) : t[k].pkt = s[k].pkt
Target(p) == <<p.dst, OtherSide(SideOf(p))>>

SideTypes(off, snd, rcv, pen, arr) ==
    /\ off \in [Routers -> Seq(Packets)] /\ arr \subseteq Packets
    /\ snd \in [Ways -> Seq(Packets)] /\ rcv \in [Ways -> Seq(Entries)]
    /\ pen \in [Ways -> Nat]

\* A packet is still with its client, with a side of its router, with the side of the
\* receiver that it enters, or received.
Offering(off, arr) ==
    \A i \in Routers : OnceEach(off[i])
                       /\ \A p : Occurs(p, off[i]) => Crosses(p, i) /\ p \notin arr
Sending(off, snd, arr) ==
    \A w \in Ways : /\ OnceEach(snd[w]) /\ Len(snd[w]) <= SideBufferMax
                    /\ \A p : Occurs(p, snd[w]) =>
                            /\ Crosses(p, w[1]) /\ SideOf(p) = w[2] /\ p \notin arr
                            /\ ~Occurs(p, off[w[1]])
Receiving(off, snd, rcv, arr) ==
    \A w \in Ways : /\ ListedOnce(rcv[w])
                    /\ \A p : Has(p, rcv[w]) =>
                            /\ w = Target(p) /\ p \notin arr /\ ~Occurs(p, off[p.src])
                            /\ \A v \in Ways : ~Occurs(p, snd[v])
Charged(rcv, pen) ==
    \A w \in Ways : pen[w] = Total(rcv[w]) /\ pen[w] <= MaxPending
Direct(off, snd, rcv, pen, arr) ==
    /\ SideTypes(off, snd, rcv, pen, arr) /\ Offering(off, arr) /\ Sending(off, snd, arr)
    /\ Receiving(off, snd, rcv, arr) /\ Charged(rcv, pen)

\* packet_injection of router i: the packets in front of some sides enter the side of
\* their receiver, where there is room for them; the others only wait.
Comes(i, goes, snd, w) ==
    OtherSide(w[2]) \in goes /\ Head(snd[<<i, OtherSide(w[2])>>]).dst = w[1]
Newest(i, snd, w) == Head(snd[<<i, OtherSide(w[2])>>])
Entering(i, goes, snd, rcv, pen, snd2, rcv2, pen2) ==
    /\ i \in Routers /\ goes \subseteq Sides /\ (\A side \in goes : snd[<<i, side>>] # <<>>)
    /\ snd2 = [w \in Ways |-> IF w[1] = i /\ w[2] \in goes THEN Tail(snd[w]) ELSE snd[w]]
    /\ rcv2 = [w \in Ways |-> rcv2[w]] /\ pen2 = [w \in Ways |-> pen2[w]]
    /\ \A w \in Ways :
            IF Comes(i, goes, snd, w)
            THEN /\ rcv2[w] = Append(rcv[w], [pkt |-> Newest(i, snd, w),
                                              wait |-> Newest(i, snd, w).size])
                 /\ pen2[w] = pen[w] + Newest(i, snd, w).size /\ pen2[w] <= MaxPending
            ELSE SamePackets(rcv[w], rcv2[w]) /\ pen2[w] = pen[w]

LEMMA SideFacts ==
    /\ \A s \in Sides : OtherSide(s) \in Sides /\ OtherSide(OtherSide(s)) = s
    /\ \A p : SideOf(p) \in Sides
    /\ \A w \in Ways : w = <<w[1], w[2]>> /\ w[1] \in Routers /\ w[2] \in Sides
    /\ \A i \in Routers, s \in Sides : <<i, s>> \in Ways
  BY DEF OtherSide, Sides, SideOf, Ways

\* What is left of a side that sends.
LEMMA SideSends ==
    ASSUME NEW i, NEW goes, NEW snd \in [Ways -> Seq(Packets)], NEW rcv, NEW pen,
           NEW snd2, NEW rcv2, NEW pen2, \A w \in Ways : OnceEach(snd[w]),
           Entering(i, goes, snd, rcv, pen, snd2, rcv2, pen2), NEW w \in Ways
    PROVE  /\ snd2[w] \in Seq(Packets) /\ OnceEach(snd2[w]) /\ Len(snd2[w]) <= Len(snd[w])
           /\ \A p : Occurs(p, snd2[w]) => Occurs(p, snd[w])
           /\ w[1] = i /\ w[2] \in goes => /\ Occurs(Head(snd[w]), snd[w])
                                           /\ ~Occurs(Head(snd[w]), snd2[w])
  <1> DEFINE q == snd[w]  t == Tail(q)
  <1>1. q \in Seq(Packets) /\ OnceEach(q)
    OBVIOUS
  <1>2. snd2[w] = IF w[1] = i /\ w[2] \in goes THEN t ELSE q
    BY DEF Entering
  <1>3. w[1] = i /\ w[2] \in goes => q # <<>>
    <2>1. w = <<w[1], w[2]>>
      BY SideFacts
    <2> QED BY <2>1 DEF Entering
  <1> HIDE DEF q
  <1>4. CASE w[1] = i /\ w[2] \in goes
    <2>1. /\ t \in Seq(Packets) /\ OnceEach(t) /\ Len(t) = Len(q) - 1 /\ Len(q) \in Nat
          /\ Occurs(Head(q), q) /\ \A x : Occurs(x, t) <=> Occurs(x, q) /\ x # Head(q)
      BY <1>1, <1>3, <1>4, OneLess, LenProperties
    <2> HIDE DEF t
    <2> QED BY <1>2, <1>4, <2>1 DEF q
  <1>5. CASE ~(w[1] = i /\ w[2] \in goes)
    <2>1. Len(q) \in Nat
      BY <1>1, LenProperties
    <2> QED BY <1>1, <1>2, <1>5, <2>1 DEF q
  <1> QED BY <1>4, <1>5

\* What a side that receives has afterwards.
LEMMA SideReceives ==
    ASSUME NEW i, NEW goes, NEW off, NEW snd, NEW rcv, NEW pen, NEW arr,
           NEW snd2, NEW rcv2, NEW pen2, Direct(off, snd, rcv, pen, arr),
           Entering(i, goes, snd, rcv, pen, snd2, rcv2, pen2), NEW w \in Ways
    PROVE  /\ rcv2[w] \in Seq(Entries) /\ ListedOnce(rcv2[w])
           /\ pen2[w] = Total(rcv2[w]) /\ pen2[w] \in Nat /\ pen2[w] <= MaxPending
           /\ \A p : Has(p, rcv2[w]) => Has(p, rcv[w]) \/ (Comes(i, goes, snd, w)
                                                          /\ p = Newest(i, snd, w))
  <1> DEFINE s == rcv[w]  t == rcv2[w]  m == pen[w]  k == pen2[w]
  <1>1. /\ s \in Seq(Entries) /\ ListedOnce(s) /\ m = Total(s) /\ m \in Nat /\ m <= MaxPending
    BY DEF Direct, SideTypes, Receiving, Charged
  <1>2. CASE Comes(i, goes, snd, w)
    <2> DEFINE side == OtherSide(w[2])
               p == Newest(i, snd, w)
               e == [pkt |-> p, wait |-> p.size]
    <2>1. side \in goes /\ goes \subseteq Sides /\ i \in Routers /\ snd[<<i, side>>] # <<>>
      BY <1>2 DEF Comes, Entering
    <2>2. <<i, side>> \in Ways
      BY <2>1, SideFacts
    <2>3. Occurs(p, snd[<<i, side>>]) /\ p \in Packets
      <3> DEFINE q == snd[<<i, side>>]
      <3>1. q \in Seq(Packets) /\ q # <<>>
        BY <2>1, <2>2 DEF Direct, SideTypes
      <3>2. p = Head(q)
        BY DEF Newest
      <3> HIDE DEF q, p
      <3>3. Occurs(p, q) /\ p \in Packets
        BY <3>1, <3>2, OneLess
      <3> QED BY <3>3 DEF q
    <2>4. p.size \in Nat
      BY <2>3, RingAssumption
    <2>5. e \in Entries /\ e.pkt = p
      BY <2>3, <2>4 DEF Entries
    <2>6. ~Has(p, s)
      BY <2>2, <2>3 DEF Direct, Receiving
    <2>7. t = Append(s, e) /\ k = m + p.size /\ k <= MaxPending
      BY <1>2 DEF Entering
    <2> HIDE DEF e, p, s, t, m, k
    <2>8. /\ t \in Seq(Entries) /\ Len(t) = Len(s) + 1 /\ Len(s) \in Nat
          /\ (\A j \in 1..Len(s) : t[j] = s[j]) /\ t[Len(s) + 1] = e
      BY <1>1, <2>5, <2>7, AppendProperties, LenProperties
    <2>9. 1..Len(t) = (1..Len(s)) \cup {Len(s) + 1}
      BY <2>8
    <2>10. ListedOnce(t)
      BY <1>1, <2>5, <2>6, <2>8, <2>9 DEF ListedOnce, Has
    <2>11. \A x : Has(x, t) => Has(x, s) \/ x = p
      BY <2>5, <2>8, <2>9 DEF Has
    <2>12. k = Total(t) /\ k \in Nat
      <3>1. Total(t) = Total(s) + p.size
        BY <1>1, <2>5, <2>7, TotalMore
      <3> QED BY <1>1, <2>4, <2>7, <3>1
    <2> QED BY <1>2, <2>7, <2>8, <2>10, <2>11, <2>12 DEF s, t, k, p
  <1>3. CASE ~Comes(i, goes, snd, w)
    <2>1. SamePackets(s, t) /\ k = m
      BY <1>3 DEF Entering
    <2> HIDE DEF s, t, m, k
    <2>2. ListedOnce(t) /\ \A x : Has(x, t) => Has(x, s)
      BY <1>1, <2>1 DEF ListedOnce, Has, SamePackets
    <2>3. Total(t) = Total(s)
      BY <1>1, <2>1, TotalSame DEF SamePackets
    <2>4. t \in Seq(Entries)
      BY <2>1 DEF SamePackets
    <2> QED BY <1>1, <2>1, <2>2, <2>3, <2>4 DEF s, t, k
  <1> QED BY <1>2, <1>3

LEMMA EnteringDirect ==
    ASSUME NEW i, NEW goes, NEW off, NEW snd, NEW rcv, NEW pen, NEW arr,
           NEW snd2, NEW rcv2, NEW pen2, Direct(off, snd, rcv, pen, arr),
           Entering(i, goes, snd, rcv, pen, snd2, rcv2, pen2)
    PROVE  Direct(off, snd2, rcv2, pen2, arr)
  <1>1. /\ SideTypes(off, snd, rcv, pen, arr) /\ Offering(off, arr) /\ Sending(off, snd, arr)
        /\ Receiving(off, snd, rcv, arr)
    BY DEF Direct
  <1>2. \A w \in Ways :
            /\ snd2[w] \in Seq(Packets) /\ OnceEach(snd2[w]) /\ Len(snd2[w]) <= Len(snd[w])
            /\ \A p : Occurs(p, snd2[w]) => Occurs(p, snd[w])
            /\ w[1] = i /\ w[2] \in goes => /\ Occurs(Head(snd[w]), snd[w])
                                            /\ ~Occurs(Head(snd[w]), snd2[w])
    <2>1. snd \in [Ways -> Seq(Packets)] /\ \A w \in Ways : OnceEach(snd[w])
      BY <1>1 DEF SideTypes, Sending
    <2> QED BY <2>1, SideSends
  <1>3. \A w \in Ways :
            /\ rcv2[w] \in Seq(Entries) /\ ListedOnce(rcv2[w])
            /\ pen2[w] = Total(rcv2[w]) /\ pen2[w] \in Nat /\ pen2[w] <= MaxPending
            /\ \A p : Has(p, rcv2[w]) => Has(p, rcv[w]) \/ (Comes(i, goes, snd, w)
                                                           /\ p = Newest(i, snd, w))
    BY SideReceives
  <1>4. SideTypes(off, snd2, rcv2, pen2, arr)
    <2>1. /\ snd2 = [w \in Ways |-> snd2[w]] /\ rcv2 = [w \in Ways |-> rcv2[w]]
          /\ pen2 = [w \in Ways |-> pen2[w]]
      BY DEF Entering
    <2> QED BY <1>1, <1>2, <1>3, <2>1 DEF SideTypes
  <1>5. Sending(off, snd2, arr)
    <2> SUFFICES ASSUME NEW w \in Ways
                 PROVE  /\ OnceEach(snd2[w]) /\ Len(snd2[w]) <= SideBufferMax
                        /\ \A p : Occurs(p, snd2[w]) =>
                                /\ Crosses(p, w[1]) /\ SideOf(p) = w[2] /\ p \notin arr
                                /\ ~Occurs(p, off[w[1]])
      BY DEF Sending
    <2>1. Len(snd2[w]) \in Nat /\ Len(snd[w]) \in Nat /\ Len(snd[w]) <= SideBufferMax
          /\ SideBufferMax \in Nat
      BY <1>1, <1>2, LenProperties, LayerAssumption DEF SideTypes, Sending
    <2>2. Len(snd2[w]) <= Len(snd[w]) /\ OnceEach(snd2[w])
      BY <1>2
    <2>3. Len(snd2[w]) <= SideBufferMax
      BY <2>1, <2>2
    <2>4. \A p : Occurs(p, snd2[w]) => Occurs(p, snd[w])
      BY <1>2
    <2> QED BY <1>1, <2>2, <2>3, <2>4 DEF Sending
  <1>6. Receiving(off, snd2, rcv2, arr)
    <2> SUFFICES ASSUME NEW w \in Ways, NEW p, Has(p, rcv2[w])
                 PROVE  /\ w = Target(p) /\ p \notin arr /\ ~Occurs(p, off[p.src])
                        /\ \A v \in Ways : ~Occurs(p, snd2[v])
      BY <1>3 DEF Receiving
    <2>1. CASE Has(p, rcv[w])
      BY <1>1, <1>2, <2>1 DEF Receiving
    <2>2. CASE Comes(i, goes, snd, w) /\ p = Newest(i, snd, w)
      <3> DEFINE side == OtherSide(w[2])
      <3>1. /\ side \in goes /\ goes \subseteq Sides /\ i \in Routers
            /\ p = Head(snd[<<i, side>>]) /\ p.dst = w[1]
        BY <2>2 DEF Comes, Newest, Entering
      <3>2. <<i, side>> \in Ways /\ w = <<w[1], OtherSide(side)>>
        BY <3>1, SideFacts
      <3> HIDE DEF side
      <3>3. Occurs(p, snd[<<i, side>>]) /\ ~Occurs(p, snd2[<<i, side>>])
        BY <1>2, <3>1, <3>2
      <3>4. Crosses(p, i) /\ SideOf(p) = side /\ p \notin arr /\ ~Occurs(p, off[i])
        BY <1>1, <3>2, <3>3 DEF Sending
      <3>5. p.src = i
        BY <3>4 DEF Crosses
      <3>6. w = Target(p)
        BY <3>1, <3>2, <3>4 DEF Target
      <3>7. ASSUME NEW v \in Ways, Occurs(p, snd2[v]) PROVE FALSE
        <4>1. Crosses(p, v[1]) /\ SideOf(p) = v[2]
          BY <1>1, <1>2, <3>7 DEF Sending
        <4>2. v = <<i, side>>
          BY <3>4, <3>5, <4>1, SideFacts DEF Crosses
        <4> QED BY <3>3, <3>7, <4>2
      <3> QED BY <3>4, <3>5, <3>6, <3>7
    <2> QED BY <1>3, <2>1, <2>2
  <1>7. Charged(rcv2, pen2)
    BY <1>3 DEF Charged
  <1> QED BY <1>1, <1>4, <1>5, <1>6, <1>7 DEF Direct

\* The end of a cycle: the clients take the packets in front of some sides and inject the
\* first u[i] they still have to send, each at its side.
Same(side) == {p \in Packets : SideOf(p) = side}
Serving(takes, u, off, snd, rcv, pen, arr, off2, snd2, rcv2, pen2, arr2) ==
    /\ takes \subseteq Ways /\ (\A w \in takes : rcv[w] # <<>>)
    /\ \A i \in Routers : u[i] \in 0..Len(off[i])
    /\ off2 = [i \in Routers |-> Beyond(off[i], u[i])]
    /\ snd2 = [w \in Ways |-> snd[w] \o Kept(Upto(off[w[1]], u[w[1]]), Same(w[2]))]
    /\ \A w \in Ways : Len(snd2[w]) <= SideBufferMax
    /\ rcv2 = [w \in Ways |-> IF w \in takes THEN Tail(rcv[w]) ELSE rcv[w]]
    /\ pen2 = [w \in Ways |-> IF w \in takes THEN pen[w] - Head(rcv[w]).pkt.size ELSE pen[w]]
    /\ arr2 = arr \cup {Head(rcv[w]).pkt : w \in takes}

\* What a client has left and what its sides have then.
LEMMA ClientSends ==
    ASSUME NEW takes, NEW u, NEW off, NEW snd, NEW rcv, NEW pen, NEW arr,
           NEW off2, NEW snd2, NEW rcv2, NEW pen2, NEW arr2,
           Direct(off, snd, rcv, pen, arr),
           Serving(takes, u, off, snd, rcv, pen, arr, off2, snd2, rcv2, pen2, arr2),
           NEW w \in Ways
    PROVE  /\ off2[w[1]] \in Seq(Packets) /\ OnceEach(off2[w[1]])
           /\ snd2[w] \in Seq(Packets) /\ OnceEach(snd2[w])
           /\ \A p : Occurs(p, off2[w[1]]) => Occurs(p, off[w[1]])
           /\ \A p : Occurs(p, snd2[w]) => /\ ~Occurs(p, off2[w[1]])
                                           /\ \/ Occurs(p, snd[w])
                                              \/ Occurs(p, off[w[1]]) /\ SideOf(p) = w[2]
  <1> DEFINE i == w[1]
             q == off[i]
             s == snd[w]
             k == u[i]
             S == Same(w[2])
             a == Upto(q, k)
             b == Beyond(q, k)
             c == Kept(a, S)
             z == s \o c
  <1>1. i \in Routers
    BY SideFacts
  <1>2. q \in Seq(Packets) /\ OnceEach(q) /\ s \in Seq(Packets) /\ OnceEach(s)
        /\ \A p : Occurs(p, s) => ~Occurs(p, q)
    BY <1>1 DEF Direct, SideTypes, Offering, Sending
  <1>3. k \in 0..Len(q) /\ off2[i] = b /\ snd2[w] = z
    BY <1>1 DEF Serving
  <1>4. \A p \in S : SideOf(p) = w[2]
    BY DEF Same
  <1> HIDE DEF i, q, s, k, S
  <1>5. /\ a \in Seq(Packets) /\ b \in Seq(Packets) /\ OnceEach(a) /\ OnceEach(b)
        /\ \A x : ~(Occurs(x, a) /\ Occurs(x, b))
        /\ \A x : Occurs(x, q) <=> Occurs(x, a) \/ Occurs(x, b)
    BY <1>2, <1>3, TwoParts
  <1> HIDE DEF a, b
  <1>6. /\ c \in Seq(Packets) /\ OnceEach(c)
        /\ \A x : Occurs(x, c) <=> Occurs(x, a) /\ x \in S
    BY <1>5, KeptProperties
  <1> HIDE DEF c
  <1>7. \A x : ~(Occurs(x, s) /\ Occurs(x, c))
    BY <1>2, <1>5, <1>6
  <1> HIDE DEF z
  <1>8. /\ z \in Seq(Packets) /\ OnceEach(z)
        /\ \A x : Occurs(x, z) <=> Occurs(x, s) \/ Occurs(x, c)
    BY <1>2, <1>6, <1>7, Joined DEF z
  <1>9. \A x : Occurs(x, z) => /\ ~Occurs(x, b)
                               /\ Occurs(x, s) \/ (Occurs(x, q) /\ SideOf(x) = w[2])
    BY <1>2, <1>4, <1>5, <1>6, <1>8
  <1> QED BY <1>3, <1>5, <1>8, <1>9 DEF i, q, s

\* What a side that has been read has left.
LEMMA ClientTakes ==
    ASSUME NEW takes, NEW u, NEW off, NEW snd, NEW rcv, NEW pen, NEW arr,
           NEW off2, NEW snd2, NEW rcv2, NEW pen2, NEW arr2,
           Direct(off, snd, rcv, pen, arr),
           Serving(takes, u, off, snd, rcv, pen, arr, off2, snd2, rcv2, pen2, arr2),
           NEW w \in Ways
    PROVE  /\ rcv2[w] \in Seq(Entries) /\ ListedOnce(rcv2[w])
           /\ pen2[w] = Total(rcv2[w]) /\ pen2[w] \in Nat /\ pen2[w] <= MaxPending
           /\ \A p : Has(p, rcv2[w]) => Has(p, rcv[w])
           /\ w \in takes => /\ Has(Head(rcv[w]).pkt, rcv[w]) /\ Head(rcv[w]).pkt \in Packets
                             /\ ~Has(Head(rcv[w]).pkt, rcv2[w])
  <1> DEFINE s == rcv[w]  t == Tail(s)  m == pen[w]  p == Head(s).pkt
  <1>1. s \in Seq(Entries) /\ ListedOnce(s) /\ m = Total(s) /\ m \in Nat /\ m <= MaxPending
    BY DEF Direct, SideTypes, Receiving, Charged
  <1>2. /\ rcv2[w] = IF w \in takes THEN t ELSE s
        /\ pen2[w] = IF w \in takes THEN m - p.size ELSE m
        /\ w \in takes => s # <<>>
    BY DEF Serving
  <1> HIDE DEF s, m
  <1>3. CASE w \in takes
    <2>1. /\ t \in Seq(Entries) /\ Len(t) = Len(s) - 1 /\ Len(s) \in Nat /\ Len(s) > 0
          /\ Head(s) = s[1] /\ \A k \in 1..(Len(s) - 1) : t[k] = s[k + 1]
      BY <1>1, <1>2, <1>3, HeadTailProperties, EmptySeq, LenProperties
    <2>2. p = s[1].pkt /\ s[1] \in Entries /\ 1 \in 1..Len(s)
      BY <1>1, <2>1, ElementOfSeq
    <2>3. p \in Packets /\ p.size \in Nat
      BY <2>2, RingAssumption DEF Entries
    <2>4. Total(t) = Total(s) - p.size
      BY <1>1, <1>2, <1>3, TotalLess
    <2> HIDE DEF t, p
    <2>5. Total(t) \in Nat
      <3>1. PICK g : AddsUp(g, t) /\ Total(t) = g[Len(t)]
        BY <2>1, TotalSteps
      <3>2. Len(t) = 0 \/ Len(t) \in 1..Len(t)
        BY <2>1
      <3> QED BY <3>1, <3>2 DEF AddsUp
    <2>6. \A k \in 1..Len(t) : k + 1 \in 1..Len(s) /\ t[k] = s[k + 1] /\ k + 1 # 1
      BY <2>1
    <2>7. ListedOnce(t)
      <3> SUFFICES ASSUME NEW j \in 1..Len(t), NEW k \in 1..Len(t), t[j].pkt = t[k].pkt
                   PROVE  j = k
        BY DEF ListedOnce
      <3>1. j + 1 = k + 1
        BY <1>1, <2>6 DEF ListedOnce
      <3> QED BY <3>1
    <2>8. \A x : Has(x, t) => Has(x, s) /\ x # p
      BY <1>1, <2>2, <2>6 DEF Has, ListedOnce
    <2>9. Has(p, s)
      BY <2>2 DEF Has
    <2>10. m - p.size \in Nat /\ m - p.size <= MaxPending /\ m - p.size = Total(t)
      BY <1>1, <2>3, <2>4, <2>5, LayerAssumption
    <2> QED BY <1>2, <1>3, <2>1, <2>3, <2>7, <2>8, <2>9, <2>10 DEF s, p
  <1>4. CASE w \notin takes
    BY <1>1, <1>2, <1>4 DEF s
  <1> QED BY <1>3, <1>4

LEMMA ServingDirect ==
    ASSUME NEW takes, NEW u, NEW off, NEW snd, NEW rcv, NEW pen, NEW arr,
           NEW off2, NEW snd2, NEW rcv2, NEW pen2, NEW arr2,
           Direct(off, snd, rcv, pen, arr),
           Serving(takes, u, off, snd, rcv, pen, arr, off2, snd2, rcv2, pen2, arr2)
    PROVE  Direct(off2, snd2, rcv2, pen2, arr2)
  <1>1. /\ SideTypes(off, snd, rcv, pen, arr) /\ Offering(off, arr) /\ Sending(off, snd, arr)
        /\ Receiving(off, snd, rcv, arr)
    BY DEF Direct
  <1>2. \A w \in Ways :
            /\ off2[w[1]] \in Seq(Packets) /\ OnceEach(off2[w[1]])
            /\ snd2[w] \in Seq(Packets) /\ OnceEach(snd2[w])
            /\ \A p : Occurs(p, off2[w[1]]) => Occurs(p, off[w[1]])
            /\ \A p : Occurs(p, snd2[w]) => /\ ~Occurs(p, off2[w[1]])
                                            /\ \/ Occurs(p, snd[w])
                                               \/ Occurs(p, off[w[1]]) /\ SideOf(p) = w[2]
    <2> SUFFICES ASSUME NEW w \in Ways
                 PROVE  /\ off2[w[1]] \in Seq(Packets) /\ OnceEach(off2[w[1]])
                        /\ snd2[w] \in Seq(Packets) /\ OnceEach(snd2[w])
                        /\ \A p : Occurs(p, off2[w[1]]) => Occurs(p, off[w[1]])
                        /\ \A p : Occurs(p, snd2[w]) =>
                                /\ ~Occurs(p, off2[w[1]])
                                /\ \/ Occurs(p, snd[w])
                                   \/ Occurs(p, off[w[1]]) /\ SideOf(p) = w[2]
      OBVIOUS
    <2> QED BY ClientSends
  <1>3. \A w \in Ways :
            /\ rcv2[w] \in Seq(Entries) /\ ListedOnce(rcv2[w])
            /\ pen2[w] = Total(rcv2[w]) /\ pen2[w] \in Nat /\ pen2[w] <= MaxPending
            /\ \A p : Has(p, rcv2[w]) => Has(p, rcv[w])
            /\ w \in takes => /\ Has(Head(rcv[w]).pkt, rcv[w]) /\ Head(rcv[w]).pkt \in Packets
                              /\ ~Has(Head(rcv[w]).pkt, rcv2[w])
    BY ClientTakes
  <1>4. \A i \in Routers : <<i, "us">> \in Ways /\ <<i, "us">>[1] = i
    BY SideFacts DEF Sides
  <1>5. \A i \in Routers : /\ off2[i] \in Seq(Packets) /\ OnceEach(off2[i])
                           /\ \A p : Occurs(p, off2[i]) => Occurs(p, off[i])
    BY <1>2, <1>4
  <1>6. \A p : p \in arr2 <=> p \in arr \/ \E w \in takes : p = Head(rcv[w]).pkt
    BY DEF Serving
  <1>7. takes \subseteq Ways
    BY DEF Serving
  <1>8. SideTypes(off2, snd2, rcv2, pen2, arr2)
    <2>1. /\ off2 = [i \in Routers |-> off2[i]] /\ snd2 = [w \in Ways |-> snd2[w]]
          /\ rcv2 = [w \in Ways |-> rcv2[w]] /\ pen2 = [w \in Ways |-> pen2[w]]
      BY DEF Serving
    <2>2. arr2 \subseteq Packets
      <3>1. \A w \in takes : Head(rcv[w]).pkt \in Packets
        BY <1>3, <1>7
      <3>2. arr \subseteq Packets
        BY <1>1 DEF SideTypes
      <3> QED BY <1>6, <3>1, <3>2
    <2> QED BY <1>2, <1>3, <1>5, <2>1, <2>2 DEF SideTypes
  <1>9. \A w \in takes : \A p : p = Head(rcv[w]).pkt =>
            /\ w = Target(p) /\ ~Occurs(p, off[p.src]) /\ ~Has(p, rcv2[w])
            /\ \A v \in Ways : ~Occurs(p, snd[v])
    BY <1>1, <1>3, <1>7 DEF Receiving
  <1>10. Offering(off2, arr2)
    <2> SUFFICES ASSUME NEW i \in Routers, NEW p, Occurs(p, off2[i])
                 PROVE  Crosses(p, i) /\ p \notin arr2
      BY <1>5 DEF Offering
    <2>1. Occurs(p, off[i]) /\ Crosses(p, i) /\ p \notin arr
      BY <1>1, <1>5 DEF Offering
    <2>2. p.src = i
      BY <2>1 DEF Crosses
    <2> QED BY <1>6, <1>9, <2>1, <2>2
  <1>11. ASSUME NEW w \in Ways, NEW p, Occurs(p, snd2[w])
         PROVE  /\ Crosses(p, w[1]) /\ SideOf(p) = w[2] /\ p \notin arr
                /\ ~Occurs(p, off2[w[1]])
                /\ Occurs(p, snd[w]) \/ Occurs(p, off[p.src])
    <2>1. w[1] \in Routers
      BY SideFacts
    <2>2. CASE Occurs(p, snd[w])
      BY <1>1, <1>2, <1>11, <2>2 DEF Sending
    <2>3. CASE Occurs(p, off[w[1]]) /\ SideOf(p) = w[2]
      <3>1. Crosses(p, w[1]) /\ p \notin arr /\ p.src = w[1]
        BY <1>1, <2>1, <2>3 DEF Offering, Crosses
      <3> QED BY <1>2, <1>11, <2>3, <3>1
    <2> QED BY <1>2, <1>11, <2>2, <2>3
  <1>12. Sending(off2, snd2, arr2)
    <2>1. ASSUME NEW w \in Ways, NEW p, Occurs(p, snd2[w]) PROVE p \notin arr2
      BY <1>6, <1>9, <1>11, <2>1
    <2>2. \A w \in Ways : Len(snd2[w]) <= SideBufferMax
      BY DEF Serving
    <2> QED BY <1>2, <1>11, <2>1, <2>2 DEF Sending
  <1>13. Receiving(off2, snd2, rcv2, arr2)
    <2> SUFFICES ASSUME NEW w \in Ways, NEW p, Has(p, rcv2[w])
                 PROVE  /\ w = Target(p) /\ p \notin arr2 /\ ~Occurs(p, off2[p.src])
                        /\ \A v \in Ways : ~Occurs(p, snd2[v])
      BY <1>3 DEF Receiving
    <2>1. /\ w = Target(p) /\ p \notin arr /\ ~Occurs(p, off[p.src])
          /\ \A v \in Ways : ~Occurs(p, snd[v])
      BY <1>1, <1>3 DEF Receiving
    <2>2. p \notin arr2
      BY <1>6, <1>9, <2>1
    <2>3. \A v \in Ways : ~Occurs(p, snd2[v])
      BY <1>11, <2>1
    <2>4. p.src \in Routers
      <3>1. PICK k \in 1..Len(rcv2[w]) : rcv2[w][k].pkt = p
        BY DEF Has
      <3>2. rcv2[w][k] \in Entries
        BY <1>3, ElementOfSeq
      <3> QED BY <3>1, <3>2, RingAssumption DEF Entries
    <2> QED BY <1>5, <2>1, <2>2, <2>3, <2>4
  <1>14. Charged(rcv2, pen2)
    BY <1>3 DEF Charged
  <1> QED BY <1>8, <1>10, <1>12, <1>13, <1>14 DEF Direct

--------------------------------------------------------------------------------

\* The two actions of simple_noc do what has been said of their lists.
Room(side, i) == try_packet_insert(Receiver(i, side), Head(sending[<<i, side>>]))
Going(i) == {side \in Sides : sending[<<i, side>>] # <<>> /\ Room(side, i)}
Into(i, goes, w) == {Head(sending[<<i, side>>]) : side \in {s \in goes : Receiver(i, s) = w}}
SizeInto(i, goes, w) == MapThenSumSet(LAMBDA p : p.size, Into(i, goes, w))

LEMMA EntersWhere ==
    ASSUME Direct(offered, sending, received, pending, arrived), NEW i \in Routers,
           NEW w \in Ways
    PROVE  LET goes == Going(i)  c == Comes(i, goes, sending, w)  p == Newest(i, sending, w)
           IN  /\ Into(i, goes, w) = IF c THEN {p} ELSE {}
               /\ c => w[1] # i /\ p \in Packets /\ pending[w] + p.size <= MaxPending
  <1> DEFINE goes == Going(i)
             c == Comes(i, goes, sending, w)
             p == Newest(i, sending, w)
             o == OtherSide(w[2])
  <1>1. ASSUME NEW side \in goes
        PROVE  LET h == Head(sending[<<i, side>>])
               IN  /\ side \in Sides /\ h \in Packets /\ h.dst \in Routers /\ h.dst # i
                   /\ Receiver(i, side) = <<h.dst, OtherSide(side)>>
                   /\ pending[Receiver(i, side)] + h.size <= MaxPending
    <2> DEFINE v == <<i, side>>
               h == Head(sending[v])
    <2>1. side \in Sides /\ sending[v] # <<>> /\ Room(side, i) /\ v \in Ways
      BY SideFacts DEF Going
    <2>2. sending[v] \in Seq(Packets) /\ OnceEach(sending[v])
      BY <2>1 DEF Direct, SideTypes, Sending
    <2>3. Occurs(h, sending[v])
      <3> DEFINE q == sending[v]
      <3>1. q \in Seq(Packets) /\ OnceEach(q) /\ q # <<>>
        BY <2>1, <2>2
      <3> HIDE DEF q
      <3>2. Occurs(Head(q), q)
        BY <3>1, OneLess
      <3> QED BY <3>2 DEF q
    <2>4. v[1] = i /\ v[2] = side
      OBVIOUS
    <2> HIDE DEF h, v
    <2>5. Crosses(h, i) /\ SideOf(h) = side
      BY <2>1, <2>3, <2>4 DEF Direct, Sending
    <2>6. Receiver(i, side) = <<h.dst, OtherSide(side)>> /\ h.dst \in Routers /\ h.dst # i
      BY <2>1, <2>5, RightReceiver DEF h, v
    <2>7. h \in Packets
      BY <2>5 DEF Crosses
    <2> QED BY <2>1, <2>6, <2>7 DEF Room, try_packet_insert, h, v
  <1>2. \A side \in goes : Receiver(i, side) = w <=> (side = o /\ c)
    <2> TAKE side \in goes
    <2>1. side \in Sides /\ Receiver(i, side) = <<Head(sending[<<i, side>>]).dst, OtherSide(side)>>
      BY <1>1
    <2>2. w = <<w[1], w[2]>> /\ w[2] \in Sides /\ OtherSide(o) = w[2] /\ OtherSide(OtherSide(side)) = side
      BY <2>1, SideFacts
    <2>3. c <=> o \in goes /\ Head(sending[<<i, o>>]).dst = w[1]
      BY DEF Comes
    <2> HIDE DEF goes, o, c
    <2>4. CASE Receiver(i, side) = w
      <3>1. OtherSide(side) = w[2] /\ Head(sending[<<i, side>>]).dst = w[1]
        BY <2>1, <2>2, <2>4
      <3>2. side = o
        BY <2>2, <3>1 DEF o
      <3> QED BY <2>3, <2>4, <3>1, <3>2
    <2>5. CASE side = o /\ c
      <3>1. OtherSide(side) = w[2] /\ Head(sending[<<i, side>>]).dst = w[1]
        BY <2>2, <2>3, <2>5
      <3> QED BY <2>1, <2>2, <2>5, <3>1
    <2> QED BY <2>4, <2>5
  <1>3. c => o \in goes /\ p = Head(sending[<<i, o>>])
    BY DEF Comes, Newest
  <1>4. c => Receiver(i, o) = w
    BY <1>2, <1>3
  <1> HIDE DEF goes, c, p, o
  <1>5. Into(i, goes, w) = IF c THEN {p} ELSE {}
    BY <1>2, <1>3 DEF Into
  <1>6. c => w[1] # i /\ p \in Packets /\ pending[w] + p.size <= MaxPending
    <2> SUFFICES ASSUME c PROVE w[1] # i /\ p \in Packets /\ pending[w] + p.size <= MaxPending
      OBVIOUS
    <2>1. p \in Packets /\ p.dst # i /\ w = <<p.dst, OtherSide(o)>>
          /\ pending[w] + p.size <= MaxPending
      BY <1>1, <1>3, <1>4
    <2> QED BY <2>1
  <1> QED BY <1>5, <1>6 DEF goes, c, p

LEMMA InjectionEnters ==
    ASSUME Direct(offered, sending, received, pending, arrived), Running \in Routers,
           packet_injection
    PROVE  \E i, goes : Entering(i, goes, sending, received, pending, sending', received', pending')
  <1> DEFINE i == Running
             goes == Going(i)
             shorter(w) == [k \in DOMAIN received[w] |-> [received[w][k] EXCEPT !.wait = CountDown(@)]]
             longer(w) == received[w] \o SetToSeq({[pkt |-> p, wait |-> p.size] : p \in Into(i, goes, w)})
  <1>1. /\ sending' = [w \in Ways |->
                IF w[1] = i /\ w[2] \in goes THEN Tail(sending[w]) ELSE sending[w]]
        /\ received' = [w \in Ways |-> IF w[1] = i THEN shorter(w) ELSE longer(w)]
        /\ pending' = [w \in Ways |-> pending[w] + SizeInto(i, goes, w)]
    BY DEF packet_injection, Going, Room, Into, SizeInto
  <1>2. \A w \in Ways : received[w] \in Seq(Entries) /\ pending[w] \in Nat
    BY DEF Direct, SideTypes
  <1>3. goes \subseteq Sides /\ \A side \in goes : sending[<<i, side>>] # <<>>
    BY DEF Going
  <1>4. ASSUME NEW w \in Ways, Comes(i, goes, sending, w)
        PROVE  LET p == Newest(i, sending, w)
               IN  /\ received'[w] = Append(received[w], [pkt |-> p, wait |-> p.size])
                   /\ pending'[w] = pending[w] + p.size /\ pending'[w] <= MaxPending
    <2> DEFINE p == Newest(i, sending, w)
               e == [pkt |-> p, wait |-> p.size]
               s == received[w]
               z == SetToSeq({e})
    <2>1. /\ Into(i, goes, w) = {p} /\ w[1] # i /\ p \in Packets
          /\ pending[w] + p.size <= MaxPending
      BY <1>4, EntersWhere
    <2>2. SizeInto(i, goes, w) = p.size
      BY <2>1, ChargedOne DEF SizeInto
    <2>3. longer(w) = s \o z
      BY <2>1
    <2>4. s \in Seq(Entries) /\ e \in Entries
      <3>1. p \in Packets /\ p.size \in Nat
        BY <2>1, RingAssumption
      <3> HIDE DEF p
      <3> QED BY <1>2, <3>1 DEF Entries
    <2> HIDE DEF s, e
    <2>5. z = <<e>>
      <3>1. IsFiniteSet({e}) /\ Cardinality({e}) = 1
        BY FS_Singleton
      <3>2. z \in Seq({e}) /\ Len(z) = 1
        BY <3>1, SetListed
      <3> HIDE DEF z
      <3>3. z[1] = e
        BY <3>2, ElementOfSeq
      <3> QED BY <3>2, <3>3
    <2>6. s \o z = Append(s, e)
      BY <2>4, <2>5, AppendIsConcat
    <2> QED BY <1>1, <2>1, <2>2, <2>3, <2>6 DEF s, e
  <1>5. ASSUME NEW w \in Ways, ~Comes(i, goes, sending, w)
        PROVE  SamePackets(received[w], received'[w]) /\ pending'[w] = pending[w]
    <2> DEFINE s == received[w]
    <2>1. Into(i, goes, w) = {}
      BY <1>5, EntersWhere
    <2>2. SizeInto(i, goes, w) = 0
      BY <2>1, ChargedNone DEF SizeInto
    <2>3. pending'[w] = pending[w]
      BY <1>1, <1>2, <2>2
    <2>4. s \in Seq(Entries) /\ Len(s) \in Nat /\ DOMAIN s = 1..Len(s)
      BY <1>2, LenProperties
    <2>5. CASE w[1] = i
      <3> DEFINE t == shorter(w)
      <3>1. received'[w] = t
        BY <1>1, <2>5
      <3>2. \A k \in 1..Len(s) : s[k] \in Entries
        BY <2>4, ElementOfSeq
      <3>3. t = [k \in 1..Len(s) |-> [s[k] EXCEPT !.wait = CountDown(@)]]
        BY <2>4
      <3> HIDE DEF s, t
      <3>4. \A k \in 1..Len(s) : [s[k] EXCEPT !.wait = CountDown(@)] \in Entries
                                 /\ [s[k] EXCEPT !.wait = CountDown(@)].pkt = s[k].pkt
        BY <3>2 DEF Entries, CountDown
      <3>5. t \in Seq(Entries) /\ Len(t) = Len(s) /\ \A k \in 1..Len(s) : t[k].pkt = s[k].pkt
        <4> DEFINE n == Len(s)
        <4>1. n \in Nat /\ t \in [1..n -> Entries]
          BY <2>4, <3>3, <3>4
        <4>2. \A k \in 1..n : t[k].pkt = s[k].pkt
          BY <3>3, <3>4
        <4> HIDE DEF n
        <4>3. t \in Seq(Entries) /\ Len(t) = n
          BY <4>1
        <4> QED BY <4>2, <4>3 DEF n
      <3> QED BY <2>3, <3>1, <3>5 DEF SamePackets, s
    <2>6. CASE w[1] # i
      <3> DEFINE z == SetToSeq({})
      <3>1. received'[w] = s \o z
        <4>1. {[pkt |-> p, wait |-> p.size] : p \in Into(i, goes, w)} = {}
          BY <2>1
        <4> QED BY <1>1, <2>6, <4>1
      <3>2. IsFiniteSet({}) /\ Cardinality({}) = 0
        BY FS_EmptySet
      <3>3. z \in Seq({}) /\ Len(z) = 0
        BY <3>2, SetListed
      <3> HIDE DEF z, s
      <3>4. z = <<>>
        BY <3>3
      <3>5. s \o z = s
        BY <2>4, <3>4
      <3> QED BY <2>3, <2>4, <3>1, <3>5 DEF SamePackets, s
    <2> QED BY <2>5, <2>6
  <1>6. received' = [w \in Ways |-> received'[w]] /\ pending' = [w \in Ways |-> pending'[w]]
    BY <1>1
  <1> HIDE DEF goes
  <1>7. Entering(i, goes, sending, received, pending, sending', received', pending')
    BY <1>1, <1>3, <1>4, <1>5, <1>6 DEF Entering
  <1> QED BY <1>7

\* What a client injects fits into its sides.
LEMMA InjectedFits ==
    ASSUME Direct(offered, sending, received, pending, arrived), NEW i \in Routers
    PROVE  /\ Injected(i) \in 0..Len(offered[i])
           /\ \A side \in Sides :
                Len(sending[<<i, side>>]) + Len(OnSide(i, side, Injected(i))) <= SideBufferMax
  <1> DEFINE fits(n) == \A side \in Sides :
                            Len(sending[<<i, side>>]) + Len(OnSide(i, side, n)) <= SideBufferMax
             q == offered[i]
             m == Len(q)
             T == {n \in 0..m : fits(n)}
  <1>1. q \in Seq(Packets) /\ m \in Nat
    BY LenProperties DEF Direct, SideTypes
  <1>2. fits(0)
    <2> TAKE side \in Sides
    <2> DEFINE w == <<i, side>>
               none == SubSeq(q, 1, 0)
               k == Kept(none, Same(side))
    <2>1. w \in Ways
      BY SideFacts
    <2>2. Len(sending[w]) \in Nat /\ Len(sending[w]) <= SideBufferMax
      BY <2>1, LenProperties DEF Direct, SideTypes, Sending
    <2>3. none \in Seq(Packets) /\ Len(none) = 0
      BY <1>1
    <2> HIDE DEF none
    <2>4. k \in Seq(Packets) /\ Len(k) <= Len(none)
      BY <2>3, KeptProperties
    <2> HIDE DEF k
    <2>5. Len(k) = 0
      BY <2>3, <2>4, LenProperties
    <2>6. OnSide(i, side, 0) = k
      BY DEF OnSide, Same, k, none
    <2> QED BY <2>2, <2>5, <2>6, LayerAssumption
  <1>3. T \subseteq 0..m /\ 0 \in T
    BY <1>1, <1>2
  <1>4. Max(T) \in T
    <2> HIDE DEF T, m, fits
    <2> DEFINE P == T \ {0}
    <2>1. CASE P = {}
      <3>1. T = {0}
        BY <1>3, <2>1
      <3> QED BY <3>1 DEF Max
    <2>2. CASE P # {}
      <3>1. P \in SUBSET (1..m)
        BY <1>3
      <3>2. Max(P) \in P /\ \A y \in P : y <= Max(P)
        BY <1>1, <2>2, <3>1, LargestIn
      <3>3. \E x \in T : \A y \in T : x >= y
        <4> DEFINE x == Max(P)
        <4>1. x \in P /\ \A y \in P : y <= x
          BY <3>2
        <4> HIDE DEF x
        <4>2. \A y \in T : x >= y
          BY <1>1, <1>3, <3>1, <4>1
        <4> QED BY <4>1, <4>2
      <3> QED BY <3>3 DEF Max
    <2> QED BY <2>1, <2>2
  <1>5. Injected(i) = IF hold[i] > 0 THEN 0 ELSE Max(T)
    BY DEF Injected
  <1>6. Injected(i) \in T
    <2> HIDE DEF T
    <2> QED BY <1>3, <1>4, <1>5
  <1> QED BY <1>6

LEMMA ClientsServe ==
    ASSUME Direct(offered, sending, received, pending, arrived), NEW takes \in SUBSET receive_req,
           SimpleEndOfCycle(takes)
    PROVE  \E u : Serving(takes, u, offered, sending, received, pending, arrived,
                          offered', sending', received', pending', arrived')
  <1> DEFINE u == [i \in Routers |-> Injected(i)]
  <1>1. takes \subseteq Ways /\ \A w \in takes : received[w] # <<>>
    BY DEF receive_req
  <1>2. ASSUME NEW i \in Routers
        PROVE  /\ u[i] \in 0..Len(offered[i]) /\ u[i] = Injected(i)
               /\ SubSeq(offered[i], Injected(i) + 1, Len(offered[i])) = Beyond(offered[i], u[i])
               /\ \A side \in Sides :
                    OnSide(i, side, Injected(i)) = Kept(Upto(offered[i], u[i]), Same(side))
    BY InjectedFits DEF Beyond, Upto, OnSide, Same
  <1> HIDE DEF u
  <1>3. ASSUME NEW w \in Ways
        PROVE  /\ sending[w] \o OnSide(w[1], w[2], Injected(w[1]))
                    = sending[w] \o Kept(Upto(offered[w[1]], u[w[1]]), Same(w[2]))
               /\ Len(sending[w] \o OnSide(w[1], w[2], Injected(w[1]))) <= SideBufferMax
    <2> DEFINE i == w[1]
               q == offered[i]
               s == sending[w]
               a == Upto(q, u[i])
               k == Kept(a, Same(w[2]))
    <2>1. i \in Routers /\ w[2] \in Sides /\ w = <<i, w[2]>>
      BY SideFacts
    <2>2. q \in Seq(Packets) /\ OnceEach(q) /\ s \in Seq(Packets)
      BY <2>1 DEF Direct, SideTypes, Offering
    <2>3. OnSide(i, w[2], Injected(i)) = k /\ u[i] \in 0..Len(q)
      BY <1>2, <2>1
    <2>4. Len(s) + Len(k) <= SideBufferMax
      BY <2>1, <2>3, InjectedFits
    <2> HIDE DEF i, q, s
    <2>5. a \in Seq(Packets)
      BY <2>2, <2>3, TwoParts
    <2> HIDE DEF a
    <2>6. k \in Seq(Packets)
      BY <2>5, KeptProperties
    <2> HIDE DEF k
    <2>7. Len(s \o k) = Len(s) + Len(k)
      BY <2>2, <2>6, ConcatProperties
    <2> QED BY <2>3, <2>4, <2>7 DEF s, k, a, q, i
  <1>4. /\ sending' = [w \in Ways |-> sending[w] \o OnSide(w[1], w[2], Injected(w[1]))]
        /\ offered' = [i \in Routers |-> SubSeq(offered[i], Injected(i) + 1, Len(offered[i]))]
        /\ received' = [w \in Ways |-> IF w \in takes THEN Tail(received[w]) ELSE received[w]]
        /\ pending' = [w \in Ways |-> IF w \in takes THEN pending[w] - Head(received[w]).pkt.size
                                      ELSE pending[w]]
        /\ arrived' = arrived \cup {Head(received[w]).pkt : w \in takes}
    BY DEF SimpleEndOfCycle, popped_flits
  <1>5. /\ sending' = [w \in Ways |->
                            sending[w] \o Kept(Upto(offered[w[1]], u[w[1]]), Same(w[2]))]
        /\ \A w \in Ways : Len(sending'[w]) <= SideBufferMax
        /\ offered' = [i \in Routers |-> Beyond(offered[i], u[i])]
    BY <1>2, <1>3, <1>4
  <1>6. Serving(takes, u, offered, sending, received, pending, arrived,
                offered', sending', received', pending', arrived')
    BY <1>1, <1>2, <1>4, <1>5 DEF Serving
  <1> QED BY <1>6

--------------------------------------------------------------------------------

\* The inductive invariant of the network: one of the topologies is used, the other idle.
Idle ==
    /\ input = [b \in Buffers |-> <<>>] /\ output = [b \in Buffers |-> <<>>]
    /\ holds = [b \in Buffers |-> NoChannel] /\ avail = [b \in Buffers |-> TRUE]
    /\ reqs = [i \in Routers |-> <<>>]
Unused ==
    /\ sending = [w \in Ways |-> <<>>] /\ received = [w \in Ways |-> <<>>]
    /\ pending = [w \in Ways |-> 0]
TravelInv ==
    /\ NetInv
    /\ topology = "ring" => WholeInv /\ Unused
    /\ topology # "ring" => /\ Idle /\ KnobsRight
                            /\ Direct(offered, sending, received, pending, arrived)

LEMMA NothingTotal == Total(<<>>) = 0
  <1>1. <<>> \in Seq(Entries) /\ Len(<<>>) = 0
    OBVIOUS
  <1>2. PICK g : AddsUp(g, <<>>) /\ Total(<<>>) = g[Len(<<>>)]
    BY <1>1, TotalSteps
  <1> QED BY <1>1, <1>2 DEF AddsUp

LEMMA DirectInit ==
    ASSUME NetworkInit, topology # "ring"
    PROVE  Direct(offered, sending, received, pending, arrived)
  <1>1. Layered(offered)
    BY DEF NetworkInit
  <1>2. PICK s \in Scenarios : offered = s.sends
    BY DEF NetworkInit, Init
  <1>3. /\ sending = [w \in Ways |-> <<>>] /\ received = [w \in Ways |-> <<>>]
        /\ pending = [w \in Ways |-> 0] /\ arrived = {}
    BY DEF NetworkInit, Init
  <1>4. offered \in [Routers -> Seq(Packets)]
    BY <1>2, RingAssumption
  <1>5. SideTypes(offered, sending, received, pending, arrived)
    BY <1>3, <1>4 DEF SideTypes
  <1>6. Offering(offered, arrived)
    <2> SUFFICES ASSUME NEW i \in Routers
                 PROVE  /\ OnceEach(offered[i])
                        /\ \A p : Occurs(p, offered[i]) => Crosses(p, i) /\ p \notin arrived
      BY DEF Offering
    <2>1. \A m, n \in 1..Len(s.sends[i]) :
              s.sends[i][m].src = i /\ (s.sends[i][m] = s.sends[i][n] => m = n)
      BY RingAssumption
    <2>2. OnceEach(offered[i])
      BY <1>2, <2>1 DEF OnceEach
    <2>3. ASSUME NEW p, Occurs(p, offered[i]) PROVE Crosses(p, i) /\ p \notin arrived
      <3>1. PICK k \in 1..Len(offered[i]) : offered[i][k] = p
        BY <2>3 DEF Occurs
      <3>2. offered[i] \in Seq(Packets)
        BY <1>4
      <3>3. p \in Packets /\ p \in ToSet(offered[i])
        <4> DEFINE q == offered[i]
        <4>1. q \in Seq(Packets) /\ k \in 1..Len(q) /\ q[k] = p
          BY <3>1, <3>2
        <4> HIDE DEF q
        <4>2. p \in Packets /\ k \in DOMAIN q
          BY <4>1, ElementOfSeq, LenProperties
        <4> QED BY <4>1, <4>2 DEF ToSet, q
      <3>4. p.src = i
        BY <1>2, <2>1, <3>1
      <3> QED BY <1>1, <1>3, <3>3, <3>4 DEF Layered, Crosses
    <2> QED BY <2>2, <2>3
  <1>7. Sending(offered, sending, arrived)
    <2>1. OnceEach(<<>>) /\ Len(<<>>) = 0 /\ \A p : ~Occurs(p, <<>>)
      BY DEF OnceEach, Occurs
    <2> QED BY <1>3, <2>1, LayerAssumption DEF Sending
  <1>8. Receiving(offered, sending, received, arrived)
    <2>1. ListedOnce(<<>>) /\ \A p : ~Has(p, <<>>)
      BY DEF ListedOnce, Has
    <2> QED BY <1>3, <2>1 DEF Receiving
  <1>9. Charged(received, pending)
    BY <1>3, NothingTotal, LayerAssumption DEF Charged
  <1> QED BY <1>5, <1>6, <1>7, <1>8, <1>9 DEF Direct

LEMMA TravelInit == NetworkInit => TravelInv
  <1> SUFFICES ASSUME NetworkInit PROVE TravelInv
    OBVIOUS
  <1>1. WholeInv /\ NetInv
    BY WholeInit, NetInit DEF NetworkInit
  <1>2. Idle /\ Unused
    BY DEF NetworkInit, Init, Idle, Unused
  <1>3. KnobsRight
    BY <1>1 DEF WholeInv
  <1> QED BY <1>1, <1>2, <1>3, DirectInit DEF TravelInv

LEMMA TravelNext == TravelInv /\ [NetworkNext]_networkVars => TravelInv'
  <1> SUFFICES ASSUME TravelInv, [NetworkNext]_networkVars PROVE TravelInv'
    OBVIOUS
  <1>1. NetInv'
    BY NetNext DEF TravelInv
  <1>2. CASE Ring
    <2>1. FlowInv /\ WholeInv /\ [Next]_vars /\ topology' = topology /\ topology = "ring"
          /\ UNCHANGED simple /\ Unused
      BY <1>2 DEF Ring, NetInv, FlowInv, TravelInv
    <2>2. WholeInv'
      BY <2>1, WholeNext
    <2> QED BY <1>1, <2>1, <2>2 DEF TravelInv, Unused, simple
  <1>3. CASE packet_injection
    <2>1. /\ topology # "ring" /\ topology' = topology
          /\ UNCHANGED <<offered, arrived, input, output, holds, avail, reqs>>
          /\ UNCHANGED <<num_vc, stamp, now, ratio, clock>> /\ turn' = (turn + 1) % N
      BY <1>3 DEF packet_injection, ends, channels
    <2>2. /\ Idle /\ KnobsRight
          /\ Direct(offered, sending, received, pending, arrived)
      BY <2>1 DEF TravelInv
    <2>3. turn' \in Nat
      BY <2>1, <2>2, RingAssumption DEF KnobsRight
    <2>4. Idle' /\ KnobsRight'
      BY <2>1, <2>2, <2>3 DEF Idle, KnobsRight
    <2>5. PICK i, goes :
              Entering(i, goes, sending, received, pending, sending', received', pending')
      BY <1>3, <2>2, InjectionEnters, RunningRouter
    <2>6. Direct(offered, sending', received', pending', arrived)
      BY <2>2, <2>5, EnteringDirect
    <2> QED BY <1>1, <2>1, <2>4, <2>6 DEF TravelInv
  <1>4. ASSUME NEW takes \in SUBSET receive_req, SimpleEndOfCycle(takes)
        PROVE  TravelInv'
    <2>1. /\ topology # "ring" /\ topology' = topology
          /\ UNCHANGED <<input, output, holds, avail, reqs>>
          /\ UNCHANGED <<num_vc, stamp, now, ratio, turn>>
          /\ clock' = (clock + 1) % (N * num_vc)
      BY <1>4 DEF SimpleEndOfCycle, channels
    <2>2. /\ Idle /\ KnobsRight
          /\ Direct(offered, sending, received, pending, arrived)
      BY <2>1 DEF TravelInv
    <2>3. clock' \in Nat
      <3> DEFINE m == N * num_vc
      <3>1. N \in Nat /\ N > 0 /\ num_vc \in Nat /\ num_vc > 0 /\ clock \in Nat
        BY <2>2, RingAssumption DEF KnobsRight
      <3>2. m \in Nat /\ m > 0
        BY <3>1
      <3> HIDE DEF m
      <3>3. (clock + 1) % m \in Nat
        BY <3>1, <3>2
      <3> QED BY <2>1, <3>3 DEF m
    <2>4. Idle' /\ KnobsRight'
      BY <2>1, <2>2, <2>3 DEF Idle, KnobsRight
    <2>5. PICK u : Serving(takes, u, offered, sending, received, pending, arrived,
                           offered', sending', received', pending', arrived')
      BY <1>4, <2>2, ClientsServe
    <2>6. Direct(offered', sending', received', pending', arrived')
      BY <2>2, <2>5, ServingDirect
    <2> QED BY <1>1, <2>1, <2>4, <2>6 DEF TravelInv
  <1>5. CASE UNCHANGED networkVars
    <2>1. /\ UNCHANGED vars /\ UNCHANGED simple /\ topology' = topology
      BY <1>5 DEF networkVars
    <2>2. topology = "ring" => WholeInv'
      BY <2>1, WholeNext DEF TravelInv, NetInv, FlowInv
    <2>3. topology # "ring" => Idle' /\ KnobsRight' /\ UNCHANGED <<offered, arrived>>
      BY <2>1 DEF TravelInv, vars, ends, channels, flow, time, Idle, KnobsRight
    <2> QED BY <1>1, <2>1, <2>2, <2>3 DEF TravelInv, Unused, simple
  <1> QED BY <1>2, <1>3, <1>4, <1>5 DEF NetworkNext, Clients

LEMMA IdleWhole == Idle => PacketsWhole
  <1> SUFFICES ASSUME Idle PROVE PacketsWhole
    OBVIOUS
  <1>1. ASSUME NEW b \in Buffers
        PROVE  {c \in Buffers : c[1] = b[1] /\ holds[c] = <<b[2], b[3]>>} = {}
    <2> SUFFICES ASSUME NEW c \in Buffers, holds[c] = <<b[2], b[3]>> PROVE FALSE
      OBVIOUS
    <2>1. b[2] = "none"
      BY DEF Idle, NoChannel
    <2>2. b[2] \in Ports
      BY DEF Buffers
    <2> QED BY <2>1, <2>2 DEF Ports
  <1>2. ASSUME NEW b \in Buffers
        PROVE  InOrder((IF b[2] = "LOCAL" THEN <<>> ELSE input[Other(b)]) \o output[b])
    <2>1. (IF b[2] = "LOCAL" THEN <<>> ELSE input[Other(b)]) = <<>> /\ output[b] = <<>>
      BY OtherEnd DEF Idle
    <2>2. <<>> \o <<>> = <<>> /\ InOrder(<<>>)
      BY DEF InOrder
    <2> QED BY <2>1, <2>2
  <1>3. WormholeOrder
    BY <1>1, <1>2 DEF WormholeOrder
  <1>4. ChannelOwner
    <2> SUFFICES ASSUME NEW b \in Buffers
                 PROVE  LET holders == {c \in Buffers : c[1] = b[1] /\ holds[c] = <<b[2], b[3]>>}
                        IN  /\ avail[b] <=> (holders = {} /\ output[b] = <<>>)
                            /\ Cardinality(holders) <= 1
                            /\ holders = {} /\ output[b] # <<>> => IsTail(Last(output[b]))
      BY DEF ChannelOwner
    <2> DEFINE H == {c \in Buffers : c[1] = b[1] /\ holds[c] = <<b[2], b[3]>>}
    <2>1. H = {}
      BY <1>1
    <2>2. avail[b] = TRUE /\ output[b] = <<>>
      BY DEF Idle
    <2> HIDE DEF H
    <2>3. Cardinality(H) = 0
      BY <2>1, FS_EmptySet
    <2>4. Cardinality(H) <= 1
      BY <2>3
    <2> QED BY <2>1, <2>2, <2>4 DEF H
  <1>5. DeliveredOnce
    <2>1. \A i \in Routers : Len(reqs[i]) = 0
      BY DEF Idle
    <2> QED BY <2>1 DEF DeliveredOnce
  <1> QED BY <1>3, <1>4, <1>5 DEF PacketsWhole

\* What holds of the sides of the routers.
SidesWhole ==
    \A w \in Ways :
        /\ \A p \in Waiting(w) : p.dst = w[1] /\ p \notin arrived /\ Copies(p) = 1
        /\ pending[w] = Total(received[w]) /\ pending[w] <= MaxPending

LEMMA UnusedWhole == Unused => SidesWhole
  <1> SUFFICES ASSUME Unused, NEW w \in Ways
               PROVE  Waiting(w) = {} /\ pending[w] = Total(received[w]) /\ pending[w] <= MaxPending
    BY DEF SidesWhole
  <1>1. received[w] = <<>> /\ pending[w] = 0
    BY DEF Unused
  <1> QED BY <1>1, NothingTotal, LayerAssumption DEF Waiting

LEMMA DirectWhole == Direct(offered, sending, received, pending, arrived) => SidesWhole
  <1> SUFFICES ASSUME Direct(offered, sending, received, pending, arrived) PROVE SidesWhole
    OBVIOUS
  <1>1. /\ SideTypes(offered, sending, received, pending, arrived)
        /\ Receiving(offered, sending, received, arrived) /\ Charged(received, pending)
    BY DEF Direct
  <1>2. ASSUME NEW w \in Ways, NEW p PROVE p \in Waiting(w) <=> Has(p, received[w])
    <2> DEFINE s == received[w]
    <2>1. s \in Seq(Entries) /\ DOMAIN s = 1..Len(s)
      BY <1>1, LenProperties DEF SideTypes
    <2>2. Waiting(w) = {s[k].pkt : k \in DOMAIN s}
      BY DEF Waiting
    <2> HIDE DEF s
    <2> QED BY <2>1, <2>2 DEF Has, s
  <1>3. ASSUME NEW w \in Ways, NEW p \in Waiting(w)
        PROVE  p.dst = w[1] /\ p \notin arrived /\ Copies(p) = 1
    <2>1. \A v \in Ways : p \in Waiting(v) => v = Target(p)
      BY <1>1, <1>2 DEF Receiving
    <2>2. w = Target(p) /\ p \notin arrived /\ \A v \in Ways : ~Occurs(p, sending[v])
      BY <1>1, <1>2 DEF Receiving
    <2>3. {v \in Ways : p \in Waiting(v)} = {w}
      BY <2>1, <2>2
    <2>4. {v \in Ways : p \in ToSet(sending[v])} = {}
      <3> SUFFICES ASSUME NEW v \in Ways, p \in ToSet(sending[v]) PROVE FALSE
        OBVIOUS
      <3> DEFINE s == sending[v]
      <3>1. s \in Seq(Packets) /\ DOMAIN s = 1..Len(s)
        BY <1>1, LenProperties DEF SideTypes
      <3> HIDE DEF s
      <3>2. Occurs(p, s)
        BY <3>1 DEF ToSet, Occurs, s
      <3> QED BY <2>2, <3>2 DEF s
    <2>5. Copies(p) = 1
      <3> DEFINE A == {v \in Ways : p \in Waiting(v)}
                 B == {v \in Ways : p \in ToSet(sending[v])}
      <3>1. Copies(p) = Cardinality(A) + Cardinality(B)
        BY DEF Copies
      <3>2. A = {w} /\ B = {}
        BY <2>3, <2>4
      <3> HIDE DEF A, B
      <3>3. Cardinality(A) = 1 /\ Cardinality(B) = 0
        BY <3>2, FS_EmptySet, FS_Singleton
      <3> QED BY <3>1, <3>3
    <2> QED BY <2>2, <2>5 DEF Target
  <1> QED BY <1>1, <1>3 DEF Charged, SidesWhole

LEMMA TravelFollows == TravelInv => TravelWhole
  <1> SUFFICES ASSUME TravelInv PROVE TravelWhole
    OBVIOUS
  <1>1. PacketsWhole
    BY WholeFollows, IdleWhole DEF TravelInv, NetInv, FlowInv
  <1>2. SidesWhole
    BY UnusedWhole, DirectWhole DEF TravelInv
  <1> QED BY <1>1, <1>2 DEF TravelWhole, SidesWhole, Total

\* Packets travel whole in the network MacSim builds.  On the ring that is what
\* RingKeepsPackets says; with simple_noc (packet_injection, try_packet_insert, pop_req)
\* a packet in front of a side reaches the router it was sent to, is held by one side of
\* it alone until the client takes it, and the flits that this side is charged with are
\* those of the packets it holds, however often clients refuse one.
THEOREM NetworkKeepsPackets == NetworkSpec => []TravelWhole
  <1> QED BY TravelInit, TravelNext, TravelFollows, PTL DEF NetworkSpec
================================================================================
