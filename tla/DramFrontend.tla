------------------------------ MODULE DramFrontend ------------------------------
(***************************************************************************)
(* MacSim's dram_controller_c when it is built on MCsim: requests come from *)
(* the router, are handed to the memory system and wait in                 *)
(* m_pending_request until a callback names their address, and leave       *)
(* through the delay buffer and the output buffer.  A callback releases    *)
(* every pending request with its address, whatever its type, its core and *)
(* the request it was made for: MCsim still owes a callback for the others,*)
(* and that one may release younger requests.                              *)
(*                                                                         *)
(* The memory system is the number of requests for every address that it   *)
(* has not finished; any may be finished next (DataPath shows that each is *)
(* finished once).  Virtual channels are not partitioned.                  *)
(***************************************************************************)
EXTENDS Naturals, Sequences, FiniteSets, SequencesExt, Functions, Lists

CONSTANTS
    Reqs,                \* mem_req_s objects
    AddrOf,              \* the address of every request
    Latencies,           \* values of KNOB_DRAM_ADDITIONAL_LATENCY
    OutstandingBound     \* bound on the requests MCsim has not finished

ASSUME FrontendAssumption ==
    /\ DOMAIN AddrOf = Reqs
    /\ Latencies \subseteq Nat /\ OutstandingBound \in Nat \ {0}

Addrs == {AddrOf[q] : q \in Reqs}
To(a) == {q \in Reqs : AddrOf[q] = a}

VARIABLES
    additionalLatency,    \* the knob, 0 if there is no delay buffer
    routerQueue,          \* requests the router has delivered
    outstanding,          \* requests per address that MCsim has accepted and not finished
    m_pending_request,
    m_tmp_output_buffer,  \* with the cycles until m_rdy_cycle
    m_output_buffer

vars == <<additionalLatency, routerQueue, outstanding, m_pending_request,
          m_tmp_output_buffer, m_output_buffer>>

Init ==
    /\ additionalLatency \in Latencies
    /\ routerQueue = <<>> /\ outstanding = [a \in Addrs |-> 0]
    /\ m_pending_request = <<>>
    /\ m_tmp_output_buffer = <<>> /\ m_output_buffer = <<>>

Delayed == {m_tmp_output_buffer[k].req : k \in DOMAIN m_tmp_output_buffer}

\* The requests somewhere between the two directions of the router.
Inside == ToSet(routerQueue) \cup ToSet(m_pending_request) \cup Delayed
          \cup ToSet(m_output_buffer)

Total == SumFunction(outstanding)

\* The router delivers a request.  MCsim has requests of its own: it may not yet have
\* finished the one it made for the same object before.
Deliver(q) ==
    /\ q \notin Inside
    /\ Total + Len(routerQueue) < OutstandingBound
    /\ routerQueue' = Append(routerQueue, q)
    /\ UNCHANGED <<additionalLatency, outstanding, m_pending_request, m_tmp_output_buffer,
                   m_output_buffer>>

--------------------------------------------------------------------------------

\* Released requests wait for additionalLatency cycles, if there is a delay buffer.
Release(released) ==
    IF additionalLatency = 0
    THEN /\ m_output_buffer' = m_output_buffer \o released
         /\ UNCHANGED m_tmp_output_buffer
    ELSE /\ m_tmp_output_buffer' = m_tmp_output_buffer \o
                [k \in DOMAIN released |-> [req |-> released[k], wait |-> additionalLatency]]
         /\ UNCHANGED m_output_buffer

callbackFront(a) ==
    LET front == m_pending_request # <<>> /\ AddrOf[Head(m_pending_request)] = a
    IN  /\ outstanding[a] > 0
        /\ outstanding' = [outstanding EXCEPT ![a] = @ - 1]
        /\ m_pending_request' = IF front THEN Tail(m_pending_request) ELSE m_pending_request
        /\ Release(IF front THEN <<Head(m_pending_request)>> ELSE <<>>)
        /\ UNCHANGED <<additionalLatency, routerQueue>>
callbackKeeps(a) ==
    /\ outstanding[a] > 0
    /\ outstanding' = [outstanding EXCEPT ![a] = @ - 1]
    /\ Release(Kept(m_pending_request, To(a)))
    /\ UNCHANGED <<additionalLatency, routerQueue, m_pending_request>>

\* read_callback and write_callback with address a, made while MCsim is updated at
\* the beginning of run_a_cycle.
callback(a) ==
    /\ outstanding[a] > 0
    /\ outstanding' = [outstanding EXCEPT ![a] = @ - 1]
    /\ m_pending_request' = Kept(m_pending_request, Reqs \ To(a))
    /\ Release(Kept(m_pending_request, To(a)))
    /\ UNCHANGED <<additionalLatency, routerQueue>>

--------------------------------------------------------------------------------

\* delay_packet moves the requests in front whose time has come.
Due == LET early == {k \in DOMAIN m_tmp_output_buffer : m_tmp_output_buffer[k].wait > 0}
       IN  IF early = {} THEN Len(m_tmp_output_buffer)
           ELSE (CHOOSE k \in early : \A j \in early : k <= j) - 1

delay_packet(buffer) ==
    /\ m_output_buffer' = buffer \o [k \in 1..Due |-> m_tmp_output_buffer[k].req]
    /\ m_tmp_output_buffer' =
            LET rest == SubSeq(m_tmp_output_buffer, Due + 1, Len(m_tmp_output_buffer))
            IN  [k \in DOMAIN rest |-> [rest[k] EXCEPT !.wait = IF @ > 0 THEN @ - 1 ELSE 0]]

receive_packet ==
    IF routerQueue = <<>> THEN UNCHANGED <<routerQueue, outstanding, m_pending_request>>
    ELSE /\ routerQueue' = Tail(routerQueue)
         /\ outstanding' = [outstanding EXCEPT ![AddrOf[Head(routerQueue)]] = @ + 1]
         /\ m_pending_request' = Append(m_pending_request, Head(routerQueue))

\* send_packet injects the first n requests, as many as the router takes.
send_packet(n) == SubSeq(m_output_buffer, n + 1, Len(m_output_buffer))

\* The rest of run_a_cycle.
run_a_cycle(n) ==
    /\ delay_packet(send_packet(n))
    /\ receive_packet
    /\ UNCHANGED additionalLatency

Next ==
    \/ \E q \in Reqs : Deliver(q)
    \/ \E a \in Addrs : callback(a)
    \/ \E n \in 0..Len(m_output_buffer) : run_a_cycle(n)

\* Cycles go on, the router takes a packet again and again, and MCsim finishes every
\* request (EveryRequestReturns of DataPath).
Fairness ==
    /\ WF_vars(\E n \in 0..Len(m_output_buffer) : run_a_cycle(n))
    /\ SF_vars(\E n \in 1..Len(m_output_buffer) : run_a_cycle(n))
    /\ \A a \in Addrs : WF_vars(callback(a))

--------------------------------------------------------------------------------

\* No pending request is stranded: although callbacks are spent on requests they were
\* not made for, MCsim still owes one for the address of every pending request.
CallbackOwed ==
    \A p \in ToSet(m_pending_request) : outstanding[AddrOf[p]] > 0

================================================================================
