------------------------------ MODULE DuetEstimate ------------------------------
(***************************************************************************)
(* The DUET controller with the decision between its two schedulers made   *)
(* the way the code makes it: RTA decides if the estimate of WCLator       *)
(* reaches the deadline of some requestor.  The estimator keeps its own    *)
(* record of every request (req_statues_flag, req_open), which is not      *)
(* updated together with the queues it is about.                           *)
(*                                                                         *)
(* Command queues are per requestor (CmdPerREQ=1), so sendCommand keeps    *)
(* reqCmdQueueTimer, but isReadyTimer and isReadyTimerCmd read             *)
(* cmdQueueTimer, which stays empty: the timer of an estimate is always 0, *)
(* no command of another requestor is ever ready, and the answer for the   *)
(* requestor's own command is whatever a function without a return         *)
(* statement yields.  The constructor chooses implementation B; A and C    *)
(* are compared with it.                                                   *)
(***************************************************************************)
EXTENDS DuetController, LatencyEstimator

CONSTANT MaxArrivals    \* bound on the requests of a requestor

\* The vectors of the scheduler have REQ_count elements, one for every requestor.
ASSUME ArrivalAssumption ==
    /\ MaxArrivals \in [Requestors -> Nat]
    /\ Requestors \subseteq 0..(REQ_count - 1)

VARIABLES
    CInterR, CInterW,      \* cycles until the next read, the next write may follow
    req_statues_flag,      \* the oldest request of the requestor has been seen
    req_open,              \* ... and was a row hit then
    arrivals               \* requests of every requestor so far

estimatorVars == <<CInterR, CInterW, req_statues_flag, req_open>>
estimateVars == <<vars, estimatorVars, arrivals>>

EstimateInit ==
    /\ Init
    /\ CInterR = tCCD /\ CInterW = tCCD
    /\ req_statues_flag = [r \in Requestors |-> FALSE]
    /\ req_open = [r \in Requestors |-> FALSE]
    /\ arrivals = [r \in Requestors |-> 0]

--------------------------------------------------------------------------------
(* What WCLator finds. *)

\* Implementation C sees the requestor of a chosen column command moved to the end.
OrderTemp(c) ==
    IF c # NoPacket /\ c.type \in CAS /\ c.requestor \in ToSet(Order)
    THEN Append(RemoveFirst(Order, c.requestor), c.requestor)
    ELSE Order

\* The N requestors with a higher priority, none for a requestor without a deadline.
InFront(r, order) ==
    LET places == {n \in 1..Len(order) : order[n] = r}
    IN  {order[n] : n \in {k \in 1..Len(order) : \E p \in places : k < p}}

\* The oldest command of a requestor in front, or one that follows it.
StillNeeds(q, type) == \E k \in 1..Len(rtQ[q]) : rtQ[q][k].type = type

isReadyTimer == 0

Situation(r, order) ==
    LET needing(type) == Cardinality({q \in InFront(r, order) : StillNeeds(q, type)})
    IN  [old |-> returnOldest(r).type, timer |-> isReadyTimer,
         CInterR |-> CInterR, CInterW |-> CInterW,
         pre |-> needing("PRE"), act |-> needing("ACT"), rd |-> needing("RD")]

cmdExistsHPA(r, own) ==
    {HeadOf(hpQ[q]).type : q \in {p \in Requestors : (p = r) <=> own}} \ {"none"}

\* No entry is found: false for the others, for the requestor itself anything.
isReadyTimerCmd(own, anything) == own /\ anything

ReadyHPA(r, anything) ==
    UNION {{[type |-> t, own |-> own] : t \in cmdExistsHPA(r, own)} :
            own \in {o \in BOOLEAN : isReadyTimerCmd(o, anything)}}

Chosen(r, c) == IF c = NoPacket THEN None
                ELSE [type |-> c.type, own |-> c.requestor = r]

\* One of three estimates, by what is recorded of the oldest request.
Recorded(r, new, open, closed) ==
    CASE ~req_statues_flag[r] -> new
      [] req_statues_flag[r] /\ req_open[r] -> open
      [] OTHER -> closed

WCLatorA(r, order) ==
    LET s == Situation(r, order)
    IN  Worst(Recorded(r, NewA(s), OpenA(s), ClosedA(s)))
WCLator(r, anything) ==
    LET s == Situation(r, Order)
        ready == ReadyHPA(r, anything)
    IN  Worst(Recorded(r, NewB(s, ready), OpenB(s, ready), ClosedB(s, ready)))
WCLatorC(r, c) ==
    LET s == Situation(r, OrderTemp(c))
        h == Chosen(r, c)
    IN  Worst(Recorded(r, NewC(s, h), OpenC(s, h), ClosedC(s, h)))

--------------------------------------------------------------------------------

Arrive ==
    /\ \E r \in Requestors : \E access \in workload.sends[r] :
            /\ arrivals[r] < MaxArrivals[r]
            /\ arrivals' = [arrivals EXCEPT ![r] = @ + 1]
            /\ addRequest(r, access[1], access[2])
    /\ UNCHANGED estimatorVars

Fill == requestSchedule /\ UNCHANGED <<estimatorVars, arrivals>>

\* Mutant: the record is kept after a column command of HPA.
ForgetRTAOnly ==
    IF decided # NoPacket /\ decided.type \in CAS /\ mode = "RTA"
    THEN [req_statues_flag EXCEPT ![Sender] = FALSE] ELSE req_statues_flag

\* A column command ends the record of its requestor, whichever request it serves.
Forget ==
    IF decided # NoPacket /\ decided.type \in CAS
    THEN [req_statues_flag EXCEPT ![Sender] = FALSE] ELSE req_statues_flag

Send ==
    /\ SendCommand
    /\ CInterR' = CASE decided.type = "RD" -> tCCD
                    [] decided.type = "WR" -> tWtoR
                    [] OTHER -> CountDown(CInterR)
    /\ CInterW' = CASE decided.type = "RD" -> tRTW
                    [] decided.type = "WR" -> tCCD
                    [] OTHER -> CountDown(CInterW)
    /\ req_statues_flag' = Forget
    /\ UNCHANGED <<req_open, arrivals>>

Estimates ==
    {[r \in Requestors |-> WCLator(r, anything[r])] : anything \in [Requestors -> BOOLEAN]}
AtRisk(estimate) == {r \in Requestors : estimate[r] >= service_deadline[r]}

\* The loops over the requestors stop at the first one at risk, in both modes:
\* WCLator is not called for the others and does not see their requests.
Record(estimate) ==
    LET fresh == {r \in Requestors : /\ ~req_statues_flag[r] /\ rtQ[r] # <<>>
                                     /\ \A q \in AtRisk(estimate) : r <= q}
    IN  /\ req_statues_flag' = [r \in Requestors |-> req_statues_flag[r] \/ r \in fresh]
        /\ req_open' = [r \in Requestors |->
                CASE r \in fresh /\ returnOldest(r).type \in CAS -> TRUE
                  [] r \in fresh /\ returnOldest(r).type = "PRE" -> FALSE
                  [] OTHER -> req_open[r]]
        /\ UNCHANGED <<CInterR, CInterW, arrivals>>

StayOrSwitchToHPA ==
    \E estimate \in Estimates : AtRisk(estimate) = {} /\ DecideHPA /\ Record(estimate)

StayOrSwitchToRTA ==
    \E estimate \in Estimates : AtRisk(estimate) # {} /\ DecideRTA /\ Record(estimate)

EstimateNext == Arrive \/ Fill \/ Send \/ StayOrSwitchToHPA \/ StayOrSwitchToRTA

EstimateSpec == EstimateInit /\ [][EstimateNext]_estimateVars

--------------------------------------------------------------------------------

\* WCLator takes the oldest command of a request it has seen as a row miss without
\* looking whether there is one: the record ends no later than the last command
\* leaves the real-time queue, although it is ended when a command is sent and the
\* command leaves the queue when it is decided, one cycle before.
OldestExists ==
    phase = "decide" => \A r \in Requestors :
        req_statues_flag[r] /\ ~req_open[r] => rtQ[r] # <<>>

\* No scheduler decides on an estimate that leaves out a waiting request: what is
\* recorded of a request agrees with the command that heads the real-time queue, so
\* some branch of WCLator has a case for it.  (Except for an activate: a request that
\* WCLator sees for the first time after its precharge has the estimate 0.)
EstimateCovers ==
    phase = "decide" => \A estimate \in Estimates, r \in Requestors :
        rtQ[r] # <<>> /\ returnOldest(r).type # "ACT" =>
            estimate[r] >= (IF returnOldest(r).type = "WR" THEN tWL ELSE tRL) + tBUS

\* The more WCLator knows of the command of HPA the smaller the estimate: A, which
\* knows nothing, is never below B, nor below C for any command of another requestor,
\* although C sees that requestor moved behind the others.  For a command of its own
\* the requestor is moved itself, behind requestors of which A does not know: then A
\* is not below C if both see the same order.
EstimatesOrdered ==
    phase = "decide" => \A r \in Requestors :
        /\ \A anything \in BOOLEAN : WCLator(r, anything) <= WCLatorA(r, Order)
        /\ \A q \in Requestors :
            LET c == HeadOf(hpQ[q])
            IN  WCLatorC(r, c) <= WCLatorA(r, IF q = r THEN OrderTemp(c) ELSE Order)
================================================================================
