----------------------------- MODULE DuetController -----------------------------
(***************************************************************************)
(* The DUET (Duetto) controller of MCsim: two command schedulers, the high *)
(* performance one (HPA) and the real-time one (RTA), that work on their   *)
(* own command queues (commandQueue, commandQueue_RT) but on one request   *)
(* queue, one row table and one bank per requestor.  In every cycle        *)
(* MemoryController::update fills empty command queues, sends the command  *)
(* decided one cycle before, and lets one of the schedulers decide the     *)
(* next one; whoever decides has to bring the other one's queue up to date.*)
(*                                                                         *)
(* AddressMapping gives every requestor a bank of its own, so queues and   *)
(* banks are indexed by the requestor.  Whether a command is ready         *)
(* (isReady) and issuable (isIssuable) is a free choice in every cycle: it *)
(* is the subject of CommandIssue.  So is the latency estimate of WCLator, *)
(* except that it is 0 for a requestor without real-time commands.         *)
(***************************************************************************)
EXTENDS Integers, Sequences, FiniteSets, SequencesExt

CONSTANTS
    Requestors,    \* the cores, numbered from 0
    RowOf,         \* the row an address is mapped to
    Workloads,     \* what is run: the accesses <<address, type>> every requestor
                   \* makes, the bound on the requests it has waiting, and init_deadline
                   \* (with its four variants) in cycles
    Ids,           \* identities of Request objects
    LoopStarts     \* values the uninitialised loop index of insertRequest may have

NoRow == "no row"

ASSUME DuetAssumption ==
    /\ Requestors \subseteq Nat /\ IsFiniteSet(Requestors)
    /\ \A a \in DOMAIN RowOf : RowOf[a] # NoRow
    /\ \A w \in Workloads :
            /\ w.sends \in [Requestors -> SUBSET ((DOMAIN RowOf) \X {"RD", "WR"})]
            /\ w.bound \in Nat \ {0}
            /\ w.deadline \in Nat \ {0, 1}
    /\ LoopStarts \subseteq 0..8

CAS      == {"RD", "WR"}
Addrs    == DOMAIN RowOf
Requests == [id : Ids, addr : Addrs, type : CAS]

(* A BusPacket; gen tells the two packets apart that are generated for one *)
(* command of one request, one for each command queue.                     *)
Packets == [type : CAS \cup {"PRE", "ACT"}, requestor : Requestors,
            req : Requests, gen : {"HP", "RT"}]
NoPacket == [type |-> "none"]

VARIABLES
    workload,          \* one of Workloads
    reqQ,              \* RequestQueue::requestorBuffer of every bank's queue
    orderSize,         \* requestorOrder.size() of every queue, -1 before it exists
    hpIdx, rtIdx,      \* indices recorded in scheduledRequest_HP, scheduledRequest_RT
    rowTable,          \* bankTable: the row the schedulers believe open
    hpQ, rtQ,          \* the command queues
    Order,             \* requestors with a deadline, oldest first
    deadline_set_flag,
    service_deadline,
    mode,              \* the scheduler that decided last
    decided,           \* scheduledCommand_HPA or scheduledCommand_RTA of that mode
    commandRegisters,  \* RTA's registers of ready commands
    registerIndex,     \* the register the decided command came from
    queuePending,
    servedFlags,
    roundType,
    phase,             \* how far update has come: "idle" between two cycles
    sent,              \* the packet sent in this cycle, deleted at its end
    openRow,           \* history: the row the sent commands have opened
    fault              \* history: an element that does not exist was accessed

queueVars == <<reqQ, orderSize, hpIdx, rtIdx, rowTable, hpQ, rtQ>>
deadlineVars == <<Order, deadline_set_flag, service_deadline>>
registerVars == <<commandRegisters, registerIndex, queuePending, servedFlags,
                  roundType>>
vars == <<queueVars, deadlineVars, mode, decided, registerVars, phase, sent,
          openRow, fault, workload>>

Init ==
    /\ workload \in Workloads
    /\ reqQ = [r \in Requestors |-> <<>>]
    /\ orderSize = [r \in Requestors |-> -1]
    /\ hpIdx = [r \in Requestors |-> 1] /\ rtIdx = [r \in Requestors |-> 1]
    /\ rowTable = [r \in Requestors |-> NoRow]
    /\ hpQ = [r \in Requestors |-> <<>>] /\ rtQ = [r \in Requestors |-> <<>>]
    /\ Order = <<>>
    /\ deadline_set_flag = [r \in Requestors |-> FALSE]
    /\ service_deadline = [r \in Requestors |-> workload.deadline]
    /\ mode = "HPA"
    /\ decided = NoPacket
    /\ commandRegisters = <<>> /\ registerIndex = 1
    /\ queuePending = [r \in Requestors |-> FALSE]
    /\ servedFlags = [r \in Requestors |-> FALSE]
    /\ roundType = "RD"
    /\ phase = "idle"
    /\ sent = NoPacket
    /\ openRow = [r \in Requestors |-> NoRow]
    /\ fault = FALSE

\* The requestors of a set in the order in which loops over REQ_count meet them.
Ascending(S) ==
    [k \in 1..Cardinality(S) |-> CHOOSE r \in S : Cardinality({q \in S : q < r}) = k - 1]

(* CommandQueue: the two queues of a requestor. *)
getRequestorSize(q)         == Len(q)
HeadOf(q)                   == IF q = <<>> THEN NoPacket ELSE Head(q)
insertCommand(q, packets)   == q \o packets
removeCommand(q)            == Tail(q)

\* The comparison used throughout: same address and same command.
Same(p, q) == /\ p # NoPacket /\ q # NoPacket
              /\ p.type = q.type /\ p.req.addr = q.req.addr
              /\ p.requestor = q.requestor

--------------------------------------------------------------------------------
(* Requests arrive between two cycles. *)

\* A new request object: no live packet or request carries its identity.
FreeIds ==
    {i \in Ids :
        /\ \A r \in Requestors : \A k \in 1..Len(reqQ[r]) : reqQ[r][k].id # i
        /\ \A p \in {decided, sent} : p # NoPacket => p.req.id # i}
FreshId == CHOOSE i \in FreeIds : TRUE

\* The first request of a queue also builds the list of requestors, starting from an
\* index that is never initialised (8 stands for every value above 7, 0 for every
\* value below 1).
insertRequest(r, q) ==
    /\ reqQ' = [reqQ EXCEPT ![r] = Append(@, q)]
    /\ IF orderSize[r] = -1
       THEN \E i \in LoopStarts : orderSize' = [orderSize EXCEPT ![r] = 8 - i]
       ELSE UNCHANGED orderSize

addRequest(r, addr, type) ==
    /\ phase = "idle"
    /\ Len(reqQ[r]) < workload.bound /\ FreeIds # {}
    /\ insertRequest(r, [id |-> FreshId, addr |-> addr, type |-> type])
    /\ UNCHANGED <<hpIdx, rtIdx, rowTable, hpQ, rtQ, deadlineVars, mode, decided,
                   registerVars, phase, sent, openRow, fault, workload>>

--------------------------------------------------------------------------------
(* requestSchedule, commandGenerate and enqueueCommand. *)

isRowHit(r, q) == rowTable[r] = RowOf[q.addr]

\* The scan of the queues reaches requestor r only if the list is long enough.
Scanned(r) == r < orderSize[r] /\ reqQ[r] # <<>>

\* scheduleFR_BACKEND: the first row hit, or else the first request.
FirstReady(r) ==
    LET hits == {k \in 1..Len(reqQ[r]) : isRowHit(r, reqQ[r][k])}
    IN  IF hits = {} THEN 1
        ELSE CHOOSE k \in hits : \A j \in hits : k <= j

\* commandGenerate: a closed row is precharged and activated first.
Generate(r, q, gen) ==
    LET packet(type) == [type |-> type, requestor |-> r, req |-> q, gen |-> gen]
    IN  IF isRowHit(r, q) THEN <<packet(q.type)>>
        ELSE <<packet("PRE"), packet("ACT"), packet(q.type)>>

\* enqueueCommand, called until the buffer of the generator is empty.
enqueueCommand(q, r, request, gen) == insertCommand(q, Generate(r, request, gen))

\* The request at a place of the queue; the place is recorded for its removal.
getRequest(r, k) == reqQ[r][k]

requestSchedule ==
    LET fillHP == {r \in Requestors : Scanned(r) /\ getRequestorSize(hpQ[r]) = 0}
        fillRT == {r \in Requestors : Scanned(r) /\ getRequestorSize(rtQ[r]) = 0}
    IN  /\ phase = "idle" /\ phase' = "send"
        /\ hpIdx' = [r \in Requestors |->
                IF r \in fillHP THEN FirstReady(r) ELSE hpIdx[r]]
        /\ hpQ' = [r \in Requestors |->
                IF r \in fillHP
                THEN enqueueCommand(hpQ[r], r, getRequest(r, FirstReady(r)), "HP")
                ELSE hpQ[r]]
        /\ rtIdx' = [r \in Requestors |-> IF r \in fillRT THEN 1 ELSE rtIdx[r]]
        /\ rtQ' = [r \in Requestors |->
                IF r \in fillRT THEN enqueueCommand(rtQ[r], r, getRequest(r, 1), "RT")
                ELSE rtQ[r]]
        /\ sent' = NoPacket
        /\ UNCHANGED <<reqQ, orderSize, rowTable, deadlineVars, mode, decided,
                       registerVars, openRow, fault, workload>>

--------------------------------------------------------------------------------
(* commandSchedule, first half: send what was decided, set the deadlines. *)

DropOwnPacket(q) == IF q # <<>> /\ decided = Head(q) THEN Tail(q) ELSE q

\* sendCommand drops a precharge or an activate from the queues it heads; a
\* column command has left them when it was decided.
Drop(q) ==
    IF decided # NoPacket /\ decided.type \notin CAS /\ Same(decided, HeadOf(q))
    THEN removeCommand(q) ELSE q

Sender == decided.requestor

\* What setDeadline finds: requestors with real-time commands and no deadline.
Undated(rtq) == {r \in Requestors : rtq[r] # <<>> /\ ~deadline_set_flag[r]}

\* The deadline before it is counted down: a new one is not set in front of an
\* activate, and a requestor without real-time commands is not counted down.
Dated(rtq, r) ==
    CASE rtq[r] = <<>> -> workload.deadline
      [] r \in Undated(rtq) /\ rtq[r][1].type # "ACT" -> workload.deadline
      [] OTHER -> service_deadline[r]

CountDown(d) == IF d > 0 THEN d - 1 ELSE 0

setDeadline(rtq) ==
    /\ Order' = Order \o Ascending(Undated(rtq))
    /\ deadline_set_flag' = [r \in Requestors |->
            deadline_set_flag[r] \/ r \in Undated(rtq)]
    /\ service_deadline' = [r \in Requestors |-> CountDown(Dated(rtq, r))]

\* sendCommand compares with both queue heads without looking whether there is
\* one, and setDeadline looks two commands behind a precharge.
SendFault(rtq) ==
    \/ /\ decided # NoPacket /\ decided.type \notin CAS
       /\ hpQ[Sender] = <<>> \/ rtQ[Sender] = <<>>
    \/ \E r \in Undated(rtq) : rtq[r][1].type = "PRE" /\ Len(rtq[r]) < 3

LeaveRegister == commandRegisters
FreeRegister  == RemoveAt(commandRegisters, registerIndex)

SendCommand ==
    LET rtq == [r \in Requestors |-> Drop(rtQ[r])]
        rta == mode = "RTA" /\ decided # NoPacket
    IN  /\ phase = "send" /\ phase' = "decide"
        /\ sent' = decided /\ decided' = NoPacket
        /\ hpQ' = [r \in Requestors |-> Drop(hpQ[r])]
        /\ rtQ' = rtq
        /\ openRow' = IF decided = NoPacket \/ decided.type \in CAS THEN openRow
                      ELSE [openRow EXCEPT ![Sender] =
                              IF decided.type = "PRE" THEN NoRow
                              ELSE RowOf[decided.req.addr]]
        /\ servedFlags' = IF rta /\ decided.type \in CAS
                          THEN [servedFlags EXCEPT ![Sender] = TRUE]
                          ELSE servedFlags
        /\ queuePending' = IF rta THEN [queuePending EXCEPT ![Sender] = FALSE]
                           ELSE queuePending
        /\ commandRegisters' = IF rta THEN FreeRegister ELSE commandRegisters
        /\ setDeadline(rtq)
        /\ fault' = (fault \/ SendFault(rtq))
        /\ UNCHANGED <<reqQ, orderSize, hpIdx, rtIdx, rowTable, mode, registerIndex,
                       roundType, workload>>

--------------------------------------------------------------------------------
(* commandSchedule, second half: one of the schedulers decides.            *)

returnOldest(r) == HeadOf(rtQ[r])

EndDeadlineFlagOnly(c) ==
    /\ UNCHANGED Order
    /\ deadline_set_flag' = [deadline_set_flag EXCEPT ![c.requestor] = FALSE]
EndDeadlineAlways(c) ==
    /\ Order' = RemoveFirst(Order, c.requestor)
    /\ deadline_set_flag' = [deadline_set_flag EXCEPT ![c.requestor] = FALSE]

\* The deadline of a requestor ends when its oldest command is chosen.
EndDeadline(c) ==
    IF Same(c, returnOldest(c.requestor))
    THEN /\ Order' = RemoveFirst(Order, c.requestor)
         /\ deadline_set_flag' = [deadline_set_flag EXCEPT ![c.requestor] = FALSE]
    ELSE UNCHANGED <<Order, deadline_set_flag>>

updateRowTable(c) == rowTable' = [rowTable EXCEPT ![c.requestor] = RowOf[c.req.addr]]

\* The request is erased at the place recorded when it was scheduled.
removeRequest(r, idx) ==
    reqQ' = IF idx <= Len(reqQ[r]) THEN [reqQ EXCEPT ![r] = RemoveAt(@, idx)] ELSE reqQ

\* The bookkeeping of a chosen column command c whose request was recorded at
\* index idx: the row table, the deadline, the command queues, the request queue.
\* The deciding scheduler drops the head of its own queue, and that of the other
\* one if it is the same command.
BookCAS(c, idx, dropHP, dropRT) ==
    LET r == c.requestor
    IN  /\ updateRowTable(c)
        /\ EndDeadline(c)
        /\ rtQ' = IF dropRT THEN [rtQ EXCEPT ![r] = removeCommand(@)] ELSE rtQ
        /\ hpQ' = IF dropHP THEN [hpQ EXCEPT ![r] = removeCommand(@)] ELSE hpQ
        /\ removeRequest(r, idx)
        /\ fault' = (fault \/ idx > Len(reqQ[r]) \/ rtQ[r] = <<>>)

NoBooking == UNCHANGED <<rowTable, Order, deadline_set_flag, rtQ, reqQ, fault>>

KeepRegisters == UNCHANGED <<commandRegisters, queuePending, servedFlags, roundType>>

\* On the way back from RTA its registers and rounds are forgotten.
ClearRegisters ==
    /\ commandRegisters' = <<>>
    /\ queuePending' = [r \in Requestors |-> FALSE]
    /\ servedFlags' = [r \in Requestors |-> FALSE]
    /\ roundType' = "RD"

\* The high performance scheduler: the estimates are below the deadlines, so no
\* deadline is 0.  Any head of its queues may be the oldest ready command.
DecideHPA ==
    /\ phase = "decide" /\ phase' = "idle"
    /\ \A r \in Requestors : service_deadline[r] > 0
    /\ mode' = "HPA"
    /\ \E c \in {HeadOf(hpQ[r]) : r \in Requestors} \cup {NoPacket} :
        /\ decided' = c
        /\ IF c # NoPacket /\ c.type \in CAS
           THEN BookCAS(c, hpIdx[c.requestor], TRUE,
                        Same(c, returnOldest(c.requestor)))
           ELSE NoBooking /\ UNCHANGED hpQ
    /\ IF mode = "RTA"
       THEN ClearRegisters
       ELSE UNCHANGED <<commandRegisters, queuePending, servedFlags, roundType>>
    /\ UNCHANGED <<orderSize, hpIdx, rtIdx, service_deadline, registerIndex, sent,
                   openRow, workload>>

(* The real-time scheduler. *)

\* Ready heads of the real-time queues enter the registers, one per requestor.
Registered(ready) ==
    LET new == Ascending(ready)
    IN  commandRegisters \o [k \in DOMAIN new |-> returnOldest(new[k])]

\* The rounds: a round ends when no unserved command of its type is registered,
\* and the type changes if one of the other type is.
RoundGoesOn(regs) ==
    \E k \in 1..Len(regs) :
        /\ ~servedFlags[regs[k].requestor] /\ regs[k].type = roundType
        /\ Same(regs[k], returnOldest(regs[k].requestor))
SwitchExpected(regs) ==
    \E k \in 1..Len(regs) :
        /\ ~servedFlags[regs[k].requestor] /\ regs[k].type \in CAS \ {roundType}
        /\ Same(regs[k], returnOldest(regs[k].requestor))

RoundFlags(regs) ==
    IF regs # <<>> /\ ~RoundGoesOn(regs) THEN [r \in Requestors |-> FALSE]
    ELSE servedFlags
RoundTypeKept(regs) == roundType
RoundType(regs) ==
    IF regs # <<>> /\ ~RoundGoesOn(regs) /\ SwitchExpected(regs)
    THEN CHOOSE t \in CAS : t # roundType ELSE roundType

\* The places of the registered commands in Order.
Place(c) == CHOOSE n \in 1..Len(Order) : Order[n] = c.requestor
FirstOf(regs, ks) == CHOOSE k \in ks : \A j \in ks : Place(regs[k]) <= Place(regs[j])
LastOf(regs, ks)  == CHOOSE k \in ks : \A j \in ks : Place(regs[k]) >= Place(regs[j])

\* Arbitration goes through Order: the first column command of the round that is
\* the oldest of its requestor, or else the first one of the round, or else the
\* last activate, or else the last precharge (those two loops do not stop).
Arbitrate(regs, issuable, flags, type) ==
    LET listed == {k \in issuable : regs[k].requestor \in ToSet(Order)}
        inRound == {k \in listed : /\ regs[k].type = type
                                   /\ ~flags[regs[k].requestor]}
        oldest == {k \in inRound : Same(regs[k], returnOldest(regs[k].requestor))}
        act == {k \in listed : regs[k].type = "ACT"}
        pre == {k \in listed : regs[k].type = "PRE"}
    IN  CASE oldest # {} -> [index |-> FirstOf(regs, oldest), flags |-> flags]
          [] oldest = {} /\ inRound # {} ->
                [index |-> FirstOf(regs, inRound), flags |-> [r \in Requestors |-> FALSE]]
          [] inRound = {} /\ act # {} -> [index |-> LastOf(regs, act), flags |-> flags]
          [] inRound = {} /\ act = {} /\ pre # {} ->
                [index |-> LastOf(regs, pre), flags |-> flags]
          [] OTHER -> [index |-> 0, flags |-> flags]

SyncNothing(c) == UNCHANGED <<hpQ, hpIdx>>

\* The place recorded for the real-time queue holds for the other queue too.
syncRequest(r) == hpIdx' = [hpIdx EXCEPT ![r] = rtIdx[r]]

\* After a precharge of RTA the other scheduler goes on with the same commands.
SyncHP(c) ==
    /\ hpQ' = [hpQ EXCEPT ![c.requestor] = rtQ[c.requestor]]
    /\ syncRequest(c.requestor)

\* The estimate of some requestor with real-time commands reaches its deadline.
DecideRTA ==
    /\ phase = "decide" /\ phase' = "idle"
    /\ \E r \in Requestors : rtQ[r] # <<>>
    /\ mode' = "RTA"
    /\ \E ready \in SUBSET {r \in Requestors : rtQ[r] # <<>> /\ ~queuePending[r]} :
        \E regs \in {Registered(ready)} :
        \E issuable \in SUBSET (1..Len(regs)) :
        \E chosen \in {Arbitrate(regs, issuable, RoundFlags(regs), RoundType(regs))} :
            LET k == chosen.index
                c == IF k = 0 THEN NoPacket ELSE regs[k]
            IN  /\ commandRegisters' = regs
                /\ queuePending' = [r \in Requestors |-> queuePending[r] \/ r \in ready]
                /\ servedFlags' = chosen.flags
                /\ roundType' = RoundType(regs)
                /\ decided' = c
                /\ registerIndex' = IF k = 0 THEN 1 ELSE k
                /\ IF k # 0 /\ c.type \in CAS
                   THEN /\ BookCAS(c, rtIdx[c.requestor],
                                   Same(c, HeadOf(hpQ[c.requestor])), TRUE)
                        /\ UNCHANGED hpIdx
                   ELSE /\ NoBooking
                        /\ IF k # 0 /\ c.type = "PRE"
                           THEN SyncHP(c)
                           ELSE UNCHANGED <<hpQ, hpIdx>>
    /\ UNCHANGED <<orderSize, rtIdx, service_deadline, sent, openRow, workload>>

--------------------------------------------------------------------------------

update == requestSchedule \/ SendCommand \/ DecideHPA \/ DecideRTA

Next ==
    \/ \E r \in Requestors : \E access \in workload.sends[r] :
            addRequest(r, access[1], access[2])
    \/ update

Spec == Init /\ [][Next]_vars

\* A missed deadline forces RTA to decide.
Forced == phase = "decide" /\ \E q \in Requestors : service_deadline[q] = 0

\* RTA can register the command of r, or can choose it.
CanRegister(r) == Forced /\ rtQ[r] # <<>> /\ ~queuePending[r]
CanChoose(r) ==
    /\ Forced
    /\ \E ready \in SUBSET {q \in Requestors : rtQ[q] # <<>> /\ ~queuePending[q]} :
        \E regs \in {Registered(ready)} : \E issuable \in SUBSET (1..Len(regs)) :
            LET k == Arbitrate(regs, issuable, RoundFlags(regs), RoundType(regs)).index
            IN  k # 0 /\ regs[k].requestor = r

\* The controller is updated in every memory cycle.  While a missed deadline forces
\* RTA, the timers of a bank run out, so RTA registers its command, and so do the
\* conflicts with other banks, so again and again it finds a registered command
\* alone issuable.  Nothing is assumed of HPA, nor of the estimates.
Fairness ==
    /\ []<>(phase = "idle") /\ []<>(phase = "decide")
    /\ \A r \in Requestors :
            /\ []<>CanRegister(r) => []<><<Forced /\ ~queuePending[r] /\ queuePending'[r]>>_vars
            /\ []<>CanChoose(r) =>
                    []<><<Forced /\ decided' # NoPacket /\ decided'.requestor = r>>_vars

FairSpec == Spec /\ Fairness

--------------------------------------------------------------------------------

\* update deletes the packet it has sent: neither a command queue nor a register
\* refers to it any more, although after a precharge of RTA both queues share
\* their packets.
NoDanglingPacket ==
    phase = "idle" /\ sent # NoPacket =>
        /\ \A r \in Requestors : sent \notin ToSet(hpQ[r]) \cup ToSet(rtQ[r])
        /\ sent \notin ToSet(commandRegisters)
        /\ sent # decided

\* No access goes wrong: the unchecked ones of sendCommand, setDeadline, returnOldest
\* and removeRequest always find an element, although the two schedulers empty the
\* queues behind each other's back, and nothing refers to a deleted packet.
NoFault == ~fault /\ NoDanglingPacket

\* The bank protocol at the device: whichever scheduler decides, a column command
\* finds its own row open and an activate finds the bank precharged.
RowProtocol ==
    phase = "send" /\ decided # NoPacket =>
        /\ decided.type \in CAS => openRow[Sender] = RowOf[decided.req.addr]
        /\ decided.type = "ACT" => openRow[Sender] = NoRow

\* isBlocked and WCLator take the oldest command of every requestor in Order:
\* Order lists exactly the requestors with a deadline, each once, and when a
\* scheduler decides these are the ones with real-time commands.
OrderMatchesQueues ==
    /\ \A i, j \in 1..Len(Order) : Order[i] = Order[j] => i = j
    /\ \A r \in Requestors : deadline_set_flag[r] <=> r \in ToSet(Order)
    /\ phase = "decide" =>
        \A r \in Requestors : deadline_set_flag[r] <=> rtQ[r] # <<>>

\* The registers of RTA are not stale: each holds the command that heads its
\* real-time queue, one per requestor, and queuePending says which ones are taken.
RegistersCurrent ==
    phase = "decide" =>
        /\ \A r \in Requestors : queuePending[r] <=>
                \E k \in 1..Len(commandRegisters) : commandRegisters[k].requestor = r
        /\ \A k \in 1..Len(commandRegisters) :
                commandRegisters[k] = HeadOf(rtQ[commandRegisters[k].requestor])

\* The bookkeeping of RTA is never stale: neither the order of the deadlines nor
\* the registers, which HPA and RTA both change.
RealTimeStateCurrent == OrderMatchesQueues /\ RegistersCurrent

\* Switching between the schedulers: once the real-time queue is past the
\* precharge, or the other one has activated a row, both hold the same commands.
QueuesAgree ==
    phase = "decide" => \A r \in Requestors :
        (rtQ[r] # <<>> /\ rtQ[r][1].type # "PRE")
            \/ (hpQ[r] # <<>> /\ hpQ[r][1].type = "ACT")
        => /\ Len(hpQ[r]) = Len(rtQ[r])
           /\ \A k \in 1..Len(hpQ[r]) : Same(hpQ[r][k], rtQ[r][k])

\* Every accepted request is served, even if HPA prefers row hits for ever: a
\* deadline that runs out forces RTA until the oldest request has been served.  Nor
\* does one core starve another: the rounds of RTA, their flags and the switches of
\* the round type always lead back to a column command of a waiting requestor.
EveryRequestServed ==
    \A i \in Ids :
        LET waits == \E r \in Requestors : \E k \in 1..Len(reqQ[r]) : reqQ[r][k].id = i
        IN  waits ~> ~waits

\* The controller implements RequestService: the request that is erased is the one
\* whose column command was chosen, although the indices recorded for the two
\* schedulers are not adjusted when the other one erases a request.
choosing == decided # NoPacket /\ decided.type \in CAS
Service == INSTANCE RequestService WITH
    waiting <- reqQ,
    serving <- IF choosing THEN [requestor |-> decided.requestor, req |-> decided.req]
               ELSE [requestor |-> "none"]
ImplementsService == Service!ServiceSpec
================================================================================
