-------------------------------- MODULE DataPath --------------------------------
(***************************************************************************)
(* The data path of MemoryController and MemoryDevice: what happens to a   *)
(* request between its column command and the callback of its owner.  The  *)
(* controller keeps the accepted requests in two pending lists, counts the *)
(* cycles until write data is on the bus, and the device counts those until*)
(* read data arrives.  A finished transfer carries only the requestor and  *)
(* the address; the controller calls back, and deletes, the first pending  *)
(* request that matches.  The same object may still be in a request queue. *)
(*                                                                         *)
(* The schedulers are any that implement RequestService; every transfer is *)
(* one burst (requestSize equals dataBusWidth).                            *)
(***************************************************************************)
EXTENDS RequestService, FiniteSets

CONSTANTS
    Ids,            \* identities of live Request objects
    Addrs,
    ReadLatency,    \* tRL + tBus
    WriteLatency,   \* tWL + tBus
    QueueBound      \* bound on the requests waiting per requestor

ASSUME DataPathAssumption ==
    /\ ReadLatency \in Nat \ {0} /\ WriteLatency \in Nat \ {0}
    /\ Requests = [id : Ids, addr : Addrs, type : {"RD", "WR"}]

VARIABLES
    pendingReadRequest,
    pendingWriteRequest,
    sendDataBuffer,     \* with the entry of sendDataCounter in counter
    pendingReadData     \* with the entry of dataCycles in counter

dataVars == <<pendingReadRequest, pendingWriteRequest, sendDataBuffer, pendingReadData>>
allVars == <<serviceVars, dataVars>>

DataInit ==
    /\ ServiceInit
    /\ pendingReadRequest = <<>> /\ pendingWriteRequest = <<>>
    /\ sendDataBuffer = <<>> /\ pendingReadData = <<>>

Live == ToSet(pendingReadRequest) \cup ToSet(pendingWriteRequest)
FreeIds == {i \in Ids : \A p \in Live : p.req.id # i}
FreshId == CHOOSE i \in FreeIds : TRUE

addRequest(r, addr, type) ==
    LET q == [id |-> FreshId, addr |-> addr, type |-> type]
        p == [requestor |-> r, req |-> q]
    IN  /\ Len(waiting[r]) < QueueBound /\ FreeIds # {}
        /\ Accept(r, q)
        /\ pendingReadRequest' = IF type = "RD" THEN Append(pendingReadRequest, p)
                                 ELSE pendingReadRequest
        /\ pendingWriteRequest' = IF type = "WR" THEN Append(pendingWriteRequest, p)
                                  ELSE pendingWriteRequest
        /\ UNCHANGED <<sendDataBuffer, pendingReadData>>

\* A transfer started by the command that is sent now; the object itself is kept in
\* the model only to be compared with the one that is deleted at the end.
Started(buffer, type, latency) ==
    IF serving # NoService /\ serving.req.type = type
    THEN Append(buffer, [requestor |-> serving.requestor, req |-> serving.req,
                         counter |-> latency])
    ELSE buffer

Counted(buffer) == [k \in DOMAIN buffer |-> [buffer[k] EXCEPT !.counter = @ - 1]]

DeviceCountedFront(buffer) ==
    IF buffer = <<>> THEN buffer
    ELSE <<[Head(buffer) EXCEPT !.counter = IF @ > 0 THEN @ - 1 ELSE @]>> \o Tail(buffer)
DeviceCounted(buffer) ==
    [k \in DOMAIN buffer |->
        [buffer[k] EXCEPT !.counter = IF @ > 0 THEN @ - 1 ELSE @]]

Matches(pending, data) ==
    {k \in 1..Len(pending) : /\ pending[k].requestor = data.requestor
                             /\ pending[k].req.addr = data.req.addr}

FinishNewest(pending, data) ==
    LET ms == Matches(pending, data)
    IN  IF ms = {} THEN pending
        ELSE RemoveAt(pending, CHOOSE k \in ms : \A j \in ms : k >= j)

\* receiveData and sendData: callback and delete.
Finish(pending, data) ==
    LET ms == Matches(pending, data)
    IN  IF ms = {} THEN pending
        ELSE RemoveAt(pending, CHOOSE k \in ms : \A j \in ms : k <= j)

SendWriteDataDrop ==
    LET buffer == Started(sendDataBuffer, "WR", WriteLatency)
        due == buffer # <<>> /\ Head(buffer).counter = 0
    IN  /\ sendDataBuffer' = Counted(IF due THEN Tail(buffer) ELSE buffer)
        /\ UNCHANGED pendingWriteRequest

\* The controller: write data whose counter has reached 0 is sent, then all the
\* others are counted down without looking whether they are 0.
SendWriteData ==
    LET buffer == Started(sendDataBuffer, "WR", WriteLatency)
        due == buffer # <<>> /\ Head(buffer).counter = 0
    IN  /\ sendDataBuffer' = Counted(IF due THEN Tail(buffer) ELSE buffer)
        /\ pendingWriteRequest' = IF due THEN Finish(pendingWriteRequest, Head(buffer))
                                  ELSE pendingWriteRequest

\* The device: all are counted down, then at most one burst is returned.
ReturnReadData ==
    LET buffer == DeviceCounted(Started(pendingReadData, "RD", ReadLatency))
        due == buffer # <<>> /\ Head(buffer).counter = 0
    IN  /\ pendingReadData' = IF due THEN Tail(buffer) ELSE buffer
        /\ pendingReadRequest' = IF due THEN Finish(pendingReadRequest, Head(buffer))
                                 ELSE pendingReadRequest

\* A memory cycle: the command chosen before is sent, the next one is chosen.
DataCycle ==
    /\ \/ \E r \in Requestors : \E k \in 1..Len(waiting[r]) : Serve(r, k)
       \/ Pause
    /\ SendWriteData
    /\ ReturnReadData

DataNext ==
    \/ \E r \in Requestors, a \in Addrs, t \in {"RD", "WR"} : addRequest(r, a, t)
    \/ DataCycle

DataSpec == DataInit /\ [][DataNext]_allVars

\* Memory cycles go on, and every waiting request is served in the end.
DataFairness ==
    /\ WF_allVars(DataCycle)
    /\ \A i \in Ids : SF_allVars(DataCycle /\ serving' # NoService /\ serving'.req.id = i)

DataFairSpec == DataSpec /\ DataFairness

--------------------------------------------------------------------------------

\* The objects of one type that the schedulers or the data path still refer to.
Referenced(type, buffer) ==
    (UNION {{[requestor |-> r, req |-> waiting[r][k]] :
                k \in {j \in 1..Len(waiting[r]) : waiting[r][j].type = type}} :
            r \in Requestors})
    \cup (IF serving # NoService /\ serving.req.type = type THEN {serving} ELSE {})
    \cup {[requestor |-> buffer[k].requestor, req |-> buffer[k].req] : k \in DOMAIN buffer}

\* The pending lists hold exactly the requests that wait or are in flight, each once:
\* although data is matched by address only, the request that is called back and
\* deleted is the one whose transfer ended, so none is called back twice or lost and
\* no queue refers to a deleted one.
PendingExact ==
    /\ ToSet(pendingReadRequest) = Referenced("RD", pendingReadData)
    /\ ToSet(pendingWriteRequest) = Referenced("WR", sendDataBuffer)
    /\ \A p, q \in Live : p.req.id = q.req.id => p = q
    /\ IsInjective(pendingReadRequest) /\ IsInjective(pendingWriteRequest)

\* Two transfers never end in the same cycle, so that looking at the front is enough
\* and no unsigned counter is decremented below 0.
BurstsSpaced ==
    \A buffer \in {sendDataBuffer, pendingReadData} :
        \A k \in 1..(Len(buffer) - 1) : buffer[k].counter < buffer[k + 1].counter

\* Every accepted request is called back.
EveryRequestReturns ==
    \A i \in Ids :
        LET pending == \E p \in Live : p.req.id = i
        IN  pending ~> ~pending
================================================================================
