------------------------------ MODULE NativeDram ------------------------------
(***************************************************************************)
(* MacSim's dram_controller_c with both of its back ends: MCsim            *)
(* (DramFrontend) and its own model of a DRAM, in which every bank has a   *)
(* buffer of requests (DRB) and serves one at a time, precharge, activate, *)
(* column access and data transfer taking turns on the command and the     *)
(* data bus of the channel.                                                *)
(*                                                                         *)
(* Ready times are cycles left.  An entry of a DRB is the request; where   *)
(* the address goes is RowOf and BankOf.  There is one channel, and merged *)
(* requests are answered in the order of their arrival.                    *)
(***************************************************************************)
EXTENDS DramFrontend, Integers, FiniteSetsExt

CONSTANTS
    NumBanks,            \* KNOB_DRAM_NUM_BANKS
    BankOf, RowOf,       \* bank and row of every address
    TypeOf,              \* request -> "read", "wb" or "prefetch"
    SizeOf,              \* request -> bytes
    Policies,            \* values of the knob that picks the controller
    MergeRequests,       \* values of KNOB_DRAM_MERGE_REQUESTS
    BufferSize,          \* KNOB_DRAM_BUFFER_SIZE
    BusWidth,            \* KNOB_DRAM_BUS_WIDTH
    Precharge, Activate, Column   \* latencies

None == "none"
NoRow == -1
Banks == 0 .. NumBanks - 1
bankOf(q) == BankOf[AddrOf[q]]
rowOf(q) == RowOf[AddrOf[q]]

ASSUME NativeAssumption ==
    /\ NumBanks \in Nat \ {0} /\ None \notin Reqs
    /\ BankOf \in [Addrs -> Banks] /\ RowOf \in [Addrs -> Nat]
    /\ TypeOf \in [Reqs -> {"read", "wb", "prefetch"}] /\ SizeOf \in [Reqs -> Nat \ {0}]
    /\ MergeRequests \subseteq BOOLEAN /\ BufferSize \in Nat \ {0} /\ BusWidth \in Nat \ {0}
    /\ Precharge \in Nat /\ Activate \in Nat /\ Column \in Nat

VARIABLES
    policy,      \* "MCSIM", or "FCFS" or "FRFCFS" without it
    merge,       \* the knob
    bank,        \* bank -> [buf, cur, state, row, wait]
    turns,       \* banks in the order of m_bank_timestamp
    dbus,        \* cycles until m_dbus_ready
    byteAvail,   \* m_byte_avail
    step         \* what happened last: "deliver", "cycle", or "sent", a cycle in which a reply left

ownVars == <<bank, turns, dbus, byteAvail, step>>
allVars == <<vars, policy, merge, ownVars>>

\* The loops over the banks.
InOrder == [k \in 1 .. NumBanks |-> k - 1]

NativeInit ==
    /\ Init
    /\ policy \in Policies /\ merge \in MergeRequests /\ (policy = "MCSIM" => ~merge)
    /\ bank = [b \in Banks |-> [buf |-> <<>>, cur |-> None, state |-> "init", row |-> NoRow, wait |-> 0]]
    /\ turns = InOrder /\ dbus = 0 /\ byteAvail = BusWidth /\ step = "cycle"

-----------------------------------------------------------------------------
(* The parts of a cycle: each operator maps x = [bank, turns, dbus,          *)
(* byteAvail, done] to what it leaves; done collects the replies.           *)

Busy(x, b, st) == x.bank[b].cur # None /\ x.bank[b].state = st
\* The bank with the oldest time stamp among those that are ready.
Oldest(x, ready) == x.turns[Min({i \in DOMAIN x.turns : x.turns[i] \in ready})]
Stamped(x, b) == [x EXCEPT !.turns = Append(Kept(@, Banks \ {b}), b)]

(* Mutant: the row that is open is not compared. *)
CommandAnyRow(bk) ==
    IF bk.row = NoRow THEN [bk EXCEPT !.row = rowOf(bk.cur), !.wait = Activate, !.state = "cmd_wait"]
    ELSE [bk EXCEPT !.wait = Column, !.state = "data"]

(* The next command of a bank: activate, column access, or precharge. *)
Command(bk) ==
    IF bk.row = NoRow THEN [bk EXCEPT !.row = rowOf(bk.cur), !.wait = Activate, !.state = "cmd_wait"]
    ELSE IF rowOf(bk.cur) = bk.row THEN [bk EXCEPT !.wait = Column, !.state = "data"]
    ELSE [bk EXCEPT !.row = NoRow, !.wait = Precharge, !.state = "cmd_wait"]

channel_schedule_cmd(x) ==
    LET ready == {b \in Banks : Busy(x, b, "cmd")}
        b == Oldest(x, ready)
    IN IF ready = {} THEN x ELSE [x EXCEPT !.bank[b] = Command(@)]

(* Cycles until the data of a request has been moved; small requests share  *)
(* a cycle.                                                                 *)
BusCycles(x, size) == IF size < x.byteAvail THEN 0 ELSE (size - x.byteAvail) \div BusWidth + 1
BytesLeft(x, size) ==
    IF size < x.byteAvail THEN x.byteAvail - size ELSE BusWidth - ((size - x.byteAvail) % BusWidth)
acquire_data_bus(x, b) ==
    LET size == SizeOf[x.bank[b].cur] IN
    [x EXCEPT !.dbus = BusCycles(x, size), !.byteAvail = BytesLeft(x, size),
              !.bank[b].wait = BusCycles(x, size), !.bank[b].state = "data_wait"]

DataTurn(x, k) ==
    LET ready == {b \in Banks : Busy(x, b, "data") /\ x.bank[b].wait = 0} IN
    IF x.dbus > 0 \/ ready = {} THEN x ELSE acquire_data_bus(x, Oldest(x, ready))
channel_schedule_data(x) == FoldLeft(DataTurn, x, InOrder)

(* A write-back is freed, everything else is answered; requests for the     *)
(* same address may be answered together.                                   *)
Replies(qs) == Kept(qs, {q \in Reqs : TypeOf[q] # "wb"})
Merged(bk) == IF merge THEN Kept(bk.buf, To(AddrOf[bk.cur])) ELSE <<>>

(* Mutant: the merged requests are answered and stay in the buffer. *)
CompleteKept(x, b) ==
    LET bk == x.bank[b] IN
    IF ~(Busy(x, b, "data_wait") /\ bk.wait = 0) THEN x
    ELSE [x EXCEPT !.bank[b].cur = None, !.done = @ \o Replies(Append(Merged(bk), bk.cur))]
Complete(x, b) ==
    LET bk == x.bank[b] IN
    IF ~(Busy(x, b, "data_wait") /\ bk.wait = 0) THEN x
    ELSE [x EXCEPT !.bank[b].buf = Kept(@, Reqs \ ToSet(Merged(bk))),
                   !.bank[b].cur = None, !.done = @ \o Replies(Append(Merged(bk), bk.cur))]
bank_schedule_complete(x) == FoldLeft(Complete, x, InOrder)

(* FR-FCFS: demands before prefetches, then the open row, then age. *)
Before(bk, i, j) ==
    LET late(k) == TypeOf[bk.buf[k]] = "prefetch"
        miss(k) == rowOf(bk.buf[k]) # bk.row
    IN IF late(i) # late(j) THEN late(j) ELSE IF miss(i) # miss(j) THEN miss(j) ELSE i < j
schedule(bk) ==
    IF policy = "FCFS" THEN 1
    ELSE CHOOSE i \in DOMAIN bk.buf : \A j \in DOMAIN bk.buf \ {i} : Before(bk, i, j)

ScheduleBank(x, b) ==
    LET bk == x.bank[b] IN
    IF bk.cur = None /\ bk.buf # <<>>
    THEN LET i == schedule(bk) IN
         Stamped([x EXCEPT !.bank[b] = [bk EXCEPT !.cur = bk.buf[i], !.state = "cmd",
                                                  !.buf = RemoveAt(bk.buf, i)]], b)
    ELSE IF Busy(x, b, "cmd_wait") /\ bk.wait = 0
    THEN Stamped([x EXCEPT !.bank[b].state = "cmd"], b)
    ELSE x
bank_schedule_new(x) == FoldLeft(ScheduleBank, x, InOrder)

(* insert_new_req: if the buffer of the bank is full the prefetches in it   *)
(* are dropped; if it is still full the request stays in the router.        *)
Entries(bk) == Len(bk.buf) + (IF bk.cur = None THEN 0 ELSE 1)
flush_prefetch(bk) ==
    IF Entries(bk) < BufferSize THEN bk
    ELSE [bk EXCEPT !.buf = Kept(@, {q \in Reqs : TypeOf[q] # "prefetch"})]
insert_new_req(x) ==
    LET q == Head(routerQueue)
        bk == flush_prefetch(x.bank[bankOf(q)])
        room == Entries(bk) < BufferSize
    IN IF routerQueue = <<>> THEN [x |-> x, taken |-> FALSE]
       ELSE [x |-> [x EXCEPT !.bank[bankOf(q)] = IF room THEN [bk EXCEPT !.buf = Append(bk.buf, q)] ELSE bk],
             taken |-> room]

Elapsed(n) == IF n > 0 THEN n - 1 ELSE 0

(* run_a_cycle without MCsim; the router takes the first n replies.         *)
Cycle(n) ==
    LET x0 == [bank |-> bank, turns |-> turns, dbus |-> dbus, byteAvail |-> byteAvail, done |-> <<>>]
        x1 == bank_schedule_new(bank_schedule_complete(channel_schedule_data(channel_schedule_cmd(x0))))
        ins == insert_new_req(x1)
        sent == SubSeq(m_output_buffer, n + 1, Len(m_output_buffer))
                   \o [k \in 1 .. Due |-> m_tmp_output_buffer[k].req]
        late == SubSeq(m_tmp_output_buffer, Due + 1, Len(m_tmp_output_buffer))
                   \o [k \in DOMAIN x1.done |-> [req |-> x1.done[k], wait |-> additionalLatency]]
    IN /\ bank' = [b \in Banks |-> [ins.x.bank[b] EXCEPT !.wait = Elapsed(@)]]
       /\ turns' = ins.x.turns /\ dbus' = Elapsed(ins.x.dbus) /\ byteAvail' = ins.x.byteAvail
       /\ step' = IF n > 0 THEN "sent" ELSE "cycle"
       /\ routerQueue' = IF ins.taken THEN Tail(routerQueue) ELSE routerQueue
       /\ IF additionalLatency = 0
          THEN m_output_buffer' = sent \o x1.done /\ UNCHANGED m_tmp_output_buffer
          ELSE /\ m_output_buffer' = sent
               /\ m_tmp_output_buffer' = [k \in DOMAIN late |-> [late[k] EXCEPT !.wait = Elapsed(@)]]
       /\ UNCHANGED <<additionalLatency, outstanding, m_pending_request>>

-----------------------------------------------------------------------------
InBanks == UNION {ToSet(bank[b].buf) \cup ({bank[b].cur} \ {None}) : b \in Banks}
Everywhere == Inside \cup InBanks

DeliverNative(q) ==
    /\ policy # "MCSIM" /\ q \notin Everywhere
    /\ routerQueue' = Append(routerQueue, q) /\ step' = "deliver"
    /\ UNCHANGED <<additionalLatency, outstanding, m_pending_request, m_tmp_output_buffer,
                   m_output_buffer, policy, merge, bank, turns, dbus, byteAvail>>
CycleNative(n) == policy # "MCSIM" /\ Cycle(n) /\ UNCHANGED <<policy, merge>>
WithMCsim == policy = "MCSIM" /\ Next /\ UNCHANGED <<policy, merge, ownVars>>

NativeNext ==
    \/ WithMCsim
    \/ \E q \in Reqs : DeliverNative(q)
    \/ \E n \in 0 .. Len(m_output_buffer) : CycleNative(n)

(* Cycles go on, and the router takes a packet again and again. *)
NativeFairness ==
    /\ []<>(Everywhere # {}) => []<><<step' # "deliver">>_allVars
    /\ []<>(m_output_buffer # <<>>) => []<>(step = "sent")
NativeSpec ==
    /\ NativeInit /\ [][NativeNext]_allVars
    /\ policy = "MCSIM" => Fairness
    /\ policy # "MCSIM" => NativeFairness

-----------------------------------------------------------------------------
(* A request is in one place only and there once, in the router's queue, a  *)
(* bank, or on its way out: merged and repeated answers neither duplicate a *)
(* reply nor answer a request that a bank or the router still holds.        *)
HeldOnce ==
    Cardinality(Everywhere) =
        Len(routerQueue) + Len(m_pending_request) + Len(m_tmp_output_buffer) + Len(m_output_buffer)
        + FoldFunction(+, 0, [b \in Banks |-> Entries(bank[b])])

(* Data is moved only for a request whose row is open, and no bank ever     *)
(* holds more requests than it has entries, although every bank in turn     *)
(* waits for the buses and the row is closed by other requests.             *)
RowsOpen ==
    \A b \in Banks :
      /\ bank[b].cur # None /\ bank[b].state \in {"data", "data_wait"} => rowOf(bank[b].cur) = bank[b].row
      /\ Entries(bank[b]) <= BufferSize

(* Every request the router delivers is answered or freed.  (FR-FCFS makes  *)
(* no such promise: row hits can overtake a request for ever.)              *)
EveryRequestDone ==
    \A q \in Reqs : (policy # "FRFCFS" /\ q \in Everywhere) ~> q \notin Everywhere
=============================================================================
