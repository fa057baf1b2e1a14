---------------------------- MODULE CorePipeline ----------------------------
(***************************************************************************)
(* The pipeline of one MacSim core: fetch, rename (the dependence map),    *)
(* allocate, schedule, execute and retire, for the out-of-order and the    *)
(* in-order CPU core ("ooo", "io") and for the GPU core ("smc").           *)
(*                                                                         *)
(* As core_c::run_a_cycle does, a cycle runs the stages backwards, and a   *)
(* stage is a loop: one action is one turn of it.  Uops are objects of a   *)
(* pool that is a stack, and every pointer between uops (the sources of a  *)
(* uop, the register map, the store hash, m_last_dep_exec, a stale slot of *)
(* the reorder buffer) is kept when its object is freed and taken again.   *)
(* A cycle number is kept as the cycles that are left until it: Unset is   *)
(* the 0 that m_done_cycle has before execution, 0 is now or the past.     *)
(***************************************************************************)
EXTENDS Integers, Sequences, FiniteSets, SequencesExt, FiniteSetsExt, Lists

CONSTANTS NumObjects,  \* uop objects of the pool: enough to never expand it
          Configs      \* the cores and programs of the instance, each with a bound
                       \* on its cache denials, misses and wrong predictions (trouble)

(* What an instance may be: a core keeps its sizes and limits in knobs; every *)
(* thread has a program, and only a memory uop is split into transactions.  *)
Instructions(c) ==
    [kind : {"int", "fp", "br", "bar", "ld", "st"}, src : Seq(c.regs), dst : SUBSET c.regs,
     addr : Nat, size : Nat, kids : Nat]
ConfigOk(c) ==
    /\ c.kind \in {"ooo", "io", "smc"}
    /\ c.prog \in Seq(Seq(Instructions(c))) /\ c.prog # <<>>
    /\ \A p \in ToSet(c.prog) : \A x \in ToSet(p) : x.kids > 0 => x.kind \in {"ld", "st"}
    /\ c.width \in Nat /\ c.rob \in Nat \ {0} /\ c.list \in Nat \ {0} /\ c.feLatency \in Nat
    /\ c.lb \in Nat /\ c.sb \in Nat /\ c.ints \in Nat /\ c.fps \in Nat
    /\ c.brStall \in BOOLEAN /\ c.extraRecovery \in Nat
    /\ c.hit \in Nat /\ c.latency \in [{"int", "fp", "br", "bar"} -> Nat]

ASSUME PipelineAssumption ==
    /\ NumObjects \in Nat \ {0}
    /\ \A i \in DOMAIN Configs : ConfigOk(Configs[i])

VARIABLES id,       \* the configuration: knobs, and the uops of each thread
          stage,    \* the stage that runs
          loop,     \* its loop: count, position, thread, rest of the work
          uops,     \* the uop objects
          pool,     \* free objects, the next one first
          feq,      \* m_q_frontend
          iaq,      \* allocation queues
          rob,      \* reorder buffers, one for the core or one for each thread
          sched,    \* the scheduler and the execution ports
          map,      \* dependence map of each thread
          threads,  \* fetch state and counters of each thread
          arbiter,  \* m_fetch_arbiter
          sync,     \* barriers: arrivals of each block, and the blocks that are complete
          misses,   \* accesses the memory hierarchy still owes
          trouble   \* events of the bound that are left

vars == <<id, stage, loop, uops, pool, feq, iaq, rob, sched, map, threads,
          arbiter, sync, misses, trouble>>

Objects == 1 .. NumObjects
conf == Configs[id]
Unset == -1
MaxCtr == 1000
Queues == <<"gen", "mem", "fp">>
Tids == 0 .. Len(conf.prog) - 1
Program(t) == conf.prog[t + 1]
Op(o) == Program(uops[o].tid)[uops[o].at]
RobOf(t) == IF conf.kind = "smc" THEN t ELSE 0
Robs == {RobOf(t) : t \in Tids}
Idle == [n |-> 0, at |-> 0, tid |-> -1, todo |-> <<>>]

-----------------------------------------------------------------------------
(* pqueue_c: buckets that age together.  An entry is put into the last one, *)
(* and the queue does not age while the first one still holds entries.      *)
NewQueue(latency) == [i \in 1 .. latency + 1 |-> <<>>]
ready(q) == q[1] # <<>>
entries(q) == FoldSeq(LAMBDA b, n: n + Len(b), 0, q)
enqueue(q, x) == [q EXCEPT ![Len(q)] = Append(@, x)]
dequeue(q) == [q EXCEPT ![1] = Tail(@)]
(* Mutant: the queue ages although its first bucket is in use, which buries the next. *)
advanceAlways(q) == IF entries(q) = 0 THEN q ELSE [Append(Tail(q), <<>>) EXCEPT ![1] = q[1]]
advance(q) == IF entries(q) = 0 \/ ready(q) THEN q ELSE Append(Tail(q), <<>>)

(* uop_c::init.  A free object has the number 0 and is not valid. *)
Blank == [valid |-> FALSE, num |-> 0, tid |-> -1, at |-> 0, done |-> Unset,
          last |-> 0, rdy |-> FALSE, srcs |-> <<>>, q |-> "gen", ins |-> FALSE,
          issued |-> FALSE, mispred |-> FALSE, btbMiss |-> FALSE,
          pending |-> {}, childDone |-> 0, children |-> <<>>]

(* The object behind a pointer; 0 is the simulator's invalid uop. *)
Deref(us, o) == IF o = 0 THEN Blank ELSE us[o]

(* uop_c::free leaves m_done_cycle and the requests for resources alone. *)
Freed(u) == [u EXCEPT !.valid = FALSE, !.num = 0, !.tid = -1]

Quad(a) == a \div 8
Overlap(x, y) == x.addr < y.addr + y.size /\ y.addr < x.addr + x.size
Addresses == UNION {{x.addr : x \in ToSet(p)} : p \in ToSet(conf.prog)}

(* map_data_c::initialize *)
NewMap == [reg |-> [r \in conf.regs |-> [o |-> 0, num |-> 0]],
           store |-> [a \in Addresses |-> 0]]

NewRob == [slot |-> [i \in 0 .. 2 * conf.rob - 1 |-> 0], first |-> 0, last |-> 0,
           free |-> conf.rob, st |-> conf.sb, ld |-> conf.lb,
           int |-> conf.ints, fp |-> conf.fps]

NewSched == [list |-> [i \in 0 .. conf.list - 1 |-> <<>>], first |-> 0, last |-> 0,
             num |-> 0, per |-> [q \in ToSet(Queues) |-> 0], next |-> 0,
             used |-> [q \in ToSet(Queues) |-> 0]]

NewThread == [next |-> 1, num |-> 0, ready |-> TRUE, wait |-> FALSE, recovery |-> 0,
              redirect |-> 0, brWait |-> FALSE, loads |-> {}, blocked |-> FALSE,
              dispatch |-> 0, retired |-> 0, reachEnd |-> FALSE]

fetch_ended(t) == threads[t].next > Len(Program(t))

Init ==
    /\ id \in DOMAIN Configs
    /\ stage = "memory" /\ loop = Idle
    /\ uops = [o \in Objects |-> Blank]
    /\ pool = [i \in Objects |-> i]
    /\ feq = NewQueue(conf.feLatency)
    /\ iaq = [q \in ToSet(Queues) |-> NewQueue(0)]
    /\ rob = [r \in Robs |-> NewRob]
    /\ sched = NewSched
    /\ map = [t \in Tids |-> NewMap]
    /\ threads = [t \in Tids |-> NewThread]
    /\ arbiter = 0
    /\ sync = [count |-> [b \in ToSet(conf.block) |-> 0], complete |-> <<>>]
    /\ misses = {} /\ trouble = conf.trouble

-----------------------------------------------------------------------------
(* Callbacks of the memory hierarchy, before the core runs: done_cycle is   *)
(* the core's old cycle number plus 1, so the uop is done in this cycle.    *)
Complete(o, us) == [us EXCEPT ![o].done = 0]

set_load_ready(t, num) == [threads EXCEPT ![t].loads = @ \ {num}]

ParentDone(m) == uops[m.o].childDone + 1 = Len(uops[m.o].children)

Answer(m) ==
    /\ stage = "memory"
    /\ misses' = misses \ {m}
    /\ LET finished == m.child = 0 \/ ParentDone(m)
           us == IF m.child = 0 THEN uops ELSE [uops EXCEPT ![m.o].childDone = @ + 1]
       IN /\ uops' = IF finished THEN Complete(m.o, us) ELSE us
          /\ threads' = IF finished THEN set_load_ready(uops[m.o].tid, uops[m.o].num)
                        ELSE threads
    /\ UNCHANGED <<id, stage, loop, pool, feq, iaq, rob, sched, map, arbiter, sync, trouble>>

AnswerData == \E m \in misses : Answer(m)

AnswerFetch ==
    /\ stage = "memory"
    /\ \E t \in Tids :
         /\ ~threads[t].ready
         /\ threads' = [threads EXCEPT ![t].ready = TRUE]
    /\ UNCHANGED <<id, stage, loop, uops, pool, feq, iaq, rob, sched, map, arbiter, sync, misses, trouble>>

(* A GPU core collects the threads whose oldest uop is done before it retires them. *)
Retireable(r) ==
    /\ rob[r].free < conf.rob
    /\ uops[rob[r].slot[rob[r].first]].done = 0

get_n_uops_in_ready_order == Kept([i \in 1 .. Len(conf.prog) |-> i - 1], {r \in Robs : Retireable(r)})

RunCore ==
    /\ stage = "memory" /\ stage' = "retire"
    /\ loop' = [Idle EXCEPT !.todo = IF conf.kind = "smc"
                                      THEN get_n_uops_in_ready_order
                                      ELSE [i \in 1 .. conf.width |-> 0]]
    /\ UNCHANGED <<id, uops, pool, feq, iaq, rob, sched, map, threads, arbiter, sync, misses, trouble>>

-----------------------------------------------------------------------------
(* retire_c *)

(* map_c::delete_store_hash_entry *)
delete_store_hash_entry(o) ==
    LET t == uops[o].tid IN
    IF Op(o).kind = "st" /\ map[t].store[Op(o).addr] = o
    THEN [map EXCEPT ![t].store[Op(o).addr] = 0]
    ELSE map

(* The buffer or register a uop takes: allocate_c reads the same from the type. *)
Resource(o) == Op(o).kind
Resources == {"ld", "st", "int", "fp"}

(* Mutant: the load buffer is not given back. *)
PoppedKept(r, o) ==
    LET p == [rob[r] EXCEPT !.first = (@ + 1) % (2 * conf.rob), !.free = @ + 1]
    IN IF Resource(o) \in {"st", "int", "fp"} THEN [p EXCEPT ![Resource(o)] = @ + 1] ELSE p

Popped(r, o) ==
    LET p == [rob[r] EXCEPT !.first = (@ + 1) % (2 * conf.rob), !.free = @ + 1]
    IN IF Resource(o) \in Resources THEN [p EXCEPT ![Resource(o)] = @ + 1] ELSE p

(* frontend_c::synch_thread *)
synch_thread(b) ==
    LET n == sync.count[b] + 1 IN
    [count |-> [sync.count EXCEPT ![b] = n],
     complete |-> IF n = Cardinality({t \in Tids : conf.block[t + 1] = b})
                  THEN Append(sync.complete, b) ELSE sync.complete]

Retire ==
    /\ stage = "retire" /\ loop.todo # <<>>
    /\ LET r == Head(loop.todo)
           o == rob[r].slot[rob[r].first]
           t == uops[o].tid
           lastUop == uops[o].at = Len(Program(t))
       IN /\ Retireable(r)
          /\ rob' = [rob EXCEPT ![r] = Popped(r, o)]
          /\ sync' = IF Op(o).kind = "bar" THEN synch_thread(conf.block[t + 1]) ELSE sync
          /\ threads' = [threads EXCEPT ![t].retired = @ + 1, ![t].reachEnd = lastUop]
          /\ map' = IF lastUop THEN [map EXCEPT ![t] = NewMap] ELSE delete_store_hash_entry(o)
          /\ uops' = [x \in Objects |-> IF x = o \/ x \in ToSet(uops[o].children)
                                        THEN Freed(uops[x]) ELSE uops[x]]
          /\ pool' = <<o>> \o Reverse(uops[o].children) \o pool
          /\ loop' = [loop EXCEPT !.todo = Tail(@)]
    /\ UNCHANGED <<id, stage, feq, iaq, sched, arbiter, misses, trouble>>

RetireDone ==
    /\ stage = "retire"
    /\ loop.todo # <<>> => ~Retireable(Head(loop.todo))
    /\ stage' = "schedule"
    /\ loop' = [Idle EXCEPT !.at = sched.first]
    /\ sched' = [sched EXCEPT !.used = [q \in ToSet(Queues) |-> 0]]
    /\ UNCHANGED <<id, uops, pool, feq, iaq, rob, map, threads, arbiter, sync, misses, trouble>>

-----------------------------------------------------------------------------
(* The schedulers.  An entry of the list is a reorder buffer and a slot of it. *)
At(e) == rob[e[1]].slot[e[2]]

(* Mutant: a source that was never executed counts as done. *)
NotDoneStarted(o) == uops[o].done > 0

(* schedule_c::check_srcs: the first source that is valid and not done. *)
Live(u, s) ==
    LET p == Deref(uops, s.o) IN p.valid /\ p.num = s.num /\ p.tid = u.tid
NotDone(o) == uops[o].done # 0
Waiting(u) == {i \in DOMAIN u.srcs : Live(u, u.srcs[i]) /\ NotDone(u.srcs[i].o)}
check_srcs(u) == u.rdy \/ Waiting(u) = {}

(* m_last_dep_exec moves to the m_done_cycle of the source that was not done. *)
Remember(u) ==
    LET s == u.srcs[Min(Waiting(u))].o IN
    IF u.last = 0 \/ uops[u.last].done < uops[s].done THEN [u EXCEPT !.last = s] ELSE u

StillWaits(u) == ~u.rdy /\ u.last # 0 /\ uops[u.last].done > 0

port_available(q) == sched.used[q] < conf.ports[q]

Fails(o) ==
    LET u == uops[o] IN
    \/ StillWaits(u)
    \/ ~check_srcs(u)
    \/ ~port_available(u.q)

AfterFailure(o) ==
    LET u == uops[o] IN
    IF StillWaits(u) THEN uops
    ELSE [uops EXCEPT ![o] = IF check_srcs(u) THEN [u EXCEPT !.rdy = TRUE] ELSE Remember(u)]

Outcomes == IF trouble > 0 THEN {"hit", "miss", "denied"} ELSE {"hit"}

(* Mutant: a misfetched branch is left to the decode stage. *)
br_execDecode(o, ts) ==
    IF Op(o).kind # "br" THEN ts
    ELSE [ts EXCEPT ![uops[o].tid].recovery = IF uops[o].mispred THEN 1 + conf.extraRecovery ELSE @,
                    ![uops[o].tid].brWait = FALSE]

(* exec_c::br_exec *)
br_exec(o, ts) ==
    LET t == uops[o].tid
        r == 1 + conf.extraRecovery
    IN IF Op(o).kind # "br" THEN ts
       ELSE [ts EXCEPT ![t].recovery = IF uops[o].mispred THEN r ELSE @,
                       ![t].redirect = IF uops[o].btbMiss THEN r ELSE @,
                       ![t].brWait = FALSE]

(* exec_c::exec for the accesses of a uop, itself (0) or its children. *)
Accesses(o) == IF uops[o].children = <<>> THEN {0} ELSE uops[o].pending
IsMemory(o) == Op(o).kind \in {"ld", "st"}
With(out, a) == {c \in DOMAIN out : out[c] = a}

Executes(o, out) == With(out, "denied") = {}

get_latency(kind) == conf.latency[kind]

(* done cycle: all that was accessed hit; 0 children left; or a computation. *)
Latency(o, out) ==
    IF ~IsMemory(o) THEN get_latency(Op(o).kind)
    ELSE IF With(out, "miss") = {} /\ (uops[o].children # <<>> =>
                uops[o].childDone + Cardinality(DOMAIN out) = Len(uops[o].children))
    THEN conf.hit ELSE Unset

Accessed(o, out) ==
    LET u == [uops[o] EXCEPT !.rdy = TRUE] IN
    IF uops[o].children = <<>> THEN u
    ELSE [u EXCEPT !.pending = With(out, "denied"),
                   !.childDone = @ + Cardinality(With(out, "hit"))]

Executed(o, out) ==
    [Accessed(o, out) EXCEPT !.ins = FALSE, !.issued = TRUE, !.done = Latency(o, out)]

use_port(o) == [sched.used EXCEPT ![uops[o].q] = @ + 1]

(* uop_schedule succeeded: the uop leaves the scheduler. *)
Leave(o) == [sched EXCEPT !.num = @ - 1, !.per[uops[o].q] = @ - 1, !.used = use_port(o)]

(* The pointer to the front of the list follows its front entry. *)
Next1(i) == (i + 1) % conf.list

(* frontend_c::set_load_wait: the thread is not fetched until the access is answered. *)
set_load_wait(o, ts) == [ts EXCEPT ![uops[o].tid].loads = @ \cup {uops[o].num}]
LoadStalls(o, out) == conf.loadStall /\ IsMemory(o) /\ Latency(o, out) = Unset

Issue(o, success) ==
    /\ ~Fails(o)
    /\ \E out \in [IF IsMemory(o) THEN Accesses(o) ELSE {} -> Outcomes] :
         LET bad == Cardinality(With(out, "denied")) + Cardinality(With(out, "miss"))
             t == uops[o].tid
         IN /\ bad <= trouble
            /\ trouble' = trouble - bad
            /\ success = Executes(o, out)
            /\ misses' = misses \cup {[o |-> o, child |-> c] : c \in With(out, "miss")}
            /\ IF success
               THEN /\ uops' = [uops EXCEPT ![o] = Executed(o, out)]
                    /\ LET ts == [threads EXCEPT ![t].dispatch = @ - 1]
                       IN threads' = br_exec(o, IF LoadStalls(o, out) THEN set_load_wait(o, ts) ELSE ts)
               ELSE /\ uops' = [uops EXCEPT ![o] = Accessed(o, out)]
                    /\ threads' = threads

Refuse(o) ==
    /\ Fails(o)
    /\ uops' = AfterFailure(o)
    /\ UNCHANGED <<threads, misses, trouble>>

(* schedule_ooo_c and schedule_smc_c: every entry of the list is tried in   *)
(* turn, up to the width, or to the number of warp schedulers.              *)
IssueLimit == IF conf.kind = "smc" THEN conf.warps ELSE conf.width
Scanning ==
    /\ stage = "schedule" /\ conf.kind # "io"
    /\ loop.at # sched.last /\ sched.num > 0 /\ loop.n < IssueLimit

ScanHole ==
    /\ Scanning /\ sched.list[loop.at] = <<>>
    /\ sched' = [sched EXCEPT !.first = IF @ = loop.at THEN Next1(@) ELSE @]
    /\ loop' = [loop EXCEPT !.at = Next1(@)]
    /\ UNCHANGED <<id, stage, uops, pool, feq, iaq, rob, map, threads, arbiter, sync, misses, trouble>>

ScanIssue ==
    /\ Scanning /\ sched.list[loop.at] # <<>>
    /\ LET e == sched.list[loop.at] IN
       \/ /\ Issue(At(e), TRUE)
          /\ sched' = [Leave(At(e)) EXCEPT !.list[loop.at] = <<>>,
                                           !.first = IF @ = loop.at THEN Next1(@) ELSE @]
          /\ loop' = [loop EXCEPT !.at = Next1(@), !.n = @ + 1]
       \/ /\ Issue(At(e), FALSE) \/ Refuse(At(e))
          /\ loop' = [loop EXCEPT !.at = Next1(@)]
          /\ UNCHANGED sched
    /\ UNCHANGED <<id, stage, pool, feq, iaq, rob, map, arbiter, sync>>

(* Mutant: a uop that still is in its allocation queue is passed over. *)
InOrderSlotAny ==
    LET ins == {i \in 0 .. 2 * conf.rob - 1 : rob[0].slot[i] # 0 /\ uops[rob[0].slot[i]].ins}
    IN IF ins = {} THEN sched.next ELSE Min(ins)

(* schedule_io_c: the next uop in the order of the reorder buffer, or none. *)
InOrderSlot == sched.next
TakesInOrder ==
    /\ stage = "schedule" /\ conf.kind = "io"
    /\ sched.num > 0 /\ loop.n < conf.width
    /\ rob[0].slot[InOrderSlot] # 0 /\ uops[rob[0].slot[InOrderSlot]].ins

InOrderIssue ==
    /\ TakesInOrder
    /\ LET o == rob[0].slot[InOrderSlot] IN
       /\ Issue(o, TRUE)
       /\ sched' = [Leave(o) EXCEPT !.first = Next1(@), !.next = (InOrderSlot + 1) % (2 * conf.rob)]
    /\ loop' = [loop EXCEPT !.n = @ + 1]
    /\ UNCHANGED <<id, stage, pool, feq, iaq, rob, map, arbiter, sync>>

InOrderStop ==
    /\ TakesInOrder
    /\ LET o == rob[0].slot[InOrderSlot] IN Issue(o, FALSE) \/ Refuse(o)
    /\ stage' = "advance" /\ loop' = [Idle EXCEPT !.todo = Queues]
    /\ UNCHANGED <<id, pool, feq, iaq, rob, sched, map, arbiter, sync>>

ScheduleDone ==
    /\ stage = "schedule" /\ ~Scanning /\ ~TakesInOrder
    /\ stage' = "advance" /\ loop' = [Idle EXCEPT !.todo = Queues]
    /\ UNCHANGED <<id, uops, pool, feq, iaq, rob, sched, map, threads, arbiter, sync, misses, trouble>>

(* schedule_c::advance: from an allocation queue to the list. *)
Moves ==
    /\ ready(iaq[Head(loop.todo)])
    /\ Next1(sched.last) # sched.first
    /\ LET u == uops[At(Head(iaq[Head(loop.todo)][1]))] IN
       /\ loop.n < conf.ports[u.q]
       /\ sched.per[u.q] < conf.schedSize[u.q]

Advance ==
    /\ stage = "advance" /\ loop.todo # <<>> /\ Moves
    /\ LET q == Head(loop.todo)
           e == Head(iaq[q][1])
       IN /\ iaq' = [iaq EXCEPT ![q] = dequeue(@)]
          /\ uops' = [uops EXCEPT ![At(e)].ins = TRUE]
          /\ sched' = [sched EXCEPT !.list[sched.last] = e, !.last = Next1(@),
                                    !.num = @ + 1, !.per[uops[At(e)].q] = @ + 1]
    /\ loop' = [loop EXCEPT !.n = @ + 1]
    /\ UNCHANGED <<id, stage, pool, feq, rob, map, threads, arbiter, sync, misses, trouble>>

AdvanceDone ==
    /\ stage = "advance"
    /\ loop.todo # <<>> => ~Moves
    /\ IF Len(loop.todo) > 1
       THEN stage' = stage /\ loop' = [Idle EXCEPT !.todo = Tail(loop.todo)]
       ELSE stage' = "allocate" /\ loop' = Idle
    /\ UNCHANGED <<id, uops, pool, feq, iaq, rob, sched, map, threads, arbiter, sync, misses, trouble>>

-----------------------------------------------------------------------------
(* allocate_c and smc_allocate_c *)
QueueOf(o) ==
    IF conf.kind = "smc" THEN "gen"
    ELSE CASE Op(o).kind = "fp" -> "fp" [] IsMemory(o) -> "mem" [] OTHER -> "gen"

HasSpace(o) ==
    LET r == rob[RobOf(uops[o].tid)] IN
    /\ r.free > 0
    /\ Resource(o) \in Resources => r[Resource(o)] > 0
    /\ entries(iaq[QueueOf(o)]) < conf.iaqSize[QueueOf(o)]

Allocates == ready(feq) /\ loop.n < conf.width /\ HasSpace(Head(feq[1]))

(* rob_c::push, and the buffer or register of the uop. *)
Pushed(r, o) ==
    LET p == [r EXCEPT !.slot[r.last] = o, !.last = (@ + 1) % (2 * conf.rob), !.free = @ - 1]
    IN IF Resource(o) \in Resources THEN [p EXCEPT ![Resource(o)] = @ - 1] ELSE p

Allocate ==
    /\ stage = "allocate" /\ Allocates
    /\ LET o == Head(feq[1])
           i == RobOf(uops[o].tid)
       IN /\ rob' = [rob EXCEPT ![i] = Pushed(@, o)]
          /\ iaq' = [iaq EXCEPT ![QueueOf(o)] = enqueue(@, <<i, rob[i].last>>)]
          /\ uops' = [uops EXCEPT ![o].q = QueueOf(o)]
    /\ feq' = dequeue(feq)
    /\ loop' = [loop EXCEPT !.n = @ + 1]
    /\ UNCHANGED <<id, stage, pool, sched, map, threads, arbiter, sync, misses, trouble>>

AllocateDone ==
    /\ stage = "allocate" /\ ~Allocates
    /\ stage' = "frontend" /\ loop' = Idle
    /\ UNCHANGED <<id, uops, pool, feq, iaq, rob, sched, map, threads, arbiter, sync, misses, trouble>>

-----------------------------------------------------------------------------
(* frontend_c *)
last_terminated_tid == Cardinality({t \in Tids : \A s \in 0 .. t : threads[s].reachEnd})
TurnAfter(a) ==
    LET n == (a + 1) % Cardinality(Tids) IN
    IF n < last_terminated_tid THEN last_terminated_tid ELSE n

(* The line of the next instruction is there; no load and no branch keeps the thread back. *)
check_fetch_ready(t) == threads[t].ready
check_load_ready(t) == threads[t].loads = {}
check_br_ready(t) == ~threads[t].brWait

CanFetch(t) ==
    /\ ~fetch_ended(t) /\ ~threads[t].reachEnd /\ ~threads[t].blocked
    /\ conf.noFetchOnMiss => check_fetch_ready(t)
    /\ check_br_ready(t)
    /\ check_load_ready(t)

Tries == Cardinality(Tids) - last_terminated_tid
Turn[k \in 0 .. Cardinality(Tids)] == IF k = 0 THEN arbiter ELSE TurnAfter(Turn[k - 1])
Chosen == {k \in 0 .. Tries - 1 : CanFetch(Turn[k])}

Fetching == \E t \in Tids : ~fetch_ended(t)

(* fetch_rr found a thread that was not fetched in this cycle yet. *)
Selects ==
    /\ loop.n < conf.warps
    /\ Fetching
    /\ Chosen # {} /\ Turn[Min(Chosen)] # loop.tid

Recovering(t) == threads[t].recovery > 0 \/ threads[t].redirect > 0

fetch_rr ==
    /\ stage = "frontend" /\ Selects
    /\ LET k == Min(Chosen)
           t == Turn[k]
           space == conf.feSize - entries(feq) > conf.fetchWidth
       IN /\ arbiter' = Turn[k + 1]
          /\ loop' = [loop EXCEPT !.n = @ + 1, !.tid = t, !.at = 0]
          /\ \/ (* no space, the branch is not resolved, or the line is not there yet *)
                /\ ~space \/ (~threads[t].wait /\ Recovering(t)) \/ (threads[t].wait /\ ~threads[t].ready)
                /\ UNCHANGED <<stage, threads, trouble>>
             \/ (* FRONTEND_MODE_WAIT_FOR_MISS ends *)
                /\ space /\ threads[t].wait /\ threads[t].ready
                /\ threads' = [threads EXCEPT ![t].wait = FALSE]
                /\ UNCHANGED <<stage, trouble>>
             \/ (* the instruction cache misses *)
                /\ space /\ ~threads[t].wait /\ ~Recovering(t) /\ trouble > 0
                /\ threads' = [threads EXCEPT ![t].wait = TRUE, ![t].ready = FALSE]
                /\ trouble' = trouble - 1
                /\ UNCHANGED stage
             \/ /\ space /\ ~threads[t].wait /\ ~Recovering(t)
                /\ stage' = "fetch"
                /\ UNCHANGED <<threads, trouble>>
    /\ UNCHANGED <<id, uops, pool, feq, iaq, rob, sched, map, sync, misses>>

(* map_c::add_store_deps: the stores of the quadword that are not retired.  *)
(* add_src_from_uop takes the number behind a source's pointer for the      *)
(* source's number, so a source whose object the store has taken hides it.  *)
add_src_from_uop(us, srcs, s) ==
    IF \E i \in DOMAIN srcs : Deref(us, srcs[i].o).num = us[s].num THEN srcs
    ELSE Append(srcs, [o |-> s, num |-> us[s].num])

Stores(t, x) == {a \in Addresses : Quad(a) = Quad(x.addr) /\ map[t].store[a] # 0}

add_store_deps(us, t, x, srcs) ==
    LET found == Stores(t, x)
        store(a) == map[t].store[a]
        bytes == [i \in 1 .. 8 |-> 8 * Quad(x.addr) + i - 1]
        overlapping == {a \in found : Overlap(Op(store(a)), x)}
        Later(a, b) == uops[store(b)].num < uops[store(a)].num
        latest == {a \in overlapping : uops[store(a)].num > 0
                     /\ \A b \in overlapping \ {a} : Later(a, b) \/ (~Later(b, a) /\ a < b)}
        taken == IF conf.oooStores THEN overlapping ELSE latest
    IN IF found = {x.addr} THEN add_src_from_uop(us, srcs, store(x.addr))
       ELSE FoldLeft(LAMBDA s, a: add_src_from_uop(us, s, store(a)), srcs, Kept(bytes, taken))

(* The uop that wrote the register last, by pointer and number. *)
add_src_from_map_entry(t, register) == map[t].reg[register]

map_mem_dep(us, t, x, srcs) == IF x.kind = "ld" THEN add_store_deps(us, t, x, srcs) ELSE srcs

(* map_c::read_reg_map and read_store_map: m_last_store is never written. *)
Sources(us, t, x) ==
    LET regs == [i \in DOMAIN x.src |-> add_src_from_map_entry(t, x.src[i])]
        base == IF x.kind \in {"ld", "st"} /\ ~conf.oooStores
                THEN Append(regs, [o |-> 0, num |-> 0]) ELSE regs
    IN map_mem_dep(us, t, x, base)

update_map(t, x, o, num) ==
    [map EXCEPT ![t].reg = [r \in conf.regs |-> IF r \in x.dst THEN [o |-> o, num |-> num] ELSE @[r]]]

(* The place of the first byte in the store hash belongs to the new store.  *)
update_store_hash(maps, t, x, o) ==
    IF x.kind = "st" THEN [maps EXCEPT ![t].store[x.addr] = o] ELSE maps

(* The uop and the child uops of an access that takes several transactions. *)
Allocated(t, x, o, kids) ==
    LET u == [Blank EXCEPT !.valid = TRUE, !.num = threads[t].num, !.tid = t] IN
    [c \in Objects |->
       IF c = o THEN [u EXCEPT !.at = threads[t].next, !.pending = 1 .. x.kids, !.children = kids]
       ELSE IF c \in ToSet(kids) THEN [u EXCEPT !.num = @ + CHOOSE i \in 1 .. x.kids : kids[i] = c]
       ELSE uops[c]]

(* The direction and the target that are predicted for a branch may be      *)
(* wrong; a core that stalls on branches predicts neither and waits.        *)
Predicted(x) == x.kind = "br" /\ ~conf.brStall
predict_bpu(x) == IF Predicted(x) /\ trouble > 0 THEN BOOLEAN ELSE {FALSE}
btb_access(x) == IF Predicted(x) /\ trouble > 0 THEN BOOLEAN ELSE {FALSE}
set_br_wait(x) == x.kind = "br" /\ conf.brStall

send_uop_to_qfe(o) == enqueue(feq, o)

Fetch ==
    /\ stage = "fetch"
    /\ loop.at < conf.width /\ entries(feq) < conf.feSize /\ ~fetch_ended(loop.tid)
    /\ Len(pool) > Program(loop.tid)[threads[loop.tid].next].kids
    /\ LET t == loop.tid
           f == threads[t]
           x == Program(t)[f.next]
           o == Head(pool)
           us == Allocated(t, x, o, SubSeq(pool, 2, x.kids + 1))
       IN \E mispred \in predict_bpu(x), btbMiss \in btb_access(x) :
          /\ trouble' = IF mispred \/ btbMiss THEN trouble - 1 ELSE trouble
          /\ uops' = [us EXCEPT ![o].srcs = Sources(us, t, x), ![o].mispred = mispred, ![o].btbMiss = btbMiss]
          /\ pool' = SubSeq(pool, x.kids + 2, Len(pool))
          /\ map' = update_store_hash(update_map(t, x, o, f.num), t, x, o)
          /\ threads' = [threads EXCEPT ![t].next = @ + 1, ![t].num = @ + 1 + x.kids,
                           ![t].dispatch = @ + 1,
                           ![t].blocked = @ \/ x.kind = "bar",
                           ![t].recovery = IF mispred THEN MaxCtr ELSE @,
                           ![t].redirect = IF btbMiss /\ ~mispred THEN MaxCtr ELSE @,
                           ![t].brWait = @ \/ set_br_wait(x)]
          /\ feq' = send_uop_to_qfe(o)
    /\ loop' = [loop EXCEPT !.at = @ + 1]
    /\ UNCHANGED <<id, stage, iaq, rob, sched, arbiter, sync, misses>>

(* A thread that has ended in this group still acquires and frees an object. *)
FetchDone ==
    /\ stage = "fetch"
    /\ loop.at >= conf.width \/ entries(feq) >= conf.feSize \/ fetch_ended(loop.tid)
    /\ stage' = "frontend"
    /\ uops' = IF loop.at < conf.width /\ entries(feq) < conf.feSize /\ pool # <<>>
               THEN [uops EXCEPT ![Head(pool)] = Blank] ELSE uops
    /\ UNCHANGED <<id, loop, pool, feq, iaq, rob, sched, map, threads, arbiter, sync, misses, trouble>>

(* The end of the cycle: complete barriers (if a thread still fetches), the *)
(* queues age, and every cycle that was awaited comes nearer.               *)
Released(t) ==
    /\ conf.block[t + 1] \in ToSet(sync.complete) /\ ~fetch_ended(t) /\ ~threads[t].reachEnd

Nearer(c) == IF c \in 1 .. MaxCtr - 1 THEN c - 1 ELSE c

EndCycle ==
    /\ stage = "frontend" /\ ~Selects
    /\ stage' = "memory" /\ loop' = Idle
    /\ arbiter' = IF loop.n = conf.warps \/ ~Fetching THEN arbiter
                  ELSE IF Chosen = {} THEN Turn[Tries] ELSE Turn[Min(Chosen) + 1]
    /\ threads' = [t \in Tids |-> [threads[t] EXCEPT !.recovery = Nearer(@), !.redirect = Nearer(@),
                                     !.blocked = @ /\ ~Released(t)]]
    /\ sync' = IF Fetching \/ loop.n > 0
               THEN [count |-> [b \in DOMAIN sync.count |->
                                  IF b \in ToSet(sync.complete) THEN 0 ELSE sync.count[b]],
                     complete |-> <<>>]
               ELSE sync
    /\ uops' = [o \in Objects |-> [uops[o] EXCEPT !.done = Nearer(@)]]
    /\ feq' = advance(feq)
    /\ iaq' = [q \in DOMAIN iaq |-> advance(iaq[q])]
    /\ UNCHANGED <<id, pool, rob, sched, map, misses, trouble>>

Next ==
    \/ AnswerData \/ AnswerFetch \/ RunCore
    \/ Retire \/ RetireDone
    \/ ScanHole \/ ScanIssue \/ InOrderIssue \/ InOrderStop \/ ScheduleDone
    \/ Advance \/ AdvanceDone \/ Allocate \/ AllocateDone
    \/ fetch_rr \/ Fetch \/ FetchDone \/ EndCycle

(* The simulator calls the core in every cycle, and the memory hierarchy    *)
(* answers what it owes (EveryAccessServed of MemoryHierarchy).             *)
Fairness ==
    /\ WF_vars(Next)
    /\ SF_vars(AnswerData)
    /\ SF_vars(AnswerFetch)

Spec == Init /\ [][Next]_vars /\ Fairness

-----------------------------------------------------------------------------
InRob(r) == [i \in 1 .. (rob[r].last - rob[r].first + 2 * conf.rob) % (2 * conf.rob) |->
               rob[r].slot[(rob[r].first + i - 1) % (2 * conf.rob)]]
Uops(t) == {o \in Objects : uops[o].valid /\ uops[o].at > 0 /\ uops[o].tid = t}
AllUops == UNION {Uops(t) : t \in Tids}

(* Every counter agrees with the uops in flight, through reuse of objects   *)
(* and slots: the free entries, buffers and registers of a reorder buffer,  *)
(* the uops in the scheduler and in its list, and the uops of a thread that *)
(* are still to be dispatched (m_ops_to_be_dispatched).                     *)
Limit(k) == CASE k = "ld" -> conf.lb [] k = "st" -> conf.sb [] k = "int" -> conf.ints [] k = "fp" -> conf.fps
Listed == {i \in 0 .. conf.list - 1 : sched.list[i] # <<>>}
ResourcesExact ==
    /\ \A r \in Robs :
         /\ rob[r].free = conf.rob - Len(InRob(r))
         /\ \A k \in Resources :
              rob[r][k] = Limit(k) - Cardinality({i \in DOMAIN InRob(r) : Resource(InRob(r)[i]) = k})
    /\ sched.num = Cardinality({o \in AllUops : uops[o].ins})
    /\ \A q \in ToSet(Queues) : sched.per[q] = Cardinality({o \in AllUops : uops[o].ins /\ uops[o].q = q})
    /\ conf.kind # "io" => {At(sched.list[i]) : i \in Listed} = {o \in AllUops : uops[o].ins}
    /\ \A t \in Tids : threads[t].dispatch = Cardinality({o \in Uops(t) : ~uops[o].issued})

(* The uops of a thread that are in flight, oldest first in the reorder     *)
(* buffer and then in the frontend queue, are exactly those of the trace    *)
(* between the last retired and the last fetched one: none is lost,         *)
(* duplicated or overtaken, and retirement is in program order.             *)
ProgramOrder ==
    \A t \in Tids :
      LET flight == InRob(RobOf(t)) \o FlattenSeq(feq)
          mine == Kept(flight, {o \in Objects : uops[o].tid = t})
      IN [i \in DOMAIN mine |-> uops[mine[i]].at]
           = [i \in 1 .. threads[t].next - 1 - threads[t].retired |-> threads[t].retired + i]

(* What an issue must wait for: the latest earlier writer of each source    *)
(* register, and for a load the latest earlier store to one of its bytes.   *)
Latest(js) == IF js = {} THEN {} ELSE {Max(js)}
Writers(t, i) ==
    UNION {Latest({j \in 1 .. i - 1 : r \in Program(t)[j].dst}) : r \in ToSet(Program(t)[i].src)}
StoreBefore(t, i) ==
    IF Program(t)[i].kind # "ld" THEN {}
    ELSE Latest({j \in 1 .. i - 1 : Program(t)[j].kind = "st" /\ Overlap(Program(t)[j], Program(t)[i])})
Finished(t, j) == j <= threads[t].retired \/ \E p \in Uops(t) : uops[p].at = j /\ uops[p].done = 0
Issues(o) == uops[o].ins /\ ~uops'[o].ins

(* A uop is executed only when the uops that write its source registers are *)
(* done, however often the objects its sources point to were reused.        *)
RegisterOrder ==
    [][\A o \in Objects : Issues(o) =>
         \A j \in Writers(uops[o].tid, uops[o].at) : Finished(uops[o].tid, j)]_vars

(* A load is executed only when the store it reads from is done.            *)
StoreOrder ==
    [][\A o \in Objects : Issues(o) =>
         \A j \in StoreBefore(uops[o].tid, uops[o].at) : Finished(uops[o].tid, j)]_vars

OldestFirst(o) == \A p \in Uops(uops[o].tid) : uops[p].at < uops[o].at => uops[p].issued

(* The in-order core starts the uops of a thread in program order, although *)
(* the allocation queues deliver them in another.                           *)
IssuesInOrder == [][conf.kind = "io" => \A o \in Objects : Issues(o) => OldestFirst(o)]_vars

(* The GPU core does so within a thread.                                    *)
WarpInOrder == [][conf.kind = "smc" => \A o \in Objects : Issues(o) => OldestFirst(o)]_vars

(* Every thread reaches its end: no stage waits for ever for space, ports,  *)
(* sources, a branch, a barrier or a memory access.                         *)
EveryUopRetires == <>(\A t \in Tids : threads[t].reachEnd)
=============================================================================
