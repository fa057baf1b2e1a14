--------------------------- MODULE ProcessManager ---------------------------
(***************************************************************************)
(* Processes, threads and thread blocks of MacSim (process_manager.cc),    *)
(* their way onto cores and off them again (the retire stage, read_trace)  *)
(* and the loop that decides when the simulation is over                   *)
(* (macsim_c::run_a_cycle).                                                *)
(*                                                                         *)
(* The simulator is one sequential program, so its state is one record sys *)
(* and a function that changes it is an operator from such records to such *)
(* records.  What a core does with an instruction between fetch and retire *)
(* takes any time; a core keeps only the order of its reorder buffer.      *)
(***************************************************************************)
EXTENDS Integers, Sequences, FiniteSets
LOCAL INSTANCE FiniteSetsExt
LOCAL INSTANCE TLC

CONSTANTS
  Scenarios,  \* [apps, cores, maxThreads, maxBlock, maxInsts, uops, repeat,
              \*  repeatN, coresPerAppl, gpuSched]: the traces and the knobs.
              \* apps[a] = [ptx, kernels], a kernel is a sequence of threads
              \* [block, start, insts]; cores[c] is TRUE for a ptx core
  Processors, \* the cores of the largest scenario
  MaxRepeat,  \* bound: an application that has been repeated so often stands still
  Places      \* 1..n, with n no smaller than the threads of a core and the
              \* uops in flight of any scenario

VARIABLES
  knobs,      \* the scenario
  sys,        \* processes, cores and the counters of macsim_c
  pc          \* where run_a_cycle is: [stage, core, todo]

vars == <<knobs, sys, pc>>

Apps(k) == DOMAIN k.apps
CoreIds(k) == DOMAIN k.cores
Kernel(s, a) == knobs.apps[a].kernels[s.app[a].kernel]
MinNat(a, b) == IF a < b THEN a ELSE b
Last(seq) == seq[Len(seq)]
-----------------------------------------------------------------------------
(* Dispatching threads *)

NoBlock == <<0, 0>>

(* A GPU core with GPU scheduling has a reorder buffer for each thread. *)
OwnRobs(c) == knobs.cores[c] /\ knobs.gpuSched
reserve_rob(s, c) ==
  [s EXCEPT !.core[c].robs = @ - 1, !.fault = @ \/ s.core[c].robs = 0]
free_rob(s, c) == [s EXCEPT !.core[c].robs = @ + 1]

(* core_c::create_trace_info and allocate_thread_data; with GPU scheduling a
   reorder buffer is reserved, and reserve_rob asserts that one is free. *)
create_trace_info(s, c, a, t) ==
  LET slot == [app |-> a, tid |-> t, block |-> <<a, Kernel(s, a)[t].block>>,
               fetched |-> 0, retired |-> 0,
               fetchEnded |-> FALSE, finished |-> FALSE, reachEnd |-> FALSE]
      s1 == IF OwnRobs(c) THEN reserve_rob(s, c) ELSE s
  IN [s1 EXCEPT !.core[c] = [@ EXCEPT !.slots = Append(@, slot),
                                     !.running = @ + 1,
                                     !.appl = a,
                                     !.endTrace = FALSE, !.simEnd = FALSE,
                                     !.started = TRUE]]

(* sim_schedule_thread_block: the block the core goes on with or starts. *)
ContinuedBlock(s, c) ==
  LET b == s.core[c].fetchingBlock
  IN IF b \in DOMAIN s.blk /\ s.blk[b].total > s.blk[b].dispatched THEN b ELSE NoBlock

(* The blocks of the application of the core that wait for one, and at the
   start only those that belong to the core by their number. *)
FreshBlocks(s, c, initial) ==
  LET a == s.core[c].appl
      cores == s.app[a].cores
      first == IF knobs.coresPerAppl = 0 THEN 1 ELSE CHOOSE d \in cores : \A e \in cores : d <= e
  IN IF s.core[c].runningBlocks + 1 > (IF knobs.apps[a].ptx THEN knobs.maxBlock ELSE 0)
     THEN {}
     ELSE {b \in s.app[a].blocks :
             /\ initial => b[2] % Cardinality(cores) = c - first
             /\ ~s.blk[b].started}

StartBlock(s, c, b) ==
  [s EXCEPT !.blk[b].started = TRUE,
            !.core[c].runningBlocks = @ + 1, !.core[c].fetchingBlock = b]

(* fetch_thread / fetch_block and create_thread *)
DispatchFrom(s, c, a, t) == [create_trace_info(s, c, a, t) EXCEPT !.waiting = @ - 1]

RECURSIVE DispatchBlocks(_, _, _)
DispatchBlocks(s, c, initial) ==
  LET on == ContinuedBlock(s, c)
      fresh == FreshBlocks(s, c, initial)
      b == IF on # NoBlock THEN on ELSE CHOOSE x \in fresh : \A y \in fresh : x[2] <= y[2]
      s1 == IF on # NoBlock THEN s ELSE StartBlock(s, c, b)
      s2 == [DispatchFrom(s1, c, b[1], Head(s1.blk[b].queue)) EXCEPT
               !.blk[b].queue = Tail(@), !.blk[b].dispatched = @ + 1]
  IN IF on = NoBlock /\ fresh = {} THEN s
     ELSE IF s1.blk[b].queue = <<>> THEN s1
     ELSE IF s2.core[c].running = knobs.maxThreads THEN s2
     ELSE DispatchBlocks(s2, c, initial)

ScheduleCore(s, c, initial) ==
  IF s.core[c].running >= knobs.maxThreads THEN s
  ELSE IF knobs.cores[c] THEN DispatchBlocks(s, c, initial)
  ELSE IF s.threads = <<>> THEN s
  ELSE [DispatchFrom(s, c, Head(s.threads)[1], Head(s.threads)[2]) EXCEPT !.threads = Tail(@)]

(* sim_thread_schedule: every core in turn *)
sim_thread_schedule(s, initial) ==
  LET after[n \in 0..Cardinality(CoreIds(knobs))] ==
        IF n = 0 THEN s ELSE ScheduleCore(after[n - 1], n, initial)
  IN after[Cardinality(CoreIds(knobs))]
-----------------------------------------------------------------------------
(* Threads and processes come into being *)

(* insert_thread and insert_block *)
NewBlock == [total |-> 0, dispatched |-> 0, retired |-> 0, started |-> FALSE, queue |-> <<>>]

insert_block(s, b, t) ==
  LET old == IF b \in DOMAIN s.blk THEN s.blk[b] ELSE NewBlock
      new == [old EXCEPT !.total = @ + 1, !.queue = Append(@, t)]
  IN [s EXCEPT !.blk = (b :> new) @@ @,
               !.waiting = @ + 1]

insert_thread(s, a, t) == [s EXCEPT !.threads = Append(@, <<a, t>>), !.waiting = @ + 1]

create_thread_node(s, a, t) ==
  LET b == <<a, Kernel(s, a)[t].block>>
      s1 == [s EXCEPT !.app[a].blocks = @ \cup {b}, !.active = @ + 1]
  IN IF knobs.apps[a].ptx THEN insert_block(s1, b, t) ELSE insert_thread(s1, a, t)

(* core_c::init when a process takes a core from the pool *)
TakeCores(s, a) ==
  LET free == s.pool
      n == IF knobs.coresPerAppl = 0 THEN Len(free) ELSE MinNat(Len(free), knobs.coresPerAppl)
      mine == {free[k] : k \in 1..n}
  IN [s EXCEPT !.pool = SubSeq(@, n + 1, Len(@)),
               !.app[a].cores = @ \cup mine,
               !.core = [c \in DOMAIN @ |->
                           IF c \in mine
                           THEN [@[c] EXCEPT !.slots = <<>>, !.running = 0, !.reachEnd = 0,
                                             !.runningBlocks = 0, !.fetchingBlock = NoBlock,
                                             !.appl = a]
                           ELSE @[c]]]

(* The end of setup_process: of the threads only the main one exists yet. *)
MainThread(s, a) ==
  create_thread_node([s EXCEPT !.app[a].created = 1, !.app[a].terminated = 0], a, 1)

setup_process(s, a) ==
  LET s1 == [s EXCEPT !.app[a].kernel = @ + 1]
  IN MainThread(IF knobs.apps[a].ptx THEN TakeCores(s1, a) ELSE s1, a)

create_process(s, a, repeat) ==
  setup_process([s EXCEPT !.app[a] = [@ EXCEPT !.repeat = repeat, !.kernel = 0],
                          !.withoutRepeat = IF repeat = 0 THEN @ + 1 ELSE @], a)

(* read_trace: the main thread of a process brings the others into being when
   it reads the instruction the next one waits for.  The loop goes on looking
   at the thread it started with, so it creates all of them. *)
Awaited(s, a, counts) ==
  LET next == s.app[a].created + 1
  IN /\ next <= Len(Kernel(s, a))
     /\ Kernel(s, a)[next].start \in counts \cup {0}

RECURSIVE CreateRest(_, _)
CreateRest(s, a) ==
  IF s.app[a].created = Len(Kernel(s, a)) THEN s
  ELSE LET s1 == [s EXCEPT !.app[a].created = @ + 1]
       IN CreateRest(sim_thread_schedule(create_thread_node(s1, a, s1.app[a].created), FALSE), a)

(* Mutant: the loop looks at the next thread every time. *)
RECURSIVE CreateEachOf(_, _, _)
CreateEachOf(s, a, counts) ==
  IF ~Awaited(s, a, counts) THEN s
  ELSE LET s1 == [s EXCEPT !.app[a].created = @ + 1]
       IN CreateEachOf(sim_thread_schedule(create_thread_node(s1, a, s1.app[a].created), FALSE),
                       a, counts)
CreateOthersEach(s, a, counts) == CreateEachOf(s, a, counts)

CreateOthers(s, a, counts) == IF Awaited(s, a, counts) THEN CreateRest(s, a) ELSE s
-----------------------------------------------------------------------------
(* Threads and processes end *)

(* The thread's block loses a thread, and is gone with its last one. *)
(* Mutant: the core goes on counting the block. *)
LeaveBlockKept(s, c, b) ==
  LET s1 == [s EXCEPT !.blk[b].retired = @ + 1]
  IN IF s1.blk[b].retired # s1.blk[b].total THEN s1
     ELSE [s1 EXCEPT !.blk = [x \in DOMAIN @ \ {b} |-> @[x]], !.app[b[1]].blocks = @ \ {b}]

LeaveBlock(s, c, b) ==
  LET s1 == [s EXCEPT !.blk[b].retired = @ + 1]
  IN IF s1.blk[b].retired # s1.blk[b].total THEN s1
     ELSE [s1 EXCEPT !.core[c].runningBlocks = @ - 1,
                     !.blk = [x \in DOMAIN @ \ {b} |-> @[x]],
                     !.app[b[1]].blocks = @ \ {b},
                     !.fault = @ \/ s1.core[c].runningBlocks = 0]

final_heartbeat(s) == sim_thread_schedule(s, FALSE)

(* deallocate_thread_data: the reorder buffer of the thread is free again. *)
deallocate_thread_data(s, c) ==
  IF OwnRobs(c) THEN free_rob(s, c) ELSE s

(* terminate_thread: final_heartbeat schedules before the data of the thread
   is given back, and once more if threads wait at the end. *)
terminate_thread(s, c, i) ==
  LET slot == s.core[c].slots[i]
      a == slot.app
      s1 == [s EXCEPT !.core[c] = [@ EXCEPT !.running = @ - 1, !.slots[i].finished = TRUE,
                                            !.endTrace = @ \/ s.core[c].running = 1],
                      !.fault = @ \/ s.core[c].running = 0]
      s2 == deallocate_thread_data(final_heartbeat(s1), c)
      s3 == [s2 EXCEPT !.app[a].terminated = @ + 1, !.active = @ - 1]
      s4 == IF knobs.apps[a].ptx THEN LeaveBlock(s3, c, slot.block)
            ELSE s3
  IN IF s4.waiting > 0 THEN sim_thread_schedule(s4, FALSE) ELSE s4

LastKernel(s, a) == s.app[a].kernel = Len(knobs.apps[a].kernels)

(* terminate_process: the next kernel, or the cores go back to the pool. *)
terminate_process(s, a) ==
  IF ~LastKernel(s, a) THEN setup_process(s, a)
  ELSE LET mine == s.app[a].cores
           order == [n \in 1..Cardinality(mine) |->
                       CHOOSE c \in mine : Cardinality({d \in mine : d < c}) = n - 1]
       IN [s EXCEPT !.pool = @ \o order,
                    !.app[a].cores = {},
                    !.app[a].blocks = {},
                    !.core = [c \in DOMAIN @ |->
                                IF c \in mine THEN [@[c] EXCEPT !.appl = 1] ELSE @[c]]]

(* retire_c::update_stats and repeat_traces *)
update_stats(s, c, a) ==
  LET rep == s.app[a].repeat
      counts == IF knobs.repeat /\ rep < knobs.repeatN /\ knobs.cores[c]
                THEN rep + 1 = knobs.repeatN ELSE rep = 0
  IN [s EXCEPT !.withoutRepeat = IF counts THEN @ - 1 ELSE @]

repeat_traces(s, a) ==
  IF knobs.repeat /\ s.withoutRepeat > 0 THEN create_process(s, a, s.app[a].repeat + 1)
  ELSE [s EXCEPT !.app[a].over = TRUE]

EndOfProcess(s, c, a) ==
  LET s1 == terminate_process(update_stats(s, c, a), a)
      s2 == [s1 EXCEPT !.repeatDone = @ \/ s1.withoutRepeat = 0]
  IN IF LastKernel(s, a) THEN repeat_traces(s2, a) ELSE terminate_process(s, a)

(* retire_c::run_a_cycle for the uop of slot i; the thread is at its end with
   the last uop, or with the first uop of instruction number maxInsts. *)
(* Mutant: a trace that is cut off has no last uop, and the limit is missed. *)
ReachesEndLate(slot, threads) ==
  LET insts == (slot.retired - 1) \div knobs.uops + 1
  IN slot.retired = threads[slot.tid].insts * knobs.uops \/ insts > knobs.maxInsts

ReachesEnd(slot, threads) ==
  LET insts == (slot.retired - 1) \div knobs.uops + 1
      total == MinNat(threads[slot.tid].insts, knobs.maxInsts) * knobs.uops
  IN slot.retired = total \/ insts >= knobs.maxInsts

retire(s, c, i) ==
  LET a == s.core[c].slots[i].app
      s1 == [s EXCEPT !.core[c].slots[i].retired = @ + 1]
      s2 == [s1 EXCEPT !.core[c].slots[i].reachEnd = TRUE, !.core[c].reachEnd = @ + 1]
      s3 == terminate_thread(s2, c, i)
      s4 == [s3 EXCEPT !.core[c].slots[i].fetchEnded = TRUE]
      over == s4.app[a].terminated = s4.app[a].created
  IN IF s1.core[c].slots[i].finished THEN s2
     ELSE IF ~ReachesEnd(s1.core[c].slots[i], Kernel(s, a)) THEN s1
     ELSE sim_thread_schedule(
            IF over THEN sim_thread_schedule(EndOfProcess(s4, c, a), TRUE) ELSE s4, FALSE)
-----------------------------------------------------------------------------
(* The cycle of the simulator *)

NoThreads(k) ==
  [app |-> [a \in Apps(k) |-> [repeat |-> 0, kernel |-> 0, created |-> 0, terminated |-> 0,
                               cores |-> {}, blocks |-> {}, over |-> FALSE]],
   core |-> [c \in CoreIds(k) |->
               [slots |-> <<>>, running |-> 0, reachEnd |-> 0, runningBlocks |-> 0,
                fetchingBlock |-> NoBlock, appl |-> 1, robs |-> k.maxThreads, rob |-> <<>>,
                endTrace |-> FALSE, simEnd |-> FALSE, started |-> FALSE]],
   blk |-> [b \in {} |-> NewBlock], threads |-> <<>>,
   pool |-> SelectSeq([c \in CoreIds(k) |-> c], LAMBDA c : k.cores[c]),
   active |-> 0, waiting |-> 0, withoutRepeat |-> 0, repeatDone |-> FALSE,
   runningCore |-> FALSE, check |-> {}, fault |-> FALSE, finished |-> FALSE]

(* open_traces: every application is created and scheduled in turn. *)
Opened(s) ==
  LET after[a \in 0..Cardinality(Apps(knobs))] ==
        IF a = 0 THEN s ELSE sim_thread_schedule(create_process(after[a - 1], a, 0), TRUE)
  IN after[Cardinality(Apps(knobs))]

Init ==
  /\ knobs \in Scenarios
  /\ sys = Opened(NoThreads(knobs))
  /\ pc = [stage |-> "cycle", core |-> 0, todo |-> {}]

Clocks == {"cpu", "gpu"}

(* Both termination_check flags are set: a whole round of both clocks. *)
(* Mutant: one clock is enough. *)
DueAny == sys.check # {}
Due == sys.check = Clocks

(* run_a_cycle up to the loop over the cores; the clocks of the processors
   and of the graphics processors tick in the same or in different cycles. *)
StartCycle(ticks) ==
  LET over == Due /\ (sys.active = 0 \/ sys.repeatDone \/ ~sys.runningCore)
      todo == {c \in CoreIds(knobs) : (IF knobs.cores[c] THEN "gpu" ELSE "cpu") \in ticks}
  IN /\ pc.stage = "cycle" /\ ~sys.finished
     /\ IF over THEN sys' = [sys EXCEPT !.finished = TRUE] /\ UNCHANGED pc
        ELSE /\ sys' = [sys EXCEPT !.check = (IF Due THEN {} ELSE @) \cup ticks,
                                   !.runningCore = ~Due /\ @]
             /\ pc' = [stage |-> "core", core |-> 0, todo |-> todo]
     /\ UNCHANGED knobs

(* A core that has ended or not begun is passed over; one that has nothing to
   do ends; any other runs. *)
StartCore(c) ==
  LET k == sys.core[c]
      idle == k.running = 0 /\ Len(k.slots) >= 1 /\ sys.waiting = 0
      runs == k.started /\ ~k.simEnd /\ ~idle
  IN /\ pc.stage = "core" /\ c \in pc.todo
     /\ sys' = [sys EXCEPT !.core[c].simEnd = @ \/ (k.started /\ idle),
                           !.runningCore = @ \/ runs]
     /\ pc' = IF runs THEN [stage |-> "retire", core |-> c, todo |-> pc.todo \ {c}]
              ELSE [pc EXCEPT !.todo = @ \ {c}]
     /\ UNCHANGED knobs

Moves(c, i) == sys.app[sys.core[c].slots[i].app].repeat < MaxRepeat

(* The uop at place n of the reorder buffer retires: the first one, or with
   GPU scheduling the first one of any thread. *)
Retire(n) ==
  LET c == pc.core
      rob == sys.core[c].rob
      i == rob[n]
  IN /\ pc.stage = "retire" /\ n \in DOMAIN rob
     /\ n = 1 \/ (knobs.gpuSched /\ knobs.cores[c])
     /\ Moves(c, i)
     /\ \A m \in 1..(n - 1) : rob[m] # i
     /\ sys' = retire([sys EXCEPT !.core[c].rob = SubSeq(@, 1, n - 1) \o SubSeq(@, n + 1, Len(@))],
                      c, i)
     /\ UNCHANGED <<knobs, pc>>

RetireDone ==
  /\ pc.stage = "retire"
  /\ pc' = [pc EXCEPT !.stage = "fetch"]
  /\ UNCHANGED <<knobs, sys>>

(* get_uops_from_traces: the next uop of thread i; with the first uop of an
   instruction the next instruction is read, with the first of all two. *)
Fetch(i) ==
  LET c == pc.core
      slot == sys.core[c].slots[i]
      thread == Kernel(sys, slot.app)[slot.tid]
      n == slot.fetched \div knobs.uops + 1
      last == slot.fetched + 1 = MinNat(thread.insts, knobs.maxInsts) * knobs.uops
      reads == IF slot.fetched % knobs.uops # 0 THEN {}
               ELSE (IF n = 1 THEN {1} ELSE {}) \cup (IF n < knobs.maxInsts THEN {n + 1} ELSE {})
      s1 == [sys EXCEPT !.core[c].slots[i] = [@ EXCEPT !.fetched = @ + 1, !.fetchEnded = last],
                        !.core[c].rob = Append(@, i)]
  IN /\ pc.stage = "fetch" /\ i \in DOMAIN sys.core[c].slots
     /\ ~slot.fetchEnded /\ ~slot.reachEnd
     /\ sys' = IF slot.tid = 1 /\ reads # {} THEN CreateOthers(s1, slot.app, reads) ELSE s1
     /\ pc' = [pc EXCEPT !.stage = "end"]
     /\ UNCHANGED knobs

NoFetch ==
  /\ pc.stage = "fetch"
  /\ pc' = [pc EXCEPT !.stage = "end"]
  /\ UNCHANGED <<knobs, sys>>

(* The check after a core has run: all its threads are at their end. *)
AllReachEnd(k) == k.reachEnd = Len(k.slots)

EndCore ==
  /\ pc.stage = "end"
  /\ sys' = [sys EXCEPT !.core[pc.core].simEnd = @ \/ AllReachEnd(sys.core[pc.core])]
  /\ pc' = [pc EXCEPT !.stage = "core"]
  /\ UNCHANGED knobs

EndCycle ==
  /\ pc.stage = "core" /\ pc.todo = {}
  /\ pc' = [pc EXCEPT !.stage = "cycle"]
  /\ UNCHANGED <<knobs, sys>>

Finished == sys.finished /\ UNCHANGED vars

Next ==
  \/ \E ticks \in SUBSET Clocks : StartCycle(ticks)
  \/ \E c \in CoreIds(knobs) : StartCore(c)
  \/ \E n \in Places : Retire(n)
  \/ \E i \in Places : Fetch(i)
  \/ RetireDone \/ NoFetch \/ EndCore \/ EndCycle \/ Finished

(* The loop of main goes on, every clock keeps ticking, a fetched uop is done
   at some time, and a core with something to fetch fetches.  Each conjunct is
   strong fairness of an action, with the condition under which it is enabled
   written out. *)
CanRetire(c) ==
  /\ pc.stage = "retire" /\ pc.core = c /\ sys.core[c].rob # <<>>
  /\ Moves(c, Head(sys.core[c].rob))

CanFetch(c) ==
  /\ pc.stage = "fetch" /\ pc.core = c
  /\ \E i \in DOMAIN sys.core[c].slots :
       ~sys.core[c].slots[i].fetchEnded /\ ~sys.core[c].slots[i].reachEnd

Fairness ==
  /\ []<>(~sys.finished) => []<><<~sys.finished>>_vars
  /\ \A k \in Clocks : []<>(pc.stage = "cycle" /\ ~sys.finished)
       => []<><<pc.stage = "cycle" /\ (sys'.finished \/ k \in sys'.check)>>_vars
  /\ \A c \in Processors :
       /\ []<>CanRetire(c) => []<><<pc.core = c /\ Retire(1)>>_vars
       /\ []<>CanFetch(c) => []<><<pc.core = c /\ \E i \in Places : Fetch(i)>>_vars

Spec == Init /\ [][Next]_vars /\ Fairness
-----------------------------------------------------------------------------
(* Properties *)

SumOver(S, f(_)) == FoldSet(LAMBDA x, acc : f(x) + acc, 0, S)

RunningOf(c) == {i \in DOMAIN sys.core[c].slots : ~sys.core[c].slots[i].finished}

(* The counters by which the simulator decides what to schedule and when to
   stop agree with the threads they count, although dispatch, the thread's
   end, its block's end and the next kernel nest in one another: the active
   threads are the created ones that have not ended, the waiting ones are the
   ones in the queues, and a core counts its running threads and blocks.  No
   counter is taken below 0, and no reorder buffer is reserved that is not
   free. *)
CountersExact ==
  /\ ~sys.fault
  /\ sys.active = SumOver(Apps(knobs), LAMBDA a : sys.app[a].created - sys.app[a].terminated)
  /\ sys.waiting = Len(sys.threads) + SumOver(DOMAIN sys.blk, LAMBDA b : Len(sys.blk[b].queue))
  /\ \A c \in CoreIds(knobs) :
       /\ sys.core[c].running = Cardinality(RunningOf(c))
       /\ sys.core[c].runningBlocks =
            Cardinality({b \in DOMAIN sys.blk :
                           \E i \in DOMAIN sys.core[c].slots : sys.core[c].slots[i].block = b})

(* A thread block is retired with the last of its threads and not before:
   when it is gone, every thread of the kernel with that block has been
   created and none of them is on a core. *)
BlocksWhole ==
  \A a \in Apps(knobs) : knobs.apps[a].ptx /\ ~sys.app[a].over =>
    \A t, u \in DOMAIN Kernel(sys, a) :
      LET b == <<a, Kernel(sys, a)[t].block>>
      IN t <= sys.app[a].created /\ b \notin DOMAIN sys.blk /\ Kernel(sys, a)[u].block = b[2]
         => /\ u <= sys.app[a].created
            /\ \A c \in CoreIds(knobs) : \A i \in RunningOf(c) :
                 <<a, u>> # <<sys.core[c].slots[i].app, sys.core[c].slots[i].tid>>

(* When run_a_cycle reports the end, every application has run all kernels to
   their end: neither an idle core nor the counter of ended threads stops the
   simulation while a thread waits or runs. *)
NothingLeft ==
  sys.finished /\ ~knobs.repeat => \A a \in Apps(knobs) : sys.app[a].over

(* Every simulation comes to its end. *)
SimulationEnds == <>sys.finished
=============================================================================
