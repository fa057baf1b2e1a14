--------------------------- MODULE CorePipelineProofs ---------------------------
(***************************************************************************)
(* The core pipeline, for any program, any sizes of its buffers and any    *)
(* answers of the memory hierarchy: every counter of resources agrees with *)
(* the uops in flight, uops retire in program order, a uop is executed     *)
(* only after the writers of its source registers, and the in-order core   *)
(* starts the uops of a thread in order.                                   *)
(***************************************************************************)
EXTENDS CoreInvariant

\* The types of the state.
Src == [o : 0 .. NumObjects, num : Int]
UopObject ==
    [valid : BOOLEAN, num : Int, tid : Int, at : Nat, done : Int, last : 0 .. NumObjects,
     rdy : BOOLEAN, srcs : Seq(Src), q : ToSet(Queues), ins : BOOLEAN, issued : BOOLEAN,
     mispred : BOOLEAN, btbMiss : BOOLEAN, pending : SUBSET Nat, childDone : Int, children : Seq(Objects)]
RobRecord(c) ==
    [slot : [0 .. 2 * c.rob - 1 -> 0 .. NumObjects], first : 0 .. 2 * c.rob - 1, last : 0 .. 2 * c.rob - 1,
     free : Int, st : Int, ld : Int, int : Int, fp : Int]
Entries == Nat \X Nat
SchedRecord(c) ==
    [list : [0 .. c.list - 1 -> Entries \cup {<<>>}], first : 0 .. c.list - 1, last : 0 .. c.list - 1,
     num : Int, per : [ToSet(Queues) -> Int], next : 0 .. 2 * c.rob - 1, used : [ToSet(Queues) -> Int]]
ThreadRecord ==
    [next : Nat, num : Int, ready : BOOLEAN, wait : BOOLEAN, recovery : Int, redirect : Int,
     brWait : BOOLEAN, loads : SUBSET Int, blocked : BOOLEAN, dispatch : Int, retired : Nat, reachEnd : BOOLEAN]
MapRecord(c, a) == [reg : [c.regs -> Src], store : [a -> 0 .. NumObjects]]

UopsTyped == uops \in [Objects -> UopObject]
QueuesTyped ==
    /\ feq \in Seq(Seq(Objects)) /\ feq # <<>>
    /\ iaq \in [ToSet(Queues) -> Seq(Seq(Entries))] /\ \A q \in ToSet(Queues) : Len(iaq[q]) = 1
RobsTyped == rob \in [Robs -> RobRecord(conf)]
SchedTyped == sched \in SchedRecord(conf)
ThreadsTyped ==
    /\ threads \in [Tids -> ThreadRecord]
    /\ \A t \in Tids : threads[t].reachEnd => threads[t].retired = Len(Program(t))
MapTyped == map \in [Tids -> MapRecord(conf, Addresses)]
LoopTyped ==
    /\ loop \in [n : Nat, at : Nat, tid : Int, todo : Seq(Robs) \cup Seq(ToSet(Queues))]
    /\ stage = "retire" => loop.todo \in Seq(Robs)
    /\ stage = "schedule" => loop.at \in 0 .. conf.list - 1
    /\ stage = "advance" => loop.todo \in Seq(ToSet(Queues))
    /\ stage = "fetch" => loop.tid \in Tids
Typed ==
    /\ id \in DOMAIN Configs
    /\ UopsTyped /\ QueuesTyped /\ RobsTyped /\ SchedTyped /\ ThreadsTyped /\ MapTyped
    /\ arbiter \in Tids /\ LoopTyped

\* What is in the reorder buffers and in the frontend queue, and the inductive invariant.
Bufs == [r \in Robs |-> InRob(r)]
FrontEnd == FlattenSeq(feq)
Sound == Whole(conf, uops, rob, Bufs, FrontEnd, iaq, sched, threads, map, misses, pool)
IInv == Typed /\ Sound

LEMMA ConfFacts ==
    ASSUME id \in DOMAIN Configs
    PROVE  /\ ConfigOk(conf) /\ conf.rob \in Nat \ {0} /\ conf.list \in Nat \ {0} /\ Len(conf.prog) \in Nat \ {0}
           /\ Tids = TidsOf(conf) /\ Robs = RobsOf(conf) /\ 0 \in Tids /\ 0 \in Robs
           /\ Tids \subseteq Nat /\ Robs \subseteq Nat /\ \A t \in Tids : RobOf(t) = RobFor(conf, t) /\ RobOf(t) \in Robs
           /\ \A k \in Resources : LimitOf(conf, k) \in Nat
  <1>1. ConfigOk(conf)
    BY PipelineAssumption DEF conf
  <1>2. conf.prog \in Seq(Seq(Instructions(conf))) /\ conf.prog # <<>>
    BY <1>1 DEF ConfigOk
  <1>3. Len(conf.prog) \in Nat \ {0}
    <2> DEFINE X == Seq(Instructions(conf))
    <2>1. conf.prog \in Seq(X) /\ conf.prog # <<>>
      BY <1>2
    <2> HIDE DEF X
    <2> QED BY <2>1, LenProperties, EmptySeq
  <1>4. Tids = TidsOf(conf) /\ 0 \in Tids /\ Tids \subseteq Nat
    BY <1>3 DEF Tids, TidsOf
  <1>5. Robs = RobsOf(conf) /\ \A t \in Tids : RobOf(t) = RobFor(conf, t) /\ RobOf(t) \in Robs
    BY <1>4 DEF Robs, RobsOf, RobOf, RobFor
  <1>6. 0 \in Robs /\ Robs \subseteq Nat
    BY <1>4 DEF Robs, RobOf
  <1>7. \A k \in Resources : LimitOf(conf, k) \in Nat
    BY <1>1 DEF ConfigOk, LimitOf, Resources
  <1> QED BY <1>1, <1>3, <1>4, <1>5, <1>6, <1>7 DEF ConfigOk

\* The configuration stays, and what a step does not change keeps its type.
LEMMA Unmoved ==
    ASSUME Typed, id' = id
    PROVE  /\ id' \in DOMAIN Configs
           /\ conf' = conf /\ Tids' = Tids /\ Robs' = Robs /\ Addresses' = Addresses
           /\ \A t : Program(t)' = Program(t)
           /\ uops' = uops => UopsTyped'
           /\ feq' = feq /\ iaq' = iaq => QueuesTyped'
           /\ rob' = rob => RobsTyped' /\ Bufs' = Bufs
           /\ sched' = sched => SchedTyped'
           /\ threads' = threads => ThreadsTyped'
           /\ map' = map => MapTyped'
           /\ arbiter' = arbiter => arbiter' \in Tids'
           /\ feq' = feq => FrontEnd' = FrontEnd
  <1>1. id' \in DOMAIN Configs /\ conf' = conf
    BY DEF Typed, conf
  <1>2. Tids' = Tids
    BY <1>1 DEF Tids
  <1>3. Robs' = Robs /\ Addresses' = Addresses /\ \A t : Program(t)' = Program(t)
    BY <1>1, <1>2 DEF Robs, RobOf, Addresses, Program
  <1>4. uops' = uops => UopsTyped'
    BY DEF Typed, UopsTyped
  <1>5. feq' = feq /\ iaq' = iaq => QueuesTyped'
    BY DEF Typed, QueuesTyped
  <1>6. rob' = rob => RobsTyped'
    BY <1>1, <1>3 DEF Typed, RobsTyped
  <1>7. rob' = rob => Bufs' = Bufs
    BY <1>1, <1>3 DEF Bufs, InRob
  <1>8. sched' = sched => SchedTyped'
    BY <1>1 DEF Typed, SchedTyped
  <1>9. threads' = threads => ThreadsTyped'
    BY <1>2, <1>3 DEF Typed, ThreadsTyped
  <1>10. map' = map => MapTyped'
    BY <1>1, <1>2, <1>3 DEF Typed, MapTyped
  <1>11. arbiter' = arbiter => arbiter' \in Tids'
    BY <1>2 DEF Typed
  <1>12. feq' = feq => FrontEnd' = FrontEnd
    BY DEF FrontEnd
  <1> QED BY <1>1, <1>2, <1>3, <1>4, <1>5, <1>6, <1>7, <1>8, <1>9, <1>10, <1>11, <1>12

\* The parts of the invariant.
LEMMA SoundParts ==
    ASSUME Sound
    PROVE  /\ Homes(conf, uops, Bufs, FrontEnd) /\ Ordered(conf, uops, Bufs, FrontEnd, threads) /\ Owned(uops, pool)
           /\ Answered(uops, misses) /\ Rings(conf, rob, Bufs) /\ Waits(conf, uops, rob, Bufs, FrontEnd, iaq)
           /\ Scheduled(conf, uops, rob, Bufs, sched) /\ Counted(conf, uops, rob, Bufs, sched, threads)
           /\ InOrder(conf, uops, rob, Bufs, sched) /\ Mapped(conf, uops, threads, map)
  BY DEF Sound, Whole

\* A step that moves no uop.
LEMMA CalmKeeps ==
    ASSUME IInv, id' = id, FrontEnd' = FrontEnd, iaq' = iaq, rob' = rob, map' = map, pool' = pool,
           Calm(conf, uops, uops', sched, sched', threads, threads'), Answered(uops', misses'),
           Scheduled(conf, uops, rob, Bufs, sched')
    PROVE  Sound'
  <1>1. conf' = conf /\ Bufs' = Bufs /\ 0 \in RobsOf(conf)
    BY Unmoved, ConfFacts DEF IInv, Typed
  <1>2. Whole(conf, uops, rob, Bufs, FrontEnd, iaq, sched, threads, map, misses, pool)
    BY DEF IInv, Sound
  <1>3. Whole(conf, uops', rob, Bufs, FrontEnd, iaq, sched', threads', map, misses', pool)
    BY <1>1, <1>2, CalmWhole
  <1> QED BY <1>1, <1>3 DEF Sound

\* A step that does not change the uops either.
LEMMA SameKeeps ==
    ASSUME IInv, id' = id, FrontEnd' = FrontEnd, iaq' = iaq, rob' = rob, map' = map, pool' = pool, uops' = uops,
           misses' = misses, sched'.list = sched.list, sched'.first = sched.first, sched'.last = sched.last,
           sched'.num = sched.num, sched'.per = sched.per, sched'.next = sched.next,
           \A t \in Tids : /\ threads'[t].retired = threads[t].retired /\ threads'[t].next = threads[t].next
                           /\ threads'[t].dispatch = threads[t].dispatch
    PROVE  Sound'
  <1>1. Tids = TidsOf(conf)
    BY ConfFacts DEF IInv, Typed
  <1>2. Calm(conf, uops, uops', sched, sched', threads, threads')
    BY <1>1, SameCalm
  <1>3. Answered(uops', misses') /\ Scheduled(conf, uops, rob, Bufs, sched)
    BY SoundParts DEF IInv
  <1>4. Scheduled(conf, uops, rob, Bufs, sched')
    BY <1>3 DEF Scheduled
  <1> QED BY <1>2, <1>3, <1>4, CalmKeeps

--------------------------------------------------------------------------------
\* The steps of the control: a stage ends, the next begins.
LEMMA SmallestIn ==
    ASSUME NEW t \in SUBSET Nat, t # {}
    PROVE  Min(t) \in t /\ \A y \in t : Min(t) <= y
  <1>1. PICK x \in t : \A y \in t : x <= y
    BY Least
  <1>2. \E z \in t : \A y \in t : z <= y
    BY <1>1
  <1> QED BY <1>2 DEF Min

LEMMA KeptIn ==
    ASSUME NEW X, NEW s \in Seq(X), NEW S
    PROVE  Kept(s, S) \in Seq(S)
  <1> DEFINE k == Kept(s, S)
  <1>1. k \in Seq(X) /\ \A x : Occurs(x, k) <=> Occurs(x, s) /\ x \in S
    BY KeptProperties
  <1> HIDE DEF k
  <1>2. Len(k) \in Nat /\ k = [i \in 1 .. Len(k) |-> k[i]] /\ \A i \in 1 .. Len(k) : k[i] \in S
    BY <1>1, LenProperties DEF Occurs
  <1>3. k \in Seq(S)
    BY <1>2
  <1> QED BY <1>3 DEF k

LEMMA IdleTyped ==
    ASSUME Typed, id' = id, NEW n, NEW x, loop' = [n |-> 0, at |-> n, tid |-> -1, todo |-> x], n \in Nat,
           x \in Seq(Robs) \cup Seq(ToSet(Queues)),
           stage' = "retire" => x \in Seq(Robs), stage' = "schedule" => n \in 0 .. conf.list - 1,
           stage' = "advance" => x \in Seq(ToSet(Queues)), stage' # "fetch"
    PROVE  LoopTyped'
  <1>1. conf' = conf /\ Robs' = Robs
    BY Unmoved
  <1> QED BY <1>1 DEF LoopTyped

LEMMA AnswerFetchKeeps ==
    ASSUME IInv, AnswerFetch
    PROVE  IInv'
  <1> USE DEF IInv
  <1>1. UNCHANGED <<id, stage, loop, uops, pool, feq, iaq, rob, sched, map, arbiter, sync, misses, trouble>>
    BY DEF AnswerFetch
  <1>2. PICK t \in Tids : threads' = [threads EXCEPT ![t].ready = TRUE]
    BY DEF AnswerFetch
  <1>3. threads \in [Tids -> ThreadRecord]
    BY DEF Typed, ThreadsTyped
  <1>4. \A s \in Tids : /\ threads'[s].retired = threads[s].retired /\ threads'[s].next = threads[s].next
                        /\ threads'[s].dispatch = threads[s].dispatch
                        /\ threads'[s].reachEnd = threads[s].reachEnd
    BY <1>2, <1>3 DEF ThreadRecord
  <1>5. threads' \in [Tids -> ThreadRecord]
    BY <1>2, <1>3 DEF ThreadRecord
  <1>6. ThreadsTyped'
    BY <1>1, <1>4, <1>5, Unmoved DEF Typed, ThreadsTyped
  <1>7. LoopTyped'
    BY <1>1, Unmoved DEF Typed, LoopTyped
  <1>8. Typed'
    BY <1>1, <1>6, <1>7, Unmoved DEF Typed
  <1>9. Sound'
    BY <1>1, <1>4, SameKeeps, Unmoved
  <1> QED BY <1>8, <1>9

LEMMA RunCoreKeeps ==
    ASSUME IInv, RunCore
    PROVE  IInv'
  <1> USE DEF IInv
  <1>1. /\ UNCHANGED <<id, uops, pool, feq, iaq, rob, sched, map, threads, arbiter, sync, misses, trouble>>
        /\ stage' = "retire"
    BY DEF RunCore
  <1> DEFINE x == IF conf.kind = "smc" THEN get_n_uops_in_ready_order ELSE [i \in 1 .. conf.width |-> 0]
  <1>2. x \in Seq(Robs)
    <2>1. CASE conf.kind = "smc"
      <3> DEFINE s == [i \in 1 .. Len(conf.prog) |-> i - 1]
                 S == {r \in Robs : Retireable(r)}
      <3>1. s \in Seq(Int)
        BY ConfFacts DEF Typed
      <3>2. x = Kept(s, S) /\ S \subseteq Robs
        BY <2>1 DEF get_n_uops_in_ready_order
      <3> HIDE DEF s, S, x
      <3>3. x \in Seq(S)
        BY <3>1, <3>2, KeptIn
      <3> QED BY <3>2, <3>3
    <2>2. CASE conf.kind # "smc"
      <3>1. conf.width \in Nat /\ 0 \in Robs
        BY ConfFacts DEF Typed, ConfigOk
      <3> QED BY <2>2, <3>1
    <2> QED BY <2>1, <2>2
  <1>3. loop' = [n |-> 0, at |-> 0, tid |-> -1, todo |-> x]
    BY DEF RunCore, Idle
  <1> HIDE DEF x
  <1>4. LoopTyped'
    BY <1>1, <1>2, <1>3, IdleTyped
  <1>5. Typed'
    BY <1>1, <1>4, Unmoved DEF Typed
  <1>6. Sound'
    BY <1>1, SameKeeps, Unmoved
  <1> QED BY <1>5, <1>6

LEMMA RetireDoneKeeps ==
    ASSUME IInv, RetireDone
    PROVE  IInv'
  <1> USE DEF IInv
  <1>1. /\ UNCHANGED <<id, uops, pool, feq, iaq, rob, map, threads, arbiter, sync, misses, trouble>>
        /\ stage' = "schedule" /\ loop' = [Idle EXCEPT !.at = sched.first]
        /\ sched' = [sched EXCEPT !.used = [q \in ToSet(Queues) |-> 0]]
    BY DEF RetireDone
  <1>2. sched \in SchedRecord(conf)
    BY DEF Typed, SchedTyped
  <1>3. /\ sched' \in SchedRecord(conf) /\ sched.first \in 0 .. conf.list - 1
        /\ sched'.list = sched.list /\ sched'.first = sched.first /\ sched'.last = sched.last
        /\ sched'.num = sched.num /\ sched'.per = sched.per /\ sched'.next = sched.next
    <2> DEFINE F == [ToSet(Queues) -> Int]
               z == [q \in ToSet(Queues) |-> 0]
    <2>1. sched' = [sched EXCEPT !.used = z] /\ z \in F
      BY <1>1
    <2>2. sched \in [list : [0 .. conf.list - 1 -> Entries \cup {<<>>}], first : 0 .. conf.list - 1,
                     last : 0 .. conf.list - 1, num : Int, per : F, next : 0 .. 2 * conf.rob - 1, used : F]
      BY <1>2 DEF SchedRecord
    <2> HIDE DEF z, F
    <2>3. sched' \in [list : [0 .. conf.list - 1 -> Entries \cup {<<>>}], first : 0 .. conf.list - 1,
                     last : 0 .. conf.list - 1, num : Int, per : F, next : 0 .. 2 * conf.rob - 1, used : F]
      BY <2>1, <2>2
    <2>4. sched' \in SchedRecord(conf)
      BY <2>3 DEF SchedRecord, F
    <2> QED BY <2>1, <2>2, <2>4
  <1>4. SchedTyped'
    BY <1>1, <1>3, Unmoved DEF SchedTyped
  <1>5. LoopTyped'
    <2> DEFINE none == <<>>
    <2>1. loop' = [n |-> 0, at |-> sched.first, tid |-> -1, todo |-> none] /\ none \in Seq(Robs)
      BY <1>1 DEF Idle
    <2>2. sched.first \in Nat
      BY <1>3
    <2> HIDE DEF none
    <2> QED BY <1>1, <1>3, <2>1, <2>2, IdleTyped
  <1>6. Typed'
    BY <1>1, <1>4, <1>5, Unmoved DEF Typed
  <1>7. Sound'
    BY <1>1, <1>3, SameKeeps, Unmoved
  <1> QED BY <1>6, <1>7

LEMMA ScheduleDoneKeeps ==
    ASSUME IInv, ScheduleDone
    PROVE  IInv'
  <1> USE DEF IInv
  <1>1. /\ UNCHANGED <<id, uops, pool, feq, iaq, rob, sched, map, threads, arbiter, sync, misses, trouble>>
        /\ stage' = "advance" /\ loop' = [Idle EXCEPT !.todo = Queues]
    BY DEF ScheduleDone
  <1>2. Queues \in Seq(ToSet(Queues))
    BY DEF Queues, ToSet
  <1>3. loop' = [n |-> 0, at |-> 0, tid |-> -1, todo |-> Queues]
    BY <1>1 DEF Idle
  <1>4. LoopTyped'
    BY <1>1, <1>2, <1>3, IdleTyped
  <1>5. Typed'
    BY <1>1, <1>4, Unmoved DEF Typed
  <1>6. Sound'
    BY <1>1, SameKeeps, Unmoved
  <1> QED BY <1>5, <1>6

LEMMA AdvanceDoneKeeps ==
    ASSUME IInv, AdvanceDone
    PROVE  IInv'
  <1> USE DEF IInv
  <1>1. UNCHANGED <<id, uops, pool, feq, iaq, rob, sched, map, threads, arbiter, sync, misses, trouble>>
        /\ stage = "advance"
    BY DEF AdvanceDone
  <1>2. loop.todo \in Seq(ToSet(Queues))
    BY <1>1 DEF Typed, LoopTyped
  <1>3. LoopTyped'
    <2>1. CASE Len(loop.todo) > 1
      <3> DEFINE q == loop.todo
                 x == Tail(q)
      <3>1. q \in Seq(ToSet(Queues)) /\ Len(q) > 1
        BY <1>2, <2>1
      <3>2. stage' = "advance" /\ loop' = [n |-> 0, at |-> 0, tid |-> -1, todo |-> x]
        BY <1>1, <2>1 DEF AdvanceDone, Idle
      <3>3. x \in Seq(ToSet(Queues))
        <4> HIDE DEF q
        <4>1. q # <<>>
          BY <3>1
        <4> QED BY <3>1, <4>1, OneLess
      <3> HIDE DEF x, q
      <3> QED BY <1>1, <3>2, <3>3, IdleTyped
    <2>2. CASE ~(Len(loop.todo) > 1)
      <3> DEFINE none == <<>>
      <3>1. stage' = "allocate" /\ loop' = [n |-> 0, at |-> 0, tid |-> -1, todo |-> none] /\ none \in Seq(Robs)
        BY <1>1, <2>2 DEF AdvanceDone, Idle
      <3> HIDE DEF none
      <3> QED BY <1>1, <3>1, IdleTyped
    <2> QED BY <2>1, <2>2
  <1>4. Typed'
    BY <1>1, <1>3, Unmoved DEF Typed
  <1>5. Sound'
    BY <1>1, SameKeeps, Unmoved
  <1> QED BY <1>4, <1>5

LEMMA AllocateDoneKeeps ==
    ASSUME IInv, AllocateDone
    PROVE  IInv'
  <1> USE DEF IInv
  <1>1. /\ UNCHANGED <<id, uops, pool, feq, iaq, rob, sched, map, threads, arbiter, sync, misses, trouble>>
        /\ stage' = "frontend" /\ loop' = Idle
    BY DEF AllocateDone
  <1>2. LoopTyped'
    <2> DEFINE none == <<>>
    <2>1. loop' = [n |-> 0, at |-> 0, tid |-> -1, todo |-> none] /\ none \in Seq(Robs)
      BY <1>1 DEF Idle
    <2> HIDE DEF none
    <2> QED BY <1>1, <2>1, IdleTyped
  <1>3. Typed'
    BY <1>1, <1>2, Unmoved DEF Typed
  <1>4. Sound'
    BY <1>1, SameKeeps, Unmoved
  <1> QED BY <1>3, <1>4

--------------------------------------------------------------------------------
\* Steps that change what a uop is owed, or what it waits for.
LEMMA ThreadsKept ==
    ASSUME Typed, id' = id, threads' \in [Tids -> ThreadRecord],
           \A t \in Tids : threads'[t].retired = threads[t].retired /\ threads'[t].reachEnd = threads[t].reachEnd
    PROVE  ThreadsTyped'
  BY Unmoved DEF Typed, ThreadsTyped

\* A thread whose counters of retired and fetched uops stay.
Quiet(x, y) ==
    /\ y \in ThreadRecord
    /\ y.retired = x.retired /\ y.next = x.next /\ y.reachEnd = x.reachEnd
LEMMA ThreadChanged ==
    ASSUME NEW T, NEW ts \in [T -> ThreadRecord], NEW t \in T, NEW y, Quiet(ts[t], y),
           NEW us, us = [ts EXCEPT ![t] = y]
    PROVE  /\ us \in [T -> ThreadRecord] /\ us[t] = y
           /\ \A s \in T : us[s].retired = ts[s].retired /\ us[s].next = ts[s].next /\ us[s].reachEnd = ts[s].reachEnd
           /\ \A s \in T : us[s].dispatch = IF s = t THEN y.dispatch ELSE ts[s].dispatch
  BY DEF Quiet

LEMMA NextPlace ==
    ASSUME Typed, NEW i \in 0 .. conf.list - 1
    PROVE  Next1(i) = Wrap(i + 1, conf.list) /\ Next1(i) \in 0 .. conf.list - 1
  <1> DEFINE n == conf.list
  <1>1. n \in Nat \ {0} /\ i \in 0 .. n - 1
    BY ConfFacts DEF Typed
  <1>2. Next1(i) = (i + 1) % n
    BY DEF Next1
  <1> HIDE DEF n
  <1>3. (i + 1) % n = Wrap(i + 1, n)
    BY <1>1, Wraps
  <1>4. Wrap(i + 1, n) \in 0 .. n - 1
    BY <1>1 DEF Wrap
  <1> QED BY <1>2, <1>3, <1>4 DEF n

\* The instruction of a uop in flight.
LEMMA OpTyped ==
    ASSUME IInv, NEW o \in Objects, Main(uops, o)
    PROVE  /\ Op(o) \in Instructions(conf) /\ Op(o).kind = KindOf(conf, uops, o)
           /\ uops[o] \in UopObject /\ uops[o].tid \in Tids /\ uops[o].at \in 1 .. Len(Program(uops[o].tid))
           /\ uops[o].children # <<>> => IsMemory(o)
  <1>1. /\ uops[o].tid \in TidsOf(conf) /\ uops[o].at \in 1 .. Len(conf.prog[uops[o].tid + 1])
        /\ uops[o].children # <<>> => KindOf(conf, uops, o) \in {"ld", "st"}
    BY SoundParts DEF IInv, Homes
  <1>2. /\ Tids = TidsOf(conf) /\ Len(conf.prog) \in Nat
        /\ conf.prog \in Seq(Seq(Instructions(conf)))
    BY ConfFacts DEF IInv, Typed, ConfigOk
  <1>3. uops[o].tid + 1 \in 1 .. Len(conf.prog)
    BY <1>1, <1>2 DEF TidsOf
  <1>4. conf.prog[uops[o].tid + 1] \in Seq(Instructions(conf))
    <2> DEFINE X == Seq(Instructions(conf))
    <2>1. conf.prog \in Seq(X)
      BY <1>2
    <2> HIDE DEF X
    <2>2. conf.prog[uops[o].tid + 1] \in X
      BY <1>3, <2>1, ElementOfSeq
    <2> QED BY <2>2 DEF X
  <1>5. conf.prog[uops[o].tid + 1][uops[o].at] \in Instructions(conf)
    <2> DEFINE X == Instructions(conf)
    <2>1. conf.prog[uops[o].tid + 1] \in Seq(X)
      BY <1>4
    <2> HIDE DEF X
    <2>2. conf.prog[uops[o].tid + 1][uops[o].at] \in X
      BY <1>1, <2>1, ElementOfSeq
    <2> QED BY <2>2 DEF X
  <1>6. uops[o] \in UopObject
    BY DEF IInv, Typed, UopsTyped
  <1> QED BY <1>1, <1>2, <1>5, <1>6 DEF Op, Program, KindOf, IsMemory

LEMMA UopFields ==
    ASSUME NEW x \in UopObject
    PROVE  /\ x.valid \in BOOLEAN /\ x.num \in Int /\ x.tid \in Int /\ x.at \in Nat /\ x.done \in Int
           /\ x.last \in 0 .. NumObjects /\ x.rdy \in BOOLEAN /\ x.srcs \in Seq(Src) /\ x.q \in ToSet(Queues)
           /\ x.ins \in BOOLEAN /\ x.issued \in BOOLEAN /\ x.mispred \in BOOLEAN /\ x.btbMiss \in BOOLEAN
           /\ x.pending \in SUBSET Nat /\ x.childDone \in Int /\ x.children \in Seq(Objects)
  BY DEF UopObject

LEMMA UopChanged ==
    ASSUME NEW x \in UopObject, NEW n \in Int
    PROVE  [x EXCEPT !.done = n] \in UopObject /\ [x EXCEPT !.childDone = n] \in UopObject
  BY DEF UopObject

\* All but done and childDone stay.
SameUop(x, y) ==
    /\ y.valid = x.valid /\ y.num = x.num /\ y.tid = x.tid /\ y.at = x.at /\ y.last = x.last /\ y.rdy = x.rdy
    /\ y.srcs = x.srcs /\ y.q = x.q /\ y.ins = x.ins /\ y.issued = x.issued /\ y.pending = x.pending
    /\ y.children = x.children
LEMMA ChildCounted ==
    ASSUME NEW x \in UopObject, NEW n \in Int, NEW y, y = [x EXCEPT !.childDone = n]
    PROVE  SameUop(x, y) /\ y.childDone = n /\ y.done = x.done
  BY DEF SameUop, UopObject
LEMMA Ends ==
    ASSUME NEW x \in UopObject, NEW n \in Int, NEW y, y = [x EXCEPT !.done = n]
    PROVE  SameUop(x, y) /\ y.childDone = x.childDone /\ y.done = n
  BY DEF SameUop, UopObject

LEMMA ScanHoleKeeps ==
    ASSUME IInv, ScanHole
    PROVE  IInv'
  <1> USE DEF IInv
  <1>1. /\ UNCHANGED <<id, stage, uops, pool, feq, iaq, rob, map, threads, arbiter, sync, misses, trouble>>
        /\ stage = "schedule" /\ sched.list[loop.at] = <<>>
        /\ sched' = [sched EXCEPT !.first = IF sched.first = loop.at THEN Next1(sched.first) ELSE sched.first]
        /\ loop' = [loop EXCEPT !.at = Next1(loop.at)]
    BY DEF ScanHole, Scanning
  <1>2. sched \in SchedRecord(conf) /\ loop.at \in 0 .. conf.list - 1
    BY <1>1 DEF Typed, SchedTyped, LoopTyped
  <1>3. Next1(loop.at) = Wrap(loop.at + 1, conf.list) /\ Next1(loop.at) \in 0 .. conf.list - 1
    BY <1>2, NextPlace
  <1>4. /\ sched' \in SchedRecord(conf) /\ sched.first \in 0 .. conf.list - 1 /\ sched.last \in 0 .. conf.list - 1
        /\ sched'.list = sched.list /\ sched'.last = sched.last
        /\ sched'.num = sched.num /\ sched'.per = sched.per /\ sched'.next = sched.next
        /\ sched'.first = IF sched.first = loop.at THEN Next1(loop.at) ELSE sched.first
    BY <1>1, <1>2, <1>3 DEF SchedRecord
  <1>5. SchedTyped'
    BY <1>1, <1>4, Unmoved DEF SchedTyped
  <1>6. LoopTyped'
    <2>1. loop \in [n : Nat, at : Nat, tid : Int, todo : Seq(Robs) \cup Seq(ToSet(Queues))]
      BY DEF Typed, LoopTyped
    <2>2. loop' \in [n : Nat, at : Nat, tid : Int, todo : Seq(Robs) \cup Seq(ToSet(Queues))]
          /\ loop'.at \in 0 .. conf.list - 1
      BY <1>1, <1>3, <2>1
    <2> QED BY <1>1, <2>2, Unmoved DEF LoopTyped
  <1>7. Typed'
    BY <1>1, <1>5, <1>6, Unmoved DEF Typed
  <1>8. Scheduled(conf, uops, rob, Bufs, sched')
    <2>1. conf.list \in Nat \ {0} /\ Scheduled(conf, uops, rob, Bufs, sched)
      BY SoundParts, ConfFacts DEF Typed
    <2>2. sched'.first = IF sched.first = loop.at THEN Wrap(loop.at + 1, conf.list) ELSE sched.first
      BY <1>3, <1>4
    <2>3. loop.at \in 0 .. conf.list - 1 /\ sched.list[loop.at] = <<>>
          /\ sched'.list = sched.list /\ sched'.last = sched.last
          /\ sched.first \in 0 .. conf.list - 1 /\ sched.last \in 0 .. conf.list - 1
      BY <1>1, <1>2, <1>4
    <2> QED BY ONLY <2>1, <2>2, <2>3, HolePassed
  <1>9. Calm(conf, uops, uops', sched, sched', threads, threads')
    BY <1>1, <1>4, SameCalm
  <1>10. Answered(uops', misses')
    BY <1>1, SoundParts
  <1>11. Sound'
    BY <1>1, <1>8, <1>9, <1>10, CalmKeeps, Unmoved
  <1> QED BY <1>7, <1>11

LEMMA AnswerDataKeeps ==
    ASSUME IInv, AnswerData
    PROVE  IInv'
  <1> USE DEF IInv
  <1>1. PICK m \in misses : Answer(m)
    BY DEF AnswerData
  <1> DEFINE last == m.child = 0 \/ uops[m.o].childDone + 1 = Len(uops[m.o].children)
             us == IF m.child = 0 THEN uops ELSE [uops EXCEPT ![m.o].childDone = @ + 1]
  <1>2. /\ UNCHANGED <<id, stage, loop, pool, feq, iaq, rob, sched, map, arbiter, sync, trouble>>
        /\ misses' = misses \ {m}
        /\ uops' = IF last THEN [us EXCEPT ![m.o].done = 0] ELSE us
        /\ threads' = IF last THEN [threads EXCEPT ![uops[m.o].tid].loads = @ \ {uops[m.o].num}] ELSE threads
    BY <1>1 DEF Answer, ParentDone, Complete, set_load_ready
  <1>3. Answered(uops, misses) /\ Owned(uops, pool)
    BY SoundParts
  <1>4. m.o \in Objects /\ Main(uops, m.o) /\ (uops[m.o].children = <<>> => m.child = 0)
    BY <1>3 DEF Answered
  <1>5. uops \in [Objects -> UopObject] /\ threads \in [Tids -> ThreadRecord]
    BY DEF Typed, UopsTyped, ThreadsTyped
  <1>6. /\ uops' \in [Objects -> UopObject]
        /\ \A x \in Objects :
             /\ uops'[x].done = IF last /\ x = m.o THEN 0 ELSE uops[x].done
             /\ uops'[x].childDone = IF x = m.o /\ m.child # 0 THEN uops[x].childDone + 1 ELSE uops[x].childDone
             /\ uops'[x].valid = uops[x].valid /\ uops'[x].num = uops[x].num /\ uops'[x].tid = uops[x].tid
             /\ uops'[x].at = uops[x].at /\ uops'[x].last = uops[x].last /\ uops'[x].rdy = uops[x].rdy
             /\ uops'[x].srcs = uops[x].srcs /\ uops'[x].q = uops[x].q /\ uops'[x].ins = uops[x].ins
             /\ uops'[x].issued = uops[x].issued /\ uops'[x].pending = uops[x].pending
             /\ uops'[x].children = uops[x].children
    <2>1. us \in [Objects -> UopObject]
      <3> DEFINE n == uops[m.o].childDone + 1
                 w == [uops[m.o] EXCEPT !.childDone = n]
      <3>1. uops[m.o] \in UopObject /\ n \in Int
        <4>1. uops[m.o] \in UopObject
          BY <1>4, <1>5
        <4>2. uops[m.o].childDone \in Int
          BY <4>1, UopFields
        <4> QED BY <4>1, <4>2
      <3>2. us = IF m.child = 0 THEN uops ELSE [uops EXCEPT ![m.o] = w]
        BY <1>4, <1>5
      <3> HIDE DEF n, us
      <3>3. w \in UopObject
        BY <3>1, UopChanged
      <3> HIDE DEF w
      <3> QED BY <1>4, <1>5, <3>2, <3>3
    <2>2. ASSUME NEW x \in Objects
          PROVE  /\ us[x].childDone = IF x = m.o /\ m.child # 0 THEN uops[x].childDone + 1 ELSE uops[x].childDone
                 /\ us[x].done = uops[x].done /\ SameUop(uops[x], us[x])
      <3> DEFINE n == uops[x].childDone + 1
                 w == [uops[x] EXCEPT !.childDone = n]
      <3>1. uops[x] \in UopObject /\ n \in Int
        <4>1. uops[x] \in UopObject
          BY <1>5
        <4>2. uops[x].childDone \in Int
          BY <4>1, UopFields
        <4> QED BY <4>1, <4>2
      <3>2. us[x] = IF x = m.o /\ m.child # 0 THEN w ELSE uops[x]
        BY <1>4, <1>5
      <3> HIDE DEF n, us
      <3>3. SameUop(uops[x], w) /\ w.childDone = n /\ w.done = uops[x].done
        BY <3>1, ChildCounted
      <3> HIDE DEF w
      <3>4. SameUop(uops[x], uops[x])
        BY DEF SameUop
      <3>5. CASE x = m.o /\ m.child # 0
        BY <3>2, <3>3, <3>5 DEF n
      <3>6. CASE ~(x = m.o /\ m.child # 0)
        BY <3>2, <3>4, <3>6
      <3> QED BY <3>5, <3>6
    <2> HIDE DEF us, last
    <2>3. uops' \in [Objects -> UopObject]
      <3> DEFINE w == [us[m.o] EXCEPT !.done = 0]
      <3>1. w \in UopObject
        <4>1. us[m.o] \in UopObject
          BY <1>4, <2>1
        <4>2. 0 \in Int
          OBVIOUS
        <4>3. \A n \in Int : [us[m.o] EXCEPT !.done = n] \in UopObject
          BY <4>1, UopChanged
        <4> QED BY <4>2, <4>3
      <3>2. uops' = IF last THEN [us EXCEPT ![m.o] = w] ELSE us
        BY <1>2, <1>4, <2>1
      <3> HIDE DEF w
      <3> QED BY <1>4, <2>1, <3>1, <3>2
    <2>4. ASSUME NEW x \in Objects
          PROVE  /\ uops'[x].done = IF last /\ x = m.o THEN 0 ELSE us[x].done
                 /\ uops'[x].childDone = us[x].childDone /\ SameUop(us[x], uops'[x])
      <3> DEFINE n == 0
                 y == us[x]
                 w == [y EXCEPT !.done = n]
      <3>1. uops'[x] = IF last /\ x = m.o THEN w ELSE y
        BY <1>2, <1>4, <2>1
      <3>2. y \in UopObject /\ n \in Int
        BY <2>1
      <3> HIDE DEF n, y
      <3>3. SameUop(y, w) /\ w.childDone = y.childDone /\ w.done = n
        BY <3>2, Ends
      <3> HIDE DEF w
      <3>4. SameUop(y, y)
        BY DEF SameUop
      <3>5. CASE last /\ x = m.o
        BY <3>1, <3>3, <3>5 DEF n, y
      <3>6. CASE ~(last /\ x = m.o)
        BY <3>1, <3>4, <3>6 DEF y
      <3> QED BY <3>5, <3>6
    <2>5. ASSUME NEW x \in Objects
          PROVE  SameUop(uops[x], uops'[x])
      <3>1. SameUop(uops[x], us[x]) /\ SameUop(us[x], uops'[x])
        BY <2>2, <2>4
      <3> QED BY <3>1 DEF SameUop
    <2>6. \A x \in Objects :
             /\ uops'[x].done = IF last /\ x = m.o THEN 0 ELSE uops[x].done
             /\ uops'[x].childDone = IF x = m.o /\ m.child # 0 THEN uops[x].childDone + 1 ELSE uops[x].childDone
      BY <2>2, <2>4
    <2> QED BY <2>3, <2>5, <2>6 DEF SameUop
  <1>7. Still(uops, uops')
    BY <1>6 DEF Still, Kin
  <1>8. Answered(uops', misses')
    <2>1. Kin(uops, uops') /\ uops[m.o].childDone \in Int
      BY <1>4, <1>5, <1>7 DEF Still, UopObject
    <2>2. CASE last
      <3>1. \A x \in Objects : /\ uops'[x].ins = uops[x].ins /\ uops'[x].issued = uops[x].issued
                               /\ uops'[x].done = IF x = m.o THEN 0 ELSE uops[x].done
                               /\ uops'[x].pending = uops[x].pending
        BY <1>6, <2>2
      <3>2. \A x \in Objects : uops'[x].childDone = IF x = m.o /\ m.child # 0 THEN uops[x].childDone + 1 ELSE uops[x].childDone
        BY <1>6
      <3>3. m \in misses /\ misses' = misses \ {m}
        BY <1>2
      <3>4. m.child = 0 \/ uops[m.o].childDone + 1 = Len(uops[m.o].children)
        BY <2>2
      <3> HIDE DEF last, us
      <3> QED BY ONLY <1>3, <2>1, <3>1, <3>2, <3>3, <3>4, LastAnswer
    <2>3. CASE ~last
      <3>1. m.child # 0 /\ uops[m.o].children # <<>>
        BY <1>4, <2>3
      <3>2. \A x \in Objects : /\ uops'[x].ins = uops[x].ins /\ uops'[x].issued = uops[x].issued
                               /\ uops'[x].done = uops[x].done /\ uops'[x].pending = uops[x].pending
                               /\ uops'[x].childDone = IF x = m.o THEN uops[x].childDone + 1 ELSE uops[x].childDone
        BY <1>6, <2>3, <3>1
      <3>3. m \in misses /\ misses' = misses \ {m}
        BY <1>2
      <3> HIDE DEF last, us
      <3> QED BY ONLY <1>3, <2>1, <3>1, <3>2, <3>3, OneAnswer
    <2> QED BY <2>2, <2>3
  <1>9. /\ threads' \in [Tids -> ThreadRecord]
        /\ \A t \in Tids : /\ threads'[t].retired = threads[t].retired /\ threads'[t].next = threads[t].next
                           /\ threads'[t].dispatch = threads[t].dispatch
                           /\ threads'[t].reachEnd = threads[t].reachEnd
    <2> DEFINE d == uops[m.o].tid
               f == threads[d]
               l == f.loads \ {uops[m.o].num}
               y == [f EXCEPT !.loads = l]
    <2>1. d \in Tids
      BY <1>4, ConfFacts, SoundParts DEF Typed, Homes
    <2>2. f \in ThreadRecord
      BY <1>5, <2>1
    <2>3. l \in SUBSET Int
      BY <2>2 DEF ThreadRecord
    <2>4. threads' = IF last THEN [threads EXCEPT ![d] = y] ELSE threads
      BY <1>2, <1>5, <2>1
    <2> HIDE DEF d, f, l, last
    <2>5. Quiet(f, y) /\ y.dispatch = f.dispatch
      BY <2>2, <2>3 DEF Quiet, ThreadRecord
    <2> HIDE DEF y
    <2>6. CASE last
      <3>1. threads' = [threads EXCEPT ![d] = y] /\ Quiet(threads[d], y)
        BY <2>4, <2>5, <2>6 DEF f
      <3>2. /\ threads' \in [Tids -> ThreadRecord]
            /\ \A s \in Tids : /\ threads'[s].retired = threads[s].retired /\ threads'[s].next = threads[s].next
                               /\ threads'[s].reachEnd = threads[s].reachEnd
            /\ \A s \in Tids : threads'[s].dispatch = IF s = d THEN y.dispatch ELSE threads[s].dispatch
        BY <1>5, <2>1, <3>1, ThreadChanged
      <3> QED BY <2>5, <3>2 DEF f
    <2>7. CASE ~last
      BY <1>5, <2>4, <2>7
    <2> QED BY <2>6, <2>7
  <1>10. Calm(conf, uops, uops', sched, sched', threads, threads')
    <2>1. Tids = TidsOf(conf)
      BY ConfFacts DEF Typed
    <2>2. \A o \in Objects : /\ uops[o].done = 0 => uops'[o].done = 0
                             /\ uops'[o].rdy => uops[o].rdy \/ Clear(uops, o)
      BY <1>6
    <2>3. sched' = sched
      BY <1>2
    <2> QED BY ONLY <1>7, <1>9, <2>1, <2>2, <2>3 DEF Calm
  <1>11. UopsTyped' /\ ThreadsTyped'
    BY <1>2, <1>6, <1>9, ThreadsKept DEF UopsTyped
  <1>12. LoopTyped'
    BY <1>2, Unmoved DEF Typed, LoopTyped
  <1>13. Typed'
    BY <1>2, <1>11, <1>12, Unmoved DEF Typed
  <1>14. Scheduled(conf, uops, rob, Bufs, sched')
    BY <1>2, SoundParts
  <1>15. Sound'
    BY <1>2, <1>8, <1>10, <1>14, CalmKeeps, Unmoved
  <1> QED BY <1>13, <1>15

--------------------------------------------------------------------------------
\* The scheduler tries the uop o: it is refused, some accesses are denied, or it is issued.
LEMMA SourcesClear ==
    ASSUME NEW o \in Objects, check_srcs(uops[o])
    PROVE  uops[o].rdy \/ Clear(uops, o)
  <1> SUFFICES ASSUME ~uops[o].rdy PROVE Clear(uops, o)
    OBVIOUS
  <1>1. Waiting(uops[o]) = {}
    BY DEF check_srcs
  <1> SUFFICES ASSUME NEW i \in DOMAIN uops[o].srcs, NEW p \in Objects, Points(uops, uops[o].srcs[i], p),
                      uops[p].valid, uops[p].tid = uops[o].tid
               PROVE  uops[p].done = 0
    BY DEF Clear
  <1>2. p # 0 /\ uops[o].srcs[i].o = p /\ uops[o].srcs[i].num = uops[p].num
    BY DEF Points, Objects
  <1>3. Live(uops[o], uops[o].srcs[i])
    BY <1>2 DEF Live, Deref
  <1>4. ~NotDone(uops[o].srcs[i].o)
    BY <1>1, <1>3 DEF Waiting
  <1> QED BY <1>2, <1>4 DEF NotDone

\* A step that changes the uop o, and only what it waits for.
LEMMA CalmAt ==
    ASSUME IInv, NEW o \in Objects, NEW y \in UopObject, uops' = [uops EXCEPT ![o] = y],
           y.valid = uops[o].valid, y.tid = uops[o].tid, y.at = uops[o].at, y.num = uops[o].num,
           y.children = uops[o].children, y.srcs = uops[o].srcs,
           y.ins = uops[o].ins, y.issued = uops[o].issued, y.q = uops[o].q, y.done = uops[o].done,
           y.rdy => uops[o].rdy \/ Clear(uops, o)
    PROVE  /\ uops' \in [Objects -> UopObject]
           /\ Calm(conf, uops, uops', sched, sched, threads, threads)
           /\ Kin(uops, uops')
           /\ \A x \in Objects : x # o => uops'[x] = uops[x]
           /\ uops'[o] = y
  <1>1. uops \in [Objects -> UopObject]
    BY DEF IInv, Typed, UopsTyped
  <1>2. /\ uops' \in [Objects -> UopObject] /\ uops'[o] = y
        /\ \A x \in Objects : x # o => uops'[x] = uops[x]
    BY <1>1
  <1>3. Kin(uops, uops')
    BY <1>2 DEF Kin
  <1>4. \A x \in Objects : /\ uops'[x].ins = uops[x].ins /\ uops'[x].issued = uops[x].issued
                           /\ uops'[x].q = uops[x].q /\ uops'[x].done = uops[x].done
                           /\ uops'[x].rdy => uops[x].rdy \/ Clear(uops, x)
    BY <1>2
  <1> QED BY <1>2, <1>3, <1>4 DEF Calm, Still

LEMMA RefuseCalm ==
    ASSUME IInv, NEW o \in Objects, Refuse(o)
    PROVE  /\ uops' \in [Objects -> UopObject]
           /\ Calm(conf, uops, uops', sched, sched, threads, threads')
           /\ Answered(uops', misses') /\ threads' = threads
           /\ \A x \in Objects : uops'[x].ins = uops[x].ins
  <1>1. uops' = AfterFailure(o) /\ threads' = threads /\ misses' = misses
    BY DEF Refuse
  <1>2. uops \in [Objects -> UopObject] /\ uops[o] \in UopObject
    BY DEF IInv, Typed, UopsTyped
  <1>3. Answered(uops, misses)
    BY SoundParts DEF IInv
  <1> DEFINE w == uops[o]
  <1>4. PICK y \in UopObject :
          /\ uops' = [uops EXCEPT ![o] = y]
          /\ y.valid = w.valid /\ y.tid = w.tid /\ y.at = w.at /\ y.num = w.num
          /\ y.children = w.children /\ y.srcs = w.srcs
          /\ y.ins = w.ins /\ y.issued = w.issued /\ y.q = w.q /\ y.done = w.done
          /\ y.pending = w.pending /\ y.childDone = w.childDone
          /\ y.rdy => w.rdy \/ Clear(uops, o)
    <2>1. CASE StillWaits(w)
      <3>1. uops' = [uops EXCEPT ![o] = w]
        BY <1>1, <1>2, <2>1 DEF AfterFailure
      <3> QED BY <1>2, <3>1
    <2>2. CASE ~StillWaits(w) /\ check_srcs(w)
      <3> DEFINE y == [w EXCEPT !.rdy = TRUE]
      <3>1. uops' = [uops EXCEPT ![o] = y]
        BY <1>1, <2>2 DEF AfterFailure
      <3>2. w.rdy \/ Clear(uops, o)
        BY <2>2, SourcesClear
      <3>3. y \in UopObject
        BY <1>2 DEF UopObject
      <3>4. y.valid = w.valid /\ y.tid = w.tid /\ y.at = w.at /\ y.num = w.num
            /\ y.children = w.children /\ y.srcs = w.srcs
            /\ y.ins = w.ins /\ y.issued = w.issued /\ y.q = w.q /\ y.done = w.done
            /\ y.pending = w.pending /\ y.childDone = w.childDone
        BY <1>2 DEF UopObject
      <3> HIDE DEF y, w
      <3> QED BY <3>1, <3>2, <3>3, <3>4
    <2>3. CASE ~StillWaits(w) /\ ~check_srcs(w)
      <3> DEFINE s == w.srcs[Min(Waiting(w))].o
      <3>1. s \in 0 .. NumObjects
        <4>1. w.srcs \in Seq(Src)
          BY <1>2, UopFields
        <4>2. Waiting(w) \subseteq 1 .. Len(w.srcs) /\ Waiting(w) # {} /\ Waiting(w) \in SUBSET Nat
          BY <2>3, <4>1 DEF Waiting, check_srcs
        <4>3. Min(Waiting(w)) \in Waiting(w)
          BY <4>2, SmallestIn
        <4>4. w.srcs[Min(Waiting(w))] \in Src
          BY <4>1, <4>2, <4>3, ElementOfSeq
        <4> QED BY <4>4 DEF Src
      <3> DEFINE y == IF w.last = 0 \/ uops[w.last].done < uops[s].done THEN [w EXCEPT !.last = s] ELSE w
      <3>2. uops' = [uops EXCEPT ![o] = y]
        BY <1>1, <2>3 DEF AfterFailure, Remember
      <3> HIDE DEF s
      <3>3. y \in UopObject
        BY <1>2, <3>1 DEF UopObject
      <3>4. y.valid = w.valid /\ y.tid = w.tid /\ y.at = w.at /\ y.num = w.num
            /\ y.children = w.children /\ y.srcs = w.srcs /\ y.rdy = w.rdy
            /\ y.ins = w.ins /\ y.issued = w.issued /\ y.q = w.q /\ y.done = w.done
            /\ y.pending = w.pending /\ y.childDone = w.childDone
        BY <1>2, <3>1 DEF UopObject
      <3> HIDE DEF y, w
      <3> QED BY <3>2, <3>3, <3>4
    <2> QED BY <2>1, <2>2, <2>3
  <1>5. /\ uops' \in [Objects -> UopObject]
        /\ Calm(conf, uops, uops', sched, sched, threads, threads)
        /\ Kin(uops, uops')
        /\ \A x \in Objects : x # o => uops'[x] = uops[x]
        /\ uops'[o] = y
    BY <1>4, CalmAt
  <1>6. \A x \in Objects : /\ uops'[x].ins = uops[x].ins /\ uops'[x].issued = uops[x].issued
                           /\ uops'[x].done = uops[x].done /\ uops'[x].pending = uops[x].pending
                           /\ uops'[x].childDone = uops[x].childDone
    BY <1>4, <1>5
  <1>7. Answered(uops', misses)
    BY <1>3, <1>5, <1>6, NearerAnswered
  <1> QED BY <1>1, <1>5, <1>6, <1>7

\* The accesses of the uop o in an attempt, and the uop after it.
Reached(o) == IF IsMemory(o) THEN Accesses(o) ELSE {}
LEMMA AccessedIs ==
    ASSUME IInv, NEW o \in Objects, uops[o].ins, NEW out \in [Reached(o) -> {"hit", "miss", "denied"}]
    PROVE  /\ Main(uops, o) /\ ~uops[o].issued /\ uops[o].done = Unset
           /\ IF uops[o].children = <<>> THEN Reached(o) \subseteq {0} ELSE Reached(o) = uops[o].pending
           /\ IsFiniteSet(Reached(o)) /\ DOMAIN out = Reached(o)
           /\ \E y \in UopObject :
                /\ y = Accessed(o, out) /\ y.rdy
                /\ y.valid = uops[o].valid /\ y.tid = uops[o].tid /\ y.at = uops[o].at /\ y.num = uops[o].num
                /\ y.children = uops[o].children /\ y.srcs = uops[o].srcs /\ y.mispred = uops[o].mispred
                /\ y.ins = uops[o].ins /\ y.issued = uops[o].issued /\ y.q = uops[o].q /\ y.done = uops[o].done
                /\ IF uops[o].children = <<>>
                   THEN y.pending = uops[o].pending /\ y.childDone = uops[o].childDone
                   ELSE /\ y.pending = With(out, "denied")
                        /\ y.childDone = uops[o].childDone + Cardinality(With(out, "hit"))
  <1> DEFINE w == uops[o]
             D == Reached(o)
  <1>1. Answered(uops, misses) /\ Owned(uops, pool)
    BY SoundParts DEF IInv
  <1>2. Main(uops, o) /\ ~w.issued /\ w.done = Unset
    BY <1>1 DEF Answered
  <1>3. w \in UopObject /\ (w.children # <<>> => IsMemory(o))
    BY <1>2, OpTyped
  <1>4. IF w.children = <<>> THEN D \subseteq {0} ELSE D = w.pending
    BY <1>3 DEF Reached, Accesses
  <1>5. IsFiniteSet(w.pending) /\ w.pending \in SUBSET Nat /\ w.childDone \in Int
    BY <1>1, <1>2, <1>3, PendingFinite, UopFields
  <1>6. IsFiniteSet({0})
    BY FS_Singleton
  <1>7. IsFiniteSet(D)
    BY <1>4, <1>5, <1>6, FS_Subset
  <1>8. Cardinality(With(out, "hit")) \in Nat /\ With(out, "denied") \subseteq D
    BY <1>7, OutcomesSplit
  <1>9. DOMAIN out = D
    OBVIOUS
  <1> DEFINE p == With(out, "denied")
             n == w.childDone + Cardinality(With(out, "hit"))
             x == [w EXCEPT !.rdy = TRUE]
             y == IF w.children = <<>> THEN x ELSE [x EXCEPT !.pending = p, !.childDone = n]
  <1>10. y = Accessed(o, out)
    <2>1. x.childDone = w.childDone
      BY <1>3 DEF UopObject
    <2> QED BY <2>1 DEF Accessed
  <1>11. n \in Int /\ (w.children # <<>> => p \in SUBSET Nat)
    BY <1>4, <1>5, <1>8
  <1>12. y \in UopObject /\ y.rdy
    <2> HIDE DEF p, n, w
    <2>1. x \in UopObject
      BY <1>3 DEF UopObject
    <2>2. x.rdy
      BY <1>3 DEF UopObject
    <2> HIDE DEF x
    <2> QED BY <1>11, <2>1, <2>2 DEF UopObject
  <1>13. /\ y.valid = w.valid /\ y.tid = w.tid /\ y.at = w.at /\ y.num = w.num
         /\ y.children = w.children /\ y.srcs = w.srcs /\ y.mispred = w.mispred
         /\ y.ins = w.ins /\ y.issued = w.issued /\ y.q = w.q /\ y.done = w.done
         /\ IF w.children = <<>> THEN y.pending = w.pending /\ y.childDone = w.childDone
            ELSE y.pending = p /\ y.childDone = n
    <2> HIDE DEF p, n, w
    <2> QED BY <1>3 DEF UopObject
  <1> HIDE DEF y
  <1> QED BY <1>2, <1>4, <1>7, <1>9, <1>10, <1>12, <1>13

\* A failed attempt.
LEMMA DeniedCalm ==
    ASSUME IInv, NEW o \in Objects, uops[o].ins, Issue(o, FALSE)
    PROVE  /\ uops' \in [Objects -> UopObject]
           /\ Calm(conf, uops, uops', sched, sched, threads, threads')
           /\ Answered(uops', misses') /\ threads' = threads
  <1>1. PICK out \in [Reached(o) -> Outcomes] :
          /\ ~Fails(o) /\ ~Executes(o, out)
          /\ misses' = misses \cup {[o |-> o, child |-> k] : k \in With(out, "miss")}
          /\ uops' = [uops EXCEPT ![o] = Accessed(o, out)] /\ threads' = threads
    BY DEF Issue, Reached
  <1>2. out \in [Reached(o) -> {"hit", "miss", "denied"}]
    BY <1>1 DEF Outcomes
  <1>3. /\ Main(uops, o)
        /\ IF uops[o].children = <<>> THEN Reached(o) \subseteq {0} ELSE Reached(o) = uops[o].pending
        /\ With(out, "denied") # {}
    BY <1>1, <1>2, AccessedIs DEF Executes
  <1>4. PICK y \in UopObject :
                /\ y = Accessed(o, out) /\ y.rdy
                /\ y.valid = uops[o].valid /\ y.tid = uops[o].tid /\ y.at = uops[o].at /\ y.num = uops[o].num
                /\ y.children = uops[o].children /\ y.srcs = uops[o].srcs /\ y.mispred = uops[o].mispred
                /\ y.ins = uops[o].ins /\ y.issued = uops[o].issued /\ y.q = uops[o].q /\ y.done = uops[o].done
                /\ IF uops[o].children = <<>>
                   THEN y.pending = uops[o].pending /\ y.childDone = uops[o].childDone
                   ELSE /\ y.pending = With(out, "denied")
                        /\ y.childDone = uops[o].childDone + Cardinality(With(out, "hit"))
    BY <1>2, AccessedIs
  <1>5. uops[o].rdy \/ Clear(uops, o)
    BY <1>1, SourcesClear DEF Fails
  <1>6. uops' = [uops EXCEPT ![o] = y]
    BY <1>1, <1>4
  <1>7. /\ uops' \in [Objects -> UopObject]
        /\ Calm(conf, uops, uops', sched, sched, threads, threads)
        /\ Kin(uops, uops')
        /\ \A x \in Objects : x # o => uops'[x] = uops[x]
        /\ uops'[o] = y
    BY <1>4, <1>5, <1>6, CalmAt
  <1>8. uops[o] \in UopObject /\ uops[o].childDone \in Int
    BY UopFields DEF IInv, Typed, UopsTyped
  <1>9. Attempted(uops, uops', o, misses, misses', Reached(o), out)
    BY <1>1, <1>2, <1>3, <1>4, <1>7, <1>8 DEF Attempted
  <1>10. Answered(uops, misses) /\ Owned(uops, pool)
    BY SoundParts DEF IInv
  <1>11. Answered(uops', misses')
    BY <1>3, <1>4, <1>7, <1>9, <1>10, AttemptAnswered
  <1> QED BY <1>1, <1>7, <1>11

\* A successful one.
LEMMA DoneStarts ==
    ASSUME IInv, NEW o \in Objects, uops[o].ins, Issue(o, TRUE)
    PROVE  /\ uops' \in [Objects -> UopObject]
           /\ Starts(uops, uops', o) /\ Answered(uops', misses')
           /\ uops[o].rdy \/ Clear(uops, o)
           /\ uops[o].q \in ToSet(Queues)
           /\ threads' \in [Tids -> ThreadRecord]
           /\ \A t \in Tids :
                /\ threads'[t].dispatch = IF t = uops[o].tid THEN threads[t].dispatch - 1 ELSE threads[t].dispatch
                /\ threads'[t].retired = threads[t].retired /\ threads'[t].next = threads[t].next
                /\ threads'[t].reachEnd = threads[t].reachEnd
  <1> DEFINE t0 == uops[o].tid
             ts == [threads EXCEPT ![t0].dispatch = @ - 1]
  <1>1. PICK out \in [Reached(o) -> Outcomes] :
          /\ ~Fails(o) /\ Executes(o, out)
          /\ misses' = misses \cup {[o |-> o, child |-> k] : k \in With(out, "miss")}
          /\ uops' = [uops EXCEPT ![o] = Executed(o, out)]
          /\ threads' = br_exec(o, IF LoadStalls(o, out) THEN set_load_wait(o, ts) ELSE ts)
    BY DEF Issue, Reached
  <1>2. out \in [Reached(o) -> {"hit", "miss", "denied"}]
    BY <1>1 DEF Outcomes
  <1>3. /\ Main(uops, o) /\ ~uops[o].issued /\ uops[o].done = Unset /\ DOMAIN out = Reached(o)
        /\ IF uops[o].children = <<>> THEN Reached(o) \subseteq {0} ELSE Reached(o) = uops[o].pending
        /\ With(out, "denied") = {}
    BY <1>1, <1>2, AccessedIs DEF Executes
  <1>4. PICK x \in UopObject :
                /\ x = Accessed(o, out) /\ x.rdy
                /\ x.valid = uops[o].valid /\ x.tid = uops[o].tid /\ x.at = uops[o].at /\ x.num = uops[o].num
                /\ x.children = uops[o].children /\ x.srcs = uops[o].srcs /\ x.mispred = uops[o].mispred
                /\ x.ins = uops[o].ins /\ x.issued = uops[o].issued /\ x.q = uops[o].q /\ x.done = uops[o].done
                /\ IF uops[o].children = <<>>
                   THEN x.pending = uops[o].pending /\ x.childDone = uops[o].childDone
                   ELSE /\ x.pending = With(out, "denied")
                        /\ x.childDone = uops[o].childDone + Cardinality(With(out, "hit"))
    BY <1>2, AccessedIs
  <1>5. /\ uops[o].rdy \/ Clear(uops, o)
        /\ uops[o].tid \in Tids /\ uops[o] \in UopObject /\ uops[o].q \in ToSet(Queues) /\ uops[o].childDone \in Int
        /\ Op(o) \in Instructions(conf) /\ (uops[o].children # <<>> => IsMemory(o))
        /\ uops[o].num \in Int
    BY <1>1, <1>3, SourcesClear, OpTyped, UopFields DEF Fails
  <1>6. /\ Latency(o, out) \in Int
        /\ Latency(o, out) # Unset =>
             /\ With(out, "miss") = {}
             /\ uops[o].children # <<>> => uops[o].childDone + Cardinality(Reached(o)) = Len(uops[o].children)
    <2>1. CASE IsMemory(o)
      <3>1. conf.hit \in Nat
        BY ConfFacts DEF IInv, Typed, ConfigOk
      <3> QED BY <1>3, <2>1, <3>1 DEF Latency, Unset
    <2>2. CASE ~IsMemory(o)
      <3>1. conf.latency \in [{"int", "fp", "br", "bar"} -> Nat]
        BY ConfFacts DEF IInv, Typed, ConfigOk
      <3>2. Op(o).kind \in {"int", "fp", "br", "bar", "ld", "st"}
        BY <1>5 DEF Instructions
      <3>3. Op(o).kind \in {"int", "fp", "br", "bar"}
        BY <2>2, <3>2 DEF IsMemory
      <3>4. Latency(o, out) \in Nat
        BY <2>2, <3>1, <3>3 DEF Latency, get_latency
      <3>5. Reached(o) = {} /\ With(out, "miss") = {}
        BY <1>3, <2>2 DEF Reached, With
      <3> QED BY <1>5, <2>2, <3>4, <3>5
    <2> QED BY <2>1, <2>2
  <1> DEFINE d == Latency(o, out)
             y == [x EXCEPT !.ins = FALSE, !.issued = TRUE, !.done = d]
  <1>7. uops' = [uops EXCEPT ![o] = y]
    BY <1>1, <1>4 DEF Executed
  <1>8. /\ y \in UopObject /\ ~y.ins /\ y.issued /\ y.done = d
        /\ y.valid = x.valid /\ y.tid = x.tid /\ y.at = x.at /\ y.num = x.num
        /\ y.children = x.children /\ y.srcs = x.srcs /\ y.q = x.q /\ y.pending = x.pending
        /\ y.childDone = x.childDone
    <2>1. d \in Int
      BY <1>6
    <2> HIDE DEF d
    <2>2. y \in UopObject
      BY <2>1 DEF UopObject
    <2> QED BY <2>1, <2>2 DEF UopObject
  <1> HIDE DEF y
  <1>9. uops \in [Objects -> UopObject]
    BY DEF IInv, Typed, UopsTyped
  <1>10. /\ uops' \in [Objects -> UopObject] /\ uops'[o] = y
         /\ \A z \in Objects : z # o => uops'[z] = uops[z]
    BY <1>7, <1>8, <1>9
  <1>11. Kin(uops, uops')
    BY <1>4, <1>8, <1>10 DEF Kin
  <1>12. Starts(uops, uops', o)
    BY <1>3, <1>4, <1>8, <1>10, <1>11 DEF Starts
  <1>13. Attempted(uops, uops', o, misses, misses', Reached(o), out)
    BY <1>1, <1>2, <1>3, <1>4, <1>5, <1>8, <1>10, <1>11 DEF Attempted
  <1>14. Answered(uops, misses) /\ Owned(uops, pool)
    BY SoundParts DEF IInv
  <1>15. Answered(uops', misses')
    <2>1. /\ ~uops'[o].ins /\ uops'[o].issued
          /\ uops'[o].done # Unset =>
               /\ With(out, "miss") = {}
               /\ uops[o].children # <<>> => uops[o].childDone + Cardinality(Reached(o)) = Len(uops[o].children)
      BY <1>6, <1>8, <1>10
    <2> QED BY <1>3, <1>13, <1>14, <2>1, AttemptAnswered
  <1>16. /\ threads' \in [Tids -> ThreadRecord]
         /\ \A t \in Tids :
              /\ threads'[t].dispatch = IF t = uops[o].tid THEN threads[t].dispatch - 1 ELSE threads[t].dispatch
              /\ threads'[t].retired = threads[t].retired /\ threads'[t].next = threads[t].next
              /\ threads'[t].reachEnd = threads[t].reachEnd
    <2>1. threads \in [Tids -> ThreadRecord]
      BY DEF IInv, Typed, ThreadsTyped
    <2>2. /\ ts \in [Tids -> ThreadRecord]
          /\ \A t \in Tids :
               /\ ts[t].dispatch = IF t = t0 THEN threads[t].dispatch - 1 ELSE threads[t].dispatch
               /\ ts[t].retired = threads[t].retired /\ ts[t].next = threads[t].next
               /\ ts[t].reachEnd = threads[t].reachEnd
      <3> DEFINE w == threads[t0]
                 n == w.dispatch - 1
                 z == [w EXCEPT !.dispatch = n]
      <3>1. w \in ThreadRecord
        BY <1>5, <2>1
      <3>2. ts = [threads EXCEPT ![t0] = z] /\ t0 \in Tids
        BY <1>5, <2>1
      <3>3. n \in Int
        BY <3>1 DEF ThreadRecord
      <3> HIDE DEF n, w, ts
      <3>4. Quiet(w, z) /\ z.dispatch = n
        BY <3>1, <3>3 DEF Quiet, ThreadRecord
      <3> HIDE DEF z
      <3> QED BY <2>1, <3>2, <3>4, ThreadChanged DEF n, w
    <2> HIDE DEF ts
    <2> DEFINE us == IF LoadStalls(o, out) THEN set_load_wait(o, ts) ELSE ts
    <2>3. /\ us \in [Tids -> ThreadRecord]
          /\ \A t \in Tids :
               /\ us[t].dispatch = ts[t].dispatch
               /\ us[t].retired = ts[t].retired /\ us[t].next = ts[t].next
               /\ us[t].reachEnd = ts[t].reachEnd
      <3>1. CASE LoadStalls(o, out)
        <4> DEFINE w == ts[t0]
                   l == w.loads \cup {uops[o].num}
                   z == [w EXCEPT !.loads = l]
        <4>1. w \in ThreadRecord
          BY <1>5, <2>2
        <4>2. us = [ts EXCEPT ![t0] = z] /\ t0 \in Tids
          BY <1>5, <2>2, <3>1 DEF set_load_wait
        <4>3. l \in SUBSET Int
          BY <1>5, <4>1 DEF ThreadRecord
        <4> HIDE DEF l, w, us
        <4>4. Quiet(w, z) /\ z.dispatch = w.dispatch
          BY <4>1, <4>3 DEF Quiet, ThreadRecord
        <4> HIDE DEF z
        <4> QED BY <2>2, <4>2, <4>4, ThreadChanged DEF w
      <3> QED BY <2>2, <3>1
    <2>4. threads' = br_exec(o, us)
      BY <1>1
    <2> HIDE DEF us
    <2>5. /\ threads' \in [Tids -> ThreadRecord]
          /\ \A t \in Tids :
               /\ threads'[t].dispatch = us[t].dispatch
               /\ threads'[t].retired = us[t].retired /\ threads'[t].next = us[t].next
               /\ threads'[t].reachEnd = us[t].reachEnd
      <3> DEFINE r == 1 + conf.extraRecovery
      <3>1. r \in Int
        BY ConfFacts DEF IInv, Typed, ConfigOk
      <3>2. threads' = IF Op(o).kind # "br" THEN us
                       ELSE [us EXCEPT ![t0].recovery = IF uops[o].mispred THEN r ELSE @,
                                       ![t0].redirect = IF uops[o].btbMiss THEN r ELSE @,
                                       ![t0].brWait = FALSE]
        BY <2>4 DEF br_exec
      <3> DEFINE w == us[t0]
                 a == IF uops[o].mispred THEN r ELSE w.recovery
                 d1 == IF uops[o].btbMiss THEN r ELSE w.redirect
                 z == [w EXCEPT !.recovery = a, !.redirect = d1, !.brWait = FALSE]
      <3> HIDE DEF r
      <3>3. CASE Op(o).kind # "br"
        BY <2>3, <3>2, <3>3
      <3>4. CASE Op(o).kind = "br"
        <4>1. w \in ThreadRecord
          BY <1>5, <2>3
        <4>2. threads' = [us EXCEPT ![t0] = z] /\ t0 \in Tids
          BY <1>5, <2>3, <3>2, <3>4
        <4>3. a \in Int /\ d1 \in Int
          BY <3>1, <4>1 DEF ThreadRecord
        <4> HIDE DEF a, d1, w
        <4>4. Quiet(w, z) /\ z.dispatch = w.dispatch
          BY <4>1, <4>3 DEF Quiet, ThreadRecord
        <4> HIDE DEF z
        <4> QED BY <2>3, <4>2, <4>4, ThreadChanged DEF w
      <3> QED BY <3>3, <3>4
    <2> QED BY <2>2, <2>3, <2>5
  <1> QED BY <1>5, <1>10, <1>12, <1>15, <1>16

--------------------------------------------------------------------------------
\* The schedulers.
LEMMA SchedFields ==
    ASSUME IInv
    PROVE  /\ sched.list \in [0 .. conf.list - 1 -> (Nat \X Nat) \cup {<<>>}]
           /\ sched.first \in 0 .. conf.list - 1 /\ sched.last \in 0 .. conf.list - 1
           /\ sched.num \in Int /\ sched.per \in [ToSet(Queues) -> Int]
           /\ sched.next \in 0 .. 2 * conf.rob - 1 /\ sched.used \in [ToSet(Queues) -> Int]
           /\ conf.list \in Nat \ {0} /\ conf.rob \in Nat \ {0}
  <1>1. sched \in SchedRecord(conf)
    BY DEF IInv, Typed, SchedTyped
  <1>2. conf.list \in Nat \ {0} /\ conf.rob \in Nat \ {0}
    BY ConfFacts DEF IInv, Typed
  <1> QED BY <1>1, <1>2 DEF SchedRecord, Entries

LEMMA SchedMade ==
    ASSUME NEW c, NEW s, DOMAIN s = DOMAIN sched, sched \in SchedRecord(c),
           s = [sched EXCEPT !.list = s.list, !.first = s.first, !.last = s.last, !.num = s.num,
                             !.per = s.per, !.next = s.next, !.used = s.used],
           s.list \in [0 .. c.list - 1 -> (Nat \X Nat) \cup {<<>>}],
           s.first \in 0 .. c.list - 1, s.last \in 0 .. c.list - 1, s.num \in Int,
           s.per \in [ToSet(Queues) -> Int], s.next \in 0 .. 2 * c.rob - 1, s.used \in [ToSet(Queues) -> Int]
    PROVE  s \in SchedRecord(c)
  <1> DEFINE F == [ToSet(Queues) -> Int]
             L == [0 .. c.list - 1 -> (Nat \X Nat) \cup {<<>>}]
  <1>1. sched \in [list : L, first : 0 .. c.list - 1, last : 0 .. c.list - 1,
                   num : Int, per : F, next : 0 .. 2 * c.rob - 1, used : F]
    BY DEF SchedRecord, Entries
  <1>2. s.list \in L /\ s.per \in F /\ s.used \in F
    OBVIOUS
  <1> HIDE DEF L, F
  <1>3. s \in [list : L, first : 0 .. c.list - 1, last : 0 .. c.list - 1,
               num : Int, per : F, next : 0 .. 2 * c.rob - 1, used : F]
    BY <1>1, <1>2
  <1> QED BY <1>3 DEF SchedRecord, Entries, L, F

\* The uop behind an entry of the list.
LEMMA ListedUop ==
    ASSUME IInv, conf.kind # "io", NEW i \in 0 .. conf.list - 1, sched.list[i] # <<>>
    PROVE  /\ At(sched.list[i]) \in Objects /\ uops[At(sched.list[i])].ins
           /\ At(sched.list[i]) = Behind(rob, sched.list[i])
  <1>1. Homes(conf, uops, Bufs, FrontEnd) /\ Rings(conf, rob, Bufs) /\ Scheduled(conf, uops, rob, Bufs, sched)
    BY SoundParts DEF IInv
  <1>2. Lives(conf, rob, Bufs, sched.list[i]) /\ uops[Behind(rob, sched.list[i])].ins
    BY <1>1 DEF Scheduled
  <1>3. At(sched.list[i]) = Behind(rob, sched.list[i])
    BY DEF At, Behind
  <1>4. Behind(rob, sched.list[i]) \in Objects
    BY <1>1, <1>2, LiveMain
  <1> QED BY <1>2, <1>3, <1>4

LEMMA ScanIssueKeeps ==
    ASSUME IInv, ScanIssue
    PROVE  IInv'
  <1> USE DEF IInv
  <1> DEFINE i == loop.at
             o == At(sched.list[i])
  <1>1. /\ UNCHANGED <<id, stage, pool, feq, iaq, rob, map, arbiter, sync>>
        /\ stage = "schedule" /\ conf.kind # "io" /\ sched.list[i] # <<>>
        /\ \/ /\ Issue(o, TRUE)
              /\ sched' = [Leave(o) EXCEPT !.list[i] = <<>>, !.first = IF @ = i THEN Next1(@) ELSE @]
              /\ loop' = [loop EXCEPT !.at = Next1(@), !.n = @ + 1]
           \/ /\ Issue(o, FALSE) \/ Refuse(o)
              /\ loop' = [loop EXCEPT !.at = Next1(@)]
              /\ sched' = sched
    BY DEF ScanIssue, Scanning
  <1>2. i \in 0 .. conf.list - 1
    BY <1>1 DEF Typed, LoopTyped
  <1>3. o \in Objects /\ uops[o].ins /\ o = Behind(rob, sched.list[i])
    BY <1>1, <1>2, ListedUop
  <1>4. Next1(i) = Wrap(i + 1, conf.list) /\ Next1(i) \in 0 .. conf.list - 1
    BY <1>2, NextPlace
  <1>5. LoopTyped'
    <2>1. loop \in [n : Nat, at : Nat, tid : Int, todo : Seq(Robs) \cup Seq(ToSet(Queues))]
      BY DEF Typed, LoopTyped
    <2>2. loop' \in [n : Nat, at : Nat, tid : Int, todo : Seq(Robs) \cup Seq(ToSet(Queues))]
          /\ loop'.at \in 0 .. conf.list - 1
      <3> DEFINE W == Seq(Robs) \cup Seq(ToSet(Queues))
                 x == Next1(i)
      <3>1. loop' = [loop EXCEPT !.at = x, !.n = @ + 1] \/ loop' = [loop EXCEPT !.at = x]
        BY <1>1
      <3>2. x \in Nat /\ x \in 0 .. conf.list - 1
        BY <1>4
      <3>3. loop \in [n : Nat, at : Nat, tid : Int, todo : W]
        BY <2>1
      <3> HIDE DEF W, x
      <3>4. loop' \in [n : Nat, at : Nat, tid : Int, todo : W] /\ loop'.at = x
        <4>1. CASE loop' = [loop EXCEPT !.at = x]
          BY <3>2, <3>3, <4>1
        <4>2. CASE loop' = [loop EXCEPT !.at = x, !.n = @ + 1]
          <5> DEFINE m == loop.n + 1
          <5>1. loop' = [loop EXCEPT !.at = x, !.n = m] /\ m \in Nat
            BY <3>3, <4>2
          <5> HIDE DEF m
          <5> QED BY <3>2, <3>3, <5>1
        <4> QED BY <3>1, <4>1, <4>2
      <3> QED BY <3>2, <3>4 DEF W
    <2> QED BY <1>1, <2>2, Unmoved DEF LoopTyped
  <1>6. CASE sched' = sched /\ (Issue(o, FALSE) \/ Refuse(o))
    <2>1. /\ uops' \in [Objects -> UopObject]
          /\ Calm(conf, uops, uops', sched, sched', threads, threads')
          /\ Answered(uops', misses') /\ threads' = threads
      BY <1>3, <1>6, RefuseCalm, DeniedCalm
    <2>2. Scheduled(conf, uops, rob, Bufs, sched')
      BY <1>6, SoundParts
    <2>3. Sound'
      BY <1>1, <2>1, <2>2, CalmKeeps, Unmoved
    <2>4. Typed'
      BY <1>1, <1>5, <1>6, <2>1, Unmoved DEF Typed, UopsTyped
    <2> QED BY <2>3, <2>4
  <1>7. CASE Issue(o, TRUE) /\ sched' = [Leave(o) EXCEPT !.list[i] = <<>>, !.first = IF @ = i THEN Next1(@) ELSE @]
    <2>1. /\ uops' \in [Objects -> UopObject]
          /\ Starts(uops, uops', o) /\ Answered(uops', misses')
          /\ uops[o].rdy \/ Clear(uops, o)
          /\ uops[o].q \in ToSet(Queues)
          /\ threads' \in [Tids -> ThreadRecord]
          /\ \A t \in Tids :
               /\ threads'[t].dispatch = IF t = uops[o].tid THEN threads[t].dispatch - 1 ELSE threads[t].dispatch
               /\ threads'[t].retired = threads[t].retired /\ threads'[t].next = threads[t].next
               /\ threads'[t].reachEnd = threads[t].reachEnd
      BY <1>3, <1>7, DoneStarts
    <2>2. /\ sched.list \in [0 .. conf.list - 1 -> (Nat \X Nat) \cup {<<>>}]
          /\ sched.first \in 0 .. conf.list - 1 /\ sched.last \in 0 .. conf.list - 1
          /\ sched.num \in Int /\ sched.per \in [ToSet(Queues) -> Int]
          /\ sched.next \in 0 .. 2 * conf.rob - 1 /\ sched.used \in [ToSet(Queues) -> Int]
          /\ conf.list \in Nat \ {0} /\ conf.rob \in Nat \ {0}
      BY SchedFields
    <2>3. sched \in SchedRecord(conf)
      BY DEF Typed, SchedTyped
    <2> DEFINE q == uops[o].q
               L == [sched.list EXCEPT ![i] = <<>>]
               f == IF sched.first = i THEN Next1(i) ELSE sched.first
               p == [sched.per EXCEPT ![q] = @ - 1]
               w == [sched.used EXCEPT ![q] = @ + 1]
               n == sched.num - 1
    <2>4. sched' = [sched EXCEPT !.num = n, !.per = p, !.used = w, !.list = L, !.first = f]
      BY <1>7, <2>3 DEF Leave, use_port, SchedRecord
    <2>5. /\ L \in [0 .. conf.list - 1 -> (Nat \X Nat) \cup {<<>>}] /\ f \in 0 .. conf.list - 1
          /\ p \in [ToSet(Queues) -> Int] /\ w \in [ToSet(Queues) -> Int] /\ n \in Int
      <3>1. q \in ToSet(Queues) /\ Next1(i) \in 0 .. conf.list - 1
        BY <1>4, <2>1
      <3> HIDE DEF i, q
      <3>2. f \in 0 .. conf.list - 1 /\ n \in Int
        BY <2>2, <3>1
      <3>3. p \in [ToSet(Queues) -> Int]
        BY <2>2, <3>1
      <3>4. w \in [ToSet(Queues) -> Int]
        BY <2>2, <3>1
      <3>5. L \in [0 .. conf.list - 1 -> (Nat \X Nat) \cup {<<>>}]
        BY <2>2
      <3> QED BY ONLY <3>2, <3>3, <3>4, <3>5
    <2>6. /\ sched'.list = L /\ sched'.first = f /\ sched'.last = sched.last /\ sched'.num = n
          /\ sched'.per = p /\ sched'.next = sched.next /\ sched'.used = w
          /\ DOMAIN sched' = DOMAIN sched
          /\ sched' = [sched EXCEPT !.list = L, !.first = f, !.last = sched.last, !.num = n,
                             !.per = p, !.next = sched.next, !.used = w]
      <3> HIDE DEF L, f, p, w, n
      <3> QED BY <2>3, <2>4 DEF SchedRecord
    <2>7. sched' \in SchedRecord(conf)
      <3> HIDE DEF L, f, p, w, n
      <3> QED BY <2>2, <2>3, <2>5, <2>6, SchedMade
    <2>8. /\ Homes(conf, uops, Bufs, FrontEnd) /\ Rings(conf, rob, Bufs) /\ Scheduled(conf, uops, rob, Bufs, sched)
      BY SoundParts
    <2>9. Scheduled(conf, uops', rob, Bufs, sched')
      <3> DEFINE T == [sched EXCEPT !.list = L]
      <3>1. T.list = L /\ T.first = sched.first /\ T.last = sched.last
        BY <2>3 DEF SchedRecord
      <3> HIDE DEF T
      <3>2. Scheduled(conf, uops', rob, Bufs, T)
        <4>1. /\ sched.list \in [0 .. conf.list - 1 -> (Nat \X Nat) \cup {<<>>}] /\ i \in 0 .. conf.list - 1
              /\ sched.list[i] # <<>> /\ Behind(rob, sched.list[i]) = o /\ Starts(uops, uops', o)
          BY <1>1, <1>2, <1>3, <2>1, <2>2
        <4> HIDE DEF o, i
        <4> QED BY ONLY <2>8, <3>1, <4>1, StartsScheduled DEF L
      <3>3. T.list[i] = <<>>
        BY <1>2, <2>2, <3>1
      <3>4. sched'.list = T.list /\ sched'.last = T.last
            /\ sched'.first = IF T.first = i THEN Wrap(i + 1, conf.list) ELSE T.first
        BY <1>4, <2>6, <3>1
      <3>5. T.first \in 0 .. conf.list - 1 /\ T.last \in 0 .. conf.list - 1
        BY <2>2, <3>1
      <3> QED BY <1>2, <2>2, <3>2, <3>3, <3>4, <3>5, HolePassed
    <2>10. Whole(conf, uops', rob, Bufs, FrontEnd, iaq, sched', threads', map, misses', pool)
      <3>1. Whole(conf, uops, rob, Bufs, FrontEnd, iaq, sched, threads, map, misses, pool)
        BY DEF Sound
      <3>2. 0 \in RobsOf(conf) /\ Tids = TidsOf(conf)
        BY ConfFacts DEF Typed
      <3>3. \A t \in TidsOf(conf) :
               /\ threads'[t].dispatch = IF t = uops[o].tid THEN threads[t].dispatch - 1 ELSE threads[t].dispatch
               /\ threads'[t].retired = threads[t].retired /\ threads'[t].next = threads[t].next
        BY <2>1, <3>2
      <3>4. sched'.num = sched.num - 1 /\ sched'.per = [sched.per EXCEPT ![uops[o].q] = @ - 1]
        BY <2>6
      <3>5. /\ uops'[o].rdy => uops[o].rdy \/ Clear(uops, o)
            /\ conf.kind = "io" => rob[0].slot[sched.next] = o /\ sched'.next = Wrap(sched.next + 1, 2 * conf.rob)
        BY <1>1, <2>1
      <3> HIDE DEF L, f, p, w, n, o, i, q
      <3>6. /\ Starts(uops, uops', o) /\ Answered(uops', misses') /\ uops[o].q \in ToSet(Queues)
            /\ sched.per \in [ToSet(Queues) -> Int]
        BY <2>1, <2>2
      <3> QED BY ONLY <2>9, <3>1, <3>2, <3>3, <3>4, <3>5, <3>6, StartsWhole
    <2>11. Sound'
      BY <1>1, <2>10, Unmoved DEF Sound
    <2>12. UopsTyped' /\ ThreadsTyped' /\ SchedTyped'
      BY <1>1, <2>1, <2>7, ThreadsKept, Unmoved DEF UopsTyped, SchedTyped
    <2> QED BY <1>1, <1>5, <2>11, <2>12, Unmoved DEF Typed
  <1> QED BY <1>1, <1>6, <1>7

\* The uop that the in-order core tries.
LEMMA InOrderUop ==
    ASSUME IInv, TakesInOrder
    PROVE  LET o == rob[0].slot[sched.next] IN o \in Objects /\ uops[o].ins /\ conf.kind = "io" /\ stage = "schedule"
  <1>1. /\ rob[0].slot[sched.next] # 0 /\ uops[rob[0].slot[sched.next]].ins /\ conf.kind = "io"
        /\ stage = "schedule"
    BY DEF TakesInOrder, InOrderSlot
  <1>2. 0 \in Robs /\ rob \in [Robs -> RobRecord(conf)] /\ sched.next \in 0 .. 2 * conf.rob - 1
    BY ConfFacts, SchedFields DEF IInv, Typed, RobsTyped
  <1>3. rob[0].slot \in [0 .. 2 * conf.rob - 1 -> 0 .. NumObjects]
    BY <1>2 DEF RobRecord
  <1>4. rob[0].slot[sched.next] \in 0 .. NumObjects
    BY <1>2, <1>3
  <1> QED BY <1>1, <1>4 DEF Objects

LEMMA InOrderStopKeeps ==
    ASSUME IInv, InOrderStop
    PROVE  IInv'
  <1> USE DEF IInv
  <1> DEFINE o == rob[0].slot[sched.next]
  <1>1. /\ UNCHANGED <<id, pool, feq, iaq, rob, sched, map, arbiter, sync>>
        /\ stage' = "advance" /\ loop' = [Idle EXCEPT !.todo = Queues]
        /\ TakesInOrder /\ (Issue(o, FALSE) \/ Refuse(o))
    BY DEF InOrderStop, InOrderSlot
  <1>2. o \in Objects /\ uops[o].ins
    BY <1>1, InOrderUop
  <1>3. /\ uops' \in [Objects -> UopObject]
        /\ Calm(conf, uops, uops', sched, sched, threads, threads')
        /\ Answered(uops', misses') /\ threads' = threads
    BY <1>1, <1>2, RefuseCalm, DeniedCalm
  <1>4. Calm(conf, uops, uops', sched, sched', threads, threads') /\ Scheduled(conf, uops, rob, Bufs, sched')
    BY <1>1, <1>3, SoundParts
  <1>5. Sound'
    BY <1>1, <1>3, <1>4, CalmKeeps, Unmoved
  <1>6. LoopTyped'
    <2>1. Queues \in Seq(ToSet(Queues))
      BY DEF Queues, ToSet
    <2>2. loop' = [n |-> 0, at |-> 0, tid |-> -1, todo |-> Queues]
      BY <1>1 DEF Idle
    <2> QED BY <1>1, <2>1, <2>2, IdleTyped
  <1>7. Typed'
    BY <1>1, <1>3, <1>6, Unmoved DEF Typed, UopsTyped
  <1> QED BY <1>5, <1>7

LEMMA InOrderIssueKeeps ==
    ASSUME IInv, InOrderIssue
    PROVE  IInv'
  <1> USE DEF IInv
  <1> DEFINE o == rob[0].slot[sched.next]
             m == 2 * conf.rob
  <1>1. /\ UNCHANGED <<id, stage, pool, feq, iaq, rob, map, arbiter, sync>>
        /\ TakesInOrder /\ Issue(o, TRUE)
        /\ sched' = [Leave(o) EXCEPT !.first = Next1(@), !.next = (sched.next + 1) % (2 * conf.rob)]
        /\ loop' = [loop EXCEPT !.n = @ + 1]
    BY DEF InOrderIssue, InOrderSlot
  <1>2. o \in Objects /\ uops[o].ins /\ conf.kind = "io" /\ stage = "schedule"
    BY <1>1, InOrderUop
  <1>3. /\ uops' \in [Objects -> UopObject]
        /\ Starts(uops, uops', o) /\ Answered(uops', misses')
        /\ uops[o].rdy \/ Clear(uops, o)
        /\ uops[o].q \in ToSet(Queues)
        /\ threads' \in [Tids -> ThreadRecord]
        /\ \A t \in Tids :
             /\ threads'[t].dispatch = IF t = uops[o].tid THEN threads[t].dispatch - 1 ELSE threads[t].dispatch
             /\ threads'[t].retired = threads[t].retired /\ threads'[t].next = threads[t].next
             /\ threads'[t].reachEnd = threads[t].reachEnd
    BY <1>1, <1>2, DoneStarts
  <1>4. /\ sched.list \in [0 .. conf.list - 1 -> (Nat \X Nat) \cup {<<>>}]
        /\ sched.first \in 0 .. conf.list - 1 /\ sched.last \in 0 .. conf.list - 1
        /\ sched.num \in Int /\ sched.per \in [ToSet(Queues) -> Int]
        /\ sched.next \in 0 .. 2 * conf.rob - 1 /\ sched.used \in [ToSet(Queues) -> Int]
        /\ conf.list \in Nat \ {0} /\ conf.rob \in Nat \ {0}
    BY SchedFields
  <1>5. sched \in SchedRecord(conf)
    BY DEF Typed, SchedTyped
  <1>6. (sched.next + 1) % m = Wrap(sched.next + 1, m) /\ Wrap(sched.next + 1, m) \in 0 .. m - 1
    <2>1. m \in Nat \ {0} /\ sched.next \in 0 .. m - 1
      <3>1. sched.next \in 0 .. 2 * conf.rob - 1 /\ conf.rob \in Nat \ {0}
        BY <1>4
      <3> QED BY ONLY <3>1
    <2> HIDE DEF m
    <2>2. sched.next + 1 \in Nat /\ sched.next + 1 < 2 * m
      BY <2>1
    <2>3. Wrap(sched.next + 1, m) \in 0 .. m - 1
      BY <2>1 DEF Wrap
    <2> QED BY <2>1, <2>2, <2>3, Wraps
  <1>7. Next1(sched.first) \in 0 .. conf.list - 1
    BY <1>4, NextPlace
  <1> DEFINE q == uops[o].q
             f == Next1(sched.first)
             x == Wrap(sched.next + 1, m)
             p == [sched.per EXCEPT ![q] = @ - 1]
             w == [sched.used EXCEPT ![q] = @ + 1]
             n == sched.num - 1
  <1>8. sched' = [sched EXCEPT !.num = n, !.per = p, !.used = w, !.first = f, !.next = x]
    <2>1. (sched.next + 1) % (2 * conf.rob) = x
      BY <1>6
    <2>2. sched' = [Leave(o) EXCEPT !.first = Next1(@), !.next = x]
      BY <1>1, <2>1
    <2> HIDE DEF x
    <2> QED BY <1>5, <2>2 DEF Leave, use_port, SchedRecord
  <1>9. /\ f \in 0 .. conf.list - 1 /\ x \in 0 .. 2 * conf.rob - 1
        /\ p \in [ToSet(Queues) -> Int] /\ w \in [ToSet(Queues) -> Int] /\ n \in Int
    <2>1. q \in ToSet(Queues)
      BY <1>3
    <2> HIDE DEF q, f, x
    <2>2. p \in [ToSet(Queues) -> Int]
      BY <1>4, <2>1
    <2>3. w \in [ToSet(Queues) -> Int]
      BY <1>4, <2>1
    <2>4. n \in Int
      BY <1>4
    <2> QED BY <1>6, <1>7, <2>2, <2>3, <2>4 DEF f, x
  <1>10. /\ sched'.list = sched.list /\ sched'.first = f /\ sched'.last = sched.last /\ sched'.num = n
         /\ sched'.per = p /\ sched'.next = x /\ sched'.used = w
         /\ DOMAIN sched' = DOMAIN sched
         /\ sched' = [sched EXCEPT !.list = sched.list, !.first = f, !.last = sched.last, !.num = n,
                            !.per = p, !.next = x, !.used = w]
    <2> HIDE DEF f, p, w, n, x
    <2> QED BY <1>5, <1>8 DEF SchedRecord
  <1>11. sched' \in SchedRecord(conf)
    <2> HIDE DEF f, p, w, n, x
    <2> QED BY <1>4, <1>5, <1>9, <1>10, SchedMade
  <1>12. Whole(conf, uops', rob, Bufs, FrontEnd, iaq, sched', threads', map, misses', pool)
    <2>1. Whole(conf, uops, rob, Bufs, FrontEnd, iaq, sched, threads, map, misses, pool)
      BY DEF Sound
    <2>2. 0 \in RobsOf(conf) /\ Tids = TidsOf(conf)
      BY ConfFacts DEF Typed
    <2>3. \A t \in TidsOf(conf) :
             /\ threads'[t].dispatch = IF t = uops[o].tid THEN threads[t].dispatch - 1 ELSE threads[t].dispatch
             /\ threads'[t].retired = threads[t].retired /\ threads'[t].next = threads[t].next
      BY <1>3, <2>2
    <2>4. sched'.num = sched.num - 1 /\ sched'.per = [sched.per EXCEPT ![uops[o].q] = @ - 1]
      BY <1>10
    <2>5. /\ uops'[o].rdy => uops[o].rdy \/ Clear(uops, o)
          /\ conf.kind = "io" => rob[0].slot[sched.next] = o /\ sched'.next = Wrap(sched.next + 1, 2 * conf.rob)
      BY <1>3, <1>10
    <2>6. /\ Starts(uops, uops', o) /\ Answered(uops', misses') /\ uops[o].q \in ToSet(Queues)
          /\ sched.per \in [ToSet(Queues) -> Int]
      BY <1>3, <1>4
    <2>7. Scheduled(conf, uops', rob, Bufs, sched')
      BY <1>2 DEF Scheduled
    <2> HIDE DEF f, p, w, n, o, x, q, m
    <2> QED BY ONLY <2>1, <2>2, <2>3, <2>4, <2>5, <2>6, <2>7, StartsWhole
  <1>13. Sound'
    BY <1>1, <1>12, Unmoved DEF Sound
  <1>14. UopsTyped' /\ ThreadsTyped' /\ SchedTyped'
    BY <1>1, <1>3, <1>11, ThreadsKept, Unmoved DEF UopsTyped, SchedTyped
  <1>15. LoopTyped'
    <2>1. loop \in [n : Nat, at : Nat, tid : Int, todo : Seq(Robs) \cup Seq(ToSet(Queues))]
          /\ loop.at \in 0 .. conf.list - 1
      BY <1>2 DEF Typed, LoopTyped
    <2> DEFINE W == Seq(Robs) \cup Seq(ToSet(Queues))
               k == loop.n + 1
    <2>2. loop' = [loop EXCEPT !.n = k] /\ k \in Nat /\ loop \in [n : Nat, at : Nat, tid : Int, todo : W]
      BY <1>1, <2>1
    <2>3. loop' \in [n : Nat, at : Nat, tid : Int, todo : W] /\ loop'.at = loop.at
      <3> HIDE DEF W, k
      <3> QED BY <2>2
    <2> QED BY <1>1, <1>2, <2>1, <2>3, Unmoved DEF LoopTyped
  <1> QED BY <1>1, <1>13, <1>14, <1>15, Unmoved DEF Typed

--------------------------------------------------------------------------------
\* From an allocation queue to the scheduler.
LEMMA BucketOf ==
    ASSUME IInv, NEW q \in ToSet(Queues)
    PROVE  /\ iaq[q] \in Seq(Seq(Entries)) /\ Len(iaq[q]) = 1 /\ iaq[q][1] \in Seq(Entries)
  <1> DEFINE X == Seq(Entries)
  <1>1. iaq[q] \in Seq(X) /\ Len(iaq[q]) = 1
    BY DEF IInv, Typed, QueuesTyped
  <1> HIDE DEF X
  <1>2. iaq[q][1] \in X
    BY <1>1, ElementOfSeq
  <1> QED BY <1>1, <1>2 DEF X

\* The allocation queues, when the bucket of the queue q becomes x.
LEMMA BucketChanged ==
    ASSUME IInv, NEW q \in ToSet(Queues), NEW x \in Seq(Entries), NEW y, y = [iaq[q] EXCEPT ![1] = x],
           iaq' = [iaq EXCEPT ![q] = y], feq' \in Seq(Seq(Objects)), feq' # <<>>
    PROVE  /\ QueuesTyped'
           /\ \A p \in ToSet(Queues) : iaq'[p][1] = IF p = q THEN x ELSE iaq[p][1]
  <1> DEFINE X == Seq(Entries)
  <1>1. /\ iaq \in [ToSet(Queues) -> Seq(X)] /\ \A p \in ToSet(Queues) : Len(iaq[p]) = 1
        /\ x \in X
    BY DEF IInv, Typed, QueuesTyped
  <1>2. iaq' = [iaq EXCEPT ![q] = y]
    OBVIOUS
  <1> HIDE DEF X
  <1>3. y \in Seq(X) /\ Len(y) = 1 /\ y[1] = x
    BY <1>1
  <1>4. /\ iaq' \in [ToSet(Queues) -> Seq(X)]
        /\ \A p \in ToSet(Queues) : iaq'[p] = IF p = q THEN y ELSE iaq[p]
    BY <1>1, <1>2, <1>3
  <1>5. \A p \in ToSet(Queues) : Len(iaq'[p]) = 1
    BY <1>1, <1>3, <1>4
  <1> QED BY <1>3, <1>4, <1>5 DEF QueuesTyped, X

LEMMA AdvanceKeeps ==
    ASSUME IInv, Advance
    PROVE  IInv'
  <1> USE DEF IInv
  <1> DEFINE q == Head(loop.todo)
             b == iaq[q][1]
             e == Head(b)
             o == At(e)
  <1>1. /\ UNCHANGED <<id, stage, pool, feq, rob, map, threads, arbiter, sync, misses, trouble>>
        /\ stage = "advance" /\ loop.todo # <<>> /\ b # <<>> /\ Next1(sched.last) # sched.first
        /\ iaq' = [iaq EXCEPT ![q] = dequeue(@)]
        /\ uops' = [uops EXCEPT ![o].ins = TRUE]
        /\ sched' = [sched EXCEPT !.list[sched.last] = e, !.last = Next1(@),
                                  !.num = @ + 1, !.per[uops[o].q] = @ + 1]
        /\ loop' = [loop EXCEPT !.n = @ + 1]
    BY DEF Advance, Moves, ready
  <1>2. q \in ToSet(Queues)
    <2> DEFINE s == loop.todo
               X == ToSet(Queues)
    <2>1. s \in Seq(X) /\ s # <<>>
      BY <1>1 DEF Typed, LoopTyped
    <2> HIDE DEF s, X
    <2>2. Head(s) \in X
      BY <2>1
    <2> QED BY <2>2 DEF s, X
  <1>3. b \in Seq(Entries) /\ iaq[q] \in Seq(Seq(Entries)) /\ Len(iaq[q]) = 1
    BY <1>2, BucketOf
  <1>4. e \in Entries /\ e \in ToSet(b) /\ Tail(b) \in Seq(Entries) /\ e # <<>>
    <2> HIDE DEF b
    <2>1. Head(b) = b[1] /\ Head(b) \in Entries /\ Tail(b) \in Seq(Entries) /\ 1 \in DOMAIN b
      BY <1>1, <1>3
    <2>2. Head(b) \in ToSet(b)
      BY <2>1 DEF ToSet
    <2>3. Head(b) # <<>>
      <3>1. PICK i \in Nat, j \in Nat : Head(b) = <<i, j>>
        BY <2>1 DEF Entries
      <3>2. Len(<<i, j>>) = 2
        OBVIOUS
      <3> QED BY <3>1, <3>2
    <2> QED BY <2>1, <2>2, <2>3
  <1>5. /\ Homes(conf, uops, Bufs, FrontEnd) /\ Rings(conf, rob, Bufs) /\ Waits(conf, uops, rob, Bufs, FrontEnd, iaq)
    BY SoundParts
  <1>6. /\ Lives(conf, rob, Bufs, e) /\ o = Behind(rob, e)
        /\ ~uops[o].ins /\ ~uops[o].issued /\ uops[o].q = q
    <2>1. o = Behind(rob, e)
      BY DEF At, Behind
    <2> QED BY <1>2, <1>4, <1>5, <2>1 DEF Waits
  <1>7. o \in Objects /\ Main(uops, o)
    BY <1>5, <1>6, LiveMain
  <1>8. uops \in [Objects -> UopObject] /\ uops[o] \in UopObject
    BY <1>7 DEF Typed, UopsTyped
  <1> DEFINE y == [uops[o] EXCEPT !.ins = TRUE]
  <1>9. /\ uops' = [uops EXCEPT ![o] = y] /\ y \in UopObject /\ y.ins
        /\ y.valid = uops[o].valid /\ y.tid = uops[o].tid /\ y.at = uops[o].at /\ y.num = uops[o].num
        /\ y.children = uops[o].children /\ y.srcs = uops[o].srcs /\ y.issued = uops[o].issued
        /\ y.q = uops[o].q /\ y.done = uops[o].done /\ y.rdy = uops[o].rdy /\ y.pending = uops[o].pending
        /\ y.childDone = uops[o].childDone
    <2>1. uops' = [uops EXCEPT ![o] = y]
      BY <1>1, <1>8
    <2> DEFINE u == uops[o]
    <2>2. u \in UopObject
      BY <1>8
    <2>3. y = [u EXCEPT !.ins = TRUE]
      OBVIOUS
    <2> HIDE DEF u, y
    <2>4. /\ y \in UopObject /\ y.ins
          /\ y.valid = u.valid /\ y.tid = u.tid /\ y.at = u.at /\ y.num = u.num
          /\ y.children = u.children /\ y.srcs = u.srcs /\ y.issued = u.issued
          /\ y.q = u.q /\ y.done = u.done /\ y.rdy = u.rdy /\ y.pending = u.pending
          /\ y.childDone = u.childDone
      BY <2>2, <2>3 DEF UopObject
    <2> QED BY <2>1, <2>4 DEF u
  <1>10. /\ uops' \in [Objects -> UopObject] /\ uops'[o] = y
         /\ \A x \in Objects : x # o => uops'[x] = uops[x]
    <2> HIDE DEF y, o
    <2> QED BY <1>7, <1>8, <1>9
  <1>11. Kin(uops, uops')
    BY <1>9, <1>10 DEF Kin
  <1>12. Enters(uops, uops', o)
    BY <1>6, <1>7, <1>9, <1>10, <1>11 DEF Enters
  <1>13. QueuesTyped' /\ \A p \in ToSet(Queues) : iaq'[p][1] = IF p = q THEN Tail(b) ELSE iaq[p][1]
    <2> DEFINE z == [iaq[q] EXCEPT ![1] = Tail(b)]
    <2>1. iaq' = [iaq EXCEPT ![q] = z]
      <3>1. dequeue(iaq[q]) = z
        BY DEF dequeue
      <3>2. iaq \in [ToSet(Queues) -> Seq(Seq(Entries))]
        BY DEF Typed, QueuesTyped
      <3> HIDE DEF z, q
      <3> QED BY <1>1, <1>2, <3>1, <3>2
    <2>2. feq' \in Seq(Seq(Objects)) /\ feq' # <<>>
      BY <1>1 DEF Typed, QueuesTyped
    <2>3. z = [iaq[q] EXCEPT ![1] = Tail(b)]
      OBVIOUS
    <2> HIDE DEF q, b, z
    <2> QED BY <1>2, <1>4, <2>1, <2>2, <2>3, BucketChanged
  <1>14. Taken(iaq, q, iaq')
    BY <1>1, <1>2, <1>3, <1>13 DEF Taken, Entries
  <1>15. /\ sched.list \in [0 .. conf.list - 1 -> (Nat \X Nat) \cup {<<>>}]
         /\ sched.first \in 0 .. conf.list - 1 /\ sched.last \in 0 .. conf.list - 1
         /\ sched.num \in Int /\ sched.per \in [ToSet(Queues) -> Int]
         /\ sched.next \in 0 .. 2 * conf.rob - 1 /\ sched.used \in [ToSet(Queues) -> Int]
         /\ conf.list \in Nat \ {0} /\ conf.rob \in Nat \ {0} /\ sched \in SchedRecord(conf)
    BY SchedFields DEF Typed, SchedTyped
  <1>16. Next1(sched.last) = Wrap(sched.last + 1, conf.list) /\ Next1(sched.last) \in 0 .. conf.list - 1
    BY <1>15, NextPlace
  <1> DEFINE L == [sched.list EXCEPT ![sched.last] = e]
             l == Next1(sched.last)
             p == [sched.per EXCEPT ![q] = @ + 1]
             n == sched.num + 1
  <1>17. sched' = [sched EXCEPT !.list = L, !.last = l, !.num = n, !.per = p]
    <2> HIDE DEF e, q, o
    <2> QED BY <1>1, <1>6, <1>15 DEF SchedRecord
  <1>18. /\ L \in [0 .. conf.list - 1 -> (Nat \X Nat) \cup {<<>>}] /\ l \in 0 .. conf.list - 1
         /\ p \in [ToSet(Queues) -> Int] /\ n \in Int
    <2>1. e \in Nat \X Nat
      BY <1>4 DEF Entries
    <2> HIDE DEF e, q
    <2>2. L \in [0 .. conf.list - 1 -> (Nat \X Nat) \cup {<<>>}]
      BY <1>15, <2>1
    <2>3. p \in [ToSet(Queues) -> Int]
      BY <1>2, <1>15
    <2>4. n \in Int
      BY <1>15
    <2>5. l \in 0 .. conf.list - 1
      BY <1>16
    <2> HIDE DEF L, l, p, n
    <2> QED BY <2>2, <2>3, <2>4, <2>5
  <1>19. /\ sched'.list = L /\ sched'.first = sched.first /\ sched'.last = l /\ sched'.num = n
         /\ sched'.per = p /\ sched'.next = sched.next /\ sched'.used = sched.used
         /\ DOMAIN sched' = DOMAIN sched
         /\ sched' = [sched EXCEPT !.list = L, !.first = sched.first, !.last = l, !.num = n,
                            !.per = p, !.next = sched.next, !.used = sched.used]
    <2> HIDE DEF L, l, p, n
    <2> QED BY <1>15, <1>17 DEF SchedRecord
  <1>20. sched' \in SchedRecord(conf)
    <2> HIDE DEF L, l, p, n
    <2> QED BY <1>15, <1>18, <1>19, SchedMade
  <1>21. Whole(conf, uops', rob, Bufs, FrontEnd, iaq', sched', threads, map, misses, pool)
    <2>1. Whole(conf, uops, rob, Bufs, FrontEnd, iaq, sched, threads, map, misses, pool)
      BY DEF Sound
    <2>2. 0 \in RobsOf(conf)
      BY ConfFacts DEF Typed
    <2>3. /\ o = Behind(rob, Head(iaq[q][1])) /\ Head(iaq[q][1]) # <<>>
      BY <1>4, <1>6
    <2>4. /\ sched'.list = [sched.list EXCEPT ![sched.last] = Head(iaq[q][1])] /\ sched'.first = sched.first
          /\ sched'.last = Wrap(sched.last + 1, conf.list) /\ sched'.next = sched.next
          /\ sched'.num = sched.num + 1 /\ sched'.per = [sched.per EXCEPT ![q] = @ + 1]
          /\ Wrap(sched.last + 1, conf.list) # sched.first
      BY <1>1, <1>16, <1>19
    <2> HIDE DEF L, l, p, n, o, e, b, q
    <2> QED BY ONLY ZenonT(60), <1>12, <1>14, <1>15, <2>1, <2>2, <2>3, <2>4, EntersWhole
  <1>22. Sound'
    BY <1>1, <1>21, Unmoved DEF Sound
  <1>23. UopsTyped' /\ SchedTyped'
    BY <1>1, <1>10, <1>20, Unmoved DEF UopsTyped, SchedTyped
  <1>24. LoopTyped'
    <2>1. loop \in [n : Nat, at : Nat, tid : Int, todo : Seq(Robs) \cup Seq(ToSet(Queues))]
          /\ loop.todo \in Seq(ToSet(Queues))
      BY <1>1 DEF Typed, LoopTyped
    <2> DEFINE W == Seq(Robs) \cup Seq(ToSet(Queues))
               k == loop.n + 1
    <2>2. loop' = [loop EXCEPT !.n = k] /\ k \in Nat /\ loop \in [n : Nat, at : Nat, tid : Int, todo : W]
      <3>1. loop \in [n : Nat, at : Nat, tid : Int, todo : W]
        BY <2>1
      <3> HIDE DEF W, q, e, o
      <3> QED BY <1>1, <3>1
    <2>3. loop' \in [n : Nat, at : Nat, tid : Int, todo : W] /\ loop'.todo = loop.todo
      <3> HIDE DEF W, k
      <3> QED BY <2>2
    <2> QED BY <1>1, <2>1, <2>3, Unmoved DEF LoopTyped
  <1> QED BY <1>1, <1>13, <1>22, <1>23, <1>24, Unmoved DEF Typed

--------------------------------------------------------------------------------
\* From the frontend queue to the reorder buffer and an allocation queue.
LEMMA RingsBufs ==
    ASSUME Typed, id' = id, NEW C, C = [r \in Robs |-> C[r]], Rings(conf, rob', C)
    PROVE  Bufs' = C
  <1> DEFINE m == 2 * conf.rob
  <1>1. conf' = conf /\ Robs' = Robs /\ Robs = RobsOf(conf)
    BY Unmoved, ConfFacts DEF Typed
  <1>2. ASSUME NEW r \in Robs
        PROVE  InRob(r)' = C[r]
    <2> DEFINE f == rob'[r].first
               l == rob'[r].last
               s == rob'[r].slot
    <2>1. Circular(0 .. NumObjects, m, s, f, l, C[r])
      BY <1>1 DEF Rings
    <2>2. InRob(r)' = Circle(s, f, l, m)
      BY <1>1 DEF InRob, Circle
    <2> HIDE DEF m, f, l, s
    <2>3. m \in Nat \ {0} /\ f \in 0 .. m - 1 /\ l \in 0 .. m - 1
          /\ C[r] = [j \in 1 .. Gap(f, l, m) |-> s[SlotOf(f, j, m)]]
      BY <2>1 DEF Circular
    <2>4. Circle(s, f, l, m) = [j \in 1 .. Gap(f, l, m) |-> s[SlotOf(f, j, m)]]
      BY <2>3, CircleIs
    <2> QED BY <2>2, <2>3, <2>4
  <1>3. Bufs' = [r \in Robs |-> InRob(r)']
    BY <1>1 DEF Bufs
  <1>4. [r \in Robs |-> InRob(r)'] = [r \in Robs |-> C[r]]
    BY <1>2
  <1> QED BY <1>3, <1>4

LEMMA RobFields ==
    ASSUME IInv, NEW r \in Robs
    PROVE  /\ rob[r] \in RobRecord(conf) /\ rob[r].slot \in [0 .. 2 * conf.rob - 1 -> 0 .. NumObjects]
           /\ rob[r].first \in 0 .. 2 * conf.rob - 1 /\ rob[r].last \in 0 .. 2 * conf.rob - 1
           /\ rob[r].free \in Int /\ conf.rob \in Nat \ {0}
  <1>1. rob[r] \in RobRecord(conf) /\ conf.rob \in Nat \ {0}
    BY ConfFacts DEF IInv, Typed, RobsTyped
  <1> QED BY <1>1 DEF RobRecord

\* The counter of the resource k of a reorder buffer is changed by d.
Spend(x, k, d) == IF k \in Resources THEN [x EXCEPT ![k] = @ + d] ELSE x
LEMMA Spent ==
    ASSUME NEW c, NEW x \in RobRecord(c), NEW k, NEW d \in Int, NEW y, y = Spend(x, k, d)
    PROVE  /\ y \in RobRecord(c) /\ y.slot = x.slot /\ y.first = x.first /\ y.last = x.last /\ y.free = x.free
           /\ \A j \in Resources : y[j] = IF j = k THEN x[j] + d ELSE x[j]
  <1> DEFINE F == [0 .. 2 * c.rob - 1 -> 0 .. NumObjects]
             I == 0 .. 2 * c.rob - 1
  <1>1. x \in [slot : F, first : I, last : I, free : Int, st : Int, ld : Int, int : Int, fp : Int]
    BY DEF RobRecord
  <1> SUFFICES /\ y \in [slot : F, first : I, last : I, free : Int, st : Int, ld : Int, int : Int, fp : Int]
               /\ y.slot = x.slot /\ y.first = x.first /\ y.last = x.last /\ y.free = x.free
               /\ \A j \in Resources : y[j] = IF j = k THEN x[j] + d ELSE x[j]
    BY DEF RobRecord
  <1> HIDE DEF F, I
  <1>2. CASE k \notin Resources
    BY <1>1, <1>2 DEF Spend
  <1>3. CASE k = "ld"
    <2>1. y = [x EXCEPT !.ld = x.ld + d]
      BY <1>3 DEF Spend, Resources
    <2> QED BY <1>1, <1>3, <2>1 DEF Resources
  <1>4. CASE k = "st"
    <2>1. y = [x EXCEPT !.st = x.st + d]
      BY <1>4 DEF Spend, Resources
    <2> QED BY <1>1, <1>4, <2>1 DEF Resources
  <1>5. CASE k = "int"
    <2>1. y = [x EXCEPT !.int = x.int + d]
      BY <1>5 DEF Spend, Resources
    <2> QED BY <1>1, <1>5, <2>1 DEF Resources
  <1>6. CASE k = "fp"
    <2>1. y = [x EXCEPT !.fp = x.fp + d]
      BY <1>6 DEF Spend, Resources
    <2> QED BY <1>1, <1>6, <2>1 DEF Resources
  <1> QED BY <1>2, <1>3, <1>4, <1>5, <1>6 DEF Resources

\* A slot of a ring one further.
LEMMA NextOfRing ==
    ASSUME NEW n \in Nat \ {0}, NEW i \in 0 .. 2 * n - 1
    PROVE  (i + 1) % (2 * n) = Wrap(i + 1, 2 * n) /\ Wrap(i + 1, 2 * n) \in 0 .. 2 * n - 1
  <1> DEFINE m == 2 * n
  <1>1. m \in Nat \ {0} /\ i \in 0 .. m - 1
    OBVIOUS
  <1> HIDE DEF m
  <1>2. i + 1 \in Nat /\ i + 1 < 2 * m
    BY <1>1
  <1>3. Wrap(i + 1, m) \in 0 .. m - 1
    BY <1>1 DEF Wrap
  <1>4. (i + 1) % m = Wrap(i + 1, m)
    BY <1>1, <1>2, Wraps
  <1> QED BY <1>3, <1>4 DEF m

LEMMA PushedIs ==
    ASSUME IInv, NEW r \in Robs, NEW o \in Objects, NEW y, y = Pushed(rob[r], o)
    PROVE  /\ y \in RobRecord(conf)
           /\ y.slot = [rob[r].slot EXCEPT ![rob[r].last] = o] /\ y.first = rob[r].first
           /\ y.last = Wrap(rob[r].last + 1, 2 * conf.rob) /\ y.free = rob[r].free - 1
           /\ \A k \in Resources : y[k] = IF Resource(o) = k THEN rob[r][k] - 1 ELSE rob[r][k]
  <1> DEFINE x == rob[r]
             s == [x.slot EXCEPT ![x.last] = o]
             l == Wrap(x.last + 1, 2 * conf.rob)
             f == x.free - 1
             p == [x EXCEPT !.slot = s, !.last = l, !.free = f]
  <1>1. /\ x \in RobRecord(conf) /\ x.slot \in [0 .. 2 * conf.rob - 1 -> 0 .. NumObjects]
        /\ x.first \in 0 .. 2 * conf.rob - 1 /\ x.last \in 0 .. 2 * conf.rob - 1
        /\ x.free \in Int /\ conf.rob \in Nat \ {0}
    BY RobFields
  <1>2. (x.last + 1) % (2 * conf.rob) = l /\ l \in 0 .. 2 * conf.rob - 1
    BY <1>1, NextOfRing
  <1>3. s \in [0 .. 2 * conf.rob - 1 -> 0 .. NumObjects] /\ f \in Int
    <2>1. o \in 0 .. NumObjects
      BY DEF Objects
    <2> HIDE DEF x
    <2> QED BY <1>1, <2>1
  <1>4. y = Spend(p, Resource(o), -1)
    <2> DEFINE g == [x EXCEPT !.slot[x.last] = o, !.last = (@ + 1) % (2 * conf.rob), !.free = @ - 1]
    <2>1. g = p
      <3>1. g = [x EXCEPT !.slot = s, !.last = (x.last + 1) % (2 * conf.rob), !.free = f]
        BY <1>1 DEF RobRecord
      <3> QED BY <1>2, <3>1
    <2>2. y = IF Resource(o) \in Resources THEN [g EXCEPT ![Resource(o)] = @ - 1] ELSE g
      BY DEF Pushed
    <2>3. CASE Resource(o) \notin Resources
      BY <2>1, <2>2, <2>3 DEF Spend
    <2>4. CASE Resource(o) \in Resources
      <3> DEFINE k == Resource(o)
      <3>1. y = [p EXCEPT ![k] = p[k] - 1]
        BY <2>1, <2>2, <2>4
      <3>2. p \in RobRecord(conf)
        <4> DEFINE F == [0 .. 2 * conf.rob - 1 -> 0 .. NumObjects]
                   I == 0 .. 2 * conf.rob - 1
        <4>1. x \in [slot : F, first : I, last : I, free : Int, st : Int, ld : Int, int : Int, fp : Int]
          BY <1>1 DEF RobRecord
        <4>2. s \in F /\ l \in I /\ f \in Int
          BY <1>2, <1>3
        <4> HIDE DEF F, I, x, s, l, f
        <4>3. p \in [slot : F, first : I, last : I, free : Int, st : Int, ld : Int, int : Int, fp : Int]
          BY <4>1, <4>2
        <4> QED BY <4>3 DEF RobRecord, F, I
      <3>3. p[k] \in Int
        <4> HIDE DEF p, k
        <4>1. k \in {"ld", "st", "int", "fp"}
          BY <2>4 DEF k, Resources
        <4> QED BY <3>2, <4>1 DEF RobRecord
      <3>4. p[k] - 1 = p[k] + -1
        BY <3>3
      <3>5. Spend(p, k, -1) = [p EXCEPT ![k] = p[k] + -1]
        BY <2>4 DEF Spend
      <3> QED BY <3>1, <3>4, <3>5
    <2> QED BY <2>3, <2>4
  <1>5. p \in RobRecord(conf) /\ p.slot = s /\ p.first = x.first /\ p.last = l /\ p.free = f
        /\ \A k \in Resources : p[k] = x[k] /\ x[k] \in Int
    <2> DEFINE F == [0 .. 2 * conf.rob - 1 -> 0 .. NumObjects]
               I == 0 .. 2 * conf.rob - 1
    <2>1. x \in [slot : F, first : I, last : I, free : Int, st : Int, ld : Int, int : Int, fp : Int]
      BY <1>1 DEF RobRecord
    <2>2. s \in F /\ l \in I /\ f \in Int
      BY <1>2, <1>3
    <2> HIDE DEF F, I, x, s, l, f
    <2>3. /\ p \in [slot : F, first : I, last : I, free : Int, st : Int, ld : Int, int : Int, fp : Int]
          /\ p.slot = s /\ p.first = x.first /\ p.last = l /\ p.free = f
      BY <2>1, <2>2
    <2>4. \A k \in Resources : p[k] = x[k] /\ x[k] \in Int
      BY <2>1 DEF Resources
    <2> QED BY <2>3, <2>4 DEF RobRecord, F, I
  <1>6. /\ y \in RobRecord(conf) /\ y.slot = p.slot /\ y.first = p.first /\ y.last = p.last /\ y.free = p.free
        /\ \A j \in Resources : y[j] = IF j = Resource(o) THEN p[j] + -1 ELSE p[j]
    <2> HIDE DEF p
    <2>1. -1 \in Int
      OBVIOUS
    <2> QED BY <1>4, <1>5, <2>1, Spent
  <1> HIDE DEF p
  <1>7. \A k \in Resources : y[k] = IF Resource(o) = k THEN x[k] - 1 ELSE x[k]
    BY <1>5, <1>6
  <1> QED BY <1>5, <1>6, <1>7

LEMMA AllocateKeeps ==
    ASSUME IInv, Allocate
    PROVE  IInv'
  <1> USE DEF IInv
  <1> DEFINE o == Head(feq[1])
             i == RobOf(uops[o].tid)
             q == QueueOf(o)
             e == <<i, rob[i].last>>
             w == Pushed(rob[i], o)
  <1>1. /\ UNCHANGED <<id, stage, pool, sched, map, threads, arbiter, sync, misses, trouble>>
        /\ stage = "allocate" /\ feq[1] # <<>> /\ rob[i].free > 0
        /\ rob' = [rob EXCEPT ![i] = w]
        /\ iaq' = [iaq EXCEPT ![q] = enqueue(@, e)]
        /\ uops' = [uops EXCEPT ![o].q = q]
        /\ feq' = dequeue(feq)
        /\ loop' = [loop EXCEPT !.n = @ + 1]
    BY DEF Allocate, Allocates, ready, HasSpace
  <1>2. feq \in Seq(Seq(Objects)) /\ feq # <<>>
    BY DEF Typed, QueuesTyped
  <1>3. /\ feq' \in Seq(Seq(Objects)) /\ feq' # <<>> /\ FrontEnd # <<>> /\ Head(FrontEnd) = o /\ FrontEnd' = Tail(FrontEnd)
    <2>1. feq' = [feq EXCEPT ![1] = Tail(@)]
      BY <1>1 DEF dequeue
    <2> QED BY <1>1, <1>2, <2>1, FlatTail DEF FrontEnd
  <1>4. /\ Homes(conf, uops, Bufs, FrontEnd) /\ Rings(conf, rob, Bufs) /\ Counted(conf, uops, rob, Bufs, sched, threads)
    BY SoundParts
  <1>5. FrontEnd \in Seq(Objects)
    BY <1>4 DEF Homes
  <1>6. o \in Objects /\ Main(uops, o)
    <2>1. FrontEnd[1] = o /\ 1 \in 1 .. Len(FrontEnd)
      BY <1>3, <1>5
    <2>2. o \in Objects
      BY <1>5, <2>1
    <2>3. Occurs(o, FrontEnd)
      BY <2>1 DEF Occurs
    <2> QED BY <1>4, <2>2, <2>3 DEF Homes
  <1>7. /\ uops[o].tid \in Tids /\ Resource(o) = KindOf(conf, uops, o) /\ uops[o] \in UopObject
    BY <1>6, OpTyped DEF Resource
  <1>8. /\ i \in Robs /\ Robs = RobsOf(conf) /\ i = RobFor(conf, uops[o].tid) /\ Robs \subseteq Nat
        /\ conf.rob \in Nat \ {0} /\ 0 \in RobsOf(conf) /\ \A k \in Resources : LimitOf(conf, k) \in Nat
    BY <1>7, ConfFacts DEF Typed
  <1>9. First(conf, uops, FrontEnd, i, o)
    BY <1>3, <1>8 DEF First
  <1>10. q \in ToSet(Queues)
    BY DEF QueueOf, Queues, ToSet
  <1>11. /\ w \in RobRecord(conf)
         /\ w.slot = [rob[i].slot EXCEPT ![rob[i].last] = o] /\ w.first = rob[i].first
         /\ w.last = Wrap(rob[i].last + 1, 2 * conf.rob) /\ w.free = rob[i].free - 1
         /\ \A k \in Resources : w[k] = IF Resource(o) = k THEN rob[i][k] - 1 ELSE rob[i][k]
    <2>1. w = Pushed(rob[i], o)
      OBVIOUS
    <2> HIDE DEF w, i, o
    <2> QED BY <1>6, <1>8, <2>1, PushedIs
  <1>12. e \in Entries
    <2>1. rob[i].last \in 0 .. 2 * conf.rob - 1
      BY <1>8, RobFields
    <2>2. rob[i].last \in Nat /\ i \in Nat
      BY <1>8, <2>1
    <2> HIDE DEF i
    <2> QED BY <2>2 DEF Entries
  <1>13. /\ rob' \in [Robs -> RobRecord(conf)] /\ rob'[i] = w
         /\ \A p \in Robs : p # i => rob'[p] = rob[p]
    <2>1. rob \in [Robs -> RobRecord(conf)]
      BY DEF Typed, RobsTyped
    <2> HIDE DEF w, i
    <2> QED BY <1>1, <1>8, <1>11, <2>1
  <1> DEFINE C == [r \in Robs |-> IF r = i THEN Append(Bufs[i], o) ELSE Bufs[r]]
  <1>14. Pushes(conf, rob, rob', Bufs, C, i, o)
    <2>1. Bufs[i] \in Seq(Objects)
      BY <1>4, <1>8 DEF Homes
    <2>2. Len(Bufs[i]) + 1 < 2 * conf.rob
      <3>1. rob[i].free = conf.rob - Len(Bufs[i]) /\ Len(Bufs[i]) \in Nat /\ rob[i].free > 0
        BY <1>1, <1>4, <1>8, <2>1 DEF Counted
      <3> QED BY ONLY <1>8, <3>1
    <2>3. C[i] = Append(Bufs[i], o) /\ \A p \in Robs : p # i => C[p] = Bufs[p]
      BY <1>8
    <2> HIDE DEF C, w, i, o
    <2> QED BY <1>6, <1>8, <1>11, <1>13, <2>2, <2>3 DEF Pushes
  <1>15. QueuesTyped' /\ Given(iaq, iaq', q, e)
    <2> DEFINE x == Append(iaq[q][1], e)
               z == [iaq[q] EXCEPT ![1] = x]
    <2>1. iaq[q] \in Seq(Seq(Entries)) /\ Len(iaq[q]) = 1 /\ iaq[q][1] \in Seq(Entries)
      BY <1>10, BucketOf
    <2>2. iaq' = [iaq EXCEPT ![q] = z]
      <3>1. enqueue(iaq[q], e) = z
        BY <2>1 DEF enqueue
      <3>2. iaq \in [ToSet(Queues) -> Seq(Seq(Entries))]
        BY DEF Typed, QueuesTyped
      <3> HIDE DEF z, q, e
      <3> QED BY <1>1, <1>10, <3>1, <3>2
    <2>3. x \in Seq(Entries)
      <3> HIDE DEF q, e
      <3> QED BY <1>12, <2>1
    <2>4. z = [iaq[q] EXCEPT ![1] = x]
      OBVIOUS
    <2>5. QueuesTyped' /\ \A p \in ToSet(Queues) : iaq'[p][1] = IF p = q THEN x ELSE iaq[p][1]
      <3> HIDE DEF x, z, q, e
      <3> QED BY <1>3, <1>10, <2>2, <2>3, <2>4, BucketChanged
    <2> HIDE DEF q, e
    <2> QED BY <1>10, <1>12, <2>1, <2>5 DEF Given, Entries
  <1> DEFINE y == [uops[o] EXCEPT !.q = q]
  <1>16. /\ uops' = [uops EXCEPT ![o] = y] /\ y \in UopObject /\ y.q = q
         /\ y.valid = uops[o].valid /\ y.tid = uops[o].tid /\ y.at = uops[o].at /\ y.num = uops[o].num
         /\ y.children = uops[o].children /\ y.srcs = uops[o].srcs /\ y.issued = uops[o].issued
         /\ y.ins = uops[o].ins /\ y.done = uops[o].done /\ y.rdy = uops[o].rdy /\ y.pending = uops[o].pending
         /\ y.childDone = uops[o].childDone
    <2>1. uops' = [uops EXCEPT ![o] = y]
      <3>1. uops \in [Objects -> UopObject]
        BY DEF Typed, UopsTyped
      <3> QED BY <1>1, <1>6, <3>1
    <2> DEFINE u == uops[o]
    <2>2. u \in UopObject
      BY <1>7
    <2>3. y = [u EXCEPT !.q = q]
      OBVIOUS
    <2> HIDE DEF u, y, q
    <2>4. /\ y \in UopObject /\ y.q = q
          /\ y.valid = u.valid /\ y.tid = u.tid /\ y.at = u.at /\ y.num = u.num
          /\ y.children = u.children /\ y.srcs = u.srcs /\ y.issued = u.issued
          /\ y.ins = u.ins /\ y.done = u.done /\ y.rdy = u.rdy /\ y.pending = u.pending
          /\ y.childDone = u.childDone
      BY <1>10, <2>2, <2>3 DEF UopObject
    <2> QED BY <2>1, <2>4 DEF u
  <1>17. /\ uops' \in [Objects -> UopObject] /\ uops'[o] = y
         /\ \A x \in Objects : x # o => uops'[x] = uops[x]
    <2>1. uops \in [Objects -> UopObject]
      BY DEF Typed, UopsTyped
    <2> HIDE DEF y, o
    <2> QED BY <1>6, <1>16, <2>1
  <1>18. Kin(uops, uops')
    BY <1>16, <1>17 DEF Kin
  <1>19. Joins(uops, uops', o, q)
    <2> HIDE DEF y, o, q
    <2> QED BY <1>6, <1>16, <1>17, <1>18 DEF Joins
  <1>20. Whole(conf, uops', rob', C, Tail(FrontEnd), iaq', sched, threads, map, misses, pool)
    <2>1. Whole(conf, uops, rob, Bufs, FrontEnd, iaq, sched, threads, map, misses, pool)
      BY DEF Sound
    <2>2. /\ rob'[i].free = rob[i].free - 1
          /\ \A k \in Resources : rob'[i][k] = IF KindOf(conf, uops, o) = k THEN rob[i][k] - 1 ELSE rob[i][k]
          /\ conf.rob \in Nat
      BY <1>7, <1>8, <1>11, <1>13
    <2>3. e = <<i, rob[i].last>>
      OBVIOUS
    <2> HIDE DEF C, w, i, o, e, q
    <2> QED BY ONLY <1>8, <1>9, <1>14, <1>15, <1>19, <2>1, <2>2, <2>3, JoinsWhole
  <1>21. Bufs' = C
    <2>1. Rings(conf, rob', C)
      BY <1>20 DEF Whole
    <2>2. C = [r \in Robs |-> C[r]]
      OBVIOUS
    <2> HIDE DEF C
    <2> QED BY <1>1, <2>1, <2>2, RingsBufs
  <1>22. Sound'
    BY <1>1, <1>3, <1>20, <1>21, Unmoved DEF Sound
  <1>23. UopsTyped' /\ RobsTyped'
    BY <1>1, <1>13, <1>17, Unmoved DEF UopsTyped, RobsTyped
  <1>24. LoopTyped'
    <2> DEFINE W == Seq(Robs) \cup Seq(ToSet(Queues))
               k == loop.n + 1
    <2>1. loop \in [n : Nat, at : Nat, tid : Int, todo : W]
      BY DEF Typed, LoopTyped
    <2> HIDE DEF W, q, e, o, i, w
    <2>2. loop' = [loop EXCEPT !.n = k] /\ k \in Nat
      BY <1>1, <2>1
    <2>3. loop' \in [n : Nat, at : Nat, tid : Int, todo : W] /\ loop'.todo = loop.todo
      <3> HIDE DEF k
      <3> QED BY <2>1, <2>2
    <2> QED BY <1>1, <2>3, Unmoved DEF LoopTyped, W
  <1> QED BY <1>1, <1>15, <1>22, <1>23, <1>24, Unmoved DEF Typed

--------------------------------------------------------------------------------
\* The oldest uop retires.
LEMMA PoppedIs ==
    ASSUME IInv, NEW r \in Robs, NEW o, NEW y, y = Popped(r, o)
    PROVE  /\ y \in RobRecord(conf)
           /\ y.slot = rob[r].slot /\ y.last = rob[r].last
           /\ y.first = Wrap(rob[r].first + 1, 2 * conf.rob) /\ y.free = rob[r].free + 1
           /\ \A k \in Resources : y[k] = IF Resource(o) = k THEN rob[r][k] + 1 ELSE rob[r][k]
  <1> DEFINE x == rob[r]
             l == Wrap(x.first + 1, 2 * conf.rob)
             f == x.free + 1
             p == [x EXCEPT !.first = l, !.free = f]
  <1>1. /\ x \in RobRecord(conf)
        /\ x.first \in 0 .. 2 * conf.rob - 1
        /\ x.free \in Int /\ conf.rob \in Nat \ {0}
    BY RobFields
  <1>2. (x.first + 1) % (2 * conf.rob) = l /\ l \in 0 .. 2 * conf.rob - 1
    BY <1>1, NextOfRing
  <1>3. f \in Int
    BY <1>1
  <1>4. p \in RobRecord(conf) /\ p.slot = x.slot /\ p.first = l /\ p.last = x.last /\ p.free = f
        /\ \A k \in Resources : p[k] = x[k] /\ x[k] \in Int
    <2> DEFINE F == [0 .. 2 * conf.rob - 1 -> 0 .. NumObjects]
               I == 0 .. 2 * conf.rob - 1
    <2>1. x \in [slot : F, first : I, last : I, free : Int, st : Int, ld : Int, int : Int, fp : Int]
      BY <1>1 DEF RobRecord
    <2>2. l \in I
      BY <1>2
    <2> HIDE DEF F, I, x, l, f
    <2>3. /\ p \in [slot : F, first : I, last : I, free : Int, st : Int, ld : Int, int : Int, fp : Int]
          /\ p.slot = x.slot /\ p.first = l /\ p.last = x.last /\ p.free = f
      BY <1>3, <2>1, <2>2
    <2>4. \A k \in Resources : p[k] = x[k] /\ x[k] \in Int
      BY <2>1 DEF Resources
    <2> QED BY <2>3, <2>4 DEF RobRecord, F, I
  <1>5. y = Spend(p, Resource(o), 1)
    <2> DEFINE g == [x EXCEPT !.first = (@ + 1) % (2 * conf.rob), !.free = @ + 1]
    <2>1. g = p
      <3>1. g = [x EXCEPT !.first = (x.first + 1) % (2 * conf.rob), !.free = f]
        BY <1>1 DEF RobRecord
      <3> QED BY <1>2, <3>1
    <2>2. y = IF Resource(o) \in Resources THEN [g EXCEPT ![Resource(o)] = @ + 1] ELSE g
      BY DEF Popped
    <2> HIDE DEF g, p
    <2> QED BY <2>1, <2>2 DEF Spend
  <1>6. /\ y \in RobRecord(conf) /\ y.slot = p.slot /\ y.first = p.first /\ y.last = p.last /\ y.free = p.free
        /\ \A j \in Resources : y[j] = IF j = Resource(o) THEN p[j] + 1 ELSE p[j]
    <2> HIDE DEF p
    <2>1. 1 \in Int
      OBVIOUS
    <2> QED BY <1>4, <1>5, <2>1, Spent
  <1> HIDE DEF p
  <1>7. \A k \in Resources : y[k] = IF Resource(o) = k THEN x[k] + 1 ELSE x[k]
    BY <1>4, <1>6
  <1> QED BY <1>4, <1>6, <1>7

LEMMA NewMapTyped ==
    ASSUME Typed
    PROVE  NewMap \in MapRecord(conf, Addresses)
  <1> DEFINE z == [o |-> 0, num |-> 0]
             F == [r \in conf.regs |-> z]
             G == [a \in Addresses |-> 0]
  <1>1. z \in Src
    BY PipelineAssumption DEF Src
  <1>2. NewMap = [reg |-> F, store |-> G]
    BY DEF NewMap
  <1>3. 0 \in 0 .. NumObjects
    BY PipelineAssumption
  <1> HIDE DEF z
  <1>4. F \in [conf.regs -> Src] /\ G \in [Addresses -> 0 .. NumObjects]
    BY <1>1, <1>3
  <1> HIDE DEF F, G
  <1> QED BY <1>2, <1>4 DEF MapRecord

\* The map of a thread whose store hash changes at one place.
StoreSet(m, t, a, x) == [m EXCEPT ![t].store[a] = x]
LEMMA StoreChanged ==
    ASSUME NEW m \in [Tids -> MapRecord(conf, Addresses)], NEW t, NEW a, NEW x \in 0 .. NumObjects
    PROVE  /\ StoreSet(m, t, a, x) \in [Tids -> MapRecord(conf, Addresses)]
           /\ \A s \in Tids : StoreSet(m, t, a, x)[s].reg = m[s].reg
  <1> DEFINE n == StoreSet(m, t, a, x)
  <1> USE DEF StoreSet
  <1> DEFINE G == [Addresses -> 0 .. NumObjects]
             F == [conf.regs -> Src]
             y == [m[t].store EXCEPT ![a] = x]
             z == [m[t] EXCEPT !.store = y]
  <1>1. CASE t \notin Tids
    BY <1>1
  <1>2. CASE t \in Tids
    <2>1. n = [m EXCEPT ![t] = z]
      BY <1>2
    <2>2. m[t] \in [reg : F, store : G]
      BY <1>2 DEF MapRecord
    <2>3. m[t].store \in G
      <3> HIDE DEF F, G
      <3> QED BY <2>2
    <2>4. y \in G
      BY <2>3
    <2>5. z \in [reg : F, store : G] /\ z.reg = m[t].reg
      <3> HIDE DEF F, G, y
      <3> QED BY <2>2, <2>4
    <2>6. z \in MapRecord(conf, Addresses)
      BY <2>5 DEF MapRecord
    <2> HIDE DEF z, y, F, G, n
    <2>7. n \in [Tids -> MapRecord(conf, Addresses)] /\ \A s \in Tids : n[s].reg = m[s].reg
      BY <1>2, <2>1, <2>5, <2>6
    <2> QED BY <2>7 DEF n
  <1> QED BY <1>1, <1>2

LEMMA FreedIs ==
    ASSUME NEW x \in UopObject
    PROVE  Freed(x) \in UopObject /\ ~Freed(x).valid /\ Freed(x).ins = x.ins
  <1> DEFINE k == -1
             n == 0
  <1>1. Freed(x) = [x EXCEPT !.valid = FALSE, !.num = n, !.tid = k] /\ k \in Int /\ n \in Int
    BY DEF Freed
  <1> DEFINE y == [x EXCEPT !.valid = FALSE, !.num = n, !.tid = k]
  <1> HIDE DEF k, n
  <1>2. y \in UopObject /\ ~y.valid /\ y.ins = x.ins
    <2>1. k \in Int /\ n \in Int
      BY <1>1
    <2> DEFINE a == [x EXCEPT !.valid = FALSE]
               b == [a EXCEPT !.num = n]
    <2>2. a \in UopObject /\ ~a.valid /\ a.ins = x.ins
      BY ONLY x \in UopObject DEF UopObject
    <2> HIDE DEF a
    <2>3. b \in UopObject /\ b.valid = a.valid /\ b.ins = a.ins
      BY ONLY <2>1, <2>2 DEF UopObject
    <2> HIDE DEF b
    <2>4. [b EXCEPT !.tid = k] \in UopObject /\ [b EXCEPT !.tid = k].valid = b.valid /\ [b EXCEPT !.tid = k].ins = b.ins
      BY ONLY <2>1, <2>3 DEF UopObject
    <2>5. y = [b EXCEPT !.tid = k]
      BY DEF a, b
    <2> QED BY <2>2, <2>3, <2>4, <2>5
  <1>3. Freed(x) = y
    BY <1>1
  <1> HIDE DEF y
  <1> QED BY <1>2, <1>3

LEMMA RetireKeeps ==
    ASSUME IInv, Retire
    PROVE  IInv'
  <1> USE DEF IInv
  <1> DEFINE r == Head(loop.todo)
             o == rob[r].slot[rob[r].first]
             t == uops[o].tid
             lastUop == uops[o].at = Len(Program(t))
             w == Popped(r, o)
  <1>1. /\ UNCHANGED <<id, stage, feq, iaq, sched, arbiter, misses, trouble>>
        /\ stage = "retire" /\ loop.todo # <<>>
        /\ rob[r].free < conf.rob /\ uops[o].done = 0
        /\ rob' = [rob EXCEPT ![r] = w]
        /\ threads' = [threads EXCEPT ![t].retired = @ + 1, ![t].reachEnd = lastUop]
        /\ map' = IF lastUop THEN [map EXCEPT ![t] = NewMap] ELSE delete_store_hash_entry(o)
        /\ uops' = [x \in Objects |-> IF x = o \/ x \in ToSet(uops[o].children)
                                      THEN Freed(uops[x]) ELSE uops[x]]
        /\ pool' = <<o>> \o Reverse(uops[o].children) \o pool
        /\ loop' = [loop EXCEPT !.todo = Tail(@)]
    BY DEF Retire, Retireable
  <1>2. r \in Robs /\ Tail(loop.todo) \in Seq(Robs)
    <2> DEFINE s == loop.todo
               X == Robs
    <2>1. s \in Seq(X) /\ s # <<>>
      BY <1>1 DEF Typed, LoopTyped
    <2> HIDE DEF s, X
    <2>2. Head(s) \in X /\ Tail(s) \in Seq(X)
      BY <2>1
    <2> QED BY <2>2 DEF s, X
  <1>3. /\ Homes(conf, uops, Bufs, FrontEnd) /\ Rings(conf, rob, Bufs) /\ Counted(conf, uops, rob, Bufs, sched, threads)
        /\ Ordered(conf, uops, Bufs, FrontEnd, threads) /\ Owned(uops, pool)
    BY SoundParts
  <1>4. /\ Robs = RobsOf(conf) /\ Robs \subseteq Nat /\ Tids = TidsOf(conf)
        /\ conf.rob \in Nat \ {0} /\ 0 \in RobsOf(conf) /\ \A k \in Resources : LimitOf(conf, k) \in Nat
    BY ConfFacts DEF Typed
  <1>5. Bufs[r] \in Seq(Objects) /\ Bufs[r] # <<>>
    <2>1. Bufs[r] \in Seq(Objects) /\ rob[r].free = conf.rob - Len(Bufs[r])
      BY <1>2, <1>3, <1>4 DEF Homes, Counted
    <2>2. Len(Bufs[r]) # 0
      <3>1. rob[r].free < conf.rob /\ rob[r].free = conf.rob - Len(Bufs[r]) /\ conf.rob \in Nat /\ Len(Bufs[r]) \in Nat
        <4> HIDE DEF r, o, w, lastUop
        <4>1. Len(Bufs[r]) \in Nat
          BY <2>1
        <4> QED BY <1>1, <1>4, <2>1, <4>1
      <3> QED BY ONLY <3>1
    <2> QED BY <2>1, <2>2
  <1>6. o = Bufs[r][1]
    <2>1. Circular(0 .. NumObjects, 2 * conf.rob, rob[r].slot, rob[r].first, rob[r].last, Bufs[r])
      BY <1>2, <1>3, <1>4 DEF Rings
    <2>2. Bufs[r][1] = rob[r].slot[rob[r].first]
      <3> DEFINE X == 0 .. NumObjects
                 m == 2 * conf.rob
                 s == rob[r].slot
                 f == rob[r].first
                 l == rob[r].last
                 y == Bufs[r]
      <3>1. Circular(X, m, s, f, l, y) /\ y # <<>>
        BY <1>5, <2>1
      <3> HIDE DEF X, m, s, f, l, y
      <3>2. Len(y) \in Nat /\ f \in 0 .. m - 1 /\ m \in Nat /\ \A n \in 1 .. Len(y) : y[n] = s[SlotOf(f, n, m)]
        BY <3>1, RingHolds DEF Circular
      <3>3. y \in Seq(X)
        BY <3>1, RingHolds
      <3>4. 1 \in 1 .. Len(y)
        BY <3>1, <3>3
      <3>5. SlotOf(f, 1, m) = f
        <4>1. f \in 0 .. m - 1 /\ m \in Nat
          BY <3>2
        <4> QED BY ONLY <4>1 DEF SlotOf, Wrap
      <3>6. y[1] = s[f]
        BY <3>2, <3>4, <3>5
      <3> QED BY <3>6 DEF y, s, f
    <2> QED BY <2>2
  <1>7. /\ o \in Objects /\ Main(uops, o) /\ t \in Tids /\ uops[o].at = threads[t].retired + 1
    <2>1. o \in Objects /\ Main(uops, o) /\ uops[o].tid \in TidsOf(conf) /\ uops[o].at = threads[uops[o].tid].retired + 1
      <3> HIDE DEF o, r
      <3> QED BY <1>2, <1>3, <1>4, <1>5, <1>6, NextRetired
    <2> QED BY <1>4, <2>1
  <1>8. Resource(o) = KindOf(conf, uops, o) /\ uops[o] \in UopObject /\ uops[o].children \in Seq(Objects)
    BY <1>7, OpTyped, UopFields DEF Resource
  <1>9. /\ w \in RobRecord(conf)
        /\ w.slot = rob[r].slot /\ w.last = rob[r].last
        /\ w.first = Wrap(rob[r].first + 1, 2 * conf.rob) /\ w.free = rob[r].free + 1
        /\ \A k \in Resources : w[k] = IF Resource(o) = k THEN rob[r][k] + 1 ELSE rob[r][k]
    <2>1. w = Popped(r, o)
      OBVIOUS
    <2> HIDE DEF w, r, o
    <2> QED BY <1>2, <2>1, PoppedIs
  <1>10. /\ rob' \in [Robs -> RobRecord(conf)] /\ rob'[r] = w
         /\ \A p \in Robs : p # r => rob'[p] = rob[p]
    <2>1. rob \in [Robs -> RobRecord(conf)]
      BY DEF Typed, RobsTyped
    <2> HIDE DEF w, r
    <2> QED BY <1>1, <1>2, <1>9, <2>1
  <1> DEFINE C == [p \in Robs |-> IF p = r THEN Tail(Bufs[r]) ELSE Bufs[p]]
  <1>11. Pops(conf, rob, rob', Bufs, C, r)
    <2>1. C[r] = Tail(Bufs[r]) /\ \A p \in Robs : p # r => C[p] = Bufs[p]
      BY <1>2
    <2> HIDE DEF C, w, r, o
    <2> QED BY <1>2, <1>4, <1>5, <1>9, <1>10, <2>1 DEF Pops
  <1>12. uops' \in [Objects -> UopObject] /\ Drops(uops, uops', o)
    <2>1. uops \in [Objects -> UopObject]
      BY DEF Typed, UopsTyped
    <2>2. \A x \in Objects : x \in ToSet(uops[o].children) <=> Occurs(x, uops[o].children)
      <3> DEFINE s == uops[o].children
      <3>1. s \in Seq(Objects)
        BY <1>8
      <3> HIDE DEF s
      <3>2. \A x \in Objects : x \in ToSet(s) <=> Occurs(x, s)
        BY <3>1 DEF ToSet, Occurs
      <3> QED BY <3>2 DEF s
    <2> HIDE DEF o
    <2>3. \A x \in Objects : uops'[x] = IF x = o \/ Occurs(x, uops[o].children) THEN Freed(uops[x]) ELSE uops[x]
      BY <1>1, <2>2
    <2>4. \A x \in Objects : /\ uops[x] \in UopObject /\ Freed(uops[x]) \in UopObject
                             /\ ~Freed(uops[x]).valid /\ Freed(uops[x]).ins = uops[x].ins
      BY <2>1, FreedIs
    <2>5. \A x \in Objects : uops'[x] \in UopObject
      BY <2>3, <2>4
    <2>6. uops' = [x \in Objects |-> uops'[x]]
      BY <1>1
    <2>7. uops' \in [Objects -> UopObject]
      BY <2>5, <2>6
    <2> QED BY <1>1, <1>7, <2>3, <2>4, <2>7 DEF Drops
  <1>13. /\ threads' \in [Tids -> ThreadRecord]
         /\ \A s \in Tids : /\ threads'[s].next = threads[s].next /\ threads'[s].dispatch = threads[s].dispatch
                            /\ threads'[s].retired = IF s = t THEN threads[s].retired + 1 ELSE threads[s].retired
                            /\ threads'[s].reachEnd = IF s = t THEN lastUop ELSE threads[s].reachEnd
    <2>1. threads \in [Tids -> ThreadRecord]
      BY DEF Typed, ThreadsTyped
    <2> DEFINE a == threads[t]
               n == a.retired + 1
               z == [a EXCEPT !.retired = n, !.reachEnd = lastUop]
    <2>2. a \in ThreadRecord /\ n \in Nat
      <3>1. a \in ThreadRecord
        BY <1>7, <2>1
      <3>2. a.retired \in Nat
        BY <3>1 DEF ThreadRecord
      <3> HIDE DEF a
      <3> QED BY <3>1, <3>2
    <2>3. threads' = [threads EXCEPT ![t] = z]
      BY <1>1, <1>7, <2>1
    <2>4. lastUop \in BOOLEAN
      OBVIOUS
    <2> HIDE DEF a, n, lastUop, t
    <2>5. /\ z \in ThreadRecord /\ z.next = a.next /\ z.dispatch = a.dispatch /\ z.retired = n /\ z.reachEnd = lastUop
      BY <2>2, <2>4 DEF ThreadRecord
    <2> HIDE DEF z
    <2> QED BY <1>7, <2>1, <2>3, <2>5 DEF a, n
  <1>14. ThreadsTyped'
    <2>1. conf' = conf /\ Tids' = Tids /\ \A s : Program(s)' = Program(s)
      BY <1>1, Unmoved
    <2>2. ASSUME NEW s \in Tids, threads'[s].reachEnd
          PROVE  threads'[s].retired = Len(Program(s))
      <3>1. CASE s = t
        BY <1>7, <1>13, <2>2, <3>1
      <3>2. CASE s # t
        BY <1>13, <2>2, <3>2 DEF Typed, ThreadsTyped
      <3> QED BY <3>1, <3>2
    <2> QED BY <1>13, <2>1, <2>2 DEF ThreadsTyped
  <1>15. /\ map' \in [Tids -> MapRecord(conf, Addresses)]
         /\ \A s \in Tids : map'[s].reg = map[s].reg \/ (s = t /\ lastUop)
    <2>1. map \in [Tids -> MapRecord(conf, Addresses)]
      BY DEF Typed, MapTyped
    <2>2. CASE lastUop
      <3>1. map' = [map EXCEPT ![t] = NewMap] /\ NewMap \in MapRecord(conf, Addresses)
        BY <1>1, <2>2, NewMapTyped
      <3> HIDE DEF t, lastUop
      <3> QED BY <1>7, <2>1, <2>2, <3>1
    <2>3. CASE ~lastUop
      <3>1. map' = map \/ map' = StoreSet(map, t, Op(o).addr, 0)
        BY <1>1, <2>3 DEF delete_store_hash_entry, StoreSet
      <3>2. 0 \in 0 .. NumObjects
        BY PipelineAssumption
      <3> HIDE DEF t, lastUop, o
      <3> DEFINE n == StoreSet(map, t, Op(o).addr, 0)
      <3>3. n \in [Tids -> MapRecord(conf, Addresses)] /\ \A s \in Tids : n[s].reg = map[s].reg
        BY <2>1, <3>2, StoreChanged
      <3>4. map' = map \/ map' = n
        BY <3>1
      <3> HIDE DEF n
      <3> QED BY <2>1, <3>3, <3>4
    <2> QED BY <2>2, <2>3
  <1>16. Whole(conf, uops', rob', C, FrontEnd, iaq, sched, threads', map', misses, pool')
    <2>1. Whole(conf, uops, rob, Bufs, FrontEnd, iaq, sched, threads, map, misses, pool)
      BY DEF Sound
    <2>2. /\ rob'[r].free = rob[r].free + 1
          /\ \A k \in Resources : rob'[r][k] = IF KindOf(conf, uops, o) = k THEN rob[r][k] + 1 ELSE rob[r][k]
          /\ conf.rob \in Nat
      BY <1>4, <1>8, <1>9, <1>10
    <2>3. \A s \in TidsOf(conf) :
            /\ threads'[s].next = threads[s].next /\ threads'[s].dispatch = threads[s].dispatch
            /\ threads'[s].retired = IF s = uops[o].tid THEN threads[s].retired + 1 ELSE threads[s].retired
            /\ map'[s].reg = map[s].reg \/ (s = uops[o].tid /\ uops[o].at = Len(conf.prog[s + 1]))
      BY <1>4, <1>13, <1>15 DEF Program
    <2>4. pool' = <<o>> \o Reverse(uops[o].children) \o pool
      BY <1>1
    <2>5. Whole(conf, uops', rob', C, FrontEnd, iaq, sched, threads', map', misses, <<o>> \o Reverse(uops[o].children) \o pool)
      <3> HIDE DEF C, w, r, o, t, lastUop
      <3>1. /\ 0 \in RobsOf(conf) /\ Drops(uops, uops', o) /\ \A k \in Resources : LimitOf(conf, k) \in Nat
        BY <1>4, <1>12
      <3>2. Retires(conf, uops, uops', rob, rob', Bufs, C, threads, threads', map, map', r, o)
        BY ONLY <1>6, <1>11, <2>2, <2>3, <3>1 DEF Retires
      <3> QED BY ONLY <2>1, <3>2, DropsWhole
    <2> QED BY <2>4, <2>5
  <1>17. Bufs' = C
    <2>1. Rings(conf, rob', C)
      BY <1>16 DEF Whole
    <2>2. C = [p \in Robs |-> C[p]]
      OBVIOUS
    <2> HIDE DEF C
    <2> QED BY <1>1, <2>1, <2>2, RingsBufs
  <1>18. Sound'
    BY <1>1, <1>16, <1>17, Unmoved DEF Sound
  <1>19. UopsTyped' /\ RobsTyped' /\ MapTyped'
    BY <1>1, <1>10, <1>12, <1>15, Unmoved DEF UopsTyped, RobsTyped, MapTyped
  <1>20. LoopTyped'
    <2> DEFINE W == Seq(Robs) \cup Seq(ToSet(Queues))
               k == Tail(loop.todo)
    <2>1. loop \in [n : Nat, at : Nat, tid : Int, todo : W]
      BY DEF Typed, LoopTyped
    <2>2. k \in W /\ loop' = [loop EXCEPT !.todo = k] /\ k \in Seq(Robs)
      BY <1>1, <1>2
    <2>3. loop' \in [n : Nat, at : Nat, tid : Int, todo : W] /\ loop'.todo = k
      <3> HIDE DEF k, W
      <3> QED BY <2>1, <2>2
    <2> HIDE DEF k, r, o, t, lastUop
    <2> QED BY <1>1, <2>2, <2>3, Unmoved DEF LoopTyped, W
  <1> QED BY <1>1, <1>14, <1>18, <1>19, <1>20, Unmoved DEF Typed

--------------------------------------------------------------------------------
\* The frontend: a group of uops ends, a thread is chosen, the cycle ends.
LEMMA BlankTyped ==
    /\ Blank \in UopObject /\ ~Blank.valid /\ ~Blank.ins /\ Blank.num = 0
    /\ 0 \in 0 .. NumObjects /\ "gen" \in ToSet(Queues)
  <1> DEFINE k == -1
             n == 0
             s == Seq(Src)
             j == Seq(Objects)
             z == 0 .. NumObjects
             e == <<>>
  <1>1. k \in Int /\ n \in Int /\ n \in Nat /\ n \in z /\ e \in s /\ e \in j
    BY PipelineAssumption
  <1>2. "gen" \in ToSet(Queues)
    <2>1. Queues[1] = "gen" /\ 1 \in DOMAIN Queues
      BY DEF Queues
    <2> QED BY <2>1 DEF ToSet
  <1>3. Blank = [valid |-> FALSE, num |-> n, tid |-> k, at |-> n, done |-> k,
          last |-> n, rdy |-> FALSE, srcs |-> e, q |-> "gen", ins |-> FALSE,
          issued |-> FALSE, mispred |-> FALSE, btbMiss |-> FALSE,
          pending |-> {}, childDone |-> n, children |-> e]
    BY DEF Blank, Unset
  <1> HIDE DEF k, n, s, j, z, e
  <1>4. Blank \in [valid : BOOLEAN, num : Int, tid : Int, at : Nat, done : Int, last : z,
     rdy : BOOLEAN, srcs : s, q : ToSet(Queues), ins : BOOLEAN, issued : BOOLEAN,
     mispred : BOOLEAN, btbMiss : BOOLEAN, pending : SUBSET Nat, childDone : Int, children : j]
    BY <1>1, <1>2, <1>3
  <1>5. ~Blank.valid /\ ~Blank.ins /\ Blank.num = n
    BY <1>3
  <1> QED BY <1>1, <1>2, <1>4, <1>5 DEF UopObject, s, j, z, n

LEMMA FetchDoneKeeps ==
    ASSUME IInv, FetchDone
    PROVE  IInv'
  <1> USE DEF IInv
  <1>1. /\ UNCHANGED <<id, loop, pool, feq, iaq, rob, sched, map, threads, arbiter, sync, misses, trouble>>
        /\ stage' = "frontend"
        /\ uops' = uops \/ (pool # <<>> /\ uops' = [uops EXCEPT ![Head(pool)] = Blank])
    BY DEF FetchDone
  <1>2. /\ Homes(conf, uops, Bufs, FrontEnd) /\ Owned(uops, pool) /\ Answered(uops, misses)
        /\ Scheduled(conf, uops, rob, Bufs, sched)
    BY SoundParts
  <1>3. uops \in [Objects -> UopObject]
    BY DEF Typed, UopsTyped
  <1>4. LoopTyped'
    BY <1>1, Unmoved DEF Typed, LoopTyped
  <1>5. CASE uops' = uops
    <2>1. Sound'
      BY <1>1, <1>5, Unmoved, SameKeeps
    <2> QED BY <1>1, <1>4, <1>5, <2>1, Unmoved DEF Typed
  <1>6. CASE pool # <<>> /\ uops' = [uops EXCEPT ![Head(pool)] = Blank]
    <2> DEFINE o == Head(pool)
    <2>1. o \in Objects /\ ~uops[o].valid
      <3>1. pool \in Seq(Objects) /\ pool # <<>>
        BY <1>2, <1>6 DEF Owned
      <3>2. Head(pool) \in Objects /\ Head(pool) = pool[1] /\ 1 \in 1 .. Len(pool)
        BY <3>1
      <3>3. Occurs(Head(pool), pool)
        BY <3>2 DEF Occurs
      <3> QED BY <1>2, <3>2, <3>3 DEF Owned
    <2>2. uops' \in [Objects -> UopObject] /\ uops'[o] = Blank /\ \A x \in Objects : x # o => uops'[x] = uops[x]
      <3> HIDE DEF o
      <3>1. uops' = [uops EXCEPT ![o] = Blank]
        BY <1>6 DEF o
      <3> QED BY <1>3, <2>1, <3>1, BlankTyped
    <2> HIDE DEF o
    <2>3. Kin(uops, uops') /\ \A x \in Objects : Main(uops, x) => uops'[x] = uops[x]
      <3>1. \A x \in Objects : uops'[x] = uops[x] \/ (x = o /\ uops'[x] = Blank)
        BY <2>2
      <3>2. uops[o].valid = FALSE /\ Blank.valid = FALSE
        <4>1. uops[o].valid \in BOOLEAN
          BY <1>3, <2>1, UopFields
        <4>2. Blank.valid = FALSE
          BY DEF Blank
        <4> QED BY <2>1, <4>1, <4>2
      <3> QED BY <3>1, <3>2 DEF Kin, Main
    <2>4. Calm(conf, uops, uops', sched, sched', threads, threads')
      BY <1>1, <2>3 DEF Calm, Still
    <2>5. Answered(uops', misses')
      <3>1. \A x \in Objects : uops'[x].ins => uops[x].ins
        BY <2>2, BlankTyped
      <3> QED BY <1>1, <1>2, <2>3, <3>1, NearerAnswered
    <2>6. Sound'
      BY <1>1, <1>2, <2>4, <2>5, Unmoved, CalmKeeps
    <2>7. UopsTyped'
      BY <2>2 DEF UopsTyped
    <2> QED BY <1>1, <1>4, <2>6, <2>7, Unmoved DEF Typed
  <1> QED BY <1>1, <1>5, <1>6

\* The turns of the threads: while a thread is fetched, each of them is a thread.
LEMMA Turns ==
    ASSUME IInv, Fetching
    PROVE  /\ Cardinality(Tids) \in Nat /\ Tries \in 1 .. Cardinality(Tids)
           /\ Turn \in [0 .. Cardinality(Tids) -> Tids]
  <1> USE DEF IInv
  <1> DEFINE L == Len(conf.prog)
             E == {t \in Tids : \A s \in 0 .. t : threads[s].reachEnd}
             e == last_terminated_tid
  <1>1. L \in Nat \ {0} /\ Tids = 0 .. L - 1
    BY ConfFacts DEF Typed, Tids
  <1>2. IsFiniteSet(Tids) /\ Cardinality(Tids) = L
    <2>1. Tids = 0 .. (L - 1) /\ 0 \in Int /\ L - 1 \in Int
      BY <1>1
    <2> HIDE DEF L
    <2>2. IsFiniteSet(0 .. (L - 1)) /\ Cardinality(0 .. (L - 1)) = IF 0 > L - 1 THEN 0 ELSE (L - 1) - 0 + 1
      BY <2>1, FS_Interval
    <2>3. ~(0 > L - 1) /\ (L - 1) - 0 + 1 = L
      BY <1>1
    <2> QED BY <2>1, <2>2, <2>3
  <1>3. PICK u \in Tids : ~fetch_ended(u)
    BY DEF Fetching
  <1>4. ~threads[u].reachEnd
    <2>1. Ordered(conf, uops, Bufs, FrontEnd, threads)
      BY SoundParts
    <2>2. /\ threads[u].retired \in Nat /\ threads[u].next \in Nat /\ threads[u].retired < threads[u].next
          /\ threads[u].next <= Len(Program(u)) + 1
      BY <2>1, ConfFacts DEF Ordered, Program, Typed
    <2>3. ~(threads[u].next > Len(Program(u)))
      BY <1>3 DEF fetch_ended
    <2>4. threads[u].reachEnd => threads[u].retired = Len(Program(u))
      BY DEF Typed, ThreadsTyped
    <2> QED BY <2>2, <2>3, <2>4
  <1>5. E \subseteq Tids /\ E # Tids
    <2>1. u \notin E
      <3>1. u \in 0 .. u
        BY <1>1
      <3> QED BY <1>4, <3>1
    <2> QED BY <2>1
  <1>6. e \in 0 .. L - 1
    <2>1. e = Cardinality(E)
      BY DEF last_terminated_tid
    <2> HIDE DEF E, e, L
    <2>2. Cardinality(E) \in Nat /\ Cardinality(E) < L
      BY <1>2, <1>5, FS_Subset, FS_CardinalityType
    <2> QED BY <1>1, <2>1, <2>2
  <1>7. Tries \in 1 .. L
    BY <1>1, <1>2, <1>6 DEF Tries
  <1>8. \A a \in Tids : TurnAfter(a) \in Tids
    <2> TAKE a \in Tids
    <2> DEFINE n == (a + 1) % Cardinality(Tids)
    <2>1. n \in 0 .. L - 1
      BY <1>1, <1>2
    <2>2. TurnAfter(a) = IF n < e THEN e ELSE n
      BY DEF TurnAfter
    <2> HIDE DEF n, e
    <2> QED BY <1>1, <1>6, <2>1, <2>2
  <1>9. Turn \in [0 .. L -> Tids]
    <2> DEFINE h == [x \in Tids \X (1 .. L) |-> TurnAfter(x[1])]
               F(g) == [k \in 0 .. L |-> IF k = 0 THEN arbiter ELSE TurnAfter(g[k - 1])]
    <2>1. Keeps(h, Tids, 1 .. L) /\ \A x \in Tids, k \in 1 .. L : h[<<x, k>>] = TurnAfter(x)
      BY <1>8 DEF Keeps
    <2>2. arbiter \in Tids /\ L \in Nat
      BY <1>1 DEF Typed
    <2> HIDE DEF h
    <2>3. PICK g \in [0 .. L -> Tids] : Iterated(g, L, arbiter, h)
      <3> HIDE DEF L
      <3> QED BY <2>1, <2>2, Iterates
    <2>4. g = F(g)
      <3>1. ASSUME NEW k \in 0 .. L PROVE g[k] = IF k = 0 THEN arbiter ELSE TurnAfter(g[k - 1])
        <4>1. CASE k = 0
          BY <2>3, <4>1 DEF Iterated
        <4>2. CASE k # 0
          <5>1. k \in 1 .. L /\ k - 1 \in 0 .. L
            BY <2>2, <3>1, <4>2
          <5>2. g[k] = h[<<g[k - 1], k>>] /\ g[k - 1] \in Tids
            BY <2>3, <5>1 DEF Iterated
          <5> QED BY <2>1, <4>2, <5>1, <5>2
        <4> QED BY <4>1, <4>2
      <3>2. g = [k \in 0 .. L |-> g[k]]
        OBVIOUS
      <3> HIDE DEF L
      <3> QED BY <3>1, <3>2
    <2>5. Turn = CHOOSE f : f = F(f)
      BY <1>2 DEF Turn
    <2>6. Turn = F(Turn)
      BY <2>4, <2>5
    <2>7. \A f : f = F(f) => f = g
      <3> SUFFICES ASSUME NEW f, f = F(f) PROVE f = g
        OBVIOUS
      <3> HIDE DEF L
      <3> DEFINE P == {k \in 0 .. L : f[k] # g[k]}
      <3>1. \A k \in 0 .. L : f[k] = IF k = 0 THEN arbiter ELSE TurnAfter(f[k - 1])
        OBVIOUS
      <3>2. \A k \in 0 .. L : g[k] = IF k = 0 THEN arbiter ELSE TurnAfter(g[k - 1])
        BY <2>4
      <3>3. P = {}
        <4> SUFFICES ASSUME P # {} PROVE FALSE
          OBVIOUS
        <4>1. P \in SUBSET Nat
          BY <2>2
        <4>2. PICK k \in P : \A j \in P : k <= j
          BY <4>1, SmallestIn
        <4>3. k # 0 /\ k \in 0 .. L
          BY <3>1, <3>2, <4>2
        <4>4. k - 1 \in 0 .. L /\ ~(k <= k - 1)
          BY <2>2, <4>3
        <4>5. f[k - 1] = g[k - 1]
          BY <4>2, <4>4
        <4> QED BY <3>1, <3>2, <4>2, <4>3, <4>5
      <3>4. f = [k \in 0 .. L |-> f[k]]
        OBVIOUS
      <3> QED BY <3>3, <3>4
    <2> QED BY <2>3, <2>6, <2>7
  <1> QED BY <1>1, <1>2, <1>7, <1>9

LEMMA fetch_rrKeeps ==
    ASSUME IInv, fetch_rr
    PROVE  IInv'
  <1> USE DEF IInv
  <1> DEFINE k == Min(Chosen)
             t == Turn[k]
             n == loop.n + 1
  <1>1. /\ UNCHANGED <<id, uops, pool, feq, iaq, rob, sched, map, sync, misses>>
        /\ Selects /\ arbiter' = Turn[k + 1] /\ stage = "frontend"
        /\ loop' = [loop EXCEPT !.n = n, !.tid = t, !.at = 0]
        /\ stage' = stage \/ stage' = "fetch"
        /\ \/ threads' = threads
           \/ threads' = [threads EXCEPT ![t].wait = FALSE]
           \/ threads' = [threads EXCEPT ![t].wait = TRUE, ![t].ready = FALSE]
    BY DEF fetch_rr
  <1>2. Fetching /\ Chosen # {}
    BY <1>1 DEF Selects
  <1>3. t \in Tids /\ arbiter' \in Tids
    <2>1. Tries \in 1 .. Cardinality(Tids) /\ Turn \in [0 .. Cardinality(Tids) -> Tids]
      BY <1>2, Turns
    <2>2. Cardinality(Tids) \in Nat
      BY <1>2, Turns
    <2>3. Chosen \subseteq 0 .. Tries - 1 /\ Chosen \in SUBSET Nat
      BY <2>1, <2>2 DEF Chosen
    <2>4. k \in Chosen
      BY <1>2, <2>3, SmallestIn
    <2>5. k \in 0 .. Cardinality(Tids) /\ k + 1 \in 0 .. Cardinality(Tids)
      <3> HIDE DEF k
      <3>1. k \in 0 .. Tries - 1
        BY <2>3, <2>4
      <3> QED BY <2>1, <2>2, <3>1
    <2> HIDE DEF k
    <2> QED BY <1>1, <2>1, <2>5
  <1>4. threads \in [Tids -> ThreadRecord]
    BY DEF Typed, ThreadsTyped
  <1>5. /\ threads' \in [Tids -> ThreadRecord]
        /\ \A s \in Tids : /\ threads'[s].retired = threads[s].retired /\ threads'[s].next = threads[s].next
                           /\ threads'[s].dispatch = threads[s].dispatch
                           /\ threads'[s].reachEnd = threads[s].reachEnd
    <2> DEFINE a == threads[t]
               y1 == [a EXCEPT !.wait = FALSE]
               y2 == [a EXCEPT !.wait = TRUE, !.ready = FALSE]
    <2>1. a \in ThreadRecord
      BY <1>3, <1>4
    <2>2. threads' = threads \/ threads' = [threads EXCEPT ![t] = y1] \/ threads' = [threads EXCEPT ![t] = y2]
      <3> HIDE DEF t
      <3> QED BY <1>1, <1>3, <1>4
    <2> HIDE DEF a, t
    <2>3. Quiet(a, y1) /\ Quiet(a, y2) /\ y1.dispatch = a.dispatch /\ y2.dispatch = a.dispatch
      BY <2>1 DEF Quiet, ThreadRecord
    <2> HIDE DEF y1, y2
    <2>4. CASE threads' = threads
      BY <1>4, <2>4
    <2>5. CASE threads' = [threads EXCEPT ![t] = y1]
      BY <1>3, <1>4, <2>3, <2>5, ThreadChanged DEF a
    <2>6. CASE threads' = [threads EXCEPT ![t] = y2]
      BY <1>3, <1>4, <2>3, <2>6, ThreadChanged DEF a
    <2> QED BY <2>2, <2>4, <2>5, <2>6
  <1>6. ThreadsTyped'
    BY <1>1, <1>5, ThreadsKept DEF Typed
  <1>7. LoopTyped'
    <2> DEFINE W == Seq(Robs) \cup Seq(ToSet(Queues))
    <2>1. loop \in [n : Nat, at : Nat, tid : Int, todo : W]
      BY DEF Typed, LoopTyped
    <2>2. n \in Nat /\ t \in Int /\ 0 \in Nat
      BY <1>3, <2>1, ConfFacts DEF Typed
    <2> HIDE DEF W, n, t
    <2>3. loop' \in [n : Nat, at : Nat, tid : Int, todo : W] /\ loop'.tid = t
      BY <1>1, <2>1, <2>2
    <2> QED BY <1>1, <1>3, <2>3, Unmoved DEF LoopTyped, W, Typed
  <1>8. Sound'
    BY <1>1, <1>5, Unmoved, SameKeeps
  <1>9. arbiter' \in Tids'
    BY <1>1, <1>3, Unmoved DEF Typed
  <1> QED BY <1>1, <1>6, <1>7, <1>8, <1>9, Unmoved DEF Typed

\* A queue of one bucket does not change when it ages.
LEMMA OneBucket ==
    ASSUME NEW X, NEW q \in Seq(Seq(X)), Len(q) = 1
    PROVE  advance(q) = q
  <1>1. CASE ready(q)
    BY <1>1 DEF advance
  <1>2. CASE ~ready(q)
    <2> DEFINE e == <<>>
    <2>1. q[1] = e
      BY <1>2 DEF ready
    <2>2. e \in Seq(X)
      OBVIOUS
    <2>3. q # <<>>
      OBVIOUS
    <2>4. advance(q) = q \/ advance(q) = Append(Tail(q), e)
      BY DEF advance
    <2> DEFINE p == Append(Tail(q), e)
               Z == Seq(X)
    <2>5. q \in Seq(Z) /\ e \in Z
      BY <2>2
    <2> HIDE DEF e, Z
    <2>6. p \in Seq(Z) /\ Len(p) = Len(q) /\ p[Len(q)] = e
      BY <2>3, <2>5, Aged
    <2> HIDE DEF p
    <2>7. p = q
      <3>1. Len(p) = 1 /\ p[1] = q[1]
        BY <2>1, <2>6
      <3>2. p = [k \in 1 .. Len(p) |-> p[k]] /\ q = [k \in 1 .. Len(q) |-> q[k]]
        BY <2>5, <2>6
      <3>3. \A k \in 1 .. 1 : p[k] = q[k]
        BY <3>1
      <3> QED BY <3>1, <3>2, <3>3
    <2> QED BY <2>4, <2>7 DEF p
  <1> QED BY <1>1, <1>2

LEMMA EndCycleKeeps ==
    ASSUME IInv, EndCycle
    PROVE  IInv'
  <1> USE DEF IInv
  <1>1. /\ UNCHANGED <<id, pool, rob, sched, map, misses, trouble>>
        /\ stage' = "memory" /\ loop' = Idle
        /\ arbiter' = arbiter \/ (Fetching /\ arbiter' = IF Chosen = {} THEN Turn[Tries] ELSE Turn[Min(Chosen) + 1])
        /\ threads' = [t \in Tids |-> [threads[t] EXCEPT !.recovery = Nearer(@), !.redirect = Nearer(@),
                                         !.blocked = @ /\ ~Released(t)]]
        /\ uops' = [o \in Objects |-> [uops[o] EXCEPT !.done = Nearer(@)]]
        /\ feq' = advance(feq)
        /\ iaq' = [q \in DOMAIN iaq |-> advance(iaq[q])]
    BY DEF EndCycle
  <1>2. arbiter' \in Tids
    <2>1. CASE arbiter' = arbiter
      BY <2>1 DEF Typed
    <2>2. CASE Fetching /\ arbiter' = IF Chosen = {} THEN Turn[Tries] ELSE Turn[Min(Chosen) + 1]
      <3>1. /\ Cardinality(Tids) \in Nat /\ Tries \in 1 .. Cardinality(Tids)
            /\ Turn \in [0 .. Cardinality(Tids) -> Tids]
        BY <2>2, Turns
      <3>2. Chosen \subseteq 0 .. Tries - 1 /\ Chosen \in SUBSET Nat
        BY <3>1 DEF Chosen
      <3> DEFINE k == Min(Chosen)
      <3>3. CASE Chosen = {}
        <4>1. Tries \in 0 .. Cardinality(Tids)
          BY <3>1
        <4> QED BY <2>2, <3>1, <3>3, <4>1
      <3>4. CASE Chosen # {}
        <4>1. k \in Chosen
          BY <3>2, <3>4, SmallestIn
        <4>2. arbiter' = Turn[k + 1]
          BY <2>2, <3>4
        <4> HIDE DEF k
        <4>3. k \in 0 .. Tries - 1
          BY <3>2, <4>1
        <4>4. k + 1 \in 0 .. Cardinality(Tids)
          BY <3>1, <4>3
        <4> QED BY <3>1, <4>2, <4>4
      <3> QED BY <3>3, <3>4
    <2> QED BY <1>1, <2>1, <2>2
  <1>3. /\ threads' \in [Tids -> ThreadRecord]
        /\ \A s \in Tids : /\ threads'[s].retired = threads[s].retired /\ threads'[s].next = threads[s].next
                           /\ threads'[s].dispatch = threads[s].dispatch
                           /\ threads'[s].reachEnd = threads[s].reachEnd
    <2>1. ASSUME NEW t \in Tids
          PROVE  /\ threads'[t] \in ThreadRecord
                 /\ threads'[t].retired = threads[t].retired /\ threads'[t].next = threads[t].next
                 /\ threads'[t].dispatch = threads[t].dispatch
                 /\ threads'[t].reachEnd = threads[t].reachEnd
      <3> DEFINE a == threads[t]
                 r == Nearer(a.recovery)
                 d == Nearer(a.redirect)
                 b == a.blocked /\ ~Released(t)
                 y == [a EXCEPT !.recovery = r, !.redirect = d, !.blocked = b]
      <3>1. a \in ThreadRecord
        BY <2>1 DEF Typed, ThreadsTyped
      <3>2. a.recovery \in Int /\ a.redirect \in Int
        <4> HIDE DEF a
        <4> QED BY <3>1 DEF ThreadRecord
      <3>3. \A n \in Int : Nearer(n) \in Int
        BY DEF Nearer, MaxCtr
      <3>4. r \in Int /\ d \in Int /\ b \in BOOLEAN
        <4> HIDE DEF a
        <4> QED BY <3>2, <3>3
      <3>5. threads'[t] = y
        <4>1. threads'[t] = [a EXCEPT !.recovery = Nearer(@), !.redirect = Nearer(@), !.blocked = @ /\ ~Released(t)]
          BY <1>1, <2>1
        <4> HIDE DEF a
        <4> QED BY <3>1, <4>1 DEF ThreadRecord
      <3> HIDE DEF a, r, d, b
      <3>6. /\ y \in ThreadRecord
            /\ y.retired = a.retired /\ y.next = a.next /\ y.dispatch = a.dispatch /\ y.reachEnd = a.reachEnd
        BY <3>1, <3>4 DEF ThreadRecord
      <3> HIDE DEF y
      <3> QED BY <3>5, <3>6 DEF a
    <2>2. threads' = [t \in Tids |-> threads'[t]]
      BY <1>1
    <2> QED BY <2>1, <2>2
  <1>4. ThreadsTyped'
    BY <1>1, <1>3, ThreadsKept DEF Typed
  <1>5. /\ uops' \in [Objects -> UopObject]
        /\ \A o \in Objects : \E n \in Int : /\ uops'[o] = [uops[o] EXCEPT !.done = n]
                                             /\ n = Nearer(uops[o].done)
    <2>1. ASSUME NEW o \in Objects
          PROVE  /\ uops'[o] \in UopObject
                 /\ \E n \in Int : uops'[o] = [uops[o] EXCEPT !.done = n] /\ n = Nearer(uops[o].done)
      <3> DEFINE a == uops[o]
                 n == Nearer(a.done)
      <3>1. a \in UopObject
        BY <2>1 DEF Typed, UopsTyped
      <3>2. n \in Int
        <4>1. \A i \in Int : Nearer(i) \in Int
          BY DEF Nearer, MaxCtr
        <4> HIDE DEF a
        <4>2. a.done \in Int
          BY <3>1, UopFields
        <4> QED BY <4>1, <4>2
      <3>3. uops'[o] = [a EXCEPT !.done = n]
        BY <1>1, <2>1
      <3> HIDE DEF n
      <3>4. [a EXCEPT !.done = n] \in UopObject
        BY <3>1, <3>2, UopChanged
      <3> QED BY <3>2, <3>3, <3>4 DEF n
    <2>2. uops' = [o \in Objects |-> uops'[o]]
      BY <1>1
    <2> QED BY <2>1, <2>2
  <1>6. \A o \in Objects :
          /\ uops'[o].valid = uops[o].valid /\ uops'[o].tid = uops[o].tid /\ uops'[o].at = uops[o].at
          /\ uops'[o].num = uops[o].num /\ uops'[o].children = uops[o].children /\ uops'[o].srcs = uops[o].srcs
          /\ uops'[o].ins = uops[o].ins /\ uops'[o].issued = uops[o].issued /\ uops'[o].q = uops[o].q
          /\ uops'[o].rdy = uops[o].rdy /\ uops'[o].pending = uops[o].pending
          /\ uops'[o].childDone = uops[o].childDone
          /\ uops[o].done = 0 => uops'[o].done = 0
          /\ uops'[o].done # Unset => uops[o].done # Unset
    <2> SUFFICES ASSUME NEW o \in Objects
        PROVE
          /\ uops'[o].valid = uops[o].valid /\ uops'[o].tid = uops[o].tid /\ uops'[o].at = uops[o].at
          /\ uops'[o].num = uops[o].num /\ uops'[o].children = uops[o].children /\ uops'[o].srcs = uops[o].srcs
          /\ uops'[o].ins = uops[o].ins /\ uops'[o].issued = uops[o].issued /\ uops'[o].q = uops[o].q
          /\ uops'[o].rdy = uops[o].rdy /\ uops'[o].pending = uops[o].pending
          /\ uops'[o].childDone = uops[o].childDone
          /\ uops[o].done = 0 => uops'[o].done = 0
          /\ uops'[o].done # Unset => uops[o].done # Unset
      OBVIOUS
    <2> DEFINE a == uops[o]
               y == uops'[o]
    <2>1. a \in UopObject
      BY DEF Typed, UopsTyped
    <2>2. PICK n \in Int : y = [a EXCEPT !.done = n] /\ n = Nearer(a.done)
      BY <1>5
    <2> HIDE DEF a, y
    <2>3. /\ y.valid = a.valid /\ y.tid = a.tid /\ y.at = a.at
          /\ y.num = a.num /\ y.children = a.children /\ y.srcs = a.srcs
          /\ y.ins = a.ins /\ y.issued = a.issued /\ y.q = a.q
          /\ y.rdy = a.rdy /\ y.pending = a.pending /\ y.childDone = a.childDone /\ y.done = n
      BY <2>1, <2>2 DEF UopObject
    <2>4. a.done = 0 => n = 0
      BY <2>2 DEF Nearer
    <2>5. n # Unset => a.done # Unset
      BY <2>2 DEF Nearer, Unset
    <2> QED BY <2>3, <2>4, <2>5 DEF a, y
  <1>7. Kin(uops, uops') /\ Calm(conf, uops, uops', sched, sched', threads, threads')
    <2>1. Kin(uops, uops')
      BY <1>6 DEF Kin
    <2>2. Tids = TidsOf(conf)
      BY ConfFacts DEF Typed
    <2> QED BY <1>1, <1>3, <1>6, <2>1, <2>2 DEF Calm, Still
  <1>8. Answered(uops', misses')
    <2>1. Answered(uops, misses)
      BY SoundParts
    <2>2. \A x \in Objects : uops'[x].ins => uops[x].ins
      BY <1>6
    <2>3. \A x \in Objects : Main(uops, x) => /\ uops'[x].issued = uops[x].issued
                                              /\ uops'[x].done # Unset => uops[x].done # Unset
                                              /\ uops'[x].pending = uops[x].pending
                                              /\ uops'[x].childDone = uops[x].childDone
      BY <1>6
    <2>4. misses' = misses /\ Kin(uops, uops')
      BY <1>1, <1>7
    <2>5. Answered(uops', misses)
      BY ONLY <2>1, <2>2, <2>3, <2>4, NearerAnswered
    <2> QED BY <2>4, <2>5
  <1>9. iaq' = iaq
    <2>1. \A q \in ToSet(Queues) : iaq[q] \in Seq(Seq(Entries)) /\ Len(iaq[q]) = 1
      BY BucketOf
    <2>2. \A q \in ToSet(Queues) : advance(iaq[q]) = iaq[q]
      BY <2>1, OneBucket
    <2>3. iaq \in [ToSet(Queues) -> Seq(Seq(Entries))]
      BY DEF Typed, QueuesTyped
    <2>4. DOMAIN iaq = ToSet(Queues) /\ iaq = [q \in ToSet(Queues) |-> iaq[q]]
      BY <2>3
    <2> QED BY <1>1, <2>2, <2>4
  <1>10. feq' \in Seq(Seq(Objects)) /\ feq' # <<>> /\ FrontEnd' = FrontEnd
    <2>1. feq \in Seq(Seq(Objects)) /\ feq # <<>>
      BY DEF Typed, QueuesTyped
    <2>2. CASE advance(feq) = feq
      BY <1>1, <2>1, <2>2 DEF FrontEnd
    <2>3. CASE advance(feq) # feq
      <3> DEFINE e == <<>>
      <3>1. feq' = Append(Tail(feq), e) /\ feq[1] = e
        BY <1>1, <2>3 DEF advance, ready
      <3>2. e \in Seq(Objects) /\ Len(e) = 0
        OBVIOUS
      <3> HIDE DEF e
      <3>3. feq' \in Seq(Seq(Objects)) /\ feq' # <<>> /\ FlattenSeq(feq') = FlattenSeq(feq)
        BY <2>1, <3>1, <3>2, FlatAge
      <3> QED BY <3>3 DEF FrontEnd
    <2> QED BY <2>2, <2>3
  <1>11. QueuesTyped' /\ UopsTyped'
    BY <1>5, <1>9, <1>10 DEF Typed, QueuesTyped, UopsTyped
  <1>12. LoopTyped'
    <2> DEFINE x == <<>>
    <2>1. loop' = [n |-> 0, at |-> 0, tid |-> -1, todo |-> x]
      BY <1>1 DEF Idle
    <2>2. x \in Seq(Robs) \cup Seq(ToSet(Queues)) /\ 0 \in Nat
      OBVIOUS
    <2> HIDE DEF x
    <2> QED BY <1>1, <2>1, <2>2, IdleTyped
  <1>13. Sound'
    <2>1. Scheduled(conf, uops, rob, Bufs, sched')
      BY <1>1, SoundParts
    <2> QED BY <1>1, <1>7, <1>8, <1>9, <1>10, <2>1, CalmKeeps
  <1>14. arbiter' \in Tids'
    BY <1>1, <1>2, Unmoved
  <1> QED BY <1>1, <1>4, <1>11, <1>12, <1>13, <1>14, Unmoved DEF Typed

--------------------------------------------------------------------------------
\* A uop is fetched.  Its sources: the list p begins as the list b does.
Longer(b) == {p \in Seq(Src) : Len(b) <= Len(p) /\ \A i \in 1 .. Len(b) : p[i] = b[i]}

LEMMA SourceAdded ==
    ASSUME NEW us, \A s \in Objects : us[s].num \in Int, NEW b \in Seq(Src), NEW p \in Longer(b), NEW s \in Objects
    PROVE  add_src_from_uop(us, p, s) \in Longer(b)
  <1>1. p \in Seq(Src) /\ Len(b) <= Len(p) /\ \A i \in 1 .. Len(b) : p[i] = b[i]
    BY DEF Longer
  <1> DEFINE n == us[s].num
             e == [o |-> s, num |-> n]
             q == Append(p, e)
  <1>2. add_src_from_uop(us, p, s) = p \/ add_src_from_uop(us, p, s) = q
    BY DEF add_src_from_uop
  <1>3. e \in Src
    <2>1. n \in Int /\ s \in 0 .. NumObjects
      BY PipelineAssumption DEF Objects
    <2> HIDE DEF n
    <2> QED BY <2>1 DEF Src
  <1> HIDE DEF e
  <1>4. q \in Seq(Src) /\ Len(q) = Len(p) + 1 /\ \A k \in 1 .. Len(p) : q[k] = p[k]
    <2> DEFINE X == Src
    <2>1. p \in Seq(X) /\ e \in X
      BY <1>1, <1>3
    <2> HIDE DEF X
    <2>2. q \in Seq(X) /\ Len(q) = Len(p) + 1 /\ \A k \in 1 .. Len(p) : q[k] = p[k]
      BY <2>1, Appended
    <2> QED BY <2>2 DEF X
  <1> HIDE DEF q
  <1>5. q \in Longer(b)
    <2>1. Len(b) \in Nat /\ Len(p) \in Nat
      BY <1>1
    <2>2. Len(b) <= Len(q) /\ 1 .. Len(b) \subseteq 1 .. Len(p)
      BY <1>1, <1>4, <2>1
    <2> QED BY <1>1, <1>4, <2>2 DEF Longer
  <1> QED BY <1>2, <1>5

\* The stores at the addresses in the list K are added, one after the other.
Adds(us, t, p, a) == add_src_from_uop(us, p, map[t].store[a])
Added(us, t, b, K) == FoldLeft(LAMBDA s, a : add_src_from_uop(us, s, map[t].store[a]), b, K)

LEMMA AddedIs ==
    ASSUME NEW us, \A s \in Objects : us[s].num \in Int, NEW b \in Seq(Src), NEW t, NEW Y, NEW K \in Seq(Y),
           \A a \in Y : map[t].store[a] \in Objects
    PROVE  Added(us, t, b, K) \in Longer(b)
  <1> DEFINE n == Len(K)
             D == DOMAIN K
             X == Longer(b)
             c == [s \in SUBSET D |-> Max(s)]
             h == [y \in X \X D |-> Adds(us, t, y[1], K[y[2]])]
             iter == CHOOSE it : it = [s \in SUBSET D |->
                        IF s = {} THEN b ELSE Adds(us, t, it[s \ {Max(s)}], K[Max(s)])]
  <1>1. n \in Nat /\ D = 1 .. n /\ IsFiniteSet(D) /\ \A k \in D : K[k] \in Y
    <2>1. n \in Nat /\ D = 1 .. n
      BY LenProperties
    <2>2. \A k \in D : K[k] \in Y
      BY <2>1, ElementOfSeq
    <2> QED BY <2>1, <2>2, FS_Interval
  <1>2. Added(us, t, b, K) = iter[D]
    BY DEF Added, Adds, FoldLeft, MapThenFoldSet
  <1>3. \A s \in SUBSET D : s # {} => c[s] \in s /\ c[s] = Max(s)
    <2> HIDE DEF n, D
    <2>1. ASSUME NEW s \in SUBSET D, s # {} PROVE Max(s) \in s
      BY <1>1, <2>1, LargestIn
    <2> QED BY <2>1
  <1> HIDE DEF D
  <1>4. \A x \in X, k \in D : h[<<x, k>>] \in X /\ h[<<x, k>>] = Adds(us, t, x, K[k])
    <2> SUFFICES ASSUME NEW x \in X, NEW k \in D
                 PROVE  h[<<x, k>>] \in X /\ h[<<x, k>>] = Adds(us, t, x, K[k])
      OBVIOUS
    <2>1. h[<<x, k>>] = Adds(us, t, x, K[k])
      OBVIOUS
    <2> HIDE DEF h
    <2>2. map[t].store[K[k]] \in Objects
      BY <1>1
    <2>3. Adds(us, t, x, K[k]) \in X
      BY <2>2, SourceAdded DEF Adds
    <2> QED BY <2>1, <2>3
  <1>5. b \in X
    BY DEF Longer
  <1> HIDE DEF n, c, h, X
  <1>6. PICK g \in [SUBSET D -> X] : Folds(g, D, b, c, h)
    BY <1>1, <1>3, <1>4, <1>5, FoldExists DEF Picks, Keeps
  <1>7. g = [s \in SUBSET D |-> IF s = {} THEN b ELSE Adds(us, t, g[s \ {Max(s)}], K[Max(s)])]
    <2>1. ASSUME NEW s \in SUBSET D
          PROVE  g[s] = IF s = {} THEN b ELSE Adds(us, t, g[s \ {Max(s)}], K[Max(s)])
      <3>1. CASE s = {}
        BY <3>1, <1>5, <1>6 DEF Folds
      <3>2. CASE s # {}
        <4>1. /\ c[s] = Max(s) /\ Max(s) \in D /\ s \ {Max(s)} \in SUBSET D
              /\ g[s \ {Max(s)}] \in X
          BY <1>3, <1>6, <3>2
        <4>2. g[s] = h[<<g[s \ {c[s]}], c[s]>>]
          BY <1>6, <3>2 DEF Folds
        <4> QED BY <1>4, <3>2, <4>1, <4>2
      <3> QED BY <3>1, <3>2
    <2> QED BY <2>1
  <1>8. iter = [s \in SUBSET D |-> IF s = {} THEN b ELSE Adds(us, t, iter[s \ {Max(s)}], K[Max(s)])]
    BY <1>7
  <1> HIDE DEF iter
  <1>9. Recurs(iter, D, X, b, c, h)
    <2>1. iter[{}] = b
      BY <1>8
    <2>2. ASSUME NEW s \in SUBSET D, s # {}, iter[s \ {c[s]}] \in X
          PROVE  iter[s] = h[<<iter[s \ {c[s]}], c[s]>>]
      <3>1. c[s] = Max(s) /\ c[s] \in D
        BY <1>3, <2>2
      <3>2. iter[s] = Adds(us, t, iter[s \ {c[s]}], K[c[s]])
        BY <1>8, <2>2, <3>1
      <3> QED BY <1>4, <2>2, <3>1, <3>2
    <2> QED BY <2>1, <2>2 DEF Recurs
  <1>10. Picks(c, D) /\ Keeps(h, X, D)
    BY <1>3, <1>4 DEF Picks, Keeps
  <1>11. iter[D] \in X
    BY <1>1, <1>5, <1>9, <1>10, FoldStays
  <1> QED BY <1>2, <1>11 DEF X

LEMMA StoresAdded ==
    ASSUME Typed, NEW us, \A s \in Objects : us[s].num \in Int, NEW t \in Tids, NEW x, x.addr \in Nat, NEW b \in Seq(Src)
    PROVE  add_store_deps(us, t, x, b) \in Longer(b)
  <1> DEFINE found == Stores(t, x)
             bytes == [i \in 1 .. 8 |-> 8 * Quad(x.addr) + i - 1]
             overlapping == {a \in found : Overlap(Op(map[t].store[a]), x)}
             Later(a, d) == uops[map[t].store[d]].num < uops[map[t].store[a]].num
             latest == {a \in overlapping : uops[map[t].store[a]].num > 0
                          /\ \A d \in overlapping \ {a} : Later(a, d) \/ (~Later(d, a) /\ a < d)}
             taken == IF conf.oooStores THEN overlapping ELSE latest
             K == Kept(bytes, taken)
  <1>1. \A a \in found : map[t].store[a] \in Objects
    <2> TAKE a \in found
    <2>1. a \in Addresses /\ map[t].store[a] # 0
      BY DEF Stores
    <2>2. map[t].store[a] \in 0 .. NumObjects
      BY <2>1 DEF Typed, MapTyped, MapRecord
    <2> QED BY <2>1, <2>2, PipelineAssumption DEF Objects
  <1>2. add_store_deps(us, t, x, b) = IF found = {x.addr} THEN Adds(us, t, b, x.addr) ELSE Added(us, t, b, K)
    BY DEF add_store_deps, Adds, Added
  <1>3. taken \subseteq found
    OBVIOUS
  <1>4. bytes \in Seq(Int)
    <2>1. Quad(x.addr) \in Int
      BY DEF Quad
    <2> DEFINE m == 8 * Quad(x.addr)
    <2>2. m \in Int
      BY <2>1
    <2> HIDE DEF m
    <2>3. \A i \in 1 .. 8 : m + i - 1 \in Int
      BY <2>2
    <2>4. [i \in 1 .. 8 |-> m + i - 1] \in Seq(Int)
      <3> DEFINE f(i) == m + i - 1
      <3> HIDE DEF f
      <3>1. \A i \in 1 .. 8 : f(i) \in Int
        BY <2>3 DEF f
      <3>2. [i \in 1 .. 8 |-> f(i)] \in Seq(Int)
        BY <3>1
      <3> QED BY <3>2 DEF f
    <2> QED BY <2>4 DEF m
  <1> HIDE DEF found, overlapping, latest, taken, bytes
  <1>5. K \in Seq(taken)
    BY <1>4, KeptIn
  <1> HIDE DEF K
  <1>6. Added(us, t, b, K) \in Longer(b)
    <2>1. \A a \in taken : map[t].store[a] \in Objects
      BY <1>1, <1>3
    <2> QED BY <1>5, <2>1, AddedIs
  <1>7. found = {x.addr} => Adds(us, t, b, x.addr) \in Longer(b)
    <2> SUFFICES ASSUME found = {x.addr} PROVE Adds(us, t, b, x.addr) \in Longer(b)
      OBVIOUS
    <2>1. map[t].store[x.addr] \in Objects /\ b \in Longer(b)
      BY <1>1 DEF Longer
    <2> QED BY <2>1, SourceAdded DEF Adds
  <1> QED BY <1>2, <1>6, <1>7

SourcesFrom(s, t, x) ==
    /\ s \in Seq(Src)
    /\ ToSet(x.src) \subseteq conf.regs
    /\ \A g \in ToSet(x.src) : \E i \in DOMAIN s : s[i] = map[t].reg[g]
LEMMA SourcesAre ==
    ASSUME Typed, NEW us, \A s \in Objects : us[s].num \in Int, NEW t \in Tids, NEW x \in Instructions(conf),
           NEW s, s = Sources(us, t, x)
    PROVE  SourcesFrom(s, t, x)
  <1> DEFINE regs == [i \in DOMAIN x.src |-> add_src_from_map_entry(t, x.src[i])]
             z == [o |-> 0, num |-> 0]
             more == Append(regs, z)
             base == IF x.kind \in {"ld", "st"} /\ ~conf.oooStores THEN more ELSE regs
  <1>1. x.src \in Seq(conf.regs) /\ x.addr \in Nat
    <2> DEFINE A == Seq(conf.regs)
    <2>1. x \in [kind : {"int", "fp", "br", "bar", "ld", "st"}, src : A, dst : SUBSET conf.regs,
                 addr : Nat, size : Nat, kids : Nat]
      BY DEF Instructions
    <2> HIDE DEF A
    <2>2. x.src \in A /\ x.addr \in Nat
      BY <2>1
    <2> QED BY <2>2 DEF A
  <1>2. Len(x.src) \in Nat /\ DOMAIN x.src = 1 .. Len(x.src) /\ \A i \in 1 .. Len(x.src) : x.src[i] \in conf.regs
    BY <1>1, LenProperties, ElementOfSeq
  <1>3. ToSet(x.src) = {x.src[i] : i \in 1 .. Len(x.src)} /\ ToSet(x.src) \subseteq conf.regs
    BY <1>2 DEF ToSet
  <1>4. z \in Src
    BY BlankTyped DEF Src
  <1>5. regs \in Seq(Src) /\ Len(regs) = Len(x.src) /\ \A i \in 1 .. Len(regs) : regs[i] = map[t].reg[x.src[i]]
    <2>1. \A g \in conf.regs : map[t].reg[g] \in Src
      BY DEF Typed, MapTyped, MapRecord
    <2>2. \A i \in 1 .. Len(x.src) : add_src_from_map_entry(t, x.src[i]) \in Src
      BY <1>2, <2>1 DEF add_src_from_map_entry
    <2>3. regs = [i \in 1 .. Len(x.src) |-> add_src_from_map_entry(t, x.src[i])]
      BY <1>2
    <2> HIDE DEF regs
    <2>4. regs \in Seq(Src) /\ Len(regs) = Len(x.src)
      BY <1>2, <2>2, <2>3
    <2> QED BY <1>2, <2>3, <2>4 DEF add_src_from_map_entry
  <1> HIDE DEF regs, z
  <1>6. base \in Longer(regs)
    <2> DEFINE X == Src
    <2>1. regs \in Seq(X) /\ z \in X
      BY <1>4, <1>5
    <2> HIDE DEF X
    <2>2. more \in Seq(X) /\ Len(more) = Len(regs) + 1 /\ \A i \in 1 .. Len(regs) : more[i] = regs[i]
      BY <2>1, Appended
    <2>3. Len(regs) \in Nat
      BY <2>1
    <2> HIDE DEF more
    <2>4. more \in Longer(regs) /\ regs \in Longer(regs)
      BY <2>1, <2>2, <2>3 DEF Longer, X
    <2> QED BY <2>4
  <1>7. s = base \/ s = add_store_deps(us, t, x, base)
    BY DEF Sources, map_mem_dep, regs, z
  <1> HIDE DEF base
  <1>8. base \in Seq(Src) /\ Len(regs) <= Len(base) /\ \A i \in 1 .. Len(regs) : base[i] = regs[i]
    BY <1>6 DEF Longer
  <1>9. s \in Longer(base)
    <2>1. base \in Longer(base)
      BY <1>8 DEF Longer
    <2>2. add_store_deps(us, t, x, base) \in Longer(base)
      BY <1>1, <1>8, StoresAdded
    <2> QED BY <1>7, <2>1, <2>2
  <1>10. s \in Seq(Src) /\ Len(base) <= Len(s) /\ \A i \in 1 .. Len(base) : s[i] = base[i]
    BY <1>9 DEF Longer
  <1>11. \A i \in 1 .. Len(regs) : i \in DOMAIN s /\ s[i] = regs[i]
    <2>1. Len(regs) \in Nat /\ Len(base) \in Nat /\ Len(s) \in Nat /\ DOMAIN s = 1 .. Len(s)
      BY <1>5, <1>8, <1>10, LenProperties
    <2> QED BY <1>8, <1>10, <2>1
  <1>12. \A g \in ToSet(x.src) : \E i \in DOMAIN s : s[i] = map[t].reg[g]
    <2> TAKE g \in ToSet(x.src)
    <2>1. PICK i \in 1 .. Len(x.src) : g = x.src[i]
      BY <1>3
    <2> QED BY <1>5, <1>11, <2>1
  <1> QED BY <1>3, <1>10, <1>12 DEF SourcesFrom

\* The object and the objects of its children, as they are taken.
New(y, t, n, k, kids) ==
    /\ y.valid /\ y.tid = t /\ y.at = n /\ y.num = k /\ y.children = kids
    /\ ~y.ins /\ ~y.issued /\ y.done = Unset /\ ~y.rdy /\ y.childDone = 0
    /\ y.pending = 1 .. Len(kids)
LEMMA TakenIs ==
    ASSUME Typed, NEW t \in Tids, NEW x \in Instructions(conf), NEW o \in Objects, NEW kids \in Seq(Objects),
           Len(kids) = x.kids, ~Occurs(o, kids), NEW us, us = Allocated(t, x, o, kids)
    PROVE  /\ us \in [Objects -> UopObject]
           /\ New(us[o], t, threads[t].next, threads[t].num, kids)
           /\ \A c \in Objects : Occurs(c, kids) => us[c].valid /\ us[c].at = 0 /\ ~us[c].ins
           /\ \A c \in Objects : c # o /\ ~Occurs(c, kids) => us[c] = uops[c]
  <1> DEFINE f == threads[t]
             k == f.num
             n == f.next
             u == [Blank EXCEPT !.valid = TRUE, !.num = k, !.tid = t]
             P == 1 .. x.kids
             y == [u EXCEPT !.at = n, !.pending = P, !.children = kids]
             d(c) == CHOOSE i \in P : kids[i] = c
             e(c) == k + d(c)
             w(c) == [u EXCEPT !.num = e(c)]
  <1>1. k \in Int /\ n \in Nat /\ t \in Int
    <2>1. threads[t] \in ThreadRecord
      BY DEF Typed, ThreadsTyped
    <2>2. k \in Int /\ n \in Nat
      BY <2>1 DEF ThreadRecord
    <2> QED BY <2>2, ConfFacts DEF Typed
  <1>2. x.kids \in Nat
    <2> DEFINE A == Seq(conf.regs)
    <2>1. x \in [kind : {"int", "fp", "br", "bar", "ld", "st"}, src : A, dst : SUBSET conf.regs,
                 addr : Nat, size : Nat, kids : Nat]
      BY DEF Instructions
    <2> HIDE DEF A
    <2> QED BY <2>1
  <1>3. \A c \in Objects : us[c] = IF c = o THEN y ELSE IF c \in ToSet(kids) THEN [u EXCEPT !.num = @ + d(c)] ELSE uops[c]
    BY DEF Allocated
  <1>4. us = [c \in Objects |-> us[c]]
    <2> DEFINE g(c) == IF c = o THEN y ELSE IF c \in ToSet(kids) THEN [u EXCEPT !.num = @ + d(c)] ELSE uops[c]
    <2>1. us = [c \in Objects |-> g(c)]
      BY DEF Allocated
    <2> HIDE DEF g
    <2> QED BY <2>1
  <1>5. \A c \in Objects : c \in ToSet(kids) <=> Occurs(c, kids)
    BY DEF ToSet, Occurs
  <1>6. P \in SUBSET Nat
    BY <1>2
  <1> HIDE DEF k, n, f, P
  <1>7. /\ u \in UopObject /\ u.valid /\ u.num = k /\ u.tid = t /\ u.at = 0 /\ ~u.ins /\ ~u.issued /\ u.done = Unset
        /\ ~u.rdy /\ u.childDone = 0
    <2> DEFINE z == Unset
    <2>1. /\ Blank \in UopObject /\ Blank.at = 0 /\ ~Blank.ins /\ ~Blank.issued /\ Blank.done = z
          /\ ~Blank.rdy /\ Blank.childDone = 0
      BY BlankTyped DEF Blank
    <2> HIDE DEF z
    <2>2. /\ u \in UopObject /\ u.valid /\ u.num = k /\ u.tid = t /\ u.at = 0 /\ ~u.ins /\ ~u.issued /\ u.done = z
          /\ ~u.rdy /\ u.childDone = 0
      BY <1>1, <2>1 DEF UopObject
    <2> QED BY <2>2 DEF z
  <1> HIDE DEF u
  <1>8. /\ y \in UopObject /\ y.valid /\ y.num = k /\ y.tid = t /\ y.at = n /\ ~y.ins /\ ~y.issued /\ y.done = Unset
        /\ ~y.rdy /\ y.childDone = 0 /\ y.pending = P /\ y.children = kids
    <2> DEFINE z == Unset
    <2>1. u.done = z
      BY <1>7
    <2> HIDE DEF z
    <2>2. /\ y \in UopObject /\ y.valid /\ y.num = k /\ y.tid = t /\ y.at = n /\ ~y.ins /\ ~y.issued /\ y.done = z
          /\ ~y.rdy /\ y.childDone = 0 /\ y.pending = P /\ y.children = kids
      BY <1>1, <1>6, <1>7, <2>1 DEF UopObject
    <2> QED BY <2>2 DEF z
  <1> HIDE DEF y
  <1>9. ASSUME NEW c \in Objects, Occurs(c, kids)
        PROVE  /\ w(c) \in UopObject /\ w(c).valid /\ w(c).at = 0 /\ ~w(c).ins
               /\ w(c) = [u EXCEPT !.num = @ + d(c)]
    <2>1. \E i \in P : kids[i] = c
      BY <1>9 DEF Occurs, P
    <2>2. d(c) \in P
      BY <2>1
    <2>3. e(c) \in Int
      <3> DEFINE i == d(c)
      <3>1. i \in Nat
        BY <1>6, <2>2
      <3> HIDE DEF i
      <3>2. k + i \in Int
        BY <1>1, <3>1
      <3> QED BY <3>2 DEF i
    <2>4. w(c) = [u EXCEPT !.num = @ + d(c)]
      <3> HIDE DEF d
      <3> QED BY <1>7 DEF UopObject
    <2> HIDE DEF e, d
    <2>5. w(c) \in UopObject /\ w(c).valid /\ w(c).at = 0 /\ ~w(c).ins
      BY <1>7, <2>3 DEF UopObject
    <2> QED BY <2>4, <2>5
  <1>10. \A c \in Objects : us[c] \in UopObject
    <2> TAKE c \in Objects
    <2>1. uops[c] \in UopObject
      BY DEF Typed, UopsTyped
    <2> HIDE DEF w, d
    <2>2. CASE c = o
      BY <1>3, <1>8, <2>2
    <2>3. CASE c # o /\ Occurs(c, kids)
      <3>1. us[c] = [u EXCEPT !.num = @ + d(c)]
        BY <1>3, <1>5, <2>3
      <3>2. w(c) \in UopObject /\ w(c) = [u EXCEPT !.num = @ + d(c)]
        BY <1>9, <2>3
      <3> QED BY ONLY <3>1, <3>2
    <2>4. CASE c # o /\ ~Occurs(c, kids)
      BY <1>3, <1>5, <2>1, <2>4
    <2> QED BY <2>2, <2>3, <2>4
  <1>11. us \in [Objects -> UopObject]
    BY <1>4, <1>10
  <1>12. New(us[o], t, n, k, kids)
    <2>1. us[o] = y
      BY <1>3
    <2>2. P = 1 .. Len(kids)
      BY DEF P
    <2> QED BY <1>8, <2>1, <2>2 DEF New
  <1>13. \A c \in Objects : Occurs(c, kids) => us[c].valid /\ us[c].at = 0 /\ ~us[c].ins
    <2> TAKE c \in Objects
    <2> HAVE Occurs(c, kids)
    <2>1. c # o
      OBVIOUS
    <2> HIDE DEF w, d
    <2>2. us[c] = [u EXCEPT !.num = @ + d(c)]
      BY <1>3, <1>5, <2>1
    <2>3. w(c).valid /\ w(c).at = 0 /\ ~w(c).ins /\ w(c) = [u EXCEPT !.num = @ + d(c)]
      BY <1>9
    <2> QED BY ONLY <2>2, <2>3
  <1>14. \A c \in Objects : c # o /\ ~Occurs(c, kids) => us[c] = uops[c]
    BY <1>3, <1>5
  <1> QED BY <1>11, <1>12, <1>13, <1>14 DEF k, n, f

\* The new uop, with its sources and predictions.
Filled(us, o, s, a, b) == [us EXCEPT ![o].srcs = s, ![o].mispred = a, ![o].btbMiss = b]
Holds(v, us, o, t, n, k, kids, s) ==
    /\ v \in [Objects -> UopObject] /\ New(v[o], t, n, k, kids) /\ v[o].srcs = s
    /\ \A x \in Objects : x # o => v[x] = us[x]
LEMMA NewIs ==
    ASSUME NEW us \in [Objects -> UopObject], NEW o \in Objects, NEW t, NEW n, NEW k, NEW kids, New(us[o], t, n, k, kids),
           NEW s \in Seq(Src), NEW a \in BOOLEAN, NEW b \in BOOLEAN,
           NEW v, v = Filled(us, o, s, a, b)
    PROVE  Holds(v, us, o, t, n, k, kids, s)
  <1> DEFINE y == us[o]
             z == [y EXCEPT !.srcs = s, !.mispred = a, !.btbMiss = b]
  <1>1. y \in UopObject
    OBVIOUS
  <1>2. v = [us EXCEPT ![o] = z]
    BY DEF Filled
  <1> HIDE DEF y
  <1>3. /\ z \in UopObject /\ z.srcs = s
        /\ z.valid = y.valid /\ z.tid = y.tid /\ z.at = y.at /\ z.num = y.num /\ z.children = y.children
        /\ z.ins = y.ins /\ z.issued = y.issued /\ z.done = y.done /\ z.rdy = y.rdy
        /\ z.childDone = y.childDone /\ z.pending = y.pending
    <2> DEFINE W == Seq(Src)
               V == Seq(Objects)
    <2>1. y \in [valid : BOOLEAN, num : Int, tid : Int, at : Nat, done : Int, last : 0 .. NumObjects,
     rdy : BOOLEAN, srcs : W, q : ToSet(Queues), ins : BOOLEAN, issued : BOOLEAN,
     mispred : BOOLEAN, btbMiss : BOOLEAN, pending : SUBSET Nat, childDone : Int, children : V]
      BY <1>1 DEF UopObject
    <2>2. s \in W
      OBVIOUS
    <2> HIDE DEF W, V
    <2>3. z \in [valid : BOOLEAN, num : Int, tid : Int, at : Nat, done : Int, last : 0 .. NumObjects,
     rdy : BOOLEAN, srcs : W, q : ToSet(Queues), ins : BOOLEAN, issued : BOOLEAN,
     mispred : BOOLEAN, btbMiss : BOOLEAN, pending : SUBSET Nat, childDone : Int, children : V]
      BY <2>1, <2>2
    <2>4. z.srcs = s
        /\ z.valid = y.valid /\ z.tid = y.tid /\ z.at = y.at /\ z.num = y.num /\ z.children = y.children
        /\ z.ins = y.ins /\ z.issued = y.issued /\ z.done = y.done /\ z.rdy = y.rdy
        /\ z.childDone = y.childDone /\ z.pending = y.pending
      BY <2>1
    <2> QED BY <2>3, <2>4 DEF UopObject, W, V
  <1> HIDE DEF z
  <1>4. v \in [Objects -> UopObject] /\ v[o] = z /\ \A x \in Objects : x # o => v[x] = us[x]
    BY <1>2, <1>3
  <1>5. New(z, t, n, k, kids)
    BY <1>3 DEF New, y
  <1> QED BY <1>3, <1>4, <1>5 DEF Holds

\* The dependence map with the new uop.
MapWith(m, t, x, o, k) ==
    /\ m \in [Tids -> MapRecord(conf, Addresses)]
    /\ \A g \in conf.regs : m[t].reg[g] = IF g \in x.dst THEN [o |-> o, num |-> k] ELSE map[t].reg[g]
    /\ \A s \in Tids : s # t => m[s].reg = map[s].reg
LEMMA MapRenamed ==
    ASSUME Typed, NEW t \in Tids, NEW x, NEW o \in Objects, NEW k \in Int,
           NEW m, m = update_store_hash(update_map(t, x, o, k), t, x, o)
    PROVE  MapWith(m, t, x, o, k)
  <1> DEFINE e == [o |-> o, num |-> k]
             F == [conf.regs -> Src]
             H == [Addresses -> 0 .. NumObjects]
             a == map[t]
             G == [r \in conf.regs |-> IF r \in x.dst THEN e ELSE a.reg[r]]
             z == [a EXCEPT !.reg = G]
             n == update_map(t, x, o, k)
  <1>1. o \in 0 .. NumObjects
    BY PipelineAssumption DEF Objects
  <1>2. e \in Src
    BY <1>1 DEF Src
  <1>3. map \in [Tids -> MapRecord(conf, Addresses)]
    BY DEF Typed, MapTyped
  <1>4. a \in [reg : F, store : H]
    BY <1>3 DEF MapRecord
  <1>5. n = [map EXCEPT ![t] = z]
    BY <1>3 DEF update_map
  <1>6. a.reg \in F
    <2> HIDE DEF F, H, a
    <2> QED BY <1>4
  <1> HIDE DEF e, a
  <1>7. G \in F
    BY <1>2, <1>6
  <1>8. \A r \in conf.regs : G[r] = IF r \in x.dst THEN e ELSE a.reg[r]
    OBVIOUS
  <1> HIDE DEF F, H, G
  <1>9. z \in [reg : F, store : H] /\ z.reg = G
    BY <1>4, <1>7
  <1>10. z \in MapRecord(conf, Addresses)
    BY <1>9 DEF MapRecord, F, H
  <1> HIDE DEF z, n
  <1>11. /\ n \in [Tids -> MapRecord(conf, Addresses)] /\ n[t].reg = G
         /\ \A s \in Tids : s # t => n[s].reg = map[s].reg
    BY <1>3, <1>5, <1>9, <1>10
  <1>12. m = n \/ m = StoreSet(n, t, x.addr, o)
    BY DEF update_store_hash, StoreSet, n
  <1> DEFINE w == StoreSet(n, t, x.addr, o)
  <1>13. w \in [Tids -> MapRecord(conf, Addresses)] /\ \A s \in Tids : w[s].reg = n[s].reg
    BY <1>1, <1>11, StoreChanged
  <1> HIDE DEF w
  <1>14. /\ m \in [Tids -> MapRecord(conf, Addresses)] /\ \A s \in Tids : m[s].reg = n[s].reg
    BY <1>11, <1>12, <1>13 DEF w
  <1>15. \A g \in conf.regs : m[t].reg[g] = IF g \in x.dst THEN e ELSE map[t].reg[g]
    BY <1>8, <1>11, <1>14 DEF a
  <1>16. \A s \in Tids : s # t => m[s].reg = map[s].reg
    BY <1>11, <1>14
  <1> QED BY <1>14, <1>15, <1>16 DEF e, MapWith

\* The thread, after a uop is fetched.
Goes(ts, t, x, a, b) ==
    [ts EXCEPT ![t].next = @ + 1, ![t].num = @ + 1 + x.kids,
               ![t].dispatch = @ + 1,
               ![t].blocked = @ \/ x.kind = "bar",
               ![t].recovery = IF a THEN MaxCtr ELSE @,
               ![t].redirect = IF b /\ ~a THEN MaxCtr ELSE @,
               ![t].brWait = @ \/ set_br_wait(x)]
LEMMA ThreadFetches ==
    ASSUME Typed, NEW t \in Tids, NEW x \in Instructions(conf), NEW a \in BOOLEAN, NEW b \in BOOLEAN, NEW us,
           us = Goes(threads, t, x, a, b)
    PROVE  /\ us \in [Tids -> ThreadRecord] /\ Advances(conf, threads, us, t)
           /\ \A s \in Tids : us[s].retired = threads[s].retired /\ us[s].reachEnd = threads[s].reachEnd
  <1> DEFINE f == threads[t]
             n == f.next + 1
             k == f.num + 1 + x.kids
             d == f.dispatch + 1
             l == f.blocked \/ x.kind = "bar"
             r == IF a THEN MaxCtr ELSE f.recovery
             e == IF b /\ ~a THEN MaxCtr ELSE f.redirect
             w == f.brWait \/ set_br_wait(x)
             y == [f EXCEPT !.next = n, !.num = k, !.dispatch = d, !.blocked = l, !.recovery = r,
                            !.redirect = e, !.brWait = w]
  <1>1. threads \in [Tids -> ThreadRecord] /\ f \in ThreadRecord
    BY DEF Typed, ThreadsTyped
  <1>2. x.kids \in Nat
    <2> DEFINE A == Seq(conf.regs)
    <2>1. x \in [kind : {"int", "fp", "br", "bar", "ld", "st"}, src : A, dst : SUBSET conf.regs,
                 addr : Nat, size : Nat, kids : Nat]
      BY DEF Instructions
    <2> HIDE DEF A
    <2> QED BY <2>1
  <1>3. us = [threads EXCEPT ![t] = y]
    BY <1>1 DEF ThreadRecord, Goes
  <1> HIDE DEF f
  <1>4. /\ f.next \in Nat /\ f.num \in Int /\ f.dispatch \in Int /\ f.blocked \in BOOLEAN /\ f.recovery \in Int
        /\ f.redirect \in Int /\ f.brWait \in BOOLEAN
    BY <1>1 DEF ThreadRecord
  <1>5. n \in Nat /\ k \in Int /\ d \in Int
    BY <1>2, <1>4
  <1>6. l \in BOOLEAN /\ w \in BOOLEAN
    OBVIOUS
  <1>7. r \in Int /\ e \in Int
    BY <1>4 DEF MaxCtr
  <1> HIDE DEF n, k, d, l, r, e, w
  <1>8. /\ y \in ThreadRecord /\ y.next = n /\ y.dispatch = d /\ y.retired = f.retired /\ y.reachEnd = f.reachEnd
    BY <1>1, <1>5, <1>6, <1>7 DEF ThreadRecord
  <1> HIDE DEF y
  <1>9. us \in [Tids -> ThreadRecord] /\ us[t] = y /\ \A s \in Tids : s # t => us[s] = threads[s]
    <2>1. t \in Tids
      OBVIOUS
    <2> QED BY ONLY <1>1, <1>3, <1>8, <2>1
  <1>10. /\ y.next = threads[t].next + 1 /\ y.dispatch = threads[t].dispatch + 1
         /\ y.retired = threads[t].retired /\ y.reachEnd = threads[t].reachEnd
    BY <1>8 DEF f, n, d
  <1>11. Tids = TidsOf(conf) /\ t \in Tids
    BY ConfFacts DEF Typed
  <1> QED BY ONLY <1>9, <1>10, <1>11 DEF Advances

\* The instruction that the thread fetches.
LEMMA NextInstruction ==
    ASSUME IInv, stage = "fetch", ~fetch_ended(loop.tid)
    PROVE  LET t == loop.tid
               f == threads[t]
               x == Program(t)[f.next]
           IN /\ f.next \in 1 .. Len(Program(t)) /\ Len(Program(t)) \in Nat /\ Program(t) \in Seq(Instructions(conf))
              /\ x \in Instructions(conf) /\ x.kids \in Nat
              /\ x.kids > 0 => x.kind \in {"ld", "st"}
  <1> USE DEF IInv
  <1> DEFINE t == loop.tid
             f == threads[t]
             x == Program(t)[f.next]
  <1>2. stage = "fetch" /\ ~fetch_ended(t)
    OBVIOUS
  <1>3. /\ Owned(uops, pool) /\ Ordered(conf, uops, Bufs, FrontEnd, threads)
    BY SoundParts
  <1>4. t \in Tids /\ Tids = TidsOf(conf)
    BY <1>2, ConfFacts DEF Typed, LoopTyped
  <1>5. f.next \in 1 .. Len(Program(t)) /\ Len(Program(t)) \in Nat /\ Program(t) \in Seq(Instructions(conf))
    <2> DEFINE A == Instructions(conf)
    <2>1. conf.prog \in Seq(Seq(A)) /\ t + 1 \in 1 .. Len(conf.prog)
      <3>1. conf.prog \in Seq(Seq(A)) /\ Len(conf.prog) \in Nat
        BY ConfFacts DEF Typed, ConfigOk
      <3>2. t \in 0 .. Len(conf.prog) - 1
        BY <1>4 DEF Tids
      <3> HIDE DEF t, A
      <3> QED BY <3>1, <3>2
    <2>2. Program(t) \in Seq(A)
      <3> HIDE DEF t, A
      <3> DEFINE Z == Seq(A)
                 p == conf.prog
      <3>1. p \in Seq(Z) /\ t + 1 \in 1 .. Len(p)
        BY <2>1
      <3> HIDE DEF Z, p
      <3>2. p[t + 1] \in Z
        BY <3>1, ElementOfSeq
      <3> QED BY <3>2 DEF Z, p, Program
    <2> HIDE DEF A
    <2>3. Len(Program(t)) \in Nat
      <3> DEFINE q == Program(t)
      <3>1. q \in Seq(A)
        BY <2>2
      <3> HIDE DEF q
      <3>2. Len(q) \in Nat
        BY <3>1, LenProperties
      <3> QED BY <3>2 DEF q
    <2>4. /\ f.retired \in Nat /\ f.next \in Nat /\ f.retired < f.next
      BY <1>3, <1>4 DEF Ordered
    <2>5. ~(f.next > Len(Program(t)))
      BY <1>2 DEF fetch_ended
    <2> HIDE DEF f
    <2> QED BY <2>2, <2>3, <2>4, <2>5 DEF A
  <1>6. x \in Instructions(conf)
    <2> DEFINE A == Instructions(conf)
               p == Program(t)
               n == f.next
    <2>1. p \in Seq(A) /\ n \in 1 .. Len(p)
      BY <1>5
    <2> HIDE DEF A, p, n
    <2>2. p[n] \in A
      BY <2>1, ElementOfSeq
    <2> QED BY <2>2 DEF A, p, n
  <1>7. /\ x.kids \in Nat
        /\ x.kids > 0 => x.kind \in {"ld", "st"}
    <2>1. x.kids \in Nat
      <3> DEFINE A == Seq(conf.regs)
                 y == x
      <3>1. y \in [kind : {"int", "fp", "br", "bar", "ld", "st"}, src : A, dst : SUBSET conf.regs,
                 addr : Nat, size : Nat, kids : Nat]
        BY <1>6 DEF Instructions
      <3> HIDE DEF A, y
      <3>2. y.kids \in Nat
        BY <3>1
      <3> QED BY <3>2 DEF y
    <2>2. x.kids > 0 => x.kind \in {"ld", "st"}
      <3>1. \A p \in ToSet(conf.prog) : \A z \in ToSet(p) : z.kids > 0 => z.kind \in {"ld", "st"}
        BY ConfFacts DEF Typed, ConfigOk
      <3>2. Program(t) \in ToSet(conf.prog)
        <4>1. t + 1 \in DOMAIN conf.prog
          <5>1. DOMAIN conf.prog = 1 .. Len(conf.prog) /\ Len(conf.prog) \in Nat
            BY ConfFacts, LenProperties DEF Typed, ConfigOk
          <5>2. t \in 0 .. Len(conf.prog) - 1
            BY <1>4 DEF Tids
          <5> HIDE DEF t
          <5> QED BY <5>1, <5>2
        <4> QED BY <4>1 DEF Program, ToSet
      <3>3. x \in ToSet(Program(t))
        <4>1. DOMAIN Program(t) = 1 .. Len(Program(t))
          BY <1>5, LenProperties
        <4> HIDE DEF t, f
        <4> QED BY <1>5, <4>1 DEF ToSet
      <3> HIDE DEF x, t
      <3> QED BY <3>1, <3>2, <3>3
    <2> QED BY <2>1, <2>2
  <1> QED BY <1>5, <1>6, <1>7

LEMMA FetchKeeps ==
    ASSUME IInv, Fetch
    PROVE  IInv'
  <1> USE DEF IInv
  <1> DEFINE t == loop.tid
             f == threads[t]
             x == Program(t)[f.next]
             o == Head(pool)
             kids == SubSeq(pool, 2, x.kids + 1)
             N == SubSeq(pool, x.kids + 2, Len(pool))
             us == Allocated(t, x, o, kids)
             s == Sources(us, t, x)
             k == f.num
             i == loop.at + 1
  <1>1. PICK a \in BOOLEAN, b \in BOOLEAN :
          uops' = Filled(us, o, s, a, b) /\ threads' = Goes(threads, t, x, a, b)
    <2>1. predict_bpu(x) \subseteq BOOLEAN /\ btb_access(x) \subseteq BOOLEAN
      BY DEF predict_bpu, btb_access
    <2>2. \E a \in predict_bpu(x), b \in btb_access(x) :
            uops' = Filled(us, o, s, a, b) /\ threads' = Goes(threads, t, x, a, b)
      <3>1. \E a \in predict_bpu(x), b \in btb_access(x) :
              /\ trouble' = IF a \/ b THEN trouble - 1 ELSE trouble
              /\ uops' = [us EXCEPT ![o].srcs = s, ![o].mispred = a, ![o].btbMiss = b]
              /\ pool' = N
              /\ map' = update_store_hash(update_map(t, x, o, f.num), t, x, o)
              /\ threads' = [threads EXCEPT ![t].next = @ + 1, ![t].num = @ + 1 + x.kids,
                               ![t].dispatch = @ + 1,
                               ![t].blocked = @ \/ x.kind = "bar",
                               ![t].recovery = IF a THEN MaxCtr ELSE @,
                               ![t].redirect = IF b /\ ~a THEN MaxCtr ELSE @,
                               ![t].brWait = @ \/ set_br_wait(x)]
              /\ feq' = send_uop_to_qfe(o)
        BY Zenon DEF Fetch
      <3> HIDE DEF us, o, s, t, x, f, N
      <3>2. PICK a \in predict_bpu(x), b \in btb_access(x) :
              /\ uops' = [us EXCEPT ![o].srcs = s, ![o].mispred = a, ![o].btbMiss = b]
              /\ threads' = [threads EXCEPT ![t].next = @ + 1, ![t].num = @ + 1 + x.kids,
                               ![t].dispatch = @ + 1,
                               ![t].blocked = @ \/ x.kind = "bar",
                               ![t].recovery = IF a THEN MaxCtr ELSE @,
                               ![t].redirect = IF b /\ ~a THEN MaxCtr ELSE @,
                               ![t].brWait = @ \/ set_br_wait(x)]
        BY ONLY <3>1
      <3> QED BY <3>2 DEF Filled, Goes
    <2> HIDE DEF us, o, s, t, x
    <2> QED BY <2>1, <2>2
  <1>2. /\ UNCHANGED <<id, stage, iaq, rob, sched, arbiter, sync, misses>>
        /\ stage = "fetch" /\ ~fetch_ended(t) /\ Len(pool) > x.kids
        /\ pool' = N
        /\ map' = update_store_hash(update_map(t, x, o, k), t, x, o)
        /\ feq' = enqueue(feq, o)
        /\ loop' = [loop EXCEPT !.at = i]
    BY DEF Fetch, send_uop_to_qfe
  <1>3. /\ Owned(uops, pool) /\ Ordered(conf, uops, Bufs, FrontEnd, threads)
    BY SoundParts
  <1>4. t \in Tids /\ Tids = TidsOf(conf) /\ 0 \in RobsOf(conf)
    BY <1>2, ConfFacts DEF Typed, LoopTyped
  <1>5. f.next \in 1 .. Len(Program(t)) /\ Len(Program(t)) \in Nat /\ Program(t) \in Seq(Instructions(conf))
    BY <1>2, NextInstruction
  <1>6. x \in Instructions(conf)
    BY <1>2, NextInstruction
  <1>7. /\ x.kids \in Nat
        /\ x.kids > 0 => x.kind \in {"ld", "st"}
    BY <1>2, NextInstruction
  <1>8. Split(pool, N, o, kids) /\ Len(kids) = x.kids
    <2>1. pool \in Seq(Objects) /\ OnceEach(pool)
      BY <1>3 DEF Owned
    <2> DEFINE n == x.kids
    <2>2. n \in Nat /\ n < Len(pool)
      <3> HIDE DEF x
      <3>1. Len(pool) \in Nat
        BY <2>1
      <3> QED BY <1>2, <1>7, <3>1
    <2>3. kids = SubSeq(pool, 2, n + 1) /\ N = SubSeq(pool, n + 2, Len(pool)) /\ o = Head(pool)
      OBVIOUS
    <2> HIDE DEF n, kids, N, o
    <2>4. Split(pool, N, o, kids) /\ Len(kids) = n
      BY <2>1, <2>2, <2>3, PoolSplit
    <2> QED BY <2>4 DEF n
  <1>9. o \in Objects /\ kids \in Seq(Objects) /\ ~Occurs(o, kids)
    BY <1>8 DEF Split
  <1>10. /\ us \in [Objects -> UopObject]
         /\ New(us[o], t, f.next, k, kids)
         /\ \A c \in Objects : Occurs(c, kids) => us[c].valid /\ us[c].at = 0 /\ ~us[c].ins
         /\ \A c \in Objects : c # o /\ ~Occurs(c, kids) => us[c] = uops[c]
    <2>1. us = Allocated(t, x, o, kids)
      OBVIOUS
    <2> HIDE DEF us, t, x, o, kids
    <2> QED BY <1>4, <1>6, <1>8, <1>9, <2>1, TakenIs DEF f, k
  <1>11. /\ s \in Seq(Src)
         /\ ToSet(x.src) \subseteq conf.regs
         /\ \A g \in ToSet(x.src) : \E j \in DOMAIN s : s[j] = map[t].reg[g]
    <2>1. \A p \in Objects : us[p].num \in Int
      <3> HIDE DEF us
      <3> QED BY <1>10, UopFields
    <2>2. s = Sources(us, t, x)
      OBVIOUS
    <2>3. Typed /\ t \in Tids /\ x \in Instructions(conf)
      BY <1>4, <1>6
    <2> HIDE DEF us, t, x, s
    <2>4. SourcesFrom(s, t, x)
      BY ONLY <2>1, <2>2, <2>3, SourcesAre
    <2> QED BY <2>4 DEF SourcesFrom
  <1> HIDE DEF us, s
  <1>12. /\ uops' \in [Objects -> UopObject] /\ New(uops'[o], t, f.next, k, kids) /\ uops'[o].srcs = s
         /\ \A c \in Objects : c # o => uops'[c] = us[c]
    <2> DEFINE n == f.next
    <2>1. o \in Objects /\ us \in [Objects -> UopObject] /\ New(us[o], t, n, k, kids) /\ s \in Seq(Src)
          /\ uops' = Filled(us, o, s, a, b)
      BY <1>1, <1>9, <1>10, <1>11
    <2> HIDE DEF o, t, n, k, kids
    <2>2. Holds(uops', us, o, t, n, k, kids, s)
      BY ONLY <2>1, NewIs
    <2> QED BY <2>2 DEF Holds, n
  <1>13. Begins(conf, uops, uops', t, o, kids, threads)
    <2>1. /\ f.next <= Len(conf.prog[t + 1]) /\ x = conf.prog[t + 1][f.next]
      BY <1>5 DEF Program
    <2>2. kids # <<>> => x.kind \in {"ld", "st"}
      <3> HIDE DEF x, kids, o
      <3>1. kids # <<>> => Len(kids) > 0
        BY <1>9
      <3> QED BY <1>7, <1>8, <3>1
    <2>3. \A c \in Objects : Occurs(c, kids) => uops'[c].valid /\ uops'[c].at = 0 /\ ~uops'[c].ins
      <3> HIDE DEF o, kids
      <3> QED BY <1>9, <1>10, <1>12
    <2>4. \A c \in Objects : c # o /\ ~Occurs(c, kids) => uops'[c] = uops[c]
      <3> HIDE DEF o, kids
      <3> QED BY <1>10, <1>12
    <2> HIDE DEF o, kids, t, x
    <2> QED BY <1>4, <1>12, <2>1, <2>2, <2>3, <2>4 DEF Begins, New, f
  <1>14. /\ threads' \in [Tids -> ThreadRecord] /\ Advances(conf, threads, threads', t)
         /\ \A c \in Tids : threads'[c].retired = threads[c].retired /\ threads'[c].reachEnd = threads[c].reachEnd
    <2>1. Typed /\ t \in Tids /\ x \in Instructions(conf) /\ threads' = Goes(threads, t, x, a, b)
      BY <1>1, <1>4, <1>6
    <2> HIDE DEF t, x
    <2> QED BY ONLY <2>1, ThreadFetches
  <1>15. /\ map' \in [Tids -> MapRecord(conf, Addresses)]
         /\ \A g \in conf.regs : map'[t].reg[g] = IF g \in x.dst THEN [o |-> o, num |-> k] ELSE map[t].reg[g]
         /\ \A c \in Tids : c # t => map'[c].reg = map[c].reg
    <2>1. k \in Int
      <3>1. f \in ThreadRecord
        BY <1>4 DEF Typed, ThreadsTyped
      <3> HIDE DEF f
      <3> QED BY <3>1 DEF ThreadRecord
    <2>2. Typed /\ t \in Tids /\ o \in Objects /\ map' = update_store_hash(update_map(t, x, o, k), t, x, o)
      BY <1>2, <1>4, <1>9
    <2> HIDE DEF t, x, o, k
    <2>3. MapWith(map', t, x, o, k)
      BY ONLY <2>1, <2>2, MapRenamed
    <2> QED BY ONLY <2>3 DEF MapWith
  <1>16. Renames(conf, uops', t, o, threads, map, map')
    <2>1. x = conf.prog[t + 1][threads[t].next]
      BY DEF Program
    <2>2. uops'[o].num = k /\ uops'[o].srcs = s
      BY <1>12 DEF New
    <2> HIDE DEF x, o, t, k
    <2>3. /\ \A g \in conf.regs : map'[t].reg[g] = IF g \in x.dst THEN [o |-> o, num |-> uops'[o].num] ELSE map[t].reg[g]
          /\ \A c \in TidsOf(conf) : c # t => map'[c].reg = map[c].reg
      BY <1>4, <1>15, <2>2
    <2>4. \A g \in ToSet(x.src) : \E j \in DOMAIN uops'[o].srcs : uops'[o].srcs[j] = map[t].reg[g]
      BY <1>11, <2>2
    <2> QED BY ONLY <1>11, <2>1, <2>3, <2>4 DEF Renames
  <1>17. feq' \in Seq(Seq(Objects)) /\ feq' # <<>> /\ FrontEnd' = Append(FrontEnd, o)
    <2>1. feq \in Seq(Seq(Objects)) /\ feq # <<>>
      BY DEF Typed, QueuesTyped
    <2>2. feq' = [feq EXCEPT ![Len(feq)] = Append(@, o)]
      BY <1>2 DEF enqueue
    <2> HIDE DEF o
    <2>3. o \in Objects
      BY <1>9
    <2>4. LastGrows(Objects, feq, feq', o)
      BY <2>1, <2>2, <2>3 DEF LastGrows
    <2>5. OneLonger(Objects, feq, feq', o)
      BY ONLY <2>4, FlatAppend
    <2> QED BY <2>5 DEF FrontEnd, OneLonger
  <1>18. Whole(conf, uops', rob, Bufs, Append(FrontEnd, o), iaq, sched, threads', map', misses, N)
    <2>1. Whole(conf, uops, rob, Bufs, FrontEnd, iaq, sched, threads, map, misses, pool)
      BY DEF Sound
    <2> HIDE DEF o, t, kids, N
    <2> QED BY ONLY <1>4, <1>8, <1>13, <1>14, <1>16, <2>1, BeginsWhole
  <1>19. Sound'
    BY <1>2, <1>17, <1>18, Unmoved DEF Sound
  <1>20. UopsTyped' /\ QueuesTyped' /\ MapTyped'
    BY <1>2, <1>12, <1>15, <1>17, Unmoved DEF Typed, UopsTyped, QueuesTyped, MapTyped
  <1>21. ThreadsTyped'
    BY <1>2, <1>14, ThreadsKept
  <1>22. LoopTyped'
    <2> DEFINE W == Seq(Robs) \cup Seq(ToSet(Queues))
    <2>1. loop \in [n : Nat, at : Nat, tid : Int, todo : W]
      BY DEF Typed, LoopTyped
    <2>2. i \in Nat
      BY <2>1
    <2> HIDE DEF i, W
    <2>3. loop' \in [n : Nat, at : Nat, tid : Int, todo : W] /\ loop'.tid = loop.tid
      BY <1>2, <2>1, <2>2
    <2> QED BY <1>2, <1>4, <2>3, Unmoved DEF LoopTyped, W, t
  <1> QED BY <1>2, <1>19, <1>20, <1>21, <1>22, Unmoved DEF Typed


--------------------------------------------------------------------------------
\* Before the first cycle nothing is in flight.
Nothing(c, u, R, B, Q, A, S, ts, M, P) ==
    /\ \A o \in Objects : u[o] = Blank
    /\ \A r \in RobsOf(c) : B[r] = <<>>
    /\ Q = <<>> /\ M = {}
    /\ P = [i \in Objects |-> i]
    /\ \A q \in ToSet(Queues) : A[q][1] = <<>>
    /\ \A r \in RobsOf(c) : /\ R[r].free = c.rob /\ R[r].first = 0
                            /\ \A k \in Resources : R[r][k] = LimitOf(c, k)
    /\ S.num = 0 /\ S.next = 0 /\ \A q \in ToSet(Queues) : S.per[q] = 0
    /\ \A i \in 0 .. c.list - 1 : S.list[i] = <<>>
    /\ \A t \in TidsOf(c) : ts[t].retired = 0 /\ ts[t].next = 1 /\ ts[t].dispatch = 0
    /\ c.rob \in Nat \ {0} /\ \A k \in Resources : LimitOf(c, k) \in Nat
    /\ \A t \in TidsOf(c) : Len(c.prog[t + 1]) \in Nat

LEMMA NothingWhole ==
    ASSUME NEW c, NEW u, NEW R, NEW B, NEW Q, NEW A, NEW S, NEW ts, NEW mp, NEW M, NEW P,
           Nothing(c, u, R, B, Q, A, S, ts, M, P), Rings(c, R, B), 0 \in RobsOf(c)
    PROVE  Whole(c, u, R, B, Q, A, S, ts, mp, M, P)
  <1>1. \A o \in Objects : u[o] = Blank /\ ~Main(u, o) /\ ~u[o].valid /\ ~u[o].ins
    <2>1. \A o \in Objects : u[o] = Blank
      BY DEF Nothing
    <2> QED BY <2>1, BlankTyped DEF Main
  <1>2. /\ \A X : <<>> \in Seq(X) /\ Len(<<>>) = 0
        /\ OnceEach(<<>>) /\ \A x : ~Occurs(x, <<>>)
    BY DEF OnceEach, Occurs
  <1>3. Q = <<>> /\ M = {} /\ \A r \in RobsOf(c) : B[r] = <<>>
    BY DEF Nothing
  <1>4. Homes(c, u, B, Q)
    BY <1>1, <1>2, <1>3 DEF Homes
  <1>5. Ordered(c, u, B, Q, ts)
    <2>1. \A t \in TidsOf(c) : /\ ts[t].retired = 0 /\ ts[t].next = 1
                               /\ ts[t].retired + 1 .. ts[t].next - 1 = {} /\ Len(c.prog[t + 1]) \in Nat
      BY DEF Nothing
    <2>2. Sorted(u, Q) /\ \A r \in RobsOf(c) : Sorted(u, B[r])
      BY <1>2, <1>3 DEF Sorted
    <2>3. \A t \in TidsOf(c) : ts[t].retired \in Nat /\ ts[t].next \in Nat /\ ts[t].retired < ts[t].next
                               /\ ts[t].next <= Len(c.prog[t + 1]) + 1
      BY <2>1
    <2> QED BY <1>1, <1>2, <1>3, <2>1, <2>2, <2>3 DEF Ordered
  <1>6. Owned(u, P)
    <2>1. P = [i \in 1 .. NumObjects |-> i] /\ NumObjects \in Nat
      BY PipelineAssumption DEF Nothing, Objects
    <2>2. P \in Seq(Objects) /\ Len(P) = NumObjects /\ \A i \in 1 .. NumObjects : P[i] = i
      BY <2>1 DEF Objects
    <2>3. OnceEach(P)
      BY <2>2 DEF OnceEach
    <2> QED BY <1>1, <2>2, <2>3 DEF Owned
  <1>7. Answered(u, M)
    BY <1>1, <1>3, FS_EmptySet DEF Answered
  <1>8. Waits(c, u, R, B, Q, A)
    <2>1. \A q \in ToSet(Queues) : A[q][1] = <<>>
      BY DEF Nothing
    <2>2. ToSet(<<>>) = {}
      BY DEF ToSet
    <2> QED BY <1>2, <1>3, <2>1, <2>2 DEF Waits
  <1>9. Scheduled(c, u, R, B, S)
    BY <1>1 DEF Scheduled, Nothing
  <1>10. Counted(c, u, R, B, S, ts)
    <2>1. InSched(u) = {} /\ (\A q : InSchedOf(u, q) = {}) /\ (\A t : ToDispatch(u, t) = {})
      BY <1>1 DEF InSched, InSchedOf, ToDispatch
    <2>2. \A r \in RobsOf(c) : \A k : Holding(c, u, B[r], k) = {}
      BY <1>2, <1>3 DEF Holding
    <2>3. Cardinality({}) = 0
      BY FS_EmptySet
    <2>4. \A r \in RobsOf(c) : R[r].free = c.rob - Len(B[r])
      BY <1>2, <1>3 DEF Nothing
    <2>5. \A r \in RobsOf(c) : \A k \in Resources : R[r][k] = LimitOf(c, k) - 0
      BY DEF Nothing
    <2>6. S.num = 0 /\ (\A q \in ToSet(Queues) : S.per[q] = 0) /\ \A t \in TidsOf(c) : ts[t].dispatch = 0
      BY DEF Nothing
    <2> QED BY <2>1, <2>2, <2>3, <2>4, <2>5, <2>6 DEF Counted
  <1>11. InOrder(c, u, R, B, S)
    <2>1. B[0] = <<>> /\ Len(B[0]) = 0 /\ S.next = 0 /\ R[0].first = 0 /\ c.rob \in Nat \ {0}
      BY <1>2, <1>3 DEF Nothing
    <2>2. SlotOf(R[0].first, 0 + 1, 2 * c.rob) = 0
      BY <2>1 DEF SlotOf, Wrap
    <2>3. 0 \in 0 .. Len(B[0]) /\ 1 .. Len(B[0]) = {}
      BY <2>1
    <2> QED BY <2>1, <2>2, <2>3 DEF InOrder
  <1>12. Mapped(c, u, ts, mp)
    <2>1. \A t \in TidsOf(c) : ts[t].next = 1
      BY DEF Nothing
    <2>2. \A t, r, j : ~LastWriter(c, t, 1, r, j)
      BY DEF LastWriter
    <2> QED BY <1>1, <2>1, <2>2 DEF Mapped
  <1> QED BY <1>4, <1>5, <1>6, <1>7, <1>8, <1>9, <1>10, <1>11, <1>12 DEF Whole, Rings

LEMMA NewRobTyped ==
    ASSUME ConfigOk(conf)
    PROVE  /\ NewRob \in RobRecord(conf)
           /\ NewRob.first = 0 /\ NewRob.last = 0 /\ NewRob.free = conf.rob
           /\ \A k \in Resources : NewRob[k] = LimitOf(conf, k)
           /\ NewRob.slot \in [0 .. 2 * conf.rob - 1 -> 0 .. NumObjects]
  <1> DEFINE n == 0
             s == [i \in 0 .. 2 * conf.rob - 1 |-> 0]
             W == 0 .. 2 * conf.rob - 1
             G == [0 .. 2 * conf.rob - 1 -> 0 .. NumObjects]
  <1>1. n \in W /\ s \in G
    BY PipelineAssumption DEF ConfigOk
  <1>2. NewRob = [slot |-> s, first |-> n, last |-> n, free |-> conf.rob, st |-> conf.sb, ld |-> conf.lb,
                  int |-> conf.ints, fp |-> conf.fps]
    BY DEF NewRob
  <1>3. conf.rob \in Int /\ conf.sb \in Int /\ conf.lb \in Int /\ conf.ints \in Int /\ conf.fps \in Int
    BY DEF ConfigOk
  <1> HIDE DEF s, G, W, n
  <1>4. NewRob \in [slot : G, first : W, last : W, free : Int, st : Int, ld : Int, int : Int, fp : Int]
    BY <1>1, <1>2, <1>3
  <1>5. NewRob.first = n /\ NewRob.last = n /\ NewRob.free = conf.rob /\ NewRob.slot = s
    BY <1>2
  <1>6. NewRob.st = conf.sb /\ NewRob.ld = conf.lb /\ NewRob.int = conf.ints /\ NewRob.fp = conf.fps
    BY <1>2
  <1>7. NewRob["st"] = conf.sb /\ NewRob["ld"] = conf.lb /\ NewRob["int"] = conf.ints /\ NewRob["fp"] = conf.fps
    BY <1>6
  <1>8. \A k \in Resources : NewRob[k] = LimitOf(conf, k)
    BY <1>7 DEF Resources, LimitOf
  <1> QED BY <1>1, <1>4, <1>5, <1>8 DEF RobRecord, G, W, n

LEMMA NewSchedTyped ==
    ASSUME ConfigOk(conf)
    PROVE  /\ NewSched \in SchedRecord(conf)
           /\ NewSched.num = 0 /\ NewSched.next = 0 /\ NewSched.first = 0
           /\ \A q \in ToSet(Queues) : NewSched.per[q] = 0
           /\ \A i \in 0 .. conf.list - 1 : NewSched.list[i] = <<>>
  <1> DEFINE n == 0
             z == [q \in ToSet(Queues) |-> 0]
             s == [i \in 0 .. conf.list - 1 |-> <<>>]
             W == 0 .. conf.list - 1
             V == 0 .. 2 * conf.rob - 1
             F == [ToSet(Queues) -> Int]
             G == [0 .. conf.list - 1 -> Entries \cup {<<>>}]
  <1>1. n \in W /\ n \in V /\ n \in Int /\ s \in G /\ z \in F
    <2>1. conf.list \in Nat \ {0} /\ conf.rob \in Nat \ {0}
      BY DEF ConfigOk
    <2>2. n \in W /\ n \in V /\ n \in Int
      BY <2>1
    <2>3. s \in G
      <3> DEFINE E == Entries \cup {<<>>}
      <3>1. <<>> \in E
        OBVIOUS
      <3> HIDE DEF E
      <3> QED BY <3>1
    <2>4. z \in F
      OBVIOUS
    <2> QED BY <2>2, <2>3, <2>4
  <1>2. NewSched = [list |-> s, first |-> n, last |-> n, num |-> n, per |-> z, next |-> n, used |-> z]
    BY DEF NewSched
  <1>3. (\A q \in ToSet(Queues) : z[q] = 0) /\ \A i \in W : s[i] = <<>>
    OBVIOUS
  <1> HIDE DEF s, G, W, V, F, z, n
  <1>4. NewSched \in [list : G, first : W, last : W, num : Int, per : F, next : V, used : F]
    BY <1>1, <1>2
  <1>5. NewSched.num = n /\ NewSched.next = n /\ NewSched.first = n /\ NewSched.per = z /\ NewSched.list = s
    BY <1>2
  <1> QED BY <1>3, <1>4, <1>5 DEF SchedRecord, G, W, V, F, n

LEMMA NewThreadTyped ==
    /\ NewThread \in ThreadRecord
    /\ NewThread.retired = 0 /\ NewThread.next = 1 /\ NewThread.dispatch = 0 /\ ~NewThread.reachEnd
  BY DEF NewThread, ThreadRecord

LEMMA NewQueueIs ==
    ASSUME NEW X, NEW n \in Nat
    PROVE  /\ NewQueue(n) \in Seq(Seq(X)) /\ NewQueue(n) # <<>> /\ Len(NewQueue(n)) = n + 1
           /\ \A k \in 1 .. n + 1 : NewQueue(n)[k] = <<>>
  <1> DEFINE e == <<>>
             Y == Seq(X)
             q == [i \in 1 .. n + 1 |-> e]
  <1>1. e \in Y /\ n + 1 \in Nat /\ n + 1 # 0
    OBVIOUS
  <1>2. NewQueue(n) = q
    BY DEF NewQueue
  <1> HIDE DEF e, Y
  <1>3. q \in Seq(Y) /\ Len(q) = n + 1 /\ \A k \in 1 .. n + 1 : q[k] = e
    BY <1>1
  <1>4. q # <<>>
    BY <1>1, <1>3, LenProperties
  <1> HIDE DEF q
  <1> QED BY <1>2, <1>3, <1>4 DEF e, Y

\* The invariant holds at first.
LEMMA InitTyped ==
    ASSUME Init
    PROVE  Typed
  <1>1. id \in DOMAIN Configs /\ stage = "memory" /\ loop = Idle
        /\ uops = [o \in Objects |-> Blank] /\ feq = NewQueue(conf.feLatency)
        /\ iaq = [q \in ToSet(Queues) |-> NewQueue(0)] /\ rob = [r \in Robs |-> NewRob]
        /\ sched = NewSched /\ map = [t \in Tids |-> NewMap] /\ threads = [t \in Tids |-> NewThread] /\ arbiter = 0
    BY DEF Init
  <1>2. ConfigOk(conf) /\ 0 \in Tids /\ conf.feLatency \in Nat
    BY <1>1, ConfFacts DEF ConfigOk
  <1>3. UopsTyped
    BY <1>1, BlankTyped DEF UopsTyped
  <1>4. QueuesTyped
    <2>1. feq \in Seq(Seq(Objects)) /\ feq # <<>>
      BY <1>1, <1>2, NewQueueIs
    <2> DEFINE W == Seq(Seq(Entries))
    <2>2. NewQueue(0) \in W /\ Len(NewQueue(0)) = 1
      <3>1. 0 \in Nat /\ 0 + 1 = 1
        OBVIOUS
      <3>2. NewQueue(0) \in W /\ Len(NewQueue(0)) = 0 + 1
        BY <3>1, NewQueueIs
      <3> QED BY <3>1, <3>2
    <2> HIDE DEF W
    <2>3. iaq \in [ToSet(Queues) -> W] /\ \A q \in ToSet(Queues) : Len(iaq[q]) = 1
      BY <1>1, <2>2
    <2> QED BY <2>1, <2>3 DEF QueuesTyped, W
  <1>5. RobsTyped
    BY <1>1, <1>2, NewRobTyped DEF RobsTyped
  <1>6. SchedTyped
    BY <1>1, <1>2, NewSchedTyped DEF SchedTyped
  <1>7. ThreadsTyped
    BY <1>1, NewThreadTyped DEF ThreadsTyped
  <1>8. MapTyped
    <2> DEFINE z == [o |-> 0, num |-> 0]
               F == [r \in conf.regs |-> z]
               G == [a \in Addresses |-> 0]
    <2>1. z \in Src /\ 0 \in 0 .. NumObjects
      BY PipelineAssumption DEF Src
    <2>2. NewMap = [reg |-> F, store |-> G]
      BY DEF NewMap
    <2> HIDE DEF z
    <2>3. F \in [conf.regs -> Src] /\ G \in [Addresses -> 0 .. NumObjects]
      BY <2>1
    <2> HIDE DEF F, G
    <2>4. NewMap \in MapRecord(conf, Addresses)
      BY <2>2, <2>3 DEF MapRecord
    <2> QED BY <1>1, <2>4 DEF MapTyped
  <1>9. LoopTyped
    <2> DEFINE W == Seq(Robs) \cup Seq(ToSet(Queues))
               k == -1
               n == 0
               e == <<>>
    <2>1. k \in Int /\ n \in Nat /\ e \in W
      OBVIOUS
    <2>2. loop = [n |-> n, at |-> n, tid |-> k, todo |-> e]
      BY <1>1 DEF Idle
    <2> HIDE DEF W, k, n, e
    <2>3. loop \in [n : Nat, at : Nat, tid : Int, todo : W]
      BY <2>1, <2>2
    <2> QED BY <1>1, <2>3 DEF LoopTyped, W
  <1> QED BY <1>1, <1>2, <1>3, <1>4, <1>5, <1>6, <1>7, <1>8, <1>9 DEF Typed

LEMMA InitSound ==
    ASSUME Init
    PROVE  IInv
  <1>1. Typed
    BY InitTyped
  <1>2. id \in DOMAIN Configs
        /\ uops = [o \in Objects |-> Blank] /\ feq = NewQueue(conf.feLatency) /\ pool = [i \in Objects |-> i]
        /\ iaq = [q \in ToSet(Queues) |-> NewQueue(0)] /\ rob = [r \in Robs |-> NewRob]
        /\ sched = NewSched /\ threads = [t \in Tids |-> NewThread] /\ misses = {}
    BY DEF Init
  <1>3. ConfigOk(conf) /\ Tids = TidsOf(conf) /\ Robs = RobsOf(conf) /\ 0 \in RobsOf(conf)
        /\ conf.rob \in Nat \ {0} /\ conf.feLatency \in Nat /\ \A k \in Resources : LimitOf(conf, k) \in Nat
    BY <1>2, ConfFacts DEF ConfigOk
  <1> DEFINE m == 2 * conf.rob
             s == NewRob.slot
  <1>4. m \in Nat \ {0} /\ 0 \in 0 .. m - 1 /\ s \in [0 .. m - 1 -> 0 .. NumObjects]
        /\ NewRob.first = 0 /\ NewRob.last = 0 /\ NewRob.free = conf.rob
        /\ \A k \in Resources : NewRob[k] = LimitOf(conf, k)
    BY <1>3, NewRobTyped
  <1>5. \A r \in Robs : rob[r] = NewRob
    BY <1>2
  <1>6. ASSUME NEW r \in Robs
        PROVE  Bufs[r] = <<>> /\ Circular(0 .. NumObjects, m, rob[r].slot, rob[r].first, rob[r].last, Bufs[r])
    <2>1. Bufs[r] = Circle(s, 0, 0, m)
      BY <1>4, <1>5, <1>6 DEF Bufs, InRob, Circle
    <2> HIDE DEF m, s
    <2>2. Gap(0, 0, m) = 0
      BY <1>4 DEF Gap
    <2>3. Circle(s, 0, 0, m) = [j \in 1 .. 0 |-> s[SlotOf(0, j, m)]]
      BY <1>4, <2>2, CircleIs
    <2>4. Circular(0 .. NumObjects, m, s, 0, 0, Bufs[r])
      BY <1>4, <2>1, <2>2, <2>3 DEF Circular
    <2>5. Bufs[r] = <<>>
      BY <2>1, <2>3
    <2> QED BY <1>4, <1>5, <1>6, <2>4, <2>5 DEF s
  <1>7. Rings(conf, rob, Bufs)
    BY <1>3, <1>6 DEF Rings
  <1>8. FrontEnd = <<>>
    <2>1. feq \in Seq(Seq(Objects)) /\ feq # <<>> /\ \A k \in 1 .. Len(feq) : feq[k] = <<>>
      BY <1>2, <1>3, NewQueueIs
    <2> QED BY <2>1, FlatEmpty DEF FrontEnd
  <1>9. \A q \in ToSet(Queues) : iaq[q][1] = <<>>
    <2>1. NewQueue(0)[1] = <<>>
      BY NewQueueIs
    <2> QED BY <1>2, <2>1
  <1>10. \A t \in TidsOf(conf) : Len(conf.prog[t + 1]) \in Nat
    <2> DEFINE X == Seq(Instructions(conf))
    <2>1. conf.prog \in Seq(X)
      BY <1>3 DEF ConfigOk
    <2>2. \A i \in 1 .. Len(conf.prog) : conf.prog[i] \in X
      <3> HIDE DEF X
      <3> QED BY <2>1
    <2>3. \A i \in 1 .. Len(conf.prog) : Len(conf.prog[i]) \in Nat
      BY <2>2
    <2>4. Len(conf.prog) \in Nat
      <3> HIDE DEF X
      <3> QED BY <2>1
    <2> QED BY <2>3, <2>4 DEF TidsOf
  <1>11. Nothing(conf, uops, rob, Bufs, FrontEnd, iaq, sched, threads, misses, pool)
    <2>1. \A o \in Objects : uops[o] = Blank
      BY <1>2
    <2>2. \A r \in RobsOf(conf) : Bufs[r] = <<>>
      BY <1>3, <1>6
    <2>3. \A r \in RobsOf(conf) : /\ rob[r].free = conf.rob /\ rob[r].first = 0
                                  /\ \A k \in Resources : rob[r][k] = LimitOf(conf, k)
      BY <1>3, <1>4, <1>5
    <2>4. /\ sched.num = 0 /\ sched.next = 0 /\ \A q \in ToSet(Queues) : sched.per[q] = 0
          /\ \A i \in 0 .. conf.list - 1 : sched.list[i] = <<>>
      BY <1>2, <1>3, NewSchedTyped
    <2>5. \A t \in TidsOf(conf) : threads[t].retired = 0 /\ threads[t].next = 1 /\ threads[t].dispatch = 0
      BY <1>2, <1>3, NewThreadTyped
    <2> QED BY <1>2, <1>3, <1>8, <1>9, <1>10, <2>1, <2>2, <2>3, <2>4, <2>5 DEF Nothing
  <1>12. Sound
    BY <1>3, <1>7, <1>11, NothingWhole DEF Sound
  <1> QED BY <1>1, <1>12 DEF IInv

\* Every step keeps it.
LEMMA StutterKeeps ==
    ASSUME IInv, UNCHANGED vars
    PROVE  IInv'
  <1>1. /\ id' = id /\ stage' = stage /\ loop' = loop /\ uops' = uops /\ pool' = pool /\ feq' = feq /\ iaq' = iaq
        /\ rob' = rob /\ sched' = sched /\ map' = map /\ threads' = threads /\ arbiter' = arbiter
        /\ misses' = misses
    BY DEF vars
  <1>2. Typed
    BY DEF IInv
  <1>3. LoopTyped'
    <2>1. conf' = conf /\ Tids' = Tids /\ Robs' = Robs
      BY <1>1, <1>2, Unmoved
    <2> QED BY <1>1, <1>2, <2>1 DEF Typed, LoopTyped
  <1>4. Typed'
    BY <1>1, <1>2, <1>3, Unmoved DEF Typed
  <1>5. FrontEnd' = FrontEnd
    BY <1>1, <1>2, Unmoved
  <1>6. Sound'
    BY <1>1, <1>5, SameKeeps
  <1> QED BY <1>4, <1>6 DEF IInv

LEMMA StepKeeps ==
    ASSUME IInv, [Next]_vars
    PROVE  IInv'
  <1>1. CASE UNCHANGED vars
    BY <1>1, StutterKeeps
  <1>2. CASE AnswerData \/ AnswerFetch \/ RunCore
    BY <1>2, AnswerDataKeeps, AnswerFetchKeeps, RunCoreKeeps
  <1>3. CASE Retire \/ RetireDone
    BY <1>3, RetireKeeps, RetireDoneKeeps
  <1>4. CASE ScanHole \/ ScanIssue \/ InOrderIssue \/ InOrderStop \/ ScheduleDone
    BY <1>4, ScanHoleKeeps, ScanIssueKeeps, InOrderIssueKeeps, InOrderStopKeeps, ScheduleDoneKeeps
  <1>5. CASE Advance \/ AdvanceDone \/ Allocate \/ AllocateDone
    BY <1>5, AdvanceKeeps, AdvanceDoneKeeps, AllocateKeeps, AllocateDoneKeeps
  <1>6. CASE fetch_rr \/ Fetch \/ FetchDone \/ EndCycle
    BY <1>6, fetch_rrKeeps, FetchKeeps, FetchDoneKeeps, EndCycleKeeps
  <1> QED BY <1>1, <1>2, <1>3, <1>4, <1>5, <1>6 DEF Next

THEOREM PipelineInvariant == Spec => []IInv
  <1>1. Init => IInv
    BY InitSound
  <1>2. IInv /\ [Next]_vars => IInv'
    BY StepKeeps
  <1> QED BY <1>1, <1>2, PTL DEF Spec

--------------------------------------------------------------------------------
\* What the invariant says of the uops in flight, in the words of the properties.
LEMMA InFlight ==
    ASSUME IInv
    PROVE  /\ \A t \in Tids, o \in Objects : o \in Uops(t) <=> Main(uops, o) /\ uops[o].tid = t
           /\ \A o \in Objects : o \in AllUops <=> Main(uops, o)
           /\ \A o \in Objects : Main(uops, o) => uops[o].tid \in Tids
           /\ \A o \in Objects : Resource(o) = KindOf(conf, uops, o)
           /\ \A r \in Robs : InRob(r) = Bufs[r] /\ InRob(r) \in Seq(Objects) /\ OnceEach(InRob(r))
                              /\ DOMAIN InRob(r) = 1 .. Len(InRob(r))
           /\ Tids = TidsOf(conf) /\ Robs = RobsOf(conf)
  <1>1. Tids = TidsOf(conf) /\ Robs = RobsOf(conf)
    BY ConfFacts DEF IInv, Typed
  <1>2. Homes(conf, uops, Bufs, FrontEnd)
    BY SoundParts DEF IInv
  <1>3. \A o \in Objects : Main(uops, o) => uops[o].tid \in Tids
    BY <1>1, <1>2 DEF Homes
  <1>4. \A t \in Tids, o \in Objects : o \in Uops(t) <=> Main(uops, o) /\ uops[o].tid = t
    BY DEF Uops, Main
  <1>5. \A o \in Objects : o \in AllUops <=> Main(uops, o)
    BY <1>3, <1>4 DEF AllUops
  <1>6. \A o \in Objects : Resource(o) = KindOf(conf, uops, o)
    BY DEF Resource, Op, Program, KindOf
  <1>7. \A r \in Robs : InRob(r) = Bufs[r] /\ InRob(r) \in Seq(Objects) /\ OnceEach(InRob(r))
    BY <1>1, <1>2 DEF Homes, Bufs
  <1>8. \A r \in Robs : DOMAIN InRob(r) = 1 .. Len(InRob(r))
    BY <1>7
  <1> QED BY <1>1, <1>3, <1>4, <1>5, <1>6, <1>7, <1>8

\* Every counter is exact: the invariant counts the same uops by their objects.
LEMMA CountersExact ==
    ASSUME IInv
    PROVE  ResourcesExact
  <1>1. Counted(conf, uops, rob, Bufs, sched, threads) /\ Scheduled(conf, uops, rob, Bufs, sched)
        /\ Homes(conf, uops, Bufs, FrontEnd) /\ Rings(conf, rob, Bufs)
    BY SoundParts DEF IInv
  <1>2. ASSUME NEW r \in Robs
        PROVE  /\ rob[r].free = conf.rob - Len(InRob(r))
               /\ \A k \in Resources :
                    rob[r][k] = Limit(k) - Cardinality({i \in DOMAIN InRob(r) : Resource(InRob(r)[i]) = k})
    <2> DEFINE b == InRob(r)
    <2>1. b = Bufs[r] /\ b \in Seq(Objects) /\ OnceEach(b) /\ DOMAIN b = 1 .. Len(b) /\ r \in RobsOf(conf)
      BY <1>2, InFlight
    <2>2. rob[r].free = conf.rob - Len(b)
      BY <1>1, <2>1 DEF Counted
    <2>3. ASSUME NEW k \in Resources
          PROVE  rob[r][k] = Limit(k) - Cardinality({i \in DOMAIN b : Resource(b[i]) = k})
      <3> DEFINE P == {o \in Objects : Resource(o) = k}
      <3>1. rob[r][k] = LimitOf(conf, k) - Cardinality(Holding(conf, uops, b, k))
        BY <1>1, <2>1, <2>3 DEF Counted
      <3>2. LimitOf(conf, k) = Limit(k)
        BY DEF LimitOf, Limit
      <3>3. Holding(conf, uops, b, k) = {o \in Objects : Occurs(o, b) /\ o \in P}
        BY InFlight DEF Holding
      <3>4. {i \in DOMAIN b : Resource(b[i]) = k} = {i \in 1 .. Len(b) : b[i] \in P}
        <4>1. \A i \in 1 .. Len(b) : b[i] \in Objects
          BY <2>1
        <4> QED BY <2>1, <4>1
      <3>5. Cardinality({i \in 1 .. Len(b) : b[i] \in P}) = Cardinality({o \in Objects : Occurs(o, b) /\ o \in P})
        <4> HIDE DEF b
        <4>1. P \in SUBSET Objects
          OBVIOUS
        <4> DEFINE J == {i \in 1 .. Len(b) : b[i] \in P}
                   K == {o \in Objects : Occurs(o, b) /\ o \in P}
        <4>2. PlacesOf(Objects, b, P, J, K)
          <5> HIDE DEF P
          <5> QED BY <2>1, <4>1 DEF PlacesOf
        <4> HIDE DEF P, J, K
        <4>3. Cardinality(J) = Cardinality(K)
          BY <4>2, PlacesCounted
        <4> QED BY <4>3 DEF J, K
      <3> QED BY <3>1, <3>2, <3>3, <3>4, <3>5
    <2> QED BY <2>2, <2>3
  <1>3. /\ {o \in AllUops : uops[o].ins} = InSched(uops)
        /\ \A q : {o \in AllUops : uops[o].ins /\ uops[o].q = q} = InSchedOf(uops, q)
        /\ \A t \in Tids : {o \in Uops(t) : ~uops[o].issued} = ToDispatch(uops, t)
    <2>1. AllUops \subseteq Objects /\ \A t : Uops(t) \subseteq Objects
      BY DEF AllUops, Uops
    <2> QED BY <2>1, InFlight DEF InSched, InSchedOf, ToDispatch
  <1>4. /\ sched.num = Cardinality({o \in AllUops : uops[o].ins})
        /\ \A q \in ToSet(Queues) : sched.per[q] = Cardinality({o \in AllUops : uops[o].ins /\ uops[o].q = q})
        /\ \A t \in Tids : threads[t].dispatch = Cardinality({o \in Uops(t) : ~uops[o].issued})
    BY <1>1, <1>3, InFlight DEF Counted
  <1>5. ASSUME conf.kind # "io"
        PROVE  {At(sched.list[i]) : i \in Listed} = {o \in AllUops : uops[o].ins}
    <2>1. \A e : At(e) = Behind(rob, e)
      BY DEF At, Behind
    <2>2. ASSUME NEW i \in Listed
          PROVE  At(sched.list[i]) \in {o \in AllUops : uops[o].ins}
      <3>1. Lives(conf, rob, Bufs, sched.list[i]) /\ uops[Behind(rob, sched.list[i])].ins
        BY <1>1, <1>5, <2>2 DEF Scheduled, Listed
      <3>2. Behind(rob, sched.list[i]) \in Objects /\ Main(uops, Behind(rob, sched.list[i]))
        BY <1>1, <3>1, LiveMain
      <3> QED BY <2>1, <3>1, <3>2, InFlight
    <2>3. ASSUME NEW o \in AllUops, uops[o].ins
          PROVE  \E i \in Listed : At(sched.list[i]) = o
      <3>1. o \in Objects /\ Main(uops, o)
        <4>1. o \in Objects
          BY <2>3 DEF AllUops, Uops
        <4> QED BY <2>3, <4>1, InFlight
      <3>2. PICK i \in 0 .. conf.list - 1 : sched.list[i] # <<>> /\ Behind(rob, sched.list[i]) = o
        BY <1>1, <1>5, <2>3, <3>1 DEF Scheduled
      <3> QED BY <2>1, <3>2 DEF Listed
    <2> QED BY <2>2, <2>3
  <1> QED BY <1>2, <1>4, <1>5 DEF ResourcesExact

\* The counters of resources are exact in every state: the free entries, buffers and
\* registers of a reorder buffer (rob.cc), the uops in the scheduler and in its list
\* (schedule.cc), and the uops of a thread that are still to be dispatched (core.cc).
THEOREM PipelineResources == Spec => []ResourcesExact
  <1>1. IInv => ResourcesExact
    BY CountersExact
  <1> QED BY <1>1, PipelineInvariant, PTL

--------------------------------------------------------------------------------
\* The uops of a thread in its reorder buffer and in the frontend queue.
Flight(c, u, B, Q, t, f, P) ==
    /\ t \in TidsOf(c) /\ f = B[RobFor(c, t)] \o Q
    /\ P \in SUBSET Objects /\ \A o \in Objects : o \in P <=> u[o].tid = t

LEMMA FlightHolds ==
    ASSUME NEW c, NEW u, NEW B, NEW Q, NEW ts, NEW t, NEW f, NEW P, Homes(c, u, B, Q),
           Ordered(c, u, B, Q, ts), Flight(c, u, B, Q, t, f, P)
    PROVE  /\ f \in Seq(Objects) /\ OnceEach(f)
           /\ \A o \in P : Occurs(o, f) <=> Main(u, o)
           /\ \A o, p \in P : Main(u, o) /\ Main(u, p) /\ u[o].at < u[p].at => Precedes(o, p, f)
  <1> DEFINE r == RobFor(c, t)
             b == B[r]
  <1>1. r \in RobsOf(c) /\ b \in Seq(Objects) /\ OnceEach(b) /\ Q \in Seq(Objects) /\ OnceEach(Q)
        /\ f = b \o Q
    BY DEF Flight, RobsOf, Homes
  <1>2. \A x : ~(Occurs(x, b) /\ Occurs(x, Q))
    <2>1. \A i \in 1 .. Len(b) : b[i] \in Objects
      BY <1>1
    <2> QED BY <1>1, <2>1 DEF Homes, Occurs
  <1>3. \A o \in P : o \in Objects /\ u[o].tid = t
    BY DEF Flight
  <1> HIDE DEF b
  <1>4. f \in Seq(Objects) /\ OnceEach(f) /\ \A x : Occurs(x, f) <=> Occurs(x, b) \/ Occurs(x, Q)
    BY <1>1, <1>2, Joined
  <1>5. \A o \in P : Occurs(o, f) <=> Main(u, o)
    BY <1>1, <1>3, <1>4 DEF Homes, b
  <1>6. /\ Len(f) = Len(b) + Len(Q) /\ Len(b) \in Nat /\ Len(Q) \in Nat
        /\ \A i \in 1 .. Len(b) : f[i] = b[i]
        /\ \A i \in 1 .. Len(Q) : f[Len(b) + i] = Q[i]
    BY <1>1, ConcatProperties, LenProperties
  <1>7. ASSUME NEW o \in P, NEW p \in P, Main(u, o), Main(u, p), u[o].at < u[p].at,
               u[o].at \in Nat, u[p].at \in Nat
        PROVE  Precedes(o, p, f)
    <2>1. o \in Objects /\ p \in Objects /\ u[o].tid = t /\ u[p].tid = t
      BY <1>3
    <2>2. Occurs(o, b) \/ Occurs(o, Q)
      BY <1>4, <1>5, <1>7
    <2>3. Occurs(p, b) \/ Occurs(p, Q)
      BY <1>4, <1>5, <1>7
    <2>4. ~(u[p].at < u[o].at) /\ ~(u[o].at < u[o].at)
      BY <1>7
    <2>5. Sorted(u, b) /\ Sorted(u, Q)
      BY <1>1 DEF Ordered, b
    <2>6. CASE Occurs(o, b) /\ Occurs(p, b)
      <3>1. PICK i, j \in 1 .. Len(b) : b[i] = o /\ b[j] = p
        BY <2>6 DEF Occurs
      <3>2. ~(j < i) /\ j # i
        BY <2>1, <2>4, <2>5, <3>1, <1>7 DEF Sorted
      <3>3. i < j /\ i \in 1 .. Len(f) /\ j \in 1 .. Len(f) /\ f[i] = o /\ f[j] = p
        BY <1>6, <3>1, <3>2
      <3> QED BY <3>3 DEF Precedes
    <2>7. CASE Occurs(o, b) /\ Occurs(p, Q)
      <3>1. PICK i \in 1 .. Len(b), j \in 1 .. Len(Q) : b[i] = o /\ Q[j] = p
        BY <2>7 DEF Occurs
      <3>2. i < Len(b) + j /\ i \in 1 .. Len(f) /\ Len(b) + j \in 1 .. Len(f) /\ f[i] = o /\ f[Len(b) + j] = p
        BY <1>6, <3>1
      <3> QED BY <3>2 DEF Precedes
    <2>8. CASE Occurs(o, Q) /\ Occurs(p, b)
      BY <1>1, <2>1, <2>4, <2>8 DEF Ordered, b
    <2>9. CASE Occurs(o, Q) /\ Occurs(p, Q)
      <3>1. PICK i, j \in 1 .. Len(Q) : Q[i] = o /\ Q[j] = p
        BY <2>9 DEF Occurs
      <3>2. ~(j < i) /\ j # i
        BY <2>1, <2>4, <2>5, <3>1, <1>7 DEF Sorted
      <3>3. Len(b) + i < Len(b) + j /\ Len(b) + i \in 1 .. Len(f) /\ Len(b) + j \in 1 .. Len(f)
            /\ f[Len(b) + i] = o /\ f[Len(b) + j] = p
        BY <1>6, <3>1, <3>2
      <3> QED BY <3>3 DEF Precedes
    <2> QED BY <2>2, <2>3, <2>6, <2>7, <2>8, <2>9
  <1>8. \A o \in Objects : Main(u, o) => u[o].at \in Nat
    BY DEF Homes
  <1> QED BY <1>3, <1>4, <1>5, <1>7, <1>8

\* They are those between the last retired and the next one, in their order.
Mine(u, ts, t, f, P, m, q, g) ==
    /\ m = Kept(f, P) /\ q = [i \in DOMAIN m |-> u[m[i]].at]
    /\ g = [i \in 1 .. ts[t].next - 1 - ts[t].retired |-> ts[t].retired + i]
LEMMA FlightInOrder ==
    ASSUME NEW c, NEW u, NEW B, NEW Q, NEW ts, NEW t, NEW f, NEW P, Homes(c, u, B, Q),
           Ordered(c, u, B, Q, ts), Flight(c, u, B, Q, t, f, P),
           NEW m, NEW q, NEW g, Mine(u, ts, t, f, P, m, q, g)
    PROVE  q = g
  <1> DEFINE a == ts[t].retired + 1
             z == ts[t].next - 1
  <1>1. f \in Seq(Objects) /\ OnceEach(f) /\ P \in SUBSET Objects /\ t \in TidsOf(c)
        /\ (\A o \in P : Occurs(o, f) <=> Main(u, o)) /\ (\A o \in Objects : o \in P <=> u[o].tid = t)
        /\ \A o, p \in P : Main(u, o) /\ Main(u, p) /\ u[o].at < u[p].at => Precedes(o, p, f)
    <2>1. P \in SUBSET Objects /\ t \in TidsOf(c) /\ \A o \in Objects : o \in P <=> u[o].tid = t
      BY DEF Flight
    <2>2. /\ f \in Seq(Objects) /\ OnceEach(f)
          /\ \A o \in P : Occurs(o, f) <=> Main(u, o)
          /\ \A o, p \in P : Main(u, o) /\ Main(u, p) /\ u[o].at < u[p].at => Precedes(o, p, f)
      BY FlightHolds
    <2> QED BY <2>1, <2>2
  <1>2. /\ m \in Seq(Objects) /\ OnceEach(m)
        /\ \A x : Occurs(x, m) <=> Occurs(x, f) /\ x \in P
        /\ \A x, y \in P : Precedes(x, y, f) => Precedes(x, y, m)
    <2>1. m = Kept(f, P)
      BY DEF Mine
    <2> QED BY <1>1, <2>1, KeptProperties
  <1>3. a \in Nat /\ z \in Int /\ a <= z + 1
    BY <1>1 DEF Ordered
  <1>4. Len(m) \in Nat /\ DOMAIN m = 1 .. Len(m)
        /\ \A i \in 1 .. Len(m) : m[i] \in P /\ m[i] \in Objects /\ Main(u, m[i]) /\ u[m[i]].tid = t
    BY <1>1, <1>2 DEF Occurs
  <1>5. \A i \in 1 .. Len(m) : u[m[i]].at \in Nat
    BY <1>4 DEF Homes
  <1>6. q \in Seq(Nat) /\ Len(q) = Len(m) /\ \A i \in 1 .. Len(m) : q[i] = u[m[i]].at
    <2>1. q = [i \in 1 .. Len(m) |-> u[m[i]].at]
      BY <1>4 DEF Mine
    <2> QED BY <1>4, <1>5, <2>1
  <1>7. OnceEach(q)
    <2> SUFFICES ASSUME NEW i \in 1 .. Len(m), NEW j \in 1 .. Len(m), u[m[i]].at = u[m[j]].at
                 PROVE  i = j
      BY <1>6 DEF OnceEach
    <2>1. m[i] = m[j]
      BY <1>4 DEF Ordered
    <2> QED BY <1>2, <2>1 DEF OnceEach
  <1>8. \A x : Occurs(x, q) => x \in a .. z
    <2> SUFFICES ASSUME NEW i \in 1 .. Len(m) PROVE u[m[i]].at \in a .. z
      BY <1>6 DEF Occurs
    <2>1. ts[t].retired < u[m[i]].at /\ u[m[i]].at < ts[t].next
      BY <1>4 DEF Ordered
    <2>2. ts[t].retired \in Nat /\ ts[t].next \in Nat
      BY <1>1 DEF Ordered
    <2> QED BY <1>5, <2>1, <2>2
  <1>9. ASSUME NEW x \in a .. z
        PROVE  \E o \in P : Main(u, o) /\ u[o].at = x /\ Occurs(o, m)
    <2>1. PICK o \in Objects : Main(u, o) /\ u[o].tid = t /\ u[o].at = x
      BY <1>1, <1>9 DEF Ordered
    <2> QED BY <1>1, <1>2, <2>1
  <1>10. ASSUME NEW x \in a .. z
         PROVE  Occurs(x, q)
    <2>1. PICK o \in P : Main(u, o) /\ u[o].at = x /\ Occurs(o, m)
      BY <1>9
    <2>2. PICK i \in 1 .. Len(m) : m[i] = o
      BY <2>1 DEF Occurs
    <2>3. i \in 1 .. Len(q) /\ q[i] = x
      BY <1>6, <2>1, <2>2
    <2> QED BY <2>3 DEF Occurs
  <1>11. ASSUME NEW x \in a .. z, NEW y \in a .. z, x < y
         PROVE  Precedes(x, y, q)
    <2>1. PICK o \in P : Main(u, o) /\ u[o].at = x
      BY <1>9
    <2>2. PICK p \in P : Main(u, p) /\ u[p].at = y
      BY <1>9
    <2>3. Precedes(o, p, m)
      BY <1>1, <1>2, <1>11, <2>1, <2>2
    <2>4. PICK i, j \in 1 .. Len(m) : i < j /\ m[i] = o /\ m[j] = p
      BY <2>3 DEF Precedes
    <2>5. q[i] = x /\ q[j] = y /\ i \in 1 .. Len(q) /\ j \in 1 .. Len(q)
      BY <1>6, <2>1, <2>2, <2>4
    <2> QED BY <2>4, <2>5 DEF Precedes
  <1> HIDE DEF a, z
  <1>12. \A x \in a .. z : q[x - a + 1] = x
    BY <1>3, <1>6, <1>7, <1>8, <1>10, <1>11, InItsPlace
  <1>13. Len(q) = z - a + 1
    <2> DEFINE n == z - a + 1
    <2>1. n \in Nat /\ Len(q) \in Nat
      BY <1>3, <1>4, <1>6
    <2>2. ~(n < Len(q))
      <3> SUFFICES ASSUME n < Len(q) PROVE FALSE
        OBVIOUS
      <3>1. Len(q) \in 1 .. Len(q) /\ Occurs(q[Len(q)], q)
        BY <2>1 DEF Occurs
      <3>2. q[Len(q)] \in a .. z
        BY <1>8, <3>1
      <3> DEFINE k == q[Len(q)] - a + 1
      <3>3. k \in 1 .. Len(q) /\ k < Len(q) /\ q[k] = q[Len(q)]
        BY <1>3, <1>12, <2>1, <3>2
      <3> HIDE DEF k
      <3>4. k # Len(q)
        BY <2>1, <3>3
      <3> QED BY <1>7, <3>1, <3>3, <3>4 DEF OnceEach
    <2>3. ~(Len(q) < n)
      <3> SUFFICES ASSUME Len(q) < n PROVE FALSE
        OBVIOUS
      <3>1. z \in a .. z
        BY <1>3, <2>1
      <3>2. \A x \in a .. z : \E i \in 1 .. Len(q) : q[i] = x
        BY <1>10 DEF Occurs
      <3>3. PICK i \in 1 .. Len(q) : q[i] = z
        BY <3>1, <3>2
      <3> DEFINE x == a + i - 1
      <3>4. x \in a .. z /\ x < z /\ x - a + 1 = i
        BY <1>3, <2>1
      <3>5. q[i] = x
        BY <1>12, <3>4
      <3> QED BY <3>3, <3>4, <3>5
    <2> QED BY <2>1, <2>2, <2>3
  <1>14. q = [i \in 1 .. z - a + 1 |-> a + i - 1]
    <2>1. \A i \in 1 .. z - a + 1 : q[i] = a + i - 1
      <3> SUFFICES ASSUME NEW i \in 1 .. z - a + 1 PROVE q[i] = a + i - 1
        OBVIOUS
      <3> DEFINE x == a + i - 1
      <3>1. x \in a .. z /\ x - a + 1 = i
        BY <1>3
      <3> QED BY <1>12, <3>1
    <2>2. DOMAIN q = 1 .. z - a + 1 /\ q = [i \in DOMAIN q |-> q[i]]
      BY <1>6, <1>13
    <2> QED BY <2>1, <2>2
  <1>15. z - a + 1 = ts[t].next - 1 - ts[t].retired /\ \A i \in Nat : a + i - 1 = ts[t].retired + i
    <2>1. ts[t].retired \in Nat /\ ts[t].next \in Nat
      BY <1>1 DEF Ordered
    <2> QED BY <2>1 DEF a, z
  <1> DEFINE r == ts[t].retired
             w == ts[t].next - 1 - ts[t].retired
  <1>16. g = [i \in 1 .. w |-> r + i]
    BY DEF Mine
  <1>17. z - a + 1 = w /\ \A i \in 1 .. w : a + i - 1 = r + i
    BY <1>15
  <1> HIDE DEF r, w
  <1>18. q = [i \in 1 .. w |-> a + i - 1]
    BY <1>14, <1>17
  <1>19. [i \in 1 .. w |-> a + i - 1] = [i \in 1 .. w |-> r + i]
    BY <1>17
  <1> QED BY <1>16, <1>18, <1>19

LEMMA OrderKept ==
    ASSUME IInv
    PROVE  ProgramOrder
  <1>1. Homes(conf, uops, Bufs, FrontEnd) /\ Ordered(conf, uops, Bufs, FrontEnd, threads)
    BY SoundParts DEF IInv
  <1>2. Tids = TidsOf(conf) /\ \A t \in Tids : RobOf(t) = RobFor(conf, t) /\ RobOf(t) \in Robs
    BY ConfFacts DEF IInv, Typed
  <1>3. SUFFICES ASSUME NEW t \in Tids
                 PROVE  LET flight == InRob(RobOf(t)) \o FlattenSeq(feq)
                            mine == Kept(flight, {o \in Objects : uops[o].tid = t})
                        IN [i \in DOMAIN mine |-> uops[mine[i]].at]
                             = [i \in 1 .. threads[t].next - 1 - threads[t].retired |-> threads[t].retired + i]
    BY DEF ProgramOrder
  <1> DEFINE f == InRob(RobOf(t)) \o FlattenSeq(feq)
             P == {o \in Objects : uops[o].tid = t}
             m == Kept(f, P)
             q == [i \in DOMAIN m |-> uops[m[i]].at]
             g == [i \in 1 .. threads[t].next - 1 - threads[t].retired |-> threads[t].retired + i]
  <1>4. f = Bufs[RobFor(conf, t)] \o FrontEnd
    BY <1>2, InFlight DEF FrontEnd
  <1>5. Flight(conf, uops, Bufs, FrontEnd, t, f, P)
    <2> HIDE DEF f
    <2> QED BY <1>2, <1>4 DEF Flight
  <1>6. q = g
    <2>1. Mine(uops, threads, t, f, P, m, q, g)
      <3> HIDE DEF f, P
      <3> QED BY DEF Mine
    <2> HIDE DEF f, P, m, q, g
    <2> QED BY <1>1, <1>5, <2>1, FlightInOrder
  <1> QED BY <1>6

\* The uops of a thread in flight, oldest first, are exactly those of the trace between
\* the last retired and the last fetched one: none is lost, duplicated or overtaken in
\* frontend.cc, allocate.cc, rob.cc and retire.cc.
THEOREM PipelineOrder == Spec => []ProgramOrder
  <1>1. IInv => ProgramOrder
    BY OrderKept
  <1> QED BY <1>1, PipelineInvariant, PTL

--------------------------------------------------------------------------------
\* Only a successful attempt takes a uop out of the scheduler.
LEMMA FreeWaitsNot ==
    ASSUME IInv, NEW x \in Objects, Occurs(x, pool)
    PROVE  ~uops[x].ins
  <1>1. Owned(uops, pool) /\ Answered(uops, misses)
    BY SoundParts DEF IInv
  <1>2. ~uops[x].valid
    BY <1>1 DEF Owned
  <1>3. uops[x].ins => Main(uops, x)
    BY <1>1 DEF Answered
  <1> QED BY <1>2, <1>3 DEF Main

LEMMA StaysInAnswer ==
    ASSUME IInv, AnswerData, NEW x \in Objects, uops[x].ins
    PROVE  uops'[x].ins
  <1>1. PICK m \in misses : Answer(m)
    BY DEF AnswerData
  <1>2. uops \in [Objects -> UopObject]
    BY DEF IInv, Typed, UopsTyped
  <1> DEFINE last == m.child = 0 \/ ParentDone(m)
             us == IF m.child = 0 THEN uops ELSE [uops EXCEPT ![m.o].childDone = @ + 1]
  <1>3. uops' = IF last THEN [us EXCEPT ![m.o].done = 0] ELSE us
    BY <1>1 DEF Answer, Complete
  <1>4. DOMAIN us = Objects /\ us[x].ins /\ DOMAIN us[x] = DOMAIN uops[x]
    BY <1>2 DEF UopObject
  <1> HIDE DEF us, last
  <1>5. "ins" \in DOMAIN uops[x]
    BY <1>2 DEF UopObject
  <1> QED BY <1>3, <1>4, <1>5

LEMMA StaysInRetire ==
    ASSUME IInv, Retire, NEW x \in Objects, uops[x].ins
    PROVE  uops'[x].ins
  <1>1. uops[x] \in UopObject
    BY DEF IInv, Typed, UopsTyped
  <1>2. uops'[x] = uops[x] \/ uops'[x] = Freed(uops[x])
    BY DEF Retire
  <1> QED BY <1>1, <1>2, FreedIs

LEMMA StaysInOthers ==
    ASSUME IInv, Advance \/ Allocate \/ EndCycle, NEW x \in Objects, uops[x].ins
    PROVE  uops'[x].ins
  <1>1. uops \in [Objects -> UopObject] /\ uops[x] \in UopObject
    BY DEF IInv, Typed, UopsTyped
  <1>2. CASE Advance
    <2>1. PICK o : uops' = [uops EXCEPT ![o].ins = TRUE]
      BY <1>2 DEF Advance
    <2> QED BY <1>1, <2>1 DEF UopObject
  <1>3. CASE Allocate
    <2>1. PICK o, q : uops' = [uops EXCEPT ![o].q = q]
      BY <1>3 DEF Allocate
    <2> QED BY <1>1, <2>1 DEF UopObject
  <1>4. CASE EndCycle
    <2>1. uops'[x] = [uops[x] EXCEPT !.done = Nearer(@)]
      BY <1>4 DEF EndCycle
    <2> QED BY <1>1, <2>1 DEF UopObject
  <1> QED BY <1>2, <1>3, <1>4

LEMMA StaysInFetch ==
    ASSUME IInv, Fetch \/ FetchDone, NEW x \in Objects, uops[x].ins
    PROVE  uops'[x].ins
  <1>1. uops \in [Objects -> UopObject] /\ pool \in Seq(Objects) /\ ~Occurs(x, pool)
    <2>1. Owned(uops, pool)
      BY SoundParts DEF IInv
    <2> QED BY <2>1, FreeWaitsNot DEF IInv, Typed, UopsTyped, Owned
  <1>2. Len(pool) \in Nat /\ \A i \in 1 .. Len(pool) : pool[i] # x
    BY <1>1, LenProperties DEF Occurs
  <1>3. CASE FetchDone
    <2>1. uops' = uops \/ (pool # <<>> /\ uops' = [uops EXCEPT ![Head(pool)] = Blank])
      BY <1>3 DEF FetchDone
    <2>2. pool # <<>> => Head(pool) = pool[1] /\ 1 \in 1 .. Len(pool)
      BY <1>1, <1>2
    <2>3. pool # <<>> => Head(pool) # x
      BY <1>2, <2>2
    <2> QED BY <1>1, <2>1, <2>3
  <1>4. CASE Fetch
    <2> DEFINE t == loop.tid
               f == threads[t]
               y == Program(t)[f.next]
               o == Head(pool)
               k == SubSeq(pool, 2, y.kids + 1)
               us == Allocated(t, y, o, k)
    <2>1. \E s, a, b : uops' = Filled(us, o, s, a, b)
      <3> DEFINE s == Sources(us, t, y)
      <3>1. \E a \in predict_bpu(y), b \in btb_access(y) : uops' = Filled(us, o, s, a, b)
        BY <1>4 DEF Fetch, Filled
      <3> HIDE DEF us, o, s, t, y
      <3> QED BY <3>1
    <2>2. Len(pool) > y.kids /\ y.kids \in Nat
      <3>1. Len(pool) > y.kids /\ stage = "fetch" /\ ~fetch_ended(t)
        BY <1>4 DEF Fetch
      <3>2. y.kids \in Nat
        BY <3>1, NextInstruction
      <3> QED BY <3>1, <3>2
    <2> HIDE DEF y
    <2>3. o # x /\ x \notin ToSet(k)
      <3> DEFINE n == y.kids
                 N == SubSeq(pool, n + 2, Len(pool))
      <3>1. pool \in Seq(Objects) /\ OnceEach(pool)
        BY SoundParts DEF IInv, Owned
      <3>2. n \in Nat /\ n < Len(pool)
        BY <1>2, <2>2
      <3>3. o = Head(pool) /\ k = SubSeq(pool, 2, n + 1) /\ N = SubSeq(pool, n + 2, Len(pool))
        OBVIOUS
      <3> HIDE DEF n, N, o, k
      <3>4. Split(pool, N, o, k)
        BY <3>1, <3>2, <3>3, PoolSplit
      <3>5. DOMAIN k = 1 .. Len(k)
        BY <3>4 DEF Split
      <3> QED BY <1>1, <3>4, <3>5 DEF Split, ToSet, Occurs
    <2>4. us[x] = uops[x] /\ DOMAIN us = Objects
      BY <2>3 DEF Allocated
    <2> HIDE DEF us, o, k
    <2> QED BY <2>1, <2>3, <2>4 DEF Filled
  <1> QED BY <1>3, <1>4

\* The uop that leaves the scheduler was tried with success: none of its sources that
\* is in flight is not done, and the in-order core tried the uop at its pointer.
LEMMA IssuedNow ==
    ASSUME IInv, Next, NEW x \in Objects, Issues(x)
    PROVE  /\ Starts(uops, uops', x)
           /\ uops[x].rdy \/ Clear(uops, x)
           /\ conf.kind = "io" => rob[0].slot[sched.next] = x
  <1>1. uops[x].ins /\ ~uops'[x].ins
    BY DEF Issues
  <1>2. uops' # uops
    BY <1>1
  <1>3. CASE AnswerFetch \/ RunCore \/ RetireDone \/ ScanHole \/ ScheduleDone
    BY <1>2, <1>3 DEF AnswerFetch, RunCore, RetireDone, ScanHole, ScheduleDone
  <1>4. CASE AdvanceDone \/ AllocateDone \/ fetch_rr
    BY <1>2, <1>4 DEF AdvanceDone, AllocateDone, fetch_rr
  <1>5. CASE AnswerData \/ Retire \/ Advance \/ Allocate \/ EndCycle \/ Fetch \/ FetchDone
    BY <1>1, <1>5, StaysInAnswer, StaysInRetire, StaysInOthers, StaysInFetch
  <1>6. CASE ScanIssue
    <2> DEFINE o == At(sched.list[loop.at])
    <2>1. /\ stage = "schedule" /\ conf.kind # "io" /\ sched.list[loop.at] # <<>>
          /\ Issue(o, TRUE) \/ Issue(o, FALSE) \/ Refuse(o)
      BY <1>6 DEF ScanIssue, Scanning
    <2>2. loop.at \in 0 .. conf.list - 1
      BY <2>1 DEF IInv, Typed, LoopTyped
    <2>3. o \in Objects /\ uops[o].ins
      BY <2>1, <2>2, ListedUop
    <2> HIDE DEF o
    <2>4. CASE Refuse(o) \/ Issue(o, FALSE)
      <3>1. Still(uops, uops') /\ Main(uops, x)
        <4>1. Calm(conf, uops, uops', sched, sched, threads, threads')
          BY <2>3, <2>4, RefuseCalm, DeniedCalm
        <4>2. Answered(uops, misses)
          BY SoundParts DEF IInv
        <4> QED BY <1>1, <4>1, <4>2 DEF Calm, Answered
      <3> QED BY <1>1, <3>1 DEF Still
    <2>5. CASE Issue(o, TRUE)
      <3>1. Starts(uops, uops', o) /\ (uops[o].rdy \/ Clear(uops, o))
        BY <2>3, <2>5, DoneStarts
      <3>2. x = o
        BY <1>1, <3>1 DEF Starts
      <3> QED BY <2>1, <3>1, <3>2
    <2> QED BY <2>1, <2>4, <2>5
  <1>7. CASE InOrderIssue \/ InOrderStop
    <2> DEFINE o == rob[0].slot[sched.next]
    <2>1. TakesInOrder /\ (Issue(o, TRUE) \/ Issue(o, FALSE) \/ Refuse(o))
      BY <1>7 DEF InOrderIssue, InOrderStop, InOrderSlot
    <2>2. o \in Objects /\ uops[o].ins
      BY <2>1, InOrderUop
    <2>3. CASE Refuse(o) \/ Issue(o, FALSE)
      <3>1. Still(uops, uops') /\ Main(uops, x)
        <4> HIDE DEF o
        <4>1. Calm(conf, uops, uops', sched, sched, threads, threads')
          BY <2>2, <2>3, RefuseCalm, DeniedCalm
        <4>2. Answered(uops, misses)
          BY SoundParts DEF IInv
        <4> QED BY <1>1, <4>1, <4>2 DEF Calm, Answered
      <3> QED BY <1>1, <3>1 DEF Still
    <2>4. CASE Issue(o, TRUE)
      <3>1. Starts(uops, uops', o) /\ (uops[o].rdy \/ Clear(uops, o))
        <4> HIDE DEF o
        <4> QED BY <2>2, <2>4, DoneStarts
      <3>2. x = o
        <4> HIDE DEF o
        <4> QED BY <1>1, <3>1 DEF Starts
      <3> QED BY <3>1, <3>2
    <2> QED BY <2>1, <2>3, <2>4
  <1> QED BY <1>3, <1>4, <1>5, <1>6, <1>7 DEF Next

\* The writer of a source register is retired, or in flight and done.
LEMMA WritersDone ==
    ASSUME IInv, NEW x \in Objects, Main(uops, x), uops[x].rdy \/ Clear(uops, x),
           NEW j \in Writers(uops[x].tid, uops[x].at)
    PROVE  Finished(uops[x].tid, j)
  <1> DEFINE t == uops[x].tid
             i == uops[x].at
  <1>1. Homes(conf, uops, Bufs, FrontEnd) /\ Mapped(conf, uops, threads, map)
        /\ Ordered(conf, uops, Bufs, FrontEnd, threads)
    BY SoundParts DEF IInv
  <1>2. t \in Tids /\ i \in 1 .. Len(Program(t)) /\ i \in Nat \ {0} /\ Tids = TidsOf(conf)
    <2>1. t \in Tids /\ i \in 1 .. Len(Program(t)) /\ Tids = TidsOf(conf)
      BY OpTyped, InFlight
    <2>2. uops[x] \in UopObject
      BY DEF IInv, Typed, UopsTyped
    <2>3. i \in Nat
      BY <2>2, UopFields
    <2> QED BY <2>1, <2>3
  <1>3. PICK r \in ToSet(Program(t)[i].src) : j \in Latest({k \in 1 .. i - 1 : r \in Program(t)[k].dst})
    BY DEF Writers
  <1>4. LastWriter(conf, t, i, r, j) /\ j \in Nat
    <2> DEFINE js == {k \in 1 .. i - 1 : r \in Program(t)[k].dst}
               n == i - 1
    <2>1. n \in Nat /\ js \in SUBSET (1 .. n)
      BY <1>2
    <2>2. js # {} /\ j = Max(js)
      <3> HIDE DEF js
      <3> QED BY <1>3 DEF Latest, js
    <2>3. j \in js /\ \A k \in js : k <= j
      <3> HIDE DEF js, n
      <3> QED BY <2>1, <2>2, LargestIn
    <2>4. j \in 1 .. i - 1 /\ r \in Program(t)[j].dst
      BY <2>3
    <2>5. \A k \in j + 1 .. i - 1 : r \notin Program(t)[k].dst
      <3> SUFFICES ASSUME NEW k \in j + 1 .. i - 1, r \in Program(t)[k].dst PROVE FALSE
        OBVIOUS
      <3>1. k \in 1 .. i - 1 /\ ~(k <= j)
        BY <1>2, <2>4
      <3> QED BY <2>3, <3>1
    <2>6. Program(t) = conf.prog[t + 1]
      BY DEF Program
    <2>7. j \in Nat
      BY <1>2, <2>4
    <2> HIDE DEF t, i, js
    <2> QED BY <2>4, <2>5, <2>6, <2>7 DEF LastWriter
  <1>5. CASE j <= threads[t].retired
    BY <1>5 DEF Finished
  <1>6. CASE ~(j <= threads[t].retired)
    <2>1. j > threads[t].retired
      <3>1. threads[t].retired \in Nat
        BY <1>1, <1>2 DEF Ordered
      <3> QED BY <1>4, <1>6, <3>1
    <2>2. r \in ToSet(conf.prog[t + 1][i].src)
      BY <1>3 DEF Program
    <2>3. PICK p \in Objects :
             /\ Main(uops, p) /\ uops[p].tid = t /\ uops[p].at = j
             /\ uops[x].rdy => uops[p].done = 0
             /\ \E k \in DOMAIN uops[x].srcs : Points(uops, uops[x].srcs[k], p)
      BY <1>1, <1>4, <2>1, <2>2 DEF Mapped
    <2>4. uops[p].done = 0
      BY <2>3 DEF Clear, Main
    <2>5. p \in Uops(t)
      BY <1>2, <2>3, InFlight
    <2> QED BY <2>3, <2>4, <2>5 DEF Finished
  <1> QED BY <1>5, <1>6

\* What stands before the uop of the in-order core is issued.
LEMMA OlderIssued ==
    ASSUME IInv, conf.kind = "io", NEW x \in Objects, uops[x].ins, rob[0].slot[sched.next] = x
    PROVE  OldestFirst(x)
  <1>1. /\ Homes(conf, uops, Bufs, FrontEnd) /\ Ordered(conf, uops, Bufs, FrontEnd, threads)
        /\ Answered(uops, misses) /\ Rings(conf, rob, Bufs) /\ Waits(conf, uops, rob, Bufs, FrontEnd, iaq)
        /\ InOrder(conf, uops, rob, Bufs, sched)
    BY SoundParts DEF IInv
  <1>2. 0 \in RobsOf(conf)
    BY ConfFacts DEF IInv, Typed
  <1>0. PICK j : StandsAt(conf, uops, rob, Bufs, sched, x, j)
    BY <1>1, <1>2, FirstNotIssued
  <1>3. /\ j \in 0 .. Len(Bufs[0]) - 1 /\ Bufs[0][j + 1] = x
        /\ \A i \in 1 .. Len(Bufs[0]) : uops[Bufs[0][i]].issued <=> i <= j
    BY <1>0 DEF StandsAt
  <1>4. Bufs[0] \in Seq(Objects) /\ Len(Bufs[0]) \in Nat /\ j + 1 \in 1 .. Len(Bufs[0])
    <2>1. Bufs[0] \in Seq(Objects)
      BY <1>1, <1>2 DEF Homes
    <2>2. Len(Bufs[0]) \in Nat
      BY <2>1
    <2> QED BY <1>3, <2>1, <2>2
  <1>5. SUFFICES ASSUME NEW p \in Uops(uops[x].tid), uops[p].at < uops[x].at
                 PROVE  uops[p].issued
    BY DEF OldestFirst
  <1>6. Main(uops, x)
    BY <1>1 DEF Answered
  <1>7. p \in Objects /\ Main(uops, p) /\ uops[p].tid = uops[x].tid /\ RobFor(conf, uops[p].tid) = 0
    <2>1. p \in Objects
      BY DEF Uops
    <2>2. uops[x].tid \in Tids
      BY <1>6, InFlight
    <2> QED BY <2>1, <2>2, InFlight DEF RobFor
  <1>8. ~(uops[x].at < uops[p].at) /\ uops[p].at # uops[x].at
    <2>1. uops[p].at \in Nat /\ uops[x].at \in Nat
      BY <1>1, <1>6, <1>7 DEF Homes
    <2> QED BY <1>5, <2>1
  <1>9. Occurs(x, Bufs[0])
    BY <1>3, <1>4 DEF Occurs
  <1>10. CASE Occurs(p, FrontEnd)
    BY <1>1, <1>2, <1>7, <1>8, <1>9, <1>10 DEF Ordered
  <1>11. CASE Occurs(p, Bufs[0])
    <2>1. PICK i \in 1 .. Len(Bufs[0]) : Bufs[0][i] = p
      BY <1>11 DEF Occurs
    <2>2. Sorted(uops, Bufs[0])
      BY <1>1, <1>2 DEF Ordered
    <2>3. ~(j + 1 < i) /\ i # j + 1
      BY <1>3, <1>4, <1>7, <1>8, <2>1, <2>2 DEF Sorted
    <2>4. i <= j
      BY <1>3, <1>4, <2>1, <2>3
    <2> QED BY <1>3, <2>1, <2>4
  <1> QED BY <1>1, <1>7, <1>10, <1>11 DEF Homes

\* A uop is executed only when the uops that write its source registers are done
\* (schedule.cc check_srcs, map.cc), however often their objects were reused.
THEOREM PipelineRegisters == Spec => RegisterOrder
  <1>1. ASSUME IInv, [Next]_vars
        PROVE  [\A o \in Objects : Issues(o) =>
                   \A j \in Writers(uops[o].tid, uops[o].at) : Finished(uops[o].tid, j)]_vars
    <2>1. CASE UNCHANGED vars
      BY <2>1
    <2>2. CASE Next
      <3> SUFFICES ASSUME NEW o \in Objects, Issues(o), NEW j \in Writers(uops[o].tid, uops[o].at)
                   PROVE  Finished(uops[o].tid, j)
        OBVIOUS
      <3>1. Main(uops, o) /\ (uops[o].rdy \/ Clear(uops, o))
        BY <1>1, <2>2, IssuedNow DEF Starts
      <3> QED BY <1>1, <3>1, WritersDone
    <2> QED BY <1>1, <2>1, <2>2
  <1> QED BY <1>1, PipelineInvariant, PTL DEF Spec, RegisterOrder

\* The in-order core starts the uops of a thread in program order (schedule_io.cc),
\* although the allocation queues deliver them in another.
THEOREM PipelineIssueOrder == Spec => IssuesInOrder
  <1>1. ASSUME IInv, [Next]_vars
        PROVE  [conf.kind = "io" => \A o \in Objects : Issues(o) => OldestFirst(o)]_vars
    <2>1. CASE UNCHANGED vars
      BY <2>1
    <2>2. CASE Next
      <3> SUFFICES ASSUME conf.kind = "io", NEW o \in Objects, Issues(o) PROVE OldestFirst(o)
        OBVIOUS
      <3>1. rob[0].slot[sched.next] = o /\ uops[o].ins
        BY <1>1, <2>2, IssuedNow DEF Issues
      <3> QED BY <1>1, <3>1, OlderIssued
    <2> QED BY <1>1, <2>1, <2>2
  <1> QED BY <1>1, PipelineInvariant, PTL DEF Spec, IssuesInOrder

================================================================================
