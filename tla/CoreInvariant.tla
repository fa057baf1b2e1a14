------------------------------ MODULE CoreInvariant ------------------------------
(***************************************************************************)
(* The inductive invariant of the core pipeline, as a predicate of values: *)
(* the core c, the table u of uop objects, the contents B of the reorder   *)
(* buffers R, the frontend queue Q, the allocation queues A, the scheduler *)
(* S, the threads ts, the register maps mp, the accesses M the memory owes *)
(* and the pool P.  For each event of the pipeline (a uop starts, enters   *)
(* the scheduler, joins the reorder buffer, begins, drops out) a lemma     *)
(* says that it keeps the invariant of these values.                       *)
(***************************************************************************)
EXTENDS CorePipeline, ListLemmas

\* The uop objects in flight, by the core c and the table u of all objects, and what
\* each of them is in its program.
Main(u, o) == u[o].valid /\ u[o].at > 0
TidsOf(c) == 0 .. Len(c.prog) - 1
RobFor(c, t) == IF c.kind = "smc" THEN t ELSE 0
RobsOf(c) == {RobFor(c, t) : t \in TidsOf(c)}
KindOf(c, u, o) == c.prog[u[o].tid + 1][u[o].at].kind

\* Every uop in flight is in one place: in the reorder buffer of its thread or in the
\* frontend queue.
Homes(c, u, B, Q) ==
    /\ \A o \in Objects : Main(u, o) =>
         /\ u[o].tid \in TidsOf(c) /\ u[o].at \in 1 .. Len(c.prog[u[o].tid + 1])
         /\ u[o].children # <<>> => KindOf(c, u, o) \in {"ld", "st"}
    /\ \A r \in RobsOf(c) : B[r] \in Seq(Objects) /\ OnceEach(B[r])
    /\ Q \in Seq(Objects) /\ OnceEach(Q)
    /\ \A r \in RobsOf(c), o \in Objects : Occurs(o, B[r]) =>
         Main(u, o) /\ r = RobFor(c, u[o].tid) /\ ~Occurs(o, Q)
    /\ \A o \in Objects : Occurs(o, Q) => Main(u, o)
    /\ \A o \in Objects : Main(u, o) => Occurs(o, Q) \/ Occurs(o, B[RobFor(c, u[o].tid)])

\* The uops of a thread in a list stand in the order of the program.
Sorted(u, s) ==
    \A i, j \in 1 .. Len(s) : i < j /\ u[s[i]].tid = u[s[j]].tid => u[s[i]].at < u[s[j]].at

\* The uops of a thread in flight are those between the last retired and the next one.
Ordered(c, u, B, Q, ts) ==
    /\ \A t \in TidsOf(c) : ts[t].retired \in Nat /\ ts[t].next \in Nat /\ ts[t].retired < ts[t].next
                            /\ ts[t].next <= Len(c.prog[t + 1]) + 1
    /\ \A o \in Objects : Main(u, o) =>
         ts[u[o].tid].retired < u[o].at /\ u[o].at < ts[u[o].tid].next
    /\ \A o, p \in Objects :
         Main(u, o) /\ Main(u, p) /\ u[o].tid = u[p].tid /\ u[o].at = u[p].at => o = p
    /\ \A t \in TidsOf(c) : \A a \in ts[t].retired + 1 .. ts[t].next - 1 :
         \E o \in Objects : Main(u, o) /\ u[o].tid = t /\ u[o].at = a
    /\ \A r \in RobsOf(c) : Sorted(u, B[r])
    /\ Sorted(u, Q)
    /\ \A r \in RobsOf(c), o, p \in Objects :
         Occurs(o, B[r]) /\ Occurs(p, Q) /\ u[o].tid = u[p].tid => u[o].at < u[p].at

\* The free objects, and the child uops that belong to a uop in flight.
Owned(u, P) ==
    /\ P \in Seq(Objects) /\ OnceEach(P)
    /\ \A o \in Objects : Occurs(o, P) => ~u[o].valid
    /\ \A o \in Objects : Main(u, o) =>
         /\ u[o].children \in Seq(Objects) /\ OnceEach(u[o].children)
         /\ \A x \in Objects : Occurs(x, u[o].children) => u[x].valid /\ u[x].at = 0
    /\ \A o, p, x \in Objects :
         Main(u, o) /\ Main(u, p) /\ Occurs(x, u[o].children) /\ Occurs(x, u[p].children) => o = p

\* The accesses of a uop that are not answered.
Owed(M, o) == {m \in M : m.o = o}

\* A uop is done only when it was issued and nothing is owed to it; the transactions
\* of a uop are answered, owed, or still to be accessed.
Answered(u, M) ==
    /\ IsFiniteSet(M)
    /\ \A m \in M : /\ m = [o |-> m.o, child |-> m.child]
                    /\ m.o \in Objects /\ Main(u, m.o)
                    /\ u[m.o].children = <<>> => m.child = 0
                    /\ u[m.o].children # <<>> =>
                         m.child \in 1 .. Len(u[m.o].children) /\ m.child \notin u[m.o].pending
    /\ \A o \in Objects : u[o].ins => Main(u, o)
    /\ \A o \in Objects : Main(u, o) =>
         /\ u[o].ins => ~u[o].issued
         /\ u[o].done # Unset => u[o].issued /\ Owed(M, o) = {}
         /\ u[o].pending \subseteq 1 .. Len(u[o].children)
         /\ u[o].issued => u[o].pending = {}
         /\ ~u[o].issued /\ u[o].children # <<>> => u[o].pending # {}
         /\ ~u[o].issued /\ u[o].children = <<>> => Owed(M, o) = {}
         /\ u[o].children # <<>> =>
              u[o].childDone + Cardinality(Owed(M, o)) + Cardinality(u[o].pending) = Len(u[o].children)

\* The reorder buffers are circular; an entry of the scheduler points to a slot.
Rings(c, R, B) ==
    \A r \in RobsOf(c) : Circular(0 .. NumObjects, 2 * c.rob, R[r].slot, R[r].first, R[r].last, B[r])
Lives(c, R, B, e) ==
    /\ e[1] \in RobsOf(c)
    /\ \E j \in 1 .. Len(B[e[1]]) : e = <<e[1], SlotOf(R[e[1]].first, j, 2 * c.rob)>>
Behind(R, e) == R[e[1]].slot[e[2]]

\* A uop waits in one allocation queue, then in the scheduler, and then it is issued.
Waits(c, u, R, B, Q, A) ==
    /\ \A o \in Objects : Occurs(o, Q) => ~u[o].ins /\ ~u[o].issued
    /\ \A q \in ToSet(Queues) : \A e \in ToSet(A[q][1]) :
         /\ Lives(c, R, B, e)
         /\ ~u[Behind(R, e)].ins /\ ~u[Behind(R, e)].issued /\ u[Behind(R, e)].q = q
    /\ \A q \in ToSet(Queues) : OnceEach(A[q][1])

\* The list of the scheduler is a circular buffer with holes.
Inside(i, f, l) == IF f <= l THEN f <= i /\ i < l ELSE f <= i \/ i < l
Scheduled(c, u, R, B, S) ==
    c.kind # "io" =>
      /\ \A i \in 0 .. c.list - 1 : S.list[i] # <<>> =>
           /\ Inside(i, S.first, S.last)
           /\ Lives(c, R, B, S.list[i]) /\ u[Behind(R, S.list[i])].ins
      /\ \A i, j \in 0 .. c.list - 1 : S.list[i] # <<>> /\ S.list[i] = S.list[j] => i = j
      /\ \A o \in Objects : Main(u, o) /\ u[o].ins =>
           \E i \in 0 .. c.list - 1 : S.list[i] # <<>> /\ Behind(R, S.list[i]) = o

\* The counters.
InSched(u) == {o \in Objects : Main(u, o) /\ u[o].ins}
InSchedOf(u, q) == {o \in Objects : Main(u, o) /\ u[o].ins /\ u[o].q = q}
ToDispatch(u, t) == {o \in Objects : Main(u, o) /\ u[o].tid = t /\ ~u[o].issued}
Holding(c, u, s, k) == {o \in Objects : Occurs(o, s) /\ KindOf(c, u, o) = k}
LimitOf(c, k) == CASE k = "ld" -> c.lb [] k = "st" -> c.sb [] k = "int" -> c.ints [] k = "fp" -> c.fps
Counted(c, u, R, B, S, ts) ==
    /\ \A r \in RobsOf(c) : /\ R[r].free = c.rob - Len(B[r])
                            /\ \A k \in Resources : R[r][k] = LimitOf(c, k) - Cardinality(Holding(c, u, B[r], k))
    /\ S.num = Cardinality(InSched(u))
    /\ \A q \in ToSet(Queues) : S.per[q] = Cardinality(InSchedOf(u, q))
    /\ \A t \in TidsOf(c) : ts[t].dispatch = Cardinality(ToDispatch(u, t))

\* The in-order core: what stands before the pointer is issued, the rest is not.
InOrder(c, u, R, B, S) ==
    c.kind = "io" =>
      \E j \in 0 .. Len(B[0]) :
        /\ S.next = SlotOf(R[0].first, j + 1, 2 * c.rob)
        /\ \A i \in 1 .. Len(B[0]) : u[B[0][i]].issued <=> i <= j

\* The last writers of the source registers.
LastWriter(c, t, i, r, j) ==
    /\ j \in 1 .. i - 1 /\ r \in c.prog[t + 1][j].dst
    /\ \A k \in j + 1 .. i - 1 : r \notin c.prog[t + 1][k].dst
Points(u, s, o) == s.o = o /\ s.num = u[o].num
Mapped(c, u, ts, mp) ==
    /\ \A t \in TidsOf(c), r \in c.regs, j \in Nat :
         LastWriter(c, t, ts[t].next, r, j) /\ j > ts[t].retired =>
           \E p \in Objects : Main(u, p) /\ u[p].tid = t /\ u[p].at = j /\ Points(u, mp[t].reg[r], p)
    /\ \A o \in Objects : Main(u, o) =>
         \A j \in Nat, r \in ToSet(c.prog[u[o].tid + 1][u[o].at].src) :
           LastWriter(c, u[o].tid, u[o].at, r, j) /\ j > ts[u[o].tid].retired =>
             \E p \in Objects :
               /\ Main(u, p) /\ u[p].tid = u[o].tid /\ u[p].at = j
               /\ u[o].rdy => u[p].done = 0
               /\ \E i \in DOMAIN u[o].srcs : Points(u, u[o].srcs[i], p)

--------------------------------------------------------------------------------
\* Where a uop is and what it is, before and after a step that only changes its state.
Kin(u, v) ==
    \A o \in Objects :
      /\ v[o].valid = u[o].valid
      /\ u[o].valid => /\ v[o].tid = u[o].tid /\ v[o].at = u[o].at /\ v[o].num = u[o].num
                       /\ v[o].children = u[o].children /\ v[o].srcs = u[o].srcs

LEMMA KinMain ==
    ASSUME NEW u, NEW v, Kin(u, v)
    PROVE  /\ \A o \in Objects : Main(v, o) <=> Main(u, o)
           /\ \A o \in Objects : Main(u, o) =>
                /\ v[o].tid = u[o].tid /\ v[o].at = u[o].at /\ v[o].num = u[o].num
                /\ v[o].children = u[o].children /\ v[o].srcs = u[o].srcs
  BY DEF Kin, Main

LEMMA KinHomes ==
    ASSUME NEW c, NEW u, NEW v, NEW B, NEW Q, Homes(c, u, B, Q), Kin(u, v)
    PROVE  Homes(c, v, B, Q)
  <1>1. ASSUME NEW o \in Objects, Main(v, o)
        PROVE  /\ v[o].tid \in TidsOf(c) /\ v[o].at \in 1 .. Len(c.prog[v[o].tid + 1])
               /\ v[o].children # <<>> => KindOf(c, v, o) \in {"ld", "st"}
    <2>1. Main(u, o) /\ v[o].tid = u[o].tid /\ v[o].at = u[o].at /\ v[o].children = u[o].children
      BY <1>1, KinMain
    <2>2. KindOf(c, v, o) = KindOf(c, u, o)
      BY <2>1 DEF KindOf
    <2> QED BY <2>1, <2>2 DEF Homes
  <1>2. \A r \in RobsOf(c) : B[r] \in Seq(Objects) /\ OnceEach(B[r])
    BY DEF Homes
  <1>3. \A r \in RobsOf(c), o \in Objects : Occurs(o, B[r]) =>
         Main(v, o) /\ r = RobFor(c, v[o].tid) /\ ~Occurs(o, Q)
    BY KinMain DEF Homes
  <1>4. \A o \in Objects : Main(v, o) => Occurs(o, Q) \/ Occurs(o, B[RobFor(c, v[o].tid)])
    BY KinMain DEF Homes
  <1>5. Q \in Seq(Objects) /\ OnceEach(Q) /\ \A o \in Objects : Occurs(o, Q) => Main(v, o)
    BY KinMain DEF Homes
  <1> QED BY <1>1, <1>2, <1>3, <1>4, <1>5 DEF Homes

LEMMA KinSorted ==
    ASSUME NEW u, NEW v, Kin(u, v), NEW s \in Seq(Objects), \A o \in Objects : Occurs(o, s) => Main(u, o),
           Sorted(u, s)
    PROVE  Sorted(v, s)
  <1>1. \A i \in 1 .. Len(s) : s[i] \in Objects /\ Main(u, s[i])
    BY ElementOfSeq DEF Occurs
  <1>2. \A i \in 1 .. Len(s) : v[s[i]].tid = u[s[i]].tid /\ v[s[i]].at = u[s[i]].at
    BY <1>1, KinMain
  <1> QED BY <1>2 DEF Sorted

LEMMA KinOrdered ==
    ASSUME NEW c, NEW u, NEW v, NEW B, NEW Q, NEW ts, NEW us, Homes(c, u, B, Q), Kin(u, v),
           Ordered(c, u, B, Q, ts),
           \A t \in TidsOf(c) : us[t].retired = ts[t].retired /\ us[t].next = ts[t].next
    PROVE  Ordered(c, v, B, Q, us)
  <1>1. \A o \in Objects : Main(u, o) => u[o].tid \in TidsOf(c)
    BY DEF Homes
  <1>2. \A r \in RobsOf(c) : Sorted(v, B[r])
    <2> TAKE r \in RobsOf(c)
    <2>1. B[r] \in Seq(Objects) /\ \A o \in Objects : Occurs(o, B[r]) => Main(u, o)
      BY DEF Homes
    <2> QED BY <2>1, KinSorted DEF Ordered
  <1>3. Sorted(v, Q)
    <2>1. Q \in Seq(Objects) /\ \A o \in Objects : Occurs(o, Q) => Main(u, o)
      BY DEF Homes
    <2> QED BY <2>1, KinSorted DEF Ordered
  <1>4. \A r \in RobsOf(c), o, p \in Objects :
         Occurs(o, B[r]) /\ Occurs(p, Q) /\ v[o].tid = v[p].tid => v[o].at < v[p].at
    <2> SUFFICES ASSUME NEW r \in RobsOf(c), NEW o \in Objects, NEW p \in Objects,
                        Occurs(o, B[r]), Occurs(p, Q), v[o].tid = v[p].tid
                 PROVE  v[o].at < v[p].at
      OBVIOUS
    <2>1. Main(u, o) /\ Main(u, p)
      BY DEF Homes
    <2>2. v[o].tid = u[o].tid /\ v[p].tid = u[p].tid /\ v[o].at = u[o].at /\ v[p].at = u[p].at
      BY <2>1, KinMain
    <2> QED BY <2>2 DEF Ordered
  <1>5. \A t \in TidsOf(c) : /\ us[t].retired \in Nat /\ us[t].next \in Nat /\ us[t].retired < us[t].next
                            /\ us[t].next <= Len(c.prog[t + 1]) + 1
    BY DEF Ordered
  <1>6. \A o \in Objects : Main(v, o) => us[v[o].tid].retired < v[o].at /\ v[o].at < us[v[o].tid].next
    BY <1>1, KinMain DEF Ordered
  <1>7. \A o, p \in Objects :
         Main(v, o) /\ Main(v, p) /\ v[o].tid = v[p].tid /\ v[o].at = v[p].at => o = p
    BY KinMain DEF Ordered
  <1>8. \A t \in TidsOf(c) : \A a \in us[t].retired + 1 .. us[t].next - 1 :
         \E o \in Objects : Main(v, o) /\ v[o].tid = t /\ v[o].at = a
    <2> SUFFICES ASSUME NEW t \in TidsOf(c), NEW a \in us[t].retired + 1 .. us[t].next - 1
                 PROVE  \E o \in Objects : Main(v, o) /\ v[o].tid = t /\ v[o].at = a
      OBVIOUS
    <2>1. a \in ts[t].retired + 1 .. ts[t].next - 1
      OBVIOUS
    <2>2. PICK o \in Objects : Main(u, o) /\ u[o].tid = t /\ u[o].at = a
      BY <2>1 DEF Ordered
    <2> QED BY <2>2, KinMain
  <1> QED BY <1>2, <1>3, <1>4, <1>5, <1>6, <1>7, <1>8 DEF Ordered

LEMMA KinOwned ==
    ASSUME NEW u, NEW v, NEW P, Owned(u, P), Kin(u, v)
    PROVE  Owned(v, P)
  <1>1. P \in Seq(Objects) /\ OnceEach(P) /\ \A o \in Objects : Occurs(o, P) => ~v[o].valid
    BY DEF Owned, Kin
  <1>2. ASSUME NEW o \in Objects, Main(v, o)
        PROVE  /\ v[o].children \in Seq(Objects) /\ OnceEach(v[o].children)
               /\ \A x \in Objects : Occurs(x, v[o].children) => v[x].valid /\ v[x].at = 0
    <2>1. Main(u, o) /\ v[o].children = u[o].children
      BY <1>2, KinMain
    <2>2. /\ u[o].children \in Seq(Objects) /\ OnceEach(u[o].children)
          /\ \A x \in Objects : Occurs(x, u[o].children) => u[x].valid /\ u[x].at = 0
      BY <2>1 DEF Owned
    <2> QED BY <2>1, <2>2 DEF Kin
  <1>3. \A o, p, x \in Objects :
         Main(v, o) /\ Main(v, p) /\ Occurs(x, v[o].children) /\ Occurs(x, v[p].children) => o = p
    BY KinMain DEF Owned
  <1> QED BY <1>1, <1>2, <1>3 DEF Owned

\* The uop behind a live entry.
LEMMA LiveMain ==
    ASSUME NEW c, NEW u, NEW R, NEW B, NEW Q, Homes(c, u, B, Q), Rings(c, R, B),
           NEW e, Lives(c, R, B, e)
    PROVE  /\ Behind(R, e) \in Objects /\ Main(u, Behind(R, e)) /\ Occurs(Behind(R, e), B[e[1]])
           /\ \E j \in 1 .. Len(B[e[1]]) : e = <<e[1], SlotOf(R[e[1]].first, j, 2 * c.rob)>>
                                          /\ Behind(R, e) = B[e[1]][j]
  <1> DEFINE r == e[1]
  <1>1. r \in RobsOf(c)
    BY DEF Lives
  <1>2. PICK j \in 1 .. Len(B[r]) : e = <<r, SlotOf(R[r].first, j, 2 * c.rob)>>
    BY DEF Lives
  <1>3. Circular(0 .. NumObjects, 2 * c.rob, R[r].slot, R[r].first, R[r].last, B[r])
    BY <1>1 DEF Rings
  <1>4. B[r][j] = R[r].slot[SlotOf(R[r].first, j, 2 * c.rob)]
    BY <1>2, <1>3, RingHolds
  <1>5. Behind(R, e) = B[r][j]
    BY <1>2, <1>4 DEF Behind
  <1>6. B[r] \in Seq(Objects)
    BY <1>1 DEF Homes
  <1>7. B[r][j] \in Objects /\ Occurs(B[r][j], B[r])
    BY <1>2, <1>6, ElementOfSeq DEF Occurs
  <1>8. Main(u, B[r][j])
    BY <1>1, <1>7 DEF Homes
  <1> QED BY <1>2, <1>5, <1>7, <1>8

\* Two entries for the same uop are the same entry.
LEMMA OneEntry ==
    ASSUME NEW c, NEW u, NEW R, NEW B, NEW Q, Homes(c, u, B, Q), Rings(c, R, B),
           NEW d, NEW e, Lives(c, R, B, d), Lives(c, R, B, e), Behind(R, d) = Behind(R, e)
    PROVE  d = e
  <1>1. /\ d[1] \in RobsOf(c) /\ e[1] \in RobsOf(c) /\ Behind(R, d) \in Objects
        /\ Occurs(Behind(R, d), B[d[1]]) /\ Occurs(Behind(R, d), B[e[1]])
    BY LiveMain DEF Lives
  <1>2. d[1] = e[1]
    BY <1>1 DEF Homes
  <1> DEFINE r == d[1]
  <1>3. PICK j \in 1 .. Len(B[r]) : d = <<r, SlotOf(R[r].first, j, 2 * c.rob)>> /\ Behind(R, d) = B[r][j]
    BY LiveMain
  <1>4. PICK k \in 1 .. Len(B[r]) : e = <<r, SlotOf(R[r].first, k, 2 * c.rob)>> /\ Behind(R, e) = B[r][k]
    BY <1>2, LiveMain
  <1>5. OnceEach(B[r])
    BY <1>1 DEF Homes
  <1>6. j = k
    BY <1>3, <1>4, <1>5 DEF OnceEach
  <1> QED BY <1>3, <1>4, <1>6

--------------------------------------------------------------------------------
\* A step that leaves the uops in flight where they are in the scheduler.
Still(u, v) ==
    /\ Kin(u, v)
    /\ \A o \in Objects : Main(u, o) => v[o].ins = u[o].ins /\ v[o].issued = u[o].issued /\ v[o].q = u[o].q

LEMMA StillWaits1 ==
    ASSUME NEW c, NEW u, NEW v, NEW R, NEW B, NEW Q, NEW A, Homes(c, u, B, Q), Rings(c, R, B),
           Still(u, v), Waits(c, u, R, B, Q, A)
    PROVE  Waits(c, v, R, B, Q, A)
  <1>1. \A o \in Objects : Occurs(o, Q) => ~v[o].ins /\ ~v[o].issued
    <2> SUFFICES ASSUME NEW o \in Objects, Occurs(o, Q) PROVE ~v[o].ins /\ ~v[o].issued
      OBVIOUS
    <2>1. Main(u, o) /\ ~u[o].ins /\ ~u[o].issued
      BY DEF Homes, Waits
    <2> QED BY <2>1 DEF Still
  <1>2. ASSUME NEW q \in ToSet(Queues), NEW e \in ToSet(A[q][1])
        PROVE  /\ Lives(c, R, B, e)
               /\ ~v[Behind(R, e)].ins /\ ~v[Behind(R, e)].issued /\ v[Behind(R, e)].q = q
    <2>1. /\ Lives(c, R, B, e)
          /\ ~u[Behind(R, e)].ins /\ ~u[Behind(R, e)].issued /\ u[Behind(R, e)].q = q
      BY DEF Waits
    <2>2. Behind(R, e) \in Objects /\ Main(u, Behind(R, e))
      BY <2>1, LiveMain
    <2> QED BY <2>1, <2>2 DEF Still
  <1> QED BY <1>1, <1>2 DEF Waits

LEMMA StillScheduled ==
    ASSUME NEW c, NEW u, NEW v, NEW R, NEW B, NEW Q, NEW S, Homes(c, u, B, Q), Rings(c, R, B),
           Still(u, v), Scheduled(c, u, R, B, S)
    PROVE  Scheduled(c, v, R, B, S)
  <1> SUFFICES ASSUME c.kind # "io" PROVE Scheduled(c, v, R, B, S)
    BY DEF Scheduled
  <1>1. ASSUME NEW i \in 0 .. c.list - 1, S.list[i] # <<>>
        PROVE  /\ Inside(i, S.first, S.last)
               /\ Lives(c, R, B, S.list[i]) /\ v[Behind(R, S.list[i])].ins
    <2>1. /\ Inside(i, S.first, S.last)
          /\ Lives(c, R, B, S.list[i]) /\ u[Behind(R, S.list[i])].ins
      BY <1>1 DEF Scheduled
    <2>2. Behind(R, S.list[i]) \in Objects /\ Main(u, Behind(R, S.list[i]))
      BY <2>1, LiveMain
    <2> QED BY <2>1, <2>2 DEF Still
  <1>2. \A i, j \in 0 .. c.list - 1 : S.list[i] # <<>> /\ S.list[i] = S.list[j] => i = j
    BY DEF Scheduled
  <1>3. ASSUME NEW o \in Objects, Main(v, o), v[o].ins
        PROVE  \E i \in 0 .. c.list - 1 : S.list[i] # <<>> /\ Behind(R, S.list[i]) = o
    <2>1. Main(u, o) /\ u[o].ins
      BY <1>3, KinMain DEF Still
    <2> QED BY <2>1 DEF Scheduled
  <1> QED BY <1>1, <1>2, <1>3 DEF Scheduled

LEMMA StillCounted ==
    ASSUME NEW c, NEW u, NEW v, NEW R, NEW B, NEW Q, NEW S, NEW T, NEW ts, NEW us, Homes(c, u, B, Q),
           Still(u, v), Counted(c, u, R, B, S, ts), T.num = S.num, T.per = S.per,
           \A t \in TidsOf(c) : us[t].dispatch = ts[t].dispatch
    PROVE  Counted(c, v, R, B, T, us)
  <1> USE DEF Still
  <1>1. InSched(v) = InSched(u)
    BY KinMain DEF InSched
  <1>2. \A q : InSchedOf(v, q) = InSchedOf(u, q)
    BY KinMain DEF InSchedOf
  <1>3. \A t : ToDispatch(v, t) = ToDispatch(u, t)
    BY KinMain DEF ToDispatch
  <1>4. \A r \in RobsOf(c), k \in Resources : Holding(c, v, B[r], k) = Holding(c, u, B[r], k)
    <2> TAKE r \in RobsOf(c), k \in Resources
    <2>1. \A o \in Objects : Occurs(o, B[r]) => KindOf(c, v, o) = KindOf(c, u, o)
      BY KinMain DEF Homes, KindOf
    <2> QED BY <2>1 DEF Holding
  <1> QED BY <1>1, <1>2, <1>3, <1>4 DEF Counted

LEMMA StillInOrder ==
    ASSUME NEW c, NEW u, NEW v, NEW R, NEW B, NEW Q, NEW S, NEW T, Homes(c, u, B, Q), 0 \in RobsOf(c),
           Still(u, v), InOrder(c, u, R, B, S), T.next = S.next
    PROVE  InOrder(c, v, R, B, T)
  <1> SUFFICES ASSUME c.kind = "io" PROVE InOrder(c, v, R, B, T)
    BY DEF InOrder
  <1>1. PICK j \in 0 .. Len(B[0]) : /\ S.next = SlotOf(R[0].first, j + 1, 2 * c.rob)
                                    /\ \A i \in 1 .. Len(B[0]) : u[B[0][i]].issued <=> i <= j
    BY DEF InOrder
  <1>2. \A i \in 1 .. Len(B[0]) : B[0][i] \in Objects /\ Main(u, B[0][i])
    BY ElementOfSeq DEF Homes, Occurs
  <1>3. \A i \in 1 .. Len(B[0]) : v[B[0][i]].issued <=> i <= j
    BY <1>1, <1>2 DEF Still
  <1> QED BY <1>1, <1>3 DEF InOrder

\* What a uop waits for: no source that is in flight is not done.
Clear(u, o) ==
    \A i \in DOMAIN u[o].srcs, p \in Objects :
      Points(u, u[o].srcs[i], p) /\ u[p].valid /\ u[p].tid = u[o].tid => u[p].done = 0

\* The sources stay known: what is done stays done, and a uop whose sources are clear may be ready.
LEMMA KinMapped ==
    ASSUME NEW c, NEW u, NEW v, NEW ts, NEW us, NEW mp, NEW B, NEW Q, Homes(c, u, B, Q), Kin(u, v),
           Mapped(c, u, ts, mp),
           \A o \in Objects : Main(u, o) => /\ u[o].done = 0 => v[o].done = 0
                                            /\ v[o].rdy => u[o].rdy \/ Clear(u, o),
           \A t \in TidsOf(c) : us[t].retired = ts[t].retired /\ us[t].next = ts[t].next
    PROVE  Mapped(c, v, us, mp)
  <1>1. ASSUME NEW t \in TidsOf(c), NEW r \in c.regs, NEW j \in Nat,
               LastWriter(c, t, us[t].next, r, j), j > us[t].retired
        PROVE  \E p \in Objects : Main(v, p) /\ v[p].tid = t /\ v[p].at = j /\ Points(v, mp[t].reg[r], p)
    <2>1. LastWriter(c, t, ts[t].next, r, j) /\ j > ts[t].retired
      BY <1>1
    <2>2. PICK p \in Objects : Main(u, p) /\ u[p].tid = t /\ u[p].at = j /\ Points(u, mp[t].reg[r], p)
      BY <2>1 DEF Mapped
    <2> QED BY <2>2, KinMain DEF Points
  <1>2. ASSUME NEW o \in Objects, Main(v, o), NEW j \in Nat,
               NEW r \in ToSet(c.prog[v[o].tid + 1][v[o].at].src),
               LastWriter(c, v[o].tid, v[o].at, r, j), j > us[v[o].tid].retired
        PROVE  \E p \in Objects :
                 /\ Main(v, p) /\ v[p].tid = v[o].tid /\ v[p].at = j
                 /\ v[o].rdy => v[p].done = 0
                 /\ \E i \in DOMAIN v[o].srcs : Points(v, v[o].srcs[i], p)
    <2>1. Main(u, o) /\ v[o].tid = u[o].tid /\ v[o].at = u[o].at /\ v[o].srcs = u[o].srcs
      BY <1>2, KinMain
    <2>2. u[o].tid \in TidsOf(c)
      BY <2>1 DEF Homes
    <2>3. /\ r \in ToSet(c.prog[u[o].tid + 1][u[o].at].src)
          /\ LastWriter(c, u[o].tid, u[o].at, r, j) /\ j > ts[u[o].tid].retired
      BY <1>2, <2>1, <2>2
    <2>4. PICK p \in Objects :
            /\ Main(u, p) /\ u[p].tid = u[o].tid /\ u[p].at = j
            /\ u[o].rdy => u[p].done = 0
            /\ \E i \in DOMAIN u[o].srcs : Points(u, u[o].srcs[i], p)
      BY <2>1, <2>3 DEF Mapped
    <2>5. PICK i \in DOMAIN u[o].srcs : Points(u, u[o].srcs[i], p)
      BY <2>4
    <2>6. Main(v, p) /\ v[p].tid = v[o].tid /\ v[p].at = j /\ Points(v, v[o].srcs[i], p)
      BY <2>1, <2>4, <2>5, KinMain DEF Points
    <2>7. ASSUME v[o].rdy PROVE u[p].done = 0
      BY <2>1, <2>4, <2>5, <2>7 DEF Clear, Main
    <2>8. v[o].rdy => v[p].done = 0
      BY <2>4, <2>7
    <2>9. i \in DOMAIN v[o].srcs
      BY <2>1
    <2> QED BY <2>6, <2>8, <2>9
  <1> QED BY <1>1, <1>2 DEF Mapped

\* All of it: the inductive invariant, but for the types.
Whole(c, u, R, B, Q, A, S, ts, mp, M, P) ==
    /\ Homes(c, u, B, Q) /\ Ordered(c, u, B, Q, ts) /\ Owned(u, P) /\ Answered(u, M)
    /\ Rings(c, R, B) /\ Waits(c, u, R, B, Q, A) /\ Scheduled(c, u, R, B, S)
    /\ Counted(c, u, R, B, S, ts) /\ InOrder(c, u, R, B, S) /\ Mapped(c, u, ts, mp)

\* A step that changes only what a uop is owed and what is done.
Calm(c, u, v, S, T, ts, us) ==
    /\ Still(u, v)
    /\ \A o \in Objects : Main(u, o) => /\ u[o].done = 0 => v[o].done = 0
                                        /\ v[o].rdy => u[o].rdy \/ Clear(u, o)
    /\ T.num = S.num /\ T.per = S.per /\ T.next = S.next
    /\ \A t \in TidsOf(c) : us[t].retired = ts[t].retired /\ us[t].next = ts[t].next
                            /\ us[t].dispatch = ts[t].dispatch

LEMMA CalmWhole ==
    ASSUME NEW c, NEW u, NEW v, NEW R, NEW B, NEW Q, NEW A, NEW S, NEW T, NEW ts, NEW us, NEW mp,
           NEW M, NEW N, NEW P, Whole(c, u, R, B, Q, A, S, ts, mp, M, P), Calm(c, u, v, S, T, ts, us),
           Answered(v, N), Scheduled(c, u, R, B, T), 0 \in RobsOf(c)
    PROVE  Whole(c, v, R, B, Q, A, T, us, mp, N, P)
  <1> USE DEF Whole
  <1>1. Still(u, v) /\ Kin(u, v)
    BY DEF Calm, Still
  <1>2. Homes(c, v, B, Q)
    BY <1>1, KinHomes
  <1>3. Ordered(c, v, B, Q, us)
    BY <1>1, KinOrdered DEF Calm
  <1>4. Owned(v, P)
    BY <1>1, KinOwned
  <1>5. Waits(c, v, R, B, Q, A)
    BY <1>1, StillWaits1
  <1>6. Scheduled(c, v, R, B, T)
    BY <1>1, StillScheduled
  <1>7. Counted(c, v, R, B, T, us)
    BY <1>1, StillCounted DEF Calm
  <1>8. InOrder(c, v, R, B, T)
    BY <1>1, StillInOrder DEF Calm
  <1>9. Mapped(c, v, us, mp)
    BY <1>1, KinMapped DEF Calm
  <1> QED BY <1>2, <1>3, <1>4, <1>5, <1>6, <1>7, <1>8, <1>9

\* A step that does not change the uops at all.
LEMMA SameCalm ==
    ASSUME NEW c, NEW u, NEW S, NEW T, NEW ts, NEW us,
           T.num = S.num, T.per = S.per, T.next = S.next,
           \A t \in TidsOf(c) : us[t].retired = ts[t].retired /\ us[t].next = ts[t].next
                                /\ us[t].dispatch = ts[t].dispatch
    PROVE  Calm(c, u, u, S, T, ts, us)
  BY DEF Calm, Still, Kin

--------------------------------------------------------------------------------
\* What is answered, after an answer for a uop that is not yet the last one, and after the last.
LEMMA OwedFinite ==
    ASSUME NEW M, IsFiniteSet(M), NEW o
    PROVE  IsFiniteSet(Owed(M, o)) /\ Cardinality(Owed(M, o)) \in Nat
  BY FS_Subset, FS_CardinalityType DEF Owed

LEMMA OwedLess ==
    ASSUME NEW M, IsFiniteSet(M), NEW m \in M, NEW N, N = M \ {m}
    PROVE  /\ IsFiniteSet(N)
           /\ \A o : o # m.o => Owed(N, o) = Owed(M, o)
           /\ Cardinality(Owed(N, m.o)) = Cardinality(Owed(M, m.o)) - 1
           /\ Cardinality(Owed(N, m.o)) \in Nat /\ Cardinality(Owed(M, m.o)) \in Nat
           /\ \A k \in Owed(N, m.o) : k \in Owed(M, m.o) /\ k # m
  <1>1. IsFiniteSet(N)
    BY FS_Subset
  <1>2. \A y : y \in Owed(N, m.o) <=> y \in Owed(M, m.o) /\ y # m
    BY DEF Owed
  <1>3. m \in Owed(M, m.o) /\ IsFiniteSet(Owed(M, m.o))
    BY OwedFinite DEF Owed
  <1>4. Cardinality(Owed(N, m.o)) = Cardinality(Owed(M, m.o)) - 1
        /\ Cardinality(Owed(N, m.o)) \in Nat /\ Cardinality(Owed(M, m.o)) \in Nat
    BY <1>2, <1>3, CountLess
  <1>5. \A o : o # m.o => Owed(N, o) = Owed(M, o)
    BY DEF Owed
  <1> QED BY <1>1, <1>2, <1>4, <1>5

LEMMA PendingFinite ==
    ASSUME NEW u, NEW M, NEW P, Answered(u, M), Owned(u, P), NEW o \in Objects, Main(u, o)
    PROVE  /\ IsFiniteSet(u[o].pending) /\ Cardinality(u[o].pending) \in Nat
           /\ Len(u[o].children) \in Nat /\ u[o].pending \subseteq 1 .. Len(u[o].children)
  <1>1. Len(u[o].children) \in Nat
    BY LenProperties DEF Owned
  <1>2. u[o].pending \in SUBSET (1 .. Len(u[o].children))
    BY DEF Answered
  <1>3. IsFiniteSet(1 .. Len(u[o].children))
    BY <1>1, FS_Interval
  <1>4. IsFiniteSet(u[o].pending)
    BY <1>2, <1>3, FS_Subset
  <1> QED BY <1>1, <1>2, <1>4, FS_CardinalityType

\* The access is answered, and others of the uop are not.
LEMMA OneAnswer ==
    ASSUME NEW u, NEW M, NEW P, NEW v, NEW N, Answered(u, M), Owned(u, P), NEW m \in M, N = M \ {m}, Kin(u, v), u[m.o].children # <<>>,
           \A x \in Objects : /\ v[x].ins = u[x].ins /\ v[x].issued = u[x].issued
                              /\ v[x].done = u[x].done /\ v[x].pending = u[x].pending
                              /\ v[x].childDone = IF x = m.o THEN u[x].childDone + 1 ELSE u[x].childDone,
           u[m.o].childDone \in Int
    PROVE  Answered(v, N)
  <1>1. IsFiniteSet(M) /\ IsFiniteSet(N)
    BY OwedLess DEF Answered
  <1>2. ASSUME NEW k \in N
        PROVE  /\ k = [o |-> k.o, child |-> k.child] /\ k.o \in Objects /\ Main(v, k.o)
               /\ v[k.o].children = <<>> => k.child = 0
               /\ v[k.o].children # <<>> => k.child \in 1 .. Len(v[k.o].children) /\ k.child \notin v[k.o].pending
    <2>1. k \in M
      OBVIOUS
    <2>2. /\ k = [o |-> k.o, child |-> k.child] /\ k.o \in Objects /\ Main(u, k.o)
          /\ u[k.o].children = <<>> => k.child = 0
          /\ u[k.o].children # <<>> => k.child \in 1 .. Len(u[k.o].children) /\ k.child \notin u[k.o].pending
      BY <2>1 DEF Answered
    <2> QED BY <2>2, KinMain
  <1>3. \A o \in Objects : v[o].ins => Main(v, o)
    BY KinMain DEF Answered
  <1>4. ASSUME NEW o \in Objects, Main(v, o)
        PROVE  /\ v[o].ins => ~v[o].issued
               /\ v[o].done # Unset => v[o].issued /\ Owed(N, o) = {}
               /\ v[o].pending \subseteq 1 .. Len(v[o].children)
               /\ v[o].issued => v[o].pending = {}
               /\ ~v[o].issued /\ v[o].children # <<>> => v[o].pending # {}
               /\ ~v[o].issued /\ v[o].children = <<>> => Owed(N, o) = {}
               /\ v[o].children # <<>> =>
                    v[o].childDone + Cardinality(Owed(N, o)) + Cardinality(v[o].pending) = Len(v[o].children)
    <2>1. Main(u, o) /\ v[o].children = u[o].children
      BY <1>4, KinMain
    <2>2. /\ u[o].ins => ~u[o].issued
          /\ u[o].done # Unset => u[o].issued /\ Owed(M, o) = {}
          /\ u[o].pending \subseteq 1 .. Len(u[o].children)
          /\ u[o].issued => u[o].pending = {}
          /\ ~u[o].issued /\ u[o].children # <<>> => u[o].pending # {}
          /\ ~u[o].issued /\ u[o].children = <<>> => Owed(M, o) = {}
          /\ u[o].children # <<>> =>
               u[o].childDone + Cardinality(Owed(M, o)) + Cardinality(u[o].pending) = Len(u[o].children)
      BY <2>1 DEF Answered
    <2>3. Owed(N, o) \subseteq Owed(M, o)
      BY DEF Owed
    <2>4. v[o].children # <<>> =>
               v[o].childDone + Cardinality(Owed(N, o)) + Cardinality(v[o].pending) = Len(v[o].children)
      <3>1. CASE o = m.o
        <4>1. Cardinality(Owed(N, o)) = Cardinality(Owed(M, o)) - 1
              /\ Cardinality(Owed(N, o)) \in Nat /\ Cardinality(Owed(M, o)) \in Nat
          BY <1>1, <3>1, OwedLess
        <4>2. u[o].pending \in SUBSET (1 .. Len(u[o].children)) /\ v[o].pending = u[o].pending
          BY <2>2
        <4>3. u[o].children # <<>>
          BY <3>1
        <4>4. v[o].childDone = u[o].childDone + 1 /\ u[o].childDone \in Int
          BY <3>1
        <4>5. Cardinality(u[o].pending) \in Nat /\ Len(u[o].children) \in Nat
          BY <2>1, PendingFinite
        <4> QED BY <2>1, <2>2, <4>1, <4>2, <4>3, <4>4, <4>5
      <3>2. CASE o # m.o
        <4>1. Owed(N, o) = Owed(M, o)
          BY <1>1, <3>2, OwedLess
        <4> QED BY <2>1, <2>2, <3>2, <4>1
      <3> QED BY <3>1, <3>2
    <2> QED BY <2>1, <2>2, <2>3, <2>4
  <1> QED BY <1>1, <1>2, <1>3, <1>4 DEF Answered

\* The last access is answered: the uop is done.
LEMMA LastAnswer ==
    ASSUME NEW u, NEW M, NEW P, NEW v, NEW N, Answered(u, M), Owned(u, P), NEW m \in M, N = M \ {m}, Kin(u, v),
           m.child = 0 \/ u[m.o].childDone + 1 = Len(u[m.o].children), u[m.o].childDone \in Int,
           \A x \in Objects : /\ v[x].ins = u[x].ins /\ v[x].issued = u[x].issued
                              /\ v[x].done = IF x = m.o THEN 0 ELSE u[x].done
                              /\ v[x].pending = u[x].pending,
           \A x \in Objects : v[x].childDone = IF x = m.o /\ m.child # 0 THEN u[x].childDone + 1 ELSE u[x].childDone
    PROVE  Answered(v, N) /\ u[m.o].issued
  <1> DEFINE w == m.o
  <1>1. IsFiniteSet(M) /\ IsFiniteSet(N)
    BY OwedLess DEF Answered
  <1>2. ASSUME NEW k \in N
        PROVE  /\ k = [o |-> k.o, child |-> k.child] /\ k.o \in Objects /\ Main(v, k.o)
               /\ v[k.o].children = <<>> => k.child = 0
               /\ v[k.o].children # <<>> => k.child \in 1 .. Len(v[k.o].children) /\ k.child \notin v[k.o].pending
    <2>1. k \in M
      OBVIOUS
    <2>2. /\ k = [o |-> k.o, child |-> k.child] /\ k.o \in Objects /\ Main(u, k.o)
          /\ u[k.o].children = <<>> => k.child = 0
          /\ u[k.o].children # <<>> => k.child \in 1 .. Len(u[k.o].children) /\ k.child \notin u[k.o].pending
      BY <2>1 DEF Answered
    <2> QED BY <2>2, KinMain
  <1>3. \A o \in Objects : v[o].ins => Main(v, o)
    BY KinMain DEF Answered
  <1>4. /\ Main(u, w) /\ w \in Objects /\ m = [o |-> w, child |-> m.child]
        /\ u[w].children = <<>> => m.child = 0
        /\ u[w].children # <<>> => m.child \in 1 .. Len(u[w].children)
    BY DEF Answered
  <1>5. /\ Cardinality(Owed(N, w)) = Cardinality(Owed(M, w)) - 1
        /\ Cardinality(Owed(N, w)) \in Nat /\ Cardinality(Owed(M, w)) \in Nat
    BY <1>1, OwedLess
  <1>6. IsFiniteSet(Owed(N, w)) /\ IsFiniteSet(u[w].pending) /\ Cardinality(u[w].pending) \in Nat
        /\ Len(u[w].children) \in Nat
    BY <1>1, <1>4, OwedFinite, PendingFinite
  <1>7. m \in Owed(M, w)
    BY DEF Owed
  <1>8. u[w].issued /\ Owed(N, w) = {}
    <2>1. CASE u[w].children = <<>>
      <3>1. Owed(M, w) \subseteq {m}
        <4> SUFFICES ASSUME NEW k \in Owed(M, w) PROVE k = m
          OBVIOUS
        <4>1. k \in M /\ k.o = w
          BY DEF Owed
        <4>2. k = [o |-> k.o, child |-> k.child] /\ k.child = 0
          BY <2>1, <4>1 DEF Answered
        <4> QED BY <1>4, <2>1, <4>1, <4>2
      <3>2. Owed(N, w) = {}
        BY <3>1 DEF Owed
      <3>3. u[w].issued
        BY <1>4, <1>7, <2>1 DEF Answered
      <3> QED BY <3>2, <3>3
    <2>2. CASE u[w].children # <<>>
      <3>1. u[w].childDone + 1 = Len(u[w].children)
        BY <1>4, <2>2
      <3>2. u[w].childDone + Cardinality(Owed(M, w)) + Cardinality(u[w].pending) = Len(u[w].children)
        BY <1>4, <2>2 DEF Answered
      <3>3. Cardinality(Owed(N, w)) = 0 /\ Cardinality(u[w].pending) = 0
        BY <1>5, <1>6, <3>1, <3>2
      <3>4. Owed(N, w) = {} /\ u[w].pending = {}
        BY <1>6, <3>3, FS_EmptySet
      <3>5. u[w].issued
        BY <1>4, <2>2, <3>4 DEF Answered
      <3> QED BY <3>4, <3>5
    <2> QED BY <2>1, <2>2
  <1>9. ASSUME NEW o \in Objects, Main(v, o)
        PROVE  /\ v[o].ins => ~v[o].issued
               /\ v[o].done # Unset => v[o].issued /\ Owed(N, o) = {}
               /\ v[o].pending \subseteq 1 .. Len(v[o].children)
               /\ v[o].issued => v[o].pending = {}
               /\ ~v[o].issued /\ v[o].children # <<>> => v[o].pending # {}
               /\ ~v[o].issued /\ v[o].children = <<>> => Owed(N, o) = {}
               /\ v[o].children # <<>> =>
                    v[o].childDone + Cardinality(Owed(N, o)) + Cardinality(v[o].pending) = Len(v[o].children)
    <2>1. Main(u, o) /\ v[o].children = u[o].children
      BY <1>9, KinMain
    <2>2. /\ u[o].ins => ~u[o].issued
          /\ u[o].done # Unset => u[o].issued /\ Owed(M, o) = {}
          /\ u[o].pending \subseteq 1 .. Len(u[o].children)
          /\ u[o].issued => u[o].pending = {}
          /\ ~u[o].issued /\ u[o].children # <<>> => u[o].pending # {}
          /\ ~u[o].issued /\ u[o].children = <<>> => Owed(M, o) = {}
          /\ u[o].children # <<>> =>
               u[o].childDone + Cardinality(Owed(M, o)) + Cardinality(u[o].pending) = Len(u[o].children)
      BY <2>1 DEF Answered
    <2>3. Owed(N, o) \subseteq Owed(M, o)
      BY DEF Owed
    <2>4. v[o].done # Unset => v[o].issued /\ Owed(N, o) = {}
      BY <1>8, <2>2, <2>3
    <2>5. v[o].children # <<>> =>
               v[o].childDone + Cardinality(Owed(N, o)) + Cardinality(v[o].pending) = Len(v[o].children)
      <3>1. CASE o = w
        <4>1. CASE u[w].children # <<>>
          <5>1. m.child # 0
            BY <1>4, <1>6, <4>1
          <5>2. v[o].childDone = u[o].childDone + 1
            BY <3>1, <5>1
          <5> QED BY <1>5, <1>6, <2>1, <2>2, <3>1, <5>2
        <4>2. CASE u[w].children = <<>>
          BY <2>1, <3>1, <4>2
        <4> QED BY <4>1, <4>2
      <3>2. CASE o # w
        <4>1. Owed(N, o) = Owed(M, o)
          BY <1>1, <3>2, OwedLess
        <4> QED BY <2>1, <2>2, <3>2, <4>1
      <3> QED BY <3>1, <3>2
    <2> QED BY <2>1, <2>2, <2>3, <2>4, <2>5
  <1> QED BY <1>1, <1>2, <1>3, <1>8, <1>9 DEF Answered

\* Time passes: what is not done stays so, or comes nearer.
LEMMA NearerAnswered ==
    ASSUME NEW u, NEW M, NEW v, Answered(u, M), Kin(u, v),
           \A x \in Objects : v[x].ins => u[x].ins,
           \A x \in Objects : Main(u, x) => /\ v[x].issued = u[x].issued
                                            /\ v[x].done # Unset => u[x].done # Unset
                                            /\ v[x].pending = u[x].pending /\ v[x].childDone = u[x].childDone
    PROVE  Answered(v, M)
  <1>1. ASSUME NEW k \in M
        PROVE  /\ k = [o |-> k.o, child |-> k.child] /\ k.o \in Objects /\ Main(v, k.o)
               /\ v[k.o].children = <<>> => k.child = 0
               /\ v[k.o].children # <<>> => k.child \in 1 .. Len(v[k.o].children) /\ k.child \notin v[k.o].pending
    BY KinMain DEF Answered
  <1>2. \A o \in Objects : v[o].ins => Main(v, o)
    BY KinMain DEF Answered
  <1>3. ASSUME NEW o \in Objects, Main(v, o)
        PROVE  /\ v[o].ins => ~v[o].issued
               /\ v[o].done # Unset => v[o].issued /\ Owed(M, o) = {}
               /\ v[o].pending \subseteq 1 .. Len(v[o].children)
               /\ v[o].issued => v[o].pending = {}
               /\ ~v[o].issued /\ v[o].children # <<>> => v[o].pending # {}
               /\ ~v[o].issued /\ v[o].children = <<>> => Owed(M, o) = {}
               /\ v[o].children # <<>> =>
                    v[o].childDone + Cardinality(Owed(M, o)) + Cardinality(v[o].pending) = Len(v[o].children)
    <2>1. Main(u, o) /\ v[o].children = u[o].children
      BY <1>3, KinMain
    <2> QED BY <2>1 DEF Answered
  <1> QED BY <1>1, <1>2, <1>3 DEF Answered

--------------------------------------------------------------------------------
\* Two parts of a finite set.
LEMMA Parts ==
    ASSUME NEW S, IsFiniteSet(S), NEW T, IsFiniteSet(T), NEW U, U = S \cup T, S \cap T = {}
    PROVE  /\ IsFiniteSet(U) /\ Cardinality(U) = Cardinality(S) + Cardinality(T)
           /\ Cardinality(S) \in Nat /\ Cardinality(T) \in Nat /\ Cardinality(U) \in Nat
  <1>1. IsFiniteSet(U) /\ Cardinality(U) = Cardinality(S) + Cardinality(T) - Cardinality(S \cap T)
    BY FS_Union
  <1>2. Cardinality(S \cap T) = 0
    BY FS_EmptySet
  <1>3. Cardinality(S) \in Nat /\ Cardinality(T) \in Nat /\ Cardinality(U) \in Nat
    BY <1>1, FS_CardinalityType
  <1> QED BY <1>1, <1>2, <1>3

\* More accesses of a uop are owed.
LEMMA OwedMore ==
    ASSUME NEW M, IsFiniteSet(M), NEW o, NEW K, IsFiniteSet(K), NEW N,
           N = M \cup {[o |-> o, child |-> k] : k \in K}, \A k \in K : [o |-> o, child |-> k] \notin M
    PROVE  /\ IsFiniteSet(N)
           /\ \A p : p # o => Owed(N, p) = Owed(M, p)
           /\ Cardinality(Owed(N, o)) = Cardinality(Owed(M, o)) + Cardinality(K)
  <1> DEFINE D == {[o |-> o, child |-> k] : k \in K}
             f == [k \in K |-> [o |-> o, child |-> k]]
  <1>1. f \in [K -> D]
    OBVIOUS
  <1>2. IsInjective(f)
    <2> SUFFICES ASSUME NEW a \in K, NEW b \in K, f[a] = f[b] PROVE a = b
      BY DEF IsInjective
    <2>1. [o |-> o, child |-> a].child = [o |-> o, child |-> b].child
      OBVIOUS
    <2> QED BY <2>1
  <1>3. \A d \in D : \E k \in K : f[k] = d
    OBVIOUS
  <1>4. f \in Bijection(K, D)
    <2> HIDE DEF D, f
    <2> QED BY <1>1, <1>2, <1>3 DEF Bijection, Injection, Surjection
  <1>5. IsFiniteSet(D) /\ Cardinality(D) = Cardinality(K)
    <2>1. ExistsBijection(K, D)
      BY <1>4 DEF ExistsBijection
    <2> HIDE DEF D
    <2> QED BY <2>1, FS_Bijection
  <1>6. \A d \in D : d.o = o /\ d \notin M
    OBVIOUS
  <1>7. N = M \cup D
    OBVIOUS
  <1> HIDE DEF D, f
  <1>8. IsFiniteSet(N)
    BY <1>5, <1>7, FS_Union
  <1>9. Owed(N, o) = Owed(M, o) \cup D /\ Owed(M, o) \cap D = {}
    BY <1>6, <1>7 DEF Owed
  <1>10. Cardinality(Owed(N, o)) = Cardinality(Owed(M, o)) + Cardinality(K)
    <2>1. IsFiniteSet(Owed(M, o))
      BY OwedFinite
    <2>2. Cardinality(Owed(N, o)) = Cardinality(Owed(M, o)) + Cardinality(D)
      BY <1>5, <1>9, <2>1, Parts
    <2> QED BY <1>5, <2>2
  <1>11. \A p : p # o => Owed(N, p) = Owed(M, p)
    BY <1>6, <1>7 DEF Owed
  <1> QED BY <1>8, <1>10, <1>11

\* The accesses of an attempt hit, miss, or are denied.
LEMMA OutcomesSplit ==
    ASSUME NEW D, IsFiniteSet(D), NEW out \in [D -> {"hit", "miss", "denied"}]
    PROVE  /\ IsFiniteSet(With(out, "hit")) /\ IsFiniteSet(With(out, "miss")) /\ IsFiniteSet(With(out, "denied"))
           /\ Cardinality(With(out, "hit")) \in Nat /\ Cardinality(With(out, "miss")) \in Nat
           /\ Cardinality(With(out, "denied")) \in Nat /\ Cardinality(D) \in Nat
           /\ With(out, "hit") \subseteq D /\ With(out, "miss") \subseteq D /\ With(out, "denied") \subseteq D
           /\ With(out, "miss") \cap With(out, "denied") = {}
           /\ Cardinality(D) = Cardinality(With(out, "hit")) + Cardinality(With(out, "miss"))
                                 + Cardinality(With(out, "denied"))
  <1> DEFINE H == With(out, "hit")
             I == With(out, "miss")
             J == With(out, "denied")
  <1>1. H \in SUBSET D /\ I \in SUBSET D /\ J \in SUBSET D
    BY DEF With
  <1>2. H \cap I = {} /\ (H \cup I) \cap J = {} /\ I \cap J = {} /\ (H \cup I) \cup J = D
    BY DEF With
  <1> HIDE DEF H, I, J
  <1>3. IsFiniteSet(H) /\ IsFiniteSet(I) /\ IsFiniteSet(J)
    BY <1>1, FS_Subset
  <1> DEFINE G == H \cup I
  <1>4. /\ IsFiniteSet(G) /\ Cardinality(G) = Cardinality(H) + Cardinality(I)
        /\ Cardinality(H) \in Nat /\ Cardinality(I) \in Nat
    BY <1>2, <1>3, Parts
  <1>5. D = G \cup J /\ G \cap J = {}
    BY <1>2
  <1> HIDE DEF G
  <1>6. Cardinality(D) = Cardinality(G) + Cardinality(J) /\ Cardinality(D) \in Nat /\ Cardinality(J) \in Nat
    BY <1>3, <1>4, <1>5, Parts
  <1>7. Cardinality(D) = Cardinality(H) + Cardinality(I) + Cardinality(J)
    BY <1>4, <1>6
  <1> QED BY <1>1, <1>2, <1>3, <1>4, <1>6, <1>7 DEF H, I, J

\* The uop o is tried: some of its accesses hit, some miss, some are denied.
Attempted(u, v, o, M, N, D, out) ==
    /\ o \in Objects /\ Main(u, o) /\ u[o].ins /\ u[o].childDone \in Int
    /\ IF u[o].children = <<>> THEN D \subseteq {0} ELSE D = u[o].pending
    /\ out \in [D -> {"hit", "miss", "denied"}]
    /\ N = M \cup {[o |-> o, child |-> k] : k \in With(out, "miss")}
    /\ Kin(u, v)
    /\ \A x \in Objects : x # o => v[x] = u[x]
    /\ IF u[o].children = <<>>
       THEN v[o].pending = u[o].pending /\ v[o].childDone = u[o].childDone
       ELSE /\ v[o].pending = With(out, "denied")
            /\ v[o].childDone = u[o].childDone + Cardinality(With(out, "hit"))

LEMMA AttemptOwed ==
    ASSUME NEW u, NEW v, NEW o, NEW M, NEW N, NEW D, NEW out, NEW P, Answered(u, M), Owned(u, P),
           Attempted(u, v, o, M, N, D, out)
    PROVE  /\ IsFiniteSet(D) /\ IsFiniteSet(N)
           /\ \A p : p # o => Owed(N, p) = Owed(M, p)
           /\ Cardinality(Owed(N, o)) = Cardinality(Owed(M, o)) + Cardinality(With(out, "miss"))
           /\ \A k \in N : /\ k = [o |-> k.o, child |-> k.child] /\ k.o \in Objects /\ Main(v, k.o)
                           /\ v[k.o].children = <<>> => k.child = 0
                           /\ v[k.o].children # <<>> =>
                                k.child \in 1 .. Len(v[k.o].children) /\ k.child \notin v[k.o].pending
  <1> DEFINE K == With(out, "miss")
  <1>1. IsFiniteSet(M) /\ o \in Objects /\ Main(u, o)
    BY DEF Answered, Attempted
  <1>2. IsFiniteSet(u[o].pending) /\ Len(u[o].children) \in Nat /\ u[o].pending \subseteq 1 .. Len(u[o].children)
    BY <1>1, PendingFinite
  <1>3. IsFiniteSet(D)
    <2>1. CASE u[o].children = <<>>
      <3>1. D \in SUBSET {0}
        BY <2>1 DEF Attempted
      <3> QED BY <3>1, FS_Singleton, FS_Subset
    <2>2. CASE u[o].children # <<>>
      BY <1>2, <2>2 DEF Attempted
    <2> QED BY <2>1, <2>2
  <1>4. IsFiniteSet(K) /\ K \subseteq D /\ K \cap With(out, "denied") = {}
    BY <1>3, OutcomesSplit DEF Attempted
  <1>5. ASSUME NEW k \in K PROVE [o |-> o, child |-> k] \notin M
    <2> DEFINE m == [o |-> o, child |-> k]
    <2> SUFFICES ASSUME m \in M PROVE FALSE
      OBVIOUS
    <2>1. m.o = o /\ m.child = k
      OBVIOUS
    <2>2. m \in Owed(M, o)
      BY <2>1 DEF Owed
    <2>3. CASE u[o].children = <<>>
      <3>1. Owed(M, o) = {}
        BY <1>1, <2>3 DEF Answered, Attempted
      <3> QED BY <2>2, <3>1
    <2>4. CASE u[o].children # <<>>
      <3>1. k \in u[o].pending
        BY <1>4, <2>4 DEF Attempted
      <3>2. k \notin u[o].pending
        <4> HIDE DEF m
        <4>1. u[m.o].children # <<>> => m.child \notin u[m.o].pending
          BY DEF Answered
        <4> QED BY <2>1, <2>4, <4>1
      <3> QED BY <3>1, <3>2
    <2> QED BY <2>3, <2>4
  <1>6. N = M \cup {[o |-> o, child |-> k] : k \in K}
    BY DEF Attempted
  <1>7. /\ IsFiniteSet(N)
        /\ \A p : p # o => Owed(N, p) = Owed(M, p)
        /\ Cardinality(Owed(N, o)) = Cardinality(Owed(M, o)) + Cardinality(K)
    <2> HIDE DEF K
    <2> QED BY <1>1, <1>4, <1>5, <1>6, OwedMore
  <1>8. Kin(u, v) /\ v[o].children = u[o].children /\ Main(v, o)
    BY <1>1, KinMain DEF Attempted
  <1>9. ASSUME NEW k \in N
        PROVE  /\ k = [o |-> k.o, child |-> k.child] /\ k.o \in Objects /\ Main(v, k.o)
               /\ v[k.o].children = <<>> => k.child = 0
               /\ v[k.o].children # <<>> => k.child \in 1 .. Len(v[k.o].children) /\ k.child \notin v[k.o].pending
    <2>1. CASE k \in M
      <3>1. /\ k = [o |-> k.o, child |-> k.child] /\ k.o \in Objects /\ Main(u, k.o)
            /\ u[k.o].children = <<>> => k.child = 0
            /\ u[k.o].children # <<>> => k.child \in 1 .. Len(u[k.o].children) /\ k.child \notin u[k.o].pending
        BY <2>1 DEF Answered
      <3>2. Main(v, k.o) /\ v[k.o].children = u[k.o].children
        BY <1>8, <3>1, KinMain
      <3>3. u[k.o].children # <<>> => k.child \notin v[k.o].pending
        <4>1. CASE k.o # o
          BY <3>1, <4>1 DEF Attempted
        <4>2. CASE k.o = o
          <5> SUFFICES ASSUME u[o].children # <<>> PROVE k.child \notin v[o].pending
            BY <4>2
          <5>1. v[o].pending = With(out, "denied") /\ D = u[o].pending
            BY DEF Attempted
          <5>2. With(out, "denied") \subseteq D
            BY <1>3, OutcomesSplit DEF Attempted
          <5> QED BY <3>1, <4>2, <5>1, <5>2
        <4> QED BY <4>1, <4>2
      <3> QED BY <3>1, <3>2, <3>3
    <2>2. CASE k \notin M
      <3>1. PICK d \in K : k = [o |-> o, child |-> d]
        BY <1>6, <2>2
      <3>2. k.o = o /\ k.child = d
        BY <3>1
      <3>3. u[o].children = <<>> => d = 0
        BY <1>4 DEF Attempted
      <3>4. u[o].children # <<>> => d \in u[o].pending /\ d \notin v[o].pending
        BY <1>4 DEF Attempted
      <3> QED BY <1>1, <1>2, <1>8, <3>1, <3>2, <3>3, <3>4
    <2> QED BY <2>1, <2>2
  <1> QED BY <1>3, <1>7, <1>9

\* What is answered after an attempt, for a uop that waits on and for one that was issued.
LEMMA AttemptAnswered ==
    ASSUME NEW u, NEW v, NEW o, NEW M, NEW N, NEW D, NEW out, NEW P, Answered(u, M), Owned(u, P),
           Attempted(u, v, o, M, N, D, out),
           IF With(out, "denied") # {}
           THEN v[o].ins = u[o].ins /\ v[o].issued = u[o].issued /\ v[o].done = u[o].done
           ELSE /\ ~v[o].ins /\ v[o].issued
                /\ v[o].done # Unset =>
                     /\ With(out, "miss") = {}
                     /\ u[o].children # <<>> => u[o].childDone + Cardinality(D) = Len(u[o].children)
    PROVE  Answered(v, N)
  <1>1. /\ IsFiniteSet(D) /\ IsFiniteSet(N)
        /\ \A p : p # o => Owed(N, p) = Owed(M, p)
        /\ Cardinality(Owed(N, o)) = Cardinality(Owed(M, o)) + Cardinality(With(out, "miss"))
        /\ \A k \in N : /\ k = [o |-> k.o, child |-> k.child] /\ k.o \in Objects /\ Main(v, k.o)
                        /\ v[k.o].children = <<>> => k.child = 0
                        /\ v[k.o].children # <<>> =>
                             k.child \in 1 .. Len(v[k.o].children) /\ k.child \notin v[k.o].pending
    BY AttemptOwed
  <1>2. o \in Objects /\ Main(u, o) /\ u[o].ins /\ Kin(u, v) /\ u[o].childDone \in Int
    BY DEF Attempted
  <1>3. Main(v, o) /\ v[o].children = u[o].children
    BY <1>2, KinMain
  <1>4. \A x \in Objects : v[x].ins => Main(v, x)
    BY <1>2, KinMain DEF Answered, Attempted
  <1>5. /\ ~u[o].issued /\ u[o].done = Unset
        /\ u[o].children # <<>> => u[o].pending # {}
        /\ u[o].children = <<>> => Owed(M, o) = {}
        /\ u[o].pending \subseteq 1 .. Len(u[o].children)
        /\ u[o].children # <<>> =>
             u[o].childDone + Cardinality(Owed(M, o)) + Cardinality(u[o].pending) = Len(u[o].children)
    BY <1>2 DEF Answered
  <1>6. /\ Cardinality(With(out, "hit")) \in Nat /\ Cardinality(With(out, "miss")) \in Nat
        /\ Cardinality(With(out, "denied")) \in Nat /\ Cardinality(D) \in Nat
        /\ With(out, "miss") \subseteq D /\ With(out, "denied") \subseteq D
        /\ IsFiniteSet(With(out, "denied")) /\ IsFiniteSet(With(out, "miss"))
        /\ Cardinality(D) = Cardinality(With(out, "hit")) + Cardinality(With(out, "miss"))
                              + Cardinality(With(out, "denied"))
    BY <1>1, OutcomesSplit DEF Attempted
  <1>7. Cardinality(Owed(M, o)) \in Nat /\ Len(u[o].children) \in Nat
    BY <1>2, OwedFinite, PendingFinite DEF Answered
  <1>8. ASSUME NEW x \in Objects, Main(v, x), x # o
        PROVE  /\ v[x].ins => ~v[x].issued
               /\ v[x].done # Unset => v[x].issued /\ Owed(N, x) = {}
               /\ v[x].pending \subseteq 1 .. Len(v[x].children)
               /\ v[x].issued => v[x].pending = {}
               /\ ~v[x].issued /\ v[x].children # <<>> => v[x].pending # {}
               /\ ~v[x].issued /\ v[x].children = <<>> => Owed(N, x) = {}
               /\ v[x].children # <<>> =>
                    v[x].childDone + Cardinality(Owed(N, x)) + Cardinality(v[x].pending) = Len(v[x].children)
    <2>1. v[x] = u[x] /\ Owed(N, x) = Owed(M, x) /\ Main(u, x)
      BY <1>1, <1>8, <1>2, KinMain DEF Attempted
    <2> QED BY <2>1 DEF Answered
  <1>9. v[o].children # <<>> =>
          v[o].childDone + Cardinality(Owed(N, o)) + Cardinality(v[o].pending) = Len(v[o].children)
    <2> SUFFICES ASSUME u[o].children # <<>>
                 PROVE  v[o].childDone + Cardinality(Owed(N, o)) + Cardinality(v[o].pending) = Len(u[o].children)
      BY <1>3
    <2>1. /\ v[o].pending = With(out, "denied") /\ D = u[o].pending
          /\ v[o].childDone = u[o].childDone + Cardinality(With(out, "hit"))
      BY DEF Attempted
    <2>2. u[o].childDone + Cardinality(Owed(M, o)) + Cardinality(D) = Len(u[o].children)
      BY <1>5, <2>1
    <2>3. v[o].childDone + Cardinality(Owed(N, o)) + Cardinality(With(out, "denied")) = Len(u[o].children)
      BY <1>1, <1>2, <1>6, <1>7, <2>1, <2>2
    <2> QED BY <2>1, <2>3
  <1>10. /\ v[o].ins => ~v[o].issued
         /\ v[o].done # Unset => v[o].issued /\ Owed(N, o) = {}
         /\ v[o].pending \subseteq 1 .. Len(v[o].children)
         /\ v[o].issued => v[o].pending = {}
         /\ ~v[o].issued /\ v[o].children # <<>> => v[o].pending # {}
         /\ ~v[o].issued /\ v[o].children = <<>> => Owed(N, o) = {}
    <2>1. v[o].pending \subseteq 1 .. Len(v[o].children)
      BY <1>3, <1>5, <1>6 DEF Attempted
    <2>2. CASE With(out, "denied") # {}
      <3>1. v[o].ins /\ ~v[o].issued /\ v[o].done = Unset
        BY <1>2, <1>5, <2>2
      <3>2. v[o].children # <<>> => v[o].pending # {}
        BY <1>3, <2>2 DEF Attempted
      <3>3. ASSUME v[o].children = <<>> PROVE Owed(N, o) = {}
        <4>1. D \subseteq {0}
          BY <1>3, <3>3 DEF Attempted
        <4>2. With(out, "miss") \cap With(out, "denied") = {}
          BY <1>1, OutcomesSplit DEF Attempted
        <4>3. With(out, "miss") = {}
          BY <1>6, <2>2, <4>1, <4>2
        <4>4. N = M
          BY <4>3 DEF Attempted
        <4> QED BY <1>3, <1>5, <3>3, <4>4
      <3> QED BY <2>1, <3>1, <3>2, <3>3
    <2>3. CASE With(out, "denied") = {}
      <3>1. ~v[o].ins /\ v[o].issued
        BY <2>3
      <3>2. v[o].pending = {}
        <4>1. CASE u[o].children = <<>>
          <5>1. v[o].pending \subseteq 1 .. 0
            BY <1>3, <2>1, <4>1
          <5> QED BY <5>1
        <4>2. CASE u[o].children # <<>>
          BY <2>3, <4>2 DEF Attempted
        <4> QED BY <4>1, <4>2
      <3>3. ASSUME v[o].done # Unset PROVE Owed(N, o) = {}
        <4>1. With(out, "miss") = {} /\ (u[o].children # <<>> => u[o].childDone + Cardinality(D) = Len(u[o].children))
          BY <2>3, <3>3
        <4>2. N = M
          BY <4>1 DEF Attempted
        <4>3. CASE u[o].children = <<>>
          BY <1>5, <4>2, <4>3
        <4>4. CASE u[o].children # <<>>
          <5>1. D = u[o].pending
            BY <4>4 DEF Attempted
          <5>2. u[o].childDone + Cardinality(Owed(M, o)) + Cardinality(D) = Len(u[o].children)
            BY <1>5, <4>4, <5>1
          <5>3. Cardinality(Owed(M, o)) = 0
            BY <1>2, <1>6, <1>7, <4>1, <4>4, <5>2
          <5>4. IsFiniteSet(Owed(M, o))
            BY OwedFinite DEF Answered
          <5> QED BY <4>2, <5>3, <5>4, FS_EmptySet
        <4> QED BY <4>3, <4>4
      <3> QED BY <2>1, <3>1, <3>2, <3>3
    <2> QED BY <2>2, <2>3
  <1> QED BY <1>1, <1>4, <1>8, <1>9, <1>10 DEF Answered

--------------------------------------------------------------------------------
\* The front of the list moves past a hole.
LEMMA InsideMoves ==
    ASSUME NEW n \in Nat \ {0}, NEW f \in 0 .. n - 1, NEW l \in 0 .. n - 1, NEW i \in 0 .. n - 1,
           Inside(i, f, l), i # f
    PROVE  Inside(i, Wrap(f + 1, n), l)
  BY DEF Inside, Wrap

\* A place is added at the end.
LEMMA InsideGrows ==
    ASSUME NEW n \in Nat \ {0}, NEW f \in 0 .. n - 1, NEW l \in 0 .. n - 1, Wrap(l + 1, n) # f
    PROVE  /\ ~Inside(l, f, l) /\ Inside(l, f, Wrap(l + 1, n)) /\ Wrap(l + 1, n) \in 0 .. n - 1
           /\ \A i \in 0 .. n - 1 : Inside(i, f, l) => Inside(i, f, Wrap(l + 1, n))
  BY DEF Inside, Wrap

LEMMA HolePassed ==
    ASSUME NEW c, c.list \in Nat \ {0}, NEW u, NEW R, NEW B, NEW S, NEW T, Scheduled(c, u, R, B, S),
           NEW i \in 0 .. c.list - 1, S.list[i] = <<>>, S.first \in 0 .. c.list - 1, S.last \in 0 .. c.list - 1,
           T.list = S.list, T.last = S.last, T.first = IF S.first = i THEN Wrap(i + 1, c.list) ELSE S.first
    PROVE  Scheduled(c, u, R, B, T)
  <1> SUFFICES ASSUME c.kind # "io" PROVE Scheduled(c, u, R, B, T)
    BY DEF Scheduled
  <1>1. ASSUME NEW k \in 0 .. c.list - 1, T.list[k] # <<>>
        PROVE  /\ Inside(k, T.first, T.last)
               /\ Lives(c, R, B, T.list[k]) /\ u[Behind(R, T.list[k])].ins
    <2>1. /\ Inside(k, S.first, S.last) /\ k # i
          /\ Lives(c, R, B, T.list[k]) /\ u[Behind(R, T.list[k])].ins
      BY <1>1 DEF Scheduled
    <2>2. Inside(k, T.first, T.last)
      <3>1. CASE S.first = i
        BY <2>1, <3>1, InsideMoves
      <3>2. CASE S.first # i
        BY <2>1, <3>2
      <3> QED BY <3>1, <3>2
    <2> QED BY <2>1, <2>2
  <1>2. \A k, j \in 0 .. c.list - 1 : T.list[k] # <<>> /\ T.list[k] = T.list[j] => k = j
    BY DEF Scheduled
  <1>3. \A o \in Objects : Main(u, o) /\ u[o].ins =>
          \E k \in 0 .. c.list - 1 : T.list[k] # <<>> /\ Behind(R, T.list[k]) = o
    BY DEF Scheduled
  <1> QED BY <1>1, <1>2, <1>3 DEF Scheduled

--------------------------------------------------------------------------------
\* The uop o leaves the scheduler.
Starts(u, v, o) ==
    /\ Kin(u, v) /\ o \in Objects /\ Main(u, o)
    /\ u[o].ins /\ ~u[o].issued /\ ~v[o].ins /\ v[o].issued /\ v[o].q = u[o].q
    /\ \A x \in Objects : x # o => v[x] = u[x]

LEMMA StartsWaits ==
    ASSUME NEW c, NEW u, NEW v, NEW R, NEW B, NEW Q, NEW A, NEW o, Homes(c, u, B, Q), Rings(c, R, B),
           Starts(u, v, o), Waits(c, u, R, B, Q, A)
    PROVE  Waits(c, v, R, B, Q, A)
  <1>1. \A x \in Objects : Occurs(x, Q) => ~v[x].ins /\ ~v[x].issued
    BY DEF Starts, Waits
  <1>2. ASSUME NEW q \in ToSet(Queues), NEW e \in ToSet(A[q][1])
        PROVE  /\ Lives(c, R, B, e)
               /\ ~v[Behind(R, e)].ins /\ ~v[Behind(R, e)].issued /\ v[Behind(R, e)].q = q
    <2>1. /\ Lives(c, R, B, e)
          /\ ~u[Behind(R, e)].ins /\ ~u[Behind(R, e)].issued /\ u[Behind(R, e)].q = q
      BY DEF Waits
    <2>2. Behind(R, e) \in Objects /\ Behind(R, e) # o
      BY <2>1, LiveMain DEF Starts
    <2> QED BY <2>1, <2>2 DEF Starts
  <1> QED BY <1>1, <1>2 DEF Waits

LEMMA StartsScheduled ==
    ASSUME NEW c, NEW u, NEW v, NEW R, NEW B, NEW Q, NEW S, NEW T, NEW o, Homes(c, u, B, Q), Rings(c, R, B),
           Starts(u, v, o), Scheduled(c, u, R, B, S), S.list \in [0 .. c.list - 1 -> Nat \X Nat \cup {<<>>}],
           NEW i \in 0 .. c.list - 1, S.list[i] # <<>>, Behind(R, S.list[i]) = o,
           T.list = [S.list EXCEPT ![i] = <<>>], T.first = S.first, T.last = S.last
    PROVE  Scheduled(c, v, R, B, T)
  <1> SUFFICES ASSUME c.kind # "io" PROVE Scheduled(c, v, R, B, T)
    BY DEF Scheduled
  <1>1. \A k \in 0 .. c.list - 1 : T.list[k] # <<>> => k # i /\ T.list[k] = S.list[k] /\ S.list[k] # <<>>
    OBVIOUS
  <1>2. \A k \in 0 .. c.list - 1 : k # i => T.list[k] = S.list[k]
    OBVIOUS
  <1>3. Lives(c, R, B, S.list[i])
    BY DEF Scheduled
  <1>4. ASSUME NEW k \in 0 .. c.list - 1, T.list[k] # <<>>
        PROVE  /\ Inside(k, T.first, T.last)
               /\ Lives(c, R, B, T.list[k]) /\ v[Behind(R, T.list[k])].ins
    <2>1. /\ Inside(k, S.first, S.last) /\ k # i /\ T.list[k] = S.list[k]
          /\ Lives(c, R, B, S.list[k]) /\ u[Behind(R, S.list[k])].ins
      BY <1>1, <1>4 DEF Scheduled
    <2>2. S.list[k] # S.list[i]
      BY <1>1, <1>4 DEF Scheduled
    <2>3. Behind(R, S.list[k]) # o /\ Behind(R, S.list[k]) \in Objects
      BY <1>3, <2>1, <2>2, OneEntry, LiveMain
    <2> QED BY <2>1, <2>3 DEF Starts
  <1>5. \A k, j \in 0 .. c.list - 1 : T.list[k] # <<>> /\ T.list[k] = T.list[j] => k = j
    <2> SUFFICES ASSUME NEW k \in 0 .. c.list - 1, NEW j \in 0 .. c.list - 1, T.list[k] # <<>>, T.list[k] = T.list[j]
                 PROVE  k = j
      OBVIOUS
    <2>1. S.list[k] # <<>> /\ S.list[k] = S.list[j]
      BY <1>1
    <2> QED BY <2>1 DEF Scheduled
  <1>6. ASSUME NEW x \in Objects, Main(v, x), v[x].ins
        PROVE  \E k \in 0 .. c.list - 1 : T.list[k] # <<>> /\ Behind(R, T.list[k]) = x
    <2>1. x # o /\ Main(u, x) /\ u[x].ins
      BY <1>6, KinMain DEF Starts
    <2>2. PICK k \in 0 .. c.list - 1 : S.list[k] # <<>> /\ Behind(R, S.list[k]) = x
      BY <2>1 DEF Scheduled
    <2>3. k # i /\ T.list[k] = S.list[k]
      BY <1>2, <2>1, <2>2
    <2> QED BY <2>2, <2>3
  <1> QED BY <1>4, <1>5, <1>6 DEF Scheduled

\* The sets that are counted are finite.
LEMMA CountsFinite ==
    ASSUME NEW K \in SUBSET Objects
    PROVE  IsFiniteSet(K) /\ Cardinality(K) \in Nat
  <1>1. IsFiniteSet(Objects)
    BY FS_Interval, PipelineAssumption DEF Objects
  <1>2. IsFiniteSet(K)
    BY <1>1, FS_Subset
  <1> QED BY <1>2, FS_CardinalityType

LEMMA StartsCounted ==
    ASSUME NEW c, NEW u, NEW v, NEW R, NEW B, NEW Q, NEW S, NEW T, NEW ts, NEW us, NEW o, Homes(c, u, B, Q),
           Starts(u, v, o), Counted(c, u, R, B, S, ts), u[o].q \in ToSet(Queues), S.per \in [ToSet(Queues) -> Int],
           T.num = S.num - 1, T.per = [S.per EXCEPT ![u[o].q] = @ - 1],
           \A t \in TidsOf(c) : us[t].dispatch = IF t = u[o].tid THEN ts[t].dispatch - 1 ELSE ts[t].dispatch
    PROVE  Counted(c, v, R, B, T, us)
  <1> USE DEF Starts
  <1>1. \A x : x \in InSched(v) <=> x \in InSched(u) /\ x # o
    BY KinMain DEF InSched
  <1>2. \A q : q # u[o].q => InSchedOf(v, q) = InSchedOf(u, q)
    BY KinMain DEF InSchedOf
  <1>3. \A x : x \in InSchedOf(v, u[o].q) <=> x \in InSchedOf(u, u[o].q) /\ x # o
    BY KinMain DEF InSchedOf
  <1>4. \A t : t # u[o].tid => ToDispatch(v, t) = ToDispatch(u, t)
    BY KinMain DEF ToDispatch
  <1>5. \A x : x \in ToDispatch(v, u[o].tid) <=> x \in ToDispatch(u, u[o].tid) /\ x # o
    BY KinMain DEF ToDispatch
  <1>6. o \in InSched(u) /\ o \in InSchedOf(u, u[o].q) /\ o \in ToDispatch(u, u[o].tid)
    BY DEF InSched, InSchedOf, ToDispatch
  <1>7. /\ IsFiniteSet(InSched(u)) /\ IsFiniteSet(InSchedOf(u, u[o].q)) /\ IsFiniteSet(ToDispatch(u, u[o].tid))
    <2>1. InSched(u) \in SUBSET Objects /\ InSchedOf(u, u[o].q) \in SUBSET Objects
          /\ ToDispatch(u, u[o].tid) \in SUBSET Objects
      BY DEF InSched, InSchedOf, ToDispatch
    <2> QED BY <2>1, CountsFinite
  <1>8. \A r \in RobsOf(c), k \in Resources : Holding(c, v, B[r], k) = Holding(c, u, B[r], k)
    <2> TAKE r \in RobsOf(c), k \in Resources
    <2>1. \A x \in Objects : Occurs(x, B[r]) => KindOf(c, v, x) = KindOf(c, u, x)
      BY KinMain DEF Homes, KindOf
    <2> QED BY <2>1 DEF Holding
  <1>9. T.num = Cardinality(InSched(v))
    <2>1. Cardinality(InSched(v)) = Cardinality(InSched(u)) - 1
      BY <1>1, <1>6, <1>7, CountLess
    <2> QED BY <2>1 DEF Counted
  <1>10. \A q \in ToSet(Queues) : T.per[q] = Cardinality(InSchedOf(v, q))
    <2> TAKE q \in ToSet(Queues)
    <2>1. CASE q = u[o].q
      <3>1. Cardinality(InSchedOf(v, u[o].q)) = Cardinality(InSchedOf(u, u[o].q)) - 1
        BY <1>3, <1>6, <1>7, CountLess
      <3>2. T.per[q] = S.per[q] - 1
        BY <2>1
      <3> QED BY <2>1, <3>1, <3>2 DEF Counted
    <2>2. CASE q # u[o].q
      <3>1. InSchedOf(v, q) = InSchedOf(u, q)
        BY <1>2, <2>2
      <3> QED BY <2>2, <3>1 DEF Counted
    <2> QED BY <2>1, <2>2
  <1>11. \A t \in TidsOf(c) : us[t].dispatch = Cardinality(ToDispatch(v, t))
    <2> TAKE t \in TidsOf(c)
    <2>1. CASE t = u[o].tid
      <3>1. Cardinality(ToDispatch(v, u[o].tid)) = Cardinality(ToDispatch(u, u[o].tid)) - 1
        BY <1>5, <1>6, <1>7, CountLess
      <3> QED BY <2>1, <3>1 DEF Counted
    <2>2. CASE t # u[o].tid
      <3>1. ToDispatch(v, t) = ToDispatch(u, t)
        BY <1>4, <2>2
      <3> QED BY <2>2, <3>1 DEF Counted
    <2> QED BY <2>1, <2>2
  <1> QED BY <1>8, <1>9, <1>10, <1>11 DEF Counted

\* The uop that the in-order core tries is the first one that is not issued.
StandsAt(c, u, R, B, S, o, j) ==
    /\ j \in 0 .. Len(B[0]) - 1
    /\ S.next = SlotOf(R[0].first, j + 1, 2 * c.rob) /\ B[0][j + 1] = o
    /\ \A i \in 1 .. Len(B[0]) : u[B[0][i]].issued <=> i <= j
LEMMA FirstNotIssued ==
    ASSUME NEW c, c.kind = "io", 0 \in RobsOf(c), NEW u, NEW R, NEW B, NEW Q, NEW A, NEW S, NEW M, NEW o \in Objects,
           Homes(c, u, B, Q), Rings(c, R, B), Waits(c, u, R, B, Q, A), InOrder(c, u, R, B, S), Answered(u, M),
           u[o].ins, R[0].slot[S.next] = o
    PROVE  \E j : StandsAt(c, u, R, B, S, o, j)
  <1>1. PICK j \in 0 .. Len(B[0]) : /\ S.next = SlotOf(R[0].first, j + 1, 2 * c.rob)
                                    /\ \A i \in 1 .. Len(B[0]) : u[B[0][i]].issued <=> i <= j
    BY DEF InOrder
  <1>2. Main(u, o) /\ ~u[o].issued
    BY DEF Answered
  <1>3. Circular(0 .. NumObjects, 2 * c.rob, R[0].slot, R[0].first, R[0].last, B[0])
    BY DEF Rings
  <1>4. Len(B[0]) \in Nat /\ \A i \in 1 .. Len(B[0]) : B[0][i] = R[0].slot[SlotOf(R[0].first, i, 2 * c.rob)]
    BY <1>3, RingHolds
  <1>5. j # Len(B[0])
    <2> SUFFICES ASSUME j = Len(B[0]) PROVE FALSE
      OBVIOUS
    <2>1. ~Occurs(o, Q)
      BY DEF Waits
    <2>2. Occurs(o, B[0])
      BY <1>2, <2>1 DEF Homes, RobFor
    <2>3. PICK i \in 1 .. Len(B[0]) : B[0][i] = o
      BY <2>2 DEF Occurs
    <2> QED BY <1>1, <1>2, <1>4, <2>3
  <1>6. j \in 0 .. Len(B[0]) - 1 /\ j + 1 \in 1 .. Len(B[0])
    BY <1>4, <1>5
  <1>7. B[0][j + 1] = o
    BY <1>1, <1>4, <1>6
  <1>8. StandsAt(c, u, R, B, S, o, j)
    BY <1>1, <1>6, <1>7 DEF StandsAt
  <1> QED BY <1>8

LEMMA NextSlot ==
    ASSUME NEW m \in Nat, NEW f \in 0 .. m - 1, NEW j \in 0 .. m - 2
    PROVE  Wrap(SlotOf(f, j + 1, m) + 1, m) = SlotOf(f, j + 2, m) /\ SlotOf(f, j + 1, m) \in 0 .. m - 1
  BY DEF SlotOf, Wrap

LEMMA StartsInOrder ==
    ASSUME NEW c, 0 \in RobsOf(c), NEW u, NEW v, NEW R, NEW B, NEW Q, NEW A, NEW S, NEW T, NEW M, NEW o,
           Homes(c, u, B, Q), Rings(c, R, B), Waits(c, u, R, B, Q, A), InOrder(c, u, R, B, S), Answered(u, M),
           Starts(u, v, o), c.kind = "io" => R[0].slot[S.next] = o /\ T.next = Wrap(S.next + 1, 2 * c.rob)
    PROVE  InOrder(c, v, R, B, T)
  <1> SUFFICES ASSUME c.kind = "io" PROVE InOrder(c, v, R, B, T)
    BY DEF InOrder
  <1>0. PICK j : StandsAt(c, u, R, B, S, o, j)
    <2>1. o \in Objects /\ u[o].ins
      BY DEF Starts
    <2>2. R[0].slot[S.next] = o
      OBVIOUS
    <2> QED BY <2>1, <2>2, FirstNotIssued
  <1>1. /\ j \in 0 .. Len(B[0]) - 1
        /\ S.next = SlotOf(R[0].first, j + 1, 2 * c.rob) /\ B[0][j + 1] = o
        /\ \A i \in 1 .. Len(B[0]) : u[B[0][i]].issued <=> i <= j
    BY <1>0 DEF StandsAt
  <1>2. Circular(0 .. NumObjects, 2 * c.rob, R[0].slot, R[0].first, R[0].last, B[0])
    BY DEF Rings
  <1>3. Len(B[0]) \in 0 .. 2 * c.rob - 1
    BY <1>2, RingHolds
  <1>4. 2 * c.rob \in Nat \ {0} /\ R[0].first \in 0 .. 2 * c.rob - 1
    BY <1>2 DEF Circular
  <1> DEFINE m == 2 * c.rob
  <1>5. T.next = SlotOf(R[0].first, j + 2, 2 * c.rob)
    <2>1. m \in Nat /\ j \in 0 .. m - 2
      BY <1>1, <1>3, <1>4
    <2> HIDE DEF m
    <2> QED BY <1>1, <1>4, <2>1, NextSlot DEF m
  <1>6. OnceEach(B[0]) /\ \A i \in 1 .. Len(B[0]) : B[0][i] \in Objects
    BY ElementOfSeq DEF Homes
  <1>7. ASSUME NEW i \in 1 .. Len(B[0])
        PROVE  v[B[0][i]].issued <=> i <= j + 1
    <2>1. CASE i = j + 1
      BY <1>1, <2>1 DEF Starts
    <2>2. CASE i # j + 1
      <3>1. B[0][i] # o
        BY <1>1, <1>3, <1>6, <2>2 DEF OnceEach
      <3>2. v[B[0][i]] = u[B[0][i]]
        BY <1>6, <3>1 DEF Starts
      <3>3. i <= j <=> i <= j + 1
        <4>1. j \in Nat
          BY <1>1, <1>3
        <4> QED BY <2>2, <4>1
      <3> QED BY <1>1, <3>2, <3>3
    <2> QED BY <2>1, <2>2
  <1> DEFINE k == j + 1
  <1>8. k \in 0 .. Len(B[0]) /\ T.next = SlotOf(R[0].first, k + 1, 2 * c.rob)
    <2>1. k \in 0 .. Len(B[0]) /\ k + 1 = j + 2
      BY <1>1, <1>3
    <2> QED BY <1>5, <2>1
  <1> HIDE DEF k
  <1>9. \A i \in 1 .. Len(B[0]) : v[B[0][i]].issued <=> i <= k
    BY <1>7 DEF k
  <1> QED BY <1>8, <1>9 DEF InOrder

\* All of it, when the uop o is issued.
LEMMA StartsWhole ==
    ASSUME NEW c, 0 \in RobsOf(c), NEW u, NEW v, NEW R, NEW B, NEW Q, NEW A, NEW S, NEW T, NEW ts, NEW us,
           NEW mp, NEW M, NEW N, NEW P, NEW o, Whole(c, u, R, B, Q, A, S, ts, mp, M, P),
           Starts(u, v, o), Answered(v, N), v[o].rdy => u[o].rdy \/ Clear(u, o),
           c.kind = "io" => R[0].slot[S.next] = o /\ T.next = Wrap(S.next + 1, 2 * c.rob),
           u[o].q \in ToSet(Queues), S.per \in [ToSet(Queues) -> Int],
           T.num = S.num - 1, T.per = [S.per EXCEPT ![u[o].q] = @ - 1], Scheduled(c, v, R, B, T),
           \A t \in TidsOf(c) : /\ us[t].dispatch = IF t = u[o].tid THEN ts[t].dispatch - 1 ELSE ts[t].dispatch
                                /\ us[t].retired = ts[t].retired /\ us[t].next = ts[t].next
    PROVE  Whole(c, v, R, B, Q, A, T, us, mp, N, P)
  <1> USE DEF Whole
  <1>1. Kin(u, v)
    BY DEF Starts
  <1>2. Homes(c, v, B, Q) /\ Owned(v, P)
    BY <1>1, KinHomes, KinOwned
  <1>3. Ordered(c, v, B, Q, us)
    BY <1>1, KinOrdered
  <1>4. Waits(c, v, R, B, Q, A)
    BY StartsWaits
  <1>5. Counted(c, v, R, B, T, us)
    BY StartsCounted
  <1>6. InOrder(c, v, R, B, T)
    BY StartsInOrder
  <1>7. Mapped(c, v, us, mp)
    <2>1. u[o].done # 0
      BY DEF Starts, Answered, Unset
    <2>2. \A x \in Objects : Main(u, x) => /\ u[x].done = 0 => v[x].done = 0
                                           /\ v[x].rdy => u[x].rdy \/ Clear(u, x)
      BY <2>1 DEF Starts
    <2> QED BY <1>1, <2>2, KinMapped
  <1> QED BY <1>2, <1>3, <1>4, <1>5, <1>6, <1>7

--------------------------------------------------------------------------------
\* The uop o goes from the allocation queue q to the scheduler.
Enters(u, v, o) ==
    /\ Kin(u, v) /\ o \in Objects /\ Main(u, o)
    /\ ~u[o].ins /\ ~u[o].issued /\ v[o].ins /\ v[o].issued = u[o].issued /\ v[o].q = u[o].q
    /\ v[o].done = u[o].done /\ v[o].rdy = u[o].rdy /\ v[o].pending = u[o].pending
    /\ v[o].childDone = u[o].childDone
    /\ \A x \in Objects : x # o => v[x] = u[x]
Taken(A, q, C) ==
    /\ q \in ToSet(Queues) /\ A[q][1] \in Seq(Nat \X Nat) /\ A[q][1] # <<>>
    /\ \A p \in ToSet(Queues) : C[p][1] = IF p = q THEN Tail(A[q][1]) ELSE A[p][1]

LEMMA EntersWaits ==
    ASSUME NEW c, NEW u, NEW v, NEW R, NEW B, NEW Q, NEW A, NEW C, NEW o, NEW q, Homes(c, u, B, Q), Rings(c, R, B),
           Waits(c, u, R, B, Q, A), Taken(A, q, C), Enters(u, v, o), o = Behind(R, Head(A[q][1]))
    PROVE  /\ Waits(c, v, R, B, Q, C)
           /\ Lives(c, R, B, Head(A[q][1])) /\ u[o].q = q /\ ~Occurs(o, Q)
  <1> DEFINE a == A[q][1]
             e == Head(a)
  <1>1. /\ q \in ToSet(Queues) /\ a \in Seq(Nat \X Nat) /\ a # <<>> /\ OnceEach(a) /\ C[q][1] = Tail(a)
        /\ \A p \in ToSet(Queues) : p # q => C[p][1] = A[p][1]
    BY DEF Taken, Waits
  <1>2. /\ OnceEach(Tail(a)) /\ Tail(a) \in Seq(Nat \X Nat) /\ Occurs(e, a)
        /\ \A x : Occurs(x, Tail(a)) <=> Occurs(x, a) /\ x # e
    <2> HIDE DEF a
    <2> QED BY <1>1, OneLess
  <1>3. \A x : x \in ToSet(a) <=> Occurs(x, a)
    <2> HIDE DEF a
    <2> QED BY <1>1, CountedOnce
  <1>4. \A x : x \in ToSet(Tail(a)) <=> Occurs(x, Tail(a))
    <2> HIDE DEF a
    <2> QED BY <1>2, CountedOnce
  <1>5. e \in ToSet(a) /\ Lives(c, R, B, e) /\ u[Behind(R, e)].q = q
    BY <1>1, <1>2, <1>3 DEF Waits
  <1>6. ~Occurs(o, Q)
    <2> HIDE DEF e
    <2>1. Behind(R, e) \in Objects /\ Occurs(Behind(R, e), B[e[1]])
      BY <1>5, LiveMain
    <2>2. e[1] \in RobsOf(c) /\ o = Behind(R, e)
      BY <1>5 DEF Lives, e
    <2> QED BY <2>1, <2>2 DEF Homes
  <1>7. \A x \in Objects : Occurs(x, Q) => ~v[x].ins /\ ~v[x].issued
    BY <1>6 DEF Enters, Waits
  <1>8. ASSUME NEW p \in ToSet(Queues), NEW d \in ToSet(C[p][1])
        PROVE  /\ Lives(c, R, B, d)
               /\ ~v[Behind(R, d)].ins /\ ~v[Behind(R, d)].issued /\ v[Behind(R, d)].q = p
    <2>1. d \in ToSet(A[p][1]) /\ (p = q => d # e)
      <3>1. CASE p = q
        <4>1. d \in ToSet(Tail(a))
          BY <1>1, <3>1
        <4>2. d \in ToSet(a) /\ d # e
          BY <1>2, <1>3, <1>4, <4>1
        <4> QED BY <3>1, <4>2
      <3>2. CASE p # q
        BY <1>1, <3>2
      <3> QED BY <3>1, <3>2
    <2>2. /\ Lives(c, R, B, d)
          /\ ~u[Behind(R, d)].ins /\ ~u[Behind(R, d)].issued /\ u[Behind(R, d)].q = p
      BY <2>1 DEF Waits
    <2>3. Behind(R, d) \in Objects
      BY <2>2, LiveMain
    <2>4. Behind(R, d) # o
      <3>1. CASE p = q
        BY <1>5, <2>1, <2>2, <3>1, OneEntry
      <3>2. CASE p # q
        BY <1>5, <2>2, <3>2
      <3> QED BY <3>1, <3>2
    <2> QED BY <2>2, <2>3, <2>4 DEF Enters
  <1>9. \A p \in ToSet(Queues) : OnceEach(C[p][1])
    <2> TAKE p \in ToSet(Queues)
    <2>1. CASE p = q
      BY <1>1, <1>2, <2>1
    <2>2. CASE p # q
      BY <1>1, <2>2 DEF Waits
    <2> QED BY <2>1, <2>2
  <1>10. Waits(c, v, R, B, Q, C)
    BY <1>7, <1>8, <1>9 DEF Waits
  <1> QED BY <1>5, <1>6, <1>10

LEMMA EntersScheduled ==
    ASSUME NEW c, c.list \in Nat \ {0}, NEW u, NEW v, NEW R, NEW B, NEW Q, NEW S, NEW T, NEW o, NEW e,
           Homes(c, u, B, Q), Rings(c, R, B), Scheduled(c, u, R, B, S), Enters(u, v, o),
           Lives(c, R, B, e), o = Behind(R, e), e # <<>>,
           S.list \in [0 .. c.list - 1 -> Nat \X Nat \cup {<<>>}],
           S.first \in 0 .. c.list - 1, S.last \in 0 .. c.list - 1, Wrap(S.last + 1, c.list) # S.first,
           T.list = [S.list EXCEPT ![S.last] = e], T.first = S.first, T.last = Wrap(S.last + 1, c.list)
    PROVE  Scheduled(c, v, R, B, T)
  <1> SUFFICES ASSUME c.kind # "io" PROVE Scheduled(c, v, R, B, T)
    BY DEF Scheduled
  <1> DEFINE l == S.last
  <1>1. /\ T.list[l] = e
        /\ \A k \in 0 .. c.list - 1 : k # l => T.list[k] = S.list[k]
    OBVIOUS
  <1>2. /\ ~Inside(l, S.first, l) /\ Inside(l, S.first, T.last)
        /\ \A i \in 0 .. c.list - 1 : Inside(i, S.first, l) => Inside(i, S.first, T.last)
    BY InsideGrows
  <1>3. S.list[l] = <<>>
    BY <1>2 DEF Scheduled
  <1>4. ASSUME NEW k \in 0 .. c.list - 1, T.list[k] # <<>>, k # l
        PROVE  /\ S.list[k] # <<>> /\ T.list[k] = S.list[k] /\ Inside(k, S.first, l)
               /\ Lives(c, R, B, S.list[k]) /\ u[Behind(R, S.list[k])].ins
               /\ Behind(R, S.list[k]) \in Objects /\ Behind(R, S.list[k]) # o
    <2>1. S.list[k] # <<>> /\ T.list[k] = S.list[k]
      BY <1>1, <1>4
    <2>2. /\ Inside(k, S.first, S.last) /\ Lives(c, R, B, S.list[k]) /\ u[Behind(R, S.list[k])].ins
      BY <2>1 DEF Scheduled
    <2>3. Behind(R, S.list[k]) \in Objects /\ Behind(R, S.list[k]) # o
      BY <2>2, LiveMain DEF Enters
    <2> QED BY <2>1, <2>2, <2>3
  <1>5. ASSUME NEW k \in 0 .. c.list - 1, T.list[k] # <<>>
        PROVE  /\ Inside(k, T.first, T.last)
               /\ Lives(c, R, B, T.list[k]) /\ v[Behind(R, T.list[k])].ins
    <2>1. CASE k = l
      BY <1>1, <1>2, <2>1 DEF Enters
    <2>2. CASE k # l
      BY <1>2, <1>4, <1>5, <2>2 DEF Enters
    <2> QED BY <2>1, <2>2
  <1>6. ASSUME NEW k \in 0 .. c.list - 1, NEW j \in 0 .. c.list - 1, T.list[k] # <<>>, T.list[k] = T.list[j]
        PROVE  k = j
    <2>1. CASE k = l /\ j # l
      BY <1>1, <1>4, <1>6, <2>1
    <2>2. CASE k # l /\ j = l
      BY <1>1, <1>4, <1>6, <2>2
    <2>3. CASE k # l /\ j # l
      <3>1. S.list[k] # <<>> /\ S.list[k] = S.list[j]
        BY <1>1, <1>6, <2>3
      <3> QED BY <3>1 DEF Scheduled
    <2> QED BY <2>1, <2>2, <2>3
  <1>7. ASSUME NEW x \in Objects, Main(v, x), v[x].ins
        PROVE  \E k \in 0 .. c.list - 1 : T.list[k] # <<>> /\ Behind(R, T.list[k]) = x
    <2>1. CASE x = o
      BY <1>1, <2>1
    <2>2. CASE x # o
      <3>1. Main(u, x) /\ u[x].ins
        BY <1>7, <2>2, KinMain DEF Enters
      <3>2. PICK k \in 0 .. c.list - 1 : S.list[k] # <<>> /\ Behind(R, S.list[k]) = x
        BY <3>1 DEF Scheduled
      <3>3. k # l /\ T.list[k] = S.list[k]
        BY <1>1, <1>3, <3>2
      <3> QED BY <3>2, <3>3
    <2> QED BY <2>1, <2>2
  <1> QED BY <1>5, <1>6, <1>7 DEF Scheduled

LEMMA EntersCounted ==
    ASSUME NEW c, NEW u, NEW v, NEW R, NEW B, NEW Q, NEW S, NEW T, NEW ts, NEW o, Homes(c, u, B, Q),
           Enters(u, v, o), Counted(c, u, R, B, S, ts), u[o].q \in ToSet(Queues), S.per \in [ToSet(Queues) -> Int],
           T.num = S.num + 1, T.per = [S.per EXCEPT ![u[o].q] = @ + 1]
    PROVE  Counted(c, v, R, B, T, ts)
  <1> USE DEF Enters
  <1>1. \A x : x \in InSched(v) <=> x \in InSched(u) \/ x = o
    BY KinMain DEF InSched
  <1>2. \A q : q # u[o].q => InSchedOf(v, q) = InSchedOf(u, q)
    BY KinMain DEF InSchedOf
  <1>3. \A x : x \in InSchedOf(v, u[o].q) <=> x \in InSchedOf(u, u[o].q) \/ x = o
    BY KinMain DEF InSchedOf
  <1>4. \A t : ToDispatch(v, t) = ToDispatch(u, t)
    BY KinMain DEF ToDispatch
  <1>5. o \notin InSched(u) /\ o \notin InSchedOf(u, u[o].q)
    BY DEF InSched, InSchedOf
  <1>6. IsFiniteSet(InSched(u)) /\ IsFiniteSet(InSchedOf(u, u[o].q))
    <2>1. InSched(u) \in SUBSET Objects /\ InSchedOf(u, u[o].q) \in SUBSET Objects
      BY DEF InSched, InSchedOf
    <2> QED BY <2>1, CountsFinite
  <1>7. \A r \in RobsOf(c), k \in Resources : Holding(c, v, B[r], k) = Holding(c, u, B[r], k)
    <2> TAKE r \in RobsOf(c), k \in Resources
    <2>1. \A x \in Objects : Occurs(x, B[r]) => KindOf(c, v, x) = KindOf(c, u, x)
      BY KinMain DEF Homes, KindOf
    <2> QED BY <2>1 DEF Holding
  <1>8. T.num = Cardinality(InSched(v))
    <2>1. Cardinality(InSched(v)) = Cardinality(InSched(u)) + 1
      BY <1>1, <1>5, <1>6, CountMore
    <2> QED BY <2>1 DEF Counted
  <1>9. \A q \in ToSet(Queues) : T.per[q] = Cardinality(InSchedOf(v, q))
    <2> TAKE q \in ToSet(Queues)
    <2>1. CASE q = u[o].q
      <3>1. Cardinality(InSchedOf(v, u[o].q)) = Cardinality(InSchedOf(u, u[o].q)) + 1
        BY <1>3, <1>5, <1>6, CountMore
      <3>2. T.per[q] = S.per[q] + 1
        BY <2>1
      <3> QED BY <2>1, <3>1, <3>2 DEF Counted
    <2>2. CASE q # u[o].q
      <3>1. InSchedOf(v, q) = InSchedOf(u, q)
        BY <1>2, <2>2
      <3> QED BY <2>2, <3>1 DEF Counted
    <2> QED BY <2>1, <2>2
  <1> QED BY <1>4, <1>7, <1>8, <1>9 DEF Counted

LEMMA EntersWhole ==
    ASSUME NEW c, c.list \in Nat \ {0}, NEW u, NEW v, NEW R, NEW B, NEW Q, NEW A, NEW C, NEW S, NEW T, NEW ts,
           NEW mp, NEW M, NEW P, NEW o, NEW q, Whole(c, u, R, B, Q, A, S, ts, mp, M, P), 0 \in RobsOf(c),
           Taken(A, q, C), Enters(u, v, o), o = Behind(R, Head(A[q][1])), Head(A[q][1]) # <<>>,
           S.list \in [0 .. c.list - 1 -> Nat \X Nat \cup {<<>>}], S.per \in [ToSet(Queues) -> Int],
           S.first \in 0 .. c.list - 1, S.last \in 0 .. c.list - 1, Wrap(S.last + 1, c.list) # S.first,
           T.list = [S.list EXCEPT ![S.last] = Head(A[q][1])], T.first = S.first,
           T.last = Wrap(S.last + 1, c.list), T.next = S.next,
           T.num = S.num + 1, T.per = [S.per EXCEPT ![q] = @ + 1]
    PROVE  Whole(c, v, R, B, Q, C, T, ts, mp, M, P)
  <1> USE DEF Whole
  <1>1. Kin(u, v)
    BY DEF Enters
  <1>2. Homes(c, v, B, Q) /\ Owned(v, P)
    BY <1>1, KinHomes, KinOwned
  <1>3. Ordered(c, v, B, Q, ts)
    BY <1>1, KinOrdered
  <1>4. Waits(c, v, R, B, Q, C) /\ Lives(c, R, B, Head(A[q][1])) /\ u[o].q = q
    <2>1. Homes(c, u, B, Q) /\ Rings(c, R, B) /\ Waits(c, u, R, B, Q, A)
      OBVIOUS
    <2> QED BY ONLY <2>1, Taken(A, q, C), Enters(u, v, o), o = Behind(R, Head(A[q][1])), EntersWaits
  <1>5. Scheduled(c, v, R, B, T)
    <2> DEFINE e == Head(A[q][1])
    <2>1. Lives(c, R, B, e) /\ o = Behind(R, e) /\ e # <<>> /\ T.list = [S.list EXCEPT ![S.last] = e]
      BY <1>4
    <2> HIDE DEF e
    <2> QED BY <2>1, EntersScheduled
  <1>6. Counted(c, v, R, B, T, ts)
    BY <1>4, EntersCounted DEF Taken
  <1>7. InOrder(c, v, R, B, T)
    <2> SUFFICES ASSUME c.kind = "io" PROVE InOrder(c, v, R, B, T)
      BY DEF InOrder
    <2>1. PICK j \in 0 .. Len(B[0]) : /\ S.next = SlotOf(R[0].first, j + 1, 2 * c.rob)
                                      /\ \A i \in 1 .. Len(B[0]) : u[B[0][i]].issued <=> i <= j
      BY DEF InOrder
    <2>2. \A i \in 1 .. Len(B[0]) : B[0][i] \in Objects
      BY ElementOfSeq DEF Homes
    <2>3. \A i \in 1 .. Len(B[0]) : v[B[0][i]].issued <=> i <= j
      <3>1. \A x \in Objects : v[x].issued = u[x].issued
        BY DEF Enters
      <3> TAKE i \in 1 .. Len(B[0])
      <3>2. v[B[0][i]].issued = u[B[0][i]].issued
        BY <2>2, <3>1
      <3> QED BY <2>1, <3>2
    <2> QED BY <2>1, <2>3 DEF InOrder
  <1>8. Mapped(c, v, ts, mp)
    BY <1>1, KinMapped DEF Enters
  <1>9. Answered(v, M)
    <2>1. IsFiniteSet(M)
      BY DEF Answered
    <2>2. ASSUME NEW k \in M
          PROVE  /\ k = [o |-> k.o, child |-> k.child] /\ k.o \in Objects /\ Main(v, k.o)
                 /\ v[k.o].children = <<>> => k.child = 0
                 /\ v[k.o].children # <<>> => k.child \in 1 .. Len(v[k.o].children) /\ k.child \notin v[k.o].pending
      <3>1. k.o \in Objects /\ Main(u, k.o)
        BY DEF Answered
      <3>2. Main(v, k.o) /\ v[k.o].children = u[k.o].children /\ v[k.o].pending = u[k.o].pending
        BY <1>1, <3>1, KinMain DEF Enters
      <3> QED BY <3>1, <3>2 DEF Answered
    <2>3. \A x \in Objects : v[x].ins => Main(v, x)
      <3> TAKE x \in Objects
      <3>1. Main(v, x) <=> Main(u, x)
        BY <1>1, KinMain
      <3>2. u[x].ins => Main(u, x)
        BY DEF Answered
      <3>3. x = o \/ v[x] = u[x]
        BY DEF Enters
      <3>4. Main(u, o)
        BY DEF Enters
      <3> QED BY <3>1, <3>2, <3>3, <3>4
    <2>4. ASSUME NEW x \in Objects, Main(v, x)
          PROVE  /\ v[x].ins => ~v[x].issued
                 /\ v[x].done # Unset => v[x].issued /\ Owed(M, x) = {}
                 /\ v[x].pending \subseteq 1 .. Len(v[x].children)
                 /\ v[x].issued => v[x].pending = {}
                 /\ ~v[x].issued /\ v[x].children # <<>> => v[x].pending # {}
                 /\ ~v[x].issued /\ v[x].children = <<>> => Owed(M, x) = {}
                 /\ v[x].children # <<>> =>
                      v[x].childDone + Cardinality(Owed(M, x)) + Cardinality(v[x].pending) = Len(v[x].children)
      <3>1. Main(u, x) /\ v[x].children = u[x].children
        BY <1>1, <2>4, KinMain
      <3>2. v[x].issued = u[x].issued /\ v[x].done = u[x].done /\ v[x].pending = u[x].pending
            /\ v[x].childDone = u[x].childDone /\ (x # o => v[x].ins = u[x].ins)
        BY DEF Enters
      <3>3. v[x].ins => ~v[x].issued
        BY <3>1, <3>2 DEF Answered, Enters
      <3> QED BY <3>1, <3>2, <3>3 DEF Answered
    <2> QED BY <2>1, <2>2, <2>3, <2>4 DEF Answered
  <1> QED BY <1>2, <1>3, <1>4, <1>5, <1>6, <1>7, <1>8, <1>9

--------------------------------------------------------------------------------
\* The oldest uop of the reorder buffer r is retired: it and its children are freed.
Drops(u, v, o) ==
    /\ o \in Objects /\ Main(u, o) /\ u[o].done = 0
    /\ \A x \in Objects : IF x = o \/ Occurs(x, u[o].children) THEN ~v[x].valid /\ v[x].ins = u[x].ins
                          ELSE v[x] = u[x]
Pops(c, R, W, B, C, r) ==
    /\ r \in RobsOf(c) /\ B[r] # <<>> /\ C[r] = Tail(B[r])
    /\ W[r].slot = R[r].slot /\ W[r].last = R[r].last /\ W[r].first = Wrap(R[r].first + 1, 2 * c.rob)
    /\ \A p \in RobsOf(c) : p # r => W[p] = R[p] /\ C[p] = B[p]

LEMMA DropsMain ==
    ASSUME NEW u, NEW v, NEW o, NEW P, Owned(u, P), Drops(u, v, o)
    PROVE  \A x \in Objects : /\ Main(v, x) <=> Main(u, x) /\ x # o
                              /\ Main(v, x) => v[x] = u[x]
  <1> TAKE x \in Objects
  <1>1. CASE x = o
    BY <1>1 DEF Drops, Main
  <1>2. CASE x # o /\ Occurs(x, u[o].children)
    <2>1. u[x].at = 0 /\ ~v[x].valid
      BY <1>2 DEF Drops, Owned
    <2> QED BY <2>1 DEF Main
  <1>3. CASE x # o /\ ~Occurs(x, u[o].children)
    <2>1. v[x] = u[x]
      BY <1>3 DEF Drops
    <2> QED BY <1>3, <2>1 DEF Main
  <1> QED BY <1>1, <1>2, <1>3

LEMMA PopsRings ==
    ASSUME NEW c, NEW R, NEW W, NEW B, NEW C, NEW r, Rings(c, R, B), Pops(c, R, W, B, C, r)
    PROVE  /\ Rings(c, W, C)
           /\ \A e : Lives(c, R, B, e) /\ Behind(R, e) # B[r][1] =>
                Lives(c, W, C, e) /\ Behind(W, e) = Behind(R, e)
  <1> DEFINE m == 2 * c.rob
  <1>1. /\ r \in RobsOf(c) /\ B[r] # <<>> /\ C[r] = Tail(B[r])
        /\ W[r].slot = R[r].slot /\ W[r].last = R[r].last /\ W[r].first = Wrap(R[r].first + 1, m)
        /\ \A p \in RobsOf(c) : p # r => W[p] = R[p] /\ C[p] = B[p]
    BY DEF Pops
  <1>2. Circular(0 .. NumObjects, m, R[r].slot, R[r].first, R[r].last, B[r])
    BY <1>1 DEF Rings
  <1> HIDE DEF m
  <1>3. /\ Circular(0 .. NumObjects, m, R[r].slot, Wrap(R[r].first + 1, m), R[r].last, Tail(B[r]))
        /\ \A j \in 1 .. Len(B[r]) : SlotOf(Wrap(R[r].first + 1, m), j, m) = SlotOf(R[r].first, j + 1, m)
    BY <1>1, <1>2, RingPop
  <1>4. Rings(c, W, C)
    <2> SUFFICES ASSUME NEW p \in RobsOf(c)
                 PROVE  Circular(0 .. NumObjects, m, W[p].slot, W[p].first, W[p].last, C[p])
      BY DEF Rings, m
    <2>1. CASE p = r
      BY <1>1, <1>3, <2>1
    <2>2. CASE p # r
      BY <1>1, <2>2 DEF Rings, m
    <2> QED BY <2>1, <2>2
  <1>5. ASSUME NEW e, Lives(c, R, B, e), Behind(R, e) # B[r][1]
        PROVE  Lives(c, W, C, e) /\ Behind(W, e) = Behind(R, e)
    <2>1. PICK j \in 1 .. Len(B[e[1]]) : e = <<e[1], SlotOf(R[e[1]].first, j, m)>>
      BY <1>5 DEF Lives, m
    <2>2. e[1] \in RobsOf(c)
      BY <1>5 DEF Lives
    <2>3. CASE e[1] # r
      BY <1>1, <1>5, <2>2, <2>3 DEF Lives, Behind
    <2>4. CASE e[1] = r
      <3>1. e = <<r, SlotOf(R[r].first, j, m)>> /\ j \in 1 .. Len(B[r])
        BY <2>1, <2>4
      <3>2. Behind(W, e) = Behind(R, e)
        BY <1>1, <2>4 DEF Behind
      <3>3. B[r] \in Seq(0 .. NumObjects) /\ Len(B[r]) \in Nat /\ B[r][j] = R[r].slot[SlotOf(R[r].first, j, m)]
        BY <1>2, <3>1, RingHolds
      <3>4. Behind(R, e) = B[r][j]
        BY <3>1, <3>3 DEF Behind
      <3>5. j # 1
        BY <1>5, <3>4
      <3>6. Len(C[r]) = Len(B[r]) - 1
        BY <1>1, <3>3, OneLess
      <3>7. j - 1 \in 1 .. Len(C[r]) /\ j - 1 \in 1 .. Len(B[r])
        BY <3>1, <3>3, <3>5, <3>6
      <3>8. SlotOf(W[r].first, j - 1, m) = SlotOf(R[r].first, j, m)
        <4>1. SlotOf(Wrap(R[r].first + 1, m), j - 1, m) = SlotOf(R[r].first, (j - 1) + 1, m)
          BY <1>3, <3>7
        <4>2. (j - 1) + 1 = j
          BY <3>1, <3>3
        <4> QED BY <1>1, <4>1, <4>2
      <3>9. e = <<r, SlotOf(W[r].first, j - 1, m)>>
        BY <3>1, <3>8
      <3>10. \E k \in 1 .. Len(C[e[1]]) : e = <<e[1], SlotOf(W[e[1]].first, k, m)>>
        BY <2>4, <3>7, <3>9
      <3> QED BY <2>2, <3>2, <3>10 DEF Lives, m
    <2> QED BY <2>3, <2>4
  <1> QED BY <1>4, <1>5

\* The uop that is retired is the one after the last retired uop of its thread.
LEMMA NextRetired ==
    ASSUME NEW c, NEW u, NEW B, NEW Q, NEW ts, NEW r \in RobsOf(c), Homes(c, u, B, Q), Ordered(c, u, B, Q, ts),
           B[r] # <<>>, NEW o, o = B[r][1]
    PROVE  /\ o \in Objects /\ Main(u, o) /\ r = RobFor(c, u[o].tid) /\ u[o].tid \in TidsOf(c)
           /\ u[o].at = ts[u[o].tid].retired + 1
  <1> DEFINE t == u[o].tid
             b == B[r]
  <1>1. b \in Seq(Objects) /\ OnceEach(b) /\ Len(b) \in Nat /\ 1 \in 1 .. Len(b)
    BY LenProperties DEF Homes
  <1>2. o \in Objects /\ Occurs(o, b)
    BY <1>1, ElementOfSeq DEF Occurs
  <1>3. Main(u, o) /\ r = RobFor(c, t) /\ ~Occurs(o, Q) /\ t \in TidsOf(c)
    BY <1>2 DEF Homes
  <1>4. ts[t].retired \in Nat /\ ts[t].next \in Nat /\ ts[t].retired < u[o].at /\ u[o].at < ts[t].next
        /\ u[o].at \in Nat
    <2>1. u[o].at \in 1 .. Len(c.prog[t + 1])
      BY <1>2, <1>3 DEF Homes
    <2>2. u[o].at \in Int
      BY <2>1
    <2>3. ts[t].retired < u[o].at /\ u[o].at < ts[t].next
      BY <1>2, <1>3 DEF Ordered
    <2>4. ts[t].retired \in Nat /\ ts[t].next \in Nat
      BY <1>3 DEF Ordered
    <2> QED BY <2>2, <2>3, <2>4
  <1>5. ts[t].retired + 1 \in ts[t].retired + 1 .. ts[t].next - 1
    BY <1>4
  <1>6. PICK p \in Objects : Main(u, p) /\ u[p].tid = t /\ u[p].at = ts[t].retired + 1
    <2>1. \A a \in ts[t].retired + 1 .. ts[t].next - 1 : \E p \in Objects : Main(u, p) /\ u[p].tid = t /\ u[p].at = a
      BY <1>3 DEF Ordered
    <2> QED BY <1>5, <2>1
  <1>7. ~Occurs(p, Q)
    <2> SUFFICES ASSUME Occurs(p, Q) PROVE FALSE
      OBVIOUS
    <2>1. u[o].at < u[p].at
      BY <1>2, <1>6 DEF Ordered
    <2> QED BY <1>4, <1>6, <2>1
  <1>8. Occurs(p, b)
    BY <1>3, <1>6, <1>7 DEF Homes
  <1>9. PICK i \in 1 .. Len(b) : b[i] = p
    BY <1>8 DEF Occurs
  <1>10. i = 1
    <2> SUFFICES ASSUME i # 1 PROVE FALSE
      OBVIOUS
    <2>1. 1 < i
      BY <1>1
    <2>2. u[o].at < u[p].at
      BY <1>1, <1>6, <1>9, <2>1 DEF Ordered, Sorted
    <2> QED BY <1>4, <1>6, <2>2
  <1> QED BY <1>2, <1>3, <1>6, <1>9, <1>10

LEMMA PopsOccurs ==
    ASSUME NEW c, NEW u, NEW B, NEW C, NEW Q, NEW R, NEW W, NEW r, NEW o, Homes(c, u, B, Q), Pops(c, R, W, B, C, r),
           o = B[r][1]
    PROVE  /\ o \in Objects /\ Main(u, o) /\ ~Occurs(o, Q) /\ Occurs(o, B[r])
           /\ \A p \in RobsOf(c) : /\ C[p] \in Seq(Objects) /\ OnceEach(C[p])
                                   /\ \A x \in Objects : Occurs(x, C[p]) <=> Occurs(x, B[p]) /\ x # o
  <1>1. /\ r \in RobsOf(c) /\ B[r] # <<>> /\ C[r] = Tail(B[r])
        /\ \A p \in RobsOf(c) : p # r => C[p] = B[p]
    BY DEF Pops
  <1>2. B[r] \in Seq(Objects) /\ OnceEach(B[r]) /\ o = Head(B[r])
    BY <1>1 DEF Homes
  <1>3. /\ Tail(B[r]) \in Seq(Objects) /\ OnceEach(Tail(B[r])) /\ o \in Objects /\ Occurs(o, B[r])
        /\ \A x : Occurs(x, Tail(B[r])) <=> Occurs(x, B[r]) /\ x # o
    <2> DEFINE b == B[r]
    <2>1. b \in Seq(Objects) /\ OnceEach(b) /\ o = Head(b) /\ b # <<>>
      BY <1>1, <1>2
    <2> HIDE DEF b
    <2>2. /\ Tail(b) \in Seq(Objects) /\ OnceEach(Tail(b)) /\ o \in Objects /\ Occurs(o, b)
          /\ \A x : Occurs(x, Tail(b)) <=> Occurs(x, b) /\ x # o
      BY <2>1, OneLess
    <2> QED BY <2>2 DEF b
  <1>4. Main(u, o) /\ ~Occurs(o, Q) /\ r = RobFor(c, u[o].tid)
    BY <1>1, <1>3 DEF Homes
  <1>5. ASSUME NEW p \in RobsOf(c)
        PROVE  /\ C[p] \in Seq(Objects) /\ OnceEach(C[p])
               /\ \A x \in Objects : Occurs(x, C[p]) <=> Occurs(x, B[p]) /\ x # o
    <2>1. CASE p = r
      BY <1>1, <1>3, <2>1
    <2>2. CASE p # r
      <3>1. C[p] = B[p] /\ B[p] \in Seq(Objects) /\ OnceEach(B[p])
        BY <1>1, <2>2 DEF Homes
      <3>2. ~Occurs(o, B[p])
        BY <1>3, <1>4, <2>2 DEF Homes
      <3> QED BY <3>1, <3>2
    <2> QED BY <2>1, <2>2
  <1> QED BY <1>3, <1>4, <1>5

LEMMA DropsHomes ==
    ASSUME NEW c, NEW u, NEW v, NEW B, NEW C, NEW Q, NEW R, NEW W, NEW P, NEW r, NEW o, Homes(c, u, B, Q),
           Owned(u, P), Drops(u, v, o), Pops(c, R, W, B, C, r), o = B[r][1]
    PROVE  Homes(c, v, C, Q)
  <1>1. \A x \in Objects : /\ Main(v, x) <=> Main(u, x) /\ x # o
                           /\ Main(v, x) => v[x] = u[x]
    BY DropsMain
  <1>2. /\ ~Occurs(o, Q)
        /\ \A p \in RobsOf(c) : /\ C[p] \in Seq(Objects) /\ OnceEach(C[p])
                                /\ \A x \in Objects : Occurs(x, C[p]) <=> Occurs(x, B[p]) /\ x # o
    BY PopsOccurs
  <1>3. \A x \in Objects : Main(v, x) =>
         /\ v[x].tid \in TidsOf(c) /\ v[x].at \in 1 .. Len(c.prog[v[x].tid + 1])
         /\ v[x].children # <<>> => KindOf(c, v, x) \in {"ld", "st"}
    BY <1>1 DEF Homes, KindOf
  <1>4. \A p \in RobsOf(c), x \in Objects : Occurs(x, C[p]) =>
         Main(v, x) /\ p = RobFor(c, v[x].tid) /\ ~Occurs(x, Q)
    BY <1>1, <1>2 DEF Homes
  <1>5. Q \in Seq(Objects) /\ OnceEach(Q) /\ \A x \in Objects : Occurs(x, Q) => Main(v, x)
    BY <1>1, <1>2 DEF Homes
  <1>6. ASSUME NEW x \in Objects, Main(v, x) PROVE Occurs(x, Q) \/ Occurs(x, C[RobFor(c, v[x].tid)])
    <2>1. Main(u, x) /\ x # o /\ v[x].tid = u[x].tid /\ v[x].tid \in TidsOf(c)
      BY <1>1, <1>3, <1>6
    <2>2. RobFor(c, u[x].tid) \in RobsOf(c)
      BY <2>1 DEF RobsOf
    <2>3. Occurs(x, Q) \/ Occurs(x, B[RobFor(c, u[x].tid)])
      BY <2>1 DEF Homes
    <2> QED BY <1>2, <2>1, <2>2, <2>3
  <1> QED BY <1>2, <1>3, <1>4, <1>5, <1>6 DEF Homes

\* The tail of a list in the order of the program.
LEMMA TailSorted ==
    ASSUME NEW u, NEW s \in Seq(Objects), s # <<>>, Sorted(u, s)
    PROVE  Sorted(u, Tail(s))
  <1>1. Len(Tail(s)) = Len(s) - 1 /\ Len(s) \in Nat /\ \A i \in 1 .. Len(s) - 1 : Tail(s)[i] = s[i + 1]
    BY HeadTailProperties, LenProperties
  <1> SUFFICES ASSUME NEW i \in 1 .. Len(s) - 1, NEW j \in 1 .. Len(s) - 1, i < j,
                      u[s[i + 1]].tid = u[s[j + 1]].tid
               PROVE  u[s[i + 1]].at < u[s[j + 1]].at
    BY <1>1 DEF Sorted
  <1>2. i + 1 \in 1 .. Len(s) /\ j + 1 \in 1 .. Len(s) /\ i + 1 < j + 1
    BY <1>1
  <1> QED BY <1>2 DEF Sorted

LEMMA SameSorted ==
    ASSUME NEW u, NEW v, NEW s \in Seq(Objects),
           \A x \in Objects : Occurs(x, s) => v[x].tid = u[x].tid /\ v[x].at = u[x].at, Sorted(u, s)
    PROVE  Sorted(v, s)
  <1>1. \A i \in 1 .. Len(s) : v[s[i]].tid = u[s[i]].tid /\ v[s[i]].at = u[s[i]].at
    BY ElementOfSeq DEF Occurs
  <1> QED BY <1>1 DEF Sorted

LEMMA DropsOrdered ==
    ASSUME NEW c, NEW u, NEW v, NEW B, NEW C, NEW Q, NEW R, NEW W, NEW P, NEW r, NEW o, NEW ts, NEW us,
           Homes(c, u, B, Q), Owned(u, P), Drops(u, v, o), Pops(c, R, W, B, C, r), o = B[r][1],
           Ordered(c, u, B, Q, ts),
           \A t \in TidsOf(c) : /\ us[t].next = ts[t].next
                                /\ us[t].retired = IF t = u[o].tid THEN ts[t].retired + 1 ELSE ts[t].retired
    PROVE  Ordered(c, v, C, Q, us)
  <1> DEFINE t0 == u[o].tid
  <1>1. \A x \in Objects : /\ Main(v, x) <=> Main(u, x) /\ x # o
                           /\ Main(v, x) => v[x] = u[x]
    BY DropsMain
  <1>2. /\ ~Occurs(o, Q) /\ Occurs(o, B[r])
        /\ \A p \in RobsOf(c) : /\ C[p] \in Seq(Objects) /\ OnceEach(C[p])
                                /\ \A x \in Objects : Occurs(x, C[p]) <=> Occurs(x, B[p]) /\ x # o
    BY PopsOccurs
  <1>3. /\ o \in Objects /\ Main(u, o) /\ r = RobFor(c, u[o].tid) /\ t0 \in TidsOf(c)
        /\ u[o].at = ts[t0].retired + 1
    BY NextRetired DEF Pops
  <1>4. \A t \in TidsOf(c) : ts[t].retired \in Nat /\ ts[t].next \in Nat /\ ts[t].retired < ts[t].next
                             /\ ts[t].next <= Len(c.prog[t + 1]) + 1
    BY DEF Ordered
  <1>5. u[o].at < ts[t0].next
    BY <1>3 DEF Ordered
  <1>6. \A t \in TidsOf(c) : us[t].retired \in Nat /\ us[t].next \in Nat /\ us[t].retired < us[t].next
                             /\ us[t].next <= Len(c.prog[t + 1]) + 1
    <2> TAKE t \in TidsOf(c)
    <2>1. us[t].next = ts[t].next
          /\ us[t].retired = IF t = t0 THEN ts[t].retired + 1 ELSE ts[t].retired
      OBVIOUS
    <2>2. /\ ts[t].retired \in Nat /\ ts[t].next \in Nat /\ ts[t].retired < ts[t].next
          /\ ts[t].next <= Len(c.prog[t + 1]) + 1
      BY <1>4
    <2>3. t = t0 => ts[t].retired + 1 < ts[t].next
      BY <1>3, <1>5
    <2> QED BY ONLY <2>1, <2>2, <2>3
  <1>7. ASSUME NEW x \in Objects, Main(v, x)
        PROVE  us[v[x].tid].retired < v[x].at /\ v[x].at < us[v[x].tid].next
    <2>1. Main(u, x) /\ x # o /\ v[x] = u[x] /\ u[x].tid \in TidsOf(c)
      BY <1>1, <1>7 DEF Homes
    <2>2. ts[u[x].tid].retired < u[x].at /\ u[x].at < ts[u[x].tid].next
      BY <2>1 DEF Ordered
    <2>3. u[x].tid = t0 => u[x].at # u[o].at
      BY <1>3, <2>1 DEF Ordered
    <2>4. u[x].at \in Int
      <3>1. u[x].at \in 1 .. Len(c.prog[u[x].tid + 1])
        BY <2>1 DEF Homes
      <3> QED BY <3>1
    <2>5. us[u[x].tid].retired < u[x].at
      <3>1. CASE u[x].tid = t0
        <4>1. us[t0].retired = ts[t0].retired + 1 /\ ts[t0].retired \in Nat
          BY <1>3, <1>4
        <4>2. ts[t0].retired < u[x].at /\ u[x].at # ts[t0].retired + 1
          BY <1>3, <2>2, <2>3, <3>1
        <4>3. us[t0].retired < u[x].at
          BY ONLY <2>4, <4>1, <4>2
        <4> QED BY <3>1, <4>3
      <3>2. CASE u[x].tid # t0
        BY <2>1, <2>2, <3>2
      <3> QED BY <3>1, <3>2
    <2> QED BY <2>1, <2>2, <2>5
  <1>8. \A x, y \in Objects :
         Main(v, x) /\ Main(v, y) /\ v[x].tid = v[y].tid /\ v[x].at = v[y].at => x = y
    BY <1>1 DEF Ordered
  <1>9. ASSUME NEW t \in TidsOf(c), NEW a \in us[t].retired + 1 .. us[t].next - 1
        PROVE  \E x \in Objects : Main(v, x) /\ v[x].tid = t /\ v[x].at = a
    <2>1. a \in ts[t].retired + 1 .. ts[t].next - 1 /\ (t = t0 => a # ts[t].retired + 1)
      <3>1. us[t].next = ts[t].next
            /\ us[t].retired = IF t = t0 THEN ts[t].retired + 1 ELSE ts[t].retired
        OBVIOUS
      <3>2. ts[t].retired \in Nat /\ ts[t].next \in Nat
        BY <1>4
      <3>3. a \in us[t].retired + 1 .. us[t].next - 1
        OBVIOUS
      <3> HIDE DEF t0
      <3> QED BY ONLY <3>1, <3>2, <3>3
    <2>2. PICK x \in Objects : Main(u, x) /\ u[x].tid = t /\ u[x].at = a
      BY <2>1 DEF Ordered
    <2>3. x # o
      BY <1>3, <2>1, <2>2
    <2> QED BY <1>1, <2>2, <2>3
  <1>10. ASSUME NEW p \in RobsOf(c) PROVE Sorted(v, C[p])
    <2>1. Sorted(u, C[p])
      <3>1. CASE p = r
        <4>1. B[r] \in Seq(Objects) /\ B[r] # <<>> /\ Sorted(u, B[r]) /\ C[r] = Tail(B[r])
          BY <3>1 DEF Homes, Ordered, Pops
        <4> QED BY <3>1, <4>1, TailSorted
      <3>2. CASE p # r
        BY <3>2 DEF Ordered, Pops
      <3> QED BY <3>1, <3>2
    <2>2. \A x \in Objects : Occurs(x, C[p]) => v[x].tid = u[x].tid /\ v[x].at = u[x].at
      BY <1>1, <1>2 DEF Homes
    <2> QED BY <1>2, <2>1, <2>2, SameSorted
  <1>11. Sorted(v, Q)
    <2>1. Q \in Seq(Objects) /\ Sorted(u, Q)
      BY DEF Homes, Ordered
    <2>2. \A x \in Objects : Occurs(x, Q) => v[x].tid = u[x].tid /\ v[x].at = u[x].at
      BY <1>1, <1>2 DEF Homes
    <2> QED BY <2>1, <2>2, SameSorted
  <1>12. ASSUME NEW p \in RobsOf(c), NEW x \in Objects, NEW y \in Objects, Occurs(x, C[p]), Occurs(y, Q),
                v[x].tid = v[y].tid
         PROVE  v[x].at < v[y].at
    <2>1. Occurs(x, B[p]) /\ x # o /\ y # o
      BY <1>2, <1>12
    <2>2. v[x] = u[x] /\ v[y] = u[y]
      BY <1>1, <1>12, <2>1 DEF Homes
    <2> QED BY <1>12, <2>1, <2>2 DEF Ordered
  <1> QED BY <1>6, <1>7, <1>8, <1>9, <1>10, <1>11, <1>12 DEF Ordered

LEMMA DropsOwned ==
    ASSUME NEW u, NEW v, NEW P, NEW o, Owned(u, P), Drops(u, v, o)
    PROVE  Owned(v, <<o>> \o Reverse(u[o].children) \o P)
  <1> DEFINE k == u[o].children
             a == <<o>>
             b == Reverse(k)
             d == a \o b
             N == d \o P
  <1>1. \A x \in Objects : /\ Main(v, x) <=> Main(u, x) /\ x # o
                           /\ Main(v, x) => v[x] = u[x]
    BY DropsMain
  <1>2. /\ o \in Objects /\ Main(u, o) /\ k \in Seq(Objects) /\ OnceEach(k)
        /\ \A x \in Objects : Occurs(x, k) => u[x].valid /\ u[x].at = 0
        /\ P \in Seq(Objects) /\ OnceEach(P) /\ \A x \in Objects : Occurs(x, P) => ~u[x].valid
    BY DEF Owned, Drops
  <1>3. \A x : (Occurs(x, k) \/ Occurs(x, P)) => x \in Objects
    <2> HIDE DEF k
    <2> QED BY <1>2, ElementOfSeq DEF Occurs
  <1>4. a \in Seq(Objects) /\ OnceEach(a) /\ \A x : Occurs(x, a) <=> x = o
    BY <1>2 DEF OnceEach, Occurs
  <1>5. b \in Seq(Objects) /\ OnceEach(b) /\ \A x : Occurs(x, b) <=> Occurs(x, k)
    <2> HIDE DEF k
    <2> QED BY <1>2, Reversed
  <1>6. ~Occurs(o, k) /\ ~Occurs(o, P) /\ \A x : ~(Occurs(x, k) /\ Occurs(x, P))
    BY <1>2, <1>3 DEF Main
  <1>7. d \in Seq(Objects) /\ OnceEach(d) /\ \A x : Occurs(x, d) <=> x = o \/ Occurs(x, k)
    <2> HIDE DEF a, b, k
    <2>1. \A x : ~(Occurs(x, a) /\ Occurs(x, b))
      BY <1>4, <1>5, <1>6
    <2>2. d \in Seq(Objects) /\ OnceEach(d) /\ \A x : Occurs(x, d) <=> Occurs(x, a) \/ Occurs(x, b)
      BY <1>4, <1>5, <2>1, Joined
    <2> QED BY <1>4, <1>5, <2>2
  <1>8. N \in Seq(Objects) /\ OnceEach(N) /\ \A x : Occurs(x, N) <=> x = o \/ Occurs(x, k) \/ Occurs(x, P)
    <2> HIDE DEF d, k
    <2>1. \A x : ~(Occurs(x, d) /\ Occurs(x, P))
      BY <1>6, <1>7
    <2>2. N \in Seq(Objects) /\ OnceEach(N) /\ \A x : Occurs(x, N) <=> Occurs(x, d) \/ Occurs(x, P)
      BY <1>2, <1>7, <2>1, Joined
    <2> QED BY <1>7, <2>2
  <1>9. \A x \in Objects : IF x = o \/ Occurs(x, k) THEN ~v[x].valid ELSE v[x] = u[x]
    BY DEF Drops
  <1>10. N = <<o>> \o Reverse(u[o].children) \o P
    OBVIOUS
  <1> HIDE DEF N, d, b, a
  <1>11. \A x \in Objects : Occurs(x, N) => ~v[x].valid
    BY <1>2, <1>8, <1>9
  <1>12. ASSUME NEW p \in Objects, Main(v, p)
         PROVE  /\ v[p].children \in Seq(Objects) /\ OnceEach(v[p].children)
                /\ \A x \in Objects : Occurs(x, v[p].children) => v[x].valid /\ v[x].at = 0
    <2>1. Main(u, p) /\ p # o /\ v[p] = u[p]
      BY <1>1, <1>12
    <2>2. /\ u[p].children \in Seq(Objects) /\ OnceEach(u[p].children)
          /\ \A x \in Objects : Occurs(x, u[p].children) => u[x].valid /\ u[x].at = 0
      BY <2>1 DEF Owned
    <2>3. ASSUME NEW x \in Objects, Occurs(x, u[p].children) PROVE v[x] = u[x]
      <3>1. x # o
        BY <1>2, <2>2, <2>3 DEF Main
      <3>2. ~Occurs(x, k)
        BY <1>2, <2>1, <2>3 DEF Owned
      <3> QED BY <1>9, <3>1, <3>2
    <2> QED BY <2>1, <2>2, <2>3
  <1>13. \A p, q, x \in Objects :
         Main(v, p) /\ Main(v, q) /\ Occurs(x, v[p].children) /\ Occurs(x, v[q].children) => p = q
    BY <1>1 DEF Owned
  <1>14. Owned(v, N)
    BY <1>8, <1>11, <1>12, <1>13 DEF Owned
  <1> QED BY <1>10, <1>14

LEMMA DropsAnswered ==
    ASSUME NEW u, NEW v, NEW P, NEW o, NEW M, Owned(u, P), Drops(u, v, o), Answered(u, M)
    PROVE  Answered(v, M) /\ u[o].issued /\ ~u[o].ins
  <1>1. \A x \in Objects : /\ Main(v, x) <=> Main(u, x) /\ x # o
                           /\ Main(v, x) => v[x] = u[x]
    BY DropsMain
  <1>2. u[o].issued /\ ~u[o].ins /\ Owed(M, o) = {}
    BY DEF Drops, Answered, Unset
  <1>3. \A m \in M : m.o # o
    BY <1>2 DEF Owed
  <1>4. ASSUME NEW m \in M
        PROVE  /\ m = [o |-> m.o, child |-> m.child] /\ m.o \in Objects /\ Main(v, m.o)
               /\ v[m.o].children = <<>> => m.child = 0
               /\ v[m.o].children # <<>> => m.child \in 1 .. Len(v[m.o].children) /\ m.child \notin v[m.o].pending
    <2>1. m.o \in Objects /\ Main(u, m.o) /\ m.o # o
      BY <1>3 DEF Answered
    <2>2. Main(v, m.o) /\ v[m.o] = u[m.o]
      BY <1>1, <2>1
    <2> QED BY <2>1, <2>2 DEF Answered
  <1>5. \A x \in Objects : v[x].ins => Main(v, x)
    <2> SUFFICES ASSUME NEW x \in Objects, v[x].ins PROVE Main(v, x)
      OBVIOUS
    <2>1. u[x].ins
      BY DEF Drops
    <2>2. Main(u, x) /\ x # o
      BY <1>2, <2>1 DEF Answered
    <2> QED BY <1>1, <2>2
  <1>6. \A x \in Objects : Main(v, x) => Main(u, x) /\ v[x] = u[x]
    BY <1>1
  <1>7. IsFiniteSet(M)
    BY DEF Answered
  <1>8. ASSUME NEW x \in Objects, Main(v, x)
        PROVE  /\ v[x].ins => ~v[x].issued
               /\ v[x].done # Unset => v[x].issued /\ Owed(M, x) = {}
               /\ v[x].pending \subseteq 1 .. Len(v[x].children)
               /\ v[x].issued => v[x].pending = {}
               /\ ~v[x].issued /\ v[x].children # <<>> => v[x].pending # {}
               /\ ~v[x].issued /\ v[x].children = <<>> => Owed(M, x) = {}
               /\ v[x].children # <<>> =>
                    v[x].childDone + Cardinality(Owed(M, x)) + Cardinality(v[x].pending) = Len(v[x].children)
    <2>1. Main(u, x) /\ v[x] = u[x]
      BY <1>6, <1>8
    <2> QED BY <2>1 DEF Answered
  <1> QED BY <1>2, <1>4, <1>5, <1>7, <1>8 DEF Answered

LEMMA DropsWaits ==
    ASSUME NEW c, NEW u, NEW v, NEW R, NEW W, NEW B, NEW C, NEW Q, NEW A, NEW P, NEW M, NEW r, NEW o,
           Homes(c, u, B, Q), Owned(u, P), Drops(u, v, o), Answered(u, M), Rings(c, R, B),
           Pops(c, R, W, B, C, r), o = B[r][1], Waits(c, u, R, B, Q, A)
    PROVE  Waits(c, v, W, C, Q, A)
  <1>1. \A x \in Objects : Main(u, x) /\ x # o => Main(v, x) /\ v[x] = u[x]
    BY DropsMain
  <1>2. u[o].issued
    BY DropsAnswered
  <1>3. \A e : Lives(c, R, B, e) /\ Behind(R, e) # o => Lives(c, W, C, e) /\ Behind(W, e) = Behind(R, e)
    BY PopsRings
  <1>4. \A x \in Objects : Occurs(x, Q) => ~v[x].ins /\ ~v[x].issued
    BY <1>1, <1>2 DEF Homes, Waits
  <1>5. ASSUME NEW q \in ToSet(Queues), NEW e \in ToSet(A[q][1])
        PROVE  /\ Lives(c, W, C, e)
               /\ ~v[Behind(W, e)].ins /\ ~v[Behind(W, e)].issued /\ v[Behind(W, e)].q = q
    <2>1. /\ Lives(c, R, B, e)
          /\ ~u[Behind(R, e)].ins /\ ~u[Behind(R, e)].issued /\ u[Behind(R, e)].q = q
      BY DEF Waits
    <2>2. Behind(R, e) \in Objects /\ Main(u, Behind(R, e)) /\ Behind(R, e) # o
      BY <1>2, <2>1, LiveMain
    <2>3. Lives(c, W, C, e) /\ Behind(W, e) = Behind(R, e)
      BY <1>3, <2>1, <2>2
    <2> QED BY <1>1, <2>1, <2>2, <2>3
  <1> QED BY <1>4, <1>5 DEF Waits

LEMMA DropsScheduled ==
    ASSUME NEW c, NEW u, NEW v, NEW R, NEW W, NEW B, NEW C, NEW Q, NEW S, NEW P, NEW M, NEW r, NEW o,
           Homes(c, u, B, Q), Owned(u, P), Drops(u, v, o), Answered(u, M), Rings(c, R, B),
           Pops(c, R, W, B, C, r), o = B[r][1], Scheduled(c, u, R, B, S)
    PROVE  Scheduled(c, v, W, C, S)
  <1> SUFFICES ASSUME c.kind # "io" PROVE Scheduled(c, v, W, C, S)
    BY DEF Scheduled
  <1>1. \A x \in Objects : (Main(v, x) <=> Main(u, x) /\ x # o) /\ (Main(v, x) => v[x] = u[x])
    BY DropsMain
  <1>2. ~u[o].ins
    BY DropsAnswered
  <1>3. \A e : Lives(c, R, B, e) /\ Behind(R, e) # o => Lives(c, W, C, e) /\ Behind(W, e) = Behind(R, e)
    BY PopsRings
  <1>4. ASSUME NEW i \in 0 .. c.list - 1, S.list[i] # <<>>
        PROVE  /\ Inside(i, S.first, S.last)
               /\ Lives(c, W, C, S.list[i]) /\ v[Behind(W, S.list[i])].ins
               /\ Behind(W, S.list[i]) = Behind(R, S.list[i])
    <2>1. /\ Inside(i, S.first, S.last)
          /\ Lives(c, R, B, S.list[i]) /\ u[Behind(R, S.list[i])].ins
      BY <1>4 DEF Scheduled
    <2>2. Behind(R, S.list[i]) \in Objects /\ Main(u, Behind(R, S.list[i])) /\ Behind(R, S.list[i]) # o
      BY <1>2, <2>1, LiveMain
    <2>3. Lives(c, W, C, S.list[i]) /\ Behind(W, S.list[i]) = Behind(R, S.list[i])
      BY <1>3, <2>1, <2>2
    <2> QED BY <1>1, <2>1, <2>2, <2>3
  <1>5. \A i, j \in 0 .. c.list - 1 : S.list[i] # <<>> /\ S.list[i] = S.list[j] => i = j
    BY DEF Scheduled
  <1>6. ASSUME NEW x \in Objects, Main(v, x), v[x].ins
        PROVE  \E i \in 0 .. c.list - 1 : S.list[i] # <<>> /\ Behind(W, S.list[i]) = x
    <2>1. Main(u, x) /\ u[x].ins
      BY <1>1, <1>6
    <2>2. PICK i \in 0 .. c.list - 1 : S.list[i] # <<>> /\ Behind(R, S.list[i]) = x
      BY <2>1 DEF Scheduled
    <2> QED BY <1>4, <2>2
  <1> QED BY <1>4, <1>5, <1>6 DEF Scheduled

\* A uop that leaves the reorder buffer gives back what it took.
LEMMA DropsCounted ==
    ASSUME NEW c, NEW u, NEW v, NEW R, NEW W, NEW B, NEW C, NEW Q, NEW S, NEW P, NEW M, NEW r, NEW o,
           NEW ts, NEW us, Homes(c, u, B, Q), Owned(u, P), Drops(u, v, o), Answered(u, M),
           Pops(c, R, W, B, C, r), o = B[r][1], Counted(c, u, R, B, S, ts), c.rob \in Nat,
           W[r].free = R[r].free + 1,
           \A k \in Resources : W[r][k] = IF KindOf(c, u, o) = k THEN R[r][k] + 1 ELSE R[r][k],
           \A k \in Resources : LimitOf(c, k) \in Nat,
           \A t \in TidsOf(c) : us[t].dispatch = ts[t].dispatch
    PROVE  Counted(c, v, W, C, S, us)
  <1>1. \A x \in Objects : (Main(v, x) <=> Main(u, x) /\ x # o) /\ (Main(v, x) => v[x] = u[x])
    BY DropsMain
  <1>2. u[o].issued /\ ~u[o].ins
    BY DropsAnswered
  <1>3. /\ o \in Objects /\ Occurs(o, B[r]) /\ r \in RobsOf(c)
        /\ \A p \in RobsOf(c) : /\ C[p] \in Seq(Objects) /\ OnceEach(C[p])
                                /\ \A x \in Objects : Occurs(x, C[p]) <=> Occurs(x, B[p]) /\ x # o
    <2>1. r \in RobsOf(c)
      BY DEF Pops
    <2> QED BY <2>1, PopsOccurs
  <1>4. InSched(v) = InSched(u)
    BY <1>1, <1>2 DEF InSched
  <1>5. \A q : InSchedOf(v, q) = InSchedOf(u, q)
    BY <1>1, <1>2 DEF InSchedOf
  <1>6. \A t : ToDispatch(v, t) = ToDispatch(u, t)
    BY <1>1, <1>2 DEF ToDispatch
  <1>7. ASSUME NEW p \in RobsOf(c), NEW x \in Objects, Occurs(x, C[p])
        PROVE  KindOf(c, v, x) = KindOf(c, u, x) /\ Occurs(x, B[p]) /\ x # o
    <2>1. Occurs(x, B[p]) /\ x # o
      BY <1>3, <1>7
    <2>2. v[x] = u[x]
      BY <1>1, <2>1 DEF Homes
    <2> QED BY <2>1, <2>2 DEF KindOf
  <1>8. ASSUME NEW p \in RobsOf(c), p # r
        PROVE  /\ W[p].free = c.rob - Len(C[p])
               /\ \A k \in Resources : W[p][k] = LimitOf(c, k) - Cardinality(Holding(c, v, C[p], k))
    <2>1. W[p] = R[p] /\ C[p] = B[p]
      BY <1>8 DEF Pops
    <2>2. \A k \in Resources : Holding(c, v, C[p], k) = Holding(c, u, B[p], k)
      BY <1>7, <2>1 DEF Holding
    <2> QED BY <2>1, <2>2 DEF Counted
  <1>9. W[r].free = c.rob - Len(C[r])
    <2>1. Len(C[r]) = Len(B[r]) - 1 /\ Len(B[r]) \in Nat
      <3> DEFINE b == B[r]
      <3>1. b \in Seq(Objects) /\ b # <<>> /\ C[r] = Tail(b)
        BY <1>3 DEF Pops, Homes
      <3> HIDE DEF b
      <3>2. Len(C[r]) = Len(b) - 1 /\ Len(b) \in Nat
        BY <3>1, OneLess, LenProperties
      <3> QED BY <3>2 DEF b
    <2>2. R[r].free = c.rob - Len(B[r])
      BY <1>3 DEF Counted
    <2> QED BY <2>1, <2>2
  <1>10. ASSUME NEW k \in Resources
         PROVE  W[r][k] = LimitOf(c, k) - Cardinality(Holding(c, v, C[r], k))
    <2>1. R[r][k] = LimitOf(c, k) - Cardinality(Holding(c, u, B[r], k))
      BY <1>3 DEF Counted
    <2>2. Holding(c, u, B[r], k) \in SUBSET Objects
      BY DEF Holding
    <2>3. IsFiniteSet(Holding(c, u, B[r], k))
      BY <2>2, CountsFinite
    <2>4. CASE KindOf(c, u, o) = k
      <3>1. o \in Holding(c, u, B[r], k)
        BY <1>3, <2>4 DEF Holding
      <3>2. \A x : x \in Holding(c, v, C[r], k) <=> x \in Holding(c, u, B[r], k) /\ x # o
        BY <1>3, <1>7 DEF Holding
      <3>3. /\ Cardinality(Holding(c, v, C[r], k)) = Cardinality(Holding(c, u, B[r], k)) - 1
            /\ Cardinality(Holding(c, u, B[r], k)) \in Nat
        BY <2>3, <3>1, <3>2, CountLess
      <3>4. W[r][k] = R[r][k] + 1 /\ LimitOf(c, k) \in Nat
        BY <2>4
      <3> QED BY <2>1, <3>3, <3>4
    <2>5. CASE KindOf(c, u, o) # k
      <3>1. Holding(c, v, C[r], k) = Holding(c, u, B[r], k)
        BY <1>3, <1>7, <2>5 DEF Holding
      <3>2. W[r][k] = R[r][k]
        BY <2>5
      <3> QED BY <2>1, <3>1, <3>2
    <2> QED BY <2>4, <2>5
  <1> QED BY <1>4, <1>5, <1>6, <1>8, <1>9, <1>10 DEF Counted

LEMMA DropsInOrder ==
    ASSUME NEW c, 0 \in RobsOf(c), NEW u, NEW v, NEW R, NEW W, NEW B, NEW C, NEW Q, NEW S, NEW P, NEW M, NEW r, NEW o,
           Homes(c, u, B, Q), Owned(u, P), Drops(u, v, o), Answered(u, M), Rings(c, R, B),
           Pops(c, R, W, B, C, r), o = B[r][1], InOrder(c, u, R, B, S)
    PROVE  InOrder(c, v, W, C, S)
  <1> SUFFICES ASSUME c.kind = "io" PROVE InOrder(c, v, W, C, S)
    BY DEF InOrder
  <1>1. PICK j \in 0 .. Len(B[0]) : /\ S.next = SlotOf(R[0].first, j + 1, 2 * c.rob)
                                    /\ \A i \in 1 .. Len(B[0]) : u[B[0][i]].issued <=> i <= j
    BY DEF InOrder
  <1>2. \A x \in Objects : Main(u, x) /\ x # o => v[x] = u[x]
    BY DropsMain
  <1>3. u[o].issued
    BY DropsAnswered
  <1>4. r = 0
    BY DEF Pops, RobsOf, RobFor
  <1> DEFINE b == B[0]
             m == 2 * c.rob
  <1>5. /\ b \in Seq(Objects) /\ OnceEach(b) /\ b # <<>> /\ C[0] = Tail(b) /\ b[1] = o
        /\ W[0].first = Wrap(R[0].first + 1, m)
    BY <1>4 DEF Homes, Pops
  <1>6. Circular(0 .. NumObjects, m, R[0].slot, R[0].first, R[0].last, b)
    BY DEF Rings
  <1>7. \A i \in 1 .. Len(b) : b[i] \in Objects /\ Main(u, b[i])
    <2>1. \A i \in 1 .. Len(b) : b[i] \in Objects /\ Occurs(b[i], b)
      BY <1>5, ElementOfSeq DEF Occurs
    <2> QED BY <2>1 DEF Homes
  <1>8. \A i \in 1 .. Len(b) : u[b[i]].issued <=> i <= j
    BY <1>1
  <1>9. j \in 0 .. Len(b) /\ S.next = SlotOf(R[0].first, j + 1, m)
    BY <1>1
  <1> HIDE DEF b, m
  <1>10. /\ Len(b) \in Nat \ {0} /\ Len(C[0]) = Len(b) - 1
         /\ \A i \in 1 .. Len(b) - 1 : C[0][i] = b[i + 1]
    BY <1>5, HeadTailProperties, LenProperties, EmptySeq
  <1>11. j >= 1
    <2>1. 1 \in 1 .. Len(b)
      BY <1>10
    <2> QED BY <1>3, <1>5, <1>8, <1>9, <2>1
  <1> DEFINE k == j - 1
  <1>12. k \in 0 .. Len(C[0]) /\ k + 1 \in 1 .. Len(b) /\ k + 1 = j
    BY <1>9, <1>10, <1>11
  <1>13. S.next = SlotOf(W[0].first, k + 1, m)
    <2>1. SlotOf(Wrap(R[0].first + 1, m), j, m) = SlotOf(R[0].first, j + 1, m)
      <3>1. /\ Circular(0 .. NumObjects, m, R[0].slot, Wrap(R[0].first + 1, m), R[0].last, Tail(b))
            /\ \A a \in 1 .. Len(b) : SlotOf(Wrap(R[0].first + 1, m), a, m) = SlotOf(R[0].first, a + 1, m)
        <4>1. b # <<>>
          BY <1>5
        <4> QED BY ONLY <4>1, <1>6, RingPop
      <3>2. j \in 1 .. Len(b)
        BY <1>12
      <3> QED BY <3>1, <3>2
    <2> QED BY <1>5, <1>9, <1>12, <2>1
  <1>14. \A i \in 1 .. Len(C[0]) : v[C[0][i]].issued <=> i <= k
    <2> TAKE i \in 1 .. Len(C[0])
    <2>1. i + 1 \in 1 .. Len(b) /\ C[0][i] = b[i + 1] /\ 1 \in 1 .. Len(b)
      BY <1>10
    <2>2. b[i + 1] # o
      BY <1>5, <2>1 DEF OnceEach
    <2>3. v[b[i + 1]] = u[b[i + 1]]
      BY <1>2, <1>7, <2>1, <2>2
    <2>4. i + 1 <= j <=> i <= k
      BY <1>9
    <2> QED BY <1>8, <2>1, <2>3, <2>4
  <1>15. S.next = SlotOf(W[0].first, k + 1, 2 * c.rob)
    BY <1>13 DEF m
  <1> HIDE DEF k
  <1> QED BY <1>12, <1>14, <1>15 DEF InOrder

LEMMA DropsMapped ==
    ASSUME NEW c, NEW u, NEW v, NEW B, NEW C, NEW Q, NEW R, NEW W, NEW P, NEW r, NEW o, NEW ts, NEW us, NEW mp, NEW np,
           Homes(c, u, B, Q), Owned(u, P), Drops(u, v, o), Pops(c, R, W, B, C, r), o = B[r][1],
           Ordered(c, u, B, Q, ts), Mapped(c, u, ts, mp),
           \A t \in TidsOf(c) : /\ us[t].next = ts[t].next
                                /\ us[t].retired = IF t = u[o].tid THEN ts[t].retired + 1 ELSE ts[t].retired
                                /\ np[t].reg = mp[t].reg \/ (t = u[o].tid /\ u[o].at = Len(c.prog[t + 1]))
    PROVE  Mapped(c, v, us, np)
  <1>1. \A x \in Objects : (Main(v, x) <=> Main(u, x) /\ x # o) /\ (Main(v, x) => v[x] = u[x])
    BY DropsMain
  <1>2. o \in Objects /\ Main(u, o) /\ u[o].tid \in TidsOf(c) /\ u[o].at = ts[u[o].tid].retired + 1
    BY NextRetired DEF Pops
  <1>3. \A t \in TidsOf(c) : ts[t].retired \in Nat /\ ts[t].next \in Nat /\ ts[t].next <= Len(c.prog[t + 1]) + 1
    BY DEF Ordered
  <1>4. ASSUME NEW t \in TidsOf(c), NEW j \in Nat, j > us[t].retired
        PROVE  j > ts[t].retired /\ ~(t = u[o].tid /\ j = u[o].at)
    <2>1. ts[t].retired \in Nat
      BY <1>3
    <2>2. CASE t = u[o].tid
      <3>1. us[t].retired = ts[t].retired + 1 /\ u[o].at = ts[t].retired + 1
        BY <1>2, <2>2
      <3> QED BY <1>4, <2>1, <3>1
    <2>3. CASE t # u[o].tid
      BY <1>4, <2>3
    <2> QED BY <2>2, <2>3
  <1>5. ASSUME NEW t \in TidsOf(c), NEW g \in c.regs, NEW j \in Nat, LastWriter(c, t, us[t].next, g, j), j > us[t].retired
        PROVE  \E p \in Objects : Main(v, p) /\ v[p].tid = t /\ v[p].at = j /\ Points(v, np[t].reg[g], p)
    <2>1. LastWriter(c, t, ts[t].next, g, j) /\ j > ts[t].retired /\ ~(t = u[o].tid /\ j = u[o].at)
      BY <1>4, <1>5
    <2>2. j < ts[t].next
      <3>1. j \in 1 .. ts[t].next - 1
        BY <2>1 DEF LastWriter
      <3> QED BY <1>3, <3>1
    <2>3. PICK p \in Objects : Main(u, p) /\ u[p].tid = t /\ u[p].at = j /\ Points(u, mp[t].reg[g], p)
      BY <2>1 DEF Mapped
    <2>4. p # o
      BY <2>1, <2>3
    <2>5. np[t].reg = mp[t].reg
      <3> SUFFICES ASSUME t = u[o].tid, u[o].at = Len(c.prog[t + 1]) PROVE FALSE
        OBVIOUS
      <3>1. Len(c.prog[t + 1]) = ts[t].retired + 1 /\ us[t].retired = ts[t].retired + 1
        BY <1>2
      <3>2. ts[t].retired \in Nat /\ ts[t].next \in Nat /\ ts[t].next <= Len(c.prog[t + 1]) + 1
        BY <1>3
      <3>3. j \in Nat /\ j > ts[t].retired + 1
        BY ONLY <1>5, <3>1
      <3>4. ts[t].next <= ts[t].retired + 2
        BY ONLY <3>1, <3>2
      <3> QED BY ONLY <2>2, <3>2, <3>3, <3>4
    <2> QED BY <1>1, <2>3, <2>4, <2>5 DEF Points
  <1>6. ASSUME NEW x \in Objects, Main(v, x), NEW j \in Nat,
               NEW g \in ToSet(c.prog[v[x].tid + 1][v[x].at].src),
               LastWriter(c, v[x].tid, v[x].at, g, j), j > us[v[x].tid].retired
        PROVE  \E p \in Objects :
                 /\ Main(v, p) /\ v[p].tid = v[x].tid /\ v[p].at = j
                 /\ v[x].rdy => v[p].done = 0
                 /\ \E i \in DOMAIN v[x].srcs : Points(v, v[x].srcs[i], p)
    <2>1. Main(u, x) /\ v[x] = u[x] /\ u[x].tid \in TidsOf(c)
      BY <1>1, <1>6 DEF Homes
    <2>2. j > ts[u[x].tid].retired /\ ~(u[x].tid = u[o].tid /\ j = u[o].at)
      BY <1>4, <1>6, <2>1
    <2>3. LastWriter(c, u[x].tid, u[x].at, g, j) /\ g \in ToSet(c.prog[u[x].tid + 1][u[x].at].src)
      BY <1>6, <2>1
    <2>4. PICK p \in Objects :
            /\ Main(u, p) /\ u[p].tid = u[x].tid /\ u[p].at = j
            /\ u[x].rdy => u[p].done = 0
            /\ \E i \in DOMAIN u[x].srcs : Points(u, u[x].srcs[i], p)
      BY <2>1, <2>2, <2>3 DEF Mapped
    <2>5. p # o
      BY <2>2, <2>4
    <2>6. Main(v, p) /\ v[p] = u[p]
      BY <1>1, <2>4, <2>5
    <2> QED BY <2>1, <2>4, <2>6 DEF Points
  <1> QED BY ONLY <1>5, <1>6 DEF Mapped

Retires(c, u, v, R, W, B, C, ts, us, mp, np, r, o) ==
    /\ 0 \in RobsOf(c) /\ c.rob \in Nat /\ \A k \in Resources : LimitOf(c, k) \in Nat
    /\ Drops(u, v, o) /\ Pops(c, R, W, B, C, r) /\ o = B[r][1]
    /\ W[r].free = R[r].free + 1
    /\ \A k \in Resources : W[r][k] = IF KindOf(c, u, o) = k THEN R[r][k] + 1 ELSE R[r][k]
    /\ \A t \in TidsOf(c) :
         /\ us[t].next = ts[t].next /\ us[t].dispatch = ts[t].dispatch
         /\ us[t].retired = (IF t = u[o].tid THEN ts[t].retired + 1 ELSE ts[t].retired)
         /\ np[t].reg = mp[t].reg \/ (t = u[o].tid /\ u[o].at = Len(c.prog[t + 1]))
LEMMA DropsWhole ==
    ASSUME NEW c, NEW u, NEW v, NEW R, NEW W, NEW B, NEW C, NEW Q, NEW A, NEW S,
           NEW ts, NEW us, NEW mp, NEW np, NEW M, NEW P, NEW r, NEW o, Whole(c, u, R, B, Q, A, S, ts, mp, M, P),
           Retires(c, u, v, R, W, B, C, ts, us, mp, np, r, o)
    PROVE  Whole(c, v, W, C, Q, A, S, us, np, M, <<o>> \o Reverse(u[o].children) \o P)
  <1> USE DEF Retires
  <1>1. /\ Homes(c, u, B, Q) /\ Ordered(c, u, B, Q, ts) /\ Owned(u, P) /\ Answered(u, M)
        /\ Rings(c, R, B) /\ Waits(c, u, R, B, Q, A) /\ Scheduled(c, u, R, B, S)
        /\ Counted(c, u, R, B, S, ts) /\ InOrder(c, u, R, B, S) /\ Mapped(c, u, ts, mp)
    BY DEF Whole
  <1>2. Homes(c, v, C, Q)
    BY <1>1, DropsHomes
  <1>3. Ordered(c, v, C, Q, us)
    BY <1>1, DropsOrdered
  <1>4. Owned(v, <<o>> \o Reverse(u[o].children) \o P)
    BY <1>1, DropsOwned
  <1>5. Answered(v, M)
    BY <1>1, DropsAnswered
  <1>6. Rings(c, W, C)
    BY <1>1, PopsRings
  <1>7. Waits(c, v, W, C, Q, A)
    BY <1>1, DropsWaits
  <1>8. Scheduled(c, v, W, C, S)
    BY <1>1, DropsScheduled
  <1>9. Counted(c, v, W, C, S, us)
    BY <1>1, DropsCounted
  <1>10. InOrder(c, v, W, C, S)
    BY <1>1, DropsInOrder
  <1>11. Mapped(c, v, us, np)
    BY <1>1, DropsMapped
  <1> QED BY <1>2, <1>3, <1>4, <1>5, <1>6, <1>7, <1>8, <1>9, <1>10, <1>11 DEF Whole

--------------------------------------------------------------------------------
\* The head o of the frontend queue goes into the reorder buffer r and the allocation queue q.
Joins(u, v, o, q) ==
    /\ Kin(u, v) /\ o \in Objects /\ v[o].q = q
    /\ \A x \in Objects : /\ v[x].ins = u[x].ins /\ v[x].issued = u[x].issued /\ v[x].done = u[x].done
                          /\ v[x].rdy = u[x].rdy /\ v[x].pending = u[x].pending
                          /\ v[x].childDone = u[x].childDone
                          /\ x # o => v[x] = u[x]
Pushes(c, R, W, B, C, r, o) ==
    /\ r \in RobsOf(c) /\ o \in Objects /\ Len(B[r]) + 1 < 2 * c.rob /\ C[r] = Append(B[r], o)
    /\ W[r].slot = [R[r].slot EXCEPT ![R[r].last] = o] /\ W[r].first = R[r].first
    /\ W[r].last = Wrap(R[r].last + 1, 2 * c.rob)
    /\ \A p \in RobsOf(c) : p # r => W[p] = R[p] /\ C[p] = B[p]
Given(A, D, q, e) ==
    /\ q \in ToSet(Queues) /\ A[q][1] \in Seq(Nat \X Nat) /\ e \in Nat \X Nat
    /\ \A p \in ToSet(Queues) : D[p][1] = IF p = q THEN Append(A[q][1], e) ELSE A[p][1]

LEMMA PushesRings ==
    ASSUME NEW c, NEW R, NEW W, NEW B, NEW C, NEW r, NEW o, Rings(c, R, B), Pushes(c, R, W, B, C, r, o)
    PROVE  /\ Rings(c, W, C)
           /\ \A e : Lives(c, R, B, e) => Lives(c, W, C, e) /\ Behind(W, e) = Behind(R, e)
           /\ Lives(c, W, C, <<r, R[r].last>>) /\ Behind(W, <<r, R[r].last>>) = o
           /\ ~Lives(c, R, B, <<r, R[r].last>>)
  <1> DEFINE m == 2 * c.rob
             b == B[r]
             l == R[r].last
             f == R[r].first
  <1>1. /\ r \in RobsOf(c) /\ o \in 0 .. NumObjects /\ Len(b) + 1 < m /\ C[r] = Append(b, o)
        /\ W[r].slot = [R[r].slot EXCEPT ![l] = o] /\ W[r].first = f /\ W[r].last = Wrap(l + 1, m)
        /\ \A p \in RobsOf(c) : p # r => W[p] = R[p] /\ C[p] = B[p]
    BY DEF Pushes, Objects
  <1>2. Circular(0 .. NumObjects, m, R[r].slot, f, l, b)
    BY <1>1 DEF Rings
  <1>3. m \in Nat /\ l \in 0 .. m - 1 /\ R[r].slot \in [0 .. m - 1 -> 0 .. NumObjects]
    BY <1>2 DEF Circular
  <1> HIDE DEF m, b, l, f
  <1>4. /\ b \in Seq(0 .. NumObjects) /\ Len(b) \in 0 .. m - 1
        /\ \A j \in 1 .. m : SlotOf(f, j, m) \in 0 .. m - 1
    BY <1>2, RingHolds
  <1>5. /\ Circular(0 .. NumObjects, m, [R[r].slot EXCEPT ![l] = o], f, Wrap(l + 1, m), Append(b, o))
        /\ l = SlotOf(f, Len(b) + 1, m)
        /\ \A j \in 1 .. Len(b) : SlotOf(f, j, m) # l
    <2> DEFINE X == 0 .. NumObjects
               s == R[r].slot
    <2>1. Len(b) + 1 < m /\ o \in X /\ Circular(X, m, s, f, l, b)
      BY <1>1, <1>2
    <2> HIDE DEF X, s
    <2>2. RoomFor(X, m, s, f, l, b, o)
      BY <2>1 DEF RoomFor
    <2>3. PutLast(X, m, s, f, l, b, o)
      BY ONLY <2>2, RingPush
    <2> QED BY <2>3 DEF X, s, PutLast
  <1>6. Len(C[r]) = Len(b) + 1 /\ Len(b) \in Nat
    BY <1>1, <1>4, OneMore
  <1>7. Rings(c, W, C)
    <2> SUFFICES ASSUME NEW p \in RobsOf(c)
                 PROVE  Circular(0 .. NumObjects, m, W[p].slot, W[p].first, W[p].last, C[p])
      BY DEF Rings, m
    <2>1. CASE p = r
      BY <1>1, <1>5, <2>1
    <2>2. CASE p # r
      BY <1>1, <2>2 DEF Rings, m
    <2> QED BY <2>1, <2>2
  <1>8. ASSUME NEW e, Lives(c, R, B, e)
        PROVE  Lives(c, W, C, e) /\ Behind(W, e) = Behind(R, e) /\ e # <<r, l>>
    <2>1. PICK j \in 1 .. Len(B[e[1]]) : e = <<e[1], SlotOf(R[e[1]].first, j, m)>>
      BY <1>8 DEF Lives, m
    <2>2. e[1] \in RobsOf(c)
      BY <1>8 DEF Lives
    <2>3. CASE e[1] # r
      BY <1>1, <1>8, <2>2, <2>3 DEF Lives, Behind
    <2>4. CASE e[1] = r
      <3>1. e = <<r, SlotOf(f, j, m)>> /\ j \in 1 .. Len(b)
        BY <2>1, <2>4 DEF b, f
      <3>2. SlotOf(f, j, m) # l /\ SlotOf(f, j, m) \in 0 .. m - 1
        <4>1. j \in 1 .. m
          BY <1>3, <1>4, <3>1
        <4> QED BY <1>4, <1>5, <3>1, <4>1
      <3>3. Behind(W, e) = Behind(R, e)
        BY <1>1, <1>3, <3>1, <3>2 DEF Behind
      <3>4. \E k \in 1 .. Len(C[e[1]]) : e = <<e[1], SlotOf(W[e[1]].first, k, m)>>
        <4>1. j \in 1 .. Len(C[r])
          BY <1>6, <3>1
        <4>2. e = <<r, SlotOf(W[r].first, j, m)>>
          BY <1>1, <3>1
        <4> QED BY <2>4, <4>1, <4>2
      <3>5. e # <<r, l>>
        BY <3>1, <3>2
      <3> QED BY <2>2, <3>3, <3>4, <3>5 DEF Lives, m
    <2> QED BY <2>3, <2>4
  <1>9. Lives(c, W, C, <<r, l>>) /\ Behind(W, <<r, l>>) = o
    <2> DEFINE e == <<r, l>>
    <2>1. e[1] = r /\ e[2] = l
      OBVIOUS
    <2>2. Behind(W, e) = o
      BY <1>1, <1>3, <2>1 DEF Behind
    <2>3. Len(b) + 1 \in 1 .. Len(C[r])
      BY <1>6
    <2>4. e = <<r, SlotOf(W[r].first, Len(b) + 1, m)>>
      BY <1>1, <1>5
    <2> HIDE DEF e
    <2>5. \E k \in 1 .. Len(C[e[1]]) : e = <<e[1], SlotOf(W[e[1]].first, k, m)>>
      BY <2>1, <2>3, <2>4
    <2>6. Lives(c, W, C, e)
      BY <1>1, <2>1, <2>5 DEF Lives, m
    <2> QED BY <2>2, <2>6 DEF e
  <1> QED BY <1>7, <1>8, <1>9 DEF l

\* The head o of the queue Q, of a thread with the buffer r; and where the uops are then.
First(c, u, Q, r, o) == Q # <<>> /\ o = Head(Q) /\ r = RobFor(c, u[o].tid)
Moved(c, u, B, C, Q, r, o) ==
    /\ Main(u, o) /\ Occurs(o, Q) /\ \A p \in RobsOf(c) : ~Occurs(o, B[p])
    /\ Tail(Q) \in Seq(Objects) /\ OnceEach(Tail(Q))
    /\ \A x : Occurs(x, Tail(Q)) <=> Occurs(x, Q) /\ x # o
    /\ \A p \in RobsOf(c) : /\ C[p] \in Seq(Objects) /\ OnceEach(C[p])
                            /\ \A x \in Objects : Occurs(x, C[p]) <=> Occurs(x, B[p]) \/ (p = r /\ x = o)

LEMMA PushesOccurs ==
    ASSUME NEW c, NEW u, NEW B, NEW C, NEW Q, NEW R, NEW W, NEW r, NEW o, Homes(c, u, B, Q),
           Pushes(c, R, W, B, C, r, o), First(c, u, Q, r, o)
    PROVE  Moved(c, u, B, C, Q, r, o)
  <1> USE DEF First
  <1>1. Q \in Seq(Objects) /\ OnceEach(Q)
    BY DEF Homes
  <1>2. /\ Tail(Q) \in Seq(Objects) /\ OnceEach(Tail(Q)) /\ o \in Objects /\ Occurs(o, Q)
        /\ \A x : Occurs(x, Tail(Q)) <=> Occurs(x, Q) /\ x # o
    BY <1>1, OneLess
  <1>3. Main(u, o) /\ \A p \in RobsOf(c) : ~Occurs(o, B[p])
    BY <1>2 DEF Homes
  <1>4. ASSUME NEW p \in RobsOf(c)
        PROVE  /\ C[p] \in Seq(Objects) /\ OnceEach(C[p])
               /\ \A x \in Objects : Occurs(x, C[p]) <=> Occurs(x, B[p]) \/ (p = r /\ x = o)
    <2>1. CASE p = r
      <3> DEFINE b == B[r]
                 d == C[r]
      <3>1. b \in Seq(Objects) /\ OnceEach(b) /\ ~Occurs(o, b) /\ d = Append(b, o)
        BY <1>3, <1>4, <2>1 DEF Homes, Pushes
      <3> HIDE DEF b, d
      <3>2. d \in Seq(Objects) /\ OnceEach(d) /\ \A x : Occurs(x, d) <=> Occurs(x, b) \/ x = o
        <4>1. o \in Objects
          BY <1>2
        <4> QED BY ONLY <3>1, <4>1, OneMore
      <3> QED BY <2>1, <3>2 DEF b, d
    <2>2. CASE p # r
      <3>1. C[p] = B[p]
        BY <2>2 DEF Pushes
      <3> QED BY <2>2, <3>1 DEF Homes
    <2> QED BY <2>1, <2>2
  <1> QED BY <1>2, <1>3, <1>4 DEF Moved

LEMMA JoinsHomes ==
    ASSUME NEW c, NEW u, NEW v, NEW B, NEW C, NEW Q, NEW R, NEW W, NEW r, NEW o, NEW q, Homes(c, u, B, Q),
           Joins(u, v, o, q), Pushes(c, R, W, B, C, r, o), First(c, u, Q, r, o)
    PROVE  Homes(c, u, C, Tail(Q)) /\ Homes(c, v, C, Tail(Q))
  <1>0. Moved(c, u, B, C, Q, r, o)
    BY PushesOccurs
  <1>1. /\ Main(u, o) /\ Occurs(o, Q) /\ \A p \in RobsOf(c) : ~Occurs(o, B[p])
        /\ Tail(Q) \in Seq(Objects) /\ OnceEach(Tail(Q))
        /\ \A x : Occurs(x, Tail(Q)) <=> Occurs(x, Q) /\ x # o
        /\ \A p \in RobsOf(c) : /\ C[p] \in Seq(Objects) /\ OnceEach(C[p])
                                /\ \A x \in Objects : Occurs(x, C[p]) <=> Occurs(x, B[p]) \/ (p = r /\ x = o)
    BY ONLY <1>0 DEF Moved
  <1>r. r = RobFor(c, u[o].tid)
    BY DEF First
  <1>2. \A x \in Objects : Main(u, x) =>
         /\ u[x].tid \in TidsOf(c) /\ u[x].at \in 1 .. Len(c.prog[u[x].tid + 1])
         /\ u[x].children # <<>> => KindOf(c, u, x) \in {"ld", "st"}
    BY DEF Homes
  <1>3. \A p \in RobsOf(c), x \in Objects : Occurs(x, C[p]) =>
         Main(u, x) /\ p = RobFor(c, u[x].tid) /\ ~Occurs(x, Tail(Q))
    <2> TAKE p \in RobsOf(c), x \in Objects
    <2>1. CASE x = o
      BY <1>1, <1>r, <2>1
    <2>2. CASE x # o
      BY <1>1, <2>2 DEF Homes
    <2> QED BY <2>1, <2>2
  <1>4. \A x \in Objects : Occurs(x, Tail(Q)) => Main(u, x)
    BY <1>1 DEF Homes
  <1>5. ASSUME NEW x \in Objects, Main(u, x) PROVE Occurs(x, Tail(Q)) \/ Occurs(x, C[RobFor(c, u[x].tid)])
    <2>1. RobFor(c, u[x].tid) \in RobsOf(c)
      BY <1>2, <1>5 DEF RobsOf
    <2>2. Occurs(x, Q) \/ Occurs(x, B[RobFor(c, u[x].tid)])
      BY <1>5 DEF Homes
    <2>3. CASE x = o
      BY <1>1, <1>r, <2>1, <2>3
    <2>4. CASE x # o
      BY <1>1, <2>1, <2>2, <2>4
    <2> QED BY <2>3, <2>4
  <1>6. Homes(c, u, C, Tail(Q))
    BY <1>1, <1>2, <1>3, <1>4, <1>5 DEF Homes
  <1>7. Homes(c, v, C, Tail(Q))
    BY <1>6, KinHomes DEF Joins
  <1> QED BY <1>6, <1>7

LEMMA JoinsOrdered ==
    ASSUME NEW c, NEW u, NEW v, NEW B, NEW C, NEW Q, NEW R, NEW W, NEW r, NEW o, NEW q, NEW ts, Homes(c, u, B, Q),
           Joins(u, v, o, q), Pushes(c, R, W, B, C, r, o), First(c, u, Q, r, o),
           Ordered(c, u, B, Q, ts)
    PROVE  Ordered(c, v, C, Tail(Q), ts)
  <1>0. Moved(c, u, B, C, Q, r, o)
    BY PushesOccurs
  <1>1. /\ Main(u, o) /\ Occurs(o, Q) /\ \A p \in RobsOf(c) : ~Occurs(o, B[p])
        /\ Tail(Q) \in Seq(Objects) /\ OnceEach(Tail(Q))
        /\ \A x : Occurs(x, Tail(Q)) <=> Occurs(x, Q) /\ x # o
        /\ \A p \in RobsOf(c) : /\ C[p] \in Seq(Objects) /\ OnceEach(C[p])
                                /\ \A x \in Objects : Occurs(x, C[p]) <=> Occurs(x, B[p]) \/ (p = r /\ x = o)
    BY ONLY <1>0 DEF Moved
  <1>2. Q \in Seq(Objects) /\ Sorted(u, Q) /\ OnceEach(Q) /\ Q # <<>>
    BY DEF Homes, Ordered, First
  <1>3. Sorted(u, Tail(Q))
    BY <1>2, TailSorted
  <1>4. \A x \in Objects : Occurs(x, Tail(Q)) /\ u[x].tid = u[o].tid => u[o].at < u[x].at
    <2> SUFFICES ASSUME NEW x \in Objects, Occurs(x, Tail(Q)), u[x].tid = u[o].tid PROVE u[o].at < u[x].at
      OBVIOUS
    <2>1. Occurs(x, Q) /\ x # o
      BY <1>1
    <2>2. PICK i \in 1 .. Len(Q) : Q[i] = x
      BY <2>1 DEF Occurs
    <2>3. o = Q[1] /\ 1 \in 1 .. Len(Q) /\ Len(Q) \in Nat
      BY <1>2, LenProperties, EmptySeq, HeadTailProperties DEF First
    <2>4. 1 < i
      BY <2>1, <2>2, <2>3
    <2> QED BY <1>2, <2>2, <2>3, <2>4 DEF Sorted
  <1>5. ASSUME NEW p \in RobsOf(c) PROVE Sorted(u, C[p])
    <2>1. CASE p = r
      <3> DEFINE b == B[r]
      <3>1. b \in Seq(Objects) /\ Sorted(u, b) /\ C[r] = Append(b, o)
        BY <1>5, <2>1 DEF Homes, Ordered, Pushes
      <3>2. \A x \in Objects : Occurs(x, b) /\ u[x].tid = u[o].tid => u[x].at < u[o].at
        BY <1>1, <1>5, <2>1 DEF Ordered, Joins
      <3> HIDE DEF b
      <3>3. /\ Len(C[r]) = Len(b) + 1 /\ C[r][Len(b) + 1] = o /\ Len(b) \in Nat
            /\ \A i \in 1 .. Len(b) : C[r][i] = b[i] /\ b[i] \in Objects /\ Occurs(b[i], b)
        BY <3>1, AppendProperties, LenProperties, ElementOfSeq DEF Occurs
      <3>4. ASSUME NEW i \in 1 .. Len(C[r]), NEW j \in 1 .. Len(C[r]), i < j, u[C[r][i]].tid = u[C[r][j]].tid
            PROVE  u[C[r][i]].at < u[C[r][j]].at
        <4>1. i \in 1 .. Len(b)
          BY <3>3, <3>4
        <4>2. CASE j = Len(b) + 1
          BY <3>2, <3>3, <3>4, <4>1, <4>2
        <4>3. CASE j # Len(b) + 1
          <5>1. j \in 1 .. Len(b)
            BY <3>3, <4>3
          <5> QED BY <3>1, <3>3, <3>4, <4>1, <5>1 DEF Sorted
        <4> QED BY <4>2, <4>3
      <3>5. Sorted(u, C[r])
        BY ONLY <3>4 DEF Sorted
      <3> QED BY <2>1, <3>5
    <2>2. CASE p # r
      BY <2>2 DEF Ordered, Pushes
    <2> QED BY <2>1, <2>2
  <1>6. ASSUME NEW p \in RobsOf(c), NEW x \in Objects, NEW y \in Objects, Occurs(x, C[p]), Occurs(y, Tail(Q)),
               u[x].tid = u[y].tid
        PROVE  u[x].at < u[y].at
    <2>1. CASE x = o
      BY <1>4, <1>6, <2>1
    <2>2. CASE x # o
      <3>1. Occurs(x, B[p]) /\ Occurs(y, Q)
        BY <1>1, <1>6, <2>2
      <3> QED BY <1>6, <3>1 DEF Ordered
    <2> QED BY <2>1, <2>2
  <1>7. Ordered(c, u, C, Tail(Q), ts)
    BY <1>3, <1>5, <1>6 DEF Ordered
  <1>8. Homes(c, u, C, Tail(Q)) /\ Kin(u, v)
    <2>1. Homes(c, u, C, Tail(Q))
      BY JoinsHomes
    <2> QED BY <2>1 DEF Joins
  <1> QED BY <1>7, <1>8, KinOrdered

LEMMA JoinsWaits ==
    ASSUME NEW c, NEW u, NEW v, NEW B, NEW C, NEW Q, NEW R, NEW W, NEW r, NEW o, NEW q, NEW A, NEW D, NEW e,
           Homes(c, u, B, Q), Rings(c, R, B), Waits(c, u, R, B, Q, A),
           Joins(u, v, o, q), Pushes(c, R, W, B, C, r, o), First(c, u, Q, r, o),
           e = <<r, R[r].last>>, Given(A, D, q, e)
    PROVE  Waits(c, v, W, C, Tail(Q), D)
  <1>0. Moved(c, u, B, C, Q, r, o)
    BY PushesOccurs
  <1>r. /\ Rings(c, W, C)
        /\ \A d : Lives(c, R, B, d) => Lives(c, W, C, d) /\ Behind(W, d) = Behind(R, d)
        /\ Lives(c, W, C, <<r, R[r].last>>) /\ Behind(W, <<r, R[r].last>>) = o
        /\ ~Lives(c, R, B, <<r, R[r].last>>)
    BY ONLY Rings(c, R, B), Pushes(c, R, W, B, C, r, o), PushesRings
  <1>1. /\ \A d : Lives(c, R, B, d) => Lives(c, W, C, d) /\ Behind(W, d) = Behind(R, d)
        /\ Lives(c, W, C, e) /\ Behind(W, e) = o /\ ~Lives(c, R, B, e)
    BY <1>r
  <1>2. ~u[o].ins /\ ~u[o].issued /\ o \in Objects
    BY <1>0 DEF Moved, Waits, Joins
  <1>3. \A x \in Objects : Occurs(x, Tail(Q)) => ~v[x].ins /\ ~v[x].issued
    BY <1>0 DEF Moved, Waits, Joins
  <1> DEFINE a == A[q][1]
             d == D[q][1]
  <1>4. /\ q \in ToSet(Queues) /\ a \in Seq(Nat \X Nat) /\ OnceEach(a) /\ e \in Nat \X Nat /\ d = Append(a, e)
        /\ \A p \in ToSet(Queues) : p # q => D[p][1] = A[p][1]
    BY DEF Given, Waits
  <1>5. \A x : x \in ToSet(a) <=> Occurs(x, a)
    <2> HIDE DEF a
    <2> QED BY <1>4, CountedOnce
  <1>6. ~Occurs(e, a)
    BY <1>1, <1>4, <1>5 DEF Waits
  <1>7. d \in Seq(Nat \X Nat) /\ OnceEach(d) /\ \A x : Occurs(x, d) <=> Occurs(x, a) \/ x = e
    <2> DEFINE X == Nat \X Nat
    <2>1. a \in Seq(X) /\ e \in X /\ d = Append(a, e) /\ OnceEach(a) /\ ~Occurs(e, a)
      BY <1>4, <1>6
    <2> HIDE DEF a, d, X
    <2>2. d \in Seq(X) /\ OnceEach(d) /\ \A x : Occurs(x, d) <=> Occurs(x, a) \/ x = e
      BY ONLY <2>1, OneMore
    <2> QED BY <2>2 DEF X
  <1>8. \A x : x \in ToSet(d) <=> Occurs(x, d)
    <2> HIDE DEF d
    <2> QED BY <1>7, CountedOnce
  <1>9. ASSUME NEW p \in ToSet(Queues), NEW x \in ToSet(D[p][1])
        PROVE  /\ Lives(c, W, C, x)
               /\ ~v[Behind(W, x)].ins /\ ~v[Behind(W, x)].issued /\ v[Behind(W, x)].q = p
    <2>1. CASE x = e /\ p = q
      BY <1>1, <1>2, <2>1 DEF Joins
    <2>2. CASE ~(x = e /\ p = q)
      <3>1. x \in ToSet(A[p][1])
        <4>1. CASE p = q
          BY <1>5, <1>7, <1>8, <2>2, <4>1
        <4>2. CASE p # q
          BY <1>4, <4>2
        <4> QED BY <4>1, <4>2
      <3>2. /\ Lives(c, R, B, x)
            /\ ~u[Behind(R, x)].ins /\ ~u[Behind(R, x)].issued /\ u[Behind(R, x)].q = p
        BY <3>1 DEF Waits
      <3>3. Lives(c, W, C, x) /\ Behind(W, x) = Behind(R, x)
        BY <1>1, <3>2
      <3>4. Behind(R, x) \in Objects /\ Behind(R, x) # o
        <4>1. Behind(R, x) \in Objects /\ Occurs(Behind(R, x), B[x[1]])
          BY <3>2, LiveMain
        <4>2. x[1] \in RobsOf(c)
          BY <3>2 DEF Lives
        <4> QED BY <1>0, <4>1, <4>2 DEF Moved
      <3> QED BY <3>2, <3>3, <3>4 DEF Joins
    <2> QED BY <2>1, <2>2
  <1>10. \A p \in ToSet(Queues) : OnceEach(D[p][1])
    <2> TAKE p \in ToSet(Queues)
    <2>1. CASE p = q
      BY <1>7, <2>1
    <2>2. CASE p # q
      BY <1>4, <2>2 DEF Waits
    <2> QED BY <2>1, <2>2
  <1> QED BY <1>3, <1>9, <1>10 DEF Waits

LEMMA JoinsScheduled ==
    ASSUME NEW c, NEW u, NEW v, NEW B, NEW C, NEW Q, NEW R, NEW W, NEW r, NEW o, NEW q, NEW S,
           Homes(c, u, B, Q), Rings(c, R, B), Scheduled(c, u, R, B, S),
           Joins(u, v, o, q), Pushes(c, R, W, B, C, r, o)
    PROVE  Scheduled(c, v, W, C, S)
  <1> SUFFICES ASSUME c.kind # "io" PROVE Scheduled(c, v, W, C, S)
    BY DEF Scheduled
  <1>r. /\ Rings(c, W, C)
        /\ \A d : Lives(c, R, B, d) => Lives(c, W, C, d) /\ Behind(W, d) = Behind(R, d)
        /\ Lives(c, W, C, <<r, R[r].last>>) /\ Behind(W, <<r, R[r].last>>) = o
        /\ ~Lives(c, R, B, <<r, R[r].last>>)
    BY ONLY Rings(c, R, B), Pushes(c, R, W, B, C, r, o), PushesRings
  <1>1. \A d : Lives(c, R, B, d) => Lives(c, W, C, d) /\ Behind(W, d) = Behind(R, d)
    BY <1>r
  <1>2. ASSUME NEW i \in 0 .. c.list - 1, S.list[i] # <<>>
        PROVE  /\ Inside(i, S.first, S.last)
               /\ Lives(c, W, C, S.list[i]) /\ v[Behind(W, S.list[i])].ins
               /\ Behind(W, S.list[i]) = Behind(R, S.list[i])
    <2>1. /\ Inside(i, S.first, S.last)
          /\ Lives(c, R, B, S.list[i]) /\ u[Behind(R, S.list[i])].ins
      BY <1>2 DEF Scheduled
    <2>2. Behind(R, S.list[i]) \in Objects
      BY <2>1, LiveMain
    <2> QED BY <1>1, <2>1, <2>2 DEF Joins
  <1>3. \A i, j \in 0 .. c.list - 1 : S.list[i] # <<>> /\ S.list[i] = S.list[j] => i = j
    BY DEF Scheduled
  <1>4. ASSUME NEW x \in Objects, Main(v, x), v[x].ins
        PROVE  \E i \in 0 .. c.list - 1 : S.list[i] # <<>> /\ Behind(W, S.list[i]) = x
    <2>1. Main(u, x) /\ u[x].ins
      BY <1>4, KinMain DEF Joins
    <2>2. PICK i \in 0 .. c.list - 1 : S.list[i] # <<>> /\ Behind(R, S.list[i]) = x
      BY <2>1 DEF Scheduled
    <2> QED BY <1>2, <2>2
  <1> QED BY <1>2, <1>3, <1>4 DEF Scheduled

\* A uop that goes into the reorder buffer takes its entry and its buffer or register.
LEMMA JoinsCounted ==
    ASSUME NEW c, NEW u, NEW v, NEW B, NEW C, NEW Q, NEW R, NEW W, NEW r, NEW o, NEW q, NEW A, NEW S, NEW ts,
           Homes(c, u, B, Q), Counted(c, u, R, B, S, ts), Waits(c, u, R, B, Q, A), c.rob \in Nat,
           Joins(u, v, o, q), Pushes(c, R, W, B, C, r, o), First(c, u, Q, r, o),
           W[r].free = R[r].free - 1,
           \A k \in Resources : W[r][k] = IF KindOf(c, u, o) = k THEN R[r][k] - 1 ELSE R[r][k],
           \A k \in Resources : LimitOf(c, k) \in Nat
    PROVE  Counted(c, v, W, C, S, ts)
  <1>0. Moved(c, u, B, C, Q, r, o)
    BY PushesOccurs
  <1>1. /\ \A x \in Objects : Main(v, x) <=> Main(u, x)
        /\ \A x \in Objects : Main(u, x) => v[x].tid = u[x].tid /\ v[x].at = u[x].at
    BY KinMain DEF Joins
  <1>2. ~u[o].ins /\ o \in Objects /\ Main(u, o) /\ r \in RobsOf(c)
    BY <1>0 DEF Moved, Waits, Joins, Pushes
  <1>3. \A p \in RobsOf(c) : \A x \in Objects : Occurs(x, C[p]) <=> Occurs(x, B[p]) \/ (p = r /\ x = o)
    BY <1>0 DEF Moved
  <1>4. InSched(v) = InSched(u)
    BY <1>1 DEF InSched, Joins
  <1>5. \A p : InSchedOf(v, p) = InSchedOf(u, p)
    BY <1>1, <1>2 DEF InSchedOf, Joins
  <1>6. \A t : ToDispatch(v, t) = ToDispatch(u, t)
    BY <1>1 DEF ToDispatch, Joins
  <1>7. \A x \in Objects : Main(u, x) => KindOf(c, v, x) = KindOf(c, u, x)
    BY <1>1 DEF KindOf
  <1>8. \A p \in RobsOf(c), x \in Objects : Occurs(x, B[p]) => Main(u, x)
    BY DEF Homes
  <1>9. ASSUME NEW p \in RobsOf(c), p # r
        PROVE  /\ W[p].free = c.rob - Len(C[p])
               /\ \A k \in Resources : W[p][k] = LimitOf(c, k) - Cardinality(Holding(c, v, C[p], k))
    <2>1. W[p] = R[p] /\ C[p] = B[p]
      BY <1>9 DEF Pushes
    <2>2. \A k \in Resources : Holding(c, v, C[p], k) = Holding(c, u, B[p], k)
      BY <1>7, <1>8, <2>1 DEF Holding
    <2> QED BY <2>1, <2>2 DEF Counted
  <1>10. W[r].free = c.rob - Len(C[r])
    <2>1. Len(C[r]) = Len(B[r]) + 1 /\ Len(B[r]) \in Nat
      <3> DEFINE b == B[r]
      <3>1. b \in Seq(Objects) /\ C[r] = Append(b, o)
        BY <1>2 DEF Pushes, Homes
      <3> HIDE DEF b
      <3>2. Len(C[r]) = Len(b) + 1 /\ Len(b) \in Nat
        BY <1>2, <3>1, OneMore, LenProperties
      <3> QED BY <3>2 DEF b
    <2>2. R[r].free = c.rob - Len(B[r])
      BY <1>2 DEF Counted
    <2> QED BY <2>1, <2>2
  <1>11. ASSUME NEW k \in Resources
         PROVE  W[r][k] = LimitOf(c, k) - Cardinality(Holding(c, v, C[r], k))
    <2>1. R[r][k] = LimitOf(c, k) - Cardinality(Holding(c, u, B[r], k))
      BY <1>2 DEF Counted
    <2>2. Holding(c, u, B[r], k) \in SUBSET Objects
      BY DEF Holding
    <2>3. IsFiniteSet(Holding(c, u, B[r], k))
      BY <2>2, CountsFinite
    <2>4. Cardinality(Holding(c, u, B[r], k)) \in Nat
      BY <2>3, FS_CardinalityType
    <2>5. CASE KindOf(c, u, o) = k
      <3>1. o \notin Holding(c, u, B[r], k)
        BY <1>0, <1>2 DEF Holding, Moved
      <3>2. \A x : x \in Holding(c, v, C[r], k) <=> x \in Holding(c, u, B[r], k) \/ x = o
        BY <1>2, <1>3, <1>7, <1>8, <2>5 DEF Holding
      <3>3. Cardinality(Holding(c, v, C[r], k)) = Cardinality(Holding(c, u, B[r], k)) + 1
        BY <2>3, <3>1, <3>2, CountMore
      <3>4. W[r][k] = R[r][k] - 1 /\ LimitOf(c, k) \in Nat
        BY <2>5
      <3> QED BY <2>1, <2>4, <3>3, <3>4
    <2>6. CASE KindOf(c, u, o) # k
      <3>1. \A x : x \in Holding(c, v, C[r], k) <=> x \in Holding(c, u, B[r], k)
        BY <1>2, <1>3, <1>7, <1>8, <2>6 DEF Holding
      <3>2. Holding(c, v, C[r], k) = Holding(c, u, B[r], k)
        BY <3>1
      <3>3. W[r][k] = R[r][k]
        BY <2>6
      <3> QED BY <2>1, <3>2, <3>3
    <2> QED BY <2>5, <2>6
  <1> QED BY <1>4, <1>5, <1>6, <1>9, <1>10, <1>11 DEF Counted

LEMMA JoinsInOrder ==
    ASSUME NEW c, 0 \in RobsOf(c), NEW u, NEW v, NEW B, NEW C, NEW Q, NEW R, NEW W, NEW r, NEW o, NEW q, NEW A, NEW S,
           Homes(c, u, B, Q), Waits(c, u, R, B, Q, A), InOrder(c, u, R, B, S),
           Joins(u, v, o, q), Pushes(c, R, W, B, C, r, o), First(c, u, Q, r, o)
    PROVE  InOrder(c, v, W, C, S)
  <1> SUFFICES ASSUME c.kind = "io" PROVE InOrder(c, v, W, C, S)
    BY DEF InOrder
  <1>0. Moved(c, u, B, C, Q, r, o)
    BY PushesOccurs
  <1>1. PICK j \in 0 .. Len(B[0]) : /\ S.next = SlotOf(R[0].first, j + 1, 2 * c.rob)
                                    /\ \A i \in 1 .. Len(B[0]) : u[B[0][i]].issued <=> i <= j
    BY DEF InOrder
  <1>2. ~u[o].issued /\ o \in Objects
    BY <1>0 DEF Moved, Waits, Joins
  <1>3. r = 0
    BY DEF Pushes, RobsOf, RobFor
  <1> DEFINE b == B[0]
             d == C[0]
  <1>4. b \in Seq(Objects) /\ d = Append(b, o) /\ W[0].first = R[0].first
    BY <1>3 DEF Homes, Pushes
  <1>5. \A i \in 1 .. Len(b) : u[b[i]].issued <=> i <= j
    BY <1>1
  <1>6. j \in 0 .. Len(b) /\ S.next = SlotOf(W[0].first, j + 1, 2 * c.rob)
    BY <1>1, <1>4
  <1> HIDE DEF b, d
  <1>7. /\ Len(d) = Len(b) + 1 /\ d[Len(b) + 1] = o /\ Len(b) \in Nat
        /\ \A i \in 1 .. Len(b) : d[i] = b[i] /\ b[i] \in Objects
    BY <1>2, <1>4, Appended, LenProperties, ElementOfSeq
  <1>8. \A i \in 1 .. Len(d) : v[d[i]].issued <=> i <= j
    <2> TAKE i \in 1 .. Len(d)
    <2>1. CASE i = Len(b) + 1
      <3>1. ~v[d[i]].issued
        BY <1>2, <1>7, <2>1 DEF Joins
      <3>2. ~(i <= j)
        BY <1>6, <1>7, <2>1
      <3> QED BY <3>1, <3>2
    <2>2. CASE i # Len(b) + 1
      <3>1. i \in 1 .. Len(b)
        BY <1>7, <2>2
      <3> QED BY <1>5, <1>7, <3>1 DEF Joins
    <2> QED BY <2>1, <2>2
  <1>9. j \in 0 .. Len(d)
    BY <1>6, <1>7
  <1> QED BY <1>6, <1>8, <1>9 DEF InOrder, d

LEMMA JoinsWhole ==
    ASSUME NEW c, 0 \in RobsOf(c), c.rob \in Nat, NEW u, NEW v, NEW B, NEW C, NEW Q, NEW R, NEW W, NEW r, NEW o, NEW q,
           NEW A, NEW D, NEW e, NEW S, NEW ts, NEW mp, NEW M, NEW P, Whole(c, u, R, B, Q, A, S, ts, mp, M, P),
           Joins(u, v, o, q), Pushes(c, R, W, B, C, r, o), First(c, u, Q, r, o),
           e = <<r, R[r].last>>, Given(A, D, q, e),
           W[r].free = R[r].free - 1,
           \A k \in Resources : W[r][k] = IF KindOf(c, u, o) = k THEN R[r][k] - 1 ELSE R[r][k],
           \A k \in Resources : LimitOf(c, k) \in Nat
    PROVE  Whole(c, v, W, C, Tail(Q), D, S, ts, mp, M, P)
  <1>1. /\ Homes(c, u, B, Q) /\ Ordered(c, u, B, Q, ts) /\ Owned(u, P) /\ Answered(u, M)
        /\ Rings(c, R, B) /\ Waits(c, u, R, B, Q, A) /\ Scheduled(c, u, R, B, S)
        /\ Counted(c, u, R, B, S, ts) /\ InOrder(c, u, R, B, S) /\ Mapped(c, u, ts, mp)
    BY DEF Whole
  <1>2. Kin(u, v)
    BY DEF Joins
  <1>3. Homes(c, v, C, Tail(Q))
    BY <1>1, JoinsHomes
  <1>4. Ordered(c, v, C, Tail(Q), ts)
    BY <1>1, JoinsOrdered
  <1>5. Owned(v, P)
    BY <1>1, <1>2, KinOwned
  <1>6. Answered(v, M)
    BY <1>1, <1>2, NearerAnswered DEF Joins
  <1>7. Rings(c, W, C)
    BY <1>1, PushesRings
  <1>8. Waits(c, v, W, C, Tail(Q), D)
    BY <1>1, JoinsWaits
  <1>9. Scheduled(c, v, W, C, S)
    BY <1>1, JoinsScheduled
  <1>10. Counted(c, v, W, C, S, ts)
    BY <1>1, JoinsCounted
  <1>11. InOrder(c, v, W, C, S)
    BY <1>1, JoinsInOrder
  <1>12. Mapped(c, v, ts, mp)
    BY <1>1, <1>2, KinMapped DEF Joins
  <1> QED BY <1>3, <1>4, <1>5, <1>6, <1>7, <1>8, <1>9, <1>10, <1>11, <1>12 DEF Whole

--------------------------------------------------------------------------------
\* The uop o and its children kids are taken from the pool P: N stays, and o becomes the
\* next uop of thread t.
Split(P, N, o, kids) ==
    /\ o \in Objects /\ Occurs(o, P) /\ ~Occurs(o, kids) /\ ~Occurs(o, N)
    /\ kids \in Seq(Objects) /\ OnceEach(kids) /\ N \in Seq(Objects) /\ OnceEach(N)
    /\ \A x \in Objects : Occurs(x, kids) => Occurs(x, P) /\ ~Occurs(x, N)
    /\ \A x \in Objects : Occurs(x, N) => Occurs(x, P)
Begins(c, u, v, t, o, kids, ts) ==
    /\ t \in TidsOf(c) /\ ts[t].next <= Len(c.prog[t + 1])
    /\ v[o].valid /\ v[o].tid = t /\ v[o].at = ts[t].next /\ v[o].children = kids
    /\ ~v[o].ins /\ ~v[o].issued /\ v[o].done = Unset /\ ~v[o].rdy /\ v[o].childDone = 0
    /\ v[o].pending = 1 .. Len(kids)
    /\ kids # <<>> => c.prog[t + 1][ts[t].next].kind \in {"ld", "st"}
    /\ \A x \in Objects : Occurs(x, kids) => v[x].valid /\ v[x].at = 0 /\ ~v[x].ins
    /\ \A x \in Objects : x # o /\ ~Occurs(x, kids) => v[x] = u[x]
Advances(c, ts, us, t) ==
    \A s \in TidsOf(c) : /\ us[s].retired = ts[s].retired
                         /\ us[s].next = IF s = t THEN ts[s].next + 1 ELSE ts[s].next
                         /\ us[s].dispatch = IF s = t THEN ts[s].dispatch + 1 ELSE ts[s].dispatch

LEMMA PoolSplit ==
    ASSUME NEW P \in Seq(Objects), OnceEach(P), NEW n \in Nat, n < Len(P), NEW o, o = Head(P),
           NEW kids, kids = SubSeq(P, 2, n + 1), NEW N, N = SubSeq(P, n + 2, Len(P))
    PROVE  Split(P, N, o, kids) /\ Len(kids) = n /\ \A i \in 1 .. n : kids[i] = P[i + 1]
  <1>1. Len(P) \in Nat /\ \A i \in 1 .. Len(P) : P[i] \in Objects
    BY LenProperties, ElementOfSeq
  <1>2. o = P[1] /\ 1 \in 1 .. Len(P)
    BY <1>1, EmptySeq, HeadTailProperties
  <1>3. /\ kids \in Seq(Objects) /\ Len(kids) = n /\ \A i \in 1 .. n : kids[i] = P[i + 1]
    <2>1. 2 \in 1 .. Len(P) + 1 /\ n + 1 \in 1 .. Len(P)
      BY <1>1
    <2> QED BY <1>1, <2>1, SubSeqProperties
  <1>4. /\ N \in Seq(Objects) /\ Len(N) = Len(P) - n - 1 /\ \A i \in 1 .. Len(N) : N[i] = P[i + n + 1]
    <2>1. n + 2 \in 1 .. Len(P) + 1
      BY <1>1
    <2> QED BY <1>1, <2>1, SubSeqProperties
  <1>5. \A i \in 1 .. n : i + 1 \in 1 .. Len(P)
    BY <1>1
  <1>6. \A i \in 1 .. Len(N) : i + n + 1 \in 1 .. Len(P)
    BY <1>1, <1>4
  <1>7. OnceEach(kids)
    <2> SUFFICES ASSUME NEW i \in 1 .. n, NEW j \in 1 .. n, kids[i] = kids[j] PROVE i = j
      BY <1>3 DEF OnceEach
    <2>1. P[i + 1] = P[j + 1] /\ i + 1 \in 1 .. Len(P) /\ j + 1 \in 1 .. Len(P)
      BY <1>3, <1>5
    <2>2. i + 1 = j + 1
      BY <2>1 DEF OnceEach
    <2> QED BY <2>2
  <1>8. OnceEach(N)
    BY <1>4, <1>6 DEF OnceEach
  <1>9. Occurs(o, P) /\ ~Occurs(o, kids) /\ ~Occurs(o, N)
    <2>1. Occurs(o, P)
      BY <1>2 DEF Occurs
    <2>2. ~Occurs(o, kids)
      BY <1>2, <1>3, <1>5 DEF Occurs, OnceEach
    <2>3. ~Occurs(o, N)
      <3> SUFFICES ASSUME NEW i \in 1 .. Len(N), N[i] = o PROVE FALSE
        BY DEF Occurs
      <3>1. i + n + 1 = 1
        BY <1>2, <1>4, <1>6 DEF OnceEach
      <3> QED BY <3>1
    <2> QED BY <2>1, <2>2, <2>3
  <1>10. ASSUME NEW x \in Objects, Occurs(x, kids) PROVE Occurs(x, P) /\ ~Occurs(x, N)
    <2>1. PICK i \in 1 .. n : P[i + 1] = x
      BY <1>3, <1>10 DEF Occurs
    <2>2. ASSUME NEW k \in 1 .. Len(N), N[k] = x PROVE FALSE
      <3>1. i + 1 = k + n + 1
        BY <1>4, <1>5, <1>6, <2>1, <2>2 DEF OnceEach
      <3> QED BY <3>1
    <2> QED BY <1>5, <2>1, <2>2 DEF Occurs
  <1>11. \A x \in Objects : Occurs(x, N) => Occurs(x, P)
    BY <1>4, <1>6 DEF Occurs
  <1> QED BY <1>1, <1>2, <1>3, <1>4, <1>7, <1>8, <1>9, <1>10, <1>11 DEF Split

LEMMA BeginsMain ==
    ASSUME NEW c, NEW u, NEW v, NEW B, NEW Q, NEW P, NEW N, NEW t, NEW o, NEW kids, NEW ts,
           Owned(u, P), Ordered(c, u, B, Q, ts), Split(P, N, o, kids), Begins(c, u, v, t, o, kids, ts)
    PROVE  /\ o \in Objects /\ ~Main(u, o) /\ Main(v, o)
           /\ \A x \in Objects : Main(v, x) <=> Main(u, x) \/ x = o
           /\ \A x \in Objects : Main(u, x) => v[x] = u[x] /\ x # o
           /\ \A x \in Objects : u[x].valid => v[x] = u[x] /\ ~Occurs(x, P)
  <1>1. ts[t].next \in Nat /\ ts[t].next > 0 /\ v[o].at = ts[t].next
    <2>1. ts[t].retired \in Nat /\ ts[t].next \in Nat /\ ts[t].retired < ts[t].next
      BY DEF Ordered, Begins
    <2> QED BY <2>1 DEF Begins
  <1>2. o \in Objects /\ ~u[o].valid /\ v[o].valid
    BY DEF Owned, Split, Begins
  <1>3. \A x \in Objects : u[x].valid => v[x] = u[x] /\ ~Occurs(x, P) /\ x # o
    BY DEF Owned, Split, Begins
  <1>4. Main(v, o) /\ ~Main(u, o)
    BY <1>1, <1>2 DEF Main
  <1>5. ASSUME NEW x \in Objects, Main(v, x), x # o PROVE Main(u, x)
    <2>1. ~Occurs(x, kids)
      BY <1>5 DEF Begins, Main
    <2> QED BY <1>5, <2>1 DEF Begins, Main
  <1>6. \A x \in Objects : Main(u, x) => v[x] = u[x] /\ x # o /\ Main(v, x)
    BY <1>3 DEF Main
  <1> QED BY <1>2, <1>3, <1>4, <1>5, <1>6

LEMMA BeginsHomes ==
    ASSUME NEW c, NEW u, NEW v, NEW B, NEW Q, NEW P, NEW N, NEW t, NEW o, NEW kids, NEW ts,
           Homes(c, u, B, Q), Owned(u, P), Ordered(c, u, B, Q, ts), Split(P, N, o, kids),
           Begins(c, u, v, t, o, kids, ts)
    PROVE  /\ Homes(c, v, B, Append(Q, o)) /\ ~Occurs(o, Q) /\ \A r \in RobsOf(c) : ~Occurs(o, B[r])
           /\ \A x : Occurs(x, Append(Q, o)) <=> Occurs(x, Q) \/ x = o
  <1>1. /\ o \in Objects /\ ~Main(u, o) /\ Main(v, o)
        /\ \A x \in Objects : Main(v, x) <=> Main(u, x) \/ x = o
        /\ \A x \in Objects : Main(u, x) => v[x] = u[x] /\ x # o
        /\ \A x \in Objects : u[x].valid => v[x] = u[x] /\ ~Occurs(x, P)
    BY BeginsMain
  <1>2. ~Occurs(o, Q) /\ \A r \in RobsOf(c) : ~Occurs(o, B[r])
    BY <1>1 DEF Homes
  <1> DEFINE D == Append(Q, o)
  <1>3. Q \in Seq(Objects) /\ OnceEach(Q)
    BY DEF Homes
  <1>4. D \in Seq(Objects) /\ OnceEach(D) /\ \A x : Occurs(x, D) <=> Occurs(x, Q) \/ x = o
    <2>1. o \in Objects /\ ~Occurs(o, Q) /\ D = Append(Q, o)
      BY <1>1, <1>2
    <2> HIDE DEF D
    <2> QED BY ONLY <1>3, <2>1, OneMore
  <1>5. ASSUME NEW x \in Objects, Main(v, x)
        PROVE  /\ v[x].tid \in TidsOf(c) /\ v[x].at \in 1 .. Len(c.prog[v[x].tid + 1])
               /\ v[x].children # <<>> => KindOf(c, v, x) \in {"ld", "st"}
    <2>1. CASE x = o
      <3>1. ts[t].next \in Nat /\ ts[t].retired \in Nat /\ ts[t].retired < ts[t].next
            /\ ts[t].next <= Len(c.prog[t + 1]) + 1 /\ ts[t].next <= Len(c.prog[t + 1])
        BY DEF Ordered, Begins
      <3>2. v[x].at = ts[t].next /\ v[x].tid = t /\ t \in TidsOf(c) /\ v[x].children = kids
        BY <2>1 DEF Begins
      <3>3. v[x].at \in 1 .. Len(c.prog[v[x].tid + 1])
        BY <3>1, <3>2, <1>5 DEF Main
      <3>4. v[x].children # <<>> => KindOf(c, v, x) \in {"ld", "st"}
        BY <3>2 DEF Begins, KindOf
      <3> QED BY <3>2, <3>3, <3>4
    <2>2. CASE x # o
      <3>1. Main(u, x) /\ v[x] = u[x]
        BY <1>1, <1>5, <2>2
      <3> QED BY <3>1 DEF Homes, KindOf
    <2> QED BY <2>1, <2>2
  <1> HIDE DEF D
  <1>6. \A r \in RobsOf(c) : B[r] \in Seq(Objects) /\ OnceEach(B[r])
    BY DEF Homes
  <1>7. \A r \in RobsOf(c), x \in Objects : Occurs(x, B[r]) =>
          Main(v, x) /\ r = RobFor(c, v[x].tid) /\ ~Occurs(x, D)
    BY <1>1, <1>2, <1>4 DEF Homes
  <1>8. \A x \in Objects : Occurs(x, D) => Main(v, x)
    BY <1>1, <1>4 DEF Homes
  <1>9. \A x \in Objects : Main(v, x) => Occurs(x, D) \/ Occurs(x, B[RobFor(c, v[x].tid)])
    BY <1>1, <1>4 DEF Homes
  <1>10. Homes(c, v, B, D)
    BY <1>4, <1>5, <1>6, <1>7, <1>8, <1>9 DEF Homes
  <1> QED BY <1>2, <1>4, <1>10 DEF D

LEMMA BeginsOrdered ==
    ASSUME NEW c, NEW u, NEW v, NEW B, NEW Q, NEW P, NEW N, NEW t, NEW o, NEW kids, NEW ts, NEW us,
           Homes(c, u, B, Q), Owned(u, P), Ordered(c, u, B, Q, ts), Split(P, N, o, kids),
           Begins(c, u, v, t, o, kids, ts), Advances(c, ts, us, t)
    PROVE  Ordered(c, v, B, Append(Q, o), us)
  <1>1. /\ o \in Objects /\ ~Main(u, o) /\ Main(v, o)
        /\ \A x \in Objects : Main(v, x) <=> Main(u, x) \/ x = o
        /\ \A x \in Objects : Main(u, x) => v[x] = u[x] /\ x # o
        /\ \A x \in Objects : u[x].valid => v[x] = u[x] /\ ~Occurs(x, P)
    BY BeginsMain
  <1>2. /\ Homes(c, v, B, Append(Q, o)) /\ ~Occurs(o, Q) /\ \A r \in RobsOf(c) : ~Occurs(o, B[r])
        /\ \A x : Occurs(x, Append(Q, o)) <=> Occurs(x, Q) \/ x = o
    BY BeginsHomes
  <1>3. t \in TidsOf(c) /\ v[o].tid = t /\ v[o].at = ts[t].next /\ ts[t].next <= Len(c.prog[t + 1])
    BY DEF Begins
  <1>4. \A s \in TidsOf(c) : /\ ts[s].retired \in Nat /\ ts[s].next \in Nat /\ ts[s].retired < ts[s].next
                            /\ ts[s].next <= Len(c.prog[s + 1]) + 1
    BY DEF Ordered
  <1>5. \A s \in TidsOf(c) : /\ us[s].retired = ts[s].retired
                            /\ us[s].next = IF s = t THEN ts[s].next + 1 ELSE ts[s].next
    BY DEF Advances
  <1>6. \A x \in Objects : Main(u, x) =>
          u[x].tid \in TidsOf(c) /\ u[x].at \in Nat /\ ts[u[x].tid].retired < u[x].at /\ u[x].at < ts[u[x].tid].next
    BY DEF Homes, Ordered
  <1>7. \A s \in TidsOf(c) : /\ us[s].retired \in Nat /\ us[s].next \in Nat /\ us[s].retired < us[s].next
                            /\ us[s].next <= Len(c.prog[s + 1]) + 1
    <2> TAKE s \in TidsOf(c)
    <2>1. CASE s = t
      <3>1. Len(c.prog[s + 1]) + 1 >= ts[s].next + 1
        BY <1>3, <1>4, <2>1
      <3> QED BY <1>4, <1>5, <2>1, <3>1
    <2>2. CASE s # t
      BY <1>4, <1>5, <2>2
    <2> QED BY <2>1, <2>2
  <1>8. ASSUME NEW x \in Objects, Main(v, x)
        PROVE  us[v[x].tid].retired < v[x].at /\ v[x].at < us[v[x].tid].next
    <2>1. CASE x = o
      BY <1>3, <1>4, <1>5, <2>1
    <2>2. CASE x # o
      <3>1. Main(u, x) /\ v[x] = u[x]
        BY <1>1, <1>8, <2>2
      <3> QED BY <1>4, <1>5, <1>6, <3>1
    <2> QED BY <2>1, <2>2
  <1>9. \A x \in Objects : Main(u, x) /\ u[x].tid = t => u[x].at < v[o].at
    BY <1>3, <1>6
  <1>10. ASSUME NEW x \in Objects, NEW y \in Objects, Main(v, x), Main(v, y), v[x].tid = v[y].tid, v[x].at = v[y].at
         PROVE  x = y
    <2>1. CASE x = o /\ y # o
      <3>1. Main(u, y) /\ v[y] = u[y]
        BY <1>1, <1>10, <2>1
      <3>2. u[y].at < v[o].at /\ u[y].at \in Nat
        BY <1>3, <1>6, <1>9, <1>10, <2>1, <3>1
      <3> QED BY <1>10, <2>1, <3>1, <3>2
    <2>2. CASE x # o /\ y = o
      <3>1. Main(u, x) /\ v[x] = u[x]
        BY <1>1, <1>10, <2>2
      <3>2. u[x].at < v[o].at /\ u[x].at \in Nat
        BY <1>3, <1>6, <1>9, <1>10, <2>2, <3>1
      <3> QED BY <1>10, <2>2, <3>1, <3>2
    <2>3. CASE x # o /\ y # o
      BY <1>1, <1>10, <2>3 DEF Ordered
    <2> QED BY <2>1, <2>2, <2>3
  <1>11. ASSUME NEW s \in TidsOf(c), NEW a \in us[s].retired + 1 .. us[s].next - 1
         PROVE  \E x \in Objects : Main(v, x) /\ v[x].tid = s /\ v[x].at = a
    <2>1. CASE s = t /\ a = ts[t].next
      BY <1>1, <1>3, <2>1
    <2>2. CASE ~(s = t /\ a = ts[t].next)
      <3>1. a \in ts[s].retired + 1 .. ts[s].next - 1
        BY <1>4, <1>5, <2>2
      <3>2. PICK x \in Objects : Main(u, x) /\ u[x].tid = s /\ u[x].at = a
        BY <3>1 DEF Ordered
      <3> QED BY <1>1, <3>2
    <2> QED BY <2>1, <2>2
  <1>12. ASSUME NEW s \in Seq(Objects), Sorted(u, s), \A x \in Objects : Occurs(x, s) => Main(u, x)
         PROVE  Sorted(v, s)
    <2>1. \A i \in 1 .. Len(s) : v[s[i]] = u[s[i]]
      <3>1. \A i \in 1 .. Len(s) : s[i] \in Objects /\ Occurs(s[i], s)
        BY ElementOfSeq DEF Occurs
      <3> QED BY <1>1, <1>12, <3>1
    <2> QED BY <1>12, <2>1 DEF Sorted
  <1>13. \A r \in RobsOf(c) : Sorted(v, B[r])
    <2> TAKE r \in RobsOf(c)
    <2>1. B[r] \in Seq(Objects) /\ Sorted(u, B[r]) /\ \A x \in Objects : Occurs(x, B[r]) => Main(u, x)
      BY DEF Homes, Ordered
    <2> QED BY <1>12, <2>1
  <1>14. Sorted(v, Append(Q, o))
    <2> DEFINE D == Append(Q, o)
    <2>1. Q \in Seq(Objects) /\ Sorted(v, Q) /\ \A x \in Objects : Occurs(x, Q) => Main(u, x)
      BY <1>12 DEF Homes, Ordered
    <2>2. /\ Len(D) = Len(Q) + 1 /\ D[Len(Q) + 1] = o /\ Len(Q) \in Nat
          /\ \A i \in 1 .. Len(Q) : D[i] = Q[i] /\ Q[i] \in Objects /\ Occurs(Q[i], Q)
      BY <1>1, <2>1, Appended, LenProperties, ElementOfSeq DEF Occurs
    <2> HIDE DEF D
    <2>3. \A i \in 1 .. Len(Q) : v[Q[i]] = u[Q[i]] /\ Main(u, Q[i])
      BY <1>1, <2>1, <2>2
    <2>4. ASSUME NEW i \in 1 .. Len(D), NEW j \in 1 .. Len(D), i < j, v[D[i]].tid = v[D[j]].tid
          PROVE  v[D[i]].at < v[D[j]].at
      <3>1. i \in 1 .. Len(Q)
        BY <2>2, <2>4
      <3>2. CASE j = Len(Q) + 1
        <4>1. D[j] = o /\ D[i] = Q[i] /\ Q[i] \in Objects /\ Main(u, Q[i]) /\ v[Q[i]] = u[Q[i]]
          BY <2>2, <2>3, <3>1, <3>2
        <4>2. u[Q[i]].tid = t
          BY <1>3, <2>4, <4>1
        <4> QED BY <1>9, <4>1, <4>2
      <3>3. CASE j # Len(Q) + 1
        <4>1. j \in 1 .. Len(Q)
          BY <2>2, <3>3
        <4> QED BY <2>1, <2>2, <2>4, <3>1, <4>1 DEF Sorted
      <3> QED BY <3>2, <3>3
    <2>5. Sorted(v, D)
      BY ONLY <2>4 DEF Sorted
    <2> QED BY <2>5 DEF D
  <1>15. ASSUME NEW r \in RobsOf(c), NEW x \in Objects, NEW y \in Objects, Occurs(x, B[r]), Occurs(y, Append(Q, o)),
                v[x].tid = v[y].tid
         PROVE  v[x].at < v[y].at
    <2>1. Main(u, x) /\ v[x] = u[x]
      BY <1>1, <1>15 DEF Homes
    <2>2. CASE y = o
      BY <1>3, <1>9, <1>15, <2>1, <2>2
    <2>3. CASE y # o
      <3>1. Occurs(y, Q)
        BY <1>2, <1>15, <2>3
      <3>2. v[y] = u[y]
        BY <1>1, <3>1 DEF Homes
      <3> QED BY <1>15, <2>1, <3>1, <3>2 DEF Ordered
    <2> QED BY <2>2, <2>3
  <1> QED BY <1>7, <1>8, <1>10, <1>11, <1>13, <1>14, <1>15 DEF Ordered

LEMMA BeginsOwned ==
    ASSUME NEW c, NEW u, NEW v, NEW B, NEW Q, NEW P, NEW N, NEW t, NEW o, NEW kids, NEW ts,
           Owned(u, P), Ordered(c, u, B, Q, ts), Split(P, N, o, kids), Begins(c, u, v, t, o, kids, ts)
    PROVE  Owned(v, N)
  <1>1. /\ o \in Objects /\ ~Main(u, o) /\ Main(v, o)
        /\ \A x \in Objects : Main(v, x) <=> Main(u, x) \/ x = o
        /\ \A x \in Objects : Main(u, x) => v[x] = u[x] /\ x # o
        /\ \A x \in Objects : u[x].valid => v[x] = u[x] /\ ~Occurs(x, P)
    BY BeginsMain
  <1>2. N \in Seq(Objects) /\ OnceEach(N)
    BY DEF Split
  <1>3. \A x \in Objects : Occurs(x, N) => ~v[x].valid
    BY DEF Split, Begins, Owned
  <1>4. v[o].children = kids /\ kids \in Seq(Objects) /\ OnceEach(kids)
        /\ \A x \in Objects : Occurs(x, kids) => v[x].valid /\ v[x].at = 0 /\ Occurs(x, P)
    BY DEF Begins, Split
  <1>5. ASSUME NEW p \in Objects, Main(v, p), p # o
        PROVE  /\ v[p].children = u[p].children /\ Main(u, p)
               /\ u[p].children \in Seq(Objects) /\ OnceEach(u[p].children)
               /\ \A x \in Objects : Occurs(x, u[p].children) => v[x].valid /\ v[x].at = 0 /\ ~Occurs(x, P)
    <2>1. Main(u, p) /\ v[p] = u[p]
      BY <1>1, <1>5
    <2>2. /\ u[p].children \in Seq(Objects) /\ OnceEach(u[p].children)
          /\ \A x \in Objects : Occurs(x, u[p].children) => u[x].valid /\ u[x].at = 0
      BY <2>1 DEF Owned
    <2> QED BY <1>1, <2>1, <2>2
  <1>6. ASSUME NEW p \in Objects, Main(v, p)
        PROVE  /\ v[p].children \in Seq(Objects) /\ OnceEach(v[p].children)
               /\ \A x \in Objects : Occurs(x, v[p].children) => v[x].valid /\ v[x].at = 0
    BY <1>4, <1>5, <1>6
  <1>7. ASSUME NEW p \in Objects, NEW y \in Objects, NEW x \in Objects, Main(v, p), Main(v, y),
               Occurs(x, v[p].children), Occurs(x, v[y].children)
        PROVE  p = y
    <2>1. CASE p = o \/ y = o
      BY <1>4, <1>5, <1>7, <2>1
    <2>2. CASE p # o /\ y # o
      <3>1. Main(u, p) /\ Main(u, y) /\ v[p].children = u[p].children /\ v[y].children = u[y].children
        BY <1>5, <1>7, <2>2
      <3> QED BY <1>7, <3>1 DEF Owned
    <2> QED BY <2>1, <2>2
  <1> QED BY <1>2, <1>3, <1>6, <1>7 DEF Owned

LEMMA BeginsAnswered ==
    ASSUME NEW c, NEW u, NEW v, NEW B, NEW Q, NEW P, NEW N, NEW t, NEW o, NEW kids, NEW ts, NEW M,
           Owned(u, P), Ordered(c, u, B, Q, ts), Split(P, N, o, kids), Begins(c, u, v, t, o, kids, ts),
           Answered(u, M)
    PROVE  Answered(v, M)
  <1>1. /\ o \in Objects /\ ~Main(u, o) /\ Main(v, o)
        /\ \A x \in Objects : Main(v, x) <=> Main(u, x) \/ x = o
        /\ \A x \in Objects : Main(u, x) => v[x] = u[x] /\ x # o
        /\ \A x \in Objects : u[x].valid => v[x] = u[x] /\ ~Occurs(x, P)
    BY BeginsMain
  <1>2. IsFiniteSet(M)
    BY DEF Answered
  <1>3. \A m \in M : m.o \in Objects /\ Main(u, m.o) /\ v[m.o] = u[m.o] /\ m.o # o
    BY <1>1 DEF Answered
  <1>4. \A m \in M : /\ m = [o |-> m.o, child |-> m.child]
                     /\ m.o \in Objects /\ Main(v, m.o)
                     /\ v[m.o].children = <<>> => m.child = 0
                     /\ v[m.o].children # <<>> =>
                          m.child \in 1 .. Len(v[m.o].children) /\ m.child \notin v[m.o].pending
    BY <1>1, <1>3 DEF Answered
  <1>5. ASSUME NEW x \in Objects, v[x].ins PROVE Main(v, x)
    <2>1. ~Occurs(x, kids) /\ x # o
      BY <1>5 DEF Begins
    <2>2. v[x] = u[x]
      BY <2>1 DEF Begins
    <2> QED BY <1>1, <1>5, <2>2 DEF Answered
  <1>6. ASSUME NEW x \in Objects, Main(v, x)
        PROVE  /\ v[x].ins => ~v[x].issued
               /\ v[x].done # Unset => v[x].issued /\ Owed(M, x) = {}
               /\ v[x].pending \subseteq 1 .. Len(v[x].children)
               /\ v[x].issued => v[x].pending = {}
               /\ ~v[x].issued /\ v[x].children # <<>> => v[x].pending # {}
               /\ ~v[x].issued /\ v[x].children = <<>> => Owed(M, x) = {}
               /\ v[x].children # <<>> =>
                    v[x].childDone + Cardinality(Owed(M, x)) + Cardinality(v[x].pending) = Len(v[x].children)
    <2>1. CASE x = o
      <3>1. Owed(M, o) = {}
        BY <1>3 DEF Owed
      <3>2. kids \in Seq(Objects) /\ Len(kids) \in Nat /\ (kids # <<>> => Len(kids) > 0)
        BY LenProperties, EmptySeq DEF Split
      <3>3. Cardinality(1 .. Len(kids)) = Len(kids) /\ Cardinality({}) = 0
        <4> DEFINE n == Len(kids)
        <4>1. n \in Nat
          BY <3>2
        <4> HIDE DEF n
        <4>2. 1 \in Int /\ n \in Int /\ IF 1 > n THEN 0 = n ELSE n - 1 + 1 = n
          BY <4>1
        <4>3. Cardinality(1 .. n) = IF 1 > n THEN 0 ELSE n - 1 + 1
          BY <4>2, FS_Interval
        <4>4. Cardinality({}) = 0
          BY FS_EmptySet
        <4> QED BY <4>2, <4>3, <4>4 DEF n
      <3>4. /\ v[o].children = kids /\ ~v[o].ins /\ ~v[o].issued /\ v[o].done = Unset /\ v[o].childDone = 0
            /\ v[o].pending = 1 .. Len(kids)
        BY DEF Begins
      <3>5. kids # <<>> => 1 \in 1 .. Len(kids)
        BY <3>2
      <3>6. v[o].childDone + Cardinality(Owed(M, o)) + Cardinality(v[o].pending) = Len(kids)
        BY <3>1, <3>2, <3>3, <3>4
      <3> QED BY <2>1, <3>1, <3>4, <3>5, <3>6
    <2>2. CASE x # o
      <3>1. Main(u, x) /\ v[x] = u[x]
        BY <1>1, <1>6, <2>2
      <3> QED BY <3>1 DEF Answered
    <2> QED BY <2>1, <2>2
  <1> QED BY <1>2, <1>4, <1>5, <1>6 DEF Answered

LEMMA BeginsWaits ==
    ASSUME NEW c, NEW u, NEW v, NEW B, NEW Q, NEW P, NEW N, NEW t, NEW o, NEW kids, NEW ts, NEW R, NEW A, NEW S,
           Homes(c, u, B, Q), Owned(u, P), Ordered(c, u, B, Q, ts), Split(P, N, o, kids),
           Begins(c, u, v, t, o, kids, ts), Rings(c, R, B), Waits(c, u, R, B, Q, A), Scheduled(c, u, R, B, S)
    PROVE  Waits(c, v, R, B, Append(Q, o), A) /\ Scheduled(c, v, R, B, S)
  <1>1. /\ o \in Objects /\ ~Main(u, o) /\ Main(v, o)
        /\ \A x \in Objects : Main(v, x) <=> Main(u, x) \/ x = o
        /\ \A x \in Objects : Main(u, x) => v[x] = u[x] /\ x # o
        /\ \A x \in Objects : u[x].valid => v[x] = u[x] /\ ~Occurs(x, P)
    BY BeginsMain
  <1>2. /\ Homes(c, v, B, Append(Q, o)) /\ ~Occurs(o, Q) /\ \A r \in RobsOf(c) : ~Occurs(o, B[r])
        /\ \A x : Occurs(x, Append(Q, o)) <=> Occurs(x, Q) \/ x = o
    BY BeginsHomes
  <1>3. ~v[o].ins /\ ~v[o].issued
    BY DEF Begins
  <1>4. \A x \in Objects : Occurs(x, Append(Q, o)) => ~v[x].ins /\ ~v[x].issued
    <2> SUFFICES ASSUME NEW x \in Objects, Occurs(x, Append(Q, o)) PROVE ~v[x].ins /\ ~v[x].issued
      OBVIOUS
    <2>1. CASE x = o
      BY <1>3, <2>1
    <2>2. CASE x # o
      <3>1. Occurs(x, Q) /\ Main(u, x)
        BY <1>2, <2>2 DEF Homes
      <3> QED BY <1>1, <3>1 DEF Waits
    <2> QED BY <2>1, <2>2
  <1>5. \A e : Lives(c, R, B, e) => Behind(R, e) \in Objects /\ Main(u, Behind(R, e)) /\ v[Behind(R, e)] = u[Behind(R, e)]
    BY <1>1, LiveMain
  <1>6. \A q \in ToSet(Queues) : \A e \in ToSet(A[q][1]) :
          /\ Lives(c, R, B, e)
          /\ ~v[Behind(R, e)].ins /\ ~v[Behind(R, e)].issued /\ v[Behind(R, e)].q = q
    BY <1>5 DEF Waits
  <1>7. Waits(c, v, R, B, Append(Q, o), A)
    <2>1. \A q \in ToSet(Queues) : OnceEach(A[q][1])
      BY DEF Waits
    <2> QED BY <1>4, <1>6, <2>1 DEF Waits
  <1>8. Scheduled(c, v, R, B, S)
    <2> SUFFICES ASSUME c.kind # "io" PROVE Scheduled(c, v, R, B, S)
      BY DEF Scheduled
    <2>1. \A i \in 0 .. c.list - 1 : S.list[i] # <<>> =>
           /\ Inside(i, S.first, S.last)
           /\ Lives(c, R, B, S.list[i]) /\ v[Behind(R, S.list[i])].ins
      BY <1>5 DEF Scheduled
    <2>2. \A i, j \in 0 .. c.list - 1 : S.list[i] # <<>> /\ S.list[i] = S.list[j] => i = j
      BY DEF Scheduled
    <2>3. ASSUME NEW x \in Objects, Main(v, x), v[x].ins
          PROVE  \E i \in 0 .. c.list - 1 : S.list[i] # <<>> /\ Behind(R, S.list[i]) = x
      <3>1. Main(u, x) /\ u[x].ins
        BY <1>1, <1>3, <2>3
      <3> QED BY <3>1 DEF Scheduled
    <2> QED BY <2>1, <2>2, <2>3 DEF Scheduled
  <1> QED BY <1>7, <1>8

LEMMA BeginsCounted ==
    ASSUME NEW c, NEW u, NEW v, NEW B, NEW Q, NEW P, NEW N, NEW t, NEW o, NEW kids, NEW ts, NEW us, NEW R, NEW S,
           Homes(c, u, B, Q), Owned(u, P), Ordered(c, u, B, Q, ts), Split(P, N, o, kids),
           Begins(c, u, v, t, o, kids, ts), Advances(c, ts, us, t), Counted(c, u, R, B, S, ts)
    PROVE  Counted(c, v, R, B, S, us)
  <1>1. /\ o \in Objects /\ ~Main(u, o) /\ Main(v, o)
        /\ \A x \in Objects : Main(v, x) <=> Main(u, x) \/ x = o
        /\ \A x \in Objects : Main(u, x) => v[x] = u[x] /\ x # o
        /\ \A x \in Objects : u[x].valid => v[x] = u[x] /\ ~Occurs(x, P)
    BY BeginsMain
  <1>2. ~v[o].ins /\ ~v[o].issued /\ v[o].tid = t /\ t \in TidsOf(c)
    BY DEF Begins
  <1>3. InSched(v) = InSched(u)
    BY <1>1, <1>2 DEF InSched
  <1>4. \A q : InSchedOf(v, q) = InSchedOf(u, q)
    BY <1>1, <1>2 DEF InSchedOf
  <1>5. \A r \in RobsOf(c), k \in Resources : Holding(c, v, B[r], k) = Holding(c, u, B[r], k)
    <2> TAKE r \in RobsOf(c), k \in Resources
    <2>1. \A x \in Objects : Occurs(x, B[r]) => KindOf(c, v, x) = KindOf(c, u, x)
      BY <1>1 DEF Homes, KindOf
    <2> QED BY <2>1 DEF Holding
  <1>6. ASSUME NEW s \in TidsOf(c) PROVE us[s].dispatch = Cardinality(ToDispatch(v, s))
    <2>1. ts[s].dispatch = Cardinality(ToDispatch(u, s))
      BY DEF Counted
    <2>2. CASE s = t
      <3>1. ToDispatch(u, s) \in SUBSET Objects
        BY DEF ToDispatch
      <3>2. IsFiniteSet(ToDispatch(u, s))
        BY <3>1, CountsFinite
      <3>3. o \notin ToDispatch(u, s)
        BY <1>1 DEF ToDispatch
      <3>4. \A x : x \in ToDispatch(v, s) <=> x \in ToDispatch(u, s) \/ x = o
        BY <1>1, <1>2, <2>2 DEF ToDispatch
      <3>5. Cardinality(ToDispatch(v, s)) = Cardinality(ToDispatch(u, s)) + 1
        BY <3>2, <3>3, <3>4, CountMore
      <3> QED BY <2>1, <2>2, <3>5 DEF Advances
    <2>3. CASE s # t
      <3>1. \A x : x \in ToDispatch(v, s) <=> x \in ToDispatch(u, s)
        BY <1>1, <1>2, <2>3 DEF ToDispatch
      <3>2. ToDispatch(v, s) = ToDispatch(u, s)
        BY <3>1
      <3> QED BY <2>1, <2>3, <3>2 DEF Advances
    <2> QED BY <2>2, <2>3
  <1> QED BY <1>3, <1>4, <1>5, <1>6 DEF Counted

LEMMA BeginsInOrder ==
    ASSUME NEW c, 0 \in RobsOf(c), NEW u, NEW v, NEW B, NEW Q, NEW P, NEW N, NEW t, NEW o, NEW kids, NEW ts,
           NEW R, NEW S, Homes(c, u, B, Q), Owned(u, P), Ordered(c, u, B, Q, ts), Split(P, N, o, kids),
           Begins(c, u, v, t, o, kids, ts), InOrder(c, u, R, B, S)
    PROVE  InOrder(c, v, R, B, S)
  <1> SUFFICES ASSUME c.kind = "io" PROVE InOrder(c, v, R, B, S)
    BY DEF InOrder
  <1>1. /\ o \in Objects /\ ~Main(u, o) /\ Main(v, o)
        /\ \A x \in Objects : Main(v, x) <=> Main(u, x) \/ x = o
        /\ \A x \in Objects : Main(u, x) => v[x] = u[x] /\ x # o
        /\ \A x \in Objects : u[x].valid => v[x] = u[x] /\ ~Occurs(x, P)
    BY BeginsMain
  <1>2. PICK j \in 0 .. Len(B[0]) : /\ S.next = SlotOf(R[0].first, j + 1, 2 * c.rob)
                                    /\ \A i \in 1 .. Len(B[0]) : u[B[0][i]].issued <=> i <= j
    BY DEF InOrder
  <1>3. \A i \in 1 .. Len(B[0]) : B[0][i] \in Objects /\ Main(u, B[0][i])
    BY ElementOfSeq DEF Homes, Occurs
  <1>4. \A i \in 1 .. Len(B[0]) : v[B[0][i]].issued <=> i <= j
    BY <1>1, <1>2, <1>3
  <1> QED BY <1>2, <1>4 DEF InOrder

\* The register map names the new uop for the registers it writes; its sources are the
\* entries of the map before.
Renames(c, v, t, o, ts, mp, np) ==
    LET x == c.prog[t + 1][ts[t].next] IN
    /\ ToSet(x.src) \subseteq c.regs
    /\ \A g \in c.regs : np[t].reg[g] = IF g \in x.dst THEN [o |-> o, num |-> v[o].num] ELSE mp[t].reg[g]
    /\ \A s \in TidsOf(c) : s # t => np[s].reg = mp[s].reg
    /\ \A g \in ToSet(x.src) : \E i \in DOMAIN v[o].srcs : v[o].srcs[i] = mp[t].reg[g]

LEMMA BeginsMapped ==
    ASSUME NEW c, NEW u, NEW v, NEW B, NEW Q, NEW P, NEW N, NEW t, NEW o, NEW kids, NEW ts, NEW us, NEW mp, NEW np,
           Homes(c, u, B, Q), Owned(u, P), Ordered(c, u, B, Q, ts), Split(P, N, o, kids),
           Begins(c, u, v, t, o, kids, ts), Advances(c, ts, us, t), Renames(c, v, t, o, ts, mp, np),
           Mapped(c, u, ts, mp)
    PROVE  Mapped(c, v, us, np)
  <1>1. /\ o \in Objects /\ ~Main(u, o) /\ Main(v, o)
        /\ \A x \in Objects : Main(v, x) <=> Main(u, x) \/ x = o
        /\ \A x \in Objects : Main(u, x) => v[x] = u[x] /\ x # o
        /\ \A x \in Objects : u[x].valid => v[x] = u[x] /\ ~Occurs(x, P)
    BY BeginsMain
  <1> DEFINE n == ts[t].next
             x == c.prog[t + 1][n]
  <1>2. /\ t \in TidsOf(c) /\ v[o].tid = t /\ v[o].at = n /\ ~v[o].rdy
        /\ n \in Nat /\ us[t].next = n + 1 /\ us[t].retired = ts[t].retired
    BY DEF Begins, Advances, Ordered
  <1>3. /\ ToSet(x.src) \subseteq c.regs
        /\ \A g \in c.regs : np[t].reg[g] = IF g \in x.dst THEN [o |-> o, num |-> v[o].num] ELSE mp[t].reg[g]
        /\ \A s \in TidsOf(c) : s # t => np[s].reg = mp[s].reg
        /\ \A g \in ToSet(x.src) : \E i \in DOMAIN v[o].srcs : v[o].srcs[i] = mp[t].reg[g]
    BY DEF Renames
  <1>4. \A s \in TidsOf(c) : us[s].retired = ts[s].retired /\ (s # t => us[s].next = ts[s].next)
    BY DEF Advances
  <1>5. ASSUME NEW s \in TidsOf(c), NEW g \in c.regs, NEW j \in Nat, LastWriter(c, s, ts[s].next, g, j),
               j > ts[s].retired
        PROVE  \E p \in Objects : Main(v, p) /\ v[p].tid = s /\ v[p].at = j /\ Points(v, mp[s].reg[g], p)
    <2>1. PICK p \in Objects : Main(u, p) /\ u[p].tid = s /\ u[p].at = j /\ Points(u, mp[s].reg[g], p)
      BY <1>5 DEF Mapped
    <2> QED BY <1>1, <2>1 DEF Points
  <1>6. ASSUME NEW s \in TidsOf(c), NEW g \in c.regs, NEW j \in Nat, LastWriter(c, s, us[s].next, g, j),
               j > us[s].retired
        PROVE  \E p \in Objects : Main(v, p) /\ v[p].tid = s /\ v[p].at = j /\ Points(v, np[s].reg[g], p)
    <2>1. CASE s # t
      <3>1. us[s].next = ts[s].next /\ us[s].retired = ts[s].retired /\ np[s].reg = mp[s].reg
        BY <1>3, <1>4, <2>1
      <3> QED BY <1>5, <1>6, <3>1
    <2>2. CASE s = t
      <3>1. j \in 1 .. n /\ g \in c.prog[t + 1][j].dst /\ \A k \in j + 1 .. n : g \notin c.prog[t + 1][k].dst
        BY <1>2, <1>6, <2>2 DEF LastWriter
      <3>2. CASE j = n
        <4>1. np[t].reg[g] = [o |-> o, num |-> v[o].num]
          BY <1>3, <3>1, <3>2
        <4> QED BY <1>1, <1>2, <2>2, <3>2, <4>1 DEF Points
      <3>3. CASE j # n
        <4>1. n \in j + 1 .. n
          BY <1>2, <3>1, <3>3
        <4>2. np[t].reg[g] = mp[t].reg[g]
          BY <1>3, <3>1, <4>1
        <4>3. LastWriter(c, t, n, g, j)
          BY <1>2, <3>1, <3>3 DEF LastWriter
        <4>4. j > ts[t].retired
          BY <1>2, <1>6, <2>2
        <4> QED BY <1>5, <2>2, <4>2, <4>3, <4>4
      <3> QED BY <3>2, <3>3
    <2> QED BY <2>1, <2>2
  <1>7. ASSUME NEW y \in Objects, Main(v, y), NEW j \in Nat,
               NEW g \in ToSet(c.prog[v[y].tid + 1][v[y].at].src),
               LastWriter(c, v[y].tid, v[y].at, g, j), j > us[v[y].tid].retired
        PROVE  \E p \in Objects :
                 /\ Main(v, p) /\ v[p].tid = v[y].tid /\ v[p].at = j
                 /\ v[y].rdy => v[p].done = 0
                 /\ \E i \in DOMAIN v[y].srcs : Points(v, v[y].srcs[i], p)
    <2>1. CASE y = o
      <3>1. g \in ToSet(x.src) /\ g \in c.regs /\ LastWriter(c, t, n, g, j) /\ j > ts[t].retired
        BY <1>2, <1>3, <1>7, <2>1
      <3>2. PICK p \in Objects : Main(v, p) /\ v[p].tid = t /\ v[p].at = j /\ Points(v, mp[t].reg[g], p)
        BY <1>2, <1>5, <3>1
      <3>3. PICK i \in DOMAIN v[o].srcs : v[o].srcs[i] = mp[t].reg[g]
        BY <1>3, <3>1
      <3>4. Points(v, v[o].srcs[i], p)
        BY <3>2, <3>3
      <3> QED BY <1>2, <2>1, <3>2, <3>4
    <2>2. CASE y # o
      <3>1. Main(u, y) /\ v[y] = u[y] /\ u[y].tid \in TidsOf(c)
        BY <1>1, <1>7, <2>2 DEF Homes
      <3>2. j > ts[u[y].tid].retired /\ LastWriter(c, u[y].tid, u[y].at, g, j)
            /\ g \in ToSet(c.prog[u[y].tid + 1][u[y].at].src)
        BY <1>4, <1>7, <3>1
      <3>3. PICK p \in Objects :
              /\ Main(u, p) /\ u[p].tid = u[y].tid /\ u[p].at = j
              /\ u[y].rdy => u[p].done = 0
              /\ \E i \in DOMAIN u[y].srcs : Points(u, u[y].srcs[i], p)
        BY <3>1, <3>2 DEF Mapped
      <3>4. Main(v, p) /\ v[p] = u[p]
        BY <1>1, <3>3
      <3> QED BY <3>1, <3>3, <3>4 DEF Points
    <2> QED BY <2>1, <2>2
  <1> QED BY ONLY <1>6, <1>7 DEF Mapped

LEMMA BeginsWhole ==
    ASSUME NEW c, 0 \in RobsOf(c), NEW u, NEW v, NEW B, NEW Q, NEW P, NEW N, NEW t, NEW o, NEW kids, NEW ts, NEW us,
           NEW R, NEW A, NEW S, NEW mp, NEW np, NEW M, Whole(c, u, R, B, Q, A, S, ts, mp, M, P),
           Split(P, N, o, kids), Begins(c, u, v, t, o, kids, ts), Advances(c, ts, us, t),
           Renames(c, v, t, o, ts, mp, np)
    PROVE  Whole(c, v, R, B, Append(Q, o), A, S, us, np, M, N)
  <1>1. /\ Homes(c, u, B, Q) /\ Ordered(c, u, B, Q, ts) /\ Owned(u, P) /\ Answered(u, M)
        /\ Rings(c, R, B) /\ Waits(c, u, R, B, Q, A) /\ Scheduled(c, u, R, B, S)
        /\ Counted(c, u, R, B, S, ts) /\ InOrder(c, u, R, B, S) /\ Mapped(c, u, ts, mp)
    BY DEF Whole
  <1>2. Homes(c, v, B, Append(Q, o))
    BY <1>1, BeginsHomes
  <1>3. Ordered(c, v, B, Append(Q, o), us)
    BY <1>1, BeginsOrdered
  <1>4. Owned(v, N)
    BY <1>1, BeginsOwned
  <1>5. Answered(v, M)
    BY <1>1, BeginsAnswered
  <1>6. Waits(c, v, R, B, Append(Q, o), A) /\ Scheduled(c, v, R, B, S)
    BY <1>1, BeginsWaits
  <1>7. Counted(c, v, R, B, S, us)
    BY <1>1, BeginsCounted
  <1>8. InOrder(c, v, R, B, S)
    BY <1>1, BeginsInOrder
  <1>9. Mapped(c, v, us, np)
    BY <1>1, BeginsMapped
  <1> QED BY <1>1, <1>2, <1>3, <1>4, <1>5, <1>6, <1>7, <1>8, <1>9 DEF Whole

================================================================================
