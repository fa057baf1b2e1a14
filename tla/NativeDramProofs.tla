---------------------------- MODULE NativeDramProofs ----------------------------
(***************************************************************************)
(* MacSim's dram_controller_c loses, repeats and confuses no request, for  *)
(* any number of requests, addresses, banks and buffer entries, with and   *)
(* without MCsim, merging and delay.                                       *)
(***************************************************************************)
EXTENDS NativeDram, ListLemmas

\* The requests in the delay buffer, and the requests a bank holds.
Reqd(d) == [k \in DOMAIN d |-> d[k].req]
Holds(bk, q) == Occurs(q, bk.buf) \/ q = bk.cur

BankRecords ==
    [buf : Seq(Reqs), cur : Reqs \cup {None}, state : {"init", "cmd", "cmd_wait", "data", "data_wait"},
     row : Nat \cup {NoRow}, wait : Nat]

\* A bank holds requests for it, each once, serves the current one in its row, and has
\* room for what it holds.
BankSound(b, bk) ==
    /\ OnceEach(bk.buf) /\ ~Occurs(bk.cur, bk.buf)
    /\ \A q \in Reqs : Holds(bk, q) => bankOf(q) = b
    /\ bk.cur # None /\ bk.state \in {"data", "data_wait"} => rowOf(bk.cur) = bk.row
    /\ Entries(bk) <= BufferSize

\* Lists without repetitions and without common requests.
Four(R, P, D, O) ==
    /\ R \in Seq(Reqs) /\ P \in Seq(Reqs) /\ D \in Seq(Reqs) /\ O \in Seq(Reqs)
    /\ OnceEach(R) /\ OnceEach(P) /\ OnceEach(D) /\ OnceEach(O)
    /\ \A q \in Reqs :
        /\ Occurs(q, R) => ~Occurs(q, P) /\ ~Occurs(q, D) /\ ~Occurs(q, O)
        /\ Occurs(q, P) => ~Occurs(q, D) /\ ~Occurs(q, O)
        /\ Occurs(q, D) => ~Occurs(q, O)

Away(q) == \/ Occurs(q, routerQueue) \/ Occurs(q, m_pending_request)
           \/ Occurs(q, Reqd(m_tmp_output_buffer)) \/ Occurs(q, m_output_buffer)

\* The inductive invariant.
FrontTypes ==
    /\ additionalLatency \in Nat /\ outstanding \in [Addrs -> Nat]
    /\ m_tmp_output_buffer \in Seq([req : Reqs, wait : Nat])
    /\ additionalLatency = 0 => m_tmp_output_buffer = <<>>
BankTypes ==
    /\ merge \in BOOLEAN /\ bank \in [Banks -> BankRecords] /\ turns \in Seq(Banks)
    /\ dbus \in Nat /\ byteAvail \in Nat
BanksSound ==
    \A b \in Banks :
        /\ BankSound(b, bank[b]) /\ Occurs(b, turns)
        /\ \A q \in Reqs : Holds(bank[b], q) => ~Away(q)
BackEnd ==
    /\ policy = "MCSIM" => \A b \in Banks, q \in Reqs : ~Holds(bank[b], q)
    /\ policy # "MCSIM" => m_pending_request = <<>>

DramInv ==
    /\ FrontTypes /\ BankTypes
    /\ Four(routerQueue, m_pending_request, Reqd(m_tmp_output_buffer), m_output_buffer)
    /\ BanksSound /\ BackEnd /\ CallbackOwed

--------------------------------------------------------------------------------
(* The delay buffer and the way out. *)

Records == [req : Reqs, wait : Nat]

LEMMA ReqdProperties ==
    ASSUME NEW d \in Seq(Records)
    PROVE  /\ Reqd(d) \in Seq(Reqs) /\ Len(Reqd(d)) = Len(d) /\ Len(d) \in Nat
           /\ \A k \in 1..Len(d) : Reqd(d)[k] = d[k].req /\ d[k] \in Records
  <1>1. Len(d) \in Nat /\ DOMAIN d = 1..Len(d) /\ \A k \in 1..Len(d) : d[k] \in Records
    BY LenProperties, ElementOfSeq
  <1>2. \A k \in 1..Len(d) : d[k].req \in Reqs
    BY <1>1 DEF Records
  <1>3. Reqd(d) = [k \in 1..Len(d) |-> d[k].req]
    BY <1>1 DEF Reqd
  <1> QED BY <1>1, <1>2, <1>3

\* Waiting changes no request.
LEMMA Waited ==
    ASSUME NEW d \in Seq(Records), NEW e,
           e = [k \in DOMAIN d |-> [d[k] EXCEPT !.wait = IF @ > 0 THEN @ - 1 ELSE 0]]
    PROVE  e \in Seq(Records) /\ Reqd(e) = Reqd(d)
  <1>1. Len(d) \in Nat /\ DOMAIN d = 1..Len(d) /\ \A k \in 1..Len(d) : d[k] \in Records
    BY LenProperties, ReqdProperties
  <1>2. ASSUME NEW k \in 1..Len(d)
        PROVE  e[k] \in Records /\ e[k].req = d[k].req
    <2>1. d[k] \in Records /\ e[k] = [d[k] EXCEPT !.wait = IF @ > 0 THEN @ - 1 ELSE 0]
      BY <1>1
    <2>2. (IF d[k].wait > 0 THEN d[k].wait - 1 ELSE 0) \in Nat
      BY <2>1 DEF Records
    <2> QED BY <2>1, <2>2 DEF Records
  <1>3. e = [k \in 1..Len(d) |-> e[k]]
    BY <1>1
  <1>4. e \in Seq(Records) /\ DOMAIN e = 1..Len(d)
    BY <1>1, <1>2, <1>3
  <1> QED BY <1>1, <1>2, <1>4 DEF Reqd

\* What is released waits behind the others.
Waiting(r, w) == [k \in DOMAIN r |-> [req |-> r[k], wait |-> w]]
LEMMA Delays ==
    ASSUME NEW d \in Seq(Records), NEW r \in Seq(Reqs), NEW w \in Nat, NEW e,
           e = d \o Waiting(r, w)
    PROVE  e \in Seq(Records) /\ Reqd(e) = Reqd(d) \o r
  <1> USE DEF Waiting
  <1> DEFINE t == [k \in DOMAIN r |-> [req |-> r[k], wait |-> w]]
  <1>1. Len(r) \in Nat /\ DOMAIN r = 1..Len(r) /\ \A k \in 1..Len(r) : r[k] \in Reqs
    BY LenProperties, ElementOfSeq
  <1>2. \A k \in 1..Len(r) : t[k] \in Records /\ t[k].req = r[k]
    BY <1>1 DEF Records
  <1>3. t \in Seq(Records) /\ Len(t) = Len(r)
    BY <1>1, <1>2
  <1>0. e = d \o t
    OBVIOUS
  <1> HIDE DEF t
  <1>4. /\ e \in Seq(Records) /\ Len(e) = Len(d) + Len(r)
        /\ \A k \in 1..(Len(d) + Len(r)) : e[k] = IF k <= Len(d) THEN d[k] ELSE t[k - Len(d)]
    <2>1. /\ d \o t \in Seq(Records) /\ Len(d \o t) = Len(d) + Len(t)
          /\ \A k \in 1..(Len(d) + Len(t)) :
                (d \o t)[k] = IF k <= Len(d) THEN d[k] ELSE t[k - Len(d)]
      BY <1>3, ConcatProperties
    <2> QED BY <1>0, <1>3, <2>1
  <1>5. /\ Reqd(e) \in Seq(Reqs) /\ Len(Reqd(e)) = Len(d) + Len(r)
        /\ \A k \in 1..(Len(d) + Len(r)) : Reqd(e)[k] = e[k].req
    BY <1>4, ReqdProperties
  <1>6. /\ Reqd(d) \in Seq(Reqs) /\ Len(Reqd(d)) = Len(d) /\ Len(d) \in Nat
        /\ \A k \in 1..Len(d) : Reqd(d)[k] = d[k].req
    BY ReqdProperties
  <1>7. /\ Reqd(d) \o r \in Seq(Reqs) /\ Len(Reqd(d) \o r) = Len(d) + Len(r)
        /\ \A k \in 1..(Len(d) + Len(r)) :
                (Reqd(d) \o r)[k] = IF k <= Len(d) THEN Reqd(d)[k] ELSE r[k - Len(d)]
    BY <1>6, ConcatProperties
  <1>8. ASSUME NEW k \in 1..(Len(d) + Len(r)) PROVE Reqd(e)[k] = (Reqd(d) \o r)[k]
    <2>1. CASE k <= Len(d)
      <3>1. k \in 1..Len(d)
        BY <1>6, <2>1
      <3>2. Reqd(e)[k] = e[k].req /\ e[k] = d[k]
        BY <2>1, <1>4, <1>5
      <3>3. (Reqd(d) \o r)[k] = Reqd(d)[k] /\ Reqd(d)[k] = d[k].req
        BY <2>1, <3>1, <1>6, <1>7
      <3> QED BY <3>2, <3>3
    <2>2. CASE ~(k <= Len(d))
      <3>1. k - Len(d) \in 1..Len(r)
        BY <1>1, <1>6, <2>2
      <3> QED BY <3>1, <2>2, <1>2, <1>4, <1>5, <1>7
    <2> QED BY <2>1, <2>2
  <1> QED BY <1>4, <1>5, <1>7, <1>8, SeqEqual

\* delay_packet moves requests from the front, and no more than there are.
LEMMA DueInRange ==
    ASSUME m_tmp_output_buffer \in Seq(Records)
    PROVE  Due \in 0..Len(m_tmp_output_buffer)
  <1> DEFINE d == m_tmp_output_buffer
             early == {k \in DOMAIN d : d[k].wait > 0}
  <1>1. Len(d) \in Nat /\ DOMAIN d = 1..Len(d)
    BY LenProperties
  <1>2. CASE early = {}
    BY <1>1, <1>2 DEF Due
  <1>3. CASE early # {}
    <2> DEFINE k == CHOOSE k \in early : \A j \in early : k <= j
    <2>1. early \subseteq Nat
      BY <1>1
    <2>2. k \in early
      <3> HIDE DEF early
      <3>1. \E x \in early : \A y \in early : x <= y
        BY <1>3, <2>1, Least
      <3> QED BY <3>1
    <2>3. Due = k - 1
      BY <1>3 DEF Due
    <2>4. k \in 1..Len(d)
      BY <1>1, <2>2
    <2> HIDE DEF k
    <2> QED BY <1>1, <2>3, <2>4
  <1> QED BY <1>2, <1>3

LEMMA ReqdPiece ==
    ASSUME NEW d \in Seq(Records), NEW u \in 0..Len(d)
    PROVE  /\ [k \in 1..u |-> d[k].req] = SubSeq(Reqd(d), 1, u)
           /\ SubSeq(d, u + 1, Len(d)) \in Seq(Records)
           /\ Reqd(SubSeq(d, u + 1, Len(d))) = SubSeq(Reqd(d), u + 1, Len(d))
  <1> DEFINE n == Len(d)
             r == Reqd(d)
             a == [k \in 1..u |-> d[k].req]
             b == SubSeq(d, u + 1, n)
  <1>1. /\ r \in Seq(Reqs) /\ Len(r) = n /\ n \in Nat /\ u \in Nat
        /\ \A k \in 1..n : r[k] = d[k].req /\ d[k] \in Records /\ r[k] \in Reqs
    BY ReqdProperties, ElementOfSeq
  <1>2. a = SubSeq(r, 1, u)
    <2>1. \A k \in 1..u : k \in 1..n
      BY <1>1
    <2>2. /\ SubSeq(r, 1, u) \in Seq(Reqs) /\ Len(SubSeq(r, 1, u)) = u
          /\ \A k \in 1..u : SubSeq(r, 1, u)[k] = r[k]
      BY <1>1, <2>1, SubSeqProperties
    <2>3. a \in Seq(Reqs) /\ Len(a) = u /\ \A k \in 1..u : a[k] = r[k]
      BY <1>1, <2>1
    <2> HIDE DEF a, r
    <2> QED BY <2>2, <2>3, SeqEqual
  <1>3. /\ b \in Seq(Records) /\ Len(b) = n - u
        /\ \A k \in 1..(n - u) : b[k] = d[u + k] /\ u + k \in 1..n
    <2>1. \A k \in (u + 1)..n : d[k] \in Records
      BY <1>1
    <2>2. /\ b \in Seq(Records) /\ Len(b) = IF u + 1 <= n THEN n - (u + 1) + 1 ELSE 0
          /\ \A k \in 1..(n - (u + 1) + 1) : b[k] = d[(u + 1) + k - 1]
      BY <1>1, <2>1, SubSeqProperties
    <2> QED BY <1>1, <2>2
  <1>4. /\ SubSeq(r, u + 1, n) \in Seq(Reqs) /\ Len(SubSeq(r, u + 1, n)) = n - u
        /\ \A k \in 1..(n - u) : SubSeq(r, u + 1, n)[k] = r[u + k]
    <2>1. \A k \in (u + 1)..n : r[k] \in Reqs
      BY <1>1
    <2>2. /\ SubSeq(r, u + 1, n) \in Seq(Reqs)
          /\ Len(SubSeq(r, u + 1, n)) = IF u + 1 <= n THEN n - (u + 1) + 1 ELSE 0
          /\ \A k \in 1..(n - (u + 1) + 1) : SubSeq(r, u + 1, n)[k] = r[(u + 1) + k - 1]
      BY <1>1, <2>1, SubSeqProperties
    <2> QED BY <1>1, <2>2
  <1>5. Reqd(b) = SubSeq(r, u + 1, n)
    <2> HIDE DEF b, r
    <2>1. /\ Reqd(b) \in Seq(Reqs) /\ Len(Reqd(b)) = n - u
          /\ \A k \in 1..(n - u) : Reqd(b)[k] = b[k].req
      BY <1>3, ReqdProperties
    <2>2. \A k \in 1..(n - u) : Reqd(b)[k] = SubSeq(r, u + 1, n)[k]
      BY <1>1, <1>3, <1>4, <2>1
    <2> QED BY <1>4, <2>1, <2>2, SeqEqual
  <1> QED BY <1>2, <1>3, <1>5

--------------------------------------------------------------------------------
(* The banks. *)

Parts == [bank : [Banks -> BankRecords], turns : Seq(Banks), dbus : Nat, byteAvail : Nat,
          done : Seq(Reqs)]

\* What every part of a cycle keeps: replies and what the banks hold are apart.
Sound(x) ==
    /\ OnceEach(x.done)
    /\ \A b \in Banks : BankSound(b, x.bank[b]) /\ Occurs(b, x.turns)
    /\ \A q \in Reqs :
        /\ Occurs(q, x.done) => ~Away(q)
        /\ \A b \in Banks : Holds(x.bank[b], q) => ~Away(q) /\ ~Occurs(q, x.done)
Good == {x \in Parts : Sound(x)}

Becoming(x, b, k, out, y) ==
    /\ y.bank = [x.bank EXCEPT ![b] = k] /\ y.done = x.done \o out
    /\ y.turns \in Seq(Banks) /\ \A c \in Banks : Occurs(c, y.turns)
    /\ y.dbus \in Nat /\ y.byteAvail \in Nat
    /\ y = [bank |-> y.bank, turns |-> y.turns, dbus |-> y.dbus,
            byteAvail |-> y.byteAvail, done |-> y.done]

\* A part of a cycle that changes one bank and answers requests the bank no longer holds.
LEMMA Changed ==
    ASSUME NEW x \in Good, NEW b \in Banks, NEW k \in BankRecords, BankSound(b, k),
           \A q \in Reqs : Holds(k, q) => Holds(x.bank[b], q),
           NEW out \in Seq(Reqs), OnceEach(out),
           \A q \in Reqs : Occurs(q, out) => Holds(x.bank[b], q) /\ ~Holds(k, q),
           NEW y, Becoming(x, b, k, out, y)
    PROVE  y \in Good
  <1> USE DEF Becoming
  <1>1. x \in Parts /\ Sound(x)
    BY DEF Good
  <1>2. /\ \A c \in Banks : y.bank[c] = IF c = b THEN k ELSE x.bank[c]
        /\ y.bank \in [Banks -> BankRecords]
    BY <1>1 DEF Parts
  <1>3. x.done \in Seq(Reqs) /\ OnceEach(x.done)
    BY <1>1 DEF Parts, Sound
  <1>4. \A q \in Reqs : Occurs(q, out) => ~Occurs(q, x.done) /\ ~Away(q)
    BY <1>1 DEF Sound
  <1>5. ASSUME NEW q PROVE ~(Occurs(q, x.done) /\ Occurs(q, out))
    <2>1. Occurs(q, out) => q \in Reqs
      BY ElementOfSeq DEF Occurs
    <2> QED BY <1>4, <2>1
  <1>6. /\ y.done \in Seq(Reqs) /\ OnceEach(y.done)
        /\ \A q : Occurs(q, y.done) <=> Occurs(q, x.done) \/ Occurs(q, out)
    BY <1>3, <1>5, Joined
  <1>7. ASSUME NEW q \in Reqs, NEW c \in Banks, Holds(y.bank[c], q)
        PROVE  ~Away(q) /\ ~Occurs(q, y.done)
    <2>1. Holds(x.bank[c], q) /\ bankOf(q) = c
      BY <1>1, <1>2, <1>7 DEF Sound, BankSound
    <2>2. ~Occurs(q, out)
      <3>1. Occurs(q, out) => bankOf(q) = b
        BY <1>1 DEF Sound, BankSound
      <3> QED BY <1>2, <1>7, <2>1, <3>1
    <2> QED BY <1>1, <1>6, <2>1, <2>2 DEF Sound
  <1>8. \A c \in Banks : BankSound(c, y.bank[c])
    BY <1>1, <1>2 DEF Sound
  <1>9. y \in Parts
    BY <1>2, <1>6 DEF Parts
  <1>10. Sound(y)
    BY <1>1, <1>4, <1>6, <1>7, <1>8 DEF Sound
  <1> QED BY <1>9, <1>10 DEF Good

\* What the loops over the time stamps find.
LEMMA OldestReady ==
    ASSUME NEW x \in Good, NEW ready \in SUBSET Banks, ready # {}
    PROVE  Oldest(x, ready) \in ready
  <1> DEFINE t == x.turns
             ks == {i \in DOMAIN t : t[i] \in ready}
  <1>1. t \in Seq(Banks) /\ DOMAIN t = 1..Len(t) /\ Len(t) \in Nat
    BY LenProperties DEF Good, Parts
  <1>2. ks \subseteq Nat /\ ks # {}
    <2>1. PICK c \in ready : TRUE
      OBVIOUS
    <2>2. Occurs(c, t)
      BY <2>1 DEF Good, Sound
    <2> QED BY <1>1, <2>1, <2>2 DEF Occurs
  <1>3. Min(ks) \in ks
    <2> HIDE DEF ks
    <2>1. \E i \in ks : \A j \in ks : i <= j
      BY <1>2, Least
    <2> QED BY <2>1 DEF Min
  <1> QED BY <1>3 DEF Oldest

\* The next command of a bank.
LEMMA CommandSound ==
    ASSUME NEW b \in Banks, NEW k \in BankRecords, BankSound(b, k), k.cur # None,
           NEW l, l = Command(k)
    PROVE  /\ l \in BankRecords /\ BankSound(b, l) /\ \A q : Holds(l, q) <=> Holds(k, q)
  <1>1. rowOf(k.cur) \in Nat
    BY NativeAssumption DEF BankRecords, rowOf, Addrs
  <1>2. l \in BankRecords /\ l.buf = k.buf /\ l.cur = k.cur
    BY <1>1, NativeAssumption DEF Command, BankRecords
  <1>3. l.state \in {"data", "data_wait"} => rowOf(l.cur) = l.row
    BY DEF Command, BankRecords
  <1>4. Entries(l) = Entries(k)
    BY <1>2 DEF Entries
  <1> QED BY <1>2, <1>3, <1>4 DEF BankSound, Holds

\* Nothing is answered when a bank gets a command.
LEMMA ChannelCommand ==
    ASSUME NEW x \in Good
    PROVE  channel_schedule_cmd(x) \in Good
  <1> DEFINE ready == {b \in Banks : Busy(x, b, "cmd")}
             b == Oldest(x, ready)
             k == Command(x.bank[b])
             y == [x EXCEPT !.bank[b] = k]
  <1>1. CASE ready = {}
    BY <1>1 DEF channel_schedule_cmd
  <1>2. CASE ready # {}
    <2>1. b \in ready
      BY <1>2, OldestReady
    <2>2. channel_schedule_cmd(x) = y
      BY <1>2 DEF channel_schedule_cmd
    <2> HIDE DEF b
    <2>3. b \in Banks /\ x.bank[b].cur # None /\ x \in Parts /\ Sound(x)
      BY <2>1 DEF Busy, Good
    <2>4. x.bank[b] \in BankRecords /\ BankSound(b, x.bank[b])
      BY <2>3 DEF Parts, Sound
    <2>5. /\ k \in BankRecords /\ BankSound(b, k)
          /\ \A q : Holds(k, q) <=> Holds(x.bank[b], q)
      BY <2>3, <2>4, CommandSound
    <2> HIDE DEF k
    <2> DEFINE out == <<>>
    <2>6. Becoming(x, b, k, out, y)
      BY <2>3 DEF Parts, Sound, Becoming
    <2>7. out \in Seq(Reqs) /\ OnceEach(out) /\ \A q : ~Occurs(q, out)
      BY DEF OnceEach, Occurs
    <2> HIDE DEF y, out
    <2>9. y \in Good
      BY <2>3, <2>5, <2>6, <2>7, Changed
    <2> QED BY <2>2, <2>9
  <1> QED BY <1>1, <1>2

\* Taking the data bus changes how long a bank waits, no request.
LEMMA AcquireSound ==
    ASSUME NEW x \in Good, NEW b \in Banks, Busy(x, b, "data")
    PROVE  acquire_data_bus(x, b) \in Good
  <1> DEFINE size == SizeOf[x.bank[b].cur]
             k == [x.bank[b] EXCEPT !.wait = BusCycles(x, size), !.state = "data_wait"]
             y == acquire_data_bus(x, b)
             out == <<>>
  <1>1. x \in Parts /\ Sound(x) /\ x.bank[b] \in BankRecords /\ BankSound(b, x.bank[b])
    BY DEF Good, Parts, Sound
  <1>2. x.bank[b].cur \in Reqs /\ x.bank[b].state = "data"
    BY <1>1 DEF Busy, BankRecords
  <1>3. size \in Nat /\ BusWidth \in Nat \ {0} /\ x.byteAvail \in Nat
    BY <1>1, <1>2, NativeAssumption DEF Parts
  <1> HIDE DEF size
  <1>4. BusCycles(x, size) \in Nat /\ BytesLeft(x, size) \in Nat
    <2>1. ASSUME NEW d \in Nat PROVE d \div BusWidth \in Nat /\ d % BusWidth \in 0..(BusWidth - 1)
      BY <1>3
    <2>2. ~(size < x.byteAvail) => size - x.byteAvail \in Nat
      BY <1>3
    <2>3. BusCycles(x, size) \in Nat
      BY <2>1, <2>2 DEF BusCycles
    <2>4. BytesLeft(x, size) \in Nat
      <3>1. CASE size < x.byteAvail
        BY <1>3, <3>1 DEF BytesLeft
      <3>2. CASE ~(size < x.byteAvail)
        <4> DEFINE m == (size - x.byteAvail) % BusWidth
        <4>1. m \in 0..(BusWidth - 1)
          BY <2>1, <2>2, <3>2
        <4>2. BytesLeft(x, size) = BusWidth - m
          BY <3>2 DEF BytesLeft
        <4> HIDE DEF m
        <4> QED BY <1>3, <4>1, <4>2
      <3> QED BY <3>1, <3>2
    <2> QED BY <2>3, <2>4
  <1>5. /\ k \in BankRecords /\ k.buf = x.bank[b].buf /\ k.cur = x.bank[b].cur
        /\ k.row = x.bank[b].row
    BY <1>1, <1>4 DEF BankRecords
  <1>6. y = [x EXCEPT !.dbus = BusCycles(x, size), !.byteAvail = BytesLeft(x, size),
                      !.bank = [x.bank EXCEPT ![b] = k]]
    BY <1>1 DEF acquire_data_bus, size, Parts
  <1> HIDE DEF k
  <1>7. Becoming(x, b, k, out, y)
    <2>1. y = [bank |-> [x.bank EXCEPT ![b] = k], turns |-> x.turns, dbus |-> BusCycles(x, size),
               byteAvail |-> BytesLeft(x, size), done |-> x.done]
      BY <1>1, <1>6 DEF Parts
    <2>2. x.done \o out = x.done
      BY <1>1 DEF Parts
    <2> HIDE DEF y, out
    <2> QED BY <1>1, <1>4, <2>1, <2>2 DEF Parts, Sound, Becoming
  <1>8. Entries(k) = Entries(x.bank[b])
    BY <1>5 DEF Entries
  <1>9. BankSound(b, k) /\ \A q \in Reqs : Holds(k, q) => Holds(x.bank[b], q)
    BY <1>1, <1>2, <1>5, <1>8 DEF BankSound, Holds
  <1>10. out \in Seq(Reqs) /\ OnceEach(out) /\ \A q : ~Occurs(q, out)
    BY DEF OnceEach, Occurs
  <1> HIDE DEF y, out
  <1>11. y \in Good
    BY <1>5, <1>7, <1>9, <1>10, Changed
  <1> QED BY <1>11 DEF y

\* A cycle of the data bus: at most one bank takes it.
LEMMA DataTurnSound ==
    ASSUME NEW x \in Good, NEW k \in Banks
    PROVE  DataTurn(x, k) \in Good
  <1> DEFINE ready == {b \in Banks : Busy(x, b, "data") /\ x.bank[b].wait = 0}
             b == Oldest(x, ready)
  <1>1. CASE x.dbus > 0 \/ ready = {}
    BY <1>1 DEF DataTurn
  <1>2. CASE ~(x.dbus > 0 \/ ready = {})
    <2>1. b \in ready
      BY <1>2, OldestReady
    <2>2. DataTurn(x, k) = acquire_data_bus(x, b)
      BY <1>2 DEF DataTurn
    <2> HIDE DEF b
    <2> QED BY <2>1, <2>2, AcquireSound
  <1> QED BY <1>1, <1>2

\* A bank answers its current request and those merged with it, and forgets them.
LEMMA CompleteSound ==
    ASSUME NEW x \in Good, NEW b \in Banks
    PROVE  Complete(x, b) \in Good
  <1> DEFINE old == x.bank[b]
             gone == Merged(old)
             all == Append(gone, old.cur)
             out == Replies(all)
             left == Kept(old.buf, Reqs \ ToSet(gone))
             k == [old EXCEPT !.buf = left, !.cur = None]
             y == Complete(x, b)
  <1>1. x \in Parts /\ Sound(x) /\ old \in BankRecords /\ BankSound(b, old)
    BY DEF Good, Parts, Sound
  <1>2. CASE ~(Busy(x, b, "data_wait") /\ old.wait = 0)
    BY <1>2 DEF Complete
  <1>3. CASE Busy(x, b, "data_wait") /\ old.wait = 0
    <2>1. old.cur \in Reqs /\ old.buf \in Seq(Reqs) /\ OnceEach(old.buf) /\ ~Occurs(old.cur, old.buf)
      BY <1>1, <1>3 DEF Busy, BankRecords, BankSound
    <2>2. /\ gone \in Seq(Reqs) /\ OnceEach(gone)
          /\ \A q : Occurs(q, gone) => Occurs(q, old.buf)
      <3>1. CASE merge
        <4>1. gone = Kept(old.buf, To(AddrOf[old.cur]))
          BY <3>1 DEF Merged
        <4> QED BY <2>1, <4>1, KeptProperties
      <3>2. CASE ~merge
        <4>1. gone = <<>>
          BY <3>2 DEF Merged
        <4> QED BY <4>1 DEF OnceEach, Occurs
      <3> QED BY <3>1, <3>2
    <2> HIDE DEF gone
    <2>3. /\ all \in Seq(Reqs) /\ OnceEach(all)
          /\ \A q : Occurs(q, all) <=> Occurs(q, gone) \/ q = old.cur
      <3>1. all = Append(gone, old.cur)
        OBVIOUS
      <3> DEFINE cur == old.cur
      <3> HIDE DEF all, cur
      <3>2. cur \in Reqs /\ ~Occurs(cur, gone) /\ all = Append(gone, cur)
        BY <2>1, <2>2, <3>1 DEF cur
      <3>3. /\ all \in Seq(Reqs) /\ OnceEach(all)
            /\ \A q : Occurs(q, all) <=> Occurs(q, gone) \/ q = cur
        BY <2>2, <3>2, OneMore
      <3> QED BY <3>3 DEF cur
    <2> HIDE DEF all
    <2>4. /\ out \in Seq(Reqs) /\ OnceEach(out)
          /\ \A q : Occurs(q, out) => Occurs(q, all)
      BY <2>3, KeptProperties DEF Replies
    <2>5. \A q : q \in ToSet(gone) <=> Occurs(q, gone)
      BY <2>2, CountedOnce
    <2>6. /\ left \in Seq(Reqs) /\ OnceEach(left) /\ Len(left) <= Len(old.buf)
          /\ \A q : Occurs(q, left) <=> Occurs(q, old.buf) /\ q \in Reqs \ ToSet(gone)
      BY <2>1, KeptProperties
    <2>7. y = [x EXCEPT !.bank = [x.bank EXCEPT ![b] = k], !.done = x.done \o out]
      BY <1>1, <1>3 DEF Complete, Parts, gone, all
    <2> HIDE DEF out, left
    <2>8. k \in BankRecords /\ k.buf = left /\ k.cur = None
      BY <1>1, <2>6 DEF BankRecords
    <2> HIDE DEF k
    <2>9. Becoming(x, b, k, out, y)
      BY <1>1, <2>7 DEF Parts, Sound, Becoming
    <2>10. \A q \in Reqs : Holds(k, q) <=> Occurs(q, left)
      BY <2>8, NativeAssumption DEF Holds
    <2>11. \A q \in Reqs : Holds(k, q) => Holds(old, q)
      BY <2>6, <2>10 DEF Holds
    <2>12. \A q \in Reqs : Occurs(q, out) => Holds(old, q) /\ ~Holds(k, q)
      BY <2>1, <2>2, <2>3, <2>4, <2>5, <2>6, <2>10 DEF Holds
    <2>13. ~Occurs(None, left)
      <3>1. \A q : Occurs(q, left) => q \in Reqs
        BY <2>6
      <3> QED BY <3>1, NativeAssumption
    <2>14. Entries(k) <= BufferSize
      <3>1. Len(left) \in Nat /\ Len(old.buf) \in Nat /\ BufferSize \in Nat
        BY <2>1, <2>6, LenProperties, NativeAssumption
      <3>2. Entries(old) = Len(old.buf) + 1 /\ Entries(k) = Len(left) + 0
        BY <1>3, <2>8 DEF Entries, Busy
      <3>3. Entries(old) <= BufferSize
        BY <1>1 DEF BankSound
      <3> QED BY <2>6, <3>1, <3>2, <3>3
    <2>15. BankSound(b, k)
      BY <1>1, <2>6, <2>8, <2>11, <2>13, <2>14 DEF BankSound
    <2> HIDE DEF y, old
    <2>16. y \in Good
      BY <2>4, <2>8, <2>9, <2>11, <2>12, <2>15, Changed DEF old
    <2> QED BY <2>16 DEF y
  <1> QED BY <1>2, <1>3

\* The scheduler finds a request in every buffer that is not empty.
LEMMA ScheduleInRange ==
    ASSUME NEW k, k.buf \in Seq(Reqs), k.buf # <<>>
    PROVE  schedule(k) \in 1..Len(k.buf)
  <1> DEFINE n == Len(k.buf)
             late(i) == TypeOf[k.buf[i]] = "prefetch"
             miss(i) == rowOf(k.buf[i]) # k.row
             first(i) == \A j \in (1..n) \ {i} : Before(k, i, j)
  <1>1. n \in Nat /\ n >= 1 /\ DOMAIN k.buf = 1..n
    BY LenProperties, EmptySeq
  <1>2. ASSUME NEW T \in SUBSET (1..n), T # {},
               \A i \in T, j \in 1..n : \/ (~late(i) /\ late(j))
                                        \/ (late(i) <=> late(j)) /\ ~miss(i) /\ miss(j)
                                        \/ (late(i) <=> late(j)) /\ (miss(i) <=> miss(j)) /\ j \in T
        PROVE  \E i \in 1..n : first(i)
    <2>1. T \subseteq Nat
      OBVIOUS
    <2>2. PICK i \in T : \A j \in T : i <= j
      BY <1>2, <2>1, Least
    <2>3. ASSUME NEW j \in 1..n, j # i PROVE Before(k, i, j)
      <3>1. CASE ~late(i) /\ late(j)
        BY <3>1 DEF Before
      <3>2. CASE (late(i) <=> late(j)) /\ ~miss(i) /\ miss(j)
        BY <3>2 DEF Before
      <3>3. CASE (late(i) <=> late(j)) /\ (miss(i) <=> miss(j)) /\ j \in T
        <4>1. i < j
          BY <2>1, <2>2, <2>3, <3>3
        <4> QED BY <3>3, <4>1 DEF Before
      <3> QED BY <1>2, <2>2, <2>3, <3>1, <3>2, <3>3
    <2> QED BY <2>2, <2>3
  <1>3. \E i \in 1..n : first(i)
    <2> HIDE DEF first
    <2> DEFINE A == {i \in 1..n : ~late(i) /\ ~miss(i)}
               B == {i \in 1..n : ~late(i)}
               C == {i \in 1..n : ~miss(i)}
    <2>1. CASE A # {}
      BY <1>2, <2>1
    <2>2. CASE A = {} /\ B # {}
      BY <1>2, <2>2
    <2>3. CASE B = {} /\ C # {}
      BY <1>2, <2>3
    <2>4. CASE B = {} /\ C = {}
      <3>1. (1..n) \in SUBSET (1..n) /\ 1 \in 1..n
        BY <1>1
      <3> QED BY <1>2, <2>4, <3>1
    <2> QED BY <2>1, <2>2, <2>3, <2>4
  <1>4. CASE policy = "FCFS"
    BY <1>1, <1>4 DEF schedule
  <1>5. CASE policy # "FCFS"
    <2>1. schedule(k) = CHOOSE i \in 1..n : first(i)
      BY <1>1, <1>5 DEF schedule
    <2> HIDE DEF first
    <2> QED BY <1>3, <2>1
  <1> QED BY <1>4, <1>5

\* The banks stay those there are when one of them is stamped.
LEMMA StampedSound ==
    ASSUME NEW t \in Seq(Banks), \A c \in Banks : Occurs(c, t), NEW b \in Banks,
           NEW u, u = Append(Kept(t, Banks \ {b}), b)
    PROVE  u \in Seq(Banks) /\ \A c \in Banks : Occurs(c, u)
  <1> DEFINE v == Kept(t, Banks \ {b})
  <1>1. v \in Seq(Banks) /\ \A c : Occurs(c, v) <=> Occurs(c, t) /\ c \in Banks \ {b}
    BY KeptProperties
  <1>2. u = Append(v, b)
    OBVIOUS
  <1> HIDE DEF v
  <1>3. u \in Seq(Banks) /\ \A c : Occurs(c, u) <=> Occurs(c, v) \/ c = b
    <2>1. v \in Seq(Banks) /\ b \in Banks /\ u = Append(v, b)
      BY <1>1, <1>2
    <2> QED BY ONLY <2>1, OneMore
  <1> QED BY <1>1, <1>3

\* A bank takes a request from its buffer, or is ready for its next command.
LEMMA ScheduleSound ==
    ASSUME NEW x \in Good, NEW b \in Banks
    PROVE  ScheduleBank(x, b) \in Good
  <1> DEFINE old == x.bank[b]
             y == ScheduleBank(x, b)
             u == Append(Kept(x.turns, Banks \ {b}), b)
             out == <<>>
  <1>1. /\ x \in Parts /\ Sound(x) /\ old \in BankRecords /\ BankSound(b, old)
        /\ old.buf \in Seq(Reqs)
    BY DEF Good, Parts, Sound, BankRecords
  <1>2. u \in Seq(Banks) /\ \A c \in Banks : Occurs(c, u)
    BY <1>1, StampedSound DEF Parts, Sound
  <1> HIDE DEF u
  <1>3. out \in Seq(Reqs) /\ OnceEach(out) /\ (\A q : ~Occurs(q, out)) /\ x.done \o out = x.done
    BY <1>1 DEF OnceEach, Occurs, Parts
  <1> HIDE DEF out
  <1>4. CASE old.cur = None /\ old.buf # <<>>
    <2> DEFINE i == schedule(old)
               left == RemoveAt(old.buf, i)
               k == [old EXCEPT !.cur = old.buf[i], !.state = "cmd", !.buf = left]
    <2>1. i \in 1..Len(old.buf)
      BY <1>1, <1>4, ScheduleInRange
    <2>2. y = [bank |-> [x.bank EXCEPT ![b] = k], turns |-> u, dbus |-> x.dbus,
               byteAvail |-> x.byteAvail, done |-> x.done]
      <3> DEFINE z == [x EXCEPT !.bank[b] = k]
      <3>1. y = Stamped(z, b)
        BY <1>4 DEF ScheduleBank
      <3>2. z = [bank |-> [x.bank EXCEPT ![b] = k], turns |-> x.turns, dbus |-> x.dbus,
                 byteAvail |-> x.byteAvail, done |-> x.done]
        <4> DEFINE changed == [x.bank EXCEPT ![b] = k]
        <4>1. z = [x EXCEPT !.bank = changed]
          OBVIOUS
        <4> HIDE DEF changed
        <4>2. [x EXCEPT !.bank = changed] = [bank |-> changed, turns |-> x.turns, dbus |-> x.dbus,
                                             byteAvail |-> x.byteAvail, done |-> x.done]
          BY <1>1 DEF Parts
        <4> QED BY <4>1, <4>2 DEF changed
      <3> HIDE DEF z, y, k
      <3>3. /\ z.bank = [x.bank EXCEPT ![b] = k] /\ z.turns = x.turns /\ z.dbus = x.dbus
            /\ z.byteAvail = x.byteAvail /\ z.done = x.done
        BY <3>2
      <3>4. Append(Kept(z.turns, Banks \ {b}), b) = u
        BY <3>3 DEF u
      <3>5. Stamped(z, b) = [z EXCEPT !.turns = u]
        BY <3>4 DEF Stamped
      <3>6. [z EXCEPT !.turns = u] = [bank |-> z.bank, turns |-> u, dbus |-> z.dbus,
                                      byteAvail |-> z.byteAvail, done |-> z.done]
        BY <3>2
      <3> QED BY <3>1, <3>3, <3>5, <3>6
    <2> HIDE DEF i
    <2>3. OnceEach(old.buf)
      BY <1>1 DEF BankSound
    <2>4. /\ left \in Seq(Reqs) /\ OnceEach(left)
          /\ \A q : Occurs(q, left) <=> Occurs(q, old.buf) /\ q # old.buf[i]
      BY <1>1, <2>1, <2>3, WithoutOne
    <2>5. Len(left) = Len(old.buf) - 1 /\ Len(old.buf) \in Nat
      BY <1>1, <2>1, RemoveAtProperties, LenProperties
    <2>6. old.buf[i] \in Reqs /\ Occurs(old.buf[i], old.buf)
      BY <1>1, <2>1, ElementOfSeq DEF Occurs
    <2> HIDE DEF left
    <2>7. k \in BankRecords /\ k.buf = left /\ k.cur = old.buf[i] /\ k.state = "cmd"
      BY <1>1, <2>4, <2>6 DEF BankRecords
    <2> HIDE DEF k
    <2>8. \A q \in Reqs : Holds(k, q) => Holds(old, q)
      BY <2>4, <2>6, <2>7 DEF Holds
    <2>9. Entries(k) <= BufferSize
      <3>1. k.cur # None
        BY <2>6, <2>7, NativeAssumption
      <3>2. Entries(k) = Len(left) + 1 /\ Entries(old) = Len(old.buf) + 0
        BY <1>4, <2>7, <3>1 DEF Entries
      <3> QED BY <1>1, <2>5, <3>2 DEF BankSound
    <2>10. BankSound(b, k)
      BY <1>1, <2>4, <2>7, <2>8, <2>9 DEF BankSound
    <2> HIDE DEF y
    <2>11. Becoming(x, b, k, out, y)
      BY <1>1, <1>2, <1>3, <2>2 DEF Parts, Sound, Becoming
    <2> HIDE DEF old
    <2>12. y \in Good
      BY <1>3, <2>7, <2>8, <2>10, <2>11, Changed DEF old
    <2> QED BY <2>12 DEF y
  <1>5. CASE ~(old.cur = None /\ old.buf # <<>>) /\ Busy(x, b, "cmd_wait") /\ old.wait = 0
    <2> DEFINE k == [old EXCEPT !.state = "cmd"]
    <2>1. y = [bank |-> [x.bank EXCEPT ![b] = k], turns |-> u, dbus |-> x.dbus,
               byteAvail |-> x.byteAvail, done |-> x.done]
      <3> DEFINE z == [x EXCEPT !.bank[b].state = "cmd"]
      <3>1. y = Stamped(z, b)
        BY <1>5 DEF ScheduleBank
      <3>2. z = [bank |-> [x.bank EXCEPT ![b] = k], turns |-> x.turns, dbus |-> x.dbus,
                 byteAvail |-> x.byteAvail, done |-> x.done]
        <4> DEFINE changed == [x.bank EXCEPT ![b] = k]
        <4>1. z = [x EXCEPT !.bank = changed]
          OBVIOUS
        <4> HIDE DEF changed
        <4>2. [x EXCEPT !.bank = changed] = [bank |-> changed, turns |-> x.turns, dbus |-> x.dbus,
                                             byteAvail |-> x.byteAvail, done |-> x.done]
          BY <1>1 DEF Parts
        <4> QED BY <4>1, <4>2 DEF changed
      <3> HIDE DEF z, y, k
      <3>3. /\ z.bank = [x.bank EXCEPT ![b] = k] /\ z.turns = x.turns /\ z.dbus = x.dbus
            /\ z.byteAvail = x.byteAvail /\ z.done = x.done
        BY <3>2
      <3>4. Append(Kept(z.turns, Banks \ {b}), b) = u
        BY <3>3 DEF u
      <3>5. Stamped(z, b) = [z EXCEPT !.turns = u]
        BY <3>4 DEF Stamped
      <3>6. [z EXCEPT !.turns = u] = [bank |-> z.bank, turns |-> u, dbus |-> z.dbus,
                                      byteAvail |-> z.byteAvail, done |-> z.done]
        BY <3>2
      <3> QED BY <3>1, <3>3, <3>5, <3>6
    <2>2. k \in BankRecords /\ k.buf = old.buf /\ k.cur = old.cur /\ k.state = "cmd"
      BY <1>1 DEF BankRecords
    <2> HIDE DEF k
    <2>3. Entries(k) = Entries(old)
      BY <2>2 DEF Entries
    <2>4. BankSound(b, k) /\ \A q \in Reqs : Holds(k, q) => Holds(old, q)
      BY <1>1, <2>2, <2>3 DEF BankSound, Holds
    <2> HIDE DEF y
    <2>5. Becoming(x, b, k, out, y)
      BY <1>1, <1>2, <1>3, <2>1 DEF Parts, Sound, Becoming
    <2> HIDE DEF old
    <2>6. y \in Good
      BY <1>3, <2>2, <2>4, <2>5, Changed DEF old
    <2> QED BY <2>6 DEF y
  <1>6. CASE /\ ~(old.cur = None /\ old.buf # <<>>)
             /\ ~(Busy(x, b, "cmd_wait") /\ old.wait = 0)
    BY <1>6 DEF ScheduleBank
  <1> QED BY <1>4, <1>5, <1>6

\* The loop that moves data.
LEMMA ChannelData ==
    ASSUME NEW x \in Good
    PROVE  channel_schedule_data(x) \in Good
  <1> DEFINE D == DOMAIN InOrder
             c == [t \in SUBSET D |-> Max(t)]
             h == [y \in Good \X D |-> DataTurn(y[1], InOrder[y[2]])]
             iter == CHOOSE it : it = [t \in SUBSET D |->
                        IF t = {} THEN x
                        ELSE DataTurn(it[t \ {Max(t)}], InOrder[Max(t)])]
  <1>1. D = 1..NumBanks /\ NumBanks \in Nat /\ IsFiniteSet(D)
        /\ \A i \in D : InOrder[i] \in Banks
    BY NativeAssumption, FS_Interval DEF InOrder, Banks
  <1>2. channel_schedule_data(x) = iter[D]
    BY DEF channel_schedule_data, FoldLeft, MapThenFoldSet
  <1>3. \A t \in SUBSET D : t # {} => c[t] = Max(t) /\ Max(t) \in t
    BY <1>1, LargestIn
  <1>4. \A y \in Good, i \in D : /\ h[<<y, i>>] \in Good
                                /\ h[<<y, i>>] = DataTurn(y, InOrder[i])
    BY <1>1, DataTurnSound
  <1> HIDE DEF D, c, h
  <1>5. Picks(c, D) /\ Keeps(h, Good, D)
    BY <1>3, <1>4 DEF Picks, Keeps
  <1>6. PICK g \in [SUBSET D -> Good] : Folds(g, D, x, c, h)
    BY <1>1, <1>5, FoldExists
  <1>7. g = [t \in SUBSET D |->
                IF t = {} THEN x ELSE DataTurn(g[t \ {Max(t)}], InOrder[Max(t)])]
    <2>1. ASSUME NEW t \in SUBSET D, t # {}
          PROVE  g[t] = DataTurn(g[t \ {Max(t)}], InOrder[Max(t)])
      <3> DEFINE i == Max(t)
                 y == g[t \ {i}]
      <3>1. c[t] = i /\ i \in D /\ y \in Good
        BY <1>3, <1>6, <2>1
      <3>2. g[t] = h[<<g[t \ {c[t]}], c[t]>>]
        BY <1>6, <2>1 DEF Folds
      <3>3. g[t] = h[<<y, i>>]
        BY <3>1, <3>2
      <3> HIDE DEF y, i
      <3>4. g[t] = DataTurn(y, InOrder[i])
        BY <1>4, <3>1, <3>3
      <3> QED BY <3>4 DEF y, i
    <2>2. g[{}] = x
      BY <1>6 DEF Folds
    <2> QED BY <2>1, <2>2
  <1>8. iter = [t \in SUBSET D |->
                IF t = {} THEN x ELSE DataTurn(iter[t \ {Max(t)}], InOrder[Max(t)])]
    BY <1>7
  <1> HIDE DEF iter
  <1>9. ASSUME NEW t \in SUBSET D, t # {}, iter[t \ {c[t]}] \in Good
        PROVE  iter[t] = h[<<iter[t \ {c[t]}], c[t]>>]
    <2> DEFINE i == c[t]
               y == iter[t \ {i}]
    <2>1. i = Max(t) /\ i \in D /\ y \in Good
      BY <1>3, <1>9
    <2>2. iter[t] = DataTurn(y, InOrder[i])
      BY <1>8, <1>9, <2>1
    <2> HIDE DEF i, y
    <2>3. iter[t] = h[<<y, i>>]
      BY <1>4, <2>1, <2>2
    <2> QED BY <2>3 DEF i, y
  <1>10. Recurs(iter, D, Good, x, c, h)
    BY <1>8, <1>9 DEF Recurs
  <1>11. iter[D] \in Good
    BY <1>1, <1>5, <1>10, FoldStays
  <1> QED BY <1>2, <1>11

\* The loop that completes requests.
LEMMA BanksComplete ==
    ASSUME NEW x \in Good
    PROVE  bank_schedule_complete(x) \in Good
  <1> DEFINE D == DOMAIN InOrder
             c == [t \in SUBSET D |-> Max(t)]
             h == [y \in Good \X D |-> Complete(y[1], InOrder[y[2]])]
             iter == CHOOSE it : it = [t \in SUBSET D |->
                        IF t = {} THEN x
                        ELSE Complete(it[t \ {Max(t)}], InOrder[Max(t)])]
  <1>1. D = 1..NumBanks /\ NumBanks \in Nat /\ IsFiniteSet(D)
        /\ \A i \in D : InOrder[i] \in Banks
    BY NativeAssumption, FS_Interval DEF InOrder, Banks
  <1>2. bank_schedule_complete(x) = iter[D]
    BY DEF bank_schedule_complete, FoldLeft, MapThenFoldSet
  <1>3. \A t \in SUBSET D : t # {} => c[t] = Max(t) /\ Max(t) \in t
    BY <1>1, LargestIn
  <1>4. \A y \in Good, i \in D : /\ h[<<y, i>>] \in Good
                                /\ h[<<y, i>>] = Complete(y, InOrder[i])
    BY <1>1, CompleteSound
  <1> HIDE DEF D, c, h
  <1>5. Picks(c, D) /\ Keeps(h, Good, D)
    BY <1>3, <1>4 DEF Picks, Keeps
  <1>6. PICK g \in [SUBSET D -> Good] : Folds(g, D, x, c, h)
    BY <1>1, <1>5, FoldExists
  <1>7. g = [t \in SUBSET D |->
                IF t = {} THEN x ELSE Complete(g[t \ {Max(t)}], InOrder[Max(t)])]
    <2>1. ASSUME NEW t \in SUBSET D, t # {}
          PROVE  g[t] = Complete(g[t \ {Max(t)}], InOrder[Max(t)])
      <3> DEFINE i == Max(t)
                 y == g[t \ {i}]
      <3>1. c[t] = i /\ i \in D /\ y \in Good
        BY <1>3, <1>6, <2>1
      <3>2. g[t] = h[<<g[t \ {c[t]}], c[t]>>]
        BY <1>6, <2>1 DEF Folds
      <3>3. g[t] = h[<<y, i>>]
        BY <3>1, <3>2
      <3> HIDE DEF y, i
      <3>4. g[t] = Complete(y, InOrder[i])
        BY <1>4, <3>1, <3>3
      <3> QED BY <3>4 DEF y, i
    <2>2. g[{}] = x
      BY <1>6 DEF Folds
    <2> QED BY <2>1, <2>2
  <1>8. iter = [t \in SUBSET D |->
                IF t = {} THEN x ELSE Complete(iter[t \ {Max(t)}], InOrder[Max(t)])]
    BY <1>7
  <1> HIDE DEF iter
  <1>9. ASSUME NEW t \in SUBSET D, t # {}, iter[t \ {c[t]}] \in Good
        PROVE  iter[t] = h[<<iter[t \ {c[t]}], c[t]>>]
    <2> DEFINE i == c[t]
               y == iter[t \ {i}]
    <2>1. i = Max(t) /\ i \in D /\ y \in Good
      BY <1>3, <1>9
    <2>2. iter[t] = Complete(y, InOrder[i])
      BY <1>8, <1>9, <2>1
    <2> HIDE DEF i, y
    <2>3. iter[t] = h[<<y, i>>]
      BY <1>4, <2>1, <2>2
    <2> QED BY <2>3 DEF i, y
  <1>10. Recurs(iter, D, Good, x, c, h)
    BY <1>8, <1>9 DEF Recurs
  <1>11. iter[D] \in Good
    BY <1>1, <1>5, <1>10, FoldStays
  <1> QED BY <1>2, <1>11

\* The loop that takes new requests.
LEMMA BanksNew ==
    ASSUME NEW x \in Good
    PROVE  bank_schedule_new(x) \in Good
  <1> DEFINE D == DOMAIN InOrder
             c == [t \in SUBSET D |-> Max(t)]
             h == [y \in Good \X D |-> ScheduleBank(y[1], InOrder[y[2]])]
             iter == CHOOSE it : it = [t \in SUBSET D |->
                        IF t = {} THEN x
                        ELSE ScheduleBank(it[t \ {Max(t)}], InOrder[Max(t)])]
  <1>1. D = 1..NumBanks /\ NumBanks \in Nat /\ IsFiniteSet(D)
        /\ \A i \in D : InOrder[i] \in Banks
    BY NativeAssumption, FS_Interval DEF InOrder, Banks
  <1>2. bank_schedule_new(x) = iter[D]
    BY DEF bank_schedule_new, FoldLeft, MapThenFoldSet
  <1>3. \A t \in SUBSET D : t # {} => c[t] = Max(t) /\ Max(t) \in t
    BY <1>1, LargestIn
  <1>4. \A y \in Good, i \in D : /\ h[<<y, i>>] \in Good
                                /\ h[<<y, i>>] = ScheduleBank(y, InOrder[i])
    BY <1>1, ScheduleSound
  <1> HIDE DEF D, c, h
  <1>5. Picks(c, D) /\ Keeps(h, Good, D)
    BY <1>3, <1>4 DEF Picks, Keeps
  <1>6. PICK g \in [SUBSET D -> Good] : Folds(g, D, x, c, h)
    BY <1>1, <1>5, FoldExists
  <1>7. g = [t \in SUBSET D |->
                IF t = {} THEN x ELSE ScheduleBank(g[t \ {Max(t)}], InOrder[Max(t)])]
    <2>1. ASSUME NEW t \in SUBSET D, t # {}
          PROVE  g[t] = ScheduleBank(g[t \ {Max(t)}], InOrder[Max(t)])
      <3> DEFINE i == Max(t)
                 y == g[t \ {i}]
      <3>1. c[t] = i /\ i \in D /\ y \in Good
        BY <1>3, <1>6, <2>1
      <3>2. g[t] = h[<<g[t \ {c[t]}], c[t]>>]
        BY <1>6, <2>1 DEF Folds
      <3>3. g[t] = h[<<y, i>>]
        BY <3>1, <3>2
      <3> HIDE DEF y, i
      <3>4. g[t] = ScheduleBank(y, InOrder[i])
        BY <1>4, <3>1, <3>3
      <3> QED BY <3>4 DEF y, i
    <2>2. g[{}] = x
      BY <1>6 DEF Folds
    <2> QED BY <2>1, <2>2
  <1>8. iter = [t \in SUBSET D |->
                IF t = {} THEN x ELSE ScheduleBank(iter[t \ {Max(t)}], InOrder[Max(t)])]
    BY <1>7
  <1> HIDE DEF iter
  <1>9. ASSUME NEW t \in SUBSET D, t # {}, iter[t \ {c[t]}] \in Good
        PROVE  iter[t] = h[<<iter[t \ {c[t]}], c[t]>>]
    <2> DEFINE i == c[t]
               y == iter[t \ {i}]
    <2>1. i = Max(t) /\ i \in D /\ y \in Good
      BY <1>3, <1>9
    <2>2. iter[t] = ScheduleBank(y, InOrder[i])
      BY <1>8, <1>9, <2>1
    <2> HIDE DEF i, y
    <2>3. iter[t] = h[<<y, i>>]
      BY <1>4, <2>1, <2>2
    <2> QED BY <2>3 DEF i, y
  <1>10. Recurs(iter, D, Good, x, c, h)
    BY <1>8, <1>9 DEF Recurs
  <1>11. iter[D] \in Good
    BY <1>1, <1>5, <1>10, FoldStays
  <1> QED BY <1>2, <1>11

\* The request in front of the router's queue goes to its bank, if there is room.
Taken(x, y) == /\ y.bank \in [Banks -> BankRecords] /\ \A b \in Banks : BankSound(b, y.bank[b])
               /\ y.turns = x.turns /\ y.dbus = x.dbus /\ y.byteAvail = x.byteAvail
LEMMA InsertSound ==
    ASSUME NEW x \in Good, routerQueue \in Seq(Reqs),
           NEW r, r = insert_new_req(x)
    PROVE  /\ Taken(x, r.x)
           /\ \A b \in Banks, q \in Reqs : Holds(r.x.bank[b], q) =>
                \/ Holds(x.bank[b], q)
                \/ r.taken /\ routerQueue # <<>> /\ q = Head(routerQueue)
           /\ r.taken => routerQueue # <<>>
  <1> DEFINE q == Head(routerQueue)
             b == bankOf(q)
             old == x.bank[b]
             fl == flush_prefetch(old)
             room == Entries(fl) < BufferSize
             k == IF room THEN [fl EXCEPT !.buf = Append(fl.buf, q)] ELSE fl
             y == [x EXCEPT !.bank[b] = k]
  <1>1. x \in Parts /\ Sound(x)
    BY DEF Good
  <1>2. CASE routerQueue = <<>>
    <2>1. r = [x |-> x, taken |-> FALSE]
      BY <1>2 DEF insert_new_req
    <2> QED BY <1>1, <1>2, <2>1 DEF Taken, Parts, Sound
  <1>3. CASE routerQueue # <<>>
    <2>1. r = [x |-> y, taken |-> room]
      BY <1>3 DEF insert_new_req
    <2>2. q \in Reqs /\ Occurs(q, routerQueue) /\ Away(q)
      BY <1>3, OneLess DEF Away
    <2>3. b \in Banks /\ bankOf(q) = b
      BY <2>2, NativeAssumption DEF bankOf, Addrs
    <2> HIDE DEF q
    <2>4. old \in BankRecords /\ BankSound(b, old) /\ ~Holds(old, q)
      BY <1>1, <2>2, <2>3 DEF Parts, Sound
    <2> HIDE DEF b
    <2> DEFINE keep == {p \in Reqs : TypeOf[p] # "prefetch"}
    <2>5. /\ fl \in BankRecords /\ fl.cur = old.cur /\ fl.row = old.row /\ fl.state = old.state
          /\ OnceEach(fl.buf) /\ \A p : Occurs(p, fl.buf) => Occurs(p, old.buf)
          /\ fl.buf \in Seq(Reqs) /\ Entries(fl) <= BufferSize
      <3>1. old.buf \in Seq(Reqs) /\ OnceEach(old.buf) /\ Entries(old) <= BufferSize
        BY <2>4 DEF BankRecords, BankSound
      <3>2. CASE Entries(old) < BufferSize
        <4>1. fl = old
          BY <3>2 DEF flush_prefetch
        <4> QED BY <2>4, <3>1, <4>1
      <3>3. CASE ~(Entries(old) < BufferSize)
        <4> DEFINE left == Kept(old.buf, keep)
        <4>1. /\ left \in Seq(Reqs) /\ OnceEach(left) /\ Len(left) <= Len(old.buf)
              /\ \A p : Occurs(p, left) => Occurs(p, old.buf)
          BY <3>1, KeptProperties
        <4>2. fl = [old EXCEPT !.buf = left]
          BY <3>3 DEF flush_prefetch
        <4> HIDE DEF left, fl
        <4>3. fl \in BankRecords /\ fl.buf = left /\ fl.cur = old.cur /\ fl.row = old.row
              /\ fl.state = old.state
          BY <2>4, <4>1, <4>2 DEF BankRecords
        <4>4. Entries(fl) <= BufferSize
          <5> DEFINE m == Len(left)
                     n == Len(old.buf)
                     one == IF old.cur = None THEN 0 ELSE 1
          <5>1. m \in Nat /\ n \in Nat /\ BufferSize \in Nat /\ one \in Nat /\ m <= n
            BY <3>1, <4>1, LenProperties, NativeAssumption
          <5>2. Entries(old) = n + one /\ Entries(fl) = m + one
            BY <4>3 DEF Entries
          <5> HIDE DEF m, n, one
          <5> QED BY <3>1, <5>1, <5>2
        <4> QED BY <4>1, <4>3, <4>4
      <3> QED BY <3>2, <3>3
    <2> HIDE DEF fl, keep
    <2>6. /\ k \in BankRecords /\ k.cur = old.cur /\ k.row = old.row /\ k.state = old.state
          /\ OnceEach(k.buf) /\ k.buf \in Seq(Reqs) /\ Entries(k) <= BufferSize
          /\ \A p : Occurs(p, k.buf) => Occurs(p, old.buf) \/ (room /\ p = q)
      <3>1. CASE ~room
        <4>1. k = fl
          BY <3>1
        <4> HIDE DEF k, room
        <4> QED BY <2>5, <4>1
      <3>2. CASE room
        <4> DEFINE more == Append(fl.buf, q)
        <4>1. ~Occurs(q, fl.buf)
          BY <2>4, <2>5 DEF Holds
        <4>2. /\ more \in Seq(Reqs) /\ OnceEach(more) /\ Len(more) = Len(fl.buf) + 1
              /\ \A p : Occurs(p, more) <=> Occurs(p, fl.buf) \/ p = q
          <5> DEFINE buf == fl.buf
          <5>1. /\ buf \in Seq(Reqs) /\ OnceEach(buf) /\ ~Occurs(q, buf) /\ q \in Reqs
                /\ more = Append(buf, q)
            BY <2>2, <2>5, <4>1
          <5> HIDE DEF buf, more
          <5>2. /\ more \in Seq(Reqs) /\ OnceEach(more) /\ Len(more) = Len(buf) + 1
                /\ \A z : Occurs(z, more) <=> Occurs(z, buf) \/ z = q
            BY ONLY <5>1, OneMore
          <5> QED BY <5>2 DEF buf
        <4>3. k = [fl EXCEPT !.buf = more]
          BY <3>2
        <4> HIDE DEF more, k
        <4>4. k \in BankRecords /\ k.buf = more /\ k.cur = fl.cur /\ k.row = fl.row
              /\ k.state = fl.state
          BY <2>5, <4>2, <4>3 DEF BankRecords
        <4>5. Entries(k) <= BufferSize
          <5> DEFINE n == Len(fl.buf)
                     one == IF fl.cur = None THEN 0 ELSE 1
          <5>1. n \in Nat /\ BufferSize \in Nat /\ one \in Nat
            BY <2>5, LenProperties, NativeAssumption
          <5>2. Entries(fl) = n + one /\ Entries(k) = (n + 1) + one
            BY <4>2, <4>4 DEF Entries
          <5>3. Entries(fl) < BufferSize
            BY <3>2
          <5> HIDE DEF n, one
          <5> QED BY <5>1, <5>2, <5>3
        <4> HIDE DEF room
        <4> QED BY <2>5, <3>2, <4>2, <4>4, <4>5
      <3> QED BY <3>1, <3>2
    <2> HIDE DEF k, room
    <2>7. ~Occurs(k.cur, k.buf)
      BY <2>4, <2>6 DEF BankSound, Holds
    <2>8. ASSUME NEW p \in Reqs, Holds(k, p) PROVE Holds(old, p) \/ (room /\ p = q)
      <3>1. Occurs(p, k.buf) \/ p = old.cur
        BY <2>6, <2>8 DEF Holds
      <3> QED BY <2>6, <3>1 DEF Holds
    <2>9. BankSound(b, k)
      BY <2>3, <2>4, <2>6, <2>7, <2>8 DEF BankSound
    <2> HIDE DEF old
    <2>10. /\ y.bank \in [Banks -> BankRecords]
           /\ \A c \in Banks : y.bank[c] = IF c = b THEN k ELSE x.bank[c]
           /\ y.turns = x.turns /\ y.dbus = x.dbus /\ y.byteAvail = x.byteAvail
      BY <1>1, <2>3, <2>6 DEF Parts
    <2> HIDE DEF y
    <2>11. \A c \in Banks : BankSound(c, y.bank[c])
      BY <1>1, <2>9, <2>10 DEF Sound
    <2>12. \A c \in Banks, p \in Reqs :
                Holds(y.bank[c], p) => Holds(x.bank[c], p) \/ (room /\ p = q)
      BY <2>8, <2>10 DEF old
    <2>13. r.x = y /\ r.taken = room
      BY <2>1
    <2> QED BY <1>3, <2>10, <2>11, <2>12, <2>13 DEF Taken, q
  <1> QED BY <1>2, <1>3

--------------------------------------------------------------------------------
(* The steps. *)

\* The requests on their way out, in the delay buffer d or behind it in o, are some of
\* those that were and of those that are released now.
Onward(d, o, out, d2, o2) ==
    /\ d2 \in Seq(Reqs) /\ o2 \in Seq(Reqs) /\ OnceEach(d2) /\ OnceEach(o2)
    /\ \A q \in Reqs :
        /\ Occurs(q, d2) => ~Occurs(q, o2)
        /\ Occurs(q, d2) \/ Occurs(q, o2) => Occurs(q, d) \/ Occurs(q, o) \/ Occurs(q, out)

\* What is released comes behind one of the two lists.
LEMMA ReleasedOnward ==
    ASSUME NEW o \in Seq(Reqs), NEW d \in Seq(Reqs), OnceEach(o), OnceEach(d),
           NEW out \in Seq(Reqs), OnceEach(out),
           \A q \in Reqs : Occurs(q, d) => ~Occurs(q, o),
           \A q \in Reqs : Occurs(q, out) => ~Occurs(q, d) /\ ~Occurs(q, o),
           NEW d2, NEW o2,
           \/ o2 = o \o out /\ d2 = d
           \/ o2 = o /\ d2 = d \o out
    PROVE  Onward(d, o, out, d2, o2)
  <1>1. \A p \in Seq(Reqs) : \A q : Occurs(q, p) => q \in Reqs
    BY ElementOfSeq DEF Occurs
  <1>2. \A q : ~(Occurs(q, o) /\ Occurs(q, out)) /\ ~(Occurs(q, d) /\ Occurs(q, out))
    BY <1>1
  <1>3. CASE o2 = o \o out /\ d2 = d
    <2>1. /\ o2 \in Seq(Reqs) /\ OnceEach(o2)
          /\ \A q : Occurs(q, o2) <=> Occurs(q, o) \/ Occurs(q, out)
      BY <1>2, <1>3, Joined, ZenonT(30)
    <2> QED BY <1>2, <1>3, <2>1 DEF Onward
  <1>4. CASE o2 = o /\ d2 = d \o out
    <2>1. /\ d2 \in Seq(Reqs) /\ OnceEach(d2)
          /\ \A q : Occurs(q, d2) <=> Occurs(q, d) \/ Occurs(q, out)
      BY <1>2, <1>4, Joined, ZenonT(30)
    <2> QED BY <1>2, <1>4, <2>1 DEF Onward
  <1> QED BY <1>3, <1>4

\* So it is when the router takes some of the output buffer and the delay buffer lets go
\* what is due.
LEMMA MovesOnward ==
    ASSUME NEW o \in Seq(Reqs), NEW d \in Seq(Reqs), OnceEach(o), OnceEach(d),
           NEW out \in Seq(Reqs), OnceEach(out),
           \A q \in Reqs : Occurs(q, d) => ~Occurs(q, o),
           \A q \in Reqs : Occurs(q, out) => ~Occurs(q, d) /\ ~Occurs(q, o),
           NEW n \in 0..Len(o), NEW u \in 0..Len(d),
           NEW d2, NEW o2,
           \/ o2 = (Beyond(o, n) \o Upto(d, u)) \o out /\ d2 = Beyond(d, u)
           \/ o2 = Beyond(o, n) \o Upto(d, u) /\ d2 = Beyond(d, u) \o out
    PROVE  Onward(d, o, out, d2, o2)
  <1> DEFINE a == Beyond(o, n) \o Upto(d, u)
             b == Beyond(d, u)
             o1 == Beyond(o, n)
             d1 == Upto(d, u)
  <1>1. /\ o1 \in Seq(Reqs) /\ OnceEach(o1)
        /\ \A x : Occurs(x, o1) => Occurs(x, o)
    BY TwoParts
  <1>2. /\ d1 \in Seq(Reqs) /\ b \in Seq(Reqs) /\ OnceEach(d1) /\ OnceEach(b)
        /\ \A x : ~(Occurs(x, d1) /\ Occurs(x, b))
        /\ \A x : Occurs(x, d) <=> Occurs(x, d1) \/ Occurs(x, b)
    BY TwoParts
  <1>3. a = o1 \o d1
    OBVIOUS
  <1>4. \/ o2 = a \o out /\ d2 = b
        \/ o2 = a /\ d2 = b \o out
    OBVIOUS
  <1> HIDE DEF o1, d1, a, b
  <1>5. \A x : Occurs(x, d1) => x \in Reqs
    BY <1>2, ElementOfSeq DEF Occurs
  <1>6. \A x : ~(Occurs(x, o1) /\ Occurs(x, d1))
    BY <1>1, <1>2, <1>5
  <1>7. /\ a \in Seq(Reqs) /\ OnceEach(a)
        /\ \A x : Occurs(x, a) <=> Occurs(x, o1) \/ Occurs(x, d1)
    <2>1. /\ o1 \in Seq(Reqs) /\ d1 \in Seq(Reqs) /\ OnceEach(o1) /\ OnceEach(d1)
          /\ a = o1 \o d1
      BY <1>1, <1>2, <1>3
    <2> QED BY ONLY <1>6, <2>1, Joined, ZenonT(30)
  <1>8. Onward(b, a, out, d2, o2)
    <2>1. \A q \in Reqs : Occurs(q, b) => ~Occurs(q, a)
      BY <1>1, <1>2, <1>7
    <2>2. \A q \in Reqs : Occurs(q, out) => ~Occurs(q, b) /\ ~Occurs(q, a)
      BY <1>1, <1>2, <1>7
    <2> QED BY <1>2, <1>4, <1>7, <2>1, <2>2, ReleasedOnward
  <1> QED BY <1>1, <1>2, <1>7, <1>8 DEF Onward

\* A cycle without MCsim.
LEMMA CycleKeeps ==
    ASSUME DramInv, policy # "MCSIM", NEW n \in 0..Len(m_output_buffer), Cycle(n),
           UNCHANGED <<policy, merge>>
    PROVE  DramInv'
  <1> DEFINE x0 == [bank |-> bank, turns |-> turns, dbus |-> dbus, byteAvail |-> byteAvail,
                    done |-> <<>>]
             x1 == bank_schedule_new(bank_schedule_complete(
                       channel_schedule_data(channel_schedule_cmd(x0))))
             ins == insert_new_req(x1)
             d == Reqd(m_tmp_output_buffer)
             o == m_output_buffer
             out == x1.done
             d2 == Reqd(m_tmp_output_buffer')
             o2 == m_output_buffer'
  <1>1. /\ FrontTypes /\ BankTypes /\ BanksSound
        /\ Four(routerQueue, m_pending_request, d, o)
    BY DEF DramInv
  <1>2. x0 \in Good
    <2>1. x0 \in Parts
      BY <1>1 DEF BankTypes, Parts
    <2>2. Sound(x0)
      BY <1>1 DEF BanksSound, Sound, OnceEach, Occurs
    <2> QED BY <2>1, <2>2 DEF Good
  <1> HIDE DEF x0
  <1>3. x1 \in Good
    BY <1>2, ChannelCommand, ChannelData, BanksComplete, BanksNew
  <1>4. /\ bank' = [b \in Banks |-> [ins.x.bank[b] EXCEPT !.wait = Elapsed(@)]]
        /\ turns' = ins.x.turns /\ dbus' = Elapsed(ins.x.dbus) /\ byteAvail' = ins.x.byteAvail
        /\ routerQueue' = IF ins.taken THEN Tail(routerQueue) ELSE routerQueue
        /\ UNCHANGED <<additionalLatency, outstanding, m_pending_request, policy, merge>>
    BY DEF Cycle, x0
  <1>5. \/ /\ additionalLatency = 0 /\ UNCHANGED m_tmp_output_buffer
           /\ m_output_buffer' = (SubSeq(o, n + 1, Len(o))
                                    \o [k \in 1 .. Due |-> m_tmp_output_buffer[k].req]) \o out
        \/ /\ additionalLatency # 0
           /\ m_output_buffer' = SubSeq(o, n + 1, Len(o))
                                    \o [k \in 1 .. Due |-> m_tmp_output_buffer[k].req]
           /\ \E late : /\ late = SubSeq(m_tmp_output_buffer, Due + 1, Len(m_tmp_output_buffer))
                            \o [k \in DOMAIN out |-> [req |-> out[k], wait |-> additionalLatency]]
                        /\ m_tmp_output_buffer' =
                             [k \in DOMAIN late |-> [late[k] EXCEPT !.wait = Elapsed(@)]]
    BY DEF Cycle, x0
  <1> HIDE DEF x1, ins
  <1>6. /\ out \in Seq(Reqs) /\ OnceEach(out) /\ \A q \in Reqs : Occurs(q, out) => ~Away(q)
    BY <1>3 DEF Good, Parts, Sound
  <1> HIDE DEF out
  <1>7. /\ m_tmp_output_buffer \in Seq(Records) /\ additionalLatency \in Nat
        /\ Due \in 0..Len(m_tmp_output_buffer) /\ Len(d) = Len(m_tmp_output_buffer)
    BY <1>1, DueInRange, ReqdProperties DEF FrontTypes, Records
  <1>8. /\ m_tmp_output_buffer' \in Seq(Records)
        /\ additionalLatency = 0 => m_tmp_output_buffer' = <<>>
        /\ \/ o2 = (Beyond(o, n) \o Upto(d, Due)) \o out /\ d2 = Beyond(d, Due)
           \/ o2 = Beyond(o, n) \o Upto(d, Due) /\ d2 = Beyond(d, Due) \o out
    <2>1. /\ [k \in 1 .. Due |-> m_tmp_output_buffer[k].req] = Upto(d, Due)
          /\ SubSeq(m_tmp_output_buffer, Due + 1, Len(m_tmp_output_buffer)) \in Seq(Records)
          /\ Reqd(SubSeq(m_tmp_output_buffer, Due + 1, Len(m_tmp_output_buffer)))
                = Beyond(d, Due)
      BY <1>7, ReqdPiece DEF Upto, Beyond
    <2>2. CASE additionalLatency = 0
      <3>1. m_tmp_output_buffer = <<>>
        BY <1>1, <2>2 DEF FrontTypes
      <3>2. /\ m_tmp_output_buffer' = m_tmp_output_buffer
            /\ o2 = (SubSeq(o, n + 1, Len(o))
                        \o [k \in 1 .. Due |-> m_tmp_output_buffer[k].req]) \o out
        BY <1>5, <2>2
      <3>3. d2 = d /\ d = <<>>
        BY <3>1, <3>2 DEF Reqd
      <3>4. Due = 0
        BY <1>7, <3>1
      <3>5. Beyond(d, Due) = <<>>
        BY <3>3, <3>4 DEF Beyond
      <3> QED BY <1>7, <2>1, <3>1, <3>2, <3>3, <3>5 DEF Beyond
    <2>3. CASE additionalLatency # 0
      <3> DEFINE rest == SubSeq(m_tmp_output_buffer, Due + 1, Len(m_tmp_output_buffer))
      <3>1. o2 = Beyond(o, n) \o Upto(d, Due)
        BY <1>5, <2>1, <2>3 DEF Beyond
      <3>2. PICK late :
              /\ late = rest
                  \o [k \in DOMAIN out |-> [req |-> out[k], wait |-> additionalLatency]]
              /\ m_tmp_output_buffer' = [k \in DOMAIN late |-> [late[k] EXCEPT !.wait = Elapsed(@)]]
        BY <1>5, <2>3
      <3> HIDE DEF rest
      <3>3. late \in Seq(Records) /\ Reqd(late) = Reqd(rest) \o out
        <4>1. rest \in Seq(Records)
          BY <2>1 DEF rest
        <4> DEFINE w == additionalLatency
        <4>2. /\ out \in Seq(Reqs) /\ w \in Nat
              /\ late = rest \o Waiting(out, w)
          BY <1>6, <1>7, <3>2 DEF Waiting
        <4> HIDE DEF w
        <4> QED BY ONLY <4>1, <4>2, Delays
      <3>4. m_tmp_output_buffer' =
                [k \in DOMAIN late |-> [late[k] EXCEPT !.wait = IF @ > 0 THEN @ - 1 ELSE 0]]
        BY <3>2 DEF Elapsed
      <3>5. m_tmp_output_buffer' \in Seq(Records) /\ d2 = Reqd(late)
        BY <3>3, <3>4, Waited
      <3> QED BY <2>1, <2>3, <3>1, <3>3, <3>5 DEF rest
    <2> QED BY <2>2, <2>3

  <1>9. Onward(d, o, out, d2, o2)
    <2>1. /\ o \in Seq(Reqs) /\ d \in Seq(Reqs) /\ OnceEach(o) /\ OnceEach(d)
          /\ \A q \in Reqs : Occurs(q, d) => ~Occurs(q, o)
      BY <1>1 DEF Four
    <2>2. \A q \in Reqs : Occurs(q, out) => ~Occurs(q, d) /\ ~Occurs(q, o)
      BY <1>6 DEF Away
    <2>3. n \in 0..Len(o) /\ Due \in 0..Len(d)
      BY <1>7
    <2> DEFINE u == Due
    <2> HIDE DEF d, o, d2, o2, u
    <2>4. /\ n \in 0..Len(o) /\ u \in 0..Len(d)
          /\ \/ o2 = (Beyond(o, n) \o Upto(d, u)) \o out /\ d2 = Beyond(d, u)
             \/ o2 = Beyond(o, n) \o Upto(d, u) /\ d2 = Beyond(d, u) \o out
      BY <1>8, <2>3 DEF u
    <2> QED BY <1>6, <2>1, <2>2, <2>4, MovesOnward
  <1>10. /\ Taken(x1, ins.x) /\ (ins.taken => routerQueue # <<>>)
         /\ \A b \in Banks, q \in Reqs : Holds(ins.x.bank[b], q) =>
                \/ Holds(x1.bank[b], q)
                \/ ins.taken /\ routerQueue # <<>> /\ q = Head(routerQueue)
    BY <1>1, <1>3, InsertSound DEF Four, ins
  <1>11. /\ routerQueue' \in Seq(Reqs) /\ OnceEach(routerQueue')
         /\ \A q : Occurs(q, routerQueue') => Occurs(q, routerQueue)
         /\ ins.taken => ~Occurs(Head(routerQueue), routerQueue')
                         /\ Occurs(Head(routerQueue), routerQueue)
    <2>1. routerQueue \in Seq(Reqs) /\ OnceEach(routerQueue)
      BY <1>1 DEF Four
    <2>2. CASE ~ins.taken
      BY <1>4, <2>1, <2>2
    <2>3. CASE ins.taken
      <3> DEFINE r == routerQueue
                 r2 == routerQueue'
      <3>1. r2 = Tail(r) /\ r # <<>> /\ r \in Seq(Reqs) /\ OnceEach(r)
        BY <1>4, <1>10, <2>1, <2>3
      <3> HIDE DEF r, r2
      <3>2. /\ r2 \in Seq(Reqs) /\ OnceEach(r2) /\ Occurs(Head(r), r)
            /\ \A x : Occurs(x, r2) <=> Occurs(x, r) /\ x # Head(r)
        BY ONLY <3>1, OneLess
      <3> QED BY <3>2 DEF r, r2
    <2> QED BY <2>2, <2>3
  <1>12. m_pending_request = <<>> /\ \A q : ~Occurs(q, m_pending_request)
    BY DEF DramInv, BackEnd, Occurs
  <1>13. ASSUME NEW q \in Reqs
         PROVE  /\ Away(q)' <=> Occurs(q, routerQueue') \/ Occurs(q, d2) \/ Occurs(q, o2)
                /\ Away(q) <=> Occurs(q, routerQueue) \/ Occurs(q, d) \/ Occurs(q, o)
    BY <1>4, <1>12 DEF Away
  <1>14. /\ bank' \in [Banks -> BankRecords]
         /\ \A b \in Banks : /\ BankSound(b, bank'[b])
                             /\ \A q : Holds(bank'[b], q) <=> Holds(ins.x.bank[b], q)
    <2> DEFINE f == ins.x.bank
    <2>1. f \in [Banks -> BankRecords] /\ \A b \in Banks : BankSound(b, f[b])
      BY <1>10 DEF Taken
    <2>2. bank' = [b \in Banks |-> [f[b] EXCEPT !.wait = Elapsed(f[b].wait)]]
      BY <1>4
    <2> HIDE DEF f
    <2>3. ASSUME NEW b \in Banks
          PROVE  /\ bank'[b] \in BankRecords /\ BankSound(b, bank'[b])
                 /\ \A q : Holds(bank'[b], q) <=> Holds(f[b], q)
      <3> DEFINE w == Elapsed(f[b].wait)
                 k == bank'[b]
                 l == f[b]
      <3>1. w \in Nat /\ l \in BankRecords /\ BankSound(b, l)
        BY <2>1 DEF Elapsed, BankRecords
      <3>2. k = [l EXCEPT !.wait = w]
        BY <2>2
      <3> HIDE DEF w, k, l
      <3>3. k \in BankRecords /\ k.buf = l.buf /\ k.cur = l.cur /\ k.row = l.row /\ k.state = l.state
        BY <3>1, <3>2 DEF BankRecords
      <3>4. Entries(k) = Entries(l) /\ \A q : Holds(k, q) <=> Holds(l, q)
        BY <3>3 DEF Entries, Holds
      <3>5. BankSound(b, k)
        BY <3>1, <3>3, <3>4 DEF BankSound
      <3> QED BY <3>3, <3>4, <3>5 DEF k, l
    <2>4. bank' \in [Banks -> BankRecords]
      BY <2>2, <2>3
    <2> QED BY <2>3, <2>4 DEF f
  <1> HIDE DEF d, o, d2, o2
  <1>15. Four(routerQueue', m_pending_request', d2, o2)
    <2>1. \A q \in Reqs : Occurs(q, routerQueue') => ~Occurs(q, d2) /\ ~Occurs(q, o2)
      <3> TAKE q \in Reqs
      <3>1. Occurs(q, routerQueue) => ~Occurs(q, d) /\ ~Occurs(q, o) /\ ~Occurs(q, out)
        BY <1>1, <1>6 DEF Four, Away
      <3> QED BY <1>9, <1>11, <3>1 DEF Onward
    <2>2. m_pending_request' \in Seq(Reqs) /\ OnceEach(m_pending_request')
          /\ \A q : ~Occurs(q, m_pending_request')
      BY <1>1, <1>4, <1>12 DEF Four
    <2> QED BY <1>9, <1>11, <2>1, <2>2 DEF Four, Onward
  <1>16. ASSUME NEW b \in Banks, NEW q \in Reqs, Holds(bank'[b], q)
         PROVE  ~Away(q)'
    <2>1. CASE Holds(x1.bank[b], q)
      <3>1. ~Away(q) /\ ~Occurs(q, out)
        BY <1>3, <2>1 DEF Good, Sound, out
      <3> QED BY <1>9, <1>11, <1>13, <3>1 DEF Onward
    <2>2. CASE ins.taken /\ q = Head(routerQueue)
      <3>1. Occurs(q, routerQueue) /\ ~Occurs(q, routerQueue')
        BY <1>11, <2>2
      <3>2. ~Occurs(q, d) /\ ~Occurs(q, o) /\ ~Occurs(q, out)
        BY <1>1, <1>6, <3>1 DEF Four, Away
      <3> QED BY <1>9, <1>13, <3>1, <3>2 DEF Onward
    <2> QED BY <1>10, <1>14, <1>16, <2>1, <2>2
  <1>17. /\ \A b \in Banks : Occurs(b, turns')
         /\ turns' \in Seq(Banks) /\ dbus' \in Nat /\ byteAvail' \in Nat
    <2>1. x1.turns \in Seq(Banks) /\ x1.dbus \in Nat /\ x1.byteAvail \in Nat
          /\ \A b \in Banks : Occurs(b, x1.turns)
      BY <1>3 DEF Good, Parts, Sound
    <2>2. turns' = x1.turns /\ dbus' = Elapsed(x1.dbus) /\ byteAvail' = x1.byteAvail
      BY <1>4, <1>10 DEF Taken
    <2> QED BY <2>1, <2>2 DEF Elapsed
  <1>18. FrontTypes' /\ BankTypes'
    BY <1>1, <1>4, <1>8, <1>14, <1>17 DEF FrontTypes, BankTypes, Records
  <1>19. BanksSound'
    BY <1>14, <1>16, <1>17 DEF BanksSound
  <1>20. BackEnd' /\ CallbackOwed'
    BY <1>4, <1>12 DEF DramInv, BackEnd, CallbackOwed
  <1> QED BY <1>15, <1>18, <1>19, <1>20 DEF DramInv, d2, o2

\* The places of the model, in terms of the lists.
LEMMA Places ==
    ASSUME DramInv, NEW q \in Reqs
    PROVE  /\ q \in Inside <=> Away(q)
           /\ q \in InBanks <=> \E b \in Banks : Holds(bank[b], q)
           /\ q \in ToSet(m_pending_request) <=> Occurs(q, m_pending_request)
  <1>1. /\ routerQueue \in Seq(Reqs) /\ m_pending_request \in Seq(Reqs)
        /\ m_output_buffer \in Seq(Reqs) /\ m_tmp_output_buffer \in Seq(Records)
        /\ bank \in [Banks -> BankRecords]
    BY DEF DramInv, Four, FrontTypes, BankTypes, Records
  <1>2. ASSUME NEW s \in Seq(Reqs) PROVE q \in ToSet(s) <=> Occurs(q, s)
    <2>1. DOMAIN s = 1..Len(s)
      BY LenProperties
    <2> QED BY <2>1 DEF ToSet, Occurs
  <1>3. q \in Delayed <=> Occurs(q, Reqd(m_tmp_output_buffer))
    <2> DEFINE d == m_tmp_output_buffer
    <2>1. /\ Len(Reqd(d)) = Len(d) /\ DOMAIN d = 1..Len(d)
          /\ \A k \in 1..Len(d) : Reqd(d)[k] = d[k].req
      BY <1>1, ReqdProperties, LenProperties
    <2> QED BY <2>1 DEF Delayed, Occurs
  <1>4. q \in Inside <=> Away(q)
    BY <1>1, <1>2, <1>3 DEF Inside, Away
  <1>5. \A b \in Banks : q \in ToSet(bank[b].buf) <=> Occurs(q, bank[b].buf)
    BY <1>1, <1>2 DEF BankRecords
  <1>6. q \in InBanks <=> \E b \in Banks : Holds(bank[b], q)
    BY <1>5, NativeAssumption DEF InBanks, Holds
  <1> QED BY <1>1, <1>2, <1>4, <1>6

\* A request comes, and is nowhere yet.
LEMMA Arrives ==
    ASSUME DramInv, NEW q \in Reqs, ~Away(q), routerQueue' = Append(routerQueue, q),
           UNCHANGED <<m_pending_request, m_tmp_output_buffer, m_output_buffer>>
    PROVE  /\ Four(routerQueue, m_pending_request, Reqd(m_tmp_output_buffer), m_output_buffer)'
           /\ \A p \in Reqs : Away(p)' <=> Away(p) \/ p = q
  <1> DEFINE d == Reqd(m_tmp_output_buffer)
             r == routerQueue
             r2 == routerQueue'
  <1>1. Four(r, m_pending_request, d, m_output_buffer)
    BY DEF DramInv
  <1>2. r \in Seq(Reqs) /\ OnceEach(r) /\ ~Occurs(q, r) /\ r2 = Append(r, q) /\ q \in Reqs
    BY <1>1 DEF Four, Away
  <1>3. d' = d
    BY DEF Reqd
  <1>4. ~Occurs(q, m_pending_request) /\ ~Occurs(q, d) /\ ~Occurs(q, m_output_buffer)
    BY DEF Away
  <1>5. \A p \in Reqs : /\ Away(p) <=> \/ Occurs(p, r) \/ Occurs(p, m_pending_request)
                                       \/ Occurs(p, d) \/ Occurs(p, m_output_buffer)
                        /\ Away(p)' <=> \/ Occurs(p, r2) \/ Occurs(p, m_pending_request)
                                        \/ Occurs(p, d) \/ Occurs(p, m_output_buffer)
    BY <1>3 DEF Away
  <1> HIDE DEF d, r, r2
  <1>6. /\ r2 \in Seq(Reqs) /\ OnceEach(r2)
        /\ \A p : Occurs(p, r2) <=> Occurs(p, r) \/ p = q
    BY ONLY <1>2, OneMore
  <1>7. Four(r2, m_pending_request, d, m_output_buffer)
    BY <1>1, <1>4, <1>6 DEF Four
  <1> QED BY <1>3, <1>5, <1>6, <1>7 DEF r2, d

\* With MCsim the banks stay empty.
LEMMA FrontStep ==
    ASSUME DramInv, policy = "MCSIM", UNCHANGED <<policy, merge, ownVars>>,
           FrontTypes', CallbackOwed',
           Four(routerQueue, m_pending_request, Reqd(m_tmp_output_buffer), m_output_buffer)'
    PROVE  DramInv'
  <1>1. BankTypes' /\ BackEnd'
    BY DEF DramInv, BankTypes, BackEnd, ownVars
  <1>2. BanksSound'
    BY DEF DramInv, BanksSound, BackEnd, ownVars
  <1> QED BY <1>1, <1>2 DEF DramInv

LEMMA DeliverKeeps ==
    ASSUME DramInv, NEW q \in Reqs, Deliver(q), policy = "MCSIM",
           UNCHANGED <<policy, merge, ownVars>>
    PROVE  DramInv'
  <1>1. ~Away(q)
    BY Places DEF Deliver
  <1>2. Four(routerQueue, m_pending_request, Reqd(m_tmp_output_buffer), m_output_buffer)'
    BY <1>1, Arrives DEF Deliver
  <1>3. FrontTypes' /\ CallbackOwed'
    BY DEF Deliver, DramInv, FrontTypes, CallbackOwed
  <1> QED BY <1>2, <1>3, FrontStep

LEMMA DeliverNativeKeeps ==
    ASSUME DramInv, NEW q \in Reqs, DeliverNative(q)
    PROVE  DramInv'
  <1>1. ~Away(q) /\ \A b \in Banks : ~Holds(bank[b], q)
    BY Places DEF DeliverNative, Everywhere
  <1>2. /\ Four(routerQueue, m_pending_request, Reqd(m_tmp_output_buffer), m_output_buffer)'
        /\ \A p \in Reqs : Away(p)' <=> Away(p) \/ p = q
    BY <1>1, Arrives DEF DeliverNative
  <1>3. FrontTypes' /\ CallbackOwed'
    BY DEF DeliverNative, DramInv, FrontTypes, CallbackOwed
  <1>4. BankTypes' /\ BackEnd'
    BY DEF DeliverNative, DramInv, BankTypes, BackEnd
  <1>5. BanksSound'
    <2>1. bank' = bank /\ turns' = turns /\ BanksSound
      BY DEF DeliverNative, DramInv
    <2> QED BY <1>1, <1>2, <2>1 DEF BanksSound
  <1> QED BY <1>2, <1>3, <1>4, <1>5 DEF DramInv

\* A callback of MCsim releases what is pending for its address, and still owes one for
\* everything else.
LEMMA CallbackKeeps ==
    ASSUME DramInv, NEW a \in Addrs, callback(a), policy = "MCSIM",
           UNCHANGED <<policy, merge, ownVars>>
    PROVE  DramInv'
  <1> DEFINE p == m_pending_request
             p2 == m_pending_request'
             out == Kept(p, To(a))
             d == Reqd(m_tmp_output_buffer)
             d2 == Reqd(m_tmp_output_buffer')
             o == m_output_buffer
             o2 == m_output_buffer'
  <1>1. FrontTypes /\ Four(routerQueue, p, d, o) /\ CallbackOwed
    BY DEF DramInv
  <1>2. /\ p \in Seq(Reqs) /\ OnceEach(p) /\ o \in Seq(Reqs) /\ OnceEach(o)
        /\ d \in Seq(Reqs) /\ OnceEach(d)
        /\ \A q \in Reqs : Occurs(q, d) => ~Occurs(q, o)
        /\ \A q \in Reqs : Occurs(q, p) => ~Occurs(q, d) /\ ~Occurs(q, o)
    BY <1>1 DEF Four
  <1>3. /\ out \in Seq(Reqs) /\ OnceEach(out)
        /\ \A q : Occurs(q, out) <=> Occurs(q, p) /\ q \in To(a)
    BY <1>2, KeptProperties
  <1>4. p2 = Kept(p, Reqs \ To(a))
    BY DEF callback
  <1>5. /\ p2 \in Seq(Reqs) /\ OnceEach(p2)
        /\ \A q : Occurs(q, p2) <=> Occurs(q, p) /\ q \in Reqs \ To(a)
    BY <1>2, <1>4, KeptProperties
  <1>6. /\ m_tmp_output_buffer \in Seq(Records) /\ additionalLatency \in Nat
        /\ UNCHANGED <<additionalLatency, routerQueue>>
    BY <1>1 DEF FrontTypes, Records, callback
  <1>7. \/ /\ additionalLatency = 0 /\ UNCHANGED m_tmp_output_buffer
           /\ o2 = o \o out
        \/ /\ additionalLatency # 0 /\ o2 = o
           /\ m_tmp_output_buffer' = m_tmp_output_buffer \o Waiting(out, additionalLatency)
    BY DEF callback, Release, Waiting
  <1> HIDE DEF out
  <1>8. /\ m_tmp_output_buffer' \in Seq(Records)
        /\ additionalLatency = 0 => m_tmp_output_buffer' = <<>>
        /\ \/ o2 = o \o out /\ d2 = d
           \/ o2 = o /\ d2 = d \o out
    <2>1. CASE additionalLatency = 0
      <3>1. UNCHANGED m_tmp_output_buffer /\ o2 = o \o out
        BY <1>7, <2>1
      <3>2. m_tmp_output_buffer = <<>>
        BY <1>1, <2>1 DEF FrontTypes
      <3> QED BY <1>6, <3>1, <3>2 DEF Reqd
    <2>2. CASE additionalLatency # 0
      <3> DEFINE t == m_tmp_output_buffer
                 t2 == m_tmp_output_buffer'
                 w == additionalLatency
      <3>1. t \in Seq(Records) /\ w \in Nat /\ t2 = t \o Waiting(out, w) /\ o2 = o
        BY <1>6, <1>7, <2>2
      <3> HIDE DEF t, t2, w
      <3>2. t2 \in Seq(Records) /\ Reqd(t2) = Reqd(t) \o out
        BY ONLY <1>3, <3>1, Delays
      <3> QED BY <2>2, <3>1, <3>2 DEF t, t2
    <2> QED BY <2>1, <2>2
  <1> HIDE DEF d, d2, o, o2
  <1>9. Onward(d, o, out, d2, o2)
    <2>1. \A q \in Reqs : Occurs(q, out) => ~Occurs(q, d) /\ ~Occurs(q, o)
      BY <1>2, <1>3
    <2> QED BY <1>2, <1>3, <1>8, <2>1, ReleasedOnward
  <1>10. Four(routerQueue', p2, d2, o2)
    <2>1. ASSUME NEW q \in Reqs
          PROVE  /\ Occurs(q, routerQueue) => ~Occurs(q, p2) /\ ~Occurs(q, d2) /\ ~Occurs(q, o2)
                 /\ Occurs(q, p2) => ~Occurs(q, d2) /\ ~Occurs(q, o2)
                 /\ Occurs(q, d2) => ~Occurs(q, o2)
      <3>1. Occurs(q, routerQueue) => ~Occurs(q, p) /\ ~Occurs(q, d) /\ ~Occurs(q, o)
        BY <1>1 DEF Four
      <3> QED BY <1>2, <1>3, <1>5, <1>9, <3>1 DEF Onward
    <2>2. routerQueue' = routerQueue /\ routerQueue \in Seq(Reqs) /\ OnceEach(routerQueue)
      BY <1>1, <1>6 DEF Four
    <2> QED BY <1>5, <1>9, <2>1, <2>2 DEF Four, Onward
  <1>11. /\ outstanding' = [outstanding EXCEPT ![a] = @ - 1] /\ outstanding[a] > 0
         /\ outstanding \in [Addrs -> Nat]
    BY <1>1 DEF callback, FrontTypes
  <1>12. FrontTypes'
    BY <1>6, <1>8, <1>11 DEF FrontTypes, Records
  <1>13. CallbackOwed'
    <2>1. ASSUME NEW q \in ToSet(p2) PROVE outstanding'[AddrOf[q]] > 0
      <3>1. DOMAIN p2 = 1..Len(p2) /\ DOMAIN p = 1..Len(p)
        BY <1>2, <1>5, LenProperties
      <3>2. Occurs(q, p2)
        BY <3>1 DEF ToSet, Occurs
      <3>3. Occurs(q, p) /\ q \in Reqs /\ AddrOf[q] # a
        BY <1>5, <3>2 DEF To
      <3>4. q \in ToSet(p)
        BY <3>1, <3>3 DEF ToSet, Occurs
      <3>5. outstanding[AddrOf[q]] > 0
        BY <1>1, <3>4 DEF CallbackOwed
      <3>6. AddrOf[q] \in Addrs
        BY <3>3 DEF Addrs
      <3> QED BY <1>11, <3>3, <3>5, <3>6
    <2> QED BY <2>1 DEF CallbackOwed
  <1> QED BY <1>10, <1>12, <1>13, FrontStep DEF d2, o2

\* The rest of a cycle with MCsim: what is accepted is pending, and owed.
LEMMA RunKeeps ==
    ASSUME DramInv, NEW n \in 0..Len(m_output_buffer), run_a_cycle(n), policy = "MCSIM",
           UNCHANGED <<policy, merge, ownVars>>
    PROVE  DramInv'
  <1> DEFINE r == routerQueue
             r2 == routerQueue'
             p == m_pending_request
             p2 == m_pending_request'
             d == Reqd(m_tmp_output_buffer)
             d2 == Reqd(m_tmp_output_buffer')
             o == m_output_buffer
             o2 == m_output_buffer'
             out == <<>>
             t == m_tmp_output_buffer
  <1>1. FrontTypes /\ Four(r, p, d, o) /\ CallbackOwed
    BY DEF DramInv
  <1>2. /\ p \in Seq(Reqs) /\ OnceEach(p) /\ o \in Seq(Reqs) /\ OnceEach(o)
        /\ d \in Seq(Reqs) /\ OnceEach(d) /\ r \in Seq(Reqs) /\ OnceEach(r)
        /\ \A q \in Reqs : Occurs(q, d) => ~Occurs(q, o)
    BY <1>1 DEF Four
  <1>3. t \in Seq(Records) /\ Due \in 0..Len(t) /\ Len(d) = Len(t)
    BY <1>1, DueInRange, ReqdProperties DEF FrontTypes, Records
  <1>4. /\ [k \in 1 .. Due |-> t[k].req] = Upto(d, Due)
        /\ SubSeq(t, Due + 1, Len(t)) \in Seq(Records)
        /\ Reqd(SubSeq(t, Due + 1, Len(t))) = Beyond(d, Due)
    BY <1>3, ReqdPiece DEF Upto, Beyond
  <1>5. /\ m_tmp_output_buffer' \in Seq(Records) /\ d2 = Beyond(d, Due)
        /\ o2 = Beyond(o, n) \o Upto(d, Due)
        /\ additionalLatency = 0 => m_tmp_output_buffer' = <<>>
    <2> DEFINE rest == SubSeq(t, Due + 1, Len(t))
    <2>1. m_tmp_output_buffer' =
              [k \in DOMAIN rest |-> [rest[k] EXCEPT !.wait = IF @ > 0 THEN @ - 1 ELSE 0]]
      BY DEF run_a_cycle, delay_packet
    <2>2. o2 = Beyond(o, n) \o Upto(d, Due)
      BY <1>4 DEF run_a_cycle, delay_packet, send_packet, Beyond
    <2>3. m_tmp_output_buffer' \in Seq(Records) /\ d2 = Reqd(rest)
      <3>1. rest \in Seq(Records)
        BY <1>4
      <3> HIDE DEF rest
      <3> QED BY <2>1, <3>1, Waited
    <2>4. ASSUME additionalLatency = 0 PROVE m_tmp_output_buffer' = <<>>
      <3>1. t = <<>>
        BY <1>1, <2>4 DEF FrontTypes
      <3>2. Due = 0
        BY <1>3, <3>1
      <3>3. rest = <<>>
        BY <3>1, <3>2
      <3> HIDE DEF rest
      <3>4. DOMAIN rest = {}
        BY <3>3
      <3>5. DOMAIN m_tmp_output_buffer' = {}
        BY <2>1, <3>4
      <3>6. Len(m_tmp_output_buffer') \in Nat
            /\ DOMAIN m_tmp_output_buffer' = 1..Len(m_tmp_output_buffer')
        BY <2>3, LenProperties
      <3>7. Len(m_tmp_output_buffer') = 0
        BY <3>5, <3>6
      <3> QED BY <2>3, <3>7, EmptySeq
    <2> QED BY <1>4, <2>2, <2>3, <2>4
  <1>6. out \in Seq(Reqs) /\ OnceEach(out) /\ \A q : ~Occurs(q, out)
    BY DEF OnceEach, Occurs
  <1>7. Onward(d, o, out, d2, o2)
    <2>1. \A q \in Reqs : Occurs(q, out) => ~Occurs(q, d) /\ ~Occurs(q, o)
      BY <1>6
    <2>2. n \in 0..Len(o) /\ Due \in 0..Len(d)
      BY <1>3
    <2> DEFINE u == Due
    <2>3. d2 = Beyond(d, u) \o out
      <3>1. Beyond(d, u) \in Seq(Reqs)
        BY <1>2, <2>2, TwoParts
      <3> QED BY <1>5, <3>1
    <2> HIDE DEF d, o, d2, o2, u, out
    <2>4. /\ n \in 0..Len(o) /\ u \in 0..Len(d)
          /\ o2 = Beyond(o, n) \o Upto(d, u) /\ d2 = Beyond(d, u) \o out
      BY <1>5, <2>2, <2>3 DEF u
    <2> QED BY <1>2, <1>6, <2>1, <2>4, MovesOnward
  <1> HIDE DEF d, d2, o, o2, out, t
  <1>8. /\ UNCHANGED additionalLatency
        /\ \/ r = <<>> /\ UNCHANGED <<routerQueue, outstanding, m_pending_request>>
           \/ /\ r # <<>> /\ r2 = Tail(r) /\ p2 = Append(p, Head(r))
              /\ outstanding' = [outstanding EXCEPT ![AddrOf[Head(r)]] = @ + 1]
    BY DEF run_a_cycle, receive_packet
  <1>9. outstanding \in [Addrs -> Nat]
    BY <1>1 DEF FrontTypes
  <1>10. CASE r = <<>> /\ UNCHANGED <<routerQueue, outstanding, m_pending_request>>
    <2>1. Four(r2, p2, d2, o2)
      <3>1. ASSUME NEW q \in Reqs
            PROVE  /\ Occurs(q, r) => ~Occurs(q, p) /\ ~Occurs(q, d2) /\ ~Occurs(q, o2)
                   /\ Occurs(q, p) => ~Occurs(q, d2) /\ ~Occurs(q, o2)
                   /\ Occurs(q, d2) => ~Occurs(q, o2)
        BY <1>1, <1>6, <1>7 DEF Four, Onward
      <3> QED BY <1>2, <1>7, <1>10, <3>1 DEF Four, Onward
    <2>2. FrontTypes' /\ CallbackOwed'
      BY <1>1, <1>5, <1>8, <1>10 DEF FrontTypes, CallbackOwed, Records
    <2> QED BY <2>1, <2>2, FrontStep DEF d2, o2
  <1>11. CASE /\ r # <<>> /\ r2 = Tail(r) /\ p2 = Append(p, Head(r))
              /\ outstanding' = [outstanding EXCEPT ![AddrOf[Head(r)]] = @ + 1]
    <2> DEFINE h == Head(r)
    <2> HIDE DEF r, r2, p, p2
    <2>1. /\ r2 \in Seq(Reqs) /\ OnceEach(r2) /\ h \in Reqs /\ Occurs(h, r)
          /\ \A x : Occurs(x, r2) <=> Occurs(x, r) /\ x # h
      BY ONLY <1>2, <1>11, OneLess
    <2>2. ~Occurs(h, p) /\ ~Occurs(h, d) /\ ~Occurs(h, o)
      BY <1>1, <2>1 DEF Four
    <2>3. p2 = Append(p, h) /\ outstanding' = [outstanding EXCEPT ![AddrOf[h]] = @ + 1]
      BY <1>11
    <2> HIDE DEF h
    <2>4. /\ p2 \in Seq(Reqs) /\ OnceEach(p2)
          /\ \A x : Occurs(x, p2) <=> Occurs(x, p) \/ x = h
      <3>1. p \in Seq(Reqs) /\ OnceEach(p) /\ ~Occurs(h, p) /\ h \in Reqs /\ p2 = Append(p, h)
        BY <1>2, <2>1, <2>2, <2>3
      <3> QED BY ONLY <3>1, OneMore
    <2>5. Four(r2, p2, d2, o2)
      <3>1. ASSUME NEW q \in Reqs
            PROVE  /\ Occurs(q, r2) => ~Occurs(q, p2) /\ ~Occurs(q, d2) /\ ~Occurs(q, o2)
                   /\ Occurs(q, p2) => ~Occurs(q, d2) /\ ~Occurs(q, o2)
                   /\ Occurs(q, d2) => ~Occurs(q, o2)
        <4>1. /\ Occurs(q, r) => ~Occurs(q, p) /\ ~Occurs(q, d) /\ ~Occurs(q, o)
              /\ Occurs(q, p) => ~Occurs(q, d) /\ ~Occurs(q, o)
          BY <1>1 DEF Four
        <4> QED BY <1>6, <1>7, <2>1, <2>2, <2>4, <4>1 DEF Onward
      <3> QED BY <1>7, <2>1, <2>4, <3>1 DEF Four, Onward
    <2>6. AddrOf[h] \in Addrs
      BY <2>1 DEF Addrs
    <2>7. FrontTypes'
      BY <1>1, <1>5, <1>8, <1>9, <2>3, <2>6 DEF FrontTypes, Records
    <2>8. CallbackOwed'
      <3>1. ASSUME NEW q \in ToSet(p2) PROVE outstanding'[AddrOf[q]] > 0
        <4>1. DOMAIN p2 = 1..Len(p2) /\ DOMAIN p = 1..Len(p)
          BY <1>2, <2>4, LenProperties
        <4>2. Occurs(q, p2)
          BY <4>1 DEF ToSet, Occurs
        <4>3. q \in Reqs
          BY <2>4, <4>2, ElementOfSeq DEF Occurs
        <4>4. AddrOf[q] \in Addrs
          BY <4>3 DEF Addrs
        <4>5. CASE q = h
          BY <1>9, <2>3, <2>6, <4>5
        <4>6. CASE Occurs(q, p)
          <5>1. q \in ToSet(p)
            BY <4>1, <4>6 DEF ToSet, Occurs
          <5>2. outstanding[AddrOf[q]] > 0
            BY <1>1, <5>1 DEF CallbackOwed, p
          <5> QED BY <1>9, <2>3, <2>6, <4>4, <5>2
        <4> QED BY <2>4, <4>2, <4>5, <4>6
      <3> QED BY <3>1 DEF CallbackOwed, p2
    <2> QED BY <2>5, <2>7, <2>8, FrontStep DEF d2, o2, r2, p2
  <1> QED BY <1>8, <1>10, <1>11

LEMMA DramInit ==
    ASSUME NativeInit
    PROVE  DramInv
  <1>1. /\ routerQueue = <<>> /\ m_pending_request = <<>> /\ m_tmp_output_buffer = <<>>
        /\ m_output_buffer = <<>> /\ additionalLatency \in Nat
        /\ outstanding \in [Addrs -> Nat]
    BY FrontendAssumption DEF NativeInit, Init
  <1>2. FrontTypes
    BY <1>1 DEF FrontTypes
  <1>3. Reqd(m_tmp_output_buffer) = <<>>
    BY <1>1 DEF Reqd
  <1>4. Four(<<>>, <<>>, <<>>, <<>>)
    BY DEF Four, OnceEach, Occurs
  <1>5. /\ turns \in Seq(Banks) /\ \A b \in Banks : Occurs(b, turns)
    <2>1. turns = [k \in 1..NumBanks |-> k - 1] /\ NumBanks \in Nat
      BY NativeAssumption DEF NativeInit, InOrder
    <2>2. turns \in Seq(Banks) /\ Len(turns) = NumBanks
      BY <2>1 DEF Banks
    <2>3. \A b \in Banks : b + 1 \in 1..NumBanks /\ (b + 1) - 1 = b
      BY <2>1 DEF Banks
    <2> QED BY <2>1, <2>2, <2>3 DEF Occurs
  <1>6. ASSUME NEW b \in Banks
        PROVE  /\ bank[b] = [buf |-> <<>>, cur |-> None, state |-> "init", row |-> NoRow, wait |-> 0]
               /\ bank[b] \in BankRecords
    BY DEF NativeInit, BankRecords
  <1>7. BankTypes
    <2>1. bank \in [Banks -> BankRecords]
      BY <1>6 DEF NativeInit
    <2> QED BY <1>5, <2>1, NativeAssumption DEF NativeInit, BankTypes
  <1>8. ASSUME NEW b \in Banks
        PROVE  BankSound(b, bank[b]) /\ \A q \in Reqs : ~Holds(bank[b], q)
    <2>1. \A q \in Reqs : ~Holds(bank[b], q)
      BY <1>6, NativeAssumption DEF Holds, Occurs
    <2>2. Entries(bank[b]) <= BufferSize
      <3>1. bank[b].buf = <<>> /\ bank[b].cur = None /\ Len(<<>>) = 0
        BY <1>6
      <3>2. Entries(bank[b]) = 0 + 0
        BY <3>1 DEF Entries
      <3> QED BY <3>2, NativeAssumption
    <2> QED BY <1>6, <2>1, <2>2 DEF BankSound, OnceEach, Occurs
  <1>9. BanksSound /\ BackEnd
    BY <1>1, <1>5, <1>8 DEF BanksSound, BackEnd
  <1>10. CallbackOwed
    BY <1>1 DEF CallbackOwed, ToSet
  <1> QED BY <1>1, <1>2, <1>3, <1>4, <1>7, <1>9, <1>10 DEF DramInv

LEMMA DramNext ==
    ASSUME DramInv, [NativeNext]_allVars
    PROVE  DramInv'
  <1>1. CASE WithMCsim
    <2>1. policy = "MCSIM" /\ Next /\ UNCHANGED <<policy, merge, ownVars>>
      BY <1>1 DEF WithMCsim
    <2> QED BY <2>1, DeliverKeeps, CallbackKeeps, RunKeeps DEF Next
  <1>2. CASE \E q \in Reqs : DeliverNative(q)
    BY <1>2, DeliverNativeKeeps
  <1>3. CASE \E n \in 0 .. Len(m_output_buffer) : CycleNative(n)
    BY <1>3, CycleKeeps DEF CycleNative
  <1>4. CASE UNCHANGED allVars
    BY <1>4 DEF allVars, vars, ownVars, DramInv, FrontTypes, BankTypes, BanksSound, BackEnd,
                CallbackOwed, Reqd, Away
  <1> QED BY <1>1, <1>2, <1>3, <1>4 DEF NativeNext

LEMMA DramAlways == NativeSpec => []DramInv
  <1> QED BY DramInit, DramNext, PTL DEF NativeSpec

--------------------------------------------------------------------------------
(* What is in how many places. *)

\* A bank holds as many requests as it has entries in use.
OfBank(b) == ToSet(bank[b].buf) \cup ({bank[b].cur} \ {None})
LEMMA BankCounted ==
    ASSUME DramInv, NEW b \in Banks
    PROVE  /\ IsFiniteSet(OfBank(b)) /\ Cardinality(OfBank(b)) = Entries(bank[b])
           /\ \A q \in OfBank(b) : q \in Reqs /\ Holds(bank[b], q)
  <1> DEFINE k == bank[b]
             buf == k.buf
             cur == {k.cur} \ {None}
  <1>1. k \in BankRecords /\ BankSound(b, k)
    BY DEF DramInv, BankTypes, BanksSound
  <1>2. buf \in Seq(Reqs) /\ OnceEach(buf) /\ k.cur \in Reqs \cup {None} /\ ~Occurs(k.cur, buf)
    BY <1>1 DEF BankRecords, BankSound
  <1>3. /\ \A x : x \in ToSet(buf) <=> Occurs(x, buf)
        /\ IsFiniteSet(ToSet(buf)) /\ Cardinality(ToSet(buf)) = Len(buf) /\ Len(buf) \in Nat
    BY <1>2, CountedOnce, LenProperties
  <1>4. /\ IsFiniteSet(cur) /\ Cardinality(cur) = IF k.cur = None THEN 0 ELSE 1
        /\ ToSet(buf) \cap cur = {}
    <2>1. CASE k.cur = None
      <3>1. cur = {}
        BY <2>1
      <3> QED BY <2>1, <3>1, FS_EmptySet
    <2>2. CASE k.cur # None
      <3>1. cur = {k.cur}
        BY <2>2
      <3>2. IsFiniteSet({k.cur}) /\ Cardinality({k.cur}) = 1
        BY FS_Singleton
      <3>3. k.cur \notin ToSet(buf)
        BY <1>2, <1>3
      <3>4. ToSet(buf) \cap cur = {}
        BY <3>1, <3>3
      <3>5. (IF k.cur = None THEN 0 ELSE 1) = 1
        BY <2>2
      <3> HIDE DEF cur
      <3> QED BY <3>1, <3>2, <3>4, <3>5
    <2> QED BY <2>1, <2>2
  <1>5. OfBank(b) = ToSet(buf) \cup cur
    BY DEF OfBank
  <1>6. ASSUME NEW q \in OfBank(b) PROVE q \in Reqs /\ Holds(k, q)
    <2>1. CASE q \in ToSet(buf)
      <3>1. Occurs(q, buf)
        BY <1>3, <2>1
      <3> QED BY <1>2, <3>1, ElementOfSeq DEF Occurs, Holds
    <2>2. CASE q \in cur
      BY <1>2, <2>2 DEF Holds
    <2> QED BY <1>5, <1>6, <2>1, <2>2
  <1> HIDE DEF cur, buf, k
  <1>7. /\ IsFiniteSet(ToSet(buf) \cup cur)
        /\ Cardinality(ToSet(buf) \cup cur) = Len(buf) + (IF k.cur = None THEN 0 ELSE 1)
    <2>1. /\ IsFiniteSet(ToSet(buf) \cup cur)
          /\ Cardinality(ToSet(buf) \cup cur) = Cardinality(ToSet(buf)) + Cardinality(cur)
                                                - Cardinality(ToSet(buf) \cap cur)
      BY <1>3, <1>4, FS_Union
    <2>2. Cardinality(ToSet(buf) \cap cur) = 0
      BY <1>4, FS_EmptySet
    <2> QED BY <1>3, <1>4, <2>1, <2>2
  <1>8. Entries(k) = Len(buf) + (IF k.cur = None THEN 0 ELSE 1)
    BY DEF Entries, buf
  <1> QED BY <1>5, <1>6, <1>7, <1>8 DEF k

\* All banks together.
LEMMA BanksCounted ==
    ASSUME DramInv
    PROVE  /\ IsFiniteSet(InBanks)
           /\ Cardinality(InBanks) = FoldFunction(+, 0, [b \in Banks |-> Entries(bank[b])])
  <1> DEFINE f == [b \in Banks |-> Entries(bank[b])]
             D == DOMAIN f
             c == [t \in SUBSET D |-> CHOOSE b \in t : TRUE]
             none == 0
             h == [y \in Nat \X D |-> f[y[2]] + y[1]]
             iter == CHOOSE it : it = [t \in SUBSET D |->
                        IF t = {} THEN 0
                        ELSE f[CHOOSE b \in t : TRUE] + it[t \ {CHOOSE b \in t : TRUE}]]
             all(t) == UNION {OfBank(b) : b \in t}
  <1>1. /\ D = Banks /\ IsFiniteSet(D)
        /\ \A b \in D : f[b] = Entries(bank[b]) /\ f[b] \in Nat
    <2>1. IsFiniteSet(Banks)
      BY NativeAssumption, FS_Interval DEF Banks
    <2>2. \A b \in Banks : Entries(bank[b]) \in Nat
      <3> TAKE b \in Banks
      <3>1. bank[b].buf \in Seq(Reqs)
        BY DEF DramInv, BankTypes, BankRecords
      <3>2. Len(bank[b].buf) \in Nat
        BY <3>1, LenProperties
      <3> DEFINE n == Len(bank[b].buf)
                 one == IF bank[b].cur = None THEN 0 ELSE 1
      <3>3. Entries(bank[b]) = n + one /\ n \in Nat /\ one \in Nat
        BY <3>2 DEF Entries
      <3> HIDE DEF n, one
      <3> QED BY <3>3
    <2> QED BY <2>1, <2>2
  <1>2. FoldFunction(+, 0, f) = iter[D]
    BY DEF FoldFunction, FoldFunctionOnSet, MapThenFoldSet
  <1>3. \A t \in SUBSET D : t # {} => c[t] = (CHOOSE b \in t : TRUE) /\ (CHOOSE b \in t : TRUE) \in t
    OBVIOUS
  <1> HIDE DEF D, f
  <1>4. \A y \in Nat, b \in D : h[<<y, b>>] \in Nat /\ h[<<y, b>>] = f[b] + y
    BY <1>1
  <1>5. none \in Nat /\ none = 0
    OBVIOUS
  <1> HIDE DEF c, h, none
  <1>6. Picks(c, D) /\ Keeps(h, Nat, D)
    BY <1>3, <1>4 DEF Picks, Keeps
  <1>7. PICK g \in [SUBSET D -> Nat] : Folds(g, D, none, c, h)
    BY <1>1, <1>5, <1>6, FoldExists
  <1>8. g = [t \in SUBSET D |->
                IF t = {} THEN 0
                ELSE f[CHOOSE b \in t : TRUE] + g[t \ {CHOOSE b \in t : TRUE}]]
    <2>1. ASSUME NEW t \in SUBSET D, t # {}
          PROVE  g[t] = f[CHOOSE b \in t : TRUE] + g[t \ {CHOOSE b \in t : TRUE}]
      <3> DEFINE i == CHOOSE b \in t : TRUE
                 y == g[t \ {i}]
      <3>1. c[t] = i /\ i \in D /\ y \in Nat
        BY <1>3, <1>7, <2>1
      <3>2. g[t] = h[<<g[t \ {c[t]}], c[t]>>]
        BY <1>7, <2>1 DEF Folds
      <3>3. g[t] = h[<<y, i>>]
        BY <3>1, <3>2
      <3> HIDE DEF y, i
      <3>4. g[t] = f[i] + y
        BY <1>4, <3>1, <3>3
      <3> QED BY <3>4 DEF y, i
    <2>2. g[{}] = 0
      BY <1>5, <1>7 DEF Folds
    <2> QED BY <2>1, <2>2
  <1>9. iter = [t \in SUBSET D |->
                IF t = {} THEN 0
                ELSE f[CHOOSE b \in t : TRUE] + iter[t \ {CHOOSE b \in t : TRUE}]]
    BY <1>8
  <1> HIDE DEF iter
  <1> DEFINE T == {t \in SUBSET D : iter[t] \in Nat /\ IsFiniteSet(all(t)) /\ Cardinality(all(t)) = iter[t]}
  <1>10. {} \in T
    <2>1. all({}) = {} /\ iter[{}] = 0
      BY <1>9
    <2> HIDE DEF all
    <2>2. IsFiniteSet(all({})) /\ Cardinality(all({})) = 0
      BY <2>1, FS_EmptySet
    <2> QED BY <2>1, <2>2
  <1>11. ASSUME NEW t \in SUBSET D, t # {}, t \ {c[t]} \in T PROVE t \in T
    <2> DEFINE b == c[t]
               s == t \ {b}
               A == all(s)
               B == OfBank(b)
    <2>1. b \in t /\ b \in Banks /\ iter[t] = f[b] + iter[s]
      <3>1. b = (CHOOSE e \in t : TRUE) /\ b \in t
        BY <1>3, <1>11
      <3>2. iter[t] = f[b] + iter[t \ {b}]
        BY <1>9, <1>11, <3>1
      <3> QED BY <1>1, <3>1, <3>2
    <2>2. iter[s] \in Nat /\ IsFiniteSet(A) /\ Cardinality(A) = iter[s]
      BY <1>11
    <2> HIDE DEF b
    <2>3. all(t) = A \cup B
      BY <2>1
    <2>4. IsFiniteSet(B) /\ Cardinality(B) = f[b] /\ f[b] \in Nat
      BY <1>1, <2>1, BankCounted
    <2>5. A \cap B = {}
      <3> SUFFICES ASSUME NEW q \in A, q \in B PROVE FALSE
        OBVIOUS
      <3>1. PICK e \in s : q \in OfBank(e)
        OBVIOUS
      <3>2. e \in Banks /\ e # b
        BY <1>1, <3>1
      <3>3. q \in Reqs /\ Holds(bank[b], q) /\ Holds(bank[e], q)
        BY <2>1, <3>1, <3>2, BankCounted
      <3>4. bankOf(q) = b /\ bankOf(q) = e
        BY <2>1, <3>2, <3>3 DEF DramInv, BanksSound, BankSound
      <3> QED BY <3>2, <3>4
    <2> DEFINE n == iter[s]
               m == f[b]
               w == iter[t]
               C == all(t)
    <2>6. /\ C = A \cup B /\ IsFiniteSet(A) /\ IsFiniteSet(B) /\ A \cap B = {} /\ w = m + n
          /\ Cardinality(A) = n /\ Cardinality(B) = m /\ n \in Nat /\ m \in Nat
      BY <2>1, <2>2, <2>3, <2>4, <2>5
    <2> HIDE DEF A, B, C, n, m, w
    <2>7. /\ IsFiniteSet(A \cup B)
          /\ Cardinality(A \cup B) = Cardinality(A) + Cardinality(B) - Cardinality(A \cap B)
      BY <2>6, FS_Union
    <2>8. Cardinality(A \cap B) = 0
      BY <2>6, FS_EmptySet
    <2>9. w \in Nat /\ IsFiniteSet(C) /\ Cardinality(C) = w
      BY <2>6, <2>7, <2>8
    <2> QED BY <2>9 DEF w, C
  <1>12. SUBSET D \subseteq T
    <2> HIDE DEF T
    <2>1. IsFiniteSet(D) /\ Picks(c, D) /\ Inherits(T, D, c)
      BY <1>1, <1>6, <1>11 DEF Inherits
    <2> QED BY ONLY <1>10, <2>1, TakenInduction
  <1>13. InBanks = all(D)
    BY <1>1 DEF InBanks, OfBank
  <1> QED BY <1>2, <1>12, <1>13 DEF f

\* Two sets with nothing in common.
LEMMA Added ==
    ASSUME NEW A, IsFiniteSet(A), NEW B, IsFiniteSet(B), A \cap B = {}
    PROVE  IsFiniteSet(A \cup B) /\ Cardinality(A \cup B) = Cardinality(A) + Cardinality(B)
  <1>1. /\ IsFiniteSet(A \cup B)
        /\ Cardinality(A \cup B) = Cardinality(A) + Cardinality(B) - Cardinality(A \cap B)
    BY FS_Union
  <1>2. Cardinality(A \cap B) = 0
    BY FS_EmptySet
  <1>3. Cardinality(A) \in Nat /\ Cardinality(B) \in Nat
    BY FS_CardinalityType
  <1> QED BY <1>1, <1>2, <1>3

LEMMA InvHeldOnce ==
    ASSUME DramInv
    PROVE  HeldOnce
  <1> DEFINE R == ToSet(routerQueue)
             P == ToSet(m_pending_request)
             d == Reqd(m_tmp_output_buffer)
             W == ToSet(d)
             O == ToSet(m_output_buffer)
             total == FoldFunction(+, 0, [b \in Banks |-> Entries(bank[b])])
  <1>1. /\ Four(routerQueue, m_pending_request, d, m_output_buffer)
        /\ m_tmp_output_buffer \in Seq(Records)
    BY DEF DramInv, FrontTypes, Records
  <1>2. /\ routerQueue \in Seq(Reqs) /\ OnceEach(routerQueue)
        /\ m_pending_request \in Seq(Reqs) /\ OnceEach(m_pending_request)
        /\ d \in Seq(Reqs) /\ OnceEach(d)
        /\ m_output_buffer \in Seq(Reqs) /\ OnceEach(m_output_buffer)
    BY <1>1 DEF Four
  <1>3. ASSUME NEW s \in Seq(Reqs), OnceEach(s)
        PROVE  /\ IsFiniteSet(ToSet(s)) /\ Cardinality(ToSet(s)) = Len(s)
               /\ \A q : q \in ToSet(s) <=> q \in Reqs /\ Occurs(q, s)
    <2>1. \A q : Occurs(q, s) => q \in Reqs
      BY ElementOfSeq DEF Occurs
    <2> QED BY <1>3, <2>1, CountedOnce
  <1>4. /\ IsFiniteSet(R) /\ Cardinality(R) = Len(routerQueue)
        /\ IsFiniteSet(P) /\ Cardinality(P) = Len(m_pending_request)
        /\ IsFiniteSet(W) /\ Cardinality(W) = Len(m_tmp_output_buffer)
        /\ IsFiniteSet(O) /\ Cardinality(O) = Len(m_output_buffer)
    <2>1. Len(d) = Len(m_tmp_output_buffer)
      BY <1>1, ReqdProperties
    <2> QED BY <1>2, <1>3, <2>1
  <1>5. /\ \A q \in R : q \notin P /\ q \notin W /\ q \notin O
        /\ \A q \in P : q \notin W /\ q \notin O
        /\ \A q \in W : q \notin O
    <2>1. \A q : /\ q \in R <=> q \in Reqs /\ Occurs(q, routerQueue)
                 /\ q \in P <=> q \in Reqs /\ Occurs(q, m_pending_request)
                 /\ q \in W <=> q \in Reqs /\ Occurs(q, d)
                 /\ q \in O <=> q \in Reqs /\ Occurs(q, m_output_buffer)
      BY <1>2, <1>3
    <2> QED BY <1>1, <2>1 DEF Four
  <1>6. Delayed = W
    <2> DEFINE t == m_tmp_output_buffer
    <2>1. /\ Len(d) = Len(t) /\ DOMAIN t = 1..Len(t) /\ DOMAIN d = 1..Len(d)
          /\ \A k \in 1..Len(t) : d[k] = t[k].req
      BY <1>1, <1>2, ReqdProperties, LenProperties
    <2> HIDE DEF d
    <2> QED BY <2>1 DEF Delayed, ToSet
  <1>7. Inside = R \cup P \cup W \cup O
    BY <1>6 DEF Inside
  <1>8. Inside \cap InBanks = {}
    <2> SUFFICES ASSUME NEW q \in Inside, q \in InBanks PROVE FALSE
      OBVIOUS
    <2>1. q \in Reqs
      <3>1. \A x \in R \cup P \cup W \cup O : x \in Reqs
        BY <1>2, <1>3
      <3> QED BY <1>7, <3>1
    <2>2. Away(q) /\ \E b \in Banks : Holds(bank[b], q)
      BY <2>1, Places
    <2> QED BY <2>1, <2>2 DEF DramInv, BanksSound
  <1>9. IsFiniteSet(InBanks) /\ Cardinality(InBanks) = total
    BY BanksCounted
  <1> HIDE DEF R, P, d, W, O, total
  <1>10. IsFiniteSet(R \cup P) /\ Cardinality(R \cup P) = Cardinality(R) + Cardinality(P)
    <2>1. R \cap P = {}
      BY <1>5
    <2> QED BY <1>4, <2>1, Added
  <1>11. /\ IsFiniteSet(R \cup P \cup W)
         /\ Cardinality(R \cup P \cup W) = Cardinality(R \cup P) + Cardinality(W)
    <2>1. (R \cup P) \cap W = {}
      BY <1>5
    <2> QED BY <1>4, <1>10, <2>1, Added
  <1>12. /\ IsFiniteSet(R \cup P \cup W \cup O)
         /\ Cardinality(R \cup P \cup W \cup O) = Cardinality(R \cup P \cup W) + Cardinality(O)
    <2>1. (R \cup P \cup W) \cap O = {}
      BY <1>5
    <2> QED BY <1>4, <1>11, <2>1, Added
  <1>13. Cardinality(Everywhere) = Cardinality(Inside) + Cardinality(InBanks)
    BY <1>7, <1>8, <1>9, <1>12, Added DEF Everywhere
  <1>14. /\ Cardinality(R) \in Nat /\ Cardinality(P) \in Nat /\ Cardinality(W) \in Nat
         /\ Cardinality(O) \in Nat /\ Cardinality(InBanks) \in Nat
    BY <1>4, <1>9, FS_CardinalityType
  <1>15. Cardinality(Everywhere) =
            Len(routerQueue) + Len(m_pending_request) + Len(m_tmp_output_buffer)
            + Len(m_output_buffer) + total
    BY <1>4, <1>7, <1>9, <1>10, <1>11, <1>12, <1>13, <1>14
  <1> QED BY <1>15 DEF HeldOnce, total

--------------------------------------------------------------------------------

\* A request is in one place only and there once: neither the callbacks of MCsim, which
\* name an address and not a request, nor merged answers, nor the prefetches that are
\* dropped when a bank is full, duplicate a reply or answer what is held elsewhere.
THEOREM RequestsHeldOnce == NativeSpec => []HeldOnce
  <1> QED BY DramAlways, InvHeldOnce, PTL

\* Data is moved only for a request whose row is open, and no bank holds more requests
\* than it has entries.
THEOREM DataInOpenRows == NativeSpec => []RowsOpen
  <1>1. DramInv => RowsOpen
    BY DEF DramInv, BanksSound, BankSound, RowsOpen
  <1> QED BY <1>1, DramAlways, PTL

\* Although callbacks are spent on requests they were not made for, MCsim still owes one
\* for the address of every pending request.
THEOREM NothingStranded == NativeSpec => []CallbackOwed
  <1>1. DramInv => CallbackOwed
    BY DEF DramInv
  <1> QED BY <1>1, DramAlways, PTL

=================================================================================
