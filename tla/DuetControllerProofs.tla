-------------------------- MODULE DuetControllerProofs --------------------------
(***************************************************************************)
(* The two schedulers of the DUET controller never get in each other's way,*)
(* for any number of requestors and requests, any address mapping, any     *)
(* deadlines, and any answer of isReady, isIssuable and WCLator: the       *)
(* controller implements RequestService, keeps the row protocol and never  *)
(* uses an element that does not exist.  The last parts are about the      *)
(* controller with the estimates of WCLator (DuetEstimate), for any device *)
(* timing: only they use the assumptions on the estimator's constants.     *)
(*                                                                         *)
(* What holds of one requestor is stated over the values of its request    *)
(* queue Q, the index k recorded for HPA, its entry T of the row table,    *)
(* the row O that is open, and its two command queues h (HPA) and t (RTA). *)
(***************************************************************************)
EXTENDS DuetEstimate, ListLemmas

Pkt(type, r, q, g) == [type |-> type, requestor |-> r, req |-> q, gen |-> g]

\* A queue that holds the last one, two or all three of the commands of a request.
One(c, r, q)   == \E g \in {"HP", "RT"} : c = <<Pkt(q.type, r, q, g)>>
Two(c, r, q)   == \E g \in {"HP", "RT"} : c = <<Pkt("ACT", r, q, g), Pkt(q.type, r, q, g)>>
Three(c, r, q) == \E g \in {"HP", "RT"} :
                    c = <<Pkt("PRE", r, q, g), Pkt("ACT", r, q, g), Pkt(q.type, r, q, g)>>

Hits(Q, k, T) == T = RowOf[Q[k].addr]

\* The row table tells the truth, and both queues hold what requestSchedule put there:
\* RTA the commands of the first request, HPA those of the first row hit, or else
\* those of the first request.
SettledRT(r, Q, T, t) ==
    \/ t = <<>>
    \/ Q # <<>> /\ Hits(Q, 1, T) /\ One(t, r, Q[1])
    \/ Q # <<>> /\ ~Hits(Q, 1, T) /\ Three(t, r, Q[1])
SettledHP(r, Q, k, T, h) ==
    \/ h = <<>>
    \/ /\ k \in 1..Len(Q) /\ Hits(Q, k, T) /\ One(h, r, Q[k])
       /\ \A j \in 1..(k - 1) : ~Hits(Q, j, T)
    \/ Q # <<>> /\ k = 1 /\ ~Hits(Q, 1, T) /\ Three(h, r, Q[1])
Settled(r, Q, k, T, O, h, t) ==
    /\ O = T
    /\ SettledRT(r, Q, T, t) /\ SettledHP(r, Q, k, T, h)
    /\ t = <<>> => h = <<>>

\* Both schedulers agree to close the row, have closed it, have opened the next one:
\* from the first of these on the row table is behind, and the queues are the same.
Closing(r, Q, k, T, O, h, t) ==
    /\ O = T /\ Q # <<>> /\ k = 1 /\ ~Hits(Q, 1, T)
    /\ Three(h, r, Q[1]) /\ Three(t, r, Q[1])
RowClosed(r, Q, k, O, h, t) ==
    O = NoRow /\ Q # <<>> /\ k = 1 /\ Two(h, r, Q[1]) /\ Two(t, r, Q[1])
Opened(r, Q, k, O, h, t) ==
    O = RowOf[Q[1].addr] /\ Q # <<>> /\ k = 1 /\ One(h, r, Q[1]) /\ One(t, r, Q[1])

Bank(r, Q, k, T, O, h, t) ==
    Settled(r, Q, k, T, O, h, t) \/ RowClosed(r, Q, k, O, h, t) \/ Opened(r, Q, k, O, h, t)

--------------------------------------------------------------------------------
(* One requestor. *)

\* The order in which loops over the requestors meet those of a set.
LEMMA AscendingProperties ==
    ASSUME NEW S \in SUBSET Requestors
    PROVE  /\ Ascending(S) \in Seq(S) /\ OnceEach(Ascending(S))
           /\ \A x : Occurs(x, Ascending(S)) <=> x \in S
  <1> DEFINE n == Cardinality(S)
             below(r) == {q \in S : q < r}
             rank == [r \in S |-> Cardinality(below(r))]
  <1>1. IsFiniteSet(S) /\ n \in Nat /\ S \subseteq Nat
    BY DuetAssumption, FS_Subset, FS_CardinalityType
  <1>2. ASSUME NEW r \in S
        PROVE  IsFiniteSet(below(r)) /\ Cardinality(below(r)) \in 0..(n - 1)
    <2>1. below(r) \in SUBSET S /\ r \notin below(r)
      BY <1>1
    <2>2. IsFiniteSet(below(r)) /\ Cardinality(below(r)) <= n /\ Cardinality(below(r)) # n
      BY <1>1, <2>1, FS_Subset
    <2>3. Cardinality(below(r)) \in Nat
      BY <2>2, FS_CardinalityType
    <2> QED BY <1>1, <2>2, <2>3
  <1>3. ASSUME NEW q \in S, NEW r \in S, q < r
        PROVE  Cardinality(below(q)) # Cardinality(below(r))
    <2>1. \A x \in S : x < q => x < r
      BY <1>1, <1>3
    <2>2. below(q) \in SUBSET below(r)
      BY <2>1
    <2>3. q \in below(r)
      BY <1>3
    <2>4. q \notin below(q)
      <3>1. q \in Nat
        BY <1>1
      <3>2. ~(q < q)
        BY <3>1
      <3> QED BY <3>2
    <2>5. IsFiniteSet(below(r)) /\ below(q) # below(r)
      BY <2>3, <2>4, <1>2
    <2> HIDE DEF below
    <2> QED BY <2>2, <2>5, FS_Subset
  <1>4. rank \in Injection(S, 0..(n - 1))
    <2>1. rank \in [S -> 0..(n - 1)]
      BY <1>2
    <2>2. ASSUME NEW q \in S, NEW r \in S, rank[q] = rank[r] PROVE q = r
      <3>1. ~(q < r) /\ ~(r < q)
        BY <1>3, <2>2
      <3> QED BY <1>1, <3>1
    <2> QED BY <2>1, <2>2 DEF Injection, IsInjective
  <1>5. IsFiniteSet(0..(n - 1)) /\ Cardinality(0..(n - 1)) = n
    <2>1. 0 \in Int /\ n - 1 \in Int /\ (0 > n - 1 => n = 0) /\ (n - 1) - 0 + 1 = n
      BY <1>1
    <2> HIDE DEF n
    <2> QED BY <2>1, FS_Interval
  <1>6. \A k \in 0..(n - 1) : \E r \in S : rank[r] = k
    <2>1. rank \in Surjection(S, 0..(n - 1))
      BY <1>4, <1>5, FS_Injection
    <2> QED BY <2>1 DEF Surjection
  <1> DEFINE at(k) == CHOOSE r \in S : Cardinality(below(r)) = k - 1
  <1>7. ASSUME NEW k \in 1..n PROVE at(k) \in S /\ rank[at(k)] = k - 1
    <2>1. k - 1 \in 0..(n - 1)
      BY <1>1
    <2>2. \E r \in S : Cardinality(below(r)) = k - 1
      BY <1>6, <2>1
    <2> QED BY <2>2
  <1>8. Ascending(S) = [k \in 1..n |-> at(k)]
    BY DEF Ascending
  <1> HIDE DEF at, rank, n
  <1>9. Ascending(S) \in Seq(S) /\ Len(Ascending(S)) = n
    BY <1>1, <1>7, <1>8
  <1>10. ASSUME NEW i \in 1..n, NEW j \in 1..n, Ascending(S)[i] = Ascending(S)[j] PROVE i = j
    <2>1. i - 1 = j - 1
      BY <1>7, <1>8, <1>10
    <2> QED BY <2>1, <1>1
  <1>11. ASSUME NEW r \in S PROVE \E i \in 1..n : Ascending(S)[i] = r
    <2>1. rank[r] \in 0..(n - 1)
      BY <1>4 DEF Injection
    <2>2. rank[r] + 1 \in 1..n /\ (rank[r] + 1) - 1 = rank[r]
      BY <1>1, <2>1
    <2>3. at(rank[r] + 1) \in S /\ rank[at(rank[r] + 1)] = rank[r]
      BY <1>7, <2>2
    <2>4. at(rank[r] + 1) = r
      BY <1>4, <2>3 DEF Injection, IsInjective
    <2> QED BY <1>8, <2>2, <2>4
  <1>12. OnceEach(Ascending(S))
    BY <1>9, <1>10 DEF OnceEach
  <1>13. ASSUME NEW x PROVE Occurs(x, Ascending(S)) <=> x \in S
    <2>1. \A i \in 1..n : Ascending(S)[i] \in S
      BY <1>7, <1>8
    <2> QED BY <2>1, <1>9, <1>11 DEF Occurs
  <1> QED BY <1>9, <1>12, <1>13

LEMMA CommandTypes ==
    /\ "PRE" \notin CAS /\ "ACT" \notin CAS /\ "PRE" # "ACT"
    /\ \A q \in Requests : q.type \in CAS /\ q.type # "PRE" /\ q.type # "ACT"
    /\ \A p \in Packets : p # NoPacket
  <1>1. "PRE" \notin CAS /\ "ACT" \notin CAS /\ "PRE" # "ACT" /\ "none" \notin CAS \cup {"PRE", "ACT"}
    BY DEF CAS
  <1>2. \A q \in Requests : q.type \in CAS
    BY DEF Requests
  <1>3. \A p \in Packets : p.type \in CAS \cup {"PRE", "ACT"}
    BY DEF Packets
  <1>4. NoPacket.type = "none"
    BY DEF NoPacket
  <1> QED BY <1>1, <1>2, <1>3, <1>4

\* The heads and the tails of what a queue can hold.
LEMMA QueueShapes ==
    ASSUME NEW c, NEW r, NEW q
    PROVE  /\ One(c, r, q) =>
                /\ c # <<>> /\ Len(c) = 1 /\ Tail(c) = <<>> /\ Head(c) = c[1]
                /\ \E g \in {"HP", "RT"} : c[1] = Pkt(q.type, r, q, g)
           /\ Two(c, r, q) =>
                /\ c # <<>> /\ Len(c) = 2 /\ One(Tail(c), r, q) /\ Head(c) = c[1]
                /\ \E g \in {"HP", "RT"} :
                        c[1] = Pkt("ACT", r, q, g) /\ c[2] = Pkt(q.type, r, q, g)
           /\ Three(c, r, q) =>
                /\ c # <<>> /\ Len(c) = 3 /\ Two(Tail(c), r, q) /\ Head(c) = c[1]
                /\ \E g \in {"HP", "RT"} :
                        /\ c[1] = Pkt("PRE", r, q, g) /\ c[2] = Pkt("ACT", r, q, g)
                        /\ c[3] = Pkt(q.type, r, q, g)
  <1>1. ASSUME NEW x
        PROVE  /\ <<x>> # <<>> /\ Len(<<x>>) = 1 /\ Tail(<<x>>) = <<>>
               /\ Head(<<x>>) = x /\ <<x>>[1] = x
    OBVIOUS
  <1>2. ASSUME NEW x, NEW y
        PROVE  /\ <<x, y>> # <<>> /\ Len(<<x, y>>) = 2 /\ Tail(<<x, y>>) = <<y>>
               /\ Head(<<x, y>>) = x /\ <<x, y>>[1] = x /\ <<x, y>>[2] = y
    OBVIOUS
  <1>3. ASSUME NEW x, NEW y, NEW z
        PROVE  /\ <<x, y, z>> # <<>> /\ Len(<<x, y, z>>) = 3 /\ Tail(<<x, y, z>>) = <<y, z>>
               /\ Head(<<x, y, z>>) = x
               /\ <<x, y, z>>[1] = x /\ <<x, y, z>>[2] = y /\ <<x, y, z>>[3] = z
    OBVIOUS
  <1>4. ASSUME One(c, r, q)
        PROVE  /\ c # <<>> /\ Len(c) = 1 /\ Tail(c) = <<>> /\ Head(c) = c[1]
               /\ \E g \in {"HP", "RT"} : c[1] = Pkt(q.type, r, q, g)
    <2>1. PICK g \in {"HP", "RT"} : c = <<Pkt(q.type, r, q, g)>>
      BY <1>4 DEF One
    <2> QED BY <2>1, <1>1
  <1>5. ASSUME Two(c, r, q)
        PROVE  /\ c # <<>> /\ Len(c) = 2 /\ One(Tail(c), r, q) /\ Head(c) = c[1]
               /\ \E g \in {"HP", "RT"} :
                       c[1] = Pkt("ACT", r, q, g) /\ c[2] = Pkt(q.type, r, q, g)
    <2>1. PICK g \in {"HP", "RT"} : c = <<Pkt("ACT", r, q, g), Pkt(q.type, r, q, g)>>
      BY <1>5 DEF Two
    <2>2. One(Tail(c), r, q)
      BY <2>1, <1>2 DEF One
    <2> QED BY <2>1, <2>2, <1>2
  <1>6. ASSUME Three(c, r, q)
        PROVE  /\ c # <<>> /\ Len(c) = 3 /\ Two(Tail(c), r, q) /\ Head(c) = c[1]
               /\ \E g \in {"HP", "RT"} :
                       /\ c[1] = Pkt("PRE", r, q, g) /\ c[2] = Pkt("ACT", r, q, g)
                       /\ c[3] = Pkt(q.type, r, q, g)
    <2>1. PICK g \in {"HP", "RT"} :
            c = <<Pkt("PRE", r, q, g), Pkt("ACT", r, q, g), Pkt(q.type, r, q, g)>>
      BY <1>6 DEF Three
    <2>2. Two(Tail(c), r, q)
      BY <2>1, <1>3 DEF Two
    <2> QED BY <2>1, <2>2, <1>3
  <1> QED BY <1>4, <1>5, <1>6

\* Every packet of a queue belongs to the request the queue is for.
LEMMA PacketsOf ==
    ASSUME NEW c, NEW r, NEW q, One(c, r, q) \/ Two(c, r, q) \/ Three(c, r, q)
    PROVE  /\ c # <<>>
           /\ \A i \in 1..Len(c) : c[i].requestor = r /\ c[i].req = q
  <1>1. \A type, g : Pkt(type, r, q, g).requestor = r /\ Pkt(type, r, q, g).req = q
    BY DEF Pkt
  <1>2. CASE One(c, r, q)
    <2>1. c # <<>> /\ Len(c) = 1 /\ \E g \in {"HP", "RT"} : c[1] = Pkt(q.type, r, q, g)
      BY <1>2, QueueShapes
    <2>2. 1..Len(c) = {1}
      BY <2>1
    <2> QED BY <2>1, <2>2, <1>1
  <1>3. CASE Two(c, r, q)
    <2>0. c # <<>> /\ Len(c) = 2
      BY <1>3, QueueShapes
    <2>1. 1..Len(c) = {1, 2}
      BY <2>0
    <2>2. \E g \in {"HP", "RT"} : c[1] = Pkt("ACT", r, q, g) /\ c[2] = Pkt(q.type, r, q, g)
      BY <1>3, QueueShapes
    <2> QED BY <2>0, <2>1, <2>2, <1>1
  <1>4. CASE Three(c, r, q)
    <2>0. c # <<>> /\ Len(c) = 3
      BY <1>4, QueueShapes
    <2>1. 1..Len(c) = {1, 2, 3}
      BY <2>0
    <2>2. \E g \in {"HP", "RT"} : /\ c[1] = Pkt("PRE", r, q, g) /\ c[2] = Pkt("ACT", r, q, g)
                                  /\ c[3] = Pkt(q.type, r, q, g)
      BY <1>4, QueueShapes
    <2> QED BY <2>0, <2>1, <2>2, <1>1
  <1> QED BY <1>2, <1>3, <1>4

\* The head of a queue tells how many commands are left.
LEMMA Heads ==
    ASSUME NEW c, NEW r, NEW q \in Requests
    PROVE  /\ One(c, r, q) =>
                /\ c[1].type = q.type /\ c[1].type \in CAS
                /\ c[1].requestor = r /\ c[1].req = q
           /\ Two(c, r, q) => c[1].type = "ACT" /\ c[1].requestor = r /\ c[1].req = q
           /\ Three(c, r, q) => c[1].type = "PRE" /\ c[1].requestor = r /\ c[1].req = q
  <1>1. \A type, g : /\ Pkt(type, r, q, g).requestor = r /\ Pkt(type, r, q, g).req = q
                     /\ Pkt(type, r, q, g).type = type
    BY DEF Pkt
  <1>2. q.type \in CAS
    BY CommandTypes
  <1>3. One(c, r, q) => \E g \in {"HP", "RT"} : c[1] = Pkt(q.type, r, q, g)
    BY QueueShapes
  <1>4. ASSUME Two(c, r, q) PROVE \E g \in {"HP", "RT"} : c[1] = Pkt("ACT", r, q, g)
    <2>1. \E g \in {"HP", "RT"} : c[1] = Pkt("ACT", r, q, g) /\ c[2] = Pkt(q.type, r, q, g)
      BY <1>4, QueueShapes
    <2> QED BY <2>1
  <1>5. ASSUME Three(c, r, q) PROVE \E g \in {"HP", "RT"} : c[1] = Pkt("PRE", r, q, g)
    <2>1. \E g \in {"HP", "RT"} : /\ c[1] = Pkt("PRE", r, q, g) /\ c[2] = Pkt("ACT", r, q, g)
                                  /\ c[3] = Pkt(q.type, r, q, g)
      BY <1>5, QueueShapes
    <2> QED BY <2>1
  <1> QED BY <1>1, <1>2, <1>3, <1>4, <1>5

\* Two heads for the same request are the same command if they are of one type.
LEMMA SameHeads ==
    ASSUME NEW p \in Packets, NEW q \in Packets
    PROVE  /\ p.requestor = q.requestor /\ p.req = q.req /\ p.type = q.type => Same(p, q)
           /\ Same(p, q) => p.type = q.type /\ p.req.addr = q.req.addr
  BY CommandTypes DEF Same

\* New requests do not concern what is in the queues.
LEMMA BankGrows ==
    ASSUME NEW Q \in Seq(Requests), NEW Q2 \in Seq(Requests), Len(Q) <= Len(Q2),
           \A j \in 1..Len(Q) : Q2[j] = Q[j],
           NEW r, NEW k, NEW T, NEW O, NEW h, NEW t
    PROVE  /\ Bank(r, Q, k, T, O, h, t) => Bank(r, Q2, k, T, O, h, t)
           /\ Closing(r, Q, k, T, O, h, t) => Closing(r, Q2, k, T, O, h, t)
           /\ RowClosed(r, Q, k, O, h, t) => RowClosed(r, Q2, k, O, h, t)
           /\ Q # <<>> => Q2[1] = Q[1]
  <1>1. Len(Q) \in Nat /\ Len(Q2) \in Nat
    BY LenProperties
  <1>2. Q # <<>> => Q2 # <<>> /\ 1 \in 1..Len(Q) /\ Q2[1] = Q[1]
    BY <1>1, EmptySeq
  <1>3. \A j \in 1..Len(Q) : j \in 1..Len(Q2) /\ (Hits(Q2, j, T) <=> Hits(Q, j, T))
    BY <1>1 DEF Hits
  <1>4. SettledRT(r, Q, T, t) => SettledRT(r, Q2, T, t)
    BY <1>2, <1>3 DEF SettledRT
  <1>5. SettledHP(r, Q, k, T, h) => SettledHP(r, Q2, k, T, h)
    <2>1. ASSUME k \in 1..Len(Q), Hits(Q, k, T), One(h, r, Q[k]), \A j \in 1..(k - 1) : ~Hits(Q, j, T)
          PROVE  /\ k \in 1..Len(Q2) /\ Hits(Q2, k, T) /\ One(h, r, Q2[k])
                 /\ \A j \in 1..(k - 1) : ~Hits(Q2, j, T)
      BY <2>1, <1>1, <1>3
    <2> QED BY <2>1, <1>2, <1>3 DEF SettledHP
  <1> QED BY <1>2, <1>3, <1>4, <1>5 DEF Bank, Settled, Closing, RowClosed, Opened

\* No earlier request is for the same address.
FirstFor(Q, k) == \A j \in 1..(k - 1) : Q[j].addr # Q[k].addr

ServesHP(r, Q, k, O, h, t) ==
    /\ k \in 1..Len(Q) /\ h[1].req = Q[k] /\ h[1].requestor = r /\ FirstFor(Q, k)
    /\ O = RowOf[Q[k].addr] /\ Tail(h) = <<>>
    /\ Same(h[1], t[1]) => /\ Tail(t) = <<>>
                          /\ Bank(r, RemoveAt(Q, k), k, RowOf[Q[k].addr], O, Tail(h), Tail(t))
    /\ ~Same(h[1], t[1]) => Bank(r, RemoveAt(Q, k), k, RowOf[Q[k].addr], O, Tail(h), t)
ServesRT(r, Q, k, O, h, t) ==
    /\ 1 \in 1..Len(Q) /\ t[1].req = Q[1] /\ t[1].requestor = r
    /\ O = RowOf[Q[1].addr] /\ Tail(h) = <<>> /\ Tail(t) = <<>>
    /\ k = 1 /\ Same(h[1], t[1]) /\ Same(t[1], h[1]) /\ h[1].type \in CAS
    /\ Bank(r, RemoveAt(Q, 1), k, RowOf[Q[1].addr], O, Tail(h), Tail(t))

\* A column command chosen by HPA: the recorded index is that of its request, no
\* earlier request is for the same address and command, its row is open, and RTA's
\* queue gives up its head just if that is the same command.
LEMMA ColumnOfHPA ==
    ASSUME NEW r, NEW Q \in Seq(Requests), NEW k, NEW T, NEW O,
           NEW h \in Seq(Packets), NEW t \in Seq(Packets), Bank(r, Q, k, T, O, h, t),
           h # <<>>, t # <<>>, h[1].type \in CAS
    PROVE  ServesHP(r, Q, k, O, h, t)
  <1> USE DEF ServesHP
  <1>1. Len(Q) \in Nat /\ \A j \in 1..Len(Q) : Q[j] \in Requests
    BY LenProperties, ElementOfSeq
  <1>2. Q # <<>> => 1 \in 1..Len(Q)
    BY <1>1, EmptySeq
  <1>3. h[1] \in Packets /\ t[1] \in Packets
    <2>1. 1 \in 1..Len(h) /\ 1 \in 1..Len(t)
      BY LenProperties, EmptySeq
    <2> QED BY <2>1, ElementOfSeq
  <1>4. SettledHP(r, RemoveAt(Q, k), k, RowOf[Q[k].addr], <<>>)
    BY DEF SettledHP
  <1>5. SettledRT(r, RemoveAt(Q, k), RowOf[Q[k].addr], <<>>)
    BY DEF SettledRT
  <1>6. CASE Settled(r, Q, k, T, O, h, t) /\ k \in 1..Len(Q) /\ Hits(Q, k, T) /\ One(h, r, Q[k])
             /\ \A j \in 1..(k - 1) : ~Hits(Q, j, T)
    <2>1. Q # <<>> /\ 1 \in 1..Len(Q) /\ Q[1] \in Requests /\ Q[k] \in Requests
      BY <1>1, <1>6, EmptySeq
    <2>2. /\ Tail(h) = <<>> /\ h[1].req = Q[k] /\ h[1].requestor = r /\ h[1].type = Q[k].type
          /\ O = RowOf[Q[k].addr] /\ T = O
      BY <1>6, <2>1, QueueShapes, Heads DEF Settled, Hits
    <2>3. FirstFor(Q, k)
      BY <1>6 DEF Hits, FirstFor
    <2>4. CASE Hits(Q, 1, T)
      <3>1. k = 1
        BY <2>4, <1>6, 1 \in 1..(k - 1) \/ k = 1
      <3>2. One(t, r, Q[1])
        BY <1>6, <2>4 DEF Settled, SettledRT
      <3>3. Same(h[1], t[1]) /\ Tail(t) = <<>>
        BY <3>1, <3>2, <2>1, <2>2, <1>3, QueueShapes, Heads, SameHeads
      <3> QED BY <1>4, <1>5, <1>6, <2>2, <2>3, <3>3 DEF Bank, Settled
    <2>5. CASE ~Hits(Q, 1, T)
      <3>1. k # 1
        BY <2>5, <1>6
      <3>2. Three(t, r, Q[1])
        BY <1>6, <2>5 DEF Settled, SettledRT
      <3>3. ~Same(h[1], t[1])
        BY <3>2, <2>1, <1>3, Heads, SameHeads, CommandTypes
      <3>4. /\ RemoveAt(Q, k) \in Seq(Requests) /\ Len(RemoveAt(Q, k)) = Len(Q) - 1
            /\ RemoveAt(Q, k)[1] = Q[1]
        <4>1. /\ RemoveAt(Q, k) \in Seq(Requests) /\ Len(RemoveAt(Q, k)) = Len(Q) - 1
              /\ \A j \in 1..(Len(Q) - 1) : RemoveAt(Q, k)[j] = IF j < k THEN Q[j] ELSE Q[j + 1]
          BY <1>6, RemoveAtProperties
        <4>2. 1 \in 1..(Len(Q) - 1) /\ 1 < k
          BY <1>1, <1>6, <3>1
        <4> QED BY <4>1, <4>2
      <3>5. RemoveAt(Q, k) # <<>> /\ Len(Q) - 1 > 0
        BY <1>1, <1>6, <3>1, <3>4, EmptySeq
      <3>6. SettledRT(r, RemoveAt(Q, k), RowOf[Q[k].addr], t)
        BY <2>2, <2>5, <3>2, <3>4, <3>5 DEF SettledRT, Hits
      <3> QED BY <1>4, <1>6, <2>2, <2>3, <3>3, <3>6 DEF Bank, Settled
    <2> QED BY <2>4, <2>5
  <1>7. CASE Opened(r, Q, k, O, h, t)
    <2>1. Q # <<>> /\ k = 1 /\ 1 \in 1..Len(Q) /\ Q[1] \in Requests
      BY <1>1, <1>2, <1>7 DEF Opened
    <2>2. One(h, r, Q[1]) /\ One(t, r, Q[1]) /\ O = RowOf[Q[1].addr]
      BY <1>7 DEF Opened
    <2>3. /\ Same(h[1], t[1]) /\ Tail(t) = <<>> /\ Tail(h) = <<>>
          /\ h[1].req = Q[1] /\ h[1].requestor = r
      BY <2>1, <2>2, <1>3, QueueShapes, Heads, SameHeads
    <2>4. /\ O = RowOf[Q[k].addr] /\ h[1].req = Q[k]
          /\ FirstFor(Q, k)
      BY <2>1, <2>2, <2>3 DEF FirstFor
    <2> QED BY <1>4, <1>5, <2>1, <2>3, <2>4 DEF Bank, Settled
  <1>8. ~RowClosed(r, Q, k, O, h, t) /\ ~(Q # <<>> /\ Three(h, r, Q[1]))
    BY <1>1, <1>2, Heads, CommandTypes DEF RowClosed
  <1> QED BY <1>6, <1>7, <1>8 DEF Bank, Settled, SettledHP

\* A column command chosen by RTA: it is for the first request, whose row is open,
\* and HPA is ready to send the same command.
LEMMA ColumnOfRTA ==
    ASSUME NEW r, NEW Q \in Seq(Requests), NEW k, NEW T, NEW O,
           NEW h \in Seq(Packets), NEW t \in Seq(Packets), Bank(r, Q, k, T, O, h, t),
           h # <<>>, t # <<>>, t[1].type \in CAS
    PROVE  ServesRT(r, Q, k, O, h, t)
  <1> USE DEF ServesRT
  <1>1. Len(Q) \in Nat /\ \A j \in 1..Len(Q) : Q[j] \in Requests
    BY LenProperties, ElementOfSeq
  <1>2. Q # <<>> => 1 \in 1..Len(Q) /\ Q[1] \in Requests
    BY <1>1, EmptySeq
  <1>3. h[1] \in Packets /\ t[1] \in Packets
    <2>1. 1 \in 1..Len(h) /\ 1 \in 1..Len(t)
      BY LenProperties, EmptySeq
    <2> QED BY <2>1, ElementOfSeq
  <1>4. Q # <<>> /\ ~Three(t, r, Q[1]) /\ ~Two(t, r, Q[1])
    <2>1. Q # <<>>
      BY DEF Bank, Settled, SettledRT, RowClosed, Opened
    <2> QED BY <2>1, <1>2, Heads, CommandTypes
  <1>5. k = 1 /\ O = RowOf[Q[1].addr] /\ One(h, r, Q[1]) /\ One(t, r, Q[1])
    <2>1. CASE Settled(r, Q, k, T, O, h, t)
      <3>1. Hits(Q, 1, T) /\ One(t, r, Q[1])
        BY <2>1, <1>4 DEF Settled, SettledRT
      <3>2. k \in 1..Len(Q) /\ One(h, r, Q[k]) /\ \A j \in 1..(k - 1) : ~Hits(Q, j, T)
        BY <2>1, <3>1 DEF Settled, SettledHP
      <3>3. k = 1
        BY <3>1, <3>2, 1 \in 1..(k - 1) \/ k = 1
      <3> QED BY <2>1, <3>1, <3>2, <3>3 DEF Settled, Hits
    <2>2. CASE Opened(r, Q, k, O, h, t)
      BY <2>2 DEF Opened
    <2> QED BY <2>1, <2>2, <1>4 DEF Bank, RowClosed
  <1>6. /\ Tail(h) = <<>> /\ Tail(t) = <<>> /\ t[1].req = Q[1] /\ t[1].requestor = r
        /\ h[1].req = Q[1] /\ h[1].requestor = r /\ h[1].type = t[1].type
    BY <1>2, <1>4, <1>5, QueueShapes, Heads
  <1>7. Same(h[1], t[1]) /\ Same(t[1], h[1])
    BY <1>3, <1>6, SameHeads
  <1>8. Settled(r, RemoveAt(Q, 1), k, RowOf[Q[1].addr], O, <<>>, <<>>)
    BY <1>5 DEF Settled, SettledHP, SettledRT
  <1> QED BY <1>2, <1>4, <1>5, <1>6, <1>7, <1>8 DEF Bank

\* A precharge or an activate that HPA or RTA chooses: both queues hold it, except for
\* a precharge of RTA, after which HPA's queue is replaced by RTA's.
LEMMA RowOfHPA ==
    ASSUME NEW r, NEW Q \in Seq(Requests), NEW k, NEW T, NEW O,
           NEW h \in Seq(Packets), NEW t \in Seq(Packets), Bank(r, Q, k, T, O, h, t),
           h # <<>>, t # <<>>, h[1].type \notin CAS
    PROVE  /\ h[1].requestor = r /\ h[1].req = Q[1]
           /\ \/ h[1].type = "PRE" /\ Closing(r, Q, k, T, O, h, t)
              \/ h[1].type = "ACT" /\ RowClosed(r, Q, k, O, h, t)
  <1>1. Len(Q) \in Nat /\ \A j \in 1..Len(Q) : Q[j] \in Requests
    BY LenProperties, ElementOfSeq
  <1>2. Q # <<>> => 1 \in 1..Len(Q) /\ Q[1] \in Requests
    BY <1>1, EmptySeq
  <1>3. CASE Settled(r, Q, k, T, O, h, t)
    <2>1. \A j \in 1..Len(Q) : ~One(h, r, Q[j])
      BY <1>1, Heads
    <2>2. Q # <<>> /\ k = 1 /\ ~Hits(Q, 1, T) /\ Three(h, r, Q[1])
      BY <1>3, <2>1 DEF Settled, SettledHP
    <2>3. Three(t, r, Q[1])
      BY <1>3, <2>2 DEF Settled, SettledRT
    <2> QED BY <1>2, <1>3, <2>2, <2>3, Heads DEF Closing, Settled
  <1>4. CASE RowClosed(r, Q, k, O, h, t)
    BY <1>2, <1>4, Heads DEF RowClosed
  <1>5. ~Opened(r, Q, k, O, h, t)
    BY <1>2, Heads DEF Opened
  <1> QED BY <1>3, <1>4, <1>5 DEF Bank

LEMMA RowOfRTA ==
    ASSUME NEW r, NEW Q \in Seq(Requests), NEW k, NEW T, NEW O,
           NEW h \in Seq(Packets), NEW t \in Seq(Packets), Bank(r, Q, k, T, O, h, t),
           t # <<>>, t[1].type \notin CAS
    PROVE  /\ t[1].requestor = r /\ t[1].req = Q[1]
           /\ \/ t[1].type = "PRE" /\ Closing(r, Q, 1, T, O, t, t)
              \/ t[1].type = "ACT" /\ RowClosed(r, Q, k, O, h, t)
  <1>1. Len(Q) \in Nat /\ \A j \in 1..Len(Q) : Q[j] \in Requests
    BY LenProperties, ElementOfSeq
  <1>2. Q # <<>> => 1 \in 1..Len(Q) /\ Q[1] \in Requests
    BY <1>1, EmptySeq
  <1>3. CASE Settled(r, Q, k, T, O, h, t)
    <2>1. Q # <<>> => ~One(t, r, Q[1])
      BY <1>2, Heads
    <2>2. Q # <<>> /\ ~Hits(Q, 1, T) /\ Three(t, r, Q[1]) /\ O = T
      BY <1>3, <2>1 DEF Settled, SettledRT
    <2>3. t[1].type = "PRE" /\ t[1].requestor = r /\ t[1].req = Q[1]
      BY <1>2, <2>2, Heads
    <2> QED BY <2>2, <2>3 DEF Closing
  <1>4. CASE RowClosed(r, Q, k, O, h, t)
    BY <1>2, <1>4, Heads DEF RowClosed
  <1>5. ~Opened(r, Q, k, O, h, t)
    BY <1>2, Heads DEF Opened
  <1> QED BY <1>3, <1>4, <1>5 DEF Bank

\* sendCommand takes a precharge or an activate from both queues.
LEMMA RowCommandSent ==
    ASSUME NEW r, NEW Q \in Seq(Requests), NEW k, NEW T, NEW O,
           NEW h \in Seq(Packets), NEW t \in Seq(Packets),
           NEW c \in Packets, c.requestor = r, c.req = Q[1]
    PROVE  /\ Closing(r, Q, k, T, O, h, t) /\ c.type = "PRE" =>
                /\ Same(c, Head(h)) /\ Same(c, Head(t))
                /\ RowClosed(r, Q, k, NoRow, Tail(h), Tail(t))
           /\ RowClosed(r, Q, k, O, h, t) /\ c.type = "ACT" =>
                /\ Same(c, Head(h)) /\ Same(c, Head(t))
                /\ Opened(r, Q, k, RowOf[Q[1].addr], Tail(h), Tail(t))
  <1>1. Len(Q) \in Nat /\ \A j \in 1..Len(Q) : Q[j] \in Requests
    BY LenProperties, ElementOfSeq
  <1>2. Q # <<>> => 1 \in 1..Len(Q) /\ Q[1] \in Requests
    BY <1>1, EmptySeq
  <1>3. /\ h # <<>> => h[1] \in Packets
        /\ t # <<>> => t[1] \in Packets
    <2>1. /\ h # <<>> => 1 \in 1..Len(h)
          /\ t # <<>> => 1 \in 1..Len(t)
      BY LenProperties, EmptySeq
    <2> QED BY <2>1, ElementOfSeq
  <1>4. ASSUME Closing(r, Q, k, T, O, h, t), c.type = "PRE"
        PROVE  /\ Same(c, Head(h)) /\ Same(c, Head(t))
               /\ RowClosed(r, Q, k, NoRow, Tail(h), Tail(t))
    <2>1. Q # <<>> /\ k = 1 /\ Three(h, r, Q[1]) /\ Three(t, r, Q[1])
      BY <1>4 DEF Closing
    <2>2. /\ h # <<>> /\ t # <<>> /\ Head(h) = h[1] /\ Head(t) = t[1]
          /\ Two(Tail(h), r, Q[1]) /\ Two(Tail(t), r, Q[1])
      BY <2>1, QueueShapes
    <2>3. /\ h[1].type = "PRE" /\ h[1].requestor = r /\ h[1].req = Q[1]
          /\ t[1].type = "PRE" /\ t[1].requestor = r /\ t[1].req = Q[1]
      BY <1>2, <2>1, Heads
    <2>4. Same(c, Head(h)) /\ Same(c, Head(t))
      BY <1>3, <1>4, <2>2, <2>3, SameHeads
    <2> QED BY <2>1, <2>2, <2>4 DEF RowClosed
  <1>5. ASSUME RowClosed(r, Q, k, O, h, t), c.type = "ACT"
        PROVE  /\ Same(c, Head(h)) /\ Same(c, Head(t))
               /\ Opened(r, Q, k, RowOf[Q[1].addr], Tail(h), Tail(t))
    <2>1. Q # <<>> /\ k = 1 /\ Two(h, r, Q[1]) /\ Two(t, r, Q[1])
      BY <1>5 DEF RowClosed
    <2>2. /\ h # <<>> /\ t # <<>> /\ Head(h) = h[1] /\ Head(t) = t[1]
          /\ One(Tail(h), r, Q[1]) /\ One(Tail(t), r, Q[1])
      BY <2>1, QueueShapes
    <2>3. /\ h[1].type = "ACT" /\ h[1].requestor = r /\ h[1].req = Q[1]
          /\ t[1].type = "ACT" /\ t[1].requestor = r /\ t[1].req = Q[1]
      BY <1>2, <2>1, Heads
    <2>4. Same(c, Head(h)) /\ Same(c, Head(t))
      BY <1>3, <1>5, <2>2, <2>3, SameHeads
    <2> QED BY <2>1, <2>2, <2>4 DEF Opened
  <1> QED BY <1>4, <1>5

\* The packets of the queues: of this requestor, for requests that still wait.
Belongs(c, r, Q) ==
    \A i \in 1..Len(c) : c[i].requestor = r /\ \E j \in 1..Len(Q) : c[i].req = Q[j]

LEMMA BankPackets ==
    ASSUME NEW r, NEW Q \in Seq(Requests), NEW k, NEW T, NEW O, NEW h, NEW t,
           Bank(r, Q, k, T, O, h, t)
    PROVE  Belongs(h, r, Q) /\ Belongs(t, r, Q)
  <1>1. Len(<<>>) = 0 /\ 1..0 = {}
    OBVIOUS
  <1>2. Q # <<>> => 1 \in 1..Len(Q)
    BY LenProperties, EmptySeq
  <1>3. \/ h = <<>>
        \/ \E j \in 1..Len(Q) : One(h, r, Q[j]) \/ Two(h, r, Q[j]) \/ Three(h, r, Q[j])
    BY <1>2 DEF Bank, Settled, SettledHP, RowClosed, Opened
  <1>4. \/ t = <<>>
        \/ \E j \in 1..Len(Q) : One(t, r, Q[j]) \/ Two(t, r, Q[j]) \/ Three(t, r, Q[j])
    BY <1>2 DEF Bank, Settled, SettledRT, RowClosed, Opened
  <1>5. \A i \in 1..Len(h) : h[i].requestor = r /\ \E j \in 1..Len(Q) : h[i].req = Q[j]
    <2>1. CASE h = <<>>
      BY <1>1, <2>1
    <2>2. ASSUME NEW j \in 1..Len(Q), One(h, r, Q[j]) \/ Two(h, r, Q[j]) \/ Three(h, r, Q[j])
          PROVE  \A i \in 1..Len(h) : h[i].requestor = r /\ h[i].req = Q[j]
      BY <2>2, PacketsOf
    <2> QED BY <1>3, <2>1, <2>2
  <1>6. \A i \in 1..Len(t) : t[i].requestor = r /\ \E j \in 1..Len(Q) : t[i].req = Q[j]
    <2>1. CASE t = <<>>
      BY <1>1, <2>1
    <2>2. ASSUME NEW j \in 1..Len(Q), One(t, r, Q[j]) \/ Two(t, r, Q[j]) \/ Three(t, r, Q[j])
          PROVE  \A i \in 1..Len(t) : t[i].requestor = r /\ t[i].req = Q[j]
      BY <2>2, PacketsOf
    <2> QED BY <1>4, <2>1, <2>2
  <1> QED BY <1>5, <1>6 DEF Belongs

\* No precharge is left when the row is closed, no activate when it is open.
LEMMA NoneLeft ==
    ASSUME NEW r, NEW q \in Requests, NEW c
    PROVE  /\ Two(c, r, q) => \A i \in 1..Len(c) : c[i].type # "PRE"
           /\ One(c, r, q) => \A i \in 1..Len(c) : c[i].type # "ACT"
  <1>1. \A type, g : Pkt(type, r, q, g).type = type
    BY DEF Pkt
  <1>2. ASSUME Two(c, r, q), NEW i \in 1..Len(c) PROVE c[i].type # "PRE"
    <2>1. Len(c) = 2
      BY <1>2, QueueShapes
    <2>2. i = 1 \/ i = 2
      BY <2>1
    <2>3. \E g \in {"HP", "RT"} : c[1] = Pkt("ACT", r, q, g) /\ c[2] = Pkt(q.type, r, q, g)
      BY <1>2, QueueShapes
    <2> QED BY <1>1, <2>2, <2>3, CommandTypes
  <1>3. ASSUME One(c, r, q), NEW i \in 1..Len(c) PROVE c[i].type # "ACT"
    <2>1. Len(c) = 1
      BY <1>3, QueueShapes
    <2>2. i = 1
      BY <2>1
    <2>3. \E g \in {"HP", "RT"} : c[1] = Pkt(q.type, r, q, g)
      BY <1>3, QueueShapes
    <2> QED BY <1>1, <2>2, <2>3, CommandTypes
  <1> QED BY <1>2, <1>3

\* setDeadline finds the column command two places behind a precharge.
LEMMA BehindPrecharge ==
    ASSUME NEW r, NEW Q \in Seq(Requests), NEW k, NEW T, NEW O, NEW h, NEW t,
           Bank(r, Q, k, T, O, h, t), t # <<>>, t[1].type = "PRE"
    PROVE  Len(t) = 3
  <1>1. Q # <<>>
    BY DEF Bank, Settled, SettledRT, RowClosed, Opened
  <1>2. Q[1] \in Requests
    BY <1>1, LenProperties, EmptySeq, ElementOfSeq
  <1>3. ~One(t, r, Q[1]) /\ ~Two(t, r, Q[1])
    BY <1>2, Heads, CommandTypes
  <1>4. Three(t, r, Q[1])
    BY <1>3 DEF Bank, Settled, SettledRT, RowClosed, Opened
  <1> QED BY <1>4, QueueShapes

\* Past the precharge both queues hold the same commands (QueuesAgree).
LEMMA BankAgrees ==
    ASSUME NEW r, NEW Q \in Seq(Requests), NEW k, NEW T, NEW O,
           NEW h \in Seq(Packets), NEW t \in Seq(Packets), Bank(r, Q, k, T, O, h, t),
           t # <<>> => h # <<>>,
           (t # <<>> /\ t[1].type # "PRE") \/ (h # <<>> /\ h[1].type = "ACT")
    PROVE  Len(h) = Len(t) /\ \A i \in 1..Len(h) : Same(h[i], t[i])
  <1>1. \A j \in 1..Len(Q) : Q[j] \in Requests
    BY ElementOfSeq
  <1>2. Q # <<>> => 1 \in 1..Len(Q) /\ Q[1] \in Requests
    BY LenProperties, EmptySeq, <1>1
  <1>3. /\ \A i \in 1..Len(h) : h[i] \in Packets
        /\ \A i \in 1..Len(t) : t[i] \in Packets
    BY ElementOfSeq
  <1>4. /\ Q # <<>>
        /\ (One(h, r, Q[1]) /\ One(t, r, Q[1])) \/ (Two(h, r, Q[1]) /\ Two(t, r, Q[1]))
    <2>1. CASE Settled(r, Q, k, T, O, h, t)
      <3>1. h # <<>> /\ t # <<>>
        BY <2>1 DEF Settled
      <3>2. Q # <<>> /\ 1 \in 1..Len(Q) /\ Q[1] \in Requests
        BY <2>1, <3>1, <1>2 DEF Settled, SettledRT
      <3>3. Hits(Q, 1, T) /\ One(t, r, Q[1])
        <4>1. h[1].type # "ACT"
          BY <2>1, <3>1, <3>2, <1>1, Heads, CommandTypes DEF Settled, SettledHP
        <4>2. ~Three(t, r, Q[1])
          BY <4>1, <3>1, <3>2, Heads
        <4> QED BY <2>1, <3>1, <4>2 DEF Settled, SettledRT
      <3>4. k \in 1..Len(Q) /\ One(h, r, Q[k]) /\ \A j \in 1..(k - 1) : ~Hits(Q, j, T)
        BY <2>1, <3>1, <3>3 DEF Settled, SettledHP
      <3>5. k = 1
        BY <3>3, <3>4, 1 \in 1..(k - 1) \/ k = 1
      <3> QED BY <3>2, <3>3, <3>4, <3>5
    <2>2. CASE RowClosed(r, Q, k, O, h, t)
      BY <2>2 DEF RowClosed
    <2>3. CASE Opened(r, Q, k, O, h, t)
      BY <2>3 DEF Opened
    <2> QED BY <2>1, <2>2, <2>3 DEF Bank
  <1>5. \A type, g : /\ Pkt(type, r, Q[1], g).requestor = r /\ Pkt(type, r, Q[1], g).req = Q[1]
                     /\ Pkt(type, r, Q[1], g).type = type
    BY DEF Pkt
  <1>6. CASE One(h, r, Q[1]) /\ One(t, r, Q[1])
    <2>1. Len(h) = 1 /\ Len(t) = 1
      BY <1>6, QueueShapes
    <2>2. 1 \in 1..Len(h) /\ 1 \in 1..Len(t) /\ \A i \in 1..Len(h) : i = 1
      BY <2>1
    <2>3. h[1] \in Packets /\ t[1] \in Packets
      BY <2>2, <1>3
    <2>4. Same(h[1], t[1])
      BY <1>2, <1>4, <1>6, <2>3, Heads, SameHeads
    <2> QED BY <2>1, <2>2, <2>4
  <1>7. CASE Two(h, r, Q[1]) /\ Two(t, r, Q[1])
    <2>1. Len(h) = 2 /\ Len(t) = 2
      BY <1>7, QueueShapes
    <2>2. /\ 1 \in 1..Len(h) /\ 1 \in 1..Len(t) /\ 2 \in 1..Len(h) /\ 2 \in 1..Len(t)
          /\ \A i \in 1..Len(h) : i = 1 \/ i = 2
      BY <2>1
    <2>3. h[1] \in Packets /\ t[1] \in Packets /\ h[2] \in Packets /\ t[2] \in Packets
      BY <2>2, <1>3
    <2>4. \E g \in {"HP", "RT"} :
            h[1] = Pkt("ACT", r, Q[1], g) /\ h[2] = Pkt(Q[1].type, r, Q[1], g)
      BY <1>7, QueueShapes
    <2>5. \E g \in {"HP", "RT"} :
            t[1] = Pkt("ACT", r, Q[1], g) /\ t[2] = Pkt(Q[1].type, r, Q[1], g)
      BY <1>7, QueueShapes
    <2>6. /\ h[1].requestor = t[1].requestor /\ h[1].req = t[1].req /\ h[1].type = t[1].type
          /\ h[2].requestor = t[2].requestor /\ h[2].req = t[2].req /\ h[2].type = t[2].type
      BY <2>4, <2>5, <1>5
    <2>7. Same(h[1], t[1]) /\ Same(h[2], t[2])
      BY <2>3, <2>6, SameHeads
    <2> QED BY <2>1, <2>2, <2>7
  <1> QED BY <1>4, <1>6, <1>7

--------------------------------------------------------------------------------
(* requestSchedule. *)

\* commandGenerate fills an empty queue.
LEMMA Generated ==
    ASSUME NEW r \in Requestors, NEW q \in Requests, NEW g \in {"HP", "RT"}
    PROVE  /\ rowTable[r] = RowOf[q.addr] => One(enqueueCommand(<<>>, r, q, g), r, q)
           /\ rowTable[r] # RowOf[q.addr] => Three(enqueueCommand(<<>>, r, q, g), r, q)
           /\ enqueueCommand(<<>>, r, q, g) \in Seq(Packets)
  <1>1. \A type \in CAS \cup {"PRE", "ACT"} : Pkt(type, r, q, g) \in Packets
    BY DEF Pkt, Packets
  <1>2. q.type \in CAS
    BY CommandTypes
  <1>3. enqueueCommand(<<>>, r, q, g) = <<>> \o Generate(r, q, g)
    BY DEF enqueueCommand, insertCommand
  <1>4. CASE rowTable[r] = RowOf[q.addr]
    <2>1. Generate(r, q, g) = <<Pkt(q.type, r, q, g)>>
      BY <1>4 DEF Generate, isRowHit, Pkt
    <2>2. Generate(r, q, g) \in Seq(Packets)
      BY <2>1, <1>1, <1>2
    <2>3. enqueueCommand(<<>>, r, q, g) = Generate(r, q, g)
      BY <1>3, <2>2, ConcatEmptySeq
    <2> QED BY <1>4, <2>1, <2>2, <2>3 DEF One
  <1>5. CASE rowTable[r] # RowOf[q.addr]
    <2>1. Generate(r, q, g)
            = <<Pkt("PRE", r, q, g), Pkt("ACT", r, q, g), Pkt(q.type, r, q, g)>>
      BY <1>5 DEF Generate, isRowHit, Pkt
    <2>2. Generate(r, q, g) \in Seq(Packets)
      BY <2>1, <1>1, <1>2
    <2>3. enqueueCommand(<<>>, r, q, g) = Generate(r, q, g)
      BY <1>3, <2>2, ConcatEmptySeq
    <2> QED BY <1>5, <2>1, <2>2, <2>3 DEF Three
  <1> QED BY <1>4, <1>5

\* scheduleFR_BACKEND finds the first row hit.
LEMMA FirstReadyIs ==
    ASSUME NEW r \in Requestors, reqQ[r] \in Seq(Requests), reqQ[r] # <<>>
    PROVE  /\ FirstReady(r) \in 1..Len(reqQ[r])
           /\ \/ /\ Hits(reqQ[r], FirstReady(r), rowTable[r])
                 /\ \A j \in 1..(FirstReady(r) - 1) : ~Hits(reqQ[r], j, rowTable[r])
              \/ FirstReady(r) = 1 /\ ~Hits(reqQ[r], 1, rowTable[r])
  <1> DEFINE hits == {k \in 1..Len(reqQ[r]) : isRowHit(r, reqQ[r][k])}
             first(k) == \A j \in hits : k <= j
  <1>1. Len(reqQ[r]) \in Nat /\ 1 \in 1..Len(reqQ[r])
    BY LenProperties, EmptySeq
  <1>2. \A k \in 1..Len(reqQ[r]) : k \in hits <=> Hits(reqQ[r], k, rowTable[r])
    BY DEF isRowHit, Hits
  <1>3. FirstReady(r) = IF hits = {} THEN 1 ELSE CHOOSE k \in hits : first(k)
    BY DEF FirstReady
  <1>4. CASE hits = {}
    BY <1>1, <1>2, <1>3, <1>4
  <1>5. CASE hits # {}
    <2>1. hits \subseteq 1..Len(reqQ[r]) /\ hits \subseteq Nat
      BY <1>1
    <2>2. \E k \in hits : first(k)
      BY <1>5, <2>1, Least
    <2> HIDE DEF hits
    <2>3. FirstReady(r) \in hits /\ first(FirstReady(r))
      BY <1>3, <1>5, <2>2
    <2>4. ASSUME NEW j \in 1..(FirstReady(r) - 1) PROVE j \notin hits /\ j \in 1..Len(reqQ[r])
      <3>1. FirstReady(r) \in 1..Len(reqQ[r]) /\ \A i \in hits : FirstReady(r) <= i
        BY <2>1, <2>3
      <3>2. j < FirstReady(r) /\ j \in 1..Len(reqQ[r])
        BY <1>1, <3>1
      <3> QED BY <1>1, <3>1, <3>2
    <2> QED BY <1>2, <2>1, <2>3, <2>4
  <1> QED BY <1>4, <1>5

\* requestSchedule fills the empty queues of a requestor, both of them if both are.
LEMMA FillStep ==
    ASSUME NEW r \in Requestors, reqQ[r] \in Seq(Requests), reqQ[r] # <<>>,
           hpQ[r] \in Seq(Packets), rtQ[r] \in Seq(Packets),
           Bank(r, reqQ[r], hpIdx[r], rowTable[r], openRow[r], hpQ[r], rtQ[r]),
           NEW k2, k2 = IF hpQ[r] = <<>> THEN FirstReady(r) ELSE hpIdx[r],
           NEW h2, h2 = IF hpQ[r] = <<>>
                        THEN enqueueCommand(hpQ[r], r, reqQ[r][FirstReady(r)], "HP") ELSE hpQ[r],
           NEW t2, t2 = IF rtQ[r] = <<>>
                        THEN enqueueCommand(rtQ[r], r, reqQ[r][1], "RT") ELSE rtQ[r]
    PROVE  /\ h2 \in Seq(Packets) /\ t2 \in Seq(Packets) /\ h2 # <<>> /\ t2 # <<>>
           /\ Bank(r, reqQ[r], k2, rowTable[r], openRow[r], h2, t2)
  <1> DEFINE Q == reqQ[r]
             T == rowTable[r]
             f == FirstReady(r)
  <1>1. Len(Q) \in Nat /\ 1 \in 1..Len(Q) /\ \A j \in 1..Len(Q) : Q[j] \in Requests
    BY LenProperties, EmptySeq, ElementOfSeq
  <1>2. /\ f \in 1..Len(Q)
        /\ \/ Hits(Q, f, T) /\ \A j \in 1..(f - 1) : ~Hits(Q, j, T)
           \/ f = 1 /\ ~Hits(Q, 1, T)
    BY FirstReadyIs
  <1>3. hpQ[r] = <<>> => /\ h2 \in Seq(Packets)
                         /\ Hits(Q, f, T) => One(h2, r, Q[f])
                         /\ ~Hits(Q, f, T) => Three(h2, r, Q[f])
    BY <1>1, <1>2, Generated DEF Hits
  <1>4. rtQ[r] = <<>> => /\ t2 \in Seq(Packets)
                         /\ Hits(Q, 1, T) => One(t2, r, Q[1])
                         /\ ~Hits(Q, 1, T) => Three(t2, r, Q[1])
    BY <1>1, Generated DEF Hits
  <1> HIDE DEF Q, T, f
  <1>5. h2 # <<>> /\ t2 # <<>> /\ h2 \in Seq(Packets) /\ t2 \in Seq(Packets)
    BY <1>3, <1>4, QueueShapes
  <1>6. CASE Settled(r, Q, hpIdx[r], T, openRow[r], hpQ[r], rtQ[r])
    <2>1. SettledHP(r, Q, k2, T, h2)
      <3>1. CASE hpQ[r] = <<>>
        BY <1>1, <1>2, <1>3, <3>1, EmptySeq DEF SettledHP, f
      <3>2. CASE hpQ[r] # <<>>
        BY <1>6, <3>2 DEF Settled
      <3> QED BY <3>1, <3>2
    <2>2. SettledRT(r, Q, T, t2)
      <3>1. CASE rtQ[r] = <<>>
        BY <1>4, <3>1 DEF SettledRT, Q
      <3>2. CASE rtQ[r] # <<>>
        BY <1>6, <3>2 DEF Settled
      <3> QED BY <3>1, <3>2
    <2> QED BY <1>5, <1>6, <2>1, <2>2 DEF Bank, Settled, Q, T
  <1>7. CASE RowClosed(r, Q, hpIdx[r], openRow[r], hpQ[r], rtQ[r])
    <2>1. hpQ[r] # <<>> /\ rtQ[r] # <<>>
      BY <1>7, QueueShapes DEF RowClosed
    <2> QED BY <1>5, <1>7, <2>1 DEF Bank, Q, T
  <1>8. CASE Opened(r, Q, hpIdx[r], openRow[r], hpQ[r], rtQ[r])
    <2>1. hpQ[r] # <<>> /\ rtQ[r] # <<>>
      BY <1>8, QueueShapes DEF Opened
    <2> QED BY <1>5, <1>8, <2>1 DEF Bank, Q, T
  <1> QED BY <1>6, <1>7, <1>8 DEF Bank, Q, T

--------------------------------------------------------------------------------
(* The inductive invariant. *)

Rows == {RowOf[a] : a \in Addrs} \cup {NoRow}

TypeOK ==
    /\ reqQ \in [Requestors -> Seq(Requests)] /\ orderSize \in [Requestors -> Int]
    /\ hpIdx \in [Requestors -> Nat] /\ rtIdx = [r \in Requestors |-> 1]
    /\ rowTable \in [Requestors -> Rows] /\ openRow \in [Requestors -> Rows]
    /\ hpQ \in [Requestors -> Seq(Packets)] /\ rtQ \in [Requestors -> Seq(Packets)]
    /\ Order \in Seq(Requestors) /\ deadline_set_flag \in [Requestors -> BOOLEAN]
    /\ service_deadline \in [Requestors -> Nat]
    /\ mode \in {"HPA", "RTA"} /\ decided \in Packets \cup {NoPacket}
    /\ commandRegisters \in Seq(Packets) /\ registerIndex \in Nat
    /\ queuePending \in [Requestors -> BOOLEAN] /\ servedFlags \in [Requestors -> BOOLEAN]
    /\ roundType \in CAS /\ phase \in {"idle", "send", "decide"}
    /\ sent \in Packets \cup {NoPacket} /\ fault \in BOOLEAN /\ workload \in Workloads

\* No two waiting requests share an identity, nor does a request that was erased
\* when its column command was decided.
Identities ==
    /\ \A r, s \in Requestors : \A k \in 1..Len(reqQ[r]), l \in 1..Len(reqQ[s]) :
            reqQ[r][k].id = reqQ[s][l].id => r = s /\ k = l
    /\ decided # NoPacket /\ decided.type \in CAS =>
            \A r \in Requestors : \A k \in 1..Len(reqQ[r]) : reqQ[r][k].id # decided.req.id

\* Every bank is in one of its states, and both queues of a requestor are filled
\* together, if its requests are found at all.
Banks ==
    /\ \A r \in Requestors :
            /\ Bank(r, reqQ[r], hpIdx[r], rowTable[r], openRow[r], hpQ[r], rtQ[r])
            /\ orderSize[r] <= r => rtQ[r] = <<>>
    /\ phase # "idle" => \A r \in Requestors : hpQ[r] = <<>> => rtQ[r] = <<>>

\* The decided command is the next one of its bank.
DecidedFits ==
    LET r == decided.requestor
    IN  \/ decided.type \in CAS /\ openRow[r] = RowOf[decided.req.addr]
        \/ /\ decided.type = "PRE" /\ decided.req = reqQ[r][1]
           /\ Closing(r, reqQ[r], hpIdx[r], rowTable[r], openRow[r], hpQ[r], rtQ[r])
        \/ /\ decided.type = "ACT" /\ decided.req = reqQ[r][1]
           /\ RowClosed(r, reqQ[r], hpIdx[r], openRow[r], hpQ[r], rtQ[r])
Decision ==
    /\ phase = "decide" => decided = NoPacket
    /\ decided # NoPacket => DecidedFits

Deadlines ==
    /\ OnceEach(Order)
    /\ \A r \in Requestors : deadline_set_flag[r] <=> Occurs(r, Order)
    /\ \A r \in Requestors : deadline_set_flag[r] => rtQ[r] # <<>>
    /\ phase = "decide" => \A r \in Requestors : rtQ[r] # <<>> => deadline_set_flag[r]

\* The registers hold heads of the real-time queues, until the chosen column command
\* is sent also one that has left its queue.
Registers ==
    /\ \A i, j \in 1..Len(commandRegisters) :
            commandRegisters[i].requestor = commandRegisters[j].requestor => i = j
    /\ \A r \in Requestors : queuePending[r] <=>
            \E k \in 1..Len(commandRegisters) : commandRegisters[k].requestor = r
    /\ \A k \in 1..Len(commandRegisters) :
            \/ /\ rtQ[commandRegisters[k].requestor] # <<>>
               /\ commandRegisters[k] = rtQ[commandRegisters[k].requestor][1]
            \/ decided # NoPacket /\ decided.type \in CAS /\ k = registerIndex
    /\ mode = "HPA" => commandRegisters = <<>>
    /\ mode = "RTA" /\ decided # NoPacket =>
            registerIndex \in 1..Len(commandRegisters) /\ commandRegisters[registerIndex] = decided

\* Nothing refers to the packet that is deleted at the end of the cycle.
Unreferenced ==
    /\ phase = "send" => sent = NoPacket
    /\ sent # NoPacket =>
        /\ sent # decided
        /\ \A r \in Requestors : /\ \A i \in 1..Len(hpQ[r]) : hpQ[r][i] # sent
                                 /\ \A i \in 1..Len(rtQ[r]) : rtQ[r][i] # sent
        /\ \A k \in 1..Len(commandRegisters) : commandRegisters[k] # sent

Inv ==
    /\ TypeOK /\ Identities /\ Banks /\ Decision /\ Deadlines /\ Registers /\ Unreferenced
    /\ ~fault

--------------------------------------------------------------------------------
(* The steps that change no bank. *)

LEMMA InvInit == Init => Inv
  <1> SUFFICES ASSUME Init PROVE Inv
    OBVIOUS
  <1> USE DEF Init
  <1>1. Len(<<>>) = 0 /\ 1..0 = {}
    OBVIOUS
  <1>2. Requestors \subseteq Nat /\ workload \in Workloads /\ workload.deadline \in Nat
    BY DuetAssumption
  <1>3. NoRow \in Rows
    BY DEF Rows
  <1>4. TypeOK
    <2>1. \A S : <<>> \in Seq(S)
      OBVIOUS
    <2>2. /\ reqQ \in [Requestors -> Seq(Requests)]
          /\ hpQ \in [Requestors -> Seq(Packets)] /\ rtQ \in [Requestors -> Seq(Packets)]
      BY <2>1
    <2>3. /\ orderSize \in [Requestors -> Int] /\ hpIdx \in [Requestors -> Nat]
          /\ rtIdx = [r \in Requestors |-> 1]
      OBVIOUS
    <2>4. rowTable \in [Requestors -> Rows] /\ openRow \in [Requestors -> Rows]
      BY <1>3
    <2>5. service_deadline \in [Requestors -> Nat] /\ workload \in Workloads
      BY <1>2
    <2>6. /\ deadline_set_flag \in [Requestors -> BOOLEAN]
          /\ queuePending \in [Requestors -> BOOLEAN] /\ servedFlags \in [Requestors -> BOOLEAN]
      OBVIOUS
    <2>7. Order \in Seq(Requestors) /\ commandRegisters \in Seq(Packets)
      BY <2>1
    <2>8. /\ mode \in {"HPA", "RTA"} /\ decided \in Packets \cup {NoPacket} /\ registerIndex \in Nat
          /\ roundType \in CAS /\ phase \in {"idle", "send", "decide"}
          /\ sent \in Packets \cup {NoPacket} /\ fault \in BOOLEAN
      BY DEF CAS
    <2> QED BY <2>2, <2>3, <2>4, <2>5, <2>6, <2>7, <2>8 DEF TypeOK
  <1>5. Identities
    BY <1>1 DEF Identities
  <1>6. Banks
    BY <1>2 DEF Banks, Bank, Settled, SettledRT, SettledHP
  <1>7. Decision
    BY DEF Decision
  <1>8. Deadlines
    BY <1>1 DEF Deadlines, OnceEach, Occurs
  <1>9. Registers
    BY <1>1 DEF Registers
  <1>10. Unreferenced
    BY DEF Unreferenced
  <1> QED BY <1>4, <1>5, <1>6, <1>7, <1>8, <1>9, <1>10 DEF Inv

LEMMA Fresh ==
    ASSUME FreeIds # {}
    PROVE  /\ FreshId \in Ids
           /\ \A r \in Requestors : \A k \in 1..Len(reqQ[r]) : reqQ[r][k].id # FreshId
           /\ decided # NoPacket => decided.req.id # FreshId
  <1>1. FreshId \in FreeIds
    BY DEF FreshId
  <1> QED BY <1>1 DEF FreeIds

LEMMA AddRequestInv ==
    ASSUME Inv, NEW r \in Requestors, NEW a \in Addrs, NEW type \in CAS,
           addRequest(r, a, type)
    PROVE  Inv'
  <1> DEFINE q == [id |-> FreshId, addr |-> a, type |-> type]
  <1>1. /\ FreeIds # {} /\ phase = "idle" /\ reqQ' = [reqQ EXCEPT ![r] = Append(reqQ[r], q)]
        /\ \/ orderSize[r] = -1 /\ \E i \in LoopStarts : orderSize' = [orderSize EXCEPT ![r] = 8 - i]
           \/ orderSize' = orderSize
    BY DEF addRequest, insertRequest
  <1>2. /\ hpIdx' = hpIdx /\ rtIdx' = rtIdx /\ rowTable' = rowTable /\ hpQ' = hpQ /\ rtQ' = rtQ
        /\ Order' = Order /\ deadline_set_flag' = deadline_set_flag
        /\ service_deadline' = service_deadline /\ mode' = mode /\ decided' = decided
        /\ commandRegisters' = commandRegisters /\ registerIndex' = registerIndex
        /\ queuePending' = queuePending /\ servedFlags' = servedFlags /\ roundType' = roundType
        /\ phase' = phase /\ sent' = sent /\ openRow' = openRow /\ fault' = fault
        /\ workload' = workload
    BY DEF addRequest, deadlineVars, registerVars
  <1>3. TypeOK /\ Identities /\ Banks /\ Decision
    BY DEF Inv
  <1>4. q \in Requests /\ q.id = FreshId
    BY <1>1, Fresh DEF Requests
  <1> HIDE DEF q
  <1>5. /\ reqQ \in [Requestors -> Seq(Requests)] /\ reqQ' \in [Requestors -> Seq(Requests)]
        /\ \A s \in Requestors \ {r} : reqQ'[s] = reqQ[s]
        /\ Len(reqQ[r]) \in Nat /\ Len(reqQ'[r]) = Len(reqQ[r]) + 1
        /\ \A k \in 1..Len(reqQ[r]) : reqQ'[r][k] = reqQ[r][k]
        /\ reqQ'[r][Len(reqQ[r]) + 1] = q
    <2>1. reqQ \in [Requestors -> Seq(Requests)] /\ reqQ[r] \in Seq(Requests)
      BY <1>3 DEF TypeOK
    <2>2. /\ Append(reqQ[r], q) \in Seq(Requests) /\ Len(Append(reqQ[r], q)) = Len(reqQ[r]) + 1
          /\ \A k \in 1..Len(reqQ[r]) : Append(reqQ[r], q)[k] = reqQ[r][k]
          /\ Append(reqQ[r], q)[Len(reqQ[r]) + 1] = q
      BY <2>1, <1>4, AppendProperties
    <2> QED BY <2>1, <2>2, <1>1, LenProperties
  \* The others keep their places.
  <1>6. ASSUME NEW s \in Requestors
        PROVE  /\ reqQ[s] \in Seq(Requests) /\ reqQ'[s] \in Seq(Requests)
               /\ Len(reqQ[s]) <= Len(reqQ'[s])
               /\ \A k \in 1..Len(reqQ[s]) : reqQ'[s][k] = reqQ[s][k]
               /\ \A k \in 1..Len(reqQ'[s]) :
                    k \in 1..Len(reqQ[s]) \/ (s = r /\ k = Len(reqQ[r]) + 1 /\ reqQ'[s][k] = q)
    <2>1. reqQ[s] \in Seq(Requests) /\ reqQ'[s] \in Seq(Requests) /\ Len(reqQ[s]) \in Nat
      BY <1>5, LenProperties
    <2>2. CASE s = r
      BY <2>1, <2>2, <1>5
    <2>3. CASE s # r
      BY <2>1, <2>3, <1>5
    <2> QED BY <2>2, <2>3
  <1>7. TypeOK'
    <2>1. orderSize' \in [Requestors -> Int]
      BY SMTT(30), <1>1, <1>3, DuetAssumption DEF TypeOK
    <2> QED BY <1>2, <1>3, <1>5, <2>1 DEF TypeOK
  <1>8. Identities'
    <2>1. ASSUME NEW s \in Requestors, NEW u \in Requestors, NEW k \in 1..Len(reqQ'[s]),
                 NEW l \in 1..Len(reqQ'[u]), reqQ'[s][k].id = reqQ'[u][l].id
          PROVE  s = u /\ k = l
      BY <2>1, <1>1, <1>3, <1>4, <1>6, Fresh DEF Identities
    <2>2. ASSUME decided # NoPacket, decided.type \in CAS,
                 NEW s \in Requestors, NEW k \in 1..Len(reqQ'[s])
          PROVE  reqQ'[s][k].id # decided.req.id
      BY <2>2, <1>1, <1>3, <1>4, <1>6, Fresh DEF Identities
    <2> QED BY <2>1, <2>2, <1>2 DEF Identities
  <1>9. Banks'
    <2>1. ASSUME NEW s \in Requestors
          PROVE  /\ Bank(s, reqQ'[s], hpIdx[s], rowTable[s], openRow[s], hpQ[s], rtQ[s])
                 /\ orderSize'[s] <= s => rtQ[s] = <<>>
      <3>1. Bank(s, reqQ[s], hpIdx[s], rowTable[s], openRow[s], hpQ[s], rtQ[s])
        BY <1>3 DEF Banks
      <3>2. Bank(s, reqQ'[s], hpIdx[s], rowTable[s], openRow[s], hpQ[s], rtQ[s])
        BY <3>1, <1>6, BankGrows
      <3>3. orderSize'[s] <= s => rtQ[s] = <<>>
        <4>1. s \in Nat /\ (orderSize[s] <= s => rtQ[s] = <<>>)
          BY <1>3, DuetAssumption DEF Banks
        <4>2. CASE orderSize[s] = -1
          BY <4>1, <4>2
        <4>3. CASE orderSize[s] # -1
          BY <4>1, <4>3, <1>1, <1>3 DEF TypeOK
        <4> QED BY <4>2, <4>3
      <3> QED BY <3>2, <3>3
    <2> QED BY <2>1, <1>1, <1>2 DEF Banks
  <1>10. Decision'
    <2> SUFFICES ASSUME decided # NoPacket PROVE DecidedFits'
      BY <1>1, <1>2 DEF Decision
    <2> DEFINE s == decided.requestor
    <2>1. s \in Requestors /\ DecidedFits
      BY <1>3 DEF Decision, TypeOK, Packets
    <2>2. CASE decided.type = "PRE" /\ decided.req = reqQ[s][1]
               /\ Closing(s, reqQ[s], hpIdx[s], rowTable[s], openRow[s], hpQ[s], rtQ[s])
      <3>1. Closing(s, reqQ'[s], hpIdx[s], rowTable[s], openRow[s], hpQ[s], rtQ[s])
        BY <2>1, <2>2, <1>6, BankGrows
      <3>2. reqQ'[s][1] = reqQ[s][1]
        BY <2>1, <2>2, <1>6, BankGrows DEF Closing
      <3> QED BY <2>2, <3>1, <3>2, <1>2 DEF DecidedFits
    <2>3. CASE decided.type = "ACT" /\ decided.req = reqQ[s][1]
               /\ RowClosed(s, reqQ[s], hpIdx[s], openRow[s], hpQ[s], rtQ[s])
      <3>1. RowClosed(s, reqQ'[s], hpIdx[s], openRow[s], hpQ[s], rtQ[s])
        BY <2>1, <2>3, <1>6, BankGrows
      <3>2. reqQ'[s][1] = reqQ[s][1]
        BY <2>1, <2>3, <1>6, BankGrows DEF RowClosed
      <3> QED BY <2>3, <3>1, <3>2, <1>2 DEF DecidedFits
    <2> QED BY <2>1, <2>2, <2>3, <1>2 DEF DecidedFits
  <1>11. Deadlines' /\ Registers' /\ Unreferenced' /\ ~fault'
    BY <1>2 DEF Inv, Deadlines, Registers, Unreferenced
  <1> QED BY <1>7, <1>8, <1>9, <1>10, <1>11 DEF Inv

--------------------------------------------------------------------------------
(* requestSchedule. *)

\* What scheduling does to one requestor.
LEMMA Scheduled ==
    ASSUME Inv, requestSchedule, NEW r \in Requestors
    PROVE  /\ hpQ'[r] \in Seq(Packets) /\ rtQ'[r] \in Seq(Packets) /\ hpIdx'[r] \in Nat
           /\ Bank(r, reqQ[r], hpIdx'[r], rowTable[r], openRow[r], hpQ'[r], rtQ'[r])
           /\ hpQ'[r] = <<>> => rtQ'[r] = <<>>
           /\ orderSize[r] <= r => rtQ'[r] = <<>>
           /\ hpQ[r] # <<>> => hpQ'[r] = hpQ[r] /\ hpIdx'[r] = hpIdx[r]
           /\ rtQ[r] # <<>> => rtQ'[r] = rtQ[r]
  <1> DEFINE k2 == IF hpQ[r] = <<>> THEN FirstReady(r) ELSE hpIdx[r]
             h2 == IF hpQ[r] = <<>>
                   THEN enqueueCommand(hpQ[r], r, reqQ[r][FirstReady(r)], "HP") ELSE hpQ[r]
             t2 == IF rtQ[r] = <<>>
                   THEN enqueueCommand(rtQ[r], r, reqQ[r][1], "RT") ELSE rtQ[r]
  <1>1. /\ reqQ[r] \in Seq(Requests) /\ hpQ[r] \in Seq(Packets) /\ rtQ[r] \in Seq(Packets)
        /\ hpIdx[r] \in Nat /\ orderSize[r] \in Int /\ r \in Nat
    BY DuetAssumption DEF Inv, TypeOK
  <1>2. /\ Bank(r, reqQ[r], hpIdx[r], rowTable[r], openRow[r], hpQ[r], rtQ[r])
        /\ orderSize[r] <= r => rtQ[r] = <<>>
    BY DEF Inv, Banks
  <1>3. (hpQ[r] = <<>> <=> Len(hpQ[r]) = 0) /\ (rtQ[r] = <<>> <=> Len(rtQ[r]) = 0)
    BY <1>1, EmptySeq
  <1>4. Scanned(r) => hpIdx'[r] = k2 /\ hpQ'[r] = h2 /\ rtQ'[r] = t2
    BY <1>3 DEF requestSchedule, getRequestorSize, getRequest
  <1>5. ~Scanned(r) => hpIdx'[r] = hpIdx[r] /\ hpQ'[r] = hpQ[r] /\ rtQ'[r] = rtQ[r]
    BY DEF requestSchedule
  <1>6. CASE Scanned(r)
    <2>1. reqQ[r] # <<>> /\ ~(orderSize[r] <= r)
      BY <1>1, <1>6 DEF Scanned
    <2>2. /\ h2 \in Seq(Packets) /\ t2 \in Seq(Packets) /\ h2 # <<>> /\ t2 # <<>>
          /\ Bank(r, reqQ[r], k2, rowTable[r], openRow[r], h2, t2)
      BY <1>1, <1>2, <2>1, FillStep
    <2>3. k2 \in Nat
      BY <1>1, <2>1, FirstReadyIs, LenProperties
    <2> QED BY <1>4, <1>6, <2>1, <2>2, <2>3
  <1>7. CASE ~Scanned(r)
    <2>1. reqQ[r] = <<>> \/ orderSize[r] <= r
      BY <1>1, <1>7 DEF Scanned
    <2>2. rtQ[r] = <<>>
      BY <1>2, <2>1 DEF Bank, Settled, SettledRT, RowClosed, Opened
    <2> QED BY <1>1, <1>2, <1>5, <1>7, <2>2
  <1> QED BY <1>6, <1>7

LEMMA ScheduleInv ==
    ASSUME Inv, requestSchedule
    PROVE  Inv'
  <1>1. /\ phase = "idle" /\ phase' = "send" /\ sent' = NoPacket
        /\ reqQ' = reqQ /\ orderSize' = orderSize /\ rowTable' = rowTable
        /\ Order' = Order /\ deadline_set_flag' = deadline_set_flag
        /\ service_deadline' = service_deadline /\ mode' = mode /\ decided' = decided
        /\ commandRegisters' = commandRegisters /\ registerIndex' = registerIndex
        /\ queuePending' = queuePending /\ servedFlags' = servedFlags /\ roundType' = roundType
        /\ openRow' = openRow /\ fault' = fault /\ workload' = workload
    BY DEF requestSchedule, deadlineVars, registerVars
  <1>2. TypeOK /\ Identities /\ Banks /\ Decision /\ Deadlines /\ Registers /\ ~fault
    BY DEF Inv
  <1>3. TypeOK'
    <2>1. hpQ' \in [Requestors -> Seq(Packets)]
      <3>1. \E f : hpQ' = [r \in Requestors |-> f[r]]
        <4> DEFINE f == [r \in Requestors |-> hpQ'[r]]
        <4>1. hpQ' = [r \in Requestors |-> f[r]]
          BY DEF requestSchedule
        <4> QED BY <4>1
      <3> QED BY <3>1, Scheduled
    <2>2. rtQ' \in [Requestors -> Seq(Packets)]
      <3>1. \E f : rtQ' = [r \in Requestors |-> f[r]]
        <4> DEFINE f == [r \in Requestors |-> rtQ'[r]]
        <4>1. rtQ' = [r \in Requestors |-> f[r]]
          BY DEF requestSchedule
        <4> QED BY <4>1
      <3> QED BY <3>1, Scheduled
    <2>3. hpIdx' \in [Requestors -> Nat]
      <3>1. \E f : hpIdx' = [r \in Requestors |-> f[r]]
        <4> DEFINE f == [r \in Requestors |-> hpIdx'[r]]
        <4>1. hpIdx' = [r \in Requestors |-> f[r]]
          BY DEF requestSchedule
        <4> QED BY <4>1
      <3> QED BY <3>1, Scheduled
    <2>4. rtIdx' = [r \in Requestors |-> 1]
      BY <1>2 DEF requestSchedule, TypeOK
    <2> QED BY <1>1, <1>2, <2>1, <2>2, <2>3, <2>4 DEF TypeOK
  <1>4. Identities'
    BY <1>1, <1>2 DEF Identities
  <1>5. Banks'
    BY <1>1, Scheduled DEF Banks
  <1>6. Decision'
    <2> SUFFICES ASSUME decided # NoPacket PROVE DecidedFits'
      BY <1>1 DEF Decision
    <2> DEFINE s == decided.requestor
    <2>1. s \in Requestors /\ DecidedFits
      BY <1>2 DEF Decision, TypeOK, Packets
    <2>2. CASE hpQ[s] # <<>> /\ rtQ[s] # <<>>
      <3>1. hpQ'[s] = hpQ[s] /\ rtQ'[s] = rtQ[s] /\ hpIdx'[s] = hpIdx[s]
        BY <2>1, <2>2, Scheduled
      <3> QED BY <1>1, <2>1, <3>1 DEF DecidedFits
    <2>3. CASE decided.type \in CAS /\ openRow[s] = RowOf[decided.req.addr]
      BY <2>3, <1>1 DEF DecidedFits
    <2>4. CASE Closing(s, reqQ[s], hpIdx[s], rowTable[s], openRow[s], hpQ[s], rtQ[s])
      BY <2>2, <2>4, QueueShapes DEF Closing
    <2>5. CASE RowClosed(s, reqQ[s], hpIdx[s], openRow[s], hpQ[s], rtQ[s])
      <3>1. Two(hpQ[s], s, reqQ[s][1]) /\ Two(rtQ[s], s, reqQ[s][1])
        BY <2>5 DEF RowClosed
      <3>2. hpQ[s] # <<>> /\ rtQ[s] # <<>>
        BY <3>1, QueueShapes
      <3> QED BY <2>2, <3>2
    <2> QED BY <2>1, <2>3, <2>4, <2>5 DEF DecidedFits
  <1>7. Deadlines'
    BY <1>1, <1>2, Scheduled DEF Deadlines
  <1>8. Registers'
    <2>1. ASSUME NEW k \in 1..Len(commandRegisters), rtQ[commandRegisters[k].requestor] # <<>>
          PROVE  rtQ'[commandRegisters[k].requestor] = rtQ[commandRegisters[k].requestor]
      <3>1. commandRegisters[k] \in Packets
        BY <1>2, ElementOfSeq DEF TypeOK
      <3>2. commandRegisters[k].requestor \in Requestors
        BY <3>1 DEF Packets
      <3> QED BY <2>1, <3>2, Scheduled
    <2> QED BY <1>1, <1>2, <2>1 DEF Registers
  <1>9. Unreferenced'
    BY <1>1 DEF Unreferenced
  <1> QED BY <1>1, <1>2, <1>3, <1>4, <1>5, <1>6, <1>7, <1>8, <1>9 DEF Inv

--------------------------------------------------------------------------------
(* SendCommand. *)

\* Only the queues of the sender can have the decided command at their heads.
LEMMA Dropped ==
    ASSUME NEW q \in Seq(Packets)
    PROVE  /\ (\A i \in 1..Len(q) : q[i].requestor # Sender) => Drop(q) = q
           /\ decided = NoPacket \/ decided.type \in CAS => Drop(q) = q
           /\ decided # NoPacket /\ decided.type \notin CAS /\ q # <<>> /\ Same(decided, Head(q)) =>
                Drop(q) = Tail(q)
  <1>1. q # <<>> => 1 \in 1..Len(q) /\ Head(q) = q[1]
    BY LenProperties, EmptySeq
  <1>2. ~Same(decided, NoPacket)
    BY DEF Same
  <1>3. ASSUME \A i \in 1..Len(q) : q[i].requestor # Sender
        PROVE  ~Same(decided, HeadOf(q))
    <2>1. CASE q = <<>>
      BY <2>1, <1>2 DEF HeadOf
    <2>2. CASE q # <<>>
      BY <2>2, <1>1, <1>3 DEF HeadOf, Same, Sender
    <2> QED BY <2>1, <2>2
  <1> QED BY <1>3 DEF Drop, HeadOf, removeCommand

\* What sending does to one requestor.
LEMMA Sent ==
    ASSUME Inv, SendCommand, NEW r \in Requestors
    PROVE  /\ hpQ'[r] \in Seq(Packets) /\ rtQ'[r] \in Seq(Packets)
           /\ Bank(r, reqQ[r], hpIdx[r], rowTable[r], openRow'[r], hpQ'[r], rtQ'[r])
           /\ hpQ'[r] = <<>> => rtQ'[r] = <<>>
           /\ rtQ'[r] = <<>> <=> rtQ[r] = <<>>
           /\ decided = NoPacket \/ Sender # r => rtQ'[r] = rtQ[r]
           /\ decided # NoPacket => /\ \A i \in 1..Len(hpQ'[r]) : hpQ'[r][i] # decided
                                    /\ \A i \in 1..Len(rtQ'[r]) : rtQ'[r][i] # decided
  <1>1. /\ reqQ[r] \in Seq(Requests) /\ hpQ[r] \in Seq(Packets) /\ rtQ[r] \in Seq(Packets)
        /\ openRow \in [Requestors -> Rows] /\ decided \in Packets \cup {NoPacket}
    BY DEF Inv, TypeOK
  <1>2. /\ phase = "send"
        /\ Bank(r, reqQ[r], hpIdx[r], rowTable[r], openRow[r], hpQ[r], rtQ[r])
        /\ hpQ[r] = <<>> => rtQ[r] = <<>>
        /\ decided # NoPacket => DecidedFits
    BY DEF Inv, Banks, SendCommand, Decision
  <1>3. /\ hpQ'[r] = Drop(hpQ[r]) /\ rtQ'[r] = Drop(rtQ[r])
        /\ openRow' = IF decided = NoPacket \/ decided.type \in CAS THEN openRow
                      ELSE [openRow EXCEPT ![Sender] =
                              IF decided.type = "PRE" THEN NoRow ELSE RowOf[decided.req.addr]]
    BY DEF SendCommand
  <1>4. Belongs(hpQ[r], r, reqQ[r]) /\ Belongs(rtQ[r], r, reqQ[r])
    BY <1>1, <1>2, BankPackets
  <1>5. CASE decided = NoPacket
    <2>1. hpQ'[r] = hpQ[r] /\ rtQ'[r] = rtQ[r] /\ openRow' = openRow
      BY <1>1, <1>3, <1>5, Dropped
    <2> QED BY <1>1, <1>2, <1>5, <2>1
  <1>6. CASE decided # NoPacket /\ decided.type \in CAS
    <2>1. hpQ'[r] = hpQ[r] /\ rtQ'[r] = rtQ[r] /\ openRow' = openRow
      BY <1>1, <1>3, <1>6, Dropped
    <2>2. \A j \in 1..Len(reqQ[r]) : reqQ[r][j] # decided.req
      BY <1>6 DEF Inv, Identities
    <2> QED BY <1>1, <1>2, <1>4, <1>6, <2>1, <2>2 DEF Belongs
  <1>7. CASE decided # NoPacket /\ decided.type \notin CAS /\ Sender # r
    <2>1. hpQ'[r] = hpQ[r] /\ rtQ'[r] = rtQ[r]
      BY <1>1, <1>3, <1>4, <1>7, Dropped DEF Belongs
    <2>2. openRow'[r] = openRow[r]
      BY <1>1, <1>3, <1>7
    <2> QED BY SMTT(30), <1>1, <1>2, <1>4, <1>7, <2>1, <2>2 DEF Sender, Belongs
  <1>8. CASE decided # NoPacket /\ decided.type \notin CAS /\ Sender = r
    <2> DEFINE Q == reqQ[r]
    <2>1. decided \in Packets /\ decided.requestor = r /\ decided.req = Q[1]
      BY <1>1, <1>2, <1>8 DEF DecidedFits, Sender
    <2>2. CASE /\ decided.type = "PRE"
               /\ Closing(r, Q, hpIdx[r], rowTable[r], openRow[r], hpQ[r], rtQ[r])
      <3>1. Q # <<>> /\ hpQ[r] # <<>> /\ rtQ[r] # <<>>
        BY <2>2, QueueShapes DEF Closing
      <3>2. /\ Same(decided, Head(hpQ[r])) /\ Same(decided, Head(rtQ[r]))
            /\ RowClosed(r, Q, hpIdx[r], NoRow, Tail(hpQ[r]), Tail(rtQ[r]))
        BY <1>1, <2>1, <2>2, RowCommandSent
      <3>3. hpQ'[r] = Tail(hpQ[r]) /\ rtQ'[r] = Tail(rtQ[r])
        BY <1>1, <1>3, <1>8, <3>1, <3>2, Dropped
      <3>4. openRow'[r] = NoRow
        BY <1>1, <1>3, <1>8, <2>2
      <3>5. RowClosed(r, Q, hpIdx[r], openRow'[r], hpQ'[r], rtQ'[r])
        BY <3>2, <3>3, <3>4
      <3>6. Q[1] \in Requests
        BY <1>1, <3>1, LenProperties, EmptySeq, ElementOfSeq
      <3>7. Two(hpQ'[r], r, Q[1]) /\ Two(rtQ'[r], r, Q[1])
        BY <3>5 DEF RowClosed
      <3>8. hpQ'[r] # <<>> /\ rtQ'[r] # <<>>
        BY <3>7, QueueShapes
      <3>9. /\ \A i \in 1..Len(hpQ'[r]) : hpQ'[r][i] # decided
            /\ \A i \in 1..Len(rtQ'[r]) : rtQ'[r][i] # decided
        BY <2>2, <3>6, <3>7, NoneLeft
      <3>10. hpQ'[r] \in Seq(Packets) /\ rtQ'[r] \in Seq(Packets)
        BY <1>1, <3>1, <3>3, HeadTailProperties
      <3> QED BY <1>8, <3>1, <3>5, <3>8, <3>9, <3>10 DEF Bank
    <2>3. CASE /\ decided.type = "ACT"
               /\ RowClosed(r, Q, hpIdx[r], openRow[r], hpQ[r], rtQ[r])
      <3>1. Q # <<>> /\ hpQ[r] # <<>> /\ rtQ[r] # <<>>
        BY <2>3, QueueShapes DEF RowClosed
      <3>2. /\ Same(decided, Head(hpQ[r])) /\ Same(decided, Head(rtQ[r]))
            /\ Opened(r, Q, hpIdx[r], RowOf[Q[1].addr], Tail(hpQ[r]), Tail(rtQ[r]))
        BY <1>1, <2>1, <2>3, RowCommandSent
      <3>3. hpQ'[r] = Tail(hpQ[r]) /\ rtQ'[r] = Tail(rtQ[r])
        BY <1>1, <1>3, <1>8, <3>1, <3>2, Dropped
      <3>4. openRow'[r] = RowOf[Q[1].addr]
        BY <1>1, <1>3, <1>8, <2>1, <2>3
      <3>5. Opened(r, Q, hpIdx[r], openRow'[r], hpQ'[r], rtQ'[r])
        BY <3>2, <3>3, <3>4
      <3>6. Q[1] \in Requests
        BY <1>1, <3>1, LenProperties, EmptySeq, ElementOfSeq
      <3>7. One(hpQ'[r], r, Q[1]) /\ One(rtQ'[r], r, Q[1])
        BY <3>5 DEF Opened
      <3>8. hpQ'[r] # <<>> /\ rtQ'[r] # <<>>
        BY <3>7, QueueShapes
      <3>9. /\ \A i \in 1..Len(hpQ'[r]) : hpQ'[r][i] # decided
            /\ \A i \in 1..Len(rtQ'[r]) : rtQ'[r][i] # decided
        BY <2>3, <3>6, <3>7, NoneLeft
      <3>10. hpQ'[r] \in Seq(Packets) /\ rtQ'[r] \in Seq(Packets)
        BY <1>1, <3>1, <3>3, HeadTailProperties
      <3> QED BY <1>8, <3>1, <3>5, <3>8, <3>9, <3>10 DEF Bank
    <2> QED BY <1>2, <1>8, <2>2, <2>3 DEF DecidedFits, Sender
  <1> QED BY <1>5, <1>6, <1>7, <1>8

\* The accesses of sendCommand and setDeadline that are not checked find an element.
LEMMA SendSafe ==
    ASSUME Inv, SendCommand
    PROVE  ~fault'
  <1> DEFINE rtq == [r \in Requestors |-> Drop(rtQ[r])]
  <1>1. fault' = (fault \/ SendFault(rtq)) /\ ~fault
    BY DEF SendCommand, Inv
  <1>2. \A r \in Requestors : rtq[r] = rtQ'[r]
    BY DEF SendCommand
  <1>3. ASSUME decided # NoPacket, decided.type \notin CAS
        PROVE  hpQ[Sender] # <<>> /\ rtQ[Sender] # <<>>
    <2>1. DecidedFits
      BY <1>3 DEF Inv, Decision
    <2> QED BY <2>1, <1>3, QueueShapes DEF DecidedFits, Closing, RowClosed, Sender
  <1>4. ASSUME NEW r \in Undated(rtq), rtq[r][1].type = "PRE" PROVE ~(Len(rtq[r]) < 3)
    <2>1. r \in Requestors /\ rtq[r] # <<>>
      BY DEF Undated
    <2>2. reqQ[r] \in Seq(Requests)
      BY <2>1 DEF Inv, TypeOK
    <2>3. Bank(r, reqQ[r], hpIdx[r], rowTable[r], openRow'[r], hpQ'[r], rtQ'[r])
      BY <2>1, Sent
    <2>4. Len(rtQ'[r]) = 3
      BY <2>1, <2>2, <2>3, <1>2, <1>4, BehindPrecharge
    <2>5. rtq[r] = rtQ'[r]
      BY <2>1, <1>2
    <2>6. ~(Len(rtQ'[r]) < 3)
      BY <2>4
    <2> QED BY <2>5, <2>6
  <1> HIDE DEF rtq
  <1>5. ~SendFault(rtq)
    BY <1>3, <1>4 DEF SendFault
  <1> QED BY <1>1, <1>5

\* The registers after a command has been sent.
LEMMA RegistersSent ==
    ASSUME Inv, SendCommand
    PROVE  /\ commandRegisters' \in Seq(Packets) /\ queuePending' \in [Requestors -> BOOLEAN]
           /\ \A i, j \in 1..Len(commandRegisters') :
                commandRegisters'[i].requestor = commandRegisters'[j].requestor => i = j
           /\ \A r \in Requestors : queuePending'[r] <=>
                \E k \in 1..Len(commandRegisters') : commandRegisters'[k].requestor = r
           /\ \A k \in 1..Len(commandRegisters') :
                LET c == commandRegisters'[k]
                IN  c # decided /\ rtQ'[c.requestor] # <<>> /\ c = rtQ'[c.requestor][1]
           /\ mode = "HPA" => commandRegisters' = <<>>
  <1> DEFINE regs == commandRegisters
             n == registerIndex
             rest == commandRegisters'
  <1>1. /\ regs \in Seq(Packets) /\ mode \in {"HPA", "RTA"} /\ decided \in Packets \cup {NoPacket}
        /\ queuePending \in [Requestors -> BOOLEAN]
    BY DEF Inv, TypeOK
  <1>2. Registers
    BY DEF Inv
  <1>3. \A k \in 1..Len(regs) : regs[k] \in Packets /\ regs[k].requestor \in Requestors
    <2>1. \A k \in 1..Len(regs) : regs[k] \in Packets
      BY <1>1, ElementOfSeq
    <2>2. \A p \in Packets : p.requestor \in Requestors
      BY DEF Packets
    <2> HIDE DEF regs
    <2> QED BY <2>1, <2>2
  <1>4. CASE mode = "HPA"
    <2>1. regs = <<>> /\ rest = regs /\ queuePending' = queuePending
      BY <1>2, <1>4 DEF Registers, SendCommand
    <2>2. Len(regs) = 0 /\ 1..0 = {}
      BY <2>1
    <2> QED BY <1>1, <1>2, <2>1, <2>2 DEF Registers
  <1>5. CASE mode = "RTA" /\ decided = NoPacket
    <2>1. rest = regs /\ queuePending' = queuePending
      BY <1>5 DEF SendCommand
    <2>2. \A k \in 1..Len(regs) : regs[k] # decided
      BY <1>3, <1>5, CommandTypes
    <2>3. \A k \in 1..Len(regs) :
            rtQ[regs[k].requestor] # <<>> /\ regs[k] = rtQ[regs[k].requestor][1]
      BY <1>2, <1>5 DEF Registers
    <2>4. \A r \in Requestors : rtQ'[r] = rtQ[r]
      BY <1>5, Sent
    <2>5. mode # "HPA"
      BY <1>5
    <2> QED BY <1>1, <1>2, <1>3, <2>1, <2>2, <2>3, <2>4, <2>5 DEF Registers
  <1>6. CASE mode = "RTA" /\ decided # NoPacket
    <2>1. rest = RemoveAt(regs, n) /\ queuePending' = [queuePending EXCEPT ![Sender] = FALSE]
      BY <1>6 DEF SendCommand, FreeRegister
    <2>2. n \in 1..Len(regs) /\ regs[n] = decided /\ Sender = regs[n].requestor
      BY <1>2, <1>6 DEF Registers, Sender
    <2>3. \A i, j \in 1..Len(regs) : regs[i].requestor = regs[j].requestor => i = j
      BY <1>2 DEF Registers
    <2>4. OnceEach(regs)
      BY <2>3 DEF OnceEach
    <2> HIDE DEF regs, n, rest
    <2>5. rest \in Seq(Packets) /\ OnceEach(rest) /\ \A x : Occurs(x, rest) <=> Occurs(x, regs) /\ x # regs[n]
      BY <1>1, <2>1, <2>2, <2>4, WithoutOne
    <2>a. ASSUME NEW i \in 1..Len(rest)
          PROVE  \E j \in 1..Len(regs) : j # n /\ rest[i] = regs[j]
      BY <2>5 DEF Occurs
    <2>b. ASSUME NEW j \in 1..Len(regs), j # n
          PROVE  \E i \in 1..Len(rest) : rest[i] = regs[j]
      <3>1. Occurs(regs[j], regs) /\ regs[j] # regs[n]
        BY <2>b, <2>2, <2>4 DEF Occurs, OnceEach
      <3>2. Occurs(regs[j], rest)
        BY <3>1, <2>5
      <3> QED BY <3>2 DEF Occurs
    <2>6. ASSUME NEW i \in 1..Len(rest), NEW j \in 1..Len(rest),
                 rest[i].requestor = rest[j].requestor
          PROVE  i = j
      <3>1. PICK k \in 1..Len(regs) : k # n /\ rest[i] = regs[k]
        BY <2>a
      <3>2. PICK l \in 1..Len(regs) : l # n /\ rest[j] = regs[l]
        BY <2>a
      <3>3. k = l
        BY <2>3, <2>6, <3>1, <3>2 DEF regs
      <3> QED BY <2>5, <3>1, <3>2, <3>3 DEF OnceEach
    <2>7. ASSUME NEW r \in Requestors
          PROVE  queuePending'[r] <=> \E k \in 1..Len(rest) : rest[k].requestor = r
      <3>1. queuePending[r] <=> \E k \in 1..Len(regs) : regs[k].requestor = r
        BY <1>2 DEF Registers, regs
      <3>2. CASE r = Sender
        <4>1. ~queuePending'[r]
          BY <1>1, <2>1, <3>2
        <4>2. ASSUME NEW k \in 1..Len(rest) PROVE rest[k].requestor # r
          <5>1. PICK j \in 1..Len(regs) : j # n /\ rest[k] = regs[j]
            BY <2>a
          <5> QED BY <5>1, <2>2, <2>3, <3>2
        <4> QED BY <4>1, <4>2
      <3>3. CASE r # Sender
        <4>1. queuePending'[r] = queuePending[r]
          BY <1>1, <2>1, <3>3
        <4>2. ASSUME NEW k \in 1..Len(regs), regs[k].requestor = r
              PROVE  \E i \in 1..Len(rest) : rest[i].requestor = r
          <5>1. k # n
            BY <4>2, <2>2, <3>3
          <5> QED BY <5>1, <2>b, <4>2
        <4>3. ASSUME NEW k \in 1..Len(rest), rest[k].requestor = r
              PROVE  \E i \in 1..Len(regs) : regs[i].requestor = r
          BY <4>3, <2>a
        <4> QED BY <3>1, <4>1, <4>2, <4>3
      <3> QED BY <3>2, <3>3
    <2>8. ASSUME NEW k \in 1..Len(rest)
          PROVE  /\ rest[k] # decided /\ rtQ'[rest[k].requestor] # <<>>
                 /\ rest[k] = rtQ'[rest[k].requestor][1]
      <3>1. PICK j \in 1..Len(regs) : j # n /\ rest[k] = regs[j]
        BY <2>a
      <3>2. rest[k] # decided
        BY <2>2, <2>4, <3>1 DEF OnceEach
      <3>3. regs[j].requestor # Sender /\ regs[j].requestor \in Requestors
        BY <1>3, <2>2, <2>3, <3>1 DEF regs
      <3>4. rtQ[regs[j].requestor] # <<>> /\ regs[j] = rtQ[regs[j].requestor][1]
        BY <1>2, <3>1 DEF Registers, regs, n
      <3>5. rtQ'[regs[j].requestor] = rtQ[regs[j].requestor]
        BY <3>3, Sent
      <3> QED BY <3>1, <3>2, <3>4, <3>5
    <2>9. queuePending' \in [Requestors -> BOOLEAN] /\ mode # "HPA"
      BY <1>1, <1>6, <2>1
    <2> QED BY <2>5, <2>6, <2>7, <2>8, <2>9 DEF rest
  <1> QED BY <1>1, <1>4, <1>5, <1>6

LEMMA SendInv ==
    ASSUME Inv, SendCommand
    PROVE  Inv'
  <1> DEFINE rtq == [r \in Requestors |-> Drop(rtQ[r])]
             new == Undated(rtq)
  <1>1. /\ phase = "send" /\ phase' = "decide" /\ sent' = decided /\ decided' = NoPacket
        /\ reqQ' = reqQ /\ orderSize' = orderSize /\ hpIdx' = hpIdx /\ rtIdx' = rtIdx
        /\ rowTable' = rowTable /\ mode' = mode /\ registerIndex' = registerIndex
        /\ roundType' = roundType /\ workload' = workload
        /\ setDeadline(rtq)
    BY DEF SendCommand
  <1>2. TypeOK /\ Identities /\ Banks /\ Decision /\ Deadlines /\ ~fault
    BY DEF Inv
  <1>3. rtq = rtQ' /\ new = {r \in Requestors : rtQ'[r] # <<>> /\ ~deadline_set_flag[r]}
    BY DEF SendCommand, Undated
  <1>4. /\ Order' = Order \o Ascending(new)
        /\ deadline_set_flag' = [r \in Requestors |-> deadline_set_flag[r] \/ r \in new]
        /\ service_deadline' = [r \in Requestors |-> CountDown(Dated(rtq, r))]
    BY <1>1 DEF setDeadline
  <1>5. ~fault'
    BY SendSafe
  <1>6. /\ Order' \in Seq(Requestors) /\ OnceEach(Order')
        /\ \A x : Occurs(x, Order') <=> Occurs(x, Order) \/ x \in new
    <2>1. new \in SUBSET Requestors
      BY <1>3
    <2> HIDE DEF new
    <2>2. /\ Ascending(new) \in Seq(new) /\ OnceEach(Ascending(new))
          /\ \A x : Occurs(x, Ascending(new)) <=> x \in new
      BY <2>1, AscendingProperties
    <2>3. Ascending(new) \in Seq(Requestors)
      BY <2>1, <2>2
    <2>4. Order \in Seq(Requestors) /\ OnceEach(Order)
      BY <1>2 DEF TypeOK, Deadlines
    <2>5. ASSUME NEW x, Occurs(x, Order) PROVE x \notin new
      <3>1. x \in Requestors
        BY <2>4, <2>5, ElementOfSeq DEF Occurs
      <3>2. deadline_set_flag[x]
        BY <1>2, <2>5, <3>1 DEF Deadlines
      <3> QED BY <1>3, <3>2
    <2>6. \A x : ~(Occurs(x, Order) /\ Occurs(x, Ascending(new)))
      BY <2>2, <2>5
    <2>7. /\ Order' \in Seq(Requestors) /\ OnceEach(Order')
          /\ \A x : Occurs(x, Order') <=> Occurs(x, Order) \/ Occurs(x, Ascending(new))
      BY <1>4, <2>2, <2>3, <2>4, <2>6, Joined
    <2> QED BY <2>2, <2>7
  <1>7. TypeOK'
    <2>1. hpQ' \in [Requestors -> Seq(Packets)] /\ rtQ' \in [Requestors -> Seq(Packets)]
      <3>1. /\ hpQ' = [r \in Requestors |-> Drop(hpQ[r])]
            /\ rtQ' = [r \in Requestors |-> Drop(rtQ[r])]
        BY DEF SendCommand
      <3>2. \A r \in Requestors : Drop(hpQ[r]) \in Seq(Packets) /\ Drop(rtQ[r]) \in Seq(Packets)
        BY <3>1, Sent
      <3> QED BY <3>1, <3>2
    <2>2. openRow' \in [Requestors -> Rows]
      <3>1. NoRow \in Rows /\ \A p \in Packets : RowOf[p.req.addr] \in Rows
        BY DEF Rows, Packets, Requests
      <3>2. openRow \in [Requestors -> Rows] /\ decided \in Packets \cup {NoPacket}
        BY <1>2 DEF TypeOK
      <3> QED BY <3>1, <3>2 DEF SendCommand
    <2>3. service_deadline' \in [Requestors -> Nat]
      <3>1. ASSUME NEW r \in Requestors PROVE CountDown(Dated(rtq, r)) \in Nat
        <4>1. service_deadline[r] \in Nat /\ workload.deadline \in Nat
          BY <1>2, DuetAssumption DEF TypeOK
        <4>2. Dated(rtq, r) \in Nat
          BY <4>1 DEF Dated
        <4> QED BY <4>2 DEF CountDown
      <3> QED BY <1>4, <3>1
    <2>4. deadline_set_flag' \in [Requestors -> BOOLEAN]
      <3>1. \A r \in Requestors : (deadline_set_flag[r] \/ r \in new) \in BOOLEAN
        OBVIOUS
      <3> QED BY <1>4, <3>1
    <2>5. servedFlags' \in [Requestors -> BOOLEAN]
      <3>1. servedFlags \in [Requestors -> BOOLEAN]
        BY <1>2 DEF TypeOK
      <3> QED BY <3>1 DEF SendCommand
    <2>6. commandRegisters' \in Seq(Packets) /\ queuePending' \in [Requestors -> BOOLEAN]
      BY RegistersSent
    <2>7. fault' \in BOOLEAN
      BY <1>5, <1>2 DEF SendCommand
    <2> QED BY <1>1, <1>2, <1>6, <2>1, <2>2, <2>3, <2>4, <2>5, <2>6, <2>7 DEF TypeOK
  <1>8. Identities'
    BY <1>1, <1>2 DEF Identities
  <1>9. Banks'
    BY <1>1, <1>2, Sent DEF Banks
  <1>10. Decision'
    BY <1>1 DEF Decision
  <1>11. Deadlines'
    <2>1. ASSUME NEW r \in Requestors
          PROVE  /\ deadline_set_flag'[r] <=> Occurs(r, Order')
                 /\ deadline_set_flag'[r] <=> rtQ'[r] # <<>>
      <3>1. deadline_set_flag'[r] <=> (deadline_set_flag[r] \/ r \in new)
        BY <1>4
      <3>2. deadline_set_flag[r] <=> Occurs(r, Order)
        BY <1>2 DEF Deadlines
      <3>3. deadline_set_flag[r] => rtQ'[r] # <<>>
        BY <1>2, Sent DEF Deadlines
      <3> QED BY <1>3, <1>6, <3>1, <3>2, <3>3
    <2> QED BY <1>6, <2>1 DEF Deadlines
  <1>12. Registers'
    BY <1>1, RegistersSent DEF Registers
  <1>13. Unreferenced'
    <2> SUFFICES ASSUME decided # NoPacket PROVE Unreferenced'
      BY <1>1 DEF Unreferenced
    <2>1. \A r \in Requestors : /\ \A i \in 1..Len(hpQ'[r]) : hpQ'[r][i] # decided
                                /\ \A i \in 1..Len(rtQ'[r]) : rtQ'[r][i] # decided
      BY Sent
    <2>2. \A k \in 1..Len(commandRegisters') : commandRegisters'[k] # decided
      BY RegistersSent
    <2> QED BY <1>1, <2>1, <2>2 DEF Unreferenced
  <1> QED BY <1>5, <1>7, <1>8, <1>9, <1>10, <1>11, <1>12, <1>13 DEF Inv

--------------------------------------------------------------------------------
(* The decisions. *)

\* A decision serves a request, the first of its requestor for its address, or none.
Choice ==
    \/ reqQ' = reqQ /\ (decided' = NoPacket \/ decided'.type \notin CAS)
    \/ /\ decided' # NoPacket /\ decided'.type \in CAS
       /\ \E r \in Requestors : \E k \in 1..Len(reqQ[r]) :
            /\ decided'.requestor = r /\ decided'.req = reqQ[r][k] /\ FirstFor(reqQ[r], k)
            /\ reqQ' = [reqQ EXCEPT ![r] = RemoveAt(reqQ[r], k)]

\* If HPA has a command for a requestor, so has RTA; once requests have been scheduled
\* also the other way round.
LEMMA BothFilled ==
    ASSUME Inv, phase = "decide", NEW r \in Requestors
    PROVE  /\ reqQ[r] \in Seq(Requests) /\ hpQ[r] \in Seq(Packets) /\ rtQ[r] \in Seq(Packets)
           /\ Bank(r, reqQ[r], hpIdx[r], rowTable[r], openRow[r], hpQ[r], rtQ[r])
           /\ hpQ[r] = <<>> <=> rtQ[r] = <<>>
           /\ hpQ[r] # <<>> => 1 \in 1..Len(hpQ[r]) /\ hpQ[r][1] \in Packets /\ HeadOf(hpQ[r]) = hpQ[r][1]
           /\ rtQ[r] # <<>> => 1 \in 1..Len(rtQ[r]) /\ rtQ[r][1] \in Packets /\ HeadOf(rtQ[r]) = rtQ[r][1]
           /\ deadline_set_flag[r] <=> rtQ[r] # <<>>
  <1>1. reqQ[r] \in Seq(Requests) /\ hpQ[r] \in Seq(Packets) /\ rtQ[r] \in Seq(Packets)
    BY DEF Inv, TypeOK
  <1>2. /\ Bank(r, reqQ[r], hpIdx[r], rowTable[r], openRow[r], hpQ[r], rtQ[r])
        /\ hpQ[r] = <<>> => rtQ[r] = <<>>
    BY DEF Inv, Banks
  <1>3. rtQ[r] = <<>> => hpQ[r] = <<>>
    BY <1>2, QueueShapes DEF Bank, Settled, RowClosed, Opened
  <1>4. \A q \in Seq(Packets) : q # <<>> => 1 \in 1..Len(q) /\ q[1] \in Packets /\ HeadOf(q) = q[1]
    <2>1. ASSUME NEW q \in Seq(Packets), q # <<>>
          PROVE  1 \in 1..Len(q) /\ q[1] \in Packets /\ HeadOf(q) = q[1]
      <3>1. 1 \in 1..Len(q)
        BY <2>1, LenProperties, EmptySeq
      <3>2. Head(q) = q[1]
        OBVIOUS
      <3> QED BY <2>1, <3>1, <3>2, ElementOfSeq DEF HeadOf
    <2> QED BY <2>1
  <1>5. deadline_set_flag[r] <=> rtQ[r] # <<>>
    BY DEF Inv, Deadlines
  <1> QED BY <1>1, <1>2, <1>3, <1>4, <1>5

\* What the bookkeeping of a column command leaves: c is for the request at place k,
\* whose row is open, and HPA's queue is dropped; if c heads RTA's queue, also that one.
LEMMA Booked ==
    ASSUME Inv, phase = "decide", phase' = "idle", NEW c \in Packets, c.type \in CAS,
           NEW r, r = c.requestor, NEW k \in 1..Len(reqQ[r]), c.req = reqQ[r][k],
           openRow[r] = RowOf[reqQ[r][k].addr], hpQ[r] # <<>>,
           NEW t2, t2 = IF Same(c, rtQ[r][1]) THEN Tail(rtQ[r]) ELSE rtQ[r],
           Same(c, rtQ[r][1]) => t2 = <<>>,
           Bank(r, RemoveAt(reqQ[r], k), hpIdx[r], RowOf[reqQ[r][k].addr], openRow[r],
                Tail(hpQ[r]), t2),
           updateRowTable(c), EndDeadline(c), removeRequest(r, k),
           hpQ' = [hpQ EXCEPT ![r] = Tail(hpQ[r])],
           rtQ' = IF Same(c, rtQ[r][1]) THEN [rtQ EXCEPT ![r] = Tail(rtQ[r])] ELSE rtQ,
           fault' = (fault \/ k > Len(reqQ[r]) \/ rtQ[r] = <<>>), decided' = c, hpIdx' = hpIdx, orderSize' = orderSize,
           openRow' = openRow
    PROVE  /\ reqQ' \in [Requestors -> Seq(Requests)] /\ rowTable' \in [Requestors -> Rows]
           /\ hpQ' \in [Requestors -> Seq(Packets)] /\ rtQ' \in [Requestors -> Seq(Packets)]
           /\ Order' \in Seq(Requestors) /\ deadline_set_flag' \in [Requestors -> BOOLEAN]
           /\ Identities' /\ Banks' /\ Decision' /\ Deadlines' /\ ~fault'
           /\ r \in Requestors
           /\ reqQ' = [reqQ EXCEPT ![r] = RemoveAt(reqQ[r], k)]
           /\ \A s \in Requestors \ {r} : hpQ'[s] = hpQ[s] /\ rtQ'[s] = rtQ[s]
           /\ hpQ'[r] = Tail(hpQ[r]) /\ rtQ'[r] = t2
           /\ fault' \in BOOLEAN
  <1> DEFINE dt == Same(c, rtQ[r][1])
  <1>1. /\ reqQ \in [Requestors -> Seq(Requests)] /\ rowTable \in [Requestors -> Rows]
        /\ hpQ \in [Requestors -> Seq(Packets)] /\ rtQ \in [Requestors -> Seq(Packets)]
        /\ Order \in Seq(Requestors) /\ deadline_set_flag \in [Requestors -> BOOLEAN]
    BY DEF Inv, TypeOK
  <1>2. r \in Requestors /\ c.req \in Requests /\ c # NoPacket
    BY CommandTypes DEF Packets
  <1>3. /\ reqQ[r] \in Seq(Requests) /\ Len(reqQ[r]) \in Nat /\ k \in Nat
        /\ hpQ[r] \in Seq(Packets) /\ rtQ[r] \in Seq(Packets) /\ rtQ[r] # <<>>
        /\ deadline_set_flag[r] /\ returnOldest(r) = rtQ[r][1]
    BY <1>2, BothFilled, LenProperties DEF returnOldest
  <1>4. /\ reqQ' = [reqQ EXCEPT ![r] = RemoveAt(reqQ[r], k)]
        /\ rowTable' = [rowTable EXCEPT ![r] = RowOf[c.req.addr]]
        /\ hpQ' = [hpQ EXCEPT ![r] = Tail(hpQ[r])]
        /\ rtQ' = IF dt THEN [rtQ EXCEPT ![r] = Tail(rtQ[r])] ELSE rtQ
        /\ EndDeadline(c)
        /\ fault' = (fault \/ k > Len(reqQ[r]) \/ rtQ[r] = <<>>)
    BY <1>3 DEF updateRowTable, removeRequest
  <1>5. ~fault'
    <2>1. ~(k > Len(reqQ[r]))
      BY <1>3
    <2>2. ~fault
      BY DEF Inv
    <2> QED BY <2>1, <2>2, <1>3, <1>4
  <1>6. /\ RemoveAt(reqQ[r], k) \in Seq(Requests)
        /\ \A l \in 1..(Len(reqQ[r]) - 1) :
                RemoveAt(reqQ[r], k)[l] = IF l < k THEN reqQ[r][l] ELSE reqQ[r][l + 1]
        /\ Len(RemoveAt(reqQ[r], k)) = Len(reqQ[r]) - 1
    BY <1>3, RemoveAtProperties
  <1>7. reqQ' \in [Requestors -> Seq(Requests)] /\ rowTable' \in [Requestors -> Rows]
    <2>1. RowOf[c.req.addr] \in Rows
      BY <1>2 DEF Rows, Requests
    <2> QED BY <1>1, <1>4, <1>6, <2>1
  <1>8. /\ \A s \in Requestors \ {r} : hpQ'[s] = hpQ[s] /\ rtQ'[s] = rtQ[s]
        /\ hpQ'[r] = Tail(hpQ[r]) /\ rtQ'[r] = t2 /\ (dt => t2 = <<>>) /\ (~dt => t2 = rtQ[r])
    BY <1>1, <1>2, <1>4
  <1>9. hpQ' \in [Requestors -> Seq(Packets)] /\ rtQ' \in [Requestors -> Seq(Packets)]
    <2>1. Tail(hpQ[r]) \in Seq(Packets) /\ Tail(rtQ[r]) \in Seq(Packets)
      BY <1>3, HeadTailProperties
    <2> QED BY <1>1, <1>4, <2>1
  \* The requests that are left are old ones, and not the erased one.
  <1>10. ASSUME NEW s \in Requestors, NEW l \in 1..Len(reqQ'[s])
         PROVE  LET o == IF s = r /\ l >= k THEN l + 1 ELSE l
                IN  o \in 1..Len(reqQ[s]) /\ reqQ'[s][l] = reqQ[s][o] /\ (s = r => o # k) /\ l \in Nat
    <2>1. CASE s = r
      <3>1. reqQ'[s] = RemoveAt(reqQ[r], k)
        BY <1>1, <1>2, <1>4, <2>1
      <3> QED BY SMTT(30), <1>3, <1>6, <2>1, <3>1
    <2>2. CASE s # r
      <3>1. reqQ'[s] = reqQ[s] /\ Len(reqQ[s]) \in Nat
        BY <1>1, <1>4, <2>2, LenProperties
      <3> QED BY <2>2, <3>1
    <2> QED BY <2>1, <2>2
  <1>11. Identities'
    <2>1. Identities
      BY DEF Inv
    <2>2. ASSUME NEW s \in Requestors, NEW u \in Requestors, NEW l \in 1..Len(reqQ'[s]),
                 NEW m \in 1..Len(reqQ'[u]), reqQ'[s][l].id = reqQ'[u][m].id
          PROVE  s = u /\ l = m
      <3> DEFINE o == IF s = r /\ l >= k THEN l + 1 ELSE l
                 p == IF u = r /\ m >= k THEN m + 1 ELSE m
      <3>1. o \in 1..Len(reqQ[s]) /\ reqQ'[s][l] = reqQ[s][o] /\ (s = r => o # k) /\ l \in Nat
        BY <1>10
      <3>2. p \in 1..Len(reqQ[u]) /\ reqQ'[u][m] = reqQ[u][p] /\ (u = r => p # k) /\ m \in Nat
        BY <1>10
      <3> HIDE DEF o, p
      <3>3. s = u /\ o = p
        BY <2>1, <2>2, <3>1, <3>2 DEF Identities
      <3> QED BY <1>3, <3>1, <3>2, <3>3 DEF o, p
    <2>3. ASSUME NEW s \in Requestors, NEW l \in 1..Len(reqQ'[s])
          PROVE  reqQ'[s][l].id # c.req.id
      <3> DEFINE o == IF s = r /\ l >= k THEN l + 1 ELSE l
      <3>1. o \in 1..Len(reqQ[s]) /\ reqQ'[s][l] = reqQ[s][o] /\ (s = r => o # k)
        BY <1>10
      <3> HIDE DEF o
      <3> QED BY <1>2, <2>1, <3>1 DEF Identities
    <2> QED BY <2>2, <2>3 DEF Identities
  <1>12. Banks'
    <2>1. ASSUME NEW s \in Requestors
          PROVE  /\ Bank(s, reqQ'[s], hpIdx[s], rowTable'[s], openRow[s], hpQ'[s], rtQ'[s])
                 /\ orderSize[s] <= s => rtQ'[s] = <<>>
      <3>1. /\ Bank(s, reqQ[s], hpIdx[s], rowTable[s], openRow[s], hpQ[s], rtQ[s])
            /\ orderSize[s] <= s => rtQ[s] = <<>>
        BY DEF Inv, Banks
      <3>2. CASE s = r
        <4>1. /\ reqQ'[s] = RemoveAt(reqQ[r], k) /\ rowTable'[s] = RowOf[reqQ[r][k].addr]
              /\ hpQ'[s] = Tail(hpQ[r]) /\ rtQ'[s] = t2
          BY <1>1, <1>2, <1>4, <3>2
        <4> QED BY <1>3, <3>1, <3>2, <4>1
      <3>3. CASE s # r
        <4>1. /\ reqQ'[s] = reqQ[s] /\ rowTable'[s] = rowTable[s]
              /\ hpQ'[s] = hpQ[s] /\ rtQ'[s] = rtQ[s]
          BY <1>1, <1>4, <1>8, <3>3
        <4> QED BY <3>1, <4>1
      <3> QED BY <3>2, <3>3
    <2> QED BY <2>1 DEF Banks
  <1>13. Decision'
    <2>1. c.type \in CAS /\ openRow'[c.requestor] = RowOf[c.req.addr]
      OBVIOUS
    <2>2. DecidedFits'
      BY <2>1 DEF DecidedFits
    <2> QED BY <2>2 DEF Decision
  <1>14. Order' \in Seq(Requestors) /\ deadline_set_flag' \in [Requestors -> BOOLEAN] /\ Deadlines'
    <2>1. /\ Deadlines /\ \A s \in Requestors : deadline_set_flag[s] <=> Occurs(s, Order)
          /\ OnceEach(Order) /\ \A s \in Requestors : deadline_set_flag[s] => rtQ[s] # <<>>
      BY DEF Inv, Deadlines
    <2>2. CASE dt
      <3>1. /\ Order' = RemoveFirst(Order, r)
            /\ deadline_set_flag' = [deadline_set_flag EXCEPT ![r] = FALSE]
        BY <1>3, <1>4, <2>2 DEF EndDeadline
      <3>2. PICK m \in 1..Len(Order) : Order[m] = r
        BY <1>2, <1>3, <2>1 DEF Occurs
      <3>3. Order' = RemoveAt(Order, m)
        BY <1>1, <2>1, <3>1, <3>2, RemoveFirstProperties
      <3>4. /\ Order' \in Seq(Requestors) /\ OnceEach(Order')
            /\ \A x : Occurs(x, Order') <=> Occurs(x, Order) /\ x # Order[m]
        BY SMTT(30), <1>1, <2>1, <3>2, <3>3, WithoutOne
      <3>5. deadline_set_flag' \in [Requestors -> BOOLEAN]
        BY <1>1, <3>1
      <3>6. ASSUME NEW s \in Requestors
            PROVE  /\ deadline_set_flag'[s] <=> Occurs(s, Order')
                   /\ deadline_set_flag'[s] => rtQ'[s] # <<>>
        <4>1. deadline_set_flag'[s] <=> deadline_set_flag[s] /\ s # r
          BY <1>1, <3>1
        <4> QED BY <1>8, <2>1, <3>2, <3>4, <4>1
      <3> QED BY <3>4, <3>5, <3>6 DEF Deadlines
    <2>3. CASE ~dt
      <3>1. Order' = Order /\ deadline_set_flag' = deadline_set_flag /\ rtQ' = rtQ
        BY <1>3, <1>4, <2>3 DEF EndDeadline
      <3> QED BY <1>1, <2>1, <3>1 DEF Deadlines
    <2> QED BY <2>2, <2>3
  <1>15. fault' \in BOOLEAN
    BY <1>4
  <1> QED BY <1>2, <1>4, <1>5, <1>7, <1>8, <1>9, <1>11, <1>12, <1>13, <1>14, <1>15

LEMMA DecideHPAInv ==
    ASSUME Inv, DecideHPA
    PROVE  Inv' /\ Choice
  <1>1. /\ phase = "decide" /\ phase' = "idle" /\ mode' = "HPA"
        /\ orderSize' = orderSize /\ hpIdx' = hpIdx /\ rtIdx' = rtIdx
        /\ service_deadline' = service_deadline /\ registerIndex' = registerIndex
        /\ sent' = sent /\ openRow' = openRow /\ workload' = workload
    BY DEF DecideHPA
  <1>2. TypeOK /\ Identities /\ Banks /\ Deadlines /\ Registers /\ Unreferenced /\ ~fault
    BY DEF Inv
  <1>3. PICK c \in {HeadOf(hpQ[r]) : r \in Requestors} \cup {NoPacket} :
            /\ decided' = c
            /\ IF c # NoPacket /\ c.type \in CAS
               THEN BookCAS(c, hpIdx[c.requestor], TRUE, Same(c, returnOldest(c.requestor)))
               ELSE NoBooking /\ UNCHANGED hpQ
    BY DEF DecideHPA
  \* RTA's registers are empty from here on.
  <1>4. /\ commandRegisters' = <<>> /\ \A r \in Requestors : ~queuePending'[r]
        /\ queuePending' \in [Requestors -> BOOLEAN] /\ servedFlags' \in [Requestors -> BOOLEAN]
        /\ roundType' \in CAS
    <2>1. CASE mode = "RTA"
      BY <2>1 DEF DecideHPA, ClearRegisters, CAS
    <2>2. CASE mode # "RTA"
      <3>1. /\ commandRegisters' = commandRegisters /\ queuePending' = queuePending
            /\ servedFlags' = servedFlags /\ roundType' = roundType
        BY <2>2 DEF DecideHPA
      <3>2. commandRegisters = <<>>
        BY <1>2, <2>2 DEF TypeOK, Registers
      <3>3. Len(commandRegisters) = 0 /\ 1..0 = {}
        BY <3>2
      <3>4. \A r \in Requestors : ~queuePending[r]
        BY <1>2, <3>3 DEF Registers
      <3> QED BY <1>2, <3>1, <3>2, <3>4 DEF TypeOK
    <2> QED BY <2>1, <2>2
  <1>5. Registers'
    <2>1. Len(commandRegisters') = 0 /\ 1..0 = {}
      BY <1>4
    <2> QED BY <1>1, <1>4, <2>1 DEF Registers
  <1>6. c = NoPacket \/ \E r \in Requestors : hpQ[r] # <<>> /\ c = hpQ[r][1] /\ c \in Packets
    BY <1>1, BothFilled DEF HeadOf
  <1>7. Len(<<>>) = 0 /\ 1..0 = {}
    OBVIOUS
  <1>8. CASE c = NoPacket \/ c.type \notin CAS
    <2>1. /\ rowTable' = rowTable /\ Order' = Order /\ deadline_set_flag' = deadline_set_flag
          /\ rtQ' = rtQ /\ reqQ' = reqQ /\ fault' = fault /\ hpQ' = hpQ
      BY <1>3, <1>8 DEF NoBooking
    <2>2. TypeOK'
      BY <1>1, <1>2, <1>3, <1>4, <1>6, <2>1 DEF TypeOK
    <2>3. Identities'
      BY <1>2, <1>3, <1>8, <2>1 DEF Identities
    <2>4. Banks'
      BY <1>1, <1>2, <2>1 DEF Banks
    <2>5. Decision'
      <3> SUFFICES ASSUME c # NoPacket PROVE DecidedFits'
        BY <1>1, <1>3 DEF Decision
      <3>1. PICK r \in Requestors : hpQ[r] # <<>> /\ c = hpQ[r][1] /\ c \in Packets
        BY <1>6
      <3>2. /\ reqQ[r] \in Seq(Requests) /\ hpQ[r] \in Seq(Packets) /\ rtQ[r] \in Seq(Packets)
            /\ Bank(r, reqQ[r], hpIdx[r], rowTable[r], openRow[r], hpQ[r], rtQ[r])
            /\ rtQ[r] # <<>>
        BY <1>1, <3>1, BothFilled
      <3>3. /\ c.requestor = r /\ c.req = reqQ[r][1]
            /\ \/ /\ c.type = "PRE"
                  /\ Closing(r, reqQ[r], hpIdx[r], rowTable[r], openRow[r], hpQ[r], rtQ[r])
               \/ /\ c.type = "ACT"
                  /\ RowClosed(r, reqQ[r], hpIdx[r], openRow[r], hpQ[r], rtQ[r])
        BY <1>8, <3>1, <3>2, RowOfHPA
      <3> QED BY <1>1, <1>3, <2>1, <3>3 DEF DecidedFits
    <2>6. Deadlines'
      BY <1>1, <1>2, <2>1 DEF Deadlines
    <2>7. Unreferenced'
      <3>1. sent # NoPacket => sent # c
        <4> SUFFICES ASSUME sent # NoPacket, c # NoPacket PROVE sent # c
          OBVIOUS
        <4>1. PICK r \in Requestors : hpQ[r] # <<>> /\ c = hpQ[r][1]
          BY <1>6
        <4>2. 1 \in 1..Len(hpQ[r])
          BY <1>1, <4>1, BothFilled
        <4> QED BY <1>2, <4>1, <4>2 DEF Unreferenced
      <3> QED BY <1>1, <1>2, <1>3, <1>4, <1>7, <2>1, <3>1 DEF Unreferenced
    <2>8. Choice
      BY <1>3, <1>8, <2>1 DEF Choice
    <2> QED BY <1>2, <1>5, <2>1, <2>2, <2>3, <2>4, <2>5, <2>6, <2>7, <2>8 DEF Inv
  <1>9. CASE c # NoPacket /\ c.type \in CAS
    <2>1. PICK r \in Requestors : hpQ[r] # <<>> /\ c = hpQ[r][1] /\ c \in Packets
      BY <1>6, <1>9
    <2>2. /\ reqQ[r] \in Seq(Requests) /\ hpQ[r] \in Seq(Packets) /\ rtQ[r] \in Seq(Packets)
          /\ Bank(r, reqQ[r], hpIdx[r], rowTable[r], openRow[r], hpQ[r], rtQ[r])
          /\ rtQ[r] # <<>> /\ returnOldest(r) = rtQ[r][1] /\ 1 \in 1..Len(hpQ[r])
      BY <1>1, <2>1, BothFilled DEF returnOldest
    <2> DEFINE k == hpIdx[r]
               t2 == IF Same(c, rtQ[r][1]) THEN Tail(rtQ[r]) ELSE rtQ[r]
    <2>3. /\ k \in 1..Len(reqQ[r]) /\ c.req = reqQ[r][k] /\ c.requestor = r
          /\ FirstFor(reqQ[r], k)
          /\ openRow[r] = RowOf[reqQ[r][k].addr] /\ Tail(hpQ[r]) = <<>>
          /\ Same(c, rtQ[r][1]) => t2 = <<>>
          /\ Bank(r, RemoveAt(reqQ[r], k), k, RowOf[reqQ[r][k].addr], openRow[r], Tail(hpQ[r]), t2)
      <3>1. hpQ[r][1].type \in CAS /\ c = hpQ[r][1] /\ hpQ[r] # <<>>
        BY <1>9, <2>1
      <3>2. t2 = IF Same(hpQ[r][1], rtQ[r][1]) THEN Tail(rtQ[r]) ELSE rtQ[r]
        BY <3>1
      <3> HIDE DEF t2, k
      <3>3. Bank(r, reqQ[r], k, rowTable[r], openRow[r], hpQ[r], rtQ[r])
        BY <2>2 DEF k
      <3>4. ServesHP(r, reqQ[r], k, openRow[r], hpQ[r], rtQ[r])
        BY <2>2, <3>1, <3>3, ColumnOfHPA
      <3> QED BY <3>1, <3>2, <3>4 DEF ServesHP
    <2>4. c \in Packets /\ hpQ[r] # <<>> /\ c.type \in CAS /\ decided' = c
      BY <1>3, <1>9, <2>1
    <2>5. BookCAS(c, k, TRUE, Same(c, rtQ[r][1]))
      BY <1>3, <1>9, <2>2, <2>3
    <2>6. /\ updateRowTable(c) /\ EndDeadline(c) /\ removeRequest(r, k)
          /\ hpQ' = [hpQ EXCEPT ![r] = Tail(hpQ[r])]
          /\ rtQ' = IF Same(c, rtQ[r][1]) THEN [rtQ EXCEPT ![r] = Tail(rtQ[r])] ELSE rtQ
          /\ fault' = (fault \/ k > Len(reqQ[r]) \/ rtQ[r] = <<>>)
      BY <2>3, <2>5 DEF BookCAS, removeCommand
    <2>7. t2 = IF Same(c, rtQ[r][1]) THEN Tail(rtQ[r]) ELSE rtQ[r]
      OBVIOUS
    <2> HIDE DEF t2, k
    <2>8. /\ reqQ' \in [Requestors -> Seq(Requests)] /\ rowTable' \in [Requestors -> Rows]
          /\ hpQ' \in [Requestors -> Seq(Packets)] /\ rtQ' \in [Requestors -> Seq(Packets)]
          /\ Order' \in Seq(Requestors) /\ deadline_set_flag' \in [Requestors -> BOOLEAN]
          /\ Identities' /\ Banks' /\ Decision' /\ Deadlines' /\ ~fault'
          /\ \A s \in Requestors \ {r} : hpQ'[s] = hpQ[s] /\ rtQ'[s] = rtQ[s]
          /\ hpQ'[r] = Tail(hpQ[r]) /\ rtQ'[r] = t2 /\ fault' \in BOOLEAN
      <3>1. Bank(r, RemoveAt(reqQ[r], k), hpIdx[r], RowOf[reqQ[r][k].addr], openRow[r],
                 Tail(hpQ[r]), t2)
        BY <2>3 DEF k
      <3> QED BY <1>1, <2>3, <2>4, <2>6, <2>7, <3>1, Booked
    <2>10. TypeOK'
      <3>1. decided' \in Packets \cup {NoPacket} /\ commandRegisters' \in Seq(Packets)
        BY <1>4, <2>4
      <3>2. mode' \in {"HPA", "RTA"} /\ phase' \in {"idle", "send", "decide"}
        BY <1>1
      <3> QED BY <1>1, <1>2, <1>4, <2>8, <3>1, <3>2 DEF TypeOK
    <2>11. Unreferenced'
      <3> SUFFICES ASSUME sent # NoPacket PROVE Unreferenced'
        BY <1>1 DEF Unreferenced
      <3>1. /\ \A s \in Requestors : /\ \A i \in 1..Len(hpQ[s]) : hpQ[s][i] # sent
                                     /\ \A i \in 1..Len(rtQ[s]) : rtQ[s][i] # sent
        BY <1>2 DEF Unreferenced
      <3>2. sent # c
        BY <2>1, <2>2, <3>1
      <3>3. hpQ'[r] = <<>> /\ (rtQ'[r] = <<>> \/ rtQ'[r] = rtQ[r])
        BY <2>3, <2>7, <2>8
      <3>4. ASSUME NEW s \in Requestors
            PROVE  /\ \A i \in 1..Len(hpQ'[s]) : hpQ'[s][i] # sent
                   /\ \A i \in 1..Len(rtQ'[s]) : rtQ'[s][i] # sent
        <4>1. hpQ'[s] = <<>> \/ hpQ'[s] = hpQ[s]
          BY <2>8, <3>3
        <4>2. rtQ'[s] = <<>> \/ rtQ'[s] = rtQ[s]
          BY <2>8, <3>3
        <4> QED BY <1>7, <3>1, <4>1, <4>2
      <3> QED BY <1>1, <1>4, <1>7, <2>4, <3>2, <3>4 DEF Unreferenced
    <2>12. Choice
      <3>1. k <= Len(reqQ[r])
        BY <2>2, <2>3, LenProperties
      <3>2. reqQ' = [reqQ EXCEPT ![r] = RemoveAt(reqQ[r], k)]
        BY <2>6, <3>1 DEF removeRequest
      <3> QED BY <1>9, <2>3, <2>4, <3>2 DEF Choice
    <2> QED BY <1>5, <2>8, <2>10, <2>11, <2>12 DEF Inv
  <1> QED BY <1>8, <1>9

\* The registers hold the heads of the real-time queues of the requestors in R, each once.
Current(regs, R) ==
    /\ regs \in Seq(Packets)
    /\ \A i, j \in 1..Len(regs) : regs[i].requestor = regs[j].requestor => i = j
    /\ \A r \in Requestors : r \in R <=> \E k \in 1..Len(regs) : regs[k].requestor = r
    /\ \A k \in 1..Len(regs) :
            /\ regs[k].requestor \in Requestors
            /\ rtQ[regs[k].requestor] # <<>> /\ regs[k] = rtQ[regs[k].requestor][1]

\* What RTA registers.
LEMMA Registering ==
    ASSUME Inv, phase = "decide",
           NEW ready \in SUBSET {r \in Requestors : rtQ[r] # <<>> /\ ~queuePending[r]}
    PROVE  Current(Registered(ready), {r \in Requestors : queuePending[r] \/ r \in ready})
  <1> DEFINE old == commandRegisters
             new == Ascending(ready)
             heads == [k \in DOMAIN new |-> returnOldest(new[k])]
             regs == Registered(ready)
  <1>1. regs = old \o heads
    BY DEF Registered
  <1>2. old \in Seq(Packets) /\ Registers /\ decided = NoPacket
    BY DEF Inv, TypeOK, Decision
  <1>3. \A k \in 1..Len(old) :
            /\ old[k].requestor \in Requestors
            /\ rtQ[old[k].requestor] # <<>> /\ old[k] = rtQ[old[k].requestor][1]
    <2>1. \A k \in 1..Len(old) : old[k] \in Packets
      BY <1>2, ElementOfSeq
    <2>2. \A p \in Packets : p.requestor \in Requestors
      BY DEF Packets
    <2> QED BY <1>2, <2>1, <2>2 DEF Registers
  <1>4. /\ new \in Seq(ready) /\ OnceEach(new)
        /\ \A x : Occurs(x, new) <=> x \in ready
    BY AscendingProperties
  <1>5. ASSUME NEW r \in ready
        PROVE  /\ r \in Requestors /\ rtQ[r] # <<>> /\ ~queuePending[r]
               /\ returnOldest(r) = rtQ[r][1] /\ rtQ[r][1] \in Packets /\ rtQ[r][1].requestor = r
    <2>1. r \in Requestors /\ rtQ[r] # <<>> /\ ~queuePending[r]
      OBVIOUS
    <2>2. /\ reqQ[r] \in Seq(Requests)
          /\ Bank(r, reqQ[r], hpIdx[r], rowTable[r], openRow[r], hpQ[r], rtQ[r])
          /\ 1 \in 1..Len(rtQ[r]) /\ rtQ[r][1] \in Packets /\ HeadOf(rtQ[r]) = rtQ[r][1]
      BY <2>1, BothFilled
    <2>3. Belongs(rtQ[r], r, reqQ[r])
      BY <2>2, BankPackets
    <2> QED BY <2>1, <2>2, <2>3 DEF Belongs, returnOldest
  <1>6. DOMAIN new = 1..Len(new) /\ Len(new) \in Nat /\ \A i \in 1..Len(new) : new[i] \in ready
    BY <1>4, LenProperties, ElementOfSeq
  <1>7. /\ heads \in Seq(Packets) /\ Len(heads) = Len(new)
        /\ \A i \in 1..Len(new) : heads[i] = rtQ[new[i]][1]
    <2>1. heads = [k \in 1..Len(new) |-> returnOldest(new[k])]
      BY <1>6
    <2>2. \A k \in 1..Len(new) : returnOldest(new[k]) \in Packets /\ returnOldest(new[k]) = rtQ[new[k]][1]
      BY <1>5, <1>6
    <2> HIDE DEF new, heads
    <2> QED BY <1>6, <2>1, <2>2
  <1> HIDE DEF old, new, heads, regs
  <1>8. /\ regs \in Seq(Packets) /\ Len(regs) = Len(old) + Len(new) /\ Len(old) \in Nat
        /\ \A i \in 1..(Len(old) + Len(new)) :
                regs[i] = IF i <= Len(old) THEN old[i] ELSE heads[i - Len(old)]
    <2>1. old \in Seq(Packets) /\ heads \in Seq(Packets) /\ Len(heads) = Len(new)
      BY <1>2, <1>7
    <2>2. /\ old \o heads \in Seq(Packets) /\ Len(old \o heads) = Len(old) + Len(heads)
          /\ \A i \in 1..(Len(old) + Len(heads)) :
                (old \o heads)[i] = IF i <= Len(old) THEN old[i] ELSE heads[i - Len(old)]
      BY <2>1, ConcatProperties
    <2> QED BY <1>1, <2>1, <2>2, LenProperties
  <1>9. ASSUME NEW i \in 1..Len(regs)
        PROVE  /\ regs[i].requestor \in Requestors
               /\ rtQ[regs[i].requestor] # <<>> /\ regs[i] = rtQ[regs[i].requestor][1]
               /\ \/ i \in 1..Len(old) /\ regs[i] = old[i] /\ queuePending[regs[i].requestor]
                  \/ /\ i - Len(old) \in 1..Len(new) /\ i \notin 1..Len(old)
                     /\ regs[i].requestor = new[i - Len(old)]
                     /\ regs[i].requestor \in ready /\ ~queuePending[regs[i].requestor]
    <2>1. CASE i <= Len(old)
      <3>1. i \in 1..Len(old) /\ regs[i] = old[i]
        BY <2>1, <1>6, <1>8
      <3>2. queuePending[old[i].requestor]
        BY <1>2, <1>3, <3>1 DEF Registers, old
      <3> QED BY <1>3, <3>1, <3>2
    <2>2. CASE ~(i <= Len(old))
      <3>1. i - Len(old) \in 1..Len(new) /\ regs[i] = heads[i - Len(old)] /\ i \notin 1..Len(old)
        BY <2>2, <1>6, <1>8
      <3>2. regs[i] = rtQ[new[i - Len(old)]][1] /\ new[i - Len(old)] \in ready
        BY <3>1, <1>6, <1>7
      <3> QED BY <3>1, <3>2, <1>5
    <2> QED BY <2>1, <2>2
  <1>10. ASSUME NEW i \in 1..Len(regs), NEW j \in 1..Len(regs), regs[i].requestor = regs[j].requestor
         PROVE  i = j
    <2>1. CASE queuePending[regs[i].requestor]
      <3>1. /\ i \in 1..Len(old) /\ j \in 1..Len(old)
            /\ old[i].requestor = old[j].requestor
        BY <1>9, <1>10, <2>1
      <3> QED BY <1>2, <3>1 DEF Registers, old
    <2>2. CASE ~queuePending[regs[i].requestor]
      <3>1. /\ i - Len(old) \in 1..Len(new) /\ j - Len(old) \in 1..Len(new)
            /\ new[i - Len(old)] = new[j - Len(old)]
        BY <1>9, <1>10, <2>2
      <3>2. i - Len(old) = j - Len(old)
        BY <1>4, <3>1 DEF OnceEach
      <3> QED BY <1>6, <1>8, <3>2
    <2> QED BY <2>1, <2>2
  <1>11. ASSUME NEW r \in Requestors
         PROVE  (queuePending[r] \/ r \in ready) <=> \E k \in 1..Len(regs) : regs[k].requestor = r
    <2>1. ASSUME queuePending[r] PROVE \E k \in 1..Len(regs) : regs[k].requestor = r
      <3>1. PICK k \in 1..Len(old) : old[k].requestor = r
        BY <1>2, <2>1 DEF Registers, old
      <3>2. k \in 1..Len(regs) /\ regs[k] = old[k]
        BY <1>6, <1>8
      <3> QED BY <3>1, <3>2
    <2>2. ASSUME r \in ready PROVE \E k \in 1..Len(regs) : regs[k].requestor = r
      <3>1. PICK i \in 1..Len(new) : new[i] = r
        BY <1>4, <2>2 DEF Occurs
      <3>2. Len(old) + i \in 1..Len(regs) /\ ~(Len(old) + i <= Len(old)) /\ (Len(old) + i) - Len(old) = i
        BY <1>6, <1>8
      <3>3. regs[Len(old) + i] = rtQ[r][1]
        BY <1>6, <1>7, <1>8, <3>1, <3>2
      <3> QED BY <1>5, <2>2, <3>2, <3>3
    <2>3. ASSUME NEW k \in 1..Len(regs), regs[k].requestor = r PROVE queuePending[r] \/ r \in ready
      BY <1>9, <2>3
    <2> QED BY <2>1, <2>2, <2>3
  <1> QED BY <1>8, <1>9, <1>10, <1>11 DEF Current, regs

\* Arbitration chooses a register, or none.
LEMMA Arbitrated ==
    ASSUME Inv, NEW regs, NEW issuable \in SUBSET (1..Len(regs)), Len(regs) \in Nat,
           NEW flags \in [Requestors -> BOOLEAN], NEW type
    PROVE  /\ Arbitrate(regs, issuable, flags, type).index \in {0} \cup 1..Len(regs)
           /\ Arbitrate(regs, issuable, flags, type).flags \in [Requestors -> BOOLEAN]
  <1> DEFINE listed == {k \in issuable : regs[k].requestor \in ToSet(Order)}
             inRound == {k \in listed : regs[k].type = type /\ ~flags[regs[k].requestor]}
             oldest == {k \in inRound : Same(regs[k], returnOldest(regs[k].requestor))}
             act == {k \in listed : regs[k].type = "ACT"}
             pre == {k \in listed : regs[k].type = "PRE"}
             places == [k \in listed |-> Place(regs[k])]
  <1>1. DOMAIN Order = 1..Len(Order) /\ Len(Order) \in Nat
    BY LenProperties DEF Inv, TypeOK
  <1>2. ASSUME NEW k \in listed PROVE Place(regs[k]) \in 1..Len(Order)
    <2>1. \E n \in 1..Len(Order) : Order[n] = regs[k].requestor
      BY <1>1 DEF ToSet
    <2> QED BY <2>1 DEF Place
  <1>3. ASSUME NEW ks \in SUBSET listed, ks # {} PROVE FirstOf(regs, ks) \in ks
    <2>1. {Place(regs[k]) : k \in ks} \subseteq Nat /\ {Place(regs[k]) : k \in ks} # {}
      <3>1. \A k \in ks : Place(regs[k]) \in Nat
        BY <1>1, <1>2
      <3> QED BY <1>3, <3>1
    <2>2. \E x \in {Place(regs[k]) : k \in ks} : \A y \in {Place(regs[k]) : k \in ks} : x <= y
      BY <2>1, Least
    <2>3. \E k \in ks : \A j \in ks : Place(regs[k]) <= Place(regs[j])
      BY <2>2
    <2> QED BY <2>3 DEF FirstOf
  <1>4. ASSUME NEW ks \in SUBSET listed, ks # {} PROVE LastOf(regs, ks) \in ks
    <2> DEFINE before(k) == Len(Order) - Place(regs[k])
    <2>1. \A k \in ks : before(k) \in Nat /\ Place(regs[k]) \in Nat
      BY <1>1, <1>2
    <2>2. {before(k) : k \in ks} \subseteq Nat /\ {before(k) : k \in ks} # {}
      BY <1>4, <2>1
    <2>3. \E x \in {before(k) : k \in ks} : \A y \in {before(k) : k \in ks} : x <= y
      <3> HIDE DEF before
      <3> QED BY <2>2, Least
    <2>4. PICK k \in ks : \A j \in ks : before(k) <= before(j)
      BY <2>3
    <2>5. \A j \in ks : Place(regs[k]) >= Place(regs[j])
      BY <1>1, <2>1, <2>4
    <2> QED BY <2>5 DEF LastOf
  <1>5. /\ listed \subseteq 1..Len(regs) /\ inRound \in SUBSET listed /\ oldest \in SUBSET listed
        /\ act \in SUBSET listed /\ pre \in SUBSET listed
    OBVIOUS
  <1>6. [r \in Requestors |-> FALSE] \in [Requestors -> BOOLEAN]
    OBVIOUS
  <1> DEFINE result == Arbitrate(regs, issuable, flags, type)
  <1>7. \/ \E ks \in SUBSET listed : ks # {} /\ result.index \in {FirstOf(regs, ks), LastOf(regs, ks)}
        \/ result.index = 0
    <2>1. CASE oldest # {}
      <3>1. result.index = FirstOf(regs, oldest)
        BY <2>1 DEF Arbitrate
      <3> HIDE DEF result
      <3> QED BY <1>5, <2>1, <3>1
    <2>2. CASE oldest = {} /\ inRound # {}
      <3>1. result.index = FirstOf(regs, inRound)
        BY <2>2 DEF Arbitrate
      <3> HIDE DEF result
      <3> QED BY <1>5, <2>2, <3>1
    <2>3. CASE inRound = {} /\ act # {}
      <3>1. oldest = {}
        BY <2>3
      <3>2. result.index = LastOf(regs, act)
        BY <2>3, <3>1 DEF Arbitrate
      <3> HIDE DEF result
      <3> QED BY <1>5, <2>3, <3>2
    <2>4. CASE inRound = {} /\ act = {} /\ pre # {}
      <3>1. oldest = {}
        BY <2>4
      <3>2. result.index = LastOf(regs, pre)
        BY <2>4, <3>1 DEF Arbitrate
      <3> HIDE DEF result
      <3> QED BY <1>5, <2>4, <3>2
    <2>5. CASE inRound = {} /\ act = {} /\ pre = {}
      <3>1. oldest = {}
        BY <2>5
      <3>2. result.index = 0
        BY <2>5, <3>1 DEF Arbitrate
      <3> QED BY <3>2
    <2> QED BY <2>1, <2>2, <2>3, <2>4, <2>5
  <1>8. result.flags \in {flags, [r \in Requestors |-> FALSE]}
    BY DEF Arbitrate
  <1> HIDE DEF result, listed
  <1>9. result.index \in {0} \cup 1..Len(regs)
    BY <1>3, <1>4, <1>5, <1>7
  <1> QED BY <1>6, <1>8, <1>9 DEF result

\* The queues of a requestor whose row both schedulers agree to close.
LEMMA ClosingIsBank ==
    ASSUME NEW r, NEW Q, NEW k, NEW T, NEW O, NEW h, NEW t, Closing(r, Q, k, T, O, h, t)
    PROVE  Bank(r, Q, k, T, O, h, t)
  BY QueueShapes DEF Closing, Bank, Settled, SettledRT, SettledHP

\* What the real-time scheduler does with the registers and the one that is chosen.
TakesRTA(ready, regs, chosen) ==
    LET k == chosen.index
        c == IF k = 0 THEN NoPacket ELSE regs[k]
    IN  /\ commandRegisters' = regs
        /\ queuePending' = [r \in Requestors |-> queuePending[r] \/ r \in ready]
        /\ servedFlags' = chosen.flags
        /\ roundType' = RoundType(regs)
        /\ decided' = c
        /\ registerIndex' = IF k = 0 THEN 1 ELSE k
        /\ IF k # 0 /\ c.type \in CAS
           THEN /\ BookCAS(c, rtIdx[c.requestor], Same(c, HeadOf(hpQ[c.requestor])), TRUE)
                /\ UNCHANGED hpIdx
           ELSE /\ NoBooking
                /\ IF k # 0 /\ c.type = "PRE"
                   THEN SyncHP(c)
                   ELSE UNCHANGED <<hpQ, hpIdx>>

LEMMA DecideRTAInv ==
    ASSUME Inv, DecideRTA
    PROVE  Inv' /\ Choice
  <1>1. /\ phase = "decide" /\ phase' = "idle" /\ mode' = "RTA"
        /\ orderSize' = orderSize /\ rtIdx' = rtIdx /\ service_deadline' = service_deadline
        /\ sent' = sent /\ openRow' = openRow /\ workload' = workload
    BY DEF DecideRTA
  <1>2. TypeOK /\ Identities /\ Banks /\ Deadlines /\ Unreferenced /\ ~fault
    BY DEF Inv
  <1>3. PICK ready \in SUBSET {r \in Requestors : rtQ[r] # <<>> /\ ~queuePending[r]} :
            \E regs \in {Registered(ready)} :
            \E issuable \in SUBSET (1..Len(regs)) :
            \E chosen \in {Arbitrate(regs, issuable, RoundFlags(regs), RoundType(regs))} :
                TakesRTA(ready, regs, chosen)
    BY DEF DecideRTA, TakesRTA
  <1> DEFINE regs == Registered(ready)
  <1>4. Current(regs, {r \in Requestors : queuePending[r] \/ r \in ready})
    BY <1>1, Registering
  <1> HIDE DEF regs
  <1>5. PICK issuable \in SUBSET (1..Len(regs)) :
            TakesRTA(ready, regs,
                     Arbitrate(regs, issuable, RoundFlags(regs), RoundType(regs)))
    BY <1>3 DEF regs
  <1> DEFINE chosen == Arbitrate(regs, issuable, RoundFlags(regs), RoundType(regs))
             k == chosen.index
             c == IF k = 0 THEN NoPacket ELSE regs[k]
  <1>6. /\ commandRegisters' = regs /\ decided' = c /\ registerIndex' = IF k = 0 THEN 1 ELSE k
        /\ queuePending' = [r \in Requestors |-> queuePending[r] \/ r \in ready]
        /\ servedFlags' = chosen.flags /\ roundType' = RoundType(regs)
    BY <1>5 DEF TakesRTA
  <1>7. k # 0 /\ c.type \in CAS =>
            /\ BookCAS(c, rtIdx[c.requestor], Same(c, HeadOf(hpQ[c.requestor])), TRUE)
            /\ hpIdx' = hpIdx
    BY <1>5 DEF TakesRTA
  <1>8. ~(k # 0 /\ c.type \in CAS) =>
            /\ NoBooking
            /\ IF k # 0 /\ c.type = "PRE" THEN SyncHP(c) ELSE hpQ' = hpQ /\ hpIdx' = hpIdx
    BY <1>5 DEF TakesRTA
  <1>9. Len(regs) \in Nat /\ regs \in Seq(Packets)
    BY <1>4, LenProperties DEF Current
  <1>10. k \in {0} \cup 1..Len(regs) /\ chosen.flags \in [Requestors -> BOOLEAN]
    <2>1. RoundFlags(regs) \in [Requestors -> BOOLEAN]
      BY <1>2 DEF RoundFlags, TypeOK
    <2> QED BY <1>9, <2>1, Arbitrated
  <1>11. RoundType(regs) \in CAS
    <2>1. roundType \in CAS /\ \E t \in CAS : t # roundType
      BY <1>2 DEF TypeOK, CAS
    <2> QED BY <2>1 DEF RoundType
  <1> HIDE DEF chosen, k, c
  \* What is chosen heads the real-time queue of its requestor.
  <1>12. /\ k = 0 => c = NoPacket
         /\ k # 0 => /\ k \in 1..Len(regs) /\ c = regs[k] /\ c \in Packets /\ c # NoPacket
                     /\ c.requestor \in Requestors /\ rtQ[c.requestor] # <<>>
                     /\ c = rtQ[c.requestor][1]
    <2>1. CASE k = 0
      BY <2>1 DEF c
    <2>2. CASE k # 0
      <3>1. k \in 1..Len(regs) /\ c = regs[k]
        BY <1>10, <2>2 DEF c
      <3>2. c \in Packets
        BY <1>9, <3>1, ElementOfSeq
      <3> QED BY <1>4, <2>2, <3>1, <3>2, CommandTypes DEF Current
    <2> QED BY <2>1, <2>2
  <1>13. /\ queuePending' \in [Requestors -> BOOLEAN] /\ servedFlags' \in [Requestors -> BOOLEAN]
         /\ roundType' \in CAS /\ registerIndex' \in Nat /\ commandRegisters' \in Seq(Packets)
         /\ decided' \in Packets \cup {NoPacket} /\ mode' \in {"HPA", "RTA"}
         /\ phase' \in {"idle", "send", "decide"}
    <2>1. \A r \in Requestors : (queuePending[r] \/ r \in ready) \in BOOLEAN
      OBVIOUS
    <2>2. queuePending' \in [Requestors -> BOOLEAN]
      BY <1>6, <2>1
    <2>3. registerIndex' \in Nat
      BY <1>6, <1>9, <1>10
    <2> QED BY <1>1, <1>6, <1>9, <1>10, <1>11, <1>12, <2>2, <2>3
  <1>14. ASSUME sent # NoPacket
         PROVE  sent # c /\ \A i \in 1..Len(regs) : regs[i] # sent
    <2>1. \A r \in Requestors : rtQ[r] # <<>> => rtQ[r][1] # sent
      BY <1>1, <1>2, <1>14, BothFilled DEF Unreferenced
    <2> QED BY <1>4, <1>12, <1>14, <2>1 DEF Current
  <1>15. ASSUME \A i \in 1..Len(regs) :
                    rtQ'[regs[i].requestor] = rtQ[regs[i].requestor] \/ (c # NoPacket /\ c.type \in CAS /\ i = k)
         PROVE  Registers'
    <2>1. \A r \in Requestors : queuePending'[r] <=> (queuePending[r] \/ r \in ready)
      BY <1>6
    <2>2. /\ \A i, j \in 1..Len(regs) : regs[i].requestor = regs[j].requestor => i = j
          /\ \A r \in Requestors : queuePending'[r] <=> \E i \in 1..Len(regs) : regs[i].requestor = r
      BY <1>4, <2>1 DEF Current
    <2>3. \A i \in 1..Len(regs) :
            \/ rtQ'[regs[i].requestor] # <<>> /\ regs[i] = rtQ'[regs[i].requestor][1]
            \/ decided' # NoPacket /\ decided'.type \in CAS /\ i = registerIndex'
      BY <1>4, <1>6, <1>12, <1>15 DEF Current
    <2>4. decided' # NoPacket => registerIndex' \in 1..Len(regs) /\ regs[registerIndex'] = decided'
      BY <1>6, <1>12
    <2>5. mode' # "HPA"
      BY <1>1
    <2> QED BY <1>6, <2>2, <2>3, <2>4, <2>5 DEF Registers
  <1>16. CASE k # 0 /\ c.type \in CAS
    <2> DEFINE r == c.requestor
    <2>1. c \in Packets /\ r \in Requestors /\ rtQ[r] # <<>> /\ c = rtQ[r][1] /\ c.type \in CAS
      BY <1>12, <1>16
    <2>2. /\ reqQ[r] \in Seq(Requests) /\ hpQ[r] \in Seq(Packets) /\ rtQ[r] \in Seq(Packets)
          /\ Bank(r, reqQ[r], hpIdx[r], rowTable[r], openRow[r], hpQ[r], rtQ[r])
          /\ hpQ[r] # <<>> /\ returnOldest(r) = rtQ[r][1] /\ HeadOf(hpQ[r]) = hpQ[r][1]
          /\ rtIdx[r] = 1
      BY <1>1, <1>2, <2>1, BothFilled DEF returnOldest, TypeOK
    <2>3. rtQ[r][1].type \in CAS
      BY <2>1
    <2>4. ServesRT(r, reqQ[r], hpIdx[r], openRow[r], hpQ[r], rtQ[r])
      BY <2>1, <2>2, <2>3, ColumnOfRTA
    <2>5. /\ 1 \in 1..Len(reqQ[r]) /\ c.req = reqQ[r][1] /\ openRow[r] = RowOf[reqQ[r][1].addr]
          /\ Tail(hpQ[r]) = <<>> /\ Tail(rtQ[r]) = <<>> /\ Same(c, hpQ[r][1])
          /\ Bank(r, RemoveAt(reqQ[r], 1), hpIdx[r], RowOf[reqQ[r][1].addr], openRow[r],
                  Tail(hpQ[r]), Tail(rtQ[r]))
      BY <2>1, <2>4 DEF ServesRT
    <2>6. Same(c, rtQ[r][1])
      BY <2>1, SameHeads
    <2>7. BookCAS(c, 1, Same(c, hpQ[r][1]), TRUE) /\ hpIdx' = hpIdx
      BY <1>7, <1>16, <2>2
    <2>8. /\ updateRowTable(c) /\ EndDeadline(c) /\ removeRequest(r, 1)
          /\ hpQ' = [hpQ EXCEPT ![r] = Tail(hpQ[r])]
          /\ rtQ' = [rtQ EXCEPT ![r] = Tail(rtQ[r])]
          /\ fault' = (fault \/ 1 > Len(reqQ[r]) \/ rtQ[r] = <<>>)
      BY <2>5, <2>7 DEF BookCAS, removeCommand
    <2>9. rtQ' = IF Same(c, rtQ[r][1]) THEN [rtQ EXCEPT ![r] = Tail(rtQ[r])] ELSE rtQ
      BY <2>6, <2>8
    <2> DEFINE t2 == Tail(rtQ[r])
    <2>10. t2 = IF Same(c, rtQ[r][1]) THEN Tail(rtQ[r]) ELSE rtQ[r]
      BY <2>6
    <2>11. t2 = <<>>
      BY <2>5
    <2>12. Bank(r, RemoveAt(reqQ[r], 1), hpIdx[r], RowOf[reqQ[r][1].addr], openRow[r],
                Tail(hpQ[r]), t2)
      BY <2>5
    <2>13. decided' = c /\ hpQ[r] # <<>>
      BY <1>6, <2>2
    <2> HIDE DEF t2
    <2>14. /\ reqQ' \in [Requestors -> Seq(Requests)] /\ rowTable' \in [Requestors -> Rows]
           /\ hpQ' \in [Requestors -> Seq(Packets)] /\ rtQ' \in [Requestors -> Seq(Packets)]
           /\ Order' \in Seq(Requestors) /\ deadline_set_flag' \in [Requestors -> BOOLEAN]
           /\ Identities' /\ Banks' /\ Decision' /\ Deadlines' /\ ~fault'
           /\ \A s \in Requestors \ {r} : hpQ'[s] = hpQ[s] /\ rtQ'[s] = rtQ[s]
           /\ hpQ'[r] = Tail(hpQ[r]) /\ rtQ'[r] = t2 /\ fault' \in BOOLEAN
      <3>1. /\ phase = "decide" /\ phase' = "idle" /\ openRow' = openRow /\ orderSize' = orderSize
        BY <1>1
      <3>2. c \in Packets /\ c.type \in CAS /\ r = c.requestor /\ hpIdx' = hpIdx
        BY <2>1, <2>7
      <3>3. /\ openRow[r] = RowOf[reqQ[r][1].addr] /\ hpQ[r] # <<>> /\ 1 \in 1..Len(reqQ[r])
            /\ c.req = reqQ[r][1]
        BY <2>5, <2>13
      <3>4. t2 = IF Same(c, rtQ[r][1]) THEN Tail(rtQ[r]) ELSE rtQ[r]
        BY <2>10
      <3>5. Same(c, rtQ[r][1]) => t2 = <<>>
        BY <2>11
      <3>6. /\ updateRowTable(c) /\ EndDeadline(c) /\ removeRequest(r, 1)
            /\ hpQ' = [hpQ EXCEPT ![r] = Tail(hpQ[r])]
            /\ fault' = (fault \/ 1 > Len(reqQ[r]) \/ rtQ[r] = <<>>)
        BY <2>8
      <3>7. decided' = c
        BY <2>13
      <3> HIDE DEF c, r
      <3> QED BY ZenonT(60), <3>1, <3>2, <3>3, <3>4, <3>5, <3>6, <3>7, <2>9, <2>12, Booked
    <2>15. TypeOK'
      BY <1>1, <1>2, <1>13, <2>7, <2>14 DEF TypeOK
    <2>16. Registers'
      <3>1. ASSUME NEW i \in 1..Len(regs), i # k
            PROVE  rtQ'[regs[i].requestor] = rtQ[regs[i].requestor]
        <4>1. regs[i].requestor \in Requestors /\ regs[i].requestor # r
          BY <1>4, <1>12, <1>16, <3>1 DEF Current
        <4> QED BY <2>14, <4>1
      <3> QED BY <1>12, <1>15, <1>16, <3>1
    <2>17. Unreferenced'
      <3> SUFFICES ASSUME sent # NoPacket PROVE Unreferenced'
        BY <1>1 DEF Unreferenced
      <3>1. ASSUME NEW s \in Requestors
            PROVE  /\ \A i \in 1..Len(hpQ'[s]) : hpQ'[s][i] # sent
                   /\ \A i \in 1..Len(rtQ'[s]) : rtQ'[s][i] # sent
        <4>1. Len(<<>>) = 0 /\ 1..0 = {}
          OBVIOUS
        <4>2. hpQ'[s] = <<>> \/ hpQ'[s] = hpQ[s]
          BY <2>5, <2>14
        <4>3. rtQ'[s] = <<>> \/ rtQ'[s] = rtQ[s]
          BY <2>11, <2>14
        <4> QED BY <1>2, <4>1, <4>2, <4>3 DEF Unreferenced
      <3> QED BY <1>1, <1>6, <1>14, <3>1 DEF Unreferenced
    <2>18. Choice
      <3>1. FirstFor(reqQ[r], 1)
        BY DEF FirstFor
      <3>2. 1 <= Len(reqQ[r])
        BY <2>2, <2>5, LenProperties
      <3>3. reqQ' = [reqQ EXCEPT ![r] = RemoveAt(reqQ[r], 1)]
        BY <2>8, <3>2 DEF removeRequest
      <3> QED BY <1>12, <1>16, <2>1, <2>5, <2>13, <3>1, <3>3 DEF Choice
    <2> QED BY <2>14, <2>15, <2>16, <2>17, <2>18 DEF Inv
  <1>17. CASE ~(k # 0 /\ c.type \in CAS)
    <2>1. /\ rowTable' = rowTable /\ Order' = Order /\ deadline_set_flag' = deadline_set_flag
          /\ rtQ' = rtQ /\ reqQ' = reqQ /\ fault' = fault
      BY <1>8, <1>17 DEF NoBooking
    <2> DEFINE r == c.requestor
    <2>2. ASSUME k # 0
          PROVE  /\ c \in Packets /\ r \in Requestors /\ rtQ[r] # <<>> /\ c = rtQ[r][1]
                 /\ reqQ[r] \in Seq(Requests) /\ hpQ[r] \in Seq(Packets) /\ rtQ[r] \in Seq(Packets)
                 /\ c.req = reqQ[r][1] /\ rtIdx[r] = 1
                 /\ \/ c.type = "PRE" /\ Closing(r, reqQ[r], 1, rowTable[r], openRow[r], rtQ[r], rtQ[r])
                    \/ /\ c.type = "ACT" /\ c.type # "PRE"
                       /\ RowClosed(r, reqQ[r], hpIdx[r], openRow[r], hpQ[r], rtQ[r])
      <3>1. c \in Packets /\ r \in Requestors /\ rtQ[r] # <<>> /\ c = rtQ[r][1]
        BY <1>12, <2>2
      <3>2. /\ reqQ[r] \in Seq(Requests) /\ hpQ[r] \in Seq(Packets) /\ rtQ[r] \in Seq(Packets)
            /\ Bank(r, reqQ[r], hpIdx[r], rowTable[r], openRow[r], hpQ[r], rtQ[r])
            /\ rtIdx[r] = 1
        BY <1>1, <1>2, <3>1, BothFilled DEF TypeOK
      <3>3. rtQ[r][1].type \notin CAS
        BY <1>17, <2>2, <3>1
      <3> HIDE DEF r
      <3>4. /\ rtQ[r][1].requestor = r /\ rtQ[r][1].req = reqQ[r][1]
            /\ \/ /\ rtQ[r][1].type = "PRE"
                  /\ Closing(r, reqQ[r], 1, rowTable[r], openRow[r], rtQ[r], rtQ[r])
               \/ /\ rtQ[r][1].type = "ACT"
                  /\ RowClosed(r, reqQ[r], hpIdx[r], openRow[r], hpQ[r], rtQ[r])
        BY <3>1, <3>2, <3>3, RowOfRTA
      <3> QED BY <3>1, <3>2, <3>4, CommandTypes
    <2> HIDE DEF r
    \* The other scheduler's queue is brought up to date.
    <2>3. /\ hpQ' \in [Requestors -> Seq(Packets)] /\ hpIdx' \in [Requestors -> Nat]
          /\ \A s \in Requestors : \/ hpQ'[s] = hpQ[s] /\ hpIdx'[s] = hpIdx[s]
                                   \/ /\ k # 0 /\ c.type = "PRE" /\ s = r
                                      /\ hpQ'[s] = rtQ[s] /\ hpIdx'[s] = 1
          /\ k # 0 /\ c.type = "PRE" => hpQ'[r] = rtQ[r] /\ hpIdx'[r] = 1
          /\ k # 0 /\ c.type = "ACT" => hpQ'[r] = hpQ[r] /\ hpIdx'[r] = hpIdx[r]
      <3>1. hpQ \in [Requestors -> Seq(Packets)] /\ hpIdx \in [Requestors -> Nat]
        BY <1>2 DEF TypeOK
      <3>2. CASE k # 0 /\ c.type = "PRE"
        <4>1. hpQ' = [hpQ EXCEPT ![r] = rtQ[r]] /\ hpIdx' = [hpIdx EXCEPT ![r] = 1]
          BY <1>8, <1>17, <2>2, <3>2 DEF SyncHP, syncRequest, r
        <4>2. r \in Requestors /\ rtQ[r] \in Seq(Packets) /\ c.type # "ACT"
          BY <2>2, <3>2, CommandTypes
        <4> QED BY <3>1, <3>2, <4>1, <4>2
      <3>3. CASE ~(k # 0 /\ c.type = "PRE")
        <4>1. hpQ' = hpQ /\ hpIdx' = hpIdx
          BY <1>8, <1>17, <3>3
        <4> QED BY <3>1, <3>3, <4>1
      <3> QED BY <3>2, <3>3
    <2>4. TypeOK'
      BY <1>1, <1>2, <1>13, <2>1, <2>3 DEF TypeOK
    <2>5. Identities'
      <3>1. ~(decided' # NoPacket /\ decided'.type \in CAS)
        BY <1>6, <1>12, <1>17
      <3> QED BY <1>2, <2>1, <3>1 DEF Identities
    <2>6. Banks'
      <3>1. ASSUME NEW s \in Requestors
            PROVE  Bank(s, reqQ[s], hpIdx'[s], rowTable[s], openRow[s], hpQ'[s], rtQ[s])
        <4>1. CASE hpQ'[s] = hpQ[s] /\ hpIdx'[s] = hpIdx[s]
          BY <1>2, <4>1 DEF Banks
        <4>2. CASE k # 0 /\ c.type = "PRE" /\ s = r /\ hpQ'[s] = rtQ[s] /\ hpIdx'[s] = 1
          <5>1. Closing(r, reqQ[r], 1, rowTable[r], openRow[r], rtQ[r], rtQ[r])
            BY <2>2, <4>2, CommandTypes
          <5>2. Bank(r, reqQ[r], 1, rowTable[r], openRow[r], rtQ[r], rtQ[r])
            BY <5>1, ClosingIsBank
          <5> QED BY <4>2, <5>2
        <4> QED BY <2>3, <4>1, <4>2
      <3>2. \A s \in Requestors : orderSize'[s] <= s => rtQ'[s] = <<>>
        BY <1>1, <1>2, <2>1 DEF Banks
      <3> QED BY <1>1, <2>1, <3>1, <3>2 DEF Banks
    <2>7. Decision'
      <3> SUFFICES ASSUME c # NoPacket PROVE DecidedFits'
        BY <1>1, <1>6 DEF Decision
      <3>1. k # 0
        BY <1>12
      <3>2. CASE c.type = "PRE" /\ Closing(r, reqQ[r], 1, rowTable[r], openRow[r], rtQ[r], rtQ[r])
        <4>1. Closing(r, reqQ'[r], hpIdx'[r], rowTable'[r], openRow'[r], hpQ'[r], rtQ'[r])
          BY <1>1, <2>1, <2>3, <3>1, <3>2
        <4> QED BY <1>6, <2>1, <2>2, <3>1, <3>2, <4>1 DEF DecidedFits, r
      <3>3. CASE c.type = "ACT" /\ RowClosed(r, reqQ[r], hpIdx[r], openRow[r], hpQ[r], rtQ[r])
        <4>1. RowClosed(r, reqQ'[r], hpIdx'[r], openRow'[r], hpQ'[r], rtQ'[r])
          BY <1>1, <2>1, <2>3, <3>1, <3>3
        <4> QED BY <1>6, <2>1, <2>2, <3>1, <3>3, <4>1 DEF DecidedFits, r
      <3> QED BY <2>2, <3>1, <3>2, <3>3
    <2>8. Deadlines'
      BY <1>1, <1>2, <2>1 DEF Deadlines
    <2>9. Registers'
      BY <1>15, <2>1
    <2>10. Unreferenced'
      <3> SUFFICES ASSUME sent # NoPacket PROVE Unreferenced'
        BY <1>1 DEF Unreferenced
      <3>1. \A s \in Requestors : hpQ'[s] = hpQ[s] \/ hpQ'[s] = rtQ[s]
        BY <2>3
      <3>2. ASSUME NEW s \in Requestors
            PROVE  /\ \A i \in 1..Len(hpQ'[s]) : hpQ'[s][i] # sent
                   /\ \A i \in 1..Len(rtQ'[s]) : rtQ'[s][i] # sent
        BY <1>2, <2>1, <3>1 DEF Unreferenced
      <3> QED BY <1>1, <1>6, <1>14, <3>2 DEF Unreferenced
    <2>11. Choice
      BY <1>6, <1>12, <1>17, <2>1 DEF Choice
    <2> QED BY <1>2, <2>1, <2>4, <2>5, <2>6, <2>7, <2>8, <2>9, <2>10, <2>11 DEF Inv
  <1> QED BY <1>16, <1>17

--------------------------------------------------------------------------------
(* The theorems. *)

LEMMA Accesses ==
    ASSUME Inv, NEW r \in Requestors, NEW access \in workload.sends[r]
    PROVE  access[1] \in Addrs /\ access[2] \in CAS
  <1>1. workload \in Workloads
    BY DEF Inv, TypeOK
  <1>2. workload.sends \in [Requestors -> SUBSET ((DOMAIN RowOf) \X {"RD", "WR"})]
    BY <1>1, DuetAssumption
  <1>3. access \in (DOMAIN RowOf) \X {"RD", "WR"}
    BY <1>2
  <1> QED BY <1>3 DEF Addrs, CAS

LEMMA InvNext == Inv /\ [Next]_vars => Inv'
  <1> SUFFICES ASSUME Inv, [Next]_vars PROVE Inv'
    OBVIOUS
  <1>1. ASSUME NEW r \in Requestors, NEW access \in workload.sends[r],
               addRequest(r, access[1], access[2])
        PROVE  Inv'
    BY <1>1, Accesses, AddRequestInv
  <1>2. CASE requestSchedule
    BY <1>2, ScheduleInv
  <1>3. CASE SendCommand
    BY <1>3, SendInv
  <1>4. CASE DecideHPA
    BY <1>4, DecideHPAInv
  <1>5. CASE DecideRTA
    BY <1>5, DecideRTAInv
  <1>6. CASE UNCHANGED vars
    <2> USE <1>6 DEF vars, queueVars, deadlineVars, registerVars
    <2>1. TypeOK'
      BY DEF Inv, TypeOK
    <2>2. Identities' /\ Banks'
      BY DEF Inv, Identities, Banks
    <2>3. Decision'
      BY DEF Inv, Decision, DecidedFits
    <2>4. Deadlines' /\ Registers'
      BY DEF Inv, Deadlines, Registers
    <2>5. Unreferenced' /\ ~fault'
      BY DEF Inv, Unreferenced
    <2> QED BY <2>1, <2>2, <2>3, <2>4, <2>5 DEF Inv
  <1> QED BY <1>1, <1>2, <1>3, <1>4, <1>5, <1>6 DEF Next, update

LEMMA Invariance == Spec => []Inv
  BY InvInit, InvNext, PTL DEF Spec

\* No access of the two schedulers goes wrong: sendCommand, setDeadline and removeRequest
\* find what they do not look for, and nothing refers to the packet that is deleted.
THEOREM NothingGoesWrong == Spec => []NoFault
  <1>1. Inv => NoFault
    <2> SUFFICES ASSUME Inv PROVE NoDanglingPacket
      BY DEF Inv, NoFault
    <2>1. TypeOK /\ Unreferenced
      BY DEF Inv
    <2>2. ASSUME NEW r \in Requestors
          PROVE  DOMAIN hpQ[r] = 1..Len(hpQ[r]) /\ DOMAIN rtQ[r] = 1..Len(rtQ[r])
      <3>1. hpQ[r] \in Seq(Packets) /\ rtQ[r] \in Seq(Packets)
        BY <2>1 DEF TypeOK
      <3> QED BY <3>1, LenProperties
    <2>3. DOMAIN commandRegisters = 1..Len(commandRegisters)
      BY <2>1, LenProperties DEF TypeOK
    <2> QED BY <2>1, <2>2, <2>3 DEF NoDanglingPacket, Unreferenced, ToSet
  <1> QED BY <1>1, Invariance, PTL

\* Whichever scheduler decides, a column command finds its row open and an activate
\* finds the bank precharged.
THEOREM RowsFollowed == Spec => []RowProtocol
  <1>1. Inv => RowProtocol
    <2> SUFFICES ASSUME Inv, decided # NoPacket
                 PROVE  /\ decided.type \in CAS => openRow[Sender] = RowOf[decided.req.addr]
                        /\ decided.type = "ACT" => openRow[Sender] = NoRow
      BY DEF RowProtocol
    <2>1. DecidedFits
      BY DEF Inv, Decision
    <2> QED BY <2>1, CommandTypes DEF DecidedFits, RowClosed, Sender
  <1> QED BY <1>1, Invariance, PTL

\* Order and the deadline flags agree with the real-time queues, and the registers hold
\* the heads of these queues, however often the schedulers take turns.
THEOREM StateStaysCurrent == Spec => []RealTimeStateCurrent
  <1>1. Inv => RealTimeStateCurrent
    <2> SUFFICES ASSUME Inv PROVE RealTimeStateCurrent
      OBVIOUS
    <2>1. TypeOK /\ Deadlines /\ Registers /\ Decision
      BY DEF Inv
    <2>2. OrderMatchesQueues
      <3>1. DOMAIN Order = 1..Len(Order)
        BY <2>1, LenProperties DEF TypeOK
      <3>2. \A r \in Requestors : r \in ToSet(Order) <=> Occurs(r, Order)
        BY <3>1 DEF ToSet, Occurs
      <3> QED BY <2>1, <3>2 DEF OrderMatchesQueues, Deadlines, OnceEach
    <2>3. RegistersCurrent
      <3> SUFFICES ASSUME phase = "decide"
                   PROVE  /\ \A r \in Requestors : queuePending[r] <=>
                                \E k \in 1..Len(commandRegisters) : commandRegisters[k].requestor = r
                          /\ \A k \in 1..Len(commandRegisters) :
                                commandRegisters[k] = HeadOf(rtQ[commandRegisters[k].requestor])
        BY DEF RegistersCurrent
      <3>1. ASSUME NEW k \in 1..Len(commandRegisters)
            PROVE  commandRegisters[k] = HeadOf(rtQ[commandRegisters[k].requestor])
        <4> DEFINE r == commandRegisters[k].requestor
        <4>1. commandRegisters[k] \in Packets
          BY <2>1, ElementOfSeq DEF TypeOK
        <4>2. r \in Requestors
          BY <4>1 DEF Packets
        <4>3. rtQ[r] # <<>> /\ commandRegisters[k] = rtQ[r][1]
          BY <2>1 DEF Registers, Decision
        <4> QED BY <4>2, <4>3, BothFilled
      <3> QED BY <2>1, <3>1 DEF Registers
    <2> QED BY <2>2, <2>3 DEF RealTimeStateCurrent
  <1> QED BY <1>1, Invariance, PTL

\* Past the precharge both schedulers hold the same commands for a requestor, so either
\* can go on with what the other has begun.
THEOREM SchedulersAgree == Spec => []QueuesAgree
  <1>1. Inv => QueuesAgree
    <2> SUFFICES ASSUME Inv, phase = "decide", NEW r \in Requestors,
                        \/ rtQ[r] # <<>> /\ rtQ[r][1].type # "PRE"
                        \/ hpQ[r] # <<>> /\ hpQ[r][1].type = "ACT"
                 PROVE  /\ Len(hpQ[r]) = Len(rtQ[r])
                        /\ \A k \in 1..Len(hpQ[r]) : Same(hpQ[r][k], rtQ[r][k])
      BY DEF QueuesAgree
    <2>1. /\ reqQ[r] \in Seq(Requests) /\ hpQ[r] \in Seq(Packets) /\ rtQ[r] \in Seq(Packets)
          /\ Bank(r, reqQ[r], hpIdx[r], rowTable[r], openRow[r], hpQ[r], rtQ[r])
          /\ rtQ[r] # <<>> => hpQ[r] # <<>>
      BY BothFilled
    <2> QED BY <2>1, BankAgrees
  <1> QED BY <1>1, Invariance, PTL

\* The controller implements RequestService: the request that is erased is the one whose
\* column command was chosen, and no earlier one of its requestor has its address.
THEOREM ControllerServes == Spec => ImplementsService
  <1>1. Init => Service!ServiceInit
    BY DEF Init, Service!ServiceInit, Service!NoService, choosing
  <1>2. Inv /\ [Next]_vars => [Service!ServiceNext]_(Service!serviceVars)
    <2> SUFFICES ASSUME Inv, [Next]_vars PROVE [Service!ServiceNext]_(Service!serviceVars)
      OBVIOUS
    <2>1. ASSUME NEW r \in Requestors, NEW access \in workload.sends[r],
                 addRequest(r, access[1], access[2])
          PROVE  Service!ServiceNext
      <3> DEFINE q == [id |-> FreshId, addr |-> access[1], type |-> access[2]]
      <3>1. FreeIds # {} /\ reqQ' = [reqQ EXCEPT ![r] = Append(reqQ[r], q)] /\ decided' = decided
        BY <2>1 DEF addRequest, insertRequest
      <3>2. q \in Requests
        BY <3>1, Fresh, Accesses DEF Requests
      <3>3. \A k \in 1..Len(reqQ[r]) : reqQ[r][k].id # q.id
        BY <3>1, Fresh
      <3>4. Service!Accept(r, q)
        BY <3>1, <3>3 DEF Service!Accept, choosing
      <3> QED BY <3>2, <3>4 DEF Service!ServiceNext
    <2>2. CASE requestSchedule
      <3>1. reqQ' = reqQ /\ decided' = decided
        BY <2>2 DEF requestSchedule
      <3> QED BY <3>1 DEF Service!serviceVars, choosing
    <2>3. CASE SendCommand
      <3>1. reqQ' = reqQ /\ decided' = NoPacket
        BY <2>3 DEF SendCommand
      <3>2. Service!Pause
        BY <3>1 DEF Service!Pause, Service!NoService, choosing
      <3> QED BY <3>2 DEF Service!ServiceNext
    <2>4. CASE DecideHPA \/ DecideRTA
      <3>1. Choice
        BY <2>4, DecideHPAInv, DecideRTAInv
      <3>2. CASE reqQ' = reqQ /\ (decided' = NoPacket \/ decided'.type \notin CAS)
        <4>1. Service!Pause
          BY <3>2 DEF Service!Pause, Service!NoService, choosing
        <4> QED BY <4>1 DEF Service!ServiceNext
      <3>3. ASSUME decided' # NoPacket, decided'.type \in CAS,
                   NEW r \in Requestors, NEW k \in 1..Len(reqQ[r]),
                   decided'.requestor = r, decided'.req = reqQ[r][k], FirstFor(reqQ[r], k),
                   reqQ' = [reqQ EXCEPT ![r] = RemoveAt(reqQ[r], k)]
            PROVE  Service!ServiceNext
        <4>1. \A j \in 1..(k - 1) : <<reqQ[r][j].addr, reqQ[r][j].type>>
                                        # <<reqQ[r][k].addr, reqQ[r][k].type>>
          BY <3>3 DEF FirstFor
        <4>2. RemoveAt(reqQ[r], k) = Service!RemoveAt(reqQ[r], k)
          BY DEF RemoveAt, Service!RemoveAt
        <4>3. (IF choosing THEN [requestor |-> decided.requestor, req |-> decided.req]
               ELSE [requestor |-> "none"])' = [requestor |-> r, req |-> reqQ[r][k]]
          BY <3>3 DEF choosing
        <4>4. Service!Serve(r, k)
          BY <3>3, <4>1, <4>2, <4>3 DEF Service!Serve
        <4> QED BY <4>4 DEF Service!ServiceNext
      <3> QED BY <3>1, <3>2, <3>3 DEF Choice
    <2>5. CASE UNCHANGED vars
      <3>1. reqQ' = reqQ /\ decided' = decided
        BY <2>5 DEF vars, queueVars
      <3> QED BY <3>1 DEF Service!serviceVars, choosing
    <2> QED BY <2>1, <2>2, <2>3, <2>4, <2>5 DEF Next, update
  <1> QED BY <1>1, <1>2, Invariance, PTL DEF Spec, ImplementsService, Service!ServiceSpec

--------------------------------------------------------------------------------
(* The record of the estimator. *)

\* A request that has been seen still heads the real-time queue, past its precharge if
\* it is recorded as a row hit, until its column command has been chosen.
Remembered(r) ==
    \/ decided # NoPacket /\ decided.type \in CAS /\ Sender = r
    \/ rtQ[r] # <<>> /\ (req_open[r] => rtQ[r][1].type # "PRE")
RecordInv ==
    /\ req_statues_flag \in [Requestors -> BOOLEAN] /\ req_open \in [Requestors -> BOOLEAN]
    /\ CInterR \in Nat /\ CInterW \in Nat
    /\ \A r \in Requestors : req_statues_flag[r] => Remembered(r)
EstimateInv == Inv /\ RecordInv

\* Every step is one of the controller, with any decision of WCLator.
LEMMA ControllerStep == [EstimateNext]_estimateVars => [Next]_vars
  <1> USE DEF Next, update
  <1>1. ASSUME Arrive PROVE Next
    BY <1>1 DEF Arrive
  <1>2. ASSUME Fill \/ Send \/ StayOrSwitchToHPA \/ StayOrSwitchToRTA PROVE Next
    BY <1>2 DEF Fill, Send, StayOrSwitchToHPA, StayOrSwitchToRTA
  <1>3. ASSUME UNCHANGED estimateVars PROVE UNCHANGED vars
    BY <1>3 DEF estimateVars
  <1> QED BY <1>1, <1>2, <1>3 DEF EstimateNext

\* After a precharge or an activate the column command is still to be sent.
LEMMA RowCommandLeaves ==
    ASSUME NEW r, NEW Q \in Seq(Requests), NEW k, NEW T, NEW O, NEW h, NEW t,
           Bank(r, Q, k, T, O, h, t), t # <<>>, t[1].type \notin CAS
    PROVE  Tail(t) # <<>> /\ Tail(t)[1].type # "PRE"
  <1>1. Q # <<>>
    BY DEF Bank, Settled, SettledRT, RowClosed, Opened
  <1>2. Q[1] \in Requests
    BY <1>1, LenProperties, EmptySeq, ElementOfSeq
  <1>3. ~One(t, r, Q[1])
    BY <1>2, Heads
  <1>4. Two(t, r, Q[1]) \/ Three(t, r, Q[1])
    BY <1>3 DEF Bank, Settled, SettledRT, RowClosed, Opened
  <1>5. One(Tail(t), r, Q[1]) \/ Two(Tail(t), r, Q[1])
    BY <1>4, QueueShapes
  <1>6. Tail(t) # <<>>
    BY <1>5, QueueShapes
  <1> DEFINE c == Tail(t)
  <1> HIDE DEF c
  <1>7. c[1].type # "PRE"
    <2>1. One(c, r, Q[1]) \/ Two(c, r, Q[1])
      BY <1>5 DEF c
    <2>2. Q[1].type # "PRE" /\ "PRE" # "ACT"
      BY <1>2, CommandTypes
    <2> QED BY ONLY <1>2, <2>1, <2>2, Heads
  <1> QED BY <1>6, <1>7 DEF c

\* A scheduler takes from a real-time queue only the column command it has chosen.
LEMMA OthersStay ==
    ASSUME Inv, DecideHPA \/ DecideRTA, NEW r \in Requestors
    PROVE  \/ rtQ'[r] = rtQ[r]
           \/ decided' # NoPacket /\ decided'.type \in CAS /\ decided'.requestor = r
  <1>1. rtQ \in [Requestors -> Seq(Packets)]
    BY DEF Inv, TypeOK
  <1>2. NoPacket.type \notin CAS
    BY DEF NoPacket, CAS
  <1>3. ASSUME NEW c, NEW idx, NEW x, NEW y, c.type \in CAS, decided' = c, BookCAS(c, idx, x, y)
        PROVE  rtQ'[r] = rtQ[r] \/ decided'.requestor = r
    <2>1. rtQ' = rtQ \/ rtQ' = [rtQ EXCEPT ![c.requestor] = removeCommand(rtQ[c.requestor])]
      BY <1>3 DEF BookCAS
    <2> QED BY <1>1, <1>3, <2>1
  <1>4. CASE DecideHPA
    <2>1. PICK c : /\ decided' = c
                   /\ IF c # NoPacket /\ c.type \in CAS
                      THEN BookCAS(c, hpIdx[c.requestor], TRUE, Same(c, returnOldest(c.requestor)))
                      ELSE NoBooking /\ UNCHANGED hpQ
      BY <1>4 DEF DecideHPA
    <2>2. CASE c # NoPacket /\ c.type \in CAS
      BY <2>1, <2>2, <1>3
    <2>3. CASE ~(c # NoPacket /\ c.type \in CAS)
      BY <2>1, <2>3 DEF NoBooking
    <2> QED BY <2>2, <2>3
  <1>5. CASE DecideRTA
    <2>1. PICK regs, k :
            LET c == IF k = 0 THEN NoPacket ELSE regs[k]
            IN  /\ decided' = c
                /\ IF k # 0 /\ c.type \in CAS
                   THEN BookCAS(c, rtIdx[c.requestor], Same(c, HeadOf(hpQ[c.requestor])), TRUE)
                   ELSE NoBooking
      <3>1. PICK ready :
                \E regs \in {Registered(ready)} :
                \E issuable \in SUBSET (1..Len(regs)) :
                \E chosen \in {Arbitrate(regs, issuable, RoundFlags(regs), RoundType(regs))} :
                    TakesRTA(ready, regs, chosen)
        BY <1>5 DEF DecideRTA, TakesRTA
      <3>2. PICK regs, chosen : TakesRTA(ready, regs, chosen)
        BY ONLY <3>1
      <3> DEFINE k == chosen.index
      <3>3. LET c == IF k = 0 THEN NoPacket ELSE regs[k]
            IN  /\ decided' = c
                /\ IF k # 0 /\ c.type \in CAS
                   THEN BookCAS(c, rtIdx[c.requestor], Same(c, HeadOf(hpQ[c.requestor])), TRUE)
                   ELSE NoBooking
        BY <3>2 DEF TakesRTA
      <3> HIDE DEF k
      <3> QED BY <3>3
    <2> DEFINE c == IF k = 0 THEN NoPacket ELSE regs[k]
    <2>2. decided' = c
      BY <2>1
    <2>3. CASE k # 0 /\ c.type \in CAS
      <3>1. BookCAS(c, rtIdx[c.requestor], Same(c, HeadOf(hpQ[c.requestor])), TRUE)
        BY <2>1, <2>3
      <3> HIDE DEF c
      <3>2. rtQ'[r] = rtQ[r] \/ decided'.requestor = r
        BY <2>2, <2>3, <3>1, <1>3
      <3> QED BY <2>2, <2>3, <3>2, <1>2
    <2>4. CASE ~(k # 0 /\ c.type \in CAS)
      BY <2>1, <2>4 DEF NoBooking
    <2> QED BY <2>3, <2>4
  <1> QED BY <1>4, <1>5

LEMMA RecordInit == EstimateInit => RecordInv
  BY EstimatorAssumption DEF EstimateInit, RecordInv

LEMMA RecordNext == EstimateInv /\ [EstimateNext]_estimateVars => RecordInv'
  <1> SUFFICES ASSUME Inv, RecordInv, [EstimateNext]_estimateVars PROVE RecordInv'
    BY DEF EstimateInv
  <1>1. /\ rtQ \in [Requestors -> Seq(Packets)]
        /\ req_statues_flag \in [Requestors -> BOOLEAN] /\ req_open \in [Requestors -> BOOLEAN]
        /\ CInterR \in Nat /\ CInterW \in Nat
        /\ \A r \in Requestors : req_statues_flag[r] => Remembered(r)
    BY DEF Inv, TypeOK, RecordInv
  <1>2. CASE rtQ' = rtQ /\ decided' = decided /\ UNCHANGED estimatorVars
    BY <1>1, <1>2 DEF RecordInv, Remembered, estimatorVars, Sender
  <1>3. CASE Arrive
    <2>1. rtQ' = rtQ /\ decided' = decided /\ UNCHANGED estimatorVars
      BY <1>3 DEF Arrive, addRequest
    <2> QED BY <2>1, <1>2
  <1>4. CASE Fill
    <2>1. decided' = decided /\ UNCHANGED estimatorVars
      BY <1>4 DEF Fill, requestSchedule
    <2>2. ASSUME NEW r \in Requestors, rtQ[r] # <<>> PROVE rtQ'[r] = rtQ[r]
      <3> DEFINE fillRT == {q \in Requestors : Scanned(q) /\ getRequestorSize(rtQ[q]) = 0}
      <3>1. rtQ' = [q \in Requestors |->
                IF q \in fillRT THEN enqueueCommand(rtQ[q], q, getRequest(q, 1), "RT") ELSE rtQ[q]]
        BY <1>4 DEF Fill, requestSchedule
      <3>2. r \notin fillRT
        BY <1>1, <2>2, EmptySeq DEF getRequestorSize
      <3> HIDE DEF fillRT
      <3> QED BY <3>1, <3>2
    <2>3. ASSUME NEW r \in Requestors, Remembered(r) PROVE Remembered(r)'
      <3>1. req_open' = req_open
        BY <2>1 DEF estimatorVars
      <3> QED BY <2>1, <2>2, <2>3, <3>1 DEF Remembered, Sender
    <2> QED BY <1>1, <2>1, <2>3 DEF RecordInv, estimatorVars
  <1>5. CASE Send
    <2>1. /\ rtQ' = [r \in Requestors |-> Drop(rtQ[r])]
          /\ req_open' = req_open /\ req_statues_flag' = Forget
      BY <1>5 DEF Send, SendCommand
    <2>2. CInterR' \in Nat /\ CInterW' \in Nat
      <3>1. tCCD \in Nat /\ tWtoR \in Nat /\ tRTW \in Nat
        BY EstimatorAssumption DEF tWtoR
      <3>2. /\ CInterR' \in {tCCD, tWtoR, CountDown(CInterR)}
            /\ CInterW' \in {tRTW, tCCD, CountDown(CInterW)}
        BY <1>5 DEF Send
      <3>3. CountDown(CInterR) \in Nat /\ CountDown(CInterW) \in Nat
        BY <1>1 DEF CountDown
      <3> QED BY <3>1, <3>2, <3>3
    <2>3. req_statues_flag' \in [Requestors -> BOOLEAN]
      BY <1>1, <2>1 DEF Forget
    <2>4. ASSUME NEW r \in Requestors, req_statues_flag'[r]
          PROVE  Remembered(r)'
      <3>1. req_statues_flag[r] /\ ~(decided # NoPacket /\ decided.type \in CAS /\ Sender = r)
        BY <1>1, <2>1, <2>4, Sender \in Requestors \/ Sender \notin Requestors DEF Forget
      <3>2. rtQ[r] # <<>> /\ (req_open[r] => rtQ[r][1].type # "PRE")
        BY <1>1, <3>1 DEF Remembered
      <3>3. CASE Drop(rtQ[r]) = rtQ[r]
        BY <2>1, <3>2, <3>3 DEF Remembered
      <3>4. CASE Drop(rtQ[r]) # rtQ[r]
        <4>1. /\ decided.type \notin CAS /\ Same(decided, HeadOf(rtQ[r]))
              /\ rtQ'[r] = Tail(rtQ[r])
          BY <2>1, <3>4 DEF Drop, removeCommand
        <4>2. rtQ[r] \in Seq(Packets) /\ HeadOf(rtQ[r]) = rtQ[r][1]
          BY <1>1, <3>2 DEF HeadOf
        <4>3. rtQ[r][1].type \notin CAS
          BY <4>1, <4>2 DEF Same
        <4>4. /\ reqQ[r] \in Seq(Requests)
              /\ Bank(r, reqQ[r], hpIdx[r], rowTable[r], openRow[r], hpQ[r], rtQ[r])
          BY DEF Inv, TypeOK, Banks
        <4>5. rtQ'[r] # <<>> /\ rtQ'[r][1].type # "PRE"
          BY <3>2, <4>1, <4>3, <4>4, RowCommandLeaves
        <4> QED BY <4>5 DEF Remembered
      <3> QED BY <3>3, <3>4
    <2> QED BY <1>1, <2>1, <2>2, <2>3, <2>4 DEF RecordInv
  <1>6. CASE StayOrSwitchToHPA \/ StayOrSwitchToRTA
    <2>1. PICK estimate : (DecideHPA \/ DecideRTA) /\ Record(estimate)
      BY <1>6 DEF StayOrSwitchToHPA, StayOrSwitchToRTA
    <2> DEFINE fresh == {r \in Requestors : /\ ~req_statues_flag[r] /\ rtQ[r] # <<>>
                                            /\ \A q \in AtRisk(estimate) : r <= q}
    <2>2. /\ req_statues_flag' = [r \in Requestors |-> req_statues_flag[r] \/ r \in fresh]
          /\ req_open' = [r \in Requestors |->
                CASE r \in fresh /\ returnOldest(r).type \in CAS -> TRUE
                  [] r \in fresh /\ returnOldest(r).type = "PRE" -> FALSE
                  [] OTHER -> req_open[r]]
          /\ CInterR' = CInterR /\ CInterW' = CInterW
      BY <2>1 DEF Record
    <2>3. \A r \in fresh : ~req_statues_flag[r] /\ rtQ[r] # <<>>
      OBVIOUS
    <2> HIDE DEF fresh
    <2>4. phase = "decide"
      BY <2>1 DEF DecideHPA, DecideRTA
    <2>5. decided = NoPacket
      BY <2>4 DEF Inv, Decision
    <2>6. /\ req_statues_flag' \in [Requestors -> BOOLEAN] /\ req_open' \in [Requestors -> BOOLEAN]
      BY <1>1, <2>2
    <2>7. ASSUME NEW r \in Requestors, req_statues_flag'[r] PROVE Remembered(r)'
      <3>1. req_statues_flag[r] \/ r \in fresh
        BY <2>2, <2>7
      <3>2. rtQ[r] # <<>> /\ (req_open'[r] => rtQ[r][1].type # "PRE")
        <4>1. CASE r \in fresh
          <5>1. rtQ[r] # <<>> /\ returnOldest(r) = rtQ[r][1]
            BY <2>3, <2>4, <4>1, BothFilled DEF returnOldest
          <5> QED BY <2>2, <4>1, <5>1
        <4>2. CASE r \notin fresh
          <5>1. Remembered(r) /\ req_open'[r] = req_open[r]
            BY <1>1, <2>2, <3>1, <4>2
          <5> QED BY <2>5, <5>1 DEF Remembered
        <4> QED BY <4>1, <4>2
      <3> QED BY <2>1, <3>2, OthersStay DEF Remembered, Sender
    <2> QED BY <1>1, <2>2, <2>6, <2>7 DEF RecordInv
  <1>7. CASE UNCHANGED estimateVars
    <2>1. rtQ' = rtQ /\ decided' = decided /\ UNCHANGED estimatorVars
      BY <1>7 DEF estimateVars, vars, queueVars, estimatorVars
    <2> QED BY <2>1, <1>2
  <1> QED BY <1>3, <1>4, <1>5, <1>6, <1>7 DEF EstimateNext

LEMMA EstimateInvariance == EstimateSpec => []EstimateInv
  <1>1. EstimateInit => EstimateInv
    BY RecordInit, InvInit DEF EstimateInit, EstimateInv
  <1>2. EstimateInv /\ [EstimateNext]_estimateVars => EstimateInv'
    BY RecordNext, ControllerStep, InvNext DEF EstimateInv
  <1> QED BY <1>1, <1>2, PTL DEF EstimateSpec

\* The controller with the estimates of WCLator is a controller with some estimates, so
\* what holds of the latter, NothingGoesWrong and the theorems after it, holds of it.
THEOREM EstimateRefines == EstimateSpec => Spec
  BY ControllerStep, PTL DEF EstimateSpec, EstimateInit, Spec

\* The estimator never takes the oldest command of a request it has recorded as a row
\* miss from an empty queue.
THEOREM OldestFound == EstimateSpec => []OldestExists
  <1>1. EstimateInv => OldestExists
    BY DEF EstimateInv, Inv, Decision, RecordInv, Remembered, OldestExists
  <1> QED BY <1>1, EstimateInvariance, PTL

--------------------------------------------------------------------------------
(* The estimates. *)

\* What a situation can be: isReadyTimer finds no timer, and at most the other
\* requestors are in front.
Fits(s) ==
    /\ s.timer = 0 /\ s.CInterR \in Nat /\ s.CInterW \in Nat
    /\ s.pre \in 0..(REQ_count - 1) /\ s.act \in 0..(REQ_count - 1)
    /\ s.rd \in 0..(REQ_count - 1)

\* No estimate is larger.
Limit(s) == s.CInterR + s.CInterW + 1 + tCCD + tWtoR + 2 * tRTW + s.rd * tCCD
              + (REQ_count - 1) * tCCD + tRL + tWL + tBUS + tRTP + tWR + LPRE[s.pre] + tRP + Row(s)

LEMMA Products ==
    ASSUME NEW m \in Nat, NEW n \in Nat, NEW c \in Nat, m <= n
    PROVE  /\ m * c \in Nat /\ m * c <= n * c
           /\ (m - 2) * c = m * c - 2 * c
  OBVIOUS

LEMMA Timings ==
    /\ tCCD \in Nat /\ tRL \in Nat /\ tWL \in Nat /\ tBUS \in Nat \ {0} /\ tRTW \in Nat /\ tWTR \in Nat
    /\ tRP \in Nat /\ tRCD \in Nat /\ tRTP \in Nat /\ tWR \in Nat /\ REQ_count \in Nat \ {0}
    /\ tWtoR \in Nat \ {0}
    /\ \A n \in 0..(REQ_count - 1) : LPRE[n] \in Nat /\ LACT[n] \in Nat
    /\ \A m, n \in 0..(REQ_count - 1) : m <= n => LPRE[m] <= LPRE[n] /\ LACT[m] <= LACT[n]
  <1>1. /\ tCCD \in Nat /\ tRL \in Nat /\ tWL \in Nat /\ tBUS \in Nat \ {0} /\ tRTW \in Nat /\ tWTR \in Nat
        /\ tRP \in Nat /\ tRCD \in Nat /\ tRTP \in Nat /\ tWR \in Nat /\ REQ_count \in Nat \ {0}
    BY EstimatorAssumption
  <1>2. tWtoR \in Nat \ {0}
    BY <1>1 DEF tWtoR
  <1>3. /\ \A n \in 0..(REQ_count - 1) : LPRE[n] \in Nat /\ LACT[n] \in Nat
        /\ \A m, n \in 0..(REQ_count - 1) : m <= n => LPRE[m] <= LPRE[n] /\ LACT[m] <= LACT[n]
    BY EstimatorAssumption
  <1> QED BY <1>1, <1>2, <1>3

\* The terms all estimates are sums of.
LEMMA Terms ==
    ASSUME NEW s, Fits(s)
    PROVE  /\ s.rd * tCCD \in Nat /\ (REQ_count - 1) * tCCD \in Nat
           /\ LPRE[s.pre] \in Nat /\ LACT[s.act] \in Nat
           /\ Column(s) \in Nat /\ Column(s) >= tRL + tBUS
           /\ Column(s) = s.rd * tCCD - 2 * tCCD + Larger(tRTW, 2 * tCCD) + tWtoR - 1 + tRL + tBUS
           /\ Row(s) = LACT[s.act] + tRCD + Column(s)
           /\ Limit(s) \in Nat
  <1> DEFINE a == s.rd * tCCD
             b == (REQ_count - 1) * tCCD
             p == LPRE[s.pre]
             l == LACT[s.act]
             big == Larger(tRTW, 2 * tCCD)
             cIR == s.CInterR
             cIW == s.CInterW
  <1>1. a \in Nat /\ b \in Nat /\ (s.rd - 2) * tCCD = a - 2 * tCCD
    BY Timings, Products DEF Fits
  <1>2. p \in Nat /\ l \in Nat /\ cIR \in Nat /\ cIW \in Nat
    BY Timings DEF Fits
  <1>3. big \in Nat /\ big >= 2 * tCCD
    BY Timings DEF Larger
  <1>4. /\ Column(s) = a - 2 * tCCD + big + tWtoR - 1 + tRL + tBUS
        /\ Row(s) = l + tRCD + Column(s)
        /\ Limit(s) = cIR + cIW + 1 + tCCD + tWtoR + 2 * tRTW + a + b
                        + tRL + tWL + tBUS + tRTP + tWR + p + tRP + Row(s)
    BY <1>1 DEF Column, Row, Limit
  <1> HIDE DEF a, b, p, l, big, cIR, cIW
  <1>5. Column(s) \in Nat /\ Column(s) >= tRL + tBUS
    BY <1>1, <1>2, <1>3, <1>4, Timings
  <1>6. Limit(s) \in Nat
    BY <1>1, <1>2, <1>4, <1>5, Timings
  <1> QED BY <1>1, <1>2, <1>4, <1>5, <1>6 DEF a, b, p, l, big

\* A set of estimates between two bounds.
Within(S, low, high) == \A x \in S : x \in Nat /\ low <= x /\ x <= high

LEMMA Bounds ==
    ASSUME NEW s, Fits(s), NEW h \in Sendable
    PROVE  /\ Within(Read(s, h), tRL + tBUS, Limit(s))
           /\ Within(Write(s, h, 0), tWL + tBUS, Limit(s))
           /\ Within(Write(s, h, s.rd * tCCD), tWL + tBUS, Limit(s))
           /\ Within(Precharge(s, h), tRL + tBUS, Limit(s))
           /\ Within(Activate(s, h), tRL + tBUS, Limit(s))
  <1> DEFINE a == s.rd * tCCD
             b == (REQ_count - 1) * tCCD
             p == LPRE[s.pre]
             l == LACT[s.act]
             cIR == s.CInterR
             cIW == s.CInterW
             col == Column(s)
  <1>1. /\ a \in Nat /\ b \in Nat /\ p \in Nat /\ l \in Nat /\ cIR \in Nat /\ cIW \in Nat
        /\ col \in Nat /\ col >= tRL + tBUS /\ s.timer = 0
    BY Terms DEF Fits
  <1>2. /\ Row(s) = l + tRCD + col
        /\ Limit(s) = cIR + cIW + 1 + tCCD + tWtoR + 2 * tRTW + a + b
                        + tRL + tWL + tBUS + tRTP + tWR + p + tRP + (l + tRCD + col)
    BY Terms DEF Limit
  <1>3. /\ ReadGap(s, h) \in {tCCD, tWtoR, AtLeastOne(cIR)}
        /\ AtLeastOne(cIR) \in Nat /\ AtLeastOne(cIR) <= cIR + 1
        /\ AtLeastOne(cIW) \in Nat /\ AtLeastOne(cIW) <= cIW + 1
        /\ \A n : WriteGap(s, h, n) \in {tRTW + n, tCCD, AtLeastOne(cIW)}
    BY <1>1 DEF ReadGap, WriteGap, AtLeastOne
  <1>4. \A g : /\ ReadAfter(s, g) = g + a + tRL + tBUS
               /\ WriteAfter(s, g) = g + b + tRTW + tWL + tBUS
    BY <1>1 DEF ReadAfter, WriteAfter
  <1> HIDE DEF a, b, p, l, cIR, cIW, col
  <1>5. Within(Read(s, h), tRL + tBUS, Limit(s))
    <2>1. Read(s, h) \subseteq {ReadGap(s, h) + a + tRL + tBUS, tRL + tBUS}
      BY <1>4 DEF Read
    <2>2. \A g \in {tCCD, tWtoR, AtLeastOne(cIR)} :
            g + a + tRL + tBUS \in Nat /\ g + a + tRL + tBUS >= tRL + tBUS
            /\ g + a + tRL + tBUS <= Limit(s)
      BY <1>1, <1>2, <1>3, Timings
    <2>3. tRL + tBUS \in Nat /\ tRL + tBUS <= Limit(s)
      BY <1>1, <1>2, Timings
    <2> QED BY <1>3, <2>1, <2>2, <2>3, Timings DEF Within
  <1>6. ASSUME NEW n \in {0, a} PROVE Within(Write(s, h, n), tWL + tBUS, Limit(s))
    <2>1. Write(s, h, n) \subseteq {WriteGap(s, h, n) + b + tRTW + tWL + tBUS, tWL + tBUS}
      BY <1>4 DEF Write
    <2>2. \A g \in {tRTW + n, tCCD, AtLeastOne(cIW)} :
            g + b + tRTW + tWL + tBUS \in Nat /\ g + b + tRTW + tWL + tBUS >= tWL + tBUS
            /\ g + b + tRTW + tWL + tBUS <= Limit(s)
      BY <1>1, <1>2, <1>3, Timings
    <2>3. tWL + tBUS \in Nat /\ tWL + tBUS <= Limit(s)
      BY <1>1, <1>2, Timings
    <2> QED BY <1>3, <2>1, <2>2, <2>3, Timings DEF Within
  <1>7. Within(Precharge(s, h), tRL + tBUS, Limit(s))
    <2>1. Precharge(s, h) \subseteq
            {p + tRP + Row(s) + 1, p + tRP + Row(s), Larger(0, tRTP) + p + tRP + Row(s),
             Larger(0, tWR) + p + tRP + Row(s), tRP + Row(s)}
      <3>1. Precharge(s, h) \subseteq
            {0 + p + tRP + Row(s) + 1, 0 + p + tRP + Row(s), Larger(0, tRTP) + p + tRP + Row(s),
             Larger(0, tWR) + p + tRP + Row(s), tRP + Row(s)}
        BY <1>1 DEF Precharge, p
      <3> QED BY <3>1, <1>1
    <2>2. Larger(0, tRTP) = tRTP /\ Larger(0, tWR) = tWR
      BY Timings DEF Larger
    <2>3. \A x \in {p + tRP + Row(s) + 1, p + tRP + Row(s), tRTP + p + tRP + Row(s),
                    tWR + p + tRP + Row(s), tRP + Row(s)} :
            x \in Nat /\ tRL + tBUS <= x /\ x <= Limit(s)
      BY <1>1, <1>2, Timings
    <2> QED BY <2>1, <2>2, <2>3 DEF Within
  <1>8. Within(Activate(s, h), tRL + tBUS, Limit(s))
    <2>1. Activate(s, h) \subseteq {tRCD + col, 0 + Row(s)}
      BY <1>1 DEF Activate, col
    <2> QED BY <2>1, <1>1, <1>2, Timings DEF Within
  <1> QED BY <1>5, <1>6, <1>7, <1>8 DEF a

\* All estimates of a branch.
LEMMA BranchBounds ==
    ASSUME NEW s, Fits(s), NEW h \in Sendable
    PROVE  /\ Within(Open(s, h), 0, Limit(s)) /\ Within(Closed(s, h), 0, Limit(s))
           /\ Within(New(s, h), 0, Limit(s))
  <1>1. ASSUME NEW S, NEW low \in Nat, Within(S, low, Limit(s)) PROVE Within(S, 0, Limit(s))
    BY <1>1 DEF Within
  <1>2. tRL + tBUS \in Nat /\ tWL + tBUS \in Nat
    BY Timings
  <1>3. /\ Within(Read(s, h), 0, Limit(s)) /\ Within(Write(s, h, 0), 0, Limit(s))
        /\ Within(Write(s, h, s.rd * tCCD), 0, Limit(s))
        /\ Within(Precharge(s, h), 0, Limit(s)) /\ Within(Activate(s, h), 0, Limit(s))
    BY <1>1, <1>2, Bounds
  <1>4. Within({}, 0, Limit(s))
    BY DEF Within
  <1>5. /\ Open(s, h) \in {Read(s, h), Write(s, h, 0), {}}
        /\ Closed(s, h) \in {Precharge(s, h), Activate(s, h), Read(s, h), Write(s, h, s.rd * tCCD), {}}
        /\ New(s, h) \in {Precharge(s, h), Read(s, h), Write(s, h, 0), {}}
    BY DEF Open, Closed, New
  <1> QED BY <1>3, <1>4, <1>5

\* tempLatency is the largest one, 0 if there is none.
LEMMA WorstOf ==
    ASSUME NEW n \in Nat, NEW S, Within(S, 0, n)
    PROVE  Worst(S) \in S \cup {0} /\ Worst(S) \in Nat /\ \A x \in S : x <= Worst(S)
  <1> DEFINE t == {x + 1 : x \in S \cup {0}}
             up == n + 1
  <1>1. up \in Nat /\ t \in SUBSET (1..up) /\ t # {}
    BY DEF Within
  <1>2. \E m \in t : \A y \in t : y <= m
    <2> HIDE DEF t, up
    <2> QED BY <1>1, LargestIn
  <1>3. PICK x \in S \cup {0} : \A y \in S \cup {0} : y + 1 <= x + 1
    BY <1>2
  <1>4. S \cup {0} \subseteq Nat
    BY DEF Within
  <1>5. \A y \in S \cup {0} : x >= y
    BY <1>3, <1>4
  <1>6. Worst(S) \in S \cup {0} /\ \A y \in S \cup {0} : Worst(S) >= y
    BY <1>3, <1>5 DEF Worst, Max
  <1> QED BY <1>4, <1>6

\* One set of estimates stays below another.
Dominated(S, T) == \A x \in S : \E y \in T : x <= y

LEMMA WorstBelow ==
    ASSUME NEW m \in Nat, NEW n \in Nat, NEW S, NEW T, Within(S, 0, m), Within(T, 0, n),
           Dominated(S, T)
    PROVE  Worst(S) <= Worst(T)
  <1>1. Worst(S) \in S \cup {0} /\ Worst(S) \in Nat
    BY WorstOf
  <1>2. Worst(T) \in Nat /\ \A y \in T : y <= Worst(T)
    BY WorstOf
  <1>3. CASE Worst(S) \in S
    <2>1. PICK y \in T : Worst(S) <= y
      BY <1>3 DEF Dominated
    <2>2. y \in Nat /\ y <= Worst(T)
      BY <1>2 DEF Within
    <2> QED BY <1>1, <1>2, <2>1, <2>2
  <1>4. CASE Worst(S) = 0
    BY <1>2, <1>4
  <1> QED BY <1>1, <1>3, <1>4

\* The same situation with fewer requestors in front.
Easier(u, s) ==
    /\ u.old = s.old /\ u.CInterR = s.CInterR /\ u.CInterW = s.CInterW
    /\ u.pre <= s.pre /\ u.act <= s.act /\ u.rd <= s.rd

\* The estimate of a command of another requestor is not larger then.
LEMMA FewerInFront ==
    ASSUME NEW s, NEW u, Fits(s), Fits(u), Easier(u, s), NEW h \in Sendable, ~h.own
    PROVE  /\ Dominated(Open(u, h), Open(s, h)) /\ Dominated(Closed(u, h), Closed(s, h))
           /\ Dominated(New(u, h), New(s, h))
  <1> DEFINE a(v) == v.rd * tCCD
             p(v) == LPRE[v.pre]
             l(v) == LACT[v.act]
             big == Larger(tRTW, 2 * tCCD)
  <1>1. a(u) \in Nat /\ a(s) \in Nat /\ a(u) <= a(s)
    <2>1. u.rd \in Nat /\ s.rd \in Nat /\ u.rd <= s.rd
      BY DEF Fits, Easier
    <2> QED BY <2>1, Products, Timings
  <1>2. p(u) \in Nat /\ p(s) \in Nat /\ p(u) <= p(s) /\ l(u) \in Nat /\ l(s) \in Nat /\ l(u) <= l(s)
    BY Timings DEF Fits, Easier
  <1>3. ASSUME NEW v \in {u, s}
        PROVE  /\ Column(v) \in Nat /\ Row(v) = l(v) + tRCD + Column(v)
               /\ Column(v) = a(v) - 2 * tCCD + big + tWtoR - 1 + tRL + tBUS
               /\ \A g : /\ ReadAfter(v, g) = g + a(v) + tRL + tBUS
                         /\ WriteAfter(v, g) = g + (REQ_count - 1) * tCCD + tRTW + tWL + tBUS
    <2>1. Fits(v) /\ v.timer = 0
      BY DEF Fits
    <2> QED BY <2>1, Terms DEF ReadAfter, WriteAfter
  <1>4. big \in Nat
    BY Timings DEF Larger
  <1>5. ReadGap(u, h) = ReadGap(s, h) /\ \A n : WriteGap(u, h, n) = WriteGap(s, h, n)
    BY DEF ReadGap, WriteGap, Easier
  <1>6. AtLeastOne(s.CInterR) \in Nat /\ AtLeastOne(s.CInterW) \in Nat
    BY DEF AtLeastOne, Fits
  <1>7. u.timer = 0 /\ s.timer = 0 /\ u.old = s.old
    BY DEF Fits, Easier
  <1>8. /\ ReadGap(s, h) \in Nat /\ WriteGap(s, h, 0) \in Nat
        /\ WriteGap(s, h, a(u)) \in Nat /\ WriteGap(s, h, a(s)) \in Nat
        /\ WriteGap(s, h, a(u)) <= WriteGap(s, h, a(s))
    BY <1>1, <1>6, Timings DEF ReadGap, WriteGap
  <1>9. (REQ_count - 1) * tCCD \in Nat
    BY Terms
  <1>10. /\ Read(u, h) = {ReadGap(s, h) + a(u) + tRL + tBUS}
         /\ Read(s, h) = {ReadGap(s, h) + a(s) + tRL + tBUS}
    BY <1>3, <1>5 DEF Read
  <1>11. \A n : /\ Write(u, h, n) = {WriteGap(s, h, n) + (REQ_count - 1) * tCCD + tRTW + tWL + tBUS}
                /\ Write(s, h, n) = {WriteGap(s, h, n) + (REQ_count - 1) * tCCD + tRTW + tWL + tBUS}
    BY <1>3, <1>5 DEF Write
  <1>12. \E d \in {0, 1} : /\ Precharge(u, h) = {0 + p(u) + tRP + Row(u) + d}
                           /\ Precharge(s, h) = {0 + p(s) + tRP + Row(s) + d}
    <2>1. CASE h = None
      BY <1>7, <2>1 DEF Precharge
    <2>2. CASE h # None
      <3>1. /\ Precharge(u, h) = {0 + p(u) + tRP + Row(u)}
            /\ Precharge(s, h) = {0 + p(s) + tRP + Row(s)}
        BY <1>7, <2>2 DEF Precharge
      <3>2. \A v \in {u, s} : Row(v) \in Nat
        BY <1>2, <1>3, Timings
      <3> HIDE DEF p, l, a
      <3>3. \A v \in {u, s} : 0 + p(v) + tRP + Row(v) + 0 = 0 + p(v) + tRP + Row(v)
        BY <1>2, <3>2, Timings
      <3> QED BY <3>1, <3>3
    <2> QED BY <2>1, <2>2
  <1>13. Activate(u, h) = {0 + Row(u)} /\ Activate(s, h) = {0 + Row(s)}
    BY <1>7 DEF Activate
  <1> HIDE DEF a, p, l, big
  <1>14. Row(u) \in Nat /\ Row(s) \in Nat /\ Row(u) <= Row(s)
    BY <1>1, <1>2, <1>3, <1>4, Timings
  <1>15. Dominated(Read(u, h), Read(s, h))
    BY <1>1, <1>8, <1>10, Timings DEF Dominated
  <1>16. Dominated(Write(u, h, 0), Write(s, h, 0)) /\ Dominated(Write(u, h, a(u)), Write(s, h, a(s)))
    <2> DEFINE b == (REQ_count - 1) * tCCD
    <2>1. b \in Nat
      BY <1>9
    <2>2. \A n : /\ Write(u, h, n) = {WriteGap(s, h, n) + b + tRTW + tWL + tBUS}
                 /\ Write(s, h, n) = {WriteGap(s, h, n) + b + tRTW + tWL + tBUS}
      BY <1>11
    <2> HIDE DEF b
    <2> QED BY <1>8, <2>1, <2>2, Timings DEF Dominated
  <1>17. Dominated(Precharge(u, h), Precharge(s, h))
    BY <1>2, <1>12, <1>14, Timings DEF Dominated
  <1>18. Dominated(Activate(u, h), Activate(s, h))
    BY <1>13, <1>14 DEF Dominated
  <1>19. Dominated({}, {})
    BY DEF Dominated
  <1>20. /\ Dominated(Open(u, h), Open(s, h))
         /\ Dominated(New(u, h), New(s, h))
    BY <1>7, <1>15, <1>16, <1>17, <1>19 DEF Open, New
  <1>21. Dominated(Closed(u, h), Closed(s, h))
    BY <1>7, <1>15, <1>16, <1>17, <1>18, <1>19 DEF Closed, a
  <1> QED BY <1>20, <1>21

--------------------------------------------------------------------------------
(* The situations. *)

LEMMA InFrontIs ==
    ASSUME NEW S, NEW o \in Seq(S), NEW r, NEW x
    PROVE  x \in InFront(r, o) <=> \E k, p \in 1..Len(o) : k < p /\ o[p] = r /\ o[k] = x
  BY DEF InFront

\* Nobody is in front of itself, so at most the other requestors are in front.
LEMMA OthersInFront ==
    ASSUME NEW o \in Seq(Requestors), OnceEach(o), NEW r \in Requestors
    PROVE  InFront(r, o) \subseteq Requestors \ {r}
  <1> SUFFICES ASSUME NEW x \in InFront(r, o) PROVE x \in Requestors \ {r}
    OBVIOUS
  <1>1. PICK k \in 1..Len(o), p \in 1..Len(o) : k < p /\ o[p] = r /\ o[k] = x
    BY InFrontIs
  <1>2. o[k] \in Requestors
    BY ElementOfSeq
  <1>3. k # p
    BY <1>1, LenProperties
  <1> QED BY <1>1, <1>2, <1>3 DEF OnceEach

\* A requestor that moves to the end is no longer in front of the others.
LEMMA MovedBack ==
    ASSUME NEW o \in Seq(Requestors), OnceEach(o), NEW m \in 1..Len(o),
           NEW u, u = Append(RemoveFirst(o, o[m]), o[m])
    PROVE  /\ u \in Seq(Requestors) /\ OnceEach(u)
           /\ \A r : r # o[m] => InFront(r, u) \subseteq InFront(r, o)
  <1> DEFINE w == RemoveAt(o, m)
             n == Len(o)
  <1>1. n \in Nat /\ m \in 1..n /\ o[m] \in Requestors
    BY LenProperties, ElementOfSeq
  <1>2. /\ w \in Seq(Requestors) /\ Len(w) = n - 1 /\ OnceEach(w)
        /\ \A k \in 1..(n - 1) : w[k] = IF k < m THEN o[k] ELSE o[k + 1]
        /\ \A x : Occurs(x, w) <=> Occurs(x, o) /\ x # o[m]
    BY RemoveAtProperties, WithoutOne
  <1>3. u = Append(w, o[m])
    BY RemoveFirstProperties
  <1> HIDE DEF w, n
  <1>4. /\ u \in Seq(Requestors) /\ Len(u) = n
        /\ \A k \in 1..(n - 1) : u[k] = w[k]
        /\ u[n] = o[m]
    <2>1. Len(w) + 1 = n /\ 1..Len(w) = 1..(n - 1)
      BY <1>1, <1>2
    <2> QED BY <1>1, <1>2, <1>3, <2>1, AppendProperties
  <1>5. \A k \in 1..(n - 1) : w[k] # o[m]
    <2> TAKE k \in 1..(n - 1)
    <2>1. Occurs(w[k], w)
      BY <1>2 DEF Occurs
    <2> QED BY <1>2, <2>1
  <1>6. OnceEach(u)
    <2> SUFFICES ASSUME NEW i \in 1..n, NEW j \in 1..n, u[i] = u[j] PROVE i = j
      BY <1>4 DEF OnceEach
    <2>1. (i \in 1..(n - 1) \/ i = n) /\ (j \in 1..(n - 1) \/ j = n)
      BY <1>1
    <2>2. CASE i \in 1..(n - 1) /\ j \in 1..(n - 1)
      BY <2>2, <1>2, <1>4 DEF OnceEach
    <2>3. CASE i = n \/ j = n
      BY <2>1, <2>3, <1>4, <1>5
    <2> QED BY <2>1, <2>2, <2>3
  <1>7. ASSUME NEW r, r # o[m], NEW x \in InFront(r, u) PROVE x \in InFront(r, o)
    <2>1. PICK k \in 1..n, p \in 1..n : k < p /\ u[p] = r /\ u[k] = x
      <3>1. \E k, p \in 1..Len(u) : k < p /\ u[p] = r /\ u[k] = x
        <4>1. x \in InFront(r, u) /\ u \in Seq(Requestors)
          BY <1>4
        <4> QED BY ONLY <4>1, InFrontIs
      <3> QED BY <3>1, <1>4
    <2>2. p \in 1..(n - 1) /\ k \in 1..(n - 1)
      BY <1>1, <1>4, <1>7, <2>1
    <2>3. PICK i \in 1..n, j \in 1..n : i < j /\ o[j] = r /\ o[i] = x
      <3>1. /\ r = IF p < m THEN o[p] ELSE o[p + 1]
            /\ x = IF k < m THEN o[k] ELSE o[k + 1]
        BY <1>2, <1>4, <2>1, <2>2
      <3>2. /\ p \in 1..n /\ p + 1 \in 1..n /\ k \in 1..n /\ k + 1 \in 1..n
            /\ k < p /\ k < p + 1 /\ k + 1 < p + 1 /\ (p < m => k < m)
        BY <1>1, <2>1, <2>2
      <3> QED BY <3>1, <3>2
    <2> QED BY <2>3, InFrontIs DEF n
  <1> QED BY <1>4, <1>6, <1>7

\* How many requestors in front need a command.
Needing(r, o, type) == Cardinality({q \in InFront(r, o) : StillNeeds(q, type)})

LEMMA NeedingBounded ==
    ASSUME NEW o \in Seq(Requestors), OnceEach(o), NEW r \in Requestors, NEW type
    PROVE  /\ Needing(r, o, type) \in 0..(REQ_count - 1)
           /\ \A u : InFront(r, u) \subseteq InFront(r, o) => Needing(r, u, type) <= Needing(r, o, type)
  <1> DEFINE others == Requestors \ {r}
             need(u) == {q \in InFront(r, u) : StillNeeds(q, type)}
  <1>1. /\ IsFiniteSet(Requestors) /\ Cardinality(Requestors) \in Nat
        /\ Cardinality(Requestors) <= REQ_count
    <2>1. IsFiniteSet(0..(REQ_count - 1)) /\ Cardinality(0..(REQ_count - 1)) = REQ_count
      <3>1. 0 \in Int /\ REQ_count - 1 \in Int /\ ~(0 > REQ_count - 1) /\ (REQ_count - 1) - 0 + 1 = REQ_count
        BY Timings
      <3> QED BY <3>1, FS_Interval
    <2>2. Requestors \in SUBSET (0..(REQ_count - 1))
      BY ArrivalAssumption
    <2>3. IsFiniteSet(Requestors) /\ Cardinality(Requestors) <= Cardinality(0..(REQ_count - 1))
      BY <2>1, <2>2, FS_Subset
    <2> QED BY <2>1, <2>3, FS_CardinalityType
  <1>2. IsFiniteSet(others) /\ Cardinality(others) = Cardinality(Requestors) - 1
    BY <1>1, FS_RemoveElement
  <1>3. need(o) \subseteq others
    BY OthersInFront
  <1>4. IsFiniteSet(need(o)) /\ Cardinality(need(o)) <= Cardinality(others)
    BY <1>2, <1>3, FS_Subset
  <1>5. Cardinality(need(o)) \in Nat
    BY <1>4, FS_CardinalityType
  <1>6. ASSUME NEW u, InFront(r, u) \subseteq InFront(r, o)
        PROVE  Cardinality(need(u)) <= Cardinality(need(o))
    <2>1. need(u) \subseteq need(o)
      BY <1>6
    <2> HIDE DEF need
    <2> QED BY <1>4, <2>1, FS_Subset
  <1>7. Cardinality(need(o)) \in 0..(REQ_count - 1)
    <2> DEFINE card == Cardinality(need(o))
               total == Cardinality(Requestors)
    <2>1. card \in Nat /\ total \in Nat /\ card <= total - 1 /\ total <= REQ_count
      BY <1>1, <1>2, <1>4, <1>5
    <2> HIDE DEF card, total
    <2>2. card \in 0..(REQ_count - 1)
      BY <2>1, Timings
    <2> QED BY <2>2 DEF card
  <1> QED BY <1>6, <1>7 DEF Needing

LEMMA SituationFits ==
    ASSUME EstimateInv, NEW r \in Requestors, NEW o \in Seq(Requestors), OnceEach(o)
    PROVE  /\ Fits(Situation(r, o)) /\ Situation(r, o).old = returnOldest(r).type
           /\ \A u \in Seq(Requestors) : OnceEach(u) /\ InFront(r, u) \subseteq InFront(r, o) =>
                Easier(Situation(r, u), Situation(r, o))
  <1>1. \A u : /\ Situation(r, u).old = returnOldest(r).type /\ Situation(r, u).timer = 0
               /\ Situation(r, u).CInterR = CInterR /\ Situation(r, u).CInterW = CInterW
               /\ Situation(r, u).pre = Needing(r, u, "PRE")
               /\ Situation(r, u).act = Needing(r, u, "ACT")
               /\ Situation(r, u).rd = Needing(r, u, "RD")
    BY DEF Situation, Needing, isReadyTimer
  <1>2. CInterR \in Nat /\ CInterW \in Nat
    BY DEF EstimateInv, RecordInv
  <1> QED BY <1>1, <1>2, NeedingBounded DEF Fits, Easier

--------------------------------------------------------------------------------
(* Implementations A, B and C. *)

\* Estimates for more commands are within the same bounds and above those for fewer.
LEMMA MoreCommands ==
    ASSUME NEW s, Fits(s), NEW G \in SUBSET Sendable, NEW F \in SUBSET G
    PROVE  /\ Within(UNION {Open(s, h) : h \in G}, 0, Limit(s))
           /\ Within(UNION {Closed(s, h) : h \in G}, 0, Limit(s))
           /\ Within(UNION {New(s, h) : h \in G}, 0, Limit(s))
           /\ Dominated(UNION {Open(s, h) : h \in F}, UNION {Open(s, h) : h \in G})
           /\ Dominated(UNION {Closed(s, h) : h \in F}, UNION {Closed(s, h) : h \in G})
           /\ Dominated(UNION {New(s, h) : h \in F}, UNION {New(s, h) : h \in G})
  <1>1. \A h \in G : /\ Within(Open(s, h), 0, Limit(s)) /\ Within(Closed(s, h), 0, Limit(s))
                     /\ Within(New(s, h), 0, Limit(s))
    BY BranchBounds
  <1>2. \A x, y : x \in Nat /\ x = y => x <= y
    OBVIOUS
  <1>3. /\ Within(UNION {Open(s, h) : h \in G}, 0, Limit(s))
        /\ Within(UNION {Closed(s, h) : h \in G}, 0, Limit(s))
        /\ Within(UNION {New(s, h) : h \in G}, 0, Limit(s))
    BY <1>1 DEF Within
  <1>4. /\ UNION {Open(s, h) : h \in F} \subseteq UNION {Open(s, h) : h \in G}
        /\ UNION {Closed(s, h) : h \in F} \subseteq UNION {Closed(s, h) : h \in G}
        /\ UNION {New(s, h) : h \in F} \subseteq UNION {New(s, h) : h \in G}
    OBVIOUS
  <1>5. ASSUME NEW S, NEW T, S \subseteq T, Within(T, 0, Limit(s)) PROVE Dominated(S, T)
    BY <1>2, <1>5 DEF Within, Dominated
  <1> QED BY <1>3, <1>4, <1>5

\* What HPA may send are commands WCLator distinguishes.
LEMMA ReadySendable ==
    ASSUME EstimateInv, phase = "decide", NEW r \in Requestors, NEW anything
    PROVE  /\ ReadyHPA(r, anything) \cup {None} \in SUBSET Sendable
           /\ \A q \in Requestors : Chosen(r, HeadOf(hpQ[q])) \in Sendable
           /\ \A q \in Requestors : LET c == HeadOf(hpQ[q])
                                    IN  c # NoPacket => c \in Packets /\ c.requestor = q
  <1>1. ASSUME NEW q \in Requestors
        PROVE  LET c == HeadOf(hpQ[q]) IN c # NoPacket => c \in Packets /\ c.requestor = q
    <2> SUFFICES ASSUME HeadOf(hpQ[q]) # NoPacket
                 PROVE  HeadOf(hpQ[q]) \in Packets /\ HeadOf(hpQ[q]).requestor = q
      OBVIOUS
    <2>1. /\ reqQ[q] \in Seq(Requests) /\ hpQ[q] \in Seq(Packets) /\ rtQ[q] \in Seq(Packets)
          /\ Bank(q, reqQ[q], hpIdx[q], rowTable[q], openRow[q], hpQ[q], rtQ[q])
          /\ hpQ[q] # <<>> => 1 \in 1..Len(hpQ[q]) /\ hpQ[q][1] \in Packets /\ HeadOf(hpQ[q]) = hpQ[q][1]
      BY BothFilled DEF EstimateInv
    <2>2. hpQ[q] # <<>>
      BY DEF HeadOf
    <2>3. Belongs(hpQ[q], q, reqQ[q])
      BY <2>1, BankPackets
    <2> QED BY <2>1, <2>2, <2>3 DEF Belongs
  <1>2. \A p \in Packets : p.type \in {"PRE", "ACT", "RD", "WR"}
    BY DEF Packets, CAS
  <1>3. \A t \in {"PRE", "ACT", "RD", "WR"} : \A own \in BOOLEAN : [type |-> t, own |-> own] \in Sendable
    BY DEF Sendable
  <1>4. None \in Sendable
    BY DEF Sendable
  <1>5. \A q \in Requestors : Chosen(r, HeadOf(hpQ[q])) \in Sendable
    BY <1>1, <1>2, <1>3, <1>4 DEF Chosen
  <1>6. \A own \in BOOLEAN : cmdExistsHPA(r, own) \subseteq {"PRE", "ACT", "RD", "WR"}
    BY <1>1, <1>2 DEF cmdExistsHPA, NoPacket
  <1>7. ReadyHPA(r, anything) \subseteq Sendable
    BY <1>3, <1>6 DEF ReadyHPA
  <1> QED BY <1>1, <1>4, <1>5, <1>7

\* A and B in the same situation.
LEMMA BNotAboveA ==
    ASSUME EstimateInv, phase = "decide", NEW r \in Requestors, NEW anything \in BOOLEAN
    PROVE  WCLator(r, anything) <= WCLatorA(r, Order)
  <1> DEFINE s == Situation(r, Order)
             ready == ReadyHPA(r, anything)
  <1>1. Fits(s) /\ Limit(s) \in Nat
    BY SituationFits, Terms DEF EstimateInv, Inv, TypeOK, Deadlines
  <1>2. ready \cup {None} \in SUBSET Sendable /\ Sendable \in SUBSET Sendable
    BY ReadySendable
  <1>3. ASSUME NEW S, NEW T, Within(S, 0, Limit(s)), Within(T, 0, Limit(s)), Dominated(S, T)
        PROVE  Worst(S) <= Worst(T)
    BY <1>1, <1>3, WorstBelow
  <1>4. /\ WCLator(r, anything)
            = Worst(Recorded(r, NewB(s, ready), OpenB(s, ready), ClosedB(s, ready)))
        /\ WCLatorA(r, Order) = Worst(Recorded(r, NewA(s), OpenA(s), ClosedA(s)))
    BY DEF WCLator, WCLatorA
  <1> HIDE DEF s, ready
  <1>5. /\ Within(OpenB(s, ready), 0, Limit(s)) /\ Within(OpenA(s), 0, Limit(s))
        /\ Within(ClosedB(s, ready), 0, Limit(s)) /\ Within(ClosedA(s), 0, Limit(s))
        /\ Within(NewB(s, ready), 0, Limit(s)) /\ Within(NewA(s), 0, Limit(s))
        /\ Dominated(OpenB(s, ready), OpenA(s)) /\ Dominated(ClosedB(s, ready), ClosedA(s))
        /\ Dominated(NewB(s, ready), NewA(s))
    BY <1>1, <1>2, MoreCommands DEF OpenB, OpenA, ClosedB, ClosedA, NewB, NewA
  <1> QED BY <1>3, <1>4, <1>5 DEF Recorded

\* A and C: for a command of another requestor C finds fewer requestors in front, for one
\* of its own the situation is the same if both see the same order.
LEMMA CNotAboveA ==
    ASSUME EstimateInv, phase = "decide", NEW r \in Requestors, NEW q \in Requestors,
           NEW c, c = HeadOf(hpQ[q])
    PROVE  WCLatorC(r, c) <= WCLatorA(r, IF q = r THEN OrderTemp(c) ELSE Order)
  <1> DEFINE o == IF q = r THEN OrderTemp(c) ELSE Order
             s == Situation(r, o)
             u == Situation(r, OrderTemp(c))
             h == Chosen(r, c)
             g == Seen(u, h)
  <1>1. Order \in Seq(Requestors) /\ OnceEach(Order)
    BY DEF EstimateInv, Inv, TypeOK, Deadlines
  <1>2. h \in Sendable /\ (c # NoPacket => c.requestor = q)
    BY ReadySendable
  <1>3. /\ OrderTemp(c) \in Seq(Requestors) /\ OnceEach(OrderTemp(c))
        /\ q # r => InFront(r, OrderTemp(c)) \subseteq InFront(r, Order)
    <2>1. CASE c # NoPacket /\ c.type \in CAS /\ c.requestor \in ToSet(Order)
      <3>1. PICK m \in 1..Len(Order) : Order[m] = q
        BY <2>1, <1>1, <1>2, LenProperties DEF ToSet
      <3>2. OrderTemp(c) = Append(RemoveFirst(Order, Order[m]), Order[m])
        BY <2>1, <3>1, <1>2 DEF OrderTemp
      <3> QED BY <3>1, <3>2, <1>1, MovedBack
    <2>2. CASE ~(c # NoPacket /\ c.type \in CAS /\ c.requestor \in ToSet(Order))
      <3>1. OrderTemp(c) = Order
        BY <2>2 DEF OrderTemp
      <3> QED BY <3>1, <1>1
    <2> QED BY <2>1, <2>2
  <1>4. /\ Fits(u) /\ Fits(s) /\ Limit(u) \in Nat /\ Limit(s) \in Nat
        /\ q # r => Easier(u, s)
    <2>1. o \in Seq(Requestors) /\ OnceEach(o)
      BY <1>1, <1>3
    <2> QED BY <1>1, <1>3, <2>1, SituationFits, Terms
  <1>5. /\ WCLatorC(r, c) = Worst(Recorded(r, NewC(u, h), OpenC(u, h), ClosedC(u, h)))
        /\ WCLatorA(r, o) = Worst(Recorded(r, NewA(s), OpenA(s), ClosedA(s)))
    BY DEF WCLatorC, WCLatorA
  <1>6. (q = r => u = s) /\ (q # r => ~h.own)
    BY <1>2 DEF Chosen, None
  <1> HIDE DEF o, u, s, h
  <1>7. g \in Sendable /\ (~h.own => g = h)
    <2>1. h.own /\ h.type = "RD" => [h EXCEPT !.type = "ACT"] \in Sendable
      BY <1>2 DEF Sendable, None
    <2> QED BY <1>2, <2>1 DEF Seen
  <1> HIDE DEF g
  <1>8. /\ OpenC(u, h) = Open(u, h) /\ ClosedC(u, h) = Closed(u, g) /\ NewC(u, h) = New(u, g)
    BY DEF OpenC, ClosedC, NewC, g
  <1>9. ASSUME NEW f \in Sendable, f = h \/ f = g
        PROVE  /\ Dominated(Open(u, f), Open(s, f)) /\ Dominated(Closed(u, f), Closed(s, f))
               /\ Dominated(New(u, f), New(s, f))
    <2>1. CASE q # r
      <3>1. ~f.own
        BY <2>1, <1>6, <1>7, <1>9
      <3> QED BY <2>1, <3>1, <1>4, FewerInFront
    <2>2. CASE q = r
      <3>1. /\ Within(Open(s, f), 0, Limit(s)) /\ Within(Closed(s, f), 0, Limit(s))
            /\ Within(New(s, f), 0, Limit(s))
        BY <1>4, BranchBounds
      <3>2. \A x, y : x \in Nat /\ x = y => x <= y
        OBVIOUS
      <3>3. ASSUME NEW S, Within(S, 0, Limit(s)) PROVE Dominated(S, S)
        BY <3>2, <3>3 DEF Within, Dominated
      <3> QED BY <2>2, <1>6, <3>1, <3>3
    <2> QED BY <2>1, <2>2
  <1>10. ASSUME NEW f \in Sendable, NEW S, NEW T, NEW U, Within(S, 0, Limit(u)), Within(T, 0, Limit(s)),
                Within(U, 0, Limit(s)), Dominated(S, T), T \subseteq U
         PROVE  Worst(S) <= Worst(U)
    <2>1. Dominated(S, U)
      BY <1>10 DEF Dominated
    <2> QED BY <1>4, <1>10, <2>1, WorstBelow
  <1>11. ASSUME NEW f \in Sendable
         PROVE  /\ Open(s, f) \subseteq OpenA(s) /\ Closed(s, f) \subseteq ClosedA(s)
                /\ New(s, f) \subseteq NewA(s)
    BY DEF OpenA, ClosedA, NewA
  <1>12. /\ Within(OpenA(s), 0, Limit(s)) /\ Within(ClosedA(s), 0, Limit(s))
         /\ Within(NewA(s), 0, Limit(s))
    BY <1>4, Sendable \in SUBSET Sendable, MoreCommands DEF OpenA, ClosedA, NewA
  <1>13. ASSUME NEW f \in Sendable
         PROVE  /\ Within(Open(u, f), 0, Limit(u)) /\ Within(Closed(u, f), 0, Limit(u))
                /\ Within(New(u, f), 0, Limit(u)) /\ Within(Open(s, f), 0, Limit(s))
                /\ Within(Closed(s, f), 0, Limit(s)) /\ Within(New(s, f), 0, Limit(s))
    BY <1>4, BranchBounds
  <1>14. /\ Worst(OpenC(u, h)) <= Worst(OpenA(s)) /\ Worst(ClosedC(u, h)) <= Worst(ClosedA(s))
         /\ Worst(NewC(u, h)) <= Worst(NewA(s))
    <2>1. Worst(Open(u, h)) <= Worst(OpenA(s))
      BY <1>2, <1>9, <1>10, <1>11, <1>12, <1>13
    <2>2. Worst(Closed(u, g)) <= Worst(ClosedA(s))
      BY <1>7, <1>9, <1>10, <1>11, <1>12, <1>13
    <2>3. Worst(New(u, g)) <= Worst(NewA(s))
      BY <1>7, <1>9, <1>10, <1>11, <1>12, <1>13
    <2> QED BY <1>8, <2>1, <2>2, <2>3
  <1>15. WCLatorC(r, c) <= WCLatorA(r, o)
    BY <1>5, <1>14 DEF Recorded
  <1> QED BY <1>15 DEF o

--------------------------------------------------------------------------------
(* The theorems about the estimator. *)

\* With nothing sent by HPA, which B always considers, there is an estimate that reaches
\* the transfer.
LEMMA Reaches ==
    ASSUME NEW s, Fits(s), s.old \in {"PRE", "RD", "WR"}
    PROVE  LET low == (IF s.old = "WR" THEN tWL ELSE tRL) + tBUS
           IN  /\ s.old # "PRE" => \E x \in Open(s, None) : x >= low
               /\ \E x \in Closed(s, None) : x >= low
               /\ \E x \in New(s, None) : x >= low
  <1> DEFINE low == (IF s.old = "WR" THEN tWL ELSE tRL) + tBUS
  <1>1. None \in Sendable /\ ~None.own
    BY DEF Sendable, None
  <1>2. /\ Read(s, None) # {} /\ \A n : Write(s, None, n) # {}
        /\ Precharge(s, None) # {}
    BY <1>1 DEF Read, Write, Precharge
  <1>3. /\ Within(Read(s, None), tRL + tBUS, Limit(s))
        /\ Within(Write(s, None, 0), tWL + tBUS, Limit(s))
        /\ Within(Write(s, None, s.rd * tCCD), tWL + tBUS, Limit(s))
        /\ Within(Precharge(s, None), tRL + tBUS, Limit(s))
    BY <1>1, Bounds
  <1>4. ASSUME NEW S, NEW n \in Nat, S # {}, Within(S, n, Limit(s)) PROVE \E x \in S : x >= n
    BY <1>4 DEF Within
  <1>5. tRL + tBUS \in Nat /\ tWL + tBUS \in Nat
    BY Timings
  <1>6. CASE s.old = "RD"
    <2>1. Open(s, None) = Read(s, None) /\ Closed(s, None) = Read(s, None) /\ New(s, None) = Read(s, None)
      BY <1>6 DEF Open, Closed, New
    <2>2. low = tRL + tBUS
      BY <1>6
    <2>3. \E x \in Read(s, None) : x >= tRL + tBUS
      BY <1>2, <1>3, <1>4, <1>5
    <2> QED BY <2>1, <2>2, <2>3
  <1>7. CASE s.old = "WR"
    <2>1. /\ Open(s, None) = Write(s, None, 0) /\ Closed(s, None) = Write(s, None, s.rd * tCCD)
          /\ New(s, None) = Write(s, None, 0)
      BY <1>7 DEF Open, Closed, New
    <2>2. low = tWL + tBUS
      BY <1>7
    <2>3. /\ \E x \in Write(s, None, 0) : x >= tWL + tBUS
          /\ \E x \in Write(s, None, s.rd * tCCD) : x >= tWL + tBUS
      BY <1>2, <1>3, <1>4, <1>5
    <2> QED BY <2>1, <2>2, <2>3
  <1>8. CASE s.old = "PRE"
    <2>1. Closed(s, None) = Precharge(s, None) /\ New(s, None) = Precharge(s, None)
      BY <1>8 DEF Closed, New
    <2>2. low = tRL + tBUS
      BY <1>8
    <2>3. \E x \in Precharge(s, None) : x >= tRL + tBUS
      BY <1>2, <1>3, <1>4, <1>5
    <2> QED BY <1>8, <2>1, <2>2, <2>3
  <1> QED BY <1>6, <1>7, <1>8

LEMMA Covered ==
    ASSUME EstimateInv, phase = "decide", NEW r \in Requestors, NEW anything,
           rtQ[r] # <<>>, returnOldest(r).type # "ACT"
    PROVE  WCLator(r, anything) >= (IF returnOldest(r).type = "WR" THEN tWL ELSE tRL) + tBUS
  <1> DEFINE s == Situation(r, Order)
             ready == ReadyHPA(r, anything)
             low == (IF s.old = "WR" THEN tWL ELSE tRL) + tBUS
  <1>1. Fits(s) /\ Limit(s) \in Nat /\ s.old = returnOldest(r).type
    BY SituationFits, Terms DEF EstimateInv, Inv, TypeOK, Deadlines
  <1>2. ready \cup {None} \in SUBSET Sendable
    BY ReadySendable
  <1>3. s.old \in {"PRE", "RD", "WR"} /\ (s.old = rtQ[r][1].type)
    <2>1. rtQ[r][1] \in Packets /\ HeadOf(rtQ[r]) = rtQ[r][1]
      BY BothFilled DEF EstimateInv
    <2> QED BY <1>1, <2>1 DEF Packets, CAS, returnOldest
  <1>4. req_statues_flag[r] /\ req_open[r] => s.old # "PRE"
    BY <1>3 DEF EstimateInv, Inv, Decision, RecordInv, Remembered
  <1>5. low \in Nat
    BY Timings
  <1>6. WCLator(r, anything) = Worst(Recorded(r, NewB(s, ready), OpenB(s, ready), ClosedB(s, ready)))
    BY DEF WCLator
  <1>7. /\ s.old # "PRE" => \E x \in Open(s, None) : x >= low
        /\ \E x \in Closed(s, None) : x >= low
        /\ \E x \in New(s, None) : x >= low
    BY <1>1, <1>3, Reaches
  <1> HIDE DEF s, ready, low
  <1>8. /\ Within(OpenB(s, ready), 0, Limit(s)) /\ Within(ClosedB(s, ready), 0, Limit(s))
        /\ Within(NewB(s, ready), 0, Limit(s))
    BY <1>1, <1>2, MoreCommands DEF OpenB, ClosedB, NewB
  <1>9. /\ Open(s, None) \subseteq OpenB(s, ready) /\ Closed(s, None) \subseteq ClosedB(s, ready)
        /\ New(s, None) \subseteq NewB(s, ready)
    BY DEF OpenB, ClosedB, NewB
  <1>10. ASSUME NEW S, Within(S, 0, Limit(s)), NEW x \in S, x >= low PROVE Worst(S) >= low
    <2>1. Worst(S) \in Nat /\ x <= Worst(S) /\ x \in Nat
      BY <1>1, <1>10, WorstOf DEF Within
    <2> QED BY <2>1, <1>5, <1>10
  <1>11. /\ s.old # "PRE" => Worst(OpenB(s, ready)) >= low
         /\ Worst(ClosedB(s, ready)) >= low /\ Worst(NewB(s, ready)) >= low
    BY <1>7, <1>8, <1>9, <1>10
  <1>12. WCLator(r, anything) >= low
    BY <1>4, <1>6, <1>11 DEF Recorded
  <1> QED BY <1>1, <1>12 DEF low

\* Every waiting request but a late activate has an estimate that reaches its transfer,
\* for any timing of the device and any number of requestors.
THEOREM RequestsCovered == EstimateSpec => []EstimateCovers
  <1>1. EstimateInv => EstimateCovers
    <2> SUFFICES ASSUME EstimateInv, phase = "decide", NEW estimate \in Estimates, NEW r \in Requestors,
                        rtQ[r] # <<>>, returnOldest(r).type # "ACT"
                 PROVE  estimate[r] >= (IF returnOldest(r).type = "WR" THEN tWL ELSE tRL) + tBUS
      BY DEF EstimateCovers
    <2>1. PICK anything \in [Requestors -> BOOLEAN] :
                estimate = [q \in Requestors |-> WCLator(q, anything[q])]
      BY DEF Estimates
    <2>2. estimate[r] = WCLator(r, anything[r])
      BY <2>1
    <2> QED BY <2>2, Covered
  <1> QED BY <1>1, EstimateInvariance, PTL

\* An implementation of WCLator that knows more of the command of HPA never estimates more.
THEOREM KnowledgeLowers == EstimateSpec => []EstimatesOrdered
  <1>1. EstimateInv => EstimatesOrdered
    BY BNotAboveA, CNotAboveA DEF EstimatesOrdered
  <1> QED BY <1>1, EstimateInvariance, PTL
================================================================================
