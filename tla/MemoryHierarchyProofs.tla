------------------------- MODULE MemoryHierarchyProofs -------------------------
(***************************************************************************)
(* No access of a core is forgotten in the memory hierarchy, and requests  *)
(* are merged only into live demand requests for their own line: for any   *)
(* number of cores, sizes, programs and contents of the caches.            *)
(*                                                                         *)
(* The prefetcher stays on the stream of the reads, whatever its queue     *)
(* refuses: for any sizes, knobs and reads.                                *)
(***************************************************************************)
EXTENDS MemoryHierarchy, Prefetcher, ListLemmas

\* A request object has the fields of FreeReq, whatever their values are.
ReqOf(U) ==
    [place : U, at : U, type : U, core : U, line : U, state : U, dirty : U, func : U,
     uop : U, into : U, pool : U]
IsReq(q) == \E U : q \in ReqOf(U)

Places == {"free", "in", "fill", "wb", "out", "noc", "mc", "merged"}
DemandReq(q) == q.type \notin {"DPRF", "WB"}
\* The requests that have an entry of the MSHR.
TakesEntry(q) == q.place # "free" /\ ~q.pool /\ q.type # "WB"

\* The stores of this program that take no entry.
Stores == PooledStores(<<config, program>>)

\* A request on its own; P are the stores without an entry.
RequestSound(q, u, P) ==
    /\ IsReq(q) /\ q.place \in Places /\ q.pool \in BOOLEAN
    /\ q.uop \in DOMAIN u \cup {0}
    /\ q.uop # 0 => u[q.uop] # "new"
    /\ q.place = "free" => q.uop = 0
    /\ q.func \in {"-", "none", "icache", "dcache", "write_ack"}
    /\ q.func \in {"-", "none"} \/ q.type = "WB" => q.uop = 0
    /\ q.type = "WB" => /\ q.place \notin {"in", "merged"} /\ ~q.pool
                        /\ q.state \notin {"OUT_NEW", "NOC_NEW"}
    /\ q.pool => q.place # "merged" /\ q.uop \in P
IsTable(r) == r = [i \in Ids |-> r[i]]
Table(r, u, P) == IsTable(r) /\ \A i \in Ids : RequestSound(r[i], u, P)

\* The lists of the MSHRs hold the requests that have an entry, each once.
Listed(r, m) ==
    /\ m \in [Cores -> Seq(Ids)]
    /\ \A c \in Cores :
        /\ OnceEach(m[c]) /\ Len(m[c]) <= MshrSize
        /\ \A i \in Ids : Occurs(i, m[c]) <=> TakesEntry(r[i]) /\ r[i].core = c
    /\ \A i \in Ids : TakesEntry(r[i]) => r[i].core \in Cores

\* A merged request belongs to an older demand request of its core for its line.
MergedRight(r, m) ==
    \A i \in Ids : r[i].place = "merged" =>
        LET j == r[i].into
        IN  /\ j \in Ids /\ r[j].place # "merged" /\ DemandReq(r[j])
            /\ r[j].core = r[i].core /\ r[j].line = r[i].line
            /\ Precedes(j, i, m[r[i].core])

\* Every access is the business of at most one request, and if it waits of one that
\* nobody drops.
Owned(r, u) ==
    /\ 0 \notin DOMAIN u
    /\ \A i, j \in Ids : r[i].uop = r[j].uop /\ r[i].uop # 0 => i = j
    /\ \A v \in DOMAIN u : u[v] = "wait" =>
            \E i \in Ids : r[i].uop = v /\ r[i].place # "free" /\ DemandReq(r[i])

Sound(r, m, u, P) == Table(r, u, P) /\ Listed(r, m) /\ MergedRight(r, m) /\ Owned(r, u)

Program ==
    /\ \E s \in Scenarios : config = s[1] /\ program = s[2]
    /\ uop \in [DOMAIN program -> {"new", "wait", "done"}]

\* Where new requests are on their way down: never at an L1, at the L2 of their own core,
\* and past it if the L2 sends its misses into the network.
Local == {"l2_coupled_local", "no_cache"}
Right(place, at, state, core, policy) ==
    /\ place = "in" => at[1] # "L1" /\ (at[1] = "L2" => at = L2(core))
    /\ place = "out" /\ state = "OUT_NEW" => at[1] # "L1" /\ (at[1] = "L2" => policy \notin Local)
    /\ place = "noc" /\ state = "NOC_NEW" => at[1] \notin {"L1", "L2"}
Placed(q, policy) ==
    /\ q.place # "free" /\ q.type # "WB" => q.core \in Cores /\ q.line \in Nat
    /\ Right(q.place, q.at, q.state, q.core, policy)
InPlace(r, policy) == \A i \in Ids : Placed(r[i], policy)

\* The inductive invariant.
MemInv == Program /\ Sound(req, mshr, uop, Stores) /\ InPlace(req, config.policy)

--------------------------------------------------------------------------------
(* Changes of the table. *)

\* What a move leaves alone.
Alike(q, p) ==
    /\ p.type = q.type /\ p.core = q.core /\ p.line = q.line /\ p.func = q.func
    /\ p.uop = q.uop /\ p.into = q.into /\ p.pool = q.pool /\ p.dirty = q.dirty
OnlyIn(r, r2, i) == IsTable(r2) /\ \A j \in Ids \ {i} : r2[j] = r[j]

Moved(q, place, at, state) == [q EXCEPT !.place = place, !.at = at, !.state = state]

LEMMA MovedRequest ==
    ASSUME NEW q, IsReq(q), NEW place, NEW at, NEW state, NEW p, p = Moved(q, place, at, state)
    PROVE  IsReq(p) /\ Alike(q, p) /\ p.place = place /\ p.state = state /\ p.at = at
  <1> USE DEF Moved
  <1>1. PICK U : q \in ReqOf(U)
    BY DEF IsReq
  <1> DEFINE V == U \cup {place, at, state}
  <1>2. p \in ReqOf(V)
    BY <1>1 DEF ReqOf
  <1>3. Alike(q, p) /\ p.place = place /\ p.state = state /\ p.at = at
    BY <1>1 DEF ReqOf, Alike
  <1> QED BY <1>2, <1>3 DEF IsReq

LEMMA MoveIs ==
    ASSUME NEW r, IsTable(r), NEW i \in Ids, IsReq(r[i]), NEW place, NEW at, NEW state,
           NEW r2, r2 = Move(r, i, place, at, state)
    PROVE  /\ OnlyIn(r, r2, i) /\ IsReq(r2[i]) /\ Alike(r[i], r2[i])
           /\ r2[i].place = place /\ r2[i].state = state /\ r2[i].at = at
  <1> DEFINE p == Moved(r[i], place, at, state)
  <1>1. r2 = [r EXCEPT ![i] = p]
    BY DEF Move, Moved, IsTable
  <1>2. IsReq(p) /\ Alike(r[i], p) /\ p.place = place /\ p.state = state /\ p.at = at
    BY MovedRequest
  <1> HIDE DEF p
  <1>3. OnlyIn(r, r2, i) /\ r2[i] = p
    BY <1>1 DEF OnlyIn, IsTable
  <1> QED BY <1>2, <1>3

\* A request that is not merged can be moved, a write-back not to a place where misses
\* are served.
LEMMA Relocate ==
    ASSUME NEW r, NEW m, NEW u, NEW P, Sound(r, m, u, P), NEW i \in Ids, NEW r2,
           r[i].place \notin {"free", "merged"}, OnlyIn(r, r2, i), IsReq(r2[i]), Alike(r[i], r2[i]),
           r2[i].place \in Places \ {"free", "merged"},
           r2[i].type = "WB" => r2[i].place # "in" /\ r2[i].state \notin {"OUT_NEW", "NOC_NEW"}
    PROVE  Sound(r2, m, u, P)
  <1>1. \A j \in Ids : /\ Alike(r[j], r2[j])
                       /\ r2[j].place = "free" <=> r[j].place = "free"
                       /\ r2[j].place = "merged" <=> r[j].place = "merged"
    BY DEF OnlyIn, Alike
  <1>2. Table(r2, u, P)
    <2>1. RequestSound(r[i], u, P)
      BY DEF Sound, Table
    <2>2. RequestSound(r2[i], u, P)
      BY <2>1 DEF RequestSound, Alike
    <2> QED BY <2>2 DEF Sound, Table, OnlyIn
  <1>3. \A j \in Ids : (TakesEntry(r2[j]) <=> TakesEntry(r[j])) /\ (DemandReq(r2[j]) <=> DemandReq(r[j]))
    BY <1>1 DEF Alike, TakesEntry, DemandReq
  <1>4. Listed(r2, m)
    BY <1>1, <1>3 DEF Sound, Listed, Alike
  <1>5. MergedRight(r2, m)
    BY <1>1, <1>3 DEF Sound, MergedRight, Alike
  <1>6. Owned(r2, u)
    BY <1>1, <1>3 DEF Sound, Owned, Alike
  <1> QED BY <1>2, <1>4, <1>5, <1>6 DEF Sound

\* A request that is not there can be made one that no access and no list knows.
Wrote(q, p) == q.place = "free" /\ p.place = "wb" /\ p.type = "WB"
Grown(r, r2) ==
    IsTable(r2) /\ \A j \in Ids : r2[j] = r[j] \/ Wrote(r[j], r2[j])

LEMMA FreeId ==
    ASSUME NEW r, Spare(r)
    PROVE  NewId(r) \in Ids /\ r[NewId(r)].place = "free"
  <1> DEFINE free == {i \in Ids : r[i].place = "free"}
  <1>1. free \subseteq Nat /\ free # {}
    BY SizesAssumption DEF Spare
  <1>2. \E i \in free : \A j \in free : i <= j
    <2> HIDE DEF free
    <2> QED BY <1>1, Least
  <1>3. NewId(r) \in free
    <2> HIDE DEF free
    <2>1. (CHOOSE i \in free : \A j \in free : i <= j) \in free
      BY <1>2
    <2> QED BY <2>1 DEF NewId, free
  <1> QED BY <1>3

LEMMA WroteBack ==
    ASSUME NEW r, NEW m, NEW u, NEW P, Sound(r, m, u, P), Spare(r), NEW c, NEW core, NEW line,
           NEW r2, r2 = WriteBack(r, c, core, line)
    PROVE  Sound(r2, m, u, P) /\ Grown(r, r2)
  <1> DEFINE id == NewId(r)
             p == [FreeReq EXCEPT !.place = "wb", !.at = c, !.type = "WB", !.core = core,
                                  !.line = line, !.dirty = TRUE, !.func = "none"]
  <1>1. id \in Ids /\ r[id].place = "free"
    BY FreeId
  <1>2. r2 = [r EXCEPT ![id] = p]
    BY DEF WriteBack
  <1>3. /\ IsReq(p) /\ p.place = "wb" /\ p.type = "WB" /\ p.func = "none" /\ p.uop = 0 /\ p.pool = FALSE
        /\ p.state = "-"
    <2> DEFINE U == {"wb", c, "WB", core, line, TRUE, "none", 0, FALSE, "-"}
    <2>1. p \in ReqOf(U)
      BY DEF ReqOf, FreeReq
    <2>2. /\ p.place = "wb" /\ p.type = "WB" /\ p.func = "none" /\ p.uop = 0 /\ p.pool = FALSE
          /\ p.state = "-"
      BY DEF FreeReq
    <2> QED BY <2>1, <2>2 DEF IsReq
  <1> HIDE DEF id, p
  <1>4. IsTable(r2) /\ r2[id] = p /\ \A j \in Ids \ {id} : r2[j] = r[j]
    BY <1>1, <1>2 DEF Sound, Table, IsTable
  <1>5. Grown(r, r2)
    BY <1>1, <1>3, <1>4 DEF Grown, Wrote
  <1>6. Table(r2, u, P)
    <2>1. RequestSound(p, u, P)
      BY <1>3 DEF RequestSound, Places
    <2> QED BY <1>4, <2>1 DEF Sound, Table
  <1>7. \A j \in Ids : /\ TakesEntry(r2[j]) <=> TakesEntry(r[j])
                       /\ r2[j].place = "merged" <=> r[j].place = "merged"
                       /\ r2[j].uop = r[j].uop
    <2>1. r[id].uop = 0
      BY <1>1 DEF Sound, Table, RequestSound
    <2> QED BY <1>1, <1>3, <1>4, <2>1 DEF TakesEntry
  <1>8. Listed(r2, m)
    <2>1. \A j \in Ids : TakesEntry(r[j]) => r2[j] = r[j]
      BY <1>1, <1>4 DEF TakesEntry
    <2> QED BY <1>7, <2>1 DEF Sound, Listed
  <1>9. MergedRight(r2, m)
    <2> SUFFICES ASSUME NEW i \in Ids, r2[i].place = "merged"
                 PROVE  LET j == r2[i].into
                        IN  /\ j \in Ids /\ r2[j].place # "merged" /\ DemandReq(r2[j])
                            /\ r2[j].core = r2[i].core /\ r2[j].line = r2[i].line
                            /\ Precedes(j, i, m[r2[i].core])
      BY DEF MergedRight
    <2> DEFINE j == r[i].into
    <2>1. r[i].place = "merged" /\ r2[i] = r[i]
      BY <1>1, <1>4, <1>7
    <2>2. /\ j \in Ids /\ r[j].place # "merged" /\ DemandReq(r[j])
          /\ r[j].core = r[i].core /\ r[j].line = r[i].line /\ Precedes(j, i, m[r[i].core])
      BY <2>1 DEF Sound, MergedRight
    <2>3. r[i].core \in Cores
      <3>1. TakesEntry(r[i])
        BY <2>1 DEF Sound, Table, RequestSound, TakesEntry
      <3> QED BY <3>1 DEF Sound, Listed
    <2>4. TakesEntry(r[j])
      BY <2>2, <2>3 DEF Sound, Listed, Precedes, Occurs
    <2>5. r2[j] = r[j]
      BY <1>1, <1>4, <2>2, <2>4 DEF TakesEntry
    <2> QED BY <2>1, <2>2, <2>5
  <1>10. Owned(r2, u)
    <2>1. \A i \in Ids : r[i].uop # 0 => r2[i] = r[i]
      BY <1>1, <1>4 DEF Sound, Table, RequestSound
    <2>2. ASSUME NEW v \in DOMAIN u, u[v] = "wait"
          PROVE  \E i \in Ids : r2[i].uop = v /\ r2[i].place # "free" /\ DemandReq(r2[i])
      <3>1. PICK i \in Ids : r[i].uop = v /\ r[i].place # "free" /\ DemandReq(r[i])
        BY <2>2 DEF Sound, Owned
      <3> QED BY <1>1, <1>4, <3>1
    <2> QED BY <1>7, <2>2 DEF Sound, Owned
  <1> QED BY <1>5, <1>6, <1>8, <1>9, <1>10 DEF Sound

LEMMA FilledSound ==
    ASSUME NEW r, NEW m, NEW u, NEW P, Sound(r, m, u, P), Spare(r), NEW q, NEW c,
           NEW r2, r2 = Filled(r, q, c)
    PROVE  Sound(r2, m, u, P) /\ Grown(r, r2)
  <1>1. CASE r2 = r
    BY <1>1 DEF Grown, Wrote, Sound, Table
  <1>2. CASE r2 = WriteBack(r, c, q.core, Victim(cache[c])[1].line)
    BY <1>2, WroteBack
  <1> QED BY <1>1, <1>2 DEF Filled

--------------------------------------------------------------------------------
(* Requests that leave the table. *)

\* The lists m2 are those of m without the elements of G.
Thinned(m, m2, G) ==
    /\ m2 \in [Cores -> Seq(Ids)]
    /\ \A c \in Cores :
        /\ OnceEach(m2[c]) /\ Len(m2[c]) <= MshrSize
        /\ \A x \in Ids : Occurs(x, m2[c]) <=> Occurs(x, m[c]) /\ x \notin G
        /\ \A x, y \in Ids \ G : Precedes(x, y, m[c]) => Precedes(x, y, m2[c])

LEMMA ThinnedMshr ==
    ASSUME NEW r, NEW m, Listed(r, m), NEW G, NEW m2, m2 = Mshr(m, G)
    PROVE  Thinned(m, m2, G)
  <1>1. m2 = [c \in Cores |-> Kept(m[c], Ids \ G)]
    BY DEF Mshr
  <1>2. ASSUME NEW c \in Cores
        PROVE  /\ m2[c] \in Seq(Ids) /\ OnceEach(m2[c]) /\ Len(m2[c]) <= MshrSize
               /\ \A x \in Ids : Occurs(x, m2[c]) <=> Occurs(x, m[c]) /\ x \notin G
               /\ \A x, y \in Ids \ G : Precedes(x, y, m[c]) => Precedes(x, y, m2[c])
    <2>1. m[c] \in Seq(Ids) /\ OnceEach(m[c]) /\ Len(m[c]) <= MshrSize
      BY DEF Listed
    <2> DEFINE k == Kept(m[c], Ids \ G)
    <2>2. /\ k \in Seq(Ids) /\ Len(k) <= Len(m[c]) /\ OnceEach(k)
          /\ \A x : Occurs(x, k) <=> Occurs(x, m[c]) /\ x \in Ids \ G
          /\ \A x, y \in Ids \ G : Precedes(x, y, m[c]) => Precedes(x, y, k)
      BY <2>1, KeptProperties
    <2>3. m2[c] = k
      BY <1>1
    <2> HIDE DEF k
    <2>4. Len(k) \in Nat /\ Len(m[c]) \in Nat /\ MshrSize \in Nat
      BY <2>1, <2>2, LenProperties, SizesAssumption
    <2> QED BY <2>1, <2>2, <2>3, <2>4
  <1> QED BY <1>1, <1>2 DEF Thinned

LEMMA FreedIs ==
    ASSUME NEW r, IsTable(r), NEW G, NEW r2, r2 = Freed(r, G)
    PROVE  IsTable(r2) /\ \A j \in Ids : r2[j] = IF j \in G THEN FreeReq ELSE r[j]
  BY DEF Freed, IsTable

\* What is free is nobody's.
LEMMA FreeIs ==
    ASSUME NEW u, NEW P
    PROVE  RequestSound(FreeReq, u, P) /\ FreeReq.place = "free" /\ FreeReq.uop = 0
  <1> DEFINE U == {"free", MC, "-", 0, FALSE}
  <1>1. FreeReq \in ReqOf(U)
    BY DEF FreeReq, ReqOf
  <1> QED BY <1>1 DEF RequestSound, FreeReq, Places, IsReq

\* Requests can leave together with all that is merged into them, if no access still
\* waits for one of them.
LEMMA Released ==
    ASSUME NEW r, NEW m, NEW u, NEW P, Sound(r, m, u, P),
           NEW G, \A i \in Ids : r[i].place = "merged" /\ r[i].into \in G => i \in G,
           NEW m2, Thinned(m, m2, G),
           NEW u2, DOMAIN u2 = DOMAIN u, \A v \in DOMAIN u : u2[v] = u[v] \/ u2[v] = "done",
           \A i \in Ids : i \in G /\ DemandReq(r[i]) /\ r[i].uop # 0 => u2[r[i].uop] = "done",
           NEW r2, r2 = Freed(r, G)
    PROVE  Sound(r2, m2, u2, P)
  <1>1. IsTable(r2) /\ \A j \in Ids : r2[j] = IF j \in G THEN FreeReq ELSE r[j]
    BY FreedIs DEF Sound, Table
  <1>2. FreeReq.place = "free" /\ FreeReq.uop = 0 /\ RequestSound(FreeReq, u2, P)
    BY FreeIs
  <1>3. Table(r2, u2, P)
    <2>1. ASSUME NEW j \in Ids PROVE RequestSound(r[j], u2, P)
      <3>1. RequestSound(r[j], u, P)
        BY DEF Sound, Table
      <3>2. r[j].uop # 0 => u2[r[j].uop] # "new"
        BY <3>1 DEF RequestSound
      <3> QED BY <3>1, <3>2 DEF RequestSound
    <2> QED BY <1>1, <1>2, <2>1 DEF Table
  <1>4. \A j \in Ids : TakesEntry(r2[j]) <=> TakesEntry(r[j]) /\ j \notin G
    BY <1>1, <1>2 DEF TakesEntry
  <1>5. \A j \in Ids : j \notin G => r2[j] = r[j]
    BY <1>1
  <1>6. Listed(r2, m2)
    <2>1. ASSUME NEW c \in Cores, NEW i \in Ids
          PROVE  Occurs(i, m2[c]) <=> TakesEntry(r2[i]) /\ r2[i].core = c
      <3>1. Occurs(i, m2[c]) <=> Occurs(i, m[c]) /\ i \notin G
        BY DEF Thinned
      <3>2. Occurs(i, m[c]) <=> TakesEntry(r[i]) /\ r[i].core = c
        BY DEF Sound, Listed
      <3> QED BY <3>1, <3>2, <1>4, <1>5
    <2>2. \A i \in Ids : TakesEntry(r2[i]) => r2[i].core \in Cores
      BY <1>4, <1>5 DEF Sound, Listed
    <2> QED BY <2>1, <2>2 DEF Listed, Thinned
  <1>7. MergedRight(r2, m2)
    <2> SUFFICES ASSUME NEW i \in Ids, r2[i].place = "merged"
                 PROVE  LET j == r2[i].into
                        IN  /\ j \in Ids /\ r2[j].place # "merged" /\ DemandReq(r2[j])
                            /\ r2[j].core = r2[i].core /\ r2[j].line = r2[i].line
                            /\ Precedes(j, i, m2[r2[i].core])
      BY DEF MergedRight
    <2> DEFINE j == r[i].into
    <2>1. i \notin G /\ r2[i] = r[i] /\ r[i].place = "merged"
      BY <1>1, <1>2
    <2>2. /\ j \in Ids /\ r[j].place # "merged" /\ DemandReq(r[j])
          /\ r[j].core = r[i].core /\ r[j].line = r[i].line /\ Precedes(j, i, m[r[i].core])
      BY <2>1 DEF Sound, MergedRight
    <2>3. j \notin G
      BY <2>1
    <2>4. r[i].core \in Cores
      <3>1. TakesEntry(r[i])
        BY <2>1 DEF Sound, Table, RequestSound, TakesEntry
      <3> QED BY <3>1 DEF Sound, Listed
    <2>5. Precedes(j, i, m2[r[i].core])
      BY <2>1, <2>2, <2>3, <2>4 DEF Thinned
    <2>6. r2[j] = r[j]
      BY <2>2, <2>3, <1>5
    <2> QED BY <2>1, <2>2, <2>5, <2>6
  <1>8. Owned(r2, u2)
    <2>1. \A i \in Ids : r2[i].uop # 0 => r2[i] = r[i]
      BY <1>1, <1>2
    <2>2. ASSUME NEW v \in DOMAIN u2, u2[v] = "wait"
          PROVE  \E i \in Ids : r2[i].uop = v /\ r2[i].place # "free" /\ DemandReq(r2[i])
      <3>1. u[v] = "wait" /\ v \in DOMAIN u
        BY <2>2
      <3>2. PICK i \in Ids : r[i].uop = v /\ r[i].place # "free" /\ DemandReq(r[i])
        BY <3>1 DEF Sound, Owned
      <3>3. r[i].uop = 0 => FALSE
        BY <3>2, <3>1 DEF Sound, Owned
      <3>4. i \notin G
        BY <3>2, <3>3, <2>2
      <3> QED BY <1>5, <3>2, <3>4
    <2> QED BY <2>1, <2>2 DEF Sound, Owned
  <1> QED BY <1>3, <1>6, <1>7, <1>8 DEF Sound

--------------------------------------------------------------------------------
(* The done functions. *)

\* A request that is served is not merged itself, and only its state changes if it has to
\* wait for a port.
InState(r, i, stay) == [r EXCEPT ![i].state = stay]

LEMMA Waits ==
    ASSUME NEW r, NEW m, NEW u, NEW P, Sound(r, m, u, P), NEW i \in Ids, r[i].place \in {"in", "fill"},
           NEW stay, stay = r[i].state \/ stay = "FILL_WAIT_DONE",
           NEW r2, r2 = InState(r, i, stay)
    PROVE  /\ Sound(r2, m, u, P)
           /\ \A j \in Ids : Alike(r[j], r2[j]) /\ r2[j].place = r[j].place
  <1> DEFINE p == [r[i] EXCEPT !.state = stay]
  <1>1. IsTable(r) /\ RequestSound(r[i], u, P) /\ IsReq(r[i])
    BY DEF Sound, Table, RequestSound
  <1>2. r2 = [r EXCEPT ![i] = p]
    BY <1>1 DEF IsTable, InState
  <1>3. PICK U : r[i] \in ReqOf(U)
    BY <1>1 DEF IsReq
  <1>4. p \in ReqOf(U \cup {stay}) /\ Alike(r[i], p) /\ p.place = r[i].place /\ p.state = stay
    BY <1>3 DEF ReqOf, Alike
  <1> HIDE DEF p
  <1>5. OnlyIn(r, r2, i) /\ r2[i] = p
    BY <1>1, <1>2 DEF OnlyIn, IsTable
  <1>6. IsReq(p)
    BY <1>4 DEF IsReq
  <1>7. p.type = "WB" => p.place # "in" /\ p.state \notin {"OUT_NEW", "NOC_NEW"}
    BY <1>1, <1>4 DEF RequestSound, Alike
  <1>8. p.place \in Places \ {"free", "merged"} /\ r[i].place \notin {"free", "merged"}
    BY <1>4 DEF Places
  <1>9. Sound(r2, m, u, P)
    BY <1>4, <1>5, <1>6, <1>7, <1>8, Relocate
  <1>10. \A j \in Ids : Alike(r[j], r2[j]) /\ r2[j].place = r[j].place
    BY <1>4, <1>5 DEF OnlyIn, Alike
  <1> QED BY <1>9, <1>10

\* Accesses only end.
Ended(u, u2) == u2 = [v \in DOMAIN u |-> u2[v]] /\ \A v \in DOMAIN u : u2[v] \in {u[v], "done"}

LEMMA DoneSound ==
    ASSUME NEW r, Sound(r, mshr, uop, Stores), NEW i \in Ids, r[i].place \in {"in", "fill"},
           NEW c, NEW lines, NEW stay, stay = r[i].state \/ stay = "FILL_WAIT_DONE",
           DoneFunc(i, c, r, lines, stay)
    PROVE  /\ Sound(req', mshr', uop', Stores)
           /\ Ended(uop, uop')
  <1>1. PICK S \in SUBSET Ids :
            /\ Served(r, i, S) /\ Spare(r)
            /\ \E fills \in {Cardinality(DataFills(r, Reached(r, i, S)))} :
                LET l1 == L1(r[i].core)
                    r1 == IF fills > 0 THEN Filled(r, r[i], l1) ELSE r
                    gone == IF Finishes(r, i, S) THEN S \cup {i} ELSE S
                IN  /\ req' = Freed(IF i \in gone THEN r1 ELSE [r1 EXCEPT ![i].state = stay], gone)
                    /\ mshr' = Mshr(mshr, gone)
                    /\ uop' = [v \in DOMAIN uop |->
                                IF \E j \in Reached(r, i, S) : r[j].uop = v THEN "done" ELSE uop[v]]
    BY DEF DoneFunc
  <1> DEFINE fills == Cardinality(DataFills(r, Reached(r, i, S)))
             r1 == IF fills > 0 THEN Filled(r, r[i], L1(r[i].core)) ELSE r
             gone == IF Finishes(r, i, S) THEN S \cup {i} ELSE S
             x == IF i \in gone THEN r1 ELSE [r1 EXCEPT ![i].state = stay]
  <1>2. req' = Freed(x, gone) /\ mshr' = Mshr(mshr, gone)
    BY <1>1
  <1>3. /\ DOMAIN uop' = DOMAIN uop /\ Ended(uop, uop')
        /\ \A v \in DOMAIN uop : /\ uop'[v] = uop[v] \/ uop'[v] = "done"
                                 /\ (\E j \in Reached(r, i, S) : r[j].uop = v) => uop'[v] = "done"
    BY <1>1 DEF Ended
  <1>4. Sound(r1, mshr, uop, Stores) /\ Grown(r, r1)
    <2>1. CASE fills > 0
      <3>1. r1 = Filled(r, r[i], L1(r[i].core))
        BY <2>1
      <3> HIDE DEF r1
      <3> QED BY <1>1, <3>1, FilledSound
    <2>2. CASE ~(fills > 0)
      BY <2>2 DEF Grown, Wrote, Sound, Table
    <2> QED BY <2>1, <2>2
  <1>5. S \subseteq MergedInto(r, i) /\ (i \in gone => S = MergedInto(r, i)) /\ i \notin S
    <2>1. S \subseteq MergedInto(r, i)
      BY <1>1 DEF Served
    <2>2. i \notin S
      BY <2>1 DEF MergedInto
    <2>3. Finishes(r, i, S) => S = MergedInto(r, i)
      BY DEF Finishes
    <2> QED BY <2>1, <2>2, <2>3
  <1>6. i \in gone => Finishes(r, i, S)
    BY <1>5
  <1>7. S \subseteq gone /\ gone \subseteq S \cup {i}
    OBVIOUS
  <1> HIDE DEF fills, r1, gone
  <1>8. r1[i] = r[i]
    BY <1>4 DEF Grown, Wrote
  <1>9. /\ Sound(x, mshr, uop, Stores)
        /\ \A j \in Ids : Alike(r1[j], x[j]) /\ x[j].place = r1[j].place
    <2>1. CASE i \in gone
      BY <2>1, <1>4 DEF Alike
    <2>2. CASE i \notin gone
      <3>1. x = InState(r1, i, stay)
        BY <2>2 DEF InState
      <3> HIDE DEF x
      <3> QED BY ONLY <3>1, <1>4, <1>8, i \in Ids, r[i].place \in {"in", "fill"},
                    stay = r[i].state \/ stay = "FILL_WAIT_DONE", Waits
    <2> QED BY <2>1, <2>2
  <1> HIDE DEF x
  \* Nothing is left merged into what is gone.
  <1>10. ASSUME NEW j \in Ids, x[j].place = "merged", x[j].into \in gone PROVE j \in gone
    <2>1. r1[j].place = "merged" /\ r1[j].into = x[j].into
      BY <1>9, <1>10 DEF Alike
    <2>2. r1[j] = r[j]
      BY <1>4, <2>1 DEF Grown, Wrote
    <2>3. r[j].into \in Ids /\ r[r[j].into].place # "merged"
      BY <2>1, <2>2 DEF Sound, MergedRight
    <2>4. r[j].into \notin S
      BY <1>5, <2>3 DEF MergedInto
    <2>5. r[j].into = i /\ i \in gone
      BY <1>7, <1>10, <2>1, <2>2, <2>4
    <2>6. j \in MergedInto(r, i)
      BY <2>1, <2>2, <2>5 DEF MergedInto
    <2> QED BY <1>5, <1>7, <2>5, <2>6
  \* Nobody waits for it.
  <1>11. ASSUME NEW j \in Ids, j \in gone, DemandReq(x[j]), x[j].uop # 0 PROVE uop'[x[j].uop] = "done"
    <2>1. r1[j] = r[j]
      <3>1. r[j].place # "free"
        BY <1>5, <1>7, <1>11 DEF MergedInto
      <3> QED BY <1>4, <3>1 DEF Grown, Wrote
    <2>2. x[j].uop = r[j].uop /\ r[j].uop # 0
      BY <1>9, <1>11, <2>1 DEF Alike
    <2>3. RequestSound(r[j], uop, Stores)
      BY DEF Sound, Table
    <2>4. r[j].uop \in DOMAIN uop /\ r[j].func \in {"icache", "dcache", "write_ack"}
      BY <2>2, <2>3 DEF RequestSound
    <2>5. j \in Reached(r, i, S)
      <3>1. CASE j \in S
        BY <3>1 DEF Reached
      <3>2. CASE j = i
        BY <3>2, <1>6, <1>11, <2>4 DEF Reached
      <3> QED BY <1>7, <1>11, <3>1, <3>2
    <2> QED BY <1>3, <2>2, <2>4, <2>5
  <1>12. Thinned(mshr, mshr', gone)
    BY <1>2, <1>4, ThinnedMshr DEF Sound
  <1>13. Sound(req', mshr', uop', Stores)
    BY ONLY <1>2, <1>3, <1>9, <1>10, <1>11, <1>12, Released
  <1> QED BY <1>3, <1>13

--------------------------------------------------------------------------------
(* The queues. *)

LEMMA MoveSound ==
    ASSUME NEW r, NEW m, NEW u, NEW P, Sound(r, m, u, P), NEW i \in Ids,
           r[i].place \notin {"free", "merged"},
           NEW place \in Places \ {"free", "merged"}, NEW at, NEW state,
           r[i].type = "WB" => place # "in" /\ state \notin {"OUT_NEW", "NOC_NEW"},
           NEW r2, r2 = Move(r, i, place, at, state)
    PROVE  Sound(r2, m, u, P)
  <1>1. IsTable(r) /\ IsReq(r[i])
    BY DEF Sound, Table, RequestSound
  <1>2. /\ OnlyIn(r, r2, i) /\ IsReq(r2[i]) /\ Alike(r[i], r2[i])
        /\ r2[i].place = place /\ r2[i].state = state
    BY <1>1, MoveIs
  <1>3. r2[i].type = r[i].type
    BY <1>2 DEF Alike
  <1> QED BY <1>2, <1>3, Relocate

LEMMA UpwardsIs ==
    ASSUME NEW r, NEW m, NEW u, NEW P, Sound(r, m, u, P), NEW i \in Ids, r[i].place = "fill",
           NEW r2, r2 = Upwards(i, r)
    PROVE  \E place \in {"fill", "out"}, state \in {"FILL_WAIT_FILL", "FILL_NEW", "OUT_FILL"} :
                \E at : /\ r2 = Move(r, i, place, at, state)
                        /\ at = r[i].at \/ (state = "FILL_NEW" /\ at = <<Up(r[i].at), r[i].core>>)
                        /\ place = "out" <=> state = "OUT_FILL"
  <1> DEFINE c == r[i].at
             up == <<Up(c), r[i].core>>
  <1>1. IsTable(r) /\ IsReq(r[i])
    BY DEF Sound, Table, RequestSound
  <1>2. PICK U : r[i] \in ReqOf(U)
    BY <1>1 DEF IsReq
  <1> HIDE DEF c, up
  <1> DEFINE waits == [r[i] EXCEPT !.state = "FILL_WAIT_FILL"]
             fills == [r[i] EXCEPT !.place = "fill", !.at = up, !.state = "FILL_NEW"]
             leaves == [r[i] EXCEPT !.place = "out", !.state = "OUT_FILL"]
  <1>3. \E q \in {waits, fills, leaves} : r2 = [r EXCEPT ![i] = q]
    BY DEF Upwards, up, c
  <1>4. /\ waits = Moved(r[i], "fill", c, "FILL_WAIT_FILL")
        /\ fills = Moved(r[i], "fill", up, "FILL_NEW")
        /\ leaves = Moved(r[i], "out", c, "OUT_FILL")
    BY <1>2 DEF Moved, ReqOf, c
  <1> HIDE DEF waits, fills, leaves
  <1>5. PICK q \in {waits, fills, leaves} : r2 = [r EXCEPT ![i] = q]
    BY <1>3
  <1>6. PICK place \in {"fill", "out"}, state \in {"FILL_WAIT_FILL", "FILL_NEW", "OUT_FILL"}, at \in {c, up} :
            /\ q = Moved(r[i], place, at, state)
            /\ at = c \/ state = "FILL_NEW"
            /\ place = "out" <=> state = "OUT_FILL"
    BY <1>4
  <1>7. r2 = Move(r, i, place, at, state)
    <2>1. r2 = [r EXCEPT ![i] = Moved(r[i], place, at, state)]
      BY <1>5, <1>6
    <2> QED BY <1>1, <2>1 DEF Move, Moved, IsTable
  <1> QED BY <1>6, <1>7 DEF c, up

LEMMA UpwardsSound ==
    ASSUME NEW r, NEW m, NEW u, NEW P, Sound(r, m, u, P), NEW i \in Ids, r[i].place = "fill",
           NEW r2, r2 = Upwards(i, r)
    PROVE  Sound(r2, m, u, P)
  <1>1. PICK place \in {"fill", "out"}, state \in {"FILL_WAIT_FILL", "FILL_NEW", "OUT_FILL"} :
            \E at : r2 = Move(r, i, place, at, state)
    BY UpwardsIs
  <1>2. PICK at : r2 = Move(r, i, place, at, state)
    BY <1>1
  <1>8. place \in Places \ {"free", "merged"} /\ place # "in" /\ state \notin {"OUT_NEW", "NOC_NEW"}
    BY DEF Places
  <1>9. r[i].place \notin {"free", "merged"}
    OBVIOUS
  <1> QED BY ONLY <1>2, <1>8, <1>9, Sound(r, m, u, P), i \in Ids, MoveSound

\* Requests no access waits for can be dropped: nothing is merged into them.
LEMMA Dropped ==
    ASSUME NEW r, NEW m, NEW u, NEW P, Sound(r, m, u, P), NEW G, \A i \in Ids : i \in G => ~DemandReq(r[i]),
           NEW m2, Thinned(m, m2, G), NEW r2, r2 = Freed(r, G)
    PROVE  Sound(r2, m2, u, P)
  <1>1. ASSUME NEW i \in Ids, r[i].place = "merged", r[i].into \in G PROVE i \in G
    BY <1>1 DEF Sound, MergedRight
  <1>2. DOMAIN u = DOMAIN u /\ \A v \in DOMAIN u : u[v] = u[v] \/ u[v] = "done"
    OBVIOUS
  <1>3. \A i \in Ids : i \in G /\ DemandReq(r[i]) /\ r[i].uop # 0 => u[r[i].uop] = "done"
    OBVIOUS
  <1> QED BY <1>1, <1>2, <1>3, Released

\* A write-back has no entry of the MSHR.
LEMMA DroppedWriteBack ==
    ASSUME NEW r, NEW m, NEW u, NEW P, Sound(r, m, u, P), NEW i \in Ids, r[i].type = "WB",
           NEW r2, r2 = Freed(r, {i})
    PROVE  Sound(r2, m, u, P)
  <1>1. \A c \in Cores : ~Occurs(i, m[c])
    BY DEF Sound, Listed, TakesEntry
  <1>2. Thinned(m, m, {i})
    BY <1>1 DEF Sound, Listed, Thinned
  <1>3. \A j \in Ids : j \in {i} => ~DemandReq(r[j])
    BY DEF DemandReq
  <1> QED BY <1>2, <1>3, Dropped

\* What a step of a request keeps.
Holds ==
    /\ Sound(req', mshr', uop', Stores)
    /\ uop' = uop \/ Ended(uop, uop')

LEMMA InStep ==
    ASSUME Sound(req, mshr, uop, Stores), NEW i \in Ids, InHit(i) \/ InMiss(i)
    PROVE  Holds
  <1>1. req[i].place = "in"
    BY DEF InHit, InMiss
  <1>2. req[i].place \notin {"free", "merged"} /\ {"in", "fill", "out"} \subseteq Places \ {"free", "merged"}
        /\ req[i].type # "WB"
    BY <1>1 DEF Sound, Table, RequestSound, Places
  <1>3. ASSUME mshr' = mshr, uop' = uop, NEW place \in {"in", "fill", "out"}, NEW at, NEW state,
               req' = Move(req, i, place, at, state)
        PROVE  Holds
    <2>1. place \in Places \ {"free", "merged"}
      BY <1>2, <1>3
    <2>2. Sound(req', mshr, uop, Stores)
      BY ONLY <1>2, <1>3, <2>1, Sound(req, mshr, uop, Stores), i \in Ids, MoveSound
    <2> QED BY <1>3, <2>2 DEF Holds
  <1>4. CASE InMiss(i)
    <2>1. mshr' = mshr /\ uop' = uop
      BY <1>4 DEF InMiss
    <2>2. PICK at : \/ req' = insert(req, i, at)
                    \/ req' = Move(req, i, "out", at, "OUT_NEW")
      BY <1>4 DEF InMiss
    <2> QED BY <1>3, <2>1, <2>2 DEF insert
  <1>5. CASE InHit(i)
    <2>1. PICK c, lines : \/ DoneFunc(i, c, req, lines, req[i].state)
                          \/ /\ mshr' = mshr /\ uop' = uop
                             /\ \E at : \/ req' = req
                                        \/ req' = fill(req, i, at)
                                        \/ req' = Move(req, i, "out", at, "OUT_FILL")
      BY <1>5 DEF InHit
    <2>2. CASE DoneFunc(i, c, req, lines, req[i].state)
      BY ONLY <1>1, <2>2, Sound(req, mshr, uop, Stores), i \in Ids, DoneSound DEF Holds
    <2>3. CASE mshr' = mshr /\ uop' = uop /\ req' = req
      BY <2>3 DEF Holds
    <2>4. ASSUME mshr' = mshr, uop' = uop, NEW at, \/ req' = fill(req, i, at)
                                                   \/ req' = Move(req, i, "out", at, "OUT_FILL")
          PROVE  Holds
      BY <1>3, <2>4 DEF fill
    <2> QED BY <2>1, <2>2, <2>3, <2>4
  <1> QED BY <1>4, <1>5

LEMMA FillStep ==
    ASSUME Sound(req, mshr, uop, Stores), NEW i \in Ids, FillNew(i) \/ FillWaitDone(i) \/ FillWaitFill(i)
    PROVE  Holds
  <1>1. req[i].place = "fill"
    BY DEF FillNew, FillWaitDone, FillWaitFill
  <1>2. CASE FillWaitFill(i)
    <2>1. req' = Upwards(i, req) /\ mshr' = mshr /\ uop' = uop
      BY <1>2 DEF FillWaitFill
    <2> QED BY <1>1, <2>1, UpwardsSound DEF Holds
  <1>3. CASE FillWaitDone(i)
    <2>1. PICK c, lines : DoneFunc(i, c, req, lines, "FILL_WAIT_DONE")
      BY <1>3 DEF FillWaitDone
    <2>2. Sound(req', mshr', uop', Stores) /\ Ended(uop, uop')
      BY <1>1, <2>1, DoneSound
    <2> QED BY <2>2 DEF Holds
  <1>4. CASE FillNew(i)
    <2> DEFINE r == Filled(req, req[i], req[i].at)
    <2>1. Spare(req)
      BY <1>4 DEF FillNew
    <2>2. PICK c, lines : \/ DoneFunc(i, c, r, lines, "FILL_WAIT_DONE")
                          \/ /\ mshr' = mshr /\ uop' = uop
                             /\ req' = IF req[i].type = "WB" THEN Freed(r, {i}) ELSE Upwards(i, r)
      BY <1>4 DEF FillNew
    <2> HIDE DEF r
    <2>3. Sound(r, mshr, uop, Stores) /\ Grown(req, r)
      BY <2>1, FilledSound DEF r
    <2>4. r[i] = req[i]
      BY <1>1, <2>3 DEF Grown, Wrote
    <2>5. CASE DoneFunc(i, c, r, lines, "FILL_WAIT_DONE")
      <3>1. Sound(req', mshr', uop', Stores) /\ Ended(uop, uop')
        BY <1>1, <2>3, <2>4, <2>5, DoneSound
      <3> QED BY <3>1 DEF Holds
    <2>6. CASE mshr' = mshr /\ uop' = uop /\ req' = Upwards(i, r)
      <3>1. Sound(req', mshr, uop, Stores)
        BY <1>1, <2>3, <2>4, <2>6, UpwardsSound
      <3> QED BY <2>6, <3>1 DEF Holds
    <2>7. CASE mshr' = mshr /\ uop' = uop /\ req[i].type = "WB" /\ req' = Freed(r, {i})
      <3>1. Sound(req', mshr, uop, Stores)
        BY <2>3, <2>4, <2>7, DroppedWriteBack
      <3> QED BY <2>7, <3>1 DEF Holds
    <2> QED BY <2>2, <2>5, <2>6, <2>7
  <1> QED BY <1>2, <1>3, <1>4

LEMMA NetworkStep ==
    ASSUME Sound(req, mshr, uop, Stores), NEW i \in Ids,
           ProcessOut(i) \/ ProcessWb(i) \/ receive_packet(i) \/ receive(i) \/ Answer(i)
    PROVE  Holds
  <1>1. uop' = uop
    BY DEF ProcessOut, ProcessWb, receive_packet, receive, Answer
  <1>2. req[i].place \in {"out", "wb", "noc", "mc"}
    BY DEF ProcessOut, ProcessWb, receive_packet, receive, Answer, Arrived
  <1>3. req[i].place \notin {"free", "merged"}
        /\ {"in", "fill", "out", "noc", "mc"} \subseteq Places \ {"free", "merged"}
    BY <1>2 DEF Places
  <1>4. req[i].type = "WB" => req[i].state \notin {"OUT_NEW", "NOC_NEW"}
    BY DEF Sound, Table, RequestSound
  <1>5. ASSUME mshr' = mshr, NEW place \in {"in", "fill", "out", "noc", "mc"}, NEW at, NEW state,
               req[i].type = "WB" => place # "in" /\ state \notin {"OUT_NEW", "NOC_NEW"},
               req' = Move(req, i, place, at, state)
        PROVE  Holds
    <2>1. place \in Places \ {"free", "merged"}
      BY <1>3, <1>5
    <2>2. Sound(req', mshr, uop, Stores)
      BY ONLY <1>3, <1>5, <2>1, Sound(req, mshr, uop, Stores), i \in Ids, MoveSound
    <2> QED BY <1>1, <1>5, <2>2 DEF Holds
  <1>6. CASE ProcessOut(i)
    <2>1. PICK at : mshr' = mshr /\ req' = Move(req, i, "noc", at,
                        IF req[i].state = "OUT_NEW" THEN "NOC_NEW" ELSE "NOC_FILL")
      BY <1>6 DEF ProcessOut, Sent
    <2> QED BY <1>4, <1>5, <2>1
  <1>7. CASE ProcessWb(i)
    <2>1. PICK at : mshr' = mshr /\ \/ req' = Move(req, i, "fill", at, "FILL_NEW")
                                    \/ req' = Move(req, i, "out", at, "OUT_WB")
      BY <1>7 DEF ProcessWb, fill
    <2> QED BY <1>5, <2>1
  <1>8. ASSUME Accepted(i) PROVE Holds
    <2>1. PICK at : mshr' = mshr /\ \/ req' = Move(req, i, "in", at, req[i].state) /\ req[i].state = "NOC_NEW"
                                    \/ req' = Move(req, i, "fill", at, "FILL_NEW")
                                    \/ req' = Move(req, i, "mc", at, req[i].state)
      BY <1>8 DEF Accepted, insert, fill
    <2> QED BY <1>4, <1>5, <2>1
  <1>9. CASE receive(i)
    <2>1. \/ Accepted(i)
          \/ req[i].type = "DPRF" /\ req' = Freed(req, {i}) /\ mshr' = Mshr(mshr, {i})
      BY <1>9 DEF receive
    <2>2. ASSUME req[i].type = "DPRF", req' = Freed(req, {i}), mshr' = Mshr(mshr, {i}) PROVE Holds
      <3>1. \A j \in Ids : j \in {i} => ~DemandReq(req[j])
        BY <2>2 DEF DemandReq
      <3>2. Thinned(mshr, mshr', {i})
        BY <2>2, ThinnedMshr DEF Sound
      <3>3. Sound(req', mshr', uop, Stores)
        BY <2>2, <3>1, <3>2, Dropped
      <3> QED BY <1>1, <3>3 DEF Holds
    <2> QED BY <1>8, <2>1, <2>2
  <1>10. CASE Answer(i)
    <2>1. PICK at : mshr' = mshr /\ \/ req[i].type = "WB" /\ req' = Freed(req, {i})
                                    \/ req' = Move(req, i, "noc", at, "NOC_FILL")
      BY <1>10 DEF Answer, Sent
    <2>2. CASE req[i].type = "WB" /\ req' = Freed(req, {i})
      <3>1. Sound(req', mshr, uop, Stores)
        BY <2>2, DroppedWriteBack
      <3> QED BY <1>1, <2>1, <3>1 DEF Holds
    <2> QED BY <1>5, <2>1, <2>2
  <1> QED BY <1>6, <1>7, <1>8, <1>9, <1>10 DEF receive_packet
--------------------------------------------------------------------------------
(* Where the queues and the network take new requests. *)

\* Behind a network a request for an L3 or for the memory never gets to an L1 or L2.
LEMMA ReceiverBelow ==
    ASSUME KnobsOk(config), NEW k \in Cores, NEW x,
           x = MC \/ (config.policy \notin Local /\ \E s \in Cores : x = L3(s))
    PROVE  Receiver(x)[1] \notin {"L1", "L2"}
  <1> DEFINE n == Cardinality(Cores)
             router(l) == Topology(config.policy)[l].router
             D == Caches \cup {MC}
             Gets(d) == (d = MC \/ At(d).router) /\ m_noc_id(d) = m_dst_map(x)
  <1>1. x[1] \in {"L3", "MC"}
    BY DEF MC, L3
  <1>2. CASE config.noc = "noc_c"
    BY <1>1, <1>2 DEF Receiver
  <1>3. CASE config.noc # "noc_c"
    <2>1. Receiver(x) = CHOOSE d \in D : Gets(d)
      BY <1>3 DEF Receiver
    <2>2. n \in Nat /\ n >= 1 /\ Cores = 0..(n - 1) /\ 0 \in Cores
      BY SizesAssumption, FS_CardinalityType
    <2>3. \/ config.policy # "l2_coupled_local" /\ ~router("L1") /\ router("L2") /\ router("L3")
          \/ config.policy = "l2_coupled_local" /\ router("L1") /\ router("L2") /\ router("L3")
      BY <1>3 DEF KnobsOk, Policies, Topology, Link
    <2> HIDE DEF n, router, Gets, D
    <2>4. ASSUME NEW c \in Cores
          PROVE  /\ m_noc_id(L1(c)) = c
                 /\ m_noc_id(L2(c)) = (IF router("L1") THEN n ELSE 0) + c
                 /\ m_noc_id(L3(c)) = (IF router("L1") THEN n ELSE 0) + n + c
                 /\ m_dst_map(L3(c)) = n + c
                 /\ At(L1(c)).router = router("L1") /\ At(L2(c)).router = router("L2")
                 /\ At(L3(c)).router = router("L3")
                 /\ L1(c)[1] = "L1" /\ L2(c)[1] = "L2" /\ L3(c)[1] = "L3"
      BY <2>2, <2>3 DEF m_noc_id, m_dst_map, L1, L2, L3, At, n, router
    <2>5. /\ m_noc_id(MC) = (IF router("L1") THEN n ELSE 0) + n + n
          /\ m_dst_map(MC) = 2 * n /\ MC[1] = "MC"
      BY <2>2, <2>3 DEF m_noc_id, m_dst_map, MC, At, n, router
    <2>6. \A d \in D : d = MC \/ \E c \in Cores : d = L1(c) \/ d = L2(c) \/ d = L3(c)
      BY DEF D, Caches, L1, L2, L3
    <2>7. D = Caches \cup {MC} /\ \A c \in Cores : L3(c) \in D
      BY DEF D, Caches, L3
    <2>8. \E d \in D : Gets(d)
      <3>1. CASE \E s \in Cores : x = L3(s) /\ config.policy # "l2_coupled_local"
        BY <2>2, <2>3, <2>4, <2>7, <3>1 DEF Gets
      <3>2. CASE x = MC /\ config.policy # "l2_coupled_local"
        BY <2>2, <2>3, <2>5, <2>7, <3>2 DEF Gets
      <3>3. CASE x = MC /\ config.policy = "l2_coupled_local"
        <4>1. m_noc_id(L3(0)) = m_dst_map(x) /\ At(L3(0)).router
          BY <2>2, <2>3, <2>4, <2>5, <3>3
        <4> QED BY <2>2, <2>7, <4>1 DEF Gets
      <3> QED BY <3>1, <3>2, <3>3 DEF Local
    <2>9. ASSUME NEW d \in D, Gets(d) PROVE d[1] \notin {"L1", "L2"}
      <3>1. d = MC \/ \E c \in Cores : d = L1(c) \/ d = L2(c) \/ d = L3(c)
        BY <2>6
      <3>2. m_dst_map(x) >= n /\ (x = MC => m_dst_map(x) = 2 * n) /\ (router("L1") => x = MC)
        BY <2>2, <2>3, <2>4, <2>5 DEF Local
      <3>3. ASSUME NEW c \in Cores, d = L1(c) PROVE FALSE
        BY <2>2, <2>3, <2>4, <2>5, <2>9, <3>2, <3>3 DEF Gets, MC, L1
      <3>4. ASSUME NEW c \in Cores, d = L2(c) PROVE FALSE
        BY <2>2, <2>3, <2>4, <2>5, <2>9, <3>2, <3>4 DEF Gets, MC, L2
      <3> QED BY <2>4, <2>5, <3>1, <3>3, <3>4
    <2> QED BY <2>1, <2>8, <2>9
  <1> QED BY <1>2, <1>3

LEMMA FreedPlaced ==
    ASSUME NEW r, IsTable(r), NEW policy, InPlace(r, policy), NEW G, NEW r2, r2 = Freed(r, G)
    PROVE  InPlace(r2, policy)
  <1>1. Placed(FreeReq, policy)
    BY DEF Placed, Right, FreeReq
  <1>2. \A j \in Ids : r2[j] = FreeReq \/ r2[j] = r[j]
    BY FreedIs
  <1> QED BY <1>1, <1>2 DEF InPlace

LEMMA MovedPlaced ==
    ASSUME NEW r, IsTable(r), NEW policy, InPlace(r, policy), NEW i \in Ids, IsReq(r[i]), r[i].place # "free",
           NEW place, NEW at, NEW state, Right(place, at, state, r[i].core, policy),
           NEW r2, r2 = Move(r, i, place, at, state)
    PROVE  InPlace(r2, policy)
  <1>1. /\ OnlyIn(r, r2, i) /\ Alike(r[i], r2[i])
        /\ r2[i].place = place /\ r2[i].state = state /\ r2[i].at = at
    BY MoveIs
  <1>2. Placed(r2[i], policy)
    BY <1>1 DEF Placed, Alike, InPlace
  <1> QED BY <1>1, <1>2 DEF InPlace, OnlyIn

LEMMA GrownPlaced ==
    ASSUME NEW r, NEW policy, InPlace(r, policy), NEW r2, Grown(r, r2)
    PROVE  InPlace(r2, policy)
  <1>1. \A j \in Ids : Wrote(r[j], r2[j]) => Placed(r2[j], policy)
    BY DEF Wrote, Placed, Right
  <1> QED BY <1>1 DEF InPlace, Grown

LEMMA WaitsPlaced ==
    ASSUME NEW r, IsTable(r), NEW policy, InPlace(r, policy), NEW i \in Ids, IsReq(r[i]),
           r[i].place \in {"in", "fill"}, NEW stay, NEW r2, r2 = InState(r, i, stay)
    PROVE  InPlace(r2, policy)
  <1> DEFINE p == [r[i] EXCEPT !.state = stay]
  <1>1. r2 = [r EXCEPT ![i] = p]
    BY DEF IsTable, InState
  <1>2. PICK U : r[i] \in ReqOf(U)
    BY DEF IsReq
  <1>3. p.place = r[i].place /\ p.at = r[i].at /\ p.core = r[i].core /\ p.line = r[i].line /\ p.type = r[i].type
    BY <1>2 DEF ReqOf
  <1> HIDE DEF p
  <1>4. r2[i] = p /\ \A j \in Ids \ {i} : r2[j] = r[j]
    BY <1>1 DEF IsTable
  <1>5. Placed(p, policy)
    BY <1>3 DEF InPlace, Placed, Right
  <1> QED BY <1>4, <1>5 DEF InPlace

LEMMA DonePlaced ==
    ASSUME NEW r, Sound(r, mshr, uop, Stores), NEW i \in Ids, r[i].place \in {"in", "fill"},
           NEW policy, InPlace(r, policy), NEW c, NEW lines, NEW stay, DoneFunc(i, c, r, lines, stay)
    PROVE  InPlace(req', policy)
  <1>1. PICK S \in SUBSET Ids :
            /\ Spare(r)
            /\ \E fills \in {Cardinality(DataFills(r, Reached(r, i, S)))} :
                LET r1 == IF fills > 0 THEN Filled(r, r[i], L1(r[i].core)) ELSE r
                    gone == IF Finishes(r, i, S) THEN S \cup {i} ELSE S
                IN  req' = Freed(IF i \in gone THEN r1 ELSE [r1 EXCEPT ![i].state = stay], gone)
    BY DEF DoneFunc
  <1>2. PICK r1, gone : /\ r1 = r \/ r1 = Filled(r, r[i], L1(r[i].core))
                        /\ req' = Freed(IF i \in gone THEN r1 ELSE [r1 EXCEPT ![i].state = stay], gone)
    BY <1>1
  <1>3. Sound(r1, mshr, uop, Stores) /\ Grown(r, r1)
    <2>1. CASE r1 = r
      BY <2>1 DEF Grown, Wrote, Sound, Table
    <2>2. CASE r1 = Filled(r, r[i], L1(r[i].core))
      BY <1>1, <2>2, FilledSound
    <2> QED BY <1>2, <2>1, <2>2
  <1>4. InPlace(r1, policy) /\ r1[i] = r[i]
    <2>1. InPlace(r1, policy)
      BY <1>3, GrownPlaced
    <2> QED BY <1>3, <2>1 DEF Grown, Wrote
  <1>5. IsTable(r1) /\ IsReq(r1[i])
    BY <1>3 DEF Sound, Table, RequestSound
  <1> DEFINE x == IF i \in gone THEN r1 ELSE InState(r1, i, stay)
  <1>6. req' = Freed(x, gone)
    BY <1>2 DEF InState
  <1>7. InPlace(x, policy) /\ IsTable(x)
    <2>1. CASE i \in gone
      BY <1>4, <1>5, <2>1
    <2>2. CASE i \notin gone
      <3>1. x = InState(r1, i, stay)
        BY <2>2
      <3>2. IsTable(x)
        BY <1>5, <3>1 DEF InState, IsTable
      <3> HIDE DEF x
      <3> QED BY <1>4, <1>5, <3>1, <3>2, WaitsPlaced
    <2> QED BY <2>1, <2>2
  <1> HIDE DEF x
  <1> QED BY <1>6, <1>7, FreedPlaced

LEMMA UpwardsPlaced ==
    ASSUME NEW r, NEW m, NEW u, NEW P, Sound(r, m, u, P), NEW i \in Ids, r[i].place = "fill",
           NEW policy, InPlace(r, policy), NEW r2, r2 = Upwards(i, r)
    PROVE  InPlace(r2, policy)
  <1>1. PICK place \in {"fill", "out"}, state \in {"FILL_WAIT_FILL", "FILL_NEW", "OUT_FILL"} :
            \E at : r2 = Move(r, i, place, at, state)
    BY UpwardsIs
  <1>2. PICK at : r2 = Move(r, i, place, at, state)
    BY <1>1
  <1>3. Right(place, at, state, r[i].core, policy)
    BY DEF Right
  <1>4. IsTable(r) /\ IsReq(r[i]) /\ r[i].place # "free"
    BY DEF Sound, Table, RequestSound
  <1> QED BY <1>2, <1>3, <1>4, MovedPlaced

\* Misses go down: to the L2 of their own core and, if the L2 sends them into the network,
\* past it.
LEMMA StepPlaced ==
    ASSUME Sound(req, mshr, uop, Stores), KnobsOk(config), InPlace(req, config.policy),
           NEW i \in Ids, Step(i)
    PROVE  InPlace(req', config.policy)
  <1> DEFINE q == req[i]
             c == q.at
  <1>1. IsTable(req) /\ IsReq(q) /\ RequestSound(q, uop, Stores) /\ Placed(q, config.policy)
    BY DEF Sound, Table, RequestSound, InPlace
  <1>2. ASSUME q.place # "free", NEW place, NEW at, NEW state, Right(place, at, state, q.core, config.policy),
               req' = Move(req, i, place, at, state)
        PROVE  InPlace(req', config.policy)
    BY <1>1, <1>2, MovedPlaced
  <1>3. ASSUME NEW G, req' = Freed(req, G) PROVE InPlace(req', config.policy)
    BY <1>1, <1>3, FreedPlaced
  <1>4. ASSUME NEW place \in {"fill", "mc", "wb"}, NEW at, NEW state
        PROVE  Right(place, at, state, q.core, config.policy)
    BY DEF Right
  <1>5. ASSUME NEW at, NEW state \in {"OUT_FILL", "OUT_WB", "NOC_FILL"}, NEW place \in {"out", "noc"}
        PROVE  Right(place, at, state, q.core, config.policy)
    BY DEF Right
  <1>6. CASE InHit(i)
    <2>1. q.place = "in"
      BY <1>6 DEF InHit
    <2>2. PICK at, lines : \/ DoneFunc(i, at, req, lines, q.state)
                           \/ \E x : \/ req' = req
                                     \/ req' = Move(req, i, "fill", x, "FILL_NEW")
                                     \/ req' = Move(req, i, "out", x, "OUT_FILL")
      BY <1>6 DEF InHit, fill
    <2>3. CASE DoneFunc(i, at, req, lines, q.state)
      BY <2>1, <2>3, DonePlaced
    <2> QED BY <1>2, <1>4, <1>5, <2>1, <2>2, <2>3
  <1>7. CASE InMiss(i)
    <2> DEFINE next == Component(Down(c), q)
               direct == (At(c).down /\ next[2] = c[2]) \/ ~At(c).router
    <2>1. /\ q.place = "in"
          /\ \/ req' = Move(req, i, "in", next, q.state)
             \/ ~direct /\ req' = Move(req, i, "out", c, "OUT_NEW")
      BY <1>7 DEF InMiss, insert
    <2>2. next[1] # "L1" /\ (next[1] = "L2" => next = L2(q.core))
      BY DEF Component, Down, MC, L2, L3
    <2>3. c[1] # "L1" /\ (c[1] = "L2" => c = L2(q.core))
      BY <1>1, <2>1 DEF Placed, Right
    <2>4. ASSUME c[1] = "L2", config.policy \in Local PROVE direct
      <3>1. c = L2(q.core) /\ Down(c) = "L3"
        BY <2>3, <2>4 DEF Down
      <3>2. At(c).down
        BY <2>4 DEF At, Topology, Link, Local
      <3>3. next[2] = c[2]
        BY <2>4, <3>1 DEF Component, set_cache_id, L2, L3, Local
      <3> QED BY <3>2, <3>3
    <2> HIDE DEF next, direct, c
    <2>5. Right("in", next, q.state, q.core, config.policy)
      BY <2>2 DEF Right
    <2>6. ~direct => Right("out", c, "OUT_NEW", q.core, config.policy)
      BY <2>3, <2>4 DEF Right
    <2> QED BY <1>2, <2>1, <2>5, <2>6
  <1>8. CASE ProcessOut(i)
    <2> DEFINE to == IF q.state = "OUT_FILL" THEN Up(c) ELSE Down(c)
               x == Component(to, q)
    <2>1. /\ q.place = "out"
          /\ \/ q.state = "OUT_NEW" /\ req' = Move(req, i, "noc", Receiver(x), "NOC_NEW")
             \/ req' = Move(req, i, "noc", Receiver(x), "NOC_FILL")
      BY <1>8 DEF ProcessOut, Sent
    <2>2. ASSUME q.state = "OUT_NEW" PROVE Receiver(x)[1] \notin {"L1", "L2"}
      <3>1. c[1] # "L1" /\ (c[1] = "L2" => config.policy \notin Local)
        BY <1>1, <2>1, <2>2 DEF Placed, Right
      <3>2. q.core \in Cores /\ q.line \in Nat
        BY <1>1, <2>1, <2>2 DEF Placed, RequestSound
      <3>3. to \in {"L3", "MC"} /\ (to = "L3" => c[1] = "L2")
        BY <2>2, <3>1 DEF Down
      <3>4. set_cache_id(q.core, q.line) \in Cores
        <4>1. Cores = 0..(Cardinality(Cores) - 1) /\ Cardinality(Cores) \in Nat
          BY SizesAssumption, FS_CardinalityType
        <4>2. Cardinality(Cores) > 0
          BY <3>2, <4>1
        <4> DEFINE n == Cardinality(Cores)
        <4> HIDE DEF n
        <4>3. q.line % n \in 0..(n - 1)
          BY <3>2, <4>1, <4>2 DEF n
        <4> QED BY <3>2, <4>1, <4>3 DEF set_cache_id, Slices, n
      <3>5. x = MC \/ (config.policy \notin Local /\ \E s \in Cores : x = L3(s))
        BY <3>1, <3>3, <3>4 DEF Component
      <3> HIDE DEF x
      <3> QED BY <3>2, <3>5, ReceiverBelow
    <2>3. q.state = "OUT_NEW" => Right("noc", Receiver(x), "NOC_NEW", q.core, config.policy)
      BY <2>2 DEF Right
    <2> HIDE DEF x
    <2> QED BY <1>2, <1>5, <2>1, <2>3
  <1>9. CASE FillNew(i)
    <2> DEFINE r == Filled(req, q, c)
    <2>1. q.place = "fill" /\ Spare(req)
      BY <1>9 DEF FillNew
    <2>2. PICK at, lines : \/ DoneFunc(i, at, r, lines, "FILL_WAIT_DONE")
                           \/ req' = Freed(r, {i})
                           \/ req' = Upwards(i, r)
      BY <1>9 DEF FillNew
    <2> HIDE DEF r
    <2>3. Sound(r, mshr, uop, Stores) /\ Grown(req, r)
      BY <2>1, FilledSound DEF r
    <2>4. InPlace(r, config.policy) /\ IsTable(r)
      BY <2>3, GrownPlaced DEF Grown
    <2>5. r[i].place = "fill"
      BY <2>1, <2>3 DEF Grown, Wrote
    <2>6. CASE DoneFunc(i, at, r, lines, "FILL_WAIT_DONE")
      BY <2>3, <2>4, <2>5, <2>6, DonePlaced
    <2>7. CASE req' = Freed(r, {i})
      BY <2>4, <2>7, FreedPlaced
    <2>8. CASE req' = Upwards(i, r)
      BY <2>3, <2>4, <2>5, <2>8, UpwardsPlaced
    <2> QED BY <2>2, <2>6, <2>7, <2>8
  <1>10. CASE FillWaitDone(i)
    BY <1>10, DonePlaced DEF FillWaitDone
  <1>11. CASE FillWaitFill(i)
    BY <1>11, UpwardsPlaced DEF FillWaitFill
  <1>12. CASE ProcessWb(i)
    <2>1. q.place = "wb" /\ \E at : \/ req' = Move(req, i, "fill", at, "FILL_NEW")
                                    \/ req' = Move(req, i, "out", at, "OUT_WB")
      BY <1>12 DEF ProcessWb, fill
    <2> QED BY <1>2, <1>4, <1>5, <2>1
  <1>13. ASSUME q.place = "noc", Accepted(i) PROVE InPlace(req', config.policy)
    <2>1. \/ c # MC /\ q.state = "NOC_NEW" /\ req' = Move(req, i, "in", c, q.state)
          \/ req' = Move(req, i, "fill", c, "FILL_NEW")
          \/ req' = Move(req, i, "mc", c, q.state)
      BY <1>13 DEF Accepted, insert, fill
    <2>2. q.state = "NOC_NEW" => Right("in", c, q.state, q.core, config.policy)
      BY <1>1, <1>13 DEF Placed, Right
    <2> HIDE DEF c
    <2> QED BY <1>2, <1>4, <1>13, <2>1, <2>2
  <1>14. CASE receive_packet(i) \/ receive(i)
    <2>1. q.place = "noc"
      BY <1>14 DEF receive_packet, receive, Arrived
    <2>2. Accepted(i) \/ req' = Freed(req, {i})
      BY <1>14 DEF receive_packet, receive
    <2> QED BY <1>3, <1>13, <2>1, <2>2
  <1>15. CASE Answer(i)
    <2>1. q.place = "mc" /\ \E at : \/ req' = Freed(req, {i})
                                    \/ req' = Move(req, i, "noc", at, "NOC_FILL")
      BY <1>15 DEF Answer, Sent
    <2> QED BY <1>2, <1>3, <1>5, <2>1
  <1> QED BY <1>6, <1>7, <1>8, <1>9, <1>10, <1>11, <1>12, <1>14, <1>15 DEF Step

--------------------------------------------------------------------------------
(* New requests. *)

\* search_req finds a request that has an entry and is not merged: what a merged request
\* belongs to is older and for the same line.
LEMMA Found ==
    ASSUME NEW u, NEW P, Sound(req, mshr, u, P), NEW core \in Cores, NEW line,
           NEW j, j = search_req(core, line), j # 0
    PROVE  /\ j \in Ids /\ TakesEntry(req[j]) /\ req[j].core = core /\ req[j].line = line
           /\ req[j].place # "merged" /\ Occurs(j, mshr[core])
  <1> DEFINE q == mshr[core]
             ks == {k \in 1..Len(q) : req[q[k]].line = line}
             k0 == CHOOSE k \in ks : \A l \in ks : k <= l
  <1>1. q \in Seq(Ids) /\ OnceEach(q) /\ \A i \in Ids : Occurs(i, q) <=> TakesEntry(req[i]) /\ req[i].core = core
    BY DEF Sound, Listed
  <1>2. ks # {} /\ ks \subseteq 1..Len(q) /\ 1..Len(q) \subseteq Nat /\ j = q[k0]
    BY <1>1, LenProperties DEF search_req
  <1>3. \E k \in ks : \A l \in ks : k <= l
    <2> HIDE DEF ks
    <2> QED BY <1>2, Least
  <1>4. k0 \in ks /\ \A l \in ks : k0 <= l
    <2> HIDE DEF ks
    <2> QED BY <1>3
  <1>5. k0 \in 1..Len(q) /\ q[k0] \in Ids /\ req[q[k0]].line = line
    BY <1>1, <1>4, ElementOfSeq
  <1>6. Occurs(j, q)
    BY <1>2, <1>5 DEF Occurs
  <1>7. j \in Ids /\ TakesEntry(req[j]) /\ req[j].core = core /\ req[j].line = line
    BY <1>1, <1>2, <1>5, <1>6
  <1>8. ASSUME req[j].place = "merged" PROVE FALSE
    <2> DEFINE i == req[j].into
    <2>1. i \in Ids /\ req[i].line = req[j].line /\ Precedes(i, j, mshr[core])
      BY <1>7, <1>8 DEF Sound, MergedRight
    <2>2. PICK a, b \in 1..Len(q) : a < b /\ q[a] = i /\ q[b] = j
      BY <2>1 DEF Precedes
    <2>3. b = k0
      BY <1>1, <1>2, <1>5, <2>2 DEF OnceEach
    <2>4. a \in ks
      BY <1>7, <2>1, <2>2
    <2>5. k0 <= a
      BY <1>4, <2>4
    <2> HIDE DEF k0, ks
    <2>6. a \in Int /\ b \in Int
      BY <1>1, <2>2, LenProperties
    <2> QED BY <2>2, <2>3, <2>5, <2>6
  <1> QED BY <1>6, <1>7, <1>8

\* The entries of a core, counted.
LEMMA EntriesCounted ==
    ASSUME NEW r, NEW m, Listed(r, m), NEW G, NEW m2, m2 = Mshr(m, G), NEW c \in Cores
    PROVE  Cardinality(InMshr(m, c) \ G) = Len(m2[c])
  <1>1. Thinned(m, m2, G)
    BY ThinnedMshr
  <1>2. m2[c] \in Seq(Ids) /\ OnceEach(m2[c]) /\ m[c] \in Seq(Ids)
    BY <1>1 DEF Thinned, Listed
  <1>3. /\ \A x : x \in ToSet(m2[c]) <=> Occurs(x, m2[c])
        /\ Cardinality(ToSet(m2[c])) = Len(m2[c])
    BY <1>2, CountedOnce
  <1>4. \A x : Occurs(x, m[c]) => x \in Ids
    BY <1>2, ElementOfSeq DEF Occurs
  <1>5. \A x : Occurs(x, m2[c]) => x \in Ids
    BY <1>2, ElementOfSeq DEF Occurs
  <1>6. \A x : x \in InMshr(m, c) <=> Occurs(x, m[c])
    BY DEF InMshr, Occurs
  <1>7. \A x : x \in InMshr(m, c) \ G <=> x \in ToSet(m2[c])
    BY <1>1, <1>3, <1>4, <1>5, <1>6 DEF Thinned
  <1> QED BY <1>3, <1>7

\* A pooled store is the request of its access.
LEMMA PooledFew ==
    ASSUME NEW r, NEW u, NEW P, Table(r, u, P), Owned(r, u), IsFiniteSet(P), P \subseteq DOMAIN u
    PROVE  LET T == {i \in Ids : r[i].pool}
           IN  /\ IsFiniteSet(T) /\ Cardinality(T) <= Cardinality(P)
               /\ \A v \in P : (\A i \in Ids : r[i].uop # v) => Cardinality(T) < Cardinality(P)
  <1> DEFINE T == {i \in Ids : r[i].pool}
             f == [i \in T |-> r[i].uop]
  <1>1. ASSUME NEW i \in T PROVE r[i].uop \in P /\ r[i].uop # 0
    <2>1. r[i].uop \in P
      BY DEF Table, RequestSound
    <2> QED BY <2>1 DEF Owned
  <1>2. f \in Injection(T, P)
    <2>1. f \in [T -> P]
      BY <1>1
    <2>2. ASSUME NEW i \in T, NEW j \in T, f[i] = f[j] PROVE i = j
      <3>1. r[i].uop = r[j].uop /\ r[i].uop # 0
        BY <1>1, <2>2
      <3> QED BY <3>1 DEF Owned
    <2> HIDE DEF f, T
    <2> QED BY <2>1, <2>2 DEF Injection, IsInjective
  <1>3. IsFiniteSet(T) /\ Cardinality(T) <= Cardinality(P)
    <2> HIDE DEF f, T
    <2> QED BY <1>2, FS_Injection
  <1>4. ASSUME NEW v \in P, \A i \in Ids : r[i].uop # v PROVE Cardinality(T) < Cardinality(P)
    <2> DEFINE rest == P \ {v}
    <2>1. f \in Injection(T, rest)
      BY <1>1, <1>2, <1>4 DEF Injection
    <2>2. IsFiniteSet(rest) /\ Cardinality(rest) = Cardinality(P) - 1
      BY FS_RemoveElement
    <2>3. Cardinality(T) <= Cardinality(rest)
      <3> HIDE DEF f, T, rest
      <3> QED BY <2>1, <2>2, FS_Injection
    <2>4. Cardinality(T) \in Nat /\ Cardinality(P) \in Nat
      <3> HIDE DEF T
      <3> QED BY <1>3, FS_CardinalityType
    <2> HIDE DEF T, rest
    <2> QED BY <2>2, <2>3, <2>4
  <1> QED BY <1>3, <1>4

\* The queue an L2 has for new requests has room for one more: all that it holds are
\* requests of its core.
LEMMA RoomLeft ==
    ASSUME NEW r, NEW m, NEW u, NEW P, Sound(r, m, u, P), NEW policy, InPlace(r, policy),
           IsFiniteSet(P), P \subseteq DOMAIN u, MshrSize + Cardinality(P) <= InSize,
           NEW core \in Cores,
           Len(m[core]) < MshrSize \/ \E v \in P : \A i \in Ids : r[i].uop # v
    PROVE  ~Full(r, "in", L2(core))
  <1> DEFINE T == ToSet(m[core])
             S == {i \in Ids : r[i].pool}
             Q == Queue(r, "in", L2(core))
  <1>1. Q \subseteq T \cup S
    <2>1. ASSUME NEW i \in Q PROVE i \in Ids /\ r[i].core = core /\ (TakesEntry(r[i]) \/ r[i].pool)
      <3>1. RequestSound(r[i], u, P) /\ Placed(r[i], policy) /\ r[i].place = "in" /\ r[i].at = L2(core)
        BY DEF Sound, Table, InPlace, Queue
      <3>2. r[i].core = core
        BY <3>1 DEF Placed, Right, L2
      <3> QED BY <3>1, <3>2 DEF Queue, TakesEntry, RequestSound
    <2>2. \A x : x \in T <=> Occurs(x, m[core])
      BY CountedOnce DEF Sound, Listed
    <2>3. \A i \in Ids : Occurs(i, m[core]) <=> TakesEntry(r[i]) /\ r[i].core = core
      BY DEF Sound, Listed
    <2> HIDE DEF T, Q
    <2> QED BY <2>1, <2>2, <2>3
  <1>2. IsFiniteSet(T) /\ Cardinality(T) = Len(m[core]) /\ Len(m[core]) <= MshrSize
    BY CountedOnce DEF Sound, Listed
  <1>3. /\ IsFiniteSet(S) /\ Cardinality(S) <= Cardinality(P)
        /\ \A v \in P : (\A i \in Ids : r[i].uop # v) => Cardinality(S) < Cardinality(P)
    BY PooledFew DEF Sound
  <1>4. MshrSize \in Nat /\ InSize \in Nat
    BY SizesAssumption
  <1> HIDE DEF T, S, Q
  <1>5. Cardinality(T) \in Nat /\ Cardinality(S) \in Nat /\ Cardinality(P) \in Nat
    BY <1>2, <1>3, FS_CardinalityType
  <1>6. Cardinality(T) + Cardinality(S) < InSize
    <2>1. Cardinality(T) < MshrSize \/ Cardinality(S) < Cardinality(P)
      BY <1>2, <1>3
    <2> QED BY <1>2, <1>3, <1>4, <1>5, <2>1
  <1>7. IsFiniteSet(T \cup S) /\ Cardinality(T \cup S) <= Cardinality(T) + Cardinality(S)
    <2>1. /\ IsFiniteSet(T \cup S)
          /\ Cardinality(T \cup S) = Cardinality(T) + Cardinality(S) - Cardinality(T \cap S)
      BY <1>2, <1>3, FS_Union
    <2>2. Cardinality(T \cap S) \in Nat
      BY <1>2, FS_Intersection, FS_CardinalityType
    <2> QED BY <1>5, <2>1, <2>2
  <1>8. Cardinality(Q) \in Nat /\ Cardinality(Q) < InSize
    <2>1. IsFiniteSet(Q) /\ Cardinality(Q) <= Cardinality(T \cup S)
      BY <1>1, <1>7, FS_Subset
    <2>2. Cardinality(Q) \in Nat /\ Cardinality(T \cup S) \in Nat
      BY <1>7, <2>1, FS_CardinalityType
    <2> QED BY <1>4, <1>5, <1>6, <1>7, <2>1, <2>2
  <1> QED BY <1>4, <1>8 DEF Full, Q
\* What the call of an access changes of the accesses: only one that is new, v is the one
\* the request is for.
Called(u, u2, v, q) ==
    /\ DOMAIN u2 = DOMAIN u
    /\ \A w \in DOMAIN u : \/ u2[w] = u[w]
                           \/ u[w] = "new" /\ u2[w] = "done"
                           \/ u[w] = "new" /\ u2[w] = "wait" /\ w = v /\ DemandReq(q)
    /\ v # 0 => v \in DOMAIN u /\ u[v] = "new" /\ u2[v] # "new"

\* The requests that are there do not mind.
LEMMA CalledTable ==
    ASSUME NEW r, NEW u, NEW P, Table(r, u, P), 0 \notin DOMAIN u, NEW u2, NEW v, NEW q, Called(u, u2, v, q)
    PROVE  Table(r, u2, P) /\ (v # 0 => \A i \in Ids : r[i].uop # v)
  <1>1. ASSUME NEW i \in Ids
        PROVE  RequestSound(r[i], u2, P) /\ (v # 0 => r[i].uop # v)
    <2>1. RequestSound(r[i], u, P)
      BY DEF Table
    <2>2. r[i].uop # 0 => u2[r[i].uop] # "new" /\ (v # 0 => r[i].uop # v)
      BY <2>1 DEF RequestSound, Called
    <2> QED BY <2>1, <2>2 DEF RequestSound, Called
  <1> QED BY <1>1 DEF Table

\* What may enter: a request in the queue of an L2, or one merged into an older demand
\* request for its line.
Enterable(q, r, m, P, core, v) ==
    /\ IsReq(q) /\ q.place \in {"in", "merged"} /\ q.core = core /\ q.uop = v /\ q.type # "WB"
    /\ q.func \in {"none", "icache", "dcache", "write_ack"} /\ (q.func = "none" => v = 0)
    /\ q.pool \in BOOLEAN /\ (q.pool => q.place = "in" /\ v \in P)
    /\ q.place = "merged" =>
        LET j == q.into
        IN  /\ j \in Ids /\ r[j].place # "merged" /\ DemandReq(r[j]) /\ Occurs(j, m[core])
            /\ r[j].core = core /\ r[j].line = q.line
\* Its entry is the youngest of its core.
Queued(q, m, m2, core, id) ==
    IF q.pool THEN m2 = m
    ELSE Len(m[core]) < MshrSize /\ m2 = [m EXCEPT ![core] = Append(m[core], id)]

LEMMA Entered ==
    ASSUME NEW r, NEW m, NEW u, NEW P, Sound(r, m, u, P), NEW id \in Ids, r[id].place = "free",
           NEW core \in Cores, NEW v, NEW q, Enterable(q, r, m, P, core, v),
           NEW u2, Called(u, u2, v, q),
           NEW m2, Queued(q, m, m2, core, id),
           NEW r2, r2 = [r EXCEPT ![id] = q]
    PROVE  Sound(r2, m2, u2, P)
  <1>1. IsTable(r2) /\ r2[id] = q /\ \A j \in Ids \ {id} : r2[j] = r[j]
    BY DEF Sound, Table, IsTable
  <1>2. Table(r, u2, P) /\ (v # 0 => \A i \in Ids : r[i].uop # v) /\ 0 \notin DOMAIN u
    BY CalledTable DEF Sound, Owned
  <1>3. r[id].uop = 0 /\ ~TakesEntry(r[id])
    BY DEF Sound, Table, RequestSound, TakesEntry
  <1>4. RequestSound(q, u2, P)
    BY DEF Enterable, Called, RequestSound, Places
  <1>5. Table(r2, u2, P)
    BY <1>1, <1>2, <1>4 DEF Table
  <1>6. TakesEntry(q) <=> ~q.pool
    BY DEF TakesEntry, Enterable
  <1>7. /\ m2 \in [Cores -> Seq(Ids)]
        /\ \A c \in Cores :
            /\ OnceEach(m2[c]) /\ Len(m2[c]) <= MshrSize
            /\ \A i \in Ids : Occurs(i, m2[c]) <=> Occurs(i, m[c]) \/ (i = id /\ c = core /\ ~q.pool)
            /\ \A i, j \in Ids : Precedes(i, j, m[c]) => Precedes(i, j, m2[c])
        /\ ~q.pool => \A i \in Ids : Occurs(i, m[core]) => Precedes(i, id, m2[core])
    <2>1. m \in [Cores -> Seq(Ids)] /\ \A c \in Cores : OnceEach(m[c]) /\ Len(m[c]) <= MshrSize
      BY DEF Sound, Listed
    <2>2. CASE q.pool
      BY <2>1, <2>2 DEF Queued
    <2>3. CASE ~q.pool
      <3> DEFINE p == Append(m[core], id)
      <3>1. m2 = [m EXCEPT ![core] = p] /\ Len(m[core]) < MshrSize
        BY <2>3 DEF Queued
      <3>2. ~Occurs(id, m[core])
        BY <1>3 DEF Sound, Listed
      <3>3. /\ p \in Seq(Ids) /\ Len(p) = Len(m[core]) + 1 /\ OnceEach(p)
            /\ \A x : Occurs(x, p) <=> Occurs(x, m[core]) \/ x = id
        <4> DEFINE l == m[core]
        <4>1. l \in Seq(Ids) /\ OnceEach(l) /\ ~Occurs(id, l) /\ id \in Ids /\ p = Append(l, id)
          BY <2>1, <3>2
        <4> HIDE DEF p, l
        <4>2. /\ p \in Seq(Ids) /\ Len(p) = Len(l) + 1 /\ OnceEach(p)
              /\ \A x : Occurs(x, p) <=> Occurs(x, l) \/ x = id
          BY ONLY <4>1, OneMore
        <4> QED BY <4>2 DEF l
      <3>4. /\ Len(m[core]) \in Nat /\ p[Len(m[core]) + 1] = id
            /\ \A k \in 1..Len(m[core]) : p[k] = m[core][k]
        BY <2>1, AppendProperties, LenProperties
      <3> HIDE DEF p
      <3>5. m2 \in [Cores -> Seq(Ids)] /\ m2[core] = p /\ \A c \in Cores \ {core} : m2[c] = m[c]
        BY <2>1, <3>1, <3>3
      <3>6. Len(p) <= MshrSize
        BY <3>1, <3>3, <3>4, SizesAssumption
      <3>7. \A i, j \in Ids : Precedes(i, j, m[core]) => Precedes(i, j, p)
        BY <3>3, <3>4 DEF Precedes
      <3>8. ASSUME NEW i \in Ids, Occurs(i, m[core]) PROVE Precedes(i, id, p)
        <4>1. PICK k \in 1..Len(m[core]) : m[core][k] = i
          BY <3>8 DEF Occurs
        <4> DEFINE n == Len(m[core])
        <4>2. n \in Nat /\ k \in 1..n /\ Len(p) = n + 1 /\ p[k] = i /\ p[n + 1] = id
          BY <3>3, <3>4, <4>1
        <4> HIDE DEF n
        <4>3. k \in 1..Len(p) /\ n + 1 \in 1..Len(p) /\ k < n + 1
          BY <4>2
        <4> QED BY <4>2, <4>3 DEF Precedes
      <3> QED BY <2>1, <2>3, <3>3, <3>5, <3>6, <3>7, <3>8
    <2> QED BY <2>2, <2>3
  <1>8. Listed(r2, m2)
    <2>1. ASSUME NEW c \in Cores, NEW i \in Ids PROVE Occurs(i, m2[c]) <=> TakesEntry(r2[i]) /\ r2[i].core = c
      <3>1. Occurs(i, m[c]) <=> TakesEntry(r[i]) /\ r[i].core = c
        BY DEF Sound, Listed
      <3>2. CASE i = id
        BY <1>1, <1>3, <1>6, <1>7, <3>1, <3>2 DEF Enterable
      <3>3. CASE i # id
        BY <1>1, <1>7, <3>1, <3>3
      <3> QED BY <3>2, <3>3
    <2>2. \A i \in Ids : TakesEntry(r2[i]) => r2[i].core \in Cores
      BY <1>1 DEF Sound, Listed, Enterable
    <2> QED BY <1>7, <2>1, <2>2 DEF Listed
  \* Nothing is merged into a request that is not there.
  <1>9. MergedRight(r2, m2)
    <2> SUFFICES ASSUME NEW i \in Ids, r2[i].place = "merged"
                 PROVE  LET j == r2[i].into
                        IN  /\ j \in Ids /\ r2[j].place # "merged" /\ DemandReq(r2[j])
                            /\ r2[j].core = r2[i].core /\ r2[j].line = r2[i].line
                            /\ Precedes(j, i, m2[r2[i].core])
      BY DEF MergedRight
    <2>1. CASE i = id
      <3>1. /\ q.into \in Ids /\ r[q.into].place # "merged" /\ DemandReq(r[q.into]) /\ Occurs(q.into, m[core])
            /\ r[q.into].core = core /\ r[q.into].line = q.line /\ ~q.pool /\ q.core = core
        BY <1>1, <2>1 DEF Enterable
      <3>2. q.into # id
        BY <1>3, <3>1 DEF Sound, Listed
      <3> QED BY <1>1, <1>7, <2>1, <3>1, <3>2
    <2>2. CASE i # id
      <3> DEFINE j == r[i].into
      <3>1. r2[i] = r[i] /\ r[i].place = "merged"
        BY <1>1, <2>2
      <3>2. /\ j \in Ids /\ r[j].place # "merged" /\ DemandReq(r[j])
            /\ r[j].core = r[i].core /\ r[j].line = r[i].line /\ Precedes(j, i, m[r[i].core])
        BY <3>1 DEF Sound, MergedRight
      <3>3. r[i].core \in Cores
        <4>1. TakesEntry(r[i])
          BY <3>1 DEF Sound, Table, RequestSound, TakesEntry
        <4> QED BY <4>1 DEF Sound, Listed
      <3>4. TakesEntry(r[j])
        BY <3>2, <3>3 DEF Sound, Listed, Precedes, Occurs
      <3>5. r2[j] = r[j]
        BY <1>1, <1>3, <3>2, <3>4
      <3>6. Precedes(j, i, m2[r[i].core])
        BY <1>7, <3>2, <3>3
      <3> HIDE DEF j
      <3> QED BY <3>1, <3>2, <3>5, <3>6 DEF j
    <2> QED BY <2>1, <2>2
  <1>10. Owned(r2, u2)
    <2>1. 0 \notin DOMAIN u2
      BY <1>2 DEF Called
    <2>2. ASSUME NEW i \in Ids, NEW j \in Ids, r2[i].uop = r2[j].uop, r2[i].uop # 0 PROVE i = j
      <3>1. r[i].uop = r[j].uop /\ r[i].uop # 0 => i = j
        BY DEF Sound, Owned
      <3> QED BY <1>1, <1>2, <2>2, <3>1 DEF Enterable
    <2>3. ASSUME NEW w \in DOMAIN u2, u2[w] = "wait"
          PROVE  \E i \in Ids : r2[i].uop = w /\ r2[i].place # "free" /\ DemandReq(r2[i])
      <3>1. CASE w = v /\ DemandReq(q)
        BY <1>1, <3>1 DEF Enterable
      <3>2. CASE ~(w = v /\ DemandReq(q))
        <4>1. u[w] = "wait" /\ w \in DOMAIN u
          BY <2>3, <3>2 DEF Called
        <4>2. PICK i \in Ids : r[i].uop = w /\ r[i].place # "free" /\ DemandReq(r[i])
          BY <4>1 DEF Sound, Owned
        <4> QED BY <1>1, <4>2
      <3> QED BY <3>1, <3>2
    <2> QED BY <2>1, <2>2, <2>3 DEF Owned
  <1> QED BY <1>5, <1>8, <1>9, <1>10 DEF Sound

\* A prefetch under way can become the demand request that found it.
LEMMA Promoted ==
    ASSUME NEW r, NEW m, NEW u, NEW P, Sound(r, m, u, P), NEW i \in Ids, ~DemandReq(r[i]), TakesEntry(r[i]),
           NEW v, v # 0, NEW q, IsReq(q), DemandReq(q),
           q.place = r[i].place, q.core = r[i].core, q.line = r[i].line, q.into = r[i].into,
           q.pool = r[i].pool, q.uop = v, q.func \in {"icache", "dcache", "write_ack"},
           NEW u2, Called(u, u2, v, q),
           NEW r2, r2 = [r EXCEPT ![i] = q]
    PROVE  Sound(r2, m, u2, P)
  <1>1. IsTable(r2) /\ r2[i] = q /\ \A j \in Ids \ {i} : r2[j] = r[j]
    BY DEF Sound, Table, IsTable
  <1>2. Table(r, u2, P) /\ (v # 0 => \A j \in Ids : r[j].uop # v) /\ 0 \notin DOMAIN u
    BY CalledTable DEF Sound, Owned
  <1>3. RequestSound(q, u2, P)
    <2>1. RequestSound(r[i], u, P)
      BY DEF Sound, Table
    <2> QED BY <2>1 DEF RequestSound, Called, TakesEntry, DemandReq
  <1>4. Table(r2, u2, P)
    BY <1>1, <1>2, <1>3 DEF Table
  <1>5. TakesEntry(q)
    BY DEF TakesEntry, DemandReq
  <1>6. Listed(r2, m)
    <2>1. \A j \in Ids : (TakesEntry(r2[j]) <=> TakesEntry(r[j])) /\ r2[j].core = r[j].core
      BY <1>1, <1>5
    <2> QED BY <2>1 DEF Sound, Listed
  <1>7. MergedRight(r2, m)
    <2>1. \A j \in Ids : /\ r2[j].place = r[j].place /\ r2[j].core = r[j].core
                         /\ r2[j].line = r[j].line /\ r2[j].into = r[j].into
                         /\ DemandReq(r[j]) => DemandReq(r2[j])
      BY <1>1
    <2> QED BY <2>1 DEF Sound, MergedRight
  <1>8. Owned(r2, u2)
    <2>1. 0 \notin DOMAIN u2
      BY <1>2 DEF Called
    <2>2. ASSUME NEW k \in Ids, NEW j \in Ids, r2[k].uop = r2[j].uop, r2[k].uop # 0 PROVE k = j
      <3>1. r[k].uop = r[j].uop /\ r[k].uop # 0 => k = j
        BY DEF Sound, Owned
      <3> QED BY <1>1, <1>2, <2>2, <3>1
    <2>3. ASSUME NEW w \in DOMAIN u2, u2[w] = "wait"
          PROVE  \E k \in Ids : r2[k].uop = w /\ r2[k].place # "free" /\ DemandReq(r2[k])
      <3>1. CASE w = v
        BY <1>1, <1>5, <3>1 DEF TakesEntry
      <3>2. CASE w # v
        <4>1. u[w] = "wait" /\ w \in DOMAIN u
          BY <2>3, <3>2 DEF Called
        <4>2. PICK k \in Ids : r[k].uop = w /\ r[k].place # "free" /\ DemandReq(r[k])
          BY <4>1 DEF Sound, Owned
        <4> QED BY <1>1, <4>2
      <3> QED BY <3>1, <3>2
    <2> QED BY <2>1, <2>2, <2>3 DEF Owned
  <1> QED BY <1>4, <1>6, <1>7, <1>8 DEF Sound

\* Nobody has to be asked.
LEMMA CalledSound ==
    ASSUME NEW r, NEW m, NEW u, NEW P, Sound(r, m, u, P), NEW u2, NEW v, NEW q,
           Called(u, u2, v, q), ~DemandReq(q)
    PROVE  Sound(r, m, u2, P)
  <1>1. Table(r, u2, P)
    BY CalledTable DEF Sound, Owned
  <1>2. Owned(r, u2)
    BY DEF Sound, Owned, Called
  <1> QED BY <1>1, <1>2 DEF Sound
\* A new request, and what becomes of it.
NewReq(type, core, line, func, v, pool) == [init_new_req(type, core, line, func, v) EXCEPT !.pool = pool]
Merging(q, into) == [q EXCEPT !.place = "merged", !.into = into]
Going(q, at) == [q EXCEPT !.place = "in", !.at = at]

LEMMA NewRequestIs ==
    ASSUME NEW type, NEW core, NEW line, NEW func, NEW v, NEW pool, NEW place, NEW into, NEW at,
           NEW y, y = NewReq(type, core, line, func, v, pool),
           NEW p, \/ place = "merged" /\ p = Merging(y, into)
                  \/ place = "in" /\ p = Going(y, at)
    PROVE  /\ IsReq(p) /\ p.type = type /\ p.core = core /\ p.line = line /\ p.func = func /\ p.uop = v
           /\ p.pool = pool /\ p.place = place
           /\ place = "merged" => p.into = into
           /\ place = "in" => p.at = at
  <1> DEFINE x == init_new_req(type, core, line, func, v)
             U == {"free", "merged", "in", MC, "-", 0, FALSE, type, core, line, func, v, pool, into, at}
  <1>1. /\ x \in ReqOf(U) /\ x.type = type /\ x.core = core /\ x.line = line /\ x.func = func
        /\ x.uop = v
    BY DEF init_new_req, FreeReq, ReqOf
  <1>2. pool \in U /\ into \in U /\ at \in U /\ "merged" \in U /\ "in" \in U
    OBVIOUS
  <1> HIDE DEF x, U
  <1>3. /\ y \in ReqOf(U) /\ y.type = type /\ y.core = core /\ y.line = line /\ y.func = func
        /\ y.uop = v /\ y.pool = pool
    <2>1. y = [x EXCEPT !.pool = pool]
      BY DEF NewReq, x
    <2> QED BY <1>1, <1>2, <2>1 DEF ReqOf
  <1>4. \/ place = "merged" /\ p = [y EXCEPT !.place = "merged", !.into = into]
        \/ place = "in" /\ p = [y EXCEPT !.place = "in", !.at = at]
    BY DEF Merging, Going
  <1>5. p \in ReqOf(U)
    BY <1>2, <1>3, <1>4 DEF ReqOf
  <1>6. /\ p.type = type /\ p.core = core /\ p.line = line /\ p.func = func /\ p.uop = v
        /\ p.pool = pool /\ p.place = place /\ (place = "merged" => p.into = into)
        /\ (place = "in" => p.at = at)
    BY <1>3, <1>4 DEF ReqOf
  <1> QED BY <1>5, <1>6 DEF IsReq

LEMMA AdjustedIs ==
    ASSUME NEW q, IsReq(q), NEW type, NEW func, NEW v, NEW p, p = adjust_req(q, type, func, v)
    PROVE  /\ IsReq(p) /\ p.type = type /\ p.func = func /\ p.uop = v
           /\ p.place = q.place /\ p.core = q.core /\ p.line = q.line /\ p.into = q.into /\ p.pool = q.pool
           /\ p.at = q.at /\ p.state = q.state
  <1>1. PICK U : q \in ReqOf(U)
    BY DEF IsReq
  <1> DEFINE V == U \cup {type, func, v, FALSE}
  <1>2. p \in ReqOf(V)
    BY <1>1 DEF adjust_req, ReqOf
  <1> QED BY <1>1, <1>2 DEF adjust_req, ReqOf, IsReq

LEMMA FlushedSound ==
    ASSUME NEW r, NEW m, NEW u, NEW P, Sound(r, m, u, P), NEW G, G = {} \/ \E core : G = Flushed(r, core),
           NEW m2, m2 = Mshr(m, G), NEW r2, r2 = Freed(r, G)
    PROVE  Sound(r2, m2, u, P)
  <1>1. \A i \in Ids : i \in G => ~DemandReq(r[i])
    BY DEF Flushed, DemandReq
  <1>2. Thinned(m, m2, G)
    BY ThinnedMshr DEF Sound
  <1> QED BY <1>1, <1>2, Dropped
\* What an access asks for.
Request(type, func, v, u) ==
    /\ type \in {"DFETCH", "DSTORE", "DPRF", "IFETCH"}
    /\ u \in DOMAIN uop /\ uop[u] = "new"
    /\ \/ v = u /\ func \in {"icache", "dcache", "write_ack"}
       \/ v = 0 /\ func = "none" /\ type = "DPRF"
    /\ config.ptx \in BOOLEAN /\ (config.ptx /\ type = "DSTORE" => u \in Stores)

\* What becomes of the access when new_mem_req has returned.
Returned(u, type, result) ==
    uop' = IF ~result THEN uop ELSE [uop EXCEPT ![u] = IF type = "DPRF" THEN "done" ELSE "wait"]

LEMMA NewMemReq ==
    ASSUME Sound(req, mshr, uop, Stores), NEW policy, InPlace(req, policy),
           IsFiniteSet(Stores), Stores \subseteq DOMAIN uop, MshrSize + Cardinality(Stores) <= InSize,
           NEW core \in Cores, NEW type, NEW line \in Nat, NEW func, NEW v, NEW u, Request(type, func, v, u),
           NEW result \in BOOLEAN, new_mem_req(core, type, line, func, v, result),
           Returned(u, type, result)
    PROVE  Sound(req', mshr', uop', Stores) /\ InPlace(req', policy)
  <1> DEFINE matching == search_req(core, line)
             pooled == config.ptx /\ type = "DSTORE"
             used(S) == Cardinality(InMshr(mshr, core) \ S)
             flush1 == IF Full(req, "in", L2(core)) THEN Flushed(req, core) ELSE {}
             nomshr == ~pooled /\ used(flush1) >= MshrSize
             flush2 == IF nomshr THEN Flushed(req, core) ELSE flush1
             r == Freed(req, flush2)
             m == Mshr(mshr, flush2)
             id == NewId(r)
             new == NewReq(type, core, line, func, v, pooled)
             entered == CASE matching # 0 /\ ~pooled ->
                               [new EXCEPT !.place = "merged", !.into = matching]
                          [] ~(matching # 0 /\ ~pooled) /\ Full(r, "in", L2(core)) ->
                               [new EXCEPT !.place = "lost"]
                          [] OTHER -> [new EXCEPT !.place = "in", !.at = L2(core)]
             Nothing == result /\ type = "DPRF" /\ req' = req /\ mshr' = mshr
             Promotes == /\ result /\ type # "DPRF" /\ matching # 0 /\ ~pooled /\ req[matching].type = "DPRF"
                         /\ req' = [req EXCEPT ![matching] = adjust_req(req[matching], type, func, v)]
                         /\ mshr' = mshr
             Flushes == /\ result => type = "DPRF"
                        /\ \E G : /\ G = {} \/ \E c : G = Flushed(req, c)
                                  /\ req' = Freed(req, G) /\ mshr' = Mshr(mshr, G)
             Enters == /\ result /\ (~pooled => used(flush2) < MshrSize) /\ Spare(r)
                       /\ (matching # 0 /\ ~pooled) => req[matching].type # "DPRF"
                       /\ ~(type = "DPRF" /\ matching # 0)
                       /\ req' = [r EXCEPT ![id] = entered]
                       /\ mshr' = IF pooled THEN m ELSE [m EXCEPT ![core] = Append(m[core], id)]
  <1>1. Nothing \/ Promotes \/ Flushes \/ Enters
    <2>1. flush1 = {} \/ \E c : flush1 = Flushed(req, c)
      OBVIOUS
    <2>2. flush2 = {} \/ \E c : flush2 = Flushed(req, c)
      OBVIOUS
    <2> QED BY <2>1, <2>2 DEF new_mem_req, NewReq
  <1> HIDE DEF entered
  <1>2. v # 0 => v = u
    BY DEF Request
  <1>3. u # 0 /\ u \in DOMAIN uop /\ uop[u] = "new"
    BY DEF Request, Sound, Owned
  <1>4. ASSUME NEW q, q.type = type PROVE (DemandReq(q) <=> type # "DPRF") /\ (result /\ (DemandReq(q) => v = u) => Called(uop, uop', v, q))
    <2>1. DemandReq(q) <=> type # "DPRF"
      BY <1>4 DEF DemandReq, Request
    <2> QED BY <1>2, <1>3, <2>1 DEF Called, Returned
  <1>5. type # "DPRF" => v = u
    BY DEF Request
  <1>6. ASSUME NEW r3, NEW m3, Sound(r3, m3, uop, Stores), result => type = "DPRF"
        PROVE  Sound(r3, m3, uop', Stores)
    <2>1. CASE ~result
      BY <1>6, <2>1 DEF Returned
    <2>2. CASE result
      <3> DEFINE q == [type |-> type]
      <3>1. ~DemandReq(q) /\ Called(uop, uop', v, q)
        BY <1>4, <1>6, <2>2
      <3> HIDE DEF q
      <3> QED BY <1>6, <3>1, CalledSound
    <2> QED BY <2>1, <2>2
  <1>p. IsTable(req)
    BY DEF Sound, Table
  <1>7. CASE Nothing
    BY <1>6, <1>7
  <1>8. CASE Flushes
    <2>1. PICK G : /\ G = {} \/ \E c : G = Flushed(req, c)
                   /\ req' = Freed(req, G) /\ mshr' = Mshr(mshr, G)
      BY <1>8
    <2>2. Sound(req', mshr', uop, Stores)
      BY <2>1, FlushedSound
    <2>3. InPlace(req', policy)
      BY <1>p, <2>1, FreedPlaced
    <2> QED BY <1>6, <1>8, <2>2, <2>3
  <1>9. CASE Promotes
    <2> DEFINE i == search_req(core, line)
               q == adjust_req(req[i], type, func, v)
    <2>1. i \in Ids /\ TakesEntry(req[i]) /\ ~DemandReq(req[i])
      BY <1>9, Found DEF DemandReq
    <2>2. IsReq(req[i])
      BY <2>1 DEF Sound, Table, RequestSound
    <2>3. /\ IsReq(q) /\ q.type = type /\ q.func = func /\ q.uop = v /\ q.place = req[i].place
          /\ q.core = req[i].core /\ q.line = req[i].line /\ q.into = req[i].into /\ q.pool = req[i].pool
          /\ q.at = req[i].at /\ q.state = req[i].state
      BY <2>2, AdjustedIs
    <2>4. req' = [req EXCEPT ![i] = q] /\ mshr' = mshr /\ result /\ type # "DPRF"
      BY <1>9
    <2> HIDE DEF i, q
    <2>5. DemandReq(q) /\ Called(uop, uop', v, q)
      BY <1>4, <1>5, <2>3, <2>4
    <2>6. v # 0 /\ func \in {"icache", "dcache", "write_ack"}
      BY <1>3, <1>5, <2>4 DEF Request
    <2>7. Sound(req', mshr, uop', Stores)
      BY <2>1, <2>3, <2>4, <2>5, <2>6, Promoted
    <2>8. InPlace(req', policy)
      <3>1. Placed(req[i], policy) /\ req[i].place # "free" /\ req[i].type # "WB"
        BY <2>1 DEF InPlace, TakesEntry
      <3>2. Placed(q, policy)
        BY <2>3, <3>1 DEF Placed
      <3>3. req'[i] = q /\ \A j \in Ids \ {i} : req'[j] = req[j]
        BY <1>p, <2>1, <2>4 DEF IsTable
      <3> QED BY <3>2, <3>3 DEF InPlace
    <2> QED BY <2>4, <2>7, <2>8
  <1>10. CASE Enters
    <2>1. Sound(r, m, uop, Stores)
      BY FlushedSound
    <2>2. id \in Ids /\ r[id].place = "free"
      BY <1>10, FreeId
    <2>3. Len(m[core]) < MshrSize \/ pooled
      <3>1. used(flush2) = Len(m[core])
        <4> HIDE DEF flush2
        <4> QED BY EntriesCounted DEF Sound
      <3> HIDE DEF m, flush2, used
      <3> QED BY <1>10, <3>1
    <2>4. pooled => u \in Stores /\ v = u /\ \A i \in Ids : r[i].uop # u
      <3>1. ASSUME pooled PROVE u \in Stores /\ v = u
        BY <3>1, <1>5 DEF Request
      <3>2. \A i \in Ids : RequestSound(r[i], uop, Stores)
        BY <2>1 DEF Sound, Table
      <3>3. \A i \in Ids : r[i].uop # u
        <4> HIDE DEF r
        <4> QED BY <1>3, <3>2 DEF RequestSound
      <3> QED BY <3>1, <3>3
    <2>5. ~Full(r, "in", L2(core))
      <3>1. InPlace(r, policy)
        BY <1>p, FreedPlaced
      <3> HIDE DEF r, m
      <3> QED BY <2>1, <2>3, <2>4, <3>1, RoomLeft
    <2> DEFINE place == IF matching # 0 /\ ~pooled THEN "merged" ELSE "in"
    <2>6. \/ place = "merged" /\ matching # 0 /\ ~pooled /\ entered = [new EXCEPT !.place = "merged", !.into = matching]
          \/ place = "in" /\ entered = [new EXCEPT !.place = "in", !.at = L2(core)]
      <3> HIDE DEF new, r, matching
      <3> QED BY <2>5 DEF entered
    <2>7. /\ IsReq(entered) /\ entered.type = type /\ entered.core = core /\ entered.line = line
          /\ entered.func = func /\ entered.uop = v /\ entered.pool = pooled /\ entered.place = place
          /\ place = "merged" => entered.into = matching
          /\ place = "in" => entered.at = L2(core)
      <3> HIDE DEF place, matching, pooled
      <3>1. new = NewReq(type, core, line, func, v, pooled)
        BY DEF new
      <3> HIDE DEF new
      <3>2. \/ place = "merged" /\ entered = Merging(new, matching)
            \/ place = "in" /\ entered = Going(new, L2(core))
        BY <2>6 DEF Merging, Going
      <3> QED BY ONLY <3>1, <3>2, NewRequestIs
    <2>8. place = "merged" => LET j == matching
                              IN  /\ j \in Ids /\ r[j].place # "merged" /\ DemandReq(r[j])
                                  /\ Occurs(j, m[core]) /\ r[j].core = core /\ r[j].line = line
      <3> SUFFICES ASSUME matching # 0, ~pooled
                   PROVE  LET j == matching
                          IN  /\ j \in Ids /\ r[j].place # "merged" /\ DemandReq(r[j])
                              /\ Occurs(j, m[core]) /\ r[j].core = core /\ r[j].line = line
        OBVIOUS
      <3> DEFINE j == search_req(core, line)
      <3>1. /\ j \in Ids /\ TakesEntry(req[j]) /\ req[j].core = core /\ req[j].line = line
            /\ req[j].place # "merged" /\ Occurs(j, mshr[core])
        BY Found
      <3>2. DemandReq(req[j])
        BY <1>10, <3>1 DEF DemandReq, TakesEntry
      <3>3. j \notin flush2
        BY <3>2 DEF Flushed, DemandReq
      <3> HIDE DEF j
      <3>4. r[j] = req[j]
        <4> HIDE DEF flush2
        <4> QED BY <3>1, <3>3, FreedIs DEF Sound, Table
      <3>5. Occurs(j, m[core])
        <4> HIDE DEF flush2
        <4>1. Thinned(mshr, m, flush2)
          BY ThinnedMshr DEF Sound
        <4> QED BY <3>1, <3>3, <4>1 DEF Thinned
      <3> HIDE DEF r, m
      <3> QED BY <3>1, <3>2, <3>4, <3>5 DEF j
    <2>9. pooled \in BOOLEAN /\ (type = "DSTORE" => v = u)
      BY <1>5 DEF Request
    <2> HIDE DEF r, m, id, new, place
    <2>10. Enterable(entered, r, m, Stores, core, v)
      <3>1. entered.type # "WB" /\ func \in {"none", "icache", "dcache", "write_ack"} /\ (func = "none" => v = 0)
        BY <2>7 DEF Request
      <3>2. place \in {"in", "merged"} /\ (pooled => place = "in")
        BY DEF place
      <3> HIDE DEF matching, pooled
      <3> QED BY <2>4, <2>7, <2>8, <2>9, <3>1, <3>2 DEF Enterable
    <2>11. Called(uop, uop', v, entered)
      BY <1>4, <1>5, <1>10, <2>7
    <2>12. Queued(entered, m, mshr', core, id)
      BY <1>10, <2>3, <2>7 DEF Queued
    <2>13. req' = [r EXCEPT ![id] = entered]
      BY <1>10
    <2>14. Sound(req', mshr', uop', Stores)
      BY ONLY <2>1, <2>2, <2>10, <2>11, <2>12, <2>13, core \in Cores, Entered
    <2>15. InPlace(req', policy)
      <3>1. InPlace(r, policy) /\ IsTable(r)
        <4>1. InPlace(r, policy)
          BY <1>p, FreedPlaced DEF r
        <4> QED BY <2>1, <4>1 DEF Sound, Table
      <3>2. Placed(entered, policy)
        <4>1. Right(entered.place, entered.at, entered.state, entered.core, policy)
          BY <2>7 DEF place, Right, L2
        <4> QED BY <2>7, <4>1 DEF Placed
      <3>3. req'[id] = entered /\ \A j \in Ids \ {id} : req'[j] = r[j]
        BY <2>2, <2>13, <3>1 DEF IsTable
      <3> QED BY <3>1, <3>2, <3>3 DEF InPlace
    <2> QED BY <2>14, <2>15
  <1> QED BY <1>1, <1>7, <1>8, <1>9, <1>10
--------------------------------------------------------------------------------
(* The steps. *)

LEMMA ProgramIs ==
    ASSUME Program
    PROVE  /\ KnobsOk(config) /\ 0 \notin DOMAIN program /\ DOMAIN uop = DOMAIN program
           /\ \A u \in DOMAIN program :
                program[u] \in [core : Cores, type : {"LD", "ST", "PF", "IF", "HP"}, line : Nat]
           /\ \A u \in DOMAIN program : u \in Stores <=> config.ptx /\ program[u].type = "ST"
           /\ IsFiniteSet(Stores) /\ Stores \subseteq DOMAIN program
           /\ MshrSize + Cardinality(Stores) <= InSize
  <1> DEFINE Access == [core : Cores, type : {"LD", "ST", "PF", "IF", "HP"}, line : Nat]
  <1>1. PICK s \in Scenarios : config = s[1] /\ program = s[2]
    BY DEF Program
  <1>2. /\ KnobsOk(s[1]) /\ s[2] \in Seq(Access)
        /\ MshrSize + Cardinality(PooledStores(s)) <= InSize
    BY ScenariosAssumption
  <1>3. PooledStores(s) = Stores
    BY <1>1 DEF Stores, PooledStores
  <1>4. DOMAIN program = 1..Len(program) /\ Len(program) \in Nat /\ \A u \in DOMAIN program : program[u] \in Access
    <2> HIDE DEF Access
    <2> QED BY <1>1, <1>2, LenProperties, ElementOfSeq
  <1>5. \A u : u \in Stores <=> u \in DOMAIN program /\ config.ptx /\ program[u].type = "ST"
    BY DEF Stores, PooledStores
  <1>6. IsFiniteSet(Stores)
    <2>1. IsFiniteSet(1..Len(program))
      BY <1>4, FS_Interval
    <2>2. Stores \in SUBSET (1..Len(program))
      BY <1>4, <1>5
    <2> QED BY <2>1, <2>2, FS_Subset
  <1> QED BY <1>1, <1>2, <1>3, <1>4, <1>5, <1>6 DEF Program

LEMMA AccessStep ==
    ASSUME MemInv, NEW u \in DOMAIN uop, access(u) \/ fetch_or_prefetch(u)
    PROVE  /\ Sound(req', mshr', uop', Stores) /\ InPlace(req', config.policy)
           /\ uop' \in [DOMAIN program -> {"new", "wait", "done"}]
  <1> DEFINE core == program[u].core
             type == program[u].type
             line == program[u].line
  <1>1. /\ Sound(req, mshr, uop, Stores) /\ InPlace(req, config.policy) /\ uop[u] = "new"
        /\ uop \in [DOMAIN program -> {"new", "wait", "done"}]
    BY DEF MemInv, Program, access, fetch_or_prefetch, Turn
  <1>2. /\ config.ptx \in BOOLEAN /\ 0 \notin DOMAIN program /\ DOMAIN uop = DOMAIN program
        /\ core \in Cores /\ line \in Nat /\ type \in {"LD", "ST", "PF", "IF", "HP"}
        /\ u \in Stores <=> config.ptx /\ type = "ST"
        /\ IsFiniteSet(Stores) /\ Stores \subseteq DOMAIN uop
        /\ MshrSize + Cardinality(Stores) <= InSize
    BY ProgramIs DEF MemInv, KnobsOk
  <1>3. uop' \in [DOMAIN program -> {"new", "wait", "done"}]
    <2>1. \/ uop' = uop
          \/ \E x \in {"wait", "done"} : uop' = [uop EXCEPT ![u] = x]
      BY DEF access, AccessMiss, fetch_or_prefetch
    <2> QED BY <1>1, <2>1
  <1> HIDE DEF core, type, line
  <1>4. ASSUME NEW reqtype, NEW func, NEW v, NEW result \in BOOLEAN, Request(reqtype, func, v, u),
               new_mem_req(core, reqtype, line, func, v, result),
               Returned(u, reqtype, result)
        PROVE  Sound(req', mshr', uop', Stores) /\ InPlace(req', config.policy)
    BY ONLY <1>1, <1>2, <1>4, NewMemReq
  <1>5. CASE fetch_or_prefetch(u)
    <2>1. PICK result \in BOOLEAN :
            /\ IF type = "IF" THEN new_mem_req(core, "IFETCH", line, "icache", u, result)
               ELSE new_mem_req(core, "DPRF", line, "none", 0, result)
            /\ uop' = IF ~result THEN uop ELSE [uop EXCEPT ![u] = IF type = "HP" THEN "done" ELSE "wait"]
            /\ type \in {"IF", "HP"}
      BY <1>5 DEF fetch_or_prefetch, core, type, line
    <2>2. Request("IFETCH", "icache", u, u) /\ Request("DPRF", "none", 0, u)
      BY <1>1, <1>2 DEF Request
    <2>3. Returned(u, IF type = "IF" THEN "IFETCH" ELSE "DPRF", result)
      BY <2>1 DEF Returned
    <2> QED BY <1>3, <1>4, <2>1, <2>2, <2>3
  <1>6. CASE access(u) /\ AccessMiss(u, line, core, type)
    <2> DEFINE reqtype == CASE type = "LD" -> "DFETCH" [] type = "ST" -> "DSTORE" [] OTHER -> "DPRF"
               func == IF Evicts(type) THEN "write_ack" ELSE "dcache"
    <2>1. PICK result \in BOOLEAN :
            /\ new_mem_req(core, reqtype, line, func, u, result)
            /\ uop' = IF ~result THEN uop ELSE [uop EXCEPT ![u] = IF type = "PF" THEN "done" ELSE "wait"]
      BY <1>6 DEF AccessMiss
    <2>2. type \in {"LD", "ST", "PF"}
      BY <1>6 DEF access, type
    <2>3. /\ reqtype \in {"DFETCH", "DSTORE", "DPRF"} /\ func \in {"dcache", "write_ack"}
          /\ reqtype = "DPRF" <=> type = "PF"
          /\ reqtype = "DSTORE" <=> type = "ST"
      BY <2>2
    <2> HIDE DEF reqtype, func
    <2>4. Request(reqtype, func, u, u)
      BY <1>1, <1>2, <2>3 DEF Request
    <2>5. Returned(u, reqtype, result)
      BY <2>1, <2>3 DEF Returned
    <2> QED BY <1>3, <1>4, <2>1, <2>4, <2>5
  <1>7. CASE req' = req /\ mshr' = mshr /\ uop' = [uop EXCEPT ![u] = "done"]
    <2> DEFINE q == [type |-> "DPRF"]
    <2>1. ~DemandReq(q) /\ Called(uop, uop', 0, q)
      BY <1>1, <1>7 DEF DemandReq, Called
    <2> HIDE DEF q
    <2>2. Sound(req, mshr, uop', Stores)
      BY <1>1, <2>1, CalledSound
    <2> QED BY <1>1, <1>3, <1>7, <2>2
  <1>8. CASE access(u)
    <2>1. \/ AccessMiss(u, line, core, type)
          \/ req' = req /\ mshr' = mshr /\ uop' = [uop EXCEPT ![u] = "done"]
      BY <1>8 DEF access, core, line, type
    <2> QED BY <1>6, <1>7, <1>8, <2>1
  <1> QED BY <1>3, <1>5, <1>8

LEMMA MemInvInit == Init => MemInv
  <1> SUFFICES ASSUME Init PROVE MemInv
    OBVIOUS
  <1>1. Program
    BY DEF Init, Program
  <1>2. 0 \notin DOMAIN uop
    BY <1>1, ProgramIs
  <1>3. /\ FreeReq.place = "free" /\ FreeReq.uop = 0 /\ RequestSound(FreeReq, uop, Stores)
        /\ req = [i \in Ids |-> FreeReq] /\ mshr = [c \in Cores |-> <<>>]
    BY FreeIs DEF Init
  <1>4. IsTable(req) /\ \A i \in Ids : req[i] = FreeReq
    BY <1>3 DEF IsTable
  <1>5. \A i \in Ids : req[i].place = "free" /\ req[i].uop = 0 /\ RequestSound(req[i], uop, Stores)
    BY <1>3, <1>4
  <1>6. Table(req, uop, Stores)
    BY <1>4, <1>5 DEF Table
  <1>7. Listed(req, mshr)
    <2>1. mshr \in [Cores -> Seq(Ids)] /\ \A c \in Cores : Len(mshr[c]) = 0 /\ 1..Len(mshr[c]) = {}
      BY <1>3
    <2>2. MshrSize >= 0
      BY SizesAssumption
    <2> QED BY <1>5, <2>1, <2>2 DEF Listed, OnceEach, Occurs, TakesEntry
  <1>8. MergedRight(req, mshr)
    BY <1>5 DEF MergedRight
  <1>9. Owned(req, uop)
    BY <1>2, <1>5 DEF Owned, Init
  <1>10. InPlace(req, config.policy)
    <2>1. Placed(FreeReq, config.policy)
      BY DEF Placed, Right, FreeReq
    <2> QED BY <1>4, <2>1 DEF InPlace
  <1> QED BY <1>1, <1>6, <1>7, <1>8, <1>9, <1>10 DEF MemInv, Sound

LEMMA MemInvNext == MemInv /\ [Next]_vars => MemInv'
  <1> SUFFICES ASSUME MemInv, [Next]_vars PROVE MemInv'
    OBVIOUS
  <1>1. Sound(req, mshr, uop, Stores) /\ InPlace(req, config.policy) /\ Program /\ KnobsOk(config)
    BY ProgramIs DEF MemInv
  <1>2. config' = config /\ program' = program
    BY DEF Next, vars, access, fetch_or_prefetch, Step, InHit, InMiss, ProcessOut, FillNew, FillWaitDone,
           FillWaitFill, ProcessWb, receive_packet, receive, Answer, NextCycle, PrefetchAgain
  <1>3. Stores' = Stores
    BY <1>2 DEF Stores, PooledStores
  <1>4. /\ Sound(req', mshr', uop', Stores) /\ InPlace(req', config.policy)
        /\ uop' \in [DOMAIN program -> {"new", "wait", "done"}]
    <2>1. CASE UNCHANGED <<req, mshr, uop>>
      BY <1>1, <2>1 DEF Program
    <2>2. ASSUME NEW u \in DOMAIN uop, access(u) \/ fetch_or_prefetch(u)
          PROVE  /\ Sound(req', mshr', uop', Stores) /\ InPlace(req', config.policy)
                 /\ uop' \in [DOMAIN program -> {"new", "wait", "done"}]
      BY <2>2, AccessStep
    <2>3. ASSUME NEW i \in Ids, Step(i)
          PROVE  /\ Sound(req', mshr', uop', Stores) /\ InPlace(req', config.policy)
                 /\ uop' \in [DOMAIN program -> {"new", "wait", "done"}]
      <3>1. Holds
        BY <1>1, <2>3, InStep, FillStep, NetworkStep DEF Step
      <3>2. uop' \in [DOMAIN program -> {"new", "wait", "done"}]
        <4>1. CASE uop' = uop
          BY <1>1, <4>1 DEF Program
        <4>2. CASE uop' # uop
          <5>1. Ended(uop, uop') /\ uop \in [DOMAIN program -> {"new", "wait", "done"}]
            BY <1>1, <3>1, <4>2 DEF Holds, Program
          <5> QED BY <5>1 DEF Ended
        <4> QED BY <4>1, <4>2
      <3>3. InPlace(req', config.policy)
        BY <1>1, <2>3, StepPlaced
      <3> QED BY <3>1, <3>2, <3>3 DEF Holds
    <2> QED BY <2>1, <2>2, <2>3 DEF Next, vars, NextCycle, PrefetchAgain
  <1> QED BY <1>1, <1>2, <1>3, <1>4 DEF MemInv, Program
--------------------------------------------------------------------------------
(* The contents of the caches. *)

\* A set of a cache: a line is in it once.
Cell == [line : Nat, dirty : BOOLEAN]
Holding(s) ==
    s \in Seq(Cell) /\ \A x, y : Occurs(x, s) /\ Occurs(y, s) /\ x.line = y.line => x = y
HasDirty(s, line) == \E x : Occurs(x, s) /\ x.line = line /\ x.dirty

LEMMA OccursIsCell ==
    ASSUME NEW s, Holding(s), NEW x, Occurs(x, s)
    PROVE  x \in Cell
  BY ElementOfSeq, LenProperties DEF Holding, Occurs

\* What is in a list with something put in front.
LEMMA InFront ==
    ASSUME NEW S, NEW s \in Seq(S), NEW e \in S, NEW s2, s2 = <<e>> \o s
    PROVE  s2 \in Seq(S) /\ \A x : Occurs(x, s2) <=> x = e \/ Occurs(x, s)
  <1>1. Len(s) \in Nat /\ s2 \in Seq(S) /\ Len(s2) = Len(s) + 1
    OBVIOUS
  <1>2. s2[1] = e /\ \A k \in 1..Len(s) : s2[k + 1] = s[k]
    OBVIOUS
  <1>3. ASSUME NEW x, Occurs(x, s2) PROVE x = e \/ Occurs(x, s)
    <2>1. PICK k \in 1..Len(s2) : s2[k] = x
      BY <1>3 DEF Occurs
    <2>2. CASE k = 1
      BY <1>2, <2>1, <2>2
    <2>3. CASE k # 1
      <3>1. k - 1 \in 1..Len(s) /\ (k - 1) + 1 = k
        BY <1>1, <2>1, <2>3
      <3> QED BY <1>2, <2>1, <3>1 DEF Occurs
    <2> QED BY <2>2, <2>3
  <1>4. ASSUME NEW x, x = e \/ Occurs(x, s) PROVE Occurs(x, s2)
    <2>1. CASE x = e
      BY <1>1, <1>2, <2>1 DEF Occurs
    <2>2. CASE Occurs(x, s)
      <3>1. PICK k \in 1..Len(s) : s[k] = x
        BY <2>2 DEF Occurs
      <3>2. k + 1 \in 1..Len(s2)
        BY <1>1, <3>1
      <3> QED BY <1>2, <3>1, <3>2 DEF Occurs
    <2> QED BY <1>4, <2>1, <2>2
  <1> QED BY <1>1, <1>3, <1>4

LEMMA WithoutHolds ==
    ASSUME NEW s, Holding(s), NEW line, NEW s2, s2 = Without(s, line)
    PROVE  Holding(s2) /\ \A x : Occurs(x, s2) <=> Occurs(x, s) /\ x.line # line
  <1> DEFINE S == {e \in ToSet(s) : e.line # line}
  <1>1. \A x : x \in ToSet(s) <=> Occurs(x, s)
    BY LenProperties DEF ToSet, Occurs, Holding
  <1>2. s2 \in Seq(Cell) /\ \A x : Occurs(x, s2) <=> Occurs(x, s) /\ x \in S
    <2> HIDE DEF S
    <2>1. s2 = Kept(s, S)
      BY DEF Without, S
    <2> QED BY <2>1, KeptProperties DEF Holding
  <1>3. \A x : Occurs(x, s2) <=> Occurs(x, s) /\ x.line # line
    BY <1>1, <1>2
  <1> QED BY <1>2, <1>3 DEF Holding

\* The entry of a line.
LEMMA EntryIs ==
    ASSUME NEW s, Holding(s), NEW line, Present(s, line)
    PROVE  Occurs(Entry(s, line), s) /\ Entry(s, line).line = line
  <1>1. \E k \in 1..Len(s) : s[k].line = line
    BY DEF Present
  <1> QED BY <1>1 DEF Entry, Occurs

LEMMA TouchedHolds ==
    ASSUME NEW s, Holding(s), NEW line, NEW s2, s2 = access_cache(s, line)
    PROVE  Holding(s2) /\ \A x : Occurs(x, s2) <=> Occurs(x, s)
  <1>1. CASE ~Present(s, line)
    BY <1>1 DEF access_cache
  <1>2. CASE Present(s, line)
    <2> DEFINE e == Entry(s, line)
               w == Without(s, line)
    <2>1. Occurs(e, s) /\ e.line = line /\ e \in Cell
      BY <1>2, EntryIs, OccursIsCell
    <2>2. Holding(w) /\ \A x : Occurs(x, w) <=> Occurs(x, s) /\ x.line # line
      BY WithoutHolds
    <2>3. s2 = <<e>> \o w
      BY <1>2 DEF access_cache
    <2> HIDE DEF e, w
    <2>4. s2 \in Seq(Cell) /\ \A x : Occurs(x, s2) <=> x = e \/ Occurs(x, w)
      BY <2>1, <2>2, <2>3, InFront DEF Holding
    <2>5. ASSUME NEW x PROVE Occurs(x, s2) <=> Occurs(x, s)
      BY <2>1, <2>2, <2>4 DEF Holding
    <2> QED BY <2>4, <2>5 DEF Holding
  <1> QED BY <1>1, <1>2

\* mark_dirty forgets no modification and makes up none.
LEMMA MarkedHolds ==
    ASSUME NEW s, Holding(s), NEW line \in Nat, NEW d \in BOOLEAN, NEW s2, s2 = mark_dirty(s, line, d)
    PROVE  /\ Holding(s2)
           /\ \A l : HasDirty(s, l) => HasDirty(s2, l)
           /\ d /\ Present(s, line) => HasDirty(s2, line)
           /\ ~d => \A l : HasDirty(s2, l) => HasDirty(s, l)
           /\ s = <<>> => s2 = <<>>
  <1> DEFINE Mark(e) == IF e.line = line THEN [line |-> line, dirty |-> e.dirty \/ d] ELSE e
  <1>1. Len(s) \in Nat /\ \A k \in 1..Len(s) : s[k] \in Cell
    BY ElementOfSeq, LenProperties DEF Holding
  <1>2. \A e \in Cell : /\ Mark(e) \in Cell /\ Mark(e).line = e.line /\ (e.dirty => Mark(e).dirty)
                        /\ d /\ e.line = line => Mark(e).dirty
                        /\ ~d => Mark(e).dirty = e.dirty
    BY DEF Cell
  <1>3. s2 = [k \in 1..Len(s) |-> Mark(s[k])]
    BY DEF mark_dirty
  <1> HIDE DEF Mark
  <1>4. s2 \in Seq(Cell) /\ Len(s2) = Len(s) /\ \A k \in 1..Len(s) : s2[k] = Mark(s[k])
    <2>1. \A k \in 1..Len(s) : Mark(s[k]) \in Cell
      BY <1>1, <1>2
    <2> QED BY <1>1, <1>3, <2>1
  <1>5. ASSUME NEW y, Occurs(y, s2) PROVE \E x : Occurs(x, s) /\ x \in Cell /\ y = Mark(x)
    BY <1>1, <1>4, <1>5 DEF Occurs
  <1>6. ASSUME NEW x, Occurs(x, s) PROVE x \in Cell /\ Occurs(Mark(x), s2)
    BY <1>1, <1>4, <1>6 DEF Occurs
  <1>7. Holding(s2)
    <2>1. ASSUME NEW y, NEW z, Occurs(y, s2), Occurs(z, s2), y.line = z.line PROVE y = z
      <3>1. PICK x : Occurs(x, s) /\ x \in Cell /\ y = Mark(x)
        BY <1>5, <2>1
      <3>2. PICK v : Occurs(v, s) /\ v \in Cell /\ z = Mark(v)
        BY <1>5, <2>1
      <3>3. x.line = v.line
        BY <1>2, <2>1, <3>1, <3>2
      <3> QED BY <3>1, <3>2, <3>3 DEF Holding
    <2> QED BY <1>4, <2>1 DEF Holding
  <1>8. ASSUME NEW l, HasDirty(s, l) PROVE HasDirty(s2, l)
    BY <1>2, <1>6, <1>8 DEF HasDirty
  <1>9. ASSUME d, Present(s, line) PROVE HasDirty(s2, line)
    <2> DEFINE x == Entry(s, line)
    <2>1. Occurs(x, s) /\ x.line = line
      BY <1>9, EntryIs
    <2> HIDE DEF x
    <2>2. x \in Cell /\ Occurs(Mark(x), s2)
      BY <1>6, <2>1
    <2>3. Mark(x).line = line /\ Mark(x).dirty
      BY <1>2, <1>9, <2>1, <2>2
    <2> QED BY <2>2, <2>3 DEF HasDirty
  <1>10. ASSUME ~d, NEW l, HasDirty(s2, l) PROVE HasDirty(s, l)
    <2>1. PICK y : Occurs(y, s2) /\ y.line = l /\ y.dirty
      BY <1>10 DEF HasDirty
    <2>2. PICK x : Occurs(x, s) /\ x \in Cell /\ y = Mark(x)
      BY <1>5, <2>1
    <2> QED BY <1>2, <1>10, <2>1, <2>2 DEF HasDirty
  <1>11. s = <<>> => s2 = <<>>
    BY <1>4
  <1> QED BY <1>7, <1>8, <1>9, <1>10, <1>11

\* insert_cache drops nothing but the victim.
LEMMA InsertedHolds ==
    ASSUME NEW s, Holding(s), NEW line \in Nat, NEW d \in BOOLEAN, ~Present(s, line),
           NEW s2, s2 = insert_cache(s, line, d)
    PROVE  /\ Holding(s2)
           /\ \A l : HasDirty(s, l) =>
                \/ HasDirty(s2, l)
                \/ Victim(s) # <<>> /\ Victim(s)[1].dirty /\ Victim(s)[1].line = l
           /\ d => HasDirty(s2, line)
           /\ ~d => \A l : HasDirty(s2, l) => HasDirty(s, l)
           /\ Victim(s) # <<>> => Victim(s)[1] \in Cell
  <1> DEFINE e == [line |-> line, dirty |-> d]
             w == IF Len(s) < Assoc THEN s ELSE SubSeq(s, 1, Len(s) - 1)
  <1>1. /\ s \in Seq(Cell) /\ Len(s) \in Nat /\ \A k \in 1..Len(s) : s[k] \in Cell
        /\ Assoc \in Nat \ {0} /\ e \in Cell /\ e.line = line /\ e.dirty = d
    BY ElementOfSeq, LenProperties, SizesAssumption DEF Holding, Cell
  <1>2. ~(Len(s) < Assoc) => Len(s) \in 1..Len(s)
    BY <1>1
  <1>3. Victim(s) # <<>> => Victim(s)[1] = s[Len(s)] /\ ~(Len(s) < Assoc)
    BY DEF Victim
  <1>3a. ~(Len(s) < Assoc) => Victim(s) # <<>> /\ Victim(s)[1] = s[Len(s)]
    BY DEF Victim
  <1>4. w \in Seq(Cell) /\ (\A x : Occurs(x, w) => Occurs(x, s))
        /\ \A x : Occurs(x, s) => Occurs(x, w) \/ (~(Len(s) < Assoc) /\ x = s[Len(s)])
    <2>1. CASE Len(s) < Assoc
      BY <1>1, <2>1
    <2>2. CASE ~(Len(s) < Assoc)
      <3> DEFINE n == Len(s) - 1
      <3>1. w = SubSeq(s, 1, n) /\ n \in Nat /\ n <= Len(s) /\ 1 \in Nat /\ 1 >= 1
        BY <1>1, <1>2, <2>2
      <3>2. ASSUME NEW x, Occurs(x, s), x # s[Len(s)] PROVE OccursIn(x, s, 1, n)
        BY <1>1, <3>2 DEF Occurs, OccursIn
      <3> DEFINE m == 1
      <3>4. w = SubSeq(s, m, n) /\ n \in Nat /\ n <= Len(s) /\ m \in Nat /\ m >= 1 /\ s \in Seq(Cell)
        BY <1>1, <3>1
      <3> HIDE DEF w, n, m
      <3>5. /\ w \in Seq(Cell) /\ \A x : Occurs(x, w) <=> OccursIn(x, s, m, n)
            /\ \A x : Occurs(x, w) => Occurs(x, s)
        BY ONLY <3>4, Piece
      <3>3. /\ w \in Seq(Cell) /\ \A x : Occurs(x, w) <=> OccursIn(x, s, 1, n)
            /\ \A x : Occurs(x, w) => Occurs(x, s)
        BY <3>5 DEF m
      <3> QED BY <2>2, <3>2, <3>3
    <2> QED BY <2>1, <2>2
  <1>5. s2 = <<e>> \o w
    BY DEF insert_cache
  <1> HIDE DEF w, e
  <1>6. s2 \in Seq(Cell) /\ \A x : Occurs(x, s2) <=> x = e \/ Occurs(x, w)
    BY <1>1, <1>4, <1>5, InFront
  <1>7. ASSUME NEW x, Occurs(x, w) PROVE x.line # line
    BY <1>4, <1>7 DEF Occurs, Present
  <1>8. Holding(s2)
    BY <1>1, <1>4, <1>6, <1>7 DEF Holding
  <1>9. ASSUME NEW l, HasDirty(s, l), ~HasDirty(s2, l)
        PROVE  Victim(s) # <<>> /\ Victim(s)[1].dirty /\ Victim(s)[1].line = l
    BY <1>3a, <1>4, <1>6, <1>9 DEF HasDirty
  <1>10. ASSUME ~d, NEW l, HasDirty(s2, l) PROVE HasDirty(s, l)
    BY <1>1, <1>4, <1>6, <1>10 DEF HasDirty
  <1>11. d => HasDirty(s2, line)
    BY <1>1, <1>6 DEF HasDirty
  <1>12. Victim(s) # <<>> => Victim(s)[1] \in Cell
    BY <1>1, <1>2, <1>3
  <1> QED BY <1>8, <1>9, <1>10, <1>11, <1>12

--------------------------------------------------------------------------------
(* Modified lines, for the memory types in which every level is a cache. *)

Keeping == {"l3_coupled_network", "l3_decoupled_network"}
Lower == {"L2", "L3"} \X Cores

\* Where a request can be. Fills and new requests go to the L2 and the L3, the way up
\* through the network begins at an L3, and a write-back that is filled ends there.
Way(place, at, state, core, type) ==
    /\ place \in {"in", "fill", "out"} => at \in Lower
    /\ place = "wb" => at \in Lower \cup {L1(core)}
    /\ place = "noc" => at \in Lower \cup {MC}
    /\ place = "out" /\ state = "OUT_FILL" => at[1] = "L3"
    /\ place = "fill" /\ state = "FILL_WAIT_FILL" => at[1] = "L3"
    /\ place = "fill" /\ type = "WB" => state = "FILL_NEW"
OnWay(q) ==
    /\ q.place # "free" => q.core \in Cores /\ q.line \in Nat /\ q.dirty = (q.type = "WB")
    /\ q.type = "WB" => q.place # "free" /\ q.func = "none"
    /\ Way(q.place, q.at, q.state, q.core, q.type)
OnWays(r) == \A i \in Ids : OnWay(r[i])

\* A GPU core does not write into its L1.
CachesRight(ca) ==
    /\ ca = [c \in Caches |-> ca[c]]
    /\ \A c \in Caches : Holding(ca[c])
    /\ config.ptx => \A c \in Cores : \A l : ~HasDirty(ca[L1(c)], l)

\* Every level is a cache, and nobody asks for address 0, which a cache takes for no victim.
KeepsLines ==
    /\ config.policy \in Keeping
    /\ \A u \in DOMAIN program : program[u].line # 0
DirtyInv == KeepsLines /\ CachesRight(cache) /\ OnWays(req)

DirtyIn(ca, l) == \E c \in Caches : HasDirty(ca[c], l)
WrittenBack(r, l) == \E i \in Ids : r[i].type = "WB" /\ r[i].line = l

\* The write-backs of r are those of r2, apart from that of i.
StillThere(r, r2, G) ==
    \A i \in Ids \ G : r[i].type = "WB" => r2[i].type = "WB" /\ r2[i].line = r[i].line

LEMMA KeepingTopology ==
    ASSUME config.policy \in Keeping, NEW c, c[1] \in {"L1", "L2", "L3"}
    PROVE  /\ ~At(c).disable
           /\ At(c).done <=> c[1] = "L2"
           /\ At(c).router <=> c[1] # "L1"
           /\ c[1] = "L1" => At(c).down
           /\ c[1] = "L3" => ~At(c).down
  <1> DEFINE t == Topology(config.policy)
  <1>1. /\ ~t["L1"].disable /\ ~t["L1"].done /\ ~t["L1"].router /\ t["L1"].down
        /\ ~t["L2"].disable /\ t["L2"].done /\ t["L2"].router
        /\ ~t["L3"].disable /\ ~t["L3"].done /\ t["L3"].router /\ ~t["L3"].down
    <2>1. CASE config.policy = "l3_coupled_network"
      BY <2>1 DEF Topology, Link
    <2>2. CASE config.policy = "l3_decoupled_network"
      BY <2>2 DEF Topology, Link
    <2> QED BY <2>1, <2>2 DEF Keeping
  <1>2. At(c) = t[c[1]]
    BY DEF At
  <1> HIDE DEF t
  <1> QED BY <1>1, <1>2

\* The names of the caches.
LEMMA CachesAre ==
    /\ \A c \in Caches : c[1] \in {"L1", "L2", "L3"} /\ c = <<c[1], c[2]>> /\ c[2] \in Cores
    /\ \A c \in Lower : c[1] \in {"L2", "L3"} /\ c \in Caches /\ c = <<c[1], c[2]>> /\ c[2] \in Cores
    /\ \A k \in Cores : /\ L1(k) \in Caches /\ L1(k) \notin Lower /\ L1(k)[1] = "L1" /\ L1(k)[2] = k
                        /\ L2(k) \in Lower /\ L2(k)[1] = "L2" /\ L2(k)[2] = k
                        /\ L3(k) \in Lower /\ L3(k)[1] = "L3"
  BY DEF Caches, Lower, L1, L2, L3

\* The component of a lower level that serves a request.
LEMMA ServedBelow ==
    ASSUME config.policy \in Keeping, NEW q, q.core \in Cores, q.line \in Nat
    PROVE  /\ Component("L3", q) \in Lower /\ Component("L3", q)[1] = "L3"
           /\ Component("L2", q) = L2(q.core)
           /\ Component("MC", q) = MC
  <1>1. Cores = 0..(Cardinality(Cores) - 1) /\ Cardinality(Cores) \in Nat
    BY SizesAssumption, FS_CardinalityType
  <1>2. Cardinality(Cores) > 0
    BY <1>1
  <1> DEFINE n == Cardinality(Cores)
  <1>3. set_cache_id(q.core, q.line) = q.line % n
    BY DEF set_cache_id, Slices, Keeping
  <1> HIDE DEF n
  <1>4. q.line % n \in Cores
    BY <1>1, <1>2 DEF n
  <1> QED BY <1>3, <1>4, CachesAre DEF Component, L2

\* Packets come out where they are sent to.
LEMMA ReceiverLower ==
    ASSUME config.policy \in Keeping, NEW x \in Lower \cup {MC}
    PROVE  Receiver(x) \in Lower \cup {MC}
  <1> DEFINE n == Cardinality(Cores)
             D == Caches \cup {MC}
             Gets(d) == (d = MC \/ At(d).router) /\ m_noc_id(d) = m_dst_map(x)
  <1>1. CASE config.noc = "noc_c"
    BY <1>1 DEF Receiver
  <1>2. CASE config.noc # "noc_c"
    <2>1. Receiver(x) = CHOOSE d \in D : Gets(d)
      BY <1>2 DEF Receiver
    <2>2. \A d \in D : Gets(d) => d \in Lower \cup {MC}
      <3>1. \A d \in Caches : At(d).router => d \in Lower
        BY KeepingTopology DEF Caches, Lower
      <3> HIDE DEF D
      <3> QED BY <3>1 DEF D
    <2>3. x \in D /\ (x = MC \/ At(x).router)
      BY CachesAre, KeepingTopology
    <2>4. m_noc_id(x) = m_dst_map(x)
      <3>1. n \in Nat /\ Cores \subseteq Nat
        BY SizesAssumption, FS_CardinalityType
      <3>2. /\ ~At(<<"L1", 0>>).router /\ At(<<"L2", 0>>).router /\ At(<<"L3", 0>>).router
        BY KeepingTopology
      <3>3. x = MC \/ (x[1] \in {"L2", "L3"} /\ x[2] \in Cores)
        BY CachesAre
      <3> HIDE DEF n
      <3> QED BY <3>1, <3>2, <3>3 DEF m_noc_id, m_dst_map, MC, n
    <2> HIDE DEF Gets, D
    <2>5. \E d \in D : Gets(d)
      BY <2>3, <2>4 DEF Gets
    <2> QED BY <2>1, <2>2, <2>5
  <1> QED BY <1>1, <1>2

\* A move takes everything along.
LEMMA MovedOnWay ==
    ASSUME NEW r, NEW m, NEW u, NEW P, Sound(r, m, u, P), OnWays(r), NEW i \in Ids, r[i].place # "free",
           NEW place, place # "free", NEW at, NEW state, Way(place, at, state, r[i].core, r[i].type),
           NEW r2, r2 = Move(r, i, place, at, state)
    PROVE  OnWays(r2) /\ StillThere(r, r2, {})
  <1>1. IsTable(r) /\ IsReq(r[i])
    BY DEF Sound, Table, RequestSound
  <1>2. /\ OnlyIn(r, r2, i) /\ Alike(r[i], r2[i])
        /\ r2[i].place = place /\ r2[i].state = state /\ r2[i].at = at
    BY <1>1, MoveIs
  <1>3. OnWay(r2[i])
    BY <1>2 DEF OnWays, OnWay, Alike
  <1>4. \A j \in Ids : r2[j] = r[j] \/ j = i
    BY <1>2 DEF OnlyIn
  <1> QED BY <1>2, <1>3, <1>4 DEF OnWays, StillThere, Alike

LEMMA WroteOnWay ==
    ASSUME NEW r, IsTable(r), OnWays(r), Spare(r), NEW c, NEW core \in Cores, NEW line \in Nat,
           c \in Lower \cup {L1(core)}, NEW r2, r2 = WriteBack(r, c, core, line)
    PROVE  OnWays(r2) /\ StillThere(r, r2, {}) /\ WrittenBack(r2, line)
  <1> DEFINE id == NewId(r)
             p == [FreeReq EXCEPT !.place = "wb", !.at = c, !.type = "WB", !.core = core,
                                  !.line = line, !.dirty = TRUE, !.func = "none"]
  <1>1. id \in Ids /\ r[id].place = "free"
    BY FreeId
  <1>2. r2 = [r EXCEPT ![id] = p]
    BY DEF WriteBack
  <1>3. p.place = "wb" /\ p.at = c /\ p.type = "WB" /\ p.core = core /\ p.line = line /\ p.dirty = TRUE
        /\ p.func = "none"
    BY DEF FreeReq
  <1> HIDE DEF id, p
  <1>4. r2[id] = p /\ \A j \in Ids \ {id} : r2[j] = r[j]
    BY <1>1, <1>2 DEF IsTable
  <1>5. OnWay(p)
    BY <1>3 DEF OnWay, Way
  <1>6. r[id].type # "WB"
    BY <1>1 DEF OnWays, OnWay
  <1> QED BY <1>1, <1>3, <1>4, <1>5, <1>6 DEF OnWays, StillThere, WrittenBack

\* A fill loses nothing: a modified victim is written back, and the line that comes is as
\* modified as the request says.
LEMMA FillKeeps ==
    ASSUME config.policy \in Keeping, CachesRight(cache), NEW r, IsTable(r), OnWays(r), Spare(r),
           NEW q, q.core \in Cores, q.line \in Nat, q.dirty \in BOOLEAN,
           NEW c, c \in Lower \cup {L1(q.core)},
           NEW r2, r2 = Filled(r, q, c), NEW s2, s2 = FilledCache(q, c)
    PROVE  /\ OnWays(r2) /\ StillThere(r, r2, {}) /\ Holding(s2)
           /\ \A l : l # 0 /\ HasDirty(cache[c], l) => HasDirty(s2, l) \/ WrittenBack(r2, l)
           /\ q.dirty => HasDirty(s2, q.line)
           /\ ~q.dirty => \A l : HasDirty(s2, l) => HasDirty(cache[c], l)
  <1> DEFINE s == cache[c]
  <1>1. c \in Caches /\ ~At(c).disable /\ Holding(s)
    BY CachesAre, KeepingTopology DEF CachesRight
  <1>2. CASE Present(s, q.line)
    <2>1. r2 = r /\ s2 = mark_dirty(s, q.line, q.dirty)
      BY <1>1, <1>2 DEF Filled, FilledCache
    <2> HIDE DEF s
    <2> DEFINE d == q.dirty
               line == q.line
    <2>2. d \in BOOLEAN /\ line \in Nat /\ s2 = mark_dirty(s, line, d) /\ Present(s, line)
      BY <1>2, <2>1
    <2> HIDE DEF d, line
    <2>3. /\ Holding(s2) /\ (\A l : HasDirty(s, l) => HasDirty(s2, l))
          /\ d /\ Present(s, line) => HasDirty(s2, line)
          /\ ~d => \A l : HasDirty(s2, l) => HasDirty(s, l)
      BY ONLY <1>1, <2>2, MarkedHolds
    <2> QED BY <2>1, <2>2, <2>3 DEF StillThere, s, d, line
  <1>3. CASE ~Present(s, q.line)
    <2>1. s2 = insert_cache(s, q.line, q.dirty)
      BY <1>1, <1>3 DEF FilledCache
    <2>2. r2 = IF Victim(s) = <<>> \/ Victim(s)[1].line = 0 \/ ~Victim(s)[1].dirty THEN r
               ELSE WriteBack(r, c, q.core, Victim(s)[1].line)
      BY <1>1, <1>3 DEF Filled
    <2> HIDE DEF s
    <2> DEFINE d == q.dirty
               line == q.line
               v == Victim(s)[1]
    <2>3. d \in BOOLEAN /\ line \in Nat /\ s2 = insert_cache(s, line, d) /\ ~Present(s, line)
      BY <1>3, <2>1
    <2> HIDE DEF d, line
    <2>4. /\ Holding(s2)
          /\ \A l : HasDirty(s, l) => \/ HasDirty(s2, l)
                                      \/ Victim(s) # <<>> /\ v.dirty /\ v.line = l
          /\ d => HasDirty(s2, line)
          /\ ~d => \A l : HasDirty(s2, l) => HasDirty(s, l)
          /\ Victim(s) # <<>> => v \in Cell
      BY ONLY <1>1, <2>3, InsertedHolds
    <2>5. CASE r2 = r /\ ~(Victim(s) # <<>> /\ v.dirty /\ v.line # 0)
      BY <2>4, <2>5 DEF StillThere, s, d, line
    <2>6. CASE Victim(s) # <<>> /\ v.dirty /\ r2 = WriteBack(r, c, q.core, v.line)
      <3>1. v.line \in Nat
        BY <2>4, <2>6 DEF Cell
      <3> HIDE DEF v
      <3>2. OnWays(r2) /\ StillThere(r, r2, {}) /\ WrittenBack(r2, v.line)
        BY <2>6, <3>1, WroteOnWay
      <3> QED BY <2>4, <3>2 DEF s, d, line
    <2> QED BY <2>2, <2>5, <2>6
  <1> QED BY <1>2, <1>3

LEMMA FreedOnWay ==
    ASSUME NEW r, IsTable(r), OnWays(r), NEW G, NEW r2, r2 = Freed(r, G)
    PROVE  OnWays(r2) /\ StillThere(r, r2, G)
  <1>1. OnWay(FreeReq)
    BY DEF OnWay, Way, FreeReq
  <1>2. \A j \in Ids : r2[j] = IF j \in G THEN FreeReq ELSE r[j]
    BY FreedIs
  <1> QED BY <1>1, <1>2 DEF OnWays, StillThere

LEMMA WaitsOnWay ==
    ASSUME NEW r, NEW m, NEW u, NEW P, Sound(r, m, u, P), OnWays(r), NEW i \in Ids,
           r[i].place \in {"in", "fill"}, r[i].type # "WB",
           NEW stay, stay = r[i].state \/ stay = "FILL_WAIT_DONE",
           NEW r2, r2 = InState(r, i, stay)
    PROVE  IsTable(r2) /\ OnWays(r2) /\ StillThere(r, r2, {})
  <1> DEFINE p == [r[i] EXCEPT !.state = stay]
  <1>1. IsTable(r) /\ IsReq(r[i])
    BY DEF Sound, Table, RequestSound
  <1>2. r2 = [r EXCEPT ![i] = p]
    BY <1>1 DEF IsTable, InState
  <1>3. PICK U : r[i] \in ReqOf(U)
    BY <1>1 DEF IsReq
  <1>4. /\ p.place = r[i].place /\ p.at = r[i].at /\ p.core = r[i].core /\ p.line = r[i].line
        /\ p.type = r[i].type /\ p.dirty = r[i].dirty /\ p.func = r[i].func /\ p.state = stay
    BY <1>3 DEF ReqOf
  <1> HIDE DEF p
  <1>5. IsTable(r2) /\ r2[i] = p /\ \A j \in Ids \ {i} : r2[j] = r[j]
    BY <1>1, <1>2 DEF IsTable
  <1>6. OnWay(p)
    BY <1>4 DEF OnWays, OnWay, Way
  <1> QED BY <1>4, <1>5, <1>6 DEF OnWays, StillThere

\* The done functions lose no modified line: what the L1 gives up is written back, and
\* what the cache of the request holds is its caller's business.
LEMMA DoneKeeps ==
    ASSUME config.policy \in Keeping, CachesRight(cache),
           NEW r, Sound(r, mshr, uop, Stores), OnWays(r), NEW i \in Ids, r[i].place \in {"in", "fill"},
           NEW c \in Lower, NEW lines, Holding(lines),
           NEW stay, stay = r[i].state \/ stay = "FILL_WAIT_DONE",
           DoneFunc(i, c, r, lines, stay)
    PROVE  /\ OnWays(req') /\ CachesRight(cache') /\ StillThere(r, req', {i})
           /\ cache'[c] = lines
           /\ \A l : \A d \in Caches \ {c} :
                l # 0 /\ HasDirty(cache[d], l) => DirtyIn(cache', l) \/ WrittenBack(req', l)
  <1> DEFINE q == r[i]
             l1 == L1(q.core)
  <1>1. PICK S \in SUBSET Ids :
            /\ Served(r, i, S) /\ Spare(r)
            /\ \E fills \in {Cardinality(DataFills(r, Reached(r, i, S)))} :
                LET r1 == IF fills > 0 THEN Filled(r, q, l1) ELSE r
                    gone == IF Finishes(r, i, S) THEN S \cup {i} ELSE S
                IN  /\ req' = Freed(IF i \in gone THEN r1 ELSE [r1 EXCEPT ![i].state = stay], gone)
                    /\ cache' = [cache EXCEPT ![c] = lines,
                                              ![l1] = IF fills > 0 THEN FilledCache(q, l1) ELSE @]
    BY DEF DoneFunc
  <1> DEFINE fills == Cardinality(DataFills(r, Reached(r, i, S)))
             r1 == IF fills > 0 THEN Filled(r, q, l1) ELSE r
             s1 == IF fills > 0 THEN FilledCache(q, l1) ELSE cache[l1]
             gone == IF Finishes(r, i, S) THEN S \cup {i} ELSE S
             x == IF i \in gone THEN r1 ELSE [r1 EXCEPT ![i].state = stay]
  <1>2. /\ OnWay(q) /\ RequestSound(q, uop, Stores) /\ q.core \in Cores /\ q.line \in Nat
        /\ q.dirty = (q.type = "WB") /\ (q.type = "WB" => q.func = "none")
    BY DEF OnWays, OnWay, Sound, Table
  <1>3. l1 \in Caches /\ l1 # c /\ c \in Caches
    BY <1>2, CachesAre
  <1>4. /\ cache' = [d \in Caches |-> cache'[d]] /\ cache'[c] = lines /\ cache'[l1] = s1
        /\ \A d \in Caches \ {c, l1} : cache'[d] = cache[d]
    <2>1. cache' = [cache EXCEPT ![c] = lines, ![l1] = IF fills > 0 THEN FilledCache(q, l1) ELSE @]
      BY <1>1
    <2> HIDE DEF fills, l1
    <2> DEFINE y == FilledCache(q, l1)
    <2> HIDE DEF y
    <2>2. cache' = [cache EXCEPT ![c] = lines, ![l1] = IF fills > 0 THEN y ELSE @]
      BY <2>1 DEF y
    <2>3. cache = [d \in Caches |-> cache[d]]
      BY DEF CachesRight
    <2> HIDE DEF q
    <2>4. cache' = [d \in Caches |-> cache'[d]] /\ cache'[c] = lines
          /\ cache'[l1] = (IF fills > 0 THEN y ELSE cache[l1])
          /\ \A d \in Caches \ {c, l1} : cache'[d] = cache[d]
      BY <1>3, <2>2, <2>3
    <2> QED BY <2>4 DEF y
  <1>5. req' = Freed(x, gone) /\ S \subseteq MergedInto(r, i)
    BY <1>1 DEF Served
  \* Nothing is merged into a write-back, and it is finished with at once.
  <1>6. q.type = "WB" => ~(fills > 0) /\ i \in gone
    <2> SUFFICES ASSUME q.type = "WB" PROVE ~(fills > 0) /\ i \in gone
      OBVIOUS
    <2>1. MergedInto(r, i) = {}
      BY DEF MergedInto, Sound, MergedRight, DemandReq
    <2>2. S = {} /\ S = MergedInto(r, i)
      BY <1>5, <2>1
    <2>3. Reached(r, i, S) = {} /\ Finishes(r, i, S)
      BY <1>2, <2>2 DEF Reached, Finishes
    <2>4. DataFills(r, Reached(r, i, S)) = {}
      BY <2>3 DEF DataFills
    <2>5. Cardinality({}) = 0
      BY FS_EmptySet
    <2> QED BY <2>3, <2>4, <2>5
  <1>7. /\ OnWays(r1) /\ StillThere(r, r1, {}) /\ Holding(s1)
        /\ \A l : l # 0 /\ HasDirty(cache[l1], l) => HasDirty(s1, l) \/ (fills > 0 /\ WrittenBack(r1, l))
        /\ \A l : HasDirty(s1, l) => HasDirty(cache[l1], l)
    <2>1. CASE fills > 0
      <3>1. r1 = Filled(r, q, l1) /\ s1 = FilledCache(q, l1)
        BY <2>1
      <3>2. q.type # "WB" /\ q.dirty = FALSE /\ Spare(r) /\ IsTable(r) /\ l1 \in Lower \cup {L1(q.core)}
        BY <1>1, <1>2, <1>6, <2>1 DEF Sound, Table
      <3> HIDE DEF r1, s1, fills, l1, q
      <3> DEFINE d == q.dirty
      <3>3. /\ OnWays(r1) /\ StillThere(r, r1, {}) /\ Holding(s1)
            /\ \A l : l # 0 /\ HasDirty(cache[l1], l) => HasDirty(s1, l) \/ WrittenBack(r1, l)
            /\ ~d => \A l : HasDirty(s1, l) => HasDirty(cache[l1], l)
        BY <1>2, <3>1, <3>2, FillKeeps
      <3> QED BY <2>1, <3>2, <3>3
    <2>2. CASE ~(fills > 0)
      <3>1. r1 = r /\ s1 = cache[l1]
        BY <2>2
      <3> HIDE DEF r1, s1, fills, l1, q
      <3> QED BY <1>3, <3>1 DEF StillThere, CachesRight
    <2> QED BY <2>1, <2>2
  <1>8. Sound(r1, mshr, uop, Stores) /\ Grown(r, r1)
    <2>1. CASE fills > 0
      <3>1. r1 = Filled(r, q, l1)
        BY <2>1
      <3> HIDE DEF r1
      <3> QED BY <1>1, <3>1, FilledSound
    <2>2. CASE ~(fills > 0)
      BY <2>2 DEF Grown, Wrote, Sound, Table
    <2> QED BY <2>1, <2>2
  <1>9. gone \subseteq S \cup {i} /\ \A j \in S : r1[j] = r[j] /\ r[j].place = "merged"
    <2>1. \A j \in S : r[j].place = "merged" /\ j \in Ids
      BY <1>5 DEF MergedInto
    <2> HIDE DEF r1
    <2> QED BY <1>8, <2>1 DEF Grown, Wrote
  <1>10. r1[i] = q
    <2> HIDE DEF r1
    <2> QED BY <1>8 DEF Grown, Wrote
  <1> HIDE DEF fills, r1, s1, gone
  <1>11. IsTable(x) /\ OnWays(x) /\ StillThere(r1, x, {})
    <2>1. CASE i \in gone
      BY <1>7, <1>8, <2>1 DEF StillThere, Sound, Table
    <2>2. CASE i \notin gone
      <3>1. x = InState(r1, i, stay)
        BY <2>2 DEF InState
      <3>2. q.type # "WB"
        BY <1>6, <2>2
      <3> HIDE DEF x
      <3>3. r1[i].place \in {"in", "fill"} /\ r1[i].type # "WB" /\ (stay = r1[i].state \/ stay = "FILL_WAIT_DONE")
        BY <1>10, <3>2
      <3> HIDE DEF q
      <3> QED BY ONLY <1>7, <1>8, <3>1, <3>3, i \in Ids, WaitsOnWay
    <2> QED BY <2>1, <2>2
  <1> HIDE DEF x
  <1>12. OnWays(req') /\ StillThere(x, req', gone)
    BY <1>5, <1>11, FreedOnWay
  \* No write-back but that of i can be among what is gone.
  <1>13. \A j \in Ids : r1[j].type = "WB" => j \notin S
    <2>1. \A j \in Ids : r[j].type = "WB" => r[j].place # "merged"
      BY DEF Sound, Table, RequestSound
    <2> QED BY <1>9, <2>1
  <1>14. StillThere(r1, req', {i})
    BY <1>9, <1>11, <1>12, <1>13 DEF StillThere
  <1>15. StillThere(r, req', {i})
    BY <1>7, <1>14 DEF StillThere
  <1>16. CachesRight(cache')
    <2>1. \A d \in Caches : Holding(cache'[d])
      BY <1>4, <1>7 DEF CachesRight
    <2>2. ASSUME config.ptx, NEW k \in Cores, NEW l, HasDirty(cache'[L1(k)], l) PROVE FALSE
      <3>1. L1(k) \in Caches /\ L1(k) # c
        BY CachesAre
      <3>2. HasDirty(cache[L1(k)], l)
        <4>1. CASE L1(k) = l1
          BY <1>4, <1>7, <2>2, <4>1
        <4>2. CASE L1(k) # l1
          BY <1>4, <2>2, <3>1, <4>2
        <4> QED BY <4>1, <4>2
      <3> QED BY <2>2, <3>2 DEF CachesRight
    <2> QED BY <1>4, <2>1, <2>2 DEF CachesRight
  <1>17. ASSUME NEW l, l # 0, NEW d \in Caches \ {c}, HasDirty(cache[d], l)
         PROVE  DirtyIn(cache', l) \/ WrittenBack(req', l)
    <2>1. CASE HasDirty(cache'[d], l)
      BY <2>1 DEF DirtyIn
    <2>2. CASE ~HasDirty(cache'[d], l)
      <3>1. d = l1 /\ fills > 0 /\ WrittenBack(r1, l)
        BY <1>4, <1>7, <1>17, <2>2
      <3>2. q.type # "WB"
        BY <1>6, <3>1
      <3> QED BY <1>10, <1>14, <3>1, <3>2 DEF WrittenBack, StillThere
    <2> QED BY <2>1, <2>2
  <1> QED BY <1>4, <1>12, <1>15, <1>16, <1>17

\* What a step keeps, and what it may not lose.
Answered(l) == \E i \in Ids : req[i].type = "WB" /\ req[i].line = l /\ req[i].place = "mc"
LosesNothing ==
    \A l : l # 0 /\ (DirtyIn(cache, l) \/ WrittenBack(req, l)) =>
            DirtyIn(cache', l) \/ WrittenBack(req', l) \/ Answered(l)
DirtyStep == OnWays(req') /\ CachesRight(cache') /\ LosesNothing

LEMMA OnlyMoved ==
    ASSUME CachesRight(cache), cache' = cache, OnWays(req'), StillThere(req, req', {})
    PROVE  DirtyStep
  BY DEF DirtyStep, LosesNothing, WrittenBack, StillThere

LEMMA OneCache ==
    ASSUME CachesRight(cache), NEW c \in Caches, NEW lines, Holding(lines),
           c \in Lower \/ (config.ptx => \A l : ~HasDirty(lines, l)),
           cache' = [cache EXCEPT ![c] = lines]
    PROVE  /\ CachesRight(cache') /\ cache'[c] = lines
           /\ \A d \in Caches \ {c} : cache'[d] = cache[d]
  <1>1. /\ cache' = [d \in Caches |-> cache'[d]] /\ cache'[c] = lines
        /\ \A d \in Caches \ {c} : cache'[d] = cache[d]
    BY DEF CachesRight
  <1>2. \A k \in Cores : L1(k) \in Caches /\ L1(k) \notin Lower
    BY CachesAre
  <1> QED BY <1>1, <1>2 DEF CachesRight

\* The line of a request is touched in a cache below the L1.
LEMMA LinesHold ==
    ASSUME NEW s, Holding(s), NEW line \in Nat, NEW d \in BOOLEAN,
           NEW s2, s2 = mark_dirty(access_cache(s, line), line, d)
    PROVE  /\ Holding(s2) /\ \A l : HasDirty(s, l) => HasDirty(s2, l)
           /\ ~d => \A l : HasDirty(s2, l) => HasDirty(s, l)
  <1> DEFINE t == access_cache(s, line)
  <1>1. Holding(t) /\ \A x : Occurs(x, t) <=> Occurs(x, s)
    BY TouchedHolds
  <1>2. s2 = mark_dirty(t, line, d)
    OBVIOUS
  <1> HIDE DEF t
  <1>3. /\ Holding(s2) /\ (\A l : HasDirty(t, l) => HasDirty(s2, l))
        /\ ~d => \A l : HasDirty(s2, l) => HasDirty(t, l)
    BY <1>1, <1>2, MarkedHolds
  <1>4. \A l : HasDirty(t, l) <=> HasDirty(s, l)
    BY <1>1 DEF HasDirty
  <1> QED BY <1>3, <1>4

LEMMA UpwardsOnWay ==
    ASSUME NEW r, NEW m, NEW u, NEW P, Sound(r, m, u, P), OnWays(r), NEW i \in Ids, r[i].place = "fill",
           r[i].at[1] = "L3", r[i].type # "WB", NEW r2, r2 = Upwards(i, r)
    PROVE  OnWays(r2) /\ StillThere(r, r2, {})
  <1>1. PICK place \in {"fill", "out"}, state \in {"FILL_WAIT_FILL", "FILL_NEW", "OUT_FILL"} :
            \E at : /\ r2 = Move(r, i, place, at, state)
                    /\ at = r[i].at \/ (state = "FILL_NEW" /\ at = <<Up(r[i].at), r[i].core>>)
                    /\ place = "out" <=> state = "OUT_FILL"
    BY UpwardsIs
  <1>2. PICK at : /\ r2 = Move(r, i, place, at, state)
                  /\ at = r[i].at \/ (state = "FILL_NEW" /\ at = <<Up(r[i].at), r[i].core>>)
                  /\ place = "out" <=> state = "OUT_FILL"
    BY <1>1
  <1>3. r[i].at \in Lower /\ r[i].core \in Cores
    BY DEF OnWays, OnWay, Way
  <1>4. <<Up(r[i].at), r[i].core>> \in Lower
    BY <1>3 DEF Up, Lower
  <1>5. Way(place, at, state, r[i].core, r[i].type)
    BY <1>2, <1>3, <1>4 DEF Way
  <1>6. place # "free" /\ r[i].place # "free"
    OBVIOUS
  <1> QED BY ONLY <1>2, <1>5, <1>6, Sound(r, m, u, P), OnWays(r), i \in Ids, MovedOnWay

LEMMA InDirty ==
    ASSUME Sound(req, mshr, uop, Stores), DirtyInv, NEW i \in Ids, InHit(i) \/ InMiss(i)
    PROVE  DirtyStep
  <1> DEFINE q == req[i]
             c == q.at
  <1>1. /\ config.policy \in Keeping /\ CachesRight(cache) /\ OnWays(req) /\ q.place = "in"
    BY DEF DirtyInv, KeepsLines, InHit, InMiss
  <1>2. /\ OnWay(q) /\ q.type # "WB" /\ c \in Lower /\ q.core \in Cores /\ q.line \in Nat
    BY <1>1 DEF OnWays, OnWay, Way, Sound, Table, RequestSound
  <1>3. c \in Caches /\ c[1] \in {"L2", "L3"} /\ Holding(cache[c])
    BY <1>1, <1>2, CachesAre DEF CachesRight
  <1>4. At(c).done <=> c[1] = "L2"
    BY <1>1, <1>3, KeepingTopology
  <1>5. ASSUME NEW place \in {"in", "fill", "out"}, NEW at, NEW state, Way(place, at, state, q.core, q.type),
               req' = Move(req, i, place, at, state)
        PROVE  OnWays(req') /\ StillThere(req, req', {})
    BY <1>1, <1>5, MovedOnWay
  <1>6. CASE InMiss(i)
    <2> DEFINE next == Component(Down(c), q)
    <2>1. /\ cache' = cache
          /\ \/ (At(c).down \/ ~At(c).router) /\ req' = Move(req, i, "in", next, q.state)
             \/ req' = Move(req, i, "out", c, "OUT_NEW")
      BY <1>6 DEF InMiss, insert
    <2>2. At(c).down \/ ~At(c).router => next \in Lower
      <3>1. c[1] = "L2" => next \in Lower
        BY <1>1, <1>2, ServedBelow DEF Down
      <3>2. c[1] = "L3" => ~At(c).down /\ At(c).router
        BY <1>1, <1>3, KeepingTopology
      <3> QED BY <1>3, <3>1, <3>2
    <2>3. Way("out", c, "OUT_NEW", q.core, q.type)
      BY <1>2 DEF Way
    <2>4. next \in Lower => Way("in", next, q.state, q.core, q.type)
      BY DEF Way
    <2> HIDE DEF next, c
    <2>5. OnWays(req') /\ StillThere(req, req', {})
      BY <1>5, <2>1, <2>2, <2>3, <2>4
    <2> QED BY <1>1, <2>1, <2>5, OnlyMoved
  <1>7. CASE InHit(i)
    <2> DEFINE lines == mark_dirty(access_cache(cache[c], q.line), q.line, q.type = "DSTORE")
               up == <<Up(c), q.core>>
    <2>1. \/ At(c).done /\ DoneFunc(i, c, req, lines, q.state)
          \/ /\ ~At(c).done /\ cache' = [cache EXCEPT ![c] = lines]
             /\ \/ req' = req
                \/ req' = Move(req, i, "fill", up, "FILL_NEW")
                \/ req' = Move(req, i, "out", c, "OUT_FILL")
      BY <1>7 DEF InHit, fill
    <2>2. Holding(lines) /\ \A l : HasDirty(cache[c], l) => HasDirty(lines, l)
      <3> DEFINE s == cache[c]
                 line == q.line
                 d == q.type = "DSTORE"
      <3>1. Holding(s) /\ line \in Nat /\ d \in BOOLEAN /\ lines = mark_dirty(access_cache(s, line), line, d)
        BY <1>2, <1>3
      <3> HIDE DEF s, line, d, lines
      <3>2. Holding(lines) /\ \A l : HasDirty(s, l) => HasDirty(lines, l)
        BY ONLY <3>1, LinesHold
      <3> QED BY <3>2 DEF s
    <2> HIDE DEF lines
    <2>3. CASE DoneFunc(i, c, req, lines, q.state)
      <3> DEFINE stay == q.state
      <3>1. DoneFunc(i, c, req, lines, stay) /\ (stay = req[i].state \/ stay = "FILL_WAIT_DONE")
            /\ q.place \in {"in", "fill"}
        BY <1>1, <2>3
      <3> HIDE DEF stay, c
      <3>2. /\ OnWays(req') /\ CachesRight(cache') /\ StillThere(req, req', {i}) /\ cache'[c] = lines
            /\ \A l : \A d \in Caches \ {c} :
                 l # 0 /\ HasDirty(cache[d], l) => DirtyIn(cache', l) \/ WrittenBack(req', l)
        BY <1>1, <1>2, <2>2, <3>1, DoneKeeps
      <3>3. ASSUME NEW l, l # 0, DirtyIn(cache, l) PROVE DirtyIn(cache', l) \/ WrittenBack(req', l)
        <4>1. PICK d \in Caches : HasDirty(cache[d], l)
          BY <3>3 DEF DirtyIn
        <4>2. d = c => HasDirty(cache'[c], l)
          BY <2>2, <3>2, <4>1
        <4> QED BY <1>3, <3>2, <3>3, <4>1, <4>2 DEF DirtyIn
      <3>4. ASSUME NEW l, WrittenBack(req, l) PROVE WrittenBack(req', l)
        BY <1>2, <3>2, <3>4 DEF WrittenBack, StillThere
      <3> QED BY <3>2, <3>3, <3>4 DEF DirtyStep, LosesNothing
    <2>4. CASE /\ ~At(c).done /\ cache' = [cache EXCEPT ![c] = lines]
               /\ \/ req' = req
                  \/ req' = Move(req, i, "fill", up, "FILL_NEW")
                  \/ req' = Move(req, i, "out", c, "OUT_FILL")
      <3>1. c[1] = "L3" /\ up \in Lower
        BY <1>2, <1>3, <1>4, <2>4 DEF Up, Lower
      <3>2. Way("fill", up, "FILL_NEW", q.core, q.type) /\ Way("out", c, "OUT_FILL", q.core, q.type)
        BY <1>2, <3>1 DEF Way
      <3> HIDE DEF c, up
      <3>3. OnWays(req') /\ StillThere(req, req', {})
        <4>1. CASE req' = req
          BY <1>1, <4>1 DEF StillThere
        <4> QED BY <1>5, <2>4, <3>2, <4>1
      <3>4. CachesRight(cache') /\ cache'[c] = lines /\ \A d \in Caches \ {c} : cache'[d] = cache[d]
        BY <1>1, <1>2, <1>3, <2>2, <2>4, OneCache
      <3>5. ASSUME NEW l, DirtyIn(cache, l) PROVE DirtyIn(cache', l)
        <4>1. PICK d \in Caches : HasDirty(cache[d], l)
          BY <3>5 DEF DirtyIn
        <4>2. HasDirty(cache'[d], l)
          BY <2>2, <3>4, <4>1
        <4> QED BY <4>2 DEF DirtyIn
      <3>6. \A l : WrittenBack(req, l) => WrittenBack(req', l)
        BY <3>3 DEF WrittenBack, StillThere
      <3> QED BY <3>3, <3>4, <3>5, <3>6 DEF DirtyStep, LosesNothing
    <2> QED BY <2>1, <2>3, <2>4
  <1> QED BY <1>6, <1>7

LEMMA FillDirty ==
    ASSUME Sound(req, mshr, uop, Stores), DirtyInv, NEW i \in Ids,
           FillNew(i) \/ FillWaitDone(i) \/ FillWaitFill(i)
    PROVE  DirtyStep
  <1> DEFINE q == req[i]
             c == q.at
  <1>1. config.policy \in Keeping /\ CachesRight(cache) /\ OnWays(req) /\ q.place = "fill" /\ IsTable(req)
    BY DEF DirtyInv, KeepsLines, FillNew, FillWaitDone, FillWaitFill, Sound, Table
  <1>2. /\ OnWay(q) /\ c \in Lower /\ q.core \in Cores /\ q.line \in Nat /\ q.dirty \in BOOLEAN
        /\ q.dirty = (q.type = "WB")
    BY <1>1 DEF OnWays, OnWay, Way
  <1>3. c \in Caches /\ c[1] \in {"L2", "L3"} /\ Holding(cache[c])
    BY <1>1, <1>2, CachesAre DEF CachesRight
  <1>4. At(c).done <=> c[1] = "L2"
    BY <1>1, <1>3, KeepingTopology
  \* A fill that is over or waits for its consumers.
  <1>5. ASSUME NEW r, Sound(r, mshr, uop, Stores), OnWays(r), r[i] = q, StillThere(req, r, {}),
               NEW lines, Holding(lines), q.type = "WB" => HasDirty(lines, q.line),
               \A l : l # 0 /\ HasDirty(cache[c], l) => HasDirty(lines, l) \/ WrittenBack(r, l),
               DoneFunc(i, c, r, lines, "FILL_WAIT_DONE")
        PROVE  DirtyStep
    <2> DEFINE stay == "FILL_WAIT_DONE"
    <2>1. r[i].place \in {"in", "fill"} /\ stay = "FILL_WAIT_DONE" /\ DoneFunc(i, c, r, lines, stay)
      BY <1>1, <1>5
    <2> HIDE DEF stay, c
    <2>2. /\ OnWays(req') /\ CachesRight(cache') /\ StillThere(r, req', {i}) /\ cache'[c] = lines
          /\ \A l : \A d \in Caches \ {c} :
               l # 0 /\ HasDirty(cache[d], l) => DirtyIn(cache', l) \/ WrittenBack(req', l)
      BY <1>1, <1>2, <1>5, <2>1, DoneKeeps
    <2>3. ASSUME NEW l, WrittenBack(r, l) PROVE DirtyIn(cache', l) \/ WrittenBack(req', l)
      <3>1. PICK j \in Ids : r[j].type = "WB" /\ r[j].line = l
        BY <2>3 DEF WrittenBack
      <3>2. CASE j = i
        <4>1. HasDirty(cache'[c], l)
          BY <1>5, <2>2, <3>1, <3>2
        <4> QED BY <1>3, <4>1 DEF DirtyIn
      <3>3. CASE j # i
        BY <2>2, <3>1, <3>3 DEF WrittenBack, StillThere
      <3> QED BY <3>2, <3>3
    <2>4. ASSUME NEW l, l # 0, DirtyIn(cache, l) PROVE DirtyIn(cache', l) \/ WrittenBack(req', l)
      <3>1. PICK d \in Caches : HasDirty(cache[d], l)
        BY <2>4 DEF DirtyIn
      <3>2. d = c => HasDirty(cache'[c], l) \/ WrittenBack(r, l)
        BY <1>5, <2>2, <2>4, <3>1
      <3> QED BY <1>3, <2>2, <2>3, <2>4, <3>1, <3>2 DEF DirtyIn
    <2>5. \A l : WrittenBack(req, l) => WrittenBack(r, l)
      BY <1>5 DEF WrittenBack, StillThere
    <2> QED BY <2>2, <2>3, <2>4, <2>5 DEF DirtyStep, LosesNothing
  <1>6. CASE FillWaitDone(i)
    <2>1. q.state = "FILL_WAIT_DONE" /\ DoneFunc(i, c, req, cache[c], "FILL_WAIT_DONE")
      BY <1>6 DEF FillWaitDone
    <2>2. q.type # "WB"
      BY <1>1, <1>2, <2>1 DEF OnWay, Way
    <2>3. StillThere(req, req, {})
      BY DEF StillThere
    <2> QED BY <1>1, <1>3, <1>5, <2>1, <2>2, <2>3
  <1>7. CASE FillWaitFill(i)
    <2>1. q.state = "FILL_WAIT_FILL" /\ req' = Upwards(i, req) /\ cache' = cache
      BY <1>7 DEF FillWaitFill
    <2>2. q.type # "WB" /\ c[1] = "L3"
      BY <1>1, <1>2, <2>1 DEF OnWay, Way
    <2>3. OnWays(req') /\ StillThere(req, req', {})
      BY <1>1, <2>1, <2>2, UpwardsOnWay
    <2> QED BY <1>1, <2>1, <2>3, OnlyMoved
  <1>8. CASE FillNew(i)
    <2> DEFINE r == Filled(req, q, c)
               lines == FilledCache(q, c)
    <2>1. /\ Spare(req)
          /\ \/ DoneFunc(i, c, r, lines, "FILL_WAIT_DONE")
             \/ /\ ~At(c).done /\ cache' = [cache EXCEPT ![c] = lines]
                /\ req' = IF q.type = "WB" THEN Freed(r, {i}) ELSE Upwards(i, r)
      BY <1>8 DEF FillNew
    <2>2. Sound(r, mshr, uop, Stores) /\ Grown(req, r)
      <3>1. r = Filled(req, q, c)
        OBVIOUS
      <3> HIDE DEF r
      <3> QED BY <2>1, <3>1, FilledSound
    <2>3. r[i] = q
      <3> HIDE DEF r
      <3> QED BY <1>1, <2>2 DEF Grown, Wrote
    <2>4. /\ OnWays(r) /\ StillThere(req, r, {}) /\ Holding(lines)
          /\ \A l : l # 0 /\ HasDirty(cache[c], l) => HasDirty(lines, l) \/ WrittenBack(r, l)
          /\ q.dirty => HasDirty(lines, q.line)
      <3> DEFINE t == req
      <3>1. /\ config.policy \in Keeping /\ CachesRight(cache) /\ OnWays(t) /\ IsTable(t) /\ Spare(t)
            /\ q.core \in Cores /\ q.line \in Nat /\ q.dirty \in BOOLEAN /\ c \in Lower \cup {L1(q.core)}
            /\ r = Filled(t, q, c) /\ lines = FilledCache(q, c)
        BY <1>1, <1>2, <2>1
      <3> HIDE DEF r, lines, c, q, t
      <3>2. OnWays(r) /\ StillThere(t, r, {}) /\ Holding(lines)
        BY ONLY <3>1, FillKeeps
      <3>3. \A l : l # 0 /\ HasDirty(cache[c], l) => HasDirty(lines, l) \/ WrittenBack(r, l)
        BY ONLY <3>1, FillKeeps
      <3>4. q.dirty => HasDirty(lines, q.line)
        BY ONLY <3>1, FillKeeps
      <3> QED BY <3>2, <3>3, <3>4 DEF t
    <2> HIDE DEF r, lines
    <2>5. q.type = "WB" => HasDirty(lines, q.line)
      BY <1>2, <2>4
    <2>6. CASE DoneFunc(i, c, r, lines, "FILL_WAIT_DONE")
      BY <1>5, <2>2, <2>3, <2>4, <2>5, <2>6
    <2>7. CASE /\ ~At(c).done /\ cache' = [cache EXCEPT ![c] = lines]
               /\ req' = IF q.type = "WB" THEN Freed(r, {i}) ELSE Upwards(i, r)
      <3>1. c[1] = "L3" /\ r[i].at[1] = "L3" /\ r[i].place = "fill" /\ IsTable(r)
        BY <1>1, <1>3, <1>4, <2>2, <2>3, <2>7 DEF Sound, Table
      <3>2. OnWays(req') /\ StillThere(r, req', {i}) /\ (q.type # "WB" => StillThere(r, req', {}))
        <4>1. CASE q.type = "WB"
          BY <2>4, <2>7, <3>1, <4>1, FreedOnWay
        <4>2. CASE q.type # "WB"
          <5>1. req' = Upwards(i, r) /\ r[i].type # "WB"
            BY <2>3, <2>7, <4>2
          <5>2. OnWays(req') /\ StillThere(r, req', {})
            BY <2>2, <2>4, <3>1, <5>1, UpwardsOnWay
          <5> QED BY <5>2 DEF StillThere
        <4> QED BY <4>1, <4>2
      <3> HIDE DEF c, q
      <3>3. CachesRight(cache') /\ cache'[c] = lines /\ \A d \in Caches \ {c} : cache'[d] = cache[d]
        BY <1>1, <1>2, <1>3, <2>4, <2>7, OneCache
      <3>4. ASSUME NEW l, WrittenBack(r, l) PROVE DirtyIn(cache', l) \/ WrittenBack(req', l)
        <4>1. PICK j \in Ids : r[j].type = "WB" /\ r[j].line = l
          BY <3>4 DEF WrittenBack
        <4>2. CASE j = i
          <5>1. HasDirty(cache'[c], l)
            BY <2>3, <2>5, <3>3, <4>1, <4>2
          <5> QED BY <1>3, <5>1 DEF DirtyIn
        <4>3. CASE j # i
          BY <3>2, <4>1, <4>3 DEF WrittenBack, StillThere
        <4> QED BY <4>2, <4>3
      <3>5. ASSUME NEW l, l # 0, DirtyIn(cache, l) PROVE DirtyIn(cache', l) \/ WrittenBack(req', l)
        <4>1. PICK d \in Caches : HasDirty(cache[d], l)
          BY <3>5 DEF DirtyIn
        <4>2. HasDirty(cache'[d], l) \/ WrittenBack(r, l)
          BY <2>4, <3>3, <3>5, <4>1
        <4> QED BY <3>4, <4>2 DEF DirtyIn
      <3>6. \A l : WrittenBack(req, l) => WrittenBack(r, l)
        BY <2>4 DEF WrittenBack, StillThere
      <3> QED BY <3>2, <3>3, <3>4, <3>5, <3>6 DEF DirtyStep, LosesNothing
    <2> QED BY <2>1, <2>6, <2>7
  <1> QED BY <1>6, <1>7, <1>8

LEMMA NetworkDirty ==
    ASSUME Sound(req, mshr, uop, Stores), DirtyInv, NEW i \in Ids,
           ProcessOut(i) \/ ProcessWb(i) \/ receive_packet(i) \/ receive(i) \/ Answer(i)
    PROVE  DirtyStep
  <1> DEFINE q == req[i]
             c == q.at
  <1>1. config.policy \in Keeping /\ CachesRight(cache) /\ OnWays(req) /\ IsTable(req) /\ cache' = cache
    BY DEF DirtyInv, KeepsLines, Sound, Table, ProcessOut, ProcessWb, receive_packet, receive, Answer
  <1>2. q.place \in {"out", "wb", "noc", "mc"}
    BY DEF ProcessOut, ProcessWb, receive_packet, receive, Answer, Arrived
  <1>3. OnWay(q) /\ q.core \in Cores /\ q.line \in Nat
    BY <1>1, <1>2 DEF OnWays, OnWay
  <1>4. ASSUME NEW place \in {"in", "fill", "out", "noc", "mc"}, NEW at, NEW state,
               Way(place, at, state, q.core, q.type), req' = Move(req, i, place, at, state)
        PROVE  DirtyStep
    <2>1. OnWays(req') /\ StillThere(req, req', {})
      BY <1>1, <1>2, <1>4, MovedOnWay
    <2> QED BY <1>1, <2>1, OnlyMoved
  <1>5. ASSUME req' = Freed(req, {i}), q.type = "WB" => q.place = "mc" PROVE DirtyStep
    <2>1. OnWays(req') /\ StillThere(req, req', {i})
      BY <1>1, <1>5, FreedOnWay
    <2>2. ASSUME NEW l, WrittenBack(req, l) PROVE WrittenBack(req', l) \/ Answered(l)
      <3>1. PICK j \in Ids : req[j].type = "WB" /\ req[j].line = l
        BY <2>2 DEF WrittenBack
      <3>2. CASE j = i
        BY <1>5, <3>1, <3>2 DEF Answered
      <3>3. CASE j # i
        BY <2>1, <3>1, <3>3 DEF WrittenBack, StillThere
      <3> QED BY <3>2, <3>3
    <2> QED BY <1>1, <2>1, <2>2 DEF DirtyStep, LosesNothing
  <1>6. CASE ProcessOut(i)
    <2> DEFINE x == Component(IF q.state = "OUT_FILL" THEN Up(c) ELSE Down(c), q)
    <2>1. q.place = "out" /\ \E state : req' = Move(req, i, "noc", Receiver(x), state)
      BY <1>6 DEF ProcessOut, Sent
    <2>2. c \in Lower /\ c[1] \in {"L2", "L3"} /\ (q.state = "OUT_FILL" => c[1] = "L3")
      <3>1. c \in Lower /\ (q.state = "OUT_FILL" => c[1] = "L3")
        BY <1>3, <2>1 DEF OnWay, Way
      <3> QED BY <3>1, CachesAre
    <2>3. x \in Lower \cup {MC}
      BY <1>1, <1>3, <2>2, ServedBelow, CachesAre DEF Up, Down
    <2>4. Receiver(x) \in Lower \cup {MC}
      <3> HIDE DEF x
      <3> QED BY <1>1, <2>3, ReceiverLower
    <2> DEFINE at == Receiver(x)
    <2> HIDE DEF at, x
    <2>5. \A state : Way("noc", at, state, q.core, q.type)
      BY <2>4 DEF Way, at
    <2> QED BY <1>4, <2>1, <2>5 DEF at
  <1>7. CASE ProcessWb(i)
    <2> DEFINE next == Component(Down(c), q)
               direct == c[1] # "L3" /\ At(c).down /\ next[2] = c[2]
    <2>1. /\ q.place = "wb"
          /\ \/ direct /\ req' = Move(req, i, "fill", next, "FILL_NEW")
             \/ ~direct /\ req' = Move(req, i, "out", c, "OUT_WB")
      BY <1>7 DEF ProcessWb, fill
    <2>2. c \in Lower \cup {L1(q.core)}
      BY <1>3, <2>1 DEF OnWay, Way
    <2>3. c[1] \in {"L1", "L2", "L3"} /\ (c \notin Lower => c = L1(q.core) /\ c[1] = "L1" /\ c[2] = q.core)
      BY <1>3, <2>2, CachesAre
    <2>4. c[1] = "L1" => next = L2(q.core)
      BY <1>1, <1>3, ServedBelow DEF Down
    <2>5. direct => next \in Lower
      <3>1. c[1] = "L2" => next \in Lower
        BY <1>1, <1>3, ServedBelow DEF Down
      <3>2. L2(q.core) \in Lower
        BY <1>3, CachesAre
      <3> HIDE DEF next
      <3> QED BY <2>3, <2>4, <3>1, <3>2
    <2>6. ~direct => c \in Lower
      <3>1. c[1] = "L1" => At(c).down
        BY <1>1, KeepingTopology
      <3>2. L2(q.core)[2] = q.core
        BY DEF L2
      <3> HIDE DEF next
      <3> QED BY <2>3, <2>4, <3>1, <3>2
    <2>7. (direct => Way("fill", next, "FILL_NEW", q.core, q.type))
          /\ (~direct => Way("out", c, "OUT_WB", q.core, q.type))
      <3> HIDE DEF next, direct, c
      <3> QED BY <2>5, <2>6 DEF Way
    <2> HIDE DEF next, direct, c
    <2> QED BY <1>4, <2>1, <2>7
  <1>8. ASSUME q.place = "noc", Accepted(i) PROVE DirtyStep
    <2>1. \/ c # MC /\ req' = Move(req, i, "in", c, q.state)
          \/ c # MC /\ req' = Move(req, i, "fill", c, "FILL_NEW")
          \/ req' = Move(req, i, "mc", c, q.state)
      BY <1>8 DEF Accepted, insert, fill
    <2>2. c \in Lower \cup {MC}
      BY <1>3, <1>8 DEF OnWay, Way
    <2> HIDE DEF c
    <2>3. /\ c # MC => Way("in", c, q.state, q.core, q.type) /\ Way("fill", c, "FILL_NEW", q.core, q.type)
          /\ Way("mc", c, q.state, q.core, q.type)
      BY <2>2 DEF Way
    <2> QED BY <1>4, <2>1, <2>3
  <1>9. CASE receive_packet(i) \/ receive(i)
    <2>1. q.place = "noc"
      BY <1>9 DEF receive_packet, receive, Arrived
    <2>2. Accepted(i) \/ (q.type = "DPRF" /\ req' = Freed(req, {i}))
      BY <1>9 DEF receive_packet, receive
    <2> QED BY <1>5, <1>8, <2>1, <2>2
  <1>10. CASE Answer(i)
    <2> DEFINE x == Component("L3", q)
               at == Receiver(x)
    <2>1. q.place = "mc" /\ \/ req' = Freed(req, {i})
                            \/ req' = Move(req, i, "noc", at, "NOC_FILL")
      BY <1>10 DEF Answer, Sent
    <2>2. x \in Lower \cup {MC}
      BY <1>1, <1>3, ServedBelow
    <2> HIDE DEF x
    <2>3. at \in Lower \cup {MC}
      BY <1>1, <2>2, ReceiverLower
    <2> HIDE DEF at
    <2>4. Way("noc", at, "NOC_FILL", q.core, q.type)
      BY <2>3 DEF Way
    <2> QED BY <1>4, <1>5, <2>1, <2>4
  <1> QED BY <1>6, <1>7, <1>9, <1>10

\* New requests change no write-back: none is flushed, promoted or overwritten.
LEMMA NewOnWay ==
    ASSUME Sound(req, mshr, uop, Stores), OnWays(req), NEW core \in Cores,
           NEW type \in {"DFETCH", "DSTORE", "DPRF", "IFETCH"}, NEW line \in Nat, NEW func, NEW v,
           NEW result \in BOOLEAN, new_mem_req(core, type, line, func, v, result)
    PROVE  OnWays(req') /\ StillThere(req, req', {})
  <1> DEFINE matching == search_req(core, line)
             pooled == config.ptx /\ type = "DSTORE"
             Flushes(G) == G = {} \/ \E k : G = Flushed(req, k)
             new == NewReq(type, core, line, func, v, pooled)
             Promotes == /\ matching # 0 /\ req[matching].type = "DPRF"
                         /\ req' = [req EXCEPT ![matching] = adjust_req(req[matching], type, func, v)]
             Enters(G) == \E q \in {[new EXCEPT !.place = "merged", !.into = matching],
                                    [new EXCEPT !.place = "lost"],
                                    [new EXCEPT !.place = "in", !.at = L2(core)]} :
                            Spare(Freed(req, G)) /\ req' = [Freed(req, G) EXCEPT ![NewId(Freed(req, G))] = q]
  <1>1. \/ req' = req
        \/ Promotes
        \/ \E G : Flushes(G) /\ (req' = Freed(req, G) \/ Enters(G))
    <2> DEFINE full(r) == Full(r, "in", L2(core))
               used(S) == Cardinality(InMshr(mshr, core) \ S)
               flush1 == IF full(req) THEN Flushed(req, core) ELSE {}
               nomshr == ~pooled /\ used(flush1) >= MshrSize
               flush2 == IF nomshr THEN Flushed(req, core) ELSE flush1
               r == Freed(req, flush2)
               entered == CASE matching # 0 /\ ~pooled -> [new EXCEPT !.place = "merged", !.into = matching]
                            [] ~(matching # 0 /\ ~pooled) /\ full(r) -> [new EXCEPT !.place = "lost"]
                            [] OTHER -> [new EXCEPT !.place = "in", !.at = L2(core)]
    <2>1. Flushes(flush1) /\ Flushes(flush2)
      OBVIOUS
    <2>2. \/ req' = req
          \/ Promotes
          \/ req' = Freed(req, flush1) \/ req' = Freed(req, flush2)
          \/ Spare(r) /\ req' = [r EXCEPT ![NewId(r)] = entered]
      BY DEF new_mem_req, NewReq
    <2>3. CASE Spare(r) /\ req' = [r EXCEPT ![NewId(r)] = entered]
      <3>1. entered \in {[new EXCEPT !.place = "merged", !.into = matching],
                         [new EXCEPT !.place = "lost"],
                         [new EXCEPT !.place = "in", !.at = L2(core)]}
        <4> HIDE DEF new, matching, pooled, flush2
        <4> QED OBVIOUS
      <3> HIDE DEF entered, flush2, new, matching, pooled
      <3>2. Enters(flush2)
        BY <2>3, <3>1
      <3> QED BY <2>1, <3>2
    <2> HIDE DEF flush1, flush2, entered, new, matching, pooled
    <2> QED BY <2>1, <2>2, <2>3
  <1>2. IsTable(req) /\ \A i \in Ids : OnWay(req[i]) /\ IsReq(req[i])
    BY DEF OnWays, Sound, Table, RequestSound
  <1>3. CASE req' = req
    BY <1>3 DEF StillThere
  <1>4. CASE Promotes
    <2> DEFINE i == search_req(core, line)
               o == req[i]
               p == adjust_req(o, type, func, v)
    <2>1. i \in Ids /\ o.type = "DPRF" /\ req' = [req EXCEPT ![i] = p] /\ o.place # "free"
      BY <1>4, Found DEF TakesEntry
    <2>2. OnWay(o) /\ IsReq(o)
      BY <1>2, <2>1
    <2> HIDE DEF i, o
    <2>3. /\ p.type = type /\ p.place = o.place /\ p.core = o.core /\ p.line = o.line
          /\ p.at = o.at /\ p.state = o.state /\ p.dirty = FALSE
      <3>1. PICK U : o \in ReqOf(U)
        BY <2>2 DEF IsReq
      <3> QED BY <3>1 DEF adjust_req, ReqOf
    <2> HIDE DEF p
    <2>4. req'[i] = p /\ \A j \in Ids \ {i} : req'[j] = req[j]
      BY <1>2, <2>1 DEF IsTable
    <2>5. OnWay(p)
      BY <2>1, <2>2, <2>3 DEF OnWay, Way
    <2>6. req[i].type # "WB"
      BY <2>1 DEF o
    <2> QED BY <1>2, <2>4, <2>5, <2>6 DEF OnWays, StillThere
  <1>5. ASSUME NEW G, Flushes(G), req' = Freed(req, G) \/ Enters(G)
        PROVE  OnWays(req') /\ StillThere(req, req', {})
    <2> DEFINE r == Freed(req, G)
    <2>1. \A i \in Ids : i \in G => req[i].type # "WB"
      BY <1>5 DEF Flushed
    <2>2. OnWays(r) /\ StillThere(req, r, {}) /\ IsTable(r)
      <3>1. OnWays(r) /\ StillThere(req, r, G) /\ IsTable(r)
        BY <1>2, FreedOnWay, FreedIs
      <3> HIDE DEF r
      <3> QED BY <2>1, <3>1 DEF StillThere
    <2> HIDE DEF r
    <2>3. CASE Enters(G)
      <3> DEFINE id == NewId(r)
      <3>1. PICK q \in {[new EXCEPT !.place = "merged", !.into = matching],
                        [new EXCEPT !.place = "lost"],
                        [new EXCEPT !.place = "in", !.at = L2(core)]} :
              Spare(r) /\ req' = [r EXCEPT ![id] = q]
        <4> HIDE DEF new, matching
        <4> QED BY <2>3 DEF r
      <3>2. id \in Ids /\ r[id].place = "free"
        BY <3>1, FreeId
      <3>3. /\ q.type = type /\ q.core = core /\ q.line = line /\ q.dirty = FALSE
            /\ q.place \in {"merged", "lost"} \/ (q.place = "in" /\ q.at = L2(core))
        <4> DEFINE x == init_new_req(type, core, line, func, v)
                   U == {"free", MC, "-", 0, FALSE, type, core, line, func, v}
        <4>1. /\ x \in ReqOf(U) /\ x.type = type /\ x.core = core /\ x.line = line /\ x.dirty = FALSE
          BY DEF init_new_req, FreeReq, ReqOf
        <4>2. new = [x EXCEPT !.pool = pooled]
          BY DEF NewReq
        <4> HIDE DEF x, U, pooled, new, matching
        <4>3. /\ new.type = type /\ new.core = core /\ new.line = line /\ new.dirty = FALSE
              /\ \E V : new \in ReqOf(V)
          <5>1. new \in ReqOf(U \cup {pooled})
            BY <4>1, <4>2 DEF ReqOf
          <5>2. new.type = type /\ new.core = core /\ new.line = line /\ new.dirty = FALSE
            BY <4>1, <4>2 DEF ReqOf
          <5> QED BY <5>1, <5>2
        <4>4. PICK V : new \in ReqOf(V)
          BY <4>3
        <4> QED BY <3>1, <4>3, <4>4 DEF ReqOf
      <3>4. OnWay(q)
        <4>1. L2(core) \in Lower
          BY CachesAre
        <4> QED BY <3>3, <4>1 DEF OnWay, Way
      <3> HIDE DEF id
      <3>5. req'[id] = q /\ \A j \in Ids \ {id} : req'[j] = r[j]
        BY <2>2, <3>1, <3>2 DEF IsTable
      <3>6. r[id].type # "WB"
        BY <2>2, <3>2 DEF OnWays, OnWay
      <3>7. OnWays(req') /\ StillThere(r, req', {})
        BY <2>2, <3>4, <3>5, <3>6 DEF OnWays, StillThere
      <3> QED BY <2>2, <3>7 DEF StillThere
    <2> QED BY <1>5, <2>2, <2>3 DEF r
  <1> QED BY <1>1, <1>3, <1>4, <1>5

LEMMA AccessDirty ==
    ASSUME MemInv, DirtyInv, NEW u \in DOMAIN uop, access(u) \/ fetch_or_prefetch(u)
    PROVE  DirtyStep
  <1> DEFINE core == program[u].core
             type == program[u].type
             line == program[u].line
             c == L1(core)
             s == cache[c]
  <1>1. /\ Sound(req, mshr, uop, Stores) /\ config.policy \in Keeping /\ CachesRight(cache) /\ OnWays(req)
        /\ config.ptx \in BOOLEAN /\ core \in Cores /\ line \in Nat
    BY ProgramIs DEF MemInv, DirtyInv, KeepsLines, KnobsOk
  <1>2. c \in Caches /\ ~At(c).disable /\ Holding(s)
    BY <1>1, CachesAre, KeepingTopology DEF CachesRight
  <1>3. ASSUME NEW reqtype \in {"DFETCH", "DSTORE", "DPRF", "IFETCH"}, NEW func, NEW v, NEW result \in BOOLEAN,
               new_mem_req(core, reqtype, line, func, v, result)
        PROVE  OnWays(req') /\ StillThere(req, req', {})
    <2> HIDE DEF core, line
    <2> QED BY <1>1, <1>3, NewOnWay
  <1>4. CASE fetch_or_prefetch(u)
    <2>1. /\ cache' = cache
          /\ \E result \in BOOLEAN : \/ new_mem_req(core, "IFETCH", line, "icache", u, result)
                                     \/ new_mem_req(core, "DPRF", line, "none", 0, result)
      BY <1>4 DEF fetch_or_prefetch
    <2> HIDE DEF core, line
    <2>2. OnWays(req') /\ StillThere(req, req', {})
      BY <1>3, <2>1
    <2> QED BY <1>1, <2>1, <2>2, OnlyMoved
  <1>5. CASE access(u)
    <2> DEFINE hit == Present(s, line)
               touched == access_cache(s, line)
               store == type = "ST"
               marked == mark_dirty(touched, line, store)
               kept == IF hit THEN Without(touched, line) ELSE touched
    <2>1. \/ ~Evicts(type) /\ cache' = [cache EXCEPT ![c] = marked] /\ req' = req
          \/ /\ ~hit \/ Evicts(type)
             /\ cache' = [cache EXCEPT ![c] = kept]
             /\ AccessMiss(u, line, core, type)
      BY <1>2, <1>5 DEF access
    <2>2. Evicts(type) <=> config.ptx /\ store
      BY DEF Evicts
    <2>3. config.ptx => \A l : ~HasDirty(s, l)
      BY <1>1 DEF CachesRight
    \* What the cache held modified it still holds modified.
    <2>4. ASSUME NEW lines, Holding(lines), \A l : HasDirty(s, l) => HasDirty(lines, l),
                 config.ptx => \A l : ~HasDirty(lines, l),
                 cache' = [cache EXCEPT ![c] = lines], OnWays(req'), StillThere(req, req', {})
          PROVE  DirtyStep
      <3>1. CachesRight(cache') /\ cache'[c] = lines /\ \A d \in Caches \ {c} : cache'[d] = cache[d]
        <4> HIDE DEF c
        <4> QED BY <1>1, <1>2, <2>4, OneCache
      <3>2. ASSUME NEW l, DirtyIn(cache, l) PROVE DirtyIn(cache', l)
        <4>1. PICK d \in Caches : HasDirty(cache[d], l)
          BY <3>2 DEF DirtyIn
        <4>2. HasDirty(cache'[d], l)
          BY <2>4, <3>1, <4>1
        <4> QED BY <4>2 DEF DirtyIn
      <3>3. \A l : WrittenBack(req, l) => WrittenBack(req', l)
        BY <2>4 DEF WrittenBack, StillThere
      <3> QED BY <2>4, <3>1, <3>2, <3>3 DEF DirtyStep, LosesNothing
    <2>5. CASE ~Evicts(type) /\ cache' = [cache EXCEPT ![c] = marked] /\ req' = req
      <3>1. store \in BOOLEAN /\ marked = mark_dirty(access_cache(s, line), line, store)
        OBVIOUS
      <3> HIDE DEF marked, s, line, store
      <3>2. /\ Holding(marked) /\ (\A l : HasDirty(s, l) => HasDirty(marked, l))
            /\ ~store => \A l : HasDirty(marked, l) => HasDirty(s, l)
        BY ONLY <1>1, <1>2, <3>1, LinesHold
      <3>3. StillThere(req, req', {})
        BY <2>5 DEF StillThere
      <3> QED BY <1>1, <2>2, <2>3, <2>4, <2>5, <3>2, <3>3
    <2>6. CASE /\ ~hit \/ Evicts(type)
               /\ cache' = [cache EXCEPT ![c] = kept]
               /\ AccessMiss(u, line, core, type)
      <3>1. Holding(touched) /\ \A x : Occurs(x, touched) <=> Occurs(x, s)
        <4> HIDE DEF s, line
        <4> QED BY <1>2, TouchedHolds
      <3>2. /\ Holding(kept) /\ \A x : Occurs(x, kept) => Occurs(x, s)
            /\ ~hit => \A x : Occurs(x, s) => Occurs(x, kept)
        <4> HIDE DEF touched, s, line, hit
        <4>1. CASE hit
          <5>1. kept = Without(touched, line)
            BY <4>1
          <5> HIDE DEF kept
          <5>2. Holding(kept) /\ \A x : Occurs(x, kept) <=> Occurs(x, touched) /\ x.line # line
            BY <3>1, <5>1, WithoutHolds
          <5> QED BY <3>1, <4>1, <5>2
        <4>2. CASE ~hit
          BY <3>1, <4>2
        <4> QED BY <4>1, <4>2
      <3> HIDE DEF kept, s
      <3>3. \A l : HasDirty(s, l) => HasDirty(kept, l)
        <4>1. hit => \A l : ~HasDirty(s, l)
          BY <2>2, <2>3, <2>6
        <4> QED BY <3>2, <4>1 DEF HasDirty
      <3>4. config.ptx => \A l : ~HasDirty(kept, l)
        BY <2>3, <3>2 DEF HasDirty
      <3>5. OnWays(req') /\ StillThere(req, req', {})
        <4> DEFINE reqtype == CASE type = "LD" -> "DFETCH" [] type = "ST" -> "DSTORE" [] OTHER -> "DPRF"
                   func == IF Evicts(type) THEN "write_ack" ELSE "dcache"
        <4>1. PICK result \in BOOLEAN : new_mem_req(core, reqtype, line, func, u, result)
          BY <2>6 DEF AccessMiss
        <4>2. reqtype \in {"DFETCH", "DSTORE", "DPRF", "IFETCH"}
          OBVIOUS
        <4> HIDE DEF reqtype, func, core, line
        <4> QED BY <1>3, <4>1, <4>2
      <3> QED BY <2>4, <2>6, <3>2, <3>3, <3>4, <3>5
    <2> QED BY <2>1, <2>5, <2>6
  <1> QED BY <1>4, <1>5

LEMMA DirtyInvInit == Init /\ KeepsLines => DirtyInv
  <1> SUFFICES ASSUME Init, KeepsLines PROVE DirtyInv
    OBVIOUS
  <1>1. cache = [c \in Caches |-> <<>>] /\ \A i \in Ids : req[i] = FreeReq
    BY DEF Init, EmptyCache
  <1>2. Holding(<<>>) /\ \A l : ~HasDirty(<<>>, l)
    BY DEF Holding, HasDirty, Occurs
  <1>3. CachesRight(cache)
    <2>1. \A k \in Cores : L1(k) \in Caches
      BY CachesAre
    <2> QED BY <1>1, <1>2, <2>1 DEF CachesRight
  <1>4. OnWay(FreeReq)
    BY DEF OnWay, Way, FreeReq
  <1> QED BY <1>1, <1>3, <1>4 DEF DirtyInv, OnWays

LEMMA DirtyInvNext == MemInv /\ DirtyInv /\ [Next]_vars => DirtyInv' /\ LosesNothing
  <1> SUFFICES ASSUME MemInv, DirtyInv, [Next]_vars PROVE DirtyInv' /\ LosesNothing
    OBVIOUS
  <1>1. Sound(req, mshr, uop, Stores) /\ CachesRight(cache) /\ OnWays(req)
    BY DEF MemInv, DirtyInv
  <1>2. config' = config /\ program' = program
    BY DEF Next, vars, access, fetch_or_prefetch, Step, InHit, InMiss, ProcessOut, FillNew, FillWaitDone,
           FillWaitFill, ProcessWb, receive_packet, receive, Answer, NextCycle, PrefetchAgain
  <1>3. DirtyStep
    <2>1. CASE UNCHANGED <<cache, req>>
      BY <1>1, <2>1, OnlyMoved DEF StillThere
    <2>2. ASSUME NEW u \in DOMAIN uop, access(u) \/ fetch_or_prefetch(u) PROVE DirtyStep
      BY <2>2, AccessDirty
    <2>3. ASSUME NEW i \in Ids, Step(i) PROVE DirtyStep
      BY <1>1, <2>3, InDirty, FillDirty, NetworkDirty DEF Step
    <2> QED BY <2>1, <2>2, <2>3 DEF Next, vars, NextCycle, PrefetchAgain
  <1>4. CachesRight(cache)' <=> CachesRight(cache')
    BY <1>2 DEF CachesRight
  <1>5. OnWays(req)' <=> OnWays(req')
    BY DEF OnWays
  <1>6. KeepsLines' <=> KeepsLines
    BY <1>2 DEF KeepsLines
  <1> QED BY <1>3, <1>4, <1>5, <1>6 DEF DirtyStep, DirtyInv

\* The copies a property counts are those the invariant follows.
LEMMA ModifiedIs ==
    ASSUME NEW l
    PROVE  /\ Modified(l) <=> DirtyIn(cache, l) \/ WrittenBack(req, l)
           /\ Modified(l)' <=> DirtyIn(cache', l) \/ WrittenBack(req', l)
  BY DEF Modified, DirtyIn, WrittenBack, HasDirty, Occurs

KeepsModified ==
    \A e \in {program[u] : u \in DOMAIN program} :
       Modified(e.line) /\ ~Modified(e.line)' =>
         \E i \in Ids : req[i].type = "WB" /\ req[i].line = e.line /\ req[i].place = "mc"

--------------------------------------------------------------------------------
(* The theorems. *)

LEMMA MemInvAlways == Spec => []MemInv
  BY MemInvInit, MemInvNext, PTL DEF Spec

LEMMA OwnedIfSound == MemInv => WaitersOwned
  <1> SUFFICES ASSUME MemInv, NEW u \in DOMAIN uop, uop[u] = "wait"
               PROVE  \E i \in Ids :
                        /\ req[i].uop = u /\ req[i].place \notin {"free", "lost"}
                        /\ \A j \in Ids : req[j].uop = u => j = i
    BY DEF WaitersOwned
  <1>1. Owned(req, uop) /\ Table(req, uop, Stores) /\ u # 0
    BY DEF MemInv, Sound, Owned
  <1>2. PICK i \in Ids : req[i].uop = u /\ req[i].place # "free"
    BY <1>1 DEF Owned
  <1>3. req[i].place # "lost"
    BY <1>1 DEF Table, RequestSound, Places
  <1>4. \A j \in Ids : req[j].uop = u => j = i
    BY <1>1, <1>2 DEF Owned
  <1> QED BY <1>2, <1>3, <1>4

LEMMA MergesIfSound == MemInv => MergesSound
  <1> SUFFICES ASSUME MemInv, NEW i \in Ids, req[i].place = "merged"
               PROVE  LET m == req[req[i].into]
                      IN  /\ m.place \notin {"free", "merged"} /\ m.type \notin {"DPRF", "WB"}
                          /\ m.core = req[i].core /\ m.line = req[i].line
    BY DEF MergesSound
  <1> DEFINE j == req[i].into
  <1>1. Table(req, uop, Stores) /\ Listed(req, mshr) /\ MergedRight(req, mshr)
    BY DEF MemInv, Sound
  <1>2. /\ j \in Ids /\ req[j].place # "merged" /\ DemandReq(req[j])
        /\ req[j].core = req[i].core /\ req[j].line = req[i].line /\ Precedes(j, i, mshr[req[i].core])
    BY <1>1 DEF MergedRight
  <1>3. req[i].core \in Cores
    <2>1. TakesEntry(req[i])
      BY <1>1 DEF Table, RequestSound, TakesEntry
    <2> QED BY <1>1, <2>1 DEF Listed
  <1>4. TakesEntry(req[j])
    BY <1>1, <1>2, <1>3 DEF Listed, Precedes, Occurs
  <1> QED BY <1>2, <1>4 DEF TakesEntry, DemandReq

\* An access that waits for the memory is the business of exactly one request, which is
\* on its way: none is lost when prefetches are flushed, promoted or dropped, when merged
\* requests are served one by one, and when a request enters the queue of the L2
\* (dcu_c and memory_c in memory.cc).
THEOREM AccessesOwned == Spec => []WaitersOwned
  BY MemInvAlways, OwnedIfSound, PTL

\* What a request is merged into is there, for the same core and line, and neither merged
\* itself nor a prefetch or a write-back: free_req leaves no merged request behind, and
\* flush_prefetch and noc_c drop none that others depend on.
THEOREM MergesAreSound == Spec => []MergesSound
  BY MemInvAlways, MergesIfSound, PTL

\* A request is in the list of its core as long as it lives, unless it is a write-back or
\* a pooled store, and the list has no more places than the knob says (m_mshr).
THEOREM EntriesRight == Spec => []Listed(req, mshr)
  <1>1. MemInv => Listed(req, mshr)
    BY DEF MemInv, Sound
  <1> QED BY <1>1, MemInvAlways, PTL

\* Where every level is a cache, the last modified copy of a line goes only when the memory
\* controller has taken its write-back: not by a fill, a hit, an eviction, a write-back
\* that meets the line below, or a store of a GPU core that drops the line of its L1
\* (process_fill_queue, process_wb_queue, done and access of dcu_c).
THEOREM ModifiedKept == Spec /\ KeepsLines => DirtyNeverLost
  <1>1. MemInv /\ DirtyInv /\ [Next]_vars => DirtyInv' /\ KeepsModified
    <2> SUFFICES ASSUME MemInv, DirtyInv, [Next]_vars PROVE DirtyInv' /\ KeepsModified
      OBVIOUS
    <2>1. DirtyInv' /\ LosesNothing
      BY DirtyInvNext
    <2>2. ASSUME NEW l, l # 0, Modified(l), ~Modified(l)'
          PROVE  \E i \in Ids : req[i].type = "WB" /\ req[i].line = l /\ req[i].place = "mc"
      BY <2>1, <2>2, ModifiedIs DEF LosesNothing, Answered
    <2> QED BY <2>1, <2>2 DEF KeepsModified, DirtyInv, KeepsLines
  <1>2. [KeepsModified]_vars => [\A e \in {program[u] : u \in DOMAIN program} :
       Modified(e.line) /\ ~Modified(e.line)' =>
         \E i \in Ids : req[i].type = "WB" /\ req[i].line = e.line /\ req[i].place = "mc"]_vars
    BY DEF KeepsModified
  <1> QED BY <1>1, <1>2, DirtyInvInit, MemInvAlways, PTL DEF Spec, DirtyNeverLost

--------------------------------------------------------------------------------
(* The prefetcher. *)

Bits == 0 .. 1
IndexEntry ==
    [trained : BOOLEAN, checking : BOOLEAN, states : 1 .. 2, cur : Bits, last : Int,
     stride : [Bits -> Int], cnt : [Bits -> Nat], trans : [Bits -> Int], recnt : Nat, count : Nat,
     pcount : Nat, pcur : Bits, plast : Int, sent : Nat]
PrefRequest == [valid : BOOLEAN, line : Int]
PrefQueue == [queue : [Slots -> PrefRequest], req : Int, tracked : SUBSET Int, ok : BOOLEAN]

\* Two entries with the same pattern whose prefetches have come to the same place in it.
Meets(e, d) ==
    /\ e.cnt = d.cnt /\ e.stride = d.stride /\ e.trans = d.trans
    /\ e.pcount = d.pcount /\ e.pcur = d.pcur /\ e.plast = d.plast

\* How far the prefetches of an entry are ahead of its reads, and how far behind.
Leads(e, k) == k \in Nat /\ Meets(Onward(Demand(e), k), e)
Lags(e, k)  == k \in Nat /\ Meets(Onward(e, k), Demand(e))

\* An entry in training has sent nothing, and one that looks for a second stride has
\* counted a step of the first; a threshold that is reached ends the training.
Training(e) ==
    /\ e.sent = 0 /\ (e.cur = 1 => e.cnt[0] > 0)
    /\ \A j \in Bits : e.cnt[j] < conf.singleThresh /\ (e.stride[j] # 0 => e.cnt[j] > 0)
    /\ IF e.checking THEN e.states = 2 /\ e.cnt[0] > 0 ELSE e.count = 0 /\ e.recnt = 0
\* A trained entry after c reads: each request it sent takes its prefetches a step
\* further, each read takes them a step back, and no further back than there were reads.
OneStride(e, c) ==
    /\ e.cur = 0 /\ e.count = 0 /\ e.cnt[0] > 0
    /\ \E k \in -c .. conf.startDistance + e.sent : e.plast = e.last + k * e.stride[0]
TwoStrides(e, c) ==
    \/ \E k \in 0 .. conf.startDistance + e.sent : Leads(e, k)
    \/ \E k \in 1 .. c : Lags(e, k)
OnStream(e, c) == IF e.states = 1 THEN OneStride(e, c) ELSE TwoStrides(e, c)
EntryRight(e, c) ==
    /\ e \in IndexEntry
    /\ ~e.trained => Training(e)
    /\ e.trained => e.sent <= conf.distance /\ OnStream(e, c)

PrefTyped ==
    /\ setting \in DOMAIN Configs /\ prog \in Seq(Seq(Nat)) /\ pos \in [DOMAIN prog -> Nat] /\ cycle \in Nat
    /\ regions \in [TableRows -> [valid : BOOLEAN, tag : Int, last : 0 .. cycle]]
    /\ index \in [TableRows -> IndexEntry]
    /\ L2Queue \in PrefQueue /\ sendPos \in Slots
PrefInv == PrefTyped /\ \A i \in TableRows : EntryRight(index[i], cycle)

--------------------------------------------------------------------------------
\* One step along the pattern.
LEMMA OneStep ==
    ASSUME NEW e \in IndexEntry
    PROVE  /\ Advanced(e) \in IndexEntry /\ PrefIndex(e) \in Int
           /\ Advanced(e).plast = PrefIndex(e)
           /\ Advanced(e).pcount = IF Transition(e) THEN 0 ELSE e.pcount + 1
           /\ Advanced(e).pcur = IF Transition(e) THEN 1 - e.pcur ELSE e.pcur
           /\ Advanced(e).cnt = e.cnt /\ Advanced(e).stride = e.stride /\ Advanced(e).trans = e.trans
           /\ Advanced(e).trained = e.trained /\ Advanced(e).states = e.states /\ Advanced(e).sent = e.sent
           /\ Advanced(e).last = e.last /\ Advanced(e).count = e.count /\ Advanced(e).cur = e.cur
           /\ Advanced(e).checking = e.checking /\ Advanced(e).recnt = e.recnt
  <1> DEFINE p == PrefIndex(e)
             m == IF Transition(e) THEN 0 ELSE e.pcount + 1
             b == IF Transition(e) THEN 1 - e.pcur ELSE e.pcur
             y == [e EXCEPT !.plast = p, !.pcount = m, !.pcur = b]
  <1>1. e.plast \in Int /\ e.pcount \in Nat /\ e.pcur \in Bits /\ e.stride \in [Bits -> Int] /\ e.trans \in [Bits -> Int]
    BY DEF IndexEntry
  <1>2. p \in Int /\ m \in Nat /\ b \in Bits
    <2>1. p \in Int
      BY <1>1 DEF PrefIndex
    <2> QED BY <1>1, <2>1 DEF Bits
  <1>3. Advanced(e) = y
    BY DEF Advanced, IndexEntry
  <1> HIDE DEF p, m, b
  <1>4. y \in IndexEntry
    BY <1>2 DEF IndexEntry
  <1>5. /\ y.plast = p /\ y.pcount = m /\ y.pcur = b /\ y.cnt = e.cnt /\ y.stride = e.stride /\ y.trans = e.trans
        /\ y.trained = e.trained /\ y.states = e.states /\ y.sent = e.sent /\ y.last = e.last
        /\ y.count = e.count /\ y.cur = e.cur /\ y.checking = e.checking /\ y.recnt = e.recnt
    BY DEF IndexEntry
  <1> HIDE DEF y
  <1> QED BY <1>2, <1>3, <1>4, <1>5 DEF p, m, b

\* Entries that meet still meet a step later.
LEMMA StepsMeet ==
    ASSUME NEW e \in IndexEntry, NEW d \in IndexEntry, Meets(e, d)
    PROVE  Meets(Advanced(e), Advanced(d))
  <1>1. PrefIndex(e) = PrefIndex(d) /\ (Transition(e) <=> Transition(d))
    BY DEF Meets, PrefIndex, Transition
  <1> QED BY <1>1, OneStep DEF Meets

\* Some steps along it, one after the other.
Path(f, e, n) == f \in [0 .. n -> IndexEntry] /\ f[0] = e /\ \A k \in 1 .. n : f[k] = Advanced(f[k - 1])

\* Onward is the end of a path of steps.
LEMMA OnwardPath ==
    ASSUME NEW e \in IndexEntry, NEW n \in Nat
    PROVE  \E f : Path(f, e, n) /\ Onward(e, n) = f[n]
  <1> DEFINE h == [y \in IndexEntry \X (1 .. n) |-> Advanced(y[1])]
             at == CHOOSE at : at = [i \in 0 .. n |-> IF i = 0 THEN e ELSE Advanced(at[i - 1])]
  <1>1. Keeps(h, IndexEntry, 1 .. n) /\ \A x \in IndexEntry, k \in 1 .. n : h[<<x, k>>] = Advanced(x)
    BY OneStep DEF Keeps
  <1> HIDE DEF h
  <1>2. PICK f \in [0 .. n -> IndexEntry] : Iterated(f, n, e, h)
    BY <1>1, Iterates
  <1>3. Path(f, e, n)
    <2>1. ASSUME NEW k \in 1 .. n PROVE f[k] = Advanced(f[k - 1])
      <3>1. f[k - 1] \in IndexEntry
        OBVIOUS
      <3> QED BY <1>1, <1>2, <3>1 DEF Iterated
    <2> QED BY <1>2, <2>1 DEF Path, Iterated
  <1>4. f = [i \in 0 .. n |-> IF i = 0 THEN e ELSE Advanced(f[i - 1])]
    <2>1. f = [i \in 0 .. n |-> f[i]]
      OBVIOUS
    <2>2. ASSUME NEW i \in 0 .. n PROVE f[i] = IF i = 0 THEN e ELSE Advanced(f[i - 1])
      BY <1>3 DEF Path
    <2> QED BY <2>1, <2>2
  <1>5. at = [i \in 0 .. n |-> IF i = 0 THEN e ELSE Advanced(at[i - 1])]
    BY <1>4
  <1> HIDE DEF at
  <1> DEFINE T == {k \in 0 .. n : at[k] = f[k]}
  <1>6. 0 \in T /\ \A k \in 1 .. n : k - 1 \in T => k \in T
    <2>1. 0 \in T
      BY <1>3, <1>5 DEF Path
    <2>2. ASSUME NEW k \in 1 .. n, at[k - 1] = f[k - 1] PROVE at[k] = f[k]
      <3>1. at[k] = Advanced(at[k - 1])
        BY <1>5
      <3> QED BY <1>3, <2>2, <3>1 DEF Path
    <2> QED BY <2>1, <2>2
  <1>7. 0 .. n \subseteq T
    <2> HIDE DEF T
    <2> QED BY <1>6, UpTo
  <1>8. Onward(e, n) = at[n]
    BY DEF Onward, at
  <1> QED BY <1>3, <1>7, <1>8

\* And so is each place on the way.
LEMMA OnwardAlong ==
    ASSUME NEW e, NEW n \in Nat, NEW f, Path(f, e, n), NEW k \in 0 .. n
    PROVE  Onward(e, k) = f[k]
  <1>1. e \in IndexEntry
    BY DEF Path
  <1>2. PICK g : Path(g, e, k) /\ Onward(e, k) = g[k]
    BY <1>1, OnwardPath
  <1> DEFINE T == {i \in 0 .. k : g[i] = f[i]}
  <1>3. 0 \in T /\ \A i \in 1 .. k : i - 1 \in T => i \in T
    BY <1>2 DEF Path
  <1>4. 0 .. k \subseteq T
    <2> HIDE DEF T
    <2> QED BY <1>3, UpTo
  <1> QED BY <1>2, <1>4

\* The steps may be counted from the front or from the back.
LEMMA OnwardSteps ==
    ASSUME NEW e \in IndexEntry, NEW k \in Nat
    PROVE  /\ Onward(e, 0) = e /\ Onward(e, k) \in IndexEntry
           /\ Onward(e, k + 1) = Advanced(Onward(e, k))
           /\ Onward(e, k + 1) = Onward(Advanced(e), k)
  <1>1. PICK f : Path(f, e, k + 1)
    BY OnwardPath
  <1>2. /\ k + 1 \in Nat /\ k \in 0 .. k + 1 /\ k + 1 \in 0 .. k + 1 /\ 0 \in 0 .. k + 1
        /\ k + 1 \in 1 .. k + 1 /\ (k + 1) - 1 = k
    OBVIOUS
  <1>3. Onward(e, 0) = f[0] /\ Onward(e, k) = f[k] /\ Onward(e, k + 1) = f[k + 1]
    BY <1>1, <1>2, OnwardAlong
  <1>4. f[0] = e /\ f[k] \in IndexEntry /\ f[k + 1] = Advanced(f[k])
    BY <1>1, <1>2 DEF Path
  <1> DEFINE g == [i \in 0 .. k |-> f[i + 1]]
  <1>5. Path(g, Advanced(e), k)
    <2>1. \A i \in 0 .. k : g[i] \in IndexEntry
      BY <1>1 DEF Path
    <2>2. g[0] = Advanced(e)
      BY <1>1 DEF Path
    <2>3. ASSUME NEW i \in 1 .. k PROVE g[i] = Advanced(g[i - 1])
      <3>1. i \in 0 .. k /\ i - 1 \in 0 .. k /\ i + 1 \in 1 .. k + 1 /\ (i + 1) - 1 = (i - 1) + 1
        OBVIOUS
      <3> QED BY <1>1, <3>1 DEF Path
    <2> QED BY <2>1, <2>2, <2>3 DEF Path
  <1>6. g[k] = f[k + 1]
    BY <1>2
  <1> HIDE DEF g
  <1>7. Onward(Advanced(e), k) = g[k]
    BY <1>5, OnwardAlong
  <1> QED BY <1>3, <1>4, <1>6, <1>7

\* Entries that meet stay together.
LEMMA OnwardMeets ==
    ASSUME NEW e \in IndexEntry, NEW d \in IndexEntry, Meets(e, d), NEW k \in Nat
    PROVE  Meets(Onward(e, k), Onward(d, k))
  <1> DEFINE T == {i \in 0 .. k : Meets(Onward(e, i), Onward(d, i))}
  <1>1. 0 \in T
    BY OnwardSteps
  <1>2. ASSUME NEW i \in 1 .. k, i - 1 \in T PROVE i \in T
    <2>1. i - 1 \in Nat /\ (i - 1) + 1 = i
      OBVIOUS
    <2>2. /\ Onward(e, i) = Advanced(Onward(e, i - 1)) /\ Onward(d, i) = Advanced(Onward(d, i - 1))
          /\ Onward(e, i - 1) \in IndexEntry /\ Onward(d, i - 1) \in IndexEntry
      BY <2>1, OnwardSteps
    <2> QED BY <1>2, <2>2, StepsMeet
  <1>3. 0 .. k \subseteq T
    <2> HIDE DEF T
    <2> QED BY <1>1, <1>2, UpTo
  <1> QED BY <1>3

--------------------------------------------------------------------------------
\* Knobs.
LEMMA Thresholds ==
    ASSUME setting \in DOMAIN Configs
    PROVE  /\ conf.singleThresh \in Nat \ {0} /\ conf.multiThresh \in Nat \ {0}
           /\ conf.queueSize \in Nat \ {0} /\ conf.tableSize \in Nat \ {0} /\ conf.regionSize \in Nat \ {0}
           /\ conf.startDistance \in Nat /\ conf.degree \in Nat /\ conf.distance \in Nat
           /\ Programs[setting] \subseteq Seq(Seq(Nat))
  BY PrefAssumption DEF conf

\* The fields of an entry by their ranges.
LEMMA IndexFields ==
    ASSUME NEW e \in IndexEntry
    PROVE  /\ e.trained \in BOOLEAN /\ e.checking \in BOOLEAN /\ e.states \in 1 .. 2 /\ e.cur \in Bits /\ e.last \in Int
           /\ e.stride \in [Bits -> Int] /\ e.cnt \in [Bits -> Nat] /\ e.trans \in [Bits -> Int]
           /\ e.recnt \in Nat /\ e.count \in Nat /\ e.pcount \in Nat /\ e.pcur \in Bits
           /\ e.plast \in Int /\ e.sent \in Nat
  BY DEF IndexEntry

\* A new entry knows nothing and is in training.
LEMMA NewEntry ==
    ASSUME setting \in DOMAIN Configs, NEW e \in IndexEntry, NEW line \in Int, NEW p \in Int
    PROVE  LET y == [create_newentry(e, line) EXCEPT !.plast = p]
           IN /\ y \in IndexEntry /\ create_newentry(e, line) \in IndexEntry
              /\ ~y.trained /\ ~create_newentry(e, line).trained
              /\ Training(y) /\ Training(create_newentry(e, line))
              /\ create_newentry(e, line).cur = 0 /\ ~create_newentry(e, line).checking
              /\ \A j \in Bits : create_newentry(e, line).cnt[j] = 0
  <1> DEFINE z == create_newentry(e, line)
             y == [z EXCEPT !.plast = p]
  <1>1. /\ e.pcount \in Nat /\ e.pcur \in Bits /\ e.plast \in Int /\ 0 \in Bits /\ Both(0) \in [Bits -> Nat]
        /\ Both(0) \in [Bits -> Int] /\ \A j \in Bits : Both(0)[j] = 0
    BY IndexFields DEF Both, Bits
  <1> DEFINE c == e.pcount
             b == e.pcur
             l == e.plast
  <1>2. z = [trained |-> FALSE, checking |-> FALSE, states |-> 1, cur |-> 0, last |-> line,
             stride |-> Both(0), cnt |-> Both(0), trans |-> Both(0), recnt |-> 0, count |-> 0,
             pcount |-> c, pcur |-> b, plast |-> l, sent |-> 0]
    <2>1. z = [NoEntry EXCEPT !.last = line, !.pcount = c, !.pcur = b, !.plast = l]
      BY DEF create_newentry
    <2> HIDE DEF z, c, b, l
    <2> QED BY ONLY <2>1 DEF NoEntry
  <1>3. z \in IndexEntry
    BY <1>1, <1>2 DEF IndexEntry
  <1>4. /\ ~z.trained /\ ~z.checking /\ z.cur = 0 /\ z.cnt = Both(0) /\ z.stride = Both(0)
        /\ z.sent = 0 /\ z.count = 0 /\ z.recnt = 0
    BY <1>2
  <1> HIDE DEF z
  <1>5. /\ y \in IndexEntry /\ ~y.trained /\ ~y.checking /\ y.cur = 0 /\ y.cnt = Both(0) /\ y.stride = Both(0)
        /\ y.sent = 0 /\ y.count = 0 /\ y.recnt = 0
    <2>1. y \in IndexEntry
      BY <1>3 DEF IndexEntry
    <2>2. /\ y.trained = z.trained /\ y.checking = z.checking /\ y.cur = z.cur /\ y.cnt = z.cnt /\ y.stride = z.stride
          /\ y.sent = z.sent /\ y.count = z.count /\ y.recnt = z.recnt
      BY <1>3 DEF IndexEntry
    <2> QED BY <1>4, <2>1, <2>2
  <1> HIDE DEF y
  <1>6. conf.singleThresh \in Nat \ {0}
    BY Thresholds
  <1>7. Training(z)
    BY <1>1, <1>4, <1>6 DEF Training
  <1>8. Training(y)
    BY <1>1, <1>5, <1>6 DEF Training
  <1> QED BY <1>1, <1>3, <1>4, <1>5, <1>7, <1>8 DEF z, y

\* What an entry in training is between the parts of the step.
Learning(e) ==
    /\ e \in IndexEntry /\ ~e.trained /\ e.sent = 0 /\ (e.cur = 1 => e.cnt[0] > 0)
    /\ \A j \in Bits : (e.stride[j] # 0 => e.cnt[j] > 0) /\ (j # e.cur => e.cnt[j] < conf.singleThresh)
    /\ IF e.checking THEN e.states = 2 /\ e.cnt[0] > 0 /\ e.cnt[e.cur] < conf.singleThresh ELSE e.count = 0 /\ e.recnt = 0

\* Looking for strides keeps what an entry in training satisfies.
LEMMA ObservedLearns ==
    ASSUME setting \in DOMAIN Configs, NEW e \in IndexEntry, ~e.trained, ~e.checking, Training(e), NEW s \in Int
    PROVE  Learning(Observed(e, s))
  <1>1. /\ e.cur \in Bits /\ e.stride \in [Bits -> Int] /\ e.cnt \in [Bits -> Nat] /\ e.trans \in [Bits -> Int]
        /\ e.sent = 0 /\ e.count = 0 /\ e.recnt = 0 /\ (e.cur = 1 => e.cnt[0] > 0)
        /\ \A j \in Bits : e.cnt[j] < conf.singleThresh /\ (e.stride[j] # 0 => e.cnt[j] > 0)
    BY IndexFields DEF Training
  <1>2. conf.singleThresh \in Nat \ {0}
    BY Thresholds
  <1> DEFINE b == e.cur
  <1>3. CASE e.stride[b] = 0 \/ (e.stride[b] # s /\ conf.single)
    <2> DEFINE S == [e.stride EXCEPT ![b] = s]
               C == [e.cnt EXCEPT ![b] = 1]
               y == [e EXCEPT !.stride = S, !.cnt = C]
    <2>1. S \in [Bits -> Int] /\ C \in [Bits -> Nat]
      BY <1>1
    <2>2. Observed(e, s) = y
      BY <1>3 DEF Observed, IndexEntry
    <2>3. C[b] = 1 /\ (\A j \in Bits : j # b => C[j] = e.cnt[j] /\ S[j] = e.stride[j])
      BY <1>1
    <2> HIDE DEF S, C
    <2>4. y \in IndexEntry
      BY <2>1 DEF IndexEntry
    <2>5. /\ y.trained = e.trained /\ y.sent = e.sent /\ y.cur = b /\ y.stride = S /\ y.cnt = C
          /\ y.checking = e.checking /\ y.count = e.count /\ y.recnt = e.recnt
      BY DEF IndexEntry
    <2> HIDE DEF y
    <2> QED BY <1>1, <1>2, <2>2, <2>3, <2>4, <2>5 DEF Learning, Bits
  <1>4. CASE ~(e.stride[b] = 0 \/ (e.stride[b] # s /\ conf.single)) /\ e.stride[b] = s
    <2> DEFINE v == e.cnt[b] + 1
               C == [e.cnt EXCEPT ![b] = v]
               y == [e EXCEPT !.cnt = C]
    <2>1. C \in [Bits -> Nat] /\ v > 0
      BY <1>1
    <2>2. Observed(e, s) = y
      BY <1>4 DEF Observed, IndexEntry
    <2>3. C[b] > 0 /\ (\A j \in Bits : j # b => C[j] = e.cnt[j])
      BY <1>1, <2>1
    <2> HIDE DEF C, v
    <2>4. y \in IndexEntry
      BY <2>1 DEF IndexEntry
    <2>5. /\ y.trained = e.trained /\ y.sent = e.sent /\ y.cur = b /\ y.stride = e.stride /\ y.cnt = C
          /\ y.checking = e.checking /\ y.count = e.count /\ y.recnt = e.recnt
      BY DEF IndexEntry
    <2> HIDE DEF y
    <2> QED BY <1>1, <1>2, <2>2, <2>3, <2>4, <2>5 DEF Learning, Bits
  <1>5. CASE ~(e.stride[b] = 0 \/ (e.stride[b] # s /\ conf.single)) /\ e.stride[b] # s
    <2> DEFINE T == [e.trans EXCEPT ![b] = s]
               w == 1 - b
               f == [e EXCEPT !.trans = T, !.states = 2, !.cur = w]
               y == [f EXCEPT !.checking = TRUE, !.count = 0, !.recnt = 0]
    <2>1. T \in [Bits -> Int] /\ w \in Bits /\ w # b /\ (w = 1 => b = 0)
      BY <1>1 DEF Bits
    <2>2. Observed(e, s) = IF f.cur = 0 THEN y ELSE f
      BY <1>5 DEF Observed, IndexEntry
    <2> HIDE DEF T, w
    <2>3. f \in IndexEntry
      <3> DEFINE two == 2
      <3>1. two \in 1 .. 2
        OBVIOUS
      <3> HIDE DEF two
      <3>2. [e EXCEPT !.trans = T, !.states = two, !.cur = w] \in IndexEntry
        BY <2>1, <3>1 DEF IndexEntry
      <3> QED BY <3>2 DEF two
    <2>4. /\ f.trained = e.trained /\ f.sent = e.sent /\ f.cur = w /\ f.stride = e.stride /\ f.cnt = e.cnt
          /\ f.checking = e.checking /\ f.count = e.count /\ f.recnt = e.recnt /\ f.states = 2
      BY DEF IndexEntry
    <2> HIDE DEF f
    <2>5. y \in IndexEntry
      BY <2>3 DEF IndexEntry
    <2>6. /\ y.trained = f.trained /\ y.sent = f.sent /\ y.cur = f.cur /\ y.stride = f.stride /\ y.cnt = f.cnt
          /\ y.checking = TRUE /\ y.states = f.states
      BY <2>3 DEF IndexEntry
    <2> HIDE DEF y
    <2>7. e.cnt[b] > 0 /\ e.cnt[b] \in Nat /\ e.cnt[w] \in Nat
      BY <1>1, <1>5, <2>1
    <2>8. CASE f.cur = 0
      <3>1. e.cnt[0] > 0
        BY <1>1, <2>1, <2>4, <2>8 DEF Bits
      <3> QED BY <1>1, <1>2, <2>1, <2>2, <2>4, <2>5, <2>6, <2>7, <2>8, <3>1 DEF Learning
    <2>9. CASE f.cur # 0
      BY <1>1, <1>2, <2>1, <2>2, <2>3, <2>4, <2>7, <2>9 DEF Learning
    <2> QED BY <2>8, <2>9
  <1> QED BY <1>3, <1>4, <1>5

\* And so does checking a pattern of two strides.
LEMMA CheckedLearns ==
    ASSUME setting \in DOMAIN Configs, NEW e \in IndexEntry, ~e.trained, e.checking, Training(e),
           NEW s \in Int, NEW line \in Int
    PROVE  Learning(Checked(e, s, line))
  <1>1. /\ e.cur \in Bits /\ e.stride \in [Bits -> Int] /\ e.cnt \in [Bits -> Nat]
        /\ e.recnt \in Nat /\ e.count \in Nat
        /\ e.sent = 0 /\ e.states = 2 /\ e.cnt[0] > 0
        /\ \A j \in Bits : e.cnt[j] < conf.singleThresh /\ (e.stride[j] # 0 => e.cnt[j] > 0)
    BY IndexFields DEF Training
  <1> DEFINE b == e.cur
             w == 1 - b
             r == e.recnt + 1
             k == e.count + 1
  <1>2. CASE s = e.stride[b] /\ e.count < e.cnt[b]
    <2> DEFINE y == [e EXCEPT !.recnt = r, !.count = k]
    <2>1. r \in Nat /\ k \in Nat
      BY <1>1
    <2>2. Checked(e, s, line) = y
      BY <1>2 DEF Checked, IndexEntry
    <2> HIDE DEF r, k
    <2>3. y \in IndexEntry
      BY <2>1 DEF IndexEntry
    <2>4. /\ y.trained = e.trained /\ y.sent = e.sent /\ y.cur = b /\ y.stride = e.stride /\ y.cnt = e.cnt
          /\ y.checking = e.checking /\ y.states = e.states
      BY DEF IndexEntry
    <2> HIDE DEF y
    <2> QED BY <1>1, <2>2, <2>3, <2>4 DEF Learning
  <1>3. CASE ~(s = e.stride[b] /\ e.count < e.cnt[b]) /\ s = e.trans[b] /\ e.count = e.cnt[b]
    <2> DEFINE y == [e EXCEPT !.recnt = r, !.count = 0, !.cur = w]
    <2>1. r \in Nat /\ w \in Bits /\ (w = 1 => b = 0) /\ w # b
      BY <1>1 DEF Bits
    <2>2. Checked(e, s, line) = y
      BY <1>3 DEF Checked, IndexEntry
    <2> HIDE DEF r, w
    <2>3. y \in IndexEntry
      BY <2>1 DEF IndexEntry
    <2>4. /\ y.trained = e.trained /\ y.sent = e.sent /\ y.cur = w /\ y.stride = e.stride /\ y.cnt = e.cnt
          /\ y.checking = e.checking /\ y.states = e.states
      BY DEF IndexEntry
    <2> HIDE DEF y
    <2> QED BY <1>1, <2>1, <2>2, <2>3, <2>4 DEF Learning
  <1>4. CASE ~(s = e.stride[b] /\ e.count < e.cnt[b]) /\ ~(s = e.trans[b] /\ e.count = e.cnt[b])
    <2> DEFINE y == create_newentry(e, line)
    <2>1. Checked(e, s, line) = y
      BY <1>4 DEF Checked
    <2>2. y \in IndexEntry /\ ~y.trained /\ Training(y) /\ ~y.checking
      BY <1>1, NewEntry
    <2> HIDE DEF y
    <2> QED BY <2>1, <2>2 DEF Training, Learning
  <1> QED BY <1>2, <1>3, <1>4

\* A stream of one stride starts.
LEMMA SingleStarts ==
    ASSUME setting \in DOMAIN Configs, NEW e, Learning(e), NEW c \in Nat
    PROVE  EntryRight(SingleTrained(e), c) /\ (SingleTrained(e).trained => SingleTrained(e).recnt = 0)
  <1>1. /\ e \in IndexEntry /\ e.cur \in Bits /\ e.stride \in [Bits -> Int] /\ e.cnt \in [Bits -> Nat] /\ e.last \in Int
        /\ conf.singleThresh \in Nat \ {0} /\ conf.startDistance \in Nat /\ conf.distance \in Nat
    BY IndexFields, Thresholds DEF Learning
  <1>2. CASE ~(e.cnt[e.cur] >= conf.singleThresh)
    <2>1. SingleTrained(e) = e
      BY <1>2 DEF SingleTrained
    <2>2. e.cnt[e.cur] < conf.singleThresh
      BY <1>1, <1>2
    <2>3. Training(e) /\ ~e.trained
      BY <1>1, <2>2 DEF Learning, Training
    <2> QED BY <1>1, <2>1, <2>3 DEF EntryRight
  <1>3. CASE e.cnt[e.cur] >= conf.singleThresh
    <2> DEFINE d == conf.startDistance
               s == e.stride[0]
               p == e.last + s * d
               one == 1
               y == [e EXCEPT !.trained = TRUE, !.states = one, !.cur = 0, !.plast = p]
    <2>1. SingleTrained(e) = y
      BY <1>3 DEF SingleTrained
    <2>2. e.cnt[0] > 0 /\ ~e.checking /\ e.count = 0 /\ e.recnt = 0 /\ e.sent = 0
      <3>1. e.cur = 0 \/ e.cur = 1
        BY <1>1 DEF Bits
      <3> QED BY <1>1, <1>3, <3>1 DEF Learning
    <2>3. s \in Int /\ p \in Int /\ p = e.last + d * s /\ d \in Nat /\ 0 \in Bits /\ one \in 1 .. 2
      <3>1. s \in Int /\ d \in Nat
        BY <1>1 DEF Bits
      <3> HIDE DEF s, d
      <3> QED BY <1>1, <3>1 DEF Bits
    <2> HIDE DEF p, s, d
    <2>4. y \in IndexEntry
      BY <1>1, <2>3 DEF IndexEntry
    <2>5. /\ y.trained /\ y.states = 1 /\ y.cur = 0 /\ y.plast = p /\ y.count = e.count /\ y.cnt = e.cnt
          /\ y.stride = e.stride /\ y.last = e.last /\ y.sent = e.sent /\ y.recnt = e.recnt
      <3> HIDE DEF one
      <3>1. /\ y.trained /\ y.states = one /\ y.cur = 0 /\ y.plast = p /\ y.count = e.count /\ y.cnt = e.cnt
            /\ y.stride = e.stride /\ y.last = e.last /\ y.sent = e.sent /\ y.recnt = e.recnt
        BY <1>1 DEF IndexEntry
      <3> QED BY <3>1 DEF one
    <2> HIDE DEF y
    <2>6. y.plast = y.last + d * y.stride[0] /\ y.sent = 0
      BY <2>2, <2>3, <2>5 DEF s
    <2>7. d \in -c .. conf.startDistance + y.sent
      BY <1>1, <2>2, <2>5 DEF d
    <2>8. OneStride(y, c)
      BY <2>2, <2>5, <2>6, <2>7 DEF OneStride
    <2> QED BY <1>1, <2>1, <2>2, <2>4, <2>5, <2>6, <2>8 DEF EntryRight, OnStream
  <1> QED BY <1>2, <1>3

\* What steps along the pattern leave alone.
Stands(e, d) ==
    /\ d.trained = e.trained /\ d.states = e.states /\ d.sent = e.sent /\ d.last = e.last
    /\ d.count = e.count /\ d.cur = e.cur /\ d.checking = e.checking /\ d.recnt = e.recnt
    /\ d.cnt = e.cnt /\ d.stride = e.stride /\ d.trans = e.trans

\* Steps of the prefetches leave the rest of the entry alone.
LEMMA OnwardStands ==
    ASSUME NEW e \in IndexEntry, NEW n \in Nat
    PROVE  Stands(e, Onward(e, n))
  <1> DEFINE T == {i \in 0 .. n : Stands(e, Onward(e, i))}
  <1>1. 0 \in T
    BY OnwardSteps DEF Stands
  <1>2. ASSUME NEW i \in 1 .. n, i - 1 \in T PROVE i \in T
    <2>1. i - 1 \in Nat /\ (i - 1) + 1 = i
      OBVIOUS
    <2>2. Onward(e, i) = Advanced(Onward(e, i - 1)) /\ Onward(e, i - 1) \in IndexEntry
      BY <2>1, OnwardSteps
    <2> QED BY <1>2, <2>2, OneStep DEF Stands
  <1>3. 0 .. n \subseteq T
    <2> HIDE DEF T
    <2> QED BY <1>1, <1>2, UpTo
  <1> QED BY <1>3

\* The demand of an entry, and of one that differs from it in its prefetches.
LEMMA DemandIs ==
    ASSUME NEW e \in IndexEntry
    PROVE  /\ Demand(e) \in IndexEntry /\ Stands(e, Demand(e))
           /\ Demand(e).plast = e.last /\ Demand(e).pcount = e.count /\ Demand(e).pcur = e.cur
  <1> DEFINE l == e.last
             k == e.count
             b == e.cur
             y == [e EXCEPT !.plast = l, !.pcount = k, !.pcur = b]
  <1>1. l \in Int /\ k \in Nat /\ b \in Bits
    BY IndexFields
  <1>2. Demand(e) = y
    BY DEF Demand
  <1> HIDE DEF l, k, b
  <1>3. y \in IndexEntry
    BY <1>1 DEF IndexEntry
  <1>4. /\ y.plast = l /\ y.pcount = k /\ y.pcur = b
        /\ y.trained = e.trained /\ y.states = e.states /\ y.sent = e.sent /\ y.last = e.last
        /\ y.count = e.count /\ y.cur = e.cur /\ y.checking = e.checking /\ y.recnt = e.recnt
        /\ y.cnt = e.cnt /\ y.stride = e.stride /\ y.trans = e.trans
    BY DEF IndexEntry
  <1> HIDE DEF y
  <1> QED BY <1>2, <1>3, <1>4 DEF Stands, l, k, b

\* Meeting is symmetric and transitive.
LEMMA MeetsTwice ==
    ASSUME NEW a, NEW b, NEW d, Meets(a, b), Meets(b, d)
    PROVE  Meets(a, d) /\ Meets(b, a)
  BY DEF Meets

\* A stream of two strides starts.
LEMMA MultiStarts ==
    ASSUME setting \in DOMAIN Configs, NEW c \in Nat, NEW e, EntryRight(e, c), e.trained => e.recnt = 0
    PROVE  EntryRight(MultiTrained(e), c)
  <1>1. /\ e \in IndexEntry /\ e.recnt \in Nat
        /\ conf.multiThresh \in Nat \ {0} /\ conf.startDistance \in Nat /\ conf.distance \in Nat
    BY IndexFields, Thresholds DEF EntryRight
  <1>2. CASE ~(e.recnt >= conf.multiThresh)
    BY <1>2 DEF MultiTrained
  <1>3. CASE e.recnt >= conf.multiThresh
    <2>1. ~e.trained /\ Training(e) /\ e.sent = 0 /\ e.states = 2
      BY <1>1, <1>3 DEF EntryRight, Training
    <2> DEFINE l == e.last
               k == e.count
               b == e.cur
               d == conf.startDistance
               x == [e EXCEPT !.trained = TRUE, !.pcount = k, !.pcur = b, !.plast = l]
               y == Onward(x, d)
    <2>2. MultiTrained(e) = y
      BY <1>3 DEF MultiTrained
    <2>3. l \in Int /\ k \in Nat /\ b \in Bits
      BY <1>1, IndexFields
    <2> HIDE DEF l, k, b
    <2>4. x \in IndexEntry
      BY <1>1, <2>3 DEF IndexEntry
    <2>5. /\ x.trained /\ x.sent = e.sent /\ x.states = e.states /\ x.last = e.last /\ x.count = e.count /\ x.cur = e.cur
          /\ x.plast = l /\ x.pcount = k /\ x.pcur = b
      BY <1>1 DEF IndexEntry
    <2> HIDE DEF x
    <2>6. y \in IndexEntry /\ Stands(x, y)
      BY <1>1, <2>4, OnwardSteps, OnwardStands
    <2>7. Demand(y) \in IndexEntry /\ Stands(y, Demand(y)) /\ Meets(Demand(y), x)
      <3>1. /\ Demand(y) \in IndexEntry /\ Stands(y, Demand(y))
            /\ Demand(y).plast = y.last /\ Demand(y).pcount = y.count /\ Demand(y).pcur = y.cur
        BY <2>6, DemandIs
      <3> QED BY <2>5, <2>6, <3>1 DEF Meets, Stands, l, k, b
    <2> HIDE DEF y
    <2>8. Meets(Onward(Demand(y), d), y)
      <3>1. Meets(Onward(Demand(y), d), Onward(x, d))
        BY <1>1, <2>4, <2>7, OnwardMeets
      <3> QED BY <3>1 DEF y
    <2>9. y.trained /\ y.sent = 0 /\ y.states = 2
      BY <2>1, <2>5, <2>6 DEF Stands
    <2>10. Leads(y, d) /\ d \in 0 .. conf.startDistance + y.sent
      BY <1>1, <2>8, <2>9 DEF Leads
    <2>11. TwoStrides(y, c)
      BY <2>10 DEF TwoStrides
    <2> QED BY <1>1, <2>2, <2>6, <2>9, <2>11 DEF EntryRight, OnStream
  <1> QED BY <1>2, <1>3

\* All that a read does to an entry in training.
LEMMA UntrainedRight ==
    ASSUME setting \in DOMAIN Configs, NEW c \in Nat, NEW e \in IndexEntry, ~e.trained, Training(e),
           NEW s \in Int, NEW line \in Int
    PROVE  EntryRight(Untrained(e, s, line), c)
  <1> DEFINE x == IF e.checking THEN Checked(e, s, line) ELSE Observed(e, s)
             y == SingleTrained(x)
  <1>1. Learning(x)
    BY ObservedLearns, CheckedLearns
  <1> HIDE DEF x
  <1>2. EntryRight(y, c) /\ (y.trained => y.recnt = 0)
    BY <1>1, SingleStarts
  <1>3. Untrained(e, s, line) = MultiTrained(y)
    BY DEF Untrained, x
  <1> HIDE DEF y
  <1> QED BY <1>2, <1>3, MultiStarts

--------------------------------------------------------------------------------
\* A request is queued, or refused.
LEMMA QueueKept ==
    ASSUME setting \in DOMAIN Configs, NEW s \in PrefQueue, NEW line \in Int
    PROVE  addto_l2req_queue(s, line) \in PrefQueue
  <1>1. /\ s.queue \in [Slots -> PrefRequest] /\ s.req \in Int /\ s.tracked \in SUBSET Int /\ s.ok \in BOOLEAN
        /\ conf.queueSize \in Nat \ {0} /\ conf.regionSize \in Nat \ {0}
    BY Thresholds DEF PrefQueue
  <1> DEFINE rs == Tracked(s.tracked, line)
             next == (s.req + 1) % conf.queueSize
             q == [s.queue EXCEPT ![next] = [valid |-> TRUE, line |-> line]]
  <1>2. rs \in SUBSET Int
    <2>1. Region(line) \in Int
      BY <1>1 DEF Region
    <2> QED BY <1>1, <2>1 DEF Tracked
  <1>3. next \in Slots /\ next \in Int
    BY <1>1 DEF Slots
  <1>4. q \in [Slots -> PrefRequest]
    <2>1. [valid |-> TRUE, line |-> line] \in PrefRequest
      BY DEF PrefRequest
    <2> HIDE DEF next
    <2> QED BY <1>1, <1>3, <2>1
  <1>5. \/ addto_l2req_queue(s, line) = [s EXCEPT !.ok = TRUE]
        \/ addto_l2req_queue(s, line) = [s EXCEPT !.ok = TRUE, !.tracked = rs]
        \/ addto_l2req_queue(s, line) = [s EXCEPT !.ok = FALSE, !.tracked = rs]
        \/ addto_l2req_queue(s, line) = [s EXCEPT !.ok = TRUE, !.tracked = rs, !.req = next, !.queue = q]
    <2> HIDE DEF PrefQueue
    <2>1. [s EXCEPT !.ok = TRUE, !.tracked = rs, !.req = next, !.queue[next] = [valid |-> TRUE, line |-> line]]
            = [s EXCEPT !.ok = TRUE, !.tracked = rs, !.req = next, !.queue = q]
      <3> HIDE DEF rs, next
      <3> QED BY DEF PrefQueue
    <2> QED BY <2>1 DEF addto_l2req_queue
  <1> HIDE DEF rs, next, q
  <1>6. [s EXCEPT !.ok = TRUE] \in PrefQueue
    BY <1>1 DEF PrefQueue
  <1>7. [s EXCEPT !.ok = TRUE, !.tracked = rs] \in PrefQueue /\ [s EXCEPT !.ok = FALSE, !.tracked = rs] \in PrefQueue
    BY <1>1, <1>2 DEF PrefQueue
  <1>8. [s EXCEPT !.ok = TRUE, !.tracked = rs, !.req = next, !.queue = q] \in PrefQueue
    BY <1>1, <1>2, <1>3, <1>4 DEF PrefQueue
  <1> QED BY <1>5, <1>6, <1>7, <1>8

\* The loop that sends: the entry stays right, and what it is trained on stays the same.
Sending(c, m) == {x \in [e : IndexEntry, s : PrefQueue] : EntryRight(x.e, c) /\ x.e.trained /\ x.e.states = m}

\* A request that is not sent leaves the entry where it was.
LEMMA Unsent ==
    ASSUME NEW c, NEW m, NEW x \in Sending(c, m), NEW s \in PrefQueue
    PROVE  [x EXCEPT !.s = s] \in Sending(c, m) /\ [x EXCEPT !.s.ok = FALSE] \in Sending(c, m)
  <1>1. x \in [e : IndexEntry, s : PrefQueue] /\ EntryRight(x.e, c) /\ x.e.trained /\ x.e.states = m
    BY DEF Sending
  <1>2. ASSUME NEW q \in PrefQueue PROVE [x EXCEPT !.s = q] \in Sending(c, m)
    <2> DEFINE y == [x EXCEPT !.s = q]
    <2>1. y \in [e : IndexEntry, s : PrefQueue] /\ y.e = x.e
      BY <1>1
    <2> HIDE DEF y
    <2>2. y \in Sending(c, m)
      BY <1>1, <2>1 DEF Sending
    <2> QED BY <2>2 DEF y
  <1>3. [x.s EXCEPT !.ok = FALSE] \in PrefQueue
    BY <1>1 DEF PrefQueue
  <1>4. [x EXCEPT !.s.ok = FALSE] = [x EXCEPT !.s = [x.s EXCEPT !.ok = FALSE]]
    BY <1>1
  <1> QED BY <1>2, <1>3, <1>4

\* A prefetch along one stride stays on the stream.
LEMMA SingleStays ==
    ASSUME setting \in DOMAIN Configs, NEW c \in Nat, NEW x \in Sending(c, 1)
    PROVE  SendSingle(x) \in Sending(c, 1)
  <1>1. /\ x \in [e : IndexEntry, s : PrefQueue] /\ EntryRight(x.e, c) /\ x.e.trained /\ x.e.states = 1
        /\ conf.distance \in Nat /\ conf.startDistance \in Nat
    BY Thresholds DEF Sending
  <1> DEFINE e == x.e
             line == e.plast + e.stride[0]
             s == addto_l2req_queue(x.s, line)
             u == e.sent + 1
             y == [e EXCEPT !.plast = line, !.sent = u]
  <1>2. e \in IndexEntry /\ x.s \in PrefQueue
    BY <1>1
  <1>3. /\ e.plast \in Int /\ e.sent \in Nat /\ e.stride[0] \in Int /\ e.last \in Int
        /\ line \in Int /\ u \in Nat
    <2>1. e.plast \in Int /\ e.sent \in Nat /\ e.last \in Int /\ e.stride[0] \in Int
      BY <1>2, IndexFields DEF Bits
    <2> HIDE DEF e
    <2> QED BY <2>1
  <1>4. s \in PrefQueue
    <2> HIDE DEF line
    <2> QED BY <1>2, <1>3, QueueKept
  <1>5. CASE ~x.s.ok \/ e.sent >= conf.distance
    BY <1>4, <1>5, Unsent DEF SendSingle
  <1>6. CASE ~(~x.s.ok \/ e.sent >= conf.distance) /\ ~s.ok
    BY <1>4, <1>6, Unsent DEF SendSingle
  <1>7. CASE ~(~x.s.ok \/ e.sent >= conf.distance) /\ s.ok
    <2>1. SendSingle(x) = [s |-> s, e |-> y]
      BY <1>7 DEF SendSingle
    <2>2. y \in IndexEntry
      <3> HIDE DEF e, line, u
      <3> QED BY <1>2, <1>3 DEF IndexEntry
    <2>3. /\ y.trained = e.trained /\ y.states = e.states /\ y.sent = u /\ y.last = e.last /\ y.plast = line
          /\ y.count = e.count /\ y.cur = e.cur /\ y.cnt = e.cnt /\ y.stride = e.stride
      <3> HIDE DEF e, line, u
      <3> QED BY <1>2 DEF IndexEntry
    <2>4. OneStride(e, c)
      BY <1>1 DEF EntryRight, OnStream
    <2>5. PICK k \in -c .. conf.startDistance + e.sent : e.plast = e.last + k * e.stride[0]
      BY <2>4 DEF OneStride
    <2>6. k + 1 \in -c .. conf.startDistance + y.sent
      BY <1>1, <1>3, <2>3
    <2>7. y.plast = y.last + (k + 1) * y.stride[0]
      <3> DEFINE d == e.stride[0]
      <3>1. d \in Int /\ k \in Int
        BY <1>3
      <3>2. (k + 1) * d = k * d + d /\ k * d \in Int
        <4> HIDE DEF d
        <4> QED BY <3>1
      <3> QED BY <1>3, <2>3, <2>5, <3>2
    <2>8. y.sent <= conf.distance
      BY <1>1, <1>3, <1>7, <2>3
    <2>9. OneStride(y, c)
      BY <2>3, <2>4, <2>6, <2>7 DEF OneStride
    <2> HIDE DEF y
    <2>10. EntryRight(y, c) /\ y.trained /\ y.states = 1
      BY <1>1, <2>2, <2>3, <2>8, <2>9 DEF EntryRight, OnStream
    <2> HIDE DEF s
    <2> QED BY <1>4, <2>1, <2>2, <2>10 DEF Sending
  <1> QED BY <1>5, <1>6, <1>7

\* One more prefetch along a pattern of two strides.
LEMMA LeadGrows ==
    ASSUME NEW e \in IndexEntry, NEW d \in IndexEntry,
           Meets(Advanced(e), d), d.last = e.last, d.count = e.count, d.cur = e.cur
    PROVE  /\ \A k \in Nat : Leads(e, k) => Leads(d, k + 1)
           /\ \A k \in Nat \ {0} : Lags(e, k) => IF k = 1 THEN Leads(d, 0) ELSE Lags(d, k - 1)
  <1>1. /\ Demand(e) \in IndexEntry /\ Demand(d) \in IndexEntry /\ Advanced(e) \in IndexEntry
        /\ Meets(Demand(e), Demand(d)) /\ Meets(Demand(d), Demand(e))
    BY DemandIs, OneStep DEF Meets, Stands
  <1>2. ASSUME NEW k \in Nat, Leads(e, k) PROVE Leads(d, k + 1)
    <2>1. Meets(Onward(Demand(e), k), e) /\ Onward(Demand(e), k) \in IndexEntry
      BY <1>1, <1>2, OnwardSteps DEF Leads
    <2>2. Onward(Demand(e), k + 1) = Advanced(Onward(Demand(e), k))
      BY <1>1, OnwardSteps
    <2>3. Meets(Onward(Demand(e), k + 1), Advanced(e))
      BY <2>1, <2>2, StepsMeet
    <2>4. Meets(Onward(Demand(d), k + 1), Onward(Demand(e), k + 1))
      BY <1>1, OnwardMeets
    <2> QED BY <2>3, <2>4, MeetsTwice DEF Leads
  <1>3. ASSUME NEW k \in Nat \ {0}, Lags(e, k) PROVE IF k = 1 THEN Leads(d, 0) ELSE Lags(d, k - 1)
    <2> DEFINE m == k - 1
    <2>1. m \in Nat /\ m + 1 = k
      OBVIOUS
    <2>2. Onward(e, k) = Onward(Advanced(e), m) /\ Onward(Advanced(e), m) \in IndexEntry
      BY <1>1, <2>1, OnwardSteps
    <2>3. Meets(Onward(Advanced(e), m), Demand(e))
      BY <1>3, <2>2 DEF Lags
    <2>4. Meets(Onward(Advanced(e), m), Onward(d, m))
      BY <1>1, <2>1, OnwardMeets
    <2>5. Meets(Onward(d, m), Demand(d))
      <3> HIDE DEF m
      <3> QED BY <1>1, <2>3, <2>4 DEF Meets
    <2>6. CASE k = 1
      <3>1. m = 0 /\ Onward(d, 0) = d /\ Onward(Demand(d), 0) = Demand(d)
        BY <1>1, <2>6, OnwardSteps
      <3>2. Meets(Demand(d), d)
        BY <2>5, <3>1 DEF Meets
      <3> QED BY <2>6, <3>1, <3>2 DEF Leads
    <2>7. CASE k # 1
      BY <2>1, <2>5, <2>7 DEF Lags
    <2> QED BY <2>6, <2>7
  <1> QED BY <1>2, <1>3

\* A prefetch along two strides stays on the stream.
LEMMA MultiStays ==
    ASSUME setting \in DOMAIN Configs, NEW c \in Nat, NEW x \in Sending(c, 2)
    PROVE  SendMulti(x) \in Sending(c, 2)
  <1>1. /\ x \in [e : IndexEntry, s : PrefQueue] /\ EntryRight(x.e, c) /\ x.e.trained /\ x.e.states = 2
        /\ conf.distance \in Nat /\ conf.startDistance \in Nat
    BY Thresholds DEF Sending
  <1> DEFINE e == x.e
             s == addto_l2req_queue(x.s, PrefIndex(e))
             f == Advanced(e)
             u == f.sent + 1
             y == [f EXCEPT !.sent = u]
  <1>2. e \in IndexEntry /\ x.s \in PrefQueue
    BY <1>1
  <1>3. /\ f \in IndexEntry /\ PrefIndex(e) \in Int /\ f.trained = e.trained /\ f.states = e.states /\ f.sent = e.sent
        /\ f.last = e.last /\ f.count = e.count /\ f.cur = e.cur /\ e.sent \in Nat /\ u \in Nat
    <2> HIDE DEF e
    <2> QED BY <1>2, OneStep, IndexFields
  <1>4. s \in PrefQueue
    BY <1>2, <1>3, QueueKept
  <1>5. CASE ~x.s.ok \/ e.sent >= conf.distance
    BY <1>4, <1>5, Unsent DEF SendMulti
  <1>6. CASE ~(~x.s.ok \/ e.sent >= conf.distance) /\ ~s.ok
    BY <1>4, <1>6, Unsent DEF SendMulti
  <1>7. CASE ~(~x.s.ok \/ e.sent >= conf.distance) /\ s.ok
    <2>1. SendMulti(x) = [s |-> s, e |-> y]
      BY <1>7 DEF SendMulti
    <2>2. y \in IndexEntry
      <3> HIDE DEF e, f, u
      <3> QED BY <1>3 DEF IndexEntry
    <2>3. /\ y.trained = f.trained /\ y.states = f.states /\ y.sent = u /\ y.last = f.last
          /\ y.count = f.count /\ y.cur = f.cur /\ Meets(f, y)
      <3> HIDE DEF e, f, u
      <3> QED BY <1>3 DEF IndexEntry, Meets
    <2> HIDE DEF y, f
    <2>4. TwoStrides(e, c)
      BY <1>1 DEF EntryRight, OnStream
    <2>5. /\ \A k \in Nat : Leads(e, k) => Leads(y, k + 1)
          /\ \A k \in Nat \ {0} : Lags(e, k) => IF k = 1 THEN Leads(y, 0) ELSE Lags(y, k - 1)
      <3>1. Meets(Advanced(e), y) /\ y.last = e.last /\ y.count = e.count /\ y.cur = e.cur
        BY <1>3, <2>3 DEF f
      <3> HIDE DEF e
      <3> QED BY <1>2, <2>2, <3>1, LeadGrows
    <2>6. TwoStrides(y, c)
      <3>1. CASE \E k \in 0 .. conf.startDistance + e.sent : Leads(e, k)
        <4>1. PICK k \in 0 .. conf.startDistance + e.sent : Leads(e, k)
          BY <3>1
        <4>2. k \in Nat /\ k + 1 \in 0 .. conf.startDistance + y.sent
          BY <1>1, <1>3, <2>3
        <4> QED BY <2>5, <4>1, <4>2 DEF TwoStrides
      <3>2. CASE \E k \in 1 .. c : Lags(e, k)
        <4>1. PICK k \in 1 .. c : Lags(e, k)
          BY <3>2
        <4>2. k \in Nat \ {0} /\ 0 \in 0 .. conf.startDistance + y.sent /\ (k # 1 => k - 1 \in 1 .. c)
          BY <1>1, <1>3, <2>3
        <4> QED BY <2>5, <4>1, <4>2 DEF TwoStrides
      <3> QED BY <2>4, <3>1, <3>2 DEF TwoStrides
    <2>7. y.sent <= conf.distance
      BY <1>1, <1>3, <1>7, <2>3
    <2>8. EntryRight(y, c) /\ y.trained /\ y.states = 2
      BY <1>1, <1>3, <2>2, <2>3, <2>6, <2>7 DEF EntryRight, OnStream
    <2> HIDE DEF s
    <2> QED BY <1>4, <2>1, <2>2, <2>8 DEF Sending
  <1> QED BY <1>5, <1>6, <1>7

\* The loops.
LEMMA SingleSends ==
    ASSUME setting \in DOMAIN Configs, NEW c \in Nat, NEW x \in Sending(c, 1)
    PROVE  Sends(SendSingle, x) \in Sending(c, 1)
  <1> DEFINE X == Sending(c, 1)
             n == conf.degree
             h == [y \in X \X (1 .. n) |-> SendSingle(y[1])]
             at == CHOOSE at : at = [i \in 0 .. n |-> IF i = 0 THEN x ELSE SendSingle(at[i - 1])]
  <1>1. Keeps(h, X, 1 .. n) /\ \A y \in X, k \in 1 .. n : h[<<y, k>>] = SendSingle(y)
    <2>1. \A y \in X : SendSingle(y) \in X
      BY SingleStays
    <2> HIDE DEF X, n
    <2> QED BY <2>1 DEF Keeps
  <1>2. n \in Nat /\ x \in X
    BY Thresholds
  <1>3. Sends(SendSingle, x) = at[n]
    BY DEF Sends
  <1> HIDE DEF h, X, n
  <1>4. PICK f \in [0 .. n -> X] : Iterated(f, n, x, h)
    BY <1>1, <1>2, Iterates
  <1>5. f = [i \in 0 .. n |-> IF i = 0 THEN x ELSE SendSingle(f[i - 1])]
    <2>1. f = [i \in 0 .. n |-> f[i]]
      OBVIOUS
    <2>2. ASSUME NEW i \in 0 .. n PROVE f[i] = IF i = 0 THEN x ELSE SendSingle(f[i - 1])
      <3>1. CASE i = 0
        BY <1>4, <3>1 DEF Iterated
      <3>2. CASE i # 0
        <4>1. i \in 1 .. n /\ i - 1 \in 0 .. n
          BY <1>2, <3>2
        <4>2. f[i - 1] \in X /\ f[i] = h[<<f[i - 1], i>>]
          BY <1>4, <4>1 DEF Iterated
        <4> QED BY <1>1, <3>2, <4>1, <4>2
      <3> QED BY <3>1, <3>2
    <2> QED BY <2>1, <2>2
  <1>6. at = [i \in 0 .. n |-> IF i = 0 THEN x ELSE SendSingle(at[i - 1])]
    BY <1>5
  <1> HIDE DEF at
  <1> DEFINE T == {k \in 0 .. n : at[k] \in X}
  <1>7. 0 \in T /\ \A k \in 1 .. n : k - 1 \in T => k \in T
    <2>1. at[0] = x
      BY <1>2, <1>6
    <2>2. ASSUME NEW k \in 1 .. n, at[k - 1] \in X PROVE at[k] \in X
      <3>1. at[k] = SendSingle(at[k - 1])
        BY <1>2, <1>6
      <3> QED BY <2>2, <3>1, SingleStays DEF X
    <2> QED BY <1>2, <2>1, <2>2
  <1>8. 0 .. n \subseteq T
    <2> HIDE DEF T
    <2> QED BY <1>2, <1>7, UpTo
  <1>9. at[n] \in X
    BY <1>2, <1>8
  <1> QED BY <1>3, <1>9 DEF X

\* And so do the prefetches of a read along two strides.
LEMMA MultiSends ==
    ASSUME setting \in DOMAIN Configs, NEW c \in Nat, NEW x \in Sending(c, 2)
    PROVE  Sends(SendMulti, x) \in Sending(c, 2)
  <1> DEFINE X == Sending(c, 2)
             n == conf.degree
             h == [y \in X \X (1 .. n) |-> SendMulti(y[1])]
             at == CHOOSE at : at = [i \in 0 .. n |-> IF i = 0 THEN x ELSE SendMulti(at[i - 1])]
  <1>1. Keeps(h, X, 1 .. n) /\ \A y \in X, k \in 1 .. n : h[<<y, k>>] = SendMulti(y)
    <2>1. \A y \in X : SendMulti(y) \in X
      BY MultiStays
    <2> HIDE DEF X, n
    <2> QED BY <2>1 DEF Keeps
  <1>2. n \in Nat /\ x \in X
    BY Thresholds
  <1>3. Sends(SendMulti, x) = at[n]
    BY DEF Sends
  <1> HIDE DEF h, X, n
  <1>4. PICK f \in [0 .. n -> X] : Iterated(f, n, x, h)
    BY <1>1, <1>2, Iterates
  <1>5. f = [i \in 0 .. n |-> IF i = 0 THEN x ELSE SendMulti(f[i - 1])]
    <2>1. f = [i \in 0 .. n |-> f[i]]
      OBVIOUS
    <2>2. ASSUME NEW i \in 0 .. n PROVE f[i] = IF i = 0 THEN x ELSE SendMulti(f[i - 1])
      <3>1. CASE i = 0
        BY <1>4, <3>1 DEF Iterated
      <3>2. CASE i # 0
        <4>1. i \in 1 .. n /\ i - 1 \in 0 .. n
          BY <1>2, <3>2
        <4>2. f[i - 1] \in X /\ f[i] = h[<<f[i - 1], i>>]
          BY <1>4, <4>1 DEF Iterated
        <4> QED BY <1>1, <3>2, <4>1, <4>2
      <3> QED BY <3>1, <3>2
    <2> QED BY <2>1, <2>2
  <1>6. at = [i \in 0 .. n |-> IF i = 0 THEN x ELSE SendMulti(at[i - 1])]
    BY <1>5
  <1> HIDE DEF at
  <1> DEFINE T == {k \in 0 .. n : at[k] \in X}
  <1>7. 0 \in T /\ \A k \in 1 .. n : k - 1 \in T => k \in T
    <2>1. at[0] = x
      BY <1>2, <1>6
    <2>2. ASSUME NEW k \in 1 .. n, at[k - 1] \in X PROVE at[k] \in X
      <3>1. at[k] = SendMulti(at[k - 1])
        BY <1>2, <1>6
      <3> QED BY <2>2, <3>1, MultiStays DEF X
    <2> QED BY <1>2, <2>1, <2>2
  <1>8. 0 .. n \subseteq T
    <2> HIDE DEF T
    <2> QED BY <1>2, <1>7, UpTo
  <1>9. at[n] \in X
    BY <1>2, <1>8
  <1> QED BY <1>3, <1>9 DEF X
--------------------------------------------------------------------------------
\* A read that follows the stream of a trained entry moves on along its pattern.
LEMMA FollowsOn ==
    ASSUME NEW e \in IndexEntry, NEW d \in IndexEntry, Follows(e, d.last - e.last),
           d.cnt = e.cnt, d.stride = e.stride, d.trans = e.trans,
           d.plast = e.plast, d.pcount = e.pcount, d.pcur = e.pcur,
           d.count = IF e.count = e.cnt[e.cur] THEN 0 ELSE e.count + 1,
           d.cur = IF e.count = e.cnt[e.cur] THEN 1 - e.cur ELSE e.cur
    PROVE  /\ \A k \in Nat \ {0} : Leads(e, k) => Leads(d, k - 1)
           /\ Leads(e, 0) => Lags(d, 1)
           /\ \A k \in Nat : Lags(e, k) => Lags(d, k + 1)
  <1> DEFINE D == Demand(e)
             E == Demand(d)
  <1>1. /\ D \in IndexEntry /\ E \in IndexEntry /\ Stands(e, D) /\ Stands(d, E)
        /\ D.plast = e.last /\ D.pcount = e.count /\ D.pcur = e.cur
        /\ E.plast = d.last /\ E.pcount = d.count /\ E.pcur = d.cur
    BY DemandIs
  <1> HIDE DEF D, E
  <1>2. Advanced(D) \in IndexEntry /\ Meets(Advanced(D), E)
    <2>1. /\ e.cur \in Bits /\ e.cnt \in [Bits -> Nat] /\ e.stride \in [Bits -> Int] /\ e.trans \in [Bits -> Int]
          /\ e.last \in Int /\ d.last \in Int /\ e.count \in Nat
      BY IndexFields
    <2>2. Transition(D) <=> e.count = e.cnt[e.cur]
      BY <1>1 DEF Transition, Stands
    <2>3. PrefIndex(D) = d.last
      <3>1. PrefIndex(D) = e.last + (IF e.count = e.cnt[e.cur] THEN e.trans ELSE e.stride)[e.cur]
        BY <1>1, <2>2 DEF PrefIndex, Stands
      <3>2. CASE e.count = e.cnt[e.cur]
        <4>1. d.last - e.last = e.trans[e.cur] /\ e.trans[e.cur] \in Int
          BY <2>1, <3>2 DEF Follows
        <4> QED BY <2>1, <3>1, <3>2, <4>1
      <3>3. CASE e.count # e.cnt[e.cur]
        <4>1. d.last - e.last = e.stride[e.cur] /\ e.stride[e.cur] \in Int
          BY <2>1, <3>3 DEF Follows
        <4> QED BY <2>1, <3>1, <3>3, <4>1
      <3> QED BY <3>2, <3>3
    <2> QED BY <1>1, <2>2, <2>3, OneStep DEF Meets, Stands
  <1>3. Meets(e, d) /\ Meets(d, e) /\ Advanced(e) \in IndexEntry /\ Meets(Advanced(e), Advanced(d))
    BY OneStep, StepsMeet DEF Meets
  <1>4. ASSUME NEW k \in Nat \ {0}, Leads(e, k) PROVE Leads(d, k - 1)
    <2> DEFINE m == k - 1
    <2>1. m \in Nat /\ m + 1 = k
      OBVIOUS
    <2>2. Onward(D, k) = Onward(Advanced(D), m)
      BY <1>1, <2>1, OnwardSteps
    <2>3. Meets(Onward(Advanced(D), m), Onward(E, m))
      BY <1>1, <1>2, <2>1, OnwardMeets
    <2>4. Meets(Onward(D, k), e)
      BY <1>4 DEF Leads, D
    <2>5. Meets(Onward(E, m), d)
      BY <1>3, <2>2, <2>3, <2>4 DEF Meets
    <2> QED BY <2>1, <2>5 DEF Leads, E
  <1>5. ASSUME Leads(e, 0) PROVE Lags(d, 1)
    <2>1. Meets(D, e) /\ Onward(d, 1) = Advanced(d)
      <3>1. Onward(D, 0) = D
        BY <1>1, OnwardSteps
      <3>2. Onward(d, 0) = d /\ Onward(d, 0 + 1) = Advanced(Onward(d, 0))
        BY OnwardSteps
      <3> QED BY <1>5, <3>1, <3>2 DEF Leads, D
    <2>2. Meets(Advanced(D), Advanced(e))
      BY <1>1, <2>1, StepsMeet
    <2>3. Meets(Onward(d, 1), E)
      BY <1>2, <1>3, <2>1, <2>2 DEF Meets
    <2> QED BY <2>3 DEF Lags, E
  <1>6. ASSUME NEW k \in Nat, Lags(e, k) PROVE Lags(d, k + 1)
    <2>1. Meets(Onward(e, k), D) /\ Onward(e, k) \in IndexEntry /\ Onward(d, k) \in IndexEntry
      BY <1>6, OnwardSteps DEF Lags, D
    <2>2. Meets(Onward(e, k), Onward(d, k))
      BY <1>3, OnwardMeets
    <2>3. Meets(Onward(d, k), D)
      BY <2>1, <2>2 DEF Meets
    <2>4. Onward(d, k + 1) = Advanced(Onward(d, k)) /\ Meets(Advanced(Onward(d, k)), Advanced(D))
      BY <1>1, <2>1, <2>3, OnwardSteps, StepsMeet
    <2>5. Meets(Onward(d, k + 1), E)
      BY <1>2, <2>4 DEF Meets
    <2> QED BY <2>5 DEF Lags, E
  <1> QED BY <1>4, <1>5, <1>6

--------------------------------------------------------------------------------
\* All that a read does to a trained entry.
LEMMA TrainedRight ==
    ASSUME setting \in DOMAIN Configs, NEW c \in Nat, NEW a, EntryRight(a, c), a.trained,
           NEW line \in Int, NEW q \in PrefQueue
    PROVE  LET x == Trained([a EXCEPT !.last = line], line - a.last, q)
           IN EntryRight(x.e, c + 1) /\ x.s \in PrefQueue
  <1> DEFINE s == line - a.last
             b == [a EXCEPT !.last = line]
             u == IF b.sent > 0 THEN b.sent - 1 ELSE b.sent
             e == [b EXCEPT !.sent = u]
             full == e.count = e.cnt[e.cur]
             n == IF full THEN 0 ELSE e.count + 1
             w == IF full THEN 1 - e.cur ELSE e.cur
             d == [e EXCEPT !.count = n, !.cur = w]
             x == Trained(b, s, q)
  <1>1. /\ a \in IndexEntry /\ a.sent <= conf.distance /\ OnStream(a, c) /\ a.trained /\ a.states \in 1 .. 2
        /\ a.cur \in Bits /\ a.stride \in [Bits -> Int] /\ a.cnt \in [Bits -> Nat] /\ a.trans \in [Bits -> Int]
        /\ a.sent \in Nat /\ a.last \in Int /\ a.count \in Nat /\ a.plast \in Int
        /\ conf.distance \in Nat /\ conf.startDistance \in Nat
    BY IndexFields, Thresholds DEF EntryRight
  <1>2. /\ b \in IndexEntry /\ b.last = line /\ b.sent = a.sent /\ b.count = a.count /\ b.cur = a.cur /\ b.cnt = a.cnt
        /\ b.stride = a.stride /\ b.trans = a.trans /\ b.states = a.states /\ b.trained = a.trained
        /\ b.plast = a.plast /\ b.pcount = a.pcount /\ b.pcur = a.pcur
    BY <1>1 DEF IndexEntry
  <1>3. u \in Nat /\ u <= a.sent /\ a.sent - 1 <= u
    BY <1>1, <1>2
  <1>4. x = IF e.states = 1 /\ s = e.stride[0] THEN Sends(SendSingle, [e |-> e, s |-> q])
            ELSE IF Follows(e, s) THEN Sends(SendMulti, [e |-> d, s |-> q])
            ELSE [e |-> Forgotten(e), s |-> q]
    <2>1. e = [b EXCEPT !.sent = IF @ > 0 THEN @ - 1 ELSE @]
      BY <1>2 DEF IndexEntry
    <2>2. d = IF full THEN [e EXCEPT !.count = 0, !.cur = 1 - @] ELSE [e EXCEPT !.count = @ + 1]
      <3> HIDE DEF b, u
      <3>1. e \in IndexEntry
        BY <1>2, <1>3 DEF IndexEntry
      <3> HIDE DEF e
      <3>2. CASE full
        BY <3>1, <3>2 DEF IndexEntry
      <3>3. CASE ~full
        BY <3>1, <3>3 DEF IndexEntry
      <3> QED BY <3>2, <3>3
    <2> HIDE DEF b, d, e
    <2> QED BY <2>1, <2>2 DEF Trained
  <1> HIDE DEF b, u
  <1>5. /\ e \in IndexEntry /\ e.last = line /\ e.sent = u /\ e.count = a.count /\ e.cur = a.cur /\ e.cnt = a.cnt
        /\ e.stride = a.stride /\ e.trans = a.trans /\ e.states = a.states /\ e.trained
        /\ e.plast = a.plast /\ e.pcount = a.pcount /\ e.pcur = a.pcur
    <2>1. e \in IndexEntry
      BY <1>2, <1>3 DEF IndexEntry
    <2>2. /\ e.last = b.last /\ e.sent = u /\ e.count = b.count /\ e.cur = b.cur /\ e.cnt = b.cnt
          /\ e.stride = b.stride /\ e.trans = b.trans /\ e.states = b.states /\ e.trained = b.trained
          /\ e.plast = b.plast /\ e.pcount = b.pcount /\ e.pcur = b.pcur
      BY <1>2 DEF IndexEntry
    <2> QED BY <1>1, <1>2, <2>1, <2>2
  <1> HIDE DEF e, x
  <1>6. CASE e.states = 1 /\ s = e.stride[0]
    <2>1. PICK k \in -c .. conf.startDistance + a.sent : a.plast = a.last + k * a.stride[0]
      BY <1>1, <1>5, <1>6 DEF OnStream, OneStride
    <2>2. k - 1 \in -(c + 1) .. conf.startDistance + e.sent
      BY <1>1, <1>3, <1>5
    <2>3. e.plast = e.last + (k - 1) * e.stride[0]
      <3> DEFINE m == a.stride[0]
      <3>1. m \in Int /\ k \in Int
        BY <1>1 DEF Bits
      <3>2. (k - 1) * m = k * m - m /\ k * m \in Int
        <4> HIDE DEF m
        <4> QED BY <3>1
      <3> QED BY <1>1, <1>5, <1>6, <2>1, <3>1, <3>2
    <2>4. OneStride(e, c + 1)
      BY <1>1, <1>5, <1>6, <2>2, <2>3 DEF OnStream, OneStride
    <2>5. EntryRight(e, c + 1) /\ e.trained
      BY <1>1, <1>3, <1>5, <1>6, <2>4 DEF EntryRight, OnStream
    <2>6. [e |-> e, s |-> q] \in Sending(c + 1, 1)
      BY <1>5, <1>6, <2>5 DEF Sending
    <2>7. x \in Sending(c + 1, 1)
      <3>1. c + 1 \in Nat /\ x = Sends(SendSingle, [e |-> e, s |-> q])
        BY <1>4, <1>6
      <3> QED BY <2>6, <3>1, SingleSends
    <2> QED BY <2>7 DEF Sending, x, b
  <1>7. CASE ~(e.states = 1 /\ s = e.stride[0]) /\ Follows(e, s)
    <2>1. e.states = 2
      <3>1. ASSUME e.states = 1 PROVE FALSE
        <4>1. e.cur = 0 /\ e.count = 0 /\ e.cnt[0] > 0
          BY <1>1, <1>5, <3>1 DEF OnStream, OneStride
        <4>2. ~(e.count = e.cnt[e.cur])
          BY <4>1
        <4> QED BY <1>7, <3>1, <4>1, <4>2 DEF Follows
      <3> QED BY <1>1, <1>5, <3>1
    <2>2. n \in Nat /\ w \in Bits
      BY <1>1, <1>5 DEF Bits
    <2>3. /\ d \in IndexEntry /\ d.last = line /\ d.sent = u /\ d.count = n /\ d.cur = w /\ d.cnt = a.cnt
          /\ d.stride = a.stride /\ d.trans = a.trans /\ d.states = 2 /\ d.trained
          /\ d.plast = a.plast /\ d.pcount = a.pcount /\ d.pcur = a.pcur
      <3> HIDE DEF n, w
      <3>1. d \in IndexEntry
        BY <1>5, <2>2 DEF IndexEntry
      <3>2. /\ d.last = e.last /\ d.sent = e.sent /\ d.count = n /\ d.cur = w /\ d.cnt = e.cnt
            /\ d.stride = e.stride /\ d.trans = e.trans /\ d.states = e.states /\ d.trained = e.trained
            /\ d.plast = e.plast /\ d.pcount = e.pcount /\ d.pcur = e.pcur
        BY <1>5 DEF IndexEntry
      <3> QED BY <1>5, <2>1, <3>1, <3>2
    <2> HIDE DEF d
    <2>4. /\ \A k \in Nat \ {0} : Leads(a, k) => Leads(d, k - 1)
          /\ Leads(a, 0) => Lags(d, 1)
          /\ \A k \in Nat : Lags(a, k) => Lags(d, k + 1)
      <3>1. Follows(a, d.last - a.last)
        BY <1>5, <1>7, <2>3 DEF Follows
      <3>2. d.count = (IF a.count = a.cnt[a.cur] THEN 0 ELSE a.count + 1)
        BY <1>5, <2>3
      <3>3. d.cur = (IF a.count = a.cnt[a.cur] THEN 1 - a.cur ELSE a.cur)
        BY <1>5, <2>3
      <3> HIDE DEF n, w
      <3> QED BY <1>1, <2>3, <3>1, <3>2, <3>3, FollowsOn
    <2>5. TwoStrides(d, c + 1)
      <3>1. TwoStrides(a, c)
        BY <1>1, <1>5, <2>1 DEF OnStream
      <3>2. CASE \E k \in 0 .. conf.startDistance + a.sent : Leads(a, k)
        <4>1. PICK k \in 0 .. conf.startDistance + a.sent : Leads(a, k)
          BY <3>2
        <4>2. CASE k = 0
          <5>1. 1 \in 1 .. c + 1
            OBVIOUS
          <5> QED BY <2>4, <4>1, <4>2, <5>1 DEF TwoStrides
        <4>3. CASE k # 0
          <5>1. k \in Nat \ {0} /\ k - 1 \in 0 .. conf.startDistance + d.sent
            BY <1>1, <1>3, <2>3, <4>3
          <5> QED BY <2>4, <4>1, <5>1 DEF TwoStrides
        <4> QED BY <4>2, <4>3
      <3>3. CASE \E k \in 1 .. c : Lags(a, k)
        <4>1. PICK k \in 1 .. c : Lags(a, k)
          BY <3>3
        <4>2. k \in Nat /\ k + 1 \in 1 .. c + 1
          OBVIOUS
        <4> QED BY <2>4, <4>1, <4>2 DEF TwoStrides
      <3> QED BY <3>1, <3>2, <3>3 DEF TwoStrides
    <2>6. EntryRight(d, c + 1) /\ d.trained /\ d.states = 2
      <3>1. d.sent <= conf.distance
        BY <1>1, <1>3, <2>3
      <3> QED BY <2>3, <2>5, <3>1 DEF EntryRight, OnStream
    <2>7. [e |-> d, s |-> q] \in Sending(c + 1, 2)
      BY <2>3, <2>6 DEF Sending
    <2>8. x \in Sending(c + 1, 2)
      <3>1. c + 1 \in Nat /\ x = Sends(SendMulti, [e |-> d, s |-> q])
        BY <1>4, <1>7
      <3> QED BY <2>7, <3>1, MultiSends
    <2> QED BY <2>8 DEF Sending, x, b
  <1>8. CASE ~(e.states = 1 /\ s = e.stride[0]) /\ ~Follows(e, s)
    <2>1. x = [e |-> Forgotten(e), s |-> q]
      BY <1>4, <1>8
    <2>2. Forgotten(e) \in IndexEntry /\ ~Forgotten(e).trained /\ Training(Forgotten(e))
      <3>1. e.last \in Int /\ e.plast \in Int
        BY <1>5, IndexFields
      <3> QED BY <1>5, <3>1, NewEntry DEF Forgotten
    <2> QED BY <2>1, <2>2 DEF EntryRight, x, b
  <1> QED BY <1>6, <1>7, <1>8

\* Later in the run an entry that is not touched is as right as before.
LEMMA StillRight ==
    ASSUME setting \in DOMAIN Configs, NEW c \in Nat, NEW e, EntryRight(e, c)
    PROVE  EntryRight(e, c + 1)
  <1>1. -c .. conf.startDistance + e.sent \subseteq -(c + 1) .. conf.startDistance + e.sent /\ 1 .. c \subseteq 1 .. c + 1
    OBVIOUS
  <1>2. OneStride(e, c) => OneStride(e, c + 1)
    BY <1>1 DEF OneStride
  <1>3. TwoStrides(e, c) => TwoStrides(e, c + 1)
    BY <1>1 DEF TwoStrides
  <1> QED BY <1>2, <1>3 DEF EntryRight, OnStream

--------------------------------------------------------------------------------
\* The row that is found, or replaced.
LEMMA RowFound ==
    ASSUME NEW T, T \subseteq Nat, T # {}
    PROVE  Min(T) \in T
  <1>1. \E x \in T : \A y \in T : x <= y
    BY Least
  <1> QED BY <1>1 DEF Min

\* There is always a row to replace.
LEMMA RowReplaced ==
    ASSUME PrefTyped
    PROVE  Replaced \in TableRows
  <1>1. TableRows \subseteq Nat /\ TableRows # {} /\ cycle \in Nat /\ \A i \in TableRows : regions[i].last \in 0 .. cycle
    <2>1. conf.tableSize \in Nat \ {0}
      BY Thresholds DEF PrefTyped
    <2> QED BY <2>1 DEF PrefTyped, TableRows
  <1> DEFINE free == {i \in TableRows : ~regions[i].valid}
             newest == {i \in TableRows : \A j \in TableRows : regions[j].last <= regions[i].last}
             ages == {cycle - regions[i].last : i \in TableRows}
  <1>2. newest # {}
    <2>1. ages \subseteq Nat /\ ages # {}
      <3>1. ASSUME NEW i \in TableRows PROVE cycle - regions[i].last \in Nat
        <4> DEFINE l == regions[i].last
        <4>1. l \in 0 .. cycle
          BY <1>1
        <4> HIDE DEF l
        <4>2. cycle - l \in Nat
          BY <1>1, <4>1
        <4> QED BY <4>2 DEF l
      <3> QED BY <1>1, <3>1
    <2>2. PICK m \in ages : \A y \in ages : m <= y
      <3> HIDE DEF ages
      <3> QED BY <2>1, Least
    <2>3. PICK i \in TableRows : m = cycle - regions[i].last
      OBVIOUS
    <2>4. ASSUME NEW j \in TableRows PROVE regions[j].last <= regions[i].last
      <3>1. m <= cycle - regions[j].last
        BY <2>2
      <3> QED BY <1>1, <2>3, <3>1
    <2> QED BY <2>3, <2>4
  <1>3. free \subseteq Nat /\ newest \subseteq Nat /\ free \subseteq TableRows /\ newest \subseteq TableRows
    BY <1>1
  <1>4. Replaced = IF free # {} THEN Min(free) ELSE Min(newest)
    BY DEF Replaced
  <1> HIDE DEF free, newest
  <1> QED BY <1>2, <1>3, <1>4, RowFound

\* A read trains the entry of its region.
LEMMA TrainKeeps ==
    ASSUME PrefInv, NEW line \in Nat, NEW q \in PrefQueue, train(line, q), cycle' = cycle + 1, setting' = setting
    PROVE  /\ regions' \in [TableRows -> [valid : BOOLEAN, tag : Int, last : 0 .. cycle']]
           /\ index' \in [TableRows -> IndexEntry] /\ \A i \in TableRows : EntryRight(index'[i], cycle')
           /\ \E s \in PrefQueue : queue' = s.queue /\ reqPos' = s.req /\ tracked' = s.tracked
  <1>1. /\ setting \in DOMAIN Configs /\ cycle \in Nat /\ index \in [TableRows -> IndexEntry]
        /\ regions \in [TableRows -> [valid : BOOLEAN, tag : Int, last : 0 .. cycle]]
        /\ \A i \in TableRows : EntryRight(index[i], cycle)
        /\ TableRows \subseteq Nat /\ conf.regionSize \in Nat \ {0}
    <2>1. setting \in DOMAIN Configs
      BY DEF PrefInv, PrefTyped
    <2>2. conf.tableSize \in Nat \ {0} /\ conf.regionSize \in Nat \ {0}
      BY <2>1, Thresholds
    <2> QED BY <2>1, <2>2 DEF PrefInv, PrefTyped, TableRows
  <1> DEFINE hit == {j \in TableRows : regions[j].valid /\ regions[j].tag = Region(line)}
             i == IF hit = {} THEN Replaced ELSE Min(hit)
             s == line - index[i].last
             e == [index[i] EXCEPT !.last = line]
             x == IF hit = {} THEN [e |-> create_newentry(e, line), s |-> q]
                  ELSE IF e.trained THEN Trained(e, s, q)
                  ELSE [e |-> Untrained(e, s, line), s |-> q]
             c == cycle + 1
  <1>2. /\ regions' = [regions EXCEPT ![i] = [valid |-> TRUE, tag |-> Region(line), last |-> c]]
        /\ index' = [index EXCEPT ![i] = x.e]
        /\ queue' = x.s.queue /\ reqPos' = x.s.req /\ tracked' = x.s.tracked
    BY DEF train
  <1>3. i \in TableRows
    <2>1. hit # {} => Min(hit) \in hit
      <3>1. hit \subseteq Nat
        BY <1>1
      <3> HIDE DEF hit
      <3> QED BY <3>1, RowFound
    <2> QED BY <2>1, RowReplaced DEF PrefInv
  <1>4. index[i] \in IndexEntry /\ EntryRight(index[i], cycle) /\ line \in Int
    <2> HIDE DEF i
    <2> QED BY <1>1, <1>3
  <1>5. EntryRight(x.e, c) /\ x.s \in PrefQueue
    <2> DEFINE a == index[i]
    <2>1. a \in IndexEntry /\ EntryRight(a, cycle) /\ a.last \in Int /\ c \in Nat
      BY <1>1, <1>4, IndexFields
    <2>2. e = [a EXCEPT !.last = line] /\ s = line - a.last
      OBVIOUS
    <2> HIDE DEF hit, i, e, s, a
    <2>3. /\ e \in IndexEntry /\ e.trained = a.trained /\ s \in Int
          /\ (Training(e) <=> Training(a))
      <3>1. e \in IndexEntry
        BY <1>4, <2>1, <2>2 DEF IndexEntry
      <3>2. /\ e.trained = a.trained /\ e.sent = a.sent /\ e.cur = a.cur /\ e.cnt = a.cnt /\ e.stride = a.stride
            /\ e.checking = a.checking /\ e.states = a.states /\ e.count = a.count /\ e.recnt = a.recnt
        BY <2>1, <2>2 DEF IndexEntry
      <3> QED BY <1>4, <2>1, <2>2, <3>1, <3>2 DEF Training
    <2>4. CASE hit = {}
      <3>1. create_newentry(e, line) \in IndexEntry /\ ~create_newentry(e, line).trained /\ Training(create_newentry(e, line))
        BY <1>1, <1>4, <2>3, NewEntry
      <3>2. x = [e |-> create_newentry(e, line), s |-> q]
        BY <2>4
      <3> HIDE DEF x
      <3> QED BY <3>1, <3>2 DEF EntryRight
    <2>5. CASE hit # {} /\ e.trained
      <3>1. x = Trained([a EXCEPT !.last = line], line - a.last, q)
        BY <2>2, <2>5
      <3> HIDE DEF x
      <3> QED BY <1>1, <1>4, <2>1, <2>3, <2>5, <3>1, TrainedRight
    <2>6. CASE hit # {} /\ ~e.trained
      <3>1. Training(e)
        BY <2>1, <2>3, <2>6 DEF EntryRight
      <3>2. EntryRight(Untrained(e, s, line), c)
        <4> HIDE DEF c
        <4> QED BY <1>1, <1>4, <2>1, <2>3, <2>6, <3>1, UntrainedRight
      <3>3. x = [e |-> Untrained(e, s, line), s |-> q]
        BY <2>6
      <3> HIDE DEF x
      <3> QED BY <3>2, <3>3
    <2> QED BY <2>4, <2>5, <2>6
  <1>6. c \in 0 .. c /\ 0 .. cycle \subseteq 0 .. c /\ Region(line) \in Int /\ cycle' = c /\ c = cycle + 1
    BY <1>1 DEF Region
  <1> HIDE DEF hit, i, e, s, x, c
  <1>7. x.e \in IndexEntry
    BY <1>5 DEF EntryRight
  <1>8. index' \in [TableRows -> IndexEntry] /\ \A j \in TableRows : EntryRight(index'[j], cycle')
    <2>1. \A j \in TableRows : EntryRight(index[j], c)
      BY <1>1, <1>6, StillRight
    <2> QED BY <1>1, <1>2, <1>3, <1>5, <1>6, <1>7, <2>1
  <1>9. regions' \in [TableRows -> [valid : BOOLEAN, tag : Int, last : 0 .. cycle']]
    <2>1. [valid |-> TRUE, tag |-> Region(line), last |-> c] \in [valid : BOOLEAN, tag : Int, last : 0 .. c]
      BY <1>6
    <2>2. regions \in [TableRows -> [valid : BOOLEAN, tag : Int, last : 0 .. c]]
      BY <1>1, <1>6
    <2> QED BY <1>2, <1>3, <1>6, <2>1, <2>2
  <1> QED BY <1>2, <1>5, <1>8, <1>9

\* Every step.
LEMMA PrefInvInit == PrefInit => PrefInv
  <1> SUFFICES ASSUME PrefInit PROVE PrefInv
    OBVIOUS
  <1> USE DEF PrefInit
  <1>1. setting \in DOMAIN Configs
    OBVIOUS
  <1>2. /\ prog \in Seq(Seq(Nat)) /\ conf.queueSize \in Nat \ {0} /\ conf.singleThresh \in Nat \ {0}
    BY <1>1, Thresholds
  <1> DEFINE e == NoEntry
  <1>3. /\ e \in IndexEntry /\ ~e.trained /\ ~e.checking /\ e.sent = 0 /\ e.cur = 0 /\ e.count = 0 /\ e.recnt = 0
        /\ e.cnt = Both(0) /\ e.stride = Both(0)
    <2>1. Both(0) \in [Bits -> Nat] /\ Both(0) \in [Bits -> Int] /\ 0 \in Bits
      BY DEF Both, Bits
    <2> QED BY <2>1 DEF NoEntry, IndexEntry
  <1>4. Training(e)
    <2>1. \A j \in Bits : Both(0)[j] = 0
      BY DEF Both, Bits
    <2> HIDE DEF e
    <2> QED BY <1>2, <1>3, <2>1 DEF Training
  <1> HIDE DEF e
  <1>5. \A i \in TableRows : EntryRight(index[i], cycle)
    BY <1>3, <1>4 DEF EntryRight, e
  <1>6. L2Queue \in PrefQueue /\ sendPos \in Slots
    <2>1. queue \in [Slots -> PrefRequest]
      BY DEF NoRequest, PrefRequest
    <2> QED BY <1>2, <2>1 DEF L2Queue, PrefQueue, Slots
  <1>7. regions \in [TableRows -> [valid : BOOLEAN, tag : Int, last : 0 .. cycle]]
    BY DEF NoRow
  <1>8. index \in [TableRows -> IndexEntry]
    BY <1>3 DEF e
  <1> QED BY <1>1, <1>2, <1>5, <1>6, <1>7, <1>8 DEF PrefInv, PrefTyped

\* A read that trains, or that KNOB_PREF_TRAIN_INST_ONCE leaves out.
LEMMA ReadKeeps ==
    ASSUME PrefInv, NEW t \in DOMAIN prog, Read(t), NEW q \in PrefQueue, TrainOnce(Line(t), q)
    PROVE  PrefInv'
  <1>1. /\ setting' = setting /\ prog' = prog /\ sendPos' = sendPos /\ cycle' = cycle + 1
        /\ pos' = [pos EXCEPT ![t] = @ + 1] /\ pos[t] < Len(prog[t])
    BY DEF Read
  <1>2. PrefTyped
    BY DEF PrefInv
  <1>3. Line(t) \in Nat /\ pos[t] \in Nat
    <2>1. prog[t] \in Seq(Nat) /\ pos[t] \in Nat
      BY <1>2 DEF PrefTyped
    <2>2. pos[t] + 1 \in 1 .. Len(prog[t])
      BY <1>1, <2>1
    <2> QED BY <2>1, <2>2 DEF Line
  <1>4. pos' \in [DOMAIN prog -> Nat] /\ cycle' \in Nat
    BY <1>1, <1>2, <1>3 DEF PrefTyped
  <1>5. conf' = conf /\ Slots' = Slots /\ TableRows' = TableRows
    BY <1>1 DEF conf, Slots, TableRows
  <1>6. /\ regions' \in [TableRows -> [valid : BOOLEAN, tag : Int, last : 0 .. cycle']]
        /\ index' \in [TableRows -> IndexEntry] /\ \A i \in TableRows : EntryRight(index'[i], cycle')
        /\ \E s \in PrefQueue : queue' = s.queue /\ reqPos' = s.req /\ tracked' = s.tracked
    <2>1. CASE train(Line(t), q)
      <3> DEFINE line == Line(t)
      <3> HIDE DEF line
      <3> QED BY <1>1, <1>3, <2>1, TrainKeeps DEF line
    <2>2. CASE tracked' = q.tracked /\ UNCHANGED <<regions, index, queue, reqPos>>
      <3>1. regions' \in [TableRows -> [valid : BOOLEAN, tag : Int, last : 0 .. cycle']]
        <4>1. 0 .. cycle \subseteq 0 .. cycle'
          BY <1>1, <1>2 DEF PrefTyped
        <4> QED BY <1>2, <2>2, <4>1 DEF PrefTyped
      <3>2. index' \in [TableRows -> IndexEntry] /\ \A i \in TableRows : EntryRight(index'[i], cycle')
        BY <1>1, <2>2, StillRight DEF PrefInv, PrefTyped
      <3>3. \E s \in PrefQueue : queue' = s.queue /\ reqPos' = s.req /\ tracked' = s.tracked
        <4> DEFINE s == [queue |-> queue, req |-> reqPos, tracked |-> q.tracked, ok |-> TRUE]
        <4>1. s \in PrefQueue
          BY <1>2 DEF PrefTyped, L2Queue, PrefQueue
        <4> QED BY <2>2, <4>1
      <3> QED BY <3>1, <3>2, <3>3
    <2> QED BY <2>1, <2>2 DEF TrainOnce
  <1>7. L2Queue' \in PrefQueue
    BY <1>6 DEF L2Queue, PrefQueue
  <1>8. ASSUME NEW i \in TableRows PROVE EntryRight(index[i], cycle)'
    BY <1>5, <1>6 DEF EntryRight, OnStream, OneStride, TwoStrides, Training
  <1>9. L2Queue' \in PrefQueue'
    BY <1>5, <1>7 DEF PrefQueue
  <1>10. PrefTyped'
    BY <1>1, <1>2, <1>4, <1>5, <1>6, <1>9 DEF PrefTyped
  <1> QED BY <1>5, <1>8, <1>10 DEF PrefInv

\* The other steps leave the entries alone.
LEMMA SameEntries ==
    ASSUME PrefInv, UNCHANGED <<setting, prog, regions, index>>,
           \/ cycle' = cycle
           \/ cycle' = cycle + 1,
           pos' \in [DOMAIN prog -> Nat], L2Queue' \in PrefQueue, sendPos' \in Slots
    PROVE  PrefInv'
  <1>1. conf' = conf /\ Slots' = Slots /\ TableRows' = TableRows /\ PrefTyped /\ setting \in DOMAIN Configs /\ cycle \in Nat
    BY DEF conf, Slots, TableRows, PrefInv, PrefTyped
  <1>2. ASSUME NEW i \in TableRows PROVE EntryRight(index[i], cycle)'
    <2>1. EntryRight(index[i], cycle')
      BY <1>1, StillRight DEF PrefInv
    <2> QED BY <1>1, <2>1 DEF EntryRight, OnStream, OneStride, TwoStrides, Training
  <1>3. L2Queue' \in PrefQueue'
    BY <1>1 DEF PrefQueue
  <1>4. regions' \in [TableRows' -> [valid : BOOLEAN, tag : Int, last : 0 .. cycle']] /\ cycle' \in Nat
    <2>1. 0 .. cycle \subseteq 0 .. cycle' /\ cycle' \in Nat
      BY <1>1
    <2> QED BY <1>1, <2>1 DEF PrefTyped
  <1>5. PrefTyped'
    BY <1>1, <1>3, <1>4 DEF PrefTyped
  <1> QED BY <1>1, <1>2, <1>5 DEF PrefInv

\* Every step keeps the invariant.
LEMMA PrefInvNext == PrefInv /\ [PrefNext]_prefVars => PrefInv'
  <1> SUFFICES ASSUME PrefInv, [PrefNext]_prefVars PROVE PrefInv'
    OBVIOUS
  <1>1. PrefTyped /\ setting \in DOMAIN Configs /\ pos \in [DOMAIN prog -> Nat] /\ L2Queue \in PrefQueue /\ sendPos \in Slots
    BY DEF PrefInv, PrefTyped
  <1>2. conf.regionSize \in Nat \ {0} /\ conf.queueSize \in Nat \ {0}
    BY <1>1, Thresholds
  <1>3. ASSUME NEW t \in DOMAIN prog, Read(t)
        PROVE  /\ Tracked(tracked, Line(t)) \in SUBSET Int
               /\ [L2Queue EXCEPT !.tracked = Tracked(tracked, Line(t))] \in PrefQueue
    <2>1. Line(t) \in Nat
      <3>1. prog[t] \in Seq(Nat) /\ pos[t] \in Nat
        BY <1>1 DEF PrefTyped
      <3>2. pos[t] < Len(prog[t])
        BY <1>3 DEF Read
      <3>3. pos[t] + 1 \in 1 .. Len(prog[t])
        BY <3>1, <3>2
      <3> QED BY <3>1, <3>3 DEF Line
    <2>2. Region(Line(t)) \in Int
      BY <1>2, <2>1 DEF Region
    <2>3. tracked \in SUBSET Int
      BY <1>1 DEF L2Queue, PrefQueue
    <2>4. Tracked(tracked, Line(t)) \in SUBSET Int
      BY <2>2, <2>3 DEF Tracked
    <2> DEFINE rs == Tracked(tracked, Line(t))
    <2> HIDE DEF rs
    <2>5. rs \in SUBSET Int
      BY <2>4 DEF rs
    <2>6. [L2Queue EXCEPT !.tracked = rs] \in PrefQueue
      BY <1>1, <2>5 DEF PrefQueue
    <2> QED BY <2>4, <2>6 DEF rs
  <1>4. CASE pref_l1
    BY <1>1, <1>4, ReadKeeps DEF pref_l1
  <1>5. CASE pref_l2_miss
    <2>1. PICK t \in DOMAIN prog : Read(t) /\ TrainOnce(Line(t), [L2Queue EXCEPT !.tracked = Tracked(tracked, Line(t))])
      BY <1>5 DEF pref_l2_miss
    <2> DEFINE q == [L2Queue EXCEPT !.tracked = Tracked(tracked, Line(t))]
    <2>2. q \in PrefQueue
      BY <1>3, <2>1
    <2> HIDE DEF q
    <2> QED BY <2>1, <2>2, ReadKeeps DEF q
  <1>6. CASE pref_l2_hit
    <2>1. PICK t \in DOMAIN prog : /\ Read(t) /\ tracked' = Tracked(tracked, Line(t))
                                   /\ UNCHANGED <<regions, index, queue, reqPos>>
      BY <1>6 DEF pref_l2_hit
    <2>2. tracked' \in SUBSET Int
      BY <1>3, <2>1
    <2>3. L2Queue' \in PrefQueue
      BY <1>1, <2>1, <2>2 DEF L2Queue, PrefQueue
    <2>4. UNCHANGED <<setting, prog, sendPos>> /\ cycle' = cycle + 1 /\ pos' \in [DOMAIN prog -> Nat]
      BY <1>1, <2>1 DEF Read
    <2> QED BY <1>1, <2>1, <2>3, <2>4, SameEntries
  <1>7. CASE pref_update_queues \/ Stall \/ UNCHANGED prefVars
    <2>1. UNCHANGED <<setting, prog, pos, cycle, regions, index, tracked, queue, reqPos, sendPos>>
      BY <1>7 DEF pref_update_queues, Stall, prefVars
    <2> QED BY <1>1, <2>1, SameEntries DEF L2Queue
  <1>8. CASE SendNext
    <2>1. /\ queue' = [queue EXCEPT ![sendPos].valid = FALSE] /\ sendPos' = (sendPos + 1) % conf.queueSize
          /\ UNCHANGED <<setting, prog, pos, cycle, regions, index, tracked, reqPos>>
      BY <1>8 DEF SendNext, NextSlot
    <2>2. sendPos' \in Slots
      BY <1>1, <1>2, <2>1 DEF Slots
    <2>3. queue' \in [Slots -> PrefRequest]
      <3>1. queue \in [Slots -> PrefRequest]
        BY <1>1 DEF L2Queue, PrefQueue
      <3>2. [queue[sendPos] EXCEPT !.valid = FALSE] \in PrefRequest
        BY <1>1, <3>1 DEF PrefRequest
      <3> QED BY <1>1, <2>1, <3>1, <3>2
    <2>4. L2Queue' \in PrefQueue
      BY <1>1, <2>1, <2>3 DEF L2Queue, PrefQueue
    <2> QED BY <1>1, <2>1, <2>2, <2>4, SameEntries
  <1> QED BY <1>4, <1>5, <1>6, <1>7, <1>8 DEF PrefNext

\* A trained entry prefetches along the stream it was trained on (pref_stride.cc:300
\* to 352), no further ahead of the reads than the distance allows, whatever the
\* queue refuses: for every size of the tables, knobs and sequence of reads.
THEOREM PrefetchesFollow == PrefSpec => []OnTheStream
  <1>1. PrefInv => OnTheStream
    <2> SUFFICES ASSUME PrefInv, NEW i \in TableRows, index[i].trained
                 PROVE  LET e == index[i]
                        IN IF e.states = 1
                           THEN \E k \in -cycle .. MaxLead : e.plast = e.last + k * e.stride[0]
                           ELSE \/ \E k \in 0 .. MaxLead : Place(Onward(Demand(e), k)) = Place(e)
                                \/ \E k \in 1 .. cycle : Place(Onward(e, k)) = Place(Demand(e))
      BY DEF OnTheStream
    <2> DEFINE e == index[i]
    <2>1. /\ EntryRight(e, cycle) /\ e.trained /\ e \in IndexEntry /\ e.sent \in Nat
          /\ setting \in DOMAIN Configs /\ cycle \in Nat
      BY IndexFields DEF PrefInv, PrefTyped
    <2> HIDE DEF e
    <2>2. e.sent <= conf.distance /\ OnStream(e, cycle) /\ conf.distance \in Nat /\ conf.startDistance \in Nat
      BY <2>1, Thresholds DEF EntryRight
    <2>3. conf.startDistance + e.sent <= MaxLead /\ MaxLead \in Nat
      BY <2>1, <2>2 DEF MaxLead
    <2>4. CASE e.states = 1
      <3>1. PICK k \in -cycle .. conf.startDistance + e.sent : e.plast = e.last + k * e.stride[0]
        BY <2>2, <2>4 DEF OnStream, OneStride
      <3>2. k \in -cycle .. MaxLead
        BY <2>1, <2>2, <2>3
      <3> QED BY <2>4, <3>1, <3>2 DEF e
    <2>5. CASE e.states # 1
      <3>1. TwoStrides(e, cycle)
        BY <2>2, <2>5 DEF OnStream
      <3>2. CASE \E k \in 0 .. conf.startDistance + e.sent : Leads(e, k)
        <4>1. PICK k \in 0 .. conf.startDistance + e.sent : Leads(e, k)
          BY <3>2
        <4>2. k \in 0 .. MaxLead
          BY <2>1, <2>2, <2>3
        <4>3. Place(Onward(Demand(e), k)) = Place(e)
          BY <4>1 DEF Leads, Meets, Place
        <4> QED BY <2>5, <4>2, <4>3 DEF e
      <3>3. CASE \E k \in 1 .. cycle : Lags(e, k)
        <4>1. PICK k \in 1 .. cycle : Lags(e, k)
          BY <3>3
        <4>2. Place(Onward(e, k)) = Place(Demand(e))
          BY <4>1 DEF Lags, Meets, Place
        <4> QED BY <2>5, <4>1, <4>2 DEF e
      <3> QED BY <3>1, <3>2, <3>3 DEF TwoStrides
    <2> QED BY <2>4, <2>5
  <1> QED BY <1>1, PrefInvInit, PrefInvNext, PTL DEF PrefSpec

=================================================================================
