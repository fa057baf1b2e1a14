-------------------------- MODULE MemoryHierarchy --------------------------
(***************************************************************************)
(* The MacSim memory hierarchy (memory.cc): the caches of three levels,    *)
(* the four queues each cache keeps, the MSHR of each core with merging,   *)
(* promotion and flushing of prefetches, the write-backs, and the network  *)
(* that joins the levels a configuration does not couple.  The memory      *)
(* controller appears as the place where requests wait for an answer.      *)
(*                                                                         *)
(* A queue is the set of the requests in it: which of them is ready in a   *)
(* cycle depends on m_rdy_cycle, so any of them may be taken next.  Write  *)
(* ports of the L1 are counted, because a request with merged requests     *)
(* needs several of them in one cycle; where a busy port only delays a     *)
(* step, the step is simply not taken yet.                                 *)
(***************************************************************************)
EXTENDS Integers, FiniteSets, Sequences, Lists

CONSTANTS
  Cores,        \* core numbers 0..n-1; there is one L3 slice per core
  Ids,          \* request objects, as many as are alive at a time
  MshrSize,     \* KNOB_MEM_MSHR_SIZE, entries per core
  Assoc,        \* associativity of the single set each cache has here
  InSize, FillSize, WbSize, OutSize,  \* sizes of the queues of a cache
  McSize,       \* requests the memory controller holds
  WritePorts,   \* write ports of an L1
  Scenarios     \* <<knobs [policy, noc, ptx], accesses [core, type, line]>>

ASSUME SizesAssumption ==
  /\ IsFiniteSet(Cores) /\ Cores = 0..(Cardinality(Cores) - 1)
  /\ Ids \subseteq Nat \ {0} /\ IsFiniteSet(Ids)
  /\ {MshrSize, Assoc, InSize, FillSize, WbSize, OutSize, McSize, WritePorts}
       \subseteq Nat \ {0}

(* The stores that take no entry of the MSHR in a scenario. *)
PooledStores(s) == {u \in DOMAIN s[2] : s[1].ptx /\ s[2][u].type = "ST"}

(* The memory types; with l2_decoupled_local m_dst_map names routers that do not
   exist, so only noc_c can serve it. *)
Policies == {"l3_coupled_network", "l3_decoupled_network", "l2_coupled_local",
             "no_cache", "l2_decoupled_network", "l2_decoupled_local"}
KnobsOk(k) ==
  /\ k.policy \in Policies /\ k.noc \in {"router", "noc_c"} /\ k.ptx \in BOOLEAN
  /\ k.policy = "l2_decoupled_local" => k.noc = "noc_c"

(* The queue of an L2 has 1024 places, a core 128 entries; for the stores of GPU
   cores the code has no bound, and nobody looks whether the insertion succeeds. *)
ASSUME ScenariosAssumption ==
  \A s \in Scenarios :
    /\ KnobsOk(s[1])
    /\ s[2] \in Seq([core : Cores, type : {"LD", "ST", "PF", "IF", "HP"}, line : Nat])
    /\ MshrSize + Cardinality(PooledStores(s)) <= InSize

VARIABLES
  config,       \* knobs: memory type, network, GPU cores of capability 2.0
  program,      \* the accesses this behaviour makes
  cache,        \* lines of each cache, most recently used first
  req,          \* the request objects
  mshr,         \* m_mshr: live requests of each core, oldest first
  port,         \* write ports of each L1 taken in this cycle
  stopPref,     \* m_stop_prefetch > m_cycle
  uop           \* state of each access: new, wait or done

vars == <<config, program, cache, req, mshr, port, stopPref, uop>>
-----------------------------------------------------------------------------
(* Structure *)

Slices == Cores
L1(c) == <<"L1", c>>
L2(c) == <<"L2", c>>
L3(s) == <<"L3", s>>
MC == <<"MC", 0>>
Caches == {"L1", "L2", "L3"} \X Cores

(* done, coupled_up (m_prev_id is the own core), coupled_down (m_next_id is
   the own core), disable and has_router of a level, as the constructors of
   the memory types pass them to dcu_c::init. *)
Link(done, up, down, disable, router) ==
  [done |-> done, up |-> up, down |-> down, disable |-> disable, router |-> router]

Topology(policy) ==
  LET upper == Link(FALSE, FALSE, TRUE, FALSE, FALSE)
  IN CASE policy = "l3_coupled_network" ->
            [L1 |-> upper,
             L2 |-> Link(TRUE, TRUE, TRUE, FALSE, TRUE),
             L3 |-> Link(FALSE, TRUE, FALSE, FALSE, TRUE)]
       [] policy = "l3_decoupled_network" ->
            [L1 |-> upper,
             L2 |-> Link(TRUE, TRUE, FALSE, FALSE, TRUE),
             L3 |-> Link(FALSE, FALSE, FALSE, FALSE, TRUE)]
       [] policy = "l2_coupled_local" ->
            [L1 |-> Link(FALSE, FALSE, TRUE, FALSE, TRUE),
             L2 |-> Link(TRUE, TRUE, TRUE, FALSE, TRUE),
             L3 |-> Link(FALSE, TRUE, FALSE, TRUE, TRUE)]
       [] policy = "no_cache" ->
            [L1 |-> Link(FALSE, FALSE, TRUE, TRUE, FALSE),
             L2 |-> Link(TRUE, TRUE, TRUE, TRUE, TRUE),
             L3 |-> Link(FALSE, TRUE, FALSE, TRUE, TRUE)]
       [] policy = "l2_decoupled_network" ->
            [L1 |-> upper,
             L2 |-> Link(TRUE, TRUE, FALSE, TRUE, TRUE),
             L3 |-> Link(FALSE, FALSE, FALSE, FALSE, TRUE)]
       [] policy = "l2_decoupled_local" ->
            [L1 |-> upper,
             L2 |-> Link(TRUE, TRUE, FALSE, TRUE, FALSE),
             L3 |-> Link(FALSE, FALSE, FALSE, FALSE, TRUE)]

At(c) == Topology(config.policy)[c[1]]

(* m_cache_id[MEM_L3]: the slice by address, or the own slice for the two
   memory types that keep a request local. *)
set_cache_id(core, line) ==
  IF config.policy \in {"l2_coupled_local", "no_cache"} THEN core
  ELSE line % Cardinality(Slices)

Up(c) == IF c[1] = "L3" THEN "L2" ELSE "L1"
Down(c) == CASE c[1] = "L1" -> "L2" [] c[1] = "L2" -> "L3" [] OTHER -> "MC"

(* The component of a level that serves a request. *)
Component(level, q) ==
  CASE level = "MC" -> MC
    [] level = "L3" -> L3(set_cache_id(q.core, q.line))
    [] OTHER -> <<level, q.core>>

(* Router numbers: memory_c::init makes one router for each component that
   has one, level by level, and the ring keeps the order of creation. *)
m_noc_id(c) ==
  LET n == Cardinality(Cores)
      has(l) == IF At(<<l, 0>>).router THEN n ELSE 0
  IN CASE c[1] = "L1" -> c[2]
       [] c[1] = "L2" -> has("L1") + c[2]
       [] c[1] = "L3" -> has("L1") + has("L2") + c[2]
       [] OTHER -> has("L1") + has("L2") + has("L3") + c[2]

(* m_dst_map of a one-dimensional network with router placement 0. *)
m_dst_map(c) ==
  LET n == Cardinality(Cores)
  IN CASE c[1] = "L2" -> c[2] [] c[1] = "L3" -> n + c[2] [] OTHER -> 2 * n + c[2]

(* Where a packet for component c comes out: the routers deliver it at the
   component whose router has the mapped number, noc_c at c itself. *)
Receiver(c) ==
  IF config.noc = "noc_c" THEN c
  ELSE CHOOSE d \in Caches \cup {MC} :
         /\ d = MC \/ At(d).router
         /\ m_noc_id(d) = m_dst_map(c)
-----------------------------------------------------------------------------
(* Caches: the lines of a set, most recently used first *)

(* The constructor: no line is valid. *)
EmptyCache == <<>>

Present(s, line) == \E k \in 1..Len(s) : s[k].line = line
Without(s, line) == Kept(s, {e \in ToSet(s) : e.line # line})
Entry(s, line) == s[CHOOSE k \in 1..Len(s) : s[k].line = line]

(* access_cache with update_repl: the line becomes the youngest. *)
access_cache(s, line) ==
  IF Present(s, line) THEN <<Entry(s, line)>> \o Without(s, line) ELSE s

(* Mutant: the dirty bit is assigned where the code ors it. *)
mark_dirtyAssign(s, line, dirty) ==
  [k \in 1..Len(s) |->
     IF s[k].line = line THEN [line |-> line, dirty |-> dirty] ELSE s[k]]

(* A hit in place, without update_repl: only the dirty bit may change. *)
mark_dirty(s, line, dirty) ==
  [k \in 1..Len(s) |->
     IF s[k].line = line THEN [line |-> line, dirty |-> s[k].dirty \/ dirty]
     ELSE s[k]]

(* find_replacement_line: nothing while a way is free, else the oldest. *)
Victim(s) == IF Len(s) < Assoc THEN <<>> ELSE <<s[Len(s)]>>

(* insert_cache *)
insert_cache(s, line, dirty) ==
  <<[line |-> line, dirty |-> dirty]>> \o
    (IF Len(s) < Assoc THEN s ELSE SubSeq(s, 1, Len(s) - 1))
-----------------------------------------------------------------------------
(* Requests and queues *)

FreeReq == [place |-> "free", at |-> MC, type |-> "-", core |-> 0, line |-> 0,
            state |-> "-", dirty |-> FALSE, func |-> "-", uop |-> 0,
            into |-> 0, pool |-> FALSE]

Queue(r, place, c) == {i \in Ids : r[i].place = place /\ r[i].at = c}
Full(r, place, c) ==
  Cardinality(Queue(r, place, c)) >=
    (CASE place = "in" -> InSize [] place = "fill" -> FillSize
       [] place = "wb" -> WbSize [] place = "out" -> OutSize
       [] OTHER -> McSize)

NewId(r) ==
  LET free == {i \in Ids : r[i].place = "free"}
  IN CHOOSE i \in free : \A j \in free : i <= j

(* Ids bounds the requests that are alive. *)
Spare(r) == {i \in Ids : r[i].place = "free"} # {}

MergedInto(r, i) == {j \in Ids : r[j].place = "merged" /\ r[j].into = i}

(* free_req for every request of S; a write-back or pooled store is deleted,
   the others leave m_mshr too. *)
Freed(r, S) == [i \in Ids |-> IF i \in S THEN FreeReq ELSE r[i]]
Mshr(m, S) == [c \in Cores |-> Kept(m[c], Ids \ S)]

(* Where a request goes next, and the state it has there. *)
Move(r, i, place, c, state) ==
  [r EXCEPT ![i].place = place, ![i].at = c, ![i].state = state]

(* dcu_c::insert and dcu_c::fill, once the queue of c has room. *)
insert(r, i, c) == Move(r, i, "in", c, r[i].state)
fill(r, i, c) == Move(r, i, "fill", c, "FILL_NEW")

(* new_wb_req: the write-back of a dirty victim enters the wb queue.  It carries
   the core that brought the line in, which for an L1 or L2 is the core of the
   request; beyond an L3 nothing depends on it. *)
WriteBack(r, c, core, line) ==
  [r EXCEPT ![NewId(r)] =
     [FreeReq EXCEPT !.place = "wb", !.at = c, !.type = "WB", !.core = core,
                     !.line = line, !.dirty = TRUE, !.func = "none"]]

(* The line of request q goes into cache c (fills of the L2 and L3, and
   dcu_c::done of the L1): a line that is there keeps its place.  A victim at
   address 0 is taken for none. *)
Filled(r, q, c) ==
  IF At(c).disable \/ Present(cache[c], q.line) \/ Victim(cache[c]) = <<>>
     \/ Victim(cache[c])[1].line = 0 \/ ~Victim(cache[c])[1].dirty
  THEN r
  ELSE WriteBack(r, c, q.core, Victim(cache[c])[1].line)

FilledCache(q, c) ==
  CASE At(c).disable -> cache[c]
    [] Present(cache[c], q.line) -> mark_dirty(cache[c], q.line, q.dirty)
    [] OTHER -> insert_cache(cache[c], q.line, q.dirty)
-----------------------------------------------------------------------------
(* Completion: the done functions *)

(* How many data fills the L1 of a core accepts now: none with a full wb
   queue, one per free write port, and only one when that one's victim fills
   the wb queue. *)
FillsAccepted(r, q) ==
  LET c == L1(q.core)
      free == WritePorts - port[q.core]
  IN CASE At(c).disable -> Cardinality(Ids)
       [] ~At(c).disable /\ Full(r, "wb", c) -> 0
       [] OTHER -> IF Full(Filled(r, q, c), "wb", c) /\ free > 1 THEN 1 ELSE free

DataFills(r, S) == {j \in S : r[j].func = "dcache"}

(* The merged requests a done function may serve now: all that need no write
   port, and of the others as many as the L1 accepts. *)
Served(r, i, S) ==
  LET merged == MergedInto(r, i)
      data == DataFills(r, merged)
      n == FillsAccepted(r, r[i])
  IN /\ S \subseteq merged
     /\ merged \ data \subseteq S
     /\ Cardinality(S \cap data) =
          IF Cardinality(data) < n THEN Cardinality(data) ELSE n

(* Mutant: one write port is kept back. *)
FinishesLate(r, i, S) ==
  /\ S = MergedInto(r, i)
  /\ r[i].func = "dcache" =>
       Cardinality(DataFills(r, S)) + 1 < FillsAccepted(r, r[i])

(* dcache_fill_line_wrapper, icache_fill_line_wrapper and
   dcache_write_ack_wrapper, and the null function of a prefetch, having
   served the merged requests S: whether the request is finished, which
   requests reach their consumer and how many write ports they take. *)
Finishes(r, i, S) ==
  /\ S = MergedInto(r, i)
  /\ r[i].func = "dcache" =>
       Cardinality(DataFills(r, S)) < FillsAccepted(r, r[i])

Reached(r, i, S) ==
  S \cup (IF r[i].func = "icache" \/ r[i].func = "write_ack"
             \/ (r[i].func = "dcache" /\ Finishes(r, i, S))
          THEN {i} ELSE {})

(* done_func of request i at cache c of r, the request table after the fill
   at c: req, cache, mshr, port and uop after it, given the contents lines of
   c after the access. If the request is not finished it stays where stay
   says. *)
DoneFunc(i, c, r, lines, stay) ==
  \E S \in SUBSET Ids :
    /\ Served(r, i, S) /\ Spare(r)
    /\ LET q == r[i]
           l1 == L1(q.core)
           reached == Reached(r, i, S)
           fills == Cardinality(DataFills(r, reached))
           r1 == IF fills > 0 THEN Filled(r, q, l1) ELSE r
           gone == IF Finishes(r, i, S) THEN S \cup {i} ELSE S
       IN /\ req' = Freed(IF i \in gone THEN r1 ELSE [r1 EXCEPT ![i].state = stay], gone)
          /\ mshr' = Mshr(mshr, gone)
          /\ cache' = [cache EXCEPT ![c] = lines,
                                    ![l1] = IF fills > 0 THEN FilledCache(q, l1) ELSE @]
          /\ port' = IF At(l1).disable THEN port
                     ELSE [port EXCEPT ![q.core] = @ + fills]
          /\ uop' = [u \in DOMAIN uop |->
                       IF \E j \in reached : r[j].uop = u THEN "done" ELSE uop[u]]
-----------------------------------------------------------------------------
(* New requests *)

InMshr(m, core) == {m[core][k] : k \in 1..Len(m[core])}

(* Mutant: the search also finds an entry for another line. *)
search_reqAny(core, line) == IF Len(mshr[core]) = 0 THEN 0 ELSE mshr[core][1]

(* search_req: the oldest entry of the core for the line, 0 if there is none. *)
search_req(core, line) ==
  LET ks == {k \in 1..Len(mshr[core]) : req[mshr[core][k]].line = line}
  IN IF ks = {} THEN 0 ELSE mshr[core][CHOOSE k \in ks : \A j \in ks : k <= j]

(* Mutant: flush_prefetch forgets to test that the request is a prefetch. *)
FlushedAny(r, core) ==
  {i \in InMshr(mshr, core) :
     MergedInto(r, i) = {} /\ r[i].place \in {"in", "fill", "wb", "out"}}

(* flush_prefetch: prefetches without merged requests that are in a queue. *)
Flushed(r, core) ==
  {i \in InMshr(mshr, core) :
     /\ r[i].type = "DPRF" /\ MergedInto(r, i) = {}
     /\ r[i].place \in {"in", "fill", "wb", "out"}}

init_new_req(type, core, line, func, u) ==
  [FreeReq EXCEPT !.type = type, !.core = core, !.line = line, !.func = func, !.uop = u]

(* adjust_req: a prefetch under way becomes the demand request that found it. *)
adjust_req(q, type, func, u) ==
  [q EXCEPT !.type = type, !.func = func, !.uop = u, !.dirty = FALSE]

(* new_mem_req; result is the value it returns. *)
new_mem_req(core, type, line, func, u, result) ==
  LET matching == search_req(core, line)
      pooled == config.ptx /\ type = "DSTORE"
      l2full(r) == Full(r, "in", L2(core))
      used(S) == Cardinality(InMshr(mshr, core) \ S)
      flush1 == IF l2full(req) THEN Flushed(req, core) ELSE {}
      nomshr == ~pooled /\ used(flush1) >= MshrSize
      flush2 == IF nomshr THEN Flushed(req, core) ELSE flush1
      r == Freed(req, flush2)
      id == NewId(r)
      new == [init_new_req(type, core, line, func, u) EXCEPT !.pool = pooled]
      entered == CASE matching # 0 /\ ~pooled ->
                        [new EXCEPT !.place = "merged", !.into = matching]
                   [] ~(matching # 0 /\ ~pooled) /\ l2full(r) ->
                        [new EXCEPT !.place = "lost"]
                   [] OTHER -> [new EXCEPT !.place = "in", !.at = L2(core)]
  IN \/ /\ result
        /\ type = "DPRF" /\ (stopPref \/ matching # 0)
        /\ UNCHANGED <<req, mshr, stopPref>>
     \/ /\ result /\ type # "DPRF" /\ matching # 0 /\ ~pooled
        /\ req[matching].type = "DPRF"
        /\ req' = [req EXCEPT ![matching] = adjust_req(@, type, func, u)]
        /\ UNCHANGED <<mshr, stopPref>>
     \/ /\ ~(type = "DPRF" /\ (stopPref \/ matching # 0))
        /\ (matching # 0 /\ ~pooled) => req[matching].type # "DPRF"
        /\ stopPref' = (stopPref \/ l2full(req) \/ nomshr)
        /\ \/ /\ result /\ type = "DPRF"
              /\ l2full(Freed(req, flush1)) \/ nomshr
              /\ LET gone == IF l2full(Freed(req, flush1)) THEN flush1 ELSE flush2
                 IN req' = Freed(req, gone) /\ mshr' = Mshr(mshr, gone)
           \/ /\ ~result /\ type # "DPRF" /\ nomshr /\ used(flush2) >= MshrSize
              /\ req' = r /\ mshr' = Mshr(mshr, flush2)
           \/ /\ result
              /\ ~(type = "DPRF" /\ (l2full(Freed(req, flush1)) \/ nomshr))
              /\ (~pooled => used(flush2) < MshrSize) /\ Spare(r)
              /\ req' = [r EXCEPT ![id] = entered]
              /\ mshr' = IF pooled THEN Mshr(mshr, flush2)
                         ELSE [Mshr(mshr, flush2) EXCEPT ![core] = Append(@, id)]
-----------------------------------------------------------------------------
(* Accesses of the cores *)

Init ==
  /\ \E s \in Scenarios : config = s[1] /\ program = s[2]
  /\ cache = [c \in Caches |-> EmptyCache]
  /\ req = [i \in Ids |-> FreeReq]
  /\ mshr = [c \in Cores |-> <<>>]
  /\ port = [c \in Cores |-> 0]
  /\ stopPref = FALSE
  /\ uop = [u \in DOMAIN program |-> "new"]

(* An access is tried once its predecessors have been accepted. *)
Turn(u) ==
  /\ u \in DOMAIN uop /\ uop[u] = "new"
  /\ \A v \in 1..(u - 1) : uop[v] # "new"

(* dcu_c::access of a load, a store or a software prefetch.  The return value
   is m_latency (done), -1 (wait for the memory) or 0 (try again).  A store of a
   GPU core evicts the line it hits and goes to the memory like a miss. *)
Evicts(type) == config.ptx /\ type = "ST"

AccessMiss(u, line, core, type) ==
  LET reqtype == CASE type = "LD" -> "DFETCH" [] type = "ST" -> "DSTORE" [] OTHER -> "DPRF"
      func == IF Evicts(type) THEN "write_ack" ELSE "dcache"
  IN \E result \in BOOLEAN :
       /\ new_mem_req(core, reqtype, line, func, u, result)
       /\ uop' = IF ~result THEN uop
                 ELSE [uop EXCEPT ![u] = IF type = "PF" THEN "done" ELSE "wait"]

access(u) ==
  LET core == program[u].core
      type == program[u].type
      line == program[u].line
      c == L1(core)
      hit == ~At(c).disable /\ Present(cache[c], line)
      touched == IF At(c).disable THEN cache[c] ELSE access_cache(cache[c], line)
      store == type = "ST"
  IN /\ Turn(u) /\ type \in {"LD", "ST", "PF"}
     /\ store /\ ~At(c).disable => port[core] < WritePorts
     /\ port' = IF store /\ ~At(c).disable THEN [port EXCEPT ![core] = @ + 1] ELSE port
     /\ \/ /\ hit /\ ~Evicts(type)
           /\ cache' = [cache EXCEPT ![c] = mark_dirty(touched, line, store)]
           /\ uop' = [uop EXCEPT ![u] = "done"]
           /\ UNCHANGED <<req, mshr, stopPref>>
        \/ /\ ~hit \/ Evicts(type)
           /\ cache' = [cache EXCEPT ![c] = IF hit THEN Without(touched, line) ELSE touched]
           /\ AccessMiss(u, line, core, type)
     /\ UNCHANGED <<config, program>>

(* An instruction cache miss of the front end, and a request of the hardware
   prefetcher, which is finished with once it has been taken. *)
fetch_or_prefetch(u) ==
  LET core == program[u].core
      type == program[u].type
      line == program[u].line
  IN /\ Turn(u) /\ type \in {"IF", "HP"}
     /\ \E result \in BOOLEAN :
          /\ IF type = "IF" THEN new_mem_req(core, "IFETCH", line, "icache", u, result)
             ELSE new_mem_req(core, "DPRF", line, "none", 0, result)
          /\ uop' = IF ~result THEN uop
                    ELSE [uop EXCEPT ![u] = IF type = "HP" THEN "done" ELSE "wait"]
     /\ UNCHANGED <<config, program, cache, port>>
-----------------------------------------------------------------------------
(* The queues of a cache *)

(* process_in_queue *)
InHit(i) ==
  LET q == req[i]
      c == q.at
      lines == mark_dirty(access_cache(cache[c], q.line), q.line, q.type = "DSTORE")
      up == <<Up(c), q.core>>
      direct == (At(c).up /\ c[2] = q.core) \/ ~At(c).router
  IN /\ q.place = "in" /\ ~At(c).disable /\ Present(cache[c], q.line)
     /\ \/ At(c).done /\ DoneFunc(i, c, req, lines, q.state)
        \/ /\ ~At(c).done
           /\ cache' = [cache EXCEPT ![c] = lines]
           /\ req' = IF direct
                     THEN IF Full(req, "fill", up) THEN req ELSE fill(req, i, up)
                     ELSE IF Full(req, "out", c) THEN req ELSE Move(req, i, "out", c, "OUT_FILL")
           /\ UNCHANGED <<mshr, port, uop>>
     /\ UNCHANGED <<config, program, stopPref>>

InMiss(i) ==
  LET q == req[i]
      c == q.at
      next == Component(Down(c), q)
      direct == (At(c).down /\ next[2] = c[2]) \/ ~At(c).router
  IN /\ q.place = "in" /\ (At(c).disable \/ ~Present(cache[c], q.line))
     /\ \/ /\ direct /\ ~Full(req, "in", next)
           /\ req' = insert(req, i, next)
        \/ /\ ~direct /\ ~Full(req, "out", c)
           /\ req' = Move(req, i, "out", c, "OUT_NEW")
     /\ UNCHANGED <<config, program, cache, mshr, port, stopPref, uop>>

(* send_packet: into the router of the component, or into the lists of noc_c;
   neither of them refuses a request that is modelled here. *)
Sent(i, c, msg) == Move(req, i, "noc", Receiver(c), msg)

(* process_out_queue *)
ProcessOut(i) ==
  LET q == req[i]
      to == IF q.state = "OUT_FILL" THEN Up(q.at) ELSE Down(q.at)
      msg == IF q.state = "OUT_NEW" THEN "NOC_NEW" ELSE "NOC_FILL"
  IN /\ q.place = "out"
     /\ req' = Sent(i, Component(to, q), msg)
     /\ UNCHANGED <<config, program, cache, mshr, port, stopPref, uop>>

(* Handing a filled request on to the level above. *)
Upwards(i, r) ==
  LET q == r[i]
      c == q.at
      up == <<Up(c), q.core>>
      direct == At(c).disable \/ (At(c).up /\ c[2] = q.core) \/ ~At(c).router
      full == IF direct THEN Full(r, "fill", up) ELSE Full(r, "out", c)
  IN [r EXCEPT ![i] =
        CASE full -> [q EXCEPT !.state = "FILL_WAIT_FILL"]
          [] ~full /\ direct -> [q EXCEPT !.place = "fill", !.at = up, !.state = "FILL_NEW"]
          [] OTHER -> [q EXCEPT !.place = "out", !.state = "OUT_FILL"]]

(* process_fill_queue *)
FillNew(i) ==
  LET q == req[i]
      c == q.at
      r == Filled(req, q, c)
      lines == FilledCache(q, c)
  IN /\ q.place = "fill" /\ q.state = "FILL_NEW" /\ ~Full(req, "wb", c) /\ Spare(req)
     /\ \/ At(c).done /\ DoneFunc(i, c, r, lines, "FILL_WAIT_DONE")
        \/ /\ ~At(c).done
           /\ cache' = [cache EXCEPT ![c] = lines]
           /\ req' = IF q.type = "WB" THEN Freed(r, {i}) ELSE Upwards(i, r)
           /\ UNCHANGED <<mshr, port, uop>>
     /\ UNCHANGED <<config, program, stopPref>>

FillWaitDone(i) ==
  LET c == req[i].at
  IN /\ req[i].place = "fill" /\ req[i].state = "FILL_WAIT_DONE" /\ ~Full(req, "wb", c)
     /\ DoneFunc(i, c, req, cache[c], "FILL_WAIT_DONE")
     /\ UNCHANGED <<config, program, stopPref>>

FillWaitFill(i) ==
  /\ req[i].place = "fill" /\ req[i].state = "FILL_WAIT_FILL"
  /\ ~Full(req, "wb", req[i].at)
  /\ req' = Upwards(i, req)
  /\ UNCHANGED <<config, program, cache, mshr, port, stopPref, uop>>

(* process_wb_queue *)
ProcessWb(i) ==
  LET q == req[i]
      c == q.at
      next == Component(Down(c), q)
  IN /\ q.place = "wb"
     /\ \/ /\ c[1] # "L3" /\ At(c).down /\ next[2] = c[2]
           /\ ~Full(req, "fill", next)
           /\ req' = fill(req, i, next)
        \/ /\ ~(c[1] # "L3" /\ At(c).down /\ next[2] = c[2])
           /\ ~Full(req, "out", c)
           /\ req' = Move(req, i, "out", c, "OUT_WB")
     /\ UNCHANGED <<config, program, cache, mshr, port, stopPref, uop>>

(* The network has brought the packet to its receiver: noc_c after ten cycles,
   the routers when its last flit is there; either takes any time here. *)
Arrived(i, noc) == req[i].place = "noc" /\ config.noc = noc

(* A packet reaches its component, whose queue has room. *)
Accepted(i) ==
  LET q == req[i]
      c == q.at
      place == CASE c = MC -> "mc" [] c # MC /\ q.state = "NOC_NEW" -> "in"
                 [] OTHER -> "fill"
  IN /\ ~Full(req, place, c)
     /\ req' = CASE place = "in" -> insert(req, i, c) [] place = "fill" -> fill(req, i, c)
                 [] OTHER -> Move(req, i, "mc", c, q.state)
     /\ UNCHANGED mshr

(* receive_packet behind a router: a full queue leaves the packet there. *)
receive_packet(i) ==
  /\ Arrived(i, "router")
  /\ Accepted(i)
  /\ UNCHANGED <<config, program, cache, port, stopPref, uop>>

(* memory_c::receive behind noc_c, which drops a prefetch that the memory
   controller refuses. *)
receive(i) ==
  /\ Arrived(i, "noc_c")
  /\ \/ Accepted(i)
     \/ /\ Full(req, "mc", MC) /\ req[i].at = MC /\ req[i].type = "DPRF"
        /\ req' = Freed(req, {i}) /\ mshr' = Mshr(mshr, {i})
  /\ UNCHANGED <<config, program, cache, port, stopPref, uop>>

(* The memory controller answers: a write-back ends there, any other request
   goes back to its L3 slice. *)
Answer(i) ==
  LET q == req[i]
  IN /\ q.place = "mc"
     /\ req' = IF q.type = "WB" THEN Freed(req, {i})
               ELSE Sent(i, Component("L3", q), "NOC_FILL")
     /\ UNCHANGED <<config, program, cache, mshr, port, stopPref, uop>>

(* The next cycle frees the write ports. *)
NextCycle ==
  /\ \E c \in Cores : port[c] > 0
  /\ port' = [c \in Cores |-> 0]
  /\ UNCHANGED <<config, program, cache, req, mshr, stopPref, uop>>

(* The 500 cycles without prefetches are over. *)
PrefetchAgain ==
  /\ stopPref
  /\ stopPref' = FALSE
  /\ UNCHANGED <<config, program, cache, req, mshr, port, uop>>

Step(i) ==
  InHit(i) \/ InMiss(i) \/ ProcessOut(i) \/ FillNew(i) \/ FillWaitDone(i)
  \/ FillWaitFill(i) \/ ProcessWb(i) \/ receive_packet(i) \/ receive(i) \/ Answer(i)

Next ==
  \/ \E u \in DOMAIN uop : access(u) \/ fetch_or_prefetch(u)
  \/ \E i \in Ids : Step(i)
  \/ NextCycle
  \/ PrefetchAgain

Spec ==
  /\ Init /\ [][Next]_vars
  /\ \A i \in Ids : SF_vars(Step(i))
  /\ WF_vars(\E u \in DOMAIN uop : access(u) \/ fetch_or_prefetch(u))
  /\ WF_vars(NextCycle)
-----------------------------------------------------------------------------
(* Properties *)

(* An access that waits for the memory is remembered by exactly one request,
   and that request is on its way: it is in a queue, in the network, at the
   memory controller or merged (new_mem_req, flush_prefetch, adjust_req). *)
WaitersOwned ==
  \A u \in DOMAIN uop : uop[u] = "wait" =>
    \E i \in Ids :
      /\ req[i].uop = u /\ req[i].place \notin {"free", "lost"}
      /\ \A j \in Ids : req[j].uop = u => j = i

(* The request another one is merged into is a live demand request of the
   same core and line that is not merged itself, so the assertion of free_req
   that no merged request is left behind holds and flush_prefetch and noc_c
   never drop a request others depend on. *)
MergesSound ==
  \A i \in Ids : req[i].place = "merged" =>
    LET m == req[req[i].into]
    IN /\ m.place \notin {"free", "merged"}
       /\ m.type \notin {"DPRF", "WB"}
       /\ m.core = req[i].core /\ m.line = req[i].line

(* A modified copy of a line: in a cache or in a write-back under way. *)
Modified(line) ==
  \/ \E c \in Caches : \E k \in 1..Len(cache[c]) :
       cache[c][k].line = line /\ cache[c][k].dirty
  \/ \E i \in Ids : req[i].type = "WB" /\ req[i].line = line

(* The last modified copy of a line disappears only when the memory
   controller has taken its write-back. *)
DirtyNeverLost ==
  [][\A e \in {program[u] : u \in DOMAIN program} :
       Modified(e.line) /\ ~Modified(e.line)' =>
         \E i \in Ids : req[i].type = "WB" /\ req[i].line = e.line
                         /\ req[i].place = "mc"]_vars

(* Every access is served in the end. *)
EveryAccessServed == <>(\A u \in DOMAIN uop : uop[u] = "done")
=============================================================================
