----------------------------- MODULE Prefetcher -----------------------------
(***************************************************************************)
(* The hardware prefetcher of a MacSim core: the stride prefetcher         *)
(* (pref_stride_c) under the framework that trains it, queues its requests *)
(* and sends them to the memory hierarchy (hwp_common_c).                  *)
(*                                                                         *)
(* Addresses are line indices.  An access takes one cycle; when it happens *)
(* only matters for last_access.  The queue of the first cache level is    *)
(* left out, because nothing is ever put into it; so are the statistics    *)
(* (pollution bits, accuracy study), which are off by default and do not   *)
(* guide the stream.                                                       *)
(***************************************************************************)
EXTENDS Integers, Sequences, FiniteSets, FiniteSetsExt

CONSTANTS Configs,     \* knobs of the instance
          Programs     \* for each: sequences of streams, the lines that a stream of reads touches

VARIABLES setting,  \* the configuration
          prog,     \* the streams of the program
          pos,      \* reads of each stream so far
          cycle,    \* accesses so far (CYCLE)
          regions,  \* region_table of the stride prefetcher
          index,    \* index_table
          tracked,  \* regions of hwp_common_c (region_info, valid entries)
          queue,    \* m_l2req_queue
          reqPos,   \* m_l2req_queue_req_pos
          sendPos,  \* m_l2req_queue_send_pos
          turn      \* turns left of the loop of pref_update_queues

prefVars == <<setting, prog, pos, cycle, regions, index, tracked, queue, reqPos, sendPos, turn>>

(* Tables have a row and queues a slot; a stream is trained by at least one *)
(* matching stride (both thresholds are 6 unless set).                      *)
ASSUME PrefAssumption ==
    \A i \in DOMAIN Configs :
      LET c == Configs[i] IN
      /\ {c.queueSize, c.tableSize, c.regionSize, c.singleThresh, c.multiThresh} \subseteq Nat \ {0}
      /\ {c.startDistance, c.degree, c.distance, c.schedule} \subseteq Nat
      /\ Programs[i] \subseteq Seq(Seq(Nat))

conf == Configs[setting]
Slots == 0 .. conf.queueSize - 1
TableRows == 0 .. conf.tableSize - 1
Both(x) == [s \in 0 .. 1 |-> x]

Region(line) == line \div conf.regionSize

NoRow == [valid |-> FALSE, tag |-> 0, last |-> 0]
NoEntry == [trained |-> FALSE, checking |-> FALSE, states |-> 1, cur |-> 0, last |-> 0,
            stride |-> Both(0), cnt |-> Both(0), trans |-> Both(0), recnt |-> 0, count |-> 0,
            pcount |-> 0, pcur |-> 0, plast |-> 0, sent |-> 0]
NoRequest == [valid |-> FALSE, line |-> 0]

PrefInit ==
    /\ setting \in DOMAIN Configs
    /\ prog \in Programs[setting]
    /\ pos = [t \in DOMAIN prog |-> 0] /\ cycle = 0 /\ turn = 0
    /\ regions = [i \in TableRows |-> NoRow]
    /\ index = [i \in TableRows |-> NoEntry]
    /\ tracked = {}
    /\ queue = [i \in Slots |-> NoRequest]
    /\ reqPos = -1 /\ sendPos = 0

-----------------------------------------------------------------------------
(* The queue of requests *)

(* pref_matchregion: no region is ever evicted, as nothing reports an       *)
(* eviction by a prefetch; new ones are refused when the table is full.     *)
Tracked(rs, line) ==
    IF ~conf.regionOn \/ Cardinality(rs) = conf.numRegions THEN rs ELSE rs \cup {Region(line)}

(* No region is ever trained (what was sent is not recorded), and the       *)
(* accuracy that could change the default prefetcher stays 0.               *)
Selected(rs, line) == conf.hybrid => Region(line) \in rs /\ conf.prefId = conf.defaultPref

(* The filter also matches requests that were sent long ago. *)
Matched(q, line) == conf.filter /\ \E i \in Slots : q[i].line = line

(* pref_addto_l2req_queue_set on [queue, req, tracked]: the result, and ok. *)
addto_l2req_queue(s, line) ==
    LET rs == Tracked(s.tracked, line)
        next == (s.req + 1) % conf.queueSize
    IN IF line = 0 THEN [s EXCEPT !.ok = TRUE]
       ELSE IF ~Selected(rs, line) \/ Matched(s.queue, line)
       THEN [s EXCEPT !.ok = TRUE, !.tracked = rs]
       ELSE IF s.queue[next].valid /\ ~conf.overwrite
       THEN [s EXCEPT !.ok = FALSE, !.tracked = rs]
       ELSE [s EXCEPT !.ok = TRUE, !.tracked = rs, !.req = next,
                      !.queue[next] = [valid |-> TRUE, line |-> line]]

-----------------------------------------------------------------------------
(* The stride tables *)

(* One step along a pattern of two strides: cnt[0] steps of stride[0], one  *)
(* of trans[0], cnt[1] steps of stride[1], one of trans[1].                 *)
Transition(e) == e.pcount = e.cnt[e.pcur]
PrefIndex(e) == e.plast + (IF Transition(e) THEN e.trans ELSE e.stride)[e.pcur]
Advanced(e) ==
    [e EXCEPT !.plast = PrefIndex(e),
              !.pcount = IF Transition(e) THEN 0 ELSE @ + 1,
              !.pcur = IF Transition(e) THEN 1 - @ ELSE @]

(* k steps. *)
Onward(e, k) == LET at[i \in 0 .. k] == IF i = 0 THEN e ELSE Advanced(at[i - 1]) IN at[k]

(* create_newentry *)
create_newentry(e, line) ==
    [NoEntry EXCEPT !.last = line, !.pcount = e.pcount, !.pcur = e.pcur, !.plast = e.plast]

Forgotten(e) == [create_newentry(e, e.last) EXCEPT !.plast = e.plast]

(* The entry that is replaced is the one that was used last. *)
Replaced ==
    LET free == {i \in TableRows : ~regions[i].valid} IN
    IF free # {} THEN Min(free)
    ELSE Min({i \in TableRows : \A j \in TableRows : regions[j].last <= regions[i].last})

(* Looking for one stride, or for two and the transitions between them. *)
Observed(e, s) ==
    IF e.stride[e.cur] = 0 \/ (e.stride[e.cur] # s /\ conf.single)
    THEN [e EXCEPT !.stride[e.cur] = s, !.cnt[e.cur] = 1]
    ELSE IF e.stride[e.cur] = s THEN [e EXCEPT !.cnt[e.cur] = @ + 1]
    ELSE LET f == [e EXCEPT !.trans[e.cur] = s, !.states = 2, !.cur = 1 - @]
         IN IF f.cur = 0 THEN [f EXCEPT !.checking = TRUE, !.count = 0, !.recnt = 0] ELSE f

Checked(e, s, line) ==
    IF s = e.stride[e.cur] /\ e.count < e.cnt[e.cur]
    THEN [e EXCEPT !.recnt = @ + 1, !.count = @ + 1]
    ELSE IF s = e.trans[e.cur] /\ e.count = e.cnt[e.cur]
    THEN [e EXCEPT !.recnt = @ + 1, !.count = 0, !.cur = 1 - @]
    ELSE create_newentry(e, line)

SingleTrained(e) ==
    IF e.cnt[e.cur] >= conf.singleThresh
    THEN [e EXCEPT !.trained = TRUE, !.states = 1, !.cur = 0,
                   !.plast = e.last + e.stride[0] * conf.startDistance]
    ELSE e

MultiTrained(e) ==
    IF e.recnt >= conf.multiThresh
    THEN Onward([e EXCEPT !.trained = TRUE, !.pcount = e.count, !.pcur = e.cur, !.plast = e.last],
                conf.startDistance)
    ELSE e

Untrained(e, s, line) ==
    MultiTrained(SingleTrained(IF e.checking THEN Checked(e, s, line) ELSE Observed(e, s)))

(* The next line, if it can be queued: up to the degree, up to the distance. *)
SendSingle(x) ==
    LET line == x.e.plast + x.e.stride[0]
        s == addto_l2req_queue(x.s, line)
    IN IF ~x.s.ok \/ x.e.sent >= conf.distance THEN [x EXCEPT !.s.ok = FALSE]
       ELSE IF ~s.ok THEN [x EXCEPT !.s = s]
       ELSE [s |-> s, e |-> [x.e EXCEPT !.plast = line, !.sent = @ + 1]]

(* Mutant: the pattern is advanced before the queue has accepted the line. *)
SendMultiEarly(x) ==
    LET s == addto_l2req_queue(x.s, PrefIndex(x.e))
    IN IF ~x.s.ok \/ x.e.sent >= conf.distance THEN [x EXCEPT !.s.ok = FALSE]
       ELSE IF ~s.ok THEN [s |-> s, e |-> [Advanced(x.e) EXCEPT !.plast = x.e.plast]]
       ELSE [s |-> s, e |-> [Advanced(x.e) EXCEPT !.sent = @ + 1]]

SendMulti(x) ==
    LET s == addto_l2req_queue(x.s, PrefIndex(x.e))
    IN IF ~x.s.ok \/ x.e.sent >= conf.distance THEN [x EXCEPT !.s.ok = FALSE]
       ELSE IF ~s.ok THEN [x EXCEPT !.s = s]
       ELSE [s |-> s, e |-> [Advanced(x.e) EXCEPT !.sent = @ + 1]]

Sends(Send(_), x) ==
    LET sent[i \in 0 .. conf.degree] == IF i = 0 THEN x ELSE Send(sent[i - 1]) IN sent[conf.degree]

Follows(e, s) ==
    \/ s = e.stride[e.cur] /\ e.count < e.cnt[e.cur]
    \/ s = e.trans[e.cur] /\ e.count = e.cnt[e.cur]

(* A trained entry sends if the read continues its stream, and forgets it otherwise. *)
Trained(e0, s, q) ==
    LET e == [e0 EXCEPT !.sent = IF @ > 0 THEN @ - 1 ELSE @]
        at == IF e.count = e.cnt[e.cur] THEN [e EXCEPT !.count = 0, !.cur = 1 - @]
              ELSE [e EXCEPT !.count = @ + 1]
    IN IF e.states = 1 /\ s = e.stride[0] THEN Sends(SendSingle, [e |-> e, s |-> q])
       ELSE IF Follows(e, s) THEN Sends(SendMulti, [e |-> at, s |-> q])
       ELSE [e |-> Forgotten(e), s |-> q]

L2Queue == [queue |-> queue, req |-> reqPos, tracked |-> tracked, ok |-> TRUE]

(* pref_stride_c::train *)
train(line, q) ==
    LET hit == {i \in TableRows : regions[i].valid /\ regions[i].tag = Region(line)}
        i == IF hit = {} THEN Replaced ELSE Min(hit)
        s == line - index[i].last
        e == [index[i] EXCEPT !.last = line]
        x == IF hit = {} THEN [e |-> create_newentry(e, line), s |-> q]
             ELSE IF e.trained THEN Trained(e, s, q)
             ELSE [e |-> Untrained(e, s, line), s |-> q]
    IN /\ regions' = [regions EXCEPT ![i] = [valid |-> TRUE, tag |-> Region(line), last |-> cycle + 1]]
       /\ index' = [index EXCEPT ![i] = x.e]
       /\ queue' = x.s.queue /\ reqPos' = x.s.req /\ tracked' = x.s.tracked

-----------------------------------------------------------------------------
Read(t) ==
    /\ turn = 0 /\ pos[t] < Len(prog[t])
    /\ pos' = [pos EXCEPT ![t] = @ + 1] /\ cycle' = cycle + 1
    /\ UNCHANGED <<setting, prog, sendPos, turn>>
Line(t) == prog[t][pos[t] + 1]

(* With KNOB_PREF_TRAIN_INST_ONCE only the first access of an instruction trains. *)
TrainOnce(line, q) ==
    \/ train(line, q)
    \/ conf.once /\ cycle > 0 /\ tracked' = q.tracked /\ UNCHANGED <<regions, index, queue, reqPos>>

(* hwp_common_c::train for the first level: hits and misses train alike. *)
pref_l1 == \E t \in DOMAIN prog : Read(t) /\ TrainOnce(Line(t), L2Queue)

(* For the second level a miss also counts the region (without regions it   *)
(* is the same as pref_l1), and a hit only does that.                       *)
pref_l2_miss ==
    \E t \in DOMAIN prog :
      /\ conf.regionOn
      /\ Read(t)
      /\ TrainOnce(Line(t), [L2Queue EXCEPT !.tracked = Tracked(tracked, Line(t))])

pref_l2_hit ==
    \E t \in DOMAIN prog :
      /\ conf.regionOn
      /\ Read(t)
      /\ tracked' = Tracked(tracked, Line(t))
      /\ UNCHANGED <<regions, index, queue, reqPos>>

(* pref_update_queues: in every cycle a few slots are looked at, also empty *)
(* ones, so that the position may pass the requests that come next.         *)
pref_update_queues ==
    /\ turn = 0 /\ turn' = conf.schedule
    /\ UNCHANGED <<setting, prog, pos, cycle, regions, index, tracked, queue, reqPos, sendPos>>

(* Mutant: the position never reaches the last slot. *)
NextSlotShort(i) == (i + 1) % (IF conf.queueSize > 1 THEN conf.queueSize - 1 ELSE 1)
NextSlot(i) == (i + 1) % conf.queueSize

(* A negative address is dropped; the memory may be full. *)
SendNext ==
    /\ turn > 0
    /\ turn' = turn - 1
    /\ queue' = [queue EXCEPT ![sendPos].valid = FALSE]
    /\ sendPos' = NextSlot(sendPos)
    /\ UNCHANGED <<setting, prog, pos, cycle, regions, index, tracked, reqPos>>

Stall ==
    /\ turn > 0 /\ queue[sendPos].valid /\ queue[sendPos].line > 0
    /\ turn' = 0
    /\ UNCHANGED <<setting, prog, pos, cycle, regions, index, tracked, queue, reqPos, sendPos>>

PrefNext == pref_l1 \/ pref_l2_miss \/ pref_l2_hit \/ pref_update_queues \/ SendNext \/ Stall

(* The core updates the queues in every cycle, and the memory hierarchy     *)
(* takes new requests again and again (EveryAccessServed).                  *)
PrefSpec == PrefInit /\ [][PrefNext]_prefVars /\ WF_prefVars(pref_update_queues) /\ SF_prefVars(SendNext)

-----------------------------------------------------------------------------
Demand(e) == [e EXCEPT !.plast = e.last, !.pcount = e.count, !.pcur = e.cur]
Place(e) == <<e.plast, e.pcount, e.pcur>>
MaxLead == conf.startDistance + conf.distance

(* A trained entry prefetches along the stream it was trained on: the line  *)
(* it sent last lies on the continuation of the pattern that the reads      *)
(* follow, at most the distance ahead, or has been left behind while the    *)
(* queue was full; refused requests never shift the pattern.                *)
OnTheStream ==
    \A i \in TableRows :
      LET e == index[i] IN
      e.trained =>
        IF e.states = 1
        THEN \E k \in -cycle .. MaxLead : e.plast = e.last + k * e.stride[0]
        ELSE \/ \E k \in 0 .. MaxLead : Place(Onward(Demand(e), k)) = Place(e)
             \/ \E k \in 1 .. cycle : Place(Onward(e, k)) = Place(Demand(e))

(* Whatever is queued is sent, although the position that sends runs ahead  *)
(* of the one that fills the queue.                                         *)
EveryPrefetchSent == \A i \in 0 .. 3 : (i \in Slots /\ queue[i].valid) ~> ~(i \in Slots /\ queue[i].valid)
=============================================================================
