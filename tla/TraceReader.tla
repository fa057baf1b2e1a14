----------------------------- MODULE TraceReader -----------------------------
(***************************************************************************)
(* The trace reader of MacSim (trace_read_c): a record of the trace file   *)
(* becomes the uops of an instruction, which the front end takes one by    *)
(* one.  The reader runs one record ahead, through a buffer that is        *)
(* refilled from the file, keeps decoded instructions in a hash table of   *)
(* the process, and merges the records of an uncoalesced access of a GPU   *)
(* warp into one uop with children, for which it rewinds the trace.        *)
(*                                                                         *)
(* An instruction is what Code gives for its pc; a record adds addresses,  *)
(* a size, and the flag that opens and closes an uncoalesced group.        *)
(* Opcodes are merged into classes: "xfer" (DATAXFER), "string", "pref",   *)
(* "sys" (the categories that block fetch), "sm" (shared memory) and the   *)
(* rest.  The width of an address of the trace is WordSize.                *)
(***************************************************************************)
EXTENDS Integers, Sequences, FiniteSets, SequencesExt, FiniteSetsExt

CONSTANTS Configs,    \* knobs of the instance
          Code,       \* pc -> [op, ld, st, cf, src, dst]
          Traces,     \* for each configuration: the traces of the threads
          MaxPup,     \* size of m_trace_uop_array
          WordSize    \* 2^32 in the code

VARIABLES id,     \* the configuration
          trace,  \* thread -> records
          table,  \* process -> m_inst_info_hash
          th,     \* thread -> thread_s
          out     \* thread -> the uops that the front end got
vars == <<id, trace, table, th, out>>

conf == Configs[id]
Threads == DOMAIN trace
pid(t) == conf.pids[t]
Tmp == "tmp"

NoRec == [pc |-> 0, ld1 |-> 0, ld2 |-> 0, st |-> 0, size |-> 0, imm |-> FALSE]

(* trace_uop_s and, but for the dynamic fields, inst_info_s *)
NoUop == [mem |-> "none", shared |-> FALSE, cf |-> FALSE, bar |-> FALSE, second |-> FALSE,
          alu |-> FALSE, src |-> <<>>, dst |-> <<>>]
NoDyn == [u |-> NoUop, key |-> <<0, 0>>, va |-> 0, size |-> 0, eom |-> FALSE, mul |-> FALSE, npc |-> 0]

NewThread ==
    [started |-> FALSE, file |-> 0, buf |-> [i \in 0 .. conf.buffer - 1 |-> NoRec], idx |-> 0,
     max |-> 0, spent |-> FALSE, prev |-> NoRec, next |-> NoRec, ended |-> FALSE, fetched |-> 0,
     bom |-> TRUE, sending |-> 0, arr |-> [i \in 0 .. MaxPup - 1 |-> NoDyn],
     over |-> FALSE, fault |-> FALSE]

Init ==
    /\ id \in DOMAIN Configs
    /\ trace \in Traces[id]
    /\ table = [p \in {pid(t) : t \in Threads} |-> << >>]
    /\ th = [t \in Threads |-> NewThread]
    /\ out = [t \in Threads |-> << >>]

-----------------------------------------------------------------------------
(* The file and the buffer: each operator maps the thread to its new state. *)

gzread(t, s) == IF s.file < Len(trace[t]) THEN trace[t][s.file + 1] ELSE NoRec

Refill(t, s) ==
    LET got == Min({conf.buffer, Len(trace[t]) - s.file}) IN
    [s EXCEPT !.buf = [i \in DOMAIN @ |-> IF i < got THEN trace[t][s.file + i + 1] ELSE @[i]],
              !.max = got, !.file = @ + got, !.spent = FALSE]

(* The next index; the buffer is spent when it wraps around. *)
Taken(s) ==
    LET i == (s.idx + 1) % conf.buffer IN [s EXCEPT !.idx = i, !.spent = @ \/ i = 0]

AtEnd(s) == s.idx >= s.max

(* The record of the last read counts as missing when the file is exhausted. *)
read_trace(t, s) ==
    IF s.ended THEN s
    ELSE LET r == IF s.idx = 0 THEN Refill(t, s) ELSE s
             q == Taken([r EXCEPT !.next = r.buf[r.idx]])
         IN IF AtEnd(q) THEN [q EXCEPT !.ended = TRUE] ELSE [q EXCEPT !.fetched = @ + 1]

(* peek_trace: the record, and whether there was one. *)
peek_trace(t, s) ==
    IF ~s.spent
    THEN [s |-> Taken(s), rec |-> s.buf[s.idx], ok |-> ~AtEnd(Taken(s))]
    ELSE [s |-> [s EXCEPT !.file = Min({@ + 1, Len(trace[t])})], rec |-> gzread(t, s),
          ok |-> s.file < Len(trace[t])]

(* Mutant: the file is only ever rewound by one record. *)
ungetch_traceOne(s, n) ==
    IF s.idx >= n THEN [s EXCEPT !.idx = @ - n]
    ELSE [s EXCEPT !.idx = 0, !.file = @ - 1]
ungetch_trace(s, n) ==
    IF s.idx >= n THEN [s EXCEPT !.idx = @ - n]
    ELSE [s EXCEPT !.idx = 0, !.file = @ - (n - s.idx)]

-----------------------------------------------------------------------------
(* Decoding *)

Moves(c) == c.op = "xfer" \/ conf.ptx
HasLoad(c) == c.ld > 0 /\ c.op # "pref"
HasAlu(c) == c.dst # <<>> /\ ~(c.ld > 0 /\ Moves(c))
TmpNeeded(c) == HasLoad(c) /\ (HasAlu(c) \/ c.st \/ c.cf)
IfTmp(c) == IF TmpNeeded(c) THEN <<Tmp>> ELSE <<>>

(* With KNOB_PTX_COMMON_CACHE shared memory is turned into local memory. *)
InShared(c) == c.op = "sm" /\ ~conf.common

(* The uops of an instruction: loads, computation, store, branch; a load    *)
(* hands its value on in the temporary register.                            *)
Result(c) == IF HasAlu(c) THEN c.dst ELSE IfTmp(c)
LoadUop(c, k) ==
    [NoUop EXCEPT !.mem = IF c.op = "pref" THEN "pf" ELSE "ld", !.shared = InShared(c),
                  !.second = k = 2, !.src = c.src,
                  !.dst = (IF Moves(c) THEN c.dst ELSE <<>>) \o (IF HasLoad(c) THEN IfTmp(c) ELSE <<>>)]
AluUop(c) == [NoUop EXCEPT !.alu = TRUE, !.src = c.src \o IfTmp(c), !.dst = c.dst]
StoreUop(c) == [NoUop EXCEPT !.mem = "st", !.shared = InShared(c), !.src = c.src \o Result(c)]
BranchUop(c) == [NoUop EXCEPT !.cf = TRUE, !.src = c.src \o Result(c)]

(* Only a last uop without a memory access blocks the fetch of the warp.    *)
Barrier(c, us) ==
    IF c.op = "sys" /\ us[Len(us)].mem = "none"
    THEN [us EXCEPT ![Len(us)].bar = TRUE, ![Len(us)].cf = TRUE] ELSE us

Decoded(c) ==
    LET us == [k \in 1 .. c.ld |-> LoadUop(c, k)]
                 \o (IF HasAlu(c) THEN <<AluUop(c)>> ELSE <<>>)
                 \o (IF c.st THEN <<StoreUop(c)>> ELSE <<>>)
                 \o (IF c.cf THEN <<BranchUop(c)>> ELSE <<>>)
    IN Barrier(c, IF us = <<>> THEN <<NoUop>> ELSE us)

(* convert_t_uop_to_info: of the destinations only the first is kept. *)
convert_t_uop_to_info(u) == [u EXCEPT !.dst = IF @ = <<>> THEN @ ELSE <<@[1]>>, !.alu = FALSE]

(* convert_dyn_uop: where and how much the uop accesses in this record. *)
VirtualAddr(u, r, off) ==
    IF u.cf \/ u.mem = "none" THEN 0
    ELSE (IF u.mem = "st" THEN r.st ELSE IF u.second THEN r.ld2 ELSE r.ld1) + off
convert_dyn_uop(d, u, r, off) == [d EXCEPT !.va = VirtualAddr(u, r, off), !.size = r.size, !.npc = r.pc]

Known(h, pc) == <<pc, 0>> \in DOMAIN h

(* The hash table after record r, with the static uops it gives. *)
Cached(h, pc, us) ==
    [k \in DOMAIN h \cup {<<pc, i>> : i \in 0 .. Len(us) - 1} |->
       IF k \in DOMAIN h THEN h[k]
       ELSE [u |-> convert_t_uop_to_info(us[k[2] + 1]), num |-> Len(us)]]

Statics(h, pc, c) ==
    IF Known(h, pc) THEN [i \in 1 .. h[<<pc, 0>>].num |-> h[<<pc, i - 1>>].u] ELSE Decoded(c)

(* The array after the n uops of the instruction itself. *)
Filled(arr, us, r) ==
    [i \in DOMAIN arr |->
       IF i >= Len(us) THEN arr[i]
       ELSE [convert_dyn_uop(arr[i], us[i + 1], r, 0) EXCEPT
               !.u = us[i + 1], !.key = <<r.pc, i>>, !.eom = i = Len(us) - 1,
               !.mul = IF us[i + 1].mem # "none" THEN r.imm ELSE @]]

(* Repeated moves: the uops once more for every further piece; only their   *)
(* dynamic part is written.  With nothing to move the instruction becomes a *)
(* nop, in the hash table too.                                              *)
Pieces(n, size) ==
    LET more == (size + conf.repMax - 1) \div conf.repMax - 1 IN
    Min({more, (MaxPup - 1) \div n})
Repeated(arr, n, h, r) ==
    [i \in DOMAIN arr |->
       IF i < n \/ i >= n * (1 + Pieces(n, r.size)) THEN arr[i]
       ELSE LET k == <<r.pc, i % n>> IN
            [convert_dyn_uop(arr[i], h[k].u, r, conf.repMax * (i \div n)) EXCEPT !.key = k, !.eom = FALSE]]
Emptied(arr, r) ==
    [arr EXCEPT ![0] = [NoDyn EXCEPT !.key = <<r.pc, 0>>, !.npc = r.pc, !.eom = TRUE]]

(* convert_pinuop_to_t_uop: array and hash table; npc of the last uop. *)
convert_pinuop_to_t_uop(s, h, r, npc) ==
    LET c == Code[r.pc]
        us == Statics(h, r.pc, c)
        n == Len(us)
        hc == IF Known(h, r.pc) THEN h ELSE Cached(h, r.pc, us)
        arr == Filled(s.arr, us, r)
        nothing == c.op = "string" /\ r.size = 0
        total == IF nothing THEN 1 ELSE IF c.op = "string" THEN n * (1 + Pieces(n, r.size)) ELSE n
        rep == IF nothing THEN Emptied(arr, r)
               ELSE IF c.op = "string" THEN Repeated(arr, n, hc, r) ELSE arr
    IN [h |-> IF nothing THEN [hc EXCEPT ![<<r.pc, 0>>] = [u |-> NoUop, num |-> 1]] ELSE hc,
        arr |-> [rep EXCEPT ![total - 1].eom = TRUE, ![total - 1].npc = npc]]

-----------------------------------------------------------------------------
(* Addresses *)

base_addr(a) == a - (a % conf.line)

(* The space of a process: with 64-bit arithmetic for the access of the uop *)
(* itself, with that of the trace's words for the other accesses of a group.*)
Space(t) == base_addr((WordSize - 1) * pid(t) * 10)
SpaceOfChild(t) == base_addr(((WordSize - 1) * pid(t) * 10) % WordSize)

(* The transactions of an access at a; those of a group are not repeated.   *)
num_mem_req(a, size) == (a + size - base_addr(a) + conf.line - 1) \div conf.line
Children(seen, a, size) ==
    LET all == [i \in 1 .. num_mem_req(a, size) |-> base_addr(a) + (i - 1) * conf.line]
    IN IF conf.newCoalescing THEN seen \o SelectSeq(all, LAMBDA x : x \notin Range(seen)) ELSE seen \o all

-----------------------------------------------------------------------------
(* get_uops_from_traces *)

(* A later uop of the instruction accesses memory too; the search looks at  *)
(* the kind of every other uop and at the end mark of those in between.     *)
subsequent_mem(arr, i) ==
    /\ ~arr[i].eom
    /\ \E j \in DOMAIN arr :
         /\ j > i /\ (j - i) % 2 = 1 /\ arr[j].u.mem # "none"
         /\ \A k \in i + 1 .. j : (k - i) % 2 = 0 => ~arr[k].eom

(* The records of a group up to the one that closes it. *)
RECURSIVE Group(_, _, _, _, _)
Group(t, s, mem, acc, n) ==
    LET p == peek_trace(t, s)
        a == (IF mem = "st" THEN p.rec.st ELSE p.rec.ld1) + SpaceOfChild(t)
        more == Children(acc, a, p.rec.size)
    IN IF ~p.ok THEN [s |-> [p.s EXCEPT !.fault = TRUE], acc |-> acc, n |-> n]
       ELSE IF p.rec.imm THEN [s |-> p.s, acc |-> more, n |-> n + 1]
       ELSE Group(t, p.s, mem, more, n + 1)

(* After a group the next record is read ahead, or the trace is rewound for *)
(* the next uop of the instruction.                                         *)
AfterGroup(t, g, subsequent) ==
    LET p == peek_trace(t, g.s) IN
    IF g.s.fault THEN g.s
    ELSE IF subsequent THEN ungetch_trace(g.s, g.n)
    ELSE IF g.s.ended THEN g.s
    ELSE [p.s EXCEPT !.prev = IF g.s.spent /\ ~p.ok THEN @ ELSE p.rec, !.ended = ~p.ok]

(* Uop i of the array goes to the front end. *)
Deliver(t, s, h, i, bom) ==
    LET d == s.arr[i]
        u == h[d.key].u
        va == IF d.va = 0 THEN 0 ELSE d.va + Space(t)
        ended == s.ended /\ d.eom
        many == conf.ptx /\ u.mem # "none" /\ d.mul
        split == conf.ptx /\ u.mem # "none" /\ (d.mul \/ num_mem_req(va, d.size) > 1)
        own == IF split THEN Children(<<>>, va, d.size) ELSE <<va>>
        g == Group(t, IF s.ended THEN s ELSE ungetch_trace(s, 1), u.mem, own, 0)
        s2 == IF many THEN AfterGroup(t, g, subsequent_mem(s.arr, i)) ELSE s
        npc == IF many /\ ~subsequent_mem(s.arr, i) /\ ~s2.ended THEN s2.prev.pc
               ELSE IF split /\ ~many THEN s.prev.pc ELSE d.npc
    IN /\ th' = [th EXCEPT ![t] = [s2 EXCEPT !.sending = i + 1, !.bom = d.eom, !.over = ended]]
       /\ out' = [out EXCEPT ![t] = Append(@,
             [pc |-> d.key[1], mem |-> u.mem, cf |-> u.cf, bar |-> d.u.bar, src |-> d.u.src, dst |-> d.u.dst,
              bom |-> bom, eom |-> d.eom, last |-> ended, npc |-> npc,
              acc |-> IF u.mem = "none" THEN <<>> ELSE IF many THEN g.acc ELSE own])]
       /\ table' = [table EXCEPT ![pid(t)] = h]

(* The first uop of an instruction: the next record is read ahead. *)
FetchInstruction(t) ==
    LET s == IF th[t].fetched < conf.maxInsts THEN read_trace(t, th[t])
             ELSE [th[t] EXCEPT !.ended = TRUE]
        r == th[t].prev
        x == convert_pinuop_to_t_uop(s, table[pid(t)], r, s.next.pc)
    IN /\ th[t].started /\ ~th[t].over /\ ~th[t].fault /\ th[t].bom
       /\ Deliver(t, [s EXCEPT !.prev = s.next, !.arr = x.arr], x.h, 0, TRUE)
       /\ UNCHANGED <<id, trace>>

FetchRest(t) ==
    /\ th[t].started /\ ~th[t].over /\ ~th[t].fault /\ ~th[t].bom
    /\ Deliver(t, th[t], table[pid(t)], th[t].sending, FALSE)
    /\ UNCHANGED <<id, trace>>

(* pre_read_trace: a GPU trace is read to its end for sections that nobody  *)
(* uses, and rewound.                                                       *)
pre_read_trace(s) == [s EXCEPT !.file = 0]

(* setup_trace: the first record is read from the file. *)
setup_trace(t) ==
    LET s == IF conf.ptx THEN pre_read_trace(th[t]) ELSE th[t] IN
    /\ ~th[t].started
    /\ th' = [th EXCEPT ![t] = [s EXCEPT !.started = TRUE, !.prev = gzread(t, s), !.file = @ + 1]]
    /\ UNCHANGED <<id, trace, table, out>>

(* m_fetch_ended of all threads, or an assertion of Group has failed. *)
Finished == (\A t \in Threads : th[t].over \/ th[t].fault) /\ UNCHANGED vars

Next == (\E t \in Threads : setup_trace(t) \/ FetchInstruction(t) \/ FetchRest(t)) \/ Finished

Spec == Init /\ [][Next]_vars

-----------------------------------------------------------------------------
(* Reference: the instructions of a trace, each with its records. *)
Grouped(r) == conf.ptx /\ r.imm /\ (Code[r.pc].ld > 0 \/ Code[r.pc].st)

RECURSIVE Instructions(_)
Instructions(rs) ==
    IF rs = <<>> THEN <<>>
    ELSE LET n == IF Grouped(rs[1]) THEN Min({k \in 2 .. Len(rs) : rs[k].imm}) ELSE 1
         IN <<SubSeq(rs, 1, n)>> \o Instructions(SubSeq(rs, n + 1, Len(rs)))

Lines(a, size) == {base_addr(x) : x \in a .. a + size - 1}
Addr(u, r) == IF u.mem = "st" THEN r.st ELSE IF u.second THEN r.ld2 ELSE r.ld1

(* The accesses of uop u for the records rs of its instruction. *)
RightAccesses(t, u, rs, acc) ==
    IF u.mem = "none" THEN acc = <<>>
    ELSE IF ~conf.ptx THEN acc = <<Addr(u, rs[1]) + Space(t)>>
    ELSE {base_addr(a) : a \in Range(acc)} = UNION {Lines(Addr(u, r) + Space(t), r.size) : r \in Range(rs)}

(* Uop o as the j-th of the instruction with the records rs. *)
RightUop(t, o, rs, j) ==
    LET us == Decoded(Code[rs[1].pc])
        u == us[j]
    IN /\ j <= Len(us)
       /\ <<o.mem, o.cf, o.bar, o.src>> = <<u.mem, u.cf, u.bar, u.src>>
       /\ u.dst # <<>> => o.dst # <<>> /\ o.dst[1] = u.dst[1]
       /\ o.eom <=> j = Len(us)
       /\ RightAccesses(t, u, rs, o.acc)

Firsts(os) == SelectSeq([k \in DOMAIN os |-> k], LAMBDA k : os[k].bom)

(* The uops os are those of the instructions is, from the first on. *)
RightUops(t, os, is) ==
    LET firsts == Firsts(os) IN
    /\ Len(firsts) <= Len(is)
    /\ \A i \in DOMAIN firsts :
         LET end == IF i < Len(firsts) THEN firsts[i + 1] - 1 ELSE Len(os)
             string == Code[is[i][1].pc].op = "string"
         IN \A k \in firsts[i] .. end :
              LET o == os[k] IN
              /\ o.pc = is[i][1].pc
              /\ string \/ RightUop(t, o, is[i], k - firsts[i] + 1)
              /\ o.last => k = Len(out[t])
              /\ o.eom /\ ~o.last /\ ~string /\ i + 1 < Len(is) => o.npc = is[i + 1][1].pc

(* The trace is not left in the middle, and ends with at most one           *)
(* instruction missing.                                                     *)
RightEnd(t, is) ==
    /\ ~th[t].fault
    /\ th[t].over => Len(Firsts(out[t])) >= Min({Len(is) - 1, conf.maxInsts})

(* The code takes an uncoalesced instruction with several memory uops, or   *)
(* what follows it, apart: before each of these uops it gives back a record *)
(* that was read ahead, and only for the first there is one                 *)
(* (get_uops_from_traces, 1773).  Not so at the limit of instructions,      *)
(* where nothing is read ahead.                                             *)
MemoryUops(c) == {j \in DOMAIN Decoded(c) : Decoded(c)[j].mem # "none"}
TakenApart(rs, i) ==
    /\ Grouped(rs[1]) /\ i <= conf.maxInsts
    /\ Cardinality(MemoryUops(Code[rs[1].pc])) > 1

(* The uops up to the first memory access of an instruction taken apart. *)
Intact(os, is) ==
    LET apart == {i \in DOMAIN is : TakenApart(is[i], i) /\ i <= Len(Firsts(os))}
        i == Min(apart)
    IN IF apart = {} THEN os
       ELSE SubSeq(os, 1, Min({Len(os), Firsts(os)[i] - 1 + Min(MemoryUops(Code[is[i][1].pc]))}))

(* The front end gets the instructions of the trace in order, none twice    *)
(* and none left out but possibly the one at the end of the file, whatever  *)
(* the position of the buffer and wherever the records of a group lie when  *)
(* the trace is rewound; each with the uops, sources and addresses of its   *)
(* records, decoded or found in the hash table, and with the pc of the      *)
(* instruction that follows.  Nothing is promised behind the first access   *)
(* of an instruction that the code takes apart (TakenApart), and of a       *)
(* repeated move only the pc: the end mark of its first piece hides the     *)
(* others.                                                                  *)
Replay ==
    \A t \in Threads :
      LET is == Instructions(trace[t])
          os == Intact(out[t], is)
      IN RightUops(t, os, is) /\ (os = out[t] => RightEnd(t, is))
=============================================================================
