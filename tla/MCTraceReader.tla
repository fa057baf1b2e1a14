----------------------------- MODULE MCTraceReader -----------------------------
EXTENDS TraceReader

Knobs == [ptx |-> FALSE, buffer |-> 3, line |-> 4, repMax |-> 2, newCoalescing |-> FALSE,
          common |-> FALSE, maxInsts |-> 100, pids |-> <<0, 0>>]
Gpu == [Knobs EXCEPT !.ptx = TRUE]
MCConfigs ==
    << Knobs, [Knobs EXCEPT !.buffer = 2, !.maxInsts = 3, !.pids = <<0, 1>>],
       Gpu, [Gpu EXCEPT !.buffer = 2, !.newCoalescing = TRUE, !.common = TRUE],
       [Gpu EXCEPT !.maxInsts = 2], [Gpu EXCEPT !.buffer = 2, !.newCoalescing = TRUE, !.maxInsts = 1] >>

Inst(op, ld, st, cf, src, dst) == [op |-> op, ld |-> ld, st |-> st, cf |-> cf, src |-> src, dst |-> dst]
MCCode ==
    << Inst("alu", 1, FALSE, FALSE, <<"a">>, <<"b", "s">>),   \* pop
       Inst("alu", 1, TRUE, FALSE, <<"a">>, <<>>),            \* a value moved from memory to memory
       Inst("alu", 1, FALSE, TRUE, <<"s">>, <<"s">>),         \* return
       Inst("xfer", 1, FALSE, FALSE, <<"a">>, <<"b">>),       \* load
       Inst("sys", 0, FALSE, FALSE, <<>>, <<>>),
       Inst("string", 1, TRUE, FALSE, <<"a", "b">>, <<"a", "b">>),
       Inst("pref", 1, FALSE, FALSE, <<"a">>, <<>>),
       Inst("alu", 2, FALSE, FALSE, <<"a", "b">>, <<>>),
       Inst("alu", 0, TRUE, FALSE, <<"a">>, <<>>),            \* store
       Inst("sm", 1, TRUE, FALSE, <<"a">>, <<"b">>),          \* atomic operation on shared memory
       Inst("alu", 0, FALSE, FALSE, <<"a">>, <<"a">>) >>

Rec(pc, a, size, imm) == [pc |-> pc, ld1 |-> a, ld2 |-> a + 1, st |-> a + 2, size |-> size, imm |-> imm]
Some(S, n) == UNION {[1 .. k -> S] : k \in 1 .. n}

(* A processor: every short sequence of instructions, some of them repeated. *)
CpuRecords == {Rec(1, 4, 1, FALSE), Rec(2, 5, 1, FALSE), Rec(3, 8, 1, FALSE), Rec(4, 9, 1, FALSE),
               Rec(6, 4, 0, FALSE), Rec(6, 4, 5, FALSE), Rec(8, 4, 1, FALSE)}
CpuMore == {Rec(1, 7, 1, FALSE), Rec(5, 1, 0, FALSE), Rec(7, 4, 1, FALSE), Rec(9, 4, 1, FALSE), Rec(11, 1, 0, FALSE)}

(* A warp: accesses of one record, of a size that takes two transactions,   *)
(* and groups of two and three records, of one access and of a load and a   *)
(* store (atomic operations); a trace ends with an instruction that does    *)
(* not access memory.                                                       *)
Exit == <<Rec(11, 1, 1, FALSE)>>
GpuParts ==
    { <<Rec(4, 4, 1, FALSE)>>, <<Rec(4, 7, 2, FALSE)>>, <<Rec(10, 9, 1, FALSE)>>, <<Rec(5, 1, 1, FALSE)>>,
      <<Rec(4, 4, 1, TRUE), Rec(4, 12, 1, TRUE)>>,
      <<Rec(9, 4, 1, TRUE), Rec(9, 12, 3, FALSE), Rec(9, 5, 1, TRUE)>>,
      <<Rec(2, 4, 1, TRUE), Rec(2, 12, 2, TRUE)>>,
      <<Rec(10, 9, 1, TRUE), Rec(10, 4, 3, FALSE), Rec(10, 13, 1, TRUE)>> }
GpuTraces(n) == {<<FlattenSeq(p) \o Exit>> : p \in Some(GpuParts, n)}

MCTraces ==
    << {<<x>> : x \in Some(CpuRecords, 4)},
       {<<x, y>> : x \in Some(CpuMore, 3), y \in Some({Rec(1, 4, 1, FALSE), Rec(3, 4, 1, FALSE)}, 2)},
       GpuTraces(4), GpuTraces(3), GpuTraces(3), GpuTraces(2) >>

(* What the configurations above violate: atomic operations are promised,   *)
(* too.                                                                     *)
ReplayAll ==
    \A t \in Threads :
      LET is == Instructions(trace[t]) IN RightUops(t, out[t], is) /\ RightEnd(t, is)

(* Two processes, the second on the GPU with an uncoalesced access. *)
SpaceConfigs == <<[Gpu EXCEPT !.pids = <<0, 1>>]>>
SpaceTraces == <<{<<p \o Exit, q \o Exit>> : p \in GpuParts, q \in GpuParts}>>

(* An uncoalesced instruction with two loads, at the limit of instructions: *)
(* of the further records both loads take the first address.                *)
TwoLoadConfigs == <<[Gpu EXCEPT !.maxInsts = 1]>>
TwoLoadTraces == <<{<<Exit \o <<Rec(8, 4, 1, TRUE), Rec(8, 7, 1, TRUE)>> \o Exit>>}>>
=============================================================================
