--------------------------- MODULE MCCorePipeline ---------------------------
EXTENDS CorePipeline

U(kind, src, dst) == [kind |-> kind, src |-> src, dst |-> dst, addr |-> 0, size |-> 4, kids |-> 0]
Mem(kind, src, dst, addr, size) == [U(kind, src, dst) EXCEPT !.addr = addr, !.size = size]
Wide(kind, src, dst, kids) == [U(kind, src, dst) EXCEPT !.kids = kids]

Each(n) == [gen |-> n, mem |-> n, fp |-> n]
Core(kind, width, prog) ==
    [kind |-> kind, width |-> width, fetchWidth |-> width, prog |-> prog,
     block |-> [i \in DOMAIN prog |-> 0], regs |-> {"a", "b"}, warps |-> 1,
     feLatency |-> 1, feSize |-> width + 2, iaqSize |-> Each(2), rob |-> 3,
     sb |-> 1, lb |-> 1, ints |-> 2, fps |-> 1, list |-> 4,
     schedSize |-> Each(2), ports |-> Each(1), latency |-> [int |-> 1, fp |-> 3, br |-> 1, bar |-> 1],
     hit |-> 2, extraRecovery |-> 0, oooStores |-> TRUE,
     brStall |-> FALSE, loadStall |-> FALSE, noFetchOnMiss |-> TRUE, trouble |-> 1]

Chain == <<U("int", <<>>, {"a"}), U("fp", <<"a">>, {"b"}), Mem("ld", <<"a">>, {"a"}, 0, 4),
           U("int", <<"b", "a">>, {"a"}), Mem("st", <<"a", "b">>, {}, 0, 4), U("fp", <<"a">>, {"b"})>>
Branchy == <<U("br", <<"a">>, {}), U("br", <<>>, {}), U("int", <<"a">>, {"a"}), U("br", <<"a">>, {}), U("int", <<"a">>, {"b"})>>
Short == <<Mem("ld", <<>>, {"a"}, 0, 4), U("int", <<"a">>, {"b"}), U("fp", <<"b">>, {"a"})>>
Warp == <<Wide("ld", <<>>, {"a"}, 2), U("br", <<"a">>, {}), U("bar", <<>>, {}), U("int", <<"a">>, {"b"})>>
Wait == <<U("int", <<>>, {"a"}), U("bar", <<"a">>, {}), U("fp", <<"a">>, {"b"})>>

Gpu(width, prog) == [Core("smc", width, prog) EXCEPT !.brStall = TRUE, !.rob = 2]

(* A load whose address register was written by the uop whose object the store has taken. *)
HidingConfigs == <<[Core("ooo", 1, <<<<U("int", <<>>, {"a"}), Mem("st", <<>>, {}, 0, 4), Mem("ld", <<"a">>, {"b"}, 0, 4)>>>>)
                       EXCEPT !.trouble = 2]>>
WarpConfigs == <<[Gpu(1, <<<<U("fp", <<>>, {"a"}), U("int", <<"a">>, {"b"}), U("int", <<>>, {"a"})>>, Wait>>) EXCEPT !.rob = 3]>>

MCConfigs ==
    << [Core("ooo", 2, <<Chain>>) EXCEPT !.trouble = 2], Core("ooo", 2, <<Branchy>>), [Core("ooo", 1, <<Short, Short>>) EXCEPT !.noFetchOnMiss = FALSE],
       Core("io", 2, <<Chain>>), Core("io", 1, <<Short, Branchy>>),
       Gpu(1, <<Warp, Wait>>), [Gpu(1, <<Warp, Wait>>) EXCEPT !.loadStall = TRUE, !.warps = 2] >>
=============================================================================
