----------------------------- MODULE MCPrefetcher -----------------------------
EXTENDS Prefetcher

(* A small core: two regions, thresholds that a few reads reach. *)
Knobs ==
    [queueSize |-> 3, tableSize |-> 2, regionSize |-> 32, regionOn |-> FALSE, numRegions |-> 1,
     hybrid |-> FALSE, prefId |-> 0, defaultPref |-> 1, filter |-> TRUE, overwrite |-> FALSE,
     single |-> FALSE, singleThresh |-> 3, multiThresh |-> 2, startDistance |-> 1, degree |-> 2,
     distance |-> 3, once |-> FALSE, schedule |-> 2]

MCConfigs ==
    << Knobs, [Knobs EXCEPT !.tableSize = 1, !.queueSize = 1, !.single = TRUE],
       [Knobs EXCEPT !.queueSize = 2, !.multiThresh = 3, !.startDistance = 2, !.overwrite = TRUE, !.once = TRUE],
       [Knobs EXCEPT !.regionOn = TRUE, !.hybrid = TRUE, !.prefId = 1, !.filter = FALSE] >>
(* Streams of one stride, of two, that change, with a repeated line, and that run towards 0. *)
Even == <<1, 2, 3, 4, 5, 6, 7, 8>>
Pairs == <<1, 2, 4, 5, 7, 8, 10, 11, 13, 14, 16>>
Triples == <<1, 2, 3, 6, 7, 8, 11, 12, 13>>
Change == <<2, 4, 5, 6, 7, 8, 9>>
Back == <<7, 5, 5, 3, 3, 1, 2, 3, 4, 5>>
Down == <<8, 7, 6, 5, 4, 3, 2, 1>>

(* A second stream in another region, and a third that has to replace one. *)
MCPrograms ==
    << {<<Pairs>>, <<Triples, <<40>>>>, <<Back>>, <<Even, <<70>>, <<40, 39>>>>},
       {<<Even, <<40>>>>, <<Down>>},
       {<<Pairs, <<40>>>>, <<Change>>},
       {<<Even, <<70>>>>} >>
=============================================================================
