-------------------------- MODULE MCMemoryHierarchy --------------------------
EXTENDS MemoryHierarchy

A(core, type, line) == [core |-> core, type |-> type, line |-> line]
Knobs(policy, noc, ptx) == [policy |-> policy, noc |-> noc, ptx |-> ptx]

Coupled == Knobs("l3_coupled_network", "router", FALSE)
Decoupled == Knobs("l3_decoupled_network", "router", FALSE)
IdealNoc == Knobs("l3_decoupled_network", "noc_c", FALSE)
NoCache == Knobs("no_cache", "router", FALSE)
Gpu == Knobs("l3_decoupled_network", "router", TRUE)

(* Lines 2 and 4 share a slice, 3 is in the other one; all compete for the
   one line of a cache. *)
MCScenarios ==
  { \* a store that hits, and the eviction of the line it modified
    <<Coupled, <<A(0, "ST", 2), A(0, "ST", 2), A(0, "LD", 4), A(0, "LD", 6)>> >>,
    <<Decoupled, <<A(0, "ST", 2), A(0, "ST", 2), A(0, "LD", 4)>> >>,
    \* promotion of a prefetch, then data and instruction misses merged into it
    <<Coupled, <<A(0, "HP", 2), A(0, "LD", 2), A(0, "IF", 2)>> >>,
    \* prefetches that fill the MSHR and are flushed, or dropped by noc_c
    <<IdealNoc, <<A(0, "HP", 2), A(0, "HP", 4), A(0, "LD", 3)>> >>,
    \* prefetches of a line on its way, and of more lines than the MSHR holds
    <<IdealNoc, <<A(0, "HP", 2), A(0, "HP", 2), A(0, "HP", 4), A(0, "HP", 3)>> >>,
    \* two cores at the same lines
    <<Coupled, <<A(0, "ST", 2), A(1, "LD", 2), A(1, "ST", 4)>> >>,
    \* an instruction miss with data misses merged into it
    <<NoCache, <<A(1, "IF", 3), A(1, "LD", 3), A(1, "ST", 3)>> >>,
    <<Decoupled, <<A(1, "IF", 3), A(1, "LD", 3), A(1, "ST", 3)>> >>,
    \* software prefetch followed by its use
    <<Decoupled, <<A(1, "PF", 2), A(1, "LD", 2), A(1, "ST", 3)>> >>,
    \* stores of a GPU core bypass the MSHR
    <<Gpu, <<A(0, "LD", 2), A(0, "ST", 2), A(0, "LD", 2)>> >> }

(* Modified lines that are lost: one that leaves the L1 of a core whose L2 is
   disabled, or an L2 for a slice that is disabled, and one at address 0. *)
LostScenarios ==
  { <<Knobs("l2_decoupled_network", "router", FALSE),
      <<A(0, "ST", 2), A(0, "ST", 2), A(0, "LD", 4)>> >>,
    <<Knobs("l2_coupled_local", "noc_c", FALSE),
      <<A(0, "ST", 2), A(0, "ST", 2), A(0, "LD", 4), A(0, "LD", 6), A(0, "LD", 8)>> >>,
    <<Coupled, <<A(0, "ST", 0), A(0, "ST", 0), A(0, "LD", 4)>> >> }
==============================================================================
