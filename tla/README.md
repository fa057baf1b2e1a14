# Verification of MacSim, MCsim and Duetto

TLA+ models of this simulator. MacSim (`src/src`) runs traces on CPU and GPU
cores, turns their accesses into memory requests, and carries the requests
through caches and a ring of routers to its DRAM controllers. These serve them
with a DRAM model of their own or hand them to MCsim (`src/src/MCsim`), whose
Duetto configuration (`system/DUET`) decides in every memory cycle between a
high-performance and a real-time scheduler in front of a Ramulator-style device.
The modules are translated from the code, TLC checks them on small instances,
and TLAPS proves the safety of the clock, the devices, the timers, the Duetto
controller, the data path, the DRAM controller, the memory hierarchy, the network
(flow control and whole packets) and the core pipeline for every value of the
constants.

- [Inventory](#inventory)
- [Modules and the code they model](#modules-and-the-code-they-model)
- [Runs](#runs)
- [Fairness](#fairness)
- [Proofs](#proofs)
- [What the code does differently from what it says](#what-the-code-does-differently-from-what-it-says)
- [Abstractions and limits](#abstractions-and-limits)
- [Not modelled](#not-modelled)
- [Plan](#plan)

To repeat a run: `tlc -config Duet.cfg MCDuetController`. To repeat a proof:
`tlapm DeviceProofs.tla`. `PROJECT.json` lists the components, runs,
theorems and hazards, and maps every definition to the lines it stands for.

## Inventory

The program is a single-threaded cycle simulator. Its difficulty is not in
threads but in many state machines that are advanced one after the other in each
cycle, share queues and pointers, act on what another one decided in an earlier
cycle, and run from different clocks.

| part | state | operations | interacts with | what makes it correct |
|---|---|---|---|---|
| Trace reader (`trace_read.cc`) | buffer and position per thread, look-ahead record, decoded instructions | `setup_trace`, `read_trace`, `peek_trace`, `get_uops_from_traces` | the front end takes uop after uop | every instruction once, in order, with its accesses |
| Process manager (`process_manager.cc`, `macsim.cc`, ends in `retire.cc`) | applications, threads, blocks, queues, counters | create, assign, retire, repeat, end of the simulation | cores fetch and retire what it assigns | counters exact, blocks whole, the simulation ends and ends no sooner than it should |
| Core pipeline (`core.cc`, `frontend.cc`, `map.cc`, `allocate*.cc`, `schedule*.cc`, `exec.cc`, `rob*.cc`, `retire.cc`) | uop pool, queues, reorder buffer, scheduler, register map | one stage after the other, backwards | memory hierarchy above and below | program order, true dependences, no leaked resource, progress |
| Prefetcher (`pref_common.cc`, `pref_stride.cc`) | region and stride tables, request queue | `train`, `pref_update_queues` | trained by L1 and L2, sends into the hierarchy | prefetches along the stream, sends what it queued |
| Memory hierarchy (`memory.cc`, `cache.cc`, `noc.cc`) | caches, MSHRs, four queues per cache | `access`, `process_*`, merging, promotion, flushing, write-back | cores above, network and DRAM below | every access answered, no request or modified line lost |
| Ring network (`router.cc`) | buffers per port and channel, channel ownership, credits, credits under way | `inject_packet`, stages RC, VCA, SA, ST, LT, credits | routers run in rotating order and write into their neighbours | credits conserved, packets whole, no deadlock |
| DRAM controller (`dram.cc`) | pending and outgoing requests; banks and their buffers | `run_a_cycle`, callbacks, `insert_new_req`, `schedule` | router on one side, MCsim on the other | no request lost or answered twice, rows open before data moves |
| Clock domain crosser (`ClockDomain.cpp`) | two counters, the two frequencies | `update`, `setCPUClockSpeed` | called once per CPU cycle, calls back `actual_update` | the memory is clocked exactly as often as the ratio demands |
| Data path (`MemoryController.cpp`, `MemoryDevice.cpp`) | pending requests, data in flight with counters | `addRequest`, `update`, `sendData`, `receiveData`, `generateData` | matches data with requests by requestor and address | the callback goes to the right request, once |
| Duetto controller (`system/DUET`) | one request queue, two command queues per bank, row table, deadlines, registers and rounds of RTA | `requestSchedule`, `commandGenerate`, `commandSchedule` with HPA and RTA | both schedulers work on the same requests; each has to bring the other one's queue up to date | no request lost, served twice or starved; row protocol |
| Latency estimator (`WCLator`) | a record per request, inter-CAS counters, tables | arithmetic on queue contents | decides when RTA takes over | no waiting request without an estimate |
| Request and command queues (`RequestQueue.cpp`, `CommandQueue.cpp`) | buffers, recorded indices | `insertRequest`, `getRequest`, `removeRequest`, `syncRequest` | shared by both schedulers | the request that is erased is the one whose command was chosen |
| Command timers (`CommandScheduler.cpp`) | one timer per queue, requestor and command | `isReady`, `isIssuable`, `sendCommand`, `tick` | in front of the device | together with the device no bank-level timing is violated |
| DDR3 and DDR4 device trees (`dram/`, `Ramulator*.h`) | per node the earliest cycle of each command, history of activates, bank states | `check`, `update` | asked one cycle before a command is sent, updated when it arrives | no two commands closer than the tables demand |

Hard behaviours, each listed with its line in `PROJECT.json` (`hazards`):

- *state decided in one cycle and used in the next* (commands, registers and
  their indices, the device check);
- *pointers that outlive their object* (uops and requests are taken from pools
  and reused while others still point to them);
- *two schedulers over one queue*, whose recorded indices are not adjusted when
  the other one erases a request, and which share packets after a precharge;
- *merging and matching by address only*, at the MSHR, at the data path and in
  the DRAM controller;
- *starvation* by row hits, by rounds and by older packets, *circular waiting*
  around the ring and through the finite queues between the caches;
- *nested bookkeeping*: the end of a thread ends a block, which starts another
  one, which ends a kernel, inside a single call;
- *counters at their limits*: unsigned counters next to zero, a history of
  exactly four activates, buffers guarded by nothing but credits;
- *uninitialised values* and tables with too few initialisers.

## Modules and the code they model

The names of variables, actions and helpers are those of the code wherever TLA+
allows.

**ClockDomain** — `ClockDomainCrosser::update` as used by
`MultiChannelMemorySystem`. Each iteration of its loop is a step, because each
calls back into the memory system. Ghosts: `ticks`, and `clockCycle`, which the
code keeps too.

**DramTiming** — the device. `next_channel`, `next_rank`, `next_bank` are the
`next` arrays of the tree, `prev` the history of activates. `ChannelGap`,
`RankGap`, `BankGap` are `DDR3::init_timing`, `scope` the positional array
`DDR3::scope` with exactly the initialisers the code has. `Cycle` is one memory
cycle: `receiveFromBus` applies the command decided before, `Decide` checks the
next one against the updated tree for the next cycle. `trace` is a history
variable.

**CommandIssue** — extends DramTiming by the scheduler's timers
(`command_timing`, `sendCommand`, `isReady`, `tick`). A command leaves only if
both its timer and the device allow it.

**Ddr4Device** — extends CommandIssue by the second device the memory system can
build: `gene` chooses DDR3 or DDR4, whose tree has a bank group with the long
parameters (`next_group`, `check4`, `Cycle4`).

**RequestService** — abstract specification of a controller: accepted requests
wait, each is served exactly once, and accesses of one kind by one requestor to
one address are not reordered. DuetController is shown to implement it; DataPath
is built on top of it.

**DuetController** — `MemoryController::update` with the Duetto schedulers. A
memory cycle is three steps (`requestSchedule`, `SendCommand`, then `DecideHPA`
or `DecideRTA`), between cycles requests arrive. `hpQ` and `rtQ` are
`commandQueue` and `commandQueue_RT`; `hpIdx` and `rtIdx` the indices recorded
for the two schedulers; `Order`, `deadline_set_flag`, `service_deadline` the
deadlines; `commandRegisters`, `queuePending`, `servedFlags`, `roundType` the
registers and rounds of RTA. `openRow` and `fault` are history variables.

**LatencyEstimator** — the arithmetic of `WCLator` in its three implementations
A, B and C, as operators on a situation: the oldest command, the inter-CAS
counters, the commands in front.

**DuetEstimate** — DuetController with the decision between the schedulers made
by the estimator and its own records (`req_statues_flag`, `req_open`,
`CInterR`, `CInterW`), which are not updated together with the queues.

**DataPath** — extends RequestService by `pendingReadRequest`,
`pendingWriteRequest`, `sendDataBuffer` and `pendingReadData` with their
counters. The model remembers the identity of the request behind a transfer,
which the code does not, in order to compare it with the one the code picks.

**DramFrontend** — `dram_controller_c::run_a_cycle` of the MCSIM build. MCsim
appears as a number of unfinished requests per address, of which any may finish
next; that each finishes once is DataPath's property.

**NativeDram** — extends DramFrontend by the controller's own DRAM: a buffer per
bank, the states of a bank, command and data bus, merging, flushing of
prefetches, and the policies FCFS and FR-FCFS. `policy` chooses the back end.

**RingNetwork** — routers of `router_c` connected by `init_ring`. Every stage of
every router is an action, taken in the order of `run_a_cycle` and, between
routers, in the rotating order of `router_wrapper_c::run_a_cycle`. `holds` is
the output channel an input channel owns, `avail` whether it is free; `due` and
`fresh` are the pending credits that are ready and those that become ready in
the next cycle (`fresh` is empty when the network has a slower clock than the
simulation, since credits are compared with the simulation cycle). A packet is an
object of its own: what the clients send is never twice the same one. The switch
allocation (`Grants`) is a loop over the ports that gives each wish (`Wants`) what
is left of the outputs and inputs (`Give`).

**SimpleNetwork** — extends RingNetwork by the topology `simple_noc`: a buffer
for each side (upstream, downstream) of a router, packets that enter the router
of the next layer whole and are ready after as many of its cycles as they have
flits, and clients that may refuse them. A traffic in which every packet goes to
a neighbouring layer runs on `simple_noc`, any other on the ring. `wait` and
`recv_avail` count down in the receiver's cycles: whether a receiver has already
run in this cycle decides when it can take the next packet. `OfLayer` is one of the
lists that `init_simple_topology` fills, in which a destination is found by its
distance from the first router of the layer.

**MemoryHierarchy** — three cache levels with `in`, `wb`, `fill` and `out`
queues, the MSHR with merging, promotion and flushing, write-backs and the four
topologies of the memory types; the network is the router or `noc_c`. A request
is an object of a pool, `place` says where it is.

**CorePipeline** — one core from fetch to retirement, in the out-of-order (`ooo`),
in-order (`io`) and GPU (`smc`) variants. A cycle runs the stages backwards as
`core_c::run_a_cycle` does; one action is one turn of a stage's loop. Uops are
objects of a stack-like pool, and all pointers between them survive the object.

**ProcessManager** — applications, kernels, threads and blocks, their way onto
cores and off, repetition, and the end of the simulation. The state is one
record and every function of the code an operator on it, because the code nests
these calls in one step.

**Prefetcher** — `pref_stride_c` under `hwp_common_c`: training, regions, hybrid
selection, the request queue and its two positions. `Onward` takes the prefetches of
an entry some steps along its pattern, as the loop does that gives them their start.

**TraceReader** — `trace_read_c`: the buffer that is refilled, the record read
ahead, the hash table of decoded instructions, the merging of an uncoalesced
access with its rewind, and `get_uops_from_traces`.

**Lists** — the loop that erases what it has dealt with from a list, as DramFrontend,
MemoryHierarchy and SimpleNetwork need it.

**DeviceProofs** (clock crosser, devices and timers, data path), **DuetControllerProofs,
NativeDramProofs, MemoryHierarchyProofs** (with the prefetcher)**, RingNetworkProofs,
CorePipelineProofs** — the theorems, with **CoreInvariant**, what an event of the pipeline (a uop starts, enters,
joins, drops out) does to its inductive invariant, and **ListLemmas**, what operations
on lists, circular buffers, minima and folds keep. **MC…** modules give the constants
their values.

How the parts fit: TraceReader feeds CorePipeline and ProcessManager;
CorePipeline's memory answers are what MemoryHierarchy's `EveryAccessServed`
promises; MemoryHierarchy's network and memory are RingNetwork and NativeDram;
DramFrontend relies on DataPath, DataPath on RequestService, which
DuetController implements, and its commands pass CommandIssue. Each of these
uses a property of the one below as its fairness or as its environment.

Definitions such as `SyncNothing`, `KeepCredit` or `FinishesLate`, each placed in
front of the definition it is a variant of, are *faulty variants*: what the code
would be with a plausible mistake. They are not part of any specification.
Putting one in place of the definition it resembles makes the property it is
listed with in `PROJECT.json` fail, which shows that the property depends on the
code.

## Runs

All instances finish within about three minutes.

| run | instance | what it shows |
|---|---|---|
| `clock_domain` | memory clock 4; CPU 0 (1:1), 2, 3, 4, 6, 7; 30 CPU cycles | `NoDrift`, `CountersBounded`: the crosser never drifts, and its counters are bounded by the product of the clocks. 30 cycles are more than the least common multiple of each pair, after which counters and remainders repeat. |
| `command_issue` | 5 banks, ACT/PRE/RD/WR, 7 cycles, DDR3 and DDR4, tFAW 6 | `TimingRespected`, `WindowAndGroupTiming`, `BankTimingComplete`: all pairs of commands respect the tables; never five activates in a tFAW window; the long distances of a bank group; with the timers in front also the activate-to-activate entries that the device does not check. Parameters are small but ordered as the real ones, tRC exceeds tRAS + tRP, and the fifth activate is reached. |
| `duet` | one core with 2 waiting requests, deadline 3; two cores with 1 each, deadline 2 | under every alternation between HPA and RTA: `NoFault` (unchecked accesses find their element, no dangling packet), `RowProtocol`, `RealTimeStateCurrent`, `QueuesAgree`, `ImplementsService` and `EveryRequestServed`. One core suffices for what the two schedulers share; two are needed for rounds, registers and starvation by the other one. |
| `duet_estimate` | two cores, 1 and 2 requests, timings of 1 or 2 cycles, deadline 8 | `OldestExists`, `EstimateCovers`, `EstimatesOrdered`: the estimator's record never outlives the request, each waiting request (a late activate aside) has an estimate that reaches its transfer, and an implementation that knows what HPA would send never estimates more than one that does not, if both see the same order of requestors. The deadline lies between the estimates, so both schedulers decide. |
| `data_path` | 2 cores, 1 address, reads (2 cycles) and writes (1 cycle) | `PendingExact`, `BurstsSpaced`, `EveryRequestReturns`. One address is the hard case for matching by address. |
| `dram_frontend` | 4 requests, two of one address, two rows of a bank and another bank; delay 0 or 2; three policies, merging on and off | `HeldOnce`, `RowsOpen`, `CallbackOwed`, `EveryRequestDone`. |
| `ring_network` | 4 routers, 2 or 3 channels, buffers of 2 flits, link latency 1 or 2, 20 packets per scenario; `simple_noc` with two cores, a cache and a memory controller, 3 pending flits per side, 3 refusals | `CreditsConserved`, `TravelWhole`, `EveryPacketDelivered`. Buffers are as long as a packet and every client sends half-way round, so the circular wait really forms when the reserved channels are opened to everyone. In `simple_noc` the cache sends to both cores through one buffer and a side holds less than what is sent, so packets queue behind a full receiver. |
| `memory_hierarchy` | 2 cores, caches of one line, MSHR of 2, queues of 1 to 4, ten scenarios over five configurations | `WaitersOwned`, `MergesSound`, `DirtyNeverLost`, `EveryAccessServed`. Every fill evicts, the MSHR and the short queues fill up, and each kind of request is merged into, promoted or flushed in some scenario. |
| `process_manager` | nine mixes of CPU and GPU applications on 1 or 2 cores, up to 4 threads | `CountersExact`, `BlocksWhole`, `NothingLeft`, `SimulationEnds`. |
| `core_pipeline` | seven cores and programs of 3 to 6 uops, 8 uop objects, reorder buffers of 2 or 3 | `ResourcesExact`, `ProgramOrder`, `RegisterOrder`, `IssuesInOrder`, `EveryUopRetires`. The pool and the reorder buffer are small enough to be reused within a program. |
| `prefetcher` | four settings of the knobs, streams of up to 11 reads, queues of 1 to 3 | `OnTheStream`, `EveryPrefetchSent`, while the memory stalls at any time. |
| `trace_reader` | every trace of up to 4 CPU instructions or 4 GPU accesses (single, split, groups of 2 and 3 records with one access or with a load and a store), buffers of 2 or 3 records, limits of 1, 2, 3 and 100 instructions | `Replay`: what the front end gets is compared with a reference definition of the trace. The code takes an uncoalesced instruction with two accesses apart behind its first access, so there `Replay` ends (`TakenApart`); at the limit of instructions it does not, and there the group is rewound for the second access, also when one record of it came from the buffer and the next from the file. |

Named bounds: `MaxTicks`, `MaxClk` (length of a run), `bound` and `deadline` of
a workload, `MaxArrivals` (requests of a requestor), `QueueBound` (waiting
requests), `Ids`, `Reqs`, `NumObjects` (live objects; `Spare` waits for a free one), `SideBufferMax`, `MaxPending`,
`MaxRefusals` (the sides and clients of `simple_noc`), `OutstandingBound`
(requests inside MCsim), `MaxVC`, `Scenarios`, `Configs`, `Programs`, `Traces`
(inputs), `MaxRepeat` (an application repeated that often stands still),
`Places`, and the field `trouble` of a core (cache denials, misses and wrong
predictions together). Bank symmetry is used in `command_issue`, where nothing
distinguishes banks and only invariants are checked. Deadlock is not checked in
`clock_domain` and `command_issue`, where time is bounded, and in
`memory_hierarchy`, where the program ends.

## Fairness

- *DuetController.* Memory cycles go on. For the real-time scheduler two
  conditions, only while a deadline has run out and RTA is therefore forced: the
  command of a requestor is registered, and a registered command is chosen,
  again and again. Both follow from timers that run down (`tick`) and from bus
  and rank conflicts that end; their length is CommandIssue's subject. Nothing
  is assumed of HPA or of the estimate: HPA may serve row hits for ever if
  nothing stops it, and what stops it is the deadline.
- *DataPath.* Memory cycles go on, and the scheduler serves every waiting
  request; the latter is `EveryRequestServed`.
- *DramFrontend, NativeDram.* Cycles go on, the router takes a packet again and
  again (`EveryPacketDelivered`); MCsim finishes every request
  (`EveryRequestReturns`). Of the native scheduler nothing is assumed but that
  it runs, and FR-FCFS is left out of the promise: row hits can overtake a
  request for ever.
- *RingNetwork, SimpleNetwork.* Only that network cycles go on. Within a scenario
  the ring is deterministic; in `simple_noc` a client may refuse what is ready, at
  most `MaxRefusals` times (that a cache does not refuse for ever is
  `EveryAccessServed`).
- *MemoryHierarchy.* A request that can leave its queue again and again does
  (strong fairness of each request's step): every cache walks through its queues
  in every cycle, and ready times pass. The caches run before the core in a
  cycle (`macsim.cc:934`), so the core cannot take the ports from them for ever.
- *CorePipeline.* The core is called in every cycle, and the memory hierarchy
  answers what it owes.
- *ProcessManager.* Cycles go on, every clock ticks, and a core that can retire
  or fetch does so again and again (`EveryUopRetires`).
- *Prefetcher.* The queues are updated in every cycle, and the memory takes a
  request that it could take again and again.

## Proofs

| theorem | says | from |
|---|---|---|
| `CrosserNeverDrifts`, `CountersAreTime`, `CountersStayBounded` | the clock ratio is exact for any two frequencies and after any number of cycles, and the counters never pass the product of the frequencies | `ClockAssumption` (the memory clock is not 0) |
| `DeviceTypes`, `DeviceRespectsTiming` | types, and all pairs of commands respect the tables down to the checked level, for all timing parameters and any number of banks, whatever the scheduler asks for | `DramAssumption` (parameters are naturals, tCWL <= tCL) |
| `BankTimingHolds`, `BothKeepBankTiming` | timers and device together keep every bank-level entry, for DDR3 alone and for both devices | also `BurstAssumption`: the literal 4 of `command_timing` covers the burst length |
| `BothDevices`, `BothRespectTiming`, `WindowHolds` | the same invariant for DDR3 and DDR4; never five activates in a window of tFAW, and for DDR4 the long distances in a bank group | the same, and `LongAssumption` (the long parameters are naturals) |
| `NothingGoesWrong`, `RowsFollowed`, `StateStaysCurrent`, `SchedulersAgree` | no unchecked access of either scheduler misses and no deleted packet is referred to; commands follow the row of their bank; the deadlines and registers of RTA fit its queues; both command queues agree when they must | `DuetAssumption` (below) |
| `EstimateRefines`, `OldestFound`, `RequestsCovered`, `KnowledgeLowers` | the controller with the real estimator is a controller with a free estimate, so the theorems above hold of it; the estimator finds the oldest command of a request it remembers; every waiting request but a late activate has an estimate that reaches its transfer; B and C never estimate more than A | `DuetAssumption`, `ArrivalAssumption` (the tables have an entry for every requestor), `EstimatorAssumption` (timings are positive, the interference tables grow with the number of requestors, as those of the code do) |
| `ControllerServes`, `PathUsesService` | the controller implements `RequestService`, and the data path does to the requests nothing but what `RequestService` allows, each step by step | the assumptions of the two modules |
| `PendingIsExact`, `TransfersSpaced` | each transfer and each read on its way has its pending request; counters of transfers never meet or pass their end unseen | `DataPathAssumption`, and of the scheduler only that it implements `RequestService` |
| `CreditsExact`, `BuffersBounded`, `NetworkCredits` | credits and flits add up to the buffer size; no buffer overflows; for any ring, traffic and arbitration; and the same in the composition with the simple network | `RingAssumption`: at least two routers and channels, the two literals 10 (credits, buffer size) are equal, and no packet is larger than a buffer |
| `RingKeepsPackets` | the flits of two packets are never mixed, in a buffer, before a link or before the switch; an output channel belongs to one packet from its allocation until the tail has left; a client gets a packet that was sent to it, once, and after all of its flits | the same, and that a client sends packets of its own, each once |
| `NetworkKeepsPackets` | the same in the network MacSim builds; and with `simple_noc` a packet reaches the router it was sent to, is held by one side of it alone, and a side is charged with the flits of just the packets it holds | also `LayerAssumption`: routers are numbered layer by layer, as `init_simple_topology` creates them |
| `RequestsHeldOnce`, `DataInOpenRows`, `NothingStranded` | every request in MacSim's DRAM controller is in one place and there once; data moves only in the open row of its request and no bank is over-full; MCsim still owes a callback for the address of each pending request | `FrontendAssumption`, `NativeAssumption` (at least one bank and one entry, a bus that moves at least a byte per cycle; every address has a bank and a row) |
| `AccessesOwned`, `MergesAreSound`, `EntriesRight` | an access that waits for the memory is the business of exactly one request, which nobody drops; a merged request hangs on a live demand request of its own core and line; the list of a core holds its live requests, each once, and no more than it has entries | `SizesAssumption` (cores are numbered from 0, sizes are positive), `ScenariosAssumption` (below) |
| `ModifiedKept` | the last modified copy of a line disappears only when the memory controller has taken its write-back | the same, and `KeepsLines`: one of the two memory types whose three levels are caches, and no access to address 0; the other types and address 0 do lose lines (`LostScenarios`, below) |
| `PrefetchesFollow` | a trained entry prefetches along the one or two strides it was trained on, at most the distance ahead of the reads, whatever the queue refuses and whichever reads are left out of the training | `PrefAssumption`: a table and a queue of at least one entry, regions of at least one line, thresholds of at least 1; the other knobs are naturals |
| `PipelineInvariant`, `PipelineResources` | the inductive invariant of the core, and with it that every counter of resources agrees with the uops in flight | `PipelineAssumption`: an object in the pool, a reorder buffer and a scheduler list of at least one entry, and that only loads and stores are split into transactions |
| `PipelineOrder`, `PipelineIssueOrder` | the uops of a thread in flight are those of the trace between the last retired and the last fetched one, in order; the in-order core also starts them in order | the same |
| `PipelineRegisters` | a uop is executed only when the uops that write its source registers are done, however often the objects it points to were reused | the same |

`DuetAssumption` asks for a finite set of requestors, each a natural number,
rows that differ from "no row", deadlines of at least 2 and loops that start
from 0 to 8, the values for which the uninitialised index of `RequestQueue.cpp:70`
still starts or skips the scan. The number of requestors, addresses, waiting
requests and identities is arbitrary. What the two list-based modules need of
identities is only that an arriving request gets one that nothing alive has
(`FreeIds`), as a pointer is.

`ScenariosAssumption` asks for accesses of existing cores under one of the six memory
types, with the network each can run on, and for an in-queue that has room for the
MSHR entries of a core and its pooled stores: the code has 1024 places for 128
entries, and no bound at all for the stores of GPU cores of capability 2.0, which
take their request from a pool. Without that bound the invariant is false, since
`new_mem_req` forgets a request that the queue refuses (`memory.cc:2111`).

The inductive invariants, and why they are needed:

- *Clock* (`CrosserInv`, `WholeCycles`): `NoDrift` speaks about time, the code only has
  counters that are sometimes reset. `CountersTrackTime` ties the two together
  across resets, `Lag` says how far the counters can be apart at each point of
  `update`. That the counters are bounded does not follow from their bounded
  difference: it needs that each counter is a whole number of its clock's cycles
  (`Whole`), so that the reset, which only happens when the two are equal, is
  not jumped over.
- *Device* (`ReceiveIInv`, `CycleIInv`): `TimingRespected` is about the past, the
  check about the tree. `ChannelBound`, `RankBound` and `BankBound` say that each
  node still remembers a bound for every command ever received, which is what the
  maximum in `update_timing` is for; `BusChecked` carries the check from the cycle
  in which a command is decided to the one in which it arrives.
- *Timers* (`CInv`): the same for the timers (`TimerBound`, `BusReady`). The
  lemma `TimersCoverBank` compares the two independently written tables,
  `command_timing` and `init_timing`, entry by entry; the two special activates
  are the exception and are covered by the device (`Scopes`). The timers before a
  precharge are left out of the invariant, because DDR4 loses them in a missing
  break; there the check of the bank is what keeps the distance.
- *Window of four* (`HistoryExact`, `OnePerCycle`): the list of the last four
  activates is sorted and has no two equal times, because the device receives one
  command per cycle; every activate is in it or older than its oldest entry, so of
  five activates the first is bounded by what the oldest entry wrote into
  `next_rank`. Without `OnePerCycle` two activates could share an entry.
- *DDR4* (`DInv`): `GroupBound` is what the node between rank and bank remembers,
  `SpareChecked` that a command on its way passed the check for the cycle before
  it arrives, which is why DDR4 keeps one cycle more than the tables demand.
- *Duetto controller* (`Inv`): three actors change the queues between two memory
  cycles, so the invariant describes a bank by the state it is in: `Settled` (each
  queue is empty or holds what the row table asks for, for its own request), as
  its special case `Closing` (both hold precharge, activate and column command of
  the first request), `Closed` and `Opened` (both hold the rest of these). The row table and the open
  row differ only in the last two, which is the reason why a precharge has to
  synchronise the queues. `Decision` ties the command that was decided in one
  cycle to the head it is removed from in the next one; `Deadlines` and
  `Registers` say which entries of RTA's state may exist for an empty queue;
  `Identities` and `Unreferenced` stand for what pointers do, that an erased
  request or a deleted packet is named by nothing that is left.
- *Estimator* (`EstimateInv`): `RecordInv` adds what a record means
  (`Remembered`): it is kept only for a requestor that waits or whose column
  command has just been decided, and a request recorded as a row hit has no
  precharge at the head of its queue. The two are updated in
  different steps, so neither half is inductive without the controller's own
  invariant. The estimates themselves are maxima of finite sets; `Bounds` gives
  each branch a bound by a table, `FewerInFront` says that moving one requestor
  behind the others leaves no more in front of anyone else, and the tables grow.
- *Data path* (`PathIInv`): for each direction `PathInv` relates pending requests,
  transfers and the waiting requests of the service by identity; address matching
  takes the first pending request of the requestor, and is right only because
  transfers of one requestor and address are in the order of their requests,
  which is the order `RequestService` promises. `Spaced` is why a counter reaches
  its end exactly.
- *Ring* (`FlowInv`): conservation holds across the four places a credit can be
  in (counted, ready, fresh, or a flit in the buffer); the types of buffers and
  the bound on injection are needed because the lengths must be numbers.
  `OtherEnd` shows that `set_link` connects the ring consistently, so that a
  credit goes back to where its flit came from.
- *Packets on the ring* (`WholeInv`): `PacketsWhole` is about flits that are next to
  each other, but a stage brings flits together that were not. `Chain` therefore links
  every buffer to what comes next into it: behind the last flit of an input buffer comes
  the front of the output buffer at the other end of its link or, when that is empty,
  what the holder of that channel still has to send. That flit can be several routers
  away and no variable of the code names it; the proof keeps it for every holder
  (`own`, an existential inside the invariant), and `Owners` lets a channel have one
  holder only. That a flit is in one place, and that a flit and a later one of its
  packet are never in the wrong order, is `OnePlace` and `NoPassing`: an earlier flit
  never has further to go (`Left`, half-steps to the destination in the packet's
  direction). `Gates` adds that the flits which a holder has sent on are past its router
  and the others are not, so the tail that frees a channel is the last flit of its
  packet there. `OneStage` follows the packet as a whole: offered, in the injection
  buffer, in the network, with its client, or received. Of `FlowInv` only the types are
  needed: packets stay whole even if credits were wrong.
- *simple_noc* (`Direct`): a packet is still offered, with a side that sends or with
  the side that it enters, `Target`, which is a function of the packet alone; so two
  sides cannot both have it. That the entry of `m_caches` or `m_cores` which
  `packet_injection` computes is the destination (`RightReceiver`) needs that each list
  has the routers of its layer in order and without gaps (`FoundInLayer`).
  `m_pending_flits` is the sum over a list, and what is added and taken off are its two
  ends (`TotalMore`, `TotalLess`). The other topology stays as it was initialised
  (`Idle`, `Unused`).
- *DRAM controller* (`DramInv`): the four lists between the router and MCsim are
  without repetitions and have nothing in common (`Four`), and neither have they
  with what the banks hold (`BanksSound`); a bank holds only requests for it
  (`BankSound`), which is why answering for one bank cannot answer what another
  holds. Within a cycle without MCsim the replies are in none of these places yet:
  `Good` is what each part of the cycle keeps, and the loops over the banks are
  folds of operators that keep it.

- *Memory hierarchy* (`MemInv`): `Sound` relates three structures the code changes in
  different functions: the objects of the pool (`Table`), the list of each core
  (`Listed`), who is merged into whom (`MergedRight`) and which access a request is
  for (`Owned`). That a merged request hangs on an older one (`Precedes` in the list)
  is what makes the search for a line find the request that is not merged itself; that
  a write-back is never in a queue where misses are served is why nothing is merged
  into it. `InPlace` says where new requests are on their way down: never at an L1,
  and at the L2 only those of its own core, so that this queue holds no more than one
  core's entries and the unchecked insertion succeeds (`RoomLeft`). It needs the
  topologies and the map of routers, case by case. The contents of the
  caches may be anything here. `ModifiedKept` needs them: `DirtyInv` adds that a set
  of a cache holds a line at most once (`Holding`), that the L1s of GPU cores stay
  clean, and where a request can be in which state (`Way`): only an L2 or an L3 is
  asked or filled from below, a write-back is finished in the level it is filled in.
  Then each step is followed line by line (`StillThere`): a modified copy is in a
  cache or in a write-back, and what leaves the one enters the other.
- *Prefetcher* (`PrefInv`): `OnTheStream` says that some number of steps leads from the
  reads to the prefetches, or back when the reads have overtaken them. The number is kept
  by two counts that the code does not compare: `sent` bounds the lead (each request sent
  adds a step to both; a read takes a step from the lead, and one from `sent` unless it is 0,
  but then the start distance still bounds the lead), and the number of reads bounds
  the lag. With two strides a step depends on the place in the pattern, so that it is
  not enough to speak of the line: `Leads` and `Lags` say that the whole place is the
  same (`Meets`), from where both go on alike (`OnwardMeets`), whether a step is added in
  front or at the back (`OnwardSteps`). Neither half says anything of an entry in training;
  `Training` adds what makes it start on the stream when it reaches a threshold, of
  one stride or of two, in either state.
- *Core pipeline* (`IInv`, that is `Typed` and `Sound`): the code holds a uop by
  pointers in a queue, a slot of the reorder buffer, the list of the scheduler and the
  register map, and the pool hands its object out again as soon as the uop retires. The
  invariant is a predicate of the values of the whole core, in ten parts. `Homes` and
  `Ordered`: a uop in flight is in the frontend queue or in the reorder buffer of its
  thread, once, and there is one for each instruction between the last retired and the
  last fetched one, in order. `Owned`: a transaction belongs to one uop, and no object
  is both free and in use. `Answered`: an answer of the memory is for a uop that
  waits for it, and the answers that are owed are those that a uop still counts, so
  that no answer reaches an object after it was reused. `Rings` and `Waits`: the
  slots of the circular buffer are the list of uops that its two indices enclose, and
  an entry of an allocation queue is the slot of a uop that neither waits in the
  scheduler nor has been issued. `Scheduled` and `Counted`: the list of the scheduler holds each uop it has to start
  once, with holes, and the counters count. `InOrder`: in the in-order core, what
  stands before the scheduler's pointer has been issued and the rest has not. `Mapped`: the register
  map of a thread names the last writer fetched, by pointer and number, and a uop's
  sources are the last writers before it; a writer whose object was reused has retired.
  Events change several parts at once, and each of the actions is one of
  them: a uop begins (`BeginsWhole`), joins the reorder buffer (`JoinsWhole`), enters the
  scheduler (`EntersWhole`), starts (`StartsWhole`), drops out (`DropsWhole`),
  or nothing that matters changes (`CalmWhole`).

A fold is a recursive function on the subsets of a finite set.
Its value for every input needs an induction; the library's induction theorems
cannot be instantiated, so ListLemmas proves the instances it needs with the least
element of the counterexamples (`TakenInduction`, `FoldExists`, `FoldStays`,
`PrefixFold`). With them `Kept`, the loops over the banks and the sum in
`HeldOnce` are reasoned about for every list and every number of banks.

Only model-checked are: all liveness properties, which like `ENABLED` are outside
what the proof system handles; `DirtyNeverLost` for `no_cache`, which the run
checks and `ModifiedKept` leaves out; and ProcessManager and TraceReader, which
use recursive operators and are meant for TLC alone. `StoreOrder` and `WarpInOrder` of
the core pipeline are no theorems: the code violates them, as the next section says.

## What the code does differently from what it says

Found while translating; the models have the code's behaviour. Where an instance
is named, it is a definition of an MC module that can be put in the place of the
run's scenarios.

*Device and controller*

- `DDR3::scope` has 12 initialisers for 14 commands, written for a list without
  `ACT_R` and `ACT_W`. All scopes are shifted; `ACT` gets the rank. An activate
  therefore never opens its bank in the device (against the comment at
  `DRAM.h:112`), and the check of the device lets two activates of a bank pass
  closer than tRC (against `DRAM.h:116`). `BankTimingHolds` shows that the
  scheduler's timers prevent the second in the assembled controller.
- DDR4's tRRD_L is entered at a level that the check of an activate never visits
  (`DDR4.cpp:411`), and the switch at `Ramulator_DDR4.h:212` has no breaks.
- `RequestQueue.cpp:70` fills `requestorOrder` in a loop whose index is not
  initialised. From 8 or more the queue is never scanned and its requests are
  never scheduled: with `LoopStarts = {8}` in Duet.cfg, `EveryRequestServed`
  fails. `CommandQueue.cpp:58` is the same; all runs take both to be 0.
- `WCLator`: a request seen for the first time after its precharge has the
  estimate 0 (`CommandScheduler_DUET.h:843`; `EstimateCovers` names the
  exception); its timers read a table that stays empty with `CmdPerREQ=1`
  (`CommandScheduler.cpp:134`); an `else` is missing at 2117; implementation C
  moves the requestor of the command it is asked about behind all others, even if
  the command is not of its oldest request, and then estimates more than A
  (with three requestors and the tables for DDR3; `EstimatesOrdered` compares the
  two under the same order); with no requestor
  in `Order`, `LPRE[N - 1]` is written at 506.
- FR-FCFS of `dram.cc:1139` has no bound on how often row hits overtake.

*Memory hierarchy and network*

- With a disabled L2 (the `l2_decoupled` types) a modified line that leaves the
  L1 is lost, with a disabled L3 (`l2_coupled_local`) one that leaves the L2
  (`memory.cc:1302`; `LostScenarios` violates `DirtyNeverLost`).
- With `l2_decoupled_local`, `m_dst_map` (1883) names routers that do not exist, as
  the L2 has none there; only `noc_c` can serve this memory type.
- `new_mem_req` ignores whether the insertion succeeded (2111); a victim at
  address 0 counts as none, so that its modified line is dropped (1259; also in
  `LostScenarios`); `m_num_l3 & (m_num_l3 - 1) == 0` compares
  before it masks (2790, and `dram.cc:408`).
- `router.cc:1142` uses a cycle counter that no constructor sets; the models take
  it to start from 0. `router.cc:805` divides by the channels minus one.
  For `simple_noc` the constructor leaves `m_num_port` unset (`router.cc:169`)
  and allocates the buffers of the ports all the same.

*Cores, threads and traces*

- The dependence of a load on a store is dropped when the store's object was
  taken over from a source of the load (`map.cc:182`; `HidingConfigs` violates
  `StoreOrder`).
- A GPU warp may issue out of order, against the comment at `schedule_smc.cc:62`
  (`WarpConfigs` violates `WarpInOrder`).
- A condition at `allocate.cc:225` is never true, and `m_last_store` is never
  written.
- The counter of ended threads can reach its goal while a thread still runs
  (`retire.cc:221`; `EarlyScenarios` violates `NothingLeft`), and a block larger
  than a core's threads trips the assertion at `rob_smc.cc:164` under GPU
  scheduling (`StraddleScenarios` violates `CountersExact`).
- `process_manager.cc:844` reads a block after deleting it; a node is not
  released at 1084.
- The address space of a second process is computed in 32 bits
  (`trace_read.cc:1925`; `SpaceConfigs` violates `Replay`).
- Each memory uop of an uncoalesced instruction gives back a record that was read
  ahead, but only for the first one there is such a record (`trace_read.cc:1773`).
  The second access then starts at the first record of the group and takes it for
  the closing one, so that the rest of the group is delivered as an instruction of
  its own; or, at the beginning of the buffer, the file stands one record too early
  at the next refill. The assertion at 1871 can follow. `Replay` leaves this out (`TakenApart`); `ReplayAll`
  (in MCTraceReader) does not, and the instances of the run violate it.
- Of the further records of a group every load takes the first address (1886), so
  that a second load accesses the wrong lines (`TwoLoadConfigs` and
  `TwoLoadTraces` violate `Replay`). No trace of the run has one.
- A repeated move of size 0 turns the decoded instruction into a nop for good
  (1261), and the pieces of a longer one are hidden by the end mark of the first
  (1290): of repeated moves `Replay` only promises the pc.
- In `ungetch_trace` the case of a rewind that is only partly in the buffer (242)
  is never taken: a spent buffer leaves the index at 0. The model has the branch,
  and no instance reaches it.
- `pref_stride.cc:199` replaces the region used last, not the one unused longest.

## Abstractions and limits

- *Values.* Addresses, rows, packets and requests are members of small sets;
  data, statistics, debugging output and formatting are left out.
- *Duetto.* In DuetController the estimate is free, except that it is 0 for a
  requestor without real-time commands, so every switch between the schedulers
  that any estimate could cause is covered; DuetEstimate has the real one.
  `isReady` and `isIssuable` are free here and modelled in CommandIssue.
  DUET.ini gives every requestor its own banks: `isBlocked` and `isShared` never
  apply. Refresh is "none" and `postCommand` is never set in this configuration.
- *Data path.* Every transfer is one burst (request size equals bus width).
- *DRAM controller.* One channel; virtual channels are not partitioned between
  CPU and GPU.
- *Ring.* Timestamps are ranks, since arbitration only compares them. The run
  covers a network clocked as fast as the simulation and a slower one (ratio 3;
  the rotation of the first router is the only thing that depends on the exact
  ratio). What clients send and when they start is a scenario, and on the ring
  they always take what arrives. Only the default build (no `GPU_VALIDATION`, oldest-first
  arbitration).
- *Memory hierarchy.* Caches have one set. A queue is a set of requests, of which
  any may be the next ready one.
- *Core pipeline.* Cycle numbers are distances to the present. Outcomes of
  predictions and of cache accesses are free within `trouble`.
  `GPU_SCHEDULE_RATIO` is 1, and the fetch ratio is left out.
- *Process manager.* What a core does with an instruction takes any time.
  `KNOB_MAX_INSTS1` and `SIM_CYCLE_COUNT`, which cut a simulation off, are left
  out.
- *Trace reader.* Opcodes are merged into classes that the code treats alike.

## Not modelled

- The mesh, ideal and zero-latency variants of `router.cc`, and
  the binding to the external IRIS network.
- `pref_l2req_queue_filter` (`pref_common.cc:496`), which nothing calls.
- The constant, texture and shared memories of GPU cores (one level, fixed
  latency), and `handle_coherence`, which nothing calls.
- The other schedulers of MCsim: dead code in this revision, only DUET is
  registered and the others call an interface that has changed. The refresh
  machine, which is built as "none". The trace-driven requestors, a driver that
  is not linked into MacSim.
- Trace generators (offline tools), statistics, knobs and power counters, which
  do not influence control.

## Plan

1. *Done.* The path of an access from the trace to the device, in the modules
   above; the theorems on the clock, the devices, the timers, the controller, the
   data path, MacSim's DRAM controller, the memory hierarchy, the network and the core.
2. *Next theorems.* The counters of ProcessManager, once its nested calls are
   written as recursive functions.
3. *Left to model.* The mesh variant of the router; DuetController composed with
   CommandIssue, so that readiness is no longer free.
