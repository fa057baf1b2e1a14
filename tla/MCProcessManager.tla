-------------------------- MODULE MCProcessManager --------------------------
(* Small traces and knob settings for the process manager. *)
EXTENDS ProcessManager

T(b, s, n) == [block |-> b, start |-> s, insts |-> n]
X86(threads) == [ptx |-> FALSE, kernels |-> <<threads>>]
Ptx(kernels) == [ptx |-> TRUE, kernels |-> kernels]

Base == [apps |-> <<>>, cores |-> <<>>, maxThreads |-> 1, maxBlock |-> 1, maxInsts |-> 9,
         uops |-> 1, repeat |-> FALSE, repeatN |-> 0, coresPerAppl |-> 0, gpuSched |-> FALSE]

MCProcessors == 1..2
MCPlaces == 1..6

MCScenarios == {
  \* three threads on two cores, two uops to the instruction
  [Base EXCEPT !.apps = <<X86(<<T(0, 0, 2), T(0, 2, 1), T(0, 0, 1)>>)>>,
               !.cores = <<FALSE, FALSE>>, !.uops = 2],
  \* two applications share a core, cut off after one instruction
  [Base EXCEPT !.apps = <<X86(<<T(0, 0, 2), T(0, 1, 2)>>), X86(<<T(0, 0, 2)>>)>>,
               !.cores = <<FALSE>>, !.maxThreads = 2, !.maxInsts = 1],
  \* the second uop of a thread that has ended with its first
  [Base EXCEPT !.apps = <<X86(<<T(0, 0, 2)>>)>>, !.cores = <<FALSE>>, !.maxInsts = 1, !.uops = 2],
  \* an application that is repeated until the other one is through
  [Base EXCEPT !.apps = <<X86(<<T(0, 0, 1)>>), X86(<<T(0, 0, 2)>>)>>,
               !.cores = <<FALSE, FALSE>>, !.repeat = TRUE],
  \* the main thread's block and one that comes into being in two parts, then a second kernel
  [Base EXCEPT !.apps = <<Ptx(<<<<T(0, 0, 3), T(1, 1, 1), T(1, 3, 1)>>, <<T(2, 0, 1)>>>>)>>,
               !.cores = <<TRUE, TRUE>>, !.maxThreads = 2],
  \* a block that is larger than a core has places
  [Base EXCEPT !.apps = <<Ptx(<<<<T(0, 0, 2), T(0, 2, 1), T(0, 0, 1), T(1, 0, 1)>>>>)>>,
               !.cores = <<TRUE>>, !.maxThreads = 2, !.maxBlock = 2],
  \* a core to each of two applications, which run twice
  [Base EXCEPT !.apps = <<Ptx(<<<<T(0, 0, 1), T(1, 0, 1)>>>>), Ptx(<<<<T(0, 0, 2), T(0, 0, 1)>>>>)>>,
               !.cores = <<TRUE, TRUE>>, !.maxThreads = 2, !.coresPerAppl = 1,
               !.repeat = TRUE, !.repeatN = 2],
  \* GPU scheduling, and more blocks than cores
  [Base EXCEPT !.apps = <<Ptx(<<<<T(0, 0, 1), T(1, 0, 1), T(2, 0, 1)>>, <<T(3, 0, 1)>>>>)>>,
               !.cores = <<TRUE, TRUE>>, !.gpuSched = TRUE],
  \* a processor and a graphics processor
  [Base EXCEPT !.apps = <<X86(<<T(0, 0, 1), T(0, 1, 1)>>), Ptx(<<<<T(0, 0, 1), T(0, 0, 1)>>>>)>>,
               !.cores = <<FALSE, TRUE>>, !.maxThreads = 2] }

\* an instruction of two uops is the last one the knob allows
EarlyScenarios == {
  [Base EXCEPT !.apps = <<X86(<<T(0, 0, 2), T(0, 1, 2), T(0, 0, 2)>>)>>, !.cores = <<FALSE>>,
               !.maxThreads = 3, !.maxInsts = 2, !.uops = 2] }

\* with GPU scheduling, a block larger than the threads a core may run
StraddleScenarios == {
  [Base EXCEPT !.apps = <<Ptx(<<<<T(0, 0, 1), T(0, 0, 1), T(0, 0, 1)>>>>)>>,
               !.cores = <<TRUE>>, !.maxThreads = 2, !.gpuSched = TRUE] }
=============================================================================
