--------------------------- MODULE MCCounterReaders ---------------------------
(***************************************************************************)
(* A small instance of CounterReaders for TLC: CPUs that receive frames from *)
(* one source, which the lists may cover from the start, while the counters  *)
(* are read.  Nobody changes the lists meanwhile (MaxUpdates is 0).          *)
(***************************************************************************)
EXTENDS CounterReaders, TLC

MCPrefixesOf == [v4 |-> {"host"}, v6 |-> {}]
MCCovered == [host |-> {"a"}]

V4Frame == [len |-> 34, tags |-> 0, l3 |-> "v4", src |-> "a"]
V4Frames == {V4Frame}

AllCounters == [dryrun : {FALSE}, metrics : {TRUE}, perf : {TRUE}]

CpuSymmetry == Permutations(Cpus)
=============================================================================
