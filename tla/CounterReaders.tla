---------------------------- MODULE CounterReaders ----------------------------
(***************************************************************************)
(* The readers of the counters, beside the data plane that writes them: the *)
(* API handlers apiStats and apiMetrics and the tick that pushes the        *)
(* counters into the metrics plugin (pkg/plugins/firewall/api.go, run.go,   *)
(* maps.go).                                                                *)
(*                                                                          *)
(* A map is read one slot per system call, and a slot of the per-CPU map    *)
(* one CPU after the other, while every CPU counts on: what a reader shows  *)
(* is the state of no moment.  The order of the reads decides what can be   *)
(* relied on nevertheless.  CPUs have no order here, so a slot's CPUs are    *)
(* read in any.  Opening, closing and pushing touch nothing that others use;  *)
(* they are taken together with the reads next to them.                      *)
(***************************************************************************)
EXTENDS XdpProgram, Sequences

CONSTANTS
  Ticker,   \* the goroutine of TickServer
  Handlers, \* slots for concurrent API requests
  Tasks     \* the tasks that are started, of "stats", "metrics" and "tick"

ASSUME TickerAssumption == Ticker \notin Handlers
ASSUME TasksAssumption == Tasks \subseteq {"stats", "metrics", "tick"}

Readers == Handlers \cup {Ticker}
Maps == {"stats", "metrics", "perf"}
Buckets == 0 .. (PerfSlots - 1)

VARIABLES
  reading,  \* reading[r]: what reader r is doing and what it has read
  pushed    \* what the tick pushed last, as the metrics plugin keeps it

readers == <<reading, pushed>>

-----------------------------------------------------------------------------
(* Slip: the histogram is read first. *)
RoutePerfFirst == [none    |-> <<>>,
                   stats   |-> <<"stats">>,
                   metrics |-> <<"perf", "metrics">>,
                   tick    |-> <<"perf", "metrics", "stats">>]

(* The maps each task reads, one after the other. *)
Route == [none    |-> <<>>,
          stats   |-> <<"stats">>,
          metrics |-> <<"metrics", "perf">>,
          tick    |-> <<"metrics", "stats", "perf">>]

(* Slips: the passed frames are read first; rx has the last index.           *)
SlotsPassedFirst == [stats   |-> <<"passed", "v4_match", "v6_match", "total">>,
                     metrics |-> <<"rx", "pass", "drop", "allow_hit", "block_v4", "block_v6">>,
                     perf    |-> [i \in 1 .. PerfSlots |-> i - 1]]
SlotsRxLast == [stats   |-> <<"total", "v4_match", "v6_match", "passed">>,
                metrics |-> <<"pass", "drop", "allow_hit", "block_v4", "block_v6", "rx">>,
                perf    |-> [i \in 1 .. PerfSlots |-> i - 1]]

(* The order of the labels in StatsMap.Entries, and of the array indexes.    *)
Slots == [stats   |-> <<"total", "v4_match", "v6_match", "passed">>,
          metrics |-> <<"rx", "pass", "drop", "allow_hit", "block_v4", "block_v6">>,
          perf    |-> [i \in 1 .. PerfSlots |-> i - 1]]

Nothing == [stats   |-> [s \in StatSlots |-> 0],
            metrics |-> [s \in MetricSlots |-> 0],
            perf    |-> [b \in Buckets |-> 0]]

(* What is left to read of the map a route begins with. *)
Unread(route) == IF route = <<>> THEN <<>> ELSE Slots[Head(route)]

(* A reader's local state: the task, the maps still to be read (the first of *)
(* them is the one it is at), the slots it still has to read of that one and  *)
(* the CPUs of the slot, what it has read, and which maps it has read to the  *)
(* end.                                                                      *)
Reading(task) ==
  [task |-> task, route |-> Route[task], todo |-> Unread(Route[task]), cpus |-> Cpus,
   got |-> Nothing, complete |-> {}]

(* No sum a reader forms exceeds the frames there were. *)
ReadersTypeOK ==
  /\ \A r \in Readers :
       LET g == reading[r]
       IN  /\ g.task \in DOMAIN Route
           /\ g.route \in Seq(Maps)
           /\ LET slots == Unread(g.route)
              IN  \E i \in 1 .. (Len(slots) + 1) : g.todo = SubSeq(slots, i, Len(slots))
           /\ g.cpus \in (SUBSET Cpus) \ {{}}
           /\ g.got \in [stats : [StatSlots -> 0 .. MaxFrames],
                         metrics : [MetricSlots -> 0 .. MaxFrames],
                         perf : [Buckets -> 0 .. MaxFrames]]
           /\ g.complete \subseteq Maps
  /\ pushed \in [stats : [StatSlots -> Nat], metrics : [MetricSlots -> Nat],
                 perf_samples : Nat]

ReadersInit ==
  /\ reading = [r \in Readers |-> Reading("none")]
  /\ pushed = [stats |-> Nothing.stats, metrics |-> Nothing.metrics, perf_samples |-> 0]

-----------------------------------------------------------------------------
Busy(r) == reading[r].task # "none"
At(r) == Head(reading[r].route)

(* A request for the stats or for the metrics, or the timer of TickServer.    *)
StartTask(r, task) ==
  /\ ~Busy(r)
  /\ task = "tick" <=> r = Ticker
  /\ reading' = [reading EXCEPT ![r] = Reading(task)]
  /\ UNCHANGED pushed

(* What the tick pushes of a map it has read; the histogram as one sum.      *)
Pushed(map, got) ==
  CASE map = "stats"   -> [pushed EXCEPT !.stats = got.stats]
    [] map = "metrics" -> [pushed EXCEPT !.metrics = got.metrics]
    [] map = "perf"    -> [pushed EXCEPT !.perf_samples =
                             MapThenSumSet(LAMBDA b : got.perf[b], Buckets)]

Skip(r) == [reading EXCEPT ![r].route = Tail(@), ![r].todo = Unread(Tail(reading[r].route))]

(* The read of a slot: with the last slot of a map the reader closes the map,  *)
(* pushes what it has read if it is the tick, and goes to the next map.        *)
GotSlot(r, got) ==
  IF Len(reading[r].todo) > 1
  THEN /\ reading' = [reading EXCEPT ![r].got = got, ![r].todo = Tail(@), ![r].cpus = Cpus]
       /\ UNCHANGED pushed
  ELSE /\ reading' = [Skip(r) EXCEPT ![r].got = got, ![r].cpus = Cpus,
                                     ![r].complete = @ \cup {At(r)}]
       /\ pushed' = IF r = Ticker THEN Pushed(At(r), got) ELSE pushed

(* Slip: a CPU that was read is not struck off. *)
ReadCpuAgain(r, c) ==
  /\ reading[r].todo # <<>> /\ At(r) = "stats"
  /\ LET slot == Head(reading[r].todo)
         got == [reading[r].got EXCEPT !.stats[slot] = @ + stats[c][slot]]
     IN  \/ GotSlot(r, got)
         \/ reading' = [reading EXCEPT ![r].got = got] /\ UNCHANGED pushed

(* Adding one CPU's value to the sum of a slot.  The slot is done with its    *)
(* last CPU.                                                                 *)
ReadCpu(r, c) ==
  /\ reading[r].todo # <<>> /\ At(r) = "stats"
  /\ c \in reading[r].cpus
  /\ LET slot == Head(reading[r].todo)
         got == [reading[r].got EXCEPT !.stats[slot] = @ + stats[c][slot]]
     IN  IF reading[r].cpus = {c}
         THEN GotSlot(r, got)
         ELSE /\ reading' = [reading EXCEPT ![r].got = got, ![r].cpus = @ \ {c}]
              /\ UNCHANGED pushed

(* One step of the iterator over a plain array. *)
ReadSlot(r) ==
  /\ reading[r].todo # <<>> /\ At(r) # "stats"
  /\ LET slot == Head(reading[r].todo)
         got == reading[r].got
     IN  GotSlot(r, IF At(r) = "metrics" THEN [got EXCEPT !.metrics[slot] = metrics[slot]]
                                         ELSE [got EXCEPT !.perf[slot] = perf[slot]])

AtStart(r) == reading[r].route # <<>> /\ reading[r].todo = Slots[At(r)] /\ reading[r].cpus = Cpus

(* Slip: the counters are pushed outside the test of the error. *)
OpenFailsPushes(r) ==
  /\ AtStart(r)
  /\ reading' = Skip(r)
  /\ pushed' = IF r = Ticker THEN Pushed(At(r), reading[r].got) ELSE pushed

(* A map that cannot be opened is left out of the answer, or of the push.    *)
OpenFails(r) ==
  /\ AtStart(r)
  /\ reading' = Skip(r)
  /\ UNCHANGED pushed

(* The answer (503 if no map could be read), or the end of the tick.         *)
Finish(r) ==
  /\ Busy(r) /\ reading[r].route = <<>>
  /\ reading' = [reading EXCEPT ![r] = Reading("none")]
  /\ UNCHANGED pushed

Read(r) ==
  \/ \E task \in Tasks : StartTask(r, task)
  \/ OpenFails(r)
  \/ \E c \in Cpus : ReadCpu(r, c)
  \/ ReadSlot(r) \/ Finish(r)

(* The data plane, without the history of its verdicts: no counter depends on *)
(* it.                                                                       *)
DataPlane == ((\E c \in Cpus : Program(c)) \/ Administrator) /\ UNCHANGED seen

ReadersNext ==
  \/ DataPlane /\ UNCHANGED readers
  \/ (\E r \in Readers : Read(r)) /\ UNCHANGED vars

ReadersSpec == Init /\ ReadersInit /\ [][ReadersNext]_<<vars, readers>>

-----------------------------------------------------------------------------
(* Properties of what a reader has read, judged when it has read everything.  *)

Done(r, map) == Busy(r) /\ reading[r].route = <<>> /\ map \in reading[r].complete

(* How many frames can be in flight: one on each CPU that received any. *)
InFlightAtMost == Cardinality({c \in Cpus : stats[c].total > 0})

(* The stats an operator reads explain every frame: those that were counted   *)
(* and not passed were counted as matches, all but those that may have been   *)
(* in flight.  It holds because packets_total is read before the slots that    *)
(* account for it, although the frames counted in between may make passed     *)
(* larger than total (maps.go:272-291).                                       *)
StatsExplained ==
  \A r \in Readers : Done(r, "stats") =>
    LET s == reading[r].got.stats
    IN  s["total"] <= s["passed"] + s["v4_match"] + s["v6_match"] + InFlightAtMost

(* Of the metrics too: every frame received was passed or dropped, but for    *)
(* those in flight, and no more frames are shown as dropped than as block     *)
(* hits (maps.go:325-338; bpf/xdpfw.bpf.c:152, 187, 189, 219).                *)
MetricsExplained ==
  \A r \in Readers : Done(r, "metrics") =>
    LET m == reading[r].got.metrics
    IN  /\ m["rx"] <= m["pass"] + m["drop"] + InFlightAtMost
        /\ m["drop"] <= m["block_v4"] + m["block_v6"]

(* The histogram, read after the other maps, has a sample for every frame     *)
(* they show, but for those in flight (run.go:110-155, api.go:225-247).       *)
SamplesExplained ==
  \A r \in Readers : Done(r, "perf") /\ options.perf =>
    LET g == reading[r].got
        samples == MapThenSumSet(LAMBDA b : g.perf[b], Buckets) + InFlightAtMost
    IN  /\ "metrics" \in reading[r].complete => g.metrics["rx"] <= samples
        /\ "stats" \in reading[r].complete => g.stats["total"] <= samples

(* The counters that the tick exports never go back, also when a map cannot   *)
(* be opened for a while (run.go:104-156).                                    *)
ExportsMonotone ==
  [][ /\ \A s \in StatSlots : pushed'.stats[s] >= pushed.stats[s]
      /\ \A s \in MetricSlots : pushed'.metrics[s] >= pushed.metrics[s]
      /\ pushed'.perf_samples >= pushed.perf_samples ]_pushed

=============================================================================
