---------------------------- MODULE MetricsWorker ----------------------------
(***************************************************************************)
(* The store of the metrics plugin (pkg/plugins/metrics/metrics.go): the     *)
(* firewall's tick pushes counters into j.values, the worker samples them    *)
(* once a second into j.vectors, and API requests read the vectors.          *)
(*                                                                          *)
(* Only Push takes the mutex.  The worker and the requests walk Go maps      *)
(* that others insert into: Go then ends the process ("concurrent map        *)
(* iteration and map write") or goes on, and a walk may or may not visit      *)
(* what is inserted meanwhile.  Each is an outcome here.                     *)
(*                                                                          *)
(* The firewall pushes counters only (run.go:110-113); the classes "rps" and *)
(* "times" are never pushed by this program and are left out.                *)
(***************************************************************************)
EXTENDS MetricsVector, FiniteSets, SequencesExt

CONSTANTS
  Names,     \* the names of the counters
  Readers,   \* slots for concurrent API requests
  MaxPushes  \* bound: pushes in one behaviour, each of the next value

ASSUME BoundAssumption == MaxPushes \in Nat

VARIABLES
  values,   \* values[k]: the counter's slice, empty in a new inner map
  made,     \* the keys of j.values
  prev,     \* the keys of j.prev
  vectors,  \* vectors[k]: the vector of the counter, empty while not charted
  recent,   \* history: the last Length samples of the counter, the latest first
  charted,  \* the keys of j.vectors
  push,     \* the Push that runs: its step and its name
  worker,   \* the worker: its step, its name and value, what it has to visit
  reading,  \* the requests being handled
  todo,     \* todo[r]: the vectors request r has still to visit
  pushes,   \* how many pushes have begun
  crashed   \* the process has ended

vars == <<values, made, prev, vectors, recent, charted, push, worker, reading, todo, pushes, crashed>>

Idle == [step |-> "idle", name |-> "none", value |-> 0, todo |-> {}]

TypeOK ==
  /\ \A k \in Names : values[k] \in {<<>>} \cup {<<x>> : x \in 0 .. MaxPushes}
  /\ made \subseteq Names /\ prev \subseteq made /\ charted \subseteq prev
  /\ vectors \in [Names -> Vectors(0 .. MaxPushes)]
  /\ \A k \in Names : recent[k] \in Seq(0 .. MaxPushes) /\ Len(recent[k]) <= Length
  /\ push.step \in {"idle", "slice", "store"}
  /\ worker.step \in {"idle", "walk", "chart", "sample"} /\ worker.todo \subseteq Names
  /\ reading \subseteq Readers /\ todo \in [Readers -> SUBSET Names]
  /\ pushes \in 0 .. MaxPushes /\ crashed \in BOOLEAN

Init ==
  /\ values = [k \in Names |-> <<>>] /\ made = {}
  /\ prev = {}
  /\ vectors = [k \in Names |-> NewMetricsVector] /\ charted = {}
  /\ recent = [k \in Names |-> <<>>]
  /\ push = [step |-> "idle", name |-> "none"]
  /\ worker = Idle
  /\ reading = {} /\ todo = [r \in Readers |-> {}]
  /\ pushes = 0 /\ crashed = FALSE

-----------------------------------------------------------------------------
(* Walking a Go map that may be written: a key inserted during the walk may  *)
(* be visited, or the runtime notices and ends the process.                  *)
Inserted(walk, k) == {walk, walk \cup {k}}
MayCrash(walked) == crashed' \in IF walked THEN BOOLEAN ELSE {FALSE}

-----------------------------------------------------------------------------
(* Push: the first push of a name makes its inner map, gives it a slice of    *)
(* one zero and then stores the value; later ones store only.                 *)

(* Slip: every push makes a new slice. *)
BeginPushAnew(k) ==
  /\ push.step = "idle" /\ pushes < MaxPushes
  /\ pushes' = pushes + 1
  /\ made' = made \cup {k}
  /\ push' = [step |-> "slice", name |-> k]
  /\ UNCHANGED <<values, prev, vectors, recent, charted, worker, reading, todo, crashed>>

BeginPush(k) ==
  /\ push.step = "idle" /\ pushes < MaxPushes
  /\ pushes' = pushes + 1
  /\ made' = made \cup {k}
  /\ push' = [step |-> IF k \in made THEN "store" ELSE "slice", name |-> k]
  /\ IF k \in made \/ worker.step = "idle"
     THEN UNCHANGED <<worker, crashed>>
     ELSE /\ MayCrash(TRUE)
          /\ \E t \in Inserted(worker.todo, k) : worker' = [worker EXCEPT !.todo = t]
  /\ UNCHANGED <<values, prev, vectors, recent, charted, reading, todo>>

MakeSlice ==
  /\ push.step = "slice"
  /\ push' = [push EXCEPT !.step = "store"]
  /\ values' = [values EXCEPT ![push.name] = <<0>>]
  /\ UNCHANGED <<made, prev, vectors, recent, charted, worker, reading, todo, pushes, crashed>>

(* The counter pushed is the number of the push: it grows. *)
StoreValue ==
  /\ push.step = "store"
  /\ push' = [step |-> "idle", name |-> "none"]
  /\ values' = [values EXCEPT ![push.name] = <<pushes>>]
  /\ UNCHANGED <<made, prev, vectors, recent, charted, worker, reading, todo, pushes, crashed>>

-----------------------------------------------------------------------------
(* ProcessingMetrics *)

Tick ==
  /\ worker.step = "idle"
  /\ worker' = [Idle EXCEPT !.step = "walk", !.todo = made]
  /\ UNCHANGED <<values, made, prev, vectors, recent, charted, push, reading, todo, pushes, crashed>>

(* Slip: a new vector is made for every sample. *)
VisitRecharts(k) ==
  /\ worker.step = "walk" /\ k \in worker.todo
  /\ IF values[k] = <<>>
     THEN crashed' = TRUE /\ UNCHANGED <<prev, worker>>
     ELSE /\ prev' = prev \cup {k}
          /\ worker' = [step  |-> IF k \notin prev THEN "walk" ELSE "chart",
                        name  |-> k,
                        value |-> Head(values[k]),
                        todo  |-> worker.todo \ {k}]
          /\ UNCHANGED crashed
  /\ UNCHANGED <<values, made, vectors, recent, charted, push, reading, todo, pushes>>

(* Slip: the first value of a name is not remembered. *)
VisitForgets(k) ==
  /\ worker.step = "walk" /\ k \in worker.todo
  /\ IF values[k] = <<>>
     THEN crashed' = TRUE /\ UNCHANGED <<prev, worker>>
     ELSE /\ UNCHANGED prev
          /\ worker' = [step  |-> IF k \notin prev THEN "walk"
                                  ELSE IF k \notin charted THEN "chart" ELSE "sample",
                        name  |-> k,
                        value |-> Head(values[k]),
                        todo  |-> worker.todo \ {k}]
          /\ UNCHANGED crashed
  /\ UNCHANGED <<values, made, vectors, recent, charted, push, reading, todo, pushes>>

(* A name that is visited for the first time is only remembered.  A name      *)
(* without a slice is an index out of range.                                  *)
Visit(k) ==
  /\ worker.step = "walk" /\ k \in worker.todo
  /\ IF values[k] = <<>>
     THEN crashed' = TRUE /\ UNCHANGED <<prev, worker>>
     ELSE /\ prev' = prev \cup {k}
          /\ worker' = [step  |-> IF k \notin prev THEN "walk"
                                  ELSE IF k \notin charted THEN "chart" ELSE "sample",
                        name  |-> k,
                        value |-> Head(values[k]),
                        todo  |-> worker.todo \ {k}]
          /\ UNCHANGED crashed
  /\ UNCHANGED <<values, made, vectors, recent, charted, push, reading, todo, pushes>>

Chart ==
  /\ worker.step = "chart"
  /\ worker' = [worker EXCEPT !.step = "sample"]
  /\ charted' = charted \cup {worker.name}
  /\ MayCrash(reading # {})
  /\ \E seen \in SUBSET reading :
       todo' = [r \in Readers |-> todo[r] \cup IF r \in seen THEN {worker.name} ELSE {}]
  /\ UNCHANGED <<values, made, prev, vectors, recent, push, reading, pushes>>

(* The first sample makes the vector's own map, which a request may read.     *)
Sample ==
  /\ worker.step = "sample"
  /\ worker' = [worker EXCEPT !.step = "walk"]
  /\ vectors' = [vectors EXCEPT ![worker.name] = PushValue(@, worker.value)]
  /\ recent' = [recent EXCEPT ![worker.name] =
       SubSeq(<<worker.value>> \o @, 1, IF Len(@) < Length THEN Len(@) + 1 ELSE Length)]
  /\ MayCrash(vectors[worker.name].values = <<>> /\ reading # {})
  /\ UNCHANGED <<values, made, prev, charted, push, reading, todo, pushes>>

EndWalk ==
  /\ worker.step = "walk" /\ worker.todo = {}
  /\ worker' = Idle
  /\ UNCHANGED <<values, made, prev, vectors, recent, charted, push, reading, todo, pushes, crashed>>

-----------------------------------------------------------------------------
(* GetMetrics, for GET /metrics and /metrics/:id *)

store == <<values, made, prev, vectors, recent, charted, push, worker, pushes, crashed>>

BeginRead(r) ==
  /\ r \notin reading
  /\ reading' = reading \cup {r}
  /\ todo' = [todo EXCEPT ![r] = charted]
  /\ UNCHANGED store

(* One ring is read in one step.  The code reads the slots below the write    *)
(* position it began with, and a sample meanwhile is written at or above it.  *)
ReadVector(r, k) ==
  /\ r \in reading /\ k \in todo[r]
  /\ todo' = [todo EXCEPT ![r] = @ \ {k}]
  /\ UNCHANGED <<store, reading>>

(* 200, or 404 if there was nothing to read. *)
EndRead(r) ==
  /\ r \in reading /\ todo[r] = {}
  /\ reading' = reading \ {r}
  /\ UNCHANGED <<store, todo>>

Pushing == (\E k \in Names : BeginPush(k)) \/ MakeSlice \/ StoreValue
Working == Tick \/ (\E k \in Names : Visit(k)) \/ Chart \/ Sample \/ EndWalk
Serving(r) == BeginRead(r) \/ (\E k \in Names : ReadVector(r, k)) \/ EndRead(r)

Next == ~crashed /\ (Pushing \/ Working \/ \E r \in Readers : Serving(r))

(* The ticker of the worker fires for ever, and a Push that has begun ends.   *)
Fairness == WF_vars(~crashed /\ Working) /\ WF_vars(~crashed /\ (MakeSlice \/ StoreValue))

Spec == Init /\ [][Next]_vars /\ Fairness

-----------------------------------------------------------------------------
(* Properties *)

Sampled(k) == recent[k] # <<>>

(* The missing locks can end the daemon only while it warms up: once every    *)
(* counter has its first sample, no map is written any more that another      *)
(* goroutine walks, and no interleaving of pushes, samples and requests ends   *)
(* the process (metrics.go:218-275, 277-352, 375-425).                        *)
CrashesOnlyWarmingUp == [][(\A k \in Names : Sampled(k)) => ~crashed']_vars

(* Although the worker samples a counter in the middle of a Push, what it      *)
(* charts is in order: no sample is newer than the counter, and none is older  *)
(* than the sample before it; a value half pushed shows as 0 only at the old   *)
(* end of a chart (metrics.go:227-231, 272-273, 296-312).                     *)
ChartsInOrder ==
  \A k \in Names :
    /\ \A i \in 1 .. (Len(recent[k]) - 1) : recent[k][i] >= recent[k][i + 1]
    /\ Sampled(k) /\ ~crashed => values[k] # <<>> /\ recent[k][1] <= Head(values[k])

(* What a request averages is recent: the values it reads from a vector are    *)
(* the latest samples, newest first, before and after the ring wraps, never a  *)
(* slot not written yet nor an older value in the place of a newer one         *)
(* (metrics.go:61-78, 95-110).                                                 *)
ReadsAreLatest == \A k \in Names : IsPrefix(GetLastValues(vectors[k]), recent[k])

(* "MetricsVector stores the last "length" values" (metrics.go:42): reading    *)
(* them returns as many samples as there are, up to the vector's length.       *)
ReadsAllStored ==
  \A k \in Names : Len(GetLastValues(vectors[k])) = Len(recent[k])

(* Every counter that is pushed comes to be charted, although the worker only  *)
(* remembers it the first time it sees it (metrics.go:298-301).                *)
PushedIsCharted == \A k \in Names : k \in made ~> (Sampled(k) \/ crashed)

=============================================================================
