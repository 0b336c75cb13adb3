------------------------- MODULE CounterReadersProofs -------------------------
(***************************************************************************)
(* Theorems about CounterReaders: for any number of CPUs, readers and       *)
(* frames, counters that are read one after the other while every CPU goes   *)
(* on counting still explain the frames they show.                          *)
(***************************************************************************)
EXTENDS CounterReaders, XdpProofs, SequenceTheorems

-----------------------------------------------------------------------------
(* Where a reader is *)

StatRank == [total |-> 1, v4_match |-> 2, v6_match |-> 3, passed |-> 4]
MetricRank == [rx |-> 1, pass |-> 2, drop |-> 3, allow_hit |-> 4, block_v4 |-> 5, block_v6 |-> 6]

(* What can be left of a map and of a task. *)
StatTodos == {<<"total", "v4_match", "v6_match", "passed">>,
              <<"v4_match", "v6_match", "passed">>, <<"v6_match", "passed">>, <<"passed">>}
MetricTodos == {<<"rx", "pass", "drop", "allow_hit", "block_v4", "block_v6">>,
                <<"pass", "drop", "allow_hit", "block_v4", "block_v6">>,
                <<"drop", "allow_hit", "block_v4", "block_v6">>,
                <<"allow_hit", "block_v4", "block_v6">>,
                <<"block_v4", "block_v6">>, <<"block_v6">>}
Routes == {<<>>, <<"stats">>, <<"perf">>, <<"metrics", "perf">>, <<"stats", "perf">>,
           <<"metrics", "stats", "perf">>}

(* Reading a slot leaves the slots of higher rank: of the stats, *)
LEMMA StatWalk ==
  ASSUME NEW todo \in StatTodos
  PROVE  /\ todo # <<>> /\ Len(todo) \in 1 .. 4
         /\ Head(todo) \in StatSlots /\ StatRank[Head(todo)] = 5 - Len(todo)
         /\ Len(todo) > 1 => Tail(todo) \in StatTodos /\ Len(Tail(todo)) = Len(todo) - 1
<1>1. CASE todo = <<"total", "v4_match", "v6_match", "passed">>
  BY <1>1 DEF StatTodos, StatSlots, StatRank
<1>2. CASE todo = <<"v4_match", "v6_match", "passed">>
  BY <1>2 DEF StatTodos, StatSlots, StatRank
<1>3. CASE todo = <<"v6_match", "passed">>
  BY <1>3 DEF StatTodos, StatSlots, StatRank
<1>4. CASE todo = <<"passed">>
  BY <1>4 DEF StatTodos, StatSlots, StatRank
<1> QED
  BY <1>1, <1>2, <1>3, <1>4 DEF StatTodos

(* and of the metrics. *)
LEMMA MetricWalk ==
  ASSUME NEW todo \in MetricTodos
  PROVE  /\ todo # <<>> /\ Len(todo) \in 1 .. 6
         /\ Head(todo) \in MetricSlots /\ MetricRank[Head(todo)] = 7 - Len(todo)
         /\ Len(todo) > 1 => Tail(todo) \in MetricTodos /\ Len(Tail(todo)) = Len(todo) - 1
<1>1. CASE todo = <<"rx", "pass", "drop", "allow_hit", "block_v4", "block_v6">>
  BY <1>1 DEF MetricTodos, MetricSlots, MetricRank
<1>2. CASE todo = <<"pass", "drop", "allow_hit", "block_v4", "block_v6">>
  BY <1>2 DEF MetricTodos, MetricSlots, MetricRank
<1>3. CASE todo = <<"drop", "allow_hit", "block_v4", "block_v6">>
  BY <1>3 DEF MetricTodos, MetricSlots, MetricRank
<1>4. CASE todo = <<"allow_hit", "block_v4", "block_v6">>
  BY <1>4 DEF MetricTodos, MetricSlots, MetricRank
<1>5. CASE todo = <<"block_v4", "block_v6">>
  BY <1>5 DEF MetricTodos, MetricSlots, MetricRank
<1>6. CASE todo = <<"block_v6">>
  BY <1>6 DEF MetricTodos, MetricSlots, MetricRank
<1> QED
  BY <1>1, <1>2, <1>3, <1>4, <1>5, <1>6 DEF MetricTodos

(* Leaving a map leaves the maps after it. *)
LEMMA RouteWalk ==
  ASSUME NEW route \in Routes, route # <<>>
  PROVE  /\ Head(route) \in Maps /\ Tail(route) \in Routes
         /\ Head(route) = "stats" => Tail(route) \in {<<>>, <<"perf">>}
         /\ Head(route) = "metrics" => Tail(route) \in {<<"perf">>, <<"stats", "perf">>}
         /\ Head(route) = "perf" => Tail(route) = <<>>
<1>1. CASE route = <<"stats">>
  BY <1>1 DEF Routes, Maps
<1>2. CASE route = <<"perf">>
  BY <1>2 DEF Routes, Maps
<1>3. CASE route = <<"metrics", "perf">>
  BY <1>3 DEF Routes, Maps
<1>4. CASE route = <<"stats", "perf">>
  BY <1>4 DEF Routes, Maps
<1>5. CASE route = <<"metrics", "stats", "perf">>
  BY <1>5 DEF Routes, Maps
<1> QED
  BY <1>1, <1>2, <1>3, <1>4, <1>5 DEF Routes

(* Each map is read from its first slot on. *)
LEMMA FirstSlots ==
  /\ Slots["stats"] \in StatTodos /\ Len(Slots["stats"]) = 4
  /\ Slots["metrics"] \in MetricTodos /\ Len(Slots["metrics"]) = 6
<1>1. Slots["stats"] = <<"total", "v4_match", "v6_match", "passed">>
  BY DEF Slots
<1>2. Slots["metrics"] = <<"rx", "pass", "drop", "allow_hit", "block_v4", "block_v6">>
  BY DEF Slots
<1> QED
  BY <1>1, <1>2 DEF StatTodos, MetricTodos

Visits(r, map) == reading[r].route # <<>> /\ At(r) = map

(* What a reader's local state looks like. *)
Fields == {"task", "route", "todo", "cpus", "got", "complete"}

Formed(r) ==
  /\ DOMAIN reading[r] = Fields
  /\ DOMAIN reading[r].got = Maps
  /\ reading[r].got.stats \in [StatSlots -> Nat]
  /\ reading[r].got.metrics \in [MetricSlots -> Nat]

Placed(r) ==
  /\ reading[r].route \in Routes
  /\ reading[r].route = <<>> => reading[r].todo = <<>>
  /\ Visits(r, "stats") => reading[r].todo \in StatTodos /\ "stats" \notin reading[r].complete
  /\ Visits(r, "metrics") => /\ reading[r].todo \in MetricTodos
                             /\ "stats" \notin reading[r].complete
                             /\ "metrics" \notin reading[r].complete
  /\ ~Visits(r, "stats") => reading[r].cpus = Cpus
  /\ reading[r].cpus \subseteq Cpus

Shape(r) == Formed(r) /\ Placed(r)

(* How far it is: the rank of the slot it is at, above all of them when it has *)
(* read the map, below all of them when it has not begun.                      *)
StatsAt(r) ==
  IF "stats" \in reading[r].complete THEN 5
  ELSE IF Visits(r, "stats") THEN 5 - Len(reading[r].todo) ELSE 0

MetricsAt(r) ==
  IF "metrics" \in reading[r].complete THEN 7
  ELSE IF Visits(r, "metrics") THEN 7 - Len(reading[r].todo) ELSE 0

(* The CPUs whose value of a slot it has read, and whether it has read a metric. *)
ReadFrom(r, s) ==
  IF StatRank[s] < StatsAt(r) THEN Cpus
  ELSE IF StatRank[s] = StatsAt(r) THEN Cpus \ reading[r].cpus ELSE {}

HasRead(r, s) == MetricRank[s] < MetricsAt(r)

(* Slots have different ranks, from 1 on. *)
LEMMA RankTypes ==
  /\ \A s \in StatSlots : StatRank[s] \in 1 .. 4
  /\ \A s \in MetricSlots : MetricRank[s] \in 1 .. 6
  /\ \A s, t \in StatSlots : StatRank[s] = StatRank[t] => s = t
  /\ \A s, t \in MetricSlots : MetricRank[s] = MetricRank[t] => s = t
BY DEF StatRank, MetricRank, StatSlots, MetricSlots

(* A step of a reader changes the local state of no other.                    *)
OnlyOf(r) == DOMAIN reading' = Readers /\ \A q \in Readers \ {r} : reading'[q] = reading[q]

(* The effect of GotSlot on the fields of its reader. *)
LEMMA GotSlotEffect ==
  ASSUME DOMAIN reading = Readers, NEW r \in Readers, Formed(r), NEW got, GotSlot(r, got)
  PROVE  /\ OnlyOf(r)
         /\ DOMAIN reading'[r] = Fields /\ reading'[r].got = got /\ reading'[r].cpus = Cpus
         /\ Len(reading[r].todo) > 1 =>
              /\ reading'[r].route = reading[r].route /\ reading'[r].complete = reading[r].complete
              /\ reading'[r].todo = Tail(reading[r].todo)
         /\ ~(Len(reading[r].todo) > 1) =>
              /\ reading'[r].route = Tail(reading[r].route)
              /\ reading'[r].complete = reading[r].complete \cup {At(r)}
              /\ reading'[r].todo = Unread(Tail(reading[r].route))
<1>1. CASE Len(reading[r].todo) > 1
  <2>1. reading' = [reading EXCEPT ![r].got = got, ![r].todo = Tail(@), ![r].cpus = Cpus]
    BY <1>1 DEF GotSlot
  <2> QED
    BY <1>1, <2>1 DEF OnlyOf, Formed, Fields
<1>2. CASE ~(Len(reading[r].todo) > 1)
  <2>1. reading' = [Skip(r) EXCEPT ![r].got = got, ![r].cpus = Cpus,
                                   ![r].complete = @ \cup {At(r)}]
    BY <1>2 DEF GotSlot
  <2> QED
    BY <1>2, <2>1 DEF OnlyOf, Formed, Fields, Skip
<1> QED
  BY <1>1, <1>2

(* The effect of a map that cannot be opened. *)
LEMMA OpenFailsEffect ==
  ASSUME DOMAIN reading = Readers, NEW r \in Readers, Formed(r), OpenFails(r)
  PROVE  /\ OnlyOf(r)
         /\ DOMAIN reading'[r] = Fields /\ reading'[r].got = reading[r].got
         /\ reading'[r].cpus = Cpus
         /\ reading'[r].route = Tail(reading[r].route)
         /\ reading'[r].complete = reading[r].complete
         /\ reading'[r].todo = Unread(Tail(reading[r].route))
BY DEF OpenFails, AtStart, OnlyOf, Formed, Fields, Skip

(* Going on to the next map of the task.  The map that is left counts as read  *)
(* if it is marked as such; what is known of the others stays as it was.       *)
LEMMA NextMap ==
  ASSUME NEW r \in Readers, Placed(r), reading[r].route # <<>>,
         reading'[r].route = Tail(reading[r].route),
         reading'[r].todo = Unread(Tail(reading[r].route)),
         reading'[r].cpus = Cpus,
         reading'[r].complete \in {reading[r].complete, reading[r].complete \cup {At(r)}}
  PROVE  /\ Placed(r)'
         /\ At(r) # "stats" => \A s \in StatSlots : ReadFrom(r, s)' = ReadFrom(r, s)
         /\ At(r) = "stats" => \A s \in StatSlots :
              ReadFrom(r, s)' = IF "stats" \in reading'[r].complete THEN Cpus ELSE {}
         /\ At(r) # "metrics" => \A s \in MetricSlots : HasRead(r, s)' = HasRead(r, s)
         /\ At(r) = "metrics" => \A s \in MetricSlots :
              HasRead(r, s)' = ("metrics" \in reading'[r].complete)
<1> DEFINE here == At(r)
           next == Tail(reading[r].route)
<1>1. /\ here \in Maps /\ next \in Routes
      /\ here = "stats" => next \in {<<>>, <<"perf">>}
      /\ here = "metrics" => next \in {<<"perf">>, <<"stats", "perf">>}
      /\ here = "perf" => next = <<>>
  BY RouteWalk DEF Placed, At
<1>2. reading'[r].route = next
  OBVIOUS
<1>3. Visits(r, here) /\ \A map : Visits(r, map) => map = here
  BY DEF Visits
<1>4. next = <<>> => \A map : ~Visits(r, map)'
  BY <1>2 DEF Visits
<1>5. Head(<<"perf">>) = "perf" /\ Head(<<"stats", "perf">>) = "stats"
      /\ <<"stats", "perf">> # <<>>
  OBVIOUS
<1>6. \A map : Visits(r, map)' => map = Head(next)
  BY <1>2, Zenon DEF Visits, At
<1>7. next = <<"stats", "perf">> => reading'[r].todo = Slots["stats"]
  <2>1. reading'[r].todo = IF next = <<>> THEN <<>> ELSE Slots[Head(next)]
    BY DEF Unread
  <2> QED
    BY <1>5, <2>1, Zenon
<1> HIDE DEF next, here
<1>8. next \in {<<>>, <<"perf">>, <<"stats", "perf">>} /\ ~Visits(r, "metrics")'
      /\ (Visits(r, "stats")' => here = "metrics" /\ next = <<"stats", "perf">>)
  BY <1>1, <1>4, <1>5, <1>6 DEF Maps
<1>9. reading'[r].complete \subseteq reading[r].complete \cup {here}
  BY DEF here
<1>10. Placed(r)'
  <2>1. ASSUME Visits(r, "stats")'
        PROVE  reading'[r].todo \in StatTodos /\ "stats" \notin reading'[r].complete
    BY <1>3, <1>7, <1>8, <1>9, <2>1, FirstSlots DEF Placed
  <2>2. reading'[r].route = <<>> => reading'[r].todo = <<>>
    BY <1>2, Zenon DEF Unread
  <2> QED
    BY <1>1, <1>2, <1>8, <2>1, <2>2 DEF Placed
<1>11. ASSUME NEW s \in StatSlots
       PROVE  /\ here # "stats" => ReadFrom(r, s)' = ReadFrom(r, s)
              /\ here = "stats" =>
                   ReadFrom(r, s)' = IF "stats" \in reading'[r].complete THEN Cpus ELSE {}
  <2>1. StatRank[s] \in 1 .. 4
    BY RankTypes
  <2>2. CASE here = "stats"
    <3>1. ~Visits(r, "stats")'
      BY <1>8, <2>2
    <3>2. StatsAt(r)' = IF "stats" \in reading'[r].complete THEN 5 ELSE 0
      BY <3>1 DEF StatsAt
    <3> QED
      BY <2>1, <2>2, <3>2 DEF ReadFrom
  <2>3. CASE here # "stats"
    <3>1. "stats" \in reading'[r].complete <=> "stats" \in reading[r].complete
      BY <2>3 DEF here
    <3>2. ~Visits(r, "stats")
      BY <1>3, <2>3
    <3>3. CASE Visits(r, "stats")'
      <4>1. "stats" \notin reading[r].complete /\ Len(reading'[r].todo) = 4
        BY <1>3, <1>7, <1>8, <3>3, FirstSlots DEF Placed
      <4>2. StatsAt(r)' = 5 - Len(reading'[r].todo) /\ StatsAt(r) = 0
        BY <3>1, <3>2, <3>3, <4>1, Zenon DEF StatsAt
      <4>3. StatsAt(r)' = 1
        BY <4>1, <4>2
      <4>4. ReadFrom(r, s) = {}
        BY <2>1, <4>2 DEF ReadFrom
      <4>5. reading'[r].cpus = Cpus
        OBVIOUS
      <4>6. ReadFrom(r, s)' = {}
        BY <2>1, <4>3, <4>5 DEF ReadFrom
      <4> QED
        BY <2>3, <4>4, <4>6
    <3>4. CASE ~Visits(r, "stats")'
      <4>1. StatsAt(r)' = StatsAt(r) /\ StatsAt(r) \in {0, 5}
        BY <3>1, <3>2, <3>4 DEF StatsAt
      <4> QED
        BY <2>1, <2>3, <4>1 DEF ReadFrom
    <3> QED
      BY <3>3, <3>4
  <2> QED
    BY <2>2, <2>3
<1>12. ASSUME NEW s \in MetricSlots
       PROVE  /\ here # "metrics" => HasRead(r, s)' = HasRead(r, s)
              /\ here = "metrics" => HasRead(r, s)' = ("metrics" \in reading'[r].complete)
  <2>1. MetricRank[s] \in 1 .. 6
    BY RankTypes
  <2>2. MetricsAt(r)' = IF "metrics" \in reading'[r].complete THEN 7 ELSE 0
    BY <1>8 DEF MetricsAt
  <2>3. CASE here = "metrics"
    BY <2>1, <2>2, <2>3 DEF HasRead
  <2>4. CASE here # "metrics"
    <3>1. "metrics" \in reading'[r].complete <=> "metrics" \in reading[r].complete
      BY <2>4 DEF here
    <3>2. MetricsAt(r) = IF "metrics" \in reading[r].complete THEN 7 ELSE 0
      BY <1>3, <2>4 DEF MetricsAt
    <3> QED
      BY <2>2, <2>4, <3>1, <3>2 DEF HasRead
  <2> QED
    BY <2>3, <2>4
<1> QED
  BY <1>10, <1>11, <1>12 DEF here

(* Reading on in the same map.                                                *)
LEMMA NextSlot ==
  ASSUME NEW r \in Readers, Placed(r), reading[r].route # <<>>, Len(reading[r].todo) > 1,
         reading'[r].route = reading[r].route,
         reading'[r].todo = Tail(reading[r].todo),
         reading'[r].cpus = Cpus,
         reading'[r].complete = reading[r].complete
  PROVE  /\ Placed(r)'
         /\ At(r) # "stats" => \A s \in StatSlots : ReadFrom(r, s)' = ReadFrom(r, s)
         /\ At(r) = "stats" => \A s \in StatSlots :
              ReadFrom(r, s)' = IF s = Head(reading[r].todo) THEN Cpus ELSE ReadFrom(r, s)
         /\ At(r) # "metrics" => \A s \in MetricSlots : HasRead(r, s)' = HasRead(r, s)
         /\ At(r) = "metrics" => \A s \in MetricSlots :
              HasRead(r, s)' = (s = Head(reading[r].todo) \/ HasRead(r, s))
<1>1. \A map : Visits(r, map)' <=> Visits(r, map)
  BY Zenon DEF Visits, At
<1>2. \A map : Visits(r, map) <=> map = At(r)
  BY DEF Visits
<1>3. CASE At(r) = "stats"
  <2>1. reading[r].todo \in StatTodos /\ "stats" \notin reading[r].complete
    BY <1>2, <1>3 DEF Placed
  <2>2. /\ Head(reading[r].todo) \in StatSlots
        /\ Len(reading[r].todo) \in 1 .. 4
        /\ StatRank[Head(reading[r].todo)] = 5 - Len(reading[r].todo)
        /\ reading'[r].todo \in StatTodos /\ Len(reading'[r].todo) = Len(reading[r].todo) - 1
    BY <2>1, StatWalk
  <2>3. Placed(r)'
    BY <1>1, <1>2, <1>3, <2>1, <2>2 DEF Placed
  <2>4. StatsAt(r) = 5 - Len(reading[r].todo) /\ StatsAt(r)' = 6 - Len(reading[r].todo)
    <3>1. Visits(r, "stats") /\ Visits(r, "stats")' /\ "stats" \notin reading'[r].complete
      BY <1>1, <1>2, <1>3, <2>1
    <3>2. StatsAt(r) = 5 - Len(reading[r].todo) /\ StatsAt(r)' = 5 - Len(reading'[r].todo)
      BY <2>1, <3>1, Zenon DEF StatsAt
    <3> QED
      BY <2>2, <3>2
  <2>5. ASSUME NEW s \in StatSlots
        PROVE  ReadFrom(r, s)' = IF s = Head(reading[r].todo) THEN Cpus ELSE ReadFrom(r, s)
    <3> DEFINE n == Len(reading[r].todo)
    <3>1. StatRank[s] \in 1 .. 4 /\ (StatRank[s] = 5 - n <=> s = Head(reading[r].todo))
      BY <2>2, RankTypes
    <3>2. n \in 1 .. 4 /\ StatsAt(r) = 5 - n /\ StatsAt(r)' = 6 - n
      BY <2>2, <2>4
    <3> HIDE DEF n
    <3>3. CASE StatRank[s] < 5 - n
      BY <3>1, <3>2, <3>3 DEF ReadFrom
    <3>4. CASE StatRank[s] = 5 - n
      BY <3>1, <3>2, <3>4 DEF ReadFrom
    <3>5. CASE StatRank[s] > 5 - n
      <4>1. ReadFrom(r, s) = {}
        BY <3>1, <3>2, <3>5 DEF ReadFrom
      <4>2. ReadFrom(r, s)' = {}
        <5>1. reading'[r].cpus = Cpus
          OBVIOUS
        <5> QED
          BY <3>1, <3>2, <3>5, <5>1 DEF ReadFrom
      <4> QED
        BY <3>1, <3>5, <4>1, <4>2
    <3> QED
      BY <3>1, <3>2, <3>3, <3>4, <3>5
  <2>6. ASSUME NEW s \in MetricSlots PROVE HasRead(r, s)' = HasRead(r, s)
    <3>1. MetricsAt(r)' = MetricsAt(r)
      BY <1>1, <1>2, <1>3 DEF MetricsAt
    <3> QED
      BY <3>1 DEF HasRead
  <2> QED
    BY <1>3, <2>3, <2>5, <2>6
<1>4. CASE At(r) = "metrics"
  <2>1. reading[r].todo \in MetricTodos /\ "metrics" \notin reading[r].complete
    BY <1>2, <1>4 DEF Placed
  <2>2. /\ Head(reading[r].todo) \in MetricSlots
        /\ Len(reading[r].todo) \in 1 .. 6
        /\ MetricRank[Head(reading[r].todo)] = 7 - Len(reading[r].todo)
        /\ reading'[r].todo \in MetricTodos /\ Len(reading'[r].todo) = Len(reading[r].todo) - 1
    BY <2>1, MetricWalk
  <2>3. Placed(r)'
    BY <1>1, <1>2, <1>4, <2>1, <2>2 DEF Placed
  <2>4. MetricsAt(r) = 7 - Len(reading[r].todo) /\ MetricsAt(r)' = 8 - Len(reading[r].todo)
    <3>1. Visits(r, "metrics") /\ Visits(r, "metrics")' /\ "metrics" \notin reading'[r].complete
      BY <1>1, <1>2, <1>4, <2>1
    <3>2. MetricsAt(r) = 7 - Len(reading[r].todo) /\ MetricsAt(r)' = 7 - Len(reading'[r].todo)
      BY <2>1, <3>1, Zenon DEF MetricsAt
    <3> QED
      BY <2>2, <3>2
  <2>5. ASSUME NEW s \in MetricSlots
        PROVE  HasRead(r, s)' = (s = Head(reading[r].todo) \/ HasRead(r, s))
    <3>1. MetricRank[s] \in 1 .. 6 /\ (MetricRank[s] = MetricRank[Head(reading[r].todo)]
                                         <=> s = Head(reading[r].todo))
      BY <2>2, RankTypes
    <3> QED
      BY <2>2, <2>4, <3>1 DEF HasRead
  <2>6. ASSUME NEW s \in StatSlots PROVE ReadFrom(r, s)' = ReadFrom(r, s)
    <3>1. StatsAt(r)' = StatsAt(r) /\ StatsAt(r) \in {0, 5}
      BY <1>1, <1>2, <1>4 DEF StatsAt
    <3>2. StatRank[s] \in 1 .. 4
      BY RankTypes
    <3> QED
      BY <3>1, <3>2 DEF ReadFrom
  <2> QED
    BY <1>4, <2>3, <2>5, <2>6
<1>5. CASE At(r) \notin {"stats", "metrics"}
  <2>1. Placed(r)'
    BY <1>1, <1>2, <1>5 DEF Placed
  <2>2. StatsAt(r)' = StatsAt(r) /\ StatsAt(r) \in {0, 5} /\ MetricsAt(r)' = MetricsAt(r)
    BY <1>1, <1>2, <1>5 DEF StatsAt, MetricsAt
  <2>3. ASSUME NEW s \in StatSlots PROVE ReadFrom(r, s)' = ReadFrom(r, s)
    <3>1. StatRank[s] \in 1 .. 4
      BY RankTypes
    <3> QED
      BY <2>2, <3>1 DEF ReadFrom
  <2>4. ASSUME NEW s \in MetricSlots PROVE HasRead(r, s)' = HasRead(r, s)
    BY <2>2 DEF HasRead
  <2> QED
    BY <1>5, <2>1, <2>3, <2>4
<1> QED
  BY <1>3, <1>4, <1>5

-----------------------------------------------------------------------------
(* What it has read *)

(* The sums a reader has formed are those of values that the CPUs' slots had    *)
(* when they were read: F[s][c] is the value of slot s on CPU c, 0 if it was    *)
(* not read.  No slot ever gets smaller.  The frames counted in the total of a  *)
(* CPU are accounted for by the other slots, as they were read or, if they      *)
(* were not yet, as they are.                                                   *)
Value(F, r, s, c) == IF c \in ReadFrom(r, s) THEN F[s][c] ELSE stats[c][s]
Slack(c) == IF stats[c].total > 0 THEN 1 ELSE 0

Explains(F, r) ==
  /\ \A s \in StatSlots : reading[r].got.stats[s] = Size(F[s])
  /\ \A s \in StatSlots : \A c \in Cpus : c \notin ReadFrom(r, s) => F[s][c] = 0
  /\ \A c \in Cpus : c \in ReadFrom(r, "total") =>
       F["total"][c] <= Value(F, r, "passed", c) + Value(F, r, "v4_match", c)
                          + Value(F, r, "v6_match", c) + Slack(c)

StatsSeen(r) == \E F \in [StatSlots -> [Cpus -> Nat]] : Explains(F, r)

(* The metrics that account for a slot are likewise those that were read, or     *)
(* those that still will be.                                                     *)
Metric(r, s) == IF HasRead(r, s) THEN reading[r].got.metrics[s] ELSE metrics[s]

MetricsSeen(r) ==
  /\ HasRead(r, "rx") => Metric(r, "rx") <= Metric(r, "pass") + Metric(r, "drop") + InFlightAtMost
  /\ HasRead(r, "drop") => Metric(r, "drop") <= Metric(r, "block_v4") + Metric(r, "block_v6")

(* No counter of the data plane ever goes back. *)
Counting ==
  /\ stats \in [Cpus -> [StatSlots -> Nat]] /\ stats' \in [Cpus -> [StatSlots -> Nat]]
  /\ metrics \in [MetricSlots -> Nat] /\ metrics' \in [MetricSlots -> Nat]
  /\ \A c \in Cpus : \A s \in StatSlots : stats[c][s] <= stats'[c][s]
  /\ \A s \in MetricSlots : metrics[s] <= metrics'[s]

(* A CPU that has received a frame has done so ever after. *)
LEMMA InFlightGrows ==
  ASSUME Counting
  PROVE  InFlightAtMost \in Nat /\ InFlightAtMost' \in Nat /\ InFlightAtMost <= InFlightAtMost'
<1> DEFINE S == {c \in Cpus : stats[c].total > 0}
           T == {c \in Cpus : stats'[c].total > 0}
<1>1. S \subseteq T /\ T \subseteq Cpus
  <2>1. ASSUME NEW c \in Cpus PROVE stats[c].total \in Nat /\ stats'[c].total \in Nat
                                    /\ stats[c].total <= stats'[c].total
    BY DEF Counting, StatSlots
  <2> QED
    BY <2>1
<1>2. InFlightAtMost = Cardinality(S) /\ InFlightAtMost' = Cardinality(T)
  BY DEF InFlightAtMost
<1> HIDE DEF S, T
<1>3. IsFiniteSet(T)
  BY <1>1, CpusAssumption, FS_Subset
<1>4. IsFiniteSet(S) /\ Cardinality(S) <= Cardinality(T)
  BY <1>1, <1>3, FS_Subset
<1> QED
  BY <1>2, <1>3, <1>4, FS_CardinalityType

(* The stats read stay explained while the CPUs count and nothing is read. *)
LEMMA StatsKept ==
  ASSUME NEW r \in Readers, Counting, StatsSeen(r),
         reading'[r].got.stats = reading[r].got.stats,
         \A s \in StatSlots : ReadFrom(r, s)' = ReadFrom(r, s)
  PROVE  StatsSeen(r)'
<1>1. PICK F \in [StatSlots -> [Cpus -> Nat]] : Explains(F, r)
  BY DEF StatsSeen
<1>2. {"total", "passed", "v4_match", "v6_match"} = StatSlots
  BY DEF StatSlots
<1>3. ASSUME NEW c \in Cpus, c \in ReadFrom(r, "total")'
      PROVE  F["total"][c] <= Value(F, r, "passed", c)' + Value(F, r, "v4_match", c)'
                               + Value(F, r, "v6_match", c)' + Slack(c)'
  <2>1. ASSUME NEW s \in StatSlots
        PROVE  /\ Value(F, r, s, c) \in Nat /\ Value(F, r, s, c)' \in Nat
               /\ Value(F, r, s, c) <= Value(F, r, s, c)'
    <3>1. F[s][c] \in Nat /\ stats[c][s] \in Nat /\ stats'[c][s] \in Nat
          /\ stats[c][s] <= stats'[c][s]
      BY DEF Counting
    <3>2. ReadFrom(r, s)' = ReadFrom(r, s)
      OBVIOUS
    <3> QED
      BY <3>1, <3>2 DEF Value
  <2>2. Slack(c) \in Nat /\ Slack(c)' \in Nat /\ Slack(c) <= Slack(c)'
    <3>1. stats[c]["total"] \in Nat /\ stats'[c]["total"] \in Nat
          /\ stats[c]["total"] <= stats'[c]["total"]
      BY <1>2 DEF Counting
    <3> QED
      BY <3>1 DEF Slack
  <2>3. c \in ReadFrom(r, "total")
    BY <1>2, <1>3
  <2>4. F["total"][c] <= Value(F, r, "passed", c) + Value(F, r, "v4_match", c)
                               + Value(F, r, "v6_match", c) + Slack(c)
    BY <1>1, <2>3 DEF Explains
  <2>5. F["total"][c] \in Nat
    BY <1>2
  <2> QED
    BY <1>2, <2>1, <2>2, <2>4, <2>5
<1>4. Explains(F, r)'
  <2>1. \A s \in StatSlots : reading'[r].got.stats[s] = Size(F[s])
    BY <1>1 DEF Explains
  <2>2. \A s \in StatSlots : \A c \in Cpus : c \notin ReadFrom(r, s)' => F[s][c] = 0
    BY <1>1 DEF Explains
  <2> QED
    BY <1>3, <2>1, <2>2 DEF Explains
<1> QED
  BY <1>4 DEF StatsSeen

(* One CPU's value of a slot is added.  When it is the total, the other slots   *)
(* of that CPU are not read yet and the CPU's ledger accounts for the frames.   *)
LEMMA StatsAdded ==
  ASSUME NEW r \in Readers, NEW c \in Cpus, NEW slot \in StatSlots,
         TypeOK, LedgerInv, UNCHANGED vars, StatsSeen(r),
         c \notin ReadFrom(r, slot),
         slot = "total" => \A s \in StatSlots \ {"total"} : c \notin ReadFrom(r, s),
         \A s \in StatSlots : reading'[r].got.stats[s] =
            IF s = slot THEN reading[r].got.stats[s] + stats[c][s] ELSE reading[r].got.stats[s],
         \A s \in StatSlots : ReadFrom(r, s)' =
            IF s = slot THEN ReadFrom(r, s) \cup {c} ELSE ReadFrom(r, s)
  PROVE  StatsSeen(r)'
<1>1. PICK F \in [StatSlots -> [Cpus -> Nat]] : Explains(F, r)
  BY DEF StatsSeen
<1>2. \A d \in Cpus : \A s \in StatSlots : stats[d][s] \in Nat /\ stats'[d][s] = stats[d][s]
  BY DEF TypeOK, vars, counters
<1>3. F[slot] \in [Cpus -> Nat] /\ F[slot][c] = 0 /\ stats[c][slot] \in Nat
  BY <1>1, <1>2 DEF Explains
<1>4. PICK G \in [StatSlots -> [Cpus -> Nat]] :
        /\ G[slot] = [F[slot] EXCEPT ![c] = stats[c][slot]]
        /\ \A s \in StatSlots : s # slot => G[s] = F[s]
        /\ \A s \in StatSlots : \A d \in Cpus :
             G[s][d] = IF s = slot /\ d = c THEN stats[c][slot] ELSE F[s][d]
  <2> DEFINE H == [F EXCEPT ![slot] = [F[slot] EXCEPT ![c] = stats[c][slot]]]
  <2>1. /\ H \in [StatSlots -> [Cpus -> Nat]]
        /\ H[slot] = [F[slot] EXCEPT ![c] = stats[c][slot]]
        /\ \A s \in StatSlots : s # slot => H[s] = F[s]
        /\ \A s \in StatSlots : \A d \in Cpus :
             H[s][d] = IF s = slot /\ d = c THEN stats[c][slot] ELSE F[s][d]
    BY <1>3
  <2> HIDE DEF H
  <2> QED
    BY <2>1
<1>5. \A s \in StatSlots : reading'[r].got.stats[s] = Size(G[s])
  <2>1. Size(G[slot]) = Size(F[slot]) + stats[c][slot]
    <3> DEFINE f == F[slot]
               n == stats[c][slot]
    <3>1. f \in [Cpus -> Nat] /\ f[c] = 0 /\ n \in Nat
      BY <1>3
    <3> HIDE DEF f, n
    <3>2. Size([f EXCEPT ![c] = n]) = Size(f) + n
      BY <3>1, CpusAssumption, SizeColumn
    <3> QED
      BY <1>4, <3>2 DEF f, n
  <2>2. \A s \in StatSlots : reading[r].got.stats[s] = Size(F[s])
    BY <1>1 DEF Explains
  <2> QED
    BY <1>4, <2>1, <2>2
<1>6. \A s \in StatSlots : \A d \in Cpus : d \notin ReadFrom(r, s)' => G[s][d] = 0
  <2>1. \A s \in StatSlots : \A d \in Cpus : d \notin ReadFrom(r, s) => F[s][d] = 0
    BY <1>1 DEF Explains
  <2> QED
    BY <1>4, <2>1
<1>7. ASSUME NEW d \in Cpus, NEW s \in StatSlots
      PROVE  Value(G, r, s, d)' = Value(F, r, s, d)
  <2>1. stats'[d][s] = stats[d][s]
    BY <1>2
  <2>2. Value(G, r, s, d)' = IF d \in ReadFrom(r, s)' THEN G[s][d] ELSE stats'[d][s]
    BY DEF Value
  <2> QED
    BY <1>4, <2>1, <2>2 DEF Value
<1>8. \A d \in Cpus : Slack(d)' = Slack(d)
  BY DEF Slack, vars, counters
<1>9. {"total", "passed", "v4_match", "v6_match"} = StatSlots
  BY DEF StatSlots
<1>10. ASSUME NEW d \in Cpus, d \in ReadFrom(r, "total")'
       PROVE  G["total"][d] <= Value(G, r, "passed", d)' + Value(G, r, "v4_match", d)'
                                + Value(G, r, "v6_match", d)' + Slack(d)'
  <2>1. CASE slot = "total" /\ d = c
    <3>1. LedgerAt(c)
      BY DEF LedgerInv
    <3>2. \A s \in {"passed", "v4_match", "v6_match"} : Value(F, r, s, c) = stats[c][s]
      BY <1>9, <2>1 DEF Value
    <3>3. stats[c]["total"] <= stats[c]["passed"] + stats[c]["v4_match"] + stats[c]["v6_match"]
                                 + Slack(c)
      <4>1. /\ stats[c]["total"] \in Nat /\ stats[c]["passed"] \in Nat
            /\ stats[c]["v4_match"] \in Nat /\ stats[c]["v6_match"] \in Nat
        BY <1>2, <1>9
      <4>2. drops[c] \in Nat
        BY DEF TypeOK
      <4> QED
        BY <3>1, <4>1, <4>2 DEF LedgerAt, InFlight, Slack
    <3>4. G["total"][c] = stats[c]["total"]
      BY <1>4, <2>1
    <3> QED
      BY <1>7, <1>8, <1>9, <2>1, <3>2, <3>3, <3>4
  <2>2. CASE ~(slot = "total" /\ d = c)
    <3>1. d \in ReadFrom(r, "total")
      BY <1>9, <1>10, <2>2
    <3>2. F["total"][d] <= Value(F, r, "passed", d) + Value(F, r, "v4_match", d)
                               + Value(F, r, "v6_match", d) + Slack(d)
      BY <1>1, <3>1 DEF Explains
    <3>3. G["total"][d] = F["total"][d]
      BY <1>4, <1>9, <2>2
    <3> QED
      BY <1>7, <1>8, <1>9, <3>2, <3>3
  <2> QED
    BY <2>1, <2>2
<1>11. Explains(G, r)'
  BY <1>5, <1>6, <1>10 DEF Explains
<1> QED
  BY <1>4, <1>11 DEF StatsSeen

(* So do the metrics. *)
LEMMA MetricsKept ==
  ASSUME NEW r \in Readers, Counting, MetricsSeen(r), Formed(r),
         reading'[r].got.metrics = reading[r].got.metrics,
         \A s \in MetricSlots : HasRead(r, s)' = HasRead(r, s)
  PROVE  MetricsSeen(r)'
<1>1. {"rx", "pass", "drop", "block_v4", "block_v6"} \subseteq MetricSlots
  BY DEF MetricSlots
<1>2. ASSUME NEW s \in MetricSlots
      PROVE  /\ Metric(r, s) \in Nat /\ Metric(r, s)' \in Nat /\ Metric(r, s) <= Metric(r, s)'
             /\ HasRead(r, s) => Metric(r, s)' = Metric(r, s)
  <2>1. /\ reading[r].got.metrics[s] \in Nat /\ metrics[s] \in Nat /\ metrics'[s] \in Nat
        /\ metrics[s] <= metrics'[s]
    BY DEF Counting, Formed
  <2>2. HasRead(r, s)' = HasRead(r, s)
    OBVIOUS
  <2> QED
    BY <2>1, <2>2 DEF Metric
<1>3. InFlightAtMost \in Nat /\ InFlightAtMost' \in Nat /\ InFlightAtMost <= InFlightAtMost'
  BY InFlightGrows
<1>4. ASSUME HasRead(r, "rx")'
      PROVE  Metric(r, "rx")' <= Metric(r, "pass")' + Metric(r, "drop")' + InFlightAtMost'
  <2>1. HasRead(r, "rx")
    BY <1>1, <1>4
  <2>2. Metric(r, "rx") <= Metric(r, "pass") + Metric(r, "drop") + InFlightAtMost
    BY <2>1 DEF MetricsSeen
  <2> QED
    BY <1>1, <1>2, <1>3, <2>1, <2>2
<1>5. ASSUME HasRead(r, "drop")'
      PROVE  Metric(r, "drop")' <= Metric(r, "block_v4")' + Metric(r, "block_v6")'
  <2>1. HasRead(r, "drop")
    BY <1>1, <1>5
  <2>2. Metric(r, "drop") <= Metric(r, "block_v4") + Metric(r, "block_v6")
    BY <2>1 DEF MetricsSeen
  <2> QED
    BY <1>1, <1>2, <2>1, <2>2
<1> QED
  BY <1>4, <1>5 DEF MetricsSeen

(* The ledger of the array at one moment, in terms of what a reader may know.   *)
LEMMA MetricsNow ==
  ASSUME TypeOK, LedgerInv, MetricsInv
  PROVE  /\ InFlightAtMost \in Nat
         /\ metrics["rx"] <= metrics["pass"] + metrics["drop"] + InFlightAtMost
         /\ metrics["drop"] <= metrics["block_v4"] + metrics["block_v6"]
<1> DEFINE S == {c \in Cpus : stats[c].total > 0}
<1>1. {"rx", "pass", "drop", "block_v4", "block_v6"} \subseteq MetricSlots
  BY DEF MetricSlots
<1>2. \A s \in MetricSlots : metrics[s] \in Nat
  BY DEF TypeOK
<1>3. Between \subseteq S
  <2> SUFFICES ASSUME NEW c \in Between PROVE c \in S
    OBVIOUS
  <2>1. c \in Cpus /\ InFlight(c) = 1
    BY DEF Between, InFlight
  <2>2. stats[c].total \in Nat /\ stats[c].passed \in Nat /\ drops[c] \in Nat
    BY <2>1 DEF TypeOK, StatSlots
  <2>3. stats[c].total = stats[c].passed + drops[c] + 1
    BY <2>1 DEF LedgerInv, LedgerAt
  <2> QED
    BY <2>1, <2>2, <2>3
<1>4. S \subseteq Cpus /\ Matched \subseteq Cpus
  BY DEF Matched
<1>5. IsFiniteSet(S) /\ IsFiniteSet(Matched)
  BY <1>4, CpusAssumption, FS_Subset
<1>6. InFlightAtMost = Cardinality(S)
  BY DEF InFlightAtMost
<1> HIDE DEF S
<1>7. IsFiniteSet(Between) /\ Cardinality(Between) <= Cardinality(S)
  BY <1>3, <1>5, FS_Subset
<1>8. Cardinality(S) \in Nat /\ Cardinality(Between) \in Nat /\ Cardinality(Matched) \in Nat
  BY <1>5, <1>7, FS_CardinalityType
<1> QED
  BY <1>1, <1>2, <1>6, <1>7, <1>8 DEF MetricsInv

(* A metric is read. The array balances then, and the slots that account for it *)
(* will be read later, when they can only be larger.                            *)
LEMMA MetricsAdded ==
  ASSUME NEW r \in Readers, NEW slot \in MetricSlots,
         TypeOK, LedgerInv, MetricsInv, UNCHANGED vars, MetricsSeen(r),
         ~HasRead(r, slot),
         slot = "rx" => ~HasRead(r, "pass") /\ ~HasRead(r, "drop"),
         slot = "drop" => ~HasRead(r, "block_v4") /\ ~HasRead(r, "block_v6"),
         \A s \in MetricSlots : reading'[r].got.metrics[s] =
            IF s = slot THEN metrics[s] ELSE reading[r].got.metrics[s],
         \A s \in MetricSlots : HasRead(r, s)' = (s = slot \/ HasRead(r, s))
  PROVE  MetricsSeen(r)'
<1>1. {"rx", "pass", "drop", "block_v4", "block_v6"} \subseteq MetricSlots
  BY DEF MetricSlots
<1>2. metrics' = metrics /\ InFlightAtMost' = InFlightAtMost
  BY DEF vars, counters, InFlightAtMost
<1>3. ASSUME NEW s \in MetricSlots PROVE Metric(r, s)' = Metric(r, s)
  <2>1. Metric(r, s)' = IF HasRead(r, s)' THEN reading'[r].got.metrics[s] ELSE metrics'[s]
    BY DEF Metric
  <2>2. HasRead(r, s)' = (s = slot \/ HasRead(r, s))
    OBVIOUS
  <2> QED
    BY <1>2, <2>1, <2>2 DEF Metric
<1>4. \A s \in MetricSlots : ~HasRead(r, s) => Metric(r, s) = metrics[s]
  BY DEF Metric
<1>5. ASSUME HasRead(r, "rx")'
      PROVE  Metric(r, "rx")' <= Metric(r, "pass")' + Metric(r, "drop")' + InFlightAtMost'
  <2>1. Metric(r, "rx") <= Metric(r, "pass") + Metric(r, "drop") + InFlightAtMost
    <3>1. CASE slot = "rx"
      BY <1>1, <1>4, <3>1, MetricsNow
    <3>2. CASE slot # "rx"
      <4>1. HasRead(r, "rx")
        BY <1>1, <1>5, <3>2
      <4> QED
        BY <4>1 DEF MetricsSeen
    <3> QED
      BY <3>1, <3>2
  <2> QED
    BY <1>1, <1>2, <1>3, <2>1
<1>6. ASSUME HasRead(r, "drop")'
      PROVE  Metric(r, "drop")' <= Metric(r, "block_v4")' + Metric(r, "block_v6")'
  <2>1. Metric(r, "drop") <= Metric(r, "block_v4") + Metric(r, "block_v6")
    <3>1. CASE slot = "drop"
      BY <1>1, <1>4, <3>1, MetricsNow
    <3>2. CASE slot # "drop"
      <4>1. HasRead(r, "drop")
        BY <1>1, <1>6, <3>2
      <4> QED
        BY <4>1 DEF MetricsSeen
    <3> QED
      BY <3>1, <3>2
  <2> QED
    BY <1>1, <1>3, <2>1
<1> QED
  BY <1>5, <1>6 DEF MetricsSeen

-----------------------------------------------------------------------------
(* What that says of a map that was read to the end                            *)

(* The sums over the CPUs inherit what holds of each CPU. *)
LEMMA StatsSeenExplains ==
  ASSUME NEW r \in Readers, TypeOK, StatsSeen(r), "stats" \in reading[r].complete
  PROVE  LET s == reading[r].got.stats
         IN  s["total"] <= s["passed"] + s["v4_match"] + s["v6_match"] + InFlightAtMost
<1>1. PICK F \in [StatSlots -> [Cpus -> Nat]] : Explains(F, r)
  BY DEF StatsSeen
<1>2. {"total", "passed", "v4_match", "v6_match"} \subseteq StatSlots
  BY DEF StatSlots
<1>3. \A s \in StatSlots : ReadFrom(r, s) = Cpus
  BY RankTypes DEF ReadFrom, StatsAt
<1> DEFINE total == F["total"]
           passed == F["passed"]
           v4 == F["v4_match"]
           v6 == F["v6_match"]
           S == {c \in Cpus : stats[c].total > 0}
           slack == [c \in Cpus |-> IF c \in S THEN 1 ELSE 0]
           pv4 == [c \in Cpus |-> passed[c] + v4[c]]
           pv46 == [c \in Cpus |-> pv4[c] + v6[c]]
           all == [c \in Cpus |-> pv46[c] + slack[c]]
<1>4. /\ total \in [Cpus -> Nat] /\ passed \in [Cpus -> Nat]
      /\ v4 \in [Cpus -> Nat] /\ v6 \in [Cpus -> Nat] /\ slack \in [Cpus -> Nat]
  BY <1>2
<1>5. /\ pv4 \in [Cpus -> Nat] /\ \A c \in Cpus : pv4[c] = passed[c] + v4[c]
      /\ pv46 \in [Cpus -> Nat] /\ \A c \in Cpus : pv46[c] = pv4[c] + v6[c]
      /\ all \in [Cpus -> Nat] /\ \A c \in Cpus : all[c] = pv46[c] + slack[c]
  <2> HIDE DEF passed, v4, v6, slack
  <2>1. pv4 \in [Cpus -> Nat] /\ \A c \in Cpus : pv4[c] = passed[c] + v4[c]
    BY <1>4
  <2> HIDE DEF pv4
  <2>2. pv46 \in [Cpus -> Nat] /\ \A c \in Cpus : pv46[c] = pv4[c] + v6[c]
    BY <1>4, <2>1
  <2> HIDE DEF pv46
  <2>3. all \in [Cpus -> Nat] /\ \A c \in Cpus : all[c] = pv46[c] + slack[c]
    BY <1>4, <2>2
  <2> QED
    BY <2>1, <2>2, <2>3
<1>6. ASSUME NEW c \in Cpus PROVE total[c] <= all[c]
  <2>1. F["total"][c] <= Value(F, r, "passed", c) + Value(F, r, "v4_match", c)
                           + Value(F, r, "v6_match", c) + Slack(c)
    BY <1>1, <1>2, <1>3 DEF Explains
  <2>2. /\ Value(F, r, "passed", c) = passed[c] /\ Value(F, r, "v4_match", c) = v4[c]
        /\ Value(F, r, "v6_match", c) = v6[c]
    BY <1>2, <1>3 DEF Value
  <2>3. Slack(c) = slack[c]
    BY DEF Slack
  <2> HIDE DEF passed, v4, v6, slack, pv4, pv46, all
  <2>4. total[c] <= passed[c] + v4[c] + v6[c] + slack[c]
    BY <2>1, <2>2, <2>3
  <2> QED
    BY <1>5, <2>4
<1>7. S \subseteq Cpus /\ InFlightAtMost = Cardinality(S)
  BY DEF InFlightAtMost
<1>8. Size(slack) = Cardinality(S)
  <2> HIDE DEF S
  <2> QED
    BY <1>7, CpusAssumption, SizeOfSet
<1>9. /\ reading[r].got.stats["total"] = Size(total)
      /\ reading[r].got.stats["passed"] = Size(passed)
      /\ reading[r].got.stats["v4_match"] = Size(v4)
      /\ reading[r].got.stats["v6_match"] = Size(v6)
  BY <1>1, <1>2 DEF Explains
<1> HIDE DEF total, passed, v4, v6, S, slack, pv4, pv46, all
<1>10. Size(total) <= Size(all)
  BY <1>4, <1>5, <1>6, CpusAssumption, SizeOrder
<1>11. Size(pv4) = Size(passed) + Size(v4)
  BY <1>4, <1>5, CpusAssumption, SizeSum
<1>12. Size(pv46) = Size(pv4) + Size(v6)
  BY <1>4, <1>5, CpusAssumption, SizeSum
<1>13. Size(all) = Size(pv46) + Size(slack)
  BY <1>4, <1>5, CpusAssumption, SizeSum
<1>14. Size(total) <= Size(passed) + Size(v4) + Size(v6) + Cardinality(S)
  BY <1>8, <1>10, <1>11, <1>12, <1>13
<1> QED
  BY <1>7, <1>9, <1>14

(* Of the metrics, what is known is what is claimed once all are read. *)
LEMMA MetricsSeenExplains ==
  ASSUME NEW r \in Readers, MetricsSeen(r), "metrics" \in reading[r].complete
  PROVE  LET m == reading[r].got.metrics
         IN  /\ m["rx"] <= m["pass"] + m["drop"] + InFlightAtMost
             /\ m["drop"] <= m["block_v4"] + m["block_v6"]
<1>1. {"rx", "pass", "drop", "block_v4", "block_v6"} \subseteq MetricSlots
  BY DEF MetricSlots
<1>2. \A s \in MetricSlots : HasRead(r, s)
  BY RankTypes DEF HasRead, MetricsAt
<1>3. \A s \in MetricSlots : Metric(r, s) = reading[r].got.metrics[s]
  BY <1>2 DEF Metric
<1> QED
  BY <1>1, <1>2, <1>3 DEF MetricsSeen

-----------------------------------------------------------------------------
(* The steps of a reader *)

ReaderInv(r) == Shape(r) /\ StatsSeen(r) /\ MetricsSeen(r)
ReadersInv == DOMAIN reading = Readers /\ \A r \in Readers : ReaderInv(r)
DataInv == TypeOK /\ LedgerInv /\ MetricsInv

(* What is known where a reader is. *)
LEMMA AtStats ==
  ASSUME NEW r \in Readers, Placed(r), Visits(r, "stats")
  PROVE  LET slot == Head(reading[r].todo)
         IN  /\ slot \in StatSlots /\ StatsAt(r) = StatRank[slot]
             /\ Len(reading[r].todo) \in 1 .. 4 /\ StatRank[slot] = 5 - Len(reading[r].todo)
             /\ ReadFrom(r, slot) = Cpus \ reading[r].cpus
             /\ \A s \in StatSlots : StatRank[s] < StatRank[slot] => ReadFrom(r, s) = Cpus
             /\ \A s \in StatSlots : StatRank[s] > StatRank[slot] => ReadFrom(r, s) = {}
<1> DEFINE slot == Head(reading[r].todo)
<1>1. reading[r].todo \in StatTodos /\ "stats" \notin reading[r].complete
  BY DEF Placed
<1>2. slot \in StatSlots /\ Len(reading[r].todo) \in 1 .. 4
      /\ StatRank[slot] = 5 - Len(reading[r].todo)
  BY <1>1, StatWalk
<1>3. StatsAt(r) = 5 - Len(reading[r].todo)
  BY <1>1, Zenon DEF StatsAt
<1>4. StatsAt(r) = StatRank[slot] /\ \A s \in StatSlots : StatRank[s] \in 1 .. 4
  BY <1>2, <1>3, RankTypes
<1> HIDE DEF slot
<1>5. ReadFrom(r, slot) = Cpus \ reading[r].cpus
  BY <1>2, <1>4 DEF ReadFrom
<1>6. \A s \in StatSlots : StatRank[s] < StatRank[slot] => ReadFrom(r, s) = Cpus
  BY <1>4 DEF ReadFrom
<1>7. \A s \in StatSlots : StatRank[s] > StatRank[slot] => ReadFrom(r, s) = {}
  BY <1>2, <1>4 DEF ReadFrom
<1> QED
  BY <1>2, <1>4, <1>5, <1>6, <1>7 DEF slot

(* The same for the metrics. *)
LEMMA AtMetrics ==
  ASSUME NEW r \in Readers, Placed(r), Visits(r, "metrics")
  PROVE  LET slot == Head(reading[r].todo)
         IN  /\ slot \in MetricSlots
             /\ Len(reading[r].todo) \in 1 .. 6 /\ MetricRank[slot] = 7 - Len(reading[r].todo)
             /\ \A s \in MetricSlots : HasRead(r, s) = (MetricRank[s] < MetricRank[slot])
<1>1. reading[r].todo \in MetricTodos /\ "metrics" \notin reading[r].complete
  BY DEF Placed
<1>2. /\ Head(reading[r].todo) \in MetricSlots /\ Len(reading[r].todo) \in 1 .. 6
      /\ MetricRank[Head(reading[r].todo)] = 7 - Len(reading[r].todo)
  BY <1>1, MetricWalk
<1>3. MetricsAt(r) = 7 - Len(reading[r].todo)
  BY <1>1, Zenon DEF MetricsAt
<1> QED
  BY <1>2, <1>3 DEF HasRead

(* A step of a reader leaves the counters alone. *)
LEMMA StandStill ==
  ASSUME TypeOK, UNCHANGED vars
  PROVE  Counting
<1>1. UNCHANGED <<stats, metrics>>
  BY DEF vars, counters
<1> QED
  BY <1>1 DEF TypeOK, Counting

(* What a reader that does not move knows stays right. *)
LEMMA ReadsOnlyOwn ==
  ASSUME DataInv, UNCHANGED vars, NEW r \in Readers, ReaderInv(r),
         reading'[r] = reading[r]
  PROVE  ReaderInv(r)'
<1>1. /\ \A s \in StatSlots : ReadFrom(r, s)' = ReadFrom(r, s)
      /\ \A s \in MetricSlots : HasRead(r, s)' = HasRead(r, s)
  BY DEF ReadFrom, HasRead, StatsAt, MetricsAt, Visits, At
<1>2. Shape(r)'
  BY DEF ReaderInv, Shape, Formed, Placed, Visits, At
<1>3. Counting /\ Formed(r)
  BY StandStill DEF DataInv, ReaderInv, Shape
<1> QED
  BY <1>1, <1>2, <1>3, StatsKept, MetricsKept DEF ReaderInv

BeginningsHold ==
  \A r \in Readers : \A task \in {"none", "stats", "metrics", "tick"} :
    reading[r] = Reading(task) => ReaderInv(r)

(* Nothing has been read where a task begins, or where there is none. *)
LEMMA Beginnings == BeginningsHold
<1> SUFFICES ASSUME NEW r \in Readers, NEW task \in {"none", "stats", "metrics", "tick"},
                    reading[r] = Reading(task)
             PROVE  ReaderInv(r)
  BY DEF BeginningsHold
<1> DEFINE next == Route[task]
<1>1. /\ DOMAIN reading[r] = Fields /\ reading[r].route = next /\ reading[r].todo = Unread(next)
      /\ reading[r].cpus = Cpus /\ reading[r].got = Nothing /\ reading[r].complete = {}
  BY DEF Reading, Fields
<1>2. /\ DOMAIN Nothing = Maps
      /\ Nothing.stats \in [StatSlots -> Nat] /\ \A s \in StatSlots : Nothing.stats[s] = 0
      /\ Nothing.metrics \in [MetricSlots -> Nat]
  BY DEF Nothing, Maps
<1>3. next \in {<<>>, <<"stats">>, <<"metrics", "perf">>, <<"metrics", "stats", "perf">>}
  BY DEF Route
<1>4. next \in Routes
  BY <1>3 DEF Routes
<1> HIDE DEF next
<1>5. \A map : Visits(r, map) => next # <<>> /\ map = Head(next) /\ reading[r].todo = Slots[map]
  BY <1>1, Zenon DEF Visits, At, Unread
<1>6. /\ Visits(r, "stats") => reading[r].todo \in StatTodos /\ Len(reading[r].todo) = 4
      /\ Visits(r, "metrics") => reading[r].todo \in MetricTodos /\ Len(reading[r].todo) = 6
  BY <1>5, FirstSlots
<1>7. Shape(r)
  <2>1. reading[r].route = <<>> => reading[r].todo = <<>>
    BY <1>1, Zenon DEF Unread
  <2> QED
    BY <1>1, <1>2, <1>4, <1>6, <2>1 DEF Shape, Formed, Placed
<1>8. StatsAt(r) \in {0, 1} /\ MetricsAt(r) \in {0, 1}
  <2>1. 5 - 4 = 1 /\ 7 - 6 = 1
    OBVIOUS
  <2> QED
    BY <1>1, <1>6, <2>1, Zenon DEF StatsAt, MetricsAt
<1>9. StatsSeen(r)
  <2> DEFINE F == [s \in StatSlots |-> [c \in Cpus |-> 0]]
  <2>1. F \in [StatSlots -> [Cpus -> Nat]] /\ \A s \in StatSlots : \A c \in Cpus : F[s][c] = 0
    OBVIOUS
  <2> HIDE DEF F
  <2>2. \A s \in StatSlots : Size(F[s]) = 0
    BY <2>1, SizeZero
  <2>3. ReadFrom(r, "total") = {}
    BY <1>1, <1>8 DEF ReadFrom, StatRank
  <2>4. Explains(F, r)
    BY <1>1, <1>2, <2>1, <2>2, <2>3 DEF Explains
  <2> QED
    BY <2>1, <2>4 DEF StatsSeen
<1>10. MetricsSeen(r)
  <2>1. ~HasRead(r, "rx") /\ ~HasRead(r, "drop")
    BY <1>8 DEF HasRead, MetricRank
  <2> QED
    BY <2>1 DEF MetricsSeen
<1> QED
  BY <1>7, <1>9, <1>10 DEF ReaderInv

(* The start of a task, and the end of one. *)
LEMMA Begins ==
  ASSUME DOMAIN reading = Readers, NEW r \in Readers,
         NEW task \in {"none", "stats", "metrics", "tick"},
         reading' = [reading EXCEPT ![r] = Reading(task)]
  PROVE  OnlyOf(r) /\ ReaderInv(r)'
<1>1. OnlyOf(r) /\ reading'[r] = Reading(task)'
  BY DEF OnlyOf, Reading
<1>2. BeginningsHold'
  BY Beginnings, PTL
<1> QED
  BY <1>1, <1>2 DEF BeginningsHold

(* A map that is left out counts as not read. *)
LEMMA MapSkipped ==
  ASSUME DOMAIN reading = Readers, NEW r \in Readers, Formed(r), Placed(r), OpenFails(r)
  PROVE  /\ OnlyOf(r) /\ DOMAIN reading'[r] = Fields /\ reading'[r].got = reading[r].got
         /\ reading'[r].cpus = Cpus /\ reading'[r].route = Tail(reading[r].route)
         /\ reading'[r].complete = reading[r].complete
         /\ reading'[r].todo = Unread(Tail(reading[r].route))
         /\ reading[r].route # <<>> /\ Placed(r)'
         /\ \A s \in StatSlots : ReadFrom(r, s)' = ReadFrom(r, s)
         /\ \A s \in MetricSlots : HasRead(r, s)' = HasRead(r, s)
<1>1. Formed(r) /\ Placed(r)
  OBVIOUS
<1>2. /\ OnlyOf(r) /\ DOMAIN reading'[r] = Fields /\ reading'[r].got = reading[r].got
      /\ reading'[r].cpus = Cpus /\ reading'[r].route = Tail(reading[r].route)
      /\ reading'[r].complete = reading[r].complete
      /\ reading'[r].todo = Unread(Tail(reading[r].route))
  BY <1>1, OpenFailsEffect
<1>3. /\ reading[r].route # <<>> /\ reading[r].todo = Slots[At(r)] /\ reading[r].cpus = Cpus
  BY DEF OpenFails, AtStart
<1>4. /\ Placed(r)'
      /\ At(r) # "stats" => \A s \in StatSlots : ReadFrom(r, s)' = ReadFrom(r, s)
      /\ At(r) = "stats" => \A s \in StatSlots :
           ReadFrom(r, s)' = IF "stats" \in reading'[r].complete THEN Cpus ELSE {}
      /\ At(r) # "metrics" => \A s \in MetricSlots : HasRead(r, s)' = HasRead(r, s)
      /\ At(r) = "metrics" => \A s \in MetricSlots :
           HasRead(r, s)' = ("metrics" \in reading'[r].complete)
  BY <1>1, <1>2, <1>3, NextMap
<1>5. Visits(r, At(r))
  BY <1>3 DEF Visits
<1>6. \A s \in StatSlots : ReadFrom(r, s)' = ReadFrom(r, s)
  <2>1. CASE At(r) = "stats"
    <3>1. Visits(r, "stats") /\ Len(reading[r].todo) = 4 /\ "stats" \notin reading'[r].complete
      BY <1>1, <1>2, <1>3, <1>5, <2>1, FirstSlots DEF Placed
    <3>2. ASSUME NEW s \in StatSlots PROVE ReadFrom(r, s) = {}
      <4>1. StatsAt(r) = 5 - Len(reading[r].todo)
        BY <1>2, <3>1, Zenon DEF StatsAt
      <4>2. StatsAt(r) = 1 /\ StatRank[s] \in 1 .. 4
        BY <3>1, <4>1, RankTypes
      <4> QED
        BY <1>3, <4>2 DEF ReadFrom
    <3> QED
      BY <1>4, <2>1, <3>1, <3>2
  <2> QED
    BY <1>4, <2>1
<1>7. \A s \in MetricSlots : HasRead(r, s)' = HasRead(r, s)
  <2>1. CASE At(r) = "metrics"
    <3>1. Visits(r, "metrics") /\ Len(reading[r].todo) = 6 /\ "metrics" \notin reading'[r].complete
      BY <1>1, <1>2, <1>3, <1>5, <2>1, FirstSlots DEF Placed
    <3>2. ASSUME NEW s \in MetricSlots PROVE HasRead(r, s) = FALSE
      <4>1. MetricsAt(r) = 7 - Len(reading[r].todo)
        BY <1>2, <3>1, Zenon DEF MetricsAt
      <4>2. MetricsAt(r) = 1 /\ MetricRank[s] \in 1 .. 6
        BY <3>1, <4>1, RankTypes
      <4> QED
        BY <4>2 DEF HasRead
    <3>3. ("metrics" \in reading'[r].complete) = FALSE
      BY <3>1
    <3> QED
      BY <1>4, <2>1, <3>2, <3>3, Zenon
  <2> QED
    BY <1>4, <2>1
<1> QED
  BY <1>2, <1>3, <1>4, <1>6, <1>7

LEMMA OpenFailsKeeps ==
  ASSUME DataInv, DOMAIN reading = Readers, UNCHANGED vars,
         NEW r \in Readers, ReaderInv(r), OpenFails(r)
  PROVE  OnlyOf(r) /\ ReaderInv(r)'
<1>1. Formed(r) /\ Placed(r) /\ StatsSeen(r) /\ MetricsSeen(r) /\ Counting
  BY StandStill DEF ReaderInv, Shape, DataInv
<1>2. /\ OnlyOf(r) /\ DOMAIN reading'[r] = Fields /\ reading'[r].got = reading[r].got
      /\ Placed(r)'
      /\ \A s \in StatSlots : ReadFrom(r, s)' = ReadFrom(r, s)
      /\ \A s \in MetricSlots : HasRead(r, s)' = HasRead(r, s)
  BY <1>1, MapSkipped
<1>3. Shape(r)'
  BY <1>1, <1>2 DEF Shape, Formed
<1>4. StatsSeen(r)'
  BY <1>1, <1>2, StatsKept
<1>5. MetricsSeen(r)'
  BY <1>1, <1>2, MetricsKept
<1> QED
  BY <1>2, <1>3, <1>4, <1>5 DEF ReaderInv

(* A slot that has been read, the last of its map or not. *)
LEMMA SlotRead ==
  ASSUME DOMAIN reading = Readers, NEW r \in Readers, Formed(r), Placed(r),
         reading[r].route # <<>>, NEW got, GotSlot(r, got)
  PROVE  /\ OnlyOf(r) /\ DOMAIN reading'[r] = Fields /\ reading'[r].got = got
         /\ Placed(r)'
         /\ At(r) # "stats" => \A s \in StatSlots : ReadFrom(r, s)' = ReadFrom(r, s)
         /\ At(r) = "stats" => \A s \in StatSlots :
              ReadFrom(r, s)' = IF s = Head(reading[r].todo) THEN Cpus ELSE ReadFrom(r, s)
         /\ At(r) # "metrics" => \A s \in MetricSlots : HasRead(r, s)' = HasRead(r, s)
         /\ At(r) = "metrics" => \A s \in MetricSlots :
              HasRead(r, s)' = (s = Head(reading[r].todo) \/ HasRead(r, s))
<1>1. /\ OnlyOf(r)
      /\ DOMAIN reading'[r] = Fields /\ reading'[r].got = got /\ reading'[r].cpus = Cpus
  BY GotSlotEffect
<1>2. Visits(r, At(r))
  BY DEF Visits
<1>3. CASE Len(reading[r].todo) > 1
  <2>1. /\ reading'[r].route = reading[r].route /\ reading'[r].complete = reading[r].complete
        /\ reading'[r].todo = Tail(reading[r].todo)
    BY <1>3, GotSlotEffect
  <2> QED
    BY <1>1, <1>3, <2>1, NextSlot
<1>4. CASE ~(Len(reading[r].todo) > 1)
  <2>1. /\ reading'[r].route = Tail(reading[r].route)
        /\ reading'[r].complete = reading[r].complete \cup {At(r)}
        /\ reading'[r].todo = Unread(Tail(reading[r].route))
    BY <1>4, GotSlotEffect
  <2>2. /\ Placed(r)'
        /\ At(r) # "stats" => \A s \in StatSlots : ReadFrom(r, s)' = ReadFrom(r, s)
        /\ At(r) = "stats" => \A s \in StatSlots :
             ReadFrom(r, s)' = IF "stats" \in reading'[r].complete THEN Cpus ELSE {}
        /\ At(r) # "metrics" => \A s \in MetricSlots : HasRead(r, s)' = HasRead(r, s)
        /\ At(r) = "metrics" => \A s \in MetricSlots :
             HasRead(r, s)' = ("metrics" \in reading'[r].complete)
    BY <1>1, <2>1, NextMap
  <2>3. ASSUME At(r) = "stats", NEW s \in StatSlots
        PROVE  ReadFrom(r, s)' = IF s = Head(reading[r].todo) THEN Cpus ELSE ReadFrom(r, s)
    <3> DEFINE slot == Head(reading[r].todo)
               n == Len(reading[r].todo)
    <3>1. /\ slot \in StatSlots /\ n \in 1 .. 4 /\ ~(n > 1)
          /\ StatRank[slot] = 5 - n
          /\ \A t \in StatSlots : StatRank[t] < StatRank[slot] => ReadFrom(r, t) = Cpus
      BY <1>2, <1>4, <2>3, AtStats
    <3> HIDE DEF slot, n
    <3>2. StatRank[slot] = 4
      BY <3>1
    <3>3. s # slot => StatRank[s] < StatRank[slot]
      <4>1. StatRank[s] \in 1 .. 4 /\ (StatRank[s] = StatRank[slot] => s = slot)
        BY <3>1, RankTypes
      <4> QED
        BY <3>2, <4>1
    <3>4. ReadFrom(r, s)' = Cpus
      BY <2>1, <2>2, <2>3
    <3> QED
      BY <3>1, <3>3, <3>4 DEF slot
  <2>4. ASSUME At(r) = "metrics", NEW s \in MetricSlots
        PROVE  HasRead(r, s)' = (s = Head(reading[r].todo) \/ HasRead(r, s))
    <3> DEFINE slot == Head(reading[r].todo)
               n == Len(reading[r].todo)
    <3>1. /\ slot \in MetricSlots /\ n \in 1 .. 6 /\ ~(n > 1)
          /\ MetricRank[slot] = 7 - n
          /\ \A t \in MetricSlots : HasRead(r, t) = (MetricRank[t] < MetricRank[slot])
      BY <1>2, <1>4, <2>4, AtMetrics
    <3> HIDE DEF slot, n
    <3>2. MetricRank[slot] = 6
      BY <3>1
    <3>3. s # slot => MetricRank[s] < MetricRank[slot]
      <4>1. MetricRank[s] \in 1 .. 6 /\ (MetricRank[s] = MetricRank[slot] => s = slot)
        BY <3>1, RankTypes
      <4> QED
        BY <3>2, <4>1
    <3>4. s = slot \/ HasRead(r, s)
      BY <3>1, <3>3
    <3>5. HasRead(r, s)' = ("metrics" \in reading'[r].complete)
      BY <2>2, <2>4
    <3>6. "metrics" \in reading'[r].complete
      BY <2>1, <2>4
    <3> QED
      BY <3>4, <3>5, <3>6 DEF slot
  <2> QED
    BY <1>1, <2>2, <2>3, <2>4
<1> QED
  BY <1>3, <1>4

(* One CPU's value of a stats slot: what has been read is one CPU's more. *)
LEMMA CpuRead ==
  ASSUME TypeOK, DOMAIN reading = Readers, NEW r \in Readers, Formed(r), Placed(r),
         NEW c \in Cpus, ReadCpu(r, c)
  PROVE  LET slot == Head(reading[r].todo)
             got == [reading[r].got EXCEPT !.stats[slot] = @ + stats[c][slot]]
         IN  /\ slot \in StatSlots /\ c \notin ReadFrom(r, slot) /\ Visits(r, "stats")
             /\ slot = "total" => \A s \in StatSlots \ {"total"} : c \notin ReadFrom(r, s)
             /\ DOMAIN got = Maps /\ got.metrics = reading[r].got.metrics
             /\ got.perf = reading[r].got.perf
             /\ got.stats \in [StatSlots -> Nat]
             /\ \A s \in StatSlots : got.stats[s] =
                  IF s = slot THEN reading[r].got.stats[s] + stats[c][s] ELSE reading[r].got.stats[s]
             /\ OnlyOf(r) /\ DOMAIN reading'[r] = Fields /\ reading'[r].got = got
             /\ Placed(r)'
             /\ \A s \in StatSlots : ReadFrom(r, s)' =
                  IF s = slot THEN ReadFrom(r, s) \cup {c} ELSE ReadFrom(r, s)
             /\ \A s \in MetricSlots : HasRead(r, s)' = HasRead(r, s)
<1> DEFINE slot == Head(reading[r].todo)
           got == [reading[r].got EXCEPT !.stats[slot] = @ + stats[c][slot]]
<1>2. /\ reading[r].todo # <<>> /\ At(r) = "stats" /\ c \in reading[r].cpus
      /\ \/ reading[r].cpus = {c} /\ GotSlot(r, got)
         \/ /\ reading[r].cpus # {c}
            /\ reading' = [reading EXCEPT ![r].got = got, ![r].cpus = @ \ {c}]
  BY DEF ReadCpu
<1>3. reading[r].route # <<>> /\ Visits(r, "stats")
  BY <1>2 DEF Placed, Visits
<1>4. /\ slot \in StatSlots
      /\ ReadFrom(r, slot) = Cpus \ reading[r].cpus
      /\ \A s \in StatSlots : StatRank[s] > StatRank[slot] => ReadFrom(r, s) = {}
  BY <1>3, AtStats
<1>5. slot = "total" => \A s \in StatSlots \ {"total"} : c \notin ReadFrom(r, s)
  <2>1. \A s \in StatSlots \ {"total"} : StatRank[s] > StatRank["total"]
    BY DEF StatRank, StatSlots
  <2> HIDE DEF slot
  <2> QED
    BY <1>4, <2>1
<1>6. /\ DOMAIN got = Maps
      /\ got.metrics = reading[r].got.metrics /\ got.perf = reading[r].got.perf
      /\ got.stats \in [StatSlots -> Nat]
      /\ \A s \in StatSlots : got.stats[s] =
           IF s = slot THEN reading[r].got.stats[s] + stats[c][s] ELSE reading[r].got.stats[s]
  <2>1. stats[c][slot] \in Nat
    BY <1>4 DEF TypeOK
  <2> HIDE DEF slot
  <2> QED
    BY <1>4, <2>1 DEF Formed, Maps
<1> HIDE DEF slot, got
<1>7. /\ OnlyOf(r) /\ DOMAIN reading'[r] = Fields /\ reading'[r].got = got
      /\ Placed(r)'
      /\ \A s \in StatSlots : ReadFrom(r, s)' =
           IF s = slot THEN ReadFrom(r, s) \cup {c} ELSE ReadFrom(r, s)
      /\ \A s \in MetricSlots : HasRead(r, s)' = HasRead(r, s)
  <2>1. CASE reading[r].cpus = {c} /\ GotSlot(r, got)
    <3>1. /\ OnlyOf(r) /\ DOMAIN reading'[r] = Fields /\ reading'[r].got = got
          /\ Placed(r)'
          /\ \A s \in StatSlots : ReadFrom(r, s)' = IF s = slot THEN Cpus ELSE ReadFrom(r, s)
          /\ \A s \in MetricSlots : HasRead(r, s)' = HasRead(r, s)
      BY <1>2, <1>3, <2>1, SlotRead DEF slot
    <3>2. ReadFrom(r, slot) \cup {c} = Cpus
      BY <1>4, <2>1
    <3> QED
      BY <3>1, <3>2
  <2>2. CASE reading' = [reading EXCEPT ![r].got = got, ![r].cpus = @ \ {c}]
    <3>1. /\ OnlyOf(r) /\ DOMAIN reading'[r] = Fields /\ reading'[r].got = got
          /\ reading'[r].cpus = reading[r].cpus \ {c}
          /\ reading'[r].route = reading[r].route /\ reading'[r].todo = reading[r].todo
          /\ reading'[r].complete = reading[r].complete
      BY <2>2 DEF OnlyOf, Formed, Fields
    <3>2. \A map : Visits(r, map)' <=> Visits(r, map)
      BY <3>1, Zenon DEF Visits, At
    <3>3. Placed(r)'
      BY <1>3, <3>1, <3>2 DEF Placed
    <3>4. StatsAt(r)' = StatsAt(r) /\ MetricsAt(r)' = MetricsAt(r)
      BY <3>1, <3>2, Zenon DEF StatsAt, MetricsAt
    <3>5. ASSUME NEW s \in StatSlots, s = slot
          PROVE  ReadFrom(r, s)' = ReadFrom(r, s) \cup {c}
      <4>1. StatsAt(r)' = StatRank[s] /\ StatRank[s] \in 1 .. 4
        BY <1>3, <3>4, <3>5, AtStats, RankTypes DEF slot
      <4>2. ReadFrom(r, s)' = Cpus \ reading'[r].cpus
        BY <4>1 DEF ReadFrom
      <4> QED
        BY <1>2, <1>4, <3>1, <3>5, <4>2
    <3>6. \A s \in StatSlots : s # slot => ReadFrom(r, s)' = ReadFrom(r, s)
      <4>1. StatsAt(r) = StatRank[slot]
        BY <1>3, AtStats DEF slot
      <4>2. \A s \in StatSlots : StatRank[s] = StatRank[slot] => s = slot
        BY <1>4, RankTypes
      <4> QED
        BY <3>4, <4>1, <4>2 DEF ReadFrom
    <3>7. \A s \in MetricSlots : HasRead(r, s)' = HasRead(r, s)
      BY <3>4 DEF HasRead
    <3>8. \A s \in StatSlots : ReadFrom(r, s)' =
             IF s = slot THEN ReadFrom(r, s) \cup {c} ELSE ReadFrom(r, s)
      BY <3>5, <3>6
    <3> QED
      BY <3>1, <3>3, <3>7, <3>8
  <2> QED
    BY <1>2, <2>1, <2>2
<1>8. c \notin ReadFrom(r, slot)
  BY <1>2, <1>4
<1> QED
  BY <1>3, <1>4, <1>5, <1>6, <1>7, <1>8 DEF slot, got

(* The read of one CPU's value of a stats slot. *)
LEMMA ReadCpuKeeps ==
  ASSUME DataInv, DOMAIN reading = Readers, UNCHANGED vars,
         NEW r \in Readers, ReaderInv(r), NEW c \in Cpus, ReadCpu(r, c)
  PROVE  OnlyOf(r) /\ ReaderInv(r)'
<1> DEFINE slot == Head(reading[r].todo)
           got == [reading[r].got EXCEPT !.stats[slot] = @ + stats[c][slot]]
<1>1. TypeOK /\ LedgerInv /\ Formed(r) /\ Placed(r) /\ StatsSeen(r) /\ MetricsSeen(r) /\ Counting
  BY StandStill DEF ReaderInv, Shape, DataInv
<1>2. /\ slot \in StatSlots /\ c \notin ReadFrom(r, slot)
      /\ slot = "total" => \A s \in StatSlots \ {"total"} : c \notin ReadFrom(r, s)
      /\ DOMAIN got = Maps /\ got.metrics = reading[r].got.metrics
      /\ got.stats \in [StatSlots -> Nat]
      /\ \A s \in StatSlots : got.stats[s] =
           IF s = slot THEN reading[r].got.stats[s] + stats[c][s] ELSE reading[r].got.stats[s]
      /\ OnlyOf(r) /\ DOMAIN reading'[r] = Fields /\ reading'[r].got = got
      /\ Placed(r)'
      /\ \A s \in StatSlots : ReadFrom(r, s)' =
           IF s = slot THEN ReadFrom(r, s) \cup {c} ELSE ReadFrom(r, s)
      /\ \A s \in MetricSlots : HasRead(r, s)' = HasRead(r, s)
  BY <1>1, CpuRead
<1> HIDE DEF slot, got
<1>3. Shape(r)'
  BY <1>1, <1>2 DEF Shape, Formed
<1>4. StatsSeen(r)'
  BY <1>1, <1>2, StatsAdded
<1>5. MetricsSeen(r)'
  BY <1>1, <1>2, MetricsKept
<1> QED
  BY <1>2, <1>3, <1>4, <1>5 DEF ReaderInv

(* The read of a slot of one of the plain arrays. *)
LEMMA ReadSlotKeeps ==
  ASSUME DataInv, DOMAIN reading = Readers, UNCHANGED vars,
         NEW r \in Readers, ReaderInv(r), ReadSlot(r)
  PROVE  OnlyOf(r) /\ ReaderInv(r)'
<1> DEFINE slot == Head(reading[r].todo)
           old == reading[r].got
           got == IF At(r) = "metrics" THEN [old EXCEPT !.metrics[slot] = metrics[slot]]
                                       ELSE [old EXCEPT !.perf[slot] = perf[slot]]
<1>1. Formed(r) /\ Placed(r) /\ StatsSeen(r) /\ MetricsSeen(r) /\ Counting
  BY StandStill DEF ReaderInv, Shape, DataInv
<1>2. reading[r].todo # <<>> /\ At(r) # "stats" /\ GotSlot(r, got)
  BY DEF ReadSlot
<1>3. reading[r].route # <<>> /\ Visits(r, At(r))
  BY <1>1, <1>2 DEF Placed, Visits
<1>4. /\ OnlyOf(r) /\ DOMAIN reading'[r] = Fields /\ reading'[r].got = got
      /\ Placed(r)'
      /\ \A s \in StatSlots : ReadFrom(r, s)' = ReadFrom(r, s)
      /\ At(r) # "metrics" => \A s \in MetricSlots : HasRead(r, s)' = HasRead(r, s)
      /\ At(r) = "metrics" => \A s \in MetricSlots : HasRead(r, s)' = (s = slot \/ HasRead(r, s))
  <2> HIDE DEF got
  <2> QED
    BY <1>1, <1>2, <1>3, SlotRead
<1>5. /\ DOMAIN got = Maps /\ got.stats = old.stats
      /\ At(r) # "metrics" => got.metrics = old.metrics
  <2> HIDE DEF slot
  <2> QED
    BY <1>1 DEF Formed, Maps
<1>6. CASE At(r) = "metrics"
  <2>1. /\ slot \in MetricSlots
        /\ \A s \in MetricSlots : HasRead(r, s) = (MetricRank[s] < MetricRank[slot])
    BY <1>1, <1>3, <1>6, AtMetrics
  <2>2. metrics[slot] \in Nat
    BY <2>1 DEF DataInv, TypeOK
  <2>3. /\ got.metrics \in [MetricSlots -> Nat]
        /\ \A s \in MetricSlots : got.metrics[s] = IF s = slot THEN metrics[s] ELSE old.metrics[s]
    <3> HIDE DEF slot
    <3> QED
      BY <1>1, <1>6, <2>1, <2>2 DEF Formed, Maps
  <2> HIDE DEF slot, got
  <2>4. ~HasRead(r, slot)
    <3>1. ~(MetricRank[slot] < MetricRank[slot])
      BY <2>1, RankTypes
    <3> QED
      BY <2>1, <3>1
  <2>5. /\ slot = "rx" => ~HasRead(r, "pass") /\ ~HasRead(r, "drop")
        /\ slot = "drop" => ~HasRead(r, "block_v4") /\ ~HasRead(r, "block_v6")
    <3>1. /\ {"pass", "drop", "block_v4", "block_v6"} \subseteq MetricSlots
          /\ ~(MetricRank["pass"] < MetricRank["rx"]) /\ ~(MetricRank["drop"] < MetricRank["rx"])
          /\ ~(MetricRank["block_v4"] < MetricRank["drop"])
          /\ ~(MetricRank["block_v6"] < MetricRank["drop"])
      BY DEF MetricRank, MetricSlots
    <3> QED
      BY <2>1, <3>1
  <2>6. Shape(r)'
    BY <1>4, <1>5, <1>1, <2>3 DEF Shape, Formed
  <2>7. StatsSeen(r)'
    BY <1>1, <1>4, <1>5, StatsKept
  <2>8. MetricsSeen(r)'
    BY <1>1, <1>4, <1>6, <2>1, <2>3, <2>4, <2>5, MetricsAdded DEF DataInv
  <2> QED
    BY <1>4, <2>6, <2>7, <2>8 DEF ReaderInv
<1>7. CASE At(r) # "metrics"
  <2> HIDE DEF slot, got
  <2>1. Shape(r)'
    BY <1>1, <1>4, <1>5, <1>7 DEF Shape, Formed
  <2>2. StatsSeen(r)'
    BY <1>1, <1>4, <1>5, StatsKept
  <2>3. MetricsSeen(r)'
    BY <1>1, <1>4, <1>5, <1>7, MetricsKept
  <2> QED
    BY <1>4, <2>1, <2>2, <2>3 DEF ReaderInv
<1> QED
  BY <1>6, <1>7

(* Whatever a reader does, what it knows stays right, *)
LEMMA ReadKeepsOthers ==
  ASSUME DataInv, DOMAIN reading = Readers, UNCHANGED vars,
         NEW r \in Readers, ReaderInv(r), Read(r)
  PROVE  OnlyOf(r) /\ ReaderInv(r)'
<1>1. CASE \E task \in Tasks : StartTask(r, task)
  <2>1. PICK task \in Tasks : reading' = [reading EXCEPT ![r] = Reading(task)]
    BY <1>1, Zenon DEF StartTask
  <2>2. task \in {"none", "stats", "metrics", "tick"}
    BY TasksAssumption
  <2> QED
    BY <2>1, <2>2, Begins
<1>2. CASE OpenFails(r)
  BY <1>2, OpenFailsKeeps
<1>3. CASE \E c \in Cpus : ReadCpu(r, c)
  BY <1>3, ReadCpuKeeps
<1>4. CASE ReadSlot(r)
  BY <1>4, ReadSlotKeeps
<1>5. CASE Finish(r)
  <2>1. reading' = [reading EXCEPT ![r] = Reading("none")]
    BY <1>5, Zenon DEF Finish
  <2> QED
    BY <2>1, Begins
<1> QED
  BY <1>1, <1>2, <1>3, <1>4, <1>5 DEF Read

(* and what the others know. *)
LEMMA ReadKeeps ==
  ASSUME DataInv, ReadersInv, UNCHANGED vars, NEW r \in Readers, Read(r)
  PROVE  ReadersInv'
<1>1. DOMAIN reading = Readers /\ ReaderInv(r)
  BY DEF ReadersInv
<1>2. OnlyOf(r) /\ ReaderInv(r)'
  BY <1>1, ReadKeepsOthers
<1>3. ASSUME NEW q \in Readers, q # r PROVE ReaderInv(q)'
  <2>1. reading'[q] = reading[q] /\ ReaderInv(q)
    BY <1>2, <1>3 DEF OnlyOf, ReadersInv
  <2> QED
    BY <2>1, ReadsOnlyOwn
<1> QED
  BY <1>2, <1>3 DEF ReadersInv, OnlyOf

(* The data plane counts on, beside the readers as without them. *)
LEMMA DataPlaneCounts ==
  ASSUME DataInv, DataPlane
  PROVE  DataInv' /\ Counting
<1>1. TypeOK /\ LedgerInv /\ MetricsInv /\ seen \in [Cpus -> SeenType] /\ seen' = seen
  BY DEF DataInv, DataPlane, TypeOK, SeenType
<1>2. DataInv'
  <2>1. ASSUME NEW c \in Cpus, Program(c) PROVE DataInv'
    <3>1. TypeOK'
      BY <1>1, <2>1, ProgramTypes
    <3>2. LedgerInv'
      <4> SUFFICES ASSUME NEW d \in Cpus PROVE LedgerAt(d)'
        BY DEF LedgerInv
      <4>1. LedgerAt(d)
        BY <1>1 DEF LedgerInv
      <4> QED
        BY <1>1, <2>1, <4>1, OwnLedger, OthersKeepLedger
    <3>3. MetricsInv'
      BY <1>1, <2>1, ProgramKeepsMetrics
    <3> QED
      BY <3>1, <3>2, <3>3 DEF DataInv
  <2>2. CASE Administrator
    <3>1. TypeOK'
      BY <1>1, <2>2, AdministratorTypes
    <3>2. LedgerInv'
      BY <1>1, <2>2, OthersKeepLedger DEF LedgerInv
    <3>3. MetricsInv'
      BY <1>1, <2>2, AdministratorKeepsMetrics
    <3> QED
      BY <3>1, <3>2, <3>3 DEF DataInv
  <2> QED
    BY <2>1, <2>2 DEF DataPlane
<1>3. /\ \A c \in Cpus : \A s \in StatSlots : stats[c][s] <= stats'[c][s]
      /\ \A s \in MetricSlots : metrics[s] <= metrics'[s]
  <2>1. /\ \A c \in Cpus : \A s \in StatSlots : stats[c][s] \in Nat
        /\ \A s \in MetricSlots : metrics[s] \in Nat
    BY <1>1 DEF TypeOK
  <2>2. ASSUME NEW c \in Cpus, NEW s \in StatSlots, StatInc(c, s)
        PROVE  \A d \in Cpus : \A t \in StatSlots : stats[d][t] <= stats'[d][t]
    <3>1. /\ stats'[c][s] = stats[c][s] + 1
          /\ \A t \in StatSlots \ {s} : stats'[c][t] = stats[c][t]
          /\ \A d \in Cpus \ {c} : stats'[d] = stats[d]
      BY <1>1, <2>2, StatIncEffect
    <3> SUFFICES ASSUME NEW d \in Cpus, NEW t \in StatSlots PROVE stats[d][t] <= stats'[d][t]
      OBVIOUS
    <3>2. stats[d][t] \in Nat /\ (stats'[d][t] = stats[d][t] \/ stats'[d][t] = stats[d][t] + 1)
      BY <2>1, <3>1
    <3> QED
      BY <3>2
  <2>3. ASSUME NEW s \in MetricSlots, MetricInc(s)
        PROVE  \A t \in MetricSlots : metrics[t] <= metrics'[t]
    <3>1. /\ options.metrics => /\ metrics'[s] = metrics[s] + 1
                                /\ \A t \in MetricSlots \ {s} : metrics'[t] = metrics[t]
          /\ ~options.metrics => metrics' = metrics
      BY <1>1, <2>3, MetricIncEffect
    <3> SUFFICES ASSUME NEW t \in MetricSlots PROVE metrics[t] <= metrics'[t]
      OBVIOUS
    <3>2. metrics[t] \in Nat /\ (metrics'[t] = metrics[t] \/ metrics'[t] = metrics[t] + 1)
      BY <2>1, <3>1
    <3> QED
      BY <3>2
  <2>4. /\ UNCHANGED stats => \A d \in Cpus : \A t \in StatSlots : stats[d][t] <= stats'[d][t]
        /\ UNCHANGED metrics => \A t \in MetricSlots : metrics[t] <= metrics'[t]
    BY <2>1
  <2>5. /\ {"total", "passed", "v4_match", "v6_match"} \subseteq StatSlots
        /\ {"rx", "pass", "drop", "allow_hit", "block_v4", "block_v6"} \subseteq MetricSlots
    BY DEF StatSlots, MetricSlots
  <2>6. ASSUME NEW c \in Cpus, Program(c)
        PROVE  /\ UNCHANGED stats \/ \E s \in StatSlots : StatInc(c, s)
               /\ UNCHANGED metrics \/ \E s \in MetricSlots : MetricInc(s)
    <3>1. CASE CountMatch(c)
      <4>1. Family(frame[c]) \in Families
        BY <1>1, <3>1 DEF CountMatch, Goto, LedgerInv, LedgerAt
      <4>2. MatchSlot[Family(frame[c])] \in StatSlots /\ BlockSlot[Family(frame[c])] \in MetricSlots
        BY <4>1 DEF Families, MatchSlot, BlockSlot, StatSlots, MetricSlots
      <4> QED
        BY <3>1, <4>2 DEF CountMatch
    <3>2. CASE \E f \in Frames : Receive(c, f)
      BY <2>5, <3>2 DEF Receive
    <3>3. CASE CountRx(c) \/ CountAllowHit(c) \/ Drop(c)
      BY <2>5, <3>3 DEF CountRx, CountAllowHit, Drop
    <3>4. CASE ObservePerf(c) \/ LookupAllow(c) \/ LookupBlock(c) \/ ReadDryrun(c)
      BY <3>4 DEF ObservePerf, LookupAllow, LookupBlock, ReadDryrun, counters
    <3>5. CASE Pass(c)
      BY <2>5, <3>5 DEF Pass
    <3> QED
      BY <2>6, <3>1, <3>2, <3>3, <3>4, <3>5 DEF Program
  <2>7. Administrator => UNCHANGED <<stats, metrics>>
    BY Zenon DEF Administrator, UpdateAllowlist, UpdateBlocklist, SetDryrun, Update, counters
  <2> QED
    BY <2>2, <2>3, <2>4, <2>6, <2>7 DEF DataPlane
<1> QED
  BY <1>1, <1>2, <1>3 DEF DataInv, TypeOK, Counting

(* A step of the data plane keeps what every reader knows right. *)
LEMMA DataPlaneKeeps ==
  ASSUME DataInv, ReadersInv, DataPlane, UNCHANGED readers
  PROVE  ReadersInv'
<1>1. Counting /\ reading' = reading
  BY DataPlaneCounts DEF readers
<1> SUFFICES ASSUME NEW r \in Readers PROVE ReaderInv(r)'
  BY <1>1 DEF ReadersInv
<1>2. ReaderInv(r)
  BY DEF ReadersInv
<1>3. /\ \A s \in StatSlots : ReadFrom(r, s)' = ReadFrom(r, s)
      /\ \A s \in MetricSlots : HasRead(r, s)' = HasRead(r, s)
  BY <1>1 DEF ReadFrom, HasRead, StatsAt, MetricsAt, Visits, At
<1>4. Shape(r)'
  BY <1>1, <1>2 DEF ReaderInv, Shape, Formed, Placed, Visits, At
<1> QED
  BY <1>1, <1>2, <1>3, <1>4, StatsKept, MetricsKept DEF ReaderInv, Shape

(* Every step keeps it all right. *)
LEMMA ReadersStep ==
  ASSUME DataInv, ReadersInv, [ReadersNext]_<<vars, readers>>
  PROVE  DataInv' /\ ReadersInv'
<1>1. ASSUME UNCHANGED vars PROVE DataInv'
  BY <1>1 DEF vars, maps, counters, DataInv, TypeOK, LedgerInv, LedgerAt, InFlight, Family,
              MetricsInv, Between, Matched
<1>2. CASE DataPlane /\ UNCHANGED readers
  BY <1>2, DataPlaneCounts, DataPlaneKeeps
<1>3. ASSUME NEW r \in Readers, Read(r), UNCHANGED vars PROVE DataInv' /\ ReadersInv'
  BY <1>1, <1>3, ReadKeeps
<1>4. CASE UNCHANGED <<vars, readers>>
  <2>1. UNCHANGED vars /\ reading' = reading
    BY <1>4 DEF readers
  <2>2. ASSUME NEW r \in Readers PROVE ReaderInv(r)'
    BY <2>1, ReadsOnlyOwn DEF ReadersInv
  <2> QED
    BY <1>1, <2>1, <2>2 DEF ReadersInv
<1> QED
  BY <1>2, <1>3, <1>4 DEF ReadersNext

LEMMA ReadersStart ==
  ASSUME Init, ReadersInit
  PROVE  DataInv /\ ReadersInv
<1>1. LedgerInv
  BY DEF Init, LedgerInv, LedgerAt, InFlight, StatSlots
<1>2. DataInv
  BY <1>1, InitialTypes, InitialMetrics DEF DataInv
<1>3. ReadersInv
  <2> SUFFICES ASSUME NEW r \in Readers PROVE ReaderInv(r)
    BY DEF ReadersInit, ReadersInv
  <2>1. reading[r] = Reading("none")
    BY DEF ReadersInit
  <2> QED
    BY <2>1, Beginnings DEF BeginningsHold
<1> QED
  BY <1>2, <1>3

(* It holds in every state. *)
LEMMA ReadersInvariance == ReadersSpec => [](DataInv /\ ReadersInv)
<1>1. Init /\ ReadersInit => DataInv /\ ReadersInv
  BY ReadersStart
<1>2. DataInv /\ ReadersInv /\ [ReadersNext]_<<vars, readers>> => DataInv' /\ ReadersInv'
  BY ReadersStep
<1> QED
  BY <1>1, <1>2, PTL DEF ReadersSpec

(* The stats that are read to the end explain every frame that they count as    *)
(* received: it was passed or counted as a match, or it is one of the at most    *)
(* one frame per CPU that were in flight, however many frames the CPUs count      *)
(* between the reads (maps.go:272-291).                                          *)
THEOREM StatsReadExplained == ReadersSpec => []StatsExplained
<1>1. DataInv /\ ReadersInv => StatsExplained
  BY StatsSeenExplains DEF DataInv, ReadersInv, ReaderInv, StatsExplained, Done
<1> QED
  BY <1>1, ReadersInvariance, PTL

(* So do the metrics, the drops among them by the block hits (maps.go:325-338).   *)
THEOREM MetricsReadExplained == ReadersSpec => []MetricsExplained
<1>1. DataInv /\ ReadersInv => MetricsExplained
  BY MetricsSeenExplains DEF ReadersInv, ReaderInv, MetricsExplained, Done
<1> QED
  BY <1>1, ReadersInvariance, PTL

-----------------------------------------------------------------------------
(* The histogram, and what the reads are bounded by *)

(* What can be left of the histogram, and how much of it has been read. *)
PerfTodos == {[i \in 1 .. n |-> PerfSlots - n + i - 1] : n \in 1 .. PerfSlots}

PerfPlaced(r) ==
  /\ Visits(r, "perf") => reading[r].todo \in PerfTodos
  /\ reading[r].route # <<>> => "perf" \notin reading[r].complete

PerfAt(r) ==
  IF "perf" \in reading[r].complete THEN PerfSlots
  ELSE IF Visits(r, "perf") THEN PerfSlots - Len(reading[r].todo) ELSE 0

HasBucket(r, b) == b < PerfAt(r)

(* The rest of a reader's local state. *)
Got == [stats : [StatSlots -> Nat], metrics : [MetricSlots -> Nat], perf : [Buckets -> Nat]]

Filled(r) ==
  /\ reading[r].task \in DOMAIN Route
  /\ reading[r].cpus # {}
  /\ reading[r].got \in Got
  /\ reading[r].complete \subseteq Maps
  /\ PerfPlaced(r)

(* Reading a bucket leaves those after it. *)
LEMMA PerfWalk ==
  ASSUME NEW todo \in PerfTodos
  PROVE  /\ todo # <<>> /\ Len(todo) \in 1 .. PerfSlots
         /\ Head(todo) \in Buckets /\ Head(todo) = PerfSlots - Len(todo)
         /\ Len(todo) > 1 => Tail(todo) \in PerfTodos /\ Len(Tail(todo)) = Len(todo) - 1
<1>1. PICK n \in 1 .. PerfSlots : todo = [i \in 1 .. n |-> PerfSlots - n + i - 1]
  BY DEF PerfTodos
<1>2. PerfSlots \in Nat /\ n \in Nat /\ 1 <= n /\ n <= PerfSlots
  BY BoundsAssumption
<1>3. todo \in Seq(Int) /\ Len(todo) = n
  <2>1. \A i \in 1 .. n : PerfSlots - n + i - 1 \in Int
    BY <1>2
  <2> QED
    BY <1>1, <1>2, <2>1
<1>4. todo # <<>> /\ Head(todo) = PerfSlots - n
  <2>1. Head(todo) = todo[1] /\ 1 \in 1 .. n
    BY <1>2, <1>3
  <2>2. todo[1] = PerfSlots - n + 1 - 1
    BY <1>1, <2>1
  <2> QED
    BY <1>2, <1>3, <2>1, <2>2
<1>5. Head(todo) \in Buckets
  BY <1>2, <1>4 DEF Buckets
<1>6. ASSUME n > 1 PROVE Tail(todo) \in PerfTodos /\ Len(Tail(todo)) = n - 1
  <2>1. Tail(todo) = [i \in 1 .. (n - 1) |-> todo[i + 1]] /\ Len(Tail(todo)) = n - 1
    <3>1. todo # <<>> /\ Len(todo) = n /\ n - 1 \in Nat
      BY <1>2, <1>3, <1>4, <1>6
    <3>2. /\ Tail(todo) \in Seq(Int) /\ Len(Tail(todo)) = n - 1
          /\ \A i \in 1 .. Len(Tail(todo)) : Tail(todo)[i] = todo[i + 1]
      BY <1>3, <3>1, HeadTailProperties
    <3>3. Tail(todo) = [i \in 1 .. (n - 1) |-> todo[i + 1]]
      <4>1. Tail(todo) \in [1 .. (n - 1) -> Int]
        BY <3>2, LenProperties
      <4>2. Tail(todo) = [i \in 1 .. (n - 1) |-> Tail(todo)[i]]
        BY <4>1
      <4> QED
        BY <3>2, <4>1, <4>2
    <3> QED
      BY <3>2, <3>3
  <2>2. \A i \in 1 .. (n - 1) : todo[i + 1] = PerfSlots - (n - 1) + i - 1
    <3> SUFFICES ASSUME NEW i \in 1 .. (n - 1) PROVE todo[i + 1] = PerfSlots - (n - 1) + i - 1
      OBVIOUS
    <3>1. i + 1 \in 1 .. n
      BY <1>2
    <3>2. todo[i + 1] = PerfSlots - n + (i + 1) - 1
      BY <1>1, <3>1
    <3> QED
      BY <1>2, <3>2
  <2>3. Tail(todo) = [i \in 1 .. (n - 1) |-> PerfSlots - (n - 1) + i - 1]
    BY <2>1, <2>2
  <2>4. n - 1 \in 1 .. PerfSlots
    BY <1>2, <1>6
  <2> QED
    BY <2>1, <2>3, <2>4 DEF PerfTodos
<1> QED
  BY <1>3, <1>4, <1>5, <1>6

(* The histogram is read from its first bucket on. *)
LEMMA FirstBucket == Slots["perf"] \in PerfTodos /\ Len(Slots["perf"]) = PerfSlots
<1>1. Slots["perf"] = [i \in 1 .. PerfSlots |-> i - 1]
  BY DEF Slots
<1>2. PerfSlots \in Nat /\ PerfSlots \in 1 .. PerfSlots
  BY BoundsAssumption
<1>3. [i \in 1 .. PerfSlots |-> PerfSlots - PerfSlots + i - 1] = [i \in 1 .. PerfSlots |-> i - 1]
  BY <1>2
<1>4. [i \in 1 .. PerfSlots |-> i - 1] \in Seq(Int)
      /\ Len([i \in 1 .. PerfSlots |-> i - 1]) = PerfSlots
  BY <1>2
<1> QED
  BY <1>1, <1>2, <1>3, <1>4 DEF PerfTodos

(* The buckets that have been read, where a reader is. *)
LEMMA AtPerf ==
  ASSUME NEW r \in Readers, PerfPlaced(r)
  PROVE  /\ Visits(r, "perf") =>
              /\ Head(reading[r].todo) \in Buckets /\ Len(reading[r].todo) \in 1 .. PerfSlots
              /\ Head(reading[r].todo) = PerfSlots - Len(reading[r].todo)
              /\ \A b \in Buckets : HasBucket(r, b) = (b < Head(reading[r].todo))
         /\ reading[r].route # <<>> /\ At(r) # "perf" => \A b \in Buckets : ~HasBucket(r, b)
         /\ "perf" \in reading[r].complete => \A b \in Buckets : HasBucket(r, b)
         /\ reading[r].route = <<>> /\ "perf" \notin reading[r].complete =>
              \A b \in Buckets : ~HasBucket(r, b)
<1>1. PerfSlots \in Nat /\ \A b \in Buckets : b \in Nat /\ b < PerfSlots /\ ~(b < 0)
  BY BoundsAssumption DEF Buckets
<1>2. ASSUME Visits(r, "perf")
      PROVE  /\ Head(reading[r].todo) \in Buckets /\ Len(reading[r].todo) \in 1 .. PerfSlots
             /\ Head(reading[r].todo) = PerfSlots - Len(reading[r].todo)
             /\ \A b \in Buckets : HasBucket(r, b) = (b < Head(reading[r].todo))
  <2>1. reading[r].todo \in PerfTodos /\ "perf" \notin reading[r].complete
    BY <1>2 DEF PerfPlaced, Visits
  <2>2. /\ Head(reading[r].todo) \in Buckets /\ Len(reading[r].todo) \in 1 .. PerfSlots
        /\ Head(reading[r].todo) = PerfSlots - Len(reading[r].todo)
    BY <2>1, PerfWalk
  <2>3. PerfAt(r) = PerfSlots - Len(reading[r].todo)
    BY <1>2, <2>1, Zenon DEF PerfAt
  <2> QED
    BY <2>2, <2>3 DEF HasBucket
<1>3. ASSUME reading[r].route # <<>>, At(r) # "perf" PROVE \A b \in Buckets : ~HasBucket(r, b)
  <2>1. PerfAt(r) = 0
    BY <1>3, Zenon DEF PerfPlaced, PerfAt, Visits
  <2> QED
    BY <1>1, <2>1 DEF HasBucket
<1>4. ASSUME reading[r].route = <<>>, "perf" \notin reading[r].complete
      PROVE  \A b \in Buckets : ~HasBucket(r, b)
  <2>1. PerfAt(r) = 0
    BY <1>4, Zenon DEF PerfAt, Visits
  <2> QED
    BY <1>1, <2>1 DEF HasBucket
<1>5. "perf" \in reading[r].complete => \A b \in Buckets : HasBucket(r, b)
  BY <1>1 DEF HasBucket, PerfAt
<1> QED
  BY <1>2, <1>3, <1>4, <1>5

(* Going on to the next map, *)
LEMMA NextMapPerf ==
  ASSUME NEW r \in Readers, Placed(r), Filled(r), reading[r].route # <<>>,
         reading'[r].route = Tail(reading[r].route),
         reading'[r].todo = Unread(Tail(reading[r].route)),
         reading'[r].complete \in {reading[r].complete, reading[r].complete \cup {At(r)}}
  PROVE  /\ PerfPlaced(r)' /\ reading'[r].complete \subseteq Maps
         /\ At(r) # "perf" => \A b \in Buckets : HasBucket(r, b)' = HasBucket(r, b)
         /\ At(r) = "perf" => \A b \in Buckets :
              HasBucket(r, b)' = ("perf" \in reading'[r].complete)
<1> DEFINE here == At(r)
           next == Tail(reading[r].route)
<1>1. here \in Maps /\ next \in Routes /\ (here = "perf" => next = <<>>)
  BY RouteWalk DEF Placed, At
<1>2. reading'[r].route = next /\ reading'[r].todo = Unread(next)
  OBVIOUS
<1>3. Visits(r, "perf")' => next # <<>> /\ Head(next) = "perf"
  BY <1>2, Zenon DEF Visits, At
<1>4. Visits(r, "perf")' => reading'[r].todo = Slots["perf"]
  BY <1>2, <1>3, Zenon DEF Unread
<1>5. "perf" \notin reading[r].complete /\ reading[r].complete \subseteq Maps
  BY DEF Filled, PerfPlaced
<1>6. /\ next # <<>> => "perf" \notin reading'[r].complete
      /\ reading'[r].complete \subseteq Maps
  <2>1. \/ reading'[r].complete = reading[r].complete
        \/ reading'[r].complete = reading[r].complete \cup {here}
    OBVIOUS
  <2> HIDE DEF next, here
  <2> QED
    BY <1>1, <1>5, <2>1
<1>7. PerfPlaced(r)' /\ reading'[r].complete \subseteq Maps
  <2>1. Visits(r, "perf")' => reading'[r].todo \in PerfTodos
    BY <1>4, FirstBucket
  <2> QED
    BY <1>2, <1>6, <2>1, Zenon DEF PerfPlaced
<1>8. PerfAt(r)' = IF "perf" \in reading'[r].complete THEN PerfSlots ELSE 0
  <2>1. CASE Visits(r, "perf")'
    <3>1. PerfAt(r)' = PerfSlots - Len(reading'[r].todo) /\ Len(reading'[r].todo) = PerfSlots
      BY <1>3, <1>4, <1>6, <2>1, FirstBucket, Zenon DEF PerfAt
    <3>2. PerfSlots - PerfSlots = 0
      BY BoundsAssumption
    <3> QED
      BY <1>3, <1>6, <2>1, <3>1, <3>2
  <2>2. CASE ~Visits(r, "perf")'
    BY <2>2, Zenon DEF PerfAt
  <2> QED
    BY <2>1, <2>2
<1>9. ASSUME NEW b \in Buckets PROVE HasBucket(r, b)' = ("perf" \in reading'[r].complete)
  <2>1. b \in Nat /\ b < PerfSlots /\ ~(b < 0)
    BY BoundsAssumption DEF Buckets
  <2> QED
    BY <1>8, <2>1 DEF HasBucket
<1>10. ASSUME here # "perf", NEW b \in Buckets PROVE HasBucket(r, b)' = HasBucket(r, b)
  <2>1. HasBucket(r, b) = FALSE
    BY <1>10, AtPerf DEF Filled, HasBucket
  <2>2. ("perf" \in reading'[r].complete) = FALSE
    BY <1>5, <1>10
  <2> QED
    BY <1>9, <2>1, <2>2
<1> QED
  BY <1>7, <1>9, <1>10

(* and reading on in the same. *)
LEMMA NextBucket ==
  ASSUME NEW r \in Readers, Filled(r), reading[r].route # <<>>,
         reading'[r].route = reading[r].route, reading'[r].complete = reading[r].complete,
         \/ Len(reading[r].todo) > 1 /\ reading'[r].todo = Tail(reading[r].todo)
         \/ At(r) # "perf"
  PROVE  /\ PerfPlaced(r)'
         /\ At(r) # "perf" => \A b \in Buckets : HasBucket(r, b)' = HasBucket(r, b)
         /\ At(r) = "perf" => \A b \in Buckets :
              HasBucket(r, b)' = (b = Head(reading[r].todo) \/ HasBucket(r, b))
<1>1. \A map : Visits(r, map)' <=> Visits(r, map)
  BY Zenon DEF Visits, At
<1>2. "perf" \notin reading[r].complete
  BY DEF Filled, PerfPlaced
<1>3. CASE At(r) # "perf"
  <2>1. ~Visits(r, "perf")
    BY <1>3 DEF Visits
  <2>2. PerfAt(r)' = 0 /\ PerfAt(r) = 0
    BY <1>1, <1>2, <2>1, Zenon DEF PerfAt
  <2>3. PerfPlaced(r)'
    BY <1>1, <1>2, <2>1, Zenon DEF PerfPlaced
  <2> QED
    BY <1>3, <2>2, <2>3 DEF HasBucket
<1>4. CASE At(r) = "perf"
  <2> DEFINE n == Len(reading[r].todo)
             slot == Head(reading[r].todo)
  <2>1. Visits(r, "perf") /\ reading[r].todo \in PerfTodos
    BY <1>4 DEF Filled, PerfPlaced, Visits
  <2>2. /\ n \in 1 .. PerfSlots /\ slot = PerfSlots - n
        /\ reading'[r].todo \in PerfTodos /\ Len(reading'[r].todo) = n - 1
    BY <1>4, <2>1, PerfWalk
  <2>3. PerfAt(r) = PerfSlots - n /\ PerfAt(r)' = PerfSlots - Len(reading'[r].todo)
    BY <1>1, <1>2, <2>1, Zenon DEF PerfAt
  <2>4. PerfPlaced(r)'
    BY <1>1, <1>2, <2>1, <2>2 DEF PerfPlaced
  <2>5. ASSUME NEW b \in Buckets PROVE HasBucket(r, b)' = (b = slot \/ HasBucket(r, b))
    <3>1. b \in Nat /\ PerfSlots \in Nat
      BY BoundsAssumption DEF Buckets
    <3> HIDE DEF n, slot
    <3> QED
      BY <2>2, <2>3, <3>1 DEF HasBucket
  <2> QED
    BY <1>4, <2>4, <2>5
<1> QED
  BY <1>3, <1>4

(* A slot that has been read: the buckets that have been. *)
LEMMA SlotReadPerf ==
  ASSUME DOMAIN reading = Readers, NEW r \in Readers, Formed(r), Placed(r), Filled(r),
         reading[r].route # <<>>, NEW got \in Got, GotSlot(r, got)
  PROVE  /\ Filled(r)'
         /\ At(r) # "perf" => \A b \in Buckets : HasBucket(r, b)' = HasBucket(r, b)
         /\ At(r) = "perf" => \A b \in Buckets :
              HasBucket(r, b)' = (b = Head(reading[r].todo) \/ HasBucket(r, b))
<1>1. /\ reading'[r].got = got /\ reading'[r].cpus = Cpus
      /\ reading'[r].task = reading[r].task
  <2>1. reading'[r].task = reading[r].task
    <3>1. CASE Len(reading[r].todo) > 1
      <4>1. reading' = [reading EXCEPT ![r].got = got, ![r].todo = Tail(@), ![r].cpus = Cpus]
        BY <3>1 DEF GotSlot
      <4> QED
        BY <4>1 DEF Formed, Fields
    <3>2. CASE ~(Len(reading[r].todo) > 1)
      <4>1. reading' = [Skip(r) EXCEPT ![r].got = got, ![r].cpus = Cpus,
                                       ![r].complete = @ \cup {At(r)}]
        BY <3>2 DEF GotSlot
      <4> QED
        BY <4>1 DEF Formed, Fields, Skip
    <3> QED
      BY <3>1, <3>2
  <2> QED
    BY <2>1, GotSlotEffect
<1>2. CASE Len(reading[r].todo) > 1
  <2>1. /\ reading'[r].route = reading[r].route /\ reading'[r].complete = reading[r].complete
        /\ reading'[r].todo = Tail(reading[r].todo)
    BY <1>2, GotSlotEffect
  <2>2. /\ PerfPlaced(r)'
        /\ At(r) # "perf" => \A b \in Buckets : HasBucket(r, b)' = HasBucket(r, b)
        /\ At(r) = "perf" => \A b \in Buckets :
             HasBucket(r, b)' = (b = Head(reading[r].todo) \/ HasBucket(r, b))
    BY <1>2, <2>1, NextBucket
  <2> QED
    BY <1>1, <2>1, <2>2, CpusAssumption DEF Filled
<1>3. CASE ~(Len(reading[r].todo) > 1)
  <2>1. /\ reading'[r].route = Tail(reading[r].route)
        /\ reading'[r].complete = reading[r].complete \cup {At(r)}
        /\ reading'[r].todo = Unread(Tail(reading[r].route))
    BY <1>3, GotSlotEffect
  <2>2. /\ PerfPlaced(r)' /\ reading'[r].complete \subseteq Maps
        /\ At(r) # "perf" => \A b \in Buckets : HasBucket(r, b)' = HasBucket(r, b)
        /\ At(r) = "perf" => \A b \in Buckets :
             HasBucket(r, b)' = ("perf" \in reading'[r].complete)
    BY <2>1, NextMapPerf
  <2>3. ASSUME At(r) = "perf", NEW b \in Buckets
        PROVE  HasBucket(r, b)' = (b = Head(reading[r].todo) \/ HasBucket(r, b))
    <3>1. Visits(r, "perf")
      BY <2>3 DEF Visits
    <3>2. /\ Len(reading[r].todo) \in 1 .. PerfSlots
          /\ Head(reading[r].todo) = PerfSlots - Len(reading[r].todo)
          /\ HasBucket(r, b) = (b < Head(reading[r].todo))
      BY <3>1, AtPerf DEF Filled, Got
    <3>3. b \in Nat /\ b <= PerfSlots - 1 /\ PerfSlots \in Nat
      BY BoundsAssumption DEF Buckets
    <3>4. Head(reading[r].todo) = PerfSlots - 1
      BY <1>3, <3>2, <3>3
    <3>5. b = Head(reading[r].todo) \/ HasBucket(r, b)
      <4>1. CASE b < Head(reading[r].todo)
        BY <3>2, <4>1
      <4>2. CASE ~(b < Head(reading[r].todo))
        BY <3>3, <3>4, <4>2
      <4> QED
        BY <4>1, <4>2
    <3>6. HasBucket(r, b)' = TRUE
      BY <2>1, <2>2, <2>3
    <3> QED
      BY <3>5, <3>6
  <2> QED
    BY <1>1, <2>2, <2>3, CpusAssumption DEF Filled
<1> QED
  BY <1>2, <1>3

(* What a reader has read of a slot is of values that the CPUs' slots still     *)
(* have or have passed; the buckets it has read are likewise.                   *)
ReadOf(r, s) == [c \in Cpus |-> IF c \in ReadFrom(r, s) THEN stats[c][s] ELSE 0]
Unseen(r, s) == [c \in Cpus |-> IF c \in ReadFrom(r, s) THEN 0 ELSE stats[c][s]]
Bucketed(r) == [b \in Buckets |-> IF HasBucket(r, b) THEN reading[r].got.perf[b] ELSE perf[b]]

Bounded(r) ==
  /\ \A s \in StatSlots : reading[r].got.stats[s] <= Size(ReadOf(r, s))
  /\ \A s \in MetricSlots : reading[r].got.metrics[s] <= metrics[s]
  /\ \A b \in Buckets : reading[r].got.perf[b] <= perf[b]

(* A frame it has read of is a sample it has read, or will.                     *)
SamplesSeen(r) ==
  options.perf =>
    /\ reading[r].got.metrics["rx"] <= Size(Bucketed(r)) + InFlightAtMost
    /\ reading[r].got.stats["total"] <= Size(Bucketed(r)) + InFlightAtMost

SampleInv(r) == Filled(r) /\ Bounded(r) /\ SamplesSeen(r)

(* What the counters will show of a slot that has not been read to the end.     *)
Ahead(r, s) == reading[r].got.stats[s] + Size(Unseen(r, s))

AheadGrows(r) ==
  /\ \A s \in StatSlots : Ahead(r, s) <= Ahead(r, s)'
  /\ \A s \in MetricSlots : Metric(r, s) <= Metric(r, s)'
  /\ Size(Bucketed(r)) <= Size(Bucketed(r))'

(* No counter of the data plane goes back, those of the histogram included.     *)
Growing ==
  /\ Counting /\ options' = options
  /\ perf \in [Buckets -> Nat] /\ perf' \in [Buckets -> Nat]
  /\ \A b \in Buckets : perf[b] <= perf'[b]

LEMMA BucketsFinite == IsFiniteSet(Buckets)
<1>1. 0 \in Int /\ PerfSlots - 1 \in Int
  BY BoundsAssumption
<1> QED
  BY <1>1, FS_Interval DEF Buckets

(* The sums are numbers, and together they make up the slot. *)
SumsAreNumbers(r) ==
  /\ \A s \in StatSlots :
       /\ ReadOf(r, s) \in [Cpus -> Nat] /\ Unseen(r, s) \in [Cpus -> Nat]
       /\ Size(ReadOf(r, s)) \in Nat /\ Size(Unseen(r, s)) \in Nat
       /\ SlotOf(s) \in [Cpus -> Nat] /\ Size(SlotOf(s)) \in Nat
       /\ Size(SlotOf(s)) = Size(ReadOf(r, s)) + Size(Unseen(r, s))
  /\ Bucketed(r) \in [Buckets -> Nat] /\ Size(Bucketed(r)) \in Nat
  /\ perf \in [Buckets -> Nat] /\ Size(perf) \in Nat

ReadSumsHold == \A r \in Readers : TypeOK /\ Filled(r) => SumsAreNumbers(r)

LEMMA ReadSums == ReadSumsHold
<1> SUFFICES ASSUME NEW r \in Readers, TypeOK, Filled(r) PROVE SumsAreNumbers(r)
  BY DEF ReadSumsHold
<1>1. ASSUME NEW s \in StatSlots
      PROVE  /\ ReadOf(r, s) \in [Cpus -> Nat] /\ Unseen(r, s) \in [Cpus -> Nat]
             /\ SlotOf(s) \in [Cpus -> Nat]
             /\ \A c \in Cpus : SlotOf(s)[c] = ReadOf(r, s)[c] + Unseen(r, s)[c]
  <2>1. \A c \in Cpus : stats[c][s] \in Nat
    BY DEF TypeOK
  <2> QED
    BY <2>1 DEF ReadOf, Unseen, SlotOf
<1>2. Bucketed(r) \in [Buckets -> Nat] /\ perf \in [Buckets -> Nat]
  BY DEF Bucketed, Filled, Got, TypeOK, Buckets
<1>3. Size(Bucketed(r)) \in Nat /\ Size(perf) \in Nat
  BY <1>2, BucketsFinite, CellsFinite
<1>4. ASSUME NEW s \in StatSlots
      PROVE  /\ Size(ReadOf(r, s)) \in Nat /\ Size(Unseen(r, s)) \in Nat
             /\ Size(SlotOf(s)) \in Nat
             /\ Size(SlotOf(s)) = Size(ReadOf(r, s)) + Size(Unseen(r, s))
  BY <1>1, CpusAssumption, CellsFinite, SizeSum
<1> QED
  BY <1>1, <1>2, <1>3, <1>4 DEF SumsAreNumbers

(* The sums grow with the counters, where nothing is read. *)
LEMMA SumsGrow ==
  ASSUME NEW r \in Readers, TypeOK, TypeOK', Growing, Filled(r), Filled(r)',
         reading'[r].got.perf = reading[r].got.perf,
         \A s \in StatSlots : ReadFrom(r, s)' = ReadFrom(r, s),
         \A b \in Buckets : HasBucket(r, b)' = HasBucket(r, b)
  PROVE  /\ \A s \in StatSlots : /\ Size(ReadOf(r, s)) <= Size(ReadOf(r, s))'
                                 /\ Size(Unseen(r, s)) <= Size(Unseen(r, s))'
         /\ Size(Bucketed(r)) <= Size(Bucketed(r))'
<1>1. ASSUME NEW s \in StatSlots
      PROVE  /\ Size(ReadOf(r, s)) <= Size(ReadOf(r, s))'
             /\ Size(Unseen(r, s)) <= Size(Unseen(r, s))'
  <2>1. /\ ReadOf(r, s) \in [Cpus -> Nat] /\ ReadOf(r, s)' \in [Cpus -> Nat]
        /\ Unseen(r, s) \in [Cpus -> Nat] /\ Unseen(r, s)' \in [Cpus -> Nat]
    <3>1. \A c \in Cpus : stats[c][s] \in Nat /\ stats'[c][s] \in Nat
      BY DEF Growing, Counting
    <3> QED
      BY <3>1 DEF ReadOf, Unseen
  <2>2. \A c \in Cpus : /\ ReadOf(r, s)[c] <= ReadOf(r, s)'[c]
                        /\ Unseen(r, s)[c] <= Unseen(r, s)'[c]
    <3>1. \A c \in Cpus : stats[c][s] <= stats'[c][s]
      BY DEF Growing, Counting
    <3> QED
      BY <3>1 DEF ReadOf, Unseen
  <2>3. Size(ReadOf(r, s)) <= Size(ReadOf(r, s)') /\ Size(Unseen(r, s)) <= Size(Unseen(r, s)')
    BY <2>1, <2>2, CpusAssumption, SizeOrder
  <2> QED
    BY <2>3 DEF Size, Cells
<1>2. Size(Bucketed(r)) <= Size(Bucketed(r)')
  <2>1. /\ Bucketed(r) \in [Buckets -> Nat] /\ Bucketed(r)' \in [Buckets -> Nat]
        /\ \A b \in Buckets : Bucketed(r)[b] <= Bucketed(r)'[b]
    BY DEF Bucketed, Filled, Got, Growing
  <2> QED
    BY <2>1, BucketsFinite, SizeOrder
<1>3. Size(Bucketed(r)') = Size(Bucketed(r))'
  BY DEF Size, Cells
<1> QED
  BY <1>1, <1>2, <1>3

(* So what is known of a reader stays known while it reads nothing. *)
LEMMA SamplesKept ==
  ASSUME NEW r \in Readers, TypeOK, TypeOK', Growing, Formed(r), SampleInv(r), Filled(r)',
         reading'[r].got = reading[r].got,
         \A s \in StatSlots : ReadFrom(r, s)' = ReadFrom(r, s),
         \A s \in MetricSlots : HasRead(r, s)' = HasRead(r, s),
         \A b \in Buckets : HasBucket(r, b)' = HasBucket(r, b)
  PROVE  SampleInv(r)' /\ AheadGrows(r)
<1>1. Filled(r) /\ Bounded(r) /\ SamplesSeen(r)
  BY DEF SampleInv
<1>2. /\ \A s \in StatSlots : Size(ReadOf(r, s)) <= Size(ReadOf(r, s))'
      /\ \A s \in StatSlots : Size(Unseen(r, s)) <= Size(Unseen(r, s))'
      /\ Size(Bucketed(r)) <= Size(Bucketed(r))'
  BY <1>1, SumsGrow
<1>3. /\ \A s \in StatSlots : /\ Size(ReadOf(r, s)) \in Nat /\ Size(Unseen(r, s)) \in Nat
                              /\ reading[r].got.stats[s] \in Nat
      /\ \A s \in MetricSlots : reading[r].got.metrics[s] \in Nat
      /\ \A b \in Buckets : reading[r].got.perf[b] \in Nat
      /\ Size(Bucketed(r)) \in Nat
  BY <1>1, ReadSums DEF Formed, Filled, Got, ReadSumsHold, SumsAreNumbers
<1>4. /\ \A s \in StatSlots : Size(ReadOf(r, s))' \in Nat /\ Size(Unseen(r, s))' \in Nat
      /\ Size(Bucketed(r))' \in Nat
  <2>1. ReadSumsHold'
    BY ReadSums, PTL
  <2> QED
    BY <2>1 DEF ReadSumsHold, SumsAreNumbers
<1>5. Bounded(r)'
  <2>1. \A s \in StatSlots : reading'[r].got.stats[s] <= Size(ReadOf(r, s))'
    BY <1>1, <1>2, <1>3, <1>4 DEF Bounded
  <2>2. \A s \in MetricSlots : reading'[r].got.metrics[s] <= metrics'[s]
    <3>1. \A s \in MetricSlots : metrics[s] \in Nat /\ metrics'[s] \in Nat /\ metrics[s] <= metrics'[s]
      BY DEF Growing, Counting
    <3> QED
      BY <1>1, <1>3, <3>1 DEF Bounded
  <2>3. \A b \in Buckets : reading'[r].got.perf[b] <= perf'[b]
    <3>1. \A b \in Buckets : perf[b] \in Nat /\ perf'[b] \in Nat /\ perf[b] <= perf'[b]
      BY DEF Growing
    <3> QED
      BY <1>1, <1>3, <3>1 DEF Bounded
  <2> QED
    BY <2>1, <2>2, <2>3 DEF Bounded
<1>6. SamplesSeen(r)'
  <2>1. InFlightAtMost \in Nat /\ InFlightAtMost' \in Nat /\ InFlightAtMost <= InFlightAtMost'
    BY InFlightGrows DEF Growing
  <2>2. /\ reading[r].got.metrics["rx"] \in Nat /\ reading[r].got.stats["total"] \in Nat
    BY <1>3 DEF StatSlots, MetricSlots
  <2> QED
    BY <1>1, <1>2, <1>3, <1>4, <2>1, <2>2 DEF SamplesSeen, Growing
<1>7. AheadGrows(r)
  <2>1. \A s \in StatSlots : Ahead(r, s) <= Ahead(r, s)'
    BY <1>2, <1>3, <1>4 DEF Ahead
  <2>2. \A s \in MetricSlots : Metric(r, s) <= Metric(r, s)'
    <3> SUFFICES ASSUME NEW s \in MetricSlots PROVE Metric(r, s) <= Metric(r, s)'
      OBVIOUS
    <3>1. /\ reading[r].got.metrics[s] \in Nat /\ reading'[r].got.metrics = reading[r].got.metrics
          /\ metrics[s] \in Nat /\ metrics'[s] \in Nat /\ metrics[s] <= metrics'[s]
      BY <1>3 DEF Growing, Counting
    <3>2. CASE HasRead(r, s)
      BY <3>1, <3>2 DEF Metric
    <3>3. CASE ~HasRead(r, s)
      BY <3>1, <3>3 DEF Metric
    <3> QED
      BY <3>2, <3>3
  <2> QED
    BY <1>2, <2>1, <2>2 DEF AheadGrows
<1> QED
  BY <1>5, <1>6, <1>7 DEF SampleInv

(* The data plane counts on; the readers leave its counters alone. *)
LEMMA DataPlaneGrows ==
  ASSUME DataInv, TrafficInv, DataPlane
  PROVE  Growing /\ TrafficInv'
<1>1. TypeOK /\ LedgerInv /\ Counting
  BY DataPlaneCounts DEF DataInv
<1>2. TrafficInv'
  BY <1>1, TrafficStep DEF DataPlane
<1>3. options' = options
  <2>1. CASE Administrator
    BY <2>1, Zenon DEF Administrator, UpdateAllowlist, UpdateBlocklist, SetDryrun, Update
  <2> QED
    BY <1>1, <2>1, StepsAreLocal DEF DataPlane
<1>4. perf \in [Buckets -> Nat]
  BY <1>1 DEF TypeOK, Buckets
<1>5. perf' = perf \/ \E len : PerfObserve(len)
  <2>1. CASE Administrator
    BY <2>1, Zenon DEF Administrator, UpdateAllowlist, UpdateBlocklist, SetDryrun, Update, counters
  <2>2. ASSUME NEW c \in Cpus, ObservePerf(c) PROVE \E len : PerfObserve(len)
    BY <2>2 DEF ObservePerf
  <2> QED
    BY <2>1, <2>2 DEF DataPlane, Program, Receive, CountRx, LookupAllow, CountAllowHit,
                      LookupBlock, CountMatch, ReadDryrun, Drop, Pass, counters
<1>6. perf' \in [Buckets -> Nat] /\ \A b \in Buckets : perf[b] <= perf'[b]
  <2>1. CASE perf' = perf
    BY <1>4, <2>1
  <2>2. ASSUME NEW len, PerfObserve(len)
        PROVE  perf' \in [Buckets -> Nat] /\ \A b \in Buckets : perf[b] <= perf'[b]
    <3>1. perf' = perf \/ perf' = [perf EXCEPT ![Bucket(len)] = @ + 1]
      BY <2>2 DEF PerfObserve
    <3>2. Bucket(len) \in Buckets
      BY BucketExists DEF Buckets
    <3> QED
      BY <1>4, <3>1, <3>2
  <2> QED
    BY <1>5, <2>1, <2>2
<1> QED
  BY <1>1, <1>2, <1>3, <1>4, <1>6 DEF Growing

LEMMA StandStillGrows ==
  ASSUME TypeOK, UNCHANGED vars
  PROVE  Growing
<1>1. Counting /\ UNCHANGED <<options, perf>>
  BY StandStill DEF vars, counters
<1>2. perf \in [Buckets -> Nat]
  BY DEF TypeOK, Buckets
<1> QED
  BY <1>1, <1>2 DEF Growing

(* Every frame that a reader could count now is a sample it still has to read,  *)
(* if it has read no bucket, but for those in flight.                           *)
LEMMA SamplesNow ==
  ASSUME DataInv, TrafficInv, NEW r \in Readers, Filled(r),
         \A b \in Buckets : ~HasBucket(r, b), options.perf
  PROVE  /\ metrics["rx"] <= Size(Bucketed(r)) + InFlightAtMost
         /\ Size(SlotOf("total")) <= Size(Bucketed(r)) + InFlightAtMost
<1> DEFINE S == {c \in Cpus : stats[c].total > 0}
<1>1. perf \in [Buckets -> Nat] /\ Bucketed(r) = perf /\ Size(perf) \in Nat
  <2>1. perf \in [Buckets -> Nat] /\ Size(perf) \in Nat
    BY ReadSums DEF ReadSumsHold, SumsAreNumbers, DataInv
  <2> QED
    BY <2>1 DEF Bucketed
<1>2. Sampling \subseteq S /\ S \subseteq Cpus
  <2>1. ASSUME NEW c \in Sampling PROVE c \in Cpus /\ stats[c].total > 0
    <3>1. c \in Cpus /\ pc[c] # "idle"
      BY DEF Sampling
    <3>2. /\ stats[c].total = stats[c].passed + drops[c] + 1
          /\ stats[c].passed \in Nat /\ drops[c] \in Nat
      BY <3>1 DEF DataInv, LedgerInv, LedgerAt, InFlight, TypeOK, StatSlots
    <3> QED
      BY <3>1, <3>2
  <2> QED
    BY <2>1
<1>3. /\ IsFiniteSet(S) /\ Cardinality(Sampling) <= Cardinality(S)
      /\ Cardinality(Sampling) \in Nat /\ Cardinality(S) \in Nat
  <2> HIDE DEF S
  <2>1. IsFiniteSet(S)
    BY <1>2, CpusAssumption, FS_Subset
  <2> QED
    BY <1>2, <2>1, FS_Subset, FS_CardinalityType
<1>4. InFlightAtMost = Cardinality(S)
  BY DEF InFlightAtMost
<1> HIDE DEF S
<1>5. Size(SlotOf("total")) = Size(perf) + Cardinality(Sampling)
  BY DEF TrafficInv, SamplesInv
<1>6. metrics["rx"] \in Nat /\ metrics["rx"] <= Size(SlotOf("total"))
  <2>1. /\ metrics["rx"] \in Nat /\ Size(SlotOf("total")) \in Nat
        /\ Entering \in SUBSET Cpus
    BY SlotSum DEF DataInv, TypeOK, MetricSlots, StatSlots, Entering
  <2>2. Cardinality(Entering) \in Nat
    BY <2>1, CpusAssumption, FS_Subset, FS_CardinalityType
  <2>3. CASE options.metrics
    BY <2>1, <2>2, <2>3 DEF TrafficInv, HitsInv
  <2>4. CASE ~options.metrics
    BY <2>1, <2>4 DEF DataInv, MetricsInv, MetricSlots
  <2> QED
    BY <2>3, <2>4
<1> QED
  BY <1>1, <1>3, <1>4, <1>5, <1>6

(* One CPU's value: the buckets that have been read stay those. *)
LEMMA CpuReadPerf ==
  ASSUME TypeOK, DOMAIN reading = Readers, NEW r \in Readers, Formed(r), Placed(r), Filled(r),
         NEW c \in Cpus, ReadCpu(r, c)
  PROVE  /\ Filled(r)' /\ \A b \in Buckets : HasBucket(r, b)' = HasBucket(r, b)
         /\ \A b \in Buckets : ~HasBucket(r, b)
<1> DEFINE slot == Head(reading[r].todo)
           got == [reading[r].got EXCEPT !.stats[slot] = @ + stats[c][slot]]
<1>1. /\ At(r) = "stats" /\ c \in reading[r].cpus
      /\ \/ reading[r].cpus = {c} /\ GotSlot(r, got)
         \/ /\ reading[r].cpus # {c}
            /\ reading' = [reading EXCEPT ![r].got = got, ![r].cpus = @ \ {c}]
  BY DEF ReadCpu
<1>2. got \in Got /\ reading[r].route # <<>>
  <2>1. slot \in StatSlots /\ Visits(r, "stats")
    BY CpuRead
  <2> HIDE DEF slot
  <2>2. stats[c][slot] \in Nat /\ reading[r].got \in Got
    BY <2>1 DEF TypeOK, Filled
  <2>3. got \in Got
    BY <2>1, <2>2 DEF Got
  <2> QED
    BY <2>1, <2>3 DEF Visits
<1> HIDE DEF slot, got
<1>3. \A b \in Buckets : ~HasBucket(r, b)
  BY <1>1, <1>2, AtPerf DEF Filled
<1>4. CASE reading[r].cpus = {c} /\ GotSlot(r, got)
  <2>1. /\ Filled(r)'
        /\ At(r) # "perf" => \A b \in Buckets : HasBucket(r, b)' = HasBucket(r, b)
    BY <1>2, <1>4, SlotReadPerf
  <2> QED
    BY <1>1, <1>3, <2>1
<1>5. CASE /\ reading[r].cpus # {c}
           /\ reading' = [reading EXCEPT ![r].got = got, ![r].cpus = @ \ {c}]
  <2>1. /\ reading'[r].task = reading[r].task /\ reading'[r].got = got
        /\ reading'[r].cpus = reading[r].cpus \ {c}
        /\ reading'[r].route = reading[r].route /\ reading'[r].todo = reading[r].todo
        /\ reading'[r].complete = reading[r].complete
    BY <1>5 DEF Formed, Fields
  <2>2. PerfPlaced(r)' /\ \A b \in Buckets : HasBucket(r, b)' = HasBucket(r, b)
    BY <1>1, <1>2, <2>1, NextBucket
  <2>3. reading[r].cpus \ {c} # {}
    BY <1>1, <1>5
  <2> QED
    BY <1>2, <1>3, <2>1, <2>2, <2>3 DEF Filled
<1> QED
  BY <1>1, <1>4, <1>5

(* One CPU's value, the sums. *)
LEMMA ReadCpuSamples ==
  ASSUME DataInv, TrafficInv, UNCHANGED vars, TypeOK', DOMAIN reading = Readers, NEW r \in Readers,
         Formed(r), Placed(r), SampleInv(r), NEW c \in Cpus, ReadCpu(r, c)
  PROVE  SampleInv(r)' /\ AheadGrows(r)
<1> DEFINE slot == Head(reading[r].todo)
           got == [reading[r].got EXCEPT !.stats[slot] = @ + stats[c][slot]]
<1>1. TypeOK /\ Filled(r) /\ Bounded(r) /\ SamplesSeen(r)
  BY DEF DataInv, SampleInv
<1>2. /\ slot \in StatSlots /\ c \notin ReadFrom(r, slot)
      /\ got.metrics = reading[r].got.metrics /\ got.perf = reading[r].got.perf
      /\ \A s \in StatSlots : got.stats[s] =
           IF s = slot THEN reading[r].got.stats[s] + stats[c][s] ELSE reading[r].got.stats[s]
      /\ reading'[r].got = got
      /\ \A s \in StatSlots : ReadFrom(r, s)' =
           IF s = slot THEN ReadFrom(r, s) \cup {c} ELSE ReadFrom(r, s)
  BY <1>1, CpuRead
<1> HIDE DEF slot, got
<1>3. /\ Filled(r)' /\ \A b \in Buckets : HasBucket(r, b)' = HasBucket(r, b)
      /\ \A b \in Buckets : ~HasBucket(r, b)
  BY <1>1, CpuReadPerf
<1>4. UNCHANGED <<options, stats, metrics, perf>>
  BY DEF vars, counters
<1>5. SumsAreNumbers(r) /\ SumsAreNumbers(r)'
  <2>1. ReadSumsHold'
    BY ReadSums, PTL
  <2> QED
    BY <1>1, <1>3, <2>1, ReadSums DEF ReadSumsHold
<1>6. ASSUME NEW s \in StatSlots, s # slot
      PROVE  Size(ReadOf(r, s))' = Size(ReadOf(r, s)) /\ Size(Unseen(r, s))' = Size(Unseen(r, s))
  <2>1. ReadOf(r, s)' = ReadOf(r, s) /\ Unseen(r, s)' = Unseen(r, s)
    BY <1>2, <1>4, <1>6 DEF ReadOf, Unseen
  <2> QED
    BY <2>1 DEF Size, Cells
<1>7. ASSUME NEW s \in StatSlots, s = slot
      PROVE  /\ stats[c][s] \in Nat
             /\ Size(ReadOf(r, s))' = Size(ReadOf(r, s)) + stats[c][s]
             /\ Size(Unseen(r, s)) = Size(Unseen(r, s))' + stats[c][s]
  <2>1. /\ stats[c][s] \in Nat /\ c \notin ReadFrom(r, s)
        /\ ReadFrom(r, s)' = ReadFrom(r, s) \cup {c} /\ stats' = stats
    BY <1>1, <1>2, <1>4, <1>7 DEF TypeOK
  <2>2. /\ ReadOf(r, s)' = [ReadOf(r, s) EXCEPT ![c] = stats[c][s]]
        /\ Unseen(r, s) = [Unseen(r, s)' EXCEPT ![c] = stats[c][s]]
        /\ ReadOf(r, s)[c] = 0 /\ Unseen(r, s)'[c] = 0
    BY <2>1 DEF ReadOf, Unseen
  <2>3. ReadOf(r, s) \in [Cpus -> Nat] /\ Unseen(r, s)' \in [Cpus -> Nat]
    BY <1>5 DEF SumsAreNumbers
  <2>4. ASSUME NEW f \in [Cpus -> Nat], f[c] = 0
        PROVE  Size([f EXCEPT ![c] = stats[c][s]]) = Size(f) + stats[c][s]
    BY <2>1, <2>4, CpusAssumption, SizeColumn
  <2>5. /\ Size([ReadOf(r, s) EXCEPT ![c] = stats[c][s]]) = Size(ReadOf(r, s)) + stats[c][s]
        /\ Size([Unseen(r, s)' EXCEPT ![c] = stats[c][s]]) = Size(Unseen(r, s)') + stats[c][s]
    BY <2>2, <2>3, <2>4
  <2>6. Size(ReadOf(r, s)') = Size(ReadOf(r, s))' /\ Size(Unseen(r, s)') = Size(Unseen(r, s))'
    BY DEF Size, Cells
  <2> QED
    BY <2>1, <2>2, <2>5, <2>6
<1>8. \A s \in StatSlots : reading[r].got.stats[s] \in Nat
  BY DEF Formed
<1>9. Bounded(r)'
  <2>1. \A s \in StatSlots : reading'[r].got.stats[s] <= Size(ReadOf(r, s))'
    <3> SUFFICES ASSUME NEW s \in StatSlots PROVE reading'[r].got.stats[s] <= Size(ReadOf(r, s))'
      OBVIOUS
    <3>1. reading[r].got.stats[s] <= Size(ReadOf(r, s)) /\ Size(ReadOf(r, s)) \in Nat
      BY <1>1, <1>5 DEF Bounded, SumsAreNumbers
    <3>2. CASE s = slot
      BY <1>2, <1>7, <1>8, <3>1, <3>2
    <3>3. CASE s # slot
      BY <1>2, <1>6, <3>1, <3>3
    <3> QED
      BY <3>2, <3>3
  <2> QED
    BY <1>1, <1>2, <1>4, <2>1 DEF Bounded
<1>10. SamplesSeen(r)'
  <2> SUFFICES ASSUME options.perf
               PROVE  /\ reading'[r].got.metrics["rx"] <= Size(Bucketed(r))' + InFlightAtMost'
                      /\ reading'[r].got.stats["total"] <= Size(Bucketed(r))' + InFlightAtMost'
    BY <1>4 DEF SamplesSeen
  <2>1. Size(Bucketed(r))' = Size(Bucketed(r)) /\ InFlightAtMost' = InFlightAtMost
    <3>1. Bucketed(r)' = Bucketed(r)
      BY <1>2, <1>3, <1>4 DEF Bucketed
    <3> QED
      BY <1>4, <3>1 DEF Size, Cells, InFlightAtMost
  <2>2. reading'[r].got.stats["total"] <= Size(SlotOf("total"))
    <3>1. "total" \in StatSlots
      BY DEF StatSlots
    <3>2. reading'[r].got.stats["total"] <= Size(ReadOf(r, "total"))'
      BY <1>9, <3>1 DEF Bounded
    <3>3. /\ Size(ReadOf(r, "total"))' \in Nat /\ Size(Unseen(r, "total"))' \in Nat
          /\ Size(SlotOf("total"))' = Size(ReadOf(r, "total"))' + Size(Unseen(r, "total"))'
      BY <1>5, <3>1 DEF SumsAreNumbers
    <3>4. Size(SlotOf("total"))' = Size(SlotOf("total"))
      BY <1>4 DEF Size, Cells, SlotOf
    <3>5. reading'[r].got.stats["total"] \in Nat
      BY <1>2, <1>7, <1>8, <3>1
    <3> QED
      BY <3>2, <3>3, <3>4, <3>5
  <2>3. Size(SlotOf("total")) <= Size(Bucketed(r)) + InFlightAtMost
    BY <1>1, <1>3, SamplesNow
  <2>4. /\ Size(SlotOf("total")) \in Nat /\ Size(Bucketed(r)) \in Nat /\ InFlightAtMost \in Nat
        /\ reading'[r].got.stats["total"] \in Nat
    <3>1. InFlightAtMost \in Nat
      BY <1>1, StandStill, InFlightGrows
    <3> QED
      BY <1>2, <1>5, <1>7, <1>8, <3>1 DEF SumsAreNumbers, StatSlots
  <2> QED
    BY <1>1, <1>2, <2>1, <2>2, <2>3, <2>4 DEF SamplesSeen
<1>11. AheadGrows(r)
  <2>1. ASSUME NEW s \in StatSlots PROVE Ahead(r, s) <= Ahead(r, s)'
    <3>1. Size(Unseen(r, s)) \in Nat /\ Size(Unseen(r, s))' \in Nat
      BY <1>5 DEF SumsAreNumbers
    <3>2. CASE s = slot
      BY <1>2, <1>7, <1>8, <3>1, <3>2 DEF Ahead
    <3>3. CASE s # slot
      BY <1>2, <1>6, <1>8, <3>1, <3>3 DEF Ahead
    <3> QED
      BY <3>2, <3>3
  <2>2. ASSUME NEW s \in MetricSlots PROVE Metric(r, s) <= Metric(r, s)'
    <3>1. HasRead(r, s)' = HasRead(r, s)
      BY <1>1, CpuRead
    <3>2. Metric(r, s)' = Metric(r, s) /\ Metric(r, s) \in Nat
      BY <1>1, <1>2, <1>4, <3>1 DEF Metric, Formed, TypeOK
    <3> QED
      BY <3>2
  <2>3. Bucketed(r)' = Bucketed(r)
    BY <1>2, <1>3, <1>4 DEF Bucketed
  <2>4. Size(Bucketed(r)) <= Size(Bucketed(r))'
    BY <1>5, <2>3 DEF SumsAreNumbers, Size, Cells
  <2> QED
    BY <2>1, <2>2, <2>4 DEF AheadGrows
<1> QED
  BY <1>3, <1>9, <1>10, <1>11 DEF SampleInv

(* One slot of a plain array: a bucket that has been read is what it was, or    *)
(* less than it is by now.                                                     *)
LEMMA ReadSlotSamples ==
  ASSUME DataInv, TrafficInv, UNCHANGED vars, TypeOK', DOMAIN reading = Readers, NEW r \in Readers,
         Formed(r), Placed(r), SampleInv(r), ReadSlot(r)
  PROVE  SampleInv(r)' /\ AheadGrows(r)
<1> DEFINE slot == Head(reading[r].todo)
           old == reading[r].got
           got == IF At(r) = "metrics" THEN [old EXCEPT !.metrics[slot] = metrics[slot]]
                                       ELSE [old EXCEPT !.perf[slot] = perf[slot]]
<1>1. TypeOK /\ Filled(r) /\ Bounded(r) /\ SamplesSeen(r)
  BY DEF DataInv, SampleInv
<1>2. reading[r].todo # <<>> /\ At(r) # "stats" /\ GotSlot(r, got)
  BY DEF ReadSlot
<1>3. reading[r].route # <<>> /\ Visits(r, At(r)) /\ At(r) \in Maps
  <2>1. reading[r].route # <<>> /\ reading[r].route \in Routes
    BY <1>2 DEF Placed
  <2> QED
    BY <2>1, RouteWalk DEF Visits, At
<1>4. /\ reading'[r].got = got
      /\ \A s \in StatSlots : ReadFrom(r, s)' = ReadFrom(r, s)
      /\ At(r) # "metrics" => \A s \in MetricSlots : HasRead(r, s)' = HasRead(r, s)
      /\ At(r) = "metrics" => \A s \in MetricSlots : HasRead(r, s)' = (s = slot \/ HasRead(r, s))
  <2> HIDE DEF got
  <2> QED
    BY <1>2, <1>3, SlotRead
<1>5. /\ got.stats = old.stats
      /\ At(r) # "metrics" => got.metrics = old.metrics
      /\ At(r) = "metrics" => got.perf = old.perf
  <2> HIDE DEF slot
  <2> QED
    BY DEF Formed, Maps
<1>6. UNCHANGED <<options, stats, metrics, perf>>
  BY DEF vars, counters
<1>7. metrics \in [MetricSlots -> Nat] /\ perf \in [Buckets -> Nat]
  BY <1>1 DEF TypeOK, Buckets
<1>8. /\ At(r) = "metrics" =>
           /\ slot \in MetricSlots /\ ~HasRead(r, slot)
           /\ \A s \in MetricSlots : got.metrics[s] = IF s = slot THEN metrics[s] ELSE old.metrics[s]
      /\ At(r) = "perf" =>
           /\ slot \in Buckets /\ ~HasBucket(r, slot)
           /\ \A b \in Buckets : got.perf[b] = IF b = slot THEN perf[b] ELSE old.perf[b]
  <2>1. ASSUME At(r) = "metrics"
        PROVE  /\ slot \in MetricSlots /\ ~HasRead(r, slot)
               /\ \A s \in MetricSlots : got.metrics[s] = IF s = slot THEN metrics[s] ELSE old.metrics[s]
    <3>1. slot \in MetricSlots /\ HasRead(r, slot) = (MetricRank[slot] < MetricRank[slot])
      BY <1>3, <2>1, AtMetrics
    <3>2. ~(MetricRank[slot] < MetricRank[slot])
      BY <3>1, RankTypes
    <3> HIDE DEF slot
    <3> QED
      BY <2>1, <3>1, <3>2 DEF Formed, Maps
  <2>2. ASSUME At(r) = "perf"
        PROVE  /\ slot \in Buckets /\ ~HasBucket(r, slot)
               /\ \A b \in Buckets : got.perf[b] = IF b = slot THEN perf[b] ELSE old.perf[b]
    <3>1. slot \in Buckets /\ HasBucket(r, slot) = (slot < slot)
      BY <1>1, <1>3, <2>2, AtPerf DEF Filled
    <3>2. ~(slot < slot)
      BY <3>1, BoundsAssumption DEF Buckets
    <3>3. old.perf \in [Buckets -> Nat]
      BY <1>1 DEF Filled, Got
    <3> HIDE DEF slot
    <3> QED
      BY <1>7, <2>2, <3>1, <3>2, <3>3 DEF Formed, Maps
  <2> QED
    BY <2>1, <2>2
<1>9. got \in Got
  <2>1. metrics[slot] \in Nat \/ At(r) # "metrics"
    BY <1>7, <1>8
  <2>2. perf[slot] \in Nat \/ At(r) = "metrics"
    BY <1>2, <1>3, <1>7, <1>8 DEF Maps
  <2> HIDE DEF slot
  <2> QED
    BY <1>1, <2>1, <2>2 DEF Filled, Got
<1> HIDE DEF slot, got
<1>10. /\ Filled(r)'
       /\ At(r) # "perf" => \A b \in Buckets : HasBucket(r, b)' = HasBucket(r, b)
       /\ At(r) = "perf" => \A b \in Buckets : HasBucket(r, b)' = (b = slot \/ HasBucket(r, b))
  BY <1>1, <1>2, <1>3, <1>9, SlotReadPerf DEF slot
<1>11. /\ \A s \in StatSlots : ReadOf(r, s)' = ReadOf(r, s) /\ Unseen(r, s)' = Unseen(r, s)
       /\ \A s \in MetricSlots : Metric(r, s)' = Metric(r, s)
       /\ Bucketed(r)' = Bucketed(r)
  <2>1. \A s \in StatSlots : ReadOf(r, s)' = ReadOf(r, s) /\ Unseen(r, s)' = Unseen(r, s)
    BY <1>4, <1>6 DEF ReadOf, Unseen
  <2>2. \A s \in MetricSlots : Metric(r, s)' = Metric(r, s)
    BY <1>4, <1>5, <1>6, <1>8 DEF Metric
  <2>3. \A b \in Buckets : (IF HasBucket(r, b)' THEN got.perf[b] ELSE perf[b])
                             = (IF HasBucket(r, b) THEN old.perf[b] ELSE perf[b])
    <3> SUFFICES ASSUME NEW b \in Buckets
                 PROVE  (IF HasBucket(r, b)' THEN got.perf[b] ELSE perf[b])
                          = (IF HasBucket(r, b) THEN old.perf[b] ELSE perf[b])
      OBVIOUS
    <3>1. CASE At(r) = "perf"
      <4>1. HasBucket(r, b)' = (b = slot \/ HasBucket(r, b))
        BY <1>10, <3>1
      <4>2. CASE b = slot
        <5>1. got.perf[b] = perf[b] /\ ~HasBucket(r, b)
          BY <1>8, <3>1, <4>2
        <5> QED
          BY <5>1
      <4>3. CASE b # slot
        <5>1. got.perf[b] = old.perf[b] /\ (HasBucket(r, b)' <=> HasBucket(r, b))
          BY <1>8, <3>1, <4>1, <4>3
        <5> QED
          BY <5>1, Zenon
      <4> QED
        BY <4>2, <4>3
    <3>2. CASE At(r) = "metrics"
      <4>1. got.perf = old.perf /\ (HasBucket(r, b)' <=> HasBucket(r, b))
        BY <1>5, <1>10, <3>2
      <4> QED
        BY <4>1, Zenon
    <3> QED
      BY <1>2, <1>3, <3>1, <3>2 DEF Maps
  <2>4. Bucketed(r)' = Bucketed(r)
    BY <1>4, <1>6, <2>3 DEF Bucketed
  <2> QED
    BY <2>1, <2>2, <2>4
<1>12. /\ \A s \in StatSlots : /\ Size(ReadOf(r, s))' = Size(ReadOf(r, s))
                               /\ Size(Unseen(r, s))' = Size(Unseen(r, s))
       /\ Size(Bucketed(r))' = Size(Bucketed(r))
       /\ InFlightAtMost' = InFlightAtMost
  BY <1>6, <1>11 DEF Size, Cells, InFlightAtMost
<1>13. SumsAreNumbers(r) /\ InFlightAtMost \in Nat
  <2>1. InFlightAtMost \in Nat
    BY <1>1, StandStill, InFlightGrows
  <2> QED
    BY <1>1, <2>1, ReadSums DEF ReadSumsHold
<1>14. /\ \A s \in StatSlots : old.stats[s] \in Nat
       /\ \A s \in MetricSlots : old.metrics[s] \in Nat /\ metrics[s] \in Nat
       /\ \A b \in Buckets : old.perf[b] \in Nat /\ perf[b] \in Nat
  BY <1>1, <1>7 DEF Formed, Filled, Got
<1>15. Bounded(r)'
  <2>1. \A s \in StatSlots : reading'[r].got.stats[s] <= Size(ReadOf(r, s))'
    BY <1>1, <1>4, <1>5, <1>12 DEF Bounded
  <2>2. \A s \in MetricSlots : got.metrics[s] <= metrics[s]
    BY <1>1, <1>5, <1>8, <1>14 DEF Bounded
  <2>3. \A b \in Buckets : got.perf[b] <= perf[b]
    BY <1>1, <1>2, <1>3, <1>5, <1>8, <1>14 DEF Bounded, Maps
  <2> QED
    BY <1>4, <1>6, <2>1, <2>2, <2>3 DEF Bounded
<1>16. SamplesSeen(r)'
  <2> SUFFICES ASSUME options.perf
               PROVE  /\ got.metrics["rx"] <= Size(Bucketed(r)) + InFlightAtMost
                      /\ got.stats["total"] <= Size(Bucketed(r)) + InFlightAtMost
    BY <1>4, <1>6, <1>12 DEF SamplesSeen
  <2>1. /\ old.metrics["rx"] <= Size(Bucketed(r)) + InFlightAtMost
        /\ old.stats["total"] <= Size(Bucketed(r)) + InFlightAtMost
    BY <1>1 DEF SamplesSeen
  <2>2. ASSUME At(r) = "metrics"
        PROVE  metrics["rx"] <= Size(Bucketed(r)) + InFlightAtMost
    <3>1. \A b \in Buckets : ~HasBucket(r, b)
      BY <1>1, <1>3, <2>2, AtPerf DEF Filled
    <3> QED
      BY <1>1, <3>1, SamplesNow
  <2> QED
    BY <1>5, <1>8, <2>1, <2>2 DEF MetricSlots
<1>17. AheadGrows(r)
  <2>1. \A s \in StatSlots : Ahead(r, s)' = Ahead(r, s) /\ Ahead(r, s) \in Nat
    BY <1>4, <1>5, <1>12, <1>13, <1>14 DEF Ahead, SumsAreNumbers
  <2>2. \A s \in MetricSlots : Metric(r, s) \in Nat
    BY <1>14 DEF Metric
  <2> QED
    BY <1>11, <1>12, <1>13, <2>1, <2>2 DEF AheadGrows, SumsAreNumbers
<1> QED
  BY <1>10, <1>15, <1>16, <1>17 DEF SampleInv

(* Nothing has been read where a task begins, or where there is none: all that   *)
(* the counters show is still to be read.                                        *)
Unstarted(r) ==
  /\ SampleInv(r)
  /\ \A s \in StatSlots : Ahead(r, s) = Size(SlotOf(s))
  /\ \A s \in MetricSlots : Metric(r, s) = metrics[s]
  /\ Bucketed(r) = perf

UnstartedHold ==
  \A r \in Readers : \A task \in {"none", "stats", "metrics", "tick"} :
    TypeOK /\ InFlightAtMost \in Nat /\ reading[r] = Reading(task) => Unstarted(r)

LEMMA BeginningsUnstarted == UnstartedHold
<1> SUFFICES ASSUME NEW r \in Readers, NEW task \in {"none", "stats", "metrics", "tick"},
                    TypeOK, InFlightAtMost \in Nat, reading[r] = Reading(task)
             PROVE  Unstarted(r)
  BY DEF UnstartedHold
<1> DEFINE next == Route[task]
<1>1. /\ reading[r].task = task /\ reading[r].route = next /\ reading[r].todo = Unread(next)
      /\ reading[r].cpus = Cpus /\ reading[r].got = Nothing /\ reading[r].complete = {}
  BY DEF Reading
<1>2. /\ Nothing \in Got /\ \A b \in Buckets : Nothing.perf[b] = 0
      /\ \A s \in StatSlots : Nothing.stats[s] = 0
      /\ \A s \in MetricSlots : Nothing.metrics[s] = 0
  BY DEF Nothing, Got
<1>3. next \in {<<>>, <<"stats">>, <<"metrics", "perf">>, <<"metrics", "stats", "perf">>}
  BY DEF Route
<1>4. next = <<>> \/ (next # <<>> /\ Head(next) \in {"stats", "metrics"})
  BY <1>3
<1> HIDE DEF next
<1>5. ~Visits(r, "perf")
  BY <1>1, <1>4 DEF Visits, At
<1>6. PerfPlaced(r) /\ Filled(r)
  <2>1. PerfPlaced(r)
    BY <1>1, <1>5, Zenon DEF PerfPlaced
  <2>2. task \in DOMAIN Route
    BY DEF Route
  <2> QED
    BY <1>1, <1>2, <2>1, <2>2, CpusAssumption DEF Filled
<1>7. StatsAt(r) \in {0, 1} /\ MetricsAt(r) \in {0, 1}
  <2>1. \A map : Visits(r, map) => next # <<>> /\ map = Head(next) /\ reading[r].todo = Slots[map]
    BY <1>1, Zenon DEF Visits, At, Unread
  <2>2. /\ Visits(r, "stats") => Len(reading[r].todo) = 4
        /\ Visits(r, "metrics") => Len(reading[r].todo) = 6
    BY <2>1, FirstSlots
  <2>3. 5 - 4 = 1 /\ 7 - 6 = 1
    OBVIOUS
  <2> QED
    BY <1>1, <2>2, <2>3, Zenon DEF StatsAt, MetricsAt
<1>8. /\ \A s \in StatSlots : \A c \in Cpus : c \notin ReadFrom(r, s)
      /\ \A s \in MetricSlots : ~HasRead(r, s)
      /\ \A b \in Buckets : ~HasBucket(r, b)
  <2>1. \A s \in StatSlots : StatRank[s] \in 1 .. 4
    BY RankTypes
  <2>2. \A s \in MetricSlots : MetricRank[s] \in 1 .. 6
    BY RankTypes
  <2>3. PerfAt(r) = 0
    BY <1>1, <1>5, Zenon DEF PerfAt
  <2>4. \A b \in Buckets : ~(b < 0)
    BY BoundsAssumption DEF Buckets
  <2> QED
    BY <1>1, <1>7, <2>1, <2>2, <2>3, <2>4 DEF ReadFrom, HasRead, HasBucket
<1>9. SumsAreNumbers(r)
  BY <1>6, ReadSums DEF ReadSumsHold
<1>10. Bounded(r)
  <2>1. \A s \in StatSlots : Size(ReadOf(r, s)) \in Nat
    BY <1>9 DEF SumsAreNumbers
  <2>2. /\ \A s \in MetricSlots : metrics[s] \in Nat
        /\ \A b \in Buckets : perf[b] \in Nat
    BY DEF TypeOK, Buckets
  <2> QED
    BY <1>1, <1>2, <2>1, <2>2 DEF Bounded
<1>11. SamplesSeen(r)
  BY <1>1, <1>2, <1>9 DEF SamplesSeen, SumsAreNumbers, StatSlots, MetricSlots
<1>12. \A s \in StatSlots : Ahead(r, s) = Size(SlotOf(s))
  <2>1. \A s \in StatSlots : Unseen(r, s) = SlotOf(s)
    BY <1>8 DEF Unseen, SlotOf
  <2> QED
    BY <1>1, <1>2, <1>9, <2>1 DEF Ahead, SumsAreNumbers
<1>13. \A s \in MetricSlots : Metric(r, s) = metrics[s]
  BY <1>8 DEF Metric
<1>14. Bucketed(r) = perf
  BY <1>8, <1>9 DEF Bucketed, SumsAreNumbers
<1> QED
  BY <1>6, <1>10, <1>11, <1>12, <1>13, <1>14 DEF SampleInv, Unstarted

(* The start of a task, and the end of one. *)
LEMMA BeginsSamples ==
  ASSUME TypeOK, UNCHANGED vars, TypeOK', DOMAIN reading = Readers, NEW r \in Readers,
         Formed(r), SampleInv(r), NEW task \in {"none", "stats", "metrics", "tick"},
         reading' = [reading EXCEPT ![r] = Reading(task)]
  PROVE  SampleInv(r)' /\ AheadGrows(r)
<1>1. Filled(r) /\ Bounded(r) /\ SumsAreNumbers(r)
  BY ReadSums DEF SampleInv, ReadSumsHold
<1>2. UNCHANGED <<stats, metrics, perf>>
  BY DEF vars, counters
<1>3. Unstarted(r)'
  <2>1. UnstartedHold'
    BY BeginningsUnstarted, PTL
  <2>2. InFlightAtMost' \in Nat
    BY StandStill, InFlightGrows
  <2>3. reading'[r] = Reading(task)'
    BY DEF Reading
  <2> QED
    BY <2>1, <2>2, <2>3 DEF UnstartedHold
<1>4. ASSUME NEW s \in StatSlots PROVE Ahead(r, s) <= Ahead(r, s)'
  <2>1. Ahead(r, s)' = Size(SlotOf(s))'
    BY <1>3 DEF Unstarted
  <2>2. Size(SlotOf(s))' = Size(SlotOf(s))
    BY <1>2 DEF Size, Cells, SlotOf
  <2>3. /\ reading[r].got.stats[s] \in Nat /\ reading[r].got.stats[s] <= Size(ReadOf(r, s))
        /\ Size(ReadOf(r, s)) \in Nat /\ Size(Unseen(r, s)) \in Nat
        /\ Size(SlotOf(s)) = Size(ReadOf(r, s)) + Size(Unseen(r, s))
    BY <1>1 DEF Formed, Bounded, SumsAreNumbers
  <2> QED
    BY <2>1, <2>2, <2>3 DEF Ahead
<1>5. ASSUME NEW s \in MetricSlots PROVE Metric(r, s) <= Metric(r, s)'
  <2>1. Metric(r, s)' = metrics[s] /\ metrics[s] \in Nat
    BY <1>2, <1>3 DEF Unstarted, TypeOK
  <2>2. reading[r].got.metrics[s] <= metrics[s]
    BY <1>1 DEF Bounded
  <2> QED
    BY <2>1, <2>2 DEF Metric
<1>6. Size(Bucketed(r)) <= Size(Bucketed(r))'
  <2>1. Bucketed(r)' = perf
    BY <1>2, <1>3 DEF Unstarted
  <2>2. /\ Bucketed(r) \in [Buckets -> Nat] /\ perf \in [Buckets -> Nat]
        /\ \A b \in Buckets : perf[b] \in Nat
    BY <1>1 DEF SumsAreNumbers
  <2>3. \A b \in Buckets : Bucketed(r)[b] <= perf[b]
    BY <1>1, <2>2 DEF Bucketed, Bounded
  <2>4. Size(Bucketed(r)) <= Size(perf)
    BY <2>2, <2>3, BucketsFinite, SizeOrder
  <2>5. Size(Bucketed(r))' = Size(Bucketed(r)')
    BY DEF Size, Cells
  <2> QED
    BY <2>1, <2>4, <2>5
<1> QED
  BY <1>3, <1>4, <1>5, <1>6 DEF AheadGrows, Unstarted

(* A map that is left out: none of its slots is read. *)
LEMMA OpenFailsSamples ==
  ASSUME DataInv, UNCHANGED vars, TypeOK', DOMAIN reading = Readers, NEW r \in Readers,
         Formed(r), Placed(r), SampleInv(r), OpenFails(r)
  PROVE  SampleInv(r)' /\ AheadGrows(r)
<1>1. TypeOK /\ Filled(r) /\ Growing
  BY StandStillGrows DEF DataInv, SampleInv
<1>2. /\ reading'[r].got = reading[r].got
      /\ reading'[r].cpus = Cpus /\ reading'[r].route = Tail(reading[r].route)
      /\ reading'[r].complete = reading[r].complete
      /\ reading'[r].todo = Unread(Tail(reading[r].route))
      /\ reading[r].route # <<>>
      /\ \A s \in StatSlots : ReadFrom(r, s)' = ReadFrom(r, s)
      /\ \A s \in MetricSlots : HasRead(r, s)' = HasRead(r, s)
  BY MapSkipped
<1>3. reading'[r].task = reading[r].task
  BY DEF OpenFails, Skip, Formed, Fields
<1>4. /\ PerfPlaced(r)' /\ reading'[r].complete \subseteq Maps
      /\ At(r) # "perf" => \A b \in Buckets : HasBucket(r, b)' = HasBucket(r, b)
      /\ At(r) = "perf" => \A b \in Buckets :
           HasBucket(r, b)' = ("perf" \in reading'[r].complete)
  BY <1>1, <1>2, NextMapPerf
<1>5. Filled(r)'
  BY <1>1, <1>2, <1>3, <1>4, CpusAssumption DEF Filled
<1>6. ASSUME NEW b \in Buckets PROVE HasBucket(r, b)' = HasBucket(r, b)
  <2>1. CASE At(r) = "perf"
    <3>1. Visits(r, "perf") /\ reading[r].todo = Slots["perf"]
      BY <1>2, <2>1 DEF Visits, OpenFails, AtStart
    <3>2. /\ Head(reading[r].todo) = PerfSlots - PerfSlots
          /\ HasBucket(r, b) = (b < Head(reading[r].todo))
      BY <1>1, <3>1, AtPerf, FirstBucket DEF Filled
    <3>3. HasBucket(r, b) = FALSE
      <4>1. PerfSlots \in Nat /\ b \in Nat
        BY BoundsAssumption DEF Buckets
      <4>2. Head(reading[r].todo) = 0 /\ ~(b < 0)
        BY <3>2, <4>1
      <4>3. HasBucket(r, b) = (b < 0)
        BY <3>2, <4>2
      <4> QED
        BY <4>2, <4>3 DEF HasBucket
    <3>4. ("perf" \in reading'[r].complete) = FALSE
      BY <1>1, <1>2 DEF Filled, PerfPlaced
    <3> QED
      BY <1>4, <2>1, <3>3, <3>4
  <2> QED
    BY <1>4, <2>1
<1> QED
  BY <1>1, <1>2, <1>5, <1>6, SamplesKept

(* A reader that does not move. *)
LEMMA StillSamples ==
  ASSUME TypeOK, TypeOK', Growing, NEW r \in Readers, Formed(r), SampleInv(r),
         reading'[r] = reading[r]
  PROVE  SampleInv(r)' /\ AheadGrows(r)
<1>1. /\ \A s \in StatSlots : ReadFrom(r, s)' = ReadFrom(r, s)
      /\ \A s \in MetricSlots : HasRead(r, s)' = HasRead(r, s)
      /\ \A b \in Buckets : HasBucket(r, b)' = HasBucket(r, b)
  BY DEF ReadFrom, HasRead, HasBucket, StatsAt, MetricsAt, PerfAt, Visits, At
<1>2. Filled(r)'
  BY DEF SampleInv, Filled, PerfPlaced, Visits, At
<1> QED
  BY <1>1, <1>2, SamplesKept

(* Whatever a reader does, its own knowledge stays right and its counters grow. *)
LEMMA ReadSamples ==
  ASSUME DataInv, TrafficInv, UNCHANGED vars, TypeOK', DOMAIN reading = Readers, NEW r \in Readers,
         Formed(r), Placed(r), SampleInv(r), Read(r)
  PROVE  SampleInv(r)' /\ AheadGrows(r)
<1>1. TypeOK
  BY DEF DataInv
<1>2. CASE \E task \in Tasks : StartTask(r, task)
  <2>1. PICK task \in Tasks : reading' = [reading EXCEPT ![r] = Reading(task)]
    BY <1>2, Zenon DEF StartTask
  <2>2. task \in {"none", "stats", "metrics", "tick"}
    BY TasksAssumption
  <2> QED
    BY <1>1, <2>1, <2>2, BeginsSamples
<1>3. CASE OpenFails(r)
  BY <1>3, OpenFailsSamples
<1>4. CASE \E c \in Cpus : ReadCpu(r, c)
  BY <1>4, ReadCpuSamples
<1>5. CASE ReadSlot(r)
  BY <1>5, ReadSlotSamples
<1>6. CASE Finish(r)
  <2>1. reading' = [reading EXCEPT ![r] = Reading("none")]
    BY <1>6, Zenon DEF Finish
  <2> QED
    BY <1>1, <2>1, BeginsSamples
<1> QED
  BY <1>2, <1>3, <1>4, <1>5, <1>6 DEF Read

SamplesInvReaders == \A r \in Readers : SampleInv(r)

(* Every step keeps what the readers have read below what there is. *)
LEMMA StepSamples ==
  ASSUME DataInv, TrafficInv, ReadersInv, SamplesInvReaders, DataInv',
         [ReadersNext]_<<vars, readers>>
  PROVE  TrafficInv' /\ \A r \in Readers : SampleInv(r)' /\ AheadGrows(r)
<1>1. /\ TypeOK /\ TypeOK' /\ DOMAIN reading = Readers
      /\ \A r \in Readers : Formed(r) /\ Placed(r) /\ SampleInv(r)
  BY DEF DataInv, ReadersInv, ReaderInv, Shape, SamplesInvReaders
<1>2. ASSUME UNCHANGED vars PROVE TrafficInv' /\ Growing
  <2>1. TrafficInv'
    BY <1>2 DEF vars, counters, TrafficInv, SamplesInv, ArrivedInv, MatchesAt, HitsInv, Size,
                Cells, SlotOf, Sampling, Entering, Deciding
  <2> QED
    BY <1>1, <1>2, <2>1, StandStillGrows
<1>3. CASE DataPlane /\ UNCHANGED readers
  <2>1. Growing /\ TrafficInv'
    BY <1>3, DataPlaneGrows
  <2>2. \A r \in Readers : reading'[r] = reading[r]
    BY <1>3 DEF readers
  <2> QED
    BY <1>1, <2>1, <2>2, StillSamples
<1>4. ASSUME NEW r \in Readers, Read(r), UNCHANGED vars
      PROVE  TrafficInv' /\ \A q \in Readers : SampleInv(q)' /\ AheadGrows(q)
  <2>1. TrafficInv' /\ Growing
    BY <1>2, <1>4
  <2>2. OnlyOf(r)
    BY <1>4, ReadKeepsOthers DEF ReadersInv
  <2>3. SampleInv(r)' /\ AheadGrows(r)
    BY <1>1, <1>4, ReadSamples
  <2>4. ASSUME NEW q \in Readers, q # r PROVE SampleInv(q)' /\ AheadGrows(q)
    <3>1. reading'[q] = reading[q]
      BY <2>2, <2>4 DEF OnlyOf
    <3> QED
      BY <1>1, <2>1, <3>1, StillSamples
  <2> QED
    BY <2>1, <2>3, <2>4
<1>5. CASE UNCHANGED <<vars, readers>>
  <2>1. UNCHANGED vars /\ \A r \in Readers : reading'[r] = reading[r]
    BY <1>5 DEF readers
  <2> QED
    BY <1>1, <1>2, <2>1, StillSamples
<1> QED
  BY <1>3, <1>4, <1>5 DEF ReadersNext

(* Reading a list of slots to its end is going through the list: what is left is  *)
(* the end of it.                                                               *)
LEMMA Ending ==
  ASSUME NEW S, NEW slots \in Seq(S), NEW todo \in Seq(S), NEW i \in 1 .. (Len(slots) + 1),
         Len(todo) = Len(slots) - i + 1,
         \A j \in 1 .. Len(todo) : todo[j] = slots[i + j - 1]
  PROVE  todo = SubSeq(slots, i, Len(slots))
<1> DEFINE rest == SubSeq(slots, i, Len(slots))
<1>1. Len(slots) \in Nat /\ Len(todo) \in Nat
  BY LenProperties
<1>2. /\ rest \in Seq(S) /\ Len(rest) = Len(todo)
      /\ \A j \in 1 .. Len(todo) : rest[j] = slots[i + j - 1]
  <2>1. Len(slots) \in (i - 1) .. Len(slots)
    BY <1>1
  <2>2. /\ rest \in Seq(S)
        /\ Len(rest) = IF i <= Len(slots) THEN Len(slots) - i + 1 ELSE 0
        /\ \A j \in 1 .. (Len(slots) - i + 1) : rest[j] = slots[i + j - 1]
    BY <2>1, SubSeqProperties
  <2> QED
    BY <1>1, <2>2
<1> HIDE DEF rest
<1>3. /\ todo \in [1 .. Len(todo) -> S] /\ rest \in [1 .. Len(todo) -> S]
  BY <1>2, LenProperties
<1>4. todo = [j \in 1 .. Len(todo) |-> todo[j]] /\ rest = [j \in 1 .. Len(todo) |-> rest[j]]
  BY <1>3
<1>5. todo = rest
  BY <1>2, <1>4
<1> QED
  BY <1>5 DEF rest

LEMMA StatsEnding ==
  ASSUME NEW todo \in StatTodos
  PROVE  \E i \in 1 .. (Len(Slots["stats"]) + 1) :
           todo = SubSeq(Slots["stats"], i, Len(Slots["stats"]))
<1> DEFINE slots == <<"total", "v4_match", "v6_match", "passed">>
<1>1. Slots["stats"] = slots
  BY DEF Slots
<1>2. slots \in Seq(StatSlots) /\ Len(slots) = 4
  BY DEF StatSlots
<1>3. PICK i \in 1 .. 4 : /\ todo \in Seq(StatSlots) /\ Len(todo) = 5 - i
                          /\ \A j \in 1 .. Len(todo) : todo[j] = slots[i + j - 1]
  <2>1. CASE todo = <<"total", "v4_match", "v6_match", "passed">>
    <3>1. /\ todo \in Seq(StatSlots) /\ Len(todo) = 5 - 1
          /\ \A j \in 1 .. Len(todo) : todo[j] = slots[1 + j - 1]
      BY <2>1 DEF StatSlots
    <3> QED
      BY <3>1
  <2>2. CASE todo = <<"v4_match", "v6_match", "passed">>
    <3>1. /\ todo \in Seq(StatSlots) /\ Len(todo) = 5 - 2
          /\ \A j \in 1 .. Len(todo) : todo[j] = slots[2 + j - 1]
      BY <2>2 DEF StatSlots
    <3> QED
      BY <3>1
  <2>3. CASE todo = <<"v6_match", "passed">>
    <3>1. /\ todo \in Seq(StatSlots) /\ Len(todo) = 5 - 3
          /\ \A j \in 1 .. Len(todo) : todo[j] = slots[3 + j - 1]
      BY <2>3 DEF StatSlots
    <3> QED
      BY <3>1
  <2>4. CASE todo = <<"passed">>
    <3>1. /\ todo \in Seq(StatSlots) /\ Len(todo) = 5 - 4
          /\ \A j \in 1 .. Len(todo) : todo[j] = slots[4 + j - 1]
      BY <2>4 DEF StatSlots
    <3> QED
      BY <3>1
  <2> QED
    BY <2>1, <2>2, <2>3, <2>4 DEF StatTodos
<1> HIDE DEF slots
<1>4. todo = SubSeq(slots, i, Len(slots))
  <2>1. i \in 1 .. (Len(slots) + 1) /\ Len(todo) = Len(slots) - i + 1
    BY <1>2, <1>3
  <2> QED
    BY <1>2, <1>3, <2>1, Ending
<1> QED
  BY <1>1, <1>2, <1>3, <1>4

LEMMA MetricsEnding ==
  ASSUME NEW todo \in MetricTodos
  PROVE  \E i \in 1 .. (Len(Slots["metrics"]) + 1) :
           todo = SubSeq(Slots["metrics"], i, Len(Slots["metrics"]))
<1> DEFINE slots == <<"rx", "pass", "drop", "allow_hit", "block_v4", "block_v6">>
<1>1. Slots["metrics"] = slots
  BY DEF Slots
<1>2. slots \in Seq(MetricSlots) /\ Len(slots) = 6
  BY DEF MetricSlots
<1>3. PICK i \in 1 .. 6 : /\ todo \in Seq(MetricSlots) /\ Len(todo) = 7 - i
                          /\ \A j \in 1 .. Len(todo) : todo[j] = slots[i + j - 1]
  <2>1. CASE todo = <<"rx", "pass", "drop", "allow_hit", "block_v4", "block_v6">>
    <3>1. /\ todo \in Seq(MetricSlots) /\ Len(todo) = 7 - 1
          /\ \A j \in 1 .. Len(todo) : todo[j] = slots[1 + j - 1]
      BY <2>1 DEF MetricSlots
    <3> QED
      BY <3>1
  <2>2. CASE todo = <<"pass", "drop", "allow_hit", "block_v4", "block_v6">>
    <3>1. /\ todo \in Seq(MetricSlots) /\ Len(todo) = 7 - 2
          /\ \A j \in 1 .. Len(todo) : todo[j] = slots[2 + j - 1]
      BY <2>2 DEF MetricSlots
    <3> QED
      BY <3>1
  <2>3. CASE todo = <<"drop", "allow_hit", "block_v4", "block_v6">>
    <3>1. /\ todo \in Seq(MetricSlots) /\ Len(todo) = 7 - 3
          /\ \A j \in 1 .. Len(todo) : todo[j] = slots[3 + j - 1]
      BY <2>3 DEF MetricSlots
    <3> QED
      BY <3>1
  <2>4. CASE todo = <<"allow_hit", "block_v4", "block_v6">>
    <3>1. /\ todo \in Seq(MetricSlots) /\ Len(todo) = 7 - 4
          /\ \A j \in 1 .. Len(todo) : todo[j] = slots[4 + j - 1]
      BY <2>4 DEF MetricSlots
    <3> QED
      BY <3>1
  <2>5. CASE todo = <<"block_v4", "block_v6">>
    <3>1. /\ todo \in Seq(MetricSlots) /\ Len(todo) = 7 - 5
          /\ \A j \in 1 .. Len(todo) : todo[j] = slots[5 + j - 1]
      BY <2>5 DEF MetricSlots
    <3> QED
      BY <3>1
  <2>6. CASE todo = <<"block_v6">>
    <3>1. /\ todo \in Seq(MetricSlots) /\ Len(todo) = 7 - 6
          /\ \A j \in 1 .. Len(todo) : todo[j] = slots[6 + j - 1]
      BY <2>6 DEF MetricSlots
    <3> QED
      BY <3>1
  <2> QED
    BY <2>1, <2>2, <2>3, <2>4, <2>5, <2>6 DEF MetricTodos
<1> HIDE DEF slots
<1>4. todo = SubSeq(slots, i, Len(slots))
  <2>1. i \in 1 .. (Len(slots) + 1) /\ Len(todo) = Len(slots) - i + 1
    BY <1>2, <1>3
  <2> QED
    BY <1>2, <1>3, <2>1, Ending
<1> QED
  BY <1>1, <1>2, <1>3, <1>4

LEMMA PerfEnding ==
  ASSUME NEW todo \in PerfTodos
  PROVE  \E i \in 1 .. (Len(Slots["perf"]) + 1) :
           todo = SubSeq(Slots["perf"], i, Len(Slots["perf"]))
<1> DEFINE slots == [i \in 1 .. PerfSlots |-> i - 1]
<1>1. Slots["perf"] = slots
  BY DEF Slots
<1>2. PICK n \in 1 .. PerfSlots : todo = [i \in 1 .. n |-> PerfSlots - n + i - 1]
  BY DEF PerfTodos
<1>3. PerfSlots \in Nat /\ n \in Nat /\ 1 <= n /\ n <= PerfSlots
  BY BoundsAssumption
<1>4. slots \in Seq(Int) /\ Len(slots) = PerfSlots
  BY <1>3
<1>5. todo \in Seq(Int) /\ Len(todo) = n
  <2>1. \A i \in 1 .. n : PerfSlots - n + i - 1 \in Int
    BY <1>3
  <2> QED
    BY <1>2, <1>3, <2>1
<1>6. PICK i \in 1 .. (PerfSlots + 1) : i = PerfSlots - n + 1
  <2>1. PerfSlots - n + 1 \in 1 .. (PerfSlots + 1)
    BY <1>3
  <2> QED
    BY <2>1
<1>7. \A j \in 1 .. Len(todo) : todo[j] = slots[i + j - 1]
  <2> SUFFICES ASSUME NEW j \in 1 .. n PROVE todo[j] = slots[i + j - 1]
    BY <1>5
  <2>1. todo[j] = PerfSlots - n + j - 1
    BY <1>2
  <2>2. i + j - 1 \in 1 .. PerfSlots
    BY <1>3, <1>6
  <2>3. slots[i + j - 1] = i + j - 1 - 1
    BY <2>2
  <2> QED
    BY <1>3, <1>6, <2>1, <2>3
<1> HIDE DEF slots
<1>8. todo = SubSeq(slots, i, Len(slots))
  <2>1. i \in 1 .. (Len(slots) + 1) /\ Len(todo) = Len(slots) - i + 1
    BY <1>3, <1>4, <1>5, <1>6
  <2> QED
    BY <1>4, <1>5, <1>7, <2>1, Ending
<1> QED
  BY <1>1, <1>4, <1>6, <1>8

(* No slot counts more frames than there are. *)
LEMMA CountsBounded ==
  ASSUME DataInv, TrafficInv
  PROVE  /\ \A s \in StatSlots : Size(SlotOf(s)) <= MaxFrames
         /\ \A s \in MetricSlots : metrics[s] <= MaxFrames
         /\ \A b \in Buckets : perf[b] <= MaxFrames
<1>1. TypeOK /\ LedgerInv /\ MetricsInv
  BY DEF DataInv
<1>2. /\ \A s \in StatSlots : SlotOf(s) \in [Cpus -> Nat] /\ Size(SlotOf(s)) \in Nat
      /\ MaxFrames \in Nat
  BY <1>1, SlotSum, BoundsAssumption
<1>3. Size(SlotOf("total")) <= MaxFrames
  <2>1. left.frames \in Nat /\ Size(SlotOf("total")) + left.frames = MaxFrames
    BY <1>1 DEF TypeOK, TrafficInv, ArrivedInv
  <2> QED
    BY <1>2, <2>1 DEF StatSlots
<1>4. ASSUME NEW s \in StatSlots PROVE Size(SlotOf(s)) <= MaxFrames
  <2>1. ASSUME NEW c \in Cpus PROVE SlotOf(s)[c] <= SlotOf("total")[c]
    <3>1. /\ stats[c].total \in Nat /\ stats[c].passed \in Nat /\ stats[c].v4_match \in Nat
          /\ stats[c].v6_match \in Nat /\ drops[c] \in Nat
      BY <1>1 DEF TypeOK, StatSlots
    <3>2. stats[c].passed <= stats[c].total
      <4>1. InFlight(c) \in {0, 1} /\ stats[c].total = stats[c].passed + drops[c] + InFlight(c)
        BY <1>1 DEF LedgerInv, LedgerAt, InFlight
      <4> QED
        BY <3>1, <4>1
    <3>3. stats[c].v4_match <= stats[c].total /\ stats[c].v6_match <= stats[c].total
      <4>1. MatchesAt(c)
        BY DEF TrafficInv
      <4>2. CASE pc[c] \in {"rx", "perf", "allow", "allow_hit", "block", "match"}
        BY <3>1, <4>1, <4>2 DEF MatchesAt
      <4>3. CASE pc[c] \notin {"rx", "perf", "allow", "allow_hit", "block", "match"}
        BY <3>1, <4>1, <4>3 DEF MatchesAt
      <4> QED
        BY <4>2, <4>3
    <3> QED
      BY <3>1, <3>2, <3>3 DEF SlotOf, StatSlots
  <2>2. Size(SlotOf(s)) <= Size(SlotOf("total"))
    BY <1>2, <2>1, CpusAssumption, SizeOrder DEF StatSlots
  <2> QED
    BY <1>2, <1>3, <2>2 DEF StatSlots
<1>5. ASSUME NEW s \in MetricSlots PROVE metrics[s] <= MaxFrames
  <2>1. \A t \in MetricSlots : metrics[t] \in Nat
    BY <1>1 DEF TypeOK
  <2>2. CASE options.metrics
    <3>1. Cardinality(Entering) \in Nat /\ Cardinality(Deciding) \in Nat
          /\ Cardinality(Between) \in Nat
      BY CpusAssumption, FS_Subset, FS_CardinalityType DEF Entering, Deciding, Between
    <3>2. /\ metrics["rx"] + Cardinality(Entering) <= Size(SlotOf("total"))
          /\ metrics["allow_hit"] + metrics["block_v4"] + metrics["block_v6"]
               + Cardinality(Deciding) <= metrics["rx"]
          /\ metrics["rx"] = metrics["pass"] + metrics["drop"] + Cardinality(Between)
      BY <1>1, <2>2 DEF TrafficInv, HitsInv, MetricsInv
    <3>3. /\ metrics["rx"] <= MaxFrames
          /\ metrics["allow_hit"] <= metrics["rx"] /\ metrics["block_v4"] <= metrics["rx"]
          /\ metrics["block_v6"] <= metrics["rx"] /\ metrics["pass"] <= metrics["rx"]
          /\ metrics["drop"] <= metrics["rx"]
      BY <1>2, <1>3, <2>1, <3>1, <3>2 DEF MetricSlots, StatSlots
    <3>4. s \in {"rx", "pass", "drop", "allow_hit", "block_v4", "block_v6"}
      BY DEF MetricSlots
    <3>5. metrics["rx"] \in Nat
      BY <2>1 DEF MetricSlots
    <3> QED
      BY <1>2, <2>1, <3>3, <3>4, <3>5
  <2>3. CASE ~options.metrics
    BY <1>1, <1>2, <2>3 DEF MetricsInv
  <2> QED
    BY <2>2, <2>3
<1>6. ASSUME NEW b \in Buckets PROVE perf[b] <= MaxFrames
  <2>1. perf \in [Buckets -> Nat] /\ perf[b] \in Nat
    BY <1>1 DEF TypeOK, Buckets
  <2>2. CASE options.perf
    <3>1. perf[b] <= Size(perf) /\ Size(perf) \in Nat
      BY <2>1, BucketsFinite, SizeSummand, CellsFinite
    <3>2. Size(SlotOf("total")) = Size(perf) + Cardinality(Sampling)
          /\ Cardinality(Sampling) \in Nat
      <4>1. Cardinality(Sampling) \in Nat
        BY CpusAssumption, FS_Subset, FS_CardinalityType DEF Sampling
      <4> QED
        BY <2>2, <4>1 DEF TrafficInv, SamplesInv
    <3> QED
      BY <1>2, <1>3, <2>1, <3>1, <3>2
  <2>3. CASE ~options.perf
    BY <1>2, <2>3 DEF TrafficInv, SamplesInv, Buckets
  <2> QED
    BY <2>2, <2>3
<1> QED
  BY <1>4, <1>5, <1>6

(* The sum formed over the buckets that were read. *)
LEMMA BucketSum ==
  ASSUME NEW got \in Got
  PROVE  MapThenSumSet(LAMBDA b : got.perf[b], Buckets) = Size(got.perf) /\ Size(got.perf) \in Nat
<1>1. got.perf \in [Buckets -> Nat]
  BY DEF Got
<1> QED
  BY <1>1, BucketsFinite, SumIsSize, CellsFinite

(* A map that has been read to the end is all read. *)
AllRead(r) ==
  /\ "stats" \in reading[r].complete =>
       \A s \in StatSlots : Ahead(r, s) = reading[r].got.stats[s]
  /\ "metrics" \in reading[r].complete =>
       \A s \in MetricSlots : Metric(r, s) = reading[r].got.metrics[s]
  /\ "perf" \in reading[r].complete => Bucketed(r) = reading[r].got.perf

AllReadHold == \A r \in Readers : Filled(r) => AllRead(r)

LEMMA CompleteIsRead == AllReadHold
<1> SUFFICES ASSUME NEW r \in Readers, Filled(r) PROVE AllRead(r)
  BY DEF AllReadHold
<1>1. /\ \A s \in StatSlots : StatRank[s] \in 1 .. 4 /\ reading[r].got.stats[s] \in Nat
      /\ \A s \in MetricSlots : MetricRank[s] \in 1 .. 6
      /\ reading[r].got.perf \in [Buckets -> Nat]
  BY RankTypes DEF Filled, Got
<1>2. ASSUME "stats" \in reading[r].complete, NEW s \in StatSlots
      PROVE  Ahead(r, s) = reading[r].got.stats[s]
  <2>1. StatsAt(r) = 5
    BY <1>2, Zenon DEF StatsAt
  <2>2. ReadFrom(r, s) = Cpus
    BY <1>1, <2>1 DEF ReadFrom
  <2>3. Unseen(r, s) \in [Cpus -> Nat] /\ \A c \in Cpus : Unseen(r, s)[c] = 0
    BY <2>2 DEF Unseen
  <2>4. Size(Unseen(r, s)) = 0
    BY <2>3, SizeZero
  <2> QED
    BY <1>1, <2>4 DEF Ahead
<1>3. ASSUME "metrics" \in reading[r].complete, NEW s \in MetricSlots
      PROVE  Metric(r, s) = reading[r].got.metrics[s]
  <2>1. MetricsAt(r) = 7
    BY <1>3, Zenon DEF MetricsAt
  <2>2. HasRead(r, s)
    BY <1>1, <2>1 DEF HasRead
  <2> QED
    BY <2>2 DEF Metric
<1>4. ASSUME "perf" \in reading[r].complete PROVE Bucketed(r) = reading[r].got.perf
  <2>1. \A b \in Buckets : HasBucket(r, b)
    BY <1>4, AtPerf DEF Filled
  <2> QED
    BY <1>1, <2>1 DEF Bucketed
<1> QED
  BY <1>2, <1>3, <1>4 DEF AllRead

(* What was pushed last is never above what will be pushed next. *)
PushedType == [stats : [StatSlots -> Nat], metrics : [MetricSlots -> Nat], perf_samples : Nat]

Exported ==
  /\ pushed \in PushedType
  /\ \A s \in StatSlots : pushed.stats[s] <= Ahead(Ticker, s)
  /\ \A s \in MetricSlots : pushed.metrics[s] <= Metric(Ticker, s)
  /\ pushed.perf_samples <= Size(Bucketed(Ticker))

LEMMA PushAfterRead ==
  ASSUME DOMAIN reading = Readers, NEW r \in Readers, Formed(r), NEW got, GotSlot(r, got)
  PROVE  \/ pushed' = pushed
         \/ /\ r = Ticker /\ pushed' = Pushed(At(r), got)
            /\ At(r) \in reading'[r].complete /\ reading'[r].got = got
<1>1. CASE Len(reading[r].todo) > 1
  BY <1>1 DEF GotSlot
<1>2. CASE ~(Len(reading[r].todo) > 1)
  <2>1. pushed' = IF r = Ticker THEN Pushed(At(r), got) ELSE pushed
    BY <1>2 DEF GotSlot
  <2>2. At(r) \in reading'[r].complete /\ reading'[r].got = got
    BY <1>2, GotSlotEffect
  <2> QED
    BY <2>1, <2>2
<1> QED
  BY <1>1, <1>2

(* The tick pushes a map it has just read to the end, and nothing else does. *)
LEMMA PushEffect ==
  ASSUME DOMAIN reading = Readers, NEW r \in Readers, Formed(r), Placed(r), Read(r)
  PROVE  \/ pushed' = pushed
         \/ \E map \in Maps : /\ pushed' = Pushed(map, reading'[Ticker].got)
                              /\ map \in reading'[Ticker].complete
<1>1. ASSUME NEW got, GotSlot(r, got), reading[r].todo # <<>>
      PROVE  \/ pushed' = pushed
             \/ \E map \in Maps : /\ pushed' = Pushed(map, reading'[Ticker].got)
                                  /\ map \in reading'[Ticker].complete
  <2>1. At(r) \in Maps
    <3>1. reading[r].route # <<>> /\ reading[r].route \in Routes
      BY <1>1 DEF Placed
    <3> QED
      BY <3>1, RouteWalk DEF At
  <2> QED
    BY <1>1, <2>1, PushAfterRead
<1>2. ASSUME NEW c \in Cpus, ReadCpu(r, c)
      PROVE  pushed' = pushed \/ (reading[r].todo # <<>> /\ \E got : GotSlot(r, got))
  BY <1>2 DEF ReadCpu
<1>3. ASSUME ReadSlot(r)
      PROVE  reading[r].todo # <<>> /\ \E got : GotSlot(r, got)
  BY <1>3 DEF ReadSlot
<1>4. ASSUME (\E task \in Tasks : StartTask(r, task)) \/ OpenFails(r) \/ Finish(r)
      PROVE  pushed' = pushed
  BY <1>4, Zenon DEF StartTask, OpenFails, Finish
<1> QED
  BY <1>1, <1>2, <1>3, <1>4 DEF Read

(* What is pushed is what was ahead of all that was pushed before. *)
LEMMA PushIsAhead ==
  ASSUME TypeOK', Filled(Ticker)', pushed \in PushedType, NEW map \in Maps,
         pushed' = Pushed(map, reading'[Ticker].got), map \in reading'[Ticker].complete
  PROVE  /\ pushed' \in PushedType
         /\ \A s \in StatSlots : pushed'.stats[s] \in {pushed.stats[s], Ahead(Ticker, s)'}
         /\ \A s \in MetricSlots : pushed'.metrics[s] \in {pushed.metrics[s], Metric(Ticker, s)'}
         /\ pushed'.perf_samples \in {pushed.perf_samples, Size(Bucketed(Ticker))'}
<1> DEFINE got == reading'[Ticker].got
<1>1. Ticker \in Readers /\ got \in Got
  BY DEF Readers, Filled
<1>2. AllReadHold'
  BY CompleteIsRead, PTL
<1>3. CASE map = "stats"
  <2>1. pushed' = [pushed EXCEPT !.stats = got.stats]
    BY <1>3 DEF Pushed
  <2>2. \A s \in StatSlots : Ahead(Ticker, s)' = got.stats[s]
    BY <1>1, <1>2, <1>3 DEF AllReadHold, AllRead
  <2> HIDE DEF got
  <2> QED
    BY <1>1, <2>1, <2>2 DEF PushedType, Got
<1>4. CASE map = "metrics"
  <2>1. pushed' = [pushed EXCEPT !.metrics = got.metrics]
    BY <1>4 DEF Pushed
  <2>2. \A s \in MetricSlots : Metric(Ticker, s)' = got.metrics[s]
    BY <1>1, <1>2, <1>4 DEF AllReadHold, AllRead
  <2> HIDE DEF got
  <2> QED
    BY <1>1, <2>1, <2>2 DEF PushedType, Got
<1>5. CASE map = "perf"
  <2>1. pushed' = [pushed EXCEPT !.perf_samples = MapThenSumSet(LAMBDA b : got.perf[b], Buckets)]
    BY <1>5 DEF Pushed
  <2>2. Bucketed(Ticker)' = got.perf
    BY <1>1, <1>2, <1>5 DEF AllReadHold, AllRead
  <2>3. Size(Bucketed(Ticker))' = Size(Bucketed(Ticker)')
    BY DEF Size, Cells
  <2> HIDE DEF got
  <2>4. MapThenSumSet(LAMBDA b : got.perf[b], Buckets) = Size(got.perf) /\ Size(got.perf) \in Nat
    BY <1>1, BucketSum
  <2> QED
    BY <2>1, <2>2, <2>3, <2>4 DEF PushedType
<1> QED
  BY <1>3, <1>4, <1>5 DEF Maps

Monotone ==
  /\ \A s \in StatSlots : pushed'.stats[s] >= pushed.stats[s]
  /\ \A s \in MetricSlots : pushed'.metrics[s] >= pushed.metrics[s]
  /\ pushed'.perf_samples >= pushed.perf_samples

(* So no step pushes less than was pushed before. *)
LEMMA ExportsGrow ==
  ASSUME TypeOK, TypeOK', Filled(Ticker), Filled(Ticker)', Exported, AheadGrows(Ticker),
         \/ pushed' = pushed
         \/ \E map \in Maps : /\ pushed' = Pushed(map, reading'[Ticker].got)
                              /\ map \in reading'[Ticker].complete
  PROVE  Exported' /\ Monotone
<1>1. /\ pushed \in PushedType
      /\ pushed' \in PushedType
      /\ \A s \in StatSlots : pushed'.stats[s] \in {pushed.stats[s], Ahead(Ticker, s)'}
      /\ \A s \in MetricSlots : pushed'.metrics[s] \in {pushed.metrics[s], Metric(Ticker, s)'}
      /\ pushed'.perf_samples \in {pushed.perf_samples, Size(Bucketed(Ticker))'}
  <2>1. pushed \in PushedType
    BY DEF Exported
  <2>2. CASE pushed' = pushed
    BY <2>1, <2>2
  <2>3. CASE \E map \in Maps : /\ pushed' = Pushed(map, reading'[Ticker].got)
                               /\ map \in reading'[Ticker].complete
    BY <2>1, <2>3, PushIsAhead
  <2> QED
    BY <2>1, <2>2, <2>3
<1>2. Ticker \in Readers
  BY DEF Readers
<1>3. ReadSumsHold /\ ReadSumsHold'
  BY ReadSums, PTL
<1>4. ASSUME NEW s \in StatSlots
      PROVE  pushed'.stats[s] >= pushed.stats[s] /\ pushed'.stats[s] <= Ahead(Ticker, s)'
  <2>1. /\ pushed.stats[s] \in Nat /\ Ahead(Ticker, s) \in Nat /\ Ahead(Ticker, s)' \in Nat
    <3>1. reading[Ticker].got.stats[s] \in Nat /\ reading'[Ticker].got.stats[s] \in Nat
      BY DEF Filled, Got
    <3> QED
      BY <1>1, <1>2, <1>3, <3>1 DEF PushedType, ReadSumsHold, SumsAreNumbers, Ahead
  <2>2. pushed.stats[s] <= Ahead(Ticker, s) /\ Ahead(Ticker, s) <= Ahead(Ticker, s)'
    BY DEF Exported, AheadGrows
  <2>3. pushed'.stats[s] = pushed.stats[s] \/ pushed'.stats[s] = Ahead(Ticker, s)'
    BY <1>1
  <2> QED
    BY <2>1, <2>2, <2>3
<1>5. ASSUME NEW s \in MetricSlots
      PROVE  pushed'.metrics[s] >= pushed.metrics[s] /\ pushed'.metrics[s] <= Metric(Ticker, s)'
  <2>1. /\ pushed.metrics[s] \in Nat /\ Metric(Ticker, s) \in Nat /\ Metric(Ticker, s)' \in Nat
    <3>1. /\ reading[Ticker].got.metrics[s] \in Nat /\ reading'[Ticker].got.metrics[s] \in Nat
          /\ metrics[s] \in Nat /\ metrics'[s] \in Nat
      BY DEF Filled, Got, TypeOK
    <3> QED
      BY <1>1, <3>1 DEF PushedType, Metric
  <2>2. pushed.metrics[s] <= Metric(Ticker, s) /\ Metric(Ticker, s) <= Metric(Ticker, s)'
    BY DEF Exported, AheadGrows
  <2>3. pushed'.metrics[s] = pushed.metrics[s] \/ pushed'.metrics[s] = Metric(Ticker, s)'
    BY <1>1
  <2> QED
    BY <2>1, <2>2, <2>3
<1>6. /\ pushed'.perf_samples >= pushed.perf_samples
      /\ pushed'.perf_samples <= Size(Bucketed(Ticker))'
  <2>1. /\ pushed.perf_samples \in Nat
        /\ Size(Bucketed(Ticker)) \in Nat /\ Size(Bucketed(Ticker))' \in Nat
    BY <1>1, <1>2, <1>3 DEF PushedType, ReadSumsHold, SumsAreNumbers
  <2>2. /\ pushed.perf_samples <= Size(Bucketed(Ticker))
        /\ Size(Bucketed(Ticker)) <= Size(Bucketed(Ticker))'
    BY DEF Exported, AheadGrows
  <2> QED
    BY <1>1, <2>1, <2>2
<1> QED
  BY <1>1, <1>4, <1>5, <1>6 DEF Exported, Monotone

(* All of it holds in every state, and every step pushes more. *)
CountersInv == DataInv /\ TrafficInv /\ ReadersInv /\ SamplesInvReaders /\ Exported

LEMMA CountersStep ==
  ASSUME CountersInv, [ReadersNext]_<<vars, readers>>
  PROVE  CountersInv' /\ Monotone
<1>1. DataInv /\ TrafficInv /\ ReadersInv /\ SamplesInvReaders /\ Exported
  BY DEF CountersInv
<1>2. DataInv' /\ ReadersInv'
  BY <1>1, ReadersStep
<1>3. TrafficInv' /\ \A r \in Readers : SampleInv(r)' /\ AheadGrows(r)
  BY <1>1, <1>2, StepSamples
<1>4. SamplesInvReaders'
  BY <1>3 DEF SamplesInvReaders
<1>5. \/ pushed' = pushed
      \/ \E map \in Maps : /\ pushed' = Pushed(map, reading'[Ticker].got)
                           /\ map \in reading'[Ticker].complete
  <2>1. CASE UNCHANGED readers
    BY <2>1 DEF readers
  <2>2. ASSUME NEW r \in Readers, Read(r)
        PROVE  \/ pushed' = pushed
               \/ \E map \in Maps : /\ pushed' = Pushed(map, reading'[Ticker].got)
                                    /\ map \in reading'[Ticker].complete
    <3>1. DOMAIN reading = Readers /\ Formed(r) /\ Placed(r)
      BY <1>1 DEF ReadersInv, ReaderInv, Shape
    <3> QED
      BY <2>2, <3>1, PushEffect
  <2> QED
    BY <2>1, <2>2 DEF ReadersNext
<1>6. Exported' /\ Monotone
  <2>1. Ticker \in Readers
    BY DEF Readers
  <2>2. TypeOK /\ TypeOK' /\ Filled(Ticker) /\ Filled(Ticker)'
    BY <1>1, <1>2, <1>3, <2>1 DEF DataInv, SamplesInvReaders, SampleInv
  <2> QED
    BY <1>1, <1>3, <1>5, <2>1, <2>2, ExportsGrow
<1> QED
  BY <1>2, <1>3, <1>4, <1>6 DEF CountersInv

LEMMA CountersStart ==
  ASSUME Init, ReadersInit
  PROVE  CountersInv
<1>1. DataInv /\ ReadersInv /\ TrafficInv
  BY ReadersStart, InitialTraffic
<1>2. TypeOK /\ InFlightAtMost \in Nat
  <2>1. InFlightAtMost \in Nat
    BY CpusAssumption, FS_Subset, FS_CardinalityType DEF InFlightAtMost
  <2> QED
    BY <1>1, <2>1 DEF DataInv
<1>3. ASSUME NEW r \in Readers PROVE Unstarted(r)
  <2>1. reading[r] = Reading("none")
    BY DEF ReadersInit
  <2> QED
    BY <1>2, <2>1, BeginningsUnstarted DEF UnstartedHold
<1>4. SamplesInvReaders
  BY <1>3 DEF SamplesInvReaders, Unstarted
<1>5. Exported
  <2>1. Ticker \in Readers
    BY DEF Readers
  <2>2. pushed \in PushedType /\ (\A s \in StatSlots : pushed.stats[s] = 0)
        /\ (\A s \in MetricSlots : pushed.metrics[s] = 0) /\ pushed.perf_samples = 0
    BY DEF ReadersInit, Nothing, PushedType
  <2>3. Unstarted(Ticker) /\ SumsAreNumbers(Ticker)
    BY <1>2, <1>3, <2>1, ReadSums DEF ReadSumsHold, Unstarted, SampleInv
  <2>4. /\ \A s \in StatSlots : Ahead(Ticker, s) \in Nat
        /\ \A s \in MetricSlots : Metric(Ticker, s) \in Nat
        /\ Size(Bucketed(Ticker)) \in Nat
    BY <1>2, <2>3 DEF Unstarted, SumsAreNumbers, TypeOK
  <2> QED
    BY <2>2, <2>4 DEF Exported
<1> QED
  BY <1>1, <1>4, <1>5 DEF CountersInv

LEMMA CountersInvariance == ReadersSpec => [](CountersInv)
<1>1. CountersInv /\ [ReadersNext]_<<vars, readers>> => CountersInv'
  BY CountersStep
<1>2. Init /\ ReadersInit => CountersInv
  BY CountersStart
<1> QED
  BY <1>1, <1>2, PTL DEF ReadersSpec

(* The counters that the tick pushes never go back, however the data plane and    *)
(* the failures to open a map fall between its reads: a map is pushed only when    *)
(* it has been read to the end, and every slot was read after it was before         *)
(* (run.go:104-156).                                                              *)
THEOREM ExportsNeverGoBack == ReadersSpec => ExportsMonotone
<1>1. CountersInv /\ [ReadersNext]_<<vars, readers>> => [Monotone]_pushed
  BY CountersStep
<1>2. ReadersSpec => [][Monotone]_pushed
  BY <1>1, CountersInvariance, PTL DEF ReadersSpec
<1> QED
  BY <1>2, Zenon DEF ExportsMonotone, Monotone

(* The histogram that was read to the end has a sample for every frame that the    *)
(* metrics and the stats show, but for those in flight: it is read last             *)
(* (run.go:110-155, api.go:225-247).                                              *)
THEOREM SamplesReadExplained == ReadersSpec => []SamplesExplained
<1>1. CountersInv => SamplesExplained
  <2> SUFFICES ASSUME CountersInv, NEW r \in Readers, "perf" \in reading[r].complete, options.perf
               PROVE  LET g == reading[r].got
                          samples == MapThenSumSet(LAMBDA b : g.perf[b], Buckets) + InFlightAtMost
                      IN  /\ "metrics" \in reading[r].complete => g.metrics["rx"] <= samples
                          /\ "stats" \in reading[r].complete => g.stats["total"] <= samples
    BY DEF SamplesExplained, Done
  <2>1. TypeOK /\ Filled(r) /\ SamplesSeen(r)
    BY DEF CountersInv, DataInv, SamplesInvReaders, SampleInv
  <2>2. Bucketed(r) = reading[r].got.perf /\ reading[r].got \in Got
    BY <2>1, CompleteIsRead DEF AllReadHold, AllRead, Filled
  <2> DEFINE g == reading[r].got
  <2>3. /\ g.metrics["rx"] <= Size(g.perf) + InFlightAtMost
        /\ g.stats["total"] <= Size(g.perf) + InFlightAtMost
    BY <2>1, <2>2 DEF SamplesSeen
  <2> HIDE DEF g
  <2>4. MapThenSumSet(LAMBDA b : g.perf[b], Buckets) = Size(g.perf)
    BY <2>2, BucketSum DEF g
  <2> QED
    BY <2>3, <2>4 DEF g
<1> QED
  BY <1>1, CountersInvariance, PTL

(* A reader goes through its maps slot by slot and CPU by CPU, and no number it     *)
(* shows exceeds the frames there were (maps.go:272-338, 377-400).                 *)
THEOREM ReadersTypeCorrect == ReadersSpec => []ReadersTypeOK
<1>1. CountersInv => ReadersTypeOK
  <2> SUFFICES ASSUME CountersInv PROVE ReadersTypeOK
    OBVIOUS
  <2>1. DataInv /\ TrafficInv /\ TypeOK /\ pushed \in PushedType
    BY DEF CountersInv, DataInv, Exported
  <2>2. ASSUME NEW r \in Readers
        PROVE  /\ reading[r].task \in DOMAIN Route
               /\ reading[r].route \in Seq(Maps)
               /\ reading[r].cpus \in (SUBSET Cpus) \ {{}}
               /\ reading[r].complete \subseteq Maps
    <3>1. Filled(r) /\ Placed(r)
      BY DEF CountersInv, SamplesInvReaders, SampleInv, ReadersInv, ReaderInv, Shape
    <3>2. reading[r].route \in Routes /\ reading[r].cpus \subseteq Cpus
      BY <3>1 DEF Placed
    <3>3. ASSUME NEW route \in Routes PROVE route \in Seq(Maps)
      <4>1. {"stats", "metrics", "perf"} \subseteq Maps
        BY DEF Maps
      <4>2. /\ <<>> \in Seq(Maps) /\ <<"stats">> \in Seq(Maps) /\ <<"perf">> \in Seq(Maps)
            /\ <<"metrics", "perf">> \in Seq(Maps) /\ <<"stats", "perf">> \in Seq(Maps)
            /\ <<"metrics", "stats", "perf">> \in Seq(Maps)
        BY <4>1
      <4> QED
        BY <4>2 DEF Routes
    <3>4. /\ reading[r].task \in DOMAIN Route /\ reading[r].cpus # {}
          /\ reading[r].complete \subseteq Maps
      BY <3>1 DEF Filled
    <3>5. reading[r].cpus \in (SUBSET Cpus) \ {{}}
      BY <3>2, <3>4
    <3>6. reading[r].route \in Seq(Maps)
      BY <3>2, <3>3
    <3> QED
      BY <3>4, <3>5, <3>6
  <2>3. ASSUME NEW r \in Readers
        PROVE  LET slots == Unread(reading[r].route)
               IN  \E i \in 1 .. (Len(slots) + 1) : reading[r].todo = SubSeq(slots, i, Len(slots))
    <3>1. Placed(r) /\ PerfPlaced(r)
      BY DEF CountersInv, SamplesInvReaders, SampleInv, Filled, ReadersInv, ReaderInv, Shape
    <3>2. CASE reading[r].route = <<>>
      <4>1. Unread(reading[r].route) = <<>> /\ reading[r].todo = <<>>
        BY <3>1, <3>2 DEF Unread, Placed
      <4>2. SubSeq(<<>>, 1, Len(<<>>)) = <<>> /\ 1 \in 1 .. (Len(<<>>) + 1)
        OBVIOUS
      <4> QED
        BY <4>1, <4>2
    <3>3. CASE reading[r].route # <<>>
      <4>1. Unread(reading[r].route) = Slots[At(r)] /\ Visits(r, At(r)) /\ At(r) \in Maps
        BY <3>1, <3>3, RouteWalk DEF Unread, At, Visits, Placed
      <4>2. CASE At(r) = "stats"
        BY <3>1, <4>1, <4>2, StatsEnding DEF Placed
      <4>3. CASE At(r) = "metrics"
        BY <3>1, <4>1, <4>3, MetricsEnding DEF Placed
      <4>4. CASE At(r) = "perf"
        BY <3>1, <4>1, <4>4, PerfEnding DEF PerfPlaced
      <4> QED
        BY <4>1, <4>2, <4>3, <4>4 DEF Maps
    <3> QED
      BY <3>2, <3>3
  <2>4. ASSUME NEW r \in Readers
        PROVE  reading[r].got \in [stats : [StatSlots -> 0 .. MaxFrames],
                                   metrics : [MetricSlots -> 0 .. MaxFrames],
                                   perf : [Buckets -> 0 .. MaxFrames]]
    <3>1. Filled(r) /\ Bounded(r) /\ SumsAreNumbers(r) /\ reading[r].got \in Got
      BY <2>1, ReadSums DEF CountersInv, SamplesInvReaders, SampleInv, Filled, ReadSumsHold
    <3>2. /\ \A s \in StatSlots : Size(SlotOf(s)) <= MaxFrames
          /\ \A s \in MetricSlots : metrics[s] <= MaxFrames
          /\ \A b \in Buckets : perf[b] <= MaxFrames
          /\ MaxFrames \in Nat
      BY <2>1, CountsBounded, BoundsAssumption
    <3>3. ASSUME NEW s \in StatSlots PROVE reading[r].got.stats[s] \in 0 .. MaxFrames
      <4>1. /\ reading[r].got.stats[s] \in Nat /\ reading[r].got.stats[s] <= Size(ReadOf(r, s))
            /\ Size(ReadOf(r, s)) \in Nat /\ Size(Unseen(r, s)) \in Nat /\ Size(SlotOf(s)) \in Nat
            /\ Size(SlotOf(s)) = Size(ReadOf(r, s)) + Size(Unseen(r, s))
        BY <3>1 DEF Got, Bounded, SumsAreNumbers
      <4> QED
        BY <3>2, <4>1
    <3>4. ASSUME NEW s \in MetricSlots PROVE reading[r].got.metrics[s] \in 0 .. MaxFrames
      <4>1. /\ reading[r].got.metrics[s] \in Nat /\ reading[r].got.metrics[s] <= metrics[s]
            /\ metrics[s] \in Nat
        BY <2>1, <3>1 DEF Got, Bounded, TypeOK
      <4> QED
        BY <3>2, <4>1
    <3>5. ASSUME NEW b \in Buckets PROVE reading[r].got.perf[b] \in 0 .. MaxFrames
      <4>1. /\ reading[r].got.perf[b] \in Nat /\ reading[r].got.perf[b] <= perf[b]
            /\ perf[b] \in Nat
        BY <3>1 DEF Got, Bounded, SumsAreNumbers
      <4> QED
        BY <3>2, <4>1
    <3> QED
      BY <3>1, <3>3, <3>4, <3>5 DEF Got
  <2> QED
    BY <2>1, <2>2, <2>3, <2>4 DEF ReadersTypeOK, PushedType
<1> QED
  BY <1>1, CountersInvariance, PTL

=============================================================================
