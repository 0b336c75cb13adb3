------------------------- MODULE MetricsWorkerProofs -------------------------
(***************************************************************************)
(* Theorems about MetricsWorker: although the worker and the requests take  *)
(* no lock, a chart never goes up towards its old end, a ring holds the last *)
(* samples, and the process cannot end once every counter has been sampled.  *)
(***************************************************************************)
EXTENDS MetricsWorker, SequenceTheorems, TLAPS

Samples == 0 .. MaxPushes

(* A counter's slice: none yet, or one value. *)
Slices == {<<>>} \cup {<<x>> : x \in Samples}

WorkerFields == {"step", "name", "value", "todo"}

(* TypeOK, field by field; a Push that runs has a name, and the worker only   *)
(* ever has names to visit that j.values has.                                *)
Typed ==
  /\ values \in [Names -> Slices]
  /\ made \subseteq Names /\ prev \subseteq made /\ charted \subseteq prev
  /\ vectors \in [Names -> Vectors(Samples)]
  /\ recent \in [Names -> Seq(Samples)]
  /\ \A k \in Names : Len(recent[k]) <= Length
  /\ push.step \in {"idle", "slice", "store"}
  /\ push.step # "idle" => push.name \in Names
  /\ DOMAIN push = {"step", "name"}
  /\ DOMAIN worker = WorkerFields
  /\ worker.step \in {"idle", "walk", "chart", "sample"}
  /\ worker.value \in Samples
  /\ worker.todo \subseteq made
  /\ reading \subseteq Readers /\ todo \in [Readers -> SUBSET Names]
  /\ pushes \in Samples /\ crashed \in BOOLEAN

(* A name of j.values is without a slice only in the middle of its first      *)
(* Push, before the worker could remember it; a value is at most as new as    *)
(* the last Push.                                                            *)
SliceInv ==
  /\ push.step # "idle" => push.name \in made
  /\ push.step = "slice" => values[push.name] = <<>>
  /\ \A k \in Names :
       /\ values[k] # <<>> => k \in made /\ Head(values[k]) <= pushes
       /\ values[k] = <<>> /\ k \in made => push.step = "slice" /\ push.name = k
       /\ k \in prev => values[k] # <<>>

(* What the worker is about to chart or to sample: a value between the last   *)
(* sample and the counter.                                                   *)
WorkerInv ==
  /\ worker.step \in {"chart", "sample"} =>
       /\ worker.name \in prev
       /\ worker.value <= Head(values[worker.name])
       /\ recent[worker.name] # <<>> => recent[worker.name][1] <= worker.value
  /\ worker.step = "chart" => worker.name \notin charted
  /\ worker.step = "sample" => worker.name \in charted

RecentInv ==
  \A k \in Names :
    /\ recent[k] # <<>> => k \in charted /\ recent[k][1] <= Head(values[k])
    /\ vectors[k].values = <<>> => recent[k] = <<>>
    /\ \A i \in 1 .. (Len(recent[k]) - 1) : recent[k][i] >= recent[k][i + 1]

IInv == Typed /\ SliceInv /\ WorkerInv /\ RecentInv

-----------------------------------------------------------------------------
(* The ring and its history *)

LEMMA PushType ==
  ASSUME NEW v \in Vectors(Samples), NEW x \in Samples
  PROVE  /\ PushValue(v, x) \in Vectors(Samples)
         /\ PushValue(v, x).values # <<>>
<1> DEFINE w == PushValue(v, x)
<1>1. 0 \in Samples
  BY BoundAssumption DEF Samples
<1>2. Ring(v) \in [1 .. Length -> Samples]
  BY <1>1 DEF Ring, Vectors
<1>3. w.values \in [1 .. Length -> Samples] /\ w.values # <<>>
  BY <1>2, LengthAssumption DEF PushValue, Vectors
<1>4. w.ref \in 0 .. (Length - 1) /\ w.count \in 0 .. Length
  BY LengthAssumption DEF PushValue, Vectors
<1> QED
  BY <1>3, <1>4 DEF PushValue, Vectors

Latest(x, s) == SubSeq(<<x>> \o s, 1, IF Len(s) < Length THEN Len(s) + 1 ELSE Length)

LEMMA LatestSamples ==
  ASSUME NEW S, NEW x \in S, NEW s \in Seq(S), Len(s) <= Length
  PROVE  /\ Latest(x, s) \in Seq(S)
         /\ Len(Latest(x, s)) = IF Len(s) < Length THEN Len(s) + 1 ELSE Length
         /\ Len(Latest(x, s)) <= Length
         /\ Latest(x, s)[1] = x
         /\ \A i \in 2 .. Len(Latest(x, s)) : Latest(x, s)[i] = s[i - 1]
<1> DEFINE n == IF Len(s) < Length THEN Len(s) + 1 ELSE Length
           t == <<x>> \o s
<1>1. n \in Nat /\ n >= 1 /\ n <= Length /\ n <= Len(s) + 1
  BY LengthAssumption
<1>2. /\ t \in Seq(S) /\ Len(t) = Len(s) + 1
      /\ t[1] = x
      /\ \A i \in 2 .. Len(t) : t[i] = s[i - 1]
  OBVIOUS
<1>3. \A i \in 1 .. n : t[i] \in S
  BY <1>1, <1>2
<1>4. Latest(x, s) = SubSeq(t, 1, n)
  BY DEF Latest
<1> HIDE DEF n, t
<1>5. /\ SubSeq(t, 1, n) \in Seq(S)
      /\ Len(SubSeq(t, 1, n)) = n
      /\ \A i \in 1 .. n : SubSeq(t, 1, n)[i] = t[i]
  BY <1>1, <1>3, SubSeqProperties
<1> QED
  BY <1>1, <1>2, <1>4, <1>5 DEF n

-----------------------------------------------------------------------------
(* Type correctness *)

LEMMA SlicesHold ==
  /\ <<>> \in Slices
  /\ \A x \in Samples : <<x>> \in Slices /\ <<x>> # <<>> /\ Head(<<x>>) = x
  /\ \A v \in Slices : v # <<>> => Head(v) \in Samples
BY DEF Slices

LEMMA TypesHold == Typed => TypeOK
BY DEF Typed, TypeOK, Slices, Samples

LEMMA InitHolds == Init => IInv
<1> SUFFICES ASSUME Init PROVE IInv
  OBVIOUS
<1>1. NewMetricsVector \in Vectors(Samples)
  BY LengthAssumption DEF NewMetricsVector, Vectors
<1>2. Typed
  <2>1. values \in [Names -> Slices] /\ pushes \in Samples /\ recent \in [Names -> Seq(Samples)]
    BY SlicesHold, BoundAssumption DEF Init, Samples
  <2>2. vectors \in [Names -> Vectors(Samples)]
    BY <1>1 DEF Init
  <2>3. push.step = "idle" /\ DOMAIN push = {"step", "name"}
    BY DEF Init
  <2>4. /\ DOMAIN worker = WorkerFields /\ worker.step = "idle"
        /\ worker.value \in Samples /\ worker.todo = {}
    BY BoundAssumption DEF Init, Idle, WorkerFields, Samples
  <2>5. \A k \in Names : Len(recent[k]) <= Length
    BY LengthAssumption DEF Init
  <2>6. todo \in [Readers -> SUBSET Names]
    BY DEF Init
  <2> QED
    BY <2>1, <2>2, <2>3, <2>4, <2>5, <2>6 DEF Init, Typed
<1> QED
  BY <1>2 DEF Init, IInv, SliceInv, WorkerInv, RecentInv, Idle

(* Push and the requests leave the charts alone. *)
LEMMA TypedSteps ==
  ASSUME IInv, Next
  PROVE  Typed'
<1> USE SlicesHold, BoundAssumption DEF IInv, Typed, WorkerFields, Samples
<1>1. CASE Pushing
  <2>1. ASSUME NEW k \in Names, BeginPush(k) PROVE Typed'
    BY <2>1, BoundAssumption DEF BeginPush, Inserted, MayCrash
  <2>2. CASE MakeSlice
    BY <2>2, BoundAssumption DEF MakeSlice
  <2>3. CASE StoreValue
    BY <2>3 DEF StoreValue
  <2> QED
    BY <1>1, <2>1, <2>2, <2>3 DEF Pushing
<1>2. CASE Working
  <2>1. CASE Tick \/ EndWalk
    <3>1. /\ DOMAIN worker' = WorkerFields /\ worker'.step \in {"idle", "walk"}
          /\ worker'.value = 0 /\ worker'.todo \subseteq made
      <4>1. CASE Tick
        BY <4>1 DEF Tick, Idle
      <4>2. CASE EndWalk
        BY <4>2 DEF EndWalk, Idle
      <4> QED
        BY <2>1, <4>1, <4>2
    <3> QED
      BY <2>1, <3>1 DEF Tick, EndWalk
  <2>2. ASSUME NEW k \in Names, Visit(k) PROVE Typed'
    <3>1. CASE values[k] = <<>>
      BY <2>2, <3>1 DEF Visit
    <3>2. CASE values[k] # <<>>
      <4>1. /\ DOMAIN worker' = WorkerFields
            /\ worker'.step \in {"walk", "chart", "sample"}
            /\ worker'.value = Head(values[k]) /\ worker'.todo = worker.todo \ {k}
        BY <2>2, <3>2 DEF Visit
      <4>2. Head(values[k]) \in Samples
        BY <3>2
      <4>3. k \in made /\ prev' = prev \cup {k}
        BY <2>2, <3>2 DEF Visit
      <4> QED
        BY <2>2, <3>2, <4>1, <4>2, <4>3 DEF Visit
    <3> QED
      BY <3>1, <3>2
  <2>3. CASE Chart
    <3>1. worker.name \in prev /\ worker.name \in Names
      BY <2>3 DEF Chart, WorkerInv
    <3>2. todo' \in [Readers -> SUBSET Names]
      BY <2>3, <3>1 DEF Chart
    <3>3. /\ DOMAIN worker' = WorkerFields /\ worker'.step = "sample"
          /\ worker'.value = worker.value /\ worker'.todo = worker.todo
      BY <2>3 DEF Chart
    <3> QED
      BY <2>3, <3>1, <3>2, <3>3 DEF Chart, MayCrash
  <2>4. CASE Sample
    <3> DEFINE n == worker.name
    <3>1. n \in Names /\ worker.value \in Samples /\ vectors[n] \in Vectors(Samples)
      BY <2>4 DEF Sample, WorkerInv
    <3>2. vectors' \in [Names -> Vectors(Samples)]
      BY <2>4, <3>1, PushType DEF Sample
    <3>3. recent' = [recent EXCEPT ![n] = Latest(worker.value, recent[n])]
      BY <2>4, <3>1 DEF Sample, Latest
    <3>4. \A k \in Names : recent'[k] \in Seq(Samples) /\ Len(recent'[k]) <= Length
      BY <3>1, <3>3, LatestSamples
    <3> QED
      BY <2>4, <3>1, <3>2, <3>3, <3>4 DEF Sample, MayCrash
  <2> QED
    BY <1>2, <2>1, <2>2, <2>3, <2>4 DEF Working
<1>3. ASSUME NEW r \in Readers, Serving(r) PROVE Typed'
  BY <1>3 DEF Serving, BeginRead, ReadVector, EndRead, store
<1> QED
  BY <1>1, <1>2, <1>3 DEF Next

-----------------------------------------------------------------------------
(* The rest of the invariant *)

(* A sample becomes the first of the history, and the others follow.         *)
LEMMA SampleRecorded ==
  ASSUME Typed, Sample, worker.name \in Names,
         NEW s, s = recent'[worker.name]
  PROVE  /\ s \in Seq(Samples) /\ s # <<>> /\ s[1] = worker.value
         /\ Len(s) <= Len(recent[worker.name]) + 1
         /\ \A i \in 2 .. Len(s) : s[i] = recent[worker.name][i - 1]
         /\ \A k \in Names \ {worker.name} : recent'[k] = recent[k]
<1> DEFINE n == worker.name
<1>1. /\ recent[n] \in Seq(Samples) /\ Len(recent[n]) <= Length
      /\ worker.value \in Samples
  BY DEF Typed
<1>2. recent' = [recent EXCEPT ![n] = Latest(worker.value, recent[n])]
  BY DEF Sample, Latest
<1>3. /\ s = Latest(worker.value, recent[n])
      /\ \A k \in Names \ {n} : recent'[k] = recent[k]
  BY <1>2 DEF Typed
<1> DEFINE x == worker.value
           t == recent[n]
<1> HIDE DEF n, x, t
<1>4. /\ Latest(x, t) \in Seq(Samples)
      /\ Len(Latest(x, t)) = IF Len(t) < Length THEN Len(t) + 1 ELSE Length
      /\ Len(Latest(x, t)) <= Length
      /\ Latest(x, t)[1] = x
      /\ \A i \in 2 .. Len(Latest(x, t)) : Latest(x, t)[i] = t[i - 1]
  <2>1. x \in Samples /\ t \in Seq(Samples) /\ Len(t) <= Length
    BY <1>1 DEF x, t
  <2> QED
    BY <2>1, LatestSamples
<1> USE DEF n, x, t
<1> QED
  BY <1>1, <1>3, <1>4, LengthAssumption

LEMMA OrderSteps ==
  ASSUME IInv, Typed', Next
  PROVE  SliceInv' /\ WorkerInv' /\ RecentInv'
<1> USE SlicesHold, BoundAssumption DEF IInv, Typed, WorkerFields, Samples
<1>1. CASE Pushing
  <2>1. ASSUME NEW k \in Names, BeginPush(k) PROVE SliceInv' /\ WorkerInv' /\ RecentInv'
    <3>1. /\ worker'.step = worker.step /\ worker'.name = worker.name
          /\ worker'.value = worker.value
      BY <2>1 DEF BeginPush
    <3>2. SliceInv'
      BY <2>1 DEF BeginPush, SliceInv
    <3> QED
      BY <2>1, <3>1, <3>2 DEF BeginPush, WorkerInv, RecentInv
  <2>2. CASE MakeSlice
    <3>1. SliceInv'
      BY <2>2 DEF MakeSlice, SliceInv
    <3>2. push.name \notin prev /\ recent[push.name] = <<>>
      BY <2>2 DEF MakeSlice, SliceInv, RecentInv
    <3> QED
      BY <2>2, <3>1, <3>2 DEF MakeSlice, WorkerInv, RecentInv
  <2>3. CASE StoreValue
    <3>1. \A k \in prev : Head(values[k]) <= Head(values'[k]) /\ Head(values'[k]) \in Nat /\ Head(values[k]) \in Nat
      BY <2>3 DEF StoreValue, SliceInv
    <3>2. SliceInv'
      BY <2>3 DEF StoreValue, SliceInv
    <3>3. WorkerInv'
      BY <2>3, <3>1 DEF StoreValue, WorkerInv
    <3>4. \A k \in Names : recent[k] # <<>> => recent[k][1] \in Nat
      OBVIOUS
    <3>5. RecentInv'
      BY <2>3, <3>1, <3>4 DEF StoreValue, RecentInv
    <3> QED
      BY <3>2, <3>3, <3>5
  <2> QED
    BY <1>1, <2>1, <2>2, <2>3 DEF Pushing
<1>2. CASE Working
  <2>1. CASE Tick \/ EndWalk
    <3>1. worker'.step \in {"idle", "walk"}
      <4>1. Tick => worker'.step = "walk"
        BY DEF Tick, Idle
      <4>2. EndWalk => worker'.step = "idle"
        BY DEF EndWalk, Idle
      <4> QED
        BY <2>1, <4>1, <4>2
    <3>2. UNCHANGED <<values, made, prev, vectors, recent, charted, push, pushes>>
      BY <2>1 DEF Tick, EndWalk
    <3> QED
      BY <3>1, <3>2 DEF SliceInv, WorkerInv, RecentInv
  <2>2. ASSUME NEW k \in Names, Visit(k) PROVE SliceInv' /\ WorkerInv' /\ RecentInv'
    <3>1. SliceInv' /\ RecentInv'
      BY <2>2 DEF Visit, SliceInv, RecentInv
    <3>2. WorkerInv'
      BY <2>2 DEF Visit, SliceInv, WorkerInv, RecentInv
    <3> QED
      BY <3>1, <3>2
  <2>3. CASE Chart
    BY <2>3 DEF Chart, SliceInv, WorkerInv, RecentInv
  <2>4. CASE Sample
    <3> DEFINE n == worker.name
               s == recent'[n]
    <3>1. n \in Names /\ worker.value \in Samples /\ vectors[n] \in Vectors(Samples)
      BY <2>4 DEF Sample, WorkerInv
    <3>2. recent'[n] = s
      OBVIOUS
    <3> HIDE DEF s
    <3>3. /\ s \in Seq(Samples) /\ s # <<>> /\ s[1] = worker.value
          /\ Len(s) <= Len(recent[n]) + 1
          /\ \A i \in 2 .. Len(s) : s[i] = recent[n][i - 1]
          /\ \A k \in Names \ {n} : recent'[k] = recent[k]
      BY <2>4, <3>1, <3>2, SampleRecorded
    <3>4. vectors'[n].values # <<>>
      BY <2>4, <3>1, PushType DEF Sample
    <3>5. SliceInv' /\ WorkerInv'
      BY <2>4 DEF Sample, SliceInv, WorkerInv
    <3>6. \A i \in 1 .. (Len(s) - 1) : s[i] >= s[i + 1]
      <4> SUFFICES ASSUME NEW i \in 1 .. (Len(s) - 1) PROVE s[i] >= s[i + 1]
        OBVIOUS
      <4>1. s[i + 1] = recent[n][i]
        BY <3>3
      <4>2. CASE i = 1
        BY <2>4, <3>3, <4>1, <4>2 DEF Sample, WorkerInv
      <4>3. CASE i > 1
        <5>1. s[i] = recent[n][i - 1] /\ i - 1 \in 1 .. (Len(recent[n]) - 1)
          BY <3>3, <4>3, SMTT(20)
        <5> QED
          BY <3>1, <4>1, <5>1 DEF RecentInv
      <4> QED
        BY <4>2, <4>3
    <3>7. n \in charted' /\ s[1] <= Head(values'[n])
      BY <2>4, <3>3 DEF Sample, WorkerInv
    <3>8. RecentInv'
      <4>1. ASSUME NEW k \in Names \ {n}
            PROVE  recent'[k] = recent[k] /\ vectors'[k] = vectors[k]
        BY <2>4, <3>3, <4>1 DEF Sample
      <4>2. UNCHANGED <<values, charted>>
        BY <2>4 DEF Sample
      <4> QED
        BY <3>1, <3>2, <3>4, <3>6, <3>7, <4>1, <4>2 DEF RecentInv
    <3> QED
      BY <3>5, <3>8
  <2> QED
    BY <1>2, <2>1, <2>2, <2>3, <2>4 DEF Working
<1>3. ASSUME NEW r \in Readers, Serving(r) PROVE SliceInv' /\ WorkerInv' /\ RecentInv'
  <2>1. UNCHANGED store
    BY <1>3 DEF Serving, BeginRead, ReadVector, EndRead, store
  <2> QED
    BY <2>1 DEF store, SliceInv, WorkerInv, RecentInv
<1> QED
  BY <1>1, <1>2, <1>3 DEF Next

LEMMA StutterKeeps ==
  ASSUME IInv, UNCHANGED vars
  PROVE  IInv'
BY DEF vars, IInv, Typed, SliceInv, WorkerInv, RecentInv

LEMMA Invariance == Spec => []IInv
<1>1. IInv /\ [Next]_vars => IInv'
  <2> SUFFICES ASSUME IInv, [Next]_vars PROVE IInv'
    OBVIOUS
  <2>1. CASE Next
    <3>1. Typed'
      BY <2>1, TypedSteps
    <3> QED
      BY <2>1, <3>1, OrderSteps DEF IInv
  <2>2. CASE UNCHANGED vars
    BY <2>2, StutterKeeps
  <2> QED
    BY <2>1, <2>2
<1> QED
  BY <1>1, InitHolds, PTL DEF Spec

-----------------------------------------------------------------------------
(* The ring *)

(* The slot, counted from 1, of the i-th latest value of a ring. *)
Slot(ref, i) == IF i <= ref THEN ref - i + 1 ELSE Length + ref - i + 1

Holds(v, s) ==
  /\ v.count = Len(s)
  /\ v.count = Length \/ v.ref = v.count
  /\ \A i \in 1 .. Len(s) : s[i] = v.values[Slot(v.ref, i)]

(* Every vector has counted the samples it got, and has the latest of them,    *)
(* as many as it has slots, going back from the slot written next and around   *)
(* its end.  (Which of them GetLastValues returns is another matter.)  The      *)
(* slot written next is behind the others until the ring is full.               *)
RingHolds == \A k \in Names : Holds(vectors[k], recent[k])

(* When the ring moves on by one slot, each of the latest values but one has   *)
(* become the next latest, and none of them is in the slot just written.       *)
LEMMA SlotShifts ==
  ASSUME NEW ref \in 0 .. (Length - 1), NEW next, NEW i \in Nat, 2 <= i, i <= Length,
         next = IF ref + 1 >= Length THEN 0 ELSE ref + 1
  PROVE  /\ Slot(next, i) = Slot(ref, i - 1)
         /\ Slot(next, i) \in 1 .. Length /\ Slot(next, i) # ref + 1
<1>1. CASE ref + 1 >= Length
  <2>1. next = 0 /\ ref = Length - 1
    BY <1>1, LengthAssumption
  <2> QED
    BY <2>1, LengthAssumption DEF Slot
<1>2. CASE ~(ref + 1 >= Length)
  <2>1. next = ref + 1 /\ ref + 1 < Length
    BY <1>2, LengthAssumption
  <2> QED
    BY <2>1, LengthAssumption DEF Slot
<1> QED
  BY <1>1, <1>2

LEMMA PushHolds ==
  ASSUME NEW v \in Vectors(Samples), NEW x \in Samples,
         NEW s \in Seq(Samples), Len(s) <= Length, Holds(v, s),
         v.values = <<>> => s = <<>>
  PROVE  Holds(PushValue(v, x), Latest(x, s))
<1> DEFINE w == PushValue(v, x)
           t == Latest(x, s)
           n == IF Len(s) < Length THEN Len(s) + 1 ELSE Length
<1>1. v.ref \in 0 .. (Length - 1) /\ v.count \in 0 .. Length /\ Length \in Nat \ {0}
  BY LengthAssumption DEF Vectors
<1>2. /\ Len(t) = n /\ t[1] = x
      /\ \A i \in 2 .. Len(t) : t[i] = s[i - 1]
  BY LatestSamples
<1>3. w.count = n
  BY <1>1 DEF PushValue, Holds
<1>4. w.ref = IF v.ref + 1 >= Length THEN 0 ELSE v.ref + 1
  BY DEF PushValue
<1>5. /\ w.values[v.ref + 1] = x
      /\ \A j \in 1 .. Length : j # v.ref + 1 /\ v.values # <<>> => w.values[j] = v.values[j]
  BY <1>1 DEF PushValue, Ring, Vectors
<1>6. Slot(w.ref, 1) = v.ref + 1
  BY <1>1, <1>4 DEF Slot
<1>7. ASSUME NEW i \in 2 .. n
      PROVE  /\ Slot(w.ref, i) = Slot(v.ref, i - 1)
             /\ Slot(w.ref, i) \in 1 .. Length /\ Slot(w.ref, i) # v.ref + 1
  <2>1. i \in Nat /\ i >= 2 /\ i <= Length
    BY <1>1
  <2> QED
    BY <1>1, <1>4, <2>1, SlotShifts
<1>8. n >= 2 => v.values # <<>>
  <2>1. s = <<>> => n = 1
    BY <1>1
  <2> QED
    BY <2>1
<1> HIDE DEF w, t
<1>9. ASSUME NEW i \in 1 .. Len(t)
      PROVE  t[i] = w.values[Slot(w.ref, i)]
  <2>1. CASE i = 1
    BY <1>2, <1>5, <1>6, <2>1
  <2>2. CASE i # 1
    <3>1. t[i] = s[i - 1] /\ i - 1 \in 1 .. Len(s)
      BY <1>2, <2>2
    <3>2. s[i - 1] = v.values[Slot(v.ref, i - 1)]
      BY <3>1 DEF Holds
    <3> QED
      BY <1>2, <1>5, <1>7, <1>8, <2>2, <3>1, <3>2
  <2> QED
    BY <2>1, <2>2
<1>10. w.count = Length \/ w.ref = w.count
  <2>1. /\ v.count = Len(s) /\ Len(s) \in Nat /\ Len(s) <= Length
        /\ v.count = Length \/ v.ref = v.count
    BY <1>1 DEF Holds
  <2> QED
    BY <1>1, <1>3, <1>4, <2>1
<1>11. Holds(w, t)
  BY <1>2, <1>3, <1>9, <1>10 DEF Holds
<1> QED
  BY <1>11 DEF w, t

(* What GetLastValues reads: the slots below the write position, and nothing   *)
(* of the rest, since its second loop begins at the number of names.            *)
LEMMA LastValues ==
  ASSUME NEW v \in Vectors(Samples)
  PROVE  LET n == IF v.values = <<>> THEN 0 ELSE v.ref
         IN  GetLastValues(v) = [i \in 1 .. n |-> v.values[v.ref - i + 1]]
<1>1. /\ v.ref \in 0 .. (Length - 1) /\ Length \in Nat \ {0}
      /\ v.values = <<>> \/ v.values \in [1 .. Length -> Samples]
  BY LengthAssumption DEF Vectors
<1>2. Len(v.values) = IF v.values = <<>> THEN 0 ELSE Length
  <2>1. v.values \in [1 .. Length -> Samples] => Len(v.values) = Length /\ v.values # <<>>
    BY <1>1
  <2> QED
    BY <1>1, <2>1
<1> DEFINE n == IF v.values = <<>> THEN 0 ELSE v.ref
           f == [i \in 1 .. n |-> v.values[v.ref - i + 1]]
<1>3. Downward(v, v.ref - 1, 0) = f
  <2>1. CASE v.values = <<>>
    <3>1. Downward(v, v.ref - 1, 0) = [i \in 1 .. 0 |-> v.values[(-1) - i + 2]]
      <4>1. (IF v.ref - 1 < Len(v.values) THEN v.ref - 1 ELSE Len(v.values) - 1) = -1
        BY <1>1, <1>2, <2>1
      <4> QED
        BY <4>1 DEF Downward
    <3> QED
      BY <2>1, <3>1
  <2>2. CASE v.values # <<>>
    <3>1. v.ref - 1 < Len(v.values) /\ (v.ref - 1) - 0 + 1 = v.ref
      BY <1>1, <1>2, <2>2
    <3>2. Downward(v, v.ref - 1, 0) = [i \in 1 .. v.ref |-> v.values[(v.ref - 1) - i + 2]]
      BY <3>1 DEF Downward
    <3>3. \A i \in 1 .. v.ref : (v.ref - 1) - i + 2 = v.ref - i + 1
      BY <1>1
    <3> QED
      BY <2>2, <3>2, <3>3
  <2> QED
    BY <2>1, <2>2
<1>4. Downward(v, Rings(v) - 1, v.ref + 1) = <<>>
  <2> DEFINE top == IF Rings(v) - 1 < Len(v.values) THEN Rings(v) - 1 ELSE Len(v.values) - 1
  <2>1. top \in {-1, 0}
    BY <1>1, <1>2 DEF Rings
  <2>2. Downward(v, Rings(v) - 1, v.ref + 1)
          = [i \in 1 .. (top - (v.ref + 1) + 1) |-> v.values[top - i + 2]]
    BY DEF Downward
  <2> HIDE DEF top
  <2>3. 1 .. (top - (v.ref + 1) + 1) = 1 .. 0
    BY <1>1, <2>1
  <2> DEFINE g == [i \in 1 .. 0 |-> v.values[top - i + 2]]
  <2>4. Downward(v, Rings(v) - 1, v.ref + 1) = g
    BY <2>2, <2>3
  <2>5. g \in [1 .. 0 -> Samples]
    OBVIOUS
  <2> HIDE DEF g
  <2>6. g \in Seq(Samples) /\ Len(g) = 0
    BY <2>5
  <2> QED
    BY <2>4, <2>6, EmptySeq
<1>5. f \in Seq(Samples)
  <2>1. \A i \in 1 .. n : v.values[v.ref - i + 1] \in Samples
    BY <1>1
  <2>2. n \in Nat
    BY <1>1
  <2> HIDE DEF n
  <2>3. f \in [1 .. n -> Samples]
    BY <2>1
  <2> HIDE DEF f
  <2> QED
    BY <2>2, <2>3
<1> HIDE DEF f
<1>6. GetLastValues(v) = f \o <<>>
  BY <1>3, <1>4 DEF GetLastValues
<1>7. f \o <<>> = f
  BY <1>5, ConcatEmptySeq
<1> QED
  BY <1>6, <1>7 DEF f

(* They are the latest samples. *)
LEMMA LastValuesLatest ==
  ASSUME NEW v \in Vectors(Samples), NEW s \in Seq(Samples), Holds(v, s)
  PROVE  IsPrefix(GetLastValues(v), s)
<1> DEFINE n == IF v.values = <<>> THEN 0 ELSE v.ref
           f == GetLastValues(v)
<1>1. /\ v.ref \in 0 .. (Length - 1) /\ Length \in Nat \ {0} /\ v.count \in 0 .. Length
      /\ v.values = <<>> \/ v.values \in [1 .. Length -> Samples]
  BY LengthAssumption DEF Vectors
<1>2. f = [i \in 1 .. n |-> v.values[v.ref - i + 1]]
  BY LastValues
<1>3. n \in Nat /\ n <= Len(s) /\ n <= v.ref
  BY <1>1 DEF Holds
<1>4. \A i \in 1 .. n : v.values[v.ref - i + 1] = s[i]
  <2> SUFFICES ASSUME NEW i \in 1 .. n PROVE v.values[v.ref - i + 1] = s[i]
    OBVIOUS
  <2>1. i \in 1 .. Len(s) /\ i <= v.ref /\ i \in Nat
    BY <1>3
  <2>2. s[i] = v.values[Slot(v.ref, i)] /\ Slot(v.ref, i) = v.ref - i + 1
    BY <2>1 DEF Holds, Slot
  <2> QED
    BY <2>2
<1> HIDE DEF f, n
<1>5. f \in Seq(Samples) /\ Len(f) = n /\ \A i \in 1 .. n : f[i] = s[i]
  <2>1. \A i \in 1 .. n : s[i] \in Samples
    BY <1>3
  <2>2. f \in [1 .. n -> Samples] /\ \A i \in 1 .. n : f[i] = s[i]
    BY <1>2, <1>4, <2>1
  <2> QED
    BY <1>3, <2>2
<1>6. SubSeq(f, 1, n) = SubSeq(s, 1, n)
  <2>1. /\ SubSeq(f, 1, n) \in Seq(Samples) /\ Len(SubSeq(f, 1, n)) = n
        /\ \A i \in 1 .. n : SubSeq(f, 1, n)[i] = f[i]
    BY <1>3, <1>5, SubSeqProperties
  <2>2. /\ SubSeq(s, 1, n) \in Seq(Samples) /\ Len(SubSeq(s, 1, n)) = n
        /\ \A i \in 1 .. n : SubSeq(s, 1, n)[i] = s[i]
    BY <1>3, SubSeqProperties
  <2> QED
    BY <1>5, <2>1, <2>2, SeqEqual
<1>7. IsPrefix(f, s)
  BY <1>3, <1>5, <1>6 DEF IsPrefix
<1> QED
  BY <1>7 DEF f

-----------------------------------------------------------------------------
(* Theorems *)

(* The store, the rings, the worker and the requests keep their types; in     *)
(* particular the position a ring is written at stays inside it (metrics.go:  *)
(* 61-78), and only names of j.values are remembered, only remembered names    *)
(* charted.                                                                  *)
THEOREM TypeCorrect == Spec => []TypeOK
<1>1. IInv => TypeOK
  BY TypesHold DEF IInv
<1> QED
  BY <1>1, Invariance, PTL

(* For any counters, requests, ring length and number of pushes: a chart is   *)
(* in order, and never ahead of the counter, however the worker's samples     *)
(* fall between the steps of the pushes (metrics.go:218-275, 277-352).        *)
THEOREM ChartsOrdered == Spec => []ChartsInOrder
<1>1. IInv => ChartsInOrder
  BY DEF IInv, Typed, TypeOK, SliceInv, RecentInv, ChartsInOrder, Sampled
<1> QED
  BY <1>1, Invariance, PTL

(* Once every counter has been sampled no map is written that another         *)
(* goroutine walks: whatever follows, the process is not ended (metrics.go:    *)
(* 218-275, 277-352, 375-425).                                                *)
THEOREM CrashesEnd == Spec => CrashesOnlyWarmingUp
<1>1. ASSUME IInv, Next, \A k \in Names : Sampled(k)
      PROVE  ~crashed'
  <2>1. \A k \in Names : /\ k \in charted /\ k \in prev /\ k \in made
                         /\ values[k] # <<>> /\ vectors[k].values # <<>>
    BY <1>1 DEF IInv, Typed, TypeOK, SliceInv, RecentInv, Sampled
  <2>2. CASE Pushing
    BY <1>1, <2>1, <2>2 DEF Next, Pushing, BeginPush, MakeSlice, StoreValue
  <2>3. CASE Working
    <3>1. ~Chart
      BY <1>1, <2>1 DEF Chart, IInv, WorkerInv, Typed, TypeOK
    <3>2. CASE Sample
      BY <1>1, <2>1, <3>2 DEF Sample, MayCrash, IInv, WorkerInv, Typed, TypeOK
    <3>3. CASE Tick \/ EndWalk \/ \E k \in Names : Visit(k)
      BY <1>1, <2>1, <3>3 DEF Next, Tick, EndWalk, Visit
    <3> QED
      BY <2>3, <3>1, <3>2, <3>3 DEF Working
  <2>4. CASE \E r \in Readers : Serving(r)
    BY <1>1, <2>4 DEF Next, Serving, BeginRead, ReadVector, EndRead, store
  <2> QED
    BY <1>1, <2>2, <2>3, <2>4 DEF Next
<1>2. IInv /\ [Next]_vars => [(\A k \in Names : Sampled(k)) => ~crashed']_vars
  BY <1>1
<1> QED
  BY <1>2, Invariance, PTL DEF Spec, CrashesOnlyWarmingUp

(* For any length: a ring holds the latest samples, in the slots that reading  *)
(* backwards from its write position reaches first, before and after it wraps  *)
(* (metrics.go:61-78).                                                        *)
THEOREM RingsHold == Spec => []RingHolds
<1>1. Init => RingHolds
  BY DEF Init, RingHolds, Holds, NewMetricsVector
<1>2. IInv /\ RingHolds /\ [Next]_vars => RingHolds'
  <2> SUFFICES ASSUME IInv, RingHolds, [Next]_vars PROVE RingHolds'
    OBVIOUS
  <2>1. CASE Sample
    <3> DEFINE n == worker.name
    <3>1. /\ n \in Names /\ worker.value \in Samples /\ vectors[n] \in Vectors(Samples)
          /\ recent[n] \in Seq(Samples) /\ Len(recent[n]) <= Length
          /\ vectors[n].values = <<>> => recent[n] = <<>>
          /\ Holds(vectors[n], recent[n])
      BY <2>1 DEF Sample, IInv, Typed, WorkerInv, RecentInv, RingHolds
    <3>2. /\ recent' = [recent EXCEPT ![n] = Latest(worker.value, recent[n])]
          /\ vectors' = [vectors EXCEPT ![n] = PushValue(vectors[n], worker.value)]
      BY <2>1 DEF Sample, Latest
    <3>3. DOMAIN recent = Names /\ DOMAIN vectors = Names
      BY DEF IInv, Typed
    <3> HIDE DEF n
    <3>4. Holds(PushValue(vectors[n], worker.value), Latest(worker.value, recent[n]))
      BY <3>1, PushHolds
    <3> QED
      BY <3>1, <3>2, <3>3, <3>4 DEF RingHolds
  <2>2. CASE UNCHANGED <<vectors, recent>>
    BY <2>2 DEF RingHolds, Holds
  <2> QED
    BY <2>1, <2>2 DEF Next, Pushing, Working, Serving, BeginPush, MakeSlice, StoreValue,
       Tick, EndWalk, Visit, Chart, BeginRead, ReadVector, EndRead, store, vars
<1> QED
  BY <1>1, <1>2, Invariance, PTL DEF Spec

(* What a request averages is recent, for any length of the rings: the values   *)
(* read from a vector are the latest samples, newest first, before and after    *)
(* the ring wraps (metrics.go:61-78, 95-110).                                  *)
THEOREM LatestAreRead == Spec => []ReadsAreLatest
<1>1. IInv /\ RingHolds => ReadsAreLatest
  BY LastValuesLatest DEF IInv, Typed, RingHolds, ReadsAreLatest
<1> QED
  BY <1>1, Invariance, RingsHold, PTL

=============================================================================
