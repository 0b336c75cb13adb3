------------------------------ MODULE XdpProofs ------------------------------
(***************************************************************************)
(* Theorems about XdpProgram, for every set of CPUs, prefixes, sources and  *)
(* frames and for every bound.                                              *)
(***************************************************************************)
EXTENDS XdpProgram, FiniteSetTheorems, FunctionTheorems, WellFoundedInduction, TLAPS

-----------------------------------------------------------------------------
(* Type correctness *)

SeenType == [allowed : SUBSET BOOLEAN, blocked : SUBSET BOOLEAN, dryrun : SUBSET BOOLEAN]

(* What is true of a frame at one moment is a record of sets of Booleans. *)
LEMMA NowType ==
  ASSUME dryrun \in BOOLEAN, NEW c \in Cpus
  PROVE  Now(c) \in SeenType
<1>1. Matches(allowlist, frame[c]) \in BOOLEAN /\ Matches(blocklist, frame[c]) \in BOOLEAN
  BY Zenon DEF Matches
<1> QED
  BY <1>1 DEF Now, SeenType

(* The history keeps its type whatever the program and user space do. *)
LEMMA ObserveType ==
  ASSUME seen \in [Cpus -> SeenType], dryrun' \in BOOLEAN, Observe
  PROVE  seen' \in [Cpus -> SeenType]
<1>1. ASSUME NEW c \in Cpus PROVE Now(c)' \in SeenType
  <2>1. (Matches(allowlist, frame[c]) \in BOOLEAN)' /\ (Matches(blocklist, frame[c]) \in BOOLEAN)'
    BY Zenon DEF Matches
  <2> QED
    BY <2>1 DEF Now, SeenType
<1>2. ASSUME NEW c \in Cpus PROVE Both(seen[c], Now(c)') \in SeenType
  BY <1>1 DEF Both, SeenType
<1> QED
  BY <1>1, <1>2 DEF Observe

(* Incrementing an element of a counter array leaves an array of counters. *)
LEMMA IncrementType ==
  ASSUME NEW S, NEW a \in [S -> Nat], NEW i
  PROVE  [a EXCEPT ![i] = @ + 1] \in [S -> Nat]
<1>1. CASE i \in S
  <2>1. a[i] + 1 \in Nat
    BY <1>1
  <2> QED
    BY <2>1
<1>2. CASE i \notin S
  BY <1>2
<1> QED
  BY <1>1, <1>2

(* The counting helpers keep the types of the counters whatever slot or      *)
(* length they are given.                                                    *)
LEMMA CounterTypes ==
  ASSUME stats \in [Cpus -> [StatSlots -> Nat]],
         metrics \in [MetricSlots -> Nat],
         perf \in [0 .. (PerfSlots - 1) -> Nat]
  PROVE  /\ \A c \in Cpus : \A s : StatInc(c, s) => stats' \in [Cpus -> [StatSlots -> Nat]]
         /\ \A s : MetricInc(s) => metrics' \in [MetricSlots -> Nat]
         /\ \A n : PerfObserve(n) => perf' \in [0 .. (PerfSlots - 1) -> Nat]
<1>1. ASSUME NEW c \in Cpus, NEW s, StatInc(c, s) PROVE stats' \in [Cpus -> [StatSlots -> Nat]]
  <2>1. [stats[c] EXCEPT ![s] = @ + 1] \in [StatSlots -> Nat]
    BY IncrementType
  <2> QED
    BY <1>1, <2>1 DEF StatInc
<1>2. ASSUME NEW s, MetricInc(s) PROVE metrics' \in [MetricSlots -> Nat]
  BY <1>2, IncrementType DEF MetricInc
<1>3. ASSUME NEW n, PerfObserve(n) PROVE perf' \in [0 .. (PerfSlots - 1) -> Nat]
  BY <1>3, IncrementType DEF PerfObserve
<1> QED
  BY <1>1, <1>2, <1>3

(* A step of the program on one CPU keeps every type but that of the history. *)
LEMMA ProgramTypes ==
  ASSUME TypeOK, NEW c \in Cpus, Program(c),
         dryrun' = dryrun => seen' \in [Cpus -> SeenType]
  PROVE  TypeOK'
<1>1. dryrun' = dryrun
  BY DEF Program, Receive, CountRx, ObservePerf, LookupAllow, CountAllowHit,
         LookupBlock, CountMatch, ReadDryrun, Drop, Pass, maps
<1>2. seen' \in [Cpus -> SeenType]
  BY <1>1
<1>3. \A from, to \in Steps : Goto(c, from, to) => pc' \in [Cpus -> Steps]
  BY DEF Goto, TypeOK
<1> USE <1>2, <1>3, CounterTypes DEF TypeOK, SeenType, Steps, Return, maps, counters
<1>4. ASSUME NEW f \in Frames, Receive(c, f) PROVE TypeOK'
  <2>1. left' \in [frames : 0 .. MaxFrames, updates : 0 .. MaxUpdates]
    <3>1. left.frames - 1 \in 0 .. MaxFrames
      BY <1>4, BoundsAssumption DEF Receive
    <3> QED
      BY <1>4, <3>1 DEF Receive
  <2> QED
    BY <1>4, <2>1 DEF Receive
<1>5. CASE CountRx(c)
  BY <1>5 DEF CountRx
<1>6. CASE ObservePerf(c)
  BY <1>6 DEF ObservePerf
<1>7. CASE LookupAllow(c)
  BY <1>7 DEF LookupAllow
<1>8. CASE CountAllowHit(c)
  BY <1>8 DEF CountAllowHit
<1>9. CASE LookupBlock(c)
  BY <1>9 DEF LookupBlock
<1>10. CASE CountMatch(c)
  BY <1>10 DEF CountMatch
<1>11. CASE ReadDryrun(c)
  BY <1>11 DEF ReadDryrun
<1>12. CASE Drop(c)
  BY <1>12 DEF Drop
<1>13. CASE Pass(c)
  BY <1>13 DEF Pass
<1> QED
  BY <1>4, <1>5, <1>6, <1>7, <1>8, <1>9, <1>10, <1>11, <1>12, <1>13 DEF Program

(* So does a system call of user space.                                       *)
LEMMA AdministratorTypes ==
  ASSUME TypeOK, Administrator,
         dryrun' \in BOOLEAN => seen' \in [Cpus -> SeenType]
  PROVE  TypeOK'
<1>1. ASSUME Update PROVE left' \in [frames : 0 .. MaxFrames, updates : 0 .. MaxUpdates]
  <2>1. left.updates - 1 \in 0 .. MaxUpdates
    BY <1>1, BoundsAssumption DEF Update, TypeOK
  <2> QED
    BY <1>1, <2>1 DEF Update, TypeOK
<1>2. /\ dryrun' \in BOOLEAN
      /\ allowlist' \in [Families -> SUBSET Prefixes]
      /\ blocklist' \in [Families -> SUBSET Prefixes]
  <2>1. ASSUME NEW list \in [Families -> SUBSET Prefixes], NEW f \in Families, NEW p \in Prefixes
        PROVE  /\ Add(list, f, p) \in [Families -> SUBSET Prefixes]
               /\ Del(list, f, p) \in [Families -> SUBSET Prefixes]
    BY DEF Add, Del
  <2>2. ASSUME NEW f \in Families, NEW p \in Prefixes, UpdateAllowlist(f, p)
        PROVE  allowlist' \in [Families -> SUBSET Prefixes] /\ UNCHANGED <<blocklist, dryrun>>
    <3>1. allowlist' = Add(allowlist, f, p) \/ allowlist' = Del(allowlist, f, p)
      BY <2>2, Zenon DEF UpdateAllowlist
    <3>2. allowlist \in [Families -> SUBSET Prefixes]
      BY DEF TypeOK
    <3>3. /\ Add(allowlist, f, p) \in [Families -> SUBSET Prefixes]
          /\ Del(allowlist, f, p) \in [Families -> SUBSET Prefixes]
      BY <2>1, <3>2
    <3> QED
      BY <2>2, <3>1, <3>3, Zenon DEF UpdateAllowlist
  <2>3. ASSUME NEW f \in Families, NEW p \in Prefixes, UpdateBlocklist(f, p)
        PROVE  blocklist' \in [Families -> SUBSET Prefixes] /\ UNCHANGED <<allowlist, dryrun>>
    <3>1. blocklist' = Add(blocklist, f, p) \/ blocklist' = Del(blocklist, f, p)
      BY <2>3, Zenon DEF UpdateBlocklist
    <3>2. blocklist \in [Families -> SUBSET Prefixes]
      BY DEF TypeOK
    <3>3. /\ Add(blocklist, f, p) \in [Families -> SUBSET Prefixes]
          /\ Del(blocklist, f, p) \in [Families -> SUBSET Prefixes]
      BY <2>1, <3>2
    <3> QED
      BY <2>3, <3>1, <3>3, Zenon DEF UpdateBlocklist
  <2>4. ASSUME NEW on \in BOOLEAN, SetDryrun(on)
        PROVE  dryrun' \in BOOLEAN /\ UNCHANGED <<allowlist, blocklist>>
    BY <2>4 DEF SetDryrun
  <2> QED
    BY <2>2, <2>3, <2>4, PrefixesAssumption DEF Administrator, TypeOK
<1>3. seen' \in [Cpus -> SeenType]
  BY <1>2
<1>4. Update
  BY DEF Administrator, UpdateAllowlist, UpdateBlocklist, SetDryrun
<1> QED
  BY <1>1, <1>2, <1>3, <1>4 DEF TypeOK, SeenType, Update, counters

LEMMA InitialTypes == Init => TypeOK
BY FramesAssumption, OptionsAssumption, BoundsAssumption
DEF Init, TypeOK, Lists, Families, Steps, StatSlots, MetricSlots

(* The state of the data plane keeps its type: in particular every counter  *)
(* stays a natural number and every map a set of prefixes.                  *)
THEOREM TypeCorrect == Spec => []TypeOK
<1>1. TypeOK /\ [Next]_vars => TypeOK'
  <2> SUFFICES ASSUME TypeOK, [Next]_vars PROVE TypeOK'
    OBVIOUS
  <2>1. CASE UNCHANGED vars
    BY <2>1 DEF vars, maps, counters, TypeOK
  <2>2. ASSUME Observe, dryrun' \in BOOLEAN PROVE seen' \in [Cpus -> SeenType]
    BY <2>2, ObserveType DEF TypeOK, SeenType
  <2>3. ASSUME NEW c \in Cpus, Program(c), Observe PROVE TypeOK'
    <3>1. dryrun \in BOOLEAN
      BY DEF TypeOK
    <3> QED
      BY <2>2, <2>3, <3>1, ProgramTypes
  <2>4. CASE Administrator /\ Observe
    BY <2>2, <2>4, AdministratorTypes
  <2> QED
    BY <2>1, <2>3, <2>4 DEF Next
<1> QED
  BY <1>1, InitialTypes, PTL DEF Spec

-----------------------------------------------------------------------------
(* Every verdict is justified by what the maps held while the program ran   *)

(* What a step of the program knows.  The history holds the present state    *)
(* of the maps as long as the program runs; at each step it also holds the   *)
(* answers of the lookups that led there, although the maps may have         *)
(* changed since; and the verdict returned is one it still allows.           *)
Recorded(c) ==
  /\ Matches(allowlist, frame[c]) \in seen[c].allowed
  /\ Matches(blocklist, frame[c]) \in seen[c].blocked
  /\ dryrun \in seen[c].dryrun

DecisionAt(c) ==
  /\ pc[c] # "idle" => Recorded(c)
  /\ pc[c] \in {"block", "match", "dryrun", "drop"} => FALSE \in seen[c].allowed
  /\ pc[c] \in {"match", "dryrun", "drop"} => TRUE \in seen[c].blocked
  /\ pc[c] = "allow_hit" => TRUE \in seen[c].allowed
  /\ pc[c] = "drop" => Droppable(c)
  /\ pc[c] = "pass" => Passable(c)
  /\ pc[c] = "idle" /\ verdict[c] = "drop" => Droppable(c)
  /\ pc[c] = "idle" /\ verdict[c] = "pass" => Passable(c)

DecisionInv == \A c \in Cpus : DecisionAt(c)

(* While the program runs on a CPU, its history records the maps after every *)
(* step of the system and forgets nothing it had recorded.                   *)
LEMMA ObserveRecords ==
  ASSUME TypeOK, Observe, NEW c \in Cpus
  PROVE  /\ pc'[c] # "idle" => Recorded(c)'
         /\ pc[c] # "idle" => /\ seen[c].allowed \subseteq seen'[c].allowed
                              /\ seen[c].blocked \subseteq seen'[c].blocked
                              /\ seen[c].dryrun \subseteq seen'[c].dryrun
         /\ pc'[c] = "idle" => seen'[c] = seen[c]
<1>1. seen'[c] = IF pc'[c] = "idle" THEN seen[c]
                 ELSE IF pc[c] = "idle" THEN Now(c)' ELSE Both(seen[c], Now(c)')
  BY DEF Observe
<1>2. /\ (Matches(allowlist, frame[c]))' \in (Now(c)').allowed
      /\ (Matches(blocklist, frame[c]))' \in (Now(c)').blocked
      /\ dryrun' \in (Now(c)').dryrun
  BY DEF Now
<1>3. /\ \A x : x \in (Now(c)').allowed => x \in Both(seen[c], Now(c)').allowed
      /\ \A x : x \in (Now(c)').blocked => x \in Both(seen[c], Now(c)').blocked
      /\ \A x : x \in (Now(c)').dryrun => x \in Both(seen[c], Now(c)').dryrun
      /\ seen[c].allowed \subseteq Both(seen[c], Now(c)').allowed
      /\ seen[c].blocked \subseteq Both(seen[c], Now(c)').blocked
      /\ seen[c].dryrun \subseteq Both(seen[c], Now(c)').dryrun
  BY DEF Both
<1>4. pc'[c] # "idle" => Recorded(c)'
  BY <1>1, <1>2, <1>3 DEF Recorded
<1> QED
  BY <1>1, <1>3, <1>4

(* What a CPU knows survives every step it does not take itself.             *)
LEMMA OthersKeepDecision ==
  ASSUME TypeOK, Observe, NEW c \in Cpus, DecisionAt(c),
         pc'[c] = pc[c], frame'[c] = frame[c], verdict'[c] = verdict[c], options' = options
  PROVE  DecisionAt(c)'
<1>1. Family(frame[c])' = Family(frame[c])
  BY DEF Family
<1>2. pc'[c] # "idle" => Recorded(c)'
  BY ObserveRecords
<1>3. CASE pc[c] = "idle"
  <2>1. seen'[c] = seen[c]
    BY <1>3, ObserveRecords
  <2> QED
    BY <1>1, <1>3, <2>1 DEF DecisionAt, Droppable, Passable
<1>4. CASE pc[c] # "idle"
  <2>1. /\ seen[c].allowed \subseteq seen'[c].allowed
        /\ seen[c].blocked \subseteq seen'[c].blocked
        /\ seen[c].dryrun \subseteq seen'[c].dryrun
    BY <1>4, ObserveRecords
  <2> QED
    BY <1>1, <1>2, <1>4, <2>1 DEF DecisionAt, Droppable, Passable
<1> QED
  BY <1>3, <1>4

(* A step of the program records what the lookup it makes has answered.      *)
LEMMA OwnStepDecides ==
  ASSUME TypeOK, DecisionInv, Observe, NEW c \in Cpus, Program(c)
  PROVE  DecisionAt(c)'
<1> USE DEF Goto, Return, maps, counters
<1>1. /\ pc'[c] # "idle" => Recorded(c)'
      /\ pc[c] # "idle" => /\ seen[c].allowed \subseteq seen'[c].allowed
                           /\ seen[c].blocked \subseteq seen'[c].blocked
                           /\ seen[c].dryrun \subseteq seen'[c].dryrun
      /\ pc'[c] = "idle" => seen'[c] = seen[c]
  BY ObserveRecords
<1>2. DecisionAt(c) /\ c \in DOMAIN pc /\ c \in DOMAIN verdict /\ c \in DOMAIN frame
  BY DEF DecisionInv, TypeOK
<1>3. ASSUME NEW f \in Frames, Receive(c, f) PROVE DecisionAt(c)'
  BY <1>1, <1>2, <1>3 DEF Receive, DecisionAt
<1>4. CASE CountRx(c)
  BY <1>1, <1>2, <1>4 DEF CountRx, DecisionAt
<1>5. CASE ObservePerf(c)
  <2>1. Family(frame[c])' = Family(frame[c])
    BY <1>5 DEF ObservePerf, Family
  <2> QED
    BY <1>1, <1>2, <1>5, <2>1 DEF ObservePerf, DecisionAt, Passable
<1>6. CASE LookupAllow(c)
  <2>1. Matches(allowlist, frame[c]) \in seen[c].allowed
    BY <1>2, <1>6 DEF LookupAllow, DecisionAt, Recorded
  <2>2. CASE Matches(allowlist, frame[c])
    <3>1. TRUE \in seen[c].allowed
      BY <2>1, <2>2
    <3> QED
      BY <1>1, <1>2, <1>6, <2>2, <3>1 DEF LookupAllow, DecisionAt
  <2>3. CASE ~Matches(allowlist, frame[c])
    <3>1. FALSE \in seen[c].allowed
      <4>1. Matches(allowlist, frame[c]) = FALSE
        BY <2>3 DEF Matches
      <4> QED
        BY <2>1, <4>1
    <3> QED
      BY <1>1, <1>2, <1>6, <2>3, <3>1 DEF LookupAllow, DecisionAt
  <2> QED
    BY <2>2, <2>3
<1>7. CASE CountAllowHit(c)
  BY <1>1, <1>2, <1>7 DEF CountAllowHit, DecisionAt, Passable
<1>8. CASE LookupBlock(c)
  <2>1. Matches(blocklist, frame[c]) \in seen[c].blocked /\ FALSE \in seen[c].allowed
    BY <1>2, <1>8 DEF LookupBlock, DecisionAt, Recorded
  <2>2. CASE Matches(blocklist, frame[c])
    <3>1. TRUE \in seen[c].blocked
      BY <2>1, <2>2
    <3> QED
      BY <1>1, <1>2, <1>8, <2>1, <2>2, <3>1 DEF LookupBlock, DecisionAt
  <2>3. CASE ~Matches(blocklist, frame[c])
    <3>1. FALSE \in seen[c].blocked
      <4>1. Matches(blocklist, frame[c]) = FALSE
        BY <2>3 DEF Matches
      <4> QED
        BY <2>1, <4>1
    <3> QED
      BY <1>1, <1>2, <1>8, <2>3, <3>1 DEF LookupBlock, DecisionAt, Passable
  <2> QED
    BY <2>2, <2>3
<1>9. CASE CountMatch(c)
  BY <1>1, <1>2, <1>9 DEF CountMatch, DecisionAt
<1>10. CASE ReadDryrun(c)
  <2>1. /\ dryrun \in seen[c].dryrun /\ dryrun \in BOOLEAN
        /\ FALSE \in seen[c].allowed /\ TRUE \in seen[c].blocked
    BY <1>2, <1>10 DEF ReadDryrun, DecisionAt, Recorded, TypeOK
  <2>2. CASE RuntimeDryrun
    <3>1. TRUE \in seen[c].dryrun \/ options.dryrun
      BY <2>1, <2>2 DEF RuntimeDryrun
    <3> QED
      BY <1>1, <1>2, <1>10, <2>2, <3>1 DEF ReadDryrun, DecisionAt, Passable
  <2>3. CASE ~RuntimeDryrun
    <3>1. FALSE \in seen[c].dryrun /\ ~options.dryrun
      BY <2>1, <2>3 DEF RuntimeDryrun
    <3> QED
      BY <1>1, <1>2, <1>10, <2>1, <2>3, <3>1 DEF ReadDryrun, DecisionAt, Droppable
  <2> QED
    BY <2>2, <2>3
<1>11. CASE Drop(c)
  BY <1>1, <1>2, <1>11 DEF Drop, DecisionAt, Droppable
<1>12. CASE Pass(c)
  <2>1. Family(frame[c])' = Family(frame[c])
    BY <1>12 DEF Pass, Family
  <2> QED
    BY <1>1, <1>2, <1>12, <2>1 DEF Pass, DecisionAt, Passable
<1> QED
  BY <1>3, <1>4, <1>5, <1>6, <1>7, <1>8, <1>9, <1>10, <1>11, <1>12 DEF Program

(* The step of one CPU leaves the program, the frame and the verdict of the  *)
(* others alone, and user space leaves those of all of them.                 *)
LEMMA StepsAreLocal ==
  ASSUME TypeOK, NEW c \in Cpus
  PROVE  /\ \A d \in Cpus \ {c} : Program(d) =>
              pc'[c] = pc[c] /\ frame'[c] = frame[c] /\ verdict'[c] = verdict[c]
         /\ \A d \in Cpus : Program(d) => options' = options
         /\ Administrator => UNCHANGED <<pc, frame, verdict, options>>
<1> USE DEF Goto, Return
<1>1. ASSUME NEW d \in Cpus \ {c}, Program(d)
      PROVE  pc'[c] = pc[c] /\ frame'[c] = frame[c] /\ verdict'[c] = verdict[c]
  BY <1>1 DEF TypeOK, Program, Receive, CountRx, ObservePerf, LookupAllow, CountAllowHit,
              LookupBlock, CountMatch, ReadDryrun, Drop, Pass
<1>2. ASSUME NEW d \in Cpus, Program(d) PROVE options' = options
  BY <1>2 DEF Program, Receive, CountRx, ObservePerf, LookupAllow, CountAllowHit,
              LookupBlock, CountMatch, ReadDryrun, Drop, Pass
<1>3. ASSUME Administrator PROVE UNCHANGED <<pc, frame, verdict, options>>
  BY <1>3, Zenon DEF Administrator, UpdateAllowlist, UpdateBlocklist, SetDryrun, Update
<1> QED
  BY <1>1, <1>2, <1>3

(* The verdicts of the program are justified: for every set of CPUs, frames  *)
(* and prefixes and every interleaving with user space, no frame is dropped  *)
(* or passed that the maps did not, read one after the other while the       *)
(* program ran, give it (bpf/xdpfw.bpf.c:180-190, 202-213).                  *)
THEOREM VerdictsJustified == Spec => [](DropJustified /\ PassJustified)
<1>1. Init => DecisionInv
  BY DEF Init, DecisionInv, DecisionAt
<1>2. TypeOK /\ DecisionInv /\ [Next]_vars => DecisionInv'
  <2> SUFFICES ASSUME TypeOK, DecisionInv, [Next]_vars, NEW c \in Cpus
               PROVE  DecisionAt(c)'
    BY DEF DecisionInv
  <2>1. DecisionAt(c)
    BY DEF DecisionInv
  <2>2. CASE UNCHANGED vars
    <3>1. UNCHANGED <<options, allowlist, blocklist, dryrun, pc, frame, verdict, seen>>
      BY <2>2 DEF vars, maps
    <3> QED
      BY <2>1, <3>1 DEF DecisionAt, Recorded, Droppable, Passable, Matches, Family
  <2>3. CASE Program(c) /\ Observe
    BY <2>3, OwnStepDecides
  <2>4. ASSUME NEW d \in Cpus \ {c}, Program(d), Observe PROVE DecisionAt(c)'
    BY <2>1, <2>4, StepsAreLocal, OthersKeepDecision
  <2>5. CASE Administrator /\ Observe
    BY <2>1, <2>5, StepsAreLocal, OthersKeepDecision
  <2> QED
    BY <2>2, <2>3, <2>4, <2>5 DEF Next
<1>3. DecisionInv => DropJustified /\ PassJustified
  BY DEF DecisionInv, DecisionAt, DropJustified, PassJustified, Returned
<1> QED
  BY <1>1, <1>2, <1>3, TypeCorrect, PTL DEF Spec

(* In particular, a frame is passed only if it could be: what an enforcing    *)
(* program received after a block was answered, and while it stays, it drops  *)
(* (bpf/xdpfw.bpf.c:184-190, 202-213).                                       *)
THEOREM PassesJustified == Spec => []PassJustified
<1>1. DropJustified /\ PassJustified => PassJustified
  OBVIOUS
<1> QED
  BY <1>1, VerdictsJustified, PTL

-----------------------------------------------------------------------------
(* The per-CPU statistics are a ledger of the verdicts *)

(* StatsLedger is not inductive: a drop is counted as a match some steps     *)
(* before it happens, in a slot that exists only for an IP frame.            *)
LedgerAt(c) ==
  /\ stats[c].total = stats[c].passed + drops[c] + InFlight(c)
  /\ drops[c] <= stats[c].v4_match + stats[c].v6_match
  /\ pc[c] \in {"dryrun", "drop"} => drops[c] < stats[c].v4_match + stats[c].v6_match
  /\ pc[c] \in {"allow", "block", "match"} => Family(frame[c]) \in Families

LedgerInv == \A c \in Cpus : LedgerAt(c)

(* The effect of stat_inc on the four slots of a CPU. *)
LEMMA StatIncEffect ==
  ASSUME TypeOK, NEW c \in Cpus, NEW s \in StatSlots, StatInc(c, s)
  PROVE  /\ stats'[c][s] = stats[c][s] + 1
         /\ \A t \in StatSlots \ {s} : stats'[c][t] = stats[c][t]
         /\ \A d \in Cpus \ {c} : stats'[d] = stats[d]
  BY DEF StatInc, TypeOK

(* The ledger of the CPU whose program moves. *)
LEMMA OwnLedger ==
  ASSUME TypeOK, LedgerInv, NEW c \in Cpus, Program(c)
  PROVE  LedgerAt(c)'
<1> USE DEF Goto, Return, maps, counters, InFlight
<1>1. LedgerAt(c)
  BY DEF LedgerInv
<1>2. /\ stats[c].total \in Nat /\ stats[c].passed \in Nat
      /\ stats[c].v4_match \in Nat /\ stats[c].v6_match \in Nat
      /\ drops[c] \in Nat /\ c \in DOMAIN pc /\ c \in DOMAIN drops /\ c \in DOMAIN frame
  BY DEF TypeOK, StatSlots
<1>3. frame'[c] = frame[c] => Family(frame[c])' = Family(frame[c])
  BY DEF Family
<1>4. ASSUME NEW f \in Frames, Receive(c, f) PROVE LedgerAt(c)'
  <2>1. /\ stats'[c].total = stats[c].total + 1 /\ stats'[c].passed = stats[c].passed
        /\ stats'[c].v4_match = stats[c].v4_match /\ stats'[c].v6_match = stats[c].v6_match
    BY <1>4, StatIncEffect DEF Receive, StatSlots
  <2> QED
    BY <1>1, <1>2, <1>4, <2>1 DEF Receive, LedgerAt
<1>5. CASE CountRx(c)
  BY <1>1, <1>2, <1>5 DEF CountRx, LedgerAt
<1>6. CASE ObservePerf(c)
  <2>1. Family(frame[c]) = "none" \/ Family(frame[c]) \in Families
    BY DEF Family
  <2> QED
    BY <1>1, <1>2, <1>3, <1>6, <2>1 DEF ObservePerf, LedgerAt
<1>7. CASE LookupAllow(c)
  BY <1>1, <1>2, <1>3, <1>7 DEF LookupAllow, LedgerAt
<1>8. CASE CountAllowHit(c)
  BY <1>1, <1>2, <1>8 DEF CountAllowHit, LedgerAt
<1>9. CASE LookupBlock(c)
  BY <1>1, <1>2, <1>3, <1>9 DEF LookupBlock, LedgerAt
<1>10. CASE CountMatch(c)
  <2>1. MatchSlot[Family(frame[c])] \in {"v4_match", "v6_match"}
    BY <1>1, <1>10 DEF CountMatch, LedgerAt, MatchSlot, Families
  <2>2. /\ stats'[c].total = stats[c].total /\ stats'[c].passed = stats[c].passed
        /\ stats'[c].v4_match + stats'[c].v6_match
             = stats[c].v4_match + stats[c].v6_match + 1
    BY <1>2, <1>10, <2>1, StatIncEffect DEF CountMatch, StatSlots
  <2> QED
    BY <1>1, <1>2, <1>10, <2>2 DEF CountMatch, LedgerAt
<1>11. CASE ReadDryrun(c)
  BY <1>1, <1>2, <1>11 DEF ReadDryrun, LedgerAt
<1>12. CASE Drop(c)
  BY <1>1, <1>2, <1>12 DEF Drop, LedgerAt
<1>13. CASE Pass(c)
  <2>1. /\ stats'[c].total = stats[c].total /\ stats'[c].passed = stats[c].passed + 1
        /\ stats'[c].v4_match = stats[c].v4_match /\ stats'[c].v6_match = stats[c].v6_match
    BY <1>13, StatIncEffect DEF Pass, StatSlots
  <2> QED
    BY <1>1, <1>2, <1>13, <2>1 DEF Pass, LedgerAt
<1> QED
  BY <1>4, <1>5, <1>6, <1>7, <1>8, <1>9, <1>10, <1>11, <1>12, <1>13 DEF Program

(* A CPU's slots are written by that CPU alone. *)
LEMMA OthersKeepLedger ==
  ASSUME TypeOK, NEW c \in Cpus, LedgerAt(c),
         \/ \E d \in Cpus \ {c} : Program(d)
         \/ Administrator
  PROVE  LedgerAt(c)'
<1>1. pc'[c] = pc[c] /\ frame'[c] = frame[c]
  BY StepsAreLocal
<1>2. stats'[c] = stats[c] /\ drops'[c] = drops[c]
  <2>1. ASSUME NEW d \in Cpus \ {c}, Program(d)
        PROVE  stats'[c] = stats[c] /\ drops'[c] = drops[c]
    BY <2>1 DEF TypeOK, StatInc, counters, Program, Receive, CountRx, ObservePerf, LookupAllow,
                CountAllowHit, LookupBlock, CountMatch, ReadDryrun, Drop, Pass
  <2>2. ASSUME Administrator PROVE UNCHANGED <<stats, drops>>
    BY <2>2, Zenon DEF Administrator, UpdateAllowlist, UpdateBlocklist, SetDryrun, Update, counters
  <2> QED
    BY <2>1, <2>2
<1> QED
  BY <1>1, <1>2 DEF LedgerAt, InFlight, Family

(* The ledger of every CPU is an invariant. *)
LEMMA LedgerInvariance == Spec => []LedgerInv
<1>1. Init => LedgerInv
  BY DEF Init, LedgerInv, LedgerAt, InFlight, StatSlots
<1>2. TypeOK /\ LedgerInv /\ [Next]_vars => LedgerInv'
  <2> SUFFICES ASSUME TypeOK, LedgerInv, [Next]_vars, NEW c \in Cpus
               PROVE  LedgerAt(c)'
    BY DEF LedgerInv
  <2>1. LedgerAt(c)
    BY DEF LedgerInv
  <2>2. CASE UNCHANGED vars
    BY <2>1, <2>2 DEF vars, counters, LedgerAt, InFlight, Family
  <2>3. CASE Program(c)
    BY <2>3, OwnLedger
  <2>4. CASE \/ \E d \in Cpus \ {c} : Program(d)
             \/ Administrator
    BY <2>1, <2>4, OthersKeepLedger
  <2> QED
    BY <2>2, <2>3, <2>4 DEF Next
<1> QED
  BY <1>1, <1>2, TypeCorrect, PTL DEF Spec

(* Every frame a CPU counted as received it has passed, dropped or is still  *)
(* working on, and every drop was counted as a match (xdpfw_stats,           *)
(* bpf/xdpfw.bpf.c:151, 186, 208, 218).                                      *)
THEOREM StatsBalance == Spec => []StatsLedger
<1>1. LedgerInv => StatsLedger
  BY DEF LedgerInv, LedgerAt, StatsLedger
<1> QED
  BY <1>1, LedgerInvariance, PTL

-----------------------------------------------------------------------------
(* The shared metrics array balances *)

(* MetricsLedger is not inductive either: a frame counted as a block hit may  *)
(* still be on its way to the drop, so it is counted from its match on.      *)
Between == {c \in Cpus : pc[c] \notin {"idle", "rx"}}
Matched == {c \in Cpus : pc[c] \in {"dryrun", "drop"}}

MetricsInv ==
  /\ options.metrics =>
       /\ metrics["rx"] = metrics["pass"] + metrics["drop"] + Cardinality(Between)
       /\ metrics["drop"] + Cardinality(Matched) <= metrics["block_v4"] + metrics["block_v6"]
  /\ ~options.metrics => \A s \in MetricSlots : metrics[s] = 0

(* The effect of metric_inc on the slots of the array. *)
LEMMA MetricIncEffect ==
  ASSUME TypeOK, NEW s \in MetricSlots, MetricInc(s)
  PROVE  /\ options.metrics => /\ metrics'[s] = metrics[s] + 1
                               /\ \A t \in MetricSlots \ {s} : metrics'[t] = metrics[t]
         /\ ~options.metrics => metrics' = metrics
  BY DEF MetricInc, TypeOK

(* One CPU more or less in a set of CPUs. *)
LEMMA OneMore ==
  ASSUME NEW S \in SUBSET Cpus, NEW c \in Cpus
  PROVE  /\ Cardinality(S) \in Nat
         /\ c \notin S => Cardinality(S \cup {c}) = Cardinality(S) + 1
         /\ c \in S => Cardinality(S \ {c}) = Cardinality(S) - 1
<1>1. IsFiniteSet(S)
  BY CpusAssumption, FS_Subset
<1> QED
  BY <1>1, FS_CardinalityType, FS_AddElement, FS_RemoveElement

(* The ledger of the array after a step of the program on one CPU. *)
LEMMA ProgramKeepsMetrics ==
  ASSUME TypeOK, LedgerInv, MetricsInv, NEW c \in Cpus, Program(c)
  PROVE  MetricsInv'
<1> USE DEF Goto, maps, counters
<1>1. /\ Between \in SUBSET Cpus /\ Matched \in SUBSET Cpus
      /\ Cardinality(Between) \in Nat /\ Cardinality(Matched) \in Nat
      /\ {"rx", "pass", "drop", "allow_hit", "block_v4", "block_v6"} = MetricSlots
  BY OneMore DEF Between, Matched, MetricSlots
<1>2. /\ metrics["rx"] \in Nat /\ metrics["pass"] \in Nat /\ metrics["drop"] \in Nat
      /\ metrics["block_v4"] \in Nat /\ metrics["block_v6"] \in Nat /\ pc \in [Cpus -> Steps]
  BY <1>1 DEF TypeOK
<1>3. options' = options
  BY StepsAreLocal
<1>4. ASSUME NEW from, NEW to, Goto(c, from, to)
      PROVE  /\ from \in {"idle", "rx"} /\ to \in {"idle", "rx"} => Between' = Between
             /\ from \notin {"idle", "rx"} /\ to \notin {"idle", "rx"} => Between' = Between
             /\ from = "rx" /\ to = "perf" => c \notin Between /\ Between' = Between \cup {c}
             /\ from \notin {"idle", "rx"} /\ to = "idle" => c \in Between /\ Between' = Between \ {c}
             /\ from \notin {"dryrun", "drop"} /\ to \notin {"dryrun", "drop"} => Matched' = Matched
             /\ from = "dryrun" /\ to = "drop" => Matched' = Matched
             /\ from = "match" /\ to = "dryrun" => c \notin Matched /\ Matched' = Matched \cup {c}
             /\ from \in {"dryrun", "drop"} /\ to \notin {"dryrun", "drop"} =>
                  c \in Matched /\ Matched' = Matched \ {c}
  BY <1>2, <1>4 DEF Between, Matched
<1> HIDE DEF Goto
<1>5. CASE \/ \E f \in Frames : Receive(c, f)
           \/ ObservePerf(c) \/ LookupAllow(c) \/ LookupBlock(c)
  <2>1. metrics' = metrics
    BY <1>5 DEF Receive, ObservePerf, LookupAllow, LookupBlock
  <2>2. Between' = Between /\ Matched' = Matched
    BY <1>4, <1>5 DEF Receive, ObservePerf, LookupAllow, LookupBlock
  <2> QED
    BY <1>3, <2>1, <2>2 DEF MetricsInv
<1>6. CASE CountRx(c)
  <2>1. Between' = Between \cup {c} /\ c \notin Between /\ Matched' = Matched
    BY <1>4, <1>6 DEF CountRx
  <2>2. Cardinality(Between') = Cardinality(Between) + 1
    BY <1>1, <2>1, OneMore
  <2>3. MetricInc("rx")
    BY <1>6 DEF CountRx
  <2> QED
    BY <1>1, <1>2, <1>3, <2>1, <2>2, <2>3, MetricIncEffect DEF MetricsInv
<1>7. CASE CountAllowHit(c)
  <2>1. Between' = Between /\ Matched' = Matched
    BY <1>4, <1>7 DEF CountAllowHit
  <2>2. MetricInc("allow_hit")
    BY <1>7 DEF CountAllowHit
  <2> QED
    BY <1>1, <1>3, <2>1, <2>2, MetricIncEffect DEF MetricsInv
<1>8. CASE CountMatch(c)
  <2>1. Between' = Between /\ Matched' = Matched \cup {c} /\ c \notin Matched
    BY <1>4, <1>8 DEF CountMatch
  <2>2. Cardinality(Matched') = Cardinality(Matched) + 1
    BY <1>1, <2>1, OneMore
  <2>3. BlockSlot[Family(frame[c])] \in {"block_v4", "block_v6"}
    BY <1>8 DEF CountMatch, LedgerInv, LedgerAt, BlockSlot, Families, Goto
  <2>4. MetricInc(BlockSlot[Family(frame[c])])
    BY <1>8 DEF CountMatch
  <2> QED
    BY <1>1, <1>2, <1>3, <2>1, <2>2, <2>3, <2>4, MetricIncEffect DEF MetricsInv
<1>9. CASE ReadDryrun(c)
  <2>1. metrics' = metrics /\ Between' = Between
    BY <1>4, <1>9 DEF ReadDryrun
  <2>2. Matched' = Matched \/ (c \in Matched /\ Matched' = Matched \ {c})
    BY <1>4, <1>9 DEF ReadDryrun
  <2>3. Cardinality(Matched') \in Nat /\ Cardinality(Matched') <= Cardinality(Matched)
    BY <1>1, <2>2, OneMore
  <2> QED
    BY <1>1, <1>2, <1>3, <2>1, <2>3 DEF MetricsInv
<1>10. CASE Drop(c)
  <2>1. /\ Between' = Between \ {c} /\ c \in Between
        /\ Matched' = Matched \ {c} /\ c \in Matched
    BY <1>4, <1>10 DEF Drop
  <2>2. /\ Cardinality(Between') = Cardinality(Between) - 1
        /\ Cardinality(Matched') = Cardinality(Matched) - 1
    BY <1>1, <2>1, OneMore
  <2>3. MetricInc("drop")
    BY <1>10 DEF Drop
  <2> QED
    BY <1>1, <1>2, <1>3, <2>1, <2>2, <2>3, MetricIncEffect DEF MetricsInv
<1>11. CASE Pass(c)
  <2>1. Between' = Between \ {c} /\ c \in Between /\ Matched' = Matched
    BY <1>4, <1>11 DEF Pass
  <2>2. Cardinality(Between') = Cardinality(Between) - 1
    BY <1>1, <2>1, OneMore
  <2>3. MetricInc("pass")
    BY <1>11 DEF Pass
  <2> QED
    BY <1>1, <1>2, <1>3, <2>1, <2>2, <2>3, MetricIncEffect DEF MetricsInv
<1> QED
  BY <1>5, <1>6, <1>7, <1>8, <1>9, <1>10, <1>11 DEF Program

LEMMA AdministratorKeepsMetrics ==
  ASSUME MetricsInv, Administrator
  PROVE  MetricsInv'
<1>1. UNCHANGED <<options, metrics, pc>>
  BY Zenon DEF Administrator, UpdateAllowlist, UpdateBlocklist, SetDryrun, Update, counters
<1> QED
  BY <1>1 DEF MetricsInv, Between, Matched

LEMMA InitialMetrics == Init => MetricsInv
<1> SUFFICES ASSUME Init PROVE MetricsInv
  OBVIOUS
<1>1. Between = {} /\ Matched = {}
  BY DEF Init, Between, Matched
<1>2. Cardinality(Between) = 0 /\ Cardinality(Matched) = 0
  BY <1>1, FS_EmptySet
<1> QED
  BY <1>2 DEF Init, MetricsInv, MetricSlots

LEMMA MetricsInvBalances ==
  ASSUME TypeOK, MetricsInv
  PROVE  MetricsLedger
<1> DEFINE Dropping == {c \in Cpus : pc[c] = "drop"}
<1>1. Dropping \in SUBSET Matched /\ Matched \in SUBSET Cpus
  BY DEF Matched
<1>2. IsFiniteSet(Matched)
  BY <1>1, CpusAssumption, FS_Subset
<1> HIDE DEF Dropping
<1>3. IsFiniteSet(Dropping) /\ Cardinality(Dropping) <= Cardinality(Matched)
  BY <1>1, <1>2, FS_Subset
<1>4. Cardinality(Dropping) \in Nat /\ Cardinality(Matched) \in Nat
  BY <1>2, <1>3, FS_CardinalityType
<1>5. /\ metrics["drop"] \in Nat /\ metrics["block_v4"] \in Nat /\ metrics["block_v6"] \in Nat
  BY DEF TypeOK, MetricSlots
<1>6. options.metrics =>
        metrics["drop"] + Cardinality(Dropping) <= metrics["block_v4"] + metrics["block_v6"]
  BY <1>3, <1>4, <1>5 DEF MetricsInv
<1> QED
  BY <1>6 DEF MetricsInv, MetricsLedger, Dropping, Between

(* Every frame counted as received is counted as passed or dropped or is      *)
(* between the two counters, although the CPUs race for the array; every drop *)
(* was counted as a block hit; an array that is not enabled stays zero        *)
(* (bpf/xdpfw.bpf.c:152, 187, 189, 219).                                     *)
THEOREM MetricsBalance == Spec => []MetricsLedger
<1>1. TypeOK /\ LedgerInv /\ MetricsInv /\ [Next]_vars => MetricsInv'
  <2> SUFFICES ASSUME TypeOK, LedgerInv, MetricsInv, [Next]_vars PROVE MetricsInv'
    OBVIOUS
  <2>1. CASE UNCHANGED vars
    BY <2>1 DEF vars, counters, MetricsInv, Between, Matched
  <2>2. ASSUME NEW c \in Cpus, Program(c) PROVE MetricsInv'
    BY <2>2, ProgramKeepsMetrics
  <2> QED
    BY <2>1, <2>2, AdministratorKeepsMetrics DEF Next
<1>2. TypeOK /\ MetricsInv => MetricsLedger
  BY MetricsInvBalances
<1> QED
  BY <1>1, <1>2, InitialMetrics, TypeCorrect, LedgerInvariance, PTL DEF Spec

-----------------------------------------------------------------------------
(* Sums over a finite set, of CPUs or of buckets.  The sum of a function is how *)
(* many cells lie below its graph.                                           *)

Cells(f) == {p \in (DOMAIN f) \X Nat : p[2] < f[p[1]]}
Size(f) == Cardinality(Cells(f))

(* Finitely many numbers have a sum. *)
LEMMA CellsFinite ==
  ASSUME NEW S, IsFiniteSet(S), NEW f \in [S -> Nat]
  PROVE  IsFiniteSet(Cells(f)) /\ Size(f) \in Nat
<1> DEFINE Column == [c \in S |-> {c} \X (0 .. f[c])]
           Columns == {{c} \X (0 .. f[c]) : c \in S}
<1>1. Column \in Surjection(S, Columns)
  <2>1. Column \in [S -> Columns]
    OBVIOUS
  <2>2. \A x \in Columns : \E c \in S : Column[c] = x
    OBVIOUS
  <2> QED
    BY <2>1, <2>2, Fun_IsSurj
<1>2. ASSUME NEW x \in Columns PROVE IsFiniteSet(x)
  <2>1. PICK c \in S : x = {c} \X (0 .. f[c])
    OBVIOUS
  <2>2. 0 \in Int /\ f[c] \in Int
    OBVIOUS
  <2>3. IsFiniteSet({c}) /\ IsFiniteSet(0 .. f[c])
    BY <2>2, FS_Singleton, FS_Interval
  <2>4. IsFiniteSet({c} \X (0 .. f[c]))
    BY <2>3, FS_Product
  <2> QED
    BY <2>1, <2>4
<1>3. Cells(f) \subseteq UNION Columns
  <2> SUFFICES ASSUME NEW p \in Cells(f) PROVE p \in UNION Columns
    OBVIOUS
  <2>1. PICK c \in S, i \in Nat : p = <<c, i>>
    BY DEF Cells
  <2>2. i < f[c]
    BY <2>1 DEF Cells
  <2>3. p \in {c} \X (0 .. f[c])
    BY <2>1, <2>2
  <2> QED
    BY <2>3
<1> HIDE DEF Column, Columns
<1>4. IsFiniteSet(Columns)
  BY <1>1, FS_Surjection
<1>5. IsFiniteSet(UNION Columns)
  BY <1>2, <1>4, FS_UNION
<1>6. IsFiniteSet(Cells(f))
  BY <1>3, <1>5, FS_Subset
<1> QED
  BY <1>6, FS_CardinalityType DEF Size

(* The smaller a function everywhere, the smaller its sum. *)
LEMMA SizeOrder ==
  ASSUME NEW S, IsFiniteSet(S), NEW f \in [S -> Nat], NEW g \in [S -> Nat],
         \A c \in S : f[c] <= g[c]
  PROVE  Size(f) <= Size(g)
<1>1. Cells(f) \subseteq Cells(g)
  <2> SUFFICES ASSUME NEW p \in Cells(f) PROVE p \in Cells(g)
    OBVIOUS
  <2>1. PICK c \in S, i \in Nat : p = <<c, i>>
    BY DEF Cells
  <2>2. i < f[c] /\ f[c] \in Nat /\ g[c] \in Nat /\ f[c] <= g[c]
    BY <2>1 DEF Cells
  <2>3. i < g[c]
    BY <2>2
  <2> QED
    BY <2>1, <2>3 DEF Cells
<1>2. IsFiniteSet(Cells(g))
  BY CellsFinite
<1> QED
  BY <1>1, <1>2, FS_Subset DEF Size

(* The cells of a sum are those of one summand, with those of the other on top. *)
LEMMA SizeSum ==
  ASSUME NEW S, IsFiniteSet(S), NEW f \in [S -> Nat], NEW g \in [S -> Nat], NEW h \in [S -> Nat],
         \A c \in S : h[c] = f[c] + g[c]
  PROVE  Size(h) = Size(f) + Size(g)
<1> DEFINE Top == {p \in S \X Nat : f[p[1]] <= p[2] /\ p[2] < h[p[1]]}
           Lift == [p \in Cells(g) |-> <<p[1], p[2] + f[p[1]]>>]
<1>1. \A c \in S : f[c] \in Nat /\ g[c] \in Nat /\ h[c] \in Nat /\ h[c] = f[c] + g[c]
  OBVIOUS
<1>2. Lift \in Bijection(Cells(g), Top)
  <2>1. ASSUME NEW p \in Cells(g) PROVE Lift[p] \in Top
    <3>1. p[1] \in S /\ p[2] \in Nat /\ p[2] < g[p[1]]
      BY DEF Cells
    <3> QED
      BY <1>1, <3>1
  <2>2. ASSUME NEW p \in Cells(g), NEW q \in Cells(g), Lift[p] = Lift[q] PROVE p = q
    <3>1. /\ p[1] \in S /\ p[2] \in Nat /\ p = <<p[1], p[2]>>
          /\ q[1] \in S /\ q[2] \in Nat /\ q = <<q[1], q[2]>>
      BY DEF Cells
    <3>2. p[1] = q[1] /\ p[2] + f[p[1]] = q[2] + f[q[1]]
      BY <2>2
    <3>3. f[p[1]] = f[q[1]] /\ f[q[1]] \in Nat
      BY <1>1, <3>1, <3>2
    <3>4. \A i, j, k \in Nat : i + k = j + k => i = j
      OBVIOUS
    <3>5. p[2] = q[2]
      BY <3>1, <3>2, <3>3, <3>4
    <3> QED
      BY <3>1, <3>2, <3>5
  <2>3. ASSUME NEW q \in Top PROVE \E p \in Cells(g) : Lift[p] = q
    <3>1. q[1] \in S /\ q[2] \in Nat /\ f[q[1]] <= q[2] /\ q[2] < h[q[1]] /\ q = <<q[1], q[2]>>
      OBVIOUS
    <3> DEFINE p == <<q[1], q[2] - f[q[1]]>>
    <3>2. p \in Cells(g)
      <4>1. q[2] - f[q[1]] \in Nat /\ q[2] - f[q[1]] < g[q[1]]
        BY <1>1, <3>1
      <4> QED
        BY <3>1, <4>1 DEF Cells
    <3>3. Lift[p] = <<q[1], (q[2] - f[q[1]]) + f[q[1]]>>
      BY <3>2
    <3>4. (q[2] - f[q[1]]) + f[q[1]] = q[2]
      BY <1>1, <3>1
    <3> QED
      BY <3>1, <3>2, <3>3, <3>4
  <2>4. Lift \in [Cells(g) -> Top]
    BY <2>1
  <2> HIDE DEF Lift, Top
  <2>5. \A p, q \in Cells(g) : Lift[p] = Lift[q] => p = q
    BY <2>2
  <2>6. \A q \in Top : \E p \in Cells(g) : Lift[p] = q
    BY <2>3
  <2> QED
    BY <2>4, <2>5, <2>6, Fun_IsBij
<1>3. Cells(h) = Cells(f) \cup Top /\ Cells(f) \cap Top = {}
  <2>1. ASSUME NEW p \in S \X Nat
        PROVE  /\ p \in Cells(h) <=> p \in Cells(f) \/ p \in Top
               /\ ~(p \in Cells(f) /\ p \in Top)
    <3>1. p[1] \in S /\ p[2] \in Nat
      OBVIOUS
    <3> QED
      BY <1>1, <3>1 DEF Cells
  <2> QED
    BY <2>1 DEF Cells
<1> HIDE DEF Lift, Top
<1>4. IsFiniteSet(Cells(f)) /\ IsFiniteSet(Cells(g)) /\ Size(f) \in Nat /\ Size(g) \in Nat
  BY CellsFinite
<1>5. IsFiniteSet(Top) /\ Cardinality(Top) = Size(g)
  <2>1. ExistsBijection(Cells(g), Top)
    BY <1>2 DEF ExistsBijection
  <2> QED
    BY <1>4, <2>1, FS_Bijection DEF Size
<1>6. Cardinality(Cells(f) \cap Top) = 0
  BY <1>3, FS_EmptySet
<1>7. Cardinality(Cells(f) \cup Top)
        = Cardinality(Cells(f)) + Cardinality(Top) - Cardinality(Cells(f) \cap Top)
  BY <1>4, <1>5, FS_Union
<1>8. Size(h) = Size(f) + Size(g) - 0
  BY <1>3, <1>5, <1>6, <1>7 DEF Size
<1> QED
  BY <1>4, <1>8

(* The sum of nothing. *)
LEMMA SizeZero ==
  ASSUME NEW S, NEW f \in [S -> Nat], \A c \in S : f[c] = 0
  PROVE  Size(f) = 0
<1>1. Cells(f) = {}
  BY DEF Cells
<1> QED
  BY <1>1, FS_EmptySet DEF Size

(* One value more, where there was none. *)
LEMMA SizeColumn ==
  ASSUME NEW S, IsFiniteSet(S), NEW f \in [S -> Nat], NEW c \in S, f[c] = 0, NEW n \in Nat
  PROVE  Size([f EXCEPT ![c] = n]) = Size(f) + n
<1> DEFINE g == [d \in S |-> IF d = c THEN n ELSE 0]
           h == [f EXCEPT ![c] = n]
<1>1. Cells(g) = {c} \X (0 .. (n - 1))
  <2>1. ASSUME NEW p \in S \X Nat PROVE p \in Cells(g) <=> p \in {c} \X (0 .. (n - 1))
    <3>1. p[1] \in S /\ p[2] \in Nat /\ p = <<p[1], p[2]>>
      OBVIOUS
    <3>2. p \in Cells(g) <=> p[1] = c /\ p[2] < n
      BY <3>1 DEF Cells
    <3>3. p[2] < n <=> p[2] \in 0 .. (n - 1)
      BY <3>1
    <3> QED
      BY <3>1, <3>2, <3>3
  <2>2. {c} \X (0 .. (n - 1)) \subseteq S \X Nat
    OBVIOUS
  <2> QED
    BY <2>1, <2>2 DEF Cells
<1>2. Size(g) = n
  <2>1. IsFiniteSet({c}) /\ Cardinality({c}) = 1
    BY FS_Singleton
  <2>2. IsFiniteSet(0 .. (n - 1)) /\ Cardinality(0 .. (n - 1)) = n
    <3>1. 0 \in Int /\ n - 1 \in Int
      OBVIOUS
    <3>2. /\ IsFiniteSet(0 .. (n - 1))
          /\ Cardinality(0 .. (n - 1)) = IF 0 > n - 1 THEN 0 ELSE (n - 1) - 0 + 1
      BY <3>1, FS_Interval
    <3>3. (IF 0 > n - 1 THEN 0 ELSE (n - 1) - 0 + 1) = n
      OBVIOUS
    <3> QED
      BY <3>2, <3>3
  <2>3. Cardinality({c} \X (0 .. (n - 1))) = Cardinality({c}) * Cardinality(0 .. (n - 1))
    BY <2>1, <2>2, FS_Product
  <2>4. Cardinality({c} \X (0 .. (n - 1))) = 1 * n
    BY <2>1, <2>2, <2>3
  <2>5. 1 * n = n
    OBVIOUS
  <2> QED
    BY <1>1, <2>4, <2>5 DEF Size
<1>3. /\ g \in [S -> Nat] /\ h \in [S -> Nat]
      /\ \A d \in S : h[d] = f[d] + g[d]
  OBVIOUS
<1> HIDE DEF g, h
<1>4. Size(h) = Size(f) + Size(g)
  BY <1>3, SizeSum
<1> QED
  BY <1>2, <1>4 DEF h

(* Counting the members of a set is a sum. *)
LEMMA SizeOfSet ==
  ASSUME NEW S, IsFiniteSet(S), NEW T \in SUBSET S
  PROVE  Size([c \in S |-> IF c \in T THEN 1 ELSE 0]) = Cardinality(T)
<1> DEFINE f == [c \in S |-> IF c \in T THEN 1 ELSE 0]
<1>1. IsFiniteSet(T) /\ Cardinality(T) \in Nat
  BY FS_Subset, FS_CardinalityType
<1>2. Cells(f) = T \X {0}
  <2>1. ASSUME NEW p \in S \X Nat PROVE p \in Cells(f) <=> p \in T \X {0}
    <3>1. p[1] \in S /\ p[2] \in Nat /\ p = <<p[1], p[2]>>
      OBVIOUS
    <3>2. p \in Cells(f) <=> p[1] \in T /\ p[2] = 0
      BY <3>1 DEF Cells
    <3> QED
      BY <3>1, <3>2
  <2>2. T \X {0} \subseteq S \X Nat
    OBVIOUS
  <2> QED
    BY <2>1, <2>2 DEF Cells
<1>3. IsFiniteSet({0}) /\ Cardinality({0}) = 1
  BY FS_Singleton
<1>4. Cardinality(T \X {0}) = Cardinality(T) * Cardinality({0})
  BY <1>1, <1>3, FS_Product
<1>5. Cardinality(T) * 1 = Cardinality(T)
  BY <1>1
<1> QED
  BY <1>2, <1>3, <1>4, <1>5 DEF Size

(* The part of a function on a subset. *)
Part(f, s) == [x \in s |-> f[x]]

LEMMA SizeParts ==
  ASSUME NEW S, IsFiniteSet(S), NEW f \in [S -> Nat], NEW s \in SUBSET S, NEW x \in s
  PROVE  Size(Part(f, s)) = f[x] + Size(Part(f, s \ {x}))
<1> DEFINE g == [Part(f, s) EXCEPT ![x] = 0]
           n == f[x]
<1>1. IsFiniteSet(s) /\ g \in [s -> Nat] /\ g[x] = 0 /\ n \in Nat
  BY FS_Subset DEF Part
<1>2. Part(f, s) = [g EXCEPT ![x] = n]
  BY DEF Part
<1>3. Cells(g) = Cells(Part(f, s \ {x}))
  <2>1. ASSUME NEW p \in s \X Nat
        PROVE  p \in Cells(g) <=> p \in Cells(Part(f, s \ {x}))
    <3>1. p[1] \in s /\ p[2] \in Nat /\ p = <<p[1], p[2]>>
      OBVIOUS
    <3>2. CASE p[1] = x
      BY <3>1, <3>2 DEF Cells, Part
    <3>3. CASE p[1] # x
      BY <3>1, <3>3 DEF Cells, Part
    <3> QED
      BY <3>2, <3>3
  <2>2. Cells(g) \subseteq s \X Nat /\ Cells(Part(f, s \ {x})) \subseteq s \X Nat
    BY DEF Cells, Part
  <2> QED
    BY <2>1, <2>2
<1> HIDE DEF g, n
<1>4. Size(Part(f, s)) = Size(g) + n
  <2>1. Size([g EXCEPT ![x] = n]) = Size(g) + n
    BY <1>1, SizeColumn
  <2> QED
    BY <1>2, <2>1
<1>5. Size(g) \in Nat
  BY <1>1, CellsFinite
<1> QED
  BY <1>1, <1>3, <1>4, <1>5 DEF Size, n

(* A set of subsets of a finite set has a member of which every smaller one is *)
(* outside it: induction over finite sets.                                    *)
LEMMA LeastSubset ==
  ASSUME NEW S, IsFiniteSet(S), NEW Sets \in SUBSET SUBSET S, Sets # {}
  PROVE  \E s \in Sets : \A x \in s : s \ {x} \notin Sets
<1> DEFINE sizes == {Cardinality(s) : s \in Sets}
<1>1. \A s \in SUBSET S : IsFiniteSet(s) /\ Cardinality(s) \in Nat
  BY FS_Subset, FS_CardinalityType
<1>2. sizes \in SUBSET Nat /\ sizes # {}
  BY <1>1
<1>3. \A m, n \in Nat : m < n => <<m, n>> \in OpToRel(<, Nat)
  BY SMT DEF OpToRel
<1>4. PICK n \in sizes : \A m \in sizes : ~(<<m, n>> \in OpToRel(<, Nat))
  <2> HIDE DEF sizes
  <2> QED
    BY <1>2, NatLessThanWellFounded, WFMin
<1>5. PICK s \in Sets : n = Cardinality(s)
  BY <1>4
<1>6. ASSUME NEW x \in s, s \ {x} \in Sets PROVE FALSE
  <2>1. IsFiniteSet(s) /\ Cardinality(s) \in Nat /\ Cardinality(s \ {x}) \in Nat
    BY <1>1
  <2>2. Cardinality(s \ {x}) = Cardinality(s) - 1
    BY <2>1, FS_RemoveElement
  <2>3. Cardinality(s \ {x}) < n /\ n \in Nat
    BY <1>5, <2>1, <2>2
  <2>4. Cardinality(s \ {x}) \in sizes
    BY <1>6
  <2> HIDE DEF sizes
  <2> QED
    BY <1>3, <1>4, <2>1, <2>3, <2>4
<1> QED
  BY <1>6

(* MapThenSumSet sums by a recursion over subsets, whose equation has a        *)
(* solution and no second one.                                               *)
Some(s) == CHOOSE x \in s : TRUE
Folds(f, S, g) ==
  g = [s \in SUBSET S |-> IF s = {} THEN 0 ELSE f[Some(s)] + g[s \ {Some(s)}]]

LEMMA FoldExists ==
  ASSUME NEW S, IsFiniteSet(S), NEW f \in [S -> Nat]
  PROVE  Folds(f, S, [s \in SUBSET S |-> Size(Part(f, s))])
<1> DEFINE g == [s \in SUBSET S |-> Size(Part(f, s))]
<1>1. ASSUME NEW s \in SUBSET S
      PROVE  g[s] = IF s = {} THEN 0 ELSE f[Some(s)] + g[s \ {Some(s)}]
  <2>1. CASE s = {}
    <3>1. Part(f, s) \in [s -> Nat] /\ \A x \in s : Part(f, s)[x] = 0
      BY <2>1 DEF Part
    <3>2. Size(Part(f, s)) = 0
      BY <3>1, SizeZero
    <3> QED
      BY <2>1, <3>2
  <2>2. CASE s # {}
    <3>1. Some(s) \in s
      BY <2>2 DEF Some
    <3>2. Size(Part(f, s)) = f[Some(s)] + Size(Part(f, s \ {Some(s)}))
      BY <3>1, SizeParts
    <3>3. s \ {Some(s)} \in SUBSET S
      OBVIOUS
    <3> QED
      BY <2>2, <3>2, <3>3
  <2> QED
    BY <2>1, <2>2
<1> QED
  BY <1>1 DEF Folds

LEMMA FoldIsSize ==
  ASSUME NEW S, IsFiniteSet(S), NEW f \in [S -> Nat], NEW g, Folds(f, S, g)
  PROVE  g[S] = Size(f)
<1> DEFINE h == [s \in SUBSET S |-> Size(Part(f, s))]
           Wrong == {s \in SUBSET S : g[s] # h[s]}
<1>1. Folds(f, S, h)
  BY FoldExists
<1>2. Wrong = {}
  <2> SUFFICES ASSUME Wrong # {} PROVE FALSE
    OBVIOUS
  <2>1. PICK s \in Wrong : \A x \in s : s \ {x} \notin Wrong
    BY LeastSubset
  <2>2. s # {} => Some(s) \in s
    BY DEF Some
  <2> HIDE DEF h
  <2>3. s \in SUBSET S /\ s \ {Some(s)} \in SUBSET S
    OBVIOUS
  <2>4. /\ g[s] = IF s = {} THEN 0 ELSE f[Some(s)] + g[s \ {Some(s)}]
        /\ h[s] = IF s = {} THEN 0 ELSE f[Some(s)] + h[s \ {Some(s)}]
    BY <1>1, <2>3, Zenon DEF Folds
  <2>5. s # {} => g[s \ {Some(s)}] = h[s \ {Some(s)}]
    BY <2>1, <2>2, <2>3
  <2> QED
    BY <2>4, <2>5
<1>3. g[S] = h[S]
  BY <1>2
<1>4. Part(f, S) = f
  BY DEF Part
<1> QED
  BY <1>3, <1>4

(* So a sum that the model forms is the size of the function summed. *)
LEMMA SumIsSize ==
  ASSUME NEW S, IsFiniteSet(S), NEW f \in [S -> Nat]
  PROVE  MapThenSumSet(LAMBDA x : f[x], S) = Size(f)
<1> DEFINE g == CHOOSE g : Folds(f, S, g)
<1>1. Folds(f, S, g)
  BY FoldExists
<1>2. MapThenSumSet(LAMBDA x : f[x], S) = g[S]
  BY DEF MapThenSumSet, MapThenFoldSet, Folds, Some
<1> HIDE DEF g
<1> QED
  BY <1>1, <1>2, FoldIsSize

(* One more of anything is one more in the sum. *)
LEMMA SizeIncrement ==
  ASSUME NEW S, IsFiniteSet(S), NEW f \in [S -> Nat], NEW x \in S
  PROVE  Size([f EXCEPT ![x] = @ + 1]) = Size(f) + 1
<1> DEFINE g == [y \in S |-> IF y \in {x} THEN 1 ELSE 0]
           h == [f EXCEPT ![x] = @ + 1]
<1>1. g \in [S -> Nat] /\ h \in [S -> Nat] /\ \A y \in S : h[y] = f[y] + g[y]
  OBVIOUS
<1>2. Size(g) = Cardinality({x}) /\ Cardinality({x}) = 1
  BY SizeOfSet, FS_Singleton
<1> HIDE DEF g, h
<1>3. Size(h) = Size(f) + Size(g)
  BY <1>1, SizeSum
<1> QED
  BY <1>2, <1>3 DEF h

(* No summand is more than the sum. *)
LEMMA SizeSummand ==
  ASSUME NEW S, IsFiniteSet(S), NEW f \in [S -> Nat], NEW x \in S
  PROVE  f[x] <= Size(f)
<1>1. Size(Part(f, S)) = f[x] + Size(Part(f, S \ {x}))
  BY SizeParts
<1>2. Part(f, S) = f /\ Part(f, S \ {x}) \in [S \ {x} -> Nat] /\ IsFiniteSet(S \ {x})
  BY FS_RemoveElement DEF Part
<1>3. Size(Part(f, S \ {x})) \in Nat /\ f[x] \in Nat
  BY <1>2, CellsFinite
<1> QED
  BY <1>1, <1>2, <1>3

-----------------------------------------------------------------------------
(* The histogram, and the frames there are *)

(* A slot of the per-CPU map, over the CPUs. *)
SlotOf(s) == [c \in Cpus |-> stats[c][s]]

Sampling == {c \in Cpus : pc[c] \in {"rx", "perf"}}
Entering == {c \in Cpus : pc[c] = "rx"}
Deciding == {c \in Cpus : pc[c] \in {"perf", "allow", "allow_hit", "block", "match"}}

(* Every frame received is a sample, or is about to be one. *)
SamplesInv ==
  /\ options.perf => Size(SlotOf("total")) = Size(perf) + Cardinality(Sampling)
  /\ ~options.perf => \A b \in 0 .. (PerfSlots - 1) : perf[b] = 0

(* The frames received are those that are not left to arrive. *)
ArrivedInv == Size(SlotOf("total")) + left.frames = MaxFrames

(* A frame of a CPU is counted as a match once at most. *)
MatchesAt(c) ==
  stats[c].v4_match + stats[c].v6_match
    + (IF pc[c] \in {"rx", "perf", "allow", "allow_hit", "block", "match"} THEN 1 ELSE 0)
  <= stats[c].total

(* A frame is counted as received once, and as a hit of one list at most. *)
HitsInv ==
  options.metrics =>
    /\ metrics["rx"] + Cardinality(Entering) <= Size(SlotOf("total"))
    /\ metrics["allow_hit"] + metrics["block_v4"] + metrics["block_v6"]
         + Cardinality(Deciding) <= metrics["rx"]

TrafficInv == SamplesInv /\ ArrivedInv /\ (\A c \in Cpus : MatchesAt(c)) /\ HitsInv

(* MapThenSumSet over the CPUs is the sum of the slot. *)
LEMMA TotalIsSize ==
  ASSUME TypeOK
  PROVE  MapThenSumSet(LAMBDA c : stats[c].total, Cpus) = Size(SlotOf("total"))
<1> DEFINE f == SlotOf("total")
           g == CHOOSE g : Folds(f, Cpus, g)
<1>1. f \in [Cpus -> Nat]
  BY DEF TypeOK, StatSlots, SlotOf
<1>2. Folds(f, Cpus, g)
  BY <1>1, CpusAssumption, FoldExists
<1>3. ASSUME NEW s \in SUBSET Cpus, s # {}
      PROVE  f[Some(s)] = stats[CHOOSE x \in s : TRUE].total
  BY <1>3 DEF SlotOf, Some
<1>4. \A h : Folds(f, Cpus, h) <=>
        h = [s \in SUBSET Cpus |->
               IF s = {} THEN 0
               ELSE stats[CHOOSE x \in s : TRUE].total + h[s \ {CHOOSE x \in s : TRUE}]]
  <2> SUFFICES ASSUME NEW h
               PROVE  [s \in SUBSET Cpus |-> IF s = {} THEN 0 ELSE f[Some(s)] + h[s \ {Some(s)}]]
                        = [s \in SUBSET Cpus |->
                             IF s = {} THEN 0
                             ELSE stats[CHOOSE x \in s : TRUE].total
                                    + h[s \ {CHOOSE x \in s : TRUE}]]
    BY Zenon DEF Folds
  <2> HIDE DEF f
  <2> QED
    BY <1>3 DEF Some
<1>5. MapThenSumSet(LAMBDA c : stats[c].total, Cpus) = g[Cpus]
  <2>1. g = CHOOSE h : h = [s \in SUBSET Cpus |->
               IF s = {} THEN 0
               ELSE stats[CHOOSE x \in s : TRUE].total + h[s \ {CHOOSE x \in s : TRUE}]]
    BY <1>4, Zenon
  <2> HIDE DEF f, g
  <2> QED
    BY <2>1 DEF MapThenSumSet, MapThenFoldSet
<1> HIDE DEF f, g
<1>6. g[Cpus] = Size(f)
  BY <1>1, <1>2, CpusAssumption, FoldIsSize
<1> QED
  BY <1>5, <1>6 DEF f

(* The sum of a slot is a number. *)
LEMMA SlotSum ==
  ASSUME TypeOK, NEW s \in StatSlots
  PROVE  SlotOf(s) \in [Cpus -> Nat] /\ Size(SlotOf(s)) \in Nat
<1>1. SlotOf(s) \in [Cpus -> Nat]
  BY DEF TypeOK, SlotOf
<1> QED
  BY <1>1, CpusAssumption, CellsFinite

(* A call of stat_inc is one more in the sum of its slot, and in no other. *)
LEMMA SlotCounts ==
  ASSUME TypeOK, NEW c \in Cpus, NEW s \in StatSlots, StatInc(c, s)
  PROVE  /\ Size(SlotOf(s))' = Size(SlotOf(s)) + 1
         /\ \A t \in StatSlots \ {s} : SlotOf(t)' = SlotOf(t)
<1>1. SlotOf(s)' = [SlotOf(s) EXCEPT ![c] = @ + 1]
  BY StatIncEffect DEF SlotOf
<1>2. \A t \in StatSlots \ {s} : SlotOf(t)' = SlotOf(t)
  BY StatIncEffect DEF SlotOf
<1>3. Size([SlotOf(s) EXCEPT ![c] = @ + 1]) = Size(SlotOf(s)) + 1
  BY SlotSum, CpusAssumption, SizeIncrement
<1>4. Size(SlotOf(s))' = Size(SlotOf(s)')
  BY DEF Size, Cells
<1> QED
  BY <1>1, <1>2, <1>3, <1>4

(* A length has a bucket of the array, whatever it is. *)
LEMMA BucketExists ==
  ASSUME NEW len
  PROVE  Bucket(len) \in 0 .. (PerfSlots - 1)
<1> DEFINE below == {b \in 1 .. (PerfSlots - 1) : len >= 2 ^ b}
<1>1. PerfSlots - 1 \in Nat /\ 1 \in Int /\ PerfSlots - 1 \in Int
  BY BoundsAssumption
<1>2. /\ IsFiniteSet(1 .. (PerfSlots - 1))
      /\ Cardinality(1 .. (PerfSlots - 1))
           = IF 1 > PerfSlots - 1 THEN 0 ELSE (PerfSlots - 1) - 1 + 1
  BY <1>1, FS_Interval
<1>3. below \subseteq 1 .. (PerfSlots - 1)
  OBVIOUS
<1> HIDE DEF below
<1>4. IsFiniteSet(below) /\ Cardinality(below) <= Cardinality(1 .. (PerfSlots - 1))
  BY <1>2, <1>3, FS_Subset
<1>5. Cardinality(below) \in Nat
  BY <1>4, FS_CardinalityType
<1> QED
  BY <1>1, <1>2, <1>4, <1>5 DEF Bucket, below

(* A call of perf_observe is one more sample: no length misses the array. *)
LEMMA PerfCounts ==
  ASSUME TypeOK, NEW len, PerfObserve(len)
  PROVE  /\ options.perf => Size(perf)' = Size(perf) + 1
         /\ ~options.perf => perf' = perf
<1>1. IsFiniteSet(0 .. (PerfSlots - 1))
  <2>1. 0 \in Int /\ PerfSlots - 1 \in Int
    BY BoundsAssumption
  <2> QED
    BY <2>1, FS_Interval
<1>2. perf \in [0 .. (PerfSlots - 1) -> Nat]
  BY DEF TypeOK
<1>3. Size([perf EXCEPT ![Bucket(len)] = @ + 1]) = Size(perf) + 1
  BY <1>1, <1>2, BucketExists, SizeIncrement
<1>4. options.perf => perf' = [perf EXCEPT ![Bucket(len)] = @ + 1]
  BY DEF PerfObserve
<1>5. Size(perf)' = Size(perf')
  BY DEF Size, Cells
<1> QED
  BY <1>3, <1>4, <1>5 DEF PerfObserve

(* Which CPUs are on their way, after a step of the program. *)
LEMMA OnTheWay ==
  ASSUME TypeOK, NEW c \in Cpus, NEW from, NEW to, Goto(c, from, to)
  PROVE  /\ Sampling \in SUBSET Cpus /\ Entering \in SUBSET Cpus /\ Deciding \in SUBSET Cpus
         /\ from = "idle" /\ to = "rx" =>
              /\ c \notin Sampling /\ Sampling' = Sampling \cup {c}
              /\ c \notin Entering /\ Entering' = Entering \cup {c}
              /\ Deciding' = Deciding
         /\ from = "rx" /\ to = "perf" =>
              /\ Sampling' = Sampling
              /\ c \in Entering /\ Entering' = Entering \ {c}
              /\ c \notin Deciding /\ Deciding' = Deciding \cup {c}
         /\ from = "perf" => c \in Sampling
         /\ from = "perf" /\ to \notin {"rx", "perf"} => Sampling' = Sampling \ {c}
         /\ from \notin {"rx", "perf"} /\ to \notin {"rx", "perf"} => Sampling' = Sampling
         /\ from # "rx" /\ to # "rx" => Entering' = Entering
         /\ LET before == {"perf", "allow", "allow_hit", "block", "match"}
            IN  /\ from \in before => c \in Deciding
                /\ from \in before /\ to \in before => Deciding' = Deciding
                /\ from \in before /\ to \notin before => Deciding' = Deciding \ {c}
                /\ from \notin before /\ to \notin before => Deciding' = Deciding
BY DEF TypeOK, Goto, Sampling, Entering, Deciding

(* The samples, and the frames, after a step of the program. *)
LEMMA ProgramKeepsSamples ==
  ASSUME TypeOK, LedgerInv, SamplesInv, ArrivedInv, NEW c \in Cpus, Program(c)
  PROVE  SamplesInv' /\ ArrivedInv'
<1> USE DEF maps, counters
<1>1. options' = options
  BY StepsAreLocal
<1>2. /\ Size(SlotOf("total")) \in Nat /\ Size(perf) \in Nat /\ Cardinality(Sampling) \in Nat
      /\ Sampling \in SUBSET Cpus /\ "total" \in StatSlots /\ left.frames \in Nat
  <2>1. IsFiniteSet(0 .. (PerfSlots - 1))
    <3>1. 0 \in Int /\ PerfSlots - 1 \in Int
      BY BoundsAssumption
    <3> QED
      BY <3>1, FS_Interval
  <2>2. Size(perf) \in Nat
    BY <2>1, CellsFinite DEF TypeOK
  <2>3. Sampling \in SUBSET Cpus
    BY DEF Sampling
  <2>4. "total" \in StatSlots /\ left.frames \in Nat
    BY BoundsAssumption DEF TypeOK, StatSlots
  <2> QED
    BY <2>2, <2>3, <2>4, SlotSum, OneMore
<1>3. ASSUME NEW f \in Frames, Receive(c, f) PROVE SamplesInv' /\ ArrivedInv'
  <2>1. c \notin Sampling /\ Sampling' = Sampling \cup {c}
    BY <1>3, OnTheWay DEF Receive
  <2>2. Cardinality(Sampling)' = Cardinality(Sampling) + 1
    BY <1>2, <2>1, OneMore
  <2>3. Size(SlotOf("total"))' = Size(SlotOf("total")) + 1
    BY <1>2, <1>3, SlotCounts DEF Receive
  <2>4. perf' = perf /\ Size(perf)' = Size(perf)
    BY <1>3 DEF Receive, Size, Cells
  <2>5. left'.frames = left.frames - 1
    BY <1>3 DEF Receive, TypeOK
  <2> QED
    BY <1>1, <1>2, <2>2, <2>3, <2>4, <2>5 DEF SamplesInv, ArrivedInv
<1>4. CASE ObservePerf(c)
  <2>1. c \in Sampling /\ Sampling' = Sampling \ {c}
    <3>1. Family(frame[c]) = "none" \/ Family(frame[c]) # "none"
      OBVIOUS
    <3>2. Goto(c, "perf", "pass") \/ Goto(c, "perf", "allow")
      BY <1>4, <3>1 DEF ObservePerf
    <3> QED
      BY <3>2, OnTheWay
  <2>2. Cardinality(Sampling)' = Cardinality(Sampling) - 1
    BY <1>2, <2>1, OneMore
  <2>3. SlotOf("total")' = SlotOf("total") /\ left' = left
    BY <1>4 DEF ObservePerf, SlotOf
  <2>4. Size(SlotOf("total"))' = Size(SlotOf("total"))
    BY <2>3 DEF Size, Cells
  <2>5. /\ options.perf => Size(perf)' = Size(perf) + 1
        /\ ~options.perf => perf' = perf
    BY <1>4, PerfCounts DEF ObservePerf
  <2> QED
    BY <1>1, <1>2, <2>2, <2>3, <2>4, <2>5 DEF SamplesInv, ArrivedInv
<1>5. CASE \/ CountRx(c) \/ LookupAllow(c) \/ CountAllowHit(c) \/ LookupBlock(c)
           \/ CountMatch(c) \/ ReadDryrun(c) \/ Drop(c) \/ Pass(c)
  <2>1. Sampling' = Sampling
    BY <1>5, OnTheWay DEF CountRx, LookupAllow, CountAllowHit, LookupBlock, CountMatch,
                          ReadDryrun, Drop, Pass
  <2>2. UNCHANGED <<perf, left>>
    BY <1>5 DEF CountRx, LookupAllow, CountAllowHit, LookupBlock, CountMatch,
                ReadDryrun, Drop, Pass
  <2>3. SlotOf("total")' = SlotOf("total")
    <3>1. CASE CountMatch(c)
      <4>1. MatchSlot[Family(frame[c])] \in StatSlots \ {"total"}
        BY <3>1 DEF CountMatch, Goto, LedgerInv, LedgerAt, MatchSlot, Families, StatSlots
      <4> QED
        BY <1>2, <3>1, <4>1, SlotCounts DEF CountMatch
    <3>2. CASE Pass(c)
      BY <1>2, <3>2, SlotCounts DEF Pass, StatSlots
    <3>3. CASE stats' = stats
      BY <3>3 DEF SlotOf
    <3> QED
      BY <1>5, <3>1, <3>2, <3>3 DEF CountRx, LookupAllow, CountAllowHit, LookupBlock,
                                    ReadDryrun, Drop
  <2>4. Size(SlotOf("total"))' = Size(SlotOf("total")) /\ Size(perf)' = Size(perf)
    BY <2>2, <2>3 DEF Size, Cells
  <2> QED
    BY <1>1, <2>1, <2>2, <2>3, <2>4 DEF SamplesInv, ArrivedInv
<1> QED
  BY <1>3, <1>4, <1>5 DEF Program

(* The matches of the CPU whose program moves. *)
LEMMA OwnMatches ==
  ASSUME TypeOK, LedgerInv, NEW c \in Cpus, MatchesAt(c), Program(c)
  PROVE  MatchesAt(c)'
<1> USE DEF maps, counters
<1>1. /\ stats[c].total \in Nat /\ stats[c].v4_match \in Nat /\ stats[c].v6_match \in Nat
      /\ c \in DOMAIN pc
  BY DEF TypeOK, StatSlots
<1>2. ASSUME NEW f \in Frames, Receive(c, f) PROVE MatchesAt(c)'
  <2>1. /\ stats'[c].total = stats[c].total + 1
        /\ stats'[c].v4_match = stats[c].v4_match /\ stats'[c].v6_match = stats[c].v6_match
    BY <1>2, StatIncEffect DEF Receive, StatSlots
  <2> QED
    BY <1>1, <1>2, <2>1 DEF Receive, MatchesAt, Goto
<1>3. CASE CountMatch(c)
  <2>1. MatchSlot[Family(frame[c])] \in {"v4_match", "v6_match"}
    BY <1>3 DEF CountMatch, Goto, LedgerInv, LedgerAt, MatchSlot, Families
  <2>2. /\ stats'[c].total = stats[c].total
        /\ stats'[c].v4_match + stats'[c].v6_match
             = stats[c].v4_match + stats[c].v6_match + 1
    BY <1>1, <1>3, <2>1, StatIncEffect DEF CountMatch, StatSlots
  <2> QED
    BY <1>1, <1>3, <2>2 DEF CountMatch, MatchesAt, Goto
<1>4. CASE Pass(c)
  <2>1. /\ stats'[c].total = stats[c].total
        /\ stats'[c].v4_match = stats[c].v4_match /\ stats'[c].v6_match = stats[c].v6_match
    BY <1>4, StatIncEffect DEF Pass, StatSlots
  <2> QED
    BY <1>1, <1>4, <2>1 DEF Pass, MatchesAt, Goto
<1>5. CASE \/ CountRx(c) \/ ObservePerf(c) \/ LookupAllow(c) \/ CountAllowHit(c)
           \/ LookupBlock(c) \/ ReadDryrun(c) \/ Drop(c)
  BY <1>1, <1>5 DEF CountRx, ObservePerf, LookupAllow, CountAllowHit, LookupBlock, ReadDryrun,
                    Drop, MatchesAt, Goto
<1> QED
  BY <1>2, <1>3, <1>4, <1>5 DEF Program

(* The metrics array against the frames received. *)
LEMMA ProgramKeepsHits ==
  ASSUME TypeOK, LedgerInv, HitsInv, NEW c \in Cpus, Program(c)
  PROVE  HitsInv'
<1> USE DEF maps, counters
<1>1. options' = options
  BY StepsAreLocal
<1>2. /\ "total" \in StatSlots /\ Size(SlotOf("total")) \in Nat
      /\ Entering \in SUBSET Cpus /\ Deciding \in SUBSET Cpus
      /\ Cardinality(Entering) \in Nat /\ Cardinality(Deciding) \in Nat
      /\ {"rx", "pass", "drop", "allow_hit", "block_v4", "block_v6"} = MetricSlots
  <2>1. "total" \in StatSlots
    BY DEF StatSlots
  <2>2. Entering \in SUBSET Cpus /\ Deciding \in SUBSET Cpus
    BY DEF Entering, Deciding
  <2> QED
    BY <2>1, <2>2, SlotSum, OneMore DEF MetricSlots
<1>3. /\ metrics["rx"] \in Nat /\ metrics["allow_hit"] \in Nat
      /\ metrics["block_v4"] \in Nat /\ metrics["block_v6"] \in Nat
  BY <1>2 DEF TypeOK
<1>4. ASSUME ~(\E f \in Frames : Receive(c, f))
      PROVE  Size(SlotOf("total"))' = Size(SlotOf("total"))
  <2>1. SlotOf("total")' = SlotOf("total")
    <3>1. CASE CountMatch(c)
      <4>1. MatchSlot[Family(frame[c])] \in StatSlots \ {"total"}
        BY <3>1 DEF CountMatch, Goto, LedgerInv, LedgerAt, MatchSlot, Families, StatSlots
      <4> QED
        BY <1>2, <3>1, <4>1, SlotCounts DEF CountMatch
    <3>2. CASE Pass(c)
      BY <1>2, <3>2, SlotCounts DEF Pass, StatSlots
    <3>3. CASE stats' = stats
      BY <3>3 DEF SlotOf
    <3> QED
      BY <1>4, <3>1, <3>2, <3>3 DEF Program, CountRx, ObservePerf, LookupAllow, CountAllowHit,
                                    LookupBlock, ReadDryrun, Drop
  <2> QED
    BY <2>1 DEF Size, Cells
<1>5. ASSUME NEW f \in Frames, Receive(c, f) PROVE HitsInv'
  <2>1. c \notin Entering /\ Entering' = Entering \cup {c} /\ Deciding' = Deciding
    BY <1>5, OnTheWay DEF Receive
  <2>2. Cardinality(Entering)' = Cardinality(Entering) + 1
    BY <1>2, <2>1, OneMore
  <2>3. Size(SlotOf("total"))' = Size(SlotOf("total")) + 1
    BY <1>2, <1>5, SlotCounts DEF Receive
  <2>4. metrics' = metrics
    BY <1>5 DEF Receive
  <2> QED
    BY <1>1, <1>2, <1>3, <2>1, <2>2, <2>3, <2>4 DEF HitsInv
<1>6. CASE CountRx(c)
  <2>1. /\ c \in Entering /\ Entering' = Entering \ {c}
        /\ c \notin Deciding /\ Deciding' = Deciding \cup {c}
    BY <1>6, OnTheWay DEF CountRx
  <2>2. /\ Cardinality(Entering)' = Cardinality(Entering) - 1
        /\ Cardinality(Deciding)' = Cardinality(Deciding) + 1
    BY <1>2, <2>1, OneMore
  <2>3. Size(SlotOf("total"))' = Size(SlotOf("total"))
    BY <1>4, <1>6 DEF CountRx, Receive, Goto
  <2>4. MetricInc("rx")
    BY <1>6 DEF CountRx
  <2> QED
    BY <1>1, <1>2, <1>3, <2>2, <2>3, <2>4, MetricIncEffect DEF HitsInv
<1>7. CASE CountAllowHit(c)
  <2>1. /\ Entering' = Entering
        /\ c \in Deciding /\ Deciding' = Deciding \ {c}
    BY <1>7, OnTheWay DEF CountAllowHit
  <2>2. Cardinality(Deciding)' = Cardinality(Deciding) - 1
    BY <1>2, <2>1, OneMore
  <2>3. Size(SlotOf("total"))' = Size(SlotOf("total"))
    BY <1>4, <1>7 DEF CountAllowHit, Receive, Goto
  <2>4. MetricInc("allow_hit")
    BY <1>7 DEF CountAllowHit
  <2> QED
    BY <1>1, <1>2, <1>3, <2>1, <2>2, <2>3, <2>4, MetricIncEffect DEF HitsInv
<1>8. CASE CountMatch(c)
  <2>1. /\ Entering' = Entering
        /\ c \in Deciding /\ Deciding' = Deciding \ {c}
    BY <1>8, OnTheWay DEF CountMatch
  <2>2. Cardinality(Deciding)' = Cardinality(Deciding) - 1
    BY <1>2, <2>1, OneMore
  <2>3. Size(SlotOf("total"))' = Size(SlotOf("total"))
    BY <1>4, <1>8 DEF CountMatch, Receive, Goto
  <2>4. BlockSlot[Family(frame[c])] \in {"block_v4", "block_v6"}
    BY <1>8 DEF CountMatch, LedgerInv, LedgerAt, BlockSlot, Families, Goto
  <2>5. MetricInc(BlockSlot[Family(frame[c])])
    BY <1>8 DEF CountMatch
  <2> QED
    BY <1>1, <1>2, <1>3, <2>1, <2>2, <2>3, <2>4, <2>5, MetricIncEffect DEF HitsInv
<1>9. CASE \/ ObservePerf(c) \/ LookupAllow(c) \/ LookupBlock(c)
           \/ ReadDryrun(c) \/ Drop(c) \/ Pass(c)
  <2>1. /\ Entering' = Entering
        /\ Deciding' = Deciding \/ (c \in Deciding /\ Deciding' = Deciding \ {c})
    <3>1. PICK from \in Steps \ {"idle", "rx"}, to \in Steps \ {"rx", "perf"} :
            /\ Goto(c, from, to)
            /\ from \in {"dryrun", "drop", "pass"} => to \in {"drop", "pass", "idle"}
      <4> USE DEF Steps
      <4>1. CASE ObservePerf(c)
        BY <4>1 DEF ObservePerf
      <4>2. CASE LookupAllow(c)
        BY <4>2 DEF LookupAllow
      <4>3. CASE LookupBlock(c)
        BY <4>3 DEF LookupBlock
      <4>4. CASE ReadDryrun(c)
        BY <4>4 DEF ReadDryrun
      <4>5. CASE Drop(c) \/ Pass(c)
        BY <4>5 DEF Drop, Pass
      <4> QED
        BY <1>9, <4>1, <4>2, <4>3, <4>4, <4>5
    <3> QED
      BY <3>1, OnTheWay DEF Steps
  <2>2. Cardinality(Deciding)' \in Nat /\ Cardinality(Deciding)' <= Cardinality(Deciding)
    BY <1>2, <2>1, OneMore
  <2>3. Size(SlotOf("total"))' = Size(SlotOf("total"))
    BY <1>4, <1>9 DEF ObservePerf, LookupAllow, LookupBlock, ReadDryrun, Drop, Pass, Receive, Goto
  <2>4. /\ options.metrics => /\ metrics'["rx"] = metrics["rx"]
                              /\ metrics'["allow_hit"] = metrics["allow_hit"]
                              /\ metrics'["block_v4"] = metrics["block_v4"]
                              /\ metrics'["block_v6"] = metrics["block_v6"]
        /\ ~options.metrics => metrics' = metrics
    <3>1. metrics' = metrics \/ MetricInc("drop") \/ MetricInc("pass")
      BY <1>9 DEF ObservePerf, LookupAllow, LookupBlock, ReadDryrun, Drop, Pass
    <3> QED
      BY <1>2, <3>1, MetricIncEffect
  <2> QED
    BY <1>1, <1>2, <1>3, <2>1, <2>2, <2>3, <2>4 DEF HitsInv
<1> QED
  BY <1>5, <1>6, <1>7, <1>8, <1>9 DEF Program

LEMMA InitialTraffic == Init => TrafficInv
<1> SUFFICES ASSUME Init PROVE TrafficInv
  OBVIOUS
<1>1. Sampling = {} /\ Entering = {} /\ Deciding = {}
  BY DEF Init, Sampling, Entering, Deciding
<1>2. Cardinality(Sampling) = 0 /\ Cardinality(Entering) = 0 /\ Cardinality(Deciding) = 0
  BY <1>1, FS_EmptySet
<1>3. Size(SlotOf("total")) = 0
  <2>1. SlotOf("total") \in [Cpus -> Nat] /\ \A c \in Cpus : SlotOf("total")[c] = 0
    BY DEF Init, SlotOf, StatSlots
  <2> QED
    BY <2>1, SizeZero
<1>4. Size(perf) = 0
  <2>1. perf \in [0 .. (PerfSlots - 1) -> Nat] /\ \A b \in 0 .. (PerfSlots - 1) : perf[b] = 0
    BY DEF Init
  <2> QED
    BY <2>1, SizeZero
<1>5. SamplesInv
  BY <1>2, <1>3, <1>4 DEF SamplesInv, Init
<1>6. ArrivedInv
  BY <1>3, BoundsAssumption DEF ArrivedInv, Init
<1>7. \A c \in Cpus : MatchesAt(c)
  BY DEF MatchesAt, Init, StatSlots
<1>8. HitsInv
  BY <1>2, <1>3 DEF HitsInv, Init, MetricSlots
<1> QED
  BY <1>5, <1>6, <1>7, <1>8 DEF TrafficInv

(* A step of the data plane, whatever it leaves in the history.               *)
LEMMA TrafficStep ==
  ASSUME TypeOK, LedgerInv, TrafficInv,
         (\E c \in Cpus : Program(c)) \/ Administrator
  PROVE  TrafficInv'
<1>1. ASSUME NEW c \in Cpus, Program(c) PROVE TrafficInv'
  <2>1. SamplesInv' /\ ArrivedInv'
    BY <1>1, ProgramKeepsSamples DEF TrafficInv
  <2>2. ASSUME NEW d \in Cpus PROVE MatchesAt(d)'
    <3>1. CASE d = c
      BY <1>1, <3>1, OwnMatches DEF TrafficInv
    <3>2. CASE d # c
      <4>1. pc'[d] = pc[d]
        BY <1>1, <3>2, StepsAreLocal
      <4>2. stats'[d] = stats[d]
        BY <1>1, <3>2 DEF TypeOK, StatInc, counters, Program, Receive, CountRx, ObservePerf,
                LookupAllow, CountAllowHit, LookupBlock, CountMatch, ReadDryrun, Drop, Pass
      <4> QED
        BY <4>1, <4>2 DEF MatchesAt, TrafficInv
    <3> QED
      BY <3>1, <3>2
  <2>3. HitsInv'
    BY <1>1, ProgramKeepsHits DEF TrafficInv
  <2> QED
    BY <2>1, <2>2, <2>3 DEF TrafficInv
<1>2. CASE Administrator
  <2>1. UNCHANGED <<options, stats, metrics, perf, pc>> /\ left'.frames = left.frames
    BY <1>2, Zenon DEF Administrator, UpdateAllowlist, UpdateBlocklist, SetDryrun, Update,
                       counters, TypeOK
  <2> QED
    BY <2>1 DEF TrafficInv, SamplesInv, ArrivedInv, MatchesAt, HitsInv, Size, Cells, SlotOf,
                Sampling, Entering, Deciding
<1> QED
  BY <1>1, <1>2

LEMMA TrafficInvariance == Spec => [](TypeOK /\ LedgerInv /\ TrafficInv)
<1>1. TypeOK /\ LedgerInv /\ TrafficInv /\ [Next]_vars => TrafficInv'
  <2> SUFFICES ASSUME TypeOK, LedgerInv, TrafficInv, [Next]_vars PROVE TrafficInv'
    OBVIOUS
  <2>1. CASE UNCHANGED vars
    BY <2>1 DEF vars, counters, TrafficInv, SamplesInv, ArrivedInv, MatchesAt, HitsInv, Size,
                Cells, SlotOf, Sampling, Entering, Deciding
  <2> QED
    BY <2>1, TrafficStep DEF Next
<1> QED
  BY <1>1, InitialTraffic, TypeCorrect, LedgerInvariance, PTL DEF Spec

(* The sum that HistogramComplete forms over the buckets. *)
LEMMA SamplesAreSize ==
  ASSUME TypeOK
  PROVE  MapThenSumSet(LAMBDA b : perf[b], DOMAIN perf) = Size(perf)
<1>1. IsFiniteSet(0 .. (PerfSlots - 1))
  <2>1. 0 \in Int /\ PerfSlots - 1 \in Int
    BY BoundsAssumption
  <2> QED
    BY <2>1, FS_Interval
<1>2. perf \in [DOMAIN perf -> Nat] /\ IsFiniteSet(DOMAIN perf)
  BY <1>1 DEF TypeOK
<1> QED
  BY <1>2, SumIsSize

(* With the histogram enabled every frame that is past perf_observe is in     *)
(* some bucket, whatever its length: the index never misses the array          *)
(* (bpf/xdpfw.bpf.c:121-136, 151-153).                                        *)
THEOREM NoSampleLost == Spec => []HistogramComplete
<1>1. TypeOK /\ TrafficInv => HistogramComplete
  BY TotalIsSize, SamplesAreSize
  DEF TrafficInv, SamplesInv, HistogramComplete, Sampling
<1> QED
  BY <1>1, TrafficInvariance, PTL

=============================================================================
