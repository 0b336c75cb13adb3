------------------------------ MODULE XdpProgram ------------------------------
(***************************************************************************)
(* The data plane: the XDP program of bpf/xdpfw.bpf.c, run by every CPU of  *)
(* the machine on the frames it receives, while user space changes the      *)
(* maps it reads.                                                           *)
(*                                                                          *)
(* One run of the program is a sequence of steps, one per access to a map   *)
(* that another CPU or user space also touches: between any two of them     *)
(* every other CPU and every administrator can move.  The per-CPU counters  *)
(* of xdpfw_stats are written by their own CPU only, so their increments    *)
(* are taken together with the access next to them.                         *)
(*                                                                          *)
(* A prefix is an abstract name; Covered gives the source addresses its     *)
(* trie node matches, so a longest-prefix lookup that finds anything is     *)
(* "some prefix of the map covers the source".                              *)
(***************************************************************************)
EXTENDS Naturals, FiniteSets, FiniteSetsExt

CONSTANTS
  Cpus,         \* the CPUs that run the program
  Prefixes,     \* names of prefixes
  PrefixesOf,   \* PrefixesOf[f]: those an administrator may put into a map of family f
  Sources,      \* source addresses
  Covered,      \* Covered[p]: the source addresses prefix p matches
  Frames,       \* the frames the interface may receive
  LoadOptions,  \* load-time constants the program may be loaded with
  PerfSlots,    \* XDPFW_PERF_SLOTS
  MaxFrames,    \* bound: frames received in one behaviour
  MaxUpdates    \* bound: map updates by user space in one behaviour

Families == {"v4", "v6"}

ASSUME CpusAssumption == IsFiniteSet(Cpus) /\ Cpus # {}
ASSUME PrefixesAssumption == PrefixesOf \in [Families -> SUBSET Prefixes]
ASSUME CoveredAssumption == Covered \in [Prefixes -> SUBSET Sources]
ASSUME FramesAssumption ==
  Frames \subseteq [len : Nat, tags : Nat, l3 : {"v4", "v6", "other"}, src : Sources]
ASSUME OptionsAssumption ==
  LoadOptions \subseteq [dryrun : BOOLEAN, metrics : BOOLEAN, perf : BOOLEAN]
ASSUME BoundsAssumption ==
  PerfSlots \in Nat \ {0} /\ MaxFrames \in Nat /\ MaxUpdates \in Nat

VARIABLES
  options,    \* the load-time constants (volatile const __u8 xdpfw_*)
  allowlist,  \* allowlist[f]: the prefixes in allowlist_<f>
  blocklist,  \* blocklist[f]: the prefixes in blocklist_<f>
  dryrun,     \* xdpfw_runtime_config[XDPFW_CFG_DRYRUN]
  stats,      \* stats[c]: the xdpfw_stats slots of CPU c
  metrics,    \* the xdpfw_metrics slots
  perf,       \* the xdpfw_perf buckets
  pc,         \* pc[c]: what the program on CPU c does next
  frame,      \* frame[c]: the frame CPU c works on, or worked on last
  verdict,    \* verdict[c]: what the program returned for frame[c]
  drops,      \* history: how many frames CPU c returned XDP_DROP for
  seen,       \* history: what was true of frame[c] while the program ran
  left        \* what is left of MaxFrames and MaxUpdates

maps == <<allowlist, blocklist, dryrun>>
counters == <<stats, metrics, perf>>
vars == <<options, maps, counters, pc, frame, verdict, drops, seen, left>>

-----------------------------------------------------------------------------
(* Parsing *)

EthLen == 14
VlanLen == 4
HeaderLen == [v4 |-> 20, v6 |-> 40]

(* The map family a frame is looked up in, "none" when the program goes     *)
(* straight to the pass label: one VLAN tag is stripped, so the program     *)
(* sees no IP under two, and every header must lie inside the frame.        *)
Family(f) ==
  IF /\ f.tags <= 1
     /\ f.l3 \in Families
     /\ f.len >= EthLen + VlanLen * f.tags + HeaderLen[f.l3]
  THEN f.l3
  ELSE "none"

(* Slip: the histogram index is not capped at the last bucket. *)
BucketUncapped(len) == Cardinality({b \in 1 .. PerfSlots : len >= 2 ^ b})

(* The histogram bucket of a length: how often it can be halved before it   *)
(* is 1, at most PerfSlots - 1 times.                                       *)
Bucket(len) == Cardinality({b \in 1 .. (PerfSlots - 1) : len >= 2 ^ b})

(* bpf_map_lookup_elem on the trie of the frame's family. *)
Matches(list, f) ==
  Family(f) # "none" /\ \E p \in list[Family(f)] : f.src \in Covered[p]

-----------------------------------------------------------------------------
(* State *)

StatSlots == {"total", "v4_match", "v6_match", "passed"}
MatchSlot == [v4 |-> "v4_match", v6 |-> "v6_match"]
MetricSlots == {"rx", "pass", "drop", "allow_hit", "block_v4", "block_v6"}
BlockSlot == [v4 |-> "block_v4", v6 |-> "block_v6"]
Steps == {"idle", "rx", "perf", "allow", "allow_hit", "block", "match",
          "dryrun", "drop", "pass"}

TypeOK ==
  /\ options \in [dryrun : BOOLEAN, metrics : BOOLEAN, perf : BOOLEAN]
  /\ allowlist \in [Families -> SUBSET Prefixes]
  /\ blocklist \in [Families -> SUBSET Prefixes]
  /\ dryrun \in BOOLEAN
  /\ stats \in [Cpus -> [StatSlots -> Nat]]
  /\ metrics \in [MetricSlots -> Nat]
  /\ perf \in [0 .. (PerfSlots - 1) -> Nat]
  /\ pc \in [Cpus -> Steps]
  /\ frame \in [Cpus -> Frames]
  /\ verdict \in [Cpus -> {"none", "pass", "drop"}]
  /\ drops \in [Cpus -> Nat]
  /\ seen \in [Cpus -> [allowed : SUBSET BOOLEAN, blocked : SUBSET BOOLEAN,
                        dryrun : SUBSET BOOLEAN]]
  /\ left \in [frames : 0 .. MaxFrames, updates : 0 .. MaxUpdates]

(* What a trie map can hold. *)
Lists == {list \in [Families -> SUBSET Prefixes] : \A f \in Families : list[f] \subseteq PrefixesOf[f]}

(* The daemon has loaded the program and seeded the runtime dryrun flag with *)
(* the configured one.  The lists hold what was added before the first frame, *)
(* or by an earlier daemon: they are pinned.                                 *)
Init ==
  /\ options \in LoadOptions
  /\ allowlist \in Lists
  /\ blocklist \in Lists
  /\ dryrun = options.dryrun
  /\ stats = [c \in Cpus |-> [s \in StatSlots |-> 0]]
  /\ metrics = [s \in MetricSlots |-> 0]
  /\ perf = [b \in 0 .. (PerfSlots - 1) |-> 0]
  /\ pc = [c \in Cpus |-> "idle"]
  /\ frame \in {[c \in Cpus |-> f] : f \in Frames}
  /\ verdict = [c \in Cpus |-> "none"]
  /\ drops = [c \in Cpus |-> 0]
  /\ seen = [c \in Cpus |-> [allowed |-> {}, blocked |-> {}, dryrun |-> {}]]
  /\ left = [frames |-> MaxFrames, updates |-> MaxUpdates]

-----------------------------------------------------------------------------
(* Counters *)

StatInc(c, slot) == stats' = [stats EXCEPT ![c][slot] = @ + 1]

MetricInc(slot) ==
  metrics' = IF options.metrics THEN [metrics EXCEPT ![slot] = @ + 1] ELSE metrics

PerfObserve(len) ==
  perf' = IF options.perf THEN [perf EXCEPT ![Bucket(len)] = @ + 1] ELSE perf

-----------------------------------------------------------------------------
(* The program, step by step *)

Goto(c, from, to) == pc[c] = from /\ pc' = [pc EXCEPT ![c] = to]

(* Slip: XDP_ABORTED for a dropped frame. *)
ReturnAborted(c, v) ==
  verdict' = [verdict EXCEPT ![c] = IF v = "drop" THEN "aborted" ELSE v]

Return(c, v) == verdict' = [verdict EXCEPT ![c] = v]

(* A frame arrives: the program starts and counts it in its CPU's slot. *)
Receive(c, f) ==
  /\ left.frames > 0
  /\ left' = [left EXCEPT !.frames = @ - 1]
  /\ Goto(c, "idle", "rx")
  /\ frame' = [frame EXCEPT ![c] = f]
  /\ Return(c, "none")
  /\ StatInc(c, "total")
  /\ UNCHANGED <<options, maps, metrics, perf, drops>>

CountRx(c) ==
  /\ Goto(c, "rx", "perf")
  /\ MetricInc("rx")
  /\ UNCHANGED <<options, maps, stats, perf, frame, verdict, drops, left>>

(* The histogram, and then the parse: it reads the frame only. *)
ObservePerf(c) ==
  /\ Goto(c, "perf", IF Family(frame[c]) = "none" THEN "pass" ELSE "allow")
  /\ PerfObserve(frame[c].len)
  /\ UNCHANGED <<options, maps, stats, metrics, frame, verdict, drops, left>>

LookupAllow(c) ==
  /\ Goto(c, "allow", IF Matches(allowlist, frame[c]) THEN "allow_hit" ELSE "block")
  /\ UNCHANGED <<options, maps, counters, frame, verdict, drops, left>>

CountAllowHit(c) ==
  /\ Goto(c, "allow_hit", "pass")
  /\ MetricInc("allow_hit")
  /\ UNCHANGED <<options, maps, stats, perf, frame, verdict, drops, left>>

(* Slips: a match is not counted; every source is looked up in blocklist_v4. *)
LookupBlockUncounted(c) ==
  /\ Goto(c, "block", IF Matches(blocklist, frame[c]) THEN "dryrun" ELSE "pass")
  /\ UNCHANGED <<options, maps, counters, frame, verdict, drops, left>>

LookupBlockV4(c) ==
  /\ Goto(c, "block", IF \E p \in blocklist["v4"] : frame[c].src \in Covered[p]
                      THEN "match" ELSE "pass")
  /\ UNCHANGED <<options, maps, counters, frame, verdict, drops, left>>

LookupBlock(c) ==
  /\ Goto(c, "block", IF Matches(blocklist, frame[c]) THEN "match" ELSE "pass")
  /\ UNCHANGED <<options, maps, counters, frame, verdict, drops, left>>

CountMatch(c) ==
  /\ Goto(c, "match", "dryrun")
  /\ StatInc(c, MatchSlot[Family(frame[c])])
  /\ MetricInc(BlockSlot[Family(frame[c])])
  /\ UNCHANGED <<options, maps, perf, frame, verdict, drops, left>>

(* Slip: the load-time constant is forgotten. *)
RuntimeDryrunOnly == dryrun

(* The flag the program obeys: the runtime flag or the load-time constant. *)
RuntimeDryrun == dryrun \/ options.dryrun

ReadDryrun(c) ==
  /\ Goto(c, "dryrun", IF RuntimeDryrun THEN "pass" ELSE "drop")
  /\ UNCHANGED <<options, maps, counters, frame, verdict, drops, left>>

(* Slip: the drop falls through to the pass counter. *)
DropFallsThrough(c) ==
  /\ Goto(c, "drop", "idle")
  /\ StatInc(c, "passed")
  /\ MetricInc("drop")
  /\ Return(c, "drop")
  /\ drops' = [drops EXCEPT ![c] = @ + 1]
  /\ UNCHANGED <<options, maps, perf, frame, left>>

Drop(c) ==
  /\ Goto(c, "drop", "idle")
  /\ MetricInc("drop")
  /\ Return(c, "drop")
  /\ drops' = [drops EXCEPT ![c] = @ + 1]
  /\ UNCHANGED <<options, maps, stats, perf, frame, left>>

Pass(c) ==
  /\ Goto(c, "pass", "idle")
  /\ StatInc(c, "passed")
  /\ MetricInc("pass")
  /\ Return(c, "pass")
  /\ UNCHANGED <<options, maps, perf, frame, drops, left>>

Program(c) ==
  \/ \E f \in Frames : Receive(c, f)
  \/ CountRx(c)
  \/ ObservePerf(c)
  \/ LookupAllow(c)
  \/ CountAllowHit(c)
  \/ LookupBlock(c)
  \/ CountMatch(c)
  \/ ReadDryrun(c)
  \/ Drop(c)
  \/ Pass(c)

-----------------------------------------------------------------------------
(* User space: one system call of an API handler on a pinned map *)

Update ==
  /\ left.updates > 0
  /\ left' = [left EXCEPT !.updates = @ - 1]
  /\ UNCHANGED <<options, counters, pc, frame, verdict, drops>>

Add(list, f, p) == [list EXCEPT ![f] = @ \cup {p}]
Del(list, f, p) == [list EXCEPT ![f] = @ \ {p}]

UpdateAllowlist(f, p) ==
  /\ Update
  /\ allowlist' \in {Add(allowlist, f, p), Del(allowlist, f, p)} \ {allowlist}
  /\ UNCHANGED <<blocklist, dryrun>>

UpdateBlocklist(f, p) ==
  /\ Update
  /\ blocklist' \in {Add(blocklist, f, p), Del(blocklist, f, p)} \ {blocklist}
  /\ UNCHANGED <<allowlist, dryrun>>

SetDryrun(on) ==
  /\ Update
  /\ dryrun # on
  /\ dryrun' = on
  /\ UNCHANGED <<allowlist, blocklist>>

Administrator ==
  \/ \E f \in Families : \E p \in PrefixesOf[f] : UpdateAllowlist(f, p) \/ UpdateBlocklist(f, p)
  \/ \E on \in BOOLEAN : SetDryrun(on)

-----------------------------------------------------------------------------
(* History: what has been true of the frame of CPU c at some moment since   *)
(* the program received it.  It is frozen when the program returns.         *)

Now(c) == [allowed |-> {Matches(allowlist, frame[c])},
           blocked |-> {Matches(blocklist, frame[c])},
           dryrun  |-> {dryrun}]

Both(s, t) == [allowed |-> s.allowed \cup t.allowed,
               blocked |-> s.blocked \cup t.blocked,
               dryrun  |-> s.dryrun \cup t.dryrun]

Observe ==
  seen' = [c \in Cpus |-> IF pc'[c] = "idle" THEN seen[c]
                          ELSE IF pc[c] = "idle" THEN Now(c)'
                          ELSE Both(seen[c], Now(c)')]

Next == ((\E c \in Cpus : Program(c)) \/ Administrator) /\ Observe

Spec == Init /\ [][Next]_vars

-----------------------------------------------------------------------------
(* Properties *)

Returned(c) == pc[c] = "idle" /\ verdict[c] # "none"

(* The verdicts that some reading of the maps during the run allows. *)
Droppable(c) ==
  /\ ~options.dryrun
  /\ FALSE \in seen[c].allowed
  /\ TRUE \in seen[c].blocked
  /\ FALSE \in seen[c].dryrun

Passable(c) ==
  \/ Family(frame[c]) = "none"
  \/ TRUE \in seen[c].allowed
  \/ FALSE \in seen[c].blocked
  \/ TRUE \in seen[c].dryrun
  \/ options.dryrun

(* A frame is dropped only if, while the program ran on it, the program was  *)
(* not loaded in dryrun and at some moment each: no allowlist entry covered  *)
(* its source, a blocklist entry did, and the runtime dryrun flag was off.   *)
(* Three separate map reads (bpf/xdpfw.bpf.c:180, 185, 188) decide it while  *)
(* administrators write the maps: a source that is allowlisted throughout    *)
(* is never dropped, whatever happens to the other maps.                     *)
DropJustified ==
  \A c \in Cpus : Returned(c) /\ verdict[c] = "drop" => Droppable(c)

(* An IP frame is passed only if it could be: at some moment of the run an   *)
(* allowlist entry covered its source, or no blocklist entry did, or dryrun  *)
(* was in force.  Hence every frame received after a block was answered, and *)
(* while it stays, is dropped by an enforcing program.                       *)
PassJustified ==
  \A c \in Cpus : Returned(c) /\ verdict[c] = "pass" => Passable(c)

(* One CPU's share of a total: 1 while the frame it works on is counted as   *)
(* received and not yet as passed or dropped.                                *)
InFlight(c) == IF pc[c] = "idle" THEN 0 ELSE 1

(* The per-CPU slots are a ledger of the verdicts: every frame counted in    *)
(* packets_total was passed, was dropped or is in flight, and a drop was     *)
(* always counted as an IPv4 or IPv6 match first (bpf/xdpfw.bpf.c:151,       *)
(* 186, 208, 218).  So "total - passed" is the drops an operator reads.      *)
StatsLedger ==
  \A c \in Cpus :
    /\ stats[c].total = stats[c].passed + drops[c] + InFlight(c)
    /\ drops[c] <= stats[c].v4_match + stats[c].v6_match

(* The shared metrics array balances too, although its increments race:      *)
(* with metrics enabled every received frame is counted as passed, as        *)
(* dropped, or is on a CPU between the two counters, and every drop was      *)
(* counted as a block hit before it (bpf/xdpfw.bpf.c:152, 187, 189, 219);    *)
(* with metrics disabled the array stays zero.                               *)
MetricsLedger ==
  LET Between == {c \in Cpus : pc[c] \notin {"idle", "rx"}}
      Dropping == {c \in Cpus : pc[c] = "drop"}
  IN  IF options.metrics
      THEN /\ metrics["rx"] = metrics["pass"] + metrics["drop"] + Cardinality(Between)
           /\ metrics["drop"] + Cardinality(Dropping)
                <= metrics["block_v4"] + metrics["block_v6"]
      ELSE \A s \in MetricSlots : metrics[s] = 0

(* No sample is lost: with the histogram enabled, every frame that is past    *)
(* perf_observe is in some bucket, also a frame longer than the last bucket's *)
(* power of two (a bucket the array does not have would be looked up in vain, *)
(* bpf/xdpfw.bpf.c:133-135).                                                  *)
HistogramComplete ==
  options.perf =>
    MapThenSumSet(LAMBDA c : stats[c].total, Cpus)
      = MapThenSumSet(LAMBDA b : perf[b], DOMAIN perf)
          + Cardinality({c \in Cpus : pc[c] \in {"rx", "perf"}})

=============================================================================
