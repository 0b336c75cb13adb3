-------------------------- MODULE FirewallApiProofs --------------------------
(***************************************************************************)
(* Theorems about FirewallApi, for every number of requests at a time, every *)
(* set of keys and every size of a trie: the types, the tries held open,     *)
(* truthful outcomes, flushes that clear, lists that are faithful; and that *)
(* FirewallApi implements PrefixSet (at the end).                           *)
(*                                                                          *)
(* The argument has two halves.  At(c) relates a handler's progress to the  *)
(* history of its request; what other requests do shrinks the keys that     *)
(* were always there and grows those that were ever there, and At(c) only   *)
(* gets weaker by that (OthersKeep).  A handler's own steps keep it action  *)
(* by action.                                                               *)
(***************************************************************************)
EXTENDS FirewallApi, FiniteSetTheorems, FunctionTheorems, TLAPS

(* Min of the community modules is a CHOOSE: on naturals there is a least element. *)
LEMMA MinOfNat ==
  ASSUME NEW S \in SUBSET Nat, S # {}
  PROVE  Min(S) \in S /\ \A k \in S : Min(S) <= k
<1>1. \A x, y \in Nat : x < y => <<x, y>> \in OpToRel(<, Nat)
  BY SMT DEF OpToRel
<1>2. PICK m \in S : \A k \in S : ~(<<k, m>> \in OpToRel(<, Nat))
  BY NatLessThanWellFounded, WFMin
<1>3. \A k \in S : ~(k < m)
  BY <1>1, <1>2, Zenon
<1>4. \A k \in S : m <= k
  BY <1>3
<1> QED
  BY <1>4 DEF Min

(* Parsed keeps the entries that are prefixes, each of them and no other (api.go:145-160). *)
LEMMA ParsedProperties ==
  ASSUME NEW S, NEW T, NEW entries \in Seq(T)
  PROVE  /\ Parsed(entries, S) \in Seq(S)
         /\ Range(Parsed(entries, S)) = Range(entries) \cap S
<1> DEFINE kept == {i \in DOMAIN entries : entries[i] \in S}
           upto(i) == {j \in kept : j <= i}
           rank(i) == Cardinality(upto(i))
           at(n) == CHOOSE i \in kept : rank(i) = n
           size == Cardinality(kept)
<1>1. kept \subseteq Nat /\ IsFiniteSet(kept) /\ size \in Nat
  <2>1. DOMAIN entries = 1 .. Len(entries) /\ Len(entries) \in Nat
    OBVIOUS
  <2>2. IsFiniteSet(1 .. Len(entries))
    BY <2>1, FS_Interval
  <2>3. kept \in SUBSET (1 .. Len(entries))
    BY <2>1
  <2>4. IsFiniteSet(kept)
    BY <2>2, <2>3, FS_Subset
  <2> QED
    BY <2>3, <2>4, FS_CardinalityType
<1>2. ASSUME NEW i \in kept PROVE IsFiniteSet(upto(i)) /\ rank(i) \in 1 .. size
  <2>1. upto(i) \in SUBSET kept /\ upto(i) # {}
    BY <1>1
  <2> HIDE DEF kept, upto
  <2>2. IsFiniteSet(upto(i)) /\ Cardinality(upto(i)) <= Cardinality(kept)
    BY <1>1, <2>1, FS_Subset
  <2>3. Cardinality(upto(i)) # 0 /\ Cardinality(upto(i)) \in Nat
    BY <2>1, <2>2, FS_EmptySet, FS_CardinalityType
  <2> QED
    BY <1>1, <2>2, <2>3
<1>3. ASSUME NEW i \in kept, NEW k \in kept, i < k PROVE rank(i) < rank(k)
  <2>1. upto(i) \in SUBSET upto(k) /\ upto(i) # upto(k)
    <3>1. upto(i) \in SUBSET upto(k) 
      BY <1>1, <1>3
    <3>2. k \in upto(k) /\ k \notin upto(i)
      BY <1>1, <1>3
    <3> QED
      BY <3>1, <3>2
  <2> HIDE DEF kept, upto, size
  <2>2. IsFiniteSet(upto(k)) /\ rank(i) \in Nat /\ rank(k) \in Nat
    BY <1>2, <1>1
  <2>3. rank(i) <= rank(k) /\ rank(i) # rank(k)
    BY <2>1, <2>2, FS_Subset
  <2> QED
    BY <2>2, <2>3
<1> HIDE DEF kept, upto, rank, size
<1>4. ASSUME NEW i \in kept, NEW k \in kept, rank(i) = rank(k) PROVE i = k
  <2>1. ~(i < k) /\ ~(k < i)
    BY <1>1, <1>2, <1>3, <1>4
  <2> QED
    BY <1>1, <2>1
<1>5. \A n \in 1 .. size : \E i \in kept : rank(i) = n
  <2> DEFINE ranks == [i \in kept |-> rank(i)]
  <2>1. ranks \in [kept -> 1 .. size]
    BY <1>2
  <2>2. ranks \in Injection(kept, 1 .. size)
    BY <1>4, <2>1, Fun_IsInj
  <2>3. IsFiniteSet(1 .. size) /\ Cardinality(1 .. size) = size
    BY <1>1, FS_Interval
  <2>4. ranks \in Surjection(kept, 1 .. size)
    BY <2>2, <2>3, FS_Injection DEF size
  <2> QED
    BY <2>4 DEF Surjection
<1>6. \A n \in 1 .. size : at(n) \in kept /\ rank(at(n)) = n
  BY <1>5
<1>7. \A i \in kept : rank(i) \in 1 .. size /\ at(rank(i)) = i
  BY <1>2, <1>4, <1>6
<1>8. Parsed(entries, S) = [n \in 1 .. size |-> entries[at(n)]]
  BY DEF Parsed, kept, rank, upto, size
<1> HIDE DEF at
<1>9. \A i : i \in kept <=> i \in DOMAIN entries /\ entries[i] \in S
  BY DEF kept
<1>10. Parsed(entries, S) \in Seq(S)
  BY <1>1, <1>6, <1>8, <1>9
<1>11. Range(Parsed(entries, S)) = Range(entries) \cap S
  <2>1. ASSUME NEW x \in Range(entries) \cap S PROVE x \in Range(Parsed(entries, S))
    BY <1>7, <1>8, <1>9, <2>1 DEF Range
  <2>2. ASSUME NEW x \in Range(Parsed(entries, S)) PROVE x \in Range(entries) \cap S
    BY <1>6, <1>8, <1>9, <2>2 DEF Range
  <2> QED
    BY <2>1, <2>2
<1> QED
  BY <1>10, <1>11

(* What appending to a sequence and taking its head off do to its elements. *)
LEMMA RangeProperties ==
  ASSUME NEW S, NEW s \in Seq(S)
  PROVE  /\ Range(s) \subseteq S
         /\ \A x \in S : Range(Append(s, x)) = Range(s) \cup {x}
         /\ s # <<>> => Range(s) = {Head(s)} \cup Range(Tail(s))
<1>1. ASSUME NEW x \in S PROVE Range(Append(s, x)) = Range(s) \cup {x}
  <2>1. ASSUME NEW y \in Range(s) PROVE y \in Range(Append(s, x))
    <3>1. PICK i \in 1 .. Len(s) : s[i] = y
      BY DEF Range
    <3>2. i \in DOMAIN Append(s, x) /\ Append(s, x)[i] = y
      BY <3>1
    <3> QED
      BY <3>2 DEF Range
  <2>2. x \in Range(Append(s, x))
    <3>1. Len(s) + 1 \in DOMAIN Append(s, x) /\ Append(s, x)[Len(s) + 1] = x
      OBVIOUS
    <3> QED
      BY <3>1 DEF Range
  <2>3. ASSUME NEW y \in Range(Append(s, x)) PROVE y \in Range(s) \cup {x}
    <3>1. PICK i \in 1 .. Len(s) + 1 : Append(s, x)[i] = y
      BY DEF Range
    <3> QED
      BY <3>1 DEF Range
  <2> QED
    BY <2>1, <2>2, <2>3
<1>2. ASSUME s # <<>> PROVE Range(s) = {Head(s)} \cup Range(Tail(s))
  <2>1. ASSUME NEW y \in Range(s) PROVE y \in {Head(s)} \cup Range(Tail(s))
    <3>1. PICK i \in 1 .. Len(s) : s[i] = y
      BY DEF Range
    <3>2. CASE i = 1
      BY <1>2, <3>1, <3>2
    <3>3. CASE i # 1
      <4>1. i - 1 \in DOMAIN Tail(s) /\ Tail(s)[i - 1] = y
        BY <1>2, <3>1, <3>3
      <4> QED
        BY <4>1 DEF Range
    <3> QED
      BY <3>2, <3>3
  <2>2. ASSUME NEW y \in {Head(s)} \cup Range(Tail(s)) PROVE y \in Range(s)
    BY <1>2 DEF Range
  <2> QED
    BY <2>1, <2>2
<1>3. Range(s) \subseteq S
  BY DEF Range
<1> QED
  BY <1>1, <1>2, <1>3

-----------------------------------------------------------------------------
(* Types *)

JobFields == {"request", "todo", "family", "cursor", "count", "found", "applied", "errors", "code"}

JobOK(j) ==
  /\ DOMAIN j = JobFields
  /\ j.request \in Requests \cup {NoRequest}
  /\ j.todo \in Seq(Keys) /\ j.found \in Seq(Keys)
  /\ j.family \in Families /\ j.cursor \in Keys \cup {0}
  /\ j.count \in 0 .. (MaxEntries + 1)
  /\ j.applied \subseteq Keys /\ j.errors \subseteq Keys
  /\ j.code \in Codes

Typed ==
  /\ TypeOK
  /\ DOMAIN job = Clients
  /\ \A c \in Clients : JobOK(job[c])
  /\ \A c \in Clients : pc[c] # "idle" => Request(c) \in Requests
  /\ \A c \in Clients : pc[c] = "look" => job[c].cursor \in Keys

(* The named codes, families and steps, so that no proof has to expand the sets. *)
LEMMA Literals ==
  /\ 0 \in Codes /\ 200 \in Codes /\ 207 \in Codes /\ 400 \in Codes /\ 500 \in Codes /\ 503 \in Codes
  /\ "v4" \in Families /\ "v6" \in Families
  /\ "idle" \in Steps /\ "check" \in Steps /\ "open_v4" \in Steps /\ "open_v6" \in Steps
  /\ "apply" \in Steps /\ "next" \in Steps /\ "look" \in Steps /\ "delete" \in Steps
  /\ "reply" \in Steps /\ "close" \in Steps
BY DEF Codes, Families, Steps

(* The next entry of a handler is a key. *)
LEMMA EntryProperties ==
  ASSUME NEW c \in Clients, JobOK(job[c]), job[c].todo # <<>>
  PROVE  Entry(c) \in Keys /\ Tail(job[c].todo) \in Seq(Keys)
BY DEF JobOK, Entry

(* What a request's entries are parsed into are keys. *)
LEMMA ParsedRequest ==
  ASSUME NEW r \in Requests
  PROVE  Parsed(r.entries, Keys) \in Seq(Keys) /\ Range(Parsed(r.entries, Keys)) \subseteq Keys
<1>1. r.entries \in Seq(Keys \cup {Bad, Skip})
  BY RequestsAssumption
<1> QED
  BY <1>1, ParsedProperties

(* A handler works on the set of the kind its request names. *)
LEMMA TypedKinds ==
  ASSUME Typed, NEW c \in Clients, pc[c] # "idle"
  PROVE  Request(c).kind \in Kinds /\ Set(c) \subseteq Keys /\ Trie(c) \subseteq Set(c)
BY RequestsAssumption DEF Typed, TypeOK, Set, Trie

(* The key an iterator advances to is the first one after its cursor. *)
LEMMA NextCursor ==
  ASSUME Typed, NEW c \in Clients, pc[c] # "idle", After(Trie(c), job[c].cursor) # {}
  PROVE  /\ Min(After(Trie(c), job[c].cursor)) \in Trie(c)
         /\ Min(After(Trie(c), job[c].cursor)) \in Keys
         /\ \A k \in After(Trie(c), job[c].cursor) : Min(After(Trie(c), job[c].cursor)) <= k
<1>1. Trie(c) \subseteq Keys /\ After(Trie(c), job[c].cursor) \subseteq Trie(c)
  BY TypedKinds DEF After
<1>2. After(Trie(c), job[c].cursor) \in SUBSET Nat
  BY <1>1, KeysAssumption
<1> HIDE DEF Typed
<1> QED
  BY <1>1, <1>2, MinOfNat

(* The effect of a step on the types of what it changes. *)
StepTyped(c) ==
  /\ pinned' = pinned
  /\ store' \in [Kinds -> SUBSET Keys]
  /\ pc' \in [Clients -> Steps]
  /\ DOMAIN job' = Clients
  /\ \A d \in Clients \ {c} : job'[d] = job[d] /\ pc'[d] = pc[d] /\ fds'[d] = fds[d]
  /\ JobOK(job'[c])
  /\ fds' \in [Clients -> SUBSET Families]
  /\ pc'[c] # "idle" => Request(c)' \in Requests
  /\ pc'[c] = "look" => job'[c].cursor \in Keys

(* Every action of a handler has that effect: one step per action. *)
LEMMA TypedSteps ==
  ASSUME Typed, NEW c \in Clients,
         Handle(c) \/ \E r \in Requests : Receive(c, r)
  PROVE  StepTyped(c)
<1>a. job[c].todo # <<>> => Entry(c) \in Keys /\ Tail(job[c].todo) \in Seq(Keys)
  BY EntryProperties DEF Typed
<1>b. pc[c] # "idle" => Request(c).kind \in Kinds /\ Set(c) \subseteq Keys
  BY TypedKinds
<1> USE Literals DEF Typed, TypeOK, JobOK, JobFields, Goto, Answer, Request, StepTyped
<1>1. ASSUME NEW r \in Requests, Receive(c, r) PROVE StepTyped(c)
  BY <1>1, MaxEntriesAssumption DEF Receive, Job
<1>2. ASSUME RejectRequest(c) PROVE StepTyped(c)
  BY <1>2 DEF RejectRequest
<1>3. ASSUME AnswerDryrun(c) PROVE StepTyped(c)
  BY <1>3, ParsedRequest DEF AnswerDryrun
<1>4. ASSUME AcceptRequest(c) PROVE StepTyped(c)
  BY <1>4, ParsedRequest DEF AcceptRequest
<1>5. ASSUME AddEntry(c) PROVE StepTyped(c)
  <2>1. store' \in [Kinds -> SUBSET Keys]
    BY <1>5, <1>a, <1>b DEF AddEntry, Take
  <2> QED
    BY <1>5, <1>a, <2>1 DEF AddEntry, Take, Applied
<1>6. ASSUME AddFails(c) PROVE StepTyped(c)
  BY <1>6, <1>a DEF AddFails, Take, Refused
<1>7. ASSUME DelEntry(c) PROVE StepTyped(c)
  <2>1. store' \in [Kinds -> SUBSET Keys]
    BY <1>7, <1>a, <1>b DEF DelEntry, Take
  <2> QED
    BY <1>7, <1>a, <2>1 DEF DelEntry, Take, Applied
<1>8. ASSUME DelFails(c) PROVE StepTyped(c)
  BY <1>8, <1>a DEF DelFails, Take, Refused
<1>9. ASSUME AnswerMutation(c) PROVE StepTyped(c)
  BY <1>9 DEF AnswerMutation
<1>10. ASSUME OpenV4(c) PROVE StepTyped(c)
  BY <1>10 DEF OpenV4
<1>23. ASSUME OpenV4Fails(c) PROVE StepTyped(c)
  BY <1>23 DEF OpenV4Fails
<1>11. ASSUME OpenV6(c) PROVE StepTyped(c)
  BY <1>11 DEF OpenV6
<1>12. ASSUME OpenV6Fails(c) PROVE StepTyped(c)
  BY <1>12 DEF OpenV6Fails
<1>13. ASSUME NextKey(c) PROVE StepTyped(c)
  BY <1>13, MaxEntriesAssumption, NextCursor DEF NextKey, Exhausted
<1>14. ASSUME LookupKey(c) PROVE StepTyped(c)
  BY <1>14 DEF LookupKey
<1>15. ASSUME AbortIteration(c) PROVE StepTyped(c)
  BY <1>15 DEF AbortIteration
<1>16. ASSUME ListIPv6(c) PROVE StepTyped(c)
  BY <1>16, MaxEntriesAssumption DEF ListIPv6
<1>17. ASSUME AnswerList(c) PROVE StepTyped(c)
  BY <1>17 DEF AnswerList
<1>18. ASSUME BeginDelete(c) PROVE StepTyped(c)
  BY <1>18 DEF BeginDelete
<1>19. ASSUME DeleteEntry(c) PROVE StepTyped(c)
  <2>1. store' \in [Kinds -> SUBSET Keys]
    BY <1>19, <1>a, <1>b DEF DeleteEntry, Take
  <2> QED
    BY <1>19, <1>a, <2>1 DEF DeleteEntry, Take
<1>24. ASSUME DeleteFails(c) PROVE StepTyped(c)
  BY <1>24 DEF DeleteFails, Take
<1>20. ASSUME FlushIPv6(c) PROVE StepTyped(c)
  BY <1>20, MaxEntriesAssumption DEF FlushIPv6
<1>21. ASSUME AnswerFlush(c) PROVE StepTyped(c)
  BY <1>21 DEF AnswerFlush
<1>22. ASSUME Respond(c) PROVE StepTyped(c)
  BY <1>22, MaxEntriesAssumption DEF Respond, Job
<1> QED
  BY <1>1, <1>2, <1>3, <1>4, <1>5, <1>6, <1>7, <1>8, <1>9, <1>10, <1>11, <1>12, <1>13, <1>14, <1>15, <1>16,
     <1>17, <1>18, <1>19, <1>20, <1>21, <1>22, <1>23, <1>24 DEF Handle, Mutate, Open, Iterate, List, Flush

HistoryType == [stable : SUBSET Keys, ever : SUBSET Keys, wrote : BOOLEAN]

(* The history keeps its type. *)
LEMMA TrackTyped ==
  ASSUME Typed, NEW movers, Track(movers),
         store' \in [Kinds -> SUBSET Keys],
         \A c \in Clients : pc'[c] # "idle" => Request(c)' \in Requests
  PROVE  hist' \in [Clients -> HistoryType]
<1>1. ASSUME NEW c \in Clients, pc'[c] # "idle" PROVE Set(c)' \subseteq Keys
  BY <1>1, RequestsAssumption DEF Set
<1>2. hist \in [Clients -> HistoryType]
  BY DEF Typed, TypeOK, HistoryType
<1>3. ASSUME NEW c \in Clients PROVE hist'[c] \in HistoryType
  <2>1. CASE pc'[c] = "idle"
    BY <2>1 DEF Track, HistoryType, NoHistory, Started
  <2>2. CASE pc'[c] # "idle" /\ pc[c] = "idle"
    BY <1>1, <2>2 DEF Track, HistoryType, Started
  <2>3. CASE pc'[c] # "idle" /\ pc[c] # "idle"
    BY <1>1, <1>2, <2>3 DEF Track, HistoryType
  <2> QED
    BY <2>1, <2>2, <2>3
<1> QED
  BY <1>3 DEF Track

(* Typed is inductive: the initial states, a map that is pinned, a handler's step. *)
LEMMA TypedInit == Init => Typed
<1> SUFFICES ASSUME Init PROVE Typed
  OBVIOUS
<1>1. \A c \in Clients : job[c] = Job(NoRequest) /\ JobOK(job[c])
  <2>1. JobOK(Job(NoRequest))
    BY MaxEntriesAssumption, Literals DEF Job, JobOK, JobFields
  <2> QED
    BY <2>1 DEF Init
<1>2. hist \in [Clients -> HistoryType]
  BY DEF Init, NoHistory, Started, HistoryType
<1>3. TypeOK
  BY <1>1, <1>2, Literals DEF Init, TypeOK, HistoryType, JobOK
<1> QED
  BY <1>1, <1>3 DEF Init, Typed

(* Pinning a map changes no handler. *)
LEMMA PinTyped ==
  ASSUME Typed, NEW kind \in Kinds, NEW f \in Families, PinMap(kind, f), Track({})
  PROVE  Typed'
<1>1. /\ pinned' \subseteq Kinds \X Families
      /\ UNCHANGED <<store, pc, job, fds>>
  BY DEF PinMap, Typed, TypeOK
<1>2. hist' \in [Clients -> HistoryType]
  <2>1. \A c \in Clients : pc'[c] # "idle" => Request(c)' \in Requests
    BY <1>1 DEF Typed, Request
  <2> QED
    BY <1>1, <2>1, TrackTyped DEF Typed, TypeOK
<1> QED
  BY <1>1, <1>2 DEF Typed, TypeOK, Request, HistoryType

(* A handler's step changes no other handler's variables. *)
LEMMA StepKeepsTyped ==
  ASSUME Typed, NEW c \in Clients, StepTyped(c), Track({c})
  PROVE  Typed'
<1>1. \A d \in Clients : /\ JobOK(job'[d])
                         /\ pc'[d] # "idle" => Request(d)' \in Requests
                         /\ pc'[d] = "look" => job'[d].cursor \in Keys
  BY DEF Typed, StepTyped, Request
<1>2. hist' \in [Clients -> HistoryType]
  BY <1>1, TrackTyped DEF StepTyped
<1>3. TypeOK'
  BY <1>1, <1>2 DEF Typed, TypeOK, StepTyped, JobOK, HistoryType
<1> QED
  BY <1>1, <1>3 DEF Typed, StepTyped

(* Every step keeps the types. *)
LEMMA TypedNext == Typed /\ [Next]_vars => Typed'
<1>1. ASSUME Typed, UNCHANGED vars PROVE Typed'
  BY <1>1 DEF Typed, TypeOK, vars, Request
<1>2. ASSUME Typed, NEW kind \in Kinds, NEW f \in Families, PinMap(kind, f), Track({}) PROVE Typed'
  BY <1>2, PinTyped
<1>3. ASSUME Typed, NEW c \in Clients, NEW r \in Requests, Receive(c, r), Track({c}) PROVE Typed'
  BY <1>3, TypedSteps, StepKeepsTyped
<1>4. ASSUME Typed, NEW c \in Clients, Step(c) PROVE Typed'
  BY <1>4, TypedSteps, StepKeepsTyped DEF Step
<1> QED
  BY <1>1, <1>2, <1>3, <1>4 DEF Next

(* The variables of every handler keep their types, an iterator's count stays *)
(* within its bound and its cursor within the keys, in every instance.       *)
THEOREM TypeCorrect == Spec => []TypeOK
<1>1. Typed => TypeOK
  BY DEF Typed
<1> QED
  BY <1>1, TypedInit, TypedNext, PTL DEF Spec

-----------------------------------------------------------------------------
(* The inductive invariant, for the request of client c *)

Mutates(c) == Request(c).op \in {"add", "del"}
Walks(c) == Request(c).op \in {"list", "flush"}
FamilyOf(c) == FamilyKeys[job[c].family]

(* What a handler holds open is decided by how far it is. *)
HeldAt(c) ==
  fds[c] = IF pc[c] \in {"idle", "check", "open_v4", "reply"} THEN {}
           ELSE IF pc[c] = "open_v6" THEN {"v4"} ELSE Families

(* What the handler's local variables may be at each step. *)
FlowAt(c) ==
  /\ pc[c] = "idle" => job[c] = Job(NoRequest) /\ hist[c] = NoHistory
  /\ pc[c] \in {"check", "apply"} => Mutates(c)
  /\ pc[c] \in {"next", "look", "delete"} => Walks(c)
  /\ pc[c] = "delete" => Request(c).op = "flush" /\ job[c].found = <<>>
  /\ ~Done(c) => job[c].code = 0
  /\ pc[c] \in {"check", "open_v4", "open_v6"} =>
       /\ job[c].family = "v4" /\ job[c].cursor = 0 /\ job[c].found = <<>>
       /\ job[c].applied = {} /\ job[c].errors = {} /\ ~hist[c].wrote
  /\ pc[c] \in {"open_v4", "open_v6", "apply"} /\ Mutates(c) =>
       ~Rejected(Request(c).entries) /\ ~Request(c).dryrun
  /\ Mutates(c) => job[c].found = <<>>
  /\ Walks(c) => job[c].applied = {} /\ job[c].errors = {}
  /\ pc[c] = "look" => job[c].cursor \in FamilyOf(c)

(* The history of a request agrees with the set as it is. *)
RecordedAt(c) ==
  pc[c] # "idle" => hist[c].stable \subseteq Set(c) /\ Set(c) \subseteq hist[c].ever

(* A mutation has applied or refused the entries that are no longer to do. *)
MutationAt(c) ==
  /\ pc[c] \in {"open_v4", "open_v6"} /\ Mutates(c) =>
       job[c].todo = Parsed(Request(c).entries, Keys)
  /\ pc[c] = "apply" =>
       job[c].applied \cup job[c].errors \cup Range(job[c].todo)
         = Range(Parsed(Request(c).entries, Keys))
  /\ pc[c] = "apply" /\ Request(c).op = "add" => job[c].applied \subseteq hist[c].ever
  /\ pc[c] = "apply" /\ Request(c).op = "del" => job[c].applied \cap hist[c].stable = {}
  /\ Answered(c, {"add", "del"}, {200, 207}) /\ ~Request(c).dryrun =>
       /\ job[c].applied \cup job[c].errors = Range(Parsed(Request(c).entries, Keys))
       /\ job[c].code = 207 <=> job[c].errors # {}
       /\ Request(c).op = "add" => job[c].applied \subseteq hist[c].ever
       /\ Request(c).op = "del" => job[c].applied \cap hist[c].stable = {}

(* Of the keys there all the time, an iterator has read those it went past;  *)
(* a flush that deletes still has to delete them; what was done in IPv4       *)
(* stays done while the IPv6 trie is walked.                                 *)
WalkAt(c) ==
  /\ pc[c] \in {"next", "look"} =>
       \A k \in hist[c].stable \cap FamilyOf(c) :
         k < job[c].cursor \/ (k = job[c].cursor /\ pc[c] = "next") => k \in Range(job[c].found)
  /\ pc[c] = "delete" => hist[c].stable \cap FamilyOf(c) \subseteq Range(job[c].todo)
  /\ pc[c] \in {"next", "look", "delete"} /\ job[c].family = "v6" =>
       IF Request(c).op = "list" THEN hist[c].stable \cap Keys4 \subseteq Range(job[c].found)
                                 ELSE hist[c].stable \cap Keys4 = {}
  /\ pc[c] \in {"next", "look"} /\ Request(c).op = "list" =>
       Range(job[c].found) \subseteq hist[c].ever
  /\ pc[c] = "look" => job[c].cursor \in hist[c].ever
  /\ Answered(c, {"flush"}, {200}) => hist[c].stable = {}
  /\ Answered(c, {"list"}, {200}) =>
       /\ hist[c].stable \subseteq Range(job[c].found)
       /\ Range(job[c].found) \subseteq hist[c].ever

At(c) == HeldAt(c) /\ FlowAt(c) /\ RecordedAt(c) /\ MutationAt(c) /\ WalkAt(c)

IInv == Typed /\ \A c \in Clients : At(c)

-----------------------------------------------------------------------------
(* Steps of others *)

(* What others do can only make a request's history weaker. *)
LEMMA Weakened ==
  ASSUME Typed, Typed', NEW c \in Clients, NEW movers, c \notin movers, Track(movers),
         pc'[c] = pc[c], pc[c] # "idle"
  PROVE  /\ hist'[c].stable \subseteq hist[c].stable /\ hist'[c].stable \subseteq Set(c)'
         /\ hist[c].ever \subseteq hist'[c].ever /\ Set(c)' \subseteq hist'[c].ever
         /\ hist'[c].wrote = hist[c].wrote
<1>1. hist'[c] = [ stable |-> hist[c].stable \cap Set(c)', ever |-> hist[c].ever \cup Set(c)',
                   wrote  |-> hist[c].wrote \/ FALSE ]
  BY DEF Track
<1>2. hist[c].wrote \in BOOLEAN
  BY DEF Typed, TypeOK
<1> QED
  BY <1>1, <1>2

(* So the invariant of a request survives the steps of all other requests. *)
LEMMA OthersKeep ==
  ASSUME Typed, Typed', NEW c \in Clients, At(c), NEW movers, c \notin movers, Track(movers),
         pc'[c] = pc[c], job'[c] = job[c], fds'[c] = fds[c]
  PROVE  At(c)'
<1>1. CASE pc[c] = "idle"
  <2>1. hist'[c] = NoHistory
    BY <1>1 DEF Track
  <2>2. job[c] = Job(NoRequest) /\ job[c].code = 0 /\ ~Mutates(c) /\ Walks(c)
        /\ job[c].applied = {} /\ job[c].errors = {}
    BY <1>1 DEF At, FlowAt, Job, Mutates, Walks, Request, NoRequest
  <2> QED
    BY <1>1, <2>1, <2>2 DEF At, HeldAt, FlowAt, RecordedAt, MutationAt, WalkAt, Answered, Done, Mutates, Walks, Request
<1>2. CASE pc[c] # "idle"
  <2>1. /\ hist'[c].stable \subseteq hist[c].stable /\ hist'[c].stable \subseteq Set(c)'
        /\ hist[c].ever \subseteq hist'[c].ever /\ Set(c)' \subseteq hist'[c].ever
        /\ hist'[c].wrote = hist[c].wrote
    BY <1>2, Weakened
  <2>2. HeldAt(c)' /\ FlowAt(c)' /\ RecordedAt(c)'
    BY <1>2, <2>1 DEF At, HeldAt, FlowAt, RecordedAt, Done, Mutates, Walks, Request, FamilyOf
  <2>3. MutationAt(c)'
    BY <1>2, <2>1 DEF At, MutationAt, Answered, Mutates, Request
  <2>4. WalkAt(c)'
    BY <1>2, <2>1 DEF At, WalkAt, Answered, Request, FamilyOf
  <2> QED
    BY <2>2, <2>3, <2>4 DEF At
<1> QED
  BY <1>1, <1>2

-----------------------------------------------------------------------------
(* The step of the client itself *)

(* A step that writes nothing leaves the history of its request as it is. *)
LEMMA Quiet ==
  ASSUME IInv, NEW c \in Clients, Track({c}), store' = store, Request(c)' = Request(c),
         pc[c] # "idle", pc'[c] # "idle", pc[c] \notin {"apply", "delete"} \/ job[c].todo = <<>>
  PROVE  hist'[c] = hist[c] /\ Set(c)' = Set(c)
<1>1. Set(c)' = Set(c)
  BY DEF Set
<1>2. hist'[c] = [ stable |-> hist[c].stable \cap Set(c), ever |-> hist[c].ever \cup Set(c),
                   wrote  |-> hist[c].wrote \/ FALSE ]
  BY <1>1 DEF Track
<1>3. hist[c] \in HistoryType /\ hist[c].stable \subseteq Set(c) /\ Set(c) \subseteq hist[c].ever
  BY DEF IInv, Typed, TypeOK, HistoryType, At, RecordedAt
<1>4. hist'[c] = [ stable |-> hist[c].stable, ever |-> hist[c].ever, wrote |-> hist[c].wrote ]
  BY <1>2, <1>3 DEF HistoryType
<1> QED
  BY <1>1, <1>3, <1>4 DEF HistoryType

(* One that writes. *)
LEMMA Wrote ==
  ASSUME IInv, NEW c \in Clients, Track({c}), Request(c)' = Request(c),
         pc'[c] = pc[c], pc[c] \in {"apply", "delete"}
  PROVE  /\ hist'[c].stable = hist[c].stable \cap Set(c)'
         /\ hist'[c].ever = hist[c].ever \cup Set(c)'
BY DEF Track

(* A new request starts with the set as it is. *)
LEMMA ReceiveKeeps ==
  ASSUME IInv, NEW c \in Clients, NEW r \in Requests, Receive(c, r), Track({c})
  PROVE  At(c)'
<1> USE DEF IInv, Typed, JobOK, JobFields
<1>1. /\ pc[c] = "idle" /\ fds[c] = {} /\ fds'[c] = {}
      /\ pc'[c] = IF r.op \in {"add", "del"} THEN "check" ELSE "open_v4"
      /\ job'[c] = Job(r)
  BY DEF Receive, Goto, At, HeldAt, TypeOK
<1>2. hist'[c] = Started(Set(c)')
  BY <1>1 DEF Track
<1>3. r.op \in Operations
  BY RequestsAssumption
<1> QED
  BY <1>1, <1>2, <1>3 DEF At, HeldAt, FlowAt, RecordedAt, MutationAt, WalkAt, Answered, Done, Mutates, Walks, Request,
     Job, Started, Operations

(* An entry that is taken off the list is counted as applied or as refused. *)
LEMMA EntryTaken ==
  ASSUME NEW c \in Clients, DOMAIN job = Clients, DOMAIN job[c] = JobFields, Applied(c) \/ Refused(c)
  PROVE  /\ Request(c)' = Request(c) /\ job'[c].todo = Tail(job[c].todo)
         /\ job'[c].found = job[c].found /\ job'[c].code = job[c].code /\ job'[c].family = job[c].family
         /\ job'[c].applied \cup job'[c].errors = job[c].applied \cup job[c].errors \cup {Entry(c)}
         /\ Applied(c) => job'[c].applied = job[c].applied \cup {Entry(c)}
         /\ Refused(c) => job'[c].applied = job[c].applied
<1>1. ASSUME Applied(c)
      PROVE  /\ Request(c)' = Request(c) /\ job'[c].todo = Tail(job[c].todo)
             /\ job'[c].found = job[c].found /\ job'[c].code = job[c].code /\ job'[c].family = job[c].family
             /\ job'[c].applied = job[c].applied \cup {Entry(c)} /\ job'[c].errors = job[c].errors
  BY <1>1 DEF Applied, Request, JobFields
<1>2. ASSUME Refused(c)
      PROVE  /\ Request(c)' = Request(c) /\ job'[c].todo = Tail(job[c].todo)
             /\ job'[c].found = job[c].found /\ job'[c].code = job[c].code /\ job'[c].family = job[c].family
             /\ job'[c].errors = job[c].errors \cup {Entry(c)} /\ job'[c].applied = job[c].applied
  BY <1>2 DEF Refused, Request, JobFields
<1> QED
  BY <1>1, <1>2

(* The steps of an add or a delete. *)
LEMMA MutateKeeps ==
  ASSUME IInv, Typed', NEW c \in Clients, Mutate(c), Track({c})
  PROVE  At(c)'
<1> USE DEF JobFields, Goto, Take
<1>0. /\ DOMAIN job = Clients /\ DOMAIN job[c] = JobFields /\ DOMAIN pc = Clients /\ At(c)
      /\ Typed /\ job[c].todo \in Seq(Keys) /\ DOMAIN store = Kinds
  BY DEF IInv, Typed, TypeOK, JobOK
<1>1. ASSUME RejectRequest(c) PROVE At(c)'
  <2>1. /\ pc[c] = "check" /\ pc'[c] = "reply" /\ fds'[c] = fds[c]
        /\ job'[c] = [job[c] EXCEPT !.code = 400] /\ Request(c)' = Request(c)
    BY <1>0, <1>1 DEF RejectRequest, Answer, Request
  <2>2. hist'[c] = hist[c] /\ Set(c)' = Set(c)
    BY <1>1, <2>1, Quiet DEF RejectRequest
  <2> QED
    BY <1>0, <2>1, <2>2 DEF At, HeldAt, FlowAt, RecordedAt, MutationAt, WalkAt, Answered, Done, Mutates, Walks, Request
<1>2. ASSUME AnswerDryrun(c) PROVE At(c)'
  <2>1. /\ pc[c] = "check" /\ pc'[c] = "reply" /\ fds'[c] = fds[c]
        /\ job'[c].code = 200 /\ job'[c].found = job[c].found /\ job'[c].errors = job[c].errors
        /\ Request(c)' = Request(c) /\ Request(c).dryrun
    BY <1>0, <1>2 DEF AnswerDryrun, Request
  <2>2. hist'[c] = hist[c] /\ Set(c)' = Set(c)
    BY <1>2, <2>1, Quiet DEF AnswerDryrun
  <2> QED
    BY <1>0, <2>1, <2>2 DEF At, HeldAt, FlowAt, RecordedAt, MutationAt, WalkAt, Answered, Done, Mutates, Walks, Request
<1>3. ASSUME AcceptRequest(c) PROVE At(c)'
  <2>1. /\ pc[c] = "check" /\ pc'[c] = "open_v4" /\ fds'[c] = fds[c]
        /\ job'[c].todo = Parsed(Request(c).entries, Keys) /\ job'[c].code = job[c].code
        /\ job'[c].family = job[c].family /\ job'[c].cursor = job[c].cursor /\ job'[c].found = job[c].found
        /\ job'[c].applied = job[c].applied /\ job'[c].errors = job[c].errors
        /\ Request(c)' = Request(c) /\ ~Rejected(Request(c).entries) /\ ~Request(c).dryrun
    BY <1>0, <1>3 DEF AcceptRequest, Request
  <2>2. hist'[c] = hist[c] /\ Set(c)' = Set(c)
    BY <1>3, <2>1, Quiet DEF AcceptRequest
  <2>3. HeldAt(c)' /\ FlowAt(c)'
    BY <1>0, <2>1, <2>2 DEF At, HeldAt, FlowAt, Done, Mutates, Walks, Request
  <2>4. RecordedAt(c)' /\ MutationAt(c)' /\ WalkAt(c)'
    BY <1>0, <2>1, <2>2 DEF At, RecordedAt, MutationAt, WalkAt, Answered
  <2> QED
    BY <1>0, <2>3, <2>4 DEF At
<1>4. ASSUME AddEntry(c) \/ AddFails(c) \/ DelEntry(c) \/ DelFails(c) PROVE At(c)'
  <2>1. /\ pc[c] = "apply" /\ pc'[c] = "apply" /\ fds'[c] = fds[c]
        /\ Request(c)' = Request(c) /\ job[c].todo # <<>>
        /\ job'[c].todo = Tail(job[c].todo) /\ job'[c].found = job[c].found /\ job'[c].code = job[c].code
        /\ job'[c].applied \cup job'[c].errors = job[c].applied \cup job[c].errors \cup {Entry(c)}
    <3>1. Applied(c) \/ Refused(c)
      BY <1>4 DEF AddEntry, AddFails, DelEntry, DelFails
    <3>2. pc[c] = "apply" /\ pc'[c] = "apply" /\ fds'[c] = fds[c] /\ job[c].todo # <<>>
      BY <1>4 DEF AddEntry, AddFails, DelEntry, DelFails
    <3> QED
      BY <1>0, <3>1, <3>2, EntryTaken
  <2>2. Range(job[c].todo) = {Entry(c)} \cup Range(Tail(job[c].todo))
    BY <1>0, <2>1, RangeProperties DEF Entry
  <2>3. hist'[c].stable = hist[c].stable \cap Set(c)' /\ hist'[c].ever = hist[c].ever \cup Set(c)'
    BY <1>0, <2>1, Wrote
  <2>4. ASSUME Request(c).op = "add" PROVE job'[c].applied \subseteq hist'[c].ever
    <3>1. CASE AddEntry(c)
      <4>1. Entry(c) \in Set(c)' /\ job'[c].applied = job[c].applied \cup {Entry(c)}
        BY <1>0, <2>1, <3>1, TypedKinds DEF AddEntry, Applied, Set
      <4> QED
        BY <1>0, <2>1, <2>3, <2>4, <4>1 DEF At, MutationAt
    <3>2. CASE ~AddEntry(c)
      <4>1. Refused(c)
        BY <1>4, <2>4, <3>2 DEF AddFails, DelEntry, DelFails
      <4>2. job'[c].applied = job[c].applied
        BY <1>0, <4>1, EntryTaken
      <4> QED
        BY <1>0, <2>1, <2>3, <2>4, <4>2 DEF At, MutationAt
    <3> QED
      BY <3>1, <3>2
  <2>5. ASSUME Request(c).op = "del" PROVE job'[c].applied \cap hist'[c].stable = {}
    <3>1. CASE DelEntry(c)
      <4>1. Entry(c) \notin Set(c)' /\ job'[c].applied = job[c].applied \cup {Entry(c)}
        BY <1>0, <2>1, <3>1, TypedKinds, EntryTaken DEF DelEntry, Set
      <4> QED
        BY <1>0, <2>1, <2>3, <2>5, <4>1 DEF At, MutationAt
    <3>2. CASE ~DelEntry(c)
      <4>1. Refused(c)
        BY <1>4, <2>5, <3>2 DEF AddFails, AddEntry, DelFails, Take
      <4>2. job'[c].applied = job[c].applied
        BY <1>0, <2>1, <4>1, EntryTaken
      <4> QED
        BY <1>0, <2>1, <2>3, <2>5, <4>2 DEF At, MutationAt
    <3> QED
      BY <3>1, <3>2
  <2>6. RecordedAt(c)'
    BY <1>0, <2>1, <2>3, TypedKinds DEF At, RecordedAt
  <2>7. HeldAt(c)' /\ FlowAt(c)' /\ WalkAt(c)'
    BY <1>0, <2>1 DEF At, HeldAt, FlowAt, WalkAt, Answered, Done, Mutates, Walks, Request
  <2>8. MutationAt(c)'
    <3>1. job'[c].applied \cup job'[c].errors \cup Range(job'[c].todo)
            = job[c].applied \cup job[c].errors \cup Range(job[c].todo)
      BY <1>0, <2>1, <2>2
    <3>2. job'[c].applied \cup job'[c].errors \cup Range(job'[c].todo) = Range(Parsed(Request(c).entries, Keys))
      BY <1>0, <2>1, <3>1 DEF At, MutationAt
    <3> QED
      BY <1>0, <2>1, <2>4, <2>5, <3>2 DEF MutationAt, Answered
  <2> QED
    BY <1>0, <2>6, <2>7, <2>8 DEF At
<1>5. ASSUME AnswerMutation(c) PROVE At(c)'
  <2>1. /\ pc[c] = "apply" /\ pc'[c] = "close" /\ fds'[c] = fds[c] /\ job[c].todo = <<>>
        /\ job'[c] = [job[c] EXCEPT !.code = IF job[c].errors = {} THEN 200 ELSE 207]
        /\ Request(c)' = Request(c)
    BY <1>0, <1>5 DEF AnswerMutation, Answer, Request
  <2>2. hist'[c] = hist[c] /\ Set(c)' = Set(c)
    BY <1>5, <2>1, Quiet DEF AnswerMutation
  <2>3. Range(job[c].todo) = {}
    BY <1>0, <2>1 DEF Range
  <2> QED
    BY <1>0, <2>1, <2>2, <2>3 DEF At, HeldAt, FlowAt, RecordedAt, MutationAt, WalkAt, Answered, Done, Mutates, Walks, Request
<1> QED
  BY <1>1, <1>2, <1>3, <1>4, <1>5 DEF Mutate

(* Opening the two tries. *)
LEMMA OpenKeeps ==
  ASSUME IInv, Typed', NEW c \in Clients, Open(c), Track({c})
  PROVE  At(c)'
<1> USE DEF JobFields, Goto
<1>0. /\ DOMAIN job = Clients /\ DOMAIN job[c] = JobFields /\ DOMAIN pc = Clients /\ DOMAIN fds = Clients
      /\ At(c) /\ Typed
  BY DEF IInv, Typed, TypeOK, JobOK
<1>1. ASSUME OpenV4(c) PROVE At(c)'
  <2>1. /\ pc[c] = "open_v4" /\ pc'[c] = "open_v6" /\ fds'[c] = fds[c] \cup {"v4"}
        /\ job' = job /\ Request(c)' = Request(c)
    BY <1>0, <1>1 DEF OpenV4, Request
  <2>2. hist'[c] = hist[c] /\ Set(c)' = Set(c)
    BY <1>1, <2>1, Quiet DEF OpenV4
  <2> QED
    BY <1>0, <2>1, <2>2 DEF At, HeldAt, FlowAt, RecordedAt, MutationAt, WalkAt, Answered, Done, Mutates, Walks, Request
<1>2. ASSUME OpenV4Fails(c) PROVE At(c)'
  <2>1. /\ pc[c] = "open_v4" /\ pc'[c] = "reply" /\ fds'[c] = fds[c]
        /\ job'[c] = [job[c] EXCEPT !.code = 503] /\ Request(c)' = Request(c)
    BY <1>0, <1>2 DEF OpenV4Fails, Answer, Request
  <2>2. hist'[c] = hist[c] /\ Set(c)' = Set(c)
    BY <1>2, <2>1, Quiet DEF OpenV4Fails
  <2> QED
    BY <1>0, <2>1, <2>2 DEF At, HeldAt, FlowAt, RecordedAt, MutationAt, WalkAt, Answered, Done, Mutates, Walks, Request
<1>3. ASSUME OpenV6(c) PROVE At(c)'
  <2>1. /\ pc[c] = "open_v6" /\ fds'[c] = fds[c] \cup {"v6"}
        /\ pc'[c] = IF Mutates(c) THEN "apply" ELSE "next"
        /\ job' = job /\ Request(c)' = Request(c)
    BY <1>0, <1>3 DEF OpenV6, Request, Mutates
  <2>2. hist'[c] = hist[c] /\ Set(c)' = Set(c)
    BY <1>3, <2>1, Quiet DEF OpenV6
  <2>3. fds'[c] = Families
    BY <1>0, <2>1 DEF At, HeldAt, Families
  <2>4. Mutates(c) \/ Walks(c)
    BY <1>0, <2>1, RequestsAssumption DEF Typed, Mutates, Walks, Operations
  <2>5. Range(job[c].found) = {}
    BY <1>0, <2>1 DEF At, FlowAt, Range
  <2>6. \A k \in FamilyOf(c) : ~(k < 0) /\ k # 0
    BY <1>0, KeysAssumption DEF Typed, JobOK, Families, FamilyOf, FamilyKeys, Keys
  <2>7. HeldAt(c)' /\ FlowAt(c)' /\ RecordedAt(c)'
    BY <1>0, <2>1, <2>2, <2>3, <2>4 DEF At, HeldAt, FlowAt, RecordedAt, Done, Mutates, Walks, Request
  <2>8. MutationAt(c)'
    BY <1>0, <2>1, <2>2 DEF At, FlowAt, MutationAt, Answered, Mutates, Request
  <2>9. WalkAt(c)'
    <3>1. \A k \in hist'[c].stable \cap FamilyOf(c)' : ~(k < job'[c].cursor) /\ k # job'[c].cursor
      BY <1>0, <2>1, <2>2, <2>6 DEF At, FlowAt, FamilyOf
    <3> QED
      BY <1>0, <2>1, <2>2, <2>5, <3>1 DEF At, FlowAt, WalkAt, Answered
  <2> QED
    BY <2>7, <2>8, <2>9 DEF At
<1>4. ASSUME OpenV6Fails(c) PROVE At(c)'
  <2>1. /\ pc[c] = "open_v6" /\ pc'[c] = "reply" /\ fds'[c] = fds[c] \ {"v4"}
        /\ job'[c] = [job[c] EXCEPT !.code = 503] /\ Request(c)' = Request(c)
    BY <1>0, <1>4 DEF OpenV6Fails, Answer, Request
  <2>2. hist'[c] = hist[c] /\ Set(c)' = Set(c)
    BY <1>4, <2>1, Quiet DEF OpenV6Fails
  <2> QED
    BY <1>0, <2>1, <2>2 DEF At, HeldAt, FlowAt, RecordedAt, MutationAt, WalkAt, Answered, Done, Mutates, Walks, Request
<1> QED
  BY <1>1, <1>2, <1>3, <1>4 DEF Open

(* Of the keys in the iterator's trie, none between its cursor and the key it *)
(* advances to is passed over.                                               *)
LEMMA Advance ==
  ASSUME Typed, NEW c \in Clients, pc[c] # "idle", After(Trie(c), job[c].cursor) # {},
         NEW k \in Trie(c), k < Min(After(Trie(c), job[c].cursor))
  PROVE  k < job[c].cursor \/ k = job[c].cursor
<1>1. k \in Nat /\ Min(After(Trie(c), job[c].cursor)) \in Nat
  BY NextCursor, TypedKinds, KeysAssumption
<1>2. k \notin After(Trie(c), job[c].cursor)
  BY <1>1, NextCursor
<1>3. job[c].cursor \in Trie(c) /\ ~(k > job[c].cursor)
  BY <1>2 DEF After
<1>4. job[c].cursor \in Nat
  BY <1>3, TypedKinds, KeysAssumption
<1> QED
  BY <1>1, <1>3, <1>4

(* At the end of a trie, the iterator has gone past every key of it. *)
LEMMA Passed ==
  ASSUME Typed, NEW c \in Clients, pc[c] # "idle", AtEnd(c), NEW k \in Trie(c)
  PROVE  k < job[c].cursor \/ k = job[c].cursor
<1>1. job[c].cursor \in Trie(c) /\ ~(k > job[c].cursor)
  BY DEF AtEnd, After
<1>2. job[c].cursor \in Nat /\ k \in Nat
  BY <1>1, TypedKinds, KeysAssumption
<1> QED
  BY <1>1, <1>2

(* The steps of the iterator: what lies behind its cursor and was always there is read. *)
LEMMA IterateKeeps ==
  ASSUME IInv, Typed', NEW c \in Clients, Iterate(c), Track({c})
  PROVE  At(c)'
<1> USE DEF JobFields, Goto
<1>0. /\ DOMAIN job = Clients /\ DOMAIN job[c] = JobFields /\ DOMAIN pc = Clients
      /\ At(c) /\ Typed /\ job[c].found \in Seq(Keys)
  BY DEF IInv, Typed, TypeOK, JobOK
<1>1. ASSUME NextKey(c) PROVE At(c)'
  <2>1. /\ pc[c] = "next" /\ pc'[c] = "look" /\ fds'[c] = fds[c] /\ Request(c)' = Request(c)
        /\ job'[c].cursor = Min(After(Trie(c), job[c].cursor))
        /\ job'[c].found = job[c].found /\ job'[c].family = job[c].family /\ job'[c].code = job[c].code
        /\ job'[c].applied = job[c].applied /\ job'[c].errors = job[c].errors
        /\ After(Trie(c), job[c].cursor) # {}
    BY <1>0, <1>1 DEF NextKey, Request
  <2>2. hist'[c] = hist[c] /\ Set(c)' = Set(c)
    BY <1>1, <2>1, Quiet DEF NextKey
  <2>3. job'[c].cursor \in Trie(c) /\ job'[c].cursor \in FamilyOf(c) /\ job'[c].cursor \in Set(c)
    BY <1>0, <2>1, NextCursor DEF Trie, FamilyOf
  <2>4. ASSUME NEW k \in hist[c].stable \cap FamilyOf(c), k < job'[c].cursor PROVE k \in Range(job[c].found)
    <3>1. k \in Trie(c)
      BY <1>0, <2>1 DEF At, RecordedAt, Trie, FamilyOf
    <3>2. k < job[c].cursor \/ k = job[c].cursor
      BY <1>0, <2>1, <2>4, <3>1, Advance
    <3> QED
      BY <1>0, <2>1, <3>2 DEF At, WalkAt
  <2>5. HeldAt(c)' /\ FlowAt(c)' /\ RecordedAt(c)' /\ MutationAt(c)'
    BY <1>0, <2>1, <2>2, <2>3 DEF At, HeldAt, FlowAt, RecordedAt, MutationAt, Answered, Done, Mutates, Walks, Request, FamilyOf
  <2>6. WalkAt(c)'
    BY <1>0, <2>1, <2>2, <2>3, <2>4 DEF At, RecordedAt, WalkAt, Answered, FamilyOf
  <2> QED
    BY <2>5, <2>6 DEF At
<1>2. ASSUME LookupKey(c) PROVE At(c)'
  <2> DEFINE hit == Trie(c) \cap ({job[c].cursor} \cup Covers[job[c].cursor]) # {}
  <2>1. /\ pc[c] = "look" /\ pc'[c] = "next" /\ fds'[c] = fds[c] /\ Request(c)' = Request(c)
        /\ job'[c].found = IF hit THEN Append(job[c].found, job[c].cursor) ELSE job[c].found
        /\ job'[c].cursor = job[c].cursor /\ job'[c].family = job[c].family /\ job'[c].code = job[c].code
        /\ job'[c].applied = job[c].applied /\ job'[c].errors = job[c].errors
    BY <1>0, <1>2 DEF LookupKey, Request
  <2>2. hist'[c] = hist[c] /\ Set(c)' = Set(c)
    BY <1>2, <2>1, Quiet DEF LookupKey
  <2>3. Range(job'[c].found) = IF hit THEN Range(job[c].found) \cup {job[c].cursor} ELSE Range(job[c].found)
    <3>1. job[c].cursor \in Keys
      BY <1>0, <2>1 DEF Typed
    <3>2. Range(Append(job[c].found, job[c].cursor)) = Range(job[c].found) \cup {job[c].cursor}
      BY <1>0, <3>1, RangeProperties
    <3> HIDE DEF hit
    <3> QED
      BY <2>1, <3>2
  <2>4. ASSUME job[c].cursor \in hist[c].stable PROVE hit
    BY <1>0, <2>1, <2>4 DEF At, FlowAt, RecordedAt, Trie, FamilyOf
  <2> HIDE DEF hit
  <2>5. HeldAt(c)' /\ FlowAt(c)' /\ RecordedAt(c)' /\ MutationAt(c)'
    BY <1>0, <2>1, <2>2 DEF At, HeldAt, FlowAt, RecordedAt, MutationAt, Answered, Done, Mutates, Walks, Request, FamilyOf
  <2>6. WalkAt(c)'
    BY <1>0, <2>1, <2>2, <2>3, <2>4 DEF At, WalkAt, Answered, FamilyOf
  <2> QED
    BY <2>5, <2>6 DEF At
<1>3. ASSUME AbortIteration(c) PROVE At(c)'
  <2>1. /\ pc[c] = "next" /\ pc'[c] = "close" /\ fds'[c] = fds[c] /\ Request(c)' = Request(c)
        /\ job'[c] = [job[c] EXCEPT !.code = 500]
    BY <1>0, <1>3 DEF AbortIteration, Answer, Request
  <2>2. hist'[c] = hist[c] /\ Set(c)' = Set(c)
    BY <1>3, <2>1, Quiet DEF AbortIteration
  <2> QED
    BY <1>0, <2>1, <2>2 DEF At, HeldAt, FlowAt, RecordedAt, MutationAt, WalkAt, Answered, Done, Mutates, Walks, Request
<1> QED
  BY <1>1, <1>2, <1>3 DEF Iterate

(* The end of a trie in a list. *)
LEMMA ListKeeps ==
  ASSUME IInv, Typed', NEW c \in Clients, List(c), Track({c})
  PROVE  At(c)'
<1> USE DEF JobFields, Goto
<1>0. /\ DOMAIN job = Clients /\ DOMAIN job[c] = JobFields /\ DOMAIN pc = Clients
      /\ At(c) /\ Typed /\ job[c].found \in Seq(Keys)
  BY DEF IInv, Typed, TypeOK, JobOK
<1>1. ASSUME pc[c] = "next", AtEnd(c) PROVE hist[c].stable \cap FamilyOf(c) \subseteq Range(job[c].found)
  <2> SUFFICES ASSUME NEW k \in hist[c].stable \cap FamilyOf(c) PROVE k \in Range(job[c].found)
    OBVIOUS
  <2>1. k \in Trie(c)
    BY <1>0, <1>1 DEF At, RecordedAt, Trie, FamilyOf
  <2> QED
    BY <1>0, <1>1, <2>1, Passed DEF At, WalkAt
<1>2. ASSUME ListIPv6(c) PROVE At(c)'
  <2>1. /\ pc[c] = "next" /\ pc'[c] = "next" /\ fds'[c] = fds[c] /\ Request(c)' = Request(c)
        /\ Request(c).op = "list" /\ job[c].family = "v4" /\ AtEnd(c)
        /\ job'[c].family = "v6" /\ job'[c].cursor = 0 /\ job'[c].found = job[c].found
        /\ job'[c].code = job[c].code /\ job'[c].applied = job[c].applied /\ job'[c].errors = job[c].errors
    BY <1>0, <1>2 DEF ListIPv6, Request
  <2>2. hist'[c] = hist[c] /\ Set(c)' = Set(c)
    BY <1>2, <2>1, Quiet DEF ListIPv6
  <2>3. hist[c].stable \cap Keys4 \subseteq Range(job[c].found)
    BY <1>1, <2>1 DEF FamilyOf, FamilyKeys
  <2>4. \A k \in FamilyOf(c)' : ~(k < 0) /\ k # 0
    BY <2>1, KeysAssumption DEF FamilyOf, FamilyKeys, Keys
  <2>5. HeldAt(c)' /\ FlowAt(c)' /\ RecordedAt(c)' /\ MutationAt(c)'
    BY <1>0, <2>1, <2>2 DEF At, HeldAt, FlowAt, RecordedAt, MutationAt, Answered, Done, Mutates, Walks, Request
  <2>6. WalkAt(c)'
    BY <1>0, <2>1, <2>2, <2>3, <2>4 DEF At, WalkAt, Answered
  <2> QED
    BY <2>5, <2>6 DEF At
<1>3. ASSUME AnswerList(c) PROVE At(c)'
  <2>1. /\ pc[c] = "next" /\ pc'[c] = "close" /\ fds'[c] = fds[c] /\ Request(c)' = Request(c)
        /\ Request(c).op = "list" /\ job[c].family = "v6" /\ AtEnd(c)
        /\ job'[c].code = 200 /\ job'[c].found = job[c].found
        /\ job'[c].applied = job[c].applied /\ job'[c].errors = job[c].errors
    BY <1>0, <1>3 DEF AnswerList, Answer, Request
  <2>2. hist'[c] = hist[c] /\ Set(c)' = Set(c)
    BY <1>3, <2>1, Quiet DEF AnswerList
  <2>3. hist[c].stable \subseteq Range(job[c].found)
    <3>1. hist[c].stable \cap Keys6 \subseteq Range(job[c].found)
      BY <1>1, <2>1 DEF FamilyOf, FamilyKeys
    <3>2. hist[c].stable \cap Keys4 \subseteq Range(job[c].found)
      BY <1>0, <2>1 DEF At, WalkAt
    <3>3. hist[c].stable \subseteq Keys4 \cup Keys6
      BY <1>0 DEF Typed, TypeOK, Keys
    <3> QED
      BY <3>1, <3>2, <3>3
  <2>4. Range(job[c].found) \subseteq hist[c].ever
    BY <1>0, <2>1 DEF At, WalkAt
  <2>5. HeldAt(c)' /\ FlowAt(c)' /\ RecordedAt(c)' /\ MutationAt(c)'
    BY <1>0, <2>1, <2>2 DEF At, HeldAt, FlowAt, RecordedAt, MutationAt, Answered, Done, Mutates, Walks, Request
  <2>6. WalkAt(c)'
    BY <2>1, <2>2, <2>3, <2>4 DEF WalkAt, Answered
  <2> QED
    BY <2>5, <2>6 DEF At
<1> QED
  BY <1>2, <1>3 DEF List

(* The steps of a flush after its iterator has reached the end of a trie. *)
LEMMA FlushKeeps ==
  ASSUME IInv, Typed', NEW c \in Clients, Flush(c), Track({c})
  PROVE  At(c)'
<1> USE DEF JobFields, Goto
<1>0. /\ DOMAIN job = Clients /\ DOMAIN job[c] = JobFields /\ DOMAIN pc = Clients
      /\ At(c) /\ Typed /\ job[c].found \in Seq(Keys) /\ job[c].todo \in Seq(Keys)
  BY DEF IInv, Typed, TypeOK, JobOK
<1>1. ASSUME BeginDelete(c) PROVE At(c)'
  <2>1. /\ pc[c] = "next" /\ pc'[c] = "delete" /\ fds'[c] = fds[c] /\ Request(c)' = Request(c)
        /\ Request(c).op = "flush" /\ AtEnd(c)
        /\ job'[c].todo = job[c].found /\ job'[c].found = <<>> /\ job'[c].family = job[c].family
        /\ job'[c].code = job[c].code /\ job'[c].applied = job[c].applied /\ job'[c].errors = job[c].errors
    BY <1>0, <1>1 DEF BeginDelete, Request
  <2>2. hist'[c] = hist[c] /\ Set(c)' = Set(c)
    BY <1>1, <2>1, Quiet DEF BeginDelete
  <2>3. ASSUME NEW k \in hist[c].stable \cap FamilyOf(c) PROVE k \in Range(job[c].found)
    <3>1. k \in Trie(c)
      BY <1>0, <2>1 DEF At, RecordedAt, Trie, FamilyOf
    <3> QED
      BY <1>0, <2>1, <3>1, Passed DEF At, WalkAt
  <2>4. HeldAt(c)' /\ FlowAt(c)' /\ RecordedAt(c)' /\ MutationAt(c)'
    BY <1>0, <2>1, <2>2 DEF At, HeldAt, FlowAt, RecordedAt, MutationAt, Answered, Done, Mutates, Walks, Request
  <2>5. WalkAt(c)'
    BY <1>0, <2>1, <2>2, <2>3 DEF At, WalkAt, Answered, FamilyOf
  <2> QED
    BY <2>4, <2>5 DEF At
<1>2. ASSUME DeleteEntry(c) PROVE At(c)'
  <2>1. /\ pc[c] = "delete" /\ pc'[c] = pc[c] /\ fds'[c] = fds[c] /\ Request(c)' = Request(c)
        /\ Request(c).op = "flush" /\ job[c].todo # <<>> /\ job'[c].todo = Tail(job[c].todo)
        /\ job'[c].found = job[c].found /\ job'[c].family = job[c].family
        /\ job'[c].code = job[c].code /\ job'[c].applied = job[c].applied /\ job'[c].errors = job[c].errors
    BY <1>0, <1>2 DEF DeleteEntry, Take, Request
  <2>2. hist'[c].stable = hist[c].stable \cap Set(c)' /\ hist'[c].ever = hist[c].ever \cup Set(c)'
    BY <2>1, Wrote
  <2>3. Entry(c) \notin Set(c)'
    BY <1>0, <1>2, <2>1, TypedKinds DEF DeleteEntry, Set, Typed, TypeOK
  <2>4. Range(job[c].todo) = {Entry(c)} \cup Range(job'[c].todo)
    BY <1>0, <2>1, RangeProperties DEF Entry
  <2>5. HeldAt(c)' /\ FlowAt(c)' /\ RecordedAt(c)' /\ MutationAt(c)'
    BY <1>0, <2>1, <2>2 DEF At, HeldAt, FlowAt, RecordedAt, MutationAt, Answered, Done, Mutates, Walks, Request
  <2>6. hist'[c].stable \cap FamilyOf(c) \subseteq Range(job'[c].todo)
    BY <1>0, <2>1, <2>2, <2>3, <2>4 DEF At, WalkAt
  <2>7. WalkAt(c)'
    BY <1>0, <2>1, <2>2, <2>6 DEF At, WalkAt, Answered, FamilyOf
  <2> QED
    BY <2>5, <2>7 DEF At
<1>3. ASSUME FlushIPv6(c) PROVE At(c)'
  <2>1. /\ pc[c] = "delete" /\ pc'[c] = "next" /\ fds'[c] = fds[c] /\ Request(c)' = Request(c)
        /\ job[c].family = "v4" /\ job[c].todo = <<>>
        /\ job'[c].family = "v6" /\ job'[c].cursor = 0 /\ job'[c].found = job[c].found
        /\ job'[c].code = job[c].code /\ job'[c].applied = job[c].applied /\ job'[c].errors = job[c].errors
    BY <1>0, <1>3 DEF FlushIPv6, Request
  <2>2. hist'[c] = hist[c] /\ Set(c)' = Set(c)
    BY <1>3, <2>1, Quiet DEF FlushIPv6
  <2>3. hist[c].stable \cap Keys4 = {}
    BY <1>0, <2>1 DEF At, WalkAt, Range, FamilyOf, FamilyKeys
  <2>4. \A k \in FamilyOf(c)' : ~(k < 0) /\ k # 0
    BY <2>1, KeysAssumption DEF FamilyOf, FamilyKeys, Keys
  <2>5. HeldAt(c)' /\ FlowAt(c)' /\ RecordedAt(c)' /\ MutationAt(c)'
    BY <1>0, <2>1, <2>2 DEF At, HeldAt, FlowAt, RecordedAt, MutationAt, Answered, Done, Mutates, Walks, Request
  <2>6. WalkAt(c)'
    BY <1>0, <2>1, <2>2, <2>3, <2>4 DEF At, FlowAt, WalkAt, Answered
  <2> QED
    BY <2>5, <2>6 DEF At
<1>4. ASSUME AnswerFlush(c) PROVE At(c)'
  <2>1. /\ pc[c] = "delete" /\ pc'[c] = "close" /\ fds'[c] = fds[c] /\ Request(c)' = Request(c)
        /\ job[c].family = "v6" /\ job[c].todo = <<>>
        /\ job'[c].code = 200 /\ job'[c].found = job[c].found
        /\ job'[c].applied = job[c].applied /\ job'[c].errors = job[c].errors
    BY <1>0, <1>4 DEF AnswerFlush, Answer, Request
  <2>2. hist'[c] = hist[c] /\ Set(c)' = Set(c)
    BY <1>4, <2>1, Quiet DEF AnswerFlush
  <2>3. hist[c].stable = {}
    <3>1. hist[c].stable \cap Keys6 = {}
      BY <1>0, <2>1 DEF At, WalkAt, Range, FamilyOf, FamilyKeys
    <3>2. hist[c].stable \cap Keys4 = {}
      BY <1>0, <2>1 DEF At, FlowAt, WalkAt
    <3>3. hist[c].stable \subseteq Keys4 \cup Keys6
      BY <1>0 DEF Typed, TypeOK, Keys
    <3> QED
      BY <3>1, <3>2, <3>3
  <2>4. HeldAt(c)' /\ FlowAt(c)' /\ RecordedAt(c)' /\ MutationAt(c)'
    BY <1>0, <2>1, <2>2 DEF At, HeldAt, FlowAt, RecordedAt, MutationAt, Answered, Done, Mutates, Walks, Request
  <2>5. WalkAt(c)'
    BY <1>0, <2>1, <2>2, <2>3 DEF At, FlowAt, WalkAt, Answered
  <2> QED
    BY <2>4, <2>5 DEF At
<1>5. ASSUME DeleteFails(c) PROVE At(c)'
  <2>1. /\ pc[c] = "delete" /\ pc'[c] = "close" /\ fds'[c] = fds[c] /\ Request(c)' = Request(c)
        /\ Request(c).op = "flush" /\ store' = store
        /\ job'[c].code = 500 /\ job'[c].found = job[c].found
        /\ job'[c].applied = job[c].applied /\ job'[c].errors = job[c].errors
    BY <1>0, <1>5 DEF DeleteFails, Take, Answer, Request
  <2>2. hist'[c].stable = hist[c].stable \cap Set(c) /\ hist'[c].ever = hist[c].ever \cup Set(c)
    BY <2>1 DEF Track, Set
  <2>3. HeldAt(c)' /\ FlowAt(c)'
    BY <1>0, <2>1 DEF At, HeldAt, FlowAt, Done, Mutates, Walks, Request
  <2>4. RecordedAt(c)' /\ MutationAt(c)' /\ WalkAt(c)'
    BY <1>0, <2>1, <2>2 DEF At, RecordedAt, MutationAt, WalkAt, Answered, Mutates, Set
  <2> QED
    BY <2>3, <2>4 DEF At
<1> QED
  BY <1>1, <1>2, <1>3, <1>4, <1>5 DEF Flush

(* A slot that is free again remembers nothing of its request. *)
LEMMA RespondKeeps ==
  ASSUME IInv, NEW c \in Clients, Respond(c), Track({c})
  PROVE  At(c)'
<1>1. /\ pc'[c] = "idle" /\ job'[c] = Job(NoRequest) /\ fds'[c] = {}
  BY DEF Respond, IInv, Typed, TypeOK, At, HeldAt
<1>2. hist'[c] = NoHistory
  BY <1>1 DEF Track
<1>3. /\ Job(NoRequest).request.op = "list" /\ Job(NoRequest).code = 0 /\ Job(NoRequest).found = <<>>
      /\ Job(NoRequest).applied = {} /\ Job(NoRequest).errors = {}
  BY DEF Job, NoRequest
<1> QED
  BY <1>1, <1>2, <1>3 DEF At, HeldAt, FlowAt, RecordedAt, MutationAt, WalkAt, Answered, Done, Mutates, Walks, Request

-----------------------------------------------------------------------------
(* The invariant, and what follows from it *)

LEMMA IInvInit == Init => IInv
<1> SUFFICES ASSUME Init PROVE IInv
  OBVIOUS
<1>1. /\ Job(NoRequest).request.op = "list" /\ Job(NoRequest).code = 0 /\ Job(NoRequest).found = <<>>
      /\ Job(NoRequest).applied = {} /\ Job(NoRequest).errors = {}
  BY DEF Job, NoRequest
<1>2. ASSUME NEW c \in Clients PROVE At(c)
  BY <1>1 DEF Init, At, HeldAt, FlowAt, RecordedAt, MutationAt, WalkAt, Answered, Done, Mutates, Walks, Request
<1> QED
  BY <1>2, TypedInit DEF IInv

(* It is inductive: a step of c keeps At(c) by the lemmas above, At(d) by OthersKeep. *)
LEMMA IInvNext == IInv /\ [Next]_vars => IInv'
<1> SUFFICES ASSUME IInv, [Next]_vars PROVE IInv'
  OBVIOUS
<1>1. Typed /\ Typed'
  BY TypedNext DEF IInv
<1>2. CASE UNCHANGED vars
  BY <1>1, <1>2 DEF vars, IInv, At, HeldAt, FlowAt, RecordedAt, MutationAt, WalkAt, Answered, Done, Mutates, Walks,
     Request, Set, FamilyOf
<1>3. ASSUME NEW kind \in Kinds, NEW f \in Families, PinMap(kind, f), Track({}) PROVE IInv'
  <2>1. UNCHANGED <<pc, job, fds>>
    BY <1>3 DEF PinMap
  <2> QED
    BY <1>1, <1>3, <2>1, OthersKeep DEF IInv
<1>4. ASSUME NEW c \in Clients, Track({c}), At(c)',
             Handle(c) \/ \E r \in Requests : Receive(c, r)
      PROVE  IInv'
  <2>1. ASSUME NEW d \in Clients, d # c PROVE At(d)'
    <3>1. pc'[d] = pc[d] /\ job'[d] = job[d] /\ fds'[d] = fds[d]
      BY <1>1, <1>4, <2>1, TypedSteps DEF StepTyped
    <3> QED
      BY <1>1, <1>4, <2>1, <3>1, OthersKeep DEF IInv
  <2> QED
    BY <1>1, <1>4, <2>1 DEF IInv
<1>5. ASSUME NEW c \in Clients, NEW r \in Requests, Receive(c, r), Track({c}) PROVE IInv'
  BY <1>4, <1>5, ReceiveKeeps
<1>6. ASSUME NEW c \in Clients, Handle(c), Track({c}) PROVE At(c)'
  BY <1>1, <1>6, MutateKeeps, OpenKeeps, IterateKeeps, ListKeeps, FlushKeeps, RespondKeeps DEF Handle
<1>7. ASSUME NEW c \in Clients, Step(c) PROVE IInv'
  BY <1>4, <1>6, <1>7 DEF Step
<1> QED
  BY <1>2, <1>3, <1>5, <1>7 DEF Next

(* What the proofs below use of the invariant: it holds in every state. *)
LEMMA Invariance == Spec => []IInv
  BY IInvInit, IInvNext, PTL DEF Spec

(* A flush answered 200 has emptied the set, whatever other requests added    *)
(* and deleted while it walked (maps.go:145-158, 228-237).                   *)
THEOREM FlushesClear == Spec => []FlushClears
<1>1. IInv => FlushClears
  BY DEF IInv, At, WalkAt, FlushClears
<1> QED
  BY <1>1, Invariance, PTL

(* A list answered 200 misses nothing that was there all the time and shows   *)
(* nothing that never was (maps.go:127-143, 216-226).                        *)
THEOREM ListsFaithful == Spec => []ListFaithful
<1>1. IInv => ListFaithful
  BY DEF IInv, At, WalkAt, ListFaithful
<1> QED
  BY <1>1, Invariance, PTL

(* The answer to a mutation accounts for every entry and tells the truth      *)
(* about it (api.go:173-191).                                                *)
THEOREM OutcomesReported == Spec => []ReportedOutcome
<1>1. IInv => ReportedOutcome
  BY DEF IInv, At, MutationAt, ReportedOutcome
<1> QED
  BY <1>1, Invariance, PTL

(* The tries a handler uses are open, and none stays open after the answer    *)
(* (maps.go:181-199, api.go:100, 171, 199).                                  *)
THEOREM TriesHeld == Spec => []HandlesHeld
<1>1. IInv => HandlesHeld
  BY DEF IInv, At, HeldAt, HandlesHeld
<1> QED
  BY <1>1, Invariance, PTL

-----------------------------------------------------------------------------
(* FirewallApi implements PrefixSet, for every value of the constants.  The *)
(* mapping is FirewallApi's own (Abstract): what a handler has decided is    *)
(* what the call answers, what is left of a request is still to take effect. *)
(* Every action of a handler is matched by an action of PrefixSet or shows   *)
(* nowhere outside; the guards of the abstract actions, in particular those  *)
(* on the history, come from IInv.                                           *)

(* The abstract variables, as FirewallApi's refinement mapping defines them. *)
AStep == [c \in Clients |-> StepOf(c)]
ARequest == [c \in Clients |-> Request(c)]
ATodo == [c \in Clients |-> TodoOf(c)]
AAnswer == [c \in Clients |-> AnswerOf(c)]

(* The set a call works on is the set its handler works on. *)
LEMMA AbstractSet == \A c \in Clients : Abstract!Set(c) = Set(c) /\ Abstract!Set(c)' = Set(c)'
BY DEF Abstract!Set, Set

(* A step of c changes the abstract variables of c only. *)
LEMMA Mapped ==
  ASSUME Typed, NEW c \in Clients, StepTyped(c)
  PROVE  /\ AStep' = [AStep EXCEPT ![c] = StepOf(c)']
         /\ ARequest' = [ARequest EXCEPT ![c] = Request(c)']
         /\ ATodo' = [ATodo EXCEPT ![c] = TodoOf(c)']
         /\ AAnswer' = [AAnswer EXCEPT ![c] = AnswerOf(c)']
<1>1. ASSUME NEW d \in Clients, d # c
      PROVE  /\ StepOf(d)' = StepOf(d) /\ Request(d)' = Request(d)
             /\ TodoOf(d)' = TodoOf(d) /\ AnswerOf(d)' = AnswerOf(d)
  <2>1. job'[d] = job[d] /\ pc'[d] = pc[d]
    BY <1>1 DEF StepTyped
  <2> QED
    BY <2>1 DEF StepOf, Request, TodoOf, AnswerOf, Done
<1> QED
  BY <1>1 DEF AStep, ARequest, ATodo, AAnswer

(* The history a handler keeps is the history its call keeps. *)
LEMMA TrackMapped ==
  ASSUME IInv, NEW movers, Track(movers), NEW writers,
         \A c \in Clients : pc[c] # "idle" /\ pc'[c] # "idle" =>
           ((c \in movers /\ pc[c] \in {"apply", "delete"} /\ job[c].todo # <<>>) <=> c \in writers)
  PROVE  Abstract!Track(writers)
<1>1. ASSUME NEW c \in Clients
      PROVE  hist'[c] = IF AStep'[c] = "idle" THEN Abstract!Started({})
                        ELSE IF AStep[c] = "idle" THEN Abstract!Started(Set(c)')
                        ELSE [ stable |-> hist[c].stable \cap Set(c)',
                               ever   |-> hist[c].ever \cup Set(c)',
                               wrote  |-> hist[c].wrote \/ c \in writers ]
  <2>1. (AStep[c] = "idle" <=> pc[c] = "idle") /\ (AStep'[c] = "idle" <=> pc'[c] = "idle")
    BY DEF AStep, StepOf
  <2>2. CASE pc'[c] = "idle"
    BY <2>1, <2>2 DEF Track, NoHistory, Started, Abstract!Started
  <2>3. CASE pc'[c] # "idle" /\ pc[c] = "idle"
    BY <2>1, <2>3 DEF Track, Started, Abstract!Started
  <2>4. CASE pc'[c] # "idle" /\ pc[c] # "idle"
    BY <2>1, <2>4 DEF Track
  <2> QED
    BY <2>2, <2>3, <2>4
<1>2. hist' = [c \in Clients |-> IF AStep'[c] = "idle" THEN Abstract!Started({})
                        ELSE IF AStep[c] = "idle" THEN Abstract!Started(Set(c)')
                        ELSE [ stable |-> hist[c].stable \cap Set(c)',
                               ever   |-> hist[c].ever \cup Set(c)',
                               wrote  |-> hist[c].wrote \/ c \in writers ]]
  BY <1>1 DEF Track
<1> QED
  BY <1>2, AbstractSet DEF Abstract!Track, AStep

(* A request whose set does not change, and that does not write, keeps its history. *)
LEMMA Untouched ==
  ASSUME IInv, NEW c \in Clients, NEW movers, Track(movers), c \notin movers,
         pc'[c] = pc[c], Set(c)' = Set(c)
  PROVE  hist'[c] = hist[c]
<1>1. CASE pc[c] = "idle"
  BY <1>1 DEF Track, IInv, At, FlowAt
<1>2. CASE pc[c] # "idle"
  <2>1. hist'[c] = [ stable |-> hist[c].stable \cap Set(c), ever |-> hist[c].ever \cup Set(c),
                     wrote |-> hist[c].wrote \/ FALSE ]
    BY <1>2 DEF Track
  <2>2. hist[c] \in HistoryType /\ hist[c].stable \subseteq Set(c) /\ Set(c) \subseteq hist[c].ever
    BY <1>2 DEF IInv, Typed, TypeOK, HistoryType, At, RecordedAt
  <2>3. hist'[c] = [ stable |-> hist[c].stable, ever |-> hist[c].ever, wrote |-> hist[c].wrote ]
    BY <2>1, <2>2 DEF HistoryType
  <2> QED
    BY <2>2, <2>3 DEF HistoryType
<1> QED
  BY <1>1, <1>2

(* A step that writes nothing leaves the history of every request as it is. *)
LEMMA NothingHappened ==
  ASSUME IInv, NEW c \in Clients, StepTyped(c), Track({c}), store' = store,
         Request(c)' = Request(c), pc[c] # "idle", pc'[c] # "idle",
         pc[c] \notin {"apply", "delete"} \/ job[c].todo = <<>>
  PROVE  hist' = hist
<1>1. ASSUME NEW d \in Clients, d # c PROVE hist'[d] = hist[d]
  <2>1. pc'[d] = pc[d] /\ Set(d)' = Set(d)
    BY <1>1 DEF StepTyped, Set, Request
  <2> QED
    BY <1>1, <2>1, Untouched
<1>2. hist'[c] = hist[c]
  BY Quiet
<1>3. hist \in [Clients -> HistoryType]
  BY DEF IInv, Typed, TypeOK, HistoryType
<1> QED
  BY <1>1, <1>2, <1>3 DEF Track

(* A step of c that shows nowhere outside is a stuttering step. *)
LEMMA Hidden ==
  ASSUME IInv, NEW c \in Clients, StepTyped(c), Track({c}), store' = store,
         pc[c] # "idle", pc'[c] # "idle",
         pc[c] \notin {"apply", "delete"} \/ job[c].todo = <<>>,
         Request(c)' = Request(c), StepOf(c)' = StepOf(c), TodoOf(c)' = TodoOf(c), AnswerOf(c)' = AnswerOf(c)
  PROVE  UNCHANGED Abstract!vars
<1>1. hist' = hist
  BY NothingHappened
<1>2. /\ AStep' = AStep /\ ARequest' = ARequest /\ ATodo' = ATodo /\ AAnswer' = AAnswer
  BY Mapped DEF IInv, AStep, ARequest, ATodo, AAnswer
<1> QED
  BY <1>1, <1>2 DEF Abstract!vars, AStep, ARequest, ATodo, AAnswer

-----------------------------------------------------------------------------
(* The steps that stutter *)

(* Opening a trie, validating and walking show nowhere outside. *)
LEMMA HiddenSteps ==
  ASSUME IInv, NEW c \in Clients, Track({c}),
         \/ AcceptRequest(c) \/ OpenV4(c) \/ OpenV6(c) \/ NextKey(c) \/ LookupKey(c)
         \/ ListIPv6(c) \/ BeginDelete(c) \/ FlushIPv6(c)
  PROVE  UNCHANGED Abstract!vars
<1> USE DEF JobFields, Goto
<1>0. /\ DOMAIN job = Clients /\ DOMAIN job[c] = JobFields /\ DOMAIN pc = Clients
      /\ At(c) /\ Typed
  BY DEF IInv, Typed, TypeOK, JobOK
<1>1. Handle(c) /\ store' = store
  BY DEF Handle, Mutate, Open, Iterate, List, Flush, AcceptRequest, OpenV4, OpenV6, NextKey, LookupKey,
     ListIPv6, BeginDelete, FlushIPv6
<1>2. StepTyped(c)
  BY <1>0, <1>1, TypedSteps
<1>3. /\ pc[c] \in {"check", "open_v4", "open_v6", "next", "look", "delete"}
      /\ pc'[c] \in {"open_v4", "open_v6", "apply", "next", "look", "delete"}
      /\ pc[c] = "delete" => job[c].todo = <<>>
      /\ Request(c)' = Request(c) /\ job'[c].code = job[c].code
      /\ job'[c].applied = job[c].applied /\ job'[c].errors = job[c].errors
  <2>1. CASE AcceptRequest(c)
    BY <1>0, <2>1 DEF AcceptRequest, Request
  <2>2. CASE OpenV4(c)
    BY <1>0, <2>2 DEF OpenV4, Request
  <2>3. CASE OpenV6(c)
    BY <1>0, <2>3 DEF OpenV6, Request
  <2>4. CASE NextKey(c)
    BY <1>0, <2>4 DEF NextKey, Request
  <2>5. CASE LookupKey(c)
    BY <1>0, <2>5 DEF LookupKey, Request
  <2>6. CASE ListIPv6(c)
    BY <1>0, <2>6 DEF ListIPv6, Request
  <2>7. CASE BeginDelete(c)
    BY <1>0, <2>7 DEF BeginDelete, Request
  <2>8. CASE FlushIPv6(c)
    BY <1>0, <2>8 DEF FlushIPv6, Request
  <2> QED
    BY <2>1, <2>2, <2>3, <2>4, <2>5, <2>6, <2>7, <2>8
<1>4. TodoOf(c)' = TodoOf(c)
  <2>1. CASE AcceptRequest(c)
    BY <1>0, <1>3, <2>1 DEF AcceptRequest, TodoOf, Done, At, FlowAt, Mutates
  <2>2. CASE ~Mutates(c)
    BY <1>3, <2>2 DEF Mutates, TodoOf
  <2>3. CASE Mutates(c) /\ ~AcceptRequest(c)
    <3>1. OpenV4(c) \/ OpenV6(c)
      BY <1>0, <2>3, RequestsAssumption DEF NextKey, LookupKey, ListIPv6, BeginDelete, FlushIPv6, At, FlowAt, Mutates, Walks
    <3>2. job' = job /\ pc[c] \in {"open_v4", "open_v6"} /\ pc'[c] \in {"open_v6", "apply"}
      BY <1>0, <2>3, <3>1 DEF OpenV4, OpenV6, Mutates
    <3> QED
      BY <1>3, <3>2 DEF TodoOf, Done
  <2> QED
    BY <2>1, <2>2, <2>3
<1>5. AnswerOf(c)' = AnswerOf(c)
  <2>1. job[c].code = 0
    BY <1>0, <1>3 DEF At, FlowAt, Done
  <2> QED
    BY <1>3, <2>1 DEF AnswerOf
<1>6. StepOf(c)' = StepOf(c)
  BY <1>3 DEF StepOf, Done
<1> QED
  BY <1>1, <1>2, <1>3, <1>4, <1>5, <1>6, Hidden

(* Nor does the daemon's pinning of a map. *)
LEMMA PinHidden ==
  ASSUME IInv, NEW kind \in Kinds, NEW f \in Families, PinMap(kind, f), Track({})
  PROVE  UNCHANGED Abstract!vars
<1>1. UNCHANGED <<store, pc, job, fds>>
  BY DEF PinMap
<1>2. ASSUME NEW d \in Clients PROVE hist'[d] = hist[d]
  <2>1. Set(d)' = Set(d)
    BY <1>1 DEF Set, Request
  <2> QED
    BY <1>1, <2>1, Untouched
<1>3. hist \in [Clients -> HistoryType] 
  BY DEF IInv, Typed, TypeOK, HistoryType
<1>4. hist' = hist
  BY <1>2, <1>3 DEF Track
<1>5. \A d \in Clients : /\ StepOf(d)' = StepOf(d) /\ Request(d)' = Request(d)
                         /\ TodoOf(d)' = TodoOf(d) /\ AnswerOf(d)' = AnswerOf(d)
  BY <1>1 DEF StepOf, Request, TodoOf, AnswerOf, Done
<1> QED
  BY <1>1, <1>4, <1>5 DEF Abstract!vars

-----------------------------------------------------------------------------
(* The steps that show *)

(* The answer is decided. *)
LEMMA Finished ==
  ASSUME Typed, NEW c \in Clients, StepTyped(c), store' = store, Request(c)' = Request(c),
         pc'[c] \in {"reply", "close"}, job'[c].errors = job[c].errors
  PROVE  Abstract!Finish(c, job'[c].code, job'[c].applied,
                         IF job'[c].code = 200 THEN Range(job'[c].found) ELSE {})
<1> DEFINE code == job'[c].code
           applied == job'[c].applied
           found == IF code = 200 THEN Range(job'[c].found) ELSE {}
<1>1. AStep' = [AStep EXCEPT ![c] = "done"]
  BY Mapped DEF StepOf, Done
<1>2. ARequest' = ARequest
  BY Mapped DEF ARequest
<1>3. ATodo' = [ATodo EXCEPT ![c] = <<>>]
  BY Mapped DEF TodoOf, Done
<1>4. AAnswer' = [AAnswer EXCEPT ![c].code = code, ![c].applied = applied, ![c].found = found]
  <2>1. AnswerOf(c)' = [AnswerOf(c) EXCEPT !.code = code, !.applied = applied, !.found = found]
    <3>1. AnswerOf(c)' = [applied |-> applied, errors |-> job[c].errors, code |-> code, found |-> found]
      BY DEF AnswerOf
    <3> HIDE DEF code, applied, found
    <3> DEFINE r == AnswerOf(c)
               e == [r EXCEPT !.code = code, !.applied = applied, !.found = found]
    <3>2. r.errors = job[c].errors /\ DOMAIN r = {"applied", "errors", "code", "found"}
      BY DEF AnswerOf
    <3> HIDE DEF r
    <3>3. DOMAIN e = DOMAIN r /\ e = [x \in DOMAIN e |-> e[x]]
      OBVIOUS
    <3>4. e.code = code /\ e.applied = applied /\ e.found = found /\ e.errors = job[c].errors
      BY <3>2
    <3> HIDE DEF e
    <3>5. e = [applied |-> applied, errors |-> job[c].errors, code |-> code, found |-> found]
      BY <3>2, <3>3, <3>4
    <3> QED
      BY <3>1, <3>5 DEF e, r
  <2> QED
    BY <2>1, Mapped DEF AAnswer
<1> QED
  BY <1>1, <1>2, <1>3, <1>4 DEF Abstract!Finish, AStep, ARequest, ATodo, AAnswer

(* What the guards of the abstract actions say of a handler. *)
LEMMA AbstractGuards ==
  ASSUME NEW c \in Clients
  PROVE  /\ ARequest[c] = Request(c)
         /\ Abstract!Valid(Request(c)) <=> (Mutates(c) => ~Rejected(Request(c).entries))
         /\ \A op : Abstract!Busy(c, op) <=> pc[c] # "idle" /\ ~Done(c) /\ Request(c).op \in op
         /\ Abstract!Mutating(c, {"add", "del"}) <=>
              pc[c] # "idle" /\ ~Done(c) /\ Mutates(c) /\ ~Rejected(Request(c).entries) /\ ~Request(c).dryrun
<1>1. ARequest[c] = Request(c)
  BY DEF ARequest
<1>2. Abstract!Valid(Request(c)) <=> (Mutates(c) => ~Rejected(Request(c).entries))
  <2>1. Abstract!Range(Request(c).entries) = {Request(c).entries[i] : i \in DOMAIN Request(c).entries}
    BY DEF Abstract!Range
  <2> QED
    BY <2>1 DEF Abstract!Valid, Abstract!Mutations, Mutates, Rejected
<1>3. \A op : Abstract!Busy(c, op) <=> pc[c] # "idle" /\ ~Done(c) /\ Request(c).op \in op
  BY DEF Abstract!Busy, StepOf
<1>4. Abstract!Mutating(c, {"add", "del"}) <=>
        pc[c] # "idle" /\ ~Done(c) /\ Mutates(c) /\ ~Rejected(Request(c).entries) /\ ~Request(c).dryrun
  BY <1>1, <1>2, <1>3 DEF Abstract!Mutating, Mutates
<1> QED
  BY <1>1, <1>2, <1>3, <1>4

(* PrefixSet's own copy of an operator is the operator. *)
LEMMA SameRange == \A f : Abstract!Range(f) = Range(f)
BY DEF Abstract!Range, Range

(* A request that is received is a call. *)
LEMMA ReceiveInvokes ==
  ASSUME IInv, NEW c \in Clients, NEW r \in Requests, Receive(c, r), Track({c})
  PROVE  Abstract!Invoke(c, r) /\ Abstract!Track({})
<1>0. StepTyped(c) /\ Typed /\ At(c)
  BY TypedSteps DEF IInv
<1>1. /\ pc[c] = "idle" /\ pc'[c] \in {"check", "open_v4"} /\ job'[c] = Job(r) /\ store' = store
      /\ pc'[c] = "check" <=> r.op \in {"add", "del"}
      /\ job[c] = Job(NoRequest)
  BY <1>0 DEF Receive, Goto, Typed, TypeOK, At, FlowAt
<1>2. AStep[c] = "idle" /\ AStep' = [AStep EXCEPT ![c] = "busy"]
  BY <1>0, <1>1, Mapped DEF AStep, StepOf, Done
<1>3. ARequest' = [ARequest EXCEPT ![c] = r]
  BY <1>0, <1>1, Mapped DEF Request, Job
<1>4. ATodo' = [ATodo EXCEPT ![c] = Abstract!Work(r)]
  <2>1. TodoOf(c)' = Abstract!Work(r)
    BY <1>1 DEF TodoOf, Done, Request, Job, Abstract!Work, Abstract!Mutations
  <2> QED
    BY <1>0, <2>1, Mapped
<1>5. AAnswer' = AAnswer
  <2>1. AnswerOf(c)' = AnswerOf(c)
    BY <1>1 DEF AnswerOf, Job
  <2> QED
    BY <1>0, <2>1, Mapped DEF AAnswer
<1>6. Abstract!Track({})
  BY <1>1, TrackMapped
<1> QED
  BY <1>1, <1>2, <1>3, <1>4, <1>5, <1>6 DEF Abstract!Invoke, AStep, ARequest, ATodo, AAnswer

(* A request is refused before anything is written. *)
LEMMA RefusalsRefuse ==
  ASSUME IInv, NEW c \in Clients, RejectRequest(c) \/ OpenV4Fails(c) \/ OpenV6Fails(c), Track({c})
  PROVE  Abstract!Refuse(c) /\ Abstract!Track({})
<1>0. StepTyped(c) /\ Typed /\ At(c) /\ DOMAIN pc = Clients /\ DOMAIN job = Clients /\ DOMAIN job[c] = JobFields
  BY TypedSteps DEF IInv, Typed, TypeOK, JobOK, Handle, Mutate, Open
<1> DEFINE code == job'[c].code
<1>1. /\ pc[c] \in {"check", "open_v4", "open_v6"} /\ pc'[c] = "reply" /\ store' = store
      /\ Request(c)' = Request(c) /\ code \in {400, 503}
      /\ code = 400 <=> pc[c] = "check"
      /\ pc[c] = "check" => Rejected(Request(c).entries)
      /\ job'[c].applied = job[c].applied /\ job'[c].errors = job[c].errors
  <2>1. CASE RejectRequest(c)
    BY <1>0, <2>1 DEF RejectRequest, Goto, Answer, JobFields, Request
  <2>2. CASE OpenV4Fails(c)
    BY <1>0, <2>2 DEF OpenV4Fails, Goto, Answer, JobFields, Request
  <2>3. CASE OpenV6Fails(c)
    BY <1>0, <2>3 DEF OpenV6Fails, Goto, Answer, JobFields, Request
  <2> QED
    BY <2>1, <2>2, <2>3
<1>2. /\ job[c].applied = {} /\ ~hist[c].wrote
      /\ pc[c] = "check" => Mutates(c)
      /\ pc[c] # "check" /\ Mutates(c) => ~Rejected(Request(c).entries)
  BY <1>0, <1>1 DEF At, FlowAt
<1> HIDE DEF code
<1>3. Abstract!Finish(c, code, {}, {})
  <2>1. Abstract!Finish(c, code, job'[c].applied, IF code = 200 THEN Range(job'[c].found) ELSE {})
    BY <1>0, <1>1, Finished DEF code
  <2>2. (IF code = 200 THEN Range(job'[c].found) ELSE {}) = {}
    BY <1>1
  <2> QED
    BY <1>1, <1>2, <2>1, <2>2
<1>4. code = 400 <=> ~Abstract!Valid(Request(c))
  BY <1>1, <1>2, AbstractGuards
<1>5. AStep[c] = "busy"
  BY <1>1 DEF AStep, StepOf, Done
<1>6. Abstract!Track({})
  BY <1>1, TrackMapped
<1> QED
  BY <1>1, <1>2, <1>3, <1>4, <1>5, <1>6, AbstractGuards DEF Abstract!Refuse, AStep, ARequest

(* A dryrun reports what it would have applied. *)
LEMMA DryrunAnswers ==
  ASSUME IInv, NEW c \in Clients, AnswerDryrun(c), Track({c})
  PROVE  Abstract!AnswerDryrun(c) /\ Abstract!Track({})
<1>0. StepTyped(c) /\ Typed /\ At(c) /\ DOMAIN pc = Clients /\ DOMAIN job = Clients /\ DOMAIN job[c] = JobFields
  BY TypedSteps DEF IInv, Typed, TypeOK, JobOK, Handle, Mutate
<1>1. /\ pc[c] = "check" /\ pc'[c] = "reply" /\ store' = store /\ Request(c)' = Request(c)
      /\ ~Rejected(Request(c).entries) /\ Request(c).dryrun
      /\ job'[c].code = 200 /\ job'[c].applied = Range(Parsed(Request(c).entries, Keys))
      /\ job'[c].errors = job[c].errors /\ job'[c].found = job[c].found
  BY <1>0 DEF AnswerDryrun, Goto, JobFields, Request
<1>2. Mutates(c) /\ Range(job[c].found) = {}
  BY <1>0, <1>1 DEF At, FlowAt, Range
<1>3. ATodo[c] = Parsed(Request(c).entries, Keys)
  BY <1>1, <1>2 DEF ATodo, TodoOf, Done, Mutates
<1>4. Abstract!Finish(c, 200, Range(ATodo[c]), {})
  BY <1>0, <1>1, <1>2, <1>3, Finished
<1>5. Abstract!Busy(c, Abstract!Mutations)
  BY <1>1, <1>2, AbstractGuards DEF Abstract!Mutations, Mutates, Done
<1>6. Abstract!Track({})
  BY <1>1, TrackMapped
<1> QED
  BY <1>1, <1>4, <1>5, <1>6, AbstractGuards, SameRange DEF Abstract!AnswerDryrun, ATodo, ARequest

(* A list answers with what it has read, a flush that it has cleared; both may fail. *)
LEMMA WalksAnswer ==
  ASSUME IInv, NEW c \in Clients, AnswerList(c) \/ AnswerFlush(c) \/ AbortIteration(c), Track({c})
  PROVE  /\ Abstract!AnswerList(c) \/ Abstract!AnswerFlush(c) \/ Abstract!Fail(c)
         /\ Abstract!Track({})
<1>0. StepTyped(c) /\ Typed /\ At(c) /\ DOMAIN pc = Clients /\ DOMAIN job = Clients /\ DOMAIN job[c] = JobFields
  BY TypedSteps DEF IInv, Typed, TypeOK, JobOK, Handle, Iterate, List, Flush
<1>1. /\ pc[c] \in {"next", "delete"} /\ pc'[c] = "close" /\ store' = store /\ Request(c)' = Request(c)
      /\ job'[c].applied = job[c].applied /\ job'[c].errors = job[c].errors /\ job'[c].found = job[c].found
      /\ pc[c] = "delete" => job[c].todo = <<>>
      /\ AbortIteration(c) => job'[c].code = 500
      /\ AnswerList(c) => pc[c] = "next" /\ Request(c).op = "list" /\ job'[c].code = 200
      /\ AnswerFlush(c) => pc[c] = "delete" /\ job'[c].code = 200
  <2>1. CASE AnswerList(c)
    BY <1>0, <2>1 DEF AnswerList, AnswerFlush, AbortIteration, AtEnd, Goto, Answer, JobFields, Request
  <2>2. CASE AnswerFlush(c)
    BY <1>0, <2>2 DEF AnswerList, AnswerFlush, AbortIteration, Goto, Answer, JobFields, Request
  <2>3. CASE AbortIteration(c)
    BY <1>0, <2>3 DEF AnswerList, AnswerFlush, AbortIteration, AtEnd, Goto, Answer, JobFields, Request
  <2> QED
    BY <2>1, <2>2, <2>3
<1>2. job[c].applied = {} /\ Walks(c)
  BY <1>0, <1>1 DEF At, FlowAt
<1> DEFINE found == IF job'[c].code = 200 THEN Range(job'[c].found) ELSE {}
<1>2a. Abstract!Finish(c, job'[c].code, {}, found)
  <2>1. Abstract!Finish(c, job'[c].code, job'[c].applied, found)
    BY <1>0, <1>1, Finished
  <2> QED
    BY <1>1, <1>2, <2>1
<1>3. Abstract!Busy(c, {Request(c).op})
  BY <1>1, AbstractGuards DEF Done
<1>4. Abstract!Track({})
  BY <1>1, TrackMapped
<1>5. IInv' /\ hist' = hist
  <2>1. Step(c)
    BY DEF Step, Handle, Iterate, List, Flush
  <2>2. [Next]_vars
    BY <2>1 DEF Next
  <2>3. hist' = hist
    BY <1>0, <1>1, NothingHappened
  <2> QED
    BY <2>2, <2>3, IInvNext
<1>6. CASE AnswerList(c)
  <2>1. hist[c].stable \subseteq Range(job[c].found) /\ Range(job[c].found) \subseteq hist[c].ever
    BY <1>1, <1>5, <1>6 DEF IInv, At, WalkAt, Answered, Request
  <2>2. Abstract!Finish(c, 200, {}, Range(job[c].found))
    <3>1. found = Range(job[c].found)
      BY <1>1, <1>6
    <3> HIDE DEF found
    <3> QED
      BY <1>1, <1>6, <1>2a, <3>1
  <2> QED
    BY <1>1, <1>3, <1>4, <1>6, <2>1, <2>2 DEF Abstract!AnswerList
<1>7. CASE AnswerFlush(c)
  <2>1. Request(c).op = "flush" /\ Range(job[c].found) = {}
    BY <1>0, <1>1, <1>7 DEF At, FlowAt, Range
  <2>2. hist[c].stable = {}
    BY <1>1, <1>5, <1>7, <2>1 DEF IInv, At, WalkAt, Answered, Request
  <2>3. Abstract!Finish(c, 200, {}, {})
    <3>1. found = {}
      BY <1>1, <1>7, <2>1
    <3> HIDE DEF found
    <3> QED
      BY <1>1, <1>7, <1>2a, <3>1
  <2> QED
    BY <1>3, <1>4, <2>1, <2>2, <2>3 DEF Abstract!AnswerFlush
<1>8. CASE AbortIteration(c)
  <2>1. Abstract!Finish(c, 500, {}, {})
    <3>1. found = {}
      BY <1>1, <1>8
    <3> HIDE DEF found
    <3> QED
      BY <1>1, <1>8, <1>2a, <3>1
  <2>2. Abstract!Busy(c, {"list", "flush"})
    BY <1>1, <1>2, AbstractGuards DEF Walks, Done
  <2> QED
    BY <1>4, <2>1, <2>2 DEF Abstract!Fail
<1> QED
  BY <1>6, <1>7, <1>8

(* The next entry of a mutation takes effect. *)
LEMMA EntryApplies ==
  ASSUME IInv, NEW c \in Clients, AddEntry(c) \/ DelEntry(c), Track({c})
  PROVE  Abstract!Apply(c) /\ Abstract!Track({c})
<1>0. StepTyped(c) /\ Typed /\ At(c) /\ DOMAIN pc = Clients /\ DOMAIN job = Clients /\ DOMAIN job[c] = JobFields
  BY TypedSteps DEF IInv, Typed, TypeOK, JobOK, Handle, Mutate
<1>1. pc[c] = "apply" /\ pc'[c] = "apply" /\ job[c].todo # <<>> /\ Applied(c)
  BY DEF AddEntry, DelEntry, Take
<1>2. /\ Request(c)' = Request(c) /\ job'[c].todo = Tail(job[c].todo) /\ job'[c].found = job[c].found
      /\ job'[c].code = job[c].code /\ job'[c].applied = job[c].applied \cup {Entry(c)}
      /\ job'[c].errors = job[c].errors
  BY <1>0, <1>1 DEF Applied, Request, JobFields
<1>3. Mutates(c) /\ job[c].code = 0 /\ Abstract!Mutating(c, Abstract!Mutations)
  BY <1>0, <1>1, AbstractGuards DEF At, FlowAt, Done, Abstract!Mutations
<1>4. ATodo[c] = job[c].todo /\ ATodo' = [ATodo EXCEPT ![c] = Tail(job[c].todo)]
  <2>1. TodoOf(c) = job[c].todo /\ TodoOf(c)' = Tail(job[c].todo)
    BY <1>1, <1>2, <1>3 DEF TodoOf, Done, Mutates
  <2> QED
    BY <1>0, <2>1, Mapped DEF ATodo
<1>5. Abstract!Entry(c) = Entry(c)
  BY <1>4 DEF Abstract!Entry, Entry, ATodo
<1>6. AAnswer' = [AAnswer EXCEPT ![c].applied = @ \cup {Entry(c)}]
  <2> DEFINE r == AnswerOf(c)
             e == [r EXCEPT !.applied = r.applied \cup {Entry(c)}]
  <2>1. /\ r = [applied |-> job[c].applied, errors |-> job[c].errors, code |-> 0, found |-> {}]
        /\ AnswerOf(c)' = [applied |-> job[c].applied \cup {Entry(c)}, errors |-> job[c].errors,
                           code |-> 0, found |-> {}]
    BY <1>2, <1>3 DEF AnswerOf
  <2> HIDE DEF r
  <2>2. AnswerOf(c)' = e
    BY <2>1
  <2> QED
    BY <1>0, <2>2, Mapped DEF AAnswer, r
<1>7. AStep' = AStep /\ ARequest' = ARequest
  <2>1. StepOf(c)' = StepOf(c)
    BY <1>1 DEF StepOf, Done
  <2> QED
    BY <1>0, <1>2, <2>1, Mapped DEF AStep, ARequest
<1>8. \/ Request(c).op = "add" /\ store' = [store EXCEPT ![Request(c).kind] = Set(c) \cup {Entry(c)}]
      \/ /\ Request(c).op = "del" /\ Entry(c) \in Set(c)
         /\ store' = [store EXCEPT ![Request(c).kind] = Set(c) \ {Entry(c)}]
  BY DEF AddEntry, DelEntry, Take, Set
<1>9. Abstract!Track({c})
  BY <1>1, TrackMapped
<1> QED
  <2>1. Abstract!Set(c) = Set(c)
    BY AbstractSet
  <2>2. \A keys : Abstract!Put(c, keys) <=> store' = [store EXCEPT ![Request(c).kind] = keys]
    BY DEF Abstract!Put
  <2>3. \/ Request(c).op = "add" /\ Abstract!Put(c, Abstract!Set(c) \cup {Abstract!Entry(c)})
        \/ /\ Request(c).op = "del" /\ Abstract!Entry(c) \in Abstract!Set(c)
           /\ Abstract!Put(c, Abstract!Set(c) \ {Abstract!Entry(c)})
    BY <1>5, <1>8, <2>1, <2>2
  <2> QED
    BY <1>1, <1>3, <1>4, <1>5, <1>6, <1>7, <1>9, <2>3, AbstractGuards
       DEF Abstract!Apply, AStep, ARequest, ATodo, AAnswer

(* An entry is refused, for whatever reason. *)
LEMMA EntryRefused ==
  ASSUME IInv, NEW c \in Clients, AddFails(c) \/ DelFails(c), Track({c})
  PROVE  Abstract!RefuseEntry(c) /\ Abstract!Track({c})
<1>0. /\ StepTyped(c) /\ Typed /\ At(c) /\ DOMAIN pc = Clients /\ DOMAIN job = Clients
      /\ DOMAIN job[c] = JobFields /\ job[c].errors \subseteq Keys
  BY TypedSteps DEF IInv, Typed, TypeOK, JobOK, Handle, Mutate
<1>1. pc[c] = "apply" /\ pc'[c] = "apply" /\ job[c].todo # <<>> /\ Refused(c) /\ store' = store
  BY DEF AddFails, DelFails, Take
<1>2. /\ Request(c)' = Request(c) /\ job'[c].todo = Tail(job[c].todo) /\ job'[c].found = job[c].found
      /\ job'[c].code = job[c].code /\ job'[c].applied = job[c].applied
      /\ job'[c].errors = job[c].errors \cup {Entry(c)}
  BY <1>0, <1>1 DEF Refused, Request, JobFields
<1>3. Mutates(c) /\ job[c].code = 0 /\ Abstract!Mutating(c, Abstract!Mutations)
  BY <1>0, <1>1, AbstractGuards DEF At, FlowAt, Done, Abstract!Mutations
<1>4. ATodo[c] = job[c].todo /\ ATodo' = [ATodo EXCEPT ![c] = Tail(job[c].todo)]
  <2>1. TodoOf(c) = job[c].todo /\ TodoOf(c)' = Tail(job[c].todo)
    BY <1>1, <1>2, <1>3 DEF TodoOf, Done, Mutates
  <2> QED
    BY <1>0, <2>1, Mapped DEF ATodo
<1>5. Abstract!Entry(c) = Entry(c)
  BY <1>4 DEF Abstract!Entry, Entry, ATodo
<1>6. AAnswer' = [AAnswer EXCEPT ![c].errors = @ \cup {Entry(c)}]
  <2> DEFINE r == AnswerOf(c)
             e == [r EXCEPT !.errors = r.errors \cup {Entry(c)}]
  <2>1. /\ r = [applied |-> job[c].applied, errors |-> job[c].errors, code |-> 0, found |-> {}]
        /\ AnswerOf(c)' = [applied |-> job[c].applied, errors |-> job[c].errors \cup {Entry(c)},
                           code |-> 0, found |-> {}]
    BY <1>2, <1>3 DEF AnswerOf
  <2> HIDE DEF r
  <2>2. AnswerOf(c)' = e
    BY <2>1
  <2> QED
    BY <1>0, <2>2, Mapped DEF AAnswer, r
<1>7. AStep' = AStep /\ ARequest' = ARequest
  <2>1. StepOf(c)' = StepOf(c)
    BY <1>1 DEF StepOf, Done
  <2> QED
    BY <1>0, <1>2, <2>1, Mapped DEF AStep, ARequest
<1>8. Abstract!Track({c})
  BY <1>1, TrackMapped
<1> QED
  BY <1>1, <1>3, <1>4, <1>5, <1>6, <1>7, <1>8, AbstractGuards
     DEF Abstract!RefuseEntry, AStep, ARequest, ATodo, AAnswer

(* A mutation answers when every entry has been applied or refused. *)
LEMMA MutationAnswers ==
  ASSUME IInv, NEW c \in Clients, AnswerMutation(c), Track({c})
  PROVE  Abstract!AnswerMutation(c) /\ Abstract!Track({})
<1>0. StepTyped(c) /\ Typed /\ At(c) /\ DOMAIN pc = Clients /\ DOMAIN job = Clients /\ DOMAIN job[c] = JobFields
  BY TypedSteps DEF IInv, Typed, TypeOK, JobOK, Handle, Mutate
<1> DEFINE code == IF job[c].errors = {} THEN 200 ELSE 207
<1>1. /\ pc[c] = "apply" /\ pc'[c] = "close" /\ store' = store /\ Request(c)' = Request(c)
      /\ job[c].todo = <<>> /\ job'[c].code = code /\ job'[c].applied = job[c].applied
      /\ job'[c].errors = job[c].errors /\ job'[c].found = job[c].found
  BY <1>0 DEF AnswerMutation, Answer, Goto, JobFields, Request
<1>2. Mutates(c) /\ Abstract!Mutating(c, Abstract!Mutations) /\ Range(job[c].found) = {}
  BY <1>0, <1>1, AbstractGuards DEF At, FlowAt, Done, Abstract!Mutations, Range
<1>3. ATodo[c] = <<>>
  BY <1>1, <1>2 DEF ATodo, TodoOf, Done, Mutates
<1>4. AAnswer[c].errors = job[c].errors /\ AAnswer[c].applied = job[c].applied
  BY DEF AAnswer, AnswerOf
<1> HIDE DEF code
<1>5. Abstract!Finish(c, code, job[c].applied, {})
  <2> DEFINE found == IF code = 200 THEN Range(job'[c].found) ELSE {}
  <2>1. Abstract!Finish(c, code, job[c].applied, found)
    BY <1>0, <1>1, Finished
  <2>2. found = {}
    BY <1>1, <1>2
  <2> HIDE DEF found
  <2> QED
    BY <2>1, <2>2
<1>6. Abstract!Track({})
  BY <1>1, TrackMapped
<1> QED
  BY <1>2, <1>3, <1>4, <1>5, <1>6 DEF Abstract!AnswerMutation, ATodo, AAnswer, code

(* A flush removes a key. *)
LEMMA KeyRemoved ==
  ASSUME IInv, NEW c \in Clients, DeleteEntry(c), Track({c})
  PROVE  Abstract!Remove(c) /\ Abstract!Track({c})
<1>0. /\ StepTyped(c) /\ Typed /\ At(c) /\ DOMAIN pc = Clients /\ DOMAIN job = Clients
      /\ DOMAIN job[c] = JobFields /\ job[c].todo \in Seq(Keys)
  BY TypedSteps DEF IInv, Typed, TypeOK, JobOK, Handle, Flush
<1>1. /\ pc[c] = "delete" /\ pc'[c] = "delete" /\ Request(c)' = Request(c) /\ Request(c).op = "flush"
      /\ job[c].todo # <<>> /\ store' = [store EXCEPT ![Request(c).kind] = Set(c) \ {Entry(c)}]
      /\ job'[c].applied = job[c].applied /\ job'[c].errors = job[c].errors
      /\ job'[c].code = job[c].code /\ job'[c].found = job[c].found
  BY <1>0 DEF DeleteEntry, Take, JobFields, Request, Set
<1>2. Entry(c) \in Keys
  BY <1>0, <1>1 DEF Entry
<1>3. /\ StepOf(c)' = StepOf(c) /\ TodoOf(c)' = TodoOf(c) /\ AnswerOf(c)' = AnswerOf(c)
  BY <1>1 DEF StepOf, TodoOf, AnswerOf, Done
<1>4. AStep' = AStep /\ ARequest' = ARequest /\ ATodo' = ATodo /\ AAnswer' = AAnswer
  BY <1>0, <1>1, <1>3, Mapped DEF AStep, ARequest, ATodo, AAnswer
<1>5. Abstract!Busy(c, {"flush"})
  BY <1>1, AbstractGuards DEF Done
<1>6. Abstract!Put(c, Abstract!Set(c) \ {Entry(c)})
  BY <1>1, AbstractSet DEF Abstract!Put
<1>7. Abstract!Track({c})
  BY <1>1, TrackMapped
<1> QED
  BY <1>2, <1>4, <1>5, <1>6, <1>7 DEF Abstract!Remove, AStep, ARequest, ATodo, AAnswer

(* A flush fails to remove a key, and ends. *)
LEMMA RemovalFails ==
  ASSUME IInv, NEW c \in Clients, DeleteFails(c), Track({c})
  PROVE  Abstract!FailRemoving(c) /\ Abstract!Track({c})
<1>0. StepTyped(c) /\ Typed /\ At(c) /\ DOMAIN pc = Clients /\ DOMAIN job = Clients /\ DOMAIN job[c] = JobFields
  BY TypedSteps DEF IInv, Typed, TypeOK, JobOK, Handle, Flush
<1>1. /\ pc[c] = "delete" /\ pc'[c] = "close" /\ Request(c)' = Request(c) /\ Request(c).op = "flush"
      /\ job[c].todo # <<>> /\ store' = store /\ job'[c].code = 500
      /\ job'[c].applied = job[c].applied /\ job'[c].errors = job[c].errors
  BY <1>0 DEF DeleteFails, Take, Goto, Answer, JobFields, Request
<1>2. job[c].applied = {}
  BY <1>0, <1>1 DEF At, FlowAt, Walks
<1> DEFINE found == IF job'[c].code = 200 THEN Range(job'[c].found) ELSE {}
<1>3. Abstract!Finish(c, job'[c].code, job'[c].applied, found)
  BY <1>0, <1>1, Finished
<1>4. found = {}
  BY <1>1
<1> HIDE DEF found
<1>5. Abstract!Finish(c, 500, {}, {})
  BY <1>1, <1>2, <1>3, <1>4
<1>6. Abstract!Busy(c, {"flush"})
  BY <1>1, AbstractGuards DEF Done
<1>7. Abstract!Track({c})
  BY <1>1, TrackMapped
<1> QED
  BY <1>5, <1>6, <1>7 DEF Abstract!FailRemoving

(* The answer is sent. *)
LEMMA RespondReturns ==
  ASSUME IInv, NEW c \in Clients, Respond(c), Track({c})
  PROVE  Abstract!Return(c) /\ Abstract!Track({})
<1>0. StepTyped(c) /\ Typed
  BY TypedSteps DEF IInv, Handle
<1>1. pc[c] \in {"reply", "close"} /\ pc'[c] = "idle" /\ job'[c] = Job(NoRequest) /\ store' = store
  BY <1>0 DEF Respond, Typed, TypeOK
<1>2. AStep[c] = "done" /\ AStep' = [AStep EXCEPT ![c] = "idle"]
  BY <1>0, <1>1, Mapped DEF AStep, StepOf, Done
<1>3. ARequest' = [ARequest EXCEPT ![c] = NoRequest]
  BY <1>0, <1>1, Mapped DEF Request, Job
<1>4. ATodo' = ATodo
  <2>1. TodoOf(c) = <<>> /\ TodoOf(c)' = <<>>
    BY <1>1 DEF TodoOf, Done, Request, Job, NoRequest
  <2> QED
    BY <1>0, <2>1, Mapped DEF ATodo
<1>5. AAnswer' = [AAnswer EXCEPT ![c] = Abstract!NoAnswer]
  <2>1. AnswerOf(c)' = Abstract!NoAnswer
    BY <1>1 DEF AnswerOf, Job, Abstract!NoAnswer
  <2> QED
    BY <1>0, <2>1, Mapped
<1>6. Abstract!Track({})
  BY <1>1, TrackMapped
<1> QED
  BY <1>1, <1>2, <1>3, <1>4, <1>5, <1>6 DEF Abstract!Return, AStep, ARequest, ATodo, AAnswer

-----------------------------------------------------------------------------
(* The initial states map to initial states, every step to a step or none. *)

(* The initial states. *)
LEMMA InitMapped == Init => Abstract!Init
<1> SUFFICES ASSUME Init PROVE Abstract!Init
  OBVIOUS
<1>1. \A c \in Clients : /\ StepOf(c) = "idle" /\ Request(c) = NoRequest /\ TodoOf(c) = <<>>
                         /\ AnswerOf(c) = Abstract!NoAnswer
  <2> TAKE c \in Clients
  <2>1. /\ pc[c] = "idle" /\ Request(c) = NoRequest /\ NoRequest.op = "list"
        /\ job[c].applied = {} /\ job[c].errors = {} /\ job[c].code = 0
    BY DEF Init, Request, Job, NoRequest
  <2> QED
    BY <2>1 DEF StepOf, TodoOf, Done, AnswerOf, Abstract!NoAnswer
<1> QED
  BY <1>1 DEF Init, Abstract!Init, NoHistory, Started, Abstract!Started

(* One case for each action of PrefixSet. *)
LEMMA NextMapped == IInv /\ [Next]_vars => [Abstract!Next]_Abstract!vars
<1> SUFFICES ASSUME IInv, [Next]_vars PROVE Abstract!Next \/ UNCHANGED Abstract!vars
  OBVIOUS
<1>1. CASE UNCHANGED vars
  BY <1>1 DEF vars, Abstract!vars, StepOf, Request, TodoOf, AnswerOf, Done
<1>2. ASSUME NEW kind \in Kinds, NEW f \in Families, PinMap(kind, f), Track({})
      PROVE  UNCHANGED Abstract!vars
  BY <1>2, PinHidden
<1>3. ASSUME NEW c \in Clients, NEW r \in Requests, Receive(c, r), Track({c}) PROVE Abstract!Next
  BY <1>3, ReceiveInvokes DEF Abstract!Next, Abstract!Reading
<1>4. ASSUME NEW c \in Clients, Handle(c), Track({c}) PROVE Abstract!Next \/ UNCHANGED Abstract!vars
  <2>1. CASE \/ AcceptRequest(c) \/ OpenV4(c) \/ OpenV6(c) \/ NextKey(c) \/ LookupKey(c)
             \/ ListIPv6(c) \/ BeginDelete(c) \/ FlushIPv6(c)
    BY <1>4, <2>1, HiddenSteps
  <2>2. CASE RejectRequest(c) \/ OpenV4Fails(c) \/ OpenV6Fails(c)
    BY <1>4, <2>2, RefusalsRefuse DEF Abstract!Next, Abstract!Reading
  <2>3. CASE AnswerDryrun(c)
    BY <1>4, <2>3, DryrunAnswers DEF Abstract!Next, Abstract!Reading
  <2>4. CASE AnswerList(c) \/ AnswerFlush(c) \/ AbortIteration(c)
    BY <1>4, <2>4, WalksAnswer DEF Abstract!Next, Abstract!Reading
  <2>5. CASE AddEntry(c) \/ DelEntry(c)
    BY <1>4, <2>5, EntryApplies DEF Abstract!Next, Abstract!Writing
  <2>6. CASE AddFails(c) \/ DelFails(c)
    BY <1>4, <2>6, EntryRefused DEF Abstract!Next, Abstract!Writing
  <2>7. CASE AnswerMutation(c)
    BY <1>4, <2>7, MutationAnswers DEF Abstract!Next, Abstract!Reading
  <2>8. CASE DeleteEntry(c)
    BY <1>4, <2>8, KeyRemoved DEF Abstract!Next, Abstract!Writing
  <2>9. CASE Respond(c)
    BY <1>4, <2>9, RespondReturns DEF Abstract!Next, Abstract!Reading
  <2>10. CASE DeleteFails(c)
    BY <1>4, <2>10, RemovalFails DEF Abstract!Next, Abstract!Writing
  <2> QED
    BY <1>4, <2>1, <2>2, <2>3, <2>4, <2>5, <2>6, <2>7, <2>8, <2>9, <2>10 DEF Handle, Mutate, Open, Iterate, List, Flush
<1> QED
  BY <1>1, <1>2, <1>3, <1>4 DEF Next, Step

(* The handlers do what PrefixSet promises: calls take effect entry by entry  *)
(* or not at all, and lists and flushes mean something although the tries     *)
(* change under them (api.go:98-209, maps.go:112-237).                       *)
THEOREM Refinement == Spec => ImplementsPrefixSet
<1>1. Spec => Init /\ [][Next]_vars /\ []IInv
  BY Invariance DEF Spec
<1> QED
  BY <1>1, InitMapped, NextMapped, PTL DEF ImplementsPrefixSet, Abstract!Spec

====
