----------------------------- MODULE FirewallApi -----------------------------
(***************************************************************************)
(* The control plane: the HTTP handlers of pkg/plugins/firewall/api.go that *)
(* add, delete, list and flush blocklist and allowlist entries, and the     *)
(* prefix sets of maps.go they work on.                                     *)
(*                                                                          *)
(* Every request runs in a goroutine of its own (a client here is one such  *)
(* request slot) and holds no lock: it opens the two pinned LPM tries of    *)
(* its set and then makes one system call per step, so that between any two *)
(* of them every other request may change the tries.                        *)
(*                                                                          *)
(* An entry is a key of one trie.  Keys are numbered in the order in which  *)
(* the kernel walks a trie (a more specific prefix before the prefix that   *)
(* covers it, low addresses first), which depends on the keys alone.        *)
(***************************************************************************)
EXTENDS Entries, FiniteSetsExt, Functions

CONSTANTS
  Clients,     \* slots for concurrent requests
  Kinds,       \* "blocklist" and "allowlist"
  Keys4,       \* IPv4 prefixes, numbered in the order of the trie walk
  Keys6,       \* IPv6 prefixes, numbered in the order of the trie walk
  Covers,      \* Covers[k]: the prefixes that cover k, other than k
  MaxEntries,  \* the tries' max_entries
  Bad, Skip,   \* an entry ParseEntry rejects, an entry it skips
  Requests     \* the requests the clients may send

Keys == Keys4 \cup Keys6
Families == {"v4", "v6"}
FamilyKeys == [v4 |-> Keys4, v6 |-> Keys6]
Operations == {"add", "del", "list", "flush"}

ASSUME KeysAssumption ==
  /\ Keys \subseteq Nat \ {0}
  /\ Keys4 \cap Keys6 = {}
  /\ IsFiniteSet(Keys)
ASSUME CoversAssumption ==
  /\ Covers \in [Keys -> SUBSET Keys]
  /\ \A k \in Keys : \A g \in Covers[k] : g > k /\ (g \in Keys4 <=> k \in Keys4)
ASSUME RequestsAssumption ==
  /\ {Bad, Skip} \cap Keys = {}
  /\ \A r \in Requests : /\ r.op \in Operations /\ r.kind \in Kinds
                         /\ r.entries \in Seq(Keys \cup {Bad, Skip})
                         /\ r.dryrun \in BOOLEAN
ASSUME MaxEntriesAssumption == MaxEntries \in Nat \ {0}

VARIABLES
  pinned,  \* the maps pinned so far, as pairs of a kind and a family
  store,   \* store[kind]: the keys in the kind's two tries
  pc,      \* pc[c]: what the handler of client c does next
  job,     \* job[c]: the request of client c and the handler's local state
  fds,     \* fds[c]: the tries the handler of client c holds open
  hist     \* hist[c]: history of the set while the request of c runs

vars == <<pinned, store, pc, job, fds, hist>>

-----------------------------------------------------------------------------
(* State *)

Steps == {"idle", "check", "open_v4", "open_v6", "apply", "next", "look",
          "delete", "reply", "close"}

Codes == {0, 200, 207, 400, 500, 503}

(* Between requests a slot holds no request. *)
NoRequest == [op |-> "list", kind |-> CHOOSE k \in Kinds : TRUE, entries |-> <<>>, dryrun |-> FALSE]

(* The local variables of a handler: the entries still to be applied or      *)
(* flushed; the trie an iterator is in, its cursor (0 is nil), how often it   *)
(* has advanced and what it has read; the entries applied and refused; the    *)
(* status of the answer (0: none yet).  The counts a flush returns are left   *)
(* out.                                                                      *)
Job(request) ==
  [ request |-> request, todo |-> <<>>,
    family |-> "v4", cursor |-> 0, count |-> 0, found |-> <<>>,
    applied |-> {}, errors |-> {}, code |-> 0 ]

(* What happened to the set since a request was received: the keys present   *)
(* all the time, the keys present at some time, whether the request made a    *)
(* call that writes.                                                         *)
Started(present) == [stable |-> present, ever |-> present, wrote |-> FALSE]

NoHistory == Started({})

TypeOK ==
  /\ pinned \subseteq Kinds \X Families
  /\ store \in [Kinds -> SUBSET Keys]
  /\ pc \in [Clients -> Steps]
  /\ \A c \in Clients :
       LET j == job[c]
       IN  /\ j.request \in Requests \cup {NoRequest}
           /\ j.todo \in Seq(Keys) /\ j.found \in Seq(Keys)
           /\ j.family \in Families /\ j.cursor \in Keys \cup {0}
           /\ j.count \in 0 .. (MaxEntries + 1)
           /\ j.applied \subseteq Keys /\ j.errors \subseteq Keys
           /\ j.code \in Codes
  /\ fds \in [Clients -> SUBSET Families]
  /\ hist \in [Clients -> [stable : SUBSET Keys, ever : SUBSET Keys, wrote : BOOLEAN]]

Init ==
  /\ pinned = {}
  /\ store = [k \in Kinds |-> {}]
  /\ pc = [c \in Clients |-> "idle"]
  /\ job = [c \in Clients |-> Job(NoRequest)]
  /\ fds = [c \in Clients |-> {}]
  /\ hist = [c \in Clients |-> NoHistory]

-----------------------------------------------------------------------------
Request(c) == job[c].request
Set(c) == store[Request(c).kind]

(* The keys of the trie the iterator of c is in. *)
Trie(c) == Set(c) \cap FamilyKeys[job[c].family]

Goto(c, from, to) == pc[c] = from /\ pc' = [pc EXCEPT ![c] = to]

(* The handler has decided its answer; step "close" runs the deferred        *)
(* s.Close() after it, step "reply" has nothing deferred.                    *)
Answer(c, code) == job' = [job EXCEPT ![c].code = code]

(* The daemon's LoadAndAssign creates and pins a map, one after the other.   *)
PinMap(kind, f) ==
  /\ <<kind, f>> \notin pinned
  /\ pinned' = pinned \cup {<<kind, f>>}
  /\ UNCHANGED <<store, pc, job, fds>>

-----------------------------------------------------------------------------
(* Receiving and checking a request *)

Receive(c, r) ==
  /\ Goto(c, "idle", IF r.op \in {"add", "del"} THEN "check" ELSE "open_v4")
  /\ job' = [job EXCEPT ![c] = Job(r)]
  /\ UNCHANGED <<pinned, store, fds>>

Rejected(entries) == entries = <<>> \/ \E i \in DOMAIN entries : entries[i] = Bad

(* apiMutate validates every entry before it touches the maps. *)
RejectRequest(c) ==
  /\ Rejected(Request(c).entries)
  /\ Goto(c, "check", "reply")
  /\ Answer(c, 400)
  /\ UNCHANGED <<pinned, store, fds>>

AnswerDryrun(c) ==
  /\ ~Rejected(Request(c).entries)
  /\ Request(c).dryrun
  /\ Goto(c, "check", "reply")
  /\ job' = [job EXCEPT ![c].code = 200, ![c].applied = Range(Parsed(Request(c).entries, Keys))]
  /\ UNCHANGED <<pinned, store, fds>>

(* Slip: a validated dryrun goes on to the maps. *)
AcceptDryrun(c) ==
  /\ ~Rejected(Request(c).entries)
  /\ Goto(c, "check", "open_v4")
  /\ job' = [job EXCEPT ![c].todo = Parsed(Request(c).entries, Keys)]
  /\ UNCHANGED <<pinned, store, fds>>

AcceptRequest(c) ==
  /\ ~Rejected(Request(c).entries)
  /\ ~Request(c).dryrun
  /\ Goto(c, "check", "open_v4")
  /\ job' = [job EXCEPT ![c].todo = Parsed(Request(c).entries, Keys)]
  /\ UNCHANGED <<pinned, store, fds>>

-----------------------------------------------------------------------------
(* PrefixSet.Open *)

OpenV4(c) ==
  /\ <<Request(c).kind, "v4">> \in pinned
  /\ Goto(c, "open_v4", "open_v6")
  /\ fds' = [fds EXCEPT ![c] = @ \cup {"v4"}]
  /\ UNCHANGED <<pinned, store, job>>

OpenV4Fails(c) ==
  /\ <<Request(c).kind, "v4">> \notin pinned
  /\ Goto(c, "open_v4", "reply")
  /\ Answer(c, 503)
  /\ UNCHANGED <<pinned, store, fds>>

OpenV6(c) ==
  /\ <<Request(c).kind, "v6">> \in pinned
  /\ Goto(c, "open_v6", IF Request(c).op \in {"add", "del"} THEN "apply" ELSE "next")
  /\ fds' = [fds EXCEPT ![c] = @ \cup {"v6"}]
  /\ UNCHANGED <<pinned, store, job>>

(* Slip: the first trie stays open when the second cannot be opened. *)
OpenV6Leaks(c) ==
  /\ <<Request(c).kind, "v6">> \notin pinned
  /\ Goto(c, "open_v6", "reply")
  /\ Answer(c, 503)
  /\ UNCHANGED <<pinned, store, fds>>

(* The first trie is closed again when the second cannot be opened. *)
OpenV6Fails(c) ==
  /\ <<Request(c).kind, "v6">> \notin pinned
  /\ Goto(c, "open_v6", "reply")
  /\ Answer(c, 503)
  /\ fds' = [fds EXCEPT ![c] = @ \ {"v4"}]
  /\ UNCHANGED <<pinned, store>>

-----------------------------------------------------------------------------
(* apiMutate: one Update or Delete call per entry *)

Entry(c) == Head(job[c].todo)

Full(c) ==
  \E f \in Families : /\ Entry(c) \in FamilyKeys[f]
                      /\ Cardinality(Set(c) \cap FamilyKeys[f]) = MaxEntries

(* The handler takes the next entry of its list. *)
Take(c, op, step) ==
  /\ pc[c] = step
  /\ Request(c).op \in op
  /\ job[c].todo # <<>>

Applied(c) ==
  job' = [job EXCEPT ![c].todo = Tail(@), ![c].applied = @ \cup {Entry(c)}]

(* Slip: the loop stops at the first refused entry. *)
RefusedStops(c) ==
  job' = [job EXCEPT ![c].todo = <<>>, ![c].errors = @ \cup {Entry(c)}]

Refused(c) ==
  job' = [job EXCEPT ![c].todo = Tail(@), ![c].errors = @ \cup {Entry(c)}]

(* Overwriting an entry of a full trie succeeds on newer kernels only.       *)
AddEntry(c) ==
  /\ Take(c, {"add"}, "apply")
  /\ Full(c) => Entry(c) \in Set(c)
  /\ store' = [store EXCEPT ![Request(c).kind] = @ \cup {Entry(c)}]
  /\ Applied(c)
  /\ UNCHANGED <<pinned, pc, fds>>

(* Slip: the error of a full trie is not looked at. *)
AddFailsApplied(c) ==
  /\ Take(c, {"add"}, "apply")
  /\ Full(c)
  /\ Applied(c)
  /\ UNCHANGED <<pinned, store, pc, fds>>

(* A full trie is one reason for an Update to fail; the handler asks for none. *)
AddFails(c) ==
  /\ Take(c, {"add"}, "apply")
  /\ Refused(c)
  /\ UNCHANGED <<pinned, store, pc, fds>>

DelEntry(c) ==
  /\ Take(c, {"del"}, "apply")
  /\ Entry(c) \in Set(c)
  /\ store' = [store EXCEPT ![Request(c).kind] = @ \ {Entry(c)}]
  /\ Applied(c)
  /\ UNCHANGED <<pinned, pc, fds>>

(* A missing entry is one reason for a Delete to fail; nor does it here. *)
DelFails(c) ==
  /\ Take(c, {"del"}, "apply")
  /\ Refused(c)
  /\ UNCHANGED <<pinned, store, pc, fds>>

AnswerMutation(c) ==
  /\ job[c].todo = <<>>
  /\ Goto(c, "apply", "close")
  /\ Answer(c, IF job[c].errors = {} THEN 200 ELSE 207)
  /\ UNCHANGED <<pinned, store, fds>>

-----------------------------------------------------------------------------
(* prefixMap.entries: the iterator of the ebpf library *)

(* The kernel returns the key after the cursor in the order of the walk, but *)
(* starts over from the first key when the cursor is not in the trie.        *)
After(keys, cursor) == IF cursor \in keys THEN {k \in keys : k > cursor} ELSE keys

(* The iterator gives up when it has advanced more often than the trie can   *)
(* have entries.                                                             *)
Exhausted(c) == job[c].count > MaxEntries

(* Slip: only the keys the iterator has returned count against the bound. *)
NextKeyUncounted(c) ==
  /\ ~Exhausted(c)
  /\ After(Trie(c), job[c].cursor) # {}
  /\ Goto(c, "next", "look")
  /\ job' = [job EXCEPT ![c].cursor = Min(After(Trie(c), @)),
                        ![c].count = Len(job[c].found)]
  /\ UNCHANGED <<pinned, store, fds>>

NextKey(c) ==
  /\ ~Exhausted(c)
  /\ After(Trie(c), job[c].cursor) # {}
  /\ Goto(c, "next", "look")
  /\ job' = [job EXCEPT ![c].cursor = Min(After(Trie(c), @)), ![c].count = @ + 1]
  /\ UNCHANGED <<pinned, store, fds>>

(* A longest-prefix lookup of the key finds it, or an entry that covers it:  *)
(* only when both are gone does the iterator skip the key.                   *)
LookupKey(c) ==
  /\ Goto(c, "look", "next")
  /\ job' = IF Trie(c) \cap ({job[c].cursor} \cup Covers[job[c].cursor]) # {}
            THEN [job EXCEPT ![c].found = Append(@, job[c].cursor)]
            ELSE job
  /\ UNCHANGED <<pinned, store, fds>>

AbortIteration(c) ==
  /\ Exhausted(c)
  /\ Goto(c, "next", "close")
  /\ Answer(c, 500)
  /\ UNCHANGED <<pinned, store, fds>>

(* Slip: it.Err() is not looked at, an aborted iteration counts as complete. *)
AtEndUnchecked(c) == Exhausted(c) \/ After(Trie(c), job[c].cursor) = {}

AtEnd(c) == ~Exhausted(c) /\ After(Trie(c), job[c].cursor) = {}

(* Slip: the IPv6 entries replace the IPv4 ones. *)
ListIPv6Only(c) ==
  /\ AtEnd(c)
  /\ Request(c).op = "list" /\ job[c].family = "v4"
  /\ Goto(c, "next", "next")
  /\ job' = [job EXCEPT ![c].family = "v6", ![c].cursor = 0, ![c].count = 0, ![c].found = <<>>]
  /\ UNCHANGED <<pinned, store, fds>>

(* PrefixSet.List: the IPv4 entries followed by the IPv6 entries. *)
ListIPv6(c) ==
  /\ AtEnd(c)
  /\ Request(c).op = "list" /\ job[c].family = "v4"
  /\ Goto(c, "next", "next")
  /\ job' = [job EXCEPT ![c].family = "v6", ![c].cursor = 0, ![c].count = 0]
  /\ UNCHANGED <<pinned, store, fds>>

AnswerList(c) ==
  /\ AtEnd(c)
  /\ Request(c).op = "list" /\ job[c].family = "v6"
  /\ Goto(c, "next", "close")
  /\ Answer(c, 200)
  /\ UNCHANGED <<pinned, store, fds>>

-----------------------------------------------------------------------------
(* PrefixSet.Flush: read the keys of a trie, then delete them one by one *)

BeginDelete(c) ==
  /\ AtEnd(c)
  /\ Request(c).op = "flush"
  /\ Goto(c, "next", "delete")
  /\ job' = [job EXCEPT ![c].todo = job[c].found, ![c].found = <<>>]
  /\ UNCHANGED <<pinned, store, fds>>

(* A key that is gone already is passed over. *)
DeleteEntry(c) ==
  /\ Take(c, {"flush"}, "delete")
  /\ store' = [store EXCEPT ![Request(c).kind] = @ \ {Entry(c)}]
  /\ job' = [job EXCEPT ![c].todo = Tail(@)]
  /\ UNCHANGED <<pinned, pc, fds>>

(* An error other than a missing key ends the flush: the entries after this   *)
(* one stay, those of the other trie too, and the answer is an error.        *)
DeleteFails(c) ==
  /\ Take(c, {"flush"}, "delete")
  /\ Goto(c, "delete", "close")
  /\ Answer(c, 500)
  /\ UNCHANGED <<pinned, store, fds>>

FlushIPv6(c) ==
  /\ job[c].todo = <<>> /\ job[c].family = "v4"
  /\ Goto(c, "delete", "next")
  /\ job' = [job EXCEPT ![c].family = "v6", ![c].cursor = 0, ![c].count = 0]
  /\ UNCHANGED <<pinned, store, fds>>

AnswerFlush(c) ==
  /\ job[c].todo = <<>> /\ job[c].family = "v6"
  /\ Goto(c, "delete", "close")
  /\ Answer(c, 200)
  /\ UNCHANGED <<pinned, store, fds>>

-----------------------------------------------------------------------------
(* The answer is sent, and then the deferred Close runs. *)
Respond(c) ==
  /\ pc[c] \in {"reply", "close"}
  /\ pc' = [pc EXCEPT ![c] = "idle"]
  /\ fds' = IF pc[c] = "close" THEN [fds EXCEPT ![c] = {}] ELSE fds
  /\ job' = [job EXCEPT ![c] = Job(NoRequest)]
  /\ UNCHANGED <<pinned, store>>

Mutate(c) ==
  \/ RejectRequest(c) \/ AnswerDryrun(c) \/ AcceptRequest(c)
  \/ AddEntry(c) \/ AddFails(c) \/ DelEntry(c) \/ DelFails(c) \/ AnswerMutation(c)

Open(c) == OpenV4(c) \/ OpenV4Fails(c) \/ OpenV6(c) \/ OpenV6Fails(c)

Iterate(c) == NextKey(c) \/ LookupKey(c) \/ AbortIteration(c)

List(c) == ListIPv6(c) \/ AnswerList(c)

Flush(c) ==
  BeginDelete(c) \/ DeleteEntry(c) \/ DeleteFails(c) \/ FlushIPv6(c) \/ AnswerFlush(c)

Handle(c) == Mutate(c) \/ Open(c) \/ Iterate(c) \/ List(c) \/ Flush(c) \/ Respond(c)

-----------------------------------------------------------------------------
(* History: what the step of the clients in movers means for each request.  *)

Track(movers) ==
  hist' = [c \in Clients |->
    IF pc'[c] = "idle" THEN NoHistory
    ELSE IF pc[c] = "idle" THEN Started(Set(c)')
    ELSE [ stable |-> hist[c].stable \cap Set(c)',
           ever   |-> hist[c].ever \cup Set(c)',
           wrote  |-> \/ hist[c].wrote
                      \/ c \in movers /\ pc[c] \in {"apply", "delete"} /\ job[c].todo # <<>> ] ]

Step(c) == Handle(c) /\ Track({c})

Next ==
  \/ \E kind \in Kinds, f \in Families : PinMap(kind, f) /\ Track({})
  \/ \E c \in Clients, r \in Requests : Receive(c, r) /\ Track({c})
  \/ \E c \in Clients : Step(c)

(* The Go scheduler runs every handler that can move.  Nothing makes a client *)
(* send a request or the daemon pin its maps.                                 *)
Fairness == \A c \in Clients : WF_vars(Step(c))

Spec == Init /\ [][Next]_vars /\ Fairness

-----------------------------------------------------------------------------
(* Properties.  An answer is judged when the handler has decided it.         *)

Answered(c, op, code) ==
  pc[c] \in {"reply", "close"} /\ Request(c).op \in op /\ job[c].code \in code

(* A flush answered 200 has emptied the set: no entry was there all the time *)
(* from the request to the answer, although other requests added and deleted *)
(* entries while the iterator walked and restarted (maps.go:145-158,         *)
(* 228-237).                                                                 *)
FlushClears ==
  \A c \in Clients : Answered(c, {"flush"}, {200}) => hist[c].stable = {}

(* A list answered 200 misses no entry that was there all the time, and      *)
(* shows none that was never there while the request ran, although the       *)
(* cursor's own entry may be deleted under the iterator (maps.go:127-143,    *)
(* 216-226).                                                                 *)
ListFaithful ==
  \A c \in Clients : Answered(c, {"list"}, {200}) =>
    /\ hist[c].stable \subseteq Range(job[c].found)
    /\ Range(job[c].found) \subseteq hist[c].ever

(* The answer to a mutation accounts for every entry and tells the truth:    *)
(* each parsed entry is reported applied or refused, 207 if and only if one  *)
(* was refused; an entry reported added was there, one reported deleted was  *)
(* not, at some moment of the request (api.go:173-191).                      *)
ReportedOutcome ==
  \A c \in Clients :
    Answered(c, {"add", "del"}, {200, 207}) /\ ~Request(c).dryrun =>
      /\ job[c].applied \cup job[c].errors = Range(Parsed(Request(c).entries, Keys))
      /\ job[c].code = 207 <=> job[c].errors # {}
      /\ Request(c).op = "add" => job[c].applied \subseteq hist[c].ever
      /\ Request(c).op = "del" => job[c].applied \cap hist[c].stable = {}

(* The handlers use a trie only while they hold it open and close whatever   *)
(* they opened on every path, the failing ones included (maps.go:181-199,    *)
(* api.go:100, 171, 199).                                                    *)
HandlesHeld ==
  \A c \in Clients :
    /\ pc[c] \in {"apply", "next", "look", "delete"} => fds[c] = Families
    /\ pc[c] = "idle" => fds[c] = {}

(* Seen from outside, a slot is idle, busy or done; what is left of a request *)
(* before its check are the entries still to be parsed; a list shows what its *)
(* iterators have read once it is answered.                                  *)
Done(c) == pc[c] \in {"reply", "close"}

StepOf(c) == IF pc[c] = "idle" THEN "idle" ELSE IF Done(c) THEN "done" ELSE "busy"

TodoOf(c) ==
  IF Done(c) \/ Request(c).op \notin {"add", "del"} THEN <<>>
  ELSE IF pc[c] = "check" THEN Parsed(Request(c).entries, Keys)
  ELSE job[c].todo

AnswerOf(c) ==
  [ applied |-> job[c].applied, errors |-> job[c].errors, code |-> job[c].code,
    found   |-> IF job[c].code = 200 THEN Range(job[c].found) ELSE {} ]

Abstract == INSTANCE PrefixSet WITH
  Wanted  <- [r \in Requests |-> Parsed(r.entries, Keys)],
  step    <- [c \in Clients |-> StepOf(c)],
  request <- [c \in Clients |-> Request(c)],
  todo    <- [c \in Clients |-> TodoOf(c)],
  answer  <- [c \in Clients |-> AnswerOf(c)]

(* The handlers do what the abstract specification promises: refused as a     *)
(* whole before the first write, entry by entry in the order of the request,  *)
(* each entry accounted for, lists and flushes that mean something although    *)
(* the tries change under them, and no write by anyone but a pending mutation  *)
(* or flush (api.go:98-209, maps.go:112-237).                                 *)
ImplementsPrefixSet == Abstract!Spec

(* Every request is answered, also a list or a flush whose iterator other    *)
(* requests force to start over again and again.                             *)
RequestsAnswered == \A c \in Clients : pc[c] # "idle" ~> pc[c] = "idle"

(* "Every mutating request accepts "dryrun": true to validate and report     *)
(* without touching the maps." (README.md:130-131); the CLI's --dry-run      *)
(* "validate and report but change nothing" (cmd.go:30).                     *)
DryrunTouchesNothing == \A c \in Clients : Request(c).dryrun => ~hist[c].wrote

=============================================================================
