------------------------------ MODULE PrefixSet ------------------------------
(***************************************************************************)
(* What the API for the blocklist and the allowlist promises, without the   *)
(* tries, their descriptors and the iterator that FirewallApi works with:   *)
(* a set of prefixes for each list, and calls that work on them side by     *)
(* side.  A mutation is refused as a whole before anything happened, or     *)
(* takes effect entry by entry in the order of the request and accounts for *)
(* each.  A list is what was there all the time, and of the rest only what  *)
(* was there at some time; a flush leaves nothing of what was there all the *)
(* time.  FirewallApi is shown to implement this specification.             *)
(***************************************************************************)
EXTENDS Naturals, Sequences, Functions

CONSTANTS
  Clients,   \* slots for concurrent calls
  Kinds,     \* the lists
  Keys,      \* the prefixes
  Bad,       \* an entry that is no prefix
  Requests,  \* what may be called
  Wanted,    \* Wanted[r]: the prefixes that request r names, in its order
  NoRequest  \* the request of a slot that is not in use

VARIABLES
  store,    \* store[kind]: the prefixes in the list
  step,     \* step[c]: whether slot c is "idle", its call "busy" or "done"
  request,  \* request[c]: what was called
  todo,     \* todo[c]: the entries still to take effect
  answer,   \* answer[c]: the outcome of the call
  hist      \* hist[c]: what happened to the list of call c since it began

vars == <<store, step, request, todo, answer, hist>>

Mutations == {"add", "del"}

Work(r) == IF r.op \in Mutations THEN Wanted[r] ELSE <<>>
Valid(r) == r.op \in Mutations => r.entries # <<>> /\ Bad \notin Range(r.entries)

NoAnswer == [applied |-> {}, errors |-> {}, found |-> {}, code |-> 0]

Started(present) == [stable |-> present, ever |-> present, wrote |-> FALSE]

Init ==
  /\ store = [kind \in Kinds |-> {}]
  /\ step = [c \in Clients |-> "idle"]
  /\ request = [c \in Clients |-> NoRequest]
  /\ todo = [c \in Clients |-> <<>>]
  /\ answer = [c \in Clients |-> NoAnswer]
  /\ hist = [c \in Clients |-> Started({})]

-----------------------------------------------------------------------------
Set(c) == store[request[c].kind]
Entry(c) == Head(todo[c])

Busy(c, op) == step[c] = "busy" /\ request[c].op \in op
Mutating(c, op) == Busy(c, op) /\ Valid(request[c]) /\ ~request[c].dryrun

Put(c, keys) == store' = [store EXCEPT ![request[c].kind] = keys]

Finish(c, code, applied, found) ==
  /\ step' = [step EXCEPT ![c] = "done"]
  /\ todo' = [todo EXCEPT ![c] = <<>>]
  /\ answer' = [answer EXCEPT ![c].code = code, ![c].applied = applied, ![c].found = found]
  /\ UNCHANGED <<store, request>>

Invoke(c, r) ==
  /\ step[c] = "idle"
  /\ step' = [step EXCEPT ![c] = "busy"]
  /\ request' = [request EXCEPT ![c] = r]
  /\ todo' = [todo EXCEPT ![c] = Work(r)]
  /\ UNCHANGED <<store, answer>>

(* Nothing has been written for a call that is refused. *)
Refuse(c) ==
  /\ step[c] = "busy"
  /\ ~hist[c].wrote
  /\ \E code \in {400, 503} :
       /\ code = 400 <=> ~Valid(request[c])
       /\ Finish(c, code, {}, {})

AnswerDryrun(c) ==
  /\ Busy(c, Mutations) /\ Valid(request[c]) /\ request[c].dryrun
  /\ Finish(c, 200, Range(todo[c]), {})

(* The next entry of the call takes effect. *)
Apply(c) ==
  /\ Mutating(c, Mutations) /\ todo[c] # <<>>
  /\ \/ request[c].op = "add" /\ Put(c, Set(c) \cup {Entry(c)})
     \/ request[c].op = "del" /\ Entry(c) \in Set(c) /\ Put(c, Set(c) \ {Entry(c)})
  /\ todo' = [todo EXCEPT ![c] = Tail(@)]
  /\ answer' = [answer EXCEPT ![c].applied = @ \cup {Entry(c)}]
  /\ UNCHANGED <<step, request>>

(* Or it is refused, for want of room, of the entry or of anything else. *)
RefuseEntry(c) ==
  /\ Mutating(c, Mutations) /\ todo[c] # <<>>
  /\ todo' = [todo EXCEPT ![c] = Tail(@)]
  /\ answer' = [answer EXCEPT ![c].errors = @ \cup {Entry(c)}]
  /\ UNCHANGED <<store, step, request>>

AnswerMutation(c) ==
  /\ Mutating(c, Mutations) /\ todo[c] = <<>>
  /\ Finish(c, IF answer[c].errors = {} THEN 200 ELSE 207, answer[c].applied, {})

AnswerList(c) ==
  /\ Busy(c, {"list"})
  /\ \E found \in SUBSET hist[c].ever :
       hist[c].stable \subseteq found /\ Finish(c, 200, {}, found)

Remove(c) ==
  /\ Busy(c, {"flush"})
  /\ \E k \in Keys : Put(c, Set(c) \ {k})
  /\ UNCHANGED <<step, request, todo, answer>>

AnswerFlush(c) ==
  /\ Busy(c, {"flush"}) /\ hist[c].stable = {}
  /\ Finish(c, 200, {}, {})

(* A list or a flush may fail, the flush half-way or at the entry it removes. *)
Fail(c) == Busy(c, {"list", "flush"}) /\ Finish(c, 500, {}, {})
FailRemoving(c) == Busy(c, {"flush"}) /\ Finish(c, 500, {}, {})

Return(c) ==
  /\ step[c] = "done"
  /\ step' = [step EXCEPT ![c] = "idle"]
  /\ request' = [request EXCEPT ![c] = NoRequest]
  /\ answer' = [answer EXCEPT ![c] = NoAnswer]
  /\ UNCHANGED <<store, todo>>

-----------------------------------------------------------------------------
Writing(c) == Apply(c) \/ RefuseEntry(c) \/ Remove(c) \/ FailRemoving(c)

Reading(c) ==
  \/ \E r \in Requests : Invoke(c, r)
  \/ Refuse(c) \/ AnswerDryrun(c) \/ AnswerMutation(c)
  \/ AnswerList(c) \/ AnswerFlush(c) \/ Fail(c) \/ Return(c)

Track(writers) ==
  hist' = [c \in Clients |->
    IF step'[c] = "idle" THEN Started({})
    ELSE IF step[c] = "idle" THEN Started(Set(c)')
    ELSE [ stable |-> hist[c].stable \cap Set(c)',
           ever   |-> hist[c].ever \cup Set(c)',
           wrote  |-> hist[c].wrote \/ c \in writers ] ]

Next ==
  \E c \in Clients : \/ Reading(c) /\ Track({})
                     \/ Writing(c) /\ Track({c})

Spec == Init /\ [][Next]_vars

=============================================================================
