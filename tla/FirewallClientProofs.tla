------------------------ MODULE FirewallClientProofs ------------------------
(***************************************************************************)
(* Theorems about FirewallClient, for every number of commands at a time:    *)
(* what a command said when it exited with success holds until somebody asks  *)
(* for the opposite.                                                        *)
(*                                                                          *)
(* A request is said to oppose what another claims about a prefix.  The       *)
(* argument: a handler adds or removes a prefix only if its request opposes   *)
(* the contrary claim (Effects); nobody opposes a claim that was made        *)
(* (ClaimInv), or one that a pending request may yet make (FreshInv); and     *)
(* what a request may yet claim is true by the time it is answered (TruthAt). *)
(***************************************************************************)
EXTENDS FirewallClient, FirewallApiProofs

(* The commands and their requests stay together: a slot without a command    *)
(* holds no request, and a handler works on the request that was sent.       *)
ClientTypeOK ==
  /\ cli \in [Clients -> {"none", "waiting", "gone"}]
  /\ wire \in [Clients -> BOOLEAN]
  /\ \A c \in Clients : /\ sent[c] \in Requests \cup {NoRequest}
                        /\ cli[c] = "none" => sent[c] = NoRequest
                        /\ wire[c] => pc[c] = "idle"
                        /\ pc[c] # "idle" => Request(c) = sent[c]
  /\ claim \in [Kinds -> [Watched -> {"free", "in", "out"}]]
  /\ fresh \in [Clients -> SUBSET Watched]

(* A slot that no command uses has nothing pending and nothing to claim. *)
SlotInv ==
  /\ DOMAIN sent = Clients
  /\ \A c \in Clients :
       /\ cli[c] = "none" => ~Pending(c) /\ fresh[c] = {}
       /\ wire[c] => sent[c] \in Requests
       /\ sent[c].op = "flush" => ~sent[c].dryrun

(* What the handler's local variables may be at each step.  The history of    *)
(* FirewallApi plays no part here.                                           *)
StageAt(c) ==
  /\ pc[c] \in {"check", "apply"} => Mutates(c)
  /\ pc[c] \in {"next", "look", "delete"} => Walks(c)
  /\ pc[c] = "delete" => Request(c).op = "flush"
  /\ pc[c] \in {"check", "open_v4", "open_v6"} =>
       /\ job[c].family = "v4" /\ job[c].cursor = 0 /\ job[c].applied = {}
  /\ pc[c] \in {"open_v4", "open_v6", "apply"} /\ Mutates(c) =>
       ~Request(c).dryrun /\ Range(job[c].todo) \subseteq Range(Request(c).entries)
  /\ pc[c] = "look" => job[c].cursor \in FamilyOf(c)
  /\ Done(c) => job[c].code # 0
  /\ pc[c] = "reply" => job[c].code \in {400, 503} \/ (Mutates(c) /\ Request(c).dryrun)
  /\ pc[c] = "close" /\ Request(c).op = "flush" => job[c].code \in {200, 500}

(* Of the prefixes that a request may claim: those it has applied are in, or  *)
(* are out; those still in the set are ahead of the flush.                   *)
Left(c) == fresh[c] \cap Set(c)

AppliedAt(c) ==
  pc[c] # "idle" /\ ~Request(c).dryrun =>
    /\ Request(c).op = "add" => fresh[c] \cap job[c].applied \subseteq Set(c)
    /\ Request(c).op = "del" => Left(c) \cap job[c].applied = {}

AheadAt(c) ==
  Request(c).op = "flush" =>
    /\ pc[c] \in {"next", "look"} =>
         \A k \in Left(c) \cap FamilyOf(c) :
           k < job[c].cursor \/ (k = job[c].cursor /\ pc[c] = "next") => k \in Range(job[c].found)
    /\ pc[c] = "delete" => Left(c) \cap FamilyOf(c) \subseteq Range(job[c].todo)
    /\ pc[c] \in {"next", "look", "delete"} /\ job[c].family = "v6" => Left(c) \cap Keys4 = {}
    /\ Done(c) /\ job[c].code = 200 => Left(c) = {}

TruthAt(c) == AppliedAt(c) /\ AheadAt(c)

(* No pending request opposes what another may yet claim. *)
FreshInv ==
  \A c \in Clients : \A k \in fresh[c] : \A d \in Clients :
    Against(c, sent[c], d) => ~Opposes(sent[d], sent[c].op, k)

(* A claim is true, and no pending request opposes it. *)
ClaimInv ==
  \A kind \in Kinds, k \in Watched :
    /\ claim[kind][k] = "in" =>
         /\ k \in store[kind]
         /\ \A d \in Clients : Pending(d) /\ sent[d].kind = kind => ~Opposes(sent[d], "add", k)
    /\ claim[kind][k] = "out" =>
         /\ k \notin store[kind]
         /\ \A d \in Clients : Pending(d) /\ sent[d].kind = kind => ~Opposes(sent[d], "del", k)

CInv ==
  /\ Typed /\ ClientTypeOK /\ SlotInv
  /\ \A c \in Clients : StageAt(c) /\ TruthAt(c)
  /\ FreshInv /\ ClaimInv

-----------------------------------------------------------------------------
(* A handler's steps *)

(* The facts about a handler's variables that its steps rest on. *)
LEMMA Shapes ==
  ASSUME Typed, NEW c \in Clients
  PROVE  /\ DOMAIN job = Clients /\ DOMAIN job[c] = JobFields /\ DOMAIN pc = Clients
         /\ DOMAIN store = Kinds
         /\ job[c].todo \in Seq(Keys) /\ job[c].found \in Seq(Keys)
         /\ job[c].applied \subseteq Keys
         /\ pc[c] # "idle" => Request(c).kind \in Kinds /\ Set(c) \subseteq Keys /\ Trie(c) \subseteq Set(c)
BY TypedKinds DEF Typed, TypeOK, JobOK

(* The entries of an accepted request are entries of the request. *)
LEMMA ParsedAmong ==
  ASSUME NEW r \in Requests
  PROVE  Range(Parsed(r.entries, Keys)) \subseteq Range(r.entries)
<1>1. r.entries \in Seq(Keys \cup {Bad, Skip})
  BY RequestsAssumption
<1> QED
  BY <1>1, ParsedProperties

(* Taking an entry off the list leaves a part of it. *)
LEMMA TailAmong ==
  ASSUME Typed, NEW c \in Clients, job[c].todo # <<>>
  PROVE  Range(job[c].todo) = {Entry(c)} \cup Range(Tail(job[c].todo))
BY Shapes, RangeProperties DEF Entry

(* Every action but Respond, one step each. *)
LEMMA StageSteps ==
  ASSUME Typed, NEW c \in Clients, StageAt(c), Handle(c), ~Done(c)
  PROVE  StageAt(c)' /\ Request(c)' = Request(c) /\ pc[c] # "idle" /\ pc'[c] # "idle"
<1> DEFINE Staged == StageAt(c)' /\ Request(c)' = Request(c) /\ pc[c] # "idle" /\ pc'[c] # "idle"
<1>0. DOMAIN job = Clients /\ DOMAIN job[c] = JobFields /\ DOMAIN pc = Clients
  BY Shapes
<1> USE <1>0 DEF StageAt, Mutates, Walks, Request, Done, FamilyOf, Goto, Answer, JobFields
<1>1. ASSUME RejectRequest(c) PROVE Staged
  BY <1>1 DEF RejectRequest
<1>2. ASSUME AnswerDryrun(c) PROVE Staged
  BY <1>2 DEF AnswerDryrun
<1>3. ASSUME AcceptRequest(c) PROVE Staged
  <2>1. Request(c) \in Requests
    BY <1>3 DEF AcceptRequest, Typed
  <2> QED
    BY <1>3, <2>1, ParsedAmong DEF AcceptRequest
<1>4. ASSUME AddEntry(c) \/ AddFails(c) \/ DelEntry(c) \/ DelFails(c) PROVE Staged
  <2>1. Applied(c) \/ Refused(c)
    BY <1>4 DEF AddEntry, AddFails, DelEntry, DelFails
  <2>2. pc[c] = "apply" /\ pc'[c] = "apply" /\ job[c].todo # <<>>
    BY <1>4 DEF AddEntry, AddFails, DelEntry, DelFails, Take
  <2>3. Range(job'[c].todo) \subseteq Range(job[c].todo) /\ Request(c)' = Request(c)
    BY <2>1, <2>2, EntryTaken, TailAmong
  <2> QED
    BY <2>2, <2>3
<1>5. ASSUME AnswerMutation(c) PROVE Staged
  BY <1>5 DEF AnswerMutation
<1>6. ASSUME OpenV4(c) \/ OpenV4Fails(c) PROVE Staged
  BY <1>6 DEF OpenV4, OpenV4Fails
<1>7. ASSUME OpenV6(c) \/ OpenV6Fails(c) PROVE Staged
  <2>1. Request(c) \in Requests /\ Request(c).op \in Operations
    BY <1>7, RequestsAssumption DEF OpenV6, OpenV6Fails, Typed
  <2> QED
    BY <1>7, <2>1 DEF OpenV6, OpenV6Fails, Operations
<1>8. ASSUME NextKey(c) PROVE Staged
  <2> DEFINE key == Min(After(Trie(c), job[c].cursor))
  <2>1. pc[c] = "next" /\ After(Trie(c), job[c].cursor) # {}
    BY <1>8 DEF NextKey
  <2>2. key \in FamilyOf(c)
    <3>1. key \in Trie(c)
      BY <2>1, NextCursor
    <3> QED
      BY <3>1 DEF Trie
  <2>3. /\ pc' = [pc EXCEPT ![c] = "look"]
        /\ job' = [job EXCEPT ![c].cursor = key, ![c].count = @ + 1]
    BY <1>8 DEF NextKey
  <2> HIDE DEF key
  <2> QED
    BY <2>1, <2>2, <2>3
<1>9. ASSUME LookupKey(c) PROVE Staged
  BY <1>9 DEF LookupKey
<1>10. ASSUME AbortIteration(c) PROVE Staged
  BY <1>10 DEF AbortIteration
<1>11. ASSUME ListIPv6(c) PROVE Staged
  BY <1>11 DEF ListIPv6
<1>12. ASSUME AnswerList(c) PROVE Staged
  BY <1>12 DEF AnswerList
<1>13. ASSUME BeginDelete(c) PROVE Staged
  BY <1>13 DEF BeginDelete
<1>14. ASSUME DeleteEntry(c) PROVE Staged
  BY <1>14 DEF DeleteEntry, Take
<1>18. ASSUME DeleteFails(c) PROVE Staged
  BY <1>18 DEF DeleteFails, Take
<1>15. ASSUME FlushIPv6(c) PROVE Staged
  BY <1>15 DEF FlushIPv6
<1>16. ASSUME AnswerFlush(c) PROVE Staged
  BY <1>16 DEF AnswerFlush
<1>17. ~Respond(c)
  BY DEF Respond
<1> QED
  BY <1>1, <1>2, <1>3, <1>4, <1>5, <1>6, <1>7, <1>8, <1>9, <1>10, <1>11, <1>12, <1>13, <1>14, <1>15,
     <1>16, <1>17, <1>18 DEF Handle, Mutate, Open, Iterate, List, Flush

(* A handler writes to the set its request names, and only what opposes the   *)
(* contrary claim: an entry it adds, or deletes, is one of its request, and    *)
(* its request is not a dryrun.                                              *)
LEMMA Effects ==
  ASSUME Typed, NEW c \in Clients, StageAt(c), Handle(c), ~Done(c),
         Request(c).op = "flush" => ~Request(c).dryrun
  PROVE  /\ \A kind \in Kinds : kind # Request(c).kind => store'[kind] = store[kind]
         /\ \A k \in Set(c)' \ Set(c) : Opposes(Request(c), "del", k)
         /\ \A k \in Set(c) \ Set(c)' : Opposes(Request(c), "add", k)
<1> DEFINE Bounded == /\ \A kind \in Kinds : kind # Request(c).kind => store'[kind] = store[kind]
                      /\ \A k \in Set(c)' \ Set(c) : Opposes(Request(c), "del", k)
                      /\ \A k \in Set(c) \ Set(c)' : Opposes(Request(c), "add", k)
<1>1. Request(c)' = Request(c) /\ Request(c).kind \in Kinds /\ DOMAIN store = Kinds
  BY StageSteps, Shapes
<1>2. ASSUME AddEntry(c) PROVE Bounded
  <2>1. Entry(c) \in Range(Request(c).entries) /\ ~Request(c).dryrun /\ Request(c).op = "add"
    BY <1>2, TailAmong DEF AddEntry, Take, StageAt, Mutates
  <2>2. store' = [store EXCEPT ![Request(c).kind] = @ \cup {Entry(c)}]
    BY <1>2 DEF AddEntry
  <2> QED
    BY <1>1, <2>1, <2>2 DEF Set, Opposes
<1>3. ASSUME DelEntry(c) PROVE Bounded
  <2>1. Entry(c) \in Range(Request(c).entries) /\ ~Request(c).dryrun /\ Request(c).op = "del"
    BY <1>3, TailAmong DEF DelEntry, Take, StageAt, Mutates
  <2>2. store' = [store EXCEPT ![Request(c).kind] = @ \ {Entry(c)}]
    BY <1>3 DEF DelEntry
  <2> QED
    BY <1>1, <2>1, <2>2 DEF Set, Opposes
<1>4. ASSUME DeleteEntry(c) PROVE Bounded
  <2>1. ~Request(c).dryrun /\ Request(c).op = "flush"
    BY <1>4 DEF DeleteEntry, Take
  <2>2. store' = [store EXCEPT ![Request(c).kind] = @ \ {Entry(c)}]
    BY <1>4 DEF DeleteEntry
  <2> QED
    BY <1>1, <2>1, <2>2 DEF Set, Opposes
<1>5. CASE store' = store
  BY <1>1, <1>5 DEF Set
<1>6. AddEntry(c) \/ DelEntry(c) \/ DeleteEntry(c) \/ store' = store
  BY DEF Handle, Mutate, Open, Iterate, List, Flush, Respond,
     RejectRequest, AnswerDryrun, AcceptRequest, AddFails, DelFails, AnswerMutation,
     OpenV4, OpenV4Fails, OpenV6, OpenV6Fails, NextKey, LookupKey, AbortIteration,
     ListIPv6, AnswerList, BeginDelete, DeleteFails, FlushIPv6, AnswerFlush
<1> QED
  BY <1>2, <1>3, <1>4, <1>5, <1>6

(* What a request may claim of the entries it has applied stays true. *)
LEMMA AppliedSteps ==
  ASSUME Typed, NEW c \in Clients, StageAt(c), AppliedAt(c), Handle(c), ~Done(c), fresh' = fresh
  PROVE  AppliedAt(c)'
<1>0. /\ DOMAIN job = Clients /\ DOMAIN job[c] = JobFields /\ DOMAIN store = Kinds
      /\ Request(c)' = Request(c) /\ pc[c] # "idle" /\ Request(c).kind \in Kinds
  BY Shapes, StageSteps
<1>1. ASSUME AddEntry(c) PROVE AppliedAt(c)'
  <2>1. job'[c].applied = job[c].applied \cup {Entry(c)}
    BY <1>0, <1>1, EntryTaken DEF AddEntry
  <2>2. Set(c)' = Set(c) \cup {Entry(c)} /\ Request(c).op = "add"
    BY <1>0, <1>1 DEF AddEntry, Take, Set
  <2> QED
    BY <1>0, <2>1, <2>2 DEF AppliedAt
<1>2. ASSUME DelEntry(c) PROVE AppliedAt(c)'
  <2>1. job'[c].applied = job[c].applied \cup {Entry(c)}
    BY <1>0, <1>2, EntryTaken DEF DelEntry
  <2>2. Set(c)' = Set(c) \ {Entry(c)} /\ Request(c).op = "del"
    BY <1>0, <1>2 DEF DelEntry, Take, Set
  <2> QED
    BY <1>0, <2>1, <2>2 DEF AppliedAt, Left
<1>3. ASSUME AddFails(c) \/ DelFails(c) PROVE AppliedAt(c)'
  <2>1. job'[c].applied = job[c].applied /\ store' = store
    BY <1>0, <1>3, EntryTaken DEF AddFails, DelFails
  <2> QED
    BY <1>0, <2>1 DEF AppliedAt, Left, Set
<1>4. ASSUME AnswerDryrun(c) PROVE AppliedAt(c)'
  BY <1>0, <1>4 DEF AnswerDryrun, AppliedAt
<1>5. ASSUME DeleteEntry(c) PROVE AppliedAt(c)'
  BY <1>0, <1>5 DEF DeleteEntry, Take, AppliedAt
<1>6. CASE job'[c].applied = job[c].applied /\ store' = store
  BY <1>0, <1>6 DEF AppliedAt, Left, Set
<1>7. \/ AddEntry(c) \/ DelEntry(c) \/ AddFails(c) \/ DelFails(c) \/ AnswerDryrun(c) \/ DeleteEntry(c)
      \/ job'[c].applied = job[c].applied /\ store' = store
  <2>1. CASE Mutate(c)
    BY <1>0, <2>1 DEF Mutate, RejectRequest, AcceptRequest, AnswerMutation, Answer, JobFields
  <2>2. CASE Open(c)
    BY <1>0, <2>2 DEF Open, OpenV4, OpenV4Fails, OpenV6, OpenV6Fails, Answer, JobFields
  <2>3. CASE Iterate(c)
    BY <1>0, <2>3 DEF Iterate, NextKey, LookupKey, AbortIteration, Answer, JobFields
  <2>4. CASE List(c)
    BY <1>0, <2>4 DEF List, ListIPv6, AnswerList, Answer, JobFields
  <2>5. CASE Flush(c)
    BY <1>0, <2>5 DEF Flush, BeginDelete, DeleteFails, FlushIPv6, AnswerFlush, Answer, JobFields
  <2> QED
    BY <2>1, <2>2, <2>3, <2>4, <2>5 DEF Handle, Respond, Done
<1> QED
  BY <1>1, <1>2, <1>3, <1>4, <1>5, <1>6, <1>7

(* And what is left of the set stays ahead of a flush. *)
LEMMA AheadSteps ==
  ASSUME Typed, NEW c \in Clients, StageAt(c), AheadAt(c), Handle(c), ~Done(c),
         fresh' = fresh, fresh[c] \subseteq Keys
  PROVE  AheadAt(c)'
<1>0. /\ DOMAIN job = Clients /\ DOMAIN job[c] = JobFields /\ DOMAIN store = Kinds /\ DOMAIN pc = Clients
      /\ Request(c)' = Request(c) /\ pc[c] # "idle" /\ Request(c).kind \in Kinds
      /\ job[c].todo \in Seq(Keys) /\ job[c].found \in Seq(Keys)
      /\ Set(c) \subseteq Keys
  BY Shapes, StageSteps
<1> SUFFICES ASSUME Request(c).op = "flush" PROVE AheadAt(c)'
  BY <1>0 DEF AheadAt
<1> USE DEF JobFields, Goto
<1>1. ASSUME OpenV4(c) \/ OpenV4Fails(c) \/ OpenV6Fails(c) PROVE AheadAt(c)'
  <2>1. pc'[c] \in {"open_v6", "reply"} /\ (pc'[c] = "reply" => job'[c].code = 503)
    BY <1>0, <1>1 DEF OpenV4, OpenV4Fails, OpenV6Fails, Answer
  <2> QED
    BY <2>1 DEF AheadAt, Done
<1>2. ASSUME OpenV6(c) PROVE AheadAt(c)'
  <2>1. pc'[c] = "next" /\ job'[c].family = "v4" /\ job'[c].cursor = 0
    BY <1>0, <1>2 DEF OpenV6, StageAt
  <2>2. \A k \in FamilyOf(c)' : ~(k < 0) /\ k # 0
    BY <2>1, KeysAssumption DEF FamilyOf, FamilyKeys, Keys
  <2> QED
    BY <2>1, <2>2 DEF AheadAt, Done
<1>3. ASSUME NextKey(c) PROVE AheadAt(c)'
  <2>1. /\ pc[c] = "next" /\ pc'[c] = "look" /\ Left(c)' = Left(c)
        /\ job'[c].cursor = Min(After(Trie(c), job[c].cursor))
        /\ job'[c].found = job[c].found /\ job'[c].family = job[c].family
        /\ After(Trie(c), job[c].cursor) # {}
    BY <1>0, <1>3 DEF NextKey, Left, Set
  <2>2. ASSUME NEW k \in Left(c) \cap FamilyOf(c), k < job'[c].cursor PROVE k \in Range(job[c].found)
    <3>1. k \in Trie(c)
      BY DEF Left, Trie, FamilyOf
    <3>2. k < job[c].cursor \/ k = job[c].cursor
      BY <1>0, <2>1, <2>2, <3>1, Advance
    <3> QED
      BY <2>1, <3>2 DEF AheadAt
  <2> QED
    BY <1>0, <2>1, <2>2 DEF AheadAt, Done, FamilyOf
<1>4. ASSUME LookupKey(c) PROVE AheadAt(c)'
  <2> DEFINE hit == Trie(c) \cap ({job[c].cursor} \cup Covers[job[c].cursor]) # {}
  <2>1. /\ pc[c] = "look" /\ pc'[c] = "next" /\ Left(c)' = Left(c)
        /\ job'[c].found = IF hit THEN Append(job[c].found, job[c].cursor) ELSE job[c].found
        /\ job'[c].cursor = job[c].cursor /\ job'[c].family = job[c].family
    BY <1>0, <1>4 DEF LookupKey, Left, Set
  <2>2. Range(job'[c].found) = IF hit THEN Range(job[c].found) \cup {job[c].cursor} ELSE Range(job[c].found)
    <3>1. job[c].cursor \in Keys
      BY <1>0, <2>1 DEF Typed
    <3>2. Range(Append(job[c].found, job[c].cursor)) = Range(job[c].found) \cup {job[c].cursor}
      BY <1>0, <3>1, RangeProperties
    <3> HIDE DEF hit
    <3> QED
      BY <2>1, <3>2
  <2>3. ASSUME job[c].cursor \in Left(c) PROVE hit
    BY <2>1, <2>3 DEF StageAt, Left, Trie, FamilyOf
  <2> HIDE DEF hit
  <2> QED
    BY <1>0, <2>1, <2>2, <2>3 DEF AheadAt, Done, FamilyOf
<1>5. ASSUME AbortIteration(c) PROVE AheadAt(c)'
  BY <1>0, <1>5 DEF AbortIteration, Answer, AheadAt, Done
<1>6. ASSUME BeginDelete(c) PROVE AheadAt(c)'
  <2>1. /\ pc[c] = "next" /\ pc'[c] = "delete" /\ Left(c)' = Left(c) /\ AtEnd(c)
        /\ job'[c].todo = job[c].found /\ job'[c].family = job[c].family
    BY <1>0, <1>6 DEF BeginDelete, Left, Set
  <2>2. ASSUME NEW k \in Left(c) \cap FamilyOf(c) PROVE k \in Range(job[c].found)
    <3>1. k \in Trie(c)
      BY DEF Left, Trie, FamilyOf
    <3> QED
      BY <1>0, <2>1, <3>1, Passed DEF AheadAt
  <2> QED
    BY <1>0, <2>1, <2>2 DEF AheadAt, Done, FamilyOf
<1>7. ASSUME DeleteEntry(c) PROVE AheadAt(c)'
  <2>1. /\ pc[c] = "delete" /\ pc'[c] = "delete" /\ job[c].todo # <<>>
        /\ job'[c].todo = Tail(job[c].todo) /\ job'[c].family = job[c].family
        /\ Set(c)' = Set(c) \ {Entry(c)}
    BY <1>0, <1>7 DEF DeleteEntry, Take, Set
  <2>2. Range(job[c].todo) = {Entry(c)} \cup Range(job'[c].todo)
    BY <2>1, TailAmong
  <2> QED
    BY <1>0, <2>1, <2>2 DEF AheadAt, Done, FamilyOf, Left
<1>8. ASSUME FlushIPv6(c) PROVE AheadAt(c)'
  <2>1. /\ pc[c] = "delete" /\ pc'[c] = "next" /\ Left(c)' = Left(c)
        /\ job[c].family = "v4" /\ job[c].todo = <<>> /\ job'[c].family = "v6" /\ job'[c].cursor = 0
    BY <1>0, <1>8 DEF FlushIPv6, Left, Set
  <2>2. Left(c) \cap Keys4 = {}
    BY <2>1 DEF AheadAt, Range, FamilyOf, FamilyKeys
  <2>3. \A k \in FamilyOf(c)' : ~(k < 0) /\ k # 0
    BY <2>1, KeysAssumption DEF FamilyOf, FamilyKeys, Keys
  <2> QED
    BY <2>1, <2>2, <2>3 DEF AheadAt, Done
<1>9. ASSUME AnswerFlush(c) PROVE AheadAt(c)'
  <2>1. /\ pc[c] = "delete" /\ pc'[c] = "close" /\ Left(c)' = Left(c)
        /\ job[c].family = "v6" /\ job[c].todo = <<>>
    BY <1>0, <1>9 DEF AnswerFlush, Answer, Left, Set
  <2>2. Left(c) \cap Keys6 = {}
    BY <2>1 DEF AheadAt, Range, FamilyOf, FamilyKeys
  <2>3. Left(c) \cap Keys4 = {} /\ Left(c) \subseteq Keys4 \cup Keys6
    BY <1>0, <2>1 DEF AheadAt, Left, Keys
  <2>4. Left(c) = {}
    BY <2>2, <2>3
  <2> QED
    BY <2>1, <2>4 DEF AheadAt, Done
<1>11. ASSUME DeleteFails(c) PROVE AheadAt(c)'
  BY <1>0, <1>11 DEF DeleteFails, Answer, AheadAt, Done
<1>10. ~Mutate(c) /\ ~List(c) /\ ~Respond(c)
  BY DEF StageAt, Mutate, RejectRequest, AnswerDryrun, AcceptRequest, AddEntry, AddFails, DelEntry, DelFails,
     AnswerMutation, Take, Mutates, List, ListIPv6, AnswerList, Respond, Done
<1> QED
  BY <1>1, <1>2, <1>3, <1>4, <1>5, <1>6, <1>7, <1>8, <1>9, <1>10, <1>11 DEF Handle, Open, Iterate, Flush

-----------------------------------------------------------------------------
(* What a step leaves alone *)

(* The types of FirewallApi, when its history is not kept. *)
LEMMA TypedHandling ==
  ASSUME Typed, NEW c \in Clients, StepTyped(c), UNCHANGED hist
  PROVE  Typed'
<1>1. \A d \in Clients : /\ JobOK(job'[d])
                         /\ pc'[d] # "idle" => Request(d)' \in Requests
                         /\ pc'[d] = "look" => job'[d].cursor \in Keys
  BY DEF Typed, StepTyped, Request
<1>2. TypeOK'
  BY <1>1 DEF Typed, TypeOK, StepTyped, JobOK
<1> QED
  BY <1>1, <1>2 DEF Typed, StepTyped

(* The steps of others leave what a request may claim true, if they neither    *)
(* add nor remove a prefix against it.                                       *)
LEMMA TruthKept ==
  ASSUME NEW e \in Clients, StageAt(e), TruthAt(e), pc'[e] = pc[e], job'[e] = job[e],
         fresh'[e] \subseteq fresh[e],
         pc[e] # "idle" => \A k \in fresh'[e] :
           /\ k \in Set(e) \ Set(e)' => Request(e).op # "add"
           /\ k \in Set(e)' \ Set(e) => Request(e).op \notin {"del", "flush"}
  PROVE  StageAt(e)' /\ TruthAt(e)'
<1>1. StageAt(e)'
  BY DEF StageAt, Mutates, Walks, Request, Done, FamilyOf
<1>2. AppliedAt(e)'
  BY DEF TruthAt, AppliedAt, Left, Request
<1>3. pc[e] # "idle" /\ Request(e).op = "flush" => Left(e)' \subseteq Left(e)
  BY DEF Left, Request
<1>4. AheadAt(e)'
  BY <1>3 DEF TruthAt, AheadAt, Request, Done, FamilyOf
<1> QED
  BY <1>1, <1>2, <1>4 DEF TruthAt

(* A step of nobody in particular. *)
LEMMA Still ==
  ASSUME CInv, Typed', UNCHANGED <<store, pc, job, client, ghost>>
  PROVE  CInv'
<1>1. UNCHANGED <<store, pc, job, cli, wire, sent, claim, fresh>>
  BY DEF client, ghost
<1>2. \A e \in Clients : StageAt(e)' /\ TruthAt(e)'
  BY <1>1, TruthKept DEF CInv, Set, Request
<1>3. ClientTypeOK'
  BY <1>1 DEF CInv, ClientTypeOK, Request
<1>4. SlotInv' /\ FreshInv' /\ ClaimInv'
  BY <1>1 DEF CInv, SlotInv, FreshInv, ClaimInv, Pending, Against
<1> QED
  BY <1>2, <1>3, <1>4 DEF CInv

(* The request of a command is one of Requests. *)
LEMMA CommandRequest ==
  ASSUME NEW cmd \in Commands
  PROVE  /\ RequestOf(cmd) \in Requests /\ RequestOf(cmd).kind \in Kinds
         /\ RequestOf(cmd).op = "flush" => ~RequestOf(cmd).dryrun
<1>1. RequestOf(cmd) \in Requests /\ RequestOf(cmd).kind \in Kinds
  BY CommandsAssumption, RequestsAssumption
<1>2. RequestOf(cmd).op = "flush" => ~RequestOf(cmd).dryrun
  BY DEF RequestOf
<1> QED
  BY <1>1, <1>2

-----------------------------------------------------------------------------
(* A command sends its request: claims that it opposes are dropped, and it     *)
(* may itself claim only what no pending request opposes.                    *)
LEMMA SendKeeps ==
  ASSUME CInv, NEW c \in Clients, NEW cmd \in Commands,
         Send(c, cmd), SendClaims(c, RequestOf(cmd))
  PROVE  CInv'
<1> DEFINE r == RequestOf(cmd)
<1>1. r \in Requests /\ r.kind \in Kinds /\ (r.op = "flush" => ~r.dryrun)
  BY CommandRequest
<1>2. /\ UNCHANGED <<pinned, store, pc, job, fds, hist>>
      /\ cli[c] = "none" /\ ~wire[c] /\ pc[c] = "idle"
      /\ cli' = [cli EXCEPT ![c] = "waiting"] /\ wire' = [wire EXCEPT ![c] = TRUE]
      /\ sent' = [sent EXCEPT ![c] = r]
  BY DEF Send, vars
<1>3. /\ \A kind \in Kinds, k \in Watched :
           claim'[kind][k] = IF kind = r.kind /\ Contradicted(claim[kind][k], r, k) THEN "free"
                             ELSE claim[kind][k]
      /\ claim' \in [Kinds -> [Watched -> {"free", "in", "out"}]]
  BY <1>1 DEF SendClaims, CInv, ClientTypeOK
<1>4. /\ fresh'[c] = Unopposed(c, r)
      /\ \A e \in Clients \ {c} :
           fresh'[e] = IF sent[e].kind # r.kind THEN fresh[e]
                       ELSE {k \in fresh[e] : ~Opposes(r, sent[e].op, k)}
      /\ fresh' \in [Clients -> SUBSET Watched]
  BY DEF SendClaims, CInv, ClientTypeOK, Unopposed
<1> HIDE DEF r
<1>5. /\ sent'[c] = r /\ wire'[c] /\ cli'[c] = "waiting"
      /\ \A e \in Clients \ {c} : sent'[e] = sent[e] /\ wire'[e] = wire[e] /\ cli'[e] = cli[e]
      /\ DOMAIN sent' = Clients
  BY <1>2 DEF CInv, ClientTypeOK, SlotInv
<1>6. \A e \in Clients \ {c} : Pending(e)' = Pending(e)
  BY <1>2, <1>5 DEF Pending
<1>7. Typed'
  BY <1>2 DEF CInv, Typed, TypeOK, Request
<1>8. ClientTypeOK'
  BY <1>1, <1>2, <1>3, <1>4, <1>5 DEF CInv, ClientTypeOK, Request
<1>9. SlotInv'
  BY <1>1, <1>4, <1>5, <1>6 DEF CInv, SlotInv
<1>10. ASSUME NEW e \in Clients PROVE StageAt(e)' /\ TruthAt(e)'
  <2>1. CASE e = c
    <3>1. pc'[c] = "idle"
      BY <1>2
    <3> QED
      BY <2>1, <3>1 DEF StageAt, TruthAt, AppliedAt, AheadAt, Done
  <2>2. CASE e # c
    <3>1. fresh'[e] \subseteq fresh[e]
      BY <1>4, <2>2
    <3> QED
      BY <1>2, <3>1, TruthKept DEF CInv, Set, Request
  <2> QED
    BY <2>1, <2>2
<1>11. FreshInv'
  <2> SUFFICES ASSUME NEW e \in Clients, NEW k \in fresh'[e], NEW d \in Clients,
                      sent'[d].kind = sent'[e].kind, d # e, Pending(d)'
               PROVE  ~Opposes(sent'[d], sent'[e].op, k)
    BY DEF FreshInv, Against
  <2>1. CASE e = c
    BY <1>4, <1>5, <1>6, <2>1 DEF Unopposed, Against
  <2>2. CASE d = c
    BY <1>4, <1>5, <2>2
  <2>3. CASE e # c /\ d # c
    BY <1>4, <1>5, <1>6, <2>3 DEF CInv, FreshInv, Against
  <2> QED
    BY <2>1, <2>2, <2>3
<1>12. ClaimInv'
  <2> SUFFICES ASSUME NEW kind \in Kinds, NEW k \in Watched
               PROVE  /\ claim'[kind][k] = "in" =>
                           /\ k \in store[kind]
                           /\ \A d \in Clients : Pending(d)' /\ sent'[d].kind = kind => ~Opposes(sent'[d], "add", k)
                      /\ claim'[kind][k] = "out" =>
                           /\ k \notin store[kind]
                           /\ \A d \in Clients : Pending(d)' /\ sent'[d].kind = kind => ~Opposes(sent'[d], "del", k)
    BY <1>2 DEF ClaimInv
  <2>1. claim'[kind][k] # "free" =>
          /\ claim'[kind][k] = claim[kind][k]
          /\ kind = r.kind => ~Contradicted(claim[kind][k], r, k)
    BY <1>3
  <2>2. \A d \in Clients \ {c} : Pending(d)' /\ sent'[d].kind = kind => Pending(d) /\ sent[d].kind = kind /\ sent'[d] = sent[d]
    BY <1>5, <1>6
  <2> QED
    BY <1>5, <2>1, <2>2 DEF CInv, ClaimInv, Contradicted
<1> QED
  BY <1>7, <1>8, <1>9, <1>10, <1>11, <1>12 DEF CInv

(* The server receives a request that is pending already. *)
LEMMA AcceptKeeps ==
  ASSUME CInv, NEW c \in Clients, Accept(c), UNCHANGED <<hist, claim, fresh>>
  PROVE  CInv'
<1>1. /\ wire[c] /\ Receive(c, sent[c]) /\ wire' = [wire EXCEPT ![c] = FALSE]
      /\ UNCHANGED <<cli, sent, store>> /\ sent[c] \in Requests
  BY DEF Accept, Receive, CInv, SlotInv
<1>2. StepTyped(c)
  BY <1>1, TypedSteps DEF CInv
<1>3. Typed'
  BY <1>2, TypedHandling DEF CInv
<1>4. /\ pc[c] = "idle" /\ pc'[c] = IF sent[c].op \in {"add", "del"} THEN "check" ELSE "open_v4"
      /\ job'[c] = Job(sent[c]) /\ Request(c)' = sent[c]
      /\ \A e \in Clients \ {c} : job'[e] = job[e] /\ pc'[e] = pc[e]
  BY <1>1, <1>2, Shapes DEF CInv, Receive, Goto, StepTyped, Request, Job
<1>5. ~wire'[c] /\ \A e \in Clients \ {c} : wire'[e] = wire[e]
  BY <1>1 DEF CInv, ClientTypeOK
<1>6. \A e \in Clients : Pending(e)' = Pending(e)
  BY <1>1, <1>4, <1>5 DEF Pending
<1>7. ClientTypeOK'
  BY <1>1, <1>4, <1>5 DEF CInv, ClientTypeOK, Request
<1>8. SlotInv' /\ FreshInv' /\ ClaimInv'
  BY <1>1, <1>5, <1>6 DEF CInv, SlotInv, FreshInv, ClaimInv, Against
<1>9. ASSUME NEW e \in Clients PROVE StageAt(e)' /\ TruthAt(e)'
  <2>1. CASE e = c
    <3>1. job'[c].family = "v4" /\ job'[c].cursor = 0 /\ job'[c].applied = {} /\ job'[c].todo = <<>>
      BY <1>4 DEF Job
    <3>2. Range(<<>>) \subseteq Range(sent[c].entries)
      BY DEF Range
    <3>3. StageAt(c)'
      BY <1>4, <3>1, <3>2 DEF StageAt, Mutates, Walks, Done
    <3>4. TruthAt(c)'
      BY <1>4, <3>1 DEF TruthAt, AppliedAt, AheadAt, Done
    <3> QED
      BY <2>1, <3>3, <3>4
  <2>2. CASE e # c
    BY <1>1, <1>4, <2>2, TruthKept DEF CInv, Set, Request
  <2> QED
    BY <2>1, <2>2
<1> QED
  BY <1>3, <1>7, <1>8, <1>9 DEF CInv

(* A request is lost, and claims nothing. *)
LEMMA LoseKeeps ==
  ASSUME CInv, NEW c \in Clients, Lose(c), fresh' = [fresh EXCEPT ![c] = {}], UNCHANGED claim
  PROVE  CInv'
<1>1. /\ wire[c] /\ wire' = [wire EXCEPT ![c] = FALSE] /\ cli' = [cli EXCEPT ![c] = "none"]
      /\ sent' = [sent EXCEPT ![c] = NoRequest]
      /\ UNCHANGED <<pinned, store, pc, job, fds, hist>> /\ pc[c] = "idle"
  BY DEF Lose, Vacate, vars, CInv, ClientTypeOK
<1>2. /\ ~wire'[c] /\ cli'[c] = "none" /\ sent'[c] = NoRequest /\ fresh'[c] = {}
      /\ \A e \in Clients \ {c} : /\ sent'[e] = sent[e] /\ wire'[e] = wire[e] /\ cli'[e] = cli[e]
                                  /\ fresh'[e] = fresh[e]
      /\ DOMAIN sent' = Clients
  BY <1>1 DEF CInv, ClientTypeOK, SlotInv
<1>3. ~Pending(c)' /\ \A e \in Clients \ {c} : Pending(e)' = Pending(e)
  BY <1>1, <1>2 DEF Pending
<1>4. Typed'
  BY <1>1 DEF CInv, Typed, TypeOK, Request
<1>5. ClientTypeOK'
  BY <1>1, <1>2 DEF CInv, ClientTypeOK, Request
<1>6. NoRequest.op = "list"
  BY DEF NoRequest
<1>7. SlotInv'
  BY <1>2, <1>3, <1>6 DEF CInv, SlotInv
<1>8. FreshInv'
  BY <1>2, <1>3 DEF CInv, FreshInv, Against
<1>9. ClaimInv'
  BY <1>1, <1>2, <1>3 DEF CInv, ClaimInv
<1>10. \A e \in Clients : fresh'[e] \subseteq fresh[e]
  BY <1>2
<1>11. ASSUME NEW e \in Clients PROVE StageAt(e)' /\ TruthAt(e)'
  BY <1>1, <1>10, TruthKept DEF CInv, Set, Request
<1> QED
  BY <1>4, <1>5, <1>7, <1>8, <1>9, <1>11 DEF CInv

(* A command gives up: its request stays pending. *)
LEMMA GiveUpKeeps ==
  ASSUME CInv, NEW c \in Clients, GiveUp(c), UNCHANGED ghost
  PROVE  CInv'
<1>1. /\ cli[c] = "waiting" /\ cli' = [cli EXCEPT ![c] = "gone"]
      /\ UNCHANGED <<pinned, store, pc, job, fds, hist, wire, sent, claim, fresh>>
  BY DEF GiveUp, vars, ghost
<1>2. cli'[c] = "gone" /\ \A e \in Clients \ {c} : cli'[e] = cli[e]
  BY <1>1 DEF CInv, ClientTypeOK
<1>3. Typed' /\ ClientTypeOK'
  BY <1>1, <1>2 DEF CInv, Typed, TypeOK, ClientTypeOK, Request
<1>4. \A e \in Clients : Pending(e)' = Pending(e)
  BY <1>1 DEF Pending
<1>5. SlotInv' /\ FreshInv' /\ ClaimInv'
  BY <1>1, <1>2, <1>4 DEF CInv, SlotInv, FreshInv, ClaimInv, Against
<1>6. ASSUME NEW e \in Clients PROVE StageAt(e)' /\ TruthAt(e)'
  BY <1>1, TruthKept DEF CInv, Set, Request
<1> QED
  BY <1>3, <1>5, <1>6 DEF CInv

(* A handler's step: it touches no claim, made or possible, of another. *)
LEMMA HandlingKeeps ==
  ASSUME CInv, NEW c \in Clients, Handling(c), UNCHANGED hist
  PROVE  CInv'
<1>1. Handle(c) /\ ~Done(c) /\ UNCHANGED <<cli, wire, sent, claim, fresh>>
  BY DEF Handling, Done, client, ghost
<1>2. StepTyped(c)
  BY <1>1, TypedSteps DEF CInv
<1>3. Typed'
  BY <1>2, TypedHandling DEF CInv
<1>4. /\ StageAt(c)' /\ Request(c)' = Request(c) /\ pc[c] # "idle" /\ pc'[c] # "idle"
      /\ Request(c) = sent[c] /\ Request(c).kind \in Kinds
      /\ \A e \in Clients \ {c} : job'[e] = job[e] /\ pc'[e] = pc[e]
  BY <1>1, <1>2, StageSteps, Shapes DEF CInv, ClientTypeOK, StepTyped
<1>5. /\ \A kind \in Kinds : kind # Request(c).kind => store'[kind] = store[kind]
      /\ \A k \in Set(c)' \ Set(c) : Opposes(sent[c], "del", k)
      /\ \A k \in Set(c) \ Set(c)' : Opposes(sent[c], "add", k)
  BY <1>1, <1>4, Effects DEF CInv, SlotInv
<1>6. \A e \in Clients : Pending(e)' = Pending(e) /\ Pending(c)
  BY <1>1, <1>4 DEF Pending
<1>7. ClientTypeOK'
  BY <1>1, <1>4 DEF CInv, ClientTypeOK, Request
<1>8. SlotInv' /\ FreshInv'
  BY <1>1, <1>6 DEF CInv, SlotInv, FreshInv, Against
<1>9. ClaimInv'
  <2> SUFFICES ASSUME NEW kind \in Kinds, NEW k \in Watched
               PROVE  /\ claim[kind][k] = "in" /\ k \in store[kind] => k \in store'[kind]
                      /\ claim[kind][k] = "out" /\ k \notin store[kind] => k \notin store'[kind]
    BY <1>1, <1>6 DEF CInv, ClaimInv
  <2>1. CASE kind = Request(c).kind
    BY <1>4, <1>5, <1>6, <2>1 DEF CInv, ClaimInv, Set
  <2>2. CASE kind # Request(c).kind
    BY <1>5, <2>2
  <2> QED
    BY <2>1, <2>2
<1>10. ASSUME NEW e \in Clients PROVE StageAt(e)' /\ TruthAt(e)'
  <2>1. CASE e = c
    <3>1. fresh[c] \subseteq Keys
      BY WatchedAssumption DEF CInv, ClientTypeOK
    <3>2. AppliedAt(c)' /\ AheadAt(c)'
      BY <1>1, <3>1, AppliedSteps, AheadSteps DEF CInv, TruthAt
    <3> QED
      BY <1>4, <2>1, <3>2 DEF TruthAt
  <2>2. CASE e # c
    <3>1. ASSUME pc[e] # "idle", NEW k \in fresh[e]
          PROVE  /\ k \in Set(e) \ Set(e)' => Request(e).op # "add"
                 /\ k \in Set(e)' \ Set(e) => Request(e).op \notin {"del", "flush"}
      <4>1. Request(e) = sent[e] /\ Request(e)' = Request(e) /\ Request(e).kind \in Kinds
        BY <1>4, <2>2, <3>1, Shapes DEF CInv, ClientTypeOK, Request
      <4>2. CASE Request(e).kind = Request(c).kind
        <5>1. ~Opposes(sent[c], sent[e].op, k)
          BY <1>4, <1>6, <2>2, <4>1, <4>2 DEF CInv, FreshInv, Against
        <5>2. Set(e) = Set(c) /\ Set(e)' = Set(c)'
          BY <1>4, <4>1, <4>2 DEF Set
        <5> QED
          BY <1>5, <4>1, <5>1, <5>2 DEF Opposes
      <4>3. CASE Request(e).kind # Request(c).kind
        BY <1>5, <4>1, <4>3 DEF Set
      <4> QED
        BY <4>2, <4>3
    <3> QED
      BY <1>1, <1>4, <2>2, <3>1, TruthKept DEF CInv
  <2> QED
    BY <2>1, <2>2
<1> QED
  BY <1>3, <1>7, <1>8, <1>9, <1>10 DEF CInv

(* A command exits: if it was answered with success, what it says is true,    *)
(* and nobody who is pending opposes it.                                     *)
LEMMA ExitKeeps ==
  ASSUME CInv, NEW c \in Clients, Exit(c), ExitClaims(c), UNCHANGED hist
  PROVE  CInv'
<1>1. /\ Done(c) /\ Respond(c) /\ UNCHANGED <<store, wire>>
      /\ cli' = [cli EXCEPT ![c] = "none"] /\ sent' = [sent EXCEPT ![c] = NoRequest]
      /\ fresh' = [fresh EXCEPT ![c] = {}]
  BY DEF Exit, Respond, Vacate, ExitClaims, Done
<1>2. StepTyped(c)
  BY <1>1, TypedSteps DEF CInv, Handle
<1>3. Typed'
  BY <1>2, TypedHandling DEF CInv
<1>4. /\ pc[c] # "idle" /\ pc'[c] = "idle" /\ ~wire[c]
      /\ Request(c) = sent[c] /\ Request(c).kind \in Kinds
      /\ \A e \in Clients \ {c} : job'[e] = job[e] /\ pc'[e] = pc[e]
  BY <1>1, <1>2, Shapes DEF CInv, ClientTypeOK, StepTyped, Respond, Done
<1>5. /\ cli'[c] = "none" /\ sent'[c] = NoRequest /\ fresh'[c] = {}
      /\ \A e \in Clients \ {c} : sent'[e] = sent[e] /\ cli'[e] = cli[e] /\ fresh'[e] = fresh[e]
      /\ DOMAIN sent' = Clients
  BY <1>1 DEF CInv, ClientTypeOK, SlotInv
<1>6. ~Pending(c)' /\ \A e \in Clients \ {c} : Pending(e)' = Pending(e)
  BY <1>1, <1>4 DEF Pending
<1>7. NoRequest.op = "list"
  BY DEF NoRequest
<1>8. SlotInv'
  BY <1>1, <1>4, <1>5, <1>6, <1>7 DEF CInv, SlotInv
<1>9. FreshInv'
  BY <1>5, <1>6 DEF CInv, FreshInv, Against
<1>10. ASSUME NEW e \in Clients PROVE StageAt(e)' /\ TruthAt(e)'
  <2>1. CASE e = c
    BY <1>4, <2>1 DEF StageAt, TruthAt, AppliedAt, AheadAt, Done
  <2>2. CASE e # c
    BY <1>1, <1>4, <1>5, <2>2, TruthKept DEF CInv, Set, Request
  <2> QED
    BY <2>1, <2>2
<1>11. /\ \A kind \in Kinds, k \in Watched :
            claim'[kind][k] =
              IF Succeeds(c) /\ Request(c).op # "list" /\ kind = Request(c).kind /\ k \in Said(c)
              THEN Word(Request(c).op) ELSE claim[kind][k]
       /\ claim' \in [Kinds -> [Watched -> {"free", "in", "out"}]]
  BY <1>4 DEF ExitClaims, CInv, ClientTypeOK, Word
<1>12. ClientTypeOK'
  BY <1>1, <1>4, <1>5, <1>11 DEF CInv, ClientTypeOK, Request
<1>13. ASSUME Succeeds(c), Request(c).op # "list", NEW k \in Said(c)
       PROVE  /\ Request(c).op = "add" => k \in Set(c)
              /\ Request(c).op # "add" => k \notin Set(c)
              /\ k \in fresh[c] /\ ~Request(c).dryrun
              /\ Request(c).op \in {"add", "del", "flush"}
  <2>1. ~Request(c).dryrun /\ k \in fresh[c] /\ (Request(c).op # "flush" => k \in job[c].applied)
    <3>1. CASE Request(c).dryrun
      BY <1>4, <1>13, <3>1 DEF Said, CInv, SlotInv
    <3>2. CASE ~Request(c).dryrun /\ Request(c).op = "flush"
      BY <1>13, <3>2 DEF Said
    <3>3. CASE ~Request(c).dryrun /\ Request(c).op # "flush"
      BY <1>13, <3>3 DEF Said
    <3> QED
      BY <3>1, <3>2, <3>3
  <2>2. Request(c).op \in {"add", "del", "flush"}
    BY <1>4, <1>13, RequestsAssumption DEF CInv, Typed, Operations
  <2>3. CASE Request(c).op = "flush"
    <3>1. job[c].code = 200
      BY <1>1, <1>13, <2>3 DEF CInv, StageAt, Done, Succeeds, Mutates
    <3> QED
      BY <1>1, <2>1, <2>3, <3>1 DEF CInv, TruthAt, AheadAt, Left
  <2>4. CASE Request(c).op # "flush"
    BY <1>4, <2>1, <2>2, <2>4 DEF CInv, TruthAt, AppliedAt, Left
  <2> QED
    BY <2>1, <2>2, <2>3, <2>4
<1>14. ClaimInv'
  <2> SUFFICES ASSUME NEW kind \in Kinds, NEW k \in Watched
               PROVE  /\ claim'[kind][k] = "in" =>
                           /\ k \in store[kind]
                           /\ \A d \in Clients : Pending(d)' /\ sent'[d].kind = kind => ~Opposes(sent'[d], "add", k)
                      /\ claim'[kind][k] = "out" =>
                           /\ k \notin store[kind]
                           /\ \A d \in Clients : Pending(d)' /\ sent'[d].kind = kind => ~Opposes(sent'[d], "del", k)
    BY <1>1 DEF ClaimInv
  <2>1. \A d \in Clients : Pending(d)' => d # c /\ Pending(d) /\ sent'[d] = sent[d]
    BY <1>5, <1>6
  <2>2. CASE Succeeds(c) /\ Request(c).op # "list" /\ kind = Request(c).kind /\ k \in Said(c)
    <3>1. claim'[kind][k] = Word(Request(c).op)
      BY <1>11, <2>2
    <3>2. /\ Request(c).op = "add" => k \in Set(c)
          /\ Request(c).op # "add" => k \notin Set(c)
          /\ k \in fresh[c] /\ Request(c).op \in {"add", "del", "flush"}
      BY <1>13, <2>2
    <3>3. \A d \in Clients : Pending(d)' /\ sent'[d].kind = kind => ~Opposes(sent'[d], Request(c).op, k)
      BY <1>4, <2>1, <2>2, <3>2 DEF CInv, FreshInv, Against
    <3> QED
      BY <2>2, <3>1, <3>2, <3>3 DEF Word, Opposes, Set
  <2>3. CASE ~(Succeeds(c) /\ Request(c).op # "list" /\ kind = Request(c).kind /\ k \in Said(c))
    <3>1. claim'[kind][k] = claim[kind][k]
      BY <1>11, <2>3
    <3> QED
      BY <2>1, <3>1 DEF CInv, ClaimInv
  <2> QED
    BY <2>2, <2>3
<1> QED
  BY <1>3, <1>8, <1>9, <1>10, <1>12, <1>14 DEF CInv

-----------------------------------------------------------------------------
(* Theorems *)

LEMMA ClientInvariance == ClientSpec => []CInv
<1>1. ClientInit => CInv
  <2> SUFFICES ASSUME ClientInit PROVE CInv
    OBVIOUS
  <2>1. Typed /\ pc = [c \in Clients |-> "idle"]
    BY TypedInit DEF ClientInit, Init
  <2>2. \A c \in Clients : pc[c] = "idle" /\ ~Pending(c) /\ fresh[c] = {} /\ sent[c] = NoRequest /\ NoRequest.op = "list"
    BY <2>1 DEF ClientInit, Pending, NoRequest
  <2>3. ClientTypeOK
    BY <2>1 DEF ClientInit, ClientTypeOK
  <2>4. SlotInv /\ FreshInv
    BY <2>2 DEF ClientInit, SlotInv, FreshInv
  <2>5. ClaimInv
    BY DEF ClientInit, ClaimInv
  <2>6. \A c \in Clients : StageAt(c) /\ TruthAt(c)
    BY <2>2 DEF StageAt, TruthAt, AppliedAt, AheadAt, Done
  <2> QED
    BY <2>1, <2>3, <2>4, <2>5, <2>6 DEF CInv
<1>2. CInv /\ [ClientNext]_clientVars => CInv'
  <2> SUFFICES ASSUME CInv, [ClientNext]_clientVars PROVE CInv'
    OBVIOUS
  <2>1. ASSUME NEW kind \in Kinds, NEW f \in Families, PinMap(kind, f), UNCHANGED <<hist, client, ghost>>
        PROVE  CInv'
    <3>1. UNCHANGED <<store, pc, job, fds, hist>> /\ pinned' \subseteq Kinds \X Families
      BY <2>1 DEF PinMap, CInv, Typed, TypeOK
    <3>2. Typed'
      BY <3>1 DEF CInv, Typed, TypeOK, Request
    <3> QED
      BY <2>1, <3>1, <3>2, Still
  <2>2. ASSUME NEW c \in Clients, NEW cmd \in Commands, Send(c, cmd), SendClaims(c, RequestOf(cmd)) PROVE CInv'
    BY <2>2, SendKeeps
  <2>3. ASSUME NEW c \in Clients, Accept(c), UNCHANGED <<hist, ghost>> PROVE CInv'
    BY <2>3, AcceptKeeps DEF ghost
  <2>4. ASSUME NEW c \in Clients, Lose(c), fresh' = [fresh EXCEPT ![c] = {}], UNCHANGED claim PROVE CInv'
    BY <2>4, LoseKeeps
  <2>5. ASSUME NEW c \in Clients, GiveUp(c), UNCHANGED ghost PROVE CInv'
    BY <2>5, GiveUpKeeps
  <2>6. ASSUME NEW c \in Clients, Serving(c) PROVE CInv'
    BY <2>6, HandlingKeeps, ExitKeeps DEF Serving
  <2>7. ASSUME UNCHANGED clientVars PROVE CInv'
    <3>1. UNCHANGED vars /\ UNCHANGED <<client, ghost>>
      BY <2>7 DEF clientVars
    <3>2. Typed'
      BY <3>1, TypedNext DEF CInv
    <3> QED
      BY <3>1, <3>2, Still DEF vars
  <2> QED
    BY <2>1, <2>2, <2>3, <2>4, <2>5, <2>6, <2>7 DEF ClientNext
<1> QED
  BY <1>1, <1>2, PTL DEF ClientSpec

(* What a command said when it exited with success holds until somebody asks  *)
(* for the opposite, however many commands there are, whichever of them are   *)
(* given up or lost, and whatever the tries have room for.                   *)
THEOREM CommandsHold == ClientSpec => []CommandHolds
<1>1. CInv => CommandHolds
  BY DEF CInv, ClaimInv, CommandHolds
<1> QED
  BY <1>1, ClientInvariance, PTL
=============================================================================
