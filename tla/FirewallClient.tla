---------------------------- MODULE FirewallClient ----------------------------
(***************************************************************************)
(* The command line beside the API: `xdpfw firewall add|del|allow|unallow|   *)
(* list|flush` (pkg/plugins/firewall/cmd.go) sends one request to the daemon *)
(* (pkg/internal/api/client.go) and exits with what the answer says, or      *)
(* gives up after two seconds.  The handlers do not look at the context of   *)
(* a request: one that was given up is still received and applied, some      *)
(* time later, when nobody waits for it any more.                            *)
(*                                                                          *)
(* A slot of FirewallApi holds one command and its request.                  *)
(***************************************************************************)
EXTENDS FirewallApi

CONSTANTS
  Commands,  \* the command lines: [use, allow, args, dryrun]
  Watched    \* the prefixes whose claims are kept

ASSUME WatchedAssumption == Watched \subseteq Keys

VARIABLES
  cli,     \* cli[c]: "none", "waiting" for the answer, or "gone"
  wire,    \* wire[c]: the request is sent and not received yet
  sent,    \* sent[c]: the request of the command in slot c
  claim,   \* claim[kind][k]: what a successful command last said of a prefix
  fresh    \* fresh[c]: the prefixes no opposing request touched since c was sent

client == <<cli, wire, sent>>
ghost == <<claim, fresh>>
clientVars == <<vars, client, ghost>>

ClientInit ==
  /\ Init
  /\ cli = [c \in Clients |-> "none"]
  /\ wire = [c \in Clients |-> FALSE]
  /\ sent = [c \in Clients |-> NoRequest]
  /\ claim = [kind \in Kinds |-> [k \in Watched |-> "free"]]
  /\ fresh = [c \in Clients |-> {}]

-----------------------------------------------------------------------------
(* The request a command makes.  list and flush have no body: the --dry-run   *)
(* of the command line is not sent with them.                                *)
RequestOf(cmd) ==
  IF cmd.use \in {"add", "del", "allow", "unallow"}
  THEN [ op      |-> IF cmd.use \in {"add", "allow"} THEN "add" ELSE "del",
         kind    |-> IF cmd.use \in {"add", "del"} THEN "blocklist" ELSE "allowlist",
         entries |-> cmd.args, dryrun |-> cmd.dryrun ]
  ELSE [ op |-> cmd.use, kind |-> IF cmd.allow THEN "allowlist" ELSE "blocklist",
         entries |-> <<>>, dryrun |-> FALSE ]

(* A command wants at least one argument before it sends anything. *)
ASSUME CommandsAssumption ==
  \A cmd \in Commands :
    /\ cmd.use \in {"add", "del", "allow", "unallow"} => cmd.args # <<>>
    /\ RequestOf(cmd) \in Requests

(* Client.Request: http.Client.Do sends the request, and waits. *)
Send(c, cmd) ==
  /\ cli[c] = "none" /\ ~wire[c] /\ pc[c] = "idle"
  /\ cli' = [cli EXCEPT ![c] = "waiting"]
  /\ wire' = [wire EXCEPT ![c] = TRUE]
  /\ sent' = [sent EXCEPT ![c] = RequestOf(cmd)]
  /\ UNCHANGED vars

(* The server takes the request off its connection, late perhaps. *)
Accept(c) ==
  /\ wire[c]
  /\ Receive(c, sent[c])
  /\ wire' = [wire EXCEPT ![c] = FALSE]
  /\ UNCHANGED <<cli, sent>>

(* The slot is free again when neither side holds it. *)
Vacate(c) ==
  /\ cli' = [cli EXCEPT ![c] = "none"]
  /\ sent' = [sent EXCEPT ![c] = NoRequest]

(* The connection is refused, reset, or closed by a client that has given up, *)
(* before the request is read.                                               *)
Lose(c) ==
  /\ wire[c]
  /\ wire' = [wire EXCEPT ![c] = FALSE]
  /\ Vacate(c)
  /\ UNCHANGED vars

(* The two seconds are over: the command exits with an error. *)
GiveUp(c) ==
  /\ cli[c] = "waiting"
  /\ cli' = [cli EXCEPT ![c] = "gone"]
  /\ UNCHANGED <<vars, wire, sent>>

(* The handler's answer reaches the command, if it is still there. *)
Exit(c) ==
  /\ Respond(c)
  /\ Vacate(c)
  /\ UNCHANGED wire

(* The exit status of a command that was answered: 207 counts as success. *)
Succeeds(c) == cli[c] = "waiting" /\ (job[c].code < 300 \/ job[c].code = 207)

-----------------------------------------------------------------------------
(* What the commands claim.  A successful add or delete says that the entries *)
(* it reports as applied are in, or out; a successful flush that all are out. *)
(* The claim is good unless a request for the opposite was pending, wanted or *)
(* given up, while the command ran; it lasts until the next one is sent.      *)

Opposes(r, op, k) ==
  ~r.dryrun /\ ( \/ op = "add" /\ r.op = "flush"
                 \/ op = "add" /\ r.op = "del" /\ k \in Range(r.entries)
                 \/ op \in {"del", "flush"} /\ r.op = "add" /\ k \in Range(r.entries) )

Pending(d) == wire[d] \/ pc[d] # "idle"

Against(c, r, d) == sent[d].kind = r.kind /\ d # c /\ Pending(d)

(* The prefixes the request r of c can make a claim for when it is sent. *)
Unopposed(c, r) ==
  {k \in Watched : \A d \in Clients : Against(c, r, d) => ~Opposes(sent[d], r.op, k)}

Contradicted(said, r, k) ==
  \/ said = "in" /\ Opposes(r, "add", k)
  \/ said = "out" /\ Opposes(r, "del", k)

Said(c) ==
  LET r == Request(c)
  IN  CASE r.dryrun -> {}
        [] r.op = "flush" -> fresh[c]
        [] OTHER -> fresh[c] \cap job[c].applied

Word(op) == IF op = "add" THEN "in" ELSE "out"

SendClaims(c, r) ==
  /\ claim' = [claim EXCEPT ![r.kind] =
                 [k \in Watched |-> IF Contradicted(@[k], r, k) THEN "free" ELSE @[k]]]
  /\ fresh' = [d \in Clients |->
                 IF d = c THEN Unopposed(c, r)
                 ELSE IF sent[d].kind # r.kind THEN fresh[d]
                 ELSE {k \in fresh[d] : ~Opposes(r, sent[d].op, k)}]

ExitClaims(c) ==
  /\ claim' = IF Succeeds(c) /\ Request(c).op # "list"
              THEN [claim EXCEPT ![Request(c).kind] =
                      [k \in Watched |-> IF k \in Said(c) THEN Word(Request(c).op) ELSE @[k]]]
              ELSE claim
  /\ fresh' = [fresh EXCEPT ![c] = {}]

-----------------------------------------------------------------------------
Handling(c) == Handle(c) /\ pc[c] \notin {"reply", "close"} /\ UNCHANGED <<client, ghost>>

Serving(c) == (Handling(c) \/ (Exit(c) /\ ExitClaims(c))) /\ UNCHANGED hist

ClientNext ==
  \/ \E kind \in Kinds, f \in Families :
       PinMap(kind, f) /\ UNCHANGED <<hist, client, ghost>>
  \/ \E c \in Clients, cmd \in Commands : Send(c, cmd) /\ SendClaims(c, RequestOf(cmd))
  \/ \E c \in Clients :
       \/ Accept(c) /\ UNCHANGED <<hist, ghost>>
       \/ Lose(c) /\ fresh' = [fresh EXCEPT ![c] = {}] /\ UNCHANGED claim
       \/ GiveUp(c) /\ UNCHANGED ghost
       \/ Serving(c)

(* A handler that can move moves, also when nobody waits for its answer.      *)
(* Nothing makes the server take a request off its connection.               *)
ClientFairness == \A c \in Clients : WF_<<pc, job>>(Handle(c))

ClientSpec == ClientInit /\ [][ClientNext]_clientVars /\ ClientFairness

-----------------------------------------------------------------------------
(* What a command said when it exited with success holds until someone asks   *)
(* for the opposite, where a request that was given up counts as asked until  *)
(* it is lost or answered: an add that times out may undo a later delete, but *)
(* nothing else does (cmd.go:50-60, client.go:43-59, api.go:171-191).         *)
CommandHolds ==
  \A kind \in Kinds, k \in Watched :
    /\ claim[kind][k] = "in" => k \in store[kind]
    /\ claim[kind][k] = "out" => k \notin store[kind]

=============================================================================
