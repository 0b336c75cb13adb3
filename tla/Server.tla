-------------------------------- MODULE Server --------------------------------
(***************************************************************************)
(* The goroutines of the daemon: `xdpfw server start` runs the signal       *)
(* handler and the controller, the controller the API server and the        *)
(* plugins, and each of these its own workers, as a tree of errgroups.  A    *)
(* member that returns an error cancels the context of its group and of the  *)
(* groups below; a group returns when all of its members have.               *)
(*                                                                          *)
(* The daemon starts once Startup has made the plugins.  What the firewall   *)
(* plugin does to the interface is reduced to what keeps its program there;  *)
(* the module Loader has the detail.                                        *)
(***************************************************************************)
EXTENDS Startup

CONSTANT Requests  \* slots for concurrent API requests

Groups == {"server", "controller", "api"} \cup PluginNames

(* The goroutines started with the Go method of each errgroup.               *)
Members ==
  [server     |-> {"signal", "controller"},
   controller |-> {"api"} \cup plugins,
   api        |-> {"listen", "shutdown"},
   metrics    |-> {"worker"},
   firewall   |-> {"xdp", "tick"}]

(* Whose cancellation a group's context inherits, itself included.           *)
Lineage ==
  [server     |-> {"server"},
   controller |-> {"server", "controller"},
   api        |-> {"server", "controller", "api"},
   metrics    |-> {"server", "controller", "metrics"},
   firewall   |-> {"server", "controller", "firewall"}]

Goroutines ==
  {"signal", "controller", "api", "metrics", "firewall", "listen", "shutdown", "worker", "xdp", "tick"}

(* TFirewallPlugin.Run starts its workers when it has set things up. *)
Late == {"xdp", "tick"}

Begun == {"server"} \cup Members.server \cup Members.controller \cup Members.api
           \cup IF "metrics" \in plugins THEN Members.metrics ELSE {}

VARIABLES
  status,     \* status[m]: whether m runs, and what it returned
  notified,   \* signal.Notify has been called
  signalled,  \* a signal is in the channel
  listening,  \* the API's socket is open
  closed,     \* Shutdown of the HTTP server has begun
  conn,       \* conn[r]: the client is sending request r, or it is handled
  setup,      \* how far TFirewallPlugin.Run is
  xdp,        \* how far TXdpService.Run is
  attachment, \* what keeps this process's program attached: a pin and a descriptor
              \* of its link (primary), or an entry of the hook map (secondary)
  erred       \* history: what of the link it got an error for when it gave it up

api == <<listening, closed, conn>>
firewall == <<setup, xdp, attachment, erred>>
signals == <<notified, signalled>>
daemon == <<status, signals, api, firewall>>
vars == <<startup, daemon>>

Returned == {"nil", "error"}
Link == {"pin", "descriptor"}

TypeOK ==
  /\ StartupTypeOK
  /\ status \in [Goroutines \cup {"server"} -> {"new", "running", "killed"} \cup Returned]
  /\ status["server"] \notin {"new", "killed"} =>
       \A m \in Goroutines : status[m] = "new" <=>
         IF m \in Late THEN setup # "group" ELSE m \notin Begun
  /\ notified \in BOOLEAN /\ signalled \in BOOLEAN
  /\ listening \in BOOLEAN /\ closed \in BOOLEAN
  /\ conn \in [Requests -> {"none", "sending", "handling"}]
  /\ setup \in {"bpffs", "memlock", "service", "group"}
  /\ xdp \in {"attach", "wait", "stop", "failed"}
  /\ attachment \subseteq Link \cup {"hook"} /\ erred \subseteq Link

Init ==
  /\ StartupInit
  /\ status = [m \in Goroutines \cup {"server"} |-> "new"]
  /\ notified = FALSE /\ signalled = FALSE
  /\ listening = FALSE /\ closed = FALSE
  /\ conn = [r \in Requests |-> "none"]
  /\ setup = "bpffs" /\ xdp = "attach" /\ attachment = {} /\ erred = {}

-----------------------------------------------------------------------------
(* `server start`: the errgroups and their goroutines, but for those that the *)
(* firewall plugin starts when it has set things up.                         *)
Start ==
  /\ stage = "ready" /\ status["server"] = "new"
  /\ status' = [m \in DOMAIN status |-> IF m \in Begun THEN "running" ELSE "new"]
  /\ UNCHANGED <<signals, api, firewall>>

-----------------------------------------------------------------------------
(* errgroup *)

Cancelled(group) == \E g \in Lineage[group] : \E m \in Members[g] : status[m] = "error"

Returns(m, result) == status[m] = "running" /\ status' = [status EXCEPT ![m] = result]

(* w.Wait() of a group, by the goroutine that made it. *)
Wait(group) ==
  /\ group = "firewall" => setup = "group"
  /\ \A m \in Members[group] : status[m] \in Returned
  /\ Returns(group, IF \E m \in Members[group] : status[m] = "error" THEN "error" ELSE "nil")
  /\ UNCHANGED <<signals, api, firewall>>

-----------------------------------------------------------------------------
(* WaitInterrupted *)

Notify ==
  /\ status["signal"] = "running" /\ ~notified
  /\ notified' = TRUE
  /\ UNCHANGED <<status, signalled, api, firewall>>

Interrupted ==
  /\ notified /\ (signalled \/ Cancelled("server"))
  /\ Returns("signal", "error")
  /\ UNCHANGED <<signals, api, firewall>>

(* SIGINT or SIGTERM; once the channel is made it never ends the process. *)
Signal ==
  /\ status["server"] = "running" /\ notified
  /\ signalled' = TRUE
  /\ UNCHANGED <<status, notified, api, firewall>>

(* Before that it does, and the pinned link outlives the process. *)
SignalKills ==
  /\ stage # "failed" /\ status["server"] \in {"new", "running"} /\ ~notified
  /\ status' = [m \in DOMAIN status |-> "killed"]
  /\ listening' = FALSE /\ conn' = [r \in Requests |-> "none"]
  /\ attachment' = attachment \ {"descriptor"}
  /\ UNCHANGED <<signals, closed, setup, xdp, erred>>

-----------------------------------------------------------------------------
(* The API server *)

Listen ==
  /\ status["listen"] = "running" /\ ~listening
  /\ listening' = TRUE
  /\ UNCHANGED <<status, signals, closed, conn, firewall>>

ListenFails ==
  /\ ~listening
  /\ Returns("listen", "error")
  /\ UNCHANGED <<signals, api, firewall>>

(* Serve returns http.ErrServerClosed as soon as Shutdown has begun. *)
ServeReturns ==
  /\ listening /\ closed
  /\ listening' = FALSE
  /\ Returns("listen", "error")
  /\ UNCHANGED <<signals, closed, conn, firewall>>

(* Slip: the goroutine waits for the controller's context. *)
BeginShutdownLate ==
  /\ status["shutdown"] = "running" /\ ~closed
  /\ Cancelled("controller")
  /\ closed' = TRUE
  /\ UNCHANGED <<status, signals, listening, conn, firewall>>

BeginShutdown ==
  /\ status["shutdown"] = "running" /\ ~closed
  /\ Cancelled("api")
  /\ closed' = TRUE
  /\ UNCHANGED <<status, signals, listening, conn, firewall>>

(* Slip: Close instead of Shutdown. *)
CloseReturns ==
  /\ closed
  /\ Returns("shutdown", "nil")
  /\ UNCHANGED <<signals, api, firewall>>

(* Shutdown waits, without a limit, for the requests that have begun. *)
ShutdownReturns ==
  /\ closed
  /\ \A r \in Requests : conn[r] = "none"
  /\ Returns("shutdown", "nil")
  /\ UNCHANGED <<signals, api, firewall>>

Connect(r) ==
  /\ listening /\ ~closed
  /\ conn[r] = "none"
  /\ conn' = [conn EXCEPT ![r] = "sending"]
  /\ UNCHANGED <<status, signals, listening, closed, firewall>>

(* The rest of the request arrives, or the client gives up. *)
Receive(r) ==
  /\ conn[r] = "sending"
  /\ conn' \in {[conn EXCEPT ![r] = s] : s \in {"handling", "none"}}
  /\ UNCHANGED <<status, signals, listening, closed, firewall>>

Respond(r) ==
  /\ conn[r] = "handling"
  /\ conn' = [conn EXCEPT ![r] = "none"]
  /\ UNCHANGED <<status, signals, listening, closed, firewall>>

-----------------------------------------------------------------------------
(* The plugins *)

(* ProcessingMetrics and TickServer return their context's error. *)
Loop(m, group) ==
  /\ Cancelled(group)
  /\ Returns(m, "error")
  /\ UNCHANGED <<signals, api, firewall>>

SetupStep == [bpffs |-> "memlock", memlock |-> "service", service |-> "group"]

(* Slip: the tick is not started. *)
SetUpXdpOnly ==
  /\ status["firewall"] = "running" /\ setup # "group"
  /\ setup' = SetupStep[setup]
  /\ status' = [m \in DOMAIN status |->
                  IF setup' = "group" /\ m = "xdp" THEN "running" ELSE status[m]]
  /\ UNCHANGED <<signals, api, xdp, attachment, erred>>

(* MountBpffs, Setrlimit and NewXdpService, which look at no context, and     *)
(* then the two workers.                                                     *)
SetUp ==
  /\ status["firewall"] = "running" /\ setup # "group"
  /\ setup' = SetupStep[setup]
  /\ status' = [m \in DOMAIN status |->
                  IF setup' = "group" /\ m \in Late THEN "running" ELSE status[m]]
  /\ UNCHANGED <<signals, api, xdp, attachment, erred>>

SetUpFails ==
  /\ setup # "group"
  /\ Returns("firewall", "error")
  /\ UNCHANGED <<signals, api, firewall>>

(* A primary: the link is attached and pinned, or it is not attached, or its  *)
(* pin fails and it is closed again, which may fail too.                      *)
AttachLink ==
  \/ xdp' = "wait" /\ attachment' = Link /\ UNCHANGED erred
  \/ xdp' = "failed" /\ attachment' \in {{}, {"descriptor"}} /\ erred' = attachment'

(* A secondary: of the indexes configured, if any, all are registered, or     *)
(* those before one that fails.                                              *)
RegisterHook ==
  /\ xdp' \in {"wait", "failed"}
  /\ attachment' \in {{}, {"hook"}}
  /\ UNCHANGED erred

Attach ==
  /\ status["xdp"] = "running" /\ xdp = "attach"
  /\ AttachLink \/ RegisterHook
  /\ UNCHANGED <<status, signals, api, setup>>

(* The deferred l.Unpin and l.Close of a primary, whose errors are logged and *)
(* passed over.  Nothing takes a secondary out of the hook map.              *)
GiveUpLink ==
  \E failing \in SUBSET (attachment \cap Link) :
    attachment' = attachment \ (Link \ failing) /\ erred' = failing


Detach ==
  /\ status["xdp"] = "running" /\ xdp = "wait"
  /\ Cancelled("firewall")
  /\ xdp' = "stop" /\ GiveUpLink
  /\ UNCHANGED <<status, signals, api, setup>>

(* The deferred Stop of the service, and the return. *)
StopXdp ==
  /\ xdp \in {"stop", "failed"}
  /\ Returns("xdp", IF xdp = "stop" THEN "nil" ELSE "error")
  /\ UNCHANGED <<signals, api, firewall>>

Metrics == Loop("worker", "metrics") \/ Wait("metrics")

Firewall ==
  SetUp \/ SetUpFails \/ Attach \/ Detach \/ StopXdp \/ Loop("tick", "firewall")
    \/ Wait("firewall")

Api == Listen \/ ListenFails \/ ServeReturns \/ BeginShutdown \/ ShutdownReturns \/ Wait("api")

Daemon ==
  \/ Start \/ Notify \/ Interrupted \/ Signal \/ SignalKills
  \/ Api \/ Metrics \/ Firewall
  \/ Wait("controller") \/ Wait("server")
  \/ \E r \in Requests : Connect(r) \/ Receive(r) \/ Respond(r)

Next ==
  \/ status["server"] = "new" /\ StartupNext /\ UNCHANGED daemon
  \/ Daemon /\ UNCHANGED startup

(* The Go scheduler runs every goroutine that can move.  Nothing makes a      *)
(* client send a request, or finish sending it, nor anyone send a signal.     *)
Fairness ==
  /\ WF_daemon(Notify) /\ WF_daemon(Interrupted)
  /\ WF_daemon(Listen \/ ListenFails \/ ServeReturns)
  /\ WF_daemon(BeginShutdown \/ ShutdownReturns) /\ WF_daemon(Wait("api"))
  /\ \A r \in Requests : WF_daemon(Respond(r))
  /\ WF_daemon(Loop("worker", "metrics")) /\ WF_daemon(Wait("metrics"))
  /\ WF_daemon(SetUp \/ SetUpFails) /\ WF_daemon(Wait("firewall"))
  /\ WF_daemon(Attach \/ Detach \/ StopXdp) /\ WF_daemon(Loop("tick", "firewall"))
  /\ WF_daemon(Wait("controller")) /\ WF_daemon(Wait("server"))

Spec == Init /\ [][Next]_vars /\ Fairness

-----------------------------------------------------------------------------
(* Properties *)

Exited == status["server"] \in Returned
Killed == status["server"] = "killed"
Failed == \E m \in Goroutines : status[m] = "error"

(* The link of a primary has been given up: nothing of it is left but what    *)
(* l.Unpin or l.Close returned an error for.                                 *)
GivenUp == attachment \cap Link \subseteq erred

(* The process does not exit under the feet of its goroutines: when main      *)
(* returns the worker has given its link up, the socket is closed, every      *)
(* request that was begun is answered, and nothing runs (server.go:61-77,     *)
(* controller.go:170-204, run.go:48-69, server.go of the API:69-94).          *)
ExitIsClean ==
  Exited =>
    /\ GivenUp /\ ~listening
    /\ \A r \in Requests : conn[r] = "none"
    /\ \A m \in Goroutines : status[m] # "running"


(* The failure of any goroutine ends the daemon, provided that no client      *)
(* leaves a request half sent for ever.                                       *)
FailureExits ==
  (\A r \in Requests : []<>(conn[r] # "sending")) => (Failed ~> (Exited \/ Killed))

=============================================================================
