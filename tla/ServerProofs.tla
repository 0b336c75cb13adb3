---------------------------- MODULE ServerProofs ----------------------------
(***************************************************************************)
(* Theorems about Startup and Server: what a command has when it begins,     *)
(* whatever the configurations hold, and what is left when the daemon has    *)
(* returned, however many requests there are.                               *)
(***************************************************************************)
EXTENDS Server, TLAPS

-----------------------------------------------------------------------------
(* The inductive invariant of Startup *)

(* The plugins already made and those still to be visited are together what   *)
(* the configuration asks for.                                               *)
PluginsInv ==
  /\ stage = "logger" => plugins = {}
  /\ stage \in {"logger", "plugins"} => wanted = plugins \cup Asked(todo)
  /\ stage \in {"prerun", "ready"} => wanted = plugins
  /\ stage = "config" => plugins = {}

(* The sink is registered for the first file named, by either logger. *)
LoggerInv ==
  /\ stage \in {"config", "logger"} => sink = ""
  /\ stage \in {"plugins", "prerun"} => sink = flag.early
  /\ stage = "ready" =>
       /\ sink = IF flag.early = "" THEN flag.late ELSE flag.early
       /\ logger = IF flag.late = "" THEN "console" ELSE sink

-----------------------------------------------------------------------------
(* The inductive invariant of Server *)

Unborn == status["server"] = "new"

(* Before `server start` nothing runs; a signal without a handler ends all.   *)
ProcessInv ==
  /\ Unborn => \A m \in Goroutines : status[m] = "new"
  /\ status["firewall"] = "new" => setup = "bpffs"
  /\ \A m \in Goroutines : status[m] = "killed" <=> status["server"] = "killed"

(* A group that has returned has no member left, and starts none. *)
GroupInv ==
  \A g \in Groups : status[g] \in Returned => \A m \in Members[g] : status[m] # "running"

(* A link is kept while its worker waits, and after that only by what could   *)
(* not be given up; the socket is open while Serve runs, and no request       *)
(* outlives Shutdown.                                                        *)
ResourceInv ==
  /\ GivenUp \/ (status["xdp"] \in {"running", "killed"} /\ xdp = "wait")
  /\ listening => status["listen"] = "running"
  /\ status["shutdown"] \in Returned => closed /\ \A r \in Requests : conn[r] = "none"

IInv == TypeOK /\ PluginsInv /\ LoggerInv /\ ProcessInv /\ GroupInv /\ ResourceInv

-----------------------------------------------------------------------------
(* Startup *)

(* An embedded configuration asks for every plugin there is. *)
LEMMA DefaultAsksForAll ==
  /\ Asked(DefaultConfig) = PluginNames
  /\ \A s \in DefaultConfig : s.enabled \in BOOLEAN
<1> DEFINE m == Section("monitoring", "metrics", TRUE)
           f == Section("bpf", "firewall", TRUE)
<1>1. /\ m.type \in Types /\ m.name = "metrics" /\ m.enabled = TRUE
      /\ f.type \in Types /\ f.name = "firewall" /\ f.enabled = TRUE
  BY DEF Section, Types
<1>2. DefaultConfig = {m, f}
  BY DEF DefaultConfig
<1> HIDE DEF m, f
<1> QED
  BY <1>1, <1>2 DEF Asked, PluginNames

(* What is found is a configuration whose sections say whether they are       *)
(* enabled, and it is the one that applies.                                  *)
LEMMA FoundApplies ==
  ASSUME NEW argument \in Arguments, NEW file \in Files, NEW default \in Files,
         NewConfig(argument, file, default).state = "good"
  PROVE  LET found == NewConfig(argument, file, default)
         IN  /\ \A s \in found.sections : s.enabled \in BOOLEAN
             /\ Asked(found.sections) = Applies(argument, file, default)
<1>1. \A f \in Files : f.state = "good" => \A s \in f.sections : s.enabled \in BOOLEAN
  BY ConfigurationsAssumption DEF Files, File
<1>3. File("good", DefaultConfig).sections = DefaultConfig
  BY DEF File
<1>4. CASE argument = "apart"
  BY <1>1, <1>4 DEF NewConfig, PeekFlag, Applies
<1>5. CASE argument # "apart" /\ default.state = "absent"
  BY <1>3, <1>5, DefaultAsksForAll DEF NewConfig, PeekFlag, Applies
<1>6. CASE argument # "apart" /\ default.state # "absent"
  BY <1>1, <1>6 DEF NewConfig, PeekFlag, Applies
<1> QED
  BY <1>4, <1>5, <1>6

LEMMA AskedProperties ==
  ASSUME NEW sections
  PROVE  /\ Asked(sections) \subseteq PluginNames
         /\ (\A s \in sections : s.type \notin Types) => Asked(sections) = {}
         /\ \A s \in sections : s.type \in Types =>
              Asked(sections) = Asked(sections \ {s}) \cup
                (IF s.enabled /\ s.name \in PluginNames THEN {s.name} ELSE {})
<1>1. Asked(sections) \subseteq PluginNames /\ ((\A s \in sections : s.type \notin Types) => Asked(sections) = {})
  BY DEF Asked
<1>2. ASSUME NEW s \in sections, s.type \in Types
      PROVE  Asked(sections) = Asked(sections \ {s}) \cup
                (IF s.enabled /\ s.name \in PluginNames THEN {s.name} ELSE {})
  BY <1>2 DEF Asked
<1> QED
  BY <1>1, <1>2

LEMMA ApplyTypes ==
  \A argument, file, default : Applies(argument, file, default) \subseteq PluginNames
BY AskedProperties DEF Applies

(* The file of a -L flag, for the first logger and for the second. *)
LEMMA FlagForms ==
  \A f \in LogFlags : /\ f.early \in {"", "a", "b"} /\ f.late \in {"", "a", "b"}
                      /\ f.late = "" => f.early = ""
<1> SUFFICES ASSUME NEW f \in LogFlags
             PROVE  /\ f.early \in {"", "a", "b"} /\ f.late \in {"", "a", "b"}
                    /\ f.late = "" => f.early = ""
  OBVIOUS
<1>1. CASE f = LogFlag("", "")
  BY <1>1 DEF LogFlag
<1>2. CASE f = LogFlag("a", "a")
  BY <1>2 DEF LogFlag
<1>3. CASE f = LogFlag("", "a")
  BY <1>3 DEF LogFlag
<1>4. CASE f = LogFlag("a", "b")
  BY <1>4 DEF LogFlag
<1> QED
  BY <1>1, <1>2, <1>3, <1>4 DEF LogFlags

(* One step of the start-up keeps the types, the plugins and the logger. *)
LEMMA StartupSteps ==
  ASSUME StartupTypeOK, PluginsInv, LoggerInv, StartupNext
  PROVE  StartupTypeOK' /\ PluginsInv' /\ LoggerInv'
<1> DEFINE Done == StartupTypeOK' /\ PluginsInv' /\ LoggerInv'
<1> USE DEF StartupTypeOK, PluginsInv, LoggerInv, logs
<1>1. ASSUME NEW argument \in Arguments, NEW file \in Files, NEW default \in Files,
             LoadConfig(argument, file, default)
      PROVE  Done
  <2> DEFINE found == NewConfig(argument, file, default)
  <2>1. wanted' \subseteq PluginNames
    BY <1>1, ApplyTypes DEF LoadConfig
  <2>2. CASE found.state = "good"
    <3>1. (\A s \in found.sections : s.enabled \in BOOLEAN) /\ Asked(found.sections) = wanted'
      BY <1>1, <2>2, FoundApplies DEF LoadConfig
    <3>2. stage = "config" /\ stage' = "logger" /\ todo' = found.sections /\ UNCHANGED <<plugins, logs>>
      BY <1>1, <2>2 DEF LoadConfig
    <3> QED
      BY <2>1, <3>1, <3>2
  <2>3. CASE found.state # "good"
    <3>1. stage' = "failed" /\ todo' = {} /\ UNCHANGED <<plugins, logs>>
      BY <1>1, <2>3 DEF LoadConfig
    <3> QED
      BY <2>1, <3>1
  <2> QED
    BY <2>2, <2>3
<1>2. CASE CreateLogger("logger", "plugins", flag.early)
  <2>1. CASE stage' = "plugins" /\ Log(flag.early)
    <3>1. sink' \in {"", "a", "b"} /\ logger' \in {"console", "a", "b"}
      BY <2>1, FlagForms DEF Log
    <3> QED
      BY <1>2, <2>1, <3>1 DEF CreateLogger, Log
  <2>2. CASE stage' = "failed" /\ UNCHANGED <<logger, sink>>
    BY <1>2, <2>2 DEF CreateLogger
  <2> QED
    BY <1>2, <2>1, <2>2 DEF CreateLogger
<1>3. ASSUME NEW s \in todo, NewPlugin(s) PROVE Done
  <2>1. Asked(todo) = Asked(todo \ {s}) \cup
                (IF s.enabled /\ s.name \in PluginNames THEN {s.name} ELSE {})
    BY <1>3, AskedProperties DEF NewPlugin
  <2> QED
    BY <1>3, <2>1 DEF NewPlugin
<1>4. CASE PluginsMade
  <2>1. Asked(todo) = {}
    BY <1>4, AskedProperties DEF PluginsMade
  <2> QED
    BY <1>4, <2>1 DEF PluginsMade
<1>5. CASE CreateLogger("prerun", "ready", flag.late)
  <2>1. CASE stage' = "ready" /\ Log(flag.late)
    <3>1. sink' \in {"", "a", "b"} /\ logger' \in {"console", "a", "b"}
      BY <2>1, FlagForms DEF Log
    <3> QED
      BY <1>5, <2>1, <3>1 DEF CreateLogger, Log
  <2>2. CASE stage' = "failed" /\ UNCHANGED <<logger, sink>>
    BY <1>5, <2>2 DEF CreateLogger
  <2> QED
    BY <1>5, <2>1, <2>2 DEF CreateLogger
<1> QED
  BY <1>1, <1>2, <1>3, <1>4, <1>5 DEF StartupNext

-----------------------------------------------------------------------------
(* Server *)

(* The part of TypeOK that is about the daemon. *)
States == {"new", "running", "killed"} \cup Returned
All == Goroutines \cup {"server"}

BornInv ==
  status["server"] \notin {"new", "killed"} =>
    \A m \in Goroutines : status[m] = "new" <=>
      IF m \in Late THEN setup # "group" ELSE m \notin Begun

DaemonTypes ==
  /\ status \in [All -> States]
  /\ notified \in BOOLEAN /\ signalled \in BOOLEAN
  /\ listening \in BOOLEAN /\ closed \in BOOLEAN
  /\ conn \in [Requests -> {"none", "sending", "handling"}]
  /\ setup \in {"bpffs", "memlock", "service", "group"}
  /\ xdp \in {"attach", "wait", "stop", "failed"}
  /\ attachment \subseteq Link \cup {"hook"} /\ erred \subseteq Link

LEMMA TypeParts == TypeOK <=> StartupTypeOK /\ DaemonTypes /\ BornInv
BY DEF TypeOK, DaemonTypes, BornInv, States, All

(* What a step does to the goroutines: nothing, or one of them returns, or    *)
(* the daemon starts, is killed, or sets the firewall up.                    *)
Moves ==
  \/ UNCHANGED <<status, setup>>
  \/ /\ UNCHANGED setup
     /\ \E m \in All, result \in Returned :
          /\ Returns(m, result)
          /\ m \in Groups => \A n \in Members[m] : status[n] \in Returned \cup {"new"}
  \/ Start \/ SignalKills \/ SetUp

LEMMA Waits ==
  ASSUME NEW g \in Groups, Wait(g)
  PROVE  Moves
<1>1. g \in All
  BY DEF Groups, All, Goroutines, PluginNames
<1>2. \A n \in Members[g] : status[n] \in Returned
  BY DEF Wait
<1>3. \E result \in Returned : Returns(g, result)
  BY DEF Wait, Returned
<1>4. UNCHANGED setup
  BY DEF Wait, firewall
<1> QED
  BY <1>1, <1>2, <1>3, <1>4 DEF Moves

LEMMA Loops ==
  ASSUME NEW m \in All, m \notin Groups, NEW g, Loop(m, g)
  PROVE  Moves
BY DEF Loop, Moves, Returned, firewall

LEMMA EveryStepMoves ==
  ASSUME TypeOK, ProcessInv, Daemon
  PROVE  Moves
<1>1. {"server", "controller", "api", "metrics", "firewall"} \subseteq Groups
  BY DEF Groups, PluginNames
<1>2. /\ {"signal", "listen", "shutdown", "worker", "xdp", "tick"} \subseteq All \ Groups
  BY DEF Groups, PluginNames, All, Goroutines
<1>3. CASE Start \/ SignalKills \/ SetUp
  BY <1>3 DEF Moves
<1>4. CASE Notify \/ Signal \/ Listen \/ BeginShutdown \/ Attach \/ Detach
  BY <1>4 DEF Moves, Notify, Signal, Listen, BeginShutdown, Attach, Detach, firewall
<1>5. ASSUME NEW r \in Requests, Connect(r) \/ Receive(r) \/ Respond(r) PROVE Moves
  BY <1>5 DEF Moves, Connect, Receive, Respond, firewall
<1>6. CASE Interrupted \/ ListenFails \/ ServeReturns
  BY <1>2, <1>6 DEF Moves, Interrupted, ListenFails, ServeReturns, firewall, Returned
<1>7. CASE ShutdownReturns
  BY <1>2, <1>7 DEF Moves, ShutdownReturns, firewall, Returned
<1>8. CASE StopXdp
  BY <1>2, <1>8 DEF Moves, StopXdp, firewall, Returned
<1>9. CASE SetUpFails
  <2>1. status["firewall"] = "running" /\ Returns("firewall", "error") /\ setup # "group" /\ UNCHANGED setup
    BY <1>9 DEF SetUpFails, Returns, firewall
  <2>2. status["server"] \notin {"new", "killed"}
    BY <2>1 DEF ProcessInv, Unborn, Goroutines
  <2>3. \A n \in Late : status[n] = "new"
    BY <2>1, <2>2, TypeParts DEF BornInv, Late, Goroutines
  <2>4. Members["firewall"] = Late
    BY DEF Members, Late
  <2> QED
    BY <2>1, <2>3, <2>4 DEF Moves, All, Goroutines, Returned
<1>10. CASE Loop("worker", "metrics") \/ Loop("tick", "firewall")
  BY <1>2, <1>10, Loops
<1>11. CASE Wait("metrics") \/ Wait("firewall") \/ Wait("api") \/ Wait("controller") \/ Wait("server")
  BY <1>1, <1>11, Waits
<1> QED
  BY <1>3, <1>4, <1>5, <1>6, <1>7, <1>8, <1>9, <1>10, <1>11 DEF Daemon, Api, Metrics, Firewall

LEMMA ServerTypes ==
  ASSUME DaemonTypes, Daemon
  PROVE  DaemonTypes'
<1> USE DEF DaemonTypes, api, firewall, signals, Returns, States, Returned
<1>1. CASE Start \/ Notify \/ Interrupted \/ Signal \/ SignalKills
  <2>1. CASE Start
    BY <2>1 DEF Start
  <2>2. CASE Notify \/ Interrupted \/ Signal
    BY <2>2 DEF Notify, Interrupted, Signal
  <2>3. CASE SignalKills
    <3>1. status' = [m \in All |-> "killed"] /\ conn' = [r \in Requests |-> "none"]
      BY <2>3 DEF SignalKills
    <3>2. /\ listening' = FALSE /\ attachment' = attachment \ {"descriptor"}
          /\ UNCHANGED <<notified, signalled, closed, setup, xdp, erred>>
      BY <2>3 DEF SignalKills
    <3> QED
      BY <3>1, <3>2
  <2> QED
    BY <1>1, <2>1, <2>2, <2>3
<1>2. CASE Api
  <2>1. CASE Listen \/ ListenFails \/ ServeReturns
    BY <2>1 DEF Listen, ListenFails, ServeReturns
  <2>2. CASE BeginShutdown \/ ShutdownReturns
    BY <2>2 DEF BeginShutdown, ShutdownReturns
  <2>3. CASE Wait("api")
    BY <2>3 DEF Wait
  <2> QED
    BY <1>2, <2>1, <2>2, <2>3 DEF Api
<1>3. CASE Metrics
  BY <1>3 DEF Metrics, Loop, Wait
<1>4. CASE Firewall
  <2>1. CASE SetUp
    BY <2>1 DEF SetUp, SetupStep
  <2>2. CASE SetUpFails \/ StopXdp
    BY <2>2 DEF SetUpFails, StopXdp
  <2>3. CASE Attach \/ Detach
    BY <2>3 DEF Attach, AttachLink, RegisterHook, Detach, GiveUpLink, Link
  <2>4. CASE Loop("tick", "firewall") \/ Wait("firewall")
    BY <2>4 DEF Loop, Wait
  <2> QED
    BY <1>4, <2>1, <2>2, <2>3, <2>4 DEF Firewall
<1>5. CASE Wait("controller") \/ Wait("server")
  BY <1>5 DEF Wait
<1>6. ASSUME NEW r \in Requests, Connect(r) \/ Receive(r) \/ Respond(r) PROVE DaemonTypes'
  BY <1>6 DEF Connect, Receive, Respond
<1> QED
  BY <1>1, <1>2, <1>3, <1>4, <1>5, <1>6 DEF Daemon

-----------------------------------------------------------------------------
(* Goroutines *)

(* Each goroutine belongs to one group. *)
LEMMA Tree ==
  ASSUME plugins \subseteq PluginNames
  PROVE  /\ \A g \in Groups : g # "firewall" => Members[g] \cap Late = {}
         /\ \A g \in Groups : Members[g] \subseteq Goroutines
         /\ Begun \cap Late = {} /\ Begun \subseteq All /\ "server" \in Begun
         /\ Late \subseteq Goroutines /\ Goroutines \subseteq All /\ Groups \subseteq All
         /\ "firewall" \in Goroutines /\ "server" \notin Goroutines /\ "firewall" \notin Late
         /\ "server" \in Groups
<1> USE DEF PluginNames, Goroutines, All, Groups, Late
<1>1. ASSUME NEW g \in Groups PROVE /\ g # "firewall" => Members[g] \cap Late = {}
                                    /\ Members[g] \subseteq Goroutines
  <2>1. CASE g = "controller"
    <3>1. Members[g] = {"api"} \cup plugins
      BY <2>1 DEF Members
    <3> QED
      BY <3>1
  <2>2. CASE g # "controller"
    BY <2>2 DEF Members
  <2> QED
    BY <2>1, <2>2
<1>2. Begun \subseteq {"server", "signal", "controller", "api", "listen", "shutdown", "worker"} \cup plugins
  BY DEF Begun, Members
<1>3. "server" \in Begun
  BY DEF Begun
<1>4. /\ Late \subseteq Goroutines /\ Goroutines \subseteq All /\ Groups \subseteq All
      /\ "firewall" \in Goroutines /\ "server" \notin Goroutines /\ "firewall" \notin Late
      /\ "server" \in Groups
  OBVIOUS
<1> QED
  BY <1>1, <1>2, <1>3, <1>4

(* No step of the daemon disturbs who runs in which group. *)
LEMMA GroupSteps ==
  ASSUME DaemonTypes, StartupTypeOK, BornInv, ProcessInv, GroupInv, Moves, UNCHANGED startup
  PROVE  BornInv' /\ ProcessInv' /\ GroupInv'
<1> DEFINE Done == BornInv' /\ ProcessInv' /\ GroupInv'
<1>1. status \in [All -> States] /\ plugins \subseteq PluginNames
  BY DEF DaemonTypes, StartupTypeOK
<1>2. Members' = Members /\ Begun' = Begun
  BY DEF Members, Begun, startup
<1>3. CASE UNCHANGED <<status, setup>>
  BY <1>2, <1>3 DEF BornInv, ProcessInv, GroupInv, Unborn
<1>4. ASSUME UNCHANGED setup, NEW m \in All, NEW result \in Returned, Returns(m, result),
             m \in Groups => \A n \in Members[m] : status[n] \in Returned \cup {"new"}
      PROVE  Done
  <2>1. \A n \in All : status'[n] = IF n = m THEN result ELSE status[n]
    BY <1>1, <1>4 DEF Returns
  <2>2. result \notin {"new", "running", "killed"} /\ status[m] = "running"
    BY <1>4 DEF Returned, Returns
  <2>3. BornInv'
    BY <1>1, <1>2, <1>4, <2>1, <2>2, Tree DEF BornInv
  <2>4. ProcessInv'
    BY <1>1, <1>4, <2>1, <2>2, Tree DEF ProcessInv, Unborn
  <2>5. GroupInv'
    BY <1>1, <1>2, <1>4, <2>1, <2>2, Tree DEF GroupInv
  <2> QED
    BY <2>3, <2>4, <2>5
<1>5. CASE Start
  <2>1. \A n \in All : status'[n] = IF n \in Begun THEN "running" ELSE "new"
    BY <1>1, <1>5 DEF Start
  <2>2. setup' = "bpffs" /\ setup = "bpffs" /\ status["server"] = "new"
    BY <1>1, <1>5, Tree DEF Start, firewall, ProcessInv, Unborn
  <2>3. BornInv'
    BY <1>1, <1>2, <2>1, <2>2, Tree DEF BornInv
  <2>4. ProcessInv'
    BY <1>1, <2>1, <2>2, Tree DEF ProcessInv, Unborn
  <2>5. GroupInv'
    BY <1>1, <2>1, Tree DEF GroupInv, Returned
  <2> QED
    BY <2>3, <2>4, <2>5
<1>6. CASE SignalKills
  <2>1. \A n \in All : status'[n] = "killed"
    BY <1>1, <1>6 DEF SignalKills
  <2> QED
    BY <1>1, <2>1, Tree DEF BornInv, ProcessInv, GroupInv, Unborn, Returned
<1>7. CASE SetUp
  <2>1. \A n \in All : status'[n] = IF setup' = "group" /\ n \in Late THEN "running" ELSE status[n]
    BY <1>1, <1>7 DEF SetUp
  <2>2. status["firewall"] = "running" /\ setup # "group"
    BY <1>7 DEF SetUp
  <2>3. status["server"] \notin {"new", "killed"}
    BY <2>2, Tree, <1>1 DEF ProcessInv, Unborn
  <2>4. \A n \in Late : status[n] = "new"
    BY <1>1, <2>2, <2>3, Tree DEF BornInv
  <2>5. BornInv'
    BY <1>1, <1>2, <2>1, <2>2, <2>4, Tree DEF BornInv
  <2>6. ProcessInv'
    BY <1>1, <2>1, <2>2, <2>3, <2>4, Tree DEF ProcessInv, Unborn
  <2>7. GroupInv'
    BY <1>1, <1>2, <2>1, <2>2, Tree DEF GroupInv, Returned
  <2> QED
    BY <2>5, <2>6, <2>7
<1> QED
  BY <1>3, <1>4, <1>5, <1>6, <1>7 DEF Moves

(* The interface, the socket and the connections go with their goroutines. *)
LEMMA ResourceSteps ==
  ASSUME DaemonTypes, ProcessInv, ResourceInv, Daemon
  PROVE  ResourceInv'
<1>1. {"xdp", "listen", "shutdown"} \subseteq Goroutines /\ Goroutines \subseteq All
  BY DEF Goroutines, All
<1> USE <1>1 DEF DaemonTypes, ResourceInv, GivenUp, api, firewall, signals, Returns, Returned
<1>2. CASE Start
  <2>1. \A m \in All : status[m] = "new" /\ status'[m] \in {"new", "running"}
    BY <1>2 DEF Start, ProcessInv, Unborn, All
  <2> QED
    BY <1>2, <2>1 DEF Start
<1>3. CASE Notify \/ Interrupted \/ Signal
  BY <1>3 DEF Notify, Interrupted, Signal
<1>4. CASE SignalKills
  BY <1>4 DEF SignalKills
<1>5. CASE Api
  <2>1. CASE Listen \/ ListenFails \/ ServeReturns
    BY <2>1 DEF Listen, ListenFails, ServeReturns
  <2>2. CASE BeginShutdown \/ ShutdownReturns
    BY <2>2 DEF BeginShutdown, ShutdownReturns
  <2>3. CASE Wait("api")
    BY <2>3 DEF Wait
  <2> QED
    BY <1>5, <2>1, <2>2, <2>3 DEF Api
<1>6. CASE Metrics
  BY <1>6 DEF Metrics, Loop, Wait
<1>7. CASE Firewall
  <2>1. CASE SetUp
    BY <2>1 DEF SetUp, SetupStep, Late
  <2>2. CASE SetUpFails \/ StopXdp
    BY <2>2 DEF SetUpFails, StopXdp
  <2>3. CASE Attach \/ Detach
    BY <2>3 DEF Attach, AttachLink, RegisterHook, Detach, GiveUpLink, Link
  <2>4. CASE Loop("tick", "firewall") \/ Wait("firewall")
    BY <2>4 DEF Loop, Wait
  <2> QED
    BY <1>7, <2>1, <2>2, <2>3, <2>4 DEF Firewall
<1>8. CASE Wait("controller") \/ Wait("server")
  BY <1>8 DEF Wait
<1>9. ASSUME NEW r \in Requests, Connect(r) \/ Receive(r) \/ Respond(r) PROVE ResourceInv'
  BY <1>9 DEF Connect, Receive, Respond
<1> QED
  BY <1>2, <1>3, <1>4, <1>5, <1>6, <1>7, <1>8, <1>9 DEF Daemon

-----------------------------------------------------------------------------
(* The invariant *)

LEMMA Invariance == Spec => []IInv
<1>1. Init => IInv
  <2> SUFFICES ASSUME Init PROVE IInv
    OBVIOUS
  <2>1. StartupTypeOK /\ PluginsInv /\ LoggerInv
    BY DEF Init, StartupInit, StartupTypeOK, PluginsInv, LoggerInv
  <2>2. DaemonTypes
    BY DEF Init, DaemonTypes, States, All
  <2>3. status = [m \in All |-> "new"] /\ setup = "bpffs"
    BY DEF Init, All
  <2>4. \A m \in All : status[m] = "new"
    BY <2>3
  <2>5. BornInv
    BY <2>4 DEF BornInv, All
  <2>6. ProcessInv
    BY <2>3, <2>4 DEF ProcessInv, Unborn, All, Goroutines
  <2>7. GroupInv
    BY <2>4 DEF GroupInv, Groups, All, Goroutines, PluginNames, Returned
  <2>8. ResourceInv
    BY <2>4 DEF Init, ResourceInv, GivenUp, All, Goroutines, Returned
  <2> QED
    BY <2>1, <2>2, <2>5, <2>6, <2>7, <2>8, TypeParts DEF IInv
<1>2. IInv /\ [Next]_vars => IInv'
  <2> SUFFICES ASSUME IInv, [Next]_vars PROVE IInv'
    OBVIOUS
  <2> USE DEF IInv
  <2>1. StartupTypeOK /\ DaemonTypes /\ BornInv
    BY TypeParts
  <2>2. (StartupTypeOK /\ DaemonTypes /\ BornInv)' => TypeOK'
    BY DEF TypeOK, DaemonTypes, BornInv, States, All
  <2>3. CASE status["server"] = "new" /\ StartupNext /\ UNCHANGED daemon
    <3>1. UNCHANGED <<status, notified, signalled, listening, closed, conn, setup, xdp, attachment, erred>>
      BY <2>3 DEF daemon, signals, api, firewall
    <3>2. StartupTypeOK' /\ PluginsInv' /\ LoggerInv'
      BY <2>1, <2>3, StartupSteps
    <3>3. DaemonTypes' /\ BornInv'
      BY <2>1, <2>3, <3>1 DEF DaemonTypes, BornInv
    <3>4. ProcessInv' /\ ResourceInv'
      BY <3>1 DEF ProcessInv, Unborn, ResourceInv, GivenUp
    <3>5. \A g \in Groups : status[g] = "new"
      BY <2>3 DEF ProcessInv, Unborn, Groups, Goroutines, PluginNames
    <3>6. GroupInv'
      BY <3>1, <3>5 DEF GroupInv, Returned
    <3> QED
      BY <2>2, <3>2, <3>3, <3>4, <3>6
  <2>4. CASE Daemon /\ UNCHANGED startup
    <3>1. StartupTypeOK' /\ PluginsInv' /\ LoggerInv'
      BY <2>1, <2>4 DEF startup, logs, StartupTypeOK, PluginsInv, LoggerInv, Asked
    <3>2. DaemonTypes' /\ ResourceInv'
      BY <2>1, <2>4, ServerTypes, ResourceSteps
    <3>3. Moves
      BY <2>4, EveryStepMoves
    <3>4. BornInv' /\ ProcessInv' /\ GroupInv'
      BY <2>1, <2>4, <3>3, GroupSteps
    <3> QED
      BY <2>2, <3>1, <3>2, <3>4
  <2>5. CASE UNCHANGED vars
    <3>1. UNCHANGED <<status, notified, signalled, listening, closed, conn, setup, xdp, attachment, erred>>
      BY <2>5 DEF vars, daemon, signals, api, firewall
    <3>2. UNCHANGED <<stage, todo, plugins, wanted, flag, logger, sink>>
      BY <2>5 DEF vars, startup, logs
    <3>3. StartupTypeOK' /\ PluginsInv' /\ LoggerInv'
      BY <2>1, <3>2 DEF StartupTypeOK, PluginsInv, LoggerInv, Asked
    <3>4. DaemonTypes' /\ BornInv'
      BY <2>1, <3>1, <3>2 DEF DaemonTypes, BornInv, Begun, Members
    <3>5. ProcessInv' /\ ResourceInv' /\ GroupInv'
      BY <3>1, <3>2 DEF ProcessInv, Unborn, ResourceInv, GivenUp, GroupInv, Members
    <3> QED
      BY <2>2, <3>3, <3>4, <3>5
  <2> QED
    BY <2>3, <2>4, <2>5 DEF Next
<1> QED
  BY <1>1, <1>2, PTL DEF Spec

-----------------------------------------------------------------------------
(* Theorems *)

(* Every variable keeps its type, and while the daemon lives the goroutines   *)
(* that were never started are those the configuration or the firewall's     *)
(* set-up leave out.                                                         *)
THEOREM TypeCorrect == Spec => []TypeOK
<1>1. IInv => TypeOK
  BY DEF IInv
<1> QED
  BY <1>1, Invariance, PTL

(* A command runs with the plugins and the log that its configuration and     *)
(* its flags ask for, whatever the files on its paths hold.                  *)
THEOREM StartupFollows == Spec => []RunsAsConfigured
<1>1. IInv => RunsAsConfigured
  <2> SUFFICES ASSUME IInv, stage = "ready"
               PROVE  /\ plugins = wanted
                      /\ logger \in IF flag.late = "" THEN {"console"} ELSE {flag.early, flag.late} \ {""}
    BY DEF RunsAsConfigured
  <2>1. flag \in LogFlags
    BY DEF IInv, TypeOK, StartupTypeOK
  <2> QED
    BY <2>1, FlagForms DEF IInv, PluginsInv, LoggerInv
<1> QED
  BY <1>1, Invariance, PTL

(* When main returns, of a primary's link nothing is left but what it got an   *)
(* error for when it gave it up, the socket is closed, every request          *)
(* answered, and no goroutine runs.                                          *)
THEOREM ExitsClean == Spec => []ExitIsClean
<1>1. IInv => ExitIsClean
  <2> SUFFICES ASSUME IInv, Exited
               PROVE  /\ GivenUp /\ ~listening
                      /\ \A r \in Requests : conn[r] = "none"
                      /\ \A m \in Goroutines : status[m] # "running"
    BY DEF ExitIsClean
  <2> USE DEF IInv
  <2>1. StartupTypeOK /\ DaemonTypes /\ BornInv
    BY TypeParts
  <2>2. status["server"] \in Returned /\ status["server"] \notin {"new", "killed"}
    BY DEF Exited, Returned
  <2>3. \A m \in Goroutines : status[m] \in {"new", "running"} \cup Returned
    BY <2>1, <2>2 DEF ProcessInv, DaemonTypes, States, All
  <2>4. \A m \in Goroutines \ Late : status[m] = "new" <=> m \notin Begun
    BY <2>1, <2>2 DEF BornInv
  <2>5. {"controller", "signal", "api", "listen", "shutdown"} \subseteq Begun
    BY DEF Begun, Members
  <2>6. status["signal"] \in Returned /\ status["controller"] \in Returned
    <3>1. {"signal", "controller"} = Members["server"] /\ "server" \in Groups
      BY DEF Members, Groups
    <3> QED
      BY <2>2, <2>3, <2>4, <2>5, <3>1 DEF GroupInv, Goroutines, Late
  <2>7. status["api"] \in Returned /\ \A p \in plugins : status[p] # "running"
    <3>1. {"api"} \cup plugins = Members["controller"] /\ "controller" \in Groups
      BY DEF Members, Groups
    <3> QED
      BY <2>3, <2>4, <2>5, <2>6, <3>1 DEF GroupInv, Goroutines, Late
  <2>8. status["listen"] \in Returned /\ status["shutdown"] \in Returned
    <3>1. {"listen", "shutdown"} = Members["api"] /\ "api" \in Groups
      BY DEF Members, Groups
    <3> QED
      BY <2>3, <2>4, <2>5, <2>7, <3>1 DEF GroupInv, Goroutines, Late
  <2>9. status["metrics"] # "running" /\ status["worker"] # "running"
    <3>1. CASE "metrics" \in plugins
      <4>1. {"metrics", "worker"} \subseteq Begun
        BY <3>1 DEF Begun, Members
      <4>2. {"worker"} = Members["metrics"] /\ "metrics" \in Groups
        BY DEF Members, Groups, PluginNames
      <4> QED
        BY <2>3, <2>4, <2>7, <3>1, <4>1, <4>2 DEF GroupInv, Goroutines, Late
    <3>2. CASE "metrics" \notin plugins
      <4>1. "metrics" \notin Begun /\ "worker" \notin Begun
        BY <2>1, <3>2 DEF Begun, Members, StartupTypeOK, PluginNames
      <4> QED
        BY <2>4, <4>1 DEF Goroutines, Late
    <3> QED
      BY <3>1, <3>2
  <2>10. status["firewall"] # "running" /\ status["xdp"] # "running" /\ status["tick"] # "running"
    <3>1. CASE "firewall" \in plugins
      <4>1. "firewall" \in Begun
        BY <3>1 DEF Begun, Members
      <4>2. Late = Members["firewall"] /\ "firewall" \in Groups
        BY DEF Members, Groups, PluginNames, Late
      <4> QED
        BY <2>3, <2>4, <2>7, <3>1, <4>1, <4>2 DEF GroupInv, Goroutines, Late
    <3>2. CASE "firewall" \notin plugins
      <4>1. "firewall" \notin Begun
        BY <2>1, <3>2 DEF Begun, Members, StartupTypeOK, PluginNames
      <4>2. setup # "group" /\ status["firewall"] = "new"
        BY <2>4, <4>1 DEF ProcessInv, Goroutines, Late
      <4> QED
        BY <2>1, <2>2, <4>2 DEF BornInv, Goroutines, Late
    <3> QED
      BY <3>1, <3>2
  <2>11. GivenUp /\ ~listening /\ \A r \in Requests : conn[r] = "none"
    BY <2>2, <2>3, <2>8, <2>10 DEF ResourceInv, Goroutines, Returned
  <2>12. \A m \in Goroutines : status[m] # "running"
    BY <2>6, <2>7, <2>8, <2>9, <2>10 DEF Goroutines, Returned
  <2> QED
    BY <2>11, <2>12
<1> QED
  BY <1>1, Invariance, PTL
=============================================================================
