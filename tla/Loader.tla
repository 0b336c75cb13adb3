------------------------------- MODULE Loader -------------------------------
(***************************************************************************)
(* The life of the daemon around the kernel objects it leaves behind:       *)
(* NewXdpService, Run and Stop of pkg/plugins/firewall/xdp.go, driven by    *)
(* run.go and by the errgroup of the server command.                        *)
(*                                                                          *)
(* A daemon is a process slot: it is started with a configuration, works    *)
(* through its start-up one system call at a time, waits for its context to *)
(* be cancelled, tears down and exits; it may be killed at any point.  More  *)
(* than one may be started.  What outlives a process is kept by the kernel:  *)
(* the pinned maps, the link attached to the interface while it is pinned    *)
(* or open, and the hook map of a dispatcher, a foreign XDP program a       *)
(* secondary loader registers with.                                         *)
(***************************************************************************)
EXTENDS Naturals, Sequences, FiniteSets

CONSTANTS
  Daemons,    \* process slots
  Configs,    \* the configurations a daemon may be started with
  HookSlots,  \* the indexes of the dispatcher's hook map
  MaxStarts   \* bound: process starts in one behaviour

(* The part of the plugin's configuration that decides anything here. *)
IsConfig(g) ==
  /\ g.mode \in {"primary", "secondary", "auto"}
  /\ g.hook \in BOOLEAN     \* Loader.Hook.PinPath is set
  /\ g.index \in Seq(Nat)   \* Loader.Hook.Index
  /\ g.dryrun \in BOOLEAN   \* Options.DryRun

ASSUME ConfigsAssumption == Configs # {} /\ \A g \in Configs : IsConfig(g)
ASSUME BoundAssumption == MaxStarts \in Nat

VARIABLES
  phase,       \* phase[d]: the next step of daemon d
  config,      \* config[d]: what d was started with
  mode,        \* mode[d]: the loader mode d resolved
  todo,        \* todo[d]: the hook indexes d still has to register
  cancelled,   \* cancelled[d]: the context of d is done, or was when it exited
  iface,       \* what is attached to the interface: "none", "dispatcher", "link"
  linkPinned,  \* the attached link is pinned as link_<interface>
  linkHolder,  \* the daemons with an open descriptor of the attached link
  mapsPinned,  \* the eight maps are pinned
  dryrun,      \* xdpfw_runtime_config[0], a pinned map
  hookPinned,  \* the dispatcher's hook map is pinned
  hook,        \* hook[i]: whose program the hook map holds at index i
  starts,      \* how many processes were started
  mishap       \* history: a daemon was killed while its link was pinned, or could not
               \* unpin it

kernel == <<iface, linkPinned, linkHolder, mapsPinned, dryrun, hookPinned, hook>>
vars == <<phase, config, mode, todo, cancelled, kernel, starts, mishap>>

Phases == {"down", "detect", "load", "seed", "attach", "unlink", "pin", "hook",
           "run", "unpin", "close", "stop"}

NoConfig == CHOOSE g \in Configs : TRUE

TypeOK ==
  /\ phase \in [Daemons -> Phases]
  /\ config \in [Daemons -> Configs]
  /\ mode \in [Daemons -> {"primary", "secondary"}]
  /\ todo \in [Daemons -> Seq(Nat)]
  /\ cancelled \in [Daemons -> BOOLEAN]
  /\ iface \in {"none", "dispatcher", "link"}
  /\ linkPinned \in BOOLEAN
  /\ linkHolder \subseteq Daemons
  /\ mapsPinned \in BOOLEAN
  /\ dryrun \in BOOLEAN
  /\ hookPinned \in BOOLEAN
  /\ hook \in [HookSlots -> {"none"} \cup Daemons]
  /\ starts \in 0 .. MaxStarts
  /\ mishap \in BOOLEAN

Init ==
  /\ phase = [d \in Daemons |-> "down"]
  /\ config = [d \in Daemons |-> NoConfig]
  /\ mode = [d \in Daemons |-> "primary"]
  /\ todo = [d \in Daemons |-> <<>>]
  /\ cancelled = [d \in Daemons |-> FALSE]
  /\ iface = "none"
  /\ linkPinned = FALSE /\ linkHolder = {}
  /\ mapsPinned = FALSE /\ dryrun = FALSE
  /\ hookPinned = FALSE /\ hook = [i \in HookSlots |-> "none"]
  /\ starts = 0
  /\ mishap = FALSE

-----------------------------------------------------------------------------
Goto(d, from, to) == phase[d] = from /\ phase' = [phase EXCEPT ![d] = to]

(* The kernel detaches a link that is neither pinned nor open. *)
KeepLink(pinned, holders) ==
  /\ linkPinned' = pinned
  /\ linkHolder' = holders
  /\ iface' = IF iface = "link" /\ ~pinned /\ holders = {} THEN "none" ELSE iface

process == <<config, mode, todo, cancelled, starts>>

-----------------------------------------------------------------------------
(* NewXdpService *)

Start(d, g) ==
  /\ starts < MaxStarts
  /\ starts' = starts + 1
  /\ Goto(d, "down", "detect")
  /\ config' = [config EXCEPT ![d] = g]
  /\ cancelled' = [cancelled EXCEPT ![d] = FALSE]
  /\ UNCHANGED <<mode, todo, kernel, mishap>>

(* DetectLoaderMode: a hook map is pinned and something is attached.  What   *)
(* is attached may be a link of this program as well as a dispatcher.        *)
Detected(d) ==
  IF config[d].hook /\ hookPinned /\ iface # "none" THEN "secondary" ELSE "primary"

(* Slip: the configured mode is kept, also "auto". *)
DetectUnresolved(d) ==
  /\ config[d].mode \in {"auto", Detected(d)}
  /\ Goto(d, "detect", "load")
  /\ mode' = [mode EXCEPT ![d] = config[d].mode]
  /\ UNCHANGED <<config, todo, cancelled, kernel, starts, mishap>>

Detect(d) ==
  /\ config[d].mode \in {"auto", Detected(d)}
  /\ Goto(d, "detect", "load")
  /\ mode' = [mode EXCEPT ![d] = Detected(d)]
  /\ UNCHANGED <<config, todo, cancelled, kernel, starts, mishap>>

(* The configured mode is not the detected one, or the interface cannot be    *)
(* looked at, which is only done when a hook is configured.                   *)
DetectFails(d) ==
  /\ config[d].mode \notin {"auto", Detected(d)} \/ config[d].hook
  /\ Goto(d, "detect", "down")
  /\ UNCHANGED <<process, kernel, mishap>>

(* LoadAndAssign loads the program and opens the pinned maps, or creates and *)
(* pins them; it may fail before or after that.                              *)
Load(d) ==
  /\ Goto(d, "load", "seed")
  /\ mapsPinned' = TRUE
  /\ UNCHANGED <<process, iface, linkPinned, linkHolder, dryrun, hookPinned, hook, mishap>>

LoadFails(d) ==
  /\ Goto(d, "load", "down")
  /\ mapsPinned' \in {mapsPinned, TRUE}
  /\ UNCHANGED <<process, iface, linkPinned, linkHolder, dryrun, hookPinned, hook, mishap>>

(* The configured dryrun is written to the pinned map of a program that may  *)
(* be running already.                                                       *)
Seed(d) ==
  /\ Goto(d, "seed", "attach")
  /\ dryrun' = config[d].dryrun
  /\ UNCHANGED <<process, iface, linkPinned, linkHolder, mapsPinned, hookPinned, hook, mishap>>

SeedFails(d) ==
  /\ Goto(d, "seed", "down")
  /\ UNCHANGED <<process, kernel, mishap>>

-----------------------------------------------------------------------------
(* TXdpService.Run, primary *)

(* Slip: whatever is attached is replaced. *)
AttachReplaces(d) ==
  /\ mode[d] = "primary"
  /\ Goto(d, "attach", "unlink")
  /\ iface' = "link"
  /\ linkHolder' = {d}
  /\ mishap' = FALSE
  /\ UNCHANGED <<process, linkPinned, mapsPinned, dryrun, hookPinned, hook>>

Attach(d) ==
  /\ mode[d] = "primary"
  /\ iface = "none"
  /\ Goto(d, "attach", "unlink")
  /\ iface' = "link"
  /\ linkHolder' = {d}
  /\ mishap' = FALSE
  /\ UNCHANGED <<process, linkPinned, mapsPinned, dryrun, hookPinned, hook>>

(* Slip: the old pin is removed before the interface is known to be free. *)
AttachFailsUnpinned(d) ==
  /\ mode[d] = "primary"
  /\ Goto(d, "attach", "stop")
  /\ KeepLink(FALSE, linkHolder)
  /\ UNCHANGED <<process, mapsPinned, dryrun, hookPinned, hook, mishap>>

(* The interface is taken, by whatever program, or is gone, or the hook map   *)
(* cannot be opened: the run fails and the worker goes straight to Stop.      *)
AttachFails(d) ==
  /\ Goto(d, "attach", "stop")
  /\ UNCHANGED <<process, kernel, mishap>>

(* os.Remove of a pin some earlier process left. *)
RemovePin(d) ==
  /\ Goto(d, "unlink", "pin")
  /\ KeepLink(FALSE, linkHolder)
  /\ UNCHANGED <<process, mapsPinned, dryrun, hookPinned, hook, mishap>>

(* Slip: a context that is done already is noticed before the teardown is     *)
(* deferred.                                                                 *)
PinBeforeDefer(d) ==
  /\ Goto(d, "pin", IF cancelled[d] THEN "stop" ELSE "run")
  /\ KeepLink(TRUE, linkHolder)
  /\ UNCHANGED <<process, mapsPinned, dryrun, hookPinned, hook, mishap>>

Pin(d) ==
  /\ Goto(d, "pin", "run")
  /\ KeepLink(TRUE, linkHolder)
  /\ UNCHANGED <<process, mapsPinned, dryrun, hookPinned, hook, mishap>>

(* l.Close(); it may fail and leave the descriptor open until the process      *)
(* exits, and nobody looks at its error but to log it.                        *)
Close(d) == \E holders \in {linkHolder \ {d}, linkHolder} : KeepLink(linkPinned, holders)

PinFails(d) ==
  /\ Goto(d, "pin", "stop")
  /\ Close(d)
  /\ UNCHANGED <<process, mapsPinned, dryrun, hookPinned, hook, mishap>>

(* Slip: a primary loader waits for its link instead of its context. *)
WakeSecondary(d) ==
  /\ cancelled[d] /\ mode[d] = "secondary"
  /\ Goto(d, "run", "stop")
  /\ UNCHANGED <<process, kernel, mishap>>

(* The deferred teardown: l.Unpin and then l.Close, once the context is done. *)
Wake(d) ==
  /\ cancelled[d]
  /\ Goto(d, "run", IF mode[d] = "primary" THEN "unpin" ELSE "stop")
  /\ UNCHANGED <<process, kernel, mishap>>

Unpin(d) ==
  /\ Goto(d, "unpin", "close")
  /\ KeepLink(FALSE, linkHolder)
  /\ UNCHANGED <<process, mapsPinned, dryrun, hookPinned, hook, mishap>>

(* The error of l.Unpin is logged and the teardown goes on: the pin keeps the *)
(* program attached when the daemon is gone.                                 *)
UnpinFails(d) ==
  /\ Goto(d, "unpin", "close")
  /\ mishap' = TRUE
  /\ UNCHANGED <<process, kernel>>

CloseLink(d) ==
  /\ Goto(d, "close", "stop")
  /\ Close(d)
  /\ UNCHANGED <<process, mapsPinned, dryrun, hookPinned, hook, mishap>>

-----------------------------------------------------------------------------
(* TXdpService.Run, secondary *)

OpenHook(d) ==
  /\ mode[d] = "secondary"
  /\ hookPinned
  /\ Goto(d, "attach", "hook")
  /\ todo' = [todo EXCEPT ![d] = config[d].index]
  /\ UNCHANGED <<config, mode, cancelled, kernel, starts, mishap>>

PutHook(d) ==
  /\ phase[d] = "hook"
  /\ todo[d] # <<>> /\ Head(todo[d]) \in HookSlots
  /\ todo' = [todo EXCEPT ![d] = Tail(@)]
  /\ hook' = [hook EXCEPT ![Head(todo[d])] = d]
  /\ UNCHANGED <<phase, config, mode, cancelled, iface, linkPinned, linkHolder, mapsPinned,
                 dryrun, hookPinned, starts, mishap>>

(* An index outside the map, or a program the kernel does not take, fails the *)
(* run; the indexes before it stay registered.                               *)
PutFails(d) ==
  /\ todo[d] # <<>>
  /\ Goto(d, "hook", "stop")
  /\ UNCHANGED <<process, kernel, mishap>>

HookDone(d) ==
  /\ todo[d] = <<>>
  /\ Goto(d, "hook", "run")
  /\ UNCHANGED <<process, kernel, mishap>>

-----------------------------------------------------------------------------
(* Stop closes the program and the maps, and the process exits, with which a   *)
(* descriptor goes that could not be closed.                                 *)
Stop(d) ==
  /\ Goto(d, "stop", "down")
  /\ KeepLink(linkPinned, linkHolder \ {d})
  /\ UNCHANGED <<process, mapsPinned, dryrun, hookPinned, hook, mishap>>

Advance(d) ==
  \/ Detect(d) \/ DetectFails(d) \/ Load(d) \/ LoadFails(d) \/ Seed(d) \/ SeedFails(d)
  \/ Attach(d) \/ AttachFails(d) \/ RemovePin(d) \/ Pin(d) \/ PinFails(d)
  \/ Wake(d) \/ Unpin(d) \/ UnpinFails(d) \/ CloseLink(d)
  \/ OpenHook(d) \/ PutHook(d) \/ PutFails(d) \/ HookDone(d)
  \/ Stop(d)

(* A signal, or a sibling goroutine of the errgroup that failed (the API     *)
(* could not listen, say).                                                   *)
Cancel(d) ==
  /\ phase[d] # "down"
  /\ ~cancelled[d]
  /\ cancelled' = [cancelled EXCEPT ![d] = TRUE]
  /\ UNCHANGED <<phase, config, mode, todo, kernel, starts, mishap>>

(* The process is killed: the kernel closes its descriptors. *)
Crash(d) ==
  /\ phase[d] # "down"
  /\ phase' = [phase EXCEPT ![d] = "down"]
  /\ KeepLink(linkPinned, linkHolder \ {d})
  /\ mishap' = (mishap \/ (d \in linkHolder /\ linkPinned))
  /\ cancelled' = [cancelled EXCEPT ![d] = FALSE]
  /\ UNCHANGED <<config, mode, todo, starts, mapsPinned, dryrun, hookPinned, hook>>

(* apiControlBpf through daemon d: before NewXdpService has returned it       *)
(* opens the pinned map, afterwards it uses the service's own descriptor,     *)
(* which Stop closes.                                                         *)
Control(d, on) ==
  /\ phase[d] \notin {"down"}
  /\ phase[d] \in {"detect", "load", "seed"} => mapsPinned
  /\ dryrun # on
  /\ dryrun' = on
  /\ UNCHANGED <<phase, process, iface, linkPinned, linkHolder, mapsPinned, hookPinned, hook, mishap>>

(* A dispatcher is attached by someone else, with its hook map pinned; when   *)
(* it is detached its pin may stay.                                           *)
DispatcherUp ==
  /\ iface = "none"
  /\ iface' = "dispatcher"
  /\ hookPinned' = TRUE
  /\ UNCHANGED <<phase, process, linkPinned, linkHolder, mapsPinned, dryrun, hook, mishap>>

DispatcherDown ==
  /\ iface = "dispatcher"
  /\ iface' = "none"
  /\ hookPinned' \in BOOLEAN
  /\ hook' = IF hookPinned' THEN hook ELSE [i \in HookSlots |-> "none"]
  /\ UNCHANGED <<phase, process, linkPinned, linkHolder, mapsPinned, dryrun, mishap>>

Next ==
  \/ \E d \in Daemons, g \in Configs : Start(d, g)
  \/ \E d \in Daemons : Advance(d) \/ Cancel(d) \/ Crash(d)
  \/ \E d \in Daemons, on \in BOOLEAN : Control(d, on)
  \/ DispatcherUp \/ DispatcherDown

(* A process that can move does.  Nobody has to start one or to stop it.     *)
Fairness == \A d \in Daemons : WF_vars(Advance(d))

Spec == Init /\ [][Next]_vars /\ Fairness

-----------------------------------------------------------------------------
(* Properties *)

(* A primary daemon that has finished its start-up holds the attached link    *)
(* and the pin refers to that link, whatever other daemons are started,       *)
(* stopped or killed: so killing it leaves the interface protected            *)
(* (README.md:53-56).  Attaching before the old pin is removed, and unpinning *)
(* before the link is closed, is what keeps a second daemon from removing the *)
(* pin of the first (xdp.go:212-239).                                         *)
RunningIsPinned ==
  \A d \in Daemons : phase[d] = "run" /\ mode[d] = "primary" =>
    iface = "link" /\ linkPinned /\ linkHolder = {d}

(* A link that no daemon holds is on the interface only if the daemon that     *)
(* attached it was killed between its pin and its unpin, or got an error from *)
(* l.Unpin (xdp.go:231-233): every other way out of a primary (a signal       *)
(* before, while or after it attaches, a pin or a close that fails, a failed  *)
(* sibling) detaches the program, and no pin is left of a link that is gone.  *)
LeftOnlyByMishap ==
  /\ iface = "link" /\ linkHolder = {} => mishap
  /\ linkPinned => iface = "link"

(* A start never takes the interface over: a link or a dispatcher that is     *)
(* attached stays attached through every step of a daemon that does not hold  *)
(* it.                                                                        *)
NoTakeover ==
  [][\A d \in Daemons : Advance(d) /\ d \notin linkHolder /\ iface # "none"
       => iface' = iface /\ linkPinned' = linkPinned]_vars

(* A daemon whose context is done comes to its end.                           *)
CancelledStops == \A d \in Daemons : cancelled[d] ~> phase[d] = "down"

(* "on a signal the XDP link is unpinned, the program detached" (README.md:   *)
(* 31-32): the program of a daemon that exited on a signal filters no traffic, *)
(* neither through a link nor through the hook map of an attached dispatcher. *)
SignalDetaches ==
  \A d \in Daemons : phase[d] = "down" /\ cancelled[d] =>
    /\ d \notin linkHolder
    /\ iface = "dispatcher" => \A i \in HookSlots : hook[i] # d

=============================================================================
