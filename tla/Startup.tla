------------------------------- MODULE Startup -------------------------------
(***************************************************************************)
(* What every xdpfw process does before its command runs (cmd/root.go):      *)
(* find the configuration, make the logger, make the plugins that the        *)
(* configuration declares and enables, and make the logger once more when    *)
(* cobra has parsed the flags (controller.go, config.go, log.go).  The       *)
(* module Server goes on from there.                                        *)
(*                                                                          *)
(* A configuration is the set of its plugin sections; a plugin has at most   *)
(* one, and one that cannot be read counts as not enabled.                   *)
(***************************************************************************)
EXTENDS Naturals, FiniteSets

CONSTANT Configurations  \* the configurations a file may hold

Types == {"monitoring", "bpf"}
PluginNames == {"metrics", "firewall"}

Section(type, name, enabled) == [type |-> type, name |-> name, enabled |-> enabled]

(* config.DefaultConfig *)
DefaultConfig == {Section("monitoring", "metrics", TRUE), Section("bpf", "firewall", TRUE)}

ASSUME ConfigurationsAssumption ==
  \A conf \in Configurations : \A s, t \in conf :
    s.enabled \in BOOLEAN /\ (s.name = t.name => s = t)

(* What a path may lead to: no file, one that cannot be read or parsed, or a  *)
(* configuration.                                                            *)
File(state, sections) == [state |-> state, sections |-> sections]
Files == {File("absent", {}), File("broken", {})} \cup {File("good", c) : c \in Configurations}

VARIABLES
  stage,    \* "config", "logger", "plugins", "prerun", "ready" or "failed"
  todo,     \* the sections CreatePlugins has still to visit
  plugins,  \* the names of the plugins made
  wanted,   \* history: the plugins the configuration that applies asks for
  flag,     \* the -L flag of the command line
  logger,   \* where the lines of the logger go
  sink      \* the file of the one lumberjack sink that can be registered

logs == <<flag, logger, sink>>
startup == <<stage, todo, plugins, wanted, logs>>

(* A log flag: the file peekFlag finds, the first one, and the file cobra     *)
(* finds, the last one, which also sees a name glued to the flag.             *)
LogFlag(early, late) == [early |-> early, late |-> late]
LogFlags == {LogFlag("", ""), LogFlag("a", "a"), LogFlag("", "a"), LogFlag("a", "b")}

StartupTypeOK ==
  /\ stage \in {"config", "logger", "plugins", "prerun", "ready", "failed"}
  /\ \A s \in todo : s.enabled \in BOOLEAN
  /\ plugins \subseteq PluginNames /\ wanted \subseteq PluginNames
  /\ flag \in LogFlags /\ logger \in {"none", "console", "a", "b"} /\ sink \in {"", "a", "b"}

StartupInit ==
  /\ stage = "config" /\ todo = {} /\ plugins = {} /\ wanted = {}
  /\ flag \in LogFlags /\ logger = "none" /\ sink = ""

-----------------------------------------------------------------------------
(* The -C argument: none, a path apart from it ("-C path", "-C=path"), or a   *)
(* path glued to it ("-Cpath").  peekFlag knows the first two forms only;     *)
(* cobra, which runs later, would take the third as well.                    *)
Arguments == {"none", "apart", "glued"}

PeekFlag(argument) == argument = "apart"

(* Slip: the default configuration replaces a file that cannot be used. *)
NewConfigAnyway(argument, file, default) ==
  IF PeekFlag(argument) /\ file.state = "good" THEN file
  ELSE IF default.state = "good" THEN default
  ELSE File("good", DefaultConfig)

NewConfig(argument, file, default) ==
  IF PeekFlag(argument) THEN file
  ELSE IF default.state = "absent" THEN File("good", DefaultConfig)
  ELSE default

(* The plugins a configuration asks for. *)
Asked(sections) ==
  {s.name : s \in {t \in sections : t.type \in Types /\ t.name \in PluginNames /\ t.enabled}}

(* What applies: the file that was named, wherever peekFlag finds the name;   *)
(* without one, the default file, and without that the embedded one.         *)
Applies(argument, file, default) ==
  CASE argument = "apart" -> Asked(file.sections)
    [] argument # "apart" /\ default.state = "absent" -> PluginNames
    [] OTHER -> Asked(default.sections)

LoadConfig(argument, file, default) ==
  /\ stage = "config"
  /\ LET found == NewConfig(argument, file, default)
     IN  /\ stage' = IF found.state = "good" THEN "logger" ELSE "failed"
         /\ todo' = IF found.state = "good" THEN found.sections ELSE {}
  /\ wanted' = Applies(argument, file, default)
  /\ UNCHANGED <<plugins, logs>>

(* A file is reached through a sink that is registered once in the process:  *)
(* a later logger with another file writes to the first.                     *)
Log(path) ==
  /\ sink' = IF sink = "" THEN path ELSE sink
  /\ logger' = IF path = "" THEN "console" ELSE sink'

(* CreateLogger, first for the start-up itself and again for the command,    *)
(* whose -L defaults to what peekFlag found.  Building it may fail.           *)
CreateLogger(from, to, path) ==
  /\ stage = from
  /\ \/ stage' = to /\ Log(path)
     \/ stage' = "failed" /\ UNCHANGED <<logger, sink>>
  /\ UNCHANGED <<todo, plugins, wanted, flag>>

-----------------------------------------------------------------------------
(* CreatePlugins: the types in their order, the sections of a type in any.    *)

First(s) == s.type = "bpf" => \A t \in todo : t.type # "monitoring"

(* A plugin that is disabled or unknown is logged and passed over. *)
NewPlugin(s) ==
  /\ stage = "plugins" /\ s \in todo /\ s.type \in Types /\ First(s)
  /\ plugins' = IF s.enabled /\ s.name \in PluginNames THEN plugins \cup {s.name} ELSE plugins
  /\ todo' = todo \ {s}
  /\ UNCHANGED <<stage, wanted, logs>>

(* Sections of other types are never looked at. *)
PluginsMade ==
  /\ stage = "plugins"
  /\ \A s \in todo : s.type \notin Types
  /\ stage' = "prerun" /\ todo' = {}
  /\ UNCHANGED <<plugins, wanted, logs>>

StartupNext ==
  \/ \E argument \in Arguments, file \in Files, default \in Files :
       LoadConfig(argument, file, default)
  \/ CreateLogger("logger", "plugins", flag.early)
  \/ \E s \in todo : NewPlugin(s)
  \/ PluginsMade
  \/ CreateLogger("prerun", "ready", flag.late)

(* A command runs with exactly the plugins that the configuration which       *)
(* applies enables, in whatever order its sections are visited and whichever   *)
(* of them cannot be made; a file that peekFlag finds named and that cannot be  *)
(* used is never replaced by another.  Its log goes to a file that -L names,     *)
(* whatever its form, or to the console when none is named, although a sink is   *)
(* registered but once (config.go:149-180, controller.go:115-165, log.go:       *)
(* 347-366).                                                                   *)
RunsAsConfigured ==
  stage = "ready" =>
    /\ plugins = wanted
    /\ logger \in IF flag.late = "" THEN {"console"} ELSE {flag.early, flag.late} \ {""}

=============================================================================
