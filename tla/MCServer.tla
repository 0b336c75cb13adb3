------------------------------- MODULE MCServer -------------------------------
(***************************************************************************)
(* Small instances of Server for TLC: configurations that enable both        *)
(* plugins, one, or none, with sections that are disabled, of a name or a     *)
(* type that is not known, or under another type than usual.                 *)
(***************************************************************************)
EXTENDS Server

MCConfigurations ==
  { DefaultConfig,
    {Section("monitoring", "metrics", FALSE), Section("bpf", "firewall", TRUE)},
    {Section("bpf", "metrics", TRUE), Section("bpf", "monitor", TRUE),
     Section("bpf", "firewall", FALSE)},
    {Section("other", "firewall", TRUE)} }
=============================================================================
