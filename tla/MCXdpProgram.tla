---------------------------- MODULE MCXdpProgram ----------------------------
(***************************************************************************)
(* Small instances of XdpProgram for TLC.  Prefix "net" covers both         *)
(* sources, prefix "host" only one of them, so that an allowlist entry can  *)
(* exempt one host of a blocked network and the reverse.                    *)
(***************************************************************************)
EXTENDS XdpProgram

MCPrefixes == {"net", "host"}
MCPrefixesOf == [f \in Families |-> MCPrefixes]
MCSources == {"a", "b"}
MCCovered == [net |-> {"a", "b"}, host |-> {"a"}]

Frame(len, tags, l3, src) == [len |-> len, tags |-> tags, l3 |-> l3, src |-> src]

(* Every outcome of the parse: whole IPv4 and IPv6 frames, tagged, double    *)
(* tagged, one byte short, and a frame that is not IP.                       *)
VerdictFrames ==
  { Frame(34, 0, "v4", "a"), Frame(38, 1, "v4", "b"), Frame(58, 1, "v6", "a"),
    Frame(38, 2, "v4", "a"), Frame(57, 1, "v6", "a"), Frame(14, 0, "other", "a") }

QuietOptions == [dryrun : BOOLEAN, metrics : {FALSE}, perf : {FALSE}]
=============================================================================
