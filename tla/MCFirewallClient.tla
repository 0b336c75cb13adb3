--------------------------- MODULE MCFirewallClient ---------------------------
(***************************************************************************)
(* A small instance of FirewallClient for TLC: one list with room for one    *)
(* IPv4 entry and two IPv4 prefixes that take turns in it.                   *)
(***************************************************************************)
EXTENDS FirewallClient

MCCovers == [k \in Keys |-> {}]

Command(use, args) == [use |-> use, allow |-> FALSE, args |-> args, dryrun |-> FALSE]

MCCommands ==
  { Command("add", <<1>>), Command("del", <<1>>), Command("add", <<2>>),
    Command("list", <<>>), Command("flush", <<>>),
    [Command("add", <<1>>) EXCEPT !.dryrun = TRUE] }

MCRequests == {RequestOf(cmd) : cmd \in MCCommands}
=============================================================================
