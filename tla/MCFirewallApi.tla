---------------------------- MODULE MCFirewallApi ----------------------------
(***************************************************************************)
(* Small instances of FirewallApi for TLC.  IPv4 key 2 covers key 1 (a /16   *)
(* and a host of it, say), so that the walk visits 1 first; key 3 is another *)
(* IPv4 prefix and key 4 an IPv6 one.                                       *)
(***************************************************************************)
EXTENDS FirewallApi, TLC

MCCovers == [k \in Keys |-> IF k = 1 THEN {2} \cap Keys ELSE {}]

ClientSymmetry == Permutations(Clients)

R(op, kind, entries, dryrun) ==
  [op |-> op, kind |-> kind, entries |-> entries, dryrun |-> dryrun]

(* One set of both families, walked while its entries come and go; what is   *)
(* added in one request fills a trie.                                        *)
WalkRequests ==
  { R("list", "blocklist", <<>>, FALSE), R("flush", "blocklist", <<>>, FALSE) }
  \cup { R(op, "blocklist", <<1>>, FALSE) : op \in {"add", "del"} }
  \cup { R("add", "blocklist", <<2, Skip, 4, 3>>, FALSE) }

(* Every kind of call: lists, flushes and mutations of several entries, of    *)
(* one entry twice, with blank and bad entries, of no entry at all, and in    *)
(* dryrun.                                                                   *)
CallRequests ==
  { R("list", "blocklist", <<>>, FALSE), R("flush", "blocklist", <<>>, FALSE),
    R("add", "blocklist", <<1>>, FALSE), R("add", "blocklist", <<2, Skip, 3>>, FALSE),
    R("del", "blocklist", <<1, 1>>, FALSE), R("del", "blocklist", <<>>, FALSE),
    R("add", "blocklist", <<1, Bad>>, FALSE), R("add", "blocklist", <<1, 2>>, TRUE) }

(* Flushes with and without dryrun set. *)
FlushRequests ==
  { R("flush", "blocklist", <<>>, FALSE), R("flush", "blocklist", <<>>, TRUE),
    R("add", "blocklist", <<1, 2>>, FALSE), R("del", "blocklist", <<1>>, FALSE) }
=============================================================================
