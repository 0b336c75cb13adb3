------------------------------- MODULE Entries -------------------------------
(***************************************************************************)
(* The entries of a request to add or delete: what apiMutate of             *)
(* pkg/plugins/firewall/api.go makes of them before it touches a map.  Of    *)
(* each, ParseEntry gives a prefix, passes over a blank line or a comment,  *)
(* or reports an error.                                                     *)
(***************************************************************************)
EXTENDS Naturals, Sequences, FiniteSets

(* Slip: ParseEntry's skip is not looked at. *)
ParsedAll(entries, prefixes) == entries

(* The prefixes among the entries, in the order of the request: the n-th is   *)
(* the entry that n prefixes stand up to.                                    *)
Parsed(entries, prefixes) ==
  LET kept    == {i \in DOMAIN entries : entries[i] \in prefixes}
      rank(i) == Cardinality({j \in kept : j <= i})
  IN  [n \in 1 .. Cardinality(kept) |-> entries[CHOOSE i \in kept : rank(i) = n]]

=============================================================================
