----------------------------- MODULE ParseEntry -----------------------------
(***************************************************************************)
(* The entries of a request: ParseEntry of pkg/plugins/firewall/misc.go,    *)
(* which turns the text of an address or a prefix into the prefix stored in *)
(* a map, or rejects it.                                                    *)
(*                                                                          *)
(* The text is modelled by what it spells: an address of one of the two     *)
(* families with a prefix length or without one, a blank line or a comment, *)
(* or something that is neither.  Address widths and limits are parameters, *)
(* with the IPv4 addresses embedded in the IPv6 space (::ffff:0:0/96) as     *)
(* they are in the protocol.                                                *)
(***************************************************************************)
EXTENDS Integers, FiniteSets

CONSTANTS
  W4, W6,                    \* address widths in bits (32 and 128)
  MinPrefixV4, MinPrefixV6,  \* the broadest prefix accepted (16 and 64)
  MappedTop                  \* the top W6 - W4 bits of an IPv4-mapped address

MappedBits == W6 - W4

ASSUME WidthAssumption ==
  /\ W4 \in Nat /\ W6 \in Nat /\ W4 < W6
  /\ MinPrefixV4 \in 0 .. W4 /\ MinPrefixV6 \in 0 .. W6
  /\ MappedTop \in 0 .. (2 ^ MappedBits - 1)

(* ::ffff:0:0/96 has an odd top, so that no address that ends in more than W4 *)
(* zero bits is IPv4-mapped.                                                 *)
ASSUME MappedAssumption == MappedTop % 2 = 1

Width == [v4 |-> W4, v6 |-> W6]
MinPrefix == [v4 |-> MinPrefixV4, v6 |-> MinPrefixV6]

Bare == -1  \* the length of an entry written without one

(* What a line can spell, and what a prefix is. *)
Lines(f) == [family : {f}, addr : 0 .. (2 ^ Width[f] - 1), bits : {Bare} \cup 0 .. Width[f]]
Blank == [family |-> "blank", addr |-> 0, bits |-> 0]
Junk == [family |-> "junk", addr |-> 0, bits |-> 0]
Entries == Lines("v4") \cup Lines("v6") \cup {Blank, Junk}

Prefix(f, a, b) == [family |-> f, addr |-> a, bits |-> b]

VARIABLES
  entry,    \* the line being parsed
  outcome,  \* "new", then "prefix", "skip" or "error"
  prefix    \* the prefix ParseEntry returned

vars == <<entry, outcome, prefix>>

NoPrefix == Prefix("none", 0, -1)

-----------------------------------------------------------------------------
(* The steps of ParseEntry *)

(* ParsePrefix, or ParseAddr with the full length. *)
Read(e) == Prefix(e.family, e.addr, IF e.bits = Bare THEN Width[e.family] ELSE e.bits)

Is4In6(p) == p.family = "v6" /\ p.addr \div 2 ^ W4 = MappedTop

(* Slip: the length loses one bit too many. *)
UnmapOneOff(p) ==
  IF Is4In6(p)
  THEN Prefix("v4", p.addr % 2 ^ W4, p.bits - MappedBits - 1)
  ELSE p

(* An IPv4-mapped address becomes the IPv4 address it embeds, and its length *)
(* loses the bits of the mapping.  The length may become negative.           *)
Unmap(p) ==
  IF Is4In6(p)
  THEN Prefix("v4", p.addr % 2 ^ W4, p.bits - MappedBits)
  ELSE p

(* Slip: the host bits are stored. *)
Unmasked(p) == IF p.bits < 0 THEN NoPrefix ELSE p

(* Clears the host bits; a prefix with a negative length is invalid and      *)
(* becomes the zero Prefix, which has no address and length -1.              *)
Masked(p) ==
  IF p.bits < 0 THEN NoPrefix
  ELSE LET host == 2 ^ (Width[p.family] - p.bits)
       IN  [p EXCEPT !.addr = (@ \div host) * host]

Normalised(e) == Masked(Unmap(Read(e)))

(* Slips: no lower limit; a lower limit off by one. *)
InRangeUnlimited(p) == IF p.family = "v4" THEN p.bits <= W4 ELSE p.bits <= W6
InRangeOffByOne(p) ==
  IF p.family = "v4" THEN p.bits \in (MinPrefixV4 + 1) .. W4 ELSE p.bits \in MinPrefixV6 .. W6

(* Any prefix that is not IPv4, the zero Prefix too, is held against the     *)
(* IPv6 limits.                                                              *)
InRange(p) ==
  IF p.family = "v4" THEN p.bits \in MinPrefixV4 .. W4 ELSE p.bits \in MinPrefixV6 .. W6

Parse(e) ==
  IF e = Blank THEN [outcome |-> "skip", prefix |-> NoPrefix]
  ELSE IF e = Junk \/ ~InRange(Normalised(e)) THEN [outcome |-> "error", prefix |-> NoPrefix]
  ELSE [outcome |-> "prefix", prefix |-> Normalised(e)]

Init == entry \in Entries /\ outcome = "new" /\ prefix = NoPrefix

ParseLine ==
  /\ outcome = "new"
  /\ outcome' = Parse(entry).outcome
  /\ prefix' = Parse(entry).prefix
  /\ UNCHANGED entry

Next == ParseLine

Spec == Init /\ [][Next]_vars

-----------------------------------------------------------------------------
(* Reference: the addresses a prefix stands for, all taken in IPv6 space.    *)

Address(f, a) == IF f = "v4" THEN MappedTop * 2 ^ W4 + a ELSE a

Denoted(p) ==
  LET host == 2 ^ (Width[p.family] - p.bits)
  IN  {Address(p.family, (p.addr \div host) * host + i) : i \in 0 .. (host - 1)}

IsLine(e) == e \notin {Blank, Junk}
Meaning(e) == Denoted(Read(e))
Accepted(e) == Parse(e).outcome = "prefix"

TypeOK ==
  /\ entry \in Entries
  /\ outcome \in {"new", "prefix", "skip", "error"}
  /\ prefix = NoPrefix \/ (prefix.family \in {"v4", "v6"} /\ prefix \in Lines(prefix.family))
  /\ prefix # NoPrefix <=> outcome = "prefix"

(* What is stored is what was asked for: masking and unmapping change the    *)
(* spelling of a prefix and never the addresses it covers, and a prefix      *)
(* broader than the policy allows is not stored in any spelling              *)
(* (misc.go:45-64).                                                          *)
StoredIsMeant ==
  outcome = "prefix" =>
    /\ Denoted(prefix) = Meaning(entry)
    /\ Cardinality(Meaning(entry))
         <= 2 ^ (Width[prefix.family] - MinPrefix[prefix.family])

(* One key per prefix: two accepted lines that cover the same addresses are  *)
(* stored under the same key, so that what was added in one spelling can be  *)
(* deleted in any other, and the line a list prints parses back to the key   *)
(* it came from (api.go:108-116).                                            *)
OneKeyPerPrefix ==
  outcome = "prefix" =>
    /\ Parse(prefix).prefix = prefix
    /\ \A e \in Entries : IsLine(e) /\ Accepted(e) /\ Meaning(e) = Meaning(entry)
                            => Parse(e).prefix = prefix

(* A line is rejected for its breadth only: an IPv4 line, and an IPv6 line   *)
(* that is not IPv4-mapped, only if it is broader than its family's policy;  *)
(* one whose address is IPv4-mapped only if it is broader than the IPv4      *)
(* policy allows for the addresses it embeds (misc.go:46-64).                *)
PolicyAccepts ==
  outcome = "error" /\ IsLine(entry) =>
    IF Is4In6(Read(entry))
    THEN Read(entry).bits < MappedBits + MinPrefixV4
    ELSE Read(entry).bits < MinPrefix[entry.family]

=============================================================================
