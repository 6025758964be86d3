---------------------------------- MODULE Cidr ----------------------------------
(***************************************************************************)
(* ip_in_cidr and ip_allowed of syslog.rs, on addresses of two families.   *)
(* A word is the set of its bits that are 1, bit 0 the lowest: `&` is the  *)
(* intersection, `<<` moves every bit and drops those beyond the width.    *)
(***************************************************************************)
EXTENDS Integers

CONSTANT WIDTH   \* bits of an address by family: 32 and 128 in the code

Families == {"v4", "v6"}
ASSUME CidrAssumption == WIDTH \in [Families -> Nat \ {0}]

Word(family) == SUBSET (0 .. WIDTH[family] - 1)
Address == UNION {[family : {f}, bits : Word(f)] : f \in Families}

(* An entry of the list.  `parses`: what stands before the slash is an     *)
(* address.  A prefix that is no number counts as one above the width.     *)
NoPrefix == -1
Entry == [parses : BOOLEAN, net : Address, prefix : Nat \cup {NoPrefix}]

Width(entry) == WIDTH[entry.net.family]
Prefix(entry) == IF entry.prefix = NoPrefix THEN Width(entry) ELSE entry.prefix

(* `<<` in a release build takes the distance modulo the width.            *)
ShiftLeft(word, n, w) == {bit + (n % w) : bit \in word} \cap (0 .. w - 1)
Mask(entry) ==
  ShiftLeft(0 .. Width(entry) - 1, Width(entry) - Prefix(entry), Width(entry))

BugCoversAll(entry) == FALSE
CoversAll(entry) == Prefix(entry) = 0

IpInCidr(ip, entry) ==
  /\ entry.parses /\ Prefix(entry) <= Width(entry)
  /\ ip.family = entry.net.family
  /\ CoversAll(entry) \/ ip.bits \cap Mask(entry) = entry.net.bits \cap Mask(entry)

(* An empty list lets nobody in.                                           *)
IpAllowed(ip, list) == \E entry \in list : IpInCidr(ip, entry)

-----------------------------------------------------------------------------

(* What an entry means: the addresses that agree with its network in as    *)
(* many leading bits as its prefix says.                                   *)
Covers(entry, ip) ==
  /\ entry.parses /\ Prefix(entry) \in 0 .. Width(entry)
  /\ ip.family = entry.net.family
  /\ \A bit \in Width(entry) - Prefix(entry) .. Width(entry) - 1 :
        bit \in ip.bits <=> bit \in entry.net.bits
=============================================================================
