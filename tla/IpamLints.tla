----------------------------- MODULE IpamLints -----------------------------
(***************************************************************************)
(* nblint empty-prefixes, unparented-ips, duplicate-prefixes and           *)
(* duplicate-ips: what they make of the tables they read.                  *)
(*                                                                         *)
(* A table is a function from the ids of records to the records; prefixes  *)
(* are [net, vrf, status, role], addresses [addr, vrf, on].  A prefix that *)
(* was recorded off its boundary, and the mask of an address, make no      *)
(* difference: network_of() and address_of() drop them.  An IpamIndex has  *)
(* a VrfIndex for each VRF, and what that answers is proved to be what a   *)
(* look at everything in it would give; it is taken at that here.          *)
(***************************************************************************)
EXTENDS Networks, FiniteSets

CONSTANTS
    DEFAULT_MIN_PREFIXLEN,      \* by family
    Reserved, ThirdParty,       \* the status and the role skipped by default
    All                         \* the word for every status, or every role

-----------------------------------------------------------------------------
\* IpamIndex.

HasChildPrefix(prefixes, prefix) ==
    \E p \in DOMAIN prefixes :
        prefixes[p].vrf = prefix.vrf /\ Inside(prefixes[p].net, prefix.net)
HasAddressIn(addresses, prefix) ==
    \E a \in DOMAIN addresses :
        addresses[a].vrf = prefix.vrf /\ Covers(prefix.net, addresses[a].addr)
CoveringPrefixlens(prefixes, address, downTo) ==
    {prefixes[p].net.prefixlen : p \in
        {p \in DOMAIN prefixes :
            /\ prefixes[p].vrf = address.vrf
            /\ Covers(prefixes[p].net, address.addr)
            /\ prefixes[p].net.prefixlen >= downTo}}

\* Mutant: a prefix with smaller prefixes in it is empty.
HoldsNoAddress(prefixes, addresses, prefix) == ~HasAddressIn(addresses, prefix)

IsEmptyPrefix(prefixes, addresses, prefix) ==
    ~HasChildPrefix(prefixes, prefix) /\ ~HasAddressIn(addresses, prefix)

-----------------------------------------------------------------------------
\* The lints.  words are those of --status and --role; the role words with a "!"
\* are in words.out.

StatusAllows(words, status) ==
    IF words = {} THEN status # Reserved ELSE words \cap {All, status} # {}

RoleAllows(words, role) ==
    IF words.in = {} /\ words.out = {} THEN role # ThirdParty
    ELSE \/ All \in words.in
         \/ (words.in = {} \/ role \in words.in) /\ role \notin words.out

OfFamily(version, family) == family \in {All, version}

EmptyPrefixes(prefixes, addresses, cmd) ==
    {p \in DOMAIN prefixes :
        /\ OfFamily(prefixes[p].net.version, cmd.family)
        /\ StatusAllows(cmd.status, prefixes[p].status)
        /\ RoleAllows(cmd.role, prefixes[p].role)
        /\ IsEmptyPrefix(prefixes, addresses, prefixes[p])}

UnparentedIps(prefixes, addresses, cmd) ==
    {a \in DOMAIN addresses :
        LET version == addresses[a].addr.version
        IN  /\ OfFamily(version, cmd.family)
            /\ CoveringPrefixlens(prefixes, addresses[a],
                                  DEFAULT_MIN_PREFIXLEN[version]) = {}}

\* find_in_multiple_vrfs(), for the records with these values and VRFs.
InMultipleVrfs(pairs) ==
    {pair[1] : pair \in {q \in pairs : \E r \in pairs : r[1] = q[1] /\ r[2] # q[2]}}

DuplicatePrefixes(prefixes, cmd) ==
    InMultipleVrfs({<<prefixes[p].net, prefixes[p].vrf>> :
        p \in {p \in DOMAIN prefixes : OfFamily(prefixes[p].net.version, cmd.family)}})
DuplicateIps(addresses, cmd) ==
    InMultipleVrfs({<<addresses[a].addr, addresses[a].vrf>> :
        a \in {a \in DOMAIN addresses : OfFamily(addresses[a].addr.version, cmd.family)}})
=============================================================================
