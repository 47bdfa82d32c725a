------------------------------ MODULE Networks ------------------------------
(***************************************************************************)
(* What Python's ipaddress (external) knows of networks and addresses: a   *)
(* network is a family, its first address and a mask length, an address is *)
(* a family and a number.                                                  *)
(***************************************************************************)
EXTENDS Integers

CONSTANTS
    HOST_PREFIXLEN,     \* HOST_PREFIXLEN[version]: the longest mask there is
    AllNetworks,        \* the networks somebody may record
    AllAddresses        \* the addresses somebody may record

Versions == DOMAIN HOST_PREFIXLEN

\* How many addresses a mask of this length leaves.
Size(version, prefixlen) == 2 ^ (HOST_PREFIXLEN[version] - prefixlen)

Broadcast(net) == net.address + Size(net.version, net.prefixlen) - 1

Covers(net, addr) ==
    /\ net.version = addr.version
    /\ net.address <= addr.value
    /\ addr.value <= Broadcast(net)

\* One network is a smaller part of the other: every address of it is also
\* an address of the other, which has more.
Inside(small, net) ==
    /\ small.version = net.version
    /\ net.address <= small.address
    /\ Broadcast(small) <= Broadcast(net)
    /\ small.prefixlen > net.prefixlen

\* ip_network(f'{address}/{prefixlen}', strict=False)
Supernet(addr, prefixlen) ==
    [version |-> addr.version,
     address |-> addr.value - (addr.value % Size(addr.version, prefixlen)),
     prefixlen |-> prefixlen]

Masks(version) == 0 .. HOST_PREFIXLEN[version]

ASSUME NetworksAssumption ==
    /\ Versions \subseteq Int
    /\ \A v \in Versions : HOST_PREFIXLEN[v] \in Nat
    /\ \A v \in Versions : \A p \in Masks(v) : Size(v, p) \in Nat \ {0}
    /\ \A net \in AllNetworks :
           /\ net = [version |-> net.version, address |-> net.address,
                     prefixlen |-> net.prefixlen]
           /\ net.version \in Versions
           /\ net.address \in Nat
           /\ net.prefixlen \in Masks(net.version)
    /\ \A addr \in AllAddresses :
           /\ addr = [version |-> addr.version, value |-> addr.value]
           /\ addr.version \in Versions
           /\ addr.value \in Nat

\* A network starts on a boundary of its size.  So two networks of a family are
\* apart, or the one with the longer mask is part of the other; and masking an
\* address of a network gives that network.
ASSUME BoundaryAssumption ==
    /\ \A net, other \in AllNetworks :
           /\ other.version = net.version
           /\ other.prefixlen > net.prefixlen
           /\ net.address <= other.address
           /\ other.address <= Broadcast(net)
           => Broadcast(other) <= Broadcast(net)
    /\ \A net \in AllNetworks, addr \in AllAddresses :
           Covers(net, addr) => Supernet(addr, net.prefixlen) = net
=============================================================================
