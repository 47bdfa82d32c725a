------------------------------ MODULE VrfIndex ------------------------------
(***************************************************************************)
(* The VrfIndex of nbtools/ipam.py: two lists that are sorted when they    *)
(* are asked about, the keys they were last sorted by, which any addition  *)
(* forgets, and a set of the networks.  Additions and questions may come   *)
(* in any order.                                                           *)
(*                                                                         *)
(* The answer of covering_prefixlens(), a list without duplicates that     *)
(* starts with the longest mask, is given as a set.                        *)
(***************************************************************************)
EXTENDS Networks, Sequences, Functions

CONSTANTS
    None,           \* no keys
    MaxRecords      \* bound: prefixes and addresses added

VARIABLES
    networks,       \* self._networks
    addresses,      \* self._addresses
    network_set,    \* self._network_set
    network_keys,   \* self._network_keys, or None
    address_keys,   \* self._address_keys, or None
    answer          \* the last question, and what was answered

vars == <<networks, addresses, network_set, network_keys, address_keys, answer>>

-----------------------------------------------------------------------------
\* Keys are compared as Python compares tuples.

NetworkKey(net) == <<net.version, net.address, net.prefixlen>>
AddressKey(addr) == <<addr.version, addr.value>>

AddressBefore(k, l) == k[1] < l[1] \/ (k[1] = l[1] /\ k[2] < l[2])
NetworkBefore(k, l) ==
    AddressBefore(k, l) \/ (k[1] = l[1] /\ k[2] = l[2] /\ k[3] < l[3])

AscendingNetworks(keys) ==
    \A i, j \in DOMAIN keys : i < j => ~NetworkBefore(keys[j], keys[i])
AscendingAddresses(keys) ==
    \A i, j \in DOMAIN keys : i < j => ~AddressBefore(keys[j], keys[i])

Init ==
    /\ networks = << >>
    /\ addresses = << >>
    /\ network_set = {}
    /\ network_keys = None
    /\ address_keys = None
    /\ answer = << >>

-----------------------------------------------------------------------------
\* Additions.

RoomForOne == Len(networks) + Len(addresses) < MaxRecords

\* Mutant: the keys are not forgotten.
AddPrefixKeepsKeys(net) ==
    /\ RoomForOne
    /\ networks' = Append(networks, net)
    /\ network_set' = network_set \cup {net}
    /\ answer' = << >>
    /\ UNCHANGED <<addresses, network_keys, address_keys>>

add_prefix(net) ==
    /\ RoomForOne
    /\ networks' = Append(networks, net)
    /\ network_set' = network_set \cup {net}
    /\ network_keys' = None
    /\ answer' = << >>
    /\ UNCHANGED <<addresses, address_keys>>

add_address(addr) ==
    /\ RoomForOne
    /\ addresses' = Append(addresses, addr)
    /\ address_keys' = None
    /\ answer' = << >>
    /\ UNCHANGED <<networks, network_set, network_keys>>

-----------------------------------------------------------------------------
\* Questions.

\* list.sort() puts the items in another order.
Orders(list) == Bijection(DOMAIN list, DOMAIN list)

SortNetworks ==
    IF network_keys # None THEN UNCHANGED <<networks, network_keys>>
    ELSE \E order \in Orders(networks) :
             /\ networks' = [i \in DOMAIN networks |-> networks[order[i]]]
             /\ network_keys' = [i \in DOMAIN networks |-> NetworkKey(networks[order[i]])]
             /\ AscendingNetworks(network_keys')

SortAddresses ==
    IF address_keys # None THEN UNCHANGED <<addresses, address_keys>>
    ELSE \E order \in Orders(addresses) :
             /\ addresses' = [i \in DOMAIN addresses |-> addresses[order[i]]]
             /\ address_keys' = [i \in DOMAIN addresses |-> AddressKey(addresses[order[i]])]
             /\ AscendingAddresses(address_keys')

_sort == SortNetworks /\ SortAddresses

\* list[first:], first being bisect_left(keys, key): in a sorted list of keys,
\* everything before first is before the key.
NetworksFrom(list, keys, key) ==
    {i \in DOMAIN list : ~(i \in DOMAIN keys /\ NetworkBefore(keys[i], key))}
AddressesFrom(keys, key) == {i \in DOMAIN keys : ~AddressBefore(keys[i], key)}

\* Where the loop of has_child_prefix() breaks off.
PastTheEnd(other, net) ==
    \/ other.version # net.version
    \/ other.address > Broadcast(net)

\* Mutant: only the first one from there on is looked at.
FirstHasChildPrefix(list, keys, net) ==
    LET from == NetworksFrom(list, keys, <<net.version, net.address, 0>>)
    IN  \E i \in from :
            /\ list[i].prefixlen > net.prefixlen
            /\ \A j \in from : i <= j
            /\ ~PastTheEnd(list[i], net)

\* The loop of has_child_prefix() and the end of has_address_in().
HasChildPrefix(list, keys, net) ==
    LET from == NetworksFrom(list, keys, <<net.version, net.address, 0>>)
    IN  \E i \in from :
            /\ list[i].prefixlen > net.prefixlen
            /\ \A j \in from : j <= i => ~PastTheEnd(list[j], net)

HasAddressIn(keys, net) ==
    LET from == AddressesFrom(keys, <<net.version, net.address>>)
    IN  \E first \in from :
            /\ \A j \in from : first <= j
            /\ keys[first][1] = net.version
            /\ keys[first][2] <= Broadcast(net)

CoveringPrefixlens(set, addr, down_to) ==
    {p \in down_to .. HOST_PREFIXLEN[addr.version] : Supernet(addr, p) \in set}

has_child_prefix(net) ==
    /\ _sort
    /\ answer' = <<"has_child_prefix", net, HasChildPrefix(networks', network_keys', net)>>
    /\ UNCHANGED network_set

has_address_in(net) ==
    /\ _sort
    /\ answer' = <<"has_address_in", net, HasAddressIn(address_keys', net)>>
    /\ UNCHANGED network_set

covering_prefixlens(addr, down_to) ==
    /\ answer' = <<"covering_prefixlens", <<addr, down_to>>,
                   CoveringPrefixlens(network_set, addr, down_to)>>
    /\ UNCHANGED <<networks, addresses, network_set, network_keys, address_keys>>

Next ==
    \/ \E net \in AllNetworks :
           add_prefix(net) \/ has_child_prefix(net) \/ has_address_in(net)
    \/ \E addr \in AllAddresses :
           \/ add_address(addr)
           \/ \E down_to \in Masks(addr.version) : covering_prefixlens(addr, down_to)

Spec == Init /\ [][Next]_vars

-----------------------------------------------------------------------------
\* Properties.

NetworksTypeOK ==
    /\ networks \in Seq(AllNetworks)
    /\ network_set \subseteq AllNetworks

AddressesTypeOK == addresses \in Seq(AllAddresses)

\* Keys that are kept are the keys of the list as it is, in order: a binary
\* search in them is a binary search in the list.
NetworkKeysFresh ==
    network_keys # None =>
        /\ network_keys = [i \in DOMAIN networks |-> NetworkKey(networks[i])]
        /\ AscendingNetworks(network_keys)
AddressKeysFresh ==
    address_keys # None =>
        /\ address_keys = [i \in DOMAIN addresses |-> AddressKey(addresses[i])]
        /\ AscendingAddresses(address_keys)

\* The class comment: "Networks are also kept in a set, for the other direction".
\* The list and the set hold the same networks.
SetMatchesList == network_set = Range(networks)

Caches ==
    /\ NetworksTypeOK
    /\ AddressesTypeOK
    /\ NetworkKeysFresh
    /\ AddressKeysFresh
    /\ SetMatchesList

\* Whatever the order of additions and questions, every answer is the one that
\* a scan of everything added so far would give.
Promise == INSTANCE Containment WITH prefixes <- Range(networks), hosts <- Range(addresses)
AnswersAreTrue == Promise!Spec
=============================================================================
