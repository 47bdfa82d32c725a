-------------------------- MODULE VrfIndex_proofs --------------------------
(***************************************************************************)
(* Proofs about VrfIndex, for any networks, addresses and order of calls:  *)
(* the caches are never stale, and the index implements Containment.       *)
(***************************************************************************)
EXTENDS VrfIndex, FunctionTheorems, WellFoundedInduction, TLAPS

-----------------------------------------------------------------------------
\* The networks and addresses.

LEMMA NetworkFields ==
    ASSUME NEW net \in AllNetworks
    PROVE  /\ net.version \in Int /\ net.address \in Int /\ net.prefixlen \in Nat
           /\ net.prefixlen <= HOST_PREFIXLEN[net.version]
           /\ HOST_PREFIXLEN[net.version] \in Nat
           /\ net.version \in Versions
           /\ Broadcast(net) \in Int
           /\ net.address <= Broadcast(net)
<1>1. /\ net.version \in Versions /\ net.address \in Nat /\ net.prefixlen \in Masks(net.version)
      /\ HOST_PREFIXLEN[net.version] \in Nat
      /\ net.version \in Int
  BY NetworksAssumption
<1>2. Size(net.version, net.prefixlen) \in Nat \ {0}
  BY <1>1, NetworksAssumption
<1> QED
  BY <1>1, <1>2 DEF Masks, Broadcast

LEMMA AddressFields ==
    ASSUME NEW addr \in AllAddresses
    PROVE  addr.version \in Int /\ addr.value \in Int /\ addr.version \in Versions
BY NetworksAssumption

-----------------------------------------------------------------------------
\* The searches find what a scan of the whole list would.

\* The run that has_child_prefix() looks at holds a network if and only if some
\* network of the list is inside.
LEMMA ChildSearch ==
    ASSUME NEW list \in Seq(AllNetworks), NEW keys,
           keys = [i \in DOMAIN list |-> NetworkKey(list[i])],
           AscendingNetworks(keys),
           NEW net \in AllNetworks
    PROVE  HasChildPrefix(list, keys, net) <=> \E other \in Range(list) : Inside(other, net)
<1> DEFINE from == NetworksFrom(list, keys, <<net.version, net.address, 0>>)
<1>1. \A i \in DOMAIN list : list[i] \in AllNetworks /\ i \in Int
  OBVIOUS
<1>2. \A i \in DOMAIN list :
          /\ i \in DOMAIN keys
          /\ keys[i][1] = list[i].version /\ keys[i][2] = list[i].address
          /\ keys[i][3] = list[i].prefixlen
  BY DEF NetworkKey
<1>3. \A i \in DOMAIN list :
          i \in from <=> \/ list[i].version > net.version
                         \/ list[i].version = net.version /\ list[i].address >= net.address
  <2> TAKE i \in DOMAIN list
  <2>1. list[i] \in AllNetworks
    BY <1>1
  <2>2. /\ list[i].version \in Int /\ list[i].address \in Int /\ list[i].prefixlen \in Nat
        /\ net.version \in Int /\ net.address \in Int
    BY <2>1, NetworkFields
  <2>3. i \in from <=> ~NetworkBefore(keys[i], <<net.version, net.address, 0>>)
    BY <1>2 DEF NetworksFrom
  <2> QED
    BY <1>2, <2>2, <2>3 DEF NetworkBefore, AddressBefore
<1>4. from \subseteq DOMAIN list
  BY DEF NetworksFrom
<1>5. ASSUME HasChildPrefix(list, keys, net)
      PROVE  \E other \in Range(list) : Inside(other, net)
  <2>1. PICK i \in from : /\ list[i].prefixlen > net.prefixlen
                          /\ \A j \in from : j <= i => ~PastTheEnd(list[j], net)
    BY <1>5 DEF HasChildPrefix
  <2>2. i \in DOMAIN list /\ list[i] \in AllNetworks /\ i <= i
    BY <1>1, <1>4
  <2>3. ~PastTheEnd(list[i], net)
    BY <2>1, <2>2
  <2>4. /\ list[i].version = net.version
        /\ net.address <= list[i].address
        /\ list[i].address <= Broadcast(net)
    <3>1. /\ list[i].version \in Int /\ list[i].address \in Int
          /\ net.version \in Int /\ net.address \in Int /\ Broadcast(net) \in Int
      BY <2>2, NetworkFields
    <3>2. \/ list[i].version > net.version
          \/ list[i].version = net.version /\ list[i].address >= net.address
      BY <1>3, <2>1, <2>2
    <3> QED
      BY <2>3, <3>1, <3>2 DEF PastTheEnd
  <2>5. Broadcast(list[i]) <= Broadcast(net)
    BY <2>1, <2>2, <2>4, BoundaryAssumption
  <2>6. list[i] \in Range(list)
    BY <2>2 DEF Range
  <2> QED
    BY <2>1, <2>4, <2>5, <2>6 DEF Inside
<1>6. ASSUME NEW other \in Range(list), Inside(other, net)
      PROVE  HasChildPrefix(list, keys, net)
  <2>1. PICK i \in DOMAIN list : other = list[i]
    BY DEF Range
  <2>2. /\ list[i] \in AllNetworks
        /\ list[i].version = net.version
        /\ net.address <= list[i].address
        /\ list[i].address <= Broadcast(net)
        /\ list[i].prefixlen > net.prefixlen
    BY <1>1, <1>6, <2>1, NetworkFields DEF Inside
  <2>3. i \in from
    BY <1>3, <2>2, NetworkFields
  <2>4. ASSUME NEW j \in from, j <= i
        PROVE  ~PastTheEnd(list[j], net)
    <3>1. j \in DOMAIN list /\ list[j] \in AllNetworks
      BY <1>1, <1>4
    <3>2. CASE j = i
      BY <2>2, <3>2, NetworkFields DEF PastTheEnd
    <3>3. CASE j # i
      <4>1. j < i /\ DOMAIN keys = DOMAIN list
        BY <1>1, <2>4, <3>1, <3>3
      <4>2. ~NetworkBefore(keys[i], keys[j])
        BY <3>1, <4>1 DEF AscendingNetworks
      <4>3. /\ list[j].version <= list[i].version
            /\ list[j].version = list[i].version => list[j].address <= list[i].address
        <5>1. /\ keys[j][1] = list[j].version /\ keys[j][2] = list[j].address
              /\ keys[i][1] = list[i].version /\ keys[i][2] = list[i].address
          BY <1>2, <2>1, <3>1
        <5>2. /\ list[j].version \in Int /\ list[j].address \in Int
              /\ list[i].version \in Int /\ list[i].address \in Int
          BY <2>2, <3>1, NetworkFields
        <5>3. ~AddressBefore(keys[i], keys[j])
          BY <4>2 DEF NetworkBefore
        <5> QED
          BY <5>1, <5>2, <5>3 DEF AddressBefore
      <4>4. /\ list[j].version \in Int /\ list[j].address \in Int
            /\ list[i].address \in Int /\ net.version \in Int /\ Broadcast(net) \in Int
        BY <2>2, <3>1, NetworkFields
      <4>5. \/ list[j].version > net.version
            \/ list[j].version = net.version /\ list[j].address >= net.address
        BY <1>3, <2>4, <3>1
      <4> QED
        BY <2>2, <4>3, <4>4, <4>5 DEF PastTheEnd
    <3> QED
      BY <3>2, <3>3
  <2> QED
    BY <2>2, <2>3, <2>4 DEF HasChildPrefix
<1> QED
  BY <1>5, <1>6

\* A set of numbers of a list has a least one.
LEMMA LeastIndex ==
    ASSUME NEW S \in SUBSET Nat, S # {}
    PROVE  \E first \in S : \A j \in S : first <= j
<1>1. PICK x \in S : \A y \in S : ~(<<y, x>> \in OpToRel(<, Nat))
  BY NatLessThanWellFounded, WFMin
<1>2. ASSUME NEW y \in S
      PROVE  x <= y
  <2>1. <<y, x>> \in Nat \X Nat
    OBVIOUS
  <2>2. ~(y < x)
    BY <1>1, <2>1 DEF OpToRel
  <2> QED
    BY <2>1, <2>2
<1> QED
  BY <1>2

\* has_address_in() looks at one address, the first that is not before the
\* network: it is in the network if any is.
LEMMA AddressSearch ==
    ASSUME NEW list \in Seq(AllAddresses), NEW keys,
           keys = [i \in DOMAIN list |-> AddressKey(list[i])],
           AscendingAddresses(keys),
           NEW net \in AllNetworks
    PROVE  HasAddressIn(keys, net) <=> \E addr \in Range(list) : Covers(net, addr)
<1> DEFINE from == AddressesFrom(keys, <<net.version, net.address>>)
<1>1. \A i \in DOMAIN list : /\ list[i] \in AllAddresses /\ i \in Nat
                             /\ keys[i] = <<list[i].version, list[i].value>>
                             /\ keys[i][1] = list[i].version /\ keys[i][2] = list[i].value
  BY DEF AddressKey
<1>2. from \subseteq DOMAIN list /\ DOMAIN keys = DOMAIN list /\ DOMAIN list \subseteq Nat
  BY DEF AddressesFrom
<1>3. \A i \in DOMAIN list :
          i \in from <=> \/ list[i].version > net.version
                         \/ list[i].version = net.version /\ list[i].value >= net.address
  BY <1>1, AddressFields, NetworkFields DEF AddressesFrom, AddressBefore
<1>4. ASSUME HasAddressIn(keys, net)
      PROVE  \E addr \in Range(list) : Covers(net, addr)
  <2>1. PICK first \in from : /\ keys[first][1] = net.version
                              /\ keys[first][2] <= Broadcast(net)
    BY <1>4 DEF HasAddressIn
  <2>2. first \in DOMAIN list /\ list[first] \in AllAddresses /\ list[first] \in Range(list)
    BY <1>1, <1>2 DEF Range
  <2>3. /\ list[first].version \in Int /\ list[first].value \in Int
        /\ net.version \in Int /\ net.address \in Int
    BY <2>2, AddressFields, NetworkFields
  <2>4. \/ list[first].version > net.version
        \/ list[first].version = net.version /\ list[first].value >= net.address
    BY <1>3, <2>1, <2>2
  <2>5. keys[first][1] = list[first].version /\ keys[first][2] = list[first].value
    BY <1>1, <2>2
  <2>6. Covers(net, list[first])
    BY <2>1, <2>3, <2>4, <2>5 DEF Covers
  <2> QED
    BY <2>2, <2>6
<1>5. ASSUME NEW addr \in Range(list), Covers(net, addr)
      PROVE  HasAddressIn(keys, net)
  <2>1. PICK i \in DOMAIN list : addr = list[i]
    BY DEF Range
  <2>2. i \in from
    BY <1>1, <1>3, <1>5, <2>1, AddressFields, NetworkFields DEF Covers
  <2>3. PICK first \in from : \A j \in from : first <= j
    BY <1>2, <2>2, LeastIndex
  <2>4. /\ first <= i /\ first \in DOMAIN list
        /\ list[first] \in AllAddresses /\ list[i] \in AllAddresses
    BY <1>1, <1>2, <2>2, <2>3
  <2>5. /\ list[first].version = net.version
        /\ list[first].value <= Broadcast(net)
    <3>1. CASE first = i
      BY <1>5, <2>1, <3>1 DEF Covers
    <3>2. CASE first # i
      <4>1. ~AddressBefore(keys[i], keys[first])
        BY <1>1, <1>2, <2>4, <3>2 DEF AscendingAddresses
      <4>2. /\ list[first].version <= list[i].version
            /\ list[first].version = list[i].version => list[first].value <= list[i].value
        BY <1>1, <2>4, <4>1, AddressFields DEF AddressBefore
      <4>3. /\ list[first].version \in Int /\ list[first].value \in Int
            /\ list[i].value \in Int /\ net.version \in Int /\ Broadcast(net) \in Int
        BY <2>4, AddressFields, NetworkFields
      <4>4. \/ list[first].version > net.version
            \/ list[first].version = net.version /\ list[first].value >= net.address
        BY <1>3, <2>3, <2>4
      <4>5. list[i].version = net.version /\ list[i].value <= Broadcast(net)
        BY <1>5, <2>1 DEF Covers
      <4> QED
        BY <4>2, <4>3, <4>4, <4>5
    <3> QED
      BY <3>1, <3>2
  <2>6. keys[first][1] = list[first].version /\ keys[first][2] = list[first].value
    BY <1>1, <2>4
  <2> QED
    BY <2>3, <2>5, <2>6 DEF HasAddressIn
<1> QED
  BY <1>4, <1>5

-----------------------------------------------------------------------------
\* The caches.

LEMMA InitCaches == Init => Caches
BY DEF Init, Caches, NetworksTypeOK, AddressesTypeOK, NetworkKeysFresh, AddressKeysFresh,
    SetMatchesList, Range

\* Sorting keeps the items.
LEMMA SortKeepsRange ==
    ASSUME NEW S, NEW list \in Seq(S), NEW order \in Orders(list), NEW sorted,
           sorted = [i \in DOMAIN list |-> list[order[i]]]
    PROVE  sorted \in Seq(S) /\ Range(sorted) = Range(list) /\ DOMAIN sorted = DOMAIN list
<1>1. /\ order \in [DOMAIN list -> DOMAIN list]
      /\ \A j \in DOMAIN list : \E i \in DOMAIN list : order[i] = j
  BY DEF Orders, Bijection, Surjection, Injection
<1>2. sorted \in Seq(S)
  <2>1. /\ Len(list) \in Nat
        /\ DOMAIN list = 1 .. Len(list)
        /\ \A i \in DOMAIN list : list[i] \in S
    OBVIOUS
  <2>2. \A i \in 1 .. Len(list) : list[order[i]] \in S
    BY <1>1, <2>1
  <2>3. [i \in 1 .. Len(list) |-> list[order[i]]] \in Seq(S)
    BY <2>1, <2>2
  <2> QED
    BY <2>1, <2>3
<1>3. Range(sorted) \subseteq Range(list)
  BY <1>1 DEF Range
<1>4. Range(list) \subseteq Range(sorted)
  BY <1>1 DEF Range
<1> QED
  BY <1>2, <1>3, <1>4

LEMMA AppendRange ==
    ASSUME NEW S, NEW list \in Seq(S), NEW item \in S
    PROVE  Append(list, item) \in Seq(S) /\ Range(Append(list, item)) = Range(list) \cup {item}
<1>1. \A i \in DOMAIN list : i \in DOMAIN Append(list, item) /\ Append(list, item)[i] = list[i]
  OBVIOUS
<1>2. /\ Len(list) + 1 \in DOMAIN Append(list, item)
      /\ Append(list, item)[Len(list) + 1] = item
  OBVIOUS
<1>3. \A i \in DOMAIN Append(list, item) : i \in DOMAIN list \/ i = Len(list) + 1
  OBVIOUS
<1> QED
  BY <1>1, <1>2, <1>3 DEF Range

LEMMA SortNetworksCaches ==
    ASSUME Caches, SortNetworks, UNCHANGED network_set
    PROVE  /\ (NetworksTypeOK /\ NetworkKeysFresh /\ SetMatchesList)'
           /\ network_keys' = [i \in DOMAIN networks' |-> NetworkKey(networks'[i])]
           /\ AscendingNetworks(network_keys')
           /\ Range(networks') = Range(networks)
<1>1. CASE network_keys # None
  BY <1>1 DEF Caches, SortNetworks, NetworksTypeOK, NetworkKeysFresh, SetMatchesList
<1>2. CASE network_keys = None
  <2>1. PICK order \in Orders(networks) :
            /\ networks' = [i \in DOMAIN networks |-> networks[order[i]]]
            /\ network_keys' = [i \in DOMAIN networks |-> NetworkKey(networks[order[i]])]
            /\ AscendingNetworks(network_keys')
    BY <1>2 DEF SortNetworks
  <2>2. /\ networks' \in Seq(AllNetworks)
        /\ Range(networks') = Range(networks)
        /\ DOMAIN networks' = DOMAIN networks
    BY <2>1, SortKeepsRange DEF Caches, NetworksTypeOK
  <2>3. network_keys' = [i \in DOMAIN networks' |-> NetworkKey(networks'[i])]
    BY <2>1, <2>2
  <2> QED
    BY <1>2, <2>1, <2>2, <2>3
       DEF Caches, NetworksTypeOK, NetworkKeysFresh, SetMatchesList
<1> QED
  BY <1>1, <1>2

LEMMA SortAddressesCaches ==
    ASSUME Caches, SortAddresses
    PROVE  /\ (AddressesTypeOK /\ AddressKeysFresh)'
           /\ address_keys' = [i \in DOMAIN addresses' |-> AddressKey(addresses'[i])]
           /\ AscendingAddresses(address_keys')
           /\ Range(addresses') = Range(addresses)
<1>1. CASE address_keys # None
  BY <1>1 DEF Caches, SortAddresses, AddressesTypeOK, AddressKeysFresh
<1>2. CASE address_keys = None
  <2>1. PICK order \in Orders(addresses) :
            /\ addresses' = [i \in DOMAIN addresses |-> addresses[order[i]]]
            /\ address_keys' = [i \in DOMAIN addresses |-> AddressKey(addresses[order[i]])]
            /\ AscendingAddresses(address_keys')
    BY <1>2 DEF SortAddresses
  <2>2. /\ addresses' \in Seq(AllAddresses)
        /\ Range(addresses') = Range(addresses)
        /\ DOMAIN addresses' = DOMAIN addresses
    BY <2>1, SortKeepsRange DEF Caches, AddressesTypeOK
  <2>3. address_keys' = [i \in DOMAIN addresses' |-> AddressKey(addresses'[i])]
    BY <2>1, <2>2
  <2> QED
    BY <1>2, <2>1, <2>2, <2>3 DEF AddressesTypeOK, AddressKeysFresh
<1> QED
  BY <1>1, <1>2

LEMMA NextCaches == Caches /\ [Next]_vars => Caches'
<1> SUFFICES ASSUME Caches, [Next]_vars
             PROVE  Caches'
  OBVIOUS
<1>1. ASSUME NEW net \in AllNetworks, add_prefix(net)
      PROVE  Caches'
  <2>1. /\ networks' \in Seq(AllNetworks)
        /\ Range(networks') = Range(networks) \cup {net}
    BY <1>1, AppendRange DEF add_prefix, Caches, NetworksTypeOK
  <2> QED
    BY <1>1, <2>1 DEF add_prefix, Caches, NetworksTypeOK, AddressesTypeOK, NetworkKeysFresh,
        AddressKeysFresh, SetMatchesList
<1>2. ASSUME NEW addr \in AllAddresses, add_address(addr)
      PROVE  Caches'
  <2>1. addresses' \in Seq(AllAddresses)
    BY <1>2, AppendRange DEF add_address, Caches, AddressesTypeOK
  <2> QED
    BY <1>2, <2>1 DEF add_address, Caches, NetworksTypeOK, AddressesTypeOK, NetworkKeysFresh,
        AddressKeysFresh, SetMatchesList
<1>3. ASSUME _sort, UNCHANGED network_set
      PROVE  Caches'
  BY <1>3, SortNetworksCaches, SortAddressesCaches DEF _sort, Caches
<1>4. ASSUME NEW net \in AllNetworks, has_child_prefix(net) \/ has_address_in(net)
      PROVE  Caches'
  BY <1>3, <1>4 DEF has_child_prefix, has_address_in
<1>5. ASSUME NEW addr \in AllAddresses, NEW down_to \in Masks(addr.version),
             covering_prefixlens(addr, down_to)
      PROVE  Caches'
  BY <1>5 DEF covering_prefixlens, Caches, NetworksTypeOK, AddressesTypeOK, NetworkKeysFresh,
      AddressKeysFresh, SetMatchesList
<1>6. CASE UNCHANGED vars
  BY <1>6 DEF vars, Caches, NetworksTypeOK, AddressesTypeOK, NetworkKeysFresh,
      AddressKeysFresh, SetMatchesList
<1> QED
  BY <1>1, <1>2, <1>4, <1>5, <1>6 DEF Next

\* The keys that _sort() keeps are never those of another list: an addition
\* forgets them, and the set and the list agree (ipam.py, VrfIndex).
THEOREM CachesNeverStale == Spec => []Caches
<1> QED
  BY InitCaches, NextCaches, PTL DEF Spec

-----------------------------------------------------------------------------
\* The refinement.

\* Masking the address at every length and looking each supernet up finds the
\* networks that cover it.
LEMMA CoveringSearch ==
    ASSUME NEW set \in SUBSET AllNetworks, NEW addr \in AllAddresses,
           NEW down_to \in Masks(addr.version)
    PROVE  CoveringPrefixlens(set, addr, down_to) =
               {net.prefixlen : net \in {n \in set : Covers(n, addr) /\ n.prefixlen >= down_to}}
<1>0. /\ addr.version \in Versions /\ addr.value \in Int
      /\ HOST_PREFIXLEN[addr.version] \in Nat
  BY AddressFields, NetworksAssumption
<1>1. ASSUME NEW p \in down_to .. HOST_PREFIXLEN[addr.version], Supernet(addr, p) \in set
      PROVE  \E net \in set : Covers(net, addr) /\ net.prefixlen >= down_to /\ net.prefixlen = p
  <2>1. p \in Masks(addr.version) /\ p >= down_to
    BY <1>0 DEF Masks
  <2>2. Size(addr.version, p) \in Nat \ {0}
    BY <1>0, <2>1, NetworksAssumption
  <2>3. /\ addr.value % Size(addr.version, p) >= 0
        /\ addr.value % Size(addr.version, p) < Size(addr.version, p)
        /\ addr.value % Size(addr.version, p) \in Int
    BY <1>0, <2>2
  <2>4. Covers(Supernet(addr, p), addr)
    BY <1>0, <2>2, <2>3 DEF Covers, Supernet, Broadcast
  <2> QED
    BY <1>1, <2>1, <2>4 DEF Supernet
<1>2. ASSUME NEW net \in set, Covers(net, addr), net.prefixlen >= down_to
      PROVE  net.prefixlen \in CoveringPrefixlens(set, addr, down_to)
  <2>1. Supernet(addr, net.prefixlen) = net
    BY <1>2, BoundaryAssumption
  <2>2. net.prefixlen \in down_to .. HOST_PREFIXLEN[addr.version]
    BY <1>0, <1>2, NetworkFields DEF Covers, Masks
  <2> QED
    BY <2>1, <2>2 DEF CoveringPrefixlens
<1> QED
  BY <1>1, <1>2 DEF CoveringPrefixlens

\* Containment speaks of the same networks.
LEMMA SameNetworks ==
    /\ \A small, net : Promise!Inside(small, net) <=> Inside(small, net)
    /\ \A net, addr : Promise!Covers(net, addr) <=> Covers(net, addr)
    /\ \A version : Promise!Masks(version) = Masks(version)
BY DEF Inside, Promise!Inside, Covers, Promise!Covers, Broadcast, Promise!Broadcast,
    Size, Promise!Size, Masks, Promise!Masks

LEMMA InitRefines == Init => Promise!Init
BY DEF Init, Promise!Init, Range

LEMMA NextRefines ==
    ASSUME Caches, Caches', [Next]_vars
    PROVE  [Promise!Next]_<<Range(networks), Range(addresses), answer>>
<1>1. ASSUME NEW net \in AllNetworks, add_prefix(net)
      PROVE  Promise!AddPrefix(net)
  <2>1. Range(networks') = Range(networks) \cup {net}
    BY <1>1, AppendRange DEF add_prefix, Caches, NetworksTypeOK
  <2> QED
    BY <1>1, <2>1 DEF add_prefix, Promise!AddPrefix
<1>2. ASSUME NEW addr \in AllAddresses, add_address(addr)
      PROVE  Promise!AddAddress(addr)
  <2>1. Range(addresses') = Range(addresses) \cup {addr}
    BY <1>2, AppendRange DEF add_address, Caches, AddressesTypeOK
  <2> QED
    BY <1>2, <2>1 DEF add_address, Promise!AddAddress
<1>3. ASSUME NEW net \in AllNetworks, has_child_prefix(net)
      PROVE  Promise!Ask
  <2>1. SortNetworks /\ SortAddresses /\ UNCHANGED network_set
    BY <1>3 DEF has_child_prefix, _sort
  <2>2. /\ network_keys' = [i \in DOMAIN networks' |-> NetworkKey(networks'[i])]
        /\ AscendingNetworks(network_keys')
        /\ UNCHANGED <<Range(networks), Range(addresses)>>
        /\ networks' \in Seq(AllNetworks)
    BY <2>1, SortNetworksCaches, SortAddressesCaches DEF NetworksTypeOK
  <2>3. HasChildPrefix(networks', network_keys', net) <=>
            \E other \in Range(networks) : Inside(other, net)
    BY <2>2, ChildSearch
  <2>4. HasChildPrefix(networks', network_keys', net) = Promise!HasInside(net)
    BY <2>3, SameNetworks, Zenon DEF Promise!HasInside, HasChildPrefix
  <2> QED
    BY <1>3, <2>2, <2>4 DEF has_child_prefix, Promise!Ask
<1>4. ASSUME NEW net \in AllNetworks, has_address_in(net)
      PROVE  Promise!Ask
  <2>1. SortNetworks /\ SortAddresses /\ UNCHANGED network_set
    BY <1>4 DEF has_address_in, _sort
  <2>2. /\ address_keys' = [i \in DOMAIN addresses' |-> AddressKey(addresses'[i])]
        /\ AscendingAddresses(address_keys')
        /\ UNCHANGED <<Range(networks), Range(addresses)>>
        /\ addresses' \in Seq(AllAddresses)
    BY <2>1, SortNetworksCaches, SortAddressesCaches DEF AddressesTypeOK
  <2>3. HasAddressIn(address_keys', net) <=>
            \E addr \in Range(addresses) : Covers(net, addr)
    BY <2>2, AddressSearch
  <2>4. HasAddressIn(address_keys', net) = Promise!HasHost(net)
    BY <2>3, SameNetworks, Zenon DEF Promise!HasHost, HasAddressIn
  <2> QED
    BY <1>4, <2>2, <2>4 DEF has_address_in, Promise!Ask
<1>5. ASSUME NEW addr \in AllAddresses, NEW down_to \in Masks(addr.version),
             covering_prefixlens(addr, down_to)
      PROVE  Promise!Ask
  <2>1. CoveringPrefixlens(network_set, addr, down_to) = Promise!CoveringMasks(addr, down_to)
    BY CoveringSearch, SameNetworks
       DEF Caches, NetworksTypeOK, SetMatchesList, Promise!CoveringMasks
  <2>2. down_to \in Promise!Masks(addr.version)
    BY SameNetworks
  <2> QED
    BY <1>5, <2>1, <2>2 DEF covering_prefixlens, Promise!Ask
<1>6. CASE UNCHANGED vars
  BY <1>6 DEF vars
<1>7. CASE Next
  BY <1>1, <1>2, <1>3, <1>4, <1>5, <1>7 DEF Next, Promise!Next
<1> QED
  BY <1>6, <1>7

\* Whatever the order of additions and questions, an index answers as a scan of
\* all that was added would (ipam.py, VrfIndex).
THEOREM IndexKeepsItsPromise == Spec => AnswersAreTrue
<1>1. Caches /\ Caches' /\ [Next]_vars => [Promise!Next]_<<Range(networks), Range(addresses), answer>>
  BY NextRefines
<1> QED
  BY <1>1, CachesNeverStale, InitRefines, PTL DEF Spec, AnswersAreTrue, Promise!Spec
=============================================================================
