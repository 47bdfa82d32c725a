---------------------------- MODULE Containment ----------------------------
(***************************************************************************)
(* What an index of the prefixes and addresses of one VRF promises: it may *)
(* be added to and asked at any time, and each answer is what a look at    *)
(* everything added so far would give.                                     *)
(***************************************************************************)
EXTENDS Networks

VARIABLES
    prefixes,   \* the networks added
    hosts,      \* the addresses added
    answer      \* the last question, and what was answered

HasInside(net) == \E other \in prefixes : Inside(other, net)
HasHost(net) == \E addr \in hosts : Covers(net, addr)
CoveringMasks(addr, down_to) ==
    {net.prefixlen : net \in {n \in prefixes : Covers(n, addr) /\ n.prefixlen >= down_to}}

Init == prefixes = {} /\ hosts = {} /\ answer = << >>

AddPrefix(net) ==
    /\ prefixes' = prefixes \cup {net}
    /\ answer' = << >>
    /\ UNCHANGED hosts

AddAddress(addr) ==
    /\ hosts' = hosts \cup {addr}
    /\ answer' = << >>
    /\ UNCHANGED prefixes

Ask ==
    /\ \/ \E net \in AllNetworks :
              \/ answer' = <<"has_child_prefix", net, HasInside(net)>>
              \/ answer' = <<"has_address_in", net, HasHost(net)>>
       \/ \E addr \in AllAddresses : \E down_to \in Masks(addr.version) :
              answer' = <<"covering_prefixlens", <<addr, down_to>>,
                          CoveringMasks(addr, down_to)>>
    /\ UNCHANGED <<prefixes, hosts>>

Next ==
    \/ \E net \in AllNetworks : AddPrefix(net)
    \/ \E addr \in AllAddresses : AddAddress(addr)
    \/ Ask

Spec == Init /\ [][Next]_<<prefixes, hosts, answer>>
=============================================================================
