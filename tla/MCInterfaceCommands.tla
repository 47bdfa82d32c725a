------------------------ MODULE MCInterfaceCommands ------------------------
(***************************************************************************)
(* InterfaceCommands with a source and a target port that have up to two   *)
(* subinterfaces and two addresses, and a front port at the far end of     *)
(* their cables.                                                           *)
(***************************************************************************)
EXTENDS InterfaceCommands, TLC

CONSTANTS p, q, far, x, virtual, physical, v, w, a1, a2, a6

MCIdOfEnd == p :> 1 @@ q :> 2 @@ far :> 9
MCIdOfEndClash == p :> 1 @@ q :> 2 @@ far :> 1

Port(name, conf, vrf) ==
    [port |-> name, sub |-> 0, parent |-> None, conf |-> conf, kind |-> physical, vrf |-> vrf]
Sub(name, parent, sub, conf, vrf) ==
    [port |-> name, sub |-> sub, parent |-> parent, conf |-> conf, kind |-> virtual, vrf |-> vrf]
Ip(addr, on, anycast, vrf) == [addr |-> addr, on |-> on, anycast |-> anycast, vrf |-> vrf]

Held(ids, items) == [k \in ids |-> IF k \in DOMAIN items THEN items[k] ELSE None]

\* Interfaces 1 and 2 are the ports, 3 and up their subinterfaces.
Pairs == {<<Port(p, x, v), Port(q, Blank, None)>>, <<Port(p, Blank, None), Port(q, x, v)>>}
Children1 == {<< >>, <<Sub(p, 1, 1, x, v)>>, <<Sub(p, 1, 2, x, v), Sub(p, 1, 1, x, None)>>,
              <<Sub(p, 1, 1, NotCloned, v), Sub(p, 1, 2, Blank, v)>>}
Children2 == {<<Sub(q, 2, 1, x, v)>>, <<Sub(p, 1, 1, x, v), Sub(q, 2, 1, Blank, None)>>,
              <<Sub(p, 1, 1, x, v), Sub(q, 1, 1, x, v)>>}

First == {Ip(a1, on, anycast, v) : on \in 1 .. 4, anycast \in BOOLEAN}
Second == {Ip(addr, on, FALSE, v) : addr \in {a2, a6}, on \in {1, 3, None}} \cup
          {Ip(a1, on, anycast, vrf) : on \in {2, 4}, anycast \in BOOLEAN, vrf \in {v, w}}
Some == {<<i>> : i \in First} \cup {<<i, j>> : i \in First, j \in Second}

\* NetBox holds no assignment to nothing, and an address twice in a VRF only as
\* anycast.
Legal(nb) ==
    /\ \A i \in DOMAIN nb.ips : nb.ips[i] # None /\ nb.ips[i].on # None => nb.ifs[nb.ips[i].on] # None
    /\ \A i, j \in DOMAIN nb.ips :
           /\ i # j /\ nb.ips[i] # None /\ nb.ips[j] # None
           /\ nb.ips[i].addr = nb.ips[j].addr /\ nb.ips[i].vrf = nb.ips[j].vrf
           => nb.ips[i].anycast /\ nb.ips[j].anycast

NetBoxes(subs, some, cablings) ==
    {nb \in {[ifs |-> Held(Ids, ports \o s), ips |-> Held(Ips, a), at |-> c] :
                 ports \in Pairs, s \in subs, a \in some, c \in cablings} : Legal(nb)}

Uncabled == p :> None @@ q :> None @@ far :> None
Cablings ==
    {Uncabled, p :> <<1, "a">> @@ q :> None @@ far :> <<1, "b">>,
     p :> <<1, "b">> @@ q :> None @@ far :> <<1, "a">>,
     p :> <<1, "a">> @@ q :> <<2, "a">> @@ far :> None}

Scripts(commands) == {<<command>> : command \in commands}
Zaps == Scripts({Zap(<<q>>), Zap(<<p>>), Zap(<<p, p>>), Zap(<<p, q>>)})
Clones == Scripts({Clone(p, q), Clone(p, p)}) \cup {<<Clone(p, q), Clone(p, q)>>}
SetTypes ==
    Scripts({SetType(<<p>>, virtual), SetType(<<p, p>>, virtual)}) \cup
    {<<SetType(<<p, q>>, virtual), SetType(<<p, q>>, virtual)>>}
Migrations == Scripts({Migrate(p, q), Migrate(p, p)}) \cup {<<Zap(<<q>>), Migrate(p, q)>>}

Called(netboxes, scripts, maxRuns, maxEdits) ==
    [netbox : netboxes, script : scripts, maxRuns : {maxRuns}, maxEdits : {maxEdits}]

MCSituations ==
    Called(NetBoxes(Children1 \cup Children2, Some, {Uncabled}), Zaps \cup SetTypes \cup Clones, 2, 0) \cup
    Called(NetBoxes(Children1 \cup Children2, Some, Cablings), Migrations, 2, 0) \cup
    Called(NetBoxes(Children1, Some, {Uncabled}), Zaps \cup Clones \cup Migrations, 1, 1)

\* The theorems apply to this instance, but for the one with clashing ids.
ASSUME NoGrandchildren /\ (IdOfEnd = MCIdOfEnd => EndsDoNotClash)
=============================================================================
