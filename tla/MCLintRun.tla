----------------------------- MODULE MCLintRun -----------------------------
(***************************************************************************)
(* LintRun with two prefixes and two addresses in two VRFs; and with a     *)
(* port, its subinterface, a LAG and a BMC on one device, another device,  *)
(* two addresses and two MAC records; or with three ports and as many      *)
(* addresses.                                                              *)
(***************************************************************************)
EXTENDS LintRun

CONSTANTS red, blue, active, role1, bmc, swp1, bond, lo

MCHostPrefixlen == [v \in {4, 6} |-> IF v = 4 THEN 2 ELSE 1]
MCMinPrefixlen == [v \in {4, 6} |-> 1]
Net(version, address, prefixlen) ==
    [version |-> version, address |-> address, prefixlen |-> prefixlen]
Addr(version, value) == [version |-> version, value |-> value]
MCNetworks == {Net(4, 0, 0), Net(4, 0, 1), Net(4, 2, 1), Net(4, 3, 2), Net(6, 0, 0)}
MCAddresses == {Addr(4, 0), Addr(4, 3), Addr(6, 1)}

Called(dbs, cmds, someWrites, maxWrites) ==
    [db : dbs, cmds : cmds, writes : {someWrites}, maxWrites : {maxWrites}]
NoRows == << >>
Rows(ids, rows) == {[k \in kept |-> f[k]] : kept \in SUBSET ids, f \in [ids -> rows]}
Writes(table, ids, rows) == {table} \X ids \X (rows \cup {Gone})

-----------------------------------------------------------------------------
\* The IPAM lints.

Prefix(net, vrf, status, role) == [net |-> net, vrf |-> vrf, status |-> status, role |-> role]
Address(addr, vrf, on) == [addr |-> addr, vrf |-> vrf, on |-> on]

SomePrefixes ==
    {Prefix(net, vrf, active, None) : net \in MCNetworks, vrf \in {red, blue}} \cup
    {Prefix(Net(4, 0, 1), red, status, role) : status \in {active, Reserved},
                                               role \in {role1, ThirdParty}}
SomeAddresses == {Address(addr, vrf, None) : addr \in MCAddresses, vrf \in {red, blue}}

Words(in, out) == [in |-> in, out |-> out]
Ipam(name, family, status, role) ==
    [name |-> name, family |-> family, status |-> status, role |-> role]
Default(name) == Ipam(name, All, {}, Words({}, {}))
EmptyCommands ==
    {Default("empty-prefixes"),
     Ipam("empty-prefixes", 4, {All}, Words({}, {None})),
     Ipam("empty-prefixes", All, {Reserved}, Words({ThirdParty, role1}, {role1})),
     Ipam("empty-prefixes", All, {active}, Words({All}, {}))}
OtherCommands ==
    {Default("unparented-ips"), Default("duplicate-prefixes"), Default("duplicate-ips"),
     Ipam("unparented-ips", 4, {}, Words({}, {}))}
IpamNetBoxes ==
    [prefixes : Rows({1, 2}, SomePrefixes), addresses : Rows({1}, SomeAddresses),
     devices : {NoRows}, ifaces : {NoRows}, macs : {NoRows}]
SmallIpam ==
    [prefixes : Rows({1}, {Prefix(Net(4, 0, 1), red, active, None)}),
     addresses : Rows({1, 2}, {Address(Addr(4, 0), red, None), Address(Addr(4, 3), blue, None)}),
     devices : {NoRows}, ifaces : {NoRows}, macs : {NoRows}]
IpamWrites ==
    Writes("prefixes", {1, 2}, {Prefix(Net(4, 0, 1), red, active, None),
                                Prefix(Net(4, 3, 2), blue, active, None)}) \cup
    Writes("addresses", {1, 2}, {Address(Addr(4, 0), red, None), Address(Addr(4, 3), red, None)})

-----------------------------------------------------------------------------
\* The port lints.

Iface(device, base, sub, parent, lag, kind, cable, mgmt) ==
    [device |-> device, base |-> base, sub |-> sub, parent |-> parent, lag |-> lag,
     kind |-> kind, cable |-> cable, marked |-> FALSE, enabled |-> TRUE, mgmt_only |-> mgmt]
PortOf(lag, cable) == Iface(1, swp1, None, None, lag, "physical", cable, FALSE)
SubOf(device, parent) == Iface(device, swp1, 100, parent, None, "virtual", FALSE, FALSE)
Bond == Iface(1, bond, None, None, None, "lag", FALSE, FALSE)
Bmc(device, name, mgmt) == Iface(device, name, None, None, None, "physical", TRUE, mgmt)
Lo == Iface(1, lo, None, None, None, "physical", FALSE, FALSE)
OtherPort == [Iface(2, swp1, None, None, None, "physical", FALSE, FALSE) EXCEPT !.enabled = FALSE]

\* Interfaces 1 to 4: a port, its subinterface or a loopback, a LAG or a port of
\* the other device, and a BMC.
SomeIfaces ==
    {<<PortOf(lag, cable), second, third, Bmc(1, bmc, TRUE)>> :
        lag \in {None, 3}, cable \in BOOLEAN, second \in {SubOf(1, 1), SubOf(1, None), Lo},
        third \in {Bond, OtherPort}}
On(i) == Address(Addr(4, 0), red, i)
PortNetBoxes ==
    {nb \in [prefixes : {NoRows}, addresses : Rows({1, 2}, {On(None), On(1), On(2), On(3)}),
             devices : {<<[oob |-> None, bays |-> FALSE], [oob |-> None, bays |-> FALSE]>>},
             ifaces : SomeIfaces, macs : {NoRows}] :
        nb.ifaces[1].lag = 3 => nb.ifaces[3].kind = "lag"}
PortWrites ==
    Writes("addresses", {1}, {On(1), On(3)}) \cup
    Writes("ifaces", {1}, {PortOf(None, FALSE), PortOf(3, FALSE), PortOf(None, TRUE)}) \cup
    Writes("ifaces", {2}, {SubOf(1, 1), SubOf(1, 3)})

Unattached(requireIp, exclude) ==
    [name |-> "unattached-interfaces", requireIp |-> requireIp, exclude |-> exclude]
PortCommands ==
    {Unattached(TRUE, {}), Unattached(FALSE, {}), Unattached(TRUE, {swp1}),
     [name |-> "subinterface-parents"]}

\* Three ports without a cable, each of which may hold addresses: more values to
\* ask for than go into one chunk.
Uncabled(device, base) == Iface(device, base, None, None, None, "physical", FALSE, FALSE)
ThreePorts ==
    [prefixes : {NoRows}, addresses : [{1, 2, 3} -> {On(None), On(1), On(2), On(3)}],
     devices : {<<[oob |-> None, bays |-> FALSE], [oob |-> None, bays |-> FALSE]>>},
     ifaces : {<<Uncabled(1, swp1), Uncabled(1, bond), Uncabled(2, swp1)>>}, macs : {NoRows}]
ThreePortsWrites == Writes("addresses", {1}, {On(2), On(3)})

\* Device 1 has a port, and a BMC by name, by flag, or by its oob_ip; device 2
\* is a chassis, or has a port.
BmcNetBoxes ==
    {nb \in [prefixes : {NoRows}, addresses : Rows({1}, {On(None), On(1), On(2), On(3)}),
             devices : {<<[oob |-> oob, bays |-> FALSE], [oob |-> None, bays |-> bays]>> :
                           oob \in {None, 1}, bays \in BOOLEAN},
             ifaces : {<<PortOf(None, TRUE), second, OtherPort>> :
                          second \in {Bmc(1, name, mgmt) : name \in {bmc, bond}, mgmt \in BOOLEAN}},
             macs : Rows({1, 2}, {[on |-> None], [on |-> 1], [on |-> 2]})] :
        Holds(nb)}
BmcWrites ==
    Writes("addresses", {1}, {On(None), On(2), On(3)}) \cup
    Writes("ifaces", {2}, {Bmc(1, bmc, TRUE), Bmc(1, bond, FALSE), Bmc(2, bmc, FALSE)}) \cup
    Writes("macs", {1}, {[on |-> 1], [on |-> 2]}) \cup
    Writes("devices", {1}, {[oob |-> 1, bays |-> FALSE], [oob |-> None, bays |-> FALSE]})

DeviceBmc == [name |-> "device-bmcs"]

MCSituations ==
    Called(IpamNetBoxes, {<<cmd>> : cmd \in EmptyCommands \cup OtherCommands}, {}, 0) \cup
    Called(SmallIpam, {<<cmd>> : cmd \in {Default("empty-prefixes"), Default("unparented-ips")}} \cup
                      {<<Default("duplicate-ips"), Default("empty-prefixes")>>}, IpamWrites, 2) \cup
    Called(PortNetBoxes, {<<cmd>> : cmd \in PortCommands}, PortWrites, 1) \cup
    Called(ThreePorts, {<<Unattached(TRUE, {})>>}, ThreePortsWrites, 1) \cup
    Called(BmcNetBoxes, {<<DeviceBmc>>}, BmcWrites, 1) \cup
    Called(BmcNetBoxes, {<<DeviceBmc, [name |-> "subinterface-parents"]>>}, {}, 0)
=============================================================================
