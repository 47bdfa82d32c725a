----------------------------- MODULE PortLints -----------------------------
(***************************************************************************)
(* nblint unattached-interfaces, device-bmcs and subinterface-parents:     *)
(* what they make of what they read, each listing being a look at NetBox   *)
(* at its own time.                                                        *)
(*                                                                         *)
(* A NetBox has tables of devices [oob, bays], of interfaces [device,      *)
(* base, sub, parent, lag, kind, cable, marked, enabled, mgmt_only], of    *)
(* addresses [on, ...] and of MAC records [on]; base and sub are what      *)
(* split_subinterface() makes of a name, and sub is None for a port.       *)
(*                                                                         *)
(* Left out: a second try at the addresses, for NetBox before 4.4, and     *)
(* interfaces of virtual machines.                                         *)
(***************************************************************************)
EXTENDS Integers, FiniteSets, SequencesExt

CONSTANTS
    FILTER_CHUNK,   \* how many values a filtered read asks for
    SKIPPED_NAMES,  \* names of interfaces that are never cabled
    BmcNames,       \* the spellings of the name of a BMC
    None            \* a NetBox null

ASSUME ChunkAssumption == FILTER_CHUNK \in Nat \ {0}

\* in_chunks(): no chunk at all for no values.
InChunks(values) ==
    LET list == SetToSeq(values)
        chunk(n) == {list[i] : i \in {i \in DOMAIN list : (i - 1) \div FILTER_CHUNK = n}}
    IN  {chunk(n) : n \in {(i - 1) \div FILTER_CHUNK : i \in DOMAIN list}}

\* A NetBox filter; an empty list of values is no filter at all.
Matches(value, values) == values = {} \/ value \in values

-----------------------------------------------------------------------------
\* unattached-interfaces.

Key(iface) == <<iface.device, iface.base>>

\* wants_a_cable(); PORT_FILTERS says nothing of a parent or a name.
PortFilters(iface) ==
    /\ ~iface.cable /\ ~iface.marked /\ iface.enabled
    /\ iface.kind = "physical"
IsSubinterface(iface) == iface.parent # None \/ iface.sub # None
WantsACable(iface) ==
    /\ PortFilters(iface)
    /\ ~IsSubinterface(iface)
    /\ iface.base \notin SKIPPED_NAMES

\* The keys of addresses_by_holder().
Holders(db) ==
    {Key(db.ifaces[db.addresses[a].on]) : a \in
        {a \in DOMAIN db.addresses : db.addresses[a].on # None}}

\* interfaces_by_key()
InterfacesByKey(ifaces, keys) ==
    LET asked(chunk) ==
            {i \in DOMAIN ifaces :
                /\ ifaces[i].sub = None
                /\ Matches(ifaces[i].device, {key[1] : key \in chunk})
                /\ Matches(ifaces[i].base, {key[2] : key \in chunk})}
    IN  {i \in UNION {asked(chunk) : chunk \in InChunks(keys)} : Key(ifaces[i]) \in keys}

LagMembers(ifaces, lags) ==
    UNION {{i \in DOMAIN ifaces : Matches(ifaces[i].lag, chunk)} : chunk \in InChunks(lags)}

\* ports_holding_addresses() makes three listings: the ports, the LAGs, and the
\* members of the LAGs.  A port that is in two of them is as the last has it.
PortsHoldingAddresses(holders, one, two, three) ==
    LET own == {i \in InterfacesByKey(one.ifaces, holders) : PortFilters(one.ifaces[i])}
        lags == {i \in InterfacesByKey(two.ifaces, holders) : two.ifaces[i].kind = "lag"}
        members == {i \in LagMembers(three.ifaces, lags) : PortFilters(three.ifaces[i])}
    IN  [i \in own \cup members |-> IF i \in members THEN three ELSE one]

\* Mutant: the addresses of its LAG do not count.
HasOwnAddress(i, db, holders) == Key(db.ifaces[i]) \in holders

\* addresses_of(), of an interface as NetBox had it in db: the device of a LAG is
\* taken to be its own.
HasAddresses(i, db, holders) ==
    LET iface == db.ifaces[i]
    IN  \/ Key(iface) \in holders
        \/ iface.lag # None /\ <<iface.device, db.ifaces[iface.lag].base>> \in holders

\* find(): reads is the NetBox at each listing.
UnattachedInterfaces(reads, cmd) ==
    LET holders == IF cmd.requireIp THEN Holders(reads[1]) ELSE {}
        ports == IF cmd.requireIp
                 THEN PortsHoldingAddresses(holders, reads[2], reads[3], reads[4])
                 ELSE [i \in {i \in DOMAIN reads[1].ifaces : PortFilters(reads[1].ifaces[i])}
                          |-> reads[1]]
    IN  {i \in DOMAIN ports :
            /\ WantsACable(ports[i].ifaces[i])
            /\ ports[i].ifaces[i].base \notin cmd.exclude
            /\ cmd.requireIp => HasAddresses(i, ports[i], holders)}

-----------------------------------------------------------------------------
\* device-bmcs lists the devices, the addresses that are an oob_ip, the interfaces
\* by name, those by flag, and the MAC records.

Named(iface) == iface.sub = None /\ iface.base \in BmcNames

\* oob_interfaces_by_device()
OobInterfaces(devices, db, d) ==
    LET ips == UNION {{a \in DOMAIN db.addresses : Matches(a, chunk)} :
                         chunk \in InChunks({devices[e].oob : e \in DOMAIN devices} \ {None})}
    IN  {db.addresses[a].on : a \in
            {a \in ips : /\ a = devices[d].oob
                         /\ db.addresses[a].on # None
                         /\ db.ifaces[db.addresses[a].on].device = d}}

NamedInterfaces(db, d) ==
    {i \in DOMAIN db.ifaces : db.ifaces[i].device = d /\ Named(db.ifaces[i])}
MgmtOnlyInterfaces(db, d) ==
    {i \in DOMAIN db.ifaces : db.ifaces[i].device = d /\ db.ifaces[i].mgmt_only}

MacsAreWrong(db, i) == Cardinality({m \in DOMAIN db.macs : db.macs[m].on = i}) # 1

WantsABmc(db, d) ==
    (\E i \in DOMAIN db.ifaces : db.ifaces[i].device = d) /\ ~db.devices[d].bays

DeviceBmcs(reads) ==
    LET devices == reads[1].devices
        named(d) == NamedInterfaces(reads[3], d)
        mgmt(d) == MgmtOnlyInterfaces(reads[4], d)
        oob(d) == OobInterfaces(devices, reads[2], d)
        \* the first listing that has the interface is the one that is used; one
        \* that only the oob_ip knows has its flag fetched at the end
        seen(d, i) == IF i \in named(d) THEN reads[3]
                      ELSE IF i \in mgmt(d) THEN reads[4] ELSE reads[2]
        unflagged(d, i) ==
            /\ Named(seen(d, i).ifaces[i])
            /\ IF i \in named(d) \cup mgmt(d) THEN ~seen(d, i).ifaces[i].mgmt_only
               ELSE i \in DOMAIN reads[5].ifaces /\ ~reads[5].ifaces[i].mgmt_only
        bmcs(d) == named(d) \cup mgmt(d) \cup oob(d)
    IN  {<<"device", d>> : d \in {d \in DOMAIN devices : bmcs(d) = {} /\ WantsABmc(reads[1], d)}}
            \cup UNION {{<<"interface", i>> : i \in
                     {i \in bmcs(d) : MacsAreWrong(reads[5], i) \/ unflagged(d, i)}} :
                         d \in DOMAIN devices}

-----------------------------------------------------------------------------
\* subinterface-parents.

\* wrong_parent(): wanted is the interface that the name names.
WrongParent(ifaces, i) ==
    LET wanted == {j \in DOMAIN ifaces : ifaces[j].sub = None /\ Key(ifaces[j]) = Key(ifaces[i])}
    IN  wanted = {} \/ ifaces[i].parent = None \/ ifaces[i].parent \notin wanted

SubinterfaceParents(db) ==
    {i \in DOMAIN db.ifaces : db.ifaces[i].sub # None /\ WrongParent(db.ifaces, i)}
=============================================================================
