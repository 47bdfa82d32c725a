-------------------------- MODULE MCSetInterfaceIp --------------------------
(***************************************************************************)
(* SetInterfaceIp with two device interfaces, a VM's interface whose id no *)
(* device interface has, two addresses, and every NetBox of up to two      *)
(* address records that differ in what plan_one() looks at.                *)
(***************************************************************************)
EXTENDS SetInterfaceIp

Eth0 == <<"dcim", 1>>
Eth1 == <<"dcim", 2>>
VmEth == <<"vm", 3>>

MCInterfaces == {Eth0, Eth1, VmEth}
MCTargets == {"eth0", "eth1", "vm", "unknown", "loose"}
MCPlace == [eth0 |-> Eth0, eth1 |-> Eth1, vm |-> VmEth,
            unknown |-> Unrecognised, loose |-> Unassigned]

Plain(addr, on) == [addr |-> addr, on |-> on, vrf |-> "-", status |-> "active",
                    anycast |-> FALSE]
MCPlain == {Plain(addr, on) : addr \in Addrs, on \in Interfaces \cup {Nothing}}
MCRecords ==
    UNION {{r, [r EXCEPT !.vrf = "MGMT"], [r EXCEPT !.status = "dhcp"],
            [r EXCEPT !.anycast = TRUE]} : r \in MCPlain}

Holding(held) == [r \in Ids |-> IF r \in DOMAIN held THEN held[r] ELSE None]
MCLine(targets) == [target : targets, ip : Addrs]

\* The first line's address is "a": that is a choice of names.
Lines(n, targets) == {s \in [1 .. n -> MCLine(targets)] : s[1].ip = "a"}

Call(lines, force, single, keepGoing, vrf, maxEdits) ==
    [lines |-> lines, force |-> force, single |-> single, status |-> "active",
     vrf |-> vrf, keepGoing |-> keepGoing, maxEdits |-> maxEdits]

\* Every NetBox, and one or two lines of any kind.
AnyNetBox ==
    {Holding(<<r>>) : r \in MCRecords} \cup
    {Holding(<<r, s>>) : r \in MCRecords, s \in MCPlain}
Short ==
    [recs : AnyNetBox,
     cmd : {Call(lines, force, single, keepGoing, "-", 0) :
              lines \in Lines(1, MCTargets) \cup Lines(2, MCTargets \ {"loose"}),
              force \in BOOLEAN, single \in BOOLEAN, keepGoing \in {TRUE}}]

\* Three lines, which undo what the first did and do it again.
Long ==
    [recs : {Holding(<< >>)} \cup {Holding(<<r>>) : r \in MCPlain},
     cmd : {Call(lines, force, single, FALSE, vrf, 0) :
              lines \in Lines(3, {"eth0", "eth1"}),
              force \in BOOLEAN, single \in BOOLEAN, vrf \in {"-", "nobody's"}}]

\* Somebody else writes as well.
Crowded ==
    [recs : {Holding(<<r>>) : r \in MCPlain},
     cmd : {Call(lines, TRUE, single, TRUE, "MGMT", 1) :
              lines \in Lines(1, {"eth0", "vm"}) \cup Lines(2, {"eth0", "eth1"}),
              single \in BOOLEAN}]

\* A VM's interface that shares its id with a device's.
VmEth0 == <<"vm", 1>>
SharedInterfaces == {Eth0, VmEth0}
SharedPlace == [eth0 |-> Eth0, vm |-> VmEth0]
SharedSituations ==
    [recs : {Holding(<<Plain("a", x), Plain("b", y)>>) : x \in Interfaces, y \in Interfaces},
     cmd : {Call(lines, force, TRUE, FALSE, "-", 0) :
              lines \in Lines(1, Targets), force \in BOOLEAN}]

MCSituations == Short \cup Long \cup Crowded
=============================================================================
