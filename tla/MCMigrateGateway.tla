-------------------------- MODULE MCMigrateGateway --------------------------
(***************************************************************************)
(* MigrateGateway on four switch ports.  Ports 1 and 2 are where gateways  *)
(* may sit, 3 and 4 are where they may go; 9 is a port NetBox does not     *)
(* know.  Three addresses: both copies of an anycast gateway in VRF red,   *)
(* and the gateway with the same address in VRF blue.                      *)
(***************************************************************************)
EXTENDS MigrateGateway

MCPorts == 1 .. 4
MCSubNumbers == {10, 20}
MCVRFs == {"red", "blue"}
MCIds == 1 .. 6
MCIps == 1 .. 3
MCIpAddr == <<"a", "a", "a">>
MCIpVrf == <<"red", "red", "blue">>

On(port, sfx, parent, vrf) == [port |-> port, sfx |-> sfx, parent |-> parent, vrf |-> vrf]

\* Id 1 is 1.10 in red.  Id 2 is another source subinterface, or one whose
\* parent field disagrees with its name.  Id 3, if it is there, is what someone
\* made on port 3 before: with or without the parent field.
MCNetBoxes ==
    LET first == On(1, 10, 1, "red")
        seconds == {On(1, 20, 1, "blue"), On(2, 20, 2, "blue"), On(2, 10, 4, "red")}
                       \cup {On(2, 10, 2, vrf) : vrf \in MCVRFs}
        thirds == {None, On(3, 10, None, "red")}
                      \cup {On(3, sfx, 3, vrf) : sfx \in MCSubNumbers, vrf \in MCVRFs}
        places(third) == {1, 2, OnPort} \cup (IF third = None THEN {OnVm} ELSE {3})
    IN  UNION {{[ifs |-> [i \in MCIds |-> CASE i = 1 -> first [] i = 2 -> second
                                            [] i = 3 -> third [] OTHER -> None],
                 at |-> where] : where \in [MCIps -> places(third)]} :
                    second \in seconds, third \in thirds}

\* The ones where every gateway is on one of two subinterfaces.
MCSoundNetBoxes ==
    {nb \in MCNetBoxes : nb.ifs[2].parent = nb.ifs[2].port /\ nb.at \in [MCIps -> {1, 2}]}

VmIp(peer, vrf, vpn) == [peer |-> peer, vrf |-> vrf, vpn |-> vpn]
Red == VmIp("a", "red", FALSE)
Blue == VmIp("a", "blue", FALSE)
Elsewhere == VmIp("b", "red", FALSE)
Vpn == VmIp(None, None, TRUE)
NotPointToPoint == VmIp(None, None, FALSE)

Command(targets, vms, deleteEmpty, maxRuns, maxEdits) ==
    [targets |-> targets, vms |-> vms, deleteEmpty |-> deleteEmpty,
     maxRuns |-> maxRuns, maxEdits |-> maxEdits]

Called(netBoxes, commands) ==
    {[ifs |-> nb.ifs, at |-> nb.at, cmd |-> command] : nb \in netBoxes, command \in commands}

\* Given twice while nobody else writes: also with a target given twice, and
\* with targets that are source ports, where --delete-empty undoes the move.
MCTwice ==
    {Command(targets, <<Red, Blue>>, FALSE, 2, 0) :
        targets \in {<<3>>, <<3, 4>>, <<2, 3>>, <<3, 3>>}}
    \cup {Command(targets, vms, TRUE, 2, 0) :
              targets \in {<<3>>, <<3, 4>>, <<2, 3>>, <<2, 1>>},
              vms \in {<<Red, Blue>>, <<Red>>}}

\* What there is to look at before NetBox is: the command line and the VMs.
MCOddCommands ==
    {Command(<<3>>, <<Vpn, Red>>, FALSE, 2, 0), Command(<< >>, <<Red>>, FALSE, 2, 0),
     Command(<<9>>, <<Red>>, FALSE, 2, 0), Command(<<3>>, <<NotPointToPoint>>, TRUE, 2, 0),
     Command(<<3>>, <<Elsewhere>>, TRUE, 2, 0)}

\* Given once, and somebody else writes at some moment.
MCOnce ==
    {Command(targets, <<Red, Blue>>, deleteEmpty, 1, 1) :
        targets \in {<<3>>, <<4, 3>>, <<3, 3>>, <<2, 3>>}, deleteEmpty \in BOOLEAN}

\* The same, and somebody else writes at two moments.
MCPlainNetBoxes ==
    {nb \in MCSoundNetBoxes : /\ nb.ifs[2] = On(2, 10, 2, "red") /\ nb.ifs[3] = None
                              /\ nb.at[1] = 1}
MCTwoEdits == {Command(<<4, 3>>, <<Red, Blue>>, TRUE, 1, 2)}

\* With one write of others and the third address on nothing, for someone else to assign.
MCLooseNetBoxes == {[nb EXCEPT !.at[3] = None] : nb \in MCSoundNetBoxes}
MCLoose ==
    {Command(targets, <<Red>>, TRUE, 1, 1) : targets \in {<<3>>, <<4, 3>>, <<2, 3>>}}

MCSituations ==
    Called(MCNetBoxes, MCTwice) \cup Called(MCSoundNetBoxes, MCOnce \cup MCOddCommands)
        \cup Called(MCPlainNetBoxes, MCTwoEdits) \cup Called(MCLooseNetBoxes, MCLoose)

-----------------------------------------------------------------------------
\* A gateway on each of the ports 1 to 3; the first two in red, the third in
\* blue.  Port 1 is to move to port 2, and the ports 2 and 3 both to port 4.
MCReusedPorts ==
    LET subs == <<On(1, 10, 1, "red"), On(2, 10, 2, "red"), On(3, 10, 3, "blue")>>
    IN  {[ifs |-> [i \in MCIds |-> IF i \in DOMAIN subs THEN subs[i] ELSE None],
          at |-> <<1, 2, 3>>,
          cmd |-> Command(<<2, 4, 4>>, <<Red, Blue>>, TRUE, 1, 0)]}
=============================================================================
