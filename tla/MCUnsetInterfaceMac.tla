------------------------ MODULE MCUnsetInterfaceMac ------------------------
(***************************************************************************)
(* UnsetInterfaceMac with three records: a port and a subinterface of it,  *)
(* another port, an interface of a VM with the id of the first, and one    *)
(* that is named after a MAC.                                              *)
(***************************************************************************)
EXTENDS UnsetInterfaceMac

CONSTANTS m1, m2, zero

Iface(table, id, machine, base, sub, named) ==
    [table |-> table, id |-> id, machine |-> machine, base |-> base, sub |-> sub,
     named |-> named]
Swp1 == Iface("dcim", 1, "leaf1", "swp1", FALSE, Nothing)
Swp1Sub == Iface("dcim", 2, "leaf1", "swp1", TRUE, Nothing)
Enx == Iface("dcim", 3, "node1", "enx", FALSE, m1)
VmEth0 == Iface("vm", 1, "vm1", "eth0", FALSE, Nothing)

MCInterfaces == {Swp1, Swp1Sub, Enx, VmEth0}

MCLine(target, mac) == [target |-> target, mac |-> mac]
Command(pipe, stream, keepGoing, given, maxEdits) ==
    [pipe |-> pipe, stream |-> stream, keepGoing |-> keepGoing, lines |-> given,
     maxEdits |-> maxEdits]
Pipeline(maxEdits) == Command(TRUE, TRUE, FALSE, << >>, maxEdits)

\* The pipeline, on every NetBox of three records.
Pipelines == [recs : [1 .. 3 -> Record], cmd : {Pipeline(0)}]

\* Any one or two lines, on a NetBox of two records of one MAC.
FewRecords == [1 .. 2 -> [mac : {m1}, on : {Unassigned, Swp1, VmEth0}]]
SomeLines == {MCLine(target, m1) : target \in {Unassigned, Swp1, Unknown}} \cup
             {MCLine(Swp1, m2)}
MCCommands(maxEdits) ==
    {Command(FALSE, stream, keepGoing, given, maxEdits) :
        stream \in BOOLEAN, keepGoing \in BOOLEAN,
        given \in [1 .. 1 -> SomeLines] \cup [1 .. 2 -> SomeLines]}
WithOthers == [recs : FewRecords, cmd : MCCommands(1) \cup {Pipeline(2)}]

MCSituations == Pipelines \cup WithOthers
=============================================================================
