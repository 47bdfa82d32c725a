--------------------------- MODULE InterfaceWorks ---------------------------
(***************************************************************************)
(* What zap-interface, migrate-interface, clone-interface and              *)
(* set-interface-type read and write: ports with their subinterfaces, the  *)
(* addresses on them and the cables they are plugged into, and the         *)
(* FutureWork items that change them.                                      *)
(*                                                                         *)
(* A port stands for a (device, name) pair, a subinterface suffix is a     *)
(* number in natsort order, and 0 is the port itself.  Of the fields of an *)
(* interface, kind is its type; conf is its description, label, mode,      *)
(* VLANs and tags; whether it is enabled is left out.  The fields are      *)
(* written together, where the code sends those that differ, and a write   *)
(* of what is there already is left out.  So is what only shows in the     *)
(* listing (names, DummyUnassignIPAddress).                                *)
(*                                                                         *)
(* A list of works is a set of works that are numbered the way sections    *)
(* are: nr is a tuple of numbers, and <<2, 1, 3>> comes after <<2, 1, 1>>. *)
(*                                                                         *)
(* NetBox is external: Accepts is what it refuses, as the code relies on.  *)
(***************************************************************************)
EXTENDS Integers, Sequences, FiniteSets, Functions

CONSTANTS
    Ports,          \* switch ports
    SubNumbers,     \* the numbers of their subinterfaces
    OtherEnds,      \* what else a cable can be plugged into
    Cables,         \* cables; each has an a side and a b side
    IdOfEnd,        \* IdOfEnd[t]: id of port or other end t, in its own table
    Confs, Kinds, VRFs, Blank,  \* values of the fields; Blank is a zapped conf
    NotCloned,      \* a conf with a tag of NO_CLONE_TAGS
    Addrs, V6,      \* addresses, and those that are IPv6
    Ids,            \* bound: ids of interfaces, handed out in order
    Ips,            \* bound: ids of address records, handed out in order
    None,           \* a NetBox null; an id that was not handed out yet
    Gone            \* deleted

VARIABLES
    ifs,    \* ifs[id]: an interface, None or Gone
    ips,    \* ips[id]: an address record, None or Gone
    at      \* at[t]: the cable end <<cable, side>> that t is plugged into

netbox == [ifs |-> ifs, ips |-> ips, at |-> at]

Interface == [port : Ports, sub : SubNumbers \cup {0}, parent : Ids \cup {None},
              conf : Confs, kind : Kinds, vrf : VRFs \cup {None}]
Address == [addr : Addrs, on : Ids \cup {None}, anycast : BOOLEAN, vrf : VRFs \cup {None}]
CableEnds == Cables \X {"a", "b"}

ASSUME NumbersAssumption ==
    SubNumbers \subseteq Nat \ {0} /\ Ids \subseteq Nat /\ Ips \subseteq Nat
ASSUME FieldsAssumption ==
    V6 \subseteq Addrs /\ {Blank, NotCloned} \subseteq Confs
ASSUME NoneAssumption ==
    /\ None \notin Ids \cup Interface \cup Address \cup CableEnds
    /\ Gone \notin Interface \cup Address
    /\ None # Gone

Exists(table, id) == id \in DOMAIN table /\ table[id] \notin {None, Gone}
InUse(table) == {id \in DOMAIN table : Exists(table, id)}
\* The ids are handed out in order.
IsFresh(table, id) ==
    /\ id \in DOMAIN table /\ table[id] = None
    /\ \A other \in DOMAIN table : table[other] = None => id <= other

Named(port, sub) == {i \in InUse(ifs) : ifs[i].port = port /\ ifs[i].sub = sub}
IdOf(port, sub) == IF Named(port, sub) = {} THEN None ELSE CHOOSE i \in Named(port, sub) : TRUE

\* A NetBox: names are unique on a device, no assignment dangles, and an address
\* is twice in a VRF only as anycast.
IsNetBox(nb) ==
    /\ nb.ifs \in [Ids -> Interface \cup {None, Gone}]
    /\ nb.ips \in [Ips -> Address \cup {None, Gone}]
    /\ nb.at \in [Ports \cup OtherEnds -> CableEnds \cup {None}]
    /\ \A i, j \in InUse(nb.ifs) :
           nb.ifs[i].port = nb.ifs[j].port /\ nb.ifs[i].sub = nb.ifs[j].sub => i = j
    /\ \A i \in InUse(nb.ifs) : nb.ifs[i].parent # None => Exists(nb.ifs, nb.ifs[i].parent)
    /\ \A ip \in InUse(nb.ips) : nb.ips[ip].on # None => Exists(nb.ifs, nb.ips[ip].on)
    /\ \A ip, other \in InUse(nb.ips) :
           /\ ip # other
           /\ nb.ips[ip].addr = nb.ips[other].addr /\ nb.ips[ip].vrf = nb.ips[other].vrf
           => nb.ips[ip].anycast

-----------------------------------------------------------------------------
\* Reading.

\* get_interface_tree(): the children by id have to be the children by name.
ByParent(port) == {i \in InUse(ifs) : ifs[i].parent = IdOf(port, 0)}
ByName(port) == {i \in InUse(ifs) : ifs[i].port = port /\ ifs[i].sub # 0}
TreeIsSound(port) == IdOf(port, 0) # None /\ ByParent(port) = ByName(port)

SubsOf(port) == {ifs[i].sub : i \in ByParent(port)}

\* get_ip_addresses()
IpsOn(i) == {ip \in InUse(ips) : ips[ip].on = i}

\* cable.a_terminations or cable.b_terminations
Plugged(end) == {t \in Ports \cup OtherEnds : at[t] = end}

-----------------------------------------------------------------------------
\* The works.

ModifyCable(nr, end, port) ==
    [op |-> "ModifyCable", nr |-> nr, end |-> end, port |-> port]
CreateInterface(nr, port, sub, parent, values) ==
    [op |-> "CreateInterface", nr |-> nr, port |-> port, sub |-> sub, parent |-> parent,
     values |-> values]
ModifyInterface(nr, i, values) ==
    [op |-> "ModifyInterface", nr |-> nr, id |-> i, values |-> values]
DeleteInterface(nr, i) == [op |-> "DeleteInterface", nr |-> nr, id |-> i]
DeleteIPAddress(nr, ip) == [op |-> "DeleteIPAddress", nr |-> nr, id |-> ip]
MakeAnycast(nr, ip) == [op |-> "ModifyIPAddress", nr |-> nr, id |-> ip]
\* The interface is looked up by its name when the work is done.
ReassignIPAddress(nr, ip, port, sub) ==
    [op |-> "ReassignIPAddress", nr |-> nr, id |-> ip, port |-> port, sub |-> sub]
\* So is this one, unless it was there when the work was planned: i is then its id.
AssignIPAddress(nr, ip, i, port, sub) ==
    [op |-> "AssignIPAddress", nr |-> nr, addr |-> ips[ip].addr, vrf |-> ips[ip].vrf,
     id |-> i, port |-> port, sub |-> sub]

\* The order of the list.
Sooner(v, w) ==
    \E n \in DOMAIN v.nr \cap DOMAIN w.nr :
        v.nr[n] < w.nr[n] /\ \A m \in 1 .. (n - 1) : v.nr[m] = w.nr[m]

\* The fields that are copied.
Values(i) == [conf |-> ifs[i].conf, kind |-> ifs[i].kind, vrf |-> ifs[i].vrf]
Configure(iface, values) ==
    [iface EXCEPT !.conf = values.conf, !.kind = values.kind, !.vrf = values.vrf]

\* Where an address is assigned to: what the code gives as assigned_object_id.
Destination(w) ==
    IF w.op = "AssignIPAddress" /\ w.id # None THEN w.id ELSE IdOf(w.port, w.sub)

\* A lambda that finds no interface is an AttributeError.
Resolves(w) ==
    w.op \in {"ReassignIPAddress", "AssignIPAddress"} => Destination(w) # None

\* NetBox: names are unique on a device, a termination is on one cable, and a
\* second record of an address is refused unless all of them are anycast.
Accepts(w) ==
    CASE w.op = "ModifyCable" -> at[w.port] \in {None, w.end}
      [] w.op = "CreateInterface" -> Named(w.port, w.sub) = {} /\ Exists(ifs, w.parent)
      [] w.op = "ModifyInterface" -> Exists(ifs, w.id)
      [] w.op = "DeleteInterface" ->
             Exists(ifs, w.id) /\ \A i \in InUse(ifs) : ifs[i].parent # w.id
      [] w.op = "AssignIPAddress" ->
             /\ Exists(ifs, Destination(w))
             /\ \A ip \in InUse(ips) :
                    ips[ip].addr = w.addr /\ ips[ip].vrf = w.vrf => ips[ip].anycast
      [] OTHER -> Exists(ips, w.id)

\* Deleting an interface leaves its addresses behind, assigned to nothing.
Unassign(i) == [ip \in Ips |-> IF ip \in IpsOn(i) THEN [ips[ip] EXCEPT !.on = None] ELSE ips[ip]]

Execute(w) ==
    CASE w.op = "ModifyCable" ->
             /\ at' = [t \in DOMAIN at |-> IF t = w.port THEN w.end
                                          ELSE IF at[t] = w.end THEN None ELSE at[t]]
             /\ UNCHANGED <<ifs, ips>>
      [] w.op = "CreateInterface" ->
             /\ \E i \in Ids :
                    /\ IsFresh(ifs, i)
                    /\ ifs' = [ifs EXCEPT ![i] =
                                  [port |-> w.port, sub |-> w.sub, parent |-> w.parent,
                                   conf |-> w.values.conf, kind |-> w.values.kind,
                                   vrf |-> w.values.vrf]]
             /\ UNCHANGED <<ips, at>>
      [] w.op = "ModifyInterface" ->
             /\ ifs' = [ifs EXCEPT ![w.id] = Configure(@, w.values)]
             /\ UNCHANGED <<ips, at>>
      [] w.op = "DeleteInterface" ->
             /\ ifs' = [ifs EXCEPT ![w.id] = Gone]
             /\ ips' = Unassign(w.id)
             /\ UNCHANGED at
      [] w.op = "DeleteIPAddress" ->
             /\ ips' = [ips EXCEPT ![w.id] = Gone]
             /\ UNCHANGED <<ifs, at>>
      [] w.op = "ModifyIPAddress" ->
             /\ ips' = [ips EXCEPT ![w.id].anycast = TRUE]
             /\ UNCHANGED <<ifs, at>>
      [] w.op = "ReassignIPAddress" ->
             /\ ips' = [ips EXCEPT ![w.id].on = Destination(w)]
             /\ UNCHANGED <<ifs, at>>
      [] w.op = "AssignIPAddress" ->
             /\ \E ip \in Ips :
                    /\ IsFresh(ips, ip)
                    /\ ips' = [ips EXCEPT ![ip] = [addr |-> w.addr, on |-> Destination(w),
                                                   anycast |-> TRUE, vrf |-> w.vrf]]
             /\ UNCHANGED <<ifs, at>>
=============================================================================
