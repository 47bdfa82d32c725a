--------------------------- MODULE DuplicateMacs ---------------------------
(***************************************************************************)
(* nblint duplicate-macs: which MAC addresses NetBox holds more than once, *)
(* whether that is how it should be, and which records the line lists.     *)
(*                                                                         *)
(* recs is what NetBox holds: a function from the ids of MAC records to    *)
(* [mac, on].  An interface is a record: [table, id] identifies it,        *)
(* machine is what holds it, base and sub are what split_subinterface()    *)
(* makes of its name, and named is the MAC that its name encodes.          *)
(***************************************************************************)
EXTENDS Integers, FiniteSets, FiniteSetsExt

CONSTANTS
    Macs,           \* MAC addresses
    NOT_REAL_MACS,  \* those that are placeholders
    Interfaces,     \* interfaces of devices and of virtual machines
    Unassigned,     \* what a record on no interface is on
    Nothing         \* no machine, and no MAC in a name

ASSUME MacsAssumption ==
    /\ NOT_REAL_MACS \subseteq Macs
    /\ Unassigned \notin Interfaces
    /\ \A i \in Interfaces : i.id \in Nat
    /\ \A i, j \in Interfaces : i.table = j.table /\ i.id = j.id => i = j
    \* Names are unique on a machine.
    /\ \A i, j \in Interfaces :
           i.machine = j.machine /\ i.machine # Nothing /\ i.base = j.base /\ ~i.sub /\ ~j.sub
           => i = j

\* The records of get_duplicate_macs(): as many as NetBox has of a real MAC.
Copies(recs, mac) == {r \in DOMAIN recs : recs[r].mac = mac}
Loose(recs, mac) == {r \in Copies(recs, mac) : recs[r].on = Unassigned}
Duplicates(recs) ==
    {mac \in Macs \ NOT_REAL_MACS : Cardinality(Copies(recs, mac)) >= 2}

-----------------------------------------------------------------------------
\* is_explained.

Assigned(recs, mac) == Copies(recs, mac) \ Loose(recs, mac)
IsSelfNamed(recs, mac) ==
    /\ Assigned(recs, mac) # {}
    /\ \A r \in Assigned(recs, mac) : recs[r].on.named = mac

\* Mutant: two records on one interface count as two members of a bridge.
OneMachine(recs, mac) ==
    /\ Loose(recs, mac) = {}
    /\ \A r, s \in Copies(recs, mac) : recs[r].on.machine = recs[s].on.machine

IsExplained(recs, mac) ==
    /\ Loose(recs, mac) = {}
    /\ \/ IsSelfNamed(recs, mac)
       \/ \A r, s \in Copies(recs, mac) :
              /\ recs[r].on.machine # Nothing
              /\ recs[r].on.machine = recs[s].on.machine
              /\ r # s => recs[r].on.id # recs[s].on.id

\* _wanted(): --limit=unassigned goes before --all.
Wanted(recs, mac, limit, all) ==
    IF limit THEN Loose(recs, mac) # {} ELSE all \/ ~IsExplained(recs, mac)

Findings(recs, limit, all) == {mac \in Duplicates(recs) : Wanted(recs, mac, limit, all)}

-----------------------------------------------------------------------------
\* collapse_subinterfaces().

\* family_of(): a port and its subinterfaces, or an interface on its own.
Family(iface) ==
    IF iface.machine = Nothing THEN <<Nothing, iface.id>> ELSE <<iface.machine, iface.base>>

\* The interface of a family that is shown: the one named like the family, or
\* else the one with the lowest id.
ShownId(ifaces) ==
    LET parents == {i \in ifaces : i.machine # Nothing /\ ~i.sub}
    IN  Min({i.id : i \in IF parents # {} THEN parents ELSE ifaces})

\* The records of a MAC that are listed; the rest of a family are its "+N sub".
Listed(recs, mac) ==
    {r \in Assigned(recs, mac) :
        recs[r].on.id = ShownId({recs[s].on : s \in
            {s \in Assigned(recs, mac) : Family(recs[s].on) = Family(recs[r].on)}})}
=============================================================================
