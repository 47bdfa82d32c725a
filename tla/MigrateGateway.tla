--------------------------- MODULE MigrateGateway ---------------------------
(***************************************************************************)
(* nbsync migrate-gateway: the /31 gateways of some VMs are moved from the *)
(* subinterfaces they sit on to the same subinterfaces of other ports.     *)
(*                                                                         *)
(* plan() is the operator Plan, a function of the NetBox it reads; the     *)
(* works it returns are then performed one API write at a time, and the    *)
(* run may stop between any two of them.  A run may be followed by another *)
(* one with the same arguments.  The list of works is a set of works that  *)
(* carry their place in the list, nr.                                      *)
(*                                                                         *)
(* A port stands for a (device, port) pair and is a number, a subinterface *)
(* suffix is a number: their order is that of natsort_key().  The fields a *)
(* new subinterface copies besides its VRF are left out, and so are        *)
(* the DummyUnassignIPAddress items, which only show in the listing.       *)
(***************************************************************************)
EXTENDS Integers, Sequences, FiniteSets

CONSTANTS
    Ports,          \* switch ports NetBox knows, in natsort order
    SubNumbers,     \* subinterface numbers, the suffix of a name
    VRFs,           \* VRFs; None is one of them, the global table
    Ids,            \* bound: ids NetBox has for subinterfaces, handed out in order
    Ips,            \* ids of the IP addresses on switches
    IpAddr,         \* IpAddr[ip]: its address
    IpVrf,          \* IpVrf[ip]: its VRF
    None,           \* Python's None, and a NetBox null
    OnPort,         \* an IP sits on a port itself, not on a subinterface
    OnVm,           \* an IP sits on the interface of a VM
    Gone,           \* in ifs: the subinterface with this id was deleted
    Situations      \* [ifs, at, cmd]: a NetBox, and what is called there

Subinterface == [port : Ports, sfx : SubNumbers, parent : Ports \cup {None}, vrf : VRFs]

ASSUME NumbersAssumption ==
    /\ \A S \in {Ports, SubNumbers, Ids, Ips} : S \subseteq Nat
    /\ IsFiniteSet(Ids) /\ IsFiniteSet(Ips)
ASSUME NoneAssumption ==
    /\ {None, OnPort, OnVm} \cap Ids = {}
    /\ {None, Gone} \cap Subinterface = {} /\ None # Gone

\* NetBox: names are unique on a device, assignments do not dangle.
IsNetBox(nb) ==
    /\ nb.ifs \in [Ids -> Subinterface \cup {None, Gone}]
    /\ nb.at \in [Ips -> Ids \cup {None, OnPort, OnVm}]
    /\ \A i, j \in Ids :
           /\ nb.ifs[i] \in Subinterface /\ nb.ifs[j] \in Subinterface
           /\ nb.ifs[i].port = nb.ifs[j].port /\ nb.ifs[i].sfx = nb.ifs[j].sfx
           => i = j
    /\ \A ip \in Ips : nb.at[ip] \in Ids => nb.ifs[nb.at[ip]] \in Subinterface

IsCommand(c) ==
    /\ c.targets \in Seq(Nat) /\ c.deleteEmpty \in BOOLEAN
    /\ c.vms \in Seq({c.vms[k] : k \in DOMAIN c.vms})
    /\ c.maxRuns \in Nat \ {0} /\ c.maxEdits \in Nat

ASSUME SituationsAssumption == \A s \in Situations : IsNetBox(s) /\ IsCommand(s.cmd)

VARIABLES
    ifs,        \* ifs[id]: the subinterface with this id, None or Gone
    at,         \* at[ip]: what the IP is assigned to
    cmd,        \* the command line: its targets, the addresses of its vms
                \* and deleteEmpty; with the bounds maxRuns and maxEdits
    pc,         \* "start", "doing", "done", "stopped", "refused" or "failed"
    works,      \* the FutureWork items of the run
    left,       \* those that are still to be done
    runs,       \* number of runs begun
    edits,      \* number of changes by other users
    routed      \* history: routed[ip] is the VRF the IP was routed in when
                \* the run was planned, or when someone else assigned it

vars == <<ifs, at, cmd, pc, works, left, runs, edits, routed>>

Exists(i) == i \in Ids /\ ifs[i] \notin {None, Gone}
Named(port, sfx) == {i \in Ids : Exists(i) /\ ifs[i].port = port /\ ifs[i].sfx = sfx}

\* The VRF each IP is routed in now.
Routing == [ip \in Ips |-> IF at[ip] \in Ids THEN ifs[at[ip]].vrf ELSE None]

TypeOK ==
    /\ IsNetBox([ifs |-> ifs, at |-> at])
    /\ IsCommand(cmd)
    /\ pc \in {"start", "doing", "done", "stopped", "refused", "failed"}
    /\ left \subseteq works
    /\ runs \in 1 .. cmd.maxRuns
    /\ edits \in 0 .. cmd.maxEdits
    /\ routed \in [Ips -> VRFs \cup {None}]

Init ==
    /\ \E situation \in Situations :
          ifs = situation.ifs /\ at = situation.at /\ cmd = situation.cmd
    /\ pc = "start"
    /\ works = {}
    /\ left = {}
    /\ runs = 1
    /\ edits = 0
    /\ routed = Routing

-----------------------------------------------------------------------------
\* plan().  Everything here reads the current ifs and at.

\* get_interface_tree() of a target: the port exists, and its children by
\* parent_id are its children by name.
ByParent(port) == {i \in Ids : Exists(i) /\ ifs[i].parent = port}
ByName(port) == {i \in Ids : Exists(i) /\ ifs[i].port = port}
TreeIsSound(port) == port \in Ports /\ ByParent(port) = ByName(port)

\* get_ip_addresses_by_address(), scoped to the VRF of the VM's own address.
Answering(vmip) == {ip \in Ips : IpAddr[ip] = vmip.peer /\ IpVrf[ip] = vmip.vrf}

\* _find_gateways(): addresses without a peer are skipped on a vpn-server.
Skipped(vmip) == vmip.peer = None /\ vmip.vpn

\* The gateways that are found, with the number of the VM's address each answers.
Found ==
    {g \in (DOMAIN cmd.vms) \X Ips :
        ~Skipped(cmd.vms[g[1]]) /\ g[2] \in Answering(cmd.vms[g[1]])}
Gateways == {g[2] : g \in Found}

\* _as_gateway(): a subinterface of a device, of the parent its name says.
Sound(ip) ==
    /\ at[ip] \in Ids
    /\ ifs[at[ip]].parent \in {None, ifs[at[ip]].port}
Source(ip) == ifs[at[ip]]

\* One target per source port: the Nth of them takes the Nth of those ports.
SourcePorts == {Source(ip).port : ip \in Gateways}
TargetOf(ip) == cmd.targets[Cardinality({port \in SourcePorts : port <= Source(ip).port})]

\* The order in which plan() goes through them: by port, and as they were found.
Sooner(g, h) ==
    LET p == Source(g[2]).port
        q == Source(h[2]).port
    IN  \/ p < q
        \/ p = q /\ (g[1] < h[1] \/ (g[1] = h[1] /\ g[2] < h[2]))
Rank(g) == Cardinality({h \in Found : Sooner(h, g)})

\* The subinterface the gateway is to go to: <<port, suffix>>, and its id.
Goal(ip) == <<TargetOf(ip), Source(ip).sfx>>
IdOf(goal) == LET named == Named(goal[1], goal[2])
              IN  IF named = {} THEN None ELSE CHOOSE i \in named : TRUE
\* Mutant: no early return for a gateway that is already where it should be.
StaysNever(ip) == FALSE

Stays(ip) == IdOf(Goal(ip)) = at[ip]
\* Mutant: the VRF of an existing target subinterface is not looked at.
WrongVrfUnchecked(ip) == FALSE

WrongVrf(ip) ==
    /\ IdOf(Goal(ip)) # None
    /\ ~Stays(ip)
    /\ ifs[IdOf(Goal(ip))].vrf # Source(ip).vrf

\* Whatever plan() raises, nothing has been written.
PlanFails ==
    \/ cmd.targets = << >>
    \/ \E k \in DOMAIN cmd.targets : ~TreeIsSound(cmd.targets[k])
    \/ \E k \in DOMAIN cmd.vms :
           /\ ~Skipped(cmd.vms[k])
           /\ cmd.vms[k].peer = None \/ Answering(cmd.vms[k]) = {}
    \/ \E ip \in Gateways : ~Sound(ip)
    \/ Cardinality(SourcePorts) # Len(cmd.targets)
    \/ \E ip \in Gateways : WrongVrf(ip)

CreateWork(g) ==
    LET ip == g[2]
    IN  [nr |-> 2 * Rank(g), op |-> "create",
         port |-> Goal(ip)[1], sfx |-> Goal(ip)[2], vrf |-> Source(ip).vrf]
\* A subinterface that does not exist yet is looked up when the IP moves.
MoveWork(g) ==
    LET ip == g[2]
    IN  [nr |-> 2 * Rank(g) + 1, op |-> "move",
         ip |-> ip, from |-> at[ip], id |-> IdOf(Goal(ip)), name |-> Goal(ip)]

\* Mutant: `created` is not kept.
IsCreatedEachTime(g) == IdOf(Goal(g[2])) = None

\* _add_work(): the subinterface is created for the first gateway going there.
IsCreated(g) ==
    /\ IdOf(Goal(g[2])) = None
    /\ \A h \in Found : Sooner(h, g) => Goal(h[2]) # Goal(g[2])
Moving == {g \in Found : ~Stays(g[2])}
GatewayWorks ==
    {CreateWork(g) : g \in {g \in Moving : IsCreated(g)}} \cup {MoveWork(g) : g \in Moving}

\* _delete_empty_work(): source subinterfaces with no IP but the moved ones.
Moved == {g[2] : g \in Moving}
HeldBy(i) == {ip \in Ips : at[ip] = i}
\* Mutants: emptied[srciface.id] forgets all but the last gateway that moved;
\* the addresses that stay behind are not looked at.
EmptiedByLast ==
    {i \in {at[ip] : ip \in Moved} : \E ip \in Moved : HeldBy(i) \subseteq {ip}}
EmptiedOrNot == {at[ip] : ip \in Moved}

Emptied == {i \in {at[ip] : ip \in Moved} : HeldBy(i) \subseteq Moved}
Before(i, j) == \/ ifs[i].port < ifs[j].port
                \/ ifs[i].port = ifs[j].port /\ ifs[i].sfx < ifs[j].sfx
DeleteWork(i) ==
    [nr |-> 2 * Cardinality(Found) + Cardinality({j \in Emptied : Before(j, i)}),
     op |-> "delete", id |-> i]

Plan == GatewayWorks \cup {DeleteWork(i) : i \in IF cmd.deleteEmpty THEN Emptied ELSE {}}

-----------------------------------------------------------------------------
\* SyncCommand.run(): plan, then do the works in order; the first one that
\* fails ends the run.

\* Mutant: the second run goes on with what the first one left.
PlanRunOnwards ==
    /\ pc = "start"
    /\ IF PlanFails
       THEN pc' = "failed" /\ works' = {}
       ELSE pc' = "doing" /\ works' = Plan
    /\ left' = IF left = {} THEN works' ELSE left
    /\ routed' = Routing
    /\ UNCHANGED <<ifs, at, cmd, runs, edits>>

PlanRun ==
    /\ pc = "start"
    /\ IF PlanFails
       THEN pc' = "failed" /\ works' = {}
       ELSE pc' = "doing" /\ works' = Plan
    /\ left' = works'
    /\ routed' = Routing
    /\ UNCHANGED <<ifs, at, cmd, runs, edits>>

IsNext(w) == pc = "doing" /\ \A v \in left : w.nr <= v.nr
Perform(w) == left' = left \ {w} /\ UNCHANGED <<cmd, pc, works, runs, edits, routed>>

\* NetBox adds a subinterface; a name that is taken on the device is refused.
Add(port, sfx, vrf) ==
    /\ Named(port, sfx) = {}
    /\ \E i \in Ids :
          /\ ifs[i] = None
          /\ \A j \in Ids : j < i => ifs[j] # None
          /\ ifs' = [ifs EXCEPT ![i] = [port |-> port, sfx |-> sfx,
                                        parent |-> port, vrf |-> vrf]]

CreateInterface(w) ==
    /\ w.op = "create" /\ IsNext(w)
    /\ Add(w.port, w.sfx, w.vrf)
    /\ UNCHANGED at
    /\ Perform(w)

\* The named_lambda of the target is resolved now, by name.
Resolved(w) == IF w.id = None THEN IdOf(w.name) ELSE w.id

ReassignIPAddress(w) ==
    /\ w.op = "move" /\ IsNext(w)
    /\ Exists(Resolved(w))
    /\ at' = [at EXCEPT ![w.ip] = Resolved(w)]
    /\ UNCHANGED ifs
    /\ Perform(w)

\* NetBox unassigns the addresses of an interface that is deleted (see the
\* docstring of ZapInterfaceCommand).
DeleteInterface(w) ==
    /\ w.op = "delete" /\ IsNext(w)
    /\ Exists(w.id)
    /\ ifs' = [ifs EXCEPT ![w.id] = Gone]
    /\ at' = [ip \in Ips |-> IF at[ip] = w.id THEN None ELSE at[ip]]
    /\ Perform(w)

\* NetBox refuses the write for what it holds.
Refused(w) ==
    /\ IsNext(w)
    /\ \/ w.op = "create" /\ Named(w.port, w.sfx) # {}
       \/ w.op = "move" /\ ~Exists(Resolved(w))
       \/ w.op = "delete" /\ ~Exists(w.id)
    /\ pc' = "refused"
    /\ UNCHANGED <<ifs, at, cmd, works, left, runs, edits, routed>>

\* The user interrupts the run, or NetBox cannot be reached any more.
Stop ==
    /\ pc = "doing"
    /\ left # {}
    /\ pc' = "stopped"
    /\ UNCHANGED <<ifs, at, cmd, works, left, runs, edits, routed>>

Finish ==
    /\ pc = "doing"
    /\ left = {}
    /\ pc' = "done"
    /\ UNCHANGED <<ifs, at, cmd, works, left, runs, edits, routed>>

\* The same command is given again.
RunAgain ==
    /\ pc \in {"done", "stopped", "refused", "failed"}
    /\ runs < cmd.maxRuns
    /\ runs' = runs + 1
    /\ pc' = "start"
    /\ UNCHANGED <<ifs, at, cmd, works, left, edits, routed>>

\* Someone else adds a subinterface, or deletes one that holds no address.
SomeoneAdds(port, sfx, vrf) ==
    /\ edits < cmd.maxEdits
    /\ Add(port, sfx, vrf)
    /\ edits' = edits + 1
    /\ UNCHANGED <<at, cmd, pc, works, left, runs, routed>>

SomeoneDeletes(i) ==
    /\ edits < cmd.maxEdits
    /\ Exists(i)
    /\ HeldBy(i) = {}
    /\ ifs' = [ifs EXCEPT ![i] = Gone]
    /\ edits' = edits + 1
    /\ UNCHANGED <<at, cmd, pc, works, left, runs, routed>>

\* Someone else assigns an address that is not assigned to anything.
SomeoneAssigns(ip, i) ==
    /\ edits < cmd.maxEdits
    /\ at[ip] = None
    /\ Exists(i)
    /\ at' = [at EXCEPT ![ip] = i]
    /\ routed' = [routed EXCEPT ![ip] = ifs[i].vrf]
    /\ edits' = edits + 1
    /\ UNCHANGED <<ifs, cmd, pc, works, left, runs>>

Next ==
    \/ PlanRun
    \/ \E w \in left : \/ CreateInterface(w)
                      \/ ReassignIPAddress(w)
                      \/ DeleteInterface(w)
                      \/ Refused(w)
    \/ Stop
    \/ Finish
    \/ RunAgain
    \/ \E port \in Ports, sfx \in SubNumbers, vrf \in VRFs : SomeoneAdds(port, sfx, vrf)
    \/ \E i \in Ids : SomeoneDeletes(i)
    \/ \E ip \in Ips, i \in Ids : SomeoneAssigns(ip, i)

Spec == Init /\ [][Next]_vars

-----------------------------------------------------------------------------
\* Properties.

MovesOf(ip) == {w \in works : w.op = "move" /\ w.ip = ip}

\* The VRF of the gateway that w moves, or of one that is moved to the same
\* subinterface before it.
Fits(vrf, w) ==
    \/ vrf = routed[w.ip]
    \/ \E v \in works : /\ v.op = "move" /\ v.name = w.name /\ v.nr < w.nr
                        /\ vrf = routed[v.ip]

\* No gateway is rerouted onto a subinterface that exists (the VRF check of
\* _add_work, migr_gw.py:261-269).  One for which the subinterface is still to
\* be made (migr_gw.py:275-302) ends up in its own VRF, or in that of an earlier
\* gateway that the same run moves there: which is another VRF only if a target
\* is given twice, as `created` does not look at the VRF (migr_gw.py:278).
\* That is so unless others change NetBox twice: they can put a subinterface of
\* another VRF in the place of the one that was made.
VrfKept ==
    \A ip \in Ips :
        at[ip] \in Ids =>
            \/ ifs[at[ip]].vrf = routed[ip]
            \/ \E w \in MovesOf(ip) : w.id = None /\ (edits > 1 \/ Fits(ifs[at[ip]].vrf, w))

\* The addresses that the run takes off again what it has moved them to: with
\* --delete-empty, those whose target is a source subinterface that is emptied
\* (migr_gw.py:357, it was looked at before anything moved).
Undone ==
    {w.ip : w \in {w \in works : /\ w.op = "move"
                                 /\ \E d, v \in works :
                                       /\ d.op = "delete" /\ d.id = w.id
                                       /\ v.op = "move" /\ v.from = w.id}}

\* After a run that succeeded, with nobody else writing and nothing Undone,
\* planning the same command succeeds as well and finds nothing to do (the early
\* return of _add_work, migr_gw.py:251-254).  Not so for targets that are not in
\* ascending order: sorted, the ports are paired differently.
AscendingTargets ==
    \A j, k \in DOMAIN cmd.targets : j < k => cmd.targets[j] < cmd.targets[k]
SecondRunDoesNothing ==
    pc = "done" /\ edits = 0 /\ Undone = {} /\ AscendingTargets => ~PlanFails /\ Plan = {}

\* The subinterface an address is on, by name.
Home(ip) == IF at[ip] \in Ids THEN <<ifs[at[ip]].port, ifs[at[ip]].sfx>> ELSE <<at[ip]>>

\* After a run that succeeded with nobody else writing, every gateway it listed
\* is where the listing said (migr_gw.py:321-338), the Undone ones excepted,
\* which are on nothing; and with --delete-empty no source subinterface of
\* theirs is left without IPs (migr_gw.py:343-369).
SuccessMeansMoved ==
    pc = "done" /\ edits = 0 =>
        \A w \in works : w.op = "move" =>
            /\ Home(w.ip) = IF w.ip \in Undone THEN <<None>> ELSE w.name
            /\ cmd.deleteEmpty /\ Exists(w.from) => HeldBy(w.from) # {}

\* Nothing in the list of works stands in the way of what comes after it: with
\* nobody else writing, NetBox refuses none of them.
NotSelfRefused == edits = 0 => pc # "refused"

\* Seen from the addresses a run is a relocation.  Lost are the Undone ones,
\* and those that the run did not list and that someone else assigns to a
\* subinterface it is to delete: it was empty when the run was planned
\* (migr_gw.py:357-361).
Strays ==
    {ip \in Ips : /\ MovesOf(ip) = {}
                  /\ \E d \in works : d.op = "delete" /\ d.id = at[ip]}

Addresses == INSTANCE Relocation
    WITH Addresses <- Ips,
         Places <- (Ports \X SubNumbers) \cup {<<None>>, <<OnPort>>, <<OnVm>>},
         Nowhere <- <<None>>,
         home <- [ip \in Ips |-> Home(ip)],
         goal <- [ip \in {ip \in Ips : MovesOf(ip) # {}} |->
                      (CHOOSE w \in MovesOf(ip) : TRUE).name],
         lost <- Undone \cup Strays

\* Every gateway goes in one write from the subinterface it is on to the one it
\* was listed for (migr_gw.py:317-338), an address that was not listed is not
\* moved, and a run that is cut short leaves each in its old or its new place;
\* only the Undone ones and the Strays are ever unassigned.  All that with
\* others who assign addresses that have no place, add subinterfaces and delete
\* empty ones; not with others who move the addresses themselves.
ImplementsRelocation == Addresses!Spec

\* What the help of the subcommand says (migr_gw.py:31-36): gateways are moved
\* to another subinterface, and "The VRF moves along onto the new interface".
\* Not so for targets that are given twice, or that are source ports as well.
GatewaysArrive ==
    pc = "done" /\ edits = 0 =>
        \A w \in works : w.op = "move" =>
            at[w.ip] \in Ids /\ ifs[at[w.ip]].vrf = routed[w.ip]
=============================================================================
