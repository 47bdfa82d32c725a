------------------------- MODULE InterfaceCommands -------------------------
(***************************************************************************)
(* Runs of zap-interface, migrate-interface, clone-interface and           *)
(* set-interface-type, one after the other, on one NetBox.  A run reads    *)
(* and plans, then performs its works one API write at a time, and may     *)
(* stop between any two of them; the command may then be given again.      *)
(*                                                                         *)
(* Meanwhile somebody else may put a loose address on an interface, and    *)
(* delete a subinterface that has none.                                    *)
(***************************************************************************)
EXTENDS ZapInterface, MigrateInterface, CloneInterface, SetInterfaceType

CONSTANTS
    Situations      \* [netbox, script, maxRuns, maxEdits]: what is called where

Command ==
    [name : {"zap"}, targets : Seq(Ports)] \cup
    [name : {"migrate", "clone"}, src : Ports, tgt : Ports] \cup
    [name : {"set-type"}, targets : Seq(Ports), kind : Kinds]

ASSUME SituationsAssumption ==
    \A s \in Situations :
        /\ IsNetBox(s.netbox)
        /\ s.script \in Seq(Command) \ {<< >>}
        /\ s.maxRuns \in Nat \ {0} /\ s.maxEdits \in Nat

VARIABLES
    script,     \* the commands left to give, the current one first
    pc,         \* "plan", "do", or how the run ended
    works,      \* the works left to do
    run,        \* number of the run of the current command
    edits,      \* number of changes by others
    was,        \* the NetBox when the current command was first given
    before,     \* the command before this one
    limits      \* the bounds maxRuns and maxEdits

vars == <<ifs, ips, at, script, pc, works, run, edits, was, before, limits>>
rest == <<script, run, edits, was, before, limits>>

Zap(targets) == [name |-> "zap", targets |-> targets]
Migrate(src, tgt) == [name |-> "migrate", src |-> src, tgt |-> tgt]
Clone(src, tgt) == [name |-> "clone", src |-> src, tgt |-> tgt]
SetType(targets, kind) == [name |-> "set-type", targets |-> targets, kind |-> kind]
NoCommand == [name |-> "none"]

cmd == Head(script)
Zapping == cmd.name = "zap"
Migrating == cmd.name = "migrate"
Cloning == cmd.name = "clone"
Setting == cmd.name = "set-type"

Init ==
    /\ \E situation \in Situations :
           /\ ifs = situation.netbox.ifs
           /\ ips = situation.netbox.ips
           /\ at = situation.netbox.at
           /\ script = situation.script
           /\ limits = [maxRuns |-> situation.maxRuns, maxEdits |-> situation.maxEdits]
    /\ pc = "plan"
    /\ works = {}
    /\ run = 1
    /\ edits = 0
    /\ was = netbox
    /\ before = NoCommand

-----------------------------------------------------------------------------
\* A run.

Fails ==
    \/ Zapping /\ ZapFails(cmd.targets)
    \/ Migrating /\ MigrateFails(cmd.src, cmd.tgt)
    \/ Cloning /\ CloneFails(cmd.src, cmd.tgt)
    \/ Setting /\ SetTypeFails(cmd.targets)

ThePlan ==
    CASE Zapping -> ZapPlan(cmd.targets)
      [] Migrating -> MigratePlan(cmd.src, cmd.tgt)
      [] Cloning -> ClonePlan(cmd.src, cmd.tgt)
      [] OTHER -> SetTypePlan(cmd.targets, cmd.kind)

Plan ==
    /\ pc = "plan"
    /\ IF Fails THEN pc' = "failed" /\ UNCHANGED works
       ELSE pc' = "do" /\ works' = ThePlan
    /\ UNCHANGED <<ifs, ips, at, rest>>

IsNext(w) == w \in works /\ \A v \in works : ~Sooner(v, w)

DoWork(w) ==
    /\ pc = "do" /\ IsNext(w)
    /\ Resolves(w) /\ Accepts(w)
    /\ Execute(w)
    /\ works' = works \ {w}
    /\ UNCHANGED <<pc, rest>>

WorkFails(w) ==
    /\ pc = "do" /\ IsNext(w)
    /\ \/ ~Resolves(w) /\ pc' = "failed"
       \/ Resolves(w) /\ ~Accepts(w) /\ pc' = "refused"
    /\ UNCHANGED <<ifs, ips, at, works, rest>>

Stop ==
    /\ pc = "do" /\ works # {} /\ run < limits.maxRuns
    /\ pc' = "stopped"
    /\ UNCHANGED <<ifs, ips, at, works, rest>>

\* Mutant: with works left.
FinishEarly ==
    /\ pc = "do"
    /\ pc' = "done"
    /\ UNCHANGED <<ifs, ips, at, works, rest>>

Finish ==
    /\ pc = "do" /\ works = {}
    /\ pc' = "done"
    /\ UNCHANGED <<ifs, ips, at, works, rest>>

-----------------------------------------------------------------------------
\* Around the run.

RunAgain ==
    /\ pc \in {"stopped", "refused", "failed"} /\ run < limits.maxRuns
    /\ pc' = "plan"
    /\ run' = run + 1
    /\ works' = {}
    /\ UNCHANGED <<ifs, ips, at, script, edits, was, before, limits>>

NextCommand ==
    /\ pc = "done" /\ Len(script) > 1
    /\ script' = Tail(script)
    /\ before' = cmd
    /\ pc' = "plan"
    /\ run' = 1
    /\ was' = netbox
    /\ UNCHANGED <<ifs, ips, at, works, edits, limits>>

SomeoneAssigns(ip, i) ==
    /\ pc = "do" /\ edits < limits.maxEdits
    /\ ip \in InUse(ips) /\ ips[ip].on = None /\ was.ips[ip] = ips[ip]
    /\ i \in InUse(ifs)
    /\ ips' = [ips EXCEPT ![ip].on = i]
    /\ edits' = edits + 1
    /\ UNCHANGED <<ifs, at, script, pc, works, run, was, before, limits>>

SomeoneDeletes(i) ==
    /\ pc = "do" /\ edits < limits.maxEdits
    /\ i \in InUse(ifs) /\ ifs[i].sub # 0 /\ IpsOn(i) = {}
    /\ \A j \in InUse(ifs) : ifs[j].parent # i
    /\ ifs' = [ifs EXCEPT ![i] = Gone]
    /\ edits' = edits + 1
    /\ UNCHANGED <<ips, at, script, pc, works, run, was, before, limits>>

Next ==
    \/ Plan
    \/ \E w \in works : DoWork(w) \/ WorkFails(w)
    \/ Stop
    \/ Finish
    \/ RunAgain
    \/ NextCommand
    \/ \E i \in Ids : (\E ip \in Ips : SomeoneAssigns(ip, i)) \/ SomeoneDeletes(i)

Spec == Init /\ [][Next]_vars

-----------------------------------------------------------------------------
\* Properties.

TypeOK ==
    /\ IsNetBox(netbox) /\ IsNetBox(was)
    /\ pc \in {"plan", "do", "done", "stopped", "refused", "failed"}
    /\ run \in 1 .. limits.maxRuns
    /\ edits \in 0 .. limits.maxEdits
    /\ script \in Seq(Command) \ {<< >>}
    /\ pc \in {"plan", "done"} => works = {}

Alone == edits = 0
Succeeded == Alone /\ pc = "done"

\* Where an address record of some NetBox is: <<port, sub>>, None or Gone.
PlaceIn(nb, ip) ==
    IF ~Exists(nb.ips, ip) THEN Gone
    ELSE IF nb.ips[ip].on = None THEN None
    ELSE <<nb.ifs[nb.ips[ip].on].port, nb.ifs[nb.ips[ip].on].sub>>
Place(ip) == PlaceIn(netbox, ip)
Was(ip) == PlaceIn(was, ip)
\* No interface is called like one of the two.
ASSUME PlacesAssumption == {None, Gone} \cap (Ports \X (SubNumbers \cup {0})) = {}
Somewhere(place) == place \notin {None, Gone}
Placed == {ip \in Ips : Somewhere(Was(ip))}

\* Interfaces of the NetBox when the command was given.
WasOn(port) == {i \in InUse(was.ifs) : was.ifs[i].port = port}

SourceIsIPv4 == \A ip \in Placed : was.ips[ip].addr \notin V6

\* What the theorems ask of the instance.  A subinterface is a child of a port,
\* never of a subinterface: get_interface_tree() does not look for grandchildren.
ParentsArePorts(nb) ==
    \A i \in InUse(nb.ifs) : nb.ifs[i].parent # None => nb.ifs[nb.ifs[i].parent].sub = 0
NoGrandchildren == \A s \in Situations : ParentsArePorts(s.netbox)
\* A port does not have the id that the far end of a cable has in another table.
EndsDoNotClash ==
    \A t, u \in Ports \cup OtherEnds : IdOfEnd[t] = IdOfEnd[u] => t = u

\* "Deleting a subinterface in NetBox would only unassign its addresses, leaving
\* them behind" (zap-interface): wherever runs stop, each address that was on an
\* interface when the command was given still is, with others who assign what is
\* on nothing and delete subinterfaces that hold nothing.  Only zap-interface
\* deletes, and what is on its targets; only migrate-interface moves, and from an
\* interface of its source to the one it becomes.
NoAddressLeftLoose ==
    \A ip \in Placed :
        \/ Place(ip) = Was(ip)
        \/ Zapping /\ Was(ip)[1] \in Range(cmd.targets) /\ Place(ip) = Gone
        \/ Migrating /\ Was(ip)[1] = cmd.src /\ Place(ip) = <<cmd.tgt, Was(ip)[2]>>

\* "Keeps the interface, its type, cable and MACs, but deletes its subinterfaces
\* and the IPs on them and on it".
ZapLeavesThePort ==
    /\ at = was.at
    /\ \A port \in Ports :
           IF port \notin Range(cmd.targets)
           THEN \A i \in WasOn(port) : ifs[i] = was.ifs[i]
           ELSE /\ ByName(port) = {} /\ ByParent(port) = {}
                /\ IpsOn(IdOf(port, 0)) = {}
                /\ \A i \in WasOn(port) : was.ifs[i].sub = 0 =>
                       Values(i) = [conf |-> Blank, kind |-> was.ifs[i].kind, vrf |-> None]

\* "Migrate properties of an interface -- subinterfaces, IPs ... -- from source
\* to target", and "the subinterfaces of the source are deleted once moved".
MigrateMoves ==
    cmd.src # cmd.tgt =>
        /\ ByName(cmd.src) = {}
        /\ \A i \in WasOn(cmd.src) :
               LET j == IdOf(cmd.tgt, was.ifs[i].sub)
               IN  /\ j # None
                   /\ Values(j) = [conf |-> was.ifs[i].conf, kind |-> was.ifs[i].kind,
                                   vrf |-> was.ifs[i].vrf]
        /\ \A ip \in Placed : Was(ip)[1] = cmd.src => Place(ip)[1] = cmd.tgt

\* "... and cables": the target is plugged in where the source was, and the
\* cables of everything else stay as they were.
MigrateMovesTheCable ==
    Migrating /\ Succeeded /\ was.at[cmd.src] # None =>
        at = [was.at EXCEPT ![cmd.src] = None, ![cmd.tgt] = was.at[cmd.src]]

\* "It will duplicate the virtual child interfaces, and copy the IPv4 addresses
\* to the appropriate child (VLAN) interfaces.  It sets role=anycast on the IPs":
\* each address of the source is then on both, and stays where it was.
CloneCopies ==
    \A i \in WasOn(cmd.src) :
        was.ifs[i].sub = 0 \/ was.ifs[i].conf # NotCloned =>
            LET j == IdOf(cmd.tgt, was.ifs[i].sub)
                on(k) == {<<ips[ip].addr, ips[ip].vrf>> : ip \in IpsOn(k)}
            IN  /\ j # None /\ Values(j) = Values(i)
                /\ ifs[i] = was.ifs[i]
                /\ on(i) = on(j)
                /\ \A ip \in IpsOn(i) : Place(ip) = Was(ip)

TypeIsSet ==
    /\ ips = was.ips /\ at = was.at
    /\ \A i \in InUse(was.ifs) :
           ifs[i] = IF was.ifs[i].sub = 0 /\ was.ifs[i].port \in Range(cmd.targets)
                    THEN [was.ifs[i] EXCEPT !.kind = cmd.kind] ELSE was.ifs[i]

\* A command that succeeds, if need be after runs that stopped, has done what its
\* help says of it and nothing else.
SuccessMeansDone ==
    Succeeded =>
        /\ Zapping => ZapLeavesThePort
        /\ Migrating => MigrateMoves
        /\ MigrateMovesTheCable
        /\ Cloning => CloneCopies
        /\ Setting => TypeIsSet

\* The works are in an order that NetBox accepts, as long as nobody else is at
\* it, with two exceptions.  All ports of a command line are planned before
\* anything is done, so a port that is given to zap-interface twice has its
\* addresses deleted twice.  And migrate-interface is refused when its target is
\* on a cable of its own; the cable goes first, so that nothing has been moved.
RefusedInTime ==
    Alone /\ pc = "refused" =>
        \/ Zapping /\ ~IsInjective(cmd.targets)
        \/ Migrating /\ was.at[cmd.tgt] # None /\ netbox = was

\* Wherever they stopped, zap-interface, set-interface-type and, with IPv4
\* addresses of which an interface has no two records, clone-interface can be given
\* again: plan() accepts what a run has left, and after one that succeeded there is
\* nothing to do.  "Useful to wipe the target before calling migrate-interface":
\* what zap-interface has done is a target that migrate-interface accepts.
AddressedOnce ==
    \A ip, other \in Placed :
        was.ips[ip].on = was.ips[other].on /\ was.ips[ip].addr = was.ips[other].addr =>
            ip = other
Resumable == Zapping \/ Setting \/ (Cloning /\ SourceIsIPv4 /\ AddressedOnce)
CanBeGivenAgain ==
    Alone =>
        /\ pc = "failed" =>
               /\ Resumable => netbox = was /\ before # cmd
               /\ Migrating /\ run = 1 /\ before = Zap(<<cmd.tgt>>) =>
                      ~TreeIsSound(cmd.src) \/ CableForks(cmd.src)
        /\ before = cmd => netbox = was
=============================================================================
