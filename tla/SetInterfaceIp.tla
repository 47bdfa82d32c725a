--------------------------- MODULE SetInterfaceIp ---------------------------
(***************************************************************************)
(* nbsync set-interface-ip and set-interface-ip-by-mac: each line names an *)
(* interface and the address it is to have.  A line is planned by          *)
(* plan_one() from the NetBox of that moment and then done one write at a  *)
(* time; a single pair of arguments is a stream of one line.               *)
(*                                                                         *)
(* A target is a DEV:IFACE or a MAC; what looking it up comes to does not  *)
(* change while the command runs.  An address includes its mask, as in the *)
(* lookup: the same address with another mask is another address.          *)
(***************************************************************************)
EXTENDS Integers, Sequences, FiniteSets, SequencesExt

CONSTANTS
    Interfaces,     \* <<table, id>>, of the tables "dcim" and "vm"
    Targets,        \* what a line can name
    Place,          \* Place[t]: the interface, or why there is none
    Addrs,          \* addresses
    VRFs,           \* VRFs in NetBox, and the absence of one
    Statuses,       \* address statuses
    Ids,            \* bound: ids of address records, handed out in order
    None,           \* in recs: no record has this id yet
    Deleted,        \* in recs: the record with this id was deleted
    Nothing,        \* what a record that is assigned to nothing is on
    Unrecognised,   \* in Place: the lookup raises, a StateError
    Unassigned,     \* in Place: a MAC that is assigned to nothing
    Situations      \* [recs, cmd]: a NetBox, and what is called there

ASSUME PlacesAssumption ==
    /\ Interfaces \subseteq {"dcim", "vm"} \X Nat
    /\ Nothing \notin {"dcim", "vm"} \X Nat
    /\ Ids \subseteq Nat /\ IsFiniteSet(Ids)
    /\ {Unrecognised, Unassigned} \cap Interfaces = {}
    /\ Place \in [Targets -> Interfaces \cup {Unrecognised, Unassigned}]

Record == [addr : Addrs, on : Interfaces \cup {Nothing}, vrf : VRFs,
           status : Statuses, anycast : BOOLEAN]

\* A command line.  A --vrf that NetBox does not know is not one of VRFs.
IsCommand(c) ==
    /\ c.lines \in Seq([target : Targets, ip : Addrs])
    /\ {c.force, c.single, c.keepGoing} \subseteq BOOLEAN
    /\ c.status \in Statuses
    /\ c.maxEdits \in Nat

ASSUME SituationsAssumption ==
    /\ None \notin Record /\ Deleted \notin Record /\ None # Deleted
    /\ \A s \in Situations :
           s.recs \in [Ids -> Record \cup {None, Deleted}] /\ IsCommand(s.cmd)

VARIABLES
    recs,       \* recs[id]: the address record with this id
    cmd,        \* the lines, force, single, status, vrf and keepGoing; maxEdits
    pc,         \* where the run is, or how it ended
    line,       \* number of the line that is next, or being done
    works,      \* what is to be done for it
    pos,        \* index of the next one
    done,       \* the lines that were done
    edits       \* number of changes by other users

vars == <<recs, cmd, pc, line, works, pos, done, edits>>

Held == {r \in Ids : recs[r] \notin {None, Deleted}}

TypeOK ==
    /\ recs \in [Ids -> Record \cup {None, Deleted}]
    /\ pc \in {"prepare", "next", "do", "done", "StateError", "crashed", "stopped"}
    /\ line \in 1 .. (Len(cmd.lines) + 1)
    /\ pos \in 1 .. (Len(works) + 1)
    /\ done \subseteq 1 .. (line - 1)
    /\ edits \in 0 .. cmd.maxEdits

Init ==
    /\ \E situation \in Situations : recs = situation.recs /\ cmd = situation.cmd
    /\ pc = "prepare"
    /\ line = 1
    /\ works = << >>
    /\ pos = 1
    /\ done = {}
    /\ edits = 0

\* An unknown --vrf ends the run before the first line.
Prepare ==
    /\ pc = "prepare"
    /\ pc' = IF cmd.vrf \in VRFs THEN "next" ELSE "StateError"
    /\ UNCHANGED <<recs, cmd, line, works, pos, done, edits>>

-----------------------------------------------------------------------------
\* plan_one() of a line v = [target, ip].

Iface(v) == Place[v.target]

\* Two interface records of pynetbox are the same when their ids are, and
\* those of a device and of a VM both are of an endpoint called "interfaces".
Same(x, y) == x \in Interfaces /\ y \in Interfaces /\ x[2] = y[2]

\* ips, good_ips, my_other_ips and elsewhere_ips
Found(v) == {r \in Held : recs[r].addr = v.ip}
Good(v) == {r \in Found(v) : Same(recs[r].on, Iface(v))}
OnIface(v) == {r \in Held : recs[r].on = <<"dcim", Iface(v)[2]>>}
MyOther(v) == OnIface(v) \ Good(v)
\* Mutant: what is elsewhere is looked for among the assigned ones only.
ElsewhereAssigned(v) == {r \in Found(v) \ Good(v) : recs[r].on # Nothing}

Elsewhere(v) == Found(v) \ Good(v)

\* What --force moves here; there is one at most by then.
Taken(v) == IF cmd.force THEN Elsewhere(v) ELSE {}
\* Mutant: everything that is here goes.
DroppedAll(v) == IF cmd.single THEN OnIface(v) ELSE {}

Kept(v) == Good(v) \cup Taken(v)
Dropped(v) == IF cmd.single THEN MyOther(v) ELSE {}
\* Mutant: only the status is looked at.
WrongStatus(r) == recs[r].status # cmd.status

\* Of a record that was taken this is what it was before.
Wrong(r) == recs[r].status # cmd.status \/ recs[r].vrf # cmd.vrf
Fixed(v) == {r \in Kept(v) : Wrong(r)}

\* _make_named_ip() asks for iface.device; a VM's interface has none, and what
\* is assigned to nothing has no interface.
CanBeNamed(x) == x \in Interfaces /\ x[1] = "dcim"
Unnameable(v) ==
    \/ \E r \in Taken(v) : ~CanBeNamed(recs[r].on)
    \/ ~CanBeNamed(Iface(v)) /\ (Taken(v) # {} \/ Kept(v) = {} \/ Fixed(v) # {})

\* Mutant: several records elsewhere, or an anycast one, are nothing special.
NoAnycast(v) == FALSE

Anycast(v) ==
    \/ Cardinality(Elsewhere(v)) > 1
    \/ \E r \in Elsewhere(v) : recs[r].anycast

Verdict(v) ==
    CASE Iface(v) = Unrecognised                 -> "StateError"
      [] Iface(v) = Unassigned                   -> "crashed"   \* None.id
      [] Iface(v) \in Interfaces /\ Anycast(v)   -> "crashed"   \* NotImplementedError
      [] Iface(v) \in Interfaces /\ ~Anycast(v)  ->
            IF Elsewhere(v) # {} /\ ~cmd.force THEN "StateError"
            ELSE IF Unnameable(v) THEN "crashed" ELSE "fine"

Work(op, r, v) == [op |-> op, id |-> r, to |-> Iface(v), ip |-> v.ip]
Each(op, order, v) == [k \in DOMAIN order |-> Work(op, order[k], v)]

\* The works of a line.  Sets are walked in an order of their own.
Orders(v) == SetToSeqs(Taken(v)) \X SetToSeqs(Dropped(v)) \X SetToSeqs(Fixed(v))
InOrder(o, v) ==
    Each("reassign", o[1], v) \o Each("delete", o[2], v)
        \o (IF Kept(v) = {} THEN <<Work("assign", None, v)>> ELSE << >>)
        \o Each("modify", o[3], v)
Plans(v) == {InOrder(o, v) : o \in Orders(v)}

-----------------------------------------------------------------------------
\* _do_item()

Line == cmd.lines[line]

PlanLine ==
    /\ pc = "next" /\ line <= Len(cmd.lines)
    /\ Verdict(Line) = "fine"
    /\ works' \in Plans(Line)
    /\ pos' = 1
    /\ pc' = "do"
    /\ UNCHANGED <<recs, cmd, line, done, edits>>

LineFails ==
    /\ pc = "next" /\ line <= Len(cmd.lines)
    /\ Verdict(Line) # "fine"
    /\ IF Verdict(Line) = "StateError" /\ cmd.keepGoing
       THEN line' = line + 1 /\ UNCHANGED pc
       ELSE pc' = Verdict(Line) /\ UNCHANGED line
    /\ UNCHANGED <<recs, cmd, works, pos, done, edits>>

\* Mutant: two lines are taken from the stream for each that is done.
LineDoneTakesTwo ==
    /\ pc = "do" /\ pos > Len(works)
    /\ pc' = "next"
    /\ line' = line + 2
    /\ done' = done \cup {line}
    /\ UNCHANGED <<recs, cmd, works, pos, edits>>

LineDone ==
    /\ pc = "do" /\ pos > Len(works)
    /\ pc' = "next"
    /\ line' = line + 1
    /\ done' = done \cup {line}
    /\ UNCHANGED <<recs, cmd, works, pos, edits>>

Finish ==
    /\ pc = "next" /\ line > Len(cmd.lines)
    /\ pc' = "done"
    /\ UNCHANGED <<recs, cmd, line, works, pos, done, edits>>

-----------------------------------------------------------------------------
\* The works.

Doing(op) == pc = "do" /\ pos <= Len(works) /\ works[pos].op = op
Advance == pos' = pos + 1 /\ UNCHANGED <<cmd, pc, line, works, done, edits>>

ReassignIPAddress ==
    /\ Doing("reassign")
    /\ works[pos].id \in Held
    /\ recs' = [recs EXCEPT ![works[pos].id].on = works[pos].to,
                            ![works[pos].id].status = cmd.status,
                            ![works[pos].id].vrf = cmd.vrf]
    /\ Advance

DeleteIPAddress ==
    /\ Doing("delete")
    /\ works[pos].id \in Held
    /\ recs' = [recs EXCEPT ![works[pos].id] = Deleted]
    /\ Advance

\* NetBox adds a record, with the next id.
Add(rec) ==
    \E r \in Ids :
        /\ recs[r] = None
        /\ \A s \in Ids : s < r => recs[s] # None
        /\ recs' = [recs EXCEPT ![r] = rec]

AssignIPAddress ==
    /\ Doing("assign")
    /\ Add([addr |-> works[pos].ip, on |-> works[pos].to, vrf |-> cmd.vrf,
            status |-> cmd.status, anycast |-> FALSE])
    /\ Advance

ModifyIPAddress ==
    /\ Doing("modify")
    /\ works[pos].id \in Held
    /\ recs' = [recs EXCEPT ![works[pos].id].status = cmd.status,
                            ![works[pos].id].vrf = cmd.vrf]
    /\ Advance

\* A write fails, for whatever NetBox has against it, or the user interrupts:
\* --keep-going does not carry on past either.
Stop ==
    /\ pc = "do" /\ pos <= Len(works)
    /\ pc' = "stopped"
    /\ UNCHANGED <<recs, cmd, line, works, pos, done, edits>>

\* Somebody else moves, deletes or adds a record.
Others == /\ edits < cmd.maxEdits
          /\ pc \in {"next", "do"}
          /\ edits' = edits + 1
          /\ UNCHANGED <<cmd, pc, line, works, pos, done>>
SomeoneMoves(r, x) == Others /\ r \in Held /\ recs' = [recs EXCEPT ![r].on = x]
SomeoneDeletes(r) == Others /\ r \in Held /\ recs' = [recs EXCEPT ![r] = Deleted]
SomeoneAdds(rec) == Others /\ Add(rec)

Next ==
    \/ Prepare
    \/ PlanLine
    \/ LineFails
    \/ LineDone
    \/ Finish
    \/ ReassignIPAddress
    \/ DeleteIPAddress
    \/ AssignIPAddress
    \/ ModifyIPAddress
    \/ Stop
    \/ \E r \in Ids, x \in Interfaces \cup {Nothing} : SomeoneMoves(r, x)
    \/ \E r \in Ids : SomeoneDeletes(r)
    \/ \E addr \in Addrs, x \in Interfaces :
          SomeoneAdds([addr |-> addr, on |-> x, vrf |-> CHOOSE vrf \in VRFs : TRUE,
                       status |-> CHOOSE s \in Statuses : TRUE, anycast |-> FALSE])

Spec == Init /\ [][Next]_vars

-----------------------------------------------------------------------------
\* Properties.

\* What a line is for: its interface has its address, with the status and VRF
\* that were asked for, nothing else has it, and with --single the interface
\* has nothing else.  (Only addresses on device interfaces are looked up.)
IsSet(v) ==
    /\ \E r \in Found(v) : recs[r].on = Iface(v)
    /\ \A r \in Found(v) : /\ Same(recs[r].on, Iface(v))
                           /\ recs[r].status = cmd.status /\ recs[r].vrf = cmd.vrf
    /\ cmd.single /\ CanBeNamed(Iface(v)) =>
           \A r \in Held : recs[r].on = Iface(v) => recs[r].addr = v.ip

\* A line that was done stays set until a later line has its interface or its
\* address in it, through all the lines between, failed or done, and wherever
\* the run stops (the stream of leases in the docstring of the class).
Overtaken(k) ==
    \E m \in (k + 1) .. line :
        /\ m <= Len(cmd.lines)
        /\ \/ cmd.lines[m].ip = cmd.lines[k].ip
           \/ Iface(cmd.lines[m]) = Iface(cmd.lines[k])
LinesStand ==
    edits = 0 => \A k \in done : ~Overtaken(k) => IsSet(cmd.lines[k])

\* The same line once more has nothing to do: a lease that is renewed costs no
\* write (tests/synccmd/test_set_if_ip.no-change.json).
SecondTimeDoesNothing ==
    edits = 0 /\ pc = "next" /\ (line - 1) \in done =>
        /\ Verdict(cmd.lines[line - 1]) = "fine"
        /\ Plans(cmd.lines[line - 1]) = {<< >>}

\* A run by itself never makes a second record for an address that has one.
Records(addr) == {r \in Held : recs[r].addr = addr}
NoSecondRecord ==
    [][edits' = 0 =>
          \A addr \in Addrs : Records(addr) # {} =>
              Cardinality(Records(addr)') <= Cardinality(Records(addr))]_vars

\* The help of --force and --single: nothing is taken from elsewhere, and no
\* other address deleted, without them, and the line's own address never; an
\* anycast record is not taken at all.
TakesOnlyByForce ==
    [][\A r \in Ids :
          /\ Doing("reassign") /\ edits' = edits /\ recs'[r] # recs[r] =>
                 cmd.force /\ ~recs[r].anycast
          /\ Doing("delete") /\ edits' = edits /\ recs'[r] # recs[r] =>
                 cmd.single /\ recs[r].addr # Line.ip]_vars

\* The help of --single: "Delete any other IP found here" (set_if_ip.py:51).
DeletesOnlyHere ==
    [][edits' = 0 /\ Doing("delete") =>
          \A r \in Ids : recs'[r] # recs[r] => recs[r].on = Iface(Line)]_vars
=============================================================================
