------------------------------ MODULE LintRun ------------------------------
(***************************************************************************)
(* An nblint run: it gives one command after the other its listings, one   *)
(* read at a time, and reports what the command makes of them.  Others     *)
(* write to NetBox between the listings, so that they need not fit         *)
(* together.                                                               *)
(*                                                                         *)
(* The pages or chunks that one listing is read in are taken as one look.  *)
(***************************************************************************)
EXTENDS IpamLints, PortLints

CONSTANTS
    Gone,           \* written for a row: it is deleted
    Situations      \* [db, cmds, writes, maxWrites]: a NetBox, what is called
                    \* there, and the <<table, id, row>> that others may write

Tables == {"prefixes", "addresses", "devices", "ifaces", "macs"}
LintNames == {"empty-prefixes", "unparented-ips", "duplicate-prefixes", "duplicate-ips",
              "unattached-interfaces", "device-bmcs", "subinterface-parents"}

\* What NetBox sees to: no id is null, what is referred to exists, names are unique, and a LAG is
\* of that type and on the device of its members, as long as there is no virtual
\* chassis.  That a LAG is not named like a subinterface is custom.
Holds(nb) ==
    /\ None \notin DOMAIN nb.ifaces
    /\ \A i \in DOMAIN nb.ifaces :
           /\ nb.ifaces[i].device \in DOMAIN nb.devices
           /\ {nb.ifaces[i].parent, nb.ifaces[i].lag} \subseteq DOMAIN nb.ifaces \cup {None}
           /\ nb.ifaces[i].lag # None =>
                  LET lag == nb.ifaces[nb.ifaces[i].lag]
                  IN  lag.kind = "lag" /\ lag.device = nb.ifaces[i].device /\ lag.sub = None
           /\ \A j \in DOMAIN nb.ifaces \ {i} :
                  Key(nb.ifaces[j]) = Key(nb.ifaces[i]) => nb.ifaces[j].sub # nb.ifaces[i].sub
    /\ \A a \in DOMAIN nb.addresses : nb.addresses[a].on \in DOMAIN nb.ifaces \cup {None}
    /\ \A m \in DOMAIN nb.macs : nb.macs[m].on \in DOMAIN nb.ifaces \cup {None}
    /\ \A d \in DOMAIN nb.devices : nb.devices[d].oob \in DOMAIN nb.addresses \cup {None}

IsNetBox(nb) ==
    /\ DOMAIN nb = Tables
    /\ \A table \in Tables : IsFiniteSet(DOMAIN nb[table])
    /\ Holds(nb)

IsCommand(cmd) ==
    /\ cmd.name \in LintNames
    /\ cmd.name = "unattached-interfaces" => cmd.requireIp \in BOOLEAN

ASSUME SituationsAssumption ==
    \A s \in Situations :
        /\ IsNetBox(s.db)
        /\ s.cmds \in Seq({s.cmds[k] : k \in DOMAIN s.cmds})
        /\ \A k \in DOMAIN s.cmds : IsCommand(s.cmds[k])

VARIABLES
    db,         \* the NetBox: a record of tables
    limits      \* writes and maxWrites of the situation

\* The run itself.
VARIABLES
    asked,      \* the commands of the run
    todo,       \* those that are still to report
    reads,      \* the NetBox at each listing of the current command
    findings,   \* how many findings were printed so far
    report,     \* the last report: [cmd, found, during]
    pc          \* "run", or the exit status

\* What NetBox has been.
VARIABLES
    during,     \* since the current command began
    ever,       \* since the run began
    writes      \* number of writes by others

run == <<asked, todo, reads, findings, report, pc>>
vars == <<db, limits, run, during, ever, writes>>

-----------------------------------------------------------------------------
\* The listings of a command, and what it finds.

Listings(cmd) ==
    CASE cmd.name \in {"empty-prefixes", "unparented-ips"} -> 2
      [] cmd.name = "unattached-interfaces" -> IF cmd.requireIp THEN 4 ELSE 1
      [] cmd.name = "device-bmcs" -> 5
      [] OTHER -> 1

Find(cmd, seen) ==
    CASE cmd.name = "empty-prefixes" -> EmptyPrefixes(seen[1].prefixes, seen[2].addresses, cmd)
      [] cmd.name = "unparented-ips" -> UnparentedIps(seen[1].prefixes, seen[2].addresses, cmd)
      [] cmd.name = "duplicate-prefixes" -> DuplicatePrefixes(seen[1].prefixes, cmd)
      [] cmd.name = "duplicate-ips" -> DuplicateIps(seen[1].addresses, cmd)
      [] cmd.name = "unattached-interfaces" -> UnattachedInterfaces(seen, cmd)
      [] cmd.name = "device-bmcs" -> DeviceBmcs(seen)
      [] cmd.name = "subinterface-parents" -> SubinterfaceParents(seen[1])

NoReport == [cmd |-> [name |-> "none"], found |-> {}, during |-> {}]

Init ==
    /\ \E s \in Situations :
           /\ db = s.db
           /\ limits = [writes |-> s.writes, max |-> s.maxWrites]
           /\ asked = s.cmds
    /\ todo = asked
    /\ reads = << >>
    /\ findings = 0
    /\ report = NoReport
    /\ pc = "run"
    /\ during = {db}
    /\ ever = {db}
    /\ writes = 0

Read ==
    /\ pc = "run" /\ todo # << >>
    /\ Len(reads) < Listings(Head(todo))
    /\ reads' = Append(reads, db)
    /\ UNCHANGED <<db, limits, asked, todo, findings, report, pc, during, ever, writes>>

\* Any listing may fail; translated_errors() makes it a StateError.
ReadFails ==
    /\ pc = "run" /\ todo # << >>
    /\ Len(reads) < Listings(Head(todo))
    /\ pc' = "failed"
    /\ UNCHANGED <<db, limits, asked, todo, reads, findings, report, during, ever, writes>>

\* Mutant: only the findings of the last command make the exit status.
ReportsAfresh ==
    /\ pc = "run" /\ todo # << >>
    /\ Len(reads) = Listings(Head(todo))
    /\ LET found == Find(Head(todo), reads)
       IN  /\ report' = [cmd |-> Head(todo), found |-> found, during |-> during]
           /\ findings' = Cardinality(found)
    /\ todo' = Tail(todo)
    /\ reads' = << >>
    /\ during' = {db}
    /\ UNCHANGED <<db, limits, asked, pc, ever, writes>>

\* LintCommand.run()
Report ==
    /\ pc = "run" /\ todo # << >>
    /\ Len(reads) = Listings(Head(todo))
    /\ LET found == Find(Head(todo), reads)
       IN  /\ report' = [cmd |-> Head(todo), found |-> found, during |-> during]
           /\ findings' = findings + Cardinality(found)
    /\ todo' = Tail(todo)
    /\ reads' = << >>
    /\ during' = {db}
    /\ UNCHANGED <<db, limits, asked, pc, ever, writes>>

\* main(): exits 0 or 1.
Exit ==
    /\ pc = "run" /\ todo = << >>
    /\ pc' = IF findings = 0 THEN "clean" ELSE "findings"
    /\ UNCHANGED <<db, limits, asked, todo, reads, findings, report, during, ever, writes>>

-----------------------------------------------------------------------------
\* Others.

Written(table, id, row) ==
    IF row = Gone THEN [k \in DOMAIN table \ {id} |-> table[k]]
    ELSE [k \in DOMAIN table \cup {id} |-> IF k = id THEN row ELSE table[k]]

SomeoneWrites(write) ==
    /\ pc = "run" /\ writes < limits.max
    /\ db' = [db EXCEPT ![write[1]] = Written(@, write[2], write[3])]
    /\ db' # db /\ Holds(db')
    /\ during' = during \cup {db'}
    /\ ever' = ever \cup {db'}
    /\ writes' = writes + 1
    /\ UNCHANGED <<limits, run>>

Next ==
    \/ Read
    \/ ReadFails
    \/ Report
    \/ Exit
    \/ \E write \in limits.writes : SomeoneWrites(write)

Spec == Init /\ [][Next]_vars

-----------------------------------------------------------------------------
\* What is wrong with a NetBox, as the help of each command has it.  Each fault,
\* and each thing that excuses what might have been one, comes with the records
\* it rests on.

PrefixIsAsked(cmd, prefix) ==
    /\ OfFamily(prefix.net.version, cmd.family)
    /\ StatusAllows(cmd.status, prefix.status)
    /\ RoleAllows(cmd.role, prefix.role)

\* What sits inside of a prefix.
Fillings(nb, prefix) ==
    {<<"prefix", p, nb.prefixes[p]>> : p \in {p \in DOMAIN nb.prefixes :
        nb.prefixes[p].vrf = prefix.vrf /\ Inside(nb.prefixes[p].net, prefix.net)}} \cup
    {<<"address", a, nb.addresses[a]>> : a \in {a \in DOMAIN nb.addresses :
        nb.addresses[a].vrf = prefix.vrf /\ Covers(prefix.net, nb.addresses[a].addr)}}

\* "Every address is supposed to sit in a prefix of /24 or smaller".
Parents(nb, address) ==
    {p \in DOMAIN nb.prefixes :
        /\ nb.prefixes[p].vrf = address.vrf
        /\ Covers(nb.prefixes[p].net, address.addr)
        /\ nb.prefixes[p].net.prefixlen >= DEFAULT_MIN_PREFIXLEN[address.addr.version]}

\* "Only ports that look in use are reported", and "an address on its
\* subinterfaces or its LAG counts".
LooksUnused(nb, i, cmd) ==
    LET iface == nb.ifaces[i]
    IN  {why \in {"cabled", "marked", "disabled", "no-port", "sub", "skipped"} :
            \/ why = "cabled" /\ iface.cable
            \/ why = "marked" /\ iface.marked
            \/ why = "disabled" /\ ~iface.enabled
            \/ why = "no-port" /\ iface.kind # "physical"
            \/ why = "sub" /\ (iface.sub # None \/ iface.parent # None)
            \/ why = "skipped" /\ iface.base \in SKIPPED_NAMES \cup cmd.exclude}
Counting(nb, i) ==
    {a \in DOMAIN nb.addresses :
        LET on == nb.addresses[a].on
            lag == nb.ifaces[i].lag
        IN  /\ on # None
            /\ \/ Key(nb.ifaces[on]) = Key(nb.ifaces[i])
               \/ lag # None /\ Key(nb.ifaces[on]) = Key(nb.ifaces[lag])}

\* "A BMC here is an interface named BMC, one flagged mgmt_only, or the one the
\* device oob_ip sits on".
BmcFor(nb, i) ==
    LET iface == nb.ifaces[i]
        oob == nb.devices[iface.device].oob
    IN  {why \in {"named", "flagged", "oob"} :
            \/ why = "named" /\ Named(iface)
            \/ why = "flagged" /\ iface.mgmt_only
            \/ why = "oob" /\ oob # None /\ nb.addresses[oob].on = i}
MacsOn(nb, i) == {m \in DOMAIN nb.macs : nb.macs[m].on = i}
InterfacesOf(nb, d) == {i \in DOMAIN nb.ifaces : nb.ifaces[i].device = d}

Faults(cmd, nb) ==
    CASE cmd.name = "empty-prefixes" ->
             {<<p, nb.prefixes[p]>> : p \in
                 {p \in DOMAIN nb.prefixes : /\ PrefixIsAsked(cmd, nb.prefixes[p])
                                             /\ Fillings(nb, nb.prefixes[p]) = {}}}
      [] cmd.name = "unparented-ips" ->
             {<<a, nb.addresses[a]>> : a \in
                 {a \in DOMAIN nb.addresses :
                     /\ OfFamily(nb.addresses[a].addr.version, cmd.family)
                     /\ Parents(nb, nb.addresses[a]) = {}}}
      [] cmd.name = "unattached-interfaces" ->
             {<<i, <<"in-use">>>> : i \in
                 {i \in DOMAIN nb.ifaces : LooksUnused(nb, i, cmd) = {} /\ ~cmd.requireIp}} \cup
             UNION {{<<i, <<"address", a, nb.ifaces, nb.addresses[a]>>>> : a \in Counting(nb, i)} :
                 i \in {i \in DOMAIN nb.ifaces : LooksUnused(nb, i, cmd) = {}}}
      [] cmd.name = "device-bmcs" ->
             {<<<<"device", d>>, <<"no-bmc", nb.devices[d]>>>> : d \in
                 {d \in DOMAIN nb.devices :
                     /\ InterfacesOf(nb, d) # {} /\ ~nb.devices[d].bays
                     /\ \A i \in InterfacesOf(nb, d) : BmcFor(nb, i) = {}}} \cup
             {<<<<"interface", i>>, <<"not-flagged", DOMAIN nb.devices>>>> : i \in
                 {i \in DOMAIN nb.ifaces : Named(nb.ifaces[i]) /\ ~nb.ifaces[i].mgmt_only}} \cup
             UNION {{<<<<"interface", i>>, <<why, nb.devices>>>> : why \in BmcFor(nb, i)} :
                 i \in {i \in DOMAIN nb.ifaces : Cardinality(MacsOn(nb, i)) # 1}}
      [] cmd.name = "subinterface-parents" ->
             {<<i, "wrong-parent">> : i \in
                 {i \in DOMAIN nb.ifaces :
                     /\ nb.ifaces[i].sub # None
                     /\ LET parent == nb.ifaces[i].parent
                        IN  parent = None \/ Key(nb.ifaces[parent]) # Key(nb.ifaces[i])
                            \/ nb.ifaces[parent].sub # None}}
      [] cmd.name = "duplicate-prefixes" ->
             {<<nb.prefixes[p].net, "twice">> : p \in
                 {p \in DOMAIN nb.prefixes :
                     /\ OfFamily(nb.prefixes[p].net.version, cmd.family)
                     /\ \E q \in DOMAIN nb.prefixes :
                            /\ nb.prefixes[q].net = nb.prefixes[p].net
                            /\ nb.prefixes[q].vrf # nb.prefixes[p].vrf}}
      [] cmd.name = "duplicate-ips" ->
             {<<nb.addresses[a].addr, "twice">> : a \in
                 {a \in DOMAIN nb.addresses :
                     /\ OfFamily(nb.addresses[a].addr.version, cmd.family)
                     /\ \E b \in DOMAIN nb.addresses :
                            /\ nb.addresses[b].addr = nb.addresses[a].addr
                            /\ nb.addresses[b].vrf # nb.addresses[a].vrf}}

\* What a command that makes a single listing is about.
Subjects(cmd, nb) ==
    CASE cmd.name = "subinterface-parents" -> DOMAIN nb.ifaces
      [] cmd.name = "duplicate-prefixes" -> {nb.prefixes[p].net : p \in DOMAIN nb.prefixes}
      [] cmd.name = "duplicate-ips" -> {nb.addresses[a].addr : a \in DOMAIN nb.addresses}

Excuses(cmd, nb) ==
    CASE cmd.name = "empty-prefixes" ->
             {<<p, <<"not-asked", nb.prefixes[p]>>>> : p \in
                 {p \in DOMAIN nb.prefixes : ~PrefixIsAsked(cmd, nb.prefixes[p])}} \cup
             UNION {{<<p, <<"filled", nb.prefixes[p], filling>>>> :
                         filling \in Fillings(nb, nb.prefixes[p])} : p \in DOMAIN nb.prefixes}
      [] cmd.name = "unparented-ips" ->
             UNION {{<<a, <<nb.addresses[a], p, nb.prefixes[p]>>>> :
                         p \in Parents(nb, nb.addresses[a])} : a \in DOMAIN nb.addresses}
      [] cmd.name = "unattached-interfaces" ->
             {<<i, <<"no-address", nb.ifaces>>>> : i \in
                 {i \in DOMAIN nb.ifaces : cmd.requireIp /\ Counting(nb, i) = {}}} \cup
             UNION {{<<i, <<why>>>> : why \in LooksUnused(nb, i, cmd)} : i \in DOMAIN nb.ifaces}
      [] cmd.name = "device-bmcs" ->
             {<<<<"device", d>>, <<"no-machine">>>> : d \in
                 {d \in DOMAIN nb.devices : InterfacesOf(nb, d) = {} \/ nb.devices[d].bays}} \cup
             {<<<<"interface", i>>, <<"no-bmc", nb.ifaces[i], nb.devices>>>> : i \in
                 {i \in DOMAIN nb.ifaces : BmcFor(nb, i) = {}}} \cup
             {<<<<"interface", i>>, <<"fine", nb.ifaces[i]>>>> : i \in
                 {i \in DOMAIN nb.ifaces :
                     /\ Cardinality(MacsOn(nb, i)) = 1
                     /\ Named(nb.ifaces[i]) => nb.ifaces[i].mgmt_only}} \cup
             UNION {{<<<<"device", nb.ifaces[i].device>>,
                       <<"bmc", nb.devices[nb.ifaces[i].device], i, why>>>> :
                           why \in BmcFor(nb, i)} : i \in DOMAIN nb.ifaces}
      [] OTHER -> (Subjects(cmd, nb) \ {fault[1] : fault \in Faults(cmd, nb)}) \X {"in-order"}

\* What is so, for one and the same reason, in each of these NetBoxes.
Standing(claims(_), nbs) ==
    {claim[1] : claim \in {c \in UNION {claims(nb) : nb \in nbs} : \A nb \in nbs : c \in claims(nb)}}

StandingFaults(cmd, nbs) == Standing(LAMBDA nb : Faults(cmd, nb), nbs)
StandingExcuses(cmd, nbs) == Standing(LAMBDA nb : Excuses(cmd, nb), nbs)

-----------------------------------------------------------------------------
\* Properties.

\* However the listings of a command fit together, what is wrong all the time
\* that it reads is reported.
StandingFaultsAreReported ==
    report # NoReport =>
        StandingFaults(report.cmd, report.during) \subseteq report.found

\* And what is in order all that time is not.
NothingExcusedIsReported ==
    report # NoReport =>
        StandingExcuses(report.cmd, report.during) \cap report.found = {}

\* "Exits 0 when everything is clean": nothing that one of the commands is about
\* was wrong all through the run.
CleanMeansClean ==
    pc = "clean" => \A k \in DOMAIN asked : StandingFaults(asked[k], ever) = {}
=============================================================================
