# Verification of nbtools

nbtools is two command line programs for NetBox. `nbsync` changes NetBox: each
of its subcommands reads what is there, plans a list of API writes, shows the
list, asks, and performs it. `nblint` only reads, and reports what looks wrong.
This directory holds TLA+ models of the code, configurations that model-check
them with TLC, and proofs that TLAPS checks. Paths are those of the repository;
`PROJECT.json` maps every definition to the lines it models.

## 1. Inventory

NetBox itself is a database behind HTTP that other people change at the same
time. It has no transactions over several calls and no compare-and-swap that
nbtools uses, so what `nbsync` does must be right one write at a time, and what
`nblint` reports must be right although each of its listings is of another time.

| Component | State | Operations | What makes it correct |
|---|---|---|---|
| API session (`netbox.py`: `connect`, `_retrying_adapter`, `LoggingRetry`, `TimeoutAdapter`, `translated_errors`) | the retry budgets of a call, the attempt under way, copies of the request NetBox may still execute | send, retry, time out, translate the error | a write is sent at most once, a read uses all its tries, every call ends, "ok" means executed |
| Sync life cycle (`command.py`, `sync.py`, `work.py`) | the input, the list of `FutureWork`, the position in it, the failures counted | prepare, plan, list, confirm, do; for a stream one item at a time | consent covers the work, the batch path plans before it writes, one write in doubt at most, exit code 0 means all is done |
| `migrate-gateway` (`synccmd/migr_gw.py`) | NetBox: subinterfaces, the addresses on them | create subinterface, reassign address, delete subinterface | gateways keep their VRF and go straight to their place, but for targets that are given twice or are sources too; a second run has nothing to do |
| `swap-cables` (`synccmd/swap_cables.py`) | NetBox: cable ends | three PATCHes | at most one interface is ever loose, nothing else moves, the links are swapped |
| `set-interface-ip`, `...-by-mac` (`synccmd/set_if_ip.py`) | NetBox: addresses, their interface, status and VRF | create, reassign, modify, delete an address | nothing is taken from elsewhere without `--force`, nothing deleted without `--single`, the address ends up here once and stays |
| `zap-interface`, `set-interface-type` (`zap_if.py`, `set_if_type.py`) | NetBox: addresses, subinterfaces and fields of a port | delete address and subinterface, clear fields; set type | addresses go before the subinterface they are on, nothing but the ports that were named changes |
| `clone-interface`, `migrate-interface` (`clone_if.py`, `migr_if.py`) | NetBox: port, subinterfaces, addresses, cable end | create or modify interfaces, create, reassign, modify addresses, move a cable | the order NetBox accepts, nothing left behind or doubled, the right end of the cable |
| `unset-interface-mac` (`unset_if_mac.py`) | NetBox: MAC records | delete MAC record | only what sits where it was asked to look is deleted, and all of it |
| IPAM index (`ipam.py`) | per VRF a list of networks and one of addresses, the keys they were last sorted by | add, sort, ask what contains what | every answer agrees with containment, whatever was added since the last one |
| Lint checks (`lintcmd/`) | none beyond what was read | list tables, compare, report | what is wrong all the time is reported, what is in order all the time is not |
| Lint life cycle (`lint.py`) | whether a finding was made | run one command, or all | exit code 0 only when there is no finding |
| Values and names (`types.py`, `util.py`) | none | parse, order, split, chunk | total orders, no chunk lost |
| Configuration, command line, recorder, exceptions | none, but the recorder's log | read an INI file, build parsers, write a recording | checked at startup |

They interact by plain calls, in one thread. `sync.main()` connects (the API
session), builds a subcommand and calls its `run()` (the life cycle), which
calls `plan()` or `plan_one()` of the subcommand and then `do()` of each
`FutureWork`; all of these go through the API session. `lint.main()` does the
same with commands that only list. The two meet in a pipeline: what
`duplicate-macs` prints is the input of `unset-interface-mac`. The concurrency
is outside the process: NetBox executes a request when it likes, also after the
client has given up on it; other users write between any two calls; the user
presses ^C; the process ends between any two writes.

Which behaviours are hard is in the `hazards` of `PROJECT.json`, each at its
line: a write replayed after a timeout, a hung call, a lost answer, a run that
ends halfway and is given again, a plan that is stale by the time it is done, a
list of works whose items stand in each other's way, input that names the same
thing twice, ids of two tables taken for each other, a list that is searched
after it was added to, and listings of different moments put together.

## 2. Modules

| Module | Models | Runs and proofs |
|---|---|---|
| `ApiCall` | what one API call promises, abstractly | implemented by `HttpRetry` |
| `HttpRetry`, `MCHttpRetry` | the API session, one call from pynetbox to the wire | `http_retry`; `CallAndRun_proofs` |
| `SyncRun` | one `nbsync` invocation with an abstract subcommand, on top of what `ApiCall` promises | `sync_run`; `CallAndRun_proofs` |
| `Relocation` | what moving addresses promises, abstractly | implemented by `MigrateGateway` |
| `MigrateGateway`, `MCMigrateGateway` | `migrate-gateway` | `migrate_gateway`, `reused_ports`; `MigrateGateway_proofs` |
| `SwapCables`, `MCSwapCables` | `swap-cables` | `swap_cables`; `SwapCables_proofs` |
| `SetInterfaceIp`, `MCSetInterfaceIp` | `set-interface-ip` and `set-interface-ip-by-mac` | `set_interface_ip`, `deletes_only_here`; `SetInterfaceIp_proofs` |
| `InterfaceWorks` | the NetBox of ports, subinterfaces, addresses and cables, and the works on it | used by the next five |
| `ZapInterface`, `MigrateInterface`, `CloneInterface`, `SetInterfaceType` | `plan()` of each of these commands | |
| `InterfaceCommands`, `MCInterfaceCommands` | runs of the four, one after the other | `interface_commands`, `migrate_wrong_end`; `InterfaceCommands_proofs` |
| `DuplicateMacs` | the lint `duplicate-macs` | |
| `UnsetInterfaceMac`, `MCUnsetInterfaceMac` | `unset-interface-mac`, alone and fed by the lint | `unset_mac`; `UnsetInterfaceMac_proofs` |
| `Networks` | what `ipaddress` knows of networks and addresses | |
| `Containment` | what an index of prefixes and addresses promises, abstractly | implemented by `VrfIndex` |
| `VrfIndex`, `MCVrfIndex` | the index: sorted lists, kept keys, bisection | `vrf_index`; `VrfIndex_proofs` |
| `IpamLints` | `empty-prefixes`, `unparented-ips`, `duplicate-prefixes`, `duplicate-ips` | |
| `PortLints` | `unattached-interfaces`, `device-bmcs`, `subinterface-parents` | |
| `LintRun`, `MCLintRun` | an `nblint` run of these seven | `lints`; `LintRun_proofs` |

They are stacked like the code. `HttpRetry` shows that a call of the session is
an `ApiCall`: it takes effect at most once, "ok" means it has, an error says
nothing. `SyncRun` uses exactly that of each write (done; refused; or lost,
landing later or never) and leaves open what a subcommand plans. The modules of
the subcommands fill in `plan()` or `plan_one()` and the works, and use of
`SyncRun` that the works are done in order and that a run may end anywhere.
`InterfaceCommands` EXTENDS the four modules that plan over the NetBox of
`InterfaceWorks`, so that one command meets what another has left;
`UnsetInterfaceMac` EXTENDS the lint whose output it reads; `LintRun` EXTENDS
`IpamLints` and `PortLints`, and `IpamLints` takes the answers of an index at
what `VrfIndex` is shown to promise in `Containment`.

Three conventions are common to the subcommands. A plan is an operator over the
NetBox of one moment: its reads take no time in the model, and what is
interesting comes after, since the works are performed one action at a time on a
NetBox that may have changed by then. Records are kept by id, NetBox hands ids
out in ascending order and never again, and the set of ids is a bound that no
situation of a run reaches. A `Situation` is a NetBox with what is called there;
a run's situations are listed in its MC module.

### HttpRetry

`phase` is how far the call is, `left` is the urllib3 `Retry` object, with the four budgets
`_retrying_adapter()` gives it; `cur` numbers the attempts; `copy[i]` is what
became of attempt `i` at NetBox. `Connect` puts a copy on the wire.
`ConnectTimeout`, `ConnectRefused`, `ReadTimeout`, `ConnectionReset` and
`Answered(status)` are the ways an attempt ends, each with the call of
`Retry.increment` the code gets for it; `Land` and `Refuse` are NetBox's. A copy
can land after the client gave up on it, so the model has the case in which a
retried write would be executed twice. urllib3 is external: it is modelled for
the arguments the code passes. Backoff sleeps and logging are left out.

### SyncRun

`pc` is where `run()` is, `plan` all works planned so far, `pos` the next one.
Batch and streaming are the two paths of `run()`; `planAt` remembers how many
writes preceded the reads of an item. `Write(outcome)` is one `do()`: `done`,
`refused`, `lost` or interrupted, the last two of which leave the work in
`flying`, from where it may land at any later time. `Interrupt` is ^C between
calls. `Raised` are the kinds of exception the code tells apart, and `ExitCode`
what `sync.main()` makes of them.

Beside an ordinary `StateError`, the exceptions of pynetbox and requests matter,
since they only become one in `sync.main()`, outside the loop of a stream.

### MigrateGateway

`plan()` reads NetBox and computes a list; it is the operator `Plan` (with
`PlanFails` for what it raises) over the current `ifs` and `at`. The list is the
set `works` of works that carry their place in it, `nr`: `Rank` counts the
gateways `plan()` goes through sooner, and leaves a place for a create and one
for a move of each. `left` are the works that are not done yet. A subinterface
that is to be created is found by its name when the address moves (`Resolved`,
the code's `named_lambda`). Ports and suffixes are numbers, their order that of
`natsort_key()`. Copied fields other than the VRF are left out. Names are unique
on a device; deleting a subinterface unassigns its addresses. `SomeoneAdds`,
`SomeoneDeletes` and `SomeoneAssigns` are other users: they add a subinterface,
delete one without addresses, or assign an address that is on nothing. An address
that is on something nobody else moves.

`routed` is history: the VRF each address was routed in when the run was planned,
which is what `VrfKept` compares with. Three properties come with the cases in
which the code does not do what one expects, named by what the plan says.
`VrfKept` allows the VRF of an earlier gateway that is moved to the same
subinterface, which differs only where a target is given twice (`Fits`).
`SuccessMeansMoved` and `ImplementsRelocation` allow that the gateways whose
target the same run deletes as emptied end on nothing (`Undone`), and the latter
that what others assign to a subinterface the run is to delete does too
(`Strays`). `GatewaysArrive` is the plain promise, which `reused_ports` shows not
to hold.

### SwapCables

`at[i]` is the cable end a termination is plugged into. `Insist` and `Verdict`
are the checks of `plan()` with the exceptions they end in; `NewTerminations(k)`
what the k-th PATCH makes of the terminations of the end it names; `Execute(k)`
what NetBox does; `AcceptsPatch` is NetBox's refusal of duplicate terminations,
known from the comment on `SwapCables` in `work.py`. `Lost` and `LandLate` are a
PATCH whose answer does not arrive. `alone` says whether other people plug
anything in; `SomeonePlugs` lets them plug what is loose into what is free.

### SetInterfaceIp

`recs` are the address records by id. A line `v` names an interface and an
address; `Good(v)`, `MyOther(v)` and `Elsewhere(v)` are the sets `plan_one()`
sorts the records into, `Verdict(v)` what it raises, and `Plans(v)` the works it
may return, since it walks sets in no particular order. `Place` is what looking
up a target comes to: a device interface, one of a VM, an error, or for a MAC
record that is on nothing no interface at all. `Same` is how pynetbox compares
two interfaces, by id and endpoint name, which for those of devices and VMs are
the same name. `Unnameable` are the interfaces for which `_make_named_ip()` ends
in an `AttributeError`. A pair given as arguments is a stream of one line; the
prompt is in `SyncRun`. Every failed write and ^C is `Stop`: NetBox executing
a lost write late is not in this module. An address carries its mask, and of a
record's other fields only status, VRF and the anycast role are kept.

### InterfaceWorks and InterfaceCommands

`ifs`, `ips` and `at` are the interfaces, the address records and the cable end
each port is plugged into. A port stands for a (device, name) pair and a
subinterface for its number, 0 being the port itself. The fields of an interface
that commands copy, clear or set are three groups: `kind`, the type, which
zapping keeps; `conf`, which it blanks; and the VRF. `TreeIsSound` is
`get_interface_tree()`, which wants the children by parent id to be the children
by name. Each command module holds the operators `...Fails`, what its `plan()`
raises, and `...Plan`, the works it returns, named after the methods of the
code; `MigrateInterface` and `CloneInterface` have their assertions in the first.
The list a `plan()` returns is a set of works that are numbered like sections,
by the loops they come from: in `zap-interface` a work `<<2, 1, 3>>` is of the
second target, of what goes first there, and of the third subinterface. `Sooner`
is the order of the numbers and `IsNext` the work the run is at.
`Accepts(w)` is what NetBox refuses, as far as the code relies on it: a name that
is taken, a termination on two cables, an interface that has children, a second
record of an address unless all are anycast. `Execute(w)` is what it does.

`InterfaceCommands` gives a script of commands. `Plan` reads, `DoWork` performs
the next work, `WorkFails` is a refusal, or a lambda that finds no interface;
`Stop` ends a run between two works and `RunAgain` gives the command again.
`SomeoneAssigns` and `SomeoneDeletes` are other users, between any two writes.
`was` keeps the NetBox of the moment the current command was first given, which
its help text is about.

### DuplicateMacs and UnsetInterfaceMac

`Duplicates`, `IsExplained` and `Wanted` are the properties of a duplicate MAC
the lint sorts them by; `Family`, `ShownId` and `Listed` how it folds the
subinterfaces of a port into one line. An interface carries what
`split_subinterface()` and `mac_from_interface_name()` make of its name.

`Lint` prints, when everything has been read, one line per MAC; `PlanAll` and
`PlanNext` are the two paths of the life cycle, `Planned(line)` the set of records
`plan_one()` decides on and `SitsOn` its comparison, by id and by table. A work
is known by its line and its record; within a line their order is that in which
NetBox lists the records, which is any.
`Refused` is a 404 for a record that is gone by then, which ends also a
`--keep-going` stream. `been[r]` remembers where record `r` has been since the
command was given, which is what a promise to leave a record alone is about when
others move it.

### Networks, Containment and VrfIndex

The actions of `VrfIndex` are the methods of the class, in any order: additions,
which forget the keys, and questions, which sort first if there are none. Python
sorts in place and stably; the model allows any order that is ascending. A
`bisect_left` is the set of positions from there on (`NetworksFrom`,
`AddressesFrom`), and the loop of `has_child_prefix()` a condition on the
positions before the one it ends at. `Containment` keeps two sets and answers by
looking at all of them, and `AnswersAreTrue` says that `VrfIndex` implements it
with the elements of its lists for the sets.

### IpamLints, PortLints and LintRun

A NetBox is a record of five tables. The lints are operators over the NetBoxes
at each of their listings: `EmptyPrefixes` takes prefixes of one moment and
addresses of another, `UnattachedInterfaces` up to four moments, `DeviceBmcs`
five. Which listing a fact is taken from is as in the code: an interface that
several listings have is as the last one has it in `ports_holding_addresses()`,
and as the first one has it in `find_bmc_interfaces()`. `InChunks` is
`in_chunks()`, which must not ask at all for no values, since `Matches` of an
empty filter is every record.

`LintRun` gives commands one after the other. `Read` is one listing, `Report`
what the command finds, `Exit` the status; `ReadFails` a listing that ends in an
error; `SomeoneWrites` lets others change a row between any two listings.
`during` collects the NetBoxes there were while the current command read.

What it means that a lint is right when nothing stands still is in `Faults` and
`Excuses`. Each is a set of claims, a subject with the reason and the records
the reason rests on: "prefix 1 is empty", "prefix 1 is filled, by address 2". A
claim that is there in every NetBox of `during` is a standing one. A prefix that
is filled by one address until it is filled by another has no standing excuse,
and the code may report it; it may not when there is one.

## 3. Runs

Every run is listed in `PROJECT.json`; every property of a passing run has a
mutant there, a plausible bug in a mapped definition that makes TLC find the
property violated.

**`http_retry`** (3,875 states). Four methods, `api_retries` 3, which is the
default: every failure at every attempt, and every moment a copy may land. More
retries only repeat the same step, and the safety properties are proved for any
number. `CallEnds` needs fairness: weak fairness on the two timeouts, which is
what `TimeoutAdapter` buys; NetBox itself is given none, it may stay silent.

**`sync_run`** (11,242 states). Up to two typed values, two lines of stdin and
two works per value; all three modes; each read and write failing in each way;
^C anywhere. Two of each is what the properties tell apart: a first and a later
item, a first and a last work of one. `RunEnds` needs weak fairness on the steps
of the process, which is what `CallEnds` justifies; the user at the prompt is
given none, so it is stated for the modes that do not ask.

**`migrate_gateway`** (383,878 states, 80 s). Four ports, two
suffixes, two VRFs, three addresses: both copies of an anycast gateway in one VRF
and the gateway with the same address in another. 1,920 NetBoxes: two source
subinterfaces on one or two ports, perhaps an existing target with or without
its parent field, in either VRF; each address on either of them, on a port, or
on a VM. Commands with one or two targets, a target given twice, targets that are
sources with and without `--delete-empty`, missing ports, missing gateways. Each
is given twice, the first run stopping anywhere; or once, while someone else
makes one change of NetBox, also with an address that is on nothing and can be
assigned; or, on a few of the NetBoxes, two changes, with which a subinterface
that was made can be replaced by one of another VRF. Six ids bound the
subinterfaces, and no situation runs out of them. Two addresses with one goal
and two with different VRFs are what the checks in `_add_work()` are about, and
both occur.

**`reused_ports`** (violation). One command of three source ports, with a target
that is given twice and one that is a source port itself: it succeeds, and one
gateway is in another VRF and another on nothing. See section 5.

**`swap_cables`** (136,972 states). Two cables, four interfaces, which is what it
takes for a swap to change anything, one front port, every cabling of them,
every pair of names including an interface with itself and one NetBox does not
have; any number of runs. Symmetry over cables and interfaces is sound: the
module does not order them.

**`set_interface_ip`** (237,396 states). Two device interfaces and one of a VM,
two addresses. 288 NetBoxes of one or two records that are on any interface or
on none, in the wanted VRF and status or not, anycast or not, with every one or
two lines, with and without `--force` and `--single`: two records are what it
takes to have an address here and elsewhere, or an other address here. Then
three lines, which let the third meet what the second undid of the first; and
one or two lines while somebody else makes a change. The first line's address is
always the same one, which is only a choice of names. Five ids suffice: a line
adds one record at most. The ids of the VM's and the devices' interfaces are
different in this run; `deletes_only_here` is about what happens when they are
not.

**`unset_mac`** (102,092 states). The pipeline, on every NetBox of three records
of two MACs and a placeholder, on two ports of one machine, a subinterface, an
interface of a VM with the id of a port, one named after a MAC, or none: three
is what it takes for two loose copies beside an assigned one. Any one or two
lines on two records of one MAC, batch or stream, with and without
`--keep-going`, while others make one change; two lines may be the same, or of
one MAC at two places. The pipeline again while others make two changes. In
which order NetBox lists the records of a MAC is left open.

**`vrf_index`** (19,666 states). Any three additions of networks and addresses
and any questions between them: two bits of IPv4 and one of IPv6, so 7 networks
of every length there is, and 3 addresses. Three records are two bigger networks
with one inside, the same network twice, or a sibling between. Proved for any.

**`interface_commands`** (376,336 states, 40 s). Two ports, up to two
subinterfaces, which with the ports make a command loop more than once; two
addresses, one of them IPv6, or one address in two VRFs, on any of these, anycast
or not; a cable whose other end is somewhere else. Each of the four commands is given up to twice, stopping
anywhere; or once, while someone else assigns an address or deletes a
subinterface; and `zap-interface` before `migrate-interface`, as its help says.

**`lints`** (919,316 states, 50 s). Two prefixes and one or two addresses in two
VRFs; a port with a subinterface, a LAG, a BMC on the device, a second device,
two addresses and two MACs; one command or two, up to two writes by others
anywhere between the listings. Two writes are what a torn listing takes: to be
somewhere else when it is read, and back. Chunks are of two values. Three ports
that hold an address make a full chunk and one that is not; in the other
situations there are no values, one or two, and so one chunk at most.

**`deletes_only_here`**, **`migrate_wrong_end`** (violations). See section 5.

Deadlock checking is off where the system comes to an end: a call that is
answered, a process that has exited, a last run that is over.

## 4. Proofs

All theorems hold for every value of the constants under the named assumptions
of the modules, and for executions of any length. TLC evaluates the assumptions
in the runs.

**CallAndRun_proofs**, on the API session, assumes `Retries \in Nat` (what `config._parse_retries`
checks) and that the retried methods are methods. `WriteSentOnce` is not
inductive: that a write is not sent again depends on no attempt of it having
been sent while the session is still connecting, which is the part the invariant
adds, and on how the number of the attempt and the budgets go down together. The
same invariant gives the other safety properties and the step simulation of
`Refinement`, the theorem that the session implements `ApiCall`; there the
number of copies that landed is shown to be 0 or 1 for a write.

The same module, on the life cycle, assumes only that the bounds are naturals. The invariant has
four parts: what is settled (`SettledInv`: everything before the last write has
landed), where in the list the works of an item are (`PlanInv`), on which of the
two paths the run is (`PathInv`), and what the items have come to (`ItemInv`).
The seven theorems follow from it; `NoPlanOverDoubt`, an action property, is
shown of each step from the invariant in the state before.

**SwapCables_proofs** assumes that interfaces and other ports are different
things and that a cable end is not `None`. `Progress` says which of the two
interfaces is known to be plugged in before the k-th PATCH: it survives other
people, and makes `AtMostOneLoose` inductive. `Tracked`, which holds while
nobody else is there, says exactly where everything is; from it follow
`OthersStayPut`, `NeverRefused` and `DoneMeansSwapped`.

**SetInterfaceIp_proofs** has to do without an order of the works of a plan, for
`plan_one()` walks sets: `Items` are the works of a plan as a set, and a plan is
any list of them. That a work takes or deletes only what its line allows is
settled when it is planned and survives whatever others do, which is
`NothingTakenUnasked`. The other theorems are about a run by itself. Their
invariant says how far the interface is from what the line wants in terms of
what is left of the plan: when nothing is left, it is there. What lines before
it have achieved stays, because a work touches a record of its own address or of
its own interface only. For that no two interfaces may share an id, which the
last two theorems assume (`IdsDiffer`) and `deletes_only_here` shows to be
needed.

**UnsetInterfaceMac_proofs** assumes of interfaces that table and id identify
them and that names are unique on a machine. Two things are inductive: each
work, and each record that was deleted, is of a record that has been where the
command looks (`AskedOnly`); and what was asked for, and has not moved, is in a
line that is still to be planned or in a work (`Pending`). The first survives
others because what a record has been on only grows; the second because a
record that moves has been on two places from then on. That a line is skipped by
`--keep-going` leaves nothing behind needs `_sits_on()` and the failures of
`plan_one()` to agree, `AwaitedIsPlanned`. For the pipeline, `Clean` says that
no two lines are about one MAC and that a MAC in a line still has all of its
records, so that no line fails and no record is deleted twice.
`LeftOutRightly` needs no invariant beyond the types.

**MigrateGateway_proofs** first says what a plan is: the ports of the gateways
and the targets are as many (`SourcePortsAre`), so that each port has a target
and different ports have different ones (`UpToIs`); the order of the gateways is
total and `Rank` counts along it; and a subinterface that has to be made is made
for the first gateway that goes there (`FirstIs`). Then each invariant is what
the plan says of its works at the moment it is made, weakened to what the works
and other users leave of it. `Known`: a subinterface that was found keeps its
name until it is deleted, since ids are not used again, and deletes come last.
`Free`, while nobody else writes: what is to be made does not exist, what is to
be moved to exists or is still to be made. `Routed`: a gateway is in the VRF it
was in when the run was planned or where its move has brought it, what was found
for it has its VRF, and what is made under a name has the VRF of the first
gateway that goes there, as long as others have not changed NetBox twice.
`Apart`: of the gateways only those that are `Undone` go to a subinterface that
is to be deleted, and an address on such a one is either still to be moved, or
`Undone`, or was assigned there by others meanwhile. `Achieved`: what is done has
been brought about. From `Apart` follow `RunIsARelocation` and, with `Achieved`,
`SuccessIsMoved`; `VrfsAreKept` follows from `Routed`.

`SecondRunDoesNothing` is about the plan of a second run, and so about where the
first one leaves things (`Settling`): the trees stay sound, every gateway is on a
target port or about to go there, and every target port has a gateway or is about
to get one. When nothing is left to do, the ports of the gateways are therefore
the targets, each pairs with itself, and nothing is found that has to move. No
theorem of this module assumes anything of the command line or of how often
others write: the cases that go another way are in the properties, by name.

**VrfIndex_proofs** assumes of networks and addresses what `ipaddress` promises:
what they are made of, that a longer network which begins inside a shorter one
also ends there, and that an address is inside a network when its supernet of
that length is the network (`NetworksAssumption`, `BoundaryAssumption`). `Caches` says
that keys that are kept are those of the lists as they are. From it each question
is shown to be answered as `Containment` answers it: where the loop stops,
nothing further on can be inside.

**LintRun_proofs** is about claims: a fault is claimed with the records that make
it one. A claim that stands in every NetBox a command has read from holds in the
mixture of moments that the command works on, one lemma for each lint, since
each of its listings has the records of the claim. The invariant collects what
was read and counted, and the three theorems follow. Chunks have at least one
value and tables are finite (`ChunkAssumption`, `SituationsAssumption`).

**InterfaceCommands_proofs** is about plans that are put together from those of
several targets and subinterfaces, and so about where in a plan a work is.
`NoAddressLeftLoose` needs `LooseInv`: before each interface that a plan deletes
come works that free every address on it, so that nobody's address is lost unless
somebody else put it there after the plan was made. That does not stay so by
itself, since a migrated address may be on its way to an interface that is deleted
later; deletes therefore have to be of interfaces nothing moves to, which is
another part. `RefusedInTime`, that NetBox refuses nothing once the first write
was done, rests on `RefusedInv`: each work is acceptable as it is or will be made
so by works that come sooner (`Ready`), and no two works want the same name or
address (`Apart`); a cable is moved first. It assumes two things of an instance,
and MCInterfaceCommands has TLC evaluate them. `NoGrandchildren`: the parent of
a subinterface is a port. NetBox allows more, and `get_interface_tree()` does not
look for it. `EndsDoNotClash`: a cable's other end does not have the id of an
interface; `migrate_wrong_end` is what happens otherwise. `NoAddressLeftLoose`
assumes nothing.

`SuccessMeansDone` compares the NetBox at the end with the one on which the command
was given, perhaps several runs ago. Its invariant `DoneInv` has two parts for each
command. One is what any run keeps, also one that stops (`ZapKept`, `MigrateKept`,
`CableKept`, `CloneKept`, `SetKept`): the next run plans from there, and must not
have lost what the help promises. The other is what a run under way has left
(`ZapLeft` and so on): whatever is not yet as the command wants it has a work that
makes it so, and no work undoes another. For `migrate-interface` the two meet in one
condition: a subinterface of the source is deleted only after the one it becomes has
been created, or what it was like would be forgotten by the next run. When no works
are left the second part is the help text.

`CanBeGivenAgain` is about `plan()` and not about works, so `AgainInv` says of
every NetBox a run goes through that `plan()` accepts it (`Fit`): from the plan on,
whatever has been written. For `clone-interface` that is the difficult one. A copy is
compared with its original by another branch than the one that made it, so each work
must leave a pair that branch finds equal (`CloneTodo`), with the original made
anycast before there is a copy. A command that is done has reached a NetBox in which
its plan is empty (`Settled`); only `migrate-interface` of a port to itself plans
again what changes nothing (`Self`). No command fails half-way for an interface that
it cannot find by its name (`FindInv`). And a zapped target has a sound tree without
subinterfaces, which leaves `migrate-interface` nothing to refuse but its source, a
tree that is not sound or a cable with several terminations on one side
(`CableForks`). Both theorems assume `EndsDoNotClash`, for the cable; the second says
of `clone-interface` what `Resumable` does: IPv4, and no address twice on an
interface (`AddressedOnce`). That an address record is somewhere is told from None
and Gone by an assumption on names, `PlacesAssumption`.

`TypeCorrect` of `HttpRetry`, `SyncRun` and `SwapCables`, and `OkIsLanded`, are
proved and not among the properties of a run.

Only model-checked: liveness (`CallEnds`, `RunEnds`), since fairness and ENABLED are
out of the prover's reach. Every invariant of a passing run is a theorem; so are its
other action properties.

## 5. Findings

Four disagreements between the code and what it says of itself, each with a run
that shows it. The first two have `reused_ports` in common.

- `migrate-gateway` with one `--target` given twice, for two source ports, moves a
  gateway onto a subinterface in another VRF: the VRF check is for subinterfaces
  that exist before the run, and `created` keeps the second gateway from being
  looked at (`migr_gw.py:278`). The help says that the VRF moves along.
- `migrate-gateway --delete-empty` with a target that is itself a source port
  deletes a subinterface that a gateway was just moved to, and so unassigns it:
  what is emptied is judged by the addresses before the run (`migr_gw.py:357`).
- `set-interface-ip-by-mac --single` for a MAC on an interface of a VM deletes the
  addresses of the device interface with the same id (`set_if_ip.py:144`), if
  the VM's interface has the wanted address already. Otherwise it ends in an
  `AttributeError` before it writes anything.
- `migrate-interface` decides by the id of a termination, and not by its type,
  which end of the cable the source is on (`migr_if.py:79`). When the far end is
  a front port or a power port that has the id of the source interface, that end
  is replaced, and source and target become the two ends of the cable.

Seen on the way, and covered by how properties are stated or situations chosen
rather than by a run. Of `nbsync` in general:

- A write whose connection could not be made is retried, unlike what "reads
  retried, writes never" suggests. It was not sent, so `WriteSentOnce` holds.
- `--keep-going` ends at an item whose API call fails (`command.py:358`): the
  loop catches `StateError`, and what pynetbox raises is made one only outside
  the loop. The help says it carries on. `ExitZeroMeansDone` and
  `FailedItemsWroteNothing` hold for a run that ends there as well.
- A stream plans its second item after it has written the first, unlike what
  the docstring of `connect()` says of every sync command. `NoPlanOverDoubt`
  is what still holds.

Of `migrate-gateway`:

- An address that someone assigns to a source subinterface after the listing was
  made comes loose when the subinterface is deleted as empty: between the prompt
  and the delete nobody looks again. These are the `Strays`.
- A second run with targets that are not in sorted order pairs them with the
  ports differently, and moves the gateways between the targets.
  `SecondRunDoesNothing` is stated for ascending targets for that reason.
- A run with two targets that stops halfway is refused when given again, or pairs
  the ports differently when one source port is empty by then.
- The subinterface that was planned is looked up by name when the gateway moves,
  without another look at its VRF (`migr_gw.py:306`). It takes two changes by
  others, a deletion and a creation, to go wrong, and then `VrfKept` promises
  nothing of that gateway.

Of `swap-cables`:

- An interface without a cable is a traceback and not the `StateError` of
  "insisting that it has a cable" (`swap_cables.py:59`). A run that stopped
  halfway leaves one interface in that state, so it cannot be given again.
- Given again after its last PATCH was executed but its answer was lost, it
  undoes the swap. The model does not start a run while a PATCH of the last one
  is in doubt.

Of `set-interface-ip`:

- With `--force`, an address record that is assigned to nothing ends it in an
  `AttributeError`, since there is no interface to name it after; so does a MAC
  record on nothing, and both end a `--keep-going` stream.
- `--single` deletes before it assigns, so a run that stops in between leaves the
  interface without an address.

Of `clone-interface` and `migrate-interface`:

- `migrate-interface` cannot be given again once a subinterface is on the target:
  its `plan()` ends in an assertion. Zapping the target first, as the help has it,
  then deletes the addresses that were already moved.
- An IPv6 address on the source is cloned the first time and ends the second one
  in the constructor of `IPv4Interface`; the help speaks of IPv4.
- An interface with the same address in two VRFs is cloned the first time and ends
  the second one: the addresses of source and target are paired by address alone.
  That the first one is right is covered by `SuccessMeansDone`.
- Tags and VLANs of source and target always compare as different, which costs a
  PATCH that changes nothing.

Of the lints:

- Two records of a MAC on one subinterface are folded into the port when the port
  has one too, unlike "Records that sit on the *same* interface are all kept"
  (`dup_macs.py:83`). The count of records shows them.
- A LAG that is on another device of a virtual chassis, or is named like a
  subinterface, is not seen to hold the addresses of its members
  (`iface_cables.py:230`); `Holds` leaves these out.
- A torn listing can report what was wrong at no instant. What is in order all
  the time, for one reason, is never reported, which is what is checked.

## 6. Plan

In the order of the work: the two life cycles and the API session, since all
else rests on them; the commands that write, those that move what somebody
depends on first; the index; the lints that combine listings. Each component has
one passing run, and proofs where its steps and not its sequences are what is
difficult. What would come next:

1. Runs of one command on what another one left half done, beyond
   `zap-interface` before `migrate-interface`.
2. Other users who move what a command is about, and not only what is loose or
   empty, for `migrate-gateway` and the commands of `InterfaceCommands`.

## 7. Not modelled

The lints `unattached-cables`, `interface-types`, `interface-vlans`,
`subinterface-labels`, `tenant-names` and `unassigned-ips` look at one record of
one listing at a time: a property of them would be their condition over again.
So it would for `unpaired-interface-tags`, which compares an interface with the
others of one listing, and for `discovered-items`, which is a union of listings.
`config.py` (reads a file once), `recorder.py` (a debugging aid), `cli.py` (help
and completion), the options of the lints, the parsing and the natural order of
names in `types.py`, texts and formatting everywhere, and `contrib/` keep no
state that a property could be about. What `config.py` guarantees of its values
appears as assumptions. The second listing of addresses that
`unattached-interfaces` falls back on for an older NetBox is left out.
